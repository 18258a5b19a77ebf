------------------------------ MODULE MacTimer ------------------------------
(***************************************************************************)
(* The timers of extras/mactimer, called in the non-maskable interrupt of  *)
(* the MAC timer: a list sorted by trigger count, and one trigger in the   *)
(* hardware for the first of them.  Tasks arm and disarm with the NMI off, *)
(* so each is one step; the handler pops timers until none is due, and the *)
(* counter goes on meanwhile.  The counter is read in two words.           *)
(***************************************************************************)
EXTENDS Integers, Sequences, SequencesExt

CONSTANTS
    MacTimers,      \* the timers
    LOW,            \* the values of the low word of the counter: 2^32
    MAX_COUNT,      \* bound on the counter
    LATE,           \* bound: counts from the trigger to the end of the handler
    READ_GAP        \* bound: counts between two reads of a word of the counter

VARIABLES
    mac,        \* the 64 bit MAC timer count
    timers,     \* timer_list, and trigger_usec of every timer
    hw,         \* the trigger of the hardware, NoTrigger or Missed
    inNmi,      \* "off", "handler", or the timer whose callback runs
    late,       \* counts that the trigger or the handler has waited
    reading     \* a task in mactime_get_count

macVars == <<mac, timers, hw, inNmi, late, reading>>

NoTrigger == -1
Missed == -2
NotReading == [pc |-> "none", from |-> 0, high |-> 0, low |-> 0, value |-> 0, gap |-> 0]

MacInit ==
    /\ mac = 0 /\ timers = [list |-> << >>, at |-> [t \in MacTimers |-> 0]]
    /\ hw = NoTrigger /\ inNmi = "off" /\ late = 0 /\ reading = NotReading

-----------------------------------------------------------------------------
(* Before the first timer that triggers at c or later. *)
mactime_add_pending(l, t, c) ==
    [list |-> InsertAt(l.list, Min({i \in DOMAIN l.list : c - l.at[l.list[i]] < 1} \cup {Len(l.list) + 1}), t),
     at |-> [l.at EXCEPT ![t] = c]]

\* Mutant: the hardware is set for the timer that is armed.
ArmOwnTrigger(t, c) ==
    /\ timers' = mactime_add_pending(timers, t, mac + c)
    /\ hw' = mac + c

(* From a task, with the NMI off. *)
mactimer_arm(t, c) ==
    /\ timers' = mactime_add_pending(timers, t, mac + c)
    /\ hw' = timers'.at[Head(timers'.list)]

(* The trigger of the hardware stays. *)
mactimer_disarm(t) == timers' = [timers EXCEPT !.list = Remove(@, t)]

mactimer_init == timers' = [timers EXCEPT !.list = << >>]

(* The interrupt; a trigger is used up by it. *)
Due == hw >= 0 /\ hw <= mac

MacNmi ==
    /\ inNmi = "off" /\ Due
    /\ inNmi' = "handler" /\ hw' = NoTrigger
    /\ UNCHANGED <<mac, timers, late, reading>>

(* The timer may fail to trigger. *)
MacMissed ==
    /\ inNmi = "off" /\ Due
    /\ hw' = Missed /\ late' = 0
    /\ UNCHANGED <<mac, timers, inNmi, reading>>

(* One turn of the loop of mactimer_handler: a callback, or the end of it. *)
mactimer_handler ==
    /\ inNmi = "handler"
    /\ IF timers.list # << >> /\ timers.at[Head(timers.list)] <= mac
       THEN /\ timers' = [timers EXCEPT !.list = Tail(@)]
            /\ inNmi' = Head(timers.list)
            /\ UNCHANGED <<hw, late>>
       ELSE /\ hw' = IF timers.list # << >> THEN timers.at[Head(timers.list)] ELSE hw
            /\ inNmi' = "off" /\ late' = 0
            /\ UNCHANGED timers
    /\ UNCHANGED <<mac, reading>>

-----------------------------------------------------------------------------
(* mactime_get_count in a task: the high word, the low word, the high word   *)
(* again, and the low word again if the high word has changed.               *)
HighWord == mac \div LOW
LowWord == mac % LOW

ReadHigh1 ==
    /\ reading.pc \in {"none", "done"}
    /\ reading' = [NotReading EXCEPT !.pc = "low", !.from = mac, !.high = HighWord]

ReadLow ==
    /\ reading.pc = "low"
    /\ reading' = [reading EXCEPT !.pc = "high2", !.low = LowWord, !.gap = 0]

ReadHigh2 ==
    /\ reading.pc = "high2"
    /\ reading' = IF reading.high # HighWord
                  THEN [reading EXCEPT !.pc = "again", !.high = HighWord, !.gap = 0]
                  ELSE [reading EXCEPT !.pc = "done", !.value = HighWord * LOW + reading.low, !.gap = 0]

ReadLowAgain ==
    /\ reading.pc = "again"
    /\ reading' = [reading EXCEPT !.pc = "done", !.value = reading.high * LOW + LowWord, !.gap = 0]

mactime_get_count ==
    /\ inNmi = "off"
    /\ ReadHigh1 \/ ReadLow \/ ReadHigh2 \/ ReadLowAgain
    /\ UNCHANGED <<mac, timers, hw, inNmi, late>>

MacTick ==
    /\ mac < MAX_COUNT
    /\ Due \/ inNmi # "off" => late < LATE
    /\ late' = IF Due \/ inNmi # "off" THEN late + 1 ELSE 0
    /\ reading.pc \in {"low", "high2", "again"} => reading.gap < READ_GAP
    /\ reading' = IF reading.pc \in {"low", "high2", "again"} THEN [reading EXCEPT !.gap = @ + 1]
                  ELSE [reading EXCEPT !.pc = "none"]
    /\ mac' = mac + 1
    /\ UNCHANGED <<timers, hw, inNmi>>

-----------------------------------------------------------------------------
(* The list of mactimer.c is sorted and holds no timer twice, the hardware    *)
(* was set to trigger no later than the first of it whenever the handler is   *)
(* not running, and mactime_get_count() returns a value that the counter had      *)
(* during the call, across a carry into its high word.                        *)
TimersCovered ==
    /\ \A j \in DOMAIN timers.list : \A i \in 1 .. j - 1 :
          timers.list[i] # timers.list[j] /\ timers.at[timers.list[i]] <= timers.at[timers.list[j]]
    /\ inNmi = "off" /\ timers.list # << >> => hw # NoTrigger /\ hw <= timers.at[Head(timers.list)]
    /\ reading.pc = "done" => reading.value \in reading.from .. mac

=============================================================================
