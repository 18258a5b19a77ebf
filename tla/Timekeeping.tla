---------------------------- MODULE Timekeeping ----------------------------
(***************************************************************************)
(* The clock of extras/timekeeping: a 32-bit microsecond counter that      *)
(* wraps, an offset to the time of day, and a slew towards a new offset.   *)
(* The functions read the counter several times, and some of them before   *)
(* they take the lock, so it advances, and other tasks call, in between.   *)
(***************************************************************************)
EXTENDS Integers

CONSTANTS
    Caller,         \* the tasks
    WRAP,           \* SYSTEM_CLOCK_WRAP_US: 2^32
    SLEW_PERIOD,    \* ADJTIME_SLEW_PERIOD: 2000
    Invalid,        \* an argument that is refused with EINVAL
    MAX_HELD,       \* bound: the longest a call is held up
    MAX_TIME,       \* bound: the time of day
    WRAP_IN_CALL    \* may the counter wrap during a call?

ASSUME TimekeepingAssumption ==
    /\ WRAP \in Nat \ {0} /\ SLEW_PERIOD \in Nat \ {0}
    /\ Invalid \notin Int

VARIABLES
    counter,    \* GET_SYSTEM_CLOCK_US
    tk,         \* timekeeping_state
    call,       \* [Caller -> the call it is in]
    age,        \* ghost: the time since _check_system_clock last ran
    ideal,      \* ghost: the time of day, once the slew is complete
    seen,       \* ghost: the latest time returned since the clock was stepped,
                \* as a set of at most one time
    told        \* ghost: the time returned by the last step, and the latest
                \* time that had been returned when that call was made

tkVars == <<counter, tk, call, age, ideal, seen, told>>

NotCalled == [pc |-> "idle", op |-> "none", arg |-> 0, read |-> 0, floor |-> {}, held |-> 0]
Untold == [value |-> 0, floor |-> {}]


_reset_adjtime_state(s) == [s EXCEPT !.delta = 0, !.start = 0, !.complete = 0]

TkInit ==
    /\ counter = 0 /\ age = 0 /\ ideal = 0
    /\ tk = [offset |-> 0, last |-> 0, delta |-> 0, start |-> 0, complete |-> 0]
    /\ call = [p \in Caller |-> NotCalled]
    /\ seen = {} /\ told = Untold

(* Division in C, which truncates. *)
Quotient(a, b) == IF a >= 0 THEN a \div b ELSE -((-a) \div b)

SlewOf(s, us) == IF s.delta < 0 THEN -Quotient(us, SLEW_PERIOD) ELSE Quotient(us, SLEW_PERIOD)

-----------------------------------------------------------------------------
(* gettimeofday and adjtime read the counter before they take the lock. *)
Enter(p, op, arg) ==
    /\ call[p].pc = "idle"
    /\ call' = [call EXCEPT ![p] =
                   [pc |-> "lock", op |-> op, arg |-> arg, floor |-> seen, held |-> 0,
                    read |-> IF op = "settimeofday" THEN 0 ELSE counter]]
    /\ told' = Untold
    /\ UNCHANGED <<counter, tk, age, ideal, seen>>

GoOn(p, pc) == call' = [call EXCEPT ![p].pc = pc] /\ told' = Untold

\* Mutant: a counter that has not moved is taken for one that has wrapped.
CheckWrapTwice(p) ==
    /\ call[p].pc = "lock"
    /\ \A r \in Caller : call[r].pc \notin {"slew", "locked"}
    /\ GoOn(p, "slew")
    /\ tk' = [tk EXCEPT !.last = counter,
                        !.offset = IF counter <= tk.last THEN @ + WRAP ELSE @]
    /\ age' = 0
    /\ UNCHANGED <<counter, ideal, seen>>

(* _check_system_clock, with the lock: first the wrap, *)
CheckWrap(p) ==
    /\ call[p].pc = "lock"
    /\ \A r \in Caller : call[r].pc \notin {"slew", "locked"}
    /\ GoOn(p, "slew")
    /\ tk' = [tk EXCEPT !.last = counter,
                        !.offset = IF counter < tk.last THEN @ + WRAP ELSE @]
    /\ age' = 0
    /\ UNCHANGED <<counter, ideal, seen>>

(* then, with the counter read again, the end of a slew. *)
CheckSlew(p) ==
    /\ call[p].pc = "slew"
    /\ GoOn(p, "locked")
    /\ IF tk.complete # 0 /\ counter + tk.offset >= tk.complete
       THEN /\ tk' = _reset_adjtime_state([tk EXCEPT !.offset = @ + tk.delta])
            /\ ideal' = ideal + tk.delta
       ELSE UNCHANGED <<tk, ideal>>
    /\ UNCHANGED <<counter, age, seen>>

(* A step of the clock ends the comparison of the times returned. *)
Stepped == [q \in Caller |-> [call[q] EXCEPT !.floor = {}]]

_settimeofday_r(p) ==
    /\ call[p].pc = "locked" /\ call[p].op = "settimeofday"
    /\ IF call[p].arg = Invalid
       THEN call' = [call EXCEPT ![p] = NotCalled] /\ UNCHANGED <<tk, ideal, seen>>
       ELSE /\ tk' = _reset_adjtime_state([tk EXCEPT !.offset = call[p].arg - counter])
            /\ ideal' = call[p].arg
            /\ seen' = {}
            /\ call' = [Stepped EXCEPT ![p] = NotCalled]
    /\ told' = Untold
    /\ UNCHANGED <<counter, age>>

_gettimeofday_r(p) ==
    /\ call[p].pc = "locked" /\ call[p].op = "gettimeofday"
    /\ LET spo   == call[p].read + tk.offset
           value == IF tk.complete = 0 THEN spo ELSE spo + SlewOf(tk, spo - tk.start)
       IN  /\ told' = [value |-> value, floor |-> call[p].floor]
           /\ seen' = IF \A v \in seen : value > v THEN {value} ELSE seen
    /\ call' = [call EXCEPT ![p] = NotCalled]
    /\ UNCHANGED <<counter, tk, age, ideal>>

(* A new slew starts from clock_offset: of an unfinished one, what was done  *)
(* is dropped with the rest, which steps the clock.                          *)
_adjtime_r(p) ==
    /\ call[p].pc = "locked" /\ call[p].op = "adjtime"
    /\ IF call[p].arg = Invalid
       THEN call' = [call EXCEPT ![p] = NotCalled] /\ UNCHANGED <<tk, seen>>
       ELSE LET s   == [tk EXCEPT !.delta = call[p].arg, !.start = call[p].read + tk.offset]
                all == call[p].arg * SLEW_PERIOD
                step == tk.complete # 0 /\ tk.delta > 0
            IN  /\ tk' = [s EXCEPT !.complete = s.start + (IF s.delta < 0 THEN -all ELSE all)]
                /\ call' = [IF step THEN Stepped ELSE call EXCEPT ![p] = NotCalled]
                /\ seen' = IF step THEN {} ELSE seen
    /\ told' = Untold
    /\ UNCHANGED <<counter, age, ideal>>

(* A microsecond passes.  "the need to call gettimeofday() or adjtime() at   *)
(* least once an hour": _check_system_clock runs in every turn.              *)
Microsecond ==
    /\ age + 1 < WRAP /\ ideal < MAX_TIME
    /\ \A p \in Caller : call[p].pc # "idle" =>
          /\ call[p].held < MAX_HELD
          /\ WRAP_IN_CALL \/ counter + 1 < WRAP
    /\ counter' = IF counter + 1 = WRAP THEN 0 ELSE counter + 1
    /\ age' = age + 1 /\ ideal' = ideal + 1
    /\ call' = [p \in Caller |-> [call[p] EXCEPT !.held = IF call[p].pc = "idle" THEN 0 ELSE @ + 1]]
    /\ told' = Untold
    /\ UNCHANGED <<tk, seen>>

TkStep ==
    \/ \E p \in Caller :
          \/ CheckWrap(p) \/ CheckSlew(p)
          \/ _settimeofday_r(p) \/ _gettimeofday_r(p) \/ _adjtime_r(p)
    \/ Microsecond

(* Any task may make any call. *)
TkNext ==
    \/ \E p \in Caller, arg \in Int \cup {Invalid} :
          Enter(p, "gettimeofday", 0) \/ Enter(p, "settimeofday", arg) \/ Enter(p, "adjtime", arg)
    \/ TkStep

TkSpec == TkInit /\ [][TkNext]_tkVars

-----------------------------------------------------------------------------
(* No turn of the counter is lost or counted twice: the counter and          *)
(* clock_offset, with the turn that the next _check_system_clock will see,   *)
(* are the time that was set, plus the time since, plus completed slews.     *)
ClockKept ==
    counter + tk.offset + (IF counter < tk.last THEN WRAP ELSE 0) = ideal


=============================================================================
