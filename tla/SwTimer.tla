------------------------------ MODULE SwTimer ------------------------------
(***************************************************************************)
(* Software timers (FreeRTOS/Source/timers.c).  Tasks send commands to the *)
(* timer service task through a queue; it keeps the running timers in two  *)
(* lists, for this turn of the tick count and for the next, and calls them *)
(* when they expire.  It may be kept from running, and so be late.         *)
(***************************************************************************)
EXTENDS Ticks, Sequences, FiniteSets, FiniteSetsExt, SequencesExt

CONSTANTS
    Timer,          \* the timers
    Periods,        \* the periods they are given, in ticks
    QUEUE_LENGTH,   \* configTIMER_QUEUE_LENGTH
    Never           \* no timer, no wake time

VARIABLES
    now,    \* xTickCount
    lists,  \* [cur |-> pxCurrentTimerList, over |-> pxOverflowTimerList]
    last,   \* xLastTime of prvSampleTimeNow
    cmds,   \* xTimerQueue
    tm,     \* [Timer -> Timer_t, and ghosts: whether it is running, ticks left
            \*  to its next expiry, whether its users want it to run, or have
            \*  deleted it]
    d,      \* the timer service task: where it is, and its local variables
    fired,  \* the timer called in the last step
    swFailed    \* the configASSERT that aborted

swVars == <<now, lists, last, cmds, tm, d, fired, swFailed>>

Command(id, t, value) == [id |-> id, timer |-> t, value |-> value]
NoCommand == Command("none", Never, 0)

Daemon(pc) == [pc |-> pc, next |-> 0, time |-> 0, msg |-> NoCommand, wake |-> Never,
               woken |-> FALSE]

(* Timers as created, one-shot or not; the tick count may be anywhere. *)
SwInit ==
    /\ now \in TickType /\ last = now
    /\ lists = [cur |-> << >>, over |-> << >>]
    /\ cmds = << >> /\ fired = Never /\ swFailed = "none"
    /\ d = Daemon("top")
    /\ tm \in [Timer -> [active : {FALSE}, auto : BOOLEAN, period : Periods,
                         freed : {FALSE}, running : {FALSE}, left : {0},
                         wanted : {FALSE}, deleted : {FALSE}]]

-----------------------------------------------------------------------------
(* The steps of the timer service task. *)

Insert(l, t, at) ==
    LET j == SelectInSeq(l, LAMBDA e : e.at > at)
        e == [timer |-> t, at |-> at]
    IN  IF j = 0 THEN Append(l, e) ELSE InsertAt(l, j, e)

(* prvInsertTimerInActiveList, when TimerExpired does not hold. *)
InsertTimer(l, t, at, time) ==
    IF at <= time THEN [l EXCEPT !.over = Insert(@, t, at)]
                  ELSE [l EXCEPT !.cur = Insert(@, t, at)]

RemoveTimer(l, t) ==
    [cur |-> SelectSeq(l.cur, LAMBDA e : e.timer # t),
     over |-> SelectSeq(l.over, LAMBDA e : e.timer # t)]

(* xTimerGenericCommand by the service task itself, which may not block and  *)
(* asserts that there was room.                                              *)
Reload(t, value) ==
    IF Len(cmds) < QUEUE_LENGTH
    THEN cmds' = Append(cmds, Command("start", t, value)) /\ UNCHANGED swFailed
    ELSE UNCHANGED cmds /\ swFailed' = "queueFull"

NoReload == UNCHANGED <<cmds, swFailed>>

(* The callback of t, with its flag and the ticks that were left.  An        *)
(* auto-reload timer is next due a period on.                                *)
Fire(t, active, left) ==
    /\ fired' = [timer |-> t, left |-> left]
    /\ tm' = [tm EXCEPT ![t].active = active, ![t].running = tm[t].auto,
                        ![t].left = IF tm[t].auto THEN left + tm[t].period ELSE 0]

(* prvSampleTimeNow: go on to `then', by way of prvSwitchTimerLists if the   *)
(* count has wrapped since the last sample.                                  *)
Sample(then) ==
    /\ last' = now
    /\ d' = [d EXCEPT !.time = now, !.pc = IF now < last THEN "switch" \o then ELSE then]

(* One timer left on the current list has expired; the last one done, the    *)
(* lists are switched.                                                       *)
prvSwitchTimerLists ==
    /\ d.pc \in {"switchcmd", "switchexec"}
    /\ IF lists.cur = << >>
       THEN /\ lists' = [cur |-> lists.over, over |-> << >>]
            /\ d' = [d EXCEPT !.pc = IF @ = "switchcmd" THEN "cmd" ELSE "exec"]
            /\ NoReload /\ fired' = Never /\ UNCHANGED tm
       ELSE LET t  == Head(lists.cur).timer
                at == Head(lists.cur).at
                l  == RemoveTimer(lists, t)
                re == Plus(at, tm[t].period)
            IN  /\ Fire(t, tm[t].active, tm[t].left)
                /\ IF tm[t].auto /\ re > at
                   THEN lists' = [l EXCEPT !.cur = Insert(@, t, re)] /\ NoReload
                   ELSE /\ lists' = l
                        /\ IF tm[t].auto THEN Reload(t, at) ELSE NoReload
                /\ UNCHANGED d
    /\ UNCHANGED <<now, last>>

(* prvGetNextExpireTime and prvProcessTimerOrBlockTask, with the scheduler   *)
(* suspended: switch, go on to the expired timer, or wait for a command or   *)
(* the next expiry (the wrap, if the current list is empty).                 *)
prvProcessTimerOrBlockTask ==
    /\ d.pc = "top"
    /\ last' = now
    /\ LET empty == lists.cur = << >>
           next  == IF empty THEN 0 ELSE Head(lists.cur).at
       IN  d' = IF now < last THEN [d EXCEPT !.pc = "switchcmd", !.time = now]
                ELSE IF ~empty /\ next <= now
                THEN [d EXCEPT !.pc = "expired", !.time = now, !.next = next]
                ELSE [d EXCEPT !.pc = "blocked", !.woken = FALSE,
                               !.wake = IF empty /\ lists.over = << >> THEN Never ELSE next]
    /\ fired' = Never
    /\ UNCHANGED <<now, lists, cmds, tm, swFailed>>

Woken ==
    /\ d.pc = "blocked" /\ (d.woken \/ cmds # << >>)
    /\ d' = Daemon("cmd")
    /\ UNCHANGED <<now, lists, last, cmds, tm, fired, swFailed>>

prvProcessExpiredTimer ==
    /\ d.pc = "expired"
    /\ LET t    == Head(lists.cur).timer
           l    == RemoveTimer(lists, t)
           next == Plus(d.next, tm[t].period)
       IN  /\ Fire(t, tm[t].active /\ tm[t].auto, tm[t].left)
           /\ IF ~tm[t].auto THEN lists' = l /\ NoReload
              ELSE IF TimerExpired(d.time, d.next, tm[t].period)
              THEN lists' = l /\ Reload(t, d.next)
              ELSE lists' = InsertTimer(l, t, next, d.time) /\ NoReload
    /\ d' = Daemon("cmd")
    /\ UNCHANGED <<now, last>>

\* Mutant: a timer that is stopped stays on its list.
ReceiveStopLate ==
    /\ d.pc = "cmd"
    /\ IF cmds = << >> THEN d' = Daemon("top") /\ UNCHANGED <<cmds, lists>>
       ELSE /\ d' = [Daemon("sample") EXCEPT !.msg = Head(cmds)]
            /\ cmds' = Tail(cmds)
            /\ lists' = IF Head(cmds).id = "stop" THEN lists
                        ELSE RemoveTimer(lists, Head(cmds).timer)
    /\ fired' = Never
    /\ UNCHANGED <<now, last, tm, swFailed>>

(* prvProcessReceivedCommands: take a command, and its timer off its list; *)
ReceiveCommand ==
    /\ d.pc = "cmd"
    /\ IF cmds = << >> THEN d' = Daemon("top") /\ UNCHANGED <<cmds, lists>>
       ELSE /\ d' = [Daemon("sample") EXCEPT !.msg = Head(cmds)]
            /\ cmds' = Tail(cmds)
            /\ lists' = RemoveTimer(lists, Head(cmds).timer)
    /\ fired' = Never
    /\ UNCHANGED <<now, last, tm, swFailed>>

(* then look at the time, which is not before any command was sent; *)
SampleTime ==
    /\ d.pc = "sample" /\ Sample("exec")
    /\ UNCHANGED <<now, lists, cmds, tm, fired, swFailed>>

(* then carry it out. *)
Start(t, value) ==
    LET next == Plus(value, tm[t].period)
        left == tm[t].period - Minus(now, value)
    IN  IF TimerExpired(d.time, value, tm[t].period)
        THEN /\ Fire(t, TRUE, left)
             /\ IF tm[t].auto THEN Reload(t, next) ELSE NoReload
             /\ UNCHANGED lists
        ELSE /\ fired' = Never
             /\ tm' = [tm EXCEPT ![t].active = TRUE, ![t].running = TRUE, ![t].left = left]
             /\ lists' = InsertTimer(lists, t, next, d.time)
             /\ NoReload

ChangePeriod(t, period) ==
    /\ tm' = [tm EXCEPT ![t].active = TRUE, ![t].running = TRUE, ![t].period = period,
                        ![t].left = period - Minus(now, d.time)]
    /\ lists' = InsertTimer(lists, t, Plus(d.time, period), d.time)
    /\ fired' = Never /\ NoReload

Stop(t, freed) ==
    /\ tm' = [tm EXCEPT ![t].active = FALSE, ![t].running = FALSE, ![t].left = 0,
                        ![t].freed = freed]
    /\ fired' = Never /\ NoReload /\ UNCHANGED lists

Execute ==
    /\ d.pc = "exec"
    /\ LET m == d.msg
       IN  CASE m.id \in {"start", "reset"} -> Start(m.timer, m.value)
             [] m.id = "change" -> ChangePeriod(m.timer, m.value)
             [] m.id = "stop" -> Stop(m.timer, FALSE)
             [] m.id = "delete" -> Stop(m.timer, TRUE)
    /\ d' = Daemon("cmd")
    /\ UNCHANGED <<now, last>>

TimerTask ==
    /\ swFailed = "none"
    /\ \/ prvProcessTimerOrBlockTask \/ Woken \/ prvSwitchTimerLists
       \/ prvProcessExpiredTimer \/ ReceiveCommand \/ SampleTime \/ Execute

-----------------------------------------------------------------------------
(* A user of the timers.  xTimerStart and xTimerReset send the tick count;   *)
(* while a command waits for room in the queue it grows old as one in it     *)
(* does, so a wait is left out.                                              *)

xTimerGenericCommand(id, t, value) ==
    /\ Len(cmds) < QUEUE_LENGTH /\ ~tm[t].deleted
    /\ cmds' = Append(cmds, Command(id, t, value))
    /\ tm' = [tm EXCEPT ![t].wanted = id \notin {"stop", "delete"},
                        ![t].deleted = id = "delete"]
    /\ fired' = Never
    /\ UNCHANGED <<now, lists, last, d, swFailed>>

(* The tick interrupt.  Bounds: the expiry of a running timer is not handled *)
(* more than `late' ticks late, and a timer whose start is on its way is not *)
(* overdue by more than `slack'.                                             *)
SwTick(late, slack) ==
    /\ \A t \in Timer : tm[t].running => tm[t].left > -late
    /\ \A m \in ToSet(cmds) \cup {d.msg} :
          m.id \in {"start", "reset"} => tm[m.timer].period - Minus(now, m.value) > -slack
    /\ now' = Plus(now, 1)
    /\ tm' = [t \in Timer |-> [tm[t] EXCEPT !.left = IF tm[t].running THEN @ - 1 ELSE 0]]
    /\ d' = [d EXCEPT !.woken = @ \/ d.wake = now']
    /\ fired' = Never
    /\ UNCHANGED <<lists, last, cmds, swFailed>>

SwAborted == swFailed # "none" /\ UNCHANGED swVars

-----------------------------------------------------------------------------
(* No callback is early: a timer is called when its period has passed since  *)
(* it was started or last due, however late the service task is and wherever *)
(* the tick count wraps.                                                     *)
CallbackNotEarly == fired # Never => fired.left <= 0

(* The service task does not sleep through an expiry: when it waits for      *)
(* commands, every running timer is still to expire, and no later than the   *)
(* service task wakes.                                                       *)
AsleepInTime ==
    d.pc = "blocked" /\ ~d.woken => \A t \in Timer : tm[t].running =>
        d.wake # Never /\ tm[t].left > 0 /\ Minus(d.wake, now) <= tm[t].left

(* Nothing that was deleted is used: the service task frees a timer when no  *)
(* list and no command refers to it any more.                                *)
FreedTimerUnused ==
    \A t \in Timer : tm[t].freed =>
        t \notin {e.timer : e \in ToSet(lists.cur \o lists.over)} \cup {m.timer : m \in ToSet(cmds)}

(* "xTimerStop() stops a timer that was previously started": once the        *)
(* commands are carried out, a timer whose users have stopped it is stopped. *)
StopHolds ==
    cmds = << >> /\ d.pc \in {"top", "blocked"} =>
        \A t \in Timer : tm[t].running => tm[t].wanted

(* The service task is on time, early or late by no tick of its own: no      *)
(* callback comes before its expiry, and no expiry is slept through.         *)
TimersOnTime == CallbackNotEarly /\ AsleepInTime

(* What users asked for holds when their commands are carried out, in        *)
(* whatever order they meet the expiries: a stopped timer is stopped, and a  *)
(* deleted one is not used again.                                            *)
TimersObeyed == FreedTimerUnused /\ StopHolds

=============================================================================
