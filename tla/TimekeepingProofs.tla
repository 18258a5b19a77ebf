------------------------- MODULE TimekeepingProofs -------------------------
(***************************************************************************)
(* The clock keeps count of the turns of the counter, for every length of  *)
(* a turn, any number of tasks and any calls, as long as the counter does  *)
(* not wrap while a call is in progress.                                   *)
(***************************************************************************)
EXTENDS Timekeeping, TLAPS

Calls ==
    [pc : {"idle", "lock", "slew", "locked"},
     op : {"none", "gettimeofday", "settimeofday", "adjtime"},
     arg : Int \cup {Invalid}, read : Int, floor : SUBSET Int, held : Int]

States == [offset : Int, last : 0 .. WRAP - 1, delta : Int, start : Int, complete : Int]

TkTypes ==
    /\ counter \in 0 .. WRAP - 1 /\ age \in 0 .. WRAP - 1 /\ ideal \in Int
    /\ tk \in States
    /\ call \in [Caller -> Calls]
    /\ seen \in SUBSET Int

(* The counter is where it was at the last check, and as much further. *)
Aged(c, last, a) == c = IF last + a < WRAP THEN last + a ELSE last + a - WRAP

(* Since the check that a call in progress made, the counter has not wrapped. *)
Checked == \A p \in Caller : call[p].pc \in {"slew", "locked"} => counter >= tk.last

TkInv == TkTypes /\ Aged(counter, tk.last, age) /\ Checked /\ ClockKept

-----------------------------------------------------------------------------
LEMMA QuotientType ==
    ASSUME NEW a \in Int, NEW b \in Nat \ {0}
    PROVE  Quotient(a, b) \in Int
BY DEF Quotient

LEMMA SlewType ==
    ASSUME NEW s \in States, NEW us \in Int
    PROVE  SlewOf(s, us) \in Int
BY QuotientType, TimekeepingAssumption DEF SlewOf, States

LEMMA EnterTypes ==
    ASSUME TkTypes, NEW p \in Caller, NEW arg \in Int \cup {Invalid},
           NEW o \in {"gettimeofday", "settimeofday", "adjtime"}, Enter(p, o, arg)
    PROVE  TkTypes'
<1>1. [pc |-> "lock", op |-> o, arg |-> arg, floor |-> seen, held |-> 0,
       read |-> IF o = "settimeofday" THEN 0 ELSE counter] \in Calls
  BY DEF TkTypes, Calls
<1> QED BY <1>1 DEF Enter, TkTypes

LEMMA GoOnTypes ==
    ASSUME TkTypes, NEW p \in Caller, NEW pc \in {"slew", "locked"}, GoOn(p, pc)
    PROVE  call' \in [Caller -> Calls]
BY DEF GoOn, TkTypes, Calls

LEMMA NotCalledType == NotCalled \in Calls
BY DEF NotCalled, Calls

LEMMA ResetType ==
    ASSUME NEW s \in States
    PROVE  /\ _reset_adjtime_state(s) \in States
           /\ _reset_adjtime_state(s).offset = s.offset
           /\ _reset_adjtime_state(s).last = s.last
<1> DEFINE R(d, b, c) ==
        [offset |-> s.offset, last |-> s.last, delta |-> d, start |-> b, complete |-> c]
<1>1. _reset_adjtime_state(s) = R(0, 0, 0)
  <2>1. s = R(s.delta, s.start, s.complete)
    BY DEF States
  <2>2. [s EXCEPT !.delta = 0] = R(0, s.start, s.complete)
    BY <2>1
  <2>3. [R(0, s.start, s.complete) EXCEPT !.start = 0] = R(0, 0, s.complete)
    OBVIOUS
  <2>4. [R(0, 0, s.complete) EXCEPT !.complete = 0] = R(0, 0, 0)
    OBVIOUS
  <2>5. _reset_adjtime_state(s) = [[[s EXCEPT !.delta = 0] EXCEPT !.start = 0] EXCEPT !.complete = 0]
    BY DEF _reset_adjtime_state
  <2> HIDE DEF R
  <2> QED BY <2>2, <2>3, <2>4, <2>5
<1>2. s.offset \in Int /\ s.last \in 0 .. WRAP - 1
  BY DEF States
<1> QED BY <1>1, <1>2 DEF States

LEMMA SteppedType ==
    ASSUME TkTypes
    PROVE  Stepped \in [Caller -> Calls] /\ \A p \in Caller : Stepped[p].pc = call[p].pc
BY DEF TkTypes, Stepped, Calls

(* The times that set and adjust the clock are numbers. *)
LEMMA ArgType ==
    ASSUME TkTypes, NEW p \in Caller, call[p].arg # Invalid
    PROVE  call[p].arg \in Int /\ call[p].read \in Int
BY DEF TkTypes, Calls

-----------------------------------------------------------------------------
LEMMA InitInv == TkInit => TkInv
<1> SUFFICES ASSUME TkInit PROVE TkInv
  OBVIOUS
<1>1. TkTypes
  BY NotCalledType, TimekeepingAssumption DEF TkInit, TkTypes, States
<1>2. Aged(counter, tk.last, age) /\ ClockKept
  BY TimekeepingAssumption DEF TkInit, Aged, ClockKept
<1>3. Checked
  BY DEF TkInit, Checked, NotCalled
<1> QED BY <1>1, <1>2, <1>3 DEF TkInv

LEMMA EnterInv ==
    ASSUME TkInv, NEW p \in Caller, NEW arg \in Int \cup {Invalid},
           NEW o \in {"gettimeofday", "settimeofday", "adjtime"}, Enter(p, o, arg)
    PROVE  TkInv'
<1>1. TkTypes'
  BY EnterTypes DEF TkInv
<1>2. Aged(counter, tk.last, age)' /\ ClockKept'
  BY DEF TkInv, Enter, ClockKept, Aged
<1>3. Checked'
  BY DEF TkInv, Enter, Checked, TkTypes
<1> QED BY <1>1, <1>2, <1>3 DEF TkInv

LEMMA CheckWrapInv ==
    ASSUME TkInv, NEW p \in Caller, CheckWrap(p)
    PROVE  TkInv'
<1>1. call' \in [Caller -> Calls]
  BY GoOnTypes DEF TkInv, CheckWrap
<1>2. /\ tk' \in States /\ tk'.last = counter
      /\ tk'.offset = IF counter < tk.last THEN tk.offset + WRAP ELSE tk.offset
  <2>1. tk \in States /\ counter \in 0 .. WRAP - 1 /\ WRAP \in Int
    BY TimekeepingAssumption DEF TkInv, TkTypes
  <2>2. tk' = [tk EXCEPT !.last = counter,
                         !.offset = IF counter < tk.last THEN @ + WRAP ELSE @]
    BY DEF CheckWrap
  <2>3. (IF counter < tk.last THEN tk.offset + WRAP ELSE tk.offset) \in Int
    BY <2>1 DEF States
  <2> QED BY <2>1, <2>2, <2>3 DEF States
<1>3. counter' = counter /\ age' = 0 /\ ideal' = ideal /\ seen' = seen
  BY DEF CheckWrap
<1>4. TkTypes'
  BY <1>1, <1>2, <1>3, TimekeepingAssumption DEF TkInv, TkTypes
<1>5. Aged(counter, tk.last, age)'
  BY <1>2, <1>3, TimekeepingAssumption DEF TkInv, TkTypes, Aged
<1>6. ClockKept'
  <2>1. counter \in Int /\ tk.offset \in Int /\ WRAP \in Int /\ tk.last \in Int /\ ideal \in Int
    BY TimekeepingAssumption DEF TkInv, TkTypes, States
  <2> QED BY <1>2, <1>3, <2>1 DEF TkInv, ClockKept
<1>7. Checked'
  BY <1>2, <1>3, <1>4 DEF Checked, TkTypes
<1> QED BY <1>4, <1>5, <1>6, <1>7 DEF TkInv

LEMMA CheckSlewInv ==
    ASSUME TkInv, NEW p \in Caller, CheckSlew(p)
    PROVE  TkInv'
<1>1. call' \in [Caller -> Calls]
  BY GoOnTypes DEF TkInv, CheckSlew
<1>2. counter' = counter /\ age' = age /\ seen' = seen
  BY DEF CheckSlew
<1>3. /\ tk' \in States /\ tk'.last = tk.last
      /\ ideal' \in Int /\ ideal' - ideal = tk'.offset - tk.offset
  <2>1. [tk EXCEPT !.offset = @ + tk.delta] \in States
    BY DEF TkInv, TkTypes, States
  <2>2. CASE tk.complete # 0 /\ counter + tk.offset >= tk.complete
    <3>1. tk' = _reset_adjtime_state([tk EXCEPT !.offset = @ + tk.delta]) /\ ideal' = ideal + tk.delta
      BY <2>2 DEF CheckSlew
    <3>2. tk' \in States /\ tk'.last = tk.last /\ tk'.offset = tk.offset + tk.delta
      BY <2>1, <3>1, ResetType DEF TkInv, TkTypes, States
    <3> QED BY <3>1, <3>2 DEF TkInv, TkTypes, States
  <2>3. CASE ~(tk.complete # 0 /\ counter + tk.offset >= tk.complete)
    <3>1. tk' = tk /\ ideal' = ideal
      BY <2>3 DEF CheckSlew
    <3> QED BY <3>1 DEF TkInv, TkTypes, States
  <2> QED BY <2>2, <2>3
<1>4. TkTypes'
  BY <1>1, <1>2, <1>3 DEF TkInv, TkTypes
<1>5. Aged(counter, tk.last, age)' /\ ClockKept'
  <2>1. /\ counter \in Int /\ tk.offset \in Int /\ tk'.offset \in Int /\ WRAP \in Int
        /\ tk.last \in Int /\ ideal \in Int
    BY <1>3, TimekeepingAssumption DEF TkInv, TkTypes, States
  <2> QED BY <1>2, <1>3, <2>1 DEF TkInv, ClockKept, Aged
<1>6. Checked'
  BY <1>2, <1>3 DEF TkInv, TkTypes, CheckSlew, GoOn, Checked, Calls
<1> QED BY <1>4, <1>5, <1>6 DEF TkInv

LEMMA SetInv ==
    ASSUME TkInv, NEW p \in Caller, _settimeofday_r(p)
    PROVE  TkInv'
<1>1. counter' = counter /\ age' = age
  BY DEF _settimeofday_r
<1>2. /\ call' \in [Caller -> Calls]
      /\ \A q \in Caller : call'[q].pc = call[q].pc \/ call'[q].pc = "idle"
  <2>1. CASE call[p].arg = Invalid
    <3>1. call' = [call EXCEPT ![p] = NotCalled]
      BY <2>1 DEF _settimeofday_r
    <3> QED BY <3>1, NotCalledType DEF TkInv, TkTypes, NotCalled
  <2>2. CASE call[p].arg # Invalid
    <3>1. call' = [Stepped EXCEPT ![p] = NotCalled]
      BY <2>2 DEF _settimeofday_r
    <3> QED BY <3>1, SteppedType, NotCalledType DEF TkInv, NotCalled
  <2> QED BY <2>1, <2>2
<1>3. /\ tk' \in States /\ tk'.last = tk.last /\ seen' \in SUBSET Int /\ ideal' \in Int
      /\ \/ tk'.offset = tk.offset /\ ideal' = ideal
         \/ tk'.offset = ideal' - counter
  <2>1. CASE call[p].arg = Invalid
    BY <2>1 DEF _settimeofday_r, TkInv, TkTypes, States
  <2>2. CASE call[p].arg # Invalid
    <3>1. call[p].arg - counter \in Int /\ call[p].arg \in Int
      BY <2>2, ArgType DEF TkInv, TkTypes
    <3>2. [tk EXCEPT !.offset = call[p].arg - counter] \in States
      BY <3>1 DEF TkInv, TkTypes, States
    <3>3. /\ tk' = _reset_adjtime_state([tk EXCEPT !.offset = call[p].arg - counter])
          /\ ideal' = call[p].arg /\ seen' = {}
      BY <2>2 DEF _settimeofday_r
    <3>4. tk' \in States /\ tk'.last = tk.last /\ tk'.offset = call[p].arg - counter
      BY <3>2, <3>3, ResetType DEF TkInv, TkTypes, States
    <3> QED BY <3>1, <3>3, <3>4
  <2> QED BY <2>1, <2>2
<1>4. TkTypes'
  BY <1>1, <1>2, <1>3 DEF TkInv, TkTypes
<1>5. counter >= tk.last
  BY DEF TkInv, Checked, _settimeofday_r
<1>6. Aged(counter, tk.last, age)' /\ ClockKept'
  <2>1. /\ counter \in Int /\ tk.offset \in Int /\ tk'.offset \in Int /\ WRAP \in Int
        /\ tk.last \in Int /\ ideal \in Int
    BY <1>3, TimekeepingAssumption DEF TkInv, TkTypes, States
  <2> QED BY <1>1, <1>3, <1>5, <2>1 DEF TkInv, ClockKept, Aged
<1>7. Checked'
  BY <1>1, <1>2, <1>3, <1>5 DEF Checked
<1> QED BY <1>4, <1>6, <1>7 DEF TkInv

LEMMA GetInv ==
    ASSUME TkInv, NEW p \in Caller, _gettimeofday_r(p)
    PROVE  TkInv'
<1>1. counter' = counter /\ age' = age /\ tk' = tk /\ ideal' = ideal
      /\ call' = [call EXCEPT ![p] = NotCalled]
  BY DEF _gettimeofday_r
<1>2. seen' \in SUBSET Int
  <2> DEFINE spo   == call[p].read + tk.offset
             value == IF tk.complete = 0 THEN spo ELSE spo + SlewOf(tk, spo - tk.start)
  <2>1. tk \in States /\ spo \in Int /\ tk.start \in Int
    BY DEF TkInv, TkTypes, Calls, States
  <2>2. SlewOf(tk, spo - tk.start) \in Int
    BY <2>1, SlewType
  <2>3. value \in Int
    BY <2>1, <2>2
  <2>4. seen' = IF \A v \in seen : value > v THEN {value} ELSE seen
    BY DEF _gettimeofday_r
  <2> HIDE DEF value
  <2> QED BY <2>3, <2>4 DEF TkInv, TkTypes
<1>3. call' \in [Caller -> Calls] /\ \A q \in Caller : call'[q].pc = call[q].pc \/ call'[q].pc = "idle"
  BY <1>1, NotCalledType DEF TkInv, TkTypes, NotCalled
<1>4. TkTypes'
  BY <1>1, <1>2, <1>3 DEF TkInv, TkTypes
<1>5. Aged(counter, tk.last, age)' /\ ClockKept'
  BY <1>1 DEF TkInv, ClockKept, Aged
<1>6. Checked'
  BY <1>1, <1>3 DEF TkInv, Checked
<1> QED BY <1>4, <1>5, <1>6 DEF TkInv

LEMMA AdjInv ==
    ASSUME TkInv, NEW p \in Caller, _adjtime_r(p)
    PROVE  TkInv'
<1>1. counter' = counter /\ age' = age /\ ideal' = ideal
  BY DEF _adjtime_r
<1>2. /\ call' \in [Caller -> Calls] /\ seen' \in SUBSET Int
      /\ \A q \in Caller : call'[q].pc = call[q].pc \/ call'[q].pc = "idle"
  <2>1. \/ call' = [call EXCEPT ![p] = NotCalled] \/ call' = [Stepped EXCEPT ![p] = NotCalled]
    BY DEF _adjtime_r
  <2>2. call \in [Caller -> Calls] /\ Stepped \in [Caller -> Calls]
        /\ \A q \in Caller : Stepped[q].pc = call[q].pc
    BY SteppedType DEF TkInv, TkTypes
  <2>3. seen' = seen \/ seen' = {}
    BY DEF _adjtime_r
  <2>4. seen' \in SUBSET Int
    BY <2>3 DEF TkInv, TkTypes
  <2>5. NotCalled \in Calls /\ NotCalled.pc = "idle"
    BY NotCalledType DEF NotCalled
  <2>6. CASE call' = [call EXCEPT ![p] = NotCalled]
    BY <2>2, <2>4, <2>5, <2>6
  <2>7. CASE call' = [Stepped EXCEPT ![p] = NotCalled]
    BY <2>2, <2>4, <2>5, <2>7
  <2> QED BY <2>1, <2>6, <2>7
<1>3. tk' \in States /\ tk'.last = tk.last /\ tk'.offset = tk.offset
  <2>0. tk \in States
    BY DEF TkInv, TkTypes
  <2>1. CASE call[p].arg = Invalid
    BY <2>0, <2>1 DEF _adjtime_r
  <2>2. CASE call[p].arg # Invalid
    <3> DEFINE s   == [tk EXCEPT !.delta = call[p].arg, !.start = call[p].read + tk.offset]
               all == call[p].arg * SLEW_PERIOD
               end == s.start + (IF s.delta < 0 THEN -all ELSE all)
    <3>1. call[p].arg \in Int /\ call[p].read + tk.offset \in Int
      BY <2>2, <2>0, ArgType DEF TkInv, States
    <3>2. all \in Int
      BY <3>1, TimekeepingAssumption
    <3>3. s \in States /\ s.start \in Int /\ s.last = tk.last /\ s.offset = tk.offset
      BY <2>0, <3>1 DEF States
    <3>4. tk' = [s EXCEPT !.complete = end]
      BY <2>2 DEF _adjtime_r
    <3> HIDE DEF s, all
    <3>5. end \in Int
      BY <3>2, <3>3
    <3> HIDE DEF end
    <3> QED BY <3>3, <3>4, <3>5 DEF States
  <2> QED BY <2>1, <2>2
<1>4. TkTypes'
  BY <1>1, <1>2, <1>3 DEF TkInv, TkTypes
<1>5. Aged(counter, tk.last, age)' /\ ClockKept'
  BY <1>1, <1>3 DEF TkInv, ClockKept, Aged
<1>6. Checked'
  BY <1>1, <1>2, <1>3 DEF TkInv, Checked
<1> QED BY <1>4, <1>5, <1>6 DEF TkInv

(* The arithmetic of a microsecond: c is the counter, l the last one checked. *)
After(c) == IF c + 1 = WRAP THEN 0 ELSE c + 1

Kept(c, l, offset, time) == c + offset + (IF c < l THEN WRAP ELSE 0) = time

LEMMA MicrosecondNumbers ==
    ASSUME NEW c \in 0 .. WRAP - 1, NEW l \in 0 .. WRAP - 1, NEW a \in 0 .. WRAP - 1,
           NEW offset \in Int, NEW time \in Int,
           Aged(c, l, a), a + 1 < WRAP, Kept(c, l, offset, time)
    PROVE  /\ After(c) \in 0 .. WRAP - 1 /\ a + 1 \in 0 .. WRAP - 1
           /\ Aged(After(c), l, a + 1)
           /\ Kept(After(c), l, offset, time + 1)
           /\ c + 1 < WRAP /\ c >= l => After(c) >= l
BY TimekeepingAssumption DEF Aged, After, Kept

LEMMA MicrosecondInv ==
    ASSUME TkInv, ~WRAP_IN_CALL, Microsecond
    PROVE  TkInv'
<1>1. /\ tk' = tk /\ seen' = seen /\ age' = age + 1 /\ ideal' = ideal + 1
      /\ counter' = After(counter) /\ age + 1 < WRAP
  BY DEF Microsecond, After
<1>2. /\ counter \in 0 .. WRAP - 1 /\ tk.last \in 0 .. WRAP - 1 /\ age \in 0 .. WRAP - 1
      /\ tk.offset \in Int /\ ideal \in Int
      /\ Aged(counter, tk.last, age) /\ Kept(counter, tk.last, tk.offset, ideal)
  BY DEF TkInv, TkTypes, States, ClockKept, Kept
<1>3. /\ counter' \in 0 .. WRAP - 1 /\ age + 1 \in 0 .. WRAP - 1
      /\ Aged(counter', tk.last, age + 1)
      /\ Kept(counter', tk.last, tk.offset, ideal + 1)
      /\ counter + 1 < WRAP /\ counter >= tk.last => counter' >= tk.last
  BY <1>1, <1>2, MicrosecondNumbers
<1>4. call' \in [Caller -> Calls] /\ \A p \in Caller : call'[p].pc = call[p].pc
  BY DEF Microsecond, TkInv, TkTypes, Calls
<1>5. TkTypes'
  BY <1>1, <1>2, <1>3, <1>4 DEF TkInv, TkTypes
<1>6. Aged(counter, tk.last, age)' /\ ClockKept'
  BY <1>1, <1>3 DEF ClockKept, Aged, Kept
<1>7. Checked'
  <2> SUFFICES ASSUME NEW p \in Caller, call'[p].pc \in {"slew", "locked"}
               PROVE  counter' >= tk'.last
    BY DEF Checked
  <2>1. call[p].pc \in {"slew", "locked"}
    BY <1>4
  <2>2. counter + 1 < WRAP
    BY <2>1 DEF Microsecond
  <2>3. counter >= tk.last
    BY <2>1 DEF TkInv, Checked
  <2> QED BY <1>1, <1>3, <2>2, <2>3
<1> QED BY <1>5, <1>6, <1>7 DEF TkInv

-----------------------------------------------------------------------------
(* As long as the counter does not wrap during a call, no turn of it is lost *)
(* or counted twice by _check_system_clock, whatever the tasks call and      *)
(* whenever the counter advances between the steps of a call.                *)
THEOREM ClockKeptThm == ASSUME ~WRAP_IN_CALL PROVE TkSpec => []ClockKept
<1>1. TkInv /\ [TkNext]_tkVars => TkInv'
  <2> SUFFICES ASSUME TkInv, [TkNext]_tkVars PROVE TkInv'
    OBVIOUS
  <2>1. ASSUME NEW p \in Caller, NEW arg \in Int \cup {Invalid},
               Enter(p, "gettimeofday", 0) \/ Enter(p, "settimeofday", arg) \/ Enter(p, "adjtime", arg)
        PROVE  TkInv'
    <3>1. 0 \in Int \cup {Invalid}
      OBVIOUS
    <3> QED BY <2>1, <3>1, EnterInv
  <2>2. ASSUME NEW p \in Caller,
               \/ CheckWrap(p) \/ CheckSlew(p)
               \/ _settimeofday_r(p) \/ _gettimeofday_r(p) \/ _adjtime_r(p)
        PROVE  TkInv'
    BY <2>2, CheckWrapInv, CheckSlewInv, SetInv, GetInv, AdjInv
  <2>3. CASE Microsecond
    BY <2>3, MicrosecondInv
  <2>4. CASE UNCHANGED tkVars
    BY <2>4 DEF tkVars, TkInv, TkTypes, Aged, Checked, ClockKept
  <2> QED BY <2>1, <2>2, <2>3, <2>4 DEF TkNext, TkStep
<1>2. TkInv => ClockKept
  BY DEF TkInv
<1> QED BY <1>1, <1>2, InitInv, PTL DEF TkSpec

=============================================================================
