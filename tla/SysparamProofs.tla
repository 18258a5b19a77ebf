--------------------------- MODULE SysparamProofs ---------------------------
(***************************************************************************)
(* Proofs about Sysparam, for every set of keys and values, every region   *)
(* size and any number of power failures.                                  *)
(***************************************************************************)
EXTENDS Sysparam, MinMaxLemmas, FiniteSetTheorems, TLAPS

-----------------------------------------------------------------------------
(* What the searches through a log return.                                  *)

\* A search returns a position it was looking for, or 0.
LEMMA FirstIn ==
    ASSUME NEW n \in Nat, NEW I \in SUBSET (1 .. n)
    PROVE  /\ First(I) \in 0 .. n /\ Last(I) \in 0 .. n
           /\ First(I) # 0 => First(I) \in I
           /\ Last(I) # 0 => Last(I) \in I
           /\ First(I) = 0 <=> I = {}
<1>1. CASE I = {}
  BY <1>1 DEF First, Last
<1>2. CASE I # {}
  <2>1. I \in SUBSET Nat /\ I \in SUBSET (0 .. n)
    OBVIOUS
  <2>2. Min(I) \in I /\ Max(I) \in I
    BY <1>2, <2>1, MinIsLeast, MaxIsGreatest
  <2>3. First(I) = Min(I) /\ Last(I) = Max(I)
    BY <1>2 DEF First, Last
  <2>4. Min(I) \in 1 .. n /\ Max(I) \in 1 .. n
    BY <2>2
  <2>5. First(I) \in I /\ Last(I) \in I
    BY <2>2, <2>3
  <2>6. First(I) \in 1 .. n /\ Last(I) \in 1 .. n
    BY <2>3, <2>4
  <2>7. First(I) # 0 /\ First(I) \in 0 .. n /\ Last(I) \in 0 .. n
    BY <2>6
  <2> QED
    BY <1>2, <2>5, <2>7
<1> QED
  BY <1>1, <1>2

\* _find_key() returns the position of a live key entry with that name.
LEMMA FindKeyFinds ==
    ASSUME NEW L \in Seq(Entries), NEW k
    PROVE  /\ FindKey(L, k) \in 0 .. Len(L)
           /\ FindKey(L, k) # 0 =>
                LiveKey(L[FindKey(L, k)]) /\ L[FindKey(L, k)].data = k
<1> DEFINE I == {i \in 1 .. Len(L) : LiveKey(L[i]) /\ L[i].data = k}
<1>1. I \in SUBSET (1 .. Len(L)) /\ Len(L) \in Nat
  OBVIOUS
<1>2. First(I) \in 0 .. Len(L) /\ (First(I) # 0 => First(I) \in I)
  <2> HIDE DEF I
  <2> QED
    BY <1>1, FirstIn
<1> QED
  BY <1>2 DEF FindKey

\* _find_value() returns the position of a live value with that id, further
\* on in the log.
LEMMA FindValueFinds ==
    ASSUME NEW L \in Seq(Entries), NEW i \in Nat, NEW id
    PROVE  /\ FindValue(L, i, id) \in 0 .. Len(L)
           /\ FindValue(L, i, id) # 0 =>
                /\ FindValue(L, i, id) > i
                /\ LiveValue(L[FindValue(L, i, id)])
                /\ L[FindValue(L, i, id)].id = id
<1> DEFINE I == {j \in i + 1 .. Len(L) : LiveValue(L[j]) /\ L[j].id = id}
<1>1. I \in SUBSET (1 .. Len(L)) /\ Len(L) \in Nat
  OBVIOUS
<1>2. First(I) \in 0 .. Len(L) /\ (First(I) # 0 => First(I) \in I)
  <2> HIDE DEF I
  <2> QED
    BY <1>1, FirstIn
<1> QED
  BY <1>2 DEF FindValue

\* sysparam_get_data() returns a payload of the log, or nothing.
LEMMA LookupType ==
    ASSUME NEW L \in Seq(Entries), NEW k
    PROVE  Lookup(L, k) \in Keys \cup Values \cup {None}
<1> DEFINE ki == FindKey(L, k)
           vi == IF ki = 0 THEN 0 ELSE FindValue(L, ki, L[ki].id)
<1>1. ki \in 0 .. Len(L)
  BY FindKeyFinds
<1>2. vi \in 0 .. Len(L)
  BY <1>1, FindValueFinds
<1>3. vi # 0 => L[vi] \in Entries
  BY <1>2
<1>4. Lookup(L, k) = IF vi = 0 THEN None ELSE L[vi].data
  BY DEF Lookup
<1> QED
  BY <1>3, <1>4 DEF Entries

\* sysparam_iter_next() returns a live key that has a value, further on.
LEMMA NextPairFinds ==
    ASSUME NEW L \in Seq(Entries), NEW i \in Nat
    PROVE  /\ NextPair(L, i) \in 0 .. Len(L)
           /\ NextPair(L, i) # 0 =>
                /\ NextPair(L, i) > i
                /\ LiveKey(L[NextPair(L, i)])
                /\ FindValue(L, NextPair(L, i), L[NextPair(L, i)].id) # 0
<1> DEFINE I == {j \in i + 1 .. Len(L) :
                   LiveKey(L[j]) /\ FindValue(L, j, L[j].id) # 0}
<1>1. I \in SUBSET (1 .. Len(L)) /\ Len(L) \in Nat
  OBVIOUS
<1>2. First(I) \in 0 .. Len(L) /\ (First(I) # 0 => First(I) \in I)
  <2> HIDE DEF I
  <2> QED
    BY <1>1, FirstIn
<1> QED
  BY <1>2 DEF NextPair

\* The counters of _find_entry() are numbers.
LEMMA CountersType ==
    ASSUME NEW L \in Seq(Entries)
    PROVE  MaxKeyId(L) \in Nat /\ UnusedKeys(L) \in Int
<1>1. MaxKeyId(L) \in Nat
  <2> DEFINE I == {j \in 1 .. Len(L) : LiveKey(L[j])}
             m == Last(I)
  <2>1. I \in SUBSET (1 .. Len(L)) /\ Len(L) \in Nat
    OBVIOUS
  <2>2. MaxKeyId(L) = IF m = 0 THEN 0 ELSE L[m].id
    BY DEF MaxKeyId
  <2> HIDE DEF I
  <2>3. m \in 0 .. Len(L)
    BY <2>1, FirstIn
  <2> HIDE DEF m
  <2>4. m # 0 => L[m] \in Entries
    BY <2>3
  <2> QED
    BY <2>2, <2>4 DEF Entries
<1>2. UnusedKeys(L) \in Int
  <2>1. IsFiniteSet(1 .. Len(L))
    BY FS_Interval
  <2>2. \A T \in SUBSET (1 .. Len(L)) : Cardinality(T) \in Nat
    BY <2>1, FS_Subset, FS_CardinalityType
  <2> QED
    BY <2>2 DEF UnusedKeys
<1> QED
  BY <1>1, <1>2

\* The end that sysparam_init() finds is inside the log, and short of its last
\* entry only if it met an impossible one.
LEMMA EndOfType ==
    ASSUME NEW L \in Seq(Entries)
    PROVE  /\ EndOf(L) \in 0 .. Len(L)
           /\ Torn(L) \/ EndOf(L) = Len(L)
<1> DEFINE I == {i \in 1 .. Len(L) : IsTorn(L[i])}
<1>1. I \in SUBSET (1 .. Len(L)) /\ Len(L) \in Nat
  OBVIOUS
<1>2. First(I) \in 0 .. Len(L)
  <2> HIDE DEF I
  <2> QED
    BY <1>1, FirstIn
<1> QED
  BY <1>2 DEF EndOf, Torn, FirstTorn

-----------------------------------------------------------------------------
(* What the flash operations do to the logs.                                *)

\* A flash operation on one region leaves the log of the other as it is.
LEMMA ReplaceLog ==
    ASSUME log \in [Regions -> Seq(Entries)],
           NEW r \in Regions, NEW M \in Seq(Entries),
           log' = [log EXCEPT ![r] = M]
    PROVE  /\ log' \in [Regions -> Seq(Entries)]
           /\ log'[r] = M
           /\ log'[Other(r)] = log[Other(r)]
  BY DEF Regions, Other

\* _write_entry() of a header extends the log of one region by one entry,
\* after the entries before the address it is written to.
LEMMA PutHeaderLog ==
    ASSUME log \in [Regions -> Seq(Entries)],
           NEW r \in Regions, NEW n \in 0 .. Len(log[r]), NEW e \in Entries,
           PutHeader(r, n, e)
    PROVE  /\ log' \in [Regions -> Seq(Entries)]
           /\ Len(log'[r]) = n + 1
           /\ log'[Other(r)] = log[Other(r)]
<1> DEFINE s == SubSeq(log[r], 1, n)
<1>1. log[r] \in Seq(Entries) /\ n \in Nat /\ n <= Len(log[r])
  OBVIOUS
<1>2. s \in Seq(Entries) /\ Len(s) = n
  BY <1>1
<1>3. Append(s, e) \in Seq(Entries) /\ Len(Append(s, e)) = n + 1
  BY <1>2
<1>4. log' = [log EXCEPT ![r] = Append(s, e)]
  BY DEF PutHeader
<1> QED
  BY <1>3, <1>4, ReplaceLog

\* Marking an entry of one log as valid or dead changes its state only.
LEMMA MarkLog ==
    ASSUME log \in [Regions -> Seq(Entries)],
           NEW r \in Regions, NEW i \in Nat, NEW st \in EntryStates,
           log' = [log EXCEPT ![r] = [@ EXCEPT ![i].st = st]]
    PROVE  /\ log' \in [Regions -> Seq(Entries)]
           /\ Len(log'[r]) = Len(log[r])
           /\ log'[Other(r)] = log[Other(r)]
<1> DEFINE L == log[r]
           M == [L EXCEPT ![i].st = st]
<1>1. L \in Seq(Entries)
  OBVIOUS
<1>2. M \in Seq(Entries) /\ Len(M) = Len(L)
  <2>1. CASE i \in 1 .. Len(L)
    <3>1. L[i] \in Entries
      BY <1>1, <2>1
    <3>2. [L[i] EXCEPT !.st = st] \in Entries
      BY <3>1 DEF Entries
    <3> QED
      BY <1>1, <2>1, <3>2
  <2>2. CASE i \notin 1 .. Len(L)
    <3>1. DOMAIN L = 1 .. Len(L)
      BY <1>1
    <3>2. M = L
      BY <1>1, <2>2, <3>1
    <3> QED
      BY <1>1, <3>2
  <2> QED
    BY <2>1, <2>2
<1>3. log' = [log EXCEPT ![r] = M]
  OBVIOUS
<1> HIDE DEF M
<1>4. /\ log' \in [Regions -> Seq(Entries)]
      /\ log'[r] = M
      /\ log'[Other(r)] = log[Other(r)]
  BY <1>2, <1>3, ReplaceLog
<1> QED
  BY <1>2, <1>4

-----------------------------------------------------------------------------
(* The invariant of the log.                                                *)

CopySteps == {"ckey", "ckeybody", "cval", "cvalbody"}

\* An operation in progress has a region; a boot has none yet.
BaseInv ==
    /\ pc \in SetSteps \cup CompactSteps => cur \in Regions
    /\ pc \in BootSteps \cup FormatSteps => cur = NoBase

\* end_addr is inside the log, and short of its last entry only while
\* force_compact is set; never while an entry is being written.
EndInv ==
    /\ cur \in Regions => end <= Len(log[cur])
    /\ cur \in Regions => force \/ end = Len(log[cur])
    /\ pc \in {"wkey", "wkeybody", "wval"} => end = Len(log[cur])

Setting ==
    \/ pc \in SetSteps \ {"delete"}
    \/ pc \in CompactSteps /\ cp.back # "idle"

\* A set in progress, also while it compacts, has a key and a value, and an
\* id by the time the value is written.
ArgInv ==
    /\ Setting => arg.key \in Keys /\ arg.val \in Values
    /\ pc \in {"wkeybody", "wval"} => ctx.kid # NoId

\* The iterator of _compact_params() is at a key that has a value.
CopyInv ==
    pc \in CopySteps =>
        /\ cp.src \in 1 .. Len(log[cur])
        /\ FindValue(log[cur], cp.src, log[cur][cp.src].id) # 0

\* sysparam_init() re-creates a region that has no header.
BootInv ==
    pc \in {"berase", "berase2", "bstale"} => \E r \in Regions : ~Magic(r)

LogInv == TypeOK /\ BaseInv /\ EndInv /\ ArgInv /\ CopyInv /\ BootInv


\* The start of the program satisfies the invariant.
LEMMA LogInvInit == Init => LogInv
<1> SUFFICES ASSUME Init PROVE LogInv
  OBVIOUS
<1>1. TypeOK
  <2>1. /\ hdr \in [Regions -> HeaderStates]
        /\ log \in [Regions -> Seq(Entries)]
        /\ junk \in [Regions -> BOOLEAN]
    BY DEF Init, HeaderStates
  <2>2. /\ cur \in Regions \cup {NoBase} /\ end \in Nat /\ force \in BOOLEAN
        /\ pc \in BootSteps /\ res \in Statuses
    BY DEF Init, BootSteps, Statuses
  <2>3. /\ ctx \in [kid: Nat \cup {NoId}, old: Nat, oldreg: Regions, max: Nat,
                    unused: Int]
        /\ cp \in [src: Nat, nid: Nat, back: {"idle", "full", "force", "wkey"}]
        /\ arg \in [key: Keys \cup {None}, val: Values \cup {None},
                    was: Keys \cup Values \cup {None}]
    BY DEF Init, NoCtx, NoCp, NoArg, Regions
  <2>4. faults \in [crashes: 0 .. MaxCrashes, errors: 0 .. MaxErrors,
                    reformats: 0 .. MaxReformats]
    BY ConstantAssumption DEF Init
  <2> QED
    BY <2>1, <2>2, <2>3, <2>4 DEF TypeOK
<1>2. BaseInv /\ EndInv /\ ArgInv /\ CopyInv /\ BootInv
  BY DEF Init, BaseInv, BootInv, EndInv, ArgInv, CopyInv, Setting, CopySteps, NoBase,
         SetSteps, CompactSteps, BootSteps, FormatSteps, Regions
<1> QED
  BY <1>1, <1>2 DEF LogInv

\* Operations start in a region and keep one, boots end with one.
LEMMA BaseNext == LogInv /\ Next => BaseInv'
<1> SUFFICES ASSUME LogInv, Next PROVE BaseInv'
  OBVIOUS
<1> USE DEF LogInv, TypeOK, BaseInv, SetSteps, CompactSteps, BootSteps,
            FormatSteps, Regions, NoBase, NoCp, flash, info, Return,
            StartCompact, NextCopy, FinishInit
<1>1. CASE SetStep
  BY <1>1 DEF SetStep, SetSpace, SetFull, SetForce, SetWriteKey,
     SetWriteKeyBody, SetWriteValue, SetWriteValueBody, SetDelete
<1>2. CASE CompactStep
  <2>1. CASE CompactSwitch
    <3>1. cur' \in Regions
      BY <2>1 DEF CompactSwitch, Alt, Other
    <3>2. pc' \in {"idle", "full", "force", "wkey"}
      BY <2>1 DEF CompactSwitch
    <3> QED
      BY <3>1, <3>2
  <2>2. CASE ~CompactSwitch
    BY <1>2, <2>2 DEF CompactStep, CompactErase, CompactErase2, CompactKey,
       CompactKeyBody, CompactValue, CompactValueBody, CompactActivate
  <2> QED
    BY <2>1, <2>2
<1>3. CASE BootStep
  BY <1>3 DEF BootStep, BootInit, BootErase, BootErase2, BootStale,
     CreateFirst, CreateSecond, ReformatErase
<1>4. CASE Call
  BY <1>4 DEF Call, SetStart, CompactStart, NotInitialised, ReformatStart
<1>5. CASE Crash
  BY <1>5 DEF Crash
<1>6. CASE FlashError
  BY <1>6 DEF FlashError
<1> QED
  BY <1>1, <1>2, <1>3, <1>4, <1>5, <1>6 DEF Next, Step

\* The region without a header stays without until it gets its header.
LEMMA BootNext == LogInv /\ Next => BootInv'
<1> SUFFICES ASSUME LogInv, Next, pc' \in {"berase", "berase2", "bstale"}
             PROVE  BootInv'
  BY DEF BootInv
<1>1. BootInit \/ BootErase \/ BootErase2
  <2>1. ~FlashError /\ ~Crash
    BY DEF FlashError, Return, Crash
  <2>2. ~Call
    BY DEF Call, SetStart, CompactStart, NotInitialised, ReformatStart,
           StartCompact, Return
  <2>3. ~CompactStep
    BY DEF CompactStep, CompactErase, CompactErase2, CompactKey,
           CompactKeyBody, CompactValue, CompactValueBody, CompactActivate,
           CompactSwitch, NextCopy, Return, LogInv, TypeOK
  <2>4. ~SetStep
    BY DEF SetStep, SetSpace, SetFull, SetForce, SetWriteKey, SetWriteKeyBody,
           SetWriteValue, SetWriteValueBody, SetDelete, StartCompact, Return
  <2>5. ~BootStale /\ ~CreateFirst /\ ~CreateSecond /\ ~ReformatErase
    BY DEF BootStale, CreateFirst, CreateSecond, ReformatErase, FinishInit,
           Return
  <2> QED
    BY <2>1, <2>2, <2>3, <2>4, <2>5 DEF Next, Step, BootStep
<1>2. CASE BootInit
  <2>1. \E r \in Regions : ~Magic(r)
    BY <1>2 DEF BootInit, Regions, Other, FinishInit, Return
  <2> QED
    BY <1>2, <2>1 DEF BootInv, BootInit, flash, Magic
<1>3. CASE BootErase
  <2>1. Lost \in Regions
    BY <1>3 DEF BootErase, Lost, LogInv, BootInv
  <2>2. hdr'[Lost] = "blank"
    BY <1>3, <2>1 DEF BootErase, EraseFirst, LogInv, TypeOK
  <2> QED
    BY <2>1, <2>2 DEF BootInv, Magic
<1>4. CASE BootErase2
  BY <1>4 DEF BootErase2, EraseRest, LogInv, BootInv, Magic
<1> QED
  BY <1>1, <1>2, <1>3, <1>4

\* A set keeps its key, its value and, once it has one, its id.
LEMMA ArgNext == LogInv /\ Next => ArgInv'
<1> SUFFICES ASSUME LogInv, Next PROVE ArgInv'
  OBVIOUS
<1> USE DEF LogInv, TypeOK, ArgInv, Setting, SetSteps, CompactSteps,
            BootSteps, FormatSteps, NoCp, NoId, flash, info, Return,
            StartCompact, NextCopy, FinishInit
<1>1. CASE SetStep
  <2>1. CASE SetWriteKey
    <3>1. CASE ctx.kid # NoId
      BY <2>1, <3>1 DEF SetWriteKey
    <3>2. CASE ctx.kid = NoId
      <4>1. ctx'.kid = ctx.max + 1 /\ ctx.max \in Nat
        BY <2>1, <3>2 DEF SetWriteKey
      <4> QED
        BY <2>1, <3>2, <4>1 DEF SetWriteKey
    <3> QED
      BY <3>1, <3>2
  <2>2. CASE SetSpace \/ SetFull \/ SetForce \/ SetDelete
    BY <2>2 DEF SetSpace, SetFull, SetForce, SetDelete
  <2>3. CASE SetWriteKeyBody \/ SetWriteValue \/ SetWriteValueBody
    BY <2>3 DEF SetWriteKeyBody, SetWriteValue, SetWriteValueBody
  <2> QED
    BY <1>1, <2>1, <2>2, <2>3 DEF SetStep
<1>2. CASE CompactStep
  <2>1. CASE CompactErase \/ CompactErase2 \/ CompactActivate
    BY <2>1 DEF CompactErase, CompactErase2, CompactActivate
  <2>2. CASE CompactKey
    BY <2>2 DEF CompactKey
  <2>3. CASE CompactKeyBody
    BY <2>3 DEF CompactKeyBody
  <2>4. CASE CompactValue \/ CompactValueBody
    BY <2>4 DEF CompactValue, CompactValueBody
  <2>5. CASE CompactSwitch
    BY <2>5 DEF CompactSwitch
  <2> QED
    BY <1>2, <2>1, <2>2, <2>3, <2>4, <2>5 DEF CompactStep
<1>3. CASE BootStep
  BY <1>3 DEF BootStep, BootInit, BootErase, BootErase2, BootStale,
     CreateFirst, CreateSecond, ReformatErase
<1>4. CASE Call
  <2>1. CASE CompactStart \/ NotInitialised \/ ReformatStart
    <3>1. \/ pc' = "cerase" /\ cp'.back = "idle"
          \/ pc' \in {"idle", "format0"}
      <4>1. CASE CompactStart
        BY <4>1 DEF CompactStart
      <4>2. CASE NotInitialised
        BY <4>2 DEF NotInitialised
      <4>3. CASE ReformatStart
        BY <4>3 DEF ReformatStart
      <4> QED
        BY <2>1, <4>1, <4>2, <4>3
    <3> QED
      BY <3>1
  <2>2. ASSUME NEW k \in Keys, NEW v \in Values, SetStart(k, v)
        PROVE  ArgInv'
    BY <2>2 DEF SetStart
  <2>3. ASSUME NEW k \in Deletable, SetStart(k, None)
        PROVE  ArgInv'
    BY <2>3 DEF SetStart
  <2> QED
    BY <1>4, <2>1, <2>2, <2>3 DEF Call
<1>5. CASE Crash
  BY <1>5 DEF Crash
<1>6. CASE FlashError
  BY <1>6 DEF FlashError
<1> QED
  BY <1>1, <1>2, <1>3, <1>4, <1>5, <1>6 DEF Next, Step

\* An operation changes the log of its own region only at its end, where
\* end_addr follows it, or in place; a compaction only changes the other one.
LogChange ==
    /\ log' \in [Regions -> Seq(Entries)]
    /\ cur \in Regions /\ cur' = cur =>
         \/ end' = end /\ Len(log'[cur]) = Len(log[cur])
         \/ end' = end + 1 /\ Len(log'[cur]) = end + 1
    /\ pc \in CompactSteps \ {"cstale"} => log'[cur] = log[cur]

LEMMA LogNext == LogInv /\ Next => LogChange
<1> SUFFICES ASSUME LogInv, Next PROVE LogChange
  OBVIOUS
<1>0. log \in [Regions -> Seq(Entries)] /\ end \in Nat
  BY DEF LogInv, TypeOK
<1>a. ASSUME UNCHANGED <<log, end>>
      PROVE  LogChange
  BY <1>0, <1>a DEF LogChange
<1>b. ASSUME cur \in Regions
      PROVE  Alt \in Regions /\ Other(Alt) = cur /\ Alt # cur
  BY <1>b DEF Alt, Other, Regions
<1>c. ASSUME cur \in Regions, pc \notin CompactSteps, end' = end + 1,
             NEW e \in Entries, PutHeader(cur, end, e)
      PROVE  LogChange
  <2>1. end \in 0 .. Len(log[cur])
    BY <1>0, <1>c DEF LogInv, EndInv
  <2> QED
    BY <1>0, <1>c, <2>1, PutHeaderLog DEF LogChange
<1>d. ASSUME cur \in Regions, UNCHANGED <<cur, end>>,
             NEW e \in Entries, PutHeader(Alt, Len(log[Alt]), e)
      PROVE  LogChange
  <2>1. log' \in [Regions -> Seq(Entries)] /\ log'[cur] = log[cur]
    BY <1>0, <1>b, <1>d, PutHeaderLog
  <2> QED
    BY <1>d, <2>1 DEF LogChange
<1>e. ASSUME cur \in Regions, pc \notin CompactSteps, end' = end,
             NEW i \in Nat, NEW st \in EntryStates,
             log' = [log EXCEPT ![cur] = [@ EXCEPT ![i].st = st]]
      PROVE  LogChange
  BY <1>0, <1>e, MarkLog DEF LogChange
<1>f. ASSUME cur \in Regions, UNCHANGED <<cur, end>>, PutBody(Alt)
      PROVE  LogChange
  <2>1. Len(log[Alt]) \in Nat
    BY <1>0, <1>b, <1>f
  <2>2. log' = [log EXCEPT ![Alt] = [@ EXCEPT ![Len(log[Alt])].st = "live"]]
    BY <1>f DEF PutBody
  <2>3. log' \in [Regions -> Seq(Entries)] /\ log'[cur] = log[cur]
    BY <1>0, <1>b, <1>f, <2>1, <2>2, MarkLog DEF EntryStates
  <2> QED
    BY <1>f, <2>3 DEF LogChange
<1>g. ASSUME cur \in Regions, pc \notin CompactSteps, end' = end, PutBody(cur)
      PROVE  LogChange
  <2>1. Len(log[cur]) \in Nat
    BY <1>0, <1>g
  <2>2. log' = [log EXCEPT ![cur] = [@ EXCEPT ![Len(log[cur])].st = "live"]]
    BY <1>g DEF PutBody
  <2> QED
    BY <1>e, <1>g, <2>1, <2>2 DEF EntryStates
<1>h. ASSUME cur \in Regions, pc \notin CompactSteps, end' = end, DeleteOld
      PROVE  LogChange
  <2>1. ctx.old \in Nat
    BY DEF LogInv, TypeOK
  <2>2. CASE ctx.oldreg = cur
    BY <1>e, <1>h, <2>1, <2>2 DEF DeleteOld, EntryStates
  <2>3. CASE ctx.oldreg # cur
    BY <1>a, <1>h, <2>3 DEF DeleteOld
  <2> QED
    BY <2>2, <2>3
<1>i. ASSUME cur \notin Regions, pc \notin CompactSteps, NEW r,
             EraseFirst(r) \/ EraseRest(r)
      PROVE  LogChange
  <2>0. <<>> \in Seq(Entries)
    OBVIOUS
  <2>1. CASE EraseFirst(r) /\ r \in Regions
    <3>1. log' = [log EXCEPT ![r] = <<>>]
      BY <2>1 DEF EraseFirst
    <3>2. log' \in [Regions -> Seq(Entries)]
      BY <1>0, <2>0, <2>1, <3>1, ReplaceLog
    <3> QED
      BY <1>i, <3>2 DEF LogChange
  <2>2. CASE EraseRest(r) \/ r \notin Regions
    <3>1. log' = log
      BY <1>0, <1>i, <2>2 DEF EraseFirst, EraseRest
    <3> QED
      BY <1>0, <1>i, <3>1 DEF LogChange
  <2> QED
    BY <1>i, <2>1, <2>2
<1>r. /\ pc \in SetSteps \cup CompactSteps => cur \in Regions
      /\ pc \in BootSteps \cup FormatSteps => cur \notin Regions
  BY DEF LogInv, BaseInv, NoBase, Regions
<1> USE DEF SetSteps, CompactSteps, BootSteps, FormatSteps
<1>1. CASE SetStep
  <2>1. CASE SetSpace \/ SetFull \/ SetForce
    BY <1>a, <2>1 DEF SetSpace, SetFull, SetForce, flash, info
  <2>2. CASE SetWriteKey
    <3>1. CASE ctx.kid # NoId
      BY <1>a, <2>2, <3>1 DEF SetWriteKey
    <3>2. CASE ctx.kid = NoId
      <4>1. NewEntry(FALSE, ctx.max + 1, arg.key) \in Entries
        BY SMTT(30), <2>2 DEF SetWriteKey, LogInv, TypeOK, ArgInv, Setting, NewEntry,
                    Entries, EntryStates
      <4> QED
        BY <1>c, <1>r, <2>2, <3>2, <4>1 DEF SetWriteKey
    <3> QED
      BY <3>1, <3>2
  <2>3. CASE SetWriteValue
    <3>1. NewEntry(TRUE, ctx.kid, arg.val) \in Entries
      BY <2>3 DEF SetWriteValue, LogInv, TypeOK, ArgInv, Setting, NewEntry,
                  Entries, EntryStates
    <3> QED
      BY <1>c, <1>r, <2>3, <3>1 DEF SetWriteValue
  <2>4. CASE SetWriteKeyBody \/ SetWriteValueBody
    BY <1>g, <1>r, <2>4 DEF SetWriteKeyBody, SetWriteValueBody, info
  <2>5. CASE SetDelete
    BY <1>h, <1>r, <2>5 DEF SetDelete, info
  <2> QED
    BY <1>1, <2>1, <2>2, <2>3, <2>4, <2>5 DEF SetStep
<1>2. CASE CompactStep
  <2>1. CASE CompactErase
    <3>1. log' = [log EXCEPT ![Alt] = <<>>] /\ UNCHANGED <<cur, end>>
      BY <2>1 DEF CompactErase, EraseFirst, info
    <3>2. log' \in [Regions -> Seq(Entries)] /\ log'[cur] = log[cur]
      BY <1>0, <1>b, <1>r, <2>1, <3>1, ReplaceLog DEF CompactErase
    <3> QED
      BY <3>1, <3>2 DEF LogChange
  <2>2. CASE CompactErase2 \/ CompactActivate
    BY <1>a, <2>2 DEF CompactErase2, CompactActivate, EraseRest, info
  <2>3. CASE CompactKey
    <3>1. NewEntry(FALSE, cp.nid + 1, log[cur][cp.src].data) \in Entries
      <4>1. log[cur][cp.src] \in Entries
        BY <1>0, <1>r, <2>3 DEF CompactKey, LogInv, CopyInv, CopySteps
      <4> QED
        BY SMTT(30), <4>1 DEF LogInv, TypeOK, NewEntry, Entries, EntryStates
    <3> QED
      BY <1>d, <1>r, <2>3, <3>1 DEF CompactKey, info
  <2>4. CASE CompactValue
    <3> DEFINE vi == FindValue(log[cur], cp.src, log[cur][cp.src].id)
    <3>1. vi \in 1 .. Len(log[cur])
      <4>1. log[cur] \in Seq(Entries) /\ cp.src \in Nat /\ vi # 0
        BY <1>0, <1>r, <2>4
           DEF CompactValue, LogInv, TypeOK, CopyInv, CopySteps
      <4> QED
        BY <4>1, FindValueFinds
    <3>2. log[cur][vi] \in Entries
      BY SMTT(30), <1>0, <1>r, <2>4, <3>1 DEF CompactValue
    <3>3. NewEntry(TRUE, cp.nid, log[cur][vi].data) \in Entries
      BY <3>2 DEF LogInv, TypeOK, NewEntry, Entries, EntryStates
    <3> QED
      BY <1>d, <1>r, <2>4, <3>3 DEF CompactValue, info
  <2>5. CASE CompactKeyBody \/ CompactValueBody
    BY <1>f, <1>r, <2>5 DEF CompactKeyBody, CompactValueBody, info
  <2>6. CASE CompactSwitch
    <3>1. log' = [log EXCEPT ![cur] = <<>>] /\ cur' = Alt
      BY <2>6 DEF CompactSwitch, Forget
    <3>2. log' \in [Regions -> Seq(Entries)]
      <4>1. cur \in Regions /\ <<>> \in Seq(Entries)
        BY <1>r, <2>6 DEF CompactSwitch
      <4> QED
        BY <1>0, <3>1, <4>1, ReplaceLog
    <3> QED
      BY <1>b, <1>r, <2>6, <3>1, <3>2 DEF CompactSwitch, LogChange
  <2> QED
    BY <1>2, <2>1, <2>2, <2>3, <2>4, <2>5, <2>6 DEF CompactStep
<1>3. CASE BootStep
  <2>1. CASE BootInit
    BY <1>0, <1>r, <2>1 DEF BootInit, flash, LogChange
  <2>2. CASE BootErase \/ BootErase2 \/ ReformatErase
    BY <1>i, <1>r, <2>2 DEF BootErase, BootErase2, ReformatErase
  <2>3. CASE BootStale \/ CreateFirst \/ CreateSecond
    BY <1>0, <1>r, <2>3 DEF BootStale, CreateFirst, CreateSecond, LogChange
  <2> QED
    BY <1>3, <2>1, <2>2, <2>3 DEF BootStep
<1>4. CASE Call
  <2>1. /\ UNCHANGED log
        /\ UNCHANGED end \/ cur' = NoBase
        /\ pc = "idle"
    BY <1>4 DEF Call, SetStart, CompactStart, NotInitialised, ReformatStart,
                flash, info
  <2> QED
    BY <1>0, <2>1 DEF LogChange, NoBase, Regions
<1>5. CASE Crash
  <2>1. CASE UNCHANGED log
    BY <1>0, <1>5, <2>1 DEF Crash, LogChange, NoBase, Regions
  <2>2. CASE HeaderNext /\ PutHeader(cur, end, [Zeroed EXCEPT !.st = "torn"])
    <3>1. cur \in Regions /\ pc \notin CompactSteps
      BY <1>r, <2>2 DEF HeaderNext
    <3>2. end \in 0 .. Len(log[cur])
      BY <1>0, <3>1 DEF LogInv, EndInv
    <3>3. [Zeroed EXCEPT !.st = "torn"] \in Entries
      BY DEF Zeroed, Entries, EntryStates
    <3>4. log' \in [Regions -> Seq(Entries)]
      BY <1>0, <2>2, <3>1, <3>2, <3>3, PutHeaderLog
    <3> QED
      BY <1>5, <3>1, <3>4 DEF Crash, LogChange, NoBase, Regions
  <2> QED
    BY <1>5, <2>1, <2>2 DEF Crash
<1>6. CASE FlashError
  <2>0. Zeroed \in Entries
    BY DEF Zeroed, Entries, EntryStates
  <2>1. CASE FailErase \/ FailRegionHeader
    BY <1>a, <2>1 DEF FailErase, FailRegionHeader, flash
  <2>2. CASE FailHeader
    <3>1. CASE HeaderNext /\ PutHeader(cur, end, Zeroed) /\ end' = SkipZeroed
      BY <1>c, <1>r, <2>0, <3>1 DEF HeaderNext, SkipZeroed
    <3>2. CASE /\ pc \in {"ckey", "cval"} /\ UNCHANGED end
               /\ PutHeader(Alt, Len(log[Alt]), Zeroed)
      BY <1>6, <1>d, <1>r, <2>0, <3>2 DEF FlashError
    <3> QED
      BY <2>2, <3>1, <3>2 DEF FailHeader
  <2>3. CASE FailBody
    <3>1. CASE pc \in {"wkeybody", "wvalbody"} /\ PutBody(cur)
      BY <1>g, <1>r, <2>3, <3>1 DEF FailBody
    <3>2. CASE pc \in {"ckeybody", "cvalbody"} /\ PutBody(Alt)
      BY <1>6, <1>f, <1>r, <2>3, <3>2 DEF FailBody, FlashError
    <3>3. CASE pc = "delete" /\ DeleteOld
      BY <1>h, <1>r, <2>3, <3>3 DEF FailBody
    <3>4. CASE UNCHANGED log
      BY <1>a, <2>3, <3>4 DEF FailBody
    <3> QED
      BY <2>3, <3>1, <3>2, <3>3, <3>4 DEF FailBody
  <2> QED
    BY <1>6, <2>1, <2>2, <2>3 DEF FlashError
<1> QED
  BY <1>1, <1>2, <1>3, <1>4, <1>5, <1>6 DEF Next, Step

\* A call only starts an operation: it changes neither the flash nor
\* _sysparam_info, except for a forced re-creation of the area.
LEMMA CallFrame ==
    Call /\ ~ReformatStart =>
        /\ cur' = cur /\ end' = end /\ force' = force /\ faults' = faults
        /\ pc' \in {"idle", "delete", "space", "cerase"}
<1>1. ASSUME NEW k, NEW v, SetStart(k, v)
      PROVE  /\ cur' = cur /\ end' = end /\ force' = force /\ faults' = faults
             /\ pc' \in {"idle", "delete", "space", "cerase"}
  BY <1>1 DEF SetStart, Return, info
<1>2. CompactStart \/ NotInitialised =>
        /\ cur' = cur /\ end' = end /\ force' = force /\ faults' = faults
        /\ pc' \in {"idle", "delete", "space", "cerase"}
  BY DEF CompactStart, NotInitialised, StartCompact, Return, info
<1> QED
  BY <1>1, <1>2 DEF Call

\* end_addr follows the log.
LEMMA EndNext == LogInv /\ Next => EndInv'
<1> SUFFICES ASSUME LogInv, Next PROVE EndInv'
  OBVIOUS
<1>0. LogChange
  BY LogNext
<1>t. log \in [Regions -> Seq(Entries)] /\ end \in Nat
  BY DEF LogInv, TypeOK
<1>a. ASSUME cur' = cur, force => force',
             pc' \in {"wkey", "wkeybody", "wval"} =>
                cur \in Regions /\
                   (pc \in {"wkey", "wkeybody", "wval"} \/ ~force)
      PROVE  EndInv'
  <2>1. CASE cur \in Regions
    <3>1. Len(log[cur]) \in Nat /\ end <= Len(log[cur])
      BY <1>t, <2>1 DEF LogInv, EndInv
    <3>2. force \/ end = Len(log[cur])
      BY <2>1 DEF LogInv, EndInv
    <3>3. end' <= Len(log'[cur]) /\ (end = Len(log[cur]) => end' = Len(log'[cur]))
      BY <1>0, <1>a, <1>t, <2>1, <3>1 DEF LogChange
    <3> QED
      BY <1>a, <2>1, <3>2, <3>3 DEF LogInv, EndInv
  <2>2. CASE cur \notin Regions
    BY <1>a, <2>2 DEF EndInv
  <2> QED
    BY <2>1, <2>2
<1>b. ASSUME cur' = NoBase, pc' \notin {"wkey", "wkeybody", "wval"}
      PROVE  EndInv'
  BY <1>b DEF EndInv, NoBase, Regions
<1>c. ASSUME NEW r \in Regions, FinishInit(r), UNCHANGED log
      PROVE  EndInv'
  <2>1. EndOf(log[r]) <= Len(log[r]) /\ (Torn(log[r]) \/ EndOf(log[r]) = Len(log[r]))
    BY <1>t, EndOfType
  <2> QED
    BY <1>c, <2>1 DEF EndInv, FinishInit, Return
<1>r. pc \in SetSteps \cup CompactSteps => cur \in Regions
  BY DEF LogInv, BaseInv
<1> USE DEF SetSteps, CompactSteps, BootSteps, FormatSteps
<1>1. CASE SetStep
  <2>1. CASE SetSpace \/ SetFull \/ SetForce
    BY <1>a, <1>r, <2>1
       DEF SetSpace, SetFull, SetForce, StartCompact, Return, MustCompact, info
  <2>2. CASE SetWriteKey \/ SetWriteKeyBody \/ SetWriteValue
    BY <1>a, <1>r, <2>2
       DEF SetWriteKey, SetWriteKeyBody, SetWriteValue, info
  <2>3. CASE SetWriteValueBody \/ SetDelete
    BY <1>a, <2>3 DEF SetWriteValueBody, SetDelete, Return, info
  <2> QED
    BY <1>1, <2>1, <2>2, <2>3 DEF SetStep
<1>2. CASE CompactStep
  <2>1. CASE CompactSwitch
    <3>1. cur \in Regions /\ log' = [log EXCEPT ![cur] = <<>>]
      BY <1>r, <2>1 DEF CompactSwitch, Forget
    <3>2. cur' \in Regions /\ log'[cur'] = log[cur'] /\ end' = Len(log[cur'])
      BY <1>t, <2>1, <3>1 DEF CompactSwitch, Alt, Other, Regions
    <3>3. Len(log[cur']) \in Nat
      BY <1>t, <3>2
    <3> QED
      BY <3>2, <3>3 DEF EndInv
  <2>2. CASE CompactErase \/ CompactErase2 \/ CompactKey \/ CompactKeyBody
    BY <1>a, <2>2 DEF CompactErase, CompactErase2, CompactKey, CompactKeyBody,
                      NextCopy, info
  <2>3. CASE CompactValue \/ CompactValueBody \/ CompactActivate
    BY <1>a, <2>3 DEF CompactValue, CompactValueBody, CompactActivate,
                      NextCopy, info
  <2> QED
    BY <1>2, <2>1, <2>2, <2>3 DEF CompactStep
<1>3. CASE BootStep
  <2>1. CASE BootInit
    <3>1. CASE \A r \in Regions : Magic(r)
      <4>1. (IF hdr[0] = "active" THEN 0 ELSE 1) \in Regions
        BY DEF Regions
      <4>2. FinishInit(IF hdr[0] = "active" THEN 0 ELSE 1) /\ UNCHANGED log
        <5>1. \A r \in Regions : Magic(r) /\ Magic(Other(r))
          BY <3>1 DEF Other, Regions
        <5>2. 0 \in Regions
          BY DEF Regions
        <5> QED
          BY <2>1, <5>1, <5>2 DEF BootInit, flash
      <4> QED
        BY <1>c, <4>1, <4>2
    <3>2. CASE ~\A r \in Regions : Magic(r)
      BY <1>a, <2>1, <3>2 DEF BootInit, Return, info
    <3> QED
      BY <3>1, <3>2
  <2>2. CASE BootStale
    <3>1. Other(Lost) \in Regions \/ Other(Lost) \notin Regions
      OBVIOUS
    <3>2. CASE Other(Lost) \in Regions
      BY <1>c, <2>2, <3>2 DEF BootStale
    <3>3. CASE Other(Lost) \notin Regions
      BY <2>2, <3>3 DEF BootStale, FinishInit, Return, EndInv
    <3> QED
      BY <3>2, <3>3
  <2>3. CASE BootErase \/ BootErase2 \/ CreateFirst \/ CreateSecond
    BY <1>a, <2>3 DEF BootErase, BootErase2, CreateFirst, CreateSecond, info
  <2>4. CASE ReformatErase
    BY <1>a, <2>4 DEF ReformatErase, info
  <2> QED
    BY <1>3, <2>1, <2>2, <2>3, <2>4 DEF BootStep
<1>4. CASE Call
  <2>1. CASE ReformatStart
    BY <1>b, <2>1 DEF ReformatStart
  <2>2. CASE ~ReformatStart
    BY <1>4, <1>a, <2>2, CallFrame
  <2> QED
    BY <2>1, <2>2
<1>5. CASE Crash
  BY <1>5, <1>b DEF Crash
<1>6. CASE FlashError
  BY <1>6, <1>a DEF FlashError, Return
<1> QED
  BY <1>1, <1>2, <1>3, <1>4, <1>5, <1>6 DEF Next, Step

\* The iterator of a compaction stays at keys that have a value: the region
\* it reads does not change.
LEMMA CopyNext == LogInv /\ Next => CopyInv'
<1> SUFFICES ASSUME LogInv, Next, pc' \in CopySteps PROVE CopyInv'
  BY DEF CopyInv
<1>0. LogChange
  BY LogNext
<1> USE DEF SetSteps, CompactSteps, BootSteps, FormatSteps, CopySteps
<1>1. CompactErase2 \/ CompactKey \/ CompactKeyBody \/ CompactValue
          \/ CompactValueBody
  <2>1. ~FlashError /\ ~Crash
    BY DEF FlashError, Return, Crash
  <2>2. ~Call
    BY DEF Call, SetStart, CompactStart, NotInitialised, ReformatStart,
           StartCompact, Return
  <2>3. ~BootStep
    BY DEF BootStep, BootInit, BootErase, BootErase2, BootStale, CreateFirst,
           CreateSecond, ReformatErase, FinishInit, Return
  <2>4. ~SetStep
    BY DEF SetStep, SetSpace, SetFull, SetForce, SetWriteKey, SetWriteKeyBody,
           SetWriteValue, SetWriteValueBody, SetDelete, StartCompact, Return
  <2>5. ~CompactErase /\ ~CompactActivate /\ ~CompactSwitch
    BY DEF CompactErase, CompactActivate, CompactSwitch, Return, LogInv, TypeOK
  <2> QED
    BY <2>1, <2>2, <2>3, <2>4, <2>5 DEF Next, Step, CompactStep
<1>2. cur' = cur /\ cur \in Regions /\ log'[cur] = log[cur]
  BY <1>0, <1>1 DEF LogChange, LogInv, BaseInv, CompactErase2, CompactKey,
     CompactKeyBody, CompactValue, CompactValueBody, info
<1>t. log[cur] \in Seq(Entries) /\ cp.src \in Nat
  BY <1>2 DEF LogInv, TypeOK
<1>3. ASSUME NEW i \in Nat, NextCopy(i)
      PROVE  CopyInv'
  <2>1. /\ NextPair(log[cur], i) # 0
        /\ cp'.src = NextPair(log[cur], i)
    BY <1>3 DEF NextCopy, LogInv, TypeOK
  <2> QED
    BY SMTT(30), <1>2, <1>t, <1>3, <2>1, NextPairFinds DEF CopyInv
<1>4. ASSUME cp'.src = cp.src, pc \in CopySteps
      PROVE  CopyInv'
  BY <1>2, <1>4 DEF LogInv, CopyInv
<1>5. CASE CompactErase2
  BY <1>3, <1>5 DEF CompactErase2
<1>6. CASE CompactKey \/ CompactValue
  BY <1>4, <1>6 DEF CompactKey, CompactValue, LogInv, TypeOK
<1>7. CASE CompactValueBody
  BY <1>3, <1>7, <1>t DEF CompactValueBody
<1>8. CASE CompactKeyBody
  <2>1. CASE IsSetKey
    BY <1>3, <1>8, <1>t, <2>1 DEF CompactKeyBody
  <2>2. CASE ~IsSetKey
    BY <1>4, <1>8, <2>2 DEF CompactKeyBody
  <2> QED
    BY <2>1, <2>2
<1> QED
  BY <1>1, <1>5, <1>6, <1>7, <1>8

Ctxs == [kid: Nat \cup {NoId}, old: Nat, oldreg: Regions, max: Nat,
         unused: Int]

\* The context that a compaction hands back is one.
LEMMA FixedCtxType ==
    ASSUME ctx \in Ctxs, cp.nid \in Nat
    PROVE  FixedCtx \in Ctxs
<1> DEFINE c == [ctx EXCEPT !.max = cp.nid]
<1>1. c \in Ctxs
  BY DEF Ctxs
<1>2. FixedCtx = [c EXCEPT !.unused = 0]
  BY DEF FixedCtx
<1> HIDE DEF c
<1> QED
  BY <1>1, <1>2 DEF Ctxs

\* What the boot code does to the state of the calls: it keeps or clears it.
LEMMA BootFrame ==
    BootStep => arg' \in {arg, NoArg} /\ ctx' \in {ctx, NoCtx} /\ cp' \in {cp, NoCp}
<1> USE DEF Return, FinishInit, info
<1>1. BootInit => arg' \in {arg, NoArg} /\ ctx' \in {ctx, NoCtx} /\ cp' \in {cp, NoCp}
  BY DEF BootInit
<1>2. BootStale => arg' \in {arg, NoArg} /\ ctx' \in {ctx, NoCtx} /\ cp' \in {cp, NoCp}
  BY DEF BootStale
<1>3. BootErase \/ BootErase2 \/ CreateFirst \/ CreateSecond \/ ReformatErase
        => arg' = arg /\ ctx' = ctx /\ cp' = cp
  BY DEF BootErase, BootErase2, CreateFirst, CreateSecond, ReformatErase
<1> QED
  BY <1>1, <1>2, <1>3 DEF BootStep

\* Every step keeps the types.
LEMMA TypeNext == LogInv /\ Next => TypeOK'
<1> SUFFICES ASSUME LogInv, Next PROVE TypeOK'
  OBVIOUS
<1>0. log' \in [Regions -> Seq(Entries)] /\ TypeOK
  BY LogNext DEF LogChange, LogInv
<1>t. log \in [Regions -> Seq(Entries)]
  BY <1>0 DEF TypeOK
<1> DEFINE FlashT == hdr \in [Regions -> HeaderStates]
                       /\ junk \in [Regions -> BOOLEAN]
           InfoT == /\ cur \in Regions \cup {NoBase} /\ end \in Nat
                    /\ force \in BOOLEAN
           ArgT == arg \in [key: Keys \cup {None}, val: Values \cup {None},
                            was: Keys \cup Values \cup {None}]
           CtxT == ctx \in [kid: Nat \cup {NoId}, old: Nat, oldreg: Regions,
                            max: Nat, unused: Int]
           CpT == cp \in [src: Nat, nid: Nat,
                          back: {"idle", "full", "force", "wkey"}]
           PcT == /\ pc \in {"idle"} \cup SetSteps \cup CompactSteps
                              \cup BootSteps \cup FormatSteps
                  /\ res \in Statuses
           FaultsT == faults \in [crashes: 0 .. MaxCrashes,
                                  errors: 0 .. MaxErrors,
                                  reformats: 0 .. MaxReformats]
<1>u. FlashT /\ InfoT /\ ArgT /\ CtxT /\ CpT /\ PcT /\ FaultsT
  BY <1>0 DEF TypeOK
<1> HIDE DEF FlashT, InfoT, ArgT, CtxT, CpT, PcT, FaultsT
<1>e. ASSUME NEW r, EraseFirst(r)
      PROVE  FlashT'
  <2>1. (junk[r] \/ log[r] # <<>>) \in BOOLEAN
    OBVIOUS
  <2> QED
    BY <1>u, <1>e, <2>1 DEF EraseFirst, FlashT, HeaderStates
<1>1. FlashT'
  <2> USE <1>u
       DEF FlashT, HeaderStates, flash, EraseRest, Activated,
             Retired, Forget, Regions, FailErase, FailHeader, FailBody,
             FailRegionHeader
  <2>1. CASE SetStep
    BY <2>1 DEF SetStep, SetSpace, SetFull, SetForce, SetWriteKey,
     SetWriteKeyBody, SetWriteValue, SetWriteValueBody, SetDelete
  <2>2. CASE CompactStep
    <3>1. CASE CompactErase
      BY <1>e, <3>1 DEF CompactErase
    <3>2. CASE CompactSwitch
      BY <3>2 DEF CompactSwitch
    <3>3. CASE ~CompactErase /\ ~CompactSwitch
      BY <2>2, <3>3 DEF CompactStep, CompactErase2, CompactKey, CompactKeyBody,
         CompactValue, CompactValueBody, CompactActivate
    <3> QED
      BY <3>1, <3>2, <3>3
  <2>3. CASE BootStep
    <3>1. CASE BootErase
      BY <1>e, <3>1 DEF BootErase
    <3>2. CASE ReformatErase
      BY <1>e, <3>2 DEF ReformatErase
    <3>3. CASE ~BootErase /\ ~ReformatErase
      BY <2>3, <3>3 DEF BootStep, BootInit, BootErase2, BootStale, CreateFirst,
         CreateSecond
    <3> QED
      BY <3>1, <3>2, <3>3
  <2>4. CASE Call
    BY <2>4 DEF Call, SetStart, CompactStart, NotInitialised, ReformatStart
  <2>5. CASE Crash
    BY <2>5 DEF Crash
  <2>6. CASE FlashError
    BY <2>6 DEF FlashError
  <2> QED
    BY <2>1, <2>2, <2>3, <2>4, <2>5, <2>6 DEF Next, Step
<1>2. InfoT'
  <2> USE <1>u, <1>t
       DEF InfoT, info, Regions, NoBase, FailErase, FailHeader, FailBody,
             FailRegionHeader, SkipZeroed, Other, flash
  <2>1. CASE SetStep
    <3>1. CASE SetSpace
      <4>1. force' \in BOOLEAN
        BY <3>1, Zenon DEF SetSpace
      <4> QED
        BY <3>1, <4>1 DEF SetSpace
    <3>2. CASE SetFull \/ SetForce \/ SetDelete
      BY <3>2 DEF SetFull, SetForce, SetDelete
    <3>3. CASE SetWriteKey
      <4>1. end' \in {end, end + 1} /\ UNCHANGED <<cur, force>>
        BY <3>3 DEF SetWriteKey
      <4> QED
        BY <4>1
    <3>4. CASE SetWriteValue
      BY <3>4 DEF SetWriteValue
    <3>5. CASE SetWriteKeyBody \/ SetWriteValueBody
      BY <3>5 DEF SetWriteKeyBody, SetWriteValueBody
    <3> QED
      BY <2>1, <3>1, <3>2, <3>3, <3>4, <3>5 DEF SetStep
  <2>2. CASE CompactStep
    <3>1. CASE CompactSwitch
      <4>1. Alt \in Regions
        BY SMTT(30), <3>1 DEF CompactSwitch, LogInv, BaseInv, CompactSteps, Alt, Other
      <4>2. Len(log[Alt]) \in Nat
        BY <4>1
      <4> QED
        BY <3>1, <4>1, <4>2 DEF CompactSwitch
    <3>2. CASE ~CompactSwitch
      BY <2>2, <3>2 DEF CompactStep, CompactErase, CompactErase2, CompactKey,
         CompactKeyBody, CompactValue, CompactValueBody, CompactActivate
    <3> QED
      BY <3>1, <3>2
  <2>3. CASE BootStep
    <3>a. ASSUME NEW r \in Regions, FinishInit(r)
          PROVE  InfoT'
      <4>1. EndOf(log[r]) \in Nat
        BY <1>t, EndOfType
      <4>2. Torn(log[r]) \in BOOLEAN
        BY DEF Torn
      <4> QED
        BY <3>a, <4>1, <4>2 DEF FinishInit
    <3>1. CASE BootInit
      <4>1. (IF hdr[0] = "active" THEN 0 ELSE 1) \in Regions
        OBVIOUS
      <4>2. CASE FinishInit(IF hdr[0] = "active" THEN 0 ELSE 1)
        BY <3>a, <4>1, <4>2
      <4>3. CASE UNCHANGED info
        BY <4>3
      <4> QED
        BY <3>1, <4>2, <4>3 DEF BootInit
    <3>2. CASE BootStale
      <4>1. Other(Lost) \in Regions
        BY <3>2 DEF BootStale, LogInv, BootInv, Lost
      <4> QED
        BY <3>2, <3>a, <4>1 DEF BootStale
    <3>3. CASE ~BootInit /\ ~BootStale
      BY <2>3, <3>3 DEF BootStep, BootErase, BootErase2, CreateFirst,
         CreateSecond, ReformatErase
    <3> QED
      BY <3>1, <3>2, <3>3
  <2>4. CASE Call
    <3>1. CASE ReformatStart
      BY <3>1 DEF ReformatStart
    <3>2. CASE ~ReformatStart
      <4>1. UNCHANGED info
        BY <2>4, <3>2, CallFrame DEF info
      <4> QED
        BY <4>1
    <3> QED
      BY <3>1, <3>2
  <2>5. CASE Crash
    BY <2>5 DEF Crash
  <2>6. CASE FlashError
    BY <2>6 DEF FlashError
  <2> QED
    BY <2>1, <2>2, <2>3, <2>4, <2>5, <2>6 DEF Next, Step
<1>3. ArgT'
  <2> USE <1>u DEF ArgT, NoArg, FinishInit
  <2>1. CASE SetStep
    BY <2>1 DEF SetStep, SetSpace, SetFull, SetForce, SetWriteKey,
     SetWriteKeyBody, SetWriteValue, SetWriteValueBody, SetDelete
  <2>2. CASE CompactStep
    BY <2>2 DEF CompactStep, CompactErase, CompactErase2, CompactKey,
     CompactKeyBody, CompactValue, CompactValueBody, CompactActivate,
     CompactSwitch
  <2>3. CASE BootStep
    BY SMTT(30), <2>3, BootFrame
  <2>4. CASE Call
    <3>1. ASSUME NEW k \in Keys, NEW v \in Values \cup {None}, SetStart(k, v)
          PROVE  ArgT'
      <4>1. cur \in Regions
        BY <3>1 DEF SetStart, InfoT
      <4>2. Lookup(log[cur], k) \in Keys \cup Values \cup {None}
        BY <1>t, <4>1, LookupType
      <4> QED
        BY <3>1, <4>2 DEF SetStart
    <3>2. CASE CompactStart \/ NotInitialised \/ ReformatStart
      BY <3>2 DEF CompactStart, NotInitialised, ReformatStart
    <3> QED
      BY <2>4, <3>1, <3>2, ConstantAssumption DEF Call
  <2>5. CASE Crash
    BY <2>5 DEF Crash
  <2>6. CASE FlashError
    BY <2>6 DEF FlashError
  <2> QED
    BY <2>1, <2>2, <2>3, <2>4, <2>5, <2>6 DEF Next, Step
<1>4. CtxT'
  <2> USE <1>u DEF CtxT, NoCtx, Return, FinishInit, Regions, FixedCtx
  <2>1. CASE SetStep
    <3>1. CASE SetSpace \/ SetForce
      BY <3>1 DEF SetSpace, SetForce
    <3>2. CASE SetFull
      BY <3>2 DEF SetFull
    <3>3. CASE SetWriteKey
      <4>1. ctx.max + 1 \in Nat
        OBVIOUS
      <4> QED
        BY <3>3, <4>1 DEF SetWriteKey
    <3>4. CASE SetWriteKeyBody \/ SetWriteValue
      BY <3>4 DEF SetWriteKeyBody, SetWriteValue
    <3>5. CASE SetWriteValueBody
      BY SMTT(30), <3>5 DEF SetWriteValueBody
    <3>6. CASE SetDelete
      BY SMTT(30), <3>6 DEF SetDelete
    <3> QED
      BY <2>1, <3>1, <3>2, <3>3, <3>4, <3>5, <3>6 DEF SetStep
  <2>2. CASE CompactStep
    <3>1. CASE CompactKeyBody
      BY <3>1 DEF CompactKeyBody, CpT
    <3>2. CASE CompactSwitch
      <4>1. ctx' \in {NoCtx, FixedCtx}
        BY <3>2 DEF CompactSwitch
      <4>2. cp.nid \in Nat
        BY DEF CpT
      <4> HIDE DEF FixedCtx
      <4>3. FixedCtx \in [kid: Nat \cup {NoId}, old: Nat, oldreg: Regions,
                          max: Nat, unused: Int]
        <5>1. ctx \in Ctxs
          BY DEF Ctxs, CtxT
        <5> QED
          BY <4>2, <5>1, FixedCtxType DEF Ctxs
      <4> QED
        BY SMTT(30), <4>1, <4>3
    <3>3. CASE ~CompactKeyBody /\ ~CompactSwitch
      BY <2>2, <3>3 DEF CompactStep, CompactErase, CompactErase2, CompactKey,
         CompactValue, CompactValueBody, CompactActivate
    <3> QED
      BY <3>1, <3>2, <3>3
  <2>3. CASE BootStep
    BY SMTT(30), <2>3, BootFrame
  <2>4. CASE Call
    <3>1. ASSUME NEW k \in Keys, NEW v \in Values \cup {None}, SetStart(k, v)
          PROVE  CtxT'
      <4> DEFINE L == log[cur]
                 ki == FindKey(L, k)
                 vi == IF ki = 0 THEN 0 ELSE FindValue(L, ki, L[ki].id)
      <4>1. cur \in Regions /\ L \in Seq(Entries)
        BY <1>t, <3>1 DEF SetStart, InfoT
      <4>2. ki \in 0 .. Len(L)
        BY <4>1, FindKeyFinds
      <4>3. vi \in Nat
        BY SMTT(30), <4>1, <4>2, FindValueFinds
      <4>4. (IF ki = 0 THEN NoId ELSE L[ki].id) \in Nat \cup {NoId}
        <5>1. ki # 0 => L[ki] \in Entries
          BY SMTT(30), <4>1, <4>2
        <5> QED
          BY <5>1 DEF Entries
      <4>5. MaxKeyId(L) \in Nat /\ UnusedKeys(L) \in Int
        BY <4>1, CountersType
      <4>6. CASE Lookup(L, k) = v
        <5>1. ctx' = NoCtx
          BY <3>1, <4>6 DEF SetStart
        <5> HIDE DEF L, ki, vi
        <5> QED
          BY SMTT(30), <5>1
      <4>7. CASE Lookup(L, k) # v
        <5>1. ctx' = [kid |-> IF ki = 0 THEN NoId ELSE L[ki].id,
                      old |-> vi, oldreg |-> cur,
                      max |-> MaxKeyId(L), unused |-> UnusedKeys(L)]
          BY <3>1, <4>7 DEF SetStart
        <5>2. cur \in Regions
          BY <4>1
        <5> HIDE DEF L, ki, vi
        <5> QED
          BY <4>3, <4>4, <4>5, <5>1, <5>2
      <4> QED
        BY <4>6, <4>7
    <3>2. CASE CompactStart \/ NotInitialised \/ ReformatStart
      BY <3>2 DEF CompactStart, NotInitialised, ReformatStart
    <3> QED
      BY <2>4, <3>1, <3>2, ConstantAssumption DEF Call
  <2>5. CASE Crash
    BY <2>5 DEF Crash
  <2>6. CASE FlashError
    BY <2>6 DEF FlashError
  <2> QED
    BY <2>1, <2>2, <2>3, <2>4, <2>5, <2>6 DEF Next, Step
<1>5. CpT'
  <2> USE <1>u DEF CpT, NoCp, Return, FinishInit, StartCompact
  <2>1. CASE SetStep
    <3>1. CASE SetSpace \/ SetFull \/ SetForce
      BY <3>1 DEF SetSpace, SetFull, SetForce
    <3>2. CASE SetWriteKey \/ SetWriteKeyBody \/ SetWriteValue
      BY <3>2 DEF SetWriteKey, SetWriteKeyBody, SetWriteValue
    <3>3. CASE SetWriteValueBody
      BY SMTT(30), <3>3 DEF SetWriteValueBody
    <3>4. CASE SetDelete
      BY <3>4 DEF SetDelete
    <3> QED
      BY <2>1, <3>1, <3>2, <3>3, <3>4 DEF SetStep
  <2>2. CASE CompactStep
    <3>a. ASSUME NEW i \in Nat, NextCopy(i)
          PROVE  CpT'
      <4>1. cur \in Regions => NextPair(log[cur], i) \in Nat
        <5>1. cur \in Regions => log[cur] \in Seq(Entries)
          BY <1>t
        <5>2. cur \in Regions => NextPair(log[cur], i) \in 0 .. Len(log[cur])
          BY <3>a, <5>1, NextPairFinds
        <5> QED
          BY <5>2
      <4>2. cur \in Regions
        BY <2>2 DEF CompactStep, CompactErase, CompactErase2, CompactKey,
           CompactKeyBody, CompactValue, CompactValueBody, CompactActivate,
           CompactSwitch, LogInv, BaseInv, CompactSteps
      <4> QED
        BY <3>a, <4>1, <4>2 DEF NextCopy
    <3>1. CASE CompactErase2 \/ CompactValueBody
      BY <3>1, <3>a DEF CompactErase2, CompactValueBody
    <3>2. CASE CompactKeyBody
      BY <3>2, <3>a DEF CompactKeyBody
    <3>3. CASE CompactKey
      BY <3>3 DEF CompactKey
    <3>4. CASE CompactErase \/ CompactValue \/ CompactActivate
      BY <3>4 DEF CompactErase, CompactValue, CompactActivate
    <3>5. CASE CompactSwitch
      BY SMTT(30), <3>5 DEF CompactSwitch
    <3> QED
      BY <2>2, <3>1, <3>2, <3>3, <3>4, <3>5 DEF CompactStep
  <2>3. CASE BootStep
    BY SMTT(30), <2>3, BootFrame
  <2>4. CASE Call
    BY <2>4 DEF Call, SetStart, CompactStart, NotInitialised, ReformatStart
  <2>5. CASE Crash
    BY <2>5 DEF Crash
  <2>6. CASE FlashError
    BY <2>6 DEF FlashError
  <2> QED
    BY <2>1, <2>2, <2>3, <2>4, <2>5, <2>6 DEF Next, Step
<1>6. PcT'
  <2> USE <1>u
       DEF PcT, Return, FinishInit, StartCompact, NextCopy, Statuses,
             SetSteps, CompactSteps, BootSteps, FormatSteps
  <2>1. CASE SetStep
    BY <2>1 DEF SetStep, SetSpace, SetFull, SetForce, SetWriteKey,
     SetWriteKeyBody, SetWriteValue, SetWriteValueBody, SetDelete
  <2>2. CASE CompactStep
    BY <2>2 DEF CpT, CompactStep, CompactErase, CompactErase2, CompactKey,
       CompactKeyBody, CompactValue, CompactValueBody, CompactActivate,
       CompactSwitch
  <2>3. CASE BootStep
    BY <2>3 DEF BootStep, BootInit, BootErase, BootErase2, BootStale,
     CreateFirst, CreateSecond, ReformatErase
  <2>4. CASE Call
    BY <2>4 DEF Call, SetStart, CompactStart, NotInitialised, ReformatStart
  <2>5. CASE Crash
    BY <2>5 DEF Crash
  <2>6. CASE FlashError
    BY <2>6 DEF FlashError
  <2> QED
    BY <2>1, <2>2, <2>3, <2>4, <2>5, <2>6 DEF Next, Step
<1>7. FaultsT'
  <2> USE <1>u DEF FaultsT, FinishInit
  <2>1. CASE SetStep
    BY <2>1 DEF SetStep, SetSpace, SetFull, SetForce, SetWriteKey,
     SetWriteKeyBody, SetWriteValue, SetWriteValueBody, SetDelete
  <2>2. CASE CompactStep
    BY <2>2 DEF CompactStep, CompactErase, CompactErase2, CompactKey,
     CompactKeyBody, CompactValue, CompactValueBody, CompactActivate,
     CompactSwitch
  <2>3. CASE BootStep
    BY <2>3 DEF BootStep, BootInit, BootErase, BootErase2, BootStale,
     CreateFirst, CreateSecond, ReformatErase
  <2>4. CASE Call
    <3>1. CASE ReformatStart
      <4>1. faults.reformats + 1 \in 0 .. MaxReformats
        BY <3>1, ConstantAssumption DEF ReformatStart
      <4>2. faults' = [faults EXCEPT !.reformats = faults.reformats + 1]
        BY <3>1 DEF ReformatStart
      <4> QED
        BY <4>1, <4>2
    <3>2. CASE ~ReformatStart
      BY <2>4, <3>2, CallFrame
    <3> QED
      BY <3>1, <3>2
  <2>5. CASE Crash
    <3>1. faults.crashes + 1 \in 0 .. MaxCrashes
      BY <2>5, ConstantAssumption DEF Crash
    <3>2. faults' = [faults EXCEPT !.crashes = faults.crashes + 1]
      BY <2>5 DEF Crash
    <3> QED
      BY <3>1, <3>2
  <2>6. CASE FlashError
    <3>1. faults.errors + 1 \in 0 .. MaxErrors
      BY <2>6, ConstantAssumption DEF FlashError
    <3>2. faults' = [faults EXCEPT !.errors = faults.errors + 1]
      BY <2>6 DEF FlashError
    <3> QED
      BY <3>1, <3>2
  <2> QED
    BY <2>1, <2>2, <2>3, <2>4, <2>5, <2>6 DEF Next, Step
<1> QED
  BY <1>0, <1>1, <1>2, <1>3, <1>4, <1>5, <1>6, <1>7
     DEF TypeOK, FlashT, InfoT, ArgT, CtxT, CpT, PcT, FaultsT

\* The invariant holds in every reachable state, whatever fails.
THEOREM LogInvariant == Spec => []LogInv
<1>1. LogInv /\ [Next]_vars => LogInv'
  <2>1. LogInv /\ Next => LogInv'
    BY TypeNext, BaseNext, EndNext, ArgNext, CopyNext, BootNext DEF LogInv
  <2>2. LogInv /\ UNCHANGED vars => LogInv'
    BY DEF LogInv, TypeOK, BaseInv, EndInv, ArgInv, CopyInv, BootInv, Setting,
           Magic, vars, flash, info
  <2> QED
    BY <2>1, <2>2
<1> QED
  BY LogInvInit, <1>1, PTL DEF Spec

\* No sequence of calls, power failures and flash errors takes the store out
\* of the states its data structures are meant for.
THEOREM TypeCorrect == Spec => []TypeOK
  BY LogInvariant, PTL DEF LogInv

\* An entry is only ever written to unwritten flash, also after a power
\* failure in the middle of a header and after flash errors: force_compact is
\* set whenever end_addr is short of the last entry written, and
\* sysparam_set_data() does not get to a write with it set.
THEOREM NeverOverwrites == Spec => []NoOverwrite
<1>1. LogInv => NoOverwrite
  BY DEF LogInv, EndInv, NoOverwrite
<1> QED
  BY LogInvariant, <1>1, PTL

-----------------------------------------------------------------------------
(* The region headers, when no flash operation fails.                       *)

\* Where the ACTIVE flag is at each step.  Both regions have it between the
\* two header writes that end a compaction; if the power fails there, region
\* 0 is chosen, and the other one keeps its flag until the next compaction.
HeaderInv ==
    /\ pc \in {"idle", "cerase"} \cup SetSteps =>
         /\ cur \in Regions /\ hdr[cur] = "active" /\ Magic(Alt)
         /\ cur = 1 => hdr[0] = "stale"
    /\ pc \in CompactSteps \ {"cerase", "cstale"} =>
         hdr[cur] = "active" /\ hdr[Alt] = "blank"
    /\ pc = "cstale" => hdr[cur] = "active" /\ hdr[Alt] = "active"
    /\ pc = "boot" =>
         \/ \A r \in Regions : Blank(r)
         \/ \E r \in Regions :
              hdr[r] = "active" /\ hdr[Other(r)] \in {"active", "stale", "blank"}
    /\ pc \in {"berase", "berase2", "bstale"} =>
         \E r \in Regions : hdr[r] = "active" /\ hdr[Other(r)] = "blank"
    /\ pc = "create" => \A r \in Regions : Blank(r)
    /\ pc = "create2" => hdr[0] = "active" /\ hdr[1] = "blank"
    /\ pc \notin FormatSteps

\* Every step keeps it.
LEMMA HeaderNextInv ==
    ASSUME MaxErrors = 0, MaxReformats = 0, LogInv, HeaderInv, Next
    PROVE  HeaderInv'
<1>0. hdr \in [Regions -> HeaderStates]
  BY DEF LogInv, TypeOK
<1>r. pc \in SetSteps \cup CompactSteps => cur \in Regions
  BY DEF LogInv, BaseInv
<1>x. ~FlashError /\ ~ReformatStart /\ pc \notin FormatSteps
  BY DEF LogInv, TypeOK, FlashError, ReformatStart, HeaderInv
<1> USE DEF SetSteps, CompactSteps, BootSteps, FormatSteps
<1>1. CASE SetStep
  <2>1. UNCHANGED <<hdr, cur>> /\ pc \in SetSteps
    BY <1>1 DEF SetStep, SetSpace, SetFull, SetForce, SetWriteKey,
       SetWriteKeyBody, SetWriteValue, SetWriteValueBody, SetDelete, flash, info
  <2>2. pc' \in {"idle", "cerase"} \cup SetSteps
    BY <1>1 DEF SetStep, SetSpace, SetFull, SetForce, SetWriteKey,
       SetWriteKeyBody, SetWriteValue, SetWriteValueBody, SetDelete,
       StartCompact, Return
  <2> QED
    BY <2>1, <2>2 DEF HeaderInv, Magic, Alt
<1>2. CASE CompactStep
  <2>0. cur \in Regions /\ Alt \in Regions /\ Alt # cur /\ Other(Alt) = cur
    <3>1. pc \in CompactSteps
      BY <1>2 DEF CompactStep, CompactErase, CompactErase2, CompactKey,
         CompactKeyBody, CompactValue, CompactValueBody, CompactActivate,
         CompactSwitch
    <3> QED
      BY <1>r, <3>1 DEF Alt, Other, Regions
  <2>1. CASE CompactErase
    BY <1>0, <2>0, <2>1 DEF CompactErase, EraseFirst, HeaderInv, Alt, info
  <2>2. CASE CompactErase2 \/ CompactKey \/ CompactKeyBody \/ CompactValue
               \/ CompactValueBody
    <3>1. UNCHANGED <<hdr, cur>> /\ pc \in CompactSteps \ {"cerase", "cstale"}
      BY <2>2 DEF CompactErase2, CompactKey, CompactKeyBody, CompactValue,
         CompactValueBody, EraseRest, info
    <3>2. pc' \in CompactSteps \ {"cerase", "cstale"}
      BY <2>2 DEF CompactErase2, CompactKey, CompactKeyBody, CompactValue,
         CompactValueBody, NextCopy
    <3> QED
      BY <3>1, <3>2 DEF HeaderInv, Alt
  <2>3. CASE CompactActivate
    BY <1>0, <2>0, <2>3 DEF CompactActivate, Activated, HeaderInv, Alt, info
  <2>4. CASE CompactSwitch
    <3>1. pc' \in {"idle"} \cup SetSteps
      BY <2>4 DEF CompactSwitch, Return, LogInv, TypeOK
    <3>2. cur' = Alt /\ Alt' = cur
      BY <2>0, <2>4 DEF CompactSwitch, Alt, Other, Regions
    <3>3. hdr'[Alt] = "active" /\ hdr'[cur] = "stale"
      BY <1>0, <2>0, <2>4 DEF CompactSwitch, Retired, HeaderInv
    <3> QED
      BY <2>0, <3>1, <3>2, <3>3 DEF HeaderInv, Magic, Regions
  <2> QED
    BY <1>2, <2>1, <2>2, <2>3, <2>4 DEF CompactStep
<1>3. CASE BootStep
  <2>a. ASSUME NEW r \in Regions, FinishInit(r), hdr'[r] = "active",
               hdr'[Other(r)] \in {"active", "stale"},
               r = 1 => hdr'[0] = "stale"
        PROVE  HeaderInv'
    BY <2>a DEF HeaderInv, FinishInit, Return, Magic, Alt
  <2>1. CASE BootInit
    <3>1. CASE \A r \in Regions : Magic(r)
      <4> DEFINE c == IF hdr[0] = "active" THEN 0 ELSE 1
      <4>1. c \in Regions /\ Other(c) \in Regions
        BY DEF Regions, Other
      <4>2. FinishInit(c) /\ UNCHANGED hdr
        <5>1. \A r \in Regions : Magic(r) /\ Magic(Other(r))
          BY <3>1 DEF Other, Regions
        <5> QED
          BY <2>1, <4>1, <5>1 DEF BootInit, flash
      <4>3. /\ hdr[c] = "active"
            /\ hdr[Other(c)] \in {"active", "stale"}
            /\ c = 1 => hdr[0] = "stale"
        BY <2>1, <3>1 DEF BootInit, HeaderInv, Blank, Magic, Regions, Other
      <4> HIDE DEF c
      <4> QED
        BY <2>a, <4>1, <4>2, <4>3
    <3>2. CASE \E r \in Regions : ~Magic(r)
      <4>1. CASE \A r \in Regions : Blank(r)
        <5>1. \A r \in Regions : ~Magic(r)
          BY <4>1 DEF Blank, Magic
        <5>2. pc' = "create" /\ UNCHANGED flash
          BY <2>1, <4>1, <5>1 DEF BootInit, Regions
        <5> QED
          BY <4>1, <5>2 DEF HeaderInv, Blank, flash
      <4>2. CASE ~\A r \in Regions : Blank(r)
        <5>1. PICK r \in Regions : /\ hdr[r] = "active"
                                   /\ hdr[Other(r)] = "blank"
          BY <2>1, <3>2, <4>2 DEF BootInit, HeaderInv, Magic, Other, Regions
        <5>2. Magic(r) /\ ~Magic(Other(r)) /\ Usable(r)
          BY <5>1 DEF Magic, Usable
        <5>3. pc' = "berase" /\ UNCHANGED flash
          BY <2>1, <5>1, <5>2 DEF BootInit, Regions, Other, Usable
        <5> QED
          BY <5>1, <5>3 DEF HeaderInv, flash
      <4> QED
        BY <4>1, <4>2
    <3> QED
      BY <3>1, <3>2
  <2>b. ASSUME pc \in {"berase", "berase2", "bstale"}
        PROVE  /\ Lost \in Regions /\ Other(Lost) \in Regions
               /\ Other(Other(Lost)) = Lost /\ Lost # Other(Lost)
               /\ hdr[Lost] = "blank" /\ hdr[Other(Lost)] = "active"
    <3>1. PICK r \in Regions : hdr[r] = "active" /\ hdr[Other(r)] = "blank"
      BY <2>b DEF HeaderInv
    <3>2. Other(r) \in Regions /\ Other(Other(r)) = r /\ r # Other(r)
      BY DEF Regions, Other
    <3>3. \A q \in Regions : ~Magic(q) <=> q = Other(r)
      BY <3>1, <3>2 DEF Magic, Regions, Other
    <3>4. Lost = Other(r)
      BY <3>2, <3>3 DEF Lost
    <3> QED
      BY <3>1, <3>2, <3>4
  <2>2. CASE BootErase
    <3>1. UNCHANGED hdr
      BY <1>0, <2>2, <2>b DEF BootErase, EraseFirst
    <3> QED
      BY <2>2, <3>1 DEF BootErase, HeaderInv
  <2>3. CASE BootErase2
    BY <2>3 DEF BootErase2, EraseRest, HeaderInv
  <2>4. CASE BootStale
    <3>1. hdr'[Lost] = "stale" /\ hdr'[Other(Lost)] = "active"
      BY <1>0, <2>4, <2>b DEF BootStale
    <3> QED
      BY <2>4, <2>a, <2>b, <3>1 DEF BootStale, Regions, Other
  <2>5. CASE CreateFirst
    BY <1>0, <2>5 DEF CreateFirst, HeaderInv, Blank, Regions
  <2>6. CASE CreateSecond
    <3>1. pc' = "boot" /\ hdr'[0] = "active" /\ hdr'[1] = "stale"
      BY <1>0, <2>6 DEF CreateSecond, HeaderInv, Regions
    <3> QED
      BY <3>1 DEF HeaderInv, Regions, Other
  <2>7. ~ReformatErase
    BY <1>x DEF ReformatErase
  <2> QED
    BY <1>3, <2>1, <2>2, <2>3, <2>4, <2>5, <2>6, <2>7 DEF BootStep
<1>4. CASE Call
  <2>1. UNCHANGED <<hdr, cur>> /\ pc = "idle"
    BY <1>4, <1>x DEF Call, SetStart, CompactStart, NotInitialised, flash, info
  <2>2. pc' \in {"idle", "cerase"} \cup SetSteps
    BY <1>4, <1>x DEF Call, SetStart, CompactStart, NotInitialised,
       StartCompact, Return
  <2> QED
    BY <2>1, <2>2 DEF HeaderInv, Magic, Alt
<1>5. CASE Crash
  <2>1. UNCHANGED hdr /\ pc' = "boot"
    BY <1>5 DEF Crash
  <2>2. CASE \E r \in Regions : /\ hdr[r] = "active"
                                /\ hdr[Other(r)] \in {"active", "stale", "blank"}
    BY <2>1, <2>2 DEF HeaderInv
  <2>3. CASE \A r \in Regions : Blank(r)
    <3>1. ~HeaderNext
      BY <1>r, <2>3 DEF HeaderNext, HeaderInv, Blank
    <3>2. UNCHANGED <<log, junk>>
      BY <1>5, <3>1 DEF Crash
    <3> QED
      BY <2>1, <2>3, <3>2 DEF HeaderInv, Blank
  <2>4. \/ \A r \in Regions : Blank(r)
        \/ \E r \in Regions : /\ hdr[r] = "active"
                              /\ hdr[Other(r)] \in {"active", "stale", "blank"}
    <3>1. CASE pc \in {"idle", "cerase"} \cup SetSteps
      BY <3>1 DEF HeaderInv, Magic, Alt
    <3>2. CASE pc \in CompactSteps \ {"cerase"}
      BY <1>r, <3>2 DEF HeaderInv, Alt
    <3>3. CASE pc \in BootSteps \ {"create2"}
      BY <3>3 DEF HeaderInv
    <3>4. CASE pc = "create2"
      BY <3>4 DEF HeaderInv, Regions, Other
    <3> QED
      BY <1>x, <3>1, <3>2, <3>3, <3>4 DEF LogInv, TypeOK
  <2> QED
    BY <2>2, <2>3, <2>4
<1> QED
  BY <1>1, <1>2, <1>3, <1>4, <1>5, <1>x DEF Next, Step

\* The invariant of the headers holds in every reachable state.
LEMMA HeaderInvariant ==
    ASSUME MaxErrors = 0, MaxReformats = 0
    PROVE  Spec => []HeaderInv
<1>1. Init => HeaderInv
  BY DEF Init, HeaderInv, Blank, SetSteps, CompactSteps, FormatSteps, Regions
<1>2. LogInv /\ HeaderInv /\ [Next]_vars => HeaderInv'
  <2>1. LogInv /\ HeaderInv /\ Next => HeaderInv'
    BY HeaderNextInv
  <2>2. HeaderInv /\ UNCHANGED vars => HeaderInv'
    BY DEF HeaderInv, Magic, Blank, Alt, vars, flash, info
  <2> QED
    BY <2>1, <2>2
<1> QED
  BY <1>1, <1>2, LogInvariant, PTL DEF Spec

\* As long as no flash operation fails, a power failure at any moment of any
\* operation leaves a region that sysparam_init() chooses, or the blank flash
\* that the first boot found.
THEOREM AlwaysBootableThm ==
    ASSUME MaxErrors = 0, MaxReformats = 0
    PROVE  Spec => []AlwaysBootable
<1>1. LogInv /\ HeaderInv => AlwaysBootable
  <2> SUFFICES ASSUME LogInv, HeaderInv, ~\A r \in Regions : Blank(r)
               PROVE  BootRegion # NoBase
    BY DEF AlwaysBootable
  <2>1. \E r \in Regions : hdr[r] = "active"
    BY DEF LogInv, TypeOK, BaseInv, HeaderInv, SetSteps, CompactSteps,
           BootSteps, Regions
  <2>2. (CHOOSE r \in Regions : hdr[r] = "active") \in Regions
    BY <2>1
  <2> QED
    BY <2>1, <2>2 DEF BootRegion, NoBase, Regions
<1> QED
  BY <1>1, LogInvariant, HeaderInvariant, PTL

\* As long as no flash operation fails, the region that tasks read and write
\* is the one that the next boot chooses.
THEOREM RamMatchesFlashThm ==
    ASSUME MaxErrors = 0, MaxReformats = 0
    PROVE  Spec => []RamMatchesFlash
<1>1. HeaderInv => RamMatchesFlash
  BY DEF HeaderInv, RamMatchesFlash, BootRegion, Magic, Alt, Other, Regions
<1> QED
  BY <1>1, HeaderInvariant, PTL

\* Both: as long as no flash operation fails, a boot after a power failure
\* finds a region, and it is the one that tasks were using.
THEOREM RecoverableThm ==
    ASSUME MaxErrors = 0, MaxReformats = 0
    PROVE  Spec => []Recoverable
<1>1. AlwaysBootable /\ RamMatchesFlash => Recoverable
  BY DEF Recoverable
<1> QED
  BY <1>1, AlwaysBootableThm, RamMatchesFlashThm, PTL

=============================================================================
