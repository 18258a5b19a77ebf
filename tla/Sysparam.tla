------------------------------- MODULE Sysparam -------------------------------
(***************************************************************************)
(* The persistent parameter store of core/sysparam.c: key/value pairs kept *)
(* as an append-only log of entries in one of two flash regions.  A value  *)
(* is replaced by appending the new entry and then clearing the "alive"    *)
(* flag of the old one; when the region is full the live pairs are copied  *)
(* to the other region (compaction), which then becomes the active one.    *)
(*                                                                         *)
(* One action is one flash operation (a sector erase, or a write with its  *)
(* read-back) together with the computation on RAM around it, so a power   *)
(* failure can fall between any two flash operations.  The mutex           *)
(* _sysparam_info.sem serialises the operations, so at most one is in      *)
(* progress: pc says where it is, and pc = "idle" is the free mutex.       *)
(*                                                                         *)
(* Region 0 is the one at the lower address.  An address inside a region   *)
(* is modelled by the index of the entry it points to.  A payload is a     *)
(* model value with a length; a value stands for its bytes and its binary  *)
(* flag.                                                                   *)
(***************************************************************************)
EXTENDS Integers, Sequences, FiniteSets, FiniteSetsExt

CONSTANTS
    Keys,         \* key names
    Values,       \* the non-empty values that are stored
    None,         \* no value: the argument of a delete, the result of a miss
    PayloadLen,   \* length in bytes of every key name and every value
    RegionSize,   \* bytes in a region, its header included
    MAX_KEY_ID,   \* 0x0ffe in the code
    Deletable,    \* the keys that the callers delete
    MaxCrashes,   \* bound on power failures
    MaxErrors,    \* bound on flash operations that fail
    MaxReformats  \* bound on calls of sysparam_create_area(force = true)

REGION_HEADER_SIZE == 8
ENTRY_HEADER_SIZE == 4

\* What a 16-bit length field reads as while it is still erased.
ERASED_LEN == 65535

\* Entries are whole words: a header never straddles the end of a region.
ASSUME SizeAssumption ==
    /\ PayloadLen \in [Keys \cup Values -> {n \in 1 .. ERASED_LEN : n % 4 = 0}]
    /\ RegionSize \in {n \in REGION_HEADER_SIZE .. ERASED_LEN : n % 4 = 0}

ASSUME ConstantAssumption ==
    /\ None \notin Keys \cup Values
    /\ Keys \cap Values = {}
    /\ Deletable \subseteq Keys
    /\ MAX_KEY_ID \in Nat \ {0}
    /\ MaxCrashes \in Nat
    /\ MaxErrors \in Nat
    /\ MaxReformats \in Nat

Regions == {0, 1}
Other(r) == 1 - r

\* _sysparam_info.cur_base before a successful sysparam_init().
NoBase == 2

\* key_id in sysparam_set_data() while the key has no entry.
NoId == -1

-----------------------------------------------------------------------------
(* Flash contents.                                                          *)

\* Erased, overwritten with zeros, or the magic with the ACTIVE flag set or
\* clear.
HeaderStates == {"blank", "zero", "active", "stale"}

\* "invalid": INVALID still set (the payload is not complete); "live" and
\* "dead": ALIVE set or cleared; "torn": the power failed between the two
\* fields of the header; "zero": a failed header overwritten with zeros.
EntryStates == {"invalid", "live", "dead", "torn", "zero"}

Entries == [st: EntryStates, isval: BOOLEAN, id: Nat,
            data: Keys \cup Values \cup {None}]

Zeroed == [st |-> "zero", isval |-> FALSE, id |-> 0, data |-> None]

NewEntry(isval, id, data) ==
    [st |-> "invalid", isval |-> isval, id |-> id, data |-> data]

ENTRY_SIZE(e) ==
    ENTRY_HEADER_SIZE + (CASE e.st = "zero" -> 0
                           [] e.st = "torn" -> ERASED_LEN
                           [] OTHER -> PayloadLen[e.data])

LiveKey(e) == e.st = "live" /\ ~e.isval
LiveValue(e) == e.st = "live" /\ e.isval

\* Bytes taken by the entries of L that pass the test.
Total(L, Test(_)) ==
    LET sum[n \in 0 .. Len(L)] ==
          IF n = 0 THEN 0
                   ELSE sum[n - 1] + (IF Test(L[n]) THEN ENTRY_SIZE(L[n]) ELSE 0)
    IN  sum[Len(L)]

\* The first or the last of a set of positions, 0 if there is none.
First(I) == IF I = {} THEN 0 ELSE Min(I)
Last(I) == IF I = {} THEN 0 ELSE Max(I)

\* Position of the live key entry with this name.
FindKey(L, k) ==
    First({i \in 1 .. Len(L) : LiveKey(L[i]) /\ L[i].data = k})

\* Position of the first live value with this id after position i.
FindValue(L, i, id) ==
    First({j \in i + 1 .. Len(L) : LiveValue(L[j]) /\ L[j].id = id})

\* What sysparam_get_data() returns for key k when the log is L.
Lookup(L, k) ==
    LET ki == FindKey(L, k)
        vi == IF ki = 0 THEN 0 ELSE FindValue(L, ki, L[ki].id)
    IN  IF vi = 0 THEN None ELSE L[vi].data

\* Fault: the iterator starts one entry late.
NextPairLate(L, i) ==
    First({j \in i + 2 .. Len(L) :
             LiveKey(L[j]) /\ FindValue(L, j, L[j].id) # 0})

\* Position of the next pair sysparam_iter_next() returns after position i.
NextPair(L, i) ==
    First({j \in i + 1 .. Len(L) :
             LiveKey(L[j]) /\ FindValue(L, j, L[j].id) # 0})

\* The counters _find_entry() keeps in its context over a scan of the log.
MaxKeyId(L) ==
    LET i == Last({j \in 1 .. Len(L) : LiveKey(L[j])})
    IN  IF i = 0 THEN 0 ELSE L[i].id

UnusedKeys(L) ==
    Cardinality({i \in 1 .. Len(L) : LiveKey(L[i])})
        - Cardinality({i \in 1 .. Len(L) : LiveValue(L[i])})

Compactable(L) == Total(L, LAMBDA e : e.st # "live")

\* A torn header has an impossible length, so the scan stops there.
IsTorn(e) == e.st = "torn"
FirstTorn(L) == First({i \in 1 .. Len(L) : IsTorn(L[i])})
Torn(L) == FirstTorn(L) # 0

EndOf(L) == IF Torn(L) THEN FirstTorn(L) - 1 ELSE Len(L)

-----------------------------------------------------------------------------
VARIABLES
    hdr,      \* header of each region
    log,      \* entries of each region, in address order
    junk,     \* the region may hold data that is not in log
    cur,      \* _sysparam_info.cur_base; alt_base is the other region
    end,      \* _sysparam_info.end_addr: entries before it in region cur
    force,    \* _sysparam_info.force_compact
    pc,       \* the flash operation that comes next
    arg,      \* key and value of the last sysparam_set_data(), and (history)
              \* what a lookup returned for the key when it was called
    ctx,      \* its key_id, old_value_addr, ctx.max_key_id, ctx.unused_keys
    cp,       \* _compact_params(): iterator, current_key_id, where to return
    res,      \* status of the last operation that returned
    faults    \* power failures, flash errors and reformats so far

flash == <<hdr, log, junk>>
info == <<cur, end, force>>
vars == <<flash, info, pc, arg, ctx, cp, res, faults>>

Alt == Other(cur)

Statuses == {"OK", "NOTFOUND", "ERR_NOINIT", "ERR_FULL", "ERR_IO",
             "ERR_CORRUPT"}

SetSteps == {"space", "full", "force", "wkey", "wkeybody", "wval", "wvalbody",
             "delete"}
CompactSteps == {"cerase", "cerase2", "ckey", "ckeybody", "cval", "cvalbody",
                 "cactive", "cstale"}
BootSteps == {"boot", "berase", "berase2", "bstale", "create", "create2"}
FormatSteps == {"format0", "format0b", "format1", "format1b"}

NoCtx == [kid |-> NoId, old |-> 0, oldreg |-> 0, max |-> 0, unused |-> 0]
NoCp == [src |-> 0, nid |-> 0, back |-> "idle"]
NoArg == [key |-> None, val |-> None, was |-> None]

TypeOK ==
    /\ hdr \in [Regions -> HeaderStates]
    /\ log \in [Regions -> Seq(Entries)]
    /\ junk \in [Regions -> BOOLEAN]
    /\ cur \in Regions \cup {NoBase}
    /\ end \in Nat
    /\ force \in BOOLEAN
    /\ pc \in {"idle"} \cup SetSteps \cup CompactSteps \cup BootSteps
               \cup FormatSteps
    /\ arg \in [key: Keys \cup {None}, val: Values \cup {None},
                was: Keys \cup Values \cup {None}]
    /\ ctx \in [kid: Nat \cup {NoId}, old: Nat, oldreg: Regions, max: Nat, unused: Int]
    /\ cp \in [src: Nat, nid: Nat, back: {"idle", "full", "force", "wkey"}]
    /\ res \in Statuses
    /\ faults \in [crashes: 0 .. MaxCrashes, errors: 0 .. MaxErrors,
                   reformats: 0 .. MaxReformats]

\* An erased flash chip, at power-on.
Init ==
    /\ hdr = [r \in Regions |-> "blank"]
    /\ log = [r \in Regions |-> <<>>]
    /\ junk = [r \in Regions |-> FALSE]
    /\ cur = NoBase /\ end = 0 /\ force = FALSE
    /\ pc = "boot" /\ arg = NoArg /\ ctx = NoCtx /\ cp = NoCp
    /\ res = "ERR_NOINIT"
    /\ faults = [crashes |-> 0, errors |-> 0, reformats |-> 0]

Return(status) ==
    pc' = "idle" /\ res' = status /\ ctx' = NoCtx /\ cp' = NoCp

-----------------------------------------------------------------------------
(* sysparam_set_data(), up to the first flash write.                        *)

SetStart(k, v) ==
    LET L == log[cur]
        ki == FindKey(L, k)
        vi == IF ki = 0 THEN 0 ELSE FindValue(L, ki, L[ki].id)
    IN  /\ pc = "idle" /\ cur # NoBase
        /\ arg' = [key |-> k, val |-> v, was |-> Lookup(L, k)]
        /\ \/ /\ Lookup(L, k) = v
              /\ Return(IF v = None THEN "NOTFOUND" ELSE "OK")
           \/ /\ Lookup(L, k) # v
              /\ pc' = IF v = None THEN "delete" ELSE "space"
              /\ ctx' = [kid |-> IF ki = 0 THEN NoId ELSE L[ki].id,
                         old |-> vi, oldreg |-> cur,
                         max |-> MaxKeyId(L), unused |-> UnusedKeys(L)]
              /\ UNCHANGED <<cp, res>>
        /\ UNCHANGED <<flash, info, faults>>

\* Every operation but sysparam_init() and sysparam_create_area().
NotInitialised ==
    /\ pc = "idle" /\ cur = NoBase
    /\ Return("ERR_NOINIT")
    /\ arg' = NoArg
    /\ UNCHANGED <<flash, info, faults>>

FreeSpace ==
    RegionSize - REGION_HEADER_SIZE
        - Total(SubSeq(log[cur], 1, end), LAMBDA e : TRUE)

\* Fault: the room for the key entry is forgotten.
NeededSpaceNoKey == ENTRY_HEADER_SIZE + PayloadLen[arg.val]

NeededSpace ==
    ENTRY_HEADER_SIZE + PayloadLen[arg.val]
        + (IF ctx.kid = NoId THEN ENTRY_HEADER_SIZE + PayloadLen[arg.key]
                             ELSE 0)

\* Space a compaction recovers, as sysparam_set_data() reckons it.
CompactGain ==
    Compactable(log[cur])
        + (IF ctx.old = 0 THEN 0 ELSE ENTRY_SIZE(log[cur][ctx.old]))

StartCompact(back) ==
    pc' = "cerase" /\ cp' = [src |-> 0, nid |-> 0, back |-> back]

\* The compaction makes enough room, or may by dropping keys without value.
CompactHelps ==
    NeededSpace <= FreeSpace + CompactGain \/ ctx.unused > 0

\* Is there room, or would a compaction make some?  The scan to the end that
\* precedes the decision starts one header further than the end if the scan
\* before it already got there, and then mistakes an exactly full region for
\* one with an impossible entry.
SetSpace ==
    /\ pc = "space"
    /\ force' = (force \/ (NeededSpace > FreeSpace /\ ctx.old = 0
                            /\ FreeSpace < ENTRY_HEADER_SIZE))
    /\ IF NeededSpace > FreeSpace /\ CompactHelps
         THEN StartCompact("full") /\ ctx' = [ctx EXCEPT !.old = 0]
         ELSE pc' = "full" /\ UNCHANGED <<ctx, cp>>
    /\ UNCHANGED <<flash, cur, end, arg, res, faults>>

\* Refuse if there is no room or no key id left.
SetFull ==
    /\ pc = "full"
    /\ \/ /\ NeededSpace > FreeSpace
          /\ Return("ERR_FULL")
       \/ /\ NeededSpace <= FreeSpace
          /\ ctx.kid = NoId /\ ctx.max >= MAX_KEY_ID
          /\ IF ctx.unused > 0
               THEN /\ StartCompact("force")
                    /\ ctx' = [ctx EXCEPT !.old = 0] /\ UNCHANGED res
               ELSE Return("ERR_FULL")
       \/ /\ NeededSpace <= FreeSpace
          /\ ctx.kid # NoId \/ ctx.max < MAX_KEY_ID
          /\ pc' = "force"
          /\ UNCHANGED <<ctx, cp, res>>
    /\ UNCHANGED <<flash, info, arg, faults>>

MustCompact == force

\* Compact before the first write after an impossible entry was met.  The
\* address of the old value is kept, though it is in the other region then.
SetForce ==
    /\ pc = "force"
    /\ IF MustCompact THEN StartCompact("wkey")
                      ELSE pc' = "wkey" /\ UNCHANGED cp
    /\ UNCHANGED <<flash, info, arg, ctx, res, faults>>

-----------------------------------------------------------------------------
(* _write_entry(): the header is written first, with INVALID set; then the  *)
(* payload; then the header again, with INVALID clear.  The second and      *)
(* third write are one step: an entry without INVALID clear is never read.  *)

PutHeader(r, n, e) ==
    log' = [log EXCEPT ![r] = Append(SubSeq(@, 1, n), e)]

PutBody(r) ==
    log' = [log EXCEPT ![r] = [@ EXCEPT ![Len(@)].st = "live"]]

\* sysparam_set_data(): the key entry, unless the key has one.
SetWriteKey ==
    /\ pc = "wkey"
    /\ \/ /\ ctx.kid # NoId
          /\ pc' = "wval"
          /\ UNCHANGED <<log, end, ctx>>
       \/ /\ ctx.kid = NoId
          /\ ctx' = [ctx EXCEPT !.kid = ctx.max + 1]
          /\ PutHeader(cur, end, NewEntry(FALSE, ctx.max + 1, arg.key))
          /\ end' = end + 1
          /\ pc' = "wkeybody"
    /\ UNCHANGED <<hdr, junk, cur, force, arg, cp, res, faults>>

SetWriteKeyBody ==
    /\ pc = "wkeybody"
    /\ PutBody(cur)
    /\ pc' = "wval"
    /\ UNCHANGED <<hdr, junk, info, arg, ctx, cp, res, faults>>

SetWriteValue ==
    /\ pc = "wval"
    /\ PutHeader(cur, end, NewEntry(TRUE, ctx.kid, arg.val))
    /\ end' = end + 1
    /\ pc' = "wvalbody"
    /\ UNCHANGED <<hdr, junk, cur, force, arg, ctx, cp, res, faults>>

\* Fault: the old value is left alive.
HasOldNever == FALSE

HasOld == ctx.old # 0

SetWriteValueBody ==
    /\ pc = "wvalbody"
    /\ PutBody(cur)
    /\ IF HasOld THEN pc' = "delete" /\ UNCHANGED <<ctx, cp, res>>
                 ELSE Return("OK")
    /\ UNCHANGED <<hdr, junk, info, arg, faults>>

\* _delete_entry() of the old value.  After a forced compaction its address
\* is in the region that was left.
DeleteOld ==
    IF ctx.oldreg = cur
      THEN log' = [log EXCEPT ![cur] = [@ EXCEPT ![ctx.old].st = "dead"]]
      ELSE UNCHANGED log

SetDelete ==
    /\ pc = "delete"
    /\ DeleteOld
    /\ Return("OK")
    /\ UNCHANGED <<hdr, junk, info, arg, faults>>

-----------------------------------------------------------------------------
(* _compact_params()                                                        *)

\* sysparam_compact()
CompactStart ==
    /\ pc = "idle" /\ cur # NoBase
    /\ StartCompact("idle")
    /\ arg' = NoArg
    /\ UNCHANGED <<flash, info, ctx, res, faults>>

\* _format_region() of two sectors: the first holds the header.
EraseFirst(r) ==
    /\ hdr' = [hdr EXCEPT ![r] = "blank"]
    /\ log' = [log EXCEPT ![r] = <<>>]
    /\ junk' = [junk EXCEPT ![r] = @ \/ log[r] # <<>>]

EraseRest(r) ==
    junk' = [junk EXCEPT ![r] = FALSE] /\ UNCHANGED <<hdr, log>>

CompactErase ==
    /\ pc = "cerase"
    /\ EraseFirst(Alt)
    /\ pc' = "cerase2"
    /\ UNCHANGED <<info, arg, ctx, cp, res, faults>>

\* Go on with the pair after position i, or make the copy the active region.
NextCopy(i) ==
    LET n == NextPair(log[cur], i)
    IN  IF n = 0 THEN pc' = "cactive" /\ UNCHANGED cp
                 ELSE pc' = "ckey" /\ cp' = [cp EXCEPT !.src = n]

CompactErase2 ==
    /\ pc = "cerase2"
    /\ EraseRest(Alt)
    /\ NextCopy(0)
    /\ UNCHANGED <<info, arg, ctx, res, faults>>

CompactKey ==
    /\ pc = "ckey"
    /\ PutHeader(Alt, Len(log[Alt]),
                 NewEntry(FALSE, cp.nid + 1, log[cur][cp.src].data))
    /\ cp' = [cp EXCEPT !.nid = @ + 1]
    /\ pc' = "ckeybody"
    /\ UNCHANGED <<hdr, junk, info, arg, ctx, res, faults>>

\* Fault: the key being set is recognised by the new ids instead of the old.
IsSetKeyNew == cp.nid = ctx.kid

IsSetKey == log[cur][cp.src].id = ctx.kid

\* The value of the key that is being set is left behind, and the key's new
\* id noted.
CompactKeyBody ==
    /\ pc = "ckeybody"
    /\ PutBody(Alt)
    /\ IF IsSetKey
         THEN ctx' = [ctx EXCEPT !.kid = cp.nid] /\ NextCopy(cp.src)
         ELSE pc' = "cval" /\ UNCHANGED <<ctx, cp>>
    /\ UNCHANGED <<hdr, junk, info, arg, res, faults>>

CompactValue ==
    LET L == log[cur]
        vi == FindValue(L, cp.src, L[cp.src].id)
    IN  /\ pc = "cval"
        /\ PutHeader(Alt, Len(log[Alt]), NewEntry(TRUE, cp.nid, L[vi].data))
        /\ pc' = "cvalbody"
        /\ UNCHANGED <<hdr, junk, info, arg, ctx, cp, res, faults>>

CompactValueBody ==
    /\ pc = "cvalbody"
    /\ PutBody(Alt)
    /\ NextCopy(cp.src)
    /\ UNCHANGED <<hdr, junk, info, arg, ctx, res, faults>>

\* Fault: the old region is marked stale before the new one is active.
ActivatedStaleFirst == [hdr EXCEPT ![cur] = "stale"]

\* _write_region_header() of the new region, and of the old one.
Activated == [hdr EXCEPT ![Alt] = "active"]

Retired == [hdr EXCEPT ![cur] = "stale"]

CompactActivate ==
    /\ pc = "cactive"
    /\ hdr' = Activated
    /\ pc' = "cstale"
    /\ UNCHANGED <<log, junk, info, arg, ctx, cp, res, faults>>

\* The entries of the region that becomes stale stay in the flash but are
\* erased before that region is used again.  The model forgets them here: a
\* path that did read them would find every key gone.
Forget(r) ==
    log' = [log EXCEPT ![r] = <<>>] /\ junk' = [junk EXCEPT ![r] = TRUE]

\* Fault: the context is cleared and max_key_id not set again.
FixedCtxNoMax == [ctx EXCEPT !.max = 0, !.unused = 0]

FixedCtx == [ctx EXCEPT !.max = cp.nid, !.unused = 0]

CompactSwitch ==
    /\ pc = "cstale"
    /\ hdr' = Retired
    /\ Forget(cur)
    /\ cur' = Alt /\ end' = Len(log[Alt]) /\ force' = FALSE
    /\ IF cp.back = "idle"
         THEN Return("OK")
         ELSE /\ pc' = cp.back /\ cp' = NoCp /\ UNCHANGED res
              /\ ctx' = FixedCtx
    /\ UNCHANGED <<arg, faults>>

-----------------------------------------------------------------------------
(* sysparam_init() and sysparam_create_area(), as sdk_user_start() calls    *)
(* them at boot, and the forced re-creation of the area by an application.  *)

Magic(r) == hdr[r] \in {"active", "stale"}
Blank(r) == hdr[r] = "blank" /\ log[r] = <<>> /\ ~junk[r]

\* Set up the RAM for region r: find the end of its log.
FinishInit(r) ==
    /\ cur' = r
    /\ end' = EndOf(log[r])
    /\ force' = Torn(log[r])
    /\ arg' = NoArg
    /\ Return("OK")

\* Fault: the flag of the region that was found is read the wrong way round.
UsableStale(r) == hdr[r] = "stale"

\* Is the only region with a header the active one?
Usable(r) == hdr[r] = "active"

BootInit ==
    /\ pc = "boot"
    /\ \/ /\ \A r \in Regions : Magic(r)
          /\ FinishInit(IF hdr[0] = "active" THEN 0 ELSE 1)
       \/ /\ \E r \in Regions : Magic(r) /\ ~Magic(Other(r)) /\ Usable(r)
          /\ pc' = "berase"
          /\ UNCHANGED <<info, arg, ctx, cp, res>>
       \/ /\ \E r \in Regions : Magic(r) /\ ~Magic(Other(r)) /\ ~Usable(r)
          /\ Return("ERR_CORRUPT")
          /\ UNCHANGED <<info, arg>>
       \/ /\ \A r \in Regions : ~Magic(r)
          /\ IF \A r \in Regions : Blank(r)
               THEN pc' = "create" /\ UNCHANGED <<ctx, cp, res>>
               ELSE Return("NOTFOUND")
          /\ UNCHANGED <<info, arg>>
    /\ UNCHANGED <<flash, faults>>

\* The region that sysparam_init() found without a header.
Lost == CHOOSE r \in Regions : ~Magic(r)

BootErase ==
    /\ pc = "berase"
    /\ EraseFirst(Lost)
    /\ pc' = "berase2"
    /\ UNCHANGED <<info, arg, ctx, cp, res, faults>>

BootErase2 ==
    /\ pc = "berase2"
    /\ EraseRest(Lost)
    /\ pc' = "bstale"
    /\ UNCHANGED <<info, arg, ctx, cp, res, faults>>

BootStale ==
    /\ pc = "bstale"
    /\ hdr' = [hdr EXCEPT ![Lost] = "stale"]
    /\ FinishInit(Other(Lost))
    /\ UNCHANGED <<log, junk, faults>>

CreateFirst ==
    /\ pc = "create"
    /\ hdr' = [hdr EXCEPT ![0] = "active"]
    /\ pc' = "create2"
    /\ UNCHANGED <<log, junk, info, arg, ctx, cp, res, faults>>

\* The caller goes on with sysparam_init().
CreateSecond ==
    /\ pc = "create2"
    /\ hdr' = [hdr EXCEPT ![1] = "stale"]
    /\ pc' = "boot"
    /\ UNCHANGED <<log, junk, info, arg, ctx, cp, res, faults>>

ReformatStart ==
    /\ pc = "idle"
    /\ faults.reformats < MaxReformats
    /\ faults' = [faults EXCEPT !.reformats = @ + 1]
    /\ cur' = NoBase /\ end' = 0 /\ force' = FALSE
    /\ pc' = "format0"
    /\ arg' = NoArg
    /\ UNCHANGED <<flash, ctx, cp, res>>

ReformatErase ==
    /\ \/ pc = "format0" /\ EraseFirst(0) /\ pc' = "format0b"
       \/ pc = "format0b" /\ EraseRest(0) /\ pc' = "format1"
       \/ pc = "format1" /\ EraseFirst(1) /\ pc' = "format1b"
       \/ pc = "format1b" /\ EraseRest(1) /\ pc' = "create"
    /\ UNCHANGED <<info, arg, ctx, cp, res, faults>>

-----------------------------------------------------------------------------
(* The environment: power failures and failing flash operations.            *)

\* Steps that are about to write an entry header to the current region.
HeaderNext == pc = "wval" \/ (pc = "wkey" /\ ctx.kid = NoId)

\* The power fails and the device boots.  A header write that was under way
\* may have reached the first half of the header only.
Crash ==
    /\ faults.crashes < MaxCrashes
    /\ faults' = [faults EXCEPT !.crashes = @ + 1]
    /\ \/ UNCHANGED log
       \/ /\ HeaderNext
          /\ PutHeader(cur, end, [Zeroed EXCEPT !.st = "torn"])
    /\ cur' = NoBase /\ end' = 0 /\ force' = FALSE
    /\ pc' = "boot" /\ ctx' = NoCtx /\ cp' = NoCp /\ res' = "ERR_NOINIT"
    /\ UNCHANGED <<hdr, junk, arg>>

\* A sector that failed to erase keeps its contents.  (One that was erased
\* and reported an error is the case of the next erase failing.)
FailErase ==
    /\ pc \in {"cerase", "cerase2", "berase", "berase2"} \cup FormatSteps
    /\ UNCHANGED <<flash, end>>

\* Fault: the zeroed header is not skipped.
SkipZeroedNot == end

SkipZeroed == end + 1

\* The header is overwritten with zeros and skipped.
FailHeader ==
    /\ \/ HeaderNext /\ PutHeader(cur, end, Zeroed) /\ end' = SkipZeroed
       \/ /\ pc \in {"ckey", "cval"}
          /\ PutHeader(Alt, Len(log[Alt]), Zeroed)
          /\ UNCHANGED end
    /\ UNCHANGED <<hdr, junk>>

\* The write of the payload, of the final header or of the cleared ALIVE flag
\* fails; its effect is in the flash or is not.
FailBody ==
    /\ \/ pc \in {"wkeybody", "wvalbody"} /\ PutBody(cur)
       \/ pc \in {"ckeybody", "cvalbody"} /\ PutBody(Alt)
       \/ pc = "delete" /\ DeleteOld
       \/ /\ pc \in {"wkeybody", "wvalbody", "ckeybody", "cvalbody", "delete"}
          /\ UNCHANGED log
    /\ UNCHANGED <<hdr, junk, end>>

\* _write_region_header() overwrites a header it could not write with zeros.
FailRegionHeader ==
    /\ \/ pc = "cactive" /\ hdr' = [hdr EXCEPT ![Alt] = "zero"]
       \/ pc = "cstale" /\ hdr' = [hdr EXCEPT ![cur] = "zero"]
       \/ pc = "bstale" /\ hdr' = [hdr EXCEPT ![Lost] = "zero"]
       \/ pc = "create" /\ hdr' = [hdr EXCEPT ![0] = "zero"]
       \/ pc = "create2" /\ hdr' = [hdr EXCEPT ![1] = "zero"]
    /\ UNCHANGED <<log, junk, end>>

FlashError ==
    /\ faults.errors < MaxErrors
    /\ faults' = [faults EXCEPT !.errors = @ + 1]
    /\ FailErase \/ FailHeader \/ FailBody \/ FailRegionHeader
    /\ Return("ERR_IO")
    /\ UNCHANGED <<cur, force, arg>>

-----------------------------------------------------------------------------
SetStep ==
    SetSpace \/ SetFull \/ SetForce \/ SetWriteKey \/ SetWriteKeyBody
        \/ SetWriteValue \/ SetWriteValueBody \/ SetDelete

CompactStep ==
    CompactErase \/ CompactErase2 \/ CompactKey \/ CompactKeyBody
        \/ CompactValue \/ CompactValueBody \/ CompactActivate \/ CompactSwitch

BootStep ==
    BootInit \/ BootErase \/ BootErase2 \/ BootStale \/ CreateFirst
        \/ CreateSecond \/ ReformatErase

\* The task that holds the mutex, or the boot code, goes on.
Step == SetStep \/ CompactStep \/ BootStep

\* A task calls an operation.
Call ==
    \/ \E k \in Keys, v \in Values : SetStart(k, v)
    \/ \E k \in Deletable : SetStart(k, None)
    \/ CompactStart
    \/ NotInitialised
    \/ ReformatStart

Next == Step \/ Call \/ Crash \/ FlashError

\* An operation in progress is not abandoned: the scheduler keeps running the
\* task that holds the mutex.
Spec == Init /\ [][Next]_vars /\ WF_vars(Step)

-----------------------------------------------------------------------------
(* Properties.                                                              *)

\* The region sysparam_init() would choose if the device booted now.
BootRegion ==
    IF \A r \in Regions : Magic(r)
      THEN IF hdr[0] = "active" THEN 0 ELSE 1
      ELSE IF \E r \in Regions : hdr[r] = "active"
             THEN CHOOSE r \in Regions : hdr[r] = "active"
             ELSE NoBase

\* What a lookup of k would return after a power failure now.
Durable(k) ==
    IF BootRegion = NoBase THEN None ELSE Lookup(log[BootRegion], k)

\* At every flash operation of a set, a delete, a compaction or a boot, a
\* power failure leaves an area that sysparam_init() can use (or the blank
\* flash it started from): the ACTIVE flag moves from one region to the other
\* without a moment in which no region has it.
AlwaysBootable ==
    BootRegion # NoBase \/ \A r \in Regions : Blank(r)

\* A power failure at any moment of sysparam_set_data(k, ...), and a whole
\* compaction, leaves what is stored for every other key as it was.
Isolation ==
    [][\A k \in Keys : Durable(k)' # Durable(k) => k = arg.key]_vars

\* Between operations, the region that lookups read is the one that a reboot
\* would read, so that what a task can read is what persists.
RamMatchesFlash ==
    pc = "idle" /\ cur # NoBase => cur = BootRegion

\* Whenever the power fails, the next boot finds a region, and the one that
\* tasks were using.
Recoverable == AlwaysBootable /\ RamMatchesFlash

\* "any future writes (to the end) will write over previously-written data
\* and result in garbage": the force_compact flag prevents that, an entry is
\* only ever written to unwritten flash.
NoOverwrite ==
    pc \in {"wkey", "wval"} => end = Len(log[cur])

\* _find_entry() takes the id of the last key it meets for the largest one,
\* and _compact_params() compares old ids with a key_id it has renumbered
\* already: both rest on ids that increase along the log, one per key name.
KeyIdsIncrease ==
    \A r \in Regions : \A i, j \in 1 .. Len(log[r]) :
        i < j /\ LiveKey(log[r][i]) /\ LiveKey(log[r][j])
          => /\ log[r][i].id < log[r][j].id
             /\ log[r][i].data # log[r][j].data

\* No entry runs past the end of its region, in particular not the copies a
\* compaction makes, which it writes without checking for room.
LogFits ==
    \A r \in Regions :
        REGION_HEADER_SIZE
          + Total(log[r], LAMBDA e : ~IsTorn(e)) <= RegionSize

\* Every boot ends with the store in use.
BootSucceeds == pc = "boot" ~> pc = "idle" /\ cur # NoBase

\* The last call was sysparam_set_data() with value v, and it returned.
Returned(v, statuses) ==
    /\ pc = "idle" /\ cur # NoBase
    /\ arg.key # None /\ arg.val = v /\ res \in statuses

\* sysparam_set_data() that returns SYSPARAM_OK has set the value: a lookup
\* of the key now returns it.
SetTakesEffect ==
    \A v \in Values :
        Returned(v, {"OK"}) => Lookup(log[cur], arg.key) = v

\* A delete that returns SYSPARAM_OK (or SYSPARAM_NOTFOUND) leaves no value
\* for the key.
DeleteTakesEffect ==
    Returned(None, {"OK", "NOTFOUND"}) => Lookup(log[cur], arg.key) = None

\* _compact_params() leaves out the value of the key that is being set
\* "because it is assumed it will be overwritten as the next step": a
\* sysparam_set_data() that is refused for lack of room leaves the old value.
RefusalKeepsValue ==
    \A v \in Values :
        Returned(v, {"ERR_FULL"}) => Lookup(log[cur], arg.key) = arg.was

\* What sysparam_set_data() returns is what it did: OK sets the value,
\* compactions on the way included, and a refusal leaves the old one.
SetObserved == SetTakesEffect /\ RefusalKeepsValue

-----------------------------------------------------------------------------
(* Without power failures, flash errors and deletes, the store implements a *)
(* map whose entries change one at a time.                                  *)

StoreNow ==
    [k \in Keys |-> IF cur = NoBase THEN None ELSE Lookup(log[cur], k)]

CallNow ==
    IF pc \in SetSteps \cup CompactSteps /\ arg.key # None THEN arg ELSE NoArg

Map == INSTANCE ParamStore WITH store <- StoreNow, call <- CallNow

\* Every step of the log-structured store is a step of the map in ParamStore
\* or leaves it unchanged.
ImplementsMap == Map!Spec

=============================================================================
