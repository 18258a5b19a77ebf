----------------------------- MODULE DhcpProofs -----------------------------
(***************************************************************************)
(* The leases of the DHCP server, for any number of clients and slots, any *)
(* lease time below half a turn of the tick count, and any messages.       *)
(***************************************************************************)
EXTENDS DhcpServer, MinMaxLemmas

Leases == [hw : Client \cup {Nobody}, active : BOOLEAN, expires : TickType]

DhcpTypes ==
    /\ tick \in TickType /\ running \in BOOLEAN
    /\ leases \in [Slots -> Leases]
    /\ left \in [Slots -> Int]
    /\ held \in [Client -> [at : Slots \cup {NoSlot}, left : Nat]]

(* What the wrapping difference of two tick counts says of a lease. *)
Timed(l, n, t) ==
    l.active => /\ n >= -HALF /\ n <= LEASE_TIME
                /\ Minus(l.expires, t) = IF n >= 0 THEN n ELSE n + TICKS

AllTimed == \A i \in Slots : Timed(leases[i], left[i], tick)

(* An address in use is that of an active lease of the client, which the     *)
(* server keeps at least as long as the client does.                         *)
Backed(h, c, ls, lf) ==
    h[c].left > 0 => /\ h[c].at \in Slots
                     /\ ls[h[c].at].active /\ ls[h[c].at].hw = c
                     /\ h[c].left <= lf[h[c].at]

AllBacked == \A c \in Client : Backed(held, c, leases, left)

DhcpInv == DhcpTypes /\ AllTimed /\ AllBacked

-----------------------------------------------------------------------------
LEMMA TickNumbers ==
    ASSUME NEW e \in TickType, NEW t \in TickType, NEW n \in Int, n > -HALF, n <= LEASE_TIME,
           Minus(e, t) = IF n >= 0 THEN n ELSE n + TICKS
    PROVE  /\ Plus(t, 1) \in TickType
           /\ Minus(e, Plus(t, 1)) = IF n - 1 >= 0 THEN n - 1 ELSE n - 1 + TICKS
BY DhcpAssumption, TicksAssumption DEF TickType, Plus, Minus

LEMMA GrantNumbers ==
    ASSUME NEW t \in TickType
    PROVE  Plus(t, LEASE_TIME) \in TickType /\ Minus(Plus(t, LEASE_TIME), t) = LEASE_TIME
BY DhcpAssumption, TicksAssumption DEF TickType, Plus, Minus

(* A lease is dropped exactly when it has run out. *)
LEMMA ExpiredIsPast ==
    ASSUME DhcpInv, NEW i \in Slots, leases[i].active
    PROVE  Expired(leases[i]) <=> left[i] < 0
<1>1. /\ left[i] \in Int /\ left[i] >= -HALF /\ left[i] <= LEASE_TIME
      /\ Minus(leases[i].expires, tick) = IF left[i] >= 0 THEN left[i] ELSE left[i] + TICKS
  BY DEF DhcpInv, DhcpTypes, AllTimed, Timed
<1>2. Expired(leases[i]) <=> Minus(leases[i].expires, tick) >= HALF
  BY DEF Expired
<1> QED BY <1>1, <1>2, DhcpAssumption

LEMMA ExpireType ==
    ASSUME DhcpInv
    PROVE  /\ Expire \in [Slots -> Leases]
           /\ \A i \in Slots : /\ Expire[i].hw = leases[i].hw
                               /\ Expire[i].expires = leases[i].expires
                               /\ Expire[i].active => leases[i].active /\ left[i] >= 0
                               /\ leases[i].active /\ left[i] >= 0 => Expire[i].active
<1>1. ASSUME NEW i \in Slots
      PROVE  /\ Expire[i] \in Leases
             /\ Expire[i].hw = leases[i].hw /\ Expire[i].expires = leases[i].expires
             /\ Expire[i].active <=> leases[i].active /\ ~Expired(leases[i])
  <2>1. leases[i] \in Leases
    BY DEF DhcpInv, DhcpTypes
  <2>2. Expire[i] = [leases[i] EXCEPT !.active = leases[i].active /\ ~Expired(leases[i])]
    BY DEF Expire
  <2>3. (leases[i].active /\ ~Expired(leases[i])) \in BOOLEAN
    OBVIOUS
  <2> HIDE DEF Expired
  <2> QED BY <2>1, <2>2, <2>3 DEF Leases
<1>2. ASSUME NEW i \in Slots
      PROVE  /\ Expire[i].active => leases[i].active /\ left[i] >= 0
             /\ leases[i].active /\ left[i] >= 0 => Expire[i].active
  <2>1. left[i] \in Int
    BY DEF DhcpInv, DhcpTypes
  <2> QED BY <1>1, <2>1, ExpiredIsPast
<1>3. Expire = [i \in Slots |-> Expire[i]]
  BY DEF Expire
<1> QED BY <1>1, <1>2, <1>3

(* The slot found for a client is its own or free. *)
LEMMA FoundSlot ==
    ASSUME NEW ls \in [Slots -> Leases], NEW c \in Client
    PROVE  LET i == find_lease_slot(ls, c)
           IN  i = NoSlot \/ (i \in Slots /\ (ls[i].hw = c \/ ~ls[i].active))
<1> DEFINE free  == {i \in Slots : ~ls[i].active}
           empty == {i \in free : \A j \in free : i <= j}
           own   == {i \in Slots \ empty : ls[i].hw = c}
<1>1. free \in SUBSET Nat /\ own \in SUBSET Nat
  BY DhcpAssumption DEF Slots
<1>2. own # {} => Min(own) \in own
  BY <1>1, MinIsLeast
<1>3. free # {} => Min(free) \in free
  BY <1>1, MinIsLeast
<1>4. find_lease_slot(ls, c) =
          IF own # {} THEN Min(own) ELSE IF free # {} THEN Min(free) ELSE NoSlot
  BY DEF find_lease_slot
<1> QED BY <1>2, <1>3, <1>4

-----------------------------------------------------------------------------
(* What every message does first keeps the invariant. *)
LEMMA ExpireKeeps ==
    ASSUME DhcpInv
    PROVE  /\ \A i \in Slots : Timed(Expire[i], left[i], tick)
           /\ \A c \in Client : Backed(held, c, Expire, left)
<1>1. ASSUME NEW i \in Slots PROVE Timed(Expire[i], left[i], tick)
  BY ExpireType DEF DhcpInv, AllTimed, Timed
<1>2. ASSUME NEW c \in Client PROVE Backed(held, c, Expire, left)
  <2> SUFFICES ASSUME held[c].left > 0
               PROVE  /\ held[c].at \in Slots
                      /\ Expire[held[c].at].active /\ Expire[held[c].at].hw = c
                      /\ held[c].left <= left[held[c].at]
    BY DEF Backed
  <2>1. /\ held[c].at \in Slots
        /\ leases[held[c].at].active /\ leases[held[c].at].hw = c
        /\ held[c].left <= left[held[c].at]
    BY DEF DhcpInv, AllBacked, Backed
  <2>2. held[c].left \in Nat /\ left[held[c].at] \in Int
    BY <2>1 DEF DhcpInv, DhcpTypes
  <2>3. left[held[c].at] >= 0
    BY <2>1, <2>2
  <2> QED BY <2>1, <2>3, ExpireType
<1> QED BY <1>1, <1>2

(* A message after which the leases are the ones that have not run out. *)
LEMMA OnlyExpires ==
    ASSUME DhcpInv, leases' = Expire, left' = left, held' = held, tick' = tick, running' = running
    PROVE  DhcpInv' /\ \A i \in Slots : leases'[i].active => left'[i] >= 0
<1>1. DhcpTypes'
  BY ExpireType DEF DhcpInv, DhcpTypes
<1>2. AllTimed' /\ AllBacked'
  BY ExpireKeeps DEF AllTimed, AllBacked
<1>3. \A i \in Slots : leases'[i].active => left'[i] >= 0
  BY ExpireType
<1> QED BY <1>1, <1>2, <1>3 DEF DhcpInv

LEMMA DiscoverInv ==
    ASSUME DhcpInv, NEW c \in Client, handle_dhcp_discover(c), UNCHANGED <<tick, running>>
    PROVE  DhcpInv' /\ OfferExclusive' /\ ExpiredIsFree'
<1> DEFINE i == find_lease_slot(Expire, c)
<1>1. /\ leases' = Expire /\ left' = left /\ held' = held
      /\ reply' = IF i = NoSlot THEN NoReply ELSE Reply("offer", c, i)
  BY DEF handle_dhcp_discover
<1>2. i = NoSlot \/ (i \in Slots /\ (Expire[i].hw = c \/ ~Expire[i].active))
  BY ExpireType, FoundSlot
<1> HIDE DEF i
<1>3. DhcpInv' /\ ExpiredIsFree'
  BY <1>1, OnlyExpires DEF ExpiredIsFree
<1>4. OfferExclusive'
  <2> SUFFICES ASSUME reply'.kind = "offer", NEW e \in Client, e # reply'.client, held'[e].left > 0
               PROVE  held'[e].at # reply'.slot
    BY DEF OfferExclusive
  <2>1. i # NoSlot /\ reply'.client = c /\ reply'.slot = i
    BY <1>1 DEF NoReply, Reply
  <2>2. Expire[held[e].at].active /\ Expire[held[e].at].hw = e
    BY <1>1, ExpireKeeps DEF Backed
  <2> QED BY <1>1, <1>2, <2>1, <2>2
<1> QED BY <1>3, <1>4

LEMMA GrantInv ==
    ASSUME DhcpInv, NEW c \in Client, NEW i \in Slots, ~(Expire[i].active /\ Expire[i].hw # c),
           leases' = [Expire EXCEPT ![i] =
                         [hw |-> c, active |-> TRUE, expires |-> Plus(tick, LEASE_TIME)]],
           left' = [left EXCEPT ![i] = LEASE_TIME],
           held' = held \/ held' = [held EXCEPT ![c] = [at |-> i, left |-> LEASE_TIME]],
           tick' = tick, running' = running
    PROVE  DhcpInv' /\ \A j \in Slots : leases'[j].active => left'[j] >= 0
<1> DEFINE new == [hw |-> c, active |-> TRUE, expires |-> Plus(tick, LEASE_TIME)]
<1>0. LEASE_TIME \in Nat /\ LEASE_TIME > 0 /\ HALF \in Nat
  BY DhcpAssumption
<1>1. new \in Leases /\ Timed(new, LEASE_TIME, tick) /\ new.active /\ new.hw = c
  <2>1. Plus(tick, LEASE_TIME) \in TickType /\ Minus(Plus(tick, LEASE_TIME), tick) = LEASE_TIME
    BY GrantNumbers DEF DhcpInv, DhcpTypes
  <2> QED BY <1>0, <2>1 DEF Leases, Timed
<1> HIDE DEF new
<1>2. /\ leases' = [Expire EXCEPT ![i] = new]
      /\ Expire \in [Slots -> Leases] /\ left \in [Slots -> Int]
      /\ held \in [Client -> [at : Slots \cup {NoSlot}, left : Nat]]
  BY ExpireType DEF new, DhcpInv, DhcpTypes
<1>3. \A j \in Slots : /\ leases'[j] = IF j = i THEN new ELSE Expire[j]
                       /\ left'[j] = IF j = i THEN LEASE_TIME ELSE left[j]
  BY <1>2
<1>4. DhcpTypes'
  <2>1. [at |-> i, left |-> LEASE_TIME] \in [at : Slots \cup {NoSlot}, left : Nat]
    BY <1>0
  <2>2. held' \in [Client -> [at : Slots \cup {NoSlot}, left : Nat]]
    BY <1>2, <2>1
  <2>3. leases' \in [Slots -> Leases]
    BY <1>1, <1>2
  <2>4. left' \in [Slots -> Int]
    BY <1>0, <1>2
  <2> QED BY <2>2, <2>3, <2>4 DEF DhcpInv, DhcpTypes
<1>5. AllTimed'
  <2> SUFFICES ASSUME NEW j \in Slots PROVE Timed(leases'[j], left'[j], tick)
    BY DEF AllTimed
  <2>1. CASE j = i
    BY <1>1, <1>3, <2>1
  <2>2. CASE j # i
    BY <1>3, <2>2, ExpireKeeps
  <2> QED BY <2>1, <2>2
<1>6. ASSUME NEW e \in Client, held'[e].left > 0, held'[e] = held[e]
      PROVE  Backed(held', e, leases', left')
  <2>1. /\ held[e].at \in Slots
        /\ Expire[held[e].at].active /\ Expire[held[e].at].hw = e
        /\ held[e].left <= left[held[e].at]
    BY <1>6, ExpireKeeps DEF Backed
  <2>2. CASE held[e].at # i
    BY <1>3, <1>6, <2>1, <2>2 DEF Backed
  <2>3. CASE held[e].at = i
    <3>1. e = c /\ leases[i].active
      BY <2>1, <2>3, ExpireType
    <3>2. left[i] <= LEASE_TIME /\ left[i] \in Int /\ held[e].left \in Nat
      BY <1>2, <3>1 DEF DhcpInv, AllTimed, Timed
    <3>3. held[e].left <= LEASE_TIME
      BY <1>0, <2>1, <2>3, <3>2
    <3> QED BY <1>1, <1>3, <1>6, <2>3, <3>1, <3>3 DEF Backed
  <2> QED BY <2>2, <2>3
<1>7. AllBacked'
  <2> SUFFICES ASSUME NEW e \in Client, held'[e].left > 0
               PROVE  Backed(held', e, leases', left')
    BY DEF AllBacked, Backed
  <2>1. CASE held'[e] = held[e]
    BY <1>6, <2>1
  <2>2. CASE held'[e] # held[e]
    <3>1. e = c /\ held'[e] = [at |-> i, left |-> LEASE_TIME]
      BY <1>2, <2>2
    <3> QED BY <1>0, <1>1, <1>3, <3>1 DEF Backed
  <2> QED BY <2>1, <2>2
<1>8. \A j \in Slots : leases'[j].active => left'[j] >= 0
  BY <1>0, <1>3, ExpireType
<1> QED BY <1>4, <1>5, <1>7, <1>8 DEF DhcpInv

LEMMA RequestInv ==
    ASSUME DhcpInv, NEW c \in Client, NEW option \in BOOLEAN, NEW addr,
           handle_dhcp_request(c, option, addr), UNCHANGED <<tick, running>>
    PROVE  DhcpInv' /\ OfferExclusive' /\ ExpiredIsFree'
<1>1. PICK i \in Requested(option, addr), delivered \in BOOLEAN :
        IF i = NoSlot \/ (Expire[i].active /\ Expire[i].hw # c)
        THEN /\ leases' = Expire
             /\ reply' = Reply("nak", c, NoSlot)
             /\ UNCHANGED <<left, held>>
        ELSE /\ leases' = [Expire EXCEPT ![i] =
                              [hw |-> c, active |-> TRUE, expires |-> Plus(tick, LEASE_TIME)]]
             /\ reply' = Reply("ack", c, i)
             /\ left' = [left EXCEPT ![i] = LEASE_TIME]
             /\ held' = IF delivered THEN [held EXCEPT ![c] = [at |-> i, left |-> LEASE_TIME]]
                        ELSE held
  BY DEF handle_dhcp_request
<1>2. i \in Slots \cup {NoSlot}
  BY DEF Requested, SlotOf
<1>3. OfferExclusive'
  BY <1>1 DEF OfferExclusive, Reply
<1>4. CASE i = NoSlot \/ (Expire[i].active /\ Expire[i].hw # c)
  BY <1>1, <1>3, <1>4, OnlyExpires DEF ExpiredIsFree
<1>5. CASE ~(i = NoSlot \/ (Expire[i].active /\ Expire[i].hw # c))
  <2>1. DhcpInv' /\ \A j \in Slots : leases'[j].active => left'[j] >= 0
    BY <1>1, <1>2, <1>5, GrantInv
  <2> QED BY <1>3, <2>1 DEF ExpiredIsFree
<1> QED BY <1>4, <1>5

LEMMA ReleaseInv ==
    ASSUME DhcpInv, NEW c \in Client, handle_dhcp_release(c), UNCHANGED <<tick, running>>
    PROVE  DhcpInv' /\ OfferExclusive' /\ ExpiredIsFree'
<1> DEFINE i == find_lease_slot(Expire, c)
<1>1. /\ leases' = IF i = NoSlot THEN Expire
                   ELSE [Expire EXCEPT ![i].active = FALSE, ![i].expires = 0]
      /\ held' = [held EXCEPT ![c] = [at |-> NoSlot, left |-> 0]]
      /\ reply' = NoReply /\ left' = left
  BY DEF handle_dhcp_release
<1>2. i = NoSlot \/ (i \in Slots /\ (Expire[i].hw = c \/ ~Expire[i].active))
  BY ExpireType, FoundSlot
<1> HIDE DEF i
<1>3. Expire \in [Slots -> Leases]
  BY ExpireType
<1>4. /\ leases' \in [Slots -> Leases]
      /\ \A j \in Slots : leases'[j] = Expire[j] \/ (j = i /\ ~leases'[j].active)
  <2>1. CASE i = NoSlot
    BY <1>1, <1>3, <2>1
  <2>2. CASE i # NoSlot
    <3>1. [[Expire[i] EXCEPT !.active = FALSE] EXCEPT !.expires = 0] \in Leases
      <4>1. 0 \in TickType
        BY TicksAssumption DEF TickType
      <4>2. Expire[i] \in Leases
        BY <1>2, <1>3, <2>2
      <4> QED BY <4>1, <4>2 DEF Leases
    <3>2. [[Expire[i] EXCEPT !.active = FALSE] EXCEPT !.expires = 0].active = FALSE
      BY <1>2, <1>3, <2>2 DEF Leases
    <3>3. leases' = [Expire EXCEPT ![i] = [[Expire[i] EXCEPT !.active = FALSE] EXCEPT !.expires = 0]]
      BY <1>1, <1>2, <1>3, <2>2
    <3> QED BY <1>2, <1>3, <2>2, <3>1, <3>2, <3>3
  <2> QED BY <2>1, <2>2
<1>5. DhcpTypes'
  <2>1. [at |-> NoSlot, left |-> 0] \in [at : Slots \cup {NoSlot}, left : Nat]
    OBVIOUS
  <2> QED BY <1>1, <1>4, <2>1 DEF DhcpInv, DhcpTypes
<1>6. AllTimed'
  BY <1>1, <1>4, ExpireKeeps DEF AllTimed, Timed
<1>7. AllBacked'
  <2> SUFFICES ASSUME NEW e \in Client, held'[e].left > 0
               PROVE  Backed(held', e, leases', left')
    BY DEF AllBacked, Backed
  <2>1. e # c /\ held'[e] = held[e]
    BY <1>1 DEF DhcpInv, DhcpTypes
  <2>2. /\ held[e].at \in Slots
        /\ Expire[held[e].at].active /\ Expire[held[e].at].hw = e
        /\ held[e].left <= left[held[e].at]
    BY <2>1, ExpireKeeps DEF Backed
  <2>3. held[e].at # i
    BY <1>2, <2>1, <2>2, DhcpAssumption DEF NoSlot, Slots
  <2>4. leases'[held[e].at] = Expire[held[e].at]
    BY <1>4, <2>2, <2>3
  <2> QED BY <1>1, <2>1, <2>2, <2>4 DEF Backed
<1> QED BY <1>1, <1>5, <1>6, <1>7 DEF DhcpInv, OfferExclusive, ExpiredIsFree, NoReply

LEMMA TickInv ==
    ASSUME DhcpInv, DhcpTick
    PROVE  DhcpInv' /\ OfferExclusive' /\ ExpiredIsFree'
<1>1. /\ \A i \in Slots : leases[i].active => left[i] > -HALF
      /\ tick' = Plus(tick, 1) /\ leases' = leases /\ running' = running /\ reply' = NoReply
      /\ left' = [i \in Slots |-> IF leases[i].active THEN left[i] - 1 ELSE 0]
      /\ held' = [c \in Client |-> IF held[c].left > 1 THEN [held[c] EXCEPT !.left = @ - 1]
                                   ELSE [at |-> NoSlot, left |-> 0]]
  BY DEF DhcpTick
<1>2. Plus(tick, 1) \in TickType
  BY TicksAssumption DEF DhcpInv, DhcpTypes, Plus, TickType
<1>3. ASSUME NEW c \in Client
      PROVE  /\ held'[c] \in [at : Slots \cup {NoSlot}, left : Nat]
             /\ held'[c].left > 0 => held'[c].at = held[c].at /\ held'[c].left = held[c].left - 1
                                     /\ held[c].left > 0
  <2>1. held[c] \in [at : Slots \cup {NoSlot}, left : Nat]
    BY DEF DhcpInv, DhcpTypes
  <2>2. held'[c] = IF held[c].left > 1 THEN [held[c] EXCEPT !.left = @ - 1]
                   ELSE [at |-> NoSlot, left |-> 0]
    BY <1>1
  <2> QED BY <2>1, <2>2
<1>4. left' \in [Slots -> Int]
  BY <1>1 DEF DhcpInv, DhcpTypes
<1>5. DhcpTypes'
  <2>1. held' = [c \in Client |-> held'[c]]
    BY <1>1
  <2>2. held' \in [Client -> [at : Slots \cup {NoSlot}, left : Nat]]
    BY <1>3, <2>1
  <2> QED BY <1>1, <1>2, <1>4, <2>2 DEF DhcpInv, DhcpTypes
<1>6. AllTimed'
  <2> SUFFICES ASSUME NEW i \in Slots, leases[i].active
               PROVE  /\ left[i] - 1 >= -HALF /\ left[i] - 1 <= LEASE_TIME
                      /\ Minus(leases[i].expires, Plus(tick, 1)) =
                             IF left[i] - 1 >= 0 THEN left[i] - 1 ELSE left[i] - 1 + TICKS
    BY <1>1 DEF AllTimed, Timed
  <2>1. /\ left[i] \in Int /\ left[i] > -HALF /\ left[i] <= LEASE_TIME
        /\ Minus(leases[i].expires, tick) = IF left[i] >= 0 THEN left[i] ELSE left[i] + TICKS
    BY <1>1 DEF DhcpInv, DhcpTypes, AllTimed, Timed
  <2>2. leases[i].expires \in TickType /\ tick \in TickType
    BY DEF DhcpInv, DhcpTypes, Leases
  <2>3. left[i] - 1 >= -HALF /\ left[i] - 1 <= LEASE_TIME
    BY <2>1, DhcpAssumption
  <2> QED BY <2>1, <2>2, <2>3, TickNumbers
<1>7. AllBacked'
  <2> SUFFICES ASSUME NEW c \in Client, held'[c].left > 0
               PROVE  Backed(held', c, leases', left')
    BY DEF AllBacked, Backed
  <2>1. held'[c].at = held[c].at /\ held'[c].left = held[c].left - 1 /\ held[c].left > 0
    BY <1>3
  <2>2. /\ held[c].at \in Slots
        /\ leases[held[c].at].active /\ leases[held[c].at].hw = c
        /\ held[c].left <= left[held[c].at]
    BY <2>1 DEF DhcpInv, AllBacked, Backed
  <2>3. left'[held[c].at] = left[held[c].at] - 1
    BY <1>1, <2>2
  <2>4. held[c].left \in Nat /\ left[held[c].at] \in Int
    BY <2>2 DEF DhcpInv, DhcpTypes
  <2>5. held[c].left - 1 <= left[held[c].at] - 1
    BY <2>2, <2>4
  <2> QED BY <1>1, <2>1, <2>2, <2>3, <2>5 DEF Backed
<1> QED BY <1>1, <1>5, <1>6, <1>7 DEF DhcpInv, OfferExclusive, ExpiredIsFree, NoReply

LEMMA StartedInv ==
    ASSUME tick \in TickType, running \in BOOLEAN, reply = NoReply, leases = NoLeases,
           left = [i \in Slots |-> 0], held = [c \in Client |-> [at |-> NoSlot, left |-> 0]]
    PROVE  DhcpInv /\ OfferExclusive /\ ExpiredIsFree
<1>1. [hw |-> Nobody, active |-> FALSE, expires |-> 0] \in Leases
  BY TicksAssumption DEF Leases, TickType
<1>2. DhcpTypes
  BY <1>1 DEF DhcpTypes, NoLeases
<1>3. AllTimed /\ AllBacked
  BY DEF AllTimed, Timed, AllBacked, Backed, NoLeases
<1> QED BY <1>2, <1>3 DEF DhcpInv, OfferExclusive, ExpiredIsFree, NoReply

LEMMA DhcpStep ==
    ASSUME DhcpInv, OfferExclusive, ExpiredIsFree, [DhcpNext]_dhcpVars
    PROVE  DhcpInv' /\ OfferExclusive' /\ ExpiredIsFree'
<1>1. CASE dhcpserver_start
  <2>1. tick' \in TickType /\ running' \in BOOLEAN /\ reply' = NoReply /\ leases' = NoLeases
        /\ left' = [i \in Slots |-> 0] /\ held' = [c \in Client |-> [at |-> NoSlot, left |-> 0]]
    BY <1>1 DEF dhcpserver_start, DhcpInv, DhcpTypes
  <2>2. [hw |-> Nobody, active |-> FALSE, expires |-> 0] \in Leases
    BY TicksAssumption DEF Leases, TickType
  <2>3. DhcpTypes'
    BY <2>1, <2>2 DEF DhcpTypes, NoLeases
  <2>4. AllTimed' /\ AllBacked'
    BY <2>1 DEF AllTimed, Timed, AllBacked, Backed, NoLeases
  <2> QED BY <2>1, <2>3, <2>4 DEF DhcpInv, OfferExclusive, ExpiredIsFree, NoReply
<1>2. CASE dhcpserver_stop
  <2>1. /\ tick' = tick /\ leases' = leases /\ left' = left /\ held' = held
        /\ running' \in BOOLEAN /\ reply' = NoReply
    BY <1>2 DEF dhcpserver_stop
  <2>2. DhcpInv'
    BY <2>1 DEF DhcpInv, DhcpTypes, AllTimed, AllBacked
  <2> QED BY <2>1, <2>2 DEF OfferExclusive, ExpiredIsFree, NoReply
<1>3. ASSUME NEW c \in Client, dhcpserver_task(c)
      PROVE  DhcpInv' /\ OfferExclusive' /\ ExpiredIsFree'
  <2>1. UNCHANGED <<tick, running>>
    BY <1>3 DEF dhcpserver_task
  <2>2. CASE handle_dhcp_discover(c)
    BY <2>1, <2>2, DiscoverInv
  <2>3. ASSUME NEW option \in BOOLEAN, NEW addr, handle_dhcp_request(c, option, addr)
        PROVE  DhcpInv' /\ OfferExclusive' /\ ExpiredIsFree'
    BY <2>1, <2>3, RequestInv
  <2>4. CASE handle_dhcp_release(c)
    BY <2>1, <2>4, ReleaseInv
  <2>5. CASE OtherMessage
    BY <2>1, <2>5, OnlyExpires DEF OtherMessage, OfferExclusive, ExpiredIsFree, NoReply
  <2> QED BY <1>3, <2>2, <2>3, <2>4, <2>5 DEF dhcpserver_task
<1>4. CASE DhcpTick
  BY <1>4, TickInv
<1>5. CASE UNCHANGED dhcpVars
  BY <1>5 DEF dhcpVars, DhcpInv, DhcpTypes, AllTimed, AllBacked, OfferExclusive, ExpiredIsFree
<1> QED BY <1>1, <1>2, <1>3, <1>4, <1>5 DEF DhcpNext

LEMMA DhcpInvariant == DhcpSpec => [](DhcpInv /\ OfferExclusive /\ ExpiredIsFree)
<1>1. DhcpInit => DhcpInv /\ OfferExclusive /\ ExpiredIsFree
  BY StartedInv DEF DhcpInit
<1>2. DhcpInv /\ OfferExclusive /\ ExpiredIsFree /\ [DhcpNext]_dhcpVars
        => (DhcpInv /\ OfferExclusive /\ ExpiredIsFree)'
  BY DhcpStep
<1> QED BY <1>1, <1>2, PTL DEF DhcpSpec

-----------------------------------------------------------------------------
(* The server never lets two clients use an address at the same time:        *)
(* handle_dhcp_request grants a slot again only when its lease was released  *)
(* or has run out.                                                           *)
THEOREM AddressExclusiveThm == DhcpSpec => []AddressExclusive
<1>1. DhcpInv => AddressExclusive
  BY DEF DhcpInv, AllBacked, Backed, AddressExclusive
<1> QED BY <1>1, DhcpInvariant, PTL

(* The slot that handle_dhcp_discover offers is in no other client's use. *)
THEOREM OfferExclusiveThm == DhcpSpec => []OfferExclusive
BY DhcpInvariant, PTL

(* Once dhcpserver_task has answered a message, no lease that has run out    *)
(* keeps its slot.                                                           *)
THEOREM ExpiredIsFreeThm == DhcpSpec => []ExpiredIsFree
BY DhcpInvariant, PTL

(* Together: the leases of the server are exclusive, and none is lost. *)
THEOREM LeasesExclusiveThm == DhcpSpec => []LeasesExclusive
<1>1. AddressExclusive /\ OfferExclusive /\ ExpiredIsFree => LeasesExclusive
  BY DEF LeasesExclusive
<1> QED BY <1>1, AddressExclusiveThm, OfferExclusiveThm, ExpiredIsFreeThm, PTL

=============================================================================
