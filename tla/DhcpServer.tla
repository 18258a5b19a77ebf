----------------------------- MODULE DhcpServer -----------------------------
(***************************************************************************)
(* The DHCP server of the access point (extras/dhcpserver): a table of     *)
(* leases that clients discover, request, renew and release, and that      *)
(* expire by the tick count.  Messages may be lost in both directions.     *)
(***************************************************************************)
EXTENDS Ticks, FiniteSetsExt

CONSTANTS
    Client,         \* hardware addresses
    Nobody,         \* the hardware address of a slot that was never used
    MAX_LEASES,     \* max_leases
    FIRST,          \* first_client_addr, as a number
    OCTET,          \* the values of an octet: 256
    LEASE_TIME,     \* DHCPSERVER_LEASE_TIME, in ticks
    HALF            \* 0x80000000

ASSUME DhcpAssumption ==
    /\ Nobody \notin Client
    /\ MAX_LEASES \in Nat /\ FIRST \in Nat /\ OCTET \in Nat \ {0}
    /\ (FIRST % OCTET) + MAX_LEASES <= OCTET
    /\ HALF \in Nat /\ TICKS = 2 * HALF
    /\ LEASE_TIME \in Nat /\ 0 < LEASE_TIME /\ LEASE_TIME < HALF

VARIABLES
    tick,       \* xTaskGetTickCount
    running,    \* dhcpserver_task_handle # NULL
    leases,     \* state->leases
    left,       \* ghost: the ticks left of the lease in each slot
    held,       \* ghost: the slot whose address each client may use, and how
                \* long, by the last DHCPACK it got
    reply       \* the reply in the last step

dhcpVars == <<tick, running, leases, left, held, reply>>

Slots == 0 .. MAX_LEASES - 1
NoSlot == -1

NoReply == [kind |-> "none", client |-> Nobody, slot |-> NoSlot]
Reply(kind, c, i) == [kind |-> kind, client |-> c, slot |-> i]

NoLeases == [i \in Slots |-> [hw |-> Nobody, active |-> FALSE, expires |-> 0]]

DhcpInit ==
    /\ tick \in TickType /\ running = FALSE /\ reply = NoReply
    /\ leases = NoLeases
    /\ left = [i \in Slots |-> 0]
    /\ held = [c \in Client |-> [at |-> NoSlot, left |-> 0]]

(* Leases of an earlier start are forgotten by the server: the ghosts say    *)
(* what it promised since.                                                   *)
dhcpserver_start ==
    /\ running' = TRUE
    /\ leases' = NoLeases
    /\ left' = [i \in Slots |-> 0]
    /\ held' = [c \in Client |-> [at |-> NoSlot, left |-> 0]]
    /\ reply' = NoReply
    /\ UNCHANGED tick

dhcpserver_stop ==
    /\ running /\ running' = FALSE
    /\ reply' = NoReply
    /\ UNCHANGED <<tick, leases, left, held>>

-----------------------------------------------------------------------------
(* Before each message is looked at, leases that have passed are dropped.    *)
Expired(l) == l.active /\ Minus(l.expires, tick) >= HALF

Expire == [i \in Slots |-> [leases[i] EXCEPT !.active = @ /\ ~Expired(leases[i])]]

(* The first free slot, unless a slot that is active or after it is c's. *)
find_lease_slot(ls, c) ==
    LET free  == {i \in Slots : ~ls[i].active}
        empty == {i \in free : \A j \in free : i <= j}
        own   == {i \in Slots \ empty : ls[i].hw = c}
    IN  IF own # {} THEN Min(own) ELSE IF free # {} THEN Min(free) ELSE NoSlot

handle_dhcp_discover(c) ==
    LET i == find_lease_slot(Expire, c)
    IN  /\ leases' = Expire
        /\ reply' = IF i = NoSlot THEN NoReply ELSE Reply("offer", c, i)
        /\ UNCHANGED <<left, held>>

(* The slot of an address: the same first octets, the last one in range. *)
SlotOf(addr) ==
    LET offs == (addr % OCTET) - (FIRST % OCTET)
    IN  IF addr \div OCTET = FIRST \div OCTET /\ offs \in Slots THEN offs ELSE NoSlot

(* The requested address is that of the option or, without one, ciaddr if an *)
(* uninitialized variable happens to be zero, and nothing otherwise.         *)
Requested(option, addr) == IF option THEN {SlotOf(addr)} ELSE {SlotOf(addr), NoSlot}

\* Mutant: the lease of another client is not looked at.
GrantAnyway(c, option, addr) ==
    \E i \in Requested(option, addr) :
        IF i = NoSlot THEN leases' = Expire /\ reply' = Reply("nak", c, NoSlot) /\ UNCHANGED <<left, held>>
        ELSE /\ leases' = [Expire EXCEPT ![i] =
                              [hw |-> c, active |-> TRUE, expires |-> Plus(tick, LEASE_TIME)]]
             /\ reply' = Reply("ack", c, i)
             /\ left' = [left EXCEPT ![i] = LEASE_TIME]
             /\ held' = [held EXCEPT ![c] = [at |-> i, left |-> LEASE_TIME]]

(* Grant it, unless another client has it.  The reply may not arrive. *)
handle_dhcp_request(c, option, addr) ==
    \E i \in Requested(option, addr), delivered \in BOOLEAN :
        IF i = NoSlot \/ (Expire[i].active /\ Expire[i].hw # c)
        THEN /\ leases' = Expire
             /\ reply' = Reply("nak", c, NoSlot)
             /\ UNCHANGED <<left, held>>
        ELSE /\ leases' = [Expire EXCEPT ![i] =
                              [hw |-> c, active |-> TRUE, expires |-> Plus(tick, LEASE_TIME)]]
             /\ reply' = Reply("ack", c, i)
             /\ left' = [left EXCEPT ![i] = LEASE_TIME]
             /\ held' = IF delivered THEN [held EXCEPT ![c] = [at |-> i, left |-> LEASE_TIME]]
                        ELSE held

(* The client has given up its address when the message arrives. *)
handle_dhcp_release(c) ==
    LET i == find_lease_slot(Expire, c)
    IN  /\ leases' = IF i = NoSlot THEN Expire
                     ELSE [Expire EXCEPT ![i].active = FALSE, ![i].expires = 0]
        /\ held' = [held EXCEPT ![c] = [at |-> NoSlot, left |-> 0]]
        /\ reply' = NoReply
        /\ UNCHANGED left

(* A message too short, or of a type that is not handled. *)
OtherMessage == leases' = Expire /\ reply' = NoReply /\ UNCHANGED <<left, held>>

dhcpserver_task(c) ==
    /\ running
    /\ \/ handle_dhcp_discover(c)
       \/ \E option \in BOOLEAN, addr \in FIRST - 1 .. FIRST + MAX_LEASES :
             handle_dhcp_request(c, option, addr)
       \/ handle_dhcp_release(c)
       \/ OtherMessage
    /\ UNCHANGED <<tick, running>>

(* The tick count advances.  Bound: some message arrives within half a turn  *)
(* of the expiry of a lease.                                                 *)
DhcpTick ==
    /\ \A i \in Slots : leases[i].active => left[i] > -HALF
    /\ tick' = Plus(tick, 1)
    /\ left' = [i \in Slots |-> IF leases[i].active THEN left[i] - 1 ELSE 0]
    /\ held' = [c \in Client |-> IF held[c].left > 1 THEN [held[c] EXCEPT !.left = @ - 1]
                                 ELSE [at |-> NoSlot, left |-> 0]]
    /\ reply' = NoReply
    /\ UNCHANGED <<running, leases>>

DhcpNext ==
    \/ dhcpserver_start \/ dhcpserver_stop
    \/ \E c \in Client : dhcpserver_task(c)
    \/ DhcpTick

DhcpSpec == DhcpInit /\ [][DhcpNext]_dhcpVars

-----------------------------------------------------------------------------
(* Two clients never may use the same address at the same time: an address   *)
(* is granted again only when the lease is released, or has run out by the   *)
(* client's own clock, wherever the tick count wraps.                        *)
AddressExclusive ==
    \A c, e \in Client :
        c # e /\ held[c].left > 0 /\ held[e].left > 0 => held[c].at # held[e].at

(* The same of an address that is only offered. *)
OfferExclusive ==
    reply.kind = "offer" =>
        \A c \in Client \ {reply.client} : held[c].left > 0 => held[c].at # reply.slot

(* No slot is lost: once a message is handled, no lease that has run out     *)
(* keeps its slot from other clients.                                        *)
ExpiredIsFree == reply.kind # "none" => \A i \in Slots : leases[i].active => left[i] >= 0

(* The leases of dhcpserver_task: no address is in the use of two clients or *)
(* offered while another uses it, and none is lost to a lease that ran out.  *)
LeasesExclusive == AddressExclusive /\ OfferExclusive /\ ExpiredIsFree

=============================================================================
