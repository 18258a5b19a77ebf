-------------------------------- MODULE Sntp --------------------------------
(***************************************************************************)
(* The SNTP client of extras/sntp with the raw API and names for servers.  *)
(* It has no task of its own: what keeps it going is a timeout or a name   *)
(* lookup, and each handler, of a timeout, a lookup or a packet, leaves    *)
(* the next one behind.  A packet may come at any time, late or twice; a   *)
(* timeout may end at any time after it was set.                           *)
(***************************************************************************)
EXTENDS Naturals

CONSTANTS
    SNTP_NUM_SERVERS_SUPPORTED,
    SNTP_RETRY_TIMEOUT,
    SNTP_RETRY_TIMEOUT_MAX,
    MAX_PENDING     \* bound: a late packet comes only while fewer are pending

VARIABLES
    sntp,       \* the servers set, the current one and the retry timeout
    asking      \* the timeouts for sntp_request and sntp_try_next_server
                \* (sys_timeout keeps each of them) and the lookups

sntpVars == <<sntp, asking>>

(* What is left behind by a handler that took away `p'. *)
Leave(p, what) == asking' = [p EXCEPT ![what] = @ + 1]

Reset(s) == [s EXCEPT !.retry = SNTP_RETRY_TIMEOUT]

-----------------------------------------------------------------------------
(* With no memory for the packet the request is tried again. *)
sntp_send_request(s, p) ==
    /\ sntp' = s
    /\ \E memory \in BOOLEAN : Leave(p, IF memory THEN "next" ELSE "request")

(* The name is being looked up, known already, or invalid; the name of a     *)
(* server that is not set is.                                                *)
sntp_request(s, p) ==
    \/ s.current < s.num /\ sntp' = s /\ Leave(p, "lookup")
    \/ s.current < s.num /\ sntp_send_request(s, p)
    \/ sntp' = s /\ Leave(p, "next")

sntp_retry(s, p) ==
    /\ sntp' = [s EXCEPT !.retry = IF 2 * @ <= SNTP_RETRY_TIMEOUT_MAX THEN 2 * @ ELSE @]
    /\ Leave(p, "request")

sntp_try_next_server(s, p) ==
    IF s.num > 1
    THEN sntp_request([Reset(s) EXCEPT !.current = IF @ + 1 >= s.num THEN 0 ELSE @ + 1], p)
    ELSE sntp_retry(s, p)

Taken(what) == [asking EXCEPT ![what] = @ - 1]

(* A timeout ends, or a lookup. *)
SntpTimeout ==
    \/ asking["request"] > 0 /\ sntp_request(sntp, Taken("request"))
    \/ asking["next"] > 0 /\ sntp_try_next_server(sntp, Taken("next"))

sntp_dns_found(found) ==
    /\ asking["lookup"] > 0
    /\ IF found THEN sntp_send_request(sntp, Taken("lookup"))
       ELSE sntp_try_next_server(sntp, Taken("lookup"))

(* sys_untimeout takes away the first timeout of a handler. *)
Untimeout(p, what) == IF p[what] > 0 THEN [p EXCEPT ![what] = @ - 1] ELSE p

\* Mutant: an invalid response is dropped after the timeouts were stopped.
DropInvalid(packet) ==
    LET stopped == Untimeout(Untimeout(asking, "next"), "request") IN
    \/ packet = "time" /\ sntp' = Reset(sntp) /\ Leave(stopped, "request")
    \/ packet = "kod" /\ sntp_try_next_server(sntp, stopped)
    \/ packet = "invalid" /\ asking' = stopped /\ UNCHANGED sntp

(* A packet: the time, a kiss of death, or something else. *)
sntp_recv(packet) ==
    LET stopped == Untimeout(Untimeout(asking, "next"), "request") IN
    \/ packet = "time" /\ sntp' = Reset(sntp) /\ Leave(stopped, "request")
    \/ packet = "kod" /\ sntp_try_next_server(sntp, stopped)
    \/ packet = "invalid" /\ sntp_retry(sntp, stopped)

(* The servers are freed and set anew; memory may end after some of them. *)
sntp_set_servers(n) ==
    /\ n <= SNTP_NUM_SERVERS_SUPPORTED
    /\ \E set \in 0 .. n : sntp' = [sntp EXCEPT !.num = set]
    /\ UNCHANGED asking

(* sntp_init, which sends the first request. *)
SntpInit ==
    /\ sntp = [num |-> 1, current |-> 0, retry |-> SNTP_RETRY_TIMEOUT]
    /\ \E first \in {"request", "next", "lookup"} :
          asking = [w \in {"request", "next", "lookup"} |-> IF w = first THEN 1 ELSE 0]

SntpNext ==
    \/ SntpTimeout
    \/ \E found \in BOOLEAN : sntp_dns_found(found)
    \/ /\ asking["request"] + asking["next"] + asking["lookup"] < MAX_PENDING
       /\ \E packet \in {"time", "kod", "invalid"} : sntp_recv(packet)
    \/ \E n \in 0 .. SNTP_NUM_SERVERS_SUPPORTED : sntp_set_servers(n)

-----------------------------------------------------------------------------
(* The client never falls silent: whatever packets come, and while which     *)
(* lookup or timeout was pending, there is a timeout or a lookup to go on    *)
(* with.                                                                     *)
KeepsAsking == \E what \in DOMAIN asking : asking[what] > 0

=============================================================================
