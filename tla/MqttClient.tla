----------------------------- MODULE MqttClient -----------------------------
(***************************************************************************)
(* The MQTT client of extras/paho_mqtt_c, in one task, with a broker that  *)
(* answers late or falls silent.  A call waits in select for a packet or   *)
(* its time-out; each packet, and the time-out, is one cycle().  The task  *)
(* is written as examples/mqtt_client is: it yields after each command,    *)
(* and connects anew with a new client when a call says so.                *)
(***************************************************************************)
EXTENDS Integers, Sequences

CONSTANTS
    KEEPALIVE,              \* keepAliveInterval, in ticks
    YIELD_TIMEOUT,          \* timeout_ms of mqtt_yield
    COMMAND_TIMEOUT,        \* command_timeout_ms
    MQTT_MAX_FAIL_ALLOWED,
    MAX_GAP,                \* bound: ticks between two calls of the task
    CutIn                   \* the calls in which a packet may be cut short

VARIABLES
    mq,     \* the client: the call it is in, isconnected, ping_outstanding,
            \* fail_count; the ticks left on its timer (left) and on ping_timer;
            \* whether the task has to yield next, and what the last call said
            \* of the connection
    net,    \* what the broker has to answer, and what has arrived
    clk     \* ghosts: how long the ping has been out, how long nothing was
            \* heard or sent, how long no call was made

mqttVars == <<mq, net, clk>>

(* The packet that answers each command. *)
AckOf == [publish1 |-> "PUBACK", publish2 |-> "PUBCOMP", subscribe |-> "SUBACK",
          unsubscribe |-> "UNSUBACK", connect |-> "CONNACK"]

-----------------------------------------------------------------------------
(* What a cycle goes through: the client c, the broker's answers asked n, the *)
(* ghosts k and the result rc.                                                *)

(* send_packet re-arms the ping timer; the broker answers each in its order. *)
Sent(x, answers) ==
    [x EXCEPT !.c.ping_left = KEEPALIVE, !.n.asked = @ \o answers, !.k.quiet = 0]

send_packet(x, answers) == {Sent(x, answers), [x EXCEPT !.rc = "FAILURE"]}

\* Mutant: an answered ping leaves the failures counted.
CountsFailures(x, packet) ==
    CASE packet = "PINGRESP" -> {[x EXCEPT !.c.ping_outstanding = FALSE]}
      [] packet = "PUBLISH" -> {x} \cup send_packet(x, << >>)
      [] packet = "PUBREC" -> send_packet(x, <<"PUBCOMP">>)
      [] packet = "cut" -> {[x EXCEPT !.c.isconnected = FALSE, !.rc = "DISCONNECTED"]}
      [] OTHER -> {x}

(* The switch of cycle(): a message is acknowledged unless its QoS is 0. *)
Handled(x, packet) ==
    CASE packet = "PINGRESP" -> {[x EXCEPT !.c.ping_outstanding = FALSE, !.c.fail_count = 0]}
      [] packet = "PUBLISH" -> {x} \cup send_packet(x, << >>)
      [] packet = "PUBREC" -> send_packet(x, <<"PUBCOMP">>)
      [] packet = "cut" -> {[x EXCEPT !.c.isconnected = FALSE, !.rc = "DISCONNECTED"]}
      [] OTHER -> {x}

(* A ping that is still out when the timer ends is a failure, and too many   *)
(* of them end the connection; otherwise a ping is sent, whose result is     *)
(* ignored.                                                                  *)
keepalive(x) ==
    IF x.c.ping_left > 0 THEN {x}
    ELSE IF x.c.ping_outstanding
    THEN {IF x.c.fail_count + 1 >= MQTT_MAX_FAIL_ALLOWED
          THEN [x EXCEPT !.c.fail_count = MQTT_MAX_FAIL_ALLOWED, !.rc = "DISCONNECTED"]
          ELSE [x EXCEPT !.c.fail_count = @ + 1, !.c.ping_left = KEEPALIVE]}
    ELSE {[x EXCEPT !.c.ping_outstanding = TRUE, !.c.ping_left = KEEPALIVE, !.k.out = 0,
                    !.n.asked = @ \o answer] : answer \in {<<"PINGRESP">>, << >>}}

cycle(x, packet) ==
    UNION {IF y.rc = "FAILURE" \/ ~y.c.isconnected THEN {y} ELSE keepalive(y) : y \in Handled(x, packet)}

-----------------------------------------------------------------------------
Do(x) == mq' = x.c /\ net' = x.n /\ clk' = x.k

Now == [c |-> mq, n |-> net, k |-> clk, rc |-> "none"]

(* How a call ends: mqtt_yield when it is disconnected, the others when      *)
(* their answer has come, and all of them when their time is up.  Only       *)
(* mqtt_yield says that the connection is gone.                              *)
Returned(x, packet) ==
    LET over == x.c.left = 0
        answered == x.c.op # "yield" /\ x.rc = "none" /\ packet = AckOf[x.c.op]
        idle == [x EXCEPT !.c.op = "idle", !.k.gap = 0, !.c.owes = x.c.op # "yield"]
    IN IF x.c.op = "yield"
       THEN IF x.rc = "DISCONNECTED"
            THEN [x EXCEPT !.c.op = "down", !.c.told = IF x.c.isconnected THEN "keepalive" ELSE "read"]
            ELSE IF over THEN idle ELSE x
       ELSE IF answered
            THEN CASE x.c.op = "connect" -> [idle EXCEPT !.c.isconnected = TRUE]
                   [] x.c.op \in {"publish1", "publish2"} -> [idle EXCEPT !.c.fail_count = 0]
                   [] OTHER -> idle
            ELSE IF x.c.op = "connect" /\ (over \/ packet = "REFUSED")
            THEN [x EXCEPT !.c.op = "down", !.c.told = "refused"]
            ELSE IF over THEN idle ELSE x

(* A packet is read, whole or not. *)
MqttPacket ==
    /\ mq.op \notin {"idle", "down"} /\ net.inbox # << >>
    /\ \E packet \in {Head(net.inbox)} \cup (IF mq.op \in CutIn THEN {"cut"} ELSE {}) :
          LET read == [Now EXCEPT !.n.inbox = Tail(@), !.k.quiet = 0] IN
          \E x \in cycle(read, packet) : Do(Returned([x EXCEPT !.rc = IF @ = "FAILURE" THEN "none" ELSE @], packet))

(* Nothing came: the cycle at the end of the call. *)
MqttTimeout ==
    /\ mq.op \notin {"idle", "down"} /\ net.inbox = << >> /\ mq.left = 0
    /\ \E x \in cycle(Now, "nothing") : Do(Returned(x, "nothing"))

(* A call begins. *)
mqtt_yield ==
    /\ mq.op = "idle"
    /\ mq' = [mq EXCEPT !.op = "yield", !.left = YIELD_TIMEOUT]
    /\ UNCHANGED <<net, clk>>

(* mqtt_publish, mqtt_subscribe and mqtt_unsubscribe: the packet is sent, or *)
(* the call fails; a message of QoS 0 has no answer.                         *)
MqttCommand(op, answers) ==
    /\ mq.op = "idle" /\ ~mq.owes
    /\ \E x \in send_packet(Now, answers) :
          IF mq.isconnected /\ x.rc = "none" /\ op # "publish0"
          THEN Do([x EXCEPT !.c.op = op, !.c.left = COMMAND_TIMEOUT])
          ELSE Do([(IF mq.isconnected THEN x ELSE Now) EXCEPT !.c.owes = TRUE])

(* mqtt_network_connect, mqtt_client_new and mqtt_connect, to the wait. *)
MqttReconnect ==
    /\ mq.op = "down"
    /\ mq' = [op |-> "connect", left |-> COMMAND_TIMEOUT, isconnected |-> FALSE, ping_outstanding |-> FALSE,
              fail_count |-> 0, ping_left |-> KEEPALIVE, owes |-> FALSE, told |-> "none"]
    /\ \E answer \in {"CONNACK", "REFUSED"} : net' = [asked |-> <<answer>>, inbox |-> << >>]
    /\ clk' = [clk EXCEPT !.out = 0, !.quiet = 0, !.gap = 0]

mqtt_disconnect ==
    /\ mq.op = "idle" /\ ~mq.owes
    /\ mq' = [mq EXCEPT !.op = "down", !.isconnected = FALSE, !.told = "asked"]
    /\ UNCHANGED <<net, clk>>

(* The broker answers, or sends a message. *)
Broker ==
    /\ mq.op # "down" /\ net.inbox = << >>
    /\ \/ net.asked # << >> /\ net' = [asked |-> Tail(net.asked), inbox |-> <<Head(net.asked)>>]
       \/ net' = [net EXCEPT !.inbox = <<"PUBLISH">>]
    /\ UNCHANGED <<mq, clk>>

(* Time passes in a call that waits, and between two calls. *)
QUIET == (MQTT_MAX_FAIL_ALLOWED + 1) * (KEEPALIVE + YIELD_TIMEOUT + MAX_GAP)

AtMost(n, max) == IF n > max THEN max ELSE n
AtLeast0(n) == IF n < 0 THEN 0 ELSE n

MqttTick ==
    /\ IF mq.op = "idle" THEN clk.gap < MAX_GAP
       ELSE mq.op # "down" /\ net.inbox = << >> /\ mq.left > 0
    /\ mq' = [mq EXCEPT !.left = AtLeast0(@ - 1), !.ping_left = AtLeast0(@ - 1)]
    /\ clk' = [out |-> AtMost(clk.out + 1, MQTT_MAX_FAIL_ALLOWED * KEEPALIVE),
               quiet |-> AtMost(clk.quiet + 1, QUIET + 1),
               gap |-> IF mq.op = "idle" THEN clk.gap + 1 ELSE 0]
    /\ UNCHANGED net

MqttInit ==
    /\ mq = [op |-> "down", left |-> 0, isconnected |-> FALSE, ping_outstanding |-> FALSE, fail_count |-> 0,
             ping_left |-> 0, owes |-> FALSE, told |-> "none"]
    /\ net = [asked |-> << >>, inbox |-> << >>]
    /\ clk = [out |-> 0, quiet |-> 0, gap |-> 0]

MqttNext ==
    \/ MqttPacket \/ MqttTimeout \/ mqtt_yield \/ MqttReconnect \/ mqtt_disconnect \/ Broker \/ MqttTick
    \/ Len(net.asked) < 2 /\ \/ MqttCommand("publish0", << >>)
                             \/ MqttCommand("publish1", <<"PUBACK">>)
                             \/ MqttCommand("publish2", <<"PUBREC">>)
                             \/ MqttCommand("subscribe", <<"SUBACK">>)
                             \/ MqttCommand("unsubscribe", <<"UNSUBACK">>)

-----------------------------------------------------------------------------
(* The keep-alive gives a broker up only when a ping has been out for        *)
(* MQTT_MAX_FAIL_ALLOWED intervals, however answers and commands fell in     *)
(* between; and a connection on which nothing is heard or sent is given up   *)
(* in the end: after one interval more, each with a call's delay.            *)
PeerJudged ==
    /\ mq.told = "keepalive" => clk.out >= MQTT_MAX_FAIL_ALLOWED * KEEPALIVE
    /\ clk.quiet <= QUIET

=============================================================================
