-------------------------------- MODULE I2c --------------------------------
(***************************************************************************)
(* The I2C master of extras/i2c: the calls of several tasks on one bus.    *)
(* A call takes the bus by a flag, then drives the two wires itself, start *)
(* condition, byte by byte and stop condition, and may be preempted at any *)
(* point; a step is a condition or a byte.  A call made while the bus is   *)
(* forced breaks into the transfer that is on it: that is for a task of    *)
(* High priority, which the others do not preempt (i2c.h, "Usefull for     *)
(* priority transmission") unless a slave stretches the clock so long that *)
(* it sleeps.                                                              *)
(***************************************************************************)
EXTENDS Naturals, Sequences

CONSTANTS
    I2cTask,    \* the tasks that use the bus
    High        \* the ones that run whenever they are in a call

VARIABLES
    bus,    \* started, flag and force of i2c_bus[bus]
    xfer    \* [I2cTask -> what is left of the call, its result, and whether
            \*  the transfer had the wires to itself since it started (ghost)]

i2cVars == <<bus, xfer>>

NoCall == [todo |-> << >>, result |-> "none", whole |-> TRUE]

I2cInit ==
    /\ bus = [started |-> FALSE, flag |-> FALSE, force |-> FALSE]
    /\ xfer = [t \in I2cTask |-> NoCall]

InCall(t) == xfer[t].todo # << >>

Runs(t) == t \in High \/ \A h \in High : ~InCall(h)

(* What t puts on the wires spoils the transfer that another task has on them:     *)
(* between its first start condition and its stop.                           *)
Touch(t) ==
    [u \in I2cTask |->
        IF u # t /\ InCall(u) /\ Head(xfer[u].todo) \in {"start", "write", "read", "stop"}
        THEN [xfer[u] EXCEPT !.whole = FALSE] ELSE xfer[u]]

Then(t, todo) == xfer' = [Touch(t) EXCEPT ![t].todo = todo]

-----------------------------------------------------------------------------
i2c_force_bus(t, state) ==
    /\ Runs(t) /\ ~InCall(t) /\ bus.force # state
    /\ bus' = [bus EXCEPT !.force = state]
    /\ UNCHANGED xfer

(* The steps of i2c_slave_write and of i2c_slave_read. *)
Bytes(op, n) == [i \in 1 .. n |-> op]

WriteSteps(reg, len) ==
    <<"first", "write">> \o Bytes("write", IF reg THEN 1 ELSE 0) \o Bytes("write", len) \o <<"stop", "free">>

ReadSteps(reg, len) ==
    (IF reg THEN <<"first", "write", "write", "start">> ELSE <<"first">>)
        \o <<"write">> \o Bytes("read", len) \o <<"stop", "free">>

(* i2c_bus_test, in a critical section; a busy bus that is forced is stopped *)
(* before the transfer begins.                                               *)
i2c_bus_test(t, steps) ==
    /\ Runs(t) /\ ~InCall(t)
    /\ bus' = [bus EXCEPT !.flag = TRUE]
    /\ xfer' = [xfer EXCEPT ![t] =
                  IF bus.flag /\ ~bus.force THEN [NoCall EXCEPT !.result = "EBUSY"]
                  ELSE [NoCall EXCEPT !.todo = IF bus.flag THEN <<"break">> \o steps ELSE steps]]

i2c_slave_write(t, reg, len) == i2c_bus_test(t, WriteSteps(reg, len))
i2c_slave_read(t, reg, len) == i2c_bus_test(t, ReadSteps(reg, len))

Step(t, op) == Runs(t) /\ InCall(t) /\ Head(xfer[t].todo) \in op

i2c_start(t) ==
    /\ Step(t, {"first", "start"})
    /\ bus' = [bus EXCEPT !.started = TRUE]
    /\ Then(t, Tail(xfer[t].todo))

(* A byte is written, and acknowledged or not; an error ends the transfer. *)
i2c_write(t) ==
    /\ Step(t, {"write"})
    /\ \E ack \in BOOLEAN : Then(t, IF ack THEN Tail(xfer[t].todo) ELSE <<"error", "fail">>)
    /\ UNCHANGED bus

i2c_read(t) == Step(t, {"read"}) /\ Then(t, Tail(xfer[t].todo)) /\ UNCHANGED bus


(* "If bus was stop in other way, the current transmission Failed": that     *)
(* makes an error of the last stop; the result of the other two is ignored.  *)
i2c_stop(t) ==
    /\ Step(t, {"stop", "break", "error"})
    /\ bus' = [bus EXCEPT !.started = FALSE]
    /\ Then(t, IF Head(xfer[t].todo) = "stop" /\ ~bus.started THEN <<"error", "fail">>
               ELSE Tail(xfer[t].todo))

(* The bus is free again and the call returns. *)
I2cReturn(t) ==
    /\ Step(t, {"free", "fail"})
    /\ bus' = [bus EXCEPT !.flag = FALSE]
    /\ xfer' = [xfer EXCEPT ![t].todo = << >>,
                            ![t].result = IF Head(xfer[t].todo) = "free" THEN "OK" ELSE "EIO"]

I2cStep == \E t \in I2cTask : i2c_start(t) \/ i2c_write(t) \/ i2c_read(t) \/ i2c_stop(t) \/ I2cReturn(t)

-----------------------------------------------------------------------------

=============================================================================
