----------------------------- MODULE MCServices -----------------------------
(***************************************************************************)
(* Small instances of the services beside the kernel.  They share no       *)
(* state, so each behaviour exercises one of Units and leaves the others   *)
(* alone: "timers", with a timer service task that keeps up, "late", with  *)
(* one that does not, "clock", "dhcp", "port", "flash", "i2c", with tasks  *)
(* of one priority, "force", with one that forces the bus, "http", "sntp", *)
(* "mqtt" and "onewire".                                                   *)
(***************************************************************************)
EXTENDS SwTimer, Timekeeping, DhcpServer, Port, SpiFlash, I2c, HttpOta, Sntp, MqttClient,
        OneWire

CONSTANTS Units, t1, t2, a, b, hi, MAX_FILE

VARIABLE unit

netVars == <<httpVars, sntpVars, mqttVars>>
busVars == <<i2cVars, onewireVars>>

vars == <<swVars, tkVars, dhcpVars, portVars, flashVars, busVars, netVars, unit>>

Init ==
    /\ unit \in Units
    /\ SwInit /\ now = 0 /\ tm[t1].period = 1 /\ tm[t2].period = 2 /\ tm[t2].auto
    /\ unit # "timers" => tm[t1].auto
    /\ TkInit /\ PortInit /\ FlashInit /\ I2cInit
    /\ DhcpInit /\ (unit # "dhcp" => tick = 0)
    /\ HttpInit /\ (unit # "http" => http.buffer[1] = Nul)
    /\ SntpInit /\ (unit # "sntp" => asking["request"] = 1)
    /\ MqttInit
    /\ OneWireInit /\ (unit # "onewire" => rom = {})

-----------------------------------------------------------------------------
(* A late service task carries out a stop after a reload it sent itself, so   *)
(* timers are stopped and deleted only when it keeps up.                      *)
TimerUsers ==
    \/ \E t \in Timer : xTimerGenericCommand("start", t, now)
    \/ unit = "timers" /\ xTimerGenericCommand("stop", t2, 0)
    \/ unit = "timers" /\ xTimerGenericCommand("delete", t1, 0)
    \/ unit = "late" /\ xTimerGenericCommand("change", t2, 1)

Timers ==
    \/ TimerTask \/ TimerUsers \/ SwAborted
    \/ swFailed = "none" /\ IF unit = "late" THEN SwTick(2, 2) ELSE SwTick(0, -1)

(* One task adjusts the clock and another reads it and sets it back. *)
ClockUsers ==
    \/ Enter(a, "gettimeofday", 0)
    \/ ideal = 5 /\ (Enter(a, "settimeofday", 0) \/ Enter(a, "settimeofday", Invalid) \/ Enter(b, "adjtime", Invalid))
    \/ \E delta \in {2, -1} : Enter(b, "adjtime", delta)

FlashUsers ==
    \/ \E at \in Addr, n \in 0 .. CHIP_SIZE :
          (\A i \in Addr : mem[i] = Erased) /\ spiflash_write(at, n)
    \/ \E at \in Addr, n \in {0, 1, 3, 7} : spiflash_read(at, n)
    \/ \E at \in Addr : spiflash_erase_sector(at)

(* Tasks of one priority share the bus, or one that forces it breaks into the *)
(* writes of another.                                                         *)
I2cUsers ==
    \E reg \in BOOLEAN, len \in 0 .. 2 :
        \/ unit = "i2c" /\ \E t \in I2cTask \ High : i2c_slave_write(t, reg, len) \/ i2c_slave_read(t, reg, len)
        \/ unit = "force" /\ i2c_slave_write(a, reg, len)
        \/ unit = "force" /\ (i2c_slave_write(hi, reg, len) \/ i2c_slave_read(hi, reg, len))
        \/ unit = "force" /\ i2c_force_bus(hi, reg)

(* Files shorter than the slot, with and without an empty line in them. *)
File(n, line) == [i \in 1 .. n |-> IF i = line THEN End ELSE <<"p", "q", "r", "s", "t", "u", "v", "w">>[i]]

HttpUsers == \E n \in 1 .. MAX_FILE, line \in {0, 2, 3}, sha \in BOOLEAN : OtaUpdate(File(n, line), sha)

(* A search with a slot that failed unnoticed is not gone on with. *)
OneWireUsers ==
    \/ onewire_search_start \/ \E code \in [1 .. FAMILY_BITS -> Bit] : onewire_search_prefix(code)
    \/ sure /\ onewire_search_next

Next ==
    /\ \/ unit \in {"timers", "late"} /\ Timers
          /\ UNCHANGED <<tkVars, dhcpVars, portVars, flashVars, busVars, netVars>>
       \/ unit = "clock" /\ (ClockUsers \/ TkStep)
          /\ UNCHANGED <<swVars, dhcpVars, portVars, flashVars, busVars, netVars>>
       \/ unit = "dhcp" /\ DhcpNext
          /\ UNCHANGED <<swVars, tkVars, portVars, flashVars, busVars, netVars>>
       \/ unit = "port" /\ PortNext
          /\ UNCHANGED <<swVars, tkVars, dhcpVars, flashVars, busVars, netVars>>
       \/ unit = "flash" /\ (FlashUsers \/ FlashStep)
          /\ UNCHANGED <<swVars, tkVars, dhcpVars, portVars, busVars, netVars>>
       \/ unit \in {"i2c", "force"} /\ (I2cUsers \/ I2cStep)
          /\ UNCHANGED <<swVars, tkVars, dhcpVars, portVars, flashVars, onewireVars, netVars>>
       \/ unit = "http" /\ (HttpUsers \/ OtaStep)
          /\ UNCHANGED <<swVars, tkVars, dhcpVars, portVars, flashVars, busVars, sntpVars, mqttVars>>
       \/ unit = "sntp" /\ SntpNext
          /\ UNCHANGED <<swVars, tkVars, dhcpVars, portVars, flashVars, busVars, httpVars, mqttVars>>
       \/ unit = "mqtt" /\ MqttNext
          /\ UNCHANGED <<swVars, tkVars, dhcpVars, portVars, flashVars, busVars, httpVars, sntpVars>>
       \/ unit = "onewire" /\ (OneWireUsers \/ OneWireStep)
          /\ UNCHANGED <<swVars, tkVars, dhcpVars, portVars, flashVars, i2cVars, netVars>>
    /\ UNCHANGED unit

Spec == Init /\ [][Next]_vars

=============================================================================
