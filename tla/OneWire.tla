------------------------------ MODULE OneWire ------------------------------
(***************************************************************************)
(* The search for devices on a 1-Wire bus of extras/onewire.  Every device *)
(* has an address of BITS bits, the family code first.  In a search all    *)
(* devices send a bit of their address and its complement together, each   *)
(* able to pull the wire low, and the master answers with the bit of those *)
(* that stay; a search_next call so follows one path of the tree of the    *)
(* addresses, and last_discrepancy says where the next call turns off.     *)
(* The bus may be held low when a reset or a slot begins: it then fails    *)
(* and the devices see nothing of it.                                      *)
(***************************************************************************)
EXTENDS Integers, Sequences, FiniteSets

CONSTANTS
    BITS,           \* 64
    FAMILY_BITS,    \* 8
    COMMAND_BITS,   \* 4: the bits of ONEWIRE_SEARCH are zeros, then as many ones
    MAX_DEVICES     \* bound: devices on the bus

VARIABLES
    rom,        \* devices on the bus: a set of addresses
    dev,        \* [rom -> what the device makes of the next slot]
    search,     \* onewire_search_t
    ow,       \* onewire_search_next: where it is and its local variables
    found,      \* ghost: addresses returned since the search was started
    family,     \* ghost: the family code of onewire_search_prefix, or none
    sure        \* ghost: no slot that writes has failed since then

onewireVars == <<rom, dev, search, ow, found, family, sure>>

Bit == {0, 1}
Family(r) == SubSeq(r, 1, FAMILY_BITS)
NoFamily == << >>
ZeroFamily == [i \in 1 .. FAMILY_BITS |-> 0]

(* The last bit stands for the CRC of the others, and no family code is 0. *)
Address ==
    {r \in [1 .. BITS -> Bit] :
        /\ Family(r) # ZeroFamily
        /\ r[BITS] = Cardinality({i \in 1 .. BITS - 1 : r[i] = 1}) % 2}

(* A device that waits for a reset is deaf; one that follows the search sends   *)
(* bit `at' of its address or its complement, or takes the master's answer.     *)
Deaf == [at |-> 0, expects |-> "reset"]
Searching(at) == [at |-> at, expects |-> "bit"]
Commanded(left) == [at |-> left, expects |-> "command"]

NoSearch == [pc |-> "idle", n |-> 0, last_zero |-> 0, id |-> 0, cmp |-> 0, result |-> "new"]
Zeros == [i \in 1 .. BITS |-> 0]
StartOfSearch == [rom_no |-> Zeros, last_discrepancy |-> 0, last_device_found |-> FALSE]

OneWireInit ==
    /\ rom \in {s \in SUBSET Address : Cardinality(s) <= MAX_DEVICES}
    /\ dev = [r \in rom |-> Deaf]
    /\ search = StartOfSearch /\ ow = NoSearch
    /\ found = {} /\ family = NoFamily /\ sure = TRUE

-----------------------------------------------------------------------------
(* A slot that begins with a short low pulse: it reads the wire, and to a     *)
(* device that expects a bit it is a one.  A long pulse is a zero.            *)
Sends(r) ==
    CASE dev[r].expects = "bit" -> r[dev[r].at]
      [] dev[r].expects = "complement" -> 1 - r[dev[r].at]
      [] OTHER -> 1

Wire == IF \E r \in rom : Sends(r) = 0 THEN 0 ELSE 1

AfterSlot(r, v) ==
    LET d == dev[r]
    IN  CASE d.expects = "bit" -> [d EXCEPT !.expects = "complement"]
          [] d.expects = "complement" -> [d EXCEPT !.expects = "answer"]
          [] d.expects = "answer" ->
                IF r[d.at] = v /\ d.at < BITS THEN Searching(d.at + 1) ELSE Deaf
          [] d.expects = "command" ->
                IF v = 0 THEN Deaf ELSE IF d.at = 1 THEN Searching(1) ELSE Commanded(d.at - 1)
          [] OTHER -> d

Slot(v) == dev' = [r \in rom |-> AfterSlot(r, v)]

(* All devices wait for a command; or there is none, or the wire is held low   *)
(* before the reset or after it.                                              *)
onewire_reset(present) ==
    \/ present /\ rom # {} /\ dev' = [r \in rom |-> Deaf]
    \/ ~present /\ dev' \in {dev, [r \in rom |-> Deaf]}

(* The slot, or its failure to begin: the wire was low for 10 us. *)
_onewire_write_bit(v) ==
    \/ Slot(v) /\ UNCHANGED sure
    \/ UNCHANGED dev /\ sure' = FALSE

(* The bit on the wire, or -1. *)
_onewire_read_bit(bit) ==
    \/ bit = Wire /\ Slot(1)
    \/ bit = -1 /\ UNCHANGED dev

-----------------------------------------------------------------------------
(* Ghosts: what was found counts from the start of a search, by one of these  *)
(* or because the call before returned ONEWIRE_NONE.                          *)
Restarted(code) == found' = {} /\ family' = code /\ sure' = TRUE

onewire_search_start ==
    /\ ow.pc = "idle" /\ search' = StartOfSearch
    /\ ow' = NoSearch /\ Restarted(NoFamily)
    /\ UNCHANGED <<rom, dev>>

onewire_search_prefix(code) ==
    /\ ow.pc = "idle"
    /\ search' = [rom_no |-> [i \in 1 .. BITS |-> IF i <= FAMILY_BITS THEN code[i] ELSE 0],
                  last_discrepancy |-> BITS, last_device_found |-> FALSE]
    /\ ow' = NoSearch /\ Restarted(code)
    /\ UNCHANGED <<rom, dev>>

(* ONEWIRE_NONE: reset counters so that the next search will be like a first. *)
None(why) ==
    /\ search' = [search EXCEPT !.last_discrepancy = 0, !.last_device_found = FALSE]
    /\ ow' = [NoSearch EXCEPT !.result = why]

(* onewire_search_next up to the reset of the bus. *)
onewire_search_next ==
    /\ ow.pc = "idle"
    /\ IF ow.result \in {"none", "error"} THEN Restarted(NoFamily) ELSE UNCHANGED <<found, family, sure>>
    /\ \/ search.last_device_found /\ None("none") /\ UNCHANGED dev
       \/ ~search.last_device_found /\ onewire_reset(FALSE) /\ None(IF rom = {} THEN "none" ELSE "error")
       \/ /\ ~search.last_device_found /\ onewire_reset(TRUE)
          /\ ow' = [NoSearch EXCEPT !.pc = "command"]
          /\ UNCHANGED search
    /\ UNCHANGED rom

(* The search command.  If a slot of it fails, what follows is taken for the  *)
(* rest of it, which only ones complete.                                      *)
OneWireCommand ==
    /\ ow.pc = "command"
    /\ ow' = [ow EXCEPT !.pc = "id", !.n = 1]
    /\ \/ dev' = [r \in rom |-> Searching(1)] /\ UNCHANGED sure
       \/ \E d \in {Deaf} \cup {Commanded(left) : left \in 1 .. COMMAND_BITS} :
             dev' = [r \in rom |-> d] /\ sure' = FALSE
    /\ UNCHANGED <<rom, search, found, family>>

ReadId ==
    /\ ow.pc = "id"
    /\ \E bit \in {-1} \cup Bit : _onewire_read_bit(bit) /\ ow' = [ow EXCEPT !.id = bit, !.pc = "cmp"]
    /\ UNCHANGED <<rom, search, found, family, sure>>

(* The complement; nobody there, or an error, ends the loop. *)
ReadCmp ==
    /\ ow.pc = "cmp"
    /\ \E bit \in {-1} \cup Bit :
          /\ _onewire_read_bit(bit)
          /\ IF ow.id < 0 \/ bit < 0 \/ (ow.id = 1 /\ bit = 1)
             THEN None("error")
             ELSE ow' = [ow EXCEPT !.cmp = bit, !.pc = "write"] /\ UNCHANGED search
    /\ UNCHANGED <<rom, found, family, sure>>

\* Mutant: the turn is taken after last_discrepancy, not at it.
DirectionLate ==
    IF ow.id # ow.cmp THEN ow.id
    ELSE IF ow.n <= search.last_discrepancy THEN search.rom_no[ow.n]
    ELSE IF ow.n = search.last_discrepancy + 1 THEN 1 ELSE 0

(* Where the devices differ: as the last time before last_discrepancy, 1 at   *)
(* it and 0 after it.                                                         *)
Direction ==
    IF ow.id # ow.cmp THEN ow.id
    ELSE IF ow.n < search.last_discrepancy THEN search.rom_no[ow.n]
    ELSE IF ow.n = search.last_discrepancy THEN 1 ELSE 0

LastZero(direction) ==
    IF ow.id = ow.cmp /\ direction = 0 THEN ow.n ELSE ow.last_zero

(* The answer; after the last bit the address is complete. *)
WriteDirection ==
    LET v == Direction
        z == LastZero(v)
        rom_no == [search.rom_no EXCEPT ![ow.n] = v]
    IN  /\ ow.pc = "write"
        /\ _onewire_write_bit(v)
        /\ IF ow.n < BITS
           THEN /\ search' = [search EXCEPT !.rom_no = rom_no]
                /\ ow' = [ow EXCEPT !.n = @ + 1, !.pc = "id", !.last_zero = z]
                /\ UNCHANGED found
           ELSE IF Family(rom_no) = ZeroFamily
           THEN /\ search' = [rom_no |-> rom_no, last_discrepancy |-> 0, last_device_found |-> FALSE]
                /\ ow' = [NoSearch EXCEPT !.result = "error"]
                /\ UNCHANGED found
           ELSE /\ search' = [rom_no |-> rom_no, last_discrepancy |-> z, last_device_found |-> (z = 0)]
                /\ ow' = [NoSearch EXCEPT !.result = IF rom_no \in found THEN "again" ELSE "address"]
                /\ found' = found \cup {rom_no}
        /\ UNCHANGED <<rom, family>>

OneWireStep == OneWireCommand \/ ReadId \/ ReadCmp \/ WriteDirection

-----------------------------------------------------------------------------
OfFamily == {r \in rom : Family(r) = family}

(* onewire_search_next() returns devices of the bus, none twice, those of the *)
(* family of onewire_search_prefix() before all others, and ONEWIRE_NONE not  *)
(* before every device (of the family) was returned, whatever the addresses   *)
(* are and whatever searches were abandoned or failed before; an error ends   *)
(* the search.  Slots that write and fail are not noticed, and nothing is     *)
(* claimed of a search with one.                                              *)
SearchWhole ==
    sure => /\ found \subseteq rom
            /\ ow.result # "again"
            /\ family # NoFamily /\ ~(found \subseteq OfFamily) => OfFamily \subseteq found
            /\ ow.result = "none" => (IF family = NoFamily THEN rom ELSE OfFamily) \subseteq found

============================================================================
