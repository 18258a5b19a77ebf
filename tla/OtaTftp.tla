------------------------------- MODULE OtaTftp -------------------------------
(***************************************************************************)
(* Firmware updates over TFTP, extras/rboot-ota/ota-tftp.c, and the choice *)
(* of the boot slot in rboot-api.c.  The device waits for a write request  *)
(* (or is told by the application to fetch a file), receives the image     *)
(* block by block into the slot it does not run from, verifies it before   *)
(* it acknowledges the last block, and, as a server, selects the slot and  *)
(* restarts.  The network loses, delays and duplicates packets, the peer   *)
(* retransmits, and the power may fail between any two flash operations.   *)
(*                                                                         *)
(* The flash is one array of blocks, slot s being the SlotBlocks of them   *)
(* that start at s * SlotBlocks.  Lengths are in bytes, as in the code.    *)
(***************************************************************************)
EXTENDS Integers, FiniteSets

CONSTANTS Images,      \* the files peers send
          ImageLen,    \* length of each in bytes
          Good,        \* the ones rboot_verify_image() accepts
          NumSlots,    \* rboot_config.count
          SlotBlocks,  \* MAX_IMAGE_SIZE in blocks (2048 in the code)
          SectorBlocks,\* blocks in a flash sector (8 in the code)
          Ports,       \* the ports peers send from, one per transfer
          NoPort,      \* not connected
          Retransmits, \* TFTP_TIMEOUT_RETRANSMITS
          MaxDups,     \* bound on packets the network delivers twice
          MaxResends,  \* bound on retransmissions by a peer
          MaxFaults    \* bound on power failures and refused sends

VARIABLES flash,    \* contents of every block of flash
          cfg,      \* rboot_config.current_rom in flash, or Blank
          running,  \* the slot that was booted
          pc,       \* where the TFTP code is
          slot,     \* the slot being written
          client,   \* TRUE in ota_tftp_download()
          port,     \* the peer the connection is bound to
          block,    \* block
          retries,  \* retries
          got,      \* the packet being processed
          received, \* *received_len
          net,      \* packets in flight to the device, and its request
          reply,    \* the last packet the device sent to each peer
          peer,     \* each peer: its image, the block it sends, its state
          dups, faults

dev == <<pc, slot, client, port, block, retries, got, received>>
vars == <<flash, cfg, running, dev, net, reply, peer, dups, faults>>

BLOCK == 512
HEADER == 4
Slots == 0 .. NumSlots - 1
Blank == NumSlots
Cells == 0 .. NumSlots * SlotBlocks - 1

ASSUME SlotAssumption ==
    /\ NumSlots \in {1, 2}
    /\ SlotBlocks \in Nat \ {0} /\ SectorBlocks \in Nat \ {0}
    /\ SlotBlocks % SectorBlocks = 0
    /\ ImageLen \in [Images -> Nat] /\ Good \subseteq Images
    /\ NoPort \notin Ports

Blocks(i) == ImageLen[i] \div BLOCK + 1
Payload(i, n) == IF n < Blocks(i) THEN BLOCK ELSE ImageLen[i] % BLOCK

\* A block of flash: erased, part n of an image, or a mixture.
Erased == [img |-> "erased", n |-> 0]
Mixed == [img |-> "mixed", n |-> 0]
Part(i, n) == [img |-> i, n |-> n]

Base(s) == s * SlotBlocks

\* The slot holds the whole of image i.
Holds(s, i) ==
    \A n \in 1 .. Blocks(i) : Payload(i, n) > 0 => flash[Base(s) + n - 1] = Part(i, n)

Bootable(s) == \E i \in Good : Holds(s, i)

\* The slot the boot loader starts: without a configuration it makes a new
\* one, which selects slot 0.
BootSlot == IF cfg = Blank THEN 0 ELSE cfg

Req(op, p) == [op |-> op, port |-> p, block |-> 0]
Data(p, n) == [op |-> "data", port |-> p, block |-> n]
Ack(p, n) == [op |-> "ack", port |-> p, block |-> n]
Err(p) == [op |-> "error", port |-> p, block |-> 0]
Nothing == Req("none", NoPort)

Idle == [st |-> "idle", img |-> "none", block |-> 0, sent |-> 0]

Init ==
    \E r \in Slots, i \in Good :
        /\ flash = [c \in Cells |->
                     IF c \in Base(r) .. Base(r) + Blocks(i) - 1 /\ Payload(i, c - Base(r) + 1) > 0
                       THEN Part(i, c - Base(r) + 1) ELSE Mixed]
        /\ cfg = r /\ running = r
        /\ pc = "wrq" /\ slot = r /\ client = FALSE /\ port = NoPort
        /\ block = 0 /\ retries = 0 /\ got = Nothing /\ received = 0
        /\ net = {} /\ reply = [p \in Ports |-> Nothing] /\ peer = [p \in Ports |-> Idle]
        /\ dups = 0 /\ faults = 0

-----------------------------------------------------------------------------
(* The network.  A packet is lost when it is never taken; it is duplicated  *)
(* when it stays after it has been taken.  A packet to a peer replaces the  *)
(* one before it, which is then lost or late and would be ignored.          *)

ToDevice == {"wrq", "badwrq", "data"}

Take(p) ==
    \/ net' = net \ {p} /\ UNCHANGED dups
    \/ dups < MaxDups /\ dups' = dups + 1 /\ UNCHANGED net

\* The device receives p and answers q, or nothing.
Answer(p, q) ==
    /\ Take(p)
    /\ reply' = IF q = Nothing THEN reply ELSE [reply EXCEPT ![q.port] = q]

\* The device sends q to the peer it is connected to.
Send(q) ==
    /\ reply' = [p \in Ports |-> IF p = q.port THEN q ELSE reply[p]]
    /\ UNCHANGED <<net, dups>>

\* Back to the wait for a write request, with no connection.
Return ==
    /\ pc' = "wrq" /\ client' = FALSE /\ port' = NoPort
    /\ block' = 0 /\ retries' = 0 /\ got' = Nothing /\ received' = 0
    /\ UNCHANGED slot

Start(s, isclient, p) ==
    /\ pc' = "recv" /\ slot' = s /\ client' = isclient /\ port' = p
    /\ block' = 1 /\ retries' = Retransmits /\ received' = 0 /\ UNCHANGED got

-----------------------------------------------------------------------------
(* The server task: requests.                                               *)

NextSlot == (cfg + 1) % NumSlots

RecvRequest(p) ==
    /\ pc = "wrq" /\ p \in net /\ p.op \in ToDevice
    /\ CASE p.op = "data" -> Answer(p, Nothing) /\ UNCHANGED dev
         [] p.op = "badwrq" -> Answer(p, Err(p.port)) /\ UNCHANGED dev
         [] p.op = "wrq" /\ NextSlot = cfg ->
              Answer(p, Err(p.port)) /\ UNCHANGED dev
         [] OTHER -> Answer(p, Ack(p.port, 0)) /\ Start(NextSlot, FALSE, p.port)
    /\ UNCHANGED <<flash, cfg, running, peer, faults>>

\* The acknowledgement of the request cannot be sent.
RequestFails(p) ==
    /\ pc = "wrq" /\ p \in net /\ p.op = "wrq" /\ NextSlot # cfg
    /\ faults < MaxFaults /\ faults' = faults + 1
    /\ Answer(p, Nothing)
    /\ UNCHANGED <<flash, cfg, running, dev, peer>>

\* ota_tftp_download(): the peer's port is not known before its first packet.
Download(s) ==
    /\ pc = "wrq" /\ s # cfg
    /\ net' = net \cup {Req("rrq", NoPort)}
    /\ Start(s, TRUE, NoPort)
    /\ UNCHANGED <<flash, cfg, running, reply, peer, dups, faults>>

-----------------------------------------------------------------------------
(* tftp_receive_data()                                                      *)

At == Base(slot) + block - 1

Image == peer[got.port].img

\* The sector of the block is erased when the block is its first one.
Prepared ==
    [c \in Cells |-> IF /\ At % SectorBlocks = 0
                        /\ c \div SectorBlocks = At \div SectorBlocks
                     THEN Erased ELSE flash[c]]

\* Fault: an image of any length is accepted.
TooLargeNever(len) == FALSE

TooLarge(len) == (block - 1) * BLOCK + len >= SlotBlocks * BLOCK

RecvData(p) ==
    /\ pc = "recv" /\ p \in net /\ p.op \in ToDevice
    /\ port \in {NoPort, p.port}
    /\ LET len == HEADER + Payload(peer[p.port].img, p.block)
       IN CASE p.op = "data" /\ p.block = block /\ ~TooLarge(len) ->
                 /\ Answer(p, Nothing)
                 /\ flash' = Prepared
                 /\ pc' = "write" /\ got' = p /\ port' = p.port
                 /\ retries' = Retransmits
                 /\ UNCHANGED <<slot, client, block, received>>
            [] p.op = "data" /\ p.block = block /\ TooLarge(len) ->
                 /\ Answer(p, Err(p.port))
                 /\ flash' = Prepared
                 /\ Return
            [] p.op = "data" /\ p.block = block - 1 ->
                 /\ Answer(p, Ack(p.port, block - 1))
                 /\ port' = p.port
                 /\ UNCHANGED <<flash, pc, slot, client, block, retries, got, received>>
            [] OTHER -> Answer(p, Err(p.port)) /\ Return /\ UNCHANGED flash
    /\ UNCHANGED <<cfg, running, peer, faults>>

\* Fault: a retransmission does not count.
RetriesLeftSame == retries

RetriesLeft == retries - 1

Timeout ==
    /\ pc = "recv"
    /\ IF retries > 0 /\ block > 1
       THEN /\ Send(Ack(port, block - 1))
            /\ retries' = RetriesLeft
            /\ UNCHANGED <<pc, slot, client, port, block, got, received>>
       ELSE Send(Err(port)) /\ Return
    /\ UNCHANGED <<flash, cfg, running, peer, faults>>

\* netconn_recv() fails for another reason than a time-out.
RecvFails ==
    /\ pc = "recv"
    /\ faults < MaxFaults /\ faults' = faults + 1
    /\ Send(Err(port)) /\ Return
    /\ UNCHANGED <<flash, cfg, running, peer>>

WriteBlock ==
    /\ pc = "write"
    /\ flash' = IF Payload(Image, block) = 0 THEN flash
                ELSE [c \in Cells |-> IF c # At THEN flash[c]
                                      ELSE IF flash[c] = Erased THEN Part(Image, block)
                                      ELSE Mixed]
    /\ received' = received + Payload(Image, block)
    /\ pc' = "finish"
    /\ UNCHANGED <<cfg, running, slot, client, port, block, retries, got,
                   net, reply, peer, dups, faults>>

Last == Payload(Image, block) < BLOCK

\* Fault: the image is not verified.
VerifiedAlways == TRUE

\* rboot_verify_image() accepts the slot and finds the length received.
Verified == \E i \in Good : Holds(slot, i) /\ ImageLen[i] = received

Finish ==
    /\ pc = "finish"
    /\ CASE Last /\ ~Verified -> Send(Err(port)) /\ Return
         [] Last /\ Verified ->
              /\ Send(Ack(port, block))
              /\ IF client THEN Return
                 ELSE pc' = "select" /\ UNCHANGED <<slot, client, port, block,
                                                    retries, got, received>>
         [] ~Last ->
              /\ Send(Ack(port, block))
              /\ pc' = "recv" /\ block' = block + 1 /\ got' = Nothing
              /\ UNCHANGED <<slot, client, port, retries, received>>
    /\ UNCHANGED <<flash, cfg, running, peer, faults>>

\* The acknowledgement cannot be sent.
AckFails ==
    /\ pc = "finish" /\ (Last => Verified)
    /\ faults < MaxFaults /\ faults' = faults + 1
    /\ Return
    /\ UNCHANGED <<flash, cfg, running, net, reply, peer, dups>>

-----------------------------------------------------------------------------
(* The end of tftp_task(): rboot_set_current_rom() erases and rewrites the  *)
(* configuration sector; then the device restarts.                          *)

Step(from, to) == pc = from /\ pc' = to

SelectErase ==
    /\ Step("select", "select2")
    /\ cfg' = Blank
    /\ UNCHANGED <<flash, running, slot, client, port, block, retries, got,
                   received, net, reply, peer, dups, faults>>

\* No memory for the sector buffer: the error is printed, the restart follows.
SelectFails ==
    /\ Step("select", "restart")
    /\ faults < MaxFaults /\ faults' = faults + 1
    /\ UNCHANGED <<flash, cfg, running, slot, client, port, block, retries, got,
                   received, net, reply, peer, dups>>

SelectWrite ==
    /\ Step("select2", "restart")
    /\ cfg' = slot
    /\ UNCHANGED <<flash, running, slot, client, port, block, retries, got,
                   received, net, reply, peer, dups, faults>>

\* The boot loader starts a slot and rewrites a missing configuration.
Boot ==
    /\ running' = BootSlot /\ cfg' = BootSlot
    /\ Return
    /\ UNCHANGED <<flash, net, reply, peer, dups>>

Restart == pc = "restart" /\ Boot /\ UNCHANGED faults

PowerFails == faults < MaxFaults /\ faults' = faults + 1 /\ Boot

-----------------------------------------------------------------------------
(* The peers: TFTP clients that put a file, TFTP servers that are asked for *)
(* one.  They wait for the acknowledgement of a block before the next.      *)

\* The packet a peer is waiting to have acknowledged.
Current(p) == IF peer[p].block = 0 THEN Req("wrq", p) ELSE Data(p, peer[p].block)

PeerPut(p, i, op) ==
    /\ peer[p] = Idle
    /\ peer' = [peer EXCEPT ![p] = [st |-> "busy", img |-> i, block |-> 0, sent |-> 0]]
    /\ net' = net \cup {Req(op, p)}
    /\ UNCHANGED <<flash, cfg, running, dev, reply, dups, faults>>

PeerServe(p, i) ==
    /\ peer[p] = Idle /\ Req("rrq", NoPort) \in net
    /\ peer' = [peer EXCEPT ![p] = [st |-> "busy", img |-> i, block |-> 1, sent |-> 0]]
    /\ net' = (net \ {Req("rrq", NoPort)}) \cup {Data(p, 1)}
    /\ UNCHANGED <<flash, cfg, running, dev, reply, dups, faults>>

PeerAcked(p) ==
    /\ peer[p].st = "busy" /\ reply[p] = Ack(p, peer[p].block)
    /\ IF peer[p].block = Blocks(peer[p].img)
       THEN peer' = [peer EXCEPT ![p].st = "done"] /\ UNCHANGED net
       ELSE /\ peer' = [peer EXCEPT ![p].block = @ + 1]
            /\ net' = net \cup {Data(p, peer[p].block + 1)}
    /\ UNCHANGED <<flash, cfg, running, dev, reply, dups, faults>>

PeerResends(p) ==
    /\ peer[p].st = "busy" /\ peer[p].sent < MaxResends /\ Current(p) \notin net
    /\ peer' = [peer EXCEPT ![p].sent = @ + 1]
    /\ net' = net \cup {Current(p)}
    /\ UNCHANGED <<flash, cfg, running, dev, reply, dups, faults>>

PeerRefused(p) ==
    /\ peer[p].st = "busy" /\ reply[p] = Err(p)
    /\ peer' = [peer EXCEPT ![p].st = "failed"]
    /\ UNCHANGED <<flash, cfg, running, dev, net, reply, dups, faults>>

-----------------------------------------------------------------------------
Device ==
    \/ \E p \in net : RecvRequest(p) \/ RequestFails(p) \/ RecvData(p)
    \/ Timeout \/ RecvFails \/ WriteBlock \/ Finish \/ AckFails
    \/ SelectErase \/ SelectFails \/ SelectWrite \/ Restart

Peer(p) ==
    \/ \E i \in Images : PeerPut(p, i, "wrq") \/ PeerServe(p, i)
    \/ \E i \in Images : PeerPut(p, i, "badwrq")
    \/ PeerAcked(p) \/ PeerResends(p) \/ PeerRefused(p)

Next ==
    \/ Device
    \/ \E s \in Slots : Download(s)
    \/ PowerFails
    \/ \E p \in Ports : Peer(p)

\* A receive returns with a packet or with a time-out, and the task goes on.
Spec == Init /\ [][Next]_vars /\ WF_vars(Device)

-----------------------------------------------------------------------------
TypeOK ==
    /\ flash \in [Cells -> [img : Images \cup {"erased", "mixed"}, n : Nat]]
    /\ cfg \in Slots \cup {Blank} /\ running \in Slots /\ slot \in Slots
    /\ pc \in {"wrq", "recv", "write", "finish", "select", "select2", "restart"}
    /\ client \in BOOLEAN /\ port \in Ports \cup {NoPort}
    /\ block \in 0 .. SlotBlocks /\ retries \in 0 .. Retransmits
    /\ received \in 0 .. SlotBlocks * BLOCK
    /\ dups \in 0 .. MaxDups /\ faults \in 0 .. MaxFaults

\* Whatever was received, and wherever the power fails, also between the erase
\* and the rewrite of the configuration in rboot_set_config(), the boot loader
\* starts a slot that holds a whole, valid image.
AlwaysBoots == Bootable(BootSlot)

\* tftp_receive_data() never erases or writes the slot that is running.
RunningUntouched ==
    [][\A c \in Base(running) .. Base(running) + SlotBlocks - 1 :
          flash'[c] = flash[c]]_vars

\* "verify the image before we ACK it so the client gets an indication if
\* things were successful": the last block of a file is acknowledged only when
\* the whole of that file, block for block, is in the slot and is valid.
AckMeansStored ==
    [][\A p \in Ports :
          /\ peer[p] # Idle
          /\ reply'[p] # reply[p] /\ reply'[p] = Ack(p, Blocks(peer[p].img))
          => peer[p].img \in Good /\ Holds(slot, peer[p].img)]_vars

\* A transfer ends, whatever the network does: the retransmissions that
\* time-outs cause are bounded.
TransferEnds == pc = "recv" ~> pc = "wrq"
=============================================================================
