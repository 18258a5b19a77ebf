----------------------------- MODULE StreamRing -----------------------------
(***************************************************************************)
(* The ring of bytes of a stream buffer (FreeRTOS/Source/stream_buffer.c). *)
(* The writer moves xHead and the reader xTail; a ring of XLENGTH bytes    *)
(* holds at most XLENGTH - 1, so that full and empty differ.               *)
(***************************************************************************)
EXTENDS Integers, Sequences

CONSTANT XLENGTH        \* xLength

ASSUME RingAssumption == XLENGTH \in Nat \ {0}

Offsets == 0 .. XLENGTH - 1

Wrap(i) == IF i >= XLENGTH THEN i - XLENGTH ELSE i

prvBytesInBuffer(b) == Wrap(XLENGTH + b.head - b.tail)

xStreamBufferSpacesAvailable(b) == Wrap(XLENGTH + b.tail - b.head - 1)

(* Two copies when the data goes past the end: byte i gets the data byte at   *)
(* its distance from xHead, if the data is that long.                        *)
prvWriteBytesToBuffer(b, data) ==
    LET Distance(i) == IF i >= b.head THEN i - b.head ELSE i - b.head + XLENGTH
    IN  [b EXCEPT !.buf  = [i \in Offsets |-> IF Distance(i) < Len(data)
                                              THEN data[Distance(i) + 1] ELSE b.buf[i]],
                  !.head = Wrap(b.head + Len(data))]

(* The n bytes from xTail on, and the ring without them. *)
BytesRead(b, n) == [i \in 1 .. n |-> b.buf[Wrap(b.tail + i - 1)]]

Skip(b, n) == [b EXCEPT !.tail = Wrap(b.tail + n)]

(* The bytes in the ring, oldest first. *)
Bytes(b) == BytesRead(b, prvBytesInBuffer(b))

=============================================================================
