------------------------------ MODULE SpiFlash ------------------------------
(***************************************************************************)
(* The flash driver (core/spiflash.c).  A write is split at the pages of   *)
(* the chip and into what its buffer holds; the chip is busy for a while   *)
(* after each command that changes it, and the power may fail in between.  *)
(***************************************************************************)
EXTENDS Integers, FiniteSetsExt

CONSTANTS
    CHIP_SIZE, PAGE_SIZE, SECTOR_SIZE,  \* of sdk_flashchip
    SPI_WRITE_MAX_SIZE, SPI_READ_MAX_SIZE,
    Erased                              \* a byte that is not written

ASSUME FlashAssumption ==
    {CHIP_SIZE, PAGE_SIZE, SECTOR_SIZE, SPI_WRITE_MAX_SIZE, SPI_READ_MAX_SIZE} \subseteq Nat \ {0}

VARIABLES
    mem,        \* the chip: a written byte is told apart by its place in the
                \* data of its write
    busy,       \* the BUSY bit of its status register
    op,         \* the call in progress
    buf,        \* what a read has put in the caller's buffer
    before,     \* ghost: the chip when the call was made
    clash       \* ghost: a command was given while the chip was busy

flashVars == <<mem, busy, op, buf, before, clash>>

Addr == 0 .. CHIP_SIZE - 1

NoOp == [kind |-> "none", pc |-> "none", addr |-> 0, size |-> 0, off |-> 0, end |-> 0,
         ok |-> FALSE]

FlashInit ==
    /\ mem = [a \in Addr |-> Erased] /\ before = mem
    /\ busy = FALSE /\ clash = FALSE
    /\ op = NoOp /\ buf = << >>

Free == op.pc \in {"none", "returned"}

Begin(kind, pc, addr, size, valid) ==
    /\ Free
    /\ op' = [kind |-> kind, pc |-> IF valid THEN pc ELSE "returned", addr |-> addr,
              size |-> size, off |-> 0, end |-> 0, ok |-> FALSE]
    /\ before' = mem /\ buf' = << >>
    /\ UNCHANGED <<mem, busy, clash>>

Idle_SPI == busy' = FALSE /\ busy /\ UNCHANGED <<mem, op, buf, before, clash>>

-----------------------------------------------------------------------------
spiflash_write(addr, size) == Begin("write", "page", addr, size, CHIP_SIZE >= addr + size)

(* spi_write: the rest of the first page, whole pages, and what remains.     *)
PageEnd(o) ==
    o.off + Min({o.size - o.off, PAGE_SIZE - ((o.addr + o.off) % PAGE_SIZE)})

(* spi_write_page refuses what crosses the boundary of a page. *)
NextPage ==
    /\ op.pc = "page"
    /\ LET fits == PAGE_SIZE >= PageEnd(op) - op.off + ((op.addr + op.off) % PAGE_SIZE)
       IN  op' = [op EXCEPT !.end = PageEnd(op), !.ok = fits,
                            !.pc = IF fits THEN "data" ELSE "wait"]
    /\ UNCHANGED <<mem, busy, buf, before, clash>>

(* What the chip does with n bytes at `at': it goes round within the page. *)
Program(at, n, first) ==
    LET page == at - (at % PAGE_SIZE)
        Byte(a) == {i \in 0 .. n - 1 : a = page + ((at + i) % PAGE_SIZE)}
    IN  [a \in Addr |-> IF Byte(a) = {} THEN mem[a] ELSE first + Max(Byte(a))]

\* Mutant: always a full buffer.
WriteFullBuffer ==
    /\ op.pc = "data" /\ op.off < op.end /\ ~busy
    /\ mem' = Program(op.addr + op.off, SPI_WRITE_MAX_SIZE, op.off)
    /\ op' = [op EXCEPT !.off = @ + SPI_WRITE_MAX_SIZE]
    /\ busy' = TRUE
    /\ UNCHANGED <<buf, before, clash>>

(* A full buffer or the rest of the page, when the chip is idle. *)
spi_write_data ==
    /\ op.pc = "data" /\ op.off < op.end /\ ~busy
    /\ LET n == Min({SPI_WRITE_MAX_SIZE, op.end - op.off})
       IN  /\ mem' = Program(op.addr + op.off, n, op.off)
           /\ op' = [op EXCEPT !.off = @ + n]
    /\ busy' = TRUE
    /\ UNCHANGED <<buf, before, clash>>

PageDone ==
    /\ op.pc = "data" /\ op.off = op.end
    /\ op' = [op EXCEPT !.pc = IF op.end < op.size THEN "page" ELSE "wait"]
    /\ UNCHANGED <<mem, busy, buf, before, clash>>

(* Wait_SPI_Idle, and return. *)
Wait_SPI_Idle ==
    /\ op.pc = "wait" /\ ~busy
    /\ op' = [op EXCEPT !.pc = "returned"]
    /\ UNCHANGED <<mem, busy, buf, before, clash>>

-----------------------------------------------------------------------------
spiflash_read(addr, size) ==
    Begin("read", "read", addr, size, size < 1 \/ addr + size <= CHIP_SIZE)

read_block ==
    /\ op.pc = "read"
    /\ LET n == Min({SPI_READ_MAX_SIZE, op.size - op.off})
       IN  /\ buf' = [i \in 1 .. op.off + n |-> IF i <= op.off THEN buf[i]
                                                ELSE mem[op.addr + i - 1]]
           /\ op' = [op EXCEPT !.off = @ + n, !.ok = TRUE,
                               !.pc = IF op.off + n = op.size THEN "returned" ELSE "read"]
    /\ clash' = (clash \/ busy)
    /\ UNCHANGED <<mem, busy, before>>

spiflash_erase_sector(addr) ==
    Begin("erase", "erase", addr, SECTOR_SIZE,
          addr + SECTOR_SIZE <= CHIP_SIZE /\ addr % SECTOR_SIZE = 0)

Erase ==
    /\ op.pc = "erase"
    /\ mem' = [a \in Addr |-> IF a \in op.addr .. op.addr + SECTOR_SIZE - 1 THEN Erased ELSE mem[a]]
    /\ busy' = TRUE /\ clash' = (clash \/ busy)
    /\ op' = [op EXCEPT !.pc = "wait", !.ok = TRUE]
    /\ UNCHANGED <<buf, before>>

PowerFails ==
    /\ op' = NoOp /\ busy' = FALSE /\ buf' = << >> /\ before' = mem
    /\ UNCHANGED <<mem, clash>>

FlashStep ==
    \/ Idle_SPI \/ NextPage \/ spi_write_data \/ PageDone \/ Wait_SPI_Idle
    \/ read_block \/ Erase \/ PowerFails

(* Arguments whose sum does not wrap at 2^32. *)
Argument == {n \in Nat : n < 2^31}

FlashNext ==
    \/ \E addr, size \in Argument :
          spiflash_write(addr, size) \/ spiflash_read(addr, size) \/ spiflash_erase_sector(addr)
    \/ FlashStep

FlashSpec == FlashInit /\ [][FlashNext]_flashVars

-----------------------------------------------------------------------------
(* The chip is not given a command while it is busy: "each write function    *)
(* that is accessible from the outside should leave flash in Idle state".    *)
NoClash == ~clash /\ (Free => ~busy)

(* A write reaches the chip in order and no further than its data: at any    *)
(* moment, and so after a power failure, just the first bytes of it are      *)
(* there and nothing else has changed; when true is returned, all are.       *)
WritesPrefix ==
    op.kind = "write" =>
        /\ mem = [a \in Addr |-> IF a \in op.addr .. op.addr + op.off - 1 THEN a - op.addr
                                 ELSE before[a]]
        /\ op.off <= op.size
        /\ op.pc = "returned" /\ op.ok => op.off = op.size

(* A read that returns true has filled the buffer with what the chip holds. *)
ReadsAll ==
    op.kind = "read" /\ op.pc = "returned" /\ op.ok =>
        buf = [i \in 1 .. op.size |-> mem[op.addr + i - 1]]

(* The driver is exact: the chip is never given a command while it is busy,  *)
(* a write arrives in order and no further than its data, and a read returns *)
(* what is there.                                                            *)
FlashExact == NoClash /\ WritesPrefix /\ ReadsAll

=============================================================================
