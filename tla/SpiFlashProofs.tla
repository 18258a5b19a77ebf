--------------------------- MODULE SpiFlashProofs ---------------------------
(***************************************************************************)
(* The flash driver, for every size of chip, page and buffer, every        *)
(* address and every length: the chip is never disturbed while it is busy, *)
(* a write is always a prefix of its data, and a read returns what is      *)
(* there.                                                                  *)
(***************************************************************************)
EXTENDS SpiFlash, MinMaxLemmas

Ops == [kind : {"none", "write", "read", "erase"},
        pc : {"none", "returned", "page", "data", "wait", "read", "erase"},
        addr : Nat, size : Nat, off : Nat, end : Nat, ok : BOOLEAN]

FlashTypes ==
    /\ op \in Ops /\ busy \in BOOLEAN /\ clash \in BOOLEAN
    /\ mem = [a \in Addr |-> mem[a]]

(* Which call is at which place. *)
Places ==
    /\ op.pc \in {"page", "data"} => op.kind = "write"
    /\ op.pc = "read" <=> op.kind = "read" /\ op.pc # "returned"
    /\ op.kind = "read" => op.pc \in {"read", "returned"}
    /\ op.pc = "erase" => op.kind = "erase"

(* The chip is busy only within a write or the wait at the end of a call. *)
BusyInside == ~clash /\ (busy => op.pc \in {"page", "data", "wait"})

(* Bytes first up to off of a write at addr are in the chip. *)
Prefix(m, old, addr, off) ==
    m = [a \in Addr |-> IF a \in addr .. addr + off - 1 THEN a - addr ELSE old[a]]

(* The rest of a page is what may be written without going round in it. *)
Fits(addr, off, end) == off < end => end - off + ((addr + off) % PAGE_SIZE) <= PAGE_SIZE

Writing ==
    op.kind = "write" =>
        /\ Prefix(mem, before, op.addr, op.off) /\ op.off <= op.size
        /\ op.pc \in {"page", "data"} => op.addr + op.size <= CHIP_SIZE
        /\ op.pc = "data" => op.off <= op.end /\ op.end <= op.size /\ Fits(op.addr, op.off, op.end)
        /\ op.pc \in {"wait", "returned"} /\ op.ok => op.off = op.size

Reading ==
    op.kind = "read" =>
        /\ op.off <= op.size
        /\ op.pc = "read" => \A i \in 1 .. op.off : buf[i] = mem[op.addr + i - 1]
        /\ op.pc = "returned" /\ op.ok => buf = [i \in 1 .. op.size |-> mem[op.addr + i - 1]]

FlashInv == FlashTypes /\ Places /\ BusyInside /\ Writing /\ Reading

-----------------------------------------------------------------------------
(* Remainders. *)

LEMMA SmallMultiple ==
    ASSUME NEW P \in Nat \ {0}, NEW k \in Int, P * k < P, -P < P * k
    PROVE  k = 0
<1>1. CASE k >= 1
  <2>1. P * k >= P
    BY <1>1
  <2> QED BY <2>1
<1>2. CASE k <= -1
  <2>1. P * k <= -P
    BY <1>2
  <2> QED BY <2>1
<1> QED BY <1>1, <1>2

LEMMA DivMod ==
    ASSUME NEW P \in Nat \ {0}, NEW a \in Int
    PROVE  a = P * (a \div P) + (a % P) /\ (a % P) \in 0 .. P - 1 /\ (a \div P) \in Int
<1>1. a = P * (a \div P) + (a % P)
  OBVIOUS
<1>2. (a % P) \in 0 .. P - 1
  OBVIOUS
<1>3. (a \div P) \in Int
  OBVIOUS
<1> QED BY <1>1, <1>2, <1>3

(* Within a page, the place in the page advances with the address. *)
LEMMA ModPlus ==
    ASSUME NEW P \in Nat \ {0}, NEW a \in Int, NEW i \in Nat, (a % P) + i < P
    PROVE  (a + i) % P = (a % P) + i
<1> DEFINE q == a \div P
           r == a % P
           q2 == (a + i) \div P
           r2 == (a + i) % P
<1>1. a = P * q + r /\ r \in 0 .. P - 1 /\ q \in Int
  BY DivMod
<1>2. a + i = P * q2 + r2 /\ r2 \in 0 .. P - 1 /\ q2 \in Int
  BY DivMod
<1>3. r + i < P
  OBVIOUS
<1> HIDE DEF q, r, q2, r2
<1>4. P * (q2 - q) = r + i - r2
  BY <1>1, <1>2
<1>5. q2 - q = 0
  <2>1. q2 - q \in Int /\ P * (q2 - q) < P /\ -P < P * (q2 - q)
    BY <1>1, <1>2, <1>3, <1>4
  <2> QED BY <2>1, SmallMultiple
<1>6. r2 = r + i
  BY <1>1, <1>2, <1>4, <1>5
<1> QED BY <1>6 DEF r2, r

LEMMA MinOfTwo ==
    ASSUME NEW x \in Nat, NEW y \in Nat
    PROVE  Min({x, y}) \in Nat /\ Min({x, y}) <= x /\ Min({x, y}) <= y /\ Min({x, y}) \in {x, y}
<1>1. {x, y} \in SUBSET Nat /\ {x, y} # {}
  OBVIOUS
<1> QED BY <1>1, MinIsLeast

LEMMA MaxOfOne ==
    ASSUME NEW x \in Nat
    PROVE  Max({x}) = x
<1>1. {x} \in SUBSET (0 .. x) /\ {x} # {}
  OBVIOUS
<1> QED BY <1>1, MaxIsGreatest

LEMMA Sizes ==
    /\ CHIP_SIZE \in Nat /\ PAGE_SIZE \in Nat \ {0} /\ SECTOR_SIZE \in Nat
    /\ SPI_WRITE_MAX_SIZE \in Nat \ {0} /\ SPI_READ_MAX_SIZE \in Nat
BY FlashAssumption

-----------------------------------------------------------------------------
(* What spi_write_data sends to the chip lands behind what is there. *)
LEMMA Programmed ==
    ASSUME NEW addr \in Nat, NEW off \in Nat, NEW n \in Nat \ {0},
           n + ((addr + off) % PAGE_SIZE) <= PAGE_SIZE,
           mem = [a \in Addr |-> mem[a]], Prefix(mem, before, addr, off)
    PROVE  Prefix(Program(addr + off, n, off), before, addr, off + n)
<1> DEFINE at == addr + off
           r == at % PAGE_SIZE
           Byte(a) == {i \in 0 .. n - 1 : a = (at - r) + ((at + i) % PAGE_SIZE)}
<1>1. PAGE_SIZE \in Nat \ {0} /\ at \in Nat /\ r \in 0 .. PAGE_SIZE - 1
  BY Sizes, DivMod
<1>2. ASSUME NEW i \in 0 .. n - 1 PROVE (at + i) % PAGE_SIZE = r + i
  <2>1. i \in Nat /\ r + i < PAGE_SIZE
    BY <1>1
  <2>2. (at % PAGE_SIZE) + i < PAGE_SIZE
    BY <2>1
  <2> HIDE DEF at
  <2> QED BY <1>1, <2>1, <2>2, ModPlus
<1>3. Program(at, n, off) = [a \in Addr |-> IF Byte(a) = {} THEN mem[a] ELSE off + Max(Byte(a))]
  BY DEF Program
<1>4. ASSUME NEW a \in Addr
      PROVE  Byte(a) = IF a \in at .. at + n - 1 THEN {a - at} ELSE {}
  <2>1. a \in Int
    BY DEF Addr
  <2>2. ASSUME NEW i \in 0 .. n - 1
        PROVE  a = (at - r) + ((at + i) % PAGE_SIZE) <=> a = at + i
    BY <1>1, <1>2, <2>1
  <2>3. Byte(a) = {i \in 0 .. n - 1 : a = at + i}
    BY <2>2
  <2> HIDE DEF Byte, at, r
  <2> QED BY <1>1, <2>1, <2>3
<1> HIDE DEF Byte, r
<1>5. ASSUME NEW a \in Addr
      PROVE  (IF Byte(a) = {} THEN mem[a] ELSE off + Max(Byte(a))) =
             (IF a \in addr .. addr + (off + n) - 1 THEN a - addr ELSE before[a])
  <2>1. a \in Nat
    BY Sizes DEF Addr
  <2>2. CASE a \in at .. at + n - 1
    <3>1. a - at \in Nat /\ Byte(a) = {a - at}
      BY <1>1, <1>4, <2>1, <2>2
    <3>2. Max(Byte(a)) = a - at
      BY <3>1, MaxOfOne
    <3>3. a \in addr .. addr + (off + n) - 1 /\ off + (a - at) = a - addr
      BY <2>1, <2>2
    <3> QED BY <3>1, <3>2, <3>3
  <2>3. CASE a \notin at .. at + n - 1
    <3>1. Byte(a) = {}
      BY <1>4, <2>3
    <3>2. mem[a] = IF a \in addr .. addr + off - 1 THEN a - addr ELSE before[a]
      BY DEF Prefix
    <3>3. a \in addr .. addr + off - 1 <=> a \in addr .. addr + (off + n) - 1
      BY <2>1, <2>3
    <3> QED BY <3>1, <3>2, <3>3
  <2> QED BY <2>2, <2>3
<1> QED BY <1>3, <1>5 DEF Prefix

-----------------------------------------------------------------------------
LEMMA BeginInv ==
    ASSUME FlashInv, NEW addr \in Nat, NEW size \in Nat, NEW kind, NEW pc, NEW valid \in BOOLEAN,
           \/ kind = "write" /\ pc = "page"
           \/ kind = "read" /\ pc = "read"
           \/ kind = "erase" /\ pc = "erase",
           kind = "write" /\ valid => addr + size <= CHIP_SIZE,
           Begin(kind, pc, addr, size, valid)
    PROVE  FlashInv'
<1>1. /\ op' = [kind |-> kind, pc |-> IF valid THEN pc ELSE "returned", addr |-> addr,
                size |-> size, off |-> 0, end |-> 0, ok |-> FALSE]
      /\ before' = mem /\ mem' = mem /\ busy' = busy /\ clash' = clash
  BY DEF Begin
<1>2. op.pc \in {"none", "returned"}
  BY DEF Begin, Free
<1>3. /\ op'.kind = kind /\ op'.addr = addr /\ op'.size = size /\ op'.off = 0 /\ op'.ok = FALSE
      /\ op'.pc = IF valid THEN pc ELSE "returned"
  BY <1>1
<1>4. FlashTypes'
  BY <1>1 DEF FlashInv, FlashTypes, Ops
<1>5. Places'
  BY <1>3 DEF Places
<1>6. BusyInside'
  BY <1>1, <1>2 DEF FlashInv, BusyInside
<1>7. Writing'
  <2>1. Prefix(mem', before', op'.addr, op'.off)
    BY <1>1, <1>3 DEF FlashInv, FlashTypes, Prefix
  <2> QED BY <1>3, <2>1 DEF Writing
<1>8. Reading'
  BY <1>3 DEF Reading
<1> QED BY <1>4, <1>5, <1>6, <1>7, <1>8 DEF FlashInv

LEMMA IdleInv == ASSUME FlashInv, Idle_SPI PROVE FlashInv'
<1>1. FlashTypes' /\ Places' /\ BusyInside'
  BY DEF FlashInv, Idle_SPI, FlashTypes, Places, BusyInside
<1>2. Writing' /\ Reading'
  BY DEF FlashInv, Idle_SPI, Writing, Reading, Prefix
<1> QED BY <1>1, <1>2 DEF FlashInv

LEMMA NextPageInv == ASSUME FlashInv, NextPage PROVE FlashInv'
<1> DEFINE at == op.addr + op.off
           r == at % PAGE_SIZE
           e == PageEnd(op)
<1>1. /\ op.pc = "page" /\ op.kind = "write" /\ op \in Ops
      /\ op.addr \in Nat /\ op.size \in Nat /\ op.off \in Nat
      /\ op.off <= op.size /\ op.addr + op.size <= CHIP_SIZE
      /\ Prefix(mem, before, op.addr, op.off)
  BY DEF FlashInv, NextPage, Places, Writing, FlashTypes, Ops
<1>2. PAGE_SIZE \in Nat \ {0} /\ r \in 0 .. PAGE_SIZE - 1
  BY <1>1, Sizes, DivMod
<1>3. /\ e \in Nat /\ op.off <= e /\ e <= op.size /\ e - op.off + r <= PAGE_SIZE
  <2>1. op.size - op.off \in Nat /\ PAGE_SIZE - r \in Nat
    BY <1>1, <1>2
  <2> DEFINE m == Min({op.size - op.off, PAGE_SIZE - r})
  <2>2. m \in Nat /\ m <= op.size - op.off /\ m <= PAGE_SIZE - r
    BY <2>1, MinOfTwo
  <2>3. e = op.off + m
    BY DEF PageEnd
  <2> HIDE DEF m, e, r
  <2> QED BY <1>1, <1>2, <2>2, <2>3
<1>4. PAGE_SIZE >= e - op.off + r
  <2> HIDE DEF e, r
  <2> QED BY <1>1, <1>2, <1>3
<1>5. /\ op' = [op EXCEPT !.end = e, !.ok = TRUE, !.pc = "data"]
      /\ mem' = mem /\ busy' = busy /\ buf' = buf /\ before' = before /\ clash' = clash
  BY <1>4, Zenon DEF NextPage
<1> HIDE DEF e
<1>6. /\ op' \in Ops /\ op'.kind = "write" /\ op'.pc = "data" /\ op'.end = e
      /\ op'.addr = op.addr /\ op'.size = op.size /\ op'.off = op.off
  BY <1>1, <1>3, <1>5 DEF Ops
<1>7. FlashTypes' /\ Places' /\ BusyInside'
  BY <1>1, <1>5, <1>6 DEF FlashInv, FlashTypes, Places, BusyInside
<1>8. Fits(op.addr, op.off, e)
  BY <1>3 DEF Fits
<1>9. Writing' /\ Reading'
  BY <1>1, <1>3, <1>5, <1>6, <1>8 DEF Writing, Reading
<1> QED BY <1>7, <1>9 DEF FlashInv

LEMMA WriteDataInv == ASSUME FlashInv, spi_write_data PROVE FlashInv'
<1> DEFINE n == Min({SPI_WRITE_MAX_SIZE, op.end - op.off})
           r == (op.addr + op.off) % PAGE_SIZE
<1>1. /\ op.pc = "data" /\ op.kind = "write" /\ op \in Ops /\ op.off < op.end
      /\ op.addr \in Nat /\ op.size \in Nat /\ op.off \in Nat /\ op.end \in Nat
      /\ op.end <= op.size /\ op.addr + op.size <= CHIP_SIZE
      /\ Fits(op.addr, op.off, op.end)
      /\ Prefix(mem, before, op.addr, op.off)
      /\ mem = [a \in Addr |-> mem[a]]
  BY DEF FlashInv, spi_write_data, Places, Writing, FlashTypes, Ops
<1>2. PAGE_SIZE \in Nat \ {0} /\ r \in 0 .. PAGE_SIZE - 1
  BY <1>1, Sizes, DivMod
<1>3. n \in Nat \ {0} /\ n <= op.end - op.off
  <2>1. op.end - op.off \in Nat \ {0}
    BY <1>1
  <2> QED BY <2>1, Sizes, MinOfTwo
<1>4. /\ mem' = Program(op.addr + op.off, n, op.off)
      /\ op' = [op EXCEPT !.off = @ + n]
      /\ busy' = TRUE /\ buf' = buf /\ before' = before /\ clash' = clash
  BY DEF spi_write_data
<1> HIDE DEF n
<1>5. /\ op' \in Ops /\ op'.kind = "write" /\ op'.pc = "data" /\ op'.end = op.end
      /\ op'.addr = op.addr /\ op'.size = op.size /\ op'.off = op.off + n
  BY <1>1, <1>3, <1>4 DEF Ops
<1>6. mem' = [a \in Addr |-> mem'[a]]
  BY <1>4 DEF Program
<1>7. FlashTypes' /\ Places' /\ BusyInside'
  BY <1>4, <1>5, <1>6 DEF FlashInv, FlashTypes, Places, BusyInside
<1>8. op.end - op.off + r <= PAGE_SIZE
  BY <1>1 DEF Fits
<1>9. Prefix(mem', before', op.addr, op.off + n)
  <2>1. n + r <= PAGE_SIZE
    <3> HIDE DEF r
    <3> QED BY <1>1, <1>2, <1>3, <1>8
  <2> QED BY <1>1, <1>3, <1>4, <2>1, Programmed
<1>10. Fits(op.addr, op.off + n, op.end)
  <2> SUFFICES ASSUME op.off + n < op.end
               PROVE  op.end - (op.off + n) + ((op.addr + (op.off + n)) % PAGE_SIZE) <= PAGE_SIZE
    BY DEF Fits
  <2>1. r + n < PAGE_SIZE
    <3> HIDE DEF r
    <3> QED BY <1>1, <1>2, <1>3, <1>8
  <2>2. ((op.addr + op.off) + n) % PAGE_SIZE = r + n
    <3> DEFINE at == op.addr + op.off
    <3>1. at \in Int /\ n \in Nat /\ (at % PAGE_SIZE) + n < PAGE_SIZE
      BY <1>1, <1>3, <2>1
    <3> HIDE DEF at
    <3>2. (at + n) % PAGE_SIZE = (at % PAGE_SIZE) + n
      BY <1>2, <3>1, ModPlus
    <3> QED BY <3>2 DEF at
  <2>3. op.addr + (op.off + n) = (op.addr + op.off) + n
    BY <1>1, <1>3
  <2> HIDE DEF r
  <2> QED BY <1>1, <1>2, <1>3, <1>8, <2>2, <2>3
<1>11. op.off + n <= op.end /\ op.off + n <= op.size
  BY <1>1, <1>3
<1>12. Writing' /\ Reading'
  BY <1>1, <1>5, <1>9, <1>10, <1>11 DEF Writing, Reading
<1> QED BY <1>7, <1>12 DEF FlashInv

LEMMA PageDoneInv == ASSUME FlashInv, PageDone PROVE FlashInv'
<1>1. /\ op.pc = "data" /\ op.kind = "write" /\ op \in Ops /\ op.off = op.end
      /\ op.size \in Nat /\ op.off \in Nat /\ op.end <= op.size /\ op.addr + op.size <= CHIP_SIZE
      /\ Prefix(mem, before, op.addr, op.off)
  BY DEF FlashInv, PageDone, Places, Writing, FlashTypes, Ops
<1>2. /\ op' = [op EXCEPT !.pc = IF op.end < op.size THEN "page" ELSE "wait"]
      /\ mem' = mem /\ busy' = busy /\ buf' = buf /\ before' = before /\ clash' = clash
  BY DEF PageDone
<1>3. /\ op' \in Ops /\ op'.kind = "write" /\ op'.addr = op.addr /\ op'.size = op.size
      /\ op'.off = op.off /\ op'.pc = IF op.end < op.size THEN "page" ELSE "wait"
  BY <1>1, <1>2 DEF Ops
<1>4. FlashTypes' /\ Places' /\ BusyInside'
  BY <1>1, <1>2, <1>3 DEF FlashInv, FlashTypes, Places, BusyInside
<1>5. op'.pc = "wait" => op.off = op.size
  BY <1>1, <1>3
<1>6. Writing' /\ Reading'
  BY <1>1, <1>2, <1>3, <1>5 DEF Writing, Reading
<1> QED BY <1>4, <1>6 DEF FlashInv

LEMMA WaitInv == ASSUME FlashInv, Wait_SPI_Idle PROVE FlashInv'
<1>1. op.pc = "wait" /\ op.kind # "read" /\ op \in Ops /\ ~busy
  BY DEF FlashInv, Wait_SPI_Idle, Places, FlashTypes
<1>2. /\ op' = [op EXCEPT !.pc = "returned"]
      /\ mem' = mem /\ busy' = busy /\ buf' = buf /\ before' = before /\ clash' = clash
  BY DEF Wait_SPI_Idle
<1>3. /\ op' \in Ops /\ op'.kind = op.kind /\ op'.addr = op.addr /\ op'.size = op.size
      /\ op'.off = op.off /\ op'.pc = "returned" /\ op'.ok = op.ok
  BY <1>1, <1>2 DEF Ops
<1>4. FlashTypes' /\ Places' /\ BusyInside'
  BY <1>1, <1>2, <1>3 DEF FlashInv, FlashTypes, Places, BusyInside
<1>5. Writing' /\ Reading'
  BY <1>1, <1>2, <1>3 DEF FlashInv, Writing, Reading
<1> QED BY <1>4, <1>5 DEF FlashInv

LEMMA ReadBlockInv == ASSUME FlashInv, read_block PROVE FlashInv'
<1> DEFINE n == Min({SPI_READ_MAX_SIZE, op.size - op.off})
           pc == IF op.off + n = op.size THEN "returned" ELSE "read"
<1>1. /\ op.pc = "read" /\ op.kind = "read" /\ op \in Ops /\ ~busy
      /\ op.addr \in Nat /\ op.size \in Nat /\ op.off \in Nat /\ op.off <= op.size
      /\ \A i \in 1 .. op.off : buf[i] = mem[op.addr + i - 1]
  BY DEF FlashInv, read_block, Places, Reading, FlashTypes, Ops, BusyInside
<1>2. n \in Nat /\ op.off + n <= op.size
  <2>1. op.size - op.off \in Nat
    BY <1>1
  <2>2. n \in Nat /\ n <= op.size - op.off
    BY <2>1, Sizes, MinOfTwo
  <2> HIDE DEF n
  <2> QED BY <1>1, <2>2
<1>3. /\ buf' = [i \in 1 .. op.off + n |-> IF i <= op.off THEN buf[i] ELSE mem[op.addr + i - 1]]
      /\ op' = [op EXCEPT !.off = @ + n, !.ok = TRUE, !.pc = pc]
      /\ mem' = mem /\ busy' = busy /\ clash' = (clash \/ busy)
  BY DEF read_block
<1> HIDE DEF n
<1>4. /\ op' \in Ops /\ op'.kind = "read" /\ op'.addr = op.addr /\ op'.size = op.size
      /\ op'.off = op.off + n /\ op'.pc = pc
  <2>1. pc \in {"returned", "read"} /\ op.off + n \in Nat
    BY <1>1, <1>2
  <2> HIDE DEF pc
  <2> QED BY <1>1, <1>3, <2>1 DEF Ops
<1>5. ~clash'
  BY <1>1, <1>3 DEF FlashInv, BusyInside
<1>6. FlashTypes' /\ Places' /\ BusyInside'
  BY <1>1, <1>3, <1>4, <1>5 DEF FlashInv, FlashTypes, Places, BusyInside
<1>7. buf' = [i \in 1 .. op.off + n |-> mem[op.addr + i - 1]]
  BY <1>1, <1>2, <1>3
<1>8. Reading'
  BY <1>2, <1>3, <1>4, <1>7 DEF Reading
<1>9. Writing'
  BY <1>4 DEF Writing
<1> QED BY <1>6, <1>8, <1>9 DEF FlashInv

LEMMA EraseInv == ASSUME FlashInv, Erase PROVE FlashInv'
<1>1. op.pc = "erase" /\ op.kind = "erase" /\ op \in Ops /\ ~busy /\ ~clash
  BY DEF FlashInv, Erase, Places, FlashTypes, BusyInside
<1>2. /\ op' = [op EXCEPT !.pc = "wait", !.ok = TRUE] /\ busy' = TRUE /\ clash' = (clash \/ busy)
      /\ mem' = [a \in Addr |-> mem'[a]]
  BY DEF Erase
<1>3. op' \in Ops /\ op'.kind = "erase" /\ op'.pc = "wait"
  BY <1>1, <1>2 DEF Ops
<1>4. clash' = FALSE
  BY <1>1, <1>2
<1>5. FlashTypes' /\ Places' /\ BusyInside'
  BY <1>2, <1>3, <1>4 DEF FlashTypes, Places, BusyInside
<1>6. Writing' /\ Reading'
  BY <1>3 DEF Writing, Reading
<1> QED BY <1>5, <1>6 DEF FlashInv

LEMMA NothingInv ==
    ASSUME op = NoOp, busy = FALSE, clash = FALSE, mem = [a \in Addr |-> mem[a]]
    PROVE  FlashInv
BY DEF NoOp, FlashInv, FlashTypes, Ops, Places, BusyInside, Writing, Reading

LEMMA PowerFailsInv == ASSUME FlashInv, PowerFails PROVE FlashInv'
<1>1. op' = NoOp /\ busy' = FALSE /\ mem' = mem /\ clash' = clash
  BY DEF PowerFails
<1>2. op'.kind = "none" /\ op'.pc = "none" /\ op' \in Ops
  BY <1>1 DEF NoOp, Ops
<1>3. FlashTypes' /\ Places' /\ BusyInside' /\ Writing' /\ Reading'
  BY <1>1, <1>2 DEF FlashInv, FlashTypes, Places, BusyInside, Writing, Reading
<1> QED BY <1>3 DEF FlashInv

-----------------------------------------------------------------------------
LEMMA FlashInvariant == FlashSpec => []FlashInv
<1>1. FlashInit => FlashInv
  BY NothingInv DEF FlashInit
<1>2. FlashInv /\ [FlashNext]_flashVars => FlashInv'
  <2> SUFFICES ASSUME FlashInv, [FlashNext]_flashVars PROVE FlashInv'
    OBVIOUS
  <2>1. ASSUME NEW addr \in Nat, NEW size \in Nat, spiflash_write(addr, size)
        PROVE  FlashInv'
    <3>1. (CHIP_SIZE >= addr + size) \in BOOLEAN /\ (CHIP_SIZE >= addr + size => addr + size <= CHIP_SIZE)
      BY Sizes
    <3> QED BY <2>1, <3>1, BeginInv DEF spiflash_write
  <2>2. ASSUME NEW addr \in Nat, NEW size \in Nat, spiflash_read(addr, size)
        PROVE  FlashInv'
    <3>1. (size < 1 \/ addr + size <= CHIP_SIZE) \in BOOLEAN
      OBVIOUS
    <3> QED BY <2>2, <3>1, BeginInv DEF spiflash_read
  <2>3. ASSUME NEW addr \in Nat, spiflash_erase_sector(addr)
        PROVE  FlashInv'
    <3>1. (addr + SECTOR_SIZE <= CHIP_SIZE /\ addr % SECTOR_SIZE = 0) \in BOOLEAN
      OBVIOUS
    <3> QED BY <2>3, <3>1, BeginInv, Sizes DEF spiflash_erase_sector
  <2>4. CASE FlashStep
    BY <2>4, IdleInv, NextPageInv, WriteDataInv, PageDoneInv, WaitInv, ReadBlockInv, EraseInv,
       PowerFailsInv DEF FlashStep
  <2>5. CASE UNCHANGED flashVars
    BY <2>5 DEF flashVars, FlashInv, FlashTypes, Places, BusyInside, Writing, Reading, Prefix
  <2>6. Argument \subseteq Nat
    BY DEF Argument
  <2> QED BY <2>1, <2>2, <2>3, <2>4, <2>5, <2>6 DEF FlashNext
<1> QED BY <1>1, <1>2, PTL DEF FlashSpec

(* The driver never gives the chip a command while it is busy, and leaves it *)
(* idle when spiflash_write or spiflash_erase_sector returns.                *)
THEOREM NoClashThm == FlashSpec => []NoClash
<1>1. FlashInv => NoClash
  BY DEF FlashInv, BusyInside, NoClash, Free
<1> QED BY <1>1, FlashInvariant, PTL

(* Split by spi_write and spi_write_page, whatever the sizes, a write        *)
(* reaches the chip in order and no further than its data.                   *)
THEOREM WritesPrefixThm == FlashSpec => []WritesPrefix
<1>1. FlashInv => WritesPrefix
  BY DEF FlashInv, Writing, WritesPrefix, Prefix
<1> QED BY <1>1, FlashInvariant, PTL

(* Block by block, spiflash_read returns what the chip holds. *)
THEOREM ReadsAllThm == FlashSpec => []ReadsAll
<1>1. FlashInv => ReadsAll
  BY DEF FlashInv, Reading, ReadsAll
<1> QED BY <1>1, FlashInvariant, PTL

(* Together: the flash driver is exact, for every size of page, buffer, chip *)
(* and argument.                                                             *)
THEOREM FlashExactThm == FlashSpec => []FlashExact
<1>1. NoClash /\ WritesPrefix /\ ReadsAll => FlashExact
  BY DEF FlashExact
<1> QED BY <1>1, NoClashThm, WritesPrefixThm, ReadsAllThm, PTL

=============================================================================
