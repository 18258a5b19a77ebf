----------------------------- MODULE RingProofs -----------------------------
(***************************************************************************)
(* The two ring buffers of the kernel are sequences, for every length and  *)
(* every content: the storage of a queue, and that of a stream buffer.     *)
(***************************************************************************)
EXTENDS QueueRing, StreamRing, TLAPS

(* A queue whose pointers agree: pcWriteTo is uxMessagesWaiting places after *)
(* the one behind pcReadFrom.                                                *)
Shape(x) ==
    x = [i \in DOMAIN x |-> x[i]] /\ {"len", "n", "r", "w", "buf"} \subseteq DOMAIN x

Agree(len, n, r, w) ==
    /\ len \in Nat \ {0} /\ n \in 0 .. len /\ r \in 0 .. len - 1
    /\ w = IF r + 1 + n < len THEN r + 1 + n
           ELSE IF r + 1 + n < 2 * len THEN r + 1 + n - len ELSE r + 1 + n - 2 * len

IsRing(x) == Shape(x) /\ Agree(x.len, x.n, x.r, x.w) /\ x.buf \in [Storage(x.len) -> Item]

(* The place of the i-th item. *)
At(len, r, i) == IF r + i >= len THEN r + i - len ELSE r + i

LEMMA AtType ==
    ASSUME NEW len \in Nat \ {0}, NEW r \in 0 .. len - 1, NEW i \in 1 .. len
    PROVE  At(len, r, i) \in 0 .. len - 1
BY DEF At

LEMMA AgreeBack ==
    ASSUME NEW len, NEW n, NEW r, NEW w, Agree(len, n, r, w), n < len
    PROVE  /\ Agree(len, n + 1, r, IF w + 1 >= len THEN 0 ELSE w + 1)
           /\ w \in 0 .. len - 1 /\ At(len, r, n + 1) = w
           /\ \A i \in 1 .. n : At(len, r, i) # w
BY DEF Agree, At

LEMMA AgreeFront ==
    ASSUME NEW len, NEW n, NEW r, NEW w, Agree(len, n, r, w), n < len
    PROVE  LET r2 == IF r - 1 < 0 THEN len - 1 ELSE r - 1
           IN  /\ Agree(len, n + 1, r2, w)
               /\ At(len, r2, 1) = r
               /\ \A i \in 1 .. n : At(len, r, i) # r /\ At(len, r2, i + 1) = At(len, r, i)
<1> DEFINE r2 == IF r - 1 < 0 THEN len - 1 ELSE r - 1
<1>1. CASE r = 0
  BY <1>1 DEF Agree, At
<1>2. CASE r > 0
  BY <1>2 DEF Agree, At
<1> QED BY <1>1, <1>2 DEF Agree

LEMMA AgreeRead ==
    ASSUME NEW len, NEW n, NEW r, NEW w, Agree(len, n, r, w), n > 0
    PROVE  LET r2 == IF r + 1 >= len THEN 0 ELSE r + 1
           IN  /\ Agree(len, n - 1, r2, w)
               /\ At(len, r, 1) = r2
               /\ \A i \in 1 .. n - 1 : At(len, r2, i) = At(len, r, i + 1)
<1>1. CASE r + 1 >= len
  BY <1>1 DEF Agree, At
<1>2. CASE r + 1 < len
  BY <1>2 DEF Agree, At
<1> QED BY <1>1, <1>2 DEF Agree

IsContents(s, x) ==
    /\ s \in Seq(Item) /\ Len(s) = x.n
    /\ \A i \in 1 .. x.n : s[i] = x.buf[At(x.len, x.r, i)] /\ At(x.len, x.r, i) \in Storage(x.len)

LEMMA ContentsType ==
    ASSUME NEW x, IsRing(x)
    PROVE  IsContents(Contents(x), x)
<1>1. x.n \in Nat /\ Contents(x) = [i \in 1 .. x.n |-> x.buf[At(x.len, x.r, i)]]
  BY DEF IsRing, Agree, Contents, At
<1>2. ASSUME NEW i \in 1 .. x.n PROVE At(x.len, x.r, i) \in Storage(x.len)
  <2>1. x.len \in Nat \ {0} /\ x.r \in 0 .. x.len - 1 /\ i \in 1 .. x.len
    BY DEF IsRing, Agree
  <2> QED BY <2>1, AtType DEF Storage
<1>3. \A i \in 1 .. x.n : x.buf[At(x.len, x.r, i)] \in Item
  BY <1>2 DEF IsRing
<1>4. Contents(x) \in [1 .. x.n -> Item]
  BY <1>1, <1>3
<1> QED BY <1>1, <1>2, <1>4 DEF IsContents

(* Two sequences of the same length with the same elements are the same. *)
LEMMA SameSeq ==
    ASSUME NEW S, NEW s \in Seq(S), NEW t \in Seq(S), Len(s) = Len(t),
           \A i \in 1 .. Len(s) : s[i] = t[i]
    PROVE  s = t
OBVIOUS

(* A send to the back (prvCopyDataToQueue) appends the item. *)
THEOREM CopyToBack ==
    ASSUME NEW x, IsRing(x), x.n < x.len, NEW item \in Item
    PROVE  /\ IsRing(CopyIn(x, item, "back"))
           /\ Contents(CopyIn(x, item, "back")) = Append(Contents(x), item)
<1> DEFINE y == CopyIn(x, item, "back")
<1>1. /\ y.len = x.len /\ y.n = x.n + 1 /\ y.r = x.r
      /\ y.w = IF x.w + 1 >= x.len THEN 0 ELSE x.w + 1
      /\ y.buf = [x.buf EXCEPT ![x.w] = item]
      /\ Shape(y)
  BY DEF CopyIn, IsRing, Shape
<1> HIDE DEF y
<1>2. /\ Agree(y.len, y.n, y.r, y.w)
      /\ x.w \in Storage(x.len) /\ At(x.len, x.r, x.n + 1) = x.w
      /\ \A i \in 1 .. x.n : At(x.len, x.r, i) # x.w
  BY <1>1, AgreeBack DEF IsRing, Storage
<1>3. x.n \in Nat /\ x.buf \in [Storage(x.len) -> Item]
  BY DEF IsRing, Agree
<1>4. IsRing(y)
  BY <1>1, <1>2, <1>3 DEF IsRing
<1>c. IsContents(Contents(x), x) /\ IsContents(Contents(y), y)
  BY <1>4, ContentsType
<1>5. ASSUME NEW i \in 1 .. x.n PROVE Contents(y)[i] = Contents(x)[i]
  <2>1. /\ Contents(x)[i] = x.buf[At(x.len, x.r, i)] /\ At(x.len, x.r, i) \in Storage(x.len)
        /\ i \in 1 .. y.n
    BY <1>1, <1>3, <1>c DEF IsContents
  <2>2. Contents(y)[i] = y.buf[At(x.len, x.r, i)]
    BY <1>1, <1>4, <2>1, <1>c DEF IsContents
  <2> QED BY <1>1, <1>2, <1>3, <2>1, <2>2
<1>6. Contents(y)[x.n + 1] = item
  BY <1>1, <1>2, <1>3, <1>4, <1>c DEF IsRing, IsContents
<1>7. /\ Contents(x) \in Seq(Item) /\ Len(Contents(x)) = x.n
      /\ Contents(y) \in Seq(Item) /\ Len(Contents(y)) = x.n + 1
  BY <1>1, <1>4, <1>c DEF IsContents
<1>8. Contents(y) = Append(Contents(x), item)
  BY <1>3, <1>5, <1>6, <1>7
<1> QED BY <1>4, <1>8 DEF y

(* A send to the front puts the item before the others. *)
THEOREM CopyToFront ==
    ASSUME NEW x, IsRing(x), x.n < x.len, NEW item \in Item
    PROVE  /\ IsRing(CopyIn(x, item, "front"))
           /\ Contents(CopyIn(x, item, "front")) = <<item>> \o Contents(x)
<1> DEFINE y == CopyIn(x, item, "front")
<1>1. /\ y.len = x.len /\ y.n = x.n + 1 /\ y.w = x.w
      /\ y.r = IF x.r - 1 < 0 THEN x.len - 1 ELSE x.r - 1
      /\ y.buf = [x.buf EXCEPT ![x.r] = item]
      /\ Shape(y)
  BY DEF CopyIn, IsRing, Shape
<1> HIDE DEF y
<1>2. /\ Agree(y.len, y.n, y.r, y.w)
      /\ At(y.len, y.r, 1) = x.r
      /\ \A i \in 1 .. x.n :
            At(x.len, x.r, i) # x.r /\ At(y.len, y.r, i + 1) = At(x.len, x.r, i)
  BY <1>1, AgreeFront DEF IsRing
<1>3. x.n \in Nat /\ x.r \in Storage(x.len) /\ x.buf \in [Storage(x.len) -> Item]
  BY DEF IsRing, Agree, Storage
<1>4. IsRing(y)
  BY <1>1, <1>2, <1>3 DEF IsRing
<1>c. IsContents(Contents(x), x) /\ IsContents(Contents(y), y)
  BY <1>4, ContentsType
<1>5. ASSUME NEW i \in 1 .. x.n PROVE Contents(y)[i + 1] = Contents(x)[i]
  <2>1. /\ Contents(x)[i] = x.buf[At(x.len, x.r, i)] /\ At(x.len, x.r, i) \in Storage(x.len)
        /\ i + 1 \in 1 .. y.n
    BY <1>1, <1>3, <1>c DEF IsContents
  <2>2. Contents(y)[i + 1] = y.buf[At(x.len, x.r, i)]
    BY <1>1, <1>2, <1>4, <2>1, <1>c DEF IsContents
  <2> QED BY <1>1, <1>2, <1>3, <2>1, <2>2
<1>6. Contents(y)[1] = item
  BY <1>1, <1>2, <1>3, <1>4, <1>c DEF IsRing, IsContents
<1>7. /\ Contents(x) \in Seq(Item) /\ Len(Contents(x)) = x.n
      /\ Contents(y) \in Seq(Item) /\ Len(Contents(y)) = x.n + 1
  BY <1>1, <1>4, <1>c DEF IsContents
<1>8. /\ (<<item>> \o Contents(x)) \in Seq(Item) /\ Len(<<item>> \o Contents(x)) = x.n + 1
      /\ (<<item>> \o Contents(x))[1] = item
      /\ \A i \in 1 .. x.n : (<<item>> \o Contents(x))[i + 1] = Contents(x)[i]
  BY <1>3, <1>7
<1>9. \A i \in 1 .. x.n + 1 : Contents(y)[i] = (<<item>> \o Contents(x))[i]
  <2> TAKE i \in 1 .. x.n + 1
  <2>1. i = 1 \/ (i - 1 \in 1 .. x.n /\ i = (i - 1) + 1)
    BY <1>3
  <2> QED BY <1>5, <1>6, <1>8, <2>1
<1>10. Contents(y) = <<item>> \o Contents(x)
  BY <1>7, <1>8, <1>9, SameSeq
<1> QED BY <1>4, <1>10 DEF y

(* xQueueOverwrite, on a queue of one item, leaves just the new one. *)
THEOREM Overwrite ==
    ASSUME NEW x, IsRing(x), x.len = 1, NEW item \in Item
    PROVE  /\ IsRing(CopyIn(x, item, "overwrite"))
           /\ Contents(CopyIn(x, item, "overwrite")) = <<item>>
<1> DEFINE y == CopyIn(x, item, "overwrite")
<1>1. /\ y.len = x.len /\ y.n = (IF x.n > 0 THEN x.n ELSE x.n + 1) /\ y.w = x.w
      /\ y.r = IF x.r - 1 < 0 THEN x.len - 1 ELSE x.r - 1
      /\ y.buf = [x.buf EXCEPT ![x.r] = item]
      /\ Shape(y)
  BY DEF CopyIn, IsRing, Shape
<1> HIDE DEF y
<1>2. /\ x.r = 0 /\ y.len = 1 /\ y.n = 1 /\ y.w = 0 /\ y.r = 0
      /\ 0 \in Storage(1) /\ x.buf \in [Storage(1) -> Item]
  BY <1>1 DEF Storage, IsRing, Agree
<1>3. IsRing(y)
  BY <1>1, <1>2 DEF IsRing, Agree
<1>4. Contents(y) \in Seq(Item) /\ Len(Contents(y)) = 1
  BY <1>2, <1>3, ContentsType DEF IsContents
<1>5. Contents(y)[1] = item
  BY <1>1, <1>2 DEF Contents
<1>6. Contents(y) = <<item>>
  BY <1>4, <1>5, SameSeq
<1> QED BY <1>3, <1>6 DEF y

(* A receive (prvCopyDataFromQueue, then one item less) takes the oldest. *)
THEOREM CopyOut ==
    ASSUME NEW x, IsRing(x), x.n > 0
    PROVE  LET y == [x EXCEPT !.r = NextRead(x), !.n = @ - 1]
           IN  /\ IsRing(y)
               /\ x.buf[NextRead(x)] = Head(Contents(x))
               /\ Contents(y) = Tail(Contents(x))
<1> DEFINE y == [x EXCEPT !.r = NextRead(x), !.n = @ - 1]
<1>1. /\ y.len = x.len /\ y.n = x.n - 1 /\ y.w = x.w /\ y.buf = x.buf
      /\ y.r = IF x.r + 1 >= x.len THEN 0 ELSE x.r + 1
      /\ Shape(y)
  BY DEF NextRead, IsRing, Shape
<1> HIDE DEF y
<1>2. /\ Agree(y.len, y.n, y.r, y.w)
      /\ At(x.len, x.r, 1) = NextRead(x)
      /\ \A i \in 1 .. x.n - 1 : At(y.len, y.r, i) = At(x.len, x.r, i + 1)
  BY <1>1, AgreeRead DEF IsRing, NextRead
<1>3. IsRing(y)
  BY <1>1, <1>2 DEF IsRing
<1>4. x.n \in Nat \ {0}
  BY DEF IsRing, Agree
<1>c. IsContents(Contents(x), x) /\ IsContents(Contents(y), y)
  BY <1>3, ContentsType
<1>5. /\ Tail(Contents(x)) \in Seq(Item) /\ Len(Tail(Contents(x))) = x.n - 1
      /\ \A i \in 1 .. x.n - 1 : Tail(Contents(x))[i] = Contents(x)[i + 1]
      /\ Head(Contents(x)) = Contents(x)[1]
  BY <1>4, <1>c DEF IsContents
<1>6. ASSUME NEW i \in 1 .. x.n - 1 PROVE Contents(y)[i] = Contents(x)[i + 1]
  <2>1. i + 1 \in 1 .. x.n
    BY <1>4
  <2> QED BY <1>1, <1>2, <1>3, <2>1, <1>c DEF IsContents
<1>7. Contents(y) = Tail(Contents(x))
  BY <1>1, <1>3, <1>5, <1>6, <1>c, SameSeq DEF IsContents
<1>8. x.buf[NextRead(x)] = Head(Contents(x))
  BY <1>2, <1>4, <1>5, <1>c DEF IsContents
<1> QED BY <1>3, <1>7, <1>8 DEF y

(* xQueueGenericReset empties it. *)
THEOREM ResetEmpties ==
    ASSUME NEW x, IsRing(x)
    PROVE  IsRing(EmptyRing(x)) /\ Contents(EmptyRing(x)) = << >>
<1> DEFINE y == EmptyRing(x)
<1>1. /\ y.len = x.len /\ y.n = 0 /\ y.w = 0 /\ y.r = x.len - 1 /\ y.buf = x.buf
      /\ Shape(y)
  BY DEF EmptyRing, IsRing, Shape
<1> HIDE DEF y
<1>2. IsRing(y)
  BY <1>1 DEF IsRing, Agree
<1>3. Contents(y) = << >>
  BY <1>1, <1>2, ContentsType DEF IsContents
<1> QED BY <1>2, <1>3 DEF y

-----------------------------------------------------------------------------
(* A stream buffer whose offsets are in the ring. *)
IsStream(b) ==
    /\ b = [i \in DOMAIN b |-> b[i]] /\ {"head", "tail", "buf"} \subseteq DOMAIN b
    /\ b.head \in Offsets /\ b.tail \in Offsets /\ DOMAIN b.buf = Offsets

(* The number of bytes from tail t to head h, and from the head to place i. *)
Count(h, t) == IF h >= t THEN h - t ELSE h - t + XLENGTH

Distance(h, i) == IF i >= h THEN i - h ELSE i - h + XLENGTH

LEMMA CountType ==
    ASSUME NEW h \in Offsets, NEW t \in Offsets
    PROVE  /\ Wrap(XLENGTH + h - t) = Count(h, t)
           /\ Count(h, t) \in 0 .. XLENGTH - 1
           /\ Wrap(XLENGTH + t - h - 1) = XLENGTH - 1 - Count(h, t)
           /\ \A i \in 1 .. Count(h, t) : Wrap(t + i - 1) \in Offsets
BY RingAssumption DEF Wrap, Offsets, Count

(* Where the k bytes of a write that fits end up. *)
WritePlaces(h, t, k) ==
    /\ Wrap(h + k) \in Offsets
    /\ Count(Wrap(h + k), t) = Count(h, t) + k
    /\ \A i \in 1 .. Count(h, t) :
          /\ i \in 1 .. Count(h, t) + k
          /\ ~(Distance(h, Wrap(t + i - 1)) < k)
    /\ \A i \in 1 .. k :
          /\ Count(h, t) + i \in 1 .. Count(h, t) + k
          /\ Distance(h, Wrap(t + (Count(h, t) + i) - 1)) < k
          /\ Distance(h, Wrap(t + (Count(h, t) + i) - 1)) + 1 = i

LEMMA WriteNumbers ==
    ASSUME NEW h \in Offsets, NEW t \in Offsets, NEW k \in 0 .. XLENGTH - 1 - Count(h, t)
    PROVE  WritePlaces(h, t, k)
BY RingAssumption DEF WritePlaces, Wrap, Offsets, Count, Distance

LEMMA ReadNumbers ==
    ASSUME NEW h \in Offsets, NEW t \in Offsets, NEW k \in 0 .. Count(h, t)
    PROVE  /\ Wrap(t + k) \in Offsets
           /\ Count(h, Wrap(t + k)) = Count(h, t) - k
           /\ \A i \in 1 .. k : i \in 1 .. Count(h, t)
           /\ \A i \in 1 .. Count(h, t) - k :
                 /\ k + i \in 1 .. Count(h, t)
                 /\ Wrap(Wrap(t + k) + i - 1) = Wrap(t + (k + i) - 1)
BY RingAssumption DEF Wrap, Offsets, Count

(* prvBytesInBuffer and xStreamBufferSpacesAvailable always add up to the    *)
(* capacity, which is one less than the ring.                                *)
THEOREM BytesAndSpaces ==
    ASSUME NEW b, IsStream(b)
    PROVE  /\ prvBytesInBuffer(b) \in 0 .. XLENGTH - 1
           /\ prvBytesInBuffer(b) + xStreamBufferSpacesAvailable(b) = XLENGTH - 1
<1>1. /\ prvBytesInBuffer(b) = Count(b.head, b.tail)
      /\ Count(b.head, b.tail) \in 0 .. XLENGTH - 1
      /\ xStreamBufferSpacesAvailable(b) = XLENGTH - 1 - Count(b.head, b.tail)
  BY CountType DEF IsStream, prvBytesInBuffer, xStreamBufferSpacesAvailable
<1> QED BY <1>1, RingAssumption

LEMMA BytesAt ==
    ASSUME NEW b, IsStream(b)
    PROVE  /\ prvBytesInBuffer(b) = Count(b.head, b.tail)
           /\ \A i \in 1 .. Count(b.head, b.tail) :
                 /\ Bytes(b)[i] = b.buf[Wrap(b.tail + i - 1)]
                 /\ Wrap(b.tail + i - 1) \in Offsets
<1>1. /\ prvBytesInBuffer(b) = Count(b.head, b.tail)
      /\ \A i \in 1 .. Count(b.head, b.tail) : Wrap(b.tail + i - 1) \in Offsets
  BY CountType DEF IsStream, prvBytesInBuffer
<1>2. Bytes(b) = [i \in 1 .. Count(b.head, b.tail) |-> b.buf[Wrap(b.tail + i - 1)]]
  BY <1>1 DEF Bytes, BytesRead
<1> QED BY <1>1, <1>2

(* A write that fits (prvWriteBytesToBuffer) appends its bytes to those in   *)
(* the buffer, whether or not it goes past the end of the ring.              *)
THEOREM WriteAppends ==
    ASSUME NEW b, IsStream(b), NEW S, NEW data \in Seq(S),
           Len(data) <= xStreamBufferSpacesAvailable(b)
    PROVE  LET w == prvWriteBytesToBuffer(b, data)
           IN  /\ IsStream(w)
               /\ prvBytesInBuffer(w) = prvBytesInBuffer(b) + Len(data)
               /\ \A i \in 1 .. prvBytesInBuffer(b) : Bytes(w)[i] = Bytes(b)[i]
               /\ \A i \in 1 .. Len(data) : Bytes(w)[prvBytesInBuffer(b) + i] = data[i]
<1> DEFINE w == prvWriteBytesToBuffer(b, data)
           n == Count(b.head, b.tail)
           k == Len(data)
<1>1. /\ w.tail = b.tail /\ w.head = Wrap(b.head + k)
      /\ w.buf = [i \in Offsets |-> IF Distance(b.head, i) < k
                                    THEN data[Distance(b.head, i) + 1] ELSE b.buf[i]]
      /\ w = [i \in DOMAIN w |-> w[i]] /\ DOMAIN w = DOMAIN b
  BY DEF IsStream, prvWriteBytesToBuffer, Distance
<1> HIDE DEF w
<1>2. /\ b.head \in Offsets /\ b.tail \in Offsets
      /\ n \in 0 .. XLENGTH - 1 /\ xStreamBufferSpacesAvailable(b) = XLENGTH - 1 - n
      /\ k \in Nat
  BY CountType DEF IsStream, xStreamBufferSpacesAvailable
<1>3. k \in 0 .. XLENGTH - 1 - n
  BY <1>2, RingAssumption
<1> HIDE DEF n, k
<1>4. /\ Wrap(b.head + k) \in Offsets
      /\ Count(Wrap(b.head + k), b.tail) = n + k
      /\ \A i \in 1 .. n : /\ i \in 1 .. n + k
                            /\ ~(Distance(b.head, Wrap(b.tail + i - 1)) < k)
      /\ \A i \in 1 .. k : /\ n + i \in 1 .. n + k
                            /\ Distance(b.head, Wrap(b.tail + (n + i) - 1)) < k
                            /\ Distance(b.head, Wrap(b.tail + (n + i) - 1)) + 1 = i
  <2>1. WritePlaces(b.head, b.tail, k)
    BY <1>2, <1>3, WriteNumbers DEF n
  <2> QED BY <2>1 DEF WritePlaces, n
<1>5. IsStream(w)
  BY <1>1, <1>2, <1>4 DEF IsStream
<1>6. /\ prvBytesInBuffer(b) = n
      /\ \A i \in 1 .. n : Bytes(b)[i] = b.buf[Wrap(b.tail + i - 1)]
  BY BytesAt DEF n
<1>7. /\ prvBytesInBuffer(w) = n + k
      /\ \A i \in 1 .. n + k : /\ Bytes(w)[i] = w.buf[Wrap(b.tail + i - 1)]
                                /\ Wrap(b.tail + i - 1) \in Offsets
  BY <1>1, <1>4, <1>5, BytesAt
<1>8. ASSUME NEW i \in 1 .. n PROVE Bytes(w)[i] = Bytes(b)[i]
  <2> DEFINE p == Wrap(b.tail + i - 1)
  <2>1. ~(Distance(b.head, p) < k) /\ p \in Offsets /\ Bytes(w)[i] = w.buf[p]
    BY <1>4, <1>7
  <2>2. Bytes(b)[i] = b.buf[p]
    BY <1>6
  <2> HIDE DEF p
  <2> QED BY <1>1, <2>1, <2>2
<1>9. ASSUME NEW i \in 1 .. k PROVE Bytes(w)[n + i] = data[i]
  <2> DEFINE p == Wrap(b.tail + (n + i) - 1)
  <2>1. n + i \in 1 .. n + k /\ Distance(b.head, p) < k /\ Distance(b.head, p) + 1 = i
    BY <1>4
  <2>2. p \in Offsets /\ Bytes(w)[n + i] = w.buf[p]
    BY <1>7, <2>1
  <2> HIDE DEF p
  <2> QED BY <1>1, <2>1, <2>2
<1> QED BY <1>5, <1>6, <1>7, <1>8, <1>9 DEF w, k

(* A read of k of the bytes (prvReadBytesFromBuffer) returns the first k and *)
(* leaves the others, in order.                                              *)
THEOREM ReadTakesFirst ==
    ASSUME NEW b, IsStream(b), NEW k \in 0 .. prvBytesInBuffer(b)
    PROVE  /\ IsStream(Skip(b, k))
           /\ prvBytesInBuffer(Skip(b, k)) = prvBytesInBuffer(b) - k
           /\ \A i \in 1 .. k : BytesRead(b, k)[i] = Bytes(b)[i]
           /\ \A i \in 1 .. prvBytesInBuffer(b) - k : Bytes(Skip(b, k))[i] = Bytes(b)[k + i]
<1> DEFINE w == Skip(b, k)
           n == Count(b.head, b.tail)
<1>1. /\ w.head = b.head /\ w.tail = Wrap(b.tail + k) /\ w.buf = b.buf
      /\ w = [i \in DOMAIN w |-> w[i]] /\ DOMAIN w = DOMAIN b
  BY DEF IsStream, Skip
<1> HIDE DEF w
<1>2. /\ b.head \in Offsets /\ b.tail \in Offsets
      /\ prvBytesInBuffer(b) = n
      /\ \A i \in 1 .. n : Bytes(b)[i] = b.buf[Wrap(b.tail + i - 1)]
  BY BytesAt DEF IsStream
<1> HIDE DEF n
<1>3. /\ Wrap(b.tail + k) \in Offsets
      /\ Count(b.head, Wrap(b.tail + k)) = n - k
      /\ \A i \in 1 .. k : i \in 1 .. n
      /\ \A i \in 1 .. n - k :
            /\ k + i \in 1 .. n
            /\ Wrap(Wrap(b.tail + k) + i - 1) = Wrap(b.tail + (k + i) - 1)
  BY <1>2, ReadNumbers DEF n
<1>4. IsStream(w)
  BY <1>1, <1>2, <1>3 DEF IsStream
<1>5. /\ prvBytesInBuffer(w) = n - k
      /\ \A i \in 1 .. n - k : Bytes(w)[i] = b.buf[Wrap(Wrap(b.tail + k) + i - 1)]
  BY <1>1, <1>3, <1>4, BytesAt
<1>6. ASSUME NEW i \in 1 .. k PROVE BytesRead(b, k)[i] = Bytes(b)[i]
  BY <1>2, <1>3 DEF BytesRead
<1>7. ASSUME NEW i \in 1 .. n - k PROVE Bytes(w)[i] = Bytes(b)[k + i]
  BY <1>2, <1>3, <1>5
<1> QED BY <1>2, <1>4, <1>5, <1>6, <1>7 DEF w

=============================================================================
