---------------------------- MODULE RecvStreamProofs ----------------------------
(***************************************************************************)
(* The receiving side of a session gives OnRecv the packets that were      *)
(* sent, for a ring of any size, headers and payloads of any length and    *)
(* any number of packets and connections: the bytes in the ring, in a      *)
(* completion and on their way are the rest of the stream, and the kernel  *)
(* gets every free cell once.                                              *)
(***************************************************************************)
EXTENDS RecvStream, SequenceLemmas

----------------------------------------------------------------------------
(* The ring.                                                                *)

LEMMA SizeOfBuffer == BufferSize \in Nat /\ BufferSize >= 2
BY BufferSizeAssumption

\* x % b, where x is not far from 0 .. b - 1.
LEMMA ModNear ==
  ASSUME NEW b \in Nat \ {0}, NEW x \in Int
  PROVE  /\ 0 <= x /\ x < b => x % b = x
         /\ b <= x /\ x < 2 * b => x % b = x - b
         /\ 2 * b <= x /\ x < 3 * b => x % b = x - 2 * b
         /\ -b <= x /\ x < 0 => x % b = x + b
OBVIOUS

LEMMA WrapNear ==
  ASSUME NEW x \in Int
  PROVE  /\ 0 <= x /\ x < BufferSize => Wrap(x) = x
         /\ BufferSize <= x /\ x < 2 * BufferSize => Wrap(x) = x - BufferSize
         /\ 2 * BufferSize <= x /\ x < 3 * BufferSize => Wrap(x) = x - 2 * BufferSize
         /\ -BufferSize <= x /\ x < 0 => Wrap(x) = x + BufferSize
<1>1. BufferSize \in Nat \ {0} BY SizeOfBuffer
<1> QED BY <1>1, ModNear DEF Wrap

\* Where a ring stands.
Rings == [cells : [Cells -> Bytes \cup {NoByte}], headPtr : Cells, tailPtr : Cells]

Count(rb) == IF rb.tailPtr >= rb.headPtr THEN rb.tailPtr - rb.headPtr
             ELSE rb.tailPtr - rb.headPtr + BufferSize

LEMMA RingSizes ==
  ASSUME NEW rb \in Rings
  PROVE  /\ size(rb) = Count(rb) /\ freeSize(rb) = MaxSize - Count(rb)
         /\ Count(rb) \in Nat /\ Count(rb) <= MaxSize /\ MaxSize \in Nat
         /\ rb.headPtr \in Nat /\ rb.headPtr < BufferSize
         /\ rb.tailPtr \in Nat /\ rb.tailPtr < BufferSize
<1> DEFINE h == rb.headPtr
           t == rb.tailPtr
<1>1. /\ h \in Nat /\ h < BufferSize /\ t \in Nat /\ t < BufferSize
      /\ BufferSize \in Nat /\ BufferSize >= 2
  BY SizeOfBuffer DEF Rings, Cells
<1>2. size(rb) = Wrap(t - h + BufferSize) BY DEF size
<1>3. freeSize(rb) = Wrap(BufferSize - 1 - (t - h + BufferSize)) BY DEF freeSize, MaxSize
<1> HIDE DEF h, t
<1>4. Wrap(t - h + BufferSize) = IF t >= h THEN t - h ELSE t - h + BufferSize
  <2> DEFINE x == t - h + BufferSize
  <2>1. x \in Int /\ x - BufferSize = t - h BY <1>1
  <2> HIDE DEF x
  <2>2. CASE t >= h
    <3>1. BufferSize <= x /\ x < 2 * BufferSize BY <1>1, <2>1, <2>2
    <3>2. Wrap(x) = x - BufferSize BY <2>1, <3>1, WrapNear
    <3> QED BY <1>1, <2>1, <2>2, <3>2 DEF x
  <2>3. CASE ~(t >= h)
    <3>1. 0 <= x /\ x < BufferSize BY <1>1, <2>1, <2>3
    <3>2. Wrap(x) = x BY <2>1, <3>1, WrapNear
    <3> QED BY <1>1, <2>1, <2>3, <3>2 DEF x
  <2> QED BY <2>2, <2>3 DEF x
<1>5. Wrap(BufferSize - 1 - (t - h + BufferSize)) =
        IF t >= h THEN BufferSize - 1 - (t - h) ELSE BufferSize - 1 - (t - h + BufferSize)
  <2> DEFINE x == BufferSize - 1 - (t - h + BufferSize)
  <2>1. x \in Int /\ x = h - t - 1 BY <1>1
  <2> HIDE DEF x
  <2>2. CASE t >= h
    <3>1. -BufferSize <= x /\ x < 0 BY <1>1, <2>1, <2>2
    <3>2. Wrap(x) = x + BufferSize BY <2>1, <3>1, WrapNear
    <3> QED BY <1>1, <2>1, <2>2, <3>2 DEF x
  <2>3. CASE ~(t >= h)
    <3>1. 0 <= x /\ x < BufferSize BY <1>1, <2>1, <2>3
    <3>2. Wrap(x) = x BY <2>1, <3>1, WrapNear
    <3> QED BY <1>1, <2>1, <2>3, <3>2 DEF x
  <2> QED BY <2>2, <2>3 DEF x
<1> DEFINE n == Count(rb)
<1>6. n = IF t >= h THEN t - h ELSE t - h + BufferSize BY DEF Count, h, t
<1> HIDE DEF n
<1>7. size(rb) = n BY <1>2, <1>4, <1>6
<1>8. n \in Nat /\ n <= BufferSize - 1 /\ BufferSize - 1 \in Nat BY <1>1, <1>6
<1>9. freeSize(rb) = BufferSize - 1 - n BY <1>1, <1>3, <1>5, <1>6
<1> QED BY <1>1, <1>7, <1>8, <1>9 DEF n, h, t, MaxSize

\* A cell so many places behind another.
LEMMA WrapSum ==
  ASSUME NEW a \in Nat, a < BufferSize, NEW i \in Nat, i <= BufferSize
  PROVE  /\ Wrap(a + i) = IF a + i < BufferSize THEN a + i ELSE a + i - BufferSize
         /\ Wrap(a + i) \in Cells
<1> DEFINE x == a + i
<1>1. BufferSize \in Nat BY SizeOfBuffer
<1>2. x \in Int /\ 0 <= x /\ x < 2 * BufferSize /\ x = a + i BY <1>1
<1> HIDE DEF x
<1>3. CASE x < BufferSize
  <2>1. Wrap(x) = x BY <1>2, <1>3, WrapNear
  <2> QED BY <1>1, <1>2, <1>3, <2>1 DEF Cells
<1>4. CASE ~(x < BufferSize)
  <2>1. BufferSize <= x BY <1>1, <1>2, <1>4
  <2>2. Wrap(x) = x - BufferSize BY <1>2, <2>1, WrapNear
  <2> QED BY <1>1, <1>2, <1>4, <2>2 DEF Cells
<1> QED BY <1>3, <1>4

\* recvIO posts the cells behind tailPtr, as many as are free.
LEMMA FreeCellsAre ==
  ASSUME NEW rb \in Rings
  PROVE  /\ FreeCells(rb) \in Seq(Cells) /\ Len(FreeCells(rb)) = MaxSize - Count(rb)
         /\ \A i \in 1 .. MaxSize - Count(rb) : FreeCells(rb)[i] = Wrap(rb.tailPtr + i)
<1> DEFINE h == rb.headPtr
           t == rb.tailPtr
           n == Count(rb)
           d == DirectEnqueueSize(rb)
           a == tail(rb)
           m == MaxSize - n
<1>1. /\ h \in Nat /\ h < BufferSize /\ t \in Nat /\ t < BufferSize
      /\ BufferSize \in Nat /\ BufferSize >= 2
      /\ freeSize(rb) = m /\ MaxSize = BufferSize - 1
      /\ n \in Nat /\ n <= BufferSize - 1 /\ m = BufferSize - 1 - n /\ m \in Nat
  BY SizeOfBuffer, RingSizes DEF MaxSize
<1>2. n = IF t >= h THEN t - h ELSE t - h + BufferSize BY DEF Count
<1>3. d = IF a <= h THEN h - a ELSE BufferSize - a BY DEF DirectEnqueueSize
<1>4. a = Wrap(t + 1) BY DEF tail
<1>5. FreeCells(rb) = [i \in 1 .. d + (m - d) |-> IF i <= d THEN a + i - 1 ELSE i - d - 1]
  BY <1>1 DEF FreeCells
<1> HIDE DEF h, t, n, d, a, m
<1>6. a = IF t + 1 < BufferSize THEN t + 1 ELSE 0
  <2>1. 1 \in Nat /\ 1 <= BufferSize BY <1>1
  <2>2. Wrap(t + 1) = IF t + 1 < BufferSize THEN t + 1 ELSE t + 1 - BufferSize
    BY <1>1, <2>1, WrapSum
  <2> QED BY <1>1, <1>4, <2>2
<1>7. d \in Nat /\ d + (m - d) = m BY <1>1, <1>3, <1>6
<1>8. ASSUME NEW i \in 1 .. m
      PROVE  /\ Wrap(t + i) = IF i <= d THEN a + i - 1 ELSE i - d - 1
             /\ Wrap(t + i) \in Cells
  <2>1. i \in Nat /\ i <= BufferSize /\ 1 <= i /\ i <= m BY <1>1
  <2>2. /\ Wrap(t + i) = IF t + i < BufferSize THEN t + i ELSE t + i - BufferSize
        /\ Wrap(t + i) \in Cells
    BY <1>1, <2>1, WrapSum
  <2> QED BY <1>1, <1>2, <1>3, <1>6, <2>1, <2>2
<1>9. FreeCells(rb) = [i \in 1 .. m |-> Wrap(t + i)] BY <1>5, <1>7, <1>8
<1>10. FreeCells(rb) \in [1 .. m -> Cells] BY <1>8, <1>9
<1>11. ASSUME NEW k \in Nat, NEW f \in [1 .. k -> Cells] PROVE f \in Seq(Cells) /\ Len(f) = k OBVIOUS
<1>12. FreeCells(rb) \in Seq(Cells) /\ Len(FreeCells(rb)) = m BY <1>1, <1>10, <1>11
<1> QED BY <1>9, <1>12 DEF m, n, t

Byte0 == Bytes \cup {NoByte}

\* front reads the cells behind headPtr.
LEMMA FrontIs ==
  ASSUME NEW rb \in Rings, NEW m \in Nat, m <= Count(rb)
  PROVE  /\ front(rb, m) \in Seq(Byte0) /\ Len(front(rb, m)) = m
         /\ \A i \in 1 .. m : /\ front(rb, m)[i] = rb.cells[Wrap(rb.headPtr + i)]
                              /\ Wrap(rb.headPtr + i) \in Cells
<1> DEFINE h == rb.headPtr
           t == rb.tailPtr
           n == Count(rb)
           d == DirectDequeueSize(rb)
           a == head(rb)
           b == tail(rb)
<1>1. /\ h \in Nat /\ h < BufferSize /\ t \in Nat /\ t < BufferSize
      /\ BufferSize \in Nat /\ BufferSize >= 2
      /\ size(rb) = n /\ n \in Nat /\ n <= BufferSize - 1 /\ m <= n
  BY SizeOfBuffer, RingSizes DEF MaxSize
<1>2. n = IF t >= h THEN t - h ELSE t - h + BufferSize BY DEF Count
<1>3. d = IF a <= b THEN b - a ELSE BufferSize - a BY DEF DirectDequeueSize
<1>4. a = Wrap(h + 1) /\ b = Wrap(t + 1) BY DEF head, tail
<1>5. front(rb, m) =
        [i \in 1 .. Min2(m, size(rb)) |-> rb.cells[IF i <= d THEN a + i - 1 ELSE i - d - 1]]
  BY DEF front
<1>c. rb.cells \in [Cells -> Byte0] BY DEF Rings, Byte0
<1> HIDE DEF h, t, n, d, a, b
<1>6. /\ a = IF h + 1 < BufferSize THEN h + 1 ELSE 0
      /\ b = IF t + 1 < BufferSize THEN t + 1 ELSE 0
  <2>1. 1 \in Nat /\ 1 <= BufferSize BY <1>1
  <2>2. Wrap(t + 1) = IF t + 1 < BufferSize THEN t + 1 ELSE t + 1 - BufferSize
    BY <1>1, <2>1, WrapSum
  <2>3. Wrap(h + 1) = IF h + 1 < BufferSize THEN h + 1 ELSE h + 1 - BufferSize
    BY <1>1, <2>1, WrapSum
  <2> QED BY <1>1, <1>4, <2>2, <2>3
<1>7. Min2(m, size(rb)) = m BY <1>1 DEF Min2
<1>8. ASSUME NEW i \in 1 .. m
      PROVE  /\ Wrap(h + i) = IF i <= d THEN a + i - 1 ELSE i - d - 1
             /\ Wrap(h + i) \in Cells
  <2>1. i \in Nat /\ i <= BufferSize /\ 1 <= i /\ i <= n BY <1>1
  <2>2. /\ Wrap(h + i) = IF h + i < BufferSize THEN h + i ELSE h + i - BufferSize
        /\ Wrap(h + i) \in Cells
    BY <1>1, <2>1, WrapSum
  <2> QED BY <1>1, <1>2, <1>3, <1>6, <2>1, <2>2
<1>9. front(rb, m) = [i \in 1 .. m |-> rb.cells[Wrap(h + i)]] BY <1>5, <1>7, <1>8
<1>10. front(rb, m) \in [1 .. m -> Byte0] BY <1>8, <1>9, <1>c
<1>11. ASSUME NEW k \in Nat, NEW f \in [1 .. k -> Byte0] PROVE f \in Seq(Byte0) /\ Len(f) = k OBVIOUS
<1>12. front(rb, m) \in Seq(Byte0) /\ Len(front(rb, m)) = m BY <1>10, <1>11
<1> QED BY <1>8, <1>9, <1>12 DEF h

\* No free cell is there twice, and none holds an unread byte.
LEMMA FreeIsFree ==
  ASSUME NEW rb \in Rings, NEW i \in 1 .. MaxSize - Count(rb)
  PROVE  /\ Wrap(rb.tailPtr + i) \in Cells
         /\ \A j \in 1 .. MaxSize - Count(rb) :
               Wrap(rb.tailPtr + i) = Wrap(rb.tailPtr + j) => i = j
         /\ \A k \in 1 .. Count(rb) : Wrap(rb.tailPtr + i) # Wrap(rb.headPtr + k)
<1> DEFINE h == rb.headPtr
           t == rb.tailPtr
           n == Count(rb)
           m == MaxSize - n
<1>1. /\ h \in Nat /\ h < BufferSize /\ t \in Nat /\ t < BufferSize
      /\ BufferSize \in Nat /\ BufferSize >= 2
      /\ n \in Nat /\ n <= BufferSize - 1 /\ m = BufferSize - 1 - n /\ m \in Nat
  BY SizeOfBuffer, RingSizes DEF MaxSize
<1>2. n = IF t >= h THEN t - h ELSE t - h + BufferSize BY DEF Count
<1> HIDE DEF h, t, n, m
<1>3. ASSUME NEW j \in 1 .. m
      PROVE  /\ Wrap(t + j) = IF t + j < BufferSize THEN t + j ELSE t + j - BufferSize
             /\ Wrap(t + j) \in Cells
  <2>1. j \in Nat /\ j <= BufferSize BY <1>1
  <2> QED BY <1>1, <2>1, WrapSum
<1>4. ASSUME NEW k \in 1 .. n
      PROVE  Wrap(h + k) = IF h + k < BufferSize THEN h + k ELSE h + k - BufferSize
  <2>1. k \in Nat /\ k <= BufferSize BY <1>1
  <2> QED BY <1>1, <2>1, WrapSum
<1>5. i \in 1 .. m BY DEF m, n
<1>6. ASSUME NEW j \in 1 .. m, Wrap(t + i) = Wrap(t + j) PROVE i = j
  BY <1>1, <1>3, <1>5, <1>6
<1>7. ASSUME NEW k \in 1 .. n PROVE Wrap(t + i) # Wrap(h + k)
  BY <1>1, <1>2, <1>3, <1>4, <1>5
<1>8. Wrap(t + i) \in Cells BY <1>3, <1>5
<1> QED BY <1>6, <1>7, <1>8 DEF h, t, n, m

\* The unread bytes.
Read(rb) == front(rb, size(rb))

LEMMA ReadIs ==
  ASSUME NEW rb \in Rings
  PROVE  /\ Read(rb) \in Seq(Byte0) /\ Len(Read(rb)) = Count(rb)
         /\ \A i \in 1 .. Count(rb) : /\ Read(rb)[i] = rb.cells[Wrap(rb.headPtr + i)]
                                      /\ Wrap(rb.headPtr + i) \in Cells
<1> DEFINE n == Count(rb)
<1>1. size(rb) = n /\ n \in Nat /\ n <= n BY RingSizes
<1>2. Read(rb) = front(rb, n) BY <1>1 DEF Read
<1> HIDE DEF n
<1>3. /\ front(rb, n) \in Seq(Byte0) /\ Len(front(rb, n)) = n
      /\ \A i \in 1 .. n : /\ front(rb, n)[i] = rb.cells[Wrap(rb.headPtr + i)]
                           /\ Wrap(rb.headPtr + i) \in Cells
  BY <1>1, FrontIs DEF n
<1> QED BY <1>2, <1>3 DEF n

\* What is in front begins the unread bytes.
LEMMA FrontBegins ==
  ASSUME NEW rb \in Rings, NEW m \in Nat, m <= Count(rb)
  PROVE  \A i \in 1 .. m : front(rb, m)[i] = Read(rb)[i]
<1>1. Count(rb) \in Nat BY RingSizes
<1>2. \A i \in 1 .. m : front(rb, m)[i] = rb.cells[Wrap(rb.headPtr + i)] BY FrontIs
<1>3. \A i \in 1 .. Count(rb) : Read(rb)[i] = rb.cells[Wrap(rb.headPtr + i)] BY ReadIs
<1>4. \A i \in 1 .. m : i \in 1 .. Count(rb) BY <1>1
<1> QED BY <1>2, <1>3, <1>4

\* MoveRear adds the bytes in the first free cells to the unread ones.
LEMMA MoveRearReads ==
  ASSUME NEW rb \in Rings, NEW n \in Nat, n <= MaxSize - Count(rb), NEW w \in Seq(Byte0),
         Len(w) = n, \A i \in 1 .. n : w[i] = rb.cells[FreeCells(rb)[i]]
  PROVE  /\ MoveRear(rb, n) \in Rings
         /\ Read(MoveRear(rb, n)) = Read(rb) \o w
<1> DEFINE h == rb.headPtr
           t == rb.tailPtr
           c == Count(rb)
           q == MoveRear(rb, n)
           u == Wrap(t + n)
<1>1. /\ h \in Nat /\ h < BufferSize /\ t \in Nat /\ t < BufferSize
      /\ BufferSize \in Nat /\ BufferSize >= 2
      /\ freeSize(rb) = MaxSize - c /\ MaxSize = BufferSize - 1
      /\ c \in Nat /\ c <= BufferSize - 1 /\ n <= BufferSize - 1 - c
  BY SizeOfBuffer, RingSizes DEF MaxSize
<1>2. c = IF t >= h THEN t - h ELSE t - h + BufferSize BY DEF Count
<1>3. q = [rb EXCEPT !.tailPtr = u]
  <2>1. Min2(n, freeSize(rb)) = n BY <1>1 DEF Min2
  <2> QED BY <2>1 DEF MoveRear
<1>4. u = (IF t + n < BufferSize THEN t + n ELSE t + n - BufferSize) /\ u \in Cells
  <2>1. n <= BufferSize BY <1>1
  <2> HIDE DEF t
  <2> QED BY <1>1, <2>1, WrapSum
<1>5. /\ q \in Rings /\ q.cells = rb.cells /\ q.headPtr = h /\ q.tailPtr = u
  BY <1>3, <1>4 DEF Rings
<1>6. Count(q) = c + n
  <2>1. Count(q) = IF u >= h THEN u - h ELSE u - h + BufferSize BY <1>5 DEF Count
  <2> HIDE DEF h, t, c, q, u
  <2> QED BY <1>1, <1>2, <1>4, <2>1
<1>7. ASSUME NEW i \in 1 .. n
      PROVE  w[i] = rb.cells[Wrap(h + (c + i))]
  <2>1. i \in 1 .. MaxSize - c BY <1>1
  <2>2. FreeCells(rb)[i] = Wrap(t + i) BY <2>1, FreeCellsAre
  <2> HIDE DEF h, t, c
  <2>3. i \in Nat /\ i <= BufferSize /\ c + i \in Nat /\ c + i <= BufferSize /\ 1 <= i BY <1>1
  <2>4. Wrap(t + i) = IF t + i < BufferSize THEN t + i ELSE t + i - BufferSize
    BY <1>1, <2>3, WrapSum
  <2>5. Wrap(h + (c + i)) =
          IF h + (c + i) < BufferSize THEN h + (c + i) ELSE h + (c + i) - BufferSize
    BY <1>1, <2>3, WrapSum
  <2>6. Wrap(t + i) = Wrap(h + (c + i)) BY <1>1, <1>2, <2>1, <2>3, <2>4, <2>5
  <2> QED BY <2>2, <2>6
<1> DEFINE a == Read(rb)
           b == Read(q)
<1>8. /\ a \in Seq(Byte0) /\ Len(a) = c
      /\ \A i \in 1 .. c : a[i] = rb.cells[Wrap(h + i)]
  BY ReadIs
<1>9. /\ b \in Seq(Byte0) /\ Len(b) = c + n
      /\ \A i \in 1 .. c + n : b[i] = rb.cells[Wrap(h + i)]
  <2> HIDE DEF q, b, h, c, u
  <2>1. b \in Seq(Byte0) /\ Len(b) = Count(q)
        /\ \A i \in 1 .. Count(q) : b[i] = q.cells[Wrap(q.headPtr + i)]
    BY <1>5, ReadIs DEF b
  <2> QED BY <1>5, <1>6, <2>1
<1> HIDE DEF a, b, h, c, q, t, u
<1>10. /\ a \o w \in Seq(Byte0) /\ Len(a \o w) = c + n
       /\ \A i \in 1 .. c + n : (a \o w)[i] = IF i <= c THEN a[i] ELSE w[i - c]
  BY <1>8, ConcatProperties, ZenonT(60)
<1>11. ASSUME NEW i \in 1 .. c + n PROVE b[i] = (a \o w)[i]
  <2>1. b[i] = rb.cells[Wrap(h + i)] BY <1>9
  <2>2. CASE i <= c
    <3>1. i \in 1 .. c BY <1>1, <2>2
    <3> QED BY <1>8, <1>10, <2>1, <2>2, <3>1
  <2>3. CASE ~(i <= c)
    <3>1. i - c \in 1 .. n /\ c + (i - c) = i BY <1>1, <2>3
    <3>2. w[i - c] = rb.cells[Wrap(h + i)]
      <4> DEFINE j == i - c
      <4>1. j \in 1 .. n /\ c + j = i BY <3>1
      <4> HIDE DEF j
      <4>2. w[j] = rb.cells[Wrap(h + (c + j))] BY <1>7, <4>1
      <4> QED BY <4>1, <4>2 DEF j
    <3> QED BY <1>10, <2>1, <2>3, <3>2
  <2> QED BY <2>2, <2>3
<1>12. b = a \o w BY <1>9, <1>10, <1>11, SeqEqual
<1> QED BY <1>5, <1>12 DEF a, b, q

\* pop leaves the unread bytes behind those that front read.
LEMMA PopReads ==
  ASSUME NEW rb \in Rings, NEW n \in Nat, n <= Count(rb)
  PROVE  /\ pop(rb, n) \in Rings
         /\ Read(rb) = front(rb, n) \o Read(pop(rb, n))
<1> DEFINE h == rb.headPtr
           t == rb.tailPtr
           c == Count(rb)
           q == pop(rb, n)
           u == Wrap(h + n)
<1>1. /\ h \in Nat /\ h < BufferSize /\ t \in Nat /\ t < BufferSize
      /\ BufferSize \in Nat /\ BufferSize >= 2 /\ size(rb) = c
      /\ c \in Nat /\ c <= BufferSize - 1 /\ n <= c
  BY SizeOfBuffer, RingSizes DEF MaxSize
<1>2. c = IF t >= h THEN t - h ELSE t - h + BufferSize BY DEF Count
<1>3. q = [rb EXCEPT !.headPtr = u]
  <2>1. Min2(n, size(rb)) = n BY <1>1 DEF Min2
  <2> QED BY <2>1 DEF pop
<1>4. u = (IF h + n < BufferSize THEN h + n ELSE h + n - BufferSize) /\ u \in Cells
  <2>1. n <= BufferSize BY <1>1
  <2> HIDE DEF h
  <2> QED BY <1>1, <2>1, WrapSum
<1>5. q \in Rings /\ q.cells = rb.cells /\ q.headPtr = u /\ q.tailPtr = t
  BY <1>3, <1>4 DEF Rings
<1>6. Count(q) = c - n
  <2>1. Count(q) = IF t >= u THEN t - u ELSE t - u + BufferSize BY <1>5 DEF Count
  <2> HIDE DEF h, t, c, q, u
  <2> QED BY <1>1, <1>2, <1>4, <2>1
<1>7. ASSUME NEW i \in 1 .. c - n PROVE Wrap(u + i) = Wrap(h + (n + i))
  <2> HIDE DEF h, t, c, u
  <2>1. /\ i \in Nat /\ i <= BufferSize /\ 1 <= i /\ n + i \in Nat /\ n + i <= BufferSize
        /\ u \in Nat /\ u < BufferSize
    BY <1>1, <1>4
  <2>2. Wrap(u + i) = IF u + i < BufferSize THEN u + i ELSE u + i - BufferSize
    BY <1>1, <2>1, WrapSum
  <2>3. Wrap(h + (n + i)) =
          IF h + (n + i) < BufferSize THEN h + (n + i) ELSE h + (n + i) - BufferSize
    BY <1>1, <2>1, WrapSum
  <2> QED BY <1>1, <1>2, <1>4, <2>1, <2>2, <2>3
<1> DEFINE a == Read(rb)
           b == Read(q)
           f == front(rb, n)
<1>8. /\ a \in Seq(Byte0) /\ Len(a) = c
      /\ \A i \in 1 .. c : a[i] = rb.cells[Wrap(h + i)]
  BY ReadIs
<1>9. /\ b \in Seq(Byte0) /\ Len(b) = c - n
      /\ \A i \in 1 .. c - n : b[i] = rb.cells[Wrap(u + i)]
  <2> HIDE DEF q, b, h, c, u
  <2>1. b \in Seq(Byte0) /\ Len(b) = Count(q)
        /\ \A i \in 1 .. Count(q) : b[i] = q.cells[Wrap(q.headPtr + i)]
    BY <1>5, ReadIs DEF b
  <2> QED BY <1>5, <1>6, <2>1
<1>10. f \in Seq(Byte0) /\ Len(f) = n /\ \A i \in 1 .. n : f[i] = rb.cells[Wrap(h + i)]
  BY FrontIs
<1> HIDE DEF a, b, f, h, c, q, t, u
<1>11. /\ f \o b \in Seq(Byte0) /\ Len(f \o b) = n + (c - n)
       /\ \A i \in 1 .. n + (c - n) : (f \o b)[i] = IF i <= n THEN f[i] ELSE b[i - n]
  <2> DEFINE d == c - n
  <2>1. f \in Seq(Byte0) /\ b \in Seq(Byte0) /\ Len(f) = n /\ Len(b) = d BY <1>9, <1>10
  <2> HIDE DEF d
  <2>2. /\ f \o b \in Seq(Byte0) /\ Len(f \o b) = n + d
        /\ \A i \in 1 .. n + d : (f \o b)[i] = IF i <= n THEN f[i] ELSE b[i - n]
    BY <2>1, ConcatProperties
  <2> QED BY <2>2 DEF d
<1>12. ASSUME NEW i \in 1 .. c PROVE a[i] = (f \o b)[i]
  <2>1. a[i] = rb.cells[Wrap(h + i)] BY <1>8
  <2>2. i \in 1 .. n + (c - n) BY <1>1
  <2>3. CASE i <= n
    <3>1. i \in 1 .. n BY <1>1, <2>3
    <3> QED BY <1>10, <1>11, <2>1, <2>2, <2>3, <3>1
  <2>4. CASE ~(i <= n)
    <3> DEFINE j == i - n
    <3>1. j \in 1 .. c - n /\ n + j = i BY <1>1, <2>4
    <3>2. (f \o b)[i] = b[j] BY <1>11, <2>2, <2>4
    <3> HIDE DEF j
    <3>3. b[j] = rb.cells[Wrap(u + j)] BY <1>9, <3>1
    <3>4. Wrap(u + j) = Wrap(h + (n + j)) BY <1>7, <3>1
    <3> QED BY <2>1, <3>1, <3>2, <3>3, <3>4
  <2> QED BY <2>3, <2>4
<1>13. n + (c - n) = c BY <1>1
<1>14. a = f \o b BY <1>8, <1>11, <1>12, <1>13, SeqEqual
<1> QED BY <1>5, <1>14 DEF a, b, f, q

\* Bytes that arrive in free cells change nothing that is unread.
LEMMA FillReads ==
  ASSUME NEW rb \in Rings, NEW c \in [Cells -> Byte0],
         \A k \in 1 .. Count(rb) : c[Wrap(rb.headPtr + k)] = rb.cells[Wrap(rb.headPtr + k)]
  PROVE  LET q == [rb EXCEPT !.cells = c]
         IN  /\ q \in Rings /\ Count(q) = Count(rb) /\ size(q) = size(rb)
             /\ FreeCells(q) = FreeCells(rb) /\ Read(q) = Read(rb)
             /\ \A m \in Nat : m <= Count(rb) => front(q, m) = front(rb, m)
<1> DEFINE q == [rb EXCEPT !.cells = c]
           h == rb.headPtr
           n == Count(rb)
<1>1. /\ q \in Rings /\ q.cells = c /\ q.headPtr = rb.headPtr /\ q.tailPtr = rb.tailPtr
  BY DEF Rings, Byte0
<1>2. n \in Nat /\ n <= n /\ size(rb) = n BY RingSizes
<1> HIDE DEF q
<1>3. Count(q) = n /\ size(q) = size(rb) BY <1>1 DEF Count, size
<1>4. FreeCells(q) = FreeCells(rb)
  BY <1>1 DEF FreeCells, DirectEnqueueSize, freeSize, tail
<1>5. ASSUME NEW m \in Nat, m <= n PROVE front(q, m) = front(rb, m)
  <2> DEFINE x == front(q, m)
             y == front(rb, m)
  <2>1. /\ x \in Seq(Byte0) /\ Len(x) = m
        /\ \A i \in 1 .. m : x[i] = q.cells[Wrap(q.headPtr + i)]
    BY <1>1, <1>3, <1>5, FrontIs
  <2>2. /\ y \in Seq(Byte0) /\ Len(y) = m
        /\ \A i \in 1 .. m : y[i] = rb.cells[Wrap(rb.headPtr + i)]
    BY <1>5, FrontIs
  <2>3. \A i \in 1 .. m : i \in 1 .. n BY <1>2, <1>5
  <2> HIDE DEF x, y
  <2>4. \A i \in 1 .. m : x[i] = y[i] BY <1>1, <2>1, <2>2, <2>3
  <2>5. x = y BY <2>1, <2>2, <2>4, SeqEqual
  <2> QED BY <2>5 DEF x, y
<1>6. Read(q) = Read(rb) BY <1>2, <1>3, <1>5 DEF Read
<1> QED BY <1>1, <1>3, <1>4, <1>5, <1>6 DEF q

LEMMA ClearReads ==
  ASSUME NEW rb \in Rings
  PROVE  clear(rb) \in Rings /\ Count(clear(rb)) = 0 /\ Read(clear(rb)) = <<>>
<1> DEFINE q == clear(rb)
<1>1. q \in Rings /\ q.headPtr = rb.tailPtr /\ q.tailPtr = rb.tailPtr BY DEF clear, Rings
<1>2. rb.tailPtr \in Nat BY RingSizes
<1> HIDE DEF q
<1>3. Count(q) = 0 BY <1>1, <1>2 DEF Count
<1>4. Read(q) \in Seq(Byte0) /\ Len(Read(q)) = 0 BY <1>1, <1>3, ReadIs
<1>5. Read(q) = <<>> BY <1>4
<1> QED BY <1>1, <1>3, <1>5 DEF q

----------------------------------------------------------------------------
(* Packets, and what is left of those that were sent.                       *)

LEMMA PacketIs ==
  ASSUME NEW p \in Packet
  PROVE  /\ p \in Seq(Bytes) /\ Len(p) \in Nat /\ Len(p) >= HeaderSize
         /\ p[SizeAt][4] = Len(p) - HeaderSize
<1>1. PICK c \in 1 .. MaxConnections, k \in 1 .. MaxPackets, len \in PayloadSizes :
        p = PacketBytes(c, k, len)
  BY DEF Packet
<1> DEFINE n == HeaderSize + len
<1>2. len \in Nat /\ HeaderSize \in Nat /\ HeaderSize >= 2 BY RecvStreamAssumption
<1>3. n \in Nat /\ n >= HeaderSize /\ n - HeaderSize = len /\ 2 \in 1 .. n BY <1>2
<1>4. p = [i \in 1 .. n |-> <<c, k, i, IF i = SizeAt THEN len ELSE 0>>]
  BY <1>1 DEF PacketBytes
<1> HIDE DEF n
<1>5. DOMAIN p = 1 .. n /\ p[SizeAt] = <<c, k, 2, len>>
  <2> HIDE <1>1
  <2> QED BY <1>3, <1>4 DEF SizeAt
<1>6. p \in [1 .. n -> Bytes]
  <2>1. \A i \in 1 .. n : p[i] \in Range(p) BY <1>5 DEF Range
  <2>2. \A i \in 1 .. n : p[i] \in Bytes BY <2>1 DEF Bytes
  <2>3. p = [i \in 1 .. n |-> p[i]] BY <1>4
  <2> QED BY <2>2, <2>3
<1>7. ASSUME NEW k2 \in Nat, NEW f \in [1 .. k2 -> Bytes] PROVE f \in Seq(Bytes) /\ Len(f) = k2
  OBVIOUS
<1>8. p \in Seq(Bytes) /\ Len(p) = n BY <1>3, <1>6, <1>7
<1>9. p[SizeAt][4] = len BY <1>5
<1> QED BY <1>3, <1>8, <1>9

LEMMA ByteSets == Seq(Bytes) \subseteq Seq(Byte0) /\ Packet \subseteq Seq(Bytes) /\ Seq(Packet) \subseteq Seq(Seq(Bytes))
<1>1. Bytes \subseteq Byte0 BY DEF Byte0
<1>2. Seq(Bytes) \subseteq Seq(Byte0) BY <1>1, SeqMonotonic
<1>3. Packet \subseteq Seq(Bytes) BY PacketIs
<1>4. Seq(Packet) \subseteq Seq(Seq(Bytes)) BY <1>3, SeqMonotonic
<1> QED BY <1>2, <1>3, <1>4

After(s, d) == SubSeq(s, d + 1, Len(s))

LEMMA AfterType ==
  ASSUME NEW S, NEW s \in Seq(S), NEW d \in 0 .. Len(s) PROVE After(s, d) \in Seq(S)
BY CutSeq DEF After

LEMMA AfterAppend ==
  ASSUME NEW S, NEW s \in Seq(S), NEW d \in 0 .. Len(s), NEW e \in S
  PROVE  After(Append(s, e), d) = Append(After(s, d), e)
<1> DEFINE n == Len(s)
           t == Append(s, e)
           a == After(s, d)
           b == After(t, d)
           c == Append(a, e)
<1>1. n \in Nat /\ d \in Nat /\ d <= n BY LenProperties
<1>2. t \in Seq(S) /\ Len(t) = n + 1 /\ (\A i \in 1 .. n : t[i] = s[i]) /\ t[n + 1] = e
  BY AppendProperties
<1>3. a \in Seq(S) /\ Len(a) = n - d /\ \A i \in 1 .. n - d : a[i] = s[d + i]
  BY CutSeq DEF After
<1> HIDE DEF n, t, a, b, c
<1>4. b \in Seq(S) /\ Len(b) = n + 1 - d /\ \A i \in 1 .. n + 1 - d : b[i] = t[d + i]
  <2>1. d \in 0 .. Len(t) BY <1>1, <1>2
  <2>2. /\ b \in Seq(S) /\ Len(b) = Len(t) - d
        /\ \A i \in 1 .. Len(t) - d : b[i] = t[d + i]
    BY <1>2, <2>1, CutSeq DEF b, After
  <2>3. Len(t) - d = n + 1 - d BY <1>1, <1>2
  <2> QED BY <2>2, <2>3
<1>5. /\ c \in Seq(S) /\ Len(c) = n - d + 1 /\ (\A i \in 1 .. n - d : c[i] = a[i])
      /\ c[n - d + 1] = e
  BY <1>3, AppendProperties DEF c
<1>6. ASSUME NEW i \in 1 .. n + 1 - d PROVE b[i] = c[i]
  <2>1. CASE i <= n - d
    <3>1. i \in 1 .. n - d /\ d + i \in 1 .. n BY <1>1, <2>1
    <3> QED BY <1>2, <1>3, <1>4, <1>5, <3>1
  <2>2. CASE ~(i <= n - d)
    <3>1. i = n - d + 1 /\ d + i = n + 1 BY <1>1, <2>2
    <3> QED BY <1>2, <1>4, <1>5, <3>1
  <2> QED BY <2>1, <2>2
<1>7. n + 1 - d = n - d + 1 BY <1>1
<1>8. b = c BY <1>4, <1>5, <1>6, <1>7, SeqEqual, SMTT(60)
<1> QED BY <1>8 DEF b, c, t, a

LEMMA AfterFirst ==
  ASSUME NEW S, NEW s \in Seq(S), NEW d \in Nat, d < Len(s)
  PROVE  /\ After(s, d) # <<>> /\ After(s, d)[1] = s[d + 1]
         /\ Tail(After(s, d)) = After(s, d + 1)
<1>1. Len(s) \in Nat BY LenProperties
<1>2. d \in 0 .. Len(s) /\ d + 1 \in 1 .. Len(s) /\ Len(s) \in d + 1 .. Len(s) /\ 1 \in 1 .. Len(s) - d
  BY <1>1
<1>3. /\ Len(After(s, d)) = Len(s) - d
      /\ \A i \in 1 .. Len(s) - d : After(s, d)[i] = s[d + i]
  BY <1>2, CutSeq DEF After
<1>4. Tail(SubSeq(s, d + 1, Len(s))) = SubSeq(s, d + 1 + 1, Len(s)) BY <1>2, HeadTailOfSubSeq
<1>5. Len(After(s, d)) # 0 BY <1>1, <1>3
<1>6. Len(<<>>) = 0 OBVIOUS
<1> QED BY <1>2, <1>3, <1>4, <1>5, <1>6 DEF After

LEMMA AfterAll == ASSUME NEW S, NEW s \in Seq(S) PROVE After(s, Len(s)) = <<>>
<1>1. Len(s) \in Nat BY LenProperties
<1> QED BY <1>1, SubSeqEmpty DEF After

\* A sequence that begins with p, split behind it.
LEMMA SplitSame ==
  ASSUME NEW S, NEW a \in Seq(S), NEW b \in Seq(S), NEW p \in Seq(S), NEW q \in Seq(S),
         a \o b = p \o q, Len(a) = Len(p)
  PROVE  a = p /\ b = q
<1> DEFINE n == Len(a)
           m == Len(b)
           k == Len(q)
<1>1. n \in Nat /\ m \in Nat /\ k \in Nat /\ Len(p) = n BY LenProperties
<1>2. Len(a \o b) = n + m /\ \A i \in 1 .. n + m : (a \o b)[i] = IF i <= n THEN a[i] ELSE b[i - n]
  BY ConcatProperties
<1>3. Len(p \o q) = Len(p) + k
      /\ \A i \in 1 .. Len(p) + k : (p \o q)[i] = IF i <= Len(p) THEN p[i] ELSE q[i - Len(p)]
  BY ConcatProperties
<1> HIDE DEF n, m, k
<1> DEFINE x == a \o b
           y == p \o q
<1>4. /\ x = y /\ Len(x) = n + m /\ Len(y) = n + k
      /\ \A i \in 1 .. n + m : x[i] = IF i <= n THEN a[i] ELSE b[i - n]
      /\ \A i \in 1 .. n + k : y[i] = IF i <= n THEN p[i] ELSE q[i - n]
  BY <1>1, <1>2, <1>3
<1> HIDE DEF x, y
<1>5. m = k BY <1>1, <1>4
<1>6. ASSUME NEW i \in 1 .. n PROVE a[i] = p[i]
  <2>1. i \in 1 .. n + m /\ i <= n BY <1>1
  <2> QED BY <1>4, <1>5, <2>1
<1>7. ASSUME NEW i \in 1 .. m PROVE b[i] = q[i]
  <2> DEFINE j == n + i
  <2>1. j \in 1 .. n + m /\ ~(j <= n) /\ j - n = i BY <1>1
  <2> HIDE DEF j
  <2>2. x[j] = b[j - n] /\ y[j] = q[j - n] BY <1>4, <1>5, <2>1
  <2> QED BY <1>4, <2>1, <2>2
<1>8. Len(a) = n /\ Len(b) = m /\ Len(q) = m BY <1>5 DEF n, m, k
<1>9. a = p BY <1>1, <1>6, <1>8, SeqEqual
<1>10. b = q BY <1>7, <1>8, SeqEqual
<1> QED BY <1>9, <1>10

----------------------------------------------------------------------------
(* The inductive invariant.                                                 *)

\* Who waits has a receive in progress, with the free cells.
Waiting ==
    /\ pc = "wait" <=> recvOv # "idle"
    /\ recvOv = "idle" => buffers = <<>> /\ transfer = 0
    /\ recvOv = "pending" => transfer = 0
    /\ recvOv # "idle" => buffers = FreeCells(recvBuffer) /\ transfer <= Len(buffers)

\* Whole packets are taken out before a receive is started.
AllCut == pc \in {"recvIO", "wait"} => ~HasPacket(recvBuffer)

\* What was delivered was sent.
InPlace ==
    /\ Len(delivered) <= Len(sent)
    /\ \A i \in 1 .. Len(delivered) : delivered[i] = sent[i]

Rest == After(sent, Len(delivered))
Stream == pc \notin {"stopped", "closed"} =>
              (Read(recvBuffer) \o Fresh) \o wire = FlattenSeq(Rest)

IInv == TypeOK /\ Waiting /\ AllCut /\ InPlace /\ Stream

LEMMA Facts ==
  ASSUME IInv
  PROVE  /\ recvBuffer \in Rings /\ Read(recvBuffer) \in Seq(Byte0)
         /\ sent \in Seq(Packet) /\ delivered \in Seq(Packet) /\ wire \in Seq(Byte0)
         /\ Len(sent) \in Nat /\ Len(delivered) \in Nat /\ Len(delivered) <= Len(sent)
         /\ Len(delivered) \in 0 .. Len(sent)
         /\ Rest \in Seq(Seq(Bytes)) /\ Rest \in Seq(Packet) /\ FlattenSeq(Rest) \in Seq(Byte0)
<1>1. /\ recvBuffer \in Rings /\ sent \in Seq(Packet) /\ delivered \in Seq(Packet)
      /\ wire \in Seq(Bytes)
  BY DEF IInv, TypeOK, Rings
<1>2. Len(sent) \in Nat /\ Len(delivered) \in Nat /\ Len(delivered) <= Len(sent)
  BY <1>1, LenProperties DEF IInv, InPlace
<1>3. Len(delivered) \in 0 .. Len(sent) BY <1>2
<1>4. Rest \in Seq(Packet) BY <1>1, <1>3, AfterType DEF Rest
<1>5. Rest \in Seq(Seq(Bytes)) BY <1>4, ByteSets
<1>6. FlattenSeq(Rest) \in Seq(Bytes) BY <1>5, FlattenType
<1>7. Read(recvBuffer) \in Seq(Byte0) BY <1>1, ReadIs
<1> QED BY <1>1, <1>2, <1>3, <1>4, <1>5, <1>6, <1>7, ByteSets

LEMMA FreshWhenIdle == recvOv # "done" => Fresh = <<>>
BY DEF Fresh

\* What the client sends.
LEMMA Sends ==
  ASSUME IInv, Send
  PROVE  \E p \in Packet : sent' = Append(sent, p) /\ wire' = wire \o p
<1>1. PICK len \in PayloadSizes :
        LET p == PacketBytes(connection, Len(sent) + 1, len)
        IN  sent' = Append(sent, p) /\ wire' = wire \o p
  BY DEF Send
<1>2. Len(sent) + 1 \in 1 .. MaxPackets
  <2>1. Len(sent) \in Nat BY Facts
  <2> QED BY <2>1, RecvStreamAssumption DEF Send
<1>3. connection \in 1 .. MaxConnections BY DEF IInv, TypeOK
<1>4. PacketBytes(connection, Len(sent) + 1, len) \in Packet BY <1>2, <1>3 DEF Packet
<1> QED BY <1>1, <1>4

\* Bytes that arrive are in the posted cells, and change no unread one.
LEMMA Arrives ==
  ASSUME IInv, RecvComplete
  PROVE  \E n \in 1 .. Len(wire), c \in [Cells -> Byte0] :
            /\ n <= Len(buffers) /\ n <= MaxSize
            /\ recvBuffer' = [recvBuffer EXCEPT !.cells = c]
            /\ transfer' = n /\ wire' = SubSeq(wire, n + 1, Len(wire))
            /\ \A i \in 1 .. n : c[buffers[i]] = wire[i]
            /\ \A k \in 1 .. Count(recvBuffer) :
                  c[Wrap(recvBuffer.headPtr + k)] = recvBuffer.cells[Wrap(recvBuffer.headPtr + k)]
<1> DEFINE rb == recvBuffer
           m == MaxSize - Count(rb)
<1>1. PICK n \in 1 .. Min2(Len(wire), Len(buffers)) :
        /\ recvBuffer' = [recvBuffer EXCEPT !.cells = [c \in Cells |->
               IF \E i \in 1 .. n : buffers[i] = c
               THEN wire[CHOOSE i \in 1 .. n : buffers[i] = c] ELSE @[c]]]
        /\ transfer' = n
        /\ wire' = SubSeq(wire, n + 1, Len(wire))
  BY DEF RecvComplete
<1> DEFINE At(x) == CHOOSE i \in 1 .. n : buffers[i] = x
           c == [x \in Cells |->
                    IF \E i \in 1 .. n : buffers[i] = x THEN wire[At(x)] ELSE rb.cells[x]]
<1>2. rb \in Rings /\ wire \in Seq(Byte0) /\ rb.cells \in [Cells -> Byte0]
  BY Facts DEF Rings, Byte0
<1>3. buffers = FreeCells(rb) BY DEF IInv, Waiting, RecvComplete
<1>4. /\ buffers \in Seq(Cells) /\ Len(buffers) = m
      /\ \A i \in 1 .. m : buffers[i] = Wrap(rb.tailPtr + i)
  BY <1>2, <1>3, FreeCellsAre
<1>5. Len(wire) \in Nat /\ m \in Nat /\ m <= MaxSize
  BY <1>2, RingSizes, LenProperties
<1>6. n \in 1 .. Len(wire) /\ n <= Len(buffers) /\ n <= MaxSize /\ 1 .. n \subseteq 1 .. m
  <2>1. n \in 1 .. Min2(Len(wire), Len(buffers)) OBVIOUS
  <2>2. Len(buffers) \in Nat BY <1>4, <1>5
  <2>3. n \in Nat /\ 1 <= n /\ n <= Len(wire) /\ n <= Len(buffers) BY <1>5, <2>1, <2>2 DEF Min2
  <2> HIDE DEF m
  <2>4. n <= m BY <1>4, <2>3
  <2>5. n <= MaxSize
    <3>1. MaxSize \in Nat BY <1>2, RingSizes
    <3> QED BY <1>5, <2>3, <2>4, <3>1
  <2>6. 1 .. n \subseteq 1 .. m BY <1>5, <2>3, <2>4
  <2> QED BY <1>5, <2>3, <2>5, <2>6
<1>7. ASSUME NEW i \in 1 .. m
      PROVE  /\ buffers[i] \in Cells
             /\ \A j \in 1 .. m : buffers[i] = buffers[j] => i = j
             /\ \A k \in 1 .. Count(rb) : buffers[i] # Wrap(rb.headPtr + k)
  <2>1. /\ Wrap(rb.tailPtr + i) \in Cells
        /\ \A j \in 1 .. m : Wrap(rb.tailPtr + i) = Wrap(rb.tailPtr + j) => i = j
        /\ \A k \in 1 .. Count(rb) : Wrap(rb.tailPtr + i) # Wrap(rb.headPtr + k)
    BY <1>2, FreeIsFree
  <2> HIDE DEF m, rb
  <2> QED BY <1>4, <2>1
<1>8. recvBuffer' = [recvBuffer EXCEPT !.cells = c] BY <1>1, <1>2
<1> HIDE DEF m
<1>9. c \in [Cells -> Byte0]
  <2> SUFFICES ASSUME NEW x \in Cells
               PROVE  (IF \E i \in 1 .. n : buffers[i] = x THEN wire[At(x)] ELSE rb.cells[x])
                        \in Byte0
    OBVIOUS
  <2>1. CASE \E i \in 1 .. n : buffers[i] = x
    <3>1. At(x) \in 1 .. n BY <2>1
    <3>2. At(x) \in 1 .. Len(wire) BY <1>5, <1>6, <3>1
    <3> HIDE DEF At
    <3>3. wire[At(x)] \in Byte0 BY <1>2, <3>2, ElementOfSeq
    <3> QED BY <2>1, <3>3
  <2>2. CASE ~ \E i \in 1 .. n : buffers[i] = x BY <1>2, <2>2
  <2> QED BY <2>1, <2>2
<1>10. ASSUME NEW i \in 1 .. n PROVE c[buffers[i]] = wire[i]
  <2>1. i \in 1 .. m BY <1>6
  <2>2. buffers[i] \in Cells BY <1>7, <2>1
  <2>3. c[buffers[i]] = wire[At(buffers[i])] BY <2>2
  <2> DEFINE j == At(buffers[i])
  <2>4. j \in 1 .. n /\ buffers[j] = buffers[i] OBVIOUS
  <2> HIDE DEF j, c, rb
  <2>5. j \in 1 .. m BY <1>6, <2>4
  <2>6. i = j BY <1>7, <2>1, <2>4, <2>5
  <2> QED BY <2>3, <2>6 DEF j
<1>11. ASSUME NEW k \in 1 .. Count(rb)
       PROVE  c[Wrap(rb.headPtr + k)] = rb.cells[Wrap(rb.headPtr + k)]
  <2>1. Wrap(rb.headPtr + k) \in Cells BY <1>2, ReadIs
  <2>2. \A i \in 1 .. n : buffers[i] # Wrap(rb.headPtr + k)
    <3> HIDE DEF rb
    <3> QED BY <1>6, <1>7
  <2> QED BY <2>1, <2>2
<1> HIDE DEF c
<1> QED BY <1>1, <1>6, <1>8, <1>9, <1>10, <1>11

----------------------------------------------------------------------------
(* What the steps do to the stream.                                         *)

LEMMA Joined == \A u, v \in Seq(Byte0) : u \o v \in Seq(Byte0)
BY ConcatProperties
LEMMA JoinedOnce == \A u, v, w \in Seq(Byte0) : (u \o v) \o w = u \o (v \o w)
BY ConcatAssociative
LEMMA JoinedNone == <<>> \in Seq(Byte0) /\ \A u \in Seq(Byte0) : u \o <<>> = u /\ <<>> \o u = u
BY ConcatEmptySeq

\* The packet at the front of the buffer is the next one that was sent, and
\* behind it are the bytes of the others.
LEMMA PacketInFront ==
  ASSUME IInv, pc = "loop", HasPacket(recvBuffer)
  PROVE  LET rb == recvBuffer
             d  == Len(delivered)
             l  == FrontLength(rb)
         IN  /\ d < Len(sent) /\ d + 1 \in 1 .. Len(sent)
             /\ front(rb, l) = sent[d + 1]
             /\ pop(rb, l) \in Rings
             /\ Read(pop(rb, l)) \o wire = FlattenSeq(After(sent, d + 1))
<1> DEFINE rb == recvBuffer
           d  == Len(delivered)
           l  == FrontLength(rb)
           c  == Count(rb)
           u  == Read(rb)
           g  == front(rb, HeaderSize)
<1>1. /\ rb \in Rings /\ u \in Seq(Byte0) /\ wire \in Seq(Byte0)
      /\ sent \in Seq(Packet) /\ d \in Nat /\ Len(sent) \in Nat /\ d <= Len(sent)
      /\ Rest \in Seq(Seq(Bytes)) /\ Rest = After(sent, d)
  BY Facts DEF Rest
<1>2. HeaderSize \in Nat /\ HeaderSize >= 2 BY RecvStreamAssumption
<1>3. c \in Nat /\ size(rb) = c BY <1>1, RingSizes
<1>4. l = (IF c < HeaderSize THEN 0 ELSE HeaderSize + g[SizeAt][4]) /\ l > 0 /\ c >= l
  BY <1>3 DEF FrontLength, HasPacket
<1>5. HeaderSize <= c BY <1>2, <1>3, <1>4
<1>6. Len(u) = c BY <1>1, ReadIs
<1>7. g[SizeAt] = u[SizeAt] /\ u[SizeAt] = u[2]
  <2>1. \A i \in 1 .. HeaderSize : g[i] = u[i] BY <1>1, <1>2, <1>5, FrontBegins
  <2>2. 2 \in 1 .. HeaderSize BY <1>2
  <2> HIDE DEF g, u
  <2> QED BY <2>1, <2>2 DEF SizeAt
<1>8. u \o wire = FlattenSeq(Rest)
  <2>1. recvOv # "done" /\ pc \notin {"stopped", "closed"} BY DEF IInv, Waiting
  <2>2. (u \o Fresh) \o wire = FlattenSeq(Rest) BY <2>1 DEF IInv, Stream
  <2>3. Fresh = <<>> BY <2>1, FreshWhenIdle
  <2> HIDE DEF u
  <2> QED BY <1>1, <2>2, <2>3, JoinedNone
<1>x. u \o wire \in Seq(Byte0) /\ Len(u \o wire) = c + Len(wire) /\ Len(wire) \in Nat
      /\ \A i \in 1 .. c + Len(wire) : (u \o wire)[i] = IF i <= c THEN u[i] ELSE wire[i - c]
  <2>1. u \in Seq(Byte0) /\ wire \in Seq(Byte0) /\ Len(u) = c BY <1>1, <1>6
  <2> HIDE DEF u, c
  <2>2. /\ u \o wire \in Seq(Byte0) /\ Len(u \o wire) = Len(u) + Len(wire)
        /\ \A i \in 1 .. Len(u) + Len(wire) :
              (u \o wire)[i] = IF i <= Len(u) THEN u[i] ELSE wire[i - Len(u)]
    BY <2>1, ConcatProperties
  <2> QED BY <2>1, <2>2, LenProperties
<1> HIDE DEF u, c, g, l
<1>9. Rest # <<>>
  <2> SUFFICES ASSUME Rest = <<>> PROVE FALSE OBVIOUS
  <2>1. u \o wire = <<>> BY <1>8, FlattenEmpty
  <2>2. Len(u \o wire) = 0 BY <2>1
  <2> QED BY <1>2, <1>3, <1>5, <1>x, <2>2
<1>10. d < Len(sent)
  <2>1. CASE d = Len(sent)
    <3>1. After(sent, Len(sent)) = <<>> BY <1>1, AfterAll
    <3> QED BY <1>1, <1>9, <2>1, <3>1
  <2> QED BY <1>1, <2>1
<1> DEFINE p == sent[d + 1]
           q == FlattenSeq(After(sent, d + 1))
<1>11. d + 1 \in 1 .. Len(sent) BY <1>1, <1>10
<1>12. p \in Packet BY <1>1, <1>11, ElementOfSeq
<1>13. /\ p \in Seq(Byte0) /\ Len(p) \in Nat /\ Len(p) >= HeaderSize
       /\ p[SizeAt][4] = Len(p) - HeaderSize
  <2> HIDE DEF p
  <2> QED BY <1>12, PacketIs, ByteSets
<1>14. Rest[1] = p /\ Tail(Rest) = After(sent, d + 1) BY <1>1, <1>10, AfterFirst
<1>15. q \in Seq(Byte0)
  <2>1. Tail(Rest) \in Seq(Seq(Bytes)) BY <1>1, <1>9, HeadTailProperties
  <2>2. q \in Seq(Bytes) BY <1>14, <2>1, FlattenType
  <2> QED BY <2>2, ByteSets
<1>16. u \o wire = p \o q BY <1>1, <1>8, <1>9, <1>14, FlattenFirst
<1> HIDE DEF p, q
<1>17. u[2] = p[SizeAt]
  <2> DEFINE x == u \o wire
             y == p \o q
  <2>1. \A i \in 1 .. Len(p) + Len(q) : y[i] = IF i <= Len(p) THEN p[i] ELSE q[i - Len(p)]
    BY <1>13, <1>15, ConcatProperties
  <2>2. Len(q) \in Nat BY <1>15, LenProperties
  <2>3. 2 \in 1 .. Len(p) + Len(q) /\ 2 <= Len(p) BY <1>2, <1>13, <2>2
  <2>4. 2 \in 1 .. c + Len(wire) /\ 2 <= c BY <1>2, <1>3, <1>5, <1>x
  <2>5. x[2] = u[2] BY <1>x, <2>4
  <2> HIDE DEF x, y
  <2>6. y[2] = p[2] BY <2>1, <2>3
  <2> QED BY <1>16, <2>5, <2>6 DEF x, y, SizeAt
<1>18. l = Len(p) /\ l \in Nat /\ l <= c
  <2>1. g[SizeAt][4] = Len(p) - HeaderSize BY <1>7, <1>13, <1>17
  <2>2. ~(c < HeaderSize) BY <1>2, <1>3, <1>5
  <2>3. l = HeaderSize + (Len(p) - HeaderSize) BY <1>4, <2>1, <2>2
  <2>4. l = Len(p) BY <1>2, <1>13, <2>3
  <2> QED BY <1>3, <1>4, <1>13, <2>4
<1> DEFINE a == front(rb, l)
           b == Read(pop(rb, l))
<1>19. /\ pop(rb, l) \in Rings /\ u = a \o b /\ a \in Seq(Byte0) /\ Len(a) = l /\ b \in Seq(Byte0)
  <2>1. l <= Count(rb) BY <1>18 DEF c
  <2>2. pop(rb, l) \in Rings /\ u = a \o b BY <1>1, <1>18, <2>1, PopReads DEF u
  <2>3. a \in Seq(Byte0) /\ Len(a) = l BY <1>1, <1>18, <2>1, FrontIs
  <2>4. b \in Seq(Byte0) BY <2>2, ReadIs
  <2> QED BY <2>2, <2>3, <2>4
<1> HIDE DEF a, b
<1> DEFINE bw == b \o wire
<1>20. a \o bw = p \o q /\ bw \in Seq(Byte0)
  <2>1. a \in Seq(Byte0) /\ b \in Seq(Byte0) /\ wire \in Seq(Byte0) BY <1>1, <1>19
  <2>2. (a \o b) \o wire = a \o (b \o wire) BY <2>1, JoinedOnce
  <2>3. b \o wire \in Seq(Byte0) BY <2>1, Joined
  <2> QED BY <1>16, <1>19, <2>2, <2>3
<1> HIDE DEF bw
<1>21. a = p /\ bw = q BY <1>13, <1>15, <1>18, <1>19, <1>20, SplitSame
<1> QED BY <1>10, <1>11, <1>19, <1>21 DEF a, b, bw, p, q, l

LEMMA StreamSend == ASSUME IInv, Send PROVE Stream'
<1>1. PICK p \in Packet : sent' = Append(sent, p) /\ wire' = wire \o p BY Sends
<1>2. /\ recvBuffer' = recvBuffer /\ delivered' = delivered /\ pc' = pc /\ Fresh' = Fresh
  BY DEF Send, sessionVars, ioVars, Fresh
<1> SUFFICES ASSUME pc \notin {"stopped", "closed"}
             PROVE  (Read(recvBuffer) \o Fresh) \o wire' = FlattenSeq(Rest')
  BY <1>2 DEF Stream
<1> DEFINE x == Read(recvBuffer) \o Fresh
           r == Rest
           f == FlattenSeq(r)
<1>3. x \o wire = f BY DEF IInv, Stream
<1>4. x \in Seq(Byte0)
  <2>1. Fresh \in Seq(Byte0)
    <3>1. CASE recvOv # "done" BY <3>1, FreshWhenIdle, JoinedNone
    <3>2. CASE recvOv = "done"
      <4>1. /\ recvBuffer \in Rings /\ buffers \in Seq(Cells) /\ transfer \in Nat
            /\ transfer <= Len(buffers)
        BY <3>2, Facts, RingSizes DEF IInv, TypeOK, Waiting
      <4>2. Len(buffers) \in Nat BY <4>1, LenProperties
      <4>3. \A i \in 1 .. transfer : i \in 1 .. Len(buffers) BY <4>1, <4>2
      <4>4. \A i \in 1 .. transfer : buffers[i] \in Cells BY <4>1, <4>3, ElementOfSeq
      <4>5. recvBuffer.cells \in [Cells -> Byte0] BY <4>1 DEF Rings, Byte0
      <4> DEFINE g == [i \in 1 .. transfer |-> recvBuffer.cells[buffers[i]]]
      <4>6. g \in [1 .. transfer -> Byte0] BY <4>4, <4>5
      <4>7. Fresh = g BY <3>2 DEF Fresh
      <4>8. ASSUME NEW k \in Nat, NEW h \in [1 .. k -> Byte0] PROVE h \in Seq(Byte0) OBVIOUS
      <4> HIDE DEF g
      <4> QED BY <4>1, <4>6, <4>7, <4>8
    <3> QED BY <3>1, <3>2
  <2> QED BY <2>1, Facts, Joined
<1>5. r \in Seq(Seq(Bytes)) /\ p \in Seq(Bytes) /\ p \in Seq(Byte0) /\ wire \in Seq(Byte0)
  BY Facts, ByteSets
<1>6. Rest' = Append(r, p)
  <2>1. After(Append(sent, p), Len(delivered)) = Append(After(sent, Len(delivered)), p)
    BY Facts, AfterAppend
  <2> QED BY <1>1, <1>2, <2>1 DEF Rest
<1> HIDE DEF x, r
<1>7. FlattenSeq(Append(r, p)) = f \o p BY <1>5, FlattenAppend
<1> HIDE DEF f
<1>8. x \o (wire \o p) = (x \o wire) \o p BY <1>4, <1>5, JoinedOnce
<1> QED BY <1>1, <1>3, <1>6, <1>7, <1>8 DEF x

LEMMA StreamRecvComplete == ASSUME IInv, RecvComplete PROVE Stream'
<1>1. PICK n \in 1 .. Len(wire), c \in [Cells -> Byte0] :
            /\ n <= Len(buffers) /\ n <= MaxSize
            /\ recvBuffer' = [recvBuffer EXCEPT !.cells = c]
            /\ transfer' = n /\ wire' = SubSeq(wire, n + 1, Len(wire))
            /\ \A i \in 1 .. n : c[buffers[i]] = wire[i]
            /\ \A k \in 1 .. Count(recvBuffer) :
                  c[Wrap(recvBuffer.headPtr + k)] = recvBuffer.cells[Wrap(recvBuffer.headPtr + k)]
  BY Arrives
<1>2. /\ recvOv = "pending" /\ recvOv' = "done" /\ sent' = sent /\ delivered' = delivered /\ pc' = pc
      /\ buffers' = buffers
  BY DEF RecvComplete, clientVars
<1>3. /\ recvBuffer \in Rings /\ Read(recvBuffer) \in Seq(Byte0) /\ wire \in Seq(Byte0)
      /\ Len(wire) \in Nat
  BY Facts, LenProperties
<1>4. Read(recvBuffer') = Read(recvBuffer) BY <1>1, <1>3, FillReads
<1>5. pc \notin {"stopped", "closed"} BY <1>2 DEF IInv, Waiting
<1> DEFINE u == Read(recvBuffer)
           a == SubSeq(wire, 1, n)
           b == SubSeq(wire, n + 1, Len(wire))
<1>6. (u \o <<>>) \o wire = FlattenSeq(Rest)
  <2>1. Fresh = <<>> BY <1>2, FreshWhenIdle
  <2>2. (u \o Fresh) \o wire = FlattenSeq(Rest) BY <1>5 DEF IInv, Stream
  <2> HIDE DEF u
  <2> QED BY <2>1, <2>2
<1>7. /\ a \in Seq(Byte0) /\ b \in Seq(Byte0) /\ Len(a) = n /\ wire = a \o b
      /\ \A i \in 1 .. n : a[i] = wire[i]
  <2>1. n \in 0 .. Len(wire) BY <1>3
  <2> QED BY <1>3, <2>1, CutSeq
<1>8. Fresh' = a
  <2>1. recvBuffer'.cells = c BY <1>1, <1>3 DEF Rings
  <2>2. Fresh' = [i \in 1 .. n |-> recvBuffer'.cells[buffers[i]]] BY <1>1, <1>2 DEF Fresh
  <2>3. Fresh' = [i \in 1 .. n |-> a[i]] BY <1>1, <1>7, <2>1, <2>2
  <2> HIDE DEF a
  <2>4. a = [i \in 1 .. n |-> a[i]] BY <1>7, LenProperties
  <2> QED BY <2>3, <2>4
<1> HIDE DEF u, a, b
<1>9. (u \o a) \o b = (u \o <<>>) \o wire
  <2>1. u \in Seq(Byte0) BY <1>3 DEF u
  <2> QED BY <1>7, <2>1, JoinedOnce, JoinedNone
<1>10. Rest' = Rest BY <1>2 DEF Rest
<1>11. wire' = b BY <1>1 DEF b
<1> QED BY <1>4, <1>6, <1>8, <1>9, <1>10, <1>11 DEF Stream, u

LEMMA StreamRecved == ASSUME IInv, Recved PROVE Stream'
<1> SUFFICES ASSUME pc' \notin {"stopped", "closed"}
             PROVE  (Read(recvBuffer') \o Fresh') \o wire' = FlattenSeq(Rest')
  BY DEF Stream
<1> DEFINE rb == recvBuffer
           u == Read(rb)
           w == Fresh
<1>1. /\ recvOv = "done" /\ recvOv' = "idle" /\ wire' = wire /\ sent' = sent
      /\ delivered' = delivered /\ pc = "wait" /\ transfer # 0 /\ freeSize(rb) > transfer
      /\ recvBuffer' = MoveRear(rb, transfer)
  BY DEF Recved, clientVars
<1>2. Fresh' = <<>> BY <1>1 DEF Fresh
<1>3. rb \in Rings /\ u \in Seq(Byte0) BY Facts
<1>4. transfer \in Nat /\ buffers = FreeCells(rb) /\ transfer <= MaxSize - Count(rb)
  <2>1. MaxSize \in Nat /\ Count(rb) \in Nat /\ freeSize(rb) = MaxSize - Count(rb)
    BY <1>3, RingSizes
  <2>2. transfer \in 0 .. MaxSize BY DEF IInv, TypeOK
  <2>3. buffers = FreeCells(rb) BY <1>1 DEF IInv, Waiting
  <2> HIDE DEF rb
  <2> QED BY <1>1, <2>1, <2>2, <2>3
<1>5. w \in Seq(Byte0) /\ Len(w) = transfer
      /\ \A i \in 1 .. transfer : w[i] = rb.cells[FreeCells(rb)[i]]
  <2> DEFINE m == MaxSize - Count(rb)
             f == FreeCells(rb)
             g == [i \in 1 .. transfer |-> rb.cells[f[i]]]
  <2>1. f \in Seq(Cells) /\ Len(f) = m BY <1>3, FreeCellsAre
  <2>2. m \in Nat /\ transfer <= m BY <1>3, <1>4, RingSizes
  <2>3. \A i \in 1 .. transfer : i \in 1 .. Len(f)
    <3> HIDE DEF m, f
    <3> QED BY <1>4, <2>1, <2>2
  <2>4. \A i \in 1 .. transfer : f[i] \in Cells
    <3> HIDE DEF m, f
    <3> QED BY <2>1, <2>3, ElementOfSeq
  <2>5. rb.cells \in [Cells -> Byte0] BY <1>3 DEF Rings, Byte0
  <2>6. g \in [1 .. transfer -> Byte0] /\ \A i \in 1 .. transfer : g[i] = rb.cells[f[i]]
    <3> HIDE DEF m, f, rb
    <3> QED BY <2>4, <2>5
  <2>7. w = g BY <1>1, <1>4 DEF Fresh
  <2>8. ASSUME NEW k \in Nat, NEW h \in [1 .. k -> Byte0] PROVE h \in Seq(Byte0) /\ Len(h) = k OBVIOUS
  <2> HIDE DEF g, w
  <2> QED BY <1>4, <2>6, <2>7, <2>8
<1>6. Read(recvBuffer') = u \o w
  <2> HIDE DEF w
  <2> QED BY <1>1, <1>3, <1>4, <1>5, MoveRearReads
<1>7. (u \o w) \o wire = FlattenSeq(Rest) BY <1>1 DEF IInv, Stream
<1>8. Rest' = Rest BY <1>1 DEF Rest
<1>9. u \o w \in Seq(Byte0)
  <2> HIDE DEF u, w
  <2> QED BY <1>3, <1>5, Joined
<1> DEFINE x == u \o w
<1> HIDE DEF u, w
<1>10. x \o <<>> = x BY <1>9, JoinedNone
<1> QED BY <1>1, <1>2, <1>6, <1>7, <1>8, <1>10

LEMMA StreamRecvedPacket == ASSUME IInv, RecvedPacket PROVE Stream'
<1> DEFINE rb == recvBuffer
           l  == FrontLength(rb)
           d  == Len(delivered)
           q  == pop(rb, l)
<1>1. /\ pc = "loop" /\ HasPacket(rb) /\ delivered' = Append(delivered, front(rb, l))
      /\ recvBuffer' = q /\ sent' = sent /\ wire' = wire /\ recvOv' = recvOv
  BY DEF RecvedPacket, clientVars, ioVars
<1>2. /\ q \in Rings /\ front(rb, l) = sent[d + 1] /\ d + 1 \in 1 .. Len(sent)
      /\ Read(q) \o wire = FlattenSeq(After(sent, d + 1))
  BY <1>1, PacketInFront
<1>3. recvOv # "done" BY <1>1 DEF IInv, Waiting
<1>4. Fresh' = <<>> BY <1>1, <1>3 DEF Fresh
<1>5. Len(delivered') = d + 1
  <2>1. sent[d + 1] \in Packet BY <1>2, Facts, ElementOfSeq
  <2>2. delivered \in Seq(Packet) BY Facts
  <2> QED BY <1>1, <1>2, <2>1, <2>2, AppendProperties
<1>6. Read(q) \o <<>> = Read(q)
  <2>1. Read(q) \in Seq(Byte0) BY <1>2, ReadIs
  <2> QED BY <2>1, JoinedNone
<1>7. Rest' = After(sent, d + 1) BY <1>1, <1>5 DEF Rest
<1> HIDE DEF q, d
<1> QED BY <1>1, <1>2, <1>4, <1>6, <1>7 DEF Stream

LEMMA StreamReuse == ASSUME IInv, Reuse PROVE Stream'
<1>1. /\ pc = "closed" /\ sent' = <<>> /\ wire' = <<>> /\ delivered' = <<>>
      /\ recvBuffer' = clear(recvBuffer) /\ recvOv' = recvOv
  BY DEF Reuse, ioVars
<1>2. Fresh' = <<>> BY <1>1 DEF Fresh, IInv, Waiting
<1>3. Read(recvBuffer') = <<>> BY <1>1, Facts, ClearReads
<1>4. Rest' = <<>>
  <2>1. After(<<>>, Len(<<>>)) = <<>> BY EmptySeq, AfterAll
  <2> QED BY <1>1, <2>1 DEF Rest
<1>5. (<<>> \o <<>>) \o <<>> = <<>> BY JoinedNone
<1> QED BY <1>1, <1>2, <1>3, <1>4, <1>5, FlattenEmpty DEF Stream

LEMMA StreamStep == ASSUME IInv, [Next]_vars PROVE Stream'
<1>1. ASSUME UNCHANGED <<sent, wire, delivered, recvBuffer, Fresh>>,
             pc' \notin {"stopped", "closed"} => pc \notin {"stopped", "closed"}
      PROVE  Stream'
  BY <1>1 DEF IInv, Stream, Rest
<1>2. ASSUME RecvEnds PROVE Stream'
  <2>1. UNCHANGED <<sent, wire, delivered, recvBuffer, pc>>
    BY <1>2 DEF RecvEnds, clientVars, sessionVars
  <2>2. Fresh = <<>> BY <1>2, FreshWhenIdle DEF RecvEnds
  <2>3. Fresh' = <<>>
    <3>1. recvOv' = "done" /\ transfer' = 0 BY <1>2 DEF RecvEnds
    <3>2. Fresh' = [i \in 1 .. 0 |-> recvBuffer'.cells[buffers'[i]]] BY <3>1 DEF Fresh
    <3>3. ASSUME NEW f, f = [i \in 1 .. 0 |-> recvBuffer'.cells[buffers'[i]]] PROVE f = <<>> BY <3>3
    <3> QED BY <3>2, <3>3
  <2> QED BY <1>1, <2>1, <2>2, <2>3
<1>3. ASSUME DisconnectReq PROVE Stream'
  BY <1>1, <1>3 DEF DisconnectReq, clientVars, ioVars, Fresh
<1>4. ASSUME RecvIO PROVE Stream'
  <2>1. UNCHANGED <<sent, wire, delivered, recvBuffer>> /\ pc = "recvIO"
    BY <1>4 DEF RecvIO, clientVars, sessionVars
  <2>2. recvOv # "done" /\ recvOv' # "done" BY <1>4 DEF RecvIO, IInv, Waiting
  <2>3. Fresh = <<>> /\ Fresh' = <<>> BY <2>2 DEF Fresh
  <2> QED BY <1>1, <2>1, <2>3
<1>5. ASSUME NoPacket PROVE Stream'
  BY <1>1, <1>5 DEF NoPacket, clientVars, sessionVars, ioVars, Fresh
<1>6. ASSUME UNCHANGED vars PROVE Stream'
  BY <1>1, <1>6 DEF vars, clientVars, sessionVars, ioVars, Fresh
<1> QED
  BY <1>2, <1>3, <1>4, <1>5, <1>6, StreamSend, StreamRecvComplete, StreamRecved,
     StreamRecvedPacket, StreamReuse DEF Next, Kernel, Worker

----------------------------------------------------------------------------
(* The other conjuncts.                                                     *)

LEMMA TypeStep == ASSUME IInv, [Next]_vars PROVE TypeOK'
<1> USE DEF TypeOK
<1>i. /\ TypeOK /\ recvBuffer \in Rings /\ MaxSize \in Nat
  <2>1. TypeOK /\ recvBuffer \in Rings BY Facts DEF IInv
  <2> QED BY <2>1, RingSizes
<1>1. ASSUME Send PROVE TypeOK'
  <2>1. PICK p \in Packet : sent' = Append(sent, p) /\ wire' = wire \o p BY <1>1, Sends
  <2>2. p \in Seq(Bytes) BY ByteSets
  <2>3. sent' \in Seq(Packet) /\ wire' \in Seq(Bytes)
    <3>1. wire \in Seq(Bytes) /\ sent \in Seq(Packet) BY <1>i
    <3>2. wire \o p \in Seq(Bytes) BY <2>2, <3>1, ConcatProperties
    <3> QED BY <2>1, <3>1, <3>2, AppendProperties
  <2> QED BY <1>1, <1>i, <2>3 DEF Send, sessionVars, ioVars
<1>2. ASSUME RecvComplete PROVE TypeOK'
  <2>1. PICK n \in 1 .. Len(wire), c \in [Cells -> Byte0] :
            /\ n <= Len(buffers) /\ n <= MaxSize
            /\ recvBuffer' = [recvBuffer EXCEPT !.cells = c]
            /\ transfer' = n /\ wire' = SubSeq(wire, n + 1, Len(wire))
            /\ \A i \in 1 .. n : c[buffers[i]] = wire[i]
            /\ \A k \in 1 .. Count(recvBuffer) :
                  c[Wrap(recvBuffer.headPtr + k)] = recvBuffer.cells[Wrap(recvBuffer.headPtr + k)]
    BY <1>2, Arrives
  <2>2. wire \in Seq(Bytes) /\ Len(wire) \in Nat BY <1>i, LenProperties
  <2>3. n \in 0 .. Len(wire) /\ n \in 0 .. MaxSize BY <1>i, <2>1, <2>2
  <2>4. wire' \in Seq(Bytes) BY <2>1, <2>2, <2>3, CutSeq
  <2>5. recvBuffer' \in Rings BY <1>i, <2>1, FillReads
  <2> QED BY <1>2, <1>i, <2>1, <2>3, <2>4, <2>5 DEF RecvComplete, clientVars, Rings
<1>3. ASSUME RecvEnds PROVE TypeOK'
  BY <1>3, <1>i DEF RecvEnds, clientVars, sessionVars
<1>4. ASSUME DisconnectReq PROVE TypeOK'
  BY <1>4, <1>i DEF DisconnectReq, clientVars, ioVars
<1>5. ASSUME RecvIO PROVE TypeOK'
  <2>1. FreeCells(recvBuffer) \in Seq(Cells) BY <1>i, FreeCellsAre
  <2> QED BY <1>5, <1>i, <2>1 DEF RecvIO, clientVars, sessionVars
<1>6. ASSUME Recved PROVE TypeOK'
  <2>1. recvBuffer' \in Rings
    <3>1. CASE recvBuffer' = recvBuffer BY <1>i, <3>1
    <3>2. CASE recvBuffer' = MoveRear(recvBuffer, transfer)
      <4>1. Wrap(recvBuffer.tailPtr + Min2(transfer, freeSize(recvBuffer))) \in Cells
        <5> DEFINE k == Min2(transfer, freeSize(recvBuffer))
        <5>1. /\ recvBuffer.tailPtr \in Nat /\ recvBuffer.tailPtr < BufferSize
              /\ freeSize(recvBuffer) \in Nat /\ freeSize(recvBuffer) <= MaxSize
          BY <1>i, RingSizes
        <5>2. MaxSize <= BufferSize BY SizeOfBuffer DEF MaxSize
        <5>3. k \in Nat /\ k <= BufferSize BY <1>i, <5>1, <5>2, SizeOfBuffer DEF Min2
        <5> HIDE DEF k
        <5>4. Wrap(recvBuffer.tailPtr + k) \in Cells BY <5>1, <5>3, WrapSum
        <5> QED BY <5>4 DEF k
      <4> QED BY <1>i, <3>2, <4>1 DEF MoveRear, Rings
    <3> QED BY <1>6, <3>1, <3>2 DEF Recved
  <2>2. 0 \in 0 .. MaxSize /\ <<>> \in Seq(Cells) BY <1>i
  <2>3. pc' \in {"closed", "stopped", "loop"} BY <1>6 DEF Recved
  <2> QED BY <1>6, <1>i, <2>1, <2>2, <2>3 DEF Recved, clientVars, Rings
<1>7. ASSUME RecvedPacket PROVE TypeOK'
  <2> DEFINE rb == recvBuffer
             l  == FrontLength(rb)
             d  == Len(delivered)
  <2>1. /\ pc = "loop" /\ HasPacket(rb) /\ delivered' = Append(delivered, front(rb, l))
        /\ recvBuffer' = pop(rb, l)
    BY <1>7 DEF RecvedPacket
  <2>2. pop(rb, l) \in Rings /\ front(rb, l) = sent[d + 1] /\ d + 1 \in 1 .. Len(sent)
    BY <2>1, PacketInFront
  <2>3. sent[d + 1] \in Packet BY <2>2, <1>i, ElementOfSeq
  <2>4. delivered' \in Seq(Packet) BY <1>i, <2>1, <2>2, <2>3, AppendProperties
  <2> HIDE DEF l, d
  <2> QED BY <1>7, <1>i, <2>1, <2>2, <2>4 DEF RecvedPacket, clientVars, ioVars, Rings
<1>8. ASSUME NoPacket PROVE TypeOK'
  BY <1>8, <1>i DEF NoPacket, clientVars, sessionVars, ioVars
<1>9. ASSUME Reuse PROVE TypeOK'
  <2>1. recvBuffer' \in Rings BY <1>9, <1>i, ClearReads DEF Reuse
  <2>2. connection' \in 1 .. MaxConnections BY <1>9, <1>i, RecvStreamAssumption DEF Reuse
  <2>3. sent' \in Seq(Packet) /\ delivered' \in Seq(Packet) /\ wire' \in Seq(Bytes)
    BY <1>9 DEF Reuse
  <2> QED BY <1>9, <1>i, <2>1, <2>2, <2>3 DEF Reuse, ioVars, Rings
<1>10. ASSUME UNCHANGED vars PROVE TypeOK'
  BY <1>10, <1>i DEF vars, clientVars, sessionVars, ioVars
<1> QED
  BY <1>1, <1>2, <1>3, <1>4, <1>5, <1>6, <1>7, <1>8, <1>9, <1>10 DEF Next, Kernel, Worker

LEMMA WaitingStep == ASSUME IInv, [Next]_vars PROVE Waiting'
<1> USE DEF Waiting
<1>i. Waiting BY DEF IInv
<1>1. ASSUME RecvComplete PROVE Waiting'
  <2>1. PICK n \in 1 .. Len(wire), c \in [Cells -> Byte0] :
            /\ n <= Len(buffers) /\ n <= MaxSize
            /\ recvBuffer' = [recvBuffer EXCEPT !.cells = c]
            /\ transfer' = n /\ wire' = SubSeq(wire, n + 1, Len(wire))
            /\ \A i \in 1 .. n : c[buffers[i]] = wire[i]
            /\ \A k \in 1 .. Count(recvBuffer) :
                  c[Wrap(recvBuffer.headPtr + k)] = recvBuffer.cells[Wrap(recvBuffer.headPtr + k)]
    BY <1>1, Arrives
  <2>2. FreeCells(recvBuffer') = FreeCells(recvBuffer) BY <2>1, Facts, FillReads
  <2> QED BY <1>1, <1>i, <2>1, <2>2 DEF RecvComplete
<1>2. ASSUME RecvEnds PROVE Waiting'
  <2>1. Len(buffers) \in Nat BY LenProperties DEF IInv, TypeOK
  <2> QED BY <1>2, <1>i, <2>1 DEF RecvEnds, sessionVars
<1>3. ASSUME RecvIO PROVE Waiting'
  <2>1. Len(FreeCells(recvBuffer)) \in Nat BY Facts, FreeCellsAre, LenProperties
  <2> QED BY <1>3, <1>i, <2>1 DEF RecvIO, sessionVars
<1>4. ASSUME Recved PROVE Waiting' BY <1>4, <1>i DEF Recved
<1>5. ASSUME RecvedPacket PROVE Waiting' BY <1>5, <1>i DEF RecvedPacket, ioVars
<1>6. ASSUME NoPacket PROVE Waiting' BY <1>6, <1>i DEF NoPacket, ioVars, sessionVars
<1>7. ASSUME Reuse PROVE Waiting' BY <1>7, <1>i DEF Reuse, ioVars
<1>8. ASSUME Send \/ DisconnectReq \/ UNCHANGED vars PROVE Waiting'
  BY <1>8, <1>i DEF Send, DisconnectReq, vars, sessionVars, ioVars
<1> QED
  BY <1>1, <1>2, <1>3, <1>4, <1>5, <1>6, <1>7, <1>8 DEF Next, Kernel, Worker

LEMMA AllCutStep == ASSUME IInv, [Next]_vars PROVE AllCut'
<1>i. AllCut BY DEF IInv
<1>1. ASSUME RecvComplete PROVE AllCut'
  <2>1. PICK n \in 1 .. Len(wire), c \in [Cells -> Byte0] :
            /\ n <= Len(buffers) /\ n <= MaxSize
            /\ recvBuffer' = [recvBuffer EXCEPT !.cells = c]
            /\ transfer' = n /\ wire' = SubSeq(wire, n + 1, Len(wire))
            /\ \A i \in 1 .. n : c[buffers[i]] = wire[i]
            /\ \A k \in 1 .. Count(recvBuffer) :
                  c[Wrap(recvBuffer.headPtr + k)] = recvBuffer.cells[Wrap(recvBuffer.headPtr + k)]
    BY <1>1, Arrives
  <2> DEFINE rb == recvBuffer
             q  == [rb EXCEPT !.cells = c]
  <2>2. /\ size(q) = size(rb) /\ \A m \in Nat : m <= Count(rb) => front(q, m) = front(rb, m)
    BY <2>1, Facts, FillReads
  <2>3. size(rb) = Count(rb) /\ Count(rb) \in Nat BY Facts, RingSizes
  <2>4. HeaderSize \in Nat BY RecvStreamAssumption
  <2> HIDE DEF q, rb
  <2>5. size(rb) < HeaderSize \/ front(q, HeaderSize) = front(rb, HeaderSize) BY <2>2, <2>3, <2>4
  <2>6. FrontLength(q) = FrontLength(rb) BY <2>2, <2>5 DEF FrontLength
  <2>7. HasPacket(q) <=> HasPacket(rb) BY <2>2, <2>6 DEF HasPacket
  <2>8. recvBuffer' = q BY <2>1 DEF q, rb
  <2> QED BY <1>1, <1>i, <2>7, <2>8 DEF RecvComplete, AllCut, rb
<1>2. ASSUME RecvEnds PROVE AllCut' BY <1>2, <1>i DEF RecvEnds, sessionVars, AllCut
<1>3. ASSUME RecvIO PROVE AllCut' BY <1>3, <1>i DEF RecvIO, sessionVars, AllCut
<1>4. ASSUME Recved PROVE AllCut' BY <1>4 DEF Recved, AllCut
<1>5. ASSUME RecvedPacket PROVE AllCut' BY <1>5 DEF RecvedPacket, AllCut
<1>6. ASSUME NoPacket PROVE AllCut' BY <1>6 DEF NoPacket, sessionVars, AllCut
<1>7. ASSUME Reuse PROVE AllCut'
  <2>1. recvBuffer' \in Rings /\ Count(recvBuffer') = 0 BY <1>7, Facts, ClearReads DEF Reuse
  <2>2. size(recvBuffer') = 0 BY <2>1, RingSizes
  <2>3. ~HasPacket(recvBuffer') BY <2>2, RecvStreamAssumption DEF HasPacket, FrontLength
  <2> QED BY <2>3 DEF AllCut
<1>8. ASSUME Send \/ DisconnectReq \/ UNCHANGED vars PROVE AllCut'
  BY <1>8, <1>i DEF Send, DisconnectReq, vars, sessionVars, ioVars, AllCut
<1> QED
  BY <1>1, <1>2, <1>3, <1>4, <1>5, <1>6, <1>7, <1>8 DEF Next, Kernel, Worker

LEMMA InPlaceStep == ASSUME IInv, [Next]_vars PROVE InPlace'
<1>i. InPlace BY DEF IInv
<1>t. /\ sent \in Seq(Packet) /\ delivered \in Seq(Packet)
      /\ Len(sent) \in Nat /\ Len(delivered) \in Nat /\ Len(delivered) <= Len(sent)
  BY Facts
<1>1. ASSUME Send PROVE InPlace'
  <2>1. PICK p \in Packet : sent' = Append(sent, p) BY <1>1, Sends
  <2>2. Len(sent') = Len(sent) + 1 /\ \A i \in 1 .. Len(sent) : sent'[i] = sent[i]
    BY <1>t, <2>1, AppendProperties
  <2>3. delivered' = delivered BY <1>1 DEF Send, sessionVars
  <2>4. \A i \in 1 .. Len(delivered) : i \in 1 .. Len(sent) BY <1>t
  <2> QED BY <1>i, <1>t, <2>2, <2>3, <2>4 DEF InPlace
<1>2. ASSUME RecvedPacket PROVE InPlace'
  <2> DEFINE d == Len(delivered)
             p == front(recvBuffer, FrontLength(recvBuffer))
  <2>1. delivered' = Append(delivered, p) /\ sent' = sent BY <1>2 DEF RecvedPacket, clientVars
  <2>2. d < Len(sent) /\ d + 1 \in 1 .. Len(sent) /\ p = sent[d + 1]
    BY <1>2, PacketInFront DEF RecvedPacket
  <2>3. p \in Packet BY <1>t, <2>2, ElementOfSeq
  <2> HIDE DEF p
  <2>4. /\ Len(delivered') = d + 1 /\ (\A i \in 1 .. d : delivered'[i] = delivered[i])
        /\ delivered'[d + 1] = p
    BY <1>t, <2>1, <2>3, AppendProperties
  <2>5. \A i \in 1 .. d + 1 : i \in 1 .. d \/ i = d + 1 BY <1>t
  <2>6. \A i \in 1 .. d : delivered[i] = sent[i] BY <1>i DEF InPlace
  <2> HIDE DEF d
  <2>7. \A i \in 1 .. d + 1 : delivered'[i] = sent[i] BY <2>2, <2>4, <2>5, <2>6
  <2>8. d + 1 <= Len(sent) BY <1>t, <2>2 DEF d
  <2> QED BY <2>1, <2>4, <2>7, <2>8 DEF InPlace
<1>3. ASSUME Reuse PROVE InPlace'
  <2>1. sent' = <<>> /\ delivered' = <<>> BY <1>3 DEF Reuse
  <2> QED BY <2>1 DEF InPlace
<1>4. ASSUME UNCHANGED <<sent, delivered>> PROVE InPlace' BY <1>4, <1>i DEF InPlace
<1>5. ASSUME RecvComplete \/ RecvEnds \/ DisconnectReq \/ RecvIO \/ Recved \/ NoPacket \/ UNCHANGED vars
      PROVE  UNCHANGED <<sent, delivered>>
  BY <1>5 DEF RecvComplete, RecvEnds, DisconnectReq, RecvIO, Recved, NoPacket, vars, clientVars,
     sessionVars
<1> QED BY <1>1, <1>2, <1>3, <1>4, <1>5 DEF Next, Kernel, Worker

LEMMA InitInv == Init => IInv
<1> SUFFICES ASSUME Init PROVE IInv OBVIOUS
<1> DEFINE e == [i \in Cells |-> NoByte]
<1>1. recvBuffer \in Rings /\ recvBuffer.headPtr = 0 /\ recvBuffer.tailPtr = 0
  <2>1. 0 \in Cells BY SizeOfBuffer DEF Cells
  <2> QED BY <2>1 DEF Init, Empty, Rings
<1>2. Count(recvBuffer) = 0 BY <1>1 DEF Count
<1>3. MaxSize \in Nat /\ size(recvBuffer) = 0 BY <1>1, <1>2, RingSizes
<1>4. TypeOK
  <2>1. 1 \in 1 .. MaxConnections BY RecvStreamAssumption
  <2>2. \A S : <<>> \in Seq(S) BY EmptySeq
  <2>3. connection = 1 /\ sent = <<>> /\ wire = <<>> /\ delivered = <<>> /\ buffers = <<>>
    BY DEF Init
  <2>4. sent \in Seq(Packet) /\ delivered \in Seq(Packet) /\ wire \in Seq(Bytes) /\ buffers \in Seq(Cells)
    BY <2>2, <2>3
  <2>5. recvOv = "idle" /\ transfer = 0 /\ cancelIOFlag = FALSE /\ pc = "recvIO" BY DEF Init
  <2>6. transfer \in 0 .. MaxSize BY <1>3, <2>5
  <2> QED BY <1>1, <2>1, <2>3, <2>4, <2>5, <2>6 DEF TypeOK, Rings
<1>5. Waiting BY DEF Init, Waiting
<1>6. AllCut BY <1>3, RecvStreamAssumption DEF AllCut, HasPacket, FrontLength
<1>7. InPlace
  <2>1. sent = <<>> /\ delivered = <<>> BY DEF Init
  <2> QED BY <2>1 DEF InPlace
<1>8. Stream
  <2>1. Read(recvBuffer) \in Seq(Byte0) /\ Len(Read(recvBuffer)) = 0 BY <1>1, <1>2, ReadIs
  <2>2. Read(recvBuffer) = <<>> BY <2>1
  <2>3. Fresh = <<>> /\ wire = <<>> BY DEF Init, Fresh
  <2>4. Rest = <<>>
    <3>1. After(<<>>, Len(<<>>)) = <<>> BY EmptySeq, AfterAll
    <3> QED BY <3>1 DEF Init, Rest
  <2>5. (<<>> \o <<>>) \o <<>> = <<>> BY JoinedNone
  <2> QED BY <2>2, <2>3, <2>4, <2>5, FlattenEmpty DEF Stream
<1> QED BY <1>4, <1>5, <1>6, <1>7, <1>8 DEF IInv

THEOREM ReceivingInvariant == Spec => []IInv
<1>1. IInv /\ [Next]_vars => IInv'
  BY TypeStep, WaitingStep, AllCutStep, InPlaceStep, StreamStep DEF IInv
<1> QED BY <1>1, InitInv, PTL DEF Spec

----------------------------------------------------------------------------
(* The properties.                                                          *)

\* The unread bytes, those of a completion and those on their way are the bytes
\* of the packets that were sent and not delivered.
THEOREM UnreadIsTheRest == Spec => []UnreadIsStream
<1>1. IInv => UnreadIsStream
  <2> SUFFICES ASSUME IInv PROVE UnreadIsStream OBVIOUS
  <2>1. Unread = Read(recvBuffer) BY DEF Unread, Read
  <2>2. Rest = SubSeq(sent, Len(delivered) + 1, Len(sent)) BY DEF Rest, After
  <2>3. TypeOK /\ Stream BY DEF IInv
  <2> QED BY <2>1, <2>2, <2>3 DEF UnreadIsStream, Stream
<1> QED BY <1>1, ReceivingInvariant, PTL

\* The kernel gets every free cell, once, and no cell with an unread byte.
THEOREM FreeCellsArePosted == Spec => []PostedCellsAreFree
<1>1. IInv => PostedCellsAreFree
  <2> SUFFICES ASSUME IInv, recvOv = "pending"
               PROVE  /\ Len(buffers) = MaxSize - size(recvBuffer)
                      /\ IsInjective(buffers)
                      /\ \A i \in 1 .. Len(buffers), k \in 1 .. size(recvBuffer) :
                             buffers[i] # Wrap(recvBuffer.headPtr + k)
    BY DEF PostedCellsAreFree
  <2> DEFINE rb == recvBuffer
             m  == MaxSize - Count(rb)
  <2>1. rb \in Rings /\ buffers = FreeCells(rb) BY Facts DEF IInv, Waiting
  <2>2. /\ buffers \in Seq(Cells) /\ Len(buffers) = m /\ size(rb) = Count(rb)
        /\ \A i \in 1 .. m : buffers[i] = Wrap(rb.tailPtr + i)
    BY <2>1, FreeCellsAre, RingSizes
  <2>3. DOMAIN buffers = 1 .. m
    <3> HIDE DEF m
    <3> QED BY <2>2, LenProperties
  <2>4. ASSUME NEW i \in 1 .. m
        PROVE  /\ \A j \in 1 .. m : Wrap(rb.tailPtr + i) = Wrap(rb.tailPtr + j) => i = j
               /\ \A k \in 1 .. Count(rb) : Wrap(rb.tailPtr + i) # Wrap(rb.headPtr + k)
    BY <2>1, FreeIsFree
  <2> HIDE DEF m, rb
  <2>5. IsInjective(buffers) BY <2>2, <2>3, <2>4 DEF IsInjective
  <2>6. \A i \in 1 .. m, k \in 1 .. Count(rb) : buffers[i] # Wrap(rb.headPtr + k) BY <2>2, <2>4
  <2> QED BY <2>2, <2>5, <2>6 DEF m, rb
<1> QED BY <1>1, ReceivingInvariant, PTL

\* While a receive is pending no whole packet is in the buffer.
THEOREM WholePacketsAreCut == Spec => []NoPacketWaits
<1>1. IInv => NoPacketWaits BY DEF IInv, Waiting, AllCut, NoPacketWaits
<1> QED BY <1>1, ReceivingInvariant, PTL

\* The session gives OnRecv what PacketStream promises: every step sends a
\* packet, delivers the next one, begins with the next client, or changes
\* neither what was sent nor what was delivered.
THEOREM ReceivingIsPacketStream == Spec => IsPacketStream
<1>1. Init => P!Init BY DEF Init, P!Init
<1>2. IInv /\ [Next]_vars => [P!Send \/ P!Deliver \/ P!Reconnect]_<<sent, delivered>>
  <2> SUFFICES ASSUME IInv, [Next]_vars
               PROVE  P!Send \/ P!Deliver \/ P!Reconnect \/ UNCHANGED <<sent, delivered>>
    OBVIOUS
  <2>1. ASSUME Send PROVE P!Send
    <3>1. PICK p \in Packet : sent' = Append(sent, p) BY <2>1, Sends
    <3> QED BY <2>1, <3>1 DEF Send, sessionVars, P!Send
  <2>2. ASSUME RecvedPacket PROVE P!Deliver
    <3> DEFINE p == front(recvBuffer, FrontLength(recvBuffer))
    <3>1. delivered' = Append(delivered, p) /\ sent' = sent BY <2>2 DEF RecvedPacket, clientVars
    <3>2. Len(delivered) < Len(sent) /\ p = sent[Len(delivered) + 1]
      BY <2>2, PacketInFront DEF RecvedPacket
    <3> HIDE DEF p
    <3> QED BY <3>1, <3>2 DEF P!Deliver
  <2>3. ASSUME Reuse PROVE P!Reconnect BY <2>3 DEF Reuse, P!Reconnect
  <2>4. ASSUME \/ RecvComplete \/ RecvEnds \/ DisconnectReq \/ RecvIO \/ Recved \/ NoPacket
               \/ UNCHANGED vars
        PROVE  UNCHANGED <<sent, delivered>>
    BY <2>4 DEF RecvComplete, RecvEnds, DisconnectReq, RecvIO, Recved, NoPacket, vars, clientVars,
       sessionVars
  <2> QED BY <2>1, <2>2, <2>3, <2>4 DEF Next, Kernel, Worker
<1> QED BY <1>1, <1>2, ReceivingInvariant, PTL DEF Spec, IsPacketStream, P!Spec
================================================================================
