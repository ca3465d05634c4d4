------------------------- MODULE SendPipelineProofs -------------------------
(***************************************************************************)
(* What the properties of SendPipeline rest on, for any number of          *)
(* sessions, workers and packets and any list of sends: each packet is in  *)
(* one place of a session and counted once for it; sendFlag belongs to one *)
(* send; sendedBuffer holds what that send took; the bytes of a packet are *)
(* those its only sendReq made; and the serials of a session's packets,    *)
(* from what its client got to what waits in the port, are in order.       *)
(* First, of the codec: decryption takes back what encryption did, for     *)
(* chars of any size, any ^ that is its own inverse, any keys and any text. *)
(***************************************************************************)
EXTENDS SendPipeline, SequenceLemmas, FiniteSetTheorems

----------------------------------------------------------------------------
(* The codec.  encryption and Total are recursive functions: that functions *)
(* with these equations exist is an induction, done on the smallest         *)
(* counterexample.                                                          *)

\* A chain of numbers from 0, each made from the one before it and its place.
Chain(f, step, k) == f[0] = 0 /\ \A i \in 1 .. k : f[i] = step[<<f[i - 1], i>>]

LEMMA ZeroIsByte == 0 \in Byte
BY CodecAssumption DEF Byte

LEMMA ChainExists ==
  ASSUME NEW D, 0 \in D, NEW n \in Nat, NEW step \in [D \X (1 .. n) -> D]
  PROVE  \E f \in [0 .. n -> D] : Chain(f, step, n)
<1> DEFINE Bad == {k \in 0 .. n : ~ \E f \in [0 .. k -> D] : Chain(f, step, k)}
<1>1. ASSUME Bad # {} PROVE FALSE
  <2>1. Bad \in SUBSET Nat OBVIOUS
  <2>2. PICK k \in Bad : \A m \in Bad : k <= m
    <3> HIDE DEF Bad
    <3> QED BY <1>1, <2>1, LeastExists
  <2>3. k # 0
    <3> DEFINE f == [i \in 0 .. 0 |-> 0]
    <3>1. f \in [0 .. 0 -> D] /\ Chain(f, step, 0) BY DEF Chain
    <3> QED BY <2>2, <3>1
  <2>4. k - 1 \in 0 .. n /\ k - 1 \notin Bad BY <2>2, <2>3
  <2>5. PICK f \in [0 .. k - 1 -> D] : Chain(f, step, k - 1) BY <2>4
  <2> DEFINE g == [i \in 0 .. k |-> IF i = k THEN step[<<f[k - 1], k>>] ELSE f[i]]
  <2>6. k \in 1 .. n BY <2>2, <2>3
  <2>7. step[<<f[k - 1], k>>] \in D BY <2>5, <2>6
  <2>8. g \in [0 .. k -> D] BY <2>5, <2>6, <2>7
  <2>9. Chain(g, step, k)
    <3>1. g[0] = 0 BY <2>5, <2>6 DEF Chain
    <3>2. ASSUME NEW i \in 1 .. k PROVE g[i] = step[<<g[i - 1], i>>]
      <4>1. g[i - 1] = f[i - 1] BY <2>6
      <4>2. CASE i = k
        <5>1. g[k] = step[<<f[k - 1], k>>] BY <2>6
        <5> HIDE DEF g
        <5> QED BY <4>1, <4>2, <5>1
      <4>3. CASE i # k BY <4>1, <4>3, <2>5, <2>6 DEF Chain
      <4> QED BY <4>2, <4>3
    <3> QED BY <3>1, <3>2 DEF Chain
  <2> QED BY <2>2, <2>8, <2>9
<1>2. Bad = {} BY <1>1
<1>3. n \in 0 .. n OBVIOUS
<1>4. ~ ~ \E f \in [0 .. n -> D] : Chain(f, step, n) BY <1>2, <1>3
<1> QED BY <1>4

\* What every step of a chain keeps holds all along it.
LEMMA ChainStays ==
  ASSUME NEW D, NEW n \in Nat, NEW f, f[0] \in D,
         \A i \in 1 .. n : f[i - 1] \in D => f[i] \in D
  PROVE  \A i \in 0 .. n : f[i] \in D
<1> DEFINE Bad == {i \in 0 .. n : f[i] \notin D}
<1>1. ASSUME Bad # {} PROVE FALSE
  <2>1. Bad \in SUBSET Nat OBVIOUS
  <2>2. PICK k \in Bad : \A m \in Bad : k <= m
    <3> HIDE DEF Bad
    <3> QED BY <1>1, <2>1, LeastExists
  <2>3. k \in 1 .. n BY <2>2
  <2>4. k - 1 \in 0 .. n /\ k - 1 \notin Bad BY <2>2, <2>3
  <2> QED BY <2>2, <2>3, <2>4
<1> QED BY <1>1

LEMMA CharIsByte == \A n \in Int : Char(n) \in Byte
BY CodecAssumption DEF Char, Byte

\* A packet with a header: its size is that of its payload.
Framed == {p \in [size : Nat, randKey : Byte, body : Seq(Byte)] : Len(p.body) = p.size + 1}

LEMMA PacketTypes ==
  ASSUME NEW p \in Framed
  PROVE  /\ p \in [size : Nat, randKey : Byte, body : Seq(Byte)]
         /\ p.size \in Nat /\ p.size + 1 \in Nat /\ p.randKey \in Int /\ staticKey \in Int
         /\ p.body = [i \in 1 .. p.size + 1 |-> p.body[i]]
         /\ \A i \in 1 .. p.size + 1 : p.body[i] \in Byte
         /\ \A b \in Byte : b \in Int
BY CodecAssumption DEF Framed, Byte

\* What the two recursive functions of encryption are.
LEMMA EncryptionChains ==
  ASSUME NEW p \in Framed
  PROVE  \E pP, pE \in [0 .. p.size + 1 -> Byte] :
            /\ pP[0] = 0 /\ pE[0] = 0
            /\ \A i \in 1 .. p.size + 1 :
                 /\ pP[i] = Xor(p.body[i], Char(pP[i - 1] + p.randKey + i))
                 /\ pE[i] = Xor(pP[i], Char(pE[i - 1] + staticKey + i))
            /\ encryption(p) = [p EXCEPT !.body = [i \in 1 .. p.size + 1 |-> pE[i]]]
<1> DEFINE N == p.size + 1
           IsP(f) == f = [i \in 0 .. N |->
                            IF i = 0 THEN 0 ELSE Xor(p.body[i], Char(f[i - 1] + p.randKey + i))]
           pP == CHOOSE f : IsP(f)
           IsE(f) == f = [i \in 0 .. N |->
                            IF i = 0 THEN 0 ELSE Xor(pP[i], Char(f[i - 1] + staticKey + i))]
           pE == CHOOSE f : IsE(f)
<1>1. /\ p.size \in Nat /\ N \in Nat /\ p.randKey \in Int /\ staticKey \in Int
      /\ \A i \in 1 .. N : p.body[i] \in Byte
      /\ \A b \in Byte : b \in Int
  <2> HIDE DEF pP, pE
  <2> QED BY PacketTypes
<1>2. encryption(p) = [p EXCEPT !.body = [i \in 1 .. N |-> pE[i]]]
  BY Zenon DEF encryption
<1>3. \E f \in [0 .. N -> Byte] : IsP(f)
  <2> DEFINE step == [x \in Byte \X (1 .. N) |->
                        Xor(p.body[x[2]], Char(x[1] + p.randKey + x[2]))]
  <2>1. ASSUME NEW a \in Byte, NEW i \in 1 .. N
        PROVE  /\ step[<<a, i>>] = Xor(p.body[i], Char(a + p.randKey + i))
               /\ step[<<a, i>>] \in Byte
    <3>1. Char(a + p.randKey + i) \in Byte BY <1>1, CharIsByte
    <3> QED BY <1>1, <3>1, CodecAssumption
  <2>2. step \in [Byte \X (1 .. N) -> Byte] BY <2>1
  <2>3. PICK f \in [0 .. N -> Byte] : Chain(f, step, N)
    <3>1. N \in Nat BY <1>1
    <3> HIDE DEF step, N
    <3> QED BY <3>1, <2>2, ChainExists, ZeroIsByte
  <2>4. ASSUME NEW i \in 1 .. N PROVE f[i] = Xor(p.body[i], Char(f[i - 1] + p.randKey + i))
    <3>1. i - 1 \in 0 .. N /\ f[i - 1] \in Byte BY <1>1
    <3> HIDE DEF step
    <3> QED BY <2>1, <2>3, <3>1 DEF Chain
  <2>5. IsP(f)
    <3> HIDE DEF step
    <3> QED BY <2>3, <2>4, <1>1 DEF Chain
  <2> QED BY <2>5
<1>4. IsP(pP) BY <1>3
<1>5. pP \in [0 .. N -> Byte]
  <2>1. ASSUME NEW i \in 1 .. N, pP[i - 1] \in Byte PROVE pP[i] \in Byte
    <3>1. pP[i] = Xor(p.body[i], Char(pP[i - 1] + p.randKey + i))
      <4> HIDE DEF pP
      <4> QED BY <1>1, <1>4
    <3>2. Char(pP[i - 1] + p.randKey + i) \in Byte
      <4> HIDE DEF pP
      <4> QED BY <1>1, <2>1, CharIsByte
    <3> HIDE DEF pP
    <3> QED BY <1>1, <3>1, <3>2, CodecAssumption
  <2>2. pP[0] \in Byte
    <3> HIDE DEF pP
    <3> QED BY <1>1, <1>4, ZeroIsByte
  <2> HIDE DEF pP, N
  <2>3. \A i \in 0 .. N : pP[i] \in Byte BY <1>1, <2>1, <2>2, ChainStays
  <2>4. DOMAIN pP = 0 .. N /\ pP = [i \in DOMAIN pP |-> pP[i]] BY <1>4
  <2> QED BY <2>3, <2>4
<1>6. \E f \in [0 .. N -> Byte] : IsE(f)
  <2> DEFINE step == [x \in Byte \X (1 .. N) |-> Xor(pP[x[2]], Char(x[1] + staticKey + x[2]))]
  <2> HIDE DEF pP
  <2>1. ASSUME NEW a \in Byte, NEW i \in 1 .. N
        PROVE  /\ step[<<a, i>>] = Xor(pP[i], Char(a + staticKey + i))
               /\ step[<<a, i>>] \in Byte
    <3>1. Char(a + staticKey + i) \in Byte BY <1>1, CharIsByte
    <3>2. pP[i] \in Byte BY <1>1, <1>5
    <3> QED BY <3>1, <3>2, CodecAssumption
  <2>2. step \in [Byte \X (1 .. N) -> Byte] BY <2>1
  <2>3. PICK f \in [0 .. N -> Byte] : Chain(f, step, N)
    <3>1. N \in Nat BY <1>1
    <3> HIDE DEF step, N
    <3> QED BY <3>1, <2>2, ChainExists, ZeroIsByte
  <2>4. ASSUME NEW i \in 1 .. N PROVE f[i] = Xor(pP[i], Char(f[i - 1] + staticKey + i))
    <3>1. i - 1 \in 0 .. N /\ f[i - 1] \in Byte BY <1>1
    <3> HIDE DEF step
    <3> QED BY <2>1, <2>3, <3>1 DEF Chain
  <2>5. IsE(f)
    <3> HIDE DEF step
    <3> QED BY <2>3, <2>4, <1>1 DEF Chain
  <2> QED BY <2>5
<1>7. IsE(pE)
  <2> HIDE DEF pP
  <2> QED BY <1>6
<1>8. pE \in [0 .. N -> Byte]
  <2> HIDE DEF pP, pE
  <2>1. ASSUME NEW i \in 1 .. N, pE[i - 1] \in Byte PROVE pE[i] \in Byte
    <3>1. pE[i] = Xor(pP[i], Char(pE[i - 1] + staticKey + i)) BY <1>1, <1>7
    <3>2. Char(pE[i - 1] + staticKey + i) \in Byte BY <1>1, <2>1, CharIsByte
    <3>3. pP[i] \in Byte BY <1>1, <1>5
    <3> QED BY <3>1, <3>2, <3>3, CodecAssumption
  <2>2. pE[0] \in Byte BY <1>1, <1>7, ZeroIsByte
  <2> HIDE DEF N
  <2>3. \A i \in 0 .. N : pE[i] \in Byte BY <1>1, <2>1, <2>2, ChainStays
  <2>4. DOMAIN pE = 0 .. N /\ pE = [i \in DOMAIN pE |-> pE[i]] BY <1>7
  <2> QED BY <2>3, <2>4
<1>9. /\ pP[0] = 0 /\ pE[0] = 0
      /\ \A i \in 1 .. N : /\ pP[i] = Xor(p.body[i], Char(pP[i - 1] + p.randKey + i))
                           /\ pE[i] = Xor(pP[i], Char(pE[i - 1] + staticKey + i))
  <2> HIDE DEF pP, pE
  <2>1. pP[0] = 0 /\ pE[0] = 0 BY <1>1, <1>4, <1>7
  <2>2. ASSUME NEW i \in 1 .. N
        PROVE  pP[i] = Xor(p.body[i], Char(pP[i - 1] + p.randKey + i))
    BY <1>1, <1>4
  <2>3. ASSUME NEW i \in 1 .. N PROVE pE[i] = Xor(pP[i], Char(pE[i - 1] + staticKey + i))
    BY <1>1, <1>7
  <2> QED BY <2>1, <2>2, <2>3
<1> HIDE DEF pP, pE
<1> QED BY <1>2, <1>5, <1>8, <1>9

\* decryption gives back the packet encryption was given, header and body.
THEOREM DecryptionInverts == \A p \in Framed : decrypted(encryption(p)) = p
<1> SUFFICES ASSUME NEW p \in Framed PROVE decrypted(encryption(p)) = p OBVIOUS
<1> DEFINE N == p.size + 1
           e == encryption(p)
<1>1. /\ p \in [size : Nat, randKey : Byte, body : Seq(Byte)]
      /\ p.size \in Nat /\ N \in Nat /\ p.randKey \in Int /\ staticKey \in Int
      /\ p.body = [i \in 1 .. N |-> p.body[i]]
      /\ \A i \in 1 .. N : p.body[i] \in Byte
      /\ \A b \in Byte : b \in Int
  BY PacketTypes
<1>2. PICK pP, pE \in [0 .. N -> Byte] :
        /\ pP[0] = 0 /\ pE[0] = 0
        /\ \A i \in 1 .. N : /\ pP[i] = Xor(p.body[i], Char(pP[i - 1] + p.randKey + i))
                             /\ pE[i] = Xor(pP[i], Char(pE[i - 1] + staticKey + i))
        /\ e = [p EXCEPT !.body = [i \in 1 .. N |-> pE[i]]]
  BY EncryptionChains
<1> HIDE DEF e
<1>3. /\ e.size = p.size /\ e.randKey = p.randKey
      /\ e.body = [i \in 1 .. N |-> pE[i]]
  BY <1>1, <1>2
<1> DEFINE ee(i) == IF i = 0 THEN 0 ELSE e.body[i]
           pp(i) == IF i = 0 THEN 0 ELSE Xor(ee(i), Char(ee(i - 1) + staticKey + i))
<1>4. \A i \in 0 .. N : ee(i) = pE[i] BY <1>1, <1>2, <1>3
<1>5. ASSUME NEW i \in 0 .. N PROVE pp(i) = pP[i]
  <2>1. CASE i = 0 BY <2>1, <1>2
  <2>2. CASE i # 0
    <3>1. i \in 1 .. N /\ i - 1 \in 0 .. N BY <2>2, <1>1
    <3>2. ee(i) = pE[i] /\ ee(i - 1) = pE[i - 1] BY <3>1, <1>4
    <3>3. pP[i] \in Byte /\ pE[i - 1] \in Byte BY <3>1, <1>1, <1>2
    <3>4. Char(pE[i - 1] + staticKey + i) \in Byte BY <3>1, <3>3, <1>1, CharIsByte
    <3>5. pE[i] = Xor(pP[i], Char(pE[i - 1] + staticKey + i)) BY <3>1, <1>2
    <3>6. Xor(pE[i], Char(pE[i - 1] + staticKey + i)) = pP[i]
      BY <3>3, <3>4, <3>5, CodecAssumption
    <3> HIDE DEF ee
    <3> QED BY <2>2, <3>2, <3>6
  <2> QED BY <2>1, <2>2
<1>6. ASSUME NEW i \in 1 .. N
      PROVE  Xor(pp(i), Char(pp(i - 1) + p.randKey + i)) = p.body[i]
  <2>1. i \in 0 .. N /\ i - 1 \in 0 .. N BY <1>1
  <2>2. pp(i) = pP[i] /\ pp(i - 1) = pP[i - 1] BY <2>1, <1>5
  <2>3. pP[i - 1] \in Byte /\ p.body[i] \in Byte BY <2>1, <1>1, <1>2
  <2>4. Char(pP[i - 1] + p.randKey + i) \in Byte
    <3>1. pP[i - 1] \in Int /\ p.randKey \in Int /\ i \in Int BY <2>3, <1>1
    <3>2. pP[i - 1] + p.randKey + i \in Int BY <3>1
    <3> QED BY <3>2, CharIsByte
  <2>5. pP[i] = Xor(p.body[i], Char(pP[i - 1] + p.randKey + i)) BY <1>2
  <2>6. Xor(pP[i], Char(pP[i - 1] + p.randKey + i)) = p.body[i]
    BY <2>3, <2>4, <2>5, CodecAssumption
  <2> HIDE DEF pp
  <2> QED BY <2>2, <2>6
<1>7. decrypted(e) =
        [e EXCEPT !.body = [i \in 1 .. e.size + 1 |->
                              Xor(pp(i), Char(pp(i - 1) + e.randKey + i))]]
  BY Zenon DEF decrypted
<1>8. [i \in 1 .. N |-> Xor(pp(i), Char(pp(i - 1) + p.randKey + i))] = p.body
  <2> HIDE DEF pp
  <2> QED BY <1>1, <1>6
<1>9. [e EXCEPT !.body = p.body] = p BY <1>1, <1>2
<1> HIDE DEF pp
<1>10. decrypted(e) = [e EXCEPT !.body = p.body] BY <1>3, <1>7, <1>8
<1> QED BY <1>9, <1>10 DEF e

\* Total adds up, one number after the other.
LEMMA TotalSums ==
  ASSUME NEW s \in Seq(Nat)
  PROVE  \E sum \in [0 .. Len(s) -> Nat] :
            /\ sum[0] = 0 /\ \A i \in 1 .. Len(s) : sum[i] = sum[i - 1] + s[i]
            /\ Total(s) = sum[Len(s)]
<1> DEFINE N == Len(s)
           IsSum(f) == f = [i \in 0 .. N |-> IF i = 0 THEN 0 ELSE f[i - 1] + s[i]]
           sum == CHOOSE f : IsSum(f)
           step == [x \in Nat \X (1 .. N) |-> x[1] + s[x[2]]]
<1>1. N \in Nat /\ \A i \in 1 .. N : s[i] \in Nat
  <2> HIDE DEF sum, step, IsSum
  <2> QED OBVIOUS
<1>2. PICK f \in [0 .. N -> Nat] : Chain(f, step, N)
  <2>1. step \in [Nat \X (1 .. N) -> Nat] BY <1>1
  <2> HIDE DEF step, N
  <2> QED BY <2>1, <1>1, ChainExists
<1>3. ASSUME NEW i \in 1 .. N PROVE f[i] = f[i - 1] + s[i]
  <2>1. i - 1 \in 0 .. N /\ f[i - 1] \in Nat
    <3> HIDE DEF N, sum, step, IsSum
    <3>1. i - 1 \in 0 .. N BY <1>1
    <3> QED BY <3>1
  <2>2. step[<<f[i - 1], i>>] = f[i - 1] + s[i] BY <2>1
  <2> HIDE DEF step
  <2> QED BY <1>2, <2>2 DEF Chain
<1>4. IsSum(f)
  <2> HIDE DEF step
  <2> QED BY <1>1, <1>2, <1>3 DEF Chain
<1>5. IsSum(sum) BY <1>4
<1>6. ASSUME NEW i \in 1 .. N PROVE sum[i] = sum[i - 1] + s[i]
  <2> HIDE DEF sum
  <2>1. i \in 0 .. N /\ i # 0 BY <1>1
  <2> QED BY <1>5, <2>1
<1>7. sum[0] = 0
  <2> HIDE DEF sum
  <2> QED BY <1>1, <1>5
<1>8. sum \in [0 .. N -> Nat]
  <2> HIDE DEF sum, N
  <2>1. ASSUME NEW i \in 1 .. N, sum[i - 1] \in Nat PROVE sum[i] \in Nat BY <1>1, <1>6, <2>1
  <2>4. sum[0] \in Nat BY <1>7
  <2>2. \A i \in 0 .. N : sum[i] \in Nat BY <1>1, <2>1, <2>4, ChainStays
  <2>3. DOMAIN sum = 0 .. N /\ sum = [i \in DOMAIN sum |-> sum[i]] BY <1>5
  <2> QED BY <2>2, <2>3
<1>9. Total(s) = sum[N] BY Zenon DEF Total
<1> HIDE DEF sum
<1> QED BY <1>6, <1>7, <1>8, <1>9

LEMMA TotalIsNat == ASSUME NEW s \in Seq(Byte) PROVE Total(s) \in Nat
<1>1. Byte \subseteq Nat BY CodecAssumption DEF Byte
<1>2. s \in Seq(Nat) BY <1>1, SeqMonotonic
<1>3. Len(s) \in Nat OBVIOUS
<1> QED BY <1>2, <1>3, TotalSums

\* More numbers add up to more.
LEMMA TotalGrows ==
  ASSUME NEW a \in Seq(Nat \ {0}), NEW b \in Seq(Nat \ {0}), Len(a) < Len(b),
         \A i \in 1 .. Len(a) : a[i] = b[i]
  PROVE  Total(a) < Total(b)
<1> DEFINE m == Len(a)
           n == Len(b)
<1>1. m \in Nat /\ n \in Nat /\ m < n /\ a \in Seq(Nat) /\ b \in Seq(Nat)
      /\ \A i \in 1 .. n : b[i] \in Nat \ {0}
  OBVIOUS
<1>2. PICK sa \in [0 .. m -> Nat] :
         /\ sa[0] = 0 /\ \A i \in 1 .. m : sa[i] = sa[i - 1] + a[i]
         /\ Total(a) = sa[m]
  BY <1>1, TotalSums
<1>3. PICK sb \in [0 .. n -> Nat] :
         /\ sb[0] = 0 /\ \A i \in 1 .. n : sb[i] = sb[i - 1] + b[i]
         /\ Total(b) = sb[n]
  BY <1>1, TotalSums
<1>4. \A i \in 1 .. m : a[i] = b[i] OBVIOUS
<1> HIDE DEF m, n
<1>5. sa[m] = sb[m]
  <2> DEFINE Same == [i \in 0 .. m |-> IF sa[i] = sb[i] THEN 1 ELSE 0]
         One == {1}
  <2>1. ASSUME NEW i \in 1 .. m, Same[i - 1] \in One PROVE Same[i] \in One
    <3>1. i - 1 \in 0 .. m /\ i \in 0 .. m /\ i \in 1 .. n BY <1>1
    <3>2. sa[i - 1] = sb[i - 1] BY <2>1, <3>1
    <3>3. sa[i] = sb[i] BY <1>2, <1>3, <1>4, <3>1, <3>2
    <3> QED BY <3>1, <3>3
  <2>2. Same[0] \in One BY <1>1, <1>2, <1>3
  <2>3. \A i \in 0 .. m : Same[i] \in One
    <3> HIDE DEF Same, One
    <3> QED BY <1>1, <2>1, <2>2, ChainStays
  <2>4. m \in 0 .. m BY <1>1
  <2> QED BY <2>3, <2>4
<1>6. sb[m] < sb[n]
  <2> DEFINE Above == [i \in 0 .. n - m - 1 |-> IF sb[m] < sb[m + i + 1] THEN 1 ELSE 0]
         One == {1}
  <2>1. n - m - 1 \in Nat BY <1>1
  <2>2. ASSUME NEW k \in m .. n - 1 PROVE sb[k] \in Nat /\ sb[k + 1] \in Nat /\ sb[k] < sb[k + 1]
    <3>1. k \in 0 .. n /\ k + 1 \in 1 .. n /\ k + 1 \in 0 .. n /\ k + 1 - 1 = k BY <1>1
    <3>2. sb[k + 1] = sb[k] + b[k + 1] BY <1>3, <3>1
    <3>3. sb[k] \in Nat /\ b[k + 1] \in Nat \ {0} BY <1>1, <1>3, <3>1
    <3> QED BY <3>2, <3>3
  <2>3. Above[0] \in One
    <3>1. m \in m .. n - 1 /\ m + 0 + 1 = m + 1 /\ 0 \in 0 .. n - m - 1 BY <1>1
    <3> QED BY <2>2, <3>1
  <2>4. ASSUME NEW i \in 1 .. n - m - 1, Above[i - 1] \in One PROVE Above[i] \in One
    <3>1. m + i \in m .. n - 1 /\ m \in m .. n - 1 /\ m + (i - 1) + 1 = m + i
          /\ i - 1 \in 0 .. n - m - 1 /\ i \in 0 .. n - m - 1
      BY <1>1
    <3>2. sb[m] < sb[m + i] BY <2>4, <3>1
    <3>3. sb[m] \in Nat /\ sb[m + i] \in Nat /\ sb[m + i + 1] \in Nat /\ sb[m + i] < sb[m + i + 1]
      BY <2>2, <3>1
    <3>4. sb[m] < sb[m + i + 1] BY <3>2, <3>3
    <3> QED BY <3>1, <3>4
  <2>5. \A i \in 0 .. n - m - 1 : Above[i] \in One
    <3> HIDE DEF Above, One
    <3> QED BY <2>1, <2>3, <2>4, ChainStays
  <2>6. n - m - 1 \in 0 .. n - m - 1 /\ m + (n - m - 1) + 1 = n BY <1>1
  <2> QED BY <2>5, <2>6
<1> QED BY <1>2, <1>3, <1>5, <1>6

\* A payload under a header setHeader wrote is a packet.
LEMMA HeaderMakesPacket ==
  ASSUME NEW s \in Seq(Byte), NEW key \in Byte
  PROVE  /\ setHeader(Plain(s), key) \in Framed
         /\ setHeader(Plain(s), key) = [size |-> Len(s), randKey |-> key, body |-> <<CheckSum(s)>> \o s]
<1>1. payload(Plain(s)) = s BY ZeroIsByte DEF payload, Plain
<1>2. CheckSum(s) \in Byte BY TotalIsNat, CharIsByte DEF CheckSum
<1>3. <<CheckSum(s)>> \o s \in Seq(Byte) /\ Len(<<CheckSum(s)>> \o s) = Len(s) + 1 BY <1>2
<1> QED BY <1>1, <1>3 DEF setHeader, Framed

\* What sendPacket puts on the wire, with any key, passes the test of the
\* receiver's checksum, and the payload read is the one that was written.
THEOREM WhatIsSentIsRead ==
  \A s \in Seq(Byte), key \in Byte :
     LET p == decrypted(encryption(setHeader(Plain(s), key)))
     IN  ChecksumHolds(p) /\ p.size = Len(s) /\ payload(p) = s
<1> SUFFICES ASSUME NEW s \in Seq(Byte), NEW key \in Byte
             PROVE  LET p == decrypted(encryption(setHeader(Plain(s), key)))
                    IN  ChecksumHolds(p) /\ p.size = Len(s) /\ payload(p) = s
  OBVIOUS
<1> DEFINE p == setHeader(Plain(s), key)
<1>1. decrypted(encryption(p)) = p BY HeaderMakesPacket, DecryptionInverts
<1>2. p.size = Len(s) /\ p.body = <<CheckSum(s)>> \o s BY HeaderMakesPacket
<1>3. CheckSum(s) \in Byte BY TotalIsNat, CharIsByte DEF CheckSum
<1>4. payload(p) = s BY <1>2, <1>3 DEF payload
<1>5. ChecksumHolds(p)
  <2>1. p.body[1] = CheckSum(s) BY <1>2, <1>3
  <2>2. CheckSum(s) - CheckSum(s) = 0 BY <1>3, CodecAssumption DEF Byte
  <2>3. Char(0) = 0 BY CodecAssumption DEF Char
  <2> HIDE DEF p
  <2> QED BY <1>4, <2>1, <2>2, <2>3 DEF ChecksumHolds
<1> HIDE DEF p
<1>6. ChecksumHolds(decrypted(encryption(p))) /\ decrypted(encryption(p)).size = Len(s)
      /\ payload(decrypted(encryption(p))) = s
  BY <1>1, <1>2, <1>4, <1>5
<1> QED BY <1>6 DEF p

----------------------------------------------------------------------------
(* The inductive invariant. *)

Collecting(w, s) == At(w, "collect") /\ wsession[w] = s
Clearing(w, s)   == wpc[w] \in {"undo", "fail_clear", "clear"} /\ wsession[w] = s

\* What s has a reference to.
Held(s) == Range(sendedBuffer[s]) \union Range(sendBuffer[s]) \union Range(posts[s]) \union InHand(s)
Holders(p) == {s \in Sessions : p \in Held(s)}

\* The content thread has still to send to s.
Ahead(s) == \E i \in DOMAIN targets : targets[i][1] = s

Bodies    == [size : Nat, randKey : Byte, body : Seq(Byte) \ {<<>>}]
Messages  == [serial : Nat, text : Seq(Byte), copies : Nat]
Delivered == [serial : Nat, copies : Nat, readable : BOOLEAN]
Labels == {"idle", "collect", "send_chk", "send_io", "undo", "fail_clear", "clear", "cancel"}

Types ==
    /\ TypeOK
    /\ targets \in Seq(Sessions \X Nat) /\ serial \in Nat /\ connection \in [Sessions -> Nat]
    /\ buffer \in [Packets -> Bodies] /\ message \in [Packets -> Messages]
    /\ wpc \in [Workers -> Labels]
    /\ released \in [Sessions -> BOOLEAN] /\ sendFlag \in [Sessions -> BOOLEAN]
    /\ received \in [Sessions -> Seq(Delivered)]
    /\ raced \in [Sessions -> BOOLEAN] /\ failed \in [Sessions -> BOOLEAN]

\* Who is idle has nothing; who collects has a packet of its own.
Control ==
    /\ cpc = "idle" <=> cpacket = Nobody
    /\ cpc = "encrypt" => targets # <<>>
    /\ \A i, j \in DOMAIN targets : targets[i][1] = targets[j][1] => i = j
    /\ \A w \in Workers : /\ At(w, "idle") <=> wsession[w] = Nobody
                          /\ At(w, "collect") <=> wpacket[w] # Nobody

\* A packet is in one place of a session.
OnePlaceOf(s) ==
    /\ IsInjective(sendedBuffer[s]) /\ IsInjective(sendBuffer[s]) /\ IsInjective(posts[s])
    /\ Range(sendedBuffer[s]) \intersect Range(sendBuffer[s]) = {}
    /\ Range(sendedBuffer[s]) \intersect Range(posts[s]) = {}
    /\ Range(sendBuffer[s]) \intersect Range(posts[s]) = {}
    /\ InHand(s) \intersect Range(sendedBuffer[s]) = {}
    /\ InHand(s) \intersect Range(sendBuffer[s]) = {}
    /\ InHand(s) \intersect Range(posts[s]) = {}
OwnHands ==
    \A v, w \in Workers :
        At(v, "collect") /\ At(w, "collect") /\ wsession[v] = wsession[w]
        /\ wpacket[v] = wpacket[w] => v = w
OnePlace == OwnHands /\ \A s \in Sessions : OnePlaceOf(s)

\* The references are those of the content thread and of the sessions.
Counted ==
    /\ \A p \in Packets :
          /\ referenceCounter[p] = (IF cpacket = p THEN 1 ELSE 0) + Cardinality(Holders(p))
          /\ p \in pool <=> referenceCounter[p] = 0
    /\ \A s \in Sessions : Ahead(s) => cpacket \notin Held(s)

\* Nothing is on its way to a session that was released.
IsEmpty(s) ==
    /\ posts[s] = <<>> /\ sendOv[s] = "idle"
    /\ sendBuffer[s] = <<>> /\ sendedBuffer[s] = <<>>
    /\ \A w \in Workers : wsession[w] # s
    /\ ~(cpc = "encrypt" /\ Target = s)
DeadIsEmpty == \A s \in Sessions : released[s] => IsEmpty(s)

\* sendFlag belongs to the send in progress, or to one worker that clears it.
FlagOwnedOf(s) ==
    /\ ~sendFlag[s] => sendOv[s] = "idle"
    /\ \A w \in Workers : Clearing(w, s) => sendFlag[s] /\ sendOv[s] = "idle"
    /\ \A v, w \in Workers : Clearing(v, s) /\ Clearing(w, s) => v = w
FlagOwned == \A s \in Sessions : FlagOwnedOf(s)

\* What is in sendedBuffer: what is with the kernel is at its end, and without
\* a failed WSASend there is nothing else, and nothing when no send is open.
SendedOf(s) ==
    /\ sendOv[s] # "idle" =>
          wsabufs[s] # <<>> /\ \E a \in Seq(Packets) : sendedBuffer[s] = a \o wsabufs[s]
    /\ ~failed[s] /\ sendOv[s] \in {"pending", "ok"} => sendedBuffer[s] = wsabufs[s]
    /\ ~failed[s] /\ (~sendFlag[s] \/ \E w \in Workers : Clearing(w, s)) => sendedBuffer[s] = <<>>
SendedIsSent ==
    /\ wrapped => \E s \in Sessions : failed[s]
    /\ \A s \in Sessions : SendedOf(s)

\* The bytes of a packet.
HeadedText(p) == \E key \in Byte : buffer[p] = setHeader(Plain(message[p].text), key)
EncryptedText(p) ==
    \E key \in Byte : buffer[p] = encryption(setHeader(Plain(message[p].text), key))

\* On its way to the clients a packet that one sendReq was made for is the
\* encrypted text; before that it is the text, with a header or without.
WireText(p) ==
    Holders(p) # {} =>
        /\ message[p].copies > 0
        /\ p = cpacket /\ cpc = "encrypt" => message[p].copies > 1
        /\ message[p].copies = 1 => EncryptedText(p)
ContentText ==
    /\ cpc = "encrypt" =>
          /\ buffer[cpacket] \in Framed
          /\ message[cpacket].copies > 0
          /\ message[cpacket].copies = 1 => HeadedText(cpacket)
    /\ cpc = "send" /\ message[cpacket].copies = 0 => buffer[cpacket] = Plain(message[cpacket].text)
ReadText(s) ==
    \A i \in DOMAIN received[s] : received[s][i].copies = 1 => received[s][i].readable
BytesOfText ==
    ContentText /\ (\A p \in Packets : WireText(p)) /\ \A s \in Sessions : ReadText(s)

\* The packets that are on their way to a client, in their order: with the
\* kernel, in sendBuffer, in the hand of a worker, in the port.
OnWire(s)  == IF sendOv[s] = "pending" THEN wsabufs[s] ELSE <<>>
Carried(s) == IF \E w \in Workers : Collecting(w, s)
              THEN <<wpacket[CHOOSE w \in Workers : Collecting(w, s)]>> ELSE <<>>
OneHand(s) == \A v, w \in Workers : Collecting(v, s) /\ Collecting(w, s) => v = w
Queue(s)   == ((OnWire(s) \o sendBuffer[s]) \o Carried(s)) \o posts[s]

\* The numbers of the packets a client got, and of those it is still to get.
Got(s) == [i \in DOMAIN received[s] |-> received[s][i].serial]
Serials(m, q) == [i \in DOMAIN q |-> m[q[i]].serial]
Line(s) == Got(s) \o Serials(message, Queue(s))

\* Numbers in their order, the last of them n only if n is not still to come.
Rising(q) == \A i, j \in DOMAIN q : i < j => q[i] < q[j]
Fits(q, n, ahead) == Rising(q) /\ \A x \in Range(q) : x <= n /\ (x = n => ~ahead)

InLine ==
    /\ cpc # "idle" => message[cpacket].serial = serial
    /\ \A s \in Sessions : ~raced[s] => OneHand(s) /\ Fits(Line(s), serial, Ahead(s))

IInv ==
    /\ Types /\ Control /\ OnePlace /\ Counted /\ DeadIsEmpty /\ FlagOwned /\ SendedIsSent
    /\ BytesOfText /\ InLine

----------------------------------------------------------------------------
(* Sequences and packets. *)

\* A function on 1 .. n is a sequence.
LEMMA MapIsSeq == ASSUME NEW S, NEW n \in Nat, NEW f \in [1 .. n -> S]
                  PROVE  f \in Seq(S) /\ Len(f) = n /\ DOMAIN f = 1 .. n
OBVIOUS

LEMMA TextIsSeq == ASSUME NEW k \in Nat, NEW len \in Nat PROVE Text(k, len) \in Seq(Byte)
<1>1. Char(k) \in Byte BY CharIsByte
<1>2. Text(k, len) \in [1 .. len -> Byte] BY <1>1 DEF Text
<1> QED BY <1>2, MapIsSeq

LEMMA PlainType == ASSUME NEW s \in Seq(Byte)
                   PROVE  Plain(s) \in Bodies /\ payload(Plain(s)) = s
<1>1. 0 \in Byte BY ZeroIsByte
<1>2. <<0>> \o s \in Seq(Byte) \ {<<>>} /\ Tail(<<0>> \o s) = s BY <1>1
<1> QED BY <1>1, <1>2 DEF Plain, Bodies, payload

LEMMA PayloadType == ASSUME NEW b \in Bodies
                     PROVE  payload(b) \in Seq(Byte) /\ Len(payload(b)) \in Nat
BY HeadTailProperties, LenProperties DEF Bodies, payload

LEMMA FramedIsBody == Framed \subseteq Bodies
<1> SUFFICES ASSUME NEW p \in Framed PROVE p \in Bodies OBVIOUS
<1>1. p.body # <<>> /\ p.size \in Nat /\ p.randKey \in Byte /\ p.body \in Seq(Byte)
  BY EmptySeq DEF Framed
<1>2. p = [size |-> p.size, randKey |-> p.randKey, body |-> p.body] BY DEF Framed
<1> QED BY <1>1, <1>2 DEF Bodies

LEMMA HeaderFrames == ASSUME NEW b \in Bodies, NEW key \in Byte
                      PROVE  setHeader(b, key) \in Framed
<1>1. payload(b) \in Seq(Byte) BY PayloadType
<1>2. setHeader(Plain(payload(b)), key) = setHeader(b, key) BY <1>1, PlainType DEF setHeader
<1> QED BY <1>1, <1>2, HeaderMakesPacket

LEMMA EncryptionFrames == ASSUME NEW p \in Framed PROVE encryption(p) \in Framed
<1>1. PICK pP, pE \in [0 .. p.size + 1 -> Byte] :
         encryption(p) = [p EXCEPT !.body = [i \in 1 .. p.size + 1 |-> pE[i]]]
  BY EncryptionChains
<1>2. p \in [size : Nat, randKey : Byte, body : Seq(Byte)] /\ p.size + 1 \in Nat BY PacketTypes
<1> DEFINE b == [i \in 1 .. p.size + 1 |-> pE[i]]
<1>3. b \in [1 .. p.size + 1 -> Byte] BY <1>2
<1>4. b \in Seq(Byte) /\ Len(b) = p.size + 1 BY <1>2, <1>3, MapIsSeq, SMTT(60)
<1> HIDE DEF b
<1>5. [p EXCEPT !.body = b] \in Framed BY <1>2, <1>4 DEF Framed
<1> QED BY <1>1, <1>5 DEF b

LEMMA SizeIsPositive == ASSUME Types, NEW p \in Packets PROVE Size(p) \in Nat \ {0}
<1>1. buffer[p] \in Bodies BY DEF Types
<1>2. Len(payload(buffer[p])) \in Nat BY <1>1, PayloadType
<1> QED BY <1>2, PipelineAssumption DEF Size

----------------------------------------------------------------------------
(* References. *)

LEMMA HoldersFinite ==
  ASSUME NEW p
  PROVE  IsFiniteSet(Holders(p)) /\ Cardinality(Holders(p)) \in Nat
<1>1. Holders(p) \subseteq Sessions BY DEF Holders
<1>2. IsFiniteSet(Holders(p)) BY <1>1, FS_Subset, PipelineAssumption
<1> QED BY <1>2, FS_CardinalityType

\* What is sent or about to be has a reference.
LEMMA HeldIsCounted ==
  ASSUME Types, Counted, NEW p \in Packets, p = cpacket \/ Holders(p) # {}
  PROVE  referenceCounter[p] > 0 /\ p \notin pool
<1>1. /\ referenceCounter[p] = (IF cpacket = p THEN 1 ELSE 0) + Cardinality(Holders(p))
      /\ p \in pool <=> referenceCounter[p] = 0
  BY DEF Counted
<1>2. IsFiniteSet(Holders(p)) /\ Cardinality(Holders(p)) \in Nat BY HoldersFinite
<1>3. Holders(p) # {} => Cardinality(Holders(p)) # 0 BY <1>2, FS_EmptySet
<1> QED BY <1>1, <1>2, <1>3

\* The packets that are put back by Drop had one reference, the others keep
\* what is in them.
LEMMA DropTypes ==
  ASSUME Types, NEW ps \in SUBSET Packets, \A p \in ps : referenceCounter[p] > 0, Drop(ps)
  PROVE  /\ pool' \subseteq Packets /\ referenceCounter' \in [Packets -> Nat]
         /\ buffer' \in [Packets -> Bodies] /\ message' \in [Packets -> Messages]
         /\ \A p \in Packets :
               /\ referenceCounter'[p] = referenceCounter[p] - (IF p \in ps THEN 1 ELSE 0)
               /\ p \in pool' <=> p \in pool \/ (p \in ps /\ referenceCounter'[p] = 0)
               /\ referenceCounter'[p] # 0 =>
                     buffer'[p] = buffer[p] /\ message'[p] = message[p]
<1> DEFINE gone == {p \in ps : referenceCounter[p] = 1}
<1>1. /\ referenceCounter' =
            [p \in Packets |-> referenceCounter[p] - IF p \in ps THEN 1 ELSE 0]
      /\ pool' = pool \union gone
      /\ buffer' = [p \in Packets |-> IF p \in gone THEN Plain(<<>>) ELSE buffer[p]]
      /\ message' = [p \in Packets |-> IF p \in gone THEN NoMessage ELSE message[p]]
  BY DEF Drop, Free
<1>2. Plain(<<>>) \in Bodies /\ NoMessage \in Messages
  BY EmptySeq, PlainType DEF NoMessage, Messages
<1>3. /\ referenceCounter \in [Packets -> Nat] /\ pool \subseteq Packets
      /\ buffer \in [Packets -> Bodies] /\ message \in [Packets -> Messages]
  BY DEF Types, TypeOK
<1>4. \A p \in Packets :
         referenceCounter'[p] = referenceCounter[p] - (IF p \in ps THEN 1 ELSE 0)
  BY <1>1
<1>5. \A p \in Packets : referenceCounter[p] \in Nat /\ referenceCounter'[p] \in Nat
  BY <1>3, <1>4
<1>6. \A p \in Packets : p \in gone <=> p \in ps /\ referenceCounter'[p] = 0
  BY <1>4, <1>5
<1>7. gone \subseteq Packets OBVIOUS
<1> HIDE DEF gone
<1>8. referenceCounter' \in [Packets -> Nat] BY <1>1, <1>5
<1>9. pool' \subseteq Packets /\ buffer' \in [Packets -> Bodies]
      /\ message' \in [Packets -> Messages]
  BY <1>1, <1>2, <1>3, <1>7
<1>10. ASSUME NEW p \in Packets
       PROVE /\ p \in pool' <=> p \in pool \/ (p \in ps /\ referenceCounter'[p] = 0)
             /\ referenceCounter'[p] # 0 => buffer'[p] = buffer[p] /\ message'[p] = message[p]
  BY <1>1, <1>6
<1> QED BY <1>4, <1>8, <1>9, <1>10

----------------------------------------------------------------------------
(* Types. *)

USE DEF vars, packetVars, contentVars, lifeVars, bufferVars, ioVars, workerVars, historyVars,
        sessionVars, At, Goto, Begin

\* A worker that collects has a session and a packet.
LEMMA CollectHas ==
  ASSUME Types, Control, NEW w \in Workers
  PROVE  /\ wpc[w] # "idle" => wsession[w] \in Sessions
         /\ wpc[w] = "collect" => wpacket[w] \in Packets
BY DEF Types, TypeOK, Control

LEMMA ContentHas ==
  ASSUME Types, Control
  PROVE  /\ cpc # "idle" => cpacket \in Packets
         /\ targets # <<>> =>
               /\ Head(targets) \in Sessions \X Nat /\ Target \in Sessions
               /\ Target = targets[1][1] /\ Ahead(Target) /\ Tail(targets) \in Seq(Sessions \X Nat)
<1>1. cpc # "idle" => cpacket \in Packets BY DEF Types, TypeOK, Control
<1>2. ASSUME targets # <<>>
      PROVE  /\ Head(targets) \in Sessions \X Nat /\ Target \in Sessions
             /\ Target = targets[1][1] /\ Ahead(Target) /\ Tail(targets) \in Seq(Sessions \X Nat)
  <2>1. targets \in Seq(Sessions \X Nat) BY DEF Types
  <2>2. Head(targets) \in Sessions \X Nat /\ Head(targets) = targets[1]
        /\ Tail(targets) \in Seq(Sessions \X Nat) /\ 1 \in DOMAIN targets
    BY <1>2, <2>1, HeadTailProperties, EmptySeq, LenProperties
  <2> QED BY <2>2 DEF Target, Ahead
<1> QED BY <1>1, <1>2

\* Everything a session holds is counted.
LEMMA HeldHasHolder ==
  ASSUME NEW s \in Sessions, NEW p \in Held(s) PROVE Holders(p) # {}
BY DEF Holders

LEMMA HeldArePackets ==
  ASSUME Types, Control, NEW s \in Sessions
  PROVE  Held(s) \subseteq Packets
<1>1. /\ sendBuffer[s] \in Seq(Packets) /\ sendedBuffer[s] \in Seq(Packets)
      /\ posts[s] \in Seq(Packets)
  BY DEF Types, TypeOK
<1>2. InHand(s) \subseteq Packets BY CollectHas DEF InHand
<1> QED BY <1>1, <1>2, RangeOfSeq DEF Held

LEMMA BatchCuts ==
  ASSUME Types, NEW s \in Sessions
  PROVE  /\ Batch(s) \in Seq(Packets)
         /\ \E n \in 0 .. Len(sendBuffer[s]) :
               /\ Len(Batch(s)) = n /\ Batch(s) = SubSeq(sendBuffer[s], 1, n)
               /\ sendBuffer[s] # <<>> => n > 0
<1>1. sendBuffer[s] \in Seq(Packets) /\ Len(sendBuffer[s]) \in Nat BY DEF Types, TypeOK
<1> DEFINE l == Len(sendBuffer[s])
           n == Min({SendBatch, l})
<1>2. SendBatch \in Nat \ {0} /\ l \in Nat BY <1>1, PipelineAssumption
<1>3. n \in {SendBatch, l} /\ n <= SendBatch /\ n <= l
  <2> HIDE DEF l
  <2>1. \E x \in {SendBatch, l} : \A y \in {SendBatch, l} : x <= y BY <1>2
  <2> QED BY <2>1 DEF Min
<1>4. n \in 0 .. l /\ (l # 0 => n > 0)
  <2> HIDE DEF l, n
  <2> QED BY <1>2, <1>3
<1>5. sendBuffer[s] # <<>> => l # 0 BY <1>1, EmptySeq
<1>6. Batch(s) \in Seq(Packets) /\ Len(Batch(s)) = n /\ Batch(s) = SubSeq(sendBuffer[s], 1, n)
  <2>1. Batch(s) = SubSeq(sendBuffer[s], 1, n) BY DEF Batch
  <2> HIDE DEF n
  <2> QED BY <1>1, <1>4, <2>1, CutSeq
<1> HIDE DEF n, l
<1> QED BY <1>4, <1>5, <1>6 DEF l

\* What the content may send next.
LEMMA SendsType ==
  ASSUME Types, serial < Len(Sends), NEW m \in Sends[serial + 1]
  PROVE  m.size \in Nat /\ m.to \in Seq(Sessions) /\ IsInjective(m.to)
<1>1. serial + 1 \in DOMAIN Sends /\ Sends \in Seq(SUBSET [size : Nat, to : Seq(Sessions)])
  BY PipelineAssumption DEF Types
<1>2. Sends[serial + 1] \subseteq [size : Nat, to : Seq(Sessions)] BY <1>1
<1> QED BY <1>1, <1>2, PipelineAssumption

\* A sendBuffer is full or it is not.
LEMMA QueueBound ==
  ASSUME Types, NEW s \in Sessions
  PROVE  ~(Len(sendBuffer[s]) < SendQueueCap /\ Len(sendBuffer[s]) >= SendQueueCap)
<1>1. Len(sendBuffer[s]) \in Nat /\ SendQueueCap \in Nat
  BY PipelineAssumption, LenProperties DEF Types, TypeOK
<1> QED BY <1>1

\* What TakeSend pops are the first packets of sendedBuffer.
LEMMA TakeSendPops ==
  ASSUME Types, NEW w \in Workers, NEW r \in Sessions, TakeSend(w, r)
  PROVE  \E n \in 0 .. Len(sendedBuffer[r]) :
           /\ Drop(Range(SubSeq(sendedBuffer[r], 1, n)))
           /\ sendedBuffer' =
                 [sendedBuffer EXCEPT ![r] = SubSeq(@, n + 1, Len(sendedBuffer[r]))]
<1>1. Len(sendedBuffer[r]) \in Nat BY LenProperties DEF Types, TypeOK
<1>2. 1 .. Len(sendedBuffer[r]) \subseteq 0 .. Len(sendedBuffer[r])
      /\ Len(sendedBuffer[r]) \in 0 .. Len(sendedBuffer[r])
  BY <1>1
<1> QED BY <1>2, Zenon DEF TakeSend

LEMMA DeliveriesType ==
  ASSUME Types, NEW s \in Sessions
  PROVE  [i \in DOMAIN wsabufs[s] |-> Delivery(wsabufs[s][i])] \in Seq(Delivered)
<1>1. /\ wsabufs[s] \in Seq(Packets) /\ Len(wsabufs[s]) \in Nat
      /\ DOMAIN wsabufs[s] = 1 .. Len(wsabufs[s])
      /\ \A i \in DOMAIN wsabufs[s] : wsabufs[s][i] \in Packets
  BY LenProperties, ElementOfSeq DEF Types, TypeOK
<1>2. ASSUME NEW p \in Packets PROVE Delivery(p) \in Delivered
  <2>1. message[p].serial \in Nat /\ message[p].copies \in Nat BY DEF Types, Messages
  <2> DEFINE b == ChecksumHolds(decrypted(buffer[p])) /\ payload(decrypted(buffer[p])) = message[p].text
  <2>2. Delivery(p) = [serial |-> message[p].serial, copies |-> message[p].copies, readable |-> b]
    BY DEF Delivery
  <2>3. b \in BOOLEAN OBVIOUS
  <2> HIDE DEF b
  <2> QED BY <2>1, <2>2, <2>3 DEF Delivered
<1> DEFINE d == [i \in 1 .. Len(wsabufs[s]) |-> Delivery(wsabufs[s][i])]
<1>3. d \in [1 .. Len(wsabufs[s]) -> Delivered] BY <1>1, <1>2
<1>4. d \in Seq(Delivered) BY <1>1, <1>3, MapIsSeq
<1> QED BY <1>1, <1>4

LEMMA TypesStep == ASSUME IInv, Next PROVE Types'
<1>nx. Next OBVIOUS
<1>c. Types /\ Control /\ Counted /\ BytesOfText BY DEF IInv
<1>t. /\ pool \subseteq Packets /\ referenceCounter \in [Packets -> Nat]
      /\ cpc \in {"idle", "send", "encrypt"} /\ cpacket \in Packets \union {Nobody}
      /\ sendBuffer \in [Sessions -> Seq(Packets)] /\ sendedBuffer \in [Sessions -> Seq(Packets)]
      /\ posts \in [Sessions -> Seq(Packets)] /\ wsabufs \in [Sessions -> Seq(Packets)]
      /\ sendOv \in [Sessions -> {"idle", "pending", "ok", "failed"}]
      /\ wsession \in [Workers -> Sessions \union {Nobody}]
      /\ wpacket \in [Workers -> Packets \union {Nobody}]
      /\ targets \in Seq(Sessions \X Nat) /\ serial \in Nat /\ connection \in [Sessions -> Nat]
      /\ buffer \in [Packets -> Bodies] /\ message \in [Packets -> Messages]
      /\ wpc \in [Workers -> Labels]
      /\ released \in [Sessions -> BOOLEAN] /\ sendFlag \in [Sessions -> BOOLEAN]
      /\ received \in [Sessions -> Seq(Delivered)]
      /\ raced \in [Sessions -> BOOLEAN] /\ failed \in [Sessions -> BOOLEAN]
  BY <1>c DEF Types, TypeOK
<1>nobody. Nobody \notin Sessions /\ Nobody \notin Packets BY PipelineAssumption
<1>1. ASSUME NewPacket PROVE Types'
  <2>1. PICK p \in pool, m \in Sends[serial + 1] :
           /\ pool' = pool \ {p}
           /\ referenceCounter' = [referenceCounter EXCEPT ![p] = @ + 1]
           /\ buffer' = [buffer EXCEPT ![p] = Plain(Text(serial + 1, m.size))]
           /\ message' = [message EXCEPT ![p] =
                  [serial |-> serial + 1, text |-> Text(serial + 1, m.size), copies |-> 0]]
           /\ cpacket' = p
           /\ targets' = [i \in DOMAIN m.to |-> <<m.to[i], connection[m.to[i]]>>]
    BY <1>1 DEF NewPacket
  <2>10. serial < Len(Sends) BY <1>1 DEF NewPacket
  <2>2. m.size \in Nat /\ m.to \in Seq(Sessions) BY <1>c, <2>1, <2>10, SendsType
  <2>11. serial + 1 \in Nat BY <1>t
  <2>3. Text(serial + 1, m.size) \in Seq(Byte) BY <2>2, <2>11, TextIsSeq
  <2>4. Plain(Text(serial + 1, m.size)) \in Bodies BY <2>3, PlainType
  <2>5. targets' \in Seq(Sessions \X Nat)
    <3>1. Len(m.to) \in Nat /\ DOMAIN m.to = 1 .. Len(m.to) /\ m.to \in [1 .. Len(m.to) -> Sessions]
      BY <2>2, LenProperties
    <3>2. targets' \in [1 .. Len(m.to) -> Sessions \X Nat] BY <1>t, <2>1, <3>1
    <3> QED BY <3>1, <3>2, MapIsSeq
  <2>6. buffer' \in [Packets -> Bodies] BY <1>t, <2>1, <2>4
  <2>7. message' \in [Packets -> Messages]
    <3>1. [serial |-> serial + 1, text |-> Text(serial + 1, m.size), copies |-> 0] \in Messages
      BY <1>t, <2>3 DEF Messages
    <3> HIDE DEF Messages, Text
    <3> QED BY <1>t, <2>1, <3>1
  <2>8. referenceCounter' \in [Packets -> Nat] /\ cpacket' \in Packets /\ pool' \subseteq Packets
    BY <1>t, <2>1
  <2>9. serial' \in Nat /\ cpc' = "send" BY <1>1, <1>t DEF NewPacket
  <2> QED BY <1>1, <1>t, <2>5, <2>6, <2>7, <2>8, <2>9 DEF NewPacket, Types, TypeOK, Labels
<1>2. ASSUME SendReqGone PROVE Types'
  BY <1>2, <1>c, <1>t, ContentHas DEF SendReqGone, Types, TypeOK, Labels
<1>3. ASSUME SendReqHeader PROVE Types'
  <2>1. cpacket \in Packets BY <1>3, <1>c, ContentHas DEF SendReqHeader
  <2>2. buffer' \in [Packets -> Bodies]
    <3>1. PICK key \in RandKeys : buffer' = [buffer EXCEPT ![cpacket] = setHeader(@, key)]
      BY <1>3 DEF SendReqHeader
    <3>2. key \in Byte /\ buffer[cpacket] \in Bodies BY <1>t, <2>1, PipelineAssumption
    <3>3. setHeader(buffer[cpacket], key) \in Bodies BY <3>2, HeaderFrames, FramedIsBody
    <3> QED BY <1>t, <2>1, <3>1, <3>3
  <2>3. message' \in [Packets -> Messages]
    <3>1. message[cpacket] \in Messages BY <1>t, <2>1
    <3>2. [message[cpacket] EXCEPT !.copies = @ + 1] \in Messages BY <3>1 DEF Messages
    <3>3. message' = [message EXCEPT ![cpacket] = [message[cpacket] EXCEPT !.copies = @ + 1]]
      BY <1>3 DEF SendReqHeader
    <3> HIDE DEF Messages
    <3> QED BY <1>t, <2>1, <3>2, <3>3
  <2> QED BY <1>3, <1>t, <2>2, <2>3 DEF SendReqHeader, Types, TypeOK, Labels
<1>4. ASSUME SendReqPost PROVE Types'
  <2>1. cpacket \in Packets /\ Target \in Sessions /\ targets' \in Seq(Sessions \X Nat)
    BY <1>4, <1>c, ContentHas DEF SendReqPost, Control
  <2>2. buffer' \in [Packets -> Bodies]
    <3>1. encryption(buffer[cpacket]) \in Bodies
      BY <1>4, <1>c, EncryptionFrames, FramedIsBody DEF SendReqPost, BytesOfText, ContentText
    <3> QED BY <1>4, <1>t, <2>1, <3>1 DEF SendReqPost
  <2>3. posts' \in [Sessions -> Seq(Packets)]
    <3>1. posts[Target] \in Seq(Packets) BY <1>t, <2>1
    <3>2. Append(posts[Target], cpacket) \in Seq(Packets) BY <2>1, <3>1, AppendProperties
    <3> DEFINE longer == Append(posts[Target], cpacket)
    <3>3. posts' = [posts EXCEPT ![Target] = longer] BY <1>4 DEF SendReqPost
    <3>4. longer \in Seq(Packets) BY <3>2
    <3> HIDE DEF longer
    <3> QED BY <1>t, <2>1, <3>3, <3>4
  <2>4. referenceCounter' \in [Packets -> Nat]
    <3>1. referenceCounter' = [referenceCounter EXCEPT ![cpacket] = @ + 1] BY <1>4 DEF SendReqPost
    <3> QED BY <1>t, <2>1, <3>1
  <2> QED BY <1>4, <1>t, <2>1, <2>2, <2>3, <2>4 DEF SendReqPost, Types, TypeOK, Labels
<1>5. ASSUME SendEnd PROVE Types'
  <2>1. cpacket \in Packets /\ {cpacket} \in SUBSET Packets /\ referenceCounter[cpacket] > 0
    BY <1>5, <1>c, ContentHas, HeldIsCounted DEF SendEnd
  <2>2. Drop({cpacket}) BY <1>5 DEF SendEnd
  <2>3. /\ pool' \subseteq Packets /\ referenceCounter' \in [Packets -> Nat]
        /\ buffer' \in [Packets -> Bodies] /\ message' \in [Packets -> Messages]
    BY <1>c, <2>1, <2>2, DropTypes
  <2> QED BY <1>5, <1>t, <2>3 DEF SendEnd, Types, TypeOK, Labels
<1>6. ASSUME NEW w \in Workers, NEW r \in Sessions, TakePost(w, r) PROVE Types'
  <2>1. posts[r] \in Seq(Packets) /\ posts[r] # <<>> BY <1>6, <1>t DEF TakePost
  <2>2. Head(posts[r]) \in Packets /\ Tail(posts[r]) \in Seq(Packets) BY <2>1, HeadTailProperties
  <2> QED BY <1>6, <1>t, <2>2 DEF TakePost, Types, TypeOK, Labels
<1>7. ASSUME NEW w \in Workers, NEW r \in Sessions, TakeSend(w, r) PROVE Types'
  <2>1. PICK n \in 0 .. Len(sendedBuffer[r]) :
           /\ Drop(Range(SubSeq(sendedBuffer[r], 1, n)))
           /\ sendedBuffer' =
                 [sendedBuffer EXCEPT ![r] = SubSeq(@, n + 1, Len(sendedBuffer[r]))]
    BY <1>7, <1>c, TakeSendPops
  <2>2. sendedBuffer[r] \in Seq(Packets) BY <1>t
  <2> DEFINE a == SubSeq(sendedBuffer[r], 1, n)
             b == SubSeq(sendedBuffer[r], n + 1, Len(sendedBuffer[r]))
  <2>3. a \in Seq(Packets) /\ b \in Seq(Packets) /\ sendedBuffer[r] = a \o b BY <2>2, CutSeq
  <2>4. Drop(Range(a)) /\ sendedBuffer' = [sendedBuffer EXCEPT ![r] = b] BY <2>1
  <2> HIDE DEF a, b
  <2>5. Range(a) \in SUBSET Packets /\ Range(a) \subseteq Held(r)
    BY <2>3, RangeOfSeq, RangeConcatenation DEF Held
  <2>6. \A p \in Range(a) : referenceCounter[p] > 0
    BY <1>c, <2>5, HeldHasHolder, HeldIsCounted
  <2>7. /\ pool' \subseteq Packets /\ referenceCounter' \in [Packets -> Nat]
        /\ buffer' \in [Packets -> Bodies] /\ message' \in [Packets -> Messages]
    BY <1>c, <2>4, <2>5, <2>6, DropTypes
  <2>8. sendedBuffer' \in [Sessions -> Seq(Packets)] BY <1>t, <2>3, <2>4
  <2>9. wsabufs' \in [Sessions -> Seq(Packets)] BY <1>7, <1>t DEF TakeSend
  <2> QED BY <1>7, <1>t, <2>7, <2>8, <2>9 DEF TakeSend, Types, TypeOK, Labels
<1>8. ASSUME NEW w \in Workers, NEW r \in Sessions, TakeFailed(w, r) PROVE Types'
  BY <1>8, <1>t DEF TakeFailed, Types, TypeOK, Labels
<1>9. ASSUME NEW w \in Workers, CollectSendPacket(w) PROVE Types'
  <2>1. wsession[w] \in Sessions /\ wpacket[w] \in Packets
    BY <1>9, <1>c, CollectHas DEF CollectSendPacket
  <2>2. CASE Len(sendBuffer[wsession[w]]) < SendQueueCap
    <3>1. sendBuffer[wsession[w]] \in Seq(Packets) BY <1>t, <2>1
    <3>2. Append(sendBuffer[wsession[w]], wpacket[w]) \in Seq(Packets)
      BY <2>1, <3>1, AppendProperties
    <3> DEFINE longer == Append(sendBuffer[wsession[w]], wpacket[w])
    <3>3. sendBuffer' = [sendBuffer EXCEPT ![wsession[w]] = longer] /\ Goto(w, "send_chk")
          /\ UNCHANGED packetVars
      BY <1>9, <2>2, <1>c, <2>1, QueueBound DEF CollectSendPacket
    <3>4. UNCHANGED <<contentVars, lifeVars, cancelIOFlag, sendFlag, sendedBuffer, posts,
                       ioVars, historyVars>> /\ wpacket' = [wpacket EXCEPT ![w] = Nobody]
      BY <1>9 DEF CollectSendPacket
    <3> HIDE DEF longer
    <3>5. sendBuffer' \in [Sessions -> Seq(Packets)] BY <1>t, <2>1, <3>2, <3>3 DEF longer
    <3> QED BY <1>t, <2>1, <3>3, <3>4, <3>5 DEF Types, TypeOK, Labels
  <2>3. CASE Drop({wpacket[w]}) /\ sendBuffer' = sendBuffer /\ Goto(w, "idle")
    <3>1. {wpacket[w]} \in SUBSET Packets /\ wpacket[w] \in Held(wsession[w])
      BY <1>9, <2>1 DEF CollectSendPacket, Held, InHand
    <3>2. referenceCounter[wpacket[w]] > 0 BY <1>c, <2>1, <3>1, HeldHasHolder, HeldIsCounted
    <3>3. /\ pool' \subseteq Packets /\ referenceCounter' \in [Packets -> Nat]
          /\ buffer' \in [Packets -> Bodies] /\ message' \in [Packets -> Messages]
      BY <1>c, <2>3, <3>1, <3>2, DropTypes
    <3> QED BY <1>9, <1>t, <2>1, <2>3, <3>3 DEF CollectSendPacket, Types, TypeOK, Labels
  <2> QED BY <1>9, <1>t, <2>1, <2>2, <2>3 DEF CollectSendPacket, Types, TypeOK, Labels
<1>10. ASSUME NEW w \in Workers, SendIOCheck(w) PROVE Types'
  BY <1>10, <1>t DEF SendIOCheck, Types, TypeOK, Labels
<1>11. ASSUME NEW w \in Workers, SendIOBusy(w) PROVE Types'
  BY <1>11, <1>t DEF SendIOBusy, Types, TypeOK, Labels
<1>12. ASSUME NEW w \in Workers, SendIOEmpty(w) PROVE Types'
  BY <1>12, <1>t DEF SendIOEmpty, Types, TypeOK, Labels
<1>13. ASSUME NEW w \in Workers, SendIO(w) PROVE Types'
  <2>1. wsession[w] \in Sessions BY <1>13, <1>c, CollectHas DEF SendIO
  <2> DEFINE s == wsession[w]
  <2>2. Batch(s) \in Seq(Packets) /\ Len(Batch(s)) \in 0 .. Len(sendBuffer[s])
    BY <1>c, <2>1, BatchCuts
  <2>3. SubSeq(sendBuffer[s], Len(Batch(s)) + 1, Len(sendBuffer[s])) \in Seq(Packets)
    BY <1>t, <2>1, <2>2, CutSeq
  <2>4. sendedBuffer[s] \o Batch(s) \in Seq(Packets) BY <1>t, <2>1, <2>2
  <2>5. /\ sendBuffer' =
              [sendBuffer EXCEPT ![s] = SubSeq(sendBuffer[s], Len(Batch(s)) + 1, Len(sendBuffer[s]))]
        /\ sendedBuffer' = [sendedBuffer EXCEPT ![s] = sendedBuffer[s] \o Batch(s)]
        /\ sendFlag' = [sendFlag EXCEPT ![s] = TRUE]
        /\ \/ /\ sendOv' = [sendOv EXCEPT ![s] = "pending"]
              /\ wsabufs' = [wsabufs EXCEPT ![s] = Batch(s)]
           \/ UNCHANGED <<sendOv, wsabufs>>
        /\ failed' = failed \/ failed' = [failed EXCEPT ![s] = TRUE]
    BY <1>13 DEF SendIO
  <2> HIDE DEF s
  <2>6. sendBuffer' \in [Sessions -> Seq(Packets)] /\ sendedBuffer' \in [Sessions -> Seq(Packets)]
    BY <1>t, <2>1, <2>3, <2>4, <2>5 DEF s
  <2>9. wsabufs' \in [Sessions -> Seq(Packets)] BY <1>t, <2>1, <2>2, <2>5, ZenonT(60) DEF s
  <2>10. sendOv' \in [Sessions -> {"idle", "pending", "ok", "failed"}] BY <1>t, <2>5
  <2>7. sendFlag' \in [Sessions -> BOOLEAN] /\ failed' \in [Sessions -> BOOLEAN] BY <1>t, <2>5
  <2>8. wpc' \in [Workers -> Labels] /\ wsession' \in [Workers -> Sessions \union {Nobody}]
    BY <1>13, <1>t DEF SendIO, Labels
  <2> QED BY <1>13, <1>t, <2>6, <2>7, <2>8, <2>9, <2>10 DEF SendIO, Types, TypeOK, Labels
<1>14. ASSUME NEW w \in Workers, ClearSendFlag(w) PROVE Types'
  BY <1>14, <1>t, ZenonT(60) DEF ClearSendFlag, Types, TypeOK, Labels
<1>15. ASSUME NEW w \in Workers, CancelIORegist(w) PROVE Types'
  BY <1>15, <1>t DEF CancelIORegist, Types, TypeOK, Labels
<1>16. ASSUME NEW r \in Sessions, SendComplete(r) PROVE Types'
  <2>1. received' \in [Sessions -> Seq(Delivered)]
    <3>1. CASE received' = received BY <1>t, <3>1
    <3>2. CASE received' = [received EXCEPT ![r] =
                 @ \o [i \in DOMAIN wsabufs[r] |-> Delivery(wsabufs[r][i])]]
      <4> DEFINE d == [i \in DOMAIN wsabufs[r] |-> Delivery(wsabufs[r][i])]
      <4>1. d \in Seq(Delivered) BY <1>c, DeliveriesType
      <4> HIDE DEF d
      <4>2. received[r] \o d \in Seq(Delivered) BY <1>t, <4>1
      <4>3. received' = [received EXCEPT ![r] = received[r] \o d] BY <3>2 DEF d
      <4> QED BY <1>t, <4>2, <4>3
    <3> QED BY <1>16, <3>1, <3>2 DEF SendComplete
  <2> QED BY <1>16, <1>t, <2>1 DEF SendComplete, Types, TypeOK, Labels
<1>17. ASSUME NEW r \in Sessions, DisconnectReq(r) PROVE Types'
  BY <1>17, <1>t DEF DisconnectReq, Types, TypeOK, Labels
<1>18. ASSUME NEW r \in Sessions, RecvEnds(r) PROVE Types'
  BY <1>18, <1>t DEF RecvEnds, Types, TypeOK, Labels
<1>19. ASSUME NEW r \in Sessions, Release(r) PROVE Types'
  <2>1. sendBuffer[r] \in Seq(Packets) /\ sendedBuffer[r] \in Seq(Packets) BY <1>t
  <2> DEFINE ps == Range(sendBuffer[r] \o sendedBuffer[r])
  <2>2. ps = Range(sendBuffer[r]) \union Range(sendedBuffer[r]) BY <2>1, RangeConcatenation
  <2>3. ps \in SUBSET Packets /\ ps \subseteq Held(r)
    BY <2>1, <2>2, RangeOfSeq DEF Held
  <2>4. Drop(ps) BY <1>19 DEF Release
  <2> HIDE DEF ps
  <2>5. \A p \in ps : referenceCounter[p] > 0 BY <1>c, <2>3, HeldHasHolder, HeldIsCounted
  <2>6. /\ pool' \subseteq Packets /\ referenceCounter' \in [Packets -> Nat]
        /\ buffer' \in [Packets -> Bodies] /\ message' \in [Packets -> Messages]
    BY <1>c, <2>3, <2>4, <2>5, DropTypes
  <2>7. <<>> \in Seq(Packets) OBVIOUS
  <2> QED BY <1>19, <1>t, <2>6, <2>7 DEF Release, Types, TypeOK, Labels
<1>20. ASSUME NEW r \in Sessions, Accept(r) PROVE Types'
  <2>1. <<>> \in Seq(Delivered) OBVIOUS
  <2> QED BY <1>20, <1>t, <2>1 DEF Accept, Types, TypeOK, Labels
<1> QED
  BY <1>nx, <1>1, <1>2, <1>3, <1>4, <1>5, <1>6, <1>7, <1>8, <1>9, <1>10, <1>11, <1>12,
     <1>13, <1>14, <1>15, <1>16, <1>17, <1>18, <1>19, <1>20 DEF Next, Content, Worker, Life

----------------------------------------------------------------------------
(* Who holds what. *)

\* The sessions still to be sent to, when the first one is done.
LEMMA TailAhead ==
  ASSUME Types, Control, targets # <<>>, targets' = Tail(targets)
  PROVE  /\ \A i, j \in DOMAIN targets' : targets'[i][1] = targets'[j][1] => i = j
         /\ \A s \in Sessions : Ahead(s)' <=> Ahead(s) /\ s # Target
<1>1. targets \in Seq(Sessions \X Nat) BY DEF Types
<1>2. /\ Len(targets) \in Nat \ {0} /\ DOMAIN targets = 1 .. Len(targets)
      /\ DOMAIN targets' = 1 .. Len(targets) - 1
      /\ \A i \in 1 .. Len(targets) - 1 : targets'[i] = targets[i + 1]
  BY <1>1, HeadTailProperties, EmptySeq, LenProperties
<1>3. \A i, j \in DOMAIN targets : targets[i][1] = targets[j][1] => i = j BY DEF Control
<1> DEFINE l == Len(targets)
<1>4. ASSUME NEW i \in DOMAIN targets', NEW j \in DOMAIN targets', targets'[i][1] = targets'[j][1]
      PROVE  i = j
  <2>1. i + 1 \in 1 .. l /\ j + 1 \in 1 .. l BY <1>2
  <2>2. i + 1 = j + 1 BY <1>2, <1>3, <1>4, <2>1
  <2> QED BY <1>2, <2>2
<1>5. ASSUME NEW s \in Sessions PROVE Ahead(s)' <=> Ahead(s) /\ s # Target
  <2>1. Target = targets[1][1] BY ContentHas
  <2>2. ASSUME Ahead(s)' PROVE Ahead(s) /\ s # Target
    <3>1. PICK i \in DOMAIN targets' : targets'[i][1] = s BY <2>2 DEF Ahead
    <3>2. i + 1 \in DOMAIN targets /\ targets[i + 1][1] = s /\ i + 1 # 1 BY <1>2, <3>1
    <3>3. 1 \in DOMAIN targets BY <1>2
    <3> QED BY <1>3, <2>1, <3>2, <3>3 DEF Ahead
  <2>3. ASSUME Ahead(s), s # Target PROVE Ahead(s)'
    <3>1. PICK i \in DOMAIN targets : targets[i][1] = s BY <2>3 DEF Ahead
    <3>2. i # 1 BY <2>1, <2>3, <3>1
    <3>3. i - 1 \in DOMAIN targets' /\ i - 1 + 1 = i BY <1>2, <3>2
    <3>4. targets'[i - 1][1] = s BY <1>2, <3>1, <3>3
    <3> QED BY <3>3, <3>4 DEF Ahead
  <2> QED BY <2>2, <2>3
<1> QED BY <1>4, <1>5

LEMMA ControlStep == ASSUME IInv, Next, Types' PROVE Control'
<1>nx. Next OBVIOUS
<1>c. Types /\ Control BY DEF IInv
<1>t. /\ pool \subseteq Packets /\ referenceCounter \in [Packets -> Nat]
      /\ cpc \in {"idle", "send", "encrypt"} /\ cpacket \in Packets \union {Nobody}
      /\ sendBuffer \in [Sessions -> Seq(Packets)] /\ sendedBuffer \in [Sessions -> Seq(Packets)]
      /\ posts \in [Sessions -> Seq(Packets)] /\ wsabufs \in [Sessions -> Seq(Packets)]
      /\ sendOv \in [Sessions -> {"idle", "pending", "ok", "failed"}]
      /\ wsession \in [Workers -> Sessions \union {Nobody}]
      /\ wpacket \in [Workers -> Packets \union {Nobody}]
      /\ targets \in Seq(Sessions \X Nat) /\ serial \in Nat /\ connection \in [Sessions -> Nat]
      /\ buffer \in [Packets -> Bodies] /\ message \in [Packets -> Messages]
      /\ wpc \in [Workers -> Labels]
      /\ released \in [Sessions -> BOOLEAN] /\ sendFlag \in [Sessions -> BOOLEAN]
      /\ received \in [Sessions -> Seq(Delivered)]
      /\ raced \in [Sessions -> BOOLEAN] /\ failed \in [Sessions -> BOOLEAN]
  BY <1>c DEF Types, TypeOK
<1>nobody. Nobody \notin Sessions /\ Nobody \notin Packets BY PipelineAssumption
<1>u. /\ cpc' \in {"idle", "send", "encrypt"} /\ wpc' \in [Workers -> Labels]
      /\ wsession' \in [Workers -> Sessions \union {Nobody}]
      /\ wpacket' \in [Workers -> Packets \union {Nobody}]
  BY DEF Types, TypeOK
<1>1. ASSUME NewPacket PROVE Control'
  <2>1. PICK p \in pool, m \in Sends[serial + 1] :
           /\ cpacket' = p
           /\ targets' = [i \in DOMAIN m.to |-> <<m.to[i], connection[m.to[i]]>>]
    BY <1>1 DEF NewPacket
  <2>2. serial < Len(Sends) BY <1>1 DEF NewPacket
  <2>3. IsInjective(m.to) BY <1>c, <2>1, <2>2, SendsType
  <2>4. \A i, j \in DOMAIN targets' : targets'[i][1] = targets'[j][1] => i = j
    BY <2>1, <2>3 DEF IsInjective
  <2>5. cpc' = "send" /\ UNCHANGED workerVars BY <1>1 DEF NewPacket
  <2>6. cpacket' # Nobody BY <1>t, <1>nobody, <2>1
  <2> QED BY <1>c, <2>4, <2>5, <2>6 DEF Control
<1>2. ASSUME SendReqGone PROVE Control'
  <2>1. targets # <<>> /\ targets' = Tail(targets) /\ cpc = "send" BY <1>2 DEF SendReqGone
  <2>2. \A i, j \in DOMAIN targets' : targets'[i][1] = targets'[j][1] => i = j
    BY <1>c, <2>1, TailAhead
  <2> QED BY <1>2, <1>c, <2>2 DEF SendReqGone, Control
<1>3. ASSUME SendReqHeader PROVE Control'
  BY <1>3, <1>c, <1>t, <1>nobody DEF SendReqHeader, Control
<1>4. ASSUME SendReqPost PROVE Control'
  <2>1. cpc = "encrypt" /\ targets # <<>> /\ targets' = Tail(targets)
    BY <1>4, <1>c DEF SendReqPost, Control
  <2>2. \A i, j \in DOMAIN targets' : targets'[i][1] = targets'[j][1] => i = j
    BY <1>c, <2>1, TailAhead
  <2> QED BY <1>4, <1>c, <2>1, <2>2 DEF SendReqPost, Control
<1>5. ASSUME SendEnd PROVE Control'
  BY <1>5, <1>c, <1>t, <1>nobody DEF SendEnd, Control
<1>6. ASSUME NEW w \in Workers, NEW r \in Sessions, TakePost(w, r) PROVE Control'
  <2>1. Head(posts[r]) \in Packets BY <1>6, <1>t, HeadTailProperties DEF TakePost
  <2> QED BY <1>6, <1>c, <1>t, <1>nobody, <2>1 DEF TakePost, Control
<1>7. ASSUME NEW w \in Workers, NEW r \in Sessions, TakeSend(w, r) PROVE Control'
  BY <1>7, <1>c, <1>t, <1>nobody DEF TakeSend, Control
<1>8. ASSUME NEW w \in Workers, NEW r \in Sessions, TakeFailed(w, r) PROVE Control'
  BY <1>8, <1>c, <1>t, <1>nobody DEF TakeFailed, Control
<1>9. ASSUME NEW w \in Workers, CollectSendPacket(w) PROVE Control'
  BY <1>9, <1>c, <1>t, <1>nobody, ZenonT(60) DEF CollectSendPacket, Control
<1>10. ASSUME NEW w \in Workers, SendIOCheck(w) PROVE Control'
  BY <1>10, <1>c, <1>t, <1>nobody DEF SendIOCheck, Control
<1>11. ASSUME NEW w \in Workers, SendIOBusy(w) PROVE Control'
  BY <1>11, <1>c, <1>t, <1>nobody DEF SendIOBusy, Control
<1>12. ASSUME NEW w \in Workers, SendIOEmpty(w) PROVE Control'
  BY <1>12, <1>c, <1>t, <1>nobody DEF SendIOEmpty, Control
<1>13. ASSUME NEW w \in Workers, SendIO(w) PROVE Control'
  BY <1>13, <1>c, <1>t, <1>nobody, ZenonT(60) DEF SendIO, Control
<1>14. ASSUME NEW w \in Workers, ClearSendFlag(w) PROVE Control'
  BY <1>14, <1>c, <1>t, <1>nobody, ZenonT(60) DEF ClearSendFlag, Control
<1>15. ASSUME NEW w \in Workers, CancelIORegist(w) PROVE Control'
  BY <1>15, <1>c, <1>t, <1>nobody DEF CancelIORegist, Control
<1>16. ASSUME NEW r \in Sessions, SendComplete(r) PROVE Control'
  BY <1>16, <1>c, <1>t, <1>nobody DEF SendComplete, Control
<1>17. ASSUME NEW r \in Sessions, DisconnectReq(r) PROVE Control'
  BY <1>17, <1>c, <1>t, <1>nobody DEF DisconnectReq, Control
<1>18. ASSUME NEW r \in Sessions, RecvEnds(r) PROVE Control'
  BY <1>18, <1>c, <1>t, <1>nobody DEF RecvEnds, Control
<1>19. ASSUME NEW r \in Sessions, Release(r) PROVE Control'
  BY <1>19, <1>c, <1>t, <1>nobody DEF Release, Control
<1>20. ASSUME NEW r \in Sessions, Accept(r) PROVE Control'
  BY <1>20, <1>c, <1>t, <1>nobody DEF Accept, Control
<1> QED
  BY <1>nx, <1>1, <1>2, <1>3, <1>4, <1>5, <1>6, <1>7, <1>8, <1>9, <1>10, <1>11, <1>12,
     <1>13, <1>14, <1>15, <1>16, <1>17, <1>18, <1>19, <1>20 DEF Next, Content, Worker, Life

----------------------------------------------------------------------------
(* How each step moves packets: what a session holds after it, and that a  *)
(* packet still is in one place.                                           *)

LEMMA HandsAre ==
  /\ \A s, x : x \in InHand(s) <=> \E v \in Workers : Collecting(v, s) /\ wpacket[v] = x
  /\ \A s, x : x \in InHand(s)' <=> \E v \in Workers : Collecting(v, s)' /\ wpacket'[v] = x
BY DEF InHand, Collecting

\* Steps that move no packet.
LEMMA NothingMoves ==
  ASSUME OnePlace, UNCHANGED <<bufferVars, posts>>,
         \A v \in Workers, s \in Sessions : Collecting(v, s)' <=> Collecting(v, s),
         \A v \in Workers : At(v, "collect")' <=> At(v, "collect"),
         \A v \in Workers : At(v, "collect") =>
             wpacket'[v] = wpacket[v] /\ wsession'[v] = wsession[v]
  PROVE  OnePlace' /\ \A s \in Sessions : Held(s)' = Held(s)
<1>1. \A s \in Sessions : InHand(s)' = InHand(s)
  <2> SUFFICES ASSUME NEW s \in Sessions PROVE InHand(s)' = InHand(s) OBVIOUS
  <2>1. \A x : x \in InHand(s)' <=> x \in InHand(s) BY HandsAre DEF Collecting
  <2> QED BY <2>1
<1>2. OwnHands' BY DEF OnePlace, OwnHands
<1>3. ASSUME NEW s \in Sessions PROVE OnePlaceOf(s)' /\ Held(s)' = Held(s)
  BY <1>1 DEF OnePlace, OnePlaceOf, Held
<1> QED BY <1>2, <1>3 DEF OnePlace

LEMMA PostMoves ==
  ASSUME IInv, SendReqPost
  PROVE  /\ OnePlace' /\ Target \in Sessions /\ cpacket \in Packets
         /\ \A s \in Sessions : Held(s)' = Held(s) \union IF s = Target THEN {cpacket} ELSE {}
         /\ \A s \in Sessions : InHand(s)' = InHand(s)
<1>1. Types /\ Control /\ OnePlace /\ Counted BY DEF IInv
<1>2. cpacket \in Packets /\ Target \in Sessions /\ Ahead(Target)
  BY <1>1, ContentHas DEF SendReqPost, Control
<1>3. cpacket \notin Held(Target) BY <1>1, <1>2 DEF Counted
<1>4. posts[Target] \in Seq(Packets) /\ posts \in [Sessions -> Seq(Packets)]
  BY <1>1, <1>2 DEF Types, TypeOK
<1>5. \A s \in Sessions : posts'[s] = IF s = Target THEN Append(posts[s], cpacket) ELSE posts[s]
  BY <1>2, <1>4 DEF SendReqPost
<1>6. UNCHANGED <<bufferVars, workerVars>> BY DEF SendReqPost
<1> DEFINE longer == Append(posts[Target], cpacket)
<1>7. Range(longer) = Range(posts[Target]) \union {cpacket}
      /\ (IsInjective(longer) <=> IsInjective(posts[Target]) /\ cpacket \notin Range(posts[Target]))
  <2> DEFINE q == posts[Target]
  <2>1. q \in Seq(Packets) BY <1>4
  <2> HIDE DEF q
  <2>2. Range(Append(q, cpacket)) = Range(q) \union {cpacket}
        /\ (IsInjective(Append(q, cpacket)) <=> IsInjective(q) /\ cpacket \notin Range(q))
    BY <1>2, <2>1, AppendedSets, Zenon
  <2> QED BY <2>2 DEF q
<1>8. posts'[Target] = longer BY <1>2, <1>5
<1> HIDE DEF longer
<1>9. \A s \in Sessions : InHand(s)' = InHand(s) BY <1>6 DEF InHand
<1>10. OwnHands' BY <1>1, <1>6 DEF OnePlace, OwnHands
<1>11. ASSUME NEW s \in Sessions
       PROVE  OnePlaceOf(s)' /\ Held(s)' = Held(s) \union IF s = Target THEN {cpacket} ELSE {}
  <2>1. OnePlaceOf(s) /\ InHand(s)' = InHand(s) BY <1>1, <1>9 DEF OnePlace
  <2>2. CASE s # Target
    <3>1. posts'[s] = posts[s] BY <1>5, <2>2
    <3> QED BY <1>6, <2>1, <2>2, <3>1 DEF OnePlaceOf, Held
  <2>3. CASE s = Target
    BY <1>3, <1>6, <1>7, <1>8, <2>1, <2>3 DEF OnePlaceOf, Held
  <2> QED BY <2>2, <2>3
<1> QED BY <1>2, <1>9, <1>10, <1>11 DEF OnePlace

LEMMA TakePostMoves ==
  ASSUME IInv, NEW w \in Workers, NEW r \in Sessions, TakePost(w, r)
  PROVE  OnePlace' /\ \A s \in Sessions : Held(s)' = Held(s)
<1>1. Types /\ Control /\ OnePlace BY DEF IInv
<1>2. posts[r] \in Seq(Packets) /\ posts[r] # <<>> /\ posts \in [Sessions -> Seq(Packets)]
      /\ wpc \in [Workers -> Labels] /\ wsession \in [Workers -> Sessions \union {Nobody}]
      /\ wpacket \in [Workers -> Packets \union {Nobody}]
  BY <1>1 DEF TakePost, Types, TypeOK
<1> DEFINE h == Head(posts[r])
           rest == Tail(posts[r])
<1>3. /\ Range(posts[r]) = {h} \union Range(rest)
      /\ (IsInjective(posts[r]) <=> IsInjective(rest) /\ h \notin Range(rest))
  BY <1>2, HeadAndTail
<1>4. /\ \A s \in Sessions : posts'[s] = IF s = r THEN rest ELSE posts[s]
      /\ \A v \in Workers : /\ wpc'[v] = IF v = w THEN "collect" ELSE wpc[v]
                            /\ wsession'[v] = IF v = w THEN r ELSE wsession[v]
                            /\ wpacket'[v] = IF v = w THEN h ELSE wpacket[v]
      /\ wpc[w] = "idle"
      /\ UNCHANGED bufferVars
  BY <1>2 DEF TakePost
<1> HIDE DEF h, rest
<1>5. ASSUME NEW s \in Sessions
      PROVE  InHand(s)' = InHand(s) \union IF s = r THEN {h} ELSE {}
  <2>1. \A x : x \in InHand(s)' <=> x \in InHand(s) \/ (s = r /\ x = h)
    BY <1>4, HandsAre DEF Collecting
  <2> QED BY <2>1
<1>6. OwnHands'
  <2>1. ASSUME NEW v \in Workers, At(v, "collect"), wsession[v] = r, wpacket[v] = h PROVE FALSE
    <3>1. h \in InHand(r) BY <2>1 DEF InHand
    <3> QED BY <1>1, <1>3, <3>1 DEF OnePlace, OnePlaceOf
  <2>2. \A v, u \in Workers :
           At(v, "collect") /\ At(u, "collect") /\ wsession[v] = wsession[u]
           /\ wpacket[v] = wpacket[u] => v = u
    BY <1>1 DEF OnePlace, OwnHands
  <2> QED BY <1>4, <2>1, <2>2 DEF OwnHands
<1>7. ASSUME NEW s \in Sessions PROVE OnePlaceOf(s)' /\ Held(s)' = Held(s)
  <2>1. OnePlaceOf(s) BY <1>1 DEF OnePlace
  <2>2. CASE s # r BY <1>4, <1>5, <2>1, <2>2 DEF OnePlaceOf, Held
  <2>3. CASE s = r BY <1>3, <1>4, <1>5, <2>1, <2>3 DEF OnePlaceOf, Held
  <2> QED BY <2>2, <2>3
<1> QED BY <1>6, <1>7 DEF OnePlace

\* A worker puts its packet into sendBuffer, or drops it.
LEMMA CollectMoves ==
  ASSUME IInv, NEW w \in Workers, CollectSendPacket(w)
  PROVE  /\ OnePlace' /\ wsession[w] \in Sessions /\ wpacket[w] \in Packets
         /\ wpacket[w] \in Held(wsession[w])
         /\ \/ /\ \A s \in Sessions : Held(s)' = Held(s)
               /\ sendBuffer' =
                     [sendBuffer EXCEPT ![wsession[w]] = Append(@, wpacket[w])]
               /\ UNCHANGED packetVars
            \/ /\ \A s \in Sessions :
                     Held(s)' = Held(s) \ IF s = wsession[w] THEN {wpacket[w]} ELSE {}
               /\ Drop({wpacket[w]}) /\ sendBuffer' = sendBuffer
<1>1. Types /\ Control /\ OnePlace BY DEF IInv
<1>2. wsession[w] \in Sessions /\ wpacket[w] \in Packets /\ At(w, "collect")
  BY <1>1, CollectHas DEF CollectSendPacket
<1> DEFINE r == wsession[w]
           p == wpacket[w]
<1>3. sendBuffer[r] \in Seq(Packets) /\ sendBuffer \in [Sessions -> Seq(Packets)]
      /\ wpc \in [Workers -> Labels] /\ wsession \in [Workers -> Sessions \union {Nobody}]
      /\ wpacket \in [Workers -> Packets \union {Nobody}]
  BY <1>1, <1>2 DEF Types, TypeOK
<1>4. p \in InHand(r) BY <1>2 DEF InHand
<1>5. /\ \A v \in Workers : v # w => wpc'[v] = wpc[v] /\ wsession'[v] = wsession[v]
                                     /\ wpacket'[v] = wpacket[v]
      /\ wpc'[w] # "collect" /\ UNCHANGED <<sendedBuffer, posts>>
  BY <1>3 DEF CollectSendPacket
<1>6. \/ sendBuffer' = [sendBuffer EXCEPT ![r] = Append(@, p)] /\ UNCHANGED packetVars
      \/ Drop({p}) /\ sendBuffer' = sendBuffer
  BY DEF CollectSendPacket
<1>7. /\ \A v \in Workers : Collecting(v, r) /\ wpacket[v] = p => v = w
      /\ \A s : Collecting(w, s) <=> s = r
  BY <1>1, <1>2 DEF OnePlace, OwnHands, Collecting
<1> HIDE DEF r, p
<1>8. ASSUME NEW s \in Sessions
      PROVE  InHand(s)' = InHand(s) \ IF s = r THEN {p} ELSE {}
  <2>1. \A x : x \in InHand(s)' <=> \E v \in Workers : v # w /\ Collecting(v, s) /\ wpacket[v] = x
    BY <1>5, HandsAre DEF Collecting
  <2>2. \A x : x \in InHand(s)' <=> x \in InHand(s) /\ ~(s = r /\ x = p)
    BY <1>2, <1>7, <2>1, HandsAre DEF p
  <2> QED BY <2>2
<1>9. OwnHands' BY <1>1, <1>5 DEF OnePlace, OwnHands
<1>10. \A s \in Sessions : OnePlaceOf(s) BY <1>1 DEF OnePlace
<1>11. CASE sendBuffer' = [sendBuffer EXCEPT ![r] = Append(@, p)] /\ UNCHANGED packetVars
  <2> DEFINE longer == Append(sendBuffer[r], p)
  <2>1. Range(longer) = Range(sendBuffer[r]) \union {p}
        /\ (IsInjective(longer) <=> IsInjective(sendBuffer[r]) /\ p \notin Range(sendBuffer[r]))
    <3> DEFINE q == sendBuffer[r]
    <3>1. q \in Seq(Packets) /\ p \in Packets BY <1>2, <1>3 DEF p, r
    <3> HIDE DEF q
    <3>2. Range(Append(q, p)) = Range(q) \union {p}
          /\ (IsInjective(Append(q, p)) <=> IsInjective(q) /\ p \notin Range(q))
      BY <3>1, AppendedSets, Zenon
    <3> QED BY <3>2 DEF q
  <2>2. \A s \in Sessions : sendBuffer'[s] = IF s = r THEN longer ELSE sendBuffer[s]
    BY <1>3, <1>11
  <2> HIDE DEF longer
  <2>3. ASSUME NEW s \in Sessions PROVE OnePlaceOf(s)' /\ Held(s)' = Held(s)
    <3>1. CASE s # r BY <1>5, <1>8, <1>10, <2>2, <3>1 DEF OnePlaceOf, Held
    <3>2. CASE s = r
      <4>1. p \notin Range(sendBuffer[s]) /\ p \notin Range(sendedBuffer[s])
            /\ p \notin Range(posts[s])
        BY <1>4, <1>10, <3>2 DEF OnePlaceOf
      <4>2. sendBuffer'[s] = longer BY <2>2, <3>2
      <4>3. InHand(s)' = InHand(s) \ {p} BY <1>8, <3>2
      <4> QED BY <1>4, <1>5, <1>10, <2>1, <3>2, <4>1, <4>2, <4>3 DEF OnePlaceOf, Held
    <3> QED BY <3>1, <3>2
  <2>4. OnePlace' BY <1>9, <2>3 DEF OnePlace
  <2>5. p \in Held(r) BY <1>4 DEF Held
  <2> QED BY <1>2, <1>11, <2>3, <2>4, <2>5 DEF p, r
<1>12. CASE Drop({p}) /\ sendBuffer' = sendBuffer
  <2>1. ASSUME NEW s \in Sessions
        PROVE  OnePlaceOf(s)' /\ Held(s)' = Held(s) \ IF s = r THEN {p} ELSE {}
    <3>1. CASE s # r BY <1>5, <1>8, <1>10, <1>12, <3>1 DEF OnePlaceOf, Held
    <3>2. CASE s = r
      <4>1. p \notin Range(sendBuffer[s]) /\ p \notin Range(sendedBuffer[s])
            /\ p \notin Range(posts[s])
        BY <1>4, <1>10, <3>2 DEF OnePlaceOf
      <4>2. InHand(s)' = InHand(s) \ {p} BY <1>8, <3>2
      <4> QED BY <1>5, <1>10, <1>12, <3>2, <4>1, <4>2 DEF OnePlaceOf, Held
    <3> QED BY <3>1, <3>2
  <2>2. OnePlace' BY <1>9, <2>1 DEF OnePlace
  <2>3. p \in Held(r) BY <1>4 DEF Held
  <2> QED BY <1>2, <1>12, <2>1, <2>2, <2>3 DEF p, r
<1> QED BY <1>6, <1>11, <1>12

\* sendIO moves packets from the front of sendBuffer behind sendedBuffer.
LEMMA SendIOMoves ==
  ASSUME IInv, NEW w \in Workers, SendIO(w)
  PROVE  /\ OnePlace' /\ \A s \in Sessions : Held(s)' = Held(s)
         /\ \A s \in Sessions : InHand(s)' = InHand(s)
         /\ wsession[w] \in Sessions
         /\ \E a, b \in Seq(Packets) :
               /\ a # <<>> /\ a = Batch(wsession[w])
               /\ sendBuffer[wsession[w]] = a \o b
               /\ sendBuffer' = [sendBuffer EXCEPT ![wsession[w]] = b]
               /\ sendedBuffer' = [sendedBuffer EXCEPT ![wsession[w]] = @ \o a]
<1>1. Types /\ Control /\ OnePlace BY DEF IInv
<1>2. wsession[w] \in Sessions BY <1>1, CollectHas DEF SendIO
<1> DEFINE r == wsession[w]
           a == Batch(r)
           b == SubSeq(sendBuffer[r], Len(a) + 1, Len(sendBuffer[r]))
<1>3. sendBuffer[r] \in Seq(Packets) /\ sendBuffer \in [Sessions -> Seq(Packets)]
      /\ sendedBuffer[r] \in Seq(Packets) /\ sendedBuffer \in [Sessions -> Seq(Packets)]
      /\ wpc \in [Workers -> Labels] /\ wsession \in [Workers -> Sessions \union {Nobody}]
  BY <1>1, <1>2 DEF Types, TypeOK
<1>4. sendBuffer[r] # <<>>
      /\ sendBuffer' = [sendBuffer EXCEPT ![r] = SubSeq(@, Len(Batch(r)) + 1, Len(@))]
      /\ sendedBuffer' = [sendedBuffer EXCEPT ![r] = @ \o Batch(r)]
      /\ UNCHANGED <<posts, wpacket>>
      /\ \A v \in Workers :
            /\ v # w => wpc'[v] = wpc[v] /\ wsession'[v] = wsession[v]
            /\ wpc[w] # "collect" /\ wpc'[w] # "collect"
  BY <1>3 DEF SendIO
<1>5. a \in Seq(Packets) /\ b \in Seq(Packets) /\ sendBuffer[r] = a \o b /\ a # <<>>
  <2>1. PICK n \in 0 .. Len(sendBuffer[r]) :
           a \in Seq(Packets) /\ Len(a) = n /\ a = SubSeq(sendBuffer[r], 1, n) /\ n > 0
    BY <1>1, <1>2, <1>4, BatchCuts
  <2> HIDE DEF a
  <2>2. a # <<>> BY <2>1, EmptySeq
  <2> QED BY <1>3, <2>1, <2>2, CutSeq, ZenonT(60)
<1>6. sendBuffer' = [sendBuffer EXCEPT ![r] = b] /\ sendedBuffer' = [sendedBuffer EXCEPT ![r] = @ \o a]
  BY <1>4
<1> HIDE DEF a, b, r
<1>7. /\ Range(a \o b) = Range(a) \union Range(b)
      /\ (IsInjective(a \o b) <=>
            IsInjective(a) /\ IsInjective(b) /\ Range(a) \intersect Range(b) = {})
  BY <1>5, JoinedSets, Zenon
<1>8. /\ Range(sendedBuffer[r] \o a) = Range(sendedBuffer[r]) \union Range(a)
      /\ (IsInjective(sendedBuffer[r] \o a) <=>
            IsInjective(sendedBuffer[r]) /\ IsInjective(a)
            /\ Range(sendedBuffer[r]) \intersect Range(a) = {})
  <2> DEFINE q == sendedBuffer[r]
  <2>1. q \in Seq(Packets) BY <1>3
  <2> HIDE DEF q
  <2>2. /\ Range(q \o a) = Range(q) \union Range(a)
        /\ (IsInjective(q \o a) <=>
              IsInjective(q) /\ IsInjective(a) /\ Range(q) \intersect Range(a) = {})
    BY <1>5, <2>1, JoinedSets, Zenon
  <2> QED BY <2>2 DEF q
<1>9. \A s \in Sessions : InHand(s)' = InHand(s)
  <2> SUFFICES ASSUME NEW s \in Sessions PROVE InHand(s)' = InHand(s) OBVIOUS
  <2>1. \A x : x \in InHand(s)' <=> x \in InHand(s) BY <1>4, HandsAre DEF Collecting
  <2> QED BY <2>1
<1>10. OwnHands' BY <1>1, <1>4 DEF OnePlace, OwnHands
<1> DEFINE more == sendedBuffer[r] \o a
<1>11. \A s \in Sessions : /\ sendBuffer'[s] = IF s = r THEN b ELSE sendBuffer[s]
                           /\ sendedBuffer'[s] = IF s = r THEN more ELSE sendedBuffer[s]
  BY <1>3, <1>6
<1>12. /\ Range(more) = Range(sendedBuffer[r]) \union Range(a)
       /\ IsInjective(sendedBuffer[r]) /\ IsInjective(a)
          /\ Range(sendedBuffer[r]) \intersect Range(a) = {} => IsInjective(more)
  BY <1>8
<1> HIDE DEF more
<1>13. ASSUME NEW s \in Sessions PROVE OnePlaceOf(s)' /\ Held(s)' = Held(s)
  <2>1. OnePlaceOf(s) BY <1>1 DEF OnePlace
  <2>2. CASE s # r BY <1>4, <1>9, <1>11, <2>1, <2>2 DEF OnePlaceOf, Held
  <2>3. CASE s = r
    <3>1. /\ IsInjective(a) /\ IsInjective(b) /\ Range(a) \intersect Range(b) = {}
          /\ Range(sendBuffer[s]) = Range(a) \union Range(b)
      BY <1>5, <1>7, <2>1, <2>3 DEF OnePlaceOf
    <3>2. Range(sendedBuffer[r]) \intersect Range(a) = {} BY <2>1, <2>3, <3>1 DEF OnePlaceOf
    <3>3. sendBuffer'[s] = b /\ sendedBuffer'[s] = more /\ posts'[s] = posts[s]
      BY <1>4, <1>11, <2>3
    <3>4. IsInjective(more) /\ Range(more) = Range(sendedBuffer[s]) \union Range(a)
      BY <1>12, <2>1, <2>3, <3>1, <3>2 DEF OnePlaceOf
    <3> QED BY <1>9, <2>1, <3>1, <3>3, <3>4 DEF OnePlaceOf, Held
  <2> QED BY <2>2, <2>3
<1> QED BY <1>2, <1>5, <1>6, <1>9, <1>10, <1>13 DEF OnePlace, r, a

\* A completion pops packets off the front of sendedBuffer.
LEMMA TakeSendMoves ==
  ASSUME IInv, NEW w \in Workers, NEW r \in Sessions, TakeSend(w, r)
  PROVE  /\ OnePlace'
         /\ \A s \in Sessions : InHand(s)' = InHand(s)
         /\ \E a, b \in Seq(Packets) :
               /\ sendedBuffer[r] = a \o b /\ sendedBuffer' = [sendedBuffer EXCEPT ![r] = b]
               /\ Range(a) \subseteq Held(r) /\ Drop(Range(a))
               /\ \A s \in Sessions : Held(s)' = Held(s) \ IF s = r THEN Range(a) ELSE {}
<1>1. Types /\ Control /\ OnePlace BY DEF IInv
<1>2. PICK n \in 0 .. Len(sendedBuffer[r]) :
         /\ Drop(Range(SubSeq(sendedBuffer[r], 1, n)))
         /\ sendedBuffer' = [sendedBuffer EXCEPT ![r] = SubSeq(@, n + 1, Len(sendedBuffer[r]))]
  BY <1>1, TakeSendPops
<1> DEFINE a == SubSeq(sendedBuffer[r], 1, n)
           b == SubSeq(sendedBuffer[r], n + 1, Len(sendedBuffer[r]))
<1>3. sendedBuffer[r] \in Seq(Packets) /\ sendedBuffer \in [Sessions -> Seq(Packets)]
      /\ wpc \in [Workers -> Labels] /\ wsession \in [Workers -> Sessions \union {Nobody}]
  BY <1>1 DEF Types, TypeOK
<1>4. a \in Seq(Packets) /\ b \in Seq(Packets) /\ sendedBuffer[r] = a \o b BY <1>3, CutSeq
<1>5. Drop(Range(a)) /\ sendedBuffer' = [sendedBuffer EXCEPT ![r] = b] BY <1>2
<1> HIDE DEF a, b
<1>6. /\ Range(a \o b) = Range(a) \union Range(b)
      /\ (IsInjective(a \o b) <=>
            IsInjective(a) /\ IsInjective(b) /\ Range(a) \intersect Range(b) = {})
  BY <1>4, JoinedSets, Zenon
<1>7. /\ UNCHANGED <<posts, sendBuffer, wpacket>>
      /\ \A v \in Workers :
            /\ v # w => wpc'[v] = wpc[v] /\ wsession'[v] = wsession[v]
            /\ wpc[w] # "collect" /\ wpc'[w] # "collect"
  BY <1>3 DEF TakeSend
<1>8. \A s \in Sessions : InHand(s)' = InHand(s)
  <2> SUFFICES ASSUME NEW s \in Sessions PROVE InHand(s)' = InHand(s) OBVIOUS
  <2>1. \A x : x \in InHand(s)' <=> x \in InHand(s) BY <1>7, HandsAre DEF Collecting
  <2> QED BY <2>1
<1>9. OwnHands' BY <1>1, <1>7 DEF OnePlace, OwnHands
<1>10. \A s \in Sessions : sendedBuffer'[s] = IF s = r THEN b ELSE sendedBuffer[s] BY <1>3, <1>5
<1>11. ASSUME NEW s \in Sessions
       PROVE  OnePlaceOf(s)' /\ Held(s)' = Held(s) \ IF s = r THEN Range(a) ELSE {}
  <2>1. OnePlaceOf(s) BY <1>1 DEF OnePlace
  <2>2. CASE s # r BY <1>7, <1>8, <1>10, <2>1, <2>2 DEF OnePlaceOf, Held
  <2>3. CASE s = r
    <3>1. /\ IsInjective(b) /\ Range(a) \intersect Range(b) = {}
          /\ Range(sendedBuffer[s]) = Range(a) \union Range(b)
      BY <1>4, <1>6, <2>1, <2>3 DEF OnePlaceOf
    <3>2. sendedBuffer'[s] = b BY <1>10, <2>3
    <3> QED BY <1>7, <1>8, <2>1, <2>3, <3>1, <3>2 DEF OnePlaceOf, Held
  <2> QED BY <2>2, <2>3
<1>12. Range(a) \subseteq Held(r) BY <1>4, <1>6 DEF Held
<1> QED BY <1>4, <1>5, <1>8, <1>9, <1>11, <1>12 DEF OnePlace

LEMMA ReleaseMoves ==
  ASSUME IInv, NEW r \in Sessions, Release(r)
  PROVE  /\ OnePlace' /\ Drop(Held(r))
         /\ \A s \in Sessions : Held(s)' = IF s = r THEN {} ELSE Held(s)
<1>1. Types /\ Control /\ OnePlace BY DEF IInv
<1>2. sendBuffer[r] \in Seq(Packets) /\ sendedBuffer[r] \in Seq(Packets)
      /\ sendBuffer \in [Sessions -> Seq(Packets)] /\ sendedBuffer \in [Sessions -> Seq(Packets)]
  BY <1>1 DEF Types, TypeOK
<1>3. Range(sendBuffer[r] \o sendedBuffer[r]) = Range(sendBuffer[r]) \union Range(sendedBuffer[r])
  BY <1>2, RangeConcatenation
<1>4. posts[r] = <<>> /\ InHand(r) = {} BY DEF Release, Unreferenced, InHand
<1>5. Held(r) = Range(sendBuffer[r] \o sendedBuffer[r]) BY <1>3, <1>4, EmptyRange DEF Held
<1>6. Drop(Held(r)) BY <1>5 DEF Release
<1>7. /\ \A s \in Sessions : /\ sendBuffer'[s] = IF s = r THEN <<>> ELSE sendBuffer[s]
                             /\ sendedBuffer'[s] = IF s = r THEN <<>> ELSE sendedBuffer[s]
      /\ UNCHANGED <<posts, workerVars>>
  BY <1>2 DEF Release
<1>8. \A s \in Sessions : InHand(s)' = InHand(s) BY <1>7 DEF InHand
<1>9. OwnHands' BY <1>1, <1>7 DEF OnePlace, OwnHands
<1>10. ASSUME NEW s \in Sessions PROVE OnePlaceOf(s)' /\ Held(s)' = IF s = r THEN {} ELSE Held(s)
  <2>1. OnePlaceOf(s) BY <1>1 DEF OnePlace
  <2>2. CASE s # r BY <1>7, <1>8, <2>1, <2>2 DEF OnePlaceOf, Held
  <2>3. CASE s = r BY <1>4, <1>7, <1>8, <2>1, <2>3, EmptyRange DEF OnePlaceOf, Held
  <2> QED BY <2>2, <2>3
<1> QED BY <1>6, <1>9, <1>10 DEF OnePlace

\* The other steps move nothing.
Quiet ==
    \/ NewPacket \/ SendReqGone \/ SendReqHeader \/ SendEnd
    \/ \E w \in Workers :
          \/ \E s \in Sessions : TakeFailed(w, s)
          \/ SendIOCheck(w) \/ SendIOBusy(w) \/ SendIOEmpty(w) \/ ClearSendFlag(w)
          \/ CancelIORegist(w)
    \/ \E s \in Sessions : SendComplete(s) \/ DisconnectReq(s) \/ RecvEnds(s) \/ Accept(s)

LEMMA QuietMoves ==
  ASSUME IInv, Quiet
  PROVE  OnePlace' /\ \A s \in Sessions : Held(s)' = Held(s)
<1>1. OnePlace BY DEF IInv
<1>2. /\ wpc \in [Workers -> Labels] /\ wsession \in [Workers -> Sessions \union {Nobody}]
      /\ wpacket \in [Workers -> Packets \union {Nobody}]
  BY DEF IInv, Types, TypeOK
<1>3. ASSUME UNCHANGED <<bufferVars, posts, workerVars>>
      PROVE  OnePlace' /\ \A s \in Sessions : Held(s)' = Held(s)
  BY <1>1, <1>3, NothingMoves DEF Collecting
<1>4. ASSUME NEW w \in Workers, NEW label \in Labels, Goto(w, label), wpc[w] # "collect",
             label # "collect", UNCHANGED <<bufferVars, posts, wpacket>>
      PROVE  OnePlace' /\ \A s \in Sessions : Held(s)' = Held(s)
  <2>1. \A v \in Workers : /\ At(v, "collect")' <=> At(v, "collect")
                           /\ At(v, "collect") => wpacket'[v] = wpacket[v] /\ wsession'[v] = wsession[v]
    BY <1>2, <1>4
  <2>2. \A v \in Workers, s \in Sessions : Collecting(v, s)' <=> Collecting(v, s)
    BY <2>1 DEF Collecting
  <2> QED BY <1>1, <1>4, <2>1, <2>2, NothingMoves
<1>5. CASE NewPacket \/ SendReqGone \/ SendReqHeader \/ SendEnd
  BY <1>3, <1>5 DEF NewPacket, SendReqGone, SendReqHeader, SendEnd
<1>6. ASSUME NEW w \in Workers, NEW s \in Sessions, TakeFailed(w, s)
      PROVE  OnePlace' /\ \A r \in Sessions : Held(r)' = Held(r)
  BY <1>3, <1>6 DEF TakeFailed
<1>7. ASSUME NEW w \in Workers, SendIOCheck(w) \/ SendIOBusy(w) \/ SendIOEmpty(w)
                                \/ ClearSendFlag(w) \/ CancelIORegist(w)
      PROVE  OnePlace' /\ \A r \in Sessions : Held(r)' = Held(r)
  <2>1. \E label \in Labels :
           /\ Goto(w, label) /\ wpc[w] # "collect" /\ label # "collect"
           /\ UNCHANGED <<bufferVars, posts, wpacket>>
    BY <1>7 DEF SendIOCheck, SendIOBusy, SendIOEmpty, ClearSendFlag, CancelIORegist, Labels
  <2> QED BY <1>4, <2>1
<1>8. ASSUME NEW s \in Sessions, SendComplete(s) \/ DisconnectReq(s) \/ RecvEnds(s) \/ Accept(s)
      PROVE  OnePlace' /\ \A r \in Sessions : Held(r)' = Held(r)
  BY <1>3, <1>8 DEF SendComplete, DisconnectReq, RecvEnds, Accept
<1> QED BY <1>5, <1>6, <1>7, <1>8 DEF Quiet

LEMMA OnePlaceStep == ASSUME IInv, Next PROVE OnePlace'
<1>nx. Next OBVIOUS
<1>1. CASE Quiet BY <1>1, QuietMoves
<1>2. CASE SendReqPost BY <1>2, PostMoves
<1>3. ASSUME NEW w \in Workers, NEW s \in Sessions, TakePost(w, s) PROVE OnePlace'
  BY <1>3, TakePostMoves
<1>4. ASSUME NEW w \in Workers, NEW s \in Sessions, TakeSend(w, s) PROVE OnePlace'
  BY <1>4, TakeSendMoves
<1>5. ASSUME NEW w \in Workers, CollectSendPacket(w) PROVE OnePlace'
  BY <1>5, CollectMoves
<1>6. ASSUME NEW w \in Workers, SendIO(w) PROVE OnePlace'
  BY <1>6, SendIOMoves
<1>7. ASSUME NEW s \in Sessions, Release(s) PROVE OnePlace'
  BY <1>7, ReleaseMoves
<1> QED BY <1>nx, <1>1, <1>2, <1>3, <1>4, <1>5, <1>6, <1>7
       DEF Next, Content, Worker, Life, Quiet

----------------------------------------------------------------------------
(* The count of references. *)

LEMMA HoldersStay ==
  ASSUME \A s \in Sessions : Held(s)' = Held(s)
  PROVE  \A p : Holders(p)' = Holders(p)
BY DEF Holders

\* A session that drops packets takes back one reference to each.
LEMMA DropCounted ==
  ASSUME Types, Counted, NEW r \in Sessions, NEW ps \in SUBSET Packets, ps \subseteq Held(r),
         Drop(ps), UNCHANGED <<cpacket, targets>>,
         \A s \in Sessions : Held(s)' = Held(s) \ IF s = r THEN ps ELSE {}
  PROVE  Counted'
<1>1. \A p \in ps : referenceCounter[p] > 0 BY HeldHasHolder, HeldIsCounted
<1>2. /\ \A p \in Packets :
            /\ referenceCounter'[p] = referenceCounter[p] - (IF p \in ps THEN 1 ELSE 0)
            /\ p \in pool' <=> p \in pool \/ (p \in ps /\ referenceCounter'[p] = 0)
      /\ referenceCounter' \in [Packets -> Nat]
  BY <1>1, DropTypes
<1>3. ASSUME NEW p \in Packets
      PROVE  /\ referenceCounter'[p] = (IF cpacket' = p THEN 1 ELSE 0) + Cardinality(Holders(p)')
             /\ p \in pool' <=> referenceCounter'[p] = 0
  <2>1. /\ referenceCounter[p] = (IF cpacket = p THEN 1 ELSE 0) + Cardinality(Holders(p))
        /\ p \in pool <=> referenceCounter[p] = 0
    BY DEF Counted
  <2>2. referenceCounter[p] \in Nat /\ referenceCounter'[p] \in Nat BY <1>2 DEF Types, TypeOK
  <2>3. CASE p \notin ps
    <3>1. Holders(p)' = Holders(p) BY <2>3 DEF Holders
    <3> QED BY <1>2, <2>1, <2>2, <2>3, <3>1
  <2>4. CASE p \in ps
    <3>1. Holders(p)' = Holders(p) \ {r} BY <2>4 DEF Holders
    <3>2. r \in Holders(p) /\ IsFiniteSet(Holders(p)) /\ Cardinality(Holders(p)) \in Nat
      BY <2>4, HoldersFinite DEF Holders
    <3>3. Cardinality(Holders(p) \ {r}) = Cardinality(Holders(p)) - 1
      BY <3>2, FS_RemoveElement
    <3>4. referenceCounter[p] > 0 /\ p \notin pool BY <1>1, <2>1, <2>4
    <3> QED BY <1>2, <2>1, <2>2, <2>4, <3>1, <3>2, <3>3, <3>4
  <2> QED BY <2>3, <2>4
<1>4. \A s \in Sessions : Ahead(s)' => cpacket' \notin Held(s)' BY DEF Ahead, Counted
<1> QED BY <1>3, <1>4 DEF Counted

LEMMA CountedStep == ASSUME IInv, Next PROVE Counted'
<1>nx. Next OBVIOUS
<1>c. Types /\ Control /\ Counted BY DEF IInv
<1>t. /\ pool \subseteq Packets /\ referenceCounter \in [Packets -> Nat]
      /\ targets \in Seq(Sessions \X Nat) /\ cpacket \in Packets \union {Nobody}
  BY <1>c DEF Types, TypeOK
<1>nobody. Nobody \notin Sessions /\ Nobody \notin Packets BY PipelineAssumption
<1>n. /\ \A p \in Packets :
            /\ referenceCounter[p] = (IF cpacket = p THEN 1 ELSE 0) + Cardinality(Holders(p))
            /\ p \in pool <=> referenceCounter[p] = 0
      /\ \A s \in Sessions : Ahead(s) => cpacket \notin Held(s)
  BY <1>c DEF Counted
<1>fin. \A p \in Packets : IsFiniteSet(Holders(p)) /\ Cardinality(Holders(p)) \in Nat
  BY HoldersFinite
<1>1. ASSUME NewPacket PROVE Counted'
  <2>1. \A s \in Sessions : Held(s)' = Held(s) BY <1>1, QuietMoves DEF Quiet
  <2>2. \A p : Holders(p)' = Holders(p) BY <2>1, HoldersStay
  <2>3. PICK p \in pool :
           /\ pool' = pool \ {p} /\ cpacket' = p
           /\ referenceCounter' = [referenceCounter EXCEPT ![p] = @ + 1]
    BY <1>1 DEF NewPacket
  <2>4. p \in Packets /\ Holders(p) = {} BY <1>c, <1>t, <2>3, HeldIsCounted
  <2>5. cpacket = Nobody BY <1>1, <1>c DEF NewPacket, Control
  <2>6. \A q \in Packets : referenceCounter'[q] = referenceCounter[q] + IF q = p THEN 1 ELSE 0
    BY <1>t, <2>3, <2>4
  <2>7. \A q \in Packets : referenceCounter[q] = Cardinality(Holders(q))
    BY <1>n, <1>nobody, <1>fin, <2>5
  <2>8. ASSUME NEW q \in Packets
        PROVE  /\ referenceCounter'[q] = (IF cpacket' = q THEN 1 ELSE 0) + Cardinality(Holders(q)')
               /\ q \in pool' <=> referenceCounter'[q] = 0
    <3>1. Cardinality(Holders(q)') = Cardinality(Holders(q)) /\ Cardinality(Holders(q)) \in Nat
      BY <1>fin, <2>2
    <3>2. referenceCounter'[q] = (IF cpacket' = q THEN 1 ELSE 0) + Cardinality(Holders(q)')
      BY <2>3, <2>6, <2>7, <3>1
    <3>3. q \in pool' <=> referenceCounter'[q] = 0
      BY <1>n, <2>3, <2>6, <2>7, <3>1
    <3> QED BY <3>2, <3>3
  <2>9. \A s \in Sessions : cpacket' \notin Held(s)' BY <2>1, <2>3, <2>4 DEF Holders
  <2> QED BY <2>8, <2>9 DEF Counted
<1>2. ASSUME SendReqGone PROVE Counted'
  <2>1. \A s \in Sessions : Held(s)' = Held(s) BY <1>2, QuietMoves DEF Quiet
  <2>2. \A p : Holders(p)' = Holders(p) BY <2>1, HoldersStay
  <2>3. UNCHANGED <<pool, referenceCounter, cpacket>> /\ targets # <<>> /\ targets' = Tail(targets)
    BY <1>2 DEF SendReqGone
  <2>4. \A s \in Sessions : Ahead(s)' => Ahead(s) BY <1>c, <2>3, TailAhead
  <2> QED BY <1>n, <2>1, <2>2, <2>3, <2>4 DEF Counted
<1>3. ASSUME SendReqHeader PROVE Counted'
  <2>1. \A s \in Sessions : Held(s)' = Held(s) BY <1>3, QuietMoves DEF Quiet
  <2>2. \A p : Holders(p)' = Holders(p) BY <2>1, HoldersStay
  <2>3. UNCHANGED <<pool, referenceCounter, cpacket, targets>> BY <1>3 DEF SendReqHeader
  <2> QED BY <1>n, <2>1, <2>2, <2>3 DEF Counted, Ahead
<1>4. ASSUME SendReqPost PROVE Counted'
  <2>1. /\ cpacket \in Packets /\ Target \in Sessions
        /\ \A s \in Sessions : Held(s)' = Held(s) \union IF s = Target THEN {cpacket} ELSE {}
    BY <1>4, PostMoves
  <2>2. /\ UNCHANGED <<pool, cpacket>> /\ targets # <<>> /\ targets' = Tail(targets)
        /\ referenceCounter' = [referenceCounter EXCEPT ![cpacket] = @ + 1]
    BY <1>4, <1>c DEF SendReqPost, Control
  <2>3. Ahead(Target) /\ \A s \in Sessions : Ahead(s)' <=> Ahead(s) /\ s # Target
    BY <1>c, <2>2, TailAhead, ContentHas
  <2>4. \A s \in Sessions : Ahead(s)' => cpacket' \notin Held(s)' BY <1>n, <2>1, <2>2, <2>3
  <2>5. \A q \in Packets : referenceCounter'[q] = referenceCounter[q] + IF q = cpacket THEN 1 ELSE 0
    BY <1>t, <2>1, <2>2
  <2>6. \A q \in Packets : q # cpacket => Holders(q)' = Holders(q) BY <2>1 DEF Holders
  <2>7. Holders(cpacket)' = Holders(cpacket) \union {Target} BY <2>1, <2>2 DEF Holders
  <2>8. Target \notin Holders(cpacket) BY <1>n, <2>1, <2>3 DEF Holders
  <2>9. Cardinality(Holders(cpacket)') = Cardinality(Holders(cpacket)) + 1
    <3>1. IsFiniteSet(Holders(cpacket)) BY <1>fin, <2>1
    <3>2. Cardinality(Holders(cpacket) \union {Target}) = Cardinality(Holders(cpacket)) + 1
      BY <2>8, <3>1, FS_AddElement
    <3> QED BY <2>7, <3>2
  <2>10. ASSUME NEW q \in Packets
         PROVE  /\ referenceCounter'[q] = (IF cpacket' = q THEN 1 ELSE 0) + Cardinality(Holders(q)')
                /\ q \in pool' <=> referenceCounter'[q] = 0
    <3>1. referenceCounter[q] \in Nat /\ Cardinality(Holders(q)) \in Nat BY <1>t, <1>fin
    <3>2. CASE q # cpacket BY <1>n, <2>2, <2>5, <2>6, <3>1, <3>2
    <3>3. CASE q = cpacket
      <4>1. referenceCounter'[q] = referenceCounter[q] + 1 BY <2>5, <3>3
      <4>2. Cardinality(Holders(q)') = Cardinality(Holders(q)) + 1 BY <2>2, <2>9, <3>3 DEF Holders
      <4>3. referenceCounter[q] = 1 + Cardinality(Holders(q)) BY <1>n, <3>3
      <4>4. cpacket' = q /\ pool' = pool BY <2>2, <3>3
      <4>5. q \notin pool /\ referenceCounter'[q] # 0 BY <1>n, <3>1, <4>1, <4>3
      <4> QED BY <3>1, <4>1, <4>2, <4>3, <4>4, <4>5
    <3> QED BY <3>2, <3>3
  <2> QED BY <2>4, <2>10 DEF Counted
<1>5. ASSUME SendEnd PROVE Counted'
  <2>1. \A s \in Sessions : Held(s)' = Held(s) BY <1>5, QuietMoves DEF Quiet
  <2>2. \A p : Holders(p)' = Holders(p) BY <2>1, HoldersStay
  <2>3. /\ cpacket \in Packets /\ cpacket' = Nobody /\ Drop({cpacket})
        /\ referenceCounter[cpacket] > 0
    BY <1>5, <1>c, ContentHas, HeldIsCounted DEF SendEnd
  <2>4. \A q \in Packets :
           /\ referenceCounter'[q] = referenceCounter[q] - (IF q \in {cpacket} THEN 1 ELSE 0)
           /\ q \in pool' <=> q \in pool \/ (q \in {cpacket} /\ referenceCounter'[q] = 0)
    BY <1>c, <2>3, DropTypes
  <2>5. ASSUME NEW q \in Packets
        PROVE  /\ referenceCounter'[q] = (IF cpacket' = q THEN 1 ELSE 0) + Cardinality(Holders(q)')
               /\ q \in pool' <=> referenceCounter'[q] = 0
    <3>1. referenceCounter[q] \in Nat /\ Cardinality(Holders(q)) \in Nat BY <1>t, <1>fin
    <3>2. Holders(q)' = Holders(q) /\ cpacket' # q BY <1>nobody, <2>2, <2>3
    <3>3. CASE q # cpacket BY <1>n, <2>4, <3>1, <3>2, <3>3
    <3>4. CASE q = cpacket BY <1>n, <2>3, <2>4, <3>1, <3>2, <3>4
    <3> QED BY <3>3, <3>4
  <2>6. \A s \in Sessions : ~Ahead(s)' BY <1>5 DEF SendEnd, Ahead
  <2> QED BY <2>5, <2>6 DEF Counted
<1>6. ASSUME NEW w \in Workers, NEW r \in Sessions, TakePost(w, r) PROVE Counted'
  <2>1. \A s \in Sessions : Held(s)' = Held(s) BY <1>6, TakePostMoves
  <2>2. \A p : Holders(p)' = Holders(p) BY <2>1, HoldersStay
  <2>3. UNCHANGED <<pool, referenceCounter, cpacket, targets>> BY <1>6 DEF TakePost
  <2> QED BY <1>n, <2>1, <2>2, <2>3 DEF Counted, Ahead
<1>7. ASSUME NEW w \in Workers, NEW r \in Sessions, TakeSend(w, r) PROVE Counted'
  <2>1. PICK a \in Seq(Packets) :
           /\ Range(a) \subseteq Held(r) /\ Drop(Range(a))
           /\ \A s \in Sessions : Held(s)' = Held(s) \ IF s = r THEN Range(a) ELSE {}
    BY <1>7, TakeSendMoves
  <2>2. UNCHANGED <<cpacket, targets>> BY <1>7 DEF TakeSend
  <2>3. Range(a) \in SUBSET Packets BY RangeOfSeq
  <2> QED BY <1>c, <2>1, <2>2, <2>3, DropCounted
<1>8. ASSUME NEW w \in Workers, NEW r \in Sessions, TakeFailed(w, r) PROVE Counted'
  <2>1. \A s \in Sessions : Held(s)' = Held(s) BY <1>8, QuietMoves DEF Quiet
  <2>2. \A p : Holders(p)' = Holders(p) BY <2>1, HoldersStay
  <2>3. UNCHANGED <<pool, referenceCounter, cpacket, targets>> BY <1>8 DEF TakeFailed
  <2> QED BY <1>n, <2>1, <2>2, <2>3 DEF Counted, Ahead
<1>9. ASSUME NEW w \in Workers, CollectSendPacket(w) PROVE Counted'
  <2>1. UNCHANGED <<cpacket, targets>> BY <1>9 DEF CollectSendPacket
  <2>2. CASE (\A s \in Sessions : Held(s)' = Held(s)) /\ UNCHANGED packetVars
    <3>1. \A p : Holders(p)' = Holders(p) BY <2>2, HoldersStay
    <3> QED BY <1>n, <2>1, <2>2, <3>1 DEF Counted, Ahead
  <2>3. CASE /\ \A s \in Sessions :
                   Held(s)' = Held(s) \ IF s = wsession[w] THEN {wpacket[w]} ELSE {}
             /\ Drop({wpacket[w]})
    <3>1. {wpacket[w]} \in SUBSET Packets /\ {wpacket[w]} \subseteq Held(wsession[w])
          /\ wsession[w] \in Sessions
      BY <1>9, CollectMoves
    <3> QED BY <1>c, <2>1, <2>3, <3>1, DropCounted
  <2> QED BY <1>9, <2>2, <2>3, CollectMoves
<1>10. ASSUME NEW w \in Workers, SendIOCheck(w) PROVE Counted'
  <2>1. \A s \in Sessions : Held(s)' = Held(s) BY <1>10, QuietMoves DEF Quiet
  <2>2. \A p : Holders(p)' = Holders(p) BY <2>1, HoldersStay
  <2>3. UNCHANGED <<pool, referenceCounter, cpacket, targets>> BY <1>10 DEF SendIOCheck
  <2> QED BY <1>n, <2>1, <2>2, <2>3 DEF Counted, Ahead
<1>11. ASSUME NEW w \in Workers, SendIOBusy(w) PROVE Counted'
  <2>1. \A s \in Sessions : Held(s)' = Held(s) BY <1>11, QuietMoves DEF Quiet
  <2>2. \A p : Holders(p)' = Holders(p) BY <2>1, HoldersStay
  <2>3. UNCHANGED <<pool, referenceCounter, cpacket, targets>> BY <1>11 DEF SendIOBusy
  <2> QED BY <1>n, <2>1, <2>2, <2>3 DEF Counted, Ahead
<1>12. ASSUME NEW w \in Workers, SendIOEmpty(w) PROVE Counted'
  <2>1. \A s \in Sessions : Held(s)' = Held(s) BY <1>12, QuietMoves DEF Quiet
  <2>2. \A p : Holders(p)' = Holders(p) BY <2>1, HoldersStay
  <2>3. UNCHANGED <<pool, referenceCounter, cpacket, targets>> BY <1>12 DEF SendIOEmpty
  <2> QED BY <1>n, <2>1, <2>2, <2>3 DEF Counted, Ahead
<1>13. ASSUME NEW w \in Workers, SendIO(w) PROVE Counted'
  <2>1. \A s \in Sessions : Held(s)' = Held(s) BY <1>13, SendIOMoves
  <2>2. \A p : Holders(p)' = Holders(p) BY <2>1, HoldersStay
  <2>3. UNCHANGED <<pool, referenceCounter, cpacket, targets>> BY <1>13 DEF SendIO
  <2> QED BY <1>n, <2>1, <2>2, <2>3 DEF Counted, Ahead
<1>14. ASSUME NEW w \in Workers, ClearSendFlag(w) PROVE Counted'
  <2>1. \A s \in Sessions : Held(s)' = Held(s) BY <1>14, QuietMoves DEF Quiet
  <2>2. \A p : Holders(p)' = Holders(p) BY <2>1, HoldersStay
  <2>3. UNCHANGED <<pool, referenceCounter, cpacket, targets>> BY <1>14 DEF ClearSendFlag
  <2> QED BY <1>n, <2>1, <2>2, <2>3 DEF Counted, Ahead
<1>15. ASSUME NEW w \in Workers, CancelIORegist(w) PROVE Counted'
  <2>1. \A s \in Sessions : Held(s)' = Held(s) BY <1>15, QuietMoves DEF Quiet
  <2>2. \A p : Holders(p)' = Holders(p) BY <2>1, HoldersStay
  <2>3. UNCHANGED <<pool, referenceCounter, cpacket, targets>> BY <1>15 DEF CancelIORegist
  <2> QED BY <1>n, <2>1, <2>2, <2>3 DEF Counted, Ahead
<1>16. ASSUME NEW r \in Sessions, SendComplete(r) PROVE Counted'
  <2>1. \A s \in Sessions : Held(s)' = Held(s) BY <1>16, QuietMoves DEF Quiet
  <2>2. \A p : Holders(p)' = Holders(p) BY <2>1, HoldersStay
  <2>3. UNCHANGED <<pool, referenceCounter, cpacket, targets>> BY <1>16 DEF SendComplete
  <2> QED BY <1>n, <2>1, <2>2, <2>3 DEF Counted, Ahead
<1>17. ASSUME NEW r \in Sessions, DisconnectReq(r) PROVE Counted'
  <2>1. \A s \in Sessions : Held(s)' = Held(s) BY <1>17, QuietMoves DEF Quiet
  <2>2. \A p : Holders(p)' = Holders(p) BY <2>1, HoldersStay
  <2>3. UNCHANGED <<pool, referenceCounter, cpacket, targets>> BY <1>17 DEF DisconnectReq
  <2> QED BY <1>n, <2>1, <2>2, <2>3 DEF Counted, Ahead
<1>18. ASSUME NEW r \in Sessions, RecvEnds(r) PROVE Counted'
  <2>1. \A s \in Sessions : Held(s)' = Held(s) BY <1>18, QuietMoves DEF Quiet
  <2>2. \A p : Holders(p)' = Holders(p) BY <2>1, HoldersStay
  <2>3. UNCHANGED <<pool, referenceCounter, cpacket, targets>> BY <1>18 DEF RecvEnds
  <2> QED BY <1>n, <2>1, <2>2, <2>3 DEF Counted, Ahead
<1>19. ASSUME NEW r \in Sessions, Release(r) PROVE Counted'
  <2>1. /\ Drop(Held(r)) /\ \A s \in Sessions : Held(s)' = IF s = r THEN {} ELSE Held(s)
    BY <1>19, ReleaseMoves
  <2>2. UNCHANGED <<cpacket, targets>> BY <1>19 DEF Release
  <2>3. Held(r) \in SUBSET Packets BY <1>c, HeldArePackets
  <2>4. \A s \in Sessions : Held(s)' = Held(s) \ IF s = r THEN Held(r) ELSE {} BY <2>1
  <2> QED BY <1>c, <2>1, <2>2, <2>3, <2>4, DropCounted
<1>20. ASSUME NEW r \in Sessions, Accept(r) PROVE Counted'
  <2>1. \A s \in Sessions : Held(s)' = Held(s) BY <1>20, QuietMoves DEF Quiet
  <2>2. \A p : Holders(p)' = Holders(p) BY <2>1, HoldersStay
  <2>3. UNCHANGED <<pool, referenceCounter, cpacket, targets>> BY <1>20 DEF Accept
  <2> QED BY <1>n, <2>1, <2>2, <2>3 DEF Counted, Ahead
<1> QED
  BY <1>nx, <1>1, <1>2, <1>3, <1>4, <1>5, <1>6, <1>7, <1>8, <1>9, <1>10, <1>11, <1>12,
     <1>13, <1>14, <1>15, <1>16, <1>17, <1>18, <1>19, <1>20 DEF Next, Content, Worker, Life

----------------------------------------------------------------------------
(* Sessions, their flag and what they have sent. *)

LEMMA DeadStep == ASSUME IInv, Next PROVE DeadIsEmpty'
<1> SUFFICES ASSUME NEW s \in Sessions, released'[s] PROVE IsEmpty(s)' BY DEF DeadIsEmpty
<1>nx. Next OBVIOUS
<1>c. Types /\ Control /\ DeadIsEmpty /\ FlagOwned /\ SendedIsSent BY DEF IInv
<1>t. /\ wpc \in [Workers -> Labels] /\ wsession \in [Workers -> Sessions \union {Nobody}]
      /\ wpacket \in [Workers -> Packets \union {Nobody}]
      /\ sendBuffer \in [Sessions -> Seq(Packets)] /\ sendedBuffer \in [Sessions -> Seq(Packets)]
      /\ posts \in [Sessions -> Seq(Packets)] /\ wsabufs \in [Sessions -> Seq(Packets)]
      /\ sendOv \in [Sessions -> {"idle", "pending", "ok", "failed"}]
      /\ released \in [Sessions -> BOOLEAN] /\ sendFlag \in [Sessions -> BOOLEAN]
      /\ failed \in [Sessions -> BOOLEAN]
  BY <1>c DEF Types, TypeOK
<1>nobody. Nobody # s BY PipelineAssumption
<1>d. released[s] => /\ posts[s] = <<>> /\ sendOv[s] = "idle"
                     /\ sendBuffer[s] = <<>> /\ sendedBuffer[s] = <<>>
                     /\ \A w \in Workers : wsession[w] # s
                     /\ ~(cpc = "encrypt" /\ Target = s)
  BY <1>c DEF DeadIsEmpty, IsEmpty
<1>1. ASSUME NewPacket PROVE IsEmpty(s)'
  BY <1>1, <1>d, <1>t, <1>nobody DEF NewPacket, IsEmpty, Target
<1>2. ASSUME SendReqGone PROVE IsEmpty(s)'
  BY <1>2, <1>d, <1>t, <1>nobody DEF SendReqGone, IsEmpty, Target
<1>3. ASSUME SendReqHeader PROVE IsEmpty(s)'
  <2>1. released[s] /\ Target # s /\ UNCHANGED targets BY <1>3 DEF SendReqHeader
  <2>2. UNCHANGED <<sessionVars, workerVars>> BY <1>3 DEF SendReqHeader
  <2> QED BY <1>d, <2>1, <2>2 DEF IsEmpty, Target
<1>4. ASSUME SendReqPost PROVE IsEmpty(s)'
  <2>1. released[s] /\ cpc = "encrypt" /\ cpc' = "send" BY <1>4 DEF SendReqPost
  <2>2. UNCHANGED <<bufferVars, ioVars, workerVars>> BY <1>4 DEF SendReqPost
  <2>3. posts' = [posts EXCEPT ![Target] = Append(@, cpacket)] BY <1>4 DEF SendReqPost
  <2>4. posts'[s] = posts[s] BY <1>d, <1>t, <2>1, <2>3
  <2> QED BY <1>d, <2>1, <2>2, <2>4 DEF IsEmpty
<1>5. ASSUME SendEnd PROVE IsEmpty(s)'
  BY <1>5, <1>d, <1>t, <1>nobody DEF SendEnd, IsEmpty, Target
<1>6. ASSUME NEW w \in Workers, NEW r \in Sessions, TakePost(w, r) PROVE IsEmpty(s)'
  BY <1>6, <1>d, <1>t, <1>nobody DEF TakePost, IsEmpty, Target
<1>7. ASSUME NEW w \in Workers, NEW r \in Sessions, TakeSend(w, r) PROVE IsEmpty(s)'
  <2>1. released[s] /\ r # s BY <1>7, <1>d DEF TakeSend
  <2>2. PICK b \in Seq(Packets) : sendedBuffer' = [sendedBuffer EXCEPT ![r] = b]
    BY <1>7, TakeSendMoves
  <2>3. sendedBuffer'[s] = sendedBuffer[s] BY <1>t, <2>1, <2>2
  <2>4. UNCHANGED <<cpc, targets, posts, sendBuffer>> /\ sendOv'[s] = sendOv[s]
        /\ \A v \in Workers : wsession'[v] # s
    BY <1>7, <1>d, <1>t, <2>1 DEF TakeSend
  <2> QED BY <1>d, <2>1, <2>3, <2>4 DEF IsEmpty, Target
<1>8. ASSUME NEW w \in Workers, NEW r \in Sessions, TakeFailed(w, r) PROVE IsEmpty(s)'
  BY <1>8, <1>d, <1>t, <1>nobody DEF TakeFailed, IsEmpty, Target
<1>9. ASSUME NEW w \in Workers, CollectSendPacket(w) PROVE IsEmpty(s)'
  <2>1. wsession[w] \in Sessions BY <1>9, <1>c, CollectHas DEF CollectSendPacket
  <2>2. released[s] /\ wsession[w] # s BY <1>9, <1>d DEF CollectSendPacket
  <2>3. /\ UNCHANGED <<cpc, targets, sendOv, posts, sendedBuffer>>
        /\ sendBuffer'[s] = sendBuffer[s] /\ \A v \in Workers : wsession'[v] # s
    BY <1>9, <1>d, <1>t, <2>1, <2>2, PipelineAssumption DEF CollectSendPacket
  <2> QED BY <1>d, <2>2, <2>3 DEF IsEmpty, Target
<1>10. ASSUME NEW w \in Workers, SendIOCheck(w) PROVE IsEmpty(s)'
  BY <1>10, <1>d, <1>t, <1>nobody DEF SendIOCheck, IsEmpty, Target
<1>11. ASSUME NEW w \in Workers, SendIOBusy(w) PROVE IsEmpty(s)'
  BY <1>11, <1>d, <1>t, <1>nobody DEF SendIOBusy, IsEmpty, Target
<1>12. ASSUME NEW w \in Workers, SendIOEmpty(w) PROVE IsEmpty(s)'
  BY <1>12, <1>d, <1>t, <1>nobody DEF SendIOEmpty, IsEmpty, Target
<1>13. ASSUME NEW w \in Workers, SendIO(w) PROVE IsEmpty(s)'
  <2>1. wsession[w] \in Sessions BY <1>13, <1>c, CollectHas DEF SendIO
  <2>2. released[s] /\ wsession[w] # s BY <1>13, <1>d DEF SendIO
  <2>3. sendBuffer'[s] = sendBuffer[s] /\ sendedBuffer'[s] = sendedBuffer[s] /\ sendOv'[s] = sendOv[s]
    BY <1>13, <1>t, <2>2 DEF SendIO
  <2>4. UNCHANGED <<cpc, targets, posts>> /\ \A v \in Workers : wsession'[v] # s
    BY <1>13, <1>d, <1>t, <2>2, PipelineAssumption DEF SendIO
  <2> QED BY <1>d, <2>2, <2>3, <2>4 DEF IsEmpty, Target
<1>14. ASSUME NEW w \in Workers, ClearSendFlag(w) PROVE IsEmpty(s)'
  BY <1>14, <1>d, <1>t, <1>nobody DEF ClearSendFlag, IsEmpty, Target
<1>15. ASSUME NEW w \in Workers, CancelIORegist(w) PROVE IsEmpty(s)'
  BY <1>15, <1>d, <1>t, <1>nobody DEF CancelIORegist, IsEmpty, Target
<1>16. ASSUME NEW r \in Sessions, SendComplete(r) PROVE IsEmpty(s)'
  BY <1>16, <1>d, <1>t, <1>nobody DEF SendComplete, IsEmpty, Target
<1>17. ASSUME NEW r \in Sessions, DisconnectReq(r) PROVE IsEmpty(s)'
  BY <1>17, <1>d, <1>t, <1>nobody DEF DisconnectReq, IsEmpty, Target
<1>18. ASSUME NEW r \in Sessions, RecvEnds(r) PROVE IsEmpty(s)'
  BY <1>18, <1>d, <1>t, <1>nobody DEF RecvEnds, IsEmpty, Target
<1>19. ASSUME NEW r \in Sessions, Release(r) PROVE IsEmpty(s)'
  <2>1. CASE s # r BY <1>19, <1>d, <1>t, <2>1 DEF Release, IsEmpty, Target
  <2>2. CASE s = r BY <1>19, <1>d, <1>t, <2>2 DEF Release, Unreferenced, IsEmpty, Target
  <2> QED BY <2>1, <2>2
<1>20. ASSUME NEW r \in Sessions, Accept(r) PROVE IsEmpty(s)'
  BY <1>20, <1>d, <1>t, <1>nobody DEF Accept, IsEmpty, Target
<1> QED
  BY <1>nx, <1>1, <1>2, <1>3, <1>4, <1>5, <1>6, <1>7, <1>8, <1>9, <1>10, <1>11, <1>12,
     <1>13, <1>14, <1>15, <1>16, <1>17, <1>18, <1>19, <1>20 DEF Next, Content, Worker, Life

LEMMA FlagStep == ASSUME IInv, Next PROVE FlagOwned'
<1> SUFFICES ASSUME NEW s \in Sessions PROVE FlagOwnedOf(s)' BY DEF FlagOwned
<1>nx. Next OBVIOUS
<1>c. Types /\ Control /\ DeadIsEmpty /\ FlagOwned /\ SendedIsSent BY DEF IInv
<1>t. /\ wpc \in [Workers -> Labels] /\ wsession \in [Workers -> Sessions \union {Nobody}]
      /\ wpacket \in [Workers -> Packets \union {Nobody}]
      /\ sendBuffer \in [Sessions -> Seq(Packets)] /\ sendedBuffer \in [Sessions -> Seq(Packets)]
      /\ posts \in [Sessions -> Seq(Packets)] /\ wsabufs \in [Sessions -> Seq(Packets)]
      /\ sendOv \in [Sessions -> {"idle", "pending", "ok", "failed"}]
      /\ released \in [Sessions -> BOOLEAN] /\ sendFlag \in [Sessions -> BOOLEAN]
      /\ failed \in [Sessions -> BOOLEAN]
  BY <1>c DEF Types, TypeOK
<1>f. FlagOwnedOf(s) BY <1>c DEF FlagOwned
<1>1. ASSUME NewPacket PROVE FlagOwnedOf(s)'
  BY <1>1, <1>f, <1>t DEF NewPacket, FlagOwnedOf, Clearing
<1>2. ASSUME SendReqGone PROVE FlagOwnedOf(s)'
  BY <1>2, <1>f, <1>t DEF SendReqGone, FlagOwnedOf, Clearing
<1>3. ASSUME SendReqHeader PROVE FlagOwnedOf(s)'
  BY <1>3, <1>f, <1>t DEF SendReqHeader, FlagOwnedOf, Clearing
<1>4. ASSUME SendReqPost PROVE FlagOwnedOf(s)'
  BY <1>4, <1>f, <1>t DEF SendReqPost, FlagOwnedOf, Clearing
<1>5. ASSUME SendEnd PROVE FlagOwnedOf(s)'
  BY <1>5, <1>f, <1>t DEF SendEnd, FlagOwnedOf, Clearing
<1>6. ASSUME NEW w \in Workers, NEW r \in Sessions, TakePost(w, r) PROVE FlagOwnedOf(s)'
  BY <1>6, <1>f, <1>t DEF TakePost, FlagOwnedOf, Clearing
<1>7. ASSUME NEW w \in Workers, NEW r \in Sessions, TakeSend(w, r) PROVE FlagOwnedOf(s)'
  <2>1. UNCHANGED sendFlag /\ sendOv[r] = "ok" /\ sendOv' = [sendOv EXCEPT ![r] = "idle"]
        /\ Begin(w, r, "clear")
    BY <1>7 DEF TakeSend
  <2> QED BY <1>f, <1>t, <2>1 DEF FlagOwnedOf, Clearing
<1>8. ASSUME NEW w \in Workers, NEW r \in Sessions, TakeFailed(w, r) PROVE FlagOwnedOf(s)'
  BY <1>8, <1>f, <1>t DEF TakeFailed, FlagOwnedOf, Clearing
<1>9. ASSUME NEW w \in Workers, CollectSendPacket(w) PROVE FlagOwnedOf(s)'
  <2>1. UNCHANGED <<sendFlag, sendOv>> /\ (Goto(w, "idle") \/ Goto(w, "send_chk"))
        /\ wpc[w] = "collect"
    BY <1>9 DEF CollectSendPacket
  <2>2. \A v \in Workers : Clearing(v, s)' <=> Clearing(v, s) BY <1>t, <2>1 DEF Clearing
  <2> QED BY <1>f, <2>1, <2>2 DEF FlagOwnedOf
<1>10. ASSUME NEW w \in Workers, SendIOCheck(w) PROVE FlagOwnedOf(s)'
  BY <1>10, <1>f, <1>t DEF SendIOCheck, FlagOwnedOf, Clearing
<1>11. ASSUME NEW w \in Workers, SendIOBusy(w) PROVE FlagOwnedOf(s)'
  BY <1>11, <1>f, <1>t DEF SendIOBusy, FlagOwnedOf, Clearing
<1>12. ASSUME NEW w \in Workers, SendIOEmpty(w) PROVE FlagOwnedOf(s)'
  BY <1>12, <1>f, <1>t DEF SendIOEmpty, FlagOwnedOf, Clearing
<1>13. ASSUME NEW w \in Workers, SendIO(w) PROVE FlagOwnedOf(s)'
  <2> DEFINE r == wsession[w]
  <2>1. r \in Sessions /\ ~sendFlag[r] /\ sendFlag' = [sendFlag EXCEPT ![r] = TRUE]
    BY <1>13, <1>c, CollectHas DEF SendIO
  <2>2. \/ sendOv' = [sendOv EXCEPT ![r] = "pending"] /\ Goto(w, "idle")
        \/ sendOv' = sendOv /\ (Goto(w, "cancel") \/ Goto(w, "fail_clear"))
    BY <1>13 DEF SendIO
  <2> HIDE DEF r
  <2>3. \A v \in Workers : v # w => (Clearing(v, s)' <=> Clearing(v, s))
    BY <1>t, <2>2 DEF Clearing
  <2>4. CASE s # r
    <3>1. sendFlag'[s] = sendFlag[s] /\ sendOv'[s] = sendOv[s] BY <1>t, <2>1, <2>2, <2>4
    <3>2. ~Clearing(w, s)' BY <1>t, <2>2, <2>4 DEF Clearing, r
    <3> QED BY <1>f, <2>3, <3>1, <3>2 DEF FlagOwnedOf
  <2>5. CASE s = r
    <3>1. sendFlag'[s] /\ sendOv[s] = "idle" /\ \A v \in Workers : ~Clearing(v, s)
      BY <1>f, <1>t, <2>1, <2>5 DEF FlagOwnedOf
    <3>2. Clearing(w, s)' => sendOv'[s] = "idle" BY <1>t, <2>2, <3>1 DEF Clearing
    <3> QED BY <2>3, <3>1, <3>2 DEF FlagOwnedOf
  <2> QED BY <2>4, <2>5
<1>14. ASSUME NEW w \in Workers, ClearSendFlag(w) PROVE FlagOwnedOf(s)'
  <2> DEFINE r == wsession[w]
  <2>1. r \in Sessions /\ sendFlag' = [sendFlag EXCEPT ![r] = FALSE] /\ sendOv' = sendOv
        /\ Clearing(w, r)
    BY <1>14, <1>c, CollectHas DEF ClearSendFlag, Clearing
  <2>2. (\E label \in {"idle", "cancel", "send_chk"} : Goto(w, label)) BY <1>14 DEF ClearSendFlag
  <2>3. \A v \in Workers : Clearing(v, s)' <=> v # w /\ Clearing(v, s)
    BY <1>t, <2>2 DEF Clearing
  <2>4. Clearing(w, s) => s = r BY DEF Clearing
  <2> HIDE DEF r
  <2>5. CASE s # r
    <3>1. sendFlag'[s] = sendFlag[s] /\ sendOv'[s] = sendOv[s] BY <1>t, <2>1, <2>5
    <3> QED BY <1>f, <2>3, <3>1 DEF FlagOwnedOf
  <2>6. CASE s = r
    <3>1. sendOv'[s] = "idle" /\ \A v \in Workers : ~Clearing(v, s)'
      BY <1>f, <2>1, <2>3, <2>6 DEF FlagOwnedOf
    <3> QED BY <3>1 DEF FlagOwnedOf
  <2> QED BY <2>5, <2>6
<1>15. ASSUME NEW w \in Workers, CancelIORegist(w) PROVE FlagOwnedOf(s)'
  BY <1>15, <1>f, <1>t DEF CancelIORegist, FlagOwnedOf, Clearing
<1>16. ASSUME NEW r \in Sessions, SendComplete(r) PROVE FlagOwnedOf(s)'
  BY <1>16, <1>f, <1>t DEF SendComplete, FlagOwnedOf, Clearing
<1>17. ASSUME NEW r \in Sessions, DisconnectReq(r) PROVE FlagOwnedOf(s)'
  BY <1>17, <1>f, <1>t DEF DisconnectReq, FlagOwnedOf, Clearing
<1>18. ASSUME NEW r \in Sessions, RecvEnds(r) PROVE FlagOwnedOf(s)'
  BY <1>18, <1>f, <1>t DEF RecvEnds, FlagOwnedOf, Clearing
<1>19. ASSUME NEW r \in Sessions, Release(r) PROVE FlagOwnedOf(s)'
  BY <1>19, <1>f, <1>t DEF Release, FlagOwnedOf, Clearing
<1>20. ASSUME NEW r \in Sessions, Accept(r) PROVE FlagOwnedOf(s)'
  <2>1. CASE s # r BY <1>20, <1>f, <1>t, <2>1 DEF Accept, FlagOwnedOf, Clearing
  <2>2. CASE s = r BY <1>20, <1>c, <1>t, <2>2 DEF Accept, DeadIsEmpty, IsEmpty, FlagOwnedOf, Clearing
  <2> QED BY <2>1, <2>2
<1> QED
  BY <1>nx, <1>1, <1>2, <1>3, <1>4, <1>5, <1>6, <1>7, <1>8, <1>9, <1>10, <1>11, <1>12,
     <1>13, <1>14, <1>15, <1>16, <1>17, <1>18, <1>19, <1>20 DEF Next, Content, Worker, Life

\* sended() comes out even after all of the packets of the WSASend, and not
\* before.
LEMMA BytesGrow ==
  ASSUME Types, NEW q \in Seq(Packets), NEW n \in 1 .. Len(q)
  PROVE  Bytes(SubSeq(q, 1, n)) = Bytes(q) <=> n = Len(q)
<1>1. \A p \in Packets : Size(p) \in Nat \ {0} BY SizeIsPositive
<1> DEFINE Sizes(x) == [i \in DOMAIN x |-> Size(x[i])]
           l == Len(q)
           front == SubSeq(q, 1, n)
<1>2. /\ l \in Nat /\ DOMAIN q = 1 .. l /\ \A i \in 1 .. l : q[i] \in Packets
  BY LenProperties, ElementOfSeq
<1>3. front \in Seq(Packets) /\ Len(front) = n /\ \A i \in 1 .. n : front[i] = q[i]
  <2>1. n \in 0 .. Len(q) BY <1>2
  <2> QED BY <2>1, CutSeq
<1>4. DOMAIN front = 1 .. n /\ \A i \in 1 .. n : front[i] \in Packets
  BY <1>3, LenProperties, ElementOfSeq
<1> HIDE DEF front, l
<1>5. Sizes(q) \in Seq(Nat \ {0}) /\ Len(Sizes(q)) = l
  <2>1. [i \in 1 .. l |-> Size(q[i])] \in [1 .. l -> Nat \ {0}] BY <1>1, <1>2
  <2> QED BY <1>2, <2>1, MapIsSeq
<1>6. Sizes(front) \in Seq(Nat \ {0}) /\ Len(Sizes(front)) = n
  <2>1. [i \in 1 .. n |-> Size(front[i])] \in [1 .. n -> Nat \ {0}] BY <1>1, <1>4
  <2>2. n \in Nat BY <1>2
  <2> QED BY <1>4, <2>1, <2>2, MapIsSeq
<1>7. n \in 1 .. l BY DEF l
<1>8. \A i \in 1 .. n : Sizes(front)[i] = Sizes(q)[i] BY <1>2, <1>3, <1>4, <1>7
<1>9. CASE n = l
  <2>1. front = q BY <1>9, SubSeqFull DEF front, l
  <2> QED BY <1>9, <2>1 DEF front, l
<1>10. CASE n # l
  <2> DEFINE a == Sizes(front)
             b == Sizes(q)
  <2>1. a \in Seq(Nat \ {0}) /\ b \in Seq(Nat \ {0}) /\ Len(a) = n /\ Len(b) = l
        /\ \A i \in 1 .. n : a[i] = b[i]
    BY <1>5, <1>6, <1>8
  <2>2. Bytes(front) = Total(a) /\ Bytes(q) = Total(b) BY DEF Bytes
  <2> HIDE DEF a, b
  <2>3. Len(a) < Len(b) BY <1>2, <1>7, <1>10, <2>1
  <2>4. Total(a) < Total(b) BY <2>1, <2>3, TotalGrows
  <2>5. Total(b) \in Nat
    <3>1. b \in Seq(Nat) /\ Len(b) \in Nat BY <2>1, <1>2, SeqMonotonic
    <3> QED BY <3>1, TotalSums
  <2>6. Total(a) # Total(b)
    <3>1. a \in Seq(Nat) /\ Len(a) \in Nat BY <2>1, <1>2, <1>7, SeqMonotonic
    <3>2. Total(a) \in Nat BY <3>1, TotalSums
    <3> QED BY <2>4, <2>5, <3>2
  <2> QED BY <1>10, <2>2, <2>6 DEF front, l
<1> QED BY <1>9, <1>10


\* Without a failed WSASend, what a completion pops is what was sent, and
\* nothing is left.
LEMMA TakeSendExact ==
  ASSUME IInv, NEW w \in Workers, NEW r \in Sessions, TakeSend(w, r), ~failed[r]
  PROVE  wrapped' = wrapped /\ sendedBuffer'[r] = <<>>
<1>1. Types /\ SendedOf(r) BY DEF IInv, SendedIsSent
<1>2. sendOv[r] = "ok" BY DEF TakeSend
<1>3. sendedBuffer[r] = wsabufs[r] /\ wsabufs[r] # <<>> BY <1>1, <1>2 DEF SendedOf
<1> DEFINE q == sendedBuffer[r]
<1>4. q \in Seq(Packets) /\ sendedBuffer \in [Sessions -> Seq(Packets)] BY <1>1 DEF Types, TypeOK
<1>5. Len(q) \in Nat \ {0} /\ Len(q) \in 1 .. Len(q) BY <1>3, <1>4, EmptySeq
<1>6. \/ \E n \in 1 .. Len(q) :
            /\ Bytes(SubSeq(q, 1, n)) = Bytes(wsabufs[r])
            /\ sendedBuffer' = [sendedBuffer EXCEPT ![r] = SubSeq(q, n + 1, Len(q))]
            /\ wrapped' = wrapped
      \/ \A n \in 1 .. Len(q) : ~(Bytes(SubSeq(q, 1, n)) = Bytes(wsabufs[r]))
  BY Zenon DEF TakeSend
<1>7. Bytes(wsabufs[r]) = Bytes(q) BY <1>3
<1> HIDE DEF q
<1>8. \A n \in 1 .. Len(q) : Bytes(SubSeq(q, 1, n)) = Bytes(q) <=> n = Len(q)
  BY <1>1, <1>4, BytesGrow
<1>9. sendedBuffer' = [sendedBuffer EXCEPT ![r] = SubSeq(q, Len(q) + 1, Len(q))]
      /\ wrapped' = wrapped
  BY <1>5, <1>6, <1>7, <1>8
<1>10. SubSeq(q, Len(q) + 1, Len(q)) = <<>> BY <1>5, SubSeqEmpty
<1> QED BY <1>4, <1>9, <1>10

LEMMA WrappedStep == ASSUME IInv, Next PROVE wrapped' => \E s \in Sessions : failed'[s]
<1>nx. Next OBVIOUS
<1>w. ~wrapped BY DEF Next
<1>1. ASSUME NewPacket PROVE wrapped' => \E s \in Sessions : failed'[s]
  BY <1>1, <1>w DEF NewPacket
<1>2. ASSUME SendReqGone PROVE wrapped' => \E s \in Sessions : failed'[s]
  BY <1>2, <1>w DEF SendReqGone
<1>3. ASSUME SendReqHeader PROVE wrapped' => \E s \in Sessions : failed'[s]
  BY <1>3, <1>w DEF SendReqHeader
<1>4. ASSUME SendReqPost PROVE wrapped' => \E s \in Sessions : failed'[s]
  BY <1>4, <1>w DEF SendReqPost
<1>5. ASSUME SendEnd PROVE wrapped' => \E s \in Sessions : failed'[s]
  BY <1>5, <1>w DEF SendEnd
<1>6. ASSUME NEW w \in Workers, NEW r \in Sessions, TakePost(w, r) PROVE wrapped' => \E s \in Sessions : failed'[s]
  BY <1>6, <1>w DEF TakePost
<1>7. ASSUME NEW w \in Workers, NEW r \in Sessions, TakeSend(w, r) PROVE wrapped' => \E s \in Sessions : failed'[s]
  <2>1. wrapped' => failed[r] BY <1>7, <1>w, TakeSendExact
  <2>2. failed' = failed BY <1>7 DEF TakeSend
  <2> QED BY <2>1, <2>2
<1>8. ASSUME NEW w \in Workers, NEW r \in Sessions, TakeFailed(w, r) PROVE wrapped' => \E s \in Sessions : failed'[s]
  BY <1>8, <1>w DEF TakeFailed
<1>9. ASSUME NEW w \in Workers, CollectSendPacket(w) PROVE wrapped' => \E s \in Sessions : failed'[s]
  BY <1>9, <1>w DEF CollectSendPacket
<1>10. ASSUME NEW w \in Workers, SendIOCheck(w) PROVE wrapped' => \E s \in Sessions : failed'[s]
  BY <1>10, <1>w DEF SendIOCheck
<1>11. ASSUME NEW w \in Workers, SendIOBusy(w) PROVE wrapped' => \E s \in Sessions : failed'[s]
  BY <1>11, <1>w DEF SendIOBusy
<1>12. ASSUME NEW w \in Workers, SendIOEmpty(w) PROVE wrapped' => \E s \in Sessions : failed'[s]
  BY <1>12, <1>w DEF SendIOEmpty
<1>13. ASSUME NEW w \in Workers, SendIO(w) PROVE wrapped' => \E s \in Sessions : failed'[s]
  BY <1>13, <1>w DEF SendIO
<1>14. ASSUME NEW w \in Workers, ClearSendFlag(w) PROVE wrapped' => \E s \in Sessions : failed'[s]
  BY <1>14, <1>w DEF ClearSendFlag
<1>15. ASSUME NEW w \in Workers, CancelIORegist(w) PROVE wrapped' => \E s \in Sessions : failed'[s]
  BY <1>15, <1>w DEF CancelIORegist
<1>16. ASSUME NEW r \in Sessions, SendComplete(r) PROVE wrapped' => \E s \in Sessions : failed'[s]
  BY <1>16, <1>w DEF SendComplete
<1>17. ASSUME NEW r \in Sessions, DisconnectReq(r) PROVE wrapped' => \E s \in Sessions : failed'[s]
  BY <1>17, <1>w DEF DisconnectReq
<1>18. ASSUME NEW r \in Sessions, RecvEnds(r) PROVE wrapped' => \E s \in Sessions : failed'[s]
  BY <1>18, <1>w DEF RecvEnds
<1>19. ASSUME NEW r \in Sessions, Release(r) PROVE wrapped' => \E s \in Sessions : failed'[s]
  BY <1>19, <1>w DEF Release
<1>20. ASSUME NEW r \in Sessions, Accept(r) PROVE wrapped' => \E s \in Sessions : failed'[s]
  BY <1>20, <1>w DEF Accept
<1> QED
  BY <1>nx, <1>1, <1>2, <1>3, <1>4, <1>5, <1>6, <1>7, <1>8, <1>9, <1>10, <1>11, <1>12,
     <1>13, <1>14, <1>15, <1>16, <1>17, <1>18, <1>19, <1>20 DEF Next, Content, Worker, Life

LEMMA SendedStep == ASSUME IInv, Next, Types' PROVE SendedIsSent'
<1> SUFFICES ASSUME NEW s \in Sessions PROVE SendedOf(s)' BY WrappedStep DEF SendedIsSent
<1>nx. Next OBVIOUS
<1>c. Types /\ Control /\ DeadIsEmpty /\ FlagOwned /\ SendedIsSent BY DEF IInv
<1>t. /\ wpc \in [Workers -> Labels] /\ wsession \in [Workers -> Sessions \union {Nobody}]
      /\ wpacket \in [Workers -> Packets \union {Nobody}]
      /\ sendBuffer \in [Sessions -> Seq(Packets)] /\ sendedBuffer \in [Sessions -> Seq(Packets)]
      /\ posts \in [Sessions -> Seq(Packets)] /\ wsabufs \in [Sessions -> Seq(Packets)]
      /\ sendOv \in [Sessions -> {"idle", "pending", "ok", "failed"}]
      /\ released \in [Sessions -> BOOLEAN] /\ sendFlag \in [Sessions -> BOOLEAN]
      /\ failed \in [Sessions -> BOOLEAN]
  BY <1>c DEF Types, TypeOK
<1>s. /\ sendOv[s] # "idle" =>
            wsabufs[s] # <<>> /\ \E a \in Seq(Packets) : sendedBuffer[s] = a \o wsabufs[s]
      /\ ~failed[s] /\ sendOv[s] \in {"pending", "ok"} => sendedBuffer[s] = wsabufs[s]
      /\ ~failed[s] /\ (~sendFlag[s] \/ \E w \in Workers : Clearing(w, s)) => sendedBuffer[s] = <<>>
  BY <1>c DEF SendedIsSent, SendedOf
<1>f. /\ ~sendFlag[s] => sendOv[s] = "idle"
      /\ \A w \in Workers : Clearing(w, s) => sendFlag[s] /\ sendOv[s] = "idle"
  BY <1>c DEF FlagOwned, FlagOwnedOf
<1>same. ASSUME UNCHANGED <<sendOv, wsabufs, sendedBuffer, failed, sendFlag>>,
                \A w \in Workers : Clearing(w, s)' => Clearing(w, s)
         PROVE  SendedOf(s)'
  BY <1>s, <1>same DEF SendedOf
<1>1. ASSUME NewPacket PROVE SendedOf(s)'
  <2>1. UNCHANGED <<sendOv, wsabufs, sendedBuffer, failed, sendFlag, wpc, wsession>> BY <1>1 DEF NewPacket
  <2>2. \A v \in Workers : Clearing(v, s)' => Clearing(v, s) BY <2>1 DEF Clearing
  <2> QED BY <1>same, <2>1, <2>2
<1>2. ASSUME SendReqGone PROVE SendedOf(s)'
  <2>1. UNCHANGED <<sendOv, wsabufs, sendedBuffer, failed, sendFlag, wpc, wsession>> BY <1>2 DEF SendReqGone
  <2>2. \A v \in Workers : Clearing(v, s)' => Clearing(v, s) BY <2>1 DEF Clearing
  <2> QED BY <1>same, <2>1, <2>2
<1>3. ASSUME SendReqHeader PROVE SendedOf(s)'
  <2>1. UNCHANGED <<sendOv, wsabufs, sendedBuffer, failed, sendFlag, wpc, wsession>> BY <1>3 DEF SendReqHeader
  <2>2. \A v \in Workers : Clearing(v, s)' => Clearing(v, s) BY <2>1 DEF Clearing
  <2> QED BY <1>same, <2>1, <2>2
<1>4. ASSUME SendReqPost PROVE SendedOf(s)'
  <2>1. UNCHANGED <<sendOv, wsabufs, sendedBuffer, failed, sendFlag, wpc, wsession>> BY <1>4 DEF SendReqPost
  <2>2. \A v \in Workers : Clearing(v, s)' => Clearing(v, s) BY <2>1 DEF Clearing
  <2> QED BY <1>same, <2>1, <2>2
<1>5. ASSUME SendEnd PROVE SendedOf(s)'
  <2>1. UNCHANGED <<sendOv, wsabufs, sendedBuffer, failed, sendFlag, wpc, wsession>> BY <1>5 DEF SendEnd
  <2>2. \A v \in Workers : Clearing(v, s)' => Clearing(v, s) BY <2>1 DEF Clearing
  <2> QED BY <1>same, <2>1, <2>2
<1>6. ASSUME NEW w \in Workers, NEW r \in Sessions, TakePost(w, r) PROVE SendedOf(s)'
  <2>1. UNCHANGED <<sendOv, wsabufs, sendedBuffer, failed, sendFlag>> BY <1>6 DEF TakePost
  <2>2. \A v \in Workers : Clearing(v, s)' => Clearing(v, s) BY <1>6, <1>t DEF TakePost, Clearing
  <2> QED BY <1>same, <2>1, <2>2
<1>7. ASSUME NEW w \in Workers, NEW r \in Sessions, TakeSend(w, r) PROVE SendedOf(s)'
  <2>1. PICK b \in Seq(Packets) : sendedBuffer' = [sendedBuffer EXCEPT ![r] = b]
    BY <1>7, TakeSendMoves
  <2>2. /\ sendOv[r] = "ok" /\ sendOv' = [sendOv EXCEPT ![r] = "idle"]
        /\ wsabufs' = [wsabufs EXCEPT ![r] = <<>>] /\ Begin(w, r, "clear")
        /\ UNCHANGED <<failed, sendFlag>>
    BY <1>7 DEF TakeSend
  <2>3. CASE s # r
    <3>1. /\ sendedBuffer'[s] = sendedBuffer[s] /\ sendOv'[s] = sendOv[s]
          /\ wsabufs'[s] = wsabufs[s] /\ sendFlag'[s] = sendFlag[s] /\ failed'[s] = failed[s]
      BY <1>t, <2>1, <2>2, <2>3
    <3>2. \A v \in Workers : Clearing(v, s)' => Clearing(v, s) BY <1>t, <2>2, <2>3 DEF Clearing
    <3> QED BY <1>s, <3>1, <3>2 DEF SendedOf
  <2>4. CASE s = r
    <3>1. sendOv'[s] = "idle" BY <1>t, <2>2, <2>4
    <3>2. ~failed[s] => sendedBuffer'[s] = <<>> BY <1>7, <2>4, TakeSendExact
    <3> QED BY <2>2, <3>1, <3>2 DEF SendedOf
  <2> QED BY <2>3, <2>4
<1>8. ASSUME NEW w \in Workers, NEW r \in Sessions, TakeFailed(w, r) PROVE SendedOf(s)'
  <2>1. /\ sendOv[r] = "failed" /\ sendOv' = [sendOv EXCEPT ![r] = "idle"]
        /\ wsabufs' = [wsabufs EXCEPT ![r] = <<>>]
        /\ UNCHANGED <<failed, sendFlag, sendedBuffer, wpc, wsession>>
    BY <1>8 DEF TakeFailed
  <2>2. \A v \in Workers : Clearing(v, s)' <=> Clearing(v, s) BY <2>1 DEF Clearing
  <2>3. CASE s # r
    <3>1. sendOv'[s] = sendOv[s] /\ wsabufs'[s] = wsabufs[s] BY <1>t, <2>1, <2>3
    <3> QED BY <1>s, <2>1, <2>2, <3>1 DEF SendedOf
  <2>4. CASE s = r
    <3>1. sendOv'[s] = "idle" /\ sendOv[s] = "failed" BY <1>t, <2>1, <2>4
    <3> QED BY <1>f, <2>1, <2>2, <3>1 DEF SendedOf
  <2> QED BY <2>3, <2>4
<1>9. ASSUME NEW w \in Workers, CollectSendPacket(w) PROVE SendedOf(s)'
  <2>1. UNCHANGED <<sendOv, wsabufs, sendedBuffer, failed, sendFlag>> BY <1>9 DEF CollectSendPacket
  <2>2. \A v \in Workers : Clearing(v, s)' => Clearing(v, s) BY <1>9, <1>t DEF CollectSendPacket, Clearing
  <2> QED BY <1>same, <2>1, <2>2
<1>10. ASSUME NEW w \in Workers, SendIOCheck(w) PROVE SendedOf(s)'
  <2>1. UNCHANGED <<sendOv, wsabufs, sendedBuffer, failed, sendFlag>> BY <1>10 DEF SendIOCheck
  <2>2. \A v \in Workers : Clearing(v, s)' => Clearing(v, s) BY <1>10, <1>t DEF SendIOCheck, Clearing
  <2> QED BY <1>same, <2>1, <2>2
<1>11. ASSUME NEW w \in Workers, SendIOBusy(w) PROVE SendedOf(s)'
  <2>1. UNCHANGED <<sendOv, wsabufs, sendedBuffer, failed, sendFlag>> BY <1>11 DEF SendIOBusy
  <2>2. \A v \in Workers : Clearing(v, s)' => Clearing(v, s) BY <1>11, <1>t DEF SendIOBusy, Clearing
  <2> QED BY <1>same, <2>1, <2>2
<1>12. ASSUME NEW w \in Workers, SendIOEmpty(w) PROVE SendedOf(s)'
  <2> DEFINE r == wsession[w]
  <2>1. /\ r \in Sessions /\ ~sendFlag[r] /\ sendFlag' = [sendFlag EXCEPT ![r] = TRUE]
        /\ Goto(w, "undo") /\ UNCHANGED <<sendOv, wsabufs, sendedBuffer, failed>>
    BY <1>12, <1>c, CollectHas DEF SendIOEmpty
  <2>2. Clearing(w, s)' => s = r BY <1>t, <2>1 DEF Clearing
  <2>3. \A v \in Workers : v # w => (Clearing(v, s)' <=> Clearing(v, s)) BY <1>t, <2>1 DEF Clearing
  <2> HIDE DEF r
  <2>4. sendFlag'[s] = (s = r \/ sendFlag[s]) BY <1>t, <2>1
  <2> QED BY <1>s, <2>1, <2>2, <2>3, <2>4 DEF SendedOf
<1>13. ASSUME NEW w \in Workers, SendIO(w) PROVE SendedOf(s)'
  <2> DEFINE r == wsession[w]
  <2>1. r \in Sessions /\ ~sendFlag[r] /\ sendFlag' = [sendFlag EXCEPT ![r] = TRUE]
    BY <1>13, <1>c, CollectHas DEF SendIO
  <2>2. PICK a \in Seq(Packets) : /\ a # <<>> /\ a = Batch(r)
                                  /\ sendedBuffer' = [sendedBuffer EXCEPT ![r] = @ \o a]
    BY <1>13, SendIOMoves
  <2>3. \/ /\ sendOv' = [sendOv EXCEPT ![r] = "pending"] /\ wsabufs' = [wsabufs EXCEPT ![r] = a]
           /\ Goto(w, "idle") /\ UNCHANGED failed
        \/ UNCHANGED <<sendOv, wsabufs, failed>> /\ Goto(w, "cancel")
        \/ /\ UNCHANGED <<sendOv, wsabufs>> /\ failed' = [failed EXCEPT ![r] = TRUE]
           /\ Goto(w, "fail_clear")
    BY <1>13, <2>2 DEF SendIO
  <2>4. Clearing(w, s)' => s = r BY <1>t, <2>3 DEF Clearing
  <2>5. \A v \in Workers : v # w => (Clearing(v, s)' <=> Clearing(v, s)) BY <1>t, <2>3 DEF Clearing
  <2>6. Clearing(w, s)' => failed'[r]
    <3>1. r \in Sessions BY <2>1
    <3>2. CASE Goto(w, "idle") \/ Goto(w, "cancel") BY <1>t, <3>2 DEF Clearing
    <3>3. CASE failed' = [failed EXCEPT ![r] = TRUE] BY <1>t, <3>1, <3>3
    <3> QED BY <2>3, <3>2, <3>3
  <2> HIDE DEF r
  <2>7. CASE s # r
    <3>1. /\ sendedBuffer'[s] = sendedBuffer[s] /\ sendOv'[s] = sendOv[s]
          /\ wsabufs'[s] = wsabufs[s] /\ sendFlag'[s] = sendFlag[s] /\ failed'[s] = failed[s]
      BY <1>t, <2>1, <2>2, <2>3, <2>7
    <3>2. \A v \in Workers : Clearing(v, s)' => Clearing(v, s) BY <2>4, <2>5, <2>7
    <3> QED BY <1>s, <3>1, <3>2 DEF SendedOf
  <2>8. CASE s = r
    <3>1. sendFlag'[s] /\ sendOv[s] = "idle" /\ \A v \in Workers : ~Clearing(v, s)
      BY <1>f, <1>t, <2>1, <2>8
    <3>2. /\ sendedBuffer'[s] = sendedBuffer[s] \o a /\ sendedBuffer[s] \in Seq(Packets)
          /\ ~failed[s] => sendedBuffer[s] = <<>>
      BY <1>s, <1>t, <2>1, <2>2, <2>8
    <3>3. CASE sendOv' = [sendOv EXCEPT ![r] = "pending"] /\ wsabufs' = [wsabufs EXCEPT ![r] = a]
               /\ UNCHANGED failed /\ Goto(w, "idle")
      <4>1. wsabufs'[s] = a /\ failed'[s] = failed[s] BY <1>t, <2>8, <3>3
      <4>2. ~failed[s] => sendedBuffer'[s] = a BY <3>2
      <4>3. \A v \in Workers : ~Clearing(v, s)'
        <5>1. ~Clearing(w, s)' BY <1>t, <3>3 DEF Clearing
        <5> QED BY <2>5, <3>1, <5>1
      <4> QED BY <2>2, <3>1, <3>2, <4>1, <4>2, <4>3 DEF SendedOf
    <3>4. CASE UNCHANGED <<sendOv, wsabufs>>
      <4>1. sendOv'[s] = "idle" BY <3>1, <3>4
      <4>2. \A v \in Workers : Clearing(v, s)' => failed'[s] BY <2>5, <2>6, <2>8, <3>1
      <4> QED BY <3>1, <4>1, <4>2 DEF SendedOf
    <3> QED BY <2>3, <3>3, <3>4
  <2> QED BY <2>7, <2>8
<1>14. ASSUME NEW w \in Workers, ClearSendFlag(w) PROVE SendedOf(s)'
  <2> DEFINE r == wsession[w]
  <2>1. /\ r \in Sessions /\ Clearing(w, r) /\ sendFlag' = [sendFlag EXCEPT ![r] = FALSE]
        /\ UNCHANGED <<sendOv, wsabufs, sendedBuffer, failed>>
    BY <1>14, <1>c, CollectHas DEF ClearSendFlag, Clearing
  <2>2. (\E label \in {"idle", "cancel", "send_chk"} : Goto(w, label)) BY <1>14 DEF ClearSendFlag
  <2>3. \A v \in Workers : Clearing(v, s)' => Clearing(v, s) BY <1>t, <2>2 DEF Clearing
  <2> HIDE DEF r
  <2>4. sendFlag'[s] = (s # r /\ sendFlag[s]) BY <1>t, <2>1
  <2> QED BY <1>s, <2>1, <2>3, <2>4 DEF SendedOf
<1>15. ASSUME NEW w \in Workers, CancelIORegist(w) PROVE SendedOf(s)'
  <2>1. UNCHANGED <<sendOv, wsabufs, sendedBuffer, failed, sendFlag>> BY <1>15 DEF CancelIORegist
  <2>2. \A v \in Workers : Clearing(v, s)' => Clearing(v, s) BY <1>15, <1>t DEF CancelIORegist, Clearing
  <2> QED BY <1>same, <2>1, <2>2
<1>16. ASSUME NEW r \in Sessions, SendComplete(r) PROVE SendedOf(s)'
  <2>1. /\ sendOv[r] = "pending"
        /\ (sendOv' = [sendOv EXCEPT ![r] = "ok"] \/ sendOv' = [sendOv EXCEPT ![r] = "failed"])
        /\ UNCHANGED <<wsabufs, sendedBuffer, failed, sendFlag, wpc, wsession>>
    BY <1>16 DEF SendComplete
  <2>2. \A v \in Workers : Clearing(v, s)' <=> Clearing(v, s) BY <2>1 DEF Clearing
  <2>3. sendOv'[s] = sendOv[s] \/ (sendOv[s] = "pending" /\ sendOv'[s] \in {"ok", "failed"})
    BY <1>t, <2>1
  <2> QED BY <1>s, <2>1, <2>2, <2>3 DEF SendedOf
<1>17. ASSUME NEW r \in Sessions, DisconnectReq(r) PROVE SendedOf(s)'
  <2>1. UNCHANGED <<sendOv, wsabufs, sendedBuffer, failed, sendFlag, wpc, wsession>> BY <1>17 DEF DisconnectReq
  <2>2. \A v \in Workers : Clearing(v, s)' => Clearing(v, s) BY <2>1 DEF Clearing
  <2> QED BY <1>same, <2>1, <2>2
<1>18. ASSUME NEW r \in Sessions, RecvEnds(r) PROVE SendedOf(s)'
  <2>1. UNCHANGED <<sendOv, wsabufs, sendedBuffer, failed, sendFlag, wpc, wsession>> BY <1>18 DEF RecvEnds
  <2>2. \A v \in Workers : Clearing(v, s)' => Clearing(v, s) BY <2>1 DEF Clearing
  <2> QED BY <1>same, <2>1, <2>2
<1>19. ASSUME NEW r \in Sessions, Release(r) PROVE SendedOf(s)'
  <2>1. /\ sendedBuffer' = [sendedBuffer EXCEPT ![r] = <<>>] /\ sendOv[r] = "idle"
        /\ UNCHANGED <<sendOv, wsabufs, failed, sendFlag, wpc, wsession>>
    BY <1>19 DEF Release, Unreferenced
  <2>2. \A v \in Workers : Clearing(v, s)' <=> Clearing(v, s) BY <2>1 DEF Clearing
  <2>3. CASE s # r
    <3>1. sendedBuffer'[s] = sendedBuffer[s] BY <1>t, <2>1, <2>3
    <3> QED BY <1>s, <2>1, <2>2, <3>1 DEF SendedOf
  <2>4. CASE s = r
    <3>1. sendedBuffer'[s] = <<>> /\ sendOv'[s] = "idle" BY <1>t, <2>1, <2>4
    <3> QED BY <3>1 DEF SendedOf
  <2> QED BY <2>3, <2>4
<1>20. ASSUME NEW r \in Sessions, Accept(r) PROVE SendedOf(s)'
  <2>1. /\ released[r] /\ sendFlag' = [sendFlag EXCEPT ![r] = FALSE]
        /\ failed' = [failed EXCEPT ![r] = FALSE]
        /\ UNCHANGED <<sendOv, wsabufs, sendedBuffer, wpc, wsession>>
    BY <1>20 DEF Accept
  <2>2. \A v \in Workers : Clearing(v, s)' <=> Clearing(v, s) BY <2>1 DEF Clearing
  <2>3. CASE s # r
    <3>1. sendFlag'[s] = sendFlag[s] /\ failed'[s] = failed[s] BY <1>t, <2>1, <2>3
    <3> QED BY <1>s, <2>1, <2>2, <3>1 DEF SendedOf
  <2>4. CASE s = r
    <3>1. sendedBuffer'[s] = <<>> /\ sendOv'[s] = "idle"
      BY <1>c, <2>1, <2>4 DEF DeadIsEmpty, IsEmpty
    <3> QED BY <3>1 DEF SendedOf
  <2> QED BY <2>3, <2>4
<1> QED
  BY <1>nx, <1>1, <1>2, <1>3, <1>4, <1>5, <1>6, <1>7, <1>8, <1>9, <1>10, <1>11, <1>12,
     <1>13, <1>14, <1>15, <1>16, <1>17, <1>18, <1>19, <1>20 DEF Next, Content, Worker, Life

----------------------------------------------------------------------------
(* The bytes of a packet. *)

\* What is sent or about to be is not touched by a step.
Kept == \A p \in Packets : (Holders(p)' # {} \/ p = cpacket') =>
            buffer'[p] = buffer[p] /\ message'[p] = message[p]

LEMMA DropKeeps ==
  ASSUME Types, Types', Counted', NEW ps \in SUBSET Packets,
         \A p \in ps : referenceCounter[p] > 0, Drop(ps)
  PROVE  Kept
<1> SUFFICES ASSUME NEW p \in Packets, Holders(p)' # {} \/ p = cpacket'
             PROVE  buffer'[p] = buffer[p] /\ message'[p] = message[p]
  BY DEF Kept
<1>1. referenceCounter'[p] = (IF cpacket' = p THEN 1 ELSE 0) + Cardinality(Holders(p)')
  BY DEF Counted
<1>2. IsFiniteSet(Holders(p)') /\ Cardinality(Holders(p)') \in Nat
  <2>1. Holders(p)' \subseteq Sessions BY DEF Holders
  <2>2. IsFiniteSet(Holders(p)') BY <2>1, FS_Subset, PipelineAssumption
  <2> QED BY <2>2, FS_CardinalityType
<1>3. Holders(p)' # {} => Cardinality(Holders(p)') # 0 BY <1>2, FS_EmptySet
<1>4. referenceCounter'[p] # 0 BY <1>1, <1>2, <1>3
<1> QED BY <1>4, DropTypes

\* A step that is not the content thread's changes no such packet, and no
\* session holds more after it.
LEMMA WorkKeeps ==
  ASSUME IInv, Next, Types', Counted', ~NewPacket, ~SendReqHeader, ~SendReqPost
  PROVE  Kept /\ \A s \in Sessions : Held(s)' \subseteq Held(s)
<1>c. Types /\ Control /\ Counted BY DEF IInv
<1>1. CASE SendEnd
  <2>1. \A s \in Sessions : Held(s)' = Held(s) BY <1>1, QuietMoves DEF Quiet
  <2>2. {cpacket} \in SUBSET Packets /\ referenceCounter[cpacket] > 0 /\ Drop({cpacket})
    BY <1>1, <1>c, ContentHas, HeldIsCounted DEF SendEnd
  <2> QED BY <1>c, <2>1, <2>2, DropKeeps
<1>2. ASSUME UNCHANGED <<buffer, message>>, \A s \in Sessions : Held(s)' = Held(s)
      PROVE  Kept /\ \A s \in Sessions : Held(s)' \subseteq Held(s)
  BY <1>2 DEF Kept
<1>3. CASE Quiet /\ ~SendEnd
  <2>1. \A s \in Sessions : Held(s)' = Held(s) BY <1>3, QuietMoves
  <2>2. UNCHANGED <<buffer, message>>
    BY <1>3 DEF Quiet, SendReqGone, TakeFailed, SendIOCheck, SendIOBusy, SendIOEmpty,
                ClearSendFlag, CancelIORegist, SendComplete, DisconnectReq, RecvEnds, Accept
  <2> QED BY <1>2, <2>1, <2>2
<1>4. ASSUME NEW w \in Workers, NEW s \in Sessions, TakePost(w, s)
      PROVE  Kept /\ \A r \in Sessions : Held(r)' \subseteq Held(r)
  <2>1. \A r \in Sessions : Held(r)' = Held(r) BY <1>4, TakePostMoves
  <2>2. UNCHANGED <<buffer, message>> BY <1>4 DEF TakePost
  <2> QED BY <1>2, <2>1, <2>2
<1>5. ASSUME NEW w \in Workers, SendIO(w)
      PROVE  Kept /\ \A r \in Sessions : Held(r)' \subseteq Held(r)
  <2>1. \A r \in Sessions : Held(r)' = Held(r) BY <1>5, SendIOMoves
  <2>2. UNCHANGED <<buffer, message>> BY <1>5 DEF SendIO
  <2> QED BY <1>2, <2>1, <2>2
<1>6. ASSUME NEW r \in Sessions, NEW ps \in SUBSET Packets, ps \subseteq Held(r), Drop(ps)
      PROVE  Kept
  <2>1. \A p \in ps : referenceCounter[p] > 0 BY <1>c, <1>6, HeldHasHolder, HeldIsCounted
  <2> QED BY <1>c, <1>6, <2>1, DropKeeps
<1>7. ASSUME NEW w \in Workers, NEW r \in Sessions, TakeSend(w, r)
      PROVE  Kept /\ \A s \in Sessions : Held(s)' \subseteq Held(s)
  <2>1. PICK a \in Seq(Packets) :
           /\ Range(a) \subseteq Held(r) /\ Drop(Range(a))
           /\ \A s \in Sessions : Held(s)' = Held(s) \ IF s = r THEN Range(a) ELSE {}
    BY <1>7, TakeSendMoves
  <2>2. Range(a) \in SUBSET Packets BY RangeOfSeq
  <2> QED BY <1>6, <2>1, <2>2
<1>8. ASSUME NEW w \in Workers, CollectSendPacket(w)
      PROVE  Kept /\ \A s \in Sessions : Held(s)' \subseteq Held(s)
  <2>1. CASE (\A s \in Sessions : Held(s)' = Held(s)) /\ UNCHANGED packetVars
    BY <1>2, <2>1
  <2>2. CASE /\ \A s \in Sessions :
                   Held(s)' = Held(s) \ IF s = wsession[w] THEN {wpacket[w]} ELSE {}
             /\ Drop({wpacket[w]})
    <3>1. {wpacket[w]} \in SUBSET Packets /\ {wpacket[w]} \subseteq Held(wsession[w])
          /\ wsession[w] \in Sessions
      BY <1>8, CollectMoves
    <3>2. Kept BY <1>6, <2>2, <3>1
    <3> QED BY <2>2, <3>2
  <2> QED BY <1>8, <2>1, <2>2, CollectMoves
<1>9. ASSUME NEW r \in Sessions, Release(r)
      PROVE  Kept /\ \A s \in Sessions : Held(s)' \subseteq Held(s)
  <2>1. /\ Drop(Held(r)) /\ \A s \in Sessions : Held(s)' = IF s = r THEN {} ELSE Held(s)
    BY <1>9, ReleaseMoves
  <2>2. Held(r) \in SUBSET Packets BY <1>c, HeldArePackets
  <2>3. Kept BY <1>6, <2>1, <2>2
  <2> QED BY <2>1, <2>3
<1> QED BY <1>1, <1>3, <1>4, <1>5, <1>7, <1>8, <1>9 DEF Next, Content, Worker, Life, Quiet

\* The client reads the text of a packet that was encrypted once.
LEMMA DeliveryReads ==
  ASSUME Types, NEW p \in Packets, WireText(p), Holders(p) # {}, Delivery(p).copies = 1
  PROVE  Delivery(p).readable
<1>1. message[p].copies = 1 BY DEF Delivery
<1>2. PICK key \in Byte : buffer[p] = encryption(setHeader(Plain(message[p].text), key))
  BY <1>1 DEF WireText, EncryptedText
<1>3. message[p].text \in Seq(Byte) BY DEF Types, Messages
<1>4. /\ ChecksumHolds(decrypted(buffer[p])) /\ payload(decrypted(buffer[p])) = message[p].text
  BY <1>2, <1>3, WhatIsSentIsRead
<1>5. Delivery(p).readable = (/\ ChecksumHolds(decrypted(buffer[p]))
                              /\ payload(decrypted(buffer[p])) = message[p].text)
  BY DEF Delivery
<1> QED BY <1>4, <1>5

\* What is with the kernel is held.
LEMMA SentIsHeld ==
  ASSUME Types, SendedIsSent, NEW s \in Sessions, sendOv[s] # "idle", NEW i \in DOMAIN wsabufs[s]
  PROVE  wsabufs[s][i] \in Held(s) /\ wsabufs[s][i] \in Packets
<1>1. wsabufs[s] \in Seq(Packets) BY DEF Types, TypeOK
<1>2. PICK a \in Seq(Packets) : sendedBuffer[s] = a \o wsabufs[s] BY DEF SendedIsSent, SendedOf
<1>3. Range(sendedBuffer[s]) = Range(a) \union Range(wsabufs[s])
  BY <1>1, <1>2, RangeConcatenation
<1>4. wsabufs[s][i] \in Range(wsabufs[s]) BY DEF Range
<1>5. wsabufs[s][i] \in Packets BY <1>1, <1>4, RangeOfSeq
<1> QED BY <1>3, <1>4, <1>5 DEF Held

LEMMA ReadStep == ASSUME IInv, Next, NEW s \in Sessions PROVE ReadText(s)'
<1>c. Types /\ SendedIsSent /\ BytesOfText BY DEF IInv
<1>t. received \in [Sessions -> Seq(Delivered)] /\ ReadText(s) BY <1>c DEF Types, BytesOfText
<1>1. CASE received'[s] = received[s] BY <1>1, <1>t DEF ReadText
<1>2. CASE received'[s] = <<>> BY <1>2 DEF ReadText
<1>3. CASE SendComplete(s) /\ received'[s] # received[s]
  <2> DEFINE d == [i \in DOMAIN wsabufs[s] |-> Delivery(wsabufs[s][i])]
  <2>1. sendOv[s] = "pending" /\ received'[s] = received[s] \o d
    BY <1>3, <1>t DEF SendComplete
  <2>2. d \in Seq(Delivered) BY <1>c, DeliveriesType
  <2>3. ASSUME NEW i \in DOMAIN d, d[i].copies = 1 PROVE d[i].readable
    <3>1. i \in DOMAIN wsabufs[s] /\ d[i] = Delivery(wsabufs[s][i]) OBVIOUS
    <3>2. wsabufs[s][i] \in Held(s) /\ wsabufs[s][i] \in Packets
      BY <1>c, <2>1, <3>1, SentIsHeld
    <3>3. WireText(wsabufs[s][i]) /\ Holders(wsabufs[s][i]) # {}
      BY <1>c, <3>2, HeldHasHolder DEF BytesOfText
    <3> HIDE DEF d
    <3>4. Delivery(wsabufs[s][i]).copies = 1 BY <2>3, <3>1
    <3> QED BY <1>c, <3>1, <3>2, <3>3, <3>4, DeliveryReads
  <2> HIDE DEF d
  <2>4. ASSUME NEW i \in DOMAIN (received[s] \o d), (received[s] \o d)[i].copies = 1
        PROVE  (received[s] \o d)[i].readable
    <3>1. /\ DOMAIN received[s] = 1 .. Len(received[s]) /\ Len(received[s]) \in Nat
          /\ DOMAIN d = 1 .. Len(d) /\ Len(d) \in Nat
      BY <1>t, <2>2, LenProperties
    <3>2. /\ received[s] \o d \in Seq(Delivered)
          /\ Len(received[s] \o d) = Len(received[s]) + Len(d)
          /\ \A j \in 1 .. Len(received[s]) + Len(d) : (received[s] \o d)[j] =
                IF j <= Len(received[s]) THEN received[s][j] ELSE d[j - Len(received[s])]
      BY <1>t, <2>2, ConcatProperties
    <3>3. i \in 1 .. Len(received[s]) + Len(d) BY <3>2, LenProperties
    <3>4. CASE i <= Len(received[s])
      <4>1. i \in DOMAIN received[s] /\ (received[s] \o d)[i] = received[s][i]
        BY <3>1, <3>2, <3>3, <3>4
      <4> QED BY <1>t, <2>4, <4>1 DEF ReadText
    <3>5. CASE ~(i <= Len(received[s]))
      <4>1. i - Len(received[s]) \in DOMAIN d
            /\ (received[s] \o d)[i] = d[i - Len(received[s])]
        BY <3>1, <3>2, <3>3, <3>5
      <4> QED BY <2>3, <2>4, <4>1
    <3> QED BY <3>4, <3>5
  <2> QED BY <2>1, <2>4 DEF ReadText
<1>4. \/ received'[s] = received[s] \/ received'[s] = <<>> \/ SendComplete(s)
  <2>nx. Next OBVIOUS
  <2>1. CASE Content
    BY <2>1 DEF Content, NewPacket, SendReqGone, SendReqHeader, SendReqPost, SendEnd
  <2>2. ASSUME NEW w \in Workers, Worker(w) PROVE received' = received
    BY <2>2 DEF Worker, TakePost, TakeSend, TakeFailed, CollectSendPacket, SendIOCheck,
                SendIOBusy, SendIOEmpty, SendIO, ClearSendFlag, CancelIORegist
  <2>3. ASSUME NEW r \in Sessions, SendComplete(r)
        PROVE  received'[s] = received[s] \/ SendComplete(s)
    BY <1>t, <2>3 DEF SendComplete
  <2>4. ASSUME NEW r \in Sessions, DisconnectReq(r) \/ RecvEnds(r) \/ Release(r) \/ Accept(r)
        PROVE  received'[s] = received[s] \/ received'[s] = <<>>
    BY <1>t, <2>4 DEF DisconnectReq, RecvEnds, Release, Accept
  <2> QED BY <2>nx, <2>1, <2>2, <2>3, <2>4 DEF Next, Life
<1> QED BY <1>1, <1>2, <1>3, <1>4

\* Only the content thread changes which packet it sends.
LEMMA ContentRests ==
  ASSUME Next, ~NewPacket, ~SendReqHeader, ~SendReqPost
  PROVE  serial' = serial /\ ((cpc' = cpc /\ cpacket' = cpacket) \/ cpc' = "idle")
<1>nx. Next OBVIOUS
<1>1. CASE SendReqGone BY <1>1 DEF SendReqGone
<1>2. CASE SendEnd BY <1>2 DEF SendEnd
<1>3. ASSUME NEW w \in Workers, Worker(w) PROVE UNCHANGED <<cpc, cpacket, serial>>
  BY <1>3 DEF Worker, TakePost, TakeSend, TakeFailed, CollectSendPacket, SendIOCheck,
              SendIOBusy, SendIOEmpty, SendIO, ClearSendFlag, CancelIORegist, contentVars
<1>4. ASSUME NEW r \in Sessions, Life(r) PROVE UNCHANGED <<cpc, cpacket, serial>>
  BY <1>4 DEF Life, SendComplete, DisconnectReq, RecvEnds, Release, Accept, contentVars
<1> QED BY <1>nx, <1>1, <1>2, <1>3, <1>4 DEF Next, Content

LEMMA ContentStep == ASSUME IInv, Next, Types', Control', Counted' PROVE ContentText'
<1>c. Types /\ Control /\ Counted /\ BytesOfText BY DEF IInv
<1>t. /\ buffer \in [Packets -> Bodies] /\ message \in [Packets -> Messages]
  BY <1>c DEF Types
<1>1. CASE NewPacket
  <2>1. PICK p \in pool, m \in Sends[serial + 1] :
           /\ buffer' = [buffer EXCEPT ![p] = Plain(Text(serial + 1, m.size))]
           /\ message' = [message EXCEPT ![p] =
                  [serial |-> serial + 1, text |-> Text(serial + 1, m.size), copies |-> 0]]
           /\ cpacket' = p
    BY <1>1 DEF NewPacket
  <2>2. p \in Packets /\ cpc' = "send" BY <1>1, <1>c DEF NewPacket, Types, TypeOK
  <2>3. buffer'[p] = Plain(message'[p].text) BY <1>t, <2>1, <2>2
  <2> QED BY <2>1, <2>2, <2>3 DEF ContentText
<1>2. CASE SendReqHeader
  <2>1. PICK key \in RandKeys : buffer' = [buffer EXCEPT ![cpacket] = setHeader(@, key)]
    BY <1>2 DEF SendReqHeader
  <2>2. cpacket \in Packets /\ cpacket' = cpacket /\ cpc = "send" /\ cpc' = "encrypt"
    BY <1>2, <1>c, ContentHas DEF SendReqHeader
  <2>3. key \in Byte /\ buffer[cpacket] \in Bodies BY <1>t, <2>2, PipelineAssumption
  <2>4. buffer'[cpacket] = setHeader(buffer[cpacket], key) BY <1>t, <2>1, <2>2
  <2>5. buffer'[cpacket] \in Framed BY <2>3, <2>4, HeaderFrames
  <2>6. message[cpacket].copies \in Nat /\ message'[cpacket].copies = message[cpacket].copies + 1
        /\ message'[cpacket].text = message[cpacket].text
    <3>1. message' = [message EXCEPT ![cpacket].copies = @ + 1] BY <1>2 DEF SendReqHeader
    <3> QED BY <1>t, <2>2, <3>1 DEF Messages
  <2>7. message[cpacket].copies = 0 =>
            buffer'[cpacket] = setHeader(Plain(message'[cpacket].text), key)
    BY <1>c, <2>2, <2>4, <2>6 DEF BytesOfText, ContentText
  <2>8. message'[cpacket'].copies = 1 => HeadedText(cpacket)'
    BY <2>2, <2>3, <2>6, <2>7 DEF HeadedText
  <2> QED BY <2>2, <2>5, <2>6, <2>8 DEF ContentText
<1>3. CASE SendReqPost
  <2>1. cpc = "encrypt" /\ cpc' = "send" /\ cpacket' = cpacket /\ message' = message
    BY <1>3 DEF SendReqPost
  <2> QED BY <1>c, <2>1 DEF BytesOfText, ContentText
<1>4. CASE ~NewPacket /\ ~SendReqHeader /\ ~SendReqPost
  <2>1. Kept BY <1>4, WorkKeeps
  <2>2. (cpc' = cpc /\ cpacket' = cpacket) \/ cpc' = "idle"
    BY <1>4, ContentRests
  <2>3. CASE cpc' = "idle" BY <2>3 DEF ContentText
  <2>4. CASE cpc' = cpc /\ cpacket' = cpacket /\ cpc # "idle"
    <3>1. cpacket \in Packets BY <1>c, <2>4, ContentHas
    <3>2. buffer'[cpacket] = buffer[cpacket] /\ message'[cpacket] = message[cpacket]
      BY <2>1, <2>4, <3>1 DEF Kept
    <3> QED BY <1>c, <2>4, <3>2 DEF BytesOfText, ContentText, HeadedText
  <2> QED BY <2>2, <2>3, <2>4
<1> QED BY <1>1, <1>2, <1>3, <1>4

LEMMA WireStep ==
  ASSUME IInv, Next, Types', Control', Counted', NEW p \in Packets PROVE WireText(p)'
<1>c. Types /\ Control /\ Counted /\ BytesOfText BY DEF IInv
<1>t. /\ buffer \in [Packets -> Bodies] /\ message \in [Packets -> Messages]
      /\ message[p].copies \in Nat
  BY <1>c DEF Types, Messages
<1>w. /\ Holders(p) # {} =>
            /\ message[p].copies > 0
            /\ p = cpacket /\ cpc = "encrypt" => message[p].copies > 1
            /\ message[p].copies = 1 => EncryptedText(p)
  BY <1>c DEF BytesOfText, WireText
<1> SUFFICES ASSUME Holders(p)' # {}
             PROVE  /\ message'[p].copies > 0
                    /\ p = cpacket' /\ cpc' = "encrypt" => message'[p].copies > 1
                    /\ message'[p].copies = 1 => EncryptedText(p)'
  BY DEF WireText
<1>same. ASSUME buffer'[p] = buffer[p], message'[p] = message[p], Holders(p) # {},
                ~(p = cpacket' /\ cpc' = "encrypt") \/ (p = cpacket /\ cpc = "encrypt")
         PROVE  /\ message'[p].copies > 0
                /\ p = cpacket' /\ cpc' = "encrypt" => message'[p].copies > 1
                /\ message'[p].copies = 1 => EncryptedText(p)'
  BY <1>same, <1>w DEF EncryptedText
<1>1. CASE NewPacket
  <2>1. PICK q \in pool, m \in Sends[serial + 1] :
           /\ buffer' = [buffer EXCEPT ![q] = Plain(Text(serial + 1, m.size))]
           /\ message' = [message EXCEPT ![q] =
                  [serial |-> serial + 1, text |-> Text(serial + 1, m.size), copies |-> 0]]
           /\ cpacket' = q
    BY <1>1 DEF NewPacket
  <2>2. \A s \in Sessions : Held(s)' = Held(s) BY <1>1, QuietMoves DEF Quiet
  <2>3. Holders(p) # {} /\ p \notin pool
    <3>1. Holders(p) # {} BY <2>2, HoldersStay
    <3> QED BY <1>c, <3>1, HeldIsCounted
  <2>4. buffer'[p] = buffer[p] /\ message'[p] = message[p] /\ p # cpacket'
    BY <1>t, <2>1, <2>3
  <2> QED BY <1>same, <2>3, <2>4
<1>2. CASE SendReqHeader
  <2>1. Holders(p) # {}
    <3>1. \A s \in Sessions : Held(s)' = Held(s) BY <1>2, QuietMoves DEF Quiet
    <3> QED BY <3>1, HoldersStay
  <2>2. /\ message' = [message EXCEPT ![cpacket].copies = @ + 1] /\ cpacket' = cpacket
        /\ \E key \in RandKeys : buffer' = [buffer EXCEPT ![cpacket] = setHeader(@, key)]
    BY <1>2 DEF SendReqHeader
  <2>3. CASE p # cpacket
    <3>1. buffer'[p] = buffer[p] /\ message'[p] = message[p] BY <1>t, <2>2, <2>3
    <3> QED BY <1>same, <2>1, <2>2, <2>3, <3>1
  <2>4. CASE p = cpacket
    <3>1. message'[p].copies = message[p].copies + 1 BY <1>t, <2>2, <2>4 DEF Messages
    <3>2. message[p].copies > 0 BY <1>w, <2>1
    <3> QED BY <1>t, <3>1, <3>2
  <2> QED BY <2>3, <2>4
<1>3. CASE SendReqPost
  <2>1. /\ message' = message /\ cpacket' = cpacket /\ cpc = "encrypt" /\ cpc' = "send"
        /\ buffer' = [buffer EXCEPT ![cpacket] = encryption(@)]
    BY <1>3 DEF SendReqPost
  <2>2. CASE p # cpacket
    <3>1. \A s \in Sessions : p \in Held(s)' <=> p \in Held(s) BY <1>3, <2>2, PostMoves
    <3>2. Holders(p) # {} BY <3>1 DEF Holders
    <3>3. buffer'[p] = buffer[p] BY <1>t, <2>1, <2>2
    <3> QED BY <1>same, <2>1, <2>2, <3>2, <3>3
  <2>3. CASE p = cpacket
    <3>1. message[p].copies > 0 /\ (message[p].copies = 1 => HeadedText(p))
      BY <1>c, <2>1, <2>3 DEF BytesOfText, ContentText, HeadedText
    <3>2. buffer'[p] = encryption(buffer[p]) BY <1>t, <2>1, <2>3
    <3>3. message[p].copies = 1 => EncryptedText(p)'
      BY <2>1, <3>1, <3>2 DEF HeadedText, EncryptedText
    <3> QED BY <2>1, <3>1, <3>3
  <2> QED BY <2>2, <2>3
<1>4. CASE ~NewPacket /\ ~SendReqHeader /\ ~SendReqPost
  <2>1. Kept /\ \A s \in Sessions : Held(s)' \subseteq Held(s) BY <1>4, WorkKeeps
  <2>2. Holders(p) # {} BY <2>1 DEF Holders
  <2>3. buffer'[p] = buffer[p] /\ message'[p] = message[p] BY <2>1 DEF Kept
  <2>4. (cpc' = cpc /\ cpacket' = cpacket) \/ cpc' = "idle"
    BY <1>4, ContentRests
  <2> QED BY <1>same, <2>2, <2>3, <2>4
<1> QED BY <1>1, <1>2, <1>3, <1>4

LEMMA BytesStep == ASSUME IInv, Next, Types', Control', Counted' PROVE BytesOfText'
<1>1. ContentText' BY ContentStep
<1>2. \A p \in Packets : WireText(p)' BY WireStep
<1>3. \A s \in Sessions : ReadText(s)' BY ReadStep
<1> QED BY <1>1, <1>2, <1>3 DEF BytesOfText

----------------------------------------------------------------------------
(* The order of the packets of a client. *)

\* Two sequences joined rise if each does and the first is below the second.
LEMMA JoinedRising ==
  ASSUME NEW a \in Seq(Nat), NEW b \in Seq(Nat)
  PROVE  Rising(a \o b) <=>
            Rising(a) /\ Rising(b) /\ \A x \in Range(a), y \in Range(b) : x < y
<1> DEFINE q == a \o b
           l == Len(a)
           k == Len(b)
<1>1. /\ l \in Nat /\ k \in Nat /\ DOMAIN a = 1 .. l /\ DOMAIN b = 1 .. k
      /\ DOMAIN q = 1 .. l + k
      /\ \A i \in 1 .. l : q[i] = a[i]
      /\ \A i \in 1 .. k : q[l + i] = b[i]
      /\ \A i \in 1 .. l : a[i] \in Nat
      /\ \A i \in 1 .. k : b[i] \in Nat
  BY ConcatProperties, LenProperties, ElementOfSeq
<1> HIDE DEF q, l, k
<1>2. ASSUME Rising(q)
      PROVE  Rising(a) /\ Rising(b) /\ \A x \in Range(a), y \in Range(b) : x < y
  <2>1. ASSUME NEW i \in 1 .. l, NEW j \in 1 .. l, i < j PROVE a[i] < a[j]
    <3>1. i \in 1 .. l + k /\ j \in 1 .. l + k BY <1>1
    <3> QED BY <1>1, <1>2, <2>1, <3>1 DEF Rising
  <2>2. ASSUME NEW i \in 1 .. k, NEW j \in 1 .. k, i < j PROVE b[i] < b[j]
    <3>1. l + i \in 1 .. l + k /\ l + j \in 1 .. l + k /\ l + i < l + j BY <1>1, <2>2
    <3>2. q[l + i] < q[l + j] BY <1>1, <1>2, <3>1 DEF Rising
    <3> QED BY <1>1, <3>2
  <2>3. ASSUME NEW i \in 1 .. l, NEW j \in 1 .. k PROVE a[i] < b[j]
    <3>1. i \in 1 .. l + k /\ l + j \in 1 .. l + k /\ i < l + j BY <1>1
    <3>2. q[i] < q[l + j] BY <1>1, <1>2, <3>1 DEF Rising
    <3> QED BY <1>1, <3>2
  <2>4. Rising(a) BY <1>1, <2>1 DEF Rising
  <2>5. Rising(b) BY <1>1, <2>2 DEF Rising
  <2>6. \A x \in Range(a), y \in Range(b) : x < y BY <1>1, <2>3 DEF Range
  <2> QED BY <2>4, <2>5, <2>6
<1>3. ASSUME Rising(a), Rising(b), \A x \in Range(a), y \in Range(b) : x < y
      PROVE  Rising(q)
  <2> SUFFICES ASSUME NEW i \in 1 .. l + k, NEW j \in 1 .. l + k, i < j PROVE q[i] < q[j]
    BY <1>1 DEF Rising
  <2>1. CASE j <= l
    <3>1. i \in 1 .. l /\ j \in 1 .. l BY <1>1, <2>1
    <3> QED BY <1>1, <1>3, <3>1 DEF Rising
  <2>2. CASE i > l
    <3>1. i - l \in 1 .. k /\ j - l \in 1 .. k /\ i - l < j - l BY <1>1, <2>2
    <3>2. l + (i - l) = i /\ l + (j - l) = j BY <1>1
    <3>3. q[i] = b[i - l] /\ q[j] = b[j - l] BY <1>1, <3>1, <3>2
    <3> QED BY <1>1, <1>3, <3>1, <3>3 DEF Rising
  <2>3. CASE i <= l /\ j > l
    <3>1. i \in 1 .. l /\ j - l \in 1 .. k /\ l + (j - l) = j BY <1>1, <2>3
    <3>2. q[i] = a[i] /\ q[j] = b[j - l] BY <1>1, <3>1
    <3>3. a[i] \in Range(a) /\ b[j - l] \in Range(b) BY <1>1, <3>1 DEF Range
    <3> QED BY <1>3, <3>2, <3>3
  <2> QED BY <1>1, <2>1, <2>2, <2>3
<1> QED BY <1>2, <1>3 DEF q

\* What is left when a part is taken out still fits.
LEMMA FitsWithout ==
  ASSUME NEW a \in Seq(Nat), NEW b \in Seq(Nat), NEW c \in Seq(Nat), NEW n \in Nat,
         NEW ahead \in BOOLEAN, Fits((a \o b) \o c, n, ahead)
  PROVE  Fits(a \o c, n, ahead)
<1> DEFINE ab == a \o b
<1>1. ab \in Seq(Nat) /\ Range(ab) = Range(a) \union Range(b)
      /\ (Rising(ab) => Rising(a))
  BY JoinedRising, ConcatProperties, RangeConcatenation
<1>2. Fits(ab \o c, n, ahead) OBVIOUS
<1> HIDE DEF ab
<1>3. Rising(ab) /\ Rising(c) /\ \A x \in Range(ab), y \in Range(c) : x < y
  BY <1>1, <1>2, JoinedRising DEF Fits
<1>4. Range(ab \o c) = Range(ab) \union Range(c) /\ Range(a \o c) = Range(a) \union Range(c)
  BY <1>1, RangeConcatenation
<1>5. Rising(a \o c) BY <1>1, <1>3, JoinedRising
<1>6. Range(a \o c) \subseteq Range(ab \o c) BY <1>1, <1>4
<1> QED BY <1>2, <1>5, <1>6 DEF Fits

\* The number n behind numbers that it is still to come for.
LEMMA FitsBehind ==
  ASSUME NEW q \in Seq(Nat), NEW n \in Nat, Fits(q, n, TRUE)
  PROVE  Fits(q \o <<n>>, n, FALSE)
<1> DEFINE one == <<n>>
<1>1. one \in Seq(Nat) /\ Range(one) = {n} /\ Rising(one) BY DEF Range, Rising
<1> HIDE DEF one
<1>2. Range(q) \subseteq Nat BY RangeOfSeq
<1>3. \A x \in Range(q) : x < n BY <1>2 DEF Fits
<1>4. Rising(q \o one) BY <1>1, <1>3, JoinedRising DEF Fits
<1>5. Range(q \o one) = Range(q) \union {n} BY <1>1, RangeConcatenation
<1>6. \A x \in Range(q \o one) : x <= n BY <1>2, <1>3, <1>5
<1>7. Fits(q \o one, n, FALSE) BY <1>4, <1>6 DEF Fits
<1> QED BY <1>7 DEF one

\* They also fit when less is to come.
LEMMA FitsLater ==
  ASSUME NEW q \in Seq(Nat), NEW n \in Nat, NEW m \in Nat,
         NEW ahead \in BOOLEAN, NEW still \in BOOLEAN,
         Fits(q, n, ahead), m = n + 1 \/ (m = n /\ (still => ahead))
  PROVE  Fits(q, m, still)
<1>1. Range(q) \subseteq Nat BY RangeOfSeq
<1>2. \A x \in Range(q) : x <= n /\ (x = n => ~ahead) BY DEF Fits
<1>3. \A x \in Range(q) : x <= m /\ (x = m => ~still) BY <1>1, <1>2
<1> QED BY <1>3 DEF Fits

LEMMA SerialsType ==
  ASSUME NEW m \in [Packets -> Messages], NEW q \in Seq(Packets)
  PROVE  Serials(m, q) \in Seq(Nat) /\ Len(Serials(m, q)) = Len(q)
<1>1. Len(q) \in Nat /\ DOMAIN q = 1 .. Len(q) /\ \A i \in 1 .. Len(q) : q[i] \in Packets
  BY LenProperties, ElementOfSeq
<1>2. \A i \in 1 .. Len(q) : m[q[i]].serial \in Nat BY <1>1 DEF Messages
<1>3. Serials(m, q) \in [1 .. Len(q) -> Nat] BY <1>1, <1>2 DEF Serials
<1> QED BY <1>1, <1>3, MapIsSeq

LEMMA SerialsJoin ==
  ASSUME NEW m \in [Packets -> Messages], NEW a \in Seq(Packets), NEW b \in Seq(Packets)
  PROVE  Serials(m, a \o b) = Serials(m, a) \o Serials(m, b)
<1> DEFINE l == Len(a)
           k == Len(b)
           sa == Serials(m, a)
           sb == Serials(m, b)
           sq == Serials(m, a \o b)
<1>1. /\ l \in Nat /\ k \in Nat /\ a \o b \in Seq(Packets) /\ Len(a \o b) = l + k
      /\ \A i \in 1 .. l + k : (a \o b)[i] = IF i <= l THEN a[i] ELSE b[i - l]
      /\ DOMAIN a = 1 .. l /\ DOMAIN b = 1 .. k /\ DOMAIN (a \o b) = 1 .. l + k
  BY ConcatProperties, LenProperties
<1>2. /\ sa \in Seq(Nat) /\ Len(sa) = l /\ sb \in Seq(Nat) /\ Len(sb) = k
      /\ sq \in Seq(Nat) /\ Len(sq) = l + k
  BY <1>1, SerialsType
<1>3. /\ \A i \in 1 .. l : sa[i] = m[a[i]].serial
      /\ \A i \in 1 .. k : sb[i] = m[b[i]].serial
      /\ \A i \in 1 .. l + k : sq[i] = m[(a \o b)[i]].serial
  BY <1>1 DEF Serials
<1> HIDE DEF l, k, sa, sb, sq
<1>4. /\ sa \o sb \in Seq(Nat) /\ Len(sa \o sb) = l + k
      /\ \A i \in 1 .. l + k : (sa \o sb)[i] = IF i <= l THEN sa[i] ELSE sb[i - l]
  BY <1>2, ConcatProperties
<1>5. ASSUME NEW i \in 1 .. l + k PROVE sq[i] = (sa \o sb)[i]
  <2>1. CASE i <= l
    <3>1. i \in 1 .. l BY <1>1, <2>1
    <3> QED BY <1>1, <1>3, <1>4, <2>1, <3>1
  <2>2. CASE ~(i <= l)
    <3>1. i - l \in 1 .. k BY <1>1, <2>2
    <3> QED BY <1>1, <1>3, <1>4, <2>2, <3>1
  <2> QED BY <2>1, <2>2
<1>6. sq = sa \o sb BY <1>2, <1>4, <1>5, SeqEqual
<1> QED BY <1>6 DEF sa, sb, sq

LEMMA SerialsSame ==
  ASSUME NEW m, NEW n, NEW q, \A p \in Range(q) : n[p].serial = m[p].serial
  PROVE  Serials(n, q) = Serials(m, q)
BY DEF Serials, Range

\* The packets on their way to a client are those of its session.
LEMMA QueueType ==
  ASSUME Types, Control, NEW s \in Sessions
  PROVE  /\ OnWire(s) \in Seq(Packets) /\ sendBuffer[s] \in Seq(Packets)
         /\ Carried(s) \in Seq(Packets) /\ posts[s] \in Seq(Packets) /\ Queue(s) \in Seq(Packets)
         /\ Got(s) \in Seq(Nat) /\ Line(s) \in Seq(Nat)
         /\ Range(Queue(s)) =
              Range(OnWire(s)) \union Range(sendBuffer[s])
              \union Range(Carried(s)) \union Range(posts[s])
<1>1. /\ sendBuffer[s] \in Seq(Packets) /\ posts[s] \in Seq(Packets)
      /\ wsabufs[s] \in Seq(Packets) /\ received[s] \in Seq(Delivered)
  BY DEF Types, TypeOK
<1>2. OnWire(s) \in Seq(Packets) BY <1>1 DEF OnWire
<1>3. Carried(s) \in Seq(Packets)
  <2>1. CASE \E w \in Workers : Collecting(w, s)
    <3> DEFINE w == CHOOSE v \in Workers : Collecting(v, s)
    <3>1. w \in Workers /\ Collecting(w, s) BY <2>1
    <3>2. Carried(s) = <<wpacket[w]>> BY <2>1 DEF Carried
    <3> HIDE DEF w
    <3>3. wpacket[w] \in Packets BY <3>1, CollectHas DEF Collecting, At
    <3> QED BY <3>2, <3>3
  <2>2. CASE ~\E w \in Workers : Collecting(w, s) BY <2>2 DEF Carried
  <2> QED BY <2>1, <2>2
<1> DEFINE a == OnWire(s)
           b == sendBuffer[s]
           c == Carried(s)
           d == posts[s]
<1>4. a \in Seq(Packets) /\ b \in Seq(Packets) /\ c \in Seq(Packets) /\ d \in Seq(Packets)
      /\ Queue(s) = ((a \o b) \o c) \o d
  BY <1>1, <1>2, <1>3 DEF Queue
<1> HIDE DEF a, b, c, d
<1> DEFINE ab  == a \o b
           abc == ab \o c
<1>5. ab \in Seq(Packets) /\ Range(ab) = Range(a) \union Range(b)
  BY <1>4, ConcatProperties, RangeConcatenation
<1> HIDE DEF ab
<1>6. abc \in Seq(Packets) /\ Range(abc) = Range(ab) \union Range(c)
  BY <1>4, <1>5, ConcatProperties, RangeConcatenation
<1>7. /\ Queue(s) \in Seq(Packets)
      /\ Range(Queue(s)) = ((Range(a) \union Range(b)) \union Range(c)) \union Range(d)
  <2>1. Queue(s) = abc \o d BY <1>4 DEF ab
  <2> HIDE DEF abc
  <2>2. /\ abc \o d \in Seq(Packets) /\ Range(abc \o d) = Range(abc) \union Range(d)
    BY <1>4, <1>6, ConcatProperties, RangeConcatenation
  <2> QED BY <1>5, <1>6, <2>1, <2>2
<1>8. Got(s) \in Seq(Nat)
  <2>1. Len(received[s]) \in Nat /\ DOMAIN received[s] = 1 .. Len(received[s])
        /\ \A i \in 1 .. Len(received[s]) : received[s][i] \in Delivered
    BY <1>1, LenProperties, ElementOfSeq
  <2>2. Got(s) \in [1 .. Len(received[s]) -> Nat] BY <2>1 DEF Got, Delivered
  <2> QED BY <2>1, <2>2, MapIsSeq
<1>9. Line(s) \in Seq(Nat)
  <2>1. Serials(message, Queue(s)) \in Seq(Nat) BY <1>7, SerialsType DEF Types
  <2> QED BY <1>8, <2>1, ConcatProperties DEF Line
<1> QED BY <1>1, <1>2, <1>3, <1>7, <1>8, <1>9 DEF a, b, c, d

LEMMA CarriedInHand ==
  ASSUME NEW s \in Sessions PROVE Range(Carried(s)) \subseteq InHand(s)
<1>1. CASE \E w \in Workers : Collecting(w, s)
  <2> DEFINE w == CHOOSE v \in Workers : Collecting(v, s)
  <2>1. w \in Workers /\ Collecting(w, s) BY <1>1
  <2>2. Carried(s) = <<wpacket[w]>> BY <1>1 DEF Carried
  <2> HIDE DEF w
  <2>3. wpacket[w] \in InHand(s) BY <2>1, HandsAre
  <2> QED BY <2>2, <2>3 DEF Range
<1>2. CASE ~\E w \in Workers : Collecting(w, s) BY <1>2 DEF Carried, Range
<1> QED BY <1>1, <1>2

LEMMA QueueHeld ==
  ASSUME Types, Control, SendedIsSent, NEW s \in Sessions
  PROVE  Range(Queue(s)) \subseteq Held(s)
<1>1. Range(OnWire(s)) \subseteq Held(s)
  <2>1. CASE sendOv[s] = "pending"
    <3>1. \A i \in DOMAIN wsabufs[s] : wsabufs[s][i] \in Held(s) BY <2>1, SentIsHeld
    <3> QED BY <2>1, <3>1 DEF OnWire, Range
  <2>2. CASE sendOv[s] # "pending" BY <2>2 DEF OnWire, Range
  <2> QED BY <2>1, <2>2
<1>2. Range(Carried(s)) \subseteq Held(s) BY CarriedInHand DEF Held
<1>3. Range(sendBuffer[s]) \subseteq Held(s) /\ Range(posts[s]) \subseteq Held(s) BY DEF Held
<1> QED BY <1>1, <1>2, <1>3, QueueType

\* What a packet that a session has carries stays the same.
LEMMA SerialsStay ==
  ASSUME IInv, Next, Types', Control', Counted', NEW p \in Packets, Holders(p)' # {}
  PROVE  message'[p].serial = message[p].serial
<1>c. Types /\ Control /\ Counted BY DEF IInv
<1>t. message \in [Packets -> Messages] BY <1>c DEF Types
<1>1. CASE NewPacket
  <2>1. PICK q \in pool, m \in Sends[serial + 1] :
           message' = [message EXCEPT ![q] =
                  [serial |-> serial + 1, text |-> Text(serial + 1, m.size), copies |-> 0]]
    BY <1>1 DEF NewPacket
  <2>2. \A s \in Sessions : Held(s)' = Held(s) BY <1>1, QuietMoves DEF Quiet
  <2>3. Holders(p) # {} BY <2>2, HoldersStay
  <2>4. p \notin pool BY <1>c, <2>3, HeldIsCounted
  <2> QED BY <1>t, <2>1, <2>4
<1>2. CASE SendReqHeader
  <2>1. message' = [message EXCEPT ![cpacket].copies = @ + 1] BY <1>2 DEF SendReqHeader
  <2> QED BY <1>t, <2>1 DEF Messages
<1>3. CASE SendReqPost BY <1>3 DEF SendReqPost
<1>4. CASE ~NewPacket /\ ~SendReqHeader /\ ~SendReqPost BY <1>4, WorkKeeps DEF Kept
<1> QED BY <1>1, <1>2, <1>3, <1>4

\* A step makes a packet with a new number, or less is still to be sent.
LEMMA AheadStep ==
  ASSUME IInv, Next, NEW s \in Sessions
  PROVE  serial' = serial + 1 \/ (serial' = serial /\ (Ahead(s)' => Ahead(s)))
<1>nx. Next OBVIOUS
<1>c. Types /\ Control BY DEF IInv
<1>1. CASE NewPacket BY <1>1 DEF NewPacket
<1>2. CASE SendReqGone BY <1>c, <1>2, TailAhead DEF SendReqGone
<1>3. CASE SendReqPost
  <2>1. targets # <<>> /\ targets' = Tail(targets) /\ serial' = serial
    BY <1>c, <1>3 DEF SendReqPost, Control
  <2> QED BY <1>c, <2>1, TailAhead
<1>4. CASE SendReqHeader \/ SendEnd BY <1>4 DEF SendReqHeader, SendEnd, Ahead
<1>5. ASSUME NEW w \in Workers, Worker(w) PROVE UNCHANGED <<targets, serial>>
  BY <1>5 DEF Worker, TakePost, TakeSend, TakeFailed, CollectSendPacket, SendIOCheck,
              SendIOBusy, SendIOEmpty, SendIO, ClearSendFlag, CancelIORegist, contentVars
<1>6. ASSUME NEW r \in Sessions, Life(r) PROVE UNCHANGED <<targets, serial>>
  BY <1>6 DEF Life, SendComplete, DisconnectReq, RecvEnds, Release, Accept, contentVars
<1> QED BY <1>nx, <1>1, <1>2, <1>3, <1>4, <1>5, <1>6 DEF Next, Content, Ahead

\* What is on the way to a client is what its session holds.
QueuesHeld ==
    \A s \in Sessions :
        /\ Queue(s) \in Seq(Packets) /\ Got(s) \in Seq(Nat)
        /\ Range(Queue(s)) \subseteq Packets /\ Range(Queue(s)) \subseteq Held(s)

LEMMA QueuesAreHeld == Types /\ Control /\ SendedIsSent => QueuesHeld
<1> SUFFICES ASSUME Types, Control, SendedIsSent, NEW s \in Sessions
             PROVE  /\ Queue(s) \in Seq(Packets) /\ Got(s) \in Seq(Nat)
                    /\ Range(Queue(s)) \subseteq Packets /\ Range(Queue(s)) \subseteq Held(s)
  BY DEF QueuesHeld
<1>1. Queue(s) \in Seq(Packets) /\ Got(s) \in Seq(Nat) BY QueueType
<1>2. Range(Queue(s)) \in SUBSET Packets BY <1>1, RangeOfSeq
<1> QED BY <1>1, <1>2, QueueHeld

\* What a step does to the packets of a client: nothing; some are dropped;
\* some reach it; one more is posted, the last of this number; or the session
\* is another client's.
Follows(s) ==
    \/ Got(s)' = Got(s) /\ Queue(s)' = Queue(s)
    \/ \E a, b, c \in Seq(Packets) :
          Queue(s) = (a \o b) \o c /\ Queue(s)' = a \o c /\ Got(s)' = Got(s)
    \/ \E a, b \in Seq(Packets) :
          Queue(s) = a \o b /\ Queue(s)' = b /\ Got(s)' = Got(s) \o Serials(message, a)
    \/ /\ Queue(s)' = Queue(s) \o <<cpacket>> /\ Got(s)' = Got(s)
       /\ cpc # "idle" /\ serial' = serial /\ Ahead(s) /\ ~Ahead(s)'
    \/ Got(s)' = <<>> /\ Queue(s)' = <<>>

LEMMA FollowsFits ==
  ASSUME IInv, Next, Types', Control', Counted', SendedIsSent', NEW s \in Sessions, Follows(s),
         ~raced[s] \/ (Got(s)' = <<>> /\ Queue(s)' = <<>>)
  PROVE  Fits(Line(s)', serial', Ahead(s)')
<1>c. Types /\ Control /\ SendedIsSent BY DEF IInv
<1>t. /\ message \in [Packets -> Messages] /\ serial \in Nat /\ serial' \in Nat
      /\ Ahead(s) \in BOOLEAN /\ Ahead(s)' \in BOOLEAN
  BY <1>c DEF Types, Ahead
<1> DEFINE g == Got(s)
           q == Queue(s)
           Ser(x) == Serials(message, x)
<1>1. g \in Seq(Nat) /\ q \in Seq(Packets) BY <1>c, QueuesAreHeld DEF QueuesHeld
<1>2. /\ Got(s)' \in Seq(Nat) /\ Queue(s)' \in Seq(Packets)
      /\ Range(Queue(s)') \subseteq Packets /\ Range(Queue(s)') \subseteq Held(s)'
  <2>1. QueuesHeld' BY QueuesAreHeld, PTL
  <2> QED BY <2>1 DEF QueuesHeld
<1>3. Line(s)' = Got(s)' \o Ser(Queue(s)')
  <2>1. \A p \in Range(Queue(s)') : message'[p].serial = message[p].serial
    BY <1>2, SerialsStay DEF Holders
  <2>2. Serials(message', Queue(s)') = Serials(message, Queue(s)')
    <3> DEFINE r == Queue(s)'
    <3>1. \A p \in Range(r) : message'[p].serial = message[p].serial BY <2>1
    <3> HIDE DEF r
    <3>2. Serials(message', r) = Serials(message, r) BY <3>1, SerialsSame
    <3> QED BY <3>2 DEF r
  <2> QED BY <2>2 DEF Line
<1>4. ~raced[s] => Fits(g \o Ser(q), serial, Ahead(s))
  <2>1. Line(s) = g \o Ser(q) BY DEF Line
  <2> QED BY <2>1 DEF IInv, InLine
<1>5. \A x \in Seq(Packets) : Ser(x) \in Seq(Nat) BY <1>t, SerialsType
<1>6. \A x, y \in Seq(Packets) : Ser(x \o y) = Ser(x) \o Ser(y) BY <1>t, SerialsJoin
<1>7. serial' = serial + 1 \/ (serial' = serial /\ (Ahead(s)' => Ahead(s))) BY AheadStep
<1>8. cpc # "idle" => Ser(<<cpacket>>) = <<serial>> /\ cpacket \in Packets
  <2>1. cpc # "idle" => message[cpacket].serial = serial BY DEF IInv, InLine
  <2>2. cpc # "idle" => cpacket \in Packets BY <1>c, ContentHas
  <2> QED BY <2>1, <2>2 DEF Serials
<1>9. ASSUME NEW x \in Seq(Nat), Fits(x, serial, Ahead(s)) PROVE Fits(x, serial', Ahead(s)')
  BY <1>t, <1>7, <1>9, FitsLater
<1>10. Fits(<<>>, serial', Ahead(s)') BY DEF Fits, Rising, Range
<1>11. Ser(<<>>) = <<>> BY DEF Serials
<1>a. \A x, y, z \in Seq(Nat) : x \o (y \o z) = (x \o y) \o z /\ x \o y \in Seq(Nat)
  <2> TAKE x, y, z \in Seq(Nat)
  <2>1. x \o (y \o z) = (x \o y) \o z BY ConcatAssociative, SMTT(60)
  <2>2. x \o y \in Seq(Nat) BY ConcatProperties
  <2> QED BY <2>1, <2>2
<1> HIDE DEF g, q, Ser
<1>12. ASSUME ~raced[s], Got(s)' = g, Queue(s)' = q PROVE Fits(Line(s)', serial', Ahead(s)')
  <2>1. g \o Ser(q) \in Seq(Nat) BY <1>1, <1>5, ConcatProperties
  <2> QED BY <1>3, <1>4, <1>9, <1>12, <2>1
<1>13. ASSUME ~raced[s], NEW a \in Seq(Packets), NEW b \in Seq(Packets), NEW c \in Seq(Packets),
              q = (a \o b) \o c, Queue(s)' = a \o c, Got(s)' = g
       PROVE  Fits(Line(s)', serial', Ahead(s)')
  <2>1. Ser(a) \in Seq(Nat) /\ Ser(b) \in Seq(Nat) /\ Ser(c) \in Seq(Nat) BY <1>5
  <2>2. Ser(q) = (Ser(a) \o Ser(b)) \o Ser(c)
    <3>1. a \o b \in Seq(Packets) BY ConcatProperties
    <3> QED BY <1>6, <1>13, <3>1
  <2>3. Ser(a \o c) = Ser(a) \o Ser(c) BY <1>6
  <2>4. g \o Ser(q) = ((g \o Ser(a)) \o Ser(b)) \o Ser(c)
    <3> DEFINE sa == Ser(a)
               sb == Ser(b)
               sc == Ser(c)
    <3>1. sa \in Seq(Nat) /\ sb \in Seq(Nat) /\ sc \in Seq(Nat) /\ Ser(q) = (sa \o sb) \o sc
      BY <2>1, <2>2
    <3> HIDE DEF sa, sb, sc
    <3>2. sa \o sb \in Seq(Nat) BY <1>a, <3>1
    <3>3. g \o ((sa \o sb) \o sc) = (g \o (sa \o sb)) \o sc BY <1>1, <1>a, <3>1, <3>2, ZenonT(60)
    <3>4. g \o (sa \o sb) = (g \o sa) \o sb BY <1>1, <1>a, <3>1, Zenon
    <3>5. g \o Ser(q) = ((g \o sa) \o sb) \o sc BY <3>1, <3>3, <3>4
    <3> QED BY <3>5 DEF sa, sb, sc
  <2>5. g \o (Ser(a) \o Ser(c)) = (g \o Ser(a)) \o Ser(c) BY <1>1, <1>a, <2>1, Zenon
  <2>6. g \o Ser(a) \in Seq(Nat) BY <1>1, <2>1, ConcatProperties
  <2>7. Fits((g \o Ser(a)) \o Ser(c), serial, Ahead(s))
    <3> DEFINE x == g \o Ser(a)
               y == Ser(b)
               z == Ser(c)
    <3>1. x \in Seq(Nat) /\ y \in Seq(Nat) /\ z \in Seq(Nat) /\ Fits((x \o y) \o z, serial, Ahead(s))
      BY <1>4, <1>13, <2>1, <2>4, <2>6
    <3> HIDE DEF x, y, z
    <3>2. Fits(x \o z, serial, Ahead(s)) BY <1>t, <3>1, FitsWithout
    <3> QED BY <3>2 DEF x, z
  <2>8. (g \o Ser(a)) \o Ser(c) \in Seq(Nat)
    <3>1. \A x, y \in Seq(Nat) : x \o y \in Seq(Nat) BY ConcatProperties
    <3> QED BY <2>1, <2>6, <3>1
  <2> QED BY <1>3, <1>9, <1>13, <2>3, <2>5, <2>7, <2>8
<1>14. ASSUME ~raced[s], NEW a \in Seq(Packets), NEW b \in Seq(Packets),
              q = a \o b, Queue(s)' = b, Got(s)' = g \o Ser(a)
       PROVE  Fits(Line(s)', serial', Ahead(s)')
  <2>1. Ser(a) \in Seq(Nat) /\ Ser(b) \in Seq(Nat) BY <1>5
  <2>2. Ser(q) = Ser(a) \o Ser(b) BY <1>6, <1>14
  <2>3. g \o (Ser(a) \o Ser(b)) = (g \o Ser(a)) \o Ser(b) BY <1>1, <1>a, <2>1, Zenon
  <2>4. g \o Ser(q) \in Seq(Nat) BY <1>1, <1>5, ConcatProperties
  <2> QED BY <1>3, <1>4, <1>9, <1>14, <2>2, <2>3, <2>4
<1>15. ASSUME ~raced[s], Queue(s)' = q \o <<cpacket>>, Got(s)' = g, cpc # "idle",
              serial' = serial, Ahead(s), ~Ahead(s)'
       PROVE  Fits(Line(s)', serial', Ahead(s)')
  <2> DEFINE one == <<cpacket>>
             num == <<serial>>
  <2>1. one \in Seq(Packets) /\ Ser(one) = num /\ num \in Seq(Nat) BY <1>8, <1>15, <1>t
  <2>2. Ser(q) \in Seq(Nat) BY <1>1, <1>5
  <2>3. Fits((g \o Ser(q)) \o <<serial>>, serial, FALSE)
    <3>1. g \o Ser(q) \in Seq(Nat) BY <1>1, <2>2, ConcatProperties
    <3>2. Fits(g \o Ser(q), serial, TRUE) BY <1>4, <1>15 DEF Fits
    <3> QED BY <1>t, <3>1, <3>2, FitsBehind
  <2>4. Line(s)' = g \o Ser(q \o one) BY <1>3, <1>15
  <2>5. Fits((g \o Ser(q)) \o num, serial, FALSE) BY <2>3
  <2> HIDE DEF one, num
  <2>6. Ser(q \o one) = Ser(q) \o num BY <1>1, <1>6, <2>1
  <2>7. g \o (Ser(q) \o num) = (g \o Ser(q)) \o num BY <1>1, <1>a, <2>1, <2>2, Zenon
  <2>8. Line(s)' = (g \o Ser(q)) \o num BY <2>4, <2>6, <2>7
  <2> QED BY <1>15, <2>5, <2>8 DEF Fits
<1>16. ASSUME Got(s)' = <<>>, Queue(s)' = <<>> PROVE Fits(Line(s)', serial', Ahead(s)')
  BY <1>3, <1>10, <1>11, <1>16
<1> QED BY <1>12, <1>13, <1>14, <1>15, <1>16 DEF Follows, g, q, Ser

LEMMA NumbersJoin ==
  \A x, y \in Seq(Delivered) :
     [i \in DOMAIN (x \o y) |-> (x \o y)[i].serial]
       = [i \in DOMAIN x |-> x[i].serial] \o [i \in DOMAIN y |-> y[i].serial]
<1> TAKE x, y \in Seq(Delivered)
<1> DEFINE l == Len(x)
           k == Len(y)
           nx == [i \in DOMAIN x |-> x[i].serial]
           ny == [i \in DOMAIN y |-> y[i].serial]
           nq == [i \in DOMAIN (x \o y) |-> (x \o y)[i].serial]
<1>1. /\ l \in Nat /\ k \in Nat /\ x \o y \in Seq(Delivered)
      /\ \A i \in 1 .. l + k : (x \o y)[i] = IF i <= l THEN x[i] ELSE y[i - l]
      /\ DOMAIN x = 1 .. l /\ DOMAIN y = 1 .. k /\ DOMAIN (x \o y) = 1 .. l + k
      /\ \A i \in 1 .. l : x[i] \in Delivered
      /\ \A i \in 1 .. k : y[i] \in Delivered
      /\ \A i \in 1 .. l + k : (x \o y)[i] \in Delivered
  BY ConcatProperties, LenProperties, ElementOfSeq
<1>2. /\ nx \in [1 .. l -> Nat] /\ ny \in [1 .. k -> Nat] /\ nq \in [1 .. l + k -> Nat]
  BY <1>1 DEF Delivered
<1>3. /\ nx \in Seq(Nat) /\ Len(nx) = l /\ ny \in Seq(Nat) /\ Len(ny) = k
      /\ nq \in Seq(Nat) /\ Len(nq) = l + k
  BY <1>1, <1>2, MapIsSeq
<1>4. /\ \A i \in 1 .. l : nx[i] = x[i].serial
      /\ \A i \in 1 .. k : ny[i] = y[i].serial
      /\ \A i \in 1 .. l + k : nq[i] = (x \o y)[i].serial
  BY <1>1
<1> HIDE DEF l, k, nx, ny, nq
<1>5. /\ nx \o ny \in Seq(Nat) /\ Len(nx \o ny) = l + k
      /\ \A i \in 1 .. l + k : (nx \o ny)[i] = IF i <= l THEN nx[i] ELSE ny[i - l]
  BY <1>3, ConcatProperties
<1>6. ASSUME NEW i \in 1 .. l + k PROVE nq[i] = (nx \o ny)[i]
  <2>1. CASE i <= l
    <3>1. i \in 1 .. l BY <1>1, <2>1
    <3> QED BY <1>1, <1>4, <1>5, <2>1, <3>1
  <2>2. CASE ~(i <= l)
    <3>1. i - l \in 1 .. k BY <1>1, <2>2
    <3> QED BY <1>1, <1>4, <1>5, <2>2, <3>1
  <2> QED BY <2>1, <2>2
<1>7. nq = nx \o ny BY <1>3, <1>5, <1>6, SeqEqual
<1> QED BY <1>7 DEF nx, ny, nq

\* The packets of a client before a step and after it.
CarriedByOne ==
    \A s \in Sessions :
        /\ \A w \in Workers : OneHand(s) /\ Collecting(w, s) => Carried(s) = <<wpacket[w]>>
        /\ (\A w \in Workers : ~Collecting(w, s)) => Carried(s) = <<>>

LEMMA CarriedIs == CarriedByOne
<1> SUFFICES ASSUME NEW s \in Sessions
             PROVE  /\ \A w \in Workers :
                           OneHand(s) /\ Collecting(w, s) => Carried(s) = <<wpacket[w]>>
                    /\ (\A w \in Workers : ~Collecting(w, s)) => Carried(s) = <<>>
  BY DEF CarriedByOne
<1>1. ASSUME NEW w \in Workers, OneHand(s), Collecting(w, s) PROVE Carried(s) = <<wpacket[w]>>
  <2> DEFINE v == CHOOSE u \in Workers : Collecting(u, s)
  <2>1. v \in Workers /\ Collecting(v, s) BY <1>1
  <2>2. Carried(s) = <<wpacket[v]>> BY <1>1 DEF Carried
  <2> HIDE DEF v
  <2>3. v = w BY <1>1, <2>1 DEF OneHand
  <2> QED BY <2>2, <2>3
<1>2. (\A w \in Workers : ~Collecting(w, s)) => Carried(s) = <<>> BY DEF Carried
<1> QED BY <1>1, <1>2

LEMMA JoinedPackets ==
  /\ \A x, y \in Seq(Packets) : x \o y \in Seq(Packets)
  /\ \A x, y, z \in Seq(Packets) : (x \o y) \o z = x \o (y \o z)
  /\ \A x \in Seq(Packets) : x \o <<>> = x /\ <<>> \o x = x
  /\ <<>> \in Seq(Packets)
<1>1. \A x, y \in Seq(Packets) : x \o y \in Seq(Packets) BY ConcatProperties
<1>2. \A x, y, z \in Seq(Packets) : (x \o y) \o z = x \o (y \o z)
  <2> TAKE x, y, z \in Seq(Packets)
  <2> QED BY ConcatAssociative
<1>3. \A x \in Seq(Packets) : x \o <<>> = x /\ <<>> \o x = x BY ConcatEmptySeq
<1> QED BY <1>1, <1>2, <1>3

\* The workers that carry a packet of s are the same.
SameHands(s) ==
    \A w \in Workers : /\ Collecting(w, s)' <=> Collecting(w, s)
                       /\ Collecting(w, s) => wpacket'[w] = wpacket[w]

\* What is to be shown of a step and a session.
Orderly(s) ==
    ~raced'[s] => /\ OneHand(s)' /\ Follows(s)
                  /\ ~raced[s] \/ (Got(s)' = <<>> /\ Queue(s)' = <<>>)

LEMMA SameHandsCarry ==
  ASSUME IInv, NEW s \in Sessions, ~raced[s], SameHands(s)
  PROVE  OneHand(s)' /\ Carried(s)' = Carried(s)
<1>1. OneHand(s) BY DEF IInv, InLine
<1>2. OneHand(s)' BY <1>1 DEF OneHand, SameHands
<1>3. /\ \A w \in Workers : Collecting(w, s) => Carried(s) = <<wpacket[w]>>
      /\ (\A w \in Workers : ~Collecting(w, s)) => Carried(s) = <<>>
  BY <1>1, CarriedIs DEF CarriedByOne
<1>4. /\ \A w \in Workers : Collecting(w, s)' => Carried(s)' = <<wpacket'[w]>>
      /\ (\A w \in Workers : ~Collecting(w, s)') => Carried(s)' = <<>>
  <2>1. CarriedByOne' BY CarriedIs, PTL
  <2> QED BY <1>2, <2>1 DEF CarriedByOne
<1>5. CASE \E w \in Workers : Collecting(w, s)
  <2>1. PICK w \in Workers : Collecting(w, s) BY <1>5
  <2>2. Collecting(w, s)' /\ wpacket'[w] = wpacket[w] BY <2>1 DEF SameHands
  <2>3. Carried(s) = <<wpacket[w]>> /\ Carried(s)' = <<wpacket'[w]>> BY <1>3, <1>4, <2>1, <2>2
  <2> QED BY <1>2, <2>2, <2>3
<1>6. CASE ~\E w \in Workers : Collecting(w, s)
  <2>1. \A w \in Workers : ~Collecting(w, s)' BY <1>6 DEF SameHands
  <2> QED BY <1>2, <1>3, <1>4, <1>6, <2>1
<1> QED BY <1>5, <1>6

\* Nothing happens to the packets of s.
LEMMA StillOrderly ==
  ASSUME IInv, NEW s \in Sessions, SameHands(s), raced'[s] = raced[s],
         received'[s] = received[s], sendBuffer'[s] = sendBuffer[s], posts'[s] = posts[s],
         OnWire(s)' = OnWire(s)
  PROVE  Orderly(s)
<1> SUFFICES ASSUME ~raced[s] PROVE OneHand(s)' /\ Follows(s) BY DEF Orderly
<1>1. OneHand(s)' /\ Carried(s)' = Carried(s) BY SameHandsCarry
<1>2. Queue(s)' = Queue(s) /\ Got(s)' = Got(s) BY <1>1 DEF Queue, Got
<1> QED BY <1>1, <1>2 DEF Follows

\* A worker that neither had a packet nor takes one.
LEMMA OtherHands ==
  ASSUME Types, NEW w \in Workers, NEW label \in Labels, NEW r \in Sessions \union {Nobody},
         label # "collect", wpacket' = wpacket \/ wpacket' = [wpacket EXCEPT ![w] = Nobody],
         wpc' = [wpc EXCEPT ![w] = label], wsession' = [wsession EXCEPT ![w] = r],
         NEW s \in Sessions, wpc[w] # "collect" \/ wsession[w] # s
  PROVE  SameHands(s)
<1>t. /\ wpc \in [Workers -> Labels] /\ wsession \in [Workers -> Sessions \union {Nobody}]
      /\ wpacket \in [Workers -> Packets \union {Nobody}]
  BY DEF Types, TypeOK
<1>1. ASSUME NEW v \in Workers, v # w
      PROVE  wpc'[v] = wpc[v] /\ wsession'[v] = wsession[v] /\ wpacket'[v] = wpacket[v]
  BY <1>t, <1>1
<1>2. wpc'[w] = label BY <1>t
<1>3. ~Collecting(w, s) /\ ~Collecting(w, s)' BY <1>2 DEF Collecting, At
<1>4. ASSUME NEW v \in Workers, v # w
      PROVE  (Collecting(v, s)' <=> Collecting(v, s)) /\ wpacket'[v] = wpacket[v]
  BY <1>1, <1>4 DEF Collecting, At
<1> QED BY <1>3, <1>4 DEF SameHands

LEMMA GotoHands ==
  ASSUME Types, NEW w \in Workers, NEW label \in Labels, Goto(w, label), label # "collect",
         wpacket' = wpacket \/ wpacket' = [wpacket EXCEPT ![w] = Nobody],
         NEW s \in Sessions, wpc[w] # "collect" \/ wsession[w] # s
  PROVE  SameHands(s)
<1> DEFINE r == IF label = "idle" THEN Nobody ELSE wsession[w]
<1>1. r \in Sessions \union {Nobody} BY DEF Types, TypeOK
<1>2. wsession' = [wsession EXCEPT ![w] = r] /\ wpc' = [wpc EXCEPT ![w] = label] BY DEF Goto
<1> HIDE DEF r
<1> QED BY <1>1, <1>2, OtherHands

LEMMA PostOrderly ==
  ASSUME IInv, NEW s \in Sessions, SendReqPost
  PROVE  Orderly(s)
<1>c. Types /\ Control BY DEF IInv
<1>t. posts \in [Sessions -> Seq(Packets)] BY <1>c DEF Types, TypeOK
<1>1. /\ cpc = "encrypt" /\ cpacket \in Packets /\ Target \in Sessions /\ serial' = serial
      /\ targets # <<>> /\ targets' = Tail(targets) /\ Ahead(Target)
      /\ \A x \in Sessions : Ahead(x)' <=> Ahead(x) /\ x # Target
  <2>1. cpc = "encrypt" /\ targets # <<>> /\ targets' = Tail(targets) /\ serial' = serial
    BY <1>c DEF SendReqPost, Control
  <2>2. Target \in Sessions /\ Ahead(Target) /\ cpacket \in Packets BY <1>c, <2>1, ContentHas
  <2> QED BY <1>c, <2>1, <2>2, TailAhead
<1>2. /\ UNCHANGED <<raced, received, sendBuffer, ioVars, workerVars>>
      /\ posts' = [posts EXCEPT ![Target] = Append(@, cpacket)]
  BY DEF SendReqPost, bufferVars, historyVars
<1>3. SameHands(s) BY <1>2 DEF SameHands, Collecting, At, workerVars
<1>4. OnWire(s)' = OnWire(s) BY <1>2 DEF OnWire, ioVars
<1>5. CASE s # Target
  <2>1. posts'[s] = posts[s] BY <1>t, <1>2, <1>5
  <2> QED BY <1>2, <1>3, <1>4, <2>1, StillOrderly
<1>6. CASE s = Target
  <2> SUFFICES ASSUME ~raced[s] PROVE OneHand(s)' /\ Follows(s) BY <1>2 DEF Orderly
  <2>1. OneHand(s)' /\ Carried(s)' = Carried(s) BY <1>3, SameHandsCarry
  <2> DEFINE q == (OnWire(s) \o sendBuffer[s]) \o Carried(s)
             p == posts[s]
             one == <<cpacket>>
  <2>2. q \in Seq(Packets) /\ p \in Seq(Packets) /\ one \in Seq(Packets)
    BY <1>1, <1>c, QueueType, JoinedPackets
  <2>3. posts'[s] = p \o one
    <3>1. posts'[s] = Append(posts[s], cpacket) BY <1>t, <1>2, <1>6
    <3> QED BY <1>1, <2>2, <3>1, AppendIsConcat
  <2>4. Queue(s) = q \o p /\ Queue(s)' = q \o (p \o one)
    BY <1>2, <1>4, <2>1, <2>3 DEF Queue
  <2>5. Queue(s) \o <<cpacket>> = (q \o p) \o one BY <2>4
  <2>6. Got(s)' = Got(s) BY <1>2 DEF Got
  <2> HIDE DEF q, p, one
  <2>7. q \o (p \o one) = (q \o p) \o one BY <2>2, JoinedPackets
  <2>8. Queue(s)' = Queue(s) \o <<cpacket>> BY <2>4, <2>5, <2>7
  <2> QED BY <1>1, <1>6, <2>1, <2>6, <2>8 DEF Follows
<1> QED BY <1>5, <1>6

LEMMA TakePostOrderly ==
  ASSUME IInv, NEW s \in Sessions, NEW w \in Workers, NEW r \in Sessions, TakePost(w, r)
  PROVE  Orderly(s)
<1>c. Types /\ Control BY DEF IInv
<1>t. /\ wpc \in [Workers -> Labels] /\ wsession \in [Workers -> Sessions \union {Nobody}]
      /\ wpacket \in [Workers -> Packets \union {Nobody}]
      /\ posts \in [Sessions -> Seq(Packets)] /\ raced \in [Sessions -> BOOLEAN]
  BY <1>c DEF Types, TypeOK
<1>1. /\ wpc[w] = "idle" /\ posts[r] # <<>>
      /\ wpacket' = [wpacket EXCEPT ![w] = Head(posts[r])]
      /\ posts' = [posts EXCEPT ![r] = Tail(@)]
      /\ raced' = [raced EXCEPT ![r] = @ \/ \E v \in Workers : Collecting(v, r)]
      /\ wpc' = [wpc EXCEPT ![w] = "collect"] /\ wsession' = [wsession EXCEPT ![w] = r]
      /\ UNCHANGED <<received, sendBuffer, ioVars>>
  BY DEF TakePost, Begin, At, Collecting, bufferVars
<1>2. ASSUME NEW v \in Workers, v # w, NEW x \in Sessions
      PROVE  (Collecting(v, x)' <=> Collecting(v, x)) /\ wpacket'[v] = wpacket[v]
  BY <1>t, <1>1, <1>2 DEF Collecting, At
<1>3. wpc'[w] = "collect" /\ wsession'[w] = r /\ wpacket'[w] = Head(posts[r]) BY <1>t, <1>1
<1>4. \A x \in Sessions : ~Collecting(w, x) BY <1>1 DEF Collecting, At
<1>5. OnWire(s)' = OnWire(s) BY <1>1 DEF OnWire, ioVars
<1>6. CASE s # r
  <2>1. ~Collecting(w, s)' BY <1>3, <1>6 DEF Collecting
  <2>2. SameHands(s) BY <1>2, <1>4, <2>1 DEF SameHands
  <2>3. posts'[s] = posts[s] /\ raced'[s] = raced[s] BY <1>t, <1>1, <1>6
  <2> QED BY <1>1, <1>5, <2>2, <2>3, StillOrderly
<1>7. CASE s = r
  <2> SUFFICES ASSUME ~raced'[s] PROVE ~raced[s] /\ OneHand(s)' /\ Follows(s) BY DEF Orderly
  <2>1. ~raced[s] /\ \A v \in Workers : ~Collecting(v, s)
    BY <1>t, <1>1, <1>7
  <2>2. Carried(s) = <<>> BY <2>1, CarriedIs DEF CarriedByOne
  <2>3. Collecting(w, s)' /\ \A v \in Workers : Collecting(v, s)' => v = w
    BY <1>2, <1>3, <1>7, <2>1 DEF Collecting, At
  <2>4. OneHand(s)' BY <2>3 DEF OneHand
  <2>5. Carried(s)' = <<Head(posts[s])>>
    <3>1. CarriedByOne' BY CarriedIs, PTL
    <3> QED BY <1>3, <1>7, <2>3, <2>4, <3>1 DEF CarriedByOne
  <2> DEFINE q == OnWire(s) \o sendBuffer[s]
             h == <<Head(posts[s])>>
             p == Tail(posts[s])
  <2>6. /\ q \in Seq(Packets) /\ h \in Seq(Packets) /\ p \in Seq(Packets) /\ posts[s] = h \o p
    <3>1. posts[s] \in Seq(Packets) /\ q \in Seq(Packets) BY <1>c, QueueType, JoinedPackets
    <3> QED BY <1>1, <1>7, <3>1, HeadAndTail
  <2>7. posts'[s] = p BY <1>t, <1>1, <1>7
  <2>8. Queue(s) = (q \o <<>>) \o (h \o p) /\ Queue(s)' = (q \o h) \o p
    BY <1>1, <1>5, <2>2, <2>5, <2>6, <2>7 DEF Queue
  <2>9. Got(s)' = Got(s) BY <1>1 DEF Got
  <2> HIDE DEF q, h, p
  <2>10. q \o <<>> = q /\ (q \o h) \o p = q \o (h \o p) BY <2>6, JoinedPackets
  <2>11. Queue(s)' = Queue(s) BY <2>8, <2>10
  <2> QED BY <2>1, <2>4, <2>9, <2>11 DEF Follows
<1> QED BY <1>6, <1>7

LEMMA CollectOrderly ==
  ASSUME IInv, NEW s \in Sessions, NEW w \in Workers, CollectSendPacket(w)
  PROVE  Orderly(s)
<1>c. Types /\ Control BY DEF IInv
<1>t. /\ wpc \in [Workers -> Labels] /\ wsession \in [Workers -> Sessions \union {Nobody}]
      /\ wpacket \in [Workers -> Packets \union {Nobody}]
      /\ sendBuffer \in [Sessions -> Seq(Packets)]
  BY <1>c DEF Types, TypeOK
<1>1. /\ wpc[w] = "collect" /\ wpacket' = [wpacket EXCEPT ![w] = Nobody]
      /\ UNCHANGED <<raced, received, posts, ioVars>>
      /\ \/ /\ sendBuffer' = [sendBuffer EXCEPT ![wsession[w]] = Append(@, wpacket[w])]
            /\ Goto(w, "send_chk")
         \/ sendBuffer' = sendBuffer /\ Goto(w, "idle")
  BY DEF CollectSendPacket, At, historyVars
<1>2. wsession[w] \in Sessions /\ wpacket[w] \in Packets BY <1>c, <1>1, CollectHas
<1>3. PICK label \in Labels : label # "collect" /\ Goto(w, label) BY <1>1 DEF Labels
<1>4. OnWire(s)' = OnWire(s) BY <1>1 DEF OnWire, ioVars
<1>5. CASE s # wsession[w]
  <2>1. SameHands(s) BY <1>c, <1>1, <1>3, <1>5, GotoHands
  <2>2. sendBuffer'[s] = sendBuffer[s] BY <1>t, <1>1, <1>2, <1>5
  <2> QED BY <1>1, <1>4, <2>1, <2>2, StillOrderly
<1>6. CASE s = wsession[w]
  <2> SUFFICES ASSUME ~raced[s] PROVE OneHand(s)' /\ Follows(s) BY <1>1 DEF Orderly
  <2>1. OneHand(s) /\ Collecting(w, s) BY <1>1, <1>6 DEF IInv, InLine, Collecting, At
  <2>2. Carried(s) = <<wpacket[w]>> BY <2>1, CarriedIs DEF CarriedByOne
  <2>3. \A v \in Workers : ~Collecting(v, s)'
    <3> TAKE v \in Workers
    <3>1. CASE v = w
      <4>1. wpc'[w] = label BY <1>t, <1>3 DEF Goto
      <4> QED BY <1>3, <3>1, <4>1 DEF Collecting, At
    <3>2. CASE v # w
      <4>1. ~Collecting(v, s) BY <2>1, <3>2 DEF OneHand
      <4>2. wpc'[v] = wpc[v] /\ wsession'[v] = wsession[v] BY <1>t, <1>3, <3>2 DEF Goto
      <4> QED BY <4>1, <4>2 DEF Collecting, At
    <3> QED BY <3>1, <3>2
  <2>4. OneHand(s)' BY <2>3 DEF OneHand
  <2>5. Carried(s)' = <<>>
    <3>1. CarriedByOne' BY CarriedIs, PTL
    <3> QED BY <2>3, <3>1 DEF CarriedByOne
  <2> DEFINE o == OnWire(s)
             b == sendBuffer[s]
             x == <<wpacket[w]>>
             p == posts[s]
  <2>6. o \in Seq(Packets) /\ b \in Seq(Packets) /\ x \in Seq(Packets) /\ p \in Seq(Packets)
    BY <1>2, <1>c, QueueType
  <2>7. Got(s)' = Got(s) BY <1>1 DEF Got
  <2>8. Queue(s) = ((o \o b) \o x) \o p BY <2>2 DEF Queue
  <2>9. CASE sendBuffer' = [sendBuffer EXCEPT ![wsession[w]] = Append(@, wpacket[w])]
    <3>1. sendBuffer'[s] = b \o x
      <4>1. sendBuffer'[s] = Append(b, wpacket[w]) BY <1>t, <1>6, <2>9
      <4> QED BY <1>2, <2>6, <4>1, AppendIsConcat
    <3>2. Queue(s)' = ((o \o (b \o x)) \o <<>>) \o p BY <1>1, <1>4, <2>5, <3>1 DEF Queue
    <3> HIDE DEF o, b, x, p
    <3>3. o \o (b \o x) = (o \o b) \o x /\ (o \o b) \o x \in Seq(Packets) BY <2>6, JoinedPackets, SMTT(60)
    <3>4. ((o \o b) \o x) \o <<>> = (o \o b) \o x BY <3>3, JoinedPackets
    <3>5. Queue(s)' = Queue(s) BY <2>8, <3>2, <3>3, <3>4
    <3> QED BY <2>4, <2>7, <3>5 DEF Follows
  <2>10. CASE sendBuffer' = sendBuffer
    <3>1. Queue(s)' = ((o \o b) \o <<>>) \o p BY <1>1, <1>4, <2>5, <2>10 DEF Queue
    <3> HIDE DEF o, b, x, p
    <3>2. o \o b \in Seq(Packets) BY <2>6, JoinedPackets
    <3>3. Queue(s)' = (o \o b) \o p BY <3>1, <3>2, JoinedPackets
    <3> QED BY <2>4, <2>6, <2>7, <2>8, <3>2, <3>3 DEF Follows
  <2> QED BY <1>1, <2>9, <2>10
<1> QED BY <1>5, <1>6

LEMMA SendIOOrderly ==
  ASSUME IInv, NEW s \in Sessions, NEW w \in Workers, SendIO(w)
  PROVE  Orderly(s)
<1>c. Types /\ Control /\ FlagOwned BY DEF IInv
<1>t. /\ wpc \in [Workers -> Labels] /\ sendBuffer \in [Sessions -> Seq(Packets)]
      /\ wsabufs \in [Sessions -> Seq(Packets)]
      /\ sendOv \in [Sessions -> {"idle", "pending", "ok", "failed"}]
  BY <1>c DEF Types, TypeOK
<1>1. PICK a, b \in Seq(Packets) :
         /\ a = Batch(wsession[w]) /\ sendBuffer[wsession[w]] = a \o b
         /\ sendBuffer' = [sendBuffer EXCEPT ![wsession[w]] = b] /\ wsession[w] \in Sessions
  BY SendIOMoves
<1> DEFINE r == wsession[w]
<1>2. /\ wpc[w] = "send_io" /\ ~sendFlag[r] /\ UNCHANGED <<wpacket, raced, received, posts>>
      /\ \/ /\ sendOv' = [sendOv EXCEPT ![r] = "pending"]
            /\ wsabufs' = [wsabufs EXCEPT ![r] = a] /\ Goto(w, "idle")
         \/ UNCHANGED ioVars /\ (Goto(w, "cancel") \/ Goto(w, "fail_clear"))
  BY <1>1 DEF SendIO, At
<1>3. SameHands(s)
  <2>1. PICK label \in Labels : label # "collect" /\ Goto(w, label) BY <1>2 DEF Labels
  <2> QED BY <1>c, <1>2, <2>1, GotoHands
<1>4. CASE s # r
  <2>1. sendBuffer'[s] = sendBuffer[s] BY <1>t, <1>1, <1>4
  <2>2. OnWire(s)' = OnWire(s) BY <1>t, <1>1, <1>2, <1>4 DEF OnWire, ioVars
  <2> QED BY <1>2, <1>3, <2>1, <2>2, StillOrderly
<1>5. CASE s = r
  <2> SUFFICES ASSUME ~raced[s] PROVE OneHand(s)' /\ Follows(s) BY <1>2 DEF Orderly
  <2>1. OneHand(s)' /\ Carried(s)' = Carried(s) BY <1>3, SameHandsCarry
  <2>2. sendOv[s] = "idle" BY <1>c, <1>2, <1>5 DEF FlagOwned, FlagOwnedOf
  <2>3. OnWire(s) = <<>> BY <2>2 DEF OnWire
  <2>4. sendBuffer[s] = a \o b /\ sendBuffer'[s] = b BY <1>t, <1>1, <1>5
  <2>5. Got(s)' = Got(s) BY <1>2 DEF Got
  <2> DEFINE c == Carried(s)
             p == posts[s]
  <2>6. c \in Seq(Packets) /\ p \in Seq(Packets) BY <1>c, QueueType
  <2>7. Queue(s) = ((<<>> \o (a \o b)) \o c) \o p BY <2>3, <2>4 DEF Queue
  <2>8. CASE OnWire(s)' = a
    <3>1. Queue(s)' = ((a \o b) \o c) \o p BY <1>2, <2>1, <2>4, <2>8 DEF Queue
    <3> HIDE DEF c, p
    <3>2. a \o b \in Seq(Packets) /\ <<>> \o (a \o b) = a \o b BY JoinedPackets
    <3>3. Queue(s)' = Queue(s) BY <2>7, <3>1, <3>2
    <3> QED BY <2>1, <2>5, <3>3 DEF Follows
  <2>9. CASE OnWire(s)' = <<>>
    <3>1. Queue(s)' = ((<<>> \o b) \o c) \o p BY <1>2, <2>1, <2>4, <2>9 DEF Queue
    <3> HIDE DEF c, p
    <3> DEFINE bcp == (b \o c) \o p
    <3>2. /\ a \o b \in Seq(Packets) /\ b \o c \in Seq(Packets) /\ bcp \in Seq(Packets)
          /\ <<>> \o (a \o b) = a \o b /\ <<>> \o b = b /\ <<>> \o a = a
      BY <2>6, JoinedPackets
    <3>3. (a \o b) \o c = a \o (b \o c) BY <2>6, JoinedPackets
    <3>4. (a \o (b \o c)) \o p = a \o bcp
      <4> DEFINE bc == b \o c
      <4>1. bc \in Seq(Packets) BY <3>2
      <4> HIDE DEF bc
      <4>2. (a \o bc) \o p = a \o (bc \o p) BY <2>6, <4>1, JoinedPackets, SMTT(60)
      <4> QED BY <4>2 DEF bc
    <3>5. Queue(s) = (<<>> \o a) \o bcp BY <2>7, <3>2, <3>3, <3>4
    <3>6. Queue(s)' = bcp BY <3>1, <3>2
    <3> HIDE DEF bcp
    <3>7. Queue(s)' = <<>> \o bcp BY <3>2, <3>6, JoinedPackets
    <3> QED BY <2>1, <2>5, <3>2, <3>5, <3>7, JoinedPackets DEF Follows
  <2>10. OnWire(s)' = a \/ OnWire(s)' = <<>> BY <1>t, <1>1, <1>2, <1>5, <2>2 DEF OnWire, ioVars
  <2> QED BY <2>8, <2>9, <2>10
<1> QED BY <1>4, <1>5

LEMMA CompleteOrderly ==
  ASSUME IInv, NEW s \in Sessions, NEW r \in Sessions, SendComplete(r)
  PROVE  Orderly(s)
<1>c. Types /\ Control BY DEF IInv
<1>t. /\ wsabufs \in [Sessions -> Seq(Packets)] /\ received \in [Sessions -> Seq(Delivered)]
      /\ sendOv \in [Sessions -> {"idle", "pending", "ok", "failed"}]
  BY <1>c DEF Types, TypeOK
<1> DEFINE d == [i \in DOMAIN wsabufs[r] |-> Delivery(wsabufs[r][i])]
<1>1. /\ sendOv[r] = "pending" /\ UNCHANGED <<workerVars, raced, sendBuffer, posts, wsabufs>>
      /\ \/ /\ sendOv' = [sendOv EXCEPT ![r] = "ok"]
            /\ received' = [received EXCEPT ![r] = @ \o d]
         \/ sendOv' = [sendOv EXCEPT ![r] = "failed"] /\ received' = received
  BY DEF SendComplete, bufferVars
<1>2. d \in Seq(Delivered) BY <1>c, DeliveriesType
<1>3. [i \in DOMAIN d |-> d[i].serial] = Serials(message, wsabufs[r]) BY DEF Serials, Delivery
<1> HIDE DEF d
<1>4. SameHands(s) BY <1>1 DEF SameHands, Collecting, At, workerVars
<1>5. CASE s # r
  <2>1. received'[s] = received[s] BY <1>t, <1>1, <1>5
  <2>2. OnWire(s)' = OnWire(s) BY <1>t, <1>1, <1>5 DEF OnWire
  <2> QED BY <1>1, <1>4, <2>1, <2>2, StillOrderly
<1>6. CASE s = r
  <2> SUFFICES ASSUME ~raced[s] PROVE OneHand(s)' /\ Follows(s) BY <1>1 DEF Orderly
  <2>1. OneHand(s)' /\ Carried(s)' = Carried(s) BY <1>4, SameHandsCarry
  <2> DEFINE t == wsabufs[s]
             b == sendBuffer[s]
             c == Carried(s)
             p == posts[s]
             bcp == (b \o c) \o p
  <2>2. t \in Seq(Packets) /\ b \in Seq(Packets) /\ c \in Seq(Packets) /\ p \in Seq(Packets)
    BY <1>t, <1>c, QueueType
  <2>3. OnWire(s) = t /\ OnWire(s)' = <<>> BY <1>t, <1>1, <1>6 DEF OnWire
  <2>4. Queue(s) = ((t \o b) \o c) \o p /\ Queue(s)' = ((<<>> \o b) \o c) \o p
    BY <1>1, <2>1, <2>3 DEF Queue
  <2> HIDE DEF t, b, c, p
  <2>5. b \o c \in Seq(Packets) /\ bcp \in Seq(Packets) BY <2>2, JoinedPackets
  <2>6. (t \o b) \o c = t \o (b \o c) BY <2>2, JoinedPackets
  <2>7. (t \o (b \o c)) \o p = t \o bcp
    <3> DEFINE bc == b \o c
    <3>1. bc \in Seq(Packets) BY <2>5
    <3> HIDE DEF bc
    <3>2. (t \o bc) \o p = t \o (bc \o p) BY <2>2, <3>1, JoinedPackets, SMTT(60)
    <3> QED BY <3>2 DEF bc
  <2>8. Queue(s) = t \o bcp BY <2>4, <2>6, <2>7
  <2>9. Queue(s)' = bcp BY <2>2, <2>4, JoinedPackets
  <2> HIDE DEF bcp
  <2>10. CASE received' = received
    <3>1. Got(s)' = Got(s) BY <2>10 DEF Got
    <3>2. <<>> \o t = t /\ <<>> \o bcp = bcp /\ <<>> \in Seq(Packets) BY <2>2, <2>5, JoinedPackets
    <3>3. Queue(s) = (<<>> \o t) \o bcp /\ Queue(s)' = <<>> \o bcp BY <2>8, <2>9, <3>2
    <3> QED BY <2>1, <2>2, <2>5, <3>1, <3>2, <3>3 DEF Follows
  <2>11. CASE received' = [received EXCEPT ![r] = @ \o d]
    <3>1. received[s] \in Seq(Delivered) /\ received'[s] = received[s] \o d BY <1>t, <1>6, <2>11
    <3>2. Got(s)' = Got(s) \o Serials(message, t)
      <4>1. Got(s)' = [i \in DOMAIN (received[s] \o d) |-> (received[s] \o d)[i].serial]
        BY <3>1 DEF Got
      <4>2. \A x, y \in Seq(Delivered) :
               [i \in DOMAIN (x \o y) |-> (x \o y)[i].serial]
                 = [i \in DOMAIN x |-> x[i].serial] \o [i \in DOMAIN y |-> y[i].serial]
        BY NumbersJoin
      <4>3. Serials(message, t) = [i \in DOMAIN d |-> d[i].serial] BY <1>3, <1>6 DEF t
      <4> QED BY <1>2, <3>1, <4>1, <4>2, <4>3, ZenonT(60) DEF Got
    <3> QED BY <2>1, <2>2, <2>5, <2>8, <2>9, <3>2 DEF Follows
  <2> QED BY <1>1, <2>10, <2>11
<1> QED BY <1>5, <1>6

LEMMA ReleaseOrderly ==
  ASSUME IInv, NEW s \in Sessions, NEW r \in Sessions, Release(r)
  PROVE  Orderly(s)
<1>c. Types /\ Control BY DEF IInv
<1>t. sendBuffer \in [Sessions -> Seq(Packets)] BY <1>c DEF Types, TypeOK
<1>1. /\ UNCHANGED <<workerVars, raced, received, posts, ioVars>> /\ posts[r] = <<>>
      /\ sendOv[r] = "idle" /\ \A w \in Workers : wsession[w] # r
      /\ sendBuffer' = [sendBuffer EXCEPT ![r] = <<>>]
  BY DEF Release, Unreferenced, historyVars
<1>2. SameHands(s) BY <1>1 DEF SameHands, Collecting, At, workerVars
<1>3. OnWire(s)' = OnWire(s) BY <1>1 DEF OnWire, ioVars
<1>4. CASE s # r
  <2>1. sendBuffer'[s] = sendBuffer[s] BY <1>t, <1>1, <1>4
  <2> QED BY <1>1, <1>2, <1>3, <2>1, StillOrderly
<1>5. CASE s = r
  <2> SUFFICES ASSUME ~raced[s] PROVE OneHand(s)' /\ Follows(s) BY <1>1 DEF Orderly
  <2>1. OneHand(s)' /\ Carried(s)' = Carried(s) BY <1>2, SameHandsCarry
  <2>2. OnWire(s) = <<>> BY <1>1, <1>5 DEF OnWire
  <2>3. Carried(s) = <<>> BY <1>1, <1>5, CarriedIs DEF CarriedByOne, Collecting
  <2> DEFINE b == sendBuffer[s]
  <2>4. b \in Seq(Packets) BY <1>t
  <2>5. Queue(s) = ((<<>> \o b) \o <<>>) \o <<>> BY <1>1, <1>5, <2>2, <2>3 DEF Queue
  <2>6. Queue(s)' = ((<<>> \o <<>>) \o <<>>) \o <<>>
    <3>1. sendBuffer'[s] = <<>> BY <1>t, <1>1, <1>5
    <3> QED BY <1>1, <1>3, <1>5, <2>1, <2>2, <2>3, <3>1 DEF Queue
  <2>7. Got(s)' = Got(s) BY <1>1 DEF Got
  <2> HIDE DEF b
  <2>8. <<>> \o b = b /\ b \o <<>> = b /\ <<>> \in Seq(Packets) /\ <<>> \o <<>> = <<>>
    BY <2>4, JoinedPackets
  <2>9. Queue(s) = (<<>> \o b) \o <<>> BY <2>5, <2>8
  <2>10. Queue(s)' = <<>> \o <<>> BY <2>6, <2>8
  <2> QED BY <2>1, <2>4, <2>7, <2>8, <2>9, <2>10 DEF Follows
<1> QED BY <1>4, <1>5

LEMMA AcceptOrderly ==
  ASSUME IInv, NEW s \in Sessions, NEW r \in Sessions, Accept(r)
  PROVE  Orderly(s)
<1>c. Types /\ Control /\ DeadIsEmpty BY DEF IInv
<1>t. received \in [Sessions -> Seq(Delivered)] /\ raced \in [Sessions -> BOOLEAN]
  BY <1>c DEF Types
<1>1. /\ UNCHANGED <<workerVars, sendBuffer, posts, ioVars>> /\ released[r]
      /\ received' = [received EXCEPT ![r] = <<>>] /\ raced' = [raced EXCEPT ![r] = FALSE]
  BY DEF Accept, bufferVars
<1>2. SameHands(s) BY <1>1 DEF SameHands, Collecting, At, workerVars
<1>3. OnWire(s)' = OnWire(s) BY <1>1 DEF OnWire, ioVars
<1>4. CASE s # r
  <2>1. received'[s] = received[s] /\ raced'[s] = raced[s] BY <1>t, <1>1, <1>4
  <2> QED BY <1>1, <1>2, <1>3, <2>1, StillOrderly
<1>5. CASE s = r
  <2>1. IsEmpty(s) BY <1>c, <1>1, <1>5 DEF DeadIsEmpty
  <2>2. \A w \in Workers : ~Collecting(w, s)' BY <1>1, <2>1 DEF IsEmpty, Collecting, workerVars
  <2>3. OneHand(s)' BY <2>2 DEF OneHand
  <2>4. Carried(s)' = <<>>
    <3>1. CarriedByOne' BY CarriedIs, PTL
    <3> QED BY <2>2, <3>1 DEF CarriedByOne
  <2>5. OnWire(s) = <<>> /\ sendBuffer[s] = <<>> /\ posts[s] = <<>> BY <2>1 DEF IsEmpty, OnWire
  <2>6. Queue(s)' = ((<<>> \o <<>>) \o <<>>) \o <<>> BY <1>1, <1>3, <2>4, <2>5 DEF Queue
  <2>7. <<>> \o <<>> = <<>> BY JoinedPackets
  <2>8. Queue(s)' = <<>> BY <2>6, <2>7
  <2>9. Got(s)' = <<>> BY <1>t, <1>1, <1>5 DEF Got
  <2> QED BY <2>3, <2>8, <2>9 DEF Orderly, Follows
<1> QED BY <1>4, <1>5

LEMMA OrderlyStep == ASSUME IInv, Next, NEW s \in Sessions PROVE Orderly(s)
<1>nx. Next OBVIOUS
<1>c. Types /\ Control /\ DeadIsEmpty /\ FlagOwned BY DEF IInv
<1>t. /\ wpc \in [Workers -> Labels] /\ wsession \in [Workers -> Sessions \union {Nobody}]
      /\ wpacket \in [Workers -> Packets \union {Nobody}]
      /\ sendBuffer \in [Sessions -> Seq(Packets)]
      /\ posts \in [Sessions -> Seq(Packets)] /\ wsabufs \in [Sessions -> Seq(Packets)]
      /\ sendOv \in [Sessions -> {"idle", "pending", "ok", "failed"}]
      /\ received \in [Sessions -> Seq(Delivered)]
      /\ raced \in [Sessions -> BOOLEAN] /\ failed \in [Sessions -> BOOLEAN]
  BY <1>c DEF Types, TypeOK
<1>lab. {"idle", "send_chk", "send_io", "undo", "fail_clear", "clear", "cancel"} \subseteq Labels
  BY DEF Labels
<1>same. ASSUME UNCHANGED workerVars PROVE SameHands(s) BY <1>same DEF SameHands, Collecting, At, workerVars
<1>still. ASSUME UNCHANGED <<workerVars, raced, received, sendBuffer, posts, ioVars>> PROVE Orderly(s)
  <2>1. SameHands(s) BY <1>same, <1>still
  <2>2. OnWire(s)' = OnWire(s) BY <1>still DEF OnWire, ioVars
  <2> QED BY <1>still, <2>1, <2>2, StillOrderly
<1>goto. ASSUME NEW w \in Workers, NEW label \in Labels, Goto(w, label), label # "collect", wpc[w] # "collect",
               UNCHANGED <<wpacket, raced, received, sendBuffer, posts, ioVars>>
         PROVE  Orderly(s)
  <2>1. SameHands(s) BY <1>c, <1>goto, GotoHands
  <2>2. OnWire(s)' = OnWire(s) BY <1>goto DEF OnWire, ioVars
  <2> QED BY <1>goto, <2>1, <2>2, StillOrderly
<1>1. ASSUME NewPacket PROVE Orderly(s)
  BY <1>still, <1>1 DEF NewPacket, sessionVars, ioVars, bufferVars, historyVars
<1>2. ASSUME SendReqGone PROVE Orderly(s)
  BY <1>still, <1>2 DEF SendReqGone, sessionVars, ioVars, bufferVars, historyVars
<1>3. ASSUME SendReqHeader PROVE Orderly(s)
  BY <1>still, <1>3 DEF SendReqHeader, sessionVars, ioVars, bufferVars, historyVars
<1>4. ASSUME SendReqPost PROVE Orderly(s)
  BY <1>4, PostOrderly
<1>5. ASSUME SendEnd PROVE Orderly(s)
  BY <1>still, <1>5 DEF SendEnd, sessionVars, ioVars, bufferVars, historyVars
<1>6. ASSUME NEW w \in Workers, NEW r \in Sessions, TakePost(w, r) PROVE Orderly(s)
  BY <1>6, TakePostOrderly
<1>7. ASSUME NEW w \in Workers, NEW r \in Sessions, TakeSend(w, r) PROVE Orderly(s)
  <2>1. SameHands(s)
    <3>1. wpc' = [wpc EXCEPT ![w] = "clear"] /\ wsession' = [wsession EXCEPT ![w] = r]
          /\ wpacket' = wpacket /\ wpc[w] = "idle"
      BY <1>7 DEF TakeSend, Begin, At
    <3> QED BY <1>c, <1>lab, <3>1, OtherHands
  <2>2. OnWire(s)' = OnWire(s) BY <1>t, <1>7 DEF OnWire, TakeSend
  <2>3. UNCHANGED <<raced, received, sendBuffer, posts>> BY <1>7 DEF TakeSend
  <2> QED BY <2>1, <2>2, <2>3, StillOrderly
<1>8. ASSUME NEW w \in Workers, NEW r \in Sessions, TakeFailed(w, r) PROVE Orderly(s)
  <2>1. SameHands(s) BY <1>same, <1>8 DEF TakeFailed
  <2>2. OnWire(s)' = OnWire(s) BY <1>t, <1>8 DEF OnWire, TakeFailed
  <2>3. UNCHANGED <<raced, received, sendBuffer, posts>>
    BY <1>8 DEF TakeFailed, bufferVars, historyVars
  <2> QED BY <2>1, <2>2, <2>3, StillOrderly
<1>9. ASSUME NEW w \in Workers, CollectSendPacket(w) PROVE Orderly(s)
  BY <1>9, CollectOrderly
<1>10. ASSUME NEW w \in Workers, SendIOCheck(w) PROVE Orderly(s)
  BY <1>goto, <1>lab, <1>10 DEF SendIOCheck, At, sessionVars, bufferVars, historyVars
<1>11. ASSUME NEW w \in Workers, SendIOBusy(w) PROVE Orderly(s)
  BY <1>goto, <1>lab, <1>11 DEF SendIOBusy, At, sessionVars, bufferVars, historyVars
<1>12. ASSUME NEW w \in Workers, SendIOEmpty(w) PROVE Orderly(s)
  BY <1>goto, <1>lab, <1>12 DEF SendIOEmpty, At, sessionVars, bufferVars, historyVars
<1>13. ASSUME NEW w \in Workers, SendIO(w) PROVE Orderly(s)
  BY <1>13, SendIOOrderly
<1>14. ASSUME NEW w \in Workers, ClearSendFlag(w) PROVE Orderly(s)
  BY <1>goto, <1>lab, <1>14 DEF ClearSendFlag, At, sessionVars, bufferVars, historyVars
<1>15. ASSUME NEW w \in Workers, CancelIORegist(w) PROVE Orderly(s)
  BY <1>goto, <1>lab, <1>15 DEF CancelIORegist, At, sessionVars, bufferVars, historyVars
<1>16. ASSUME NEW r \in Sessions, SendComplete(r) PROVE Orderly(s)
  BY <1>16, CompleteOrderly
<1>17. ASSUME NEW r \in Sessions, DisconnectReq(r) PROVE Orderly(s)
  BY <1>still, <1>17 DEF DisconnectReq, sessionVars, ioVars, bufferVars, historyVars
<1>18. ASSUME NEW r \in Sessions, RecvEnds(r) PROVE Orderly(s)
  BY <1>still, <1>18 DEF RecvEnds, sessionVars, ioVars, bufferVars, historyVars
<1>19. ASSUME NEW r \in Sessions, Release(r) PROVE Orderly(s)
  BY <1>19, ReleaseOrderly
<1>20. ASSUME NEW r \in Sessions, Accept(r) PROVE Orderly(s)
  BY <1>20, AcceptOrderly
<1> QED
  BY <1>nx, <1>1, <1>2, <1>3, <1>4, <1>5, <1>6, <1>7, <1>8, <1>9, <1>10, <1>11, <1>12,
     <1>13, <1>14, <1>15, <1>16, <1>17, <1>18, <1>19, <1>20 DEF Next, Content, Worker, Life

LEMMA InLineStep ==
  ASSUME IInv, Next, Types', Control', Counted', SendedIsSent' PROVE InLine'
<1>c. Types /\ Control /\ Counted BY DEF IInv
<1>t. message \in [Packets -> Messages] /\ (cpc # "idle" => message[cpacket].serial = serial)
  BY <1>c DEF Types, IInv, InLine
<1>1. cpc' # "idle" => message'[cpacket'].serial = serial'
  <2>1. CASE NewPacket
    <3>1. PICK p \in pool, m \in Sends[serial + 1] :
             /\ message' = [message EXCEPT ![p] =
                    [serial |-> serial + 1, text |-> Text(serial + 1, m.size), copies |-> 0]]
             /\ cpacket' = p
      BY <2>1 DEF NewPacket
    <3>2. p \in Packets /\ serial' = serial + 1 BY <2>1, <1>c DEF NewPacket, Types, TypeOK
    <3> QED BY <1>t, <3>1, <3>2
  <2>2. CASE SendReqHeader
    <3>1. /\ message' = [message EXCEPT ![cpacket].copies = @ + 1]
          /\ cpacket' = cpacket /\ serial' = serial /\ cpc = "send"
      BY <2>2 DEF SendReqHeader
    <3>2. cpacket \in Packets BY <1>c, <3>1, ContentHas
    <3> QED BY <1>t, <3>1, <3>2 DEF Messages
  <2>3. CASE SendReqPost
    <3>1. message' = message /\ cpacket' = cpacket /\ serial' = serial /\ cpc = "encrypt"
      BY <2>3 DEF SendReqPost
    <3> QED BY <1>t, <3>1
  <2>4. CASE ~NewPacket /\ ~SendReqHeader /\ ~SendReqPost
    <3>1. Kept BY <2>4, WorkKeeps
    <3>2. serial' = serial /\ ((cpc' = cpc /\ cpacket' = cpacket) \/ cpc' = "idle")
      BY <2>4, ContentRests
    <3>3. cpc # "idle" => cpacket \in Packets BY <1>c, ContentHas
    <3> QED BY <1>t, <3>1, <3>2, <3>3 DEF Kept
  <2> QED BY <2>1, <2>2, <2>3, <2>4
<1>2. ASSUME NEW s \in Sessions, ~raced'[s]
      PROVE  OneHand(s)' /\ Fits(Line(s)', serial', Ahead(s)')
  <2>1. OneHand(s)' /\ Follows(s) /\ (~raced[s] \/ (Got(s)' = <<>> /\ Queue(s)' = <<>>))
    BY <1>2, OrderlyStep DEF Orderly
  <2> QED BY <2>1, FollowsFits
<1> QED BY <1>1, <1>2 DEF InLine, Fits

----------------------------------------------------------------------------
(* The invariant. *)

LEMMA InitInv == Init => IInv
<1> SUFFICES ASSUME Init PROVE IInv OBVIOUS
<1>n. Nobody \notin Sessions /\ Nobody \notin Packets BY PipelineAssumption
<1>e. <<>> \in Seq(Packets) /\ <<>> \in Seq(Delivered) /\ <<>> \in Seq(Sessions \X Nat)
      /\ <<>> \in Seq(Byte)
  OBVIOUS
<1>1. Types
  <2>1. TypeOK BY <1>e DEF Init, TypeOK
  <2>2. Plain(<<>>) \in Bodies BY <1>e, PlainType
  <2>3. NoMessage \in Messages BY <1>e DEF NoMessage, Messages
  <2> QED BY <1>e, <2>1, <2>2, <2>3 DEF Init, Types, Labels
<1>2. Control BY <1>n DEF Init, Control, At
<1>3. \A s \in Sessions : /\ InHand(s) = {} /\ Held(s) = {} /\ ~Ahead(s)
                          /\ \A w \in Workers : ~Collecting(w, s) /\ ~Clearing(w, s)
  <2> TAKE s \in Sessions
  <2>1. \A w \in Workers : ~Collecting(w, s) /\ ~Clearing(w, s)
    BY DEF Init, Collecting, Clearing, At
  <2>2. InHand(s) = {} BY <2>1 DEF InHand, Collecting
  <2>3. Held(s) = {} BY <2>2, EmptyRange DEF Init, Held
  <2>4. ~Ahead(s) BY DEF Init, Ahead
  <2> QED BY <2>1, <2>2, <2>3, <2>4
<1>4. OnePlace
  <2>1. OwnHands BY <1>n, <1>3 DEF Init, OwnHands, At
  <2>2. \A s \in Sessions : OnePlaceOf(s) BY <1>3, EmptyRange DEF Init, OnePlaceOf
  <2> QED BY <2>1, <2>2 DEF OnePlace
<1>5. \A p \in Packets : Holders(p) = {} BY <1>3 DEF Holders
<1>6. Counted
  <2>1. Cardinality({}) = 0 BY FS_EmptySet
  <2>2. \A p \in Packets : Cardinality(Holders(p)) = 0 BY <1>5, <2>1
  <2>3. \A p \in Packets : /\ cpacket # p /\ referenceCounter[p] = 0 /\ p \in pool
    BY <1>n DEF Init
  <2> QED BY <1>3, <2>2, <2>3 DEF Counted
<1>7. DeadIsEmpty BY DEF Init, DeadIsEmpty
<1>8. FlagOwned BY <1>3 DEF Init, FlagOwned, FlagOwnedOf
<1>9. SendedIsSent BY DEF Init, SendedIsSent, SendedOf
<1>10. BytesOfText BY <1>5 DEF Init, BytesOfText, ContentText, WireText, ReadText
<1>11. InLine
  <2> SUFFICES ASSUME NEW s \in Sessions PROVE OneHand(s) /\ Fits(Line(s), serial, Ahead(s))
    BY DEF Init, InLine
  <2>1. OneHand(s) BY <1>3 DEF OneHand
  <2>2. Carried(s) = <<>> BY <1>3, CarriedIs DEF CarriedByOne
  <2>3. OnWire(s) = <<>> /\ sendBuffer[s] = <<>> /\ posts[s] = <<>> BY DEF Init, OnWire
  <2>4. <<>> \o <<>> = <<>> BY JoinedPackets
  <2>5. Queue(s) = <<>> BY <2>2, <2>3, <2>4 DEF Queue
  <2>6. Got(s) = <<>> BY DEF Init, Got
  <2>7. Line(s) = <<>> BY <2>4, <2>5, <2>6 DEF Line, Serials
  <2> QED BY <2>1, <2>7, EmptyRange DEF Fits, Rising
<1> QED BY <1>1, <1>2, <1>4, <1>6, <1>7, <1>8, <1>9, <1>10, <1>11 DEF IInv

LEMMA StutterInv == ASSUME IInv, UNCHANGED vars PROVE IInv'
<1> USE DEF vars, packetVars, contentVars, sessionVars, lifeVars, bufferVars, ioVars,
            workerVars, historyVars
<1>1. Types' BY DEF IInv, Types, TypeOK
<1>2. Control' BY DEF IInv, Control, At
<1>3. \A s \in Sessions :
         /\ InHand(s)' = InHand(s) /\ Held(s)' = Held(s) /\ (Ahead(s)' <=> Ahead(s))
         /\ \A w \in Workers : /\ Collecting(w, s)' <=> Collecting(w, s)
                               /\ Clearing(w, s)' <=> Clearing(w, s)
  BY DEF InHand, Held, Ahead, Collecting, Clearing, At
<1>4. OnePlace' BY <1>3 DEF IInv, OnePlace, OwnHands, OnePlaceOf, At
<1>5. \A p \in Packets : Holders(p)' = Holders(p) BY <1>3 DEF Holders
<1>6. Counted' BY <1>3, <1>5 DEF IInv, Counted
<1>7. DeadIsEmpty' BY DEF IInv, DeadIsEmpty, IsEmpty, Target
<1>8. FlagOwned' BY <1>3 DEF IInv, FlagOwned, FlagOwnedOf
<1>9. SendedIsSent' BY <1>3 DEF IInv, SendedIsSent, SendedOf
<1>10. BytesOfText'
  <2>1. ContentText' BY DEF IInv, BytesOfText, ContentText, HeadedText
  <2>2. \A p \in Packets : WireText(p)' BY <1>5 DEF IInv, BytesOfText, WireText, EncryptedText
  <2>3. \A s \in Sessions : ReadText(s)' BY DEF IInv, BytesOfText, ReadText
  <2> QED BY <2>1, <2>2, <2>3 DEF BytesOfText
<1>11. InLine'
  <2>1. \A s \in Sessions : (OneHand(s)' <=> OneHand(s)) /\ Line(s)' = Line(s)
    <3> TAKE s \in Sessions
    <3>1. Carried(s)' = Carried(s) BY DEF Carried, Collecting, At
    <3>2. OnWire(s)' = OnWire(s) BY DEF OnWire
    <3>3. Queue(s)' = Queue(s) BY <3>1, <3>2 DEF Queue
    <3>4. Got(s)' = Got(s) BY DEF Got
    <3>5. Line(s)' = Line(s) BY <3>3, <3>4 DEF Line, Serials
    <3> QED BY <1>3, <3>5 DEF OneHand
  <2>2. cpc' # "idle" => message'[cpacket'].serial = serial' BY DEF IInv, InLine
  <2>3. ASSUME NEW s \in Sessions, ~raced'[s]
        PROVE  OneHand(s)' /\ Fits(Line(s)', serial', Ahead(s)')
    <3>1. OneHand(s) /\ Fits(Line(s), serial, Ahead(s)) BY <2>3 DEF IInv, InLine
    <3> QED BY <1>3, <2>1, <3>1 DEF Fits
  <2> QED BY <2>2, <2>3 DEF InLine, Fits
<1> QED BY <1>1, <1>2, <1>4, <1>6, <1>7, <1>8, <1>9, <1>10, <1>11 DEF IInv

LEMMA StepInv == ASSUME IInv, Next PROVE IInv'
<1>1. Types' BY TypesStep
<1>2. Control' BY <1>1, ControlStep
<1>3. OnePlace' BY OnePlaceStep
<1>4. Counted' BY CountedStep
<1>5. DeadIsEmpty' BY DeadStep
<1>6. FlagOwned' BY FlagStep
<1>7. SendedIsSent' BY <1>1, SendedStep
<1>8. BytesOfText' BY <1>1, <1>2, <1>4, BytesStep
<1>9. InLine' BY <1>1, <1>2, <1>4, <1>7, InLineStep
<1> QED BY <1>1, <1>2, <1>3, <1>4, <1>5, <1>6, <1>7, <1>8, <1>9 DEF IInv

\* The invariant holds: a packet is in one place of each session it is on its
\* way to, sendFlag and sendedBuffer belong to one send, the bytes are those of
\* the text, and a client's packets are in their order from the kernel to the
\* port.
THEOREM PipelineInvariant == Spec => []IInv
<1>1. IInv /\ [Next]_vars => IInv' BY StepInv, StutterInv
<1> QED BY <1>1, InitInv, PTL DEF Spec

----------------------------------------------------------------------------
(* The properties. *)

\* What is behind a sequence is a suffix.
LEMMA BehindIsSuffix ==
  ASSUME NEW S, NEW a \in Seq(S), NEW b \in Seq(S) PROVE IsSuffix(b, a \o b)
<1> DEFINE l == Len(a)
           k == Len(b)
           q == a \o b
           rb == Reverse(b)
           rq == Reverse(q)
<1>1. /\ l \in Nat /\ k \in Nat /\ Len(q) = l + k /\ q \in Seq(S)
      /\ \A i \in 1 .. l + k : q[i] = IF i <= l THEN a[i] ELSE b[i - l]
  BY ConcatProperties, LenProperties
<1>2. /\ \A i \in 1 .. k : b[i] \in S
      /\ \A i \in 1 .. l + k : q[i] \in S
  BY <1>1, ElementOfSeq
<1> HIDE DEF q
<1>3. /\ rb \in Seq(S) /\ Len(rb) = k /\ \A i \in 1 .. k : rb[i] = b[(k - i) + 1]
  <2>1. \A i \in 1 .. k : (k - i) + 1 \in 1 .. k BY <1>1
  <2>2. rb \in [1 .. k -> S] BY <1>2, <2>1 DEF Reverse
  <2>3. \A i \in 1 .. k : rb[i] = b[(k - i) + 1] BY DEF Reverse
  <2> QED BY <1>1, <2>2, <2>3, MapIsSeq
<1>4. /\ rq \in Seq(S) /\ Len(rq) = l + k
      /\ \A i \in 1 .. l + k : rq[i] = q[((l + k) - i) + 1]
  <2>1. \A i \in 1 .. l + k : ((l + k) - i) + 1 \in 1 .. l + k BY <1>1
  <2>2. rq \in [1 .. l + k -> S] BY <1>1, <1>2, <2>1 DEF Reverse
  <2>3. \A i \in 1 .. l + k : rq[i] = q[((l + k) - i) + 1] BY <1>1 DEF Reverse
  <2> QED BY <1>1, <2>2, <2>3, MapIsSeq
<1> HIDE DEF rb, rq, l, k
<1>5. \A i \in 1 .. k : rb[i] = rq[i]
  <2> TAKE i \in 1 .. k
  <2>1. i \in 1 .. l + k /\ ((l + k) - i) + 1 \in 1 .. l + k /\ ~(((l + k) - i) + 1 <= l)
        /\ (((l + k) - i) + 1) - l = (k - i) + 1
    BY <1>1
  <2> QED BY <1>1, <1>3, <1>4, <2>1
<1>6. SubSeq(rb, 1, k) = SubSeq(rq, 1, k)
  <2>1. k \in 0 .. Len(rb) /\ k \in 0 .. Len(rq) BY <1>1, <1>3, <1>4
  <2>2. /\ SubSeq(rb, 1, k) \in Seq(S) /\ Len(SubSeq(rb, 1, k)) = k
        /\ \A i \in 1 .. k : SubSeq(rb, 1, k)[i] = rb[i]
    BY <1>3, <2>1, CutSeq
  <2>3. /\ SubSeq(rq, 1, k) \in Seq(S) /\ Len(SubSeq(rq, 1, k)) = k
        /\ \A i \in 1 .. k : SubSeq(rq, 1, k)[i] = rq[i]
    BY <1>4, <2>1, CutSeq
  <2> QED BY <1>5, <2>2, <2>3, SeqEqual
<1>7. k <= l + k BY <1>1
<1>8. IsPrefix(rb, rq) BY <1>3, <1>4, <1>6, <1>7 DEF IsPrefix
<1> QED BY <1>8 DEF IsSuffix, rb, rq, q

\* A packet has one reference for the content thread while it sends it and one
\* for each session it is on its way to, where it is once; it is in the pool
\* when it has none.
THEOREM EveryReferenceIsCounted == Spec => []RefsExact
<1>1. IInv => RefsExact
  <2> SUFFICES ASSUME IInv PROVE RefsExact OBVIOUS
  <2>c. Types /\ OnePlace /\ Counted BY DEF IInv
  <2>1. ASSUME NEW s \in Sessions
        PROVE  /\ IsInjective(Waiting(s)) /\ Range(Waiting(s)) \intersect InHand(s) = {}
               /\ Range(Waiting(s)) \union InHand(s) = Held(s)
    <3> DEFINE a == sendedBuffer[s]
               b == sendBuffer[s]
               c == posts[s]
               ab == a \o b
    <3>1. a \in Seq(Packets) /\ b \in Seq(Packets) /\ c \in Seq(Packets)
      BY <2>c DEF Types, TypeOK
    <3>2. /\ IsInjective(a) /\ IsInjective(b) /\ IsInjective(c)
          /\ Range(a) \intersect Range(b) = {} /\ Range(a) \intersect Range(c) = {}
          /\ Range(b) \intersect Range(c) = {} /\ InHand(s) \intersect Range(a) = {}
          /\ InHand(s) \intersect Range(b) = {} /\ InHand(s) \intersect Range(c) = {}
      BY <2>c DEF OnePlace, OnePlaceOf
    <3>3. Held(s) = Range(a) \union Range(b) \union Range(c) \union InHand(s) BY DEF Held
    <3>4. Waiting(s) = ab \o c BY DEF Waiting
    <3> HIDE DEF a, b, c
    <3>5. ab \in Seq(Packets) /\ Range(ab) = Range(a) \union Range(b) /\ IsInjective(ab)
      BY <3>1, <3>2, JoinedSets, JoinedPackets
    <3> HIDE DEF ab
    <3>6. Range(ab) \intersect Range(c) = {} BY <3>2, <3>5
    <3>7. Range(ab \o c) = Range(ab) \union Range(c) /\ IsInjective(ab \o c)
      BY <3>1, <3>2, <3>5, <3>6, JoinedSets
    <3>8. Range(Waiting(s)) \intersect InHand(s) = {} BY <3>2, <3>4, <3>5, <3>7
    <3>9. Range(Waiting(s)) \union InHand(s) = Held(s) BY <3>3, <3>4, <3>5, <3>7
    <3> QED BY <3>4, <3>7, <3>8, <3>9
  <2>2. \A p \in Packets :
           {s \in Sessions : p \in Range(Waiting(s)) \union InHand(s)} = Holders(p)
    BY <2>1 DEF Holders
  <2> QED BY <2>c, <2>1, <2>2 DEF RefsExact, Types, Counted
<1> QED BY <1>1, PipelineInvariant, PTL

\* What the kernel may read is not in the pool, and is what sendedBuffer ends with.
THEOREM PendingIsNotFreed == Spec => []PendingSendIsIntact
<1>1. IInv => PendingSendIsIntact
  <2> SUFFICES ASSUME IInv, NEW s \in Sessions, sendOv[s] = "pending"
               PROVE  /\ Range(wsabufs[s]) \intersect pool = {}
                      /\ IsSuffix(wsabufs[s], sendedBuffer[s])
    BY DEF PendingSendIsIntact
  <2>c. Types /\ Counted /\ SendedIsSent BY DEF IInv
  <2>1. \A i \in DOMAIN wsabufs[s] : wsabufs[s][i] \notin pool
    <3> TAKE i \in DOMAIN wsabufs[s]
    <3>1. wsabufs[s][i] \in Held(s) /\ wsabufs[s][i] \in Packets BY <2>c, SentIsHeld
    <3> QED BY <2>c, <3>1, HeldHasHolder, HeldIsCounted
  <2>2. PICK a \in Seq(Packets) : sendedBuffer[s] = a \o wsabufs[s]
    BY <2>c DEF SendedIsSent, SendedOf
  <2>3. wsabufs[s] \in Seq(Packets) BY <2>c DEF Types, TypeOK
  <2>4. IsSuffix(wsabufs[s], sendedBuffer[s]) BY <2>2, <2>3, BehindIsSuffix
  <2> QED BY <2>1, <2>4 DEF Range
<1> QED BY <1>1, PipelineInvariant, PTL

\* sended() pops what the WSASend took and its count does not wrap, unless a
\* WSASend of the session failed other than by a reset.
THEOREM SendedPopsTheBatch == Spec => []SendedPopsWhatWasSent
<1>1. IInv => SendedPopsWhatWasSent BY DEF IInv, SendedIsSent, SendedOf, SendedPopsWhatWasSent
<1> QED BY <1>1, PipelineInvariant, PTL

\* A client reads the text of a packet that one sendReq was made for.
THEOREM ClientReadsTheText == Spec => []ClientReadsUnlessBroadcast
<1>1. IInv => ClientReadsUnlessBroadcast
  BY DEF IInv, BytesOfText, ReadText, ClientReadsUnlessBroadcast
<1> QED BY <1>1, PipelineInvariant, PTL

\* A client gets its packets in their order, unless two workers had posts of
\* it in hand at once.
THEOREM ClientGetsInOrder == Spec => []InOrderUnlessRaced
<1>1. IInv => InOrderUnlessRaced
  <2> SUFFICES ASSUME IInv, NEW s \in Sessions, ~raced[s],
                      NEW i \in DOMAIN received[s], NEW j \in DOMAIN received[s], i < j
               PROVE  received[s][i].serial < received[s][j].serial
    BY DEF InOrderUnlessRaced
  <2>1. Rising(Line(s)) BY DEF IInv, InLine, Fits
  <2>2. Got(s) \in Seq(Nat) /\ Serials(message, Queue(s)) \in Seq(Nat)
    BY QueueType, SerialsType DEF IInv, Types
  <2>3. Rising(Got(s)) BY <2>1, <2>2, JoinedRising DEF Line
  <2> QED BY <2>3 DEF Rising, Got
<1> QED BY <1>1, PipelineInvariant, PTL
================================================================================
