---------------------------- MODULE SequenceLemmas ----------------------------
(***************************************************************************)
(* Facts about sequences that the proofs of several components need: what  *)
(* is in a sequence that is cut, joined, or extended by an element, and    *)
(* when nothing is in it twice.                                            *)
(***************************************************************************)
EXTENDS SequencesExt, SequenceTheorems, WellFoundedInduction, TLAPS

\* A set of numbers that is not empty has a smallest one.
LEMMA LeastExists == ASSUME NEW T \in SUBSET Nat, T # {}
                  PROVE \E n \in T : \A m \in T : n <= m
<1> DEFINE R == {ss \in Nat \X Nat : ss[1] < ss[2]}
<1>1. IsWellFoundedOn(R, Nat) BY NatLessThanWellFounded DEF OpToRel
<1>2. PICK n \in T : \A m \in T : ~ (<<m, n>> \in R)
  <2> HIDE DEF R
  <2> QED BY <1>1, WFMin
<1>3. \A m \in T : ~(m < n) BY <1>2
<1> QED BY <1>3

\* Two sequences joined hold what each holds, each thing once if nothing is
\* twice in one of them or in both.
LEMMA JoinedSeq ==
  ASSUME NEW S, NEW a \in Seq(S), NEW b \in Seq(S)
  PROVE  /\ a \o b \in Seq(S) /\ Len(a \o b) = Len(a) + Len(b)
         /\ Range(a \o b) = Range(a) \union Range(b)
         /\ IsInjective(a \o b) <=>
               IsInjective(a) /\ IsInjective(b) /\ Range(a) \intersect Range(b) = {}
<1>1. /\ a \o b \in Seq(S) /\ Len(a \o b) = Len(a) + Len(b)
      /\ Len(a) \in Nat /\ Len(b) \in Nat
      /\ DOMAIN a = 1 .. Len(a) /\ DOMAIN b = 1 .. Len(b)
      /\ DOMAIN (a \o b) = 1 .. Len(a) + Len(b)
      /\ \A i \in 1 .. Len(a) : (a \o b)[i] = a[i]
      /\ \A i \in 1 .. Len(b) : (a \o b)[Len(a) + i] = b[i]
  BY ConcatProperties, LenProperties
<1>2. Range(a \o b) = Range(a) \union Range(b) BY RangeConcatenation
<1>3. ASSUME IsInjective(a \o b)
      PROVE  IsInjective(a) /\ IsInjective(b) /\ Range(a) \intersect Range(b) = {}
  <2>1. ASSUME NEW i \in DOMAIN a, NEW j \in DOMAIN a, a[i] = a[j] PROVE i = j
    <3>1. i \in DOMAIN (a \o b) /\ j \in DOMAIN (a \o b) BY <1>1
    <3>2. (a \o b)[i] = (a \o b)[j] BY <1>1, <2>1
    <3> QED BY <1>3, <3>1, <3>2 DEF IsInjective
  <2>2. ASSUME NEW i \in DOMAIN b, NEW j \in DOMAIN b, b[i] = b[j] PROVE i = j
    <3>1. Len(a) + i \in DOMAIN (a \o b) /\ Len(a) + j \in DOMAIN (a \o b) BY <1>1
    <3>2. (a \o b)[Len(a) + i] = (a \o b)[Len(a) + j] BY <1>1, <2>2
    <3>3. Len(a) + i = Len(a) + j BY <1>3, <3>1, <3>2 DEF IsInjective
    <3> QED BY <1>1, <3>3
  <2>3. ASSUME NEW i \in DOMAIN a, NEW j \in DOMAIN b, a[i] = b[j] PROVE FALSE
    <3>1. i \in DOMAIN (a \o b) /\ Len(a) + j \in DOMAIN (a \o b) BY <1>1
    <3>2. (a \o b)[i] = (a \o b)[Len(a) + j] BY <1>1, <2>3
    <3>3. i = Len(a) + j BY <1>3, <3>1, <3>2 DEF IsInjective
    <3> QED BY <1>1, <3>3
  <2> QED BY <2>1, <2>2, <2>3 DEF IsInjective, Range
<1>4. ASSUME IsInjective(a), IsInjective(b), Range(a) \intersect Range(b) = {},
             NEW i \in DOMAIN (a \o b), NEW j \in DOMAIN (a \o b), (a \o b)[i] = (a \o b)[j]
      PROVE  i = j
  <2> DEFINE la == Len(a)
  <2>1. \A k \in DOMAIN (a \o b) :
          \/ k \in DOMAIN a /\ (a \o b)[k] = a[k]
          \/ k - la \in DOMAIN b /\ (a \o b)[k] = b[k - la]
    <3> SUFFICES ASSUME NEW k \in DOMAIN (a \o b), k \notin DOMAIN a
                 PROVE  k - la \in DOMAIN b /\ (a \o b)[k] = b[k - la]
      BY <1>1
    <3>1. k - la \in 1 .. Len(b) /\ Len(a) + (k - la) = k BY <1>1
    <3> QED BY <1>1, <3>1
  <2>2. i \in Int /\ j \in Int /\ la \in Int BY <1>1
  <2>3. \A k \in DOMAIN a, l \in DOMAIN b : a[k] # b[l] BY <1>4 DEF Range
  <2>4. CASE i \in DOMAIN a /\ (a \o b)[i] = a[i]
    <3>1. j \in DOMAIN a /\ (a \o b)[j] = a[j] BY <1>4, <2>1, <2>3, <2>4
    <3> QED BY <1>4, <2>4, <3>1 DEF IsInjective
  <2>5. CASE i - la \in DOMAIN b /\ (a \o b)[i] = b[i - la]
    <3>1. j - la \in DOMAIN b /\ (a \o b)[j] = b[j - la] BY <1>4, <2>1, <2>3, <2>5
    <3>2. i - la = j - la BY <1>4, <2>5, <3>1 DEF IsInjective
    <3> QED BY <2>2, <3>2
  <2> QED BY <2>1, <2>4, <2>5
<1> QED BY <1>1, <1>2, <1>3, <1>4 DEF IsInjective

LEMMA JoinedSets ==
  ASSUME NEW S, NEW a \in Seq(S), NEW b \in Seq(S)
  PROVE  /\ Range(a \o b) = Range(a) \union Range(b)
         /\ IsInjective(a \o b) <=>
               IsInjective(a) /\ IsInjective(b) /\ Range(a) \intersect Range(b) = {}
BY JoinedSeq, SMT

\* An element behind a sequence.
LEMMA AppendedSets ==
  ASSUME NEW S, NEW s \in Seq(S), NEW e \in S
  PROVE  /\ Range(Append(s, e)) = Range(s) \union {e}
         /\ IsInjective(Append(s, e)) <=> IsInjective(s) /\ e \notin Range(s)
<1> DEFINE one == <<e>>
<1>1. one \in Seq(S) /\ Range(one) = {e} /\ IsInjective(one) BY DEF Range, IsInjective
<1>2. Append(s, e) = s \o one BY AppendIsConcat
<1> HIDE DEF one
<1>3. /\ Range(s \o one) = Range(s) \union Range(one)
      /\ IsInjective(s \o one) <=>
            IsInjective(s) /\ IsInjective(one) /\ Range(s) \intersect Range(one) = {}
  BY <1>1, JoinedSets
<1>4. Range(s) \intersect {e} = {} <=> e \notin Range(s) OBVIOUS
<1>5. IsInjective(Append(s, e)) <=> IsInjective(s) /\ e \notin Range(s) BY <1>1, <1>2, <1>3, <1>4
<1>6. Range(Append(s, e)) = Range(s) \union {e} BY <1>1, <1>2, <1>3
<1> QED BY <1>5, <1>6

\* A sequence cut in two.
LEMMA CutSeq ==
  ASSUME NEW S, NEW s \in Seq(S), NEW n \in 0 .. Len(s)
  PROVE  /\ SubSeq(s, 1, n) \in Seq(S) /\ SubSeq(s, n + 1, Len(s)) \in Seq(S)
         /\ Len(SubSeq(s, 1, n)) = n /\ Len(SubSeq(s, n + 1, Len(s))) = Len(s) - n
         /\ s = SubSeq(s, 1, n) \o SubSeq(s, n + 1, Len(s))
         /\ \A i \in 1 .. n : SubSeq(s, 1, n)[i] = s[i]
         /\ \A i \in 1 .. Len(s) - n : SubSeq(s, n + 1, Len(s))[i] = s[n + i]
<1>1. Len(s) \in Nat /\ \A i \in 1 .. Len(s) : s[i] \in S BY LenProperties
<1>2. \A i \in 1 .. n : s[i] \in S BY <1>1
<1>3. \A i \in n + 1 .. Len(s) : s[i] \in S BY <1>1
<1>4. /\ SubSeq(s, 1, n) \in Seq(S)
      /\ Len(SubSeq(s, 1, n)) = IF 1 <= n THEN n - 1 + 1 ELSE 0
      /\ \A i \in 1 .. n - 1 + 1 : SubSeq(s, 1, n)[i] = s[1 + i - 1]
  BY <1>1, <1>2, SubSeqProperties
<1>5. /\ SubSeq(s, n + 1, Len(s)) \in Seq(S)
      /\ Len(SubSeq(s, n + 1, Len(s))) =
            IF n + 1 <= Len(s) THEN Len(s) - (n + 1) + 1 ELSE 0
      /\ \A i \in 1 .. Len(s) - (n + 1) + 1 : SubSeq(s, n + 1, Len(s))[i] = s[n + 1 + i - 1]
  BY <1>1, <1>3, SubSeqProperties
<1>6. s = SubSeq(s, 1, n) \o SubSeq(s, n + 1, Len(s))
  <2>1. 1 \in 1 .. Len(s) + 1 /\ n \in 1 - 1 .. Len(s) /\ Len(s) \in n .. Len(s) BY <1>1
  <2>2. SubSeq(s, 1, n) \o SubSeq(s, n + 1, Len(s)) = SubSeq(s, 1, Len(s))
    BY <2>1, ConcatAdjacentSubSeq
  <2> QED BY <2>2, SubSeqFull
<1> DEFINE a == SubSeq(s, 1, n)
           b == SubSeq(s, n + 1, Len(s))
           l == Len(s)
<1>7. Len(a) = n /\ \A i \in 1 .. n : a[i] = s[i]
  <2> HIDE DEF a
  <2>1. n - 1 + 1 = n /\ (IF 1 <= n THEN n - 1 + 1 ELSE 0) = n /\ n \in Nat BY <1>1
  <2>2. Len(a) = n BY <1>4, <2>1 DEF a
  <2>3. ASSUME NEW i \in 1 .. n PROVE a[i] = s[i]
    <3>1. 1 + i - 1 = i BY <2>1
    <3>2. a[i] = s[1 + i - 1] BY <1>4, <2>1 DEF a
    <3> QED BY <3>1, <3>2
  <2> QED BY <2>2, <2>3
<1>8. Len(b) = l - n /\ \A i \in 1 .. l - n : b[i] = s[n + i]
  <2>1. l \in Nat /\ n \in 0 .. l BY <1>1
  <2>2. /\ Len(b) = IF n + 1 <= l THEN l - (n + 1) + 1 ELSE 0
        /\ \A i \in 1 .. l - (n + 1) + 1 : b[i] = s[n + 1 + i - 1]
    BY <1>5
  <2> HIDE DEF b, l
  <2>3. l - (n + 1) + 1 = l - n BY <2>1
  <2>4. Len(b) = l - n BY <2>1, <2>2
  <2>5. ASSUME NEW i \in 1 .. l - n PROVE b[i] = s[n + i]
    <3>1. n + 1 + i - 1 = n + i BY <2>1
    <3>2. b[i] = s[n + 1 + i - 1] BY <2>2, <2>3
    <3> QED BY <3>1, <3>2
  <2> QED BY <2>4, <2>5
<1> QED BY <1>4, <1>5, <1>6, <1>7, <1>8

\* The first element and the rest.
LEMMA HeadAndTail ==
  ASSUME NEW S, NEW s \in Seq(S), s # <<>>
  PROVE  /\ Head(s) \in S /\ Tail(s) \in Seq(S) /\ Head(s) = s[1] /\ Len(s) > 0
         /\ Len(Tail(s)) = Len(s) - 1 /\ \A i \in 1 .. Len(Tail(s)) : Tail(s)[i] = s[i + 1]
         /\ s = <<Head(s)>> \o Tail(s)
         /\ Range(s) = {Head(s)} \union Range(Tail(s))
         /\ IsInjective(s) <=> IsInjective(Tail(s)) /\ Head(s) \notin Range(Tail(s))
<1>1. /\ Head(s) \in S /\ Tail(s) \in Seq(S) /\ Head(s) = s[1] /\ Len(s) \in Nat \ {0}
      /\ Len(Tail(s)) = Len(s) - 1 /\ \A i \in 1 .. Len(Tail(s)) : Tail(s)[i] = s[i + 1]
  BY HeadTailProperties, EmptySeq
<1>2. s = <<Head(s)>> \o Tail(s)
  <2>1. 1 \in 1 .. Len(s) /\ Len(s) \in 1 .. Len(s) BY <1>1
  <2>2. SubSeq(s, 1, Len(s)) = <<s[1]>> \o SubSeq(s, 1 + 1, Len(s))
    BY <2>1, SubSeqRecursiveFirst
  <2>3. Tail(s) = SubSeq(s, 2, Len(s)) BY TailIsSubSeq
  <2> QED BY <1>1, <2>2, <2>3, SubSeqFull
<1>3. <<Head(s)>> \in Seq(S) /\ Range(<<Head(s)>>) = {Head(s)} /\ IsInjective(<<Head(s)>>)
  BY <1>1 DEF Range, IsInjective
<1>4. Len(s) > 0 BY <1>1
<1> DEFINE one  == <<Head(s)>>
           rest == Tail(s)
<1>5. one \in Seq(S) /\ Range(one) = {Head(s)} /\ IsInjective(one) /\ rest \in Seq(S)
      /\ s = one \o rest
  BY <1>1, <1>2, <1>3
<1> HIDE DEF one, rest
<1>6. /\ Range(one \o rest) = Range(one) \union Range(rest)
      /\ IsInjective(one \o rest) <=>
            IsInjective(one) /\ IsInjective(rest) /\ Range(one) \intersect Range(rest) = {}
  BY <1>5, JoinedSeq
<1>7. {Head(s)} \intersect Range(rest) = {} <=> Head(s) \notin Range(rest) OBVIOUS
<1>8. IsInjective(s) <=> IsInjective(rest) /\ Head(s) \notin Range(rest) BY <1>5, <1>6, <1>7
<1>9. Range(s) = {Head(s)} \union Range(rest) BY <1>5, <1>6
<1> QED BY <1>1, <1>2, <1>4, <1>8, <1>9 DEF rest

LEMMA EmptyRange == Range(<<>>) = {} /\ IsInjective(<<>>)
BY DEF Range, IsInjective

\* All but the last element, and the last.
LEMMA FrontAndLast ==
  ASSUME NEW S, NEW s \in Seq(S), s # <<>>
  PROVE  /\ Front(s) \in Seq(S) /\ Last(s) \in S /\ s = Front(s) \o <<Last(s)>>
         /\ Range(s) = Range(Front(s)) \union {Last(s)}
         /\ IsInjective(s) <=> IsInjective(Front(s)) /\ Last(s) \notin Range(Front(s))
<1> DEFINE n == Len(s) - 1
           a == SubSeq(s, 1, n)
           b == SubSeq(s, n + 1, Len(s))
<1>1. Len(s) \in Nat \ {0} /\ n \in 0 .. Len(s) /\ Len(s) - n = 1 /\ n + 1 = Len(s)
  BY EmptySeq, LenProperties
<1>2. /\ a \in Seq(S) /\ b \in Seq(S) /\ Len(b) = Len(s) - n /\ s = a \o b
      /\ \A i \in 1 .. Len(s) - n : b[i] = s[n + i]
  BY <1>1, CutSeq, ZenonT(60)
<1>3. Front(s) = a /\ Last(s) = s[Len(s)] BY DEF Front, Last
<1>4. Last(s) \in S BY <1>1, <1>3, ElementOfSeq
<1> HIDE DEF a, b
<1>5. b = <<Last(s)>>
  <2> HIDE DEF n
  <2>1. 1 \in 1 .. Len(s) - n /\ n + 1 = Len(s) /\ Len(s) - n = 1 BY <1>1
  <2>2. b[1] = s[n + 1] /\ Len(b) = 1 BY <1>2, <2>1
  <2>3. b[1] = Last(s) BY <1>3, <2>1, <2>2
  <2>4. <<Last(s)>> \in Seq(S) /\ Len(<<Last(s)>>) = 1 /\ <<Last(s)>>[1] = Last(s) BY <1>4
  <2>5. \A i \in 1 .. 1 : b[i] = <<Last(s)>>[i] BY <2>3
  <2> QED BY <1>2, <2>2, <2>4, <2>5, SeqEqual
<1>6. Append(a, Last(s)) = s BY <1>2, <1>4, <1>5, AppendIsConcat
<1>7. /\ Range(Append(a, Last(s))) = Range(a) \union {Last(s)}
      /\ IsInjective(Append(a, Last(s))) <=> IsInjective(a) /\ Last(s) \notin Range(a)
  BY <1>2, <1>4, AppendedSets
<1> QED BY <1>2, <1>3, <1>4, <1>5, <1>6, <1>7

\* What a sequence is extended by does not change what it begins with.
LEMMA JoinedPrefix ==
  ASSUME NEW S, NEW a \in Seq(S), NEW b \in Seq(S) PROVE IsPrefix(a, a \o b)
<1> DEFINE l == Len(a)
           q == a \o b
<1>1. /\ l \in Nat /\ q \in Seq(S) /\ Len(q) = l + Len(b) /\ Len(b) \in Nat
      /\ \A i \in 1 .. l + Len(b) : q[i] = IF i <= l THEN a[i] ELSE b[i - l]
  BY ConcatProperties, LenProperties
<1> HIDE DEF q
<1>2. l \in 0 .. Len(a) /\ l \in 0 .. Len(q) BY <1>1
<1>3. /\ SubSeq(a, 1, l) \in Seq(S) /\ Len(SubSeq(a, 1, l)) = l
      /\ \A i \in 1 .. l : SubSeq(a, 1, l)[i] = a[i]
  BY <1>2, CutSeq
<1>4. /\ SubSeq(q, 1, l) \in Seq(S) /\ Len(SubSeq(q, 1, l)) = l
      /\ \A i \in 1 .. l : SubSeq(q, 1, l)[i] = q[i]
  BY <1>1, <1>2, CutSeq
<1>5. \A i \in 1 .. l : q[i] = a[i] BY <1>1
<1>6. SubSeq(a, 1, l) = SubSeq(q, 1, l) BY <1>3, <1>4, <1>5, SeqEqual
<1>7. l <= Len(q) BY <1>1
<1> QED BY <1>6, <1>7 DEF IsPrefix, q

----------------------------------------------------------------------------
(* What f makes of each element. *)
Mapped(f, q) == [i \in DOMAIN q |-> f[q[i]]]

LEMMA MappedType ==
  ASSUME NEW D, NEW R, NEW f, \A x \in D : f[x] \in R, NEW q \in Seq(D)
  PROVE  Mapped(f, q) \in Seq(R) /\ Len(Mapped(f, q)) = Len(q)
<1>1. Len(q) \in Nat /\ DOMAIN q = 1 .. Len(q) /\ \A i \in 1 .. Len(q) : q[i] \in D
  BY LenProperties, ElementOfSeq
<1>2. Mapped(f, q) \in [1 .. Len(q) -> R] BY <1>1 DEF Mapped
<1>3. ASSUME NEW n \in Nat, NEW g \in [1 .. n -> R] PROVE g \in Seq(R) /\ Len(g) = n OBVIOUS
<1> QED BY <1>1, <1>2, <1>3

LEMMA MappedJoin ==
  ASSUME NEW D, NEW f, NEW a \in Seq(D), NEW b \in Seq(D)
  PROVE  Mapped(f, a \o b) = Mapped(f, a) \o Mapped(f, b)
<1> DEFINE l == Len(a)
           k == Len(b)
           R  == {f[x] : x \in D}
           fa == Mapped(f, a)
           fb == Mapped(f, b)
           fq == Mapped(f, a \o b)
<1>1. /\ l \in Nat /\ k \in Nat /\ a \o b \in Seq(D) /\ Len(a \o b) = l + k
      /\ \A i \in 1 .. l + k : (a \o b)[i] = IF i <= l THEN a[i] ELSE b[i - l]
      /\ DOMAIN a = 1 .. l /\ DOMAIN b = 1 .. k /\ DOMAIN (a \o b) = 1 .. l + k
  BY ConcatProperties, LenProperties
<1>2. /\ fa \in Seq(R) /\ Len(fa) = l /\ fb \in Seq(R) /\ Len(fb) = k
      /\ fq \in Seq(R) /\ Len(fq) = l + k
  <2>0. \A x \in D : f[x] \in R OBVIOUS
  <2> HIDE DEF R
  <2>1. fa \in Seq(R) /\ Len(fa) = l BY <2>0, MappedType
  <2>2. fb \in Seq(R) /\ Len(fb) = k BY <2>0, MappedType
  <2> DEFINE q == a \o b
             m == Mapped(f, q)
  <2>3. q \in Seq(D) BY <1>1
  <2> HIDE DEF q
  <2>4. m \in Seq(R) /\ Len(m) = Len(q)
    <3>1. Len(q) \in Nat /\ DOMAIN q = 1 .. Len(q) /\ \A i \in 1 .. Len(q) : q[i] \in D
      BY <2>3, LenProperties, ElementOfSeq
    <3>2. m \in [1 .. Len(q) -> R] BY <2>0, <3>1 DEF Mapped
    <3>3. ASSUME NEW n \in Nat, NEW g \in [1 .. n -> R] PROVE g \in Seq(R) /\ Len(g) = n OBVIOUS
    <3> HIDE DEF m
    <3> QED BY <3>1, <3>2, <3>3
  <2> QED BY <1>1, <2>1, <2>2, <2>4 DEF q
<1>3. /\ \A i \in 1 .. l : fa[i] = f[a[i]]
      /\ \A i \in 1 .. k : fb[i] = f[b[i]]
      /\ \A i \in 1 .. l + k : fq[i] = f[(a \o b)[i]]
  BY <1>1 DEF Mapped
<1> HIDE DEF R, l, k, fa, fb, fq
<1>4. /\ fa \o fb \in Seq(R) /\ Len(fa \o fb) = l + k
      /\ \A i \in 1 .. l + k : (fa \o fb)[i] = IF i <= l THEN fa[i] ELSE fb[i - l]
  BY <1>2, ConcatProperties
<1>5. ASSUME NEW i \in 1 .. l + k PROVE fq[i] = (fa \o fb)[i]
  <2>1. CASE i <= l
    <3>1. i \in 1 .. l BY <1>1, <2>1
    <3>2. fa[i] = f[a[i]] BY <1>3, <3>1
    <3>3. (a \o b)[i] = a[i] BY <1>1, <2>1
    <3>4. fq[i] = f[a[i]] BY <1>3, <3>3
    <3>5. (fa \o fb)[i] = fa[i] BY <1>4, <2>1
    <3> QED BY <3>2, <3>4, <3>5
  <2>2. CASE ~(i <= l)
    <3>1. i - l \in 1 .. k BY <1>1, <2>2
    <3> QED BY <1>1, <1>3, <1>4, <2>2, <3>1, SMTT(60)
  <2> QED BY <2>1, <2>2
<1>6. fq = fa \o fb BY <1>2, <1>4, <1>5, SeqEqual
<1> QED BY <1>6 DEF fa, fb, fq

LEMMA MappedSame ==
  ASSUME NEW f, NEW g, NEW q, \A x \in Range(q) : g[x] = f[x]
  PROVE  Mapped(g, q) = Mapped(f, q)
BY DEF Mapped, Range

----------------------------------------------------------------------------
(* Sequences of sequences, joined.                                          *)

\* f joins the first k sequences of q one after the other.
Joins(f, q, k) == \A i \in 1 .. k : f[i] = IF i = 1 THEN q[i] ELSE f[i - 1] \o q[i]

Agree(a, b, k) == \A i \in 1 .. k : a[i] = b[i]

LEMMA JoinsFirst == ASSUME NEW f, NEW q, NEW k \in Nat \ {0}, Joins(f, q, k) PROVE f[1] = q[1]
<1>1. 1 \in 1 .. k OBVIOUS
<1> QED BY <1>1 DEF Joins

LEMMA JoinsNext ==
  ASSUME NEW f, NEW q, NEW k \in Nat, Joins(f, q, k), NEW j \in Nat \ {0}, j + 1 <= k
  PROVE  f[j + 1] = f[j] \o q[j + 1]
<1> DEFINE i == j + 1
<1>1. i \in 1 .. k /\ i # 1 /\ i - 1 = j OBVIOUS
<1> HIDE DEF i
<1>2. f[i] = f[i - 1] \o q[i] BY <1>1 DEF Joins
<1> QED BY <1>1, <1>2 DEF i

LEMMA JoinsShorter ==
  ASSUME NEW f, NEW q, NEW k \in Nat, Joins(f, q, k), NEW n \in Nat, n <= k
  PROVE  Joins(f, q, n)
<1>1. 1 .. n \subseteq 1 .. k OBVIOUS
<1> QED BY <1>1 DEF Joins

LEMMA Associates ==
  ASSUME NEW S PROVE \A u, v, w \in Seq(S) : (u \o v) \o w = u \o (v \o w)
BY ConcatAssociative

LEMMA JoinsExist ==
  ASSUME NEW S, NEW q \in Seq(Seq(S)), NEW n \in 1 .. Len(q)
  PROVE  \E f \in [1 .. n -> Seq(S)] : Joins(f, q, n)
<1>0. Len(q) \in Nat /\ \A i \in 1 .. Len(q) : q[i] \in Seq(S) BY LenProperties, ElementOfSeq
<1>n. n \in Nat \ {0} /\ \A i \in 1 .. n : q[i] \in Seq(S) BY <1>0
<1> DEFINE Bad == {k \in 1 .. n : ~ \E f \in [1 .. k -> Seq(S)] : Joins(f, q, k)}
<1>1. ASSUME Bad # {} PROVE FALSE
  <2>1. Bad \in SUBSET Nat OBVIOUS
  <2>2. PICK k \in Bad : \A m \in Bad : k <= m
    <3> HIDE DEF Bad
    <3> QED BY <1>1, <2>1, LeastExists
  <2>3. k # 1
    <3> DEFINE f == [i \in 1 .. 1 |-> q[1]]
    <3>1. f \in [1 .. 1 -> Seq(S)] BY <1>0
    <3>2. Joins(f, q, 1) BY DEF Joins
    <3> QED BY <2>2, <3>1, <3>2
  <2>4. k \in 2 .. n /\ k - 1 \in 1 .. n /\ k - 1 \notin Bad /\ k \in Nat
    <3>1. k \in 1 .. n OBVIOUS
    <3> HIDE DEF Bad
    <3>2. k \in 2 .. n /\ k - 1 \in 1 .. n /\ k \in Nat BY <1>n, <2>3, <3>1
    <3>3. ~(k <= k - 1) BY <3>2
    <3> QED BY <2>2, <3>2, <3>3
  <2>5. PICK f \in [1 .. k - 1 -> Seq(S)] : Joins(f, q, k - 1) BY <2>4
  <2> DEFINE g == [i \in 1 .. k |-> IF i = k THEN f[k - 1] \o q[k] ELSE f[i]]
  <2>6. f[k - 1] \o q[k] \in Seq(S)
    <3>1. f[k - 1] \in Seq(S) /\ q[k] \in Seq(S) BY <1>n, <2>4, <2>5
    <3> QED BY <3>1, ConcatProperties
  <2>7. g \in [1 .. k -> Seq(S)] BY <2>4, <2>5, <2>6
  <2>8. ASSUME NEW i \in 1 .. k PROVE g[i] = IF i = 1 THEN q[i] ELSE g[i - 1] \o q[i]
    <3>1. i # 1 => g[i - 1] = f[i - 1]
      <4>1. i # 1 => i - 1 \in 1 .. k /\ i - 1 # k BY <2>4
      <4> QED BY <4>1
    <3>2. g[k] = f[k - 1] \o q[k]
      <4>1. k \in 1 .. k BY <2>4
      <4> QED BY <4>1, Zenon
    <3>3. i # k => g[i] = f[i] /\ i \in 1 .. k - 1 BY <2>4
    <3> HIDE DEF g
    <3>4. CASE i = k
      <4>1. i # 1 BY <2>4, <3>4
      <4> QED BY <3>1, <3>2, <3>4, <4>1
    <3>5. CASE i # k BY <2>5, <3>1, <3>3, <3>5 DEF Joins
    <3> QED BY <3>4, <3>5
  <2>9. Joins(g, q, k)
    <3> HIDE DEF g
    <3> QED BY <2>8 DEF Joins
  <2> QED BY <2>2, <2>7, <2>9
<1>2. n \in 1 .. n BY <1>0
<1>3. ~ ~ \E f \in [1 .. n -> Seq(S)] : Joins(f, q, n) BY <1>1, <1>2
<1> QED BY <1>3

\* There is one such function, whatever follows in q.
LEMMA JoinsAgree ==
  ASSUME NEW f, NEW g, NEW q, NEW r, NEW n \in Nat,
         Joins(f, q, n), Joins(g, r, n), Agree(q, r, n)
  PROVE  Agree(f, g, n)
<1> DEFINE Bad == {i \in 1 .. n : f[i] # g[i]}
<1>1. ASSUME Bad # {} PROVE FALSE
  <2>1. Bad \in SUBSET Nat OBVIOUS
  <2>2. PICK k \in Bad : \A m \in Bad : k <= m
    <3> HIDE DEF Bad
    <3> QED BY <1>1, <2>1, LeastExists
  <2>3. k \in 1 .. n /\ f[k] # g[k] /\ q[k] = r[k] BY <2>2 DEF Agree
  <2>4. k = 1 => f[k] = g[k] BY <2>3 DEF Joins
  <2>5. k - 1 \in 1 .. n /\ k - 1 \notin Bad BY <2>2, <2>3, <2>4
  <2>6. f[k - 1] = g[k - 1] BY <2>5
  <2> QED BY <2>3, <2>4, <2>6 DEF Joins
<1> QED BY <1>1 DEF Agree

\* FlattenSeq is the last of its values.
LEMMA FlattenJoins ==
  ASSUME NEW S, NEW q \in Seq(Seq(S)), q # <<>>
  PROVE  \E f \in [1 .. Len(q) -> Seq(S)] : Joins(f, q, Len(q)) /\ FlattenSeq(q) = f[Len(q)]
<1> DEFINE n == Len(q)
           IsJ(f) == f = [i \in 1 .. n |-> IF i = 1 THEN q[i] ELSE f[i - 1] \o q[i]]
           c == CHOOSE f : IsJ(f)
<1>1. n \in Nat \ {0} /\ n \in 1 .. n
  <2>1. n \in Nat \ {0} BY EmptySeq
  <2> QED BY <2>1
<1>2. FlattenSeq(q) = c[n]
  <2>1. Len(q) # 0 BY <1>1
  <2> QED BY <2>1, Zenon DEF FlattenSeq
<1>3. \E f \in [1 .. n -> Seq(S)] : Joins(f, q, n)
  <2> HIDE DEF n
  <2> QED BY <1>1, JoinsExist DEF n
<1>4. ASSUME NEW f \in [1 .. n -> Seq(S)], Joins(f, q, n) PROVE IsJ(f) BY <1>1, <1>4 DEF Joins
<1>5. IsJ(c) BY <1>3, <1>4
<1>6. Joins(c, q, n)
  <2> HIDE DEF c
  <2> QED BY <1>1, <1>5 DEF Joins
<1>7. c \in [1 .. n -> Seq(S)]
  <2> HIDE DEF c
  <2>1. PICK f \in [1 .. n -> Seq(S)] : Joins(f, q, n) BY <1>3
  <2>2. \A i \in 1 .. n : f[i] = c[i]
    <3>1. n \in Nat BY <1>1
    <3>2. Agree(q, q, n) BY DEF Agree
    <3> HIDE DEF n
    <3>3. Agree(f, c, n) BY <1>6, <2>1, <3>1, <3>2, JoinsAgree
    <3> QED BY <3>3 DEF Agree
  <2>3. DOMAIN c = 1 .. n /\ c = [i \in 1 .. n |-> c[i]] BY <1>5
  <2> QED BY <2>1, <2>2, <2>3
<1> HIDE DEF c, n
<1> QED BY <1>2, <1>6, <1>7 DEF n

LEMMA FlattenType ==
  ASSUME NEW S, NEW q \in Seq(Seq(S)) PROVE FlattenSeq(q) \in Seq(S)
<1>1. CASE q = <<>>
  <2>1. FlattenSeq(<<>>) = <<>> BY DEF FlattenSeq
  <2> QED BY <1>1, <2>1, EmptySeq, Zenon
<1>2. CASE q # <<>>
  <2>1. PICK f \in [1 .. Len(q) -> Seq(S)] : FlattenSeq(q) = f[Len(q)] BY <1>2, FlattenJoins
  <2>2. Len(q) \in Nat \ {0} BY <1>2, EmptySeq
  <2>3. Len(q) \in 1 .. Len(q) BY <2>2
  <2> QED BY <2>1, <2>3
<1> QED BY <1>1, <1>2

LEMMA FlattenEmpty == FlattenSeq(<<>>) = <<>>
BY DEF FlattenSeq

\* One more sequence behind.
LEMMA FlattenAppend ==
  ASSUME NEW S, NEW q \in Seq(Seq(S)), NEW p \in Seq(S)
  PROVE  FlattenSeq(Append(q, p)) = FlattenSeq(q) \o p
<1> DEFINE r == Append(q, p)
           n == Len(q)
<1>1. /\ r \in Seq(Seq(S)) /\ r # <<>> /\ Len(r) = n + 1 /\ n \in Nat
      /\ \A i \in 1 .. n : r[i] = q[i]
      /\ r[n + 1] = p
  BY AppendProperties, LenProperties
<1> HIDE DEF r
<1>2. PICK g \in [1 .. Len(r) -> Seq(S)] : Joins(g, r, Len(r)) /\ FlattenSeq(r) = g[Len(r)]
  BY <1>1, FlattenJoins
<1>3. CASE q = <<>>
  <2>1. n = 0 BY <1>3
  <2>2. g[1] = r[1] BY <1>1, <1>2, <2>1 DEF Joins
  <2>3. FlattenSeq(r) = p BY <1>1, <1>2, <2>1, <2>2
  <2>4. FlattenSeq(q) \o p = p BY <1>3, FlattenEmpty, ConcatEmptySeq
  <2> QED BY <2>3, <2>4 DEF r
<1>4. CASE q # <<>>
  <2>1. n \in Nat \ {0} BY <1>4, EmptySeq
  <2>2. PICK f \in [1 .. n -> Seq(S)] : Joins(f, q, n) /\ FlattenSeq(q) = f[n]
    BY <1>4, FlattenJoins
  <2> HIDE DEF n
  <2>3. Joins(g, r, n) /\ g[n + 1] = g[n] \o r[n + 1]
    <3>1. n \in Nat \ {0} /\ n + 1 \in Nat /\ n + 1 <= n + 1 /\ n <= n + 1 BY <2>1
    <3>2. Joins(g, r, n + 1) BY <1>1, <1>2
    <3>3. g[n + 1] = g[n] \o r[n + 1] BY <3>1, <3>2, JoinsNext
    <3>4. Joins(g, r, n) BY <3>1, <3>2, JoinsShorter
    <3> QED BY <3>3, <3>4
  <2>4. \A i \in 1 .. n : f[i] = g[i]
    <3>1. n \in Nat /\ Joins(f, q, n) /\ Joins(g, r, n) BY <2>1, <2>2, <2>3
    <3>2. Agree(q, r, n) BY <1>1 DEF Agree
    <3>3. Agree(f, g, n) BY <3>1, <3>2, JoinsAgree, Zenon
    <3> QED BY <3>3 DEF Agree
  <2>5. f[n] = g[n] BY <2>1, <2>4
  <2> QED BY <1>1, <1>2, <2>2, <2>3, <2>5 DEF r
<1> QED BY <1>3, <1>4

\* The first sequence, and the others behind it.
LEMMA FlattenFirst ==
  ASSUME NEW S, NEW q \in Seq(Seq(S)), q # <<>>
  PROVE  FlattenSeq(q) = q[1] \o FlattenSeq(Tail(q))
<1> DEFINE r == Tail(q)
           n == Len(q)
           m == Len(r)
<1>1. /\ n \in Nat \ {0} /\ r \in Seq(Seq(S)) /\ m = n - 1
      /\ \A i \in 1 .. m : r[i] = q[i + 1]
      /\ \A i \in 1 .. n : q[i] \in Seq(S)
  BY EmptySeq, HeadTailProperties, ElementOfSeq
<1>2. PICK g \in [1 .. n -> Seq(S)] : Joins(g, q, n) /\ FlattenSeq(q) = g[n] BY FlattenJoins
<1> HIDE DEF r
<1>3. CASE r = <<>>
  <2>1. m = 0 BY <1>3
  <2>2. n = 1 BY <1>1, <2>1
  <2>3. g[1] = q[1] BY <1>2, <2>2 DEF Joins
  <2>4. q[1] \in Seq(S) BY <1>1, <2>2
  <2>5. q[1] \o FlattenSeq(r) = q[1] BY <2>4, <1>3, FlattenEmpty, ConcatEmptySeq
  <2>6. FlattenSeq(q) = q[1] BY <1>2, <2>2, <2>3
  <2> QED BY <2>5, <2>6 DEF r
<1>4. CASE r # <<>>
  <2>1. m \in Nat \ {0} BY <1>1, <1>4, EmptySeq
  <2>2. PICK f \in [1 .. m -> Seq(S)] : Joins(f, r, m) /\ FlattenSeq(r) = f[m]
    BY <1>1, <1>4, FlattenJoins
  <2> HIDE DEF n, m
  <2> DEFINE a == q[1]
             Bad == {i \in 1 .. m : g[i + 1] # a \o f[i]}
  <2>as. \A u, v, w \in Seq(S) : (u \o v) \o w = u \o (v \o w)
    <3> HIDE DEF a, Bad
    <3> QED BY Associates, SMTT(60)
  <2>a. a \in Seq(S) /\ g[1] = a
    <3>1. 1 \in 1 .. n BY <1>1
    <3> QED BY <1>1, <1>2, <3>1 DEF Joins
  <2>3. \A i \in 1 .. m : g[i + 1] = g[i] \o q[i + 1] /\ q[i + 1] \in Seq(S)
    <3> SUFFICES ASSUME NEW i \in 1 .. m
                 PROVE  g[i + 1] = g[i] \o q[i + 1] /\ q[i + 1] \in Seq(S)
      OBVIOUS
    <3>1. i \in Nat \ {0} /\ i + 1 <= n /\ n \in Nat /\ i + 1 \in 1 .. n BY <1>1
    <3>2. g[i + 1] = g[i] \o q[i + 1] BY <1>2, <3>1, JoinsNext, ZenonT(60)
    <3> QED BY <1>1, <3>1, <3>2
  <2>4. ASSUME Bad # {} PROVE FALSE
    <3>1. Bad \in SUBSET Nat OBVIOUS
    <3>2. PICK k \in Bad : \A j \in Bad : k <= j
      <4> HIDE DEF Bad
      <4> QED BY <2>4, <3>1, LeastExists
    <3>3. k \in 1 .. m /\ g[k + 1] # a \o f[k] BY <3>2
    <3>4. g[k + 1] = g[k] \o q[k + 1] /\ r[k] = q[k + 1] /\ q[k + 1] \in Seq(S)
      BY <1>1, <2>3, <3>3
    <3>5. CASE k = 1
      <4>1. f[1] = r[1] BY <2>2, <3>3, <3>5 DEF Joins
      <4> QED BY <2>a, <3>3, <3>4, <3>5, <4>1
    <3>6. CASE k # 1
      <4>1. k - 1 \in 1 .. m /\ k - 1 \notin Bad /\ k - 1 + 1 = k
        <5>1. k - 1 \in 1 .. m /\ k - 1 + 1 = k /\ ~(k <= k - 1) BY <2>1, <3>3, <3>6
        <5> HIDE DEF Bad
        <5> QED BY <3>2, <5>1
      <4>2. g[k] = a \o f[k - 1] BY <4>1
      <4>3. f[k] = f[k - 1] \o r[k] BY <2>2, <3>3, <3>6 DEF Joins
      <4> DEFINE x == f[k - 1]
                 y == q[k + 1]
      <4>4. x \in Seq(S) /\ y \in Seq(S)
        <5>1. f[k - 1] \in Seq(S) BY <2>2, <4>1
        <5> QED BY <3>4, <5>1
      <4> HIDE DEF x, y, a, Bad
      <4>5. (a \o x) \o y = a \o (x \o y) BY <2>a, <2>as, <4>4
      <4>6. g[k + 1] = (a \o x) \o y BY <3>4, <4>2 DEF x, y
      <4>7. f[k] = x \o y BY <3>4, <4>3 DEF x, y
      <4>8. g[k + 1] = a \o f[k] BY <4>5, <4>6, <4>7
      <4> QED BY <3>3, <4>8
    <3> QED BY <3>5, <3>6
  <2>5. m \in 1 .. m /\ m + 1 = n BY <1>1, <2>1
  <2>6. m \notin Bad
    <3> HIDE DEF Bad
    <3> QED BY <2>4
  <2>7. g[m + 1] = a \o f[m] BY <2>5, <2>6
  <2> QED BY <1>2, <2>2, <2>5, <2>7 DEF r, n
<1> QED BY <1>3, <1>4
================================================================================
