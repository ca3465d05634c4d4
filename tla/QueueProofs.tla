------------------------------ MODULE QueueProofs ------------------------------
(***************************************************************************)
(* The lock-free queue for any number of nodes, producers and pushes: no   *)
(* node and no value is lost or in two places, _tail stays in the list,    *)
(* values keep their order unless a push was detached, and the list is a   *)
(* FIFO queue.  Then the jobs of a session in JobQueue, which has the same *)
(* steps.                                                                  *)
(***************************************************************************)
EXTENDS JobQueue, FiniteSetTheorems, SequenceLemmas

----------------------------------------------------------------------------
(* The keys from r along the fields k of the nodes, to a node without one.  *)

Path(k, r, K) ==
    /\ K \in Seq(Keys) /\ K # <<>> /\ K[1] = r
    /\ \A i \in 1 .. Len(K) - 1 : k[MAKE_NODEPTR(K[i])] = K[i + 1]
    /\ k[MAKE_NODEPTR(K[Len(K)])] = NULL
    /\ \A i, j \in 1 .. Len(K) : i # j => MAKE_NODEPTR(K[i]) # MAKE_NODEPTR(K[j])

NodeSeq(K) == [i \in 1 .. Len(K) |-> MAKE_NODEPTR(K[i])]
NodesIn(K) == {MAKE_NODEPTR(c) : c \in Range(K)}

\* ChainFrom along any fields.
Walk(k, n) ==
    LET walk[i \in 0 .. PoolSize] ==
            IF i = 0 THEN <<n>>
            ELSE LET c == walk[i - 1]
                 IN  IF Len(c) < i \/ k[c[i]] = NULL THEN c
                     ELSE Append(c, MAKE_NODEPTR(k[c[i]]))
    IN  walk[PoolSize]

LEMMA KeyParts ==
  /\ \A c \in Keys : MAKE_NODEPTR(c) \in Nodes /\ c[2] \in Nat
  /\ \A n \in Nodes, m \in Nat :
         /\ MAKE_KEY(n, m) \in Keys
         /\ MAKE_NODEPTR(MAKE_KEY(n, m)) = n /\ MAKE_KEY(n, m)[2] = m
  /\ NULL \notin Keys
BY QueueAssumption DEF Keys, MAKE_NODEPTR, MAKE_KEY

\* The elements of a sequence.
LEMMA SeqParts ==
  ASSUME NEW S, NEW q \in Seq(S)
  PROVE  /\ Len(q) \in Nat /\ DOMAIN q = 1 .. Len(q)
         /\ Range(q) = {q[i] : i \in 1 .. Len(q)} /\ Range(q) \subseteq S
         /\ \A i \in 1 .. Len(q) : q[i] \in S
         /\ q # <<>> <=> Len(q) > 0
         /\ q = <<>> <=> Len(q) = 0
<1>1. Len(q) \in Nat /\ DOMAIN q = 1 .. Len(q) BY LenProperties
<1>2. \A i \in 1 .. Len(q) : q[i] \in S BY ElementOfSeq
<1>3. q # <<>> => Len(q) \in Nat \ {0} BY EmptySeq
<1>4. q = <<>> => Len(q) = 0 BY EmptySeq
<1>5. Range(q) = {q[i] : i \in 1 .. Len(q)} BY <1>1 DEF Range
<1> QED BY <1>1, <1>2, <1>3, <1>4, <1>5

LEMMA NodesOfKeys ==
  ASSUME NEW K \in Seq(Keys)
  PROVE  /\ NodesIn(K) = {MAKE_NODEPTR(K[i]) : i \in 1 .. Len(K)}
         /\ NodesIn(K) \subseteq Nodes
         /\ \A i \in 1 .. Len(K) : MAKE_NODEPTR(K[i]) \in NodesIn(K)
<1>1. Range(K) = {K[i] : i \in 1 .. Len(K)} /\ Range(K) \subseteq Keys BY SeqParts
<1>2. NodesIn(K) = {MAKE_NODEPTR(K[i]) : i \in 1 .. Len(K)} BY <1>1 DEF NodesIn
<1> QED BY <1>1, <1>2, KeyParts DEF NodesIn

\* A node is on a path once, so the path is no longer than there are nodes.
LEMMA PathIsShort ==
  ASSUME NEW k, NEW r, NEW K, Path(k, r, K)
  PROVE  Len(K) <= PoolSize
<1>1. K \in Seq(Keys) BY DEF Path
<1>2. Len(K) \in Nat /\ \A i \in 1 .. Len(K) : K[i] \in Keys BY <1>1, SeqParts
<1> DEFINE n == Len(K)
           g == [i \in 1 .. n |-> MAKE_NODEPTR(K[i])]
           S == 1 .. n
<1>3. \A i \in S : g[i] \in Nodes BY <1>2, KeyParts
<1>4. \A i, j \in S : g[i] = g[j] => i = j BY DEF Path
<1>5. g \in [S -> Nodes] BY <1>3
<1> HIDE DEF g, n
<1>6. g \in Injection(S, Nodes) BY <1>4, <1>5 DEF Injection, IsInjective
<1>7. Cardinality(S) = n
  <2>1. n \in Nat BY <1>2 DEF n
  <2>2. Cardinality(1 .. n) = IF 1 > n THEN 0 ELSE n - 1 + 1 BY <2>1, FS_Interval
  <2> QED BY <2>1, <2>2
<1>8. IsFiniteSet(Nodes) /\ Cardinality(Nodes) = PoolSize
  <2>1. PoolSize \in Nat \ {0} BY QueueAssumption
  <2>2. /\ IsFiniteSet(1 .. PoolSize)
        /\ Cardinality(1 .. PoolSize) = IF 1 > PoolSize THEN 0 ELSE PoolSize - 1 + 1
    BY <2>1, FS_Interval
  <2> QED BY <2>1, <2>2 DEF Nodes
<1> HIDE DEF S
<1>9. Cardinality(S) <= Cardinality(Nodes) BY <1>6, <1>8, FS_Injection
<1> QED BY <1>7, <1>8, <1>9 DEF n

\* The model's function walks the whole path.
LEMMA WalkIs ==
  ASSUME NEW k, NEW r, NEW K, Path(k, r, K)
  PROVE  Walk(k, MAKE_NODEPTR(r)) = NodeSeq(K)
<1> DEFINE ns == NodeSeq(K)
           l  == Len(K)
           m(i) == IF i + 1 <= l THEN i + 1 ELSE l
           c0 == PoolSize
           F(w, i) == IF i = 0 THEN <<MAKE_NODEPTR(r)>>
                      ELSE LET c == w[i - 1]
                           IN  IF Len(c) < i \/ k[c[i]] = NULL THEN c
                               ELSE Append(c, MAKE_NODEPTR(k[c[i]]))
           IsW(w) == w = [i \in 0 .. c0 |-> F(w, i)]
           walk == CHOOSE w : IsW(w)
           g == [i \in 0 .. c0 |-> SubSeq(ns, 1, m(i))]
<1>1. Walk(k, MAKE_NODEPTR(r)) = walk[c0] BY DEF Walk
<1>2. K \in Seq(Keys) /\ l \in Nat /\ l > 0 /\ \A i \in 1 .. l : K[i] \in Keys
  BY SeqParts DEF Path
<1>3. l <= c0 /\ c0 \in Nat BY PathIsShort, QueueAssumption
<1>4. ns \in Seq(Nodes) /\ Len(ns) = l /\ \A i \in 1 .. l : ns[i] = MAKE_NODEPTR(K[i])
  <2>1. \A i \in 1 .. l : MAKE_NODEPTR(K[i]) \in Nodes BY <1>2, KeyParts
  <2>2. ns = [i \in 1 .. l |-> MAKE_NODEPTR(K[i])] BY DEF NodeSeq
  <2> HIDE DEF ns, l
  <2>3. ns \in Seq(Nodes) BY <1>2, <2>1, <2>2
  <2>4. Len(ns) = l BY <1>2, <2>2, <2>3, LenProperties
  <2> QED BY <2>2, <2>3, <2>4
<1>5. /\ K[1] = r /\ k[MAKE_NODEPTR(K[l])] = NULL
      /\ \A i \in 1 .. l - 1 : k[MAKE_NODEPTR(K[i])] = K[i + 1]
  BY DEF Path
<1> HIDE DEF ns, l, c0
<1>6. \A i \in 0 .. c0 : m(i) \in 0 .. l /\ m(i) \in Nat /\ m(i) >= 1 BY <1>2, <1>3
<1>7. ASSUME NEW j \in 0 .. l
      PROVE  /\ SubSeq(ns, 1, j) \in Seq(Nodes) /\ Len(SubSeq(ns, 1, j)) = j
             /\ \A i \in 1 .. j : SubSeq(ns, 1, j)[i] = ns[i]
  BY <1>4, CutSeq
<1>8. ASSUME NEW i \in 0 .. c0 PROVE F(g, i) = SubSeq(ns, 1, m(i))
  <2>1. CASE i = 0
    <3>1. m(i) = 1 BY <1>2, <2>1
    <3>2. 1 \in 0 .. l /\ 1 \in 1 .. l BY <1>2
    <3> DEFINE s == SubSeq(ns, 1, 1)
               t == <<MAKE_NODEPTR(r)>>
    <3>3. s \in Seq(Nodes) /\ Len(s) = 1 /\ s[1] = ns[1] BY <1>7, <3>2
    <3>4. ns[1] = MAKE_NODEPTR(r) /\ ns[1] \in Nodes BY <1>2, <1>4, <1>5, <3>2, KeyParts
    <3>5. t \in Seq(Nodes) /\ Len(t) = 1 /\ t[1] = ns[1] BY <3>4
    <3> HIDE DEF s, t
    <3>6. s = t BY <3>3, <3>5, SeqEqual
    <3> QED BY <2>1, <3>1, <3>6 DEF s, t
  <2>2. CASE i # 0 /\ i > l
    <3>1. i - 1 \in 0 .. c0 /\ m(i - 1) = l /\ m(i) = l BY <1>2, <1>3, <2>2
    <3>2. g[i - 1] = SubSeq(ns, 1, l) BY <3>1
    <3>3. Len(SubSeq(ns, 1, l)) = l BY <1>2, <1>7
    <3> HIDE DEF g
    <3> QED BY <2>2, <3>1, <3>2, <3>3
  <2>3. CASE i # 0 /\ i = l
    <3>1. i - 1 \in 0 .. c0 /\ m(i - 1) = l /\ m(i) = l /\ i \in 1 .. l BY <1>2, <1>3, <2>3
    <3>2. g[i - 1] = SubSeq(ns, 1, l) BY <3>1
    <3>3. SubSeq(ns, 1, l)[i] = ns[l] BY <1>2, <1>7, <2>3, <3>1
    <3>4. k[ns[l]] = NULL BY <1>4, <1>5, <2>3, <3>1
    <3> HIDE DEF g
    <3> QED BY <2>3, <3>1, <3>2, <3>3, <3>4
  <2>4. CASE i # 0 /\ i < l
    <3>1. /\ i - 1 \in 0 .. c0 /\ m(i - 1) = i /\ m(i) = i + 1
          /\ i \in 1 .. l - 1 /\ i \in 1 .. l /\ i + 1 \in 1 .. l /\ i \in 0 .. l /\ i + 1 \in 0 .. l
      BY <1>2, <1>3, <2>4
    <3> DEFINE s == SubSeq(ns, 1, i)
               t == SubSeq(ns, 1, i + 1)
    <3>2. g[i - 1] = s BY <3>1
    <3>3. s \in Seq(Nodes) /\ Len(s) = i /\ \A j \in 1 .. i : s[j] = ns[j] BY <1>7, <3>1
    <3>4. t \in Seq(Nodes) /\ Len(t) = i + 1 /\ \A j \in 1 .. i + 1 : t[j] = ns[j]
      BY <1>7, <3>1
    <3> HIDE DEF s, t, g
    <3>5. s[i] = MAKE_NODEPTR(K[i]) /\ k[s[i]] = K[i + 1] /\ K[i + 1] \in Keys
      BY <1>2, <1>4, <1>5, <3>1, <3>3
    <3> DEFINE u == Append(s, MAKE_NODEPTR(K[i + 1]))
    <3>6. MAKE_NODEPTR(K[i + 1]) \in Nodes /\ ns[i + 1] = MAKE_NODEPTR(K[i + 1])
      BY <1>4, <3>1, <3>5, KeyParts
    <3>7. u \in Seq(Nodes) /\ Len(u) = i + 1 /\ \A j \in 1 .. i + 1 : u[j] = ns[j]
      BY <3>1, <3>3, <3>6, AppendProperties
    <3> HIDE DEF u
    <3>8. u = t BY <3>4, <3>7, SeqEqual
    <3>9. F(g, i) = u BY <2>4, <3>2, <3>3, <3>5, KeyParts DEF u
    <3> QED BY <3>1, <3>8, <3>9 DEF t
  <2>5. i = 0 \/ (i # 0 /\ i > l) \/ (i # 0 /\ i = l) \/ (i # 0 /\ i < l) BY <1>2, <1>3
  <2> HIDE DEF F, g, m
  <2> QED BY <2>1, <2>2, <2>3, <2>4, <2>5
<1>9. IsW(g)
  <2> DEFINE h == [i \in 0 .. c0 |-> F(g, i)]
  <2>1. \A i \in 0 .. c0 : h[i] = g[i] BY <1>8
  <2>2. g = [i \in 0 .. c0 |-> g[i]] OBVIOUS
  <2> HIDE DEF g
  <2> QED BY <2>1, <2>2
<1>10. \A i \in 0 .. c0 : g[i] = SubSeq(ns, 1, m(i)) OBVIOUS
<1> HIDE DEF g
<1>11. IsW(walk) BY <1>9
<1> HIDE DEF walk, m
<1>12. \A i \in 0 .. c0 : walk[i] = F(walk, i)
  <2> DEFINE v == walk
             h == [i \in 0 .. c0 |-> F(v, i)]
  <2>1. v = h BY <1>11
  <2>2. \A i \in 0 .. c0 : h[i] = F(v, i) OBVIOUS
  <2> HIDE DEF h
  <2> QED BY <2>1, <2>2
<1>13. \A i \in 0 .. c0 : g[i] = F(g, i) BY <1>8, <1>10
<1> DEFINE Bad == {i \in 0 .. c0 : walk[i] # g[i]}
<1>14. Bad = {}
  <2>1. SUFFICES ASSUME Bad # {} PROVE FALSE OBVIOUS
  <2>2. Bad \in SUBSET Nat BY <1>3
  <2> HIDE DEF Bad
  <2>3. PICK i \in Bad : \A j \in Bad : i <= j BY <2>1, <2>2, LeastExists
  <2>4. i \in 0 .. c0 /\ walk[i] # g[i] BY DEF Bad
  <2>5. i # 0 BY <1>12, <1>13, <2>4
  <2>6. i - 1 \in 0 .. c0 /\ ~(i <= i - 1) BY <1>3, <2>4, <2>5
  <2>7. walk[i - 1] = g[i - 1] BY <2>3, <2>6 DEF Bad
  <2>8. F(walk, i) = F(g, i) BY <2>5, <2>7
  <2> QED BY <1>12, <1>13, <2>4, <2>8
<1>15. c0 \in 0 .. c0 /\ m(c0) = l BY <1>2, <1>3 DEF m
<1>16. walk[c0] = SubSeq(ns, 1, l) BY <1>10, <1>14, <1>15
<1>17. SubSeq(ns, 1, l) = ns BY <1>4, SubSeqFull
<1> QED BY <1>1, <1>16, <1>17 DEF ns

LEMMA ChainIs == ASSUME NEW r, NEW K, Path(key, r, K)
                 PROVE  ChainFrom(MAKE_NODEPTR(r)) = NodeSeq(K)
BY WalkIs DEF ChainFrom, Walk

LEMMA PathParts ==
  ASSUME NEW k, NEW r, NEW K, Path(k, r, K)
  PROVE  /\ K \in Seq(Keys) /\ Len(K) \in Nat /\ Len(K) > 0 /\ K[1] = r /\ r \in Keys
         /\ DOMAIN K = 1 .. Len(K) /\ \A i \in 1 .. Len(K) : K[i] \in Keys
         /\ K[Len(K)] \in Keys /\ K[Len(K)] \in Range(K) /\ r \in Range(K)
         /\ k[MAKE_NODEPTR(K[Len(K)])] = NULL
         /\ \A i \in 1 .. Len(K) : k[MAKE_NODEPTR(K[i])] = NULL <=> i = Len(K)
         /\ \A c, d \in Range(K) : MAKE_NODEPTR(c) = MAKE_NODEPTR(d) => c = d
         /\ \A c \in Range(K) : k[MAKE_NODEPTR(c)] = NULL \/ k[MAKE_NODEPTR(c)] \in Range(K)
<1>1. K \in Seq(Keys) BY DEF Path
<1>2. /\ Len(K) \in Nat /\ Len(K) > 0 /\ DOMAIN K = 1 .. Len(K)
      /\ \A i \in 1 .. Len(K) : K[i] \in Keys
      /\ Range(K) = {K[i] : i \in 1 .. Len(K)}
  BY <1>1, SeqParts DEF Path
<1>3. 1 \in 1 .. Len(K) /\ Len(K) \in 1 .. Len(K) BY <1>2
<1>4. K[1] = r BY DEF Path
<1>5. \A i \in 1 .. Len(K) : k[MAKE_NODEPTR(K[i])] = NULL <=> i = Len(K)
  <2> TAKE i \in 1 .. Len(K)
  <2>1. CASE i = Len(K) BY <2>1 DEF Path
  <2>2. CASE i # Len(K)
    <3>1. i \in 1 .. Len(K) - 1 /\ i + 1 \in 1 .. Len(K) BY <1>2, <2>2
    <3>2. k[MAKE_NODEPTR(K[i])] \in Keys BY <1>2, <3>1 DEF Path
    <3> QED BY <2>2, <3>2, KeyParts
  <2> QED BY <2>1, <2>2
<1>6. \A c, d \in Range(K) : MAKE_NODEPTR(c) = MAKE_NODEPTR(d) => c = d
  <2> SUFFICES ASSUME NEW c \in Range(K), NEW d \in Range(K), MAKE_NODEPTR(c) = MAKE_NODEPTR(d)
               PROVE  c = d
    OBVIOUS
  <2>1. PICK i \in 1 .. Len(K) : c = K[i] BY <1>2
  <2>2. PICK j \in 1 .. Len(K) : d = K[j] BY <1>2
  <2> QED BY <2>1, <2>2 DEF Path
<1>7. \A c \in Range(K) : k[MAKE_NODEPTR(c)] = NULL \/ k[MAKE_NODEPTR(c)] \in Range(K)
  <2> TAKE c \in Range(K)
  <2>1. PICK i \in 1 .. Len(K) : c = K[i] BY <1>2
  <2>2. CASE i = Len(K) BY <1>5, <2>1, <2>2
  <2>3. CASE i # Len(K)
    <3> DEFINE l == Len(K)
    <3>0. l \in Nat /\ i \in 1 .. l /\ i # l BY <1>2, <2>3
    <3>1. i \in 1 .. l - 1 /\ i + 1 \in 1 .. l
      <4> HIDE DEF l
      <4> QED BY <3>0
    <3>2. k[MAKE_NODEPTR(K[i])] = K[i + 1] BY <3>1 DEF Path
    <3> QED BY <1>2, <2>1, <3>1, <3>2
  <2> QED BY <2>2, <2>3
<1>8. k[MAKE_NODEPTR(K[Len(K)])] = NULL BY DEF Path
<1> QED BY <1>1, <1>2, <1>3, <1>4, <1>5, <1>6, <1>7, <1>8

\* There is one path, so where a path ends says where any key is on it.
LEMMA EndOfPath ==
  ASSUME NEW k, NEW r, NEW K, Path(k, r, K), NEW n \in NodesIn(K), k[n] = NULL
  PROVE  n = MAKE_NODEPTR(K[Len(K)])
<1>1. PICK i \in 1 .. Len(K) : n = MAKE_NODEPTR(K[i]) BY NodesOfKeys DEF Path
<1> QED BY <1>1, PathParts

\* Fields of other nodes do not matter.
LEMMA PathSame ==
  ASSUME NEW k, NEW h, NEW r, NEW K, Path(k, r, K), \A n \in NodesIn(K) : h[n] = k[n]
  PROVE  Path(h, r, K)
<1>1. K \in Seq(Keys) /\ Len(K) \in Nat /\ Len(K) > 0 BY PathParts
<1>2. \A i \in 1 .. Len(K) : h[MAKE_NODEPTR(K[i])] = k[MAKE_NODEPTR(K[i])]
  BY <1>1, NodesOfKeys
<1>3. Len(K) \in 1 .. Len(K) /\ \A i \in 1 .. Len(K) - 1 : i \in 1 .. Len(K) BY <1>1
<1> QED BY <1>2, <1>3 DEF Path

\* A node without a key.
LEMMA PathOfOne ==
  ASSUME NEW k, NEW r \in Keys, k[MAKE_NODEPTR(r)] = NULL
  PROVE  Path(k, r, <<r>>)
<1>1. <<r>> \in Seq(Keys) /\ Len(<<r>>) = 1 /\ <<r>>[1] = r /\ <<r>> # <<>> OBVIOUS
<1> DEFINE q == <<r>>
<1>2. q \in Seq(Keys) /\ Len(q) = 1 /\ q[1] = r /\ q # <<>> BY <1>1
<1> HIDE DEF q
<1>3. Path(k, r, q) BY <1>2 DEF Path
<1> QED BY <1>3 DEF q

\* Keys behind others.
LEMMA JoinedKeys ==
  ASSUME NEW K \in Seq(Keys), NEW M \in Seq(Keys)
  PROVE  /\ K \o M \in Seq(Keys) /\ Len(K \o M) = Len(K) + Len(M)
         /\ Range(K \o M) = Range(K) \union Range(M)
         /\ NodesIn(K \o M) = NodesIn(K) \union NodesIn(M)
         /\ \A i \in 1 .. Len(K) + Len(M) :
                (K \o M)[i] = IF i <= Len(K) THEN K[i] ELSE M[i - Len(K)]
<1>1. Range(K \o M) = Range(K) \union Range(M) BY JoinedSets
<1>2. NodesIn(K \o M) = NodesIn(K) \union NodesIn(M) BY <1>1 DEF NodesIn
<1>3. /\ K \o M \in Seq(Keys) /\ Len(K \o M) = Len(K) + Len(M)
      /\ \A i \in 1 .. Len(K) + Len(M) :
             (K \o M)[i] = IF i <= Len(K) THEN K[i] ELSE M[i - Len(K)]
  BY ConcatProperties
<1> QED BY <1>1, <1>2, <1>3

\* A path behind the end of another one.
LEMMA PathsJoin ==
  ASSUME NEW k, NEW h, NEW r, NEW K, NEW s, NEW M, Path(k, r, K), Path(k, s, M),
         NodesIn(K) \intersect NodesIn(M) = {}, NEW e, e = MAKE_NODEPTR(K[Len(K)]),
         h[e] = s, \A n \in Nodes : n # e => h[n] = k[n]
  PROVE  Path(h, r, K \o M)
<1> DEFINE a == Len(K)
           b == Len(M)
           J == K \o M
<1>1. /\ K \in Seq(Keys) /\ a \in Nat /\ a > 0 /\ K[1] = r
      /\ \A i \in 1 .. a : K[i] \in Keys
      /\ K[a] \in Keys
  BY PathParts
<1>2. /\ M \in Seq(Keys) /\ b \in Nat /\ b > 0 /\ M[1] = s
      /\ \A i \in 1 .. b : M[i] \in Keys
  BY PathParts
<1>3. /\ J \in Seq(Keys) /\ Len(J) = a + b
      /\ \A i \in 1 .. a + b : J[i] = IF i <= a THEN K[i] ELSE M[i - a]
  BY <1>1, <1>2, ConcatProperties
<1>5. /\ \A i \in 1 .. a - 1 : k[MAKE_NODEPTR(K[i])] = K[i + 1]
      /\ \A i, j \in 1 .. a : i # j => MAKE_NODEPTR(K[i]) # MAKE_NODEPTR(K[j])
  BY DEF Path
<1>6. /\ \A i \in 1 .. b - 1 : k[MAKE_NODEPTR(M[i])] = M[i + 1]
      /\ k[MAKE_NODEPTR(M[b])] = NULL
      /\ \A i, j \in 1 .. b : i # j => MAKE_NODEPTR(M[i]) # MAKE_NODEPTR(M[j])
  BY DEF Path
<1>7. /\ NodesIn(K) = {MAKE_NODEPTR(K[i]) : i \in 1 .. a}
      /\ NodesIn(M) = {MAKE_NODEPTR(M[i]) : i \in 1 .. b}
  BY <1>1, <1>2, NodesOfKeys
<1> HIDE DEF a, b, J
<1>8. MAKE_NODEPTR(K[a]) \in Nodes /\ \A i \in 1 .. a : MAKE_NODEPTR(K[i]) \in Nodes
  BY <1>1, KeyParts
<1>9. \A i \in 1 .. b : MAKE_NODEPTR(M[i]) \in Nodes BY <1>2, KeyParts
<1>10. \A i \in 1 .. a, j \in 1 .. b : MAKE_NODEPTR(K[i]) # MAKE_NODEPTR(M[j]) BY <1>7
<1>11. h[MAKE_NODEPTR(K[a])] = s BY <1>8 DEF a
<1>12. \A n \in Nodes : n # MAKE_NODEPTR(K[a]) => h[n] = k[n] BY DEF a
<1>13. a \in 1 .. a /\ b \in 1 .. b /\ a + 1 - a = 1 /\ a + b - a = b BY <1>1, <1>2
<1>14. \A i \in 1 .. a + b - 1 : h[MAKE_NODEPTR(J[i])] = J[i + 1]
  <2> TAKE i \in 1 .. a + b - 1
  <2>1. i \in 1 .. a + b /\ i + 1 \in 1 .. a + b BY <1>1, <1>2
  <2>2. CASE i < a
    <3>1. i \in 1 .. a - 1 /\ i \in 1 .. a /\ i # a /\ i <= a /\ i + 1 <= a BY <1>1, <2>2
    <3>2. J[i] = K[i] /\ J[i + 1] = K[i + 1] BY <1>3, <2>1, <3>1
    <3>3. MAKE_NODEPTR(K[i]) # MAKE_NODEPTR(K[a]) BY <1>5, <1>13, <3>1
    <3> QED BY <1>5, <1>8, <1>12, <3>1, <3>2, <3>3
  <2>3. CASE i = a
    <3>1. J[i] = K[a] /\ J[i + 1] = M[1] BY <1>3, <1>13, <2>1, <2>3
    <3> QED BY <1>2, <1>11, <3>1
  <2>4. CASE i > a
    <3>1. /\ i - a \in 1 .. b - 1 /\ i - a \in 1 .. b /\ i + 1 - a = i - a + 1
          /\ ~(i <= a) /\ ~(i + 1 <= a)
      BY <1>1, <1>2, <2>4
    <3>2. J[i] = M[i - a] /\ J[i + 1] = M[i - a + 1]
      <4>1. J[i] = M[i - a] BY <1>3, <2>1, <3>1
      <4>2. J[i + 1] = M[i + 1 - a]
        <5> DEFINE j == i + 1
        <5>1. j \in 1 .. a + b /\ ~(j <= a) BY <2>1, <3>1
        <5> HIDE DEF j
        <5>2. J[j] = M[j - a] BY <1>3, <5>1
        <5> QED BY <1>1, <2>1, <5>2 DEF j
      <4>3. i + 1 - a = i - a + 1 BY <3>1
      <4> QED BY <4>1, <4>2, <4>3, Zenon
    <3>3. MAKE_NODEPTR(M[i - a]) # MAKE_NODEPTR(K[a]) BY <1>10, <1>13, <3>1
    <3> QED BY <1>6, <1>9, <1>12, <3>1, <3>2, <3>3
  <2>5. i < a \/ i = a \/ i > a BY <1>1, <2>1
  <2> QED BY <2>2, <2>3, <2>4, <2>5
<1>15. h[MAKE_NODEPTR(J[a + b])] = NULL
  <2>1. a + b \in 1 .. a + b /\ ~(a + b <= a) BY <1>1, <1>2
  <2>2. J[a + b] = M[b] BY <1>3, <1>13, <2>1
  <2>3. MAKE_NODEPTR(M[b]) # MAKE_NODEPTR(K[a]) BY <1>10, <1>13
  <2> QED BY <1>6, <1>9, <1>12, <1>13, <2>2, <2>3
<1>16. \A i, j \in 1 .. a + b : i # j => MAKE_NODEPTR(J[i]) # MAKE_NODEPTR(J[j])
  <2>1. \A i \in 1 .. a + b :
            \/ i \in 1 .. a /\ J[i] = K[i]
            \/ i > a /\ i - a \in 1 .. b /\ J[i] = M[i - a]
    BY <1>1, <1>2, <1>3
  <2> SUFFICES ASSUME NEW i \in 1 .. a + b, NEW j \in 1 .. a + b, i # j
               PROVE  MAKE_NODEPTR(J[i]) # MAKE_NODEPTR(J[j])
    OBVIOUS
  <2>2. CASE i \in 1 .. a /\ J[i] = K[i]
    <3>1. CASE j \in 1 .. a /\ J[j] = K[j] BY <1>5, <2>2, <3>1
    <3>2. CASE j - a \in 1 .. b /\ J[j] = M[j - a] BY <1>10, <2>2, <3>2
    <3> QED BY <2>1, <3>1, <3>2
  <2>3. CASE i > a /\ i - a \in 1 .. b /\ J[i] = M[i - a]
    <3>1. CASE j \in 1 .. a /\ J[j] = K[j] BY <1>10, <2>3, <3>1
    <3>2. CASE j > a /\ j - a \in 1 .. b /\ J[j] = M[j - a]
      <4>1. i - a # j - a BY <1>1
      <4> QED BY <1>6, <2>3, <3>2, <4>1
    <3> QED BY <2>1, <3>1, <3>2
  <2> QED BY <2>1, <2>2, <2>3
<1>17. J # <<>> /\ J[1] = r
  <2>1. 1 \in 1 .. a + b /\ 1 <= a /\ a + b > 0 BY <1>1, <1>2
  <2>2. J # <<>> BY <1>3, <2>1, EmptySeq
  <2> QED BY <1>1, <1>3, <2>1, <2>2
<1>18. Path(h, r, J)
  <2> DEFINE l == Len(J)
  <2>1. l = a + b /\ l - 1 = a + b - 1 BY <1>1, <1>2, <1>3
  <2>2. /\ \A i \in 1 .. l - 1 : h[MAKE_NODEPTR(J[i])] = J[i + 1]
        /\ h[MAKE_NODEPTR(J[l])] = NULL
        /\ \A i, j \in 1 .. l : i # j => MAKE_NODEPTR(J[i]) # MAKE_NODEPTR(J[j])
    <3> HIDE DEF l
    <3> QED BY <1>14, <1>15, <1>16, <2>1, Zenon
  <2>3. J \in Seq(Keys) BY <1>3
  <2> QED BY <1>17, <2>2, <2>3 DEF Path
<1> QED BY <1>18 DEF J

\* The path from its second node.
LEMMA PathRest ==
  ASSUME NEW k, NEW r, NEW K, Path(k, r, K), k[MAKE_NODEPTR(r)] # NULL
  PROVE  /\ Path(k, k[MAKE_NODEPTR(r)], Tail(K))
         /\ Range(Tail(K)) = Range(K) \ {r}
         /\ NodesIn(Tail(K)) = NodesIn(K) \ {MAKE_NODEPTR(r)}
         /\ k[MAKE_NODEPTR(r)] # r
         /\ Len(Tail(K)) = Len(K) - 1 /\ \A i \in 1 .. Len(K) - 1 : Tail(K)[i] = K[i + 1]
<1> DEFINE T == Tail(K)
           a == Len(K)
<1>1. /\ K \in Seq(Keys) /\ a \in Nat /\ a > 0 /\ K[1] = r /\ r \in Range(K)
      /\ \A i \in 1 .. a : K[i] \in Keys
      /\ \A i \in 1 .. a : k[MAKE_NODEPTR(K[i])] = NULL <=> i = a
      /\ \A c, d \in Range(K) : MAKE_NODEPTR(c) = MAKE_NODEPTR(d) => c = d
  BY PathParts
<1>2. K # <<>> BY DEF Path
<1>3. /\ T \in Seq(Keys) /\ Len(T) = a - 1 /\ \A i \in 1 .. a - 1 : T[i] = K[i + 1]
      /\ Head(K) = r
      /\ Range(K) = {r} \union Range(T)
      /\ IsInjective(K) <=> IsInjective(T) /\ r \notin Range(T)
  BY <1>1, <1>2, HeadAndTail
<1>4. a > 1
  <2>1. 1 \in 1 .. a BY <1>1
  <2> QED BY <1>1, <2>1
<1>5. /\ \A i \in 1 .. a - 1 : k[MAKE_NODEPTR(K[i])] = K[i + 1]
      /\ k[MAKE_NODEPTR(K[a])] = NULL
      /\ \A i, j \in 1 .. a : i # j => MAKE_NODEPTR(K[i]) # MAKE_NODEPTR(K[j])
  BY DEF Path
<1>6. IsInjective(K)
  <2>1. DOMAIN K = 1 .. a BY <1>1, SeqParts
  <2>2. \A i, j \in 1 .. a : K[i] = K[j] => i = j BY <1>5
  <2> QED BY <2>1, <2>2 DEF IsInjective
<1>7. Range(T) = Range(K) \ {r} BY <1>3, <1>6
<1> HIDE DEF T, a
<1>8. k[MAKE_NODEPTR(r)] = T[1] /\ T[1] = K[2]
  <2>1. 1 \in 1 .. a - 1 BY <1>1, <1>4
  <2> QED BY <1>1, <1>3, <1>5, <2>1
<1>9. Path(k, T[1], T)
  <2>1. T # <<>> BY <1>1, <1>3, <1>4, EmptySeq
  <2>2. \A i \in 1 .. (a - 1) - 1 : k[MAKE_NODEPTR(T[i])] = T[i + 1]
    <3> TAKE i \in 1 .. (a - 1) - 1
    <3>1. i \in 1 .. a - 1 /\ i + 1 \in 1 .. a - 1 BY <1>1
    <3> QED BY <1>3, <1>5, <3>1
  <2>3. k[MAKE_NODEPTR(T[a - 1])] = NULL
    <3>1. a - 1 \in 1 .. a - 1 /\ a - 1 + 1 = a BY <1>1, <1>4
    <3> QED BY <1>3, <1>5, <3>1
  <2>4. \A i, j \in 1 .. a - 1 : i # j => MAKE_NODEPTR(T[i]) # MAKE_NODEPTR(T[j])
    <3> SUFFICES ASSUME NEW i \in 1 .. a - 1, NEW j \in 1 .. a - 1, i # j
                 PROVE  MAKE_NODEPTR(T[i]) # MAKE_NODEPTR(T[j])
      OBVIOUS
    <3>1. i + 1 \in 1 .. a /\ j + 1 \in 1 .. a /\ i + 1 # j + 1 BY <1>1
    <3> QED BY <1>3, <1>5, <3>1
  <2> QED BY <1>3, <2>1, <2>2, <2>3, <2>4 DEF Path
<1>10. NodesIn(T) = NodesIn(K) \ {MAKE_NODEPTR(r)} BY <1>1, <1>7 DEF NodesIn
<1>11. k[MAKE_NODEPTR(r)] # r
  <2>1. 1 \in 1 .. a /\ 2 \in 1 .. a BY <1>1, <1>4
  <2> QED BY <1>1, <1>5, <1>8, <2>1
<1> QED BY <1>3, <1>7, <1>8, <1>9, <1>10, <1>11 DEF T, a

----------------------------------------------------------------------------
(* The inductive invariant, for the keys L of the list and the keys H[p] of *)
(* the nodes that hang on the one p has not linked yet.                     *)

LinkLabels == {"tail", "key", "link", "help"}
Linkers    == {p \in Producers : pc[p] \in LinkLabels}
HangingKeys(H) == UNION {Range(H[p]) : p \in Producers}

\* The list and what hangs are paths.
Hangs(L, H) ==
    /\ Path(key, _head, L)
    /\ \A p \in Producers :
           /\ pc[p] = "init" => H[p] = <<newKey[p]>>
           /\ pc[p] \in LinkLabels => Path(key, newKey[p], H[p])
           /\ pc[p] \in {"idle", "swing", "size"} => H[p] = <<>>

\* What threads hold at their control points.
Locals ==
    /\ \A p \in Producers :
           /\ pc[p] # "idle" => newKey[p] \in Keys /\ count[p] >= 1
           /\ pc[p] \in {"key", "link", "help", "swing", "size"} => tail[p] \in Keys
           /\ pc[p] = "help" => seen[p] \in Keys
    /\ cpc \in {"key", "help", "take", "value"} => ctail \in Keys
    /\ cpc \in {"help", "take", "value"} => ckey \in Keys

\* A node is free, in the list, or hangs on one push.
Apart(L, H) ==
    /\ IsInjective(pool)
    /\ Range(pool) \intersect NodesIn(L) = {}
    /\ \A p \in Producers : /\ NodesIn(H[p]) \intersect Range(pool) = {}
                            /\ NodesIn(H[p]) \intersect NodesIn(L) = {}
    /\ \A p, q \in Producers : p # q => NodesIn(H[p]) \intersect NodesIn(H[q]) = {}
    /\ \A n \in Nodes : n \in Range(pool) \/ n \in NodesIn(L)
                            \/ \E p \in Producers : n \in NodesIn(H[p])

\* The numbers of the keys in use are those of pushes that began; a push hangs its
\* node only behind those of later pushes.
Numbers(L, H) ==
    /\ \A c \in Range(L) \union HangingKeys(H) : c[2] <= pushs
    /\ \A p \in Producers : \A i, j \in 1 .. Len(H[p]) : i < j => H[p][i][2] > H[p][j][2]

\* What a push read as the tail was in the list then: its node was used, and if it
\* hangs now, a push that began after this one took it.
TailsRead(H) ==
    /\ \A p \in Producers : pc[p] \in {"key", "link", "help", "swing"} =>
           tail[p][2] <= pushs /\ tail[p] \notin HangingKeys(H)
    /\ \A p \in Producers : pc[p] \in {"key", "link"} =>
           /\ \A c \in HangingKeys(H) :
                  MAKE_NODEPTR(c) = MAKE_NODEPTR(tail[p]) => c[2] > newKey[p][2]
           /\ \/ MAKE_NODEPTR(tail[p]) \in Range(pool)
              \/ \E q \in Producers : pc[q] = "init" /\ Mine(q) = MAKE_NODEPTR(tail[p])
              => key[MAKE_NODEPTR(tail[p])] # NULL

\* _tail is in the list, and goes from there to the next key.
TailMoves(L) ==
    /\ _tail \in Range(L)
    /\ \A p \in Producers : tail[p] \in Range(L) =>
           /\ pc[p] = "swing" => key[MAKE_NODEPTR(tail[p])] = newKey[p]
           /\ pc[p] = "help"  => key[MAKE_NODEPTR(tail[p])] = seen[p]

\* The consumer takes the dummy out only when _tail is behind it.
Consumer ==
    /\ cpc = "key" /\ ctail # _head => _tail # _head
    /\ cpc = "help" => ctail = _head /\ key[MAKE_NODEPTR(_head)] # NULL
    /\ cpc = "take" => ckey = key[MAKE_NODEPTR(_head)] /\ _tail # _head
    /\ cpc = "value" => ckey = _head

\* The nodes whose values are still to be delivered, those whose push may still
\* find out that it has to link again, and the values that are safe for good.
Carriers(L, H) ==
    (IF cpc = "value" THEN NodesIn(L) ELSE NodesIn(L) \ {MAKE_NODEPTR(_head)})
        \union UNION {NodesIn(H[p]) : p \in Linkers}
Own == {Mine(p) : p \in Linkers}
Safe(L, H) == Range(popped) \union {value[n] : n \in Carriers(L, H) \ Own}

Begun(v) == v[2] <= count[v[1]]

\* A value is delivered, carried by one node, or refused.
ValuesApart(L, H) ==
    /\ \A n \in Carriers(L, H) : /\ value[n] \in Values /\ Begun(value[n])
                                 /\ value[n] \notin Range(popped) \union refused
    /\ \A m, n \in Carriers(L, H) : value[m] = value[n] => m = n
    /\ IsInjective(popped)
    /\ Range(popped) \intersect refused = {}
    /\ \A v \in Range(popped) \union refused : Begun(v)
    /\ returned \subseteq Safe(L, H)
    /\ \A p \in Producers :
           /\ pc[p] # "idle" => Pushing(p) \notin refused
           /\ pc[p] = "init" => /\ Pushing(p) \notin Range(popped)
                                /\ \A n \in Carriers(L, H) : value[n] # Pushing(p)
           /\ pc[p] \in LinkLabels => value[Mine(p)] = Pushing(p)
           /\ pc[p] \in {"swing", "size"} => Pushing(p) \in Safe(L, H)

\* The values in the order in which pop gives them out.
ValueOf == [c \in Keys |-> value[MAKE_NODEPTR(c)]]
Line(L) == popped \o Mapped(ValueOf, IF cpc = "value" THEN L ELSE Tail(L))

\* Of each value in q, those that e names are in front of it.
Sorted(q, e) == \A i \in DOMAIN q : e[q[i]] \subseteq {q[j] : j \in 1 .. i - 1}

InOrder(L, H) ==
    /\ \A v \in Values : ~Begun(v) => earlier[v] = {}
    /\ \/ detached
       \/ /\ \A p \in Linkers : Len(H[p]) = 1
          /\ Sorted(Line(L), earlier)
          /\ \A p \in Producers : pc[p] \in LinkLabels \union {"init"} =>
                 earlier[Pushing(p)] \subseteq Safe(L, H)

Inv(L, H) == /\ Hangs(L, H) /\ Locals /\ Apart(L, H) /\ Numbers(L, H) /\ TailsRead(H)
             /\ TailMoves(L) /\ Consumer /\ ValuesApart(L, H) /\ InOrder(L, H)

IInv == /\ TypeOK
        /\ \E L \in Seq(Keys) : \E H \in [Producers -> Seq(Keys)] : Inv(L, H)

----------------------------------------------------------------------------
(* The steps of both queues.                                                *)

\* Any free node, as the pool of lockFreeJobQueue.h gives one.
Allocates(p) ==
    /\ PushBegin(p) /\ Alloc(p) /\ Goto(p, "init")
    /\ NoteEarlier(p) \/ UNCHANGED earlier
    /\ UNCHANGED <<key, value, _head, _tail, _size, tail, seen, consumerVars,
                   returned, refused, popped, detached>>

QueueStep(p) == \/ PushRefused(p) \/ Allocates(p) \/ PushInit(p) \/ ReadTail(p) \/ ReadKey(p)
                \/ Link(p) \/ Swing(p) \/ Help(p) \/ PushReturn(p)
QueueNext == Pop \/ JobTake \/ \E p \in Producers : QueueStep(p)

USE DEF vars, listVars, producerVars, consumerVars, pushedVars, historyVars

\* The first node of the pool is one of its nodes.
LEMMA FirstIsAny ==
  ASSUME NEW q \in Seq(Nodes), q # <<>>
  PROVE  /\ 1 \in DOMAIN q /\ Head(q) = q[1]
         /\ Tail(q) = SubSeq(q, 1, 1 - 1) \o SubSeq(q, 1 + 1, Len(q))
<1>1. Len(q) \in Nat /\ DOMAIN q = 1 .. Len(q) /\ Len(q) > 0 BY SeqParts
<1>2. Head(q) = q[1] /\ Tail(q) = SubSeq(q, 2, Len(q)) BY HeadAndTail, TailIsSubSeq
<1>3. SubSeq(q, 1, 0) = <<>> BY SubSeqEmpty
<1> DEFINE t == SubSeq(q, 2, Len(q))
<1>4. t \in Seq(Nodes) BY <1>2, HeadAndTail
<1> HIDE DEF t
<1>5. <<>> \o t = t BY <1>4, ConcatEmptySeq
<1>6. 1 - 1 = 0 /\ 1 + 1 = 2 OBVIOUS
<1> QED BY <1>1, <1>2, <1>3, <1>5, <1>6 DEF t

LEMMA PushAllocIsStep == ASSUME TypeOK, NEW p \in Producers, PushAlloc(p) PROVE Allocates(p)
<1>1. pool \in Seq(Nodes) /\ pool # <<>> BY DEF TypeOK, PushAlloc, PoolAlloc
<1>2. /\ 1 \in DOMAIN pool /\ Head(pool) = pool[1]
      /\ Tail(pool) = SubSeq(pool, 1, 1 - 1) \o SubSeq(pool, 1 + 1, Len(pool))
  BY <1>1, FirstIsAny
<1>3. Alloc(p)
  <2>1. pool' = SubSeq(pool, 1, 1 - 1) \o SubSeq(pool, 1 + 1, Len(pool))
    BY <1>2 DEF PushAlloc, PoolAlloc
  <2>2. newKey' = [newKey EXCEPT ![p] = MAKE_KEY(pool[1], pushs + 1)]
    BY <1>2 DEF PushAlloc, PushBegin
  <2> QED BY <1>2, <2>1, <2>2 DEF Alloc
<1> QED BY <1>3 DEF PushAlloc, Allocates

LEMMA NextIsQueueNext == ASSUME TypeOK, Next PROVE QueueNext
<1>1. CASE Pop BY <1>1 DEF QueueNext
<1>2. ASSUME NEW p \in Producers, Push(p) PROVE QueueNext
  BY <1>2, PushAllocIsStep DEF Push, QueueNext, QueueStep
<1> QED BY <1>1, <1>2 DEF Next

LEMMA JobNextIsQueueNext == ASSUME JobNext PROVE QueueNext
<1>1. ASSUME NEW p \in Producers, Callback(p) PROVE QueueNext
  <2>1. CASE CallbackReturn(p) BY <2>1 DEF CallbackReturn, QueueNext, QueueStep
  <2>2. ASSUME NEW s \in Sessions, OnNewConnect(p, s) \/ OnRecv(p, s) \/ OnDisconnect(p, s)
        PROVE  Allocates(p)
    BY <2>2 DEF OnNewConnect, OnRecv, OnDisconnect, JobPush, Allocates
  <2> QED BY <1>1, <2>1, <2>2 DEF Callback, QueueNext, QueueStep
<1>2. ASSUME NEW p \in Producers, PushLoop(p) PROVE QueueNext
  BY <1>2 DEF PushLoop, QueueNext, QueueStep
<1>3. CASE JobPop BY <1>3 DEF JobPop, QueueNext, Pop, PopLoop
<1> QED BY <1>1, <1>2, <1>3 DEF JobNext

----------------------------------------------------------------------------
(* The first state.                                                         *)

LEMMA NewPoolIs ==
  /\ NewPool \in Seq(Nodes) /\ NewPool # <<>>
  /\ IsInjective(NewPool) /\ Range(NewPool) = Nodes
<1>1. PoolSize \in Nat \ {0} BY QueueAssumption
<1> DEFINE e(i) == PoolSize + 1 - i
<1>2. \A i \in 1 .. PoolSize : e(i) \in Nodes BY <1>1 DEF Nodes
<1>3. NewPool = [i \in 1 .. PoolSize |-> e(i)] BY DEF NewPool
<1>4. NewPool \in Seq(Nodes) BY <1>1, <1>2, <1>3
<1>5. DOMAIN NewPool = 1 .. PoolSize /\ \A i \in 1 .. PoolSize : NewPool[i] = PoolSize + 1 - i
  BY <1>3
<1>6. Len(NewPool) = PoolSize BY <1>1, <1>4, <1>5, LenProperties
<1>7. IsInjective(NewPool)
  <2>1. \A i, j \in 1 .. PoolSize : NewPool[i] = NewPool[j] => i = j BY <1>1, <1>5
  <2> QED BY <1>5, <2>1 DEF IsInjective
<1>8. Range(NewPool) = Nodes
  <2>1. Range(NewPool) \subseteq Nodes BY <1>4, SeqParts
  <2>2. ASSUME NEW n \in Nodes PROVE n \in Range(NewPool)
    <3> DEFINE i == PoolSize + 1 - n
    <3>1. n \in 1 .. PoolSize BY DEF Nodes
    <3>2. i \in 1 .. PoolSize /\ PoolSize + 1 - i = n BY <1>1, <3>1
    <3> HIDE DEF i
    <3>3. NewPool[i] = n BY <1>5, <3>2
    <3> QED BY <1>5, <3>2, <3>3 DEF Range
  <2> QED BY <2>1, <2>2
<1>9. NewPool # <<>> BY <1>1, <1>4, <1>6, EmptySeq
<1> QED BY <1>4, <1>7, <1>8, <1>9

LEMMA InitIInv == Init => IInv
<1> SUFFICES ASSUME Init PROVE IInv OBVIOUS
<1> DEFINE d == Head(NewPool)
           r == MAKE_KEY(d, 0)
           L == <<r>>
           H == [p \in Producers |-> <<>>]
<1>1. /\ d \in Nodes /\ pool \in Seq(Nodes) /\ IsInjective(pool) /\ d \notin Range(pool)
      /\ Nodes = {d} \union Range(pool)
  <2>1. pool = Tail(NewPool) BY DEF Init
  <2> QED BY <2>1, NewPoolIs, HeadAndTail
<1>2. r \in Keys /\ MAKE_NODEPTR(r) = d /\ r[2] = 0 BY <1>1, KeyParts
<1>3. _head = r /\ _tail = r BY DEF Init
<1>4. L \in Seq(Keys) /\ H \in [Producers -> Seq(Keys)] BY <1>2
<1>5. TypeOK
  <2>1. <<>> \in Seq(Values) BY EmptySeq
  <2>2. 0 \in 0 .. MaxPushes /\ MaxPushes \in Nat BY QueueAssumption
  <2> HIDE DEF r
  <2>3. key \in [Nodes -> Keys \union {NULL}] /\ value \in [Nodes -> Values \union {NULL}]
    BY DEF Init
  <2>4. _head \in Keys /\ _tail \in Keys /\ pool \in Seq(Nodes) BY <1>1, <1>2, <1>3
  <2>5. _size \in Int /\ pushs \in Nat /\ count \in [Producers -> 0 .. MaxPushes]
    BY <2>2 DEF Init
  <2>6. /\ pc \in [Producers -> {"idle", "init", "tail", "key", "link", "help", "swing", "size"}]
        /\ newKey \in [Producers -> Keys \union {NoKey}]
        /\ tail \in [Producers -> Keys \union {NoKey}]
        /\ seen \in [Producers -> Keys \union {NoKey}]
    BY DEF Init
  <2>7. /\ cpc = "idle" /\ ctail = NoKey /\ ckey = NoKey
        /\ returned = {} /\ refused = {} /\ detached = FALSE /\ popped = <<>>
    BY DEF Init
  <2>8. earlier \in [Values -> SUBSET Values] BY DEF Init
  <2> QED BY <2>1, <2>3, <2>4, <2>5, <2>6, <2>7, <2>8 DEF TypeOK
<1>6. Path(key, r, L)
  <2>1. key[MAKE_NODEPTR(r)] = NULL BY <1>1, <1>2 DEF Init
  <2> HIDE DEF r
  <2> QED BY <1>2, <2>1, PathOfOne
<1>7. Range(L) = {r} /\ NodesIn(L) = {d}
  <2>1. Range(L) = {r}
    <3>1. Len(L) = 1 /\ L[1] = r OBVIOUS
    <3> HIDE DEF r, L
    <3> QED BY <1>4, <3>1, SeqParts
  <2> HIDE DEF L, r, d
  <2> QED BY <1>2, <2>1 DEF NodesIn
<1>8. \A p \in Producers : H[p] = <<>> /\ pc[p] = "idle" BY DEF Init
<1>9. cpc = "idle" /\ popped = <<>> /\ returned = {} /\ refused = {} BY DEF Init
<1>10. Range(<<>>) = {} /\ NodesIn(<<>>) = {} /\ IsInjective(<<>>)
  BY EmptyRange DEF NodesIn
<1>11. HangingKeys(H) = {} BY <1>8, <1>10 DEF HangingKeys
<1>12. Linkers = {} /\ Own = {} BY <1>8 DEF Linkers, LinkLabels, Own
<1>13. Carriers(L, H) = {}
  <2>1. NodesIn(L) \ {MAKE_NODEPTR(_head)} = {} BY <1>2, <1>3, <1>7
  <2> HIDE DEF H, L, r
  <2> QED BY <1>9, <1>12, <2>1 DEF Carriers
<1>14. Line(L) = <<>>
  <2>1. Tail(L) = <<>>
    <3>1. Len(L) = 1 /\ L # <<>> OBVIOUS
    <3> HIDE DEF L
    <3>2. Tail(L) \in Seq(Keys) /\ Len(Tail(L)) = 0 BY <1>4, <3>1, HeadTailProperties
    <3> QED BY <3>2, EmptySeq
  <2>2. Mapped(ValueOf, <<>>) = <<>>
    <3>1. DOMAIN <<>> = {} OBVIOUS
    <3> QED BY DEF Mapped
  <2>3. <<>> \o <<>> = <<>> OBVIOUS
  <2> HIDE DEF L
  <2> QED BY <1>9, <2>1, <2>2, <2>3 DEF Line
<1> HIDE DEF L, H, r, d
<1>15. Hangs(L, H) BY <1>3, <1>6, <1>8 DEF Hangs, LinkLabels
<1>16. Locals BY <1>8, <1>9 DEF Locals
<1>17. Apart(L, H) BY <1>1, <1>7, <1>8, <1>10 DEF Apart
<1>18. Numbers(L, H)
  <2>1. \A c \in Range(L) \union HangingKeys(H) : c[2] <= pushs
    BY <1>2, <1>7, <1>11 DEF Init
  <2>2. \A p \in Producers : Len(H[p]) = 0 BY <1>8
  <2> QED BY <2>1, <2>2 DEF Numbers
<1>19. TailsRead(H) BY <1>8 DEF TailsRead
<1>20. TailMoves(L) BY <1>3, <1>7, <1>8 DEF TailMoves
<1>21. Consumer BY <1>9 DEF Consumer
<1>22. ValuesApart(L, H) BY <1>8, <1>9, <1>10, <1>13 DEF ValuesApart, LinkLabels
<1>23. InOrder(L, H)
  <2>1. \A v \in Values : earlier[v] = {} BY DEF Init
  <2>2. DOMAIN <<>> = {} OBVIOUS
  <2>3. Sorted(Line(L), earlier) BY <1>14, <2>2 DEF Sorted
  <2> QED BY <1>8, <1>12, <2>1, <2>3 DEF InOrder, LinkLabels
<1>24. Inv(L, H)
  BY <1>15, <1>16, <1>17, <1>18, <1>19, <1>20, <1>21, <1>22, <1>23 DEF Inv
<1> QED BY <1>4, <1>5, <1>24 DEF IInv

----------------------------------------------------------------------------
(* Steps that only read, or move _tail.                                     *)

\* The threads stay where they are but for the points between these.
Quiet ==
    /\ UNCHANGED <<key, value, _head, pool, pushs, newKey, count, returned, refused, earlier,
                   popped, detached>>
    /\ \A p \in Producers :
           /\ pc[p] = "idle" <=> pc'[p] = "idle"
           /\ pc[p] = "init" <=> pc'[p] = "init"
           /\ pc[p] \in LinkLabels <=> pc'[p] \in LinkLabels
           /\ pc[p] \in {"swing", "size"} <=> pc'[p] \in {"swing", "size"}
    /\ cpc = "value" <=> cpc' = "value"

LEMMA QuietStep ==
  ASSUME NEW L, NEW H, Inv(L, H), Quiet
  PROVE  Hangs(L, H)' /\ Apart(L, H)' /\ Numbers(L, H)' /\ ValuesApart(L, H)' /\ InOrder(L, H)'
<1>1. Hangs(L, H)'
  <2>1. /\ Hangs(L, H) /\ key' = key /\ _head' = _head /\ newKey' = newKey
        /\ \A p \in Producers :
               /\ pc[p] = "init" <=> pc'[p] = "init"
               /\ pc[p] \in LinkLabels <=> pc'[p] \in LinkLabels
               /\ pc[p] \in {"idle", "swing", "size"} <=> pc'[p] \in {"idle", "swing", "size"}
    BY DEF Inv, Quiet
  <2> QED BY <2>1 DEF Hangs
<1>2. Apart(L, H)' BY DEF Inv, Quiet, Apart
<1>3. Numbers(L, H)' BY DEF Inv, Quiet, Numbers
<1>4. Linkers' = Linkers BY DEF Quiet, Linkers
<1>5. Own' = Own BY <1>4 DEF Own, Mine, Quiet
<1>6. Carriers(L, H)' = Carriers(L, H) BY <1>4 DEF Carriers, Quiet
<1>7. Safe(L, H)' = Safe(L, H) BY <1>5, <1>6 DEF Safe, Quiet
<1>8. /\ \A v : Begun(v)' <=> Begun(v)
      /\ \A p \in Producers : Pushing(p)' = Pushing(p) /\ Mine(p)' = Mine(p)
  BY DEF Begun, Pushing, Mine, Quiet
<1>9. ValuesApart(L, H)'
  <2>1. /\ ValuesApart(L, H) /\ value' = value /\ popped' = popped /\ refused' = refused
        /\ returned' = returned /\ count' = count
        /\ \A p \in Producers :
               /\ pc[p] # "idle" <=> pc'[p] # "idle"
               /\ pc[p] = "init" <=> pc'[p] = "init"
               /\ pc[p] \in LinkLabels <=> pc'[p] \in LinkLabels
               /\ pc[p] \in {"swing", "size"} <=> pc'[p] \in {"swing", "size"}
    BY DEF Inv, Quiet
  <2> QED BY <1>6, <1>7, <1>8, <2>1 DEF ValuesApart
<1>10. Line(L)' = Line(L) BY DEF Line, ValueOf, Quiet
<1>11. InOrder(L, H)'
  <2>1. /\ InOrder(L, H) /\ earlier' = earlier /\ detached' = detached
        /\ \A p \in Producers : pc[p] \in LinkLabels \union {"init"} <=>
                                    pc'[p] \in LinkLabels \union {"init"}
    BY DEF Inv, Quiet
  <2> QED BY <1>4, <1>7, <1>8, <1>10, <2>1 DEF InOrder
<1> QED BY <1>1, <1>2, <1>3, <1>9, <1>11

\* What is in the list is nowhere else, and the next key is in the list too.
LEMMA ListApart ==
  ASSUME NEW L, NEW H, Inv(L, H), NEW c \in Range(L)
  PROVE  /\ c \in Keys /\ MAKE_NODEPTR(c) \in Nodes /\ MAKE_NODEPTR(c) \in NodesIn(L)
         /\ c[2] <= pushs /\ c \notin HangingKeys(H)
         /\ \A d \in HangingKeys(H) : MAKE_NODEPTR(d) # MAKE_NODEPTR(c)
         /\ MAKE_NODEPTR(c) \notin Range(pool)
         /\ \A q \in Producers : pc[q] = "init" => Mine(q) # MAKE_NODEPTR(c)
         /\ key[MAKE_NODEPTR(c)] # NULL => /\ key[MAKE_NODEPTR(c)] \in Range(L)
                                           /\ key[MAKE_NODEPTR(c)] # _head
<1>1. Path(key, _head, L) /\ Hangs(L, H) /\ Apart(L, H) /\ Numbers(L, H) BY DEF Inv, Hangs
<1>2. /\ L \in Seq(Keys) /\ Len(L) \in Nat /\ Len(L) > 0 /\ L[1] = _head
      /\ \A d \in Range(L) : key[MAKE_NODEPTR(d)] = NULL \/ key[MAKE_NODEPTR(d)] \in Range(L)
  BY <1>1, PathParts
<1>3. Range(L) = {L[i] : i \in 1 .. Len(L)} /\ Range(L) \subseteq Keys BY <1>2, SeqParts
<1>4. c \in Keys /\ MAKE_NODEPTR(c) \in Nodes BY <1>3, KeyParts
<1>5. MAKE_NODEPTR(c) \in NodesIn(L) BY DEF NodesIn
<1>6. c[2] <= pushs BY <1>1 DEF Numbers
<1>7. \A d \in HangingKeys(H) : MAKE_NODEPTR(d) # MAKE_NODEPTR(c)
  <2> TAKE d \in HangingKeys(H)
  <2>1. PICK q \in Producers : d \in Range(H[q]) BY DEF HangingKeys
  <2>2. MAKE_NODEPTR(d) \in NodesIn(H[q]) BY <2>1 DEF NodesIn
  <2> QED BY <1>1, <1>5, <2>2 DEF Apart
<1>8. c \notin HangingKeys(H) BY <1>7
<1>9. MAKE_NODEPTR(c) \notin Range(pool) BY <1>1, <1>5 DEF Apart
<1>10. \A q \in Producers : pc[q] = "init" => Mine(q) # MAKE_NODEPTR(c)
  <2> SUFFICES ASSUME NEW q \in Producers, pc[q] = "init" PROVE Mine(q) # MAKE_NODEPTR(c)
    OBVIOUS
  <2>1. H[q] = <<newKey[q]>> BY <1>1 DEF Hangs
  <2>2. newKey[q] \in Range(H[q]) BY <2>1 DEF Range
  <2>3. newKey[q] \in HangingKeys(H) BY <2>2 DEF HangingKeys
  <2> QED BY <1>7, <2>3 DEF Mine
<1>11. ASSUME key[MAKE_NODEPTR(c)] # NULL
       PROVE  key[MAKE_NODEPTR(c)] \in Range(L) /\ key[MAKE_NODEPTR(c)] # _head
  <2>1. key[MAKE_NODEPTR(c)] \in Range(L) BY <1>2, <1>11
  <2>2. PICK i \in 1 .. Len(L) : c = L[i] BY <1>3
  <2>3. i # Len(L) BY <1>1, <1>11, <2>2 DEF Path
  <2> DEFINE j == i + 1
  <2>4. i \in 1 .. Len(L) - 1 /\ j \in 1 .. Len(L) /\ 1 \in 1 .. Len(L) /\ j # 1
    BY <1>2, <2>3
  <2>5. key[MAKE_NODEPTR(c)] = L[j] BY <1>1, <2>2, <2>4 DEF Path
  <2>6. MAKE_NODEPTR(L[j]) # MAKE_NODEPTR(L[1]) BY <1>1, <2>4 DEF Path
  <2> HIDE DEF j
  <2> QED BY <1>2, <2>1, <2>5, <2>6
<1> QED BY <1>4, <1>5, <1>6, <1>7, <1>8, <1>9, <1>10, <1>11

LEMMA ReadTailStep ==
  ASSUME TypeOK, NEW L, NEW H, Inv(L, H), NEW p \in Producers, ReadTail(p)
  PROVE  TypeOK' /\ Inv(L, H)'
<1>1. /\ pc[p] = "tail" /\ pc' = [pc EXCEPT ![p] = "key"] /\ tail' = [tail EXCEPT ![p] = _tail]
      /\ UNCHANGED <<listVars, _size, pushs, newKey, seen, consumerVars, historyVars>>
  BY DEF ReadTail, Goto
<1>2. TypeOK' BY <1>1 DEF TypeOK
<1>3. Quiet BY <1>1 DEF Quiet, LinkLabels, TypeOK
<1>4. _tail \in Range(L) /\ TailsRead(H) /\ TailMoves(L) /\ Locals /\ Consumer
  BY DEF Inv, TailMoves
<1>5. /\ _tail \in Keys /\ _tail[2] <= pushs /\ _tail \notin HangingKeys(H)
      /\ \A d \in HangingKeys(H) : MAKE_NODEPTR(d) # MAKE_NODEPTR(_tail)
      /\ MAKE_NODEPTR(_tail) \notin Range(pool)
      /\ \A q \in Producers : pc[q] = "init" => Mine(q) # MAKE_NODEPTR(_tail)
  BY <1>4, ListApart
<1>6. /\ tail'[p] = _tail /\ pc'[p] = "key"
      /\ \A q \in Producers : q # p => tail'[q] = tail[q] /\ pc'[q] = pc[q]
      /\ \A q \in Producers : Mine(q)' = Mine(q) /\ (pc'[q] = "init" => pc[q] = "init")
  BY <1>1 DEF TypeOK, Mine
<1>7. Locals' BY <1>1, <1>4, <1>5, <1>6 DEF Locals
<1>8. TailsRead(H)'
  <2>1. \A q \in Producers : pc'[q] \in {"key", "link", "help", "swing"} =>
            tail'[q][2] <= pushs /\ tail'[q] \notin HangingKeys(H)
    BY <1>4, <1>5, <1>6 DEF TailsRead
  <2>2. ASSUME NEW q \in Producers, pc'[q] \in {"key", "link"}
        PROVE /\ \A c \in HangingKeys(H) :
                     MAKE_NODEPTR(c) = MAKE_NODEPTR(tail'[q]) => c[2] > newKey[q][2]
              /\ \/ MAKE_NODEPTR(tail'[q]) \in Range(pool)
                 \/ \E r \in Producers : pc[r] = "init" /\ Mine(r) = MAKE_NODEPTR(tail'[q])
                 => key[MAKE_NODEPTR(tail'[q])] # NULL
    <3>1. CASE q = p BY <1>5, <1>6, <3>1
    <3>2. CASE q # p BY <1>4, <1>6, <2>2, <3>2 DEF TailsRead
    <3> QED BY <3>1, <3>2
  <2> QED BY <1>1, <1>6, <2>1, <2>2 DEF TailsRead
<1>9. TailMoves(L)' BY <1>1, <1>4, <1>6 DEF TailMoves
<1>10. Consumer' BY <1>1, <1>4 DEF Consumer
<1>11. Hangs(L, H)' /\ Apart(L, H)' /\ Numbers(L, H)' /\ ValuesApart(L, H)' /\ InOrder(L, H)'
  BY <1>3, QuietStep
<1> QED BY <1>2, <1>7, <1>8, <1>9, <1>10, <1>11 DEF Inv

LEMMA ReadKeyStep ==
  ASSUME TypeOK, NEW L, NEW H, Inv(L, H), NEW p \in Producers, ReadKey(p)
  PROVE  TypeOK' /\ Inv(L, H)'
<1> DEFINE k == key[MAKE_NODEPTR(tail[p])]
<1>1. /\ pc[p] = "key" /\ seen' = [seen EXCEPT ![p] = k] /\ seen'[p] = k
      /\ pc' = [pc EXCEPT ![p] = IF k = NULL THEN "link" ELSE "help"]
      /\ UNCHANGED <<listVars, _size, pushs, newKey, tail, consumerVars, historyVars>>
  BY DEF ReadKey, Goto, TypeOK
<1>2. TailsRead(H) /\ TailMoves(L) /\ Locals /\ Consumer BY DEF Inv
<1>3. tail[p] \in Keys /\ MAKE_NODEPTR(tail[p]) \in Nodes BY <1>1, <1>2, KeyParts DEF Locals
<1>4. k \in Keys \union {NULL} BY <1>3 DEF TypeOK
<1> HIDE DEF k
<1>5. TypeOK' BY <1>1, <1>4 DEF TypeOK, NoKey
<1>6. Quiet BY <1>1 DEF Quiet, LinkLabels, TypeOK
<1>7. /\ pc'[p] \in {"link", "help"} /\ (pc'[p] = "help" => k # NULL)
      /\ \A q \in Producers : q # p => seen'[q] = seen[q] /\ pc'[q] = pc[q]
      /\ \A q \in Producers : Mine(q)' = Mine(q) /\ (pc'[q] = "init" => pc[q] = "init")
  BY <1>1 DEF TypeOK, Mine
<1>8. Locals' BY <1>1, <1>2, <1>4, <1>7 DEF Locals
<1>9. TailsRead(H)'
  <2>1. \A q \in Producers : /\ pc'[q] \in {"key", "link", "help", "swing"} =>
                                    pc[q] \in {"key", "link", "help", "swing"}
                             /\ pc'[q] \in {"key", "link"} => pc[q] \in {"key", "link"}
    BY <1>1, <1>7
  <2> QED BY <1>1, <1>2, <1>7, <2>1 DEF TailsRead
<1>10. TailMoves(L)' BY <1>1, <1>2, <1>7 DEF TailMoves, k
<1>11. Consumer' BY <1>1, <1>2 DEF Consumer
<1>12. Hangs(L, H)' /\ Apart(L, H)' /\ Numbers(L, H)' /\ ValuesApart(L, H)' /\ InOrder(L, H)'
  BY <1>6, QuietStep
<1> QED BY <1>5, <1>8, <1>9, <1>10, <1>11, <1>12 DEF Inv

\* The compare-and-swap fails.
LEMMA LinkAgainStep ==
  ASSUME TypeOK, NEW L, NEW H, Inv(L, H), NEW p \in Producers,
         Link(p), key[MAKE_NODEPTR(tail[p])] # NULL
  PROVE  TypeOK' /\ Inv(L, H)'
<1>1. /\ pc[p] = "link" /\ pc' = [pc EXCEPT ![p] = "tail"]
      /\ UNCHANGED <<listVars, _size, pushs, newKey, tail, seen, consumerVars, historyVars>>
  BY DEF Link, Goto
<1>2. TailsRead(H) /\ TailMoves(L) /\ Locals /\ Consumer BY DEF Inv
<1>3. TypeOK' BY <1>1 DEF TypeOK
<1>4. Quiet BY <1>1 DEF Quiet, LinkLabels, TypeOK
<1>5. /\ pc'[p] = "tail"
      /\ \A q \in Producers : q # p => pc'[q] = pc[q]
      /\ \A q \in Producers : Mine(q)' = Mine(q) /\ (pc'[q] = "init" => pc[q] = "init")
  BY <1>1 DEF TypeOK, Mine
<1>6. Locals' BY <1>1, <1>2, <1>5 DEF Locals
<1>7. TailsRead(H)'
  <2>1. \A q \in Producers : /\ pc'[q] \in {"key", "link", "help", "swing"} =>
                                    pc[q] \in {"key", "link", "help", "swing"}
                             /\ pc'[q] \in {"key", "link"} => pc[q] \in {"key", "link"}
    BY <1>1, <1>5
  <2> QED BY <1>1, <1>2, <1>5, <2>1 DEF TailsRead
<1>8. TailMoves(L)' BY <1>1, <1>2, <1>5 DEF TailMoves
<1>9. Consumer' BY <1>1, <1>2 DEF Consumer
<1>10. Hangs(L, H)' /\ Apart(L, H)' /\ Numbers(L, H)' /\ ValuesApart(L, H)' /\ InOrder(L, H)'
  BY <1>4, QuietStep
<1> QED BY <1>3, <1>6, <1>7, <1>8, <1>9, <1>10 DEF Inv

\* _tail goes from the key p read to the next one, or another moved it.
LEMMA SwingStep ==
  ASSUME TypeOK, NEW L, NEW H, Inv(L, H), NEW p \in Producers, Swing(p) \/ Help(p)
  PROVE  TypeOK' /\ Inv(L, H)'
<1> DEFINE k == IF pc[p] = "swing" THEN newKey[p] ELSE seen[p]
<1>1. /\ pc[p] \in {"swing", "help"} /\ _tail' = IF _tail = tail[p] THEN k ELSE _tail
      /\ pc' = [pc EXCEPT ![p] = IF pc[p] = "swing" THEN "size" ELSE "tail"]
      /\ UNCHANGED <<key, value, _head, pool, _size, pushs, newKey, tail, seen,
                     consumerVars, historyVars>>
  BY DEF Swing, Help, Goto, SwingTail
<1>2. TailsRead(H) /\ TailMoves(L) /\ Locals /\ Consumer BY DEF Inv
<1>3. k \in Keys BY <1>1, <1>2 DEF Locals
<1>4. _tail = tail[p] => key[MAKE_NODEPTR(_tail)] = k BY <1>1, <1>2 DEF TailMoves
<1> HIDE DEF k
<1>5. TypeOK' BY <1>1, <1>3 DEF TypeOK
<1>6. Quiet BY <1>1 DEF Quiet, LinkLabels, TypeOK
<1>7. _tail' \in Range(L) /\ (_tail # _head => _tail' # _head)
  <2>1. _tail \in Range(L) BY <1>2 DEF TailMoves
  <2>2. k # NULL BY <1>3, KeyParts
  <2>3. _tail = tail[p] => k \in Range(L) /\ k # _head BY <1>4, <2>1, <2>2, ListApart
  <2> QED BY <1>1, <2>1, <2>3
<1>8. /\ pc'[p] \in {"size", "tail"} /\ (pc'[p] = "size" => pc[p] = "swing")
      /\ \A q \in Producers : q # p => pc'[q] = pc[q]
      /\ \A q \in Producers : Mine(q)' = Mine(q) /\ (pc'[q] = "init" => pc[q] = "init")
  BY <1>1 DEF TypeOK, Mine
<1>9. Locals' BY <1>1, <1>2, <1>8 DEF Locals
<1>10. TailsRead(H)'
  <2>1. \A q \in Producers : /\ pc'[q] \in {"key", "link", "help", "swing"} =>
                                    pc[q] \in {"key", "link", "help", "swing"}
                             /\ pc'[q] \in {"key", "link"} => pc[q] \in {"key", "link"}
    BY <1>8
  <2> QED BY <1>1, <1>2, <1>8, <2>1 DEF TailsRead
<1>11. TailMoves(L)'
  <2>1. \A q \in Producers : pc'[q] \in {"swing", "help"} => pc'[q] = pc[q] BY <1>8
  <2> QED BY <1>1, <1>2, <1>7, <2>1 DEF TailMoves
<1>12. Consumer' BY <1>1, <1>2, <1>7 DEF Consumer
<1>13. Hangs(L, H)' /\ Apart(L, H)' /\ Numbers(L, H)' /\ ValuesApart(L, H)' /\ InOrder(L, H)'
  BY <1>6, QuietStep
<1> QED BY <1>5, <1>9, <1>10, <1>11, <1>12, <1>13 DEF Inv

\* The consumer's steps up to the one that takes the dummy out.
LEMMA ConsumerStep ==
  ASSUME TypeOK, NEW L, NEW H, Inv(L, H), PopBegin \/ PopUndo \/ PopTail \/ PopKey \/ PopHelp
  PROVE  TypeOK' /\ Inv(L, H)'
<1>1. UNCHANGED <<key, value, _head, pool, pushs, producerVars, historyVars>>
  BY DEF PopBegin, PopUndo, PopTail, PopKey, PopHelp
<1>2. cpc # "value" /\ cpc' # "value" BY DEF PopBegin, PopUndo, PopTail, PopKey, PopHelp
<1>3. TailsRead(H) /\ TailMoves(L) /\ Locals /\ Consumer /\ Path(key, _head, L)
  BY DEF Inv, Hangs
<1>4. _head \in Range(L) /\ _head \in Keys /\ MAKE_NODEPTR(_head) \in Nodes
  BY <1>3, PathParts, KeyParts
<1>5. key[MAKE_NODEPTR(_head)] \in Keys \union {NULL} BY <1>4 DEF TypeOK
<1>6. Quiet BY <1>1, <1>2 DEF Quiet
<1>7. Hangs(L, H)' /\ Apart(L, H)' /\ Numbers(L, H)' /\ ValuesApart(L, H)' /\ InOrder(L, H)'
  BY <1>6, QuietStep
<1>8. TailsRead(H)' BY <1>1, <1>3 DEF TailsRead, Mine
<1>9. /\ _tail' \in Range(L) /\ _tail' \in Keys /\ _size' \in Int
      /\ cpc' \in {"idle", "undo", "tail", "key", "help", "take", "value"}
      /\ ctail' \in Keys \union {NoKey} /\ ckey' \in Keys \union {NoKey}
      /\ (cpc' \in {"key", "help", "take"} => ctail' \in Keys)
      /\ (cpc' \in {"help", "take"} => ckey' \in Keys)
      /\ Consumer'
  <2>1. CASE PopBegin BY <1>3, <2>1 DEF PopBegin, TypeOK, TailMoves, Consumer
  <2>2. CASE PopUndo BY <1>3, <2>2 DEF PopUndo, TypeOK, TailMoves, Consumer
  <2>3. CASE PopTail BY <1>3, <2>3 DEF PopTail, TypeOK, TailMoves, Consumer
  <2>4. CASE PopKey
    <3> DEFINE k == key[MAKE_NODEPTR(_head)]
    <3>1. /\ cpc = "key" /\ ckey' = k /\ UNCHANGED <<key, _head, _tail, _size, ctail>>
          /\ (k = NULL /\ cpc' = "tail") \/ (k # NULL /\ _head = ctail /\ cpc' = "help")
                \/ (k # NULL /\ _head # ctail /\ cpc' = "take")
      BY <2>4 DEF PopKey
    <3> HIDE DEF k
    <3>2. ctail \in Keys /\ k \in Keys \union {NULL} BY <1>3, <1>5, <3>1 DEF Locals, k
    <3>3. Consumer' BY <1>3, <3>1 DEF Consumer, k
    <3> QED BY <1>3, <3>1, <3>2, <3>3 DEF TypeOK, TailMoves, NoKey
  <2>5. CASE PopHelp
    <3>1. ctail = _head /\ key[MAKE_NODEPTR(_head)] # NULL BY <1>3, <2>5 DEF PopHelp, Consumer
    <3>2. key[MAKE_NODEPTR(_head)] \in Range(L) BY <1>4, <3>1, ListApart
    <3> QED BY <1>3, <1>5, <2>5, <3>1, <3>2 DEF PopHelp, SwingTail, TypeOK, TailMoves, Consumer
  <2> QED BY <2>1, <2>2, <2>3, <2>4, <2>5
<1>10. TypeOK' BY <1>1, <1>9 DEF TypeOK
<1>11. TailMoves(L)' BY <1>1, <1>3, <1>9 DEF TailMoves
<1>12. Locals' BY <1>1, <1>2, <1>3, <1>9 DEF Locals
<1> QED BY <1>7, <1>8, <1>9, <1>10, <1>11, <1>12 DEF Inv

----------------------------------------------------------------------------
(* What the invariant says of the values.                                   *)

LEMMA TailOfPath ==
  ASSUME NEW k, NEW r, NEW K, Path(k, r, K)
  PROVE  /\ Tail(K) \in Seq(Keys) /\ K = <<r>> \o Tail(K) /\ r \notin Range(Tail(K))
         /\ Range(Tail(K)) = Range(K) \ {r}
         /\ NodesIn(Tail(K)) = NodesIn(K) \ {MAKE_NODEPTR(r)}
<1>1. /\ K \in Seq(Keys) /\ Len(K) \in Nat /\ K[1] = r /\ r \in Range(K)
      /\ DOMAIN K = 1 .. Len(K)
      /\ \A c, d \in Range(K) : MAKE_NODEPTR(c) = MAKE_NODEPTR(d) => c = d
  BY PathParts
<1>2. K # <<>> BY DEF Path
<1>3. IsInjective(K) BY <1>1 DEF IsInjective, Path
<1>4. /\ Tail(K) \in Seq(Keys) /\ Head(K) = r /\ K = <<r>> \o Tail(K)
      /\ Range(K) = {r} \union Range(Tail(K)) /\ r \notin Range(Tail(K))
  BY <1>1, <1>2, <1>3, HeadAndTail
<1>5. Range(Tail(K)) = Range(K) \ {r} BY <1>4
<1>6. NodesIn(Tail(K)) = NodesIn(K) \ {MAKE_NODEPTR(r)} BY <1>1, <1>5 DEF NodesIn
<1> QED BY <1>4, <1>5, <1>6

\* What f makes of the elements of a sequence.
LEMMA MappedParts ==
  ASSUME NEW S, NEW f, NEW q \in Seq(S)
  PROVE  /\ DOMAIN Mapped(f, q) = 1 .. Len(q)
         /\ \A i \in 1 .. Len(q) : Mapped(f, q)[i] = f[q[i]]
         /\ \A y : y \in Range(Mapped(f, q)) <=> \E x \in Range(q) : y = f[x]
<1> DEFINE m == Mapped(f, q)
<1>1. Len(q) \in Nat /\ DOMAIN q = 1 .. Len(q) /\ Range(q) = {q[i] : i \in 1 .. Len(q)}
  BY SeqParts
<1>2. m = [i \in 1 .. Len(q) |-> f[q[i]]] BY <1>1 DEF Mapped
<1>3. DOMAIN m = 1 .. Len(q) /\ \A i \in 1 .. Len(q) : m[i] = f[q[i]] BY <1>2
<1> HIDE DEF m
<1>4. Range(m) = {m[i] : i \in 1 .. Len(q)} BY <1>3 DEF Range
<1>5. \A y : y \in Range(m) <=> \E x \in Range(q) : y = f[x] BY <1>1, <1>3, <1>4
<1> QED BY <1>3, <1>5 DEF m

LEMMA MappedOn ==
  ASSUME NEW S, NEW R, NEW f, NEW q \in Seq(S), \A x \in Range(q) : f[x] \in R
  PROVE  Mapped(f, q) \in Seq(R)
<1>1. Len(q) \in Nat /\ DOMAIN q = 1 .. Len(q) /\ Range(q) = {q[i] : i \in 1 .. Len(q)}
  BY SeqParts
<1>2. Mapped(f, q) = [i \in 1 .. Len(q) |-> f[q[i]]] BY <1>1 DEF Mapped
<1>3. \A i \in 1 .. Len(q) : f[q[i]] \in R BY <1>1
<1> QED BY <1>1, <1>2, <1>3

\* The keys whose values are to be delivered.
Waiting(L) == IF cpc = "value" THEN L ELSE Tail(L)
WaitingNodes(L) == IF cpc = "value" THEN NodesIn(L) ELSE NodesIn(L) \ {MAKE_NODEPTR(_head)}

\* The node of a push is not carried for anybody else.
LEMMA MineIs ==
  ASSUME NEW L, NEW H, Inv(L, H), NEW p \in Producers, pc[p] \in LinkLabels \union {"init"}
  PROVE  /\ newKey[p] \in Range(H[p]) /\ newKey[p] \in Keys /\ newKey[p] = H[p][1]
         /\ H[p] \in Seq(Keys) /\ H[p] # <<>> /\ newKey[p] \in HangingKeys(H)
         /\ Mine(p) \in NodesIn(H[p]) /\ Mine(p) \in Nodes
         /\ Mine(p) \notin NodesIn(L) /\ Mine(p) \notin Range(pool)
         /\ \A q \in Producers : q # p => Mine(p) \notin NodesIn(H[q])
         /\ pc[p] = "init" => Range(H[p]) = {newKey[p]} /\ NodesIn(H[p]) = {Mine(p)}
<1>1. Hangs(L, H) /\ Apart(L, H) /\ Locals BY DEF Inv
<1>2. newKey[p] \in Keys BY <1>1 DEF Locals, LinkLabels
<1>3. ASSUME pc[p] = "init"
      PROVE  /\ H[p] \in Seq(Keys) /\ H[p] # <<>> /\ newKey[p] = H[p][1]
             /\ newKey[p] \in Range(H[p])
             /\ Range(H[p]) = {newKey[p]} /\ NodesIn(H[p]) = {Mine(p)}
  <2>1. H[p] = <<newKey[p]>> BY <1>1, <1>3 DEF Hangs
  <2>2. H[p] \in Seq(Keys) /\ Len(H[p]) = 1 /\ H[p][1] = newKey[p] BY <1>2, <2>1
  <2>3. Range(H[p]) = {newKey[p]} /\ H[p] # <<>> BY <2>2, SeqParts
  <2> QED BY <2>2, <2>3 DEF NodesIn, Mine
<1>4. ASSUME pc[p] \in LinkLabels
      PROVE  /\ H[p] \in Seq(Keys) /\ H[p] # <<>> /\ newKey[p] = H[p][1]
             /\ newKey[p] \in Range(H[p]) /\ pc[p] # "init"
  <2>1. Path(key, newKey[p], H[p]) BY <1>1, <1>4 DEF Hangs
  <2>2. pc[p] # "init" BY <1>4 DEF LinkLabels
  <2>3. H[p] # <<>> BY <2>1 DEF Path
  <2> QED BY <2>1, <2>2, <2>3, PathParts
<1>5. newKey[p] \in Range(H[p]) BY <1>3, <1>4
<1>6. Mine(p) \in NodesIn(H[p]) BY <1>5 DEF NodesIn, Mine
<1>7. newKey[p] \in HangingKeys(H) BY <1>5 DEF HangingKeys
<1>8. Mine(p) \in Nodes BY <1>2, KeyParts DEF Mine
<1>9. Mine(p) \notin NodesIn(L) /\ Mine(p) \notin Range(pool) BY <1>1, <1>6 DEF Apart
<1>10. \A q \in Producers : q # p => Mine(p) \notin NodesIn(H[q]) BY <1>1, <1>6 DEF Apart
<1> QED BY <1>2, <1>3, <1>4, <1>5, <1>6, <1>7, <1>8, <1>9, <1>10

LEMMA LineIs ==
  ASSUME TypeOK, NEW L, NEW H, Inv(L, H)
  PROVE  /\ Waiting(L) \in Seq(Keys) /\ Range(Waiting(L)) \subseteq Range(L)
         /\ NodesIn(Waiting(L)) = WaitingNodes(L)
         /\ WaitingNodes(L) \subseteq Carriers(L, H) \ Own
         /\ Mapped(ValueOf, Waiting(L)) \in Seq(Values)
         /\ Line(L) = popped \o Mapped(ValueOf, Waiting(L)) /\ Line(L) \in Seq(Values)
         /\ Range(Line(L)) = Range(popped) \union {value[n] : n \in WaitingNodes(L)}
         /\ Range(Line(L)) \subseteq Safe(L, H)
         /\ \A v \in Range(Line(L)) : Begun(v)
         /\ (\A p \in Linkers : Len(H[p]) = 1) => Safe(L, H) = Range(Line(L))
         /\ IsInjective(Line(L))
<1> DEFINE W == Waiting(L)
           m == Mapped(ValueOf, W)
<1>1. Path(key, _head, L) /\ ValuesApart(L, H) /\ Hangs(L, H) BY DEF Inv, Hangs
<1>2. /\ L \in Seq(Keys) /\ Tail(L) \in Seq(Keys) /\ Range(Tail(L)) = Range(L) \ {_head}
      /\ NodesIn(Tail(L)) = NodesIn(L) \ {MAKE_NODEPTR(_head)}
      /\ \A c, d \in Range(L) : MAKE_NODEPTR(c) = MAKE_NODEPTR(d) => c = d
  BY <1>1, PathParts, TailOfPath
<1>3. W \in Seq(Keys) /\ NodesIn(W) = WaitingNodes(L) /\ Range(W) \subseteq Range(L)
  BY <1>2 DEF Waiting, WaitingNodes
<1>4. Line(L) = popped \o m BY DEF Line, Waiting
<1>5. WaitingNodes(L) \subseteq Carriers(L, H) BY DEF WaitingNodes, Carriers
<1>6. WaitingNodes(L) \intersect Own = {}
  <2>1. \A p \in Linkers : Mine(p) \notin NodesIn(L) BY MineIs DEF Linkers
  <2> QED BY <2>1 DEF WaitingNodes, Own
<1>7. Range(W) \subseteq Keys BY <1>3, SeqParts
<1> HIDE DEF W
<1>8. \A c \in Range(W) : ValueOf[c] = value[MAKE_NODEPTR(c)] /\ MAKE_NODEPTR(c) \in WaitingNodes(L)
  BY <1>3, <1>7 DEF ValueOf, NodesIn
<1>9. \A n \in WaitingNodes(L) : value[n] \in Values /\ Begun(value[n])
                                 /\ value[n] \notin Range(popped)
  BY <1>1, <1>5 DEF ValuesApart
<1>10. \A c \in Range(W) : ValueOf[c] \in Values BY <1>8, <1>9
<1>11. /\ m \in Seq(Values) /\ DOMAIN m = 1 .. Len(W) /\ \A i \in 1 .. Len(W) : m[i] = ValueOf[W[i]]
       /\ \A y : y \in Range(m) <=> \E c \in Range(W) : y = ValueOf[c]
  BY <1>3, <1>10, MappedOn, MappedParts
<1>12. Range(m) = {value[n] : n \in WaitingNodes(L)} BY <1>3, <1>8, <1>11 DEF NodesIn
<1> HIDE DEF m
<1>13. popped \in Seq(Values) BY DEF TypeOK
<1>14. Line(L) \in Seq(Values) /\ Range(Line(L)) = Range(popped) \union Range(m)
  BY <1>4, <1>11, <1>13, JoinedSets, ConcatProperties
<1>15. Range(Line(L)) = Range(popped) \union {value[n] : n \in WaitingNodes(L)}
  BY <1>12, <1>14
<1>16. Range(Line(L)) \subseteq Safe(L, H) BY <1>5, <1>6, <1>15 DEF Safe
<1>17. \A v \in Range(Line(L)) : Begun(v) BY <1>1, <1>9, <1>15 DEF ValuesApart
<1>18. ASSUME \A p \in Linkers : Len(H[p]) = 1 PROVE Safe(L, H) = Range(Line(L))
  <2>1. ASSUME NEW p \in Linkers PROVE NodesIn(H[p]) = {Mine(p)}
    <3>1. H[p] \in Seq(Keys) /\ newKey[p] = H[p][1] BY MineIs DEF Linkers
    <3>2. Range(H[p]) = {newKey[p]} BY <1>18, <3>1, SeqParts
    <3> QED BY <3>2 DEF NodesIn, Mine
  <2>2. Carriers(L, H) \ Own \subseteq WaitingNodes(L)
    BY <2>1 DEF Carriers, WaitingNodes, Own
  <2> QED BY <1>15, <1>16, <2>2 DEF Safe
<1>19. IsInjective(Line(L))
  <2>1. IsInjective(m)
    <3>1. Len(W) \in Nat /\ DOMAIN m = 1 .. Len(W) BY <1>3, <1>11, SeqParts
    <3>2. SUFFICES ASSUME NEW i \in 1 .. Len(W), NEW j \in 1 .. Len(W), m[i] = m[j]
                   PROVE  i = j
      BY <3>1 DEF IsInjective
    <3>3. W[i] \in Range(W) /\ W[j] \in Range(W) BY <1>3, SeqParts
    <3>4. value[MAKE_NODEPTR(W[i])] = value[MAKE_NODEPTR(W[j])] BY <1>8, <1>11, <3>2, <3>3
    <3>5. MAKE_NODEPTR(W[i]) = MAKE_NODEPTR(W[j])
      BY <1>1, <1>5, <1>8, <3>3, <3>4 DEF ValuesApart
    <3>6. W[i] = W[j] BY <1>2, <1>3, <3>3, <3>5
    <3>7. IsInjective(W)
      <4>1. IsInjective(L) BY <1>1, <1>2, SeqParts DEF IsInjective, Path
      <4>2. L # <<>> BY <1>1 DEF Path
      <4>3. IsInjective(Tail(L)) BY <1>2, <4>1, <4>2, HeadAndTail
      <4> QED BY <4>1, <4>3 DEF W, Waiting
    <3>8. DOMAIN W = 1 .. Len(W) BY <1>3, SeqParts
    <3> QED BY <3>6, <3>7, <3>8 DEF IsInjective
  <2>2. Range(popped) \intersect Range(m) = {} BY <1>9, <1>12
  <2>3. IsInjective(popped) BY <1>1 DEF ValuesApart
  <2> QED BY <1>4, <1>11, <1>13, <2>1, <2>2, <2>3, JoinedSets
<1> QED BY <1>3, <1>4, <1>5, <1>6, <1>11, <1>14, <1>15, <1>16, <1>17, <1>18, <1>19 DEF m, W

\* Nodes and values of the list do not change while the list does not.
LEMMA LineSame ==
  ASSUME TypeOK, NEW L, NEW H, Inv(L, H), \A n \in NodesIn(L) : value'[n] = value[n],
         popped' = popped, cpc = "value" <=> cpc' = "value"
  PROVE  Line(L)' = Line(L)
<1>1. /\ Waiting(L) \in Seq(Keys) /\ Range(Waiting(L)) \subseteq Range(L)
      /\ Line(L) = popped \o Mapped(ValueOf, Waiting(L))
  BY LineIs
<1>2. Waiting(L)' = Waiting(L) /\ Line(L)' = popped \o Mapped(ValueOf', Waiting(L))
  BY DEF Line, Waiting
<1>3. \A c \in Range(Waiting(L)) : ValueOf'[c] = ValueOf[c]
  <2> TAKE c \in Range(Waiting(L))
  <2>1. c \in Keys BY <1>1, SeqParts
  <2>2. MAKE_NODEPTR(c) \in NodesIn(L) BY <1>1 DEF NodesIn
  <2> QED BY <2>1, <2>2 DEF ValueOf
<1>4. Mapped(ValueOf', Waiting(L)) = Mapped(ValueOf, Waiting(L)) BY <1>3, MappedSame
<1> QED BY <1>1, <1>2, <1>4

\* A sorted line in which other values' predecessors are changed.
LEMMA SortedSame ==
  ASSUME NEW q, NEW e, NEW f, Sorted(q, e), \A v \in Range(q) : f[v] \subseteq e[v]
  PROVE  Sorted(q, f)
BY DEF Sorted, Range

\* A value behind all those in front of which it may not be.
LEMMA SortedLonger ==
  ASSUME NEW q \in Seq(Values), NEW e, NEW v \in Values, Sorted(q, e), e[v] \subseteq Range(q)
  PROVE  Sorted(Append(q, v), e)
<1> DEFINE r == Append(q, v)
           n == Len(q)
<1>1. /\ n \in Nat /\ DOMAIN q = 1 .. n /\ Range(q) = {q[i] : i \in 1 .. n}
  BY SeqParts
<1>2. /\ DOMAIN r = 1 .. n + 1 /\ \A i \in 1 .. n : r[i] = q[i]
      /\ r[n + 1] = v
  BY AppendProperties, SeqParts
<1> HIDE DEF r, n
<1>3. ASSUME NEW i \in 1 .. n PROVE e[r[i]] \subseteq {r[j] : j \in 1 .. i - 1}
  <2>1. e[q[i]] \subseteq {q[j] : j \in 1 .. i - 1} BY <1>1 DEF Sorted
  <2>2. \A j \in 1 .. i - 1 : r[j] = q[j] BY <1>1, <1>2
  <2> QED BY <1>2, <2>1, <2>2
<1>4. e[r[n + 1]] \subseteq {r[j] : j \in 1 .. n} BY <1>1, <1>2
<1>5. n + 1 - 1 = n /\ \A i \in 1 .. n + 1 : i \in 1 .. n \/ i = n + 1 BY <1>1
<1>6. ASSUME NEW i \in 1 .. n + 1 PROVE e[r[i]] \subseteq {r[j] : j \in 1 .. i - 1}
  <2>1. CASE i \in 1 .. n BY <1>3, <2>1
  <2>2. CASE i = n + 1
    <3>1. i - 1 = n BY <1>1, <2>2
    <3> QED BY <1>4, <2>2, <3>1, Zenon
  <2> QED BY <1>5, <2>1, <2>2
<1>7. Sorted(r, e) BY <1>2, <1>6 DEF Sorted
<1> QED BY <1>7 DEF r

\* A node on which none hangs carries the value that its push is pushing.
LEMMA MineAlone ==
  ASSUME NEW L, NEW H, Inv(L, H), NEW p \in Linkers, Len(H[p]) = 1
  PROVE  Mapped(ValueOf, H[p]) = <<Pushing(p)>> /\ Pushing(p) \in Values
<1>1. H[p] \in Seq(Keys) /\ H[p][1] = newKey[p] /\ newKey[p] \in Keys
  BY MineIs DEF Linkers
<1>2. ValueOf[newKey[p]] = Pushing(p)
  BY <1>1 DEF ValueOf, Mine, Inv, ValuesApart, Linkers
<1>3. DOMAIN H[p] = 1 .. 1 BY <1>1, SeqParts
<1>4. Mapped(ValueOf, H[p]) = [i \in 1 .. 1 |-> Pushing(p)]
  BY <1>1, <1>2, <1>3 DEF Mapped
<1>5. value[Mine(p)] = Pushing(p) /\ Mine(p) \in Carriers(L, H)
  BY MineIs DEF Inv, ValuesApart, Linkers, Carriers
<1> QED BY <1>4, <1>5 DEF Inv, ValuesApart


----------------------------------------------------------------------------
(* The steps of push.                                                       *)

\* A push begins: its value is new, and what it notes is safe already.
LEMMA BeginFacts ==
  ASSUME TypeOK, NEW L, NEW H, Inv(L, H), NEW p \in Producers, PushBegin(p),
         NoteEarlier(p) \/ UNCHANGED earlier, NEW v, v = NextValue(p)
  PROVE  /\ pc[p] = "idle" /\ pushs' \in Nat /\ pushs' = pushs + 1
         /\ count' \in [Producers -> 0 .. MaxPushes] /\ count'[p] = count[p] + 1
         /\ \A q \in Producers : q # p => count'[q] = count[q] /\ Pushing(q)' = Pushing(q)
         /\ Pushing(p)' = v /\ v \in Values /\ ~Begun(v) /\ Begun(v)'
         /\ \A w \in Values : Begun(w) => Begun(w)'
         /\ \A w \in Values : Begun(w)' => Begun(w) \/ w = v
         /\ earlier' \in [Values -> SUBSET Values]
         /\ \A w \in Values : w # v => earlier'[w] = earlier[w]
         /\ earlier'[v] \subseteq returned
<1>1. /\ pc[p] = "idle" /\ count[p] < MaxPushes /\ pushs' = pushs + 1
      /\ count' = [count EXCEPT ![p] = @ + 1]
  BY DEF PushBegin
<1>2. count[p] \in 0 .. MaxPushes /\ MaxPushes \in Nat /\ pushs \in Nat
  BY QueueAssumption DEF TypeOK
<1>3. count[p] + 1 \in 1 .. MaxPushes /\ count[p] + 1 \in 0 .. MaxPushes BY <1>1, <1>2
<1>4. count' \in [Producers -> 0 .. MaxPushes] /\ count'[p] = count[p] + 1
        /\ \A q \in Producers : q # p => count'[q] = count[q]
  BY <1>1, <1>3 DEF TypeOK
<1>5. v \in Values /\ v[1] = p /\ v[2] = count[p] + 1 /\ v = <<p, count[p] + 1>>
  BY <1>3 DEF Values, NextValue
<1>6. Pushing(p)' = v /\ \A q \in Producers : q # p => Pushing(q)' = Pushing(q)
  BY <1>4, <1>5 DEF Pushing
<1>7. ~Begun(v) /\ Begun(v)' BY <1>2, <1>4, <1>5 DEF Begun
<1>8. \A w \in Values : /\ w[1] \in Producers /\ w[2] \in 1 .. MaxPushes /\ w = <<w[1], w[2]>>
  BY DEF Values
<1>9. ASSUME NEW w \in Values PROVE (Begun(w) => Begun(w)') /\ (Begun(w)' => Begun(w) \/ w = v)
  <2>1. CASE w[1] # p BY <1>4, <1>8, <2>1 DEF Begun
  <2>2. CASE w[1] = p
    <3>1. Begun(w) <=> w[2] <= count[p] BY <2>2 DEF Begun
    <3>2. Begun(w)' <=> w[2] <= count[p] + 1 BY <1>4, <2>2 DEF Begun
    <3>3. w[2] \in Nat BY <1>2, <1>8
    <3>4. w[2] = count[p] + 1 => w = v BY <1>5, <1>8, <2>2
    <3> QED BY <1>2, <3>1, <3>2, <3>3, <3>4
  <2> QED BY <2>1, <2>2
<1>10. /\ earlier' \in [Values -> SUBSET Values]
       /\ \A w \in Values : w # v => earlier'[w] = earlier[w]
       /\ earlier'[v] \subseteq returned
  <2>1. earlier[v] = {} BY <1>5, <1>7 DEF Inv, InOrder
  <2>2. earlier \in [Values -> SUBSET Values] /\ returned \subseteq Values BY DEF TypeOK
  <2>3. CASE NoteEarlier(p)
    <3>1. earlier' = [earlier EXCEPT ![v] = returned] BY <1>5, <2>3 DEF NoteEarlier
    <3> QED BY <1>5, <2>2, <3>1
  <2>4. CASE UNCHANGED earlier BY <2>1, <2>2, <2>4
  <2> QED BY <2>3, <2>4
<1> QED BY <1>1, <1>2, <1>4, <1>5, <1>6, <1>7, <1>9, <1>10

\* The conjuncts of ValuesApart and InOrder when a push begins.
LEMMA BeginValues ==
  ASSUME TypeOK, NEW L, NEW H, Inv(L, H), NEW p \in Producers, PushBegin(p),
         NoteEarlier(p) \/ UNCHANGED earlier, NEW v, v = NextValue(p), NEW G,
         UNCHANGED <<value, popped, detached, returned, cpc, _head>>,
         refused' \subseteq refused \union {v},
         Carriers(L, G)' = Carriers(L, H), Own' = Own, Linkers' = Linkers,
         \A q \in Producers : q # p => pc'[q] = pc[q] /\ Mine(q)' = Mine(q),
         \A q \in Linkers : G[q] = H[q],
         (pc'[p] = "init" /\ refused' = refused) \/ pc'[p] = "idle"
  PROVE  ValuesApart(L, G)' /\ InOrder(L, G)'
<1>1. /\ pc[p] = "idle" /\ Pushing(p)' = v /\ v \in Values /\ ~Begun(v) /\ Begun(v)'
      /\ \A q \in Producers : q # p => Pushing(q)' = Pushing(q)
      /\ \A w \in Values : Begun(w) => Begun(w)'
      /\ \A w \in Values : Begun(w)' => Begun(w) \/ w = v
      /\ earlier' \in [Values -> SUBSET Values]
      /\ \A w \in Values : w # v => earlier'[w] = earlier[w]
      /\ earlier'[v] \subseteq returned
  BY BeginFacts
<1>2. ValuesApart(L, H) /\ InOrder(L, H) /\ Locals BY DEF Inv
<1>3. Safe(L, G)' = Safe(L, H) BY DEF Safe
<1>4. \A q \in Producers : pc[q] # "idle" => Pushing(q)' = Pushing(q) /\ pc'[q] = pc[q]
  BY <1>1
<1>5. \A q \in Producers : pc'[q] \in LinkLabels \union {"swing", "size"} =>
          q # p /\ pc[q] = pc'[q] /\ Pushing(q)' = Pushing(q) /\ Mine(q)' = Mine(q)
  BY <1>1 DEF LinkLabels
<1>6. Range(popped) \union refused \subseteq Values
  BY SeqParts DEF TypeOK
<1>7. v \notin Range(popped) \union refused /\ \A n \in Carriers(L, H) : value[n] # v
  BY <1>1, <1>2 DEF ValuesApart
<1>8. ValuesApart(L, G)'
  <2>1. \A n \in Carriers(L, H) : /\ value[n] \in Values /\ Begun(value[n])'
                                  /\ value[n] \notin Range(popped) \union refused'
    BY <1>1, <1>2, <1>7 DEF ValuesApart
  <2>2. /\ Range(popped) \intersect refused' = {}
        /\ \A w \in Range(popped) \union refused' : Begun(w)'
    BY <1>1, <1>2, <1>6, <1>7 DEF ValuesApart
  <2>3. ASSUME NEW q \in Producers, q # p
        PROVE  /\ pc'[q] # "idle" => Pushing(q)' \notin refused'
               /\ pc'[q] = "init" => /\ Pushing(q)' \notin Range(popped)
                                     /\ \A n \in Carriers(L, H) : value[n] # Pushing(q)'
               /\ pc'[q] \in LinkLabels => value[Mine(q)'] = Pushing(q)'
               /\ pc'[q] \in {"swing", "size"} => Pushing(q)' \in Safe(L, H)
    <3>1. pc'[q] = pc[q] /\ Pushing(q)' = Pushing(q) /\ Mine(q)' = Mine(q) BY <1>1, <2>3
    <3>2. Pushing(q) # v BY <2>3 DEF Pushing, NextValue
    <3> QED BY <1>2, <3>1, <3>2 DEF ValuesApart
  <2>4. /\ pc'[p] # "idle" => v \notin refused'
        /\ pc'[p] = "init" => /\ v \notin Range(popped)
                              /\ \A n \in Carriers(L, H) : value[n] # v
        /\ pc'[p] \notin LinkLabels \union {"swing", "size"}
    BY <1>7 DEF LinkLabels
  <2>5. /\ \A m, n \in Carriers(L, H) : value[m] = value[n] => m = n
        /\ IsInjective(popped) /\ returned \subseteq Safe(L, H)
    BY <1>2 DEF ValuesApart
  <2>6. \A q \in Producers :
               /\ pc'[q] # "idle" => Pushing(q)' \notin refused'
               /\ pc'[q] = "init" => /\ Pushing(q)' \notin Range(popped)
                                     /\ \A n \in Carriers(L, H) : value[n] # Pushing(q)'
               /\ pc'[q] \in LinkLabels => value[Mine(q)'] = Pushing(q)'
               /\ pc'[q] \in {"swing", "size"} => Pushing(q)' \in Safe(L, H)
    BY <1>1, <2>3, <2>4
  <2> QED BY <1>3, <2>1, <2>2, <2>5, <2>6 DEF ValuesApart
<1>9. InOrder(L, G)'
  <2>1. \A w \in Values : ~Begun(w)' => earlier'[w] = {} BY <1>1, <1>2 DEF InOrder
  <2>2. ASSUME ~detached
        PROVE  /\ \A q \in Linkers : Len(G[q]) = 1
               /\ Sorted(Line(L), earlier')
               /\ \A q \in Producers : pc'[q] \in LinkLabels \union {"init"} =>
                      earlier'[Pushing(q)'] \subseteq Safe(L, H)
    <3>1. /\ \A q \in Linkers : Len(H[q]) = 1
          /\ Sorted(Line(L), earlier)
          /\ \A q \in Producers : pc[q] \in LinkLabels \union {"init"} =>
                 earlier[Pushing(q)] \subseteq Safe(L, H)
      BY <1>2, <2>2 DEF InOrder
    <3>2. \A w \in Range(Line(L)) : w \in Values /\ w # v BY <1>1, LineIs, SeqParts
    <3>3. Sorted(Line(L), earlier') BY <1>1, <3>1, <3>2, SortedSame
    <3>4. ASSUME NEW q \in Producers, pc'[q] \in LinkLabels \union {"init"}
          PROVE  earlier'[Pushing(q)'] \subseteq Safe(L, H)
      <4>1. CASE q = p
        <5>1. returned \subseteq Safe(L, H) BY <1>2 DEF ValuesApart
        <5> QED BY <1>1, <4>1, <5>1
      <4>2. CASE q # p
        <5>1. Pushing(q)' = Pushing(q) /\ pc[q] = pc'[q] BY <1>1, <4>2
        <5>2. pc[q] # "idle" BY <3>4, <5>1 DEF LinkLabels
        <5>3. Pushing(q) \in Values
          <6>1. count[q] >= 1 /\ count[q] \in 0 .. MaxPushes BY <1>2, <5>2 DEF Locals, TypeOK
          <6>2. count[q] \in 1 .. MaxPushes BY <6>1, QueueAssumption
          <6> QED BY <6>2 DEF Pushing, Values
        <5>4. Pushing(q) # v BY <4>2 DEF Pushing, NextValue
        <5> QED BY <1>1, <3>1, <3>4, <5>1, <5>3, <5>4
      <4> QED BY <4>1, <4>2
    <3> QED BY <3>1, <3>3, <3>4
  <2>3. Line(L)' = Line(L) BY DEF Line, ValueOf
  <2> QED BY <1>3, <2>1, <2>2, <2>3 DEF InOrder
<1> QED BY <1>8, <1>9

LEMMA PushRefusedStep ==
  ASSUME TypeOK, NEW L, NEW H, Inv(L, H), NEW p \in Producers, PushRefused(p)
  PROVE  TypeOK' /\ Inv(L, H)'
<1>1. /\ PushBegin(p) /\ NoteEarlier(p)
      /\ UNCHANGED <<listVars, _size, producerVars, consumerVars, returned, popped, detached>>
  BY DEF PushRefused
<1>2. /\ Hangs(L, H) /\ Locals /\ Apart(L, H) /\ Numbers(L, H) /\ TailsRead(H)
      /\ TailMoves(L) /\ Consumer
  BY DEF Inv
<1>3. PICK v : v = NextValue(p) OBVIOUS
<1>4. /\ pc[p] = "idle" /\ pushs' \in Nat /\ pushs' = pushs + 1
      /\ count' \in [Producers -> 0 .. MaxPushes] /\ v \in Values
      /\ \A q \in Producers : q # p => count'[q] = count[q]
      /\ earlier' \in [Values -> SUBSET Values]
  BY <1>1, <1>3, BeginFacts
<1>5. refused' = refused \union {v} BY <1>3 DEF PushRefused, NextValue
<1>6. TypeOK' BY <1>1, <1>4, <1>5 DEF TypeOK
<1>7. Hangs(L, H)' BY <1>1, <1>2 DEF Hangs
<1>8. Locals' BY <1>1, <1>2, <1>4 DEF Locals
<1>9. Apart(L, H)' BY <1>1, <1>2 DEF Apart
<1>10. pushs \in Nat /\ \A m \in Nat : m <= pushs => m <= pushs' BY <1>4 DEF TypeOK
<1>11. Numbers(L, H)'
  <2>1. ASSUME NEW c \in Range(L) \union HangingKeys(H) PROVE c[2] <= pushs'
    <3>1. c \in Keys
      <4>1. CASE c \in Range(L) BY <4>1, ListApart
      <4>2. CASE c \in HangingKeys(H)
        <5>1. PICK q \in Producers : c \in Range(H[q]) BY <4>2 DEF HangingKeys
        <5>2. pc[q] \in LinkLabels \union {"init"}
          <6>1. H[q] # <<>> BY <5>1, EmptyRange
          <6> QED BY <1>2, <6>1 DEF Hangs, LinkLabels, TypeOK
        <5>3. H[q] \in Seq(Keys) BY <5>2, MineIs
        <5> QED BY <5>1, <5>3, SeqParts
      <4> QED BY <4>1, <4>2
    <3> QED BY <1>2, <1>10, <3>1, KeyParts DEF Numbers
  <2> QED BY <1>2, <2>1 DEF Numbers
<1>12. TailsRead(H)'
  <2>1. ASSUME NEW q \in Producers, pc[q] \in {"key", "link", "help", "swing"}
        PROVE  tail[q][2] <= pushs'
    <3>1. tail[q] \in Keys /\ tail[q][2] <= pushs BY <1>2, <2>1 DEF Locals, TailsRead
    <3> QED BY <1>10, <3>1, KeyParts
  <2> QED BY <1>1, <1>2, <2>1 DEF TailsRead, Mine
<1>13. TailMoves(L)' /\ Consumer' BY <1>1, <1>2 DEF TailMoves, Consumer
<1>14. Carriers(L, H)' = Carriers(L, H) /\ Own' = Own /\ Linkers' = Linkers
  BY <1>1 DEF Carriers, Own, Linkers, Mine
<1>15. ValuesApart(L, H)' /\ InOrder(L, H)'
  <2>1. pc'[p] = "idle" /\ \A q \in Producers : pc'[q] = pc[q] /\ Mine(q)' = Mine(q)
    BY <1>1, <1>4 DEF Mine
  <2> QED BY <1>1, <1>3, <1>5, <1>14, <2>1, BeginValues
<1> QED BY <1>6, <1>7, <1>8, <1>9, <1>11, <1>12, <1>13, <1>15 DEF Inv

\* One element taken out of a sequence.
LEMMA OneRemoved ==
  ASSUME NEW S, NEW q \in Seq(S), IsInjective(q), NEW i \in DOMAIN q, NEW r,
         r = SubSeq(q, 1, i - 1) \o SubSeq(q, i + 1, Len(q))
  PROVE  r \in Seq(S) /\ IsInjective(r) /\ Range(r) = Range(q) \ {q[i]} /\ q[i] \in Range(q)
<1> DEFINE n == Len(q)
           a == SubSeq(q, 1, i - 1)
           b == SubSeq(q, i + 1, n)
<1>1. n \in Nat /\ DOMAIN q = 1 .. n /\ Range(q) = {q[j] : j \in 1 .. n} BY SeqParts
<1>2. i - 1 \in 0 .. n /\ i \in 0 .. n /\ i \in 1 .. n BY <1>1
<1>3. /\ a \in Seq(S) /\ Len(a) = i - 1 /\ \A j \in 1 .. i - 1 : a[j] = q[j]
  BY <1>2, CutSeq
<1>4. /\ b \in Seq(S) /\ Len(b) = n - i /\ \A j \in 1 .. n - i : b[j] = q[i + j]
  BY <1>2, CutSeq
<1>5. \A j, k \in 1 .. n : q[j] = q[k] => j = k BY <1>1 DEF IsInjective
<1> HIDE DEF n, a, b
<1>6. /\ DOMAIN a = 1 .. i - 1 /\ Range(a) = {a[j] : j \in 1 .. i - 1}
      /\ DOMAIN b = 1 .. n - i /\ Range(b) = {b[j] : j \in 1 .. n - i}
  BY <1>3, <1>4, SeqParts
<1>7. \A x : x \in Range(a) <=> \E j \in 1 .. i - 1 : x = q[j] BY <1>3, <1>6
<1>8. \A x : x \in Range(b) <=> \E j \in i + 1 .. n : x = q[j]
  <2>1. \A j \in 1 .. n - i : i + j \in i + 1 .. n BY <1>1, <1>2
  <2>2. \A j \in i + 1 .. n : j - i \in 1 .. n - i /\ i + (j - i) = j BY <1>1, <1>2
  <2>3. \A x : x \in Range(b) => \E j \in i + 1 .. n : x = q[j] BY <1>4, <1>6, <2>1
  <2>4. ASSUME NEW j \in i + 1 .. n PROVE q[j] \in Range(b)
    <3>1. b[j - i] = q[j] BY <1>4, <2>2
    <3> QED BY <1>6, <2>2, <3>1
  <2> QED BY <2>3, <2>4
<1>9. \A j \in 1 .. i - 1 : j \in 1 .. n /\ j # i BY <1>1, <1>2
<1>10. \A j \in i + 1 .. n : j \in 1 .. n /\ j # i /\ j \notin 1 .. i - 1 BY <1>1, <1>2
<1>11. \A j \in 1 .. n : j = i \/ j \in 1 .. i - 1 \/ j \in i + 1 .. n BY <1>1, <1>2
<1>12. Range(a) \intersect Range(b) = {} BY <1>5, <1>7, <1>8, <1>9, <1>10
<1>13. IsInjective(a) BY <1>3, <1>5, <1>6, <1>9 DEF IsInjective
<1>14. IsInjective(b)
  <2>1. \A j \in 1 .. n - i : i + j \in 1 .. n BY <1>1, <1>2
  <2>2. \A j, k \in 1 .. n - i : i + j = i + k => j = k BY <1>1, <1>2
  <2>3. \A j, k \in 1 .. n - i : b[j] = b[k] => j = k
    <3> TAKE j, k \in 1 .. n - i
    <3>1. b[j] = q[i + j] /\ b[k] = q[i + k] BY <1>4
    <3> QED BY <1>5, <2>1, <2>2, <3>1
  <2> QED BY <1>6, <2>3 DEF IsInjective
<1>15. r = a \o b BY DEF a, b, n
<1>16. r \in Seq(S) /\ IsInjective(r) /\ Range(r) = Range(a) \union Range(b)
  <2>1. a \o b \in Seq(S) BY <1>3, <1>4, ConcatProperties
  <2>2. Range(a \o b) = Range(a) \union Range(b) /\ IsInjective(a \o b)
    BY <1>3, <1>4, <1>12, <1>13, <1>14, JoinedSets
  <2> QED BY <1>15, <2>1, <2>2
<1>17. q[i] \in Range(q) BY <1>1, <1>2
<1>18. ASSUME NEW x PROVE x \in Range(a) \union Range(b) <=> x \in Range(q) \ {q[i]}
  <2>1. x \in Range(a) \union Range(b) => x \in Range(q) \ {q[i]}
    BY <1>1, <1>2, <1>5, <1>7, <1>8, <1>9, <1>10
  <2>2. x \in Range(q) \ {q[i]} => x \in Range(a) \union Range(b)
    BY <1>1, <1>7, <1>8, <1>11
  <2> QED BY <2>1, <2>2
<1> QED BY <1>16, <1>17, <1>18

\* G is H but for the keys K that hang on p.
IsWith(G, H, p, K) == G = [H EXCEPT ![p] = K]

\* A node from the pool hangs on its push.
LEMMA AllocatesStep ==
  ASSUME TypeOK, NEW L, NEW H \in [Producers -> Seq(Keys)], Inv(L, H), NEW p \in Producers,
         Allocates(p), NEW G, IsWith(G, H, p, <<newKey'[p]>>)
  PROVE  TypeOK' /\ G \in [Producers -> Seq(Keys)] /\ Inv(L, G)'
<1>1. /\ PushBegin(p) /\ (NoteEarlier(p) \/ UNCHANGED earlier)
      /\ pc' = [pc EXCEPT ![p] = "init"]
      /\ UNCHANGED <<key, value, _head, _tail, _size, tail, seen, consumerVars,
                     returned, refused, popped, detached>>
  BY DEF Allocates, Goto
<1>2. /\ Hangs(L, H) /\ Locals /\ Apart(L, H) /\ Numbers(L, H) /\ TailsRead(H)
      /\ TailMoves(L) /\ Consumer
  BY DEF Inv
<1>3. PICK v : v = NextValue(p) OBVIOUS
<1>4. /\ pc[p] = "idle" /\ pushs' \in Nat /\ pushs' = pushs + 1
      /\ count' \in [Producers -> 0 .. MaxPushes] /\ count'[p] = count[p] + 1
      /\ \A q \in Producers : q # p => count'[q] = count[q]
      /\ earlier' \in [Values -> SUBSET Values]
  BY <1>1, <1>3, BeginFacts
<1>5. PICK i \in DOMAIN pool :
        /\ pool' = SubSeq(pool, 1, i - 1) \o SubSeq(pool, i + 1, Len(pool))
        /\ newKey' = [newKey EXCEPT ![p] = MAKE_KEY(pool[i], pushs + 1)]
  BY DEF Allocates, Alloc
<1>6. pool \in Seq(Nodes) /\ IsInjective(pool) BY <1>2 DEF TypeOK, Apart
<1>7. PICK n : n = pool[i] OBVIOUS
<1>8. /\ pool' \in Seq(Nodes) /\ IsInjective(pool') /\ Range(pool') = Range(pool) \ {n}
      /\ n \in Range(pool) /\ n \in Nodes
  <2>1. /\ pool' \in Seq(Nodes) /\ IsInjective(pool') /\ Range(pool') = Range(pool) \ {pool[i]}
        /\ pool[i] \in Range(pool)
    BY <1>5, <1>6, OneRemoved
  <2>2. Range(pool) \subseteq Nodes BY <1>6, SeqParts
  <2> QED BY <1>7, <2>1, <2>2
<1>9. PICK k : k = MAKE_KEY(n, pushs + 1) OBVIOUS
<1>10. /\ newKey' = [newKey EXCEPT ![p] = k] /\ newKey'[p] = k
       /\ \A q \in Producers : q # p => newKey'[q] = newKey[q] /\ Mine(q)' = Mine(q)
  BY <1>5, <1>7, <1>9 DEF TypeOK, Mine
<1>11. k \in Keys /\ MAKE_NODEPTR(k) = n /\ k[2] = pushs + 1 /\ Mine(p)' = n
  <2>1. pushs + 1 \in Nat BY <1>4
  <2> QED BY <1>8, <1>9, <1>10, <2>1, KeyParts DEF Mine
<1>12. /\ <<k>> \in Seq(Keys) /\ Len(<<k>>) = 1 /\ Range(<<k>>) = {k}
  <2> DEFINE o == <<k>>
  <2>1. o \in Seq(Keys) /\ Len(o) = 1 /\ o[1] = k BY <1>11
  <2> HIDE DEF o
  <2>2. Range(o) = {k} BY <2>1, SeqParts
  <2> QED BY <2>1, <2>2 DEF o
<1>13. NodesIn(<<k>>) = {n} BY <1>11, <1>12 DEF NodesIn
<1>14. /\ G \in [Producers -> Seq(Keys)] /\ G[p] = <<k>>
       /\ \A q \in Producers : q # p => G[q] = H[q]
  BY <1>10, <1>12 DEF IsWith
<1>15. /\ pc'[p] = "init" /\ \A q \in Producers : q # p => pc'[q] = pc[q]
  BY <1>1 DEF TypeOK
<1>16. H[p] = <<>> BY <1>2, <1>4 DEF Hangs
<1>17. HangingKeys(G) = HangingKeys(H) \union {k}
  <2>1. ASSUME NEW c PROVE c \in HangingKeys(G) <=> c \in HangingKeys(H) \union {k}
    <3>1. c \in HangingKeys(G) => c \in HangingKeys(H) \union {k}
      BY <1>12, <1>14 DEF HangingKeys
    <3>2. c = k => c \in HangingKeys(G) BY <1>12, <1>14 DEF HangingKeys
    <3>3. ASSUME c \in HangingKeys(H) PROVE c \in HangingKeys(G)
      <4>1. PICK q \in Producers : c \in Range(H[q]) BY <3>3 DEF HangingKeys
      <4>2. q # p BY <1>16, <4>1, EmptyRange
      <4> QED BY <1>14, <4>1, <4>2 DEF HangingKeys
    <3> QED BY <3>1, <3>2, <3>3
  <2> QED BY <2>1
<1>18. TypeOK'
  BY <1>1, <1>4, <1>8, <1>10, <1>11 DEF TypeOK
<1>19. Hangs(L, G)'
  <2>1. Path(key', _head', L) BY <1>1, <1>2 DEF Hangs
  <2>2. ASSUME NEW q \in Producers
        PROVE  /\ pc'[q] = "init" => G[q] = <<newKey'[q]>>
               /\ pc'[q] \in LinkLabels => Path(key', newKey'[q], G[q])
               /\ pc'[q] \in {"idle", "swing", "size"} => G[q] = <<>>
    <3>1. CASE q = p BY <1>10, <1>14, <1>15, <3>1 DEF LinkLabels
    <3>2. CASE q # p BY <1>1, <1>2, <1>10, <1>14, <1>15, <3>2 DEF Hangs
    <3> QED BY <3>1, <3>2
  <2> QED BY <2>1, <2>2 DEF Hangs
<1>20. Locals'
  <2>1. count[p] + 1 >= 1 BY DEF TypeOK
  <2> QED BY <1>1, <1>2, <1>4, <1>10, <1>11, <1>15, <2>1 DEF Locals
<1>21. Apart(L, G)'
  <2>0. /\ NodesIn(G[p]) = {n} /\ \A q \in Producers : q # p => NodesIn(G[q]) = NodesIn(H[q])
        /\ n \notin NodesIn(L) /\ \A q \in Producers : n \notin NodesIn(H[q])
    BY <1>2, <1>8, <1>13, <1>14 DEF Apart
  <2>1. ASSUME NEW q \in Producers
        PROVE  NodesIn(G[q]) \intersect Range(pool') = {} /\ NodesIn(G[q]) \intersect NodesIn(L) = {}
    <3>1. CASE q = p BY <1>8, <2>0, <3>1
    <3>2. CASE q # p
      <4>1. /\ NodesIn(H[q]) \intersect Range(pool) = {}
            /\ NodesIn(H[q]) \intersect NodesIn(L) = {}
        BY <1>2 DEF Apart
      <4> QED BY <1>8, <2>0, <3>2, <4>1
    <3> QED BY <3>1, <3>2
  <2>2. ASSUME NEW q \in Producers, NEW r \in Producers, q # r
        PROVE  NodesIn(G[q]) \intersect NodesIn(G[r]) = {}
    <3>1. NodesIn(H[q]) \intersect NodesIn(H[r]) = {} BY <1>2, <2>2 DEF Apart
    <3> QED BY <2>0, <2>2, <3>1
  <2>3. ASSUME NEW m \in Nodes
        PROVE  m \in Range(pool') \/ m \in NodesIn(L) \/ \E q \in Producers : m \in NodesIn(G[q])
    <3>1. CASE m = n BY <1>13, <1>14, <3>1
    <3>2. CASE \E q \in Producers : m \in NodesIn(H[q])
      <4>1. NodesIn(<<>>) = {} BY EmptyRange DEF NodesIn
      <4> QED BY <1>14, <1>16, <3>2, <4>1
    <3> QED BY <1>2, <1>8, <3>1, <3>2 DEF Apart
  <2> QED BY <1>2, <1>8, <2>1, <2>2, <2>3 DEF Apart
<1>22. \A c \in HangingKeys(H) : c \in Keys /\ c[2] \in Nat /\ c[2] <= pushs
  <2> TAKE c \in HangingKeys(H)
  <2>1. PICK q \in Producers : c \in Range(H[q]) BY DEF HangingKeys
  <2> QED BY <1>2, <2>1, SeqParts, KeyParts DEF Numbers
<1>23. pushs \in Nat /\ \A m \in Nat : m <= pushs => m <= pushs' BY <1>4 DEF TypeOK
<1>24. Numbers(L, G)'
  <2>1. ASSUME NEW c \in Range(L) \union HangingKeys(G) PROVE c[2] <= pushs'
    <3>1. CASE c \in Range(L)
      <4>1. c \in Keys /\ c[2] <= pushs BY <3>1, ListApart
      <4> QED BY <1>23, <4>1, KeyParts
    <3>2. CASE c \in HangingKeys(H) BY <1>22, <1>23, <3>2
    <3>3. CASE c = k BY <1>4, <1>11, <3>3
    <3> QED BY <1>17, <3>1, <3>2, <3>3
  <2>2. ASSUME NEW q \in Producers
        PROVE  \A a, b \in 1 .. Len(G[q]) : a < b => G[q][a][2] > G[q][b][2]
    <3>1. CASE q = p
      <4>1. Len(G[q]) = 1 BY <1>12, <1>14, <3>1
      <4>2. \A a, b \in 1 .. 1 : ~(a < b) OBVIOUS
      <4> QED BY <4>1, <4>2
    <3>2. CASE q # p BY <1>2, <1>14, <3>2 DEF Numbers
    <3> QED BY <3>1, <3>2
  <2> QED BY <2>1, <2>2 DEF Numbers
<1>25. TailsRead(G)'
  <2>1. ASSUME NEW q \in Producers, pc'[q] \in {"key", "link", "help", "swing"}
        PROVE  tail[q][2] <= pushs' /\ tail[q] \notin HangingKeys(G)
    <3>1. pc[q] = pc'[q] BY <1>15, <2>1
    <3>2. tail[q] \in Keys /\ tail[q][2] <= pushs /\ tail[q] \notin HangingKeys(H)
      BY <1>2, <2>1, <3>1 DEF Locals, TailsRead
    <3>3. tail[q][2] \in Nat BY <3>2, KeyParts
    <3>4. tail[q] # k BY <1>11, <1>23, <3>2, <3>3
    <3> QED BY <1>17, <1>23, <3>2, <3>3, <3>4
  <2>2. ASSUME NEW q \in Producers, pc'[q] \in {"key", "link"}
        PROVE /\ \A c \in HangingKeys(G) :
                     MAKE_NODEPTR(c) = MAKE_NODEPTR(tail[q]) => c[2] > newKey'[q][2]
              /\ \/ MAKE_NODEPTR(tail[q]) \in Range(pool')
                 \/ \E r \in Producers : pc'[r] = "init" /\ Mine(r)' = MAKE_NODEPTR(tail[q])
                 => key[MAKE_NODEPTR(tail[q])] # NULL
    <3>1. pc[q] = pc'[q] /\ q # p BY <1>15, <2>2
    <3>2. newKey'[q] = newKey[q] BY <1>10, <3>1
    <3>3. newKey[q] \in HangingKeys(H) BY <2>2, <3>1, MineIs DEF LinkLabels
    <3>4. k[2] > newKey[q][2] BY <1>11, <1>22, <1>23, <3>3
    <3>5. \A c \in HangingKeys(H) :
              MAKE_NODEPTR(c) = MAKE_NODEPTR(tail[q]) => c[2] > newKey[q][2]
      BY <1>2, <2>2, <3>1 DEF TailsRead
    <3>6. \/ MAKE_NODEPTR(tail[q]) \in Range(pool)
          \/ \E r \in Producers : pc[r] = "init" /\ Mine(r) = MAKE_NODEPTR(tail[q])
          => key[MAKE_NODEPTR(tail[q])] # NULL
      BY <1>2, <2>2, <3>1 DEF TailsRead
    <3>7. \/ MAKE_NODEPTR(tail[q]) \in Range(pool')
          \/ \E r \in Producers : pc'[r] = "init" /\ Mine(r)' = MAKE_NODEPTR(tail[q])
          => key[MAKE_NODEPTR(tail[q])] # NULL
      BY <1>8, <1>10, <1>11, <1>15, <3>6
    <3> QED BY <1>17, <3>2, <3>4, <3>5, <3>7
  <2> QED BY <1>1, <2>1, <2>2 DEF TailsRead
<1>26. TailMoves(L)'
  <2>1. \A q \in Producers : pc'[q] \in {"swing", "help"} =>
            pc'[q] = pc[q] /\ newKey'[q] = newKey[q]
    BY <1>10, <1>15
  <2> QED BY <1>1, <1>2, <2>1 DEF TailMoves
<1>27. Consumer' BY <1>1, <1>2 DEF Consumer
<1>28. Linkers' = Linkers /\ p \notin Linkers BY <1>4, <1>15 DEF Linkers, LinkLabels
<1>29. \A q \in Linkers : G[q] = H[q] /\ Mine(q)' = Mine(q) BY <1>10, <1>14, <1>28 DEF Linkers
<1>30. Own' = Own BY <1>28, <1>29 DEF Own
<1>31. Carriers(L, G)' = Carriers(L, H) BY <1>1, <1>28, <1>29 DEF Carriers
<1>32. ValuesApart(L, G)' /\ InOrder(L, G)'
  <2>1. refused' \subseteq refused \union {v} BY <1>1
  <2>2. pc'[p] = "init" /\ refused' = refused BY <1>1, <1>15
  <2>3. \A q \in Producers : q # p => pc'[q] = pc[q] /\ Mine(q)' = Mine(q) BY <1>10, <1>15
  <2>4. UNCHANGED <<value, popped, detached, returned, cpc, _head>> BY <1>1
  <2>5. \A q \in Linkers : G[q] = H[q] BY <1>29
  <2>6. (pc'[p] = "init" /\ refused' = refused) \/ pc'[p] = "idle" BY <2>2
  <2>7. PushBegin(p) /\ (NoteEarlier(p) \/ UNCHANGED earlier) /\ Linkers' = Linkers BY <1>1, <1>28
  <2> QED BY <1>3, <1>30, <1>31, <2>1, <2>3, <2>4, <2>5, <2>6, <2>7, BeginValues
<1> QED
  BY <1>14, <1>18, <1>19, <1>20, <1>21, <1>24, <1>25, <1>26, <1>27, <1>32 DEF Inv

\* The node is behind nothing: its key becomes NULL.
LEMMA PushInitStep ==
  ASSUME TypeOK, NEW L, NEW H, Inv(L, H), NEW p \in Producers, PushInit(p)
  PROVE  TypeOK' /\ Inv(L, H)'
<1>1. /\ pc[p] = "init" /\ pc' = [pc EXCEPT ![p] = "tail"]
      /\ value' = [value EXCEPT ![Mine(p)] = Pushing(p)]
      /\ key' = [key EXCEPT ![Mine(p)] = NULL]
      /\ UNCHANGED <<_head, _tail, pool, _size, pushs, newKey, tail, seen, consumerVars, historyVars>>
  BY DEF PushInit, Goto
<1>2. /\ Hangs(L, H) /\ Locals /\ Apart(L, H) /\ Numbers(L, H) /\ TailsRead(H)
      /\ TailMoves(L) /\ Consumer /\ ValuesApart(L, H) /\ InOrder(L, H)
  BY DEF Inv
<1>3. PICK n : n = Mine(p) OBVIOUS
<1>4. /\ n \in Nodes /\ n \notin NodesIn(L) /\ n \notin Range(pool)
      /\ \A q \in Producers : q # p => n \notin NodesIn(H[q])
      /\ newKey[p] \in Keys /\ NodesIn(H[p]) = {n} /\ H[p] = <<newKey[p]>>
  BY <1>1, <1>2, <1>3, MineIs DEF Hangs
<1>5. /\ pc'[p] = "tail" /\ \A q \in Producers : q # p => pc'[q] = pc[q]
      /\ \A q \in Producers : Mine(q)' = Mine(q) /\ Pushing(q)' = Pushing(q)
      /\ \A v : Begun(v)' <=> Begun(v)
  BY <1>1 DEF TypeOK, Mine, Pushing, Begun
<1>6. /\ key'[n] = NULL /\ \A m \in Nodes : m # n => key'[m] = key[m]
      /\ value'[n] = Pushing(p) /\ \A m \in Nodes : m # n => value'[m] = value[m]
  BY <1>1, <1>3, <1>4 DEF TypeOK
<1>7. Pushing(p) \in Values /\ Begun(Pushing(p))
  <2>1. count[p] >= 1 /\ count[p] \in 0 .. MaxPushes BY <1>1, <1>2 DEF Locals, TypeOK
  <2>2. count[p] \in 1 .. MaxPushes /\ count[p] <= count[p] BY <2>1, QueueAssumption
  <2> QED BY <2>2 DEF Pushing, Values, Begun
<1>8. TypeOK' BY <1>1, <1>3, <1>4, <1>7 DEF TypeOK
<1>9. L \in Seq(Keys) /\ NodesIn(L) \subseteq Nodes /\ Path(key, _head, L)
  BY <1>2, PathParts, NodesOfKeys DEF Hangs
<1>10. \A m \in NodesIn(L) : m \in Nodes /\ m # n /\ key'[m] = key[m] /\ value'[m] = value[m]
  BY <1>4, <1>6, <1>9
<1>11. Hangs(L, H)'
  <2>1. Path(key', _head, L) BY <1>9, <1>10, PathSame
  <2>2. Path(key', newKey[p], H[p])
    <3>1. key'[MAKE_NODEPTR(newKey[p])] = NULL BY <1>3, <1>6 DEF Mine
    <3> QED BY <1>4, <3>1, PathOfOne
  <2>3. ASSUME NEW q \in Producers, q # p, pc[q] \in LinkLabels
        PROVE  Path(key', newKey[q], H[q])
    <3>1. Path(key, newKey[q], H[q]) BY <1>2, <2>3 DEF Hangs
    <3>2. \A m \in NodesIn(H[q]) : key'[m] = key[m]
      BY <1>4, <1>6, <2>3, <3>1, PathParts, NodesOfKeys
    <3> QED BY <3>1, <3>2, PathSame
  <2> QED BY <1>1, <1>2, <1>5, <2>1, <2>2, <2>3 DEF Hangs, LinkLabels
<1>12. Locals' BY <1>1, <1>2, <1>5 DEF Locals
<1>13. Apart(L, H)' /\ Numbers(L, H)' BY <1>1, <1>2 DEF Apart, Numbers
<1>14. TailsRead(H)'
  <2>1. \A q \in Producers : pc'[q] \in {"key", "link", "help", "swing"} => pc[q] = pc'[q]
    BY <1>5
  <2>2. ASSUME NEW q \in Producers, pc'[q] \in {"key", "link"},
               \/ MAKE_NODEPTR(tail[q]) \in Range(pool)
               \/ \E r \in Producers : pc'[r] = "init" /\ Mine(r) = MAKE_NODEPTR(tail[q])
        PROVE  key'[MAKE_NODEPTR(tail[q])] # NULL
    <3>1. MAKE_NODEPTR(tail[q]) \in Nodes BY <1>2, <2>1, <2>2, KeyParts DEF Locals
    <3>2. \A r \in Producers : pc'[r] = "init" => r # p /\ pc[r] = "init" BY <1>5
    <3>3. \A r \in Producers : pc'[r] = "init" => Mine(r) # n
      BY <1>4, <3>2, MineIs
    <3>4. MAKE_NODEPTR(tail[q]) # n BY <1>4, <2>2, <3>3
    <3>5. key[MAKE_NODEPTR(tail[q])] # NULL
      BY <1>2, <2>1, <2>2, <3>2 DEF TailsRead
    <3> QED BY <1>6, <3>1, <3>4, <3>5
  <2> QED BY <1>1, <1>2, <1>5, <2>1, <2>2 DEF TailsRead
<1>15. TailMoves(L)'
  <2>1. \A q \in Producers : pc'[q] \in {"swing", "help"} => pc[q] = pc'[q] BY <1>5
  <2>2. \A c \in Range(L) : key'[MAKE_NODEPTR(c)] = key[MAKE_NODEPTR(c)]
    BY <1>10 DEF NodesIn
  <2> QED BY <1>1, <1>2, <2>1, <2>2 DEF TailMoves
<1>16. Consumer'
  <2>1. MAKE_NODEPTR(_head) \in NodesIn(L) BY <1>9, PathParts DEF NodesIn
  <2>2. key'[MAKE_NODEPTR(_head)] = key[MAKE_NODEPTR(_head)] BY <1>10, <2>1
  <2> QED BY <1>1, <1>2, <2>2 DEF Consumer
<1>17. p \notin Linkers /\ Linkers' = Linkers \union {p} BY <1>1, <1>5 DEF Linkers, LinkLabels
<1>18. /\ Carriers(L, H)' = Carriers(L, H) \union {n} /\ Own' = Own \union {n}
       /\ n \notin Carriers(L, H)
  <2>1. Carriers(L, H)' = Carriers(L, H) \union {n}
    <3> DEFINE u == UNION {NodesIn(H[q]) : q \in Linkers}
               w == UNION {NodesIn(H[q]) : q \in Linkers \union {p}}
    <3>1. cpc' = cpc /\ _head' = _head BY <1>1
    <3>2. \A m : m \in w <=> m \in u \/ m \in NodesIn(H[p]) OBVIOUS
    <3>3. w = u \union {n}
      <4> HIDE DEF u, w
      <4> QED BY <1>4, <3>2
    <3> HIDE DEF u, w
    <3>4. Carriers(L, H)' = (IF cpc = "value" THEN NodesIn(L)
                             ELSE NodesIn(L) \ {MAKE_NODEPTR(_head)}) \union w
      BY <1>17, <3>1 DEF Carriers, w
    <3>5. Carriers(L, H) = (IF cpc = "value" THEN NodesIn(L)
                            ELSE NodesIn(L) \ {MAKE_NODEPTR(_head)}) \union u
      BY DEF Carriers, u
    <3> QED BY <3>3, <3>4, <3>5
  <2>2. Own' = Own \union {n}
    <3> DEFINE o == {Mine(q) : q \in Linkers \union {p}}
    <3>1. Own' = o
      <4>1. Own' = {Mine(q)' : q \in Linkers'} BY DEF Own
      <4>2. \A q \in Linkers' : Mine(q)' = Mine(q) BY <1>5, <1>17 DEF Linkers
      <4> QED BY <1>17, <4>1, <4>2
    <3>2. \A m : m \in o <=> m \in Own \/ m = n BY <1>3 DEF Own
    <3> HIDE DEF o
    <3> QED BY <3>1, <3>2
  <2>3. \A q \in Linkers : q \in Producers /\ q # p BY <1>17 DEF Linkers
  <2>4. n \notin Carriers(L, H) BY <1>4, <2>3 DEF Carriers
  <2> QED BY <2>1, <2>2, <2>4
<1>19. \A m \in Carriers(L, H) : m \in Nodes /\ m # n /\ value'[m] = value[m]
  <2>1. \A q \in Linkers : NodesIn(H[q]) \subseteq Nodes
    BY MineIs, NodesOfKeys DEF Linkers
  <2>2. Carriers(L, H) \subseteq Nodes BY <1>9, <2>1 DEF Carriers
  <2> QED BY <1>6, <1>18, <2>2
<1>20. Safe(L, H)' = Safe(L, H)
  <2>1. (Carriers(L, H) \ Own)' = Carriers(L, H) \ Own BY <1>18
  <2>2. popped' = popped BY <1>1
  <2> QED BY <1>19, <2>1, <2>2 DEF Safe
<1>21. Pushing(p) \notin Range(popped) \union refused
         /\ \A m \in Carriers(L, H) : value[m] # Pushing(p)
  BY <1>1, <1>2 DEF ValuesApart
<1>22. UNCHANGED <<popped, refused, returned, count>> BY <1>1
<1>23. ValuesApart(L, H)'
  <2>1. \A m \in Carriers(L, H) \union {n} :
            /\ value'[m] \in Values /\ Begun(value'[m])
            /\ value'[m] \notin Range(popped) \union refused
    BY <1>2, <1>6, <1>7, <1>19, <1>21 DEF ValuesApart
  <2>2. \A l, m \in Carriers(L, H) \union {n} : value'[l] = value'[m] => l = m
    BY <1>2, <1>6, <1>19, <1>21 DEF ValuesApart
  <2>3. ASSUME NEW q \in Producers
        PROVE  /\ pc'[q] # "idle" => Pushing(q) \notin refused
               /\ pc'[q] = "init" => /\ Pushing(q) \notin Range(popped)
                                     /\ \A m \in Carriers(L, H) \union {n} : value'[m] # Pushing(q)
               /\ pc'[q] \in LinkLabels => value'[Mine(q)] = Pushing(q)
               /\ pc'[q] \in {"swing", "size"} => Pushing(q) \in Safe(L, H)
    <3>1. CASE q = p BY <1>3, <1>5, <1>6, <1>21, <3>1 DEF LinkLabels
    <3>2. CASE q # p
      <4>1. pc'[q] = pc[q] /\ Pushing(q) # Pushing(p) BY <1>5, <3>2 DEF Pushing
      <4>2. pc[q] \in LinkLabels => Mine(q) \in Nodes /\ Mine(q) # n
        BY <1>4, <3>2, MineIs
      <4>3. \A m \in Carriers(L, H) \union {n} : value'[m] = Pushing(q) => m \in Carriers(L, H)
        BY <1>6, <4>1
      <4> QED BY <1>2, <1>6, <1>19, <4>1, <4>2, <4>3 DEF ValuesApart
    <3> QED BY <3>1, <3>2
  <2>4. \A v : Begun(v)' <=> Begun(v) BY <1>5
  <2>5. \A m \in Carriers(L, H) \union {n} : Begun(value[m])'
    <3>1. count' = count BY <1>22
    <3> QED BY <2>1, <3>1 DEF Begun
  <2>6. /\ IsInjective(popped) /\ Range(popped) \intersect refused = {}
        /\ \A v \in Range(popped) \union refused : Begun(v)
        /\ returned \subseteq Safe(L, H)
    BY <1>2 DEF ValuesApart
  <2> QED BY <1>5, <1>18, <1>20, <1>22, <2>1, <2>2, <2>3, <2>4, <2>5, <2>6 DEF ValuesApart
<1>24. InOrder(L, H)'
  <2>1. Line(L)' = Line(L)
    <3>1. UNCHANGED <<popped, cpc>> BY <1>1
    <3> QED BY <1>10, <3>1, LineSame
  <2>2. Len(H[p]) = 1 BY <1>4
  <2>3. \A q \in Producers : pc'[q] \in LinkLabels \union {"init"} =>
            pc[q] \in LinkLabels \union {"init"}
    BY <1>1, <1>5 DEF LinkLabels
  <2>4. detached' = detached /\ earlier' = earlier BY <1>1
  <2> QED BY <1>2, <1>5, <1>17, <1>20, <2>1, <2>2, <2>3, <2>4 DEF InOrder
<1> QED BY <1>8, <1>11, <1>12, <1>13, <1>14, <1>15, <1>16, <1>23, <1>24 DEF Inv

LEMMA PushReturnStep ==
  ASSUME TypeOK, NEW L, NEW H, Inv(L, H), NEW p \in Producers, PushReturn(p)
  PROVE  TypeOK' /\ Inv(L, H)'
<1>1. /\ pc[p] = "size" /\ pc' = [pc EXCEPT ![p] = "idle"]
      /\ _size' = _size + 1
      /\ returned' = returned \union {Pushing(p)}
      /\ newKey' = [newKey EXCEPT ![p] = NoKey]
      /\ tail'   = [tail EXCEPT ![p] = NoKey]
      /\ seen'   = [seen EXCEPT ![p] = NoKey]
      /\ UNCHANGED <<listVars, pushs, consumerVars, count, refused, earlier, popped, detached>>
  BY DEF PushReturn, Goto
<1>2. /\ Hangs(L, H) /\ Locals /\ Apart(L, H) /\ Numbers(L, H) /\ TailsRead(H)
      /\ TailMoves(L) /\ Consumer /\ ValuesApart(L, H) /\ InOrder(L, H)
  BY DEF Inv
<1>3. /\ pc'[p] = "idle"
      /\ \A q \in Producers : q # p =>
             /\ pc'[q] = pc[q] /\ newKey'[q] = newKey[q] /\ tail'[q] = tail[q]
             /\ seen'[q] = seen[q] /\ Mine(q)' = Mine(q)
      /\ \A q \in Producers : Pushing(q)' = Pushing(q)
      /\ \A v : Begun(v)' <=> Begun(v)
      /\ \A q \in Producers : pc'[q] # "idle" => q # p
  BY <1>1 DEF TypeOK, Mine, Pushing, Begun
<1>4. Pushing(p) \in Values /\ Pushing(p) \in Safe(L, H)
  <2>1. count[p] >= 1 /\ count[p] \in 0 .. MaxPushes BY <1>1, <1>2 DEF Locals, TypeOK
  <2>2. count[p] \in 1 .. MaxPushes BY <2>1, QueueAssumption
  <2> QED BY <1>1, <1>2, <2>2 DEF Pushing, Values, ValuesApart
<1>5. TypeOK' BY <1>1, <1>4 DEF TypeOK
<1>6. Hangs(L, H)'
  <2>1. H[p] = <<>> BY <1>1, <1>2 DEF Hangs
  <2>2. ASSUME NEW q \in Producers
        PROVE  /\ pc'[q] = "init" => H[q] = <<newKey'[q]>>
               /\ pc'[q] \in LinkLabels => Path(key, newKey'[q], H[q])
               /\ pc'[q] \in {"idle", "swing", "size"} => H[q] = <<>>
    <3>1. CASE q = p BY <1>3, <2>1, <3>1 DEF LinkLabels
    <3>2. CASE q # p BY <1>2, <1>3, <3>2 DEF Hangs
    <3> QED BY <3>1, <3>2
  <2> QED BY <1>1, <1>2, <2>2 DEF Hangs
<1>7. Locals' BY <1>1, <1>2, <1>3 DEF Locals
<1>8. Apart(L, H)' /\ Numbers(L, H)' BY <1>1, <1>2 DEF Apart, Numbers
<1>9. TailsRead(H)'
  <2>1. \A q \in Producers : pc'[q] \in {"key", "link", "help", "swing"} =>
            pc[q] = pc'[q] /\ tail'[q] = tail[q] /\ newKey'[q] = newKey[q]
    BY <1>3
  <2>2. \A q \in Producers : pc'[q] = "init" => pc[q] = "init" /\ Mine(q)' = Mine(q) BY <1>3
  <2> QED BY <1>1, <1>2, <2>1, <2>2 DEF TailsRead
<1>10. TailMoves(L)'
  <2>1. \A q \in Producers : pc'[q] \in {"swing", "help"} =>
            pc[q] = pc'[q] /\ tail'[q] = tail[q] /\ newKey'[q] = newKey[q] /\ seen'[q] = seen[q]
    BY <1>3
  <2> QED BY <1>1, <1>2, <2>1 DEF TailMoves
<1>11. Consumer' BY <1>1, <1>2 DEF Consumer
<1>12. Linkers' = Linkers /\ p \notin Linkers BY <1>1, <1>3 DEF Linkers, LinkLabels
<1>13. Own' = Own BY <1>3, <1>12 DEF Own, Linkers
<1>14. Carriers(L, H)' = Carriers(L, H) BY <1>1, <1>12 DEF Carriers
<1>15. Safe(L, H)' = Safe(L, H) BY <1>1, <1>13, <1>14 DEF Safe
<1>16. ValuesApart(L, H)'
  <2>1. ASSUME NEW q \in Producers
        PROVE  /\ pc'[q] # "idle" => Pushing(q) \notin refused
               /\ pc'[q] = "init" => /\ Pushing(q) \notin Range(popped)
                                     /\ \A m \in Carriers(L, H) : value[m] # Pushing(q)
               /\ pc'[q] \in LinkLabels => value[Mine(q)'] = Pushing(q)
               /\ pc'[q] \in {"swing", "size"} => Pushing(q) \in Safe(L, H)
    <3>1. CASE q = p BY <1>3, <3>1 DEF LinkLabels
    <3>2. CASE q # p BY <1>2, <1>3, <3>2 DEF ValuesApart
    <3> QED BY <3>1, <3>2
  <2>2. returned' \subseteq Safe(L, H) BY <1>1, <1>2, <1>4 DEF ValuesApart
  <2>3. UNCHANGED <<value, popped, refused, count>> BY <1>1
  <2> QED BY <1>2, <1>3, <1>14, <1>15, <2>1, <2>2, <2>3 DEF ValuesApart
<1>17. InOrder(L, H)'
  <2>1. Line(L)' = Line(L)
    <3>1. UNCHANGED <<popped, cpc, value>> BY <1>1
    <3> QED BY <3>1 DEF Line, ValueOf
  <2>2. \A q \in Producers : pc'[q] \in LinkLabels \union {"init"} =>
            pc[q] \in LinkLabels \union {"init"}
    BY <1>3 DEF LinkLabels
  <2>3. detached' = detached /\ earlier' = earlier BY <1>1
  <2> QED BY <1>2, <1>3, <1>12, <1>15, <2>1, <2>2, <2>3 DEF InOrder
<1> QED BY <1>5, <1>6, <1>7, <1>8, <1>9, <1>10, <1>11, <1>16, <1>17 DEF Inv

\* Links(p): the compare-and-swap of p succeeds.
Links(p) == Link(p) /\ key[MAKE_NODEPTR(tail[p])] = NULL

\* The node p links to is the last of the list, or the last of those that hang on
\* another push, one that began later.
LEMMA LinkFinds ==
  ASSUME TypeOK, NEW L, NEW H, Inv(L, H), NEW p \in Producers, Links(p),
         NEW n, n = MAKE_NODEPTR(tail[p])
  PROVE  /\ n \in Nodes
         /\ n \in NodesIn(L) => n = MAKE_NODEPTR(L[Len(L)])
         /\ n \notin NodesIn(L) =>
                \E q \in Producers :
                    /\ q # p /\ pc[q] \in LinkLabels
                    /\ n = MAKE_NODEPTR(H[q][Len(H[q])])
                    /\ H[q][Len(H[q])][2] > newKey[p][2]
<1>1. pc[p] = "link" /\ key[n] = NULL BY DEF Links, Link
<1>2. Hangs(L, H) /\ Locals /\ Apart(L, H) /\ Numbers(L, H) /\ TailsRead(H) BY DEF Inv
<1>3. n \in Nodes BY <1>1, <1>2, KeyParts DEF Locals
<1>4. n \in NodesIn(L) => n = MAKE_NODEPTR(L[Len(L)]) BY <1>1, <1>2, EndOfPath DEF Hangs
<1>5. ASSUME n \notin NodesIn(L)
      PROVE  \E q \in Producers :
                    /\ q # p /\ pc[q] \in LinkLabels
                    /\ n = MAKE_NODEPTR(H[q][Len(H[q])])
                    /\ H[q][Len(H[q])][2] > newKey[p][2]
  <2>1. ~(\/ n \in Range(pool) \/ \E r \in Producers : pc[r] = "init" /\ Mine(r) = n)
    BY <1>1, <1>2 DEF TailsRead
  <2>2. PICK q \in Producers : n \in NodesIn(H[q]) BY <1>2, <1>3, <1>5, <2>1 DEF Apart
  <2>3. pc[q] \in LinkLabels
    <3>1. H[q] # <<>> BY <2>2, EmptyRange DEF NodesIn
    <3>2. pc[q] \in LinkLabels \union {"init"}
      BY <1>2, <3>1 DEF Hangs, LinkLabels, TypeOK
    <3>3. pc[q] = "init" => n = Mine(q)
      <4> HAVE pc[q] = "init"
      <4>1. NodesIn(H[q]) = {Mine(q)} BY MineIs
      <4> QED BY <2>2, <4>1
    <3>4. pc[q] # "init" BY <2>1, <3>3
    <3> QED BY <3>2, <3>4
  <2>4. Path(key, newKey[q], H[q]) BY <1>2, <2>3 DEF Hangs
  <2> DEFINE l == Len(H[q])
             c == H[q][l]
  <2>5. n = MAKE_NODEPTR(c) BY <1>1, <2>2, <2>4, EndOfPath
  <2>6. c \in Keys /\ c \in Range(H[q]) /\ H[q][1] = newKey[q] /\ l \in Nat /\ l > 0
    BY <2>4, PathParts
  <2>7. c \in HangingKeys(H) BY <2>6 DEF HangingKeys
  <2>8. c[2] > newKey[p][2]
    <3>1. \A d \in HangingKeys(H) : MAKE_NODEPTR(d) = n => d[2] > newKey[p][2]
      BY <1>1, <1>2 DEF TailsRead
    <3> HIDE DEF c
    <3> QED BY <2>5, <2>7, <3>1
  <2>9. q # p
    <3> SUFFICES ASSUME q = p PROVE FALSE OBVIOUS
    <3>1. newKey[p] = H[p][1] /\ newKey[p] \in Keys BY <2>3, MineIs
    <3>2. newKey[p][2] \in Nat /\ c[2] \in Nat
      <4> HIDE DEF c
      <4> QED BY <2>6, <3>1, KeyParts
    <3>3. CASE l = 1
      <4>1. c = newKey[p] BY <2>6, <3>3
      <4> HIDE DEF c
      <4> QED BY <2>8, <3>2, <4>1
    <3>4. CASE l # 1
      <4>0. l \in Nat /\ l > 0 BY <2>6
      <4>1. 1 \in 1 .. l /\ l \in 1 .. l /\ 1 < l
        <5> HIDE DEF l
        <5> QED BY <3>4, <4>0
      <4>2. \A i, j \in 1 .. l : i < j => H[q][i][2] > H[q][j][2] BY <1>2 DEF Numbers
      <4>3. H[q][1][2] > c[2] BY <4>1, <4>2
      <4> HIDE DEF c
      <4> QED BY <2>6, <2>8, <3>2, <4>3
    <3> QED BY <3>3, <3>4
  <2> QED BY <2>3, <2>5, <2>8, <2>9
<1> QED BY <1>3, <1>4, <1>5

\* What the two cases of Link have in common: M and G are the keys of the list and of
\* what hangs after it.
LEMMA LinkCommon ==
  ASSUME TypeOK, NEW L, NEW H, Inv(L, H), NEW p \in Producers, Links(p),
         NEW M, NEW G, Range(L) \subseteq Range(M),
         Range(M) \subseteq Range(L) \union HangingKeys(H),
         HangingKeys(G) \subseteq HangingKeys(H), Carriers(M, G)' = Carriers(L, H)
  PROVE  /\ TypeOK' /\ Locals' /\ TailsRead(G)' /\ TailMoves(M)' /\ Consumer'
         /\ ValuesApart(M, G)'
         /\ \A c \in Range(M) \union HangingKeys(G) : c[2] <= pushs
         /\ Linkers' = Linkers \ {p}
         /\ Safe(M, G)' = Safe(L, H) \union {Pushing(p)}
<1>1. PICK n : n = MAKE_NODEPTR(tail[p]) OBVIOUS
<1>2. /\ pc[p] = "link" /\ pc' = [pc EXCEPT ![p] = "swing"]
      /\ key[n] = NULL /\ key' = [key EXCEPT ![n] = newKey[p]]
      /\ detached' = (detached \/ n \notin Linked)
      /\ UNCHANGED <<value, _head, _tail, pool, _size, pushs, newKey, tail, seen,
                     consumerVars, pushedVars, popped>>
  BY <1>1 DEF Links, Link, Goto
<1>3. /\ Hangs(L, H) /\ Locals /\ Apart(L, H) /\ Numbers(L, H) /\ TailsRead(H)
      /\ TailMoves(L) /\ Consumer /\ ValuesApart(L, H)
  BY DEF Inv
<1>4. n \in Nodes /\ newKey[p] \in Keys BY <1>1, <1>2, <1>3, LinkFinds, MineIs DEF LinkLabels
<1>5. /\ pc'[p] = "swing" /\ \A q \in Producers : q # p => pc'[q] = pc[q]
      /\ \A q \in Producers : Mine(q)' = Mine(q) /\ Pushing(q)' = Pushing(q)
      /\ \A v : Begun(v)' <=> Begun(v)
  BY <1>2 DEF TypeOK, Mine, Pushing, Begun
<1>6. key'[n] = newKey[p] /\ \A m \in Nodes : m # n => key'[m] = key[m]
  BY <1>2, <1>4 DEF TypeOK
<1>7. \A m \in Nodes : key[m] # NULL => key'[m] = key[m] /\ key'[m] # NULL
  BY <1>2, <1>6
<1>8. TypeOK' BY <1>2, <1>4 DEF TypeOK
<1>9. Locals' BY <1>2, <1>3, <1>5 DEF Locals
<1>10. TailsRead(G)'
  <2>1. ASSUME NEW q \in Producers, pc'[q] \in {"key", "link", "help", "swing"}
        PROVE  tail[q][2] <= pushs /\ tail[q] \notin HangingKeys(G)
    <3>1. pc[q] \in {"key", "link", "help", "swing"} BY <1>2, <1>5, <2>1
    <3> QED BY <1>3, <3>1 DEF TailsRead
  <2>2. ASSUME NEW q \in Producers, pc'[q] \in {"key", "link"}
        PROVE  /\ \A c \in HangingKeys(G) :
                      MAKE_NODEPTR(c) = MAKE_NODEPTR(tail[q]) => c[2] > newKey[q][2]
               /\ \/ MAKE_NODEPTR(tail[q]) \in Range(pool)
                  \/ \E r \in Producers : pc'[r] = "init" /\ Mine(r) = MAKE_NODEPTR(tail[q])
                  => key'[MAKE_NODEPTR(tail[q])] # NULL
    <3>1. pc[q] = pc'[q] BY <1>5, <2>2
    <3>2. \A r \in Producers : pc'[r] = "init" => pc[r] = "init" BY <1>5
    <3>3. MAKE_NODEPTR(tail[q]) \in Nodes BY <1>3, <2>2, <3>1, KeyParts DEF Locals
    <3>4. /\ \A c \in HangingKeys(H) :
                 MAKE_NODEPTR(c) = MAKE_NODEPTR(tail[q]) => c[2] > newKey[q][2]
          /\ \/ MAKE_NODEPTR(tail[q]) \in Range(pool)
             \/ \E r \in Producers : pc[r] = "init" /\ Mine(r) = MAKE_NODEPTR(tail[q])
             => key[MAKE_NODEPTR(tail[q])] # NULL
      BY <1>3, <2>2, <3>1 DEF TailsRead
    <3> QED BY <1>7, <3>2, <3>3, <3>4
  <2> QED BY <1>2, <1>5, <2>1, <2>2 DEF TailsRead
<1>11. TailMoves(M)'
  <2>1. _tail \in Range(M) BY <1>3 DEF TailMoves
  <2>2. ASSUME NEW q \in Producers, tail[q] \in Range(M), pc'[q] \in {"swing", "help"}
        PROVE  /\ pc'[q] = "swing" => key'[MAKE_NODEPTR(tail[q])] = newKey[q]
               /\ pc'[q] = "help"  => key'[MAKE_NODEPTR(tail[q])] = seen[q]
    <3>1. CASE q = p BY <1>1, <1>5, <1>6, <3>1
    <3>2. CASE q # p
      <4>1. pc[q] = pc'[q] BY <1>5, <3>2
      <4>2. tail[q] \notin HangingKeys(H) BY <1>3, <2>2, <4>1 DEF TailsRead
      <4>3. tail[q] \in Range(L) BY <2>2, <4>2
      <4>4. newKey[q] \in Keys /\ (pc[q] = "help" => seen[q] \in Keys)
        BY <1>3, <2>2, <4>1 DEF Locals
      <4>5. /\ pc[q] = "swing" => key[MAKE_NODEPTR(tail[q])] = newKey[q]
            /\ pc[q] = "help"  => key[MAKE_NODEPTR(tail[q])] = seen[q]
        BY <1>3, <4>3 DEF TailMoves
      <4>6. MAKE_NODEPTR(tail[q]) \in Nodes BY <4>3, ListApart
      <4>7. key[MAKE_NODEPTR(tail[q])] # NULL BY <2>2, <4>1, <4>4, <4>5, KeyParts
      <4> QED BY <1>7, <4>1, <4>5, <4>6, <4>7
    <3> QED BY <3>1, <3>2
  <2> QED BY <1>2, <2>1, <2>2 DEF TailMoves
<1>12. Consumer'
  <2>1. MAKE_NODEPTR(_head) \in Nodes BY KeyParts DEF TypeOK
  <2>2. cpc \in {"help", "take"} => key[MAKE_NODEPTR(_head)] # NULL
    BY <1>3, KeyParts DEF Consumer, Locals
  <2>3. cpc \in {"help", "take"} => /\ key'[MAKE_NODEPTR(_head)] = key[MAKE_NODEPTR(_head)]
                                    /\ key'[MAKE_NODEPTR(_head)] # NULL
    BY <1>7, <2>1, <2>2
  <2>4. UNCHANGED <<cpc, ctail, ckey, _head, _tail>> BY <1>2
  <2> QED BY <1>3, <2>3, <2>4 DEF Consumer
<1>13. \A c \in Range(M) \union HangingKeys(G) : c[2] <= pushs BY <1>3 DEF Numbers
<1>14. p \in Linkers /\ Linkers' = Linkers \ {p} BY <1>2, <1>5 DEF Linkers, LinkLabels
<1>15. Own' = Own \ {Mine(p)} /\ Mine(p) \in Own
  <2>1. \A q \in Linkers : q # p => Mine(q) # Mine(p) BY <1>14, MineIs DEF Linkers
  <2>2. Own' = {Mine(q)' : q \in Linkers'} BY DEF Own
  <2>3. \A q \in Linkers' : Mine(q)' = Mine(q) BY <1>5, <1>14 DEF Linkers
  <2>4. Own' = {Mine(q) : q \in Linkers \ {p}} BY <1>14, <2>2, <2>3
  <2>5. \A m : m \in Own' <=> m \in Own /\ m # Mine(p) BY <1>14, <2>1, <2>4 DEF Own
  <2>6. Mine(p) \in Own BY <1>14 DEF Own
  <2> QED BY <2>5, <2>6
<1>16. Mine(p) \in Carriers(L, H) /\ value[Mine(p)] = Pushing(p)
  <2>1. Mine(p) \in NodesIn(H[p]) BY <1>14, MineIs DEF Linkers
  <2>2. value[Mine(p)] = Pushing(p) BY <1>3, <1>14 DEF ValuesApart, Linkers
  <2> QED BY <1>14, <2>1, <2>2 DEF Carriers
<1>17. Safe(M, G)' = Safe(L, H) \union {Pushing(p)}
  <2>1. Safe(M, G)' = Range(popped) \union {value[m] : m \in Carriers(L, H) \ (Own \ {Mine(p)})}
    BY <1>2, <1>15 DEF Safe
  <2>2. Carriers(L, H) \ (Own \ {Mine(p)}) = (Carriers(L, H) \ Own) \union {Mine(p)}
    BY <1>16
  <2>3. \A v : v \in Safe(M, G)' <=> v \in Safe(L, H) \/ v = Pushing(p)
    BY <1>16, <2>1, <2>2 DEF Safe
  <2> QED BY <2>3
<1>18. ValuesApart(M, G)'
  <2>1. UNCHANGED <<value, popped, refused, returned, count>> BY <1>2
  <2>2. ASSUME NEW q \in Producers
        PROVE  /\ pc'[q] # "idle" => Pushing(q) \notin refused
               /\ pc'[q] = "init" => /\ Pushing(q) \notin Range(popped)
                                     /\ \A m \in Carriers(L, H) : value[m] # Pushing(q)
               /\ pc'[q] \in LinkLabels => value[Mine(q)] = Pushing(q)
               /\ pc'[q] \in {"swing", "size"} => Pushing(q) \in Safe(L, H) \union {Pushing(p)}
    <3>1. CASE q = p BY <1>2, <1>3, <1>5, <3>1 DEF ValuesApart, LinkLabels
    <3>2. CASE q # p BY <1>3, <1>5, <3>2 DEF ValuesApart
    <3> QED BY <3>1, <3>2
  <2>3. /\ \A m \in Carriers(L, H) : /\ value[m] \in Values /\ Begun(value[m])
                                     /\ value[m] \notin Range(popped) \union refused
        /\ \A l, m \in Carriers(L, H) : value[l] = value[m] => l = m
        /\ IsInjective(popped)
        /\ Range(popped) \intersect refused = {}
        /\ \A v \in Range(popped) \union refused : Begun(v)
        /\ returned \subseteq Safe(L, H) \union {Pushing(p)}
    BY <1>3 DEF ValuesApart
  <2>4. \A m : Begun(value[m])' <=> Begun(value[m]) BY <2>1 DEF Begun
  <2> QED BY <1>5, <1>17, <2>1, <2>2, <2>3, <2>4 DEF ValuesApart
<1> QED BY <1>8, <1>9, <1>10, <1>11, <1>12, <1>13, <1>14, <1>17, <1>18

Joined(M, A, B) == M = A \o B

LEMMA FirstBefore ==
  ASSUME NEW S, NEW e \in S, NEW q \in Seq(S), NEW r, Joined(r, <<e>>, q)
  PROVE  Tail(r) = q
<1>1. <<e>> \in Seq(S) /\ Len(<<e>>) = 1 OBVIOUS
<1> DEFINE o == <<e>>
<1>2. o \in Seq(S) /\ Len(o) = 1 BY <1>1
<1> HIDE DEF o
<1>3. Len(q) \in Nat BY LenProperties
<1>4. /\ r \in Seq(S) /\ Len(r) = 1 + Len(q)
      /\ \A i \in 1 .. 1 + Len(q) : r[i] = IF i <= 1 THEN o[i] ELSE q[i - 1]
  BY <1>2, ConcatProperties DEF Joined, o
<1>5. r # <<>> BY <1>3, <1>4, EmptySeq
<1>6. /\ Tail(r) \in Seq(S) /\ Len(Tail(r)) = Len(r) - 1
      /\ \A i \in 1 .. Len(Tail(r)) : Tail(r)[i] = r[i + 1]
  BY <1>4, <1>5, HeadAndTail
<1>7. Len(Tail(r)) = Len(q) BY <1>3, <1>4, <1>6
<1>8. ASSUME NEW i \in 1 .. Len(q) PROVE Tail(r)[i] = q[i]
  <2> DEFINE j == i + 1
  <2>1. j \in 1 .. 1 + Len(q) /\ ~(j <= 1) /\ j - 1 = i BY <1>3
  <2>2. Tail(r)[i] = r[j] BY <1>6, <1>7
  <2> HIDE DEF j
  <2>3. r[j] = q[j - 1] BY <1>4, <2>1
  <2> QED BY <2>1, <2>2, <2>3
<1> QED BY <1>6, <1>7, <1>8, SeqEqual

\* The model's list is L.
LEMMA LinkedIs ==
  ASSUME NEW L, NEW H, Inv(L, H)
  PROVE  Chain = NodeSeq(L) /\ Linked = NodesIn(L) /\ L \in Seq(Keys)
<1>1. Path(key, _head, L) BY DEF Inv, Hangs
<1>2. Chain = NodeSeq(L) BY <1>1, ChainIs DEF Chain
<1>3. L \in Seq(Keys) /\ Len(L) \in Nat BY <1>1, PathParts
<1>4. NodesIn(L) = {MAKE_NODEPTR(L[i]) : i \in 1 .. Len(L)} BY <1>3, NodesOfKeys
<1>5. DOMAIN NodeSeq(L) = 1 .. Len(L)
        /\ \A i \in 1 .. Len(L) : NodeSeq(L)[i] = MAKE_NODEPTR(L[i])
  BY DEF NodeSeq
<1> QED BY <1>2, <1>3, <1>4, <1>5 DEF Linked, NodesOf

\* The node is linked behind the last of the list.
LEMMA LinkInList ==
  ASSUME TypeOK, NEW L \in Seq(Keys), NEW H \in [Producers -> Seq(Keys)], Inv(L, H),
         NEW p \in Producers, Links(p), MAKE_NODEPTR(tail[p]) \in NodesIn(L),
         NEW M, Joined(M, L, H[p]), NEW G, IsWith(G, H, p, <<>>)
  PROVE  /\ TypeOK' /\ M \in Seq(Keys) /\ G \in [Producers -> Seq(Keys)] /\ Inv(M, G)'
         /\ Line(M)' = Line(L) \o Mapped(ValueOf, H[p])
<1>1. PICK n : n = MAKE_NODEPTR(tail[p]) OBVIOUS
<1>2. /\ pc[p] = "link" /\ pc' = [pc EXCEPT ![p] = "swing"]
      /\ key[n] = NULL /\ key' = [key EXCEPT ![n] = newKey[p]]
      /\ detached' = (detached \/ n \notin Linked)
      /\ UNCHANGED <<value, _head, _tail, pool, _size, pushs, newKey, tail, seen,
                     consumerVars, pushedVars, popped>>
  BY <1>1 DEF Links, Link, Goto
<1>3. Hangs(L, H) /\ Apart(L, H) /\ Numbers(L, H) /\ InOrder(L, H) BY DEF Inv
<1>4. n \in Nodes /\ n \in NodesIn(L) /\ n = MAKE_NODEPTR(L[Len(L)]) BY <1>1, LinkFinds
<1>5. Path(key, _head, L) /\ Path(key, newKey[p], H[p]) BY <1>2, <1>3 DEF Hangs, LinkLabels
<1>6. /\ Path(key', _head, M)
      /\ NodesIn(M) = NodesIn(L) \union NodesIn(H[p])
      /\ Range(M) = Range(L) \union Range(H[p])
  <2>1. key'[n] = newKey[p] /\ \A m \in Nodes : m # n => key'[m] = key[m]
    BY <1>2, <1>4 DEF TypeOK
  <2>2. NodesIn(L) \intersect NodesIn(H[p]) = {} BY <1>3 DEF Apart
  <2>4. /\ Path(key', _head, L \o H[p])
        /\ NodesIn(L \o H[p]) = NodesIn(L) \union NodesIn(H[p])
        /\ Range(L \o H[p]) = Range(L) \union Range(H[p])
    <3>1. Path(key', _head, L \o H[p]) BY <1>4, <1>5, <2>1, <2>2, PathsJoin
    <3> QED BY <3>1, JoinedKeys
  <2> QED BY <2>4 DEF Joined
<1>7. M \in Seq(Keys) BY <1>6, PathParts
<1>8. /\ G \in [Producers -> Seq(Keys)] /\ G[p] = <<>>
      /\ \A q \in Producers : q # p => G[q] = H[q]
  <2>1. <<>> \in Seq(Keys) BY EmptySeq
  <2> QED BY <2>1 DEF IsWith
<1>9. /\ pc'[p] = "swing" /\ \A q \in Producers : q # p => pc'[q] = pc[q]
      /\ \A m \in Nodes : m # n => key'[m] = key[m]
  BY <1>2, <1>4 DEF TypeOK
<1>10. NodesIn(<<>>) = {} /\ Range(<<>>) = {} BY EmptyRange DEF NodesIn
<1>11. Range(H[p]) \subseteq HangingKeys(H) BY DEF HangingKeys
<1>12. HangingKeys(G) \subseteq HangingKeys(H)
  <2>1. \A q \in Producers : Range(G[q]) \subseteq Range(H[q]) BY <1>8, <1>10
  <2> QED BY <2>1 DEF HangingKeys
<1>13. p \in Linkers /\ Linkers' = Linkers \ {p}
  BY <1>2, <1>9 DEF Linkers, LinkLabels
<1>14. Carriers(M, G)' = Carriers(L, H)
  <2> DEFINE u == UNION {NodesIn(H[q]) : q \in Linkers}
             w == UNION {NodesIn(G[q]) : q \in Linkers \ {p}}
             d == IF cpc = "value" THEN {} ELSE {MAKE_NODEPTR(_head)}
  <2>1. cpc' = cpc /\ _head' = _head BY <1>2
  <2>2. \A m : m \in u <=> m \in w \/ m \in NodesIn(H[p])
    <3>1. \A q \in Linkers \ {p} : G[q] = H[q] BY <1>8 DEF Linkers
    <3> QED BY <1>13, <3>1
  <2>3. Carriers(M, G)' = (NodesIn(M) \ d) \union w BY <1>13, <2>1 DEF Carriers
  <2>4. Carriers(L, H) = (NodesIn(L) \ d) \union u BY DEF Carriers
  <2>5. d \intersect NodesIn(H[p]) = {}
    <3>1. MAKE_NODEPTR(_head) \in NodesIn(L) BY <1>5, PathParts DEF NodesIn
    <3> QED BY <1>3, <3>1 DEF Apart
  <2> HIDE DEF u, w, d
  <2>6. \A m : m \in (NodesIn(M) \ d) \union w <=> m \in (NodesIn(L) \ d) \union u
    BY <1>6, <2>2, <2>5
  <2> QED BY <2>3, <2>4, <2>6
<1>15. /\ TypeOK' /\ Locals' /\ TailsRead(G)' /\ TailMoves(M)' /\ Consumer'
       /\ ValuesApart(M, G)'
       /\ \A c \in Range(M) \union HangingKeys(G) : c[2] <= pushs
       /\ Safe(M, G)' = Safe(L, H) \union {Pushing(p)}
  <2>1. Range(L) \subseteq Range(M) /\ Range(M) \subseteq Range(L) \union HangingKeys(H)
    BY <1>6, <1>11
  <2> QED BY <1>12, <1>14, <2>1, LinkCommon
<1>16. Hangs(M, G)'
  <2>1. ASSUME NEW q \in Producers
        PROVE  /\ pc'[q] = "init" => G[q] = <<newKey[q]>>
               /\ pc'[q] \in LinkLabels => Path(key', newKey[q], G[q])
               /\ pc'[q] \in {"idle", "swing", "size"} => G[q] = <<>>
    <3>1. CASE q = p BY <1>8, <1>9, <3>1 DEF LinkLabels
    <3>2. CASE q # p
      <4>1. pc'[q] = pc[q] /\ G[q] = H[q] BY <1>8, <1>9, <3>2
      <4>2. ASSUME pc[q] \in LinkLabels PROVE Path(key', newKey[q], H[q])
        <5>1. Path(key, newKey[q], H[q]) BY <1>3, <4>2 DEF Hangs
        <5>2. n \notin NodesIn(H[q]) BY <1>3, <1>4 DEF Apart
        <5>3. NodesIn(H[q]) \subseteq Nodes BY <5>1, PathParts, NodesOfKeys
        <5>4. \A m \in NodesIn(H[q]) : key'[m] = key[m] BY <1>9, <5>2, <5>3
        <5> QED BY <5>1, <5>4, PathSame
      <4> QED BY <1>3, <4>1, <4>2 DEF Hangs
    <3> QED BY <3>1, <3>2
  <2>2. _head' = _head /\ newKey' = newKey BY <1>2
  <2> QED BY <1>6, <2>1, <2>2 DEF Hangs
<1>17. Apart(M, G)'
  <2>1. \A q \in Producers : NodesIn(G[q]) = IF q = p THEN {} ELSE NodesIn(H[q])
    BY <1>8, <1>10
  <2>2. ASSUME NEW q \in Producers
        PROVE  NodesIn(G[q]) \intersect Range(pool) = {} /\ NodesIn(G[q]) \intersect NodesIn(M) = {}
    <3>1. CASE q = p BY <2>1, <3>1
    <3>2. CASE q # p
      <4>1. /\ NodesIn(H[q]) \intersect Range(pool) = {}
            /\ NodesIn(H[q]) \intersect NodesIn(L) = {}
            /\ NodesIn(H[q]) \intersect NodesIn(H[p]) = {}
        BY <1>3, <3>2 DEF Apart
      <4> QED BY <1>6, <2>1, <3>2, <4>1
    <3> QED BY <3>1, <3>2
  <2>3. \A q, r \in Producers : q # r => NodesIn(G[q]) \intersect NodesIn(G[r]) = {}
    BY <1>3, <2>1 DEF Apart
  <2>4. Range(pool) \intersect NodesIn(M) = {}
    <3>1. Range(pool) \intersect NodesIn(L) = {} /\ NodesIn(H[p]) \intersect Range(pool) = {}
      BY <1>3 DEF Apart
    <3> QED BY <1>6, <3>1
  <2>5. ASSUME NEW m \in Nodes
        PROVE  m \in Range(pool) \/ m \in NodesIn(M) \/ \E q \in Producers : m \in NodesIn(G[q])
    BY <1>3, <1>6, <2>1 DEF Apart
  <2>6. pool' = pool /\ IsInjective(pool) BY <1>2, <1>3 DEF Apart
  <2> QED BY <2>2, <2>3, <2>4, <2>5, <2>6 DEF Apart
<1>18. Numbers(M, G)'
  <2>1. ASSUME NEW q \in Producers
        PROVE  \A i, j \in 1 .. Len(G[q]) : i < j => G[q][i][2] > G[q][j][2]
    <3>1. CASE q = p
      <4>1. Len(G[q]) = 0 BY <1>8, <3>1
      <4>2. 1 .. 0 = {} OBVIOUS
      <4> QED BY <4>1, <4>2
    <3>2. CASE q # p BY <1>3, <1>8, <3>2 DEF Numbers
    <3> QED BY <3>1, <3>2
  <2>2. pushs' = pushs BY <1>2
  <2> QED BY <1>15, <2>1, <2>2 DEF Numbers
<1>19. Line(M)' = Line(L) \o Mapped(ValueOf, H[p])
  <2>1. cpc' = cpc /\ popped' = popped /\ value' = value BY <1>2
  <2>2. PICK W : W = Waiting(L) OBVIOUS
  <2>3. Waiting(M)' = W \o H[p]
    <3>1. CASE cpc = "value" BY <2>1, <2>2, <3>1 DEF Waiting, Joined
    <3>2. CASE cpc # "value"
      <4>1. W \in Seq(Keys) /\ L = <<_head>> \o W /\ _head \in Keys
        BY <1>5, <2>2, <3>2, TailOfPath, PathParts DEF Waiting
      <4>2. H[p] \in Seq(Keys) /\ <<_head>> \in Seq(Keys) BY <4>1
      <4>3. (<<_head>> \o W) \o H[p] = <<_head>> \o (W \o H[p]) BY <4>1, <4>2, Associates
      <4>4. Joined(M, <<_head>>, W \o H[p]) BY <4>1, <4>3 DEF Joined
      <4>5. W \o H[p] \in Seq(Keys) BY <4>1, <4>2, ConcatProperties
      <4>6. Tail(M) = W \o H[p] BY <4>1, <4>4, <4>5, FirstBefore
      <4> QED BY <2>1, <3>2, <4>6 DEF Waiting
    <3> QED BY <3>1, <3>2
  <2>4. Line(M)' = popped \o Mapped(ValueOf, W \o H[p])
    <3>1. Line(M)' = popped' \o Mapped(ValueOf', Waiting(M)') BY DEF Line, Waiting
    <3>2. ValueOf' = ValueOf BY <2>1 DEF ValueOf
    <3> QED BY <2>1, <2>3, <3>1, <3>2
  <2>5. /\ W \in Seq(Keys) /\ Line(L) = popped \o Mapped(ValueOf, W)
        /\ Mapped(ValueOf, W) \in Seq(Values)
    BY <2>2, LineIs
  <2>6. Mapped(ValueOf, W \o H[p]) = Mapped(ValueOf, W) \o Mapped(ValueOf, H[p])
    BY <2>5, MappedJoin
  <2>7. Mapped(ValueOf, H[p]) \in Seq(Values) /\ popped \in Seq(Values)
    <3>1. NodesIn(H[p]) \subseteq Carriers(L, H) BY <1>13 DEF Carriers
    <3>2. ASSUME NEW c \in Range(H[p]) PROVE ValueOf[c] \in Values
      <4>1. c \in Keys BY SeqParts
      <4>2. MAKE_NODEPTR(c) \in Carriers(L, H) BY <3>1 DEF NodesIn
      <4> QED BY <4>1, <4>2 DEF ValueOf, Inv, ValuesApart
    <3> QED BY <3>2, MappedOn DEF TypeOK
  <2>8. \A u, v, w \in Seq(Values) : (u \o v) \o w = u \o (v \o w) BY Associates
  <2>9. (popped \o Mapped(ValueOf, W)) \o Mapped(ValueOf, H[p])
            = popped \o (Mapped(ValueOf, W) \o Mapped(ValueOf, H[p]))
    BY <2>5, <2>7, <2>8
  <2> QED BY <2>4, <2>5, <2>6, <2>9
<1>20. InOrder(M, G)'
  <2>1. n \in Linked BY <1>4, LinkedIs
  <2>2. detached' = detached BY <1>2, <2>1 DEF TypeOK
  <2>3. \A v : Begun(v)' <=> Begun(v) BY <1>2 DEF Begun
  <2>4. ASSUME ~detached
        PROVE  /\ \A q \in Linkers' : Len(G[q]) = 1
               /\ Sorted(Line(M)', earlier)
               /\ \A q \in Producers : pc'[q] \in LinkLabels \union {"init"} =>
                      earlier[Pushing(q)] \subseteq Safe(M, G)'
    <3>1. /\ \A q \in Linkers : Len(H[q]) = 1
          /\ Sorted(Line(L), earlier)
          /\ \A q \in Producers : pc[q] \in LinkLabels \union {"init"} =>
                 earlier[Pushing(q)] \subseteq Safe(L, H)
      BY <1>3, <2>4 DEF InOrder
    <3>2. Safe(L, H) = Range(Line(L)) /\ Line(L) \in Seq(Values) BY <3>1, LineIs
    <3>3. Mapped(ValueOf, H[p]) = <<Pushing(p)>> /\ Pushing(p) \in Values
      BY <1>13, <3>1, MineAlone
    <3>5. Line(M)' = Append(Line(L), Pushing(p)) BY <1>19, <3>2, <3>3
    <3>6. earlier[Pushing(p)] \subseteq Range(Line(L)) BY <1>2, <3>1, <3>2 DEF LinkLabels
    <3>7. Sorted(Line(M)', earlier) BY <3>1, <3>2, <3>3, <3>5, <3>6, SortedLonger
    <3>8. \A q \in Linkers' : Len(G[q]) = 1 BY <1>8, <1>13, <3>1 DEF Linkers
    <3>9. \A q \in Producers : pc'[q] \in LinkLabels \union {"init"} =>
                      earlier[Pushing(q)] \subseteq Safe(M, G)'
      BY <1>9, <1>15, <3>1 DEF LinkLabels
    <3> QED BY <3>7, <3>8, <3>9
  <2>5. earlier' = earlier /\ \A q \in Producers : Pushing(q)' = Pushing(q)
    BY <1>2 DEF Pushing
  <2> QED BY <1>3, <2>2, <2>3, <2>4, <2>5 DEF InOrder
<1> QED BY <1>7, <1>8, <1>15, <1>16, <1>17, <1>18, <1>19, <1>20 DEF Inv

\* G is H after p linked its nodes behind those of q.
IsMoved(G, H, p, q) == G = [H EXCEPT ![q] = H[q] \o H[p], ![p] = <<>>]

\* The node is linked behind one that hangs on another push.
LEMMA LinkDetached ==
  ASSUME TypeOK, NEW L, NEW H \in [Producers -> Seq(Keys)], Inv(L, H),
         NEW p \in Producers, Links(p), MAKE_NODEPTR(tail[p]) \notin NodesIn(L),
         NEW q \in Producers, q # p, pc[q] \in LinkLabels,
         MAKE_NODEPTR(tail[p]) = MAKE_NODEPTR(H[q][Len(H[q])]),
         H[q][Len(H[q])][2] > newKey[p][2],
         NEW G, IsMoved(G, H, p, q)
  PROVE  TypeOK' /\ G \in [Producers -> Seq(Keys)] /\ Inv(L, G)'
<1>1. PICK n : n = MAKE_NODEPTR(tail[p]) OBVIOUS
<1>2. /\ pc[p] = "link" /\ pc' = [pc EXCEPT ![p] = "swing"]
      /\ key[n] = NULL /\ key' = [key EXCEPT ![n] = newKey[p]]
      /\ detached' = (detached \/ n \notin Linked)
      /\ UNCHANGED <<value, _head, _tail, pool, _size, pushs, newKey, tail, seen,
                     consumerVars, pushedVars, popped>>
  BY <1>1 DEF Links, Link, Goto
<1>3. Hangs(L, H) /\ Apart(L, H) /\ Numbers(L, H) /\ InOrder(L, H) BY DEF Inv
<1>4. /\ n \in Nodes /\ n \notin NodesIn(L) /\ n = MAKE_NODEPTR(H[q][Len(H[q])])
      /\ \A r \in Producers : r # q => n \notin NodesIn(H[r])
  <2>1. n \in Nodes /\ n = MAKE_NODEPTR(H[q][Len(H[q])]) BY <1>1, LinkFinds
  <2>2. Path(key, newKey[q], H[q]) BY <1>3 DEF Hangs
  <2>3. n \in NodesIn(H[q]) BY <2>1, <2>2, PathParts DEF NodesIn
  <2> QED BY <1>1, <1>3, <2>1, <2>3 DEF Apart
<1>5. /\ Path(key, _head, L) /\ Path(key, newKey[p], H[p]) /\ Path(key, newKey[q], H[q])
      /\ pc[q] # "init" /\ pc[p] \in LinkLabels
  BY <1>2, <1>3 DEF Hangs, LinkLabels
<1>6. PICK J : J = H[q] \o H[p] OBVIOUS
<1>7. /\ J \in Seq(Keys) /\ Len(J) = Len(H[q]) + Len(H[p])
      /\ NodesIn(J) = NodesIn(H[q]) \union NodesIn(H[p])
      /\ Range(J) = Range(H[q]) \union Range(H[p])
      /\ \A i \in 1 .. Len(H[q]) + Len(H[p]) :
             J[i] = IF i <= Len(H[q]) THEN H[q][i] ELSE H[p][i - Len(H[q])]
  BY <1>6, JoinedKeys
<1>8. /\ G \in [Producers -> Seq(Keys)] /\ G[p] = <<>> /\ G[q] = J
      /\ \A r \in Producers : r # p /\ r # q => G[r] = H[r]
  <2>1. <<>> \in Seq(Keys) BY EmptySeq
  <2> QED BY <1>6, <1>7, <2>1 DEF IsMoved
<1>9. /\ pc'[p] = "swing" /\ \A r \in Producers : r # p => pc'[r] = pc[r]
      /\ key'[n] = newKey[p] /\ \A m \in Nodes : m # n => key'[m] = key[m]
  BY <1>2, <1>4 DEF TypeOK
<1>10. Path(key', newKey[q], J)
  <2>1. NodesIn(H[q]) \intersect NodesIn(H[p]) = {} BY <1>3 DEF Apart
  <2>2. Path(key', newKey[q], H[q] \o H[p]) BY <1>4, <1>5, <1>9, <2>1, PathsJoin
  <2> QED BY <1>6, <2>2
<1>11. NodesIn(<<>>) = {} /\ Range(<<>>) = {} BY EmptyRange DEF NodesIn
<1>12. /\ \A r \in Producers : NodesIn(G[r]) = IF r = p THEN {} ELSE
             IF r = q THEN NodesIn(H[q]) \union NodesIn(H[p]) ELSE NodesIn(H[r])
       /\ \A r \in Producers : Range(G[r]) = IF r = p THEN {} ELSE
             IF r = q THEN Range(H[q]) \union Range(H[p]) ELSE Range(H[r])
  BY <1>7, <1>8, <1>11
<1>13. HangingKeys(G) \subseteq HangingKeys(H) BY <1>12 DEF HangingKeys
<1>14. p \in Linkers /\ q \in Linkers /\ Linkers' = Linkers \ {p}
  BY <1>5, <1>9 DEF Linkers, LinkLabels
<1>15. Carriers(L, G)' = Carriers(L, H)
  <2> DEFINE u == UNION {NodesIn(H[r]) : r \in Linkers}
             w == UNION {NodesIn(G[r]) : r \in Linkers \ {p}}
             d == IF cpc = "value" THEN NodesIn(L) ELSE NodesIn(L) \ {MAKE_NODEPTR(_head)}
  <2>1. cpc' = cpc /\ _head' = _head BY <1>2
  <2>2. ASSUME NEW m PROVE m \in u <=> m \in w
    <3>1. ASSUME NEW r \in Linkers, m \in NodesIn(H[r]) PROVE m \in w
      <4>1. CASE r \in {p, q}
        <5>1. m \in NodesIn(G[q]) BY <1>12, <3>1, <4>1
        <5> QED BY <1>14, <5>1
      <4>2. CASE r \notin {p, q}
        <5>1. m \in NodesIn(G[r]) BY <1>12, <3>1, <4>2 DEF Linkers
        <5> QED BY <4>2, <5>1
      <4> QED BY <4>1, <4>2
    <3>2. ASSUME NEW r \in Linkers \ {p}, m \in NodesIn(G[r]) PROVE m \in u
      <4>1. r \in Producers BY DEF Linkers
      <4>2. m \in NodesIn(H[r]) \/ m \in NodesIn(H[p]) BY <1>12, <3>2, <4>1
      <4> QED BY <1>14, <4>2
    <3> QED BY <3>1, <3>2
  <2>3. Carriers(L, G)' = d \union w BY <1>14, <2>1 DEF Carriers
  <2>4. Carriers(L, H) = d \union u BY DEF Carriers
  <2> HIDE DEF u, w, d
  <2> QED BY <2>2, <2>3, <2>4
<1>16. /\ TypeOK' /\ Locals' /\ TailsRead(G)' /\ TailMoves(L)' /\ Consumer'
       /\ ValuesApart(L, G)'
       /\ \A c \in Range(L) \union HangingKeys(G) : c[2] <= pushs
  <2>1. Range(L) \subseteq Range(L) /\ Range(L) \subseteq Range(L) \union HangingKeys(H)
    OBVIOUS
  <2> QED BY <1>13, <1>15, <2>1, LinkCommon
<1>17. \A m \in NodesIn(L) : key'[m] = key[m]
  <2>1. NodesIn(L) \subseteq Nodes BY <1>5, PathParts, NodesOfKeys
  <2> QED BY <1>4, <1>9, <2>1
<1>18. Hangs(L, G)'
  <2>1. ASSUME NEW r \in Producers
        PROVE  /\ pc'[r] = "init" => G[r] = <<newKey[r]>>
               /\ pc'[r] \in LinkLabels => Path(key', newKey[r], G[r])
               /\ pc'[r] \in {"idle", "swing", "size"} => G[r] = <<>>
    <3>1. CASE r = p BY <1>8, <1>9, <3>1 DEF LinkLabels
    <3>2. CASE r = q BY <1>5, <1>8, <1>9, <1>10, <3>2 DEF LinkLabels
    <3>3. CASE r # p /\ r # q
      <4>1. pc'[r] = pc[r] /\ G[r] = H[r] BY <1>8, <1>9, <3>3
      <4>2. ASSUME pc[r] \in LinkLabels PROVE Path(key', newKey[r], H[r])
        <5>1. Path(key, newKey[r], H[r]) BY <1>3, <4>2 DEF Hangs
        <5>2. n \notin NodesIn(H[r]) BY <1>4, <3>3
        <5>3. NodesIn(H[r]) \subseteq Nodes BY <5>1, PathParts, NodesOfKeys
        <5>4. \A m \in NodesIn(H[r]) : key'[m] = key[m] BY <1>9, <5>2, <5>3
        <5> QED BY <5>1, <5>4, PathSame
      <4> QED BY <1>3, <4>1, <4>2 DEF Hangs
    <3> QED BY <3>1, <3>2, <3>3
  <2>2. Path(key', _head, L) BY <1>5, <1>17, PathSame
  <2>3. _head' = _head /\ newKey' = newKey BY <1>2
  <2> QED BY <2>1, <2>2, <2>3 DEF Hangs
<1>19. Apart(L, G)'
  <2>1. \A r, s \in Producers : r # s => NodesIn(H[r]) \intersect NodesIn(H[s]) = {}
    BY <1>3 DEF Apart
  <2>2. \A r \in Producers : /\ NodesIn(H[r]) \intersect Range(pool) = {}
                             /\ NodesIn(H[r]) \intersect NodesIn(L) = {}
    BY <1>3 DEF Apart
  <2>3. ASSUME NEW r \in Producers
        PROVE  NodesIn(G[r]) \intersect Range(pool) = {} /\ NodesIn(G[r]) \intersect NodesIn(L) = {}
    <3>1. CASE r = p BY <1>12, <3>1
    <3>2. CASE r = q
      <4>1. NodesIn(G[r]) = NodesIn(H[q]) \union NodesIn(H[p]) BY <1>12, <3>2
      <4> QED BY <2>2, <4>1
    <3>3. CASE r # p /\ r # q BY <1>12, <2>2, <3>3
    <3> QED BY <3>1, <3>2, <3>3
  <2>4. ASSUME NEW r \in Producers, NEW s \in Producers, r # s, NEW m,
               m \in NodesIn(G[r]), m \in NodesIn(G[s])
        PROVE  FALSE
    <3>1. PICK a \in Producers :
              m \in NodesIn(H[a]) /\ ((a = r /\ a # p) \/ (a = p /\ r = q))
      BY <1>12, <2>4
    <3>2. PICK b \in Producers :
              m \in NodesIn(H[b]) /\ ((b = s /\ b # p) \/ (b = p /\ s = q))
      BY <1>12, <2>4
    <3>3. a # b BY <2>4, <3>1, <3>2
    <3> QED BY <2>1, <3>1, <3>2, <3>3
  <2>5. ASSUME NEW m \in Nodes
        PROVE  m \in Range(pool) \/ m \in NodesIn(L) \/ \E r \in Producers : m \in NodesIn(G[r])
    <3>1. CASE \E r \in Producers : m \in NodesIn(H[r])
      <4>1. PICK r \in Producers : m \in NodesIn(H[r]) BY <3>1
      <4>2. CASE r \in {p, q} BY <1>12, <4>1, <4>2
      <4>3. CASE r \notin {p, q} BY <1>12, <4>1, <4>3
      <4> QED BY <4>2, <4>3
    <3> QED BY <1>3, <3>1 DEF Apart
  <2>6. pool' = pool /\ IsInjective(pool) /\ Range(pool) \intersect NodesIn(L) = {}
    BY <1>2, <1>3 DEF Apart
  <2>7. \A r, s \in Producers : r # s => NodesIn(G[r]) \intersect NodesIn(G[s]) = {} BY <2>4
  <2> QED BY <2>3, <2>5, <2>6, <2>7 DEF Apart
<1>20. Numbers(L, G)'
  <2>1. ASSUME NEW r \in Producers
        PROVE  \A i, j \in 1 .. Len(G[r]) : i < j => G[r][i][2] > G[r][j][2]
    <3>1. CASE r = p
      <4>1. Len(G[r]) = 0 BY <1>8, <3>1
      <4>2. 1 .. 0 = {} OBVIOUS
      <4> QED BY <4>1, <4>2
    <3>2. CASE r = q
      <4> DEFINE a == Len(H[q])
                 b == Len(H[p])
      <4>1. a \in Nat /\ a > 0 /\ b \in Nat /\ b > 0 /\ H[p][1] = newKey[p]
        BY <1>5, PathParts
      <4>2. /\ \A i, j \in 1 .. a : i < j => H[q][i][2] > H[q][j][2]
            /\ \A i, j \in 1 .. b : i < j => H[p][i][2] > H[p][j][2]
        BY <1>3 DEF Numbers
      <4>3. /\ \A i \in 1 .. a : H[q][i] \in Keys
            /\ \A i \in 1 .. b : H[p][i] \in Keys
        BY SeqParts
      <4>4. /\ \A i \in 1 .. a : H[q][i][2] \in Nat
            /\ \A i \in 1 .. b : H[p][i][2] \in Nat
        BY <4>3, KeyParts
      <4>5. H[q][a][2] > newKey[p][2] OBVIOUS
      <4>6. Len(J) = a + b /\ \A i \in 1 .. a + b : J[i] = IF i <= a THEN H[q][i] ELSE H[p][i - a]
        BY <1>7
      <4> HIDE DEF a, b
      <4>7. a \in 1 .. a /\ 1 \in 1 .. b BY <4>1
      <4>8. \A i \in 1 .. a : H[q][i][2] > newKey[p][2]
        <5> TAKE i \in 1 .. a
        <5>1. CASE i = a BY <4>5, <5>1
        <5>2. CASE i < a
          <6>1. H[q][i][2] > H[q][a][2] BY <4>2, <4>7, <5>2
          <6>2. newKey[p][2] \in Nat BY <4>1, <4>4, <4>7
          <6> QED BY <4>4, <4>5, <4>7, <6>1, <6>2
        <5> QED BY <4>1, <5>1, <5>2
      <4>9. \A j \in 1 .. b : newKey[p][2] >= H[p][j][2]
        <5> TAKE j \in 1 .. b
        <5>1. CASE j = 1 BY <4>1, <4>4, <5>1
        <5>2. CASE j > 1
          <6>1. H[p][1][2] > H[p][j][2] BY <4>2, <4>7, <5>2
          <6> QED BY <4>1, <4>4, <4>7, <6>1
        <5> QED BY <4>1, <5>1, <5>2
      <4>10. ASSUME NEW i \in 1 .. a + b, NEW j \in 1 .. a + b, i < j
             PROVE  J[i][2] > J[j][2]
        <5>1. CASE i <= a /\ j <= a
          <6>1. i \in 1 .. a /\ j \in 1 .. a /\ J[i] = H[q][i] /\ J[j] = H[q][j]
            BY <4>1, <4>6, <5>1
          <6> QED BY <4>2, <4>10, <6>1
        <5>2. CASE i <= a /\ ~(j <= a)
          <6>1. i \in 1 .. a /\ j - a \in 1 .. b BY <4>1, <5>2
          <6>2. J[i] = H[q][i] /\ J[j] = H[p][j - a] BY <4>6, <5>2
          <6>3. J[i][2] > newKey[p][2] /\ newKey[p][2] >= J[j][2] BY <4>8, <4>9, <6>1, <6>2
          <6>4. J[i][2] \in Nat /\ J[j][2] \in Nat BY <4>4, <6>1, <6>2
          <6>5. newKey[p][2] \in Nat BY <4>1, <4>4, <4>7
          <6> QED BY <6>3, <6>4, <6>5
        <5>3. CASE ~(i <= a) /\ ~(j <= a)
          <6>1. i - a \in 1 .. b /\ j - a \in 1 .. b /\ i - a < j - a BY <4>1, <4>10, <5>3
          <6>2. J[i] = H[p][i - a] /\ J[j] = H[p][j - a] BY <4>6, <5>3
          <6> QED BY <4>2, <6>1, <6>2
        <5>4. i <= a \/ ~(j <= a) BY <4>1, <4>10
        <5> QED BY <5>1, <5>2, <5>3, <5>4
      <4> QED BY <1>8, <3>2, <4>6, <4>10
    <3>3. CASE r # p /\ r # q BY <1>3, <1>8, <3>3 DEF Numbers
    <3> QED BY <3>1, <3>2, <3>3
  <2>2. pushs' = pushs BY <1>2
  <2> QED BY <1>16, <2>1, <2>2 DEF Numbers
<1>21. InOrder(L, G)'
  <2>1. detached' BY <1>2, <1>4, LinkedIs
  <2>2. earlier' = earlier /\ \A v : Begun(v)' <=> Begun(v) BY <1>2 DEF Begun
  <2> QED BY <1>3, <2>1, <2>2 DEF InOrder
<1> QED BY <1>8, <1>16, <1>18, <1>19, <1>20, <1>21 DEF Inv

----------------------------------------------------------------------------
(* The steps of pop that take a node and a value out.                       *)

\* The dummy goes back to the pool, and the node behind it is the dummy.
LEMMA TakeCommon ==
  ASSUME TypeOK, NEW L \in Seq(Keys), NEW H, Inv(L, H), PopTake \/ JobTake,
         NEW M, M = Tail(L)
  PROVE  /\ M \in Seq(Keys) /\ _head' \in Keys /\ pool' \in Seq(Nodes)
         /\ ckey \in Keys /\ Path(key, ckey, M)
         /\ NodesIn(M) = NodesIn(L) \ {MAKE_NODEPTR(_head)}
         /\ Hangs(M, H)' /\ Apart(M, H)' /\ Numbers(M, H)' /\ TailsRead(H)' /\ TailMoves(M)'
<1>1. /\ cpc = "take" /\ _head' = ckey /\ pool' = <<MAKE_NODEPTR(_head)>> \o pool
      /\ UNCHANGED <<key, value, _tail, pushs, producerVars>>
  BY DEF PopTake, JobTake, PoolFree
<1>2. /\ Hangs(L, H) /\ Locals /\ Apart(L, H) /\ Numbers(L, H) /\ TailsRead(H)
      /\ TailMoves(L) /\ Consumer
  BY DEF Inv
<1>3. PICK h : h = MAKE_NODEPTR(_head) OBVIOUS
<1>4. Path(key, _head, L) BY <1>2 DEF Hangs
<1>5. ckey \in Keys /\ ckey = key[h] /\ key[h] # NULL /\ _tail # _head
  BY <1>1, <1>2, <1>3, KeyParts DEF Locals, Consumer
<1>6. /\ Path(key, ckey, M) /\ Range(M) = Range(L) \ {_head}
      /\ NodesIn(M) = NodesIn(L) \ {h}
  <2>1. /\ Path(key, key[MAKE_NODEPTR(_head)], Tail(L))
        /\ Range(Tail(L)) = Range(L) \ {_head}
        /\ NodesIn(Tail(L)) = NodesIn(L) \ {MAKE_NODEPTR(_head)}
    BY <1>3, <1>4, <1>5, PathRest
  <2> QED BY <1>3, <1>5, <2>1
<1>7. M \in Seq(Keys) BY <1>6, PathParts
<1>8. h \in Nodes /\ h \in NodesIn(L) BY <1>3, <1>4, PathParts, KeyParts DEF NodesIn
<1>9. pool \in Seq(Nodes) /\ IsInjective(pool) /\ h \notin Range(pool)
  BY <1>2, <1>8 DEF TypeOK, Apart
<1>10. pool' \in Seq(Nodes) /\ IsInjective(pool') /\ Range(pool') = Range(pool) \union {h}
  <2> DEFINE o == <<h>>
  <2>1. o \in Seq(Nodes) /\ Len(o) = 1 /\ o[1] = h BY <1>8
  <2> HIDE DEF o
  <2>2. Range(o) = {h} BY <2>1, SeqParts
  <2>3. IsInjective(o)
    <3>1. DOMAIN o = 1 .. 1 BY <2>1, SeqParts
    <3> QED BY <3>1 DEF IsInjective
  <2>4. Range(o) \intersect Range(pool) = {} BY <1>9, <2>2
  <2>5. /\ o \o pool \in Seq(Nodes) /\ Range(o \o pool) = Range(o) \union Range(pool)
        /\ IsInjective(o \o pool)
    <3>1. o \o pool \in Seq(Nodes) BY <1>9, <2>1, ConcatProperties
    <3> QED BY <1>9, <2>1, <2>3, <2>4, <3>1, JoinedSets
  <2> QED BY <1>1, <1>3, <2>2, <2>5 DEF o
<1>11. Hangs(M, H)' BY <1>1, <1>2, <1>6 DEF Hangs
<1>12. Apart(M, H)'
  <2>1. Range(pool') \intersect NodesIn(M) = {} BY <1>2, <1>6, <1>10 DEF Apart
  <2>2. ASSUME NEW p \in Producers
        PROVE  NodesIn(H[p]) \intersect Range(pool') = {} /\ NodesIn(H[p]) \intersect NodesIn(M) = {}
    <3>1. /\ NodesIn(H[p]) \intersect Range(pool) = {}
          /\ NodesIn(H[p]) \intersect NodesIn(L) = {}
      BY <1>2 DEF Apart
    <3> QED BY <1>6, <1>8, <1>10, <3>1
  <2>3. \A n \in Nodes : n \in Range(pool') \/ n \in NodesIn(M)
                             \/ \E p \in Producers : n \in NodesIn(H[p])
    BY <1>2, <1>6, <1>10 DEF Apart
  <2>4. \A p, q \in Producers : p # q => NodesIn(H[p]) \intersect NodesIn(H[q]) = {}
    BY <1>2 DEF Apart
  <2> QED BY <1>10, <2>1, <2>2, <2>3, <2>4 DEF Apart
<1>13. Numbers(M, H)'
  <2>1. pushs' = pushs /\ \A c \in Range(M) : c \in Range(L) BY <1>1, <1>6
  <2> QED BY <1>2, <2>1 DEF Numbers
<1>14. TailsRead(H)'
  <2>1. \A p \in Producers : MAKE_NODEPTR(tail[p]) \in Range(pool') =>
            MAKE_NODEPTR(tail[p]) \in Range(pool) \/ MAKE_NODEPTR(tail[p]) = h
    BY <1>10
  <2>2. ASSUME NEW p \in Producers, pc[p] \in {"key", "link"},
               \/ MAKE_NODEPTR(tail[p]) \in Range(pool')
               \/ \E q \in Producers : pc[q] = "init" /\ Mine(q) = MAKE_NODEPTR(tail[p])
        PROVE  key[MAKE_NODEPTR(tail[p])] # NULL
    <3>1. CASE MAKE_NODEPTR(tail[p]) = h BY <1>5, <3>1
    <3>2. CASE MAKE_NODEPTR(tail[p]) # h BY <1>2, <2>1, <2>2, <3>2 DEF TailsRead
    <3> QED BY <3>1, <3>2
  <2>3. UNCHANGED <<key, pushs, pc, newKey, tail>> BY <1>1
  <2>4. \A q \in Producers : Mine(q)' = Mine(q) BY <2>3 DEF Mine
  <2> QED BY <1>2, <2>2, <2>3, <2>4 DEF TailsRead
<1>15. TailMoves(M)'
  <2>1. _tail \in Range(M) BY <1>2, <1>5, <1>6 DEF TailMoves
  <2>2. \A c \in Range(M) : c \in Range(L) BY <1>6
  <2> QED BY <1>1, <1>2, <2>1, <2>2 DEF TailMoves
<1> QED
  BY <1>1, <1>3, <1>5, <1>6, <1>7, <1>10, <1>11, <1>12, <1>13, <1>14, <1>15

\* The value of the node m is given out.
LEMMA Deliver ==
  ASSUME TypeOK, NEW L, NEW H, Inv(L, H), NEW m \in Carriers(L, H) \ Own,
         popped' = Append(popped, value[m]),
         UNCHANGED <<value, pc, newKey, count, returned, refused, earlier, detached>>,
         NEW M, Carriers(M, H)' = Carriers(L, H) \ {m}, Line(M)' = Line(L)
  PROVE  popped' \in Seq(Values) /\ ValuesApart(M, H)' /\ InOrder(M, H)'
<1>1. ValuesApart(L, H) /\ InOrder(L, H) BY DEF Inv
<1>2. PICK v : v = value[m] OBVIOUS
<1>3. v \in Values /\ Begun(v) /\ v \notin Range(popped) \union refused
  BY <1>1, <1>2 DEF ValuesApart
<1>4. popped \in Seq(Values) BY DEF TypeOK
<1>5. /\ popped' \in Seq(Values) /\ Range(popped') = Range(popped) \union {v}
      /\ IsInjective(popped')
  <2>1. popped' = Append(popped, v) BY <1>2
  <2>2. Append(popped, v) \in Seq(Values) BY <1>3, <1>4, AppendProperties
  <2>3. /\ Range(Append(popped, v)) = Range(popped) \union {v}
        /\ IsInjective(Append(popped, v)) <=> IsInjective(popped) /\ v \notin Range(popped)
    BY <1>3, <1>4, AppendedSets
  <2>4. IsInjective(popped) BY <1>1 DEF ValuesApart
  <2> QED BY <1>3, <2>1, <2>2, <2>3, <2>4
<1>6. Linkers' = Linkers BY DEF Linkers
<1>7. \A p \in Producers : Mine(p)' = Mine(p) /\ Pushing(p)' = Pushing(p)
  BY DEF Mine, Pushing
<1>8. Own' = Own BY <1>6, <1>7 DEF Own, Linkers
<1>9. Safe(M, H)' = Safe(L, H)
  <2>1. Safe(M, H)' = Range(popped') \union {value[n] : n \in (Carriers(L, H) \ {m}) \ Own}
    BY <1>8 DEF Safe
  <2>2. m \in Carriers(L, H) \ Own OBVIOUS
  <2>3. \A w : w \in Safe(M, H)' <=> w \in Safe(L, H) BY <1>2, <1>5, <2>1, <2>2 DEF Safe
  <2> QED BY <2>3
<1>10. \A w : Begun(w)' <=> Begun(w) BY DEF Begun
<1>11. ValuesApart(M, H)'
  <2>1. \A n \in Carriers(L, H) \ {m} : value[n] # v BY <1>1, <1>2 DEF ValuesApart
  <2>2. \A n \in Carriers(L, H) \ {m} :
            /\ value[n] \in Values /\ Begun(value[n])
            /\ value[n] \notin Range(popped') \union refused
    BY <1>1, <1>5, <2>1 DEF ValuesApart
  <2>3. \A l, n \in Carriers(L, H) \ {m} : value[l] = value[n] => l = n
    BY <1>1 DEF ValuesApart
  <2>4. /\ Range(popped') \intersect refused = {}
        /\ \A w \in Range(popped') \union refused : Begun(w)
        /\ returned \subseteq Safe(L, H)
    BY <1>1, <1>3, <1>5 DEF ValuesApart
  <2>5. ASSUME NEW p \in Producers
        PROVE  /\ pc[p] # "idle" => Pushing(p) \notin refused
               /\ pc[p] = "init" => /\ Pushing(p) \notin Range(popped')
                                    /\ \A n \in Carriers(L, H) \ {m} : value[n] # Pushing(p)
               /\ pc[p] \in LinkLabels => value[Mine(p)] = Pushing(p)
               /\ pc[p] \in {"swing", "size"} => Pushing(p) \in Safe(L, H)
    <3>1. pc[p] = "init" => Pushing(p) # v BY <1>1, <1>2 DEF ValuesApart
    <3> QED BY <1>1, <1>5, <3>1 DEF ValuesApart
  <2>6. \A n : Begun(value[n])' <=> Begun(value[n]) BY DEF Begun
  <2>7. UNCHANGED <<value, pc, refused, returned>> OBVIOUS
  <2> QED
    BY <1>5, <1>7, <1>9, <1>10, <2>2, <2>3, <2>4, <2>5, <2>6, <2>7 DEF ValuesApart
<1>12. InOrder(M, H)' BY <1>1, <1>6, <1>7, <1>9, <1>10 DEF InOrder
<1> QED BY <1>5, <1>11, <1>12

\* Neither the values given out nor those waiting change.
LEMMA ValuesSame ==
  ASSUME NEW L, NEW H, Inv(L, H), NEW M,
         Carriers(M, H)' = Carriers(L, H), Line(M)' = Line(L),
         UNCHANGED <<value, pc, newKey, popped, count, returned, refused, earlier, detached>>
  PROVE  ValuesApart(M, H)' /\ InOrder(M, H)'
<1>1. ValuesApart(L, H) /\ InOrder(L, H) BY DEF Inv
<1>2. Linkers' = Linkers BY DEF Linkers
<1>3. /\ \A p \in Producers : Mine(p)' = Mine(p) /\ Pushing(p)' = Pushing(p)
      /\ \A w : Begun(w)' <=> Begun(w)
      /\ \A n : Begun(value[n])' <=> Begun(value[n])
  BY DEF Mine, Pushing, Begun
<1>4. Own' = Own BY <1>2, <1>3 DEF Own, Linkers
<1>5. Safe(M, H)' = Safe(L, H) BY <1>4 DEF Safe
<1>6. ValuesApart(M, H)' BY <1>1, <1>3, <1>5 DEF ValuesApart
<1>7. InOrder(M, H)' BY <1>1, <1>2, <1>3, <1>5 DEF InOrder
<1> QED BY <1>6, <1>7

LEMMA PopTakeStep ==
  ASSUME TypeOK, NEW L \in Seq(Keys), NEW H, Inv(L, H), PopTake, NEW M, M = Tail(L)
  PROVE  TypeOK' /\ M \in Seq(Keys) /\ Inv(M, H)' /\ Line(M)' = Line(L)
<1>1. /\ cpc = "take" /\ cpc' = "value" /\ _head' = ckey
      /\ UNCHANGED <<key, value, _tail, _size, pushs, producerVars, ctail, ckey, historyVars>>
  BY DEF PopTake
<1>2. /\ M \in Seq(Keys) /\ _head' \in Keys /\ pool' \in Seq(Nodes)
      /\ ckey \in Keys
      /\ NodesIn(M) = NodesIn(L) \ {MAKE_NODEPTR(_head)}
      /\ Hangs(M, H)' /\ Apart(M, H)' /\ Numbers(M, H)' /\ TailsRead(H)' /\ TailMoves(M)'
  BY TakeCommon
<1>3. Locals BY DEF Inv
<1>4. TypeOK' BY <1>1, <1>2 DEF TypeOK
<1>5. Locals' BY <1>1, <1>2, <1>3 DEF Locals
<1>6. Consumer' BY <1>1 DEF Consumer
<1>7. Carriers(M, H)' = Carriers(L, H)
  <2>1. Linkers' = Linkers BY <1>1 DEF Linkers
  <2> QED BY <1>1, <1>2, <2>1 DEF Carriers
<1>8. Line(M)' = Line(L) BY <1>1 DEF Line, ValueOf
<1>9. ValuesApart(M, H)' /\ InOrder(M, H)'
  <2>1. UNCHANGED <<value, pc, newKey, popped, count, returned, refused, earlier, detached>>
    BY <1>1
  <2> QED BY <1>7, <1>8, <2>1, ValuesSame
<1> QED BY <1>2, <1>4, <1>5, <1>6, <1>8, <1>9 DEF Inv

\* The first of the values that wait behind those given out.
LEMMA LineMoves ==
  ASSUME NEW S, NEW a \in Seq(S), NEW v \in S, NEW b \in Seq(S)
  PROVE  Append(a, v) \o b = a \o (<<v>> \o b)
<1>1. <<v>> \in Seq(S) OBVIOUS
<1>2. Append(a, v) = a \o <<v>> BY AppendIsConcat
<1>3. (a \o <<v>>) \o b = a \o (<<v>> \o b) BY <1>1, Associates
<1> QED BY <1>2, <1>3

\* The first of the keys that wait gives its value out.
LEMMA FirstWaits ==
  ASSUME TypeOK, NEW L, NEW H, Inv(L, H), NEW r, NEW K, Path(key, r, K), K = Waiting(L)
  PROVE  /\ MAKE_NODEPTR(r) \in Carriers(L, H) \ Own /\ value[MAKE_NODEPTR(r)] \in Values
         /\ Append(popped, value[MAKE_NODEPTR(r)]) \o Mapped(ValueOf, Tail(K)) = Line(L)
<1>1. PICK n : n = MAKE_NODEPTR(r) OBVIOUS
<1>2. PICK v : v = value[n] OBVIOUS
<1>3. PICK T : T = Tail(K) OBVIOUS
<1>4. /\ K \in Seq(Keys) /\ NodesIn(K) = WaitingNodes(L)
      /\ WaitingNodes(L) \subseteq Carriers(L, H) \ Own
      /\ Line(L) = popped \o Mapped(ValueOf, K)
      /\ Mapped(ValueOf, K) \in Seq(Values)
  BY LineIs
<1>5. r \in Keys /\ r \in Range(K) BY PathParts
<1>6. n \in Carriers(L, H) \ Own BY <1>1, <1>4, <1>5 DEF NodesIn
<1>7. v \in Values BY <1>2, <1>6 DEF Inv, ValuesApart
<1>8. T \in Seq(Keys) /\ K = <<r>> \o T /\ Range(T) \subseteq Range(K)
  <2>1. ASSUME NEW J, Path(key, r, J)
        PROVE  /\ Tail(J) \in Seq(Keys) /\ J = <<r>> \o Tail(J)
               /\ Range(Tail(J)) = Range(J) \ {r}
    BY <2>1, TailOfPath, Zenon
  <2>2. Path(key, r, K) OBVIOUS
  <2> QED BY <1>3, <2>1, <2>2, Zenon
<1> DEFINE o == <<r>>
<1>9. o \in Seq(Keys) /\ Len(o) = 1 /\ o[1] = r BY <1>5
<1>10. Mapped(ValueOf, o) = <<v>>
  <2> HIDE DEF o
  <2>1. DOMAIN o = 1 .. 1 BY <1>9, SeqParts
  <2>2. ValueOf[r] = v BY <1>1, <1>2, <1>5 DEF ValueOf
  <2>3. Mapped(ValueOf, o) = [i \in 1 .. 1 |-> v] BY <1>9, <2>1, <2>2 DEF Mapped
  <2> QED BY <2>3
<1>11. K = o \o T BY <1>8
<1> HIDE DEF o
<1>12. Mapped(ValueOf, K) = Mapped(ValueOf, o) \o Mapped(ValueOf, T)
  BY <1>8, <1>9, <1>11, MappedJoin
<1>13. Mapped(ValueOf, T) \in Seq(Values)
  <2>1. ASSUME NEW c \in Range(T) PROVE ValueOf[c] \in Values
    <3>1. c \in Keys /\ c \in Range(K) BY <1>8, SeqParts
    <3>2. MAKE_NODEPTR(c) \in Carriers(L, H) BY <1>4, <3>1 DEF NodesIn
    <3> QED BY <3>1, <3>2 DEF ValueOf, Inv, ValuesApart
  <2> QED BY <1>8, <2>1, MappedOn
<1>14. popped \in Seq(Values) BY DEF TypeOK
<1>15. Append(popped, v) \o Mapped(ValueOf, T) = popped \o (<<v>> \o Mapped(ValueOf, T))
  BY <1>7, <1>13, <1>14, LineMoves
<1> QED BY <1>1, <1>2, <1>3, <1>4, <1>6, <1>7, <1>10, <1>12, <1>15

LEMMA JobTakeStep ==
  ASSUME TypeOK, NEW L \in Seq(Keys), NEW H, Inv(L, H), JobTake, NEW M, M = Tail(L)
  PROVE  TypeOK' /\ M \in Seq(Keys) /\ Inv(M, H)' /\ Line(M)' = Line(L)
<1>1. /\ cpc = "take" /\ cpc' = "idle" /\ _head' = ckey /\ ctail' = NoKey /\ ckey' = NoKey
      /\ popped' = Append(popped, value[MAKE_NODEPTR(ckey)])
      /\ UNCHANGED <<key, value, _tail, _size, pushs, producerVars, pushedVars, detached>>
  BY DEF JobTake
<1>2. /\ M \in Seq(Keys) /\ _head' \in Keys /\ pool' \in Seq(Nodes)
      /\ ckey \in Keys /\ Path(key, ckey, M)
      /\ NodesIn(M) = NodesIn(L) \ {MAKE_NODEPTR(_head)}
      /\ Hangs(M, H)' /\ Apart(M, H)' /\ Numbers(M, H)' /\ TailsRead(H)' /\ TailMoves(M)'
  BY TakeCommon
<1>3. Locals BY DEF Inv
<1>4. M = Waiting(L) BY <1>1 DEF Waiting
<1>5. PICK m : m = MAKE_NODEPTR(ckey) OBVIOUS
<1>6. /\ m \in Carriers(L, H) \ Own /\ value[m] \in Values
      /\ Append(popped, value[m]) \o Mapped(ValueOf, Tail(M)) = Line(L)
  BY <1>2, <1>4, <1>5, FirstWaits
<1>7. Line(M)' = Line(L)
  <2>1. Line(M)' = popped' \o Mapped(ValueOf, Tail(M)) BY <1>1 DEF Line, ValueOf
  <2> QED BY <1>1, <1>5, <1>6, <2>1
<1>8. Carriers(M, H)' = Carriers(L, H) \ {m}
  <2>1. Linkers' = Linkers BY <1>1 DEF Linkers
  <2> DEFINE u == UNION {NodesIn(H[p]) : p \in Linkers}
  <2>2. m \notin u
    <3>1. m \in NodesIn(M) BY <1>2, <1>5, PathParts DEF NodesIn
    <3>2. m \in NodesIn(L) BY <1>2, <3>1
    <3> QED BY <3>2 DEF Inv, Apart, Linkers
  <2>3. Carriers(L, H) = NodesIn(M) \union u BY <1>1, <1>2 DEF Carriers
  <2>4. Carriers(M, H)' = (NodesIn(M) \ {m}) \union u BY <1>1, <1>5, <2>1 DEF Carriers
  <2> HIDE DEF u
  <2> QED BY <2>2, <2>3, <2>4
<1>9. popped' \in Seq(Values) /\ ValuesApart(M, H)' /\ InOrder(M, H)'
  <2>1. UNCHANGED <<value, pc, newKey, count, returned, refused, earlier, detached>> BY <1>1
  <2>2. popped' = Append(popped, value[m]) BY <1>1, <1>5
  <2> QED BY <1>6, <1>7, <1>8, <2>1, <2>2, Deliver
<1>10. TypeOK' BY <1>1, <1>2, <1>9 DEF TypeOK
<1>11. Locals' BY <1>1, <1>3 DEF Locals
<1>12. Consumer' BY <1>1 DEF Consumer
<1> QED BY <1>2, <1>7, <1>9, <1>10, <1>11, <1>12 DEF Inv

LEMMA PopReturnStep ==
  ASSUME TypeOK, NEW L \in Seq(Keys), NEW H, Inv(L, H), PopReturn
  PROVE  TypeOK' /\ Inv(L, H)' /\ Line(L)' = Line(L)
<1>1. /\ cpc = "value" /\ cpc' = "idle" /\ ctail' = NoKey /\ ckey' = NoKey
      /\ popped' = Append(popped, value[MAKE_NODEPTR(ckey)])
      /\ UNCHANGED <<listVars, _size, pushs, producerVars, pushedVars, detached>>
  BY DEF PopReturn
<1>2. /\ Hangs(L, H) /\ Locals /\ Apart(L, H) /\ Numbers(L, H) /\ TailsRead(H)
      /\ TailMoves(L) /\ Consumer
  BY DEF Inv
<1>3. Path(key, _head, L) /\ ckey = _head BY <1>1, <1>2 DEF Hangs, Consumer
<1>4. L = Waiting(L) BY <1>1 DEF Waiting
<1>5. PICK m : m = MAKE_NODEPTR(_head) OBVIOUS
<1>6. /\ m \in Carriers(L, H) \ Own /\ value[m] \in Values
      /\ Append(popped, value[m]) \o Mapped(ValueOf, Tail(L)) = Line(L)
  BY <1>3, <1>4, <1>5, FirstWaits
<1>7. Line(L)' = Line(L)
  <2>1. Line(L)' = popped' \o Mapped(ValueOf, Tail(L)) BY <1>1 DEF Line, ValueOf
  <2> QED BY <1>1, <1>3, <1>5, <1>6, <2>1
<1>8. Carriers(L, H)' = Carriers(L, H) \ {m}
  <2>1. Linkers' = Linkers BY <1>1 DEF Linkers
  <2> DEFINE u == UNION {NodesIn(H[p]) : p \in Linkers}
  <2>2. m \notin u
    <3>1. m \in NodesIn(L) BY <1>3, <1>5, PathParts DEF NodesIn
    <3> QED BY <1>2, <3>1 DEF Apart, Linkers
  <2>3. Carriers(L, H) = NodesIn(L) \union u BY <1>1 DEF Carriers
  <2>4. Carriers(L, H)' = (NodesIn(L) \ {m}) \union u BY <1>1, <1>5, <2>1 DEF Carriers
  <2> HIDE DEF u
  <2> QED BY <2>2, <2>3, <2>4
<1>9. popped' \in Seq(Values) /\ ValuesApart(L, H)' /\ InOrder(L, H)'
  <2>1. UNCHANGED <<value, pc, newKey, count, returned, refused, earlier, detached>> BY <1>1
  <2>2. popped' = Append(popped, value[m]) BY <1>1, <1>3, <1>5
  <2> QED BY <1>6, <1>7, <1>8, <2>1, <2>2, Deliver
<1>10. TypeOK' BY <1>1, <1>9 DEF TypeOK
<1>11. Hangs(L, H)' BY <1>1, <1>2 DEF Hangs
<1>12. Locals' /\ Consumer' BY <1>1, <1>2 DEF Locals, Consumer
<1>13. Apart(L, H)' /\ Numbers(L, H)' BY <1>1, <1>2 DEF Apart, Numbers
<1>14. TailsRead(H)'
  <2>1. UNCHANGED <<key, pool, pushs, pc, newKey, tail>> BY <1>1
  <2>2. \A q \in Producers : Mine(q)' = Mine(q) BY <2>1 DEF Mine
  <2> QED BY <1>2, <2>1, <2>2 DEF TailsRead
<1>15. TailMoves(L)' BY <1>1, <1>2 DEF TailMoves
<1> QED
  BY <1>7, <1>9, <1>10, <1>11, <1>12, <1>13, <1>14, <1>15 DEF Inv

----------------------------------------------------------------------------
(* Every step keeps the invariant.                                          *)

\* How a step changes the keys of the list and the line of values.
Moves(L, H, M) ==
    \/ M = L /\ \A n \in NodesIn(L) : value'[n] = value[n]
    \/ M = Tail(L) /\ UNCHANGED value
    \/ \E p \in Producers : Links(p) /\ Joined(M, L, H[p]) /\ UNCHANGED value
Lines(L, H, M) ==
    \/ Line(M)' = Line(L)
    \/ \E p \in Producers : Links(p) /\ Line(M)' = Line(L) \o Mapped(ValueOf, H[p])
Follows(L, H) ==
    /\ TypeOK'
    /\ \E M \in Seq(Keys) : \E G \in [Producers -> Seq(Keys)] :
           Inv(M, G)' /\ Moves(L, H, M) /\ Lines(L, H, M)

LEMMA SameList ==
  ASSUME TypeOK, NEW L \in Seq(Keys), NEW H, Inv(L, H), TypeOK',
         NEW G \in [Producers -> Seq(Keys)], Inv(L, G)',
         \A n \in NodesIn(L) : value'[n] = value[n],
         popped' = popped, cpc = "value" <=> cpc' = "value"
  PROVE  Follows(L, H)
<1>1. Line(L)' = Line(L) BY LineSame
<1>2. Moves(L, H, L) /\ Lines(L, H, L) BY <1>1 DEF Moves, Lines
<1> QED BY <1>2 DEF Follows

LEMMA LinkStep ==
  ASSUME TypeOK, NEW L \in Seq(Keys), NEW H \in [Producers -> Seq(Keys)], Inv(L, H),
         NEW p \in Producers, Link(p)
  PROVE  Follows(L, H)
<1>1. UNCHANGED <<value, popped, cpc>> BY DEF Link
<1>2. CASE key[MAKE_NODEPTR(tail[p])] # NULL
  <2>1. TypeOK' /\ Inv(L, H)' BY <1>2, LinkAgainStep
  <2> QED BY <1>1, <2>1, SameList
<1>3. CASE key[MAKE_NODEPTR(tail[p])] = NULL /\ MAKE_NODEPTR(tail[p]) \in NodesIn(L)
  <2>1. Links(p) BY <1>3 DEF Links
  <2>2. PICK M : Joined(M, L, H[p]) BY DEF Joined
  <2>3. PICK G : IsWith(G, H, p, <<>>) BY DEF IsWith
  <2>4. /\ TypeOK' /\ M \in Seq(Keys) /\ G \in [Producers -> Seq(Keys)] /\ Inv(M, G)'
        /\ Line(M)' = Line(L) \o Mapped(ValueOf, H[p])
    BY <1>3, <2>1, <2>2, <2>3, LinkInList
  <2>5. Moves(L, H, M) /\ Lines(L, H, M) BY <1>1, <2>1, <2>2, <2>4 DEF Moves, Lines
  <2> QED BY <2>4, <2>5 DEF Follows
<1>4. CASE key[MAKE_NODEPTR(tail[p])] = NULL /\ MAKE_NODEPTR(tail[p]) \notin NodesIn(L)
  <2>1. Links(p) BY <1>4 DEF Links
  <2>2. PICK n : n = MAKE_NODEPTR(tail[p]) OBVIOUS
  <2>3. PICK q \in Producers : /\ q # p /\ pc[q] \in LinkLabels
                               /\ n = MAKE_NODEPTR(H[q][Len(H[q])])
                               /\ H[q][Len(H[q])][2] > newKey[p][2]
    BY <1>4, <2>1, <2>2, LinkFinds
  <2>4. PICK G : IsMoved(G, H, p, q) BY DEF IsMoved
  <2>5. TypeOK' /\ G \in [Producers -> Seq(Keys)] /\ Inv(L, G)'
    BY <1>4, <2>1, <2>2, <2>3, <2>4, LinkDetached
  <2> QED BY <1>1, <2>5, SameList
<1> QED BY <1>2, <1>3, <1>4

LEMMA ProducerStep ==
  ASSUME TypeOK, NEW L \in Seq(Keys), NEW H \in [Producers -> Seq(Keys)], Inv(L, H),
         NEW p \in Producers, QueueStep(p)
  PROVE  Follows(L, H)
<1>1. CASE PushRefused(p)
  <2>1. TypeOK' /\ Inv(L, H)' BY <1>1, PushRefusedStep
  <2>2. UNCHANGED <<value, popped, cpc>> BY <1>1 DEF PushRefused
  <2> QED BY <2>1, <2>2, SameList
<1>2. CASE Allocates(p)
  <2>1. PICK G : IsWith(G, H, p, <<newKey'[p]>>) BY DEF IsWith
  <2>2. TypeOK' /\ G \in [Producers -> Seq(Keys)] /\ Inv(L, G)'
    BY <1>2, <2>1, AllocatesStep
  <2>3. UNCHANGED <<value, popped, cpc>> BY <1>2 DEF Allocates
  <2> QED BY <2>2, <2>3, SameList
<1>3. CASE PushInit(p)
  <2>1. TypeOK' /\ Inv(L, H)' BY <1>3, PushInitStep
  <2>2. /\ UNCHANGED <<popped, cpc>> /\ pc[p] = "init"
        /\ value' = [value EXCEPT ![Mine(p)] = Pushing(p)]
    BY <1>3 DEF PushInit
  <2>3. Mine(p) \notin NodesIn(L) BY <2>2, MineIs
  <2>4. NodesIn(L) \subseteq Nodes BY NodesOfKeys
  <2>5. \A n \in NodesIn(L) : value'[n] = value[n] BY <2>2, <2>3, <2>4 DEF TypeOK
  <2> QED BY <2>1, <2>2, <2>5, SameList
<1>4. CASE ReadTail(p) \/ ReadKey(p) \/ Swing(p) \/ Help(p) \/ PushReturn(p)
  <2>1. TypeOK' /\ Inv(L, H)'
    BY <1>4, ReadTailStep, ReadKeyStep, SwingStep, PushReturnStep
  <2>2. UNCHANGED <<value, popped, cpc>>
    BY <1>4 DEF ReadTail, ReadKey, Swing, Help, PushReturn
  <2> QED BY <2>1, <2>2, SameList
<1>5. CASE Link(p) BY <1>5, LinkStep
<1> QED BY <1>1, <1>2, <1>3, <1>4, <1>5 DEF QueueStep

LEMMA PopStep ==
  ASSUME TypeOK, NEW L \in Seq(Keys), NEW H \in [Producers -> Seq(Keys)], Inv(L, H),
         Pop \/ JobTake
  PROVE  Follows(L, H)
<1>1. CASE PopBegin \/ PopUndo \/ PopTail \/ PopKey \/ PopHelp
  <2>1. TypeOK' /\ Inv(L, H)' BY <1>1, ConsumerStep
  <2>2. /\ UNCHANGED <<value, popped>> /\ cpc # "value" /\ cpc' # "value"
    BY <1>1 DEF PopBegin, PopUndo, PopTail, PopKey, PopHelp
  <2> QED BY <2>1, <2>2, SameList
<1>2. CASE PopTake \/ JobTake
  <2>1. PICK M : M = Tail(L) OBVIOUS
  <2>2. TypeOK' /\ M \in Seq(Keys) /\ Inv(M, H)' /\ Line(M)' = Line(L)
    BY <1>2, <2>1, PopTakeStep, JobTakeStep
  <2>3. UNCHANGED value BY <1>2 DEF PopTake, JobTake
  <2>4. Moves(L, H, M) /\ Lines(L, H, M) BY <2>1, <2>2, <2>3 DEF Moves, Lines
  <2> QED BY <2>2, <2>4 DEF Follows
<1>3. CASE PopReturn
  <2>1. TypeOK' /\ Inv(L, H)' /\ Line(L)' = Line(L) BY <1>3, PopReturnStep
  <2>2. UNCHANGED value BY <1>3 DEF PopReturn
  <2>3. Moves(L, H, L) /\ Lines(L, H, L) BY <2>1, <2>2 DEF Moves, Lines
  <2> QED BY <2>1, <2>3 DEF Follows
<1> QED BY <1>1, <1>2, <1>3 DEF Pop, PopLoop

LEMMA Stutter ==
  ASSUME TypeOK, NEW L, NEW H, Inv(L, H), UNCHANGED vars
  PROVE  TypeOK' /\ Inv(L, H)'
<1>1. Quiet BY DEF Quiet
<1>2. Hangs(L, H)' /\ Apart(L, H)' /\ Numbers(L, H)' /\ ValuesApart(L, H)' /\ InOrder(L, H)'
  BY <1>1, QuietStep
<1>3. Locals' /\ TailMoves(L)' /\ Consumer' BY DEF Inv, Locals, TailMoves, Consumer
<1>4. TailsRead(H)' BY DEF Inv, TailsRead, Mine
<1>5. TypeOK' BY DEF TypeOK
<1> QED BY <1>2, <1>3, <1>4, <1>5 DEF Inv

LEMMA QueueSteps ==
  ASSUME TypeOK, NEW L \in Seq(Keys), NEW H \in [Producers -> Seq(Keys)], Inv(L, H),
         QueueNext \/ UNCHANGED vars
  PROVE  Follows(L, H)
<1>1. CASE UNCHANGED vars
  <2>1. UNCHANGED <<value, popped, cpc>> BY <1>1
  <2>2. TypeOK' /\ Inv(L, H)' BY <1>1, Stutter
  <2> QED BY <2>1, <2>2, SameList
<1>2. CASE QueueNext BY <1>2, ProducerStep, PopStep DEF QueueNext
<1> QED BY <1>1, <1>2

LEMMA IInvStep == ASSUME IInv, QueueNext \/ UNCHANGED vars PROVE IInv'
<1>1. PICK L \in Seq(Keys) : \E H \in [Producers -> Seq(Keys)] : Inv(L, H) BY DEF IInv
<1>2. PICK H \in [Producers -> Seq(Keys)] : Inv(L, H) BY <1>1
<1>3. Follows(L, H) BY <1>2, QueueSteps DEF IInv
<1> QED BY <1>3 DEF Follows, IInv

\* The inductive invariant of the queue.
THEOREM QueueInvariant == Spec => []IInv
<1>1. IInv /\ [Next]_vars => IInv'
  <2> SUFFICES ASSUME IInv, [Next]_vars PROVE IInv' OBVIOUS
  <2>1. QueueNext \/ UNCHANGED vars BY NextIsQueueNext DEF IInv
  <2> QED BY <2>1, IInvStep
<1> QED BY InitIInv, <1>1, PTL DEF Spec

----------------------------------------------------------------------------
(* The properties of LockFreeQueue.                                         *)

LEMMA NodesOfSeq == ASSUME NEW K \in Seq(Keys) PROVE NodesOf(NodeSeq(K)) = NodesIn(K)
<1>1. Len(K) \in Nat BY SeqParts
<1>2. NodesOf(NodeSeq(K)) = {MAKE_NODEPTR(K[i]) : i \in 1 .. Len(K)} BY <1>1 DEF NodesOf, NodeSeq
<1> QED BY <1>2, NodesOfKeys

LEMMA InitHangs ==
  ASSUME NEW L, NEW H, Inv(L, H), NEW p \in Producers, pc[p] = "init"
  PROVE  NodesIn(H[p]) = {Mine(p)}
<1>1. /\ pc[p] = "init" => Range(H[p]) = {newKey[p]} /\ NodesIn(H[p]) = {Mine(p)}
      /\ Mine(p) \notin NodesIn(L)
  BY MineIs
<1> QED BY <1>1

LEMMA HangingIs ==
  ASSUME TypeOK, NEW L, NEW H, Inv(L, H), NEW p \in Producers
  PROVE  Hanging(p) = NodesIn(H[p])
<1>1. CASE pc[p] = "init"
  <2>1. NodesIn(H[p]) = {Mine(p)} BY <1>1, InitHangs
  <2> QED BY <1>1, <2>1 DEF Hanging
<1>2. CASE pc[p] \in LinkLabels
  <2>1. Path(key, newKey[p], H[p]) BY <1>2 DEF Inv, Hangs
  <2>2. ChainFrom(Mine(p)) = NodeSeq(H[p]) BY <2>1, ChainIs DEF Mine
  <2>3. H[p] \in Seq(Keys) BY <2>1 DEF Path
  <2>4. NodesOf(ChainFrom(Mine(p))) = NodesIn(H[p]) BY <2>2, <2>3, NodesOfSeq
  <2>5. Hanging(p) = NodesOf(ChainFrom(Mine(p))) BY <1>2 DEF Hanging, LinkLabels
  <2> QED BY <2>4, <2>5
<1>3. CASE pc[p] \in {"idle", "swing", "size"}
  <2>1. H[p] = <<>> BY <1>3 DEF Inv, Hangs
  <2>2. NodesIn(H[p]) = {} BY <2>1, EmptyRange DEF NodesIn
  <2>3. Hanging(p) = {} BY <1>3 DEF Hanging
  <2> QED BY <2>2, <2>3
<1> QED BY <1>1, <1>2, <1>3 DEF TypeOK, LinkLabels

\* Every node is free, in the list, or on its way into it with one push.
LEMMA IInvOnePlace == ASSUME IInv PROVE EveryNodeInOnePlace
<1>1. PICK L \in Seq(Keys) : \E H \in [Producers -> Seq(Keys)] : Inv(L, H) BY DEF IInv
<1>2. PICK H \in [Producers -> Seq(Keys)] : Inv(L, H) BY <1>1
<1>3. TypeOK BY DEF IInv
<1>4. Linked = NodesIn(L) BY <1>2, LinkedIs
<1>5. \A p \in Producers : Hanging(p) = NodesIn(H[p]) BY <1>2, <1>3, HangingIs
<1>6. NodesOf(pool) = Range(pool) BY DEF NodesOf, Range
<1>7. Apart(L, H) BY <1>2 DEF Inv
<1>8. \A i, j \in DOMAIN pool : pool[i] = pool[j] => i = j BY <1>7 DEF Apart, IsInjective
<1>9. ASSUME NEW p \in Producers
      PROVE  /\ Hanging(p) \intersect (NodesOf(pool) \union Linked) = {}
             /\ \A q \in Producers \ {p} : Hanging(p) \intersect Hanging(q) = {}
  BY <1>4, <1>5, <1>6, <1>7 DEF Apart
<1>10. Nodes = NodesOf(pool) \union Linked \union UNION {Hanging(p) : p \in Producers}
  <2>1. Range(pool) \subseteq Nodes BY <1>3, SeqParts DEF TypeOK
  <2>2. NodesIn(L) \subseteq Nodes /\ \A p \in Producers : NodesIn(H[p]) \subseteq Nodes
    BY NodesOfKeys
  <2>3. \A n \in Nodes : n \in Range(pool) \/ n \in NodesIn(L)
                            \/ \E p \in Producers : n \in NodesIn(H[p])
    BY <1>7 DEF Apart
  <2> QED BY <1>4, <1>5, <1>6, <2>1, <2>2, <2>3
<1> QED BY <1>3, <1>4, <1>6, <1>7, <1>8, <1>9, <1>10 DEF EveryNodeInOnePlace, Apart

\* The node _tail names is in the list.
LEMMA IInvTailInList == ASSUME IInv PROVE TailInList
<1>1. PICK L \in Seq(Keys) : \E H \in [Producers -> Seq(Keys)] : Inv(L, H) BY DEF IInv
<1>2. PICK H \in [Producers -> Seq(Keys)] : Inv(L, H) BY <1>1
<1>3. Linked = NodesIn(L) BY <1>2, LinkedIs
<1>4. _tail \in Range(L) BY <1>2 DEF Inv, TailMoves
<1> QED BY <1>3, <1>4 DEF TailInList, NodesIn

LEMMA ItemsAre ==
  ASSUME TypeOK, NEW L, NEW H, Inv(L, H)
  PROVE  /\ Items = Mapped(ValueOf, Tail(L)) /\ Tail(L) \in Seq(Keys)
         /\ Len(Items) = Len(Tail(L))
<1>1. Path(key, _head, L) BY DEF Inv, Hangs
<1>2. /\ L \in Seq(Keys) /\ L # <<>> /\ Len(L) \in Nat
      /\ \A i \in 1 .. Len(L) : L[i] \in Keys
  BY <1>1, PathParts DEF Path
<1>3. /\ Tail(L) \in Seq(Keys) /\ Len(Tail(L)) = Len(L) - 1
      /\ \A i \in 1 .. Len(Tail(L)) : Tail(L)[i] = L[i + 1]
  BY <1>2, HeadAndTail
<1>4. Len(Tail(L)) \in Nat /\ DOMAIN Tail(L) = 1 .. Len(L) - 1 BY <1>3, SeqParts
<1>5. Chain = NodeSeq(L) BY LinkedIs
<1>6. Len(Chain) = Len(L) /\ \A i \in 1 .. Len(L) : Chain[i] = MAKE_NODEPTR(L[i])
  BY <1>2, <1>5 DEF NodeSeq
<1>7. ASSUME NEW i \in 1 .. Len(L) - 1
      PROVE  value[Chain[i + 1]] = ValueOf[Tail(L)[i]]
  <2>1. i + 1 \in 1 .. Len(L) BY <1>2
  <2>2. Tail(L)[i] = L[i + 1] /\ L[i + 1] \in Keys BY <1>2, <1>3, <2>1
  <2> QED BY <1>6, <2>1, <2>2 DEF ValueOf
<1>8. Items = [i \in 1 .. Len(L) - 1 |-> value[Chain[i + 1]]] BY <1>6 DEF Items
<1>9. Mapped(ValueOf, Tail(L)) = [i \in 1 .. Len(L) - 1 |-> ValueOf[Tail(L)[i]]]
  BY <1>4 DEF Mapped
<1>10. Items = Mapped(ValueOf, Tail(L)) BY <1>7, <1>8, <1>9
<1>11. Len(L) - 1 \in Nat BY <1>3, <1>4
<1>12. Len(Items) = Len(L) - 1 BY <1>8, <1>11
<1> QED BY <1>3, <1>10, <1>12

\* The values popped, the one being popped, and those in the list.
LEMMA QueuedIsLine ==
  ASSUME TypeOK, NEW L, NEW H, Inv(L, H)
  PROVE  popped \o (IF cpc = "value" THEN <<value[MAKE_NODEPTR(ckey)]>> ELSE <<>>) \o Items
             = Line(L)
<1>1. Items = Mapped(ValueOf, Tail(L)) /\ Tail(L) \in Seq(Keys) BY ItemsAre
<1>2. popped \in Seq(Values) BY DEF TypeOK
<1>3. CASE cpc = "value"
  <2>1. Path(key, _head, L) /\ ckey = _head BY <1>3 DEF Inv, Hangs, Consumer
  <2>2. PICK m : m = value[MAKE_NODEPTR(_head)] OBVIOUS
  <2>3. L = Waiting(L) BY <1>3 DEF Waiting
  <2>4. m \in Values /\ Append(popped, m) \o Mapped(ValueOf, Tail(L)) = Line(L)
    BY <2>1, <2>2, <2>3, FirstWaits
  <2>5. Append(popped, m) = popped \o <<m>> BY <1>2, <2>4, AppendIsConcat
  <2> QED BY <1>1, <1>3, <2>1, <2>2, <2>4, <2>5
<1>4. CASE cpc # "value"
  <2>1. Line(L) = popped \o Items BY <1>1, <1>4 DEF Line
  <2>2. popped \o <<>> = popped BY <1>2, ConcatEmptySeq
  <2> QED BY <1>4, <2>1, <2>2
<1> QED BY <1>3, <1>4

\* A value whose push returned is popped, in the list or hangs; none is there twice.
LEMMA IInvNothingLost == ASSUME IInv PROVE NothingLostOrDoubled
<1>1. PICK L \in Seq(Keys) : \E H \in [Producers -> Seq(Keys)] : Inv(L, H) BY DEF IInv
<1>2. PICK H \in [Producers -> Seq(Keys)] : Inv(L, H) BY <1>1
<1>3. TypeOK BY DEF IInv
<1> DEFINE taken   == IF cpc = "value" THEN <<value[MAKE_NODEPTR(ckey)]>> ELSE <<>>
           queued  == popped \o taken \o Items
           busy    == {p \in Producers : pc[p] # "idle"}
           hanging == UNION {{value[n] : n \in Hanging(p) \ {Mine(p)}} : p \in busy}
           W       == WaitingNodes(L)
<1>4. queued = Line(L) BY <1>2, <1>3, QueuedIsLine
<1>5. /\ Line(L) \in Seq(Values) /\ IsInjective(Line(L))
      /\ Range(Line(L)) = Range(popped) \union {value[n] : n \in W}
      /\ W \subseteq Carriers(L, H) \ Own
  BY <1>2, <1>3, LineIs
<1>6. /\ \A p \in Producers : Hanging(p) = NodesIn(H[p])
      /\ ValuesApart(L, H)
  BY <1>2, <1>3, HangingIs DEF Inv
\* The values that hang are those of carriers that are not waiting.
<1>7. ASSUME NEW y
      PROVE  y \in hanging <=> \E p \in Linkers : \E n \in NodesIn(H[p]) \ {Mine(p)} : y = value[n]
  <2>1. ASSUME NEW p \in busy, NEW n \in Hanging(p) \ {Mine(p)} PROVE p \in Linkers
    <3>1. CASE pc[p] = "init"
      <4>1. NodesIn(H[p]) = {Mine(p)} BY <1>2, <3>1, InitHangs
      <4> QED BY <1>6, <4>1
    <3>2. CASE pc[p] \in {"swing", "size"}
      <4>1. H[p] = <<>> BY <1>2, <3>2 DEF Inv, Hangs
      <4> QED BY <1>6, <4>1, EmptyRange DEF NodesIn
    <3> QED BY <1>3, <3>1, <3>2 DEF TypeOK, Linkers, LinkLabels
  <2>2. Linkers \subseteq busy BY DEF Linkers, LinkLabels
  <2>3. \A p \in Linkers : Hanging(p) = NodesIn(H[p]) BY <1>6 DEF Linkers
  <2>4. y \in hanging <=> \E p \in busy : \E n \in Hanging(p) \ {Mine(p)} : y = value[n]
    OBVIOUS
  <2> HIDE DEF hanging, busy
  <2> QED BY <2>1, <2>2, <2>3, <2>4
<1>8. ASSUME NEW p \in Linkers, NEW n \in NodesIn(H[p]) \ {Mine(p)}
      PROVE  n \in Carriers(L, H) /\ n \notin W /\ n \notin Own
  <2>1. n \in Carriers(L, H) BY DEF Carriers
  <2>2. n \notin NodesIn(L) BY <1>2 DEF Inv, Apart, Linkers
  <2>3. \A q \in Linkers : n # Mine(q)
    <3>1. SUFFICES ASSUME NEW q \in Linkers, q # p PROVE n # Mine(q) OBVIOUS
    <3> QED BY <1>2, <3>1, MineIs DEF Linkers
  <2> QED BY <2>1, <2>2, <2>3 DEF WaitingNodes, Own
<1>9. NodesOf(Line(L)) = Range(Line(L)) BY DEF NodesOf, Range
<1>10. \A i, j \in DOMAIN queued : queued[i] = queued[j] => i = j
  BY <1>4, <1>5 DEF IsInjective
<1> HIDE DEF hanging, queued, W
<1>11. NodesOf(queued) \intersect (hanging \union refused) = {}
  <2>1. ASSUME NEW y \in Range(Line(L)) PROVE y \notin refused
    <3>1. CASE y \in Range(popped) BY <1>6, <3>1 DEF ValuesApart
    <3>2. CASE \E n \in W : y = value[n] BY <1>5, <1>6, <3>2 DEF ValuesApart
    <3> QED BY <1>5, <3>1, <3>2
  <2>2. ASSUME NEW y \in Range(Line(L)), y \in hanging PROVE FALSE
    <3>1. PICK p \in Linkers : \E n \in NodesIn(H[p]) \ {Mine(p)} : y = value[n] BY <1>7, <2>2
    <3>2. PICK n \in NodesIn(H[p]) \ {Mine(p)} : y = value[n] BY <3>1
    <3>3. n \in Carriers(L, H) /\ n \notin W BY <1>8
    <3>4. CASE y \in Range(popped) BY <1>6, <3>2, <3>3, <3>4 DEF ValuesApart
    <3>5. CASE \E m \in W : y = value[m]
      <4>1. PICK m \in W : y = value[m] BY <3>5
      <4>2. m \in Carriers(L, H) BY <1>5
      <4>3. m = n BY <1>6, <3>2, <3>3, <4>1, <4>2 DEF ValuesApart
      <4> QED BY <3>3, <4>3
    <3> QED BY <1>5, <3>4, <3>5
  <2> QED BY <1>4, <1>9, <2>1, <2>2
<1>12. returned \subseteq NodesOf(queued) \union hanging
  <2>1. returned \subseteq Range(popped) \union {value[n] : n \in Carriers(L, H) \ Own}
    BY <1>6 DEF ValuesApart, Safe
  <2>2. ASSUME NEW n \in Carriers(L, H) \ Own
        PROVE  value[n] \in Range(Line(L)) \union hanging
    <3>1. n \in W \/ \E p \in Linkers : n \in NodesIn(H[p])
      BY DEF Carriers, W, WaitingNodes
    <3>2. \A p \in Linkers : n # Mine(p) BY DEF Own
    <3> QED BY <1>5, <1>7, <3>1, <3>2
  <2> QED BY <1>4, <1>5, <1>9, <2>1, <2>2
<1> QED BY <1>10, <1>11, <1>12 DEF NothingLostOrDoubled, hanging, queued

\* What is in front of a value of the line is in front of it when it is popped.
LEMMA IInvOvertaken == ASSUME IInv PROVE OvertakenOnlyIfDetached
<1>1. PICK L \in Seq(Keys) : \E H \in [Producers -> Seq(Keys)] : Inv(L, H) BY DEF IInv
<1>2. PICK H \in [Producers -> Seq(Keys)] : Inv(L, H) BY <1>1
<1>3. TypeOK BY DEF IInv
<1>4. SUFFICES ASSUME ~detached, NEW i \in DOMAIN popped
               PROVE  earlier[popped[i]] \subseteq {popped[j] : j \in 1 .. i - 1}
  BY DEF OvertakenOnlyIfDetached
<1>5. Sorted(Line(L), earlier) BY <1>2, <1>4 DEF Inv, InOrder
<1> DEFINE m == Mapped(ValueOf, Waiting(L))
<1>6. Line(L) = popped \o m /\ m \in Seq(Values) BY <1>2, <1>3, LineIs
<1>7. popped \in Seq(Values) /\ DOMAIN popped = 1 .. Len(popped) /\ Len(popped) \in Nat
  BY <1>3, SeqParts DEF TypeOK
<1> HIDE DEF m
<1>8. /\ \A j \in DOMAIN popped : Line(L)[j] = popped[j]
      /\ DOMAIN popped \subseteq DOMAIN Line(L)
  BY <1>6, <1>7, ConcatProperties, JoinedSeq
<1>9. earlier[popped[i]] \subseteq {Line(L)[j] : j \in 1 .. i - 1} BY <1>5, <1>8 DEF Sorted
<1>10. \A j \in 1 .. i - 1 : j \in DOMAIN popped BY <1>7
<1>11. {Line(L)[j] : j \in 1 .. i - 1} = {popped[j] : j \in 1 .. i - 1} BY <1>8, <1>10
<1> QED BY <1>9, <1>11

\* Pushes and pops never put a node in two places and never lose one.
THEOREM NodesKept == Spec => []EveryNodeInOnePlace
BY QueueInvariant, IInvOnePlace, PTL

\* _tail never leaves the list.
THEOREM TailKept == Spec => []TailInList
BY QueueInvariant, IInvTailInList, PTL

\* No value is lost, delivered twice, or delivered though its push was refused.
THEOREM ValuesKept == Spec => []NothingLostOrDoubled
BY QueueInvariant, IInvNothingLost, PTL

\* The order of pushes that came after one another is kept unless one was detached.
THEOREM OrderKept == Spec => []OvertakenOnlyIfDetached
BY QueueInvariant, IInvOvertaken, PTL

----------------------------------------------------------------------------
(* The list is a FIFO queue of values.                                      *)

LEMMA MappedTail ==
  ASSUME NEW D, NEW f, NEW q \in Seq(D), q # <<>>
  PROVE  Mapped(f, q) # <<>> /\ Tail(Mapped(f, q)) = Mapped(f, Tail(q))
<1> DEFINE R == {f[x] : x \in D}
<1>0. \A x \in D : f[x] \in R OBVIOUS
<1> HIDE DEF R
<1>1. PICK t : t = Tail(q) OBVIOUS
<1>2. /\ t \in Seq(D) /\ Len(t) = Len(q) - 1 /\ Len(q) > 0
      /\ \A i \in 1 .. Len(t) : t[i] = q[i + 1]
  BY <1>1, HeadAndTail
<1>3. Len(q) \in Nat /\ Len(t) \in Nat /\ DOMAIN q = 1 .. Len(q) /\ DOMAIN t = 1 .. Len(t)
  BY <1>2, SeqParts
<1> DEFINE m == Mapped(f, q)
           w == Mapped(f, t)
<1>4. /\ m \in Seq(R) /\ Len(m) = Len(q) /\ \A i \in 1 .. Len(q) : m[i] = f[q[i]]
  BY <1>0, <1>3, MappedType DEF Mapped
<1>5. /\ w \in Seq(R) /\ Len(w) = Len(t) /\ \A i \in 1 .. Len(t) : w[i] = f[t[i]]
  BY <1>0, <1>2, <1>3, MappedType DEF Mapped
<1> HIDE DEF m, w
<1>6. m # <<>> BY <1>2, <1>4, SeqParts
<1>7. /\ Tail(m) \in Seq(R) /\ Len(Tail(m)) = Len(m) - 1
      /\ \A i \in 1 .. Len(Tail(m)) : Tail(m)[i] = m[i + 1]
  BY <1>4, <1>6, HeadAndTail
<1>8. Len(Tail(m)) = Len(t) BY <1>2, <1>4, <1>7
<1>9. ASSUME NEW i \in 1 .. Len(t) PROVE Tail(m)[i] = w[i]
  <2>1. i + 1 \in 1 .. Len(q) BY <1>2, <1>3
  <2>2. Tail(m)[i] = m[i + 1] BY <1>7, <1>8
  <2> QED BY <1>2, <1>4, <1>5, <2>1, <2>2
<1>10. Tail(m) = w BY <1>5, <1>7, <1>8, <1>9, SeqEqual
<1> QED BY <1>1, <1>6, <1>10 DEF m, w

\* The values of the list are those of the keys behind the dummy's.
ItemsOf == \A L \in Seq(Keys) : \A H \in [Producers -> Seq(Keys)] :
               TypeOK /\ Inv(L, H) => Items = Mapped(ValueOf, Tail(L))

LEMMA ItemsOfAlways == ItemsOf
BY ItemsAre DEF ItemsOf

\* Of two queues one behind the other, the first stays where it is.
LEMMA LongerQueue ==
  ASSUME NEW S, NEW a \in Seq(S), NEW b \in Seq(S), b # <<>>, NEW q, Joined(q, a, b)
  PROVE  Len(q) > Len(a) /\ SubSeq(q, 1, Len(a)) = a
<1>1. Len(a) \in Nat /\ Len(b) > 0 /\ Len(b) \in Nat BY SeqParts
<1>2. q \in Seq(S) /\ Len(q) = Len(a) + Len(b) BY ConcatProperties DEF Joined
<1>3. IsPrefix(a, a \o b) BY JoinedPrefix
<1>4. IsPrefix(a, q) BY <1>3 DEF Joined
<1>5. SubSeq(a, 1, Len(a)) = SubSeq(q, 1, Len(a)) BY <1>4 DEF IsPrefix
<1> QED BY <1>1, <1>2, <1>5, SubSeqFull

LEMMA FifoStep ==
  ASSUME IInv, ItemsOf, ItemsOf', QueueNext \/ UNCHANGED vars
  PROVE  [Fifo!Enqueue \/ Fifo!Dequeue]_Items
<1>1. PICK L \in Seq(Keys) : \E H \in [Producers -> Seq(Keys)] : Inv(L, H) BY DEF IInv
<1>2. PICK H \in [Producers -> Seq(Keys)] : Inv(L, H) BY <1>1
<1>3. TypeOK BY DEF IInv
<1>4. Follows(L, H) BY <1>2, <1>3, QueueSteps
<1>5. PICK M \in Seq(Keys) : \E G \in [Producers -> Seq(Keys)] : Inv(M, G)' /\ Moves(L, H, M)
  BY <1>4 DEF Follows
<1>6. PICK G \in [Producers -> Seq(Keys)] : Inv(M, G)' BY <1>5
<1>7. Items = Mapped(ValueOf, Tail(L)) BY <1>2, <1>3 DEF ItemsOf
<1>8. Items' = Mapped(ValueOf', Tail(M)) BY <1>4, <1>6 DEF ItemsOf, Follows
<1>9. \A c \in Keys : ValueOf[c] \in Values \union {NULL}
  BY <1>3, KeyParts DEF ValueOf, TypeOK
<1>10. L # <<>> /\ Path(key, _head, L) BY <1>2 DEF Inv, Hangs, Path
<1>11. Tail(L) \in Seq(Keys) /\ L = <<_head>> \o Tail(L) /\ Range(Tail(L)) \subseteq Range(L)
  <2>1. ASSUME NEW K, NEW r, Path(key, r, K)
        PROVE  /\ Tail(K) \in Seq(Keys) /\ K = <<r>> \o Tail(K)
               /\ Range(Tail(K)) = Range(K) \ {r}
    BY <2>1, TailOfPath, Zenon
  <2>2. /\ Tail(L) \in Seq(Keys) /\ L = <<_head>> \o Tail(L)
        /\ Range(Tail(L)) = Range(L) \ {_head}
    BY <1>10, <2>1, Zenon
  <2> QED BY <2>2
<1>12. CASE M = L /\ \A n \in NodesIn(L) : value'[n] = value[n]
  <2>1. \A c \in Range(Tail(L)) : ValueOf'[c] = ValueOf[c]
    <3> TAKE c \in Range(Tail(L))
    <3>1. c \in Keys BY <1>11, SeqParts
    <3>2. MAKE_NODEPTR(c) \in NodesIn(L) BY <1>11 DEF NodesIn
    <3> QED BY <1>12, <3>1, <3>2 DEF ValueOf
  <2>2. Mapped(ValueOf', Tail(L)) = Mapped(ValueOf, Tail(L)) BY <2>1, MappedSame
  <2> QED BY <1>7, <1>8, <1>12, <2>2
<1>13. CASE M = Tail(L) /\ UNCHANGED value
  <2>1. M # <<>> BY <1>6 DEF Inv, Hangs, Path
  <2>2. Items = Mapped(ValueOf, M) BY <1>7, <1>13
  <2>3. Items' = Mapped(ValueOf, Tail(M)) BY <1>8, <1>13 DEF ValueOf
  <2>4. Items # <<>> /\ Tail(Items) = Mapped(ValueOf, Tail(M))
    <3>1. Mapped(ValueOf, M) # <<>> /\ Tail(Mapped(ValueOf, M)) = Mapped(ValueOf, Tail(M))
      BY <2>1, MappedTail
    <3> QED BY <2>2, <3>1
  <2>5. Fifo!Dequeue BY <2>3, <2>4 DEF Fifo!Dequeue
  <2> QED BY <2>5
<1>14. ASSUME NEW p \in Producers, Links(p), Joined(M, L, H[p]), UNCHANGED value
       PROVE  Fifo!Enqueue
  <2>1. H[p] \in Seq(Keys) /\ H[p] # <<>>
    <3>1. pc[p] \in LinkLabels \union {"init"} BY <1>14 DEF Links, Link, LinkLabels
    <3> QED BY <1>2, <3>1, MineIs
  <2>2. PICK W : W = Tail(L) OBVIOUS
  <2>3. W \in Seq(Keys) /\ _head \in Keys /\ L = <<_head>> \o W
    BY <1>3, <1>11, <2>2 DEF TypeOK
  <2>4. Tail(M) = W \o H[p]
    <3>1. <<_head>> \in Seq(Keys) BY <2>3
    <3>2. (<<_head>> \o W) \o H[p] = <<_head>> \o (W \o H[p]) BY <2>1, <2>3, <3>1, Associates
    <3>3. Joined(M, <<_head>>, W \o H[p]) BY <1>14, <2>3, <3>2 DEF Joined
    <3>4. W \o H[p] \in Seq(Keys) BY <2>1, <2>3, ConcatProperties
    <3> QED BY <2>3, <3>3, <3>4, FirstBefore
  <2>5. Mapped(ValueOf, W \o H[p]) = Mapped(ValueOf, W) \o Mapped(ValueOf, H[p])
    BY <2>1, <2>3, MappedJoin
  <2>6. ValueOf' = ValueOf BY <1>14 DEF ValueOf
  <2> DEFINE a == Mapped(ValueOf, W)
             b == Mapped(ValueOf, H[p])
  <2>7. a \in Seq(Values \union {NULL}) /\ b \in Seq(Values \union {NULL})
    BY <1>9, <2>1, <2>3, MappedType
  <2>8. b # <<>> /\ Tail(b) = Mapped(ValueOf, Tail(H[p])) BY <2>1, MappedTail
  <2>9. Items = a BY <1>7, <2>2
  <2>10. Joined(Items', a, b) BY <1>8, <2>4, <2>5, <2>6 DEF Joined
  <2> HIDE DEF a, b
  <2>11. Len(Items') > Len(a) /\ SubSeq(Items', 1, Len(a)) = a
    BY <2>7, <2>8, <2>10, LongerQueue
  <2> QED BY <2>9, <2>11 DEF Fifo!Enqueue
<1> QED BY <1>5, <1>12, <1>13, <1>14 DEF Moves

LEMMA FifoInit == ASSUME Init, IInv, ItemsOf PROVE Fifo!Init
<1>1. PICK L \in Seq(Keys) : \E H \in [Producers -> Seq(Keys)] : Inv(L, H) BY DEF IInv
<1>2. PICK H \in [Producers -> Seq(Keys)] : Inv(L, H) BY <1>1
<1>3. TypeOK BY DEF IInv
<1>4. Items = Mapped(ValueOf, Tail(L)) BY <1>2, <1>3 DEF ItemsOf
<1>5. Path(key, _head, L) BY <1>2 DEF Inv, Hangs
<1>6. /\ L \in Seq(Keys) /\ Len(L) \in Nat /\ Len(L) > 0 /\ L[1] \in Keys /\ 1 \in 1 .. Len(L)
      /\ \A i \in 1 .. Len(L) : key[MAKE_NODEPTR(L[i])] = NULL <=> i = Len(L)
  <2>1. /\ L \in Seq(Keys) /\ Len(L) \in Nat /\ Len(L) > 0
        /\ \A i \in 1 .. Len(L) : L[i] \in Keys
        /\ \A i \in 1 .. Len(L) : key[MAKE_NODEPTR(L[i])] = NULL <=> i = Len(L)
    BY <1>5, PathParts
  <2> QED BY <2>1
<1>7. key[MAKE_NODEPTR(L[1])] = NULL BY <1>6, KeyParts DEF Init
<1>8. Len(L) = 1 BY <1>6, <1>7
<1>9. L # <<>> BY <1>5 DEF Path
<1>10. Tail(L) \in Seq(Keys) /\ Len(Tail(L)) = 0 BY <1>6, <1>8, <1>9, HeadAndTail
<1>11. Tail(L) = <<>> BY <1>10, SeqParts
<1>12. Mapped(ValueOf, <<>>) = <<>> BY DEF Mapped
<1> QED BY <1>4, <1>11, <1>12 DEF Fifo!Init

\* Whatever pushes and pops do, the list grows only at its end and loses values
\* only at its front.
THEOREM QueueIsFifo == Spec => IsFifo
<1>1. Init => IInv BY InitIInv
<1>2. Init /\ IInv /\ ItemsOf => Fifo!Init BY FifoInit
<1>3. IInv /\ ItemsOf /\ ItemsOf' /\ [Next]_vars => [Fifo!Enqueue \/ Fifo!Dequeue]_Items
  <2> SUFFICES ASSUME IInv, ItemsOf, ItemsOf', [Next]_vars
               PROVE  [Fifo!Enqueue \/ Fifo!Dequeue]_Items
    OBVIOUS
  <2>1. QueueNext \/ UNCHANGED vars BY NextIsQueueNext DEF IInv
  <2> QED BY <2>1, FifoStep
<1>4. ItemsOf BY ItemsOfAlways
<1> QED BY <1>1, <1>2, <1>3, <1>4, QueueInvariant, PTL DEF Spec, IsFifo, Fifo!Spec

----------------------------------------------------------------------------
(* The jobs of a session.                                                   *)

JobOf(p) == job[Pushing(p)]
Fresh(s) == [id |-> "newUserData", targetID |-> s]

\* The phase of a session while the callback that pushes a job is in there.
PhaseIn(id) == IF id = "newUserData" THEN "opening"
               ELSE IF id = "recv" THEN "receiving" ELSE "closing"

\* The jobs that are being pushed are those of the callbacks, one for each session.
InCallback ==
    \A p \in Producers : pc[p] # "idle" =>
        /\ phase[JobOf(p).targetID] = PhaseIn(JobOf(p).id)
        /\ \A q \in Producers : q # p /\ pc[q] # "idle" => JobOf(q).targetID # JobOf(p).targetID

\* Which jobs a session can have had, by the phase it is in.
JobsOfPhase ==
    \A v \in Values : Begun(v) =>
        /\ job[v] \in Jobs
        /\ phase[job[v].targetID] # "none"
        /\ phase[job[v].targetID] = "opening" => job[v].id = "newUserData"
        /\ job[v].id = "deleteUserData" => phase[job[v].targetID] \in {"closing", "closed"}

\* A session has one newUserData and one deleteUserData.
OneOfAKind ==
    \A v, w \in Values :
        /\ Begun(v) /\ Begun(w) /\ job[v].id # "recv"
        /\ job[v].id = job[w].id /\ job[v].targetID = job[w].targetID
        => v = w

\* The push of newUserData has returned once OnNewConnect has.
UserMade ==
    \A s \in Sessions : phase[s] \in {"open", "receiving", "closing", "closed"} =>
        \E u \in returned : job[u] = Fresh(s)

Callbacks == InCallback /\ JobsOfPhase /\ OneOfAKind /\ UserMade

\* The jobs f of the values q are in the order of the callbacks.
JobsOf(q, f) ==
    /\ \A i, j \in DOMAIN q : i < j /\ f[q[i]].targetID = f[q[j]].targetID =>
           f[q[j]].id # "newUserData" /\ f[q[i]].id # "deleteUserData"
    /\ \A j \in DOMAIN q : f[q[j]].id # "newUserData" =>
           \E k \in 1 .. j - 1 : f[q[k]] = Fresh(f[q[j]].targetID)

JobIInv ==
    /\ JobTypeOK /\ Callbacks /\ refused = {} /\ cpc # "value"
    /\ \E L \in Seq(Keys) : \E H \in [Producers -> Seq(Keys)] :
           Inv(L, H) /\ (detached \/ JobsOf(Line(L), job))

\* Only the jobs of the values of a line count.
LEMMA JobsSame ==
  ASSUME NEW q \in Seq(Values), NEW f, NEW g, JobsOf(q, f), \A v \in Range(q) : g[v] = f[v]
  PROVE  JobsOf(q, g)
<1>1. DOMAIN q = 1 .. Len(q) /\ Len(q) \in Nat BY SeqParts
<1>2. \A i \in DOMAIN q : g[q[i]] = f[q[i]] BY DEF Range
<1>3. \A j \in DOMAIN q : \A k \in 1 .. j - 1 : k \in DOMAIN q BY <1>1
<1> QED BY <1>2, <1>3 DEF JobsOf

\* A job behind those of its session.
LEMMA JobsLonger ==
  ASSUME NEW q \in Seq(Values), NEW f, NEW v \in Values, JobsOf(q, f),
         \A w \in Range(q) : f[w].targetID = f[v].targetID =>
             f[v].id # "newUserData" /\ f[w].id # "deleteUserData",
         f[v].id # "newUserData" => \E w \in Range(q) : f[w] = Fresh(f[v].targetID)
  PROVE  JobsOf(Append(q, v), f)
<1> DEFINE r == Append(q, v)
           n == Len(q)
<1>1. n \in Nat /\ DOMAIN q = 1 .. n /\ Range(q) = {q[i] : i \in 1 .. n} BY SeqParts
<1>2. DOMAIN r = 1 .. n + 1 /\ (\A i \in 1 .. n : r[i] = q[i]) /\ r[n + 1] = v
  BY AppendProperties, SeqParts
<1> HIDE DEF r, n
<1>3. \A j \in 1 .. n + 1 : j \in 1 .. n \/ j = n + 1 BY <1>1
<1>4. ASSUME NEW i \in 1 .. n + 1, NEW j \in 1 .. n + 1, i < j,
             f[r[i]].targetID = f[r[j]].targetID
      PROVE  f[r[j]].id # "newUserData" /\ f[r[i]].id # "deleteUserData"
  <2>1. i \in 1 .. n BY <1>1, <1>4
  <2>2. r[i] = q[i] /\ q[i] \in Range(q) BY <1>1, <1>2, <2>1
  <2>3. CASE j \in 1 .. n
    <3>1. r[j] = q[j] BY <1>2, <2>3
    <3> QED BY <1>1, <1>4, <2>1, <2>2, <2>3, <3>1 DEF JobsOf
  <2>4. CASE j = n + 1 BY <1>2, <1>4, <2>2, <2>4
  <2> QED BY <1>3, <2>3, <2>4
<1>5. ASSUME NEW j \in 1 .. n + 1, f[r[j]].id # "newUserData"
      PROVE  \E k \in 1 .. j - 1 : f[r[k]] = Fresh(f[r[j]].targetID)
  <2>1. CASE j \in 1 .. n
    <3>1. r[j] = q[j] BY <1>2, <2>1
    <3>2. PICK k \in 1 .. j - 1 : f[q[k]] = Fresh(f[q[j]].targetID)
      BY <1>1, <1>5, <2>1, <3>1 DEF JobsOf
    <3>3. k \in 1 .. n BY <1>1, <2>1
    <3> QED BY <1>2, <3>1, <3>2, <3>3
  <2>2. CASE j = n + 1
    <3>1. PICK w \in Range(q) : f[w] = Fresh(f[v].targetID) BY <1>2, <1>5, <2>2
    <3>2. PICK k \in 1 .. n : w = q[k] BY <1>1
    <3>3. k \in 1 .. j - 1 BY <1>1, <2>2
    <3> QED BY <1>2, <2>2, <3>1, <3>2, <3>3
  <2> QED BY <1>3, <2>1, <2>2
<1>6. JobsOf(r, f) BY <1>2, <1>4, <1>5 DEF JobsOf
<1> QED BY <1>6 DEF r

\* Those that come first are in order, too.
LEMMA JobsShorter ==
  ASSUME NEW a \in Seq(Values), NEW b \in Seq(Values), NEW f, JobsOf(a \o b, f)
  PROVE  JobsOf(a, f)
<1>1. PICK q : q = a \o b OBVIOUS
<1>2. DOMAIN a = 1 .. Len(a) /\ Len(a) \in Nat BY SeqParts
<1>3. /\ \A j \in DOMAIN a : q[j] = a[j]
      /\ DOMAIN a \subseteq DOMAIN q
  BY <1>1, <1>2, ConcatProperties, JoinedSeq
<1>4. JobsOf(q, f) BY <1>1
<1>5. \A j \in DOMAIN a : \A k \in 1 .. j - 1 : k \in DOMAIN a BY <1>2
<1> QED BY <1>3, <1>4, <1>5 DEF JobsOf

\* A producer in a callback pushes a job.
LEMMA PushesJob ==
  ASSUME TypeOK, NEW L, NEW H, Inv(L, H), JobsOfPhase, NEW p \in Producers, pc[p] # "idle"
  PROVE  /\ Pushing(p) \in Values /\ Begun(Pushing(p)) /\ JobOf(p) \in Jobs
         /\ JobOf(p).targetID \in Sessions /\ JobOf(p).id \in JobIDs
<1>1. count[p] >= 1 /\ count[p] \in 0 .. MaxPushes BY DEF Inv, Locals, TypeOK
<1>2. MaxPushes \in Nat BY QueueAssumption
<1>3. Pushing(p) \in Values /\ Begun(Pushing(p)) BY <1>1, <1>2 DEF Pushing, Values, Begun
<1>4. JobOf(p) \in Jobs BY <1>3 DEF JobsOfPhase, JobOf
<1> QED BY <1>3, <1>4 DEF Jobs

\* A push that returned had begun.
LEMMA ReturnedBegun == ASSUME NEW L, NEW H, Inv(L, H) PROVE \A v \in returned : Begun(v)
<1>1. ValuesApart(L, H) BY DEF Inv
<1>2. returned \subseteq Range(popped) \union {value[n] : n \in Carriers(L, H)}
  BY <1>1 DEF ValuesApart, Safe
<1> QED BY <1>1, <1>2 DEF ValuesApart

\* A callback that begins, with the phase its session goes into.
BeginsJob(p, id, s) ==
    /\ JobPush(p, id, s, PhaseIn(id))
    /\ \/ phase[s] = "none" /\ id = "newUserData"
       \/ phase[s] = "open" /\ id \in {"recv", "deleteUserData"}

LEMMA CallbackBegins ==
  ASSUME NEW p, NEW s, OnNewConnect(p, s) \/ OnRecv(p, s) \/ OnDisconnect(p, s)
  PROVE  \E id \in JobIDs : BeginsJob(p, id, s)
<1>1. CASE OnNewConnect(p, s)
  BY <1>1 DEF OnNewConnect, BeginsJob, PhaseIn, JobIDs
<1>2. CASE OnRecv(p, s)
  BY <1>2 DEF OnRecv, BeginsJob, PhaseIn, JobIDs
<1>3. CASE OnDisconnect(p, s)
  BY <1>3 DEF OnDisconnect, BeginsJob, PhaseIn, JobIDs
<1> QED BY <1>1, <1>2, <1>3

\* What a push that begins does to the jobs and the phases.
JobStarts(p, id, s, v) ==
    /\ v \in Values /\ ~Begun(v) /\ Pushing(p)' = v /\ Begun(v)'
    /\ \A w \in Values : Begun(w) => Begun(w)' /\ w # v /\ job'[w] = job[w]
    /\ \A w \in Values : Begun(w)' => Begun(w) \/ w = v
    /\ job'[v] \in Jobs /\ job'[v].id = id /\ job'[v].targetID = s
    /\ phase'[s] = PhaseIn(id)
    /\ \A t \in Sessions : t # s => phase'[t] = phase[t]
    /\ \A q \in Producers : q # p => pc'[q] = pc[q] /\ Pushing(q)' = Pushing(q)
    /\ UNCHANGED <<returned, refused, cpc, detached>>
    /\ job' \in [Values -> Jobs \union {NULL}]
    /\ phase' \in [Sessions -> {"none", "opening", "open", "receiving", "closing", "closed"}]

LEMMA JobFacts ==
  ASSUME JobTypeOK, IInv, NEW p \in Producers, NEW id \in JobIDs,
         NEW s \in Sessions, BeginsJob(p, id, s), NEW v, v = NextValue(p)
  PROVE  JobStarts(p, id, s, v)
<1>1. /\ PushBegin(p) /\ Goto(p, "init")
      /\ job' = [job EXCEPT ![NextValue(p)] = [id |-> id, targetID |-> s]]
      /\ phase' = [phase EXCEPT ![s] = PhaseIn(id)]
      /\ UNCHANGED <<returned, refused, earlier, cpc, detached>>
  BY DEF BeginsJob, JobPush
<1>2. TypeOK BY DEF JobTypeOK
<1>3. /\ Pushing(p)' = v /\ v \in Values /\ ~Begun(v) /\ Begun(v)'
      /\ \A q \in Producers : q # p => Pushing(q)' = Pushing(q)
      /\ \A w \in Values : Begun(w) => Begun(w)'
      /\ \A w \in Values : Begun(w)' => Begun(w) \/ w = v
  <2>1. PICK L, H : Inv(L, H) BY DEF IInv
  <2> QED BY <1>1, <1>2, <2>1, BeginFacts
<1>4. \A w \in Values : Begun(w) => w # v BY <1>3
<1>5. /\ job'[v] = [id |-> id, targetID |-> s]
      /\ \A w \in Values : w # v => job'[w] = job[w]
      /\ job' \in [Values -> Jobs \union {NULL}]
  <2>1. [id |-> id, targetID |-> s] \in Jobs BY DEF Jobs
  <2> QED BY <1>1, <1>3, <2>1 DEF JobTypeOK
<1>6. job'[v] \in Jobs /\ job'[v].id = id /\ job'[v].targetID = s BY <1>5 DEF Jobs
<1>7. /\ phase'[s] = PhaseIn(id)
      /\ \A t \in Sessions : t # s => phase'[t] = phase[t]
      /\ phase' \in [Sessions -> {"none", "opening", "open", "receiving", "closing", "closed"}]
  BY <1>1 DEF JobTypeOK, PhaseIn
<1>8. \A q \in Producers : q # p => pc'[q] = pc[q] BY <1>1, <1>2 DEF Goto, TypeOK
<1> QED BY <1>1, <1>3, <1>4, <1>5, <1>6, <1>7, <1>8 DEF JobStarts

LEMMA CallbackBeginStep ==
  ASSUME JobTypeOK, IInv, Callbacks, NEW p \in Producers, NEW id \in JobIDs,
         NEW s \in Sessions, BeginsJob(p, id, s)
  PROVE  Callbacks'
<1>1. PICK v : v = NextValue(p) OBVIOUS
<1>2. /\ v \in Values /\ ~Begun(v) /\ Pushing(p)' = v /\ Begun(v)'
      /\ \A w \in Values : Begun(w) => Begun(w)' /\ w # v /\ job'[w] = job[w]
      /\ \A w \in Values : Begun(w)' => Begun(w) \/ w = v
      /\ job'[v] \in Jobs /\ job'[v].id = id /\ job'[v].targetID = s
      /\ phase'[s] = PhaseIn(id)
      /\ \A t \in Sessions : t # s => phase'[t] = phase[t]
      /\ \A q \in Producers : q # p => pc'[q] = pc[q] /\ Pushing(q)' = Pushing(q)
      /\ returned' = returned
  <2>1. JobStarts(p, id, s, v) BY <1>1, JobFacts
  <2> QED BY <2>1 DEF JobStarts
<1>3. /\ \/ phase[s] = "none" /\ id = "newUserData"
         \/ phase[s] = "open" /\ id \in {"recv", "deleteUserData"}
      /\ PhaseIn(id) \in {"opening", "receiving", "closing"}
      /\ id = "newUserData" <=> PhaseIn(id) = "opening"
      /\ id = "deleteUserData" <=> PhaseIn(id) = "closing"
  BY DEF BeginsJob, PhaseIn
<1>4. InCallback /\ JobsOfPhase /\ OneOfAKind /\ UserMade /\ TypeOK BY DEF Callbacks, JobTypeOK
<1>5. \A w \in Values : Begun(w) => job[w] \in Jobs /\ job[w].targetID \in Sessions
  BY <1>4 DEF JobsOfPhase, Jobs
<1>6. ASSUME NEW q \in Producers, q # p, pc[q] # "idle"
      PROVE  /\ JobOf(q)' = JobOf(q) /\ JobOf(q).targetID # s
             /\ JobOf(q).targetID \in Sessions
  <2>1. /\ Pushing(q) \in Values /\ Begun(Pushing(q)) /\ JobOf(q).targetID \in Sessions
    BY <1>4, <1>6, PushesJob DEF IInv
  <2>2. JobOf(q)' = JobOf(q) BY <1>2, <1>6, <2>1 DEF JobOf
  <2>3. phase[JobOf(q).targetID] = PhaseIn(JobOf(q).id) BY <1>4, <1>6 DEF InCallback
  <2>4. phase[JobOf(q).targetID] \notin {"none", "open"} BY <2>3 DEF PhaseIn
  <2> QED BY <1>3, <2>1, <2>2, <2>4
<1>7. JobOf(p)' = job'[v] BY <1>2 DEF JobOf
<1>8. InCallback'
  <2>1. ASSUME NEW q \in Producers, pc'[q] # "idle"
        PROVE  phase'[JobOf(q)'.targetID] = PhaseIn(JobOf(q)'.id)
    <3>1. CASE q = p BY <1>2, <1>7, <3>1
    <3>2. CASE q # p
      <4>1. pc[q] # "idle" BY <1>2, <2>1, <3>2
      <4>2. JobOf(q)' = JobOf(q) /\ phase'[JobOf(q).targetID] = phase[JobOf(q).targetID]
        BY <1>2, <1>6, <3>2, <4>1
      <4> QED BY <1>4, <4>1, <4>2 DEF InCallback
    <3> QED BY <3>1, <3>2
  <2>2. ASSUME NEW q \in Producers, NEW r \in Producers, q # r, pc'[q] # "idle", pc'[r] # "idle"
        PROVE  JobOf(r)'.targetID # JobOf(q)'.targetID
    <3>1. CASE q = p
      <4>1. r # p /\ pc[r] # "idle" BY <1>2, <2>2, <3>1
      <4> QED BY <1>2, <1>6, <1>7, <3>1, <4>1
    <3>2. CASE r = p
      <4>1. q # p /\ pc[q] # "idle" BY <1>2, <2>2, <3>2
      <4> QED BY <1>2, <1>6, <1>7, <3>2, <4>1
    <3>3. CASE q # p /\ r # p
      <4>1. pc[q] # "idle" /\ pc[r] # "idle" BY <1>2, <2>2, <3>3
      <4>2. JobOf(q)' = JobOf(q) /\ JobOf(r)' = JobOf(r) BY <1>6, <3>3, <4>1
      <4> QED BY <1>4, <2>2, <4>1, <4>2 DEF InCallback
    <3> QED BY <3>1, <3>2, <3>3
  <2>3. (\A q \in Producers : PhaseIn(JobOf(q).id)' = PhaseIn(JobOf(q)'.id)) BY DEF PhaseIn
  <2> QED BY <2>1, <2>2, <2>3 DEF InCallback
<1>9. JobsOfPhase'
  <2>1. SUFFICES ASSUME NEW w \in Values, Begun(w)'
                 PROVE  /\ job'[w] \in Jobs
                        /\ phase'[job'[w].targetID] # "none"
                        /\ phase'[job'[w].targetID] = "opening" => job'[w].id = "newUserData"
                        /\ job'[w].id = "deleteUserData" =>
                               phase'[job'[w].targetID] \in {"closing", "closed"}
    BY DEF JobsOfPhase, Jobs
  <2>2. CASE w = v BY <1>2, <1>3, <2>2
  <2>3. CASE w # v
    <3>1. Begun(w) /\ job'[w] = job[w] BY <1>2, <2>1, <2>3
    <3>2. CASE job[w].targetID = s
      <4>1. phase[s] = "open" /\ job[w].id # "deleteUserData"
        BY <1>3, <1>4, <3>1, <3>2 DEF JobsOfPhase
      <4> QED BY <1>2, <1>3, <1>5, <3>1, <3>2, <4>1
    <3>3. CASE job[w].targetID # s
      <4>1. phase'[job[w].targetID] = phase[job[w].targetID] BY <1>2, <1>5, <3>1, <3>3
      <4> QED BY <1>4, <3>1, <4>1 DEF JobsOfPhase
    <3> QED BY <3>2, <3>3
  <2> QED BY <2>2, <2>3
<1>10. OneOfAKind'
  <2>1. ASSUME NEW w \in Values, Begun(w), id # "recv", job[w].targetID = s
        PROVE  job[w].id # id
    <3>1. phase[s] = "open" /\ id = "deleteUserData"
      BY <1>3, <1>4, <2>1 DEF JobsOfPhase
    <3> QED BY <1>4, <2>1, <3>1 DEF JobsOfPhase
  <2>2. SUFFICES ASSUME NEW w \in Values, NEW x \in Values, Begun(w)', Begun(x)',
                        job'[w].id # "recv", job'[w].id = job'[x].id,
                        job'[w].targetID = job'[x].targetID
                 PROVE  w = x
    BY DEF OneOfAKind
  <2>3. CASE w = v /\ x # v BY <1>2, <2>1, <2>2, <2>3
  <2>4. CASE x = v /\ w # v BY <1>2, <2>1, <2>2, <2>4
  <2>5. CASE w # v /\ x # v BY <1>2, <1>4, <2>2, <2>5 DEF OneOfAKind
  <2> QED BY <2>3, <2>4, <2>5
<1>11. UserMade'
  <2>1. SUFFICES ASSUME NEW t \in Sessions,
                        phase'[t] \in {"open", "receiving", "closing", "closed"}
                 PROVE  \E u \in returned : job'[u] = Fresh(t)
    BY <1>2 DEF UserMade, Fresh
  <2>2. phase[t] \in {"open", "receiving", "closing", "closed"}
    <3>1. CASE t = s BY <1>2, <1>3, <2>1, <3>1
    <3>2. CASE t # s BY <1>2, <2>1, <3>2
    <3> QED BY <3>1, <3>2
  <2>3. PICK u \in returned : job[u] = Fresh(t) BY <1>4, <2>2 DEF UserMade
  <2>4. u \in Values /\ Begun(u)
    BY <1>4, ReturnedBegun DEF TypeOK, IInv
  <2> QED BY <1>2, <2>3, <2>4
<1> QED BY <1>8, <1>9, <1>10, <1>11 DEF Callbacks

LEMMA CallbackReturnStep ==
  ASSUME JobTypeOK, IInv, Callbacks, NEW p \in Producers, CallbackReturn(p)
  PROVE  Callbacks'
<1>1. PICK s : s = JobOf(p).targetID OBVIOUS
<1>2. InCallback /\ JobsOfPhase /\ OneOfAKind /\ UserMade /\ TypeOK BY DEF Callbacks, JobTypeOK
<1>3. /\ pc[p] = "size" /\ pc' = [pc EXCEPT ![p] = "idle"]
      /\ returned' = returned \union {Pushing(p)}
      /\ phase' = [phase EXCEPT ![s] = IF @ = "closing" THEN "closed" ELSE "open"]
      /\ UNCHANGED <<count, job>>
  BY <1>1 DEF CallbackReturn, PushReturn, Goto, JobOf
<1>4. /\ Pushing(p) \in Values /\ Begun(Pushing(p)) /\ JobOf(p) \in Jobs
      /\ s \in Sessions /\ JobOf(p).id \in JobIDs
  BY <1>1, <1>2, <1>3, PushesJob DEF IInv
<1>5. /\ phase[s] = PhaseIn(JobOf(p).id) /\ phase[s] \in {"opening", "receiving", "closing"}
      /\ phase[s] = "opening" => JobOf(p).id = "newUserData"
  BY <1>1, <1>2, <1>3, <1>4 DEF InCallback, PhaseIn
<1>6. /\ phase'[s] = (IF phase[s] = "closing" THEN "closed" ELSE "open")
      /\ \A t \in Sessions : t # s => phase'[t] = phase[t]
  BY <1>3, <1>4 DEF JobTypeOK
<1>7. pc'[p] = "idle" /\ \A q \in Producers : q # p => pc'[q] = pc[q]
  BY <1>2, <1>3 DEF TypeOK
<1>8. /\ \A q \in Producers : Pushing(q)' = Pushing(q) /\ JobOf(q)' = JobOf(q)
      /\ \A v : Begun(v)' <=> Begun(v)
  BY <1>3 DEF Pushing, JobOf, Begun
<1>9. InCallback'
  <2>1. ASSUME NEW q \in Producers, pc'[q] # "idle"
        PROVE  /\ phase'[JobOf(q).targetID] = PhaseIn(JobOf(q).id)
               /\ \A r \in Producers : r # q /\ pc'[r] # "idle" =>
                      JobOf(r).targetID # JobOf(q).targetID
    <3>1. q # p /\ pc[q] # "idle" BY <1>7, <2>1
    <3>2. JobOf(q).targetID # s BY <1>1, <1>2, <1>3, <3>1 DEF InCallback
    <3>3. JobOf(q).targetID \in Sessions BY <1>2, <3>1, PushesJob DEF IInv
    <3>4. phase'[JobOf(q).targetID] = phase[JobOf(q).targetID] BY <1>6, <3>2, <3>3
    <3>5. \A r \in Producers : pc'[r] # "idle" => pc[r] # "idle" BY <1>7
    <3> QED BY <1>2, <3>1, <3>4, <3>5 DEF InCallback
  <2> QED BY <1>8, <2>1 DEF InCallback, PhaseIn
<1>10. JobsOfPhase'
  <2>1. SUFFICES ASSUME NEW w \in Values, Begun(w)
                 PROVE  /\ job[w] \in Jobs
                        /\ phase'[job[w].targetID] # "none"
                        /\ phase'[job[w].targetID] = "opening" => job[w].id = "newUserData"
                        /\ job[w].id = "deleteUserData" =>
                               phase'[job[w].targetID] \in {"closing", "closed"}
    BY <1>3, <1>8 DEF JobsOfPhase, Jobs
  <2>2. job[w] \in Jobs /\ job[w].targetID \in Sessions
    BY <1>2, <2>1 DEF JobsOfPhase, Jobs
  <2>3. CASE job[w].targetID = s
    <3>1. job[w].id = "deleteUserData" => phase[s] = "closing"
      BY <1>2, <1>5, <2>1, <2>3 DEF JobsOfPhase
    <3> QED BY <1>6, <2>2, <2>3, <3>1
  <2>4. CASE job[w].targetID # s
    <3>1. phase'[job[w].targetID] = phase[job[w].targetID] BY <1>6, <2>2, <2>4
    <3> QED BY <1>2, <2>1, <3>1 DEF JobsOfPhase
  <2> QED BY <2>3, <2>4
<1>11. OneOfAKind' BY <1>2, <1>3, <1>8 DEF OneOfAKind
<1>12. UserMade'
  <2>1. SUFFICES ASSUME NEW t \in Sessions,
                        phase'[t] \in {"open", "receiving", "closing", "closed"}
                 PROVE  \E u \in returned' : job[u] = Fresh(t)
    BY <1>3 DEF UserMade, Fresh
  <2>2. CASE t = s /\ phase[s] = "opening"
    <3>1. JobOf(p) = Fresh(s) BY <1>1, <1>4, <1>5, <2>2 DEF Fresh, Jobs
    <3> QED BY <1>3, <2>2, <3>1 DEF JobOf
  <2>3. CASE t # s \/ phase[s] # "opening"
    <3>1. phase[t] \in {"open", "receiving", "closing", "closed"} BY <1>5, <1>6, <2>1, <2>3
    <3>2. PICK u \in returned : job[u] = Fresh(t) BY <1>2, <3>1 DEF UserMade
    <3> QED BY <1>3, <3>2
  <2> QED BY <2>2, <2>3
<1> QED BY <1>9, <1>10, <1>11, <1>12 DEF Callbacks

\* The other steps leave the jobs alone.
JobQuiet == (JobPop \/ \E p \in Producers : PushLoop(p)) /\ UNCHANGED jobVars

LEMMA JobNextIs ==
  ASSUME JobNext
  PROVE  \/ \E p \in Producers : \E s \in Sessions : \E id \in JobIDs : BeginsJob(p, id, s)
         \/ \E p \in Producers : CallbackReturn(p)
         \/ JobQuiet
<1>1. ASSUME NEW p \in Producers, Callback(p)
      PROVE  \/ \E s \in Sessions : \E id \in JobIDs : BeginsJob(p, id, s)
             \/ CallbackReturn(p)
  BY <1>1, CallbackBegins DEF Callback
<1> QED BY <1>1 DEF JobNext, JobQuiet

LEMMA JobQuietStep ==
  ASSUME JobTypeOK, Callbacks, JobQuiet \/ UNCHANGED allVars
  PROVE  /\ Callbacks'
         /\ UNCHANGED <<refused, job, phase>>
         /\ cpc # "value" => cpc' # "value"
<1>1. TypeOK BY DEF JobTypeOK
<1>2. UNCHANGED <<job, phase, returned, refused, count>>
  <2>1. CASE JobPop /\ UNCHANGED jobVars
    BY <2>1 DEF jobVars, JobPop, PopBegin, PopUndo, PopTail, PopKey, PopHelp, JobTake
  <2>2. ASSUME NEW p \in Producers, PushLoop(p), UNCHANGED jobVars
        PROVE  UNCHANGED <<job, phase, returned, refused, count>>
    BY <2>2 DEF jobVars, PushLoop, PushInit, ReadTail, ReadKey, Link, Swing, Help
  <2>3. CASE UNCHANGED allVars BY <2>3 DEF allVars, jobVars
  <2> QED BY <2>1, <2>2, <2>3 DEF JobQuiet
<1>3. \A q \in Producers : pc'[q] # "idle" => pc[q] # "idle"
  <2>1. CASE JobPop
    BY <2>1 DEF JobPop, PopBegin, PopUndo, PopTail, PopKey, PopHelp, JobTake
  <2>2. ASSUME NEW p \in Producers, PushLoop(p)
        PROVE  \A q \in Producers : pc'[q] # "idle" => pc[q] # "idle"
    <3>1. pc[p] # "idle" BY <2>2 DEF PushLoop, PushInit, ReadTail, ReadKey, Link, Swing, Help
    <3>2. \E l : pc' = [pc EXCEPT ![p] = l]
      BY <2>2 DEF PushLoop, PushInit, ReadTail, ReadKey, Link, Swing, Help, Goto
    <3> QED BY <1>1, <3>1, <3>2 DEF TypeOK
  <2>3. CASE UNCHANGED allVars BY <2>3 DEF allVars
  <2> QED BY <2>1, <2>2, <2>3 DEF JobQuiet
<1>4. cpc # "value" => cpc' # "value"
  <2>1. CASE JobPop
    BY <2>1 DEF JobPop, PopBegin, PopUndo, PopTail, PopKey, PopHelp, JobTake
  <2>2. ASSUME NEW p \in Producers, PushLoop(p) PROVE cpc' = cpc
    BY <2>2 DEF PushLoop, PushInit, ReadTail, ReadKey, Link, Swing, Help
  <2>3. CASE UNCHANGED allVars BY <2>3 DEF allVars
  <2> QED BY <2>1, <2>2, <2>3 DEF JobQuiet
<1>5. InCallback'
  <2>1. \A q \in Producers : JobOf(q)' = JobOf(q) BY <1>2 DEF JobOf, Pushing
  <2> QED BY <1>2, <1>3, <2>1 DEF Callbacks, InCallback, PhaseIn
<1>6. JobsOfPhase' BY <1>2 DEF Callbacks, JobsOfPhase, Begun, Jobs
<1>7. OneOfAKind' BY <1>2 DEF Callbacks, OneOfAKind, Begun
<1>8. UserMade' BY <1>2 DEF Callbacks, UserMade, Fresh
<1> QED BY <1>2, <1>4, <1>5, <1>6, <1>7, <1>8 DEF Callbacks

\* A job that enters the line comes behind those of its session.
LEMMA JobEnters ==
  ASSUME JobTypeOK, NEW L \in Seq(Keys), NEW H \in [Producers -> Seq(Keys)], Inv(L, H),
         Callbacks, ~detached, JobsOf(Line(L), job), NEW p \in Linkers
  PROVE  /\ Mapped(ValueOf, H[p]) = <<Pushing(p)>> /\ Pushing(p) \in Values
         /\ Line(L) \in Seq(Values) /\ JobsOf(Append(Line(L), Pushing(p)), job)
<1>1. TypeOK /\ InCallback /\ JobsOfPhase /\ OneOfAKind /\ UserMade
  BY DEF JobTypeOK, Callbacks
<1>2. ValuesApart(L, H) /\ \A q \in Linkers : Len(H[q]) = 1 BY DEF Inv, InOrder
<1>3. /\ Line(L) \in Seq(Values) /\ Range(Line(L)) \subseteq Values
      /\ \A w \in Range(Line(L)) : Begun(w)
      /\ Range(Line(L)) = Range(popped) \union {value[n] : n \in WaitingNodes(L)}
      /\ WaitingNodes(L) \subseteq Carriers(L, H) \ Own
  BY <1>1, LineIs, SeqParts
<1>4. returned \subseteq Range(Line(L))
  <2>1. Safe(L, H) = Range(Line(L)) BY <1>1, <1>2, LineIs
  <2> QED BY <1>2, <2>1 DEF ValuesApart
<1>5. PICK v : v = Pushing(p) OBVIOUS
<1>6. Mapped(ValueOf, H[p]) = <<v>> /\ v \in Values BY <1>2, <1>5, MineAlone
<1>7. p \in Producers /\ pc[p] \in LinkLabels /\ pc[p] # "idle" BY DEF Linkers, LinkLabels
<1>8. /\ Begun(v) /\ job[v] \in Jobs /\ job[v].targetID \in Sessions /\ job[v].id \in JobIDs
  BY <1>1, <1>5, <1>7, PushesJob DEF JobOf
<1>9. v \notin Range(Line(L))
  <2>1. Mine(p) \in Carriers(L, H) /\ Mine(p) \in Own /\ value[Mine(p)] = v
    BY <1>2, <1>5, <1>7, MineIs DEF Carriers, Own, ValuesApart
  <2>2. v \notin Range(popped) BY <1>2, <2>1 DEF ValuesApart
  <2>3. \A n \in WaitingNodes(L) : n \in Carriers(L, H) /\ n # Mine(p) BY <1>3, <2>1
  <2>4. \A n \in WaitingNodes(L) : value[n] # v BY <1>2, <2>1, <2>3 DEF ValuesApart
  <2> QED BY <1>3, <2>2, <2>4
<1>10. PICK s : s = job[v].targetID OBVIOUS
<1>11. phase[s] = PhaseIn(job[v].id) BY <1>1, <1>5, <1>7, <1>10 DEF InCallback, JobOf
<1>12. ASSUME NEW w \in Range(Line(L)), job[w].targetID = s
       PROVE  job[v].id # "newUserData" /\ job[w].id # "deleteUserData"
  <2>1. w \in Values /\ Begun(w) /\ w # v BY <1>3, <1>9
  <2>2. ASSUME job[v].id = "newUserData" PROVE FALSE
    <3>1. phase[s] = "opening" BY <1>11, <2>2 DEF PhaseIn
    <3>2. job[w].id = "newUserData" BY <1>1, <1>12, <2>1, <3>1 DEF JobsOfPhase
    <3> QED BY <1>1, <1>6, <1>8, <1>10, <1>12, <2>1, <2>2, <3>2 DEF OneOfAKind
  <2>3. ASSUME job[w].id = "deleteUserData" PROVE FALSE
    <3>1. phase[s] \in {"closing", "closed"} BY <1>1, <1>12, <2>1, <2>3 DEF JobsOfPhase
    <3>2. job[v].id = "deleteUserData" BY <1>8, <1>11, <3>1 DEF PhaseIn, JobIDs
    <3> QED BY <1>1, <1>6, <1>8, <1>10, <1>12, <2>1, <2>3, <3>2 DEF OneOfAKind
  <2> QED BY <2>2, <2>3
<1>13. ASSUME job[v].id # "newUserData" PROVE \E w \in Range(Line(L)) : job[w] = Fresh(s)
  <2>1. phase[s] \in {"receiving", "closing"} BY <1>11, <1>13 DEF PhaseIn
  <2>2. s \in Sessions BY <1>8, <1>10
  <2>3. \E u \in returned : job[u] = Fresh(s) BY <1>1, <2>1, <2>2 DEF UserMade
  <2> QED BY <1>4, <2>3
<1>14. JobsOf(Append(Line(L), v), job) BY <1>3, <1>6, <1>10, <1>12, <1>13, JobsLonger
<1> QED BY <1>3, <1>5, <1>6, <1>14

LEMMA DetachedStays == ASSUME QueueNext \/ UNCHANGED vars, detached PROVE detached'
<1>1. ASSUME NEW p \in Producers, QueueStep(p) PROVE detached'
  BY <1>1 DEF QueueStep, PushRefused, Allocates, PushInit, ReadTail, ReadKey, Link, Swing,
              Help, PushReturn
<1>2. CASE Pop \/ JobTake
  BY <1>2 DEF Pop, PopLoop, PopBegin, PopUndo, PopTail, PopKey, PopHelp, PopTake, PopReturn,
              JobTake
<1> QED BY <1>1, <1>2 DEF QueueNext

\* The jobs of the line stay in order.
LEMMA JobsKept ==
  ASSUME JobTypeOK, NEW L \in Seq(Keys), NEW H \in [Producers -> Seq(Keys)], Inv(L, H),
         Callbacks, ~detached, JobsOf(Line(L), job), NEW M, Lines(L, H, M),
         \A w \in Values : Begun(w) => job'[w] = job[w],
         \A p \in Producers : Links(p) => job' = job
  PROVE  JobsOf(Line(M)', job')
<1>1. TypeOK BY DEF JobTypeOK
<1>2. /\ Line(L) \in Seq(Values) /\ Range(Line(L)) \subseteq Values
      /\ \A w \in Range(Line(L)) : Begun(w)
  BY <1>1, LineIs, SeqParts
<1>3. CASE Line(M)' = Line(L)
  <2>1. \A w \in Range(Line(L)) : job'[w] = job[w] BY <1>2
  <2>2. JobsOf(Line(L), job') BY <1>2, <2>1, JobsSame
  <2> QED BY <1>3, <2>2
<1>4. ASSUME NEW p \in Producers, Links(p),
             Line(M)' = Line(L) \o Mapped(ValueOf, H[p])
      PROVE  JobsOf(Line(M)', job')
  <2>1. p \in Linkers BY <1>4 DEF Links, Link, Linkers, LinkLabels
  <2>2. /\ Mapped(ValueOf, H[p]) = <<Pushing(p)>> /\ Pushing(p) \in Values
        /\ JobsOf(Append(Line(L), Pushing(p)), job)
    BY <2>1, JobEnters
  <2>3. Append(Line(L), Pushing(p)) = Line(L) \o <<Pushing(p)>> BY <1>2, <2>2, AppendIsConcat
  <2>4. job' = job BY <1>4
  <2>5. Line(M)' = Append(Line(L), Pushing(p)) BY <1>4, <2>2, <2>3
  <2> QED BY <2>2, <2>4, <2>5
<1> QED BY <1>3, <1>4 DEF Lines

LEMMA JobInitIInv == ASSUME JobInit PROVE JobIInv
<1>1. IInv BY InitIInv DEF JobInit
<1>2. PICK L \in Seq(Keys) : \E H \in [Producers -> Seq(Keys)] : Inv(L, H) BY <1>1 DEF IInv
<1>3. PICK H \in [Producers -> Seq(Keys)] : Inv(L, H) BY <1>2
<1>4. TypeOK BY <1>1 DEF IInv
<1>5. JobTypeOK BY <1>4 DEF JobTypeOK, JobInit
<1>6. \A v \in Values : ~Begun(v)
  <2>1. \A v \in Values : v[1] \in Producers /\ v[2] \in Nat /\ v[2] > 0
    BY QueueAssumption DEF Values
  <2>2. \A p \in Producers : count[p] = 0 BY DEF JobInit, Init
  <2>3. ASSUME NEW v \in Values PROVE ~(v[2] <= count[v[1]]) BY <2>1, <2>2
  <2> QED BY <2>3 DEF Begun
<1>7. Callbacks
  <2>1. InCallback BY DEF InCallback, JobInit, Init
  <2>2. JobsOfPhase /\ OneOfAKind BY <1>6 DEF JobsOfPhase, OneOfAKind
  <2>3. UserMade BY DEF UserMade, JobInit
  <2> QED BY <2>1, <2>2, <2>3 DEF Callbacks
<1>8. JobsOf(Line(L), job)
  <2>1. /\ Line(L) \in Seq(Values) /\ \A w \in Range(Line(L)) : Begun(w)
    BY <1>3, <1>4, LineIs
  <2>2. Range(Line(L)) \subseteq Values BY <2>1, SeqParts
  <2>3. DOMAIN Line(L) = {} BY <1>6, <2>1, <2>2 DEF Range
  <2> QED BY <2>3 DEF JobsOf
<1>9. refused = {} /\ cpc # "value" BY DEF JobInit, Init
<1> QED BY <1>3, <1>5, <1>7, <1>8, <1>9 DEF JobIInv

LEMMA JobStep == ASSUME JobIInv, [JobNext]_allVars PROVE JobIInv'
<1>1. JobTypeOK /\ Callbacks /\ refused = {} /\ cpc # "value" BY DEF JobIInv
<1>2. PICK L \in Seq(Keys) : \E H \in [Producers -> Seq(Keys)] :
                                 Inv(L, H) /\ (detached \/ JobsOf(Line(L), job))
  BY DEF JobIInv
<1>3. PICK H \in [Producers -> Seq(Keys)] : Inv(L, H) /\ (detached \/ JobsOf(Line(L), job))
  BY <1>2
<1>4. TypeOK /\ IInv BY <1>1, <1>3 DEF JobTypeOK, IInv
<1>5. QueueNext \/ UNCHANGED vars
  <2>1. CASE JobNext BY <2>1, JobNextIsQueueNext
  <2>2. CASE UNCHANGED allVars BY <2>2 DEF allVars
  <2> QED BY <2>1, <2>2
<1>6. Follows(L, H) BY <1>3, <1>4, <1>5, QueueSteps
<1>7. PICK M \in Seq(Keys) : \E G \in [Producers -> Seq(Keys)] : Inv(M, G)' /\ Lines(L, H, M)
  BY <1>6 DEF Follows
<1>8. PICK G \in [Producers -> Seq(Keys)] : Inv(M, G)' BY <1>7
<1> DEFINE Rest == /\ Callbacks' /\ refused' = {} /\ cpc' # "value"
                   /\ job' \in [Values -> Jobs \union {NULL}]
                   /\ phase' \in [Sessions -> {"none", "opening", "open", "receiving",
                                               "closing", "closed"}]
                   /\ \A w \in Values : Begun(w) => job'[w] = job[w]
                   /\ \A p \in Producers : Links(p) => job' = job
<1>9. Rest
  <2>1. ASSUME NEW p \in Producers, NEW s \in Sessions, NEW id \in JobIDs, BeginsJob(p, id, s)
        PROVE  Rest
    <3>1. PICK v : v = NextValue(p) OBVIOUS
    <3>2. JobStarts(p, id, s, v) BY <1>1, <1>4, <2>1, <3>1, JobFacts
    <3>3. Callbacks' BY <1>1, <1>4, <2>1, CallbackBeginStep
    <3>4. pushs' # pushs
      BY <1>4, <2>1 DEF BeginsJob, JobPush, PushBegin, TypeOK
    <3>5. \A q \in Producers : ~Links(q) BY <3>4 DEF Links, Link
    <3> QED BY <1>1, <3>2, <3>3, <3>5 DEF JobStarts
  <2>2. ASSUME NEW p \in Producers, CallbackReturn(p) PROVE Rest
    <3>1. Callbacks' BY <1>1, <1>4, <2>2, CallbackReturnStep
    <3>2. /\ UNCHANGED <<job, refused, cpc>>
          /\ \E s : phase' = [phase EXCEPT ![s] = IF @ = "closing" THEN "closed" ELSE "open"]
      BY <2>2 DEF CallbackReturn, PushReturn
    <3>3. phase' \in [Sessions -> {"none", "opening", "open", "receiving", "closing", "closed"}]
      BY <1>1, <3>2 DEF JobTypeOK
    <3> QED BY <1>1, <3>1, <3>2, <3>3 DEF JobTypeOK
  <2>3. CASE JobQuiet \/ UNCHANGED allVars
    <3>1. Callbacks' /\ UNCHANGED <<refused, job, phase>> /\ cpc' # "value"
      BY <1>1, <2>3, JobQuietStep
    <3> QED BY <1>1, <3>1 DEF JobTypeOK
  <2> HIDE DEF Rest
  <2> QED BY <2>1, <2>2, <2>3, JobNextIs
<1>10. JobTypeOK'
  <2>1. TypeOK' BY <1>6 DEF Follows
  <2> QED BY <1>9, <2>1 DEF JobTypeOK, Jobs
<1>11. detached' \/ JobsOf(Line(M), job)'
  <2>1. CASE detached BY <1>5, <2>1, DetachedStays
  <2>2. CASE ~detached
    <3>1. JobsOf(Line(L), job) /\ Lines(L, H, M) BY <1>3, <1>7, <2>2
    <3>2. JobsOf(Line(M)', job') BY <1>1, <1>3, <1>9, <2>2, <3>1, JobsKept
    <3>3. JobsOf(Line(M), job)' BY <3>2 DEF JobsOf, Fresh
    <3> QED BY <3>3
  <2> QED BY <2>1, <2>2
<1>12. \E K \in Seq(Keys) : \E J \in [Producers -> Seq(Keys)] :
           Inv(K, J)' /\ (detached' \/ JobsOf(Line(K), job)')
  BY <1>8, <1>11
<1> HIDE DEF Rest
<1>13. Callbacks' /\ refused' = {} /\ cpc' # "value" BY <1>9 DEF Rest
<1> QED BY <1>10, <1>12, <1>13 DEF JobIInv

\* What is delivered is the front of the line.
LEMMA DeliveredInOrder == ASSUME JobIInv PROVE JobsInOrderUnlessDetached
<1>1. JobTypeOK /\ TypeOK BY DEF JobIInv, JobTypeOK
<1>2. PICK L \in Seq(Keys) : \E H \in [Producers -> Seq(Keys)] :
                                 Inv(L, H) /\ (detached \/ JobsOf(Line(L), job))
  BY DEF JobIInv
<1>3. PICK H \in [Producers -> Seq(Keys)] : Inv(L, H) /\ (detached \/ JobsOf(Line(L), job))
  BY <1>2
<1>4. ASSUME ~detached PROVE SessionJobsInOrder /\ EveryJobFindsItsUser
  <2>1. JobsOf(Line(L), job) BY <1>3, <1>4
  <2> DEFINE m == Mapped(ValueOf, Waiting(L))
  <2>2. Line(L) = popped \o m /\ m \in Seq(Values) BY <1>1, <1>3, LineIs
  <2>3. popped \in Seq(Values) BY <1>1 DEF TypeOK
  <2> HIDE DEF m
  <2>4. JobsOf(popped, job)
    <3>1. JobsOf(popped \o m, job) BY <2>1, <2>2
    <3> QED BY <2>2, <2>3, <3>1, JobsShorter
  <2>5. DOMAIN popped = 1 .. Len(popped) /\ Len(popped) \in Nat BY <2>3, SeqParts
  <2>6. /\ DOMAIN Delivered = DOMAIN popped
        /\ \A i \in DOMAIN popped : Delivered[i] = job[popped[i]]
    BY DEF Delivered
  <2>7. SessionJobsInOrder BY <2>4, <2>6 DEF SessionJobsInOrder, JobsOf
  <2>8. EveryJobFindsItsUser
    <3>1. SUFFICES ASSUME NEW j \in DOMAIN popped, job[popped[j]].id # "newUserData"
                   PROVE  \E i \in 1 .. j - 1 : Delivered[i] = Fresh(job[popped[j]].targetID)
      BY <2>6 DEF EveryJobFindsItsUser, Fresh
    <3>2. PICK k \in 1 .. j - 1 : job[popped[k]] = Fresh(job[popped[j]].targetID)
      BY <2>4, <3>1 DEF JobsOf
    <3>3. k \in DOMAIN popped BY <2>5
    <3> QED BY <2>6, <3>2, <3>3
  <2> QED BY <2>7, <2>8
<1> QED BY <1>1, <1>4 DEF JobsInOrderUnlessDetached

\* The jobs of a session are delivered in the order of its callbacks, unless a push
\* was detached.
THEOREM JobsInOrder == JobSpec => []JobsInOrderUnlessDetached
<1>1. JobInit => JobIInv BY JobInitIInv
<1>2. JobIInv /\ [JobNext]_allVars => JobIInv' BY JobStep
<1>3. JobIInv => JobsInOrderUnlessDetached BY DeliveredInOrder
<1> QED BY <1>1, <1>2, <1>3, PTL DEF JobSpec

\* The job queue keeps its nodes and its values as the queue of a session does, though
\* its pool gives nodes in any order and its pop reads the value before _head moves.
THEOREM JobQueueIsQueue ==
  JobSpec => /\ [](EveryNodeInOnePlace /\ TailInList /\ NothingLostOrDoubled)
             /\ IsFifo
<1>1. JobInit => Init /\ IInv BY InitIInv DEF JobInit
<1>2. [JobNext]_allVars => QueueNext \/ UNCHANGED vars
  <2>1. CASE JobNext BY <2>1, JobNextIsQueueNext
  <2>2. CASE UNCHANGED allVars BY <2>2 DEF allVars
  <2> QED BY <2>1, <2>2
<1>3. IInv /\ [JobNext]_allVars => IInv' BY <1>2, IInvStep
<1>4. Init /\ IInv /\ ItemsOf => Fifo!Init BY FifoInit
<1>5. IInv /\ ItemsOf /\ ItemsOf' /\ [JobNext]_allVars => [Fifo!Enqueue \/ Fifo!Dequeue]_Items
  BY <1>2, FifoStep
<1>6. IInv => EveryNodeInOnePlace /\ TailInList /\ NothingLostOrDoubled
  BY IInvOnePlace, IInvTailInList, IInvNothingLost
<1>7. ItemsOf BY ItemsOfAlways
<1> QED BY <1>1, <1>3, <1>4, <1>5, <1>6, <1>7, PTL DEF JobSpec, IsFifo, Fifo!Spec
=============================================================================
