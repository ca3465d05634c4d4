---------------------------- MODULE ChunkPoolProofs ----------------------------
(***************************************************************************)
(* The chunk blocks of an object pool for any number of threads, blocks    *)
(* and calls: no block is lost or in two places, the counters match the    *)
(* stacks, a pop finds a block, and a batch of nodes is one thread's.      *)
(***************************************************************************)
EXTENDS ChunkPool, FiniteSetTheorems, SequenceLemmas

----------------------------------------------------------------------------
(* A stack is the blocks along the links from its top.                      *)

Key == Blocks \X Nat

\* f[1] to f[n] are the keys of a stack from the bottom up.
Linked(next, top, n, f) ==
    /\ f[0] = Null /\ f[n] = top
    /\ \A i \in 1 .. n : f[i] \in Key /\ next[MAKE_NODEPTR(f[i])] = f[i - 1]
    /\ \A i, j \in 1 .. n : i # j => MAKE_NODEPTR(f[i]) # MAKE_NODEPTR(f[j])

Stacked(next, top) == \E n \in Nat : \E f \in [0 .. n -> Key \cup {Null}] : Linked(next, top, n, f)

\* Links, KeysOf and InStack for any links.
LinksBy(next, top) ==
    LET link[n \in 0 .. Cardinality(Blocks)] ==
            IF n = 0 THEN top
            ELSE IF link[n - 1] = Null THEN Null
            ELSE next[MAKE_NODEPTR(link[n - 1])]
    IN  link
KeysBy(next, top)  == {LinksBy(next, top)[n] : n \in DOMAIN LinksBy(next, top)} \ {Null}
StackBy(next, top) == {MAKE_NODEPTR(k) : k \in KeysBy(next, top)}

LEMMA NumberOfBlocks ==
  /\ Cardinality(Blocks) = InitBlocks + MaxCalls /\ Cardinality(Blocks) \in Nat
  /\ IsFiniteSet(Blocks) /\ 0 \notin Blocks
<1>1. InitBlocks \in Nat /\ MaxCalls \in Nat BY ChunkPoolAssumption
<1> DEFINE a == 1
           b == InitBlocks + MaxCalls
<1>2. a \in Int /\ b \in Int /\ Blocks = a .. b BY <1>1 DEF Blocks
<1> HIDE DEF a, b
<1>3. IsFiniteSet(Blocks) /\ Cardinality(Blocks) = IF a > b THEN 0 ELSE b - a + 1
  BY <1>2, FS_Interval
<1>4. Cardinality(Blocks) = InitBlocks + MaxCalls BY <1>1, <1>3 DEF a, b
<1> QED BY <1>1, <1>3, <1>4 DEF Blocks

LEMMA NullIsNoKey == Null \notin Key
BY NumberOfBlocks DEF Null, Key

\* A block is in a stack once, so the stack is no longer than there are blocks.
LEMMA StackIsShort ==
  ASSUME NEW next, NEW top, NEW n \in Nat, NEW f, Linked(next, top, n, f)
  PROVE  n <= Cardinality(Blocks)
<1> DEFINE g == [i \in 1 .. n |-> MAKE_NODEPTR(f[i])]
<1>1. \A i \in 1 .. n : MAKE_NODEPTR(f[i]) \in Blocks BY DEF Linked, Key, MAKE_NODEPTR
<1>2. g \in [1 .. n -> Blocks] BY <1>1
<1>3. \A i, j \in 1 .. n : g[i] = g[j] => i = j BY DEF Linked
<1>4. g \in Injection(1 .. n, Blocks)
  <2> HIDE DEF g
  <2> QED BY <1>2, <1>3 DEF Injection, IsInjective
<1> HIDE DEF g
<1> DEFINE S == 1 .. n
<1>5. Cardinality(S) = n
  <2>1. Cardinality(1 .. n) = IF 1 > n THEN 0 ELSE n - 1 + 1 BY FS_Interval
  <2> QED BY <2>1
<1>6. g \in Injection(S, Blocks) BY <1>4
<1> HIDE DEF S
<1>7. Cardinality(S) <= Cardinality(Blocks) BY <1>6, NumberOfBlocks, FS_Injection
<1> QED BY <1>5, <1>7

LEMMA LinksAre ==
  ASSUME NEW next, NEW top, NEW n \in Nat, NEW f \in [0 .. n -> Key \cup {Null}],
         Linked(next, top, n, f)
  PROVE  /\ DOMAIN LinksBy(next, top) = 0 .. Cardinality(Blocks)
         /\ \A i \in 0 .. Cardinality(Blocks) :
                LinksBy(next, top)[i] = IF i <= n THEN f[n - i] ELSE Null
<1> DEFINE c == Cardinality(Blocks)
           IsL(l) == l = [i \in 0 .. c |-> IF i = 0 THEN top
                                           ELSE IF l[i - 1] = Null THEN Null
                                           ELSE next[MAKE_NODEPTR(l[i - 1])]]
           link == CHOOSE l : IsL(l)
           g == [i \in 0 .. c |-> IF i <= n THEN f[n - i] ELSE Null]
<1>1. LinksBy(next, top) = link BY DEF LinksBy
<1>2. c \in Nat /\ n <= c BY NumberOfBlocks, StackIsShort
<1> HIDE DEF c
<1>3. ASSUME NEW i \in 1 .. c
      PROVE  g[i] = IF g[i - 1] = Null THEN Null ELSE next[MAKE_NODEPTR(g[i - 1])]
  <2>1. i \in 0 .. c /\ i - 1 \in 0 .. c /\ i # 0 BY <1>2
  <2>2. /\ g[i] = IF i <= n THEN f[n - i] ELSE Null
        /\ g[i - 1] = IF i - 1 <= n THEN f[n - (i - 1)] ELSE Null
    BY <2>1
  <2> HIDE DEF g
  <2>3. CASE i <= n
    <3> DEFINE k == n - i + 1
    <3>1. k \in 1 .. n /\ n - (i - 1) = k /\ n - i = k - 1 /\ i - 1 <= n BY <2>3
    <3> HIDE DEF k
    <3>2. f[k] \in Key /\ next[MAKE_NODEPTR(f[k])] = f[k - 1] BY <3>1 DEF Linked
    <3>3. g[i - 1] = f[k] /\ g[i] = f[k - 1] BY <2>2, <2>3, <3>1
    <3> QED BY <3>2, <3>3, NullIsNoKey
  <2>4. CASE i > n
    <3>1. g[i] = Null BY <2>2, <2>4
    <3>2. i - 1 <= n => n - (i - 1) = 0 BY <2>4
    <3>3. g[i - 1] = Null BY <2>2, <3>2 DEF Linked
    <3> QED BY <3>1, <3>3
  <2> QED BY <2>3, <2>4
<1>4. g[0] = top
  <2>1. 0 \in 0 .. c /\ 0 <= n /\ n - 0 = n BY <1>2
  <2>2. g[0] = f[n] BY <2>1
  <2> QED BY <2>2 DEF Linked
<1>5. IsL(g)
  <2> DEFINE h == [i \in 0 .. c |-> IF i = 0 THEN top
                                    ELSE IF g[i - 1] = Null THEN Null
                                    ELSE next[MAKE_NODEPTR(g[i - 1])]]
  <2>1. ASSUME NEW i \in 0 .. c PROVE h[i] = g[i]
    <3>1. CASE i = 0
      <4> HIDE DEF g
      <4> QED BY <1>4, <3>1
    <3>2. CASE i # 0
      <4>1. i \in 1 .. c BY <3>2
      <4> HIDE DEF g
      <4> QED BY <1>3, <3>2, <4>1
    <3> QED BY <3>1, <3>2
  <2>2. DOMAIN g = 0 .. c /\ g = [i \in 0 .. c |-> g[i]] OBVIOUS
  <2> HIDE DEF g
  <2>3. h = g BY <2>1, <2>2
  <2> QED BY <2>3
<1> HIDE DEF g
<1>6. IsL(link) BY <1>5
<1> HIDE DEF link
<1>7. /\ DOMAIN link = 0 .. c /\ link[0] = top
      /\ \A i \in 1 .. c : link[i] = IF link[i - 1] = Null THEN Null
                                     ELSE next[MAKE_NODEPTR(link[i - 1])]
  <2> DEFINE s == link
             h == [i \in 0 .. c |-> IF i = 0 THEN top ELSE IF s[i - 1] = Null THEN Null
                                    ELSE next[MAKE_NODEPTR(s[i - 1])]]
  <2>1. link = h BY <1>6
  <2>2. DOMAIN h = 0 .. c OBVIOUS
  <2>3. 0 \in 0 .. c /\ \A i \in 1 .. c : i \in 0 .. c /\ i # 0 BY <1>2
  <2>4. h[0] = top /\ \A i \in 1 .. c : h[i] = IF s[i - 1] = Null THEN Null
                                                ELSE next[MAKE_NODEPTR(s[i - 1])]
    BY <2>3
  <2> HIDE DEF h
  <2> QED BY <2>1, <2>2, <2>4
<1> DEFINE Bad == {i \in 0 .. c : link[i] # g[i]}
<1>8. ASSUME Bad # {} PROVE FALSE
  <2>1. Bad \in SUBSET Nat OBVIOUS
  <2>2. PICK i \in Bad : \A m \in Bad : i <= m
    <3> HIDE DEF Bad
    <3> QED BY <1>8, <2>1, LeastExists
  <2>3. i \in 0 .. c /\ link[i] # g[i] OBVIOUS
  <2>4. i # 0 BY <1>4, <1>7, <2>3
  <2>5. i \in 1 .. c /\ i - 1 \in 0 .. c /\ ~(i <= i - 1)
    <3> HIDE DEF Bad
    <3> QED BY <1>2, <2>3, <2>4
  <2>6. i - 1 \notin Bad
    <3> HIDE DEF Bad
    <3> QED BY <2>2, <2>5
  <2>7. link[i - 1] = g[i - 1] BY <2>5, <2>6
  <2> QED BY <1>3, <1>7, <2>3, <2>5, <2>7
<1>9. \A i \in 0 .. c : link[i] = IF i <= n THEN f[n - i] ELSE Null BY <1>8 DEF g
<1> QED BY <1>1, <1>7, <1>9 DEF c

LEMMA KeysAre ==
  ASSUME NEW next, NEW top, NEW n \in Nat, NEW f \in [0 .. n -> Key \cup {Null}],
         Linked(next, top, n, f)
  PROVE  KeysBy(next, top) = {f[i] : i \in 1 .. n}
<1> DEFINE link == LinksBy(next, top)
           c == Cardinality(Blocks)
<1>1. c \in Nat /\ n <= c BY NumberOfBlocks, StackIsShort
<1>2. /\ DOMAIN link = 0 .. c
      /\ \A i \in 0 .. c : link[i] = IF i <= n THEN f[n - i] ELSE Null
  BY LinksAre
<1>3. KeysBy(next, top) = {link[i] : i \in 0 .. c} \ {Null} BY <1>2 DEF KeysBy
<1> HIDE DEF link, c
<1>4. ASSUME NEW i \in 0 .. c, link[i] # Null PROVE \E j \in 1 .. n : link[i] = f[j]
  <2>1. i <= n /\ link[i] = f[n - i] BY <1>2, <1>4
  <2>2. n - i # 0 BY <1>4, <2>1 DEF Linked
  <2>3. n - i \in 1 .. n BY <2>1, <2>2
  <2> QED BY <2>1, <2>3
<1>5. ASSUME NEW j \in 1 .. n PROVE f[j] # Null /\ \E i \in 0 .. c : f[j] = link[i]
  <2>1. f[j] # Null BY NullIsNoKey DEF Linked
  <2>2. n - j \in 0 .. c /\ n - j <= n /\ n - (n - j) = j BY <1>1
  <2>3. link[n - j] = f[j] BY <1>2, <2>2
  <2> QED BY <2>1, <2>2, <2>3
<1> QED BY <1>3, <1>4, <1>5

LEMMA StackFacts ==
  ASSUME NEW next, NEW top, Stacked(next, top)
  PROVE  /\ KeysBy(next, top) \subseteq Key /\ StackBy(next, top) \subseteq Blocks
         /\ IsFiniteSet(StackBy(next, top))
         /\ top # Null => top \in KeysBy(next, top)
         /\ top = Null <=> StackBy(next, top) = {}
         /\ LinksBy(next, top)[Cardinality(Blocks)] = Null
         /\ \A k \in KeysBy(next, top) :
                MAKE_NODEPTR(k) \in StackBy(next, top)
<1>1. PICK n \in Nat : \E f \in [0 .. n -> Key \cup {Null}] : Linked(next, top, n, f)
  BY DEF Stacked
<1>2. PICK f \in [0 .. n -> Key \cup {Null}] : Linked(next, top, n, f) BY <1>1
<1> DEFINE K == KeysBy(next, top)
<1>3. K = {f[i] : i \in 1 .. n} BY <1>2, KeysAre
<1>4. StackBy(next, top) = {MAKE_NODEPTR(k) : k \in K} BY DEF StackBy
<1> HIDE DEF K
<1>5. K \subseteq Key BY <1>2, <1>3 DEF Linked
<1>6. StackBy(next, top) \subseteq Blocks BY <1>4, <1>5 DEF Key, MAKE_NODEPTR
<1>7. IsFiniteSet(StackBy(next, top)) BY <1>6, NumberOfBlocks, FS_Subset
<1>8. top # Null => top \in K
  <2>1. n = 0 => top = Null BY <1>2 DEF Linked
  <2>2. n # 0 => n \in 1 .. n BY <1>2
  <2> QED BY <1>2, <1>3, <2>1, <2>2 DEF Linked
<1>9. top = Null => K = {}
  <2>1. top = Null => n \notin 1 .. n BY <1>2, NullIsNoKey DEF Linked
  <2>2. n \notin 1 .. n => 1 .. n = {} BY <1>2
  <2> QED BY <1>3, <2>1, <2>2
<1>10. LinksBy(next, top)[Cardinality(Blocks)] = Null
  <2> DEFINE c == Cardinality(Blocks)
  <2>1. c \in Nat /\ c \in 0 .. c BY NumberOfBlocks
  <2>2. n <= c BY <1>2, StackIsShort
  <2>3. LinksBy(next, top)[c] = IF c <= n THEN f[n - c] ELSE Null BY <1>2, <2>1, LinksAre
  <2> HIDE DEF c
  <2>4. c <= n => n - c = 0 BY <2>1, <2>2
  <2> QED BY <1>2, <2>3, <2>4 DEF c, Linked
<1> QED BY <1>4, <1>5, <1>6, <1>7, <1>8, <1>9, <1>10 DEF K

\* A block that is in no place of the stack goes on top of it.
LEMMA Pushed ==
  ASSUME NEW next, NEW top, Stacked(next, top), NEW key \in Key,
         MAKE_NODEPTR(key) \notin StackBy(next, top), next[MAKE_NODEPTR(key)] = top
  PROVE  /\ Stacked(next, key)
         /\ KeysBy(next, key) = KeysBy(next, top) \cup {key}
         /\ StackBy(next, key) = StackBy(next, top) \cup {MAKE_NODEPTR(key)}
<1>1. PICK n \in Nat : \E f \in [0 .. n -> Key \cup {Null}] : Linked(next, top, n, f)
  BY DEF Stacked
<1>2. PICK f \in [0 .. n -> Key \cup {Null}] : Linked(next, top, n, f) BY <1>1
<1> DEFINE m == n + 1
           g == [i \in 0 .. m |-> IF i = m THEN key ELSE f[i]]
<1>3. /\ m \in Nat /\ g \in [0 .. m -> Key \cup {Null}] /\ g[m] = key
      /\ \A i \in 0 .. n : g[i] = f[i] /\ i \in 0 .. m
  <2>1. m \in Nat /\ \A i \in 0 .. m : i = m \/ i \in 0 .. n BY <1>2
  <2>2. m \in 0 .. m /\ \A i \in 0 .. n : i \in 0 .. m /\ i # m BY <1>2
  <2> HIDE DEF m
  <2> QED BY <1>2, <2>1, <2>2
<1>4. \A i \in 1 .. m : i = m \/ i \in 1 .. n BY <1>2
<1>5. n \in 0 .. n /\ 0 \in 0 .. n /\ m - 1 = n /\ (\A i \in 1 .. n : i \in 0 .. n /\ i - 1 \in 0 .. n /\ i \in 1 .. m)
      /\ m \in 1 .. m
  BY <1>2
<1> HIDE DEF m, g
<1>6. KeysBy(next, top) = {f[i] : i \in 1 .. n} BY <1>2, KeysAre
<1>7. \A i \in 1 .. n : MAKE_NODEPTR(f[i]) # MAKE_NODEPTR(key)
  <2>1. StackBy(next, top) = {MAKE_NODEPTR(k) : k \in KeysBy(next, top)} BY DEF StackBy
  <2> QED BY <1>6, <2>1
<1>8. Linked(next, key, m, g)
  <2>1. g[0] = Null /\ g[m] = key BY <1>2, <1>3, <1>5 DEF Linked
  <2>2. ASSUME NEW i \in 1 .. m
        PROVE  g[i] \in Key /\ next[MAKE_NODEPTR(g[i])] = g[i - 1]
    <3>1. CASE i = m BY <1>2, <1>3, <1>5, <3>1 DEF Linked
    <3>2. CASE i \in 1 .. n BY <1>2, <1>3, <1>5, <3>2 DEF Linked
    <3> QED BY <1>4, <3>1, <3>2
  <2>3. ASSUME NEW i \in 1 .. m, NEW j \in 1 .. m, i # j
        PROVE  MAKE_NODEPTR(g[i]) # MAKE_NODEPTR(g[j])
    <3>1. CASE i \in 1 .. n /\ j \in 1 .. n BY <1>2, <1>3, <1>5, <2>3, <3>1 DEF Linked
    <3>2. CASE i \in 1 .. n /\ j = m BY <1>3, <1>5, <1>7, <3>2
    <3>3. CASE j \in 1 .. n /\ i = m BY <1>3, <1>5, <1>7, <3>3
    <3> QED BY <1>4, <2>3, <3>1, <3>2, <3>3
  <2> QED BY <2>1, <2>2, <2>3 DEF Linked
<1>9. KeysBy(next, key) = {g[i] : i \in 1 .. m} BY <1>3, <1>8, KeysAre
<1>10. KeysBy(next, key) = KeysBy(next, top) \cup {key}
  <2>1. \A i \in 1 .. n : g[i] = f[i] /\ i \in 1 .. m BY <1>3, <1>5
  <2>2. g[m] = key BY <1>3
  <2> QED BY <1>4, <1>5, <1>6, <1>9, <2>1, <2>2
<1>11. StackBy(next, key) = StackBy(next, top) \cup {MAKE_NODEPTR(key)} BY <1>10 DEF StackBy
<1>12. Stacked(next, key) BY <1>3, <1>8 DEF Stacked
<1> QED BY <1>10, <1>11, <1>12

\* The top is taken from the stack.
LEMMA Popped ==
  ASSUME NEW next, NEW top, Stacked(next, top), top # Null
  PROVE  LET rest == next[MAKE_NODEPTR(top)] IN
         /\ Stacked(next, rest)
         /\ KeysBy(next, rest) \subseteq KeysBy(next, top)
         /\ top \notin KeysBy(next, rest) /\ MAKE_NODEPTR(top) \in StackBy(next, top)
         /\ StackBy(next, rest) = StackBy(next, top) \ {MAKE_NODEPTR(top)}
<1>1. PICK n \in Nat : \E f \in [0 .. n -> Key \cup {Null}] : Linked(next, top, n, f)
  BY DEF Stacked
<1>2. PICK f \in [0 .. n -> Key \cup {Null}] : Linked(next, top, n, f) BY <1>1
<1>3. n # 0 BY <1>2 DEF Linked
<1> DEFINE m == n - 1
           g == [i \in 0 .. m |-> f[i]]
           rest == next[MAKE_NODEPTR(top)]
<1>4. m \in Nat /\ n \in 1 .. n /\ (\A i \in 0 .. m : i \in 0 .. n)
      /\ (\A i \in 1 .. m : i \in 1 .. n /\ i # n /\ i \in 0 .. m /\ i - 1 \in 0 .. m)
      /\ (\A i \in 1 .. n : i = n \/ i \in 1 .. m) /\ 0 \in 0 .. m /\ m \in 0 .. m
  BY <1>2, <1>3
<1>5. g \in [0 .. m -> Key \cup {Null}] /\ \A i \in 0 .. m : g[i] = f[i]
  <2> HIDE DEF m
  <2> QED BY <1>2, <1>4
<1>6. rest = f[m] /\ f[n] = top BY <1>2, <1>4 DEF Linked
<1> HIDE DEF m, g, rest
<1>7. Linked(next, rest, m, g)
  <2>1. g[0] = Null /\ g[m] = rest BY <1>2, <1>4, <1>5, <1>6 DEF Linked
  <2>2. \A i \in 1 .. m : g[i] \in Key /\ next[MAKE_NODEPTR(g[i])] = g[i - 1]
    BY <1>2, <1>4, <1>5 DEF Linked
  <2>3. \A i, j \in 1 .. m : i # j => MAKE_NODEPTR(g[i]) # MAKE_NODEPTR(g[j])
    BY <1>2, <1>4, <1>5 DEF Linked
  <2> QED BY <2>1, <2>2, <2>3 DEF Linked
<1>8. KeysBy(next, rest) = {g[i] : i \in 1 .. m} BY <1>4, <1>5, <1>7, KeysAre
<1>9. KeysBy(next, top) = {f[i] : i \in 1 .. n} BY <1>2, KeysAre
<1>10. \A i \in 1 .. m : g[i] = f[i] /\ MAKE_NODEPTR(f[i]) # MAKE_NODEPTR(top)
  <2>1. \A i \in 1 .. m : g[i] = f[i] BY <1>4, <1>5
  <2>2. \A i \in 1 .. m : MAKE_NODEPTR(f[i]) # MAKE_NODEPTR(f[n]) BY <1>2, <1>4 DEF Linked
  <2> QED BY <1>6, <2>1, <2>2
<1>11. KeysBy(next, top) = KeysBy(next, rest) \cup {top} BY <1>4, <1>6, <1>8, <1>9, <1>10
<1>12. \A k \in KeysBy(next, rest) : MAKE_NODEPTR(k) # MAKE_NODEPTR(top) BY <1>8, <1>10
<1>13. StackBy(next, rest) = StackBy(next, top) \ {MAKE_NODEPTR(top)}
  BY <1>11, <1>12 DEF StackBy
<1>14. Stacked(next, rest) BY <1>4, <1>5, <1>7 DEF Stacked
<1>15. top \in KeysBy(next, top) /\ MAKE_NODEPTR(top) \in StackBy(next, top)
  BY <1>11 DEF StackBy
<1> QED BY <1>11, <1>12, <1>13, <1>14, <1>15 DEF rest

\* A block that is not in the stack may get another link.
LEMMA Relinked ==
  ASSUME NEW next, NEW top, Stacked(next, top), NEW other, NEW b,
         b \notin StackBy(next, top),
         \A c \in Blocks : c # b => other[c] = next[c]
  PROVE  /\ Stacked(other, top)
         /\ KeysBy(other, top) = KeysBy(next, top) /\ StackBy(other, top) = StackBy(next, top)
<1>1. PICK n \in Nat : \E f \in [0 .. n -> Key \cup {Null}] : Linked(next, top, n, f)
  BY DEF Stacked
<1>2. PICK f \in [0 .. n -> Key \cup {Null}] : Linked(next, top, n, f) BY <1>1
<1>3. KeysBy(next, top) = {f[i] : i \in 1 .. n} BY <1>2, KeysAre
<1>4. \A i \in 1 .. n : f[i] \in Key /\ MAKE_NODEPTR(f[i]) \in StackBy(next, top)
  BY <1>2, <1>3 DEF Linked, StackBy
<1>5. \A i \in 1 .. n : MAKE_NODEPTR(f[i]) \in Blocks /\ MAKE_NODEPTR(f[i]) # b
  BY <1>4 DEF Key, MAKE_NODEPTR
<1>6. \A i \in 1 .. n : other[MAKE_NODEPTR(f[i])] = next[MAKE_NODEPTR(f[i])] BY <1>5
<1>7. Linked(other, top, n, f) BY <1>2, <1>6 DEF Linked
<1>8. KeysBy(other, top) = {f[i] : i \in 1 .. n} BY <1>2, <1>7, KeysAre
<1> QED BY <1>2, <1>3, <1>7, <1>8 DEF Stacked, StackBy

----------------------------------------------------------------------------
(* The inductive invariant.                                                 *)

Full      == StackBy(nextChunkBlock, topBlock)
Empty     == StackBy(nextChunkBlock, chunkBlockPoolTop)
FullKeys  == KeysBy(nextChunkBlock, topBlock)
EmptyKeys == KeysBy(nextChunkBlock, chunkBlockPoolTop)
Stacks    == Stacked(nextChunkBlock, topBlock) /\ Stacked(nextChunkBlock, chunkBlockPoolTop)

\* Every block that was made is in one stack or with one thread.
InOnePlace ==
    /\ Full \cap Empty = {}
    /\ \A t \in Threads : Held(t) \cap (Full \cup Empty) = {}
    /\ \A t, u \in Threads : t # u => Held(t) \cap Held(u) = {}
    /\ Full \subseteq 1 .. blocks /\ Empty \subseteq 1 .. blocks
    /\ \A t \in Threads : Held(t) \subseteq 1 .. blocks
    /\ \A b \in 1 .. blocks : b \in Full \cup Empty \/ \E t \in Threads : b \in Held(t)

Popping      == {"claim", "undo", "emptyTop", "emptyNext", "emptyPop"}
PopsFor(ret) == {t \in AtPc(Popping) : thread[t].ret = ret}

\* What a thread has at its control points.
HasBatch == AtPc({"emptyRead", "emptyPush", "emptyCount", "fill"}) \cup PopsFor("fill")
LocalsOf(t) ==
    /\ thread[t].pc \in Popping => thread[t].ret # "idle"
    /\ thread[t].batch # NoBatch <=> t \in HasBatch
    /\ thread[t].pc = "test" => thread[t].max <= maxBlockCount
    /\ thread[t].pc \in {"emptyRead", "emptyPush", "read", "push"} =>
           MAKE_NODEPTR(thread[t].key) = thread[t].block
    /\ thread[t].pc \in {"emptyPush", "push"} =>
           nextChunkBlock[thread[t].block] = thread[t].tempTop
    /\ thread[t].pc \in {"pop", "emptyNext", "emptyPop"} => thread[t].tempTop # Null
Locals == \A t \in Threads : LocalsOf(t)

\* A key that is popped is not pushed again: every push has a number of its own.
Numbers ==
    /\ \A k \in FullKeys : k[2] <= uniqueCount
    /\ \A t \in AtPc({"read", "push"}) : thread[t].key[2] <= uniqueCount
    /\ \A u \in AtPc({"next", "pop"}) :
           /\ thread[u].tempTop[2] <= uniqueCount
           /\ \A t \in AtPc({"read", "push"}) : thread[t].key # thread[u].tempTop
EmptyNumbers ==
    /\ \A k \in EmptyKeys : k[2] <= chunkBlockPoolUniqeCounter
    /\ \A t \in AtPc({"emptyRead", "emptyPush"}) : thread[t].key[2] <= chunkBlockPoolUniqeCounter
    /\ \A u \in AtPc({"emptyNext", "emptyPop"}) :
           /\ thread[u].tempTop[2] <= chunkBlockPoolUniqeCounter
           /\ \A t \in AtPc({"emptyRead", "emptyPush"}) : thread[t].key # thread[u].tempTop

\* The link of a key in a stack stays as it was read.
LinksRead ==
    /\ \A t \in AtPc({"pop"}) : thread[t].tempTop \in FullKeys =>
           thread[t].nextTop = nextChunkBlock[MAKE_NODEPTR(thread[t].tempTop)]
    /\ \A t \in AtPc({"emptyPop"}) : thread[t].tempTop \in EmptyKeys =>
           thread[t].nextTop = nextChunkBlock[MAKE_NODEPTR(thread[t].tempTop)]

\* The counters, and who is between them and the stacks.
Allocating == AtPc({"test", "top", "next", "pop", "crashed", "renew", "count"}) \cup PopsFor("renew")
Emptying   == AtPc({"undo", "emptyTop", "emptyNext", "emptyPop", "emptyCount"})
Undoing    == AtPc({"undo"})
\* Those that will not go to the stack of full blocks unless maxBlockCount grows.
Fated      == {t \in AtPc({"test"}) : thread[t].use >= thread[t].max}
                  \cup AtPc({"renew"}) \cup PopsFor("renew")
Counted ==
    /\ Cardinality(Full) = maxBlockCount - useBlockCount + Cardinality(Allocating)
    /\ Cardinality(Empty) = chunkBlockPoolSize + Cardinality(Emptying)
    /\ 0 <= chunkBlockPoolSize + Cardinality(Undoing)
    /\ ~countGrew => 0 <= maxBlockCount - useBlockCount + Cardinality(Fated)

\* What the calls that have begun may still make.
MayBlock  == AtPc({"test", "claim", "undo"})
MayBatch  == AtPc({"test", "renew"}) \cup PopsFor("renew")
MayNumber == AtPc({"test", "top", "next", "pop", "renew", "take"}) \cup PopsFor("renew")
MayFill   == AtPc({"fill"}) \cup PopsFor("fill")
Calling   == {t \in Threads : thread[t].pc # "idle"}
Limits ==
    /\ blocks + Cardinality(MayBlock) <= InitBlocks + calls
    /\ batches + Cardinality(MayBatch) <= InitBlocks + calls
    /\ chunkBlockPoolUniqeCounter + Cardinality(MayNumber) <= calls
    /\ uniqueCount + Cardinality(MayFill) <= InitBlocks + calls
    /\ useBlockCount = Cardinality(out) + Cardinality(Calling)

\* The nodes of a block that is full are its own.
Filled == Full \cup {thread[t].block : t \in AtPc({"take", "read", "push"})}
OwnNodes ==
    /\ \A b \in Blocks : curSize[b] = 1 <=> b \in Filled
    /\ \A b \in Filled : headNodePtr[b] \in 1 .. batches /\ headNodePtr[b] \notin out
    /\ \A b, c \in Filled : b # c => headNodePtr[b] # headNodePtr[c]
    /\ out \subseteq 1 .. batches
    /\ \A t \in HasBatch :
           /\ thread[t].batch \in 1 .. batches /\ thread[t].batch \notin out
           /\ \A b \in Filled : headNodePtr[b] # thread[t].batch
    /\ \A t, u \in HasBatch : t # u => thread[t].batch # thread[u].batch

IInv == /\ TypeOK /\ Stacks /\ InOnePlace /\ Locals /\ Numbers /\ EmptyNumbers
        /\ LinksRead /\ Counted /\ Limits /\ OwnNodes

USE DEF vars, mainVars, emptyVars, chunkVars, bookVars

ThreadType == [pc : Pcs, ret : {"idle", "renew", "fill"}, use : Nat, max : Nat,
               block : Blocks \cup {0}, key : KeyType, tempTop : KeyType, nextTop : KeyType,
               batch : Batches \cup {NoBatch}]

LEMMA Types ==
  ASSUME TypeOK
  PROVE  /\ thread \in [Threads -> ThreadType]
         /\ nextChunkBlock \in [Blocks -> KeyType]
         /\ headNodePtr \in [Blocks -> Batches \cup {NoBatch}] /\ curSize \in [Blocks -> {0, 1}]
         /\ topBlock \in KeyType /\ chunkBlockPoolTop \in KeyType
         /\ useBlockCount \in Nat /\ maxBlockCount \in Nat /\ uniqueCount \in Nat
         /\ chunkBlockPoolUniqeCounter \in Nat /\ chunkBlockPoolSize \in Int
         /\ out \subseteq Batches /\ blocks \in Nat /\ batches \in Nat
         /\ calls \in Nat /\ calls <= MaxCalls /\ InitBlocks \in Nat /\ MaxCalls \in Nat
         /\ countGrew \in BOOLEAN
BY ChunkPoolAssumption DEF TypeOK, ThreadType

LEMMA KeyTypes ==
  /\ KeyType \subseteq Key \cup {Null} /\ Null \in KeyType
  /\ \A k \in KeyType : k # Null => MAKE_NODEPTR(k) \in Blocks /\ k[2] \in Nat /\ k = <<k[1], k[2]>>
  /\ \A k \in KeyType : k[2] \in Nat
<1>1. InitBlocks \in Nat /\ MaxCalls \in Nat BY ChunkPoolAssumption
<1> QED BY <1>1 DEF KeyType, Key, Null, MAKE_NODEPTR

\* A key that is made has its type while its number is within the bound.
LEMMA KeyMade ==
  ASSUME NEW b \in Blocks, NEW n \in Nat, n <= InitBlocks + MaxCalls
  PROVE  /\ MAKE_KEY(b, n) \in KeyType /\ MAKE_KEY(b, n) \in Key /\ MAKE_KEY(b, n) # Null
         /\ MAKE_NODEPTR(MAKE_KEY(b, n)) = b /\ MAKE_KEY(b, n)[2] = n
<1>1. InitBlocks \in Nat /\ MaxCalls \in Nat /\ n \in 0 .. InitBlocks + MaxCalls
  BY ChunkPoolAssumption
<1> QED BY <1>1, NumberOfBlocks DEF KeyType, Key, MAKE_KEY, MAKE_NODEPTR, Null

One(p) == IF p THEN 1 ELSE 0

\* Two sets of threads that differ at most in t differ in size by what t
\* contributes.
LEMMA Recount ==
  ASSUME NEW S \in SUBSET Threads, NEW R \in SUBSET Threads, NEW t \in Threads,
         R \ {t} = S \ {t}
  PROVE  /\ Cardinality(S) \in Nat /\ Cardinality(R) \in Nat
         /\ Cardinality(R) - One(t \in R) = Cardinality(S) - One(t \in S)
         /\ t \in S => 1 <= Cardinality(S)
<1>1. IsFiniteSet(S) /\ IsFiniteSet(R) BY ChunkPoolAssumption, FS_Subset
<1>2. Cardinality(S \ {t}) = Cardinality(S) - One(t \in S) /\ Cardinality(S \ {t}) \in Nat
  BY <1>1, FS_RemoveElement, FS_CardinalityType DEF One
<1>3. Cardinality(R \ {t}) = Cardinality(R) - One(t \in R)
  BY <1>1, FS_RemoveElement, FS_CardinalityType DEF One
<1>4. Cardinality(S) \in Nat /\ Cardinality(R) \in Nat BY <1>1, FS_CardinalityType
<1>5. t \in S => Cardinality(S \ {t}) = Cardinality(S) - 1 BY <1>2 DEF One
<1> QED BY <1>2, <1>3, <1>4, <1>5

\* The step of t leaves the other threads alone.
Only(t) == \A u \in Threads : u # t => thread'[u] = thread[u]

\* How a step of t changes what is counted.
LEMMA Recounts ==
  ASSUME NEW t \in Threads, Only(t)
  PROVE  /\ Cardinality(Allocating') - One(t \in Allocating') = Cardinality(Allocating) - One(t \in Allocating)
         /\ Cardinality(Emptying') - One(t \in Emptying') = Cardinality(Emptying) - One(t \in Emptying)
         /\ Cardinality(Undoing') - One(t \in Undoing') = Cardinality(Undoing) - One(t \in Undoing)
         /\ Cardinality(Fated') - One(t \in Fated') = Cardinality(Fated) - One(t \in Fated)
         /\ Cardinality(MayBlock') - One(t \in MayBlock') = Cardinality(MayBlock) - One(t \in MayBlock)
         /\ Cardinality(MayBatch') - One(t \in MayBatch') = Cardinality(MayBatch) - One(t \in MayBatch)
         /\ Cardinality(MayNumber') - One(t \in MayNumber') = Cardinality(MayNumber) - One(t \in MayNumber)
         /\ Cardinality(MayFill') - One(t \in MayFill') = Cardinality(MayFill) - One(t \in MayFill)
         /\ Cardinality(Calling') - One(t \in Calling') = Cardinality(Calling) - One(t \in Calling)
<1>1. Cardinality(Allocating') - One(t \in Allocating') = Cardinality(Allocating) - One(t \in Allocating)
  <2>1. Allocating \in SUBSET Threads /\ Allocating' \in SUBSET Threads
    BY DEF Allocating, PopsFor, AtPc
  <2>2. Allocating' \ {t} = Allocating \ {t} BY DEF Allocating, PopsFor, AtPc, Only
  <2> QED BY <2>1, <2>2, Recount
<1>2. Cardinality(Emptying') - One(t \in Emptying') = Cardinality(Emptying) - One(t \in Emptying)
  <2>1. Emptying \in SUBSET Threads /\ Emptying' \in SUBSET Threads
    BY DEF Emptying, PopsFor, AtPc
  <2>2. Emptying' \ {t} = Emptying \ {t} BY DEF Emptying, PopsFor, AtPc, Only
  <2> QED BY <2>1, <2>2, Recount
<1>3. Cardinality(Undoing') - One(t \in Undoing') = Cardinality(Undoing) - One(t \in Undoing)
  <2>1. Undoing \in SUBSET Threads /\ Undoing' \in SUBSET Threads
    BY DEF Undoing, PopsFor, AtPc
  <2>2. Undoing' \ {t} = Undoing \ {t} BY DEF Undoing, PopsFor, AtPc, Only
  <2> QED BY <2>1, <2>2, Recount
<1>4. Cardinality(Fated') - One(t \in Fated') = Cardinality(Fated) - One(t \in Fated)
  <2>1. Fated \in SUBSET Threads /\ Fated' \in SUBSET Threads BY DEF Fated, PopsFor, AtPc
  <2>2. Fated' \ {t} = Fated \ {t} BY DEF Fated, PopsFor, AtPc, Only
  <2> QED BY <2>1, <2>2, Recount
<1>5. Cardinality(MayBlock') - One(t \in MayBlock') = Cardinality(MayBlock) - One(t \in MayBlock)
  <2>1. MayBlock \in SUBSET Threads /\ MayBlock' \in SUBSET Threads
    BY DEF MayBlock, PopsFor, AtPc
  <2>2. MayBlock' \ {t} = MayBlock \ {t} BY DEF MayBlock, PopsFor, AtPc, Only
  <2> QED BY <2>1, <2>2, Recount
<1>6. Cardinality(MayBatch') - One(t \in MayBatch') = Cardinality(MayBatch) - One(t \in MayBatch)
  <2>1. MayBatch \in SUBSET Threads /\ MayBatch' \in SUBSET Threads
    BY DEF MayBatch, PopsFor, AtPc
  <2>2. MayBatch' \ {t} = MayBatch \ {t} BY DEF MayBatch, PopsFor, AtPc, Only
  <2> QED BY <2>1, <2>2, Recount
<1>7. Cardinality(MayNumber') - One(t \in MayNumber') = Cardinality(MayNumber) - One(t \in MayNumber)
  <2>1. MayNumber \in SUBSET Threads /\ MayNumber' \in SUBSET Threads
    BY DEF MayNumber, PopsFor, AtPc
  <2>2. MayNumber' \ {t} = MayNumber \ {t} BY DEF MayNumber, PopsFor, AtPc, Only
  <2> QED BY <2>1, <2>2, Recount
<1>8. Cardinality(MayFill') - One(t \in MayFill') = Cardinality(MayFill) - One(t \in MayFill)
  <2>1. MayFill \in SUBSET Threads /\ MayFill' \in SUBSET Threads
    BY DEF MayFill, PopsFor, AtPc
  <2>2. MayFill' \ {t} = MayFill \ {t} BY DEF MayFill, PopsFor, AtPc, Only
  <2> QED BY <2>1, <2>2, Recount
<1>9. Cardinality(Calling') - One(t \in Calling') = Cardinality(Calling) - One(t \in Calling)
  <2>1. Calling \in SUBSET Threads /\ Calling' \in SUBSET Threads
    BY DEF Calling, PopsFor, AtPc
  <2>2. Calling' \ {t} = Calling \ {t} BY DEF Calling, PopsFor, AtPc, Only
  <2> QED BY <2>1, <2>2, Recount
<1> QED BY <1>1, <1>2, <1>3, <1>4, <1>5, <1>6, <1>7, <1>8, <1>9

LEMMA Counts ==
  ASSUME NEW t \in Threads
  PROVE  /\ Cardinality(Allocating) \in Nat /\ (t \in Allocating => 1 <= Cardinality(Allocating))
         /\ Cardinality(Emptying) \in Nat /\ (t \in Emptying => 1 <= Cardinality(Emptying))
         /\ Cardinality(Undoing) \in Nat /\ (t \in Undoing => 1 <= Cardinality(Undoing))
         /\ Cardinality(Fated) \in Nat /\ (t \in Fated => 1 <= Cardinality(Fated))
         /\ Cardinality(MayBlock) \in Nat /\ (t \in MayBlock => 1 <= Cardinality(MayBlock))
         /\ Cardinality(MayBatch) \in Nat /\ (t \in MayBatch => 1 <= Cardinality(MayBatch))
         /\ Cardinality(MayNumber) \in Nat /\ (t \in MayNumber => 1 <= Cardinality(MayNumber))
         /\ Cardinality(MayFill) \in Nat /\ (t \in MayFill => 1 <= Cardinality(MayFill))
         /\ Cardinality(Calling) \in Nat /\ (t \in Calling => 1 <= Cardinality(Calling))
<1>1. Cardinality(Allocating) \in Nat /\ (t \in Allocating => 1 <= Cardinality(Allocating))
  <2>1. Allocating \in SUBSET Threads BY DEF Allocating, PopsFor, AtPc
  <2> QED BY <2>1, Recount
<1>2. Cardinality(Emptying) \in Nat /\ (t \in Emptying => 1 <= Cardinality(Emptying))
  <2>1. Emptying \in SUBSET Threads BY DEF Emptying, PopsFor, AtPc
  <2> QED BY <2>1, Recount
<1>3. Cardinality(Undoing) \in Nat /\ (t \in Undoing => 1 <= Cardinality(Undoing))
  <2>1. Undoing \in SUBSET Threads BY DEF Undoing, PopsFor, AtPc
  <2> QED BY <2>1, Recount
<1>4. Cardinality(Fated) \in Nat /\ (t \in Fated => 1 <= Cardinality(Fated))
  <2>1. Fated \in SUBSET Threads BY DEF Fated, PopsFor, AtPc
  <2> QED BY <2>1, Recount
<1>5. Cardinality(MayBlock) \in Nat /\ (t \in MayBlock => 1 <= Cardinality(MayBlock))
  <2>1. MayBlock \in SUBSET Threads BY DEF MayBlock, PopsFor, AtPc
  <2> QED BY <2>1, Recount
<1>6. Cardinality(MayBatch) \in Nat /\ (t \in MayBatch => 1 <= Cardinality(MayBatch))
  <2>1. MayBatch \in SUBSET Threads BY DEF MayBatch, PopsFor, AtPc
  <2> QED BY <2>1, Recount
<1>7. Cardinality(MayNumber) \in Nat /\ (t \in MayNumber => 1 <= Cardinality(MayNumber))
  <2>1. MayNumber \in SUBSET Threads BY DEF MayNumber, PopsFor, AtPc
  <2> QED BY <2>1, Recount
<1>8. Cardinality(MayFill) \in Nat /\ (t \in MayFill => 1 <= Cardinality(MayFill))
  <2>1. MayFill \in SUBSET Threads BY DEF MayFill, PopsFor, AtPc
  <2> QED BY <2>1, Recount
<1>9. Cardinality(Calling) \in Nat /\ (t \in Calling => 1 <= Cardinality(Calling))
  <2>1. Calling \in SUBSET Threads BY DEF Calling, PopsFor, AtPc
  <2> QED BY <2>1, Recount
<1> QED BY <1>1, <1>2, <1>3, <1>4, <1>5, <1>6, <1>7, <1>8, <1>9

----------------------------------------------------------------------------
(* What a step does to the stacks.                                          *)

\* The blocks that threads hold are no others'.
LEMMA Holders ==
  ASSUME IInv, NEW t \in Threads
  PROVE  /\ thread[t].pc \in {"renew", "take", "emptyRead", "emptyPush", "fill", "read", "push"} =>
               /\ Held(t) = {thread[t].block}
               /\ thread[t].block \in 1 .. blocks /\ thread[t].block \in Blocks
               /\ thread[t].block \notin Full /\ thread[t].block \notin Empty
         /\ thread[t].pc \notin {"renew", "take", "emptyRead", "emptyPush", "fill", "read", "push"} =>
               Held(t) = {}
<1>1. thread[t].pc \in {"renew", "take", "emptyRead", "emptyPush", "fill", "read", "push"} =>
        Held(t) = {thread[t].block}
  BY DEF Held, AtPc
<1>2. thread[t].pc \notin {"renew", "take", "emptyRead", "emptyPush", "fill", "read", "push"} =>
        Held(t) = {}
  BY DEF Held, AtPc
<1>3. Held(t) \subseteq 1 .. blocks /\ Held(t) \cap (Full \cup Empty) = {}
  BY DEF IInv, InOnePlace
<1>4. 1 .. blocks \subseteq Blocks
  <2>1. blocks + Cardinality(MayBlock) <= InitBlocks + calls BY DEF IInv, Limits
  <2>2. Cardinality(MayBlock) \in Nat BY Counts
  <2>3. calls <= MaxCalls /\ calls \in Nat /\ InitBlocks \in Nat /\ MaxCalls \in Nat /\ blocks \in Nat
    BY Types DEF IInv
  <2>4. blocks <= InitBlocks + MaxCalls BY <2>1, <2>2, <2>3
  <2> QED BY <2>3, <2>4 DEF Blocks
<1> QED BY <1>1, <1>2, <1>3, <1>4

\* What a step may do: nothing, or take the top of a stack, or push a block.
Quiet == Stacks' /\ Full' = Full /\ Empty' = Empty /\ FullKeys' = FullKeys /\ EmptyKeys' = EmptyKeys
FullPops ==
    /\ Stacks' /\ Empty' = Empty /\ EmptyKeys' = EmptyKeys
    /\ FullKeys' \subseteq FullKeys /\ topBlock \notin FullKeys'
    /\ MAKE_NODEPTR(topBlock) \in Full /\ Full' = Full \ {MAKE_NODEPTR(topBlock)}
EmptyPops ==
    /\ Stacks' /\ Full' = Full /\ FullKeys' = FullKeys
    /\ EmptyKeys' \subseteq EmptyKeys /\ chunkBlockPoolTop \notin EmptyKeys'
    /\ MAKE_NODEPTR(chunkBlockPoolTop) \in Empty
    /\ Empty' = Empty \ {MAKE_NODEPTR(chunkBlockPoolTop)}
FullPushes(t) ==
    /\ Stacks' /\ Empty' = Empty /\ EmptyKeys' = EmptyKeys
    /\ FullKeys' = FullKeys \cup {thread[t].key} /\ Full' = Full \cup {thread[t].block}
EmptyPushes(t) ==
    /\ Stacks' /\ Full' = Full /\ FullKeys' = FullKeys
    /\ EmptyKeys' = EmptyKeys \cup {thread[t].key} /\ Empty' = Empty \cup {thread[t].block}

LEMMA QuietStacks ==
  ASSUME Stacks, UNCHANGED <<topBlock, chunkBlockPoolTop, nextChunkBlock>>
  PROVE  Quiet
BY DEF Quiet, Stacks, Full, Empty, FullKeys, EmptyKeys

LEMMA LinkedStacks ==
  ASSUME IInv, NEW t \in Threads, thread[t].pc \in {"emptyRead", "read"}, NEW k,
         nextChunkBlock' = [nextChunkBlock EXCEPT ![thread[t].block] = k],
         UNCHANGED <<topBlock, chunkBlockPoolTop>>
  PROVE  Quiet
<1> DEFINE b == thread[t].block
           next == nextChunkBlock'
<1>1. b \in Blocks /\ b \notin Full /\ b \notin Empty BY Holders
<1>2. \A c \in Blocks : c # b => next[c] = nextChunkBlock[c] BY Types DEF IInv
<1>3. Stacked(nextChunkBlock, topBlock) /\ Stacked(nextChunkBlock, chunkBlockPoolTop)
  BY DEF IInv, Stacks
<1>4. /\ Stacked(next, topBlock)
      /\ KeysBy(next, topBlock) = FullKeys /\ StackBy(next, topBlock) = Full
  <2> HIDE DEF b, next
  <2> QED BY <1>1, <1>2, <1>3, Relinked DEF FullKeys, Full
<1>5. /\ Stacked(next, chunkBlockPoolTop)
      /\ KeysBy(next, chunkBlockPoolTop) = EmptyKeys /\ StackBy(next, chunkBlockPoolTop) = Empty
  <2> HIDE DEF b, next
  <2> QED BY <1>1, <1>2, <1>3, Relinked DEF EmptyKeys, Empty
<1> QED BY <1>4, <1>5 DEF Quiet, Stacks, Full, Empty, FullKeys, EmptyKeys

LEMMA FullPopped ==
  ASSUME IInv, NEW t \in Threads, thread[t].pc = "pop", topBlock = thread[t].tempTop,
         topBlock' = thread[t].nextTop, UNCHANGED <<chunkBlockPoolTop, nextChunkBlock>>
  PROVE  FullPops
<1>1. Stacked(nextChunkBlock, topBlock) /\ Stacked(nextChunkBlock, chunkBlockPoolTop)
  BY DEF IInv, Stacks
<1>2. topBlock # Null BY DEF IInv, Locals, LocalsOf
<1>3. topBlock \in FullKeys BY <1>1, <1>2, StackFacts DEF FullKeys
<1>4. thread[t].nextTop = nextChunkBlock[MAKE_NODEPTR(topBlock)]
  BY <1>3 DEF IInv, LinksRead, AtPc
<1> DEFINE rest == nextChunkBlock[MAKE_NODEPTR(topBlock)]
<1>5. /\ Stacked(nextChunkBlock, rest)
      /\ KeysBy(nextChunkBlock, rest) \subseteq KeysBy(nextChunkBlock, topBlock)
      /\ topBlock \notin KeysBy(nextChunkBlock, rest)
      /\ MAKE_NODEPTR(topBlock) \in StackBy(nextChunkBlock, topBlock)
      /\ StackBy(nextChunkBlock, rest) = StackBy(nextChunkBlock, topBlock) \ {MAKE_NODEPTR(topBlock)}
  BY <1>1, <1>2, Popped
<1>6. topBlock' = rest BY <1>4
<1> HIDE DEF rest
<1> QED BY <1>1, <1>5, <1>6 DEF FullPops, Stacks, Full, Empty, FullKeys, EmptyKeys

LEMMA EmptyPopped ==
  ASSUME IInv, NEW t \in Threads, thread[t].pc = "emptyPop", chunkBlockPoolTop = thread[t].tempTop,
         chunkBlockPoolTop' = thread[t].nextTop, UNCHANGED <<topBlock, nextChunkBlock>>
  PROVE  EmptyPops
<1>1. Stacked(nextChunkBlock, topBlock) /\ Stacked(nextChunkBlock, chunkBlockPoolTop)
  BY DEF IInv, Stacks
<1> DEFINE top == chunkBlockPoolTop
<1>2. top # Null BY DEF IInv, Locals, LocalsOf
<1>3. top \in EmptyKeys BY <1>1, <1>2, StackFacts DEF EmptyKeys
<1>4. thread[t].nextTop = nextChunkBlock[MAKE_NODEPTR(top)]
  BY <1>3 DEF IInv, LinksRead, AtPc
<1> DEFINE rest == nextChunkBlock[MAKE_NODEPTR(top)]
<1>5. /\ Stacked(nextChunkBlock, rest)
      /\ KeysBy(nextChunkBlock, rest) \subseteq KeysBy(nextChunkBlock, top)
      /\ top \notin KeysBy(nextChunkBlock, rest)
      /\ MAKE_NODEPTR(top) \in StackBy(nextChunkBlock, top)
      /\ StackBy(nextChunkBlock, rest) = StackBy(nextChunkBlock, top) \ {MAKE_NODEPTR(top)}
  BY <1>1, <1>2, Popped
<1>6. chunkBlockPoolTop' = rest BY <1>4
<1> HIDE DEF rest
<1> QED BY <1>1, <1>5, <1>6 DEF EmptyPops, Stacks, Full, Empty, FullKeys, EmptyKeys

LEMMA FullPushed ==
  ASSUME IInv, NEW t \in Threads, thread[t].pc = "push", topBlock = thread[t].tempTop,
         topBlock' = thread[t].key, UNCHANGED <<chunkBlockPoolTop, nextChunkBlock>>
  PROVE  FullPushes(t)
<1>1. Stacked(nextChunkBlock, topBlock) /\ Stacked(nextChunkBlock, chunkBlockPoolTop)
  BY DEF IInv, Stacks
<1> DEFINE key == thread[t].key
           b == thread[t].block
<1>2. b \in Blocks /\ b \notin Full BY Holders
<1>3. MAKE_NODEPTR(key) = b /\ nextChunkBlock[b] = topBlock BY DEF IInv, Locals, LocalsOf
<1>4. key \in Key
  <2>1. key \in KeyType BY Types DEF IInv, ThreadType
  <2>2. MAKE_NODEPTR(Null) = 0 BY DEF MAKE_NODEPTR, Null
  <2>3. key # Null BY <1>2, <1>3, <2>2, NumberOfBlocks
  <2> QED BY <2>1, <2>3, KeyTypes
<1> HIDE DEF key, b
<1>5. /\ Stacked(nextChunkBlock, key)
      /\ KeysBy(nextChunkBlock, key) = KeysBy(nextChunkBlock, topBlock) \cup {key}
      /\ StackBy(nextChunkBlock, key) = StackBy(nextChunkBlock, topBlock) \cup {MAKE_NODEPTR(key)}
  BY <1>1, <1>2, <1>3, <1>4, Pushed DEF Full
<1>6. topBlock' = key BY DEF key
<1> QED BY <1>1, <1>3, <1>5, <1>6
  DEF FullPushes, Stacks, Full, Empty, FullKeys, EmptyKeys, key, b

LEMMA EmptyPushed ==
  ASSUME IInv, NEW t \in Threads, thread[t].pc = "emptyPush", chunkBlockPoolTop = thread[t].tempTop,
         chunkBlockPoolTop' = thread[t].key, UNCHANGED <<topBlock, nextChunkBlock>>
  PROVE  EmptyPushes(t)
<1>1. Stacked(nextChunkBlock, topBlock) /\ Stacked(nextChunkBlock, chunkBlockPoolTop)
  BY DEF IInv, Stacks
<1> DEFINE key == thread[t].key
           b == thread[t].block
           top == chunkBlockPoolTop
<1>2. b \in Blocks /\ b \notin Empty BY Holders
<1>3. MAKE_NODEPTR(key) = b /\ nextChunkBlock[b] = top BY DEF IInv, Locals, LocalsOf
<1>4. key \in Key
  <2>1. key \in KeyType BY Types DEF IInv, ThreadType
  <2>2. MAKE_NODEPTR(Null) = 0 BY DEF MAKE_NODEPTR, Null
  <2>3. key # Null BY <1>2, <1>3, <2>2, NumberOfBlocks
  <2> QED BY <2>1, <2>3, KeyTypes
<1> HIDE DEF key, b
<1>5. /\ Stacked(nextChunkBlock, key)
      /\ KeysBy(nextChunkBlock, key) = KeysBy(nextChunkBlock, top) \cup {key}
      /\ StackBy(nextChunkBlock, key) = StackBy(nextChunkBlock, top) \cup {MAKE_NODEPTR(key)}
  BY <1>1, <1>2, <1>3, <1>4, Pushed DEF Empty
<1>6. chunkBlockPoolTop' = key BY DEF key
<1> QED BY <1>1, <1>3, <1>5, <1>6
  DEF EmptyPushes, Stacks, Full, Empty, FullKeys, EmptyKeys, key, b

----------------------------------------------------------------------------
(* What a step does to its thread.                                          *)

\* The calls that have begun leave room for what they may still make.
LEMMA Room ==
  ASSUME IInv, NEW t \in Threads
  PROVE  /\ t \in MayBlock => blocks + 1 \in Blocks
         /\ t \in MayBatch => batches + 1 \in Batches
         /\ t \in MayNumber => chunkBlockPoolUniqeCounter + 1 <= InitBlocks + MaxCalls
         /\ t \in MayFill => uniqueCount + 1 <= InitBlocks + MaxCalls
<1>1. /\ blocks \in Nat /\ batches \in Nat /\ chunkBlockPoolUniqeCounter \in Nat /\ uniqueCount \in Nat
      /\ calls \in Nat /\ calls <= MaxCalls /\ InitBlocks \in Nat /\ MaxCalls \in Nat
  BY Types DEF IInv
<1>2. /\ blocks + Cardinality(MayBlock) <= InitBlocks + calls
      /\ batches + Cardinality(MayBatch) <= InitBlocks + calls
      /\ chunkBlockPoolUniqeCounter + Cardinality(MayNumber) <= calls
      /\ uniqueCount + Cardinality(MayFill) <= InitBlocks + calls
  BY DEF IInv, Limits
<1>3. t \in MayBlock => blocks + 1 <= InitBlocks + MaxCalls
  <2>1. t \in MayBlock => Cardinality(MayBlock) \in Nat /\ 1 <= Cardinality(MayBlock)
    BY Counts
  <2> QED BY <1>1, <1>2, <2>1
<1>4. t \in MayBatch => batches + 1 <= InitBlocks + MaxCalls
  <2>1. t \in MayBatch => Cardinality(MayBatch) \in Nat /\ 1 <= Cardinality(MayBatch)
    BY Counts
  <2> QED BY <1>1, <1>2, <2>1
<1>5. t \in MayNumber => chunkBlockPoolUniqeCounter + 1 <= InitBlocks + MaxCalls
  <2>1. t \in MayNumber => Cardinality(MayNumber) \in Nat /\ 1 <= Cardinality(MayNumber)
    BY Counts
  <2> QED BY <1>1, <1>2, <2>1
<1>6. t \in MayFill => uniqueCount + 1 <= InitBlocks + MaxCalls
  <2>1. t \in MayFill => Cardinality(MayFill) \in Nat /\ 1 <= Cardinality(MayFill) BY Counts
  <2> QED BY <1>1, <1>2, <2>1
<1> QED BY <1>1, <1>3, <1>4, <1>5, <1>6 DEF Blocks, Batches

LEMMA IdleType == Idle \in ThreadType
<1>1. Null \in KeyType BY KeyTypes
<1> QED BY <1>1 DEF Idle, ThreadType, Pcs, NoBatch

\* The record of t after its step.
Becomes(t, pc, ret, use, max, block, key, tempTop, nextTop, batch) ==
    /\ thread' \in [Threads -> ThreadType] /\ Only(t)
    /\ thread'[t].pc = pc /\ thread'[t].ret = ret /\ thread'[t].use = use /\ thread'[t].max = max
    /\ thread'[t].block = block /\ thread'[t].key = key /\ thread'[t].batch = batch
    /\ thread'[t].tempTop = tempTop /\ thread'[t].nextTop = nextTop

LEMMA AllocChunkMoves ==
  ASSUME IInv, NEW t \in Threads, AllocChunk(t)
  PROVE  /\ Becomes(t, "test", thread[t].ret, useBlockCount + 1, maxBlockCount,
                    thread[t].block, thread[t].key, thread[t].tempTop, thread[t].nextTop,
                    thread[t].batch)
         /\ Quiet
<1>1. thread \in [Threads -> ThreadType] /\ thread[t] \in ThreadType BY Types DEF IInv
<1>2. thread[t].pc = "idle" BY DEF AllocChunk
<1>3. Only(t) BY <1>1 DEF AllocChunk, Only
<1>4. Null \in KeyType /\ topBlock \in KeyType /\ chunkBlockPoolTop \in KeyType
      /\ useBlockCount \in Nat /\ maxBlockCount \in Nat /\ chunkBlockPoolSize \in Int
      /\ nextChunkBlock \in [Blocks -> KeyType] /\ headNodePtr \in [Blocks -> Batches \cup {NoBatch}]
      /\ out \subseteq Batches
  BY KeyTypes, Types DEF IInv
<1> DEFINE u == useBlockCount + 1
<1>5. u = useBlockCount' BY DEF AllocChunk
<1>6. u \in Nat BY <1>4
<1> HIDE DEF u
<1>7. thread' = [thread EXCEPT ![t] = [thread[t] EXCEPT !.pc = "test", !.use = u, !.max = maxBlockCount]]
  BY <1>1, <1>5 DEF AllocChunk
<1>8. [thread[t] EXCEPT !.pc = "test", !.use = u, !.max = maxBlockCount] \in ThreadType
  BY <1>1, <1>4, <1>6, IdleType DEF ThreadType, Pcs, NoBatch
<1>9. Quiet BY QuietStacks DEF IInv, AllocChunk
<1> QED BY <1>1, <1>3, <1>7, <1>8, <1>9 DEF Becomes, ThreadType, Idle, u

LEMMA FreeChunkMoves ==
  ASSUME IInv, NEW t \in Threads, FreeChunk(t)
  PROVE  Quiet /\ \E b \in out : /\ out' = out \ {b}
                              /\ Becomes(t, "claim", "fill", thread[t].use, thread[t].max,
                                          thread[t].block, thread[t].key, thread[t].tempTop,
                                          thread[t].nextTop, b)
<1>1. thread \in [Threads -> ThreadType] /\ thread[t] \in ThreadType BY Types DEF IInv
<1>2. thread[t].pc = "idle" BY DEF FreeChunk
<1>3. Only(t) BY <1>1 DEF FreeChunk, Only
<1>4. Null \in KeyType /\ topBlock \in KeyType /\ chunkBlockPoolTop \in KeyType
      /\ useBlockCount \in Nat /\ maxBlockCount \in Nat /\ chunkBlockPoolSize \in Int
      /\ nextChunkBlock \in [Blocks -> KeyType] /\ headNodePtr \in [Blocks -> Batches \cup {NoBatch}]
      /\ out \subseteq Batches
  BY KeyTypes, Types DEF IInv
<1>5. PICK b \in out : out' = out \ {b} /\ thread' = [thread EXCEPT ![t] = [thread[t] EXCEPT !.pc = "claim", !.ret = "fill", !.batch = b]]
  BY <1>1 DEF FreeChunk
<1>6. thread'[t] = [thread[t] EXCEPT !.pc = "claim", !.ret = "fill", !.batch = b] /\ thread' = [thread EXCEPT ![t] = [thread[t] EXCEPT !.pc = "claim", !.ret = "fill", !.batch = b]]
  BY <1>1, <1>5
<1>7. [thread[t] EXCEPT !.pc = "claim", !.ret = "fill", !.batch = b] \in ThreadType
  BY <1>1, <1>4 DEF ThreadType, Pcs
<1>8. Quiet BY QuietStacks DEF IInv, FreeChunk
<1> QED BY <1>3, <1>1, <1>5, <1>6, <1>7, <1>8 DEF Becomes, ThreadType, Idle

LEMMA TestCountMoves ==
  ASSUME IInv, NEW t \in Threads, TestCount(t)
  PROVE  /\ thread[t].use >= maxBlockCount =>
                /\ Becomes(t, "claim", "renew", 0, 0, thread[t].block, thread[t].key,
                           thread[t].tempTop, thread[t].nextTop, thread[t].batch)
                /\ Quiet
         /\ thread[t].use < maxBlockCount =>
                /\ Becomes(t, "top", thread[t].ret, 0, 0, thread[t].block, thread[t].key,
                           thread[t].tempTop, thread[t].nextTop, thread[t].batch)
                /\ Quiet
<1>1. thread \in [Threads -> ThreadType] /\ thread[t] \in ThreadType BY Types DEF IInv
<1>2. thread[t].pc = "test" BY DEF TestCount
<1>3. Only(t) BY <1>1 DEF TestCount, Only
<1>4. Null \in KeyType /\ topBlock \in KeyType /\ chunkBlockPoolTop \in KeyType
      /\ useBlockCount \in Nat /\ maxBlockCount \in Nat /\ chunkBlockPoolSize \in Int
      /\ nextChunkBlock \in [Blocks -> KeyType] /\ headNodePtr \in [Blocks -> Batches \cup {NoBatch}]
      /\ out \subseteq Batches
  BY KeyTypes, Types DEF IInv
<1>5. ASSUME thread[t].use >= maxBlockCount
      PROVE  /\ Becomes(t, "claim", "renew", 0, 0, thread[t].block, thread[t].key,
                        thread[t].tempTop, thread[t].nextTop, thread[t].batch)
             /\ Quiet
  <2>1. thread' = [thread EXCEPT ![t] = [thread[t] EXCEPT !.use = 0, !.max = 0, !.pc = "claim", !.ret = "renew"]]
    <3>1. thread[t].use \in Nat BY <1>1 DEF ThreadType
    <3>2. thread[t].use >= maxBlockCount BY <1>4, <1>5, <3>1 DEF TestCount
    <3> QED BY <1>1, <3>2 DEF TestCount
  <2>2. [thread[t] EXCEPT !.use = 0, !.max = 0, !.pc = "claim", !.ret = "renew"] \in ThreadType
    BY <1>1, <1>2, <1>4, IdleType DEF ThreadType, Pcs, NoBatch
  <2>3. Quiet BY <1>5, QuietStacks DEF IInv, TestCount
  <2> QED BY <1>1, <1>3, <2>1, <2>2, <2>3 DEF Becomes, ThreadType, Idle
<1>6. ASSUME thread[t].use < maxBlockCount
      PROVE  /\ Becomes(t, "top", thread[t].ret, 0, 0, thread[t].block, thread[t].key,
                        thread[t].tempTop, thread[t].nextTop, thread[t].batch)
             /\ Quiet
  <2>1. thread' = [thread EXCEPT ![t] = [thread[t] EXCEPT !.use = 0, !.max = 0, !.pc = "top"]]
    <3>1. thread[t].use \in Nat BY <1>1 DEF ThreadType
    <3>2. ~(thread[t].use >= maxBlockCount) BY <1>4, <1>6, <3>1 DEF TestCount
    <3> QED BY <1>1, <3>2 DEF TestCount
  <2>2. [thread[t] EXCEPT !.use = 0, !.max = 0, !.pc = "top"] \in ThreadType
    BY <1>1, <1>2, <1>4, IdleType DEF ThreadType, Pcs, NoBatch
  <2>3. Quiet BY <1>6, QuietStacks DEF IInv, TestCount
  <2> QED BY <1>1, <1>3, <2>1, <2>2, <2>3 DEF Becomes, ThreadType, Idle
<1> QED BY <1>5, <1>6

LEMMA ReadTopMoves ==
  ASSUME IInv, NEW t \in Threads, ReadTop(t)
  PROVE  /\ Becomes(t, "next", thread[t].ret, thread[t].use, thread[t].max, thread[t].block,
                    thread[t].key, topBlock, thread[t].nextTop, thread[t].batch)
         /\ Quiet
<1>1. thread \in [Threads -> ThreadType] /\ thread[t] \in ThreadType BY Types DEF IInv
<1>2. thread[t].pc = "top" BY DEF ReadTop
<1>3. Only(t) BY <1>1 DEF ReadTop, Only
<1>4. Null \in KeyType /\ topBlock \in KeyType /\ chunkBlockPoolTop \in KeyType
      /\ useBlockCount \in Nat /\ maxBlockCount \in Nat /\ chunkBlockPoolSize \in Int
      /\ nextChunkBlock \in [Blocks -> KeyType] /\ headNodePtr \in [Blocks -> Batches \cup {NoBatch}]
      /\ out \subseteq Batches
  BY KeyTypes, Types DEF IInv
<1>5. thread' = [thread EXCEPT ![t] = [thread[t] EXCEPT !.pc = "next", !.tempTop = topBlock]]
  BY <1>1, <1>4 DEF ReadTop
<1>6. [thread[t] EXCEPT !.pc = "next", !.tempTop = topBlock] \in ThreadType
  BY <1>1, <1>2, <1>4, IdleType DEF ThreadType, Pcs, NoBatch
<1>7. Quiet BY QuietStacks DEF IInv, ReadTop
<1> QED BY <1>1, <1>3, <1>5, <1>6, <1>7 DEF Becomes, ThreadType, Idle

LEMMA ReadNextMoves ==
  ASSUME IInv, NEW t \in Threads, ReadNext(t)
  PROVE  /\ Becomes(t, "pop", thread[t].ret, thread[t].use, thread[t].max, thread[t].block,
                    thread[t].key, thread[t].tempTop,
                    nextChunkBlock[MAKE_NODEPTR(thread[t].tempTop)], thread[t].batch)
         /\ Quiet
<1>1. thread \in [Threads -> ThreadType] /\ thread[t] \in ThreadType BY Types DEF IInv
<1>2. thread[t].pc = "next" /\ thread[t].tempTop # Null BY DEF ReadNext
<1>3. Only(t) BY <1>1 DEF ReadNext, Only
<1>4. Null \in KeyType /\ topBlock \in KeyType /\ chunkBlockPoolTop \in KeyType
      /\ useBlockCount \in Nat /\ maxBlockCount \in Nat /\ chunkBlockPoolSize \in Int
      /\ nextChunkBlock \in [Blocks -> KeyType] /\ headNodePtr \in [Blocks -> Batches \cup {NoBatch}]
      /\ out \subseteq Batches
  BY KeyTypes, Types DEF IInv
<1>5. MAKE_NODEPTR(thread[t].tempTop) \in Blocks
  BY <1>1, <1>2, KeyTypes DEF ReadNext, ThreadType
<1>6. thread' = [thread EXCEPT ![t] = [thread[t] EXCEPT !.pc = "pop", !.nextTop = nextChunkBlock[MAKE_NODEPTR(thread[t].tempTop)]]]
  BY <1>1, <1>4 DEF ReadNext
<1>7. [thread[t] EXCEPT !.pc = "pop", !.nextTop = nextChunkBlock[MAKE_NODEPTR(thread[t].tempTop)]] \in ThreadType
  BY <1>1, <1>2, <1>4, <1>5, IdleType DEF ThreadType, Pcs, NoBatch
<1>8. Quiet BY QuietStacks DEF IInv, ReadNext
<1> QED BY <1>1, <1>3, <1>6, <1>7, <1>8 DEF Becomes, ThreadType, Idle

LEMMA ReadNullMoves ==
  ASSUME IInv, NEW t \in Threads, ReadNull(t)
  PROVE  /\ Becomes(t, "crashed", thread[t].ret, thread[t].use, thread[t].max,
                    thread[t].block, thread[t].key, thread[t].tempTop, thread[t].nextTop,
                    thread[t].batch)
         /\ Quiet
<1>1. thread \in [Threads -> ThreadType] /\ thread[t] \in ThreadType BY Types DEF IInv
<1>2. thread[t].pc = "next" BY DEF ReadNull
<1>3. Only(t) BY <1>1 DEF ReadNull, Only
<1>4. Null \in KeyType /\ topBlock \in KeyType /\ chunkBlockPoolTop \in KeyType
      /\ useBlockCount \in Nat /\ maxBlockCount \in Nat /\ chunkBlockPoolSize \in Int
      /\ nextChunkBlock \in [Blocks -> KeyType] /\ headNodePtr \in [Blocks -> Batches \cup {NoBatch}]
      /\ out \subseteq Batches
  BY KeyTypes, Types DEF IInv
<1>5. thread' = [thread EXCEPT ![t] = [thread[t] EXCEPT !.pc = "crashed"]]
  BY <1>1, <1>4 DEF ReadNull
<1>6. [thread[t] EXCEPT !.pc = "crashed"] \in ThreadType
  BY <1>1, <1>2, <1>4, IdleType DEF ThreadType, Pcs, NoBatch
<1>7. Quiet BY QuietStacks DEF IInv, ReadNull
<1> QED BY <1>1, <1>3, <1>5, <1>6, <1>7 DEF Becomes, ThreadType, Idle

LEMMA PopBlockMoves ==
  ASSUME IInv, NEW t \in Threads, PopBlock(t)
  PROVE  /\ topBlock = thread[t].tempTop =>
                /\ Becomes(t, "take", "idle", 0, 0, MAKE_NODEPTR(thread[t].tempTop), Null,
                           Null, Null, NoBatch)
                /\ FullPops
         /\ topBlock # thread[t].tempTop =>
                /\ Becomes(t, "top", thread[t].ret, thread[t].use, thread[t].max,
                           thread[t].block, thread[t].key, Null, Null, thread[t].batch)
                /\ Quiet
<1>1. thread \in [Threads -> ThreadType] /\ thread[t] \in ThreadType BY Types DEF IInv
<1>2. thread[t].pc = "pop" BY DEF PopBlock
<1>3. Only(t) BY <1>1 DEF PopBlock, Only
<1>4. Null \in KeyType /\ topBlock \in KeyType /\ chunkBlockPoolTop \in KeyType
      /\ useBlockCount \in Nat /\ maxBlockCount \in Nat /\ chunkBlockPoolSize \in Int
      /\ nextChunkBlock \in [Blocks -> KeyType] /\ headNodePtr \in [Blocks -> Batches \cup {NoBatch}]
      /\ out \subseteq Batches
  BY KeyTypes, Types DEF IInv
<1>5. MAKE_NODEPTR(thread[t].tempTop) \in Blocks
  <2>1. thread[t].tempTop # Null BY DEF IInv, Locals, LocalsOf, PopBlock
  <2> QED BY <1>1, <2>1, KeyTypes DEF ThreadType
<1>6. ASSUME topBlock = thread[t].tempTop
      PROVE  /\ Becomes(t, "take", "idle", 0, 0, MAKE_NODEPTR(thread[t].tempTop), Null, Null,
                        Null, NoBatch)
             /\ FullPops
  <2>1. thread' = [thread EXCEPT ![t] = [Idle EXCEPT !.pc = "take", !.block = MAKE_NODEPTR(thread[t].tempTop)]]
    BY <1>1, <1>4, <1>6 DEF PopBlock
  <2>2. [Idle EXCEPT !.pc = "take", !.block = MAKE_NODEPTR(thread[t].tempTop)] \in ThreadType
    BY <1>1, <1>2, <1>4, <1>5, IdleType DEF ThreadType, Pcs, NoBatch
  <2>3. FullPops BY <1>2, <1>6, FullPopped DEF PopBlock
  <2> QED BY <1>1, <1>3, <2>1, <2>2, <2>3 DEF Becomes, ThreadType, Idle
<1>7. ASSUME topBlock # thread[t].tempTop
      PROVE  /\ Becomes(t, "top", thread[t].ret, thread[t].use, thread[t].max,
                        thread[t].block, thread[t].key, Null, Null, thread[t].batch)
             /\ Quiet
  <2>1. thread' = [thread EXCEPT ![t] = [thread[t] EXCEPT !.pc = "top", !.tempTop = Null, !.nextTop = Null]]
    BY <1>1, <1>4, <1>7 DEF PopBlock
  <2>2. [thread[t] EXCEPT !.pc = "top", !.tempTop = Null, !.nextTop = Null] \in ThreadType
    BY <1>1, <1>2, <1>4, <1>5, IdleType DEF ThreadType, Pcs, NoBatch
  <2>3. Quiet BY <1>7, QuietStacks DEF IInv, PopBlock
  <2> QED BY <1>1, <1>3, <2>1, <2>2, <2>3 DEF Becomes, ThreadType, Idle
<1> QED BY <1>6, <1>7

LEMMA NewChunkBlockMoves ==
  ASSUME IInv, NEW t \in Threads, NewChunkBlock(t)
  PROVE  /\ Becomes(t, "take", thread[t].ret, thread[t].use, thread[t].max, thread[t].block,
                    thread[t].key, thread[t].tempTop, thread[t].nextTop, thread[t].batch)
         /\ Quiet
<1>1. thread \in [Threads -> ThreadType] /\ thread[t] \in ThreadType BY Types DEF IInv
<1>2. thread[t].pc = "renew" BY DEF NewChunkBlock
<1>3. Only(t) BY <1>1 DEF NewChunkBlock, Only
<1>4. Null \in KeyType /\ topBlock \in KeyType /\ chunkBlockPoolTop \in KeyType
      /\ useBlockCount \in Nat /\ maxBlockCount \in Nat /\ chunkBlockPoolSize \in Int
      /\ nextChunkBlock \in [Blocks -> KeyType] /\ headNodePtr \in [Blocks -> Batches \cup {NoBatch}]
      /\ out \subseteq Batches
  BY KeyTypes, Types DEF IInv
<1>5. thread' = [thread EXCEPT ![t] = [thread[t] EXCEPT !.pc = "take"]]
  BY <1>1, <1>4 DEF NewChunkBlock
<1>6. [thread[t] EXCEPT !.pc = "take"] \in ThreadType
  BY <1>1, <1>2, <1>4, IdleType DEF ThreadType, Pcs, NoBatch
<1>7. Quiet BY QuietStacks DEF IInv, NewChunkBlock
<1> QED BY <1>1, <1>3, <1>5, <1>6, <1>7 DEF Becomes, ThreadType, Idle

LEMMA TakeNodesMoves ==
  ASSUME IInv, NEW t \in Threads, TakeNodes(t)
  PROVE  /\ Becomes(t, "emptyRead", thread[t].ret, thread[t].use, thread[t].max,
                    thread[t].block,
                    MAKE_KEY(thread[t].block, chunkBlockPoolUniqeCounter + 1),
                    thread[t].tempTop, thread[t].nextTop, headNodePtr[thread[t].block])
         /\ Quiet
<1>1. thread \in [Threads -> ThreadType] /\ thread[t] \in ThreadType BY Types DEF IInv
<1>2. thread[t].pc = "take" BY DEF TakeNodes
<1>3. Only(t) BY <1>1 DEF TakeNodes, Only
<1>4. Null \in KeyType /\ topBlock \in KeyType /\ chunkBlockPoolTop \in KeyType
      /\ useBlockCount \in Nat /\ maxBlockCount \in Nat /\ chunkBlockPoolSize \in Int
      /\ nextChunkBlock \in [Blocks -> KeyType] /\ headNodePtr \in [Blocks -> Batches \cup {NoBatch}]
      /\ out \subseteq Batches
  BY KeyTypes, Types DEF IInv
<1>5. thread[t].block \in Blocks BY Holders DEF TakeNodes
<1>6. MAKE_KEY(thread[t].block, chunkBlockPoolUniqeCounter + 1) \in KeyType
  <2>1. chunkBlockPoolUniqeCounter + 1 <= InitBlocks + MaxCalls
    BY Room DEF MayNumber, AtPc, TakeNodes
  <2>2. chunkBlockPoolUniqeCounter + 1 \in Nat BY Types DEF IInv
  <2> QED BY <1>5, <2>1, <2>2, KeyMade
<1>7. thread' = [thread EXCEPT ![t] = [thread[t] EXCEPT !.pc = "emptyRead", !.batch = headNodePtr[thread[t].block],
                           !.key = MAKE_KEY(thread[t].block, chunkBlockPoolUniqeCounter + 1)]]
                             BY <1>1, <1>4 DEF TakeNodes
<1>8. [thread[t] EXCEPT !.pc = "emptyRead", !.batch = headNodePtr[thread[t].block],
                           !.key = MAKE_KEY(thread[t].block, chunkBlockPoolUniqeCounter + 1)] \in ThreadType
                             BY <1>1, <1>2, <1>4, <1>5, <1>6, IdleType
                               DEF ThreadType, Pcs, NoBatch
<1>9. Quiet BY QuietStacks DEF IInv, TakeNodes
<1> QED BY <1>1, <1>3, <1>7, <1>8, <1>9 DEF Becomes, ThreadType, Idle

LEMMA EmptyReadMoves ==
  ASSUME IInv, NEW t \in Threads, EmptyRead(t)
  PROVE  /\ Becomes(t, "emptyPush", thread[t].ret, thread[t].use, thread[t].max,
                    thread[t].block, thread[t].key, chunkBlockPoolTop, thread[t].nextTop,
                    thread[t].batch)
         /\ Quiet
<1>1. thread \in [Threads -> ThreadType] /\ thread[t] \in ThreadType BY Types DEF IInv
<1>2. thread[t].pc = "emptyRead" BY DEF EmptyRead
<1>3. Only(t) BY <1>1 DEF EmptyRead, Only
<1>4. Null \in KeyType /\ topBlock \in KeyType /\ chunkBlockPoolTop \in KeyType
      /\ useBlockCount \in Nat /\ maxBlockCount \in Nat /\ chunkBlockPoolSize \in Int
      /\ nextChunkBlock \in [Blocks -> KeyType] /\ headNodePtr \in [Blocks -> Batches \cup {NoBatch}]
      /\ out \subseteq Batches
  BY KeyTypes, Types DEF IInv
<1>5. thread' = [thread EXCEPT ![t] = [thread[t] EXCEPT !.pc = "emptyPush", !.tempTop = chunkBlockPoolTop]]
  BY <1>1, <1>4 DEF EmptyRead
<1>6. [thread[t] EXCEPT !.pc = "emptyPush", !.tempTop = chunkBlockPoolTop] \in ThreadType
  BY <1>1, <1>2, <1>4, IdleType DEF ThreadType, Pcs, NoBatch
<1>7. Quiet BY <1>2, LinkedStacks DEF EmptyRead
<1> QED BY <1>1, <1>3, <1>5, <1>6, <1>7 DEF Becomes, ThreadType, Idle

LEMMA EmptyPushMoves ==
  ASSUME IInv, NEW t \in Threads, EmptyPush(t)
  PROVE  /\ chunkBlockPoolTop = thread[t].tempTop =>
                /\ Becomes(t, "emptyCount", thread[t].ret, thread[t].use, thread[t].max,
                           thread[t].block, thread[t].key, thread[t].tempTop,
                           thread[t].nextTop, thread[t].batch)
                /\ EmptyPushes(t)
         /\ chunkBlockPoolTop # thread[t].tempTop =>
                /\ Becomes(t, "emptyRead", thread[t].ret, thread[t].use, thread[t].max,
                           thread[t].block, thread[t].key, Null, Null, thread[t].batch)
                /\ Quiet
<1>1. thread \in [Threads -> ThreadType] /\ thread[t] \in ThreadType BY Types DEF IInv
<1>2. thread[t].pc = "emptyPush" BY DEF EmptyPush
<1>3. Only(t) BY <1>1 DEF EmptyPush, Only
<1>4. Null \in KeyType /\ topBlock \in KeyType /\ chunkBlockPoolTop \in KeyType
      /\ useBlockCount \in Nat /\ maxBlockCount \in Nat /\ chunkBlockPoolSize \in Int
      /\ nextChunkBlock \in [Blocks -> KeyType] /\ headNodePtr \in [Blocks -> Batches \cup {NoBatch}]
      /\ out \subseteq Batches
  BY KeyTypes, Types DEF IInv
<1>5. ASSUME chunkBlockPoolTop = thread[t].tempTop
      PROVE  /\ Becomes(t, "emptyCount", thread[t].ret, thread[t].use, thread[t].max,
                        thread[t].block, thread[t].key, thread[t].tempTop, thread[t].nextTop,
                        thread[t].batch)
             /\ EmptyPushes(t)
  <2>1. thread' = [thread EXCEPT ![t] = [thread[t] EXCEPT !.pc = "emptyCount"]]
    BY <1>1, <1>4, <1>5 DEF EmptyPush
  <2>2. [thread[t] EXCEPT !.pc = "emptyCount"] \in ThreadType
    BY <1>1, <1>2, <1>4, IdleType DEF ThreadType, Pcs, NoBatch
  <2>3. EmptyPushes(t) BY <1>2, <1>5, EmptyPushed DEF EmptyPush
  <2> QED BY <1>1, <1>3, <2>1, <2>2, <2>3 DEF Becomes, ThreadType, Idle
<1>6. ASSUME chunkBlockPoolTop # thread[t].tempTop
      PROVE  /\ Becomes(t, "emptyRead", thread[t].ret, thread[t].use, thread[t].max,
                        thread[t].block, thread[t].key, Null, Null, thread[t].batch)
             /\ Quiet
  <2>1. thread' = [thread EXCEPT ![t] = [thread[t] EXCEPT !.pc = "emptyRead", !.tempTop = Null, !.nextTop = Null]]
    BY <1>1, <1>4, <1>6 DEF EmptyPush
  <2>2. [thread[t] EXCEPT !.pc = "emptyRead", !.tempTop = Null, !.nextTop = Null] \in ThreadType
    BY <1>1, <1>2, <1>4, IdleType DEF ThreadType, Pcs, NoBatch
  <2>3. Quiet BY <1>6, QuietStacks DEF IInv, EmptyPush
  <2> QED BY <1>1, <1>3, <2>1, <2>2, <2>3 DEF Becomes, ThreadType, Idle
<1> QED BY <1>5, <1>6

LEMMA EmptyCountMoves ==
  ASSUME IInv, NEW t \in Threads, EmptyCount(t)
  PROVE  /\ Becomes(t, "idle", "idle", 0, 0, 0, Null, Null, Null, NoBatch)
         /\ Quiet
<1>1. thread \in [Threads -> ThreadType] /\ thread[t] \in ThreadType BY Types DEF IInv
<1>2. thread[t].pc = "emptyCount" BY DEF EmptyCount
<1>3. Only(t) BY <1>1 DEF EmptyCount, Only
<1>4. Null \in KeyType /\ topBlock \in KeyType /\ chunkBlockPoolTop \in KeyType
      /\ useBlockCount \in Nat /\ maxBlockCount \in Nat /\ chunkBlockPoolSize \in Int
      /\ nextChunkBlock \in [Blocks -> KeyType] /\ headNodePtr \in [Blocks -> Batches \cup {NoBatch}]
      /\ out \subseteq Batches
  BY KeyTypes, Types DEF IInv
<1>5. thread' = [thread EXCEPT ![t] = Idle] BY <1>1, <1>4 DEF EmptyCount
<1>6. Idle \in ThreadType BY <1>1, <1>2, <1>4, IdleType DEF ThreadType, Pcs, NoBatch
<1>7. Quiet BY QuietStacks DEF IInv, EmptyCount
<1> QED BY <1>1, <1>3, <1>5, <1>6, <1>7 DEF Becomes, ThreadType, Idle

LEMMA ClaimMoves ==
  ASSUME IInv, NEW t \in Threads, Claim(t)
  PROVE  /\ chunkBlockPoolSize - 1 < 0 =>
                /\ Becomes(t, "undo", thread[t].ret, thread[t].use, thread[t].max,
                           thread[t].block, thread[t].key, thread[t].tempTop,
                           thread[t].nextTop, thread[t].batch)
                /\ Quiet
         /\ chunkBlockPoolSize - 1 >= 0 =>
                /\ Becomes(t, "emptyTop", thread[t].ret, thread[t].use, thread[t].max,
                           thread[t].block, thread[t].key, thread[t].tempTop,
                           thread[t].nextTop, thread[t].batch)
                /\ Quiet
<1>1. thread \in [Threads -> ThreadType] /\ thread[t] \in ThreadType BY Types DEF IInv
<1>2. thread[t].pc = "claim" BY DEF Claim
<1>3. Only(t) BY <1>1 DEF Claim, Only
<1>4. Null \in KeyType /\ topBlock \in KeyType /\ chunkBlockPoolTop \in KeyType
      /\ useBlockCount \in Nat /\ maxBlockCount \in Nat /\ chunkBlockPoolSize \in Int
      /\ nextChunkBlock \in [Blocks -> KeyType] /\ headNodePtr \in [Blocks -> Batches \cup {NoBatch}]
      /\ out \subseteq Batches
  BY KeyTypes, Types DEF IInv
<1>5. ASSUME chunkBlockPoolSize - 1 < 0
      PROVE  /\ Becomes(t, "undo", thread[t].ret, thread[t].use, thread[t].max,
                        thread[t].block, thread[t].key, thread[t].tempTop, thread[t].nextTop,
                        thread[t].batch)
             /\ Quiet
  <2>1. thread' = [thread EXCEPT ![t] = [thread[t] EXCEPT !.pc = "undo"]]
    <3>1. thread[t].use \in Nat BY <1>1 DEF ThreadType
    <3>2. chunkBlockPoolSize' < 0 BY <1>4, <1>5, <3>1 DEF Claim
    <3> QED BY <1>1, <3>2 DEF Claim
  <2>2. [thread[t] EXCEPT !.pc = "undo"] \in ThreadType
    BY <1>1, <1>2, <1>4, IdleType DEF ThreadType, Pcs, NoBatch
  <2>3. Quiet BY <1>5, QuietStacks DEF IInv, Claim
  <2> QED BY <1>1, <1>3, <2>1, <2>2, <2>3 DEF Becomes, ThreadType, Idle
<1>6. ASSUME chunkBlockPoolSize - 1 >= 0
      PROVE  /\ Becomes(t, "emptyTop", thread[t].ret, thread[t].use, thread[t].max,
                        thread[t].block, thread[t].key, thread[t].tempTop, thread[t].nextTop,
                        thread[t].batch)
             /\ Quiet
  <2>1. thread' = [thread EXCEPT ![t] = [thread[t] EXCEPT !.pc = "emptyTop"]]
    <3>1. thread[t].use \in Nat BY <1>1 DEF ThreadType
    <3>2. ~(chunkBlockPoolSize' < 0) BY <1>4, <1>6, <3>1 DEF Claim
    <3> QED BY <1>1, <3>2 DEF Claim
  <2>2. [thread[t] EXCEPT !.pc = "emptyTop"] \in ThreadType
    BY <1>1, <1>2, <1>4, IdleType DEF ThreadType, Pcs, NoBatch
  <2>3. Quiet BY <1>6, QuietStacks DEF IInv, Claim
  <2> QED BY <1>1, <1>3, <2>1, <2>2, <2>3 DEF Becomes, ThreadType, Idle
<1> QED BY <1>5, <1>6

LEMMA NewBlockMoves ==
  ASSUME IInv, NEW t \in Threads, NewBlock(t)
  PROVE  /\ Becomes(t, thread[t].ret, "idle", 0, 0, blocks + 1, Null, Null, Null,
                    thread[t].batch)
         /\ Quiet
<1>1. thread \in [Threads -> ThreadType] /\ thread[t] \in ThreadType BY Types DEF IInv
<1>2. thread[t].pc = "undo" BY DEF NewBlock
<1>3. Only(t) BY <1>1 DEF NewBlock, Only
<1>4. Null \in KeyType /\ topBlock \in KeyType /\ chunkBlockPoolTop \in KeyType
      /\ useBlockCount \in Nat /\ maxBlockCount \in Nat /\ chunkBlockPoolSize \in Int
      /\ nextChunkBlock \in [Blocks -> KeyType] /\ headNodePtr \in [Blocks -> Batches \cup {NoBatch}]
      /\ out \subseteq Batches
  BY KeyTypes, Types DEF IInv
<1>5. blocks + 1 \in Blocks BY Room DEF MayBlock, AtPc, NewBlock
<1>6. thread' = [thread EXCEPT ![t] = [Idle EXCEPT !.pc = thread[t].ret, !.batch = thread[t].batch,
                       !.block = blocks + 1]] BY <1>1, <1>4 DEF NewBlock
<1>7. [Idle EXCEPT !.pc = thread[t].ret, !.batch = thread[t].batch,
                       !.block = blocks + 1] \in ThreadType
                         BY <1>1, <1>2, <1>4, <1>5, IdleType DEF ThreadType, Pcs, NoBatch
<1>8. Quiet BY QuietStacks DEF IInv, NewBlock
<1> QED BY <1>1, <1>3, <1>6, <1>7, <1>8 DEF Becomes, ThreadType, Idle

LEMMA EmptyTopMoves ==
  ASSUME IInv, NEW t \in Threads, EmptyTop(t)
  PROVE  /\ Becomes(t, "emptyNext", thread[t].ret, thread[t].use, thread[t].max,
                    thread[t].block, thread[t].key, chunkBlockPoolTop, thread[t].nextTop,
                    thread[t].batch)
         /\ Quiet
<1>1. thread \in [Threads -> ThreadType] /\ thread[t] \in ThreadType BY Types DEF IInv
<1>2. thread[t].pc = "emptyTop" BY DEF EmptyTop
<1>3. Only(t) BY <1>1 DEF EmptyTop, Only
<1>4. Null \in KeyType /\ topBlock \in KeyType /\ chunkBlockPoolTop \in KeyType
      /\ useBlockCount \in Nat /\ maxBlockCount \in Nat /\ chunkBlockPoolSize \in Int
      /\ nextChunkBlock \in [Blocks -> KeyType] /\ headNodePtr \in [Blocks -> Batches \cup {NoBatch}]
      /\ out \subseteq Batches
  BY KeyTypes, Types DEF IInv
<1>5. thread' = [thread EXCEPT ![t] = [thread[t] EXCEPT !.pc = "emptyNext", !.tempTop = chunkBlockPoolTop]]
  BY <1>1, <1>4 DEF EmptyTop
<1>6. [thread[t] EXCEPT !.pc = "emptyNext", !.tempTop = chunkBlockPoolTop] \in ThreadType
  BY <1>1, <1>2, <1>4, IdleType DEF ThreadType, Pcs, NoBatch
<1>7. Quiet BY QuietStacks DEF IInv, EmptyTop
<1> QED BY <1>1, <1>3, <1>5, <1>6, <1>7 DEF Becomes, ThreadType, Idle

LEMMA EmptyNextMoves ==
  ASSUME IInv, NEW t \in Threads, EmptyNext(t)
  PROVE  /\ Becomes(t, "emptyPop", thread[t].ret, thread[t].use, thread[t].max,
                    thread[t].block, thread[t].key, thread[t].tempTop,
                    nextChunkBlock[MAKE_NODEPTR(thread[t].tempTop)], thread[t].batch)
         /\ Quiet
<1>1. thread \in [Threads -> ThreadType] /\ thread[t] \in ThreadType BY Types DEF IInv
<1>2. thread[t].pc = "emptyNext" BY DEF EmptyNext
<1>3. Only(t) BY <1>1 DEF EmptyNext, Only
<1>4. Null \in KeyType /\ topBlock \in KeyType /\ chunkBlockPoolTop \in KeyType
      /\ useBlockCount \in Nat /\ maxBlockCount \in Nat /\ chunkBlockPoolSize \in Int
      /\ nextChunkBlock \in [Blocks -> KeyType] /\ headNodePtr \in [Blocks -> Batches \cup {NoBatch}]
      /\ out \subseteq Batches
  BY KeyTypes, Types DEF IInv
<1>5. MAKE_NODEPTR(thread[t].tempTop) \in Blocks
  <2>1. thread[t].tempTop # Null BY DEF IInv, Locals, LocalsOf, EmptyNext
  <2> QED BY <1>1, <2>1, KeyTypes DEF ThreadType
<1>6. thread' = [thread EXCEPT ![t] = [thread[t] EXCEPT !.pc = "emptyPop", !.nextTop = nextChunkBlock[MAKE_NODEPTR(thread[t].tempTop)]]]
  BY <1>1, <1>4 DEF EmptyNext
<1>7. [thread[t] EXCEPT !.pc = "emptyPop", !.nextTop = nextChunkBlock[MAKE_NODEPTR(thread[t].tempTop)]] \in ThreadType
  BY <1>1, <1>2, <1>4, <1>5, IdleType DEF ThreadType, Pcs, NoBatch
<1>8. Quiet BY QuietStacks DEF IInv, EmptyNext
<1> QED BY <1>1, <1>3, <1>6, <1>7, <1>8 DEF Becomes, ThreadType, Idle

LEMMA EmptyPopMoves ==
  ASSUME IInv, NEW t \in Threads, EmptyPop(t)
  PROVE  /\ chunkBlockPoolTop = thread[t].tempTop =>
                /\ Becomes(t, thread[t].ret, "idle", 0, 0, MAKE_NODEPTR(thread[t].tempTop),
                           Null, Null, Null, thread[t].batch)
                /\ EmptyPops
         /\ chunkBlockPoolTop # thread[t].tempTop =>
                /\ Becomes(t, "emptyTop", thread[t].ret, thread[t].use, thread[t].max,
                           thread[t].block, thread[t].key, Null, Null, thread[t].batch)
                /\ Quiet
<1>1. thread \in [Threads -> ThreadType] /\ thread[t] \in ThreadType BY Types DEF IInv
<1>2. thread[t].pc = "emptyPop" BY DEF EmptyPop
<1>3. Only(t) BY <1>1 DEF EmptyPop, Only
<1>4. Null \in KeyType /\ topBlock \in KeyType /\ chunkBlockPoolTop \in KeyType
      /\ useBlockCount \in Nat /\ maxBlockCount \in Nat /\ chunkBlockPoolSize \in Int
      /\ nextChunkBlock \in [Blocks -> KeyType] /\ headNodePtr \in [Blocks -> Batches \cup {NoBatch}]
      /\ out \subseteq Batches
  BY KeyTypes, Types DEF IInv
<1>5. MAKE_NODEPTR(thread[t].tempTop) \in Blocks
  <2>1. thread[t].tempTop # Null BY DEF IInv, Locals, LocalsOf, EmptyPop
  <2> QED BY <1>1, <2>1, KeyTypes DEF ThreadType
<1>6. ASSUME chunkBlockPoolTop = thread[t].tempTop
      PROVE  /\ Becomes(t, thread[t].ret, "idle", 0, 0, MAKE_NODEPTR(thread[t].tempTop),
                        Null, Null, Null, thread[t].batch)
             /\ EmptyPops
  <2>1. thread' = [thread EXCEPT ![t] = [Idle EXCEPT !.pc = thread[t].ret, !.batch = thread[t].batch,
                       !.block = MAKE_NODEPTR(thread[t].tempTop)]]
                         BY <1>1, <1>4, <1>6 DEF EmptyPop
  <2>2. [Idle EXCEPT !.pc = thread[t].ret, !.batch = thread[t].batch,
                       !.block = MAKE_NODEPTR(thread[t].tempTop)] \in ThreadType
                         BY <1>1, <1>2, <1>4, <1>5, IdleType DEF ThreadType, Pcs, NoBatch
  <2>3. EmptyPops BY <1>2, <1>6, EmptyPopped DEF EmptyPop
  <2> QED BY <1>1, <1>3, <2>1, <2>2, <2>3 DEF Becomes, ThreadType, Idle
<1>7. ASSUME chunkBlockPoolTop # thread[t].tempTop
      PROVE  /\ Becomes(t, "emptyTop", thread[t].ret, thread[t].use, thread[t].max,
                        thread[t].block, thread[t].key, Null, Null, thread[t].batch)
             /\ Quiet
  <2>1. thread' = [thread EXCEPT ![t] = [thread[t] EXCEPT !.pc = "emptyTop", !.tempTop = Null, !.nextTop = Null]]
    BY <1>1, <1>4, <1>7 DEF EmptyPop
  <2>2. [thread[t] EXCEPT !.pc = "emptyTop", !.tempTop = Null, !.nextTop = Null] \in ThreadType
    BY <1>1, <1>2, <1>4, <1>5, IdleType DEF ThreadType, Pcs, NoBatch
  <2>3. Quiet BY <1>7, QuietStacks DEF IInv, EmptyPop
  <2> QED BY <1>1, <1>3, <2>1, <2>2, <2>3 DEF Becomes, ThreadType, Idle
<1> QED BY <1>6, <1>7

LEMMA FillMoves ==
  ASSUME IInv, NEW t \in Threads, Fill(t)
  PROVE  /\ Becomes(t, "read", thread[t].ret, thread[t].use, thread[t].max, thread[t].block,
                    MAKE_KEY(thread[t].block, uniqueCount + 1), thread[t].tempTop,
                    thread[t].nextTop, NoBatch)
         /\ Quiet
<1>1. thread \in [Threads -> ThreadType] /\ thread[t] \in ThreadType BY Types DEF IInv
<1>2. thread[t].pc = "fill" BY DEF Fill
<1>3. Only(t) BY <1>1 DEF Fill, Only
<1>4. Null \in KeyType /\ topBlock \in KeyType /\ chunkBlockPoolTop \in KeyType
      /\ useBlockCount \in Nat /\ maxBlockCount \in Nat /\ chunkBlockPoolSize \in Int
      /\ nextChunkBlock \in [Blocks -> KeyType] /\ headNodePtr \in [Blocks -> Batches \cup {NoBatch}]
      /\ out \subseteq Batches
  BY KeyTypes, Types DEF IInv
<1>5. thread[t].block \in Blocks BY Holders DEF Fill
<1>6. MAKE_KEY(thread[t].block, uniqueCount + 1) \in KeyType
  <2>1. uniqueCount + 1 <= InitBlocks + MaxCalls BY Room DEF MayFill, AtPc, Fill
  <2>2. uniqueCount + 1 \in Nat BY Types DEF IInv
  <2> QED BY <1>5, <2>1, <2>2, KeyMade
<1>7. thread' = [thread EXCEPT ![t] = [thread[t] EXCEPT !.pc = "read", !.batch = NoBatch, !.key = MAKE_KEY(thread[t].block, uniqueCount + 1)]]
  BY <1>1, <1>4 DEF Fill
<1>8. [thread[t] EXCEPT !.pc = "read", !.batch = NoBatch, !.key = MAKE_KEY(thread[t].block, uniqueCount + 1)] \in ThreadType
  BY <1>1, <1>2, <1>4, <1>5, <1>6, IdleType DEF ThreadType, Pcs, NoBatch
<1>9. Quiet BY QuietStacks DEF IInv, Fill
<1> QED BY <1>1, <1>3, <1>7, <1>8, <1>9 DEF Becomes, ThreadType, Idle

LEMMA PushReadMoves ==
  ASSUME IInv, NEW t \in Threads, PushRead(t)
  PROVE  /\ Becomes(t, "push", thread[t].ret, thread[t].use, thread[t].max, thread[t].block,
                    thread[t].key, topBlock, thread[t].nextTop, thread[t].batch)
         /\ Quiet
<1>1. thread \in [Threads -> ThreadType] /\ thread[t] \in ThreadType BY Types DEF IInv
<1>2. thread[t].pc = "read" BY DEF PushRead
<1>3. Only(t) BY <1>1 DEF PushRead, Only
<1>4. Null \in KeyType /\ topBlock \in KeyType /\ chunkBlockPoolTop \in KeyType
      /\ useBlockCount \in Nat /\ maxBlockCount \in Nat /\ chunkBlockPoolSize \in Int
      /\ nextChunkBlock \in [Blocks -> KeyType] /\ headNodePtr \in [Blocks -> Batches \cup {NoBatch}]
      /\ out \subseteq Batches
  BY KeyTypes, Types DEF IInv
<1>5. thread' = [thread EXCEPT ![t] = [thread[t] EXCEPT !.pc = "push", !.tempTop = topBlock]]
  BY <1>1, <1>4 DEF PushRead
<1>6. [thread[t] EXCEPT !.pc = "push", !.tempTop = topBlock] \in ThreadType
  BY <1>1, <1>2, <1>4, IdleType DEF ThreadType, Pcs, NoBatch
<1>7. Quiet BY <1>2, LinkedStacks DEF PushRead
<1> QED BY <1>1, <1>3, <1>5, <1>6, <1>7 DEF Becomes, ThreadType, Idle

LEMMA PushBlockMoves ==
  ASSUME IInv, NEW t \in Threads, PushBlock(t)
  PROVE  /\ topBlock = thread[t].tempTop =>
                /\ Becomes(t, "count", thread[t].ret, thread[t].use, thread[t].max,
                           thread[t].block, thread[t].key, thread[t].tempTop,
                           thread[t].nextTop, thread[t].batch)
                /\ FullPushes(t)
         /\ topBlock # thread[t].tempTop =>
                /\ Becomes(t, "read", thread[t].ret, thread[t].use, thread[t].max,
                           thread[t].block, thread[t].key, Null, Null, thread[t].batch)
                /\ Quiet
<1>1. thread \in [Threads -> ThreadType] /\ thread[t] \in ThreadType BY Types DEF IInv
<1>2. thread[t].pc = "push" BY DEF PushBlock
<1>3. Only(t) BY <1>1 DEF PushBlock, Only
<1>4. Null \in KeyType /\ topBlock \in KeyType /\ chunkBlockPoolTop \in KeyType
      /\ useBlockCount \in Nat /\ maxBlockCount \in Nat /\ chunkBlockPoolSize \in Int
      /\ nextChunkBlock \in [Blocks -> KeyType] /\ headNodePtr \in [Blocks -> Batches \cup {NoBatch}]
      /\ out \subseteq Batches
  BY KeyTypes, Types DEF IInv
<1>5. ASSUME topBlock = thread[t].tempTop
      PROVE  /\ Becomes(t, "count", thread[t].ret, thread[t].use, thread[t].max,
                        thread[t].block, thread[t].key, thread[t].tempTop, thread[t].nextTop,
                        thread[t].batch)
             /\ FullPushes(t)
  <2>1. thread' = [thread EXCEPT ![t] = [thread[t] EXCEPT !.pc = "count"]]
    BY <1>1, <1>4, <1>5 DEF PushBlock
  <2>2. [thread[t] EXCEPT !.pc = "count"] \in ThreadType
    BY <1>1, <1>2, <1>4, IdleType DEF ThreadType, Pcs, NoBatch
  <2>3. FullPushes(t) BY <1>2, <1>5, FullPushed DEF PushBlock
  <2> QED BY <1>1, <1>3, <2>1, <2>2, <2>3 DEF Becomes, ThreadType, Idle
<1>6. ASSUME topBlock # thread[t].tempTop
      PROVE  /\ Becomes(t, "read", thread[t].ret, thread[t].use, thread[t].max,
                        thread[t].block, thread[t].key, Null, Null, thread[t].batch)
             /\ Quiet
  <2>1. thread' = [thread EXCEPT ![t] = [thread[t] EXCEPT !.pc = "read", !.tempTop = Null, !.nextTop = Null]]
    BY <1>1, <1>4, <1>6 DEF PushBlock
  <2>2. [thread[t] EXCEPT !.pc = "read", !.tempTop = Null, !.nextTop = Null] \in ThreadType
    BY <1>1, <1>2, <1>4, IdleType DEF ThreadType, Pcs, NoBatch
  <2>3. Quiet BY <1>6, QuietStacks DEF IInv, PushBlock
  <2> QED BY <1>1, <1>3, <2>1, <2>2, <2>3 DEF Becomes, ThreadType, Idle
<1> QED BY <1>5, <1>6

LEMMA PushCountMoves ==
  ASSUME IInv, NEW t \in Threads, PushCount(t)
  PROVE  /\ Becomes(t, "idle", "idle", 0, 0, 0, Null, Null, Null, NoBatch)
         /\ Quiet
<1>1. thread \in [Threads -> ThreadType] /\ thread[t] \in ThreadType BY Types DEF IInv
<1>2. thread[t].pc = "count" BY DEF PushCount
<1>3. Only(t) BY <1>1 DEF PushCount, Only
<1>4. Null \in KeyType /\ topBlock \in KeyType /\ chunkBlockPoolTop \in KeyType
      /\ useBlockCount \in Nat /\ maxBlockCount \in Nat /\ chunkBlockPoolSize \in Int
      /\ nextChunkBlock \in [Blocks -> KeyType] /\ headNodePtr \in [Blocks -> Batches \cup {NoBatch}]
      /\ out \subseteq Batches
  BY KeyTypes, Types DEF IInv
<1>5. thread' = [thread EXCEPT ![t] = Idle] BY <1>1, <1>4 DEF PushCount
<1>6. Idle \in ThreadType BY <1>1, <1>2, <1>4, IdleType DEF ThreadType, Pcs, NoBatch
<1>7. Quiet BY QuietStacks DEF IInv, PushCount
<1> QED BY <1>1, <1>3, <1>5, <1>6, <1>7 DEF Becomes, ThreadType, Idle

----------------------------------------------------------------------------
(* Every step keeps the invariant.                                          *)

LEMMA OutFinite == ASSUME IInv PROVE IsFiniteSet(out) /\ Cardinality(out) \in Nat
<1>1. out \subseteq Blocks BY Types DEF IInv, Batches
<1> QED BY <1>1, NumberOfBlocks, FS_Subset, FS_CardinalityType

LEMMA TypeStep ==
  ASSUME IInv, [Next]_vars
  PROVE  TypeOK'
<1>t. /\ thread \in [Threads -> ThreadType]
      /\ nextChunkBlock \in [Blocks -> KeyType]
      /\ headNodePtr \in [Blocks -> Batches \cup {NoBatch}] /\ curSize \in [Blocks -> {0, 1}]
      /\ topBlock \in KeyType /\ chunkBlockPoolTop \in KeyType
      /\ useBlockCount \in Nat /\ maxBlockCount \in Nat /\ uniqueCount \in Nat
      /\ chunkBlockPoolUniqeCounter \in Nat /\ chunkBlockPoolSize \in Int
      /\ out \subseteq Batches /\ blocks \in Nat /\ batches \in Nat
      /\ calls \in Nat /\ calls <= MaxCalls /\ InitBlocks \in Nat /\ MaxCalls \in Nat
      /\ countGrew \in BOOLEAN
  BY Types DEF IInv
<1>s. UNCHANGED vars => TypeOK' BY DEF IInv, TypeOK
<1>1. ASSUME NEW t \in Threads, AllocChunk(t) PROVE TypeOK'
  <2>1. thread' \in [Threads -> ThreadType] BY <1>1, AllocChunkMoves DEF Becomes
  <2> QED BY <1>1, <1>t, <2>1 DEF AllocChunk, TypeOK, ThreadType
<1>2. ASSUME NEW t \in Threads, FreeChunk(t) PROVE TypeOK'
  <2>1. PICK b \in out : out' = out \ {b} /\ Becomes(t, "claim", "fill", thread[t].use, thread[t].max,
                                    thread[t].block, thread[t].key, thread[t].tempTop,
                                    thread[t].nextTop, b)
    BY <1>2, FreeChunkMoves
  <2>2. Quiet BY <1>2, FreeChunkMoves
  <2>3. thread' \in [Threads -> ThreadType] BY <2>1, <1>t DEF Becomes
  <2> QED BY <1>2, <1>t, <2>3, <2>1 DEF FreeChunk, TypeOK, ThreadType
<1>3. ASSUME NEW t \in Threads, TestCount(t) PROVE TypeOK'
  <2>1. CASE thread[t].use >= maxBlockCount
    <3>1. thread' \in [Threads -> ThreadType] BY <1>3, <2>1, TestCountMoves DEF Becomes
    <3> QED BY <1>3, <2>1, <1>t, <3>1 DEF TestCount, TypeOK, ThreadType
  <2>2. CASE thread[t].use < maxBlockCount
    <3>1. thread' \in [Threads -> ThreadType] BY <1>3, <2>2, TestCountMoves DEF Becomes
    <3> QED BY <1>3, <2>2, <1>t, <3>1 DEF TestCount, TypeOK, ThreadType
  <2>3. thread[t].use \in Nat /\ maxBlockCount \in Nat BY Types DEF IInv, ThreadType
  <2> QED BY <2>1, <2>2, <2>3
<1>4. ASSUME NEW t \in Threads, ReadTop(t) PROVE TypeOK'
  <2>1. thread' \in [Threads -> ThreadType] BY <1>4, ReadTopMoves DEF Becomes
  <2> QED BY <1>4, <1>t, <2>1 DEF ReadTop, TypeOK, ThreadType
<1>5. ASSUME NEW t \in Threads, ReadNext(t) PROVE TypeOK'
  <2>1. thread' \in [Threads -> ThreadType] BY <1>5, ReadNextMoves DEF Becomes
  <2> QED BY <1>5, <1>t, <2>1 DEF ReadNext, TypeOK, ThreadType
<1>6. ASSUME NEW t \in Threads, ReadNull(t) PROVE TypeOK'
  <2>1. thread' \in [Threads -> ThreadType] BY <1>6, ReadNullMoves DEF Becomes
  <2> QED BY <1>6, <1>t, <2>1 DEF ReadNull, TypeOK, ThreadType
<1>7. ASSUME NEW t \in Threads, PopBlock(t) PROVE TypeOK'
  <2>1. CASE topBlock = thread[t].tempTop
    <3>1. thread' \in [Threads -> ThreadType] BY <1>7, <2>1, PopBlockMoves DEF Becomes
    <3> QED BY <1>7, <2>1, <1>t, <3>1 DEF PopBlock, TypeOK, ThreadType
  <2>2. CASE topBlock # thread[t].tempTop
    <3>1. thread' \in [Threads -> ThreadType] BY <1>7, <2>2, PopBlockMoves DEF Becomes
    <3> QED BY <1>7, <2>2, <1>t, <3>1 DEF PopBlock, TypeOK, ThreadType
  <2> QED BY <2>1, <2>2
<1>8. ASSUME NEW t \in Threads, NewChunkBlock(t) PROVE TypeOK'
  <2>1. thread' \in [Threads -> ThreadType] BY <1>8, NewChunkBlockMoves DEF Becomes
  <2>2. thread[t].block \in Blocks BY <1>8, Holders DEF NewChunkBlock
  <2>3. batches + 1 \in Batches BY <1>8, Room DEF MayBatch, AtPc, NewChunkBlock
  <2>4. curSize[thread[t].block] \in {0, 1} BY <1>t, <2>2
  <2>5. batches' \in Nat /\ (curSize[thread[t].block] = 0 => batches' \in Batches)
    BY <1>8, <1>t, <2>3, <2>4 DEF NewChunkBlock
  <2>6. headNodePtr' \in [Blocks -> Batches \cup {NoBatch}] /\ curSize' \in [Blocks -> {0, 1}]
    BY <1>8, <1>t, <2>5, <2>4 DEF NewChunkBlock
  <2>7. UNCHANGED <<topBlock, useBlockCount, uniqueCount, emptyVars, nextChunkBlock, blocks, out, calls, countGrew>> /\ maxBlockCount' = maxBlockCount + 1
    BY <1>8 DEF NewChunkBlock
  <2> QED BY <1>t, <2>1, <2>6, <2>7, <2>5 DEF TypeOK, ThreadType
<1>9. ASSUME NEW t \in Threads, TakeNodes(t) PROVE TypeOK'
  <2>1. thread' \in [Threads -> ThreadType] BY <1>9, TakeNodesMoves DEF Becomes
  <2>2. curSize' \in [Blocks -> {0, 1}]
    BY <1>9, <1>t DEF TakeNodes
  <2>3. UNCHANGED <<mainVars, chunkBlockPoolTop, chunkBlockPoolSize, nextChunkBlock, headNodePtr, bookVars>> /\ chunkBlockPoolUniqeCounter' = chunkBlockPoolUniqeCounter + 1
    BY <1>9 DEF TakeNodes
  <2> QED BY <1>t, <2>1, <2>2, <2>3 DEF TypeOK, ThreadType
<1>10. ASSUME NEW t \in Threads, EmptyRead(t) PROVE TypeOK'
  <2>1. thread' \in [Threads -> ThreadType] BY <1>10, EmptyReadMoves DEF Becomes
  <2>2. nextChunkBlock' \in [Blocks -> KeyType]
    BY <1>10, <1>t DEF EmptyRead
  <2>3. UNCHANGED <<mainVars, emptyVars, headNodePtr, curSize, bookVars>>
    BY <1>10 DEF EmptyRead
  <2> QED BY <1>t, <2>1, <2>2, <2>3 DEF TypeOK, ThreadType
<1>11. ASSUME NEW t \in Threads, EmptyPush(t) PROVE TypeOK'
  <2>1. CASE chunkBlockPoolTop = thread[t].tempTop
    <3>1. thread' \in [Threads -> ThreadType] BY <1>11, <2>1, EmptyPushMoves DEF Becomes
    <3> QED BY <1>11, <2>1, <1>t, <3>1 DEF EmptyPush, TypeOK, ThreadType
  <2>2. CASE chunkBlockPoolTop # thread[t].tempTop
    <3>1. thread' \in [Threads -> ThreadType] BY <1>11, <2>2, EmptyPushMoves DEF Becomes
    <3> QED BY <1>11, <2>2, <1>t, <3>1 DEF EmptyPush, TypeOK, ThreadType
  <2> QED BY <2>1, <2>2
<1>12. ASSUME NEW t \in Threads, EmptyCount(t) PROVE TypeOK'
  <2>1. thread' \in [Threads -> ThreadType] BY <1>12, EmptyCountMoves DEF Becomes
  <2>2. thread[t].batch \in Batches
    <3>1. t \in HasBatch BY <1>12 DEF HasBatch, AtPc, EmptyCount
    <3>2. thread[t].batch # NoBatch BY <3>1 DEF IInv, Locals, LocalsOf
    <3> QED BY <3>2, <1>t DEF ThreadType
  <2> QED BY <1>12, <1>t, <2>1, <2>2 DEF EmptyCount, TypeOK, ThreadType
<1>13. ASSUME NEW t \in Threads, Claim(t) PROVE TypeOK'
  <2>1. CASE chunkBlockPoolSize - 1 < 0
    <3>1. thread' \in [Threads -> ThreadType] BY <1>13, <2>1, ClaimMoves DEF Becomes
    <3> QED BY <1>13, <2>1, <1>t, <3>1 DEF Claim, TypeOK, ThreadType
  <2>2. CASE chunkBlockPoolSize - 1 >= 0
    <3>1. thread' \in [Threads -> ThreadType] BY <1>13, <2>2, ClaimMoves DEF Becomes
    <3> QED BY <1>13, <2>2, <1>t, <3>1 DEF Claim, TypeOK, ThreadType
  <2>3. chunkBlockPoolSize \in Int BY Types DEF IInv
  <2> QED BY <2>1, <2>2, <2>3
<1>14. ASSUME NEW t \in Threads, NewBlock(t) PROVE TypeOK'
  <2>1. thread' \in [Threads -> ThreadType] BY <1>14, NewBlockMoves DEF Becomes
  <2> QED BY <1>14, <1>t, <2>1 DEF NewBlock, TypeOK, ThreadType
<1>15. ASSUME NEW t \in Threads, EmptyTop(t) PROVE TypeOK'
  <2>1. thread' \in [Threads -> ThreadType] BY <1>15, EmptyTopMoves DEF Becomes
  <2> QED BY <1>15, <1>t, <2>1 DEF EmptyTop, TypeOK, ThreadType
<1>16. ASSUME NEW t \in Threads, EmptyNext(t) PROVE TypeOK'
  <2>1. thread' \in [Threads -> ThreadType] BY <1>16, EmptyNextMoves DEF Becomes
  <2> QED BY <1>16, <1>t, <2>1 DEF EmptyNext, TypeOK, ThreadType
<1>17. ASSUME NEW t \in Threads, EmptyPop(t) PROVE TypeOK'
  <2>1. CASE chunkBlockPoolTop = thread[t].tempTop
    <3>1. thread' \in [Threads -> ThreadType] BY <1>17, <2>1, EmptyPopMoves DEF Becomes
    <3> QED BY <1>17, <2>1, <1>t, <3>1 DEF EmptyPop, TypeOK, ThreadType
  <2>2. CASE chunkBlockPoolTop # thread[t].tempTop
    <3>1. thread' \in [Threads -> ThreadType] BY <1>17, <2>2, EmptyPopMoves DEF Becomes
    <3> QED BY <1>17, <2>2, <1>t, <3>1 DEF EmptyPop, TypeOK, ThreadType
  <2> QED BY <2>1, <2>2
<1>18. ASSUME NEW t \in Threads, Fill(t) PROVE TypeOK'
  <2>1. thread' \in [Threads -> ThreadType] BY <1>18, FillMoves DEF Becomes
  <2>2. thread[t].batch \in Batches \cup {NoBatch} BY <1>t DEF ThreadType
  <2>3. headNodePtr' \in [Blocks -> Batches \cup {NoBatch}] /\ curSize' \in [Blocks -> {0, 1}]
    BY <1>18, <1>t, <2>2 DEF Fill
  <2>4. UNCHANGED <<topBlock, useBlockCount, maxBlockCount, emptyVars, nextChunkBlock, bookVars>> /\ uniqueCount' = uniqueCount + 1
    BY <1>18 DEF Fill
  <2> QED BY <1>t, <2>1, <2>3, <2>4 DEF TypeOK, ThreadType
<1>19. ASSUME NEW t \in Threads, PushRead(t) PROVE TypeOK'
  <2>1. thread' \in [Threads -> ThreadType] BY <1>19, PushReadMoves DEF Becomes
  <2>2. nextChunkBlock' \in [Blocks -> KeyType]
    BY <1>19, <1>t DEF PushRead
  <2>3. UNCHANGED <<mainVars, emptyVars, headNodePtr, curSize, bookVars>>
    BY <1>19 DEF PushRead
  <2> QED BY <1>t, <2>1, <2>2, <2>3 DEF TypeOK, ThreadType
<1>20. ASSUME NEW t \in Threads, PushBlock(t) PROVE TypeOK'
  <2>1. CASE topBlock = thread[t].tempTop
    <3>1. thread' \in [Threads -> ThreadType] BY <1>20, <2>1, PushBlockMoves DEF Becomes
    <3> QED BY <1>20, <2>1, <1>t, <3>1 DEF PushBlock, TypeOK, ThreadType
  <2>2. CASE topBlock # thread[t].tempTop
    <3>1. thread' \in [Threads -> ThreadType] BY <1>20, <2>2, PushBlockMoves DEF Becomes
    <3> QED BY <1>20, <2>2, <1>t, <3>1 DEF PushBlock, TypeOK, ThreadType
  <2> QED BY <2>1, <2>2
<1>21. ASSUME NEW t \in Threads, PushCount(t) PROVE TypeOK'
  <2>1. thread' \in [Threads -> ThreadType] BY <1>21, PushCountMoves DEF Becomes
  <2>2. useBlockCount - 1 \in Nat
    <3>1. useBlockCount = Cardinality(out) + Cardinality(Calling) BY DEF IInv, Limits
    <3>2. t \in Calling BY <1>21 DEF Calling, PushCount
    <3>3. Cardinality(Calling) \in Nat /\ 1 <= Cardinality(Calling) BY <3>2, Counts
    <3>4. Cardinality(out) \in Nat BY OutFinite
    <3> QED BY <3>1, <3>3, <3>4, <1>t
  <2> QED BY <1>21, <1>t, <2>1, <2>2 DEF PushCount, TypeOK, ThreadType
<1>22. CASE UNCHANGED vars BY <1>22, <1>s
<1> QED BY <1>1, <1>2, <1>3, <1>4, <1>5, <1>6, <1>7, <1>8, <1>9, <1>10, <1>11, <1>12, <1>13,
    <1>14, <1>15, <1>16, <1>17, <1>18, <1>19, <1>20, <1>21, <1>22
  DEF Next, Begin, Continue, PopFull, PopEmpty, PushEmpty, PushFull

Holding == {"renew", "take", "emptyRead", "emptyPush", "fill", "read", "push"}

\* Who holds which blocks after a step of t.
LEMMA HeldNext ==
  ASSUME NEW t \in Threads, Only(t)
  PROVE  /\ \A u \in Threads : u # t => Held(u)' = Held(u)
         /\ thread'[t].pc \in Holding => Held(t)' = {thread'[t].block}
         /\ thread'[t].pc \notin Holding => Held(t)' = {}
         /\ thread[t].pc \in Holding => Held(t) = {thread[t].block}
         /\ thread[t].pc \notin Holding => Held(t) = {}
BY DEF Only, Held, AtPc, Holding

LEMMA PlacesKept ==
  ASSUME InOnePlace, NEW t \in Threads, Only(t), Full' = Full, Empty' = Empty, blocks' = blocks,
         Held(t)' = Held(t)
  PROVE  InOnePlace'
<1>1. \A u \in Threads : Held(u)' = Held(u) BY HeldNext
<1> QED BY <1>1 DEF InOnePlace

\* t takes a block from a stack,
LEMMA PlaceTaken ==
  ASSUME InOnePlace, NEW t \in Threads, Only(t), blocks' = blocks, NEW b,
         \/ b \in Full /\ Full' = Full \ {b} /\ Empty' = Empty
         \/ b \in Empty /\ Empty' = Empty \ {b} /\ Full' = Full,
         Held(t) = {}, Held(t)' = {b}
  PROVE  InOnePlace'
<1>1. \A u \in Threads : u # t => Held(u)' = Held(u) BY HeldNext
<1>2. \A u \in Threads : u # t => b \notin Held(u) BY DEF InOnePlace
<1>3. b \in 1 .. blocks
  <2>1. Full \subseteq 1 .. blocks /\ Empty \subseteq 1 .. blocks BY DEF InOnePlace
  <2> QED BY <2>1
<1>4. Full' \cap Empty' = {} BY DEF InOnePlace
<1>5. ASSUME NEW u \in Threads PROVE Held(u)' \cap (Full' \cup Empty') = {}
  <2>1. Held(u) \cap (Full \cup Empty) = {} /\ Full \cap Empty = {} BY DEF InOnePlace
  <2>2. Full' \subseteq Full /\ Empty' \subseteq Empty /\ b \notin Full' \cup Empty' BY <2>1
  <2> QED BY <1>1, <2>1, <2>2
<1>6. \A u, v \in Threads : u # v => Held(u)' \cap Held(v)' = {} BY <1>1, <1>2 DEF InOnePlace
<1>7. /\ Full' \subseteq 1 .. blocks /\ Empty' \subseteq 1 .. blocks
      /\ \A u \in Threads : Held(u)' \subseteq 1 .. blocks
  <2> DEFINE made == 1 .. blocks
  <2>1. /\ Full \subseteq made /\ Empty \subseteq made /\ b \in made
        /\ \A u \in Threads : Held(u) \subseteq made
    BY <1>3 DEF InOnePlace
  <2> HIDE DEF made
  <2>2. Full' \subseteq made /\ Empty' \subseteq made BY <2>1
  <2>3. \A u \in Threads : Held(u)' \subseteq made BY <1>1, <2>1
  <2> QED BY <2>2, <2>3 DEF made
<1>8. \A c \in 1 .. blocks : c \in Full' \cup Empty' \/ \E u \in Threads : c \in Held(u)'
  BY <1>1 DEF InOnePlace
<1> QED BY <1>4, <1>5, <1>6, <1>7, <1>8 DEF InOnePlace

\* gives it to one,
LEMMA PlaceGiven ==
  ASSUME InOnePlace, NEW t \in Threads, Only(t), blocks' = blocks, NEW b,
         \/ Full' = Full \cup {b} /\ Empty' = Empty
         \/ Empty' = Empty \cup {b} /\ Full' = Full,
         Held(t) = {b}, Held(t)' = {}
  PROVE  InOnePlace'
<1>1. \A u \in Threads : u # t => Held(u)' = Held(u) BY HeldNext
<1>2. \A u \in Threads : u # t => b \notin Held(u) BY DEF InOnePlace
<1>3. b \in 1 .. blocks /\ b \notin Full /\ b \notin Empty
  <2>1. Held(t) \subseteq 1 .. blocks /\ Held(t) \cap (Full \cup Empty) = {} BY DEF InOnePlace
  <2> QED BY <2>1
<1>4. Full' \cap Empty' = {} BY <1>3 DEF InOnePlace
<1>5. \A u \in Threads : Held(u)' \cap (Full' \cup Empty') = {} BY <1>1, <1>2 DEF InOnePlace
<1>6. \A u, v \in Threads : u # v => Held(u)' \cap Held(v)' = {} BY <1>1 DEF InOnePlace
<1>7. /\ Full' \subseteq 1 .. blocks /\ Empty' \subseteq 1 .. blocks
      /\ \A u \in Threads : Held(u)' \subseteq 1 .. blocks
  <2> DEFINE made == 1 .. blocks
  <2>1. /\ Full \subseteq made /\ Empty \subseteq made /\ b \in made
        /\ \A u \in Threads : Held(u) \subseteq made
    BY <1>3 DEF InOnePlace
  <2> HIDE DEF made
  <2>2. Full' \subseteq made /\ Empty' \subseteq made BY <2>1
  <2>3. \A u \in Threads : Held(u)' \subseteq made BY <1>1, <2>1
  <2> QED BY <2>2, <2>3 DEF made
<1>8. \A c \in 1 .. blocks : c \in Full' \cup Empty' \/ \E u \in Threads : c \in Held(u)'
  BY <1>1 DEF InOnePlace
<1> QED BY <1>4, <1>5, <1>6, <1>7, <1>8 DEF InOnePlace

\* or makes a new one.
LEMMA PlaceMade ==
  ASSUME InOnePlace, NEW t \in Threads, Only(t), blocks \in Nat, blocks' = blocks + 1,
         Full' = Full, Empty' = Empty, Held(t) = {}, Held(t)' = {blocks + 1}
  PROVE  InOnePlace'
<1>1. \A u \in Threads : u # t => Held(u)' = Held(u) BY HeldNext
<1> DEFINE b == blocks + 1
<1>2. b \notin 1 .. blocks /\ 1 .. blocks' = (1 .. blocks) \cup {b} OBVIOUS
<1> HIDE DEF b
<1>3. Held(t)' = {b} BY DEF b
<1>4. Full' \cap Empty' = {} BY DEF InOnePlace
<1>5. \A u \in Threads : Held(u)' \cap (Full' \cup Empty') = {}
  BY <1>1, <1>2, <1>3 DEF InOnePlace
<1>6. \A u, v \in Threads : u # v => Held(u)' \cap Held(v)' = {}
  BY <1>1, <1>2, <1>3 DEF InOnePlace
<1>7. /\ Full' \subseteq 1 .. blocks' /\ Empty' \subseteq 1 .. blocks'
      /\ \A u \in Threads : Held(u)' \subseteq 1 .. blocks'
  BY <1>1, <1>2, <1>3 DEF InOnePlace
<1>8. \A c \in 1 .. blocks' : c \in Full' \cup Empty' \/ \E u \in Threads : c \in Held(u)'
  BY <1>1, <1>2, <1>3 DEF InOnePlace
<1> QED BY <1>4, <1>5, <1>6, <1>7, <1>8 DEF InOnePlace

LEMMA PlaceStep ==
  ASSUME IInv, [Next]_vars
  PROVE  InOnePlace'
<1>t. thread \in [Threads -> ThreadType] /\ blocks \in Nat BY Types DEF IInv
<1>p. InOnePlace BY DEF IInv
<1>l. \A t \in Threads : LocalsOf(t) BY DEF IInv, Locals
<1>1. ASSUME NEW t \in Threads, AllocChunk(t) PROVE InOnePlace'
  <2>1. Only(t) /\ thread'[t].pc = "test" /\ Quiet
    BY <1>1, AllocChunkMoves DEF Becomes
  <2>2. thread[t].pc = "idle" /\ blocks' = blocks BY <1>1 DEF AllocChunk
  <2>3. Held(t) = {} BY <2>1, <2>2, HeldNext DEF Holding
  <2>4. Held(t)' = {} BY <2>1, HeldNext DEF Holding
  <2> QED BY <1>t, <1>p, <2>1, <2>2, <2>3, <2>4, PlacesKept DEF Quiet
<1>2. ASSUME NEW t \in Threads, FreeChunk(t) PROVE InOnePlace'
  <2>1. PICK b \in out : out' = out \ {b} /\ Only(t) /\ thread'[t].pc = "claim" /\ Quiet
    BY <1>2, FreeChunkMoves DEF Becomes
  <2>2. thread[t].pc = "idle" /\ blocks' = blocks BY <1>2 DEF FreeChunk
  <2>3. Held(t) = {} BY <2>1, <2>2, HeldNext DEF Holding
  <2>4. Held(t)' = {} BY <2>1, HeldNext DEF Holding
  <2> QED BY <1>t, <1>p, <2>1, <2>2, <2>3, <2>4, PlacesKept DEF Quiet
<1>3. ASSUME NEW t \in Threads, TestCount(t) PROVE InOnePlace'
  <2>1. CASE thread[t].use >= maxBlockCount
    <3>1. Only(t) /\ thread'[t].pc = "claim" /\ Quiet
      BY <1>3, <2>1, TestCountMoves DEF Becomes
    <3>2. thread[t].pc = "test" /\ blocks' = blocks BY <1>3 DEF TestCount
    <3>3. Held(t) = {} BY <3>1, <3>2, HeldNext DEF Holding
    <3>4. Held(t)' = {} BY <3>1, HeldNext DEF Holding
    <3> QED BY <1>t, <1>p, <3>1, <3>2, <3>3, <3>4, PlacesKept DEF Quiet
  <2>2. CASE thread[t].use < maxBlockCount
    <3>1. Only(t) /\ thread'[t].pc = "top" /\ Quiet
      BY <1>3, <2>2, TestCountMoves DEF Becomes
    <3>2. thread[t].pc = "test" /\ blocks' = blocks BY <1>3 DEF TestCount
    <3>3. Held(t) = {} BY <3>1, <3>2, HeldNext DEF Holding
    <3>4. Held(t)' = {} BY <3>1, HeldNext DEF Holding
    <3> QED BY <1>t, <1>p, <3>1, <3>2, <3>3, <3>4, PlacesKept DEF Quiet
  <2>3. thread[t].use \in Nat /\ maxBlockCount \in Nat BY Types DEF IInv, ThreadType
  <2> QED BY <2>1, <2>2, <2>3
<1>4. ASSUME NEW t \in Threads, ReadTop(t) PROVE InOnePlace'
  <2>1. Only(t) /\ thread'[t].pc = "next" /\ Quiet
    BY <1>4, ReadTopMoves DEF Becomes
  <2>2. thread[t].pc = "top" /\ blocks' = blocks BY <1>4 DEF ReadTop
  <2>3. Held(t) = {} BY <2>1, <2>2, HeldNext DEF Holding
  <2>4. Held(t)' = {} BY <2>1, HeldNext DEF Holding
  <2> QED BY <1>t, <1>p, <2>1, <2>2, <2>3, <2>4, PlacesKept DEF Quiet
<1>5. ASSUME NEW t \in Threads, ReadNext(t) PROVE InOnePlace'
  <2>1. Only(t) /\ thread'[t].pc = "pop" /\ Quiet
    BY <1>5, ReadNextMoves DEF Becomes
  <2>2. thread[t].pc = "next" /\ blocks' = blocks BY <1>5 DEF ReadNext
  <2>3. Held(t) = {} BY <2>1, <2>2, HeldNext DEF Holding
  <2>4. Held(t)' = {} BY <2>1, HeldNext DEF Holding
  <2> QED BY <1>t, <1>p, <2>1, <2>2, <2>3, <2>4, PlacesKept DEF Quiet
<1>6. ASSUME NEW t \in Threads, ReadNull(t) PROVE InOnePlace'
  <2>1. Only(t) /\ thread'[t].pc = "crashed" /\ Quiet
    BY <1>6, ReadNullMoves DEF Becomes
  <2>2. thread[t].pc = "next" /\ blocks' = blocks BY <1>6 DEF ReadNull
  <2>3. Held(t) = {} BY <2>1, <2>2, HeldNext DEF Holding
  <2>4. Held(t)' = {} BY <2>1, HeldNext DEF Holding
  <2> QED BY <1>t, <1>p, <2>1, <2>2, <2>3, <2>4, PlacesKept DEF Quiet
<1>7. ASSUME NEW t \in Threads, PopBlock(t) PROVE InOnePlace'
  <2>1. CASE topBlock = thread[t].tempTop
    <3>1. /\ Only(t) /\ thread'[t].pc = "take"
          /\ thread'[t].block = MAKE_NODEPTR(thread[t].tempTop) /\ FullPops
      BY <1>7, <2>1, PopBlockMoves DEF Becomes
    <3>2. thread[t].pc = "pop" /\ blocks' = blocks BY <1>7 DEF PopBlock
    <3>3. Held(t) = {} BY <3>1, <3>2, HeldNext DEF Holding
    <3>4. Held(t)' = {MAKE_NODEPTR(topBlock)} BY <1>7, <2>1, <3>1, HeldNext DEF Holding
    <3> QED BY <1>t, <1>p, <3>1, <3>2, <3>3, <3>4, PlaceTaken DEF FullPops
  <2>2. CASE topBlock # thread[t].tempTop
    <3>1. Only(t) /\ thread'[t].pc = "top" /\ Quiet
      BY <1>7, <2>2, PopBlockMoves DEF Becomes
    <3>2. thread[t].pc = "pop" /\ blocks' = blocks BY <1>7 DEF PopBlock
    <3>3. Held(t) = {} BY <3>1, <3>2, HeldNext DEF Holding
    <3>4. Held(t)' = {} BY <3>1, HeldNext DEF Holding
    <3> QED BY <1>t, <1>p, <3>1, <3>2, <3>3, <3>4, PlacesKept DEF Quiet
  <2> QED BY <2>1, <2>2
<1>8. ASSUME NEW t \in Threads, NewChunkBlock(t) PROVE InOnePlace'
  <2>1. Only(t) /\ thread'[t].pc = "take" /\ thread'[t].block = thread[t].block /\ Quiet
    BY <1>8, NewChunkBlockMoves DEF Becomes
  <2>2. thread[t].pc = "renew" /\ blocks' = blocks BY <1>8 DEF NewChunkBlock
  <2>3. Held(t) = {thread[t].block} BY <2>1, <2>2, HeldNext DEF Holding
  <2>4. Held(t)' = {thread[t].block} BY <2>1, HeldNext DEF Holding
  <2> QED BY <1>t, <1>p, <2>1, <2>2, <2>3, <2>4, PlacesKept DEF Quiet
<1>9. ASSUME NEW t \in Threads, TakeNodes(t) PROVE InOnePlace'
  <2>1. /\ Only(t) /\ thread'[t].pc = "emptyRead" /\ thread'[t].block = thread[t].block
        /\ Quiet
    BY <1>9, TakeNodesMoves DEF Becomes
  <2>2. thread[t].pc = "take" /\ blocks' = blocks BY <1>9 DEF TakeNodes
  <2>3. Held(t) = {thread[t].block} BY <2>1, <2>2, HeldNext DEF Holding
  <2>4. Held(t)' = {thread[t].block} BY <2>1, HeldNext DEF Holding
  <2> QED BY <1>t, <1>p, <2>1, <2>2, <2>3, <2>4, PlacesKept DEF Quiet
<1>10. ASSUME NEW t \in Threads, EmptyRead(t) PROVE InOnePlace'
  <2>1. /\ Only(t) /\ thread'[t].pc = "emptyPush" /\ thread'[t].block = thread[t].block
        /\ Quiet
    BY <1>10, EmptyReadMoves DEF Becomes
  <2>2. thread[t].pc = "emptyRead" /\ blocks' = blocks BY <1>10 DEF EmptyRead
  <2>3. Held(t) = {thread[t].block} BY <2>1, <2>2, HeldNext DEF Holding
  <2>4. Held(t)' = {thread[t].block} BY <2>1, HeldNext DEF Holding
  <2> QED BY <1>t, <1>p, <2>1, <2>2, <2>3, <2>4, PlacesKept DEF Quiet
<1>11. ASSUME NEW t \in Threads, EmptyPush(t) PROVE InOnePlace'
  <2>1. CASE chunkBlockPoolTop = thread[t].tempTop
    <3>1. Only(t) /\ thread'[t].pc = "emptyCount" /\ EmptyPushes(t)
      BY <1>11, <2>1, EmptyPushMoves DEF Becomes
    <3>2. thread[t].pc = "emptyPush" /\ blocks' = blocks BY <1>11 DEF EmptyPush
    <3>3. Held(t) = {thread[t].block} BY <3>1, <3>2, HeldNext DEF Holding
    <3>4. Held(t)' = {} BY <3>1, HeldNext DEF Holding
    <3> QED BY <1>t, <1>p, <3>1, <3>2, <3>3, <3>4, PlaceGiven DEF EmptyPushes
  <2>2. CASE chunkBlockPoolTop # thread[t].tempTop
    <3>1. /\ Only(t) /\ thread'[t].pc = "emptyRead" /\ thread'[t].block = thread[t].block
          /\ Quiet
      BY <1>11, <2>2, EmptyPushMoves DEF Becomes
    <3>2. thread[t].pc = "emptyPush" /\ blocks' = blocks BY <1>11 DEF EmptyPush
    <3>3. Held(t) = {thread[t].block} BY <3>1, <3>2, HeldNext DEF Holding
    <3>4. Held(t)' = {thread[t].block} BY <1>11, <2>2, <3>1, HeldNext DEF Holding
    <3> QED BY <1>t, <1>p, <3>1, <3>2, <3>3, <3>4, PlacesKept DEF Quiet
  <2> QED BY <2>1, <2>2
<1>12. ASSUME NEW t \in Threads, EmptyCount(t) PROVE InOnePlace'
  <2>1. Only(t) /\ thread'[t].pc = "idle" /\ Quiet
    BY <1>12, EmptyCountMoves DEF Becomes
  <2>2. thread[t].pc = "emptyCount" /\ blocks' = blocks BY <1>12 DEF EmptyCount
  <2>3. Held(t) = {} BY <2>1, <2>2, HeldNext DEF Holding
  <2>4. Held(t)' = {} BY <2>1, HeldNext DEF Holding
  <2> QED BY <1>t, <1>p, <2>1, <2>2, <2>3, <2>4, PlacesKept DEF Quiet
<1>13. ASSUME NEW t \in Threads, Claim(t) PROVE InOnePlace'
  <2>1. CASE chunkBlockPoolSize - 1 < 0
    <3>1. Only(t) /\ thread'[t].pc = "undo" /\ Quiet
      BY <1>13, <2>1, ClaimMoves DEF Becomes
    <3>2. thread[t].pc = "claim" /\ blocks' = blocks BY <1>13 DEF Claim
    <3>3. Held(t) = {} BY <3>1, <3>2, HeldNext DEF Holding
    <3>4. Held(t)' = {} BY <3>1, HeldNext DEF Holding
    <3> QED BY <1>t, <1>p, <3>1, <3>2, <3>3, <3>4, PlacesKept DEF Quiet
  <2>2. CASE chunkBlockPoolSize - 1 >= 0
    <3>1. Only(t) /\ thread'[t].pc = "emptyTop" /\ Quiet
      BY <1>13, <2>2, ClaimMoves DEF Becomes
    <3>2. thread[t].pc = "claim" /\ blocks' = blocks BY <1>13 DEF Claim
    <3>3. Held(t) = {} BY <3>1, <3>2, HeldNext DEF Holding
    <3>4. Held(t)' = {} BY <3>1, HeldNext DEF Holding
    <3> QED BY <1>t, <1>p, <3>1, <3>2, <3>3, <3>4, PlacesKept DEF Quiet
  <2>3. chunkBlockPoolSize \in Int BY Types DEF IInv
  <2> QED BY <2>1, <2>2, <2>3
<1>14. ASSUME NEW t \in Threads, NewBlock(t) PROVE InOnePlace'
  <2>1. Only(t) /\ thread'[t].pc = thread[t].ret /\ thread'[t].block = blocks + 1 /\ Quiet
    BY <1>14, NewBlockMoves DEF Becomes
  <2>2. thread[t].pc = "undo" /\ blocks' = blocks + 1 BY <1>14 DEF NewBlock
  <2>3. Held(t) = {} BY <2>1, <2>2, HeldNext DEF Holding
  <2>4. thread[t].ret \in {"renew", "fill"}
    BY <2>2, <1>t, <1>l DEF LocalsOf, Popping, ThreadType
  <2>5. Held(t)' = {blocks + 1} BY <2>1, <2>4, HeldNext DEF Holding
  <2> QED BY <1>t, <1>p, <2>1, <2>2, <2>3, <2>5, PlaceMade DEF Quiet
<1>15. ASSUME NEW t \in Threads, EmptyTop(t) PROVE InOnePlace'
  <2>1. Only(t) /\ thread'[t].pc = "emptyNext" /\ Quiet
    BY <1>15, EmptyTopMoves DEF Becomes
  <2>2. thread[t].pc = "emptyTop" /\ blocks' = blocks BY <1>15 DEF EmptyTop
  <2>3. Held(t) = {} BY <2>1, <2>2, HeldNext DEF Holding
  <2>4. Held(t)' = {} BY <2>1, HeldNext DEF Holding
  <2> QED BY <1>t, <1>p, <2>1, <2>2, <2>3, <2>4, PlacesKept DEF Quiet
<1>16. ASSUME NEW t \in Threads, EmptyNext(t) PROVE InOnePlace'
  <2>1. Only(t) /\ thread'[t].pc = "emptyPop" /\ Quiet
    BY <1>16, EmptyNextMoves DEF Becomes
  <2>2. thread[t].pc = "emptyNext" /\ blocks' = blocks BY <1>16 DEF EmptyNext
  <2>3. Held(t) = {} BY <2>1, <2>2, HeldNext DEF Holding
  <2>4. Held(t)' = {} BY <2>1, HeldNext DEF Holding
  <2> QED BY <1>t, <1>p, <2>1, <2>2, <2>3, <2>4, PlacesKept DEF Quiet
<1>17. ASSUME NEW t \in Threads, EmptyPop(t) PROVE InOnePlace'
  <2>1. CASE chunkBlockPoolTop = thread[t].tempTop
    <3>1. /\ Only(t) /\ thread'[t].pc = thread[t].ret
          /\ thread'[t].block = MAKE_NODEPTR(thread[t].tempTop) /\ EmptyPops
      BY <1>17, <2>1, EmptyPopMoves DEF Becomes
    <3>2. thread[t].pc = "emptyPop" /\ blocks' = blocks BY <1>17 DEF EmptyPop
    <3>3. Held(t) = {} BY <3>1, <3>2, HeldNext DEF Holding
    <3>4. thread[t].ret \in {"renew", "fill"}
      BY <3>2, <1>t, <1>l DEF LocalsOf, Popping, ThreadType
    <3>5. Held(t)' = {MAKE_NODEPTR(chunkBlockPoolTop)}
      BY <1>17, <2>1, <3>1, <3>4, HeldNext DEF Holding
    <3> QED BY <1>t, <1>p, <3>1, <3>2, <3>3, <3>5, PlaceTaken DEF EmptyPops
  <2>2. CASE chunkBlockPoolTop # thread[t].tempTop
    <3>1. Only(t) /\ thread'[t].pc = "emptyTop" /\ Quiet
      BY <1>17, <2>2, EmptyPopMoves DEF Becomes
    <3>2. thread[t].pc = "emptyPop" /\ blocks' = blocks BY <1>17 DEF EmptyPop
    <3>3. Held(t) = {} BY <3>1, <3>2, HeldNext DEF Holding
    <3>4. Held(t)' = {} BY <3>1, HeldNext DEF Holding
    <3> QED BY <1>t, <1>p, <3>1, <3>2, <3>3, <3>4, PlacesKept DEF Quiet
  <2> QED BY <2>1, <2>2
<1>18. ASSUME NEW t \in Threads, Fill(t) PROVE InOnePlace'
  <2>1. Only(t) /\ thread'[t].pc = "read" /\ thread'[t].block = thread[t].block /\ Quiet
    BY <1>18, FillMoves DEF Becomes
  <2>2. thread[t].pc = "fill" /\ blocks' = blocks BY <1>18 DEF Fill
  <2>3. Held(t) = {thread[t].block} BY <2>1, <2>2, HeldNext DEF Holding
  <2>4. Held(t)' = {thread[t].block} BY <2>1, HeldNext DEF Holding
  <2> QED BY <1>t, <1>p, <2>1, <2>2, <2>3, <2>4, PlacesKept DEF Quiet
<1>19. ASSUME NEW t \in Threads, PushRead(t) PROVE InOnePlace'
  <2>1. Only(t) /\ thread'[t].pc = "push" /\ thread'[t].block = thread[t].block /\ Quiet
    BY <1>19, PushReadMoves DEF Becomes
  <2>2. thread[t].pc = "read" /\ blocks' = blocks BY <1>19 DEF PushRead
  <2>3. Held(t) = {thread[t].block} BY <2>1, <2>2, HeldNext DEF Holding
  <2>4. Held(t)' = {thread[t].block} BY <2>1, HeldNext DEF Holding
  <2> QED BY <1>t, <1>p, <2>1, <2>2, <2>3, <2>4, PlacesKept DEF Quiet
<1>20. ASSUME NEW t \in Threads, PushBlock(t) PROVE InOnePlace'
  <2>1. CASE topBlock = thread[t].tempTop
    <3>1. Only(t) /\ thread'[t].pc = "count" /\ FullPushes(t)
      BY <1>20, <2>1, PushBlockMoves DEF Becomes
    <3>2. thread[t].pc = "push" /\ blocks' = blocks BY <1>20 DEF PushBlock
    <3>3. Held(t) = {thread[t].block} BY <3>1, <3>2, HeldNext DEF Holding
    <3>4. Held(t)' = {} BY <3>1, HeldNext DEF Holding
    <3> QED BY <1>t, <1>p, <3>1, <3>2, <3>3, <3>4, PlaceGiven DEF FullPushes
  <2>2. CASE topBlock # thread[t].tempTop
    <3>1. Only(t) /\ thread'[t].pc = "read" /\ thread'[t].block = thread[t].block /\ Quiet
      BY <1>20, <2>2, PushBlockMoves DEF Becomes
    <3>2. thread[t].pc = "push" /\ blocks' = blocks BY <1>20 DEF PushBlock
    <3>3. Held(t) = {thread[t].block} BY <3>1, <3>2, HeldNext DEF Holding
    <3>4. Held(t)' = {thread[t].block} BY <1>20, <2>2, <3>1, HeldNext DEF Holding
    <3> QED BY <1>t, <1>p, <3>1, <3>2, <3>3, <3>4, PlacesKept DEF Quiet
  <2> QED BY <2>1, <2>2
<1>21. ASSUME NEW t \in Threads, PushCount(t) PROVE InOnePlace'
  <2>1. Only(t) /\ thread'[t].pc = "idle" /\ Quiet
    BY <1>21, PushCountMoves DEF Becomes
  <2>2. thread[t].pc = "count" /\ blocks' = blocks BY <1>21 DEF PushCount
  <2>3. Held(t) = {} BY <2>1, <2>2, HeldNext DEF Holding
  <2>4. Held(t)' = {} BY <2>1, HeldNext DEF Holding
  <2> QED BY <1>t, <1>p, <2>1, <2>2, <2>3, <2>4, PlacesKept DEF Quiet
<1>22. CASE UNCHANGED vars BY <1>22, <1>p DEF InOnePlace, Full, Empty, Held, AtPc
<1> QED BY <1>1, <1>2, <1>3, <1>4, <1>5, <1>6, <1>7, <1>8, <1>9, <1>10, <1>11, <1>12, <1>13,
    <1>14, <1>15, <1>16, <1>17, <1>18, <1>19, <1>20, <1>21, <1>22
  DEF Next, Begin, Continue, PopFull, PopEmpty, PushEmpty, PushFull

\* The counter keeps a thread from a stack of empty blocks that has none.
LEMMA EmptyFinds ==
  ASSUME IInv, NEW t \in Threads, thread[t].pc \in {"emptyTop", "emptyNext", "emptyPop"}
  PROVE  chunkBlockPoolTop # Null
<1>1. Emptying \in SUBSET Threads /\ Undoing \subseteq Emptying /\ t \in Emptying /\ t \notin Undoing
  BY DEF Emptying, Undoing, AtPc
<1>2. IsFiniteSet(Emptying) BY <1>1, ChunkPoolAssumption, FS_Subset
<1>3. Cardinality(Emptying \ {t}) = Cardinality(Emptying) - 1 /\ IsFiniteSet(Emptying \ {t})
  BY <1>1, <1>2, FS_RemoveElement
<1>4. Undoing \subseteq Emptying \ {t} BY <1>1
<1>5. Cardinality(Undoing) <= Cardinality(Emptying \ {t}) BY <1>3, <1>4, FS_Subset
<1>6. Cardinality(Emptying) \in Nat /\ Cardinality(Undoing) \in Nat BY Counts
<1>7. Cardinality(Empty) = chunkBlockPoolSize + Cardinality(Emptying)
      /\ 0 <= chunkBlockPoolSize + Cardinality(Undoing) /\ chunkBlockPoolSize \in Int
  BY Types DEF IInv, Counted
<1>8. Cardinality(Empty) # 0 BY <1>3, <1>5, <1>6, <1>7
<1>9. Empty # {} BY <1>8, FS_EmptySet
<1>10. Stacked(nextChunkBlock, chunkBlockPoolTop) BY DEF IInv, Stacks
<1> QED BY <1>9, <1>10, StackFacts DEF Empty

\* A step changes no link but that of its own block.
LinksOf(t) == \/ nextChunkBlock' = nextChunkBlock
              \/ /\ thread[t].pc \in Holding
                 /\ \E k : nextChunkBlock' = [nextChunkBlock EXCEPT ![thread[t].block] = k]

LEMMA LocalsOfOthers ==
  ASSUME IInv, NEW t \in Threads, Only(t), LinksOf(t), maxBlockCount' \in Nat,
         maxBlockCount <= maxBlockCount', LocalsOf(t)'
  PROVE  Locals'
<1> SUFFICES ASSUME NEW u \in Threads, u # t PROVE LocalsOf(u)' BY DEF Locals
<1>1. thread'[u] = thread[u] BY DEF Only
<1>2. LocalsOf(u) BY DEF IInv, Locals
<1>3. thread[u].pc = "test" => thread[u].max <= maxBlockCount'
  <2>1. thread[u].max \in Nat /\ maxBlockCount \in Nat BY Types DEF IInv, ThreadType
  <2> QED BY <1>2, <2>1 DEF LocalsOf
<1>4. thread[u].pc \in {"emptyPush", "push"} =>
        nextChunkBlock'[thread[u].block] = nextChunkBlock[thread[u].block]
  <2> SUFFICES ASSUME thread[u].pc \in {"emptyPush", "push"}, thread[t].pc \in Holding,
                      NEW k, nextChunkBlock' = [nextChunkBlock EXCEPT ![thread[t].block] = k]
               PROVE  nextChunkBlock'[thread[u].block] = nextChunkBlock[thread[u].block]
    BY DEF LinksOf
  <2>1. Held(u) = {thread[u].block} /\ Held(t) = {thread[t].block} BY DEF Held, AtPc, Holding
  <2>2. Held(t) \cap Held(u) = {} BY DEF IInv, InOnePlace
  <2>3. thread[u].block # thread[t].block BY <2>1, <2>2
  <2>4. thread[u].block \in Blocks BY Holders
  <2> QED BY <2>3, <2>4, Types DEF IInv
<1>5. u \in HasBatch' <=> u \in HasBatch BY <1>1 DEF HasBatch, PopsFor, AtPc
<1> QED BY <1>1, <1>2, <1>3, <1>4, <1>5 DEF LocalsOf

LEMMA LocalsStep ==
  ASSUME IInv, [Next]_vars
  PROVE  Locals'
<1>t. /\ thread \in [Threads -> ThreadType] /\ maxBlockCount \in Nat /\ out \subseteq Batches
      /\ nextChunkBlock \in [Blocks -> KeyType] /\ batches \in Nat
  BY Types DEF IInv
<1>l. \A t \in Threads : LocalsOf(t) BY DEF IInv, Locals
<1>1. ASSUME NEW t \in Threads, AllocChunk(t) PROVE Locals'
  <2>1. /\ Only(t) /\ thread'[t].pc = "test" /\ thread'[t].ret = thread[t].ret
        /\ thread'[t].max = maxBlockCount /\ thread'[t].block = thread[t].block
        /\ thread'[t].key = thread[t].key /\ thread'[t].tempTop = thread[t].tempTop
        /\ thread'[t].batch = thread[t].batch
    BY <1>1, AllocChunkMoves DEF Becomes
  <2>2. LinksOf(t) /\ maxBlockCount' \in Nat /\ maxBlockCount <= maxBlockCount'
      BY <1>1, <1>t DEF AllocChunk, LinksOf, Holding
  <2>3. LocalsOf(t)'
      BY <1>1, <1>t, <1>l, <2>1
        DEF AllocChunk, LocalsOf, Popping, HasBatch, PopsFor, AtPc, NoBatch
  <2> QED BY <2>1, <2>2, <2>3, LocalsOfOthers
<1>2. ASSUME NEW t \in Threads, FreeChunk(t) PROVE Locals'
  <2>1. PICK b \in out : /\ out' = out \ {b} /\ Only(t) /\ thread'[t].pc = "claim"
                          /\ thread'[t].ret = "fill" /\ thread'[t].max = thread[t].max
                          /\ thread'[t].block = thread[t].block
                          /\ thread'[t].key = thread[t].key
                          /\ thread'[t].tempTop = thread[t].tempTop /\ thread'[t].batch = b
    BY <1>2, FreeChunkMoves DEF Becomes
  <2>2. LinksOf(t) /\ maxBlockCount' \in Nat /\ maxBlockCount <= maxBlockCount'
      BY <1>2, <1>t DEF FreeChunk, LinksOf, Holding
  <2>3. b # NoBatch BY <1>t, NumberOfBlocks DEF Batches, NoBatch
  <2>4. LocalsOf(t)'
      BY <1>2, <1>t, <1>l, <2>1, <2>3
        DEF FreeChunk, LocalsOf, Popping, HasBatch, PopsFor, AtPc, NoBatch
  <2> QED BY <2>1, <2>2, <2>4, LocalsOfOthers
<1>3. ASSUME NEW t \in Threads, TestCount(t) PROVE Locals'
  <2>1. CASE thread[t].use >= maxBlockCount
    <3>1. /\ Only(t) /\ thread'[t].pc = "claim" /\ thread'[t].ret = "renew"
          /\ thread'[t].max = 0 /\ thread'[t].block = thread[t].block
          /\ thread'[t].key = thread[t].key /\ thread'[t].tempTop = thread[t].tempTop
          /\ thread'[t].batch = thread[t].batch
      BY <1>3, <2>1, TestCountMoves DEF Becomes
    <3>2. LinksOf(t) /\ maxBlockCount' \in Nat /\ maxBlockCount <= maxBlockCount'
      BY <1>3, <1>t DEF TestCount, LinksOf, Holding
    <3>3. LocalsOf(t)'
      BY <1>3, <2>1, <1>t, <1>l, <3>1
        DEF TestCount, LocalsOf, Popping, HasBatch, PopsFor, AtPc, NoBatch
    <3> QED BY <3>1, <3>2, <3>3, LocalsOfOthers
  <2>2. CASE thread[t].use < maxBlockCount
    <3>1. /\ Only(t) /\ thread'[t].pc = "top" /\ thread'[t].ret = thread[t].ret
          /\ thread'[t].max = 0 /\ thread'[t].block = thread[t].block
          /\ thread'[t].key = thread[t].key /\ thread'[t].tempTop = thread[t].tempTop
          /\ thread'[t].batch = thread[t].batch
      BY <1>3, <2>2, TestCountMoves DEF Becomes
    <3>2. LinksOf(t) /\ maxBlockCount' \in Nat /\ maxBlockCount <= maxBlockCount'
      BY <1>3, <1>t DEF TestCount, LinksOf, Holding
    <3>3. LocalsOf(t)'
      BY <1>3, <2>2, <1>t, <1>l, <3>1
        DEF TestCount, LocalsOf, Popping, HasBatch, PopsFor, AtPc, NoBatch
    <3> QED BY <3>1, <3>2, <3>3, LocalsOfOthers
  <2>3. thread[t].use \in Nat /\ maxBlockCount \in Nat BY Types DEF IInv, ThreadType
  <2> QED BY <2>1, <2>2, <2>3
<1>4. ASSUME NEW t \in Threads, ReadTop(t) PROVE Locals'
  <2>1. /\ Only(t) /\ thread'[t].pc = "next" /\ thread'[t].ret = thread[t].ret
        /\ thread'[t].max = thread[t].max /\ thread'[t].block = thread[t].block
        /\ thread'[t].key = thread[t].key /\ thread'[t].tempTop = topBlock
        /\ thread'[t].batch = thread[t].batch
    BY <1>4, ReadTopMoves DEF Becomes
  <2>2. LinksOf(t) /\ maxBlockCount' \in Nat /\ maxBlockCount <= maxBlockCount'
      BY <1>4, <1>t DEF ReadTop, LinksOf, Holding
  <2>3. LocalsOf(t)'
      BY <1>4, <1>t, <1>l, <2>1
        DEF ReadTop, LocalsOf, Popping, HasBatch, PopsFor, AtPc, NoBatch
  <2> QED BY <2>1, <2>2, <2>3, LocalsOfOthers
<1>5. ASSUME NEW t \in Threads, ReadNext(t) PROVE Locals'
  <2>1. /\ Only(t) /\ thread'[t].pc = "pop" /\ thread'[t].ret = thread[t].ret
        /\ thread'[t].max = thread[t].max /\ thread'[t].block = thread[t].block
        /\ thread'[t].key = thread[t].key /\ thread'[t].tempTop = thread[t].tempTop
        /\ thread'[t].batch = thread[t].batch
    BY <1>5, ReadNextMoves DEF Becomes
  <2>2. LinksOf(t) /\ maxBlockCount' \in Nat /\ maxBlockCount <= maxBlockCount'
      BY <1>5, <1>t DEF ReadNext, LinksOf, Holding
  <2>3. LocalsOf(t)'
      BY <1>5, <1>t, <1>l, <2>1
        DEF ReadNext, LocalsOf, Popping, HasBatch, PopsFor, AtPc, NoBatch
  <2> QED BY <2>1, <2>2, <2>3, LocalsOfOthers
<1>6. ASSUME NEW t \in Threads, ReadNull(t) PROVE Locals'
  <2>1. /\ Only(t) /\ thread'[t].pc = "crashed" /\ thread'[t].ret = thread[t].ret
        /\ thread'[t].max = thread[t].max /\ thread'[t].block = thread[t].block
        /\ thread'[t].key = thread[t].key /\ thread'[t].tempTop = thread[t].tempTop
        /\ thread'[t].batch = thread[t].batch
    BY <1>6, ReadNullMoves DEF Becomes
  <2>2. LinksOf(t) /\ maxBlockCount' \in Nat /\ maxBlockCount <= maxBlockCount'
      BY <1>6, <1>t DEF ReadNull, LinksOf, Holding
  <2>3. LocalsOf(t)'
      BY <1>6, <1>t, <1>l, <2>1
        DEF ReadNull, LocalsOf, Popping, HasBatch, PopsFor, AtPc, NoBatch
  <2> QED BY <2>1, <2>2, <2>3, LocalsOfOthers
<1>7. ASSUME NEW t \in Threads, PopBlock(t) PROVE Locals'
  <2>1. CASE topBlock = thread[t].tempTop
    <3>1. /\ Only(t) /\ thread'[t].pc = "take" /\ thread'[t].ret = "idle"
          /\ thread'[t].max = 0 /\ thread'[t].block = MAKE_NODEPTR(thread[t].tempTop)
          /\ thread'[t].key = Null /\ thread'[t].tempTop = Null
          /\ thread'[t].batch = NoBatch
      BY <1>7, <2>1, PopBlockMoves DEF Becomes
    <3>2. LinksOf(t) /\ maxBlockCount' \in Nat /\ maxBlockCount <= maxBlockCount'
      BY <1>7, <1>t DEF PopBlock, LinksOf, Holding
    <3>3. LocalsOf(t)'
      BY <1>7, <2>1, <1>t, <1>l, <3>1
        DEF PopBlock, LocalsOf, Popping, HasBatch, PopsFor, AtPc, NoBatch
    <3> QED BY <3>1, <3>2, <3>3, LocalsOfOthers
  <2>2. CASE topBlock # thread[t].tempTop
    <3>1. /\ Only(t) /\ thread'[t].pc = "top" /\ thread'[t].ret = thread[t].ret
          /\ thread'[t].max = thread[t].max /\ thread'[t].block = thread[t].block
          /\ thread'[t].key = thread[t].key /\ thread'[t].tempTop = Null
          /\ thread'[t].batch = thread[t].batch
      BY <1>7, <2>2, PopBlockMoves DEF Becomes
    <3>2. LinksOf(t) /\ maxBlockCount' \in Nat /\ maxBlockCount <= maxBlockCount'
      BY <1>7, <1>t DEF PopBlock, LinksOf, Holding
    <3>3. LocalsOf(t)'
      BY <1>7, <2>2, <1>t, <1>l, <3>1
        DEF PopBlock, LocalsOf, Popping, HasBatch, PopsFor, AtPc, NoBatch
    <3> QED BY <3>1, <3>2, <3>3, LocalsOfOthers
  <2> QED BY <2>1, <2>2
<1>8. ASSUME NEW t \in Threads, NewChunkBlock(t) PROVE Locals'
  <2>1. /\ Only(t) /\ thread'[t].pc = "take" /\ thread'[t].ret = thread[t].ret
        /\ thread'[t].max = thread[t].max /\ thread'[t].block = thread[t].block
        /\ thread'[t].key = thread[t].key /\ thread'[t].tempTop = thread[t].tempTop
        /\ thread'[t].batch = thread[t].batch
    BY <1>8, NewChunkBlockMoves DEF Becomes
  <2>2. LinksOf(t) /\ maxBlockCount' \in Nat /\ maxBlockCount <= maxBlockCount'
      BY <1>8, <1>t DEF NewChunkBlock, LinksOf, Holding
  <2>3. LocalsOf(t)'
      BY <1>8, <1>t, <1>l, <2>1
        DEF NewChunkBlock, LocalsOf, Popping, HasBatch, PopsFor, AtPc, NoBatch
  <2> QED BY <2>1, <2>2, <2>3, LocalsOfOthers
<1>9. ASSUME NEW t \in Threads, TakeNodes(t) PROVE Locals'
  <2>1. /\ Only(t) /\ thread'[t].pc = "emptyRead" /\ thread'[t].ret = thread[t].ret
        /\ thread'[t].max = thread[t].max /\ thread'[t].block = thread[t].block
        /\ thread'[t].key = MAKE_KEY(thread[t].block, chunkBlockPoolUniqeCounter + 1)
        /\ thread'[t].tempTop = thread[t].tempTop
        /\ thread'[t].batch = headNodePtr[thread[t].block]
    BY <1>9, TakeNodesMoves DEF Becomes
  <2>2. LinksOf(t) /\ maxBlockCount' \in Nat /\ maxBlockCount <= maxBlockCount'
      BY <1>9, <1>t DEF TakeNodes, LinksOf, Holding
  <2>3. MAKE_NODEPTR(thread'[t].key) = thread[t].block BY <2>1 DEF MAKE_NODEPTR, MAKE_KEY
  <2>4. headNodePtr[thread[t].block] # NoBatch
    <3>1. thread[t].block \in Blocks /\ thread[t].block \in Filled
      BY <1>9, Holders DEF TakeNodes, Filled, AtPc
    <3>2. headNodePtr[thread[t].block] \in 1 .. batches BY <3>1 DEF IInv, OwnNodes
    <3> QED BY <1>t, <3>2 DEF NoBatch
  <2>5. LocalsOf(t)'
      BY <1>9, <1>t, <1>l, <2>1, <2>3, <2>4
        DEF TakeNodes, LocalsOf, Popping, HasBatch, PopsFor, AtPc, NoBatch
  <2> QED BY <2>1, <2>2, <2>5, LocalsOfOthers
<1>10. ASSUME NEW t \in Threads, EmptyRead(t) PROVE Locals'
  <2>1. /\ Only(t) /\ thread'[t].pc = "emptyPush" /\ thread'[t].ret = thread[t].ret
        /\ thread'[t].max = thread[t].max /\ thread'[t].block = thread[t].block
        /\ thread'[t].key = thread[t].key /\ thread'[t].tempTop = chunkBlockPoolTop
        /\ thread'[t].batch = thread[t].batch
    BY <1>10, EmptyReadMoves DEF Becomes
  <2>2. LinksOf(t) /\ maxBlockCount' \in Nat /\ maxBlockCount <= maxBlockCount'
    <3>1. thread[t].pc \in Holding BY <1>10 DEF EmptyRead, Holding
    <3>2. \E k : nextChunkBlock' = [nextChunkBlock EXCEPT ![thread[t].block] = k]
      BY <1>10 DEF EmptyRead
    <3>3. maxBlockCount' = maxBlockCount BY <1>10 DEF EmptyRead
    <3>4. LinksOf(t) BY <3>1, <3>2 DEF LinksOf
    <3> QED BY <1>t, <3>3, <3>4
  <2>3. nextChunkBlock'[thread[t].block] = thread'[t].tempTop
    <3>1. thread[t].block \in Blocks BY <1>10, Holders DEF EmptyRead
    <3> QED BY <1>10, <1>t, <2>1, <3>1 DEF EmptyRead
  <2>4. LocalsOf(t)'
      BY <1>10, <1>t, <1>l, <2>1, <2>3
        DEF EmptyRead, LocalsOf, Popping, HasBatch, PopsFor, AtPc, NoBatch
  <2> QED BY <2>1, <2>2, <2>4, LocalsOfOthers
<1>11. ASSUME NEW t \in Threads, EmptyPush(t) PROVE Locals'
  <2>1. CASE chunkBlockPoolTop = thread[t].tempTop
    <3>1. /\ Only(t) /\ thread'[t].pc = "emptyCount" /\ thread'[t].ret = thread[t].ret
          /\ thread'[t].max = thread[t].max /\ thread'[t].block = thread[t].block
          /\ thread'[t].key = thread[t].key /\ thread'[t].tempTop = thread[t].tempTop
          /\ thread'[t].batch = thread[t].batch
      BY <1>11, <2>1, EmptyPushMoves DEF Becomes
    <3>2. LinksOf(t) /\ maxBlockCount' \in Nat /\ maxBlockCount <= maxBlockCount'
      BY <1>11, <1>t DEF EmptyPush, LinksOf, Holding
    <3>3. LocalsOf(t)'
      BY <1>11, <2>1, <1>t, <1>l, <3>1
        DEF EmptyPush, LocalsOf, Popping, HasBatch, PopsFor, AtPc, NoBatch
    <3> QED BY <3>1, <3>2, <3>3, LocalsOfOthers
  <2>2. CASE chunkBlockPoolTop # thread[t].tempTop
    <3>1. /\ Only(t) /\ thread'[t].pc = "emptyRead" /\ thread'[t].ret = thread[t].ret
          /\ thread'[t].max = thread[t].max /\ thread'[t].block = thread[t].block
          /\ thread'[t].key = thread[t].key /\ thread'[t].tempTop = Null
          /\ thread'[t].batch = thread[t].batch
      BY <1>11, <2>2, EmptyPushMoves DEF Becomes
    <3>2. LinksOf(t) /\ maxBlockCount' \in Nat /\ maxBlockCount <= maxBlockCount'
      BY <1>11, <1>t DEF EmptyPush, LinksOf, Holding
    <3>3. LocalsOf(t)'
      BY <1>11, <2>2, <1>t, <1>l, <3>1
        DEF EmptyPush, LocalsOf, Popping, HasBatch, PopsFor, AtPc, NoBatch
    <3> QED BY <3>1, <3>2, <3>3, LocalsOfOthers
  <2> QED BY <2>1, <2>2
<1>12. ASSUME NEW t \in Threads, EmptyCount(t) PROVE Locals'
  <2>1. /\ Only(t) /\ thread'[t].pc = "idle" /\ thread'[t].ret = "idle"
        /\ thread'[t].max = 0 /\ thread'[t].block = 0 /\ thread'[t].key = Null
        /\ thread'[t].tempTop = Null /\ thread'[t].batch = NoBatch
    BY <1>12, EmptyCountMoves DEF Becomes
  <2>2. LinksOf(t) /\ maxBlockCount' \in Nat /\ maxBlockCount <= maxBlockCount'
      BY <1>12, <1>t DEF EmptyCount, LinksOf, Holding
  <2>3. LocalsOf(t)'
      BY <1>12, <1>t, <1>l, <2>1
        DEF EmptyCount, LocalsOf, Popping, HasBatch, PopsFor, AtPc, NoBatch
  <2> QED BY <2>1, <2>2, <2>3, LocalsOfOthers
<1>13. ASSUME NEW t \in Threads, Claim(t) PROVE Locals'
  <2>1. CASE chunkBlockPoolSize - 1 < 0
    <3>1. /\ Only(t) /\ thread'[t].pc = "undo" /\ thread'[t].ret = thread[t].ret
          /\ thread'[t].max = thread[t].max /\ thread'[t].block = thread[t].block
          /\ thread'[t].key = thread[t].key /\ thread'[t].tempTop = thread[t].tempTop
          /\ thread'[t].batch = thread[t].batch
      BY <1>13, <2>1, ClaimMoves DEF Becomes
    <3>2. LinksOf(t) /\ maxBlockCount' \in Nat /\ maxBlockCount <= maxBlockCount'
      BY <1>13, <1>t DEF Claim, LinksOf, Holding
    <3>3. LocalsOf(t)'
      BY <1>13, <2>1, <1>t, <1>l, <3>1
        DEF Claim, LocalsOf, Popping, HasBatch, PopsFor, AtPc, NoBatch
    <3> QED BY <3>1, <3>2, <3>3, LocalsOfOthers
  <2>2. CASE chunkBlockPoolSize - 1 >= 0
    <3>1. /\ Only(t) /\ thread'[t].pc = "emptyTop" /\ thread'[t].ret = thread[t].ret
          /\ thread'[t].max = thread[t].max /\ thread'[t].block = thread[t].block
          /\ thread'[t].key = thread[t].key /\ thread'[t].tempTop = thread[t].tempTop
          /\ thread'[t].batch = thread[t].batch
      BY <1>13, <2>2, ClaimMoves DEF Becomes
    <3>2. LinksOf(t) /\ maxBlockCount' \in Nat /\ maxBlockCount <= maxBlockCount'
      BY <1>13, <1>t DEF Claim, LinksOf, Holding
    <3>3. LocalsOf(t)'
      BY <1>13, <2>2, <1>t, <1>l, <3>1
        DEF Claim, LocalsOf, Popping, HasBatch, PopsFor, AtPc, NoBatch
    <3> QED BY <3>1, <3>2, <3>3, LocalsOfOthers
  <2>3. chunkBlockPoolSize \in Int BY Types DEF IInv
  <2> QED BY <2>1, <2>2, <2>3
<1>14. ASSUME NEW t \in Threads, NewBlock(t) PROVE Locals'
  <2>1. /\ Only(t) /\ thread'[t].pc = thread[t].ret /\ thread'[t].ret = "idle"
        /\ thread'[t].max = 0 /\ thread'[t].block = blocks + 1 /\ thread'[t].key = Null
        /\ thread'[t].tempTop = Null /\ thread'[t].batch = thread[t].batch
    BY <1>14, NewBlockMoves DEF Becomes
  <2>2. LinksOf(t) /\ maxBlockCount' \in Nat /\ maxBlockCount <= maxBlockCount'
      BY <1>14, <1>t DEF NewBlock, LinksOf, Holding
  <2>3. thread[t].ret \in {"renew", "fill"}
    BY <1>14, <1>t, <1>l DEF NewBlock, LocalsOf, Popping, ThreadType
  <2>4. LocalsOf(t)'
      BY <1>14, <1>t, <1>l, <2>1, <2>3
        DEF NewBlock, LocalsOf, Popping, HasBatch, PopsFor, AtPc, NoBatch
  <2> QED BY <2>1, <2>2, <2>4, LocalsOfOthers
<1>15. ASSUME NEW t \in Threads, EmptyTop(t) PROVE Locals'
  <2>1. /\ Only(t) /\ thread'[t].pc = "emptyNext" /\ thread'[t].ret = thread[t].ret
        /\ thread'[t].max = thread[t].max /\ thread'[t].block = thread[t].block
        /\ thread'[t].key = thread[t].key /\ thread'[t].tempTop = chunkBlockPoolTop
        /\ thread'[t].batch = thread[t].batch
    BY <1>15, EmptyTopMoves DEF Becomes
  <2>2. LinksOf(t) /\ maxBlockCount' \in Nat /\ maxBlockCount <= maxBlockCount'
      BY <1>15, <1>t DEF EmptyTop, LinksOf, Holding
  <2>3. chunkBlockPoolTop # Null BY <1>15, EmptyFinds DEF EmptyTop
  <2>4. LocalsOf(t)'
      BY <1>15, <1>t, <1>l, <2>1, <2>3
        DEF EmptyTop, LocalsOf, Popping, HasBatch, PopsFor, AtPc, NoBatch
  <2> QED BY <2>1, <2>2, <2>4, LocalsOfOthers
<1>16. ASSUME NEW t \in Threads, EmptyNext(t) PROVE Locals'
  <2>1. /\ Only(t) /\ thread'[t].pc = "emptyPop" /\ thread'[t].ret = thread[t].ret
        /\ thread'[t].max = thread[t].max /\ thread'[t].block = thread[t].block
        /\ thread'[t].key = thread[t].key /\ thread'[t].tempTop = thread[t].tempTop
        /\ thread'[t].batch = thread[t].batch
    BY <1>16, EmptyNextMoves DEF Becomes
  <2>2. LinksOf(t) /\ maxBlockCount' \in Nat /\ maxBlockCount <= maxBlockCount'
      BY <1>16, <1>t DEF EmptyNext, LinksOf, Holding
  <2>3. LocalsOf(t)'
      BY <1>16, <1>t, <1>l, <2>1
        DEF EmptyNext, LocalsOf, Popping, HasBatch, PopsFor, AtPc, NoBatch
  <2> QED BY <2>1, <2>2, <2>3, LocalsOfOthers
<1>17. ASSUME NEW t \in Threads, EmptyPop(t) PROVE Locals'
  <2>1. CASE chunkBlockPoolTop = thread[t].tempTop
    <3>1. /\ Only(t) /\ thread'[t].pc = thread[t].ret /\ thread'[t].ret = "idle"
          /\ thread'[t].max = 0 /\ thread'[t].block = MAKE_NODEPTR(thread[t].tempTop)
          /\ thread'[t].key = Null /\ thread'[t].tempTop = Null
          /\ thread'[t].batch = thread[t].batch
      BY <1>17, <2>1, EmptyPopMoves DEF Becomes
    <3>2. LinksOf(t) /\ maxBlockCount' \in Nat /\ maxBlockCount <= maxBlockCount'
      BY <1>17, <1>t DEF EmptyPop, LinksOf, Holding
    <3>3. thread[t].ret \in {"renew", "fill"}
      BY <1>17, <1>t, <1>l DEF EmptyPop, LocalsOf, Popping, ThreadType
    <3>4. LocalsOf(t)'
      BY <1>17, <2>1, <1>t, <1>l, <3>1, <3>3
        DEF EmptyPop, LocalsOf, Popping, HasBatch, PopsFor, AtPc, NoBatch
    <3> QED BY <3>1, <3>2, <3>4, LocalsOfOthers
  <2>2. CASE chunkBlockPoolTop # thread[t].tempTop
    <3>1. /\ Only(t) /\ thread'[t].pc = "emptyTop" /\ thread'[t].ret = thread[t].ret
          /\ thread'[t].max = thread[t].max /\ thread'[t].block = thread[t].block
          /\ thread'[t].key = thread[t].key /\ thread'[t].tempTop = Null
          /\ thread'[t].batch = thread[t].batch
      BY <1>17, <2>2, EmptyPopMoves DEF Becomes
    <3>2. LinksOf(t) /\ maxBlockCount' \in Nat /\ maxBlockCount <= maxBlockCount'
      BY <1>17, <1>t DEF EmptyPop, LinksOf, Holding
    <3>3. LocalsOf(t)'
      BY <1>17, <2>2, <1>t, <1>l, <3>1
        DEF EmptyPop, LocalsOf, Popping, HasBatch, PopsFor, AtPc, NoBatch
    <3> QED BY <3>1, <3>2, <3>3, LocalsOfOthers
  <2> QED BY <2>1, <2>2
<1>18. ASSUME NEW t \in Threads, Fill(t) PROVE Locals'
  <2>1. /\ Only(t) /\ thread'[t].pc = "read" /\ thread'[t].ret = thread[t].ret
        /\ thread'[t].max = thread[t].max /\ thread'[t].block = thread[t].block
        /\ thread'[t].key = MAKE_KEY(thread[t].block, uniqueCount + 1)
        /\ thread'[t].tempTop = thread[t].tempTop /\ thread'[t].batch = NoBatch
    BY <1>18, FillMoves DEF Becomes
  <2>2. LinksOf(t) /\ maxBlockCount' \in Nat /\ maxBlockCount <= maxBlockCount'
      BY <1>18, <1>t DEF Fill, LinksOf, Holding
  <2>3. MAKE_NODEPTR(thread'[t].key) = thread[t].block BY <2>1 DEF MAKE_NODEPTR, MAKE_KEY
  <2>4. LocalsOf(t)'
      BY <1>18, <1>t, <1>l, <2>1, <2>3
        DEF Fill, LocalsOf, Popping, HasBatch, PopsFor, AtPc, NoBatch
  <2> QED BY <2>1, <2>2, <2>4, LocalsOfOthers
<1>19. ASSUME NEW t \in Threads, PushRead(t) PROVE Locals'
  <2>1. /\ Only(t) /\ thread'[t].pc = "push" /\ thread'[t].ret = thread[t].ret
        /\ thread'[t].max = thread[t].max /\ thread'[t].block = thread[t].block
        /\ thread'[t].key = thread[t].key /\ thread'[t].tempTop = topBlock
        /\ thread'[t].batch = thread[t].batch
    BY <1>19, PushReadMoves DEF Becomes
  <2>2. LinksOf(t) /\ maxBlockCount' \in Nat /\ maxBlockCount <= maxBlockCount'
    <3>1. thread[t].pc \in Holding BY <1>19 DEF PushRead, Holding
    <3>2. \E k : nextChunkBlock' = [nextChunkBlock EXCEPT ![thread[t].block] = k]
      BY <1>19 DEF PushRead
    <3>3. maxBlockCount' = maxBlockCount BY <1>19 DEF PushRead
    <3>4. LinksOf(t) BY <3>1, <3>2 DEF LinksOf
    <3> QED BY <1>t, <3>3, <3>4
  <2>3. nextChunkBlock'[thread[t].block] = thread'[t].tempTop
    <3>1. thread[t].block \in Blocks BY <1>19, Holders DEF PushRead
    <3> QED BY <1>19, <1>t, <2>1, <3>1 DEF PushRead
  <2>4. LocalsOf(t)'
      BY <1>19, <1>t, <1>l, <2>1, <2>3
        DEF PushRead, LocalsOf, Popping, HasBatch, PopsFor, AtPc, NoBatch
  <2> QED BY <2>1, <2>2, <2>4, LocalsOfOthers
<1>20. ASSUME NEW t \in Threads, PushBlock(t) PROVE Locals'
  <2>1. CASE topBlock = thread[t].tempTop
    <3>1. /\ Only(t) /\ thread'[t].pc = "count" /\ thread'[t].ret = thread[t].ret
          /\ thread'[t].max = thread[t].max /\ thread'[t].block = thread[t].block
          /\ thread'[t].key = thread[t].key /\ thread'[t].tempTop = thread[t].tempTop
          /\ thread'[t].batch = thread[t].batch
      BY <1>20, <2>1, PushBlockMoves DEF Becomes
    <3>2. LinksOf(t) /\ maxBlockCount' \in Nat /\ maxBlockCount <= maxBlockCount'
      BY <1>20, <1>t DEF PushBlock, LinksOf, Holding
    <3>3. LocalsOf(t)'
      BY <1>20, <2>1, <1>t, <1>l, <3>1
        DEF PushBlock, LocalsOf, Popping, HasBatch, PopsFor, AtPc, NoBatch
    <3> QED BY <3>1, <3>2, <3>3, LocalsOfOthers
  <2>2. CASE topBlock # thread[t].tempTop
    <3>1. /\ Only(t) /\ thread'[t].pc = "read" /\ thread'[t].ret = thread[t].ret
          /\ thread'[t].max = thread[t].max /\ thread'[t].block = thread[t].block
          /\ thread'[t].key = thread[t].key /\ thread'[t].tempTop = Null
          /\ thread'[t].batch = thread[t].batch
      BY <1>20, <2>2, PushBlockMoves DEF Becomes
    <3>2. LinksOf(t) /\ maxBlockCount' \in Nat /\ maxBlockCount <= maxBlockCount'
      BY <1>20, <1>t DEF PushBlock, LinksOf, Holding
    <3>3. LocalsOf(t)'
      BY <1>20, <2>2, <1>t, <1>l, <3>1
        DEF PushBlock, LocalsOf, Popping, HasBatch, PopsFor, AtPc, NoBatch
    <3> QED BY <3>1, <3>2, <3>3, LocalsOfOthers
  <2> QED BY <2>1, <2>2
<1>21. ASSUME NEW t \in Threads, PushCount(t) PROVE Locals'
  <2>1. /\ Only(t) /\ thread'[t].pc = "idle" /\ thread'[t].ret = "idle"
        /\ thread'[t].max = 0 /\ thread'[t].block = 0 /\ thread'[t].key = Null
        /\ thread'[t].tempTop = Null /\ thread'[t].batch = NoBatch
    BY <1>21, PushCountMoves DEF Becomes
  <2>2. LinksOf(t) /\ maxBlockCount' \in Nat /\ maxBlockCount <= maxBlockCount'
      BY <1>21, <1>t DEF PushCount, LinksOf, Holding
  <2>3. LocalsOf(t)'
      BY <1>21, <1>t, <1>l, <2>1
        DEF PushCount, LocalsOf, Popping, HasBatch, PopsFor, AtPc, NoBatch
  <2> QED BY <2>1, <2>2, <2>3, LocalsOfOthers
<1>22. CASE UNCHANGED vars BY <1>22, <1>l DEF Locals, LocalsOf, HasBatch, PopsFor, AtPc
<1> QED BY <1>1, <1>2, <1>3, <1>4, <1>5, <1>6, <1>7, <1>8, <1>9, <1>10, <1>11, <1>12, <1>13,
    <1>14, <1>15, <1>16, <1>17, <1>18, <1>19, <1>20, <1>21, <1>22
  DEF Next, Begin, Continue, PopFull, PopEmpty, PushEmpty, PushFull

\* What a step of t may do to the keys that are in stacks, pushed or popped.
FullGrows(t)  == \A k \in FullKeys' : k \in FullKeys \/ (thread[t].pc = "push" /\ k = thread[t].key)
EmptyGrows(t) ==
    \A k \in EmptyKeys' : k \in EmptyKeys \/ (thread[t].pc = "emptyPush" /\ k = thread[t].key)
Keeps(t, pcs) == /\ thread[t].pc \in pcs /\ thread'[t].pc \in pcs
                 /\ thread'[t].key = thread[t].key /\ thread'[t].tempTop = thread[t].tempTop
KeepsKey(t, pcs) == thread[t].pc \in pcs /\ thread'[t].key = thread[t].key
KeysOf(t) ==
    /\ Stacks' /\ Only(t) /\ LinksOf(t) /\ FullGrows(t) /\ EmptyGrows(t)
    /\ thread'[t].pc \in {"next", "pop"} =>
           ReadTop(t) \/ Keeps(t, {"next", "pop"})
    /\ thread'[t].pc \in {"emptyNext", "emptyPop"} =>
           EmptyTop(t) \/ Keeps(t, {"emptyNext", "emptyPop"})
    /\ thread'[t].pc \in {"read", "push"} =>
           Fill(t) \/ KeepsKey(t, {"read", "push"})
    /\ thread'[t].pc \in {"emptyRead", "emptyPush"} =>
           TakeNodes(t) \/ KeepsKey(t, {"emptyRead", "emptyPush"})
    /\ uniqueCount' = uniqueCount \/ Fill(t)
    /\ chunkBlockPoolUniqeCounter' = chunkBlockPoolUniqeCounter \/ TakeNodes(t)
    /\ thread'[t].pc = "pop" => ReadNext(t)
    /\ thread'[t].pc = "emptyPop" => EmptyNext(t)

LEMMA KeysMove ==
  ASSUME IInv, NEW t \in Threads, Begin(t) \/ Continue(t)
  PROVE  KeysOf(t)
<1>t. thread \in [Threads -> ThreadType] BY Types DEF IInv
<1>l. LocalsOf(t) BY DEF IInv, Locals
<1>1. ASSUME AllocChunk(t) PROVE KeysOf(t)
  <2>1. /\ Only(t) /\ thread'[t].pc = "test" /\ thread'[t].key = thread[t].key
        /\ thread'[t].tempTop = thread[t].tempTop /\ Quiet
    BY <1>1, AllocChunkMoves DEF Becomes
  <2>2. Stacks' /\ FullGrows(t) /\ EmptyGrows(t)
    BY <1>1, <2>1 DEF FullGrows, EmptyGrows, Quiet, AllocChunk
  <2>3. LinksOf(t) BY <1>1 DEF AllocChunk, LinksOf
  <2>4. uniqueCount' = uniqueCount \/ Fill(t)
    BY <1>1 DEF AllocChunk
  <2>5. chunkBlockPoolUniqeCounter' = chunkBlockPoolUniqeCounter \/ TakeNodes(t)
    BY <1>1 DEF AllocChunk
  <2>6. thread[t].pc = "idle" BY <1>1 DEF AllocChunk
  <2> QED BY <1>1, <2>1, <2>2, <2>3, <2>4, <2>5, <2>6 DEF KeysOf, Keeps, KeepsKey
<1>2. ASSUME FreeChunk(t) PROVE KeysOf(t)
  <2>1. Only(t) /\ thread'[t].pc = "claim" /\ Quiet BY <1>2, FreeChunkMoves DEF Becomes
  <2>2. Stacks' /\ FullGrows(t) /\ EmptyGrows(t)
    BY <1>2, <2>1 DEF FullGrows, EmptyGrows, Quiet, FreeChunk
  <2>3. LinksOf(t) BY <1>2 DEF FreeChunk, LinksOf
  <2>4. uniqueCount' = uniqueCount \/ Fill(t)
    BY <1>2 DEF FreeChunk
  <2>5. chunkBlockPoolUniqeCounter' = chunkBlockPoolUniqeCounter \/ TakeNodes(t)
    BY <1>2 DEF FreeChunk
  <2>6. thread[t].pc = "idle" BY <1>2 DEF FreeChunk
  <2> QED BY <1>2, <2>1, <2>2, <2>3, <2>4, <2>5, <2>6 DEF KeysOf, Keeps, KeepsKey
<1>3. ASSUME TestCount(t) PROVE KeysOf(t)
  <2>1. CASE thread[t].use >= maxBlockCount
    <3>1. /\ Only(t) /\ thread'[t].pc = "claim" /\ thread'[t].key = thread[t].key
          /\ thread'[t].tempTop = thread[t].tempTop /\ Quiet
      BY <1>3, <2>1, TestCountMoves DEF Becomes
    <3>2. Stacks' /\ FullGrows(t) /\ EmptyGrows(t)
      BY <1>3, <3>1 DEF FullGrows, EmptyGrows, Quiet, TestCount
    <3>3. LinksOf(t) BY <1>3 DEF TestCount, LinksOf
    <3>4. uniqueCount' = uniqueCount \/ Fill(t)
      BY <1>3 DEF TestCount
    <3>5. chunkBlockPoolUniqeCounter' = chunkBlockPoolUniqeCounter \/ TakeNodes(t)
      BY <1>3 DEF TestCount
    <3>6. thread[t].pc = "test" BY <1>3 DEF TestCount
    <3> QED BY <1>3, <2>1, <3>1, <3>2, <3>3, <3>4, <3>5, <3>6 DEF KeysOf, Keeps, KeepsKey
  <2>2. CASE thread[t].use < maxBlockCount
    <3>1. /\ Only(t) /\ thread'[t].pc = "top" /\ thread'[t].key = thread[t].key
          /\ thread'[t].tempTop = thread[t].tempTop /\ Quiet
      BY <1>3, <2>2, TestCountMoves DEF Becomes
    <3>2. Stacks' /\ FullGrows(t) /\ EmptyGrows(t)
      BY <1>3, <3>1 DEF FullGrows, EmptyGrows, Quiet, TestCount
    <3>3. LinksOf(t) BY <1>3 DEF TestCount, LinksOf
    <3>4. uniqueCount' = uniqueCount \/ Fill(t)
      BY <1>3 DEF TestCount
    <3>5. chunkBlockPoolUniqeCounter' = chunkBlockPoolUniqeCounter \/ TakeNodes(t)
      BY <1>3 DEF TestCount
    <3>6. thread[t].pc = "test" BY <1>3 DEF TestCount
    <3> QED BY <1>3, <2>2, <3>1, <3>2, <3>3, <3>4, <3>5, <3>6 DEF KeysOf, Keeps, KeepsKey
  <2>3. thread[t].use \in Nat /\ maxBlockCount \in Nat BY Types DEF IInv, ThreadType
  <2> QED BY <2>1, <2>2, <2>3
<1>4. ASSUME ReadTop(t) PROVE KeysOf(t)
  <2>1. /\ Only(t) /\ thread'[t].pc = "next" /\ thread'[t].key = thread[t].key
        /\ thread'[t].tempTop = topBlock /\ Quiet
    BY <1>4, ReadTopMoves DEF Becomes
  <2>2. Stacks' /\ FullGrows(t) /\ EmptyGrows(t)
    BY <1>4, <2>1 DEF FullGrows, EmptyGrows, Quiet, ReadTop
  <2>3. LinksOf(t) BY <1>4 DEF ReadTop, LinksOf
  <2>4. uniqueCount' = uniqueCount \/ Fill(t)
    BY <1>4 DEF ReadTop
  <2>5. chunkBlockPoolUniqeCounter' = chunkBlockPoolUniqeCounter \/ TakeNodes(t)
    BY <1>4 DEF ReadTop
  <2>6. thread[t].pc = "top" BY <1>4 DEF ReadTop
  <2> QED BY <1>4, <2>1, <2>2, <2>3, <2>4, <2>5, <2>6 DEF KeysOf, Keeps, KeepsKey
<1>5. ASSUME ReadNext(t) PROVE KeysOf(t)
  <2>1. /\ Only(t) /\ thread'[t].pc = "pop" /\ thread'[t].key = thread[t].key
        /\ thread'[t].tempTop = thread[t].tempTop /\ Quiet
    BY <1>5, ReadNextMoves DEF Becomes
  <2>2. Stacks' /\ FullGrows(t) /\ EmptyGrows(t)
    BY <1>5, <2>1 DEF FullGrows, EmptyGrows, Quiet, ReadNext
  <2>3. LinksOf(t) BY <1>5 DEF ReadNext, LinksOf
  <2>4. uniqueCount' = uniqueCount \/ Fill(t)
    BY <1>5 DEF ReadNext
  <2>5. chunkBlockPoolUniqeCounter' = chunkBlockPoolUniqeCounter \/ TakeNodes(t)
    BY <1>5 DEF ReadNext
  <2>6. thread[t].pc = "next" BY <1>5 DEF ReadNext
  <2> QED BY <1>5, <2>1, <2>2, <2>3, <2>4, <2>5, <2>6 DEF KeysOf, Keeps, KeepsKey
<1>6. ASSUME ReadNull(t) PROVE KeysOf(t)
  <2>1. /\ Only(t) /\ thread'[t].pc = "crashed" /\ thread'[t].key = thread[t].key
        /\ thread'[t].tempTop = thread[t].tempTop /\ Quiet
    BY <1>6, ReadNullMoves DEF Becomes
  <2>2. Stacks' /\ FullGrows(t) /\ EmptyGrows(t)
    BY <1>6, <2>1 DEF FullGrows, EmptyGrows, Quiet, ReadNull
  <2>3. LinksOf(t) BY <1>6 DEF ReadNull, LinksOf
  <2>4. uniqueCount' = uniqueCount \/ Fill(t)
    BY <1>6 DEF ReadNull
  <2>5. chunkBlockPoolUniqeCounter' = chunkBlockPoolUniqeCounter \/ TakeNodes(t)
    BY <1>6 DEF ReadNull
  <2>6. thread[t].pc = "next" BY <1>6 DEF ReadNull
  <2> QED BY <1>6, <2>1, <2>2, <2>3, <2>4, <2>5, <2>6 DEF KeysOf, Keeps, KeepsKey
<1>7. ASSUME PopBlock(t) PROVE KeysOf(t)
  <2>1. CASE topBlock = thread[t].tempTop
    <3>1. /\ Only(t) /\ thread'[t].pc = "take" /\ thread'[t].key = Null
          /\ thread'[t].tempTop = Null /\ FullPops
      BY <1>7, <2>1, PopBlockMoves DEF Becomes
    <3>2. Stacks' /\ FullGrows(t) /\ EmptyGrows(t)
      BY <1>7, <3>1 DEF FullGrows, EmptyGrows, FullPops, PopBlock
    <3>3. LinksOf(t) BY <1>7 DEF PopBlock, LinksOf
    <3>4. uniqueCount' = uniqueCount \/ Fill(t)
      BY <1>7 DEF PopBlock
    <3>5. chunkBlockPoolUniqeCounter' = chunkBlockPoolUniqeCounter \/ TakeNodes(t)
      BY <1>7 DEF PopBlock
    <3>6. thread[t].pc = "pop" BY <1>7 DEF PopBlock
    <3> QED BY <1>7, <2>1, <3>1, <3>2, <3>3, <3>4, <3>5, <3>6 DEF KeysOf, Keeps, KeepsKey
  <2>2. CASE topBlock # thread[t].tempTop
    <3>1. /\ Only(t) /\ thread'[t].pc = "top" /\ thread'[t].key = thread[t].key
          /\ thread'[t].tempTop = Null /\ Quiet
      BY <1>7, <2>2, PopBlockMoves DEF Becomes
    <3>2. Stacks' /\ FullGrows(t) /\ EmptyGrows(t)
      BY <1>7, <3>1 DEF FullGrows, EmptyGrows, Quiet, PopBlock
    <3>3. LinksOf(t) BY <1>7 DEF PopBlock, LinksOf
    <3>4. uniqueCount' = uniqueCount \/ Fill(t)
      BY <1>7 DEF PopBlock
    <3>5. chunkBlockPoolUniqeCounter' = chunkBlockPoolUniqeCounter \/ TakeNodes(t)
      BY <1>7 DEF PopBlock
    <3>6. thread[t].pc = "pop" BY <1>7 DEF PopBlock
    <3> QED BY <1>7, <2>2, <3>1, <3>2, <3>3, <3>4, <3>5, <3>6 DEF KeysOf, Keeps, KeepsKey
  <2> QED BY <2>1, <2>2
<1>8. ASSUME NewChunkBlock(t) PROVE KeysOf(t)
  <2>1. /\ Only(t) /\ thread'[t].pc = "take" /\ thread'[t].key = thread[t].key
        /\ thread'[t].tempTop = thread[t].tempTop /\ Quiet
    BY <1>8, NewChunkBlockMoves DEF Becomes
  <2>2. Stacks' /\ FullGrows(t) /\ EmptyGrows(t)
    BY <1>8, <2>1 DEF FullGrows, EmptyGrows, Quiet, NewChunkBlock
  <2>3. LinksOf(t) BY <1>8 DEF NewChunkBlock, LinksOf
  <2>4. uniqueCount' = uniqueCount \/ Fill(t)
    BY <1>8 DEF NewChunkBlock
  <2>5. chunkBlockPoolUniqeCounter' = chunkBlockPoolUniqeCounter \/ TakeNodes(t)
    BY <1>8 DEF NewChunkBlock
  <2>6. thread[t].pc = "renew" BY <1>8 DEF NewChunkBlock
  <2> QED BY <1>8, <2>1, <2>2, <2>3, <2>4, <2>5, <2>6 DEF KeysOf, Keeps, KeepsKey
<1>9. ASSUME TakeNodes(t) PROVE KeysOf(t)
  <2>1. /\ Only(t) /\ thread'[t].pc = "emptyRead"
        /\ thread'[t].key = MAKE_KEY(thread[t].block, chunkBlockPoolUniqeCounter + 1)
        /\ thread'[t].tempTop = thread[t].tempTop /\ Quiet
    BY <1>9, TakeNodesMoves DEF Becomes
  <2>2. Stacks' /\ FullGrows(t) /\ EmptyGrows(t)
    BY <1>9, <2>1 DEF FullGrows, EmptyGrows, Quiet, TakeNodes
  <2>3. LinksOf(t) BY <1>9 DEF TakeNodes, LinksOf
  <2>4. uniqueCount' = uniqueCount \/ Fill(t)
    BY <1>9 DEF TakeNodes
  <2>5. chunkBlockPoolUniqeCounter' = chunkBlockPoolUniqeCounter \/ TakeNodes(t)
    BY <1>9 DEF TakeNodes
  <2>6. thread[t].pc = "take" BY <1>9 DEF TakeNodes
  <2> QED BY <1>9, <2>1, <2>2, <2>3, <2>4, <2>5, <2>6 DEF KeysOf, Keeps, KeepsKey
<1>10. ASSUME EmptyRead(t) PROVE KeysOf(t)
  <2>1. /\ Only(t) /\ thread'[t].pc = "emptyPush" /\ thread'[t].key = thread[t].key
        /\ thread'[t].tempTop = chunkBlockPoolTop /\ Quiet
    BY <1>10, EmptyReadMoves DEF Becomes
  <2>2. Stacks' /\ FullGrows(t) /\ EmptyGrows(t)
    BY <1>10, <2>1 DEF FullGrows, EmptyGrows, Quiet, EmptyRead
  <2>3. LinksOf(t)
    <3>1. thread[t].pc \in Holding BY <1>10 DEF EmptyRead, Holding
    <3>2. \E k : nextChunkBlock' = [nextChunkBlock EXCEPT ![thread[t].block] = k]
      BY <1>10 DEF EmptyRead
    <3> QED BY <3>1, <3>2 DEF LinksOf
  <2>4. uniqueCount' = uniqueCount \/ Fill(t)
    BY <1>10 DEF EmptyRead
  <2>5. chunkBlockPoolUniqeCounter' = chunkBlockPoolUniqeCounter \/ TakeNodes(t)
    BY <1>10 DEF EmptyRead
  <2>6. thread[t].pc = "emptyRead" BY <1>10 DEF EmptyRead
  <2> QED BY <1>10, <2>1, <2>2, <2>3, <2>4, <2>5, <2>6 DEF KeysOf, Keeps, KeepsKey
<1>11. ASSUME EmptyPush(t) PROVE KeysOf(t)
  <2>1. CASE chunkBlockPoolTop = thread[t].tempTop
    <3>1. /\ Only(t) /\ thread'[t].pc = "emptyCount" /\ thread'[t].key = thread[t].key
          /\ thread'[t].tempTop = thread[t].tempTop /\ EmptyPushes(t)
      BY <1>11, <2>1, EmptyPushMoves DEF Becomes
    <3>2. Stacks' /\ FullGrows(t) /\ EmptyGrows(t)
      BY <1>11, <3>1 DEF FullGrows, EmptyGrows, EmptyPushes, EmptyPush
    <3>3. LinksOf(t) BY <1>11 DEF EmptyPush, LinksOf
    <3>4. uniqueCount' = uniqueCount \/ Fill(t)
      BY <1>11 DEF EmptyPush
    <3>5. chunkBlockPoolUniqeCounter' = chunkBlockPoolUniqeCounter \/ TakeNodes(t)
      BY <1>11 DEF EmptyPush
    <3>6. thread[t].pc = "emptyPush" BY <1>11 DEF EmptyPush
    <3> QED BY <1>11, <2>1, <3>1, <3>2, <3>3, <3>4, <3>5, <3>6 DEF KeysOf, Keeps, KeepsKey
  <2>2. CASE chunkBlockPoolTop # thread[t].tempTop
    <3>1. /\ Only(t) /\ thread'[t].pc = "emptyRead" /\ thread'[t].key = thread[t].key
          /\ thread'[t].tempTop = Null /\ Quiet
      BY <1>11, <2>2, EmptyPushMoves DEF Becomes
    <3>2. Stacks' /\ FullGrows(t) /\ EmptyGrows(t)
      BY <1>11, <3>1 DEF FullGrows, EmptyGrows, Quiet, EmptyPush
    <3>3. LinksOf(t) BY <1>11 DEF EmptyPush, LinksOf
    <3>4. uniqueCount' = uniqueCount \/ Fill(t)
      BY <1>11 DEF EmptyPush
    <3>5. chunkBlockPoolUniqeCounter' = chunkBlockPoolUniqeCounter \/ TakeNodes(t)
      BY <1>11 DEF EmptyPush
    <3>6. thread[t].pc = "emptyPush" BY <1>11 DEF EmptyPush
    <3> QED BY <1>11, <2>2, <3>1, <3>2, <3>3, <3>4, <3>5, <3>6 DEF KeysOf, Keeps, KeepsKey
  <2> QED BY <2>1, <2>2
<1>12. ASSUME EmptyCount(t) PROVE KeysOf(t)
  <2>1. /\ Only(t) /\ thread'[t].pc = "idle" /\ thread'[t].key = Null
        /\ thread'[t].tempTop = Null /\ Quiet
    BY <1>12, EmptyCountMoves DEF Becomes
  <2>2. Stacks' /\ FullGrows(t) /\ EmptyGrows(t)
    BY <1>12, <2>1 DEF FullGrows, EmptyGrows, Quiet, EmptyCount
  <2>3. LinksOf(t) BY <1>12 DEF EmptyCount, LinksOf
  <2>4. uniqueCount' = uniqueCount \/ Fill(t)
    BY <1>12 DEF EmptyCount
  <2>5. chunkBlockPoolUniqeCounter' = chunkBlockPoolUniqeCounter \/ TakeNodes(t)
    BY <1>12 DEF EmptyCount
  <2>6. thread[t].pc = "emptyCount" BY <1>12 DEF EmptyCount
  <2> QED BY <1>12, <2>1, <2>2, <2>3, <2>4, <2>5, <2>6 DEF KeysOf, Keeps, KeepsKey
<1>13. ASSUME Claim(t) PROVE KeysOf(t)
  <2>1. CASE chunkBlockPoolSize - 1 < 0
    <3>1. /\ Only(t) /\ thread'[t].pc = "undo" /\ thread'[t].key = thread[t].key
          /\ thread'[t].tempTop = thread[t].tempTop /\ Quiet
      BY <1>13, <2>1, ClaimMoves DEF Becomes
    <3>2. Stacks' /\ FullGrows(t) /\ EmptyGrows(t)
      BY <1>13, <3>1 DEF FullGrows, EmptyGrows, Quiet, Claim
    <3>3. LinksOf(t) BY <1>13 DEF Claim, LinksOf
    <3>4. uniqueCount' = uniqueCount \/ Fill(t)
      BY <1>13 DEF Claim
    <3>5. chunkBlockPoolUniqeCounter' = chunkBlockPoolUniqeCounter \/ TakeNodes(t)
      BY <1>13 DEF Claim
    <3>6. thread[t].pc = "claim" BY <1>13 DEF Claim
    <3> QED BY <1>13, <2>1, <3>1, <3>2, <3>3, <3>4, <3>5, <3>6 DEF KeysOf, Keeps, KeepsKey
  <2>2. CASE chunkBlockPoolSize - 1 >= 0
    <3>1. /\ Only(t) /\ thread'[t].pc = "emptyTop" /\ thread'[t].key = thread[t].key
          /\ thread'[t].tempTop = thread[t].tempTop /\ Quiet
      BY <1>13, <2>2, ClaimMoves DEF Becomes
    <3>2. Stacks' /\ FullGrows(t) /\ EmptyGrows(t)
      BY <1>13, <3>1 DEF FullGrows, EmptyGrows, Quiet, Claim
    <3>3. LinksOf(t) BY <1>13 DEF Claim, LinksOf
    <3>4. uniqueCount' = uniqueCount \/ Fill(t)
      BY <1>13 DEF Claim
    <3>5. chunkBlockPoolUniqeCounter' = chunkBlockPoolUniqeCounter \/ TakeNodes(t)
      BY <1>13 DEF Claim
    <3>6. thread[t].pc = "claim" BY <1>13 DEF Claim
    <3> QED BY <1>13, <2>2, <3>1, <3>2, <3>3, <3>4, <3>5, <3>6 DEF KeysOf, Keeps, KeepsKey
  <2>3. chunkBlockPoolSize \in Int BY Types DEF IInv
  <2> QED BY <2>1, <2>2, <2>3
<1>14. ASSUME NewBlock(t) PROVE KeysOf(t)
  <2>1. /\ Only(t) /\ thread'[t].pc = thread[t].ret /\ thread'[t].key = Null
        /\ thread'[t].tempTop = Null /\ Quiet
    BY <1>14, NewBlockMoves DEF Becomes
  <2>2. Stacks' /\ FullGrows(t) /\ EmptyGrows(t)
    BY <1>14, <2>1 DEF FullGrows, EmptyGrows, Quiet, NewBlock
  <2>3. LinksOf(t) BY <1>14 DEF NewBlock, LinksOf
  <2>4. thread[t].ret \in {"renew", "fill"}
    BY <1>14, <1>t, <1>l DEF NewBlock, LocalsOf, Popping, ThreadType
  <2>5. uniqueCount' = uniqueCount \/ Fill(t)
    BY <1>14 DEF NewBlock
  <2>6. chunkBlockPoolUniqeCounter' = chunkBlockPoolUniqeCounter \/ TakeNodes(t)
    BY <1>14 DEF NewBlock
  <2>7. thread[t].pc = "undo" BY <1>14 DEF NewBlock
  <2> QED BY <1>14, <2>1, <2>2, <2>3, <2>4, <2>5, <2>6, <2>7 DEF KeysOf, Keeps, KeepsKey
<1>15. ASSUME EmptyTop(t) PROVE KeysOf(t)
  <2>1. /\ Only(t) /\ thread'[t].pc = "emptyNext" /\ thread'[t].key = thread[t].key
        /\ thread'[t].tempTop = chunkBlockPoolTop /\ Quiet
    BY <1>15, EmptyTopMoves DEF Becomes
  <2>2. Stacks' /\ FullGrows(t) /\ EmptyGrows(t)
    BY <1>15, <2>1 DEF FullGrows, EmptyGrows, Quiet, EmptyTop
  <2>3. LinksOf(t) BY <1>15 DEF EmptyTop, LinksOf
  <2>4. uniqueCount' = uniqueCount \/ Fill(t)
    BY <1>15 DEF EmptyTop
  <2>5. chunkBlockPoolUniqeCounter' = chunkBlockPoolUniqeCounter \/ TakeNodes(t)
    BY <1>15 DEF EmptyTop
  <2>6. thread[t].pc = "emptyTop" BY <1>15 DEF EmptyTop
  <2> QED BY <1>15, <2>1, <2>2, <2>3, <2>4, <2>5, <2>6 DEF KeysOf, Keeps, KeepsKey
<1>16. ASSUME EmptyNext(t) PROVE KeysOf(t)
  <2>1. /\ Only(t) /\ thread'[t].pc = "emptyPop" /\ thread'[t].key = thread[t].key
        /\ thread'[t].tempTop = thread[t].tempTop /\ Quiet
    BY <1>16, EmptyNextMoves DEF Becomes
  <2>2. Stacks' /\ FullGrows(t) /\ EmptyGrows(t)
    BY <1>16, <2>1 DEF FullGrows, EmptyGrows, Quiet, EmptyNext
  <2>3. LinksOf(t) BY <1>16 DEF EmptyNext, LinksOf
  <2>4. uniqueCount' = uniqueCount \/ Fill(t)
    BY <1>16 DEF EmptyNext
  <2>5. chunkBlockPoolUniqeCounter' = chunkBlockPoolUniqeCounter \/ TakeNodes(t)
    BY <1>16 DEF EmptyNext
  <2>6. thread[t].pc = "emptyNext" BY <1>16 DEF EmptyNext
  <2> QED BY <1>16, <2>1, <2>2, <2>3, <2>4, <2>5, <2>6 DEF KeysOf, Keeps, KeepsKey
<1>17. ASSUME EmptyPop(t) PROVE KeysOf(t)
  <2>1. CASE chunkBlockPoolTop = thread[t].tempTop
    <3>1. /\ Only(t) /\ thread'[t].pc = thread[t].ret /\ thread'[t].key = Null
          /\ thread'[t].tempTop = Null /\ EmptyPops
      BY <1>17, <2>1, EmptyPopMoves DEF Becomes
    <3>2. Stacks' /\ FullGrows(t) /\ EmptyGrows(t)
      BY <1>17, <3>1 DEF FullGrows, EmptyGrows, EmptyPops, EmptyPop
    <3>3. LinksOf(t) BY <1>17 DEF EmptyPop, LinksOf
    <3>4. thread[t].ret \in {"renew", "fill"}
      BY <1>17, <1>t, <1>l DEF EmptyPop, LocalsOf, Popping, ThreadType
    <3>5. uniqueCount' = uniqueCount \/ Fill(t)
      BY <1>17 DEF EmptyPop
    <3>6. chunkBlockPoolUniqeCounter' = chunkBlockPoolUniqeCounter \/ TakeNodes(t)
      BY <1>17 DEF EmptyPop
    <3>7. thread[t].pc = "emptyPop" BY <1>17 DEF EmptyPop
    <3> QED BY <1>17, <2>1, <3>1, <3>2, <3>3, <3>4, <3>5, <3>6, <3>7
      DEF KeysOf, Keeps, KeepsKey
  <2>2. CASE chunkBlockPoolTop # thread[t].tempTop
    <3>1. /\ Only(t) /\ thread'[t].pc = "emptyTop" /\ thread'[t].key = thread[t].key
          /\ thread'[t].tempTop = Null /\ Quiet
      BY <1>17, <2>2, EmptyPopMoves DEF Becomes
    <3>2. Stacks' /\ FullGrows(t) /\ EmptyGrows(t)
      BY <1>17, <3>1 DEF FullGrows, EmptyGrows, Quiet, EmptyPop
    <3>3. LinksOf(t) BY <1>17 DEF EmptyPop, LinksOf
    <3>4. uniqueCount' = uniqueCount \/ Fill(t)
      BY <1>17 DEF EmptyPop
    <3>5. chunkBlockPoolUniqeCounter' = chunkBlockPoolUniqeCounter \/ TakeNodes(t)
      BY <1>17 DEF EmptyPop
    <3>6. thread[t].pc = "emptyPop" BY <1>17 DEF EmptyPop
    <3> QED BY <1>17, <2>2, <3>1, <3>2, <3>3, <3>4, <3>5, <3>6 DEF KeysOf, Keeps, KeepsKey
  <2> QED BY <2>1, <2>2
<1>18. ASSUME Fill(t) PROVE KeysOf(t)
  <2>1. /\ Only(t) /\ thread'[t].pc = "read"
        /\ thread'[t].key = MAKE_KEY(thread[t].block, uniqueCount + 1)
        /\ thread'[t].tempTop = thread[t].tempTop /\ Quiet
    BY <1>18, FillMoves DEF Becomes
  <2>2. Stacks' /\ FullGrows(t) /\ EmptyGrows(t)
    BY <1>18, <2>1 DEF FullGrows, EmptyGrows, Quiet, Fill
  <2>3. LinksOf(t) BY <1>18 DEF Fill, LinksOf
  <2>4. uniqueCount' = uniqueCount \/ Fill(t)
    BY <1>18 DEF Fill
  <2>5. chunkBlockPoolUniqeCounter' = chunkBlockPoolUniqeCounter \/ TakeNodes(t)
    BY <1>18 DEF Fill
  <2>6. thread[t].pc = "fill" BY <1>18 DEF Fill
  <2> QED BY <1>18, <2>1, <2>2, <2>3, <2>4, <2>5, <2>6 DEF KeysOf, Keeps, KeepsKey
<1>19. ASSUME PushRead(t) PROVE KeysOf(t)
  <2>1. /\ Only(t) /\ thread'[t].pc = "push" /\ thread'[t].key = thread[t].key
        /\ thread'[t].tempTop = topBlock /\ Quiet
    BY <1>19, PushReadMoves DEF Becomes
  <2>2. Stacks' /\ FullGrows(t) /\ EmptyGrows(t)
    BY <1>19, <2>1 DEF FullGrows, EmptyGrows, Quiet, PushRead
  <2>3. LinksOf(t)
    <3>1. thread[t].pc \in Holding BY <1>19 DEF PushRead, Holding
    <3>2. \E k : nextChunkBlock' = [nextChunkBlock EXCEPT ![thread[t].block] = k]
      BY <1>19 DEF PushRead
    <3> QED BY <3>1, <3>2 DEF LinksOf
  <2>4. uniqueCount' = uniqueCount \/ Fill(t)
    BY <1>19 DEF PushRead
  <2>5. chunkBlockPoolUniqeCounter' = chunkBlockPoolUniqeCounter \/ TakeNodes(t)
    BY <1>19 DEF PushRead
  <2>6. thread[t].pc = "read" BY <1>19 DEF PushRead
  <2> QED BY <1>19, <2>1, <2>2, <2>3, <2>4, <2>5, <2>6 DEF KeysOf, Keeps, KeepsKey
<1>20. ASSUME PushBlock(t) PROVE KeysOf(t)
  <2>1. CASE topBlock = thread[t].tempTop
    <3>1. /\ Only(t) /\ thread'[t].pc = "count" /\ thread'[t].key = thread[t].key
          /\ thread'[t].tempTop = thread[t].tempTop /\ FullPushes(t)
      BY <1>20, <2>1, PushBlockMoves DEF Becomes
    <3>2. Stacks' /\ FullGrows(t) /\ EmptyGrows(t)
      BY <1>20, <3>1 DEF FullGrows, EmptyGrows, FullPushes, PushBlock
    <3>3. LinksOf(t) BY <1>20 DEF PushBlock, LinksOf
    <3>4. uniqueCount' = uniqueCount \/ Fill(t)
      BY <1>20 DEF PushBlock
    <3>5. chunkBlockPoolUniqeCounter' = chunkBlockPoolUniqeCounter \/ TakeNodes(t)
      BY <1>20 DEF PushBlock
    <3>6. thread[t].pc = "push" BY <1>20 DEF PushBlock
    <3> QED BY <1>20, <2>1, <3>1, <3>2, <3>3, <3>4, <3>5, <3>6 DEF KeysOf, Keeps, KeepsKey
  <2>2. CASE topBlock # thread[t].tempTop
    <3>1. /\ Only(t) /\ thread'[t].pc = "read" /\ thread'[t].key = thread[t].key
          /\ thread'[t].tempTop = Null /\ Quiet
      BY <1>20, <2>2, PushBlockMoves DEF Becomes
    <3>2. Stacks' /\ FullGrows(t) /\ EmptyGrows(t)
      BY <1>20, <3>1 DEF FullGrows, EmptyGrows, Quiet, PushBlock
    <3>3. LinksOf(t) BY <1>20 DEF PushBlock, LinksOf
    <3>4. uniqueCount' = uniqueCount \/ Fill(t)
      BY <1>20 DEF PushBlock
    <3>5. chunkBlockPoolUniqeCounter' = chunkBlockPoolUniqeCounter \/ TakeNodes(t)
      BY <1>20 DEF PushBlock
    <3>6. thread[t].pc = "push" BY <1>20 DEF PushBlock
    <3> QED BY <1>20, <2>2, <3>1, <3>2, <3>3, <3>4, <3>5, <3>6 DEF KeysOf, Keeps, KeepsKey
  <2> QED BY <2>1, <2>2
<1>21. ASSUME PushCount(t) PROVE KeysOf(t)
  <2>1. /\ Only(t) /\ thread'[t].pc = "idle" /\ thread'[t].key = Null
        /\ thread'[t].tempTop = Null /\ Quiet
    BY <1>21, PushCountMoves DEF Becomes
  <2>2. Stacks' /\ FullGrows(t) /\ EmptyGrows(t)
    BY <1>21, <2>1 DEF FullGrows, EmptyGrows, Quiet, PushCount
  <2>3. LinksOf(t) BY <1>21 DEF PushCount, LinksOf
  <2>4. uniqueCount' = uniqueCount \/ Fill(t)
    BY <1>21 DEF PushCount
  <2>5. chunkBlockPoolUniqeCounter' = chunkBlockPoolUniqeCounter \/ TakeNodes(t)
    BY <1>21 DEF PushCount
  <2>6. thread[t].pc = "count" BY <1>21 DEF PushCount
  <2> QED BY <1>21, <2>1, <2>2, <2>3, <2>4, <2>5, <2>6 DEF KeysOf, Keeps, KeepsKey
<1> QED BY <1>1, <1>2, <1>3, <1>4, <1>5, <1>6, <1>7, <1>8, <1>9, <1>10, <1>11, <1>12, <1>13,
    <1>14, <1>15, <1>16, <1>17, <1>18, <1>19, <1>20, <1>21
  DEF Begin, Continue, PopFull, PopEmpty, PushEmpty, PushFull

\* A key that a thread read from a stack is not pushed again.
LEMMA NumbersStep ==
  ASSUME IInv, NEW t \in Threads, Begin(t) \/ Continue(t)
  PROVE  Numbers'
<1> DEFINE readers == {"next", "pop"}
           writers == {"read", "push"}
           n == uniqueCount
<1>1. KeysOf(t) /\ Only(t) BY KeysMove DEF KeysOf
<1>2. n \in Nat /\ \A u \in Threads : thread[u].key \in KeyType /\ thread[u].tempTop \in KeyType
  BY Types DEF IInv, ThreadType
<1>3. \A u \in Threads : thread[u].key[2] \in Nat /\ thread[u].tempTop[2] \in Nat
  BY <1>2, KeyTypes
<1>4. /\ \A k \in FullKeys : k[2] <= n
      /\ \A u \in Threads : thread[u].pc \in writers => thread[u].key[2] <= n
      /\ \A u \in Threads : thread[u].pc \in readers =>
             /\ thread[u].tempTop[2] <= n
             /\ \A v \in Threads : thread[v].pc \in writers => thread[v].key # thread[u].tempTop
  BY DEF IInv, Numbers, AtPc
<1>5. FullKeys \subseteq Key
  <2>1. Stacked(nextChunkBlock, topBlock) BY DEF IInv, Stacks
  <2> QED BY <2>1, StackFacts DEF FullKeys
<1>6. \A k \in FullKeys : k[2] \in Nat BY <1>5 DEF Key
<1> DEFINE m == n'
<1>7. ASSUME Fill(t)
      PROVE  /\ m = n + 1 /\ thread'[t].key[2] = n + 1 /\ thread'[t].pc \in writers
             /\ FullKeys' = FullKeys
  <2>1. /\ thread'[t].key = MAKE_KEY(thread[t].block, n + 1) /\ thread'[t].pc \in writers
        /\ FullKeys' = FullKeys
    BY <1>7, FillMoves DEF Becomes, Quiet
  <2>2. m = n + 1 BY <1>7 DEF Fill
  <2> QED BY <2>1, <2>2 DEF MAKE_KEY
<1>8. ASSUME ReadTop(t)
      PROVE  /\ thread'[t].tempTop = topBlock /\ topBlock[2] \in Nat /\ topBlock[2] <= n
             /\ \A v \in Threads : thread[v].pc \in writers => thread[v].key # topBlock
  <2>1. thread'[t].tempTop = topBlock BY <1>8, ReadTopMoves DEF Becomes
  <2>2. Stacked(nextChunkBlock, topBlock) BY DEF IInv, Stacks
  <2>3. CASE topBlock = Null
    <3>1. topBlock[2] = 0 /\ MAKE_NODEPTR(topBlock) = 0 BY <2>3 DEF Null, MAKE_NODEPTR
    <3>2. ASSUME NEW v \in Threads, thread[v].pc \in writers PROVE thread[v].key # topBlock
      <4>1. MAKE_NODEPTR(thread[v].key) = thread[v].block BY <3>2 DEF IInv, Locals, LocalsOf
      <4>2. thread[v].block \in Blocks BY <3>2, Holders
      <4> QED BY <3>1, <4>1, <4>2, NumberOfBlocks
    <3> QED BY <1>2, <2>1, <3>1, <3>2
  <2>4. CASE topBlock # Null
    <3>1. topBlock \in FullKeys /\ MAKE_NODEPTR(topBlock) \in Full
      BY <2>2, <2>4, StackFacts DEF FullKeys, Full
    <3>2. ASSUME NEW v \in Threads, thread[v].pc \in writers PROVE thread[v].key # topBlock
      <4>1. MAKE_NODEPTR(thread[v].key) = thread[v].block BY <3>2 DEF IInv, Locals, LocalsOf
      <4>2. thread[v].block \notin Full BY <3>2, Holders
      <4> QED BY <3>1, <4>1, <4>2
    <3> QED BY <1>4, <1>6, <2>1, <3>1, <3>2
  <2> QED BY <2>3, <2>4
<1>9. m = n \/ Fill(t) BY <1>1 DEF KeysOf
<1>10. m \in Nat /\ n <= m BY <1>2, <1>7, <1>9
<1>11. \A u \in Threads : u # t => thread'[u] = thread[u] BY <1>1 DEF Only
<1>12. thread'[t].pc \in writers =>
         Fill(t) \/ (thread[t].pc \in writers /\ thread'[t].key = thread[t].key)
  BY <1>1 DEF KeysOf, KeepsKey
<1>13. thread'[t].pc \in readers =>
         ReadTop(t) \/ (thread[t].pc \in readers /\ thread'[t].tempTop = thread[t].tempTop)
  BY <1>1 DEF KeysOf, Keeps
<1>14. \A k \in FullKeys' : k \in FullKeys \/ (thread[t].pc \in writers /\ k = thread[t].key)
  BY <1>1 DEF KeysOf, FullGrows
<1>15. \A pc : pc \in writers => pc \notin readers OBVIOUS
<1> HIDE DEF readers, writers, m, n
<1>16. ASSUME NEW k \in FullKeys' PROVE k[2] <= m
  <2>1. k[2] \in Nat /\ k[2] <= n BY <1>3, <1>4, <1>6, <1>14
  <2> QED BY <1>2, <1>10, <2>1
<1>17. ASSUME NEW u \in Threads, thread'[u].pc \in writers PROVE thread'[u].key[2] <= m
  <2>1. CASE u = t /\ Fill(t) BY <1>2, <1>7, <2>1
  <2>2. CASE u # t \/ ~Fill(t)
    <3>1. thread'[u].key = thread[u].key /\ thread[u].pc \in writers
      BY <1>11, <1>12, <1>17, <2>2
    <3> QED BY <1>2, <1>3, <1>4, <1>10, <3>1
  <2> QED BY <2>1, <2>2
<1>18. ASSUME NEW u \in Threads, thread'[u].pc \in readers PROVE thread'[u].tempTop[2] <= m
  <2>1. CASE u = t /\ ReadTop(t) BY <1>2, <1>8, <1>10, <2>1
  <2>2. CASE u # t \/ ~ReadTop(t)
    <3>1. thread'[u].tempTop = thread[u].tempTop /\ thread[u].pc \in readers
      BY <1>11, <1>13, <1>18, <2>2
    <3> QED BY <1>2, <1>3, <1>4, <1>10, <3>1
  <2> QED BY <2>1, <2>2
<1>19. ASSUME NEW u \in Threads, NEW v \in Threads,
              thread'[u].pc \in readers, thread'[v].pc \in writers
       PROVE  thread'[v].key # thread'[u].tempTop
  <2>1. u # v BY <1>15, <1>19
  <2>2. CASE v = t /\ Fill(t)
    <3>1. thread'[u].tempTop = thread[u].tempTop /\ thread[u].pc \in readers
      BY <1>11, <1>19, <2>1, <2>2
    <3>2. thread'[u].tempTop[2] \in Nat /\ thread'[u].tempTop[2] <= n BY <1>3, <1>4, <3>1
    <3>3. thread'[v].key[2] = n + 1 BY <1>7, <2>2
    <3>4. thread'[v].key[2] # thread'[u].tempTop[2] BY <1>2, <3>2, <3>3
    <3> QED BY <3>4
  <2>3. CASE u = t /\ ReadTop(t)
    <3>1. thread'[v].key = thread[v].key /\ thread[v].pc \in writers
      BY <1>11, <1>19, <2>1, <2>3
    <3> QED BY <1>8, <2>3, <3>1
  <2>4. CASE ~(v = t /\ Fill(t)) /\ ~(u = t /\ ReadTop(t))
    <3>1. thread'[v].key = thread[v].key /\ thread[v].pc \in writers
      BY <1>11, <1>12, <1>19, <2>4
    <3>2. thread'[u].tempTop = thread[u].tempTop /\ thread[u].pc \in readers
      BY <1>11, <1>13, <1>19, <2>4
    <3> QED BY <1>4, <3>1, <3>2
  <2> QED BY <2>2, <2>3, <2>4
<1> QED BY <1>16, <1>17, <1>18, <1>19 DEF Numbers, AtPc, readers, writers, m, n

\* The same for the stack of empty blocks.
LEMMA EmptyNumbersStep ==
  ASSUME IInv, NEW t \in Threads, Begin(t) \/ Continue(t)
  PROVE  EmptyNumbers'
<1> DEFINE readers == {"emptyNext", "emptyPop"}
           writers == {"emptyRead", "emptyPush"}
           n == chunkBlockPoolUniqeCounter
<1>1. KeysOf(t) /\ Only(t) BY KeysMove DEF KeysOf
<1>2. n \in Nat /\ \A u \in Threads : thread[u].key \in KeyType /\ thread[u].tempTop \in KeyType
  BY Types DEF IInv, ThreadType
<1>3. \A u \in Threads : thread[u].key[2] \in Nat /\ thread[u].tempTop[2] \in Nat
  BY <1>2, KeyTypes
<1>4. /\ \A k \in EmptyKeys : k[2] <= n
      /\ \A u \in Threads : thread[u].pc \in writers => thread[u].key[2] <= n
      /\ \A u \in Threads : thread[u].pc \in readers =>
             /\ thread[u].tempTop[2] <= n
             /\ \A v \in Threads : thread[v].pc \in writers => thread[v].key # thread[u].tempTop
  BY DEF IInv, EmptyNumbers, AtPc
<1>5. EmptyKeys \subseteq Key
  <2>1. Stacked(nextChunkBlock, chunkBlockPoolTop) BY DEF IInv, Stacks
  <2> QED BY <2>1, StackFacts DEF EmptyKeys
<1>6. \A k \in EmptyKeys : k[2] \in Nat BY <1>5 DEF Key
<1> DEFINE m == n'
<1>7. ASSUME TakeNodes(t)
      PROVE  /\ m = n + 1 /\ thread'[t].key[2] = n + 1 /\ thread'[t].pc \in writers
             /\ EmptyKeys' = EmptyKeys
  <2>1. /\ thread'[t].key = MAKE_KEY(thread[t].block, n + 1) /\ thread'[t].pc \in writers
        /\ EmptyKeys' = EmptyKeys
    BY <1>7, TakeNodesMoves DEF Becomes, Quiet
  <2>2. m = n + 1 BY <1>7 DEF TakeNodes
  <2> QED BY <2>1, <2>2 DEF MAKE_KEY
<1>8. ASSUME EmptyTop(t)
      PROVE  /\ thread'[t].tempTop = chunkBlockPoolTop /\ chunkBlockPoolTop[2] \in Nat /\ chunkBlockPoolTop[2] <= n
             /\ \A v \in Threads : thread[v].pc \in writers => thread[v].key # chunkBlockPoolTop
  <2>1. thread'[t].tempTop = chunkBlockPoolTop BY <1>8, EmptyTopMoves DEF Becomes
  <2>2. Stacked(nextChunkBlock, chunkBlockPoolTop) BY DEF IInv, Stacks
  <2>3. CASE chunkBlockPoolTop = Null
    <3>1. chunkBlockPoolTop[2] = 0 /\ MAKE_NODEPTR(chunkBlockPoolTop) = 0
      BY <2>3 DEF Null, MAKE_NODEPTR
    <3>2. ASSUME NEW v \in Threads, thread[v].pc \in writers
          PROVE  thread[v].key # chunkBlockPoolTop
      <4>1. MAKE_NODEPTR(thread[v].key) = thread[v].block BY <3>2 DEF IInv, Locals, LocalsOf
      <4>2. thread[v].block \in Blocks BY <3>2, Holders
      <4> QED BY <3>1, <4>1, <4>2, NumberOfBlocks
    <3> QED BY <1>2, <2>1, <3>1, <3>2
  <2>4. CASE chunkBlockPoolTop # Null
    <3>1. chunkBlockPoolTop \in EmptyKeys /\ MAKE_NODEPTR(chunkBlockPoolTop) \in Empty
      BY <2>2, <2>4, StackFacts DEF EmptyKeys, Empty
    <3>2. ASSUME NEW v \in Threads, thread[v].pc \in writers
          PROVE  thread[v].key # chunkBlockPoolTop
      <4>1. MAKE_NODEPTR(thread[v].key) = thread[v].block BY <3>2 DEF IInv, Locals, LocalsOf
      <4>2. thread[v].block \notin Empty BY <3>2, Holders
      <4> QED BY <3>1, <4>1, <4>2
    <3> QED BY <1>4, <1>6, <2>1, <3>1, <3>2
  <2> QED BY <2>3, <2>4
<1>9. m = n \/ TakeNodes(t) BY <1>1 DEF KeysOf
<1>10. m \in Nat /\ n <= m BY <1>2, <1>7, <1>9
<1>11. \A u \in Threads : u # t => thread'[u] = thread[u] BY <1>1 DEF Only
<1>12. thread'[t].pc \in writers =>
         TakeNodes(t) \/ (thread[t].pc \in writers /\ thread'[t].key = thread[t].key)
  BY <1>1 DEF KeysOf, KeepsKey
<1>13. thread'[t].pc \in readers =>
         EmptyTop(t) \/ (thread[t].pc \in readers /\ thread'[t].tempTop = thread[t].tempTop)
  BY <1>1 DEF KeysOf, Keeps
<1>14. \A k \in EmptyKeys' : k \in EmptyKeys \/ (thread[t].pc \in writers /\ k = thread[t].key)
  BY <1>1 DEF KeysOf, EmptyGrows
<1>15. \A pc : pc \in writers => pc \notin readers OBVIOUS
<1> HIDE DEF readers, writers, m, n
<1>16. ASSUME NEW k \in EmptyKeys' PROVE k[2] <= m
  <2>1. k[2] \in Nat /\ k[2] <= n BY <1>3, <1>4, <1>6, <1>14
  <2> QED BY <1>2, <1>10, <2>1
<1>17. ASSUME NEW u \in Threads, thread'[u].pc \in writers PROVE thread'[u].key[2] <= m
  <2>1. CASE u = t /\ TakeNodes(t) BY <1>2, <1>7, <2>1
  <2>2. CASE u # t \/ ~TakeNodes(t)
    <3>1. thread'[u].key = thread[u].key /\ thread[u].pc \in writers
      BY <1>11, <1>12, <1>17, <2>2
    <3> QED BY <1>2, <1>3, <1>4, <1>10, <3>1
  <2> QED BY <2>1, <2>2
<1>18. ASSUME NEW u \in Threads, thread'[u].pc \in readers PROVE thread'[u].tempTop[2] <= m
  <2>1. CASE u = t /\ EmptyTop(t) BY <1>2, <1>8, <1>10, <2>1
  <2>2. CASE u # t \/ ~EmptyTop(t)
    <3>1. thread'[u].tempTop = thread[u].tempTop /\ thread[u].pc \in readers
      BY <1>11, <1>13, <1>18, <2>2
    <3> QED BY <1>2, <1>3, <1>4, <1>10, <3>1
  <2> QED BY <2>1, <2>2
<1>19. ASSUME NEW u \in Threads, NEW v \in Threads,
              thread'[u].pc \in readers, thread'[v].pc \in writers
       PROVE  thread'[v].key # thread'[u].tempTop
  <2>1. u # v BY <1>15, <1>19
  <2>2. CASE v = t /\ TakeNodes(t)
    <3>1. thread'[u].tempTop = thread[u].tempTop /\ thread[u].pc \in readers
      BY <1>11, <1>19, <2>1, <2>2
    <3>2. thread'[u].tempTop[2] \in Nat /\ thread'[u].tempTop[2] <= n BY <1>3, <1>4, <3>1
    <3>3. thread'[v].key[2] = n + 1 BY <1>7, <2>2
    <3>4. thread'[v].key[2] # thread'[u].tempTop[2] BY <1>2, <3>2, <3>3
    <3> QED BY <3>4
  <2>3. CASE u = t /\ EmptyTop(t)
    <3>1. thread'[v].key = thread[v].key /\ thread[v].pc \in writers
      BY <1>11, <1>19, <2>1, <2>3
    <3> QED BY <1>8, <2>3, <3>1
  <2>4. CASE ~(v = t /\ TakeNodes(t)) /\ ~(u = t /\ EmptyTop(t))
    <3>1. thread'[v].key = thread[v].key /\ thread[v].pc \in writers
      BY <1>11, <1>12, <1>19, <2>4
    <3>2. thread'[u].tempTop = thread[u].tempTop /\ thread[u].pc \in readers
      BY <1>11, <1>13, <1>19, <2>4
    <3> QED BY <1>4, <3>1, <3>2
  <2> QED BY <2>2, <2>3, <2>4
<1> QED BY <1>16, <1>17, <1>18, <1>19 DEF EmptyNumbers, AtPc, readers, writers, m, n

\* So the link that it read of the key is still the key's.
LEMMA LinksReadStep ==
  ASSUME IInv, NEW t \in Threads, Begin(t) \/ Continue(t)
  PROVE  LinksRead'
<1>1. KeysOf(t) /\ Only(t) /\ LinksOf(t) BY KeysMove DEF KeysOf
<1> DEFINE next == nextChunkBlock
<1>2. ASSUME NEW b \in Blocks, b \in Full \cup Empty PROVE next'[b] = next[b]
  <2> SUFFICES ASSUME thread[t].pc \in Holding,
                      NEW k, nextChunkBlock' = [nextChunkBlock EXCEPT ![thread[t].block] = k]
               PROVE  next'[b] = next[b]
    BY <1>1 DEF LinksOf
  <2>1. thread[t].block # b BY <1>2, Holders DEF Holding
  <2> QED BY <2>1, Types DEF IInv
<1>3. /\ \A k \in FullKeys : MAKE_NODEPTR(k) \in Full /\ MAKE_NODEPTR(k) \in Blocks
      /\ \A k \in EmptyKeys : MAKE_NODEPTR(k) \in Empty /\ MAKE_NODEPTR(k) \in Blocks
  <2>1. Stacked(next, topBlock) /\ Stacked(next, chunkBlockPoolTop) BY DEF IInv, Stacks
  <2>2. /\ FullKeys \subseteq Key /\ EmptyKeys \subseteq Key
        /\ \A k \in FullKeys : MAKE_NODEPTR(k) \in Full
        /\ \A k \in EmptyKeys : MAKE_NODEPTR(k) \in Empty
    BY <2>1, StackFacts DEF FullKeys, EmptyKeys, Full, Empty
  <2> QED BY <2>2 DEF Key, MAKE_NODEPTR
<1>4. ASSUME NEW u \in Threads, thread'[u].pc = "pop", thread'[u].tempTop \in FullKeys'
      PROVE  thread'[u].nextTop = next'[MAKE_NODEPTR(thread'[u].tempTop)]
  <2>1. CASE u = t
    <3>1. ReadNext(t) BY <1>1, <1>4, <2>1 DEF KeysOf
    <3>2. thread'[t].nextTop = next[MAKE_NODEPTR(thread[t].tempTop)] /\ next' = next
          /\ thread'[t].tempTop = thread[t].tempTop
      BY <3>1, ReadNextMoves DEF Becomes, ReadNext
    <3> QED BY <2>1, <3>2
  <2>2. CASE u # t
    <3>1. thread'[u] = thread[u] BY <1>1, <2>2 DEF Only
    <3>2. thread[u].tempTop \in FullKeys
          \/ (thread[t].pc = "push" /\ thread[u].tempTop = thread[t].key)
      BY <1>1, <1>4, <3>1 DEF KeysOf, FullGrows
    <3>3. ~(thread[t].pc = "push" /\ thread[u].tempTop = thread[t].key)
      BY <1>4, <3>1 DEF IInv, Numbers, AtPc
    <3>4. thread[u].nextTop = next[MAKE_NODEPTR(thread[u].tempTop)]
      BY <1>4, <3>1, <3>2, <3>3 DEF IInv, LinksRead, AtPc
    <3>5. next'[MAKE_NODEPTR(thread[u].tempTop)] = next[MAKE_NODEPTR(thread[u].tempTop)]
      BY <1>2, <1>3, <3>2, <3>3
    <3> QED BY <3>1, <3>4, <3>5
  <2> QED BY <2>1, <2>2
<1>5. ASSUME NEW u \in Threads, thread'[u].pc = "emptyPop", thread'[u].tempTop \in EmptyKeys'
      PROVE  thread'[u].nextTop = next'[MAKE_NODEPTR(thread'[u].tempTop)]
  <2>1. CASE u = t
    <3>1. EmptyNext(t) BY <1>1, <1>5, <2>1 DEF KeysOf
    <3>2. thread'[t].nextTop = next[MAKE_NODEPTR(thread[t].tempTop)] /\ next' = next
          /\ thread'[t].tempTop = thread[t].tempTop
      BY <3>1, EmptyNextMoves DEF Becomes, EmptyNext
    <3> QED BY <2>1, <3>2
  <2>2. CASE u # t
    <3>1. thread'[u] = thread[u] BY <1>1, <2>2 DEF Only
    <3>2. thread[u].tempTop \in EmptyKeys
          \/ (thread[t].pc = "emptyPush" /\ thread[u].tempTop = thread[t].key)
      BY <1>1, <1>5, <3>1 DEF KeysOf, EmptyGrows
    <3>3. ~(thread[t].pc = "emptyPush" /\ thread[u].tempTop = thread[t].key)
      BY <1>5, <3>1 DEF IInv, EmptyNumbers, AtPc
    <3>4. thread[u].nextTop = next[MAKE_NODEPTR(thread[u].tempTop)]
      BY <1>5, <3>1, <3>2, <3>3 DEF IInv, LinksRead, AtPc
    <3>5. next'[MAKE_NODEPTR(thread[u].tempTop)] = next[MAKE_NODEPTR(thread[u].tempTop)]
      BY <1>2, <1>3, <3>2, <3>3
    <3> QED BY <3>1, <3>4, <3>5
  <2> QED BY <2>1, <2>2
<1> QED BY <1>4, <1>5 DEF LinksRead, AtPc

----------------------------------------------------------------------------
(* The counters.                                                            *)

LEMMA StackSizes ==
  ASSUME IInv
  PROVE  /\ IsFiniteSet(Full) /\ Cardinality(Full) \in Nat
         /\ IsFiniteSet(Empty) /\ Cardinality(Empty) \in Nat
         /\ \A b : b \notin Full => Cardinality(Full \cup {b}) = Cardinality(Full) + 1
         /\ \A b : b \in Full => Cardinality(Full \ {b}) = Cardinality(Full) - 1
         /\ \A b : b \notin Empty => Cardinality(Empty \cup {b}) = Cardinality(Empty) + 1
         /\ \A b : b \in Empty => Cardinality(Empty \ {b}) = Cardinality(Empty) - 1
<1>1. Stacked(nextChunkBlock, topBlock) /\ Stacked(nextChunkBlock, chunkBlockPoolTop)
  BY DEF IInv, Stacks
<1>2. IsFiniteSet(Full) /\ IsFiniteSet(Empty) BY <1>1, StackFacts DEF Full, Empty
<1> QED BY <1>2, FS_AddElement, FS_RemoveElement, FS_CardinalityType

LEMMA CountsNext ==
  /\ Cardinality(Allocating') \in Nat /\ Cardinality(Emptying') \in Nat
  /\ Cardinality(Undoing') \in Nat /\ Cardinality(Fated') \in Nat
  /\ Cardinality(MayBlock') \in Nat /\ Cardinality(MayBatch') \in Nat
  /\ Cardinality(MayNumber') \in Nat /\ Cardinality(MayFill') \in Nat
  /\ Cardinality(Calling') \in Nat
<1>1. \A S \in SUBSET Threads : Cardinality(S) \in Nat
  BY ChunkPoolAssumption, FS_Subset, FS_CardinalityType
<1>2. /\ Allocating' \in SUBSET Threads /\ Emptying' \in SUBSET Threads
      /\ Undoing' \in SUBSET Threads /\ Fated' \in SUBSET Threads
  BY DEF Allocating, Emptying, Undoing, Fated, PopsFor, AtPc
<1>3. /\ MayBlock' \in SUBSET Threads /\ MayBatch' \in SUBSET Threads
      /\ MayNumber' \in SUBSET Threads /\ MayFill' \in SUBSET Threads
      /\ Calling' \in SUBSET Threads
  BY DEF MayBlock, MayBatch, MayNumber, MayFill, Calling, PopsFor, AtPc
<1> QED BY <1>1, <1>2, <1>3

Recounted(t) ==
    /\ Cardinality(Allocating') - One(t \in Allocating') = Cardinality(Allocating) - One(t \in Allocating)
    /\ Cardinality(Emptying') - One(t \in Emptying') = Cardinality(Emptying) - One(t \in Emptying)
    /\ Cardinality(Undoing') - One(t \in Undoing') = Cardinality(Undoing) - One(t \in Undoing)
    /\ Cardinality(Fated') - One(t \in Fated') = Cardinality(Fated) - One(t \in Fated)

LEMMA CountedStep ==
  ASSUME IInv, [Next]_vars
  PROVE  Counted'
<1>t. /\ thread \in [Threads -> ThreadType] /\ countGrew \in BOOLEAN
      /\ useBlockCount \in Nat /\ maxBlockCount \in Nat /\ chunkBlockPoolSize \in Int
  BY Types DEF IInv
<1>l. \A t \in Threads : LocalsOf(t) BY DEF IInv, Locals
<1>c. Counted BY DEF IInv
<1>s. Cardinality(Full) \in Nat /\ Cardinality(Empty) \in Nat BY StackSizes
<1>n. \A t \in Threads :
        /\ Cardinality(Allocating) \in Nat /\ Cardinality(Emptying) \in Nat
        /\ Cardinality(Undoing) \in Nat /\ Cardinality(Fated) \in Nat
        /\ Cardinality(Allocating') \in Nat /\ Cardinality(Emptying') \in Nat
        /\ Cardinality(Undoing') \in Nat /\ Cardinality(Fated') \in Nat
        /\ One(t \in Allocating) \in Nat /\ One(t \in Emptying) \in Nat
        /\ One(t \in Undoing) \in Nat /\ One(t \in Fated) \in Nat
        /\ Cardinality(Full) \in Nat /\ Cardinality(Empty) \in Nat
  BY <1>s, Counts, CountsNext DEF One
<1>1. ASSUME NEW t \in Threads, AllocChunk(t) PROVE Counted'
  <2>1. /\ Only(t) /\ thread'[t].pc = "test" /\ thread'[t].ret = thread[t].ret
        /\ thread'[t].use = useBlockCount + 1 /\ thread'[t].max = maxBlockCount /\ Quiet
    BY <1>1, AllocChunkMoves DEF Becomes
  <2>2. thread[t].pc = "idle" BY <1>1 DEF AllocChunk
  <2>3. /\ One(t \in Allocating') = One(t \in Allocating) + 1
        /\ One(t \in Emptying') = One(t \in Emptying)
        /\ One(t \in Undoing') = One(t \in Undoing)
        /\ One(t \in Fated') = One(useBlockCount + 1 >= maxBlockCount)
        /\ One(t \in Fated) = 0
    BY <1>1, <2>1, <2>2
    DEF One, Allocating, Emptying, Undoing, Fated, PopsFor, AtPc, Popping
  <2>4. Full' = Full /\ Empty' = Empty BY <2>1 DEF Quiet
  <2>5. Cardinality(Full') = Cardinality(Full) /\ Cardinality(Empty') = Cardinality(Empty)
    BY <2>4
  <2>6. /\ useBlockCount' = useBlockCount + 1 /\ maxBlockCount' = maxBlockCount
        /\ chunkBlockPoolSize' = chunkBlockPoolSize /\ countGrew' = countGrew
    BY <1>1 DEF AllocChunk
  <2>7. Recounted(t) BY <2>1, Recounts DEF Recounted
  <2> QED BY <1>1, <1>t, <1>c, <1>n, <2>3, <2>5, <2>6, <2>7 DEF Counted, Recounted, One
<1>2. ASSUME NEW t \in Threads, FreeChunk(t) PROVE Counted'
  <2>1. PICK b \in out : /\ out' = out \ {b} /\ Only(t) /\ thread'[t].pc = "claim"
                          /\ thread'[t].ret = "fill" /\ Quiet
    BY <1>2, FreeChunkMoves DEF Becomes
  <2>2. thread[t].pc = "idle" BY <1>2 DEF FreeChunk
  <2>3. /\ One(t \in Allocating') = One(t \in Allocating)
        /\ One(t \in Emptying') = One(t \in Emptying)
        /\ One(t \in Undoing') = One(t \in Undoing) /\ One(t \in Fated') = One(t \in Fated)
    BY <1>2, <2>1, <2>2
    DEF One, Allocating, Emptying, Undoing, Fated, PopsFor, AtPc, Popping
  <2>4. Full' = Full /\ Empty' = Empty BY <2>1 DEF Quiet
  <2>5. Cardinality(Full') = Cardinality(Full) /\ Cardinality(Empty') = Cardinality(Empty)
    BY <2>4
  <2>6. /\ useBlockCount' = useBlockCount /\ maxBlockCount' = maxBlockCount
        /\ chunkBlockPoolSize' = chunkBlockPoolSize /\ countGrew' = countGrew
    BY <1>2 DEF FreeChunk
  <2>7. Recounted(t) BY <2>1, Recounts DEF Recounted
  <2> QED BY <1>2, <1>t, <1>c, <1>n, <2>3, <2>5, <2>6, <2>7 DEF Counted, Recounted
<1>3. ASSUME NEW t \in Threads, TestCount(t) PROVE Counted'
  <2>1. CASE thread[t].use >= maxBlockCount
    <3>1. Only(t) /\ thread'[t].pc = "claim" /\ thread'[t].ret = "renew" /\ Quiet
      BY <1>3, <2>1, TestCountMoves DEF Becomes
    <3>2. thread[t].pc = "test" BY <1>3 DEF TestCount
    <3>3. /\ thread[t].use \in Nat /\ thread[t].max \in Nat /\ maxBlockCount \in Nat
          /\ thread[t].max <= maxBlockCount
      BY <1>t, <1>l, <3>2 DEF LocalsOf, ThreadType
    <3>4. countGrew' = (countGrew \/ (thread[t].use >= thread[t].max /\ thread[t].use < maxBlockCount))
      BY <1>3 DEF TestCount
    <3>5. /\ One(t \in Allocating') = One(t \in Allocating)
          /\ One(t \in Emptying') = One(t \in Emptying)
          /\ One(t \in Undoing') = One(t \in Undoing)
          /\ ~countGrew' => One(t \in Fated') = One(t \in Fated)
      BY <1>3, <2>1, <3>1, <3>2, <3>3, <3>4
      DEF One, Allocating, Emptying, Undoing, Fated, PopsFor, AtPc, Popping
    <3>6. Full' = Full /\ Empty' = Empty BY <3>1 DEF Quiet
    <3>7. Cardinality(Full') = Cardinality(Full) /\ Cardinality(Empty') = Cardinality(Empty)
      BY <3>6
    <3>8. /\ useBlockCount' = useBlockCount /\ maxBlockCount' = maxBlockCount
          /\ chunkBlockPoolSize' = chunkBlockPoolSize
      BY <1>3 DEF TestCount
    <3>9. Recounted(t) BY <3>1, Recounts DEF Recounted
    <3> QED BY <1>3, <2>1, <1>t, <1>c, <1>n, <3>5, <3>7, <3>8, <3>9, <3>4
      DEF Counted, Recounted, One
  <2>2. CASE thread[t].use < maxBlockCount
    <3>1. Only(t) /\ thread'[t].pc = "top" /\ thread'[t].ret = thread[t].ret /\ Quiet
      BY <1>3, <2>2, TestCountMoves DEF Becomes
    <3>2. thread[t].pc = "test" BY <1>3 DEF TestCount
    <3>3. /\ thread[t].use \in Nat /\ thread[t].max \in Nat /\ maxBlockCount \in Nat
          /\ thread[t].max <= maxBlockCount
      BY <1>t, <1>l, <3>2 DEF LocalsOf, ThreadType
    <3>4. countGrew' = (countGrew \/ (thread[t].use >= thread[t].max /\ thread[t].use < maxBlockCount))
      BY <1>3 DEF TestCount
    <3>5. /\ One(t \in Allocating') = One(t \in Allocating)
          /\ One(t \in Emptying') = One(t \in Emptying)
          /\ One(t \in Undoing') = One(t \in Undoing)
          /\ ~countGrew' => One(t \in Fated') = One(t \in Fated)
      BY <1>3, <2>2, <3>1, <3>2, <3>3, <3>4
      DEF One, Allocating, Emptying, Undoing, Fated, PopsFor, AtPc, Popping
    <3>6. Full' = Full /\ Empty' = Empty BY <3>1 DEF Quiet
    <3>7. Cardinality(Full') = Cardinality(Full) /\ Cardinality(Empty') = Cardinality(Empty)
      BY <3>6
    <3>8. /\ useBlockCount' = useBlockCount /\ maxBlockCount' = maxBlockCount
          /\ chunkBlockPoolSize' = chunkBlockPoolSize
      BY <1>3 DEF TestCount
    <3>9. Recounted(t) BY <3>1, Recounts DEF Recounted
    <3> QED BY <1>3, <2>2, <1>t, <1>c, <1>n, <3>5, <3>7, <3>8, <3>9, <3>4
      DEF Counted, Recounted, One
  <2>3. thread[t].use \in Nat /\ maxBlockCount \in Nat BY Types DEF IInv, ThreadType
  <2> QED BY <2>1, <2>2, <2>3
<1>4. ASSUME NEW t \in Threads, ReadTop(t) PROVE Counted'
  <2>1. Only(t) /\ thread'[t].pc = "next" /\ thread'[t].ret = thread[t].ret /\ Quiet
    BY <1>4, ReadTopMoves DEF Becomes
  <2>2. thread[t].pc = "top" BY <1>4 DEF ReadTop
  <2>3. /\ One(t \in Allocating') = One(t \in Allocating)
        /\ One(t \in Emptying') = One(t \in Emptying)
        /\ One(t \in Undoing') = One(t \in Undoing) /\ One(t \in Fated') = One(t \in Fated)
    BY <1>4, <2>1, <2>2
    DEF One, Allocating, Emptying, Undoing, Fated, PopsFor, AtPc, Popping
  <2>4. Full' = Full /\ Empty' = Empty BY <2>1 DEF Quiet
  <2>5. Cardinality(Full') = Cardinality(Full) /\ Cardinality(Empty') = Cardinality(Empty)
    BY <2>4
  <2>6. /\ useBlockCount' = useBlockCount /\ maxBlockCount' = maxBlockCount
        /\ chunkBlockPoolSize' = chunkBlockPoolSize /\ countGrew' = countGrew
    BY <1>4 DEF ReadTop
  <2>7. Recounted(t) BY <2>1, Recounts DEF Recounted
  <2> QED BY <1>4, <1>t, <1>c, <1>n, <2>3, <2>5, <2>6, <2>7 DEF Counted, Recounted
<1>5. ASSUME NEW t \in Threads, ReadNext(t) PROVE Counted'
  <2>1. Only(t) /\ thread'[t].pc = "pop" /\ thread'[t].ret = thread[t].ret /\ Quiet
    BY <1>5, ReadNextMoves DEF Becomes
  <2>2. thread[t].pc = "next" BY <1>5 DEF ReadNext
  <2>3. /\ One(t \in Allocating') = One(t \in Allocating)
        /\ One(t \in Emptying') = One(t \in Emptying)
        /\ One(t \in Undoing') = One(t \in Undoing) /\ One(t \in Fated') = One(t \in Fated)
    BY <1>5, <2>1, <2>2
    DEF One, Allocating, Emptying, Undoing, Fated, PopsFor, AtPc, Popping
  <2>4. Full' = Full /\ Empty' = Empty BY <2>1 DEF Quiet
  <2>5. Cardinality(Full') = Cardinality(Full) /\ Cardinality(Empty') = Cardinality(Empty)
    BY <2>4
  <2>6. /\ useBlockCount' = useBlockCount /\ maxBlockCount' = maxBlockCount
        /\ chunkBlockPoolSize' = chunkBlockPoolSize /\ countGrew' = countGrew
    BY <1>5 DEF ReadNext
  <2>7. Recounted(t) BY <2>1, Recounts DEF Recounted
  <2> QED BY <1>5, <1>t, <1>c, <1>n, <2>3, <2>5, <2>6, <2>7 DEF Counted, Recounted
<1>6. ASSUME NEW t \in Threads, ReadNull(t) PROVE Counted'
  <2>1. Only(t) /\ thread'[t].pc = "crashed" /\ thread'[t].ret = thread[t].ret /\ Quiet
    BY <1>6, ReadNullMoves DEF Becomes
  <2>2. thread[t].pc = "next" BY <1>6 DEF ReadNull
  <2>3. /\ One(t \in Allocating') = One(t \in Allocating)
        /\ One(t \in Emptying') = One(t \in Emptying)
        /\ One(t \in Undoing') = One(t \in Undoing) /\ One(t \in Fated') = One(t \in Fated)
    BY <1>6, <2>1, <2>2
    DEF One, Allocating, Emptying, Undoing, Fated, PopsFor, AtPc, Popping
  <2>4. Full' = Full /\ Empty' = Empty BY <2>1 DEF Quiet
  <2>5. Cardinality(Full') = Cardinality(Full) /\ Cardinality(Empty') = Cardinality(Empty)
    BY <2>4
  <2>6. /\ useBlockCount' = useBlockCount /\ maxBlockCount' = maxBlockCount
        /\ chunkBlockPoolSize' = chunkBlockPoolSize /\ countGrew' = countGrew
    BY <1>6 DEF ReadNull
  <2>7. Recounted(t) BY <2>1, Recounts DEF Recounted
  <2> QED BY <1>6, <1>t, <1>c, <1>n, <2>3, <2>5, <2>6, <2>7 DEF Counted, Recounted
<1>7. ASSUME NEW t \in Threads, PopBlock(t) PROVE Counted'
  <2>1. CASE topBlock = thread[t].tempTop
    <3>1. Only(t) /\ thread'[t].pc = "take" /\ thread'[t].ret = "idle" /\ FullPops
      BY <1>7, <2>1, PopBlockMoves DEF Becomes
    <3>2. thread[t].pc = "pop" BY <1>7 DEF PopBlock
    <3>3. /\ One(t \in Allocating') = One(t \in Allocating) - 1
          /\ One(t \in Emptying') = One(t \in Emptying)
          /\ One(t \in Undoing') = One(t \in Undoing)
          /\ One(t \in Fated') = One(t \in Fated)
      BY <1>7, <2>1, <3>1, <3>2
      DEF One, Allocating, Emptying, Undoing, Fated, PopsFor, AtPc, Popping
    <3>4. /\ Cardinality(Full') = Cardinality(Full) - 1
          /\ Cardinality(Empty') = Cardinality(Empty)
      BY <3>1, StackSizes DEF FullPops
    <3>5. /\ useBlockCount' = useBlockCount /\ maxBlockCount' = maxBlockCount
          /\ chunkBlockPoolSize' = chunkBlockPoolSize /\ countGrew' = countGrew
      BY <1>7 DEF PopBlock
    <3>6. Recounted(t) BY <3>1, Recounts DEF Recounted
    <3> QED BY <1>7, <2>1, <1>t, <1>c, <1>n, <3>3, <3>4, <3>5, <3>6 DEF Counted, Recounted
  <2>2. CASE topBlock # thread[t].tempTop
    <3>1. Only(t) /\ thread'[t].pc = "top" /\ thread'[t].ret = thread[t].ret /\ Quiet
      BY <1>7, <2>2, PopBlockMoves DEF Becomes
    <3>2. thread[t].pc = "pop" BY <1>7 DEF PopBlock
    <3>3. /\ One(t \in Allocating') = One(t \in Allocating)
          /\ One(t \in Emptying') = One(t \in Emptying)
          /\ One(t \in Undoing') = One(t \in Undoing)
          /\ One(t \in Fated') = One(t \in Fated)
      BY <1>7, <2>2, <3>1, <3>2
      DEF One, Allocating, Emptying, Undoing, Fated, PopsFor, AtPc, Popping
    <3>4. Full' = Full /\ Empty' = Empty BY <3>1 DEF Quiet
    <3>5. Cardinality(Full') = Cardinality(Full) /\ Cardinality(Empty') = Cardinality(Empty)
      BY <3>4
    <3>6. /\ useBlockCount' = useBlockCount /\ maxBlockCount' = maxBlockCount
          /\ chunkBlockPoolSize' = chunkBlockPoolSize /\ countGrew' = countGrew
      BY <1>7 DEF PopBlock
    <3>7. Recounted(t) BY <3>1, Recounts DEF Recounted
    <3> QED BY <1>7, <2>2, <1>t, <1>c, <1>n, <3>3, <3>5, <3>6, <3>7 DEF Counted, Recounted
  <2> QED BY <2>1, <2>2
<1>8. ASSUME NEW t \in Threads, NewChunkBlock(t) PROVE Counted'
  <2>1. Only(t) /\ thread'[t].pc = "take" /\ thread'[t].ret = thread[t].ret /\ Quiet
    BY <1>8, NewChunkBlockMoves DEF Becomes
  <2>2. thread[t].pc = "renew" BY <1>8 DEF NewChunkBlock
  <2>3. /\ One(t \in Allocating') = One(t \in Allocating) - 1
        /\ One(t \in Emptying') = One(t \in Emptying)
        /\ One(t \in Undoing') = One(t \in Undoing)
        /\ One(t \in Fated') = One(t \in Fated) - 1
    BY <1>8, <2>1, <2>2
    DEF One, Allocating, Emptying, Undoing, Fated, PopsFor, AtPc, Popping
  <2>4. Full' = Full /\ Empty' = Empty BY <2>1 DEF Quiet
  <2>5. Cardinality(Full') = Cardinality(Full) /\ Cardinality(Empty') = Cardinality(Empty)
    BY <2>4
  <2>6. /\ useBlockCount' = useBlockCount /\ maxBlockCount' = maxBlockCount + 1
        /\ chunkBlockPoolSize' = chunkBlockPoolSize /\ countGrew' = countGrew
    BY <1>8 DEF NewChunkBlock
  <2>7. Recounted(t) BY <2>1, Recounts DEF Recounted
  <2> QED BY <1>8, <1>t, <1>c, <1>n, <2>3, <2>5, <2>6, <2>7 DEF Counted, Recounted
<1>9. ASSUME NEW t \in Threads, TakeNodes(t) PROVE Counted'
  <2>1. Only(t) /\ thread'[t].pc = "emptyRead" /\ thread'[t].ret = thread[t].ret /\ Quiet
    BY <1>9, TakeNodesMoves DEF Becomes
  <2>2. thread[t].pc = "take" BY <1>9 DEF TakeNodes
  <2>3. /\ One(t \in Allocating') = One(t \in Allocating)
        /\ One(t \in Emptying') = One(t \in Emptying)
        /\ One(t \in Undoing') = One(t \in Undoing) /\ One(t \in Fated') = One(t \in Fated)
    BY <1>9, <2>1, <2>2
    DEF One, Allocating, Emptying, Undoing, Fated, PopsFor, AtPc, Popping
  <2>4. Full' = Full /\ Empty' = Empty BY <2>1 DEF Quiet
  <2>5. Cardinality(Full') = Cardinality(Full) /\ Cardinality(Empty') = Cardinality(Empty)
    BY <2>4
  <2>6. /\ useBlockCount' = useBlockCount /\ maxBlockCount' = maxBlockCount
        /\ chunkBlockPoolSize' = chunkBlockPoolSize /\ countGrew' = countGrew
    BY <1>9 DEF TakeNodes
  <2>7. Recounted(t) BY <2>1, Recounts DEF Recounted
  <2> QED BY <1>9, <1>t, <1>c, <1>n, <2>3, <2>5, <2>6, <2>7 DEF Counted, Recounted
<1>10. ASSUME NEW t \in Threads, EmptyRead(t) PROVE Counted'
  <2>1. Only(t) /\ thread'[t].pc = "emptyPush" /\ thread'[t].ret = thread[t].ret /\ Quiet
    BY <1>10, EmptyReadMoves DEF Becomes
  <2>2. thread[t].pc = "emptyRead" BY <1>10 DEF EmptyRead
  <2>3. /\ One(t \in Allocating') = One(t \in Allocating)
        /\ One(t \in Emptying') = One(t \in Emptying)
        /\ One(t \in Undoing') = One(t \in Undoing) /\ One(t \in Fated') = One(t \in Fated)
    BY <1>10, <2>1, <2>2
    DEF One, Allocating, Emptying, Undoing, Fated, PopsFor, AtPc, Popping
  <2>4. Full' = Full /\ Empty' = Empty BY <2>1 DEF Quiet
  <2>5. Cardinality(Full') = Cardinality(Full) /\ Cardinality(Empty') = Cardinality(Empty)
    BY <2>4
  <2>6. /\ useBlockCount' = useBlockCount /\ maxBlockCount' = maxBlockCount
        /\ chunkBlockPoolSize' = chunkBlockPoolSize /\ countGrew' = countGrew
    BY <1>10 DEF EmptyRead
  <2>7. Recounted(t) BY <2>1, Recounts DEF Recounted
  <2> QED BY <1>10, <1>t, <1>c, <1>n, <2>3, <2>5, <2>6, <2>7 DEF Counted, Recounted
<1>11. ASSUME NEW t \in Threads, EmptyPush(t) PROVE Counted'
  <2>1. CASE chunkBlockPoolTop = thread[t].tempTop
    <3>1. /\ Only(t) /\ thread'[t].pc = "emptyCount" /\ thread'[t].ret = thread[t].ret
          /\ EmptyPushes(t)
      BY <1>11, <2>1, EmptyPushMoves DEF Becomes
    <3>2. thread[t].pc = "emptyPush" BY <1>11 DEF EmptyPush
    <3>3. /\ One(t \in Allocating') = One(t \in Allocating)
          /\ One(t \in Emptying') = One(t \in Emptying) + 1
          /\ One(t \in Undoing') = One(t \in Undoing)
          /\ One(t \in Fated') = One(t \in Fated)
      BY <1>11, <2>1, <3>1, <3>2
      DEF One, Allocating, Emptying, Undoing, Fated, PopsFor, AtPc, Popping
    <3>4. thread[t].block \notin Full /\ thread[t].block \notin Empty BY <3>2, Holders
    <3>5. /\ Cardinality(Full') = Cardinality(Full)
          /\ Cardinality(Empty') = Cardinality(Empty) + 1
      BY <3>1, <3>4, StackSizes DEF EmptyPushes
    <3>6. /\ useBlockCount' = useBlockCount /\ maxBlockCount' = maxBlockCount
          /\ chunkBlockPoolSize' = chunkBlockPoolSize /\ countGrew' = countGrew
      BY <1>11 DEF EmptyPush
    <3>7. Recounted(t) BY <3>1, Recounts DEF Recounted
    <3> QED BY <1>11, <2>1, <1>t, <1>c, <1>n, <3>3, <3>5, <3>6, <3>7 DEF Counted, Recounted
  <2>2. CASE chunkBlockPoolTop # thread[t].tempTop
    <3>1. /\ Only(t) /\ thread'[t].pc = "emptyRead" /\ thread'[t].ret = thread[t].ret
          /\ Quiet
      BY <1>11, <2>2, EmptyPushMoves DEF Becomes
    <3>2. thread[t].pc = "emptyPush" BY <1>11 DEF EmptyPush
    <3>3. /\ One(t \in Allocating') = One(t \in Allocating)
          /\ One(t \in Emptying') = One(t \in Emptying)
          /\ One(t \in Undoing') = One(t \in Undoing)
          /\ One(t \in Fated') = One(t \in Fated)
      BY <1>11, <2>2, <3>1, <3>2
      DEF One, Allocating, Emptying, Undoing, Fated, PopsFor, AtPc, Popping
    <3>4. Full' = Full /\ Empty' = Empty BY <3>1 DEF Quiet
    <3>5. Cardinality(Full') = Cardinality(Full) /\ Cardinality(Empty') = Cardinality(Empty)
      BY <3>4
    <3>6. /\ useBlockCount' = useBlockCount /\ maxBlockCount' = maxBlockCount
          /\ chunkBlockPoolSize' = chunkBlockPoolSize /\ countGrew' = countGrew
      BY <1>11 DEF EmptyPush
    <3>7. Recounted(t) BY <3>1, Recounts DEF Recounted
    <3> QED BY <1>11, <2>2, <1>t, <1>c, <1>n, <3>3, <3>5, <3>6, <3>7 DEF Counted, Recounted
  <2> QED BY <2>1, <2>2
<1>12. ASSUME NEW t \in Threads, EmptyCount(t) PROVE Counted'
  <2>1. Only(t) /\ thread'[t].pc = "idle" /\ thread'[t].ret = "idle" /\ Quiet
    BY <1>12, EmptyCountMoves DEF Becomes
  <2>2. thread[t].pc = "emptyCount" BY <1>12 DEF EmptyCount
  <2>3. /\ One(t \in Allocating') = One(t \in Allocating)
        /\ One(t \in Emptying') = One(t \in Emptying) - 1
        /\ One(t \in Undoing') = One(t \in Undoing) /\ One(t \in Fated') = One(t \in Fated)
    BY <1>12, <2>1, <2>2
    DEF One, Allocating, Emptying, Undoing, Fated, PopsFor, AtPc, Popping
  <2>4. Full' = Full /\ Empty' = Empty BY <2>1 DEF Quiet
  <2>5. Cardinality(Full') = Cardinality(Full) /\ Cardinality(Empty') = Cardinality(Empty)
    BY <2>4
  <2>6. /\ useBlockCount' = useBlockCount /\ maxBlockCount' = maxBlockCount
        /\ chunkBlockPoolSize' = chunkBlockPoolSize + 1 /\ countGrew' = countGrew
    BY <1>12 DEF EmptyCount
  <2>7. Recounted(t) BY <2>1, Recounts DEF Recounted
  <2> QED BY <1>12, <1>t, <1>c, <1>n, <2>3, <2>5, <2>6, <2>7 DEF Counted, Recounted
<1>13. ASSUME NEW t \in Threads, Claim(t) PROVE Counted'
  <2>1. CASE chunkBlockPoolSize - 1 < 0
    <3>1. Only(t) /\ thread'[t].pc = "undo" /\ thread'[t].ret = thread[t].ret /\ Quiet
      BY <1>13, <2>1, ClaimMoves DEF Becomes
    <3>2. thread[t].pc = "claim" BY <1>13 DEF Claim
    <3>3. /\ One(t \in Allocating') = One(t \in Allocating)
          /\ One(t \in Emptying') = One(t \in Emptying) + 1
          /\ One(t \in Undoing') = One(t \in Undoing) + 1
          /\ One(t \in Fated') = One(t \in Fated)
      BY <1>13, <2>1, <3>1, <3>2
      DEF One, Allocating, Emptying, Undoing, Fated, PopsFor, AtPc, Popping
    <3>4. Full' = Full /\ Empty' = Empty BY <3>1 DEF Quiet
    <3>5. Cardinality(Full') = Cardinality(Full) /\ Cardinality(Empty') = Cardinality(Empty)
      BY <3>4
    <3>6. /\ useBlockCount' = useBlockCount /\ maxBlockCount' = maxBlockCount
          /\ chunkBlockPoolSize' = chunkBlockPoolSize - 1 /\ countGrew' = countGrew
      BY <1>13 DEF Claim
    <3>7. Recounted(t) BY <3>1, Recounts DEF Recounted
    <3> QED BY <1>13, <2>1, <1>t, <1>c, <1>n, <3>3, <3>5, <3>6, <3>7 DEF Counted, Recounted
  <2>2. CASE chunkBlockPoolSize - 1 >= 0
    <3>1. Only(t) /\ thread'[t].pc = "emptyTop" /\ thread'[t].ret = thread[t].ret /\ Quiet
      BY <1>13, <2>2, ClaimMoves DEF Becomes
    <3>2. thread[t].pc = "claim" BY <1>13 DEF Claim
    <3>3. /\ One(t \in Allocating') = One(t \in Allocating)
          /\ One(t \in Emptying') = One(t \in Emptying) + 1
          /\ One(t \in Undoing') = One(t \in Undoing)
          /\ One(t \in Fated') = One(t \in Fated)
      BY <1>13, <2>2, <3>1, <3>2
      DEF One, Allocating, Emptying, Undoing, Fated, PopsFor, AtPc, Popping
    <3>4. Full' = Full /\ Empty' = Empty BY <3>1 DEF Quiet
    <3>5. Cardinality(Full') = Cardinality(Full) /\ Cardinality(Empty') = Cardinality(Empty)
      BY <3>4
    <3>6. /\ useBlockCount' = useBlockCount /\ maxBlockCount' = maxBlockCount
          /\ chunkBlockPoolSize' = chunkBlockPoolSize - 1 /\ countGrew' = countGrew
      BY <1>13 DEF Claim
    <3>7. Recounted(t) BY <3>1, Recounts DEF Recounted
    <3> QED BY <1>13, <2>2, <1>t, <1>c, <1>n, <3>3, <3>5, <3>6, <3>7 DEF Counted, Recounted
  <2>3. chunkBlockPoolSize \in Int BY Types DEF IInv
  <2> QED BY <2>1, <2>2, <2>3
<1>14. ASSUME NEW t \in Threads, NewBlock(t) PROVE Counted'
  <2>1. Only(t) /\ thread'[t].pc = thread[t].ret /\ thread'[t].ret = "idle" /\ Quiet
    BY <1>14, NewBlockMoves DEF Becomes
  <2>2. thread[t].pc = "undo" BY <1>14 DEF NewBlock
  <2>3. thread[t].ret \in {"renew", "fill"}
    BY <2>2, <1>t, <1>l DEF LocalsOf, Popping, ThreadType
  <2>4. /\ One(t \in Allocating') = One(t \in Allocating)
        /\ One(t \in Emptying') = One(t \in Emptying) - 1
        /\ One(t \in Undoing') = One(t \in Undoing) - 1
        /\ One(t \in Fated') = One(t \in Fated)
    BY <1>14, <2>1, <2>3, <2>2
    DEF One, Allocating, Emptying, Undoing, Fated, PopsFor, AtPc, Popping
  <2>5. Full' = Full /\ Empty' = Empty BY <2>1 DEF Quiet
  <2>6. Cardinality(Full') = Cardinality(Full) /\ Cardinality(Empty') = Cardinality(Empty)
    BY <2>5
  <2>7. /\ useBlockCount' = useBlockCount /\ maxBlockCount' = maxBlockCount
        /\ chunkBlockPoolSize' = chunkBlockPoolSize + 1 /\ countGrew' = countGrew
    BY <1>14 DEF NewBlock
  <2>8. Recounted(t) BY <2>1, Recounts DEF Recounted
  <2> QED BY <1>14, <1>t, <1>c, <1>n, <2>4, <2>6, <2>7, <2>8 DEF Counted, Recounted
<1>15. ASSUME NEW t \in Threads, EmptyTop(t) PROVE Counted'
  <2>1. Only(t) /\ thread'[t].pc = "emptyNext" /\ thread'[t].ret = thread[t].ret /\ Quiet
    BY <1>15, EmptyTopMoves DEF Becomes
  <2>2. thread[t].pc = "emptyTop" BY <1>15 DEF EmptyTop
  <2>3. /\ One(t \in Allocating') = One(t \in Allocating)
        /\ One(t \in Emptying') = One(t \in Emptying)
        /\ One(t \in Undoing') = One(t \in Undoing) /\ One(t \in Fated') = One(t \in Fated)
    BY <1>15, <2>1, <2>2
    DEF One, Allocating, Emptying, Undoing, Fated, PopsFor, AtPc, Popping
  <2>4. Full' = Full /\ Empty' = Empty BY <2>1 DEF Quiet
  <2>5. Cardinality(Full') = Cardinality(Full) /\ Cardinality(Empty') = Cardinality(Empty)
    BY <2>4
  <2>6. /\ useBlockCount' = useBlockCount /\ maxBlockCount' = maxBlockCount
        /\ chunkBlockPoolSize' = chunkBlockPoolSize /\ countGrew' = countGrew
    BY <1>15 DEF EmptyTop
  <2>7. Recounted(t) BY <2>1, Recounts DEF Recounted
  <2> QED BY <1>15, <1>t, <1>c, <1>n, <2>3, <2>5, <2>6, <2>7 DEF Counted, Recounted
<1>16. ASSUME NEW t \in Threads, EmptyNext(t) PROVE Counted'
  <2>1. Only(t) /\ thread'[t].pc = "emptyPop" /\ thread'[t].ret = thread[t].ret /\ Quiet
    BY <1>16, EmptyNextMoves DEF Becomes
  <2>2. thread[t].pc = "emptyNext" BY <1>16 DEF EmptyNext
  <2>3. /\ One(t \in Allocating') = One(t \in Allocating)
        /\ One(t \in Emptying') = One(t \in Emptying)
        /\ One(t \in Undoing') = One(t \in Undoing) /\ One(t \in Fated') = One(t \in Fated)
    BY <1>16, <2>1, <2>2
    DEF One, Allocating, Emptying, Undoing, Fated, PopsFor, AtPc, Popping
  <2>4. Full' = Full /\ Empty' = Empty BY <2>1 DEF Quiet
  <2>5. Cardinality(Full') = Cardinality(Full) /\ Cardinality(Empty') = Cardinality(Empty)
    BY <2>4
  <2>6. /\ useBlockCount' = useBlockCount /\ maxBlockCount' = maxBlockCount
        /\ chunkBlockPoolSize' = chunkBlockPoolSize /\ countGrew' = countGrew
    BY <1>16 DEF EmptyNext
  <2>7. Recounted(t) BY <2>1, Recounts DEF Recounted
  <2> QED BY <1>16, <1>t, <1>c, <1>n, <2>3, <2>5, <2>6, <2>7 DEF Counted, Recounted
<1>17. ASSUME NEW t \in Threads, EmptyPop(t) PROVE Counted'
  <2>1. CASE chunkBlockPoolTop = thread[t].tempTop
    <3>1. Only(t) /\ thread'[t].pc = thread[t].ret /\ thread'[t].ret = "idle" /\ EmptyPops
      BY <1>17, <2>1, EmptyPopMoves DEF Becomes
    <3>2. thread[t].pc = "emptyPop" BY <1>17 DEF EmptyPop
    <3>3. thread[t].ret \in {"renew", "fill"}
      BY <3>2, <1>t, <1>l DEF LocalsOf, Popping, ThreadType
    <3>4. /\ One(t \in Allocating') = One(t \in Allocating)
          /\ One(t \in Emptying') = One(t \in Emptying) - 1
          /\ One(t \in Undoing') = One(t \in Undoing)
          /\ One(t \in Fated') = One(t \in Fated)
      BY <1>17, <2>1, <3>1, <3>3, <3>2
      DEF One, Allocating, Emptying, Undoing, Fated, PopsFor, AtPc, Popping
    <3>5. /\ Cardinality(Full') = Cardinality(Full)
          /\ Cardinality(Empty') = Cardinality(Empty) - 1
      BY <3>1, StackSizes DEF EmptyPops
    <3>6. /\ useBlockCount' = useBlockCount /\ maxBlockCount' = maxBlockCount
          /\ chunkBlockPoolSize' = chunkBlockPoolSize /\ countGrew' = countGrew
      BY <1>17 DEF EmptyPop
    <3>7. Recounted(t) BY <3>1, Recounts DEF Recounted
    <3> QED BY <1>17, <2>1, <1>t, <1>c, <1>n, <3>4, <3>5, <3>6, <3>7 DEF Counted, Recounted
  <2>2. CASE chunkBlockPoolTop # thread[t].tempTop
    <3>1. Only(t) /\ thread'[t].pc = "emptyTop" /\ thread'[t].ret = thread[t].ret /\ Quiet
      BY <1>17, <2>2, EmptyPopMoves DEF Becomes
    <3>2. thread[t].pc = "emptyPop" BY <1>17 DEF EmptyPop
    <3>3. /\ One(t \in Allocating') = One(t \in Allocating)
          /\ One(t \in Emptying') = One(t \in Emptying)
          /\ One(t \in Undoing') = One(t \in Undoing)
          /\ One(t \in Fated') = One(t \in Fated)
      BY <1>17, <2>2, <3>1, <3>2
      DEF One, Allocating, Emptying, Undoing, Fated, PopsFor, AtPc, Popping
    <3>4. Full' = Full /\ Empty' = Empty BY <3>1 DEF Quiet
    <3>5. Cardinality(Full') = Cardinality(Full) /\ Cardinality(Empty') = Cardinality(Empty)
      BY <3>4
    <3>6. /\ useBlockCount' = useBlockCount /\ maxBlockCount' = maxBlockCount
          /\ chunkBlockPoolSize' = chunkBlockPoolSize /\ countGrew' = countGrew
      BY <1>17 DEF EmptyPop
    <3>7. Recounted(t) BY <3>1, Recounts DEF Recounted
    <3> QED BY <1>17, <2>2, <1>t, <1>c, <1>n, <3>3, <3>5, <3>6, <3>7 DEF Counted, Recounted
  <2> QED BY <2>1, <2>2
<1>18. ASSUME NEW t \in Threads, Fill(t) PROVE Counted'
  <2>1. Only(t) /\ thread'[t].pc = "read" /\ thread'[t].ret = thread[t].ret /\ Quiet
    BY <1>18, FillMoves DEF Becomes
  <2>2. thread[t].pc = "fill" BY <1>18 DEF Fill
  <2>3. /\ One(t \in Allocating') = One(t \in Allocating)
        /\ One(t \in Emptying') = One(t \in Emptying)
        /\ One(t \in Undoing') = One(t \in Undoing) /\ One(t \in Fated') = One(t \in Fated)
    BY <1>18, <2>1, <2>2
    DEF One, Allocating, Emptying, Undoing, Fated, PopsFor, AtPc, Popping
  <2>4. Full' = Full /\ Empty' = Empty BY <2>1 DEF Quiet
  <2>5. Cardinality(Full') = Cardinality(Full) /\ Cardinality(Empty') = Cardinality(Empty)
    BY <2>4
  <2>6. /\ useBlockCount' = useBlockCount /\ maxBlockCount' = maxBlockCount
        /\ chunkBlockPoolSize' = chunkBlockPoolSize /\ countGrew' = countGrew
    BY <1>18 DEF Fill
  <2>7. Recounted(t) BY <2>1, Recounts DEF Recounted
  <2> QED BY <1>18, <1>t, <1>c, <1>n, <2>3, <2>5, <2>6, <2>7 DEF Counted, Recounted
<1>19. ASSUME NEW t \in Threads, PushRead(t) PROVE Counted'
  <2>1. Only(t) /\ thread'[t].pc = "push" /\ thread'[t].ret = thread[t].ret /\ Quiet
    BY <1>19, PushReadMoves DEF Becomes
  <2>2. thread[t].pc = "read" BY <1>19 DEF PushRead
  <2>3. /\ One(t \in Allocating') = One(t \in Allocating)
        /\ One(t \in Emptying') = One(t \in Emptying)
        /\ One(t \in Undoing') = One(t \in Undoing) /\ One(t \in Fated') = One(t \in Fated)
    BY <1>19, <2>1, <2>2
    DEF One, Allocating, Emptying, Undoing, Fated, PopsFor, AtPc, Popping
  <2>4. Full' = Full /\ Empty' = Empty BY <2>1 DEF Quiet
  <2>5. Cardinality(Full') = Cardinality(Full) /\ Cardinality(Empty') = Cardinality(Empty)
    BY <2>4
  <2>6. /\ useBlockCount' = useBlockCount /\ maxBlockCount' = maxBlockCount
        /\ chunkBlockPoolSize' = chunkBlockPoolSize /\ countGrew' = countGrew
    BY <1>19 DEF PushRead
  <2>7. Recounted(t) BY <2>1, Recounts DEF Recounted
  <2> QED BY <1>19, <1>t, <1>c, <1>n, <2>3, <2>5, <2>6, <2>7 DEF Counted, Recounted
<1>20. ASSUME NEW t \in Threads, PushBlock(t) PROVE Counted'
  <2>1. CASE topBlock = thread[t].tempTop
    <3>1. /\ Only(t) /\ thread'[t].pc = "count" /\ thread'[t].ret = thread[t].ret
          /\ FullPushes(t)
      BY <1>20, <2>1, PushBlockMoves DEF Becomes
    <3>2. thread[t].pc = "push" BY <1>20 DEF PushBlock
    <3>3. /\ One(t \in Allocating') = One(t \in Allocating) + 1
          /\ One(t \in Emptying') = One(t \in Emptying)
          /\ One(t \in Undoing') = One(t \in Undoing)
          /\ One(t \in Fated') = One(t \in Fated)
      BY <1>20, <2>1, <3>1, <3>2
      DEF One, Allocating, Emptying, Undoing, Fated, PopsFor, AtPc, Popping
    <3>4. thread[t].block \notin Full /\ thread[t].block \notin Empty BY <3>2, Holders
    <3>5. /\ Cardinality(Full') = Cardinality(Full) + 1
          /\ Cardinality(Empty') = Cardinality(Empty)
      BY <3>1, <3>4, StackSizes DEF FullPushes
    <3>6. /\ useBlockCount' = useBlockCount /\ maxBlockCount' = maxBlockCount
          /\ chunkBlockPoolSize' = chunkBlockPoolSize /\ countGrew' = countGrew
      BY <1>20 DEF PushBlock
    <3>7. Recounted(t) BY <3>1, Recounts DEF Recounted
    <3> QED BY <1>20, <2>1, <1>t, <1>c, <1>n, <3>3, <3>5, <3>6, <3>7 DEF Counted, Recounted
  <2>2. CASE topBlock # thread[t].tempTop
    <3>1. Only(t) /\ thread'[t].pc = "read" /\ thread'[t].ret = thread[t].ret /\ Quiet
      BY <1>20, <2>2, PushBlockMoves DEF Becomes
    <3>2. thread[t].pc = "push" BY <1>20 DEF PushBlock
    <3>3. /\ One(t \in Allocating') = One(t \in Allocating)
          /\ One(t \in Emptying') = One(t \in Emptying)
          /\ One(t \in Undoing') = One(t \in Undoing)
          /\ One(t \in Fated') = One(t \in Fated)
      BY <1>20, <2>2, <3>1, <3>2
      DEF One, Allocating, Emptying, Undoing, Fated, PopsFor, AtPc, Popping
    <3>4. Full' = Full /\ Empty' = Empty BY <3>1 DEF Quiet
    <3>5. Cardinality(Full') = Cardinality(Full) /\ Cardinality(Empty') = Cardinality(Empty)
      BY <3>4
    <3>6. /\ useBlockCount' = useBlockCount /\ maxBlockCount' = maxBlockCount
          /\ chunkBlockPoolSize' = chunkBlockPoolSize /\ countGrew' = countGrew
      BY <1>20 DEF PushBlock
    <3>7. Recounted(t) BY <3>1, Recounts DEF Recounted
    <3> QED BY <1>20, <2>2, <1>t, <1>c, <1>n, <3>3, <3>5, <3>6, <3>7 DEF Counted, Recounted
  <2> QED BY <2>1, <2>2
<1>21. ASSUME NEW t \in Threads, PushCount(t) PROVE Counted'
  <2>1. Only(t) /\ thread'[t].pc = "idle" /\ thread'[t].ret = "idle" /\ Quiet
    BY <1>21, PushCountMoves DEF Becomes
  <2>2. thread[t].pc = "count" BY <1>21 DEF PushCount
  <2>3. /\ One(t \in Allocating') = One(t \in Allocating) - 1
        /\ One(t \in Emptying') = One(t \in Emptying)
        /\ One(t \in Undoing') = One(t \in Undoing) /\ One(t \in Fated') = One(t \in Fated)
    BY <1>21, <2>1, <2>2
    DEF One, Allocating, Emptying, Undoing, Fated, PopsFor, AtPc, Popping
  <2>4. Full' = Full /\ Empty' = Empty BY <2>1 DEF Quiet
  <2>5. Cardinality(Full') = Cardinality(Full) /\ Cardinality(Empty') = Cardinality(Empty)
    BY <2>4
  <2>6. /\ useBlockCount' = useBlockCount - 1 /\ maxBlockCount' = maxBlockCount
        /\ chunkBlockPoolSize' = chunkBlockPoolSize /\ countGrew' = countGrew
    BY <1>21 DEF PushCount
  <2>7. Recounted(t) BY <2>1, Recounts DEF Recounted
  <2> QED BY <1>21, <1>t, <1>c, <1>n, <2>3, <2>5, <2>6, <2>7 DEF Counted, Recounted
<1>22. CASE UNCHANGED vars
  BY <1>22 DEF IInv, Counted, Full, Empty, Allocating, Emptying, Undoing, Fated, PopsFor, AtPc
<1> QED BY <1>1, <1>2, <1>3, <1>4, <1>5, <1>6, <1>7, <1>8, <1>9, <1>10, <1>11, <1>12, <1>13,
    <1>14, <1>15, <1>16, <1>17, <1>18, <1>19, <1>20, <1>21, <1>22
  DEF Next, Begin, Continue, PopFull, PopEmpty, PushEmpty, PushFull

BudgetsOf(t) ==
    /\ Cardinality(MayBlock') - One(t \in MayBlock') = Cardinality(MayBlock) - One(t \in MayBlock)
    /\ Cardinality(MayBatch') - One(t \in MayBatch') = Cardinality(MayBatch) - One(t \in MayBatch)
    /\ Cardinality(MayNumber') - One(t \in MayNumber') = Cardinality(MayNumber) - One(t \in MayNumber)
    /\ Cardinality(MayFill') - One(t \in MayFill') = Cardinality(MayFill) - One(t \in MayFill)
    /\ Cardinality(Calling') - One(t \in Calling') = Cardinality(Calling) - One(t \in Calling)

LEMMA LimitsStep ==
  ASSUME IInv, [Next]_vars
  PROVE  Limits'
<1>t. /\ thread \in [Threads -> ThreadType] /\ curSize \in [Blocks -> {0, 1}]
      /\ blocks \in Nat /\ batches \in Nat /\ chunkBlockPoolUniqeCounter \in Nat
      /\ uniqueCount \in Nat /\ useBlockCount \in Nat /\ calls \in Nat /\ InitBlocks \in Nat
  BY Types DEF IInv
<1>l. \A t \in Threads : LocalsOf(t) BY DEF IInv, Locals
<1>c. Limits BY DEF IInv
<1>n. \A t \in Threads :
        /\ Cardinality(MayBlock) \in Nat /\ Cardinality(MayBatch) \in Nat
        /\ Cardinality(MayNumber) \in Nat /\ Cardinality(MayFill) \in Nat
        /\ Cardinality(Calling) \in Nat
        /\ Cardinality(MayBlock') \in Nat /\ Cardinality(MayBatch') \in Nat
        /\ Cardinality(MayNumber') \in Nat /\ Cardinality(MayFill') \in Nat
        /\ Cardinality(Calling') \in Nat /\ Cardinality(out) \in Nat
        /\ One(t \in MayBlock) \in Nat /\ One(t \in MayBatch) \in Nat
        /\ One(t \in MayNumber) \in Nat /\ One(t \in MayFill) \in Nat
        /\ One(t \in Calling) \in Nat
  BY OutFinite, Counts, CountsNext DEF One
<1>1. ASSUME NEW t \in Threads, AllocChunk(t) PROVE Limits'
  <2>1. Only(t) /\ thread'[t].pc = "test" /\ thread'[t].ret = thread[t].ret
    BY <1>1, AllocChunkMoves DEF Becomes
  <2>2. thread[t].pc = "idle" BY <1>1 DEF AllocChunk
  <2>3. /\ One(t \in MayBlock') = One(t \in MayBlock) + 1
        /\ One(t \in MayBatch') = One(t \in MayBatch) + 1
        /\ One(t \in MayNumber') = One(t \in MayNumber) + 1
        /\ One(t \in MayFill') = One(t \in MayFill)
        /\ One(t \in Calling') = One(t \in Calling) + 1
    BY <2>1, <2>2
    DEF One, MayBlock, MayBatch, MayNumber, MayFill, Calling, PopsFor, AtPc, Popping
  <2>4. /\ blocks' = blocks /\ batches' = batches
        /\ chunkBlockPoolUniqeCounter' = chunkBlockPoolUniqeCounter
        /\ uniqueCount' = uniqueCount /\ useBlockCount' = useBlockCount + 1
        /\ calls' = calls + 1 /\ out' = out
    BY <1>1 DEF AllocChunk
  <2>5. Cardinality(out') = Cardinality(out) BY <2>4
  <2>6. BudgetsOf(t) BY <2>1, Recounts DEF BudgetsOf
  <2> QED BY <1>t, <1>c, <1>n, <2>3, <2>4, <2>5, <2>6 DEF Limits, BudgetsOf
<1>2. ASSUME NEW t \in Threads, FreeChunk(t) PROVE Limits'
  <2>1. PICK b \in out : /\ out' = out \ {b} /\ Only(t) /\ thread'[t].pc = "claim"
                          /\ thread'[t].ret = "fill"
    BY <1>2, FreeChunkMoves DEF Becomes
  <2>2. thread[t].pc = "idle" BY <1>2 DEF FreeChunk
  <2>3. /\ One(t \in MayBlock') = One(t \in MayBlock) + 1
        /\ One(t \in MayBatch') = One(t \in MayBatch)
        /\ One(t \in MayNumber') = One(t \in MayNumber)
        /\ One(t \in MayFill') = One(t \in MayFill) + 1
        /\ One(t \in Calling') = One(t \in Calling) + 1
    BY <2>1, <2>2
    DEF One, MayBlock, MayBatch, MayNumber, MayFill, Calling, PopsFor, AtPc, Popping
  <2>4. /\ blocks' = blocks /\ batches' = batches
        /\ chunkBlockPoolUniqeCounter' = chunkBlockPoolUniqeCounter
        /\ uniqueCount' = uniqueCount /\ useBlockCount' = useBlockCount
        /\ calls' = calls + 1
    BY <1>2 DEF FreeChunk
  <2>5. Cardinality(out') = Cardinality(out) - 1 BY <2>1, OutFinite, FS_RemoveElement
  <2>6. BudgetsOf(t) BY <2>1, Recounts DEF BudgetsOf
  <2> QED BY <1>t, <1>c, <1>n, <2>3, <2>4, <2>5, <2>6 DEF Limits, BudgetsOf
<1>3. ASSUME NEW t \in Threads, TestCount(t) PROVE Limits'
  <2>1. CASE thread[t].use >= maxBlockCount
    <3>1. Only(t) /\ thread'[t].pc = "claim" /\ thread'[t].ret = "renew"
      BY <1>3, <2>1, TestCountMoves DEF Becomes
    <3>2. thread[t].pc = "test" BY <1>3 DEF TestCount
    <3>3. /\ One(t \in MayBlock') = One(t \in MayBlock)
          /\ One(t \in MayBatch') = One(t \in MayBatch)
          /\ One(t \in MayNumber') = One(t \in MayNumber)
          /\ One(t \in MayFill') = One(t \in MayFill)
          /\ One(t \in Calling') = One(t \in Calling)
      BY <3>1, <3>2
      DEF One, MayBlock, MayBatch, MayNumber, MayFill, Calling, PopsFor, AtPc, Popping
    <3>4. /\ blocks' = blocks /\ batches' = batches
          /\ chunkBlockPoolUniqeCounter' = chunkBlockPoolUniqeCounter
          /\ uniqueCount' = uniqueCount /\ useBlockCount' = useBlockCount /\ calls' = calls
          /\ out' = out
      BY <1>3 DEF TestCount
    <3>5. Cardinality(out') = Cardinality(out) BY <3>4
    <3>6. BudgetsOf(t) BY <3>1, Recounts DEF BudgetsOf
    <3> QED BY <1>t, <1>c, <1>n, <3>3, <3>4, <3>5, <3>6 DEF Limits, BudgetsOf
  <2>2. CASE thread[t].use < maxBlockCount
    <3>1. Only(t) /\ thread'[t].pc = "top" /\ thread'[t].ret = thread[t].ret
      BY <1>3, <2>2, TestCountMoves DEF Becomes
    <3>2. thread[t].pc = "test" BY <1>3 DEF TestCount
    <3>3. /\ One(t \in MayBlock') = One(t \in MayBlock) - 1
          /\ One(t \in MayBatch') = One(t \in MayBatch) - 1
          /\ One(t \in MayNumber') = One(t \in MayNumber)
          /\ One(t \in MayFill') = One(t \in MayFill)
          /\ One(t \in Calling') = One(t \in Calling)
      BY <3>1, <3>2
      DEF One, MayBlock, MayBatch, MayNumber, MayFill, Calling, PopsFor, AtPc, Popping
    <3>4. /\ blocks' = blocks /\ batches' = batches
          /\ chunkBlockPoolUniqeCounter' = chunkBlockPoolUniqeCounter
          /\ uniqueCount' = uniqueCount /\ useBlockCount' = useBlockCount /\ calls' = calls
          /\ out' = out
      BY <1>3 DEF TestCount
    <3>5. Cardinality(out') = Cardinality(out) BY <3>4
    <3>6. BudgetsOf(t) BY <3>1, Recounts DEF BudgetsOf
    <3> QED BY <1>t, <1>c, <1>n, <3>3, <3>4, <3>5, <3>6 DEF Limits, BudgetsOf
  <2>3. thread[t].use \in Nat /\ maxBlockCount \in Nat BY Types DEF IInv, ThreadType
  <2> QED BY <2>1, <2>2, <2>3
<1>4. ASSUME NEW t \in Threads, ReadTop(t) PROVE Limits'
  <2>1. Only(t) /\ thread'[t].pc = "next" /\ thread'[t].ret = thread[t].ret
    BY <1>4, ReadTopMoves DEF Becomes
  <2>2. thread[t].pc = "top" BY <1>4 DEF ReadTop
  <2>3. /\ One(t \in MayBlock') = One(t \in MayBlock)
        /\ One(t \in MayBatch') = One(t \in MayBatch)
        /\ One(t \in MayNumber') = One(t \in MayNumber)
        /\ One(t \in MayFill') = One(t \in MayFill)
        /\ One(t \in Calling') = One(t \in Calling)
    BY <2>1, <2>2
    DEF One, MayBlock, MayBatch, MayNumber, MayFill, Calling, PopsFor, AtPc, Popping
  <2>4. /\ blocks' = blocks /\ batches' = batches
        /\ chunkBlockPoolUniqeCounter' = chunkBlockPoolUniqeCounter
        /\ uniqueCount' = uniqueCount /\ useBlockCount' = useBlockCount /\ calls' = calls
        /\ out' = out
    BY <1>4 DEF ReadTop
  <2>5. Cardinality(out') = Cardinality(out) BY <2>4
  <2>6. BudgetsOf(t) BY <2>1, Recounts DEF BudgetsOf
  <2> QED BY <1>t, <1>c, <1>n, <2>3, <2>4, <2>5, <2>6 DEF Limits, BudgetsOf
<1>5. ASSUME NEW t \in Threads, ReadNext(t) PROVE Limits'
  <2>1. Only(t) /\ thread'[t].pc = "pop" /\ thread'[t].ret = thread[t].ret
    BY <1>5, ReadNextMoves DEF Becomes
  <2>2. thread[t].pc = "next" BY <1>5 DEF ReadNext
  <2>3. /\ One(t \in MayBlock') = One(t \in MayBlock)
        /\ One(t \in MayBatch') = One(t \in MayBatch)
        /\ One(t \in MayNumber') = One(t \in MayNumber)
        /\ One(t \in MayFill') = One(t \in MayFill)
        /\ One(t \in Calling') = One(t \in Calling)
    BY <2>1, <2>2
    DEF One, MayBlock, MayBatch, MayNumber, MayFill, Calling, PopsFor, AtPc, Popping
  <2>4. /\ blocks' = blocks /\ batches' = batches
        /\ chunkBlockPoolUniqeCounter' = chunkBlockPoolUniqeCounter
        /\ uniqueCount' = uniqueCount /\ useBlockCount' = useBlockCount /\ calls' = calls
        /\ out' = out
    BY <1>5 DEF ReadNext
  <2>5. Cardinality(out') = Cardinality(out) BY <2>4
  <2>6. BudgetsOf(t) BY <2>1, Recounts DEF BudgetsOf
  <2> QED BY <1>t, <1>c, <1>n, <2>3, <2>4, <2>5, <2>6 DEF Limits, BudgetsOf
<1>6. ASSUME NEW t \in Threads, ReadNull(t) PROVE Limits'
  <2>1. Only(t) /\ thread'[t].pc = "crashed" /\ thread'[t].ret = thread[t].ret
    BY <1>6, ReadNullMoves DEF Becomes
  <2>2. thread[t].pc = "next" BY <1>6 DEF ReadNull
  <2>3. /\ One(t \in MayBlock') = One(t \in MayBlock)
        /\ One(t \in MayBatch') = One(t \in MayBatch)
        /\ One(t \in MayNumber') = One(t \in MayNumber) - 1
        /\ One(t \in MayFill') = One(t \in MayFill)
        /\ One(t \in Calling') = One(t \in Calling)
    BY <2>1, <2>2
    DEF One, MayBlock, MayBatch, MayNumber, MayFill, Calling, PopsFor, AtPc, Popping
  <2>4. /\ blocks' = blocks /\ batches' = batches
        /\ chunkBlockPoolUniqeCounter' = chunkBlockPoolUniqeCounter
        /\ uniqueCount' = uniqueCount /\ useBlockCount' = useBlockCount /\ calls' = calls
        /\ out' = out
    BY <1>6 DEF ReadNull
  <2>5. Cardinality(out') = Cardinality(out) BY <2>4
  <2>6. BudgetsOf(t) BY <2>1, Recounts DEF BudgetsOf
  <2> QED BY <1>t, <1>c, <1>n, <2>3, <2>4, <2>5, <2>6 DEF Limits, BudgetsOf
<1>7. ASSUME NEW t \in Threads, PopBlock(t) PROVE Limits'
  <2>1. CASE topBlock = thread[t].tempTop
    <3>1. Only(t) /\ thread'[t].pc = "take" /\ thread'[t].ret = "idle"
      BY <1>7, <2>1, PopBlockMoves DEF Becomes
    <3>2. thread[t].pc = "pop" BY <1>7 DEF PopBlock
    <3>3. /\ One(t \in MayBlock') = One(t \in MayBlock)
          /\ One(t \in MayBatch') = One(t \in MayBatch)
          /\ One(t \in MayNumber') = One(t \in MayNumber)
          /\ One(t \in MayFill') = One(t \in MayFill)
          /\ One(t \in Calling') = One(t \in Calling)
      BY <3>1, <3>2
      DEF One, MayBlock, MayBatch, MayNumber, MayFill, Calling, PopsFor, AtPc, Popping
    <3>4. /\ blocks' = blocks /\ batches' = batches
          /\ chunkBlockPoolUniqeCounter' = chunkBlockPoolUniqeCounter
          /\ uniqueCount' = uniqueCount /\ useBlockCount' = useBlockCount /\ calls' = calls
          /\ out' = out
      BY <1>7 DEF PopBlock
    <3>5. Cardinality(out') = Cardinality(out) BY <3>4
    <3>6. BudgetsOf(t) BY <3>1, Recounts DEF BudgetsOf
    <3> QED BY <1>t, <1>c, <1>n, <3>3, <3>4, <3>5, <3>6 DEF Limits, BudgetsOf
  <2>2. CASE topBlock # thread[t].tempTop
    <3>1. Only(t) /\ thread'[t].pc = "top" /\ thread'[t].ret = thread[t].ret
      BY <1>7, <2>2, PopBlockMoves DEF Becomes
    <3>2. thread[t].pc = "pop" BY <1>7 DEF PopBlock
    <3>3. /\ One(t \in MayBlock') = One(t \in MayBlock)
          /\ One(t \in MayBatch') = One(t \in MayBatch)
          /\ One(t \in MayNumber') = One(t \in MayNumber)
          /\ One(t \in MayFill') = One(t \in MayFill)
          /\ One(t \in Calling') = One(t \in Calling)
      BY <3>1, <3>2
      DEF One, MayBlock, MayBatch, MayNumber, MayFill, Calling, PopsFor, AtPc, Popping
    <3>4. /\ blocks' = blocks /\ batches' = batches
          /\ chunkBlockPoolUniqeCounter' = chunkBlockPoolUniqeCounter
          /\ uniqueCount' = uniqueCount /\ useBlockCount' = useBlockCount /\ calls' = calls
          /\ out' = out
      BY <1>7 DEF PopBlock
    <3>5. Cardinality(out') = Cardinality(out) BY <3>4
    <3>6. BudgetsOf(t) BY <3>1, Recounts DEF BudgetsOf
    <3> QED BY <1>t, <1>c, <1>n, <3>3, <3>4, <3>5, <3>6 DEF Limits, BudgetsOf
  <2> QED BY <2>1, <2>2
<1>8. ASSUME NEW t \in Threads, NewChunkBlock(t) PROVE Limits'
  <2>1. Only(t) /\ thread'[t].pc = "take" /\ thread'[t].ret = thread[t].ret
    BY <1>8, NewChunkBlockMoves DEF Becomes
  <2>2. thread[t].pc = "renew" BY <1>8 DEF NewChunkBlock
  <2>3. /\ One(t \in MayBlock') = One(t \in MayBlock)
        /\ One(t \in MayBatch') = One(t \in MayBatch) - 1
        /\ One(t \in MayNumber') = One(t \in MayNumber)
        /\ One(t \in MayFill') = One(t \in MayFill)
        /\ One(t \in Calling') = One(t \in Calling)
    BY <2>1, <2>2
    DEF One, MayBlock, MayBatch, MayNumber, MayFill, Calling, PopsFor, AtPc, Popping
  <2>4. /\ blocks' = blocks /\ batches' = batches + 1 - curSize[thread[t].block]
        /\ chunkBlockPoolUniqeCounter' = chunkBlockPoolUniqeCounter
        /\ uniqueCount' = uniqueCount /\ useBlockCount' = useBlockCount /\ calls' = calls
        /\ out' = out
    BY <1>8 DEF NewChunkBlock
  <2>5. curSize[thread[t].block] \in {0, 1}
    <3>1. thread[t].block \in Blocks BY <2>2, Holders
    <3> QED BY <1>t, <3>1
  <2>6. Cardinality(out') = Cardinality(out) BY <2>4
  <2>7. BudgetsOf(t) BY <2>1, Recounts DEF BudgetsOf
  <2> QED BY <1>t, <1>c, <1>n, <2>3, <2>4, <2>5, <2>6, <2>7 DEF Limits, BudgetsOf
<1>9. ASSUME NEW t \in Threads, TakeNodes(t) PROVE Limits'
  <2>1. Only(t) /\ thread'[t].pc = "emptyRead" /\ thread'[t].ret = thread[t].ret
    BY <1>9, TakeNodesMoves DEF Becomes
  <2>2. thread[t].pc = "take" BY <1>9 DEF TakeNodes
  <2>3. /\ One(t \in MayBlock') = One(t \in MayBlock)
        /\ One(t \in MayBatch') = One(t \in MayBatch)
        /\ One(t \in MayNumber') = One(t \in MayNumber) - 1
        /\ One(t \in MayFill') = One(t \in MayFill)
        /\ One(t \in Calling') = One(t \in Calling)
    BY <2>1, <2>2
    DEF One, MayBlock, MayBatch, MayNumber, MayFill, Calling, PopsFor, AtPc, Popping
  <2>4. /\ blocks' = blocks /\ batches' = batches
        /\ chunkBlockPoolUniqeCounter' = chunkBlockPoolUniqeCounter + 1
        /\ uniqueCount' = uniqueCount /\ useBlockCount' = useBlockCount /\ calls' = calls
        /\ out' = out
    BY <1>9 DEF TakeNodes
  <2>5. Cardinality(out') = Cardinality(out) BY <2>4
  <2>6. BudgetsOf(t) BY <2>1, Recounts DEF BudgetsOf
  <2> QED BY <1>t, <1>c, <1>n, <2>3, <2>4, <2>5, <2>6 DEF Limits, BudgetsOf
<1>10. ASSUME NEW t \in Threads, EmptyRead(t) PROVE Limits'
  <2>1. Only(t) /\ thread'[t].pc = "emptyPush" /\ thread'[t].ret = thread[t].ret
    BY <1>10, EmptyReadMoves DEF Becomes
  <2>2. thread[t].pc = "emptyRead" BY <1>10 DEF EmptyRead
  <2>3. /\ One(t \in MayBlock') = One(t \in MayBlock)
        /\ One(t \in MayBatch') = One(t \in MayBatch)
        /\ One(t \in MayNumber') = One(t \in MayNumber)
        /\ One(t \in MayFill') = One(t \in MayFill)
        /\ One(t \in Calling') = One(t \in Calling)
    BY <2>1, <2>2
    DEF One, MayBlock, MayBatch, MayNumber, MayFill, Calling, PopsFor, AtPc, Popping
  <2>4. /\ blocks' = blocks /\ batches' = batches
        /\ chunkBlockPoolUniqeCounter' = chunkBlockPoolUniqeCounter
        /\ uniqueCount' = uniqueCount /\ useBlockCount' = useBlockCount /\ calls' = calls
        /\ out' = out
    BY <1>10 DEF EmptyRead
  <2>5. Cardinality(out') = Cardinality(out) BY <2>4
  <2>6. BudgetsOf(t) BY <2>1, Recounts DEF BudgetsOf
  <2> QED BY <1>t, <1>c, <1>n, <2>3, <2>4, <2>5, <2>6 DEF Limits, BudgetsOf
<1>11. ASSUME NEW t \in Threads, EmptyPush(t) PROVE Limits'
  <2>1. CASE chunkBlockPoolTop = thread[t].tempTop
    <3>1. Only(t) /\ thread'[t].pc = "emptyCount" /\ thread'[t].ret = thread[t].ret
      BY <1>11, <2>1, EmptyPushMoves DEF Becomes
    <3>2. thread[t].pc = "emptyPush" BY <1>11 DEF EmptyPush
    <3>3. /\ One(t \in MayBlock') = One(t \in MayBlock)
          /\ One(t \in MayBatch') = One(t \in MayBatch)
          /\ One(t \in MayNumber') = One(t \in MayNumber)
          /\ One(t \in MayFill') = One(t \in MayFill)
          /\ One(t \in Calling') = One(t \in Calling)
      BY <3>1, <3>2
      DEF One, MayBlock, MayBatch, MayNumber, MayFill, Calling, PopsFor, AtPc, Popping
    <3>4. /\ blocks' = blocks /\ batches' = batches
          /\ chunkBlockPoolUniqeCounter' = chunkBlockPoolUniqeCounter
          /\ uniqueCount' = uniqueCount /\ useBlockCount' = useBlockCount /\ calls' = calls
          /\ out' = out
      BY <1>11 DEF EmptyPush
    <3>5. Cardinality(out') = Cardinality(out) BY <3>4
    <3>6. BudgetsOf(t) BY <3>1, Recounts DEF BudgetsOf
    <3> QED BY <1>t, <1>c, <1>n, <3>3, <3>4, <3>5, <3>6 DEF Limits, BudgetsOf
  <2>2. CASE chunkBlockPoolTop # thread[t].tempTop
    <3>1. Only(t) /\ thread'[t].pc = "emptyRead" /\ thread'[t].ret = thread[t].ret
      BY <1>11, <2>2, EmptyPushMoves DEF Becomes
    <3>2. thread[t].pc = "emptyPush" BY <1>11 DEF EmptyPush
    <3>3. /\ One(t \in MayBlock') = One(t \in MayBlock)
          /\ One(t \in MayBatch') = One(t \in MayBatch)
          /\ One(t \in MayNumber') = One(t \in MayNumber)
          /\ One(t \in MayFill') = One(t \in MayFill)
          /\ One(t \in Calling') = One(t \in Calling)
      BY <3>1, <3>2
      DEF One, MayBlock, MayBatch, MayNumber, MayFill, Calling, PopsFor, AtPc, Popping
    <3>4. /\ blocks' = blocks /\ batches' = batches
          /\ chunkBlockPoolUniqeCounter' = chunkBlockPoolUniqeCounter
          /\ uniqueCount' = uniqueCount /\ useBlockCount' = useBlockCount /\ calls' = calls
          /\ out' = out
      BY <1>11 DEF EmptyPush
    <3>5. Cardinality(out') = Cardinality(out) BY <3>4
    <3>6. BudgetsOf(t) BY <3>1, Recounts DEF BudgetsOf
    <3> QED BY <1>t, <1>c, <1>n, <3>3, <3>4, <3>5, <3>6 DEF Limits, BudgetsOf
  <2> QED BY <2>1, <2>2
<1>12. ASSUME NEW t \in Threads, EmptyCount(t) PROVE Limits'
  <2>1. Only(t) /\ thread'[t].pc = "idle" /\ thread'[t].ret = "idle"
    BY <1>12, EmptyCountMoves DEF Becomes
  <2>2. thread[t].pc = "emptyCount" BY <1>12 DEF EmptyCount
  <2>3. /\ One(t \in MayBlock') = One(t \in MayBlock)
        /\ One(t \in MayBatch') = One(t \in MayBatch)
        /\ One(t \in MayNumber') = One(t \in MayNumber)
        /\ One(t \in MayFill') = One(t \in MayFill)
        /\ One(t \in Calling') = One(t \in Calling) - 1
    BY <2>1, <2>2
    DEF One, MayBlock, MayBatch, MayNumber, MayFill, Calling, PopsFor, AtPc, Popping
  <2>4. /\ blocks' = blocks /\ batches' = batches
        /\ chunkBlockPoolUniqeCounter' = chunkBlockPoolUniqeCounter
        /\ uniqueCount' = uniqueCount /\ useBlockCount' = useBlockCount /\ calls' = calls
    BY <1>12 DEF EmptyCount
  <2>5. thread[t].batch \notin out BY <2>2 DEF IInv, OwnNodes, HasBatch, AtPc
  <2>6. Cardinality(out') = Cardinality(out) + 1
    <3>1. out' = out \cup {thread[t].batch} BY <1>12 DEF EmptyCount
    <3> QED BY <2>5, <3>1, OutFinite, FS_AddElement
  <2>7. BudgetsOf(t) BY <2>1, Recounts DEF BudgetsOf
  <2> QED BY <1>t, <1>c, <1>n, <2>3, <2>4, <2>6, <2>7 DEF Limits, BudgetsOf
<1>13. ASSUME NEW t \in Threads, Claim(t) PROVE Limits'
  <2>1. CASE chunkBlockPoolSize - 1 < 0
    <3>1. Only(t) /\ thread'[t].pc = "undo" /\ thread'[t].ret = thread[t].ret
      BY <1>13, <2>1, ClaimMoves DEF Becomes
    <3>2. thread[t].pc = "claim" BY <1>13 DEF Claim
    <3>3. /\ One(t \in MayBlock') = One(t \in MayBlock)
          /\ One(t \in MayBatch') = One(t \in MayBatch)
          /\ One(t \in MayNumber') = One(t \in MayNumber)
          /\ One(t \in MayFill') = One(t \in MayFill)
          /\ One(t \in Calling') = One(t \in Calling)
      BY <3>1, <3>2
      DEF One, MayBlock, MayBatch, MayNumber, MayFill, Calling, PopsFor, AtPc, Popping
    <3>4. /\ blocks' = blocks /\ batches' = batches
          /\ chunkBlockPoolUniqeCounter' = chunkBlockPoolUniqeCounter
          /\ uniqueCount' = uniqueCount /\ useBlockCount' = useBlockCount /\ calls' = calls
          /\ out' = out
      BY <1>13 DEF Claim
    <3>5. Cardinality(out') = Cardinality(out) BY <3>4
    <3>6. BudgetsOf(t) BY <3>1, Recounts DEF BudgetsOf
    <3> QED BY <1>t, <1>c, <1>n, <3>3, <3>4, <3>5, <3>6 DEF Limits, BudgetsOf
  <2>2. CASE chunkBlockPoolSize - 1 >= 0
    <3>1. Only(t) /\ thread'[t].pc = "emptyTop" /\ thread'[t].ret = thread[t].ret
      BY <1>13, <2>2, ClaimMoves DEF Becomes
    <3>2. thread[t].pc = "claim" BY <1>13 DEF Claim
    <3>3. /\ One(t \in MayBlock') = One(t \in MayBlock) - 1
          /\ One(t \in MayBatch') = One(t \in MayBatch)
          /\ One(t \in MayNumber') = One(t \in MayNumber)
          /\ One(t \in MayFill') = One(t \in MayFill)
          /\ One(t \in Calling') = One(t \in Calling)
      BY <3>1, <3>2
      DEF One, MayBlock, MayBatch, MayNumber, MayFill, Calling, PopsFor, AtPc, Popping
    <3>4. /\ blocks' = blocks /\ batches' = batches
          /\ chunkBlockPoolUniqeCounter' = chunkBlockPoolUniqeCounter
          /\ uniqueCount' = uniqueCount /\ useBlockCount' = useBlockCount /\ calls' = calls
          /\ out' = out
      BY <1>13 DEF Claim
    <3>5. Cardinality(out') = Cardinality(out) BY <3>4
    <3>6. BudgetsOf(t) BY <3>1, Recounts DEF BudgetsOf
    <3> QED BY <1>t, <1>c, <1>n, <3>3, <3>4, <3>5, <3>6 DEF Limits, BudgetsOf
  <2>3. chunkBlockPoolSize \in Int BY Types DEF IInv
  <2> QED BY <2>1, <2>2, <2>3
<1>14. ASSUME NEW t \in Threads, NewBlock(t) PROVE Limits'
  <2>1. Only(t) /\ thread'[t].pc = thread[t].ret /\ thread'[t].ret = "idle"
    BY <1>14, NewBlockMoves DEF Becomes
  <2>2. thread[t].pc = "undo" BY <1>14 DEF NewBlock
  <2>3. thread[t].ret \in {"renew", "fill"}
    BY <2>2, <1>t, <1>l DEF LocalsOf, Popping, ThreadType
  <2>4. /\ One(t \in MayBlock') = One(t \in MayBlock) - 1
        /\ One(t \in MayBatch') = One(t \in MayBatch)
        /\ One(t \in MayNumber') = One(t \in MayNumber)
        /\ One(t \in MayFill') = One(t \in MayFill)
        /\ One(t \in Calling') = One(t \in Calling)
    BY <2>1, <2>3, <2>2
    DEF One, MayBlock, MayBatch, MayNumber, MayFill, Calling, PopsFor, AtPc, Popping
  <2>5. /\ blocks' = blocks + 1 /\ batches' = batches
        /\ chunkBlockPoolUniqeCounter' = chunkBlockPoolUniqeCounter
        /\ uniqueCount' = uniqueCount /\ useBlockCount' = useBlockCount /\ calls' = calls
        /\ out' = out
    BY <1>14 DEF NewBlock
  <2>6. Cardinality(out') = Cardinality(out) BY <2>5
  <2>7. BudgetsOf(t) BY <2>1, Recounts DEF BudgetsOf
  <2> QED BY <1>t, <1>c, <1>n, <2>4, <2>5, <2>6, <2>7 DEF Limits, BudgetsOf
<1>15. ASSUME NEW t \in Threads, EmptyTop(t) PROVE Limits'
  <2>1. Only(t) /\ thread'[t].pc = "emptyNext" /\ thread'[t].ret = thread[t].ret
    BY <1>15, EmptyTopMoves DEF Becomes
  <2>2. thread[t].pc = "emptyTop" BY <1>15 DEF EmptyTop
  <2>3. /\ One(t \in MayBlock') = One(t \in MayBlock)
        /\ One(t \in MayBatch') = One(t \in MayBatch)
        /\ One(t \in MayNumber') = One(t \in MayNumber)
        /\ One(t \in MayFill') = One(t \in MayFill)
        /\ One(t \in Calling') = One(t \in Calling)
    BY <2>1, <2>2
    DEF One, MayBlock, MayBatch, MayNumber, MayFill, Calling, PopsFor, AtPc, Popping
  <2>4. /\ blocks' = blocks /\ batches' = batches
        /\ chunkBlockPoolUniqeCounter' = chunkBlockPoolUniqeCounter
        /\ uniqueCount' = uniqueCount /\ useBlockCount' = useBlockCount /\ calls' = calls
        /\ out' = out
    BY <1>15 DEF EmptyTop
  <2>5. Cardinality(out') = Cardinality(out) BY <2>4
  <2>6. BudgetsOf(t) BY <2>1, Recounts DEF BudgetsOf
  <2> QED BY <1>t, <1>c, <1>n, <2>3, <2>4, <2>5, <2>6 DEF Limits, BudgetsOf
<1>16. ASSUME NEW t \in Threads, EmptyNext(t) PROVE Limits'
  <2>1. Only(t) /\ thread'[t].pc = "emptyPop" /\ thread'[t].ret = thread[t].ret
    BY <1>16, EmptyNextMoves DEF Becomes
  <2>2. thread[t].pc = "emptyNext" BY <1>16 DEF EmptyNext
  <2>3. /\ One(t \in MayBlock') = One(t \in MayBlock)
        /\ One(t \in MayBatch') = One(t \in MayBatch)
        /\ One(t \in MayNumber') = One(t \in MayNumber)
        /\ One(t \in MayFill') = One(t \in MayFill)
        /\ One(t \in Calling') = One(t \in Calling)
    BY <2>1, <2>2
    DEF One, MayBlock, MayBatch, MayNumber, MayFill, Calling, PopsFor, AtPc, Popping
  <2>4. /\ blocks' = blocks /\ batches' = batches
        /\ chunkBlockPoolUniqeCounter' = chunkBlockPoolUniqeCounter
        /\ uniqueCount' = uniqueCount /\ useBlockCount' = useBlockCount /\ calls' = calls
        /\ out' = out
    BY <1>16 DEF EmptyNext
  <2>5. Cardinality(out') = Cardinality(out) BY <2>4
  <2>6. BudgetsOf(t) BY <2>1, Recounts DEF BudgetsOf
  <2> QED BY <1>t, <1>c, <1>n, <2>3, <2>4, <2>5, <2>6 DEF Limits, BudgetsOf
<1>17. ASSUME NEW t \in Threads, EmptyPop(t) PROVE Limits'
  <2>1. CASE chunkBlockPoolTop = thread[t].tempTop
    <3>1. Only(t) /\ thread'[t].pc = thread[t].ret /\ thread'[t].ret = "idle"
      BY <1>17, <2>1, EmptyPopMoves DEF Becomes
    <3>2. thread[t].pc = "emptyPop" BY <1>17 DEF EmptyPop
    <3>3. thread[t].ret \in {"renew", "fill"}
      BY <3>2, <1>t, <1>l DEF LocalsOf, Popping, ThreadType
    <3>4. /\ One(t \in MayBlock') = One(t \in MayBlock)
          /\ One(t \in MayBatch') = One(t \in MayBatch)
          /\ One(t \in MayNumber') = One(t \in MayNumber)
          /\ One(t \in MayFill') = One(t \in MayFill)
          /\ One(t \in Calling') = One(t \in Calling)
      BY <3>1, <3>3, <3>2
      DEF One, MayBlock, MayBatch, MayNumber, MayFill, Calling, PopsFor, AtPc, Popping
    <3>5. /\ blocks' = blocks /\ batches' = batches
          /\ chunkBlockPoolUniqeCounter' = chunkBlockPoolUniqeCounter
          /\ uniqueCount' = uniqueCount /\ useBlockCount' = useBlockCount /\ calls' = calls
          /\ out' = out
      BY <1>17 DEF EmptyPop
    <3>6. Cardinality(out') = Cardinality(out) BY <3>5
    <3>7. BudgetsOf(t) BY <3>1, Recounts DEF BudgetsOf
    <3> QED BY <1>t, <1>c, <1>n, <3>4, <3>5, <3>6, <3>7 DEF Limits, BudgetsOf
  <2>2. CASE chunkBlockPoolTop # thread[t].tempTop
    <3>1. Only(t) /\ thread'[t].pc = "emptyTop" /\ thread'[t].ret = thread[t].ret
      BY <1>17, <2>2, EmptyPopMoves DEF Becomes
    <3>2. thread[t].pc = "emptyPop" BY <1>17 DEF EmptyPop
    <3>3. /\ One(t \in MayBlock') = One(t \in MayBlock)
          /\ One(t \in MayBatch') = One(t \in MayBatch)
          /\ One(t \in MayNumber') = One(t \in MayNumber)
          /\ One(t \in MayFill') = One(t \in MayFill)
          /\ One(t \in Calling') = One(t \in Calling)
      BY <3>1, <3>2
      DEF One, MayBlock, MayBatch, MayNumber, MayFill, Calling, PopsFor, AtPc, Popping
    <3>4. /\ blocks' = blocks /\ batches' = batches
          /\ chunkBlockPoolUniqeCounter' = chunkBlockPoolUniqeCounter
          /\ uniqueCount' = uniqueCount /\ useBlockCount' = useBlockCount /\ calls' = calls
          /\ out' = out
      BY <1>17 DEF EmptyPop
    <3>5. Cardinality(out') = Cardinality(out) BY <3>4
    <3>6. BudgetsOf(t) BY <3>1, Recounts DEF BudgetsOf
    <3> QED BY <1>t, <1>c, <1>n, <3>3, <3>4, <3>5, <3>6 DEF Limits, BudgetsOf
  <2> QED BY <2>1, <2>2
<1>18. ASSUME NEW t \in Threads, Fill(t) PROVE Limits'
  <2>1. Only(t) /\ thread'[t].pc = "read" /\ thread'[t].ret = thread[t].ret
    BY <1>18, FillMoves DEF Becomes
  <2>2. thread[t].pc = "fill" BY <1>18 DEF Fill
  <2>3. /\ One(t \in MayBlock') = One(t \in MayBlock)
        /\ One(t \in MayBatch') = One(t \in MayBatch)
        /\ One(t \in MayNumber') = One(t \in MayNumber)
        /\ One(t \in MayFill') = One(t \in MayFill) - 1
        /\ One(t \in Calling') = One(t \in Calling)
    BY <2>1, <2>2
    DEF One, MayBlock, MayBatch, MayNumber, MayFill, Calling, PopsFor, AtPc, Popping
  <2>4. /\ blocks' = blocks /\ batches' = batches
        /\ chunkBlockPoolUniqeCounter' = chunkBlockPoolUniqeCounter
        /\ uniqueCount' = uniqueCount + 1 /\ useBlockCount' = useBlockCount
        /\ calls' = calls /\ out' = out
    BY <1>18 DEF Fill
  <2>5. Cardinality(out') = Cardinality(out) BY <2>4
  <2>6. BudgetsOf(t) BY <2>1, Recounts DEF BudgetsOf
  <2> QED BY <1>t, <1>c, <1>n, <2>3, <2>4, <2>5, <2>6 DEF Limits, BudgetsOf
<1>19. ASSUME NEW t \in Threads, PushRead(t) PROVE Limits'
  <2>1. Only(t) /\ thread'[t].pc = "push" /\ thread'[t].ret = thread[t].ret
    BY <1>19, PushReadMoves DEF Becomes
  <2>2. thread[t].pc = "read" BY <1>19 DEF PushRead
  <2>3. /\ One(t \in MayBlock') = One(t \in MayBlock)
        /\ One(t \in MayBatch') = One(t \in MayBatch)
        /\ One(t \in MayNumber') = One(t \in MayNumber)
        /\ One(t \in MayFill') = One(t \in MayFill)
        /\ One(t \in Calling') = One(t \in Calling)
    BY <2>1, <2>2
    DEF One, MayBlock, MayBatch, MayNumber, MayFill, Calling, PopsFor, AtPc, Popping
  <2>4. /\ blocks' = blocks /\ batches' = batches
        /\ chunkBlockPoolUniqeCounter' = chunkBlockPoolUniqeCounter
        /\ uniqueCount' = uniqueCount /\ useBlockCount' = useBlockCount /\ calls' = calls
        /\ out' = out
    BY <1>19 DEF PushRead
  <2>5. Cardinality(out') = Cardinality(out) BY <2>4
  <2>6. BudgetsOf(t) BY <2>1, Recounts DEF BudgetsOf
  <2> QED BY <1>t, <1>c, <1>n, <2>3, <2>4, <2>5, <2>6 DEF Limits, BudgetsOf
<1>20. ASSUME NEW t \in Threads, PushBlock(t) PROVE Limits'
  <2>1. CASE topBlock = thread[t].tempTop
    <3>1. Only(t) /\ thread'[t].pc = "count" /\ thread'[t].ret = thread[t].ret
      BY <1>20, <2>1, PushBlockMoves DEF Becomes
    <3>2. thread[t].pc = "push" BY <1>20 DEF PushBlock
    <3>3. /\ One(t \in MayBlock') = One(t \in MayBlock)
          /\ One(t \in MayBatch') = One(t \in MayBatch)
          /\ One(t \in MayNumber') = One(t \in MayNumber)
          /\ One(t \in MayFill') = One(t \in MayFill)
          /\ One(t \in Calling') = One(t \in Calling)
      BY <3>1, <3>2
      DEF One, MayBlock, MayBatch, MayNumber, MayFill, Calling, PopsFor, AtPc, Popping
    <3>4. /\ blocks' = blocks /\ batches' = batches
          /\ chunkBlockPoolUniqeCounter' = chunkBlockPoolUniqeCounter
          /\ uniqueCount' = uniqueCount /\ useBlockCount' = useBlockCount /\ calls' = calls
          /\ out' = out
      BY <1>20 DEF PushBlock
    <3>5. Cardinality(out') = Cardinality(out) BY <3>4
    <3>6. BudgetsOf(t) BY <3>1, Recounts DEF BudgetsOf
    <3> QED BY <1>t, <1>c, <1>n, <3>3, <3>4, <3>5, <3>6 DEF Limits, BudgetsOf
  <2>2. CASE topBlock # thread[t].tempTop
    <3>1. Only(t) /\ thread'[t].pc = "read" /\ thread'[t].ret = thread[t].ret
      BY <1>20, <2>2, PushBlockMoves DEF Becomes
    <3>2. thread[t].pc = "push" BY <1>20 DEF PushBlock
    <3>3. /\ One(t \in MayBlock') = One(t \in MayBlock)
          /\ One(t \in MayBatch') = One(t \in MayBatch)
          /\ One(t \in MayNumber') = One(t \in MayNumber)
          /\ One(t \in MayFill') = One(t \in MayFill)
          /\ One(t \in Calling') = One(t \in Calling)
      BY <3>1, <3>2
      DEF One, MayBlock, MayBatch, MayNumber, MayFill, Calling, PopsFor, AtPc, Popping
    <3>4. /\ blocks' = blocks /\ batches' = batches
          /\ chunkBlockPoolUniqeCounter' = chunkBlockPoolUniqeCounter
          /\ uniqueCount' = uniqueCount /\ useBlockCount' = useBlockCount /\ calls' = calls
          /\ out' = out
      BY <1>20 DEF PushBlock
    <3>5. Cardinality(out') = Cardinality(out) BY <3>4
    <3>6. BudgetsOf(t) BY <3>1, Recounts DEF BudgetsOf
    <3> QED BY <1>t, <1>c, <1>n, <3>3, <3>4, <3>5, <3>6 DEF Limits, BudgetsOf
  <2> QED BY <2>1, <2>2
<1>21. ASSUME NEW t \in Threads, PushCount(t) PROVE Limits'
  <2>1. Only(t) /\ thread'[t].pc = "idle" /\ thread'[t].ret = "idle"
    BY <1>21, PushCountMoves DEF Becomes
  <2>2. thread[t].pc = "count" BY <1>21 DEF PushCount
  <2>3. /\ One(t \in MayBlock') = One(t \in MayBlock)
        /\ One(t \in MayBatch') = One(t \in MayBatch)
        /\ One(t \in MayNumber') = One(t \in MayNumber)
        /\ One(t \in MayFill') = One(t \in MayFill)
        /\ One(t \in Calling') = One(t \in Calling) - 1
    BY <2>1, <2>2
    DEF One, MayBlock, MayBatch, MayNumber, MayFill, Calling, PopsFor, AtPc, Popping
  <2>4. /\ blocks' = blocks /\ batches' = batches
        /\ chunkBlockPoolUniqeCounter' = chunkBlockPoolUniqeCounter
        /\ uniqueCount' = uniqueCount /\ useBlockCount' = useBlockCount - 1
        /\ calls' = calls /\ out' = out
    BY <1>21 DEF PushCount
  <2>5. Cardinality(out') = Cardinality(out) BY <2>4
  <2>6. BudgetsOf(t) BY <2>1, Recounts DEF BudgetsOf
  <2> QED BY <1>t, <1>c, <1>n, <2>3, <2>4, <2>5, <2>6 DEF Limits, BudgetsOf
<1>22. CASE UNCHANGED vars
  BY <1>22, <1>c DEF Limits, MayBlock, MayBatch, MayNumber, MayFill, Calling, PopsFor, AtPc
<1> QED BY <1>1, <1>2, <1>3, <1>4, <1>5, <1>6, <1>7, <1>8, <1>9, <1>10, <1>11, <1>12, <1>13,
    <1>14, <1>15, <1>16, <1>17, <1>18, <1>19, <1>20, <1>21, <1>22
  DEF Next, Begin, Continue, PopFull, PopEmpty, PushEmpty, PushFull

----------------------------------------------------------------------------
(* Whose the nodes are.                                                     *)

Loaded         == {"take", "read", "push"}
LoadedBy(t)    == IF thread[t].pc \in Loaded THEN {thread[t].block} ELSE {}
OtherFilled(t) == Full \cup {thread[u].block : u \in AtPc(Loaded) \ {t}}

LEMMA FilledIs ==
  ASSUME NEW t \in Threads
  PROVE  Filled = OtherFilled(t) \cup LoadedBy(t) /\ Filled' = OtherFilled(t)' \cup LoadedBy(t)'
BY DEF Filled, OtherFilled, LoadedBy, Loaded, AtPc

LEMMA OtherFilledNext ==
  ASSUME NEW t \in Threads, Only(t), Full' = Full
  PROVE  OtherFilled(t)' = OtherFilled(t)
BY DEF Only, OtherFilled, AtPc

\* The block that a thread has is not filled for another.
LEMMA OwnIsNotOthers ==
  ASSUME IInv, NEW t \in Threads, thread[t].pc \in Holding
  PROVE  thread[t].block \in Blocks /\ thread[t].block \notin OtherFilled(t)
<1>1. thread[t].block \in Blocks /\ thread[t].block \notin Full BY Holders DEF Holding
<1>2. ASSUME NEW u \in Threads, u # t, thread[u].pc \in Loaded
      PROVE  thread[u].block # thread[t].block
  <2>1. Held(u) = {thread[u].block} BY <1>2, Holders DEF Loaded
  <2>2. Held(t) = {thread[t].block} BY Holders DEF Holding
  <2>3. Held(t) \cap Held(u) = {} BY <1>2 DEF IInv, InOnePlace
  <2> QED BY <2>1, <2>2, <2>3
<1> QED BY <1>1, <1>2 DEF OtherFilled, AtPc

LEMMA HasBatchNext ==
  ASSUME NEW t \in Threads, Only(t)
  PROVE  /\ \A u \in Threads : u # t => /\ u \in HasBatch' <=> u \in HasBatch
                                        /\ thread'[u].batch = thread[u].batch
         /\ HasBatch \subseteq Threads /\ HasBatch' \subseteq Threads
BY DEF Only, HasBatch, PopsFor, AtPc

LEMMA FilledInBlocks == ASSUME IInv PROVE Filled \subseteq Blocks
<1>1. Stacked(nextChunkBlock, topBlock) BY DEF IInv, Stacks
<1>2. Full \subseteq Blocks BY <1>1, StackFacts DEF Full
<1>3. \A t \in AtPc(Loaded) : thread[t].block \in Blocks BY Holders DEF AtPc, Loaded
<1> QED BY <1>2, <1>3 DEF Filled, Loaded, AtPc

LEMMA NodesKept ==
  ASSUME OwnNodes, NEW t \in Threads, Only(t), Filled' = Filled, t \in HasBatch' <=> t \in HasBatch,
         thread'[t].batch = thread[t].batch, UNCHANGED <<curSize, headNodePtr, batches, out>>
  PROVE  OwnNodes'
<1>1. HasBatch' = HasBatch /\ \A u \in HasBatch : thread'[u].batch = thread[u].batch
  BY HasBatchNext
<1> QED BY <1>1 DEF OwnNodes

\* A new batch is no other's.
LEMMA NodesMade ==
  ASSUME IInv, NEW t \in Threads, NewChunkBlock(t)
  PROVE  OwnNodes'
<1> DEFINE b == thread[t].block
           n == batches
<1>1. Only(t) /\ thread'[t].pc = "take" /\ thread'[t].block = b /\ thread'[t].batch = thread[t].batch
      /\ thread[t].pc = "renew" /\ Quiet
  BY NewChunkBlockMoves DEF Becomes, NewChunkBlock
<1>2. b \in Blocks /\ b \notin OtherFilled(t) BY <1>1, OwnIsNotOthers DEF Holding
<1>3. OtherFilled(t)' = OtherFilled(t) /\ LoadedBy(t) = {} /\ LoadedBy(t)' = {b}
  BY <1>1, OtherFilledNext DEF Quiet, LoadedBy, Loaded
<1>4. Filled' = Filled \cup {b} /\ b \notin Filled BY <1>2, <1>3, FilledIs
<1>5. /\ curSize \in [Blocks -> {0, 1}] /\ headNodePtr \in [Blocks -> Batches \cup {NoBatch}]
      /\ n \in Nat
  BY Types DEF IInv
<1>6. OwnNodes BY DEF IInv
<1>7. curSize[b] = 0 BY <1>2, <1>4, <1>5, <1>6 DEF OwnNodes
<1>8. /\ batches' = n + 1 /\ headNodePtr' = [headNodePtr EXCEPT ![b] = n + 1]
      /\ curSize' = [curSize EXCEPT ![b] = 1] /\ out' = out
  BY <1>5, <1>7 DEF NewChunkBlock
<1>9. HasBatch' = HasBatch /\ \A u \in HasBatch : thread'[u].batch = thread[u].batch
  <2>1. t \in HasBatch' <=> t \in HasBatch BY <1>1 DEF HasBatch, PopsFor, AtPc, Popping
  <2>2. /\ \A u \in Threads : u # t => /\ u \in HasBatch' <=> u \in HasBatch
                                       /\ thread'[u].batch = thread[u].batch
        /\ HasBatch \subseteq Threads /\ HasBatch' \subseteq Threads
    BY <1>1, HasBatchNext
  <2>3. \A u \in Threads : u \in HasBatch' <=> u \in HasBatch BY <2>1, <2>2
  <2>4. \A u \in HasBatch : thread'[u].batch = thread[u].batch BY <1>1, <2>2
  <2> QED BY <2>2, <2>3, <2>4
<1> DEFINE made == 1 .. n
<1>10. n + 1 \notin made /\ 1 .. batches' = made \cup {n + 1} BY <1>5, <1>8
<1>11. /\ Filled \subseteq Blocks
       /\ \A c \in Filled : headNodePtr[c] \in made /\ headNodePtr[c] \notin out
       /\ \A c, d \in Filled : c # d => headNodePtr[c] # headNodePtr[d]
       /\ out \subseteq made
       /\ \A u \in HasBatch : /\ thread[u].batch \in made /\ thread[u].batch \notin out
                              /\ \A c \in Filled : headNodePtr[c] # thread[u].batch
       /\ \A u, v \in HasBatch : u # v => thread[u].batch # thread[v].batch
       /\ \A c \in Blocks : curSize[c] = 1 <=> c \in Filled
  BY <1>6, FilledInBlocks DEF OwnNodes
<1>12. /\ headNodePtr'[b] = n + 1 /\ curSize'[b] = 1
       /\ \A c \in Blocks : c # b => headNodePtr'[c] = headNodePtr[c] /\ curSize'[c] = curSize[c]
  BY <1>2, <1>5, <1>8
<1> HIDE DEF made, b, n
<1>13. \A c \in Blocks : curSize'[c] = 1 <=> c \in Filled' BY <1>4, <1>11, <1>12
<1>14. \A c \in Filled' : headNodePtr'[c] \in 1 .. batches' /\ headNodePtr'[c] \notin out'
  BY <1>2, <1>4, <1>8, <1>10, <1>11, <1>12
<1>15. \A c, d \in Filled' : c # d => headNodePtr'[c] # headNodePtr'[d]
  BY <1>4, <1>10, <1>11, <1>12
<1>16. out' \subseteq 1 .. batches' BY <1>8, <1>10, <1>11
<1>17. \A u \in HasBatch' : /\ thread'[u].batch \in 1 .. batches' /\ thread'[u].batch \notin out'
                            /\ \A c \in Filled' : headNodePtr'[c] # thread'[u].batch
  BY <1>4, <1>8, <1>9, <1>10, <1>11, <1>12
<1>18. \A u, v \in HasBatch' : u # v => thread'[u].batch # thread'[v].batch BY <1>9, <1>11
<1> QED BY <1>13, <1>14, <1>15, <1>16, <1>17, <1>18 DEF OwnNodes

\* A thread takes the batch of its block,
LEMMA NodesTaken ==
  ASSUME IInv, NEW t \in Threads, TakeNodes(t)
  PROVE  OwnNodes'
<1> DEFINE b == thread[t].block
           made == 1 .. batches
<1>1. Only(t) /\ thread'[t].pc = "emptyRead" /\ thread'[t].batch = headNodePtr[b]
      /\ thread[t].pc = "take" /\ Quiet
  BY TakeNodesMoves DEF Becomes, TakeNodes
<1>2. b \in Blocks /\ b \notin OtherFilled(t) BY <1>1, OwnIsNotOthers DEF Holding
<1>3. OtherFilled(t)' = OtherFilled(t) /\ LoadedBy(t) = {b} /\ LoadedBy(t)' = {}
  BY <1>1, OtherFilledNext DEF Quiet, LoadedBy, Loaded
<1>4. Filled' = Filled \ {b} /\ b \in Filled BY <1>2, <1>3, FilledIs
<1>5. /\ curSize \in [Blocks -> {0, 1}] /\ headNodePtr \in [Blocks -> Batches \cup {NoBatch}]
  BY Types DEF IInv
<1>6. OwnNodes BY DEF IInv
<1>7. /\ batches' = batches /\ headNodePtr' = headNodePtr
      /\ curSize' = [curSize EXCEPT ![b] = 0] /\ out' = out
  BY DEF TakeNodes
<1>8. /\ HasBatch' = HasBatch \cup {t} /\ t \notin HasBatch
      /\ \A u \in HasBatch : thread'[u].batch = thread[u].batch
  <2>1. t \in HasBatch' /\ t \notin HasBatch BY <1>1 DEF HasBatch, PopsFor, AtPc, Popping
  <2> QED BY <1>1, <2>1, HasBatchNext
<1>9. /\ Filled \subseteq Blocks
      /\ \A c \in Filled : headNodePtr[c] \in made /\ headNodePtr[c] \notin out
      /\ \A c, d \in Filled : c # d => headNodePtr[c] # headNodePtr[d]
      /\ out \subseteq made
      /\ \A u \in HasBatch : /\ thread[u].batch \in made /\ thread[u].batch \notin out
                             /\ \A c \in Filled : headNodePtr[c] # thread[u].batch
      /\ \A u, v \in HasBatch : u # v => thread[u].batch # thread[v].batch
      /\ \A c \in Blocks : curSize[c] = 1 <=> c \in Filled
  BY <1>6, FilledInBlocks DEF OwnNodes
<1>10. curSize'[b] = 0 /\ \A c \in Blocks : c # b => curSize'[c] = curSize[c]
  BY <1>2, <1>5, <1>7
<1>11. 1 .. batches' = made BY <1>7
<1> HIDE DEF made, b
<1>12. \A c \in Blocks : curSize'[c] = 1 <=> c \in Filled' BY <1>4, <1>9, <1>10
<1>13. \A c \in Filled' : headNodePtr'[c] \in made /\ headNodePtr'[c] \notin out'
  BY <1>4, <1>7, <1>9
<1>14. \A c, d \in Filled' : c # d => headNodePtr'[c] # headNodePtr'[d] BY <1>4, <1>7, <1>9
<1>15. \A u \in HasBatch' : /\ thread'[u].batch \in made /\ thread'[u].batch \notin out'
                            /\ \A c \in Filled' : headNodePtr'[c] # thread'[u].batch
  BY <1>1, <1>4, <1>7, <1>8, <1>9
<1>16. \A u, v \in HasBatch' : u # v => thread'[u].batch # thread'[v].batch
  BY <1>1, <1>4, <1>8, <1>9
<1> QED BY <1>7, <1>11, <1>9, <1>12, <1>13, <1>14, <1>15, <1>16 DEF OwnNodes

\* fills a block with its own,
LEMMA NodesFilled ==
  ASSUME IInv, NEW t \in Threads, Fill(t)
  PROVE  OwnNodes'
<1> DEFINE b == thread[t].block
           x == thread[t].batch
           made == 1 .. batches
<1>1. Only(t) /\ thread'[t].pc = "read" /\ thread'[t].block = b /\ thread[t].pc = "fill" /\ Quiet
  BY FillMoves DEF Becomes, Fill
<1>2. b \in Blocks /\ b \notin OtherFilled(t) BY <1>1, OwnIsNotOthers DEF Holding
<1>3. OtherFilled(t)' = OtherFilled(t) /\ LoadedBy(t) = {} /\ LoadedBy(t)' = {b}
  BY <1>1, OtherFilledNext DEF Quiet, LoadedBy, Loaded
<1>4. Filled' = Filled \cup {b} /\ b \notin Filled BY <1>2, <1>3, FilledIs
<1>5. /\ curSize \in [Blocks -> {0, 1}] /\ headNodePtr \in [Blocks -> Batches \cup {NoBatch}]
  BY Types DEF IInv
<1>6. OwnNodes BY DEF IInv
<1>7. /\ batches' = batches /\ headNodePtr' = [headNodePtr EXCEPT ![b] = x]
      /\ curSize' = [curSize EXCEPT ![b] = 1] /\ out' = out
  BY DEF Fill
<1>8. /\ t \in HasBatch /\ HasBatch' = HasBatch \ {t}
      /\ \A u \in HasBatch' : thread'[u].batch = thread[u].batch
  <2>1. t \in HasBatch /\ t \notin HasBatch' BY <1>1 DEF HasBatch, PopsFor, AtPc, Popping
  <2> QED BY <1>1, <2>1, HasBatchNext
<1>9. /\ Filled \subseteq Blocks
      /\ \A c \in Filled : headNodePtr[c] \in made /\ headNodePtr[c] \notin out
      /\ \A c, d \in Filled : c # d => headNodePtr[c] # headNodePtr[d]
      /\ out \subseteq made
      /\ \A u \in HasBatch : /\ thread[u].batch \in made /\ thread[u].batch \notin out
                             /\ \A c \in Filled : headNodePtr[c] # thread[u].batch
      /\ \A u, v \in HasBatch : u # v => thread[u].batch # thread[v].batch
      /\ \A c \in Blocks : curSize[c] = 1 <=> c \in Filled
  BY <1>6, FilledInBlocks DEF OwnNodes
<1>10. /\ headNodePtr'[b] = x /\ curSize'[b] = 1
       /\ \A c \in Blocks : c # b => headNodePtr'[c] = headNodePtr[c] /\ curSize'[c] = curSize[c]
  BY <1>2, <1>5, <1>7
<1>11. 1 .. batches' = made BY <1>7
<1>12. /\ x \in made /\ x \notin out /\ \A c \in Filled : headNodePtr[c] # x
       /\ \A u \in HasBatch : u # t => thread[u].batch # x
  BY <1>8, <1>9
<1> HIDE DEF made, b, x
<1>13. \A c \in Blocks : curSize'[c] = 1 <=> c \in Filled' BY <1>4, <1>9, <1>10
<1>14. \A c \in Filled' : headNodePtr'[c] \in made /\ headNodePtr'[c] \notin out'
  BY <1>4, <1>7, <1>9, <1>10, <1>12
<1>15. \A c, d \in Filled' : c # d => headNodePtr'[c] # headNodePtr'[d]
  BY <1>4, <1>9, <1>10, <1>12
<1>16. \A u \in HasBatch' : /\ thread'[u].batch \in made /\ thread'[u].batch \notin out'
                            /\ \A c \in Filled' : headNodePtr'[c] # thread'[u].batch
  BY <1>4, <1>7, <1>8, <1>9, <1>10, <1>12
<1>17. \A u, v \in HasBatch' : u # v => thread'[u].batch # thread'[v].batch BY <1>8, <1>9
<1> QED BY <1>7, <1>11, <1>9, <1>13, <1>14, <1>15, <1>16, <1>17 DEF OwnNodes

\* hands its batch to its local pool, or gets it from there.
LEMMA NodesHanded ==
  ASSUME OwnNodes, NEW t \in Threads, Only(t), Filled' = Filled, Filled \subseteq Blocks,
         UNCHANGED <<curSize, headNodePtr, batches>>,
         \/ /\ t \in HasBatch /\ t \notin HasBatch' /\ out' = out \cup {thread[t].batch}
         \/ /\ t \notin HasBatch /\ t \in HasBatch' /\ thread'[t].batch \in out
            /\ out' = out \ {thread'[t].batch}
  PROVE  OwnNodes'
<1> DEFINE made == 1 .. batches
<1>1. /\ \A c \in Filled : headNodePtr[c] \in made /\ headNodePtr[c] \notin out
      /\ \A c, d \in Filled : c # d => headNodePtr[c] # headNodePtr[d]
      /\ out \subseteq made
      /\ \A u \in HasBatch : /\ thread[u].batch \in made /\ thread[u].batch \notin out
                             /\ \A c \in Filled : headNodePtr[c] # thread[u].batch
      /\ \A u, v \in HasBatch : u # v => thread[u].batch # thread[v].batch
  BY DEF OwnNodes
<1>2. 1 .. batches' = made OBVIOUS
<1> HIDE DEF made
<1>3. \A u \in HasBatch' : u # t => u \in HasBatch /\ thread'[u].batch = thread[u].batch
  BY HasBatchNext
<1>4. \A c \in Blocks : curSize'[c] = 1 <=> c \in Filled' BY DEF OwnNodes
<1>5. \A c \in Filled' : headNodePtr'[c] \in made /\ headNodePtr'[c] \notin out'
  BY <1>1
<1>6. \A c, d \in Filled' : c # d => headNodePtr'[c] # headNodePtr'[d] BY <1>1
<1>7. out' \subseteq made BY <1>1
<1>8. \A u \in HasBatch' : /\ thread'[u].batch \in made /\ thread'[u].batch \notin out'
                           /\ \A c \in Filled' : headNodePtr'[c] # thread'[u].batch
  BY <1>3, <1>1
<1>9. \A u, v \in HasBatch' : u # v => thread'[u].batch # thread'[v].batch BY <1>3, <1>1
<1> QED BY <1>2, <1>4, <1>5, <1>6, <1>7, <1>8, <1>9 DEF OwnNodes

LEMMA OwnNodesStep ==
  ASSUME IInv, [Next]_vars
  PROVE  OwnNodes'
<1>t. thread \in [Threads -> ThreadType] BY Types DEF IInv
<1>l. \A t \in Threads : LocalsOf(t) BY DEF IInv, Locals
<1>o. OwnNodes BY DEF IInv
<1>s. UNCHANGED vars => Filled' = Filled /\ HasBatch' = HasBatch
  BY DEF Filled, Full, HasBatch, PopsFor, AtPc
<1>1. ASSUME NEW t \in Threads, AllocChunk(t) PROVE OwnNodes'
  <2>1. /\ Only(t) /\ thread'[t].pc = "test" /\ thread'[t].ret = thread[t].ret
        /\ thread'[t].block = thread[t].block /\ thread'[t].batch = thread[t].batch /\ Quiet
    BY <1>1, AllocChunkMoves DEF Becomes
  <2>2. thread[t].pc = "idle" BY <1>1 DEF AllocChunk
  <2>3. LoadedBy(t)' = LoadedBy(t) BY <2>1, <2>2 DEF LoadedBy, Loaded
  <2>4. Filled' = Filled BY <2>1, <2>3, FilledIs, OtherFilledNext DEF Quiet
  <2>5. t \in HasBatch' <=> t \in HasBatch BY <2>1, <2>2 DEF HasBatch, PopsFor, AtPc, Popping
  <2>6. UNCHANGED <<curSize, headNodePtr, batches, out>> BY <1>1 DEF AllocChunk
  <2> QED BY <1>o, <2>1, <2>4, <2>5, <2>6, NodesKept
<1>2. ASSUME NEW t \in Threads, FreeChunk(t) PROVE OwnNodes'
  <2>1. PICK b \in out : /\ out' = out \ {b} /\ Only(t) /\ thread'[t].pc = "claim"
                          /\ thread'[t].ret = "fill" /\ thread'[t].block = thread[t].block
                          /\ thread'[t].batch = b /\ Quiet
    BY <1>2, FreeChunkMoves DEF Becomes
  <2>2. thread[t].pc = "idle" BY <1>2 DEF FreeChunk
  <2>3. LoadedBy(t)' = LoadedBy(t) BY <2>1, <2>2 DEF LoadedBy, Loaded
  <2>4. Filled' = Filled BY <2>1, <2>3, FilledIs, OtherFilledNext DEF Quiet
  <2>5. t \notin HasBatch /\ t \in HasBatch'
    BY <2>1, <2>2 DEF HasBatch, PopsFor, AtPc, Popping
  <2>6. UNCHANGED <<curSize, headNodePtr, batches>> BY <1>2 DEF FreeChunk
  <2> QED BY <1>o, <2>1, <2>4, <2>5, <2>6, NodesHanded, FilledInBlocks
<1>3. ASSUME NEW t \in Threads, TestCount(t) PROVE OwnNodes'
  <2>1. CASE thread[t].use >= maxBlockCount
    <3>1. /\ Only(t) /\ thread'[t].pc = "claim" /\ thread'[t].ret = "renew"
          /\ thread'[t].block = thread[t].block /\ thread'[t].batch = thread[t].batch
          /\ Quiet
      BY <1>3, <2>1, TestCountMoves DEF Becomes
    <3>2. thread[t].pc = "test" BY <1>3 DEF TestCount
    <3>3. LoadedBy(t)' = LoadedBy(t) BY <3>1, <3>2 DEF LoadedBy, Loaded
    <3>4. Filled' = Filled BY <3>1, <3>3, FilledIs, OtherFilledNext DEF Quiet
    <3>5. t \in HasBatch' <=> t \in HasBatch
      BY <3>1, <3>2 DEF HasBatch, PopsFor, AtPc, Popping
    <3>6. UNCHANGED <<curSize, headNodePtr, batches, out>> BY <1>3 DEF TestCount
    <3> QED BY <1>o, <3>1, <3>4, <3>5, <3>6, NodesKept
  <2>2. CASE thread[t].use < maxBlockCount
    <3>1. /\ Only(t) /\ thread'[t].pc = "top" /\ thread'[t].ret = thread[t].ret
          /\ thread'[t].block = thread[t].block /\ thread'[t].batch = thread[t].batch
          /\ Quiet
      BY <1>3, <2>2, TestCountMoves DEF Becomes
    <3>2. thread[t].pc = "test" BY <1>3 DEF TestCount
    <3>3. LoadedBy(t)' = LoadedBy(t) BY <3>1, <3>2 DEF LoadedBy, Loaded
    <3>4. Filled' = Filled BY <3>1, <3>3, FilledIs, OtherFilledNext DEF Quiet
    <3>5. t \in HasBatch' <=> t \in HasBatch
      BY <3>1, <3>2 DEF HasBatch, PopsFor, AtPc, Popping
    <3>6. UNCHANGED <<curSize, headNodePtr, batches, out>> BY <1>3 DEF TestCount
    <3> QED BY <1>o, <3>1, <3>4, <3>5, <3>6, NodesKept
  <2>3. thread[t].use \in Nat /\ maxBlockCount \in Nat BY Types DEF IInv, ThreadType
  <2> QED BY <2>1, <2>2, <2>3
<1>4. ASSUME NEW t \in Threads, ReadTop(t) PROVE OwnNodes'
  <2>1. /\ Only(t) /\ thread'[t].pc = "next" /\ thread'[t].ret = thread[t].ret
        /\ thread'[t].block = thread[t].block /\ thread'[t].batch = thread[t].batch /\ Quiet
    BY <1>4, ReadTopMoves DEF Becomes
  <2>2. thread[t].pc = "top" BY <1>4 DEF ReadTop
  <2>3. LoadedBy(t)' = LoadedBy(t) BY <2>1, <2>2 DEF LoadedBy, Loaded
  <2>4. Filled' = Filled BY <2>1, <2>3, FilledIs, OtherFilledNext DEF Quiet
  <2>5. t \in HasBatch' <=> t \in HasBatch BY <2>1, <2>2 DEF HasBatch, PopsFor, AtPc, Popping
  <2>6. UNCHANGED <<curSize, headNodePtr, batches, out>> BY <1>4 DEF ReadTop
  <2> QED BY <1>o, <2>1, <2>4, <2>5, <2>6, NodesKept
<1>5. ASSUME NEW t \in Threads, ReadNext(t) PROVE OwnNodes'
  <2>1. /\ Only(t) /\ thread'[t].pc = "pop" /\ thread'[t].ret = thread[t].ret
        /\ thread'[t].block = thread[t].block /\ thread'[t].batch = thread[t].batch /\ Quiet
    BY <1>5, ReadNextMoves DEF Becomes
  <2>2. thread[t].pc = "next" BY <1>5 DEF ReadNext
  <2>3. LoadedBy(t)' = LoadedBy(t) BY <2>1, <2>2 DEF LoadedBy, Loaded
  <2>4. Filled' = Filled BY <2>1, <2>3, FilledIs, OtherFilledNext DEF Quiet
  <2>5. t \in HasBatch' <=> t \in HasBatch BY <2>1, <2>2 DEF HasBatch, PopsFor, AtPc, Popping
  <2>6. UNCHANGED <<curSize, headNodePtr, batches, out>> BY <1>5 DEF ReadNext
  <2> QED BY <1>o, <2>1, <2>4, <2>5, <2>6, NodesKept
<1>6. ASSUME NEW t \in Threads, ReadNull(t) PROVE OwnNodes'
  <2>1. /\ Only(t) /\ thread'[t].pc = "crashed" /\ thread'[t].ret = thread[t].ret
        /\ thread'[t].block = thread[t].block /\ thread'[t].batch = thread[t].batch /\ Quiet
    BY <1>6, ReadNullMoves DEF Becomes
  <2>2. thread[t].pc = "next" BY <1>6 DEF ReadNull
  <2>3. LoadedBy(t)' = LoadedBy(t) BY <2>1, <2>2 DEF LoadedBy, Loaded
  <2>4. Filled' = Filled BY <2>1, <2>3, FilledIs, OtherFilledNext DEF Quiet
  <2>5. t \in HasBatch' <=> t \in HasBatch BY <2>1, <2>2 DEF HasBatch, PopsFor, AtPc, Popping
  <2>6. UNCHANGED <<curSize, headNodePtr, batches, out>> BY <1>6 DEF ReadNull
  <2> QED BY <1>o, <2>1, <2>4, <2>5, <2>6, NodesKept
<1>7. ASSUME NEW t \in Threads, PopBlock(t) PROVE OwnNodes'
  <2>1. CASE topBlock = thread[t].tempTop
    <3>1. /\ Only(t) /\ thread'[t].pc = "take" /\ thread'[t].ret = "idle"
          /\ thread'[t].block = MAKE_NODEPTR(thread[t].tempTop)
          /\ thread'[t].batch = NoBatch /\ FullPops
      BY <1>7, <2>1, PopBlockMoves DEF Becomes
    <3>2. thread[t].pc = "pop" BY <1>7 DEF PopBlock
    <3>3. LoadedBy(t) = {} /\ LoadedBy(t)' = {MAKE_NODEPTR(topBlock)}
      BY <1>7, <2>1, <3>1, <3>2 DEF LoadedBy, Loaded
    <3>4. Filled' = Filled
      <4> DEFINE others == {thread[u].block : u \in AtPc(Loaded) \ {t}}
      <4>1. others' = others BY <3>1 DEF Only, AtPc
      <4>2. OtherFilled(t) = Full \cup others /\ OtherFilled(t)' = Full' \cup others'
        BY DEF OtherFilled
      <4> HIDE DEF others
      <4> QED BY <3>1, <3>3, <4>1, <4>2, FilledIs DEF FullPops
    <3>5. t \in HasBatch' <=> t \in HasBatch
      BY <3>1, <3>2 DEF HasBatch, PopsFor, AtPc, Popping
    <3>6. thread'[t].batch = thread[t].batch
      BY <3>1, <3>2, <1>l, <3>5 DEF LocalsOf, HasBatch, PopsFor, AtPc, Popping
    <3>7. UNCHANGED <<curSize, headNodePtr, batches, out>> BY <1>7 DEF PopBlock
    <3> QED BY <1>o, <3>1, <3>4, <3>5, <3>6, <3>7, NodesKept
  <2>2. CASE topBlock # thread[t].tempTop
    <3>1. /\ Only(t) /\ thread'[t].pc = "top" /\ thread'[t].ret = thread[t].ret
          /\ thread'[t].block = thread[t].block /\ thread'[t].batch = thread[t].batch
          /\ Quiet
      BY <1>7, <2>2, PopBlockMoves DEF Becomes
    <3>2. thread[t].pc = "pop" BY <1>7 DEF PopBlock
    <3>3. LoadedBy(t)' = LoadedBy(t) BY <3>1, <3>2 DEF LoadedBy, Loaded
    <3>4. Filled' = Filled BY <3>1, <3>3, FilledIs, OtherFilledNext DEF Quiet
    <3>5. t \in HasBatch' <=> t \in HasBatch
      BY <3>1, <3>2 DEF HasBatch, PopsFor, AtPc, Popping
    <3>6. UNCHANGED <<curSize, headNodePtr, batches, out>> BY <1>7 DEF PopBlock
    <3> QED BY <1>o, <3>1, <3>4, <3>5, <3>6, NodesKept
  <2> QED BY <2>1, <2>2
<1>8. ASSUME NEW t \in Threads, NewChunkBlock(t) PROVE OwnNodes'
  BY <1>8, NodesMade
<1>9. ASSUME NEW t \in Threads, TakeNodes(t) PROVE OwnNodes'
  BY <1>9, NodesTaken
<1>10. ASSUME NEW t \in Threads, EmptyRead(t) PROVE OwnNodes'
  <2>1. /\ Only(t) /\ thread'[t].pc = "emptyPush" /\ thread'[t].ret = thread[t].ret
        /\ thread'[t].block = thread[t].block /\ thread'[t].batch = thread[t].batch /\ Quiet
    BY <1>10, EmptyReadMoves DEF Becomes
  <2>2. thread[t].pc = "emptyRead" BY <1>10 DEF EmptyRead
  <2>3. LoadedBy(t)' = LoadedBy(t) BY <2>1, <2>2 DEF LoadedBy, Loaded
  <2>4. Filled' = Filled BY <2>1, <2>3, FilledIs, OtherFilledNext DEF Quiet
  <2>5. t \in HasBatch' <=> t \in HasBatch BY <2>1, <2>2 DEF HasBatch, PopsFor, AtPc, Popping
  <2>6. UNCHANGED <<curSize, headNodePtr, batches, out>> BY <1>10 DEF EmptyRead
  <2> QED BY <1>o, <2>1, <2>4, <2>5, <2>6, NodesKept
<1>11. ASSUME NEW t \in Threads, EmptyPush(t) PROVE OwnNodes'
  <2>1. CASE chunkBlockPoolTop = thread[t].tempTop
    <3>1. /\ Only(t) /\ thread'[t].pc = "emptyCount" /\ thread'[t].ret = thread[t].ret
          /\ thread'[t].block = thread[t].block /\ thread'[t].batch = thread[t].batch
          /\ EmptyPushes(t)
      BY <1>11, <2>1, EmptyPushMoves DEF Becomes
    <3>2. thread[t].pc = "emptyPush" BY <1>11 DEF EmptyPush
    <3>3. LoadedBy(t)' = LoadedBy(t) BY <3>1, <3>2 DEF LoadedBy, Loaded
    <3>4. Filled' = Filled BY <3>1, <3>3, FilledIs, OtherFilledNext DEF EmptyPushes
    <3>5. t \in HasBatch' <=> t \in HasBatch
      BY <3>1, <3>2 DEF HasBatch, PopsFor, AtPc, Popping
    <3>6. UNCHANGED <<curSize, headNodePtr, batches, out>> BY <1>11 DEF EmptyPush
    <3> QED BY <1>o, <3>1, <3>4, <3>5, <3>6, NodesKept
  <2>2. CASE chunkBlockPoolTop # thread[t].tempTop
    <3>1. /\ Only(t) /\ thread'[t].pc = "emptyRead" /\ thread'[t].ret = thread[t].ret
          /\ thread'[t].block = thread[t].block /\ thread'[t].batch = thread[t].batch
          /\ Quiet
      BY <1>11, <2>2, EmptyPushMoves DEF Becomes
    <3>2. thread[t].pc = "emptyPush" BY <1>11 DEF EmptyPush
    <3>3. LoadedBy(t)' = LoadedBy(t) BY <3>1, <3>2 DEF LoadedBy, Loaded
    <3>4. Filled' = Filled BY <3>1, <3>3, FilledIs, OtherFilledNext DEF Quiet
    <3>5. t \in HasBatch' <=> t \in HasBatch
      BY <3>1, <3>2 DEF HasBatch, PopsFor, AtPc, Popping
    <3>6. UNCHANGED <<curSize, headNodePtr, batches, out>> BY <1>11 DEF EmptyPush
    <3> QED BY <1>o, <3>1, <3>4, <3>5, <3>6, NodesKept
  <2> QED BY <2>1, <2>2
<1>12. ASSUME NEW t \in Threads, EmptyCount(t) PROVE OwnNodes'
  <2>1. /\ Only(t) /\ thread'[t].pc = "idle" /\ thread'[t].ret = "idle"
        /\ thread'[t].block = 0 /\ thread'[t].batch = NoBatch /\ Quiet
    BY <1>12, EmptyCountMoves DEF Becomes
  <2>2. thread[t].pc = "emptyCount" BY <1>12 DEF EmptyCount
  <2>3. LoadedBy(t)' = LoadedBy(t) BY <2>1, <2>2 DEF LoadedBy, Loaded
  <2>4. Filled' = Filled BY <2>1, <2>3, FilledIs, OtherFilledNext DEF Quiet
  <2>5. t \in HasBatch /\ t \notin HasBatch'
    BY <2>1, <2>2 DEF HasBatch, PopsFor, AtPc, Popping
  <2>6. out' = out \cup {thread[t].batch} BY <1>12 DEF EmptyCount
  <2>7. UNCHANGED <<curSize, headNodePtr, batches>> BY <1>12 DEF EmptyCount
  <2> QED BY <1>o, <2>1, <2>4, <2>5, <2>6, <2>7, NodesHanded, FilledInBlocks
<1>13. ASSUME NEW t \in Threads, Claim(t) PROVE OwnNodes'
  <2>1. CASE chunkBlockPoolSize - 1 < 0
    <3>1. /\ Only(t) /\ thread'[t].pc = "undo" /\ thread'[t].ret = thread[t].ret
          /\ thread'[t].block = thread[t].block /\ thread'[t].batch = thread[t].batch
          /\ Quiet
      BY <1>13, <2>1, ClaimMoves DEF Becomes
    <3>2. thread[t].pc = "claim" BY <1>13 DEF Claim
    <3>3. LoadedBy(t)' = LoadedBy(t) BY <3>1, <3>2 DEF LoadedBy, Loaded
    <3>4. Filled' = Filled BY <3>1, <3>3, FilledIs, OtherFilledNext DEF Quiet
    <3>5. t \in HasBatch' <=> t \in HasBatch
      BY <3>1, <3>2 DEF HasBatch, PopsFor, AtPc, Popping
    <3>6. UNCHANGED <<curSize, headNodePtr, batches, out>> BY <1>13 DEF Claim
    <3> QED BY <1>o, <3>1, <3>4, <3>5, <3>6, NodesKept
  <2>2. CASE chunkBlockPoolSize - 1 >= 0
    <3>1. /\ Only(t) /\ thread'[t].pc = "emptyTop" /\ thread'[t].ret = thread[t].ret
          /\ thread'[t].block = thread[t].block /\ thread'[t].batch = thread[t].batch
          /\ Quiet
      BY <1>13, <2>2, ClaimMoves DEF Becomes
    <3>2. thread[t].pc = "claim" BY <1>13 DEF Claim
    <3>3. LoadedBy(t)' = LoadedBy(t) BY <3>1, <3>2 DEF LoadedBy, Loaded
    <3>4. Filled' = Filled BY <3>1, <3>3, FilledIs, OtherFilledNext DEF Quiet
    <3>5. t \in HasBatch' <=> t \in HasBatch
      BY <3>1, <3>2 DEF HasBatch, PopsFor, AtPc, Popping
    <3>6. UNCHANGED <<curSize, headNodePtr, batches, out>> BY <1>13 DEF Claim
    <3> QED BY <1>o, <3>1, <3>4, <3>5, <3>6, NodesKept
  <2>3. chunkBlockPoolSize \in Int BY Types DEF IInv
  <2> QED BY <2>1, <2>2, <2>3
<1>14. ASSUME NEW t \in Threads, NewBlock(t) PROVE OwnNodes'
  <2>1. /\ Only(t) /\ thread'[t].pc = thread[t].ret /\ thread'[t].ret = "idle"
        /\ thread'[t].block = blocks + 1 /\ thread'[t].batch = thread[t].batch /\ Quiet
    BY <1>14, NewBlockMoves DEF Becomes
  <2>2. thread[t].pc = "undo" BY <1>14 DEF NewBlock
  <2>3. thread[t].ret \in {"renew", "fill"}
    BY <2>2, <1>t, <1>l DEF LocalsOf, Popping, ThreadType
  <2>4. LoadedBy(t)' = LoadedBy(t) BY <2>1, <2>3, <2>2 DEF LoadedBy, Loaded
  <2>5. Filled' = Filled BY <2>1, <2>4, FilledIs, OtherFilledNext DEF Quiet
  <2>6. t \in HasBatch' <=> t \in HasBatch
    BY <2>1, <2>3, <2>2 DEF HasBatch, PopsFor, AtPc, Popping
  <2>7. UNCHANGED <<curSize, headNodePtr, batches, out>> BY <1>14 DEF NewBlock
  <2> QED BY <1>o, <2>1, <2>5, <2>6, <2>7, NodesKept
<1>15. ASSUME NEW t \in Threads, EmptyTop(t) PROVE OwnNodes'
  <2>1. /\ Only(t) /\ thread'[t].pc = "emptyNext" /\ thread'[t].ret = thread[t].ret
        /\ thread'[t].block = thread[t].block /\ thread'[t].batch = thread[t].batch /\ Quiet
    BY <1>15, EmptyTopMoves DEF Becomes
  <2>2. thread[t].pc = "emptyTop" BY <1>15 DEF EmptyTop
  <2>3. LoadedBy(t)' = LoadedBy(t) BY <2>1, <2>2 DEF LoadedBy, Loaded
  <2>4. Filled' = Filled BY <2>1, <2>3, FilledIs, OtherFilledNext DEF Quiet
  <2>5. t \in HasBatch' <=> t \in HasBatch BY <2>1, <2>2 DEF HasBatch, PopsFor, AtPc, Popping
  <2>6. UNCHANGED <<curSize, headNodePtr, batches, out>> BY <1>15 DEF EmptyTop
  <2> QED BY <1>o, <2>1, <2>4, <2>5, <2>6, NodesKept
<1>16. ASSUME NEW t \in Threads, EmptyNext(t) PROVE OwnNodes'
  <2>1. /\ Only(t) /\ thread'[t].pc = "emptyPop" /\ thread'[t].ret = thread[t].ret
        /\ thread'[t].block = thread[t].block /\ thread'[t].batch = thread[t].batch /\ Quiet
    BY <1>16, EmptyNextMoves DEF Becomes
  <2>2. thread[t].pc = "emptyNext" BY <1>16 DEF EmptyNext
  <2>3. LoadedBy(t)' = LoadedBy(t) BY <2>1, <2>2 DEF LoadedBy, Loaded
  <2>4. Filled' = Filled BY <2>1, <2>3, FilledIs, OtherFilledNext DEF Quiet
  <2>5. t \in HasBatch' <=> t \in HasBatch BY <2>1, <2>2 DEF HasBatch, PopsFor, AtPc, Popping
  <2>6. UNCHANGED <<curSize, headNodePtr, batches, out>> BY <1>16 DEF EmptyNext
  <2> QED BY <1>o, <2>1, <2>4, <2>5, <2>6, NodesKept
<1>17. ASSUME NEW t \in Threads, EmptyPop(t) PROVE OwnNodes'
  <2>1. CASE chunkBlockPoolTop = thread[t].tempTop
    <3>1. /\ Only(t) /\ thread'[t].pc = thread[t].ret /\ thread'[t].ret = "idle"
          /\ thread'[t].block = MAKE_NODEPTR(thread[t].tempTop)
          /\ thread'[t].batch = thread[t].batch /\ EmptyPops
      BY <1>17, <2>1, EmptyPopMoves DEF Becomes
    <3>2. thread[t].pc = "emptyPop" BY <1>17 DEF EmptyPop
    <3>3. thread[t].ret \in {"renew", "fill"}
      BY <3>2, <1>t, <1>l DEF LocalsOf, Popping, ThreadType
    <3>4. LoadedBy(t)' = LoadedBy(t) BY <3>1, <3>3, <3>2 DEF LoadedBy, Loaded
    <3>5. Filled' = Filled BY <3>1, <3>4, FilledIs, OtherFilledNext DEF EmptyPops
    <3>6. t \in HasBatch' <=> t \in HasBatch
      BY <3>1, <3>3, <3>2 DEF HasBatch, PopsFor, AtPc, Popping
    <3>7. UNCHANGED <<curSize, headNodePtr, batches, out>> BY <1>17 DEF EmptyPop
    <3> QED BY <1>o, <3>1, <3>5, <3>6, <3>7, NodesKept
  <2>2. CASE chunkBlockPoolTop # thread[t].tempTop
    <3>1. /\ Only(t) /\ thread'[t].pc = "emptyTop" /\ thread'[t].ret = thread[t].ret
          /\ thread'[t].block = thread[t].block /\ thread'[t].batch = thread[t].batch
          /\ Quiet
      BY <1>17, <2>2, EmptyPopMoves DEF Becomes
    <3>2. thread[t].pc = "emptyPop" BY <1>17 DEF EmptyPop
    <3>3. LoadedBy(t)' = LoadedBy(t) BY <3>1, <3>2 DEF LoadedBy, Loaded
    <3>4. Filled' = Filled BY <3>1, <3>3, FilledIs, OtherFilledNext DEF Quiet
    <3>5. t \in HasBatch' <=> t \in HasBatch
      BY <3>1, <3>2 DEF HasBatch, PopsFor, AtPc, Popping
    <3>6. UNCHANGED <<curSize, headNodePtr, batches, out>> BY <1>17 DEF EmptyPop
    <3> QED BY <1>o, <3>1, <3>4, <3>5, <3>6, NodesKept
  <2> QED BY <2>1, <2>2
<1>18. ASSUME NEW t \in Threads, Fill(t) PROVE OwnNodes'
  BY <1>18, NodesFilled
<1>19. ASSUME NEW t \in Threads, PushRead(t) PROVE OwnNodes'
  <2>1. /\ Only(t) /\ thread'[t].pc = "push" /\ thread'[t].ret = thread[t].ret
        /\ thread'[t].block = thread[t].block /\ thread'[t].batch = thread[t].batch /\ Quiet
    BY <1>19, PushReadMoves DEF Becomes
  <2>2. thread[t].pc = "read" BY <1>19 DEF PushRead
  <2>3. LoadedBy(t)' = LoadedBy(t) BY <2>1, <2>2 DEF LoadedBy, Loaded
  <2>4. Filled' = Filled BY <2>1, <2>3, FilledIs, OtherFilledNext DEF Quiet
  <2>5. t \in HasBatch' <=> t \in HasBatch BY <2>1, <2>2 DEF HasBatch, PopsFor, AtPc, Popping
  <2>6. UNCHANGED <<curSize, headNodePtr, batches, out>> BY <1>19 DEF PushRead
  <2> QED BY <1>o, <2>1, <2>4, <2>5, <2>6, NodesKept
<1>20. ASSUME NEW t \in Threads, PushBlock(t) PROVE OwnNodes'
  <2>1. CASE topBlock = thread[t].tempTop
    <3>1. /\ Only(t) /\ thread'[t].pc = "count" /\ thread'[t].ret = thread[t].ret
          /\ thread'[t].block = thread[t].block /\ thread'[t].batch = thread[t].batch
          /\ FullPushes(t)
      BY <1>20, <2>1, PushBlockMoves DEF Becomes
    <3>2. thread[t].pc = "push" BY <1>20 DEF PushBlock
    <3>3. LoadedBy(t) = {thread[t].block} /\ LoadedBy(t)' = {}
      BY <3>1, <3>2 DEF LoadedBy, Loaded
    <3>4. Filled' = Filled
      <4> DEFINE others == {thread[u].block : u \in AtPc(Loaded) \ {t}}
      <4>1. others' = others BY <3>1 DEF Only, AtPc
      <4>2. OtherFilled(t) = Full \cup others /\ OtherFilled(t)' = Full' \cup others'
        BY DEF OtherFilled
      <4> HIDE DEF others
      <4> QED BY <3>1, <3>3, <4>1, <4>2, FilledIs DEF FullPushes
    <3>5. t \in HasBatch' <=> t \in HasBatch
      BY <3>1, <3>2 DEF HasBatch, PopsFor, AtPc, Popping
    <3>6. UNCHANGED <<curSize, headNodePtr, batches, out>> BY <1>20 DEF PushBlock
    <3> QED BY <1>o, <3>1, <3>4, <3>5, <3>6, NodesKept
  <2>2. CASE topBlock # thread[t].tempTop
    <3>1. /\ Only(t) /\ thread'[t].pc = "read" /\ thread'[t].ret = thread[t].ret
          /\ thread'[t].block = thread[t].block /\ thread'[t].batch = thread[t].batch
          /\ Quiet
      BY <1>20, <2>2, PushBlockMoves DEF Becomes
    <3>2. thread[t].pc = "push" BY <1>20 DEF PushBlock
    <3>3. LoadedBy(t)' = LoadedBy(t) BY <3>1, <3>2 DEF LoadedBy, Loaded
    <3>4. Filled' = Filled BY <3>1, <3>3, FilledIs, OtherFilledNext DEF Quiet
    <3>5. t \in HasBatch' <=> t \in HasBatch
      BY <3>1, <3>2 DEF HasBatch, PopsFor, AtPc, Popping
    <3>6. UNCHANGED <<curSize, headNodePtr, batches, out>> BY <1>20 DEF PushBlock
    <3> QED BY <1>o, <3>1, <3>4, <3>5, <3>6, NodesKept
  <2> QED BY <2>1, <2>2
<1>21. ASSUME NEW t \in Threads, PushCount(t) PROVE OwnNodes'
  <2>1. /\ Only(t) /\ thread'[t].pc = "idle" /\ thread'[t].ret = "idle"
        /\ thread'[t].block = 0 /\ thread'[t].batch = NoBatch /\ Quiet
    BY <1>21, PushCountMoves DEF Becomes
  <2>2. thread[t].pc = "count" BY <1>21 DEF PushCount
  <2>3. LoadedBy(t)' = LoadedBy(t) BY <2>1, <2>2 DEF LoadedBy, Loaded
  <2>4. Filled' = Filled BY <2>1, <2>3, FilledIs, OtherFilledNext DEF Quiet
  <2>5. t \in HasBatch' <=> t \in HasBatch BY <2>1, <2>2 DEF HasBatch, PopsFor, AtPc, Popping
  <2>6. thread'[t].batch = thread[t].batch
    BY <2>1, <2>2, <1>l, <2>5 DEF LocalsOf, HasBatch, PopsFor, AtPc, Popping
  <2>7. UNCHANGED <<curSize, headNodePtr, batches, out>> BY <1>21 DEF PushCount
  <2> QED BY <1>o, <2>1, <2>4, <2>5, <2>6, <2>7, NodesKept
<1>22. CASE UNCHANGED vars BY <1>22, <1>o, <1>s DEF OwnNodes
<1> QED BY <1>1, <1>2, <1>3, <1>4, <1>5, <1>6, <1>7, <1>8, <1>9, <1>10, <1>11, <1>12, <1>13,
    <1>14, <1>15, <1>16, <1>17, <1>18, <1>19, <1>20, <1>21, <1>22
  DEF Next, Begin, Continue, PopFull, PopEmpty, PushEmpty, PushFull

----------------------------------------------------------------------------
(* The invariant of every reachable state.                                  *)

LEMMA StackAtStart ==
  ASSUME Init
  PROVE  /\ Stacked(nextChunkBlock, topBlock)
         /\ Full = 1 .. InitBlocks /\ \A k \in FullKeys : k[2] <= InitBlocks
<1> DEFINE n == InitBlocks
           f == [i \in 0 .. n |-> IF i = 0 THEN Null ELSE <<i, i>>]
<1>1. n \in Nat /\ MaxCalls \in Nat BY ChunkPoolAssumption
<1>2. \A i \in 1 .. n : i \in Blocks /\ i \in 0 .. n /\ i # 0 BY <1>1 DEF Blocks
<1>3. f \in [0 .. n -> Key \cup {Null}]
  <2>1. \A i \in 0 .. n : i = 0 \/ i \in 1 .. n BY <1>1
  <2>2. \A i \in 1 .. n : <<i, i>> \in Key BY <1>2 DEF Key
  <2> QED BY <2>1, <2>2
<1>4. f[0] = Null /\ \A i \in 1 .. n : f[i] = <<i, i>>
  <2>1. 0 \in 0 .. n BY <1>1
  <2> QED BY <1>2, <2>1
<1>5. f[n] = topBlock
  <2>1. n \in 0 .. n BY <1>1
  <2> QED BY <2>1 DEF Init, MAKE_KEY, Null
<1>6. nextChunkBlock = [b \in Blocks |-> IF b \in 2 .. n THEN MAKE_KEY(b - 1, b - 1) ELSE Null]
  BY DEF Init
<1>7. ASSUME NEW i \in 1 .. n
      PROVE  f[i] \in Key /\ nextChunkBlock[MAKE_NODEPTR(f[i])] = f[i - 1]
  <2>1. f[i] = <<i, i>> /\ f[i] \in Key /\ MAKE_NODEPTR(f[i]) = i
    BY <1>2, <1>4 DEF Key, MAKE_NODEPTR
  <2>2. nextChunkBlock[i] = IF i \in 2 .. n THEN MAKE_KEY(i - 1, i - 1) ELSE Null
    BY <1>2, <1>6
  <2>3. CASE i = 1
    <3>1. i \notin 2 .. n /\ i - 1 = 0 BY <2>3
    <3> QED BY <1>4, <2>1, <2>2, <3>1
  <2>4. CASE i # 1
    <3>1. i \in 2 .. n /\ i - 1 \in 1 .. n BY <1>1, <2>4
    <3>2. f[i - 1] = <<i - 1, i - 1>> BY <1>4, <3>1
    <3> HIDE DEF f
    <3> QED BY <2>1, <2>2, <3>1, <3>2 DEF MAKE_KEY
  <2> QED BY <2>3, <2>4
<1>8. \A i, j \in 1 .. n : i # j => MAKE_NODEPTR(f[i]) # MAKE_NODEPTR(f[j])
  BY <1>4 DEF MAKE_NODEPTR
<1> HIDE DEF f
<1>9. Linked(nextChunkBlock, topBlock, n, f) BY <1>4, <1>5, <1>7, <1>8 DEF Linked
<1>10. KeysBy(nextChunkBlock, topBlock) = {f[i] : i \in 1 .. n} BY <1>1, <1>3, <1>9, KeysAre
<1>11. FullKeys = {<<i, i>> : i \in 1 .. n} BY <1>4, <1>10 DEF FullKeys
<1>12. Full = 1 .. n
  <2>1. Full = {MAKE_NODEPTR(k) : k \in FullKeys} BY DEF Full, StackBy, FullKeys
  <2>2. \A i \in 1 .. n : MAKE_NODEPTR(<<i, i>>) = i BY DEF MAKE_NODEPTR
  <2>3. \A k \in FullKeys : \E i \in 1 .. n : k = <<i, i>> BY <1>11
  <2>4. \A i \in 1 .. n : <<i, i>> \in FullKeys BY <1>11
  <2> DEFINE made == 1 .. n
  <2>5. ASSUME NEW b \in Full PROVE b \in made
    <3>1. PICK k \in FullKeys : b = MAKE_NODEPTR(k) BY <2>1
    <3>2. PICK i \in made : k = <<i, i>> BY <2>3
    <3> QED BY <2>2, <3>1, <3>2
  <2>6. ASSUME NEW i \in made PROVE i \in Full
    <3>1. <<i, i>> \in FullKeys /\ MAKE_NODEPTR(<<i, i>>) = i BY <2>2, <2>4
    <3> QED BY <2>1, <3>1
  <2> HIDE DEF made
  <2> QED BY <2>5, <2>6 DEF made
<1>13. \A k \in FullKeys : k[2] <= n BY <1>1, <1>11
<1> QED BY <1>1, <1>3, <1>9, <1>12, <1>13 DEF Stacked

LEMMA NothingEmptyAtStart ==
  ASSUME Init
  PROVE  Stacked(nextChunkBlock, chunkBlockPoolTop) /\ Empty = {} /\ EmptyKeys = {}
<1> DEFINE z == 0
           f == [i \in 0 .. z |-> Null]
<1>1. chunkBlockPoolTop = Null BY DEF Init
<1>2. z \in Nat /\ f \in [0 .. z -> Key \cup {Null}] /\ f[0] = Null /\ f[z] = Null /\ 1 .. z = {}
  OBVIOUS
<1> HIDE DEF f, z
<1>3. Linked(nextChunkBlock, chunkBlockPoolTop, z, f) BY <1>1, <1>2 DEF Linked
<1>4. KeysBy(nextChunkBlock, chunkBlockPoolTop) = {f[i] : i \in 1 .. z} BY <1>2, <1>3, KeysAre
<1> QED BY <1>2, <1>3, <1>4 DEF Stacked, Empty, EmptyKeys, StackBy

LEMMA InitInv == Init => IInv
<1> SUFFICES ASSUME Init PROVE IInv OBVIOUS
<1>1. InitBlocks \in Nat /\ MaxCalls \in Nat /\ 0 \in 0 .. MaxCalls BY ChunkPoolAssumption
<1>2. \A t \in Threads : thread[t] = Idle BY DEF Init
<1>3. /\ Full = 1 .. InitBlocks /\ Empty = {} /\ EmptyKeys = {}
      /\ \A k \in FullKeys : k[2] <= InitBlocks
  BY StackAtStart, NothingEmptyAtStart
<1>4. blocks = InitBlocks /\ batches = InitBlocks /\ out = {} /\ calls = 0 /\ countGrew = FALSE
      /\ maxBlockCount = InitBlocks /\ useBlockCount = 0 /\ uniqueCount = InitBlocks
      /\ chunkBlockPoolSize = 0 /\ chunkBlockPoolUniqeCounter = 0
  BY DEF Init
<1>5. Blocks = 1 .. InitBlocks + MaxCalls /\ 1 .. InitBlocks \subseteq Blocks
  BY <1>1 DEF Blocks
<1>6. TypeOK
  <2>1. Idle \in ThreadType BY IdleType
  <2>2. thread \in [Threads -> ThreadType] BY <2>1 DEF Init
  <2>3. Null \in KeyType BY KeyTypes
  <2>4. topBlock \in KeyType
    <3>1. CASE InitBlocks = 0
      <4>1. topBlock = Null BY <3>1 DEF Init, MAKE_KEY, Null
      <4> QED BY <2>3, <4>1
    <3>2. CASE InitBlocks # 0
      <4>1. InitBlocks \in Blocks /\ InitBlocks <= InitBlocks + MaxCalls BY <1>1, <1>5, <3>2
      <4> QED BY <1>1, <4>1, KeyMade DEF Init
    <3> QED BY <3>1, <3>2
  <2>5. nextChunkBlock \in [Blocks -> KeyType]
    <3>1. ASSUME NEW b \in 2 .. InitBlocks PROVE MAKE_KEY(b - 1, b - 1) \in KeyType
      <4>1. b - 1 \in Blocks /\ b - 1 \in Nat /\ b - 1 <= InitBlocks + MaxCalls BY <1>1, <1>5
      <4> QED BY <4>1, KeyMade
    <3> QED BY <2>3, <3>1 DEF Init
  <2>6. headNodePtr \in [Blocks -> Batches \cup {NoBatch}] BY DEF Init, Batches
  <2>7. curSize \in [Blocks -> {0, 1}] BY DEF Init
  <2>8. chunkBlockPoolTop \in KeyType BY <2>3 DEF Init
  <2>9. {useBlockCount, uniqueCount, chunkBlockPoolUniqeCounter} \subseteq Nat
        /\ maxBlockCount \in Nat /\ chunkBlockPoolSize \in Int
        /\ blocks \in Nat /\ batches \in Nat /\ calls \in 0 .. MaxCalls
    BY <1>1, <1>4
  <2>10. out \subseteq Batches /\ countGrew \in BOOLEAN BY <1>4
  <2> QED BY <2>2, <2>4, <2>5, <2>6, <2>7, <2>8, <2>9, <2>10 DEF TypeOK, ThreadType
<1>7. Stacks BY StackAtStart, NothingEmptyAtStart DEF Stacks
<1>8. \A t \in Threads : thread[t].pc = "idle" /\ thread[t].batch = NoBatch BY <1>2 DEF Idle
<1>9. \A t \in Threads : Held(t) = {} BY <1>8 DEF Held, AtPc
<1>10. InOnePlace
  <2> DEFINE made == 1 .. InitBlocks
  <2>1. Full = made /\ 1 .. blocks = made /\ Empty = {} BY <1>3, <1>4
  <2> HIDE DEF made
  <2> QED BY <1>9, <2>1 DEF InOnePlace
<1>11. \A pcs : "idle" \notin pcs => AtPc(pcs) = {} BY <1>8 DEF AtPc
<1>12. \A ret : PopsFor(ret) = {} BY <1>8 DEF PopsFor, AtPc, Popping
<1>13. HasBatch = {} BY <1>11, <1>12 DEF HasBatch
<1>14. Locals BY <1>8, <1>13 DEF Locals, LocalsOf, Popping
<1>15. Numbers BY <1>3, <1>4, <1>11 DEF Numbers
<1>16. EmptyNumbers BY <1>3, <1>11 DEF EmptyNumbers
<1>17. LinksRead BY <1>11 DEF LinksRead
<1>18. Allocating = {} /\ Emptying = {} /\ Undoing = {} /\ MayBlock = {} /\ MayBatch = {}
       /\ MayNumber = {} /\ MayFill = {} /\ Calling = {}
  BY <1>8, <1>11, <1>12
  DEF Allocating, Emptying, Undoing, MayBlock, MayBatch, MayNumber, MayFill, Calling
<1>19. Cardinality({}) = 0 BY FS_EmptySet
<1>20. Counted
  <2>1. Cardinality(Full) = InitBlocks
    <3> DEFINE a == 1
               b == InitBlocks
    <3>1. a \in Int /\ b \in Int BY <1>1
    <3>2. Cardinality(a .. b) = IF a > b THEN 0 ELSE b - a + 1 BY <3>1, FS_Interval
    <3> QED BY <1>1, <1>3, <3>2
  <2>2. Fated = {} BY <1>8, <1>12 DEF Fated, AtPc
  <2> QED BY <1>1, <1>3, <1>4, <1>18, <1>19, <2>1, <2>2 DEF Counted
<1>21. Limits BY <1>1, <1>4, <1>18, <1>19 DEF Limits
<1>22. OwnNodes
  <2>1. Filled = 1 .. InitBlocks BY <1>3, <1>8 DEF Filled, AtPc
  <2>2. \A b \in 1 .. InitBlocks : b \in Blocks /\ headNodePtr[b] = b BY <1>1, <1>5 DEF Init
  <2>3. \A b \in Blocks : curSize[b] = 1 <=> b \in Filled BY <1>1, <1>5, <2>1 DEF Init
  <2> QED BY <1>4, <1>13, <2>1, <2>2, <2>3 DEF OwnNodes
<1> QED BY <1>6, <1>7, <1>10, <1>14, <1>15, <1>16, <1>17, <1>20, <1>21, <1>22 DEF IInv

LEMMA NextInv == IInv /\ [Next]_vars => IInv'
<1> SUFFICES ASSUME IInv, [Next]_vars PROVE IInv' OBVIOUS
<1>1. TypeOK' /\ InOnePlace' /\ Locals' /\ Counted' /\ Limits' /\ OwnNodes'
  BY TypeStep, PlaceStep, LocalsStep, CountedStep, LimitsStep, OwnNodesStep
<1>2. CASE UNCHANGED vars
  <2>1. Stacks' /\ Full' = Full /\ Empty' = Empty /\ FullKeys' = FullKeys /\ EmptyKeys' = EmptyKeys
    BY <1>2 DEF IInv, Stacks, Full, Empty, FullKeys, EmptyKeys
  <2>2. Numbers' /\ EmptyNumbers' /\ LinksRead'
    BY <1>2, <2>1 DEF IInv, Numbers, EmptyNumbers, LinksRead, AtPc
  <2> QED BY <1>1, <2>1, <2>2 DEF IInv
<1>3. CASE Next
  <2>1. PICK t \in Threads : Begin(t) \/ Continue(t) BY <1>3 DEF Next
  <2>2. Stacks' BY <2>1, KeysMove DEF KeysOf
  <2>3. Numbers' /\ EmptyNumbers' /\ LinksRead'
    BY <2>1, NumbersStep, EmptyNumbersStep, LinksReadStep
  <2> QED BY <1>1, <2>2, <2>3 DEF IInv
<1> QED BY <1>2, <1>3

\* IInv is an invariant.
THEOREM ChunkPoolInvariant == Spec => []IInv
BY InitInv, NextInv, PTL DEF Spec

----------------------------------------------------------------------------
(* The properties.                                                          *)

LEMMA StacksAre ==
  /\ InStack(topBlock) = Full /\ InStack(chunkBlockPoolTop) = Empty
  /\ InStack(topBlock)' = Full'
  /\ Ends(topBlock) <=> LinksBy(nextChunkBlock, topBlock)[Cardinality(Blocks)] = Null
  /\ Ends(chunkBlockPoolTop) <=>
         LinksBy(nextChunkBlock, chunkBlockPoolTop)[Cardinality(Blocks)] = Null
<1>1. InStack(topBlock) = Full
  BY DEF InStack, Links, Full, StackBy, KeysBy, LinksBy
<1>2. InStack(chunkBlockPoolTop) = Empty
  BY DEF InStack, Links, Empty, StackBy, KeysBy, LinksBy
<1>3. InStack(topBlock)' = Full'
  BY DEF InStack, Links, Full, StackBy, KeysBy, LinksBy
<1>4. Ends(topBlock) <=> LinksBy(nextChunkBlock, topBlock)[Cardinality(Blocks)] = Null
  BY DEF Ends, Links, LinksBy
<1>5. Ends(chunkBlockPoolTop) <=>
         LinksBy(nextChunkBlock, chunkBlockPoolTop)[Cardinality(Blocks)] = Null
  BY DEF Ends, Links, LinksBy
<1> QED BY <1>1, <1>2, <1>3, <1>4, <1>5

\* Every chunk block that was made is in one stack or with one thread, and the
\* stacks end: no compare-and-swap loses a block or links one twice.
THEOREM BlocksInOnePlace == Spec => []EveryBlockInOnePlace
<1>1. ASSUME IInv PROVE EveryBlockInOnePlace
  <2>1. Stacked(nextChunkBlock, topBlock) /\ Stacked(nextChunkBlock, chunkBlockPoolTop)
    BY <1>1 DEF IInv, Stacks
  <2>2. Ends(topBlock) /\ Ends(chunkBlockPoolTop) BY <2>1, StackFacts, StacksAre
  <2>3. Full \cup Empty \cup UNION {Held(t) : t \in Threads} = 1 .. blocks
    <3> DEFINE made == 1 .. blocks
    <3>1. /\ Full \subseteq made /\ Empty \subseteq made
          /\ \A t \in Threads : Held(t) \subseteq made
          /\ \A b \in made : b \in Full \cup Empty \/ \E t \in Threads : b \in Held(t)
      BY <1>1 DEF IInv, InOnePlace
    <3> HIDE DEF made
    <3>2. Full \cup Empty \cup UNION {Held(t) : t \in Threads} = made BY <3>1
    <3> QED BY <3>2 DEF made
  <2> QED BY <1>1, <2>2, <2>3, StacksAre DEF IInv, InOnePlace, EveryBlockInOnePlace
<1> QED BY <1>1, ChunkPoolInvariant, PTL

\* The counters tell exactly how many blocks the stacks have, up to the calls
\* that are between changing the one and the other.
THEOREM CountersAreExact == Spec => []CountersMatchStacks
<1>1. ASSUME IInv PROVE CountersMatchStacks
  <2> DEFINE S == AtPc({"test", "top", "next", "pop", "crashed", "renew", "count"})
             R == PopsFor("renew")
  <2>1. S \subseteq Threads /\ R \subseteq Threads /\ S \cap R = {}
    BY DEF AtPc, PopsFor, Popping
  <2>2. IsFiniteSet(S) /\ IsFiniteSet(R) BY <2>1, ChunkPoolAssumption, FS_Subset
  <2>3. Allocating = S \cup R BY DEF Allocating
  <2>4. R = {t \in AtPc({"claim", "undo", "emptyTop", "emptyNext", "emptyPop"}) :
                 thread[t].ret = "renew"}
    BY DEF PopsFor, Popping
  <2>5. Cardinality(S) \in Nat /\ Cardinality(R) \in Nat /\ Cardinality(S \cap R) = 0
    BY <2>1, <2>2, FS_CardinalityType, FS_EmptySet
  <2>6. Cardinality(S \cup R) = Cardinality(S) + Cardinality(R) - Cardinality(S \cap R)
    <3> HIDE DEF S, R
    <3> QED BY <2>2, FS_Union
  <2>7. Cardinality(Allocating) = Cardinality(S) + Cardinality(R)
    <3> HIDE DEF S, R
    <3> QED BY <2>3, <2>5, <2>6
  <2>8. /\ Cardinality(Full) = maxBlockCount - useBlockCount + Cardinality(Allocating)
        /\ Cardinality(Empty) = chunkBlockPoolSize + Cardinality(Emptying)
    BY <1>1 DEF IInv, Counted
  <2>9. maxBlockCount \in Nat /\ useBlockCount \in Nat BY <1>1, Types DEF IInv
  <2>10. Cardinality(Full) = maxBlockCount - useBlockCount + Cardinality(S) + Cardinality(R)
    <3> HIDE DEF S, R
    <3> QED BY <2>5, <2>7, <2>8, <2>9
  <2> HIDE DEF R
  <2> QED BY <2>4, <2>8, <2>10, StacksAre DEF CountersMatchStacks, Emptying
<1> QED BY <1>1, ChunkPoolInvariant, PTL

\* A thread that goes to a stack finds a block there, unless maxBlockCount grew
\* between its increment of useBlockCount and its comparison.
THEOREM PopsFindBlocks == Spec => []PopFindsBlockUnlessCountGrew
<1>1. ASSUME IInv PROVE PopFindsBlockUnlessCountGrew
  <2>1. ASSUME NEW t \in AtPc({"top", "next", "pop", "crashed"}), ~countGrew
        PROVE  topBlock # Null
    <3>1. t \in Threads /\ thread[t].pc \in {"top", "next", "pop", "crashed"} BY DEF AtPc
    <3>2. Fated \subseteq Allocating /\ Allocating \subseteq Threads /\ t \in Allocating /\ t \notin Fated
      BY <3>1 DEF Fated, Allocating, PopsFor, AtPc, Popping
    <3>3. IsFiniteSet(Allocating) BY <3>2, ChunkPoolAssumption, FS_Subset
    <3>4. Cardinality(Allocating \ {t}) = Cardinality(Allocating) - 1 /\ IsFiniteSet(Allocating \ {t})
      BY <3>2, <3>3, FS_RemoveElement
    <3>5. Fated \subseteq Allocating \ {t} BY <3>2
    <3>6. Cardinality(Fated) <= Cardinality(Allocating \ {t}) BY <3>4, <3>5, FS_Subset
    <3>7. Cardinality(Allocating) \in Nat /\ Cardinality(Fated) \in Nat BY <3>1, Counts
    <3>8. /\ Cardinality(Full) = maxBlockCount - useBlockCount + Cardinality(Allocating)
          /\ 0 <= maxBlockCount - useBlockCount + Cardinality(Fated)
          /\ maxBlockCount \in Nat /\ useBlockCount \in Nat
      BY <1>1, <2>1, Types DEF IInv, Counted
    <3>9. Cardinality(Full) # 0 BY <3>4, <3>6, <3>7, <3>8
    <3>10. Full # {} BY <3>9, FS_EmptySet
    <3>11. Stacked(nextChunkBlock, topBlock) BY <1>1 DEF IInv, Stacks
    <3> QED BY <3>10, <3>11, StackFacts DEF Full
  <2>2. ASSUME NEW t \in AtPc({"emptyTop", "emptyNext", "emptyPop"})
        PROVE  chunkBlockPoolTop # Null
    BY <1>1, EmptyFinds DEF AtPc
  <2> QED BY <2>1, <2>2 DEF PopFindsBlockUnlessCountGrew
<1> QED BY <1>1, ChunkPoolInvariant, PTL

----------------------------------------------------------------------------
(* The pool as threads see it: a batch is free or out.                      *)

OutOf(t)    == ({thread[t].batch} \cup {headNodePtr[b] : b \in LoadedBy(t)}) \ {NoBatch}
OthersOf(t) == UNION {OutOf(u) : u \in Threads \ {t}}

LEMMA OutIs ==
  ASSUME NEW t \in Threads
  PROVE  /\ OutBatches = (out \ {NoBatch}) \cup OthersOf(t) \cup OutOf(t)
         /\ OutBatches' = (out' \ {NoBatch}) \cup OthersOf(t)' \cup OutOf(t)'
<1>1. OutBatches = (out \ {NoBatch}) \cup UNION {OutOf(u) : u \in Threads}
  BY DEF OutBatches, OutOf, LoadedBy, Loaded, AtPc
<1>2. OutBatches' = (out' \ {NoBatch}) \cup UNION {OutOf(u)' : u \in Threads}
  BY DEF OutBatches, OutOf, LoadedBy, Loaded, AtPc
<1>3. UNION {OutOf(u) : u \in Threads} = OthersOf(t) \cup OutOf(t) BY DEF OthersOf
<1>4. UNION {OutOf(u)' : u \in Threads} = OthersOf(t)' \cup OutOf(t)' BY DEF OthersOf
<1> QED BY <1>1, <1>2, <1>3, <1>4

LEMMA FreeIs ==
  FreeBatches = {headNodePtr[b] : b \in Full} /\ FreeBatches' = {headNodePtr'[b] : b \in Full'}
BY StacksAre DEF FreeBatches

\* A step of t fills no block but its own.
NodesOf(t) == \/ headNodePtr' = headNodePtr
              \/ /\ thread[t].pc \in Holding
                 /\ \A b \in Blocks : b # thread[t].block => headNodePtr'[b] = headNodePtr[b]

LEMMA OthersKeep ==
  ASSUME IInv, NEW t \in Threads, Only(t), NodesOf(t)
  PROVE  OthersOf(t)' = OthersOf(t) /\ \A b \in Full : headNodePtr'[b] = headNodePtr[b]
<1>1. ASSUME NEW u \in Threads, u # t PROVE OutOf(u)' = OutOf(u)
  <2>1. thread'[u] = thread[u] BY <1>1 DEF Only
  <2>2. LoadedBy(u)' = LoadedBy(u) BY <2>1 DEF LoadedBy
  <2>3. ASSUME NEW b \in LoadedBy(u) PROVE headNodePtr'[b] = headNodePtr[b]
    <3>1. thread[u].pc \in Loaded /\ b = thread[u].block BY DEF LoadedBy
    <3>2. Held(u) = {b} /\ b \in Blocks BY <3>1, Holders DEF Loaded
    <3>3. thread[t].pc \in Holding => b # thread[t].block
      <4>1. thread[t].pc \in Holding => Held(t) = {thread[t].block} BY Holders DEF Holding
      <4>2. Held(t) \cap Held(u) = {} BY <1>1 DEF IInv, InOnePlace
      <4> QED BY <3>2, <4>1, <4>2
    <3> QED BY <3>2, <3>3 DEF NodesOf
  <2> QED BY <2>1, <2>2, <2>3 DEF OutOf
<1>2. OthersOf(t)' = OthersOf(t) BY <1>1 DEF OthersOf
<1>3. ASSUME NEW b \in Full PROVE headNodePtr'[b] = headNodePtr[b]
  <2>1. Stacked(nextChunkBlock, topBlock) BY DEF IInv, Stacks
  <2>2. b \in Blocks BY <2>1, StackFacts DEF Full
  <2>3. thread[t].pc \in Holding => b # thread[t].block BY Holders DEF Holding
  <2> QED BY <2>2, <2>3 DEF NodesOf
<1> QED BY <1>2, <1>3

\* A step that moves nodes only between a thread, its block and its local pool
\* is none of the pool's.
LEMMA PoolStays ==
  ASSUME IInv, NEW t \in Threads, Only(t), NodesOf(t), Full' = Full,
         (out' \ {NoBatch}) \cup OutOf(t)' = (out \ {NoBatch}) \cup OutOf(t)
  PROVE  UNCHANGED <<FreeBatches, OutBatches>>
<1>1. OthersOf(t)' = OthersOf(t) /\ \A b \in Full : headNodePtr'[b] = headNodePtr[b]
  BY OthersKeep
<1>2. OutBatches' = OutBatches BY <1>1, OutIs
<1>3. FreeBatches' = FreeBatches BY <1>1, FreeIs
<1> QED BY <1>2, <1>3

\* The batches of other threads are other batches.
LEMMA OthersDiffer ==
  ASSUME IInv, NEW t \in Threads, NEW b \in Filled,
         \A u \in Threads \ {t} : b \notin LoadedBy(u)
  PROVE  headNodePtr[b] \notin OthersOf(t) /\ headNodePtr[b] \notin out
         /\ headNodePtr[b] \in Batches /\ headNodePtr[b] # NoBatch
<1>1. /\ headNodePtr[b] \in 1 .. batches /\ headNodePtr[b] \notin out
      /\ \A c \in Filled : b # c => headNodePtr[b] # headNodePtr[c]
      /\ \A u \in HasBatch : headNodePtr[b] # thread[u].batch
  BY DEF IInv, OwnNodes
<1>2. headNodePtr[b] # NoBatch
  <2>1. batches \in Nat BY Types DEF IInv
  <2> QED BY <1>1, <2>1 DEF NoBatch
<1>3. headNodePtr[b] \in Batches
  <2>1. b \in Blocks /\ headNodePtr \in [Blocks -> Batches \cup {NoBatch}]
    BY Types, FilledInBlocks DEF IInv
  <2> QED BY <1>2, <2>1
<1>4. ASSUME NEW u \in Threads \ {t} PROVE headNodePtr[b] \notin OutOf(u)
  <2>1. thread[u].batch # NoBatch => u \in HasBatch BY DEF IInv, Locals, LocalsOf
  <2>2. headNodePtr[b] # thread[u].batch BY <1>1, <1>2, <2>1
  <2>3. \A c \in LoadedBy(u) : c \in Filled /\ c # b BY FilledIs
  <2> QED BY <1>1, <2>2, <2>3 DEF OutOf
<1> QED BY <1>1, <1>2, <1>3, <1>4 DEF OthersOf

LEMMA PoolTakes ==
  ASSUME IInv, NEW t \in Threads, Only(t), headNodePtr' = headNodePtr, out' = out,
         NEW b \in Full, Full' = Full \ {b}, OutOf(t) = {}, OutOf(t)' = {headNodePtr[b]}
  PROVE  B!Take
<1>1. OthersOf(t)' = OthersOf(t) BY OthersKeep DEF NodesOf
<1>2. OutBatches' = OutBatches \cup {headNodePtr[b]} BY <1>1, OutIs
<1>3. b \in Filled /\ Full \subseteq Filled BY DEF Filled
<1>4. \A c \in Full : c # b => headNodePtr[c] # headNodePtr[b] BY <1>3 DEF IInv, OwnNodes
<1>5. FreeBatches' = FreeBatches \ {headNodePtr[b]} BY <1>4, FreeIs
<1>6. headNodePtr[b] \in FreeBatches BY FreeIs
<1> QED BY <1>2, <1>5, <1>6 DEF B!Take

LEMMA PoolGetsBack ==
  ASSUME IInv, NEW t \in Threads, Only(t), headNodePtr' = headNodePtr, out' = out,
         thread[t].pc = "push", Full' = Full \cup {thread[t].block},
         OutOf(t) = {headNodePtr[thread[t].block]}, OutOf(t)' = {}
  PROVE  B!Return
<1> DEFINE b == thread[t].block
<1>1. OthersOf(t)' = OthersOf(t) BY OthersKeep DEF NodesOf
<1>2. b \in Filled BY DEF Filled, AtPc
<1>3. \A u \in Threads \ {t} : b \notin LoadedBy(u)
  <2>1. b \notin OtherFilled(t) BY OwnIsNotOthers DEF Holding
  <2> QED BY <2>1 DEF OtherFilled, LoadedBy, AtPc
<1>4. headNodePtr[b] \notin OthersOf(t) /\ headNodePtr[b] \notin out
  BY <1>2, <1>3, OthersDiffer
<1> DEFINE x == headNodePtr[b]
<1>5. OutBatches' = OutBatches \ {x} /\ x \in OutBatches
  <2>1. OutOf(t) = {x} /\ x \notin OthersOf(t) /\ x \notin out BY <1>4
  <2> HIDE DEF x
  <2> QED BY <1>1, <2>1, OutIs
<1>6. FreeBatches' = FreeBatches \cup {x} BY FreeIs
<1> QED BY <1>5, <1>6 DEF B!Return

\* All batches are among those that were made.
LEMMA MadeBatches ==
  ASSUME IInv
  PROVE  FreeBatches \cup OutBatches \subseteq 1 .. batches
<1> DEFINE made == 1 .. batches
<1>1. /\ \A b \in Filled : headNodePtr[b] \in made
      /\ \A t \in HasBatch : thread[t].batch \in made
      /\ out \subseteq made
  BY DEF IInv, OwnNodes
<1> HIDE DEF made
<1>2. FreeBatches \subseteq made BY <1>1, FreeIs DEF Filled
<1>3. \A t \in Threads : thread[t].batch # NoBatch => thread[t].batch \in made
  BY <1>1 DEF IInv, Locals, LocalsOf
<1>4. \A t \in AtPc({"take", "read", "push"}) : headNodePtr[thread[t].block] \in made
  BY <1>1 DEF Filled
<1>5. OutBatches \subseteq made BY <1>1, <1>3, <1>4 DEF OutBatches
<1> QED BY <1>2, <1>5 DEF made

PoolMoves == B!Take \/ B!Make \/ B!Return \/ UNCHANGED <<FreeBatches, OutBatches>>

LEMMA PoolStep ==
  ASSUME IInv, [Next]_vars
  PROVE  PoolMoves
<1>t. /\ thread \in [Threads -> ThreadType] /\ curSize \in [Blocks -> {0, 1}] /\ batches \in Nat
      /\ headNodePtr \in [Blocks -> Batches \cup {NoBatch}]
  BY Types DEF IInv
<1>l. \A t \in Threads : LocalsOf(t) BY DEF IInv, Locals
<1>s. UNCHANGED vars => UNCHANGED <<FreeBatches, OutBatches>>
  BY DEF FreeBatches, OutBatches, InStack, Links, AtPc
<1>1. ASSUME NEW t \in Threads, AllocChunk(t) PROVE PoolMoves
  <2>1. /\ Only(t) /\ thread'[t].pc = "test" /\ thread'[t].block = thread[t].block
        /\ thread'[t].batch = thread[t].batch /\ Quiet
    BY <1>1, AllocChunkMoves DEF Becomes
  <2>2. thread[t].pc = "idle" BY <1>1 DEF AllocChunk
  <2>3. LoadedBy(t)' = LoadedBy(t) BY <2>1, <2>2 DEF LoadedBy, Loaded
  <2>4. headNodePtr' = headNodePtr /\ out' = out BY <1>1 DEF AllocChunk
  <2>5. (out' \ {NoBatch}) \cup OutOf(t)' = (out \ {NoBatch}) \cup OutOf(t)
    BY <2>1, <2>3, <2>4 DEF OutOf
  <2>6. UNCHANGED <<FreeBatches, OutBatches>>
    BY <2>1, <2>4, <2>5, PoolStays DEF NodesOf, Quiet
  <2> QED BY <2>6 DEF PoolMoves
<1>2. ASSUME NEW t \in Threads, FreeChunk(t) PROVE PoolMoves
  <2>1. PICK b \in out : /\ out' = out \ {b} /\ Only(t) /\ thread'[t].pc = "claim"
                          /\ thread'[t].block = thread[t].block /\ thread'[t].batch = b
                          /\ Quiet
    BY <1>2, FreeChunkMoves DEF Becomes
  <2>2. thread[t].pc = "idle" BY <1>2 DEF FreeChunk
  <2>3. LoadedBy(t)' = LoadedBy(t) BY <2>1, <2>2 DEF LoadedBy, Loaded
  <2>4. headNodePtr' = headNodePtr BY <1>2 DEF FreeChunk
  <2>5. thread[t].batch = NoBatch BY <2>2, <1>l DEF LocalsOf, HasBatch, PopsFor, AtPc, Popping
  <2>6. LoadedBy(t) = {} BY <2>2 DEF LoadedBy, Loaded
  <2>7. (out' \ {NoBatch}) \cup OutOf(t)' = (out \ {NoBatch}) \cup OutOf(t)
    BY <2>1, <2>3, <2>4, <2>5, <2>6 DEF OutOf
  <2>8. UNCHANGED <<FreeBatches, OutBatches>>
    BY <2>1, <2>4, <2>7, PoolStays DEF NodesOf, Quiet
  <2> QED BY <2>8 DEF PoolMoves
<1>3. ASSUME NEW t \in Threads, TestCount(t) PROVE PoolMoves
  <2>1. CASE thread[t].use >= maxBlockCount
    <3>1. /\ Only(t) /\ thread'[t].pc = "claim" /\ thread'[t].block = thread[t].block
          /\ thread'[t].batch = thread[t].batch /\ Quiet
      BY <1>3, <2>1, TestCountMoves DEF Becomes
    <3>2. thread[t].pc = "test" BY <1>3 DEF TestCount
    <3>3. LoadedBy(t)' = LoadedBy(t) BY <3>1, <3>2 DEF LoadedBy, Loaded
    <3>4. headNodePtr' = headNodePtr /\ out' = out BY <1>3 DEF TestCount
    <3>5. (out' \ {NoBatch}) \cup OutOf(t)' = (out \ {NoBatch}) \cup OutOf(t)
      BY <3>1, <3>3, <3>4 DEF OutOf
    <3>6. UNCHANGED <<FreeBatches, OutBatches>>
      BY <3>1, <3>4, <3>5, PoolStays DEF NodesOf, Quiet
    <3> QED BY <3>6 DEF PoolMoves
  <2>2. CASE thread[t].use < maxBlockCount
    <3>1. /\ Only(t) /\ thread'[t].pc = "top" /\ thread'[t].block = thread[t].block
          /\ thread'[t].batch = thread[t].batch /\ Quiet
      BY <1>3, <2>2, TestCountMoves DEF Becomes
    <3>2. thread[t].pc = "test" BY <1>3 DEF TestCount
    <3>3. LoadedBy(t)' = LoadedBy(t) BY <3>1, <3>2 DEF LoadedBy, Loaded
    <3>4. headNodePtr' = headNodePtr /\ out' = out BY <1>3 DEF TestCount
    <3>5. (out' \ {NoBatch}) \cup OutOf(t)' = (out \ {NoBatch}) \cup OutOf(t)
      BY <3>1, <3>3, <3>4 DEF OutOf
    <3>6. UNCHANGED <<FreeBatches, OutBatches>>
      BY <3>1, <3>4, <3>5, PoolStays DEF NodesOf, Quiet
    <3> QED BY <3>6 DEF PoolMoves
  <2>3. thread[t].use \in Nat /\ maxBlockCount \in Nat BY Types DEF IInv, ThreadType
  <2> QED BY <2>1, <2>2, <2>3
<1>4. ASSUME NEW t \in Threads, ReadTop(t) PROVE PoolMoves
  <2>1. /\ Only(t) /\ thread'[t].pc = "next" /\ thread'[t].block = thread[t].block
        /\ thread'[t].batch = thread[t].batch /\ Quiet
    BY <1>4, ReadTopMoves DEF Becomes
  <2>2. thread[t].pc = "top" BY <1>4 DEF ReadTop
  <2>3. LoadedBy(t)' = LoadedBy(t) BY <2>1, <2>2 DEF LoadedBy, Loaded
  <2>4. headNodePtr' = headNodePtr /\ out' = out BY <1>4 DEF ReadTop
  <2>5. (out' \ {NoBatch}) \cup OutOf(t)' = (out \ {NoBatch}) \cup OutOf(t)
    BY <2>1, <2>3, <2>4 DEF OutOf
  <2>6. UNCHANGED <<FreeBatches, OutBatches>>
    BY <2>1, <2>4, <2>5, PoolStays DEF NodesOf, Quiet
  <2> QED BY <2>6 DEF PoolMoves
<1>5. ASSUME NEW t \in Threads, ReadNext(t) PROVE PoolMoves
  <2>1. /\ Only(t) /\ thread'[t].pc = "pop" /\ thread'[t].block = thread[t].block
        /\ thread'[t].batch = thread[t].batch /\ Quiet
    BY <1>5, ReadNextMoves DEF Becomes
  <2>2. thread[t].pc = "next" BY <1>5 DEF ReadNext
  <2>3. LoadedBy(t)' = LoadedBy(t) BY <2>1, <2>2 DEF LoadedBy, Loaded
  <2>4. headNodePtr' = headNodePtr /\ out' = out BY <1>5 DEF ReadNext
  <2>5. (out' \ {NoBatch}) \cup OutOf(t)' = (out \ {NoBatch}) \cup OutOf(t)
    BY <2>1, <2>3, <2>4 DEF OutOf
  <2>6. UNCHANGED <<FreeBatches, OutBatches>>
    BY <2>1, <2>4, <2>5, PoolStays DEF NodesOf, Quiet
  <2> QED BY <2>6 DEF PoolMoves
<1>6. ASSUME NEW t \in Threads, ReadNull(t) PROVE PoolMoves
  <2>1. /\ Only(t) /\ thread'[t].pc = "crashed" /\ thread'[t].block = thread[t].block
        /\ thread'[t].batch = thread[t].batch /\ Quiet
    BY <1>6, ReadNullMoves DEF Becomes
  <2>2. thread[t].pc = "next" BY <1>6 DEF ReadNull
  <2>3. LoadedBy(t)' = LoadedBy(t) BY <2>1, <2>2 DEF LoadedBy, Loaded
  <2>4. headNodePtr' = headNodePtr /\ out' = out BY <1>6 DEF ReadNull
  <2>5. (out' \ {NoBatch}) \cup OutOf(t)' = (out \ {NoBatch}) \cup OutOf(t)
    BY <2>1, <2>3, <2>4 DEF OutOf
  <2>6. UNCHANGED <<FreeBatches, OutBatches>>
    BY <2>1, <2>4, <2>5, PoolStays DEF NodesOf, Quiet
  <2> QED BY <2>6 DEF PoolMoves
<1>7. ASSUME NEW t \in Threads, PopBlock(t) PROVE PoolMoves
  <2>1. CASE topBlock = thread[t].tempTop
    <3>1. /\ Only(t) /\ thread'[t].pc = "take"
          /\ thread'[t].block = MAKE_NODEPTR(thread[t].tempTop)
          /\ thread'[t].batch = NoBatch /\ FullPops
      BY <1>7, <2>1, PopBlockMoves DEF Becomes
    <3>2. thread[t].pc = "pop" BY <1>7 DEF PopBlock
    <3>3. thread[t].batch = NoBatch
      BY <3>2, <1>l DEF LocalsOf, HasBatch, PopsFor, AtPc, Popping
    <3>4. LoadedBy(t) = {} /\ LoadedBy(t)' = {MAKE_NODEPTR(topBlock)}
      BY <1>7, <2>1, <3>1, <3>2 DEF LoadedBy, Loaded
    <3>5. headNodePtr' = headNodePtr /\ out' = out BY <1>7 DEF PopBlock
    <3> DEFINE c == MAKE_NODEPTR(topBlock)
    <3>6. c \in Full /\ Full' = Full \ {c} BY <3>1 DEF FullPops
    <3>7. headNodePtr[c] # NoBatch
      <4>1. c \in Filled BY <3>6 DEF Filled
      <4>2. headNodePtr[c] \in 1 .. batches /\ batches \in Nat
        BY <4>1, Types DEF IInv, OwnNodes
      <4> QED BY <4>2 DEF NoBatch
    <3>8. OutOf(t) = {} /\ OutOf(t)' = {headNodePtr[c]}
      <4> HIDE DEF c
      <4>1. LoadedBy(t)' = {c} BY <3>4 DEF c
      <4> QED BY <3>1, <3>3, <3>4, <3>5, <3>7, <4>1 DEF OutOf
    <3>9. B!Take
      <4> HIDE DEF c
      <4> QED BY <3>1, <3>5, <3>6, <3>8, PoolTakes
    <3> QED BY <3>9 DEF PoolMoves
  <2>2. CASE topBlock # thread[t].tempTop
    <3>1. /\ Only(t) /\ thread'[t].pc = "top" /\ thread'[t].block = thread[t].block
          /\ thread'[t].batch = thread[t].batch /\ Quiet
      BY <1>7, <2>2, PopBlockMoves DEF Becomes
    <3>2. thread[t].pc = "pop" BY <1>7 DEF PopBlock
    <3>3. LoadedBy(t)' = LoadedBy(t) BY <3>1, <3>2 DEF LoadedBy, Loaded
    <3>4. headNodePtr' = headNodePtr /\ out' = out BY <1>7 DEF PopBlock
    <3>5. (out' \ {NoBatch}) \cup OutOf(t)' = (out \ {NoBatch}) \cup OutOf(t)
      BY <3>1, <3>3, <3>4 DEF OutOf
    <3>6. UNCHANGED <<FreeBatches, OutBatches>>
      BY <3>1, <3>4, <3>5, PoolStays DEF NodesOf, Quiet
    <3> QED BY <3>6 DEF PoolMoves
  <2> QED BY <2>1, <2>2
<1>8. ASSUME NEW t \in Threads, NewChunkBlock(t) PROVE PoolMoves
  <2>1. /\ Only(t) /\ thread'[t].pc = "take" /\ thread'[t].block = thread[t].block
        /\ thread'[t].batch = thread[t].batch /\ Quiet
    BY <1>8, NewChunkBlockMoves DEF Becomes
  <2>2. thread[t].pc = "renew" BY <1>8 DEF NewChunkBlock
  <2>3. thread[t].batch = NoBatch BY <2>2, <1>l DEF LocalsOf, HasBatch, PopsFor, AtPc, Popping
  <2>4. thread[t].block \in Blocks /\ thread[t].block \notin Filled
    <3>1. thread[t].block \in Blocks /\ thread[t].block \notin OtherFilled(t)
      BY <2>2, OwnIsNotOthers DEF Holding
    <3>2. LoadedBy(t) = {} BY <2>2 DEF LoadedBy, Loaded
    <3> QED BY <3>1, <3>2, FilledIs
  <2>5. curSize[thread[t].block] = 0 BY <1>t, <2>4 DEF IInv, OwnNodes
  <2> DEFINE b == thread[t].block
             x == batches + 1
  <2>6. headNodePtr' = [headNodePtr EXCEPT ![b] = x] /\ out' = out
    BY <1>8, <1>t, <2>5 DEF NewChunkBlock
  <2>7. x \in Batches /\ x # NoBatch /\ x \notin 1 .. batches
    <3>1. x \in Batches BY <2>2, Room DEF MayBatch, AtPc
    <3> QED BY <1>t, <3>1 DEF NoBatch
  <2>8. NodesOf(t) /\ headNodePtr'[b] = x /\ LoadedBy(t) = {} /\ LoadedBy(t)' = {b}
    BY <1>t, <2>1, <2>2, <2>4, <2>6 DEF NodesOf, Holding, LoadedBy, Loaded
  <2>9. OutOf(t) = {} /\ OutOf(t)' = {x}
    <3> HIDE DEF b, x
    <3> QED BY <2>1, <2>3, <2>7, <2>8 DEF OutOf
  <2>10. OthersOf(t)' = OthersOf(t) /\ \A c \in Full : headNodePtr'[c] = headNodePtr[c]
    BY <2>1, <2>8, OthersKeep
  <2>11. OutBatches' = OutBatches \cup {x}
    <3> HIDE DEF x
    <3> QED BY <2>6, <2>7, <2>9, <2>10, OutIs
  <2>12. FreeBatches' = FreeBatches BY <2>1, <2>10, FreeIs DEF Quiet
  <2>13. x \notin FreeBatches \cup OutBatches
    <3>1. FreeBatches \cup OutBatches \subseteq 1 .. batches BY MadeBatches
    <3> QED BY <2>7, <3>1
  <2>14. B!Make
    <3> HIDE DEF x
    <3> QED BY <2>7, <2>11, <2>12, <2>13 DEF B!Make
  <2> QED BY <2>14 DEF PoolMoves
<1>9. ASSUME NEW t \in Threads, TakeNodes(t) PROVE PoolMoves
  <2>1. /\ Only(t) /\ thread'[t].pc = "emptyRead" /\ thread'[t].block = thread[t].block
        /\ thread'[t].batch = headNodePtr[thread[t].block] /\ Quiet
    BY <1>9, TakeNodesMoves DEF Becomes
  <2>2. thread[t].pc = "take" BY <1>9 DEF TakeNodes
  <2>3. thread[t].batch = NoBatch BY <2>2, <1>l DEF LocalsOf, HasBatch, PopsFor, AtPc, Popping
  <2>4. LoadedBy(t) = {thread[t].block} /\ LoadedBy(t)' = {}
    BY <2>1, <2>2 DEF LoadedBy, Loaded
  <2>5. headNodePtr' = headNodePtr /\ out' = out BY <1>9 DEF TakeNodes
  <2>6. OutOf(t)' = OutOf(t) BY <2>1, <2>3, <2>4, <2>5 DEF OutOf
  <2>7. UNCHANGED <<FreeBatches, OutBatches>>
    BY <2>1, <2>5, <2>6, PoolStays DEF NodesOf, Quiet
  <2> QED BY <2>7 DEF PoolMoves
<1>10. ASSUME NEW t \in Threads, EmptyRead(t) PROVE PoolMoves
  <2>1. /\ Only(t) /\ thread'[t].pc = "emptyPush" /\ thread'[t].block = thread[t].block
        /\ thread'[t].batch = thread[t].batch /\ Quiet
    BY <1>10, EmptyReadMoves DEF Becomes
  <2>2. thread[t].pc = "emptyRead" BY <1>10 DEF EmptyRead
  <2>3. LoadedBy(t)' = LoadedBy(t) BY <2>1, <2>2 DEF LoadedBy, Loaded
  <2>4. headNodePtr' = headNodePtr /\ out' = out BY <1>10 DEF EmptyRead
  <2>5. (out' \ {NoBatch}) \cup OutOf(t)' = (out \ {NoBatch}) \cup OutOf(t)
    BY <2>1, <2>3, <2>4 DEF OutOf
  <2>6. UNCHANGED <<FreeBatches, OutBatches>>
    BY <2>1, <2>4, <2>5, PoolStays DEF NodesOf, Quiet
  <2> QED BY <2>6 DEF PoolMoves
<1>11. ASSUME NEW t \in Threads, EmptyPush(t) PROVE PoolMoves
  <2>1. CASE chunkBlockPoolTop = thread[t].tempTop
    <3>1. /\ Only(t) /\ thread'[t].pc = "emptyCount" /\ thread'[t].block = thread[t].block
          /\ thread'[t].batch = thread[t].batch /\ EmptyPushes(t)
      BY <1>11, <2>1, EmptyPushMoves DEF Becomes
    <3>2. thread[t].pc = "emptyPush" BY <1>11 DEF EmptyPush
    <3>3. LoadedBy(t)' = LoadedBy(t) BY <3>1, <3>2 DEF LoadedBy, Loaded
    <3>4. headNodePtr' = headNodePtr /\ out' = out BY <1>11 DEF EmptyPush
    <3>5. (out' \ {NoBatch}) \cup OutOf(t)' = (out \ {NoBatch}) \cup OutOf(t)
      BY <3>1, <3>3, <3>4 DEF OutOf
    <3>6. UNCHANGED <<FreeBatches, OutBatches>>
      BY <3>1, <3>4, <3>5, PoolStays DEF NodesOf, EmptyPushes
    <3> QED BY <3>6 DEF PoolMoves
  <2>2. CASE chunkBlockPoolTop # thread[t].tempTop
    <3>1. /\ Only(t) /\ thread'[t].pc = "emptyRead" /\ thread'[t].block = thread[t].block
          /\ thread'[t].batch = thread[t].batch /\ Quiet
      BY <1>11, <2>2, EmptyPushMoves DEF Becomes
    <3>2. thread[t].pc = "emptyPush" BY <1>11 DEF EmptyPush
    <3>3. LoadedBy(t)' = LoadedBy(t) BY <3>1, <3>2 DEF LoadedBy, Loaded
    <3>4. headNodePtr' = headNodePtr /\ out' = out BY <1>11 DEF EmptyPush
    <3>5. (out' \ {NoBatch}) \cup OutOf(t)' = (out \ {NoBatch}) \cup OutOf(t)
      BY <3>1, <3>3, <3>4 DEF OutOf
    <3>6. UNCHANGED <<FreeBatches, OutBatches>>
      BY <3>1, <3>4, <3>5, PoolStays DEF NodesOf, Quiet
    <3> QED BY <3>6 DEF PoolMoves
  <2> QED BY <2>1, <2>2
<1>12. ASSUME NEW t \in Threads, EmptyCount(t) PROVE PoolMoves
  <2>1. /\ Only(t) /\ thread'[t].pc = "idle" /\ thread'[t].block = 0
        /\ thread'[t].batch = NoBatch /\ Quiet
    BY <1>12, EmptyCountMoves DEF Becomes
  <2>2. thread[t].pc = "emptyCount" BY <1>12 DEF EmptyCount
  <2>3. LoadedBy(t)' = LoadedBy(t) BY <2>1, <2>2 DEF LoadedBy, Loaded
  <2>4. headNodePtr' = headNodePtr BY <1>12 DEF EmptyCount
  <2>5. out' = out \cup {thread[t].batch} BY <1>12 DEF EmptyCount
  <2>6. LoadedBy(t) = {} BY <2>2 DEF LoadedBy, Loaded
  <2>7. (out' \ {NoBatch}) \cup OutOf(t)' = (out \ {NoBatch}) \cup OutOf(t)
    BY <2>1, <2>3, <2>4, <2>5, <2>6 DEF OutOf
  <2>8. UNCHANGED <<FreeBatches, OutBatches>>
    BY <2>1, <2>4, <2>7, PoolStays DEF NodesOf, Quiet
  <2> QED BY <2>8 DEF PoolMoves
<1>13. ASSUME NEW t \in Threads, Claim(t) PROVE PoolMoves
  <2>1. CASE chunkBlockPoolSize - 1 < 0
    <3>1. /\ Only(t) /\ thread'[t].pc = "undo" /\ thread'[t].block = thread[t].block
          /\ thread'[t].batch = thread[t].batch /\ Quiet
      BY <1>13, <2>1, ClaimMoves DEF Becomes
    <3>2. thread[t].pc = "claim" BY <1>13 DEF Claim
    <3>3. LoadedBy(t)' = LoadedBy(t) BY <3>1, <3>2 DEF LoadedBy, Loaded
    <3>4. headNodePtr' = headNodePtr /\ out' = out BY <1>13 DEF Claim
    <3>5. (out' \ {NoBatch}) \cup OutOf(t)' = (out \ {NoBatch}) \cup OutOf(t)
      BY <3>1, <3>3, <3>4 DEF OutOf
    <3>6. UNCHANGED <<FreeBatches, OutBatches>>
      BY <3>1, <3>4, <3>5, PoolStays DEF NodesOf, Quiet
    <3> QED BY <3>6 DEF PoolMoves
  <2>2. CASE chunkBlockPoolSize - 1 >= 0
    <3>1. /\ Only(t) /\ thread'[t].pc = "emptyTop" /\ thread'[t].block = thread[t].block
          /\ thread'[t].batch = thread[t].batch /\ Quiet
      BY <1>13, <2>2, ClaimMoves DEF Becomes
    <3>2. thread[t].pc = "claim" BY <1>13 DEF Claim
    <3>3. LoadedBy(t)' = LoadedBy(t) BY <3>1, <3>2 DEF LoadedBy, Loaded
    <3>4. headNodePtr' = headNodePtr /\ out' = out BY <1>13 DEF Claim
    <3>5. (out' \ {NoBatch}) \cup OutOf(t)' = (out \ {NoBatch}) \cup OutOf(t)
      BY <3>1, <3>3, <3>4 DEF OutOf
    <3>6. UNCHANGED <<FreeBatches, OutBatches>>
      BY <3>1, <3>4, <3>5, PoolStays DEF NodesOf, Quiet
    <3> QED BY <3>6 DEF PoolMoves
  <2>3. chunkBlockPoolSize \in Int BY Types DEF IInv
  <2> QED BY <2>1, <2>2, <2>3
<1>14. ASSUME NEW t \in Threads, NewBlock(t) PROVE PoolMoves
  <2>1. /\ Only(t) /\ thread'[t].pc = thread[t].ret /\ thread'[t].block = blocks + 1
        /\ thread'[t].batch = thread[t].batch /\ Quiet
    BY <1>14, NewBlockMoves DEF Becomes
  <2>2. thread[t].pc = "undo" BY <1>14 DEF NewBlock
  <2>3. thread[t].ret \in {"renew", "fill"}
    BY <2>2, <1>t, <1>l DEF LocalsOf, Popping, ThreadType
  <2>4. LoadedBy(t)' = LoadedBy(t) BY <2>1, <2>3, <2>2 DEF LoadedBy, Loaded
  <2>5. headNodePtr' = headNodePtr /\ out' = out BY <1>14 DEF NewBlock
  <2>6. (out' \ {NoBatch}) \cup OutOf(t)' = (out \ {NoBatch}) \cup OutOf(t)
    BY <2>1, <2>4, <2>5 DEF OutOf
  <2>7. UNCHANGED <<FreeBatches, OutBatches>>
    BY <2>1, <2>5, <2>6, PoolStays DEF NodesOf, Quiet
  <2> QED BY <2>7 DEF PoolMoves
<1>15. ASSUME NEW t \in Threads, EmptyTop(t) PROVE PoolMoves
  <2>1. /\ Only(t) /\ thread'[t].pc = "emptyNext" /\ thread'[t].block = thread[t].block
        /\ thread'[t].batch = thread[t].batch /\ Quiet
    BY <1>15, EmptyTopMoves DEF Becomes
  <2>2. thread[t].pc = "emptyTop" BY <1>15 DEF EmptyTop
  <2>3. LoadedBy(t)' = LoadedBy(t) BY <2>1, <2>2 DEF LoadedBy, Loaded
  <2>4. headNodePtr' = headNodePtr /\ out' = out BY <1>15 DEF EmptyTop
  <2>5. (out' \ {NoBatch}) \cup OutOf(t)' = (out \ {NoBatch}) \cup OutOf(t)
    BY <2>1, <2>3, <2>4 DEF OutOf
  <2>6. UNCHANGED <<FreeBatches, OutBatches>>
    BY <2>1, <2>4, <2>5, PoolStays DEF NodesOf, Quiet
  <2> QED BY <2>6 DEF PoolMoves
<1>16. ASSUME NEW t \in Threads, EmptyNext(t) PROVE PoolMoves
  <2>1. /\ Only(t) /\ thread'[t].pc = "emptyPop" /\ thread'[t].block = thread[t].block
        /\ thread'[t].batch = thread[t].batch /\ Quiet
    BY <1>16, EmptyNextMoves DEF Becomes
  <2>2. thread[t].pc = "emptyNext" BY <1>16 DEF EmptyNext
  <2>3. LoadedBy(t)' = LoadedBy(t) BY <2>1, <2>2 DEF LoadedBy, Loaded
  <2>4. headNodePtr' = headNodePtr /\ out' = out BY <1>16 DEF EmptyNext
  <2>5. (out' \ {NoBatch}) \cup OutOf(t)' = (out \ {NoBatch}) \cup OutOf(t)
    BY <2>1, <2>3, <2>4 DEF OutOf
  <2>6. UNCHANGED <<FreeBatches, OutBatches>>
    BY <2>1, <2>4, <2>5, PoolStays DEF NodesOf, Quiet
  <2> QED BY <2>6 DEF PoolMoves
<1>17. ASSUME NEW t \in Threads, EmptyPop(t) PROVE PoolMoves
  <2>1. CASE chunkBlockPoolTop = thread[t].tempTop
    <3>1. /\ Only(t) /\ thread'[t].pc = thread[t].ret
          /\ thread'[t].block = MAKE_NODEPTR(thread[t].tempTop)
          /\ thread'[t].batch = thread[t].batch /\ EmptyPops
      BY <1>17, <2>1, EmptyPopMoves DEF Becomes
    <3>2. thread[t].pc = "emptyPop" BY <1>17 DEF EmptyPop
    <3>3. thread[t].ret \in {"renew", "fill"}
      BY <3>2, <1>t, <1>l DEF LocalsOf, Popping, ThreadType
    <3>4. LoadedBy(t)' = LoadedBy(t) BY <3>1, <3>3, <3>2 DEF LoadedBy, Loaded
    <3>5. headNodePtr' = headNodePtr /\ out' = out BY <1>17 DEF EmptyPop
    <3>6. (out' \ {NoBatch}) \cup OutOf(t)' = (out \ {NoBatch}) \cup OutOf(t)
      BY <3>1, <3>4, <3>5 DEF OutOf
    <3>7. UNCHANGED <<FreeBatches, OutBatches>>
      BY <3>1, <3>5, <3>6, PoolStays DEF NodesOf, EmptyPops
    <3> QED BY <3>7 DEF PoolMoves
  <2>2. CASE chunkBlockPoolTop # thread[t].tempTop
    <3>1. /\ Only(t) /\ thread'[t].pc = "emptyTop" /\ thread'[t].block = thread[t].block
          /\ thread'[t].batch = thread[t].batch /\ Quiet
      BY <1>17, <2>2, EmptyPopMoves DEF Becomes
    <3>2. thread[t].pc = "emptyPop" BY <1>17 DEF EmptyPop
    <3>3. LoadedBy(t)' = LoadedBy(t) BY <3>1, <3>2 DEF LoadedBy, Loaded
    <3>4. headNodePtr' = headNodePtr /\ out' = out BY <1>17 DEF EmptyPop
    <3>5. (out' \ {NoBatch}) \cup OutOf(t)' = (out \ {NoBatch}) \cup OutOf(t)
      BY <3>1, <3>3, <3>4 DEF OutOf
    <3>6. UNCHANGED <<FreeBatches, OutBatches>>
      BY <3>1, <3>4, <3>5, PoolStays DEF NodesOf, Quiet
    <3> QED BY <3>6 DEF PoolMoves
  <2> QED BY <2>1, <2>2
<1>18. ASSUME NEW t \in Threads, Fill(t) PROVE PoolMoves
  <2>1. /\ Only(t) /\ thread'[t].pc = "read" /\ thread'[t].block = thread[t].block
        /\ thread'[t].batch = NoBatch /\ Quiet
    BY <1>18, FillMoves DEF Becomes
  <2>2. thread[t].pc = "fill" BY <1>18 DEF Fill
  <2>3. thread[t].block \in Blocks BY <2>2, Holders
  <2>4. LoadedBy(t) = {} /\ LoadedBy(t)' = {thread[t].block}
    BY <2>1, <2>2 DEF LoadedBy, Loaded
  <2>5. headNodePtr' = [headNodePtr EXCEPT ![thread[t].block] = thread[t].batch] /\ out' = out
    BY <1>18 DEF Fill
  <2>6. headNodePtr'[thread[t].block] = thread[t].batch /\ NodesOf(t)
    BY <1>t, <2>2, <2>3, <2>5 DEF NodesOf, Holding
  <2>7. OutOf(t)' = OutOf(t) BY <2>1, <2>4, <2>6 DEF OutOf
  <2>8. UNCHANGED <<FreeBatches, OutBatches>> BY <2>1, <2>5, <2>6, <2>7, PoolStays DEF Quiet
  <2> QED BY <2>8 DEF PoolMoves
<1>19. ASSUME NEW t \in Threads, PushRead(t) PROVE PoolMoves
  <2>1. /\ Only(t) /\ thread'[t].pc = "push" /\ thread'[t].block = thread[t].block
        /\ thread'[t].batch = thread[t].batch /\ Quiet
    BY <1>19, PushReadMoves DEF Becomes
  <2>2. thread[t].pc = "read" BY <1>19 DEF PushRead
  <2>3. LoadedBy(t)' = LoadedBy(t) BY <2>1, <2>2 DEF LoadedBy, Loaded
  <2>4. headNodePtr' = headNodePtr /\ out' = out BY <1>19 DEF PushRead
  <2>5. (out' \ {NoBatch}) \cup OutOf(t)' = (out \ {NoBatch}) \cup OutOf(t)
    BY <2>1, <2>3, <2>4 DEF OutOf
  <2>6. UNCHANGED <<FreeBatches, OutBatches>>
    BY <2>1, <2>4, <2>5, PoolStays DEF NodesOf, Quiet
  <2> QED BY <2>6 DEF PoolMoves
<1>20. ASSUME NEW t \in Threads, PushBlock(t) PROVE PoolMoves
  <2>1. CASE topBlock = thread[t].tempTop
    <3>1. /\ Only(t) /\ thread'[t].pc = "count" /\ thread'[t].block = thread[t].block
          /\ thread'[t].batch = thread[t].batch /\ FullPushes(t)
      BY <1>20, <2>1, PushBlockMoves DEF Becomes
    <3>2. thread[t].pc = "push" BY <1>20 DEF PushBlock
    <3>3. thread[t].batch = NoBatch
      BY <3>2, <1>l DEF LocalsOf, HasBatch, PopsFor, AtPc, Popping
    <3>4. LoadedBy(t) = {thread[t].block} /\ LoadedBy(t)' = {}
      BY <3>1, <3>2 DEF LoadedBy, Loaded
    <3>5. headNodePtr' = headNodePtr /\ out' = out BY <1>20 DEF PushBlock
    <3>6. headNodePtr[thread[t].block] # NoBatch
      <4>1. thread[t].block \in Filled BY <3>2 DEF Filled, AtPc
      <4>2. headNodePtr[thread[t].block] \in 1 .. batches /\ batches \in Nat
        BY <4>1, Types DEF IInv, OwnNodes
      <4> QED BY <4>2 DEF NoBatch
    <3>7. OutOf(t) = {headNodePtr[thread[t].block]} /\ OutOf(t)' = {}
      BY <3>1, <3>3, <3>4, <3>5, <3>6 DEF OutOf
    <3>8. B!Return BY <3>1, <3>2, <3>5, <3>7, PoolGetsBack DEF FullPushes
    <3> QED BY <3>8 DEF PoolMoves
  <2>2. CASE topBlock # thread[t].tempTop
    <3>1. /\ Only(t) /\ thread'[t].pc = "read" /\ thread'[t].block = thread[t].block
          /\ thread'[t].batch = thread[t].batch /\ Quiet
      BY <1>20, <2>2, PushBlockMoves DEF Becomes
    <3>2. thread[t].pc = "push" BY <1>20 DEF PushBlock
    <3>3. LoadedBy(t)' = LoadedBy(t) BY <3>1, <3>2 DEF LoadedBy, Loaded
    <3>4. headNodePtr' = headNodePtr /\ out' = out BY <1>20 DEF PushBlock
    <3>5. (out' \ {NoBatch}) \cup OutOf(t)' = (out \ {NoBatch}) \cup OutOf(t)
      BY <3>1, <3>3, <3>4 DEF OutOf
    <3>6. UNCHANGED <<FreeBatches, OutBatches>>
      BY <3>1, <3>4, <3>5, PoolStays DEF NodesOf, Quiet
    <3> QED BY <3>6 DEF PoolMoves
  <2> QED BY <2>1, <2>2
<1>21. ASSUME NEW t \in Threads, PushCount(t) PROVE PoolMoves
  <2>1. /\ Only(t) /\ thread'[t].pc = "idle" /\ thread'[t].block = 0
        /\ thread'[t].batch = NoBatch /\ Quiet
    BY <1>21, PushCountMoves DEF Becomes
  <2>2. thread[t].pc = "count" BY <1>21 DEF PushCount
  <2>3. LoadedBy(t)' = LoadedBy(t) BY <2>1, <2>2 DEF LoadedBy, Loaded
  <2>4. headNodePtr' = headNodePtr /\ out' = out BY <1>21 DEF PushCount
  <2>5. thread[t].batch = NoBatch BY <2>2, <1>l DEF LocalsOf, HasBatch, PopsFor, AtPc, Popping
  <2>6. (out' \ {NoBatch}) \cup OutOf(t)' = (out \ {NoBatch}) \cup OutOf(t)
    BY <2>1, <2>3, <2>4, <2>5 DEF OutOf
  <2>7. UNCHANGED <<FreeBatches, OutBatches>>
    BY <2>1, <2>4, <2>6, PoolStays DEF NodesOf, Quiet
  <2> QED BY <2>7 DEF PoolMoves
<1>22. CASE UNCHANGED vars BY <1>22, <1>s DEF PoolMoves
<1> QED BY <1>1, <1>2, <1>3, <1>4, <1>5, <1>6, <1>7, <1>8, <1>9, <1>10, <1>11, <1>12, <1>13,
    <1>14, <1>15, <1>16, <1>17, <1>18, <1>19, <1>20, <1>21, <1>22
  DEF Next, Begin, Continue, PopFull, PopEmpty, PushEmpty, PushFull

\* No two threads get the same nodes, and no nodes are lost: the pool of blocks
\* is a pool of batches, of which a step hands out a free one or a new one, takes
\* back one that is out, or does nothing.
THEOREM ChunksAreBatchPool == Spec => IsBatchPool
<1>1. Init => B!Init
  <2> SUFFICES ASSUME Init PROVE B!Init OBVIOUS
  <2>1. \A t \in Threads : thread[t] = Idle BY DEF Init
  <2>2. out = {} BY DEF Init
  <2>3. OutBatches = {} BY <2>1, <2>2 DEF OutBatches, Idle, AtPc
  <2>4. Full \subseteq Blocks
    <3>1. InitBlocks \in Nat /\ MaxCalls \in Nat BY ChunkPoolAssumption
    <3> QED BY <3>1, StackAtStart DEF Blocks
  <2>5. ASSUME NEW b \in Full PROVE headNodePtr[b] = b
    <3>1. b \in 1 .. InitBlocks /\ b \in Blocks BY <2>4, StackAtStart
    <3>2. InitBlocks \in Nat BY ChunkPoolAssumption
    <3>3. b <= InitBlocks BY <3>1, <3>2
    <3> QED BY <3>1, <3>3 DEF Init
  <2>6. FreeBatches \subseteq Batches BY <2>4, <2>5, FreeIs DEF Batches
  <2> QED BY <2>3, <2>6 DEF B!Init
<1>2. IInv /\ [Next]_vars => [B!Take \/ B!Make \/ B!Return]_<<FreeBatches, OutBatches>>
  BY PoolStep DEF PoolMoves
<1> QED BY <1>1, <1>2, ChunkPoolInvariant, PTL DEF Spec, IsBatchPool, B!Spec

====
