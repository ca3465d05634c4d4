---------------------------- MODULE LoggerProofs ----------------------------
(***************************************************************************)
(* No log message leaks and none is filled while it is still to be         *)
(* written, and the file has the requested lines in their order, for any   *)
(* threads and any number of requests.                                     *)
(***************************************************************************)
EXTENDS Logger, SequenceLemmas, TLAPS

(* The inductive invariant. *)

Texts == {<<>>} \union (Writers \X (1 .. MaxLogs))

\* Who is filling or queueing a message has one, and nobody else; the thread
\* has one between taking it and returning it.
Types ==
    /\ TypeOK
    /\ requested \in Seq(Texts) /\ file \in Seq(Texts)
    /\ logs \in [Writers -> 0 .. MaxLogs]
    /\ \A w \in Writers : /\ wpc[w] = "push" <=> wmsg[w] # NoMessage
                          /\ wpc[w] = "alloc" => logs[w] > 0
    /\ lpc \in {"free", "crashed"} <=> msg # NoMessage
    /\ mpc = "gone" => lpc = "ended"

\* A message is in one place.
OnePlace ==
    /\ IsInjective(logMessagePool) /\ IsInjective(logMessageQueue) /\ IsInjective(localQueue)
    /\ Range(logMessagePool) \intersect Range(logMessageQueue) = {}
    /\ Range(logMessagePool) \intersect Range(localQueue) = {}
    /\ Range(logMessageQueue) \intersect Range(localQueue) = {}
    /\ \A w \in Writers : wmsg[w] # NoMessage =>
          /\ wmsg[w] \notin Range(logMessagePool) \union Range(logMessageQueue) \union Range(localQueue)
          /\ wmsg[w] # msg
          /\ \A v \in Writers : v # w => wmsg[v] # wmsg[w]
    /\ msg \notin Range(logMessagePool) \union Range(logMessageQueue) \union Range(localQueue)

\* And none is in no place.
NoneLost ==
    mpc # "gone" => \A m \in 1 .. made :
        \/ m \in Range(logMessagePool) \union Range(logMessageQueue) \union Range(localQueue)
        \/ m = msg
        \/ \E w \in Writers : m = wmsg[w]

\* What is written, moved and queued is what was requested.
InOrder ==
    IF mpc = "gone" \/ Crashed THEN \E rest \in Seq(Texts) : requested = file \o rest
    ELSE requested = (file \o Mapped(line, localQueue)) \o Mapped(line, logMessageQueue)

IInv == Types /\ OnePlace /\ NoneLost /\ InOrder

----------------------------------------------------------------------------
LEMMA TypeFacts ==
  ASSUME Types
  PROVE  /\ made \in Nat /\ line \in [1 .. made -> Texts]
         /\ logMessagePool \in Seq(1 .. made) /\ logMessageQueue \in Seq(1 .. made)
         /\ localQueue \in Seq(1 .. made)
         /\ loggingEvent \in BOOLEAN /\ runFlag \in BOOLEAN
         /\ lpc \in {"while", "wait", "move", "reset", "write", "free", "ended", "crashed"}
         /\ mpc \in {"alive", "wake", "join", "gone"}
         /\ wpc \in [Writers -> {"out", "alloc", "push", "signal"}]
         /\ msg \in 1 .. made \union {NoMessage}
         /\ wmsg \in [Writers -> 1 .. made \union {NoMessage}]
         /\ requested \in Seq(Texts) /\ file \in Seq(Texts)
         /\ logs \in [Writers -> 0 .. MaxLogs]
         /\ NoMessage \notin 1 .. made
<1>1. NoMessage \notin 1 .. made BY LoggerAssumption
<1> QED BY <1>1 DEF Types, TypeOK, Texts

\* The logged texts of messages.
LEMMA TextsOf ==
  ASSUME Types
  PROVE  /\ Mapped(line, localQueue) \in Seq(Texts) /\ Mapped(line, logMessageQueue) \in Seq(Texts)
<1>1. \A q \in Seq(1 .. made) : Mapped(line, q) \in Seq(Texts) BY TypeFacts, MappedType
<1> QED BY <1>1, TypeFacts

LEMMA TextsJoin ==
  \A a, b \in Seq(1 .. made) : Mapped(line, a \o b) = Mapped(line, a) \o Mapped(line, b)
<1> DEFINE f == line
           D == 1 .. made
<1> HIDE DEF f, D
<1>1. \A a, b \in Seq(D) : Mapped(f, a \o b) = Mapped(f, a) \o Mapped(f, b) BY MappedJoin
<1> QED BY <1>1 DEF f, D

LEMMA JoinedTexts ==
  /\ \A x, y \in Seq(Texts) : x \o y \in Seq(Texts)
  /\ \A x, y, z \in Seq(Texts) : (x \o y) \o z = x \o (y \o z)
  /\ \A x \in Seq(Texts) : x \o <<>> = x /\ <<>> \o x = x
  /\ <<>> \in Seq(Texts)
<1>1. \A x, y \in Seq(Texts) : x \o y \in Seq(Texts) BY ConcatProperties
<1>2. \A x, y, z \in Seq(Texts) : (x \o y) \o z = x \o (y \o z)
  <2> TAKE x, y, z \in Seq(Texts)
  <2> QED BY ConcatAssociative
<1>3. \A x \in Seq(Texts) : x \o <<>> = x /\ <<>> \o x = x BY ConcatEmptySeq
<1> QED BY <1>1, <1>2, <1>3

LEMMA WiderSeq ==
  ASSUME NEW S, NEW T, S \subseteq T, NEW q \in Seq(S) PROVE q \in Seq(T)
<1>1. Len(q) \in Nat /\ \A i \in 1 .. Len(q) : q[i] \in T BY ElementOfSeq, LenProperties
<1>2. q = [i \in 1 .. Len(q) |-> q[i]] BY LenProperties
<1> QED BY <1>1, <1>2

----------------------------------------------------------------------------
(* The steps. *)

\* Steps that move no message, and neither crash nor destroy.
LEMMA StillStep ==
  ASSUME IInv,
         UNCHANGED <<poolVars, logMessageQueue, localQueue, msg, wmsg, requested, file>>,
         Crashed' = Crashed, mpc' = "gone" <=> mpc = "gone", Types'
  PROVE  IInv'
<1> USE DEF poolVars
<1>1. OnePlace' BY DEF IInv, OnePlace
<1>2. NoneLost' BY DEF IInv, NoneLost
<1>3. InOrder' BY DEF IInv, InOrder, Mapped
<1> QED BY <1>1, <1>2, <1>3 DEF IInv

LEMMA ThreadStill == ASSUME IInv, While \/ Wait \/ ResetEvent \/ AnyMore PROVE IInv'
<1>1. /\ UNCHANGED <<poolVars, logMessageQueue, localQueue, msg, wmsg, requested, file>>
      /\ UNCHANGED <<wpc, logs, mpc, runFlag>>
      /\ lpc \notin {"free", "crashed", "ended"} /\ lpc' \notin {"free", "crashed"}
      /\ lpc' \in {"while", "wait", "move", "reset", "write", "free", "ended", "crashed"}
      /\ loggingEvent' \in BOOLEAN
  BY TypeFacts DEF IInv, While, Wait, ResetEvent, AnyMore, writerVars
<1>2. Types' BY <1>1, TypeFacts DEF IInv, Types, TypeOK, poolVars
<1>3. Crashed' = Crashed BY <1>1 DEF Crashed
<1> QED BY <1>1, <1>2, <1>3, StillStep

LEMMA WriterStill ==
  ASSUME IInv, NEW w \in Writers, WriteReq(w) \/ Signal(w) PROVE IInv'
<1>1. /\ UNCHANGED <<poolVars, logMessageQueue, localQueue, msg, wmsg, requested, file>>
      /\ UNCHANGED <<lpc, mpc, runFlag>> /\ wpc[w] # "push"
      /\ loggingEvent' \in BOOLEAN
      /\ \/ /\ logs' = [logs EXCEPT ![w] = @ + 1] /\ wpc' = [wpc EXCEPT ![w] = "alloc"]
            /\ logs[w] < MaxLogs
         \/ logs' = logs /\ wpc' = [wpc EXCEPT ![w] = "out"]
  BY TypeFacts DEF IInv, WriteReq, Signal, Goto, threadVars
<1>t. Types BY DEF IInv
<1>2. logs' \in [Writers -> 0 .. MaxLogs]
      /\ \A v \in Writers : wpc'[v] = "alloc" => logs'[v] > 0
  <2>1. logs \in [Writers -> 0 .. MaxLogs] /\ MaxLogs \in Nat
        /\ wpc \in [Writers -> {"out", "alloc", "push", "signal"}]
        /\ \A v \in Writers : wpc[v] = "alloc" => logs[v] > 0
    BY <1>t, TypeFacts, LoggerAssumption DEF Types
  <2>2. logs[w] \in 0 .. MaxLogs BY <2>1
  <2> QED BY <1>1, <2>1, <2>2
<1>3. wpc' \in [Writers -> {"out", "alloc", "push", "signal"}]
      /\ \A v \in Writers : wpc'[v] = "push" <=> wpc[v] = "push"
  BY <1>1, <1>t, TypeFacts
<1>4. Types' BY <1>1, <1>2, <1>3, <1>t, TypeFacts DEF Types, TypeOK, poolVars
<1>5. Crashed' = Crashed BY <1>1 DEF Crashed
<1> QED BY <1>1, <1>4, <1>5, StillStep

LEMMA DestructorStill == ASSUME IInv, ClearFlag \/ WakeThread PROVE IInv'
<1>1. /\ UNCHANGED <<poolVars, logMessageQueue, localQueue, msg, wmsg, requested, file>>
      /\ UNCHANGED <<lpc, wpc, logs>> /\ mpc # "gone" /\ mpc' # "gone"
      /\ mpc' \in {"alive", "wake", "join", "gone"}
      /\ loggingEvent' \in BOOLEAN /\ runFlag' \in BOOLEAN
  BY TypeFacts DEF IInv, ClearFlag, WakeThread, threadVars, writerVars
<1>2. Types' BY <1>1, TypeFacts DEF IInv, Types, TypeOK, poolVars
<1>3. Crashed' = Crashed BY <1>1 DEF Crashed
<1> QED BY <1>1, <1>2, <1>3, StillStep

LEMMA MoveStep == ASSUME IInv, Move PROVE IInv'
<1>c. Types /\ OnePlace /\ NoneLost /\ InOrder BY DEF IInv
<1>1. /\ lpc = "move" /\ localQueue' = localQueue \o logMessageQueue /\ logMessageQueue' = <<>>
      /\ lpc' = "reset"
      /\ UNCHANGED <<made, line, logMessagePool, loggingEvent, runFlag, msg, wpc, wmsg, logs, mpc,
                     requested, file>>
  BY DEF Move, poolVars, writerVars
<1> DEFINE l == localQueue
           q == logMessageQueue
<1>2. l \in Seq(1 .. made) /\ q \in Seq(1 .. made) BY <1>c, TypeFacts
<1>o. /\ IsInjective(l) /\ IsInjective(q) /\ Range(q) \intersect Range(l) = {}
      /\ localQueue' = l \o q
  BY <1>c, <1>1 DEF OnePlace
<1> HIDE DEF l, q
<1>3. /\ l \o q \in Seq(1 .. made) /\ Range(l \o q) = Range(l) \union Range(q)
      /\ IsInjective(l \o q)
  <2>1. Range(l) \intersect Range(q) = {} BY <1>o
  <2>2. Range(l \o q) = Range(l) \union Range(q) /\ IsInjective(l \o q)
    BY <1>2, <1>o, <2>1, JoinedSets
  <2> QED BY <1>2, <2>2, ConcatProperties
<1>4. /\ localQueue' \in Seq(1 .. made) /\ IsInjective(localQueue')
      /\ Range(localQueue') = Range(localQueue) \union Range(logMessageQueue)
  BY <1>3, <1>o DEF l, q
<1>5. Types' BY <1>1, <1>4, <1>c, TypeFacts DEF Types, TypeOK
<1>6. Range(logMessageQueue') = {} /\ IsInjective(logMessageQueue') BY <1>1, EmptyRange
<1>7. OnePlace' BY <1>1, <1>4, <1>6, <1>c DEF OnePlace
<1>8. NoneLost' BY <1>1, <1>4, <1>6, <1>c DEF NoneLost
<1>9. InOrder'
  <2>1. ~Crashed /\ ~Crashed' /\ mpc # "gone" BY <1>1, <1>c DEF Crashed, Types
  <2>2. requested = (file \o Mapped(line, l)) \o Mapped(line, q)
    BY <1>c, <2>1 DEF InOrder, l, q
  <2>3. Mapped(line, l \o q) = Mapped(line, l) \o Mapped(line, q)
    BY <1>2, <1>c, TextsJoin
  <2>4. Mapped(line, l) \in Seq(Texts) /\ Mapped(line, q) \in Seq(Texts) /\ file \in Seq(Texts)
    BY <1>c, TextsOf, TypeFacts DEF l, q
  <2>5. requested = (file \o Mapped(line, l \o q)) \o <<>>
    <3>1. (file \o Mapped(line, l)) \o Mapped(line, q) = file \o Mapped(line, l \o q)
      BY <2>3, <2>4, JoinedTexts
    <3>2. requested \in Seq(Texts) BY <1>c, TypeFacts
    <3>3. requested \o <<>> = requested BY <3>2, JoinedTexts
    <3> QED BY <2>2, <3>1, <3>3
  <2>6. Mapped(line, <<>>) = <<>> BY DEF Mapped
  <2> QED BY <1>1, <1>o, <2>1, <2>5, <2>6 DEF InOrder
<1> QED BY <1>5, <1>7, <1>8, <1>9 DEF IInv

LEMMA WriteStep == ASSUME IInv, WriteLog PROVE IInv'
<1>c. Types /\ OnePlace /\ NoneLost /\ InOrder BY DEF IInv
<1> DEFINE h == Head(localQueue)
           t == Tail(localQueue)
<1>1. /\ lpc = "write" /\ localQueue # <<>> /\ msg' = h /\ localQueue' = t
      /\ \/ file' = Append(file, line[h]) /\ lpc' = "free"
         \/ file' = file /\ lpc' = "crashed"
      /\ UNCHANGED <<made, line, logMessagePool, logMessageQueue, loggingEvent, runFlag, wpc, wmsg,
                     logs, mpc, requested>>
  BY DEF WriteLog, poolVars, writerVars
<1>2. /\ localQueue \in Seq(1 .. made) /\ h \in 1 .. made /\ t \in Seq(1 .. made)
      /\ localQueue = <<h>> \o t /\ Range(localQueue) = {h} \union Range(t)
      /\ IsInjective(localQueue) <=> IsInjective(t) /\ h \notin Range(t)
  BY <1>1, <1>c, TypeFacts, HeadAndTail
<1> HIDE DEF h, t
<1>3. msg = NoMessage /\ mpc # "gone" BY <1>1, <1>c DEF Types
<1>4. line[h] \in Texts BY <1>2, <1>c, TypeFacts
<1>5. file' \in Seq(Texts)
  <2>1. file \in Seq(Texts) BY <1>c, TypeFacts
  <2>2. Append(file, line[h]) \in Seq(Texts) BY <1>4, <2>1
  <2> QED BY <1>1, <2>1, <2>2
<1>6. Types'
  <2>1. h # NoMessage BY <1>2, <1>c, TypeFacts
  <2> QED BY <1>1, <1>2, <1>3, <1>5, <2>1, <1>c, TypeFacts DEF Types, TypeOK
<1>7. OnePlace' BY <1>1, <1>2, <1>c DEF OnePlace
<1>8. NoneLost'
  <2>1. NoMessage \notin 1 .. made BY <1>c, TypeFacts
  <2> QED BY <1>1, <1>2, <1>3, <1>c, <2>1 DEF NoneLost
<1>9. InOrder'
  <2> DEFINE q  == Mapped(line, logMessageQueue)
             r  == Mapped(line, t)
             hd == <<line[h]>>
  <2>1. requested = (file \o Mapped(line, localQueue)) \o q
    BY <1>1, <1>3, <1>c DEF InOrder, Crashed
  <2>2. Mapped(line, localQueue) = hd \o r
    <3>1. <<h>> \in Seq(1 .. made) /\ Mapped(line, <<h>>) = hd BY <1>2 DEF Mapped
    <3> DEFINE one == <<h>>
    <3>2. one \in Seq(1 .. made) BY <3>1
    <3> HIDE DEF one
    <3>3. Mapped(line, one \o t) = Mapped(line, one) \o r BY <1>2, <1>c, <3>2, TextsJoin
    <3> QED BY <1>2, <3>1, <3>3 DEF one
  <2>3. q \in Seq(Texts) /\ r \in Seq(Texts) /\ hd \in Seq(Texts) /\ file \in Seq(Texts)
    <3>1. r \in Seq(Texts) BY <1>2, <1>c, TypeFacts, MappedType
    <3> QED BY <1>4, <1>c, <3>1, TextsOf, TypeFacts
  <2>4. Append(file, line[h]) = file \o hd BY <1>4, <2>3, AppendIsConcat
  <2>5. q = Mapped(line, logMessageQueue) /\ r = Mapped(line, t) OBVIOUS
  <2> HIDE DEF q, r, hd
  <2>6. requested = ((file \o hd) \o r) \o q
    <3>1. file \o (hd \o r) = (file \o hd) \o r BY <2>3, JoinedTexts, SMTT(60)
    <3> QED BY <2>1, <2>2, <3>1
  <2>7. CASE file' = Append(file, line[h]) /\ lpc' = "free"
    <3>1. ~Crashed' /\ mpc' # "gone" BY <1>1, <1>3, <2>7 DEF Crashed
    <3>2. requested' = (file' \o Mapped(line', localQueue')) \o Mapped(line', logMessageQueue')
      BY <1>1, <2>4, <2>5, <2>6, <2>7
    <3> QED BY <3>1, <3>2 DEF InOrder
  <2>8. CASE file' = file /\ lpc' = "crashed"
    <3>1. Crashed' BY <2>8 DEF Crashed
    <3>2. requested = file \o ((hd \o r) \o q) /\ (hd \o r) \o q \in Seq(Texts)
      <4>1. hd \o r \in Seq(Texts) BY <2>3, JoinedTexts
      <4> DEFINE hr == hd \o r
      <4>2. hr \in Seq(Texts) /\ requested = (file \o hr) \o q BY <2>1, <2>2, <4>1
      <4> HIDE DEF hr
      <4>3. (file \o hr) \o q = file \o (hr \o q) /\ hr \o q \in Seq(Texts)
        BY <2>3, <4>2, JoinedTexts, SMTT(60)
      <4> QED BY <4>2, <4>3 DEF hr
    <3> QED BY <1>1, <2>8, <3>1, <3>2 DEF InOrder
  <2> QED BY <1>1, <2>7, <2>8
<1> QED BY <1>6, <1>7, <1>8, <1>9 DEF IInv

LEMMA FreeStep == ASSUME IInv, PoolFree PROVE IInv'
<1>c. Types /\ OnePlace /\ NoneLost /\ InOrder BY DEF IInv
<1>1. /\ lpc = "free" /\ logMessagePool' = Append(logMessagePool, msg) /\ msg' = NoMessage
      /\ lpc' = "write"
      /\ UNCHANGED <<made, line, logMessageQueue, loggingEvent, runFlag, localQueue, wpc, wmsg, logs,
                     mpc, requested, file>>
  BY DEF PoolFree, writerVars
<1>2. msg # NoMessage /\ mpc # "gone" BY <1>1, <1>c DEF Types
<1>3. msg \in 1 .. made /\ logMessagePool \in Seq(1 .. made)
      /\ logMessageQueue \in Seq(1 .. made) /\ localQueue \in Seq(1 .. made)
      /\ NoMessage \notin 1 .. made
  BY <1>2, <1>c, TypeFacts
<1>4. /\ logMessagePool' \in Seq(1 .. made)
      /\ Range(logMessagePool') = Range(logMessagePool) \union {msg} /\ IsInjective(logMessagePool')
  <2>1. IsInjective(logMessagePool) /\ msg \notin Range(logMessagePool) BY <1>c DEF OnePlace
  <2>2. /\ Range(Append(logMessagePool, msg)) = Range(logMessagePool) \union {msg}
        /\ IsInjective(Append(logMessagePool, msg))
    BY <1>3, <2>1, AppendedSets
  <2> QED BY <1>1, <1>3, <2>2
<1>5. Types' BY <1>1, <1>4, <1>c, TypeFacts DEF Types, TypeOK
<1>6. NoMessage \notin Range(logMessagePool) \union Range(logMessageQueue) \union Range(localQueue)
  BY <1>3, RangeOfSeq
<1>7. OnePlace' BY <1>1, <1>2, <1>4, <1>6, <1>c DEF OnePlace
<1>8. NoneLost' BY <1>1, <1>4, <1>c DEF NoneLost
<1>9. InOrder' BY <1>1, <1>c DEF InOrder, Crashed
<1> QED BY <1>5, <1>7, <1>8, <1>9 DEF IInv

LEMMA PushStep == ASSUME IInv, NEW w \in Writers, Push(w) PROVE IInv'
<1>c. Types /\ OnePlace /\ NoneLost /\ InOrder BY DEF IInv
<1> DEFINE x == wmsg[w]
<1>1. /\ wpc[w] = "push" /\ logMessageQueue' = Append(logMessageQueue, x)
      /\ requested' = Append(requested, line[x]) /\ wmsg' = [wmsg EXCEPT ![w] = NoMessage]
      /\ wpc' = [wpc EXCEPT ![w] = "signal"] /\ ~Crashed /\ mpc # "gone"
      /\ UNCHANGED <<made, line, logMessagePool, loggingEvent, runFlag, lpc, localQueue, msg, logs,
                     mpc, file>>
  BY DEF Push, Goto, poolVars, threadVars
<1>2. /\ x \in 1 .. made /\ x # NoMessage /\ line[x] \in Texts
      /\ logMessageQueue \in Seq(1 .. made) /\ NoMessage \notin 1 .. made
  BY <1>1, <1>c, TypeFacts DEF Types
<1>3. /\ wmsg'[w] = NoMessage /\ \A v \in Writers : v # w => wmsg'[v] = wmsg[v]
      /\ wmsg' \in [Writers -> 1 .. made \union {NoMessage}]
      /\ wpc' \in [Writers -> {"out", "alloc", "push", "signal"}]
      /\ wpc'[w] = "signal" /\ \A v \in Writers : v # w => wpc'[v] = wpc[v]
  BY <1>1, <1>c, TypeFacts
<1>4. /\ logMessageQueue' \in Seq(1 .. made)
      /\ Range(logMessageQueue') = Range(logMessageQueue) \union {x} /\ IsInjective(logMessageQueue')
  <2>1. IsInjective(logMessageQueue) /\ x \notin Range(logMessageQueue) BY <1>2, <1>c DEF OnePlace
  <2> DEFINE q == logMessageQueue
             S == 1 .. made
  <2>2. q \in Seq(S) /\ x \in S /\ IsInjective(q) /\ x \notin Range(q) BY <1>2, <2>1
  <2>3. logMessageQueue' = Append(q, x) BY <1>1
  <2> HIDE DEF x, q, S
  <2>4. Range(Append(q, x)) = Range(q) \union {x} /\ IsInjective(Append(q, x))
    BY <2>2, AppendedSets
  <2>5. Append(q, x) \in Seq(S) BY <2>2
  <2> QED BY <2>3, <2>4, <2>5 DEF q, S
<1>5. requested' \in Seq(Texts) BY <1>1, <1>2, <1>c, TypeFacts
<1>6. Types'
  <2>1. \A v \in Writers : /\ wpc'[v] = "push" <=> wmsg'[v] # NoMessage
                           /\ wpc'[v] = "alloc" => logs'[v] > 0
    BY <1>1, <1>3, <1>c DEF Types
  <2> QED BY <1>1, <1>3, <1>4, <1>5, <2>1, <1>c, TypeFacts DEF Types, TypeOK
<1>7. OnePlace' BY <1>1, <1>2, <1>3, <1>4, <1>c DEF OnePlace
<1>8. NoneLost' BY <1>1, <1>3, <1>4, <1>c DEF NoneLost
<1>9. InOrder'
  <2> DEFINE l == Mapped(line, localQueue)
             q == Mapped(line, logMessageQueue)
             e == line[x]
  <2>1. requested = (file \o l) \o q BY <1>1, <1>c DEF InOrder
  <2>2. l \in Seq(Texts) /\ q \in Seq(Texts) /\ file \in Seq(Texts) /\ e \in Texts
        /\ <<e>> \in Seq(Texts)
    BY <1>2, <1>c, TextsOf, TypeFacts
  <2>3. Mapped(line, logMessageQueue') = q \o <<e>>
    <3> DEFINE one == <<x>>
    <3>1. one \in Seq(1 .. made) /\ Mapped(line, one) = <<e>> BY <1>2 DEF Mapped
    <3>2. Append(logMessageQueue, x) = logMessageQueue \o one BY <1>2, AppendIsConcat
    <3> HIDE DEF one
    <3>3. Mapped(line, logMessageQueue \o one) = q \o Mapped(line, one)
      BY <1>2, <1>c, <3>1, TextsJoin
    <3> QED BY <1>1, <3>1, <3>2, <3>3
  <2>4. requested' = requested \o <<e>>
    <3>1. requested \in Seq(Texts) BY <1>c, TypeFacts
    <3> QED BY <1>1, <2>2, <3>1, AppendIsConcat
  <2>5. l = Mapped(line, localQueue) OBVIOUS
  <2> DEFINE one == <<e>>
  <2> HIDE DEF l, q, e
  <2>6. one \in Seq(Texts) BY <2>2
  <2> HIDE DEF one
  <2>7. ((file \o l) \o q) \o one = (file \o l) \o (q \o one)
    <3> DEFINE fl == file \o l
    <3>1. fl \in Seq(Texts) BY <2>2, JoinedTexts
    <3> HIDE DEF fl
    <3>2. (fl \o q) \o one = fl \o (q \o one) BY <2>2, <2>6, <3>1, JoinedTexts, SMTT(60)
    <3> QED BY <3>2 DEF fl
  <2>8. requested' = (file' \o Mapped(line', localQueue')) \o Mapped(line', logMessageQueue')
    BY <1>1, <2>1, <2>3, <2>4, <2>5, <2>7 DEF one
  <2>9. ~Crashed' /\ mpc' # "gone" BY <1>1 DEF Crashed
  <2> QED BY <2>8, <2>9 DEF InOrder
<1> QED BY <1>6, <1>7, <1>8, <1>9 DEF IInv

\* The pool when a message is to be taken: all that is in it is in no other place.
LEMMA StockedIs ==
  ASSUME IInv, NEW n \in Nat, n = IF logMessagePool = <<>> THEN made + Grow ELSE made
  PROVE  /\ made <= n /\ Stocked \in Seq(1 .. n) /\ Stocked # <<>> /\ IsInjective(Stocked)
         /\ Range(Stocked) = Range(logMessagePool) \union {m \in 1 .. n : m > made}
<1>t. made \in Nat /\ logMessagePool \in Seq(1 .. made) /\ Grow \in Nat \ {0}
  BY TypeFacts, LoggerAssumption DEF IInv
<1>1. CASE logMessagePool = <<>>
  <2> DEFINE new == [i \in 1 .. Grow |-> made + i]
  <2>1. n = made + Grow /\ Stocked = new BY <1>1 DEF Stocked
  <2>2. new \in [1 .. Grow -> 1 .. n] BY <1>t, <2>1
  <2>3. new \in Seq(1 .. n) /\ Len(new) = Grow /\ DOMAIN new = 1 .. Grow BY <1>t, <2>2
  <2>4. new # <<>> BY <1>t, <2>3
  <2>5. IsInjective(new) BY <1>t DEF IsInjective
  <2>6. Range(new) = {m \in 1 .. n : m > made}
    <3>1. ASSUME NEW m \in 1 .. n, m > made PROVE m \in Range(new)
      <4>1. m - made \in 1 .. Grow /\ made + (m - made) = m BY <1>t, <2>1, <3>1
      <4>2. new[m - made] = m BY <4>1
      <4> QED BY <4>1, <4>2 DEF Range
    <3>2. ASSUME NEW m \in Range(new) PROVE m \in 1 .. n /\ m > made
      <4>1. PICK i \in 1 .. Grow : m = made + i BY <3>2 DEF Range
      <4> QED BY <1>t, <2>1, <4>1
    <3> QED BY <3>1, <3>2
  <2> QED BY <1>1, <1>t, <2>1, <2>3, <2>4, <2>5, <2>6, EmptyRange
<1>2. CASE logMessagePool # <<>>
  <2>1. n = made /\ Stocked = logMessagePool BY <1>2 DEF Stocked
  <2>2. {m \in 1 .. n : m > made} = {} BY <1>t, <2>1
  <2> QED BY <1>2, <1>t, <2>1, <2>2 DEF IInv, OnePlace
<1> QED BY <1>1, <1>2

LEMMA AllocStep == ASSUME IInv, NEW w \in Writers, PoolAlloc(w) PROVE IInv'
<1>c. Types /\ OnePlace /\ NoneLost /\ InOrder BY DEF IInv
<1> DEFINE x == Last(Stocked)
           f == Front(Stocked)
           n == IF logMessagePool = <<>> THEN made + Grow ELSE made
<1>1. /\ wpc[w] = "alloc" /\ made' = n /\ wmsg' = [wmsg EXCEPT ![w] = x] /\ logMessagePool' = f
      /\ line' = [m \in 1 .. made' |->
             IF m = x THEN <<w, logs[w]>> ELSE IF m <= made THEN line[m] ELSE <<>>]
      /\ wpc' = [wpc EXCEPT ![w] = "push"] /\ ~Crashed /\ mpc # "gone"
      /\ UNCHANGED <<logMessageQueue, loggingEvent, runFlag, lpc, localQueue, msg, logs, mpc,
                     requested, file>>
  BY DEF PoolAlloc, Goto, threadVars
<1>2. n \in Nat /\ made \in Nat BY <1>c, TypeFacts, LoggerAssumption
<1>3. /\ made <= n /\ Stocked \in Seq(1 .. n) /\ Stocked # <<>> /\ IsInjective(Stocked)
      /\ Range(Stocked) = Range(logMessagePool) \union {m \in 1 .. n : m > made}
  BY <1>2, StockedIs
<1> HIDE DEF n
<1>4. /\ f \in Seq(1 .. n) /\ x \in 1 .. n /\ IsInjective(f) /\ x \notin Range(f)
      /\ Range(Stocked) = Range(f) \union {x}
  BY <1>3, FrontAndLast
<1> HIDE DEF x, f
<1>5. 1 .. made \subseteq 1 .. n BY <1>2, <1>3
<1>6. /\ logMessageQueue \in Seq(1 .. made) /\ localQueue \in Seq(1 .. made)
      /\ logMessagePool \in Seq(1 .. made) /\ NoMessage \notin 1 .. n
      /\ msg \in 1 .. made \union {NoMessage} /\ wmsg \in [Writers -> 1 .. made \union {NoMessage}]
      /\ logs \in [Writers -> 0 .. MaxLogs] /\ line \in [1 .. made -> Texts]
      /\ wpc \in [Writers -> {"out", "alloc", "push", "signal"}]
  BY <1>c, TypeFacts, LoggerAssumption
<1>7. logMessageQueue \in Seq(1 .. n) /\ localQueue \in Seq(1 .. n) BY <1>5, <1>6, WiderSeq
<1>8. line' \in [1 .. n -> Texts]
  <2>1. logs[w] \in 1 .. MaxLogs BY <1>1, <1>6, <1>c, LoggerAssumption DEF Types
  <2>2. <<w, logs[w]>> \in Texts /\ <<>> \in Texts BY <2>1 DEF Texts
  <2>3. ASSUME NEW m \in 1 .. n
        PROVE  (IF m = x THEN <<w, logs[w]>> ELSE IF m <= made THEN line[m] ELSE <<>>) \in Texts
    BY <1>2, <1>6, <2>2
  <2> QED BY <1>1, <2>3
<1>9. /\ wmsg'[w] = x /\ \A v \in Writers : v # w => wmsg'[v] = wmsg[v]
      /\ wmsg' \in [Writers -> 1 .. n \union {NoMessage}]
      /\ wpc' \in [Writers -> {"out", "alloc", "push", "signal"}]
      /\ wpc'[w] = "push" /\ \A v \in Writers : v # w => wpc'[v] = wpc[v]
      /\ msg \in 1 .. n \union {NoMessage}
  BY <1>1, <1>4, <1>5, <1>6
<1>10. Types'
  <2>1. \A v \in Writers : /\ wpc'[v] = "push" <=> wmsg'[v] # NoMessage
                           /\ wpc'[v] = "alloc" => logs'[v] > 0
    BY <1>1, <1>4, <1>6, <1>9, <1>c DEF Types
  <2> QED BY <1>1, <1>2, <1>4, <1>7, <1>8, <1>9, <2>1, <1>c, TypeFacts
          DEF Types, TypeOK, Texts
<1>11. \A m \in Range(Stocked) :
          /\ m \notin Range(logMessageQueue) /\ m \notin Range(localQueue)
          /\ m # msg /\ \A v \in Writers : m # wmsg[v]
  <2> TAKE m \in Range(Stocked)
  <2>1. CASE m \in Range(logMessagePool)
    <3>1. m # NoMessage
      <4>1. Range(logMessagePool) \subseteq 1 .. made BY <1>6, RangeOfSeq
      <4> QED BY <1>5, <1>6, <2>1, <4>1
    <3>2. \A v \in Writers : m # wmsg[v] BY <1>c, <2>1, <3>1 DEF OnePlace
    <3> QED BY <1>c, <2>1, <3>2 DEF OnePlace
  <2>2. CASE m \in 1 .. n /\ m > made
    <3>1. m \notin 1 .. made /\ m # NoMessage BY <1>2, <1>6, <2>2
    <3>2. Range(logMessageQueue) \subseteq 1 .. made /\ Range(localQueue) \subseteq 1 .. made
      BY <1>6, RangeOfSeq
    <3> QED BY <1>6, <3>1, <3>2
  <2> QED BY <1>3, <2>1, <2>2
<1>12. OnePlace'
  <2>1. wmsg[w] = NoMessage BY <1>1, <1>c DEF Types
  <2>2. Range(f) \subseteq Range(Stocked) /\ x \in Range(Stocked) BY <1>4
  <2>3. ASSUME NEW v \in Writers, wmsg'[v] # NoMessage
        PROVE  /\ wmsg'[v] \notin Range(f) \union Range(logMessageQueue) \union Range(localQueue)
               /\ wmsg'[v] # msg
               /\ \A u \in Writers : u # v => wmsg'[u] # wmsg'[v]
    <3>1. CASE v = w BY <1>4, <1>9, <1>11, <2>2, <3>1
    <3>2. CASE v # w BY <1>9, <1>11, <1>c, <2>2, <2>3, <3>2 DEF OnePlace
    <3> QED BY <3>1, <3>2
  <2>4. msg \notin Range(f) \union Range(logMessageQueue) \union Range(localQueue)
    BY <1>11, <1>c, <2>2 DEF OnePlace
  <2>5. /\ Range(f) \intersect Range(logMessageQueue) = {}
        /\ Range(f) \intersect Range(localQueue) = {}
    BY <1>11, <2>2
  <2> QED BY <1>1, <1>4, <1>c, <2>3, <2>4, <2>5 DEF OnePlace
<1>13. NoneLost'
  <2> SUFFICES ASSUME NEW m \in 1 .. n
               PROVE  \/ m \in Range(f) \union Range(logMessageQueue) \union Range(localQueue)
                      \/ m = msg
                      \/ \E v \in Writers : m = wmsg'[v]
    BY <1>1 DEF NoneLost
  <2>1. CASE m \in Range(Stocked) BY <1>4, <1>9, <2>1
  <2>2. CASE m \notin Range(Stocked)
    <3>1. m \in 1 .. made BY <1>2, <1>3, <2>2
    <3>2. wmsg[w] = NoMessage /\ m # NoMessage BY <1>1, <1>6, <1>c DEF Types
    <3> QED BY <1>1, <1>3, <1>9, <1>c, <2>2, <3>1, <3>2 DEF NoneLost
  <2> QED BY <2>1, <2>2
<1>14. InOrder'
  <2>1. \A m \in 1 .. made : m \notin Range(Stocked) => line'[m] = line[m]
    BY <1>1, <1>2, <1>4, <1>5
  <2>2. Range(logMessageQueue) \subseteq 1 .. made /\ Range(localQueue) \subseteq 1 .. made
    BY <1>6, RangeOfSeq
  <2>3. /\ \A m \in Range(logMessageQueue) : line'[m] = line[m]
        /\ \A m \in Range(localQueue) : line'[m] = line[m]
    BY <1>11, <2>1, <2>2
  <2>4. Mapped(line', localQueue) = Mapped(line, localQueue) BY <2>3, MappedSame
  <2>5. Mapped(line', logMessageQueue) = Mapped(line, logMessageQueue) BY <2>3, MappedSame
  <2>6. requested = (file \o Mapped(line, localQueue)) \o Mapped(line, logMessageQueue)
    BY <1>1, <1>c DEF InOrder
  <2>7. ~Crashed' /\ mpc' # "gone" BY <1>1 DEF Crashed
  <2> QED BY <1>1, <2>4, <2>5, <2>6, <2>7 DEF InOrder
<1> QED BY <1>10, <1>12, <1>13, <1>14 DEF IInv

LEMMA DeleteStep == ASSUME IInv, JoinAndDelete PROVE IInv'
<1>c. Types /\ OnePlace /\ NoneLost /\ InOrder BY DEF IInv
<1>1. /\ mpc = "join" /\ lpc = "ended" /\ logMessagePool' = <<>> /\ logMessageQueue' = <<>>
      /\ mpc' = "gone"
      /\ UNCHANGED <<made, line, loggingEvent, runFlag, lpc, localQueue, msg, wpc, wmsg, logs,
                     requested, file>>
  BY DEF JoinAndDelete, threadVars, writerVars
<1>2. Types' BY <1>1, <1>c, TypeFacts DEF Types, TypeOK
<1>3. OnePlace' BY <1>1, <1>c, EmptyRange DEF OnePlace
<1>4. NoneLost' BY <1>1 DEF NoneLost
<1>5. InOrder'
  <2> DEFINE l == Mapped(line, localQueue)
             q == Mapped(line, logMessageQueue)
  <2>1. requested = (file \o l) \o q BY <1>1, <1>c DEF InOrder, Crashed
  <2>2. l \in Seq(Texts) /\ q \in Seq(Texts) /\ file \in Seq(Texts) BY <1>c, TextsOf, TypeFacts
  <2> HIDE DEF l, q
  <2>3. (file \o l) \o q = file \o (l \o q) /\ l \o q \in Seq(Texts) BY <2>2, JoinedTexts
  <2> QED BY <1>1, <2>1, <2>3 DEF InOrder
<1> QED BY <1>2, <1>3, <1>4, <1>5 DEF IInv

----------------------------------------------------------------------------
(* The invariant. *)

LEMMA InitInv == ASSUME Init PROVE IInv
<1>g. Grow \in Nat \ {0} /\ NoMessage \notin 1 .. Grow /\ NoMessage \notin Nat /\ MaxLogs \in Nat
  BY LoggerAssumption
<1> DEFINE pool == [i \in 1 .. Grow |-> i]
<1>1. pool \in [1 .. Grow -> 1 .. Grow] BY <1>g
<1>2. pool \in Seq(1 .. Grow) /\ DOMAIN pool = 1 .. Grow BY <1>g, <1>1
<1>3. IsInjective(pool) /\ Range(pool) = 1 .. Grow BY DEF IsInjective, Range
<1>4. <<>> \in Seq(Texts) /\ <<>> \in Seq(1 .. Grow) /\ <<>> \in Texts BY DEF Texts
<1>5. logMessagePool = pool /\ made = Grow BY DEF Init
<1> HIDE DEF pool
<1>6. TypeOK BY <1>2, <1>4, <1>5, <1>g DEF Init, TypeOK, Texts
<1>7. Types BY <1>4, <1>6, <1>g DEF Init, Types
<1>8. OnePlace
  <2>1. NoMessage \notin Range(pool) BY <1>3, <1>g
  <2> QED BY <1>3, <1>5, <2>1, EmptyRange DEF Init, OnePlace
<1>9. NoneLost BY <1>3, <1>5 DEF Init, NoneLost
<1>10. InOrder
  <2>1. <<>> \o <<>> = <<>> BY JoinedTexts
  <2>2. Mapped(line, <<>>) = <<>> BY DEF Mapped
  <2> QED BY <2>1, <2>2 DEF Init, InOrder, Crashed
<1> QED BY <1>7, <1>8, <1>9, <1>10 DEF IInv

LEMMA StutterInv == ASSUME IInv, UNCHANGED vars PROVE IInv'
<1>1. UNCHANGED <<poolVars, logMessageQueue, localQueue, msg, wmsg, requested, file>>
      /\ UNCHANGED <<lpc, mpc, wpc, logs, loggingEvent, runFlag>>
  BY DEF vars, threadVars, writerVars
<1>2. Types' BY <1>1, TypeFacts DEF IInv, Types, TypeOK, poolVars
<1>3. Crashed' = Crashed BY <1>1 DEF Crashed
<1> QED BY <1>1, <1>2, <1>3, StillStep

LEMMA StepInv == ASSUME IInv, Next PROVE IInv'
<1>1. CASE LoggingThread
  BY <1>1, ThreadStill, MoveStep, WriteStep, FreeStep DEF LoggingThread
<1>2. ASSUME NEW w \in Writers, WriteReq(w) \/ InWriteReq(w) PROVE IInv'
  BY <1>2, WriterStill, AllocStep, PushStep DEF InWriteReq
<1>3. CASE ClearFlag \/ Destructor BY <1>3, DestructorStill, DeleteStep DEF Destructor
<1> QED BY <1>1, <1>2, <1>3 DEF Next

\* The invariant holds: each message is in one place, and the lines that are
\* written, moved and queued are those that were requested.
THEOREM LoggerInvariant == Spec => []IInv
<1>1. Init => IInv BY InitInv
<1>2. IInv /\ [Next]_vars => IInv' BY StepInv, StutterInv
<1> QED BY <1>1, <1>2, PTL DEF Spec

\* A log message is with one writer, in the queue, with the logging thread or in
\* the pool, until the logger is destroyed.
THEOREM MessagesAreInOnePlace == Spec => []EveryMessageInOnePlace
<1>1. IInv => EveryMessageInOnePlace
  <2> SUFFICES ASSUME IInv PROVE EveryMessageInOnePlace OBVIOUS
  <2>c. Types /\ OnePlace /\ NoneLost BY DEF IInv
  <2> DEFINE a == logMessagePool
             b == logMessageQueue
             c == localQueue
             ab == a \o b
  <2>t. /\ a \in Seq(1 .. made) /\ b \in Seq(1 .. made) /\ c \in Seq(1 .. made)
        /\ msg \in 1 .. made \union {NoMessage} /\ wmsg \in [Writers -> 1 .. made \union {NoMessage}]
        /\ NoMessage \notin 1 .. made
    BY <2>c, TypeFacts
  <2>1. /\ IsInjective(a) /\ IsInjective(b) /\ IsInjective(c)
        /\ Range(a) \intersect Range(b) = {} /\ Range(a) \intersect Range(c) = {}
        /\ Range(b) \intersect Range(c) = {}
        /\ msg \notin Range(a) \union Range(b) \union Range(c)
        /\ \A w \in Writers : wmsg[w] # NoMessage =>
              wmsg[w] \notin Range(a) \union Range(b) \union Range(c)
    BY <2>c DEF OnePlace
  <2>2. Listed = ab \o c BY DEF Listed
  <2>3. mpc # "gone" => \A m \in 1 .. made :
           \/ m \in Range(a) \union Range(b) \union Range(c)
           \/ m = msg \/ \E w \in Writers : m = wmsg[w]
    BY <2>c DEF NoneLost
  <2> HIDE DEF a, b, c
  <2>4. ab \in Seq(1 .. made) /\ Range(ab) = Range(a) \union Range(b) /\ IsInjective(ab)
    <3>1. ab \in Seq(1 .. made) BY <2>t, ConcatProperties
    <3>2. Range(ab) = Range(a) \union Range(b) /\ IsInjective(ab) BY <2>t, <2>1, JoinedSets
    <3> QED BY <3>1, <3>2
  <2> HIDE DEF ab
  <2>5. Range(ab) \intersect Range(c) = {} BY <2>1, <2>4
  <2>6. Range(ab \o c) = Range(ab) \union Range(c) /\ IsInjective(ab \o c)
    BY <2>t, <2>1, <2>4, <2>5, JoinedSets
  <2>7. Range(Listed) = Range(a) \union Range(b) \union Range(c) /\ IsInjective(Listed)
    BY <2>2, <2>4, <2>6
  <2>8. \A m : m \in InHand <=> m # NoMessage /\ (m = msg \/ \E w \in Writers : m = wmsg[w])
    BY <2>t DEF InHand, Range
  <2>9. Range(Listed) \intersect InHand = {} BY <2>1, <2>7, <2>8
  <2>10. /\ \A v, w \in Writers : v # w /\ wmsg[v] # NoMessage => wmsg[v] # wmsg[w]
         /\ \A w \in Writers : msg # NoMessage => msg # wmsg[w]
    BY <2>c DEF OnePlace
  <2>11. mpc # "gone" => Range(Listed) \union InHand = 1 .. made
    <3>1. Range(a) \subseteq 1 .. made /\ Range(b) \subseteq 1 .. made /\ Range(c) \subseteq 1 .. made
      BY <2>t, RangeOfSeq
    <3>2. InHand \subseteq 1 .. made BY <2>t, <2>8
    <3> QED BY <2>t, <2>3, <2>7, <2>8, <3>1, <3>2
  <2>12. TypeOK BY <2>c DEF Types
  <2> QED BY <2>7, <2>9, <2>10, <2>11, <2>12 DEF EveryMessageInOnePlace
<1> QED BY <1>1, LoggerInvariant, PTL

\* The file has the requested lines in their order, and what is moved or queued
\* are the rest of them, until the logger is destroyed or writeLog fails.
THEOREM FileIsInOrder == Spec => []WrittenInOrder
<1>1. IInv => WrittenInOrder
  <2> SUFFICES ASSUME IInv PROVE WrittenInOrder OBVIOUS
  <2>c. Types /\ InOrder BY DEF IInv
  <2>1. CASE mpc = "gone" \/ Crashed
    <3>1. PICK rest \in Seq(Texts) : requested = file \o rest BY <2>1, <2>c DEF InOrder
    <3>2. file \in Seq(Texts) BY <2>c, TypeFacts
    <3>3. IsPrefix(file, requested) BY <3>1, <3>2, JoinedPrefix
    <3> QED BY <2>1, <3>3 DEF WrittenInOrder
  <2>2. CASE ~(mpc = "gone" \/ Crashed)
    BY <2>2, <2>c DEF InOrder, WrittenInOrder, Lines, Mapped
  <2> QED BY <2>1, <2>2
<1> QED BY <1>1, LoggerInvariant, PTL
=============================================================================
