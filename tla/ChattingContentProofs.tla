------------------------ MODULE ChattingContentProofs ------------------------
(***************************************************************************)
(* Proofs about ChattingContent, whatever order the jobs come in: types,   *)
(* the tables, the packets' reference counts, and that a job finds its user*)
(* if no job of its session has overtaken another of the same session.     *)
(***************************************************************************)
EXTENDS ChattingContent, FiniteSetTheorems, SequenceTheorems, TLAPS

-----------------------------------------------------------------------------
(* The inductive invariant *)

\* TypeOK with reference counts of any size: RefsExact bounds them.
Typed ==
    /\ userMap \in [Sessions -> [sector : Positions \union {NoSector},
                                 AccountNo : Accounts \union {NoAccount}] \union {NoUser}]
    /\ mappingTable \subseteq Sessions
    /\ sectorGrid \in [Visited -> SUBSET Sessions]
    /\ userPoolUse \in Nat
    /\ jobQueue \in Seq(Jobs) /\ job \in Jobs \union {NoJob}
    /\ hEvent \in BOOLEAN /\ crashed \in BOOLEAN /\ overtaken \subseteq Sessions
    /\ cpc \in {"pop", "wait", "handle", "delete"}
    /\ sent \in [kind : {"none", "login", "moveSector", "sendMessage"}, to : SUBSET Sessions]
    /\ phase \in [Sessions -> {"none", "opening", "open", "receiving", "received", "closing", "closed"}]
    /\ recvs \in [Sessions -> 0 .. MaxRecvs]
    /\ refs \in [Packets -> Int]

Queued == 1 .. Len(jobQueue)
Alive  == {jobQueue[i] : i \in DOMAIN jobQueue} \union ({job} \ {NoJob})

\* The same packet, or the same end of the same session.
Same(a, b) ==
    /\ a.targetID = b.targetID /\ a.packet = b.packet
    /\ a.packet = NoPacket => a.id = b.id

JobsOnce ==
    /\ \A i, k \in Queued : Same(jobQueue[i], jobQueue[k]) => i = k
    /\ job # NoJob => \A i \in Queued : ~Same(jobQueue[i], job)

JobKnown(j, ph, received) ==
    /\ ph[j.targetID] # "none"
    /\ j.packet = NoPacket <=> j.id \in {"newUserData", "deleteUserData"}
    /\ j.packet <= received[j.targetID]
    /\ j.id = "deleteUserData" => ph[j.targetID] \in {"closing", "closed"}

JobsKnown ==
    /\ \A i \in Queued : JobKnown(jobQueue[i], phase, recvs)
    /\ job # NoJob => JobKnown(job, phase, recvs)

JobHeld == cpc \in {"pop", "wait"} <=> job = NoJob

Queues(id, s)  == \E i \in Queued : jobQueue[i].id = id /\ jobQueue[i].targetID = s
Handling(id, s) == cpc = "handle" /\ job.id = id /\ job.targetID = s
Pending(id, s) == Queues(id, s) \/ Handling(id, s)

NotMadeYet ==
    \A s \in Sessions :
        phase[s] = "none" \/ Pending("newUserData", s) => s \notin Users

HasJob(s, i)    == \E j \in Alive : j.targetID = s /\ j.packet = i
HasWorker(s, i) == recvs[s] = i /\ phase[s] \in {"receiving", "received"}
One(b) == IF b THEN 1 ELSE 0

RefsExact ==
    \A s \in Sessions, i \in 1 .. MaxRecvs :
        refs[<<s, i>>] = One(HasJob(s, i)) + One(HasWorker(s, i))

\* A worker handles a packet that was received.
WorkerHasPacket ==
    \A s \in Sessions : phase[s] \in {"receiving", "received"} => recvs[s] # 0

IInv ==
    /\ Typed /\ JobsOnce /\ JobsKnown /\ JobHeld /\ NotMadeYet
    /\ TablesAgree /\ RefsExact /\ WorkerHasPacket

\* A session's newUserData comes first in the queue and its deleteUserData last; if
\* its jobs are also taken in that order, then in between it has a user or will get
\* one in time.
Before(a, b) ==
    a.targetID = b.targetID => b.id # "newUserData" /\ a.id # "deleteUserData"

InOrder ==
    /\ \A i, k \in Queued : i < k => Before(jobQueue[i], jobQueue[k])
    /\ job # NoJob /\ job.targetID \notin overtaken => \A k \in Queued : Before(job, jobQueue[k])

Expects(s) ==
    \/ phase[s] \in {"opening", "open", "receiving", "received"}
    \/ \E id \in {"deleteUserData", "login", "moveSector", "sendMessage"} : Pending(id, s)

UserInTime ==
    \A s \in Sessions \ overtaken : Expects(s) => s \in Users \/ Pending("newUserData", s)

OrderInv == InOrder /\ UserInTime

-----------------------------------------------------------------------------
(* Jobs and the queue *)

LEMMA JobFields ==
    ASSUME NEW j \in Jobs
    PROVE  /\ j.id \in {"newUserData", "deleteUserData", "login", "moveSector", "sendMessage"}
           /\ j.targetID \in Sessions /\ j.packet \in 0 .. MaxRecvs
           /\ j.id = "login" => j.accountNo \in Accounts
           /\ j.id = "moveSector" => j.sector \in Positions
           /\ j # NoJob
  <1>1. CASE j \in [id : {"newUserData", "deleteUserData", "sendMessage"},
                    targetID : Sessions, packet : 0 .. MaxRecvs]
    BY <1>1, ContentAssumption DEF NoJob
  <1>2. CASE j \in [id : {"login"}, targetID : Sessions, packet : 1 .. MaxRecvs, accountNo : Accounts]
    BY <1>2, ContentAssumption DEF NoJob
  <1>3. CASE j \in [id : {"moveSector"}, targetID : Sessions, packet : 1 .. MaxRecvs, sector : Positions]
    BY <1>3, ContentAssumption DEF NoJob
  <1> QED
    BY <1>1, <1>2, <1>3 DEF Jobs

LEMMA RequestFields ==
    ASSUME NEW s \in Sessions, NEW p \in 1 .. MaxRecvs, NEW j \in Requests(s, p)
    PROVE  /\ j \in Jobs /\ j.targetID = s /\ j.packet = p
           /\ j.id \notin {"newUserData", "deleteUserData"}
  <1>1. CASE j \in [id : {"login"}, targetID : {s}, packet : {p}, accountNo : Accounts]
    BY <1>1 DEF Jobs
  <1>2. CASE j \in [id : {"moveSector"}, targetID : {s}, packet : {p}, sector : Positions]
    BY <1>2 DEF Jobs
  <1>3. CASE j \in [id : {"sendMessage"}, targetID : {s}, packet : {p}]
    <2>1. p \in 0 .. MaxRecvs
      BY ContentAssumption
    <2> QED
      BY <1>3, <2>1 DEF Jobs
  <1> QED
    BY <1>1, <1>2, <1>3 DEF Requests

\* Taking one element out of a sequence.
LEMMA Removal ==
    ASSUME NEW S, NEW q \in Seq(S), NEW i \in 1 .. Len(q)
    PROVE  LET r == SubSeq(q, 1, i - 1) \o SubSeq(q, i + 1, Len(q))
           IN  /\ r \in Seq(S)
               /\ Len(r) = Len(q) - 1
               /\ \A k \in 1 .. Len(r) : r[k] = q[IF k < i THEN k ELSE k + 1]
  <1> DEFINE a == SubSeq(q, 1, i - 1)
             b == SubSeq(q, i + 1, Len(q))
             r == a \o b
  <1>1. Len(q) \in Nat /\ \A k \in 1 .. Len(q) : q[k] \in S
    OBVIOUS
  <1>2. /\ a \in Seq(S) /\ Len(a) = i - 1
        /\ \A k \in 1 .. i - 1 : a[k] = q[k]
    <2>1. \A k \in 1 .. i - 1 : q[k] \in S
      BY <1>1
    <2> HIDE DEF a
    <2>2. /\ a \in Seq(S) /\ Len(a) = IF 1 <= i - 1 THEN (i - 1) - 1 + 1 ELSE 0
          /\ \A k \in 1 .. (i - 1) - 1 + 1 : a[k] = q[1 + k - 1]
      BY <2>1, SubSeqProperties DEF a
    <2> QED
      BY <2>2
  <1>3. /\ b \in Seq(S) /\ Len(b) = Len(q) - i
        /\ \A k \in 1 .. Len(q) - i : b[k] = q[i + k]
    <2>1. \A k \in i + 1 .. Len(q) : q[k] \in S
      BY <1>1
    <2> HIDE DEF b
    <2>2. /\ b \in Seq(S) /\ Len(b) = IF i + 1 <= Len(q) THEN Len(q) - (i + 1) + 1 ELSE 0
          /\ \A k \in 1 .. Len(q) - (i + 1) + 1 : b[k] = q[i + 1 + k - 1]
      BY <2>1, <1>1, SubSeqProperties DEF b
    <2> QED
      BY <2>2, <1>1
  <1> HIDE DEF a, b, r
  <1>4. /\ r \in Seq(S) /\ Len(r) = Len(a) + Len(b)
        /\ \A k \in 1 .. Len(a) + Len(b) : r[k] = IF k <= Len(a) THEN a[k] ELSE b[k - Len(a)]
    BY <1>2, <1>3, ConcatProperties DEF r
  <1>5. Len(r) = Len(q) - 1
    <2>1. Len(q) \in Nat /\ i \in Nat /\ Len(a) = i - 1 /\ Len(b) = Len(q) - i /\ Len(r) = Len(a) + Len(b)
      BY <1>1, <1>2, <1>3, <1>4
    <2> QED
      BY <2>1
  <1>6. ASSUME NEW k \in 1 .. Len(r)
        PROVE  r[k] = q[IF k < i THEN k ELSE k + 1]
    <2>1. r[k] = IF k <= i - 1 THEN a[k] ELSE b[k - (i - 1)]
      BY <1>2, <1>4
    <2> DEFINE m == k - (i - 1)
    <2>2. k \in 1 .. Len(q) - 1 /\ i \in 1 .. Len(q) /\ Len(q) \in Nat
      BY <1>1, <1>5
    <2>3. CASE k < i
      <3>1. k \in 1 .. i - 1 /\ k <= i - 1
        BY <2>2, <2>3
      <3> QED
        BY <2>1, <2>3, <3>1, <1>2
    <2>4. CASE ~(k < i)
      <3>1. m \in 1 .. Len(q) - i /\ i + m = k + 1 /\ ~(k <= i - 1)
        BY <2>2, <2>4
      <3> HIDE DEF m
      <3>2. r[k] = b[m] /\ b[m] = q[i + m]
        BY <2>1, <3>1, <1>3 DEF m
      <3> QED
        BY <2>4, <3>1, <3>2
    <2> QED
      BY <2>3, <2>4
  <1> QED
    BY <1>4, <1>5, <1>6 DEF a, b, r

LEMMA PushEffect ==
    ASSUME Typed, NEW j \in Jobs, Push(j), job' = job
    PROVE  /\ jobQueue' \in Seq(Jobs)
           /\ Len(jobQueue) \in Nat /\ Len(jobQueue') = Len(jobQueue) + 1
           /\ \A i \in Queued : jobQueue'[i] = jobQueue[i]
           /\ jobQueue'[Len(jobQueue) + 1] = j
           /\ Alive' = Alive \union {j}
  <1>1. jobQueue \in Seq(Jobs) /\ jobQueue' = Append(jobQueue, j)
    BY DEF Typed, Push
  <1>2. /\ jobQueue' \in Seq(Jobs)
        /\ Len(jobQueue) \in Nat /\ Len(jobQueue') = Len(jobQueue) + 1
        /\ \A i \in Queued : jobQueue'[i] = jobQueue[i]
        /\ jobQueue'[Len(jobQueue) + 1] = j
    BY <1>1 DEF Queued
  <1>3. DOMAIN jobQueue = 1 .. Len(jobQueue) /\ DOMAIN jobQueue' = 1 .. Len(jobQueue) + 1
    BY <1>1, <1>2
  <1>4. {jobQueue'[i] : i \in DOMAIN jobQueue'} = {jobQueue[i] : i \in DOMAIN jobQueue} \union {j}
    BY <1>2, <1>3 DEF Queued
  <1> QED
    BY <1>2, <1>4 DEF Alive

LEMMA PopEffect ==
    ASSUME Typed, JobHeld, Pop
    PROVE  \E i \in Queued :
               /\ job' = jobQueue[i] /\ job' \in Jobs
               /\ overtaken \subseteq overtaken' /\ overtaken' \subseteq Sessions
               /\ job'.targetID \notin overtaken' =>
                      \A k \in Queued : k < i => jobQueue[k].targetID # job'.targetID
               /\ jobQueue' \in Seq(Jobs) /\ Len(jobQueue') = Len(jobQueue) - 1
               /\ \A k \in Queued' : jobQueue'[k] = jobQueue[IF k < i THEN k ELSE k + 1]
               /\ Alive' = Alive
  <1>1. jobQueue \in Seq(Jobs) /\ jobQueue # <<>>
    BY DEF Typed, Pop
  <1>2. Len(jobQueue) \in Nat /\ DOMAIN jobQueue = Queued /\ 1 \in Queued
    BY <1>1 DEF Queued
  <1>3. PICK i \in DOMAIN jobQueue :
            /\ job' = jobQueue[i]
            /\ overtaken' = overtaken \union
                   ({job'.targetID} \intersect {jobQueue[k].targetID : k \in 1 .. i - 1})
            /\ jobQueue' = SubSeq(jobQueue, 1, i - 1) \o SubSeq(jobQueue, i + 1, Len(jobQueue))
    BY DEF Pop
  <1>4. i \in 1 .. Len(jobQueue)
    BY <1>2, <1>3 DEF Queued
  <1>5. /\ jobQueue' \in Seq(Jobs) /\ Len(jobQueue') = Len(jobQueue) - 1
        /\ \A k \in 1 .. Len(jobQueue') : jobQueue'[k] = jobQueue[IF k < i THEN k ELSE k + 1]
    BY <1>1, <1>3, <1>4, Removal
  <1>6. jobQueue[i] \in Jobs /\ jobQueue[i] # NoJob
    BY <1>1, <1>4, JobFields
  <1>7. job = NoJob
    BY DEF JobHeld, Pop
  <1>8. DOMAIN jobQueue' = 1 .. Len(jobQueue) - 1
    BY <1>5
  <1>9. {jobQueue[k] : k \in DOMAIN jobQueue} = {jobQueue'[k] : k \in DOMAIN jobQueue'} \union {jobQueue[i]}
    <2>1. ASSUME NEW k \in DOMAIN jobQueue'
          PROVE  jobQueue'[k] \in {jobQueue[n] : n \in DOMAIN jobQueue}
      BY <1>2, <1>4, <1>5, <1>8 DEF Queued
    <2>2. ASSUME NEW n \in DOMAIN jobQueue, n # i
          PROVE  jobQueue[n] \in {jobQueue'[k] : k \in DOMAIN jobQueue'}
      <3>1. CASE n < i
        <4>1. n \in DOMAIN jobQueue' /\ jobQueue'[n] = jobQueue[n]
          BY <3>1, <1>2, <1>4, <1>5, <1>8 DEF Queued
        <4> QED
          BY <4>1
      <3>2. CASE n > i
        <4>1. n - 1 \in DOMAIN jobQueue' /\ jobQueue'[n - 1] = jobQueue[n]
          BY <3>2, <1>2, <1>4, <1>5, <1>8 DEF Queued
        <4> QED
          BY <4>1
      <3> QED
        BY <2>2, <3>1, <3>2, <1>2, <1>4 DEF Queued
    <2> QED
      BY <2>1, <2>2, <1>2, <1>4 DEF Queued
  <1>10. Alive' = Alive
    BY <1>3, <1>6, <1>7, <1>9 DEF Alive
  <1>11. /\ overtaken \subseteq overtaken' /\ overtaken' \subseteq Sessions
         /\ job'.targetID \notin overtaken' =>
                \A k \in Queued : k < i => jobQueue[k].targetID # job'.targetID
    <2>1. job'.targetID \in Sessions
      BY <1>3, <1>6, JobFields
    <2>2. \A k \in Queued : k < i => k \in 1 .. i - 1
      BY <1>2, <1>4 DEF Queued
    <2> QED
      BY <1>3, <2>1, <2>2 DEF Typed
  <1> QED
    BY <1>3, <1>4, <1>5, <1>6, <1>10, <1>11 DEF Queued

-----------------------------------------------------------------------------
(* Types *)

LEMMA Sectors ==
    /\ NoSector \notin Positions
    /\ \A x \in Positions \union {NoSector}, n \in Accounts \union {NoAccount} :
           [sector |-> x, AccountNo |-> n] # NoUser
  <1>1. ASSUME NEW x \in Positions PROVE x # <<-1, -1>> /\ x # <<-2, -2>>
    <2>1. x \in (0 .. 50) \X (0 .. 50)
      BY ContentAssumption DEF Grid, GridMax
    <2>2. x[1] # -1 /\ x[1] # -2
      BY <2>1
    <2> QED
      BY <2>2
  <1> QED
    BY <1>1 DEF NoSector, NoUser

LEMMA UserFields ==
    ASSUME Typed, NEW s \in Users
    PROVE  /\ s \in Sessions
           /\ userMap[s] \in [sector : Positions \union {NoSector}, AccountNo : Accounts \union {NoAccount}]
  BY DEF Typed, Users

LEMMA TypedPush ==
    ASSUME IInv, NEW s \in Sessions, OnNewConnect(s) \/ OnDisconnect(s) \/ OnRecv(s)
    PROVE  Typed'
  <1> USE DEF userVars, contentVars
  <1>1. CASE OnNewConnect(s) \/ OnDisconnect(s)
    <2>1. PICK id \in {"newUserData", "deleteUserData"} :
              Push([id |-> id, targetID |-> s, packet |-> NoPacket])
      BY <1>1 DEF OnNewConnect, OnDisconnect
    <2>2. [id |-> id, targetID |-> s, packet |-> NoPacket] \in Jobs
      BY ContentAssumption DEF Jobs, NoPacket
    <2>3. jobQueue' \in Seq(Jobs)
      BY <1>1, <2>1, <2>2, PushEffect DEF IInv, OnNewConnect, OnDisconnect
    <2> QED
      BY <1>1, <2>3 DEF IInv, Typed, OnNewConnect, OnDisconnect, SetPhase
  <1>2. CASE OnRecv(s)
    <2>1. recvs[s] + 1 \in 1 .. MaxRecvs /\ recvs' = [recvs EXCEPT ![s] = @ + 1] /\ recvs'[s] = recvs[s] + 1
      <3>1. recvs[s] < MaxRecvs /\ recvs' = [recvs EXCEPT ![s] = @ + 1]
        BY <1>2 DEF OnRecv, CanReceive
      <3>2. recvs[s] \in 0 .. MaxRecvs /\ MaxRecvs \in Nat /\ recvs'[s] = recvs[s] + 1
        BY <3>1, ContentAssumption DEF IInv, Typed
      <3> QED
        BY <3>1, <3>2
    <2>2. PICK j \in Requests(s, recvs'[s]) : Push(j)
      BY <1>2 DEF OnRecv
    <2>3. jobQueue' \in Seq(Jobs)
      BY <1>2, <2>1, <2>2, RequestFields, PushEffect DEF IInv, OnRecv
    <2>4. recvs' \in [Sessions -> 0 .. MaxRecvs] /\ refs' \in [Packets -> Int]
      BY <1>2, <2>1, ContentAssumption DEF IInv, Typed, OnRecv, Packets
    <2> QED
      BY <1>2, <2>3, <2>4 DEF IInv, Typed, OnRecv, SetPhase
  <1> QED
    BY <1>1, <1>2

LEMMA TypedCallback ==
    ASSUME IInv, NEW s \in Sessions, OnRecvUnknown(s) \/ SetEvent(s) \/ Received(s)
    PROVE  Typed'
  <1> USE DEF userVars, contentVars
  <1>1. CASE OnRecvUnknown(s)
    <2>1. recvs[s] + 1 \in 1 .. MaxRecvs /\ recvs' = [recvs EXCEPT ![s] = @ + 1] /\ recvs'[s] = recvs[s] + 1
      <3>1. recvs[s] < MaxRecvs /\ recvs' = [recvs EXCEPT ![s] = @ + 1]
        BY <1>1 DEF OnRecvUnknown, CanReceive
      <3>2. recvs[s] \in 0 .. MaxRecvs /\ MaxRecvs \in Nat /\ recvs'[s] = recvs[s] + 1
        BY <3>1, ContentAssumption DEF IInv, Typed
      <3> QED
        BY <3>1, <3>2
    <2>2. recvs' \in [Sessions -> 0 .. MaxRecvs] /\ refs' \in [Packets -> Int]
      BY <1>1, <2>1, ContentAssumption DEF IInv, Typed, OnRecvUnknown, Packets
    <2> QED
      BY <1>1, <2>2 DEF IInv, Typed, OnRecvUnknown, SetPhase
  <1>2. CASE SetEvent(s)
    <2>1. phase' \in [Sessions -> {"none", "opening", "open", "receiving", "received", "closing", "closed"}]
      BY <1>2 DEF IInv, Typed, SetEvent, SetPhase
    <2> QED
      BY <1>2, <2>1 DEF IInv, Typed, SetEvent
  <1>3. CASE Received(s)
    <2>1. refs' \in [Packets -> Int]
      <3>1. \A x \in Packets : refs[x] \in Int
        BY DEF IInv, Typed
      <3>2. <<s, recvs[s]>> \in Packets
        <4>1. recvs[s] \in 0 .. MaxRecvs /\ recvs[s] # 0 /\ MaxRecvs \in Nat
          BY <1>3, ContentAssumption DEF IInv, Typed, Received, WorkerHasPacket
        <4> QED
          BY <4>1 DEF Packets
      <3> QED
        BY <1>3, <3>1, <3>2 DEF IInv, Typed, Received
    <2> QED
      BY <1>3, <2>1 DEF IInv, Typed, Received, SetPhase
  <1> QED
    BY <1>1, <1>2, <1>3

LEMMA TypedUpdate ==
    ASSUME IInv, ~crashed, update
    PROVE  Typed'
  <1> USE DEF userVars, contentVars, otherVars
  <1>0. cpc = "handle" => job \in Jobs /\ target \in Sessions
    BY JobFields DEF IInv, Typed, JobHeld, target
  <1>1. CASE Pop
    BY <1>1, PopEffect DEF IInv, Typed, Pop
  <1>2. CASE PopFails \/ Wake
    BY <1>2 DEF IInv, Typed, PopFails, Wake
  <1>3. CASE DeleteJob
    <2>1. refs' \in [Packets -> Int]
      <3>1. \A x \in Packets : refs[x] \in Int
        BY DEF IInv, Typed
      <3>2. job \in Jobs
        BY <1>3 DEF IInv, Typed, JobHeld, DeleteJob
      <3>3. job.packet # NoPacket => <<target, job.packet>> \in Packets
        BY <3>2, JobFields, ContentAssumption DEF Packets, target, NoPacket
      <3> QED
        BY <1>3, <3>1, <3>3 DEF IInv, Typed, DeleteJob
    <2> QED
      BY <1>3, <2>1 DEF IInv, Typed, DeleteJob, NoPacketSent
  <1>4. CASE createNewUser
    BY <1>4, <1>0 DEF IInv, Typed, createNewUser, Handles
  <1>5. CASE deleteUser
    <2>1. sectorGrid' \in [Visited -> SUBSET Sessions]
      BY <1>5 DEF IInv, Typed, deleteUser, Leave
    <2>2. userMap' \in [Sessions -> [sector : Positions \union {NoSector},
                                 AccountNo : Accounts \union {NoAccount}] \union {NoUser}]
      BY <1>5 DEF IInv, Typed, deleteUser
    <2>3. userPoolUse' \in Nat
      <3>1. userPoolUse = Cardinality(Users)
        BY DEF IInv, TablesAgree
      <3>2. userPoolUse = Cardinality(Users) => userPoolUse # 0
        <4>1. IsFiniteSet(Users)
          BY ContentAssumption, FS_Subset DEF Users
        <4>2. Users # {}
          BY <1>5 DEF deleteUser
        <4> QED
          BY <4>1, <4>2, FS_EmptySet
      <3> QED
        BY <1>5, <3>1, <3>2 DEF IInv, Typed, deleteUser
    <2> QED
      BY <1>5, <2>1, <2>2, <2>3 DEF IInv, Typed, deleteUser, Handles
  <1>6. CASE deleteMissingUser \/ nullUser
    BY <1>6 DEF IInv, Typed, deleteMissingUser, nullUser, Handles
  <1>7. CASE loginProcess
    <2>1. userMap' \in [Sessions -> [sector : Positions \union {NoSector},
                                 AccountNo : Accounts \union {NoAccount}] \union {NoUser}]
      BY <1>0, <1>7, UserFields, JobFields DEF IInv, Typed, loginProcess, Handles
    <2> QED
      BY <1>0, <1>7, <2>1 DEF IInv, Typed, loginProcess, Handles, Sends
  <1>8. CASE moveSector
    <2>1. job.sector \in Positions
      BY <1>0, <1>8, JobFields DEF moveSector, Handles
    <2>2. userMap' \in [Sessions -> [sector : Positions \union {NoSector},
                                 AccountNo : Accounts \union {NoAccount}] \union {NoUser}]
      BY <1>0, <1>8, <2>1, UserFields DEF IInv, Typed, moveSector, Handles
    <2>3. sectorGrid' \in [Visited -> SUBSET Sessions]
      <3>1. Leave(target) \in [Visited -> SUBSET Sessions]
        BY DEF IInv, Typed, Leave
      <3> QED
        BY <1>0, <1>8, <3>1 DEF moveSector, Handles
    <2> QED
      BY <1>0, <1>8, <2>2, <2>3 DEF IInv, Typed, moveSector, Handles, Sends
  <1>9. CASE sendMessage
    <2>1. findNeighbor(target) \subseteq Sessions
      BY <1>9 DEF IInv, Typed, findNeighbor
    <2> QED
      BY <1>9, <2>1 DEF IInv, Typed, sendMessage, Handles, Sends
  <1> QED
    BY <1>1, <1>2, <1>3, <1>4, <1>5, <1>6, <1>7, <1>8, <1>9 DEF update

-----------------------------------------------------------------------------
(* The jobs in the queue and at hand *)

JobsOK == JobsOnce /\ JobsKnown /\ JobHeld /\ WorkerHasPacket

\* What is known of a job stays true when callbacks go on.
LEMMA JobStaysKnown ==
    ASSUME IInv, NEW j \in Jobs, JobKnown(j, phase, recvs), NEW s \in Sessions, Callback(s)
    PROVE  JobKnown(j, phase', recvs')
  <1>1. /\ j.targetID \in Sessions /\ j.packet \in Nat
        /\ recvs[j.targetID] \in Nat /\ recvs[s] \in Nat
    BY JobFields, ContentAssumption DEF IInv, Typed
  <1>2. \/ UNCHANGED recvs
        \/ recvs' = [recvs EXCEPT ![s] = @ + 1]
    BY DEF Callback, OnNewConnect, OnDisconnect, OnRecv, OnRecvUnknown, SetEvent, Received
  <1>3. j.packet <= recvs'[j.targetID]
    <2>1. recvs'[j.targetID] \in {recvs[j.targetID], recvs[j.targetID] + 1}
      <3>1. recvs \in [Sessions -> 0 .. MaxRecvs]
        BY DEF IInv, Typed
      <3> QED
        BY <1>1, <1>2, <3>1
    <2>2. j.packet <= recvs[j.targetID]
      BY DEF JobKnown
    <2> QED
      BY <1>1, <2>1, <2>2
  <1>4. \E to : /\ phase' = [phase EXCEPT ![s] = to]
                /\ to # "none"
                /\ phase[s] \in {"closing", "closed"} => to = "closed"
    <2>1. CASE OnNewConnect(s)
      BY <2>1 DEF OnNewConnect, SetPhase
    <2>2. CASE OnDisconnect(s)
      BY <2>2 DEF OnDisconnect, SetPhase
    <2>3. CASE OnRecv(s)
      BY <2>3 DEF OnRecv, CanReceive, SetPhase
    <2>4. CASE OnRecvUnknown(s)
      BY <2>4 DEF OnRecvUnknown, CanReceive, SetPhase
    <2>5. CASE SetEvent(s)
      BY <2>5 DEF SetEvent, SetPhase
    <2>6. CASE Received(s)
      BY <2>6 DEF Received, SetPhase
    <2> QED
      BY <2>1, <2>2, <2>3, <2>4, <2>5, <2>6 DEF Callback
  <1>5. /\ phase'[j.targetID] # "none"
        /\ phase[j.targetID] \in {"closing", "closed"} => phase'[j.targetID] \in {"closing", "closed"}
    <2>1. phase \in [Sessions -> {"none", "opening", "open", "receiving", "received", "closing", "closed"}]
      BY DEF IInv, Typed
    <2> QED
      BY <1>1, <1>4, <2>1 DEF JobKnown
  <1> QED
    BY <1>3, <1>5 DEF JobKnown

\* A job that is pushed is like none that is alive.
LEMMA JobsAfterPush ==
    ASSUME IInv, Typed', NEW s \in Sessions, Callback(s),
           NEW j \in Jobs, Push(j), job' = job, cpc' = cpc, JobKnown(j, phase', recvs'),
           \A i \in Queued : ~Same(jobQueue[i], j),
           job # NoJob => ~Same(j, job)
    PROVE  (JobsOnce /\ JobsKnown /\ JobHeld)'
  <1> DEFINE n == Len(jobQueue) + 1
  <1>1. /\ Len(jobQueue) \in Nat /\ Len(jobQueue') = n
        /\ \A i \in Queued : jobQueue'[i] = jobQueue[i] /\ jobQueue[i] \in Jobs
        /\ jobQueue'[n] = j
    BY PushEffect DEF IInv, Typed, Queued
  <1>2. Queued' = Queued \union {n} /\ n \notin Queued
    BY <1>1 DEF Queued
  <1> HIDE DEF n
  <1>3. JobsOnce'
    <2>1. \A a, b : Same(a, b) => Same(b, a)
      BY DEF Same
    <2>2. \A i, k \in Queued' : Same(jobQueue'[i], jobQueue'[k]) => i = k
      BY <1>1, <1>2, <2>1 DEF IInv, JobsOnce
    <2>3. job # NoJob => \A i \in Queued' : ~Same(jobQueue'[i], job)
      BY <1>1, <1>2 DEF IInv, JobsOnce
    <2> QED
      BY <2>2, <2>3 DEF JobsOnce
  <1>4. JobsKnown'
    <2>1. \A i \in Queued : JobKnown(jobQueue'[i], phase', recvs')
      BY <1>1, JobStaysKnown DEF IInv, JobsKnown
    <2>2. job # NoJob => JobKnown(job, phase', recvs')
      BY JobStaysKnown DEF IInv, Typed, JobsKnown
    <2> QED
      BY <2>1, <2>2, <1>1, <1>2 DEF JobsKnown
  <1>5. JobHeld'
    BY DEF IInv, JobHeld
  <1> QED
    BY <1>3, <1>4, <1>5

LEMMA JobsCallback ==
    ASSUME IInv, Typed', NEW s \in Sessions, Callback(s)
    PROVE  JobsOK'
  <1> USE DEF userVars, contentVars
  <1>0. /\ \A i \in Queued : jobQueue[i] \in Jobs
        /\ job # NoJob => job \in Jobs
        /\ phase[s] \in {"none", "opening", "open", "receiving", "received", "closing", "closed"}
        /\ recvs[s] \in Nat
    BY ContentAssumption DEF IInv, Typed, Queued
  <1>1. WorkerHasPacket'
    <2>1. UNCHANGED recvs \/ recvs' = [recvs EXCEPT ![s] = @ + 1]
      BY DEF Callback, OnNewConnect, OnDisconnect, OnRecv, OnRecvUnknown, SetEvent, Received
    <2>2. \A t \in Sessions : recvs[t] \in Nat /\ (recvs[t] # 0 => recvs'[t] # 0)
      BY <2>1, ContentAssumption DEF IInv, Typed
    <2>3. \A t \in Sessions \ {s} : phase'[t] = phase[t]
      BY DEF IInv, Typed, Callback, OnNewConnect, OnDisconnect, OnRecv, OnRecvUnknown, SetEvent, Received, SetPhase
    <2>4. phase'[s] \in {"receiving", "received"} => recvs'[s] # 0
      <3>1. CASE OnNewConnect(s)
        BY <3>1 DEF OnNewConnect, SetPhase, IInv, Typed
      <3>2. CASE OnDisconnect(s)
        BY <3>2 DEF OnDisconnect, SetPhase, IInv, Typed
      <3>3. CASE OnRecv(s)
        BY <3>3, <1>0 DEF OnRecv, IInv, Typed
      <3>4. CASE OnRecvUnknown(s)
        BY <3>4, <1>0 DEF OnRecvUnknown, IInv, Typed
      <3>5. CASE SetEvent(s)
        BY <3>5, <1>0 DEF SetEvent, SetPhase, IInv, Typed, WorkerHasPacket
      <3>6. CASE Received(s)
        BY <3>6 DEF Received, SetPhase, IInv, Typed
      <3> QED
        BY <3>1, <3>2, <3>3, <3>4, <3>5, <3>6 DEF Callback
    <2> QED
      BY <2>2, <2>3, <2>4 DEF WorkerHasPacket, IInv
  <1>2. CASE OnNewConnect(s)
    <2> DEFINE j == [id |-> "newUserData", targetID |-> s, packet |-> NoPacket]
    <2>1. j \in Jobs /\ j.targetID = s /\ j.packet = NoPacket /\ j.id = "newUserData"
      BY ContentAssumption DEF Jobs, NoPacket
    <2> HIDE DEF j
    <2>2. Push(j) /\ job' = job /\ cpc' = cpc /\ phase[s] = "none" /\ recvs' = recvs /\ phase' = [phase EXCEPT ![s] = "opening"]
      BY <1>2 DEF OnNewConnect, SetPhase, j
    <2>3. JobKnown(j, phase', recvs')
      BY <2>1, <2>2, <1>0 DEF JobKnown, NoPacket, IInv, Typed
    <2>4. /\ \A i \in Queued : ~Same(jobQueue[i], j)
          /\ job # NoJob => ~Same(j, job)
      BY <2>1, <2>2 DEF Same, IInv, JobsKnown, JobKnown
    <2> QED
      BY <1>1, <2>1, <2>2, <2>3, <2>4, JobsAfterPush DEF JobsOK
  <1>3. CASE OnDisconnect(s)
    <2> DEFINE j == [id |-> "deleteUserData", targetID |-> s, packet |-> NoPacket]
    <2>1. j \in Jobs /\ j.targetID = s /\ j.packet = NoPacket /\ j.id = "deleteUserData"
      BY ContentAssumption DEF Jobs, NoPacket
    <2> HIDE DEF j
    <2>2. Push(j) /\ job' = job /\ cpc' = cpc /\ phase[s] = "open" /\ recvs' = recvs /\ phase' = [phase EXCEPT ![s] = "closing"]
      BY <1>3 DEF OnDisconnect, SetPhase, j
    <2>3. JobKnown(j, phase', recvs')
      BY <2>1, <2>2, <1>0 DEF JobKnown, NoPacket, IInv, Typed
    <2>4. /\ \A i \in Queued : ~Same(jobQueue[i], j)
          /\ job # NoJob => ~Same(j, job)
      BY <2>1, <2>2 DEF Same, IInv, JobsKnown, JobKnown
    <2> QED
      BY <1>1, <2>1, <2>2, <2>3, <2>4, JobsAfterPush DEF JobsOK
  <1>4. CASE OnRecv(s)
    <2>1. /\ recvs'[s] = recvs[s] + 1 /\ recvs'[s] \in 1 .. MaxRecvs /\ phase[s] = "open"
          /\ phase' = [phase EXCEPT ![s] = "receiving"] /\ job' = job /\ cpc' = cpc
      <3>1. recvs'[s] = recvs[s] + 1 /\ recvs'[s] \in 0 .. MaxRecvs
        <4>1. recvs' = [recvs EXCEPT ![s] = @ + 1]
          BY <1>4 DEF OnRecv
        <4> QED
          BY <4>1, <1>0 DEF IInv, Typed
      <3>2. phase[s] = "open" /\ phase' = [phase EXCEPT ![s] = "receiving"] /\ job' = job /\ cpc' = cpc
        BY <1>4 DEF OnRecv, CanReceive, SetPhase
      <3>3. recvs'[s] \in 1 .. MaxRecvs
        BY <3>1, <1>0, ContentAssumption
      <3> QED
        BY <3>1, <3>2, <3>3
    <2>2. PICK j \in Requests(s, recvs'[s]) : Push(j)
      BY <1>4 DEF OnRecv
    <2>3. j \in Jobs /\ j.targetID = s /\ j.packet = recvs[s] + 1 /\ j.id \notin {"newUserData", "deleteUserData"}
      BY <2>1, <2>2, RequestFields
    <2>4. JobKnown(j, phase', recvs')
      BY <2>1, <2>3, <1>0 DEF JobKnown, NoPacket, IInv, Typed
    <2>5. /\ \A i \in Queued : ~Same(jobQueue[i], j)
          /\ job # NoJob => ~Same(j, job)
      <3>1. \A k \in Jobs : JobKnown(k, phase, recvs) => ~Same(k, j) /\ ~Same(j, k)
        <4>1. SUFFICES ASSUME NEW k \in Jobs, JobKnown(k, phase, recvs), k.targetID = s
                       PROVE  k.packet # j.packet
          BY <2>3 DEF Same
        <4>2. k.packet \in Nat /\ k.packet <= recvs[s]
          BY <4>1, JobFields, ContentAssumption DEF JobKnown
        <4> QED
          BY <4>2, <2>3, <1>0
      <3> QED
        BY <3>1, <1>0 DEF IInv, JobsKnown
    <2> QED
      BY <1>1, <2>1, <2>2, <2>3, <2>4, <2>5, JobsAfterPush DEF JobsOK
  <1>5. CASE OnRecvUnknown(s) \/ SetEvent(s) \/ Received(s)
    <2>1. jobQueue' = jobQueue /\ job' = job /\ cpc' = cpc
      BY <1>5 DEF OnRecvUnknown, SetEvent, Received
    <2>2. JobsKnown'
      <3>1. \A j \in Jobs : JobKnown(j, phase, recvs) => JobKnown(j, phase', recvs')
        BY JobStaysKnown
      <3> QED
        BY <2>1, <3>1, <1>0 DEF IInv, JobsKnown, Queued
    <2>3. JobsOnce' /\ JobHeld'
      BY <2>1 DEF IInv, JobsOnce, Queued, JobHeld
    <2> QED
      BY <1>1, <2>2, <2>3 DEF JobsOK
  <1> QED
    BY <1>2, <1>3, <1>4, <1>5 DEF Callback

LEMMA JobsUpdate ==
    ASSUME IInv, update
    PROVE  JobsOK'
  <1> USE DEF userVars, contentVars, otherVars
  <1>0. WorkerHasPacket'
    BY DEF IInv, WorkerHasPacket, update, Pop, PopFails, Wake, DeleteJob, createNewUser, deleteUser,
           deleteMissingUser, nullUser, loginProcess, moveSector, sendMessage
  <1>1. CASE Pop
    <2>1. PICK i \in Queued :
               /\ job' = jobQueue[i] /\ job' \in Jobs
               /\ Len(jobQueue') = Len(jobQueue) - 1
               /\ \A k \in Queued' : jobQueue'[k] = jobQueue[IF k < i THEN k ELSE k + 1]
      BY <1>1, PopEffect DEF IInv
    <2> DEFINE old(k) == IF k < i THEN k ELSE k + 1
    <2>2. Len(jobQueue) \in Nat
      BY DEF IInv, Typed
    <2>3. \A k \in Queued' : old(k) \in Queued /\ old(k) # i
      BY <2>1, <2>2 DEF Queued
    <2>4. \A k, n \in Queued' : old(k) = old(n) => k = n
      BY <2>1, <2>2 DEF Queued
    <2>5. \A k \in Queued' : jobQueue'[k] = jobQueue[old(k)]
      BY <2>1
    <2> HIDE DEF old
    <2>6. JobsOnce'
      <3>1. \A k, n \in Queued' : Same(jobQueue'[k], jobQueue'[n]) => k = n
        BY <2>3, <2>4, <2>5 DEF IInv, JobsOnce
      <3>2. \A k \in Queued' : ~Same(jobQueue'[k], job')
        BY <2>1, <2>3, <2>5 DEF IInv, JobsOnce
      <3> QED
        BY <3>1, <3>2 DEF JobsOnce
    <2>7. JobsKnown'
      BY <1>1, <2>1, <2>3, <2>5 DEF IInv, JobsKnown, Pop
    <2>8. JobHeld'
      BY <1>1, <2>1, JobFields DEF JobHeld, Pop
    <2> QED
      BY <1>0, <2>6, <2>7, <2>8 DEF JobsOK
  <1>2. CASE DeleteJob
    BY <1>0, <1>2 DEF DeleteJob, IInv, JobsOK, JobsOnce, JobsKnown, JobHeld, Queued
  <1>3. CASE ~Pop /\ ~DeleteJob
    <2>1. /\ jobQueue' = jobQueue /\ job' = job /\ phase' = phase /\ recvs' = recvs
          /\ cpc \in {"pop", "wait"} <=> cpc' \in {"pop", "wait"}
      BY <1>3 DEF update, PopFails, Wake, createNewUser, deleteUser,
           deleteMissingUser, nullUser, loginProcess, moveSector, sendMessage, Handles
    <2> QED
      BY <1>0, <2>1 DEF IInv, JobsOK, JobsOnce, JobsKnown, JobHeld, Queued
  <1> QED
    BY <1>1, <1>2, <1>3

-----------------------------------------------------------------------------
(* Users and pending jobs *)

LEMMA TargetIsSession ==
    ASSUME IInv, cpc = "handle"
    PROVE  job \in Jobs /\ target \in Sessions
  BY JobFields DEF IInv, Typed, JobHeld, target

LEMMA UsersStep ==
    ASSUME IInv, update
    PROVE  /\ createNewUser => /\ Users' = Users \union {target}
                               /\ userMap'[target].sector = NoSector
                               /\ \A s \in Sessions \ {target} : userMap'[s] = userMap[s]
           /\ deleteUser => /\ Users' = Users \ {target}
                            /\ \A s \in Users' : userMap'[s] = userMap[s]
           /\ ~createNewUser /\ ~deleteUser => Users' = Users
           /\ ~createNewUser /\ ~deleteUser /\ ~moveSector =>
                  \A s \in Users : userMap'[s].sector = userMap[s].sector
  <1> USE DEF userVars, contentVars, otherVars
  <1>0. /\ userMap \in [Sessions -> [sector : Positions \union {NoSector},
                              AccountNo : Accounts \union {NoAccount}] \union {NoUser}]
        /\ cpc = "handle" => job \in Jobs /\ target \in Sessions
    BY TargetIsSession DEF IInv, Typed
  <1>1. CASE createNewUser
    <2>1. /\ target \in Sessions
          /\ userMap' = [userMap EXCEPT ![target] = [sector |-> NoSector, AccountNo |-> NoAccount]]
      BY <1>0, <1>1 DEF createNewUser, Handles
    <2>2. [sector |-> NoSector, AccountNo |-> NoAccount] # NoUser
      BY Sectors
    <2>3. ~deleteUser
      BY <1>1 DEF createNewUser, deleteUser, Handles
    <2> QED
      BY <1>0, <1>1, <2>1, <2>2, <2>3 DEF Users
  <1>2. CASE deleteUser
    <2>1. target \in Sessions /\ userMap' = [userMap EXCEPT ![target] = NoUser]
      BY <1>0, <1>2 DEF deleteUser, Handles
    <2>2. ~createNewUser
      BY <1>2 DEF createNewUser, deleteUser, Handles
    <2> QED
      BY <1>0, <1>2, <2>1, <2>2 DEF Users
  <1>3. CASE loginProcess
    <2>1. /\ target \in Users /\ job.accountNo \in Accounts
          /\ userMap' = [userMap EXCEPT ![target].AccountNo = job.accountNo]
      BY <1>0, <1>3, JobFields DEF loginProcess, Handles
    <2>2. /\ target \in Sessions
          /\ userMap[target] \in [sector : Positions \union {NoSector}, AccountNo : Accounts \union {NoAccount}]
      BY <2>1, UserFields DEF IInv
    <2>3. userMap'[target] = [sector |-> userMap[target].sector, AccountNo |-> job.accountNo]
      BY <1>0, <2>1, <2>2
    <2>4. userMap'[target] # NoUser /\ userMap'[target].sector = userMap[target].sector
      BY <2>1, <2>2, <2>3, Sectors
    <2>5. Users' = Users /\ \A s \in Users : userMap'[s].sector = userMap[s].sector
      BY <1>0, <2>1, <2>2, <2>4 DEF Users
    <2> QED
      BY <1>3, <2>5 DEF loginProcess, createNewUser, deleteUser, moveSector, Handles
  <1>4. CASE moveSector
    <2>1. /\ target \in Users /\ job.sector \in Positions
          /\ userMap' = [userMap EXCEPT ![target].sector = job.sector]
      BY <1>0, <1>4, JobFields DEF moveSector, Handles
    <2>2. /\ target \in Sessions
          /\ userMap[target] \in [sector : Positions \union {NoSector}, AccountNo : Accounts \union {NoAccount}]
      BY <2>1, UserFields DEF IInv
    <2>3. userMap'[target] = [sector |-> job.sector, AccountNo |-> userMap[target].AccountNo]
      BY <1>0, <2>1, <2>2
    <2>4. userMap'[target] # NoUser
      BY <2>1, <2>2, <2>3, Sectors
    <2>5. Users' = Users
      BY <1>0, <2>1, <2>2, <2>4 DEF Users
    <2> QED
      BY <1>4, <2>5 DEF createNewUser, deleteUser, moveSector, Handles
  <1>5. CASE Pop \/ PopFails \/ Wake \/ DeleteJob \/ deleteMissingUser \/ nullUser \/ sendMessage
    <2>1. userMap' = userMap
      BY <1>5 DEF Pop, PopFails, Wake, DeleteJob, deleteMissingUser, nullUser, sendMessage
    <2>2. ~createNewUser /\ ~deleteUser
      BY <1>5 DEF createNewUser, deleteUser, Handles,
             Pop, PopFails, Wake, DeleteJob, deleteMissingUser, nullUser, sendMessage
    <2> QED
      BY <2>1, <2>2 DEF Users
  <1> QED
    BY <1>1, <1>2, <1>3, <1>4, <1>5 DEF update

LEMMA PendingAfterPush ==
    ASSUME IInv, NEW j \in Jobs, Push(j), job' = job, cpc' = cpc
    PROVE  \A id, s : Pending(id, s)' <=> Pending(id, s) \/ (j.id = id /\ j.targetID = s)
  <1> DEFINE n == Len(jobQueue) + 1
  <1>1. /\ Len(jobQueue) \in Nat /\ Len(jobQueue') = n
        /\ \A i \in Queued : jobQueue'[i] = jobQueue[i]
        /\ jobQueue'[n] = j
    BY PushEffect DEF IInv
  <1>2. Queued' = Queued \union {n}
    BY <1>1 DEF Queued
  <1> HIDE DEF n
  <1> QED
    BY <1>1, <1>2 DEF Pending, Queues, Handling

LEMMA PendingAfterPop ==
    ASSUME IInv, Pop
    PROVE  \A id, s : Pending(id, s)' <=> Pending(id, s)
  <1>1. PICK i \in Queued :
             /\ job' = jobQueue[i]
             /\ Len(jobQueue') = Len(jobQueue) - 1
             /\ \A k \in Queued' : jobQueue'[k] = jobQueue[IF k < i THEN k ELSE k + 1]
    BY PopEffect DEF IInv
  <1>2. cpc = "pop" /\ cpc' = "handle" /\ Len(jobQueue) \in Nat
    BY DEF Pop, IInv, Typed
  <1>3. \A k \in Queued : k = i \/ \E n \in Queued' : jobQueue'[n] = jobQueue[k]
    <2>1. ASSUME NEW k \in Queued, k < i PROVE k \in Queued' /\ jobQueue'[k] = jobQueue[k]
      BY <1>1, <1>2, <2>1 DEF Queued
    <2>2. ASSUME NEW k \in Queued, k > i PROVE k - 1 \in Queued' /\ jobQueue'[k - 1] = jobQueue[k]
      BY <1>1, <1>2, <2>2 DEF Queued
    <2> QED
      BY <1>2, <2>1, <2>2 DEF Queued
  <1>4. \A n \in Queued' : \E k \in Queued : jobQueue'[n] = jobQueue[k]
    <2>1. \A n \in Queued' : (IF n < i THEN n ELSE n + 1) \in Queued
      BY <1>1, <1>2 DEF Queued
    <2> QED
      BY <1>1, <2>1
  <1> QED
    BY <1>1, <1>2, <1>3, <1>4 DEF Pending, Queues, Handling

LEMMA PhaseStarts ==
    ASSUME IInv, NEW t \in Sessions, Callback(t), NEW s \in Sessions, phase'[s] = "none"
    PROVE  phase[s] = "none"
  BY DEF IInv, Typed, Callback, OnNewConnect, OnDisconnect, OnRecv, OnRecvUnknown,
         SetEvent, Received, SetPhase

LEMMA NotMadeCallback ==
    ASSUME IInv, Typed', NEW t \in Sessions, Callback(t)
    PROVE  NotMadeYet'
  <1> USE DEF userVars, contentVars
  <1>1. Users' = Users
    BY DEF Users, Callback, OnNewConnect, OnDisconnect, OnRecv, OnRecvUnknown, SetEvent, Received
  <1>2. ASSUME NEW s \in Sessions, Pending("newUserData", s)'
        PROVE  phase[s] = "none" \/ Pending("newUserData", s)
    <2>1. CASE OnNewConnect(t)
      <3>1. [id |-> "newUserData", targetID |-> t, packet |-> NoPacket] \in Jobs
        BY ContentAssumption DEF Jobs, NoPacket
      <3> QED
        BY <1>2, <2>1, <3>1, PendingAfterPush DEF OnNewConnect
    <2>2. CASE OnDisconnect(t)
      <3>1. [id |-> "deleteUserData", targetID |-> t, packet |-> NoPacket] \in Jobs
        BY ContentAssumption DEF Jobs, NoPacket
      <3> QED
        BY <1>2, <2>2, <3>1, PendingAfterPush DEF OnDisconnect
    <2>3. CASE OnRecv(t)
      <3>1. recvs'[t] \in 1 .. MaxRecvs
        <4>1. recvs' = [recvs EXCEPT ![t] = @ + 1]
          BY <2>3 DEF OnRecv
        <4>2. recvs'[t] \in 0 .. MaxRecvs /\ recvs[t] \in Nat /\ recvs'[t] = recvs[t] + 1
          BY <4>1, ContentAssumption DEF IInv, Typed
        <4> QED
          BY <4>2, ContentAssumption
      <3>2. PICK j \in Requests(t, recvs'[t]) : Push(j)
        BY <2>3 DEF OnRecv
      <3>3. j \in Jobs /\ j.id # "newUserData"
        BY <3>1, <3>2, RequestFields
      <3> QED
        BY <1>2, <2>3, <3>2, <3>3, PendingAfterPush DEF OnRecv
    <2>4. CASE OnRecvUnknown(t) \/ SetEvent(t) \/ Received(t)
      BY <1>2, <2>4 DEF OnRecvUnknown, SetEvent, Received, Pending, Queues, Handling, Queued
    <2> QED
      BY <2>1, <2>2, <2>3, <2>4 DEF Callback
  <1> QED
    BY <1>1, <1>2, PhaseStarts DEF IInv, NotMadeYet

LEMMA NotMadeUpdate ==
    ASSUME IInv, update
    PROVE  NotMadeYet'
  <1> USE DEF userVars, contentVars, otherVars
  <1>0. phase' = phase
    BY DEF update, Pop, PopFails, Wake, DeleteJob, createNewUser, deleteUser,
           deleteMissingUser, nullUser, loginProcess, moveSector, sendMessage
  <1>1. CASE Pop
    <2>1. Users' = Users
      BY <1>1 DEF Users, Pop
    <2> QED
      BY <1>0, <1>1, <2>1, PendingAfterPop DEF IInv, NotMadeYet
  <1>2. CASE createNewUser
    <2>1. /\ target \in Sessions /\ job \in Jobs /\ job # NoJob /\ job.id = "newUserData"
          /\ jobQueue' = jobQueue /\ cpc' = "delete" /\ Handling("newUserData", target)
      BY <1>2, TargetIsSession, JobFields DEF createNewUser, Handles, Handling, target
    <2>2. \A s : Pending("newUserData", s)' => Queues("newUserData", s)
      BY <2>1 DEF Pending, Queues, Handling, Queued
    <2>3. ~Queues("newUserData", target)
      <3>1. SUFFICES ASSUME NEW i \in Queued, jobQueue[i].id = "newUserData", jobQueue[i].targetID = target
                     PROVE  FALSE
        BY DEF Queues
      <3>2. jobQueue[i].packet = NoPacket /\ job.packet = NoPacket
        BY <2>1, <3>1 DEF IInv, JobsKnown, JobKnown
      <3>3. Same(jobQueue[i], job)
        BY <2>1, <3>1, <3>2 DEF Same, target
      <3> QED
        BY <2>1, <3>1, <3>3 DEF IInv, JobsOnce
    <2>4. phase[target] # "none"
      BY <2>1 DEF IInv, JobsKnown, JobKnown, target
    <2>5. Users' = Users \union {target}
      BY <1>2, UsersStep
    <2> QED
      BY <1>0, <2>2, <2>3, <2>4, <2>5 DEF IInv, NotMadeYet, Pending
  <1>3. CASE ~Pop /\ ~createNewUser
    <2>1. Users' \subseteq Users
      BY <1>3, UsersStep
    <2>2. jobQueue' = jobQueue /\ (cpc' = "handle" => cpc = "handle" /\ job' = job)
      BY <1>3 DEF update, PopFails, Wake, DeleteJob, deleteUser,
           deleteMissingUser, nullUser, loginProcess, moveSector, sendMessage, Handles
    <2>3. \A s : Pending("newUserData", s)' => Pending("newUserData", s)
      BY <2>2 DEF Pending, Queues, Handling, Queued
    <2> QED
      BY <1>0, <2>1, <2>3 DEF IInv, NotMadeYet
  <1> QED
    BY <1>1, <1>2, <1>3

-----------------------------------------------------------------------------
(* The tables *)

LEMMA TablesCallback ==
    ASSUME IInv, NEW t \in Sessions, Callback(t)
    PROVE  TablesAgree'
  <1>1. UNCHANGED <<userMap, mappingTable, sectorGrid, userPoolUse, crashed>>
    BY DEF userVars, contentVars,
           Callback, OnNewConnect, OnDisconnect, OnRecv, OnRecvUnknown, SetEvent, Received
  <1>2. Users' = Users
    BY <1>1 DEF Users
  <1> QED
    BY <1>1, <1>2 DEF IInv, TablesAgree

LEMMA TablesUpdate ==
    ASSUME IInv, ~crashed, update
    PROVE  TablesAgree'
  <1> USE DEF userVars, contentVars, otherVars
  <1>0. /\ Users \subseteq Sessions /\ IsFiniteSet(Users)
        /\ \A x \in Visited : sectorGrid[x] = {s \in Users : userMap[s].sector = x}
        /\ mappingTable = Users /\ userPoolUse = Cardinality(Users)
        /\ sectorGrid \in [Visited -> SUBSET Sessions]
    BY ContentAssumption, FS_Subset DEF IInv, Typed, TablesAgree, Users
  <1>1. CASE createNewUser
    <2>1. /\ Users' = Users \union {target} /\ userMap'[target].sector = NoSector
          /\ \A s \in Sessions \ {target} : userMap'[s] = userMap[s]
          /\ sectorGrid' = sectorGrid /\ mappingTable' = mappingTable \union {target}
          /\ userPoolUse' = userPoolUse + 1
      BY <1>1, UsersStep DEF createNewUser
    <2>2. target \notin Users
      <3>1. Pending("newUserData", target) /\ target \in Sessions
        BY <1>1, TargetIsSession DEF createNewUser, Handles, Pending, Handling, target
      <3> QED
        BY <3>1 DEF IInv, NotMadeYet
    <2>3. Cardinality(Users') = Cardinality(Users) + 1
      BY <1>0, <2>1, <2>2, FS_AddElement
    <2>4. NoSector \notin Visited
      BY Sectors DEF Visited
    <2>5. ASSUME NEW x \in Visited
          PROVE  sectorGrid'[x] = {s \in Users' : userMap'[s].sector = x}
      BY <1>0, <2>1, <2>2, <2>4
    <2> QED
      BY <1>0, <2>1, <2>3, <2>5 DEF TablesAgree
  <1>2. CASE deleteUser
    <2>1. /\ target \in Users /\ Users' = Users \ {target}
          /\ \A s \in Users' : userMap'[s] = userMap[s]
          /\ sectorGrid' = Leave(target) /\ mappingTable' = mappingTable \ {target}
          /\ userPoolUse' = userPoolUse - 1 \/ crashed'
      BY <1>2, UsersStep DEF deleteUser
    <2>2. Cardinality(Users') = Cardinality(Users) - 1
      BY <1>0, <2>1, FS_RemoveElement
    <2>3. ASSUME NEW x \in Visited
          PROVE  sectorGrid'[x] = {s \in Users' : userMap'[s].sector = x}
      <3>1. sectorGrid'[x] = IF x = userMap[target].sector THEN sectorGrid[x] \ {target} ELSE sectorGrid[x]
        BY <2>1 DEF Leave
      <3>2. sectorGrid[x] = {s \in Users : userMap[s].sector = x}
        BY <1>0
      <3>3. {s \in Users' : userMap'[s].sector = x} = {s \in Users : userMap[s].sector = x} \ {target}
        BY <2>1
      <3> QED
        BY <2>1, <3>1, <3>2, <3>3
    <2> QED
      BY <1>0, <2>1, <2>2, <2>3 DEF TablesAgree
  <1>3. CASE moveSector
    <2>1. /\ target \in Users /\ Users' = Users /\ job.sector \in Positions
          /\ userMap' = [userMap EXCEPT ![target].sector = job.sector]
          /\ sectorGrid' = [Leave(target) EXCEPT ![job.sector] = @ \union {target}]
          /\ mappingTable' = mappingTable /\ userPoolUse' = userPoolUse
      <3>1. ~createNewUser /\ ~deleteUser
        BY <1>3 DEF moveSector, createNewUser, deleteUser, Handles
      <3>2. job.sector \in Positions
        BY <1>3, TargetIsSession, JobFields DEF moveSector, Handles
      <3> QED
        BY <1>3, <3>1, <3>2, UsersStep DEF moveSector
    <2>2. /\ userMap'[target].sector = job.sector
          /\ \A s \in Users \ {target} : userMap'[s] = userMap[s]
      <3>1. userMap[target] \in [sector : Positions \union {NoSector}, AccountNo : Accounts \union {NoAccount}]
        BY <2>1, UserFields DEF IInv
      <3>2. userMap \in [Sessions -> [sector : Positions \union {NoSector},
                              AccountNo : Accounts \union {NoAccount}] \union {NoUser}]
        BY DEF IInv, Typed
      <3> QED
        BY <1>0, <2>1, <3>1, <3>2
    <2>3. ASSUME NEW x \in Visited
          PROVE  sectorGrid'[x] = {s \in Users' : userMap'[s].sector = x}
      <3>1. Leave(target)[x] = {s \in Users : userMap[s].sector = x} \ {target}
        <4>1. Leave(target)[x] = IF x = userMap[target].sector THEN sectorGrid[x] \ {target} ELSE sectorGrid[x]
          BY DEF Leave
        <4>2. sectorGrid[x] = {s \in Users : userMap[s].sector = x}
          BY <1>0
        <4> QED
          BY <4>1, <4>2
      <3>2. sectorGrid'[x] = IF x = job.sector THEN Leave(target)[x] \union {target} ELSE Leave(target)[x]
        BY <2>1 DEF Leave
      <3>3. CASE x = job.sector
        <4>1. {s \in Users' : userMap'[s].sector = x} =
                 ({s \in Users : userMap[s].sector = x} \ {target}) \union {target}
          BY <2>1, <2>2, <3>3
        <4> QED
          BY <3>1, <3>2, <3>3, <4>1
      <3>4. CASE x # job.sector
        <4>1. {s \in Users' : userMap'[s].sector = x} = {s \in Users : userMap[s].sector = x} \ {target}
          BY <2>1, <2>2, <3>4
        <4> QED
          BY <3>1, <3>2, <3>4, <4>1
      <3> QED
        BY <3>3, <3>4
    <2> QED
      BY <1>0, <2>1, <2>3 DEF TablesAgree
  <1>4. CASE ~createNewUser /\ ~deleteUser /\ ~moveSector
    <2>1. Users' = Users /\ \A s \in Users : userMap'[s].sector = userMap[s].sector
      BY <1>4, UsersStep
    <2>2. mappingTable' = mappingTable /\ userPoolUse' = userPoolUse /\ sectorGrid' = sectorGrid
      BY <1>4 DEF update, Pop, PopFails, Wake, DeleteJob, deleteMissingUser, nullUser, loginProcess, sendMessage
    <2>3. ASSUME NEW x \in Visited
          PROVE  sectorGrid'[x] = {s \in Users' : userMap'[s].sector = x}
      BY <1>0, <2>1, <2>2
    <2> QED
      BY <1>0, <2>1, <2>2, <2>3 DEF TablesAgree
  <1> QED
    BY <1>1, <1>2, <1>3, <1>4

-----------------------------------------------------------------------------
(* The reference counts *)

LEMMA AliveJobs ==
    ASSUME IInv, NEW j \in Alive
    PROVE  j \in Jobs /\ JobKnown(j, phase, recvs)
  <1>1. DOMAIN jobQueue = Queued /\ \A i \in Queued : jobQueue[i] \in Jobs
    BY DEF IInv, Typed, Queued
  <1>2. CASE j = job /\ job # NoJob
    BY <1>2 DEF IInv, Typed, JobsKnown
  <1>3. CASE \E i \in Queued : j = jobQueue[i]
    BY <1>1, <1>3 DEF IInv, JobsKnown
  <1> QED
    BY <1>1, <1>2, <1>3 DEF Alive

\* A job without a packet changes no count; a job with one changes its own.
LEMMA HasJobAfterPush ==
    ASSUME IInv, NEW j \in Jobs, Push(j), job' = job, NEW s \in Sessions, NEW i \in 1 .. MaxRecvs
    PROVE  HasJob(s, i)' <=> HasJob(s, i) \/ (j.targetID = s /\ j.packet = i)
  <1>1. Alive' = Alive \union {j}
    BY PushEffect DEF IInv
  <1> QED
    BY <1>1 DEF HasJob

LEMMA RefsCallback ==
    ASSUME IInv, Typed', NEW t \in Sessions, Callback(t)
    PROVE  RefsExact'
  <1> USE DEF userVars, contentVars
  <1>0. /\ phase \in [Sessions -> {"none", "opening", "open", "receiving", "received", "closing", "closed"}]
        /\ recvs \in [Sessions -> 0 .. MaxRecvs] /\ recvs' \in [Sessions -> 0 .. MaxRecvs]
        /\ refs \in [Packets -> Int] /\ MaxRecvs \in Nat
        /\ \A s \in Sessions, i \in 1 .. MaxRecvs : <<s, i>> \in Packets
    BY ContentAssumption DEF IInv, Typed, Packets
  <1> SUFFICES ASSUME NEW s \in Sessions, NEW i \in 1 .. MaxRecvs
               PROVE  refs'[<<s, i>>] = One(HasJob(s, i)') + One(HasWorker(s, i)')
    BY DEF RefsExact
  <1>1. refs[<<s, i>>] = One(HasJob(s, i)) + One(HasWorker(s, i))
    BY DEF IInv, RefsExact
  <1>2. CASE OnNewConnect(t) \/ OnDisconnect(t)
    <2>1. PICK id \in {"newUserData", "deleteUserData"} :
              Push([id |-> id, targetID |-> t, packet |-> NoPacket])
      BY <1>2 DEF OnNewConnect, OnDisconnect
    <2> DEFINE j == [id |-> id, targetID |-> t, packet |-> NoPacket]
    <2>2. j \in Jobs /\ j.packet = NoPacket
      BY ContentAssumption DEF Jobs, NoPacket
    <2> HIDE DEF j
    <2>3. HasJob(s, i)' <=> HasJob(s, i)
      BY <1>2, <2>1, <2>2, HasJobAfterPush DEF OnNewConnect, OnDisconnect, NoPacket, j
    <2>4. HasWorker(s, i)' <=> HasWorker(s, i)
      BY <1>0, <1>2 DEF HasWorker, OnNewConnect, OnDisconnect, SetPhase
    <2>5. refs' = refs
      BY <1>2 DEF OnNewConnect, OnDisconnect
    <2> QED
      BY <1>1, <2>3, <2>4, <2>5 DEF One
  <1>3. CASE OnRecv(t) \/ OnRecvUnknown(t)
    <2> DEFINE n == recvs[t] + 1
    <2>1. /\ phase[t] = "open" /\ recvs' = [recvs EXCEPT ![t] = @ + 1]
          /\ phase' = [phase EXCEPT ![t] = IF OnRecv(t) THEN "receiving" ELSE "received"]
      BY <1>3 DEF OnRecv, OnRecvUnknown, CanReceive, SetPhase
    <2>2. recvs'[t] = n /\ n \in 1 .. MaxRecvs /\ recvs[t] \in Nat
      <3>1. recvs'[t] = n /\ recvs'[t] \in 0 .. MaxRecvs /\ recvs[t] \in 0 .. MaxRecvs
        BY <1>0, <2>1
      <3> QED
        BY <3>1, <1>0
    <2> HIDE DEF n
    <2>3. HasWorker(s, i)' <=> (s = t /\ i = n) \/ (s # t /\ HasWorker(s, i))
      BY <1>0, <2>1, <2>2 DEF HasWorker
    <2>4. s = t => ~HasWorker(s, i)
      BY <2>1 DEF HasWorker
    <2>5. s = t /\ i = n => ~HasJob(s, i)
      <3>1. SUFFICES ASSUME s = t, i = n, NEW j \in Alive, j.targetID = s, j.packet = i
                     PROVE  FALSE
        BY DEF HasJob
      <3>2. j.packet <= recvs[t]
        BY <3>1, AliveJobs DEF JobKnown
      <3> QED
        BY <3>1, <3>2, <2>2 DEF n
    <2>6. CASE OnRecv(t)
      <3>1. PICK j \in Requests(t, n) : Push(j)
        BY <2>2, <2>6 DEF OnRecv
      <3>2. j \in Jobs /\ j.targetID = t /\ j.packet = n
        BY <2>2, <3>1, RequestFields
      <3>3. HasJob(s, i)' <=> HasJob(s, i) \/ (s = t /\ i = n)
        BY <2>6, <3>1, <3>2, HasJobAfterPush DEF OnRecv
      <3>4. refs'[<<s, i>>] = IF s = t /\ i = n THEN 2 ELSE refs[<<s, i>>]
        BY <1>0, <2>2, <2>6 DEF OnRecv
      <3> QED
        BY <1>1, <2>3, <2>4, <2>5, <3>3, <3>4 DEF One
    <2>7. CASE OnRecvUnknown(t)
      <3>1. HasJob(s, i)' <=> HasJob(s, i)
        BY <2>7 DEF OnRecvUnknown, HasJob, Alive
      <3>2. refs'[<<s, i>>] = IF s = t /\ i = n THEN 1 ELSE refs[<<s, i>>]
        BY <1>0, <2>2, <2>7 DEF OnRecvUnknown
      <3> QED
        BY <1>1, <2>3, <2>4, <2>5, <3>1, <3>2 DEF One
    <2> QED
      BY <1>3, <2>6, <2>7
  <1>4. CASE SetEvent(t)
    <2>1. HasJob(s, i)' <=> HasJob(s, i)
      BY <1>4 DEF SetEvent, HasJob, Alive
    <2>2. HasWorker(s, i)' <=> HasWorker(s, i)
      BY <1>0, <1>4 DEF HasWorker, SetEvent, SetPhase
    <2>3. refs' = refs
      BY <1>4 DEF SetEvent
    <2> QED
      BY <1>1, <2>1, <2>2, <2>3 DEF One
  <1>5. CASE Received(t)
    <2>1. HasJob(s, i)' <=> HasJob(s, i)
      BY <1>5 DEF Received, HasJob, Alive
    <2>2. /\ HasWorker(s, i)' <=> HasWorker(s, i) /\ s # t
          /\ s = t => (HasWorker(s, i) <=> i = recvs[t])
      BY <1>0, <1>5 DEF HasWorker, Received, SetPhase
    <2>3. refs'[<<s, i>>] = IF s = t /\ i = recvs[t] THEN refs[<<s, i>>] - 1 ELSE refs[<<s, i>>]
      <3>1. <<t, recvs[t]>> \in Packets
        <4>1. recvs[t] # 0 /\ recvs[t] \in 0 .. MaxRecvs
          BY <1>0, <1>5 DEF IInv, WorkerHasPacket, Received
        <4>2. recvs[t] \in 1 .. MaxRecvs
          BY <1>0, <4>1
        <4> QED
          BY <1>0, <4>2
      <3> QED
        BY <1>0, <1>5, <3>1 DEF Received
    <2> QED
      BY <1>1, <2>1, <2>2, <2>3 DEF One
  <1> QED
    BY <1>2, <1>3, <1>4, <1>5 DEF Callback

LEMMA RefsUpdate ==
    ASSUME IInv, update
    PROVE  RefsExact'
  <1> USE DEF userVars, contentVars, otherVars
  <1>0. /\ refs \in [Packets -> Int] /\ MaxRecvs \in Nat
        /\ \A s \in Sessions, i \in 1 .. MaxRecvs : <<s, i>> \in Packets
    BY ContentAssumption DEF IInv, Typed, Packets
  <1>1. phase' = phase /\ recvs' = recvs
    BY DEF update, Pop, PopFails, Wake, DeleteJob, createNewUser, deleteUser,
           deleteMissingUser, nullUser, loginProcess, moveSector, sendMessage
  <1>2. CASE ~DeleteJob
    <2>1. Alive' = Alive
      <3>1. CASE Pop
        BY <3>1, PopEffect DEF IInv
      <3>2. CASE ~Pop
        BY <1>2, <3>2 DEF Alive, update, PopFails, Wake, createNewUser, deleteUser,
           deleteMissingUser, nullUser, loginProcess, moveSector, sendMessage
      <3> QED
        BY <3>1, <3>2
    <2>2. refs' = refs
      BY <1>2 DEF update, Pop, PopFails, Wake, createNewUser, deleteUser,
           deleteMissingUser, nullUser, loginProcess, moveSector, sendMessage
    <2> QED
      BY <1>1, <2>1, <2>2 DEF IInv, RefsExact, HasJob, HasWorker, One
  <1>3. CASE DeleteJob
    <2>1. /\ job \in Jobs /\ job # NoJob /\ job \in Alive
          /\ target \in Sessions /\ job.packet \in 0 .. MaxRecvs
          /\ jobQueue' = jobQueue /\ job' = NoJob
      BY <1>3, JobFields DEF IInv, Typed, JobHeld, DeleteJob, Alive, target
    <2>2. DOMAIN jobQueue = Queued
      BY DEF IInv, Typed, Queued
    <2>3. \A j \in Alive' : j \in Alive /\ ~Same(j, job)
      BY <2>1, <2>2 DEF Alive, IInv, JobsOnce
    <2>4. \A j \in Alive : j \in Alive' \/ j = job
      BY <2>1 DEF Alive
    <2> SUFFICES ASSUME NEW s \in Sessions, NEW i \in 1 .. MaxRecvs
                 PROVE  refs'[<<s, i>>] = One(HasJob(s, i)') + One(HasWorker(s, i)')
      BY DEF RefsExact
    <2>5. refs[<<s, i>>] = One(HasJob(s, i)) + One(HasWorker(s, i))
      BY DEF IInv, RefsExact
    <2>6. HasWorker(s, i)' <=> HasWorker(s, i)
      BY <1>1 DEF HasWorker
    <2>7. i # NoPacket
      BY DEF NoPacket
    <2>8. CASE s = target /\ i = job.packet
      <3>1. HasJob(s, i)
        BY <2>1, <2>8 DEF HasJob, target
      <3>2. ~HasJob(s, i)'
        BY <2>3, <2>7, <2>8 DEF HasJob, Same, target
      <3>3. refs'[<<s, i>>] = refs[<<s, i>>] - 1
        BY <1>0, <1>3, <2>7, <2>8 DEF DeleteJob
      <3> QED
        BY <2>5, <2>6, <3>1, <3>2, <3>3 DEF One
    <2>9. CASE ~(s = target /\ i = job.packet)
      <3>1. HasJob(s, i)' <=> HasJob(s, i)
        BY <2>3, <2>4, <2>9 DEF HasJob, target
      <3>2. refs'[<<s, i>>] = refs[<<s, i>>]
        <4>1. CASE job.packet = NoPacket
          BY <1>3, <4>1 DEF DeleteJob
        <4>2. CASE job.packet # NoPacket
          BY <1>0, <1>3, <2>9, <4>2 DEF DeleteJob
        <4> QED
          BY <4>1, <4>2
      <3> QED
        BY <2>5, <2>6, <3>1, <3>2 DEF One
    <2> QED
      BY <2>8, <2>9
  <1> QED
    BY <1>2, <1>3

-----------------------------------------------------------------------------
(* The theorems *)

LEMMA InitHolds ==
    ASSUME Init PROVE IInv
  <1>1. Users = {} /\ Cardinality(Users) = 0
    BY FS_EmptySet DEF Init, Users
  <1>2. Queued = {} /\ Len(jobQueue) = 0 /\ job = NoJob /\ cpc = "pop" /\ Alive = {}
    BY DEF Init, Queued, Alive
  <1>3. Typed
    <2>1. recvs \in [Sessions -> 0 .. MaxRecvs] /\ refs \in [Packets -> Int]
      BY ContentAssumption DEF Init
    <2>2. /\ sectorGrid \in [Visited -> SUBSET Sessions] /\ jobQueue \in Seq(Jobs)
          /\ sent \in [kind : {"none", "login", "moveSector", "sendMessage"}, to : SUBSET Sessions]
      BY DEF Init, NoPacketSent
    <2> QED
      BY <2>1, <2>2 DEF Init, Typed
  <1>4. JobsOnce /\ JobsKnown /\ JobHeld /\ WorkerHasPacket
    BY <1>2 DEF Init, JobsOnce, JobsKnown, JobHeld, WorkerHasPacket
  <1>5. NotMadeYet
    BY <1>1 DEF NotMadeYet
  <1>6. TablesAgree
    BY <1>1 DEF Init, TablesAgree
  <1>7. RefsExact
    <2> SUFFICES ASSUME NEW s \in Sessions, NEW i \in 1 .. MaxRecvs
                 PROVE  refs[<<s, i>>] = One(HasJob(s, i)) + One(HasWorker(s, i))
      BY DEF RefsExact
    <2>1. <<s, i>> \in Packets
      BY DEF Packets
    <2>2. ~HasJob(s, i) /\ ~HasWorker(s, i)
      BY <1>2 DEF Init, HasJob, HasWorker
    <2> QED
      BY <2>1, <2>2 DEF Init, One
  <1> QED
    BY <1>3, <1>4, <1>5, <1>6, <1>7 DEF IInv

LEMMA StepHolds ==
    ASSUME IInv, [Next]_vars PROVE IInv'
  <1>1. CASE \E s \in Sessions : Callback(s)
    <2>1. PICK s \in Sessions : Callback(s)
      BY <1>1
    <2>2. Typed'
      BY <2>1, TypedPush, TypedCallback DEF Callback
    <2> QED
      BY <2>1, <2>2, JobsCallback, NotMadeCallback, TablesCallback, RefsCallback DEF IInv, JobsOK
  <1>2. CASE ~crashed /\ update
    BY <1>2, TypedUpdate, JobsUpdate, NotMadeUpdate, TablesUpdate, RefsUpdate DEF IInv, JobsOK
  <1>3. CASE UNCHANGED vars
    <2> USE <1>3 DEF vars, userVars, contentVars
    <2>1. Typed' /\ JobsOnce' /\ JobsKnown' /\ JobHeld' /\ WorkerHasPacket'
      BY DEF IInv, Typed, JobsOnce, JobsKnown, JobHeld, WorkerHasPacket, Queued
    <2>2. NotMadeYet' /\ TablesAgree'
      BY DEF IInv, NotMadeYet, TablesAgree, Users, Queued, Pending, Queues, Handling
    <2>3. RefsExact'
      <3>1. Alive' = Alive
        BY DEF Alive
      <3> QED
        BY <3>1 DEF IInv, RefsExact, HasJob, HasWorker, One
    <2> QED
      BY <2>1, <2>2, <2>3 DEF IInv
  <1> QED
    BY <1>1, <1>2, <1>3 DEF Next

LEMMA InvariantHolds == Spec => []IInv
  BY InitHolds, StepHolds, PTL DEF Spec

\* The state of the content thread and of the callbacks keeps its types.
THEOREM ContentTypeCorrect == Spec => []TypeOK
  <1>1. ASSUME IInv PROVE TypeOK
    <2>1. refs \in [Packets -> 0 .. 2]
      <3>1. ASSUME NEW x \in Packets PROVE refs[x] \in 0 .. 2
        <4>1. PICK s \in Sessions, i \in 1 .. MaxRecvs : x = <<s, i>>
          BY DEF Packets
        <4>2. refs[x] = One(HasJob(s, i)) + One(HasWorker(s, i))
          BY <1>1, <4>1 DEF IInv, RefsExact
        <4> QED
          BY <4>2 DEF One
      <3> QED
        BY <1>1, <3>1 DEF IInv, Typed
    <2> QED
      BY <1>1, <2>1 DEF IInv, Typed, TypeOK
  <1> QED
    BY <1>1, InvariantHolds, PTL

\* Users, mapping table, sector sets and pool agree for any number of sessions
\* and sectors, and whatever order jobQueue hands the jobs out in.
THEOREM TablesStayInStep == Spec => []TablesAgree
  BY InvariantHolds, PTL DEF IInv

\* A packet is never freed under the worker or the job that refers to it, and
\* no reference is left when both are done.
THEOREM PacketsAreHeld == Spec => []PacketsHeldByJobs
  <1>1. ASSUME IInv PROVE PacketsHeldByJobs
    <2> DEFINE held(s, i) == {j \in Alive : j.targetID = s /\ j.packet = i}
    <2>1. ASSUME NEW s \in Sessions, NEW i \in 1 .. MaxRecvs
          PROVE  Cardinality(held(s, i)) = One(HasJob(s, i))
      <3>1. \A j, k \in held(s, i) : j = k
        <4>1. i # NoPacket
          BY DEF NoPacket
        <4>2. \A j, k \in held(s, i) : Same(j, k)
          BY <4>1 DEF Same
        <4>3. DOMAIN jobQueue = Queued
          BY <1>1 DEF IInv, Typed, Queued
        <4> QED
          BY <1>1, <4>2, <4>3 DEF IInv, JobsOnce, Alive, Same
      <3>2. CASE HasJob(s, i)
        <4>1. PICK j \in Alive : j.targetID = s /\ j.packet = i
          BY <3>2 DEF HasJob
        <4>2. held(s, i) = {j}
          BY <3>1, <4>1
        <4> QED
          BY <3>2, <4>2, FS_Singleton DEF One
      <3>3. CASE ~HasJob(s, i)
        <4>1. held(s, i) = {}
          BY <3>3 DEF HasJob
        <4> QED
          BY <3>3, <4>1, FS_EmptySet DEF One
      <3> QED
        BY <3>2, <3>3
    <2>2. ASSUME NEW s \in Sessions, NEW i \in 1 .. MaxRecvs
          PROVE  refs[<<s, i>>] = Cardinality(held(s, i)) +
                     (IF recvs[s] = i /\ phase[s] \in {"receiving", "received"} THEN 1 ELSE 0)
      <3>1. refs[<<s, i>>] = One(HasJob(s, i)) + One(HasWorker(s, i))
        BY <1>1 DEF IInv, RefsExact
      <3>2. One(HasWorker(s, i)) = IF recvs[s] = i /\ phase[s] \in {"receiving", "received"} THEN 1 ELSE 0
        BY DEF One, HasWorker
      <3> QED
        BY <2>1, <3>1, <3>2
    <2> QED
      BY <2>2 DEF PacketsHeldByJobs, Alive
  <1> QED
    BY <1>1, InvariantHolds, PTL

\* A message goes to exactly the users around the sender, wherever the sectors are.
THEOREM MessagesGoAround == Spec => MessageReachesNeighbours
  <1> DEFINE Around(s, u) ==
                 /\ userMap[u].sector # NoSector /\ userMap[s].sector # NoSector
                 /\ \A i \in 1 .. 2 : userMap[s].sector[i] - userMap[u].sector[i] \in -1 .. 1
  <1>1. ASSUME IInv, sendMessage
        PROVE  findNeighbor(target) = {s \in Users : Around(s, target)}
    <2>1. target \in Users
      BY <1>1 DEF sendMessage
    <2>2. /\ \A s \in Users : userMap[s].sector = NoSector \/ userMap[s].sector \in Positions
          /\ \A x \in Positions : sectorGrid[x] = {s \in Users : userMap[s].sector = x}
      BY <1>1, UserFields DEF IInv, TablesAgree, Visited
    <2>3. CASE userMap[target].sector = NoSector
      BY <2>3 DEF findNeighbor
    <2>4. CASE userMap[target].sector # NoSector
      <3> DEFINE near == neighborSectors(userMap[target].sector) \intersect Positions
      <3>1. findNeighbor(target) = UNION {sectorGrid[x] : x \in near}
        BY <2>4 DEF findNeighbor, Visited
      <3>2. ASSUME NEW x \in Positions
            PROVE  x \in near <=> \A i \in 1 .. 2 : x[i] - userMap[target].sector[i] \in -1 .. 1
        BY ContentAssumption DEF neighborSectors
      <3>3. NoSector \notin Positions
        BY Sectors
      <3> HIDE DEF near
      <3>4. ASSUME NEW s \in Users
            PROVE  Around(s, target) <=> \E x \in near : s \in sectorGrid[x]
        <4>1. near \subseteq Positions
          BY DEF near
        <4>2. (\E x \in near : s \in sectorGrid[x]) <=> userMap[s].sector \in near
          BY <2>2, <4>1
        <4>3. CASE userMap[s].sector = NoSector
          BY <3>3, <4>1, <4>2, <4>3
        <4>4. CASE userMap[s].sector \in Positions
          BY <2>4, <3>2, <3>3, <4>2, <4>4
        <4> QED
          BY <2>2, <4>3, <4>4
      <3>5. \A x \in near : sectorGrid[x] \subseteq Users
        BY <2>2 DEF near
      <3> QED
        BY <3>1, <3>4, <3>5
    <2> QED
      BY <2>3, <2>4
  <1>2. ASSUME IInv, sendMessage
        PROVE  sent'.to = {s \in Users : Around(s, target)}
    <2>1. sent'.to = findNeighbor(target)
      BY <1>2 DEF sendMessage, Sends
    <2> QED
      BY <1>1, <1>2, <2>1
  <1>3. IInv => [sendMessage =>
                     sent'.to = {s \in Users :
                                   /\ userMap[target].sector # NoSector
                                   /\ userMap[s].sector # NoSector
                                   /\ \A i \in 1 .. 2 :
                                          userMap[s].sector[i] - userMap[target].sector[i] \in -1 .. 1}]_vars
    BY <1>2
  <1> HIDE DEF Around
  <1> QED
    BY <1>3, InvariantHolds, PTL DEF MessageReachesNeighbours

-----------------------------------------------------------------------------
(* Jobs in order *)

LEMMA InOrderPush ==
    ASSUME IInv, InOrder, NEW j \in Jobs, Push(j), job' = job, overtaken' = overtaken,
           \A k \in Alive : Before(k, j)
    PROVE  InOrder'
  <1> DEFINE n == Len(jobQueue) + 1
  <1>1. /\ Len(jobQueue) \in Nat /\ Len(jobQueue') = n
        /\ \A i \in Queued : jobQueue'[i] = jobQueue[i]
        /\ jobQueue'[n] = j
    BY PushEffect DEF IInv
  <1>2. Queued' = Queued \union {n} /\ \A i \in Queued' : ~(n < i)
    BY <1>1 DEF Queued
  <1>3. /\ \A i \in Queued : jobQueue[i] \in Alive
        /\ job # NoJob => job \in Alive
    BY DEF IInv, Typed, Alive, Queued
  <1> HIDE DEF n
  <1>4. ASSUME NEW i \in Queued', NEW k \in Queued', i < k
        PROVE  Before(jobQueue'[i], jobQueue'[k])
    <2>1. i \in Queued
      BY <1>2, <1>4
    <2>2. CASE k = n
      BY <1>1, <1>3, <2>1, <2>2
    <2>3. CASE k \in Queued
      BY <1>1, <1>4, <2>1, <2>3 DEF InOrder
    <2> QED
      BY <1>2, <2>2, <2>3
  <1>5. job' # NoJob /\ job'.targetID \notin overtaken' => \A k \in Queued' : Before(job', jobQueue'[k])
    BY <1>1, <1>2, <1>3 DEF InOrder
  <1> QED
    BY <1>4, <1>5 DEF InOrder

LEMMA OrderCallback ==
    ASSUME IInv, OrderInv, NEW t \in Sessions, Callback(t)
    PROVE  OrderInv'
  <1> USE DEF userVars, contentVars
  <1>0. /\ phase \in [Sessions -> {"none", "opening", "open", "receiving", "received", "closing", "closed"}]
        /\ \A s \in Sessions \ {t} : phase'[s] = phase[s]
        /\ Users' = Users /\ overtaken' = overtaken
    BY DEF IInv, Typed, Users, Callback, OnNewConnect, OnDisconnect, OnRecv, OnRecvUnknown,
           SetEvent, Received, SetPhase
  <1>1. ASSUME NEW j \in Jobs, Push(j), job' = job, cpc' = cpc, j.targetID = t,
               \A k \in Alive : Before(k, j),
               j.id = "newUserData" \/ (phase[t] = "open" /\ j.id # "newUserData")
        PROVE  OrderInv'
    <2>1. \A id, s : Pending(id, s)' <=> Pending(id, s) \/ (j.id = id /\ j.targetID = s)
      BY <1>1, PendingAfterPush
    <2>2. ASSUME NEW s \in Sessions \ overtaken, Expects(s)'
          PROVE  (s \in Users \/ Pending("newUserData", s))'
      <3>1. CASE s = t /\ j.id = "newUserData"
        BY <1>1, <2>1, <3>1
      <3>2. CASE s = t /\ phase[t] = "open"
        BY <1>0, <2>1, <3>2 DEF OrderInv, UserInTime, Expects
      <3>3. CASE s # t
        <4>1. Expects(s)
          BY <1>0, <1>1, <2>1, <2>2, <3>3 DEF Expects
        <4> QED
          BY <1>0, <2>1, <4>1 DEF OrderInv, UserInTime
      <3> QED
        BY <1>1, <3>1, <3>2, <3>3
    <2> QED
      BY <1>0, <1>1, <2>2, InOrderPush DEF OrderInv, UserInTime
  <1>2. CASE OnNewConnect(t)
    <2> DEFINE j == [id |-> "newUserData", targetID |-> t, packet |-> NoPacket]
    <2>1. j \in Jobs /\ j.targetID = t /\ j.id = "newUserData"
      BY ContentAssumption DEF Jobs, NoPacket
    <2> HIDE DEF j
    <2>2. Push(j) /\ job' = job /\ cpc' = cpc /\ phase[t] = "none"
      BY <1>2 DEF OnNewConnect, j
    <2>3. \A k \in Alive : Before(k, j)
      BY <2>1, <2>2, AliveJobs DEF Before, JobKnown
    <2> QED
      BY <1>1, <2>1, <2>2, <2>3
  <1>3. CASE OnDisconnect(t)
    <2> DEFINE j == [id |-> "deleteUserData", targetID |-> t, packet |-> NoPacket]
    <2>1. j \in Jobs /\ j.targetID = t /\ j.id # "newUserData"
      BY ContentAssumption DEF Jobs, NoPacket
    <2> HIDE DEF j
    <2>2. Push(j) /\ job' = job /\ cpc' = cpc /\ phase[t] = "open"
      BY <1>3 DEF OnDisconnect, j
    <2>3. \A k \in Alive : Before(k, j)
      BY <2>1, <2>2, AliveJobs DEF Before, JobKnown
    <2> QED
      BY <1>1, <2>1, <2>2, <2>3
  <1>4. CASE OnRecv(t)
    <2>1. phase[t] = "open" /\ job' = job /\ cpc' = cpc
      BY <1>4 DEF OnRecv, CanReceive
    <2>2. recvs'[t] \in 1 .. MaxRecvs
      <3>1. recvs' = [recvs EXCEPT ![t] = @ + 1] /\ recvs[t] < MaxRecvs
        BY <1>4 DEF OnRecv, CanReceive
      <3>2. recvs[t] \in 0 .. MaxRecvs /\ recvs'[t] = recvs[t] + 1
        BY <3>1 DEF IInv, Typed
      <3> QED
        BY <3>1, <3>2, ContentAssumption
    <2>3. PICK j \in Requests(t, recvs'[t]) : Push(j)
      BY <1>4 DEF OnRecv
    <2>4. j \in Jobs /\ j.targetID = t /\ j.id # "newUserData"
      BY <2>2, <2>3, RequestFields
    <2>5. \A k \in Alive : Before(k, j)
      BY <2>1, <2>4, AliveJobs DEF Before, JobKnown
    <2> QED
      BY <1>1, <2>1, <2>3, <2>4, <2>5
  <1>5. CASE OnRecvUnknown(t) \/ SetEvent(t) \/ Received(t)
    <2>1. jobQueue' = jobQueue /\ job' = job /\ cpc' = cpc
      BY <1>5 DEF OnRecvUnknown, SetEvent, Received
    <2>2. phase'[t] \in {"opening", "open", "receiving", "received"}
              => phase[t] \in {"opening", "open", "receiving", "received"}
      BY <1>0, <1>5 DEF OnRecvUnknown, CanReceive, SetEvent, Received, SetPhase
    <2>3. \A id, s : Pending(id, s)' <=> Pending(id, s)
      BY <2>1 DEF Pending, Queues, Handling, Queued
    <2>4. \A s \in Sessions : Expects(s)' => Expects(s)
      BY <1>0, <2>2, <2>3 DEF Expects
    <2>5. InOrder'
      BY <1>0, <2>1 DEF OrderInv, InOrder, Queued
    <2> QED
      BY <1>0, <2>3, <2>4, <2>5 DEF OrderInv, UserInTime
  <1> QED
    BY <1>2, <1>3, <1>4, <1>5 DEF Callback

\* A job that is handled finds its user, if the jobs of its session are in order.
LEMMA UserIsThere ==
    ASSUME IInv, OrderInv PROVE HandledJobHasUser
  <1> SUFFICES ASSUME cpc = "handle", target \notin overtaken PROVE job.id = "newUserData" <=> target \notin Users
    BY DEF HandledJobHasUser
  <1>1. job \in Jobs /\ target \in Sessions /\ job # NoJob /\ Pending(job.id, target)
    BY TargetIsSession, JobFields DEF Pending, Handling, target
  <1>2. CASE job.id = "newUserData"
    BY <1>1, <1>2 DEF IInv, NotMadeYet
  <1>3. CASE job.id # "newUserData"
    <2>1. Expects(target)
      BY <1>1, <1>3, JobFields DEF Expects
    <2>2. ~Pending("newUserData", target)
      BY <1>1, <1>3 DEF Pending, Queues, Handling, OrderInv, InOrder, Before, target
    <2> QED
      BY <1>1, <1>3, <2>1, <2>2 DEF OrderInv, UserInTime
  <1> QED
    BY <1>2, <1>3

LEMMA OrderUpdate ==
    ASSUME IInv, OrderInv, update
    PROVE  OrderInv'
  <1> USE DEF userVars, contentVars, otherVars
  <1>0. phase' = phase
    BY DEF update, Pop, PopFails, Wake, DeleteJob, createNewUser, deleteUser,
           deleteMissingUser, nullUser, loginProcess, moveSector, sendMessage
  <1>1. CASE Pop
    <2> DEFINE at(i, k) == IF k < i THEN k ELSE k + 1
    <2>1. PICK i \in Queued :
              /\ job' = jobQueue[i] /\ overtaken \subseteq overtaken'
              /\ job'.targetID \notin overtaken' =>
                     \A k \in Queued : k < i => jobQueue[k].targetID # job'.targetID
              /\ Len(jobQueue') = Len(jobQueue) - 1
              /\ \A k \in Queued' : jobQueue'[k] = jobQueue[at(i, k)]
      BY <1>1, PopEffect DEF IInv
    <2>2. Len(jobQueue) \in Nat
      BY DEF IInv, Typed
    <2>3. \A k \in Queued' : at(i, k) \in Queued /\ (at(i, k) < i \/ i < at(i, k))
      BY <2>1, <2>2 DEF Queued
    <2>4. \A k, n \in Queued' : k < n => at(i, k) < at(i, n)
      BY <2>2 DEF Queued
    <2> HIDE DEF at
    <2>5. InOrder'
      <3>1. \A k, n \in Queued' : k < n => Before(jobQueue'[k], jobQueue'[n])
        BY <2>1, <2>3, <2>4 DEF OrderInv, InOrder
      <3>2. ASSUME job'.targetID \notin overtaken', NEW k \in Queued'
            PROVE  Before(job', jobQueue'[k])
        <4>1. CASE at(i, k) < i
          BY <2>1, <2>3, <3>2, <4>1 DEF Before
        <4>2. CASE i < at(i, k)
          BY <2>1, <2>3, <4>2 DEF OrderInv, InOrder
        <4> QED
          BY <2>3, <4>1, <4>2
      <3> QED
        BY <3>1, <3>2 DEF InOrder
    <2>6. Users' = Users
      BY <1>1 DEF Users, Pop
    <2> QED
      BY <1>0, <1>1, <2>1, <2>5, <2>6, PendingAfterPop DEF OrderInv, UserInTime, Expects
  <1>2. CASE ~Pop
    <2>1. /\ jobQueue' = jobQueue /\ job' \in {job, NoJob} /\ overtaken' = overtaken
          /\ cpc' = "handle" => cpc = "handle" /\ job' = job
      BY <1>2 DEF update, PopFails, Wake, DeleteJob, createNewUser, deleteUser,
           deleteMissingUser, nullUser, loginProcess, moveSector, sendMessage, Handles
    <2>2. InOrder'
      BY <2>1 DEF OrderInv, InOrder, Queued
    <2>3. \A id, s : /\ Pending(id, s)' => Pending(id, s)
                     /\ Pending(id, s) => Pending(id, s)' \/ (Handling(id, s) /\ cpc' # "handle")
      BY <2>1 DEF Pending, Queues, Handling, Queued
    <2>4. \A s : Expects(s)' => Expects(s)
      BY <1>0, <2>3 DEF Expects
    <2>5. ASSUME NEW s \in Sessions \ overtaken, Expects(s)'
          PROVE  (s \in Users \/ Pending("newUserData", s))'
      <3>1. s \in Users \/ Pending("newUserData", s)
        BY <2>4, <2>5 DEF OrderInv, UserInTime
      <3>2. CASE createNewUser
        <4>1. Users' = Users \union {target}
          BY <3>2, UsersStep
        <4> QED
          BY <2>3, <3>1, <4>1 DEF Handling, target
      <3>3. CASE deleteUser
        <4>1. Users' = Users \ {target} /\ cpc = "handle" /\ cpc' = "delete" /\ job.id = "deleteUserData"
          BY <3>3, UsersStep DEF deleteUser, Handles
        <4>2. job \in Jobs /\ job # NoJob /\ target \in Sessions
          BY <4>1, TargetIsSession, JobFields
        <4>3. s # target
          <5> SUFFICES ASSUME s = target PROVE FALSE
            OBVIOUS
          <5>1. ASSUME NEW id PROVE ~Queues(id, s)
            <6>1. \A k \in Queued : ~(job.targetID = jobQueue[k].targetID)
              BY <4>1, <4>2 DEF OrderInv, InOrder, Before, target
            <6> QED
              BY <6>1 DEF Queues, target
          <5>2. ASSUME NEW id PROVE ~Pending(id, s)'
            BY <2>1, <4>1, <5>1 DEF Pending, Queues, Handling, Queued
          <5>3. phase[s] \in {"closing", "closed"}
            BY <4>1, <4>2 DEF IInv, JobsKnown, JobKnown, target
          <5> QED
            BY <1>0, <2>5, <5>2, <5>3 DEF Expects
        <4> QED
          BY <2>3, <3>1, <4>1, <4>3 DEF Handling
      <3>4. CASE ~createNewUser /\ ~deleteUser
        <4>1. Users' = Users
          BY <3>4, UsersStep
        <4>2. Handling("newUserData", s) => cpc' = "handle"
          BY <1>2, <3>4 DEF Handling, update, PopFails, Wake, DeleteJob, deleteMissingUser,
                 nullUser, loginProcess, moveSector, sendMessage, Handles
        <4> QED
          BY <2>3, <3>1, <4>1, <4>2
      <3> QED
        BY <3>2, <3>3, <3>4
    <2> QED
      BY <2>1, <2>2, <2>5 DEF OrderInv, UserInTime
  <1> QED
    BY <1>1, <1>2

\* Whatever order jobQueue hands the jobs out in, a job is handled while its user
\* exists unless one job of its session overtook another of the same session: the
\* errors that the handlers log have no other cause, and neither has an entry that
\* userMap[_id] makes.
THEOREM EveryJobHasItsUser == Spec => []HandledJobHasUser
  <1>1. Init => IInv /\ OrderInv
    <2>1. ASSUME Init PROVE OrderInv
      BY <2>1 DEF Init, OrderInv, InOrder, UserInTime, Expects, Pending, Queues, Handling, Queued
    <2> QED
      BY <2>1, InitHolds
  <1>2. IInv /\ OrderInv /\ [Next]_vars => (IInv /\ OrderInv)'
    <2> SUFFICES ASSUME IInv, OrderInv, [Next]_vars PROVE OrderInv'
      BY StepHolds
    <2>1. CASE Next
      BY <2>1, OrderCallback, OrderUpdate DEF Next
    <2>2. CASE UNCHANGED vars
      BY <2>2 DEF vars, userVars, contentVars, OrderInv, InOrder, UserInTime, Expects, Users,
             Pending, Queues, Handling, Queued
    <2> QED
      BY <2>1, <2>2
  <1> QED
    BY <1>1, <1>2, UserIsThere, PTL DEF Spec
==============================================================================
