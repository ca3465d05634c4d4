--------------------------- MODULE ChattingContent ---------------------------
(***************************************************************************)
(* The content thread (chattingContent.cpp) and the callbacks that feed it *)
(* (chattingServer.cpp): jobs go through jobQueue, the event hEvent wakes  *)
(* the thread, and it alone changes users and sectors.                     *)
(*                                                                         *)
(* The callbacks of a session come in the order NetServer checks.  jobQueue*)
(* hands out its jobs in any order, for JobQueue shows that a job may      *)
(* overtake another; overtaken records the sessions to which that happened *)
(* with two jobs of their own, and changes nothing.  Positions a client    *)
(* sends lie in the grid; the code does not test them.  A packet's contents*)
(* other than its kind, position and account are left out, and so is       *)
(* sendReq, which is in NetServer.                                         *)
(***************************************************************************)
EXTENDS Integers, Sequences, FiniteSets, Functions

CONSTANTS
    Sessions,    \* session IDs, which are the user IDs
    Accounts,    \* account numbers
    Positions,   \* bound: sectors the clients move to, of the grid 0 .. 50 squared
    MaxRecvs,    \* bound: packets a session receives
    MaxPackets   \* bound: packets the server receives

GridMax == 50
Grid == (0 .. GridMax) \X (0 .. GridMax)

ASSUME ContentAssumption ==
    /\ IsFiniteSet(Sessions)
    /\ Positions \subseteq Grid
    /\ MaxRecvs \in Nat /\ MaxPackets \in Nat

NoSector  == <<-1, -1>>
NoAccount == -1
NoUser    == [sector |-> <<-2, -2>>, AccountNo |-> -2]
NoPacket  == 0

VARIABLES
    \* content
    userMap,       \* NoUser for a session that is not a key of the map
    mappingTable,  \* keys of sessionID_userID_mappingTable
    sectorGrid,    \* the sectors that were ever visited, with their users
    userPoolUse,   \* userData objects out of userPool
    jobQueue,
    hEvent,
    cpc, job,      \* control point of the content thread, the job it handles
    sent,          \* the packet the last job sent: kind and recipients
    crashed,       \* the process ended in an access violation
    overtaken,     \* history: sessions one of whose jobs was overtaken by another of its own
    \* callbacks
    phase,         \* how far the callbacks of each session are
    recvs,         \* packets received from each session
    refs           \* reference counts of the received packets

userVars    == <<userMap, mappingTable, sectorGrid, userPoolUse>>
contentVars == <<cpc, job, sent, crashed, overtaken>>
vars == <<userVars, contentVars, jobQueue, hEvent, phase, recvs, refs>>

Packets == Sessions \X (1 .. MaxRecvs)
Users   == {s \in Sessions : userMap[s] # NoUser}
Visited == Positions

Jobs ==
    [id : {"newUserData", "deleteUserData", "sendMessage"}, targetID : Sessions,
     packet : 0 .. MaxRecvs]
      \union [id : {"login"}, targetID : Sessions, packet : 1 .. MaxRecvs, accountNo : Accounts]
      \union [id : {"moveSector"}, targetID : Sessions, packet : 1 .. MaxRecvs, sector : Positions]
NoJob    == [id |-> "none"]
NoPacketSent == [kind |-> "none", to |-> {}]

Init ==
    /\ userMap = [s \in Sessions |-> NoUser]
    /\ mappingTable = {}
    /\ sectorGrid = [x \in Visited |-> {}]
    /\ userPoolUse = 0
    /\ jobQueue = <<>>
    /\ hEvent = FALSE
    /\ cpc = "pop" /\ job = NoJob /\ sent = NoPacketSent /\ crashed = FALSE
    /\ overtaken = {}
    /\ phase = [s \in Sessions |-> "none"]
    /\ recvs = [s \in Sessions |-> 0]
    /\ refs  = [p \in Packets |-> 0]

-----------------------------------------------------------------------------
\* Callbacks.  Each pushes its job, then sets the event, then returns.

Push(j) == jobQueue' = Append(jobQueue, j)
SetPhase(s, to) == phase' = [phase EXCEPT ![s] = to]

OnNewConnect(s) ==
    /\ phase[s] = "none"
    /\ Push([id |-> "newUserData", targetID |-> s, packet |-> NoPacket])
    /\ SetPhase(s, "opening")
    /\ UNCHANGED <<userVars, contentVars, hEvent, recvs, refs>>

OnDisconnect(s) ==
    /\ phase[s] = "open"
    /\ Push([id |-> "deleteUserData", targetID |-> s, packet |-> NoPacket])
    /\ SetPhase(s, "closing")
    /\ UNCHANGED <<userVars, contentVars, hEvent, recvs, refs>>

Requests(s, p) ==
    [id : {"login"}, targetID : {s}, packet : {p}, accountNo : Accounts]
      \union [id : {"moveSector"}, targetID : {s}, packet : {p}, sector : Positions]
      \union [id : {"sendMessage"}, targetID : {s}, packet : {p}]

CanReceive(s) ==
    /\ phase[s] = "open" /\ recvs[s] < MaxRecvs
    /\ FoldFunction(LAMBDA n, sum : n + sum, 0, recvs) < MaxPackets

\* Mutant of OnRecv: the job takes no reference of its own.
OnRecv_NoIncrement(s) ==
    /\ CanReceive(s)
    /\ recvs' = [recvs EXCEPT ![s] = @ + 1]
    /\ refs' = [refs EXCEPT ![<<s, recvs'[s]>>] = 1]
    /\ \E j \in Requests(s, recvs'[s]) : Push(j)
    /\ SetPhase(s, "receiving")
    /\ UNCHANGED <<userVars, contentVars, hEvent>>

\* Mutant of OnRecv: a worker still takes a packet while another runs OnDisconnect.
OnRecv_WhileClosing(s) ==
    /\ recvs[s] < MaxRecvs /\ phase[s] \in {"open", "closing"}
    /\ recvs' = [recvs EXCEPT ![s] = @ + 1]
    /\ refs' = [refs EXCEPT ![<<s, recvs'[s]>>] = 2]
    /\ \E j \in Requests(s, recvs'[s]) : Push(j)
    /\ SetPhase(s, "receiving")
    /\ UNCHANGED <<userVars, contentVars, hEvent>>

\* The worker holds one reference to the packet and the job takes another.
OnRecv(s) ==
    /\ CanReceive(s)
    /\ recvs' = [recvs EXCEPT ![s] = @ + 1]
    /\ refs' = [refs EXCEPT ![<<s, recvs'[s]>>] = 2]
    /\ \E j \in Requests(s, recvs'[s]) : Push(j)
    /\ SetPhase(s, "receiving")
    /\ UNCHANGED <<userVars, contentVars, hEvent>>

\* A packet of an unknown type makes no job; disconnectReq is in NetServer.
OnRecvUnknown(s) ==
    /\ CanReceive(s)
    /\ recvs' = [recvs EXCEPT ![s] = @ + 1]
    /\ refs' = [refs EXCEPT ![<<s, recvs'[s]>>] = 1]
    /\ SetPhase(s, "received")
    /\ UNCHANGED <<userVars, contentVars, jobQueue, hEvent>>

\* Mutant of SetEvent: OnDisconnect does not set the event.
SetEvent_NotOnClose(s) ==
    /\ phase[s] \in {"opening", "receiving", "closing"}
    /\ hEvent' = (hEvent \/ phase[s] # "closing")
    /\ SetPhase(s, CASE phase[s] = "opening" -> "open"
                     [] phase[s] = "receiving" -> "received"
                     [] phase[s] = "closing" -> "closed")
    /\ UNCHANGED <<userVars, contentVars, jobQueue, recvs, refs>>

SetEvent(s) ==
    /\ phase[s] \in {"opening", "receiving", "closing"}
    /\ hEvent' = TRUE
    /\ SetPhase(s, CASE phase[s] = "opening" -> "open"
                     [] phase[s] = "receiving" -> "received"
                     [] phase[s] = "closing" -> "closed")
    /\ UNCHANGED <<userVars, contentVars, jobQueue, recvs, refs>>

\* The worker drops its reference after OnRecv.
Received(s) ==
    /\ phase[s] = "received"
    /\ refs' = [refs EXCEPT ![<<s, recvs[s]>>] = @ - 1]
    /\ SetPhase(s, "open")
    /\ UNCHANGED <<userVars, contentVars, jobQueue, hEvent, recvs>>

Callback(s) ==
    \/ OnNewConnect(s) \/ OnDisconnect(s) \/ OnRecv(s) \/ OnRecvUnknown(s)
    \/ SetEvent(s) \/ Received(s)

-----------------------------------------------------------------------------
\* The content thread

\* The jobs before the one that is popped are overtaken.
Pop ==
    /\ cpc = "pop" /\ jobQueue # <<>>
    /\ \E i \in DOMAIN jobQueue :
           /\ job' = jobQueue[i]
           /\ overtaken' = overtaken \union
                  ({job'.targetID} \intersect {jobQueue[k].targetID : k \in 1 .. i - 1})
           /\ jobQueue' = SubSeq(jobQueue, 1, i - 1) \o SubSeq(jobQueue, i + 1, Len(jobQueue))
    /\ cpc' = "handle"
    /\ UNCHANGED <<userVars, sent, crashed, hEvent, phase, recvs, refs>>

PopFails ==
    /\ cpc = "pop" /\ jobQueue = <<>>
    /\ cpc' = "wait"
    /\ UNCHANGED <<userVars, job, sent, crashed, overtaken, jobQueue, hEvent, phase, recvs, refs>>

\* WaitForSingleObject on an event that resets itself.
Wake ==
    /\ cpc = "wait" /\ hEvent
    /\ hEvent' = FALSE
    /\ cpc' = "pop"
    /\ UNCHANGED <<userVars, job, sent, crashed, overtaken, jobQueue, phase, recvs, refs>>

Handles(id) == cpc = "handle" /\ job.id = id /\ cpc' = "delete"
target == job.targetID
otherVars == <<job, overtaken, jobQueue, hEvent, phase, recvs, refs>>
Sends(kind, to) == sent' = [kind |-> kind, to |-> to]

createNewUser ==
    /\ Handles("newUserData")
    /\ userPoolUse' = userPoolUse + 1
    /\ userMap' = [userMap EXCEPT ![target] = [sector |-> NoSector, AccountNo |-> NoAccount]]
    /\ mappingTable' = mappingTable \union {target}
    /\ UNCHANGED <<sectorGrid, sent, crashed, otherVars>>

Leave(s) == [x \in Visited |-> IF x = userMap[s].sector THEN sectorGrid[x] \ {s} ELSE sectorGrid[x]]

\* Mutant of deleteUser: the user stays in the set of its sector.
deleteUser_KeepsSector ==
    /\ Handles("deleteUserData") /\ target \in Users
    /\ mappingTable' = mappingTable \ {target}
    /\ userMap' = [userMap EXCEPT ![target] = NoUser]
    /\ userPoolUse' = userPoolUse - 1
    /\ UNCHANGED <<sectorGrid, crashed, sent, otherVars>>

\* The user's entry is erased before its userData is read through the iterator
\* for userPool.Delete: the pointer is still there, or it is not and the pool's
\* check of it faults.
deleteUser ==
    /\ Handles("deleteUserData") /\ target \in Users
    /\ sectorGrid' = Leave(target)
    /\ mappingTable' = mappingTable \ {target}
    /\ userMap' = [userMap EXCEPT ![target] = NoUser]
    /\ \/ userPoolUse' = userPoolUse - 1 /\ UNCHANGED crashed
       \/ crashed' = TRUE /\ UNCHANGED userPoolUse
    /\ UNCHANGED <<sent, otherVars>>

deleteMissingUser ==
    /\ Handles("deleteUserData") /\ target \notin Users
    /\ UNCHANGED <<userVars, sent, crashed, otherVars>>

\* userMap[_id] makes an entry with a null pointer before find looks for it.
nullUser ==
    /\ cpc = "handle" /\ job.id \in {"login", "moveSector", "sendMessage"} /\ target \notin Users
    /\ crashed' = TRUE
    /\ UNCHANGED <<userVars, cpc, sent, otherVars>>

loginProcess ==
    /\ Handles("login") /\ target \in Users
    /\ userMap' = [userMap EXCEPT ![target].AccountNo = job.accountNo]
    /\ Sends("login", {target})
    /\ UNCHANGED <<mappingTable, sectorGrid, userPoolUse, crashed, otherVars>>

moveSector ==
    /\ Handles("moveSector") /\ target \in Users
    /\ userMap' = [userMap EXCEPT ![target].sector = job.sector]
    /\ sectorGrid' = [Leave(target) EXCEPT ![job.sector] = @ \union {target}]
    /\ Sends("moveSector", {target})
    /\ UNCHANGED <<mappingTable, userPoolUse, crashed, otherVars>>

\* Mutant of neighborSectors: the offsets -1 are missing.
neighborSectors_NoLess(x) == {y \in Grid : y[1] - x[1] \in 0 .. 1 /\ y[2] - x[2] \in 0 .. 1}

\* The nine sectors around a position, less those outside the grid: what the
\* loops of findNeighbor go through.
neighborSectors(x) == {y \in Grid : y[1] - x[1] \in -1 .. 1 /\ y[2] - x[2] \in -1 .. 1}

findNeighbor(s) ==
    IF userMap[s].sector = NoSector THEN {}
    ELSE UNION {sectorGrid[x] : x \in neighborSectors(userMap[s].sector) \intersect Visited}

sendMessage ==
    /\ Handles("sendMessage") /\ target \in Users
    /\ Sends("sendMessage", findNeighbor(target))
    /\ UNCHANGED <<userVars, crashed, otherVars>>

\* Mutant of DeleteJob: update drops the reference, and the destructor again.
DeleteJob_DropsTwice ==
    /\ cpc = "delete"
    /\ refs' = IF job.packet = NoPacket THEN refs
               ELSE [refs EXCEPT ![<<target, job.packet>>] = @ - 2]
    /\ cpc' = "pop" /\ job' = NoJob /\ sent' = NoPacketSent
    /\ UNCHANGED <<userVars, crashed, overtaken, jobQueue, hEvent, phase, recvs>>

\* jopPool.Delete(job): the destructor drops the job's reference to its packet.
DeleteJob ==
    /\ cpc = "delete"
    /\ refs' = IF job.packet = NoPacket THEN refs
               ELSE [refs EXCEPT ![<<target, job.packet>>] = @ - 1]
    /\ cpc' = "pop" /\ job' = NoJob /\ sent' = NoPacketSent
    /\ UNCHANGED <<userVars, crashed, overtaken, jobQueue, hEvent, phase, recvs>>

update ==
    \/ Pop \/ PopFails \/ Wake \/ DeleteJob
    \/ createNewUser \/ deleteUser \/ deleteMissingUser
    \/ nullUser \/ loginProcess \/ moveSector \/ sendMessage

-----------------------------------------------------------------------------
Next == ~crashed /\ (update \/ \E s \in Sessions : Callback(s))

\* The content thread runs, and a callback that began is carried through.
Fairness ==
    /\ WF_vars(~crashed /\ update)
    /\ \A s \in Sessions : WF_vars(~crashed /\ (SetEvent(s) \/ Received(s)))

Spec == Init /\ [][Next]_vars /\ Fairness

-----------------------------------------------------------------------------
(* Properties *)

TypeOK ==
    /\ userMap \in [Sessions -> [sector : Positions \union {NoSector},
                                 AccountNo : Accounts \union {NoAccount}] \union {NoUser}]
    /\ mappingTable \subseteq Sessions
    /\ sectorGrid \in [Visited -> SUBSET Sessions]
    /\ userPoolUse \in Nat
    /\ jobQueue \in Seq(Jobs) /\ job \in Jobs \union {NoJob}
    /\ hEvent \in BOOLEAN /\ crashed \in BOOLEAN /\ overtaken \subseteq Sessions
    /\ cpc \in {"pop", "wait", "handle", "delete"}
    /\ sent \in [kind : {"none", "login", "moveSector", "sendMessage"}, to : SUBSET Sessions]
    /\ phase \in [Sessions -> {"none", "opening", "open", "receiving", "received", "closing", "closed"}]
    /\ recvs \in [Sessions -> 0 .. MaxRecvs]
    /\ refs \in [Packets -> 0 .. 2]

\* The three containers and the pool tell the same story whatever order the jobs
\* come in: a user is in the set of its sector and in no other, in the mapping
\* table, and owns one userData (deleteUser, createNewUser, moveSector).
TablesAgree ==
    /\ \A x \in Visited : sectorGrid[x] = {s \in Users : userMap[s].sector = x}
    /\ mappingTable = Users
    /\ ~crashed => userPoolUse = Cardinality(Users)

\* A chat message goes to the users whose sectors touch the sender's, itself
\* included, and to nobody who is gone: what findNeighbor collects from the
\* sector sets is what the positions in userMap say.
MessageReachesNeighbours ==
    [][sendMessage =>
        sent'.to = {s \in Users :
                      /\ userMap[target].sector # NoSector
                      /\ userMap[s].sector # NoSector
                      /\ \A i \in 1 .. 2 :
                             userMap[s].sector[i] - userMap[target].sector[i] \in -1 .. 1}]_vars

\* A packet has one reference for the worker in OnRecv and one for its job until
\* the job is deleted: the text a job points to is not freed under it, and the
\* packet does not stay when both are done, in whichever order.
PacketsHeldByJobs ==
    LET alive == {jobQueue[i] : i \in DOMAIN jobQueue} \union ({job} \ {NoJob})
        held(s, i) == Cardinality({j \in alive : j.targetID = s /\ j.packet = i})
        worker(s, i) == IF recvs[s] = i /\ phase[s] \in {"receiving", "received"} THEN 1 ELSE 0
    IN  \A s \in Sessions, i \in 1 .. MaxRecvs :
            refs[<<s, i>>] = held(s, i) + worker(s, i)

\* A job is handled while its user exists: the branches that log "no such user"
\* are not taken, and the null entry of userMap[_id] is never made, unless one job
\* of the session overtook another of its own, whatever the jobs of others do.
HandledJobHasUser ==
    cpc = "handle" =>
        target \in overtaken \/ (job.id = "newUserData" <=> target \notin Users)

\* A closed session's user goes for good, and no wake-up is lost on the way, unless
\* one job of the session overtook another of its own.
ClosedUserIsRemoved ==
    \A s \in Sessions :
        phase[s] = "closed" ~> ([](s \notin Users) \/ crashed \/ s \in overtaken)
=============================================================================
