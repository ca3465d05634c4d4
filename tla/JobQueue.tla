------------------------------- MODULE JobQueue -------------------------------
(***************************************************************************)
(* The queue of lockFreeJobQueue.h through which the accept thread and the *)
(* workers (chattingServer.cpp) hand their jobs to the content thread.     *)
(* Its push and pop are those of LockFreeQueue line for line, but for the  *)
(* end mark (this), the pool, which grows and gives nodes back in any      *)
(* order, and the pop, which reads the value before it moves _head.        *)
(*                                                                         *)
(* A session's callbacks come from Network: OnNewConnect returns before    *)
(* the first OnRecv, one OnRecv at a time, OnDisconnect after the last     *)
(* (NetServer!RecvBetweenCallbacks, NetServer!CallbacksInOrder).           *)
(***************************************************************************)
EXTENDS LockFreeQueue

CONSTANTS
    AcceptThread,    \* the producer that calls OnNewConnect
    Sessions,        \* session IDs
    MaxJobs          \* bound: jobs pushed in a behaviour

ASSUME JobAssumption == AcceptThread \in Producers /\ MaxJobs \in Nat

VARIABLES
    job,     \* job[v]: the job a producer pushes as value v
    phase    \* how far the callbacks of each session are

jobVars == <<job, phase>>
allVars == <<vars, jobVars>>

JobIDs == {"newUserData", "recv", "deleteUserData"}   \* recv: login, moveSector or sendMessage
Jobs == [id : JobIDs, targetID : Sessions]
NextValue(p) == <<p, count[p] + 1>>

JobInit ==
    /\ Init
    /\ job = [v \in Values |-> NULL]
    /\ phase = [s \in Sessions |-> "none"]

\* np.Alloc() on the shared pool returns any free node.
Alloc(p) ==
    \E i \in DOMAIN pool :
        /\ pool' = SubSeq(pool, 1, i - 1) \o SubSeq(pool, i + 1, Len(pool))
        /\ newKey' = [newKey EXCEPT ![p] = MAKE_KEY(pool[i], pushs + 1)]

\* A callback makes its job and begins push.
JobPush(p, id, s, next) ==
    /\ pushs < MaxJobs
    /\ PushBegin(p)                  \* earlier is not needed here
    /\ Alloc(p)
    /\ Goto(p, "init")
    /\ job' = [job EXCEPT ![NextValue(p)] = [id |-> id, targetID |-> s]]
    /\ phase' = [phase EXCEPT ![s] = next]
    /\ UNCHANGED <<key, value, _head, _tail, _size, tail, seen, consumerVars,
                   returned, refused, earlier, popped, detached>>

OnNewConnect(p, s) ==
    /\ p = AcceptThread /\ phase[s] = "none"
    /\ JobPush(p, "newUserData", s, "opening")

\* Mutant of OnRecv: the accept thread starts the first receive before it calls
\* OnNewConnect, so a worker may call OnRecv while it is in there.
OnRecv_Early(p, s) ==
    /\ p # AcceptThread /\ phase[s] \in {"opening", "open"}
    /\ JobPush(p, "recv", s, "receiving")

OnRecv(p, s) ==
    /\ p # AcceptThread /\ phase[s] = "open"
    /\ JobPush(p, "recv", s, "receiving")

OnDisconnect(p, s) ==
    /\ phase[s] = "open"
    /\ JobPush(p, "deleteUserData", s, "closing")

\* push returns InterlockedIncrement(&_size), and the callback with it.
CallbackReturn(p) ==
    /\ PushReturn(p)
    /\ phase' = [phase EXCEPT ![job[Pushing(p)].targetID] =
                     IF @ = "closing" THEN "closed" ELSE "open"]
    /\ UNCHANGED job

Callback(p) ==
    \/ \E s \in Sessions : OnNewConnect(p, s) \/ OnRecv(p, s) \/ OnDisconnect(p, s)
    \/ CallbackReturn(p)

PushLoop(p) == PushInit(p) \/ ReadTail(p) \/ ReadKey(p) \/ Link(p) \/ Swing(p) \/ Help(p)

\* t = value; _head moves; np.Free(head).  The node is in the list, so its value
\* is the same at each of the three.
JobTake ==
    /\ cpc = "take"
    /\ _head' = ckey
    /\ PoolFree(MAKE_NODEPTR(_head))
    /\ popped' = Append(popped, value[MAKE_NODEPTR(ckey)])
    /\ cpc' = "idle" /\ ctail' = NoKey /\ ckey' = NoKey
    /\ UNCHANGED <<key, value, _tail, _size, pushs, producerVars, pushedVars, detached>>

JobPop == PopBegin \/ PopUndo \/ PopTail \/ PopKey \/ PopHelp \/ JobTake

JobNext ==
    \/ \E p \in Producers : Callback(p) \/ (PushLoop(p) /\ UNCHANGED jobVars)
    \/ JobPop /\ UNCHANGED jobVars

JobSpec == JobInit /\ [][JobNext]_allVars

-----------------------------------------------------------------------------
(* Properties *)

JobTypeOK ==
    /\ TypeOK
    /\ job \in [Values -> Jobs \union {NULL}]
    /\ phase \in [Sessions -> {"none", "opening", "open", "receiving", "closing", "closed"}]

Delivered == [i \in DOMAIN popped |-> job[popped[i]]]

\* The content gets a session's newUserData before any other job of it, and
\* nothing after its deleteUserData: update() and what it calls rely on it.
SessionJobsInOrder ==
    \A i, j \in DOMAIN Delivered :
        (i < j /\ Delivered[i].targetID = Delivered[j].targetID)
            => /\ Delivered[j].id # "newUserData"
               /\ Delivered[i].id # "deleteUserData"

\* What loginProcess, moveSector, sendMessage and deleteUser log as the error
\* that cannot be ("there is nothing to delete?"): a job whose user was never made.
EveryJobFindsItsUser ==
    \A j \in DOMAIN Delivered :
        Delivered[j].id # "newUserData" =>
            \E i \in 1 .. j - 1 :
                Delivered[i] = [id |-> "newUserData", targetID |-> Delivered[j].targetID]

\* The jobs of a session come in the order of its callbacks, through several
\* threads, unless a push linked to a node that was freed and taken again.
JobsInOrderUnlessDetached ==
    /\ JobTypeOK
    /\ detached \/ (SessionJobsInOrder /\ EveryJobFindsItsUser)
===============================================================================
