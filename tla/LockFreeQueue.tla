---------------------------- MODULE LockFreeQueue ----------------------------
(***************************************************************************)
(* The lock-free queue of lib/IOCP netServer/LockFreeQueue.h, a session's  *)
(* sendBuffer: a linked list of nodes from a fixed pool with a dummy node  *)
(* in front.  Any number of threads push; one thread at a time pops, for   *)
(* session::sendIO pops under sendFlag and bufferClear when nobody else    *)
(* refers to the session.                                                  *)
(*                                                                         *)
(* A step is one interlocked operation or one access to a field another    *)
(* thread may write.  A key is a node with the number of the push that     *)
(* used it.  The numbers do not wrap here (the code keeps 16 bits), and so *)
(* the pool's Alloc and Free, whose compare-and-swap compares a key that   *)
(* is new at every Free, are one step each on a stack.                     *)
(***************************************************************************)
EXTENDS Integers, Sequences, FiniteSets

CONSTANTS
    PoolSize,   \* nodes of the pool, the dummy included (256 in a session)
    Producers,  \* the threads that push
    NULL,
    MaxPushes   \* bound: pushes of each producer

Nodes == 1 .. PoolSize

ASSUME QueueAssumption ==
    /\ PoolSize \in Nat \ {0}
    /\ MaxPushes \in Nat
    /\ NULL \notin Nodes \X Nat

Keys   == Nodes \X Nat
Values == Producers \X (1 .. MaxPushes)   \* the i-th value a producer pushes
MAKE_KEY(n, pushNo) == <<n, pushNo>>
MAKE_NODEPTR(k) == k[1]

VARIABLES
    key, value,      \* fields of the nodes
    _head, _tail,    \* keys
    pool,            \* np: the free nodes, top first
    _size, pushs,
    \* a producer: control point, the node it pushes with its key, what it read
    pc, newKey, tail, seen,
    \* the consumer: control point and what it read
    cpc, ctail, ckey,
    \* history
    count,           \* pushes each producer began
    returned,        \* values whose push returned true
    refused,         \* values whose push returned false
    earlier,         \* earlier[v]: the values returned when the push of v began
    popped,          \* the values pop delivered, in order
    detached         \* a push linked its node behind one that was not in the list

listVars     == <<key, value, _head, _tail, pool>>
producerVars == <<pc, newKey, tail, seen>>
consumerVars == <<cpc, ctail, ckey>>
pushedVars   == <<count, returned, refused, earlier>>
historyVars  == <<pushedVars, popped, detached>>
vars == <<listVars, _size, pushs, producerVars, consumerVars, historyVars>>

NoKey == NULL

\* The nodes from node n along the keys (one more than there are nodes if they
\* form a cycle).
ChainFrom(n) ==
    LET walk[i \in 0 .. PoolSize] ==
            IF i = 0 THEN <<n>>
            ELSE LET c == walk[i - 1]
                 IN  IF Len(c) < i \/ key[c[i]] = NULL THEN c
                     ELSE Append(c, MAKE_NODEPTR(key[c[i]]))
    IN  walk[PoolSize]
Chain == ChainFrom(MAKE_NODEPTR(_head))   \* the list, its dummy first
NodesOf(seq) == {seq[i] : i \in DOMAIN seq}
Linked == NodesOf(Chain)
Items  == [i \in 1 .. Len(Chain) - 1 |-> value[Chain[i + 1]]]

\* The value p is pushing, and the node it took for it.
Pushing(p) == <<p, count[p]>>
Mine(p)    == MAKE_NODEPTR(newKey[p])

-----------------------------------------------------------------------------
\* nodePool's constructor stacks the nodes as it creates them.
NewPool == [i \in 1 .. PoolSize |-> PoolSize + 1 - i]
PoolAlloc == pool # <<>> /\ pool' = Tail(pool)
PoolFree(n) == pool' = <<n>> \o pool

\* The queue takes the last node for its dummy.  The fields of a node that no push
\* took yet are read by nobody.
Init ==
    /\ key   = [n \in Nodes |-> NULL]
    /\ value = [n \in Nodes |-> NULL]
    /\ _head = MAKE_KEY(Head(NewPool), 0) /\ _tail = _head
    /\ pool  = Tail(NewPool)
    /\ _size = 0 /\ pushs = 0
    /\ pc     = [p \in Producers |-> "idle"]
    /\ newKey = [p \in Producers |-> NoKey]
    /\ tail   = [p \in Producers |-> NoKey]
    /\ seen   = [p \in Producers |-> NoKey]
    /\ cpc = "idle" /\ ctail = NoKey /\ ckey = NoKey
    /\ count = [p \in Producers |-> 0]
    /\ returned = {} /\ refused = {} /\ popped = <<>> /\ detached = FALSE
    /\ earlier = [v \in Values |-> {}]

Goto(p, label) == pc' = [pc EXCEPT ![p] = label]

-----------------------------------------------------------------------------
\* push

PushBegin(p) ==
    /\ pc[p] = "idle" /\ count[p] < MaxPushes
    /\ count' = [count EXCEPT ![p] = @ + 1]
    /\ pushs' = pushs + 1

NoteEarlier(p) == earlier' = [earlier EXCEPT ![<<p, count[p] + 1>>] = returned]

\* np.Alloc() finds the pool empty.
PushRefused(p) ==
    /\ PushBegin(p) /\ NoteEarlier(p)
    /\ pool = <<>>
    /\ refused' = refused \union {<<p, count[p] + 1>>}
    /\ UNCHANGED <<listVars, _size, producerVars, consumerVars, returned, popped, detached>>

PushAlloc(p) ==
    /\ PushBegin(p) /\ NoteEarlier(p)
    /\ PoolAlloc
    /\ newKey' = [newKey EXCEPT ![p] = MAKE_KEY(Head(pool), pushs')]
    /\ Goto(p, "init")
    /\ UNCHANGED <<key, value, _head, _tail, _size, tail, seen, consumerVars,
                   returned, refused, popped, detached>>

\* Mutant of PushInit: the node keeps the key of its last use.
PushInit_KeepsKey(p) ==
    /\ pc[p] = "init"
    /\ value' = [value EXCEPT ![Mine(p)] = Pushing(p)]
    /\ Goto(p, "tail")
    /\ UNCHANGED <<key, _head, _tail, pool, _size, pushs, newKey, tail, seen, consumerVars, historyVars>>

\* n->value = t; n->key = NULL;
PushInit(p) ==
    /\ pc[p] = "init"
    /\ value' = [value EXCEPT ![Mine(p)] = Pushing(p)]
    /\ key' = [key EXCEPT ![Mine(p)] = NULL]
    /\ Goto(p, "tail")
    /\ UNCHANGED <<_head, _tail, pool, _size, pushs, newKey, tail, seen, consumerVars, historyVars>>

ReadTail(p) ==
    /\ pc[p] = "tail"
    /\ tail' = [tail EXCEPT ![p] = _tail]
    /\ Goto(p, "key")
    /\ UNCHANGED <<listVars, _size, pushs, newKey, seen, consumerVars, historyVars>>

ReadKey(p) ==
    /\ pc[p] = "key"
    /\ seen' = [seen EXCEPT ![p] = key[MAKE_NODEPTR(tail[p])]]
    /\ Goto(p, IF seen'[p] = NULL THEN "link" ELSE "help")
    /\ UNCHANGED <<listVars, _size, pushs, newKey, tail, consumerVars, historyVars>>

\* Mutant of Link: a plain store of the key.
Link_NoCompare(p) ==
    /\ pc[p] = "link"
    /\ key' = [key EXCEPT ![MAKE_NODEPTR(tail[p])] = newKey[p]]
    /\ detached' = (detached \/ MAKE_NODEPTR(tail[p]) \notin Linked)
    /\ Goto(p, "swing")
    /\ UNCHANGED <<value, _head, _tail, pool, _size, pushs, newKey, tail, seen,
                   consumerVars, pushedVars, popped>>

\* Mutant of Link: the result of the compare-and-swap is not looked at.
Link_ResultIgnored(p) ==
    /\ pc[p] = "link"
    /\ LET last == MAKE_NODEPTR(tail[p])
       IN  IF key[last] = NULL
           THEN /\ key' = [key EXCEPT ![last] = newKey[p]]
                /\ detached' = (detached \/ last \notin Linked)
           ELSE UNCHANGED <<key, detached>>
    /\ Goto(p, "swing")
    /\ UNCHANGED <<value, _head, _tail, pool, _size, pushs, newKey, tail, seen,
                   consumerVars, pushedVars, popped>>

\* The compare-and-swap of the key of the node that was the tail.
Link(p) ==
    /\ pc[p] = "link"
    /\ LET last == MAKE_NODEPTR(tail[p])
       IN  IF key[last] = NULL
           THEN /\ key' = [key EXCEPT ![last] = newKey[p]]
                /\ detached' = (detached \/ last \notin Linked)
                /\ Goto(p, "swing")
           ELSE Goto(p, "tail") /\ UNCHANGED <<key, detached>>
    /\ UNCHANGED <<value, _head, _tail, pool, _size, pushs, newKey, tail, seen,
                   consumerVars, pushedVars, popped>>

\* _tail moves from what was read to the given key, unless another moved it.
SwingTail(from, to) == _tail' = IF _tail = from THEN to ELSE _tail

Swing(p) ==
    /\ pc[p] = "swing"
    /\ SwingTail(tail[p], newKey[p])
    /\ Goto(p, "size")
    /\ UNCHANGED <<key, value, _head, pool, _size, pushs, newKey, tail, seen, consumerVars, historyVars>>

Help(p) ==
    /\ pc[p] = "help"
    /\ SwingTail(tail[p], seen[p])
    /\ Goto(p, "tail")
    /\ UNCHANGED <<key, value, _head, pool, _size, pushs, newKey, tail, seen, consumerVars, historyVars>>

\* InterlockedIncrement(&_size); return true;
PushReturn(p) ==
    /\ pc[p] = "size"
    /\ _size' = _size + 1
    /\ returned' = returned \union {Pushing(p)}
    /\ Goto(p, "idle")
    /\ newKey' = [newKey EXCEPT ![p] = NoKey]
    /\ tail'   = [tail EXCEPT ![p] = NoKey]
    /\ seen'   = [seen EXCEPT ![p] = NoKey]
    /\ UNCHANGED <<listVars, pushs, consumerVars, count, refused, earlier, popped, detached>>

-----------------------------------------------------------------------------
\* pop

\* Mutant of PopBegin: the test is off by one.
PopBegin_OffByOne ==
    /\ cpc = "idle"
    /\ _size' = _size - 1
    /\ cpc' = IF _size' < -1 THEN "undo" ELSE "tail"
    /\ UNCHANGED <<listVars, pushs, producerVars, ctail, ckey, historyVars>>

PopBegin ==
    /\ cpc = "idle"
    /\ _size' = _size - 1
    /\ cpc' = IF _size' < 0 THEN "undo" ELSE "tail"
    /\ UNCHANGED <<listVars, pushs, producerVars, ctail, ckey, historyVars>>

PopUndo ==
    /\ cpc = "undo"
    /\ _size' = _size + 1
    /\ cpc' = "idle"
    /\ UNCHANGED <<listVars, pushs, producerVars, ctail, ckey, historyVars>>

PopTail ==
    /\ cpc = "tail"
    /\ ctail' = _tail
    /\ cpc' = "key"
    /\ UNCHANGED <<listVars, _size, pushs, producerVars, ckey, historyVars>>

\* Mutant of PopKey: the branch head == tail is missing.
PopKey_NoTailTest ==
    /\ cpc = "key"
    /\ ckey' = key[MAKE_NODEPTR(_head)]
    /\ cpc' = IF ckey' = NULL THEN "tail" ELSE "take"
    /\ UNCHANGED <<listVars, _size, pushs, producerVars, ctail, historyVars>>

\* The key of the dummy is NULL while a push that was counted is not reachable
\* yet: look again.
PopKey ==
    /\ cpc = "key"
    /\ ckey' = key[MAKE_NODEPTR(_head)]
    /\ cpc' = IF ckey' = NULL THEN "tail"
              ELSE IF _head = ctail THEN "help" ELSE "take"
    /\ UNCHANGED <<listVars, _size, pushs, producerVars, ctail, historyVars>>

PopHelp ==
    /\ cpc = "help"
    /\ SwingTail(ctail, key[MAKE_NODEPTR(ctail)])
    /\ cpc' = "tail"
    /\ UNCHANGED <<key, value, _head, pool, _size, pushs, producerVars, ctail, ckey, historyVars>>

\* Mutant of PopTake: the new dummy is freed, not the old one.
PopTake_FreesNext ==
    /\ cpc = "take"
    /\ _head' = ckey
    /\ PoolFree(MAKE_NODEPTR(ckey))
    /\ cpc' = "value"
    /\ UNCHANGED <<key, value, _tail, _size, pushs, producerVars, ctail, ckey, historyVars>>

\* _head = key; np.Free(head).  Nobody else uses _head.
PopTake ==
    /\ cpc = "take"
    /\ _head' = ckey
    /\ PoolFree(MAKE_NODEPTR(_head))
    /\ cpc' = "value"
    /\ UNCHANGED <<key, value, _tail, _size, pushs, producerVars, ctail, ckey, historyVars>>

\* *t = MAKE_NODEPTR(key)->value; return true;
PopReturn ==
    /\ cpc = "value"
    /\ popped' = Append(popped, value[MAKE_NODEPTR(ckey)])
    /\ cpc' = "idle" /\ ctail' = NoKey /\ ckey' = NoKey
    /\ UNCHANGED <<listVars, _size, pushs, producerVars, pushedVars, detached>>

-----------------------------------------------------------------------------
Push(p) ==
    \/ PushRefused(p) \/ PushAlloc(p) \/ PushInit(p) \/ ReadTail(p) \/ ReadKey(p)
    \/ Link(p) \/ Swing(p) \/ Help(p) \/ PushReturn(p)

PopLoop == PopUndo \/ PopTail \/ PopKey \/ PopHelp \/ PopTake \/ PopReturn
Pop == PopBegin \/ PopLoop

Next == Pop \/ \E p \in Producers : Push(p)

\* A thread in push or pop is scheduled; nobody has to begin one.
Fairness ==
    /\ WF_vars(PopLoop)
    /\ \A p \in Producers : WF_vars(pc[p] # "idle" /\ Push(p))

Spec == Init /\ [][Next]_vars /\ Fairness
-----------------------------------------------------------------------------
(* Properties *)

TypeOK ==
    /\ key \in [Nodes -> Keys \union {NULL}] /\ value \in [Nodes -> Values \union {NULL}]
    /\ _head \in Keys /\ _tail \in Keys
    /\ pool \in Seq(Nodes)
    /\ _size \in Int /\ pushs \in Nat
    /\ pc \in [Producers -> {"idle", "init", "tail", "key", "link", "help", "swing", "size"}]
    /\ newKey \in [Producers -> Keys \union {NoKey}]
    /\ tail \in [Producers -> Keys \union {NoKey}]
    /\ seen \in [Producers -> Keys \union {NoKey}]
    /\ cpc \in {"idle", "undo", "tail", "key", "help", "take", "value"}
    /\ ctail \in Keys \union {NoKey} /\ ckey \in Keys \union {NoKey}
    /\ count \in [Producers -> 0 .. MaxPushes]
    /\ returned \subseteq Values /\ refused \subseteq Values
    /\ earlier \in [Values -> SUBSET Values]
    /\ popped \in Seq(Values)
    /\ detached \in BOOLEAN

\* The nodes that hang on the node p has not linked yet: itself and, if pushes
\* that had read it as the tail in its last use linked theirs behind it, those.
Hanging(p) ==
    CASE pc[p] = "init" -> {Mine(p)}
      [] pc[p] \in {"tail", "key", "link", "help"} -> NodesOf(ChainFrom(Mine(p)))
      [] OTHER -> {}

\* Every node is at all times in exactly one place: free, in the list, or on
\* its way into the list with one push.  So no push writes into a node that
\* another uses and none is lost (np.Free in pop, Alloc in push).
EveryNodeInOnePlace ==
    /\ TypeOK
    /\ \A i, j \in DOMAIN pool : pool[i] = pool[j] => i = j
    /\ NodesOf(pool) \intersect Linked = {}
    /\ \A p \in Producers :
           /\ Hanging(p) \intersect (NodesOf(pool) \union Linked) = {}
           /\ \A q \in Producers \ {p} : Hanging(p) \intersect Hanging(q) = {}
    /\ Nodes = NodesOf(pool) \union Linked \union UNION {Hanging(p) : p \in Producers}

\* _tail never leaves the list, although pushes move it late and pops move the
\* front past the nodes it pointed at (the test head == tail in pop).
TailInList == MAKE_NODEPTR(_tail) \in Linked

\* A value whose push returned is delivered once: it was popped, is being
\* popped, is in the list, or hangs on a node that is about to be linked.
NothingLostOrDoubled ==
    LET taken   == IF cpc = "value" THEN <<value[MAKE_NODEPTR(ckey)]>> ELSE <<>>
        queued  == popped \o taken \o Items
        busy    == {p \in Producers : pc[p] # "idle"}
        hanging == UNION {{value[n] : n \in Hanging(p) \ {Mine(p)}} : p \in busy}
    IN  /\ \A i, j \in DOMAIN queued : queued[i] = queued[j] => i = j
        /\ NodesOf(queued) \intersect (hanging \union refused) = {}
        /\ returned \subseteq NodesOf(queued) \union hanging

\* If the push of u returned before the push of v began, v is not delivered
\* before u, except when a push linked its node to one that was freed and taken
\* again after the push had read it as the tail: the compare-and-swap of key
\* sees NULL again.
OvertakenOnlyIfDetached ==
    \/ detached
    \/ \A i \in DOMAIN popped :
           earlier[popped[i]] \subseteq {popped[j] : j \in 1 .. i - 1}

\* Whatever the pushes and the pop do, the list behaves as a queue of values.
Fifo == INSTANCE FifoQueue WITH items <- Items
IsFifo == Fifo!Spec

\* A pop that was promised a value by _size gets one: it spins only while a push
\* has its node to link, a tail is behind, or a node hangs on one not linked.
PopReturns == cpc \in {"tail", "key", "help", "take", "value"} ~> cpc = "idle"

=============================================================================
