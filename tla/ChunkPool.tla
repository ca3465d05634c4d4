------------------------------ MODULE ChunkPool ------------------------------
(***************************************************************************)
(* What the threads share of an object pool (objectPool.h, chunkPool.h):   *)
(* the stack of full chunk blocks that starts at topBlock, the stack s of  *)
(* empty ones, and the counters in front of them.  A thread's local pool   *)
(* takes a block's nodes when it runs short (AllocChunk) and gives back    *)
(* as many when it has too many (FreeChunk).                               *)
(*                                                                         *)
(* The nodes of a block are one batch here: which nodes those are, and the *)
(* local pools, are left out.  A pointer in a stack carries the number of  *)
(* the push that put it there; the 16 bits of that number do not wrap.     *)
(* A step is one interlocked operation or one access to a word that other  *)
(* threads change.  A push reads the top and stores it in its own block in *)
(* one step: a thread that still reads that block has a key that does not  *)
(* come back, so its compare-and-swap fails whatever it read.              *)
(***************************************************************************)
EXTENDS Integers, FiniteSets

CONSTANTS
    Threads,
    InitBlocks,  \* chunk blocks the constructor makes
    MaxCalls     \* bound: calls of AllocChunk and FreeChunk

ASSUME ChunkPoolAssumption ==
    /\ IsFiniteSet(Threads)
    /\ InitBlocks \in Nat
    /\ MaxCalls \in Nat

\* A call makes at most one block and one batch of nodes.
Blocks  == 1 .. InitBlocks + MaxCalls
Batches == Blocks
NoBatch == 0

\* A block's pointer with the number of its push.
MAKE_KEY(block, pushNo) == <<block, pushNo>>
MAKE_NODEPTR(key)       == key[1]
Null == <<0, 0>>

VARIABLES
    \* ObjectPool
    topBlock, useBlockCount, maxBlockCount, uniqueCount,
    \* chunkBlockPool s
    chunkBlockPoolTop, chunkBlockPoolSize, chunkBlockPoolUniqeCounter,
    \* chunkBlock: its link in a stack, its nodes, and 1 or 0 for all nodes or none
    nextChunkBlock, headNodePtr, curSize,
    thread,           \* control point and locals of each thread
    blocks, batches,  \* made so far
    out,              \* batches in the local pools
    calls,
    countGrew         \* history: maxBlockCount grew under a comparison with it

mainVars  == <<topBlock, useBlockCount, maxBlockCount, uniqueCount>>
emptyVars == <<chunkBlockPoolTop, chunkBlockPoolSize, chunkBlockPoolUniqeCounter>>
chunkVars == <<nextChunkBlock, headNodePtr, curSize>>
bookVars  == <<blocks, batches, out, calls, countGrew>>
vars == <<mainVars, emptyVars, chunkVars, thread, bookVars>>

Pcs == {"idle", "test", "top", "next", "pop", "renew", "take", "emptyRead", "emptyPush",
        "emptyCount", "claim", "undo", "emptyTop", "emptyNext", "emptyPop", "fill",
        "read", "push", "count", "crashed"}

\* Locals are reset when they are read no more.
Idle == [pc |-> "idle", ret |-> "idle", use |-> 0, max |-> 0, block |-> 0, key |-> Null,
         tempTop |-> Null, nextTop |-> Null, batch |-> NoBatch]

\* The constructor pushes its blocks one after the other.
Init ==
    /\ topBlock = MAKE_KEY(InitBlocks, InitBlocks)
    /\ uniqueCount = InitBlocks
    /\ maxBlockCount = InitBlocks /\ useBlockCount = 0
    /\ chunkBlockPoolTop = Null
    /\ chunkBlockPoolSize = 0 /\ chunkBlockPoolUniqeCounter = 0
    /\ nextChunkBlock = [b \in Blocks |->
           IF b \in 2 .. InitBlocks THEN MAKE_KEY(b - 1, b - 1) ELSE Null]
    /\ headNodePtr = [b \in Blocks |-> IF b <= InitBlocks THEN b ELSE NoBatch]
    /\ curSize = [b \in Blocks |-> IF b <= InitBlocks THEN 1 ELSE 0]
    /\ thread = [t \in Threads |-> Idle]
    /\ blocks = InitBlocks /\ batches = InitBlocks
    /\ out = {} /\ calls = 0 /\ countGrew = FALSE

----------------------------------------------------------------------------
(* AllocChunk: one use more; when all blocks but one are in use, a new one. *)

AllocChunk(t) ==
    /\ thread[t].pc = "idle" /\ calls < MaxCalls
    /\ calls' = calls + 1
    /\ useBlockCount' = useBlockCount + 1
    /\ thread' = [thread EXCEPT ![t].pc = "test", ![t].use = useBlockCount',
                                ![t].max = maxBlockCount]
    /\ UNCHANGED <<topBlock, maxBlockCount, uniqueCount, emptyVars, chunkVars,
                   blocks, batches, out, countGrew>>

\* maxBlockCount is read after the increment, and may have grown since: max, which
\* the code has not, is what it was.
TestCount(t) ==
    LET use == thread[t].use
        at  == [thread[t] EXCEPT !.use = 0, !.max = 0]
    IN
    /\ thread[t].pc = "test"
    /\ thread' = [thread EXCEPT ![t] = IF use >= maxBlockCount
                     THEN [at EXCEPT !.pc = "claim", !.ret = "renew"]
                     ELSE [at EXCEPT !.pc = "top"]]
    /\ countGrew' = (countGrew \/ (use >= thread[t].max /\ use < maxBlockCount))
    /\ UNCHANGED <<mainVars, emptyVars, chunkVars, blocks, batches, out, calls>>

ReadTop(t) ==
    /\ thread[t].pc = "top"
    /\ thread' = [thread EXCEPT ![t].pc = "next", ![t].tempTop = topBlock]
    /\ UNCHANGED <<mainVars, emptyVars, chunkVars, bookVars>>

ReadNext(t) ==
    /\ thread[t].pc = "next" /\ thread[t].tempTop # Null
    /\ thread' = [thread EXCEPT ![t].pc = "pop",
                     ![t].nextTop = nextChunkBlock[MAKE_NODEPTR(thread[t].tempTop)]]
    /\ UNCHANGED <<mainVars, emptyVars, chunkVars, bookVars>>

\* There is no block: the read of its link ends the process.
ReadNull(t) ==
    /\ thread[t].pc = "next" /\ thread[t].tempTop = Null
    /\ thread' = [thread EXCEPT ![t].pc = "crashed"]
    /\ UNCHANGED <<mainVars, emptyVars, chunkVars, bookVars>>

PopBlock(t) ==
    /\ thread[t].pc = "pop"
    /\ \/ /\ topBlock = thread[t].tempTop
          /\ topBlock' = thread[t].nextTop
          /\ thread' = [thread EXCEPT ![t] =
                 [Idle EXCEPT !.pc = "take", !.block = MAKE_NODEPTR(thread[t].tempTop)]]
       \/ /\ topBlock # thread[t].tempTop
          /\ thread' = [thread EXCEPT ![t].pc = "top", ![t].tempTop = Null,
                                      ![t].nextTop = Null]
          /\ UNCHANGED topBlock
    /\ UNCHANGED <<useBlockCount, maxBlockCount, uniqueCount, emptyVars, chunkVars,
                   bookVars>>

\* newChunkBlock: reAlloc makes the nodes a block from s lacks.
NewChunkBlock(t) ==
    LET b == thread[t].block IN
    /\ thread[t].pc = "renew"
    /\ batches' = batches + 1 - curSize[b]
    /\ headNodePtr' = [headNodePtr EXCEPT ![b] = IF curSize[b] = 0 THEN batches' ELSE @]
    /\ curSize' = [curSize EXCEPT ![b] = 1]
    /\ maxBlockCount' = maxBlockCount + 1
    /\ thread' = [thread EXCEPT ![t].pc = "take"]
    /\ UNCHANGED <<topBlock, useBlockCount, uniqueCount, emptyVars, nextChunkBlock,
                   blocks, out, calls, countGrew>>

\* The nodes go to the thread, which may use them when s has the block again.
TakeNodes_KeepsSize(t) ==
    LET b == thread[t].block IN
    /\ thread[t].pc = "take"
    /\ chunkBlockPoolUniqeCounter' = chunkBlockPoolUniqeCounter + 1
    /\ thread' = [thread EXCEPT ![t].pc = "emptyRead", ![t].batch = headNodePtr[b],
                                ![t].key = MAKE_KEY(b, chunkBlockPoolUniqeCounter')]
    /\ UNCHANGED <<mainVars, chunkBlockPoolTop, chunkBlockPoolSize, chunkVars,
                   bookVars>>

TakeNodes(t) ==
    LET b == thread[t].block IN
    /\ thread[t].pc = "take"
    /\ curSize' = [curSize EXCEPT ![b] = 0]
    /\ chunkBlockPoolUniqeCounter' = chunkBlockPoolUniqeCounter + 1
    /\ thread' = [thread EXCEPT ![t].pc = "emptyRead", ![t].batch = headNodePtr[b],
                                ![t].key = MAKE_KEY(b, chunkBlockPoolUniqeCounter')]
    /\ UNCHANGED <<mainVars, chunkBlockPoolTop, chunkBlockPoolSize, nextChunkBlock,
                   headNodePtr, bookVars>>

----------------------------------------------------------------------------
(* s.push *)

EmptyRead(t) ==
    /\ thread[t].pc = "emptyRead"
    /\ nextChunkBlock' = [nextChunkBlock EXCEPT ![thread[t].block] = chunkBlockPoolTop]
    /\ thread' = [thread EXCEPT ![t].pc = "emptyPush", ![t].tempTop = chunkBlockPoolTop]
    /\ UNCHANGED <<mainVars, emptyVars, headNodePtr, curSize, bookVars>>

EmptyPush(t) ==
    /\ thread[t].pc = "emptyPush"
    /\ \/ /\ chunkBlockPoolTop = thread[t].tempTop
          /\ chunkBlockPoolTop' = thread[t].key
          /\ thread' = [thread EXCEPT ![t].pc = "emptyCount"]
       \/ /\ chunkBlockPoolTop # thread[t].tempTop
          /\ thread' = [thread EXCEPT ![t].pc = "emptyRead", ![t].tempTop = Null,
                                      ![t].nextTop = Null]
          /\ UNCHANGED chunkBlockPoolTop
    /\ UNCHANGED <<mainVars, chunkBlockPoolSize, chunkBlockPoolUniqeCounter, chunkVars,
                   bookVars>>

EmptyCount(t) ==
    /\ thread[t].pc = "emptyCount"
    /\ chunkBlockPoolSize' = chunkBlockPoolSize + 1
    /\ out' = out \cup {thread[t].batch}
    /\ thread' = [thread EXCEPT ![t] = Idle]
    /\ UNCHANGED <<mainVars, chunkBlockPoolTop, chunkBlockPoolUniqeCounter, chunkVars,
                   blocks, batches, calls, countGrew>>

(* s.pop, called by newChunkBlock and by FreeChunk: it takes its share of the *)
(* count first, and then a block, which must be there.                        *)

Claim_OldValue(t) ==
    /\ thread[t].pc = "claim"
    /\ chunkBlockPoolSize' = chunkBlockPoolSize - 1
    /\ thread' = [thread EXCEPT ![t].pc =
                     IF chunkBlockPoolSize < 0 THEN "undo" ELSE "emptyTop"]
    /\ UNCHANGED <<mainVars, chunkBlockPoolTop, chunkBlockPoolUniqeCounter, chunkVars,
                   bookVars>>

Claim(t) ==
    /\ thread[t].pc = "claim"
    /\ chunkBlockPoolSize' = chunkBlockPoolSize - 1
    /\ thread' = [thread EXCEPT ![t].pc =
                     IF chunkBlockPoolSize' < 0 THEN "undo" ELSE "emptyTop"]
    /\ UNCHANGED <<mainVars, chunkBlockPoolTop, chunkBlockPoolUniqeCounter, chunkVars,
                   bookVars>>

\* There was none: a new chunkBlock.
NewBlock_NoUndo(t) ==
    /\ thread[t].pc = "undo"
    /\ blocks' = blocks + 1
    /\ thread' = [thread EXCEPT ![t] =
           [Idle EXCEPT !.pc = thread[t].ret, !.batch = thread[t].batch, !.block = blocks']]
    /\ UNCHANGED <<mainVars, emptyVars, chunkVars, batches, out, calls, countGrew>>

NewBlock(t) ==
    /\ thread[t].pc = "undo"
    /\ chunkBlockPoolSize' = chunkBlockPoolSize + 1
    /\ blocks' = blocks + 1
    /\ thread' = [thread EXCEPT ![t] =
           [Idle EXCEPT !.pc = thread[t].ret, !.batch = thread[t].batch, !.block = blocks']]
    /\ UNCHANGED <<mainVars, chunkBlockPoolTop, chunkBlockPoolUniqeCounter, chunkVars,
                   batches, out, calls, countGrew>>

EmptyTop(t) ==
    /\ thread[t].pc = "emptyTop"
    /\ thread' = [thread EXCEPT ![t].pc = "emptyNext", ![t].tempTop = chunkBlockPoolTop]
    /\ UNCHANGED <<mainVars, emptyVars, chunkVars, bookVars>>

EmptyNext(t) ==
    /\ thread[t].pc = "emptyNext"
    /\ thread' = [thread EXCEPT ![t].pc = "emptyPop",
                     ![t].nextTop = nextChunkBlock[MAKE_NODEPTR(thread[t].tempTop)]]
    /\ UNCHANGED <<mainVars, emptyVars, chunkVars, bookVars>>

EmptyPop_BlockOnly(t) ==
    /\ thread[t].pc = "emptyPop"
    /\ \/ /\ MAKE_NODEPTR(chunkBlockPoolTop) = MAKE_NODEPTR(thread[t].tempTop)
          /\ chunkBlockPoolTop' = thread[t].nextTop
          /\ thread' = [thread EXCEPT ![t] =
                 [Idle EXCEPT !.pc = thread[t].ret, !.batch = thread[t].batch,
                              !.block = MAKE_NODEPTR(thread[t].tempTop)]]
       \/ /\ MAKE_NODEPTR(chunkBlockPoolTop) # MAKE_NODEPTR(thread[t].tempTop)
          /\ thread' = [thread EXCEPT ![t].pc = "emptyTop", ![t].tempTop = Null,
                                      ![t].nextTop = Null]
          /\ UNCHANGED chunkBlockPoolTop
    /\ UNCHANGED <<mainVars, chunkBlockPoolSize, chunkBlockPoolUniqeCounter, chunkVars,
                   bookVars>>

EmptyPop(t) ==
    /\ thread[t].pc = "emptyPop"
    /\ \/ /\ chunkBlockPoolTop = thread[t].tempTop
          /\ chunkBlockPoolTop' = thread[t].nextTop
          /\ thread' = [thread EXCEPT ![t] =
                 [Idle EXCEPT !.pc = thread[t].ret, !.batch = thread[t].batch,
                              !.block = MAKE_NODEPTR(thread[t].tempTop)]]
       \/ /\ chunkBlockPoolTop # thread[t].tempTop
          /\ thread' = [thread EXCEPT ![t].pc = "emptyTop", ![t].tempTop = Null,
                                      ![t].nextTop = Null]
          /\ UNCHANGED chunkBlockPoolTop
    /\ UNCHANGED <<mainVars, chunkBlockPoolSize, chunkBlockPoolUniqeCounter, chunkVars,
                   bookVars>>

----------------------------------------------------------------------------
(* FreeChunk, with as many nodes as a block has. *)

FreeChunk(t) ==
    /\ thread[t].pc = "idle" /\ calls < MaxCalls
    /\ calls' = calls + 1
    /\ \E b \in out :
           /\ out' = out \ {b}
           /\ thread' = [thread EXCEPT ![t].pc = "claim", ![t].ret = "fill", ![t].batch = b]
    /\ UNCHANGED <<mainVars, emptyVars, chunkVars, blocks, batches, countGrew>>

\* The block gets the nodes, and a new number.
Fill(t) ==
    LET b == thread[t].block IN
    /\ thread[t].pc = "fill"
    /\ headNodePtr' = [headNodePtr EXCEPT ![b] = thread[t].batch]
    /\ curSize' = [curSize EXCEPT ![b] = 1]
    /\ uniqueCount' = uniqueCount + 1
    /\ thread' = [thread EXCEPT ![t].pc = "read", ![t].batch = NoBatch,
                                ![t].key = MAKE_KEY(b, uniqueCount')]
    /\ UNCHANGED <<topBlock, useBlockCount, maxBlockCount, emptyVars, nextChunkBlock,
                   bookVars>>

PushRead(t) ==
    /\ thread[t].pc = "read"
    /\ nextChunkBlock' = [nextChunkBlock EXCEPT ![thread[t].block] = topBlock]
    /\ thread' = [thread EXCEPT ![t].pc = "push", ![t].tempTop = topBlock]
    /\ UNCHANGED <<mainVars, emptyVars, headNodePtr, curSize, bookVars>>

PushBlock(t) ==
    /\ thread[t].pc = "push"
    /\ \/ /\ topBlock = thread[t].tempTop
          /\ topBlock' = thread[t].key
          /\ thread' = [thread EXCEPT ![t].pc = "count"]
       \/ /\ topBlock # thread[t].tempTop
          /\ thread' = [thread EXCEPT ![t].pc = "read", ![t].tempTop = Null,
                                      ![t].nextTop = Null]
          /\ UNCHANGED topBlock
    /\ UNCHANGED <<useBlockCount, maxBlockCount, uniqueCount, emptyVars, chunkVars,
                   bookVars>>

PushCount(t) ==
    /\ thread[t].pc = "count"
    /\ useBlockCount' = useBlockCount - 1
    /\ thread' = [thread EXCEPT ![t] = Idle]
    /\ UNCHANGED <<topBlock, maxBlockCount, uniqueCount, emptyVars, chunkVars, bookVars>>

PopFull(t)  == TestCount(t) \/ ReadTop(t) \/ ReadNext(t) \/ ReadNull(t) \/ PopBlock(t)
PopEmpty(t) == Claim(t) \/ NewBlock(t) \/ EmptyTop(t) \/ EmptyNext(t) \/ EmptyPop(t)
PushEmpty(t) == EmptyRead(t) \/ EmptyPush(t) \/ EmptyCount(t)
PushFull(t) == Fill(t) \/ PushRead(t) \/ PushBlock(t) \/ PushCount(t)

Begin(t)    == AllocChunk(t) \/ FreeChunk(t)
Continue(t) == PopFull(t) \/ NewChunkBlock(t) \/ TakeNodes(t)
                   \/ PushEmpty(t) \/ PopEmpty(t) \/ PushFull(t)

Running == \A t \in Threads : thread[t].pc # "crashed"
Next == Running /\ \E t \in Threads : Begin(t) \/ Continue(t)

Spec == Init /\ [][Next]_vars

----------------------------------------------------------------------------
KeyType == {Null} \cup (Blocks \X (0 .. InitBlocks + MaxCalls))

TypeOK ==
    /\ {topBlock, chunkBlockPoolTop} \subseteq KeyType
    /\ {useBlockCount, uniqueCount, chunkBlockPoolUniqeCounter} \subseteq Nat
    /\ maxBlockCount \in Nat
    /\ chunkBlockPoolSize \in Int
    /\ nextChunkBlock \in [Blocks -> KeyType]
    /\ headNodePtr \in [Blocks -> Batches \cup {NoBatch}]
    /\ curSize \in [Blocks -> {0, 1}]
    /\ thread \in [Threads ->
           [pc : Pcs, ret : {"idle", "renew", "fill"}, use : Nat, max : Nat, block : Blocks \cup {0},
            key : KeyType, tempTop : KeyType, nextTop : KeyType,
            batch : Batches \cup {NoBatch}]]
    /\ out \subseteq Batches
    /\ blocks \in Nat /\ batches \in Nat /\ calls \in 0 .. MaxCalls
    /\ countGrew \in BOOLEAN

\* The keys along the links from a top, and, if the links do not end, a
\* last one that is not Null.
Links(top) ==
    LET link[n \in 0 .. Cardinality(Blocks)] ==
            IF n = 0 THEN top
            ELSE IF link[n - 1] = Null THEN Null
            ELSE nextChunkBlock[MAKE_NODEPTR(link[n - 1])]
    IN  link
InStack(top) == {MAKE_NODEPTR(k) : k \in {Links(top)[n] : n \in DOMAIN Links(top)} \ {Null}}
Ends(top)    == Links(top)[Cardinality(Blocks)] = Null

AtPc(pcs) == {t \in Threads : thread[t].pc \in pcs}
Held(t)   == IF t \in AtPc({"renew", "take", "emptyRead", "emptyPush", "fill", "read", "push"})
             THEN {thread[t].block} ELSE {}

\* Every chunk block that was made is in one stack or with one thread, and the
\* stacks end: no compare-and-swap loses a block or links one twice, though
\* blocks go from one stack to the other and back (chunkPool.h:25, 51;
\* objectPool.h:101, 172).
EveryBlockInOnePlace ==
    /\ TypeOK
    /\ Ends(topBlock) /\ Ends(chunkBlockPoolTop)
    /\ InStack(topBlock) \cap InStack(chunkBlockPoolTop) = {}
    /\ \A t \in Threads :
           Held(t) \cap (InStack(topBlock) \cup InStack(chunkBlockPoolTop)) = {}
    /\ \A t, u \in Threads : t # u => Held(t) \cap Held(u) = {}
    /\ InStack(topBlock) \cup InStack(chunkBlockPoolTop) \cup UNION {Held(t) : t \in Threads}
           = 1 .. blocks

\* The counters tell exactly how many blocks the stacks have, up to the calls
\* that are between changing the one and the other (objectPool.h:104, 161, 192;
\* chunkPool.h:29, 38).
CountersMatchStacks ==
    /\ Cardinality(InStack(topBlock)) =
           maxBlockCount - useBlockCount
               + Cardinality(AtPc({"test", "top", "next", "pop", "crashed", "renew", "count"}))
               + Cardinality({t \in AtPc({"claim", "undo", "emptyTop", "emptyNext", "emptyPop"}) :
                                  thread[t].ret = "renew"})
    /\ Cardinality(InStack(chunkBlockPoolTop)) =
           chunkBlockPoolSize
               + Cardinality(AtPc({"undo", "emptyTop", "emptyNext", "emptyPop", "emptyCount"}))

\* A thread that goes to a stack finds a block there: the pops have no test for an
\* empty stack, only the counters keep them from it (objectPool.h:161, 169;
\* chunkPool.h:38).  Of the full blocks this is true only if maxBlockCount did not
\* grow between a thread's increment of useBlockCount and its comparison.
PopFindsBlockUnlessCountGrew ==
    /\ AtPc({"top", "next", "pop", "crashed"}) # {} => topBlock # Null \/ countGrew
    /\ AtPc({"emptyTop", "emptyNext", "emptyPop"}) # {} => chunkBlockPoolTop # Null

\* The nodes of the blocks in the stack are free, all others are out.
FreeBatches == {headNodePtr[b] : b \in InStack(topBlock)}
OutBatches  == (out \cup {thread[t].batch : t \in Threads}
                   \cup {headNodePtr[thread[t].block] : t \in AtPc({"take", "read", "push"})})
                   \ {NoBatch}
B == INSTANCE BatchPool WITH Batch <- Batches, free <- FreeBatches, out <- OutBatches

\* No two threads get the same nodes, and no nodes are lost (objectPool.h:89, 157).
IsBatchPool == B!Spec
===============================================================================
