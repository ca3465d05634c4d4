--------------------------- MODULE NetServerProofs ---------------------------
(***************************************************************************)
(* The inductive invariant of NetServer and the theorems that follow from  *)
(* it: the types, RefCountExact, HeldSessionIsLive and                     *)
(* OneOperationAtATime; then SlotOwnedOnce, the order of the callbacks and *)
(* the reuse of slots.                                                     *)
(***************************************************************************)
EXTENDS NetServer, FiniteSetTheorems, SequenceTheorems, TLAPS

SessLabels ==
    {"init_flags", "init_clear", "new_connect",
     "recv_chk", "recv_wsa", "recv_again", "recv_fail", "recv_cancel", "recv_dec",
     "send_chk", "send_xchg", "send_size", "send_undo", "send_wsa", "send_again",
     "send_reset", "send_fail", "send_cancel", "send_dec",
     "sended", "sent", "sent_late", "sent_more", "loop", "kick", "kick_cancel", "dec"}

\* Inside recvIO and sendIO, which always return to the handler's last step.
IOProcLabels == SessLabels \ {"init_flags", "init_clear", "new_connect",
                              "loop", "kick", "kick_cancel", "dec"}

FoundLabels == {"find_id", "found", "disc_cancel", "drop"}
InitStage   == {"init_id", "init_inc", "init_flags", "init_clear"}
DelStage    == {"del_clear", "del_push"}
OwnLabels   == InitStage \union DelStage
SubLabels   == {"find", "del_cas", "del_notify"} \union DelStage \union FoundLabels

\* Which pointers a thread holds at each control point.
ControlAt(t) ==
    /\ pc[t] \in SessLabels => sess[t] \in Slots
    /\ pc[t] \in {"idle", "init_id", "init_inc"} => sess[t] = NoSlot
    /\ pc[t] \in SubLabels => (sess[t] = NoSlot <=> ret[t] = "idle")
    /\ pc[t] \in FoundLabels <=> found[t] \in Slots
    /\ pc[t] \in OwnLabels \union {"del_cas"} <=> tgt[t] \in Slots
    /\ pc[t] \in InitLabels => sess[t] = tgt[t]
    /\ pc[t] \in InitStage \union {"new_connect"} => t = AcceptThread
    /\ pc[t] \in IOProcLabels => ret[t] = "dec"
    /\ ret[t] \in {"idle", "dec", "loop"}
ControlOK == \A t \in Threads : ControlAt(t)

\* A slot with a reference that is not a passing findSession's is not released.
LiveAt(t) ==
    /\ sess[t] # NoSlot /\ pc[t] \notin InitLabels => ~released[sess[t]]
    /\ pc[t] \in {"find_id", "found", "disc_cancel"} => ~released[found[t]]
    /\ pc[t] \in {"found", "disc_cancel"} => ID[found[t]] = want[t]
Busy(s) == recvOv[s] # "idle" \/ sendOv[s] # "idle" \/ posts[s] > 0
Live == /\ \A t \in Threads : LiveAt(t)
        /\ \A s \in Slots : Busy(s) => ~released[s]

InStack(s) == \E i \in 1 .. Len(indexStack) : indexStack[i] = s

\* indexStack and the owning threads share no slot.
StackDistinct == \A i, j \in 1 .. Len(indexStack) : i # j => indexStack[i] # indexStack[j]
OwnerOffStack == \A t \in Threads : pc[t] \in OwnLabels => ~InStack(tgt[t])
OwnersDiffer  == \A t, u \in Threads :
    t # u /\ pc[t] \in OwnLabels /\ pc[u] \in OwnLabels => tgt[t] # tgt[u]
DeletesReleased == \A t \in Threads : pc[t] \in DelStage => released[tgt[t]]
Owned == StackDistinct /\ OwnerOffStack /\ OwnersDiffer /\ DeletesReleased

\* A slot that was never used, or is being initialised for the first time: not
\* released, and nobody knows an ID of it.
Fresh(s) == /\ ~released[s]
            /\ InStack(s) \/ \E t \in Threads : pc[t] \in InitStage /\ tgt[t] = s
FreshUnknown ==
    \A s \in Slots : Fresh(s) =>
       /\ \A id \in opened : GET_INDEX(id) # s
       /\ \A t \in Threads : /\ found[t] # s
                             /\ pc[t] = "del_cas" => tgt[t] # s
                             /\ sess[t] = s => pc[t] \in InitLabels
       /\ ~Busy(s)

\* The content knows the IDs that are looked up, and those of live sessions.
ToldAt(t) ==
    /\ pc[t] \in {"find", "find_id", "found", "disc_cancel"} => want[t] \in opened
    /\ pc[t] \in InitStage => GET_INDEX(want[t]) = tgt[t]
    /\ pc[t] \in InitStage \ {"init_id"} => ID[tgt[t]] = want[t]
    /\ pc[t] = "new_connect" => ID[sess[t]] = want[t] /\ GET_INDEX(want[t]) = sess[t]
    /\ sess[t] # NoSlot /\ pc[t] \notin InitLabels \union {"new_connect"} =>
          ID[sess[t]] \in opened
Told == /\ \A t \in Threads : ToldAt(t)
        /\ \A s \in Slots : Busy(s) => ID[s] \in opened

\* The receive of a session passes from the thread that starts it to the kernel
\* and to the worker that handles its completion; sendFlag guards the send.
RecvHolds(t) == \/ pc[t] \in RecvLabels
                \/ pc[t] \in SubLabels /\ ret[t] = "loop"
RecvIdle == \A t \in Threads : RecvHolds(t) => recvOv[sess[t]] = "idle"
RecvOnce == \A t, u \in Threads :
    t # u /\ RecvHolds(t) /\ RecvHolds(u) => sess[t] # sess[u]
SendGuarded == \A t \in Threads : pc[t] \in SendLabels =>
    sendOv[sess[t]] = "idle" /\ sendFlag[sess[t]]
SendOnce == \A t, u \in Threads :
    t # u /\ pc[t] \in SendLabels /\ pc[u] \in SendLabels => sess[t] # sess[u]
SendFlagged == \A s \in Slots : sendOv[s] # "idle" => sendFlag[s]
Exclusive == RecvIdle /\ RecvOnce /\ SendGuarded /\ SendOnce /\ SendFlagged

IInv == /\ TypeOK /\ ControlOK /\ RefCountExact
        /\ Live /\ Owned /\ FreshUnknown /\ Told /\ Exclusive

-----------------------------------------------------------------------------
USE SizesAssumption, ThreadsAssumption
USE DEF vars, sessionVars, sendVars, ioVars, tableVars, toldVars, localVars,
        threadVars, restVars, Goto, Call, Increment, Decrement

\* Every step keeps the types.
LEMMA TypeStep == ASSUME TypeOK, ControlOK, [Next]_vars PROVE TypeOK'
<1>ID. ID \in [Slots -> IDs] BY DEF TypeOK
<1>IOcount. IOcount \in [Slots -> Int] BY DEF TypeOK
<1>released. released \in [Slots -> BOOLEAN] BY DEF TypeOK
<1>cancelIOFlag. cancelIOFlag \in [Slots -> BOOLEAN] BY DEF TypeOK
<1>sendBuffer. sendBuffer \in [Slots -> Nat] BY DEF TypeOK
<1>recvOv. recvOv \in [Slots -> {"idle", "pending"} \union RecvResults] BY DEF TypeOK
<1>sendOv. sendOv \in [Slots -> {"idle", "pending"} \union SendResults] BY DEF TypeOK
<1>posts. posts \in [Slots -> Nat] BY DEF TypeOK
<1>leaked. leaked \in [Slots -> Nat] BY DEF TypeOK
<1>indexStack. indexStack \in Seq(Slots) BY DEF TypeOK
<1>sessionCount. sessionCount \in Nat BY DEF TypeOK
<1>pc. pc \in [Threads -> Labels] BY DEF TypeOK
<1>sess. sess \in [Threads -> Slots \union {NoSlot}] BY DEF TypeOK
<1>found. found \in [Threads -> Slots \union {NoSlot}] BY DEF TypeOK
<1>tgt. tgt \in [Threads -> Slots \union {NoSlot}] BY DEF TypeOK
<1>want. want \in [Threads -> IDs] BY DEF TypeOK
<1>ret. ret \in [Threads -> Labels] BY DEF TypeOK
<1>todo. todo \in [Threads -> Nat] BY DEF TypeOK
<1>sessHeld. \A t \in Threads : pc[t] \in SessLabels => sess[t] \in Slots
  BY DEF ControlOK, ControlAt
<1>foundHeld. \A t \in Threads : pc[t] \in FoundLabels => found[t] \in Slots
  BY DEF ControlOK, ControlAt
<1>tgtHeld. \A t \in Threads : pc[t] \in OwnLabels \union {"del_cas"} => tgt[t] \in Slots
  BY DEF ControlOK, ControlAt
<1>1. CASE Next
  <2>1. ASSUME NEW t \in Threads, InitID(t) PROVE TypeOK'
    BY <2>1 DEF InitID, TypeOK, Labels
  <2>2. ASSUME NEW t \in Threads, InitIncrement(t) PROVE TypeOK'
    <3>1. IOcount' \in [Slots -> Int]
      BY <2>2, <1>IOcount, <1>tgt, <1>tgtHeld DEF InitIncrement, OwnLabels, InitStage,
         DelStage
    <3>2. pc' \in [Threads -> Labels]
      BY <2>2, <1>pc DEF InitIncrement, Labels
    <3>3. sess' \in [Threads -> Slots \union {NoSlot}]
      BY <2>2, <1>sess, <1>tgt, <1>tgtHeld DEF InitIncrement, OwnLabels, InitStage, DelStage
    <3> QED BY <2>2, <3>1, <3>2, <3>3 DEF InitIncrement, TypeOK
  <2>3. ASSUME NEW t \in Threads, InitFlags(t) PROVE TypeOK'
    BY <2>3 DEF InitFlags, TypeOK, Labels
  <2>4. ASSUME NEW t \in Threads, InitClear(t) PROVE TypeOK'
    BY <2>4 DEF InitClear, TypeOK, Labels
  <2>5. ASSUME NEW t \in Threads, OnNewConnect(t) PROVE TypeOK'
    BY <2>5 DEF OnNewConnect, TypeOK, Labels
  <2>6. ASSUME NEW t \in Threads, RecvIOCheck(t) PROVE TypeOK'
    <3>1. IOcount' \in [Slots -> Int]
      BY <2>6, <1>IOcount, <1>sess, <1>sessHeld DEF RecvIOCheck, SessLabels
    <3>2. pc' \in [Threads -> Labels]
      BY <2>6, <1>pc, <1>ret DEF RecvIOCheck, Labels
    <3> QED BY <2>6, <3>1, <3>2 DEF RecvIOCheck, TypeOK
  <2>7. ASSUME NEW t \in Threads, RecvIOPost(t) PROVE TypeOK'
    <3>1. recvOv' \in [Slots -> {"idle", "pending"} \union RecvResults]
      BY <2>7, <1>recvOv DEF RecvIOPost, RecvResults
    <3>2. pc' \in [Threads -> Labels]
      BY <2>7, <1>pc, <1>ret DEF RecvIOPost, Labels
    <3> QED BY <2>7, <3>1, <3>2 DEF RecvIOPost, TypeOK
  <2>8. ASSUME NEW t \in Threads, RecvIORecheck(t) PROVE TypeOK'
    BY <2>8 DEF RecvIORecheck, CancelIoEx, RecvResults, TypeOK, Labels
  <2>9. ASSUME NEW t \in Threads, RecvIOCancel(t) PROVE TypeOK'
    BY <2>9 DEF RecvIOCancel, CancelIoEx, SendResults, TypeOK, Labels
  <2>10. ASSUME NEW t \in Threads, SendIOCheck(t) PROVE TypeOK'
    BY <2>10 DEF SendIOCheck, TypeOK, Labels
  <2>11. ASSUME NEW t \in Threads, SendIOExchange(t) PROVE TypeOK'
    BY <2>11 DEF SendIOExchange, TypeOK, Labels
  <2>12. ASSUME NEW t \in Threads, SendIOSize(t) PROVE TypeOK'
    <3>1. IOcount' \in [Slots -> Int]
      BY <2>12, <1>IOcount, <1>sess, <1>sessHeld DEF SendIOSize, SessLabels
    <3>2. pc' \in [Threads -> Labels]
      BY <2>12, <1>pc DEF SendIOSize, Labels
    <3> QED BY <2>12, <3>1, <3>2 DEF SendIOSize, TypeOK
  <2>13. ASSUME NEW t \in Threads, SendIOPost(t) PROVE TypeOK'
    <3>1. sendBuffer' \in [Slots -> Nat]
      BY <2>13, <1>sendBuffer, <1>sess, <1>sessHeld DEF SendIOPost, SessLabels
    <3>2. sendOv' \in [Slots -> {"idle", "pending"} \union SendResults]
      BY <2>13, <1>sendOv DEF SendIOPost, SendResults
    <3>3. pc' \in [Threads -> Labels]
      BY <2>13, <1>pc, <1>ret DEF SendIOPost, Labels
    <3>4. leftover' \in [Slots -> BOOLEAN]
      BY <2>13 DEF SendIOPost, TypeOK
    <3> QED BY <2>13, <3>1, <3>2, <3>3, <3>4 DEF SendIOPost, TypeOK
  <2>14. ASSUME NEW t \in Threads, SendIORecheck(t) PROVE TypeOK'
    BY <2>14 DEF SendIORecheck, CancelIoEx, SendResults, TypeOK, Labels
  <2>15. ASSUME NEW t \in Threads, SendIOCancel(t) PROVE TypeOK'
    BY <2>15 DEF SendIOCancel, CancelIoEx, RecvResults, TypeOK, Labels
  <2>16. ASSUME NEW t \in Threads, ClearSendFlag(t) PROVE TypeOK'
    BY <2>16 DEF ClearSendFlag, TypeOK, Labels
  <2>17. ASSUME NEW t \in Threads, CancelRegist(t) PROVE TypeOK'
    <3>1. cancelIOFlag' \in [Slots -> BOOLEAN]
      BY <2>17, <1>cancelIOFlag DEF CancelRegist
    <3>2. pc' \in [Threads -> Labels]
      BY <2>17, <1>pc DEF CancelRegist, Labels, AfterRegist
    <3> QED BY <2>17, <3>1, <3>2 DEF CancelRegist, TypeOK
  <2>18. ASSUME NEW t \in Threads, IORelease(t) PROVE TypeOK'
    <3>1. IOcount' \in [Slots -> Int]
      BY <2>18, <1>IOcount, <1>sess, <1>sessHeld DEF IORelease, SessLabels
    <3>2. pc' \in [Threads -> Labels]
      BY <2>18, <1>pc, <1>ret DEF IORelease, Labels
    <3>3. ret' \in [Threads -> Labels]
      BY <2>18, <1>ret DEF IORelease, Labels
    <3>4. tgt' \in [Threads -> Slots \union {NoSlot}]
      BY <2>18, <1>tgt, <1>sess, <1>sessHeld DEF IORelease, SessLabels
    <3> QED BY <2>18, <3>1, <3>2, <3>3, <3>4 DEF IORelease, TypeOK
  <2>19. ASSUME NEW t \in Threads, SentEarlyLoad(t) PROVE TypeOK'
    BY <2>19 DEF SentEarlyLoad, TypeOK, Labels
  <2>sended. ASSUME NEW t \in Threads, SendedEnds(t) PROVE TypeOK'
    BY <2>sended DEF SendedEnds, TypeOK, Labels
  <2>20. ASSUME NEW t \in Threads, SentMore(t) PROVE TypeOK'
    BY <2>20 DEF SentMore, TypeOK, Labels
  <2>21. ASSUME NEW t \in Threads, RecvLoop(t) PROVE TypeOK'
    <3>1. pc' \in [Threads -> Labels]
      BY <2>21, <1>pc DEF RecvLoop, OnRecv, Labels
    <3>2. ret' \in [Threads -> Labels]
      BY <2>21, <1>ret DEF RecvLoop, OnRecv, Labels
    <3>3. want' \in [Threads -> IDs]
      BY <2>21, <1>want, <1>sess, <1>sessHeld, <1>ID DEF RecvLoop, OnRecv, SessLabels
    <3>4. todo' \in [Threads -> Nat]
      BY <2>21, <1>todo DEF RecvLoop
    <3> QED BY <2>21, <3>1, <3>2, <3>3, <3>4 DEF RecvLoop, OnRecv, TypeOK
  <2>22. ASSUME NEW t \in Threads, KickCancel(t) PROVE TypeOK'
    <3>1. recvOv' \in [Slots -> {"idle", "pending"} \union RecvResults]
      BY <2>22, <1>recvOv DEF KickCancel, RecvResults, CancelIoEx
    <3>2. sendOv' \in [Slots -> {"idle", "pending"} \union SendResults]
      BY <2>22, <1>sendOv DEF KickCancel, SendResults, CancelIoEx
    <3>3. pc' \in [Threads -> Labels]
      BY <2>22, <1>pc DEF KickCancel, OnRecv, Labels
    <3>4. ret' \in [Threads -> Labels]
      BY <2>22, <1>ret DEF KickCancel, OnRecv, Labels
    <3>5. want' \in [Threads -> IDs]
      BY <2>22, <1>want, <1>sess, <1>sessHeld, <1>ID DEF KickCancel, OnRecv, SessLabels
    <3> QED BY <2>22, <3>1, <3>2, <3>3, <3>4, <3>5 DEF KickCancel, OnRecv, TypeOK
  <2>23. ASSUME NEW t \in Threads, HandlerRelease(t) PROVE TypeOK'
    <3>1. IOcount' \in [Slots -> Int]
      BY <2>23, <1>IOcount, <1>sess, <1>sessHeld DEF HandlerRelease, SessLabels
    <3>2. pc' \in [Threads -> Labels]
      BY <2>23, <1>pc DEF HandlerRelease, Labels
    <3>3. ret' \in [Threads -> Labels]
      BY <2>23, <1>ret DEF HandlerRelease, Labels
    <3>4. tgt' \in [Threads -> Slots \union {NoSlot}]
      BY <2>23, <1>tgt, <1>sess, <1>sessHeld DEF HandlerRelease, SessLabels
    <3>5. sess' \in [Threads -> Slots \union {NoSlot}]
      BY <2>23, <1>sess DEF HandlerRelease
    <3> QED BY <2>23, <3>1, <3>2, <3>3, <3>4, <3>5 DEF HandlerRelease, TypeOK
  <2>24. ASSUME NEW t \in Threads, FindIncrement(t) PROVE TypeOK'
    <3>1. IOcount' \in [Slots -> Int]
      BY <2>24, <1>IOcount, <1>want DEF FindIncrement, GET_INDEX, IDs
    <3>2. found' \in [Threads -> Slots \union {NoSlot}]
      BY <2>24, <1>found, <1>want DEF FindIncrement, GET_INDEX, IDs
    <3>3. pc' \in [Threads -> Labels]
      BY <2>24, <1>pc DEF FindIncrement, Labels
    <3> QED BY <2>24, <3>1, <3>2, <3>3 DEF FindIncrement, TypeOK
  <2>25. ASSUME NEW t \in Threads, FindCheckID(t) PROVE TypeOK'
    BY <2>25 DEF FindCheckID, TypeOK, Labels
  <2>26. ASSUME NEW t \in Threads, SendReqPost(t) PROVE TypeOK'
    <3>1. IOcount' \in [Slots -> Int]
      BY <2>26, <1>IOcount, <1>found, <1>foundHeld DEF SendReqPost, FoundLabels
    <3>2. posts' \in [Slots -> Nat]
      BY <2>26, <1>posts, <1>found, <1>foundHeld DEF SendReqPost, FoundLabels
    <3>3. pc' \in [Threads -> Labels]
      BY <2>26, <1>pc DEF SendReqPost, Labels
    <3> QED BY <2>26, <3>1, <3>2, <3>3 DEF SendReqPost, TypeOK
  <2>27. ASSUME NEW t \in Threads, DisconnectCancel(t) PROVE TypeOK'
    BY <2>27 DEF DisconnectCancel, CancelIoEx, RecvResults, SendResults, TypeOK, Labels
  <2>28. ASSUME NEW t \in Threads, FinderRelease(t) PROVE TypeOK'
    <3>1. IOcount' \in [Slots -> Int]
      BY <2>28, <1>IOcount, <1>found, <1>foundHeld DEF FinderRelease, FoundLabels
    <3>2. pc' \in [Threads -> Labels]
      BY <2>28, <1>pc, <1>ret DEF FinderRelease, Labels
    <3>3. ret' \in [Threads -> Labels]
      BY <2>28, <1>ret DEF FinderRelease, Labels
    <3>4. tgt' \in [Threads -> Slots \union {NoSlot}]
      BY <2>28, <1>tgt, <1>found, <1>foundHeld DEF FinderRelease, FoundLabels
    <3>5. found' \in [Threads -> Slots \union {NoSlot}]
      BY <2>28, <1>found DEF FinderRelease
    <3> QED BY <2>28, <3>1, <3>2, <3>3, <3>4, <3>5 DEF FinderRelease, TypeOK
  <2>29. ASSUME NEW t \in Threads, DeleteCAS(t) PROVE TypeOK'
    <3>1. released' \in [Slots -> BOOLEAN]
      BY <2>29, <1>released DEF DeleteCAS
    <3>2. pc' \in [Threads -> Labels]
      BY <2>29, <1>pc, <1>ret DEF DeleteCAS, Labels
    <3>3. want' \in [Threads -> IDs]
      BY <2>29, <1>want, <1>tgt, <1>tgtHeld, <1>ID DEF DeleteCAS, OwnLabels, InitStage,
         DelStage
    <3>4. tgt' \in [Threads -> Slots \union {NoSlot}]
      BY <2>29, <1>tgt DEF DeleteCAS
    <3> QED BY <2>29, <3>1, <3>2, <3>3, <3>4 DEF DeleteCAS, TypeOK
  <2>30. ASSUME NEW t \in Threads, DeleteClear(t) PROVE TypeOK'
    BY <2>30 DEF DeleteClear, TypeOK, Labels
  <2>31. ASSUME NEW t \in Threads, DeletePush(t) PROVE TypeOK'
    <3>1. indexStack' \in Seq(Slots)
      BY <2>31, <1>indexStack, <1>tgt, <1>tgtHeld DEF DeletePush, OwnLabels, InitStage,
         DelStage
    <3>2. tgt' \in [Threads -> Slots \union {NoSlot}]
      BY <2>31, <1>tgt DEF DeletePush
    <3>3. pc' \in [Threads -> Labels]
      BY <2>31, <1>pc DEF DeletePush, Labels
    <3> QED BY <2>31, <3>1, <3>2, <3>3 DEF DeletePush, TypeOK
  <2>32. ASSUME NEW t \in Threads, OnDisconnect(t) PROVE TypeOK'
    BY <2>32 DEF OnDisconnect, TypeOK, Labels
  <2>33. ASSUME NEW t \in Threads, AcceptPop(t) PROVE TypeOK'
    <3>1. indexStack' \in Seq(Slots)
      BY <2>33, <1>indexStack DEF AcceptPop
    <3>2. sessionCount' \in Nat
      BY <2>33, <1>sessionCount DEF AcceptPop
    <3>3. tgt' \in [Threads -> Slots \union {NoSlot}]
      BY <2>33, <1>tgt, <1>indexStack DEF AcceptPop
    <3>4. want' \in [Threads -> IDs]
      BY <2>33, <1>want, <1>indexStack, <1>sessionCount DEF AcceptPop, MAKE_SESSION_ID, IDs
    <3>5. pc' \in [Threads -> Labels]
      BY <2>33, <1>pc DEF AcceptPop, Labels
    <3> QED BY <2>33, <3>1, <3>2, <3>3, <3>4, <3>5 DEF AcceptPop, TypeOK
  <2>34. ASSUME NEW t \in Threads, ContentSend(t) PROVE TypeOK'
    BY <2>34 DEF ContentSend, TypeOK, Labels
  <2>35. ASSUME NEW t \in Threads, NEW s \in Slots, TakePost(t, s) PROVE TypeOK'
    <3>1. posts' \in [Slots -> Nat]
      BY <2>35, <1>posts DEF TakePost
    <3>2. sess' \in [Threads -> Slots \union {NoSlot}]
      BY <2>35, <1>sess DEF TakePost
    <3>3. sendBuffer' \in [Slots -> Nat]
      BY <2>35, <1>sendBuffer DEF TakePost
    <3>4. pc' \in [Threads -> Labels]
      BY <2>35, <1>pc DEF TakePost, Labels
    <3>5. ret' \in [Threads -> Labels]
      BY <2>35, <1>ret DEF TakePost, Labels
    <3> QED BY <2>35, <3>1, <3>2, <3>3, <3>4, <3>5 DEF TakePost, TypeOK
  <2>36. ASSUME NEW t \in Threads, NEW s \in Slots, TakeSend(t, s) PROVE TypeOK'
    BY <2>36 DEF TakeSend, TypeOK, Labels
  <2>37. ASSUME NEW t \in Threads, NEW s \in Slots, TakeRecv(t, s) PROVE TypeOK'
    <3>1. recvOv' \in [Slots -> {"idle", "pending"} \union RecvResults]
      BY <2>37, <1>recvOv DEF TakeRecv, RecvResults
    <3>2. sess' \in [Threads -> Slots \union {NoSlot}]
      BY <2>37, <1>sess DEF TakeRecv
    <3>3. todo' \in [Threads -> Nat]
      BY <2>37, <1>todo DEF TakeRecv
    <3>4. pc' \in [Threads -> Labels]
      BY <2>37, <1>pc DEF TakeRecv, Labels
    <3>5. leaked' \in [Slots -> Nat]
      BY <2>37, <1>leaked DEF TakeRecv
    <3> QED BY <2>37, <3>1, <3>2, <3>3, <3>4, <3>5 DEF TakeRecv, TypeOK
  <2>38. ASSUME NEW s \in Slots, RecvComplete(s) PROVE TypeOK'
    BY <2>38 DEF RecvComplete, TypeOK, Labels
  <2>39. ASSUME NEW s \in Slots, SendComplete(s) PROVE TypeOK'
    BY <2>39 DEF SendComplete, TypeOK, Labels
  <2>99. QED
    BY <1>1, <2>1, <2>2, <2>3, <2>4, <2>5, <2>6, <2>7, <2>8, <2>9, <2>10, <2>11, <2>12,
       <2>13, <2>14, <2>15, <2>16, <2>17, <2>18, <2>19, <2>20, <2>21, <2>22, <2>23,
       <2>24, <2>25, <2>26, <2>27, <2>28, <2>29, <2>30, <2>31, <2>32, <2>33, <2>34,
       <2>35, <2>36, <2>37, <2>38, <2>39, <2>sended DEF Next, Continue, Take
<1>2. CASE UNCHANGED vars BY <1>2 DEF TypeOK
<1>3. QED BY <1>1, <1>2

\* Every step keeps the control invariant: the pointers a thread holds fit
\* the point it is at in the code.
LEMMA ControlStep == ASSUME TypeOK, ControlOK, [Next]_vars PROVE ControlOK'
<1> SUFFICES ASSUME NEW u \in Threads PROVE ControlAt(u)' BY DEF ControlOK
<1> USE DEF ControlAt, SessLabels, IOProcLabels, FoundLabels, InitStage, DelStage, OwnLabels, SubLabels, InitLabels
<1>2. \A t \in Threads : ControlAt(t) BY DEF ControlOK
<1>3. /\ pc \in [Threads -> Labels] /\ ret \in [Threads -> Labels]
      /\ sess \in [Threads -> Slots \union {NoSlot}]
      /\ found \in [Threads -> Slots \union {NoSlot}]
      /\ tgt \in [Threads -> Slots \union {NoSlot}]
      /\ want \in [Threads -> IDs] /\ indexStack \in Seq(Slots) BY DEF TypeOK
<1>4. CASE Next
  <2>1. ASSUME NEW t \in Threads, InitID(t) PROVE ControlAt(u)'
    BY <2>1, <1>2, <1>3 DEF InitID
  <2>2. ASSUME NEW t \in Threads, InitIncrement(t) PROVE ControlAt(u)'
    BY <2>2, <1>2, <1>3 DEF InitIncrement
  <2>3. ASSUME NEW t \in Threads, InitFlags(t) PROVE ControlAt(u)'
    BY <2>3, <1>2, <1>3 DEF InitFlags
  <2>4. ASSUME NEW t \in Threads, InitClear(t) PROVE ControlAt(u)'
    BY <2>4, <1>2, <1>3 DEF InitClear
  <2>5. ASSUME NEW t \in Threads, OnNewConnect(t) PROVE ControlAt(u)'
    BY <2>5, <1>2, <1>3 DEF OnNewConnect
  <2>6. ASSUME NEW t \in Threads, RecvIOCheck(t) PROVE ControlAt(u)'
    <3>1. CASE u = t BY <2>6, <3>1, <1>2, <1>3 DEF RecvIOCheck
    <3>2. CASE u # t BY <2>6, <3>2, <1>2, <1>3 DEF RecvIOCheck
    <3> QED BY <3>1, <3>2
  <2>7. ASSUME NEW t \in Threads, RecvIOPost(t) PROVE ControlAt(u)'
    BY <2>7, <1>2, <1>3 DEF RecvIOPost
  <2>8. ASSUME NEW t \in Threads, RecvIORecheck(t) PROVE ControlAt(u)'
    BY <2>8, <1>2, <1>3 DEF RecvIORecheck
  <2>9. ASSUME NEW t \in Threads, RecvIOCancel(t) PROVE ControlAt(u)'
    BY <2>9, <1>2, <1>3 DEF RecvIOCancel
  <2>10. ASSUME NEW t \in Threads, SendIOCheck(t) PROVE ControlAt(u)'
    BY <2>10, <1>2, <1>3 DEF SendIOCheck
  <2>11. ASSUME NEW t \in Threads, SendIOExchange(t) PROVE ControlAt(u)'
    BY <2>11, <1>2, <1>3 DEF SendIOExchange
  <2>12. ASSUME NEW t \in Threads, SendIOSize(t) PROVE ControlAt(u)'
    <3>1. CASE u = t BY <2>12, <3>1, <1>2, <1>3 DEF SendIOSize
    <3>2. CASE u # t BY <2>12, <3>2, <1>2, <1>3 DEF SendIOSize
    <3> QED BY <3>1, <3>2
  <2>13. ASSUME NEW t \in Threads, SendIOPost(t) PROVE ControlAt(u)'
    BY <2>13, <1>2, <1>3 DEF SendIOPost
  <2>14. ASSUME NEW t \in Threads, SendIORecheck(t) PROVE ControlAt(u)'
    BY <2>14, <1>2, <1>3 DEF SendIORecheck
  <2>15. ASSUME NEW t \in Threads, SendIOCancel(t) PROVE ControlAt(u)'
    BY <2>15, <1>2, <1>3 DEF SendIOCancel
  <2>16. ASSUME NEW t \in Threads, ClearSendFlag(t) PROVE ControlAt(u)'
    BY <2>16, <1>2, <1>3 DEF ClearSendFlag
  <2>17. ASSUME NEW t \in Threads, CancelRegist(t) PROVE ControlAt(u)'
    BY <2>17, <1>2, <1>3 DEF CancelRegist, AfterRegist
  <2>18. ASSUME NEW t \in Threads, IORelease(t) PROVE ControlAt(u)'
    BY <2>18, <1>2, <1>3 DEF IORelease
  <2>19. ASSUME NEW t \in Threads, SentEarlyLoad(t) PROVE ControlAt(u)'
    BY <2>19, <1>2, <1>3 DEF SentEarlyLoad
  <2>sended. ASSUME NEW t \in Threads, SendedEnds(t) PROVE ControlAt(u)'
    BY <2>sended, <1>2, <1>3 DEF SendedEnds
  <2>20. ASSUME NEW t \in Threads, SentMore(t) PROVE ControlAt(u)'
    BY <2>20, <1>2, <1>3 DEF SentMore
  <2>21. ASSUME NEW t \in Threads, RecvLoop(t) PROVE ControlAt(u)'
    BY <2>21, <1>2, <1>3 DEF RecvLoop, OnRecv
  <2>22. ASSUME NEW t \in Threads, KickCancel(t) PROVE ControlAt(u)'
    BY <2>22, <1>2, <1>3 DEF KickCancel, OnRecv
  <2>23. ASSUME NEW t \in Threads, HandlerRelease(t) PROVE ControlAt(u)'
    BY <2>23, <1>2, <1>3 DEF HandlerRelease
  <2>24. ASSUME NEW t \in Threads, FindIncrement(t) PROVE ControlAt(u)'
    BY <2>24, <1>2, <1>3 DEF FindIncrement, GET_INDEX, IDs
  <2>25. ASSUME NEW t \in Threads, FindCheckID(t) PROVE ControlAt(u)'
    BY <2>25, <1>2, <1>3 DEF FindCheckID
  <2>26. ASSUME NEW t \in Threads, SendReqPost(t) PROVE ControlAt(u)'
    BY <2>26, <1>2, <1>3 DEF SendReqPost
  <2>27. ASSUME NEW t \in Threads, DisconnectCancel(t) PROVE ControlAt(u)'
    BY <2>27, <1>2, <1>3 DEF DisconnectCancel
  <2>28. ASSUME NEW t \in Threads, FinderRelease(t) PROVE ControlAt(u)'
    BY <2>28, <1>2, <1>3 DEF FinderRelease
  <2>29. ASSUME NEW t \in Threads, DeleteCAS(t) PROVE ControlAt(u)'
    BY <2>29, <1>2, <1>3 DEF DeleteCAS
  <2>30. ASSUME NEW t \in Threads, DeleteClear(t) PROVE ControlAt(u)'
    BY <2>30, <1>2, <1>3 DEF DeleteClear
  <2>31. ASSUME NEW t \in Threads, DeletePush(t) PROVE ControlAt(u)'
    BY <2>31, <1>2, <1>3 DEF DeletePush
  <2>32. ASSUME NEW t \in Threads, OnDisconnect(t) PROVE ControlAt(u)'
    BY <2>32, <1>2, <1>3 DEF OnDisconnect
  <2>33. ASSUME NEW t \in Threads, AcceptPop(t) PROVE ControlAt(u)'
    BY <2>33, <1>2, <1>3 DEF AcceptPop
  <2>34. ASSUME NEW t \in Threads, ContentSend(t) PROVE ControlAt(u)'
    BY <2>34, <1>2, <1>3 DEF ContentSend
  <2>35. ASSUME NEW t \in Threads, NEW s \in Slots, TakePost(t, s) PROVE ControlAt(u)'
    BY <2>35, <1>2, <1>3 DEF TakePost
  <2>36. ASSUME NEW t \in Threads, NEW s \in Slots, TakeSend(t, s) PROVE ControlAt(u)'
    BY <2>36, <1>2, <1>3 DEF TakeSend
  <2>37. ASSUME NEW t \in Threads, NEW s \in Slots, TakeRecv(t, s) PROVE ControlAt(u)'
    BY <2>37, <1>2, <1>3 DEF TakeRecv
  <2>38. ASSUME NEW s \in Slots, RecvComplete(s) PROVE ControlAt(u)'
    BY <2>38, <1>2, <1>3 DEF RecvComplete
  <2>39. ASSUME NEW s \in Slots, SendComplete(s) PROVE ControlAt(u)'
    BY <2>39, <1>2, <1>3 DEF SendComplete
  <2>99. QED
    BY <1>4, <2>1, <2>2, <2>3, <2>4, <2>5, <2>6, <2>7, <2>8, <2>9, <2>10, <2>11, <2>12,
       <2>13, <2>14, <2>15, <2>16, <2>17, <2>18, <2>19, <2>20, <2>21, <2>22, <2>23,
       <2>24, <2>25, <2>26, <2>27, <2>28, <2>29, <2>30, <2>31, <2>32, <2>33, <2>34,
       <2>35, <2>36, <2>37, <2>38, <2>39, <2>sended DEF Next, Continue, Take
<1>5. CASE UNCHANGED vars BY <1>2, <1>5
<1>6. QED BY <1>4, <1>5

One(b) == IF b THEN 1 ELSE 0
\* The references t holds to slot s, and those in the kernel and the port.
Holds(t, s) == One(sess[t] = s) + One(found[t] = s)
                 + One(sess[t] = s /\ pc[t] \in IOLabels)
Flight(s) == InFlight(recvOv, s) + InFlight(sendOv, s) + posts[s]
Balance(t, s) == IOcount[s] - leaked[s] - Flight(s) - Holds(t, s)
\* A step of thread t leaves the pointers of the others alone.
Moves(t) == /\ pc' = [pc EXCEPT ![t] = pc'[t]]
            /\ sess' = [sess EXCEPT ![t] = sess'[t]]
            /\ found' = [found EXCEPT ![t] = found'[t]]

\* There are finitely many threads, so the holders of a slot can be counted.
LEMMA ThreadsFinite == IsFiniteSet(Threads)
<1>1. IsFiniteSet({AcceptThread}) BY FS_Singleton
<1>2. IsFiniteSet({AcceptThread} \union Workers) BY <1>1, FS_Union
<1> QED BY <1>2, FS_Union DEF Threads

\* Two sets of threads that differ at most in t differ in size by what t
\* contributes.
LEMMA Recount ==
  ASSUME NEW S \in SUBSET Threads, NEW R \in SUBSET Threads, NEW t \in Threads,
         R \ {t} = S \ {t}
  PROVE  /\ Cardinality(S) \in Nat /\ Cardinality(R) \in Nat
         /\ Cardinality(R) - One(t \in R) = Cardinality(S) - One(t \in S)
<1>1. IsFiniteSet(S) /\ IsFiniteSet(R) BY ThreadsFinite, FS_Subset
<1>2. Cardinality(S \ {t}) = Cardinality(S) - One(t \in S)
  BY <1>1, FS_RemoveElement, FS_CardinalityType DEF One
<1>3. Cardinality(R \ {t}) = Cardinality(R) - One(t \in R)
  BY <1>1, FS_RemoveElement, FS_CardinalityType DEF One
<1> QED BY <1>1, <1>2, <1>3, FS_CardinalityType

\* When one thread moves, the references to a slot change by what that thread
\* gains or drops and by what the kernel and the completion port gain or
\* drop.
LEMMA ReferencesStep ==
  ASSUME TypeOK, TypeOK', NEW t \in Threads, Moves(t), NEW s \in Slots
  PROVE  /\ References(s) \in Int
         /\ References(s)' = References(s) + Holds(t, s)' - Holds(t, s)
                                + Flight(s)' - Flight(s)
<1>1. /\ pc \in [Threads -> Labels] /\ sess \in [Threads -> Slots \union {NoSlot}]
      /\ found \in [Threads -> Slots \union {NoSlot}]
      /\ posts \in [Slots -> Nat] /\ posts' \in [Slots -> Nat]
  BY DEF TypeOK
<1>2. /\ Cardinality(Handlers(s)) \in Nat /\ Cardinality(Handlers(s))' \in Nat
      /\ Cardinality(Handlers(s))' - One(sess'[t] = s)
           = Cardinality(Handlers(s)) - One(sess[t] = s)
  <2>1. Handlers(s) \in SUBSET Threads /\ Handlers(s)' \in SUBSET Threads BY DEF Handlers
  <2>2. (Handlers(s))' \ {t} = Handlers(s) \ {t} BY <1>1 DEF Handlers, Moves
  <2>3. (t \in Handlers(s)) = (sess[t] = s) /\ (t \in Handlers(s)') = (sess'[t] = s)
    BY DEF Handlers
  <2> QED BY <2>1, <2>2, <2>3, Recount
<1>3. /\ Cardinality(Finders(s)) \in Nat /\ Cardinality(Finders(s))' \in Nat
      /\ Cardinality(Finders(s))' - One(found'[t] = s)
           = Cardinality(Finders(s)) - One(found[t] = s)
  <2>1. Finders(s) \in SUBSET Threads /\ Finders(s)' \in SUBSET Threads BY DEF Finders
  <2>2. Finders(s)' \ {t} = Finders(s) \ {t} BY <1>1 DEF Finders, Moves
  <2>3. (t \in Finders(s)) = (found[t] = s) /\ (t \in Finders(s)') = (found'[t] = s)
    BY DEF Finders
  <2> QED BY <2>1, <2>2, <2>3, Recount
<1>4. /\ Cardinality(Starters(s)) \in Nat /\ Cardinality(Starters(s))' \in Nat
      /\ Cardinality(Starters(s))' - One(sess'[t] = s /\ pc'[t] \in IOLabels)
           = Cardinality(Starters(s)) - One(sess[t] = s /\ pc[t] \in IOLabels)
  <2>1. Starters(s) \in SUBSET Threads /\ Starters(s)' \in SUBSET Threads BY DEF Starters
  <2>2. Starters(s)' \ {t} = Starters(s) \ {t} BY <1>1 DEF Starters, Moves
  <2>3. /\ (t \in Starters(s)) = (sess[t] = s /\ pc[t] \in IOLabels)
        /\ (t \in Starters(s)') = (sess'[t] = s /\ pc'[t] \in IOLabels)
    BY DEF Starters
  <2> QED BY <2>1, <2>2, <2>3, Recount
<1> QED BY <1>1, <1>2, <1>3, <1>4 DEF References, Holds, Flight, InFlight, One

\* Every step keeps IOcount the number of references plus the leaked ones:
\* each InterlockedIncrement and InterlockedDecrement goes with a reference
\* taken or given back.
LEMMA RefCountStep ==
  ASSUME TypeOK, TypeOK', ControlOK, RefCountExact, Exclusive, [Next]_vars PROVE RefCountExact'
<1> SUFFICES ASSUME NEW s \in Slots PROVE IOcount'[s] = References(s)' + leaked'[s]
  BY DEF RefCountExact
<1>1. IOcount[s] = References(s) + leaked[s] BY DEF RefCountExact
<1>2. \A t \in Threads : ControlAt(t) BY DEF ControlOK
<1>3. /\ pc \in [Threads -> Labels] /\ ret \in [Threads -> Labels]
      /\ sess \in [Threads -> Slots \union {NoSlot}]
      /\ found \in [Threads -> Slots \union {NoSlot}]
      /\ tgt \in [Threads -> Slots \union {NoSlot}]
      /\ IOcount \in [Slots -> Int] /\ leaked \in [Slots -> Nat]
      /\ posts \in [Slots -> Nat] /\ want \in [Threads -> IDs]
      /\ recvOv \in [Slots -> {"idle", "pending"} \union RecvResults]
      /\ sendOv \in [Slots -> {"idle", "pending"} \union SendResults]
  BY DEF TypeOK
<1>4. ASSUME NEW t \in Threads, Moves(t), Balance(t, s)' = Balance(t, s)
      PROVE  IOcount'[s] = References(s)' + leaked'[s]
  <2>1. /\ IOcount'[s] \in Int /\ leaked'[s] \in Int /\ posts'[s] \in Int 
    BY DEF TypeOK
  <2>2. /\ References(s) \in Int
        /\ References(s)' = References(s) + Holds(t, s)' - Holds(t, s) + Flight(s)' - Flight(s)
    BY <1>4, ReferencesStep
  <2>3. /\ Flight(s) \in Int /\ Flight(s)' \in Int
        /\ Holds(t, s) \in Int /\ Holds(t, s)' \in Int
        /\ IOcount[s] \in Int /\ leaked[s] \in Int
    BY <1>3, <2>1 DEF Flight, Holds, One, InFlight
  <2> QED BY <1>1, <1>4, <2>1, <2>2, <2>3 DEF Balance
<1>8. /\ \A t \in Threads : pc[t] = "recv_wsa" => recvOv[sess[t]] = "idle"
      /\ \A t \in Threads : pc[t] = "send_wsa" => sendOv[sess[t]] = "idle"
  BY DEF Exclusive, RecvIdle, SendGuarded, RecvHolds, RecvLabels, SendLabels
<1>5. CASE Next
  <2> USE DEF Holds, Balance, Flight, Moves, One, InFlight, ControlAt, SessLabels, IOProcLabels, FoundLabels, InitStage, DelStage, OwnLabels, SubLabels, InitLabels, IOLabels, RecvResults, SendResults
  <2>1. ASSUME NEW t \in Threads, InitID(t) PROVE Moves(t) /\ Balance(t, s)' = Balance(t, s)
    BY <2>1, <1>2, <1>3 DEF InitID
  <2>2. ASSUME NEW t \in Threads, InitIncrement(t) PROVE Moves(t) /\ Balance(t, s)' = Balance(t, s)
    BY <2>2, <1>2, <1>3 DEF InitIncrement
  <2>3. ASSUME NEW t \in Threads, InitFlags(t) PROVE Moves(t) /\ Balance(t, s)' = Balance(t, s)
    BY <2>3, <1>2, <1>3 DEF InitFlags
  <2>4. ASSUME NEW t \in Threads, InitClear(t) PROVE Moves(t) /\ Balance(t, s)' = Balance(t, s)
    BY <2>4, <1>2, <1>3 DEF InitClear
  <2>5. ASSUME NEW t \in Threads, OnNewConnect(t) PROVE Moves(t) /\ Balance(t, s)' = Balance(t, s)
    BY <2>5, <1>2, <1>3 DEF OnNewConnect
  <2>6. ASSUME NEW t \in Threads, RecvIOCheck(t) PROVE Moves(t) /\ Balance(t, s)' = Balance(t, s)
    BY <2>6, <1>2, <1>3 DEF RecvIOCheck
  <2>7. ASSUME NEW t \in Threads, RecvIOPost(t) PROVE Moves(t) /\ Balance(t, s)' = Balance(t, s)
    BY <2>7, <1>2, <1>3, <1>8 DEF RecvIOPost
  <2>8. ASSUME NEW t \in Threads, RecvIORecheck(t) PROVE Moves(t) /\ Balance(t, s)' = Balance(t, s)
    BY <2>8, <1>2, <1>3 DEF RecvIORecheck, CancelIoEx
  <2>9. ASSUME NEW t \in Threads, RecvIOCancel(t) PROVE Moves(t) /\ Balance(t, s)' = Balance(t, s)
    BY <2>9, <1>2, <1>3 DEF RecvIOCancel, CancelIoEx
  <2>10. ASSUME NEW t \in Threads, SendIOCheck(t) PROVE Moves(t) /\ Balance(t, s)' = Balance(t, s)
    BY <2>10, <1>2, <1>3 DEF SendIOCheck
  <2>11. ASSUME NEW t \in Threads, SendIOExchange(t) PROVE Moves(t) /\ Balance(t, s)' = Balance(t, s)
    BY <2>11, <1>2, <1>3 DEF SendIOExchange
  <2>12. ASSUME NEW t \in Threads, SendIOSize(t) PROVE Moves(t) /\ Balance(t, s)' = Balance(t, s)
    BY <2>12, <1>2, <1>3 DEF SendIOSize
  <2>13. ASSUME NEW t \in Threads, SendIOPost(t) PROVE Moves(t) /\ Balance(t, s)' = Balance(t, s)
    BY <2>13, <1>2, <1>3, <1>8 DEF SendIOPost
  <2>14. ASSUME NEW t \in Threads, SendIORecheck(t) PROVE Moves(t) /\ Balance(t, s)' = Balance(t, s)
    BY <2>14, <1>2, <1>3 DEF SendIORecheck, CancelIoEx
  <2>15. ASSUME NEW t \in Threads, SendIOCancel(t) PROVE Moves(t) /\ Balance(t, s)' = Balance(t, s)
    BY <2>15, <1>2, <1>3 DEF SendIOCancel, CancelIoEx
  <2>16. ASSUME NEW t \in Threads, ClearSendFlag(t) PROVE Moves(t) /\ Balance(t, s)' = Balance(t, s)
    BY <2>16, <1>2, <1>3 DEF ClearSendFlag
  <2>17. ASSUME NEW t \in Threads, CancelRegist(t) PROVE Moves(t) /\ Balance(t, s)' = Balance(t, s)
    BY <2>17, <1>2, <1>3 DEF CancelRegist, AfterRegist
  <2>18. ASSUME NEW t \in Threads, IORelease(t) PROVE Moves(t) /\ Balance(t, s)' = Balance(t, s)
    BY <2>18, <1>2, <1>3 DEF IORelease
  <2>19. ASSUME NEW t \in Threads, SentEarlyLoad(t) PROVE Moves(t) /\ Balance(t, s)' = Balance(t, s)
    BY <2>19, <1>2, <1>3 DEF SentEarlyLoad
  <2>sended. ASSUME NEW t \in Threads, SendedEnds(t) PROVE Moves(t) /\ Balance(t, s)' = Balance(t, s)
    BY <2>sended, <1>2, <1>3 DEF SendedEnds
  <2>20. ASSUME NEW t \in Threads, SentMore(t) PROVE Moves(t) /\ Balance(t, s)' = Balance(t, s)
    BY <2>20, <1>2, <1>3 DEF SentMore
  <2>21. ASSUME NEW t \in Threads, RecvLoop(t) PROVE Moves(t) /\ Balance(t, s)' = Balance(t, s)
    BY <2>21, <1>2, <1>3 DEF RecvLoop, OnRecv
  <2>22. ASSUME NEW t \in Threads, KickCancel(t) PROVE Moves(t) /\ Balance(t, s)' = Balance(t, s)
    BY <2>22, <1>2, <1>3 DEF KickCancel, OnRecv, CancelIoEx
  <2>23. ASSUME NEW t \in Threads, HandlerRelease(t) PROVE Moves(t) /\ Balance(t, s)' = Balance(t, s)
    BY <2>23, <1>2, <1>3 DEF HandlerRelease
  <2>24. ASSUME NEW t \in Threads, FindIncrement(t) PROVE Moves(t) /\ Balance(t, s)' = Balance(t, s)
    BY <2>24, <1>2, <1>3 DEF FindIncrement, GET_INDEX, IDs
  <2>25. ASSUME NEW t \in Threads, FindCheckID(t) PROVE Moves(t) /\ Balance(t, s)' = Balance(t, s)
    BY <2>25, <1>2, <1>3 DEF FindCheckID
  <2>26. ASSUME NEW t \in Threads, SendReqPost(t) PROVE Moves(t) /\ Balance(t, s)' = Balance(t, s)
    BY <2>26, <1>2, <1>3 DEF SendReqPost
  <2>27. ASSUME NEW t \in Threads, DisconnectCancel(t) PROVE Moves(t) /\ Balance(t, s)' = Balance(t, s)
    BY <2>27, <1>2, <1>3 DEF DisconnectCancel, CancelIoEx
  <2>28. ASSUME NEW t \in Threads, FinderRelease(t) PROVE Moves(t) /\ Balance(t, s)' = Balance(t, s)
    <3>1. /\ pc[t] = "drop" /\ found[t] \in Slots /\ ret[t] \notin IOLabels
          /\ pc'[t] \in {ret[t], "del_cas"} /\ IOcount' = [IOcount EXCEPT ![found[t]] = @ - 1]
          /\ found' = [found EXCEPT ![t] = NoSlot] /\ pc' = [pc EXCEPT ![t] = pc'[t]]
      BY <2>28, <1>2, <1>3 DEF FinderRelease
    <3>2. UNCHANGED <<sess, leaked, recvOv, sendOv, posts>> BY <2>28 DEF FinderRelease
    <3>3. Moves(t) BY <3>1, <3>2, <1>3
    <3> QED BY <1>3, <3>1, <3>2, <3>3, ThreadsAssumption
  <2>29. ASSUME NEW t \in Threads, DeleteCAS(t) PROVE Moves(t) /\ Balance(t, s)' = Balance(t, s)
    BY <2>29, <1>2, <1>3 DEF DeleteCAS
  <2>30. ASSUME NEW t \in Threads, DeleteClear(t) PROVE Moves(t) /\ Balance(t, s)' = Balance(t, s)
    BY <2>30, <1>2, <1>3 DEF DeleteClear
  <2>31. ASSUME NEW t \in Threads, DeletePush(t) PROVE Moves(t) /\ Balance(t, s)' = Balance(t, s)
    BY <2>31, <1>2, <1>3 DEF DeletePush
  <2>32. ASSUME NEW t \in Threads, OnDisconnect(t) PROVE Moves(t) /\ Balance(t, s)' = Balance(t, s)
    BY <2>32, <1>2, <1>3 DEF OnDisconnect
  <2>33. ASSUME NEW t \in Threads, AcceptPop(t) PROVE Moves(t) /\ Balance(t, s)' = Balance(t, s)
    BY <2>33, <1>2, <1>3 DEF AcceptPop
  <2>34. ASSUME NEW t \in Threads, ContentSend(t) PROVE Moves(t) /\ Balance(t, s)' = Balance(t, s)
    BY <2>34, <1>2, <1>3 DEF ContentSend
  <2>35. ASSUME NEW t \in Threads, NEW r \in Slots, TakePost(t, r) PROVE Moves(t) /\ Balance(t, s)' = Balance(t, s)
    BY <2>35, <1>2, <1>3 DEF TakePost
  <2>36. ASSUME NEW t \in Threads, NEW r \in Slots, TakeSend(t, r) PROVE Moves(t) /\ Balance(t, s)' = Balance(t, s)
    <3>1. CASE sendOv[r] = "fail" BY <2>36, <3>1, <1>2, <1>3 DEF TakeSend
    <3>2. CASE sendOv[r] = "ok" BY <2>36, <3>2, <1>2, <1>3 DEF TakeSend
    <3> QED BY <2>36, <3>1, <3>2 DEF TakeSend
  <2>37. ASSUME NEW t \in Threads, NEW r \in Slots, TakeRecv(t, r) PROVE Moves(t) /\ Balance(t, s)' = Balance(t, s)
    BY <2>37, <1>2, <1>3 DEF TakeRecv
  <2>98. ASSUME NEW r \in Slots, RecvComplete(r) \/ SendComplete(r)
       PROVE  IOcount'[s] = References(s)' + leaked'[s]
    <3>1. UNCHANGED <<pc, sess, found, IOcount, leaked, posts>>
      BY <2>98 DEF RecvComplete, SendComplete
    <3>2. InFlight(recvOv, s)' = InFlight(recvOv, s) /\ InFlight(sendOv, s)' = InFlight(sendOv, s)
      BY <1>3, <2>98 DEF RecvComplete, SendComplete
    <3> QED BY <1>1, <3>1, <3>2 DEF References, Handlers, Finders, Starters
  <2>99. QED
    BY <1>4, <1>5, <2>98, <2>1, <2>2, <2>3, <2>4, <2>5, <2>6, <2>7, <2>8, <2>9, <2>10,
       <2>11, <2>12, <2>13, <2>14, <2>15, <2>16, <2>17, <2>18, <2>19, <2>20, <2>21,
       <2>22, <2>23, <2>24, <2>25, <2>26, <2>27, <2>28, <2>29, <2>30, <2>31, <2>32,
       <2>33, <2>34, <2>35, <2>36, <2>37, <2>sended DEF Next, Continue, Take
<1>6. CASE UNCHANGED vars
  BY <1>1, <1>6 DEF References, Handlers, Finders, Starters, InFlight
<1>7. QED BY <1>5, <1>6

\* Natural numbers that sum to zero are zero.
LEMMA SumZero ==
  ASSUME NEW a \in Nat, NEW b \in Nat, NEW c \in Nat, NEW d \in Nat, NEW e \in Nat,
         NEW f \in Nat, NEW g \in Nat, 0 = a + b + c + d + e + f + g
  PROVE  a = 0 /\ b = 0 /\ d = 0 /\ e = 0 /\ f = 0
OBVIOUS

\* A session whose IOcount is 0 has no handler, no finder, no completion
\* outstanding and no post: what makes the CAS of deleteSession safe
\* (network.cpp:418).
LEMMA ZeroMeansNone ==
  ASSUME TypeOK, RefCountExact, NEW s \in Slots, IOcount[s] = 0
  PROVE  ~Busy(s) /\ \A t \in Threads : sess[t] # s /\ found[t] # s
<1>1. /\ Handlers(s) \in SUBSET Threads /\ Finders(s) \in SUBSET Threads
      /\ Starters(s) \in SUBSET Threads BY DEF Handlers, Finders, Starters
<1>2. IsFiniteSet(Handlers(s)) /\ IsFiniteSet(Finders(s)) /\ IsFiniteSet(Starters(s))
  BY <1>1, ThreadsFinite, FS_Subset
<1>3. /\ Cardinality(Handlers(s)) \in Nat /\ Cardinality(Finders(s)) \in Nat
      /\ Cardinality(Starters(s)) \in Nat
  BY <1>2, FS_CardinalityType
<1>4. posts[s] \in Nat /\ leaked[s] \in Nat BY DEF TypeOK
<1>5. InFlight(recvOv, s) \in Nat /\ InFlight(sendOv, s) \in Nat BY DEF InFlight
<1>6. 0 = References(s) + leaked[s] BY DEF RefCountExact
<1>7. /\ Cardinality(Handlers(s)) = 0 /\ Cardinality(Finders(s)) = 0
      /\ InFlight(recvOv, s) = 0 /\ InFlight(sendOv, s) = 0 /\ posts[s] = 0
  <2> DEFINE h == Cardinality(Handlers(s))
             f == Cardinality(Finders(s))
             o == Cardinality(Starters(s))
             i == InFlight(recvOv, s)
             j == InFlight(sendOv, s)
  <2>1. 0 = h + f + o + i + j + posts[s] + leaked[s] BY <1>6 DEF References
  <2>2. /\ h \in Nat /\ f \in Nat /\ o \in Nat /\ i \in Nat /\ j \in Nat
        /\ posts[s] \in Nat /\ leaked[s] \in Nat
    BY <1>3, <1>4, <1>5
  <2> HIDE DEF h, f, o, i, j
  <2>3. h = 0 /\ f = 0 /\ i = 0 /\ j = 0 /\ posts[s] = 0 BY <2>1, <2>2, SumZero
  <2> QED BY <2>3 DEF h, f, i, j
<1>8. Handlers(s) = {} /\ Finders(s) = {} BY <1>2, <1>7, FS_EmptySet
<1> QED BY <1>7, <1>8 DEF Busy, Handlers, Finders, InFlight

\* Every step keeps the sessions that threads work on unreleased, and the ID
\* a lookup has confirmed in place.
LEMMA LiveThreadStep ==
  ASSUME IInv, TypeOK', ControlOK', [Next]_vars
  PROVE  (\A u \in Threads : LiveAt(u))'
<1> SUFFICES ASSUME NEW u \in Threads PROVE LiveAt(u)' OBVIOUS
<1> USE DEF LiveAt, ControlAt, SessLabels, IOProcLabels, FoundLabels, InitStage, DelStage, OwnLabels, SubLabels, InitLabels
<1>ctl. \A t \in Threads : ControlAt(t) BY DEF IInv, ControlOK
<1>live. \A t \in Threads : LiveAt(t) BY DEF IInv, Live
<1>ptr. /\ pc \in [Threads -> Labels] /\ ret \in [Threads -> Labels]
      /\ sess \in [Threads -> Slots \union {NoSlot}]
      /\ found \in [Threads -> Slots \union {NoSlot}]
      /\ tgt \in [Threads -> Slots \union {NoSlot}]
      /\ want \in [Threads -> IDs]
  BY DEF IInv, TypeOK
<1>word. /\ ID \in [Slots -> IDs] /\ released \in [Slots -> BOOLEAN]
       /\ IOcount \in [Slots -> Int] /\ posts \in [Slots -> Nat]
  BY DEF IInv, TypeOK
<1>busy. \A r \in Slots : Busy(r) => ~released[r] BY DEF IInv, Live
<1>zero. \A r \in Slots : IOcount[r] = 0 =>
           ~Busy(r) /\ \A t \in Threads : sess[t] # r /\ found[t] # r
  BY ZeroMeansNone DEF IInv
<1>fresh. FreshUnknown BY DEF IInv
<1>1. CASE Next
  <2>1. ASSUME NEW t \in Threads, InitID(t) PROVE LiveAt(u)'
    BY <2>1, <1>ctl, <1>live, <1>ptr, <1>word, <1>fresh DEF InitID, FreshUnknown, Fresh
  <2>2. ASSUME NEW t \in Threads, InitIncrement(t) PROVE LiveAt(u)'
    BY <2>2, <1>ctl, <1>live, <1>ptr DEF InitIncrement
  <2>3. ASSUME NEW t \in Threads, InitFlags(t) PROVE LiveAt(u)'
    BY <2>3, <1>ctl, <1>live, <1>ptr DEF InitFlags
  <2>4. ASSUME NEW t \in Threads, InitClear(t) PROVE LiveAt(u)'
    BY <2>4, <1>ctl, <1>live, <1>ptr, <1>word DEF InitClear
  <2>5. ASSUME NEW t \in Threads, OnNewConnect(t) PROVE LiveAt(u)'
    BY <2>5, <1>ctl, <1>live, <1>ptr DEF OnNewConnect
  <2>6. ASSUME NEW t \in Threads, RecvIOCheck(t) PROVE LiveAt(u)'
    BY <2>6, <1>ctl, <1>live, <1>ptr DEF RecvIOCheck
  <2>7. ASSUME NEW t \in Threads, RecvIOPost(t) PROVE LiveAt(u)'
    BY <2>7, <1>ctl, <1>live, <1>ptr DEF RecvIOPost
  <2>8. ASSUME NEW t \in Threads, RecvIORecheck(t) PROVE LiveAt(u)'
    BY <2>8, <1>ctl, <1>live, <1>ptr DEF RecvIORecheck, CancelIoEx
  <2>9. ASSUME NEW t \in Threads, RecvIOCancel(t) PROVE LiveAt(u)'
    BY <2>9, <1>ctl, <1>live, <1>ptr DEF RecvIOCancel, CancelIoEx
  <2>10. ASSUME NEW t \in Threads, SendIOCheck(t) PROVE LiveAt(u)'
    BY <2>10, <1>ctl, <1>live, <1>ptr DEF SendIOCheck
  <2>11. ASSUME NEW t \in Threads, SendIOExchange(t) PROVE LiveAt(u)'
    BY <2>11, <1>ctl, <1>live, <1>ptr DEF SendIOExchange
  <2>12. ASSUME NEW t \in Threads, SendIOSize(t) PROVE LiveAt(u)'
    BY <2>12, <1>ctl, <1>live, <1>ptr DEF SendIOSize
  <2>13. ASSUME NEW t \in Threads, SendIOPost(t) PROVE LiveAt(u)'
    BY <2>13, <1>ctl, <1>live, <1>ptr DEF SendIOPost
  <2>14. ASSUME NEW t \in Threads, SendIORecheck(t) PROVE LiveAt(u)'
    BY <2>14, <1>ctl, <1>live, <1>ptr DEF SendIORecheck, CancelIoEx
  <2>15. ASSUME NEW t \in Threads, SendIOCancel(t) PROVE LiveAt(u)'
    BY <2>15, <1>ctl, <1>live, <1>ptr DEF SendIOCancel, CancelIoEx
  <2>16. ASSUME NEW t \in Threads, ClearSendFlag(t) PROVE LiveAt(u)'
    BY <2>16, <1>ctl, <1>live, <1>ptr DEF ClearSendFlag
  <2>17. ASSUME NEW t \in Threads, CancelRegist(t) PROVE LiveAt(u)'
    BY <2>17, <1>ctl, <1>live, <1>ptr DEF CancelRegist, AfterRegist
  <2>18. ASSUME NEW t \in Threads, IORelease(t) PROVE LiveAt(u)'
    BY <2>18, <1>ctl, <1>live, <1>ptr DEF IORelease
  <2>19. ASSUME NEW t \in Threads, SentEarlyLoad(t) PROVE LiveAt(u)'
    BY <2>19, <1>ctl, <1>live, <1>ptr DEF SentEarlyLoad
  <2>sended. ASSUME NEW t \in Threads, SendedEnds(t) PROVE LiveAt(u)'
    BY <2>sended, <1>ctl, <1>live, <1>ptr DEF SendedEnds
  <2>20. ASSUME NEW t \in Threads, SentMore(t) PROVE LiveAt(u)'
    BY <2>20, <1>ctl, <1>live, <1>ptr DEF SentMore
  <2>21. ASSUME NEW t \in Threads, RecvLoop(t) PROVE LiveAt(u)'
    BY <2>21, <1>ctl, <1>live, <1>ptr DEF RecvLoop, OnRecv
  <2>22. ASSUME NEW t \in Threads, KickCancel(t) PROVE LiveAt(u)'
    BY <2>22, <1>ctl, <1>live, <1>ptr DEF KickCancel, OnRecv, CancelIoEx
  <2>23. ASSUME NEW t \in Threads, HandlerRelease(t) PROVE LiveAt(u)'
    BY <2>23, <1>ctl, <1>live, <1>ptr DEF HandlerRelease
  <2>24. ASSUME NEW t \in Threads, FindIncrement(t) PROVE LiveAt(u)'
    BY <2>24, <1>ctl, <1>live, <1>ptr DEF FindIncrement, GET_INDEX, IDs
  <2>25. ASSUME NEW t \in Threads, FindCheckID(t) PROVE LiveAt(u)'
    BY <2>25, <1>ctl, <1>live, <1>ptr DEF FindCheckID
  <2>26. ASSUME NEW t \in Threads, SendReqPost(t) PROVE LiveAt(u)'
    BY <2>26, <1>ctl, <1>live, <1>ptr DEF SendReqPost
  <2>27. ASSUME NEW t \in Threads, DisconnectCancel(t) PROVE LiveAt(u)'
    BY <2>27, <1>ctl, <1>live, <1>ptr DEF DisconnectCancel, CancelIoEx
  <2>28. ASSUME NEW t \in Threads, FinderRelease(t) PROVE LiveAt(u)'
    BY <2>28, <1>ctl, <1>live, <1>ptr DEF FinderRelease
  <2>29. ASSUME NEW t \in Threads, DeleteCAS(t) PROVE LiveAt(u)'
    BY <2>29, <1>ctl, <1>live, <1>ptr, <1>word, <1>zero DEF DeleteCAS
  <2>30. ASSUME NEW t \in Threads, DeleteClear(t) PROVE LiveAt(u)'
    BY <2>30, <1>ctl, <1>live, <1>ptr DEF DeleteClear
  <2>31. ASSUME NEW t \in Threads, DeletePush(t) PROVE LiveAt(u)'
    BY <2>31, <1>ctl, <1>live, <1>ptr DEF DeletePush
  <2>32. ASSUME NEW t \in Threads, OnDisconnect(t) PROVE LiveAt(u)'
    BY <2>32, <1>ctl, <1>live, <1>ptr DEF OnDisconnect
  <2>33. ASSUME NEW t \in Threads, AcceptPop(t) PROVE LiveAt(u)'
    BY <2>33, <1>ctl, <1>live, <1>ptr DEF AcceptPop
  <2>34. ASSUME NEW t \in Threads, ContentSend(t) PROVE LiveAt(u)'
    BY <2>34, <1>ctl, <1>live, <1>ptr DEF ContentSend
  <2>35. ASSUME NEW t \in Threads, NEW r \in Slots, TakePost(t, r) PROVE LiveAt(u)'
    BY <2>35, <1>ctl, <1>live, <1>ptr, <1>busy DEF TakePost, Busy
  <2>36. ASSUME NEW t \in Threads, NEW r \in Slots, TakeSend(t, r) PROVE LiveAt(u)'
    BY <2>36, <1>ctl, <1>live, <1>ptr, <1>busy DEF TakeSend, Busy, SendResults
  <2>37. ASSUME NEW t \in Threads, NEW r \in Slots, TakeRecv(t, r) PROVE LiveAt(u)'
    BY <2>37, <1>ctl, <1>live, <1>ptr, <1>busy DEF TakeRecv, Busy, RecvResults
  <2>38. ASSUME NEW r \in Slots, RecvComplete(r) PROVE LiveAt(u)'
    BY <2>38, <1>ctl, <1>live, <1>ptr DEF RecvComplete
  <2>39. ASSUME NEW r \in Slots, SendComplete(r) PROVE LiveAt(u)'
    BY <2>39, <1>ctl, <1>live, <1>ptr DEF SendComplete
  <2> QED
    BY <1>1, <2>1, <2>2, <2>3, <2>4, <2>5, <2>6, <2>7, <2>8, <2>9, <2>10, <2>11, <2>12,
       <2>13, <2>14, <2>15, <2>16, <2>17, <2>18, <2>19, <2>20, <2>21, <2>22, <2>23,
       <2>24, <2>25, <2>26, <2>27, <2>28, <2>29, <2>30, <2>31, <2>32, <2>33, <2>34,
       <2>35, <2>36, <2>37, <2>38, <2>39, <2>sended DEF Next, Continue, Take
<1>2. CASE UNCHANGED vars BY <1>2, <1>ctl, <1>live, <1>ptr
<1> QED BY <1>1, <1>2

\* Every step keeps a slot with a completion outstanding or a post queued
\* unreleased.
LEMMA LiveSlotStep ==
  ASSUME IInv, TypeOK', ControlOK', [Next]_vars
  PROVE  (\A s \in Slots : Busy(s) => ~released[s])'
<1> SUFFICES ASSUME NEW s \in Slots PROVE (Busy(s) => ~released[s])' OBVIOUS
<1> USE DEF Busy, LiveAt, ControlAt, RecvResults, SendResults, SessLabels, IOProcLabels, FoundLabels, InitStage, DelStage, OwnLabels, SubLabels, InitLabels
<1>ctl. \A t \in Threads : ControlAt(t) BY DEF IInv, ControlOK
<1>live. \A t \in Threads : LiveAt(t) BY DEF IInv, Live
<1>busy. \A r \in Slots : Busy(r) => ~released[r] BY DEF IInv, Live
<1>ptr. /\ pc \in [Threads -> Labels] /\ ret \in [Threads -> Labels]
      /\ sess \in [Threads -> Slots \union {NoSlot}]
      /\ found \in [Threads -> Slots \union {NoSlot}]
      /\ tgt \in [Threads -> Slots \union {NoSlot}]
      /\ want \in [Threads -> IDs]
  BY DEF IInv, TypeOK
<1>word. /\ ID \in [Slots -> IDs] /\ released \in [Slots -> BOOLEAN]
       /\ IOcount \in [Slots -> Int] /\ posts \in [Slots -> Nat]
  BY DEF IInv, TypeOK
<1>ov. /\ recvOv \in [Slots -> {"idle", "pending"} \union RecvResults]
     /\ sendOv \in [Slots -> {"idle", "pending"} \union SendResults]
     /\ posts \in [Slots -> Nat] /\ sendFlag \in [Slots -> BOOLEAN]
  BY DEF IInv, TypeOK
<1>zero. \A r \in Slots : IOcount[r] = 0 =>
           ~Busy(r) /\ \A t \in Threads : sess[t] # r /\ found[t] # r
  BY ZeroMeansNone DEF IInv
<1>1. CASE Next
  <2>1. ASSUME NEW t \in Threads, InitID(t) PROVE (Busy(s) => ~released[s])'
    BY <2>1, <1>ctl, <1>live, <1>busy, <1>ptr, <1>word, <1>ov DEF InitID
  <2>2. ASSUME NEW t \in Threads, InitIncrement(t) PROVE (Busy(s) => ~released[s])'
    BY <2>2, <1>ctl, <1>live, <1>busy, <1>ptr, <1>word, <1>ov DEF InitIncrement
  <2>3. ASSUME NEW t \in Threads, InitFlags(t) PROVE (Busy(s) => ~released[s])'
    BY <2>3, <1>ctl, <1>live, <1>busy, <1>ptr, <1>word, <1>ov DEF InitFlags
  <2>4. ASSUME NEW t \in Threads, InitClear(t) PROVE (Busy(s) => ~released[s])'
    BY <2>4, <1>ctl, <1>live, <1>busy, <1>ptr, <1>word, <1>ov DEF InitClear
  <2>5. ASSUME NEW t \in Threads, OnNewConnect(t) PROVE (Busy(s) => ~released[s])'
    BY <2>5, <1>ctl, <1>live, <1>busy, <1>ptr, <1>word, <1>ov DEF OnNewConnect
  <2>6. ASSUME NEW t \in Threads, RecvIOCheck(t) PROVE (Busy(s) => ~released[s])'
    BY <2>6, <1>ctl, <1>live, <1>busy, <1>ptr, <1>word, <1>ov DEF RecvIOCheck
  <2>7. ASSUME NEW t \in Threads, RecvIOPost(t) PROVE (Busy(s) => ~released[s])'
    BY <2>7, <1>ctl, <1>live, <1>busy, <1>ptr, <1>word, <1>ov DEF RecvIOPost
  <2>8. ASSUME NEW t \in Threads, RecvIORecheck(t) PROVE (Busy(s) => ~released[s])'
    BY <2>8, <1>ctl, <1>live, <1>busy, <1>ptr, <1>word, <1>ov DEF RecvIORecheck, CancelIoEx
  <2>9. ASSUME NEW t \in Threads, RecvIOCancel(t) PROVE (Busy(s) => ~released[s])'
    BY <2>9, <1>ctl, <1>live, <1>busy, <1>ptr, <1>word, <1>ov DEF RecvIOCancel, CancelIoEx
  <2>10. ASSUME NEW t \in Threads, SendIOCheck(t) PROVE (Busy(s) => ~released[s])'
    BY <2>10, <1>ctl, <1>live, <1>busy, <1>ptr, <1>word, <1>ov DEF SendIOCheck
  <2>11. ASSUME NEW t \in Threads, SendIOExchange(t) PROVE (Busy(s) => ~released[s])'
    BY <2>11, <1>ctl, <1>live, <1>busy, <1>ptr, <1>word, <1>ov DEF SendIOExchange
  <2>12. ASSUME NEW t \in Threads, SendIOSize(t) PROVE (Busy(s) => ~released[s])'
    BY <2>12, <1>ctl, <1>live, <1>busy, <1>ptr, <1>word, <1>ov DEF SendIOSize
  <2>13. ASSUME NEW t \in Threads, SendIOPost(t) PROVE (Busy(s) => ~released[s])'
    BY <2>13, <1>ctl, <1>live, <1>busy, <1>ptr, <1>word, <1>ov DEF SendIOPost
  <2>14. ASSUME NEW t \in Threads, SendIORecheck(t) PROVE (Busy(s) => ~released[s])'
    BY <2>14, <1>ctl, <1>live, <1>busy, <1>ptr, <1>word, <1>ov DEF SendIORecheck, CancelIoEx
  <2>15. ASSUME NEW t \in Threads, SendIOCancel(t) PROVE (Busy(s) => ~released[s])'
    BY <2>15, <1>ctl, <1>live, <1>busy, <1>ptr, <1>word, <1>ov DEF SendIOCancel, CancelIoEx
  <2>16. ASSUME NEW t \in Threads, ClearSendFlag(t) PROVE (Busy(s) => ~released[s])'
    BY <2>16, <1>ctl, <1>live, <1>busy, <1>ptr, <1>word, <1>ov DEF ClearSendFlag
  <2>17. ASSUME NEW t \in Threads, CancelRegist(t) PROVE (Busy(s) => ~released[s])'
    BY <2>17, <1>ctl, <1>live, <1>busy, <1>ptr, <1>word, <1>ov DEF CancelRegist, AfterRegist
  <2>18. ASSUME NEW t \in Threads, IORelease(t) PROVE (Busy(s) => ~released[s])'
    BY <2>18, <1>ctl, <1>live, <1>busy, <1>ptr, <1>word, <1>ov DEF IORelease
  <2>19. ASSUME NEW t \in Threads, SentEarlyLoad(t) PROVE (Busy(s) => ~released[s])'
    BY <2>19, <1>ctl, <1>live, <1>busy, <1>ptr, <1>word, <1>ov DEF SentEarlyLoad
  <2>sended. ASSUME NEW t \in Threads, SendedEnds(t) PROVE (Busy(s) => ~released[s])'
    BY <2>sended, <1>ctl, <1>live, <1>busy, <1>ptr, <1>word, <1>ov DEF SendedEnds
  <2>20. ASSUME NEW t \in Threads, SentMore(t) PROVE (Busy(s) => ~released[s])'
    BY <2>20, <1>ctl, <1>live, <1>busy, <1>ptr, <1>word, <1>ov DEF SentMore
  <2>21. ASSUME NEW t \in Threads, RecvLoop(t) PROVE (Busy(s) => ~released[s])'
    BY <2>21, <1>ctl, <1>live, <1>busy, <1>ptr, <1>word, <1>ov DEF RecvLoop, OnRecv
  <2>22. ASSUME NEW t \in Threads, KickCancel(t) PROVE (Busy(s) => ~released[s])'
    BY <2>22, <1>ctl, <1>live, <1>busy, <1>ptr, <1>word, <1>ov DEF KickCancel, OnRecv,
       CancelIoEx
  <2>23. ASSUME NEW t \in Threads, HandlerRelease(t) PROVE (Busy(s) => ~released[s])'
    BY <2>23, <1>ctl, <1>live, <1>busy, <1>ptr, <1>word, <1>ov DEF HandlerRelease
  <2>24. ASSUME NEW t \in Threads, FindIncrement(t) PROVE (Busy(s) => ~released[s])'
    BY <2>24, <1>ctl, <1>live, <1>busy, <1>ptr, <1>word, <1>ov DEF FindIncrement,
       GET_INDEX, IDs
  <2>25. ASSUME NEW t \in Threads, FindCheckID(t) PROVE (Busy(s) => ~released[s])'
    BY <2>25, <1>ctl, <1>live, <1>busy, <1>ptr, <1>word, <1>ov DEF FindCheckID
  <2>26. ASSUME NEW t \in Threads, SendReqPost(t) PROVE (Busy(s) => ~released[s])'
    BY <2>26, <1>ctl, <1>live, <1>busy, <1>ptr, <1>word, <1>ov DEF SendReqPost
  <2>27. ASSUME NEW t \in Threads, DisconnectCancel(t) PROVE (Busy(s) => ~released[s])'
    BY <2>27, <1>ctl, <1>live, <1>busy, <1>ptr, <1>word, <1>ov DEF DisconnectCancel,
       CancelIoEx
  <2>28. ASSUME NEW t \in Threads, FinderRelease(t) PROVE (Busy(s) => ~released[s])'
    BY <2>28, <1>ctl, <1>live, <1>busy, <1>ptr, <1>word, <1>ov DEF FinderRelease
  <2>29. ASSUME NEW t \in Threads, DeleteCAS(t) PROVE (Busy(s) => ~released[s])'
    BY <2>29, <1>ctl, <1>busy, <1>ptr, <1>word, <1>zero DEF DeleteCAS
  <2>30. ASSUME NEW t \in Threads, DeleteClear(t) PROVE (Busy(s) => ~released[s])'
    BY <2>30, <1>ctl, <1>live, <1>busy, <1>ptr, <1>word, <1>ov DEF DeleteClear
  <2>31. ASSUME NEW t \in Threads, DeletePush(t) PROVE (Busy(s) => ~released[s])'
    BY <2>31, <1>ctl, <1>live, <1>busy, <1>ptr, <1>word, <1>ov DEF DeletePush
  <2>32. ASSUME NEW t \in Threads, OnDisconnect(t) PROVE (Busy(s) => ~released[s])'
    BY <2>32, <1>ctl, <1>live, <1>busy, <1>ptr, <1>word, <1>ov DEF OnDisconnect
  <2>33. ASSUME NEW t \in Threads, AcceptPop(t) PROVE (Busy(s) => ~released[s])'
    BY <2>33, <1>ctl, <1>live, <1>busy, <1>ptr, <1>word, <1>ov DEF AcceptPop
  <2>34. ASSUME NEW t \in Threads, ContentSend(t) PROVE (Busy(s) => ~released[s])'
    BY <2>34, <1>ctl, <1>live, <1>busy, <1>ptr, <1>word, <1>ov DEF ContentSend
  <2>35. ASSUME NEW t \in Threads, NEW r \in Slots, TakePost(t, r) PROVE (Busy(s) => ~released[s])'
    BY <2>35, <1>ctl, <1>live, <1>busy, <1>ptr, <1>word, <1>ov DEF TakePost
  <2>36. ASSUME NEW t \in Threads, NEW r \in Slots, TakeSend(t, r) PROVE (Busy(s) => ~released[s])'
    BY <2>36, <1>ctl, <1>live, <1>busy, <1>ptr, <1>word, <1>ov DEF TakeSend
  <2>37. ASSUME NEW t \in Threads, NEW r \in Slots, TakeRecv(t, r) PROVE (Busy(s) => ~released[s])'
    BY <2>37, <1>ctl, <1>live, <1>busy, <1>ptr, <1>word, <1>ov DEF TakeRecv
  <2>38. ASSUME NEW r \in Slots, RecvComplete(r) PROVE (Busy(s) => ~released[s])'
    BY <2>38, <1>ctl, <1>live, <1>busy, <1>ptr, <1>word, <1>ov DEF RecvComplete
  <2>39. ASSUME NEW r \in Slots, SendComplete(r) PROVE (Busy(s) => ~released[s])'
    BY <2>39, <1>ctl, <1>live, <1>busy, <1>ptr, <1>word, <1>ov DEF SendComplete
  <2> QED
    BY <1>1, <2>1, <2>2, <2>3, <2>4, <2>5, <2>6, <2>7, <2>8, <2>9, <2>10, <2>11, <2>12,
       <2>13, <2>14, <2>15, <2>16, <2>17, <2>18, <2>19, <2>20, <2>21, <2>22, <2>23,
       <2>24, <2>25, <2>26, <2>27, <2>28, <2>29, <2>30, <2>31, <2>32, <2>33, <2>34,
       <2>35, <2>36, <2>37, <2>38, <2>39, <2>sended DEF Next, Continue, Take
<1>2. CASE UNCHANGED vars BY <1>2, <1>ctl, <1>live, <1>busy, <1>ptr, <1>word, <1>ov
<1> QED BY <1>1, <1>2

\* acceptThread's pop takes the top of indexStack and only that.
LEMMA PopStack ==
  ASSUME indexStack \in Seq(Slots), StackDistinct, NEW t \in Threads, AcceptPop(t)
  PROVE  LET top == indexStack[Len(indexStack)] IN
         /\ StackDistinct'
         /\ \A s \in Slots : InStack(s)' <=> InStack(s) /\ s # top
         /\ top \in Slots /\ InStack(top)
<1> DEFINE n == Len(indexStack)
<1>1. n \in Nat /\ n # 0 /\ indexStack[n] \in Slots BY DEF AcceptPop
<1>2. indexStack' = SubSeq(indexStack, 1, n - 1) BY DEF AcceptPop
<1>3. /\ Len(indexStack') = n - 1
      /\ \A i \in 1 .. n - 1 : indexStack'[i] = indexStack[i]
  <2>1. \A i \in 1 .. n - 1 : indexStack[i] \in Slots BY <1>1
  <2>2. /\ Len(SubSeq(indexStack, 1, n - 1)) = n - 1
        /\ \A i \in 1 .. n - 1 : SubSeq(indexStack, 1, n - 1)[i] = indexStack[i]
    <3> DEFINE rest == SubSeq(indexStack, 1, n - 1)
    <3>1. 1 \in Int /\ n - 1 \in Int BY <1>1
    <3>2. /\ Len(rest) = IF 1 <= n - 1 THEN n - 1 - 1 + 1 ELSE 0
          /\ \A i \in 1 .. n - 1 - 1 + 1 : rest[i] = indexStack[1 + i - 1]
      BY <2>1, <3>1, SubSeqProperties
    <3> HIDE DEF rest
    <3>3. n - 1 - 1 + 1 = n - 1 /\ \A i \in 1 .. n - 1 : 1 + i - 1 = i BY <1>1
    <3>4. Len(rest) = n - 1 /\ \A i \in 1 .. n - 1 : rest[i] = indexStack[i]
      <4>1. Len(rest) = n - 1
        <5>1. \A k \in Nat : k # 0 => (IF 1 <= k - 1 THEN k - 1 - 1 + 1 ELSE 0) = k - 1
          OBVIOUS
        <5>2. (IF 1 <= n - 1 THEN n - 1 - 1 + 1 ELSE 0) = n - 1 BY <1>1, <5>1
        <5> QED BY <3>2, <5>2
      <4>2. ASSUME NEW i \in 1 .. n - 1 PROVE rest[i] = indexStack[i]
        <5>1. rest[i] = indexStack[1 + i - 1] BY <3>2, <3>3
        <5> QED BY <3>3, <5>1
      <4> QED BY <4>1, <4>2
    <3> QED BY <3>4 DEF rest
  <2> QED BY <1>2, <2>2
<1>4. StackDistinct' BY <1>1, <1>3 DEF StackDistinct
<1>5. \A s \in Slots : InStack(s)' <=> InStack(s) /\ s # indexStack[n]
  <2> SUFFICES ASSUME NEW s \in Slots PROVE InStack(s)' <=> InStack(s) /\ s # indexStack[n]
    OBVIOUS
  <2>1. InStack(s)' => InStack(s) /\ s # indexStack[n]
    BY <1>1, <1>3 DEF InStack, StackDistinct
  <2>2. InStack(s) /\ s # indexStack[n] => InStack(s)'
    BY <1>1, <1>3 DEF InStack
  <2> QED BY <2>1, <2>2
<1>6. InStack(indexStack[n]) BY <1>1 DEF InStack
<1> QED BY <1>1, <1>4, <1>5, <1>6

\* deleteSession's push adds the deleted slot and only that.
LEMMA PushStack ==
  ASSUME indexStack \in Seq(Slots), StackDistinct, NEW t \in Threads, DeletePush(t),
         tgt[t] \in Slots, ~InStack(tgt[t])
  PROVE  /\ StackDistinct'
         /\ \A s \in Slots : InStack(s)' <=> InStack(s) \/ s = tgt[t]
<1> DEFINE n == Len(indexStack)
<1>1. n \in Nat BY DEF DeletePush
<1>2. indexStack' = Append(indexStack, tgt[t]) BY DEF DeletePush
<1>3. /\ Len(indexStack') = n + 1 /\ indexStack'[n + 1] = tgt[t]
      /\ \A i \in 1 .. n : indexStack'[i] = indexStack[i]
  BY <1>1, <1>2
<1>4. StackDistinct' BY <1>1, <1>3 DEF StackDistinct, InStack
<1>5. \A s \in Slots : InStack(s)' <=> InStack(s) \/ s = tgt[t]
  <2> SUFFICES ASSUME NEW s \in Slots PROVE InStack(s)' <=> InStack(s) \/ s = tgt[t]
    OBVIOUS
  <2>1. InStack(s)' => InStack(s) \/ s = tgt[t] BY <1>1, <1>3 DEF InStack
  <2>2. InStack(s) => InStack(s)' BY <1>1, <1>3 DEF InStack
  <2>3. s = tgt[t] => InStack(s)' BY <1>1, <1>3 DEF InStack
  <2> QED BY <2>1, <2>2, <2>3
<1> QED BY <1>4, <1>5

\* Every step keeps a free slot in indexStack once.
LEMMA StackDistinctStep ==
  ASSUME IInv, TypeOK', ControlOK', [Next]_vars
  PROVE  StackDistinct'
<1> USE DEF ControlAt, SessLabels, IOProcLabels, FoundLabels, InitStage, DelStage, OwnLabels, SubLabels, InitLabels
<1>ctl. \A t \in Threads : ControlAt(t) BY DEF IInv, ControlOK
<1>own. StackDistinct BY DEF IInv, Owned
<1>stack. indexStack \in Seq(Slots) BY DEF IInv, TypeOK
<1>off. OwnerOffStack BY DEF IInv, Owned
<1>1. CASE Next
  <2>1. ASSUME NEW t \in Threads, InitID(t) PROVE StackDistinct'
    BY <2>1, <1>own DEF InitID, StackDistinct
  <2>2. ASSUME NEW t \in Threads, InitIncrement(t) PROVE StackDistinct'
    BY <2>2, <1>own DEF InitIncrement, StackDistinct
  <2>3. ASSUME NEW t \in Threads, InitFlags(t) PROVE StackDistinct'
    BY <2>3, <1>own DEF InitFlags, StackDistinct
  <2>4. ASSUME NEW t \in Threads, InitClear(t) PROVE StackDistinct'
    BY <2>4, <1>own DEF InitClear, StackDistinct
  <2>5. ASSUME NEW t \in Threads, OnNewConnect(t) PROVE StackDistinct'
    BY <2>5, <1>own DEF OnNewConnect, StackDistinct
  <2>6. ASSUME NEW t \in Threads, RecvIOCheck(t) PROVE StackDistinct'
    BY <2>6, <1>own DEF RecvIOCheck, StackDistinct
  <2>7. ASSUME NEW t \in Threads, RecvIOPost(t) PROVE StackDistinct'
    BY <2>7, <1>own DEF RecvIOPost, StackDistinct
  <2>8. ASSUME NEW t \in Threads, RecvIORecheck(t) PROVE StackDistinct'
    BY <2>8, <1>own DEF RecvIORecheck, StackDistinct
  <2>9. ASSUME NEW t \in Threads, RecvIOCancel(t) PROVE StackDistinct'
    BY <2>9, <1>own DEF RecvIOCancel, StackDistinct
  <2>10. ASSUME NEW t \in Threads, SendIOCheck(t) PROVE StackDistinct'
    BY <2>10, <1>own DEF SendIOCheck, StackDistinct
  <2>11. ASSUME NEW t \in Threads, SendIOExchange(t) PROVE StackDistinct'
    BY <2>11, <1>own DEF SendIOExchange, StackDistinct
  <2>12. ASSUME NEW t \in Threads, SendIOSize(t) PROVE StackDistinct'
    BY <2>12, <1>own DEF SendIOSize, StackDistinct
  <2>13. ASSUME NEW t \in Threads, SendIOPost(t) PROVE StackDistinct'
    BY <2>13, <1>own DEF SendIOPost, StackDistinct
  <2>14. ASSUME NEW t \in Threads, SendIORecheck(t) PROVE StackDistinct'
    BY <2>14, <1>own DEF SendIORecheck, StackDistinct
  <2>15. ASSUME NEW t \in Threads, SendIOCancel(t) PROVE StackDistinct'
    BY <2>15, <1>own DEF SendIOCancel, StackDistinct
  <2>16. ASSUME NEW t \in Threads, ClearSendFlag(t) PROVE StackDistinct'
    BY <2>16, <1>own DEF ClearSendFlag, StackDistinct
  <2>17. ASSUME NEW t \in Threads, CancelRegist(t) PROVE StackDistinct'
    BY <2>17, <1>own DEF CancelRegist, StackDistinct
  <2>18. ASSUME NEW t \in Threads, IORelease(t) PROVE StackDistinct'
    BY <2>18, <1>own DEF IORelease, StackDistinct
  <2>19. ASSUME NEW t \in Threads, SentEarlyLoad(t) PROVE StackDistinct'
    BY <2>19, <1>own DEF SentEarlyLoad, StackDistinct
  <2>sended. ASSUME NEW t \in Threads, SendedEnds(t) PROVE StackDistinct'
    BY <2>sended, <1>own DEF SendedEnds, StackDistinct
  <2>20. ASSUME NEW t \in Threads, SentMore(t) PROVE StackDistinct'
    BY <2>20, <1>own DEF SentMore, StackDistinct
  <2>21. ASSUME NEW t \in Threads, RecvLoop(t) PROVE StackDistinct'
    BY <2>21, <1>own DEF RecvLoop, StackDistinct
  <2>22. ASSUME NEW t \in Threads, KickCancel(t) PROVE StackDistinct'
    BY <2>22, <1>own DEF KickCancel, StackDistinct
  <2>23. ASSUME NEW t \in Threads, HandlerRelease(t) PROVE StackDistinct'
    BY <2>23, <1>own DEF HandlerRelease, StackDistinct
  <2>24. ASSUME NEW t \in Threads, FindIncrement(t) PROVE StackDistinct'
    BY <2>24, <1>own DEF FindIncrement, StackDistinct
  <2>25. ASSUME NEW t \in Threads, FindCheckID(t) PROVE StackDistinct'
    BY <2>25, <1>own DEF FindCheckID, StackDistinct
  <2>26. ASSUME NEW t \in Threads, SendReqPost(t) PROVE StackDistinct'
    BY <2>26, <1>own DEF SendReqPost, StackDistinct
  <2>27. ASSUME NEW t \in Threads, DisconnectCancel(t) PROVE StackDistinct'
    BY <2>27, <1>own DEF DisconnectCancel, StackDistinct
  <2>28. ASSUME NEW t \in Threads, FinderRelease(t) PROVE StackDistinct'
    BY <2>28, <1>own DEF FinderRelease, StackDistinct
  <2>29. ASSUME NEW t \in Threads, DeleteCAS(t) PROVE StackDistinct'
    BY <2>29, <1>own DEF DeleteCAS, StackDistinct
  <2>30. ASSUME NEW t \in Threads, DeleteClear(t) PROVE StackDistinct'
    BY <2>30, <1>own DEF DeleteClear, StackDistinct
  <2>31. ASSUME NEW t \in Threads, DeletePush(t) PROVE StackDistinct'
    BY <2>31, <1>stack, <1>own, <1>off, <1>ctl, PushStack DEF DeletePush, OwnerOffStack
  <2>32. ASSUME NEW t \in Threads, OnDisconnect(t) PROVE StackDistinct'
    BY <2>32, <1>own DEF OnDisconnect, StackDistinct
  <2>33. ASSUME NEW t \in Threads, AcceptPop(t) PROVE StackDistinct'
    BY <2>33, <1>stack, <1>own, PopStack
  <2>34. ASSUME NEW t \in Threads, ContentSend(t) PROVE StackDistinct'
    BY <2>34, <1>own DEF ContentSend, StackDistinct
  <2>35. ASSUME NEW t \in Threads, NEW r \in Slots, TakePost(t, r) PROVE StackDistinct'
    BY <2>35, <1>own DEF TakePost, StackDistinct
  <2>36. ASSUME NEW t \in Threads, NEW r \in Slots, TakeSend(t, r) PROVE StackDistinct'
    BY <2>36, <1>own DEF TakeSend, StackDistinct
  <2>37. ASSUME NEW t \in Threads, NEW r \in Slots, TakeRecv(t, r) PROVE StackDistinct'
    BY <2>37, <1>own DEF TakeRecv, StackDistinct
  <2>38. ASSUME NEW r \in Slots, RecvComplete(r) PROVE StackDistinct'
    BY <2>38, <1>own DEF RecvComplete, StackDistinct
  <2>39. ASSUME NEW r \in Slots, SendComplete(r) PROVE StackDistinct'
    BY <2>39, <1>own DEF SendComplete, StackDistinct
  <2> QED
    BY <1>1, <2>1, <2>2, <2>3, <2>4, <2>5, <2>6, <2>7, <2>8, <2>9, <2>10, <2>11, <2>12,
       <2>13, <2>14, <2>15, <2>16, <2>17, <2>18, <2>19, <2>20, <2>21, <2>22, <2>23,
       <2>24, <2>25, <2>26, <2>27, <2>28, <2>29, <2>30, <2>31, <2>32, <2>33, <2>34,
       <2>35, <2>36, <2>37, <2>38, <2>39, <2>sended DEF Next, Continue, Take
<1>2. CASE UNCHANGED vars BY <1>2, <1>own DEF StackDistinct
<1> QED BY <1>1, <1>2

\* Every step keeps the slot a thread initialises or deletes out of
\* indexStack.
LEMMA OwnerOffStackStep ==
  ASSUME IInv, TypeOK', ControlOK', [Next]_vars
  PROVE  OwnerOffStack'
<1> SUFFICES ASSUME NEW u \in Threads, pc'[u] \in OwnLabels PROVE ~InStack(tgt[u])'
  BY DEF OwnerOffStack
<1> USE DEF ControlAt, SessLabels, IOProcLabels, FoundLabels, InitStage, DelStage, OwnLabels, SubLabels, InitLabels
<1>ctl. \A t \in Threads : ControlAt(t) BY DEF IInv, ControlOK
<1>ptr. /\ pc \in [Threads -> Labels] /\ ret \in [Threads -> Labels]
      /\ sess \in [Threads -> Slots \union {NoSlot}]
      /\ found \in [Threads -> Slots \union {NoSlot}]
      /\ tgt \in [Threads -> Slots \union {NoSlot}]
      /\ want \in [Threads -> IDs]
  BY DEF IInv, TypeOK
<1>stack. indexStack \in Seq(Slots) BY DEF IInv, TypeOK
<1>own. OwnersDiffer BY DEF IInv, Owned
<1>fresh. FreshUnknown BY DEF IInv
<1>off. OwnerOffStack BY DEF IInv, Owned
<1>dist. StackDistinct BY DEF IInv, Owned
<1>1. CASE Next
  <2>1. ASSUME NEW t \in Threads, InitID(t) PROVE ~InStack(tgt[u])'
    BY <2>1, <1>ctl, <1>off, <1>ptr DEF InitID, OwnerOffStack, InStack
  <2>2. ASSUME NEW t \in Threads, InitIncrement(t) PROVE ~InStack(tgt[u])'
    BY <2>2, <1>ctl, <1>off, <1>ptr DEF InitIncrement, OwnerOffStack, InStack
  <2>3. ASSUME NEW t \in Threads, InitFlags(t) PROVE ~InStack(tgt[u])'
    BY <2>3, <1>ctl, <1>off, <1>ptr DEF InitFlags, OwnerOffStack, InStack
  <2>4. ASSUME NEW t \in Threads, InitClear(t) PROVE ~InStack(tgt[u])'
    BY <2>4, <1>ctl, <1>off, <1>ptr DEF InitClear, OwnerOffStack, InStack
  <2>5. ASSUME NEW t \in Threads, OnNewConnect(t) PROVE ~InStack(tgt[u])'
    BY <2>5, <1>ctl, <1>off, <1>ptr DEF OnNewConnect, OwnerOffStack, InStack
  <2>6. ASSUME NEW t \in Threads, RecvIOCheck(t) PROVE ~InStack(tgt[u])'
    BY <2>6, <1>ctl, <1>off, <1>ptr DEF RecvIOCheck, OwnerOffStack, InStack
  <2>7. ASSUME NEW t \in Threads, RecvIOPost(t) PROVE ~InStack(tgt[u])'
    BY <2>7, <1>ctl, <1>off, <1>ptr DEF RecvIOPost, OwnerOffStack, InStack
  <2>8. ASSUME NEW t \in Threads, RecvIORecheck(t) PROVE ~InStack(tgt[u])'
    BY <2>8, <1>ctl, <1>off, <1>ptr DEF RecvIORecheck, CancelIoEx, OwnerOffStack, InStack
  <2>9. ASSUME NEW t \in Threads, RecvIOCancel(t) PROVE ~InStack(tgt[u])'
    BY <2>9, <1>ctl, <1>off, <1>ptr DEF RecvIOCancel, CancelIoEx, OwnerOffStack, InStack
  <2>10. ASSUME NEW t \in Threads, SendIOCheck(t) PROVE ~InStack(tgt[u])'
    BY <2>10, <1>ctl, <1>off, <1>ptr DEF SendIOCheck, OwnerOffStack, InStack
  <2>11. ASSUME NEW t \in Threads, SendIOExchange(t) PROVE ~InStack(tgt[u])'
    BY <2>11, <1>ctl, <1>off, <1>ptr DEF SendIOExchange, OwnerOffStack, InStack
  <2>12. ASSUME NEW t \in Threads, SendIOSize(t) PROVE ~InStack(tgt[u])'
    BY <2>12, <1>ctl, <1>off, <1>ptr DEF SendIOSize, OwnerOffStack, InStack
  <2>13. ASSUME NEW t \in Threads, SendIOPost(t) PROVE ~InStack(tgt[u])'
    BY <2>13, <1>ctl, <1>off, <1>ptr DEF SendIOPost, OwnerOffStack, InStack
  <2>14. ASSUME NEW t \in Threads, SendIORecheck(t) PROVE ~InStack(tgt[u])'
    BY <2>14, <1>ctl, <1>off, <1>ptr DEF SendIORecheck, CancelIoEx, OwnerOffStack, InStack
  <2>15. ASSUME NEW t \in Threads, SendIOCancel(t) PROVE ~InStack(tgt[u])'
    BY <2>15, <1>ctl, <1>off, <1>ptr DEF SendIOCancel, CancelIoEx, OwnerOffStack, InStack
  <2>16. ASSUME NEW t \in Threads, ClearSendFlag(t) PROVE ~InStack(tgt[u])'
    BY <2>16, <1>ctl, <1>off, <1>ptr DEF ClearSendFlag, OwnerOffStack, InStack
  <2>17. ASSUME NEW t \in Threads, CancelRegist(t) PROVE ~InStack(tgt[u])'
    BY <2>17, <1>ctl, <1>off, <1>ptr DEF CancelRegist, AfterRegist, OwnerOffStack, InStack
  <2>18. ASSUME NEW t \in Threads, IORelease(t) PROVE ~InStack(tgt[u])'
    BY <2>18, <1>ctl, <1>off, <1>ptr DEF IORelease, OwnerOffStack, InStack
  <2>19. ASSUME NEW t \in Threads, SentEarlyLoad(t) PROVE ~InStack(tgt[u])'
    BY <2>19, <1>ctl, <1>off, <1>ptr DEF SentEarlyLoad, OwnerOffStack, InStack
  <2>sended. ASSUME NEW t \in Threads, SendedEnds(t) PROVE ~InStack(tgt[u])'
    BY <2>sended, <1>ctl, <1>off, <1>ptr DEF SendedEnds, OwnerOffStack, InStack
  <2>20. ASSUME NEW t \in Threads, SentMore(t) PROVE ~InStack(tgt[u])'
    BY <2>20, <1>ctl, <1>off, <1>ptr DEF SentMore, OwnerOffStack, InStack
  <2>21. ASSUME NEW t \in Threads, RecvLoop(t) PROVE ~InStack(tgt[u])'
    BY <2>21, <1>ctl, <1>off, <1>ptr DEF RecvLoop, OnRecv, OwnerOffStack, InStack
  <2>22. ASSUME NEW t \in Threads, KickCancel(t) PROVE ~InStack(tgt[u])'
    BY <2>22, <1>ctl, <1>off, <1>ptr DEF KickCancel, OnRecv, CancelIoEx, OwnerOffStack,
       InStack
  <2>23. ASSUME NEW t \in Threads, HandlerRelease(t) PROVE ~InStack(tgt[u])'
    BY <2>23, <1>ctl, <1>off, <1>ptr DEF HandlerRelease, OwnerOffStack, InStack
  <2>24. ASSUME NEW t \in Threads, FindIncrement(t) PROVE ~InStack(tgt[u])'
    BY <2>24, <1>ctl, <1>off, <1>ptr DEF FindIncrement, GET_INDEX, IDs, OwnerOffStack,
       InStack
  <2>25. ASSUME NEW t \in Threads, FindCheckID(t) PROVE ~InStack(tgt[u])'
    BY <2>25, <1>ctl, <1>off, <1>ptr DEF FindCheckID, OwnerOffStack, InStack
  <2>26. ASSUME NEW t \in Threads, SendReqPost(t) PROVE ~InStack(tgt[u])'
    BY <2>26, <1>ctl, <1>off, <1>ptr DEF SendReqPost, OwnerOffStack, InStack
  <2>27. ASSUME NEW t \in Threads, DisconnectCancel(t) PROVE ~InStack(tgt[u])'
    BY <2>27, <1>ctl, <1>off, <1>ptr DEF DisconnectCancel, CancelIoEx, OwnerOffStack,
       InStack
  <2>28. ASSUME NEW t \in Threads, FinderRelease(t) PROVE ~InStack(tgt[u])'
    BY <2>28, <1>ctl, <1>off, <1>ptr DEF FinderRelease, OwnerOffStack, InStack
  <2>29. ASSUME NEW t \in Threads, DeleteCAS(t) PROVE ~InStack(tgt[u])'
    <3>1. CASE u = t
      <4>1. tgt'[t] = tgt[t] /\ tgt[t] \in Slots /\ ~released[tgt[t]] /\ pc[t] = "del_cas"
        BY <2>29, <1>ptr, <1>ctl, <3>1 DEF DeleteCAS
      <4>2. ~InStack(tgt[t]) BY <1>fresh, <4>1 DEF FreshUnknown, Fresh
      <4> QED BY <2>29, <3>1, <4>1, <4>2 DEF DeleteCAS, InStack
    <3>2. CASE u # t BY <2>29, <1>ptr, <1>off, <3>2 DEF DeleteCAS, OwnerOffStack, InStack
    <3> QED BY <3>1, <3>2
  <2>30. ASSUME NEW t \in Threads, DeleteClear(t) PROVE ~InStack(tgt[u])'
    BY <2>30, <1>ctl, <1>off, <1>ptr DEF DeleteClear, OwnerOffStack, InStack
  <2>31. ASSUME NEW t \in Threads, DeletePush(t) PROVE ~InStack(tgt[u])'
    <3>1. pc[t] = "del_push" /\ tgt[t] \in Slots /\ ~InStack(tgt[t])
      BY <2>31, <1>ctl, <1>off DEF DeletePush, OwnerOffStack
    <3>2. \A s \in Slots : InStack(s)' => InStack(s) \/ s = tgt[t]
      BY <2>31, <1>stack, <1>dist, <3>1, PushStack
    <3>3. u # t /\ pc'[u] = pc[u] /\ tgt'[u] = tgt[u]
      BY <2>31, <1>ptr DEF DeletePush
    <3>4. tgt[u] # tgt[t] /\ ~InStack(tgt[u]) /\ tgt[u] \in Slots
      BY <1>ctl, <1>own, <1>off, <3>1, <3>3 DEF OwnersDiffer, OwnerOffStack
    <3> QED BY <3>2, <3>3, <3>4
  <2>32. ASSUME NEW t \in Threads, OnDisconnect(t) PROVE ~InStack(tgt[u])'
    BY <2>32, <1>ctl, <1>off, <1>ptr DEF OnDisconnect, OwnerOffStack, InStack
  <2>33. ASSUME NEW t \in Threads, AcceptPop(t) PROVE ~InStack(tgt[u])'
    <3>1. /\ \A s \in Slots : InStack(s)' => InStack(s) /\ s # indexStack[Len(indexStack)]
          /\ indexStack[Len(indexStack)] \in Slots
      BY <2>33, <1>stack, <1>dist, PopStack
    <3>2. CASE u = t BY <2>33, <1>ptr, <3>1, <3>2 DEF AcceptPop
    <3>3. CASE u # t
      <4>1. pc'[u] = pc[u] /\ tgt'[u] = tgt[u] BY <2>33, <1>ptr, <3>3 DEF AcceptPop
      <4> QED BY <1>ctl, <1>off, <3>1, <4>1 DEF OwnerOffStack
    <3> QED BY <3>2, <3>3
  <2>34. ASSUME NEW t \in Threads, ContentSend(t) PROVE ~InStack(tgt[u])'
    BY <2>34, <1>ctl, <1>off, <1>ptr DEF ContentSend, OwnerOffStack, InStack
  <2>35. ASSUME NEW t \in Threads, NEW r \in Slots, TakePost(t, r) PROVE ~InStack(tgt[u])'
    BY <2>35, <1>ctl, <1>off, <1>ptr DEF TakePost, OwnerOffStack, InStack
  <2>36. ASSUME NEW t \in Threads, NEW r \in Slots, TakeSend(t, r) PROVE ~InStack(tgt[u])'
    BY <2>36, <1>ctl, <1>off, <1>ptr DEF TakeSend, OwnerOffStack, InStack
  <2>37. ASSUME NEW t \in Threads, NEW r \in Slots, TakeRecv(t, r) PROVE ~InStack(tgt[u])'
    BY <2>37, <1>ctl, <1>off, <1>ptr DEF TakeRecv, OwnerOffStack, InStack
  <2>38. ASSUME NEW r \in Slots, RecvComplete(r) PROVE ~InStack(tgt[u])'
    BY <2>38, <1>ctl, <1>off, <1>ptr DEF RecvComplete, OwnerOffStack, InStack
  <2>39. ASSUME NEW r \in Slots, SendComplete(r) PROVE ~InStack(tgt[u])'
    BY <2>39, <1>ctl, <1>off, <1>ptr DEF SendComplete, OwnerOffStack, InStack
  <2> QED
    BY <1>1, <2>1, <2>2, <2>3, <2>4, <2>5, <2>6, <2>7, <2>8, <2>9, <2>10, <2>11, <2>12,
       <2>13, <2>14, <2>15, <2>16, <2>17, <2>18, <2>19, <2>20, <2>21, <2>22, <2>23,
       <2>24, <2>25, <2>26, <2>27, <2>28, <2>29, <2>30, <2>31, <2>32, <2>33, <2>34,
       <2>35, <2>36, <2>37, <2>38, <2>39, <2>sended DEF Next, Continue, Take
<1>2. CASE UNCHANGED vars BY <1>2, <1>ctl, <1>off, <1>ptr DEF OwnerOffStack, InStack
<1> QED BY <1>1, <1>2

\* Every step keeps two threads from initialising or deleting one slot: the
\* CAS of deleteSession lets one thread through.
LEMMA OwnersDifferStep == ASSUME IInv, TypeOK', ControlOK', [Next]_vars PROVE OwnersDiffer'
<1> SUFFICES ASSUME NEW u \in Threads, NEW v \in Threads, u # v, pc'[u] \in OwnLabels, pc'[v] \in OwnLabels
             PROVE tgt'[u] # tgt'[v]
  BY DEF OwnersDiffer
<1> USE DEF ControlAt, OwnersDiffer, SessLabels, IOProcLabels, FoundLabels, InitStage, DelStage, OwnLabels, SubLabels, InitLabels
<1>ctl. \A t \in Threads : ControlAt(t) BY DEF IInv, ControlOK
<1>own. OwnersDiffer BY DEF IInv, Owned
<1>ptr. /\ pc \in [Threads -> Labels] /\ ret \in [Threads -> Labels]
      /\ sess \in [Threads -> Slots \union {NoSlot}]
      /\ found \in [Threads -> Slots \union {NoSlot}]
      /\ tgt \in [Threads -> Slots \union {NoSlot}]
      /\ want \in [Threads -> IDs]
  BY DEF IInv, TypeOK
<1>fresh. FreshUnknown BY DEF IInv
<1>stack. indexStack \in Seq(Slots) BY DEF IInv, TypeOK
<1>rel. DeletesReleased BY DEF IInv, Owned
<1>off. OwnerOffStack BY DEF IInv, Owned
<1>top. indexStack # << >> => indexStack[Len(indexStack)] \in Slots /\ InStack(indexStack[Len(indexStack)])
  BY <1>stack DEF InStack
<1>1. CASE Next
  <2>1. ASSUME NEW t \in Threads, InitID(t) PROVE tgt'[u] # tgt'[v]
    BY <2>1, <1>ctl, <1>own, <1>ptr DEF InitID
  <2>2. ASSUME NEW t \in Threads, InitIncrement(t) PROVE tgt'[u] # tgt'[v]
    BY <2>2, <1>ctl, <1>own, <1>ptr DEF InitIncrement
  <2>3. ASSUME NEW t \in Threads, InitFlags(t) PROVE tgt'[u] # tgt'[v]
    BY <2>3, <1>ctl, <1>own, <1>ptr DEF InitFlags
  <2>4. ASSUME NEW t \in Threads, InitClear(t) PROVE tgt'[u] # tgt'[v]
    BY <2>4, <1>ctl, <1>own, <1>ptr DEF InitClear
  <2>5. ASSUME NEW t \in Threads, OnNewConnect(t) PROVE tgt'[u] # tgt'[v]
    BY <2>5, <1>ctl, <1>own, <1>ptr DEF OnNewConnect
  <2>6. ASSUME NEW t \in Threads, RecvIOCheck(t) PROVE tgt'[u] # tgt'[v]
    BY <2>6, <1>ctl, <1>own, <1>ptr DEF RecvIOCheck
  <2>7. ASSUME NEW t \in Threads, RecvIOPost(t) PROVE tgt'[u] # tgt'[v]
    BY <2>7, <1>ctl, <1>own, <1>ptr DEF RecvIOPost
  <2>8. ASSUME NEW t \in Threads, RecvIORecheck(t) PROVE tgt'[u] # tgt'[v]
    BY <2>8, <1>ctl, <1>own, <1>ptr DEF RecvIORecheck, CancelIoEx
  <2>9. ASSUME NEW t \in Threads, RecvIOCancel(t) PROVE tgt'[u] # tgt'[v]
    BY <2>9, <1>ctl, <1>own, <1>ptr DEF RecvIOCancel, CancelIoEx
  <2>10. ASSUME NEW t \in Threads, SendIOCheck(t) PROVE tgt'[u] # tgt'[v]
    BY <2>10, <1>ctl, <1>own, <1>ptr DEF SendIOCheck
  <2>11. ASSUME NEW t \in Threads, SendIOExchange(t) PROVE tgt'[u] # tgt'[v]
    BY <2>11, <1>ctl, <1>own, <1>ptr DEF SendIOExchange
  <2>12. ASSUME NEW t \in Threads, SendIOSize(t) PROVE tgt'[u] # tgt'[v]
    BY <2>12, <1>ctl, <1>own, <1>ptr DEF SendIOSize
  <2>13. ASSUME NEW t \in Threads, SendIOPost(t) PROVE tgt'[u] # tgt'[v]
    BY <2>13, <1>ctl, <1>own, <1>ptr DEF SendIOPost
  <2>14. ASSUME NEW t \in Threads, SendIORecheck(t) PROVE tgt'[u] # tgt'[v]
    BY <2>14, <1>ctl, <1>own, <1>ptr DEF SendIORecheck, CancelIoEx
  <2>15. ASSUME NEW t \in Threads, SendIOCancel(t) PROVE tgt'[u] # tgt'[v]
    BY <2>15, <1>ctl, <1>own, <1>ptr DEF SendIOCancel, CancelIoEx
  <2>16. ASSUME NEW t \in Threads, ClearSendFlag(t) PROVE tgt'[u] # tgt'[v]
    BY <2>16, <1>ctl, <1>own, <1>ptr DEF ClearSendFlag
  <2>17. ASSUME NEW t \in Threads, CancelRegist(t) PROVE tgt'[u] # tgt'[v]
    BY <2>17, <1>ctl, <1>own, <1>ptr DEF CancelRegist, AfterRegist
  <2>18. ASSUME NEW t \in Threads, IORelease(t) PROVE tgt'[u] # tgt'[v]
    BY <2>18, <1>ctl, <1>own, <1>ptr DEF IORelease
  <2>19. ASSUME NEW t \in Threads, SentEarlyLoad(t) PROVE tgt'[u] # tgt'[v]
    BY <2>19, <1>ctl, <1>own, <1>ptr DEF SentEarlyLoad
  <2>sended. ASSUME NEW t \in Threads, SendedEnds(t) PROVE tgt'[u] # tgt'[v]
    BY <2>sended, <1>ctl, <1>own, <1>ptr DEF SendedEnds
  <2>20. ASSUME NEW t \in Threads, SentMore(t) PROVE tgt'[u] # tgt'[v]
    BY <2>20, <1>ctl, <1>own, <1>ptr DEF SentMore
  <2>21. ASSUME NEW t \in Threads, RecvLoop(t) PROVE tgt'[u] # tgt'[v]
    BY <2>21, <1>ctl, <1>own, <1>ptr DEF RecvLoop, OnRecv
  <2>22. ASSUME NEW t \in Threads, KickCancel(t) PROVE tgt'[u] # tgt'[v]
    BY <2>22, <1>ctl, <1>own, <1>ptr DEF KickCancel, OnRecv, CancelIoEx
  <2>23. ASSUME NEW t \in Threads, HandlerRelease(t) PROVE tgt'[u] # tgt'[v]
    BY <2>23, <1>ctl, <1>own, <1>ptr DEF HandlerRelease
  <2>24. ASSUME NEW t \in Threads, FindIncrement(t) PROVE tgt'[u] # tgt'[v]
    BY <2>24, <1>ctl, <1>own, <1>ptr DEF FindIncrement, GET_INDEX, IDs
  <2>25. ASSUME NEW t \in Threads, FindCheckID(t) PROVE tgt'[u] # tgt'[v]
    BY <2>25, <1>ctl, <1>own, <1>ptr DEF FindCheckID
  <2>26. ASSUME NEW t \in Threads, SendReqPost(t) PROVE tgt'[u] # tgt'[v]
    BY <2>26, <1>ctl, <1>own, <1>ptr DEF SendReqPost
  <2>27. ASSUME NEW t \in Threads, DisconnectCancel(t) PROVE tgt'[u] # tgt'[v]
    BY <2>27, <1>ctl, <1>own, <1>ptr DEF DisconnectCancel, CancelIoEx
  <2>28. ASSUME NEW t \in Threads, FinderRelease(t) PROVE tgt'[u] # tgt'[v]
    BY <2>28, <1>ctl, <1>own, <1>ptr DEF FinderRelease
  <2>29. ASSUME NEW t \in Threads, DeleteCAS(t) PROVE tgt'[u] # tgt'[v]
    BY <2>29, <1>ctl, <1>own, <1>ptr, <1>rel, <1>fresh DEF DeleteCAS, FreshUnknown,
       Fresh, DeletesReleased
  <2>30. ASSUME NEW t \in Threads, DeleteClear(t) PROVE tgt'[u] # tgt'[v]
    BY <2>30, <1>ctl, <1>own, <1>ptr DEF DeleteClear
  <2>31. ASSUME NEW t \in Threads, DeletePush(t) PROVE tgt'[u] # tgt'[v]
    BY <2>31, <1>ctl, <1>own, <1>ptr DEF DeletePush
  <2>32. ASSUME NEW t \in Threads, OnDisconnect(t) PROVE tgt'[u] # tgt'[v]
    BY <2>32, <1>ctl, <1>own, <1>ptr DEF OnDisconnect
  <2>33. ASSUME NEW t \in Threads, AcceptPop(t) PROVE tgt'[u] # tgt'[v]
    BY <2>33, <1>ctl, <1>own, <1>ptr, <1>off, <1>top DEF AcceptPop, OwnerOffStack
  <2>34. ASSUME NEW t \in Threads, ContentSend(t) PROVE tgt'[u] # tgt'[v]
    BY <2>34, <1>ctl, <1>own, <1>ptr DEF ContentSend
  <2>35. ASSUME NEW t \in Threads, NEW r \in Slots, TakePost(t, r) PROVE tgt'[u] # tgt'[v]
    BY <2>35, <1>ctl, <1>own, <1>ptr DEF TakePost
  <2>36. ASSUME NEW t \in Threads, NEW r \in Slots, TakeSend(t, r) PROVE tgt'[u] # tgt'[v]
    BY <2>36, <1>ctl, <1>own, <1>ptr DEF TakeSend
  <2>37. ASSUME NEW t \in Threads, NEW r \in Slots, TakeRecv(t, r) PROVE tgt'[u] # tgt'[v]
    BY <2>37, <1>ctl, <1>own, <1>ptr DEF TakeRecv
  <2>38. ASSUME NEW r \in Slots, RecvComplete(r) PROVE tgt'[u] # tgt'[v]
    BY <2>38, <1>ctl, <1>own, <1>ptr DEF RecvComplete
  <2>39. ASSUME NEW r \in Slots, SendComplete(r) PROVE tgt'[u] # tgt'[v]
    BY <2>39, <1>ctl, <1>own, <1>ptr DEF SendComplete
  <2> QED
    BY <1>1, <2>1, <2>2, <2>3, <2>4, <2>5, <2>6, <2>7, <2>8, <2>9, <2>10, <2>11, <2>12,
       <2>13, <2>14, <2>15, <2>16, <2>17, <2>18, <2>19, <2>20, <2>21, <2>22, <2>23,
       <2>24, <2>25, <2>26, <2>27, <2>28, <2>29, <2>30, <2>31, <2>32, <2>33, <2>34,
       <2>35, <2>36, <2>37, <2>38, <2>39, <2>sended DEF Next, Continue, Take
<1>2. CASE UNCHANGED vars BY <1>2, <1>ctl, <1>own, <1>ptr
<1> QED BY <1>1, <1>2

\* Every step keeps the slot a thread deletes marked released.
LEMMA DeletesReleasedStep ==
  ASSUME IInv, TypeOK', ControlOK', [Next]_vars
  PROVE  DeletesReleased'
<1> SUFFICES ASSUME NEW u \in Threads, pc'[u] \in DelStage PROVE released'[tgt'[u]]
  BY DEF DeletesReleased
<1> USE DEF ControlAt, DeletesReleased, SessLabels, IOProcLabels, FoundLabels, InitStage, DelStage, OwnLabels, SubLabels, InitLabels
<1>ctl. \A t \in Threads : ControlAt(t) BY DEF IInv, ControlOK
<1>own. OwnersDiffer BY DEF IInv, Owned
<1>ptr. /\ pc \in [Threads -> Labels] /\ ret \in [Threads -> Labels]
      /\ sess \in [Threads -> Slots \union {NoSlot}]
      /\ found \in [Threads -> Slots \union {NoSlot}]
      /\ tgt \in [Threads -> Slots \union {NoSlot}]
      /\ want \in [Threads -> IDs]
  BY DEF IInv, TypeOK
<1>word. /\ ID \in [Slots -> IDs] /\ released \in [Slots -> BOOLEAN]
       /\ IOcount \in [Slots -> Int] /\ posts \in [Slots -> Nat]
  BY DEF IInv, TypeOK
<1>rel. DeletesReleased BY DEF IInv, Owned
<1>1. CASE Next
  <2>1. ASSUME NEW t \in Threads, InitID(t) PROVE released'[tgt'[u]]
    BY <2>1, <1>ctl, <1>rel, <1>ptr, <1>word DEF InitID
  <2>2. ASSUME NEW t \in Threads, InitIncrement(t) PROVE released'[tgt'[u]]
    BY <2>2, <1>ctl, <1>rel, <1>ptr, <1>word DEF InitIncrement
  <2>3. ASSUME NEW t \in Threads, InitFlags(t) PROVE released'[tgt'[u]]
    BY <2>3, <1>ctl, <1>rel, <1>ptr, <1>word DEF InitFlags
  <2>4. ASSUME NEW t \in Threads, InitClear(t) PROVE released'[tgt'[u]]
    BY <2>4, <1>ctl, <1>rel, <1>ptr, <1>word, <1>own DEF InitClear, OwnersDiffer
  <2>5. ASSUME NEW t \in Threads, OnNewConnect(t) PROVE released'[tgt'[u]]
    BY <2>5, <1>ctl, <1>rel, <1>ptr, <1>word DEF OnNewConnect
  <2>6. ASSUME NEW t \in Threads, RecvIOCheck(t) PROVE released'[tgt'[u]]
    BY <2>6, <1>ctl, <1>rel, <1>ptr, <1>word DEF RecvIOCheck
  <2>7. ASSUME NEW t \in Threads, RecvIOPost(t) PROVE released'[tgt'[u]]
    BY <2>7, <1>ctl, <1>rel, <1>ptr, <1>word DEF RecvIOPost
  <2>8. ASSUME NEW t \in Threads, RecvIORecheck(t) PROVE released'[tgt'[u]]
    BY <2>8, <1>ctl, <1>rel, <1>ptr, <1>word DEF RecvIORecheck, CancelIoEx
  <2>9. ASSUME NEW t \in Threads, RecvIOCancel(t) PROVE released'[tgt'[u]]
    BY <2>9, <1>ctl, <1>rel, <1>ptr, <1>word DEF RecvIOCancel, CancelIoEx
  <2>10. ASSUME NEW t \in Threads, SendIOCheck(t) PROVE released'[tgt'[u]]
    BY <2>10, <1>ctl, <1>rel, <1>ptr, <1>word DEF SendIOCheck
  <2>11. ASSUME NEW t \in Threads, SendIOExchange(t) PROVE released'[tgt'[u]]
    BY <2>11, <1>ctl, <1>rel, <1>ptr, <1>word DEF SendIOExchange
  <2>12. ASSUME NEW t \in Threads, SendIOSize(t) PROVE released'[tgt'[u]]
    BY <2>12, <1>ctl, <1>rel, <1>ptr, <1>word DEF SendIOSize
  <2>13. ASSUME NEW t \in Threads, SendIOPost(t) PROVE released'[tgt'[u]]
    BY <2>13, <1>ctl, <1>rel, <1>ptr, <1>word DEF SendIOPost
  <2>14. ASSUME NEW t \in Threads, SendIORecheck(t) PROVE released'[tgt'[u]]
    BY <2>14, <1>ctl, <1>rel, <1>ptr, <1>word DEF SendIORecheck, CancelIoEx
  <2>15. ASSUME NEW t \in Threads, SendIOCancel(t) PROVE released'[tgt'[u]]
    BY <2>15, <1>ctl, <1>rel, <1>ptr, <1>word DEF SendIOCancel, CancelIoEx
  <2>16. ASSUME NEW t \in Threads, ClearSendFlag(t) PROVE released'[tgt'[u]]
    BY <2>16, <1>ctl, <1>rel, <1>ptr, <1>word DEF ClearSendFlag
  <2>17. ASSUME NEW t \in Threads, CancelRegist(t) PROVE released'[tgt'[u]]
    BY <2>17, <1>ctl, <1>rel, <1>ptr, <1>word DEF CancelRegist, AfterRegist
  <2>18. ASSUME NEW t \in Threads, IORelease(t) PROVE released'[tgt'[u]]
    BY <2>18, <1>ctl, <1>rel, <1>ptr, <1>word DEF IORelease
  <2>19. ASSUME NEW t \in Threads, SentEarlyLoad(t) PROVE released'[tgt'[u]]
    BY <2>19, <1>ctl, <1>rel, <1>ptr, <1>word DEF SentEarlyLoad
  <2>sended. ASSUME NEW t \in Threads, SendedEnds(t) PROVE released'[tgt'[u]]
    BY <2>sended, <1>ctl, <1>rel, <1>ptr, <1>word DEF SendedEnds
  <2>20. ASSUME NEW t \in Threads, SentMore(t) PROVE released'[tgt'[u]]
    BY <2>20, <1>ctl, <1>rel, <1>ptr, <1>word DEF SentMore
  <2>21. ASSUME NEW t \in Threads, RecvLoop(t) PROVE released'[tgt'[u]]
    BY <2>21, <1>ctl, <1>rel, <1>ptr, <1>word DEF RecvLoop, OnRecv
  <2>22. ASSUME NEW t \in Threads, KickCancel(t) PROVE released'[tgt'[u]]
    BY <2>22, <1>ctl, <1>rel, <1>ptr, <1>word DEF KickCancel, OnRecv, CancelIoEx
  <2>23. ASSUME NEW t \in Threads, HandlerRelease(t) PROVE released'[tgt'[u]]
    BY <2>23, <1>ctl, <1>rel, <1>ptr, <1>word DEF HandlerRelease
  <2>24. ASSUME NEW t \in Threads, FindIncrement(t) PROVE released'[tgt'[u]]
    BY <2>24, <1>ctl, <1>rel, <1>ptr, <1>word DEF FindIncrement, GET_INDEX, IDs
  <2>25. ASSUME NEW t \in Threads, FindCheckID(t) PROVE released'[tgt'[u]]
    BY <2>25, <1>ctl, <1>rel, <1>ptr, <1>word DEF FindCheckID
  <2>26. ASSUME NEW t \in Threads, SendReqPost(t) PROVE released'[tgt'[u]]
    BY <2>26, <1>ctl, <1>rel, <1>ptr, <1>word DEF SendReqPost
  <2>27. ASSUME NEW t \in Threads, DisconnectCancel(t) PROVE released'[tgt'[u]]
    BY <2>27, <1>ctl, <1>rel, <1>ptr, <1>word DEF DisconnectCancel, CancelIoEx
  <2>28. ASSUME NEW t \in Threads, FinderRelease(t) PROVE released'[tgt'[u]]
    BY <2>28, <1>ctl, <1>rel, <1>ptr, <1>word DEF FinderRelease
  <2>29. ASSUME NEW t \in Threads, DeleteCAS(t) PROVE released'[tgt'[u]]
    BY <2>29, <1>ctl, <1>rel, <1>ptr, <1>word DEF DeleteCAS
  <2>30. ASSUME NEW t \in Threads, DeleteClear(t) PROVE released'[tgt'[u]]
    BY <2>30, <1>ctl, <1>rel, <1>ptr, <1>word DEF DeleteClear
  <2>31. ASSUME NEW t \in Threads, DeletePush(t) PROVE released'[tgt'[u]]
    BY <2>31, <1>ctl, <1>rel, <1>ptr, <1>word DEF DeletePush
  <2>32. ASSUME NEW t \in Threads, OnDisconnect(t) PROVE released'[tgt'[u]]
    BY <2>32, <1>ctl, <1>rel, <1>ptr, <1>word DEF OnDisconnect
  <2>33. ASSUME NEW t \in Threads, AcceptPop(t) PROVE released'[tgt'[u]]
    BY <2>33, <1>ctl, <1>rel, <1>ptr, <1>word DEF AcceptPop
  <2>34. ASSUME NEW t \in Threads, ContentSend(t) PROVE released'[tgt'[u]]
    BY <2>34, <1>ctl, <1>rel, <1>ptr, <1>word DEF ContentSend
  <2>35. ASSUME NEW t \in Threads, NEW r \in Slots, TakePost(t, r) PROVE released'[tgt'[u]]
    BY <2>35, <1>ctl, <1>rel, <1>ptr, <1>word DEF TakePost
  <2>36. ASSUME NEW t \in Threads, NEW r \in Slots, TakeSend(t, r) PROVE released'[tgt'[u]]
    BY <2>36, <1>ctl, <1>rel, <1>ptr, <1>word DEF TakeSend
  <2>37. ASSUME NEW t \in Threads, NEW r \in Slots, TakeRecv(t, r) PROVE released'[tgt'[u]]
    BY <2>37, <1>ctl, <1>rel, <1>ptr, <1>word DEF TakeRecv
  <2>38. ASSUME NEW r \in Slots, RecvComplete(r) PROVE released'[tgt'[u]]
    BY <2>38, <1>ctl, <1>rel, <1>ptr, <1>word DEF RecvComplete
  <2>39. ASSUME NEW r \in Slots, SendComplete(r) PROVE released'[tgt'[u]]
    BY <2>39, <1>ctl, <1>rel, <1>ptr, <1>word DEF SendComplete
  <2> QED
    BY <1>1, <2>1, <2>2, <2>3, <2>4, <2>5, <2>6, <2>7, <2>8, <2>9, <2>10, <2>11, <2>12,
       <2>13, <2>14, <2>15, <2>16, <2>17, <2>18, <2>19, <2>20, <2>21, <2>22, <2>23,
       <2>24, <2>25, <2>26, <2>27, <2>28, <2>29, <2>30, <2>31, <2>32, <2>33, <2>34,
       <2>35, <2>36, <2>37, <2>38, <2>39, <2>sended DEF Next, Continue, Take
<1>2. CASE UNCHANGED vars BY <1>2, <1>ctl, <1>rel, <1>ptr, <1>word
<1> QED BY <1>1, <1>2

\* No step makes a used slot fresh again: a slot that was released comes back
\* with the released bit set.
LEMMA FreshShrinks ==
  ASSUME IInv, TypeOK', ControlOK', [Next]_vars
  PROVE  \A s \in Slots : Fresh(s)' => Fresh(s)
<1> SUFFICES ASSUME NEW s \in Slots, Fresh(s)' PROVE Fresh(s)
  OBVIOUS
<1> USE DEF ControlAt, SessLabels, IOProcLabels, FoundLabels, InitStage, DelStage, OwnLabels, SubLabels, InitLabels
<1>ctl. \A t \in Threads : ControlAt(t) BY DEF IInv, ControlOK
<1>ptr. /\ pc \in [Threads -> Labels] /\ ret \in [Threads -> Labels]
      /\ sess \in [Threads -> Slots \union {NoSlot}]
      /\ found \in [Threads -> Slots \union {NoSlot}]
      /\ tgt \in [Threads -> Slots \union {NoSlot}]
      /\ want \in [Threads -> IDs]
  BY DEF IInv, TypeOK
<1>word. /\ ID \in [Slots -> IDs] /\ released \in [Slots -> BOOLEAN]
       /\ IOcount \in [Slots -> Int] /\ posts \in [Slots -> Nat]
  BY DEF IInv, TypeOK
<1>stack. indexStack \in Seq(Slots) BY DEF IInv, TypeOK
<1>own. OwnersDiffer BY DEF IInv, Owned
<1>off. OwnerOffStack BY DEF IInv, Owned
<1>dist. StackDistinct BY DEF IInv, Owned
<1>rel. DeletesReleased BY DEF IInv, Owned
<1>1. CASE Next
  <2>1. ASSUME NEW t \in Threads, InitID(t) PROVE Fresh(s)
    BY <2>1, <1>ctl, <1>ptr DEF InitID, Fresh, InStack
  <2>2. ASSUME NEW t \in Threads, InitIncrement(t) PROVE Fresh(s)
    BY <2>2, <1>ctl, <1>ptr DEF InitIncrement, Fresh, InStack
  <2>3. ASSUME NEW t \in Threads, InitFlags(t) PROVE Fresh(s)
    BY <2>3, <1>ctl, <1>ptr DEF InitFlags, Fresh, InStack
  <2>4. ASSUME NEW t \in Threads, InitClear(t) PROVE Fresh(s)
    <3>1. \A u \in Threads : pc'[u] \in InitStage /\ tgt'[u] = s =>
             pc[u] \in InitStage /\ tgt[u] = s /\ u # t
      BY <2>4, <1>ptr, <1>ctl DEF InitClear
    <3>2. InStack(s)' => InStack(s) BY <2>4 DEF InitClear, InStack
    <3>3. s # tgt[t]
      BY <2>4, <1>ctl, <1>off, <1>own, <3>1, <3>2 DEF InitClear, OwnerOffStack,
         OwnersDiffer, Fresh
    <3>4. released'[s] = released[s] BY <2>4, <3>3 DEF InitClear
    <3> QED BY <3>1, <3>2, <3>4 DEF Fresh
  <2>5. ASSUME NEW t \in Threads, OnNewConnect(t) PROVE Fresh(s)
    BY <2>5, <1>ctl, <1>ptr DEF OnNewConnect, Fresh, InStack
  <2>6. ASSUME NEW t \in Threads, RecvIOCheck(t) PROVE Fresh(s)
    BY <2>6, <1>ctl, <1>ptr DEF RecvIOCheck, Fresh, InStack
  <2>7. ASSUME NEW t \in Threads, RecvIOPost(t) PROVE Fresh(s)
    BY <2>7, <1>ctl, <1>ptr DEF RecvIOPost, Fresh, InStack
  <2>8. ASSUME NEW t \in Threads, RecvIORecheck(t) PROVE Fresh(s)
    BY <2>8, <1>ctl, <1>ptr DEF RecvIORecheck, CancelIoEx, Fresh, InStack
  <2>9. ASSUME NEW t \in Threads, RecvIOCancel(t) PROVE Fresh(s)
    BY <2>9, <1>ctl, <1>ptr DEF RecvIOCancel, CancelIoEx, Fresh, InStack
  <2>10. ASSUME NEW t \in Threads, SendIOCheck(t) PROVE Fresh(s)
    BY <2>10, <1>ctl, <1>ptr DEF SendIOCheck, Fresh, InStack
  <2>11. ASSUME NEW t \in Threads, SendIOExchange(t) PROVE Fresh(s)
    BY <2>11, <1>ctl, <1>ptr DEF SendIOExchange, Fresh, InStack
  <2>12. ASSUME NEW t \in Threads, SendIOSize(t) PROVE Fresh(s)
    BY <2>12, <1>ctl, <1>ptr DEF SendIOSize, Fresh, InStack
  <2>13. ASSUME NEW t \in Threads, SendIOPost(t) PROVE Fresh(s)
    BY <2>13, <1>ctl, <1>ptr DEF SendIOPost, Fresh, InStack
  <2>14. ASSUME NEW t \in Threads, SendIORecheck(t) PROVE Fresh(s)
    BY <2>14, <1>ctl, <1>ptr DEF SendIORecheck, CancelIoEx, Fresh, InStack
  <2>15. ASSUME NEW t \in Threads, SendIOCancel(t) PROVE Fresh(s)
    BY <2>15, <1>ctl, <1>ptr DEF SendIOCancel, CancelIoEx, Fresh, InStack
  <2>16. ASSUME NEW t \in Threads, ClearSendFlag(t) PROVE Fresh(s)
    BY <2>16, <1>ctl, <1>ptr DEF ClearSendFlag, Fresh, InStack
  <2>17. ASSUME NEW t \in Threads, CancelRegist(t) PROVE Fresh(s)
    BY <2>17, <1>ctl, <1>ptr DEF CancelRegist, AfterRegist, Fresh, InStack
  <2>18. ASSUME NEW t \in Threads, IORelease(t) PROVE Fresh(s)
    BY <2>18, <1>ctl, <1>ptr DEF IORelease, Fresh, InStack
  <2>19. ASSUME NEW t \in Threads, SentEarlyLoad(t) PROVE Fresh(s)
    BY <2>19, <1>ctl, <1>ptr DEF SentEarlyLoad, Fresh, InStack
  <2>sended. ASSUME NEW t \in Threads, SendedEnds(t) PROVE Fresh(s)
    BY <2>sended, <1>ctl, <1>ptr DEF SendedEnds, Fresh, InStack
  <2>20. ASSUME NEW t \in Threads, SentMore(t) PROVE Fresh(s)
    BY <2>20, <1>ctl, <1>ptr DEF SentMore, Fresh, InStack
  <2>21. ASSUME NEW t \in Threads, RecvLoop(t) PROVE Fresh(s)
    BY <2>21, <1>ctl, <1>ptr DEF RecvLoop, OnRecv, Fresh, InStack
  <2>22. ASSUME NEW t \in Threads, KickCancel(t) PROVE Fresh(s)
    BY <2>22, <1>ctl, <1>ptr DEF KickCancel, OnRecv, CancelIoEx, Fresh, InStack
  <2>23. ASSUME NEW t \in Threads, HandlerRelease(t) PROVE Fresh(s)
    BY <2>23, <1>ctl, <1>ptr DEF HandlerRelease, Fresh, InStack
  <2>24. ASSUME NEW t \in Threads, FindIncrement(t) PROVE Fresh(s)
    BY <2>24, <1>ctl, <1>ptr DEF FindIncrement, GET_INDEX, IDs, Fresh, InStack
  <2>25. ASSUME NEW t \in Threads, FindCheckID(t) PROVE Fresh(s)
    BY <2>25, <1>ctl, <1>ptr DEF FindCheckID, Fresh, InStack
  <2>26. ASSUME NEW t \in Threads, SendReqPost(t) PROVE Fresh(s)
    BY <2>26, <1>ctl, <1>ptr DEF SendReqPost, Fresh, InStack
  <2>27. ASSUME NEW t \in Threads, DisconnectCancel(t) PROVE Fresh(s)
    BY <2>27, <1>ctl, <1>ptr DEF DisconnectCancel, CancelIoEx, Fresh, InStack
  <2>28. ASSUME NEW t \in Threads, FinderRelease(t) PROVE Fresh(s)
    BY <2>28, <1>ctl, <1>ptr DEF FinderRelease, Fresh, InStack
  <2>29. ASSUME NEW t \in Threads, DeleteCAS(t) PROVE Fresh(s)
    <3>1. \A u \in Threads : pc'[u] \in InitStage /\ tgt'[u] = s => pc[u] \in InitStage /\ tgt[u] = s
      BY <2>29, <1>ctl, <1>ptr DEF DeleteCAS
    <3>2. ~released'[s] => ~released[s] BY <2>29, <1>word DEF DeleteCAS
    <3>3. InStack(s)' => InStack(s) BY <2>29 DEF DeleteCAS, InStack
    <3> QED BY <3>1, <3>2, <3>3 DEF Fresh
  <2>30. ASSUME NEW t \in Threads, DeleteClear(t) PROVE Fresh(s)
    BY <2>30, <1>ctl, <1>ptr DEF DeleteClear, Fresh, InStack
  <2>31. ASSUME NEW t \in Threads, DeletePush(t) PROVE Fresh(s)
    <3>1. pc[t] = "del_push" /\ tgt[t] \in Slots /\ ~InStack(tgt[t]) /\ released[tgt[t]]
      BY <2>31, <1>ctl, <1>off, <1>rel DEF DeletePush, OwnerOffStack, DeletesReleased
    <3>2. InStack(s)' => InStack(s) \/ s = tgt[t]
      BY <2>31, <1>stack, <1>dist, <3>1, PushStack
    <3>3. \A u \in Threads : pc'[u] \in InitStage /\ tgt'[u] = s => pc[u] \in InitStage /\ tgt[u] = s
      BY <2>31, <1>ptr DEF DeletePush
    <3>4. released' = released BY <2>31 DEF DeletePush
    <3> QED BY <3>1, <3>2, <3>3, <3>4 DEF Fresh
  <2>32. ASSUME NEW t \in Threads, OnDisconnect(t) PROVE Fresh(s)
    BY <2>32, <1>ctl, <1>ptr DEF OnDisconnect, Fresh, InStack
  <2>33. ASSUME NEW t \in Threads, AcceptPop(t) PROVE Fresh(s)
    <3>1. /\ InStack(s)' => InStack(s)
          /\ InStack(indexStack[Len(indexStack)])
      BY <2>33, <1>stack, <1>dist, PopStack
    <3>2. \A u \in Threads : pc'[u] \in InitStage /\ tgt'[u] = s =>
             (pc[u] \in InitStage /\ tgt[u] = s) \/ s = indexStack[Len(indexStack)]
      BY <2>33, <1>ptr DEF AcceptPop
    <3>3. released' = released BY <2>33 DEF AcceptPop
    <3> QED BY <3>1, <3>2, <3>3 DEF Fresh
  <2>34. ASSUME NEW t \in Threads, ContentSend(t) PROVE Fresh(s)
    BY <2>34, <1>ctl, <1>ptr DEF ContentSend, Fresh, InStack
  <2>35. ASSUME NEW t \in Threads, NEW r \in Slots, TakePost(t, r) PROVE Fresh(s)
    BY <2>35, <1>ctl, <1>ptr DEF TakePost, Fresh, InStack
  <2>36. ASSUME NEW t \in Threads, NEW r \in Slots, TakeSend(t, r) PROVE Fresh(s)
    BY <2>36, <1>ctl, <1>ptr DEF TakeSend, Fresh, InStack
  <2>37. ASSUME NEW t \in Threads, NEW r \in Slots, TakeRecv(t, r) PROVE Fresh(s)
    BY <2>37, <1>ctl, <1>ptr DEF TakeRecv, Fresh, InStack
  <2>38. ASSUME NEW r \in Slots, RecvComplete(r) PROVE Fresh(s)
    BY <2>38, <1>ctl, <1>ptr DEF RecvComplete, Fresh, InStack
  <2>39. ASSUME NEW r \in Slots, SendComplete(r) PROVE Fresh(s)
    BY <2>39, <1>ctl, <1>ptr DEF SendComplete, Fresh, InStack
  <2> QED
    BY <1>1, <2>1, <2>2, <2>3, <2>4, <2>5, <2>6, <2>7, <2>8, <2>9, <2>10, <2>11, <2>12,
       <2>13, <2>14, <2>15, <2>16, <2>17, <2>18, <2>19, <2>20, <2>21, <2>22, <2>23,
       <2>24, <2>25, <2>26, <2>27, <2>28, <2>29, <2>30, <2>31, <2>32, <2>33, <2>34,
       <2>35, <2>36, <2>37, <2>38, <2>39, <2>sended DEF Next, Continue, Take
<1>2. CASE UNCHANGED vars BY <1>2 DEF Fresh, InStack
<1> QED BY <1>1, <1>2

\* Every step keeps a fresh slot unknown: no ID of it has been told, no
\* thread holds it.
LEMMA FreshUnknownStep == ASSUME IInv, TypeOK', ControlOK', [Next]_vars PROVE FreshUnknown'
<1> SUFFICES ASSUME NEW s \in Slots, Fresh(s)'
             PROVE  /\ \A id \in opened' : GET_INDEX(id) # s
                    /\ \A u \in Threads : /\ found'[u] # s
                                          /\ pc'[u] = "del_cas" => tgt'[u] # s
                                          /\ sess'[u] = s => pc'[u] \in InitLabels
                    /\ ~Busy(s)'
  BY DEF FreshUnknown
<1> DEFINE Unknown == /\ \A id \in opened : GET_INDEX(id) # s
                      /\ \A u \in Threads : /\ found[u] # s
                                            /\ pc[u] = "del_cas" => tgt[u] # s
                                            /\ sess[u] = s => pc[u] \in InitLabels
                      /\ ~Busy(s)
<1>0. Fresh(s) /\ Unknown BY FreshShrinks DEF IInv, FreshUnknown
<1> USE DEF ControlAt, SessLabels, IOProcLabels, FoundLabels, InitStage, DelStage, OwnLabels, SubLabels, InitLabels
<1>ctl. \A t \in Threads : ControlAt(t) BY DEF IInv, ControlOK
<1>ptr. /\ pc \in [Threads -> Labels] /\ ret \in [Threads -> Labels]
      /\ sess \in [Threads -> Slots \union {NoSlot}]
      /\ found \in [Threads -> Slots \union {NoSlot}]
      /\ tgt \in [Threads -> Slots \union {NoSlot}]
      /\ want \in [Threads -> IDs]
  BY DEF IInv, TypeOK
<1>ov. /\ recvOv \in [Slots -> {"idle", "pending"} \union RecvResults]
     /\ sendOv \in [Slots -> {"idle", "pending"} \union SendResults]
     /\ posts \in [Slots -> Nat] /\ sendFlag \in [Slots -> BOOLEAN]
  BY DEF IInv, TypeOK
<1>told. \A t \in Threads : ToldAt(t) BY DEF IInv, Told
<1>own. OwnersDiffer BY DEF IInv, Owned
<1>off. OwnerOffStack BY DEF IInv, Owned
<1>1. CASE Next
  <2>1. ASSUME NEW t \in Threads, InitID(t) PROVE Unknown'
    BY <2>1, <1>0, <1>ctl, <1>ptr DEF InitID, Busy
  <2>2. ASSUME NEW t \in Threads, InitIncrement(t) PROVE Unknown'
    BY <2>2, <1>0, <1>ctl, <1>ptr DEF InitIncrement, Busy
  <2>3. ASSUME NEW t \in Threads, InitFlags(t) PROVE Unknown'
    BY <2>3, <1>0, <1>ctl, <1>ptr DEF InitFlags, Busy
  <2>4. ASSUME NEW t \in Threads, InitClear(t) PROVE Unknown'
    <3>1. s # tgt[t]
      <4>1. \A u \in Threads : pc'[u] \in InitStage /\ tgt'[u] = s =>
               pc[u] \in InitStage /\ tgt[u] = s /\ u # t
        BY <2>4, <1>ptr, <1>ctl DEF InitClear
      <4>2. InStack(s)' => InStack(s) BY <2>4 DEF InitClear, InStack
      <4> QED
        BY <2>4, <1>ctl, <1>off, <1>own, <4>1, <4>2 DEF InitClear, OwnerOffStack,
           OwnersDiffer, Fresh
    <3> QED BY <2>4, <1>0, <1>ctl, <1>ptr, <3>1 DEF InitClear, Busy
  <2>5. ASSUME NEW t \in Threads, OnNewConnect(t) PROVE Unknown'
    BY <2>5, <1>0, <1>ctl, <1>ptr, <1>told DEF OnNewConnect, Busy, ToldAt
  <2>6. ASSUME NEW t \in Threads, RecvIOCheck(t) PROVE Unknown'
    BY <2>6, <1>0, <1>ctl, <1>ptr DEF RecvIOCheck, Busy
  <2>7. ASSUME NEW t \in Threads, RecvIOPost(t) PROVE Unknown'
    BY <2>7, <1>0, <1>ctl, <1>ptr, <1>ov DEF RecvIOPost, Busy, RecvResults, SendResults
  <2>8. ASSUME NEW t \in Threads, RecvIORecheck(t) PROVE Unknown'
    BY <2>8, <1>0, <1>ctl, <1>ptr, <1>ov DEF RecvIORecheck, CancelIoEx, Busy,
       RecvResults, SendResults
  <2>9. ASSUME NEW t \in Threads, RecvIOCancel(t) PROVE Unknown'
    BY <2>9, <1>0, <1>ctl, <1>ptr, <1>ov DEF RecvIOCancel, CancelIoEx, Busy,
       RecvResults, SendResults
  <2>10. ASSUME NEW t \in Threads, SendIOCheck(t) PROVE Unknown'
    BY <2>10, <1>0, <1>ctl, <1>ptr DEF SendIOCheck, Busy
  <2>11. ASSUME NEW t \in Threads, SendIOExchange(t) PROVE Unknown'
    BY <2>11, <1>0, <1>ctl, <1>ptr DEF SendIOExchange, Busy
  <2>12. ASSUME NEW t \in Threads, SendIOSize(t) PROVE Unknown'
    BY <2>12, <1>0, <1>ctl, <1>ptr DEF SendIOSize, Busy
  <2>13. ASSUME NEW t \in Threads, SendIOPost(t) PROVE Unknown'
    BY <2>13, <1>0, <1>ctl, <1>ptr, <1>ov DEF SendIOPost, Busy, RecvResults, SendResults
  <2>14. ASSUME NEW t \in Threads, SendIORecheck(t) PROVE Unknown'
    BY <2>14, <1>0, <1>ctl, <1>ptr, <1>ov DEF SendIORecheck, CancelIoEx, Busy,
       RecvResults, SendResults
  <2>15. ASSUME NEW t \in Threads, SendIOCancel(t) PROVE Unknown'
    BY <2>15, <1>0, <1>ctl, <1>ptr, <1>ov DEF SendIOCancel, CancelIoEx, Busy,
       RecvResults, SendResults
  <2>16. ASSUME NEW t \in Threads, ClearSendFlag(t) PROVE Unknown'
    BY <2>16, <1>0, <1>ctl, <1>ptr DEF ClearSendFlag, Busy
  <2>17. ASSUME NEW t \in Threads, CancelRegist(t) PROVE Unknown'
    BY <2>17, <1>0, <1>ctl, <1>ptr DEF CancelRegist, AfterRegist, Busy
  <2>18. ASSUME NEW t \in Threads, IORelease(t) PROVE Unknown'
    BY <2>18, <1>0, <1>ctl, <1>ptr DEF IORelease, Busy
  <2>19. ASSUME NEW t \in Threads, SentEarlyLoad(t) PROVE Unknown'
    BY <2>19, <1>0, <1>ctl, <1>ptr DEF SentEarlyLoad, Busy
  <2>sended. ASSUME NEW t \in Threads, SendedEnds(t) PROVE Unknown'
    BY <2>sended, <1>0, <1>ctl, <1>ptr DEF SendedEnds, Busy
  <2>20. ASSUME NEW t \in Threads, SentMore(t) PROVE Unknown'
    BY <2>20, <1>0, <1>ctl, <1>ptr DEF SentMore, Busy
  <2>21. ASSUME NEW t \in Threads, RecvLoop(t) PROVE Unknown'
    BY <2>21, <1>0, <1>ctl, <1>ptr DEF RecvLoop, OnRecv, Busy
  <2>22. ASSUME NEW t \in Threads, KickCancel(t) PROVE Unknown'
    BY <2>22, <1>0, <1>ctl, <1>ptr, <1>ov DEF KickCancel, OnRecv, CancelIoEx, Busy,
       RecvResults, SendResults
  <2>23. ASSUME NEW t \in Threads, HandlerRelease(t) PROVE Unknown'
    BY <2>23, <1>0, <1>ctl, <1>ptr DEF HandlerRelease, Busy
  <2>24. ASSUME NEW t \in Threads, FindIncrement(t) PROVE Unknown'
    BY <2>24, <1>0, <1>ctl, <1>ptr, <1>told DEF FindIncrement, Busy, ToldAt
  <2>25. ASSUME NEW t \in Threads, FindCheckID(t) PROVE Unknown'
    BY <2>25, <1>0, <1>ctl, <1>ptr DEF FindCheckID, Busy
  <2>26. ASSUME NEW t \in Threads, SendReqPost(t) PROVE Unknown'
    BY <2>26, <1>0, <1>ctl, <1>ptr, <1>ov DEF SendReqPost, Busy
  <2>27. ASSUME NEW t \in Threads, DisconnectCancel(t) PROVE Unknown'
    BY <2>27, <1>0, <1>ctl, <1>ptr, <1>ov DEF DisconnectCancel, CancelIoEx, Busy,
       RecvResults, SendResults
  <2>28. ASSUME NEW t \in Threads, FinderRelease(t) PROVE Unknown'
    BY <2>28, <1>0, <1>ctl, <1>ptr DEF FinderRelease, Busy
  <2>29. ASSUME NEW t \in Threads, DeleteCAS(t) PROVE Unknown'
    BY <2>29, <1>0, <1>ctl, <1>ptr DEF DeleteCAS, Busy
  <2>30. ASSUME NEW t \in Threads, DeleteClear(t) PROVE Unknown'
    BY <2>30, <1>0, <1>ctl, <1>ptr DEF DeleteClear, Busy
  <2>31. ASSUME NEW t \in Threads, DeletePush(t) PROVE Unknown'
    BY <2>31, <1>0, <1>ctl, <1>ptr DEF DeletePush, Busy
  <2>32. ASSUME NEW t \in Threads, OnDisconnect(t) PROVE Unknown'
    BY <2>32, <1>0, <1>ctl, <1>ptr DEF OnDisconnect, Busy
  <2>33. ASSUME NEW t \in Threads, AcceptPop(t) PROVE Unknown'
    BY <2>33, <1>0, <1>ctl, <1>ptr DEF AcceptPop, Busy
  <2>34. ASSUME NEW t \in Threads, ContentSend(t) PROVE Unknown'
    BY <2>34, <1>0, <1>ctl, <1>ptr DEF ContentSend, Busy
  <2>35. ASSUME NEW t \in Threads, NEW r \in Slots, TakePost(t, r) PROVE Unknown'
    BY <2>35, <1>0, <1>ctl, <1>ptr, <1>ov DEF TakePost, Busy, RecvResults, SendResults
  <2>36. ASSUME NEW t \in Threads, NEW r \in Slots, TakeSend(t, r) PROVE Unknown'
    BY <2>36, <1>0, <1>ctl, <1>ptr, <1>ov DEF TakeSend, Busy, RecvResults, SendResults
  <2>37. ASSUME NEW t \in Threads, NEW r \in Slots, TakeRecv(t, r) PROVE Unknown'
    BY <2>37, <1>0, <1>ctl, <1>ptr, <1>ov DEF TakeRecv, Busy, RecvResults, SendResults
  <2>38. ASSUME NEW r \in Slots, RecvComplete(r) PROVE Unknown'
    BY <2>38, <1>0, <1>ctl, <1>ptr, <1>ov DEF RecvComplete, Busy, RecvResults, SendResults
  <2>39. ASSUME NEW r \in Slots, SendComplete(r) PROVE Unknown'
    BY <2>39, <1>0, <1>ctl, <1>ptr, <1>ov DEF SendComplete, Busy, RecvResults, SendResults
  <2> QED
    BY <1>1, <2>1, <2>2, <2>3, <2>4, <2>5, <2>6, <2>7, <2>8, <2>9, <2>10, <2>11, <2>12,
       <2>13, <2>14, <2>15, <2>16, <2>17, <2>18, <2>19, <2>20, <2>21, <2>22, <2>23,
       <2>24, <2>25, <2>26, <2>27, <2>28, <2>29, <2>30, <2>31, <2>32, <2>33, <2>34,
       <2>35, <2>36, <2>37, <2>38, <2>39, <2>sended DEF Next, Continue, Take
<1>2. CASE UNCHANGED vars BY <1>2, <1>0 DEF Busy
<1> QED BY <1>1, <1>2

\* Every step keeps the IDs that threads look up, and those of the sessions
\* they handle, among the IDs told to the content.
LEMMA ToldThreadStep ==
  ASSUME IInv, TypeOK', ControlOK', [Next]_vars
  PROVE  (\A u \in Threads : ToldAt(u))'
<1> SUFFICES ASSUME NEW u \in Threads PROVE ToldAt(u)'
  OBVIOUS
<1> USE DEF ControlAt, ToldAt, SessLabels, IOProcLabels, FoundLabels, InitStage, DelStage, OwnLabels, SubLabels, InitLabels
<1>ctl. \A t \in Threads : ControlAt(t) BY DEF IInv, ControlOK
<1>told. \A t \in Threads : ToldAt(t) BY DEF IInv, Told
<1>ptr. /\ pc \in [Threads -> Labels] /\ ret \in [Threads -> Labels]
      /\ sess \in [Threads -> Slots \union {NoSlot}]
      /\ found \in [Threads -> Slots \union {NoSlot}]
      /\ tgt \in [Threads -> Slots \union {NoSlot}]
      /\ want \in [Threads -> IDs]
  BY DEF IInv, TypeOK
<1>ov. /\ recvOv \in [Slots -> {"idle", "pending"} \union RecvResults]
     /\ sendOv \in [Slots -> {"idle", "pending"} \union SendResults]
     /\ posts \in [Slots -> Nat] /\ sendFlag \in [Slots -> BOOLEAN]
  BY DEF IInv, TypeOK
<1>word. /\ ID \in [Slots -> IDs] /\ released \in [Slots -> BOOLEAN]
       /\ IOcount \in [Slots -> Int] /\ posts \in [Slots -> Nat]
  BY DEF IInv, TypeOK
<1>toldb. \A r \in Slots : Busy(r) => ID[r] \in opened BY DEF IInv, Told
<1>own. OwnersDiffer BY DEF IInv, Owned
<1>fresh. FreshUnknown BY DEF IInv
<1>live. \A t \in Threads : LiveAt(t) BY DEF IInv, Live
<1>stack. indexStack \in Seq(Slots) BY DEF IInv, TypeOK
<1>new. \A t \in Threads : pc[t] = "init_id" => (~released[tgt[t]] => Fresh(tgt[t])) /\ tgt[t] \in Slots
  BY <1>ctl DEF Fresh
<1>op. opened \in SUBSET IDs BY DEF IInv, TypeOK
<1>1. CASE Next
  <2>1. ASSUME NEW t \in Threads, InitID(t) PROVE ToldAt(u)'
    BY <2>1, <1>ctl, <1>told, <1>ptr, <1>word, <1>own, <1>fresh, <1>new,
       <1>live DEF InitID, OwnersDiffer, FreshUnknown, LiveAt, GET_INDEX, IDs
  <2>2. ASSUME NEW t \in Threads, InitIncrement(t) PROVE ToldAt(u)'
    BY <2>2, <1>ctl, <1>told, <1>ptr DEF InitIncrement
  <2>3. ASSUME NEW t \in Threads, InitFlags(t) PROVE ToldAt(u)'
    BY <2>3, <1>ctl, <1>told, <1>ptr DEF InitFlags
  <2>4. ASSUME NEW t \in Threads, InitClear(t) PROVE ToldAt(u)'
    BY <2>4, <1>ctl, <1>told, <1>ptr DEF InitClear
  <2>5. ASSUME NEW t \in Threads, OnNewConnect(t) PROVE ToldAt(u)'
    BY <2>5, <1>ctl, <1>told, <1>ptr, <1>op DEF OnNewConnect
  <2>6. ASSUME NEW t \in Threads, RecvIOCheck(t) PROVE ToldAt(u)'
    BY <2>6, <1>ctl, <1>told, <1>ptr DEF RecvIOCheck
  <2>7. ASSUME NEW t \in Threads, RecvIOPost(t) PROVE ToldAt(u)'
    BY <2>7, <1>ctl, <1>told, <1>ptr DEF RecvIOPost
  <2>8. ASSUME NEW t \in Threads, RecvIORecheck(t) PROVE ToldAt(u)'
    BY <2>8, <1>ctl, <1>told, <1>ptr DEF RecvIORecheck, CancelIoEx
  <2>9. ASSUME NEW t \in Threads, RecvIOCancel(t) PROVE ToldAt(u)'
    BY <2>9, <1>ctl, <1>told, <1>ptr DEF RecvIOCancel, CancelIoEx
  <2>10. ASSUME NEW t \in Threads, SendIOCheck(t) PROVE ToldAt(u)'
    BY <2>10, <1>ctl, <1>told, <1>ptr DEF SendIOCheck
  <2>11. ASSUME NEW t \in Threads, SendIOExchange(t) PROVE ToldAt(u)'
    BY <2>11, <1>ctl, <1>told, <1>ptr DEF SendIOExchange
  <2>12. ASSUME NEW t \in Threads, SendIOSize(t) PROVE ToldAt(u)'
    BY <2>12, <1>ctl, <1>told, <1>ptr DEF SendIOSize
  <2>13. ASSUME NEW t \in Threads, SendIOPost(t) PROVE ToldAt(u)'
    BY <2>13, <1>ctl, <1>told, <1>ptr DEF SendIOPost
  <2>14. ASSUME NEW t \in Threads, SendIORecheck(t) PROVE ToldAt(u)'
    BY <2>14, <1>ctl, <1>told, <1>ptr DEF SendIORecheck, CancelIoEx
  <2>15. ASSUME NEW t \in Threads, SendIOCancel(t) PROVE ToldAt(u)'
    BY <2>15, <1>ctl, <1>told, <1>ptr DEF SendIOCancel, CancelIoEx
  <2>16. ASSUME NEW t \in Threads, ClearSendFlag(t) PROVE ToldAt(u)'
    BY <2>16, <1>ctl, <1>told, <1>ptr DEF ClearSendFlag
  <2>17. ASSUME NEW t \in Threads, CancelRegist(t) PROVE ToldAt(u)'
    BY <2>17, <1>ctl, <1>told, <1>ptr DEF CancelRegist, AfterRegist
  <2>18. ASSUME NEW t \in Threads, IORelease(t) PROVE ToldAt(u)'
    BY <2>18, <1>ctl, <1>told, <1>ptr DEF IORelease
  <2>19. ASSUME NEW t \in Threads, SentEarlyLoad(t) PROVE ToldAt(u)'
    BY <2>19, <1>ctl, <1>told, <1>ptr DEF SentEarlyLoad
  <2>sended. ASSUME NEW t \in Threads, SendedEnds(t) PROVE ToldAt(u)'
    BY <2>sended, <1>ctl, <1>told, <1>ptr DEF SendedEnds
  <2>20. ASSUME NEW t \in Threads, SentMore(t) PROVE ToldAt(u)'
    BY <2>20, <1>ctl, <1>told, <1>ptr DEF SentMore
  <2>21. ASSUME NEW t \in Threads, RecvLoop(t) PROVE ToldAt(u)'
    BY <2>21, <1>ctl, <1>told, <1>ptr, <1>op DEF RecvLoop, OnRecv
  <2>22. ASSUME NEW t \in Threads, KickCancel(t) PROVE ToldAt(u)'
    BY <2>22, <1>ctl, <1>told, <1>ptr, <1>op DEF KickCancel, OnRecv, CancelIoEx
  <2>23. ASSUME NEW t \in Threads, HandlerRelease(t) PROVE ToldAt(u)'
    BY <2>23, <1>ctl, <1>told, <1>ptr DEF HandlerRelease
  <2>24. ASSUME NEW t \in Threads, FindIncrement(t) PROVE ToldAt(u)'
    BY <2>24, <1>ctl, <1>told, <1>ptr DEF FindIncrement
  <2>25. ASSUME NEW t \in Threads, FindCheckID(t) PROVE ToldAt(u)'
    BY <2>25, <1>ctl, <1>told, <1>ptr DEF FindCheckID
  <2>26. ASSUME NEW t \in Threads, SendReqPost(t) PROVE ToldAt(u)'
    BY <2>26, <1>ctl, <1>told, <1>ptr DEF SendReqPost
  <2>27. ASSUME NEW t \in Threads, DisconnectCancel(t) PROVE ToldAt(u)'
    BY <2>27, <1>ctl, <1>told, <1>ptr DEF DisconnectCancel, CancelIoEx
  <2>28. ASSUME NEW t \in Threads, FinderRelease(t) PROVE ToldAt(u)'
    BY <2>28, <1>ctl, <1>told, <1>ptr DEF FinderRelease
  <2>29. ASSUME NEW t \in Threads, DeleteCAS(t) PROVE ToldAt(u)'
    BY <2>29, <1>ctl, <1>told, <1>ptr DEF DeleteCAS
  <2>30. ASSUME NEW t \in Threads, DeleteClear(t) PROVE ToldAt(u)'
    BY <2>30, <1>ctl, <1>told, <1>ptr DEF DeleteClear
  <2>31. ASSUME NEW t \in Threads, DeletePush(t) PROVE ToldAt(u)'
    BY <2>31, <1>ctl, <1>told, <1>ptr DEF DeletePush
  <2>32. ASSUME NEW t \in Threads, OnDisconnect(t) PROVE ToldAt(u)'
    BY <2>32, <1>ctl, <1>told, <1>ptr DEF OnDisconnect
  <2>33. ASSUME NEW t \in Threads, AcceptPop(t) PROVE ToldAt(u)'
    BY <2>33, <1>ctl, <1>told, <1>ptr, <1>stack DEF AcceptPop, GET_INDEX,
       MAKE_SESSION_ID, IDs
  <2>34. ASSUME NEW t \in Threads, ContentSend(t) PROVE ToldAt(u)'
    BY <2>34, <1>ctl, <1>told, <1>ptr, <1>op DEF ContentSend
  <2>35. ASSUME NEW t \in Threads, NEW r \in Slots, TakePost(t, r) PROVE ToldAt(u)'
    BY <2>35, <1>ctl, <1>told, <1>ptr, <1>toldb, <1>ov DEF TakePost, Busy, RecvResults,
       SendResults
  <2>36. ASSUME NEW t \in Threads, NEW r \in Slots, TakeSend(t, r) PROVE ToldAt(u)'
    BY <2>36, <1>ctl, <1>told, <1>ptr, <1>toldb, <1>ov DEF TakeSend, Busy, RecvResults,
       SendResults
  <2>37. ASSUME NEW t \in Threads, NEW r \in Slots, TakeRecv(t, r) PROVE ToldAt(u)'
    BY <2>37, <1>ctl, <1>told, <1>ptr, <1>toldb, <1>ov DEF TakeRecv, Busy, RecvResults,
       SendResults
  <2>38. ASSUME NEW r \in Slots, RecvComplete(r) PROVE ToldAt(u)'
    BY <2>38, <1>ctl, <1>told, <1>ptr DEF RecvComplete
  <2>39. ASSUME NEW r \in Slots, SendComplete(r) PROVE ToldAt(u)'
    BY <2>39, <1>ctl, <1>told, <1>ptr DEF SendComplete
  <2> QED
    BY <1>1, <2>1, <2>2, <2>3, <2>4, <2>5, <2>6, <2>7, <2>8, <2>9, <2>10, <2>11, <2>12,
       <2>13, <2>14, <2>15, <2>16, <2>17, <2>18, <2>19, <2>20, <2>21, <2>22, <2>23,
       <2>24, <2>25, <2>26, <2>27, <2>28, <2>29, <2>30, <2>31, <2>32, <2>33, <2>34,
       <2>35, <2>36, <2>37, <2>38, <2>39, <2>sended DEF Next, Continue, Take
<1>2. CASE UNCHANGED vars BY <1>2, <1>ctl, <1>told, <1>ptr
<1> QED BY <1>1, <1>2

\* Every step keeps the session of a slot with work outstanding among those
\* told to the content.
LEMMA ToldSlotStep ==
  ASSUME IInv, TypeOK', ControlOK', [Next]_vars
  PROVE  (\A s \in Slots : Busy(s) => ID[s] \in opened)'
<1> SUFFICES ASSUME NEW s \in Slots PROVE (Busy(s) => ID[s] \in opened)'
  OBVIOUS
<1> USE DEF ControlAt, SessLabels, IOProcLabels, FoundLabels, InitStage, DelStage, OwnLabels, SubLabels, InitLabels
<1>ctl. \A t \in Threads : ControlAt(t) BY DEF IInv, ControlOK
<1>told. \A t \in Threads : ToldAt(t) BY DEF IInv, Told
<1>ptr. /\ pc \in [Threads -> Labels] /\ ret \in [Threads -> Labels]
      /\ sess \in [Threads -> Slots \union {NoSlot}]
      /\ found \in [Threads -> Slots \union {NoSlot}]
      /\ tgt \in [Threads -> Slots \union {NoSlot}]
      /\ want \in [Threads -> IDs]
  BY DEF IInv, TypeOK
<1>ov. /\ recvOv \in [Slots -> {"idle", "pending"} \union RecvResults]
     /\ sendOv \in [Slots -> {"idle", "pending"} \union SendResults]
     /\ posts \in [Slots -> Nat] /\ sendFlag \in [Slots -> BOOLEAN]
  BY DEF IInv, TypeOK
<1>word. /\ ID \in [Slots -> IDs] /\ released \in [Slots -> BOOLEAN]
       /\ IOcount \in [Slots -> Int] /\ posts \in [Slots -> Nat]
  BY DEF IInv, TypeOK
<1>toldb. \A r \in Slots : Busy(r) => ID[r] \in opened BY DEF IInv, Told
<1>fresh. FreshUnknown BY DEF IInv
<1>live. \A t \in Threads : LiveAt(t) BY DEF IInv, Live
<1>busy. \A r \in Slots : Busy(r) => ~released[r] BY DEF IInv, Live
<1>new. \A t \in Threads : pc[t] = "init_id" => (~released[tgt[t]] => Fresh(tgt[t])) /\ tgt[t] \in Slots
  BY <1>ctl DEF Fresh
<1>1. CASE Next
  <2>1. ASSUME NEW t \in Threads, InitID(t) PROVE (Busy(s) => ID[s] \in opened)'
    BY <2>1, <1>ctl, <1>toldb, <1>ptr, <1>word, <1>fresh, <1>new, <1>busy DEF InitID,
       Busy, FreshUnknown
  <2>2. ASSUME NEW t \in Threads, InitIncrement(t) PROVE (Busy(s) => ID[s] \in opened)'
    BY <2>2, <1>ctl, <1>toldb, <1>ptr, <1>ov DEF InitIncrement, Busy, RecvResults,
       SendResults
  <2>3. ASSUME NEW t \in Threads, InitFlags(t) PROVE (Busy(s) => ID[s] \in opened)'
    BY <2>3, <1>ctl, <1>toldb, <1>ptr, <1>ov DEF InitFlags, Busy, RecvResults, SendResults
  <2>4. ASSUME NEW t \in Threads, InitClear(t) PROVE (Busy(s) => ID[s] \in opened)'
    BY <2>4, <1>ctl, <1>toldb, <1>ptr, <1>ov DEF InitClear, Busy, RecvResults, SendResults
  <2>5. ASSUME NEW t \in Threads, OnNewConnect(t) PROVE (Busy(s) => ID[s] \in opened)'
    BY <2>5, <1>ctl, <1>toldb, <1>ptr, <1>ov DEF OnNewConnect, Busy, RecvResults,
       SendResults
  <2>6. ASSUME NEW t \in Threads, RecvIOCheck(t) PROVE (Busy(s) => ID[s] \in opened)'
    BY <2>6, <1>ctl, <1>toldb, <1>ptr, <1>ov DEF RecvIOCheck, Busy, RecvResults, SendResults
  <2>7. ASSUME NEW t \in Threads, RecvIOPost(t) PROVE (Busy(s) => ID[s] \in opened)'
    BY <2>7, <1>ctl, <1>toldb, <1>ptr, <1>ov, <1>told DEF RecvIOPost, Busy, RecvResults,
       SendResults, ToldAt, LiveAt
  <2>8. ASSUME NEW t \in Threads, RecvIORecheck(t) PROVE (Busy(s) => ID[s] \in opened)'
    BY <2>8, <1>ctl, <1>toldb, <1>ptr, <1>ov DEF RecvIORecheck, CancelIoEx, Busy,
       RecvResults, SendResults
  <2>9. ASSUME NEW t \in Threads, RecvIOCancel(t) PROVE (Busy(s) => ID[s] \in opened)'
    BY <2>9, <1>ctl, <1>toldb, <1>ptr, <1>ov DEF RecvIOCancel, CancelIoEx, Busy,
       RecvResults, SendResults
  <2>10. ASSUME NEW t \in Threads, SendIOCheck(t) PROVE (Busy(s) => ID[s] \in opened)'
    BY <2>10, <1>ctl, <1>toldb, <1>ptr, <1>ov DEF SendIOCheck, Busy, RecvResults,
       SendResults
  <2>11. ASSUME NEW t \in Threads, SendIOExchange(t) PROVE (Busy(s) => ID[s] \in opened)'
    BY <2>11, <1>ctl, <1>toldb, <1>ptr, <1>ov DEF SendIOExchange, Busy, RecvResults,
       SendResults
  <2>12. ASSUME NEW t \in Threads, SendIOSize(t) PROVE (Busy(s) => ID[s] \in opened)'
    BY <2>12, <1>ctl, <1>toldb, <1>ptr, <1>ov DEF SendIOSize, Busy, RecvResults, SendResults
  <2>13. ASSUME NEW t \in Threads, SendIOPost(t) PROVE (Busy(s) => ID[s] \in opened)'
    BY <2>13, <1>ctl, <1>toldb, <1>ptr, <1>ov, <1>told DEF SendIOPost, Busy,
       RecvResults, SendResults, ToldAt, LiveAt
  <2>14. ASSUME NEW t \in Threads, SendIORecheck(t) PROVE (Busy(s) => ID[s] \in opened)'
    BY <2>14, <1>ctl, <1>toldb, <1>ptr, <1>ov DEF SendIORecheck, CancelIoEx, Busy,
       RecvResults, SendResults
  <2>15. ASSUME NEW t \in Threads, SendIOCancel(t) PROVE (Busy(s) => ID[s] \in opened)'
    BY <2>15, <1>ctl, <1>toldb, <1>ptr, <1>ov DEF SendIOCancel, CancelIoEx, Busy,
       RecvResults, SendResults
  <2>16. ASSUME NEW t \in Threads, ClearSendFlag(t) PROVE (Busy(s) => ID[s] \in opened)'
    BY <2>16, <1>ctl, <1>toldb, <1>ptr, <1>ov DEF ClearSendFlag, Busy, RecvResults,
       SendResults
  <2>17. ASSUME NEW t \in Threads, CancelRegist(t) PROVE (Busy(s) => ID[s] \in opened)'
    BY <2>17, <1>ctl, <1>toldb, <1>ptr, <1>ov DEF CancelRegist, AfterRegist, Busy,
       RecvResults, SendResults
  <2>18. ASSUME NEW t \in Threads, IORelease(t) PROVE (Busy(s) => ID[s] \in opened)'
    BY <2>18, <1>ctl, <1>toldb, <1>ptr, <1>ov DEF IORelease, Busy, RecvResults, SendResults
  <2>19. ASSUME NEW t \in Threads, SentEarlyLoad(t) PROVE (Busy(s) => ID[s] \in opened)'
    BY <2>19, <1>ctl, <1>toldb, <1>ptr, <1>ov DEF SentEarlyLoad, Busy, RecvResults,
       SendResults
  <2>sended. ASSUME NEW t \in Threads, SendedEnds(t) PROVE (Busy(s) => ID[s] \in opened)'
    BY <2>sended, <1>ctl, <1>toldb, <1>ptr, <1>ov DEF SendedEnds, Busy, RecvResults,
       SendResults
  <2>20. ASSUME NEW t \in Threads, SentMore(t) PROVE (Busy(s) => ID[s] \in opened)'
    BY <2>20, <1>ctl, <1>toldb, <1>ptr, <1>ov DEF SentMore, Busy, RecvResults, SendResults
  <2>21. ASSUME NEW t \in Threads, RecvLoop(t) PROVE (Busy(s) => ID[s] \in opened)'
    BY <2>21, <1>ctl, <1>toldb, <1>ptr, <1>ov DEF RecvLoop, OnRecv, Busy, RecvResults,
       SendResults
  <2>22. ASSUME NEW t \in Threads, KickCancel(t) PROVE (Busy(s) => ID[s] \in opened)'
    BY <2>22, <1>ctl, <1>toldb, <1>ptr, <1>ov DEF KickCancel, OnRecv, CancelIoEx, Busy,
       RecvResults, SendResults
  <2>23. ASSUME NEW t \in Threads, HandlerRelease(t) PROVE (Busy(s) => ID[s] \in opened)'
    BY <2>23, <1>ctl, <1>toldb, <1>ptr, <1>ov DEF HandlerRelease, Busy, RecvResults,
       SendResults
  <2>24. ASSUME NEW t \in Threads, FindIncrement(t) PROVE (Busy(s) => ID[s] \in opened)'
    BY <2>24, <1>ctl, <1>toldb, <1>ptr, <1>ov DEF FindIncrement, Busy, RecvResults,
       SendResults
  <2>25. ASSUME NEW t \in Threads, FindCheckID(t) PROVE (Busy(s) => ID[s] \in opened)'
    BY <2>25, <1>ctl, <1>toldb, <1>ptr, <1>ov DEF FindCheckID, Busy, RecvResults,
       SendResults
  <2>26. ASSUME NEW t \in Threads, SendReqPost(t) PROVE (Busy(s) => ID[s] \in opened)'
    BY <2>26, <1>ctl, <1>toldb, <1>ptr, <1>ov, <1>told, <1>live DEF SendReqPost, Busy,
       RecvResults, SendResults, ToldAt, LiveAt
  <2>27. ASSUME NEW t \in Threads, DisconnectCancel(t) PROVE (Busy(s) => ID[s] \in opened)'
    BY <2>27, <1>ctl, <1>toldb, <1>ptr, <1>ov DEF DisconnectCancel, CancelIoEx, Busy,
       RecvResults, SendResults
  <2>28. ASSUME NEW t \in Threads, FinderRelease(t) PROVE (Busy(s) => ID[s] \in opened)'
    BY <2>28, <1>ctl, <1>toldb, <1>ptr, <1>ov DEF FinderRelease, Busy, RecvResults,
       SendResults
  <2>29. ASSUME NEW t \in Threads, DeleteCAS(t) PROVE (Busy(s) => ID[s] \in opened)'
    BY <2>29, <1>ctl, <1>toldb, <1>ptr, <1>ov DEF DeleteCAS, Busy, RecvResults, SendResults
  <2>30. ASSUME NEW t \in Threads, DeleteClear(t) PROVE (Busy(s) => ID[s] \in opened)'
    BY <2>30, <1>ctl, <1>toldb, <1>ptr, <1>ov DEF DeleteClear, Busy, RecvResults,
       SendResults
  <2>31. ASSUME NEW t \in Threads, DeletePush(t) PROVE (Busy(s) => ID[s] \in opened)'
    BY <2>31, <1>ctl, <1>toldb, <1>ptr, <1>ov DEF DeletePush, Busy, RecvResults, SendResults
  <2>32. ASSUME NEW t \in Threads, OnDisconnect(t) PROVE (Busy(s) => ID[s] \in opened)'
    BY <2>32, <1>ctl, <1>toldb, <1>ptr, <1>ov DEF OnDisconnect, Busy, RecvResults,
       SendResults
  <2>33. ASSUME NEW t \in Threads, AcceptPop(t) PROVE (Busy(s) => ID[s] \in opened)'
    BY <2>33, <1>ctl, <1>toldb, <1>ptr, <1>ov DEF AcceptPop, Busy, RecvResults, SendResults
  <2>34. ASSUME NEW t \in Threads, ContentSend(t) PROVE (Busy(s) => ID[s] \in opened)'
    BY <2>34, <1>ctl, <1>toldb, <1>ptr, <1>ov DEF ContentSend, Busy, RecvResults,
       SendResults
  <2>35. ASSUME NEW t \in Threads, NEW r \in Slots, TakePost(t, r) PROVE (Busy(s) => ID[s] \in opened)'
    BY <2>35, <1>ctl, <1>toldb, <1>ptr, <1>ov DEF TakePost, Busy, RecvResults, SendResults
  <2>36. ASSUME NEW t \in Threads, NEW r \in Slots, TakeSend(t, r) PROVE (Busy(s) => ID[s] \in opened)'
    BY <2>36, <1>ctl, <1>toldb, <1>ptr, <1>ov DEF TakeSend, Busy, RecvResults, SendResults
  <2>37. ASSUME NEW t \in Threads, NEW r \in Slots, TakeRecv(t, r) PROVE (Busy(s) => ID[s] \in opened)'
    BY <2>37, <1>ctl, <1>toldb, <1>ptr, <1>ov DEF TakeRecv, Busy, RecvResults, SendResults
  <2>38. ASSUME NEW r \in Slots, RecvComplete(r) PROVE (Busy(s) => ID[s] \in opened)'
    BY <2>38, <1>ctl, <1>toldb, <1>ptr, <1>ov DEF RecvComplete, Busy, RecvResults,
       SendResults
  <2>39. ASSUME NEW r \in Slots, SendComplete(r) PROVE (Busy(s) => ID[s] \in opened)'
    BY <2>39, <1>ctl, <1>toldb, <1>ptr, <1>ov DEF SendComplete, Busy, RecvResults,
       SendResults
  <2> QED
    BY <1>1, <2>1, <2>2, <2>3, <2>4, <2>5, <2>6, <2>7, <2>8, <2>9, <2>10, <2>11, <2>12,
       <2>13, <2>14, <2>15, <2>16, <2>17, <2>18, <2>19, <2>20, <2>21, <2>22, <2>23,
       <2>24, <2>25, <2>26, <2>27, <2>28, <2>29, <2>30, <2>31, <2>32, <2>33, <2>34,
       <2>35, <2>36, <2>37, <2>38, <2>39, <2>sended DEF Next, Continue, Take
<1>2. CASE UNCHANGED vars BY <1>2, <1>toldb DEF Busy
<1> QED BY <1>1, <1>2

\* Every step keeps the receive of a session with one holder: while a thread
\* may start a receive none is in the kernel.
LEMMA RecvIdleStep == ASSUME IInv, TypeOK', ControlOK', [Next]_vars PROVE RecvIdle'
<1> SUFFICES ASSUME NEW u \in Threads, RecvHolds(u)' PROVE recvOv'[sess'[u]] = "idle"
  BY DEF RecvIdle
<1> USE DEF ControlAt, RecvHolds, RecvLabels, SendLabels, SessLabels, IOProcLabels, FoundLabels, InitStage, DelStage, OwnLabels, SubLabels, InitLabels
<1>ctl. \A t \in Threads : ControlAt(t) BY DEF IInv, ControlOK
<1>ptr. /\ pc \in [Threads -> Labels] /\ ret \in [Threads -> Labels]
      /\ sess \in [Threads -> Slots \union {NoSlot}]
      /\ found \in [Threads -> Slots \union {NoSlot}]
      /\ tgt \in [Threads -> Slots \union {NoSlot}]
      /\ want \in [Threads -> IDs]
  BY DEF IInv, TypeOK
<1>ov. /\ recvOv \in [Slots -> {"idle", "pending"} \union RecvResults]
     /\ sendOv \in [Slots -> {"idle", "pending"} \union SendResults]
     /\ posts \in [Slots -> Nat] /\ sendFlag \in [Slots -> BOOLEAN]
  BY DEF IInv, TypeOK
<1>live. \A t \in Threads : LiveAt(t) BY DEF IInv, Live
<1>busy. \A r \in Slots : Busy(r) => ~released[r] BY DEF IInv, Live
<1>fresh. FreshUnknown BY DEF IInv
<1>own. \A t \in Threads : pc[t] \in InitLabels =>
          tgt[t] \in Slots /\ (~released[tgt[t]] => Fresh(tgt[t]))
  BY <1>ctl DEF Fresh
<1>none. \A t \in Threads : pc[t] \in InitLabels =>
           /\ ~Busy(tgt[t])
           /\ \A w \in Threads : sess[w] = tgt[t] => pc[w] \in InitLabels
  BY <1>own, <1>ctl, <1>live, <1>busy, <1>fresh DEF FreshUnknown, LiveAt
<1>idle. RecvIdle BY DEF IInv, Exclusive
<1>once. RecvOnce BY DEF IInv, Exclusive
<1>1. CASE Next
  <2>1. ASSUME NEW t \in Threads, InitID(t) PROVE recvOv'[sess'[u]] = "idle"
    BY <2>1, <1>idle, <1>ctl, <1>ptr DEF InitID, RecvIdle
  <2>2. ASSUME NEW t \in Threads, InitIncrement(t) PROVE recvOv'[sess'[u]] = "idle"
    BY <2>2, <1>idle, <1>ctl, <1>ptr DEF InitIncrement, RecvIdle
  <2>3. ASSUME NEW t \in Threads, InitFlags(t) PROVE recvOv'[sess'[u]] = "idle"
    BY <2>3, <1>idle, <1>ctl, <1>ptr DEF InitFlags, RecvIdle
  <2>4. ASSUME NEW t \in Threads, InitClear(t) PROVE recvOv'[sess'[u]] = "idle"
    BY <2>4, <1>idle, <1>ctl, <1>ptr, <1>none DEF InitClear, RecvIdle, Busy
  <2>5. ASSUME NEW t \in Threads, OnNewConnect(t) PROVE recvOv'[sess'[u]] = "idle"
    BY <2>5, <1>idle, <1>ctl, <1>ptr DEF OnNewConnect, RecvIdle
  <2>6. ASSUME NEW t \in Threads, RecvIOCheck(t) PROVE recvOv'[sess'[u]] = "idle"
    BY <2>6, <1>idle, <1>ctl, <1>ptr DEF RecvIOCheck, RecvIdle
  <2>7. ASSUME NEW t \in Threads, RecvIOPost(t) PROVE recvOv'[sess'[u]] = "idle"
    BY <2>7, <1>idle, <1>ctl, <1>ptr, <1>ov, <1>once DEF RecvIOPost, RecvIdle, RecvOnce,
       RecvResults, SendResults
  <2>8. ASSUME NEW t \in Threads, RecvIORecheck(t) PROVE recvOv'[sess'[u]] = "idle"
    BY <2>8, <1>idle, <1>ctl, <1>ptr, <1>ov DEF RecvIORecheck, CancelIoEx, RecvIdle,
       RecvResults, SendResults
  <2>9. ASSUME NEW t \in Threads, RecvIOCancel(t) PROVE recvOv'[sess'[u]] = "idle"
    BY <2>9, <1>idle, <1>ctl, <1>ptr DEF RecvIOCancel, CancelIoEx, RecvIdle
  <2>10. ASSUME NEW t \in Threads, SendIOCheck(t) PROVE recvOv'[sess'[u]] = "idle"
    BY <2>10, <1>idle, <1>ctl, <1>ptr DEF SendIOCheck, RecvIdle
  <2>11. ASSUME NEW t \in Threads, SendIOExchange(t) PROVE recvOv'[sess'[u]] = "idle"
    BY <2>11, <1>idle, <1>ctl, <1>ptr DEF SendIOExchange, RecvIdle
  <2>12. ASSUME NEW t \in Threads, SendIOSize(t) PROVE recvOv'[sess'[u]] = "idle"
    BY <2>12, <1>idle, <1>ctl, <1>ptr DEF SendIOSize, RecvIdle
  <2>13. ASSUME NEW t \in Threads, SendIOPost(t) PROVE recvOv'[sess'[u]] = "idle"
    BY <2>13, <1>idle, <1>ctl, <1>ptr DEF SendIOPost, RecvIdle
  <2>14. ASSUME NEW t \in Threads, SendIORecheck(t) PROVE recvOv'[sess'[u]] = "idle"
    BY <2>14, <1>idle, <1>ctl, <1>ptr DEF SendIORecheck, CancelIoEx, RecvIdle
  <2>15. ASSUME NEW t \in Threads, SendIOCancel(t) PROVE recvOv'[sess'[u]] = "idle"
    BY <2>15, <1>idle, <1>ctl, <1>ptr, <1>ov DEF SendIOCancel, CancelIoEx, RecvIdle,
       RecvResults, SendResults
  <2>16. ASSUME NEW t \in Threads, ClearSendFlag(t) PROVE recvOv'[sess'[u]] = "idle"
    BY <2>16, <1>idle, <1>ctl, <1>ptr DEF ClearSendFlag, RecvIdle
  <2>17. ASSUME NEW t \in Threads, CancelRegist(t) PROVE recvOv'[sess'[u]] = "idle"
    BY <2>17, <1>idle, <1>ctl, <1>ptr DEF CancelRegist, AfterRegist, RecvIdle
  <2>18. ASSUME NEW t \in Threads, IORelease(t) PROVE recvOv'[sess'[u]] = "idle"
    BY <2>18, <1>idle, <1>ctl, <1>ptr DEF IORelease, RecvIdle
  <2>19. ASSUME NEW t \in Threads, SentEarlyLoad(t) PROVE recvOv'[sess'[u]] = "idle"
    BY <2>19, <1>idle, <1>ctl, <1>ptr DEF SentEarlyLoad, RecvIdle
  <2>sended. ASSUME NEW t \in Threads, SendedEnds(t) PROVE recvOv'[sess'[u]] = "idle"
    BY <2>sended, <1>idle, <1>ctl, <1>ptr DEF SendedEnds, RecvIdle
  <2>20. ASSUME NEW t \in Threads, SentMore(t) PROVE recvOv'[sess'[u]] = "idle"
    BY <2>20, <1>idle, <1>ctl, <1>ptr DEF SentMore, RecvIdle
  <2>21. ASSUME NEW t \in Threads, RecvLoop(t) PROVE recvOv'[sess'[u]] = "idle"
    BY <2>21, <1>idle, <1>ctl, <1>ptr DEF RecvLoop, OnRecv, RecvIdle
  <2>22. ASSUME NEW t \in Threads, KickCancel(t) PROVE recvOv'[sess'[u]] = "idle"
    BY <2>22, <1>idle, <1>ctl, <1>ptr, <1>ov DEF KickCancel, OnRecv, CancelIoEx,
       RecvIdle, RecvResults, SendResults
  <2>23. ASSUME NEW t \in Threads, HandlerRelease(t) PROVE recvOv'[sess'[u]] = "idle"
    BY <2>23, <1>idle, <1>ctl, <1>ptr DEF HandlerRelease, RecvIdle
  <2>24. ASSUME NEW t \in Threads, FindIncrement(t) PROVE recvOv'[sess'[u]] = "idle"
    BY <2>24, <1>idle, <1>ctl, <1>ptr DEF FindIncrement, RecvIdle
  <2>25. ASSUME NEW t \in Threads, FindCheckID(t) PROVE recvOv'[sess'[u]] = "idle"
    BY <2>25, <1>idle, <1>ctl, <1>ptr DEF FindCheckID, RecvIdle
  <2>26. ASSUME NEW t \in Threads, SendReqPost(t) PROVE recvOv'[sess'[u]] = "idle"
    BY <2>26, <1>idle, <1>ctl, <1>ptr DEF SendReqPost, RecvIdle
  <2>27. ASSUME NEW t \in Threads, DisconnectCancel(t) PROVE recvOv'[sess'[u]] = "idle"
    BY <2>27, <1>idle, <1>ctl, <1>ptr, <1>ov DEF DisconnectCancel, CancelIoEx, RecvIdle,
       RecvResults, SendResults
  <2>28. ASSUME NEW t \in Threads, FinderRelease(t) PROVE recvOv'[sess'[u]] = "idle"
    BY <2>28, <1>idle, <1>ctl, <1>ptr DEF FinderRelease, RecvIdle
  <2>29. ASSUME NEW t \in Threads, DeleteCAS(t) PROVE recvOv'[sess'[u]] = "idle"
    BY <2>29, <1>idle, <1>ctl, <1>ptr DEF DeleteCAS, RecvIdle
  <2>30. ASSUME NEW t \in Threads, DeleteClear(t) PROVE recvOv'[sess'[u]] = "idle"
    BY <2>30, <1>idle, <1>ctl, <1>ptr DEF DeleteClear, RecvIdle
  <2>31. ASSUME NEW t \in Threads, DeletePush(t) PROVE recvOv'[sess'[u]] = "idle"
    BY <2>31, <1>idle, <1>ctl, <1>ptr DEF DeletePush, RecvIdle
  <2>32. ASSUME NEW t \in Threads, OnDisconnect(t) PROVE recvOv'[sess'[u]] = "idle"
    BY <2>32, <1>idle, <1>ctl, <1>ptr DEF OnDisconnect, RecvIdle
  <2>33. ASSUME NEW t \in Threads, AcceptPop(t) PROVE recvOv'[sess'[u]] = "idle"
    BY <2>33, <1>idle, <1>ctl, <1>ptr DEF AcceptPop, RecvIdle
  <2>34. ASSUME NEW t \in Threads, ContentSend(t) PROVE recvOv'[sess'[u]] = "idle"
    BY <2>34, <1>idle, <1>ctl, <1>ptr DEF ContentSend, RecvIdle
  <2>35. ASSUME NEW t \in Threads, NEW r \in Slots, TakePost(t, r) PROVE recvOv'[sess'[u]] = "idle"
    BY <2>35, <1>idle, <1>ctl, <1>ptr DEF TakePost, RecvIdle
  <2>36. ASSUME NEW t \in Threads, NEW r \in Slots, TakeSend(t, r) PROVE recvOv'[sess'[u]] = "idle"
    BY <2>36, <1>idle, <1>ctl, <1>ptr DEF TakeSend, RecvIdle
  <2>37. ASSUME NEW t \in Threads, NEW r \in Slots, TakeRecv(t, r) PROVE recvOv'[sess'[u]] = "idle"
    BY <2>37, <1>idle, <1>ctl, <1>ptr, <1>ov DEF TakeRecv, RecvIdle, RecvResults,
       SendResults
  <2>38. ASSUME NEW r \in Slots, RecvComplete(r) PROVE recvOv'[sess'[u]] = "idle"
    BY <2>38, <1>idle, <1>ctl, <1>ptr, <1>ov DEF RecvComplete, RecvIdle, RecvResults,
       SendResults
  <2>39. ASSUME NEW r \in Slots, SendComplete(r) PROVE recvOv'[sess'[u]] = "idle"
    BY <2>39, <1>idle, <1>ctl, <1>ptr DEF SendComplete, RecvIdle
  <2> QED
    BY <1>1, <2>1, <2>2, <2>3, <2>4, <2>5, <2>6, <2>7, <2>8, <2>9, <2>10, <2>11, <2>12,
       <2>13, <2>14, <2>15, <2>16, <2>17, <2>18, <2>19, <2>20, <2>21, <2>22, <2>23,
       <2>24, <2>25, <2>26, <2>27, <2>28, <2>29, <2>30, <2>31, <2>32, <2>33, <2>34,
       <2>35, <2>36, <2>37, <2>38, <2>39, <2>sended DEF Next, Continue, Take
<1>2. CASE UNCHANGED vars BY <1>2, <1>idle DEF RecvIdle
<1> QED BY <1>1, <1>2

\* Every step keeps at most one thread per session in charge of its receive.
LEMMA RecvOnceStep == ASSUME IInv, TypeOK', ControlOK', [Next]_vars PROVE RecvOnce'
<1> SUFFICES ASSUME NEW u \in Threads, NEW v \in Threads, u # v, RecvHolds(u)', RecvHolds(v)'
             PROVE  sess'[u] # sess'[v]
  BY DEF RecvOnce
<1> USE DEF ControlAt, RecvHolds, RecvLabels, SendLabels, SessLabels, IOProcLabels, FoundLabels, InitStage, DelStage, OwnLabels, SubLabels, InitLabels
<1>ctl. \A t \in Threads : ControlAt(t) BY DEF IInv, ControlOK
<1>ptr. /\ pc \in [Threads -> Labels] /\ ret \in [Threads -> Labels]
      /\ sess \in [Threads -> Slots \union {NoSlot}]
      /\ found \in [Threads -> Slots \union {NoSlot}]
      /\ tgt \in [Threads -> Slots \union {NoSlot}]
      /\ want \in [Threads -> IDs]
  BY DEF IInv, TypeOK
<1>live. \A t \in Threads : LiveAt(t) BY DEF IInv, Live
<1>busy. \A r \in Slots : Busy(r) => ~released[r] BY DEF IInv, Live
<1>fresh. FreshUnknown BY DEF IInv
<1>own. \A t \in Threads : pc[t] \in InitLabels =>
          tgt[t] \in Slots /\ (~released[tgt[t]] => Fresh(tgt[t]))
  BY <1>ctl DEF Fresh
<1>none. \A t \in Threads : pc[t] \in InitLabels =>
           /\ ~Busy(tgt[t])
           /\ \A w \in Threads : sess[w] = tgt[t] => pc[w] \in InitLabels
  BY <1>own, <1>ctl, <1>live, <1>busy, <1>fresh DEF FreshUnknown, LiveAt
<1>idle. RecvIdle BY DEF IInv, Exclusive
<1>once. RecvOnce BY DEF IInv, Exclusive
<1>1. CASE Next
  <2>1. ASSUME NEW t \in Threads, InitID(t) PROVE sess'[u] # sess'[v]
    BY <2>1, <1>once, <1>ctl, <1>ptr DEF InitID, RecvOnce
  <2>2. ASSUME NEW t \in Threads, InitIncrement(t) PROVE sess'[u] # sess'[v]
    BY <2>2, <1>once, <1>ctl, <1>ptr DEF InitIncrement, RecvOnce
  <2>3. ASSUME NEW t \in Threads, InitFlags(t) PROVE sess'[u] # sess'[v]
    BY <2>3, <1>once, <1>ctl, <1>ptr DEF InitFlags, RecvOnce
  <2>4. ASSUME NEW t \in Threads, InitClear(t) PROVE sess'[u] # sess'[v]
    BY <2>4, <1>once, <1>ctl, <1>ptr, <1>none DEF InitClear, RecvOnce
  <2>5. ASSUME NEW t \in Threads, OnNewConnect(t) PROVE sess'[u] # sess'[v]
    BY <2>5, <1>once, <1>ctl, <1>ptr DEF OnNewConnect, RecvOnce
  <2>6. ASSUME NEW t \in Threads, RecvIOCheck(t) PROVE sess'[u] # sess'[v]
    BY <2>6, <1>once, <1>ctl, <1>ptr DEF RecvIOCheck, RecvOnce
  <2>7. ASSUME NEW t \in Threads, RecvIOPost(t) PROVE sess'[u] # sess'[v]
    BY <2>7, <1>once, <1>ctl, <1>ptr DEF RecvIOPost, RecvOnce
  <2>8. ASSUME NEW t \in Threads, RecvIORecheck(t) PROVE sess'[u] # sess'[v]
    BY <2>8, <1>once, <1>ctl, <1>ptr DEF RecvIORecheck, CancelIoEx, RecvOnce
  <2>9. ASSUME NEW t \in Threads, RecvIOCancel(t) PROVE sess'[u] # sess'[v]
    BY <2>9, <1>once, <1>ctl, <1>ptr DEF RecvIOCancel, CancelIoEx, RecvOnce
  <2>10. ASSUME NEW t \in Threads, SendIOCheck(t) PROVE sess'[u] # sess'[v]
    BY <2>10, <1>once, <1>ctl, <1>ptr DEF SendIOCheck, RecvOnce
  <2>11. ASSUME NEW t \in Threads, SendIOExchange(t) PROVE sess'[u] # sess'[v]
    BY <2>11, <1>once, <1>ctl, <1>ptr DEF SendIOExchange, RecvOnce
  <2>12. ASSUME NEW t \in Threads, SendIOSize(t) PROVE sess'[u] # sess'[v]
    BY <2>12, <1>once, <1>ctl, <1>ptr DEF SendIOSize, RecvOnce
  <2>13. ASSUME NEW t \in Threads, SendIOPost(t) PROVE sess'[u] # sess'[v]
    BY <2>13, <1>once, <1>ctl, <1>ptr DEF SendIOPost, RecvOnce
  <2>14. ASSUME NEW t \in Threads, SendIORecheck(t) PROVE sess'[u] # sess'[v]
    BY <2>14, <1>once, <1>ctl, <1>ptr DEF SendIORecheck, CancelIoEx, RecvOnce
  <2>15. ASSUME NEW t \in Threads, SendIOCancel(t) PROVE sess'[u] # sess'[v]
    BY <2>15, <1>once, <1>ctl, <1>ptr DEF SendIOCancel, CancelIoEx, RecvOnce
  <2>16. ASSUME NEW t \in Threads, ClearSendFlag(t) PROVE sess'[u] # sess'[v]
    BY <2>16, <1>once, <1>ctl, <1>ptr DEF ClearSendFlag, RecvOnce
  <2>17. ASSUME NEW t \in Threads, CancelRegist(t) PROVE sess'[u] # sess'[v]
    BY <2>17, <1>once, <1>ctl, <1>ptr DEF CancelRegist, AfterRegist, RecvOnce
  <2>18. ASSUME NEW t \in Threads, IORelease(t) PROVE sess'[u] # sess'[v]
    BY <2>18, <1>once, <1>ctl, <1>ptr DEF IORelease, RecvOnce
  <2>19. ASSUME NEW t \in Threads, SentEarlyLoad(t) PROVE sess'[u] # sess'[v]
    BY <2>19, <1>once, <1>ctl, <1>ptr DEF SentEarlyLoad, RecvOnce
  <2>sended. ASSUME NEW t \in Threads, SendedEnds(t) PROVE sess'[u] # sess'[v]
    BY <2>sended, <1>once, <1>ctl, <1>ptr DEF SendedEnds, RecvOnce
  <2>20. ASSUME NEW t \in Threads, SentMore(t) PROVE sess'[u] # sess'[v]
    BY <2>20, <1>once, <1>ctl, <1>ptr DEF SentMore, RecvOnce
  <2>21. ASSUME NEW t \in Threads, RecvLoop(t) PROVE sess'[u] # sess'[v]
    BY <2>21, <1>once, <1>ctl, <1>ptr DEF RecvLoop, OnRecv, RecvOnce
  <2>22. ASSUME NEW t \in Threads, KickCancel(t) PROVE sess'[u] # sess'[v]
    BY <2>22, <1>once, <1>ctl, <1>ptr DEF KickCancel, OnRecv, CancelIoEx, RecvOnce
  <2>23. ASSUME NEW t \in Threads, HandlerRelease(t) PROVE sess'[u] # sess'[v]
    BY <2>23, <1>once, <1>ctl, <1>ptr DEF HandlerRelease, RecvOnce
  <2>24. ASSUME NEW t \in Threads, FindIncrement(t) PROVE sess'[u] # sess'[v]
    BY <2>24, <1>once, <1>ctl, <1>ptr DEF FindIncrement, RecvOnce
  <2>25. ASSUME NEW t \in Threads, FindCheckID(t) PROVE sess'[u] # sess'[v]
    BY <2>25, <1>once, <1>ctl, <1>ptr DEF FindCheckID, RecvOnce
  <2>26. ASSUME NEW t \in Threads, SendReqPost(t) PROVE sess'[u] # sess'[v]
    BY <2>26, <1>once, <1>ctl, <1>ptr DEF SendReqPost, RecvOnce
  <2>27. ASSUME NEW t \in Threads, DisconnectCancel(t) PROVE sess'[u] # sess'[v]
    BY <2>27, <1>once, <1>ctl, <1>ptr DEF DisconnectCancel, CancelIoEx, RecvOnce
  <2>28. ASSUME NEW t \in Threads, FinderRelease(t) PROVE sess'[u] # sess'[v]
    BY <2>28, <1>once, <1>ctl, <1>ptr DEF FinderRelease, RecvOnce
  <2>29. ASSUME NEW t \in Threads, DeleteCAS(t) PROVE sess'[u] # sess'[v]
    BY <2>29, <1>once, <1>ctl, <1>ptr DEF DeleteCAS, RecvOnce
  <2>30. ASSUME NEW t \in Threads, DeleteClear(t) PROVE sess'[u] # sess'[v]
    BY <2>30, <1>once, <1>ctl, <1>ptr DEF DeleteClear, RecvOnce
  <2>31. ASSUME NEW t \in Threads, DeletePush(t) PROVE sess'[u] # sess'[v]
    BY <2>31, <1>once, <1>ctl, <1>ptr DEF DeletePush, RecvOnce
  <2>32. ASSUME NEW t \in Threads, OnDisconnect(t) PROVE sess'[u] # sess'[v]
    BY <2>32, <1>once, <1>ctl, <1>ptr DEF OnDisconnect, RecvOnce
  <2>33. ASSUME NEW t \in Threads, AcceptPop(t) PROVE sess'[u] # sess'[v]
    BY <2>33, <1>once, <1>ctl, <1>ptr DEF AcceptPop, RecvOnce
  <2>34. ASSUME NEW t \in Threads, ContentSend(t) PROVE sess'[u] # sess'[v]
    BY <2>34, <1>once, <1>ctl, <1>ptr DEF ContentSend, RecvOnce
  <2>35. ASSUME NEW t \in Threads, NEW r \in Slots, TakePost(t, r) PROVE sess'[u] # sess'[v]
    BY <2>35, <1>once, <1>ctl, <1>ptr DEF TakePost, RecvOnce
  <2>36. ASSUME NEW t \in Threads, NEW r \in Slots, TakeSend(t, r) PROVE sess'[u] # sess'[v]
    BY <2>36, <1>once, <1>ctl, <1>ptr DEF TakeSend, RecvOnce
  <2>37. ASSUME NEW t \in Threads, NEW r \in Slots, TakeRecv(t, r) PROVE sess'[u] # sess'[v]
    BY <2>37, <1>once, <1>ctl, <1>ptr, <1>idle DEF TakeRecv, RecvOnce, RecvIdle, RecvResults
  <2>38. ASSUME NEW r \in Slots, RecvComplete(r) PROVE sess'[u] # sess'[v]
    BY <2>38, <1>once, <1>ctl, <1>ptr DEF RecvComplete, RecvOnce
  <2>39. ASSUME NEW r \in Slots, SendComplete(r) PROVE sess'[u] # sess'[v]
    BY <2>39, <1>once, <1>ctl, <1>ptr DEF SendComplete, RecvOnce
  <2> QED
    BY <1>1, <2>1, <2>2, <2>3, <2>4, <2>5, <2>6, <2>7, <2>8, <2>9, <2>10, <2>11, <2>12,
       <2>13, <2>14, <2>15, <2>16, <2>17, <2>18, <2>19, <2>20, <2>21, <2>22, <2>23,
       <2>24, <2>25, <2>26, <2>27, <2>28, <2>29, <2>30, <2>31, <2>32, <2>33, <2>34,
       <2>35, <2>36, <2>37, <2>38, <2>39, <2>sended DEF Next, Continue, Take
<1>2. CASE UNCHANGED vars BY <1>2, <1>once DEF RecvOnce
<1> QED BY <1>1, <1>2

\* Every step keeps sendFlag set, and no send in the kernel, while a thread
\* is between the exchange on sendFlag and its WSASend or handles a send
\* completion.
LEMMA SendGuardedStep == ASSUME IInv, TypeOK', ControlOK', [Next]_vars PROVE SendGuarded'
<1> SUFFICES ASSUME NEW u \in Threads, pc'[u] \in SendLabels
             PROVE  sendOv'[sess'[u]] = "idle" /\ sendFlag'[sess'[u]]
  BY DEF SendGuarded
<1> USE DEF ControlAt, RecvHolds, RecvLabels, SendLabels, SessLabels, IOProcLabels, FoundLabels, InitStage, DelStage, OwnLabels, SubLabels, InitLabels
<1>ctl. \A t \in Threads : ControlAt(t) BY DEF IInv, ControlOK
<1>ptr. /\ pc \in [Threads -> Labels] /\ ret \in [Threads -> Labels]
      /\ sess \in [Threads -> Slots \union {NoSlot}]
      /\ found \in [Threads -> Slots \union {NoSlot}]
      /\ tgt \in [Threads -> Slots \union {NoSlot}]
      /\ want \in [Threads -> IDs]
  BY DEF IInv, TypeOK
<1>ov. /\ recvOv \in [Slots -> {"idle", "pending"} \union RecvResults]
     /\ sendOv \in [Slots -> {"idle", "pending"} \union SendResults]
     /\ posts \in [Slots -> Nat] /\ sendFlag \in [Slots -> BOOLEAN]
  BY DEF IInv, TypeOK
<1>live. \A t \in Threads : LiveAt(t) BY DEF IInv, Live
<1>busy. \A r \in Slots : Busy(r) => ~released[r] BY DEF IInv, Live
<1>fresh. FreshUnknown BY DEF IInv
<1>own. \A t \in Threads : pc[t] \in InitLabels =>
          tgt[t] \in Slots /\ (~released[tgt[t]] => Fresh(tgt[t]))
  BY <1>ctl DEF Fresh
<1>none. \A t \in Threads : pc[t] \in InitLabels =>
           /\ ~Busy(tgt[t])
           /\ \A w \in Threads : sess[w] = tgt[t] => pc[w] \in InitLabels
  BY <1>own, <1>ctl, <1>live, <1>busy, <1>fresh DEF FreshUnknown, LiveAt
<1>guard. SendGuarded BY DEF IInv, Exclusive
<1>once. SendOnce BY DEF IInv, Exclusive
<1>flag. SendFlagged BY DEF IInv, Exclusive
<1>1. CASE Next
  <2>1. ASSUME NEW t \in Threads, InitID(t) PROVE sendOv'[sess'[u]] = "idle" /\ sendFlag'[sess'[u]]
    BY <2>1, <1>guard, <1>ctl, <1>ptr DEF InitID, SendGuarded
  <2>2. ASSUME NEW t \in Threads, InitIncrement(t) PROVE sendOv'[sess'[u]] = "idle" /\ sendFlag'[sess'[u]]
    BY <2>2, <1>guard, <1>ctl, <1>ptr DEF InitIncrement, SendGuarded
  <2>3. ASSUME NEW t \in Threads, InitFlags(t) PROVE sendOv'[sess'[u]] = "idle" /\ sendFlag'[sess'[u]]
    BY <2>3, <1>guard, <1>ctl, <1>ptr, <1>ov, <1>none DEF InitFlags, SendGuarded
  <2>4. ASSUME NEW t \in Threads, InitClear(t) PROVE sendOv'[sess'[u]] = "idle" /\ sendFlag'[sess'[u]]
    BY <2>4, <1>guard, <1>ctl, <1>ptr DEF InitClear, SendGuarded
  <2>5. ASSUME NEW t \in Threads, OnNewConnect(t) PROVE sendOv'[sess'[u]] = "idle" /\ sendFlag'[sess'[u]]
    BY <2>5, <1>guard, <1>ctl, <1>ptr DEF OnNewConnect, SendGuarded
  <2>6. ASSUME NEW t \in Threads, RecvIOCheck(t) PROVE sendOv'[sess'[u]] = "idle" /\ sendFlag'[sess'[u]]
    BY <2>6, <1>guard, <1>ctl, <1>ptr DEF RecvIOCheck, SendGuarded
  <2>7. ASSUME NEW t \in Threads, RecvIOPost(t) PROVE sendOv'[sess'[u]] = "idle" /\ sendFlag'[sess'[u]]
    BY <2>7, <1>guard, <1>ctl, <1>ptr DEF RecvIOPost, SendGuarded
  <2>8. ASSUME NEW t \in Threads, RecvIORecheck(t) PROVE sendOv'[sess'[u]] = "idle" /\ sendFlag'[sess'[u]]
    BY <2>8, <1>guard, <1>ctl, <1>ptr DEF RecvIORecheck, CancelIoEx, SendGuarded
  <2>9. ASSUME NEW t \in Threads, RecvIOCancel(t) PROVE sendOv'[sess'[u]] = "idle" /\ sendFlag'[sess'[u]]
    BY <2>9, <1>guard, <1>ctl, <1>ptr, <1>ov DEF RecvIOCancel, CancelIoEx, SendGuarded,
       RecvResults, SendResults
  <2>10. ASSUME NEW t \in Threads, SendIOCheck(t) PROVE sendOv'[sess'[u]] = "idle" /\ sendFlag'[sess'[u]]
    BY <2>10, <1>guard, <1>ctl, <1>ptr DEF SendIOCheck, SendGuarded
  <2>11. ASSUME NEW t \in Threads, SendIOExchange(t) PROVE sendOv'[sess'[u]] = "idle" /\ sendFlag'[sess'[u]]
    BY <2>11, <1>guard, <1>ctl, <1>ptr, <1>ov, <1>flag DEF SendIOExchange, SendGuarded,
       RecvResults, SendResults, SendFlagged
  <2>12. ASSUME NEW t \in Threads, SendIOSize(t) PROVE sendOv'[sess'[u]] = "idle" /\ sendFlag'[sess'[u]]
    BY <2>12, <1>guard, <1>ctl, <1>ptr DEF SendIOSize, SendGuarded
  <2>13. ASSUME NEW t \in Threads, SendIOPost(t) PROVE sendOv'[sess'[u]] = "idle" /\ sendFlag'[sess'[u]]
    BY <2>13, <1>guard, <1>ctl, <1>ptr, <1>ov, <1>once DEF SendIOPost, SendGuarded,
       RecvResults, SendResults, SendOnce
  <2>14. ASSUME NEW t \in Threads, SendIORecheck(t) PROVE sendOv'[sess'[u]] = "idle" /\ sendFlag'[sess'[u]]
    BY <2>14, <1>guard, <1>ctl, <1>ptr, <1>ov DEF SendIORecheck, CancelIoEx,
       SendGuarded, RecvResults, SendResults
  <2>15. ASSUME NEW t \in Threads, SendIOCancel(t) PROVE sendOv'[sess'[u]] = "idle" /\ sendFlag'[sess'[u]]
    BY <2>15, <1>guard, <1>ctl, <1>ptr DEF SendIOCancel, CancelIoEx, SendGuarded
  <2>16. ASSUME NEW t \in Threads, ClearSendFlag(t) PROVE sendOv'[sess'[u]] = "idle" /\ sendFlag'[sess'[u]]
    BY <2>16, <1>guard, <1>ctl, <1>ptr, <1>ov, <1>once DEF ClearSendFlag, SendGuarded,
       RecvResults, SendResults, SendOnce
  <2>17. ASSUME NEW t \in Threads, CancelRegist(t) PROVE sendOv'[sess'[u]] = "idle" /\ sendFlag'[sess'[u]]
    BY <2>17, <1>guard, <1>ctl, <1>ptr DEF CancelRegist, AfterRegist, SendGuarded
  <2>18. ASSUME NEW t \in Threads, IORelease(t) PROVE sendOv'[sess'[u]] = "idle" /\ sendFlag'[sess'[u]]
    BY <2>18, <1>guard, <1>ctl, <1>ptr DEF IORelease, SendGuarded
  <2>19. ASSUME NEW t \in Threads, SentEarlyLoad(t) PROVE sendOv'[sess'[u]] = "idle" /\ sendFlag'[sess'[u]]
    BY <2>19, <1>guard, <1>ctl, <1>ptr DEF SentEarlyLoad, SendGuarded
  <2>sended. ASSUME NEW t \in Threads, SendedEnds(t) PROVE sendOv'[sess'[u]] = "idle" /\ sendFlag'[sess'[u]]
    BY <2>sended, <1>guard, <1>ctl, <1>ptr DEF SendedEnds, SendGuarded
  <2>20. ASSUME NEW t \in Threads, SentMore(t) PROVE sendOv'[sess'[u]] = "idle" /\ sendFlag'[sess'[u]]
    BY <2>20, <1>guard, <1>ctl, <1>ptr DEF SentMore, SendGuarded
  <2>21. ASSUME NEW t \in Threads, RecvLoop(t) PROVE sendOv'[sess'[u]] = "idle" /\ sendFlag'[sess'[u]]
    BY <2>21, <1>guard, <1>ctl, <1>ptr DEF RecvLoop, OnRecv, SendGuarded
  <2>22. ASSUME NEW t \in Threads, KickCancel(t) PROVE sendOv'[sess'[u]] = "idle" /\ sendFlag'[sess'[u]]
    BY <2>22, <1>guard, <1>ctl, <1>ptr, <1>ov DEF KickCancel, OnRecv, CancelIoEx,
       SendGuarded, RecvResults, SendResults
  <2>23. ASSUME NEW t \in Threads, HandlerRelease(t) PROVE sendOv'[sess'[u]] = "idle" /\ sendFlag'[sess'[u]]
    BY <2>23, <1>guard, <1>ctl, <1>ptr DEF HandlerRelease, SendGuarded
  <2>24. ASSUME NEW t \in Threads, FindIncrement(t) PROVE sendOv'[sess'[u]] = "idle" /\ sendFlag'[sess'[u]]
    BY <2>24, <1>guard, <1>ctl, <1>ptr DEF FindIncrement, SendGuarded
  <2>25. ASSUME NEW t \in Threads, FindCheckID(t) PROVE sendOv'[sess'[u]] = "idle" /\ sendFlag'[sess'[u]]
    BY <2>25, <1>guard, <1>ctl, <1>ptr DEF FindCheckID, SendGuarded
  <2>26. ASSUME NEW t \in Threads, SendReqPost(t) PROVE sendOv'[sess'[u]] = "idle" /\ sendFlag'[sess'[u]]
    BY <2>26, <1>guard, <1>ctl, <1>ptr DEF SendReqPost, SendGuarded
  <2>27. ASSUME NEW t \in Threads, DisconnectCancel(t) PROVE sendOv'[sess'[u]] = "idle" /\ sendFlag'[sess'[u]]
    BY <2>27, <1>guard, <1>ctl, <1>ptr, <1>ov DEF DisconnectCancel, CancelIoEx,
       SendGuarded, RecvResults, SendResults
  <2>28. ASSUME NEW t \in Threads, FinderRelease(t) PROVE sendOv'[sess'[u]] = "idle" /\ sendFlag'[sess'[u]]
    BY <2>28, <1>guard, <1>ctl, <1>ptr DEF FinderRelease, SendGuarded
  <2>29. ASSUME NEW t \in Threads, DeleteCAS(t) PROVE sendOv'[sess'[u]] = "idle" /\ sendFlag'[sess'[u]]
    BY <2>29, <1>guard, <1>ctl, <1>ptr DEF DeleteCAS, SendGuarded
  <2>30. ASSUME NEW t \in Threads, DeleteClear(t) PROVE sendOv'[sess'[u]] = "idle" /\ sendFlag'[sess'[u]]
    BY <2>30, <1>guard, <1>ctl, <1>ptr DEF DeleteClear, SendGuarded
  <2>31. ASSUME NEW t \in Threads, DeletePush(t) PROVE sendOv'[sess'[u]] = "idle" /\ sendFlag'[sess'[u]]
    BY <2>31, <1>guard, <1>ctl, <1>ptr DEF DeletePush, SendGuarded
  <2>32. ASSUME NEW t \in Threads, OnDisconnect(t) PROVE sendOv'[sess'[u]] = "idle" /\ sendFlag'[sess'[u]]
    BY <2>32, <1>guard, <1>ctl, <1>ptr DEF OnDisconnect, SendGuarded
  <2>33. ASSUME NEW t \in Threads, AcceptPop(t) PROVE sendOv'[sess'[u]] = "idle" /\ sendFlag'[sess'[u]]
    BY <2>33, <1>guard, <1>ctl, <1>ptr DEF AcceptPop, SendGuarded
  <2>34. ASSUME NEW t \in Threads, ContentSend(t) PROVE sendOv'[sess'[u]] = "idle" /\ sendFlag'[sess'[u]]
    BY <2>34, <1>guard, <1>ctl, <1>ptr DEF ContentSend, SendGuarded
  <2>35. ASSUME NEW t \in Threads, NEW r \in Slots, TakePost(t, r) PROVE sendOv'[sess'[u]] = "idle" /\ sendFlag'[sess'[u]]
    BY <2>35, <1>guard, <1>ctl, <1>ptr DEF TakePost, SendGuarded
  <2>36. ASSUME NEW t \in Threads, NEW r \in Slots, TakeSend(t, r) PROVE sendOv'[sess'[u]] = "idle" /\ sendFlag'[sess'[u]]
    BY <2>36, <1>guard, <1>ctl, <1>ptr, <1>ov, <1>flag DEF TakeSend, SendGuarded,
       RecvResults, SendResults, SendFlagged
  <2>37. ASSUME NEW t \in Threads, NEW r \in Slots, TakeRecv(t, r) PROVE sendOv'[sess'[u]] = "idle" /\ sendFlag'[sess'[u]]
    BY <2>37, <1>guard, <1>ctl, <1>ptr DEF TakeRecv, SendGuarded
  <2>38. ASSUME NEW r \in Slots, RecvComplete(r) PROVE sendOv'[sess'[u]] = "idle" /\ sendFlag'[sess'[u]]
    BY <2>38, <1>guard, <1>ctl, <1>ptr DEF RecvComplete, SendGuarded
  <2>39. ASSUME NEW r \in Slots, SendComplete(r) PROVE sendOv'[sess'[u]] = "idle" /\ sendFlag'[sess'[u]]
    BY <2>39, <1>guard, <1>ctl, <1>ptr, <1>ov DEF SendComplete, SendGuarded,
       RecvResults, SendResults
  <2> QED
    BY <1>1, <2>1, <2>2, <2>3, <2>4, <2>5, <2>6, <2>7, <2>8, <2>9, <2>10, <2>11, <2>12,
       <2>13, <2>14, <2>15, <2>16, <2>17, <2>18, <2>19, <2>20, <2>21, <2>22, <2>23,
       <2>24, <2>25, <2>26, <2>27, <2>28, <2>29, <2>30, <2>31, <2>32, <2>33, <2>34,
       <2>35, <2>36, <2>37, <2>38, <2>39, <2>sended DEF Next, Continue, Take
<1>2. CASE UNCHANGED vars BY <1>2, <1>guard DEF SendGuarded
<1> QED BY <1>1, <1>2

\* Every step keeps at most one thread per session in charge of its send.
LEMMA SendOnceStep == ASSUME IInv, TypeOK', ControlOK', [Next]_vars PROVE SendOnce'
<1> SUFFICES ASSUME NEW u \in Threads, NEW v \in Threads, u # v,
                    pc'[u] \in SendLabels, pc'[v] \in SendLabels
             PROVE  sess'[u] # sess'[v]
  BY DEF SendOnce
<1> USE DEF ControlAt, RecvHolds, RecvLabels, SendLabels, SessLabels, IOProcLabels, FoundLabels, InitStage, DelStage, OwnLabels, SubLabels, InitLabels
<1>ctl. \A t \in Threads : ControlAt(t) BY DEF IInv, ControlOK
<1>ptr. /\ pc \in [Threads -> Labels] /\ ret \in [Threads -> Labels]
      /\ sess \in [Threads -> Slots \union {NoSlot}]
      /\ found \in [Threads -> Slots \union {NoSlot}]
      /\ tgt \in [Threads -> Slots \union {NoSlot}]
      /\ want \in [Threads -> IDs]
  BY DEF IInv, TypeOK
<1>busy. \A r \in Slots : Busy(r) => ~released[r] BY DEF IInv, Live
<1>fresh. FreshUnknown BY DEF IInv
<1>own. \A t \in Threads : pc[t] \in InitLabels =>
          tgt[t] \in Slots /\ (~released[tgt[t]] => Fresh(tgt[t]))
  BY <1>ctl DEF Fresh
<1>guard. SendGuarded BY DEF IInv, Exclusive
<1>once. SendOnce BY DEF IInv, Exclusive
<1>1. CASE Next
  <2>1. ASSUME NEW t \in Threads, InitID(t) PROVE sess'[u] # sess'[v]
    BY <2>1, <1>once, <1>ctl, <1>ptr DEF InitID, SendOnce
  <2>2. ASSUME NEW t \in Threads, InitIncrement(t) PROVE sess'[u] # sess'[v]
    BY <2>2, <1>once, <1>ctl, <1>ptr DEF InitIncrement, SendOnce
  <2>3. ASSUME NEW t \in Threads, InitFlags(t) PROVE sess'[u] # sess'[v]
    BY <2>3, <1>once, <1>ctl, <1>ptr DEF InitFlags, SendOnce
  <2>4. ASSUME NEW t \in Threads, InitClear(t) PROVE sess'[u] # sess'[v]
    BY <2>4, <1>once, <1>ctl, <1>ptr DEF InitClear, SendOnce
  <2>5. ASSUME NEW t \in Threads, OnNewConnect(t) PROVE sess'[u] # sess'[v]
    BY <2>5, <1>once, <1>ctl, <1>ptr DEF OnNewConnect, SendOnce
  <2>6. ASSUME NEW t \in Threads, RecvIOCheck(t) PROVE sess'[u] # sess'[v]
    BY <2>6, <1>once, <1>ctl, <1>ptr DEF RecvIOCheck, SendOnce
  <2>7. ASSUME NEW t \in Threads, RecvIOPost(t) PROVE sess'[u] # sess'[v]
    BY <2>7, <1>once, <1>ctl, <1>ptr DEF RecvIOPost, SendOnce
  <2>8. ASSUME NEW t \in Threads, RecvIORecheck(t) PROVE sess'[u] # sess'[v]
    BY <2>8, <1>once, <1>ctl, <1>ptr DEF RecvIORecheck, CancelIoEx, SendOnce
  <2>9. ASSUME NEW t \in Threads, RecvIOCancel(t) PROVE sess'[u] # sess'[v]
    BY <2>9, <1>once, <1>ctl, <1>ptr DEF RecvIOCancel, CancelIoEx, SendOnce
  <2>10. ASSUME NEW t \in Threads, SendIOCheck(t) PROVE sess'[u] # sess'[v]
    BY <2>10, <1>once, <1>ctl, <1>ptr DEF SendIOCheck, SendOnce
  <2>11. ASSUME NEW t \in Threads, SendIOExchange(t) PROVE sess'[u] # sess'[v]
    BY <2>11, <1>once, <1>ctl, <1>ptr, <1>guard DEF SendIOExchange, SendOnce, SendGuarded
  <2>12. ASSUME NEW t \in Threads, SendIOSize(t) PROVE sess'[u] # sess'[v]
    BY <2>12, <1>once, <1>ctl, <1>ptr DEF SendIOSize, SendOnce
  <2>13. ASSUME NEW t \in Threads, SendIOPost(t) PROVE sess'[u] # sess'[v]
    BY <2>13, <1>once, <1>ctl, <1>ptr DEF SendIOPost, SendOnce
  <2>14. ASSUME NEW t \in Threads, SendIORecheck(t) PROVE sess'[u] # sess'[v]
    BY <2>14, <1>once, <1>ctl, <1>ptr DEF SendIORecheck, CancelIoEx, SendOnce
  <2>15. ASSUME NEW t \in Threads, SendIOCancel(t) PROVE sess'[u] # sess'[v]
    BY <2>15, <1>once, <1>ctl, <1>ptr DEF SendIOCancel, CancelIoEx, SendOnce
  <2>16. ASSUME NEW t \in Threads, ClearSendFlag(t) PROVE sess'[u] # sess'[v]
    BY <2>16, <1>once, <1>ctl, <1>ptr DEF ClearSendFlag, SendOnce
  <2>17. ASSUME NEW t \in Threads, CancelRegist(t) PROVE sess'[u] # sess'[v]
    BY <2>17, <1>once, <1>ctl, <1>ptr DEF CancelRegist, AfterRegist, SendOnce
  <2>18. ASSUME NEW t \in Threads, IORelease(t) PROVE sess'[u] # sess'[v]
    BY <2>18, <1>once, <1>ctl, <1>ptr DEF IORelease, SendOnce
  <2>19. ASSUME NEW t \in Threads, SentEarlyLoad(t) PROVE sess'[u] # sess'[v]
    BY <2>19, <1>once, <1>ctl, <1>ptr DEF SentEarlyLoad, SendOnce
  <2>sended. ASSUME NEW t \in Threads, SendedEnds(t) PROVE sess'[u] # sess'[v]
    BY <2>sended, <1>once, <1>ctl, <1>ptr DEF SendedEnds, SendOnce
  <2>20. ASSUME NEW t \in Threads, SentMore(t) PROVE sess'[u] # sess'[v]
    BY <2>20, <1>once, <1>ctl, <1>ptr DEF SentMore, SendOnce
  <2>21. ASSUME NEW t \in Threads, RecvLoop(t) PROVE sess'[u] # sess'[v]
    BY <2>21, <1>once, <1>ctl, <1>ptr DEF RecvLoop, OnRecv, SendOnce
  <2>22. ASSUME NEW t \in Threads, KickCancel(t) PROVE sess'[u] # sess'[v]
    BY <2>22, <1>once, <1>ctl, <1>ptr DEF KickCancel, OnRecv, CancelIoEx, SendOnce
  <2>23. ASSUME NEW t \in Threads, HandlerRelease(t) PROVE sess'[u] # sess'[v]
    BY <2>23, <1>once, <1>ctl, <1>ptr DEF HandlerRelease, SendOnce
  <2>24. ASSUME NEW t \in Threads, FindIncrement(t) PROVE sess'[u] # sess'[v]
    BY <2>24, <1>once, <1>ctl, <1>ptr DEF FindIncrement, SendOnce
  <2>25. ASSUME NEW t \in Threads, FindCheckID(t) PROVE sess'[u] # sess'[v]
    BY <2>25, <1>once, <1>ctl, <1>ptr DEF FindCheckID, SendOnce
  <2>26. ASSUME NEW t \in Threads, SendReqPost(t) PROVE sess'[u] # sess'[v]
    BY <2>26, <1>once, <1>ctl, <1>ptr DEF SendReqPost, SendOnce
  <2>27. ASSUME NEW t \in Threads, DisconnectCancel(t) PROVE sess'[u] # sess'[v]
    BY <2>27, <1>once, <1>ctl, <1>ptr DEF DisconnectCancel, CancelIoEx, SendOnce
  <2>28. ASSUME NEW t \in Threads, FinderRelease(t) PROVE sess'[u] # sess'[v]
    BY <2>28, <1>once, <1>ctl, <1>ptr DEF FinderRelease, SendOnce
  <2>29. ASSUME NEW t \in Threads, DeleteCAS(t) PROVE sess'[u] # sess'[v]
    BY <2>29, <1>once, <1>ctl, <1>ptr DEF DeleteCAS, SendOnce
  <2>30. ASSUME NEW t \in Threads, DeleteClear(t) PROVE sess'[u] # sess'[v]
    BY <2>30, <1>once, <1>ctl, <1>ptr DEF DeleteClear, SendOnce
  <2>31. ASSUME NEW t \in Threads, DeletePush(t) PROVE sess'[u] # sess'[v]
    BY <2>31, <1>once, <1>ctl, <1>ptr DEF DeletePush, SendOnce
  <2>32. ASSUME NEW t \in Threads, OnDisconnect(t) PROVE sess'[u] # sess'[v]
    BY <2>32, <1>once, <1>ctl, <1>ptr DEF OnDisconnect, SendOnce
  <2>33. ASSUME NEW t \in Threads, AcceptPop(t) PROVE sess'[u] # sess'[v]
    BY <2>33, <1>once, <1>ctl, <1>ptr DEF AcceptPop, SendOnce
  <2>34. ASSUME NEW t \in Threads, ContentSend(t) PROVE sess'[u] # sess'[v]
    BY <2>34, <1>once, <1>ctl, <1>ptr DEF ContentSend, SendOnce
  <2>35. ASSUME NEW t \in Threads, NEW r \in Slots, TakePost(t, r) PROVE sess'[u] # sess'[v]
    BY <2>35, <1>once, <1>ctl, <1>ptr DEF TakePost, SendOnce
  <2>36. ASSUME NEW t \in Threads, NEW r \in Slots, TakeSend(t, r) PROVE sess'[u] # sess'[v]
    BY <2>36, <1>once, <1>ctl, <1>ptr, <1>guard DEF TakeSend, SendOnce, SendGuarded,
       SendResults
  <2>37. ASSUME NEW t \in Threads, NEW r \in Slots, TakeRecv(t, r) PROVE sess'[u] # sess'[v]
    BY <2>37, <1>once, <1>ctl, <1>ptr DEF TakeRecv, SendOnce
  <2>38. ASSUME NEW r \in Slots, RecvComplete(r) PROVE sess'[u] # sess'[v]
    BY <2>38, <1>once, <1>ctl, <1>ptr DEF RecvComplete, SendOnce
  <2>39. ASSUME NEW r \in Slots, SendComplete(r) PROVE sess'[u] # sess'[v]
    BY <2>39, <1>once, <1>ctl, <1>ptr DEF SendComplete, SendOnce
  <2> QED
    BY <1>1, <2>1, <2>2, <2>3, <2>4, <2>5, <2>6, <2>7, <2>8, <2>9, <2>10, <2>11, <2>12,
       <2>13, <2>14, <2>15, <2>16, <2>17, <2>18, <2>19, <2>20, <2>21, <2>22, <2>23,
       <2>24, <2>25, <2>26, <2>27, <2>28, <2>29, <2>30, <2>31, <2>32, <2>33, <2>34,
       <2>35, <2>36, <2>37, <2>38, <2>39, <2>sended DEF Next, Continue, Take
<1>2. CASE UNCHANGED vars BY <1>2, <1>once DEF SendOnce
<1> QED BY <1>1, <1>2

\* Every step keeps sendFlag set while a send is in the kernel.
LEMMA SendFlaggedStep == ASSUME IInv, TypeOK', ControlOK', [Next]_vars PROVE SendFlagged'
<1> SUFFICES ASSUME NEW s \in Slots, sendOv'[s] # "idle" PROVE sendFlag'[s]
  BY DEF SendFlagged
<1> USE DEF ControlAt, RecvHolds, RecvLabels, SendLabels, SessLabels, IOProcLabels, FoundLabels, InitStage, DelStage, OwnLabels, SubLabels, InitLabels
<1>ctl. \A t \in Threads : ControlAt(t) BY DEF IInv, ControlOK
<1>ptr. /\ pc \in [Threads -> Labels] /\ ret \in [Threads -> Labels]
      /\ sess \in [Threads -> Slots \union {NoSlot}]
      /\ found \in [Threads -> Slots \union {NoSlot}]
      /\ tgt \in [Threads -> Slots \union {NoSlot}]
      /\ want \in [Threads -> IDs]
  BY DEF IInv, TypeOK
<1>ov. /\ recvOv \in [Slots -> {"idle", "pending"} \union RecvResults]
     /\ sendOv \in [Slots -> {"idle", "pending"} \union SendResults]
     /\ posts \in [Slots -> Nat] /\ sendFlag \in [Slots -> BOOLEAN]
  BY DEF IInv, TypeOK
<1>live. \A t \in Threads : LiveAt(t) BY DEF IInv, Live
<1>busy. \A r \in Slots : Busy(r) => ~released[r] BY DEF IInv, Live
<1>fresh. FreshUnknown BY DEF IInv
<1>own. \A t \in Threads : pc[t] \in InitLabels =>
          tgt[t] \in Slots /\ (~released[tgt[t]] => Fresh(tgt[t]))
  BY <1>ctl DEF Fresh
<1>none. \A t \in Threads : pc[t] \in InitLabels =>
           /\ ~Busy(tgt[t])
           /\ \A w \in Threads : sess[w] = tgt[t] => pc[w] \in InitLabels
  BY <1>own, <1>ctl, <1>live, <1>busy, <1>fresh DEF FreshUnknown, LiveAt
<1>guard. SendGuarded BY DEF IInv, Exclusive
<1>flag. SendFlagged BY DEF IInv, Exclusive
<1>1. CASE Next
  <2>1. ASSUME NEW t \in Threads, InitID(t) PROVE sendFlag'[s]
    BY <2>1, <1>flag, <1>ov DEF InitID, SendFlagged, RecvResults, SendResults
  <2>2. ASSUME NEW t \in Threads, InitIncrement(t) PROVE sendFlag'[s]
    BY <2>2, <1>flag, <1>ov DEF InitIncrement, SendFlagged, RecvResults, SendResults
  <2>3. ASSUME NEW t \in Threads, InitFlags(t) PROVE sendFlag'[s]
    BY <2>3, <1>flag, <1>ov, <1>ctl, <1>ptr, <1>none DEF InitFlags, SendFlagged,
       RecvResults, SendResults, Busy
  <2>4. ASSUME NEW t \in Threads, InitClear(t) PROVE sendFlag'[s]
    BY <2>4, <1>flag, <1>ov DEF InitClear, SendFlagged, RecvResults, SendResults
  <2>5. ASSUME NEW t \in Threads, OnNewConnect(t) PROVE sendFlag'[s]
    BY <2>5, <1>flag, <1>ov DEF OnNewConnect, SendFlagged, RecvResults, SendResults
  <2>6. ASSUME NEW t \in Threads, RecvIOCheck(t) PROVE sendFlag'[s]
    BY <2>6, <1>flag, <1>ov DEF RecvIOCheck, SendFlagged, RecvResults, SendResults
  <2>7. ASSUME NEW t \in Threads, RecvIOPost(t) PROVE sendFlag'[s]
    BY <2>7, <1>flag, <1>ov DEF RecvIOPost, SendFlagged, RecvResults, SendResults
  <2>8. ASSUME NEW t \in Threads, RecvIORecheck(t) PROVE sendFlag'[s]
    BY <2>8, <1>flag, <1>ov DEF RecvIORecheck, CancelIoEx, SendFlagged, RecvResults,
       SendResults
  <2>9. ASSUME NEW t \in Threads, RecvIOCancel(t) PROVE sendFlag'[s]
    BY <2>9, <1>flag, <1>ov DEF RecvIOCancel, CancelIoEx, SendFlagged, RecvResults,
       SendResults
  <2>10. ASSUME NEW t \in Threads, SendIOCheck(t) PROVE sendFlag'[s]
    BY <2>10, <1>flag, <1>ov DEF SendIOCheck, SendFlagged, RecvResults, SendResults
  <2>11. ASSUME NEW t \in Threads, SendIOExchange(t) PROVE sendFlag'[s]
    BY <2>11, <1>flag, <1>ov, <1>ctl, <1>ptr, <1>guard DEF SendIOExchange, SendFlagged,
       RecvResults, SendResults, SendGuarded
  <2>12. ASSUME NEW t \in Threads, SendIOSize(t) PROVE sendFlag'[s]
    BY <2>12, <1>flag, <1>ov DEF SendIOSize, SendFlagged, RecvResults, SendResults
  <2>13. ASSUME NEW t \in Threads, SendIOPost(t) PROVE sendFlag'[s]
    BY <2>13, <1>flag, <1>ov, <1>ctl, <1>ptr, <1>guard DEF SendIOPost, SendFlagged,
       RecvResults, SendResults, SendGuarded
  <2>14. ASSUME NEW t \in Threads, SendIORecheck(t) PROVE sendFlag'[s]
    BY <2>14, <1>flag, <1>ov DEF SendIORecheck, CancelIoEx, SendFlagged, RecvResults,
       SendResults
  <2>15. ASSUME NEW t \in Threads, SendIOCancel(t) PROVE sendFlag'[s]
    BY <2>15, <1>flag, <1>ov DEF SendIOCancel, CancelIoEx, SendFlagged, RecvResults,
       SendResults
  <2>16. ASSUME NEW t \in Threads, ClearSendFlag(t) PROVE sendFlag'[s]
    BY <2>16, <1>flag, <1>ov, <1>ctl, <1>ptr, <1>guard DEF ClearSendFlag, SendFlagged,
       RecvResults, SendResults, SendGuarded
  <2>17. ASSUME NEW t \in Threads, CancelRegist(t) PROVE sendFlag'[s]
    BY <2>17, <1>flag, <1>ov DEF CancelRegist, AfterRegist, SendFlagged, RecvResults,
       SendResults
  <2>18. ASSUME NEW t \in Threads, IORelease(t) PROVE sendFlag'[s]
    BY <2>18, <1>flag, <1>ov DEF IORelease, SendFlagged, RecvResults, SendResults
  <2>19. ASSUME NEW t \in Threads, SentEarlyLoad(t) PROVE sendFlag'[s]
    BY <2>19, <1>flag, <1>ov DEF SentEarlyLoad, SendFlagged, RecvResults, SendResults
  <2>sended. ASSUME NEW t \in Threads, SendedEnds(t) PROVE sendFlag'[s]
    BY <2>sended, <1>flag, <1>ov DEF SendedEnds, SendFlagged, RecvResults, SendResults
  <2>20. ASSUME NEW t \in Threads, SentMore(t) PROVE sendFlag'[s]
    BY <2>20, <1>flag, <1>ov DEF SentMore, SendFlagged, RecvResults, SendResults
  <2>21. ASSUME NEW t \in Threads, RecvLoop(t) PROVE sendFlag'[s]
    BY <2>21, <1>flag, <1>ov DEF RecvLoop, OnRecv, SendFlagged, RecvResults, SendResults
  <2>22. ASSUME NEW t \in Threads, KickCancel(t) PROVE sendFlag'[s]
    BY <2>22, <1>flag, <1>ov DEF KickCancel, OnRecv, CancelIoEx, SendFlagged,
       RecvResults, SendResults
  <2>23. ASSUME NEW t \in Threads, HandlerRelease(t) PROVE sendFlag'[s]
    BY <2>23, <1>flag, <1>ov DEF HandlerRelease, SendFlagged, RecvResults, SendResults
  <2>24. ASSUME NEW t \in Threads, FindIncrement(t) PROVE sendFlag'[s]
    BY <2>24, <1>flag, <1>ov DEF FindIncrement, SendFlagged, RecvResults, SendResults
  <2>25. ASSUME NEW t \in Threads, FindCheckID(t) PROVE sendFlag'[s]
    BY <2>25, <1>flag, <1>ov DEF FindCheckID, SendFlagged, RecvResults, SendResults
  <2>26. ASSUME NEW t \in Threads, SendReqPost(t) PROVE sendFlag'[s]
    BY <2>26, <1>flag, <1>ov DEF SendReqPost, SendFlagged, RecvResults, SendResults
  <2>27. ASSUME NEW t \in Threads, DisconnectCancel(t) PROVE sendFlag'[s]
    BY <2>27, <1>flag, <1>ov DEF DisconnectCancel, CancelIoEx, SendFlagged, RecvResults,
       SendResults
  <2>28. ASSUME NEW t \in Threads, FinderRelease(t) PROVE sendFlag'[s]
    BY <2>28, <1>flag, <1>ov DEF FinderRelease, SendFlagged, RecvResults, SendResults
  <2>29. ASSUME NEW t \in Threads, DeleteCAS(t) PROVE sendFlag'[s]
    BY <2>29, <1>flag, <1>ov DEF DeleteCAS, SendFlagged, RecvResults, SendResults
  <2>30. ASSUME NEW t \in Threads, DeleteClear(t) PROVE sendFlag'[s]
    BY <2>30, <1>flag, <1>ov DEF DeleteClear, SendFlagged, RecvResults, SendResults
  <2>31. ASSUME NEW t \in Threads, DeletePush(t) PROVE sendFlag'[s]
    BY <2>31, <1>flag, <1>ov DEF DeletePush, SendFlagged, RecvResults, SendResults
  <2>32. ASSUME NEW t \in Threads, OnDisconnect(t) PROVE sendFlag'[s]
    BY <2>32, <1>flag, <1>ov DEF OnDisconnect, SendFlagged, RecvResults, SendResults
  <2>33. ASSUME NEW t \in Threads, AcceptPop(t) PROVE sendFlag'[s]
    BY <2>33, <1>flag, <1>ov DEF AcceptPop, SendFlagged, RecvResults, SendResults
  <2>34. ASSUME NEW t \in Threads, ContentSend(t) PROVE sendFlag'[s]
    BY <2>34, <1>flag, <1>ov DEF ContentSend, SendFlagged, RecvResults, SendResults
  <2>35. ASSUME NEW t \in Threads, NEW r \in Slots, TakePost(t, r) PROVE sendFlag'[s]
    BY <2>35, <1>flag, <1>ov DEF TakePost, SendFlagged, RecvResults, SendResults
  <2>36. ASSUME NEW t \in Threads, NEW r \in Slots, TakeSend(t, r) PROVE sendFlag'[s]
    BY <2>36, <1>flag, <1>ov DEF TakeSend, SendFlagged, RecvResults, SendResults
  <2>37. ASSUME NEW t \in Threads, NEW r \in Slots, TakeRecv(t, r) PROVE sendFlag'[s]
    BY <2>37, <1>flag, <1>ov DEF TakeRecv, SendFlagged, RecvResults, SendResults
  <2>38. ASSUME NEW r \in Slots, RecvComplete(r) PROVE sendFlag'[s]
    BY <2>38, <1>flag, <1>ov DEF RecvComplete, SendFlagged, RecvResults, SendResults
  <2>39. ASSUME NEW r \in Slots, SendComplete(r) PROVE sendFlag'[s]
    BY <2>39, <1>flag, <1>ov DEF SendComplete, SendFlagged, RecvResults, SendResults
  <2> QED
    BY <1>1, <2>1, <2>2, <2>3, <2>4, <2>5, <2>6, <2>7, <2>8, <2>9, <2>10, <2>11, <2>12,
       <2>13, <2>14, <2>15, <2>16, <2>17, <2>18, <2>19, <2>20, <2>21, <2>22, <2>23,
       <2>24, <2>25, <2>26, <2>27, <2>28, <2>29, <2>30, <2>31, <2>32, <2>33, <2>34,
       <2>35, <2>36, <2>37, <2>38, <2>39, <2>sended DEF Next, Continue, Take
<1>2. CASE UNCHANGED vars BY <1>2, <1>flag DEF SendFlagged
<1> QED BY <1>1, <1>2

\* The invariant holds when the server starts.
LEMMA InitInv == Init => IInv
<1> SUFFICES ASSUME Init PROVE IInv OBVIOUS
<1> USE DEF Init
<1>0. NoSlot \notin Slots BY ThreadsAssumption
<1>1. TypeOK
  <2>1. indexStack \in Seq(Slots)
    <3>1. \A i \in 1 .. maxSession : maxSession - i \in Slots BY SizesAssumption DEF Slots
    <3> QED BY <3>1, SizesAssumption
  <2>2. <<0, 0>> \in IDs BY SizesAssumption DEF IDs, Slots
  <2> QED BY <2>1, <2>2 DEF TypeOK, Labels
<1>2. ControlOK
  BY <1>0 DEF ControlOK, ControlAt, SessLabels, IOProcLabels, FoundLabels, InitStage,
     DelStage,
              OwnLabels, SubLabels, InitLabels
<1>3. RefCountExact
  <2> SUFFICES ASSUME NEW s \in Slots PROVE References(s) = 0 BY DEF RefCountExact
  <2>1. Handlers(s) = {} /\ Finders(s) = {} /\ Starters(s) = {}
    BY <1>0 DEF Handlers, Finders, Starters
  <2>2. Cardinality({}) = 0 BY FS_EmptySet
  <2>3. InFlight(recvOv, s) = 0 /\ InFlight(sendOv, s) = 0 /\ posts[s] = 0 BY DEF InFlight
  <2> QED BY <2>1, <2>2, <2>3 DEF References
<1>4. Live BY DEF Live, LiveAt, Busy
<1>5. Owned
  <2>1. StackDistinct
    <3>1. Len(indexStack) = maxSession BY SizesAssumption
    <3> QED BY <3>1, SizesAssumption DEF StackDistinct
  <2> QED
    BY <2>1 DEF Owned, OwnerOffStack, OwnersDiffer, DeletesReleased, OwnLabels,
       InitStage, DelStage
<1>6. FreshUnknown BY <1>0 DEF FreshUnknown, Busy
<1>7. Told BY <1>0 DEF Told, ToldAt, Busy, InitStage
<1>8. Exclusive
  BY DEF Exclusive, RecvIdle, RecvOnce, SendGuarded, SendOnce, SendFlagged, RecvHolds,
         RecvLabels, SendLabels, SubLabels, FoundLabels, DelStage
<1> QED BY <1>1, <1>2, <1>3, <1>4, <1>5, <1>6, <1>7, <1>8 DEF IInv

\* Every step keeps the invariant.
LEMMA StepInv == ASSUME IInv, [Next]_vars PROVE IInv'
<1>1. TypeOK' BY TypeStep DEF IInv
<1>2. ControlOK' BY ControlStep DEF IInv
<1>3. RefCountExact' BY <1>1, RefCountStep DEF IInv
<1>4. Live' BY <1>1, <1>2, LiveThreadStep, LiveSlotStep DEF Live
<1>5. Owned'
  BY <1>1, <1>2, StackDistinctStep, OwnerOffStackStep, OwnersDifferStep, DeletesReleasedStep
  DEF Owned
<1>6. FreshUnknown' BY <1>1, <1>2, FreshUnknownStep
<1>7. Told' BY <1>1, <1>2, ToldThreadStep, ToldSlotStep DEF Told
<1>8. Exclusive'
  BY <1>1, <1>2, RecvIdleStep, RecvOnceStep, SendGuardedStep, SendOnceStep, SendFlaggedStep
  DEF Exclusive
<1> QED BY <1>1, <1>2, <1>3, <1>4, <1>5, <1>6, <1>7, <1>8 DEF IInv

\* The inductive invariant holds throughout every behaviour.
THEOREM Invariance == Spec => []IInv
BY InitInv, StepInv, PTL DEF Spec

\* The state has its types, for any number of slots, workers and senders.
THEOREM TypeCorrect == Spec => []TypeOK
<1>1. IInv => TypeOK BY DEF IInv
<1> QED BY <1>1, Invariance, PTL

\* IOcount counts exactly the references to the session and the leaked ones
\* (decrementIO and its callers in network.cpp, session.cpp), for any number
\* of slots, workers and senders.
THEOREM ReferencesAreCounted == Spec => []RefCountExact
<1>1. IInv => RefCountExact BY DEF IInv
<1> QED BY <1>1, Invariance, PTL

\* No thread works on a released session, whatever the interleaving of
\* lookups, completions, disconnects and reuse (network.cpp:416, :472).
THEOREM HeldIsLive == Spec => []HeldSessionIsLive
<1>1. IInv => HeldSessionIsLive
  BY DEF IInv, Live, LiveAt, Busy, HeldSessionIsLive
<1> QED BY <1>1, Invariance, PTL

\* A set whose elements are all equal has at most one.
LEMMA AtMostOne ==
  ASSUME NEW S, \A x, y \in S : x = y
  PROVE  Cardinality(S) \in Nat /\ Cardinality(S) <= 1 /\ (S = {} => Cardinality(S) = 0)
<1>1. CASE S = {} BY <1>1, FS_EmptySet
<1>2. CASE S # {}
  <2>1. PICK x \in S : TRUE BY <1>2
  <2>2. S = {x} BY <2>1
  <2> QED BY <1>2, <2>2, FS_Singleton
<1> QED BY <1>1, <1>2

\* A session has one receive and one send in progress at most
\* (session.cpp:61, :225).
THEOREM OneAtATime == Spec => []OneOperationAtATime
<1>1. IInv => OneOperationAtATime
  <2> SUFFICES ASSUME IInv, NEW s \in Slots
               PROVE  /\ Cardinality({t \in Handlers(s) : pc[t] \in RecvLabels})
                            + InFlight(recvOv, s) <= 1
                      /\ Cardinality({t \in Handlers(s) : pc[t] \in SendLabels})
                            + InFlight(sendOv, s) <= 1
    BY DEF OneOperationAtATime
  <2> DEFINE R == {t \in Handlers(s) : pc[t] \in RecvLabels}
             S == {t \in Handlers(s) : pc[t] \in SendLabels}
  <2>1. \A t, u \in R : t = u
    BY DEF IInv, Exclusive, RecvOnce, RecvHolds, Handlers
  <2>2. \A t, u \in S : t = u
    BY DEF IInv, Exclusive, SendOnce, Handlers
  <2>3. R # {} => InFlight(recvOv, s) = 0
    BY DEF IInv, Exclusive, RecvIdle, RecvHolds, Handlers, InFlight
  <2>4. S # {} => InFlight(sendOv, s) = 0
    BY DEF IInv, Exclusive, SendGuarded, Handlers, InFlight
  <2>5. InFlight(recvOv, s) \in {0, 1} /\ InFlight(sendOv, s) \in {0, 1} BY DEF InFlight
  <2>6. Cardinality(R) \in Nat /\ Cardinality(R) <= 1 /\ (R = {} => Cardinality(R) = 0)
    BY <2>1, AtMostOne
  <2>7. Cardinality(S) \in Nat /\ Cardinality(S) <= 1 /\ (S = {} => Cardinality(S) = 0)
    BY <2>2, AtMostOne
  <2> HIDE DEF R, S
  <2>8. Cardinality(R) + InFlight(recvOv, s) <= 1
    <3>1. CASE R = {} BY <2>5, <2>6, <3>1
    <3>2. CASE R # {} BY <2>3, <2>6, <3>2
    <3> QED BY <3>1, <3>2
  <2>9. Cardinality(S) + InFlight(sendOv, s) <= 1
    <3>1. CASE S = {} BY <2>5, <2>7, <3>1
    <3>2. CASE S # {} BY <2>4, <2>7, <3>2
    <3> QED BY <3>1, <3>2
  <2> QED BY <2>8, <2>9 DEF R, S
<1> QED BY <1>1, Invariance, PTL
-----------------------------------------------------------------------------
(***************************************************************************)
(* What follows from the invariant: a slot is in one place, the content is *)
(* told of each session once and in order, and nothing of a session is     *)
(* left when its slot is used again.                                       *)
(***************************************************************************)

Emptied(s) == sendBuffer[s] = 0 /\ ~leftover[s]

\* A free slot has no packets queued or left: deleteSession clears both buffers before
\* it pushes the slot, and nothing is queued on a slot that is free.
FreeEmpty == /\ \A s \in Slots : InStack(s) => Emptied(s)
             /\ \A t \in Threads : pc[t] = "del_push" => Emptied(tgt[t])

\* A slot that was never used has lost no reference.
FreshExact == \A s \in Slots : Fresh(s) => leaked[s] = 0

FreeInv == FreeEmpty /\ FreshExact

-----------------------------------------------------------------------------

\* Nothing is in flight for a free slot: it is released, or was never used.
LEMMA FreeIsIdle == ASSUME IInv, NEW s \in Slots, InStack(s) PROVE ~Busy(s)
<1>1. CASE released[s] BY <1>1 DEF IInv, Live
<1>2. CASE ~released[s]
  <2>1. Fresh(s) BY <1>2 DEF Fresh
  <2> QED BY <2>1 DEF IInv, FreshUnknown
<1> QED BY <1>1, <1>2

\* No handler holds a slot that is released or was never used, but the one that
\* begins a session with it.
LEMMA FreeNotHeld ==
  ASSUME IInv, NEW s \in Slots, released[s] \/ Fresh(s), NEW t \in Threads, sess[t] = s
  PROVE  pc[t] \in InitLabels
<1>1. s # NoSlot BY ThreadsAssumption
<1> QED BY <1>1 DEF IInv, Live, LiveAt, FreshUnknown

\* Every step leaves the slots in indexStack without packets.
LEMMA StackEmptyStep ==
  ASSUME IInv, TypeOK', FreeEmpty, [Next]_vars
  PROVE  \A s \in Slots : InStack(s)' => Emptied(s)'
<1> SUFFICES ASSUME NEW s \in Slots, InStack(s)' PROVE Emptied(s)'
  OBVIOUS
<1> USE DEF ControlAt, SessLabels, IOProcLabels, FoundLabels, InitStage, DelStage, OwnLabels, SubLabels, InitLabels
<1> USE DEF Emptied
<1>ctl. \A t \in Threads : ControlAt(t) BY DEF IInv, ControlOK
<1>ptr. /\ pc \in [Threads -> Labels] /\ ret \in [Threads -> Labels]
      /\ sess \in [Threads -> Slots \union {NoSlot}]
      /\ tgt \in [Threads -> Slots \union {NoSlot}]
      /\ sendBuffer \in [Slots -> Nat] /\ posts \in [Slots -> Nat]
      /\ leftover \in [Slots -> BOOLEAN]
  BY DEF IInv, TypeOK
<1>free. InStack(s) => Emptied(s) BY DEF FreeEmpty
<1>idle. InStack(s) => posts[s] = 0 /\ sendOv[s] = "idle" BY <1>ptr, FreeIsIdle DEF Busy
<1>held. \A t \in Threads : InStack(s) /\ sess[t] = s => pc[t] \in InitLabels
  BY FreeNotHeld DEF Fresh
<1>1. CASE Next
  <2>1. ASSUME NEW t \in Threads, InitID(t) PROVE Emptied(s)'
    BY <2>1, <1>free DEF InitID, InStack
  <2>2. ASSUME NEW t \in Threads, InitIncrement(t) PROVE Emptied(s)'
    BY <2>2, <1>free DEF InitIncrement, InStack
  <2>3. ASSUME NEW t \in Threads, InitFlags(t) PROVE Emptied(s)'
    BY <2>3, <1>free DEF InitFlags, InStack
  <2>4. ASSUME NEW t \in Threads, InitClear(t) PROVE Emptied(s)'
    BY <2>4, <1>free DEF InitClear, InStack
  <2>5. ASSUME NEW t \in Threads, OnNewConnect(t) PROVE Emptied(s)'
    BY <2>5, <1>free DEF OnNewConnect, InStack
  <2>6. ASSUME NEW t \in Threads, RecvIOCheck(t) PROVE Emptied(s)'
    BY <2>6, <1>free DEF RecvIOCheck, InStack
  <2>7. ASSUME NEW t \in Threads, RecvIOPost(t) PROVE Emptied(s)'
    BY <2>7, <1>free DEF RecvIOPost, InStack
  <2>8. ASSUME NEW t \in Threads, RecvIORecheck(t) PROVE Emptied(s)'
    BY <2>8, <1>free DEF RecvIORecheck, InStack
  <2>9. ASSUME NEW t \in Threads, RecvIOCancel(t) PROVE Emptied(s)'
    BY <2>9, <1>free DEF RecvIOCancel, InStack
  <2>10. ASSUME NEW t \in Threads, SendIOCheck(t) PROVE Emptied(s)'
    BY <2>10, <1>free DEF SendIOCheck, InStack
  <2>11. ASSUME NEW t \in Threads, SendIOExchange(t) PROVE Emptied(s)'
    BY <2>11, <1>free DEF SendIOExchange, InStack
  <2>12. ASSUME NEW t \in Threads, SendIOSize(t) PROVE Emptied(s)'
    BY <2>12, <1>free DEF SendIOSize, InStack
  <2>13. ASSUME NEW t \in Threads, SendIOPost(t) PROVE Emptied(s)'
    BY <2>13, <1>free, <1>held, <1>ptr DEF SendIOPost, InStack
  <2>14. ASSUME NEW t \in Threads, SendIORecheck(t) PROVE Emptied(s)'
    BY <2>14, <1>free DEF SendIORecheck, InStack
  <2>15. ASSUME NEW t \in Threads, SendIOCancel(t) PROVE Emptied(s)'
    BY <2>15, <1>free DEF SendIOCancel, InStack
  <2>16. ASSUME NEW t \in Threads, ClearSendFlag(t) PROVE Emptied(s)'
    BY <2>16, <1>free DEF ClearSendFlag, InStack
  <2>17. ASSUME NEW t \in Threads, CancelRegist(t) PROVE Emptied(s)'
    BY <2>17, <1>free DEF CancelRegist, InStack
  <2>18. ASSUME NEW t \in Threads, IORelease(t) PROVE Emptied(s)'
    BY <2>18, <1>free DEF IORelease, InStack
  <2>19. ASSUME NEW t \in Threads, SentEarlyLoad(t) PROVE Emptied(s)'
    BY <2>19, <1>free DEF SentEarlyLoad, InStack
  <2>sended. ASSUME NEW t \in Threads, SendedEnds(t) PROVE Emptied(s)'
    BY <2>sended, <1>free, <1>held, <1>ptr DEF SendedEnds, InStack
  <2>20. ASSUME NEW t \in Threads, SentMore(t) PROVE Emptied(s)'
    BY <2>20, <1>free DEF SentMore, InStack
  <2>21. ASSUME NEW t \in Threads, RecvLoop(t) PROVE Emptied(s)'
    BY <2>21, <1>free DEF RecvLoop, InStack
  <2>22. ASSUME NEW t \in Threads, KickCancel(t) PROVE Emptied(s)'
    BY <2>22, <1>free DEF KickCancel, InStack
  <2>23. ASSUME NEW t \in Threads, HandlerRelease(t) PROVE Emptied(s)'
    BY <2>23, <1>free DEF HandlerRelease, InStack
  <2>24. ASSUME NEW t \in Threads, FindIncrement(t) PROVE Emptied(s)'
    BY <2>24, <1>free DEF FindIncrement, InStack
  <2>25. ASSUME NEW t \in Threads, FindCheckID(t) PROVE Emptied(s)'
    BY <2>25, <1>free DEF FindCheckID, InStack
  <2>26. ASSUME NEW t \in Threads, SendReqPost(t) PROVE Emptied(s)'
    BY <2>26, <1>free DEF SendReqPost, InStack
  <2>27. ASSUME NEW t \in Threads, DisconnectCancel(t) PROVE Emptied(s)'
    BY <2>27, <1>free DEF DisconnectCancel, InStack
  <2>28. ASSUME NEW t \in Threads, FinderRelease(t) PROVE Emptied(s)'
    BY <2>28, <1>free DEF FinderRelease, InStack
  <2>29. ASSUME NEW t \in Threads, DeleteCAS(t) PROVE Emptied(s)'
    BY <2>29, <1>free DEF DeleteCAS, InStack
  <2>30. ASSUME NEW t \in Threads, DeleteClear(t) PROVE Emptied(s)'
    BY <2>30, <1>free, <1>ptr DEF DeleteClear, InStack
  <2>31. ASSUME NEW t \in Threads, DeletePush(t) PROVE Emptied(s)'
    <3>1. tgt[t] \in Slots /\ ~InStack(tgt[t])
      BY <2>31, <1>ctl DEF DeletePush, IInv, Owned, OwnerOffStack
    <3>2. InStack(s) \/ s = tgt[t] BY <2>31, <3>1, PushStack DEF IInv, TypeOK, Owned
    <3> QED BY <2>31, <3>2, <1>free DEF DeletePush, FreeEmpty
  <2>32. ASSUME NEW t \in Threads, OnDisconnect(t) PROVE Emptied(s)'
    BY <2>32, <1>free DEF OnDisconnect, InStack
  <2>33. ASSUME NEW t \in Threads, AcceptPop(t) PROVE Emptied(s)'
    BY <2>33, <1>free, PopStack DEF AcceptPop, IInv, TypeOK, Owned
  <2>34. ASSUME NEW t \in Threads, ContentSend(t) PROVE Emptied(s)'
    BY <2>34, <1>free DEF ContentSend, InStack
  <2>35. ASSUME NEW t \in Threads, NEW r \in Slots, TakePost(t, r) PROVE Emptied(s)'
    BY <2>35, <1>free, <1>idle, <1>ptr DEF TakePost, InStack
  <2>36. ASSUME NEW t \in Threads, NEW r \in Slots, TakeSend(t, r) PROVE Emptied(s)'
    BY <2>36, <1>free, <1>idle, <1>ptr DEF TakeSend, SendResults, InStack
  <2>37. ASSUME NEW t \in Threads, NEW r \in Slots, TakeRecv(t, r) PROVE Emptied(s)'
    BY <2>37, <1>free DEF TakeRecv, InStack
  <2>38. ASSUME NEW r \in Slots, RecvComplete(r) PROVE Emptied(s)'
    BY <2>38, <1>free DEF RecvComplete, InStack
  <2>39. ASSUME NEW r \in Slots, SendComplete(r) PROVE Emptied(s)'
    BY <2>39, <1>free DEF SendComplete, InStack
  <2> QED
    BY <1>1, <2>1, <2>2, <2>3, <2>4, <2>5, <2>6, <2>7, <2>8, <2>9, <2>10, <2>11, <2>12,
       <2>13, <2>14, <2>15, <2>16, <2>17, <2>18, <2>19, <2>20, <2>21, <2>22, <2>23,
       <2>24, <2>25, <2>26, <2>27, <2>28, <2>29, <2>30, <2>31, <2>32, <2>33, <2>34,
       <2>35, <2>36, <2>37, <2>38, <2>39, <2>sended DEF Next, Continue, Take
<1>2. CASE UNCHANGED vars BY <1>2, <1>free DEF InStack
<1> QED BY <1>1, <1>2

\* Every step leaves a slot about to be pushed without packets.
LEMMA PushEmptyStep ==
  ASSUME IInv, TypeOK', FreeEmpty, [Next]_vars
  PROVE  \A u \in Threads : pc'[u] = "del_push" => Emptied(tgt[u])'
<1> SUFFICES ASSUME NEW u \in Threads, pc'[u] = "del_push" PROVE Emptied(tgt[u])'
  OBVIOUS
<1> USE DEF ControlAt, SessLabels, IOProcLabels, FoundLabels, InitStage, DelStage, OwnLabels, SubLabels, InitLabels
<1> USE DEF Emptied
<1>ctl. \A t \in Threads : ControlAt(t) BY DEF IInv, ControlOK
<1>ptr. /\ pc \in [Threads -> Labels] /\ ret \in [Threads -> Labels]
      /\ sess \in [Threads -> Slots \union {NoSlot}]
      /\ tgt \in [Threads -> Slots \union {NoSlot}]
      /\ sendBuffer \in [Slots -> Nat] /\ posts \in [Slots -> Nat]
      /\ leftover \in [Slots -> BOOLEAN]
  BY DEF IInv, TypeOK
<1>free. pc[u] = "del_push" => Emptied(tgt[u]) BY DEF FreeEmpty
<1>held. \A t \in Threads :
           pc[u] = "del_push" /\ tgt[u] \in Slots /\ sess[t] = tgt[u] => pc[t] \in InitLabels
  BY FreeNotHeld DEF IInv, Owned, DeletesReleased
<1>idle. pc[u] = "del_push" => tgt[u] \in Slots /\ posts[tgt[u]] = 0 /\ sendOv[tgt[u]] = "idle"
  BY <1>ctl, <1>ptr DEF IInv, Live, Busy, Owned, DeletesReleased
<1>1. CASE Next
  <2>1. ASSUME NEW t \in Threads, InitID(t) PROVE Emptied(tgt[u])'
    BY <2>1, <1>free, <1>ctl, <1>ptr DEF InitID
  <2>2. ASSUME NEW t \in Threads, InitIncrement(t) PROVE Emptied(tgt[u])'
    BY <2>2, <1>free, <1>ctl, <1>ptr DEF InitIncrement
  <2>3. ASSUME NEW t \in Threads, InitFlags(t) PROVE Emptied(tgt[u])'
    BY <2>3, <1>free, <1>ctl, <1>ptr DEF InitFlags
  <2>4. ASSUME NEW t \in Threads, InitClear(t) PROVE Emptied(tgt[u])'
    BY <2>4, <1>free, <1>ctl, <1>ptr DEF InitClear
  <2>5. ASSUME NEW t \in Threads, OnNewConnect(t) PROVE Emptied(tgt[u])'
    BY <2>5, <1>free, <1>ctl, <1>ptr DEF OnNewConnect
  <2>6. ASSUME NEW t \in Threads, RecvIOCheck(t) PROVE Emptied(tgt[u])'
    BY <2>6, <1>free, <1>ctl, <1>ptr DEF RecvIOCheck
  <2>7. ASSUME NEW t \in Threads, RecvIOPost(t) PROVE Emptied(tgt[u])'
    BY <2>7, <1>free, <1>ctl, <1>ptr DEF RecvIOPost
  <2>8. ASSUME NEW t \in Threads, RecvIORecheck(t) PROVE Emptied(tgt[u])'
    BY <2>8, <1>free, <1>ctl, <1>ptr DEF RecvIORecheck
  <2>9. ASSUME NEW t \in Threads, RecvIOCancel(t) PROVE Emptied(tgt[u])'
    BY <2>9, <1>free, <1>ctl, <1>ptr DEF RecvIOCancel
  <2>10. ASSUME NEW t \in Threads, SendIOCheck(t) PROVE Emptied(tgt[u])'
    BY <2>10, <1>free, <1>ctl, <1>ptr DEF SendIOCheck
  <2>11. ASSUME NEW t \in Threads, SendIOExchange(t) PROVE Emptied(tgt[u])'
    BY <2>11, <1>free, <1>ctl, <1>ptr DEF SendIOExchange
  <2>12. ASSUME NEW t \in Threads, SendIOSize(t) PROVE Emptied(tgt[u])'
    BY <2>12, <1>free, <1>ctl, <1>ptr DEF SendIOSize
  <2>13. ASSUME NEW t \in Threads, SendIOPost(t) PROVE Emptied(tgt[u])'
    BY <2>13, <1>free, <1>idle, <1>held, <1>ctl, <1>ptr DEF SendIOPost
  <2>14. ASSUME NEW t \in Threads, SendIORecheck(t) PROVE Emptied(tgt[u])'
    BY <2>14, <1>free, <1>ctl, <1>ptr DEF SendIORecheck
  <2>15. ASSUME NEW t \in Threads, SendIOCancel(t) PROVE Emptied(tgt[u])'
    BY <2>15, <1>free, <1>ctl, <1>ptr DEF SendIOCancel
  <2>16. ASSUME NEW t \in Threads, ClearSendFlag(t) PROVE Emptied(tgt[u])'
    BY <2>16, <1>free, <1>ctl, <1>ptr DEF ClearSendFlag
  <2>17. ASSUME NEW t \in Threads, CancelRegist(t) PROVE Emptied(tgt[u])'
    BY <2>17, <1>free, <1>ctl, <1>ptr DEF CancelRegist, AfterRegist
  <2>18. ASSUME NEW t \in Threads, IORelease(t) PROVE Emptied(tgt[u])'
    BY <2>18, <1>free, <1>ctl, <1>ptr DEF IORelease
  <2>19. ASSUME NEW t \in Threads, SentEarlyLoad(t) PROVE Emptied(tgt[u])'
    BY <2>19, <1>free, <1>ctl, <1>ptr DEF SentEarlyLoad
  <2>sended. ASSUME NEW t \in Threads, SendedEnds(t) PROVE Emptied(tgt[u])'
    BY <2>sended, <1>free, <1>held, <1>ctl, <1>ptr DEF SendedEnds
  <2>20. ASSUME NEW t \in Threads, SentMore(t) PROVE Emptied(tgt[u])'
    BY <2>20, <1>free, <1>ctl, <1>ptr DEF SentMore
  <2>21. ASSUME NEW t \in Threads, RecvLoop(t) PROVE Emptied(tgt[u])'
    BY <2>21, <1>free, <1>ctl, <1>ptr DEF RecvLoop, OnRecv
  <2>22. ASSUME NEW t \in Threads, KickCancel(t) PROVE Emptied(tgt[u])'
    BY <2>22, <1>free, <1>ctl, <1>ptr DEF KickCancel, OnRecv
  <2>23. ASSUME NEW t \in Threads, HandlerRelease(t) PROVE Emptied(tgt[u])'
    BY <2>23, <1>free, <1>ctl, <1>ptr DEF HandlerRelease
  <2>24. ASSUME NEW t \in Threads, FindIncrement(t) PROVE Emptied(tgt[u])'
    BY <2>24, <1>free, <1>ctl, <1>ptr DEF FindIncrement
  <2>25. ASSUME NEW t \in Threads, FindCheckID(t) PROVE Emptied(tgt[u])'
    BY <2>25, <1>free, <1>ctl, <1>ptr DEF FindCheckID
  <2>26. ASSUME NEW t \in Threads, SendReqPost(t) PROVE Emptied(tgt[u])'
    BY <2>26, <1>free, <1>ctl, <1>ptr DEF SendReqPost
  <2>27. ASSUME NEW t \in Threads, DisconnectCancel(t) PROVE Emptied(tgt[u])'
    BY <2>27, <1>free, <1>ctl, <1>ptr DEF DisconnectCancel
  <2>28. ASSUME NEW t \in Threads, FinderRelease(t) PROVE Emptied(tgt[u])'
    BY <2>28, <1>free, <1>ctl, <1>ptr DEF FinderRelease
  <2>29. ASSUME NEW t \in Threads, DeleteCAS(t) PROVE Emptied(tgt[u])'
    BY <2>29, <1>free, <1>ctl, <1>ptr DEF DeleteCAS
  <2>30. ASSUME NEW t \in Threads, DeleteClear(t) PROVE Emptied(tgt[u])'
    BY <2>30, <1>free, <1>idle, <1>ctl, <1>ptr DEF DeleteClear
  <2>31. ASSUME NEW t \in Threads, DeletePush(t) PROVE Emptied(tgt[u])'
    BY <2>31, <1>free, <1>ctl, <1>ptr DEF DeletePush
  <2>32. ASSUME NEW t \in Threads, OnDisconnect(t) PROVE Emptied(tgt[u])'
    BY <2>32, <1>free, <1>ctl, <1>ptr DEF OnDisconnect
  <2>33. ASSUME NEW t \in Threads, AcceptPop(t) PROVE Emptied(tgt[u])'
    BY <2>33, <1>free, <1>ctl, <1>ptr DEF AcceptPop
  <2>34. ASSUME NEW t \in Threads, ContentSend(t) PROVE Emptied(tgt[u])'
    BY <2>34, <1>free, <1>ctl, <1>ptr DEF ContentSend
  <2>35. ASSUME NEW t \in Threads, NEW r \in Slots, TakePost(t, r) PROVE Emptied(tgt[u])'
    BY <2>35, <1>free, <1>idle, <1>ctl, <1>ptr DEF TakePost
  <2>36. ASSUME NEW t \in Threads, NEW r \in Slots, TakeSend(t, r) PROVE Emptied(tgt[u])'
    BY <2>36, <1>free, <1>idle, <1>ctl, <1>ptr DEF TakeSend, SendResults
  <2>37. ASSUME NEW t \in Threads, NEW r \in Slots, TakeRecv(t, r) PROVE Emptied(tgt[u])'
    BY <2>37, <1>free, <1>ctl, <1>ptr DEF TakeRecv
  <2>38. ASSUME NEW r \in Slots, RecvComplete(r) PROVE Emptied(tgt[u])'
    BY <2>38, <1>free, <1>ctl, <1>ptr DEF RecvComplete
  <2>39. ASSUME NEW r \in Slots, SendComplete(r) PROVE Emptied(tgt[u])'
    BY <2>39, <1>free, <1>ctl, <1>ptr DEF SendComplete
  <2> QED
    BY <1>1, <2>1, <2>2, <2>3, <2>4, <2>5, <2>6, <2>7, <2>8, <2>9, <2>10, <2>11, <2>12,
       <2>13, <2>14, <2>15, <2>16, <2>17, <2>18, <2>19, <2>20, <2>21, <2>22, <2>23,
       <2>24, <2>25, <2>26, <2>27, <2>28, <2>29, <2>30, <2>31, <2>32, <2>33, <2>34,
       <2>35, <2>36, <2>37, <2>38, <2>39, <2>sended DEF Next, Continue, Take
<1>2. CASE UNCHANGED vars BY <1>2, <1>free
<1> QED BY <1>1, <1>2

\* Only a receive that was posted is lost, and a slot that was never used has
\* none.
LEMMA FreshExactStep ==
  ASSUME IInv, TypeOK', ControlOK', FreshExact, [Next]_vars
  PROVE  FreshExact'
<1> SUFFICES ASSUME NEW s \in Slots, Fresh(s)' PROVE leaked'[s] = 0
  BY DEF FreshExact
<1>1. Fresh(s) /\ leaked[s] = 0 /\ recvOv[s] = "idle" /\ leaked \in [Slots -> Nat]
  BY FreshShrinks DEF FreshExact, IInv, FreshUnknown, Busy, TypeOK
<1>2. CASE \E t \in Threads, r \in Slots : TakeRecv(t, r)
  BY <1>1, <1>2 DEF TakeRecv, RecvResults
<1>3. CASE ~ \E t \in Threads, r \in Slots : TakeRecv(t, r)
  <2>1. leaked' = leaked
    BY <1>3 DEF Next, Continue, Take, AcceptPop, ContentSend, TakePost, TakeSend,
       RecvComplete, SendComplete, InitID, InitIncrement, InitFlags, InitClear,
       OnNewConnect, RecvIOCheck, RecvIOPost, RecvIORecheck, RecvIOCancel, SendIOCheck,
       SendIOExchange, SendIOSize, SendIOPost, SendIORecheck, SendIOCancel, ClearSendFlag,
       CancelRegist, IORelease, SentEarlyLoad, SendedEnds, SentMore, RecvLoop, KickCancel,
       HandlerRelease, FindIncrement, FindCheckID, SendReqPost, DisconnectCancel,
       FinderRelease, DeleteCAS, DeleteClear, DeletePush, OnDisconnect
  <2> QED BY <1>1, <2>1
<1> QED BY <1>2, <1>3

\* A free slot keeps no packets and a slot never used no lost reference, for
\* any number of slots and threads.
THEOREM FreeSlotsAreClean == Spec => []FreeInv
<1>1. Init => FreeInv
  <2> SUFFICES ASSUME Init PROVE FreeInv OBVIOUS
  <2> QED BY DEF Init, FreeInv, FreeEmpty, FreshExact, Emptied
<1>2. ASSUME IInv, IInv', FreeInv, [Next]_vars PROVE FreeInv'
  <2>1. TypeOK' /\ ControlOK' BY <1>2 DEF IInv
  <2>2. FreeEmpty'
    BY <1>2, <2>1, StackEmptyStep, PushEmptyStep DEF FreeInv, FreeEmpty
  <2>3. FreshExact' BY <1>2, <2>1, FreshExactStep DEF FreeInv
  <2> QED BY <2>2, <2>3 DEF FreeInv
<1> QED BY <1>1, <1>2, Invariance, PTL DEF Spec

\* A slot is in indexStack once, or with the one thread that initialises or
\* deletes it, or a live session, never in two places (network.cpp:130, :258,
\* :432), for any number of slots, workers and senders.
THEOREM SlotsDoNotMix == Spec => []SlotOwnedOnce
<1>1. IInv /\ FreeInv => SlotOwnedOnce
  <2> SUFFICES ASSUME IInv, FreeInv PROVE SlotOwnedOnce OBVIOUS
  <2> USE DEF ControlAt, SessLabels, IOProcLabels, FoundLabels, InitStage, DelStage, OwnLabels, SubLabels, InitLabels
  <2>ctl. \A t \in Threads : ControlAt(t) BY DEF IInv, ControlOK
  <2>dom. DOMAIN indexStack = 1 .. Len(indexStack) BY DEF IInv, TypeOK
  <2>1. \A i, j \in DOMAIN indexStack : i # j => indexStack[i] # indexStack[j]
    BY <2>dom DEF IInv, Owned, StackDistinct
  <2>2. ASSUME NEW s \in Slots PROVE Cardinality(Owners(s)) <= 1
    <3>1. \A t, u \in Owners(s) : t = u
      BY <2>ctl DEF Owners, IInv, Owned, OwnersDiffer
    <3> QED BY <3>1, AtMostOne
  <2>3. ASSUME NEW s \in Slots, InStack(s)
        PROVE  /\ Owners(s) = {} /\ Handlers(s) = {} /\ sendBuffer[s] = 0
               /\ released[s] \/ IOcount[s] = 0
    <3>1. Owners(s) = {}
      BY <2>3, <2>ctl DEF Owners, IInv, Owned, OwnerOffStack
    <3>2. Handlers(s) = {}
      <4> SUFFICES ASSUME NEW t \in Threads, sess[t] = s PROVE FALSE BY DEF Handlers
      <4>1. s # NoSlot BY ThreadsAssumption
      <4>2. pc[t] \notin InitLabels
        BY <3>1, <2>ctl DEF Owners
      <4>3. ~released[s] BY <4>1, <4>2 DEF IInv, Live, LiveAt
      <4>4. Fresh(s) BY <2>3, <4>3 DEF Fresh
      <4> QED BY <4>2, <4>4 DEF IInv, FreshUnknown
    <3>3. sendBuffer[s] = 0 BY <2>3 DEF FreeInv, FreeEmpty, Emptied
    <3>4. ASSUME ~released[s] PROVE IOcount[s] = 0
      <4>1. Fresh(s) BY <2>3, <3>4 DEF Fresh
      <4>2. leaked[s] = 0 /\ ~Busy(s) /\ \A t \in Threads : found[t] # s
        BY <4>1 DEF FreeInv, FreshExact, IInv, FreshUnknown
      <4>3. Finders(s) = {} /\ Starters(s) = {}
        BY <4>2, <3>2 DEF Finders, Starters, Handlers
      <4>4. InFlight(recvOv, s) = 0 /\ InFlight(sendOv, s) = 0 /\ posts[s] = 0
        BY <4>2 DEF InFlight, Busy, IInv, TypeOK
      <4>5. References(s) = 0 BY <3>2, <4>3, <4>4, FS_EmptySet DEF References
      <4> QED BY <4>2, <4>5 DEF IInv, RefCountExact
    <3> QED BY <3>1, <3>2, <3>3, <3>4
  <2>4. \A s \in Slots : (\E i \in DOMAIN indexStack : indexStack[i] = s) <=> InStack(s)
    BY <2>dom DEF InStack
  <2> QED BY <2>1, <2>2, <2>3, <2>4 DEF SlotOwnedOnce
<1> QED BY <1>1, Invariance, FreeSlotsAreClean, PTL

-----------------------------------------------------------------------------
(* The callbacks.  A session ID is new while nobody was told of it; a session *)
(* in use has an ID that was opened and not closed; whoever announces the end *)
(* of a session is the only one to do so.                                     *)
Announcing == InitStage \union {"new_connect"}
Closing    == {"del_clear", "del_push", "del_notify"}

\* A slot that has a session: neither released nor never used.
InUse(s) == ~released[s] /\ ~Fresh(s)

Numbered ==
    /\ closed \subseteq opened
    /\ \A id \in opened : id[1] < sessionCount
    /\ \A t \in Threads : pc[t] \in Announcing =>
          want[t] \notin opened /\ want[t][1] < sessionCount
UseTold == \A s \in Slots : InUse(s) =>
    /\ GET_INDEX(ID[s]) = s
    /\ ID[s] \in opened \ closed \/ \E t \in Threads : pc[t] = "new_connect" /\ sess[t] = s
CloseOnce == \A t \in Threads : pc[t] \in Closing =>
    /\ want[t] \in opened \ closed
    /\ \A s \in Slots : InUse(s) => ID[s] # want[t]
    /\ \A u \in Threads \ {t} : pc[u] \in Closing => want[u] # want[t]
ToldInv == Numbered /\ UseTold /\ CloseOnce

\* The steps that matter for it.
Loud(t) == \/ AcceptPop(t) \/ InitID(t) \/ InitClear(t) \/ OnNewConnect(t)
           \/ DeleteCAS(t) \/ DeletePush(t) \/ OnDisconnect(t)

\* The other steps leave alone who announces or closes what.
KeepsAt(u) ==
    /\ pc[u] \in InitStage <=> pc'[u] \in InitStage
    /\ pc[u] = "new_connect" <=> pc'[u] = "new_connect"
    /\ pc'[u] = "init_id" => pc[u] = "init_id"
    /\ pc[u] \in Closing <=> pc'[u] \in Closing
    /\ pc[u] \in InitStage => tgt'[u] = tgt[u]
    /\ pc[u] = "new_connect" => sess'[u] = sess[u]
    /\ pc[u] \in Announcing \union Closing => want'[u] = want[u]
IdsKept == UNCHANGED <<ID, opened, closed, sessionCount>>

LEMMA QuietKeeps ==
  ASSUME IInv, [Next]_vars, ~ \E t \in Threads : Loud(t)
  PROVE  /\ IdsKept /\ UNCHANGED indexStack
         /\ \A s \in Slots : released'[s] = released[s]
         /\ \A u \in Threads : KeepsAt(u)
<1> SUFFICES ASSUME NEW u \in Threads
             PROVE IdsKept /\ UNCHANGED <<indexStack, released>> /\ KeepsAt(u)
  BY DEF Threads
<1> USE DEF ControlAt, SessLabels, IOProcLabels, FoundLabels, InitStage, DelStage, OwnLabels,
            SubLabels, InitLabels
<1> USE DEF Announcing, Closing, KeepsAt, IdsKept
<1>ctl. \A t \in Threads : ControlAt(t) BY DEF IInv, ControlOK
<1>ptr. /\ pc \in [Threads -> Labels] /\ ret \in [Threads -> Labels]
        /\ sess \in [Threads -> Slots \union {NoSlot}]
        /\ tgt \in [Threads -> Slots \union {NoSlot}]
        /\ want \in [Threads -> IDs]
  BY DEF IInv, TypeOK
<1>1. CASE Next
  <2>1. ASSUME NEW t \in Threads, InitIncrement(t) PROVE IdsKept /\ UNCHANGED <<indexStack, released>> /\ KeepsAt(u)
    BY <2>1, <1>ctl, <1>ptr DEF InitIncrement
  <2>2. ASSUME NEW t \in Threads, InitFlags(t) PROVE IdsKept /\ UNCHANGED <<indexStack, released>> /\ KeepsAt(u)
    BY <2>2, <1>ctl, <1>ptr DEF InitFlags
  <2>3. ASSUME NEW t \in Threads, RecvIOCheck(t) PROVE IdsKept /\ UNCHANGED <<indexStack, released>> /\ KeepsAt(u)
    BY <2>3, <1>ctl, <1>ptr DEF RecvIOCheck
  <2>4. ASSUME NEW t \in Threads, RecvIOPost(t) PROVE IdsKept /\ UNCHANGED <<indexStack, released>> /\ KeepsAt(u)
    BY <2>4, <1>ctl, <1>ptr DEF RecvIOPost
  <2>5. ASSUME NEW t \in Threads, RecvIORecheck(t) PROVE IdsKept /\ UNCHANGED <<indexStack, released>> /\ KeepsAt(u)
    BY <2>5, <1>ctl, <1>ptr DEF RecvIORecheck
  <2>6. ASSUME NEW t \in Threads, RecvIOCancel(t) PROVE IdsKept /\ UNCHANGED <<indexStack, released>> /\ KeepsAt(u)
    BY <2>6, <1>ctl, <1>ptr DEF RecvIOCancel
  <2>7. ASSUME NEW t \in Threads, SendIOCheck(t) PROVE IdsKept /\ UNCHANGED <<indexStack, released>> /\ KeepsAt(u)
    BY <2>7, <1>ctl, <1>ptr DEF SendIOCheck
  <2>8. ASSUME NEW t \in Threads, SendIOExchange(t) PROVE IdsKept /\ UNCHANGED <<indexStack, released>> /\ KeepsAt(u)
    BY <2>8, <1>ctl, <1>ptr DEF SendIOExchange
  <2>9. ASSUME NEW t \in Threads, SendIOSize(t) PROVE IdsKept /\ UNCHANGED <<indexStack, released>> /\ KeepsAt(u)
    BY <2>9, <1>ctl, <1>ptr DEF SendIOSize
  <2>10. ASSUME NEW t \in Threads, SendIOPost(t) PROVE IdsKept /\ UNCHANGED <<indexStack, released>> /\ KeepsAt(u)
    BY <2>10, <1>ctl, <1>ptr DEF SendIOPost
  <2>11. ASSUME NEW t \in Threads, SendIORecheck(t) PROVE IdsKept /\ UNCHANGED <<indexStack, released>> /\ KeepsAt(u)
    BY <2>11, <1>ctl, <1>ptr DEF SendIORecheck
  <2>12. ASSUME NEW t \in Threads, SendIOCancel(t) PROVE IdsKept /\ UNCHANGED <<indexStack, released>> /\ KeepsAt(u)
    BY <2>12, <1>ctl, <1>ptr DEF SendIOCancel
  <2>13. ASSUME NEW t \in Threads, ClearSendFlag(t) PROVE IdsKept /\ UNCHANGED <<indexStack, released>> /\ KeepsAt(u)
    BY <2>13, <1>ctl, <1>ptr DEF ClearSendFlag
  <2>14. ASSUME NEW t \in Threads, CancelRegist(t) PROVE IdsKept /\ UNCHANGED <<indexStack, released>> /\ KeepsAt(u)
    BY <2>14, <1>ctl, <1>ptr DEF CancelRegist, AfterRegist
  <2>15. ASSUME NEW t \in Threads, IORelease(t) PROVE IdsKept /\ UNCHANGED <<indexStack, released>> /\ KeepsAt(u)
    BY <2>15, <1>ctl, <1>ptr DEF IORelease
  <2>16. ASSUME NEW t \in Threads, SentEarlyLoad(t) PROVE IdsKept /\ UNCHANGED <<indexStack, released>> /\ KeepsAt(u)
    BY <2>16, <1>ctl, <1>ptr DEF SentEarlyLoad
  <2>sended. ASSUME NEW t \in Threads, SendedEnds(t) PROVE IdsKept /\ UNCHANGED <<indexStack, released>> /\ KeepsAt(u)
    BY <2>sended, <1>ctl, <1>ptr DEF SendedEnds
  <2>17. ASSUME NEW t \in Threads, SentMore(t) PROVE IdsKept /\ UNCHANGED <<indexStack, released>> /\ KeepsAt(u)
    BY <2>17, <1>ctl, <1>ptr DEF SentMore
  <2>18. ASSUME NEW t \in Threads, RecvLoop(t) PROVE IdsKept /\ UNCHANGED <<indexStack, released>> /\ KeepsAt(u)
    BY <2>18, <1>ctl, <1>ptr DEF RecvLoop, OnRecv
  <2>19. ASSUME NEW t \in Threads, KickCancel(t) PROVE IdsKept /\ UNCHANGED <<indexStack, released>> /\ KeepsAt(u)
    BY <2>19, <1>ctl, <1>ptr DEF KickCancel, OnRecv
  <2>20. ASSUME NEW t \in Threads, HandlerRelease(t) PROVE IdsKept /\ UNCHANGED <<indexStack, released>> /\ KeepsAt(u)
    BY <2>20, <1>ctl, <1>ptr DEF HandlerRelease
  <2>21. ASSUME NEW t \in Threads, FindIncrement(t) PROVE IdsKept /\ UNCHANGED <<indexStack, released>> /\ KeepsAt(u)
    BY <2>21, <1>ctl, <1>ptr DEF FindIncrement
  <2>22. ASSUME NEW t \in Threads, FindCheckID(t) PROVE IdsKept /\ UNCHANGED <<indexStack, released>> /\ KeepsAt(u)
    BY <2>22, <1>ctl, <1>ptr DEF FindCheckID
  <2>23. ASSUME NEW t \in Threads, SendReqPost(t) PROVE IdsKept /\ UNCHANGED <<indexStack, released>> /\ KeepsAt(u)
    BY <2>23, <1>ctl, <1>ptr DEF SendReqPost
  <2>24. ASSUME NEW t \in Threads, DisconnectCancel(t) PROVE IdsKept /\ UNCHANGED <<indexStack, released>> /\ KeepsAt(u)
    BY <2>24, <1>ctl, <1>ptr DEF DisconnectCancel
  <2>25. ASSUME NEW t \in Threads, FinderRelease(t) PROVE IdsKept /\ UNCHANGED <<indexStack, released>> /\ KeepsAt(u)
    BY <2>25, <1>ctl, <1>ptr DEF FinderRelease
  <2>26. ASSUME NEW t \in Threads, DeleteClear(t) PROVE IdsKept /\ UNCHANGED <<indexStack, released>> /\ KeepsAt(u)
    BY <2>26, <1>ctl, <1>ptr DEF DeleteClear
  <2>27. ASSUME NEW t \in Threads, ContentSend(t) PROVE IdsKept /\ UNCHANGED <<indexStack, released>> /\ KeepsAt(u)
    BY <2>27, <1>ctl, <1>ptr DEF ContentSend
  <2>28. ASSUME NEW t \in Threads, NEW r \in Slots, TakePost(t, r) PROVE IdsKept /\ UNCHANGED <<indexStack, released>> /\ KeepsAt(u)
    BY <2>28, <1>ctl, <1>ptr DEF TakePost
  <2>29. ASSUME NEW t \in Threads, NEW r \in Slots, TakeSend(t, r) PROVE IdsKept /\ UNCHANGED <<indexStack, released>> /\ KeepsAt(u)
    BY <2>29, <1>ctl, <1>ptr DEF TakeSend
  <2>30. ASSUME NEW t \in Threads, NEW r \in Slots, TakeRecv(t, r) PROVE IdsKept /\ UNCHANGED <<indexStack, released>> /\ KeepsAt(u)
    BY <2>30, <1>ctl, <1>ptr DEF TakeRecv
  <2>31. ASSUME NEW r \in Slots, RecvComplete(r) PROVE IdsKept /\ UNCHANGED <<indexStack, released>> /\ KeepsAt(u)
    BY <2>31, <1>ctl, <1>ptr DEF RecvComplete
  <2>32. ASSUME NEW r \in Slots, SendComplete(r) PROVE IdsKept /\ UNCHANGED <<indexStack, released>> /\ KeepsAt(u)
    BY <2>32, <1>ctl, <1>ptr DEF SendComplete
  <2> QED
    BY <1>1, <2>1, <2>2, <2>3, <2>4, <2>5, <2>6, <2>7, <2>8, <2>9, <2>10, <2>11, <2>12,
       <2>13, <2>14, <2>15, <2>16, <2>17, <2>18, <2>19, <2>20, <2>21, <2>22, <2>23,
       <2>24, <2>25, <2>26, <2>27, <2>28, <2>29, <2>30, <2>31, <2>32, <2>sended DEF Next, Continue, Take, Loud
<1>2. CASE UNCHANGED vars BY <1>2
<1> QED BY <1>1, <1>2

\* A slot is in use until it is deleted, and gets in use by InitClear alone.
LEMMA UseBegins ==
  ASSUME IInv, [Next]_vars, NEW s \in Slots, InUse(s)'
  PROVE  InUse(s) \/ \E t \in Threads : InitClear(t) /\ tgt[t] = s
<1> USE DEF ControlAt, SessLabels, IOProcLabels, FoundLabels, InitStage, DelStage, OwnLabels,
            SubLabels, InitLabels
<1> SUFFICES ASSUME ~InUse(s) PROVE \E t \in Threads : InitClear(t) /\ tgt[t] = s
  OBVIOUS
<1>ctl. \A t \in Threads : ControlAt(t) BY DEF IInv, ControlOK
<1>ptr. /\ pc \in [Threads -> Labels] /\ released \in [Slots -> BOOLEAN]
        /\ tgt \in [Threads -> Slots \union {NoSlot}]
        /\ indexStack \in Seq(Slots)
  BY DEF IInv, TypeOK
<1>own. StackDistinct /\ OwnersDiffer /\ OwnerOffStack BY DEF IInv, Owned
<1>0. ~released'[s] /\ ~Fresh(s)' BY DEF InUse
<1>1. CASE Next
  <2>1. CASE ~ \E t \in Threads : Loud(t)
    <3>1. released'[s] = released[s] /\ indexStack' = indexStack /\ \A t \in Threads : KeepsAt(t)
      BY <1>1, <2>1, QuietKeeps
    <3>2. Fresh(s) BY <3>1, <1>0 DEF InUse
    <3>3. InStack(s)' <=> InStack(s) BY <3>1 DEF InStack
    <3> QED BY <3>1, <3>2, <3>3, <1>0 DEF Fresh, KeepsAt
  <2>2. ASSUME NEW t \in Threads, AcceptPop(t) PROVE FALSE
    <3>1. released' = released /\ Fresh(s) BY <2>2, <1>0 DEF AcceptPop, InUse
    <3>2. InStack(s) => InStack(s)' \/ tgt'[t] = s
      BY <2>2, <1>ptr, <1>own, PopStack DEF AcceptPop
    <3>3. pc'[t] \in InitStage BY <2>2, <1>ptr DEF AcceptPop
    <3>4. \A u \in Threads : pc[u] \in InitStage => pc'[u] \in InitStage /\ tgt'[u] = tgt[u]
      BY <2>2, <1>ptr DEF AcceptPop
    <3> QED BY <1>0, <3>1, <3>2, <3>3, <3>4 DEF Fresh
  <2>3. ASSUME NEW t \in Threads, InitID(t) PROVE FALSE
    BY <2>3, <1>0, <1>ptr DEF InitID, InUse, Fresh, InStack
  <2>4. ASSUME NEW t \in Threads, InitClear(t) PROVE tgt[t] = s
    BY <2>4, <1>0, <1>ptr DEF InitClear, InUse, Fresh, InStack
  <2>5. ASSUME NEW t \in Threads, OnNewConnect(t) PROVE FALSE
    BY <2>5, <1>0, <1>ptr DEF OnNewConnect, InUse, Fresh, InStack
  <2>6. ASSUME NEW t \in Threads, DeleteCAS(t) PROVE FALSE
    BY <2>6, <1>0, <1>ptr DEF DeleteCAS, InUse, Fresh, InStack
  <2>7. ASSUME NEW t \in Threads, DeletePush(t) PROVE FALSE
    <3>1. released' = released /\ Fresh(s) BY <2>7, <1>0 DEF DeletePush, InUse
    <3>2. tgt[t] \in Slots BY <2>7, <1>ctl DEF DeletePush
    <3>3. InStack(s) => InStack(s)' BY <2>7, <1>ptr, <3>2 DEF DeletePush, InStack
    <3> QED BY <2>7, <1>0, <1>ptr, <3>1, <3>3 DEF DeletePush, Fresh
  <2>8. ASSUME NEW t \in Threads, OnDisconnect(t) PROVE FALSE
    BY <2>8, <1>0, <1>ptr DEF OnDisconnect, InUse, Fresh, InStack
  <2> QED BY <2>1, <2>2, <2>3, <2>4, <2>5, <2>6, <2>7, <2>8 DEF Loud
<1>2. CASE UNCHANGED vars BY <1>2, <1>0 DEF InUse, Fresh, InStack
<1> QED BY <1>1, <1>2

LEMMA UseKept ==
  ASSUME IInv, [Next]_vars, NEW t \in Threads, NEW label \in Labels \ {"new_connect"},
         pc' = [pc EXCEPT ![t] = label]
  PROVE  \A s \in Slots : InUse(s)' => InUse(s)
<1>1. \A u \in Threads : ~InitClear(u) BY DEF IInv, TypeOK, InitClear
<1> QED BY <1>1, UseBegins

\* Steps that tell the content nothing, and by which no slot gets in use, keep
\* what it was told.
LEMMA KeptTold ==
  ASSUME ToldInv, IdsKept, \A s \in Slots : InUse(s)' => InUse(s), \A t \in Threads : KeepsAt(t)
  PROVE  ToldInv'
<1> USE DEF Announcing, KeepsAt, IdsKept
<1>1. Numbered' BY DEF ToldInv, Numbered
<1>2. UseTold' BY DEF ToldInv, UseTold
<1>3. CloseOnce' BY DEF ToldInv, CloseOnce
<1> QED BY <1>1, <1>2, <1>3 DEF ToldInv

\* A slot whose session is announced for the first time, or whose deletion is
\* announced, is not in use otherwise.
LEMMA InitNotUsed ==
  ASSUME IInv, NEW t \in Threads, pc[t] \in InitStage
  PROVE  tgt[t] \in Slots /\ ~InUse(tgt[t])
BY DEF IInv, ControlOK, ControlAt, OwnLabels, InUse, Fresh

\* A connection gets an ID that the content was never told of, as long as the
\* counter did not wrap.
LEMMA AcceptTold ==
  ASSUME MaxAccept <= IDWrap, IInv, ToldInv, [Next]_vars, NEW t \in Threads, AcceptPop(t)
  PROVE  ToldInv'
<1> USE DEF Announcing
<1>c. ControlAt(t) BY DEF IInv, ControlOK
<1>i. opened \subseteq IDs /\ sessionCount \in Nat /\ indexStack \in Seq(Slots)
      /\ pc \in [Threads -> Labels] /\ want \in [Threads -> IDs]
  BY DEF IInv, TypeOK
<1>u. \E label \in Labels \ {"new_connect"} : pc' = [pc EXCEPT ![t] = label]
  BY <1>i DEF AcceptPop, Labels
<1>1. \A s \in Slots : InUse(s)' => InUse(s) BY <1>u, UseKept
<1>2. sessionCount % IDWrap = sessionCount
  <2>1. sessionCount < IDWrap /\ IDWrap \in Nat BY <1>i DEF AcceptPop
  <2>2. \A n, k \in Nat : n < k => n % k = n OBVIOUS
  <2> QED BY <2>1, <2>2, <1>i
<1>3. /\ opened' = opened /\ closed' = closed /\ ID' = ID /\ sess' = sess
      /\ sessionCount' = sessionCount + 1
      /\ pc' = [pc EXCEPT ![t] = "init_id"] /\ pc[t] = "idle" /\ t = AcceptThread
      /\ want'[t][1] = sessionCount /\ \A u \in Threads \ {t} : want'[u] = want[u]
  BY <1>2, <1>i DEF AcceptPop, MAKE_SESSION_ID
<1>4. \A id \in opened : id[1] \in Nat /\ id[1] < sessionCount
  BY <1>i DEF ToldInv, Numbered, IDs
<1>5. Numbered'
  <2>1. \A id \in opened' : id[1] < sessionCount' BY <1>3, <1>4, <1>i
  <2>2. ASSUME NEW u \in Threads, pc'[u] \in Announcing
        PROVE  want'[u] \notin opened' /\ want'[u][1] < sessionCount'
    <3>1. CASE u = t BY <3>1, <1>3, <1>4, <1>i
    <3>2. CASE u # t
      <4>1. pc[u] \in Announcing BY <2>2, <3>2, <1>3, <1>i
      <4>2. want[u] \notin opened /\ want[u][1] < sessionCount /\ want[u][1] \in Nat
        BY <4>1, <1>i DEF ToldInv, Numbered, IDs
      <4> QED BY <3>2, <4>2, <1>3, <1>i
    <3> QED BY <3>1, <3>2
  <2>3. closed' \subseteq opened' BY <1>3 DEF ToldInv, Numbered
  <2> QED BY <2>1, <2>2, <2>3 DEF Numbered
<1>6. UseTold' BY <1>1, <1>3, <1>i DEF ToldInv, UseTold
<1>7. CloseOnce' BY <1>1, <1>3, <1>i DEF ToldInv, CloseOnce, Closing
<1> QED BY <1>5, <1>6, <1>7 DEF ToldInv

LEMMA InitIDTold ==
  ASSUME IInv, ToldInv, [Next]_vars, NEW t \in Threads, InitID(t)
  PROVE  ToldInv'
<1> USE DEF Announcing
<1>i. pc \in [Threads -> Labels] /\ ID \in [Slots -> IDs] BY DEF IInv, TypeOK
<1>u. \E label \in Labels \ {"new_connect"} : pc' = [pc EXCEPT ![t] = label]
  BY <1>i DEF InitID, Labels
<1>1. \A s \in Slots : InUse(s)' => InUse(s) BY <1>u, UseKept
<1>2. tgt[t] \in Slots /\ ~InUse(tgt[t]) BY InitNotUsed DEF InitID, InitStage
<1>3. /\ UNCHANGED <<opened, closed, sessionCount, sess, want>>
      /\ pc' = [pc EXCEPT ![t] = "init_inc"] /\ pc[t] = "init_id"
      /\ \A s \in Slots : InUse(s) => ID'[s] = ID[s]
  BY <1>2, <1>i DEF InitID
<1>5. Numbered' BY <1>3, <1>i DEF ToldInv, Numbered, InitStage
<1>6. UseTold' BY <1>1, <1>3, <1>i DEF ToldInv, UseTold
<1>7. CloseOnce' BY <1>1, <1>3, <1>i DEF ToldInv, CloseOnce, Closing
<1> QED BY <1>5, <1>6, <1>7 DEF ToldInv

\* The session begins: its ID is new.
LEMMA InitClearTold ==
  ASSUME IInv, ToldInv, [Next]_vars, NEW t \in Threads, InitClear(t)
  PROVE  ToldInv'
<1> USE DEF Announcing
<1>i. pc \in [Threads -> Labels] BY DEF IInv, TypeOK
<1>1. \A s \in Slots : InUse(s)' => InUse(s) \/ s = tgt[t]
  <2> SUFFICES ASSUME NEW s \in Slots, InUse(s)', ~InUse(s) PROVE s = tgt[t] OBVIOUS
  <2>1. PICK u \in Threads : InitClear(u) /\ tgt[u] = s BY UseBegins
  <2>2. u = t
    BY <2>1 DEF IInv, ControlOK, ControlAt, InitClear, InitStage
  <2> QED BY <2>1, <2>2
<1>2. /\ tgt[t] \in Slots /\ ID[tgt[t]] = want[t] /\ GET_INDEX(want[t]) = tgt[t]
      /\ sess[t] = tgt[t]
  BY InitNotUsed DEF InitClear, IInv, Told, ToldAt, InitStage, ControlOK, ControlAt, InitLabels
<1>3. /\ UNCHANGED <<ID, opened, closed, sessionCount, sess, want>>
      /\ pc' = [pc EXCEPT ![t] = "new_connect"] /\ pc[t] = "init_clear"
  BY DEF InitClear
<1>4. want[t] \notin opened BY <1>3 DEF ToldInv, Numbered, InitStage
<1>5. Numbered' BY <1>3, <1>i DEF ToldInv, Numbered, InitStage
<1>6. UseTold'
  <2> SUFFICES ASSUME NEW s \in Slots, InUse(s)'
               PROVE /\ GET_INDEX(ID[s]) = s
                     /\ \/ ID[s] \in opened \ closed
                        \/ \E u \in Threads : pc'[u] = "new_connect" /\ sess[u] = s
    BY <1>3 DEF UseTold
  <2>1. CASE s = tgt[t] BY <2>1, <1>2, <1>3, <1>i
  <2>2. CASE InUse(s) BY <2>2, <1>3, <1>i DEF ToldInv, UseTold
  <2> QED BY <1>1, <2>1, <2>2
<1>7. CloseOnce'
  <2> SUFFICES ASSUME NEW u \in Threads, pc'[u] \in Closing
               PROVE /\ want[u] \in opened \ closed
                     /\ \A s \in Slots : InUse(s)' => ID[s] # want[u]
                     /\ \A v \in Threads \ {u} : pc'[v] \in Closing => want[v] # want[u]
    BY <1>3 DEF CloseOnce
  <2>1. \A v \in Threads : pc'[v] \in Closing => pc[v] \in Closing BY <1>3, <1>i DEF Closing
  <2> QED BY <2>1, <1>1, <1>2, <1>4 DEF ToldInv, CloseOnce
<1> QED BY <1>5, <1>6, <1>7 DEF ToldInv

LEMMA ConnectTold ==
  ASSUME IInv, ToldInv, [Next]_vars, NEW t \in Threads, OnNewConnect(t)
  PROVE  ToldInv'
<1> USE DEF Announcing
<1>i. pc \in [Threads -> Labels] /\ want \in [Threads -> IDs] BY DEF IInv, TypeOK
<1>u. \E label \in Labels \ {"new_connect"} : pc' = [pc EXCEPT ![t] = label]
  BY <1>i DEF OnNewConnect, Labels
<1>1. \A s \in Slots : InUse(s)' => InUse(s) BY <1>u, UseKept
<1>2. ID[sess[t]] = want[t] BY DEF OnNewConnect, IInv, Told, ToldAt
<1>3. /\ UNCHANGED <<ID, closed, sessionCount, sess, want>>
      /\ opened' = opened \union {want[t]}
      /\ pc' = [pc EXCEPT ![t] = "recv_chk"] /\ pc[t] = "new_connect"
  BY DEF OnNewConnect
<1>4. want[t] \notin opened /\ want[t][1] < sessionCount /\ closed \subseteq opened
  BY <1>3 DEF ToldInv, Numbered
<1>5. Numbered'
  <2>1. ASSUME NEW u \in Threads, pc'[u] \in Announcing
        PROVE  want[u] \notin opened' /\ want[u][1] < sessionCount
    <3>1. u # t /\ pc[u] \in Announcing BY <2>1, <1>3, <1>i DEF InitStage
    <3>2. u = AcceptThread /\ t = AcceptThread
      BY <3>1, <1>3 DEF IInv, ControlOK, ControlAt
    <3> QED BY <3>1, <3>2
  <2> QED BY <2>1, <1>3, <1>4 DEF ToldInv, Numbered
<1>6. UseTold'
  <2> SUFFICES ASSUME NEW s \in Slots, InUse(s)
               PROVE /\ GET_INDEX(ID[s]) = s
                     /\ \/ ID[s] \in opened' \ closed
                        \/ \E u \in Threads : pc'[u] = "new_connect" /\ sess[u] = s
    BY <1>1, <1>3 DEF UseTold
  <2>1. GET_INDEX(ID[s]) = s BY DEF ToldInv, UseTold
  <2>2. CASE ID[s] \in opened \ closed BY <2>1, <2>2, <1>3
  <2>3. ASSUME NEW u \in Threads, pc[u] = "new_connect", sess[u] = s PROVE ID[s] \in opened' \ closed
    <3>1. u = t BY <2>3, <1>3 DEF IInv, ControlOK, ControlAt
    <3> QED BY <2>3, <3>1, <1>2, <1>3, <1>4
  <2> QED BY <2>1, <2>2, <2>3 DEF ToldInv, UseTold
<1>7. CloseOnce' BY <1>1, <1>3, <1>i DEF ToldInv, CloseOnce, Closing
<1> QED BY <1>5, <1>6, <1>7 DEF ToldInv

\* Whoever wins the compare-and-swap is the only one to announce the end.
LEMMA DeleteTold ==
  ASSUME IInv, ToldInv, [Next]_vars, NEW t \in Threads, DeleteCAS(t)
  PROVE  ToldInv'
<1> USE DEF Announcing
<1>i. /\ pc \in [Threads -> Labels] /\ want \in [Threads -> IDs]
      /\ released \in [Slots -> BOOLEAN]
  BY DEF IInv, TypeOK
<1>c. ret[t] \in {"idle", "dec", "loop"} /\ tgt[t] \in Slots
  BY DEF DeleteCAS, IInv, ControlOK, ControlAt
<1>u. \E label \in Labels \ {"new_connect"} : pc' = [pc EXCEPT ![t] = label]
  BY <1>i, <1>c DEF DeleteCAS, Labels
<1>1. \A s \in Slots : InUse(s)' => InUse(s) BY <1>u, UseKept
<1>3. UNCHANGED <<ID, opened, closed, sessionCount, sess>> /\ pc[t] = "del_cas"
  BY DEF DeleteCAS
<1>4. CASE IOcount[tgt[t]] = 0 /\ ~released[tgt[t]]
  <2> SUFFICES ASSUME NEW s \in Slots, s = tgt[t] PROVE ToldInv' BY <1>c
  <2>1. /\ pc' = [pc EXCEPT ![t] = "del_clear"] /\ want' = [want EXCEPT ![t] = ID[s]]
        /\ released' = [released EXCEPT ![s] = TRUE]
    BY <1>4 DEF DeleteCAS
  <2>2. InUse(s) BY <1>3, <1>4, <1>c DEF InUse, IInv, FreshUnknown
  <2>3. ~InUse(s)' BY <2>1, <1>c, <1>i DEF InUse
  <2>4. ID[s] \in opened \ closed
    <3>1. \A u \in Threads : sess[u] # s BY <1>4, <1>c, ZeroMeansNone DEF IInv
    <3> QED BY <2>2, <3>1, <1>c DEF ToldInv, UseTold
  <2>5. \A r \in Slots : InUse(r)' => ID[r] # ID[s]
    BY <1>1, <2>2, <2>3, <1>c DEF ToldInv, UseTold
  <2>6. Numbered' BY <1>3, <2>1, <1>i DEF ToldInv, Numbered, InitStage
  <2>7. UseTold' BY <1>1, <1>3, <2>1, <1>i DEF ToldInv, UseTold
  <2>8. CloseOnce'
    <3> SUFFICES ASSUME NEW u \in Threads, pc'[u] \in Closing
                 PROVE /\ want'[u] \in opened \ closed
                       /\ \A r \in Slots : InUse(r)' => ID[r] # want'[u]
                       /\ \A v \in Threads \ {u} : pc'[v] \in Closing => want'[v] # want'[u]
      BY <1>3 DEF CloseOnce
    <3>1. \A v \in Threads \ {t} : /\ pc'[v] = pc[v] /\ want'[v] = want[v]
                                   /\ pc[v] \in Closing => want[v] # ID[s]
      BY <2>1, <2>2, <1>c, <1>i DEF ToldInv, CloseOnce
    <3>2. want'[t] = ID[s] BY <2>1, <1>i
    <3>3. CASE u = t BY <3>1, <3>2, <3>3, <2>4, <2>5
    <3>4. CASE u # t BY <3>1, <3>2, <3>4, <1>1 DEF ToldInv, CloseOnce
    <3> QED BY <3>3, <3>4
  <2> QED BY <2>6, <2>7, <2>8 DEF ToldInv
<1>5. CASE ~(IOcount[tgt[t]] = 0 /\ ~released[tgt[t]])
  <2>1. pc' = [pc EXCEPT ![t] = ret[t]] /\ want' = want BY <1>5 DEF DeleteCAS
  <2>2. Numbered' BY <1>3, <2>1, <1>i, <1>c DEF ToldInv, Numbered, InitStage
  <2>3. UseTold' BY <1>1, <1>3, <2>1, <1>i DEF ToldInv, UseTold
  <2>4. CloseOnce' BY <1>1, <1>3, <2>1, <1>i, <1>c DEF ToldInv, CloseOnce, Closing
  <2> QED BY <2>2, <2>3, <2>4 DEF ToldInv
<1> QED BY <1>4, <1>5

LEMMA DisconnectTold ==
  ASSUME IInv, ToldInv, [Next]_vars, NEW t \in Threads, OnDisconnect(t)
  PROVE  ToldInv'
<1> USE DEF Announcing
<1>i. pc \in [Threads -> Labels] BY DEF IInv, TypeOK
<1>c. ret[t] \in {"idle", "dec", "loop"} BY DEF IInv, ControlOK, ControlAt
<1>u. \E label \in Labels \ {"new_connect"} : pc' = [pc EXCEPT ![t] = label]
  BY <1>i, <1>c DEF OnDisconnect, Labels
<1>1. \A s \in Slots : InUse(s)' => InUse(s) BY <1>u, UseKept
<1>3. /\ UNCHANGED <<ID, opened, sessionCount, sess, want>>
      /\ closed' = closed \union {want[t]}
      /\ pc' = [pc EXCEPT ![t] = ret[t]] /\ pc[t] = "del_notify"
  BY DEF OnDisconnect
<1>4. /\ want[t] \in opened /\ \A s \in Slots : InUse(s) => ID[s] # want[t]
      /\ \A u \in Threads \ {t} : pc[u] \in Closing => want[u] # want[t]
  BY <1>3 DEF ToldInv, CloseOnce, Closing
<1>5. Numbered' BY <1>3, <1>4, <1>i, <1>c DEF ToldInv, Numbered, InitStage
<1>6. UseTold' BY <1>1, <1>3, <1>4, <1>i DEF ToldInv, UseTold
<1>7. CloseOnce' BY <1>1, <1>3, <1>4, <1>i, <1>c DEF ToldInv, CloseOnce, Closing
<1> QED BY <1>5, <1>6, <1>7 DEF ToldInv

LEMMA ToldStep ==
  ASSUME MaxAccept <= IDWrap, IInv, ToldInv, [Next]_vars
  PROVE  ToldInv'
<1>1. CASE ~ \E t \in Threads : Loud(t)
  <2>1. IdsKept /\ \A t \in Threads : KeepsAt(t) BY <1>1, QuietKeeps
  <2>2. \A s \in Slots : InUse(s)' => InUse(s) BY <1>1, UseBegins DEF Loud
  <2> QED BY <2>1, <2>2, KeptTold
<1>2. ASSUME NEW t \in Threads, DeletePush(t) PROVE ToldInv'
  <2>1. \A s \in Slots : InUse(s)' => InUse(s) BY <1>2, UseKept DEF DeletePush, Labels
  <2>2. pc \in [Threads -> Labels] BY DEF IInv, TypeOK
  <2>3. ASSUME NEW u \in Threads PROVE KeepsAt(u)
    BY <1>2, <2>2 DEF DeletePush, KeepsAt, InitStage, Closing, ControlAt, IInv, ControlOK
  <2>4. IdsKept BY <1>2 DEF DeletePush, IdsKept
  <2> QED BY <2>1, <2>3, <2>4, KeptTold
<1> QED BY <1>1, <1>2, AcceptTold, InitIDTold, InitClearTold, ConnectTold, DeleteTold,
           DisconnectTold DEF Loud

\* The content is told of each session once, in order, until the counter of
\* the IDs wraps.
THEOREM IdsAreToldOnce == ASSUME MaxAccept <= IDWrap PROVE Spec => []ToldInv
<1>1. Init => ToldInv
  <2> SUFFICES ASSUME Init PROVE ToldInv OBVIOUS
  <2>1. Numbered BY DEF Init, Numbered, Announcing, InitStage
  <2>2. \A s \in Slots : ~InUse(s)
    <3> SUFFICES ASSUME NEW s \in Slots PROVE Fresh(s) BY DEF InUse
    <3>1. maxSession - s \in 1 .. maxSession /\ maxSession - (maxSession - s) = s BY DEF Slots
    <3>2. Len(indexStack) = maxSession /\ indexStack[maxSession - s] = s
      BY <3>1 DEF Init
    <3> QED BY <3>1, <3>2 DEF Init, Fresh, InStack
  <2> QED BY <2>1, <2>2 DEF Init, ToldInv, UseTold, CloseOnce, Closing
<1>2. IInv /\ ToldInv /\ [Next]_vars => ToldInv' BY ToldStep
<1> QED BY <1>1, <1>2, Invariance, PTL DEF Spec

\* OnRecv comes after the session's OnNewConnect and before its OnDisconnect,
\* for any slots, workers and senders, until the counter of the IDs wraps.
THEOREM RecvComesBetween == ASSUME MaxAccept <= IDWrap PROVE Spec => []RecvBetweenCallbacks
<1>1. IInv /\ ToldInv => RecvBetweenCallbacks
  <2> SUFFICES ASSUME IInv, ToldInv, NEW t \in Workers,
                      pc[t] \in {"loop", "kick", "kick_cancel"}
               PROVE  ID[sess[t]] \in opened \ closed
    BY DEF RecvBetweenCallbacks
  <2>1. t \in Threads BY DEF Threads
  <2>2. sess[t] \in Slots /\ sess[t] # NoSlot
    BY <2>1 DEF IInv, ControlOK, ControlAt, SessLabels
  <2>3. InUse(sess[t])
    BY <2>1, <2>2 DEF IInv, Live, LiveAt, FreshUnknown, InUse, InitLabels
  <2>4. ASSUME NEW u \in Threads, pc[u] = "new_connect", sess[u] = sess[t] PROVE FALSE
    BY <2>1, <2>4 DEF IInv, Exclusive, RecvOnce, RecvHolds, RecvLabels
  <2> QED BY <2>2, <2>3, <2>4 DEF ToldInv, UseTold
<1> QED BY <1>1, IdsAreToldOnce, Invariance, PTL

\* OnNewConnect once for every session ID, OnDisconnect once and only after it,
\* for any slots, workers and senders, until the counter of the IDs wraps.
THEOREM CallbacksOncePerSession == ASSUME MaxAccept <= IDWrap PROVE Spec => CallbacksInOrder
<1>1. ASSUME ToldInv, NEW t \in Threads
      PROVE  /\ OnNewConnect(t) => want[t] \notin opened
             /\ OnDisconnect(t) => want[t] \in opened \ closed
  BY <1>1 DEF ToldInv, Numbered, CloseOnce, Announcing, Closing, OnNewConnect, OnDisconnect
<1>2. ToldInv => [/\ \A t \in Threads : OnNewConnect(t) => want[t] \notin opened
                  /\ \A t \in Threads : OnDisconnect(t) => want[t] \in opened \ closed]_vars
  BY <1>1
<1> QED BY <1>2, IdsAreToldOnce, PTL DEF CallbacksInOrder

-----------------------------------------------------------------------------
(* What is left of a session when its slot is used again. *)

\* A released session has lost no reference, and init finds both buffers empty.
CleanInv ==
    /\ \A s \in Slots : released[s] => leaked[s] = 0
    /\ \A t \in Threads : pc[t] = "init_id" => Emptied(tgt[t])

LEMMA LostStep ==
  ASSUME IInv, CleanInv, [Next]_vars, NEW s \in Slots, released'[s]
  PROVE  leaked'[s] = 0
<1>i. /\ leaked \in [Slots -> Nat] /\ released \in [Slots -> BOOLEAN]
      /\ pc \in [Threads -> Labels]
  BY DEF IInv, TypeOK
<1>1. CASE released[s]
  <2>1. leaked[s] = 0 BY <1>1 DEF CleanInv
  <2>2. ASSUME NEW t \in Threads, NEW r \in Slots, TakeRecv(t, r) PROVE leaked'[s] = 0
    <3>1. recvOv[r] # "idle" BY <2>2 DEF TakeRecv, RecvResults
    <3>2. r # s BY <1>1, <3>1 DEF IInv, Live, Busy
    <3> QED BY <2>1, <2>2, <3>2, <1>i DEF TakeRecv
  <2>3. CASE ~ \E t \in Threads, r \in Slots : TakeRecv(t, r)
    <3>1. leaked' = leaked
      BY <2>3 DEF Next, Continue, Take, AcceptPop, ContentSend, TakePost, TakeSend,
         RecvComplete, SendComplete, InitID, InitIncrement, InitFlags, InitClear,
         OnNewConnect, RecvIOCheck, RecvIOPost, RecvIORecheck, RecvIOCancel, SendIOCheck,
         SendIOExchange, SendIOSize, SendIOPost, SendIORecheck, SendIOCancel, ClearSendFlag,
         CancelRegist, IORelease, SentEarlyLoad, SendedEnds, SentMore, RecvLoop, KickCancel,
         HandlerRelease, FindIncrement, FindCheckID, SendReqPost, DisconnectCancel,
         FinderRelease, DeleteCAS, DeleteClear, DeletePush, OnDisconnect
    <3> QED BY <2>1, <3>1
  <2> QED BY <2>2, <2>3
<1>2. CASE ~released[s]
  <2>1. PICK t \in Threads : DeleteCAS(t)
    <3>1. \E t \in Threads : Loud(t) BY <1>2, QuietKeeps
    <3> QED BY <1>2, <3>1, <1>i DEF Loud, AcceptPop, InitID, InitClear, OnNewConnect, DeletePush,
            OnDisconnect
  <2>2. IOcount[s] = 0 /\ leaked' = leaked BY <1>2, <2>1, <1>i DEF DeleteCAS
  <2>3. leaked[s] = 0
    <3>1. IsFiniteSet(Handlers(s)) /\ IsFiniteSet(Finders(s)) /\ IsFiniteSet(Starters(s))
      <4>1. /\ Handlers(s) \in SUBSET Threads /\ Finders(s) \in SUBSET Threads
            /\ Starters(s) \in SUBSET Threads BY DEF Handlers, Finders, Starters
      <4> QED BY <4>1, ThreadsFinite, FS_Subset
    <3> DEFINE h == Cardinality(Handlers(s))
               f == Cardinality(Finders(s))
               o == Cardinality(Starters(s))
               i == InFlight(recvOv, s)
               j == InFlight(sendOv, s)
    <3>2. h \in Nat /\ f \in Nat /\ o \in Nat BY <3>1, FS_CardinalityType
    <3>3. i \in Nat /\ j \in Nat /\ posts[s] \in Nat /\ leaked[s] \in Nat
      BY DEF InFlight, IInv, TypeOK
    <3>4. 0 = h + f + o + i + j + posts[s] + leaked[s]
      BY <2>2 DEF IInv, RefCountExact, References
    <3> HIDE DEF h, f, o, i, j
    <3>5. \A a, b, c, d, e, k, l \in Nat : 0 = a + b + c + d + e + k + l => l = 0 OBVIOUS
    <3> QED BY <3>2, <3>3, <3>4, <3>5
  <2> QED BY <2>2, <2>3
<1> QED BY <1>1, <1>2

LEMMA FoundEmptyStep ==
  ASSUME IInv, IInv', FreeInv, CleanInv, [Next]_vars, NEW t \in Threads, pc'[t] = "init_id"
  PROVE Emptied(tgt[t])'
<1> USE DEF ControlAt, SessLabels, IOProcLabels, FoundLabels, InitStage, DelStage, OwnLabels,
            SubLabels, InitLabels
<1>ctl. \A u \in Threads : ControlAt(u) BY DEF IInv, ControlOK
<1> USE DEF Emptied
<1>i. /\ sendBuffer \in [Slots -> Nat] /\ pc \in [Threads -> Labels]
      /\ leftover \in [Slots -> BOOLEAN]
      /\ tgt \in [Threads -> Slots \union {NoSlot}] /\ posts \in [Slots -> Nat]
      /\ indexStack \in Seq(Slots)
  BY DEF IInv, TypeOK
<1>1. ASSUME AcceptPop(t) PROVE Emptied(tgt[t])'
  <2> DEFINE top == indexStack[Len(indexStack)]
  <2>1. top \in Slots /\ InStack(top) BY <1>1, <1>i, PopStack DEF IInv, Owned
  <2>2. sendBuffer' = sendBuffer /\ leftover' = leftover /\ tgt'[t] = top BY <1>1, <1>i DEF AcceptPop
  <2> QED BY <2>1, <2>2 DEF FreeInv, FreeEmpty
<1>2. CASE ~AcceptPop(t)
  <2>1. pc[t] = "init_id" /\ tgt'[t] = tgt[t]
    <3>1. CASE ~ \E u \in Threads : Loud(u) BY <3>1, QuietKeeps DEF KeepsAt
    <3>2. ASSUME NEW u \in Threads, Loud(u) PROVE pc[t] = "init_id" /\ tgt'[t] = tgt[t]
      BY <3>2, <1>2, <1>ctl, <1>i DEF Loud, AcceptPop, InitID, InitClear, OnNewConnect, DeleteCAS,
         DeletePush, OnDisconnect
    <3> QED BY <3>1, <3>2
  <2> SUFFICES sendBuffer'[tgt[t]] = 0 /\ ~leftover'[tgt[t]] BY <2>1
  <2>2. /\ Emptied(tgt[t]) /\ tgt[t] \in Slots
        /\ posts[tgt[t]] = 0 /\ sendOv[tgt[t]] = "idle"
    <3>1. Emptied(tgt[t]) /\ tgt[t] \in Slots BY <2>1, <1>ctl DEF CleanInv
    <3>2. ~Busy(tgt[t])
      BY <2>1, <3>1 DEF IInv, Live, FreshUnknown, Fresh
    <3> QED BY <3>1, <3>2, <1>i DEF Busy
  <2>held. ASSUME NEW u \in Threads, sess[u] = tgt[t] PROVE pc[u] \in InitLabels
    <3>1. released[tgt[t]] \/ Fresh(tgt[t]) BY <2>1 DEF Fresh
    <3> QED BY <2>2, <2>held, <3>1, FreeNotHeld
  <2>3. ASSUME NEW u \in Threads, NEW r \in Slots, TakePost(u, r) \/ TakeSend(u, r)
        PROVE  sendBuffer'[tgt[t]] = 0 /\ ~leftover'[tgt[t]]
    <3>1. r # tgt[t] BY <2>2, <2>3, <1>i DEF TakePost, TakeSend, SendResults
    <3> QED BY <2>2, <2>3, <3>1, <1>i DEF TakePost, TakeSend
  <2>4. ASSUME NEW u \in Threads, SendIOPost(u) \/ SendedEnds(u) \/ DeleteClear(u)
        PROVE  sendBuffer'[tgt[t]] = 0 /\ ~leftover'[tgt[t]]
    <3>1. ~(0 > SendBatch) OBVIOUS
    <3>2. SendIOPost(u) \/ SendedEnds(u) => sess[u] # tgt[t]
      BY <2>held DEF SendIOPost, SendedEnds
    <3> QED BY <2>2, <2>4, <3>1, <3>2, <1>i DEF SendIOPost, SendedEnds, DeleteClear
  <2>5. CASE /\ ~ \E u \in Threads, r \in Slots : TakePost(u, r) \/ TakeSend(u, r)
             /\ ~ \E u \in Threads : SendIOPost(u) \/ SendedEnds(u) \/ DeleteClear(u)
    <3>1. sendBuffer' = sendBuffer /\ leftover' = leftover
      BY <2>5 DEF Next, Continue, Take, AcceptPop, ContentSend, TakeRecv,
         RecvComplete, SendComplete, InitID, InitIncrement, InitFlags, InitClear,
         OnNewConnect, RecvIOCheck, RecvIOPost, RecvIORecheck, RecvIOCancel, SendIOCheck,
         SendIOExchange, SendIOSize, SendIORecheck, SendIOCancel, ClearSendFlag,
         CancelRegist, IORelease, SentEarlyLoad, SentMore, RecvLoop, KickCancel,
         HandlerRelease, FindIncrement, FindCheckID, SendReqPost, DisconnectCancel,
         FinderRelease, DeleteCAS, DeletePush, OnDisconnect
    <3> QED BY <2>2, <3>1
  <2> QED BY <2>3, <2>4, <2>5
<1> QED BY <1>1, <1>2

\* A slot gets a new ID only when nothing of its last session is left
\* (network.cpp:264), for any number of slots and threads.
THEOREM ReusedAfterAll == Spec => ReuseIsClean
<1>1. Init => CleanInv
  <2> SUFFICES ASSUME Init PROVE CleanInv OBVIOUS
  <2> QED BY DEF Init, CleanInv
<1>2. IInv /\ IInv' /\ FreeInv /\ CleanInv /\ [Next]_vars => CleanInv'
  BY LostStep, FoundEmptyStep DEF CleanInv
<1>3. ASSUME IInv, FreeInv, CleanInv, [Next]_vars, NEW s \in Slots, ID'[s] # ID[s]
      PROVE  /\ recvOv[s] = "idle" /\ sendOv[s] = "idle" /\ posts[s] = 0
             /\ sendBuffer[s] = 0 /\ ~leftover[s] /\ Handlers(s) = {} /\ leaked[s] = 0
  <2>i. ID \in [Slots -> IDs] /\ posts \in [Slots -> Nat] /\ released \in [Slots -> BOOLEAN]
    BY <1>3 DEF IInv, TypeOK
  <2>1. PICK t \in Threads : InitID(t)
    <3>1. \E t \in Threads : Loud(t) BY <1>3, QuietKeeps DEF IdsKept
    <3> QED BY <1>3, <3>1 DEF Loud, AcceptPop, InitClear, OnNewConnect, DeleteCAS, DeletePush,
            OnDisconnect
  <2>2. tgt[t] = s /\ pc[t] = "init_id" BY <1>3, <2>1, <2>i DEF InitID
  <2>3. released[s] \/ Fresh(s) BY <2>2 DEF Fresh, InitStage
  <2>4. ~Busy(s) /\ leaked[s] = 0
    BY <1>3, <2>3 DEF IInv, Live, FreshUnknown, CleanInv, FreeInv, FreshExact
  <2>5. ASSUME NEW u \in Threads, sess[u] = s PROVE FALSE
    <3>1. s # NoSlot BY ThreadsAssumption
    <3>2. pc[u] \in InitLabels
      BY <1>3, <2>3, <2>5, <3>1 DEF IInv, Live, LiveAt, FreshUnknown
    <3>3. tgt[u] = s /\ u # t
      BY <1>3, <2>2, <2>5, <3>2 DEF IInv, ControlOK, ControlAt, InitLabels
    <3> QED BY <1>3, <2>2, <3>2, <3>3
        DEF IInv, Owned, OwnersDiffer, OwnLabels, InitStage, InitLabels
  <2>6. sendBuffer[s] = 0 /\ ~leftover[s] BY <1>3, <2>2 DEF CleanInv, Emptied
  <2> QED BY <2>4, <2>5, <2>6, <2>i DEF Busy, Handlers
<1>4. IInv /\ FreeInv /\ CleanInv /\ [Next]_vars =>
         [\A s \in Slots : ID'[s] # ID[s] =>
            /\ recvOv[s] = "idle" /\ sendOv[s] = "idle" /\ posts[s] = 0
            /\ sendBuffer[s] = 0 /\ ~leftover[s] /\ Handlers(s) = {} /\ leaked[s] = 0]_vars
  BY <1>3
<1> QED BY <1>1, <1>2, <1>4, Invariance, FreeSlotsAreClean, PTL DEF Spec, ReuseIsClean
=============================================================================
