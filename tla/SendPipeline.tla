----------------------------- MODULE SendPipeline -----------------------------
(***************************************************************************)
(* The way of a packet from the content thread to the clients: sendReq     *)
(* encrypts it and posts it to the completion port, a worker moves it into *)
(* the session's sendBuffer, sendIO from there into sendedBuffer and to    *)
(* the kernel, and the completion frees what was sent (network.cpp:296,    *)
(* session.cpp:56-190).  One serializer is shared by all the sessions it   *)
(* is sent to and counted by referenceCounter.                             *)
(*                                                                         *)
(* NetServer counts packets and splits every access to sendFlag and        *)
(* IOcount; here packets have an identity and bytes, and IOcount is        *)
(* replaced by what it counts (RefCountExact of NetServer): Release waits  *)
(* until nothing refers to the session.  sendBuffer is a queue, as         *)
(* LockFreeQueue implements it.                                            *)
(***************************************************************************)
EXTENDS PacketCodec, SequencesExt

CONSTANTS
    Sessions, Workers,
    Packets,        \* objects of serializerPool
    Nobody,         \* a null pointer to a packet or a session
    HeaderSize,     \* sizeof(networkHeader)
    RandKeys,       \* what getRandKey returns
    SendQueueCap,   \* packets a sendBuffer holds
    SendBatch,      \* WSABUFs of one WSASend (100)
    Sends,          \* bound: what the content sends one after the other; for each packet, the
                    \* sizes and the lists of sessions it may choose from
    MaxAccept,      \* bound: uses of a session
    MaxFaults       \* bound: operations that fail or end, and calls of disconnectReq

ASSUME PipelineAssumption ==
    /\ IsFiniteSet(Sessions) /\ IsFiniteSet(Workers) /\ IsFiniteSet(Packets)
    /\ Nobody \notin Sessions \union Packets
    /\ HeaderSize \in Nat \ {0} /\ RandKeys \subseteq Byte
    /\ SendQueueCap \in Nat /\ SendBatch \in Nat \ {0}
    /\ Sends \in Seq(SUBSET [size : Nat, to : Seq(Sessions)])
    /\ \A i \in DOMAIN Sends : \A m \in Sends[i] : IsInjective(m.to)
    /\ MaxAccept \in Nat \ {0} /\ MaxFaults \in Nat

VARIABLES
    \* serializers
    pool,          \* the free ones
    referenceCounter,
    buffer,        \* their bytes
    message,       \* history: number and text of what they carry, sessions it was sent to
    \* the content thread
    cpc, cpacket, targets, serial,
    \* sessions
    connection,    \* which use of the session
    receiving,     \* it has its receive, and is not released before that ends
    released,
    cancelIOFlag, sendFlag, sendBuffer, sendedBuffer,
    posts,         \* its sendReq posts in the port, in their order
    sendOv,        \* sendOverlapped: "idle", "pending", completed "ok" or "failed"
    wsabufs,       \* packets of the WSASend in progress
    \* the workers
    wpc, wsession, wpacket,
    \* history
    received,      \* what the client got
    raced,         \* two workers had posts of the session in hand at once
    failed,        \* a WSASend failed other than by a reset
    wrapped,       \* sended() counted below zero
    faults

packetVars  == <<pool, referenceCounter, buffer, message>>
contentVars == <<cpc, cpacket, targets, serial>>
lifeVars    == <<connection, receiving, released>>
bufferVars  == <<sendBuffer, sendedBuffer>>
ioVars      == <<sendOv, wsabufs>>
workerVars  == <<wpc, wsession, wpacket>>
historyVars == <<received, raced, failed, wrapped, faults>>
sessionVars == <<lifeVars, cancelIOFlag, sendFlag, bufferVars, posts, ioVars>>
vars == <<packetVars, contentVars, sessionVars, workerVars, historyVars>>

\* A text of len bytes for the k-th packet.
Text(k, len) == [i \in 1 .. len |-> Char(k)]
NoMessage == [serial |-> 0, text |-> <<>>, copies |-> 0]

\* serializer::size
Size(p) == HeaderSize + Len(payload(buffer[p]))

Init ==
    /\ pool = Packets
    /\ referenceCounter = [p \in Packets |-> 0]
    /\ buffer = [p \in Packets |-> Plain(<<>>)]
    /\ message = [p \in Packets |-> NoMessage]
    /\ cpc = "idle" /\ cpacket = Nobody /\ targets = <<>> /\ serial = 0
    /\ connection = [s \in Sessions |-> 1]
    /\ receiving = [s \in Sessions |-> TRUE]
    /\ released = [s \in Sessions |-> FALSE]
    /\ cancelIOFlag = [s \in Sessions |-> FALSE]
    /\ sendFlag = [s \in Sessions |-> FALSE]
    /\ sendBuffer = [s \in Sessions |-> <<>>]
    /\ sendedBuffer = [s \in Sessions |-> <<>>]
    /\ posts = [s \in Sessions |-> <<>>]
    /\ sendOv = [s \in Sessions |-> "idle"]
    /\ wsabufs = [s \in Sessions |-> <<>>]
    /\ wpc = [w \in Workers |-> "idle"]
    /\ wsession = [w \in Workers |-> Nobody]
    /\ wpacket = [w \in Workers |-> Nobody]
    /\ received = [s \in Sessions |-> <<>>]
    /\ raced = [s \in Sessions |-> FALSE]
    /\ failed = [s \in Sessions |-> FALSE]
    /\ wrapped = FALSE
    /\ faults = 0

Fault == faults < MaxFaults /\ faults' = faults + 1

\* Packets of ps go back to the pool; what is in a free one does not matter.
Free(ps) ==
    /\ pool' = pool \union ps
    /\ buffer' = [p \in Packets |-> IF p \in ps THEN Plain(<<>>) ELSE buffer[p]]
    /\ message' = [p \in Packets |-> IF p \in ps THEN NoMessage ELSE message[p]]

\* if (p->decReferenceCounter() == 0) serializerFree(p), for each packet of ps.
Drop(ps) ==
    /\ referenceCounter' = [p \in Packets |-> referenceCounter[p] - IF p \in ps THEN 1 ELSE 0]
    /\ Free({p \in ps : referenceCounter[p] = 1})

----------------------------------------------------------------------------
(* The content thread. *)

\* A job makes a packet for some sessions, each known by its ID.  The counter
\* of an object from the pool is not reset (packet.cpp:29).
NewPacket ==
    /\ cpc = "idle" /\ serial < Len(Sends)
    /\ \E p \in pool, m \in Sends[serial + 1] :
           /\ pool' = pool \ {p}
           /\ referenceCounter' = [referenceCounter EXCEPT ![p] = @ + 1]
           /\ buffer' = [buffer EXCEPT ![p] = Plain(Text(serial + 1, m.size))]
           /\ message' = [message EXCEPT ![p] =
                  [serial |-> serial + 1, text |-> Text(serial + 1, m.size), copies |-> 0]]
           /\ cpacket' = p
           /\ targets' = [i \in DOMAIN m.to |-> <<m.to[i], connection[m.to[i]]>>]
    /\ serial' = serial + 1
    /\ cpc' = "send"
    /\ UNCHANGED <<sessionVars, workerVars, historyVars>>

Target == Head(targets)[1]

\* findSession of a session that is gone.
SendReqGone ==
    /\ cpc = "send" /\ targets # <<>>
    /\ released[Target] \/ connection[Target] # Head(targets)[2]
    /\ targets' = Tail(targets)
    /\ UNCHANGED <<packetVars, cpc, cpacket, serial, sessionVars, workerVars, historyVars>>

\* sendReq writes the header, also when the packet is already on its way to
\* the session before this one.
SendReqHeader ==
    /\ cpc = "send" /\ targets # <<>>
    /\ ~released[Target] /\ connection[Target] = Head(targets)[2]
    /\ \E key \in RandKeys :
           buffer' = [buffer EXCEPT ![cpacket] = setHeader(@, key)]
    /\ message' = [message EXCEPT ![cpacket].copies = @ + 1]
    /\ cpc' = "encrypt"
    /\ UNCHANGED <<pool, referenceCounter, cpacket, targets, serial, sessionVars, workerVars, historyVars>>

SendReqPost_NoIncrement ==
    /\ cpc = "encrypt"
    /\ buffer' = [buffer EXCEPT ![cpacket] = encryption(@)]
    /\ posts' = [posts EXCEPT ![Target] = Append(@, cpacket)]
    /\ targets' = Tail(targets)
    /\ cpc' = "send"
    /\ UNCHANGED <<pool, referenceCounter, message, cpacket, serial, lifeVars, cancelIOFlag, sendFlag,
                   bufferVars, ioVars, workerVars, historyVars>>

\* It encrypts in place, takes a reference and posts the packet.
SendReqPost ==
    /\ cpc = "encrypt"
    /\ buffer' = [buffer EXCEPT ![cpacket] = encryption(@)]
    /\ referenceCounter' = [referenceCounter EXCEPT ![cpacket] = @ + 1]
    /\ posts' = [posts EXCEPT ![Target] = Append(@, cpacket)]
    /\ targets' = Tail(targets)
    /\ cpc' = "send"
    /\ UNCHANGED <<pool, message, cpacket, serial, lifeVars, cancelIOFlag, sendFlag,
                   bufferVars, ioVars, workerVars, historyVars>>

SendEnd_FreesAlways ==
    /\ cpc = "send" /\ targets = <<>>
    /\ Free({cpacket})
    /\ referenceCounter' = [referenceCounter EXCEPT ![cpacket] = @ - 1]
    /\ cpc' = "idle" /\ cpacket' = Nobody
    /\ UNCHANGED <<targets, serial, sessionVars, workerVars, historyVars>>

\* The content drops its own reference.
SendEnd ==
    /\ cpc = "send" /\ targets = <<>>
    /\ Drop({cpacket})
    /\ cpc' = "idle" /\ cpacket' = Nobody
    /\ UNCHANGED <<targets, serial, sessionVars, workerVars, historyVars>>

Content == NewPacket \/ SendReqGone \/ SendReqHeader \/ SendReqPost \/ SendEnd

----------------------------------------------------------------------------
(* The workers. *)

\* A worker that is done leaves the session.
Goto(w, label) ==
    /\ wpc' = [wpc EXCEPT ![w] = label]
    /\ wsession' = [wsession EXCEPT ![w] = IF label = "idle" THEN Nobody ELSE @]
Begin(w, s, label) ==
    /\ wpc' = [wpc EXCEPT ![w] = label]
    /\ wsession' = [wsession EXCEPT ![w] = s]
At(w, label) == wpc[w] = label

\* A worker takes a post of s (requestCheck, sendReq).
TakePost(w, s) ==
    /\ At(w, "idle") /\ posts[s] # <<>>
    /\ wpacket' = [wpacket EXCEPT ![w] = Head(posts[s])]
    /\ posts' = [posts EXCEPT ![s] = Tail(@)]
    /\ raced' = [raced EXCEPT ![s] =
           @ \/ \E v \in Workers : At(v, "collect") /\ wsession[v] = s]
    /\ Begin(w, s, "collect")
    /\ UNCHANGED <<packetVars, contentVars, lifeVars, cancelIOFlag, sendFlag, bufferVars, ioVars,
                   received, failed, wrapped, faults>>

CollectSendPacket_Stack(w) ==
    LET s == wsession[w]
    IN  /\ At(w, "collect")
        /\ wpacket' = [wpacket EXCEPT ![w] = Nobody]
        /\ \/ /\ Len(sendBuffer[s]) < SendQueueCap
              /\ sendBuffer' = [sendBuffer EXCEPT ![s] = <<wpacket[w]>> \o @]
              /\ Goto(w, "send_chk")
              /\ UNCHANGED packetVars
           \/ /\ Len(sendBuffer[s]) >= SendQueueCap
              /\ Drop({wpacket[w]})
              /\ Goto(w, "idle")
              /\ UNCHANGED sendBuffer
        /\ UNCHANGED <<contentVars, lifeVars, cancelIOFlag, sendFlag, sendedBuffer, posts,
                       ioVars, historyVars>>

\* collectSendPacket: a full sendBuffer refuses the packet, which is dropped.
CollectSendPacket(w) ==
    LET s == wsession[w]
    IN  /\ At(w, "collect")
        /\ wpacket' = [wpacket EXCEPT ![w] = Nobody]
        /\ \/ /\ Len(sendBuffer[s]) < SendQueueCap
              /\ sendBuffer' = [sendBuffer EXCEPT ![s] = Append(@, wpacket[w])]
              /\ Goto(w, "send_chk")
              /\ UNCHANGED packetVars
           \/ /\ Len(sendBuffer[s]) >= SendQueueCap
              /\ Drop({wpacket[w]})
              /\ Goto(w, "idle")
              /\ UNCHANGED sendBuffer
        /\ UNCHANGED <<contentVars, lifeVars, cancelIOFlag, sendFlag, sendedBuffer, posts,
                       ioVars, historyVars>>

\* sendIO gives up on a cancelled session.
SendIOCheck(w) ==
    /\ At(w, "send_chk")
    /\ Goto(w, IF cancelIOFlag[wsession[w]] THEN "idle" ELSE "send_io")
    /\ UNCHANGED <<packetVars, contentVars, sessionVars, wpacket, historyVars>>

\* The packets of the next WSASend.
Batch(s) == SubSeq(sendBuffer[s], 1, Min({SendBatch, Len(sendBuffer[s])}))

\* It leaves the sending to the one who has sendFlag; takes the flag and finds
\* nothing to send; or moves packets into sendedBuffer and calls WSASend, which
\* starts, or fails because the connection was reset, or fails otherwise.
SendIOBusy(w) ==
    /\ At(w, "send_io") /\ sendFlag[wsession[w]]
    /\ Goto(w, "idle")
    /\ UNCHANGED <<packetVars, contentVars, sessionVars, wpacket, historyVars>>

SendIOEmpty(w) ==
    LET s == wsession[w]
    IN  /\ At(w, "send_io") /\ ~sendFlag[s] /\ sendBuffer[s] = <<>>
        /\ sendFlag' = [sendFlag EXCEPT ![s] = TRUE]
        /\ Goto(w, "undo")
        /\ UNCHANGED <<packetVars, contentVars, lifeVars, cancelIOFlag, bufferVars, posts, ioVars,
                       wpacket, historyVars>>

SendIO(w) ==
    LET s == wsession[w]
    IN  /\ At(w, "send_io") /\ ~sendFlag[s] /\ sendBuffer[s] # <<>>
        /\ sendFlag' = [sendFlag EXCEPT ![s] = TRUE]
        /\ sendBuffer' = [sendBuffer EXCEPT ![s] = SubSeq(@, Len(Batch(s)) + 1, Len(@))]
        /\ sendedBuffer' = [sendedBuffer EXCEPT ![s] = @ \o Batch(s)]
        /\ \/ /\ sendOv' = [sendOv EXCEPT ![s] = "pending"]
              /\ wsabufs' = [wsabufs EXCEPT ![s] = Batch(s)]
              /\ Goto(w, "idle") /\ UNCHANGED <<failed, faults>>
           \/ /\ Fault
              /\ Goto(w, "cancel") /\ UNCHANGED <<ioVars, failed>>
           \/ /\ Fault
              /\ failed' = [failed EXCEPT ![s] = TRUE]
              /\ Goto(w, "fail_clear") /\ UNCHANGED ioVars
        /\ UNCHANGED <<packetVars, contentVars, lifeVars, cancelIOFlag, posts,
                       wpacket, received, raced, wrapped>>

\* sendFlag = 0: sendIO had nothing to send, WSASend failed, or sended is done
\* and more is sent if there is more.
ClearSendFlag(w) ==
    LET s == wsession[w]
    IN  /\ wpc[w] \in {"undo", "fail_clear", "clear"}
        /\ sendFlag' = [sendFlag EXCEPT ![s] = FALSE]
        /\ \/ At(w, "undo") /\ Goto(w, "idle")
           \/ At(w, "fail_clear") /\ Goto(w, "cancel")
           \/ At(w, "clear") /\ Goto(w, IF sendBuffer[s] = <<>> THEN "idle" ELSE "send_chk")
        /\ UNCHANGED <<packetVars, contentVars, lifeVars, cancelIOFlag, bufferVars, posts, ioVars,
                       wpacket, historyVars>>

\* cancelIORegist, and the receive is cancelled: it may end at any time anyway.
CancelIORegist(w) ==
    /\ At(w, "cancel")
    /\ cancelIOFlag' = [cancelIOFlag EXCEPT ![wsession[w]] = TRUE]
    /\ Goto(w, "idle")
    /\ UNCHANGED <<packetVars, contentVars, lifeVars, sendFlag, bufferVars, posts, ioVars,
                   wpacket, historyVars>>

Bytes(ps) == Total([i \in DOMAIN ps |-> Size(ps[i])])

\* sended() pops packets until their sizes make up the bytes of the completion.
\* If they do not come out even, the unsigned transfer wraps: sendedBuffer is
\* emptied and the last packet counted down again and again, and nothing can be
\* said of the program any more.
TakeSend(w, s) ==
    LET transfer == Bytes(wsabufs[s])
        Even(n)  == Bytes(SubSeq(sendedBuffer[s], 1, n)) = transfer
        Pops(n)  == /\ Drop(Range(SubSeq(sendedBuffer[s], 1, n)))
                    /\ sendedBuffer' = [sendedBuffer EXCEPT ![s] = SubSeq(@, n + 1, Len(@))]
    IN  /\ At(w, "idle") /\ sendOv[s] = "ok"
        /\ sendOv' = [sendOv EXCEPT ![s] = "idle"]
        /\ wsabufs' = [wsabufs EXCEPT ![s] = <<>>]
        /\ \/ \E n \in 1 .. Len(sendedBuffer[s]) :
                  Even(n) /\ Pops(n) /\ UNCHANGED wrapped
           \/ /\ \A n \in 1 .. Len(sendedBuffer[s]) : ~Even(n)
              /\ Pops(Len(sendedBuffer[s])) /\ wrapped' = TRUE
        /\ Begin(w, s, "clear")
        /\ UNCHANGED <<contentVars, lifeVars, cancelIOFlag, sendFlag, sendBuffer, posts, wpacket,
                       received, raced, failed, faults>>

\* The completion of a failed send only drops its reference to the session.
TakeFailed(w, s) ==
    /\ At(w, "idle") /\ sendOv[s] = "failed"
    /\ sendOv' = [sendOv EXCEPT ![s] = "idle"]
    /\ wsabufs' = [wsabufs EXCEPT ![s] = <<>>]
    /\ UNCHANGED <<packetVars, contentVars, lifeVars, cancelIOFlag, sendFlag, bufferVars, posts,
                   workerVars, historyVars>>

Worker(w) ==
    \/ \E s \in Sessions : TakePost(w, s) \/ TakeSend(w, s) \/ TakeFailed(w, s)
    \/ CollectSendPacket(w) \/ SendIOCheck(w) \/ SendIOBusy(w) \/ SendIOEmpty(w) \/ SendIO(w)
    \/ ClearSendFlag(w) \/ CancelIORegist(w)

----------------------------------------------------------------------------
(* The kernel, the client, and the life of a session. *)

\* What the client makes of packet p as its bytes are now.
Delivery(p) ==
    LET q == decrypted(buffer[p])
    IN  [serial |-> message[p].serial,
         copies |-> message[p].copies,
         readable |-> ChecksumHolds(q) /\ payload(q) = message[p].text]

\* The kernel has read the buffers and sent them, or gives up.
SendComplete(s) ==
    /\ sendOv[s] = "pending"
    /\ \/ /\ sendOv' = [sendOv EXCEPT ![s] = "ok"]
          /\ received' = [received EXCEPT ![s] =
                 @ \o [i \in DOMAIN wsabufs[s] |-> Delivery(wsabufs[s][i])]]
          /\ UNCHANGED faults
       \/ /\ Fault
          /\ sendOv' = [sendOv EXCEPT ![s] = "failed"]
          /\ UNCHANGED received
    /\ UNCHANGED <<packetVars, contentVars, lifeVars, cancelIOFlag, sendFlag, bufferVars, posts,
                   wsabufs, workerVars, raced, failed, wrapped>>

\* disconnectReq; the operations it cancels may fail at any time anyway.
DisconnectReq(s) ==
    /\ ~released[s] /\ ~cancelIOFlag[s]
    /\ Fault
    /\ cancelIOFlag' = [cancelIOFlag EXCEPT ![s] = TRUE]
    /\ UNCHANGED <<packetVars, contentVars, lifeVars, sendFlag, bufferVars, posts, ioVars,
                   workerVars, received, raced, failed, wrapped>>

\* The client is gone, or the receive was cancelled.
RecvEnds(s) ==
    /\ receiving[s]
    /\ Fault
    /\ receiving' = [receiving EXCEPT ![s] = FALSE]
    /\ UNCHANGED <<packetVars, contentVars, connection, released, cancelIOFlag, sendFlag, bufferVars,
                   posts, ioVars, workerVars, received, raced, failed, wrapped>>

\* Nothing refers to the session, and deleteSession clears its buffers.
Unreferenced(s) ==
    /\ ~receiving[s] /\ posts[s] = <<>> /\ sendOv[s] = "idle"
    /\ \A w \in Workers : wsession[w] # s
    /\ cpc = "encrypt" => Target # s

Release_SendedStays(s) ==
    /\ ~released[s] /\ Unreferenced(s)
    /\ Drop(Range(sendBuffer[s]))
    /\ sendBuffer' = [sendBuffer EXCEPT ![s] = <<>>]
    /\ released' = [released EXCEPT ![s] = TRUE]
    /\ UNCHANGED <<contentVars, connection, receiving, cancelIOFlag, sendFlag, sendedBuffer, posts, ioVars,
                   workerVars, historyVars>>

Release(s) ==
    /\ ~released[s] /\ Unreferenced(s)
    /\ Drop(Range(sendBuffer[s] \o sendedBuffer[s]))
    /\ sendBuffer' = [sendBuffer EXCEPT ![s] = <<>>]
    /\ sendedBuffer' = [sendedBuffer EXCEPT ![s] = <<>>]
    /\ released' = [released EXCEPT ![s] = TRUE]
    /\ UNCHANGED <<contentVars, connection, receiving, cancelIOFlag, sendFlag, posts, ioVars,
                   workerVars, historyVars>>

\* acceptThread takes the session for another client; init clears the flags.
Accept(s) ==
    /\ released[s] /\ connection[s] < MaxAccept
    /\ connection' = [connection EXCEPT ![s] = @ + 1]
    /\ receiving' = [receiving EXCEPT ![s] = TRUE]
    /\ released' = [released EXCEPT ![s] = FALSE]
    /\ cancelIOFlag' = [cancelIOFlag EXCEPT ![s] = FALSE]
    /\ sendFlag' = [sendFlag EXCEPT ![s] = FALSE]
    /\ received' = [received EXCEPT ![s] = <<>>]
    /\ raced' = [raced EXCEPT ![s] = FALSE]
    /\ failed' = [failed EXCEPT ![s] = FALSE]
    /\ UNCHANGED <<packetVars, contentVars, bufferVars, posts, ioVars, workerVars, wrapped, faults>>

Life(s) == SendComplete(s) \/ DisconnectReq(s) \/ RecvEnds(s) \/ Release(s) \/ Accept(s)

Next ==
    /\ ~wrapped
    /\ \/ Content
       \/ \E w \in Workers : Worker(w)
       \/ \E s \in Sessions : Life(s)

Spec == Init /\ [][Next]_vars

----------------------------------------------------------------------------
TypeOK ==
    /\ pool \subseteq Packets
    /\ referenceCounter \in [Packets -> Nat]
    /\ cpc \in {"idle", "send", "encrypt"}
    /\ cpacket \in Packets \union {Nobody}
    /\ sendBuffer \in [Sessions -> Seq(Packets)]
    /\ sendedBuffer \in [Sessions -> Seq(Packets)]
    /\ posts \in [Sessions -> Seq(Packets)]
    /\ wsabufs \in [Sessions -> Seq(Packets)]
    /\ sendOv \in [Sessions -> {"idle", "pending", "ok", "failed"}]
    /\ wsession \in [Workers -> Sessions \union {Nobody}]
    /\ wpacket \in [Workers -> Packets \union {Nobody}]

\* The packets of s that wait in the port, are in a worker's hand, queued, or
\* with the kernel: each of them once.
InHand(s)  == {wpacket[w] : w \in {v \in Workers : At(v, "collect") /\ wsession[v] = s}}
Waiting(s) == sendedBuffer[s] \o sendBuffer[s] \o posts[s]

\* A packet has one reference for the content thread while it sends it and one
\* for each session it is on its way to, and returns to the pool with the last
\* of them: no session loses a packet that another one still sends, and none is
\* kept (serializer.h:125, session.cpp:156, network.cpp:323).  The objects of the
\* pool have no reference, which Alloc relies on (packet.cpp:29).
RefsExact ==
    /\ TypeOK
    /\ \A s \in Sessions :
           IsInjective(Waiting(s)) /\ Range(Waiting(s)) \intersect InHand(s) = {}
    /\ ~wrapped => \A p \in Packets :
           /\ referenceCounter[p] =
                 (IF cpacket = p THEN 1 ELSE 0)
                 + Cardinality({s \in Sessions : p \in Range(Waiting(s)) \union InHand(s)})
           /\ p \in pool <=> referenceCounter[p] = 0

\* While the kernel may read a packet's buffer it is not freed, and no other
\* message is put into it; not even after a WSASend of the session failed.
PendingSendIsIntact ==
    \A s \in Sessions : sendOv[s] = "pending" =>
        /\ Range(wsabufs[s]) \intersect pool = {}
        /\ IsSuffix(wsabufs[s], sendedBuffer[s])

\* sended() leaves a transfer of 0 (session.h:46): what it pops is what the
\* WSASend took, UNLESS a WSASend of the session failed other than by a reset.
\* Its packets stay in sendedBuffer and sendFlag is cleared before cancelIOFlag
\* is set, so that another worker may send once more (session.cpp:96).
SendedPopsWhatWasSent ==
    /\ wrapped => \E s \in Sessions : failed[s]
    /\ \A s \in Sessions : sendOv[s] \in {"pending", "ok"} /\ ~failed[s] =>
           sendedBuffer[s] = wsabufs[s]

\* A client that decrypts a packet reads the text that was sent, UNLESS the
\* packet goes to several sessions: then sendReq encrypts once for each of them
\* in the same buffer, over what may be queued or in the kernel for the ones
\* before (chattingServer.cpp:161, network.cpp:541).
ClientReadsUnlessBroadcast ==
    \A s \in Sessions : \A i \in DOMAIN received[s] :
        received[s][i].copies = 1 => received[s][i].readable

\* A client gets its packets in the order they were sent, UNLESS two workers had
\* taken posts of it at once: they may queue them either way (network.cpp:296).
InOrderUnlessRaced ==
    \A s \in Sessions : ~raced[s] =>
        \A i, j \in DOMAIN received[s] :
            i < j => received[s][i].serial < received[s][j].serial
================================================================================
