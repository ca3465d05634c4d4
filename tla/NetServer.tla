------------------------------ MODULE NetServer ------------------------------
(***************************************************************************)
(* The session table of class Network (lib/IOCP netServer/network.cpp) and *)
(* the session objects in it (session.cpp): how a slot of sessionArray is  *)
(* taken, referenced, cancelled, released and used again by the accept     *)
(* thread, the worker threads and the threads that call sendReq.           *)
(*                                                                         *)
(* A step is one interlocked operation or one plain access to a field that *)
(* another thread reads or writes.  What a thread does between two such    *)
(* accesses is part of the step.  A packet is abstracted to its existence: *)
(* sendBuffer is a number of packets, posts the number of sendReq posts in *)
(* the completion port.  A completion port hands out completions in any    *)
(* order here (several workers finish in any order anyway).                *)
(***************************************************************************)
EXTENDS Integers, Sequences, FiniteSets

CONSTANTS
    maxSession,      \* size of sessionArray
    AcceptThread,    \* the accept thread
    Workers,         \* the worker threads
    Contents,        \* the threads that call sendReq (the content thread)
    NoSlot,          \* a null session pointer
    IDWrap,          \* MAKE_SESSION_ID keeps sessionCount modulo this (2^16)
    SendQueueCap,    \* packets a sendBuffer holds
    SendBatch,       \* packets one WSASend takes (100)
    StoreLoadReorder,\* the processor may load sendBuffer.size() before it stores sendFlag
    PacketsPerRecv,  \* bound: packets one receive completes
    MaxAccept,       \* bound: connections accepted in a behaviour
    MaxSends         \* bound: sendReq calls in a behaviour

Slots   == 0 .. maxSession - 1
Threads == {AcceptThread} \union Workers \union Contents
IDs     == (0 .. IDWrap - 1) \X Slots

ASSUME SizesAssumption ==
    /\ maxSession \in Nat \ {0}
    /\ IDWrap \in Nat \ {0}
    /\ SendQueueCap \in Nat \ {0}
    /\ SendBatch \in Nat \ {0}
    /\ StoreLoadReorder \in BOOLEAN
    /\ PacketsPerRecv \in Nat
    /\ MaxAccept \in Nat
    /\ MaxSends \in Nat

ASSUME ThreadsAssumption ==
    /\ AcceptThread \notin Workers \union Contents
    /\ Workers \intersect Contents = {}
    /\ IsFiniteSet(Workers)
    /\ IsFiniteSet(Contents)
    /\ NoSlot \notin Slots

VARIABLES
    \* fields of session, one function on Slots each
    ID,            \* the session ID <<count, slot>>
    IOcount,       \* the low 31 bits of IOcount: references to the session
    released,      \* bit 31 of IOcount
    cancelIOFlag,
    sendFlag,
    sendBuffer,    \* packets queued for sending
    recvOv,        \* recvOverlapped: idle, pending in the kernel, or completed
    sendOv,        \* sendOverlapped, likewise
    leftover,      \* sendedBuffer holds packets that no WSASend is sending
    posts,         \* sendReq posts for the slot in the completion port
    leaked,        \* history: references no code path will drop any more
    \* fields of Network
    indexStack,    \* free slots, top at the end
    sessionCount,
    \* history: what the callbacks told the content, and a bounded counter
    opened,        \* IDs passed to OnNewConnect
    closed,        \* IDs passed to OnDisconnect
    sends,         \* sendReq calls so far
    \* each thread's control point and locals
    pc,
    sess,          \* the session whose completion (or accept) it handles
    found,         \* the session findSession has incremented for it
    tgt,           \* the session it initialises or deletes
    want,          \* the session ID it looks up, initialises or disconnects
    ret,           \* where the procedure it is in returns to
    todo           \* packets left in the receive it handles

sessionVars == <<ID, IOcount, released, cancelIOFlag, leaked>>
sendVars    == <<sendFlag, sendBuffer, sendOv, leftover, posts>>
ioVars      == <<sendVars, recvOv>>
tableVars   == <<indexStack, sessionCount>>
toldVars    == <<opened, closed, sends>>
localVars   == <<sess, found, tgt, want, ret, todo>>
threadVars  == <<pc, localVars>>
restVars    == <<tableVars, toldVars, localVars>>
vars        == <<sessionVars, ioVars, tableVars, toldVars, threadVars>>

MAKE_SESSION_ID(count, index) == <<count % IDWrap, index>>
GET_INDEX(id) == id[2]

RecvResults == {"ok", "full", "zero", "fail"}
SendResults == {"ok", "fail"}
Labels ==
    {"idle",
     "init_id", "init_inc", "init_flags", "init_clear", "new_connect",
     "recv_chk", "recv_wsa", "recv_again", "recv_fail", "recv_cancel", "recv_dec",
     "send_chk", "send_xchg", "send_size", "send_undo", "send_wsa", "send_again",
     "send_reset", "send_fail", "send_cancel", "send_dec",
     "sended", "sent", "sent_late", "sent_more", "loop", "kick", "kick_cancel",
     "find", "find_id", "found", "disc_cancel", "drop",
     "dec", "del_cas", "del_clear", "del_push", "del_notify"}

\* Control points at which a thread holds, besides its session pointer, the
\* reference taken for an overlapped operation it has not yet handed over.
IOLabels == {"recv_wsa", "recv_fail", "recv_cancel", "recv_dec",
             "send_wsa", "send_reset", "send_fail", "send_cancel", "send_dec"}

-----------------------------------------------------------------------------
Init ==
    /\ ID           = [s \in Slots |-> <<0, 0>>]
    /\ IOcount      = [s \in Slots |-> 0]
    /\ released     = [s \in Slots |-> FALSE]
    /\ cancelIOFlag = [s \in Slots |-> FALSE]
    /\ sendFlag     = [s \in Slots |-> FALSE]
    /\ sendBuffer   = [s \in Slots |-> 0]
    /\ recvOv       = [s \in Slots |-> "idle"]
    /\ sendOv       = [s \in Slots |-> "idle"]
    /\ leftover     = [s \in Slots |-> FALSE]
    /\ posts        = [s \in Slots |-> 0]
    /\ leaked       = [s \in Slots |-> 0]
    /\ indexStack   = [i \in 1 .. maxSession |-> maxSession - i]
    /\ sessionCount = 0
    /\ opened = {} /\ closed = {} /\ sends = 0
    /\ pc    = [t \in Threads |-> "idle"]
    /\ sess  = [t \in Threads |-> NoSlot]
    /\ found = [t \in Threads |-> NoSlot]
    /\ tgt   = [t \in Threads |-> NoSlot]
    /\ want  = [t \in Threads |-> <<0, 0>>]
    /\ ret   = [t \in Threads |-> "idle"]
    /\ todo  = [t \in Threads |-> 0]

Goto(t, label) == pc' = [pc EXCEPT ![t] = label]

\* t calls the procedure that starts at label and resumes at back.
Call(t, label, back) == Goto(t, label) /\ ret' = [ret EXCEPT ![t] = back]

Increment(s) == IOcount' = [IOcount EXCEPT ![s] = @ + 1]

\* if (s->decrementIO() == 0) deleteSession(s); then go on at next.  The whole
\* 32-bit word is compared: the released bit makes it nonzero.
Decrement(t, s, next) ==
    /\ IOcount' = [IOcount EXCEPT ![s] = @ - 1]
    /\ IF IOcount[s] = 1 /\ ~released[s]
         THEN /\ Call(t, "del_cas", next)
              /\ tgt' = [tgt EXCEPT ![t] = s]
         ELSE /\ Goto(t, next)
              /\ UNCHANGED <<tgt, ret>>

\* CancelIoEx on one overlapped operation: only a pending one is cancelled.
CancelIoEx(ov, s) == [ov EXCEPT ![s] = IF @ = "pending" THEN "fail" ELSE @]

-----------------------------------------------------------------------------
(* acceptThread *)

\* A connection arrives and a slot is free (with no free slot the socket is
\* closed and nothing changes).
AcceptPop(t) ==
    /\ pc[t] = "idle" /\ t = AcceptThread
    /\ sessionCount < MaxAccept
    /\ indexStack # << >>
    /\ LET index == indexStack[Len(indexStack)] IN
         /\ tgt'  = [tgt EXCEPT ![t] = index]
         /\ want' = [want EXCEPT ![t] = MAKE_SESSION_ID(sessionCount, index)]
    /\ indexStack' = SubSeq(indexStack, 1, Len(indexStack) - 1)
    /\ sessionCount' = sessionCount + 1
    /\ Goto(t, "init_id")
    /\ UNCHANGED <<sess, found, ret, todo, sessionVars, ioVars, toldVars>>

InitID(t) ==
    /\ pc[t] = "init_id"
    /\ ID' = [ID EXCEPT ![tgt[t]] = want[t]]
    /\ Goto(t, "init_inc")
    /\ UNCHANGED <<IOcount, released, cancelIOFlag, leaked, restVars, ioVars>>

InitIncrement(t) ==
    /\ pc[t] = "init_inc"
    /\ Increment(tgt[t])
    /\ sess' = [sess EXCEPT ![t] = tgt[t]]
    /\ Goto(t, "init_flags")
    /\ UNCHANGED <<ID, released, cancelIOFlag, leaked, found, tgt, want, ret, todo,
                   ioVars, tableVars, toldVars>>

InitFlags(t) ==
    /\ pc[t] = "init_flags"
    /\ sendFlag' = [sendFlag EXCEPT ![tgt[t]] = FALSE]
    /\ cancelIOFlag' = [cancelIOFlag EXCEPT ![tgt[t]] = FALSE]
    /\ Goto(t, "init_clear")
    /\ UNCHANGED <<ID, IOcount, released, leaked, sendBuffer, recvOv, sendOv,
                   leftover, posts, restVars>>

\* InterlockedAnd(&IOcount, 0x7fffffff): from here on the ID can be found.
InitClear(t) ==
    /\ pc[t] = "init_clear"
    /\ released' = [released EXCEPT ![tgt[t]] = FALSE]
    /\ tgt' = [tgt EXCEPT ![t] = NoSlot]
    /\ Goto(t, "new_connect")
    /\ UNCHANGED <<ID, IOcount, cancelIOFlag, leaked, sess, found, want, ret, todo,
                   ioVars, tableVars, toldVars>>

OnNewConnect(t) ==
    /\ pc[t] = "new_connect"
    /\ opened' = opened \union {want[t]}
    /\ Call(t, "recv_chk", "dec")
    /\ UNCHANGED <<closed, sends, sess, found, tgt, want, todo, sessionVars,
                   ioVars, tableVars>>

-----------------------------------------------------------------------------
(* session::recvIO, called by the accept thread and by a worker; the caller   *)
(* holds a reference.                                                         *)

\* Mutation of RecvIOCheck: recvIO takes no reference for the receive.
RecvIOCheck_NoReference(t) ==
    /\ pc[t] = "recv_chk"
    /\ Goto(t, IF cancelIOFlag[sess[t]] THEN ret[t] ELSE "recv_wsa")
    /\ UNCHANGED <<restVars, sessionVars, ioVars>>

\* The cancel flag is read, then the reference of the receive is taken.
RecvIOCheck(t) ==
    /\ pc[t] = "recv_chk"
    /\ IF cancelIOFlag[sess[t]]
         THEN Goto(t, ret[t]) /\ UNCHANGED IOcount
         ELSE Goto(t, "recv_wsa") /\ Increment(sess[t])
    /\ UNCHANGED <<ID, released, cancelIOFlag, leaked, restVars, ioVars>>

\* WSARecv: it is pending, it completes at once, or it fails.
RecvIOPost(t) ==
    /\ pc[t] = "recv_wsa"
    /\ \/ /\ recvOv' = [recvOv EXCEPT ![sess[t]] = "pending"]
          /\ Goto(t, "recv_again")
       \/ /\ \E r \in RecvResults \ {"fail"} :
                recvOv' = [recvOv EXCEPT ![sess[t]] = r]
          /\ Goto(t, ret[t])
       \/ /\ Goto(t, "recv_fail")
          /\ UNCHANGED recvOv
    /\ UNCHANGED <<restVars, sessionVars, sendVars>>


\* After WSA_IO_PENDING: a cancel that came before WSARecv missed it.
RecvIORecheck(t) ==
    /\ pc[t] = "recv_again"
    /\ recvOv' = IF cancelIOFlag[sess[t]] THEN CancelIoEx(recvOv, sess[t]) ELSE recvOv
    /\ Goto(t, ret[t])
    /\ UNCHANGED <<restVars, sessionVars, sendVars>>

AfterRegist == [recv_fail |-> "recv_cancel", send_fail |-> "send_cancel",
                kick |-> "kick_cancel", found |-> "disc_cancel"]

\* cancelIORegist(), from where it is called: a failed WSARecv or WSASend, a
\* wrong checksum (disconnectReq(session)), disconnectReq(sessionID).
CancelRegist(t) ==
    /\ pc[t] \in DOMAIN AfterRegist
    /\ pc[t] = "found" => t \in Workers
    /\ LET s == IF pc[t] = "found" THEN found[t] ELSE sess[t] IN
         cancelIOFlag' = [cancelIOFlag EXCEPT ![s] = TRUE]
    /\ Goto(t, AfterRegist[pc[t]])
    /\ UNCHANGED <<ID, IOcount, released, leaked, restVars, ioVars>>

RecvIOCancel(t) ==
    /\ pc[t] = "recv_cancel"
    /\ sendOv' = CancelIoEx(sendOv, sess[t])
    /\ Goto(t, "recv_dec")
    /\ UNCHANGED <<sendFlag, sendBuffer, recvOv, leftover, posts, restVars, sessionVars>>

\* The failed operation gives its reference back, with recvIO's or sendIO's own
\* test for the last one.
IORelease(t) ==
    /\ pc[t] \in {"recv_dec", "send_dec"}
    /\ Decrement(t, sess[t], ret[t])
    /\ UNCHANGED <<ID, released, cancelIOFlag, leaked, sess, found, want, todo,
                   ioVars, tableVars, toldVars>>

-----------------------------------------------------------------------------
(* session::sendIO, called by a worker after a post or a send completion.     *)

SendIOCheck(t) ==
    /\ pc[t] = "send_chk"
    /\ Goto(t, IF cancelIOFlag[sess[t]] THEN ret[t] ELSE "send_xchg")
    /\ UNCHANGED <<restVars, sessionVars, ioVars>>

\* Mutation of SendIOExchange: the old value of sendFlag is not looked at.
SendIOExchange_NoTest(t) ==
    /\ pc[t] = "send_xchg"
    /\ sendFlag' = [sendFlag EXCEPT ![sess[t]] = TRUE]
    /\ Goto(t, "send_size")
    /\ UNCHANGED <<sendBuffer, recvOv, sendOv, leftover, posts, restVars, sessionVars>>

\* InterlockedExchange16(&sendFlag, 1): one thread at a time goes on.
SendIOExchange(t) ==
    /\ pc[t] = "send_xchg"
    /\ sendFlag' = [sendFlag EXCEPT ![sess[t]] = TRUE]
    /\ Goto(t, IF sendFlag[sess[t]] THEN ret[t] ELSE "send_size")
    /\ UNCHANGED <<sendBuffer, recvOv, sendOv, leftover, posts, restVars, sessionVars>>

\* Mutation of SendIOSize: sendIO takes no reference for the send.
SendIOSize_NoReference(t) ==
    /\ pc[t] = "send_size"
    /\ Goto(t, IF sendBuffer[sess[t]] = 0 THEN "send_undo" ELSE "send_wsa")
    /\ UNCHANGED <<restVars, sessionVars, ioVars>>

\* sendBuffer.size() == 0 ends in send_undo; otherwise the send takes its
\* reference.
SendIOSize(t) ==
    /\ pc[t] = "send_size"
    /\ IF sendBuffer[sess[t]] = 0
         THEN Goto(t, "send_undo") /\ UNCHANGED IOcount
         ELSE Goto(t, "send_wsa") /\ Increment(sess[t])
    /\ UNCHANGED <<ID, released, cancelIOFlag, leaked, restVars, ioVars>>

\* sendFlag = 0: sendIO found nothing to send; WSASend failed with an error
\* other than a connection reset; the worker handles a send completion.
ClearSendFlag(t) ==
    /\ pc[t] \in {"send_undo", "send_reset", "sent", "sent_late"}
    /\ sendFlag' = [sendFlag EXCEPT ![sess[t]] = FALSE]
    /\ Goto(t, CASE pc[t] = "send_reset" -> "send_fail"
                 [] pc[t] = "sent"       -> "sent_more"
                 [] OTHER                -> ret[t])
    /\ UNCHANGED <<sendBuffer, recvOv, sendOv, leftover, posts, restVars, sessionVars>>

\* Up to SendBatch queued packets move to sendedBuffer and WSASend takes them: pending,
\* completed at once, failed with a connection reset, or failed otherwise; a failed
\* WSASend leaves them in sendedBuffer.
SendIOPost(t) ==
    /\ pc[t] = "send_wsa"
    /\ sendBuffer' = [sendBuffer EXCEPT ![sess[t]] =
                        IF @ > SendBatch THEN @ - SendBatch ELSE 0]
    /\ \/ /\ sendOv' = [sendOv EXCEPT ![sess[t]] = "pending"]
          /\ Goto(t, "send_again")
          /\ UNCHANGED leftover
       \/ /\ sendOv' = [sendOv EXCEPT ![sess[t]] = "ok"]
          /\ Goto(t, ret[t])
          /\ UNCHANGED leftover
       \/ /\ \E label \in {"send_fail", "send_reset"} : Goto(t, label)
          /\ leftover' = [leftover EXCEPT ![sess[t]] = TRUE]
          /\ UNCHANGED sendOv
    /\ UNCHANGED <<sendFlag, recvOv, posts, restVars, sessionVars>>

SendIORecheck(t) ==
    /\ pc[t] = "send_again"
    /\ sendOv' = IF cancelIOFlag[sess[t]] THEN CancelIoEx(sendOv, sess[t]) ELSE sendOv
    /\ Goto(t, ret[t])
    /\ UNCHANGED <<sendFlag, sendBuffer, recvOv, leftover, posts, restVars, sessionVars>>

SendIOCancel(t) ==
    /\ pc[t] = "send_cancel"
    /\ recvOv' = CancelIoEx(recvOv, sess[t])
    /\ Goto(t, "send_dec")
    /\ UNCHANGED <<restVars, sessionVars, sendVars>>

-----------------------------------------------------------------------------
(* workerThread: one completion at a time.                                    *)

\* A sendReq post: collectSendPacket, then sendIO; a packet the full buffer
\* does not take is dropped.
TakePost(t, s) ==
    /\ pc[t] = "idle" /\ t \in Workers
    /\ posts[s] > 0
    /\ posts' = [posts EXCEPT ![s] = @ - 1]
    /\ sess' = [sess EXCEPT ![t] = s]
    /\ IF sendBuffer[s] < SendQueueCap
         THEN /\ sendBuffer' = [sendBuffer EXCEPT ![s] = @ + 1]
              /\ Call(t, "send_chk", "dec")
         ELSE /\ Goto(t, "dec")
              /\ UNCHANGED <<sendBuffer, ret>>
    /\ UNCHANGED <<sendFlag, recvOv, sendOv, leftover, found, tgt, want, todo, sessionVars,
                   tableVars, toldVars>>

\* A send completion: GQCS false only gives the reference back, and the packets stay
\* in sendedBuffer; otherwise sended() pops the packets of the send, and if there are
\* others before them it is not said that it ends.
TakeSend(t, s) ==
    /\ pc[t] = "idle" /\ t \in Workers
    /\ sendOv[s] \in SendResults
    /\ sendOv' = [sendOv EXCEPT ![s] = "idle"]
    /\ sess' = [sess EXCEPT ![t] = s]
    /\ \/ /\ sendOv[s] = "fail"
          /\ leftover' = [leftover EXCEPT ![s] = TRUE]
          /\ Call(t, "dec", "dec")
       \/ /\ sendOv[s] = "ok"
          /\ Call(t, IF leftover[s] THEN "sended" ELSE "sent", "dec")
          /\ UNCHANGED leftover
    /\ UNCHANGED <<sendFlag, sendBuffer, recvOv, posts, found, tgt, want, todo,
                   sessionVars, tableVars, toldVars>>

\* The loop of sended() over packets of another send stops only when the sizes it
\* subtracts come to exactly the transfer: with packets left, or, when transfer has
\* wrapped below zero, with sendedBuffer empty and the last packet popped time and again.
\* It need not stop: no fairness for this step.
SendedEnds(t) ==
    /\ pc[t] = "sended"
    /\ \E left \in BOOLEAN : leftover' = [leftover EXCEPT ![sess[t]] = left]
    /\ Goto(t, "sent")
    /\ UNCHANGED <<sendFlag, sendBuffer, recvOv, sendOv, posts, restVars, sessionVars>>

\* In a worker sendFlag = 0 is a plain store and sendBuffer.size() a plain load
\* after it: the processor may load before other threads see the store.
SentEarlyLoad(t) ==
    /\ pc[t] = "sent" /\ StoreLoadReorder
    /\ sendBuffer[sess[t]] = 0
    /\ Goto(t, "sent_late")
    /\ UNCHANGED <<restVars, sessionVars, ioVars>>

SentMore(t) ==
    /\ pc[t] = "sent_more"
    /\ Goto(t, IF sendBuffer[sess[t]] > 0 THEN "send_chk" ELSE "dec")
    /\ UNCHANGED <<restVars, sessionVars, ioVars>>

\* A receive completion.  GQCS false and a zero-byte receive only give the
\* reference back; a receive that fills recvBuffer makes recved() false, and
\* the worker goes on to its next completion without giving it back.
TakeRecv(t, s) ==
    /\ pc[t] = "idle" /\ t \in Workers
    /\ recvOv[s] \in RecvResults
    /\ recvOv' = [recvOv EXCEPT ![s] = "idle"]
    /\ \/ /\ recvOv[s] = "ok"
          /\ sess' = [sess EXCEPT ![t] = s]
          /\ \E n \in 0 .. PacketsPerRecv : todo' = [todo EXCEPT ![t] = n]
          /\ Goto(t, "loop")
          /\ UNCHANGED leaked
       \/ /\ recvOv[s] = "full"
          /\ leaked' = [leaked EXCEPT ![s] = @ + 1]
          /\ UNCHANGED <<pc, sess, todo>>
       \/ /\ recvOv[s] \in {"zero", "fail"}
          /\ sess' = [sess EXCEPT ![t] = s]
          /\ Goto(t, "dec")
          /\ UNCHANGED <<leaked, todo>>
    /\ UNCHANGED <<ID, IOcount, released, cancelIOFlag, found, tgt, want, ret,
                   sendVars, tableVars, toldVars>>

\* OnRecv of one packet: a known type becomes a job, any other is answered by
\* disconnectReq(sessionID).
OnRecv(t) ==
    \/ /\ Goto(t, "loop")
       /\ UNCHANGED <<want, ret>>
    \/ /\ want' = [want EXCEPT ![t] = ID[sess[t]]]
       /\ Call(t, "find", "loop")

\* Mutation of RecvLoop: a packet is taken without a test that one is there.
RecvLoop_NoTest(t) ==
    /\ pc[t] = "loop"
    /\ \/ /\ Call(t, "recv_chk", "dec")
          /\ UNCHANGED <<want, todo>>
       \/ /\ todo' = [todo EXCEPT ![t] = @ - 1]
          /\ OnRecv(t)
    /\ UNCHANGED <<sess, found, tgt, sessionVars, ioVars, tableVars, toldVars>>

\* One turn of the receive loop: recvedPacket found a packet (OnRecv, or first
\* disconnectReq(session) when its checksum is wrong) or found none.
RecvLoop(t) ==
    /\ pc[t] = "loop"
    /\ \/ /\ todo[t] = 0
          /\ Call(t, "recv_chk", "dec")
          /\ UNCHANGED <<want, todo>>
       \/ /\ todo[t] > 0
          /\ todo' = [todo EXCEPT ![t] = @ - 1]
          /\ \/ OnRecv(t)
             \/ Goto(t, "kick") /\ UNCHANGED <<want, ret>>
    /\ UNCHANGED <<sess, found, tgt, sessionVars, ioVars, tableVars, toldVars>>

\* CancelIoEx on the socket, then the packet goes to OnRecv all the same.
KickCancel(t) ==
    /\ pc[t] = "kick_cancel"
    /\ recvOv' = CancelIoEx(recvOv, sess[t])
    /\ sendOv' = CancelIoEx(sendOv, sess[t])
    /\ OnRecv(t)
    /\ UNCHANGED <<sendFlag, sendBuffer, leftover, posts, sess, found, tgt, todo,
                   sessionVars, tableVars, toldVars>>

\* The reference of the completion, or of the accept, is given back.
HandlerRelease(t) ==
    /\ pc[t] = "dec"
    /\ Decrement(t, sess[t], "idle")
    /\ sess' = [sess EXCEPT ![t] = NoSlot]
    /\ UNCHANGED <<ID, released, cancelIOFlag, leaked, found, want, todo, ioVars,
                   tableVars, toldVars>>

-----------------------------------------------------------------------------
(* findSession and its callers: disconnectReq(sessionID) in a worker, sendReq *)
(* in the content thread.                                                     *)

\* The content thread sends to a session ID it has been told of.  The session
\* may be released by now, and its slot in use again.
ContentSend(t) ==
    /\ pc[t] = "idle" /\ t \in Contents
    /\ sends < MaxSends
    /\ sends' = sends + 1
    /\ \E id \in opened : want' = [want EXCEPT ![t] = id]
    /\ Call(t, "find", "idle")
    /\ UNCHANGED <<opened, closed, sess, found, tgt, todo, sessionVars, ioVars,
                   tableVars>>

\* Mutation of FindIncrement: findSession does not look at the released bit.
FindIncrement_NoReleasedTest(t) ==
    /\ pc[t] = "find"
    /\ LET s == GET_INDEX(want[t]) IN
         /\ Increment(s)
         /\ found' = [found EXCEPT ![t] = s]
    /\ Goto(t, "find_id")
    /\ UNCHANGED <<ID, released, cancelIOFlag, leaked, sess, tgt, want, ret, todo,
                   ioVars, tableVars, toldVars>>

FindIncrement(t) ==
    /\ pc[t] = "find"
    /\ LET s == GET_INDEX(want[t]) IN
         /\ Increment(s)
         /\ found' = [found EXCEPT ![t] = s]
         /\ Goto(t, IF released[s] THEN "drop" ELSE "find_id")
    /\ UNCHANGED <<ID, released, cancelIOFlag, leaked, sess, tgt, want, ret, todo,
                   ioVars, tableVars, toldVars>>

FindCheckID(t) ==
    /\ pc[t] = "find_id"
    /\ Goto(t, IF ID[found[t]] = want[t] THEN "found" ELSE "drop")
    /\ UNCHANGED <<restVars, sessionVars, ioVars>>

\* sendReq: a reference for the post, and the post.
SendReqPost(t) ==
    /\ pc[t] = "found" /\ t \in Contents
    /\ Increment(found[t])
    /\ posts' = [posts EXCEPT ![found[t]] = @ + 1]
    /\ Goto(t, "drop")
    /\ UNCHANGED <<ID, released, cancelIOFlag, leaked, sendFlag, sendBuffer,
                   recvOv, sendOv, leftover, restVars>>

DisconnectCancel(t) ==
    /\ pc[t] = "disc_cancel"
    /\ recvOv' = CancelIoEx(recvOv, found[t])
    /\ sendOv' = CancelIoEx(sendOv, found[t])
    /\ Goto(t, "drop")
    /\ UNCHANGED <<sendFlag, sendBuffer, leftover, posts, restVars, sessionVars>>

\* The finder's reference is given back: at the end of sendReq and of
\* disconnectReq, and in findSession when the session is not the one wanted.
FinderRelease(t) ==
    /\ pc[t] = "drop"
    /\ Decrement(t, found[t], ret[t])
    /\ found' = [found EXCEPT ![t] = NoSlot]
    /\ UNCHANGED <<ID, released, cancelIOFlag, leaked, sess, want, todo, ioVars,
                   tableVars, toldVars>>

-----------------------------------------------------------------------------
(* deleteSession *)

\* Mutation of DeleteCAS: the released bit is set without a comparison.
DeleteCAS_NoCompare(t) ==
    /\ pc[t] = "del_cas"
    /\ released' = [released EXCEPT ![tgt[t]] = TRUE]
    /\ want' = [want EXCEPT ![t] = ID[tgt[t]]]
    /\ Goto(t, "del_clear")
    /\ UNCHANGED <<ID, IOcount, cancelIOFlag, leaked, sess, found, tgt, ret, todo,
                   ioVars, tableVars, toldVars>>

\* Mutation of DeleteCAS: the comparison leaves the released bit out.
DeleteCAS_CountOnly(t) ==
    /\ pc[t] = "del_cas"
    /\ IF IOcount[tgt[t]] = 0
         THEN /\ released' = [released EXCEPT ![tgt[t]] = TRUE]
              /\ want' = [want EXCEPT ![t] = ID[tgt[t]]]
              /\ Goto(t, "del_clear")
              /\ UNCHANGED tgt
         ELSE /\ tgt' = [tgt EXCEPT ![t] = NoSlot]
              /\ Goto(t, ret[t])
              /\ UNCHANGED <<released, want>>
    /\ UNCHANGED <<ID, IOcount, cancelIOFlag, leaked, sess, found, ret, todo,
                   ioVars, tableVars, toldVars>>

\* InterlockedCompareExchange(&IOcount, 0x80000000, 0): one thread wins.
DeleteCAS(t) ==
    /\ pc[t] = "del_cas"
    /\ IF IOcount[tgt[t]] = 0 /\ ~released[tgt[t]]
         THEN /\ released' = [released EXCEPT ![tgt[t]] = TRUE]
              /\ want' = [want EXCEPT ![t] = ID[tgt[t]]]
              /\ Goto(t, "del_clear")
              /\ UNCHANGED tgt
         ELSE /\ tgt' = [tgt EXCEPT ![t] = NoSlot]
              /\ Goto(t, ret[t])
              /\ UNCHANGED <<released, want>>
    /\ UNCHANGED <<ID, IOcount, cancelIOFlag, leaked, sess, found, ret, todo,
                   ioVars, tableVars, toldVars>>

\* Mutation of DeleteClear: the packets in sendBuffer stay.
DeleteClear_KeepsPackets(t) ==
    /\ pc[t] = "del_clear"
    /\ Goto(t, "del_push")
    /\ UNCHANGED <<restVars, sessionVars, ioVars>>

\* closesocket and bufferClear
DeleteClear(t) ==
    /\ pc[t] = "del_clear"
    /\ sendBuffer' = [sendBuffer EXCEPT ![tgt[t]] = 0]
    /\ leftover' = [leftover EXCEPT ![tgt[t]] = FALSE]
    /\ Goto(t, "del_push")
    /\ UNCHANGED <<sendFlag, recvOv, sendOv, posts, restVars, sessionVars>>

DeletePush(t) ==
    /\ pc[t] = "del_push"
    /\ indexStack' = Append(indexStack, tgt[t])
    /\ tgt' = [tgt EXCEPT ![t] = NoSlot]
    /\ Goto(t, "del_notify")
    /\ UNCHANGED <<sessionCount, sess, found, want, ret, todo, sessionVars, ioVars,
                   toldVars>>

OnDisconnect(t) ==
    /\ pc[t] = "del_notify"
    /\ closed' = closed \union {want[t]}
    /\ Goto(t, ret[t])
    /\ UNCHANGED <<opened, sends, sessionVars, ioVars, localVars, tableVars>>

-----------------------------------------------------------------------------
(* The kernel completes a pending operation: data or an error from the peer.  *)

RecvComplete(s) ==
    /\ recvOv[s] = "pending"
    /\ \E r \in RecvResults : recvOv' = [recvOv EXCEPT ![s] = r]
    /\ UNCHANGED <<pc, restVars, sessionVars, sendVars>>

SendComplete(s) ==
    /\ sendOv[s] = "pending"
    /\ \E r \in SendResults : sendOv' = [sendOv EXCEPT ![s] = r]
    /\ UNCHANGED <<sendFlag, sendBuffer, recvOv, leftover, posts, pc, restVars, sessionVars>>

-----------------------------------------------------------------------------
\* A thread in the middle of a handler takes its next step.
Continue(t) ==
    \/ InitID(t) \/ InitIncrement(t) \/ InitFlags(t) \/ InitClear(t) \/ OnNewConnect(t)
    \/ RecvIOCheck(t) \/ RecvIOPost(t) \/ RecvIORecheck(t) \/ RecvIOCancel(t)
    \/ SendIOCheck(t) \/ SendIOExchange(t) \/ SendIOSize(t) \/ SendIOPost(t)
    \/ SendIORecheck(t) \/ SendIOCancel(t) \/ ClearSendFlag(t)
    \/ CancelRegist(t) \/ IORelease(t)
    \/ SentEarlyLoad(t) \/ SentMore(t) \/ RecvLoop(t) \/ KickCancel(t)
    \/ HandlerRelease(t)
    \/ FindIncrement(t) \/ FindCheckID(t) \/ SendReqPost(t) \/ DisconnectCancel(t)
    \/ FinderRelease(t)
    \/ DeleteCAS(t) \/ DeleteClear(t) \/ DeletePush(t) \/ OnDisconnect(t)

Take(t, s) == TakePost(t, s) \/ TakeSend(t, s) \/ TakeRecv(t, s)

Next ==
    \/ \E t \in Threads :
          \/ AcceptPop(t)
          \/ ContentSend(t)
          \/ Continue(t)
          \/ SendedEnds(t)
          \/ \E s \in Slots : Take(t, s)
    \/ \E s \in Slots : RecvComplete(s) \/ SendComplete(s)

Spec == Init /\ [][Next]_vars

\* Threads run.  The completion port is first in first out, so a completion in
\* it is taken though the workers are busy again and again.  Nothing is assumed of
\* receives, of sends (a peer may keep its window closed), of connections, and of the
\* loop of sended() over packets of a failed send.
FairSpec ==
    /\ Spec
    /\ \A t \in Threads : WF_vars(Continue(t))
    /\ \A s \in Slots :
          /\ SF_vars(\E t \in Workers : TakePost(t, s))
          /\ SF_vars(\E t \in Workers : TakeSend(t, s))
          /\ SF_vars(\E t \in Workers : TakeRecv(t, s))

-----------------------------------------------------------------------------
(* Properties *)

TypeOK ==
    /\ ID \in [Slots -> IDs]
    /\ IOcount \in [Slots -> Int]
    /\ released \in [Slots -> BOOLEAN]
    /\ cancelIOFlag \in [Slots -> BOOLEAN]
    /\ sendFlag \in [Slots -> BOOLEAN]
    /\ sendBuffer \in [Slots -> Nat]
    /\ recvOv \in [Slots -> {"idle", "pending"} \union RecvResults]
    /\ sendOv \in [Slots -> {"idle", "pending"} \union SendResults]
    /\ leftover \in [Slots -> BOOLEAN]
    /\ posts \in [Slots -> Nat]
    /\ leaked \in [Slots -> Nat]
    /\ indexStack \in Seq(Slots)
    /\ sessionCount \in Nat
    /\ opened \in SUBSET IDs
    /\ closed \in SUBSET IDs
    /\ sends \in Nat
    /\ pc \in [Threads -> Labels]
    /\ sess \in [Threads -> Slots \union {NoSlot}]
    /\ found \in [Threads -> Slots \union {NoSlot}]
    /\ tgt \in [Threads -> Slots \union {NoSlot}]
    /\ want \in [Threads -> IDs]
    /\ ret \in [Threads -> Labels]
    /\ todo \in [Threads -> Nat]

\* The references to a slot: a handler's session, what findSession returned, an
\* overlapped operation about to start, one in flight, the posts.
Handlers(s) == {t \in Threads : sess[t] = s}
Finders(s)  == {t \in Threads : found[t] = s}
Starters(s) == {t \in Threads : sess[t] = s /\ pc[t] \in IOLabels}
InFlight(ov, s) == IF ov[s] = "idle" THEN 0 ELSE 1

References(s) ==
    Cardinality(Handlers(s)) + Cardinality(Finders(s)) + Cardinality(Starters(s))
      + InFlight(recvOv, s) + InFlight(sendOv, s) + posts[s]

\* IOcount counts the references to the session, and beyond those only the ones
\* of the receives that filled recvBuffer (network.cpp:348).
RefCountExact == \A s \in Slots : IOcount[s] = References(s) + leaked[s]

\* No thread works on a session that is released: not a handler, not a caller
\* that findSession gave the session to (and then it is the session it asked
\* for), and no completion of it is outstanding (network.cpp:472, :416).
InitLabels == {"init_flags", "init_clear"}
HeldSessionIsLive ==
    /\ \A t \in Threads :
          /\ sess[t] # NoSlot /\ pc[t] \notin InitLabels => ~released[sess[t]]
          /\ pc[t] \in {"found", "disc_cancel"} =>
                ~released[found[t]] /\ ID[found[t]] = want[t]
    /\ \A s \in Slots :
          recvOv[s] # "idle" \/ sendOv[s] # "idle" \/ posts[s] > 0 => ~released[s]

\* A slot is in one place: in indexStack once, or with the one thread that
\* initialises or deletes it, or a live session (network.cpp:130, :258, :432).
Owners(s) == {t \in Threads : tgt[t] = s /\ pc[t] # "del_cas"}
SlotOwnedOnce ==
    /\ \A i, j \in DOMAIN indexStack : i # j => indexStack[i] # indexStack[j]
    /\ \A s \in Slots :
          /\ Cardinality(Owners(s)) <= 1
          /\ (\E i \in DOMAIN indexStack : indexStack[i] = s) =>
                /\ Owners(s) = {} /\ Handlers(s) = {} /\ sendBuffer[s] = 0
                /\ released[s] \/ IOcount[s] = 0

\* One receive and one send of a session at a time: the overlapped structure and
\* sendedBuffer are not shared (session.cpp:61, :225).
RecvLabels == {"recv_chk", "recv_wsa", "loop", "kick", "kick_cancel", "new_connect"}
SendLabels == {"send_size", "send_undo", "send_wsa", "send_reset", "sended", "sent", "sent_late"}
OneOperationAtATime ==
    \A s \in Slots :
       /\ Cardinality({t \in Handlers(s) : pc[t] \in RecvLabels})
             + InFlight(recvOv, s) <= 1
       /\ Cardinality({t \in Handlers(s) : pc[t] \in SendLabels})
             + InFlight(sendOv, s) <= 1

\* OnRecv comes after the session's OnNewConnect and before its OnDisconnect:
\* the content never gets a packet of a user it does not have.
RecvBetweenCallbacks ==
    \A t \in Workers :
       pc[t] \in {"loop", "kick", "kick_cancel"} => ID[sess[t]] \in opened \ closed

\* OnNewConnect once per session ID, OnDisconnect once and only after it.
CallbacksInOrder ==
    [][/\ \A t \in Threads : OnNewConnect(t) => want[t] \notin opened
       /\ \A t \in Threads : OnDisconnect(t) => want[t] \in opened \ closed]_vars

\* A slot gets a new ID only when nothing of its last session is left: no
\* completion, no post, no packet, no handler (network.cpp:264).
ReuseIsClean ==
    [][\A s \in Slots : ID'[s] # ID[s] =>
          /\ recvOv[s] = "idle" /\ sendOv[s] = "idle" /\ posts[s] = 0
          /\ sendBuffer[s] = 0 /\ ~leftover[s] /\ Handlers(s) = {} /\ leaked[s] = 0]_vars

\* A session the server disconnects is released in the end, if no receive of it
\* filled recvBuffer (network.cpp:500, session.cpp:253).  Peers may be silent and keep
\* their windows closed: the server itself must end what is pending.  It does not
\* after a WSASend has failed, for sendFlag is cleared before cancelIOFlag is set: a
\* further send may stay pending for ever, or its completion in sended(); and the
\* workers that stay there may be all there are (session.cpp:96, :149).
NeverEnds(s) ==
    /\ leftover[s]
    /\ sendOv[s] = "pending" \/ \E t \in Workers : sess[t] = s /\ pc[t] = "sended"

\* What session.h:44 says of a send completion: packets left in sendBuffer are
\* sent by a further sendIO.  So while the session lives, packets are queued and
\* no send is under way, some thread is on its way to start one, or to cancel
\* the session because its WSASend failed.
QueuedPacketHasSender ==
    \A s \in Slots :
       sendBuffer[s] > 0 /\ ~sendFlag[s] /\ ~cancelIOFlag[s] /\ recvOv[s] = "pending"
          => \E t \in Handlers(s) : pc[t] \in {"send_chk", "send_xchg", "sent_more", "send_fail"}
=============================================================================
