------------------------------ MODULE RecvStream ------------------------------
(***************************************************************************)
(* The receiving side of one session: recvIO posts the free cells of       *)
(* recvBuffer to the kernel, a completion fills some of them, and the      *)
(* worker cuts packets out of the bytes until none is whole (session.cpp,  *)
(* network.cpp:346).  The session is used for one connection after the     *)
(* other, and the buffer goes on where it stood.                           *)
(*                                                                         *)
(* A byte is known by its connection, packet and place; the size field of  *)
(* a header is its byte SizeAt.  One worker at a time handles a session's  *)
(* receive, which is OneOperationAtATime of NetServer.  Clients send       *)
(* packets as the protocol has them.  The checksum is left out.            *)
(***************************************************************************)
EXTENDS RingBuffer, SequencesExt

CONSTANTS
    HeaderSize,     \* sizeof(networkHeader)
    PayloadSizes,   \* payloads the clients send
    MaxPackets,     \* bound: packets of a connection
    MaxConnections  \* bound: uses of the session

ASSUME RecvStreamAssumption ==
    /\ HeaderSize \in Nat /\ HeaderSize >= 2
    /\ PayloadSizes \subseteq Nat
    /\ MaxPackets \in Nat /\ MaxConnections \in Nat \ {0}

VARIABLES
    connection,   \* which use of the session
    sent,         \* packets the client sent
    wire,         \* bytes on their way
    recvBuffer,
    buffers,      \* the two WSABUFs: cells given to the kernel, in their order
    recvOv,       \* "idle", "pending" in the kernel, or "done" and in the port
    transfer,     \* bytes of the completion
    cancelIOFlag,
    pc,           \* where the handling of the session's receive is
    delivered     \* packets given to OnRecv

clientVars  == <<connection, sent>>
sessionVars == <<recvBuffer, cancelIOFlag, delivered>>
ioVars      == <<buffers, recvOv, transfer>>
vars == <<clientVars, wire, sessionVars, ioVars, pc>>

SizeAt == 2
NoByte == <<0, 0, 0, 0>>

\* A packet: bytes <<connection, packet, place, value of the size field>>.
PacketBytes(c, k, len) ==
    [i \in 1 .. HeaderSize + len |-> <<c, k, i, IF i = SizeAt THEN len ELSE 0>>]

Packet == {PacketBytes(c, k, len) :
               c \in 1 .. MaxConnections, k \in 1 .. MaxPackets, len \in PayloadSizes}
Bytes  == UNION {Range(p) : p \in Packet}

Init ==
    /\ connection = 1
    /\ sent = <<>> /\ wire = <<>> /\ delivered = <<>>
    /\ recvBuffer = Empty([i \in Cells |-> NoByte])
    /\ buffers = <<>> /\ recvOv = "idle" /\ transfer = 0
    /\ cancelIOFlag = FALSE
    /\ pc = "recvIO"

----------------------------------------------------------------------------
(* Outside the server: the client and the kernel. *)

\* The client sends a packet while it is connected.
Send ==
    /\ pc # "closed" /\ Len(sent) < MaxPackets
    /\ \E len \in PayloadSizes :
           LET p == PacketBytes(connection, Len(sent) + 1, len)
           IN  sent' = Append(sent, p) /\ wire' = wire \o p
    /\ UNCHANGED <<connection, sessionVars, ioVars, pc>>

\* Bytes arrive in the posted cells.
RecvComplete ==
    /\ recvOv = "pending"
    /\ \E n \in 1 .. Min2(Len(wire), Len(buffers)) :
           /\ recvBuffer' = [recvBuffer EXCEPT !.cells = [c \in Cells |->
                  IF \E i \in 1 .. n : buffers[i] = c
                  THEN wire[CHOOSE i \in 1 .. n : buffers[i] = c] ELSE @[c]]]
           /\ transfer' = n
           /\ wire' = SubSeq(wire, n + 1, Len(wire))
    /\ recvOv' = "done"
    /\ UNCHANGED <<clientVars, cancelIOFlag, delivered, buffers, pc>>

\* The peer closed, or the operation was cancelled: no bytes, or an error.
RecvEnds ==
    /\ recvOv = "pending"
    /\ recvOv' = "done" /\ transfer' = 0
    /\ UNCHANGED <<clientVars, wire, sessionVars, buffers, pc>>

----------------------------------------------------------------------------
(* The server. *)

\* disconnectReq: CancelIoEx makes RecvEnds happen, or comes too late.
DisconnectReq ==
    /\ pc # "closed"
    /\ cancelIOFlag' = TRUE
    /\ UNCHANGED <<clientVars, wire, recvBuffer, delivered, ioVars, pc>>

\* The cells of recvIO's WSABUFs: from tail() on, and, if that is not all that
\* is free, from the beginning of the buffer.
FreeCells_WholeTwice(rb) ==
    LET direct == DirectEnqueueSize(rb)
        rest   == freeSize(rb)
    IN  [i \in 1 .. direct + rest |->
            IF i <= direct THEN tail(rb) + i - 1 ELSE i - direct - 1]

FreeCells(rb) ==
    LET direct == DirectEnqueueSize(rb)
        rest   == freeSize(rb) - direct
    IN  [i \in 1 .. direct + rest |->
            IF i <= direct THEN tail(rb) + i - 1 ELSE i - direct - 1]

\* WSARecv is called, or the flag is set or WSARecv fails, and the session ends.
RecvIO ==
    /\ pc = "recvIO"
    /\ \/ /\ ~cancelIOFlag
          /\ buffers' = FreeCells(recvBuffer)
          /\ recvOv' = "pending"
          /\ pc' = "wait"
       \/ /\ pc' = "closed"
          /\ UNCHANGED <<buffers, recvOv>>
    /\ UNCHANGED <<clientVars, wire, sessionVars, transfer>>

\* The worker takes the completion.  One without bytes ends the session (network.cpp:300, 308);
\* recved() refuses one that fills the buffer, and no receive is ever posted again.
Recved ==
    /\ pc = "wait" /\ recvOv = "done"
    /\ recvOv' = "idle" /\ buffers' = <<>> /\ transfer' = 0
    /\ \/ /\ transfer = 0
          /\ pc' = "closed" /\ UNCHANGED recvBuffer
       \/ /\ transfer # 0 /\ freeSize(recvBuffer) <= transfer
          /\ pc' = "stopped" /\ UNCHANGED recvBuffer
       \/ /\ transfer # 0 /\ freeSize(recvBuffer) > transfer
          /\ recvBuffer' = MoveRear(recvBuffer, transfer)
          /\ pc' = "loop"
    /\ UNCHANGED <<clientVars, wire, cancelIOFlag, delivered>>

\* The length of the packet at the front of the buffer, 0 if its header has not
\* come in, and whether it is whole.
FrontLength(rb) ==
    IF size(rb) < HeaderSize THEN 0
    ELSE HeaderSize + front(rb, HeaderSize)[SizeAt][4]
HasPacket_Header(rb) == FrontLength(rb) > 0 /\ size(rb) >= FrontLength(rb) - HeaderSize
HasPacket_More(rb)   == FrontLength(rb) > 0 /\ size(rb) > FrontLength(rb)
HasPacket(rb) == FrontLength(rb) > 0 /\ size(rb) >= FrontLength(rb)

RecvedPacket_Once ==
    /\ pc = "loop" /\ HasPacket(recvBuffer)
    /\ delivered' = Append(delivered, front(recvBuffer, FrontLength(recvBuffer)))
    /\ recvBuffer' = pop(recvBuffer, FrontLength(recvBuffer))
    /\ pc' = "recvIO"
    /\ UNCHANGED <<clientVars, wire, cancelIOFlag, ioVars>>

RecvedPacket ==
    /\ pc = "loop" /\ HasPacket(recvBuffer)
    /\ delivered' = Append(delivered, front(recvBuffer, FrontLength(recvBuffer)))
    /\ recvBuffer' = pop(recvBuffer, FrontLength(recvBuffer))
    /\ UNCHANGED <<clientVars, wire, cancelIOFlag, ioVars, pc>>

NoPacket ==
    /\ pc = "loop" /\ ~HasPacket(recvBuffer)
    /\ pc' = "recvIO"
    /\ UNCHANGED <<clientVars, wire, sessionVars, ioVars>>

\* deleteSession clears the buffer, and acceptThread gives the session to the
\* next connection.
Reuse_NotCleared ==
    /\ pc = "closed" /\ connection < MaxConnections
    /\ connection' = connection + 1
    /\ sent' = <<>> /\ wire' = <<>> /\ delivered' = <<>>
    /\ cancelIOFlag' = FALSE
    /\ pc' = "recvIO"
    /\ UNCHANGED <<recvBuffer, ioVars>>

Reuse ==
    /\ pc = "closed" /\ connection < MaxConnections
    /\ connection' = connection + 1
    /\ sent' = <<>> /\ wire' = <<>> /\ delivered' = <<>>
    /\ recvBuffer' = clear(recvBuffer)
    /\ cancelIOFlag' = FALSE
    /\ pc' = "recvIO"
    /\ UNCHANGED ioVars

Kernel == RecvComplete \/ RecvEnds
Worker == RecvIO \/ Recved \/ RecvedPacket \/ NoPacket
Next   == Send \/ DisconnectReq \/ Kernel \/ Worker \/ Reuse

Spec == Init /\ [][Next]_vars

\* The worker runs, and bytes that were sent arrive while a receive is posted.
FairSpec == Spec /\ WF_vars(Worker) /\ WF_vars(RecvComplete)

----------------------------------------------------------------------------
TypeOK ==
    /\ connection \in 1 .. MaxConnections
    /\ sent \in Seq(Packet) /\ delivered \in Seq(Packet)
    /\ wire \in Seq(Bytes)
    /\ recvBuffer \in [cells : [Cells -> Bytes \cup {NoByte}],
                       headPtr : Cells, tailPtr : Cells]
    /\ buffers \in Seq(Cells)
    /\ recvOv \in {"idle", "pending", "done"} /\ transfer \in 0 .. MaxSize
    /\ cancelIOFlag \in BOOLEAN
    /\ pc \in {"recvIO", "wait", "loop", "stopped", "closed"}

\* The unread bytes of the buffer, the bytes of a completion in the port and
\* those on their way are, in this order, the bytes of the packets that were
\* sent and not delivered: nothing is lost, doubled, overwritten, or left from
\* the last connection (ringBuffer.cpp, session.cpp:205 and 295).
Unread == front(recvBuffer, size(recvBuffer))
Fresh  == IF recvOv = "done" THEN [i \in 1 .. transfer |-> recvBuffer.cells[buffers[i]]]
          ELSE <<>>
UnreadIsStream ==
    /\ TypeOK
    /\ pc \notin {"stopped", "closed"} =>
           Unread \o Fresh \o wire =
               FlattenSeq(SubSeq(sent, Len(delivered) + 1, Len(sent)))

\* The kernel may write to every free cell, once, and to no cell that holds an
\* unread byte (session.cpp:205): else bytes are overwritten before they are
\* read, or the buffer looks full when it is not.
PostedCellsAreFree ==
    recvOv = "pending" =>
        /\ Len(buffers) = MaxSize - size(recvBuffer)
        /\ IsInjective(buffers)
        /\ \A i \in 1 .. Len(buffers), k \in 1 .. size(recvBuffer) :
               buffers[i] # Wrap(recvBuffer.headPtr + k)

\* While the worker waits for more bytes there is no whole packet in the buffer
\* (network.cpp:351): a client that waits for its answer would wait for ever.
NoPacketWaits == recvOv = "pending" => ~HasPacket(recvBuffer)

\* OnRecv gets what the client sent (network.cpp:389).
P == INSTANCE PacketStream
IsPacketStream == P!Spec

\* A packet that was sent is delivered, unless the session ends or a receive
\* filled the buffer (network.cpp:351).
Gone == pc \in {"stopped", "closed"} \/ cancelIOFlag \/ (recvOv = "done" /\ transfer = 0)
EverythingIsDelivered == (sent # delivered) ~> (sent = delivered \/ Gone)
===============================================================================
