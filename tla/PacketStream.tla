----------------------------- MODULE PacketStream -----------------------------
(* What receiving promises the server: each connection hands OnRecv the        *)
(* packets its client sent, whole and in order, and nothing of the connection  *)
(* that used the session before.                                               *)
EXTENDS Naturals, Sequences

CONSTANT Packet

VARIABLES sent, delivered

Init == sent = <<>> /\ delivered = <<>>

Send ==
    /\ \E p \in Packet : sent' = Append(sent, p)
    /\ UNCHANGED delivered

Deliver ==
    /\ Len(delivered) < Len(sent)
    /\ delivered' = Append(delivered, sent[Len(delivered) + 1])
    /\ UNCHANGED sent

\* The next client uses the session.
Reconnect == sent' = <<>> /\ delivered' = <<>>

Spec == Init /\ [][Send \/ Deliver \/ Reconnect]_<<sent, delivered>>
=============================================================================
