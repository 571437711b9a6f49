--------------------------- MODULE RTPPacketStream ---------------------------
(***************************************************************************)
(* What the framing of RTP over TCP promises for each connection: packets   *)
(* come out whole, once, and in the order in which they were sent.          *)
(***************************************************************************)
EXTENDS Naturals, Sequences

CONSTANTS Conns, Packets

VARIABLES sent, received

Send(p, conns) ==
  /\ sent' = [c \in Conns |-> IF c \in conns THEN Append(sent[c], p) ELSE sent[c]]
  /\ UNCHANGED received

Receive(c) ==
  /\ Len(received[c]) < Len(sent[c])
  /\ received' = [received EXCEPT ![c] = Append(@, sent[c][Len(@) + 1])]
  /\ UNCHANGED sent

Init == sent = [c \in Conns |-> <<>>] /\ received = sent

Next ==
  \/ \E p \in Packets, conns \in SUBSET Conns : Send(p, conns)
  \/ \E c \in Conns : Receive(c)

Spec == Init /\ [][Next]_<<sent, received>>

=============================================================================
