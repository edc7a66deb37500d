---------------------------- MODULE MCRecvRawdata ---------------------------
(* Instances of RecvRawdata for TLC. *)
EXTENDS RecvRawdata

\* Packets of every type with and without payload, payload that looks like a type.
Reset == <<1, 3, 12, 0>>
Cmd == <<1, 9, 252, 2, 1, 5>>
Acl == <<2, 0, 0, 3, 0, 1, 2, 3>>
Sco == <<3, 0, 0, 1, 3>>
Iso == <<5, 0, 0, 2, 0, 9, 9>>
AclEmpty == <<2, 1, 0, 0, 0>>

Packets == {Reset, Cmd, Acl, Sco, Iso, AclEmpty}

\* SDIO without an ISO port and with ports that fail; every triple of packets, written whole:
\* the socket may hold all three when the first is read.
SdioSetups ==
    {[sends |-> s, pieces |-> {}, lockstep |-> FALSE, chunks |-> {2}, open |-> {0, 1, 2},
      sdio |-> TRUE, wake |-> FALSE, fails |-> TRUE] : s \in [1..3 -> Packets]}

\* UART with wake-up bytes, a host that sends one packet at a time, its payload in pieces.
UartSetups ==
    {[sends |-> s, pieces |-> {5, 6}, lockstep |-> TRUE, chunks |-> {2}, open |-> {0},
      sdio |-> FALSE, wake |-> TRUE, fails |-> FALSE] : s \in [1..3 -> Packets]}

MCSetups == SdioSetups \cup UartSetups

\* What the theorem about framing supposes.
ASSUME \A st \in MCSetups : KeepsPlace(st)

\* A host whose writes arrive in pieces.
PieceSetups ==
    {[sends |-> s, pieces |-> {1, 2, 3}, lockstep |-> FALSE, chunks |-> {}, open |-> Port,
      sdio |-> TRUE, wake |-> FALSE, fails |-> FALSE] : s \in {<<Reset, Cmd>>, <<Acl, Reset>>}}
=============================================================================
