------------------------------ MODULE HostLink ------------------------------
(***************************************************************************)
(* What the receive threads promise the Bluetooth stack: the HCI packets    *)
(* that the controller sends on a port reach the host whole, each once and   *)
(* in the order of the port; packets of different ports may interleave.      *)
(***************************************************************************)
EXTENDS Naturals, Sequences

CONSTANT Port      \* the open ports of the transport

VARIABLES
    queue,         \* the packets that the controller still has for the host, per port
    chan           \* the packets that the host got, each with its port

vars == <<queue, chan>>

Deliver(p) ==
    /\ queue[p] # <<>>
    /\ chan' = Append(chan, [port |-> p, pkt |-> Head(queue[p])])
    /\ queue' = [queue EXCEPT ![p] = Tail(@)]

Init == chan = <<>> /\ \A p \in Port : queue[p] \in Seq(Seq(0..255))
Next == \E p \in Port : Deliver(p)
Spec == Init /\ [][Next]_vars
=============================================================================
