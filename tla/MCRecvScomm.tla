---------------------------- MODULE MCRecvScomm -----------------------------
(* Instances of RecvScomm for TLC. *)
EXTENDS RecvScomm

Pkt(b) == [noise |-> <<>>, pkt |-> b]
Behind(noise, item) == [item EXCEPT !.noise = noise]

\* The smallest packets of every type; payload bytes that look like packet types.
Evt3 == Pkt(<<4, 1, 0>>)
Evt5 == Pkt(<<4, 2, 2, 4, 7>>)
Acl == Pkt(<<2, 0, 0, 2, 0, 3, 2>>)
Sco == Pkt(<<3, 0, 0, 0>>)                   \* a residue of just four bytes
Log == Pkt(<<7, 4, 1, 0, 2>>)
Iso == Pkt(<<5, 0, 0, 1, 0, 7>>)
Evt8 == Pkt(<<4, 3, 5, 0, 0, 0, 0, 0>>)      \* fills the buffer
Hum == <<9, 0>>
Drone == <<9, 0, 6, 1, 0>>                   \* longer than a residue that waits

MCBufSize == 8
MCPort == {0, 1}

\* One busy port: every triple of packets, and packets between noise.
Clean == {<<a, b, c>> : a, b, c \in {Evt3, Evt5, Acl, Sco, Log, Iso, Evt8}}
Noisy == {<<Behind(m, a), Behind(n, b)>> : m, n \in {Hum, Drone}, a, b \in {Evt3, Evt5, Log}}
OneBusy == {(0 :> s) @@ (1 :> <<>>) : s \in Clean \cup Noisy}

\* Two busy ports: the threads compete for the host socket.
TwoBusy ==
    {(0 :> s) @@ (1 :> t) : s \in {<<Evt5, Evt3, Evt5>>, <<Evt3, Log, Evt3>>},
                              t \in {<<Acl, Acl>>, <<Iso, Sco>>}}

MCStreams == OneBusy \cup TwoBusy

\* What the theorems about framing and the free buffer suppose.
ASSUME StreamsAreFramed /\ PacketsFit
=============================================================================
