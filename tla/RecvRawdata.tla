---------------------------- MODULE RecvRawdata -----------------------------
(***************************************************************************)
(* From the host to the controller: scomm_vendor_recv_socket_thread waits    *)
(* for the host socket and scomm_vendor_recv_rawdata reads one HCI packet     *)
(* from it, in three rounds of reads (type, header, payload), and writes it   *)
(* to the port of its type (scom_vendor.c).                                 *)
(*                                                                         *)
(* The ports are open; a receive thread may clear the driver_state of one.    *)
(* Closing them is the subject of PortLifecycle.                            *)
(***************************************************************************)
EXTENDS Integers, SequencesExt

CONSTANTS
    Setups,        \* the ways in which the library is configured and used, see Setup
    BufSize        \* sizeof recvSocketBuf (4096 in the code)

HCI_COMMAND_PKT == 1
HCI_ACLDATA_PKT == 2
HCI_SCODATA_PKT == 3
HCI_ISO_PKT == 5

BT_COM_PORT_CMDEVT == 0
BT_COM_PORT_ACL == 1
BT_COM_PORT_AUDIO == 2
BT_COM_PORT_ISO == 3

Port == 0..3

\* sends: the packets of the host; pieces: sizes of the parts in which it may write them;
\* lockstep: it waits until a packet is taken; chunks: sizes of the partial writes of a port;
\* open: the ports that were opened; sdio: one port per type (SKWBT_TRANS_TYPE_SDIO);
\* wake: UART with /dev/BTDATA, where a byte wakes the controller; fails: ports may fail.
Setup == [sends : Seq(Seq(0..255)), pieces : SUBSET (Nat \ {0}), lockstep : BOOLEAN,
          chunks : SUBSET (Nat \ {0}), open : SUBSET Port, sdio : BOOLEAN, wake : BOOLEAN,
          fails : BOOLEAN]

ASSUME SetupsAssumption == Setups \subseteq Setup
ASSUME BufSizeAssumption == BufSize \in Nat

VARIABLES
    setup,         \* the configuration, which never changes
    unsent,        \* the packets, or the rest of one, that the host has not written yet
    wire,          \* the bytes in the socket
    pc,            \* where the thread is: wait, header, payload, route, send, abort
    buf,           \* recvSocketBuf, as far as it was filled for this packet
    need, bytes_read,  \* need_read_lens and bytes_read of the round
    done,          \* transmitted_length
    driver,        \* driver_state of the ports
    pkt_cnts,      \* the uint8_t that numbers the wake-up bytes
    framed,        \* history: packets given to skw_btsnoop_capture
    out,           \* history: the bytes written to each port
    lossy          \* history: ports that lost a packet

vars == <<setup, unsent, wire, pc, buf, need, bytes_read, done, driver, pkt_cnts, framed, out, lossy>>
host == <<setup, unsent>>
ports == <<done, driver, out, lossy>>

Init ==
    /\ setup \in Setups
    /\ unsent = setup.sends
    /\ wire = <<>> /\ pc = "wait" /\ buf = <<>> /\ need = 0 /\ bytes_read = 0 /\ done = 0
    /\ driver = [p \in Port |-> p \in setup.open]
    /\ pkt_cnts = 0 /\ framed = <<>>
    /\ out = [p \in Port |-> <<>>] /\ lossy = {}

Drop(b, n) == SubSeq(b, n + 1, Len(b))

\* One transfer of at most max bytes, in one of the given sizes or all at once.
Transfers(sizes, max) == {n \in sizes : n < max} \cup {max}

\* The host stands before a packet, not inside one.
AtPacket == Head(unsent) = setup.sends[Len(setup.sends) - Len(unsent) + 1]

\* The host writes a packet, or a piece of one.
HostWrite ==
    /\ unsent # <<>>
    /\ setup.lockstep /\ AtPacket => wire = <<>> /\ pc = "wait"
    /\ LET pkt == Head(unsent)
       IN  \E n \in Transfers(setup.pieces, Len(pkt)) :
            /\ wire' = wire \o SubSeq(pkt, 1, n)
            /\ unsent' = IF n = Len(pkt) THEN Tail(unsent)
                                         ELSE <<Drop(pkt, n)>> \o Tail(unsent)
    /\ UNCHANGED <<setup, pc, buf, need, bytes_read, ports, pkt_cnts, framed>>

-----------------------------------------------------------------------------
(* scomm_vendor_recv_rawdata *)

DataTypes == {HCI_COMMAND_PKT, HCI_ACLDATA_PKT, HCI_SCODATA_PKT, HCI_ISO_PKT}

hci_preamble_sizes == [t \in DataTypes |-> IF t \in {HCI_ACLDATA_PKT, HCI_ISO_PKT} THEN 4 ELSE 3]

\* Slip: the length is taken from the byte before.
PayloadLenBefore(b) == b[3]

\* The length in the header: 16 bits for ACL and ISO data, 8 for commands and SCO data.
PayloadLen(b) ==
    IF b[1] \in {HCI_ACLDATA_PKT, HCI_ISO_PKT} THEN b[4] + 256 * b[5] ELSE b[4]

\* The type byte; one that is none of the four runs into assert(0).
ReadType ==
    /\ pc = "wait"
    /\ wire # <<>>
    /\ buf' = <<Head(wire)>>
    /\ wire' = Tail(wire)
    /\ IF Head(wire) \in DataTypes
       THEN pc' = "header" /\ need' = hci_preamble_sizes[Head(wire)] /\ bytes_read' = 0
       ELSE pc' = "abort" /\ UNCHANGED <<need, bytes_read>>
    /\ UNCHANGED <<host, ports, pkt_cnts, framed>>

\* A read asks for need_read_lens bytes each time, also when some of them are there already.
ReadLen == Min({Len(wire), need})

\* The bytes that a read of the round adds to the buffer.
Filled == buf \o SubSeq(wire, 1, ReadLen)

\* Slip: bytes_read is not advanced.
ReadMoreNoCount ==
    /\ pc \in {"header", "payload"}
    /\ wire # <<>>
    /\ bytes_read + ReadLen < need
    /\ buf' = Filled
    /\ wire' = Drop(wire, ReadLen)
    /\ UNCHANGED <<host, pc, need, bytes_read, ports, pkt_cnts, framed>>

\* A short read: the round goes on.
ReadMore ==
    /\ pc \in {"header", "payload"}
    /\ wire # <<>>
    /\ bytes_read + ReadLen < need
    /\ buf' = Filled
    /\ wire' = Drop(wire, ReadLen)
    /\ bytes_read' = bytes_read + ReadLen
    /\ UNCHANGED <<host, pc, need, ports, pkt_cnts, framed>>

\* The header is complete; what was read beyond it is overwritten by the payload.
ReadHeader ==
    /\ pc = "header"
    /\ wire # <<>>
    /\ bytes_read + ReadLen >= need
    /\ LET b == SubSeq(Filled, 1, 1 + need)
       IN  /\ buf' = b
           /\ wire' = Drop(wire, ReadLen)
           /\ need' = PayloadLen(b) /\ bytes_read' = 0
           /\ pc' = IF PayloadLen(b) > 0 THEN "payload" ELSE "route"
    /\ UNCHANGED <<host, ports, pkt_cnts, framed>>

\* The payload is complete; what was read beyond it is not part of the packet.
ReadPayload ==
    /\ pc = "payload"
    /\ wire # <<>>
    /\ bytes_read + ReadLen >= need
    /\ buf' = SubSeq(Filled, 1, Len(buf) - bytes_read + need)
    /\ wire' = Drop(wire, ReadLen)
    /\ pc' = "route"
    /\ UNCHANGED <<host, need, bytes_read, ports, pkt_cnts, framed>>

\* The port of a packet.
SendPort(b) ==
    CASE setup.sdio /\ b[1] = HCI_ACLDATA_PKT -> BT_COM_PORT_ACL
      [] setup.sdio /\ b[1] = HCI_SCODATA_PKT -> BT_COM_PORT_AUDIO
      [] setup.sdio /\ b[1] = HCI_ISO_PKT -> BT_COM_PORT_ISO
      [] OTHER -> BT_COM_PORT_CMDEVT

\* The wake-up byte, then skw_btsnoop_capture, then the loop that writes the packet.
Route ==
    /\ pc = "route"
    /\ pkt_cnts' = IF setup.wake THEN (pkt_cnts + 1) % 256 ELSE pkt_cnts
    /\ framed' = Append(framed, buf)
    /\ done' = 0
    /\ pc' = "send"
    /\ UNCHANGED <<host, wire, buf, need, bytes_read, driver, out, lossy>>

\* Slip: transmitted_length is not advanced.
SendNoAdvance ==
    /\ pc = "send"
    /\ done < Len(buf) /\ driver[SendPort(buf)]
    /\ \E n \in Transfers(setup.chunks, Len(buf) - done) :
        /\ out' = [out EXCEPT ![SendPort(buf)] = @ \o SubSeq(buf, 1, n)]
        /\ done' = done + n
    /\ UNCHANGED <<host, wire, pc, buf, need, bytes_read, driver, pkt_cnts, framed, lossy>>

\* while((length > 0) && driver_state): one write of all that is left, or of a part.
Send ==
    /\ pc = "send"
    /\ done < Len(buf) /\ driver[SendPort(buf)]
    /\ \E n \in Transfers(setup.chunks, Len(buf) - done) :
        /\ out' = [out EXCEPT ![SendPort(buf)] = @ \o SubSeq(buf, done + 1, done + n)]
        /\ done' = done + n
    /\ UNCHANGED <<host, wire, pc, buf, need, bytes_read, driver, pkt_cnts, framed, lossy>>

\* The write fails: the rest of the packet is dropped.
SendError ==
    /\ pc = "send"
    /\ setup.fails
    /\ done < Len(buf) /\ driver[SendPort(buf)]
    /\ lossy' = lossy \cup {SendPort(buf)}
    /\ pc' = "wait"
    /\ UNCHANGED <<host, wire, buf, need, bytes_read, done, driver, pkt_cnts, framed, out>>

\* Slip: the loop does not look at driver_state.
SendEndSpin ==
    /\ pc = "send"
    /\ done = Len(buf)
    /\ pc' = "wait"
    /\ UNCHANGED <<host, wire, buf, need, bytes_read, done, driver, pkt_cnts, framed, out, lossy>>

\* The packet is written, or its port has no driver: it is dropped.
SendEnd ==
    /\ pc = "send"
    /\ done = Len(buf) \/ ~driver[SendPort(buf)]
    /\ lossy' = IF done < Len(buf) THEN lossy \cup {SendPort(buf)} ELSE lossy
    /\ pc' = "wait"
    /\ UNCHANGED <<host, wire, buf, need, bytes_read, done, driver, pkt_cnts, framed, out>>

\* A receive thread finds its port dead.
DriverDown(p) ==
    /\ setup.fails
    /\ driver[p]
    /\ driver' = [driver EXCEPT ![p] = FALSE]
    /\ UNCHANGED <<host, wire, pc, buf, need, bytes_read, done, pkt_cnts, framed, out, lossy>>

SocketThread ==
    \/ ReadType \/ ReadMore \/ ReadHeader \/ ReadPayload
    \/ Route \/ Send \/ SendError \/ SendEnd

Next == HostWrite \/ SocketThread \/ \E p \in Port : DriverDown(p)

\* The host finishes its writes and the thread runs.
Fairness == WF_vars(HostWrite) /\ WF_vars(SocketThread)

Spec == Init /\ [][Next]_vars
FairSpec == Spec /\ Fairness

-----------------------------------------------------------------------------
(* Properties *)

\* A whole packet as the HCI transport frames it: type, header with a length, payload.
IsPacket(b) ==
    \/ /\ Len(b) >= 4 /\ b[1] \in {HCI_COMMAND_PKT, HCI_SCODATA_PKT}
       /\ Len(b) = 4 + b[4]
    \/ /\ Len(b) >= 5 /\ b[1] \in {HCI_ACLDATA_PKT, HCI_ISO_PKT}
       /\ Len(b) = 5 + b[4] + 256 * b[5]

\* What the thread relies on to keep its place: the host writes whole packets that fit
\* recvSocketBuf, each in one write, or one at a time and never cutting a header.
KeepsPlace(st) ==
    /\ \A i \in 1..Len(st.sends) : IsPacket(st.sends[i]) /\ Len(st.sends[i]) <= BufSize
    /\ st.pieces = {} \/ (st.lockstep /\ \A n \in st.pieces : n >= 5)

HostsKeepPlace == \A st \in Setups : KeepsPlace(st)

\* A host that writes whole packets, or one packet at a time and never cuts a header, has every
\* one of them recognised: scomm_vendor_recv_rawdata splits, merges and skips none.
FramedAsSent == IsPrefix(framed, setup.sends)

\* The bytes that port p gets for the packets pkts.
PartFor(p, b) == IF SendPort(b) = p THEN b ELSE <<>>
BytesFor(p, pkts) == FlattenSeq([i \in 1..Len(pkts) |-> PartFor(p, pkts[i])])

\* A port that lost nothing has got its packets whole and in the order in which they were
\* framed, and so far as the write loop has come with the current one.
PortGetsItsPackets ==
    \A p \in Port \ lossy :
        LET all == BytesFor(p, framed)
            rest == IF pc = "send" /\ SendPort(buf) = p THEN Len(buf) - done ELSE 0
        IN  out[p] = SubSeq(all, 1, Len(all) - rest)

\* A dead port does not hold up the others: all packets of the host are framed, and every
\* port that lost nothing gets all of its own.
AllForwarded ==
    <>[](framed = setup.sends /\ \A p \in Port \ lossy : out[p] = BytesFor(p, setup.sends))

\* The type byte is valid, as assert(0) demands: the thread does not lose its place in the
\* stream.
TypeAlwaysValid == pc # "abort"
=============================================================================
