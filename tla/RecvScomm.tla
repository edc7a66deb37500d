----------------------------- MODULE RecvScomm ------------------------------
(***************************************************************************)
(* From the controller to the host: scomm_vendor_recv_scomm_thread, one      *)
(* thread per open port, reassembles HCI packets from the bytes that read    *)
(* returns and passes them to scomm_vendor_send_to_host, which writes them    *)
(* to the one host socket under write2host_lock (scom_vendor.c).             *)
(*                                                                         *)
(* The threads run here (thread_running stays TRUE); PortLifecycle is about   *)
(* starting and stopping them.                                              *)
(***************************************************************************)
EXTENDS Integers, SequencesExt

CONSTANTS
    Port,          \* the open ports
    BufSize,       \* sizeof read_buffer (2056 in the code)
    Streams,       \* what the controller may send: a set of functions on Port, see IsStream
    Chunks         \* bound: read and write transfer one of these numbers of bytes, or all

HCI_ACLDATA_PKT == 2
HCI_SCODATA_PKT == 3
HCI_EVENT_PKT == 4
HCI_ISO_PKT == 5
HCI_EVENT_SKWLOG == 7

Bytes == 0..255

\* A stream is a sequence of packets, each with the bytes before it that belong to none.
IsStream(s) == s \in Seq([noise : Seq(Bytes), pkt : Seq(Bytes)])

ASSUME PortAssumption == Port \subseteq 0..3
ASSUME StreamsAssumption == \A st \in Streams : \A p \in Port : IsStream(st[p])
ASSUME ChunksAssumption == Chunks \subseteq Nat \ {0}
ASSUME BufSizeAssumption == BufSize \in Nat \ (0..3)

VARIABLES
    stream,        \* what the controller sends on each port
    wire,          \* the bytes not yet read from the port's fd
    buf,           \* read_buffer: the first rev_len (or last_len) bytes
    pc,            \* where the thread is: poll, parse, lock, write
    left,          \* bytes of the packet still to write to the host
    resynced,      \* the last parse of the thread dropped invalid bytes
    handled,       \* packets given to skw_btsnoop_capture or skwlog_write, per port
    lock,          \* write2host_lock: its holder, or NoPort
    host,          \* the bytes written to the host socket
    delivered      \* packets whose write has ended, with their port

vars == <<stream, wire, buf, pc, left, resynced, handled, lock, host, delivered>>

NoPort == -1

BytesOf(s) == FlattenSeq([i \in 1..Len(s) |-> s[i].noise \o s[i].pkt])

Init ==
    /\ stream \in Streams
    /\ wire = [p \in Port |-> BytesOf(stream[p])]
    /\ buf = [p \in Port |-> <<>>]
    /\ pc = [p \in Port |-> "poll"]
    /\ left = [p \in Port |-> 0]
    /\ resynced = [p \in Port |-> FALSE]
    /\ handled = [p \in Port |-> <<>>]
    /\ lock = NoPort
    /\ host = <<>>
    /\ delivered = <<>>

-----------------------------------------------------------------------------
\* The packet types the parser takes, and the fewer ones it looks for after invalid data.
ParsedTypes == {HCI_EVENT_PKT, HCI_ACLDATA_PKT, HCI_SCODATA_PKT, HCI_EVENT_SKWLOG, HCI_ISO_PKT}
ResyncTypes == {HCI_EVENT_PKT, HCI_ACLDATA_PKT, HCI_SCODATA_PKT, HCI_EVENT_SKWLOG}

hci_preamble_sizes ==
    [t \in ParsedTypes |-> CASE t = HCI_EVENT_PKT -> 2
                             [] t \in {HCI_SCODATA_PKT, HCI_EVENT_SKWLOG} -> 3
                             [] t \in {HCI_ACLDATA_PKT, HCI_ISO_PKT} -> 4]

HdrLens(b) == hci_preamble_sizes[b[1]] + 1

UInt16At(b, i) == b[i + 1] + 256 * b[i + 2]

PayloadLen(b) ==
    CASE b[1] \in {HCI_ACLDATA_PKT, HCI_ISO_PKT} -> UInt16At(b, 3)
      [] b[1] = HCI_EVENT_PKT -> b[3]
      [] b[1] = HCI_EVENT_SKWLOG -> UInt16At(b, 2)
      [] OTHER -> b[4]

\* Slip: the type byte is not counted.
PktLenNoType(b) == (PayloadLen(b) + hci_preamble_sizes[b[1]]) % 65536

\* The length of the packet at the start of b, in the uint16_t of the code.
PktLen(b) == (PayloadLen(b) + HdrLens(b)) % 65536

\* Slip: a packet that ends with the buffer waits.
CompleteLate(b) ==
    /\ b # <<>>
    /\ b[1] \in ParsedTypes
    /\ Len(b) > HdrLens(b)
    /\ Len(b) > PktLen(b)

\* A whole packet stands at the start of b.
Complete(b) ==
    /\ b # <<>>
    /\ b[1] \in ParsedTypes
    /\ Len(b) >= HdrLens(b)
    /\ Len(b) >= PktLen(b)

Drop(b, n) == SubSeq(b, n + 1, Len(b))

\* scomm_vendor_find_valid_type: the index of the first type byte, or the length.
FindValidType(b) ==
    LET hits == {i \in 1..Len(b) : b[i] \in ResyncTypes}
    IN  IF hits = {} THEN Len(b) ELSE Min(hits) - 1

\* The space that read may fill.
Room(p) == BufSize - Len(buf[p])

\* One transfer of at most max bytes.
Transfers(max) == {n \in Chunks : n < max} \cup {max}

\* poll reports data and read returns some of it, at most the rest of the buffer.
\* A read of 0 bytes (a full buffer) goes back to poll: nothing changes.
Read(p) ==
    /\ pc[p] = "poll"
    /\ wire[p] # <<>> /\ Room(p) > 0
    /\ \E n \in Transfers(Min({Len(wire[p]), Room(p)})) :
        /\ buf' = [buf EXCEPT ![p] = @ \o SubSeq(wire[p], 1, n)]
        /\ wire' = [wire EXCEPT ![p] = Drop(@, n)]
    /\ pc' = [pc EXCEPT ![p] = "parse"]
    /\ resynced' = [resynced EXCEPT ![p] = FALSE]
    /\ UNCHANGED <<stream, left, handled, lock, host, delivered>>

\* An incomplete packet waits for more data.
ParseMore(p) ==
    /\ pc[p] = "parse"
    /\ buf[p][1] \in ParsedTypes
    /\ ~Complete(buf[p])
    /\ pc' = [pc EXCEPT ![p] = "poll"]
    /\ UNCHANGED <<stream, wire, buf, left, resynced, handled, lock, host, delivered>>

\* Invalid data is discarded up to the next type byte; the rest waits for more data.
ParseInvalid(p) ==
    /\ pc[p] = "parse"
    /\ buf[p][1] \notin ParsedTypes
    /\ buf' = [buf EXCEPT ![p] = Drop(@, FindValidType(@))]
    /\ resynced' = [resynced EXCEPT ![p] = TRUE]
    /\ pc' = [pc EXCEPT ![p] = "poll"]
    /\ UNCHANGED <<stream, wire, left, handled, lock, host, delivered>>

\* Slips: only one packet per read; a residue of exactly 4 bytes waits.
AfterPacketOnce(rest) == "poll"
AfterPacketLate(rest) == IF Len(rest) > 4 THEN "parse" ELSE "poll"

\* A residue of at least 4 bytes is parsed at once.
AfterPacket(rest) == IF Len(rest) >= 4 THEN "parse" ELSE "poll"

\* Slip: the residue is thrown away.
ConsumeAll(p) ==
    /\ buf' = [buf EXCEPT ![p] = <<>>]
    /\ pc' = [pc EXCEPT ![p] = "poll"]

\* The packet leaves the buffer.
Consume(p) ==
    LET rest == Drop(buf[p], PktLen(buf[p]))
    IN  /\ buf' = [buf EXCEPT ![p] = rest]
        /\ pc' = [pc EXCEPT ![p] = AfterPacket(rest)]

Recognise(p) ==
    handled' = [handled EXCEPT ![p] = Append(@, SubSeq(buf[p], 1, PktLen(buf[p])))]

\* A packet of the controller's log goes to skwlog_write, not to the host.
ParseLog(p) ==
    /\ pc[p] = "parse"
    /\ Complete(buf[p]) /\ buf[p][1] = HCI_EVENT_SKWLOG
    /\ Recognise(p)
    /\ Consume(p)
    /\ UNCHANGED <<stream, wire, left, resynced, lock, host, delivered>>

\* Any other packet is captured and then sent to the host.
ParsePacket(p) ==
    /\ pc[p] = "parse"
    /\ Complete(buf[p]) /\ buf[p][1] # HCI_EVENT_SKWLOG
    /\ Recognise(p)
    /\ pc' = [pc EXCEPT ![p] = "lock"]
    /\ UNCHANGED <<stream, wire, buf, left, resynced, lock, host, delivered>>

-----------------------------------------------------------------------------
\* Slip: the lock is not waited for.
AcquireAnyway(p) ==
    /\ pc[p] = "lock"
    /\ lock' = p
    /\ left' = [left EXCEPT ![p] = PktLen(buf[p])]
    /\ pc' = [pc EXCEPT ![p] = "write"]
    /\ UNCHANGED <<stream, wire, buf, resynced, handled, host, delivered>>

\* pthread_mutex_lock(&write2host_lock)
Acquire(p) ==
    /\ pc[p] = "lock"
    /\ lock = NoPort
    /\ lock' = p
    /\ left' = [left EXCEPT ![p] = PktLen(buf[p])]
    /\ pc' = [pc EXCEPT ![p] = "write"]
    /\ UNCHANGED <<stream, wire, buf, resynced, handled, host, delivered>>

\* One write to the socket takes some of the rest (a failed write changes nothing).
Write(p) ==
    /\ pc[p] = "write"
    /\ left[p] > 0
    /\ \E n \in Transfers(left[p]) :
        LET done == PktLen(buf[p]) - left[p]
        IN  /\ host' = host \o SubSeq(buf[p], done + 1, done + n)
            /\ left' = [left EXCEPT ![p] = @ - n]
    /\ UNCHANGED <<stream, wire, buf, pc, resynced, handled, lock, delivered>>

\* Slip: the lock is kept.
ReleaseKeep(p) ==
    /\ pc[p] = "write"
    /\ left[p] = 0
    /\ delivered' = Append(delivered, [port |-> p, pkt |-> SubSeq(buf[p], 1, PktLen(buf[p]))])
    /\ Consume(p)
    /\ UNCHANGED <<stream, wire, left, resynced, handled, lock, host>>

\* pthread_mutex_unlock, and the thread goes on with the rest of its buffer.
Release(p) ==
    /\ pc[p] = "write"
    /\ left[p] = 0
    /\ lock' = NoPort
    /\ delivered' = Append(delivered, [port |-> p, pkt |-> SubSeq(buf[p], 1, PktLen(buf[p]))])
    /\ Consume(p)
    /\ UNCHANGED <<stream, wire, left, resynced, handled, host>>

Thread(p) ==
    \/ Read(p) \/ ParseMore(p) \/ ParseInvalid(p) \/ ParseLog(p) \/ ParsePacket(p)
    \/ Acquire(p) \/ Write(p) \/ Release(p)

Next == \E p \in Port : Thread(p)

\* Every thread runs, and the mutex is handed to every thread that waits for it.
Fairness == \A p \in Port : WF_vars(Thread(p)) /\ SF_vars(Acquire(p))

Spec == Init /\ [][Next]_vars
FairSpec == Spec /\ Fairness

-----------------------------------------------------------------------------
(* Properties *)

\* The size of a packet as the HCI transport, and the controller's log, frame it: the type, a header
\* with the length, and as many bytes as it says.
SizeInHeader(b) ==
    \/ b[1] = HCI_EVENT_PKT /\ Len(b) = 3 + b[3]
    \/ b[1] = HCI_SCODATA_PKT /\ Len(b) >= 4 /\ Len(b) = 4 + b[4]
    \/ b[1] = HCI_EVENT_SKWLOG /\ Len(b) >= 4 /\ Len(b) = 4 + b[3] + 256 * b[4]
    \/ b[1] \in {HCI_ACLDATA_PKT, HCI_ISO_PKT} /\ Len(b) >= 5 /\ Len(b) = 5 + b[4] + 256 * b[5]

\* One packet; the code keeps its length in a uint16_t.
IsPacket(b) == Len(b) >= 3 /\ SizeInHeader(b) /\ Len(b) < 65536

\* What the parser relies on: the controller sends whole packets, no byte between them is a packet
\* type, and no ISO packet stands behind such bytes, where find_valid_type may step over it.
IsFramed(s) ==
    \A i \in 1..Len(s) :
        /\ IsPacket(s[i].pkt)
        /\ \A j \in 1..Len(s[i].noise) : s[i].noise[j] \notin ParsedTypes
        /\ s[i].noise # <<>> => s[i].pkt[1] \in ResyncTypes

StreamsAreFramed == \A st \in Streams : \A p \in Port : IsFramed(st[p])

\* Every packet fits read_buffer.
PacketsFit ==
    \A st \in Streams : \A p \in Port : \A i \in 1..Len(st[p]) : Len(st[p][i].pkt) <= BufSize

PacketsOf(s) == [i \in 1..Len(s) |-> s[i].pkt]

\* The packets that are not for the host leave out an empty part.
ForHost(pkt) == IF pkt[1] # HCI_EVENT_SKWLOG THEN <<pkt>> ELSE <<>>
HostPackets(s) == FlattenSeq([i \in 1..Len(s) |-> ForHost(s[i].pkt)])

OnPort(p, d) == IF d.port = p THEN <<d.pkt>> ELSE <<>>
DeliveredOn(p) == FlattenSeq([i \in 1..Len(delivered) |-> OnPort(p, delivered[i])])

\* Framing: however read cuts the stream, the packets recognised on a port are the ones that
\* the controller sent, in order, even when invalid bytes (none of them a type) precede them.
PacketsRecognised == \A p \in Port : IsPrefix(handled[p], PacketsOf(stream[p]))

\* The bytes on the host socket are whole packets, one after the other, followed by the part
\* of the one that the holder of write2host_lock is writing: threads never mix their bytes.
HostSeesWholePackets ==
    host = FlattenSeq([i \in 1..Len(delivered) |-> delivered[i].pkt])
           \o (IF lock = NoPort THEN <<>>
               ELSE SubSeq(buf[lock], 1, PktLen(buf[lock]) - left[lock]))

\* As long as every packet fits read_buffer the thread never polls with a full buffer, where
\* it would spin on reads of 0 bytes.
NeverFull == \A p \in Port : pc[p] = "poll" => Len(buf[p]) < BufSize

\* A whole packet is left in the buffer only as a residue shorter than 4 bytes, or behind
\* invalid bytes that were just discarded.
HeldBackExplained ==
    \A p \in Port :
        pc[p] = "poll" /\ Complete(buf[p]) => Len(buf[p]) < 4 \/ resynced[p]

\* Every packet that the controller sends for the host gets there, unless a residue shorter
\* than 4 bytes, or one behind invalid bytes, waits for more data in the buffer.
AllDelivered ==
    \A p \in Port :
        <>[](\/ DeliveredOn(p) = HostPackets(stream[p])
             \/ wire[p] = <<>> /\ Complete(buf[p]) /\ (Len(buf[p]) < 4 \/ resynced[p]))

\* The threads implement the link that the stack relies on.
Link == INSTANCE HostLink WITH
            chan <- delivered,
            queue <- [p \in Port |-> Drop(HostPackets(stream[p]), Len(DeliveredOn(p)))]

\* Every step of the threads is a delivery of the next whole packet of a port, or invisible.
ImplementsHostLink == Link!Spec
=============================================================================
