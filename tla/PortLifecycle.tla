--------------------------- MODULE PortLifecycle ----------------------------
(***************************************************************************)
(* Opening and closing the ports (scom_vendor.c, BT_VND_OP_USERIAL_OPEN and   *)
(* _CLOSE of bt_vendor_skw.c), with the threads that run in between:          *)
(*   main       the stack's thread: scomm_vendor_socket_open, _port_close     *)
(*   recv(p)    scomm_vendor_recv_scomm_thread, one per open port             *)
(*   socket     scomm_vendor_recv_socket_thread, of port 0 only               *)
(* They share scomm_vnd without a lock.  Which bytes are read and written is  *)
(* the subject of RecvScomm and RecvRawdata; here a read or a write moves one *)
(* packet.                                                                  *)
(***************************************************************************)
EXTENDS Integers, FiniteSets

CONSTANTS
    NPorts,        \* the configured ports are 0..NPorts-1
    MaxSessions,   \* bound on the open/close cycles
    MaxData,       \* bound on the packets a device sends in a session
    MaxHostData,   \* bound on the packets the host sends in a session
    SocketRoom,    \* packets that fit the host socket while the host does not read
    Faults         \* what may fail: the calls that open a port, and how a device may die

ASSUME NPortsAssumption == NPorts \in 1..4
ASSUME BoundsAssumption == /\ MaxSessions \in Nat /\ MaxData \in Nat /\ MaxHostData \in Nat
                           /\ SocketRoom \in Nat
ASSUME FaultsAssumption == Faults \subseteq {"calls", "hup", "bad", "eof"}

Port == 0..(NPorts - 1)

VARIABLES
    mpc, mport,    \* main: where it is, and the port it opens or closes
    sessions,      \* cycles begun
    fd,            \* scomm->fd: "none" (no number), "open", "closed" (a number whose file is closed)
    host0, host1,  \* uart_fd[0] is open; uart_fd[1] as fd
    sig,           \* the ends of the signal socketpair that have a byte to read
    running, started, busy, driver,  \* thread_running .. driver_state
    tid,           \* thread_uart_id: "zero", "live", "minus1"
    rpc, got,      \* recv threads: where they are, and what the last read gave
    lock,          \* write2host_lock: its holder, or NoPort
    spc, target,   \* the socket thread, and the port of the packet it carries
    dev, data,     \* devices: their health, the packets they still send
    room, hostData,\* free space of the host socket, packets the host still sends
    late, again,   \* history: the uses of closed descriptors, and those that came twice
    revived,       \* history: ports whose driver_state was set after their thread had cleared it
    pollErr, doubleClose,  \* history: ports closed by their thread, ports closed twice
    hwError        \* history: "none", "due" (a read failed), "sent"

main == <<mpc, mport, sessions>>
chan == <<fd, host0, host1, sig>>
flags == <<running, started, busy, driver, tid>>
recv == <<rpc, got, lock>>
sock == <<spc, target>>
env == <<dev, data, room, hostData>>
uses == <<late, again>>
hist == <<uses, revived, pollErr, doubleClose, hwError>>
vars == <<main, chan, flags, recv, sock, env, hist>>

NoPort == -1
FailOutcomes == IF "calls" \in Faults THEN {TRUE, FALSE} ELSE {TRUE}

Init ==
    /\ mpc = "down" /\ mport = 0 /\ sessions = 0
    /\ fd = [p \in Port |-> "none"]
    /\ host0 = [p \in Port |-> FALSE] /\ host1 = [p \in Port |-> "none"]
    /\ sig = [p \in Port |-> {}]
    /\ running = [p \in Port |-> FALSE] /\ started = [p \in Port |-> FALSE]
    /\ busy = [p \in Port |-> FALSE] /\ driver = [p \in Port |-> FALSE]
    /\ tid = [p \in Port |-> "zero"]
    /\ rpc = [p \in Port |-> "none"] /\ got = [p \in Port |-> "none"]
    /\ lock = NoPort
    /\ spc = "none" /\ target = 0
    /\ dev = [p \in Port |-> "up"] /\ data = [p \in Port |-> MaxData]
    /\ room = SocketRoom /\ hostData = MaxHostData
    /\ late = {} /\ again = {} /\ revived = {}
    /\ pollErr = {} /\ doubleClose = {} /\ hwError = "none"

\* A thread ("main", the one of a port: "recv", or "socket") uses the host socket or a port.
\* Of the receive threads p tells which one, of the others the port they use.
Use(by, of, p) == [by |-> by, of |-> of, port |-> p]

\* The use comes too late when the descriptor is the number of a closed file, which may by
\* now be another file's; a -1 can harm nobody.
Uses(u, state) ==
    /\ late' = IF state = "closed" THEN late \cup {u} ELSE late
    /\ again' = IF state = "closed" /\ u \in late THEN again \cup {u} ELSE again

-----------------------------------------------------------------------------
(* main: BT_VND_OP_USERIAL_OPEN *)

Goto(l) == mpc' = l /\ UNCHANGED <<mport, sessions>>

\* The next port, or the end of the loop.
NextPort(loop, end) ==
    /\ IF mport + 1 < NPorts THEN mpc' = loop /\ mport' = mport + 1
                             ELSE mpc' = end /\ mport' = 0
    /\ UNCHANGED sessions

\* scomm_vendor_init, called by the vendor library's init before each open: the ports are
\* zeroed.  The devices, the sockets and the histories of a session start afresh.
OpenStart ==
    /\ mpc = "down"
    /\ sessions < MaxSessions
    /\ mpc' = "open" /\ mport' = 0 /\ sessions' = sessions + 1
    /\ fd' = [p \in Port |-> "none"]
    /\ host0' = [p \in Port |-> FALSE] /\ host1' = [p \in Port |-> "none"]
    /\ running' = [p \in Port |-> FALSE] /\ started' = [p \in Port |-> FALSE]
    /\ busy' = [p \in Port |-> FALSE] /\ driver' = [p \in Port |-> FALSE]
    /\ tid' = [p \in Port |-> "zero"]
    /\ lock' = NoPort
    /\ dev' = [p \in Port |-> "up"] /\ data' = [p \in Port |-> MaxData]
    /\ room' = SocketRoom /\ hostData' = MaxHostData
    /\ late' = {} /\ again' = {} /\ revived' = {}
    /\ pollErr' = {} /\ doubleClose' = {} /\ hwError' = "none"
    /\ UNCHANGED <<sig, rpc, got, sock>>

\* scomm_vendor_usbsdio_open; a failure ends the loop over the ports.
OpenFd ==
    /\ mpc = "open"
    /\ \E ok \in FailOutcomes :
        IF ok THEN Goto("socket") /\ fd' = [fd EXCEPT ![mport] = "open"]
              ELSE mpc' = "up" /\ mport' = 0 /\ UNCHANGED <<sessions, fd>>
    /\ UNCHANGED <<host0, host1, sig, flags, recv, sock, env, hist>>

\* scomm_vendor_socket_open up to the creation of the threads.
SocketOpen ==
    LET p == mport
    IN  /\ mpc = "socket"
        /\ Goto("await")
        /\ host0' = [host0 EXCEPT ![p] = TRUE] /\ host1' = [host1 EXCEPT ![p] = "open"]
        /\ running' = [running EXCEPT ![p] = TRUE]
        /\ started' = [started EXCEPT ![p] = FALSE]
        /\ tid' = [tid EXCEPT ![p] = "live"]
        /\ rpc' = [rpc EXCEPT ![p] = "start"]
        /\ spc' = IF p = 0 THEN "top" ELSE spc
        /\ UNCHANGED <<fd, sig, busy, driver, got, lock, target, env, hist>>

\* socketpair, epoll or pthread_create fails: the port keeps its fd, has no thread, and its
\* sockets may be left open.
SocketOpenFail ==
    LET p == mport
    IN  /\ mpc = "socket"
        /\ FALSE \in FailOutcomes
        /\ \E open \in BOOLEAN : host0' = [host0 EXCEPT ![p] = open]
                              /\ host1' = [host1 EXCEPT ![p] = IF open THEN "open" ELSE "none"]
        /\ running' = [running EXCEPT ![p] = FALSE]
        /\ NextPort("open", "up")
        /\ UNCHANGED <<fd, sig, started, busy, driver, tid, recv, sock, env, hist>>

\* The thread of p has met POLLERR or POLLHUP and cleared driver_state.
Failed(p) == p \in pollErr /\ rpc[p] # "hup"

\* The wait for recv_comm_thread_running, then driver_state, whatever the thread did to it.
AwaitThread ==
    /\ mpc = "await"
    /\ started[mport]
    /\ driver' = [driver EXCEPT ![mport] = TRUE]
    /\ revived' = IF Failed(mport) THEN revived \cup {mport} ELSE revived
    /\ NextPort("open", "up")
    /\ UNCHANGED <<chan, running, started, busy, tid, recv, sock, env,
                   uses, pollErr, doubleClose, hwError>>

-----------------------------------------------------------------------------
(* main: BT_VND_OP_USERIAL_CLOSE, scomm_vendor_port_close for each port *)

CloseStart ==
    /\ mpc = "up"
    /\ mpc' = "close" /\ mport' = 0
    /\ UNCHANGED <<sessions, chan, flags, recv, sock, env, hist>>

\* A port that was never opened is skipped.
CloseSkip ==
    /\ mpc = "close"
    /\ fd[mport] = "none"
    /\ NextPort("close", "down")
    /\ UNCHANGED <<chan, flags, recv, sock, env, hist>>

CloseFlags ==
    /\ mpc = "close"
    /\ fd[mport] # "none"
    /\ running' = [running EXCEPT ![mport] = FALSE]
    /\ driver' = [driver EXCEPT ![mport] = FALSE]
    /\ Goto("busy")
    /\ UNCHANGED <<chan, started, busy, tid, recv, sock, env, hist>>

\* while(scomm->is_busying)
CloseBusy ==
    /\ mpc = "busy"
    /\ ~busy[mport]
    /\ Goto("signal")
    /\ UNCHANGED <<chan, flags, recv, sock, env, hist>>

\* A byte written to one end of a socketpair is read at the other one.
PolledEnd == 1
SignalWrittenTo == 1

\* The signal is sent between ioctls on the port.
CloseSignal ==
    /\ mpc = "signal"
    /\ sig' = [sig EXCEPT ![mport] = @ \cup {1 - SignalWrittenTo}]
    /\ Uses(Use("main", "port", mport), fd[mport])
    /\ Goto("closefd")
    /\ UNCHANGED <<fd, host0, host1, flags, recv, sock, env, revived, pollErr, doubleClose, hwError>>

CloseFd ==
    /\ mpc = "closefd"
    /\ doubleClose' = IF fd[mport] = "closed" THEN doubleClose \cup {mport} ELSE doubleClose
    /\ fd' = [fd EXCEPT ![mport] = "closed"]
    /\ Uses(Use("main", "port", mport), fd[mport])
    /\ Goto("join")
    /\ UNCHANGED <<host0, host1, sig, flags, recv, sock, env, revived, pollErr, hwError>>

\* Slip: the receive thread is not waited for.
CloseJoinNot ==
    /\ mpc = "join"
    /\ Goto("socket0")
    /\ UNCHANGED <<chan, flags, recv, sock, env, hist>>

\* pthread_join, unless the thread has announced its end.
CloseJoin ==
    /\ mpc = "join"
    /\ tid[mport] = "live" => rpc[mport] = "done"
    /\ Goto("socket0")
    /\ UNCHANGED <<chan, flags, recv, sock, env, hist>>

\* scomm_vendor_socket_close: the host's end, then the end of the threads.
CloseSocket0 ==
    /\ mpc = "socket0"
    /\ host0' = [host0 EXCEPT ![mport] = FALSE]
    /\ Goto("socket1")
    /\ UNCHANGED <<fd, host1, sig, flags, recv, sock, env, hist>>

CloseSocket1 ==
    /\ mpc = "socket1"
    /\ host1' = [host1 EXCEPT ![mport] = IF @ = "open" THEN "closed" ELSE @]
    /\ Goto("joinsocket")
    /\ UNCHANGED <<fd, host0, sig, flags, recv, sock, env, hist>>

\* The join of the socket thread, and the rest of the descriptors; they are set to -1.
CloseFinish ==
    /\ mpc = "joinsocket"
    /\ mport = 0 => spc \in {"none", "done"}
    /\ sig' = [sig EXCEPT ![mport] = {}]
    /\ fd' = [fd EXCEPT ![mport] = "none"]
    /\ host1' = [host1 EXCEPT ![mport] = "none"]
    /\ NextPort("close", "down")
    /\ UNCHANGED <<host0, flags, recv, sock, env, hist>>

Main ==
    \/ OpenStart \/ OpenFd \/ SocketOpen \/ SocketOpenFail \/ AwaitThread
    \/ CloseStart \/ CloseSkip \/ CloseFlags \/ CloseBusy \/ CloseSignal \/ CloseFd
    \/ CloseJoin \/ CloseSocket0 \/ CloseSocket1 \/ CloseFinish

-----------------------------------------------------------------------------
(* scomm_vendor_recv_scomm_thread *)

RGoto(p, l) == rpc' = [rpc EXCEPT ![p] = l]

RecvStart(p) ==
    /\ rpc[p] = "start"
    /\ started' = [started EXCEPT ![p] = TRUE]
    /\ RGoto(p, "top")
    /\ UNCHANGED <<main, chan, running, busy, driver, tid, got, lock, sock, env, hist>>

\* while(scomm->thread_running)
RecvTop(p) ==
    /\ rpc[p] = "top"
    /\ RGoto(p, IF running[p] THEN "poll" ELSE "leave")
    /\ UNCHANGED <<main, chan, flags, got, lock, sock, env, hist>>

\* What poll finds on the port's descriptor.
Readable(p) == fd[p] = "open" /\ (dev[p] \in {"bad", "eof"} \/ (dev[p] = "up" /\ data[p] > 0))
HungUp(p) == fd[p] = "open" /\ dev[p] = "hup"

\* The exit signal is at the first index of the poll set.
ExitSeen(p) == PolledEnd \in sig[p] /\ ~running[p]

\* Slip: poll without a timeout.
RecvWakeNever(p) ==
    /\ rpc[p] = "poll"
    /\ ExitSeen(p)
    /\ RGoto(p, "leave")
    /\ UNCHANGED <<main, chan, flags, got, lock, sock, env, hist>>

\* poll returns for the exit signal, or after 500 ms without an event.  When the port was
\* closed meanwhile, the poll may have been called after that.
RecvWake(p) ==
    /\ rpc[p] = "poll"
    /\ ExitSeen(p) \/ ~(Readable(p) \/ HungUp(p))
    /\ Uses(Use("recv", "port", p), fd[p])
    /\ RGoto(p, IF ExitSeen(p) THEN "leave" ELSE "top")
    /\ UNCHANGED <<main, chan, flags, got, lock, sock, env, revived, pollErr, doubleClose, hwError>>

\* POLLIN: is_busying is cleared just before the read.
RecvPollIn(p) ==
    /\ rpc[p] = "poll"
    /\ Readable(p) /\ ~ExitSeen(p)
    /\ busy' = [busy EXCEPT ![p] = FALSE]
    /\ RGoto(p, "read")
    /\ UNCHANGED <<main, chan, running, started, driver, tid, got, lock, sock, env, hist>>

\* POLLERR or POLLHUP without POLLIN.
RecvPollErr(p) ==
    /\ rpc[p] = "poll"
    /\ HungUp(p) /\ ~ExitSeen(p)
    /\ pollErr' = pollErr \cup {p}
    /\ RGoto(p, "hup")
    /\ UNCHANGED <<main, chan, flags, got, lock, sock, env, uses, revived, doubleClose, hwError>>

\* Nothing is to be written to the port any more.
RecvHup(p) ==
    /\ rpc[p] = "hup"
    /\ driver' = [driver EXCEPT ![p] = FALSE]
    /\ RGoto(p, "close")
    /\ UNCHANGED <<main, chan, running, started, busy, tid, got, lock, sock, env, hist>>

\* The thread closes the port itself and ends.
RecvClose(p) ==
    /\ rpc[p] = "close"
    /\ doubleClose' = IF fd[p] = "closed" THEN doubleClose \cup {p} ELSE doubleClose
    /\ Uses(Use("recv", "port", p), fd[p])
    /\ fd' = [fd EXCEPT ![p] = "closed"]
    /\ RGoto(p, "leave")
    /\ UNCHANGED <<main, host0, host1, sig, flags, got, lock, sock, env, revived, pollErr, hwError>>

\* read: data, the end of the file, or an error (the port was closed meanwhile).
RecvRead(p) ==
    /\ rpc[p] = "read"
    /\ LET result == CASE fd[p] # "open" \/ dev[p] \in {"bad", "hup"} -> "fail"
                       [] dev[p] = "eof" -> "eof"
                       [] OTHER -> "data"
       IN  /\ got' = [got EXCEPT ![p] = result]
           /\ data' = IF result = "data" THEN [data EXCEPT ![p] = @ - 1] ELSE data
    /\ Uses(Use("recv", "port", p), fd[p])
    /\ RGoto(p, "mark")
    /\ UNCHANGED <<main, chan, flags, lock, sock, dev, room, hostData,
                   revived, pollErr, doubleClose, hwError>>

\* is_busying is set again; then the result of the read is handled.
MarkBusy(p) == busy' = [busy EXCEPT ![p] = TRUE]

RecvData(p) ==
    /\ rpc[p] = "mark" /\ got[p] = "data"
    /\ MarkBusy(p)
    /\ \E complete \in BOOLEAN : RGoto(p, IF complete THEN "lock" ELSE "top")
    /\ UNCHANGED <<main, chan, running, started, driver, tid, got, lock, sock, env, hist>>

RecvEof(p) ==
    /\ rpc[p] = "mark" /\ got[p] = "eof"
    /\ MarkBusy(p)
    /\ RGoto(p, IF running[p] THEN "top" ELSE "leave")
    /\ UNCHANGED <<main, chan, running, started, driver, tid, got, lock, sock, env, hist>>

\* Slips: the error is not sent; the thread closes the port as it does after POLLERR.
RecvFailSilent(p) ==
    /\ rpc[p] = "mark" /\ got[p] = "fail"
    /\ MarkBusy(p)
    /\ RGoto(p, "leave")
    /\ hwError' = IF running[p] /\ p = 0 THEN "due" ELSE hwError
    /\ UNCHANGED <<main, chan, running, started, driver, tid, got, lock, sock, env,
                   uses, revived, pollErr, doubleClose>>

RecvFailClose(p) ==
    /\ rpc[p] = "mark" /\ got[p] = "fail"
    /\ MarkBusy(p)
    /\ RGoto(p, "leave")
    /\ fd' = [fd EXCEPT ![p] = "closed"]
    /\ UNCHANGED <<main, host0, host1, sig, running, started, driver, tid, got, lock, sock,
                   env, hist>>

\* A read that fails on port 0 is reported to the host as a hardware error.
RecvFail(p) ==
    /\ rpc[p] = "mark" /\ got[p] = "fail"
    /\ MarkBusy(p)
    /\ IF running[p] /\ p = 0 THEN RGoto(p, "lock") /\ hwError' = "due"
                              ELSE RGoto(p, "leave") /\ UNCHANGED hwError
    /\ UNCHANGED <<main, chan, running, started, driver, tid, got, lock, sock, env,
                   uses, revived, pollErr, doubleClose>>

\* scomm_vendor_send_to_host: lock, test port 0's thread_running, write, unlock.
RecvLock(p) ==
    /\ rpc[p] = "lock"
    /\ lock = NoPort
    /\ lock' = p
    /\ RGoto(p, "test")
    /\ UNCHANGED <<main, chan, flags, got, sock, env, hist>>

AfterSend(p) == IF got[p] = "fail" THEN "leave" ELSE "top"

RecvGiveUp(p) ==
    /\ rpc[p] = "test"
    /\ ~running[0]
    /\ lock' = NoPort
    /\ RGoto(p, AfterSend(p))
    /\ UNCHANGED <<main, chan, flags, got, sock, env, hist>>

RecvTest(p) ==
    /\ rpc[p] = "test"
    /\ running[0]
    /\ RGoto(p, "write")
    /\ UNCHANGED <<main, chan, flags, got, lock, sock, env, hist>>

\* The write of the rest of the packet: all of it or a part; an error is retried.
CanWrite(p) == rpc[p] = "write" /\ host1[0] = "open" /\ host0[0] /\ room > 0

RecvWrite(p) ==
    /\ CanWrite(p)
    /\ room' = room - 1
    /\ lock' = NoPort
    /\ RGoto(p, AfterSend(p))
    /\ hwError' = IF got[p] = "fail" THEN "sent" ELSE hwError
    /\ UNCHANGED <<main, chan, flags, got, sock, dev, data, hostData,
                   uses, revived, pollErr, doubleClose>>

RecvWritePart(p) ==
    /\ CanWrite(p)
    /\ room' = room - 1
    /\ RGoto(p, "test")
    /\ UNCHANGED <<main, chan, flags, got, lock, sock, dev, data, hostData, hist>>

RecvWriteErr(p) ==
    /\ rpc[p] = "write"
    /\ ~(host1[0] = "open" /\ host0[0])
    /\ Uses(Use("recv", "host", p), host1[0])
    /\ RGoto(p, "test")
    /\ UNCHANGED <<main, chan, flags, got, lock, sock, env, revived, pollErr, doubleClose, hwError>>

\* The end of the thread: is_busying first, then thread_uart_id.
RecvLeave(p) ==
    /\ rpc[p] = "leave"
    /\ busy' = [busy EXCEPT ![p] = FALSE]
    /\ RGoto(p, "left")
    /\ UNCHANGED <<main, chan, running, started, driver, tid, got, lock, sock, env, hist>>

RecvDone(p) ==
    /\ rpc[p] = "left"
    /\ tid' = [tid EXCEPT ![p] = "minus1"]
    /\ RGoto(p, "done")
    /\ UNCHANGED <<main, chan, running, started, busy, driver, got, lock, sock, env, hist>>

Recv(p) ==
    \/ RecvStart(p) \/ RecvTop(p) \/ RecvWake(p) \/ RecvPollIn(p) \/ RecvPollErr(p)
    \/ RecvHup(p) \/ RecvClose(p) \/ RecvRead(p)
    \/ RecvData(p) \/ RecvEof(p) \/ RecvFail(p) \/ RecvLock(p) \/ RecvGiveUp(p)
    \/ RecvTest(p) \/ RecvWrite(p) \/ RecvWritePart(p) \/ RecvWriteErr(p)
    \/ RecvLeave(p) \/ RecvDone(p)

-----------------------------------------------------------------------------
(* scomm_vendor_recv_socket_thread and scomm_vendor_recv_rawdata *)

\* while(scomm_vnd[port_index].thread_running)
SocketTop ==
    /\ spc = "top"
    /\ spc' = IF running[0] THEN "wait" ELSE "done"
    /\ UNCHANGED <<main, chan, flags, recv, target, env, hist>>

\* What epoll_wait finds: data, or the end of the host's side.
HostEvent == host1[0] = "open" /\ (hostData > 0 \/ ~host0[0])

SocketEvent ==
    /\ spc = "wait"
    /\ HostEvent
    /\ spc' = "read"
    /\ UNCHANGED <<main, chan, flags, recv, target, env, hist>>

\* 500 ms without an event.
SocketIdle ==
    /\ spc = "wait"
    /\ ~HostEvent
    /\ spc' = "top"
    /\ UNCHANGED <<main, chan, flags, recv, target, env, hist>>

\* A packet is read and routed to a port.
SocketRead ==
    /\ spc = "read"
    /\ host1[0] = "open" /\ hostData > 0
    /\ \E s \in Port : target' = s
    /\ hostData' = hostData - 1
    /\ spc' = "check"
    /\ UNCHANGED <<main, chan, flags, recv, dev, data, room, hist>>

\* The host has closed its side, perhaps with packets it did not send; or main has closed this
\* one while the thread came from epoll_wait.
SocketReadErr ==
    /\ spc = "read"
    /\ ~(host1[0] = "open" /\ host0[0])
    /\ Uses(Use("socket", "host", 0), host1[0])
    /\ spc' = "top"
    /\ UNCHANGED <<main, chan, flags, recv, target, env, revived, pollErr, doubleClose, hwError>>

\* Slip: driver_state is not looked at.
SocketCheckNot ==
    /\ spc = "check"
    /\ spc' = "write"
    /\ UNCHANGED <<main, chan, flags, recv, target, env, hist>>

\* while((length > 0) && scomm_vnd[send_port].driver_state)
SocketCheck ==
    /\ spc = "check"
    /\ spc' = IF driver[target] THEN "write" ELSE "top"
    /\ UNCHANGED <<main, chan, flags, recv, target, env, hist>>

\* The write to the port of all that is left.
SocketWrite ==
    /\ spc = "write"
    /\ fd[target] = "open"
    /\ spc' = "top"
    /\ UNCHANGED <<main, chan, flags, recv, target, env, hist>>

\* A part was written: driver_state is tested again.
SocketWritePart ==
    /\ spc = "write"
    /\ fd[target] = "open"
    /\ spc' = "check"
    /\ UNCHANGED <<main, chan, flags, recv, target, env, hist>>

\* The descriptor is closed: the write fails and the handler returns.
SocketWriteErr ==
    /\ spc = "write"
    /\ fd[target] # "open"
    /\ spc' = "top"
    /\ Uses(Use("socket", "port", target), fd[target])
    /\ UNCHANGED <<main, chan, flags, recv, target, env, revived, pollErr, doubleClose, hwError>>

SocketThread ==
    \/ SocketTop \/ SocketEvent \/ SocketIdle \/ SocketRead \/ SocketReadErr \/ SocketCheck
    \/ SocketWrite \/ SocketWritePart \/ SocketWriteErr

-----------------------------------------------------------------------------
(* The host and the devices *)

\* The stack reads what was written to it.
HostRead ==
    /\ room < SocketRoom
    /\ room' = SocketRoom
    /\ UNCHANGED <<main, chan, flags, recv, sock, dev, data, hostData, hist>>

\* A device dies: hang-up, failing reads, or reads that return 0.
DeviceFails(p) ==
    /\ fd[p] = "open" /\ dev[p] = "up"
    /\ \E h \in Faults \ {"calls"} : dev' = [dev EXCEPT ![p] = h]
    /\ UNCHANGED <<main, chan, flags, recv, sock, data, room, hostData, hist>>

Next ==
    \/ Main \/ SocketThread \/ HostRead
    \/ \E p \in Port : Recv(p) \/ DeviceFails(p)

\* All threads run, poll and epoll_wait return after at most 500 ms, a waiting thread gets the
\* mutex, and a packet is written after finitely many parts.  The stack decides when to open
\* and to close, and reads its socket while the ports are up; while it closes it need not.
Fairness ==
    /\ WF_vars(Main /\ mpc \notin {"down", "up"})
    /\ WF_vars(SocketThread) /\ SF_vars(SocketWrite)
    /\ WF_vars(HostRead /\ mpc = "up")
    /\ \A p \in Port : WF_vars(Recv(p)) /\ SF_vars(RecvLock(p)) /\ SF_vars(RecvWrite(p))

Spec == Init /\ [][Next]_vars
FairSpec == Spec /\ Fairness

-----------------------------------------------------------------------------
(* Properties *)

\* main has left scomm_vendor_port_close for p.
Past(p) ==
    \/ mpc = "down"
    \/ mpc \in {"close", "busy", "signal", "closefd", "join", "socket0", "socket1",
                "joinsocket"} /\ p < mport

\* When scomm_vendor_port_close returns, no thread of the port is left that could use the
\* descriptors, which the next open may give to something else, and none holds the lock.
ClosedMeansStopped ==
    \A p \in Port : Past(p) =>
        /\ rpc[p] \in {"none", "done"}
        /\ lock # p
        /\ p = 0 => spc \in {"none", "done"}
        /\ fd[p] = "none" /\ ~busy[p]

\* Who may use a closed descriptor: threads of the other ports the host socket, which is closed
\* with port 0; the socket thread that socket and port 0, as both are closed before it is joined;
\* a receive thread its own port, which is closed before its join; and when the own thread
\* of a port closed it, the socket thread and main.
LateUser(u) ==
    \/ u.by = "recv" /\ u.of = "host" /\ u.port # 0
    \/ u.by = "recv" /\ u.of = "port"
    \/ u.by = "socket" /\ u.of = "host"
    \/ u.by = "socket" /\ u.of = "port" /\ u.port \in {0} \cup pollErr
    \/ u.by = "main" /\ u.of = "port" /\ u.port \in pollErr

\* Every late use is such a use, and happens once in a session, with what the thread had in
\* hand: the flags thread_running and driver_state stop the next one.  All receive threads
\* together write once to the closed host socket.  Only main, which tests no flag, comes again, and
\* the socket thread does for a port whose driver_state main set after the thread had failed.
LateUseExplained ==
    /\ \A u \in late : LateUser(u)
    /\ \A u, v \in late : u.by = "recv" /\ u.of = "host" /\ v.by = "recv" /\ v.of = "host" => u = v
    /\ \A u \in again : u.by = "main" \/ (u.by = "socket" /\ u.of = "port" /\ u.port \in revived)

\* scomm_vendor_port_close closes a descriptor a second time only when the thread had closed
\* it after POLLERR or POLLHUP.
DoubleCloseExplained == doubleClose \subseteq pollErr

\* Once port_close has sent the close signal, the poll of the receive thread sees it, as the
\* comments at the poll and at the write of the signal say.
ExitBySignal ==
    \A p \in Port : mpc \in {"closefd", "join"} /\ p = mport /\ rpc[p] = "poll" => ExitSeen(p)

\* A receive thread sits in the write to the full socket of a host that does not read.
HostBlocks == \E p \in Port : rpc[p] = "write" /\ room = 0 /\ host0[0] /\ host1[0] = "open"

\* BT_VND_OP_USERIAL_OPEN and BT_VND_OP_USERIAL_CLOSE return, whatever the devices do, unless
\* the stack closes while it no longer reads and a receive thread is blocked in its write:
\* is_busying then stays TRUE, or the thread is never joined.
OpenCloseTerminate ==
    /\ (mpc = "open") ~> (mpc = "up")
    /\ ((mpc = "close") ~> (mpc = "down")) \/ <>[]HostBlocks

\* A read that fails on port 0 while it is open reaches the host as a hardware error, unless
\* the stack closes the port first.
HwErrorReported == (hwError = "due") ~> (hwError = "sent" \/ ~running[0])
=============================================================================
