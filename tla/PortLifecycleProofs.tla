------------------------ MODULE PortLifecycleProofs -------------------------
(***************************************************************************)
(* Proofs about PortLifecycle: for any number of ports, of sessions and of    *)
(* packets, and however the devices die, a closed port has no thread left,    *)
(* and only the named threads use or close a descriptor too late.             *)
(***************************************************************************)
EXTENDS PortLifecycle, TLAPS

(* The inductive invariant *)

RPlaces == {"none", "start", "top", "poll", "read", "mark", "hup", "close", "lock", "test", "write",
            "leave", "left", "done"}
SPlaces == {"none", "top", "wait", "read", "check", "write", "done"}
Opening == {"open", "socket", "await"}
Closing == {"close", "busy", "signal", "closefd", "join", "socket0", "socket1", "joinsocket"}
Leaving == {"leave", "left", "done"}
Joined == {"socket0", "socket1", "joinsocket"}

Types ==
    /\ mpc \in {"down", "up"} \cup Opening \cup Closing /\ mport \in Port
    /\ fd \in [Port -> {"none", "open", "closed"}]
    /\ host1 \in [Port -> {"none", "open", "closed"}]
    /\ busy \in [Port -> BOOLEAN] /\ driver \in [Port -> BOOLEAN]
    /\ tid \in [Port -> {"zero", "live", "minus1"}]
    /\ rpc \in [Port -> RPlaces] /\ spc \in SPlaces
    /\ lock \in Port \cup {NoPort} /\ target \in Port

Alive(p) == rpc[p] \notin {"none", "done"}
SocketAlive == spc \notin {"none", "done"}

\* The receive threads, and what main can tell of them.
Threads ==
    \A p \in Port :
        /\ Alive(p) <=> tid[p] = "live"
        /\ Alive(p) => fd[p] # "none"
        /\ busy[p] => Alive(p)
        /\ rpc[p] = "left" => ~busy[p]
        /\ lock = p <=> rpc[p] \in {"test", "write"}
        /\ rpc[p] \in {"hup", "close"} => p \in pollErr
        /\ p \in pollErr => rpc[p] \in {"hup", "close"} \cup Leaving
        /\ p = 0 /\ Alive(p) => host1[p] = "open"
        /\ driver[p] => fd[p] # "none"

\* The socket thread lives as long as port 0, the first one to be closed, is open.
SocketRight ==
    /\ SocketAlive => fd[0] # "none"
    /\ SocketAlive /\ mpc \in Closing => mport = 0
    /\ spc = "write" => target = 0 \/ fd[target] = "open" \/ target \in pollErr

\* How far main is with opening and closing.
Fresh(p) == fd[p] = "none" /\ p \notin pollErr
MainRight ==
    /\ mpc = "down" => \A p \in Port : fd[p] = "none"
    /\ mpc = "open" => \A p \in Port : p >= mport => Fresh(p)
    /\ mpc \in {"socket", "await"} => fd[mport] # "none" /\ \A p \in Port : p > mport => Fresh(p)
    /\ mpc = "socket" => fd[mport] = "open" /\ mport \notin pollErr
    /\ mpc \in Closing => \A p \in Port : p < mport => fd[p] = "none"
    /\ mpc \in Joined \cup {"socket"} => ~Alive(mport)
    /\ mpc \in Closing \ {"close"} => ~driver[mport]

\* Who closed a descriptor.
ClosedRight ==
    \A p \in Port : fd[p] = "closed" =>
        \/ p \in pollErr /\ rpc[p] \in Leaving
        \/ mpc \in Joined \cup {"join"} /\ p = mport

Inv == Types /\ Threads /\ SocketRight /\ MainRight /\ ClosedRight
       /\ DoubleCloseExplained

USE DEF RPlaces, SPlaces, Opening, Closing, Joined, Leaving, Alive, SocketAlive, Fresh

LEMMA Ports == Port \subseteq Int /\ 0 \in Port /\ NoPort \notin Port
BY NPortsAssumption DEF Port, NoPort

LEMMA Before ==
    ASSUME NEW p, NEW q \in Port, p \in Port, p < q \/ p = q
    PROVE  p < q + 1
  BY Ports

LEMMA Order ==
    ASSUME NEW p \in Port, NEW q \in Port
    PROVE  (p >= q + 1 => p > q) /\ (p < q + 1 => p < q \/ p = q) /\ ~(p < 0)
BY NPortsAssumption DEF Port

-----------------------------------------------------------------------------
(* The receive threads *)

\* A step of a live thread that moves it, may take or leave the lock, and may change is_busying.
LEMMA RecvMoves ==
    ASSUME Inv, NEW p \in Port, Alive(p), rpc[p] \notin {"hup", "close"},
           NEW l \in RPlaces \ {"none", "done", "hup", "close"}, rpc' = [rpc EXCEPT ![p] = l],
           rpc[p] \in Leaving => l \in Leaving,
           UNCHANGED <<mpc, mport, fd, host1, driver, tid, spc, target, pollErr, doubleClose>>,
           NEW b \in BOOLEAN, busy' = [busy EXCEPT ![p] = b], l = "left" => ~b,
           lock' \in {lock, NoPort, p}, lock' # lock => lock \in {NoPort, p},
           lock' = p <=> l \in {"test", "write"}
    PROVE  Inv'
<1>1. Types'
  BY DEF Inv, Types
<1>2. rpc'[p] = l /\ busy'[p] = b /\ \A q \in Port \ {p} : rpc'[q] = rpc[q] /\ busy'[q] = busy[q]
  BY DEF Inv, Types
<1>3. Threads'
  <2>1. \A q \in Port : lock' = q <=> rpc'[q] \in {"test", "write"}
    BY <1>2, Ports DEF Inv, Threads
  <2>2. \A q \in Port : q \in pollErr' => rpc'[q] \in {"hup", "close"} \cup Leaving
    BY <1>2 DEF Inv, Threads
  <2> QED BY <1>2, <2>1, <2>2 DEF Inv, Threads
<1>4. SocketRight' /\ ClosedRight'
  BY <1>2 DEF Inv, SocketRight, ClosedRight
<1>5. MainRight'
  BY <1>2 DEF Inv, MainRight
<1>6. DoubleCloseExplained'
  BY DEF Inv, DoubleCloseExplained
<1> QED BY <1>1, <1>3, <1>4, <1>5, <1>6 DEF Inv

\* The steps of the thread between which it looks at nothing but its own state.
LEMMA RecvMovesKeep ==
    ASSUME Inv, NEW p \in Port,
           \/ RecvStart(p) \/ RecvTop(p) \/ RecvWake(p) \/ RecvPollIn(p) \/ RecvRead(p)
           \/ RecvData(p) \/ RecvEof(p) \/ RecvFail(p)
           \/ RecvLock(p) \/ RecvGiveUp(p) \/ RecvTest(p) \/ RecvWrite(p) \/ RecvWritePart(p)
           \/ RecvWriteErr(p) \/ RecvLeave(p)
    PROVE  Inv'
<1>1. UNCHANGED <<mpc, mport, fd, host1, driver, tid, spc, target, pollErr, doubleClose>>
  BY DEF RecvStart, RecvTop, RecvWake, RecvPollIn, RecvRead, RecvData, RecvEof, RecvFail, RecvLock,
         RecvGiveUp, RecvTest, RecvWrite, RecvWritePart, RecvWriteErr, RecvLeave, main, chan, flags, sock, hist
<1>2. busy \in [Port -> BOOLEAN] /\ busy = [busy EXCEPT ![p] = busy[p]]
  BY DEF Inv, Types
<1>3. (lock = p <=> rpc[p] \in {"test", "write"}) /\ lock \in Port \cup {NoPort}
  BY DEF Inv, Threads, Types
<1>4. Alive(p) /\ rpc[p] \notin {"hup", "close"} /\ (rpc[p] \in Leaving => RecvLeave(p))
  BY DEF Inv, Threads, RecvStart, RecvTop, RecvWake, RecvPollIn, RecvRead, RecvData, RecvEof,
         RecvFail, RecvLock, RecvGiveUp, RecvTest, RecvWrite, RecvWritePart, RecvWriteErr,
         RecvLeave, CanWrite
<1>5. CASE RecvStart(p) \/ RecvTop(p) \/ RecvWake(p) \/ RecvRead(p)
  <2>1. PICK l \in {"top", "poll", "leave", "mark"} :
          rpc' = [rpc EXCEPT ![p] = l] /\ busy' = busy /\ lock' = lock
          /\ rpc[p] \notin {"test", "write"} \cup Leaving
    BY <1>5 DEF RecvStart, RecvTop, RecvWake, RecvRead, RGoto, flags, recv
  <2> QED BY <1>1, <1>2, <1>3, <1>4, <2>1, RecvMoves
<1>6. CASE RecvPollIn(p) \/ RecvLeave(p)
  <2>1. PICK l \in {"read", "left"} :
          rpc' = [rpc EXCEPT ![p] = l] /\ busy' = [busy EXCEPT ![p] = FALSE] /\ lock' = lock
          /\ rpc[p] \notin {"test", "write"} /\ (rpc[p] \in Leaving => l = "left")
    BY <1>6 DEF RecvPollIn, RecvLeave, RGoto
  <2> QED BY <1>1, <1>3, <1>4, <2>1, RecvMoves
<1>7. CASE RecvData(p) \/ RecvEof(p) \/ RecvFail(p)
  <2>1. PICK l \in {"lock", "top", "leave"} :
          rpc' = [rpc EXCEPT ![p] = l] /\ busy' = [busy EXCEPT ![p] = TRUE] /\ lock' = lock
          /\ rpc[p] \notin {"test", "write"} \cup Leaving
    BY <1>7 DEF RecvData, RecvEof, RecvFail, MarkBusy, RGoto
  <2> QED BY <1>1, <1>3, <1>4, <2>1, RecvMoves
<1>8. CASE RecvLock(p) \/ RecvTest(p) \/ RecvWritePart(p) \/ RecvWriteErr(p)
  <2>1. PICK l \in {"test", "write"} :
          rpc' = [rpc EXCEPT ![p] = l] /\ busy' = busy /\ lock' = p /\ lock \in {NoPort, p}
          /\ rpc[p] \notin Leaving
    BY <1>3, <1>8 DEF RecvLock, RecvTest, RecvWritePart, RecvWriteErr, CanWrite, RGoto, flags
  <2> QED BY <1>1, <1>2, <1>4, <2>1, RecvMoves
<1>9. CASE RecvGiveUp(p) \/ RecvWrite(p)
  <2>1. PICK l \in {"leave", "top"} :
          rpc' = [rpc EXCEPT ![p] = l] /\ busy' = busy /\ lock' = NoPort /\ lock = p
          /\ rpc[p] \notin Leaving
    BY <1>3, <1>9 DEF RecvGiveUp, RecvWrite, CanWrite, AfterSend, RGoto, flags
  <2> QED BY <1>1, <1>2, <1>4, <2>1, Ports, RecvMoves
<1> QED BY <1>5, <1>6, <1>7, <1>8, <1>9

LEMMA RecvPollErrKeeps ==
    ASSUME Inv, NEW p \in Port, RecvPollErr(p)
    PROVE  Inv'
<1>1. /\ rpc[p] = "poll" /\ pollErr' = pollErr \cup {p} /\ rpc' = [rpc EXCEPT ![p] = "hup"]
      /\ UNCHANGED <<mpc, mport, fd, host1, busy, driver, tid, lock, spc, target, doubleClose>>
  BY DEF RecvPollErr, RGoto, main, chan, flags, sock
<1>2. Types'
  BY <1>1 DEF Inv, Types
<1>3. rpc'[p] = "hup" /\ \A q \in Port \ {p} : rpc'[q] = rpc[q]
  BY <1>1 DEF Inv, Types
<1>4. Threads'
  BY <1>1, <1>3 DEF Inv, Threads
<1>5. SocketRight' /\ ClosedRight'
  BY <1>1, <1>3 DEF Inv, SocketRight, ClosedRight
<1>6. fd[p] # "none" /\ (mpc = "socket" => p # mport)
  BY <1>1 DEF Inv, Threads, MainRight
<1>7. MainRight'
  BY <1>1, <1>3, <1>6 DEF Inv, MainRight
<1>8. DoubleCloseExplained'
  BY <1>1 DEF Inv, DoubleCloseExplained
<1> QED BY <1>2, <1>4, <1>5, <1>7, <1>8 DEF Inv

LEMMA RecvHupKeeps ==
    ASSUME Inv, NEW p \in Port, RecvHup(p)
    PROVE  Inv'
<1>1. /\ rpc[p] = "hup" /\ driver' = [driver EXCEPT ![p] = FALSE]
      /\ rpc' = [rpc EXCEPT ![p] = "close"]
      /\ UNCHANGED <<mpc, mport, fd, host1, busy, tid, lock, spc, target, pollErr, doubleClose>>
  BY DEF RecvHup, RGoto, main, chan, sock, hist
<1>2. Types'
  BY <1>1 DEF Inv, Types
<1>3. /\ rpc'[p] = "close" /\ ~driver'[p]
      /\ \A q \in Port \ {p} : rpc'[q] = rpc[q] /\ driver'[q] = driver[q]
  BY <1>1 DEF Inv, Types
<1>4. Threads'
  BY <1>1, <1>3 DEF Inv, Threads
<1>5. SocketRight' /\ ClosedRight'
  BY <1>1, <1>3 DEF Inv, SocketRight, ClosedRight
<1>6. MainRight'
  BY <1>1, <1>3 DEF Inv, Types, MainRight
<1>7. DoubleCloseExplained'
  BY <1>1 DEF Inv, DoubleCloseExplained
<1> QED BY <1>2, <1>4, <1>5, <1>6, <1>7 DEF Inv

\* The thread that closes its port is in pollErr.
LEMMA RecvCloseKeeps ==
    ASSUME Inv, NEW p \in Port, RecvClose(p)
    PROVE  Inv'
<1>1. /\ rpc[p] = "close"
      /\ doubleClose' = IF fd[p] = "closed" THEN doubleClose \cup {p} ELSE doubleClose
      /\ fd' = [fd EXCEPT ![p] = "closed"] /\ rpc' = [rpc EXCEPT ![p] = "leave"]
      /\ UNCHANGED <<mpc, mport, host1, busy, driver, tid, lock, spc, target, pollErr>>
  BY DEF RecvClose, RGoto, main, flags, sock
<1>2. Types'
  BY <1>1 DEF Inv, Types
<1>3. /\ rpc'[p] = "leave" /\ fd'[p] = "closed"
      /\ \A q \in Port \ {p} : rpc'[q] = rpc[q] /\ fd'[q] = fd[q]
  BY <1>1 DEF Inv, Types
<1>4. p \in pollErr /\ fd[p] # "none"
  BY <1>1 DEF Inv, Threads
<1>5. Threads'
  BY <1>1, <1>3 DEF Inv, Threads
<1>6. SocketRight'
  BY <1>1, <1>3, <1>4, Ports DEF Inv, Types, SocketRight
<1>7. ClosedRight'
  BY <1>1, <1>3, <1>4 DEF Inv, ClosedRight
<1>8. mpc = "socket" => p # mport
  BY <1>1 DEF Inv, MainRight
<1>9. MainRight'
  BY <1>1, <1>3, <1>4, <1>8 DEF Inv, Types, MainRight
<1>10. DoubleCloseExplained'
  BY <1>1, <1>4 DEF Inv, DoubleCloseExplained
<1> QED BY <1>2, <1>5, <1>6, <1>7, <1>9, <1>10 DEF Inv

LEMMA RecvDoneKeeps ==
    ASSUME Inv, NEW p \in Port, RecvDone(p)
    PROVE  Inv'
<1>1. /\ rpc[p] = "left" /\ tid' = [tid EXCEPT ![p] = "minus1"] /\ rpc' = [rpc EXCEPT ![p] = "done"]
      /\ UNCHANGED <<mpc, mport, fd, host1, busy, driver, lock, spc, target, pollErr, doubleClose>>
  BY DEF RecvDone, RGoto, main, chan, sock, hist
<1>2. Types'
  BY <1>1 DEF Inv, Types
<1>3. /\ rpc'[p] = "done" /\ tid'[p] = "minus1"
      /\ \A q \in Port \ {p} : rpc'[q] = rpc[q] /\ tid'[q] = tid[q]
  BY <1>1 DEF Inv, Types
<1>4. Threads'
  BY <1>1, <1>3 DEF Inv, Threads
<1>5. SocketRight' /\ ClosedRight'
  BY <1>1, <1>3 DEF Inv, SocketRight, ClosedRight
<1>6. MainRight'
  BY <1>1, <1>3 DEF Inv, MainRight
<1>7. DoubleCloseExplained'
  BY <1>1 DEF Inv, DoubleCloseExplained
<1> QED BY <1>2, <1>4, <1>5, <1>6, <1>7 DEF Inv

-----------------------------------------------------------------------------
(* The socket thread *)

\* A step that moves the socket thread, which is alive.
LEMMA SocketMoves ==
    ASSUME Inv, SocketAlive, spc' \in SPlaces \ {"none"}, target' \in Port,
           UNCHANGED <<mpc, mport, fd, host1, busy, driver, tid, rpc, lock, pollErr, doubleClose>>,
           spc' = "write" => target' = 0 \/ fd[target'] = "open" \/ target' \in pollErr
    PROVE  Inv'
<1>1. Types' /\ Threads'
  BY DEF Inv, Types, Threads
<1>2. SocketRight' /\ ClosedRight' /\ MainRight'
  BY DEF Inv, SocketRight, ClosedRight, MainRight
<1>3. DoubleCloseExplained'
  BY DEF Inv, DoubleCloseExplained
<1> QED BY <1>1, <1>2, <1>3 DEF Inv

\* While the socket thread lives, only port 0 is being closed by main.
LEMMA ClosedByThread ==
    ASSUME Inv, SocketAlive, NEW p \in Port, fd[p] = "closed"
    PROVE  p = 0 \/ p \in pollErr
BY DEF Inv, SocketRight, ClosedRight

LEMMA SocketThreadKeeps ==
    ASSUME Inv, SocketThread
    PROVE  Inv'
<1>1. UNCHANGED <<mpc, mport, fd, host1, busy, driver, tid, rpc, lock, pollErr, doubleClose>>
  BY DEF SocketThread, SocketTop, SocketEvent, SocketIdle, SocketRead, SocketReadErr, SocketCheck,
         SocketWrite, SocketWritePart, SocketWriteErr, main, chan, flags, recv, hist
<1>2. target \in Port
  BY DEF Inv, Types
<1>3. CASE \/ SocketTop \/ SocketEvent \/ SocketIdle \/ SocketRead \/ SocketReadErr
           \/ SocketWrite \/ SocketWritePart \/ SocketWriteErr
  <2>1. /\ SocketAlive /\ spc' \in {"done", "read", "check", "wait", "top"}
        /\ target' = target \/ target' \in Port
    BY <1>3 DEF SocketTop, SocketEvent, SocketIdle, SocketRead, SocketReadErr, SocketWrite,
                SocketWritePart, SocketWriteErr
  <2> QED BY <1>1, <1>2, <2>1, SocketMoves
<1>4. CASE SocketCheck
  <2>1. /\ SocketAlive /\ spc' \in {"write", "top"} /\ (spc' = "write" => driver[target])
        /\ UNCHANGED target
    BY <1>4 DEF SocketCheck
  <2>2. driver[target] => fd[target] \in {"open", "closed"}
    BY <1>2 DEF Inv, Threads, Types
  <2> QED BY <1>1, <1>2, <2>1, <2>2, ClosedByThread, SocketMoves
<1> QED BY <1>3, <1>4 DEF SocketThread

-----------------------------------------------------------------------------
(* main opens the ports *)

\* Everything is closed when the library is down.
LEMMA DownIsClosed ==
    ASSUME Inv, mpc = "down"
    PROVE  ~SocketAlive /\ \A p \in Port : fd[p] = "none" /\ ~Alive(p)
BY Ports DEF Inv, MainRight, Threads, SocketRight

LEMMA OpenStartKeeps ==
    ASSUME Inv, OpenStart
    PROVE  Inv'
<1>1. /\ mpc = "down" /\ mpc' = "open" /\ mport' = 0
      /\ fd' = [p \in Port |-> "none"] /\ host1' = [p \in Port |-> "none"]
      /\ busy' = [p \in Port |-> FALSE] /\ driver' = [p \in Port |-> FALSE]
      /\ tid' = [p \in Port |-> "zero"] /\ lock' = NoPort
      /\ pollErr' = {} /\ doubleClose' = {}
      /\ UNCHANGED <<rpc, spc, target>>
  BY DEF OpenStart, sock
<1>2. ~SocketAlive /\ \A p \in Port : ~Alive(p)
  BY <1>1, DownIsClosed
<1>3. Types'
  BY <1>1, Ports DEF Inv, Types
<1>4. Threads'
  BY <1>1, <1>2, Ports DEF Threads
<1>5. SocketRight'
  BY <1>1, <1>2 DEF SocketRight
<1>6. ClosedRight' /\ MainRight'
  BY <1>1 DEF ClosedRight, MainRight
<1>7. DoubleCloseExplained'
  BY <1>1 DEF DoubleCloseExplained
<1> QED BY <1>3, <1>4, <1>5, <1>6, <1>7 DEF Inv

LEMMA OpenFdKeeps ==
    ASSUME Inv, OpenFd
    PROVE  Inv'
<1>1. /\ mpc = "open"
      /\ UNCHANGED <<host1, busy, driver, tid, rpc, lock, spc, target, pollErr, doubleClose>>
  BY DEF OpenFd, flags, recv, sock, hist
<1>2. DoubleCloseExplained'
  BY <1>1 DEF Inv, DoubleCloseExplained
<1>3. CASE mpc' = "socket" /\ mport' = mport /\ fd' = [fd EXCEPT ![mport] = "open"]
  <2>1. Types'
    BY <1>1, <1>3 DEF Inv, Types
  <2>2. mport \in Port /\ fd'[mport] = "open" /\ \A p \in Port \ {mport} : fd'[p] = fd[p]
    BY <1>3 DEF Inv, Types
  <2>3. \A p \in Port : p >= mport => Fresh(p) /\ ~Alive(p)
    BY <1>1 DEF Inv, Threads, MainRight
  <2>4. Threads'
    BY <1>1, <1>3, <2>2 DEF Inv, Threads
  <2>5. SocketRight'
    BY <1>1, <1>3, <2>2, <2>3, Ports DEF Inv, Types, SocketRight
  <2>6. MainRight'
    BY <1>1, <1>3, <2>2, <2>3, Ports DEF MainRight
  <2>7. ClosedRight'
    BY <1>1, <1>3, <2>2 DEF Inv, ClosedRight
  <2> QED BY <1>2, <2>1, <2>4, <2>5, <2>6, <2>7 DEF Inv
<1>4. CASE mpc' = "up" /\ mport' = 0 /\ fd' = fd
  <2>1. Types' /\ Threads'
    BY <1>1, <1>4, Ports DEF Inv, Types, Threads
  <2>2. SocketRight' /\ MainRight' /\ ClosedRight'
    BY <1>1, <1>4 DEF Inv, SocketRight, MainRight, ClosedRight
  <2> QED BY <1>2, <2>1, <2>2 DEF Inv
<1> QED BY <1>3, <1>4 DEF OpenFd, Goto

\* What NextPort leads to.
LEMMA NextPorts ==
    ASSUME NEW loop, NEW end, NextPort(loop, end), mport \in Port
    PROVE  /\ mport' \in Port
           /\ \/ mpc' = loop /\ mport' = mport + 1
              \/ mpc' = end /\ mport' = 0 /\ \A p \in Port : p <= mport
BY NPortsAssumption DEF NextPort, Port

LEMMA SocketOpenKeeps ==
    ASSUME Inv, SocketOpen
    PROVE  Inv'
<1>1. /\ mpc = "socket" /\ mpc' = "await" /\ mport' = mport
      /\ host1' = [host1 EXCEPT ![mport] = "open"]
      /\ tid' = [tid EXCEPT ![mport] = "live"] /\ rpc' = [rpc EXCEPT ![mport] = "start"]
      /\ spc' = IF mport = 0 THEN "top" ELSE spc
      /\ UNCHANGED <<fd, busy, driver, lock, target, pollErr, doubleClose>>
  BY DEF SocketOpen, Goto, hist
<1>2. mport \in Port /\ fd[mport] = "open" /\ mport \notin pollErr /\ ~Alive(mport)
  BY <1>1 DEF Inv, Types, MainRight
<1>3. Types'
  BY <1>1 DEF Inv, Types
<1>4. /\ rpc'[mport] = "start" /\ tid'[mport] = "live" /\ host1'[mport] = "open"
      /\ \A p \in Port \ {mport} : rpc'[p] = rpc[p] /\ tid'[p] = tid[p] /\ host1'[p] = host1[p]
  BY <1>1, <1>2 DEF Inv, Types
<1>5. Threads'
  BY <1>1, <1>2, <1>4 DEF Inv, Threads
<1>6. SocketRight'
  BY <1>1, <1>2 DEF Inv, SocketRight
<1>7. MainRight' /\ ClosedRight'
  BY <1>1, <1>2 DEF Inv, MainRight, ClosedRight
<1>8. DoubleCloseExplained'
  BY <1>1 DEF Inv, DoubleCloseExplained
<1> QED BY <1>3, <1>5, <1>6, <1>7, <1>8 DEF Inv

LEMMA SocketOpenFailKeeps ==
    ASSUME Inv, SocketOpenFail
    PROVE  Inv'
<1>1. /\ mpc = "socket" /\ NextPort("open", "up")
      /\ UNCHANGED <<fd, busy, driver, tid, rpc, lock, spc, target, pollErr, doubleClose>>
  BY DEF SocketOpenFail, recv, sock, hist
<1>2. PICK open \in BOOLEAN : host1' = [host1 EXCEPT ![mport] = IF open THEN "open" ELSE "none"]
  BY DEF SocketOpenFail
<1>3. mport \in Port /\ ~Alive(mport)
  BY <1>1 DEF Inv, Types, MainRight
<1>4. mport' \in Port /\ ((mpc' = "open" /\ mport' = mport + 1) \/ (mpc' = "up" /\ mport' = 0))
  BY <1>1, <1>3, NextPorts
<1>5. Types'
  BY <1>1, <1>2, <1>4 DEF Inv, Types
<1>6. \A p \in Port \ {mport} : host1'[p] = host1[p]
  BY <1>2 DEF Inv, Types
<1>7. Threads'
  BY <1>1, <1>3, <1>6 DEF Inv, Threads
<1>8. SocketRight' /\ ClosedRight'
  BY <1>1, <1>4 DEF Inv, SocketRight, ClosedRight
<1>9. MainRight'
  <2>1. mpc' = "open" => \A p \in Port : p >= mport' => Fresh(p)'
    BY <1>1, <1>3, <1>4, Order DEF Inv, MainRight
  <2>2. mpc' \in {"open", "up"}
    BY <1>4
  <2> QED BY <2>1, <2>2 DEF MainRight
<1>10. DoubleCloseExplained'
  BY <1>1 DEF Inv, DoubleCloseExplained
<1> QED BY <1>5, <1>7, <1>8, <1>9, <1>10 DEF Inv

LEMMA AwaitThreadKeeps ==
    ASSUME Inv, AwaitThread
    PROVE  Inv'
<1>1. /\ mpc = "await" /\ NextPort("open", "up") /\ driver' = [driver EXCEPT ![mport] = TRUE]
      /\ UNCHANGED <<fd, host1, busy, tid, rpc, lock, spc, target, pollErr, doubleClose>>
  BY DEF AwaitThread, chan, recv, sock, hist
<1>2. mport \in Port /\ fd[mport] # "none"
  BY <1>1 DEF Inv, Types, MainRight
<1>3. mport' \in Port /\ ((mpc' = "open" /\ mport' = mport + 1) \/ (mpc' = "up" /\ mport' = 0))
  BY <1>1, <1>2, NextPorts
<1>4. Types'
  BY <1>1, <1>3 DEF Inv, Types
<1>5. \A p \in Port \ {mport} : driver'[p] = driver[p]
  BY <1>1 DEF Inv, Types
<1>6. Threads'
  BY <1>1, <1>2, <1>5 DEF Inv, Threads
<1>7. SocketRight' /\ ClosedRight'
  BY <1>1, <1>3 DEF Inv, SocketRight, ClosedRight
<1>8. MainRight'
  <2>1. mpc' = "open" => \A p \in Port : p >= mport' => Fresh(p)'
    BY <1>1, <1>2, <1>3, Order DEF Inv, MainRight
  <2>2. mpc' \in {"open", "up"}
    BY <1>3
  <2> QED BY <2>1, <2>2 DEF MainRight
<1>9. DoubleCloseExplained'
  BY <1>1 DEF Inv, DoubleCloseExplained
<1> QED BY <1>4, <1>6, <1>7, <1>8, <1>9 DEF Inv

-----------------------------------------------------------------------------
(* main closes the ports *)

\* A step of main within opening or closing a port that changes nothing the invariant speaks of.
LEMMA MainMoves ==
    ASSUME Inv, mport' = mport,
           UNCHANGED <<fd, host1, busy, tid, rpc, lock, spc, target, pollErr, doubleClose>>,
           driver' \in [Port -> BOOLEAN], \A p \in Port : driver'[p] => driver[p],
           \/ mpc = "close" /\ mpc' = "busy" /\ ~driver'[mport]
           \/ mpc = "busy" /\ mpc' = "signal"
           \/ mpc = "signal" /\ mpc' = "closefd"
           \/ mpc = "join" /\ mpc' = "socket0" /\ ~Alive(mport)
           \/ mpc = "socket0" /\ mpc' = "socket1"
    PROVE  Inv'
<1>1. Types'
  BY DEF Inv, Types
<1>2. Threads'
  BY DEF Inv, Threads
<1>3. SocketRight' /\ ClosedRight'
  BY DEF Inv, SocketRight, ClosedRight
<1>4. MainRight'
  BY DEF Inv, Types, MainRight
<1>5. DoubleCloseExplained'
  BY DEF Inv, DoubleCloseExplained
<1> QED BY <1>1, <1>2, <1>3, <1>4, <1>5 DEF Inv

LEMMA MainMovesKeep ==
    ASSUME Inv, CloseFlags \/ CloseBusy \/ CloseSignal \/ CloseJoin \/ CloseSocket0
    PROVE  Inv'
<1>1. /\ mport' = mport
      /\ UNCHANGED <<fd, host1, busy, tid, rpc, lock, spc, target, pollErr, doubleClose>>
  BY DEF CloseFlags, CloseBusy, CloseSignal, CloseJoin, CloseSocket0, Goto, chan, flags, recv, sock, hist
<1>2. mport \in Port /\ driver \in [Port -> BOOLEAN]
  BY DEF Inv, Types
<1>3. CASE CloseFlags
  <2>1. mpc = "close" /\ mpc' = "busy" /\ driver' = [driver EXCEPT ![mport] = FALSE]
    BY <1>3 DEF CloseFlags, Goto
  <2>2. ~driver'[mport] /\ driver' \in [Port -> BOOLEAN] /\ \A p \in Port : driver'[p] => driver[p]
    BY <1>2, <2>1
  <2> QED BY <1>1, <2>1, <2>2, MainMoves
<1>4. CASE CloseBusy \/ CloseSignal \/ CloseSocket0
  <2>1. /\ driver' = driver
        /\ \/ mpc = "busy" /\ mpc' = "signal"
           \/ mpc = "signal" /\ mpc' = "closefd"
           \/ mpc = "socket0" /\ mpc' = "socket1"
    BY <1>4 DEF CloseBusy, CloseSignal, CloseSocket0, Goto, flags
  <2> QED BY <1>1, <1>2, <2>1, MainMoves
<1>5. CASE CloseJoin
  <2>1. driver' = driver /\ mpc = "join" /\ mpc' = "socket0" /\ (tid[mport] = "live" => rpc[mport] = "done")
    BY <1>5 DEF CloseJoin, Goto, flags
  <2>2. ~Alive(mport)
    BY <1>2, <2>1 DEF Inv, Threads
  <2> QED BY <1>1, <1>2, <2>1, <2>2, MainMoves
<1> QED BY <1>3, <1>4, <1>5

LEMMA CloseStartKeeps ==
    ASSUME Inv, CloseStart
    PROVE  Inv'
<1>1. /\ mpc = "up" /\ mpc' = "close" /\ mport' = 0
      /\ UNCHANGED <<fd, host1, busy, driver, tid, rpc, lock, spc, target, pollErr, doubleClose>>
  BY DEF CloseStart, chan, flags, recv, sock, hist
<1>2. Types' /\ Threads'
  BY <1>1, Ports DEF Inv, Types, Threads
<1>3. SocketRight' /\ ClosedRight'
  BY <1>1 DEF Inv, SocketRight, ClosedRight
<1>4. MainRight'
  BY <1>1, Ports, Order DEF MainRight
<1>5. DoubleCloseExplained'
  BY <1>1 DEF Inv, DoubleCloseExplained
<1> QED BY <1>2, <1>3, <1>4, <1>5 DEF Inv

\* main goes on to the next port when this one is closed, or when it was never opened.
LEMMA NextPortCloses ==
    ASSUME Inv, mpc \in Closing, NextPort("close", "down"), ~SocketAlive, ~Alive(mport), ~driver[mport],
           fd' = [fd EXCEPT ![mport] = "none"],
           host1' = [host1 EXCEPT ![mport] = host1'[mport]], host1'[mport] \in {"none", "open", "closed"},
           UNCHANGED <<busy, driver, tid, rpc, lock, spc, target, pollErr, doubleClose>>
    PROVE  Inv'
<1>1. mport \in Port
  BY DEF Inv, Types
<1>2. /\ mport' \in Port
      /\ \/ mpc' = "close" /\ mport' = mport + 1
         \/ mpc' = "down" /\ mport' = 0 /\ \A p \in Port : p <= mport
  BY <1>1, NextPorts
<1>3. fd'[mport] = "none" /\ \A p \in Port \ {mport} : fd'[p] = fd[p] /\ host1'[p] = host1[p]
  BY DEF Inv, Types
<1>4. mpc' \in {"close", "down"}
  BY <1>2
<1>5. Types'
  BY <1>2, <1>4 DEF Inv, Types
<1>6. Threads'
  BY <1>3 DEF Inv, Threads
<1>7. SocketRight'
  BY DEF SocketRight
<1>8. ClosedRight'
  BY <1>3 DEF Inv, ClosedRight
<1>9. MainRight'
  <2>1. \A p \in Port : p <= mport => fd'[p] = "none"
    <3>1. \A p \in Port : p < mport => fd[p] = "none"
      BY DEF Inv, MainRight
    <3>2. \A p \in Port : p <= mport => p < mport \/ p = mport
      BY <1>1, Ports
    <3> QED BY <1>3, <3>1, <3>2
  <2>2. mpc' = "down" => \A p \in Port : fd'[p] = "none"
    BY <1>2, <2>1
  <2>3. mpc' = "close" => \A p \in Port : p < mport' => fd'[p] = "none"
    <3>1. \A p \in Port : p < mport + 1 => p <= mport
      BY <1>1, Ports
    <3> QED BY <1>2, <2>1, <3>1
  <2> QED BY <1>4, <2>2, <2>3 DEF MainRight
<1>10. DoubleCloseExplained'
  BY DEF Inv, DoubleCloseExplained
<1> QED BY <1>5, <1>6, <1>7, <1>8, <1>9, <1>10 DEF Inv

LEMMA CloseSkipKeeps ==
    ASSUME Inv, CloseSkip
    PROVE  Inv'
<1>1. /\ mpc = "close" /\ NextPort("close", "down") /\ fd[mport] = "none"
      /\ UNCHANGED <<fd, host1, busy, driver, tid, rpc, lock, spc, target, pollErr, doubleClose>>
  BY DEF CloseSkip, chan, flags, recv, sock, hist
<1>2. /\ mport \in Port /\ fd' = [fd EXCEPT ![mport] = "none"]
      /\ host1' = [host1 EXCEPT ![mport] = host1'[mport]] /\ host1'[mport] \in {"none", "open", "closed"}
  BY <1>1 DEF Inv, Types
<1>3. ~Alive(mport) /\ ~driver[mport]
  BY <1>1, <1>2 DEF Inv, Threads
<1>4. ~SocketAlive
  BY <1>1 DEF Inv, SocketRight
<1>5. mpc \in Closing
  BY <1>1
<1> QED BY <1>1, <1>2, <1>3, <1>4, <1>5, NextPortCloses

LEMMA CloseFinishKeeps ==
    ASSUME Inv, CloseFinish
    PROVE  Inv'
<1>1. /\ mpc = "joinsocket" /\ NextPort("close", "down") /\ (mport = 0 => ~SocketAlive)
      /\ fd' = [fd EXCEPT ![mport] = "none"] /\ host1' = [host1 EXCEPT ![mport] = "none"]
      /\ UNCHANGED <<busy, driver, tid, rpc, lock, spc, target, pollErr, doubleClose>>
  BY DEF CloseFinish, flags, recv, sock, hist
<1>2. mpc \in Closing /\ host1'[mport] = "none"
  BY <1>1 DEF Inv, Types
<1>3. ~Alive(mport) /\ ~driver[mport]
  BY <1>1 DEF Inv, MainRight
<1>4. ~SocketAlive
  BY <1>1, <1>2 DEF Inv, SocketRight
<1> QED BY <1>1, <1>2, <1>3, <1>4, NextPortCloses

\* A descriptor that is closed already was closed by its thread.
LEMMA CloseFdKeeps ==
    ASSUME Inv, CloseFd
    PROVE  Inv'
<1>1. /\ mpc = "closefd" /\ mpc' = "join" /\ mport' = mport /\ fd' = [fd EXCEPT ![mport] = "closed"]
      /\ doubleClose' = IF fd[mport] = "closed" THEN doubleClose \cup {mport} ELSE doubleClose
      /\ UNCHANGED <<host1, busy, driver, tid, rpc, lock, spc, target, pollErr>>
  BY DEF CloseFd, Goto, flags, recv, sock
<1>2. mport \in Port
  BY DEF Inv, Types
<1>3. fd'[mport] = "closed" /\ \A p \in Port \ {mport} : fd'[p] = fd[p]
  BY <1>1 DEF Inv, Types
<1>4. fd[mport] = "closed" => mport \in pollErr
  BY <1>1, <1>2 DEF Inv, ClosedRight
<1>5. Types'
  BY <1>1 DEF Inv, Types
<1>6. Threads'
  BY <1>1, <1>3 DEF Inv, Threads
<1>7. SocketRight'
  BY <1>1, <1>3, Ports DEF Inv, Types, SocketRight
<1>8. ClosedRight'
  BY <1>1, <1>3 DEF Inv, ClosedRight
<1>9. MainRight'
  <2>1. \A p \in Port : p < mport => p # mport /\ fd[p] = "none"
    BY <1>1, <1>2, Ports DEF Inv, MainRight
  <2>2. ~driver[mport]
    BY <1>1 DEF Inv, MainRight
  <2> QED BY <1>1, <1>3, <2>1, <2>2 DEF MainRight
<1>10. DoubleCloseExplained'
  BY <1>1, <1>4 DEF Inv, DoubleCloseExplained
<1> QED BY <1>5, <1>6, <1>7, <1>8, <1>9, <1>10 DEF Inv

LEMMA CloseSocket1Keeps ==
    ASSUME Inv, CloseSocket1
    PROVE  Inv'
<1>1. /\ mpc = "socket1" /\ mpc' = "joinsocket" /\ mport' = mport
      /\ host1' = [host1 EXCEPT ![mport] = IF @ = "open" THEN "closed" ELSE @]
      /\ UNCHANGED <<fd, busy, driver, tid, rpc, lock, spc, target, pollErr, doubleClose>>
  BY DEF CloseSocket1, Goto, flags, recv, sock, hist
<1>2. mport \in Port /\ ~Alive(mport)
  BY <1>1 DEF Inv, Types, MainRight
<1>3. \A p \in Port \ {mport} : host1'[p] = host1[p]
  BY <1>1 DEF Inv, Types
<1>4. Types'
  BY <1>1 DEF Inv, Types
<1>5. Threads'
  BY <1>1, <1>2, <1>3 DEF Inv, Threads
<1>6. SocketRight' /\ ClosedRight'
  BY <1>1 DEF Inv, SocketRight, ClosedRight
<1>7. MainRight'
  BY <1>1 DEF Inv, MainRight
<1>8. DoubleCloseExplained'
  BY <1>1 DEF Inv, DoubleCloseExplained
<1> QED BY <1>4, <1>5, <1>6, <1>7, <1>8 DEF Inv

-----------------------------------------------------------------------------
(* The invariant holds *)

LEMMA InitInv == Init => Inv
<1> SUFFICES ASSUME Init PROVE Inv
  OBVIOUS
<1>1. Types
  BY Ports DEF Init, Types
<1>2. Threads
  BY Ports DEF Init, Threads
<1>3. SocketRight /\ MainRight /\ ClosedRight
  BY DEF Init, SocketRight, MainRight, ClosedRight
<1>4. DoubleCloseExplained
  BY DEF Init, DoubleCloseExplained
<1> QED BY <1>1, <1>2, <1>3, <1>4 DEF Inv

\* The invariant does not speak of the host and the devices.
LEMMA QuietKeeps ==
    ASSUME Inv,
           UNCHANGED <<mpc, mport, fd, host1, busy, driver, tid, rpc, lock, spc, target, pollErr,
                       doubleClose>>
    PROVE  Inv'
<1>1. Types' /\ Threads'
  BY DEF Inv, Types, Threads
<1>2. SocketRight' /\ MainRight' /\ ClosedRight'
  BY DEF Inv, SocketRight, MainRight, ClosedRight
<1>3. DoubleCloseExplained'
  BY DEF Inv, DoubleCloseExplained
<1> QED BY <1>1, <1>2, <1>3 DEF Inv

LEMMA NextInv == Inv /\ [Next]_vars => Inv'
<1> SUFFICES ASSUME Inv, [Next]_vars PROVE Inv'
  OBVIOUS
<1>1. CASE Main
  BY <1>1, OpenStartKeeps, OpenFdKeeps, SocketOpenKeeps, SocketOpenFailKeeps, AwaitThreadKeeps,
     CloseStartKeeps, CloseSkipKeeps, MainMovesKeep, CloseFdKeeps, CloseSocket1Keeps, CloseFinishKeeps
     DEF Main
<1>2. CASE SocketThread
  BY <1>2, SocketThreadKeeps
<1>3. ASSUME NEW p \in Port, Recv(p) PROVE Inv'
  BY <1>3, RecvMovesKeep, RecvPollErrKeeps, RecvHupKeeps, RecvCloseKeeps, RecvDoneKeeps DEF Recv
<1>4. ASSUME HostRead \/ (\E p \in Port : DeviceFails(p)) \/ UNCHANGED vars PROVE Inv'
  <2>1. UNCHANGED <<mpc, mport, fd, host1, busy, driver, tid, rpc, lock, spc, target, pollErr,
                    doubleClose>>
    BY <1>4 DEF HostRead, DeviceFails, vars, main, chan, flags, recv, sock, hist
  <2> QED BY <2>1, QuietKeeps
<1> QED BY <1>1, <1>2, <1>3, <1>4 DEF Next

LEMMA InvAlways == Spec => []Inv
BY InitInv, NextInv, PTL DEF Spec

-----------------------------------------------------------------------------
(* The uses of closed descriptors *)

\* thread_running is cleared before a descriptor is closed, but by the thread that leaves.
RunningRight ==
    /\ running \in [Port -> BOOLEAN]
    /\ mpc \in Closing \ {"close"} => ~running[mport]
    /\ \A p \in Port : fd[p] = "closed" => ~running[p] \/ rpc[p] \in Leaving
    /\ host1[0] = "closed" => mpc = "joinsocket" /\ mport = 0

\* So is driver_state, but for the ports where main has set it again.
RevivedRight ==
    \A p \in Port : driver[p] /\ (fd[p] = "closed" \/ rpc[p] = "close") => p \in revived

\* After the late use of a thread its flag is down, and the thread is past the places from which
\* it could use the descriptor again without a look at that flag.
HostOver == ~running[0] /\ host1[0] # "open" /\ mpc \in Closing \cup {"down"}
Stopped(p) ==
    /\ ~driver[p] /\ ~(spc = "write" /\ target = p)
    /\ mpc = "await" /\ mport = p => Failed(p)

Guard(u) ==
    /\ u.of = "host" => HostOver
    /\ u.by = "recv" /\ u.of = "host" => \A p \in Port : rpc[p] # "write"
    /\ u.by = "socket" /\ u.of = "host" => spc # "read"
    /\ u.of = "port" => /\ u.port \in Port
                        /\ mpc \in Opening => u.port < mport \/ (u.port = mport /\ mpc = "await")
    /\ u.by = "recv" /\ u.of = "port" => /\ ~running[u.port]
                                         /\ rpc[u.port] \notin {"poll", "read", "hup", "close"}
    /\ u.by = "socket" /\ u.of = "port" => u.port \in revived \/ Stopped(u.port)

ByRecvOfHost(u) == u.by = "recv" /\ u.of = "host"
Repeats(u) == u.by = "main" \/ (u.by = "socket" /\ u.of = "port" /\ u.port \in revived)

Flags == RunningRight /\ RevivedRight
Guards == \A u \in late : Guard(u)
LateInv == Flags /\ Guards /\ LateUseExplained

\* The histories only grow while the library is up, so what was explained stays so.
LEMMA LateKept ==
    ASSUME LateInv, Flags', \A u \in late : Guard(u)', UNCHANGED <<late, again>>,
           pollErr \subseteq pollErr', revived \subseteq revived'
    PROVE  LateInv'
<1>1. \A u \in late : LateUser(u)'
  BY DEF LateInv, LateUseExplained, LateUser
<1>2. \A u \in again : Repeats(u)'
  BY DEF LateInv, LateUseExplained, Repeats
<1>3. LateUseExplained'
  BY <1>1, <1>2 DEF LateInv, LateUseExplained, Repeats
<1> QED BY <1>3 DEF LateInv, Guards

\* The same with one use more.
LEMMA LateGrows ==
    ASSUME LateInv, Flags', \A u \in late : Guard(u)',
           pollErr \subseteq pollErr', revived \subseteq revived',
           NEW u, NEW state, Uses(u, state),
           state = "closed" =>
               /\ Guard(u)' /\ LateUser(u)'
               /\ u \in late => Repeats(u)'
               /\ ByRecvOfHost(u) => \A v \in late : ~ByRecvOfHost(v)
    PROVE  LateInv'
<1>1. CASE state # "closed"
  BY <1>1, LateKept DEF Uses
<1>2. CASE state = "closed"
  <2>1. late' = late \cup {u} /\ again' = IF u \in late THEN again \cup {u} ELSE again
    BY <1>2 DEF Uses
  <2>2. \A v \in late' : LateUser(v)' /\ Guard(v)'
    BY <1>2, <2>1 DEF LateInv, LateUseExplained, LateUser
  <2>3. \A v, w \in late' : ByRecvOfHost(v) /\ ByRecvOfHost(w) => v = w
    BY <1>2, <2>1 DEF LateInv, LateUseExplained, ByRecvOfHost
  <2>4. \A v \in again' : Repeats(v)'
    BY <1>2, <2>1 DEF LateInv, LateUseExplained, Repeats
  <2>5. LateUseExplained'
    BY <2>2, <2>3, <2>4 DEF LateUseExplained, Repeats, ByRecvOfHost
  <2> QED BY <2>2, <2>5 DEF LateInv, Guards
<1> QED BY <1>1, <1>2

-----------------------------------------------------------------------------
(* The receive threads do not use a closed descriptor twice *)

\* A step of the thread of p, neither into the handling of POLLERR nor out of it.
LEMMA RecvFlags ==
    ASSUME Inv, LateInv, NEW p \in Port, NEW l \in RPlaces \ {"hup", "close"},
           rpc' = [rpc EXCEPT ![p] = l], rpc[p] \in Leaving => l \in Leaving,
           l = "write" => running[0], l = "poll" => running[p], l = "read" => rpc[p] = "poll",
           rpc[p] \notin {"hup", "close"},
           UNCHANGED <<mpc, mport, fd, host1, running, driver, spc, target, pollErr, revived>>
    PROVE  Flags' /\ \A u \in late : Guard(u)'
<1>1. rpc'[p] = l /\ \A q \in Port \ {p} : rpc'[q] = rpc[q]
  BY DEF Inv, Types
<1>2. RunningRight' /\ RevivedRight'
  BY <1>1 DEF LateInv, Flags, RunningRight, RevivedRight
<1>3. ASSUME NEW u \in late PROVE Guard(u)'
  <2>1. Guard(u)
    BY DEF LateInv, Guards
  <2>2. HostOver' = HostOver
    BY DEF HostOver
  <2>3. u.by = "recv" /\ u.of = "host" => \A q \in Port : rpc'[q] # "write"
    BY <1>1, <2>1 DEF Guard, HostOver
  <2>4. u.by = "recv" /\ u.of = "port" => /\ ~running'[u.port]
                                         /\ rpc'[u.port] \notin {"poll", "read", "hup", "close"}
    BY <1>1, <2>1 DEF Guard
  <2>5. \A q \in Port : Failed(q) => Failed(q)'
    BY <1>1 DEF Failed
  <2>6. u.port \in Port /\ Stopped(u.port) => Stopped(u.port)'
    BY <2>5 DEF Stopped
  <2> QED BY <2>1, <2>2, <2>3, <2>4, <2>6 DEF Guard
<1> QED BY <1>2, <1>3 DEF Flags

RecvKeepsUses(p) ==
    \/ RecvStart(p) \/ RecvTop(p) \/ RecvPollIn(p) \/ RecvData(p) \/ RecvEof(p) \/ RecvFail(p)
    \/ RecvLock(p) \/ RecvGiveUp(p) \/ RecvTest(p) \/ RecvWrite(p) \/ RecvWritePart(p)
    \/ RecvLeave(p) \/ RecvDone(p)

LEMMA RecvLateKept ==
    ASSUME Inv, LateInv, NEW p \in Port, RecvKeepsUses(p)
    PROVE  LateInv'
<1>1. UNCHANGED <<mpc, mport, fd, host1, running, driver, spc, target, pollErr, revived, late, again>>
  BY DEF RecvKeepsUses, RecvStart, RecvTop, RecvPollIn, RecvData, RecvEof, RecvFail, RecvLock,
         RecvGiveUp, RecvTest, RecvWrite, RecvWritePart, RecvLeave, RecvDone, main, chan, flags,
         sock, hist, uses
<1>2. PICK l \in RPlaces \ {"hup", "close"} :
        /\ rpc' = [rpc EXCEPT ![p] = l] /\ (rpc[p] \in Leaving => l \in Leaving)
        /\ l = "write" => running[0]
        /\ l = "poll" => running[p]
        /\ l = "read" => rpc[p] = "poll"
        /\ rpc[p] \notin {"hup", "close"}
  <2>1. CASE RecvStart(p) \/ RecvTop(p) \/ RecvPollIn(p) \/ RecvLeave(p) \/ RecvDone(p)
    BY <2>1 DEF RecvStart, RecvTop, RecvPollIn, RecvLeave, RecvDone, RGoto
  <2>2. CASE RecvData(p) \/ RecvEof(p) \/ RecvFail(p) \/ RecvLock(p) \/ RecvTest(p)
    BY <2>2 DEF RecvData, RecvEof, RecvFail, RecvLock, RecvTest, RGoto
  <2>3. CASE RecvGiveUp(p) \/ RecvWrite(p) \/ RecvWritePart(p)
    BY <2>3 DEF RecvGiveUp, RecvWrite, RecvWritePart, CanWrite, AfterSend, RGoto
  <2> QED BY <2>1, <2>2, <2>3 DEF RecvKeepsUses
<1>3. Flags' /\ \A u \in late : Guard(u)'
  BY <1>1, <1>2, RecvFlags
<1> QED BY <1>1, <1>3, LateKept

\* A poll or a read of a port that main has closed: the next test of thread_running fails.
LEMMA RecvLateOwn ==
    ASSUME Inv, LateInv, NEW p \in Port, RecvWake(p) \/ RecvRead(p)
    PROVE  LateInv'
<1>1. UNCHANGED <<mpc, mport, fd, host1, running, driver, spc, target, pollErr, revived>>
  BY DEF RecvWake, RecvRead, main, chan, flags, sock, hist
<1>2. PICK l \in {"top", "leave", "mark"} :
        rpc' = [rpc EXCEPT ![p] = l] /\ rpc[p] \in {"poll", "read"}
  BY DEF RecvWake, RecvRead, RGoto
<1>3. Flags' /\ \A u \in late : Guard(u)'
  BY <1>1, <1>2, RecvFlags
<1> DEFINE u == Use("recv", "port", p)
<1>4. u.by = "recv" /\ u.of = "port" /\ u.port = p
  BY DEF Use
<1>5. Uses(u, fd[p])
  BY DEF RecvWake, RecvRead
<1> HIDE DEF u
<1>6. ASSUME fd[p] = "closed" PROVE Guard(u)' /\ LateUser(u)' /\ u \notin late
  <2>1. ~running[p] /\ (mpc \in Opening => p < mport \/ (p = mport /\ mpc = "await"))
    BY <1>2, <1>6, Ports DEF Inv, Types, MainRight, LateInv, Flags, RunningRight
  <2>2. rpc'[p] \in {"top", "leave", "mark"}
    BY <1>2 DEF Inv, Types
  <2>3. Guard(u)' /\ LateUser(u)'
    BY <1>1, <1>4, <2>1, <2>2 DEF Guard, LateUser
  <2>4. u \notin late
    BY <1>2, <1>4 DEF LateInv, Guards, Guard
  <2> QED BY <2>3, <2>4
<1>7. ~ByRecvOfHost(u)
  BY <1>4 DEF ByRecvOfHost
<1> QED BY <1>1, <1>3, <1>5, <1>6, <1>7, LateGrows

\* The write to the closed host socket: the writer holds the lock, and thread_running of port 0
\* is FALSE, so no thread gets to the write any more.
LEMMA RecvLateHost ==
    ASSUME Inv, LateInv, NEW p \in Port, RecvWriteErr(p)
    PROVE  LateInv'
<1>1. /\ UNCHANGED <<mpc, mport, fd, host1, running, driver, spc, target, pollErr, revived>>
      /\ rpc[p] = "write" /\ rpc' = [rpc EXCEPT ![p] = "test"]
  BY DEF RecvWriteErr, RGoto, main, chan, flags, sock, hist
<1>2. Flags' /\ \A u \in late : Guard(u)'
  BY <1>1, RecvFlags
<1> DEFINE u == Use("recv", "host", p)
<1>3. u.by = "recv" /\ u.of = "host" /\ u.port = p
  BY DEF Use
<1>4. Uses(u, host1[0])
  BY DEF RecvWriteErr
<1> HIDE DEF u
<1>5. ASSUME host1[0] = "closed" PROVE Guard(u)' /\ LateUser(u)'
  <2>1. HostOver
    BY <1>5 DEF LateInv, Flags, RunningRight, HostOver
  <2>2. \A q \in Port : rpc'[q] # "write"
    BY <1>1 DEF Inv, Types, Threads
  <2>3. p # 0
    BY <1>1, <1>5 DEF Inv, Threads
  <2> QED BY <1>1, <1>3, <2>1, <2>2, <2>3 DEF Guard, LateUser, HostOver
<1>6. \A v \in late : ~ByRecvOfHost(v)
  BY <1>1 DEF LateInv, Guards, Guard, ByRecvOfHost
<1>7. u \notin late
  BY <1>3, <1>6 DEF ByRecvOfHost
<1> QED BY <1>1, <1>2, <1>4, <1>5, <1>6, <1>7, LateGrows

\* POLLERR: the thread clears driver_state, then closes the port, and is not seen again.
LEMMA RecvLatePollErr ==
    ASSUME Inv, LateInv, NEW p \in Port, RecvPollErr(p)
    PROVE  LateInv'
<1>1. /\ UNCHANGED <<mpc, mport, fd, host1, running, driver, spc, target, revived, late, again>>
      /\ rpc[p] = "poll" /\ rpc' = [rpc EXCEPT ![p] = "hup"] /\ pollErr' = pollErr \cup {p}
  BY DEF RecvPollErr, RGoto, main, chan, flags, sock, uses
<1>2. /\ rpc'[p] = "hup" /\ p \notin pollErr
      /\ \A q \in Port \ {p} : rpc'[q] = rpc[q]
  BY <1>1 DEF Inv, Types, Threads
<1>3. fd[p] # "closed" \/ ~running[p]
  BY <1>1 DEF LateInv, Flags, RunningRight
<1>4. RunningRight' /\ RevivedRight'
  BY <1>1, <1>2, <1>3 DEF LateInv, Flags, RunningRight, RevivedRight
<1>5. ASSUME NEW u \in late PROVE Guard(u)'
  <2>1. Guard(u)
    BY DEF LateInv, Guards
  <2>2. HostOver' = HostOver /\ \A q \in Port : Failed(q) => Failed(q)'
    BY <1>1, <1>2 DEF HostOver, Failed
  <2>3. u.port \in Port /\ Stopped(u.port) => Stopped(u.port)'
    BY <1>1, <2>2 DEF Stopped
  <2>4. u.by = "recv" /\ u.of = "port" => u.port # p
    BY <1>1, <2>1 DEF Guard
  <2> QED BY <1>1, <1>2, <2>1, <2>2, <2>3, <2>4 DEF Guard
<1> QED BY <1>1, <1>4, <1>5, LateKept DEF Flags

LEMMA RecvLateHup ==
    ASSUME Inv, LateInv, NEW p \in Port, RecvHup(p)
    PROVE  LateInv'
<1>1. /\ UNCHANGED <<mpc, mport, fd, host1, running, spc, target, pollErr, revived, late, again>>
      /\ rpc[p] = "hup" /\ rpc' = [rpc EXCEPT ![p] = "close"]
      /\ driver' = [driver EXCEPT ![p] = FALSE]
  BY DEF RecvHup, RGoto, main, chan, sock, hist, uses
<1>2. /\ rpc'[p] = "close" /\ ~driver'[p]
      /\ \A q \in Port \ {p} : rpc'[q] = rpc[q] /\ driver'[q] = driver[q]
  BY <1>1 DEF Inv, Types
<1>3. RunningRight' /\ RevivedRight'
  BY <1>1, <1>2 DEF LateInv, Flags, RunningRight, RevivedRight
<1>4. ASSUME NEW u \in late PROVE Guard(u)'
  <2>1. Guard(u)
    BY DEF LateInv, Guards
  <2>2. HostOver' = HostOver /\ \A q \in Port : Failed(q) => Failed(q)'
    BY <1>1, <1>2 DEF HostOver, Failed
  <2>3. u.port \in Port /\ Stopped(u.port) => Stopped(u.port)'
    BY <1>1, <1>2, <2>2 DEF Stopped
  <2>4. u.by = "recv" /\ u.of = "port" => u.port # p
    BY <1>1, <2>1 DEF Guard
  <2> QED BY <1>1, <1>2, <2>1, <2>2, <2>3, <2>4 DEF Guard
<1> QED BY <1>1, <1>3, <1>4, LateKept DEF Flags

LEMMA RecvLateClose ==
    ASSUME Inv, LateInv, NEW p \in Port, RecvClose(p)
    PROVE  LateInv'
<1>1. /\ UNCHANGED <<mpc, mport, host1, running, driver, spc, target, pollErr, revived>>
      /\ rpc[p] = "close" /\ rpc' = [rpc EXCEPT ![p] = "leave"] /\ fd' = [fd EXCEPT ![p] = "closed"]
  BY DEF RecvClose, RGoto, main, flags, sock
<1>2. /\ rpc'[p] = "leave" /\ \A q \in Port \ {p} : rpc'[q] = rpc[q] /\ fd'[q] = fd[q]
  BY <1>1 DEF Inv, Types
<1>3. RunningRight' /\ RevivedRight'
  BY <1>1, <1>2 DEF LateInv, Flags, RunningRight, RevivedRight
<1>4. ASSUME NEW u \in late PROVE Guard(u)'
  <2>1. Guard(u)
    BY DEF LateInv, Guards
  <2>2. HostOver' = HostOver /\ \A q \in Port : Failed(q) => Failed(q)'
    BY <1>1, <1>2 DEF HostOver, Failed
  <2>3. u.port \in Port /\ Stopped(u.port) => Stopped(u.port)'
    BY <1>1, <2>2 DEF Stopped
  <2> QED BY <1>1, <1>2, <2>1, <2>2, <2>3 DEF Guard
<1> DEFINE u == Use("recv", "port", p)
<1>5. u.by = "recv" /\ u.of = "port" /\ u.port = p
  BY DEF Use
<1>6. Uses(u, fd[p])
  BY DEF RecvClose
<1> HIDE DEF u
<1>7. ASSUME fd[p] = "closed" PROVE Guard(u)' /\ LateUser(u)' /\ u \notin late
  <2>1. ~running[p] /\ (mpc \in Opening => p < mport \/ (p = mport /\ mpc = "await"))
    BY <1>1, <1>7, Ports DEF Inv, Types, MainRight, LateInv, Flags, RunningRight
  <2>2. Guard(u)' /\ LateUser(u)'
    BY <1>1, <1>2, <1>5, <2>1 DEF Guard, LateUser
  <2>3. u \notin late
    BY <1>1, <1>5 DEF LateInv, Guards, Guard
  <2> QED BY <2>2, <2>3
<1>8. ~ByRecvOfHost(u)
  BY <1>5 DEF ByRecvOfHost
<1> QED BY <1>1, <1>3, <1>4, <1>6, <1>7, <1>8, LateGrows DEF Flags

-----------------------------------------------------------------------------
(* Nor does the socket thread, but for a port that main has revived *)

LEMMA SocketFlags ==
    ASSUME Inv, LateInv,
           UNCHANGED <<mpc, mport, fd, host1, running, driver, rpc, pollErr, revived>>,
           spc' = "read" => host1[0] = "open",
           spc' = "write" => target' = target /\ driver[target]
    PROVE  Flags' /\ \A u \in late : Guard(u)'
<1>1. RunningRight' /\ RevivedRight'
  BY DEF LateInv, Flags, RunningRight, RevivedRight
<1>2. ASSUME NEW u \in late PROVE Guard(u)'
  <2>1. Guard(u)
    BY DEF LateInv, Guards
  <2>2. HostOver' = HostOver /\ \A q \in Port : Failed(q)' = Failed(q)
    BY DEF HostOver, Failed
  <2>3. u.port \in Port /\ Stopped(u.port) => Stopped(u.port)'
    BY <2>2 DEF Stopped
  <2>4. HostOver => spc' # "read"
    BY DEF HostOver
  <2> QED BY <2>1, <2>2, <2>3, <2>4 DEF Guard
<1> QED BY <1>1, <1>2 DEF Flags

LEMMA SocketLateKept ==
    ASSUME Inv, LateInv,
           \/ SocketTop \/ SocketEvent \/ SocketIdle \/ SocketRead \/ SocketCheck
           \/ SocketWrite \/ SocketWritePart
    PROVE  LateInv'
<1>1. UNCHANGED <<mpc, mport, fd, host1, running, driver, rpc, pollErr, revived, late, again>>
  BY DEF SocketTop, SocketEvent, SocketIdle, SocketRead, SocketCheck, SocketWrite, SocketWritePart,
         main, chan, flags, recv, hist, uses
<1>2. /\ spc' = "read" => host1[0] = "open"
      /\ spc' = "write" => target' = target /\ driver[target]
  BY DEF SocketTop, SocketEvent, HostEvent, SocketIdle, SocketRead, SocketCheck, SocketWrite, SocketWritePart
<1> QED BY <1>1, <1>2, SocketFlags, LateKept

LEMMA SocketLateRead ==
    ASSUME Inv, LateInv, SocketReadErr
    PROVE  LateInv'
<1>1. /\ UNCHANGED <<mpc, mport, fd, host1, running, driver, rpc, pollErr, revived>>
      /\ spc = "read" /\ spc' = "top"
  BY DEF SocketReadErr, main, chan, flags, recv, hist
<1>2. Flags' /\ \A u \in late : Guard(u)'
  BY <1>1, SocketFlags
<1> DEFINE u == Use("socket", "host", 0)
<1>3. u.by = "socket" /\ u.of = "host"
  BY DEF Use
<1>4. Uses(u, host1[0])
  BY DEF SocketReadErr
<1> HIDE DEF u
<1>5. ASSUME host1[0] = "closed" PROVE Guard(u)' /\ LateUser(u)'
  <2>1. HostOver
    BY <1>5 DEF LateInv, Flags, RunningRight, HostOver
  <2> QED BY <1>1, <1>3, <2>1 DEF Guard, LateUser, HostOver
<1>6. u \notin late
  BY <1>1, <1>3 DEF LateInv, Guards, Guard
<1>7. ~ByRecvOfHost(u)
  BY <1>3 DEF ByRecvOfHost
<1> QED BY <1>1, <1>2, <1>4, <1>5, <1>6, <1>7, LateGrows

\* driver_state of a closed port is FALSE unless main has set it again.
LEMMA SocketLateWrite ==
    ASSUME Inv, LateInv, SocketWriteErr
    PROVE  LateInv'
<1>1. /\ UNCHANGED <<mpc, mport, fd, host1, running, driver, rpc, pollErr, revived>>
      /\ spc = "write" /\ spc' = "top" /\ target' = target
  BY DEF SocketWriteErr, main, chan, flags, recv, hist
<1>2. Flags' /\ \A u \in late : Guard(u)'
  BY <1>1, SocketFlags
<1>10. PICK t \in Port : t = target
  BY DEF Inv, Types
<1> DEFINE u == Use("socket", "port", t)
<1>3. u.by = "socket" /\ u.of = "port" /\ u.port = t
  BY DEF Use
<1>4. Uses(u, fd[target])
  BY <1>10 DEF SocketWriteErr
<1> HIDE DEF u
<1>5. ASSUME fd[target] = "closed"
      PROVE  Guard(u)' /\ LateUser(u)' /\ (u \in late => Repeats(u)')
  <2>1. t \in {0} \cup pollErr
    BY <1>1, <1>10, <1>5 DEF Inv, Types, SocketRight
  <2>2. mpc \in Opening => t < mport \/ (t = mport /\ mpc = "await")
    BY <1>10, <1>5, Ports DEF Inv, Types, MainRight
  <2>3. t \in revived \/ ~driver[t]
    BY <1>10, <1>5 DEF LateInv, Flags, RevivedRight
  <2>4. mpc = "await" => Failed(t)
    BY <1>10, <1>5 DEF Inv, ClosedRight, Failed
  <2>5. t \in revived \/ Stopped(t)'
    BY <1>1, <2>3, <2>4 DEF Stopped, Failed
  <2>6. Guard(u)' /\ LateUser(u)'
    BY <1>1, <1>3, <2>1, <2>2, <2>5 DEF Guard, LateUser
  <2>7. u \in late => t \in revived
    BY <1>1, <1>10, <1>3 DEF LateInv, Guards, Guard, Stopped
  <2> QED BY <1>1, <1>3, <2>6, <2>7 DEF Repeats
<1>6. ~ByRecvOfHost(u)
  BY <1>3 DEF ByRecvOfHost
<1> QED BY <1>1, <1>2, <1>4, <1>5, <1>6, LateGrows

-----------------------------------------------------------------------------
(* main opens the ports with no late use of theirs, and uses a closed one that its thread closed *)

LEMMA OpenLate ==
    ASSUME Inv, Inv', LateInv, OpenStart
    PROVE  LateInv'
<1>1. /\ late' = {} /\ again' = {} /\ mpc' = "open"
      /\ fd' = [p \in Port |-> "none"] /\ host1' = [p \in Port |-> "none"]
      /\ running' = [p \in Port |-> FALSE] /\ driver' = [p \in Port |-> FALSE]
  BY DEF OpenStart
<1>2. RunningRight' /\ RevivedRight'
  BY <1>1, Ports DEF RunningRight, RevivedRight
<1>3. LateUseExplained' /\ Guards'
  BY <1>1 DEF LateUseExplained, Guards
<1> QED BY <1>2, <1>3 DEF LateInv, Flags

\* The steps of main that open a port.
LEMMA OpenFdLate ==
    ASSUME Inv, LateInv, OpenFd
    PROVE  LateInv'
<1>1. /\ mpc = "open" /\ UNCHANGED <<host1, running, driver, rpc, spc, target, pollErr, revived, late, again>>
      /\ \/ mpc' = "socket" /\ mport' = mport /\ fd' = [fd EXCEPT ![mport] = "open"]
         \/ mpc' = "up" /\ fd' = fd
  BY DEF OpenFd, Goto, flags, recv, sock, hist, uses
<1>2. \A p \in Port : fd'[p] = "closed" => fd[p] = "closed"
  BY <1>1 DEF Inv, Types
<1>3. RunningRight' /\ RevivedRight'
  BY <1>1, <1>2 DEF LateInv, Flags, RunningRight, RevivedRight
<1>4. ASSUME NEW u \in late PROVE Guard(u)'
  <2>1. Guard(u) /\ ~HostOver
    BY <1>1 DEF LateInv, Guards, HostOver
  <2>2. u.port \in Port /\ Stopped(u.port) => Stopped(u.port)'
    BY <1>1 DEF Stopped
  <2> QED BY <1>1, <2>1, <2>2 DEF Guard
<1> QED BY <1>1, <1>3, <1>4, LateKept DEF Flags

LEMMA SocketOpenLate ==
    ASSUME Inv, LateInv, SocketOpen
    PROVE  LateInv'
<1>1. /\ mpc = "socket" /\ mpc' = "await" /\ mport' = mport
      /\ host1' = [host1 EXCEPT ![mport] = "open"] /\ running' = [running EXCEPT ![mport] = TRUE]
      /\ rpc' = [rpc EXCEPT ![mport] = "start"] /\ spc' = IF mport = 0 THEN "top" ELSE spc
      /\ UNCHANGED <<fd, driver, target, pollErr, revived, late, again>>
  BY DEF SocketOpen, Goto, hist, uses
<1>2. mport \in Port /\ fd[mport] = "open" /\ mport \notin pollErr
  BY <1>1 DEF Inv, Types, MainRight
<1>3. /\ running'[mport] /\ rpc'[mport] = "start"
      /\ \A p \in Port \ {mport} : rpc'[p] = rpc[p] /\ running'[p] = running[p]
      /\ host1'[0] = "closed" => host1[0] = "closed"
      /\ running' \in [Port -> BOOLEAN]
  BY <1>1, <1>2, Ports DEF Inv, Types, LateInv, Flags, RunningRight
<1>4. RunningRight' /\ RevivedRight'
  BY <1>1, <1>2, <1>3 DEF LateInv, Flags, RunningRight, RevivedRight
<1>5. ASSUME NEW u \in late PROVE Guard(u)'
  <2>1. Guard(u) /\ ~HostOver
    BY <1>1 DEF LateInv, Guards, HostOver
  <2>2. u.of = "port" => u.port \in Port /\ u.port < mport /\ u.port # mport
    BY <1>1, <1>2, <2>1, Ports DEF Guard
  <2>3. u.port \in Port /\ u.port # mport /\ Stopped(u.port) => Stopped(u.port)'
    BY <1>1 DEF Stopped
  <2> QED BY <1>1, <1>3, <2>1, <2>2, <2>3 DEF Guard
<1> QED BY <1>1, <1>4, <1>5, LateKept DEF Flags

LEMMA SocketOpenFailLate ==
    ASSUME Inv, LateInv, SocketOpenFail
    PROVE  LateInv'
<1>1. /\ mpc = "socket" /\ NextPort("open", "up")
      /\ running' = [running EXCEPT ![mport] = FALSE]
      /\ UNCHANGED <<fd, driver, rpc, spc, target, pollErr, revived, late, again>>
  BY DEF SocketOpenFail, recv, sock, hist, uses
<1>2. PICK open \in BOOLEAN : host1' = [host1 EXCEPT ![mport] = IF open THEN "open" ELSE "none"]
  BY DEF SocketOpenFail
<1>3. mport \in Port
  BY DEF Inv, Types
<1>4. (mpc' = "open" /\ mport' = mport + 1) \/ mpc' = "up"
  BY <1>1, <1>3, NextPorts
<1>5. /\ host1'[0] = "closed" => host1[0] = "closed"
      /\ running' \in [Port -> BOOLEAN] /\ \A p \in Port : running'[p] => running[p]
  BY <1>1, <1>2, <1>3, Ports DEF Inv, Types, LateInv, Flags, RunningRight
<1>6. RunningRight' /\ RevivedRight'
  BY <1>1, <1>4, <1>5 DEF LateInv, Flags, RunningRight, RevivedRight
<1>7. ASSUME NEW u \in late PROVE Guard(u)'
  <2>1. Guard(u) /\ ~HostOver
    BY <1>1 DEF LateInv, Guards, HostOver
  <2>2. u.of = "port" => u.port \in Port /\ u.port < mport + 1
    <3>1. u.of = "port" => u.port \in Port /\ (u.port < mport \/ u.port = mport)
      BY <1>1, <2>1 DEF Guard
    <3> QED BY <1>3, <3>1, Before
  <2>3. u.port \in Port /\ Stopped(u.port) => Stopped(u.port)'
    BY <1>1, <1>4 DEF Stopped
  <2> QED BY <1>1, <1>4, <1>5, <2>1, <2>2, <2>3 DEF Guard
<1> QED BY <1>1, <1>6, <1>7, LateKept DEF Flags

\* driver_state is set again behind the back of a thread that has failed.
LEMMA AwaitThreadLate ==
    ASSUME Inv, LateInv, AwaitThread
    PROVE  LateInv'
<1>1. /\ mpc = "await" /\ NextPort("open", "up")
      /\ driver' = [driver EXCEPT ![mport] = TRUE]
      /\ revived' = IF Failed(mport) THEN revived \cup {mport} ELSE revived
      /\ UNCHANGED <<fd, host1, running, rpc, spc, target, pollErr, late, again>>
  BY DEF AwaitThread, chan, recv, sock, uses
<1>2. mport \in Port /\ \A p \in Port \ {mport} : driver'[p] = driver[p]
  BY <1>1 DEF Inv, Types
<1>3. (mpc' = "open" /\ mport' = mport + 1) \/ mpc' = "up"
  BY <1>1, <1>2, NextPorts
<1>4. fd[mport] = "closed" \/ rpc[mport] = "close" => Failed(mport)
  BY <1>1, <1>2 DEF Inv, Threads, ClosedRight, Failed
<1>5. RunningRight' /\ RevivedRight'
  BY <1>1, <1>2, <1>3, <1>4 DEF LateInv, Flags, RunningRight, RevivedRight
<1>6. ASSUME NEW u \in late PROVE Guard(u)'
  <2>1. Guard(u) /\ ~HostOver
    BY <1>1 DEF LateInv, Guards, HostOver
  <2>2. u.of = "port" => u.port \in Port /\ u.port < mport + 1
    <3>1. u.of = "port" => u.port \in Port /\ (u.port < mport \/ u.port = mport)
      BY <1>1, <2>1 DEF Guard
    <3> QED BY <1>2, <3>1, Before
  <2>3. u.port \in Port /\ Stopped(u.port) => u.port \in revived' \/ Stopped(u.port)'
    BY <1>1, <1>2, <1>3 DEF Stopped
  <2> QED BY <1>1, <1>3, <2>1, <2>2, <2>3 DEF Guard
<1> QED BY <1>1, <1>5, <1>6, LateKept DEF Flags

\* The steps of main that close a port.
CloseKeepsUses ==
    CloseStart \/ CloseSkip \/ CloseFlags \/ CloseBusy \/ CloseJoin \/ CloseSocket0

LEMMA CloseGuards ==
    ASSUME Inv, LateInv, mpc \in {"up"} \cup Closing, mpc' \in Closing \cup {"down"},
           host1'[0] = "open" => host1[0] = "open",
           \A p \in Port : (running'[p] => running[p]) /\ (driver'[p] => driver[p]),
           UNCHANGED <<rpc, spc, target, pollErr, revived>>
    PROVE  \A u \in late : Guard(u)'
<1> SUFFICES ASSUME NEW u \in late PROVE Guard(u)'
  OBVIOUS
<1>1. Guard(u)
  BY DEF LateInv, Guards
<1>2. HostOver => HostOver'
  BY Ports DEF HostOver
<1>3. u.port \in Port /\ Stopped(u.port) => Stopped(u.port)'
  BY DEF Stopped
<1> QED BY <1>1, <1>2, <1>3 DEF Guard

LEMMA CloseLateKept ==
    ASSUME Inv, Inv', LateInv, CloseKeepsUses
    PROVE  LateInv'
<1>1. /\ UNCHANGED <<fd, host1, rpc, spc, target, pollErr, revived, late, again>>
      /\ mpc \in {"up"} \cup Closing
  BY DEF CloseKeepsUses, CloseStart, CloseSkip, CloseFlags, CloseBusy, CloseJoin, CloseSocket0,
         chan, flags, recv, sock, hist, uses
<1>2. mport \in Port
  BY DEF Inv, Types
<1>3. CASE CloseFlags
  <2>1. /\ mpc' = "busy" /\ mport' = mport /\ mpc = "close"
        /\ running' = [running EXCEPT ![mport] = FALSE] /\ driver' = [driver EXCEPT ![mport] = FALSE]
    BY <1>3 DEF CloseFlags, Goto
  <2>2. /\ \A p \in Port : (running'[p] => running[p]) /\ (driver'[p] => driver[p])
        /\ ~running'[mport] /\ running' \in [Port -> BOOLEAN]
    BY <1>2, <2>1 DEF Inv, Types, LateInv, Flags, RunningRight
  <2>3. RunningRight' /\ RevivedRight'
    BY <1>1, <2>1, <2>2 DEF LateInv, Flags, RunningRight, RevivedRight
  <2>4. \A u \in late : Guard(u)'
    BY <1>1, <2>1, <2>2, CloseGuards
  <2> QED BY <1>1, <2>3, <2>4, LateKept DEF Flags
<1>4. CASE CloseStart \/ CloseSkip \/ CloseBusy \/ CloseJoin \/ CloseSocket0
  <2>1. /\ UNCHANGED <<running, driver>> /\ mpc' \in Closing \cup {"down"} /\ mpc # "joinsocket"
        /\ mpc' \in {"close", "down"} \/ (mport' = mport /\ mpc \in Closing \ {"close"})
    BY <1>4 DEF CloseStart, CloseSkip, CloseBusy, CloseJoin, CloseSocket0, Goto, NextPort, flags
  <2>2. RunningRight' /\ RevivedRight'
    BY <1>1, <2>1 DEF LateInv, Flags, RunningRight, RevivedRight
  <2>3. \A u \in late : Guard(u)'
    BY <1>1, <2>1, CloseGuards
  <2> QED BY <1>1, <2>2, <2>3, LateKept DEF Flags
<1> QED BY <1>3, <1>4 DEF CloseKeepsUses

LEMMA CloseSocket1Late ==
    ASSUME Inv, LateInv, CloseSocket1
    PROVE  LateInv'
<1>1. /\ mpc = "socket1" /\ mpc' = "joinsocket" /\ mport' = mport
      /\ host1' = [host1 EXCEPT ![mport] = IF @ = "open" THEN "closed" ELSE @]
      /\ UNCHANGED <<fd, running, driver, rpc, spc, target, pollErr, revived, late, again>>
  BY DEF CloseSocket1, Goto, flags, recv, sock, hist, uses
<1>2. /\ host1'[0] = "open" => host1[0] = "open"
      /\ host1'[0] = "closed" => host1[0] = "closed" \/ mport = 0
  BY <1>1, Ports DEF Inv, Types
<1>3. RunningRight' /\ RevivedRight'
  BY <1>1, <1>2 DEF LateInv, Flags, RunningRight, RevivedRight
<1>4. \A u \in late : Guard(u)'
  BY <1>1, <1>2, CloseGuards
<1> QED BY <1>1, <1>3, <1>4, LateKept DEF Flags

LEMMA CloseFinishLate ==
    ASSUME Inv, LateInv, CloseFinish
    PROVE  LateInv'
<1>1. /\ mpc = "joinsocket" /\ mpc' \in {"close", "down"}
      /\ fd' = [fd EXCEPT ![mport] = "none"] /\ host1' = [host1 EXCEPT ![mport] = "none"]
      /\ UNCHANGED <<running, driver, rpc, spc, target, pollErr, revived, late, again>>
  BY DEF CloseFinish, NextPort, flags, recv, sock, hist, uses
<1>2. /\ host1'[0] = "open" => host1[0] = "open"
      /\ host1'[0] # "closed"
      /\ \A p \in Port : fd'[p] = "closed" => fd[p] = "closed"
  BY <1>1, Ports DEF Inv, Types, LateInv, Flags, RunningRight
<1>3. RunningRight' /\ RevivedRight'
  BY <1>1, <1>2 DEF LateInv, Flags, RunningRight, RevivedRight
<1>4. \A u \in late : Guard(u)'
  BY <1>1, <1>2, CloseGuards
<1> QED BY <1>1, <1>3, <1>4, LateKept DEF Flags

\* The ioctls and the close of a descriptor that the thread of the port has closed.
LEMMA MainLate ==
    ASSUME Inv, LateInv, CloseSignal \/ CloseFd
    PROVE  LateInv'
<1>1. /\ mpc \in {"signal", "closefd"} /\ mpc' \in {"closefd", "join"} /\ mport' = mport
      /\ UNCHANGED <<host1, running, driver, rpc, spc, target, pollErr, revived>>
      /\ fd' = fd \/ fd' = [fd EXCEPT ![mport] = "closed"]
  BY DEF CloseSignal, CloseFd, Goto, flags, recv, sock
<1>2. /\ mport \in Port /\ ~driver[mport] /\ ~running[mport]
      /\ \A p \in Port \ {mport} : fd'[p] = fd[p]
  BY <1>1 DEF Inv, Types, MainRight, LateInv, Flags, RunningRight
<1>3. RunningRight' /\ RevivedRight'
  BY <1>1, <1>2 DEF LateInv, Flags, RunningRight, RevivedRight
<1>4. \A u \in late : Guard(u)'
  BY <1>1, CloseGuards
<1>9. PICK m \in Port : m = mport
  BY <1>2
<1> DEFINE u == Use("main", "port", m)
<1>5. u.by = "main" /\ u.of = "port" /\ u.port = m
  BY DEF Use
<1>6. Uses(u, fd[mport])
  BY <1>9 DEF CloseSignal, CloseFd
<1> HIDE DEF u
<1>7. ASSUME fd[mport] = "closed" PROVE Guard(u)' /\ LateUser(u)' /\ Repeats(u)'
  <2>1. m \in pollErr
    BY <1>1, <1>7, <1>9 DEF Inv, ClosedRight
  <2> QED BY <1>1, <1>5, <2>1 DEF Guard, LateUser, Repeats
<1>8. ~ByRecvOfHost(u)
  BY <1>5 DEF ByRecvOfHost
<1> QED BY <1>1, <1>3, <1>4, <1>6, <1>7, <1>8, LateGrows DEF Flags

-----------------------------------------------------------------------------

LEMMA InitLate == Init => LateInv
<1> SUFFICES ASSUME Init PROVE LateInv
  OBVIOUS
<1>1. RunningRight /\ RevivedRight
  BY Ports DEF Init, RunningRight, RevivedRight
<1>2. Guards /\ LateUseExplained
  BY DEF Init, Guards, LateUseExplained
<1> QED BY <1>1, <1>2 DEF LateInv, Flags

LEMMA QuietLate ==
    ASSUME LateInv,
           UNCHANGED <<mpc, mport, fd, host1, running, driver, rpc, spc, target, pollErr, revived, late, again>>
    PROVE  LateInv'
<1>1. Flags'
  BY DEF LateInv, Flags, RunningRight, RevivedRight
<1>2. \A u \in late : Guard(u)'
  BY DEF LateInv, Guards, Guard, HostOver, Stopped, Failed
<1> QED BY <1>1, <1>2, LateKept

LEMMA NextLate == Inv /\ Inv' /\ LateInv /\ [Next]_vars => LateInv'
<1> SUFFICES ASSUME Inv, Inv', LateInv, [Next]_vars PROVE LateInv'
  OBVIOUS
<1>1. CASE Main
  BY <1>1, OpenLate, OpenFdLate, SocketOpenLate, SocketOpenFailLate, AwaitThreadLate,
     CloseLateKept, CloseSocket1Late, CloseFinishLate, MainLate DEF Main, CloseKeepsUses
<1>2. CASE SocketThread
  BY <1>2, SocketLateKept, SocketLateRead, SocketLateWrite DEF SocketThread
<1>3. ASSUME NEW p \in Port, Recv(p) PROVE LateInv'
  BY <1>3, RecvLateKept, RecvLateOwn, RecvLateHost, RecvLatePollErr, RecvLateHup, RecvLateClose
     DEF Recv, RecvKeepsUses
<1>4. ASSUME HostRead \/ (\E p \in Port : DeviceFails(p)) \/ UNCHANGED vars PROVE LateInv'
  <2>1. UNCHANGED <<mpc, mport, fd, host1, running, driver, rpc, spc, target, pollErr, revived, late, again>>
    BY <1>4 DEF HostRead, DeviceFails, vars, main, chan, flags, recv, sock, hist, uses
  <2> QED BY <2>1, QuietLate
<1> QED BY <1>1, <1>2, <1>3, <1>4 DEF Next

-----------------------------------------------------------------------------
(* Theorems *)

\* When scomm_vendor_port_close has returned for a port, its receive thread has ended, and for
\* port 0 the socket thread too, whatever the device and the other ports do meanwhile: nobody
\* is left who could use the descriptor's number after it was given to something else.
THEOREM PortsClosedMeansStopped == Spec => []ClosedMeansStopped
<1>1. Inv => ClosedMeansStopped
  <2> SUFFICES ASSUME Inv, NEW p \in Port, Past(p)
               PROVE  /\ rpc[p] \in {"none", "done"}
                      /\ lock # p
                      /\ p = 0 => spc \in {"none", "done"}
                      /\ fd[p] = "none" /\ ~busy[p]
    BY DEF ClosedMeansStopped
  <2>1. fd[p] = "none"
    BY DEF Past, Inv, MainRight
  <2>2. ~Alive(p) /\ lock # p /\ ~busy[p]
    BY <2>1 DEF Inv, Threads
  <2>3. p = 0 => ~SocketAlive
    BY <2>1 DEF Inv, SocketRight
  <2> QED BY <2>1, <2>2, <2>3
<1> QED BY <1>1, InvAlways, PTL

\* Who uses a descriptor after its close, and how often: a receive thread its own port while main
\* waits for it, one thread of another port the host socket, the socket thread that socket and
\* the port of the packet it carries, each of them once, as thread_running and driver_state are
\* down by then.  Only main comes again to a port whose thread closed it, and the socket
\* thread to a port for which main set driver_state after the thread had failed.
THEOREM PortsLateUse == Spec => []LateUseExplained
BY InitInv, NextInv, InitLate, NextLate, PTL DEF Spec, LateInv

\* scomm_vendor_port_close and the receive thread both close a descriptor only after POLLERR or POLLHUP.
THEOREM PortsDoubleClose == Spec => []DoubleCloseExplained
BY InvAlways, PTL DEF Inv
=============================================================================
