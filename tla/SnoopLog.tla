------------------------------ MODULE SnoopLog ------------------------------
(***************************************************************************)
(* The two logs: the btsnoop file (skw_btsnoop.c), to which the receive       *)
(* threads and the socket thread append every HCI packet, and the log of the  *)
(* controller (skw_log.c), to which the receive threads append its log        *)
(* packets.  Each has a lock and a size at which it is rolled over; rolling   *)
(* over the first may roll over the second.                                 *)
(*                                                                         *)
(* The stack calls init and cleanup when no thread runs (PortLifecycle).      *)
(* Lengths are counted in units: a record has one for its header, a file one  *)
(* for its own.                                                             *)
(***************************************************************************)
EXTENDS Integers, SequencesExt

CONSTANTS
    Thread,        \* the threads that log
    Modes,         \* the configurations: btsnoop_log_en, btsnoop_save_log, skwlog_slice and
                   \* btcp_log_en
    Limit,         \* the size at which a log is rolled over (1 GB, 1.5 GB)
    PktLens,       \* lengths of packets
    MaxPackets,    \* bound on the packets of all sessions
    MaxSessions,   \* bound on the calls of init
    Faults         \* what may fail: "rename", "open"

ASSUME ModesAssumption == Modes \subseteq [snoop : BOOLEAN, save : BOOLEAN, slice : BOOLEAN, cp : BOOLEAN]
ASSUME BoundsAssumption == /\ {MaxPackets, MaxSessions} \subseteq Nat
                           /\ Limit \in Nat \ {0} /\ PktLens \subseteq Nat \ {0}
ASSUME FaultsAssumption == Faults \subseteq {"rename", "open"}

VARIABLES
    mode,          \* the configuration file
    up, sessions,  \* init has returned; calls of init
    packets,       \* packets so far
    snoopFd,       \* hci_btsnoop_fd # -1
    snoop,         \* the btsnoop file: its headers and records, or none
    snoopLast,     \* btsnoop_hci.cfa.last exists
    snoopRev,      \* btsnoop_rev_length
    logFp, log, logLast, logRev,   \* the same for skwlog
    snoopLock, logLock,            \* the holders of the mutexes, or NoThread
    pc, len,       \* the threads and main: where they are, the length of their packet
    failed,        \* history: calls that failed
    kept           \* history: a .last file was there when the btsnoop file was rolled over

main == <<mode, up, sessions>>
snoops == <<snoopFd, snoop, snoopLast, snoopRev>>
logs == <<logFp, log, logLast, logRev>>
vars == <<main, packets, snoops, logs, snoopLock, logLock, pc, len, failed, kept>>

Main == "main"
Actor == Thread \cup {Main}
NoThread == "nobody"
NoFile == <<[kind |-> "absent", len |-> 0]>>

ASSUME ThreadAssumption == {Main, NoThread} \cap Thread = {}

HEADER == [kind |-> "header", len |-> 1]
Record(t, n) == [kind |-> "record", by |-> t, len |-> n]
Payload(t, n) == [kind |-> "payload", by |-> t, len |-> n]
Stamp == [kind |-> "stamp", len |-> 1]

Total(ns) ==
    LET sum[i \in 0..Len(ns)] == IF i = 0 THEN 0 ELSE sum[i-1] + ns[i]
    IN  sum[Len(ns)]
Size(f) == Total([i \in 1..Len(f) |-> f[i].len])

\* Opened with O_CREAT | O_APPEND.
Opened(f) == IF f = NoFile THEN <<>> ELSE f

Init ==
    /\ mode \in Modes
    /\ up = FALSE /\ sessions = 0 /\ packets = 0
    /\ snoopFd = FALSE /\ snoop = NoFile /\ snoopLast = FALSE /\ snoopRev = 0
    /\ logFp = FALSE /\ log = NoFile /\ logLast = FALSE /\ logRev = 0
    /\ snoopLock = NoThread /\ logLock = NoThread
    /\ pc = [t \in Actor |-> "idle"] /\ len = [t \in Actor |-> 0]
    /\ failed = {} /\ kept = FALSE

\* The outcomes of a call.  The bound on failures: only the calls of one step fail.
Ok(call) == IF call \in Faults /\ failed = {} THEN BOOLEAN ELSE {TRUE}
Note(call, ok) == IF ok THEN {} ELSE {call}

-----------------------------------------------------------------------------
\* skwlog_open(new), with rev as skwlog_rev_length: the controller log old is moved away, or
\* continued; a failed rename leaves it in place.  Without slices a log of only a header and a
\* time stamp stays, too.
LogOpen(new, old, rev) ==
    \E renamed \in Ok("rename"), readable \in Ok("open"), opened \in Ok("open") :
        LET exists == old # NoFile /\ readable
            move == exists /\ IF mode.slice THEN new ELSE Size(old) > 2
            rest == IF move /\ renamed THEN NoFile ELSE old
            header == new \/ ~exists \/ Size(old) = 0
        IN  /\ logFp' = opened
            /\ log' = IF opened THEN Opened(rest) \o (IF header THEN <<HEADER>> ELSE <<>>)
                                ELSE rest
            /\ logLast' = IF move /\ mode.slice THEN renamed ELSE logLast
            /\ logRev' = IF exists /\ mode.slice /\ ~new THEN Size(old) ELSE rev
            /\ failed' = failed \cup Note("rename", ~move \/ renamed)
                               \cup Note("open", readable /\ opened)

\* Slip: the length of a file that is continued is not taken over.
SnoopRevAfterZero(seen, big) == 0

\* btsnoop_rev_length after skw_btsnoop_open.
SnoopRevAfter(seen, big) == IF mode.save /\ mode.slice /\ seen /\ ~big THEN Size(snoop) ELSE 0

\* Slip: a file that is continued is taken for a new one.
NewFileAlways == TRUE

\* Whether the file that skw_btsnoop_open opens, and the controller log with it, is new.
NewFile == ~(mode.save /\ mode.slice /\ snoopRev > 1)

Goto(t, l) == pc' = [pc EXCEPT ![t] = l]

\* init goes on with skw_btsnoop_init when that log is enabled.
AfterLogInit == IF mode.snoop THEN "move" ELSE "unlock"

-----------------------------------------------------------------------------
(* skw_btsnoop_open, called by init and by the thread whose packet fills the file.  A file *)
(* that cannot be opened for reading counts as absent.                                      *)

\* Slip: errno is not looked at.
GivesUpAlways(renamed, enoent) == renamed

\* The function is left after a rename that succeeded, unless errno happens to be ENOENT: it
\* is after a remove that found no .last file, otherwise it is what an earlier call left.
GivesUp(renamed, enoent) == renamed /\ snoopLast /\ ~enoent

\* The old file is moved away.
SnoopMove(t) ==
    /\ pc[t] = "move"
    /\ \E renamed \in Ok("rename"), readable \in Ok("open"), enoent \in BOOLEAN :
        LET seen == snoop # NoFile /\ (readable \/ ~mode.save)
            big == mode.slice /\ Size(snoop) > Limit
            move == seen /\ (mode.save => IF mode.slice THEN big ELSE Size(snoop) > 1)
            giveUp == mode.save /\ mode.slice /\ move /\ GivesUp(renamed, enoent)
        IN  /\ snoop' = IF move /\ renamed THEN NoFile ELSE snoop
            /\ snoopLast' = IF ~move THEN snoopLast
                            ELSE IF ~mode.save THEN renamed \/ snoopLast
                            ELSE IF mode.slice THEN renamed ELSE snoopLast
            /\ snoopRev' = SnoopRevAfter(seen, big)
            /\ kept' = (kept \/ (giveUp /\ snoopLast))
            /\ failed' = failed \cup Note("rename", ~move \/ renamed)
                               \cup Note("open", readable)
            /\ Goto(t, CASE giveUp -> "unlock"
                         [] ~giveUp /\ mode.save /\ mode.slice -> "reopen"
                         [] OTHER -> "open")
    /\ snoopFd' = FALSE
    /\ UNCHANGED <<main, packets, logs, snoopLock, logLock, len>>

\* The new file is opened, or the old one continued.
SnoopOpen(t) ==
    /\ pc[t] = "open"
    /\ \E opened \in Ok("open") :
        /\ snoopFd' = opened
        /\ snoop' = IF opened THEN Opened(snoop) \o (IF NewFile THEN <<HEADER>> ELSE <<>>)
                              ELSE snoop
        /\ failed' = failed \cup Note("open", opened)
    /\ Goto(t, "unlock")
    /\ UNCHANGED <<main, packets, snoopLast, snoopRev, logs, snoopLock, logLock, len, kept>>

-----------------------------------------------------------------------------
(* skw_btsnoop_capture *)

\* The test for an open file is made before the lock is taken.
Capture(t) ==
    /\ up /\ pc[t] = "idle"
    /\ packets < MaxPackets
    /\ snoopFd
    /\ \E n \in PktLens : len' = [len EXCEPT ![t] = n]
    /\ packets' = packets + 1
    /\ Goto(t, "capture")
    /\ UNCHANGED <<main, snoops, logs, snoopLock, logLock, failed, kept>>

\* Slip: the lock is not waited for.
SnoopAcquireAnyway(t) ==
    /\ pc[t] = "capture"
    /\ snoopLock' = t
    /\ Goto(t, "record")
    /\ UNCHANGED <<main, packets, snoops, logs, logLock, len, failed, kept>>

SnoopAcquire(t) ==
    /\ pc[t] = "capture"
    /\ snoopLock = NoThread
    /\ snoopLock' = t
    /\ Goto(t, "record")
    /\ UNCHANGED <<main, packets, snoops, logs, logLock, len, failed, kept>>

\* skw_btsnoop_write, which does nothing without a file.
SnoopWrite(e) == snoop' = IF snoopFd THEN Append(snoop, e) ELSE snoop

\* The header of the record.
CaptureRecord(t) ==
    /\ pc[t] = "record"
    /\ snoopRev' = snoopRev + len[t]
    /\ SnoopWrite(Record(t, 1))
    /\ Goto(t, "payload")
    /\ UNCHANGED <<main, packets, snoopFd, snoopLast, logs, snoopLock, logLock, len, failed, kept>>

\* The packet; a full file is rolled over.
CapturePayload(t) ==
    /\ pc[t] = "payload"
    /\ SnoopWrite(Payload(t, len[t]))
    /\ Goto(t, IF snoopRev >= Limit THEN "move" ELSE "unlock")
    /\ UNCHANGED <<main, packets, snoopFd, snoopLast, snoopRev, logs, snoopLock, logLock, len, failed, kept>>

CaptureEnd(t) ==
    /\ t # Main /\ pc[t] = "unlock"
    /\ snoopLock' = NoThread
    /\ len' = [len EXCEPT ![t] = 0]
    /\ Goto(t, "idle")
    /\ UNCHANGED <<main, packets, snoops, logs, logLock, failed, kept>>

-----------------------------------------------------------------------------
(* skw_log.c *)

\* skwlog_write; like Capture it looks at the file before it takes the lock.
LogPacket(t) ==
    /\ up /\ pc[t] = "idle"
    /\ packets < MaxPackets
    /\ logFp
    /\ \E n \in PktLens : len' = [len EXCEPT ![t] = n]
    /\ packets' = packets + 1
    /\ Goto(t, "log")
    /\ UNCHANGED <<main, snoops, logs, snoopLock, logLock, failed, kept>>

\* skwlog_write and skwlog_reopen take skwlog_lock.
Locked == [log |-> "logwrite", reopen |-> "reopening", stamp |-> "stamping", initstamp |-> "initstamping"]

LogAcquire(t) ==
    /\ pc[t] \in DOMAIN Locked
    /\ logLock = NoThread
    /\ logLock' = t
    /\ Goto(t, Locked[pc[t]])
    /\ UNCHANGED <<main, packets, snoops, logs, snoopLock, len, failed, kept>>

\* The write, the roll-over of a full log, and the unlock.
LogWrite(t) ==
    LET stamp == pc[t] # "logwrite"
        n == IF stamp THEN 1 ELSE len[t]
        e == IF stamp THEN Stamp ELSE Payload(t, n)
        full == logRev + n >= Limit
    IN  /\ pc[t] \in {"logwrite", "stamping", "initstamping"}
        /\ IF full THEN LogOpen(TRUE, IF logFp THEN Append(log, e) ELSE log, 0)
                   ELSE /\ log' = IF logFp THEN Append(log, e) ELSE log
                        /\ logRev' = logRev + n
                        /\ UNCHANGED <<logFp, logLast, failed>>
        /\ logLock' = NoThread
        /\ Goto(t, CASE pc[t] = "logwrite" -> "idle" [] pc[t] = "stamping" -> "open"
                     [] pc[t] = "initstamping" -> AfterLogInit)
        /\ len' = IF stamp THEN len ELSE [len EXCEPT ![t] = 0]
        /\ UNCHANGED <<main, packets, snoops, snoopLock, kept>>

\* Slip: the time stamp is written before the lock is released.
LogReopenLocked(t) ==
    /\ pc[t] = "reopening"
    /\ IF mode.cp THEN LogOpen(NewFile, log, 0)
                  ELSE logRev' = 0 /\ UNCHANGED <<logFp, log, logLast, failed>>
    /\ UNCHANGED logLock
    /\ Goto(t, IF logFp' THEN "stamp" ELSE "open")
    /\ UNCHANGED <<main, packets, snoops, snoopLock, len, kept>>

\* skwlog_reopen: the log is closed and, when it is enabled, opened again; its time stamp is
\* written after the unlock.
LogReopen(t) ==
    /\ pc[t] = "reopening"
    /\ IF mode.cp THEN LogOpen(NewFile, log, 0)
                  ELSE logRev' = 0 /\ UNCHANGED <<logFp, log, logLast, failed>>
    /\ logLock' = NoThread
    /\ Goto(t, IF logFp' THEN "stamp" ELSE "open")
    /\ UNCHANGED <<main, packets, snoops, snoopLock, len, kept>>

-----------------------------------------------------------------------------
(* init and cleanup *)

\* Slip: the log is left to skw_btsnoop_open also without slices.
LogAtInitUnsaved == mode.cp /\ ~mode.save

LogAtInit == mode.cp /\ ~(mode.save /\ mode.slice)

\* skwlog_init leaves a log that is sliced together with the btsnoop file to skw_btsnoop_open.
InitStart ==
    /\ ~up /\ pc[Main] = "idle"
    /\ sessions < MaxSessions
    /\ sessions' = sessions + 1
    /\ logFp' = FALSE /\ logRev' = 0
    /\ Goto(Main, IF LogAtInit THEN "loginit" ELSE AfterLogInit)
    /\ UNCHANGED <<mode, up, packets, snoops, log, logLast, snoopLock, logLock, len, failed, kept>>

InitLog ==
    /\ pc[Main] = "loginit"
    /\ LogOpen(TRUE, log, logRev)
    /\ Goto(Main, IF logFp' THEN "initstamp" ELSE AfterLogInit)
    /\ UNCHANGED <<main, packets, snoops, snoopLock, logLock, len, kept>>

InitEnd ==
    /\ pc[Main] = "unlock"
    /\ up' = TRUE
    /\ Goto(Main, "idle")
    /\ UNCHANGED <<mode, sessions, packets, snoops, logs, snoopLock, logLock, len, failed, kept>>

Cleanup ==
    /\ up /\ \A t \in Actor : pc[t] = "idle"
    /\ up' = FALSE
    /\ snoopFd' = FALSE /\ logFp' = FALSE /\ logRev' = 0
    /\ UNCHANGED <<mode, sessions, packets, snoop, snoopLast, snoopRev, log, logLast, snoopLock,
                   logLock, pc, len, failed, kept>>

Step(t) ==
    \/ SnoopMove(t) \/ SnoopOpen(t)
    \/ SnoopAcquire(t) \/ CaptureRecord(t) \/ CapturePayload(t) \/ CaptureEnd(t)
    \/ LogAcquire(t) \/ LogWrite(t) \/ LogReopen(t)

Next ==
    \/ \E t \in Actor : Step(t)
    \/ \E t \in Thread : Capture(t) \/ LogPacket(t)
    \/ InitStart \/ InitLog \/ InitEnd \/ Cleanup

\* Threads run; packets and calls need not come.  The packets being bounded, a mutex for which
\* a thread waits is not taken for ever by others and weak fairness is enough.
Fairness ==
    /\ WF_vars(InitLog \/ InitEnd)
    /\ \A t \in Actor : WF_vars(Step(t))

Spec == Init /\ [][Next]_vars
FairSpec == Spec /\ Fairness

-----------------------------------------------------------------------------
(* Properties *)

Kinds(f, kind) == {i \in 1..Len(f) : f[i].kind = kind}

\* In the btsnoop file every record header is followed by its own packet, whichever threads
\* capture at the same time.
RecordsWhole ==
    \A i \in Kinds(snoop, "record") :
        \/ i = Len(snoop) /\ snoopLock = snoop[i].by /\ pc[snoop[i].by] = "payload"
        \/ i + 1 \in Kinds(snoop, "payload") /\ snoop[i + 1].by = snoop[i].by

\* A second file header is only ever written behind one header, or a header and a time stamp
\* (or one packet as short as that), unless a file could not be renamed or read: the logs can
\* be read from their start after any number of sessions and roll-overs.
HeadersInFront ==
    failed = {} =>
        /\ \A i \in Kinds(snoop, "header") : Size(SubSeq(snoop, 1, i - 1)) <= 1
        /\ \A i \in Kinds(log, "header") : Size(SubSeq(log, 1, i - 1)) <= 2

PayloadSize(f) == Total([i \in 1..Len(f) |-> IF f[i].kind = "payload" THEN f[i].len ELSE 0])

\* The packets in the btsnoop file never exceed the limit by a whole packet, over any number
\* of sessions, unless a file could not be renamed or read.
SnoopBounded ==
    failed = {} =>
        \A m \in PktLens : (\A n \in PktLens : n <= m) => PayloadSize(snoop) < Limit + m

Rolling == \E t \in Actor : pc[t] \in {"move", "reopen", "reopening", "stamp", "stamping", "open"}

\* While the library is up the btsnoop log is only ever closed because a file could not be
\* opened, or because a roll-over found an older .last file.
SnoopStopExplained ==
    up /\ mode.snoop /\ ~snoopFd /\ ~Rolling => "open" \in failed \/ kept

\* The controller log is missing only because a file could not be opened, or because it is
\* sliced together with a btsnoop log that is switched off or that stopped at its roll-over.
ControllerLogExplained ==
    up /\ mode.cp /\ ~logFp /\ ~Rolling =>
        "open" \in failed \/ (mode.save /\ mode.slice /\ (kept \/ ~mode.snoop))

\* No thread waits for ever, although the roll-over of one log takes the lock of the other.
LoggingTerminates == \A t \in Actor : (pc[t] # "idle") ~> (pc[t] = "idle")

\* The btsnoop log goes on after it was rolled over: "unable to rename" is logged, and the
\* function left, only when the rename failed.
SnoopGoesOn == up /\ mode.snoop /\ ~snoopFd /\ ~Rolling => failed # {}
=============================================================================
