------------------------------ MODULE WifiHal -------------------------------
(***************************************************************************)
(* The Wi-Fi HAL (wifi_hal/main.cpp, wifi_command.cpp): a handle with two     *)
(* netlink sockets and a socketpair, the event loop that polls and in the end *)
(* frees it, and the commands of the framework, which sendMsg sends and       *)
(* awaits.                                                                  *)
(*                                                                         *)
(* The framework calls one function at a time, runs the event loop in a       *)
(* thread of its own, and after cleanup waits for cleaned_up_handler before   *)
(* it initialises again.                                                    *)
(***************************************************************************)
EXTENDS Integers, Sequences

CONSTANTS
    Kernels,       \* the interfaces of the driver: sequences of their ifindex (0: it has none)
                   \* and wdev
    Garbage,       \* what an uninitialised int may hold
    MaxHandles,    \* bound on the calls of initialize
    MaxEvents,     \* bound on the events of a handle
    MaxCommands,   \* bound on the commands
    Faults         \* what may fail: "socket", "resolve", "send", "error", "lost", "poll"

SKW_NR_IFACE == 8

ASSUME KernelsAssumption ==
    \A k \in Kernels :
        /\ k \in Seq([ifindex : Nat, wdev : Nat \ {0}])
        /\ k # <<>> /\ Len(k) <= SKW_NR_IFACE
ASSUME BoundsAssumption == {MaxHandles, MaxEvents, MaxCommands} \subseteq Nat

Handle == 1..MaxHandles

VARIABLES
    kernel,        \* the interfaces of the driver
    handle,        \* the latest call of initialize
    pc,            \* the framework: "none", "init", "ready", "recv", "cleanup", "wait"
    socks,         \* the sockets that a handle owns: "hal", "event", "exit"
    freed,         \* handles that were freed
    exit, byte,    \* hal->exit; a byte was written to exit_socks[0]
    loop,          \* the event loop of a handle
    events, seen,  \* events of a handle, and those it handled
    wake,          \* history: why poll returned last: "event", "exit", or "interrupted"
    cmd,           \* the command in sendMsg
    queue, end,    \* its answer: the messages, and then "ack", "finish", "error", or "none"
    found,         \* GetInterfacesCommand: ifaces[0..index - 1]
    interfaces,    \* hal->interfaces
    commands,      \* commands so far
    late,          \* history: handles that were used after they were freed
    refused,       \* history: initialize calls that failed although no call did
    failed         \* history: calls that failed

halVars == <<handle, socks, freed, exit, byte, refused>>
loopVars == <<loop, events, seen, wake>>
cmdVars == <<cmd, queue, end, found, interfaces, commands>>
vars == <<kernel, pc, halVars, loopVars, cmdVars, late, failed>>

Init ==
    /\ kernel \in Kernels
    /\ handle = 0 /\ pc = "none"
    /\ socks = [h \in Handle |-> {}] /\ freed = {}
    /\ exit = [h \in Handle |-> FALSE] /\ byte = [h \in Handle |-> FALSE]
    /\ loop = [h \in Handle |-> "none"]
    /\ events = [h \in Handle |-> 0] /\ seen = [h \in Handle |-> 0]
    /\ wake = [h \in Handle |-> {}]
    /\ cmd = "none" /\ queue = <<>> /\ end = "none" /\ found = <<>> /\ interfaces = <<>> /\ commands = 0
    /\ late = {} /\ refused = {} /\ failed = {}

Ok(call) == IF call \in Faults THEN BOOLEAN ELSE {TRUE}
Note(call, ok) == IF ok THEN {} ELSE {call}

-----------------------------------------------------------------------------
(* initialize *)

\* nl_connect fails when the local port is taken.
Free(s) == \A h \in Handle : s \notin socks[h]

\* Slip: the command socket stays open when the family cannot be resolved.
AfterHalInitKept(connected) == IF connected THEN {"exit", "hal"} ELSE {"exit"}

\* The sockets that a failed hal_init leaves behind: initialize frees the handle but does not
\* close exit_socks.
AfterHalInit(connected) == {"exit"}

\* The handle, the socketpair and skw_wifi_hal_init.
InitHal ==
    /\ pc = "none" /\ handle < MaxHandles
    /\ handle' = handle + 1
    /\ \E socket \in Ok("socket"), resolved \in Ok("resolve") :
        LET connected == socket /\ Free("hal")
            ok == connected /\ resolved
        IN  /\ socks' = [socks EXCEPT ![handle'] = IF ok THEN {"exit", "hal"} ELSE AfterHalInit(connected)]
            /\ freed' = IF ok THEN freed ELSE freed \cup {handle'}
            /\ pc' = IF ok THEN "init" ELSE "none"
            /\ refused' = IF socket /\ resolved /\ ~ok THEN refused \cup {handle'} ELSE refused
            /\ failed' = failed \cup Note("socket", socket) \cup Note("resolve", resolved)
    /\ UNCHANGED <<kernel, exit, byte, loopVars, cmdVars, late>>

\* skw_wifi_event_init, after which the framework starts the event loop.
InitEvent ==
    /\ pc = "init"
    /\ \E socket \in Ok("socket") :
        LET ok == socket /\ Free("event")
        IN  /\ socks' = [socks EXCEPT ![handle] = IF ok THEN @ \cup {"event"} ELSE @ \ {"hal"}]
            /\ freed' = IF ok THEN freed ELSE freed \cup {handle}
            /\ loop' = [loop EXCEPT ![handle] = IF ok THEN "poll" ELSE "none"]
            /\ pc' = IF ok THEN "ready" ELSE "none"
            /\ refused' = IF socket /\ ~ok THEN refused \cup {handle} ELSE refused
            /\ failed' = failed \cup Note("socket", socket)
    /\ interfaces' = <<>>
    /\ UNCHANGED <<kernel, handle, exit, byte, events, seen, wake, cmd, queue, end, found, commands, late>>

-----------------------------------------------------------------------------
(* Commands *)

\* The kernel's answers: the messages and the end, or an error after some of them.
Answers(msgs, e) ==
    {<<msgs, e>>}
    \cup {<<SubSeq(msgs, 1, n), "error">> : n \in IF "error" \in Faults THEN 0..Len(msgs) ELSE {}}

\* How sendMsg addresses an interface.
Address(f) == IF f.wdev # 0 THEN [wdev |-> f.wdev] ELSE [ifindex |-> f.ifindex]

\* get_ifaces, whose dump has a message for every interface, or a command to an interface,
\* which has an acknowledgement.  Without memory for it nothing is sent.
Send(c) ==
    /\ pc = "ready" /\ commands < MaxCommands
    /\ c = "set" => interfaces # <<>>
    /\ commands' = commands + 1
    /\ \E sent \in Ok("send") :
        /\ \E a \in IF c = "ifaces" THEN Answers(kernel, "finish") ELSE Answers(<<>>, "ack") :
            /\ queue' = IF sent THEN a[1] ELSE <<>>
            /\ end' = IF sent THEN a[2] ELSE "none"
        /\ cmd' = IF sent THEN c ELSE "none"
        /\ pc' = IF sent THEN "recv" ELSE "ready"
        /\ failed' = failed \cup Note("send", sent)
    /\ found' = <<>>
    /\ interfaces' = IF c = "ifaces" THEN <<>> ELSE interfaces
    /\ UNCHANGED <<kernel, halVars, loopVars, late>>

\* Slip: the constructor clears nothing.
FreshIfaceNever(k) == [ifindex : Garbage, wdev : Garbage]

\* ifaces[k - 1] before it is filled: the constructor clears only the first.
FreshIface(k) == IF k = 1 THEN {[ifindex |-> 0, wdev |-> 0]} ELSE [ifindex : Garbage, wdev : Garbage]

\* GetInterfacesCommand::parser.
ParseIface(m) ==
    \E f \in FreshIface(Len(found) + 1) :
        found' = Append(found, IF m.ifindex # 0 THEN [f EXCEPT !.ifindex = m.ifindex]
                                                ELSE [f EXCEPT !.wdev = m.wdev])

\* A message that is not the end.
RecvMessage ==
    /\ pc = "recv" /\ queue # <<>>
    /\ ParseIface(Head(queue))
    /\ queue' = Tail(queue)
    /\ UNCHANGED <<kernel, pc, halVars, loopVars, cmd, end, interfaces, commands, late, failed>>

\* The end, after which the interfaces found are copied; an error counts as success.
RecvEnd ==
    /\ pc = "recv" /\ queue = <<>> /\ end # "none"
    /\ end' = "none" /\ UNCHANGED queue
    /\ interfaces' = IF cmd = "ifaces" THEN found ELSE interfaces
    /\ failed' = failed \cup Note("error", end # "error")
    /\ cmd' = "none" /\ found' = <<>>
    /\ pc' = "ready"
    /\ UNCHANGED <<kernel, halVars, loopVars, commands, late>>

\* nl_recvmsgs fails and its message is lost; the loop goes on.
RecvLost ==
    /\ "lost" \in Faults
    /\ pc = "recv" /\ end # "none"
    /\ IF queue # <<>> THEN queue' = Tail(queue) /\ UNCHANGED end
                      ELSE end' = "none" /\ UNCHANGED queue
    /\ failed' = failed \cup {"lost"}
    /\ UNCHANGED <<kernel, pc, halVars, loopVars, cmd, found, interfaces, commands, late>>

-----------------------------------------------------------------------------
(* cleanup and the event loop *)

CleanupExit ==
    /\ pc = "ready"
    /\ exit' = [exit EXCEPT ![handle] = TRUE]
    /\ pc' = "cleanup"
    /\ UNCHANGED <<kernel, handle, socks, freed, byte, refused, loopVars, cmdVars, late, failed>>

\* The write to hal->exit_socks[0], by which time the handle may be gone.
CleanupWrite ==
    /\ pc = "cleanup"
    /\ late' = IF handle \in freed THEN late \cup {handle} ELSE late
    /\ byte' = [byte EXCEPT ![handle] = handle \notin freed]
    /\ pc' = "wait"
    /\ UNCHANGED <<kernel, handle, socks, freed, exit, refused, loopVars, cmdVars, failed>>

\* The framework goes on when cleaned_up_handler was called.
Cleaned ==
    /\ pc = "wait" /\ loop[handle] \in {"freehal", "freeevent", "free", "done"}
    /\ pc' = "none"
    /\ UNCHANGED <<kernel, halVars, loopVars, cmdVars, late, failed>>

Event(h) ==
    /\ "event" \in socks[h] /\ events[h] < MaxEvents
    /\ events' = [events EXCEPT ![h] = @ + 1]
    /\ UNCHANGED <<kernel, pc, halVars, loop, seen, wake, cmdVars, late, failed>>

\* The descriptors that are readable.
Readable(h) ==
    (IF seen[h] < events[h] THEN {"event"} ELSE {}) \cup (IF byte[h] THEN {"exit"} ELSE {})

\* Slip: poll has a timeout.
PollReturnsAnyway(h) == TRUE

\* Slip: exit_socks is not polled.
PollReturnsEvents(h) == "event" \in Readable(h)

PollReturns(h) == Readable(h) # {}

\* poll, and the events that it reports.
LoopPoll(h) ==
    /\ loop[h] = "poll"
    /\ PollReturns(h)
    /\ seen' = [seen EXCEPT ![h] = events[h]]
    /\ wake' = [wake EXCEPT ![h] = Readable(h)]
    /\ loop' = [loop EXCEPT ![h] = "check"]
    /\ UNCHANGED <<kernel, pc, halVars, events, cmdVars, late, failed>>

\* poll fails or reports only an error; nothing is handled, but hal->exit is tested as well.
LoopInterrupted(h) ==
    /\ "poll" \in Faults
    /\ loop[h] = "poll"
    /\ wake' = [wake EXCEPT ![h] = {"interrupted"}]
    /\ loop' = [loop EXCEPT ![h] = "check"]
    /\ UNCHANGED <<kernel, pc, halVars, events, seen, cmdVars, late, failed>>

\* The end of the loop; deinitialize begins with cleaned_up_handler.
LoopCheck(h) ==
    /\ loop[h] = "check"
    /\ loop' = [loop EXCEPT ![h] = IF exit[h] THEN "freehal" ELSE "poll"]
    /\ UNCHANGED <<kernel, pc, halVars, events, seen, wake, cmdVars, late, failed>>

\* hal_deinit, event_deinit, and the socketpair and the handle.
LoopFree(h) ==
    \E s \in {<<"freehal", "hal", "freeevent">>, <<"freeevent", "event", "free">>, <<"free", "exit", "done">>} :
        /\ loop[h] = s[1]
        /\ socks' = [socks EXCEPT ![h] = @ \ {s[2]}]
        /\ loop' = [loop EXCEPT ![h] = s[3]]
        /\ freed' = IF s[3] = "done" THEN freed \cup {h} ELSE freed
        /\ UNCHANGED <<kernel, pc, handle, exit, byte, refused, events, seen, wake, cmdVars, late, failed>>

Framework ==
    \/ InitHal \/ InitEvent
    \/ \E c \in {"ifaces", "set"} : Send(c)
    \/ CleanupExit \/ CleanupWrite \/ Cleaned

Recv == RecvMessage \/ RecvEnd

Loop(h) == LoopPoll(h) \/ LoopCheck(h) \/ LoopFree(h)

Next ==
    \/ Framework \/ Recv \/ RecvLost
    \/ \E h \in Handle : Event(h) \/ Loop(h) \/ LoopInterrupted(h)

\* Functions that were called and the event loop run; calls, events and faults need not come,
\* nor need poll fail.
Fairness ==
    /\ WF_vars(InitEvent \/ Recv \/ CleanupWrite \/ Cleaned)
    /\ \A h \in Handle : WF_vars(Loop(h))

Spec == Init /\ [][Next]_vars
FairSpec == Spec /\ Fairness

-----------------------------------------------------------------------------
(* Properties *)

\* cleanup sets hal->exit and then writes to exit_socks.  In between the event loop may test
\* hal->exit and free the handle, but only when it has just come out of its poll for an event or
\* because poll failed: the write then finds the handle and its sockets gone.
LateUseExplained ==
    \A h \in late :
        /\ wake[h] \in {{"event"}, {"interrupted"}}
        /\ wake[h] = {"interrupted"} => "poll" \in Faults
        /\ loop[h] = "done" /\ socks[h] = {} /\ ~byte[h]

\* When no message was an error or was lost, get_ifaces finds all interfaces, and commands
\* reach the right one; those behind the first only if their wdev_idx, which is not cleared,
\* is zero or was set.
InterfacesRight ==
    failed = {} /\ interfaces # <<>> =>
        /\ Len(interfaces) = Len(kernel)
        /\ \A i \in DOMAIN interfaces :
            \/ Address(interfaces[i]) \in {[wdev |-> kernel[i].wdev], [ifindex |-> kernel[i].ifindex]}
            \/ i > 1 /\ interfaces[i].wdev # 0

\* initialize fails though no call does only while the event loop of an earlier handle, which
\* has already reported its end, still owns its sockets: no error path leaves one open.
RefusedExplained ==
    [][refused' # refused =>
        \E h \in Handle : exit[h] /\ loop[h] \in {"freehal", "freeevent"}]_vars

\* A command returns unless a message of its answer is lost, and cleanup ends with everything
\* freed.
OperationsTerminate ==
    /\ (pc = "recv") ~> (pc # "recv" \/ "lost" \in failed)
    /\ \A h \in Handle : exit[h] ~> (h \in freed /\ socks[h] = {})
=============================================================================
