---------------------------- MODULE WifiHalProofs ----------------------------
(* Proofs about WifiHal: for every driver, any number of handles, events and commands, and    *)
(* whatever fails.                                                                            *)
EXTENDS WifiHal, TLAPS, SequenceTheorems

(***************************************************************************)
(* The inductive invariant: what a handle owns goes with where its event     *)
(* loop is, and the loop has left its poll only for a reason.                *)
(***************************************************************************)
Ready == {"ready", "recv", "cleanup", "wait"}
Polling == {"poll", "check"}
Ending == {"freehal", "freeevent", "free", "done"}

Types ==
    /\ handle \in 0..MaxHandles
    /\ pc \in {"none", "init"} \cup Ready
    /\ pc # "none" => handle \in Handle
    /\ socks \in [Handle -> SUBSET {"hal", "event", "exit"}]
    /\ freed \subseteq Handle
    /\ exit \in [Handle -> BOOLEAN] /\ byte \in [Handle -> BOOLEAN]
    /\ loop \in [Handle -> {"none"} \cup Polling \cup Ending]
    /\ events \in [Handle -> Nat] /\ seen \in [Handle -> Nat]
    /\ wake \in [Handle -> SUBSET {"event", "exit", "interrupted"}]

\* A handle that has not been initialised.
Unused(h) == h > handle => loop[h] = "none" /\ socks[h] = {} /\ ~byte[h] /\ h \notin freed

\* The event loop of the latest handle runs between initialize and cleaned_up_handler.
LoopRight(h) ==
    /\ loop[h] \in Polling => h = handle /\ pc \in Ready
    /\ h = handle /\ pc \in Ready => loop[h] # "none"
    /\ h = handle /\ pc = "init" => loop[h] = "none" /\ h \notin freed
    /\ loop[h] \in Ending => exit[h]
    /\ h \in freed => loop[h] \in {"none", "done"}

\* The loop came out of its poll without the byte of cleanup.
Early(h) ==
    /\ wake[h] \in {{"event"}, {"interrupted"}}
    /\ wake[h] = {"interrupted"} => "poll" \in Faults

\* Before cleanup writes its byte only an event or a failed poll moves the loop.
Woken(h) ==
    /\ seen[h] <= events[h]
    /\ h = handle /\ pc \in {"init", "ready", "recv", "cleanup"} => ~byte[h]
    /\ loop[h] \in {"check"} \cup Ending => Early(h) \/ byte[h]
    /\ h \in late => h \in freed /\ loop[h] = "done" /\ Early(h) /\ ~byte[h]

SocksOwned(h) ==
    /\ "hal" \in socks[h] => loop[h] \in Polling \cup {"freehal"} \/ (h = handle /\ pc = "init")
    /\ "event" \in socks[h] => loop[h] \in Polling \cup {"freehal", "freeevent"}
    /\ "exit" \in socks[h] => loop[h] # "done"

HandleInv(h) == Unused(h) /\ LoopRight(h) /\ Woken(h) /\ SocksOwned(h)

Inv == Types /\ late \subseteq Handle /\ \A h \in Handle : HandleInv(h)

LEMMA OkBoolean == ASSUME NEW c PROVE Ok(c) \subseteq BOOLEAN
BY DEF Ok

LEMMA InitInv == Init => Inv
<1> SUFFICES ASSUME Init PROVE Inv
  OBVIOUS
<1>1. MaxHandles \in Nat
  BY BoundsAssumption
<1>2. Types
  BY <1>1 DEF Init, Types, Ready, Polling, Ending, Handle
<1>3. ASSUME NEW h \in Handle PROVE HandleInv(h)
  BY <1>3 DEF Init, HandleInv, Unused, LoopRight, Woken, Early, SocksOwned, Ready, Polling, Ending
<1> QED BY <1>2, <1>3 DEF Inv, Init

-----------------------------------------------------------------------------
LEMMA InitHalStep == ASSUME Inv, InitHal PROVE Inv'
<1> DEFINE n == handle + 1
<1>1. /\ pc = "none" /\ handle' = n /\ n \in Handle /\ handle \in 0..MaxHandles
      /\ UNCHANGED <<exit, byte, loop, events, seen, wake, late>>
  BY BoundsAssumption DEF InitHal, loopVars, Inv, Types, Handle
<1>2. PICK ok \in BOOLEAN :
        /\ socks' = [socks EXCEPT ![n] = IF ok THEN {"exit", "hal"} ELSE {"exit"}]
        /\ freed' = IF ok THEN freed ELSE freed \cup {n}
        /\ pc' = IF ok THEN "init" ELSE "none"
  <2>1. PICK socket \in BOOLEAN, resolved \in BOOLEAN :
          LET connected == socket /\ Free("hal")
              ok == connected /\ resolved
          IN  /\ socks' = [socks EXCEPT ![n] = IF ok THEN {"exit", "hal"} ELSE AfterHalInit(connected)]
              /\ freed' = IF ok THEN freed ELSE freed \cup {n}
              /\ pc' = IF ok THEN "init" ELSE "none"
    BY <1>1, OkBoolean DEF InitHal
  <2>2. CASE socket /\ Free("hal") /\ resolved
    BY <2>1, <2>2 DEF AfterHalInit
  <2>3. CASE ~(socket /\ Free("hal") /\ resolved)
    BY <2>1, <2>3 DEF AfterHalInit
  <2> QED BY <2>2, <2>3
<1> HIDE DEF n
<1>3. Types'
  BY <1>1, <1>2 DEF Inv, Types, Handle
<1>4. ASSUME NEW h \in Handle PROVE HandleInv(h)'
  <2>1. HandleInv(h) /\ Types
    BY DEF Inv
  <2>2. CASE h = n
    <3>1. h > handle /\ ~(h > handle')
      BY <1>1, <2>2 DEF n, Types, Handle
    <3>2. /\ loop'[h] = "none" /\ ~byte'[h] /\ pc' \in {"none", "init"}
          /\ "event" \notin socks'[h] /\ ("hal" \in socks'[h] => pc' = "init")
          /\ (pc' = "init" => h \notin freed')
      BY <1>1, <1>2, <2>1, <2>2, <3>1 DEF HandleInv, Unused, Types
    <3>3. Woken(h)'
      BY <1>1, <2>1, <3>2 DEF HandleInv, Woken, Early, Ending
    <3> QED
      BY <1>1, <2>2, <3>1, <3>2, <3>3
      DEF HandleInv, Unused, LoopRight, SocksOwned, Ready, Polling, Ending
  <2>3. CASE h # n
    <3>1. (h > n => h > handle) /\ socks'[h] = socks[h] /\ (h \in freed' <=> h \in freed)
      BY <1>1, <1>2, <2>1, <2>3 DEF n, Types, Handle
    <3> QED
      BY <1>1, <1>2, <2>1, <2>3, <3>1
      DEF HandleInv, Unused, LoopRight, Woken, Early, SocksOwned, Ready, Polling, Ending
  <2> QED BY <2>2, <2>3
<1> QED BY <1>1, <1>3, <1>4 DEF Inv

LEMMA InitEventStep == ASSUME Inv, InitEvent PROVE Inv'
<1>1. /\ pc = "init" /\ handle \in Handle
      /\ UNCHANGED <<handle, exit, byte, events, seen, wake, late>>
  BY DEF InitEvent, Inv, Types
<1>2. PICK ok \in BOOLEAN :
        /\ socks' = [socks EXCEPT ![handle] = IF ok THEN @ \cup {"event"} ELSE @ \ {"hal"}]
        /\ freed' = IF ok THEN freed ELSE freed \cup {handle}
        /\ loop' = [loop EXCEPT ![handle] = IF ok THEN "poll" ELSE "none"]
        /\ pc' = IF ok THEN "ready" ELSE "none"
  <2>1. PICK socket \in BOOLEAN :
          LET ok == socket /\ Free("event")
          IN  /\ socks' = [socks EXCEPT ![handle] = IF ok THEN @ \cup {"event"} ELSE @ \ {"hal"}]
              /\ freed' = IF ok THEN freed ELSE freed \cup {handle}
              /\ loop' = [loop EXCEPT ![handle] = IF ok THEN "poll" ELSE "none"]
              /\ pc' = IF ok THEN "ready" ELSE "none"
    BY OkBoolean DEF InitEvent
  <2>2. CASE socket /\ Free("event")
    BY <2>1, <2>2
  <2>3. CASE ~(socket /\ Free("event"))
    BY <2>1, <2>3
  <2> QED BY <2>2, <2>3
<1>3. Types'
  BY <1>1, <1>2 DEF Inv, Types, Ready, Polling
<1>4. ASSUME NEW h \in Handle PROVE HandleInv(h)'
  <2>1. HandleInv(h) /\ Types /\ HandleInv(handle)
    BY <1>1 DEF Inv
  <2>2. CASE h = handle /\ ok
    <3>1. loop[h] = "none" /\ loop'[h] = "poll" /\ pc' = "ready" /\ h \notin freed' /\ ~(h > handle)
      BY <1>1, <1>2, <2>1, <2>2 DEF HandleInv, LoopRight, Types, Handle
    <3>2. Woken(h)'
      BY <1>1, <2>1, <3>1 DEF HandleInv, Woken, Early, Ending
    <3> QED
      BY <1>1, <2>1, <2>2, <3>1, <3>2
      DEF HandleInv, Unused, LoopRight, SocksOwned, Ready, Polling, Ending
  <2>3. CASE h = handle /\ ~ok
    BY <1>1, <1>2, <2>1, <2>3
    DEF HandleInv, Unused, LoopRight, Woken, Early, SocksOwned, Types, Ready, Polling, Ending, Handle
  <2>4. CASE h # handle
    BY <1>1, <1>2, <2>1, <2>4
    DEF HandleInv, Unused, LoopRight, Woken, Early, SocksOwned, Types, Ready, Polling, Ending
  <2> QED BY <2>2, <2>3, <2>4
<1> QED BY <1>1, <1>3, <1>4 DEF Inv

\* The commands leave the handle alone.
LEMMA CommandStep ==
    ASSUME Inv, (\E c \in {"ifaces", "set"} : Send(c)) \/ Recv \/ RecvLost
    PROVE  Inv'
<1>1. /\ UNCHANGED <<halVars, loopVars, late>>
      /\ pc \in {"ready", "recv"} /\ pc' \in {"ready", "recv"}
  <2>1. CASE \E c \in {"ifaces", "set"} : Send(c)
    <3>1. PICK c \in {"ifaces", "set"} : Send(c)
      BY <2>1
    <3>2. PICK sent \in BOOLEAN : pc' = IF sent THEN "recv" ELSE "ready"
      BY <3>1, OkBoolean DEF Send
    <3> QED BY <3>1, <3>2 DEF Send
  <2>2. CASE Recv \/ RecvLost
    BY <2>2 DEF Recv, RecvMessage, RecvEnd, RecvLost
  <2> QED BY <2>1, <2>2
<1>2. Types'
  BY <1>1 DEF Inv, Types, halVars, loopVars, Ready
<1>3. ASSUME NEW h \in Handle PROVE HandleInv(h)'
  BY <1>1 DEF Inv, HandleInv, Unused, LoopRight, Woken, Early, SocksOwned, halVars, loopVars, Ready
<1> QED BY <1>1, <1>2, <1>3 DEF Inv

LEMMA CleanupStep == ASSUME Inv, CleanupExit \/ CleanupWrite \/ Cleaned PROVE Inv'
<1>1. CASE CleanupExit
  <2>1. Types'
    BY <1>1 DEF CleanupExit, Inv, Types, loopVars, Ready
  <2>2. ASSUME NEW h \in Handle PROVE HandleInv(h)'
    BY <1>1 DEF CleanupExit, Inv, Types, HandleInv, Unused, LoopRight, Woken, Early, SocksOwned, loopVars, Ready
  <2> QED BY <1>1, <2>1, <2>2 DEF Inv, CleanupExit
<1>2. CASE CleanupWrite
  <2>1. handle \in Handle /\ pc = "cleanup" /\ late' \subseteq Handle /\ late' \subseteq late \cup {handle}
    BY <1>2 DEF CleanupWrite, Inv, Types
  <2>2. Types'
    <3>1. (handle \notin freed) \in BOOLEAN
      OBVIOUS
    <3>2. byte' \in [Handle -> BOOLEAN]
      BY <1>2, <3>1 DEF CleanupWrite, Inv, Types
    <3> QED BY <1>2, <2>1, <3>2 DEF CleanupWrite, Inv, Types, loopVars, Ready
  <2>3. ASSUME NEW h \in Handle PROVE HandleInv(h)'
    <3>1. HandleInv(h) /\ Types /\ pc = "cleanup" /\ pc' = "wait"
          /\ UNCHANGED <<handle, socks, freed, exit, loop, events, seen, wake>>
      BY <1>2 DEF Inv, CleanupWrite, loopVars
    <3>2. CASE h # handle
      <4>1. byte'[h] = byte[h] /\ (h \in late' => h \in late)
        BY <1>2, <2>1, <3>1, <3>2 DEF CleanupWrite, Types
      <4> QED BY <3>1, <3>2, <4>1 DEF HandleInv, Unused, LoopRight, Woken, Early, SocksOwned, Ready
    <3>3. CASE h = handle /\ h \in freed
      <4>1. loop[h] = "done" /\ Early(h)
        BY <3>1, <3>3 DEF HandleInv, LoopRight, Woken, Early, Ready, Ending
      <4>2. byte'[h] = FALSE
        BY <1>2, <3>1, <3>3 DEF CleanupWrite, Types
      <4> QED BY <3>1, <3>3, <4>1, <4>2 DEF HandleInv, Unused, LoopRight, Woken, Early, SocksOwned, Ready, Types, Handle
    <3>4. CASE h = handle /\ h \notin freed
      <4>1. byte'[h] = TRUE /\ late' = late
        BY <1>2, <3>1, <3>4 DEF CleanupWrite, Types
      <4> QED BY <3>1, <3>4, <4>1 DEF HandleInv, Unused, LoopRight, Woken, Early, SocksOwned, Ready, Types, Handle
    <3> QED BY <3>2, <3>3, <3>4
  <2> QED BY <2>1, <2>2, <2>3 DEF Inv
<1>3. CASE Cleaned
  <2>1. Types'
    BY <1>3 DEF Cleaned, Inv, Types, halVars, loopVars, Ready
  <2>2. ASSUME NEW h \in Handle PROVE HandleInv(h)'
    BY <1>3 DEF Cleaned, Inv, HandleInv, Unused, LoopRight, Woken, Early, SocksOwned, halVars, loopVars, Ready, Polling
  <2> QED BY <1>3, <2>1, <2>2 DEF Inv, Cleaned
<1> QED BY <1>1, <1>2, <1>3

LEMMA LoopStep == ASSUME Inv, NEW g \in Handle, Event(g) \/ Loop(g) \/ LoopInterrupted(g) PROVE Inv'
<1>1. UNCHANGED <<pc, handle, exit, byte, late>>
  BY DEF Event, Loop, LoopPoll, LoopInterrupted, LoopCheck, LoopFree, halVars
<1>2. CASE Event(g)
  <2>1. Types'
    BY <1>1, <1>2 DEF Event, Inv, Types, halVars
  <2>2. ASSUME NEW h \in Handle PROVE HandleInv(h)'
    BY <1>1, <1>2 DEF Event, Inv, Types, HandleInv, Unused, LoopRight, Woken, Early, SocksOwned, halVars
  <2> QED BY <1>1, <2>1, <2>2 DEF Inv
<1>3. CASE LoopPoll(g)
  <2>1. Types'
    <3>1. Readable(g) \in SUBSET {"event", "exit", "interrupted"}
      BY DEF Readable
    <3>2. wake' \in [Handle -> SUBSET {"event", "exit", "interrupted"}]
      BY <1>3, <3>1 DEF LoopPoll, Inv, Types
    <3> QED BY <1>1, <1>3, <3>2 DEF LoopPoll, Inv, Types, halVars, Polling
  <2>2. ASSUME NEW h \in Handle PROVE HandleInv(h)'
    <3>1. HandleInv(h) /\ Types
      BY DEF Inv
    <3>2. CASE h # g
      BY <1>1, <1>3, <3>1, <3>2
      DEF LoopPoll, Types, HandleInv, Unused, LoopRight, Woken, Early, SocksOwned, halVars
    <3>3. CASE h = g
      <4>1. loop[h] = "poll" /\ loop'[h] = "check" /\ seen'[h] = events[h] /\ events' = events
            /\ socks' = socks /\ freed' = freed /\ wake'[h] = Readable(h) /\ Readable(h) # {}
        BY <1>3, <3>1, <3>3 DEF LoopPoll, PollReturns, Types, halVars
      <4>2. seen[h] \in Nat /\ events[h] \in Nat
        BY <3>1 DEF Types
      <4>3. Early(h)' \/ byte[h]
        BY <4>1 DEF Early, Readable
      <4>4. Woken(h)'
        BY <1>1, <3>1, <4>1, <4>2, <4>3 DEF HandleInv, Woken, Early
      <4> QED
        BY <1>1, <3>1, <4>1, <4>4 DEF HandleInv, Unused, LoopRight, SocksOwned, Polling, Ending
    <3> QED BY <3>2, <3>3
  <2> QED BY <1>1, <2>1, <2>2 DEF Inv
<1>4. CASE LoopCheck(g)
  <2>1. Types'
    BY <1>1, <1>4 DEF LoopCheck, Inv, Types, halVars, Polling, Ending
  <2>2. ASSUME NEW h \in Handle PROVE HandleInv(h)'
    <3>1. HandleInv(h) /\ Types
      BY DEF Inv
    <3> QED
      BY <1>1, <1>4, <3>1
      DEF LoopCheck, Types, HandleInv, Unused, LoopRight, Woken, Early, SocksOwned, halVars, Polling, Ending
  <2> QED BY <1>1, <2>1, <2>2 DEF Inv
<1>5. CASE LoopFree(g)
  <2>1. PICK s \in {<<"freehal", "hal", "freeevent">>, <<"freeevent", "event", "free">>, <<"free", "exit", "done">>} :
        /\ loop[g] = s[1]
        /\ socks' = [socks EXCEPT ![g] = @ \ {s[2]}]
        /\ loop' = [loop EXCEPT ![g] = s[3]]
        /\ freed' = IF s[3] = "done" THEN freed \cup {g} ELSE freed
        /\ UNCHANGED <<events, seen, wake>>
    BY <1>5 DEF LoopFree
  <2>2. Types'
    BY <1>1, <2>1 DEF Inv, Types, Ending
  <2>3. ASSUME NEW h \in Handle PROVE HandleInv(h)'
    <3>1. HandleInv(h) /\ Types
      BY DEF Inv
    <3>2. CASE h # g
      BY <1>1, <2>1, <3>1, <3>2
      DEF Types, HandleInv, Unused, LoopRight, Woken, Early, SocksOwned
    <3>3. CASE h = g
      BY <1>1, <2>1, <3>1, <3>3
      DEF Types, HandleInv, Unused, LoopRight, Woken, Early, SocksOwned, Polling, Ending
    <3> QED BY <3>2, <3>3
  <2> QED BY <1>1, <2>2, <2>3 DEF Inv
<1>6. CASE LoopInterrupted(g)
  <2>1. Types'
    BY <1>1, <1>6 DEF LoopInterrupted, Inv, Types, halVars, Polling
  <2>2. ASSUME NEW h \in Handle PROVE HandleInv(h)'
    <3>1. HandleInv(h) /\ Types
      BY DEF Inv
    <3> QED
      BY <1>1, <1>6, <3>1
      DEF LoopInterrupted, Types, HandleInv, Unused, LoopRight, Woken, Early, SocksOwned, halVars,
          Polling, Ending
  <2> QED BY <1>1, <2>1, <2>2 DEF Inv
<1> QED BY <1>2, <1>3, <1>4, <1>5, <1>6 DEF Loop

LEMMA NextInv == ASSUME Inv, [Next]_vars PROVE Inv'
<1>1. CASE UNCHANGED vars
  BY <1>1 DEF vars, halVars, loopVars, Inv, Types, HandleInv, Unused, LoopRight, Woken, Early, SocksOwned
<1> QED
  BY <1>1, InitHalStep, InitEventStep, CommandStep, CleanupStep, LoopStep DEF Next, Framework

LEMMA SpecInv == Spec => []Inv
BY InitInv, NextInv, PTL DEF Spec

\* cleanup writes to a handle that is gone only when the event loop, before its last test of
\* hal->exit, came out of its poll for an event or a failed poll, never for a byte of cleanup.
THEOREM WifiLateUse == Spec => []LateUseExplained
<1>1. ASSUME Inv, NEW h \in late
      PROVE  Early(h) /\ loop[h] = "done" /\ socks[h] = {} /\ ~byte[h]
  <2>1. h \in Handle /\ HandleInv(h) /\ socks[h] \subseteq {"hal", "event", "exit"}
    BY <1>1 DEF Inv, Types
  <2>2. Early(h) /\ loop[h] = "done" /\ ~byte[h]
    BY <1>1, <2>1 DEF HandleInv, Woken
  <2>3. "hal" \notin socks[h] /\ "event" \notin socks[h] /\ "exit" \notin socks[h]
    <3>1. h = handle => pc # "init"
      BY <2>1, <2>2 DEF HandleInv, LoopRight
    <3> QED BY <2>1, <2>2, <3>1 DEF HandleInv, SocksOwned, Polling
  <2> QED BY <2>1, <2>2, <2>3
<1>2. Inv => LateUseExplained
  BY <1>1 DEF Early, LateUseExplained
<1> QED BY SpecInv, <1>2, PTL

\* No error path of initialize leaves a socket open that would make the next one fail.
THEOREM WifiRefused == Spec => RefusedExplained
<1>1. ASSUME Inv, Next, refused' # refused
      PROVE  \E h \in Handle : exit[h] /\ loop[h] \in {"freehal", "freeevent"}
  <2>1. CASE InitHal
    <3>1. pc = "none" /\ \E h \in Handle : "hal" \in socks[h]
      BY <1>1, <2>1 DEF InitHal, Free
    <3> QED BY <1>1, <3>1 DEF Inv, HandleInv, SocksOwned, LoopRight, Ready, Polling, Ending
  <2>2. CASE InitEvent
    <3>1. pc = "init" /\ \E h \in Handle : "event" \in socks[h]
      BY <1>1, <2>2 DEF InitEvent, Free
    <3> QED BY <1>1, <3>1 DEF Inv, HandleInv, SocksOwned, LoopRight, Ready, Polling, Ending
  <2>3. ~InitHal /\ ~InitEvent => refused' = refused
    BY <1>1 DEF Next, Framework, Send, CleanupExit, CleanupWrite, Cleaned, Recv, RecvMessage, RecvEnd,
                RecvLost, Event, Loop, LoopPoll, LoopInterrupted, LoopCheck, LoopFree, halVars
  <2> QED BY <1>1, <2>1, <2>2, <2>3
<1>2. Inv /\ [Next]_vars
        => [refused' # refused =>
               \E h \in Handle : exit[h] /\ loop[h] \in {"freehal", "freeevent"}]_vars
  BY <1>1
<1> QED BY SpecInv, <1>2, PTL DEF Spec, RefusedExplained

-----------------------------------------------------------------------------
(***************************************************************************)
(* The interfaces: while the dump comes in, what was found and what is still *)
(* to come make up the interfaces of the driver.                            *)
(***************************************************************************)
KernelIface == [ifindex : Nat, wdev : Nat \ {0}]
Iface == [ifindex : Garbage \cup Nat, wdev : Garbage \cup Nat]

\* Commands to the i-th interface, found as f, reach it, or it has an uninitialised wdev_idx.
Reached(f, i) ==
    \/ Address(f) \in {[wdev |-> kernel[i].wdev], [ifindex |-> kernel[i].ifindex]}
    \/ i > 1 /\ f.wdev # 0

Matched(fs) == Len(fs) <= Len(kernel) /\ \A i \in 1..Len(fs) : Reached(fs[i], i)

DumpTypes ==
    /\ kernel \in Seq(KernelIface)
    /\ queue \in Seq(KernelIface)
    /\ found \in Seq(Iface)
    /\ interfaces \in Seq(Iface)

Dump ==
    /\ pc = "recv" /\ cmd = "ifaces" /\ end # "error" =>
        Matched(found) /\ queue = SubSeq(kernel, Len(found) + 1, Len(kernel))
    /\ interfaces # <<>> => Len(interfaces) = Len(kernel) /\ Matched(interfaces)

DumpInv == DumpTypes /\ (failed = {} => Dump)

LEMMA EmptyInSeq == ASSUME NEW S PROVE <<>> \in Seq(S)
OBVIOUS

LEMMA InitDump == Init => DumpInv
BY KernelsAssumption, EmptyInSeq
DEF Init, DumpInv, DumpTypes, Dump, Matched, KernelIface

\* Every answer is a part of the dump, and all of it when it is no error.
LEMMA AnswersFacts ==
    ASSUME NEW msgs \in Seq(KernelIface), NEW e, e # "error", NEW a \in Answers(msgs, e)
    PROVE  a[1] \in Seq(KernelIface) /\ (a[2] # "error" => a[1] = msgs)
<1>1. CASE a = <<msgs, e>>
  BY <1>1
<1>2. CASE a # <<msgs, e>>
  <2>1. PICK n \in 0..Len(msgs) : a = <<SubSeq(msgs, 1, n), "error">>
    BY <1>2 DEF Answers
  <2>2. SubSeq(msgs, 1, n) \in Seq(KernelIface)
    BY <2>1
  <2> QED BY <2>1, <2>2
<1> QED BY <1>1, <1>2

LEMMA SendDump ==
    ASSUME DumpInv, NEW c \in {"ifaces", "set"}, Send(c)
    PROVE  DumpInv'
<1>1. PICK sent \in BOOLEAN :
        /\ \E a \in IF c = "ifaces" THEN Answers(kernel, "finish") ELSE Answers(<<>>, "ack") :
            /\ queue' = IF sent THEN a[1] ELSE <<>>
            /\ end' = IF sent THEN a[2] ELSE "none"
        /\ cmd' = IF sent THEN c ELSE "none"
        /\ pc' = IF sent THEN "recv" ELSE "ready"
        /\ failed' = failed \cup Note("send", sent)
  BY OkBoolean DEF Send
<1>2. /\ kernel' = kernel /\ found' = <<>> /\ interfaces' = IF c = "ifaces" THEN <<>> ELSE interfaces
      /\ kernel \in Seq(KernelIface) /\ interfaces \in Seq(Iface) /\ <<>> \in Seq(KernelIface)
      /\ <<>> \in Seq(Iface)
  BY EmptyInSeq DEF Send, DumpInv, DumpTypes
<1>3. queue' \in Seq(KernelIface) /\ (c = "ifaces" /\ sent /\ end' # "error" => queue' = kernel)
  <2>1. CASE c = "ifaces"
    BY <1>1, <1>2, <2>1, AnswersFacts
  <2>2. CASE c # "ifaces"
    BY <1>1, <1>2, <2>2, AnswersFacts
  <2> QED BY <2>1, <2>2
<1>4. DumpTypes'
  BY <1>2, <1>3 DEF DumpTypes
<1>5. ASSUME failed' = {} PROVE Dump'
  <2>1. failed = {} /\ sent
    BY <1>1, <1>5 DEF Note
  <2>2. Dump
    BY <2>1 DEF DumpInv
  <2>3. interfaces' # <<>> => interfaces' = interfaces
    BY <1>2
  <2>4. interfaces' # <<>> => Len(interfaces') = Len(kernel') /\ Matched(interfaces)'
    BY <1>2, <2>2, <2>3 DEF Dump, Matched, Reached
  <2>5. cmd' = "ifaces" /\ end' # "error" => queue' = kernel
    BY <1>1, <1>3, <2>1
  <2>6. Len(found') = 0 /\ Matched(found)'
    BY <1>2 DEF Matched
  <2>7. kernel = SubSeq(kernel, 1, Len(kernel))
    BY <1>2
  <2> QED BY <1>2, <2>4, <2>5, <2>6, <2>7 DEF Dump
<1> QED BY <1>4, <1>5 DEF DumpInv

\* The parser fills the next interface so that commands reach it.
LEMMA RecvMessageDump == ASSUME DumpInv, RecvMessage PROVE DumpInv'
<1> DEFINE n == Len(found) + 1
           m == Head(queue)
<1>1. /\ pc = "recv" /\ pc' = pc /\ queue # <<>> /\ queue' = Tail(queue)
      /\ UNCHANGED <<kernel, cmd, end, interfaces, failed>>
  BY DEF RecvMessage
<1>2. kernel \in Seq(KernelIface) /\ queue \in Seq(KernelIface) /\ found \in Seq(Iface)
      /\ interfaces \in Seq(Iface)
  BY DEF DumpInv, DumpTypes
<1>3. m \in KernelIface /\ queue' \in Seq(KernelIface)
  BY <1>1, <1>2
<1>4. PICK f \in FreshIface(n) :
        found' = Append(found, IF m.ifindex # 0 THEN [f EXCEPT !.ifindex = m.ifindex]
                                                ELSE [f EXCEPT !.wdev = m.wdev])
  BY DEF RecvMessage, ParseIface
<1> DEFINE g == IF m.ifindex # 0 THEN [f EXCEPT !.ifindex = m.ifindex] ELSE [f EXCEPT !.wdev = m.wdev]
<1>5. f \in Iface /\ (n = 1 => f = [ifindex |-> 0, wdev |-> 0])
  BY <1>4 DEF FreshIface, Iface
<1>6. g \in Iface
  BY <1>3, <1>5 DEF Iface, KernelIface
<1>7. Address(g) \in {[wdev |-> m.wdev], [ifindex |-> m.ifindex]} \/ (n # 1 /\ g.wdev # 0)
  <2>1. CASE m.ifindex = 0
    <3>1. g.wdev = m.wdev /\ m.wdev # 0
      BY <1>3, <1>5, <2>1 DEF Iface, KernelIface
    <3> QED BY <3>1 DEF Address
  <2>2. CASE m.ifindex # 0
    <3>1. g.ifindex = m.ifindex /\ g.wdev = f.wdev
      BY <1>5, <2>2 DEF Iface
    <3>2. CASE f.wdev = 0
      BY <3>1, <3>2 DEF Address
    <3>3. CASE f.wdev # 0
      BY <1>5, <3>1, <3>3
    <3> QED BY <3>2, <3>3
  <2> QED BY <2>1, <2>2
<1> HIDE DEF m, g
<1>8. /\ found' \in Seq(Iface) /\ Len(found') = n /\ found'[n] = g
      /\ \A i \in 1..Len(found) : found'[i] = found[i]
  BY <1>2, <1>4, <1>6 DEF g
<1>9. DumpTypes'
  BY <1>1, <1>2, <1>3, <1>8 DEF DumpTypes
<1>10. ASSUME failed' = {} PROVE Dump'
  <2>1. Dump
    BY <1>1, <1>10 DEF DumpInv
  <2>2. interfaces' # <<>> => Len(interfaces') = Len(kernel') /\ Matched(interfaces)'
    BY <1>1, <2>1 DEF Dump, Matched, Reached
  <2>3. ASSUME cmd = "ifaces", end # "error"
        PROVE  Matched(found)' /\ queue' = SubSeq(kernel, n + 1, Len(kernel))
    <3>1. Matched(found) /\ queue = SubSeq(kernel, n, Len(kernel))
      BY <1>1, <2>1, <2>3 DEF Dump
    <3>2. n \in Nat /\ Len(kernel) \in Nat /\ n >= 1
      BY <1>2
    <3>3. n <= Len(kernel)
      BY <1>1, <1>2, <3>1, <3>2
    <3>4. m = kernel[n] /\ queue' = SubSeq(kernel, n + 1, Len(kernel))
      BY <1>1, <1>2, <3>1, <3>2, <3>3 DEF m
    <3>5. Reached(g, n)
      BY <1>7, <3>2, <3>4 DEF Reached
    <3>6. \A i \in 1..n : Reached(found'[i], i)
      BY <1>2, <1>8, <3>1, <3>5 DEF Matched
    <3> QED BY <1>1, <1>8, <3>3, <3>4, <3>6 DEF Matched, Reached
  <2> QED BY <1>1, <1>8, <2>2, <2>3 DEF Dump
<1> QED BY <1>9, <1>10 DEF DumpInv

LEMMA RecvEndDump == ASSUME DumpInv, RecvEnd PROVE DumpInv'
<1>1. /\ pc = "recv" /\ pc' = "ready" /\ queue = <<>> /\ queue' = queue /\ kernel' = kernel
      /\ found' = <<>>
      /\ interfaces' = IF cmd = "ifaces" THEN found ELSE interfaces
      /\ failed' = failed \cup Note("error", end # "error")
  BY DEF RecvEnd
<1>2. DumpTypes'
  BY <1>1, EmptyInSeq DEF DumpInv, DumpTypes
<1>3. ASSUME failed' = {} PROVE Dump'
  <2>1. failed = {} /\ end # "error"
    BY <1>1, <1>3 DEF Note
  <2>2. Dump /\ DumpTypes
    BY <2>1 DEF DumpInv
  <2>3. CASE cmd = "ifaces"
    <3>1. Matched(found) /\ <<>> = SubSeq(kernel, Len(found) + 1, Len(kernel))
      BY <1>1, <2>1, <2>2, <2>3 DEF Dump
    <3>2. Len(found) = Len(kernel)
      <4>1. Len(found) \in Nat /\ Len(kernel) \in Nat /\ Len(found) <= Len(kernel)
        BY <2>2, <3>1 DEF DumpTypes, Matched
      <4>2. ASSUME Len(found) + 1 <= Len(kernel) PROVE FALSE
        <5>1. Len(SubSeq(kernel, Len(found) + 1, Len(kernel))) = Len(kernel) - Len(found)
          BY <2>2, <4>1, <4>2 DEF DumpTypes
        <5>2. Len(SubSeq(kernel, Len(found) + 1, Len(kernel))) = 0
          BY <3>1
        <5> QED BY <4>1, <4>2, <5>1, <5>2
      <4> QED BY <4>1, <4>2
    <3> QED BY <1>1, <2>3, <3>1, <3>2 DEF Dump, Matched, Reached
  <2>4. CASE cmd # "ifaces"
    BY <1>1, <2>2, <2>4 DEF Dump, Matched, Reached
  <2> QED BY <2>3, <2>4
<1> QED BY <1>2, <1>3 DEF DumpInv

\* The other steps leave the dump alone, or begin without interfaces.
LEMMA OtherDump ==
    ASSUME DumpInv,
           \/ UNCHANGED <<kernel, pc, cmd, queue, end, found, interfaces, failed>>
           \/ /\ kernel' = kernel /\ queue' = queue /\ found' = found
              /\ interfaces' \in {interfaces, <<>>}
              /\ pc' # "recv" /\ failed \subseteq failed'
    PROVE  DumpInv'
<1>1. DumpTypes'
  BY EmptyInSeq DEF DumpInv, DumpTypes
<1>2. ASSUME failed' = {} PROVE Dump'
  BY <1>2 DEF DumpInv, Dump, Matched, Reached
<1> QED BY <1>1, <1>2 DEF DumpInv

LEMMA NextDump == DumpInv /\ [Next]_vars => DumpInv'
<1> SUFFICES ASSUME DumpInv, [Next]_vars PROVE DumpInv'
  OBVIOUS
<1>1. CASE InitHal
  <2>1. pc' \in {"init", "none"} /\ failed \subseteq failed' /\ UNCHANGED <<kernel, cmdVars>>
    BY <1>1, OkBoolean DEF InitHal
  <2> QED BY <2>1, OtherDump DEF cmdVars
<1>2. CASE InitEvent
  <2>1. pc' \in {"ready", "none"} /\ failed \subseteq failed' /\ interfaces' = <<>>
        /\ UNCHANGED <<kernel, queue, found>>
    BY <1>2, OkBoolean DEF InitEvent
  <2> QED BY <2>1, OtherDump
<1>3. CASE RecvLost
  <2>1. failed' # {} /\ UNCHANGED <<kernel, found, interfaces>> /\ queue' \in {queue, Tail(queue)}
        /\ (queue' # queue => queue # <<>>)
    BY <1>3 DEF RecvLost
  <2>2. queue' \in Seq(KernelIface)
    <3>1. queue \in Seq(KernelIface)
      BY DEF DumpInv, DumpTypes
    <3>2. queue # <<>> => Tail(queue) \in Seq(KernelIface)
      BY <3>1
    <3> QED BY <2>1, <3>1, <3>2
  <2>3. DumpTypes'
    BY <2>1, <2>2 DEF DumpInv, DumpTypes
  <2> QED BY <2>1, <2>3 DEF DumpInv
<1>4. CASE CleanupExit \/ CleanupWrite \/ Cleaned
  <2>1. pc' \in {"cleanup", "wait", "none"} /\ failed' = failed /\ UNCHANGED <<kernel, cmdVars>>
    BY <1>4 DEF CleanupExit, CleanupWrite, Cleaned
  <2> QED BY <2>1, OtherDump DEF cmdVars
<1>5. CASE \E h \in Handle : Event(h) \/ Loop(h) \/ LoopInterrupted(h)
  <2>1. UNCHANGED <<kernel, pc, cmdVars, failed>>
    BY <1>5 DEF Event, Loop, LoopPoll, LoopInterrupted, LoopCheck, LoopFree
  <2> QED BY <2>1, OtherDump DEF cmdVars
<1>6. CASE UNCHANGED vars
  BY <1>6, OtherDump DEF vars, cmdVars
<1> QED
  BY <1>1, <1>2, <1>3, <1>4, <1>5, <1>6, SendDump, RecvMessageDump, RecvEndDump
  DEF Next, Framework, Recv

\* get_ifaces finds every interface, and a command reaches the interface it is meant for
\* unless its wdev_idx was never cleared.
THEOREM WifiInterfaces == Spec => []InterfacesRight
<1>1. DumpInv => InterfacesRight
  <2> SUFFICES ASSUME DumpTypes, Dump, interfaces # <<>>
               PROVE  /\ Len(interfaces) = Len(kernel)
                      /\ \A i \in DOMAIN interfaces : Reached(interfaces[i], i)
    BY DEF DumpInv, InterfacesRight, Reached
  <2>1. DOMAIN interfaces = 1..Len(interfaces)
    BY DEF DumpTypes
  <2> QED BY <2>1 DEF Dump, Matched
<1> QED BY InitDump, NextDump, <1>1, PTL DEF Spec
=============================================================================
