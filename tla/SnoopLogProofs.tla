--------------------------- MODULE SnoopLogProofs ---------------------------
(***************************************************************************)
(* Proofs about SnoopLog: for any number of threads, packets, sessions and    *)
(* configurations, and whatever may fail, the records of the btsnoop file     *)
(* stay whole, and the logs only stop for a reason; while nothing fails the   *)
(* file is bounded and both logs have their headers in front.                 *)
(***************************************************************************)
EXTENDS SnoopLog, TLAPS, SequenceTheorems, WellFoundedInduction

(* The inductive invariant *)

\* Where an actor holds btsnoop_log_lock, if it is a thread.
RollingPlaces == {"move", "reopen", "reopening", "stamp", "stamping", "open"}
Holding == {"record", "payload", "unlock"} \cup RollingPlaces

ThreadPlaces == {"idle", "capture", "log", "logwrite"} \cup Holding
Preparing == {"idle", "loginit", "initstamp", "initstamping"}
MainPlaces == Preparing \cup {"unlock"} \cup RollingPlaces

Item == [kind : {"absent", "header", "stamp"}, len : Nat]
        \cup [kind : {"record", "payload"}, by : Thread, len : Nat]

Types ==
    /\ pc \in [Actor -> ThreadPlaces \cup MainPlaces]
    /\ len \in [Actor -> Nat]
    /\ snoop \in Seq(Item)
    /\ snoopLock \in Thread \cup {NoThread}

\* init runs while there are no threads; the threads run while the library is up.
Phases ==
    /\ pc[Main] \in MainPlaces
    /\ \A t \in Thread : pc[t] \in ThreadPlaces
    /\ pc[Main] # "idle" => ~up
    /\ ~up => \A t \in Thread : pc[t] = "idle"

Mutex == \A t \in Thread : pc[t] \in Holding <=> snoopLock = t

Followed(s, i) == i < Len(s) /\ s[i + 1].kind = "payload" /\ s[i + 1].by = s[i].by

\* The record that is being written is the last one of an open file.
Pending(i) ==
    /\ i = Len(snoop) /\ snoopFd
    /\ snoop[i].by \in Thread /\ snoopLock = snoop[i].by /\ pc[snoop[i].by] = "payload"

Whole == \A i \in 1..Len(snoop) : snoop[i].kind = "record" => Followed(snoop, i) \/ Pending(i)

\* A closed file is about to be opened, or there is a reason.
Reason ==
    mode.snoop /\ ~snoopFd =>
        \/ "open" \in failed
        \/ kept
        \/ \E t \in Actor : pc[t] \in RollingPlaces
        \/ ~up /\ pc[Main] \in Preparing

Inv == Types /\ Phases /\ Mutex /\ Whole /\ Reason

USE DEF RollingPlaces, Holding, ThreadPlaces, Preparing, MainPlaces, Actor

LEMMA Names == Main \notin Thread /\ NoThread \notin Thread /\ Main \in Actor /\ Thread \subseteq Actor
BY ThreadAssumption

-----------------------------------------------------------------------------
(* What the steps do to the file *)

\* Items that are written.
LEMMA Items ==
    /\ HEADER \in Item /\ NoFile \in Seq(Item)
    /\ \A t \in Thread, n \in Nat : Record(t, n) \in Item /\ Payload(t, n) \in Item
BY DEF Item, HEADER, NoFile, Record, Payload

\* What all records of a file have behind them stays there when something else is written.
LEMMA AppendWhole ==
    ASSUME NEW s \in Seq(Item), NEW e \in Item, e.kind # "record",
           \A i \in 1..Len(s) : s[i].kind = "record" => Followed(s, i)
    PROVE  /\ Append(s, e) \in Seq(Item)
           /\ \A i \in 1..Len(Append(s, e)) :
                Append(s, e)[i].kind = "record" => Followed(Append(s, e), i)
<1> DEFINE f == Append(s, e)
<1>1. f \in Seq(Item) /\ Len(f) = Len(s) + 1 /\ Len(s) \in Nat
  BY AppendProperties
<1>2. /\ f[Len(s) + 1] = e
      /\ \A i \in 1..Len(s) : f[i] = s[i]
  BY AppendProperties
<1> HIDE DEF f
<1>3. ASSUME NEW i \in 1..Len(f), f[i].kind = "record" PROVE Followed(f, i)
  <2>1. i \in 1..Len(s)
    BY <1>1, <1>2, <1>3
  <2>2. Followed(s, i)
    BY <1>2, <1>3, <2>1
  <2>3. i + 1 \in 1..Len(s)
    BY <1>1, <2>1, <2>2 DEF Followed
  <2> QED BY <1>1, <1>2, <2>1, <2>2, <2>3 DEF Followed
<1> QED BY <1>1, <1>3 DEF f

\* When no thread is between the two writes of a record, every record is whole.
LEMMA NonePending ==
    ASSUME Inv, \A t \in Thread : pc[t] # "payload"
    PROVE  \A i \in 1..Len(snoop) : snoop[i].kind = "record" => Followed(snoop, i)
BY DEF Inv, Whole, Pending

\* The actor that rolls the log over, or has the lock without having written, is alone.
LEMMA AloneWithFile ==
    ASSUME Inv, NEW t \in Actor, pc[t] \in Holding \ {"payload"}
    PROVE  \A u \in Thread : pc[u] # "payload"
<1>1. CASE t = Main
  BY <1>1, Names DEF Inv, Phases
<1>2. CASE t \in Thread
  BY <1>2 DEF Inv, Mutex
<1> QED BY <1>1, <1>2


-----------------------------------------------------------------------------
(* The parts of the invariant that several steps keep *)

\* The threads run while the library is up, main while it is not.
LEMMA WhoRuns ==
    ASSUME Inv, NEW t \in Actor, pc[t] # "idle"
    PROVE  /\ t = Main => ~up /\ pc[t] \in MainPlaces
           /\ t \in Thread => up /\ pc[t] \in ThreadPlaces
BY DEF Inv, Phases

\* A step within, or outside, the part that holds the lock.
LEMMA Moves ==
    ASSUME Inv, NEW t \in Actor, NEW l, pc' = [pc EXCEPT ![t] = l],
           up' = up, snoopLock' = snoopLock,
           t = Main => ~up /\ l \in MainPlaces,
           t \in Thread => up /\ l \in ThreadPlaces /\ (l \in Holding <=> pc[t] \in Holding)
    PROVE  /\ pc' \in [Actor -> ThreadPlaces \cup MainPlaces]
           /\ pc'[t] = l /\ \A u \in Actor \ {t} : pc'[u] = pc[u]
           /\ Phases' /\ Mutex'
<1>1. l \in ThreadPlaces \cup MainPlaces
  BY DEF Actor
<1>2. pc \in [Actor -> ThreadPlaces \cup MainPlaces]
  BY DEF Inv, Types
<1> HIDE DEF RollingPlaces, Holding, ThreadPlaces, Preparing, MainPlaces
<1>3. pc' \in [Actor -> ThreadPlaces \cup MainPlaces]
  BY <1>1, <1>2
<1>4. pc'[t] = l /\ \A u \in Actor \ {t} : pc'[u] = pc[u]
  BY <1>2
<1>5. Phases'
  BY <1>4, Names DEF Inv, Phases
<1>6. Mutex'
  BY <1>4, Names DEF Inv, Mutex
<1> QED BY <1>3, <1>4, <1>5, <1>6

\* A step that leaves the file alone.
LEMMA Untouched ==
    ASSUME Inv, UNCHANGED <<snoop, snoopFd, snoopLock>>,
           \A u \in Thread : pc[u] = "payload" => pc'[u] = "payload"
    PROVE  Whole'
BY DEF Inv, Whole, Pending, Followed

\* A step between two places at which the log is being rolled over.
LEMMA StillRolling ==
    ASSUME NEW t \in Actor, pc'[t] \in RollingPlaces
    PROVE  Reason'
BY DEF Reason

\* A step that leaves the file open or closed, and what explains it.
LEMMA SameReason ==
    ASSUME Inv, UNCHANGED <<mode, snoopFd>>, failed \subseteq failed', kept => kept',
           \/ "open" \in failed \/ kept \/ snoopFd
           \/ \A u \in Actor : pc[u] \in RollingPlaces => pc'[u] \in RollingPlaces,
           \/ "open" \in failed \/ kept \/ snoopFd
           \/ ~up /\ pc[Main] \in Preparing => ~up' /\ pc'[Main] \in Preparing
    PROVE  Reason'
<1> HIDE DEF RollingPlaces, Preparing
<1> QED BY DEF Inv, Reason

-----------------------------------------------------------------------------
(* The steps that write the btsnoop file *)

\* SnoopMove, with its local definitions.
Seen(readable) == snoop # NoFile /\ (readable \/ ~mode.save)
Big == mode.slice /\ Size(snoop) > Limit
MovesAway(readable) == Seen(readable) /\ (mode.save => IF mode.slice THEN Big ELSE Size(snoop) > 1)
Gives(renamed, readable, enoent) ==
    mode.save /\ mode.slice /\ MovesAway(readable) /\ GivesUp(renamed, enoent)
NextPlace(gave) ==
    CASE gave -> "unlock"
      [] ~gave /\ mode.save /\ mode.slice -> "reopen"
      [] OTHER -> "open"

MoveBody(t, renamed, readable, enoent) ==
    /\ snoop' = IF MovesAway(readable) /\ renamed THEN NoFile ELSE snoop
    /\ snoopLast' = IF ~MovesAway(readable) THEN snoopLast
                    ELSE IF ~mode.save THEN renamed \/ snoopLast
                    ELSE IF mode.slice THEN renamed ELSE snoopLast
    /\ snoopRev' = SnoopRevAfter(Seen(readable), Big)
    /\ kept' = (kept \/ (Gives(renamed, readable, enoent) /\ snoopLast))
    /\ failed' = failed \cup Note("rename", ~MovesAway(readable) \/ renamed) \cup Note("open", readable)
    /\ Goto(t, NextPlace(Gives(renamed, readable, enoent)))

LEMMA SnoopMoveBody ==
    ASSUME NEW t \in Actor, SnoopMove(t)
    PROVE  \E renamed \in Ok("rename"), readable \in Ok("open"), enoent \in BOOLEAN :
              MoveBody(t, renamed, readable, enoent)
BY DEF SnoopMove, MoveBody, Seen, Big, MovesAway, Gives, NextPlace

LEMMA Places ==
    ASSUME NEW gave \in BOOLEAN
    PROVE  /\ gave => NextPlace(gave) = "unlock"
           /\ ~gave => NextPlace(gave) = IF mode.save /\ mode.slice THEN "reopen" ELSE "open"
BY DEF NextPlace

\* skw_btsnoop_open moves the old file away or leaves it; it only gives up over a .last file.
LEMMA SnoopMoveFacts ==
    ASSUME NEW t \in Actor, SnoopMove(t)
    PROVE  /\ snoop' = snoop \/ snoop' = NoFile
           /\ failed \subseteq failed' /\ (kept => kept')
           /\ \/ pc' = [pc EXCEPT ![t] = "unlock"] /\ kept' /\ mode.save /\ mode.slice
              \/ pc' = [pc EXCEPT ![t] = "reopen"] /\ mode.save /\ mode.slice
              \/ pc' = [pc EXCEPT ![t] = "open"] /\ ~(mode.save /\ mode.slice)
<1>1. PICK renamed \in Ok("rename"), readable \in Ok("open"), enoent \in BOOLEAN :
        MoveBody(t, renamed, readable, enoent)
  BY SnoopMoveBody
<1> DEFINE giveUp == Gives(renamed, readable, enoent)
<1>2. snoop' = snoop \/ snoop' = NoFile
  BY <1>1 DEF MoveBody
<1>3. failed \subseteq failed'
  BY <1>1 DEF MoveBody
<1>4. kept' = (kept \/ (giveUp /\ snoopLast))
  BY <1>1 DEF MoveBody
<1>5. pc' = [pc EXCEPT ![t] = NextPlace(giveUp)]
  BY <1>1 DEF MoveBody, Goto
<1>6. giveUp \in BOOLEAN /\ (giveUp => snoopLast /\ mode.save /\ mode.slice)
  BY DEF Gives, GivesUp
<1> HIDE DEF giveUp
<1>7. /\ giveUp => NextPlace(giveUp) = "unlock"
      /\ ~giveUp => NextPlace(giveUp) = IF mode.save /\ mode.slice THEN "reopen" ELSE "open"
  BY <1>6, Places
<1> QED BY <1>2, <1>3, <1>4, <1>5, <1>6, <1>7

LEMMA SnoopMoveKeeps ==
    ASSUME Inv, NEW t \in Actor, SnoopMove(t)
    PROVE  Inv'
<1>1. pc[t] = "move" /\ ~snoopFd' /\ UNCHANGED <<mode, up, snoopLock, len>>
  BY DEF SnoopMove, main
<1>2. PICK l \in {"unlock", "reopen", "open"} : pc' = [pc EXCEPT ![t] = l] /\ (l = "unlock" => kept')
  BY SnoopMoveFacts
<1>3. /\ pc' \in [Actor -> ThreadPlaces \cup MainPlaces] /\ Phases' /\ Mutex'
      /\ pc'[t] = l /\ \A u \in Actor \ {t} : pc'[u] = pc[u]
  BY <1>1, <1>2, WhoRuns, Moves
<1>4. Types'
  <2>1. snoop' \in Seq(Item)
    BY SnoopMoveFacts, Items DEF Inv, Types
  <2> QED BY <1>1, <1>3, <2>1 DEF Inv, Types
<1>5. Whole'
  <2>1. \A i \in 1..Len(snoop) : snoop[i].kind = "record" => Followed(snoop, i)
    BY <1>1, AloneWithFile, NonePending
  <2>2. CASE snoop' = snoop
    BY <2>1, <2>2 DEF Whole, Followed
  <2>3. CASE snoop' = NoFile
    BY <2>3 DEF Whole, NoFile
  <2> QED BY <2>2, <2>3, SnoopMoveFacts
<1>6. Reason'
  <2>1. CASE l = "unlock"
    BY <1>2, <2>1 DEF Reason
  <2>2. CASE l \in {"reopen", "open"}
    BY <1>3, <2>2, StillRolling
  <2> QED BY <1>2, <2>1, <2>2
<1> QED BY <1>3, <1>4, <1>5, <1>6 DEF Inv

LEMMA SnoopOpenKeeps ==
    ASSUME Inv, NEW t \in Actor, SnoopOpen(t)
    PROVE  Inv'
<1>1. /\ pc[t] = "open" /\ pc' = [pc EXCEPT ![t] = "unlock"]
      /\ UNCHANGED <<mode, up, snoopLock, len, kept>>
  BY DEF SnoopOpen, main, Goto
<1>2. PICK opened \in Ok("open") :
        /\ snoopFd' = opened
        /\ snoop' = IF opened THEN Opened(snoop) \o (IF NewFile THEN <<HEADER>> ELSE <<>>)
                              ELSE snoop
        /\ failed' = failed \cup Note("open", opened)
  BY DEF SnoopOpen
<1>3. /\ pc' \in [Actor -> ThreadPlaces \cup MainPlaces] /\ Phases' /\ Mutex'
  BY <1>1, WhoRuns, Moves
<1>4. /\ snoop' \in Seq(Item)
      /\ \A i \in 1..Len(snoop') : snoop'[i].kind = "record" => Followed(snoop', i)
  <2>1. snoop \in Seq(Item) /\ \A i \in 1..Len(snoop) : snoop[i].kind = "record" => Followed(snoop, i)
    BY <1>1, AloneWithFile, NonePending DEF Inv, Types
  <2> DEFINE f == Opened(snoop)
  <2>2. f \in Seq(Item) /\ \A i \in 1..Len(f) : f[i].kind = "record" => Followed(f, i)
    BY <2>1 DEF Opened
  <2>3. HEADER \in Item /\ HEADER.kind # "record"
    BY Items DEF HEADER
  <2> DEFINE g == Append(f, HEADER)
  <2>4. g \in Seq(Item) /\ \A i \in 1..Len(g) : g[i].kind = "record" => Followed(g, i)
    BY <2>2, <2>3, AppendWhole
  <2>5. snoop' = snoop \/ snoop' = f \o <<HEADER>> \/ snoop' = f \o <<>>
    BY <1>2
  <2>6. f \o <<HEADER>> = g /\ f \o <<>> = f
    BY <2>2, <2>3
  <2> HIDE DEF f, g
  <2> QED BY <2>1, <2>2, <2>4, <2>5, <2>6
<1>5. Types'
  BY <1>1, <1>3, <1>4 DEF Inv, Types
<1>6. Whole'
  BY <1>4 DEF Whole
<1>7. Reason'
  BY <1>2 DEF Reason, Note
<1> QED BY <1>3, <1>5, <1>6, <1>7 DEF Inv

LEMMA CaptureRecordKeeps ==
    ASSUME Inv, NEW t \in Actor, CaptureRecord(t)
    PROVE  Inv'
<1>1. /\ pc[t] = "record" /\ pc' = [pc EXCEPT ![t] = "payload"]
      /\ UNCHANGED <<mode, up, snoopFd, snoopLock, len, failed, kept>>
  BY DEF CaptureRecord, main, Goto
<1>2. snoop' = IF snoopFd THEN Append(snoop, Record(t, 1)) ELSE snoop
  BY DEF CaptureRecord, SnoopWrite
<1>3. t \in Thread /\ snoopLock = t
  BY <1>1, WhoRuns DEF Inv, Mutex
<1>4. /\ pc' \in [Actor -> ThreadPlaces \cup MainPlaces] /\ Phases' /\ Mutex'
      /\ pc'[t] = "payload" /\ \A u \in Actor \ {t} : pc'[u] = pc[u]
  BY <1>1, <1>3, WhoRuns, Moves, Names
<1>5. Record(t, 1) \in Item /\ Record(t, 1).by = t
  BY <1>3, Items DEF Record
<1>6. snoop \in Seq(Item) /\ snoop' \in Seq(Item)
  BY <1>2, <1>5, AppendProperties DEF Inv, Types
<1>7. Types'
  BY <1>1, <1>4, <1>6 DEF Inv, Types
<1>8. Whole'
  <2>1. \A i \in 1..Len(snoop) : snoop[i].kind = "record" => Followed(snoop, i)
    BY <1>1, AloneWithFile, NonePending
  <2>2. CASE ~snoopFd
    BY <1>2, <2>1, <2>2 DEF Whole, Followed
  <2>3. CASE snoopFd
    <3> DEFINE f == Append(snoop, Record(t, 1))
    <3>1. /\ Len(f) = Len(snoop) + 1 /\ Len(snoop) \in Nat
          /\ f[Len(snoop) + 1] = Record(t, 1)
          /\ \A i \in 1..Len(snoop) : f[i] = snoop[i]
      BY <1>5, <1>6, AppendProperties
    <3>2. snoop' = f
      BY <1>2, <2>3
    <3> HIDE DEF f
    <3>3. ASSUME NEW i \in 1..Len(f), f[i].kind = "record" PROVE Followed(f, i) \/ Pending(i)'
      <4>1. CASE i = Len(snoop) + 1
        BY <1>1, <1>3, <1>4, <1>5, <2>3, <3>1, <3>2, <4>1 DEF Pending
      <4>2. CASE i \in 1..Len(snoop)
        <5>1. Followed(snoop, i)
          BY <2>1, <3>1, <3>3, <4>2
        <5>2. i + 1 \in 1..Len(snoop)
          BY <3>1, <4>2, <5>1 DEF Followed
        <5> QED BY <3>1, <4>2, <5>1, <5>2 DEF Followed
      <4> QED BY <3>1, <4>1, <4>2
    <3> QED BY <3>2, <3>3 DEF Whole
  <2> QED BY <2>2, <2>3
<1>9. Reason'
  <2>1. \A u \in Actor : pc[u] \in RollingPlaces => pc'[u] \in RollingPlaces
    BY <1>1, <1>4
  <2>2. up
    BY <1>1, <1>3, WhoRuns
  <2> QED BY <1>1, <2>1, <2>2, SameReason
<1> QED BY <1>4, <1>7, <1>8, <1>9 DEF Inv

LEMMA CapturePayloadKeeps ==
    ASSUME Inv, NEW t \in Actor, CapturePayload(t)
    PROVE  Inv'
<1>1. /\ pc[t] = "payload"
      /\ pc' = [pc EXCEPT ![t] = "move"] \/ pc' = [pc EXCEPT ![t] = "unlock"]
      /\ UNCHANGED <<mode, up, snoopFd, snoopLock, len, failed, kept>>
  BY DEF CapturePayload, main, Goto
<1>2. snoop' = IF snoopFd THEN Append(snoop, Payload(t, len[t])) ELSE snoop
  BY DEF CapturePayload, SnoopWrite
<1>3. t \in Thread /\ snoopLock = t
  BY <1>1, WhoRuns DEF Inv, Mutex
<1>4. /\ pc' \in [Actor -> ThreadPlaces \cup MainPlaces] /\ Phases' /\ Mutex'
      /\ pc'[t] \in {"move", "unlock"} /\ \A u \in Actor \ {t} : pc'[u] = pc[u]
  BY <1>1, <1>3, WhoRuns, Moves, Names
<1>5. /\ Payload(t, len[t]) \in Item
      /\ Payload(t, len[t]).kind = "payload" /\ Payload(t, len[t]).by = t
  BY <1>3, Items, Names DEF Payload, Inv, Types
<1>6. snoop \in Seq(Item) /\ snoop' \in Seq(Item)
  BY <1>2, <1>5, AppendProperties DEF Inv, Types
<1>7. Types'
  BY <1>1, <1>4, <1>6 DEF Inv, Types
<1>8. Whole'
  <2>1. CASE ~snoopFd
    BY <1>2, <2>1 DEF Inv, Whole, Pending, Followed
  <2>2. CASE snoopFd
    <3> DEFINE f == Append(snoop, Payload(t, len[t]))
    <3>1. /\ Len(f) = Len(snoop) + 1 /\ Len(snoop) \in Nat
          /\ f[Len(snoop) + 1] = Payload(t, len[t])
          /\ \A i \in 1..Len(snoop) : f[i] = snoop[i]
      BY <1>5, <1>6, AppendProperties
    <3>2. snoop' = f
      BY <1>2, <2>2
    <3> HIDE DEF f
    <3>3. ASSUME NEW i \in 1..Len(f), f[i].kind = "record" PROVE Followed(f, i)
      <4>1. i \in 1..Len(snoop)
        BY <1>5, <3>1, <3>3
      <4>2. CASE Followed(snoop, i)
        <5>1. i + 1 \in 1..Len(snoop)
          BY <3>1, <4>1, <4>2 DEF Followed
        <5> QED BY <3>1, <4>1, <4>2, <5>1 DEF Followed
      <4>3. CASE Pending(i)
        BY <1>3, <1>5, <3>1, <4>1, <4>3 DEF Pending, Followed
      <4> QED BY <3>1, <3>3, <4>1, <4>2, <4>3 DEF Inv, Whole
    <3> QED BY <3>2, <3>3 DEF Whole
  <2> QED BY <2>1, <2>2
<1>9. Reason'
  <2>1. \A u \in Actor : pc[u] \in RollingPlaces => pc'[u] \in RollingPlaces
    BY <1>1, <1>4
  <2>2. up
    BY <1>1, <1>3, WhoRuns
  <2> QED BY <1>1, <2>1, <2>2, SameReason
<1> QED BY <1>4, <1>7, <1>8, <1>9 DEF Inv

-----------------------------------------------------------------------------
(* The steps of skw_btsnoop_capture that leave the file alone *)

LEMMA SnoopAcquireKeeps ==
    ASSUME Inv, NEW t \in Actor, SnoopAcquire(t)
    PROVE  Inv'
<1>1. /\ pc[t] = "capture" /\ snoopLock = NoThread /\ snoopLock' = t
      /\ pc' = [pc EXCEPT ![t] = "record"]
      /\ UNCHANGED <<mode, up, snoop, snoopFd, len, failed, kept>>
  BY DEF SnoopAcquire, main, snoops, Goto
<1>2. t \in Thread /\ up
  BY <1>1, WhoRuns
<1>3. /\ pc' \in [Actor -> ThreadPlaces \cup MainPlaces]
      /\ pc'[t] = "record" /\ \A u \in Actor \ {t} : pc'[u] = pc[u]
  <2>1. pc \in [Actor -> ThreadPlaces \cup MainPlaces]
    BY DEF Inv, Types
  <2>2. "record" \in ThreadPlaces \cup MainPlaces
    OBVIOUS
  <2> HIDE DEF ThreadPlaces, MainPlaces
  <2> QED BY <1>1, <2>1, <2>2
<1>4. \A u \in Thread : pc[u] \notin Holding
  BY <1>1, Names DEF Inv, Mutex
<1>5. Types'
  BY <1>1, <1>2, <1>3 DEF Inv, Types
<1>6. Phases'
  BY <1>1, <1>2, <1>3, Names DEF Inv, Phases
<1>7. Mutex'
  BY <1>1, <1>2, <1>3, <1>4, Names DEF Mutex
<1>8. Whole'
  BY <1>1, <1>4, NonePending DEF Whole, Followed
<1>9. Reason'
  <2>1. \A u \in Actor : pc[u] \in RollingPlaces => pc'[u] \in RollingPlaces
    BY <1>1, <1>3
  <2> QED BY <1>1, <1>2, <2>1, SameReason
<1> QED BY <1>5, <1>6, <1>7, <1>8, <1>9 DEF Inv

LEMMA CaptureEndKeeps ==
    ASSUME Inv, NEW t \in Actor, CaptureEnd(t)
    PROVE  Inv'
<1>1. /\ t # Main /\ pc[t] = "unlock" /\ snoopLock' = NoThread
      /\ pc' = [pc EXCEPT ![t] = "idle"] /\ len' = [len EXCEPT ![t] = 0]
      /\ UNCHANGED <<mode, up, snoop, snoopFd, failed, kept>>
  BY DEF CaptureEnd, main, snoops, Goto
<1>2. t \in Thread /\ up /\ snoopLock = t
  BY <1>1, WhoRuns DEF Inv, Mutex
<1>3. /\ pc' \in [Actor -> ThreadPlaces \cup MainPlaces]
      /\ pc'[t] = "idle" /\ \A u \in Actor \ {t} : pc'[u] = pc[u]
  <2>1. pc \in [Actor -> ThreadPlaces \cup MainPlaces]
    BY DEF Inv, Types
  <2>2. "idle" \in ThreadPlaces \cup MainPlaces
    OBVIOUS
  <2> HIDE DEF ThreadPlaces, MainPlaces
  <2> QED BY <1>1, <2>1, <2>2
<1>4. \A u \in Thread \ {t} : pc[u] \notin Holding
  BY <1>2 DEF Inv, Mutex
<1>5. Types'
  <2>1. len' \in [Actor -> Nat]
    BY <1>1 DEF Inv, Types
  <2> QED BY <1>1, <1>3, <2>1 DEF Inv, Types
<1>6. Phases'
  BY <1>1, <1>2, <1>3, Names DEF Inv, Phases
<1>7. Mutex'
  BY <1>1, <1>2, <1>3, <1>4, Names DEF Mutex
<1>8. Whole'
  BY <1>1, AloneWithFile, NonePending DEF Whole, Followed
<1>9. Reason'
  <2>1. \A u \in Actor : pc[u] \in RollingPlaces => pc'[u] \in RollingPlaces
    BY <1>1, <1>3
  <2> QED BY <1>1, <1>2, <2>1, SameReason
<1> QED BY <1>5, <1>6, <1>7, <1>8, <1>9 DEF Inv

\* The threads that begin: Capture and LogPacket.
LEMMA BeginKeeps ==
    ASSUME Inv, NEW t \in Thread, Capture(t) \/ LogPacket(t)
    PROVE  Inv'
<1>1. /\ up /\ pc[t] = "idle"
      /\ pc' = [pc EXCEPT ![t] = "capture"] \/ pc' = [pc EXCEPT ![t] = "log"]
      /\ UNCHANGED <<mode, up, snoop, snoopFd, snoopLock, failed, kept>>
  BY DEF Capture, LogPacket, main, snoops, Goto
<1>2. PICK n \in PktLens : len' = [len EXCEPT ![t] = n]
  BY DEF Capture, LogPacket
<1>3. /\ pc' \in [Actor -> ThreadPlaces \cup MainPlaces] /\ Phases' /\ Mutex'
      /\ pc'[t] \in {"capture", "log"} /\ \A u \in Actor \ {t} : pc'[u] = pc[u]
  BY <1>1, Moves, Names
<1>4. Types'
  <2>1. len' \in [Actor -> Nat]
    BY <1>2, BoundsAssumption DEF Inv, Types
  <2> QED BY <1>1, <1>3, <2>1 DEF Inv, Types
<1>5. Whole'
  BY <1>1, <1>3, Untouched, Names
<1>6. Reason'
  <2>1. \A u \in Actor : pc[u] \in RollingPlaces => pc'[u] \in RollingPlaces
    BY <1>1, <1>3
  <2> QED BY <1>1, <2>1, SameReason
<1> QED BY <1>3, <1>4, <1>5, <1>6 DEF Inv

-----------------------------------------------------------------------------
(* The steps on the log of the controller, and those of main *)

\* A roll-over of the controller log only adds to what failed.
LEMMA LogOpenFails ==
    ASSUME NEW new, NEW old, NEW rev, LogOpen(new, old, rev)
    PROVE  failed \subseteq failed'
BY DEF LogOpen

\* A step that leaves the btsnoop file alone: a thread stays inside, or outside, the part that
\* holds the lock, a roll-over goes on, and main gets to the file if there is to be one.
LEMMA LogKeeps ==
    ASSUME Inv, NEW t \in Actor, NEW l, pc[t] \notin {"idle", "payload"},
           pc' = [pc EXCEPT ![t] = l], len' \in [Actor -> Nat], failed \subseteq failed',
           UNCHANGED <<mode, up, snoop, snoopFd, snoopLock, kept>>,
           t \in Thread => l \in ThreadPlaces /\ (l \in Holding <=> pc[t] \in Holding),
           t = Main => l \in MainPlaces /\ (mode.snoop => l \in Preparing \cup RollingPlaces),
           pc[t] \in RollingPlaces => l \in RollingPlaces
    PROVE  Inv'
<1>1. /\ pc' \in [Actor -> ThreadPlaces \cup MainPlaces] /\ Phases' /\ Mutex'
      /\ pc'[t] = l /\ \A u \in Actor \ {t} : pc'[u] = pc[u]
  BY WhoRuns, Moves
<1>2. Types'
  BY <1>1 DEF Inv, Types
<1>3. Whole'
  BY <1>1, Untouched, Names
<1>4. Reason'
  <2>1. \A u \in Actor : pc[u] \in RollingPlaces => pc'[u] \in RollingPlaces
    BY <1>1
  <2>2. CASE t \in Thread
    BY <2>1, <2>2, WhoRuns, SameReason
  <2>3. CASE t = Main
    <3>1. ~up /\ ~up'
      BY <2>3, WhoRuns
    <3>2. mode.snoop => pc'[Main] \in Preparing \cup RollingPlaces
      BY <1>1, <2>3
    <3> HIDE DEF Preparing, RollingPlaces
    <3> QED BY <3>1, <3>2, Names DEF Reason
  <2> QED BY <2>2, <2>3
<1> QED BY <1>1, <1>2, <1>3, <1>4 DEF Inv

LEMMA LogAcquireKeeps ==
    ASSUME Inv, NEW t \in Actor, LogAcquire(t)
    PROVE  Inv'
<1> DEFINE l == Locked[pc[t]]
<1>1. /\ pc[t] \in {"log", "reopen", "stamp", "initstamp"} /\ pc' = [pc EXCEPT ![t] = l]
      /\ UNCHANGED <<mode, up, snoop, snoopFd, snoopLock, len, failed, kept>>
  BY DEF LogAcquire, Locked, main, snoops, Goto
<1>2. /\ pc[t] = "log" => l = "logwrite"
      /\ pc[t] = "reopen" => l = "reopening"
      /\ pc[t] = "stamp" => l = "stamping"
      /\ pc[t] = "initstamp" => l = "initstamping"
  BY DEF Locked
<1>3. len' \in [Actor -> Nat]
  BY <1>1 DEF Inv, Types
<1> HIDE DEF l
<1>4. t \in Thread => l \in ThreadPlaces /\ (l \in Holding <=> pc[t] \in Holding)
  BY <1>1, <1>2, WhoRuns
<1>5. t = Main => l \in MainPlaces /\ l \in Preparing \cup RollingPlaces
  BY <1>1, <1>2, WhoRuns
<1>6. pc[t] \in RollingPlaces => l \in RollingPlaces
  BY <1>1, <1>2
<1> QED BY <1>1, <1>3, <1>4, <1>5, <1>6, LogKeeps

LEMMA LogWriteKeeps ==
    ASSUME Inv, NEW t \in Actor, LogWrite(t)
    PROVE  Inv'
<1> DEFINE l == CASE pc[t] = "logwrite" -> "idle" [] pc[t] = "stamping" -> "open"
                  [] pc[t] = "initstamping" -> AfterLogInit
<1>1. /\ pc[t] \in {"logwrite", "stamping", "initstamping"} /\ pc' = [pc EXCEPT ![t] = l]
      /\ UNCHANGED <<mode, up, snoop, snoopFd, snoopLock, kept>>
  BY DEF LogWrite, main, snoops, Goto
<1>2. failed \subseteq failed'
  BY LogOpenFails DEF LogWrite
<1>3. len' \in [Actor -> Nat]
  <2>1. len' = len \/ len' = [len EXCEPT ![t] = 0]
    BY DEF LogWrite
  <2> QED BY <2>1 DEF Inv, Types
<1>4. /\ pc[t] = "logwrite" => l = "idle"
      /\ pc[t] = "stamping" => l = "open"
      /\ pc[t] = "initstamping" => l = AfterLogInit
  OBVIOUS
<1> HIDE DEF l
<1>5. AfterLogInit \in {"move", "unlock"} /\ (mode.snoop => AfterLogInit = "move")
  BY DEF AfterLogInit
<1>6. t \in Thread => l \in ThreadPlaces /\ (l \in Holding <=> pc[t] \in Holding)
  BY <1>1, <1>4, WhoRuns
<1>7. t = Main => l \in MainPlaces /\ (mode.snoop => l \in Preparing \cup RollingPlaces)
  BY <1>1, <1>4, <1>5, WhoRuns
<1>8. pc[t] \in RollingPlaces => l \in RollingPlaces
  BY <1>1, <1>4
<1> QED BY <1>1, <1>2, <1>3, <1>6, <1>7, <1>8, LogKeeps

LEMMA LogReopenKeeps ==
    ASSUME Inv, NEW t \in Actor, LogReopen(t)
    PROVE  Inv'
<1>1. PICK l \in {"stamp", "open"} :
        /\ pc[t] = "reopening" /\ pc' = [pc EXCEPT ![t] = l]
        /\ UNCHANGED <<mode, up, snoop, snoopFd, snoopLock, len, kept>>
  BY DEF LogReopen, main, snoops, Goto
<1>2. failed \subseteq failed'
  BY LogOpenFails DEF LogReopen
<1>3. len' \in [Actor -> Nat]
  BY <1>1 DEF Inv, Types
<1>4. /\ t \in Thread => l \in ThreadPlaces /\ (l \in Holding <=> pc[t] \in Holding)
      /\ t = Main => l \in MainPlaces /\ l \in Preparing \cup RollingPlaces
      /\ l \in RollingPlaces
  BY <1>1
<1> QED BY <1>1, <1>2, <1>3, <1>4, LogKeeps

LEMMA InitStartKeeps ==
    ASSUME Inv, InitStart
    PROVE  Inv'
<1>1. PICK l \in {"loginit", "move", "unlock"} :
        /\ pc' = [pc EXCEPT ![Main] = l] /\ (mode.snoop => l # "unlock")
        /\ ~up /\ UNCHANGED <<mode, up, snoop, snoopFd, snoopLock, len, failed, kept>>
  BY DEF InitStart, AfterLogInit, snoops, Goto
<1>2. l \in MainPlaces /\ (mode.snoop => l \in Preparing \cup RollingPlaces)
  BY <1>1
<1>3. /\ pc' \in [Actor -> ThreadPlaces \cup MainPlaces] /\ Phases' /\ Mutex'
      /\ pc'[Main] = l /\ \A u \in Actor \ {Main} : pc'[u] = pc[u]
  BY <1>1, <1>2, Names, Moves
<1>4. Types'
  BY <1>1, <1>3 DEF Inv, Types
<1>5. Whole'
  BY <1>1, <1>3, Untouched, Names
<1>6. Reason'
  <2>1. mode.snoop => pc'[Main] \in Preparing \cup RollingPlaces
    BY <1>2, <1>3
  <2> HIDE DEF Preparing, RollingPlaces
  <2> QED BY <1>1, <2>1, Names DEF Reason
<1> QED BY <1>3, <1>4, <1>5, <1>6 DEF Inv

LEMMA InitLogKeeps ==
    ASSUME Inv, InitLog
    PROVE  Inv'
<1>1. PICK l \in {"initstamp", "move", "unlock"} :
        /\ pc[Main] = "loginit" /\ pc' = [pc EXCEPT ![Main] = l] /\ (mode.snoop => l # "unlock")
        /\ UNCHANGED <<mode, up, snoop, snoopFd, snoopLock, len, kept>>
  BY DEF InitLog, AfterLogInit, main, snoops, Goto
<1>2. failed \subseteq failed'
  BY LogOpenFails DEF InitLog
<1>3. len' \in [Actor -> Nat]
  BY <1>1 DEF Inv, Types
<1>4. l \in MainPlaces /\ (mode.snoop => l \in Preparing \cup RollingPlaces)
  BY <1>1
<1>5. pc[Main] \notin {"idle", "payload"} /\ pc[Main] \notin RollingPlaces
  BY <1>1
<1> QED BY <1>1, <1>2, <1>3, <1>4, <1>5, Names, LogKeeps

LEMMA InitEndKeeps ==
    ASSUME Inv, InitEnd
    PROVE  Inv'
<1>1. /\ pc[Main] = "unlock" /\ up' = TRUE /\ pc' = [pc EXCEPT ![Main] = "idle"]
      /\ UNCHANGED <<mode, snoop, snoopFd, snoopLock, len, failed, kept>>
  BY DEF InitEnd, snoops, Goto
<1>2. /\ pc' \in [Actor -> ThreadPlaces \cup MainPlaces]
      /\ pc'[Main] = "idle" /\ \A u \in Actor \ {Main} : pc'[u] = pc[u]
  <2>1. pc \in [Actor -> ThreadPlaces \cup MainPlaces]
    BY DEF Inv, Types
  <2>2. "idle" \in ThreadPlaces \cup MainPlaces
    OBVIOUS
  <2> HIDE DEF ThreadPlaces, MainPlaces
  <2> QED BY <1>1, <2>1, <2>2, Names
<1>3. \A u \in Thread : pc[u] = "idle"
  BY <1>1 DEF Inv, Phases
<1>4. Types'
  BY <1>1, <1>2 DEF Inv, Types
<1>5. Phases'
  BY <1>1, <1>2, Names DEF Inv, Phases
<1>6. Mutex'
  BY <1>1, <1>2, Names DEF Inv, Mutex
<1>7. Whole'
  BY <1>1, <1>2, Untouched, Names
<1>8. Reason'
  <2>1. \A u \in Actor : pc[u] \notin RollingPlaces
    BY <1>1, <1>3
  <2> HIDE DEF RollingPlaces
  <2> QED BY <1>1, <2>1 DEF Inv, Reason
<1> QED BY <1>4, <1>5, <1>6, <1>7, <1>8 DEF Inv

LEMMA CleanupKeeps ==
    ASSUME Inv, Cleanup
    PROVE  Inv'
<1>1. /\ \A t \in Actor : pc[t] = "idle"
      /\ ~up' /\ ~snoopFd' /\ UNCHANGED <<mode, snoop, snoopLock, pc, len>>
  BY DEF Cleanup
<1>2. Types' /\ Phases' /\ Mutex'
  BY <1>1, Names DEF Inv, Types, Phases, Mutex
<1>3. Whole'
  BY <1>1, Names, NonePending DEF Whole, Followed
<1>4. Reason'
  BY <1>1, Names DEF Reason
<1> QED BY <1>2, <1>3, <1>4 DEF Inv

-----------------------------------------------------------------------------
(* What Total computes.  It is defined by recursion on the length; the inductions below take *)
(* the least number for which the claim fails.                                               *)

LEMMA LeastNumber ==
    ASSUME NEW T \in SUBSET Nat, T # {}
    PROVE  \E n \in T : \A m \in T : ~(m < n)
<1>1. PICK n \in T : \A m \in T : <<m, n>> \notin OpToRel(<, Nat)
  BY NatLessThanWellFounded, WFMin, Zenon
<1>2. \A m \in T : ~(m < n)
  BY <1>1, Zenon DEF OpToRel
<1> QED BY <1>2

\* f has the sums of the first numbers of ns.
Sums(f, ns, n) == f = [i \in 0..n |-> IF i = 0 THEN 0 ELSE f[i-1] + ns[i]]

LEMMA SumsAt ==
    ASSUME NEW ns, NEW n, NEW f, Sums(f, ns, n), NEW i \in 0..n
    PROVE  f[i] = IF i = 0 THEN 0 ELSE f[i-1] + ns[i]
<1> DEFINE e(j) == IF j = 0 THEN 0 ELSE f[j-1] + ns[j]
<1>1. f = [j \in 0..n |-> e(j)]
  BY DEF Sums
<1> HIDE DEF e
<1>2. f[i] = e(i)
  BY <1>1
<1> QED BY <1>2 DEF e

LEMMA SumsUnique ==
    ASSUME NEW ns, NEW n \in Nat, NEW f, NEW g, Sums(f, ns, n), Sums(g, ns, n)
    PROVE  f = g
<1> DEFINE T == {i \in 0..n : f[i] # g[i]}
<1>1. T = {}
  <2> SUFFICES ASSUME T # {} PROVE FALSE
    OBVIOUS
  <2>1. T \in SUBSET Nat
    OBVIOUS
  <2>2. PICK i \in T : \A m \in T : ~(m < i)
    <3> HIDE DEF T
    <3> QED BY <2>1, LeastNumber
  <2>3. i \in 0..n /\ f[i] # g[i]
    BY <2>2
  <2>4. /\ f[i] = IF i = 0 THEN 0 ELSE f[i-1] + ns[i]
        /\ g[i] = IF i = 0 THEN 0 ELSE g[i-1] + ns[i]
    BY <2>3, SumsAt
  <2>5. i # 0 => f[i-1] = g[i-1]
    <3>1. i # 0 => i - 1 \in 0..n /\ i - 1 < i
      BY <2>3
    <3> QED BY <2>2, <3>1
  <2> QED BY <2>3, <2>4, <2>5
<1>2. \A i \in 0..n : f[i] = g[i]
  BY <1>1
<1> QED BY <1>2 DEF Sums

LEMMA SumsExist ==
    ASSUME NEW ns, NEW n \in Nat
    PROVE  \E f : Sums(f, ns, n)
<1> DEFINE T == {m \in Nat : ~ \E f : Sums(f, ns, m)}
<1> SUFFICES ASSUME T # {} PROVE FALSE
  OBVIOUS
<1>1. PICK m \in T : \A k \in T : ~(k < m)
  BY LeastNumber
<1>2. m # 0
  <2>1. Sums([i \in 0..0 |-> 0], ns, 0)
    BY DEF Sums
  <2> QED BY <1>1, <2>1
<1>3. m \in Nat /\ m - 1 \in Nat /\ m - 1 < m
  BY <1>1, <1>2
<1>4. PICK f : Sums(f, ns, m - 1)
  BY <1>1, <1>3
<1> DEFINE e(i) == IF i = 0 THEN 0 ELSE f[i-1] + ns[i]
           g == [i \in 0..m |-> e(i)]
<1>5. \A i \in 0..m : g[i] = e(i)
  <2> HIDE DEF e
  <2> QED OBVIOUS
<1>6. \A i \in 0..(m-1) : g[i] = f[i]
  <2> SUFFICES ASSUME NEW i \in 0..(m-1) PROVE g[i] = f[i]
    OBVIOUS
  <2>1. f[i] = e(i)
    BY <1>3, <1>4, SumsAt
  <2>2. i \in 0..m
    BY <1>3
  <2> HIDE DEF e, g
  <2> QED BY <1>5, <2>1, <2>2
<1>7. Sums(g, ns, m)
  <2>1. g = [i \in 0..m |-> g[i]]
    OBVIOUS
  <2> HIDE DEF g
  <2>2. \A i \in 0..m : i # 0 => g[i-1] = f[i-1]
    <3>1. \A i \in 0..m : i # 0 => i - 1 \in 0..(m-1)
      BY <1>3
    <3> QED BY <1>6, <3>1
  <2>3. \A i \in 0..m : g[i] = IF i = 0 THEN 0 ELSE g[i-1] + ns[i]
    BY <1>5, <2>2
  <2> QED BY <2>1, <2>3 DEF Sums
<1> QED BY <1>1, <1>7

LEMMA TotalSums ==
    ASSUME NEW ns, Len(ns) \in Nat
    PROVE  \E f : Sums(f, ns, Len(ns)) /\ Total(ns) = f[Len(ns)]
<1>1. \E f : Sums(f, ns, Len(ns))
  BY SumsExist
<1>2. Sums(CHOOSE f : Sums(f, ns, Len(ns)), ns, Len(ns))
  BY <1>1, Zenon
<1>3. Total(ns) = (CHOOSE f : Sums(f, ns, Len(ns)))[Len(ns)]
  BY Zenon DEF Total, Sums
<1> QED BY <1>2, <1>3

LEMMA TotalNone ==
    ASSUME NEW ns, Len(ns) = 0
    PROVE  Total(ns) = 0
<1>1. PICK f : Sums(f, ns, Len(ns)) /\ Total(ns) = f[Len(ns)]
  BY TotalSums
<1>2. 0 \in 0..Len(ns)
  OBVIOUS
<1>3. f[0] = 0
  BY <1>1, <1>2, SumsAt
<1> QED BY <1>1, <1>3

\* A further number is added.
LEMMA TotalMore ==
    ASSUME NEW ns, NEW ms, NEW n \in Nat, Len(ns) = n, Len(ms) = n + 1,
           \A i \in 1..n : ms[i] = ns[i]
    PROVE  Total(ms) = Total(ns) + ms[n + 1]
<1>1. PICK f : Sums(f, ms, n + 1) /\ Total(ms) = f[n + 1]
  BY TotalSums
<1>2. PICK h : Sums(h, ns, n) /\ Total(ns) = h[n]
  BY TotalSums
<1> DEFINE g == [i \in 0..n |-> f[i]]
<1>3. \A i \in 0..n : g[i] = f[i]
  OBVIOUS
<1>4. g = [i \in 0..n |-> g[i]]
  OBVIOUS
<1> HIDE DEF g
<1>5. Sums(g, ns, n)
  <2>1. ASSUME NEW i \in 0..n PROVE g[i] = IF i = 0 THEN 0 ELSE g[i-1] + ns[i]
    <3>1. i \in 0..(n + 1) /\ (i # 0 => i - 1 \in 0..n /\ i \in 1..n)
      OBVIOUS
    <3>2. f[i] = IF i = 0 THEN 0 ELSE f[i-1] + ms[i]
      BY <1>1, <3>1, SumsAt
    <3> QED BY <1>3, <3>1, <3>2
  <2> QED BY <1>4, <2>1 DEF Sums
<1>6. g = h
  BY <1>2, <1>5, SumsUnique
<1>7. f[n + 1] = IF n + 1 = 0 THEN 0 ELSE f[(n + 1) - 1] + ms[n + 1]
  <2>1. n + 1 \in 0..(n + 1)
    OBVIOUS
  <2> QED BY <1>1, <2>1, SumsAt
<1>8. f[n] = h[n]
  BY <1>3, <1>6
<1>9. n + 1 # 0 /\ (n + 1) - 1 = n
  OBVIOUS
<1> QED BY <1>1, <1>2, <1>7, <1>8, <1>9

-----------------------------------------------------------------------------
(* The invariant of the sizes and of the controller log *)

\* Where the old file was moved away, or is to be continued, and the new one is not open yet.
AfterMove == {"reopen", "reopening", "stamp", "stamping", "open"}

\* The sizes of the btsnoop file: a packet in it has a header before it.
Sizes ==
    /\ Size(snoop) \in Nat /\ PayloadSize(snoop) \in Nat /\ snoopRev \in Nat
    /\ PayloadSize(snoop) = 0 \/ PayloadSize(snoop) < Size(snoop)
    /\ \A t \in Thread :
        /\ pc[t] \in {"capture", "record", "payload"} => len[t] \in PktLens
        /\ pc[t] = "payload" /\ snoopFd => PayloadSize(snoop) < Size(snoop)

\* A file that is written has room for a packet, and btsnoop_rev_length counts what it holds.
Room == PayloadSize(snoop) < Limit /\ PayloadSize(snoop) <= snoopRev

Bounded ==
    failed = {} =>
        /\ snoopFd /\ (\A t \in Actor : pc[t] # "move") => Room
        /\ \A t \in Actor : pc[t] \in AfterMove => Room
        /\ \A t \in Thread : pc[t] = "payload" /\ snoopFd => PayloadSize(snoop) + len[t] <= snoopRev
        /\ \A m \in PktLens : (\A n \in PktLens : n <= m) => PayloadSize(snoop) < Limit + m

\* Every header of a file stands behind at most k.
HeadersBelow(s, k) == \A i \in 1..Len(s) : s[i].kind = "header" => Size(SubSeq(s, 1, i - 1)) <= k

SnoopHeaded ==
    failed = {} =>
        /\ HeadersBelow(snoop, 1)
        /\ \A t \in Actor : pc[t] \in AfterMove /\ NewFile => Size(snoop) <= 1

LogHeaded ==
    /\ log \in Seq(Item) /\ Size(log) \in Nat
    /\ failed = {} => HeadersBelow(log, 2)

\* The controller log is there, or there is a reason.
Sliced == mode.save /\ mode.slice
LogThere == mode.cp => logFp \/ "open" \in failed \/ (Sliced /\ (kept \/ ~mode.snoop))

Reopening == {"move", "reopen", "reopening"}
BeforeLog == {"idle", "loginit"}

LogReason ==
    \/ LogThere
    \/ Sliced /\ \E t \in Actor : pc[t] \in Reopening
    \/ ~up /\ pc[Main] \in BeforeLog

FileInv == Sizes /\ Bounded /\ SnoopHeaded
LogInv == LogHeaded /\ LogReason

-----------------------------------------------------------------------------
(* The sizes of a file and the headers in it *)

LEMMA SizeAppend ==
    ASSUME NEW s \in Seq(Item), NEW e \in Item
    PROVE  /\ Size(Append(s, e)) = Size(s) + e.len
           /\ PayloadSize(Append(s, e)) = PayloadSize(s) + (IF e.kind = "payload" THEN e.len ELSE 0)
<1> DEFINE r == Append(s, e)
           n == Len(s)
           lens(f) == [i \in 1..Len(f) |-> f[i].len]
           pays(f) == [i \in 1..Len(f) |-> IF f[i].kind = "payload" THEN f[i].len ELSE 0]
<1>1. /\ n \in Nat /\ Len(r) = n + 1 /\ r[n + 1] = e
      /\ \A i \in 1..n : r[i] = s[i]
  BY AppendProperties
<1> HIDE DEF r, n
<1>2. n = Len(s)
  BY DEF n
<1>3. Len(lens(s)) = n /\ Len(lens(r)) = n + 1 /\ Len(pays(s)) = n /\ Len(pays(r)) = n + 1
  BY <1>1, <1>2
<1>4. n + 1 \in 1..(n + 1) /\ \A i \in 1..n : i \in 1..(n + 1)
  BY <1>1
<1>5. /\ \A i \in 1..n : lens(r)[i] = lens(s)[i]
      /\ lens(r)[n + 1] = e.len
  BY <1>1, <1>2, <1>4
<1>6. /\ \A i \in 1..n : pays(r)[i] = pays(s)[i]
      /\ pays(r)[n + 1] = IF e.kind = "payload" THEN e.len ELSE 0
  BY <1>1, <1>2, <1>4
<1>7. /\ Size(s) = Total(lens(s)) /\ Size(r) = Total(lens(r))
      /\ PayloadSize(s) = Total(pays(s)) /\ PayloadSize(r) = Total(pays(r))
  BY DEF Size, PayloadSize
<1> HIDE DEF lens, pays
<1>8. Total(lens(r)) = Total(lens(s)) + lens(r)[n + 1]
  BY <1>1, <1>3, <1>5, TotalMore
<1>9. Total(pays(r)) = Total(pays(s)) + pays(r)[n + 1]
  BY <1>1, <1>3, <1>6, TotalMore
<1> QED BY <1>5, <1>6, <1>7, <1>8, <1>9 DEF r

LEMMA EmptyFiles ==
    /\ Size(<<>>) = 0 /\ PayloadSize(<<>>) = 0
    /\ Size(NoFile) = 0 /\ PayloadSize(NoFile) = 0
<1> DEFINE none == [i \in 1..0 |-> 0]
<1>1. Len(none) = 0
  OBVIOUS
<1>2. /\ [i \in 1..Len(<<>>) |-> <<>>[i].len] = none
      /\ [i \in 1..Len(<<>>) |-> IF <<>>[i].kind = "payload" THEN <<>>[i].len ELSE 0] = none
  OBVIOUS
<1>3. Size(<<>>) = Total(none) /\ PayloadSize(<<>>) = Total(none)
  BY <1>2 DEF Size, PayloadSize
<1> HIDE DEF none
<1>4. Size(<<>>) = 0 /\ PayloadSize(<<>>) = 0
  BY <1>1, <1>3, TotalNone
<1> DEFINE e == [kind |-> "absent", len |-> 0]
<1>5. e \in Item /\ e.len = 0 /\ e.kind # "payload" /\ <<>> \in Seq(Item) /\ NoFile = Append(<<>>, e)
  BY DEF Item, NoFile
<1> HIDE DEF e
<1>6. Size(NoFile) = Size(<<>>) + 0 /\ PayloadSize(NoFile) = PayloadSize(<<>>) + 0
  BY <1>5, SizeAppend
<1> QED BY <1>4, <1>6

LEMMA HeadersAppend ==
    ASSUME NEW s \in Seq(Item), NEW e \in Item, NEW k \in Nat, HeadersBelow(s, k),
           e.kind = "header" => Size(s) <= k
    PROVE  HeadersBelow(Append(s, e), k)
<1> DEFINE r == Append(s, e)
<1>1. /\ Len(s) \in Nat /\ Len(r) = Len(s) + 1 /\ r[Len(s) + 1] = e
      /\ \A i \in 1..Len(s) : r[i] = s[i]
      /\ r \in Seq(Item)
  BY AppendProperties
<1> HIDE DEF r
<1>2. ASSUME NEW i \in 1..Len(r) PROVE SubSeq(r, 1, i - 1) = SubSeq(s, 1, i - 1)
  <2>1. i - 1 \in 0..Len(s) /\ i - 1 <= Len(r)
    BY <1>1
  <2>2. \A j \in 1..(i - 1) : j \in 1..Len(s)
    BY <1>1, <2>1
  <2> QED BY <1>1, <2>1, <2>2
<1>3. SubSeq(s, 1, Len(s)) = s
  BY SubSeqFull
<1>4. ASSUME NEW i \in 1..Len(r), r[i].kind = "header" PROVE Size(SubSeq(r, 1, i - 1)) <= k
  <2>1. CASE i = Len(s) + 1
    <3>1. i - 1 = Len(s)
      BY <1>1, <2>1
    <3> QED BY <1>1, <1>2, <1>3, <1>4, <2>1, <3>1
  <2>2. CASE i \in 1..Len(s)
    BY <1>1, <1>2, <1>4, <2>2 DEF HeadersBelow
  <2> QED BY <1>1, <2>1, <2>2
<1> QED BY <1>4 DEF HeadersBelow, r

LEMMA NoHeaders == \A k : HeadersBelow(<<>>, k) /\ HeadersBelow(NoFile, k)
BY DEF HeadersBelow, NoFile

\* The file that open finds or creates, and perhaps the header written to it.
LEMMA OpenedFile ==
    ASSUME NEW s \in Seq(Item), Size(s) \in Nat, NEW header \in BOOLEAN
    PROVE  LET f == Opened(s) \o (IF header THEN <<HEADER>> ELSE <<>>)
           IN  /\ f \in Seq(Item) /\ Size(f) \in Nat /\ Size(f) >= Size(s)
               /\ PayloadSize(s) \in Nat => PayloadSize(f) = PayloadSize(s)
               /\ \A k \in Nat : HeadersBelow(s, k) /\ (header => Size(s) <= k) => HeadersBelow(f, k)
<1> DEFINE g == Opened(s)
           f == g \o (IF header THEN <<HEADER>> ELSE <<>>)
<1>1. /\ g \in Seq(Item) /\ Size(g) = Size(s) /\ PayloadSize(g) = PayloadSize(s)
      /\ \A k \in Nat : HeadersBelow(s, k) => HeadersBelow(g, k)
  BY EmptyFiles, NoHeaders DEF Opened
<1>2. HEADER \in Item /\ HEADER.kind = "header" /\ HEADER.len = 1
  BY Items DEF HEADER
<1>3. f = IF header THEN Append(g, HEADER) ELSE g
  <2> HIDE DEF g
  <2> QED BY <1>1, <1>2
<1> HIDE DEF f, g
<1>4. CASE ~header
  BY <1>1, <1>3, <1>4 DEF f, g
<1>5. CASE header
  <2>1. /\ f = Append(g, HEADER) /\ Size(f) = Size(g) + 1
        /\ PayloadSize(f) = PayloadSize(g) + 0
    BY <1>1, <1>2, <1>3, <1>5, SizeAppend
  <2>2. f \in Seq(Item)
    BY <1>1, <1>2, <2>1, AppendProperties
  <2>3. \A k \in Nat : HeadersBelow(s, k) /\ Size(s) <= k => HeadersBelow(f, k)
    BY <1>1, <1>2, <2>1, HeadersAppend
  <2>4. Size(f) \in Nat /\ Size(f) >= Size(s) /\ (PayloadSize(s) \in Nat => PayloadSize(f) = PayloadSize(s))
    BY <1>1, <2>1
  <2> QED BY <1>5, <2>2, <2>3, <2>4 DEF f, g
<1> QED BY <1>4, <1>5

-----------------------------------------------------------------------------
(* The steps, and the sizes of the btsnoop file *)

\* Where one actor holds the lock, or main initialises, no other does.
LEMMA Alone ==
    ASSUME Inv, NEW t \in Actor, pc[t] \in Holding, NEW u \in Actor, u # t
    PROVE  pc[u] \notin Holding
<1> HIDE DEF Holding
<1>1. CASE t \in Thread /\ u \in Thread
  BY <1>1 DEF Inv, Mutex
<1>2. CASE t = Main \/ u = Main
  <2>1. "idle" \notin Holding
    BY DEF Holding
  <2> QED BY <1>2, <2>1, Names DEF Inv, Phases
<1> QED BY <1>1, <1>2 DEF Actor

\* A step that leaves the file alone.
LEMMA SameFile ==
    ASSUME Inv, FileInv, NEW t \in Actor, NEW l, pc' = [pc EXCEPT ![t] = l],
           UNCHANGED <<mode, snoop, snoopFd, snoopRev>>, failed \subseteq failed',
           pc[t] # "move", l # "payload", l \in AfterMove => pc[t] \in AfterMove,
           \A u \in Actor \ {t} : len'[u] = len[u],
           l \in {"capture", "record"} => len'[t] \in PktLens
    PROVE  FileInv'
<1>1. pc'[t] = l /\ \A u \in Actor \ {t} : pc'[u] = pc[u]
  BY DEF Inv, Types
<1> HIDE DEF AfterMove
<1>2. Sizes'
  BY <1>1, Names DEF FileInv, Sizes
<1>3. Bounded'
  <2>1. (\A u \in Actor : pc'[u] # "move") => \A u \in Actor : pc[u] # "move"
    BY <1>1
  <2>2. \A u \in Actor : pc'[u] \in AfterMove => pc[u] \in AfterMove
    BY <1>1
  <2>3. \A u \in Thread : pc'[u] = "payload" => pc[u] = "payload" /\ len'[u] = len[u]
    BY <1>1, Names
  <2>4. failed' = {} => failed = {}
    OBVIOUS
  <2>5. Room' <=> Room
    BY DEF Room
  <2> QED BY <2>1, <2>2, <2>3, <2>4, <2>5 DEF FileInv, Bounded
<1>4. SnoopHeaded'
  <2>1. \A u \in Actor : pc'[u] \in AfterMove => pc[u] \in AfterMove
    BY <1>1
  <2>2. NewFile' <=> NewFile
    BY DEF NewFile
  <2> QED BY <2>1, <2>2 DEF FileInv, SnoopHeaded, HeadersBelow
<1> QED BY <1>2, <1>3, <1>4 DEF FileInv

\* What skw_btsnoop_open leaves has room for a packet, and no more than a header if it is to
\* get one.
LEMMA MoveLeaves ==
    ASSUME Sizes, NEW t \in Actor, NEW renamed, NEW readable, NEW enoent,
           MoveBody(t, renamed, readable, enoent), mode' = mode
    PROVE  /\ snoopRev' \in Nat
           /\ failed' = {} => Room' /\ (NewFile' => Size(snoop') <= 1)
<1>1. /\ Size(snoop) \in Nat /\ PayloadSize(snoop) \in Nat
      /\ PayloadSize(snoop) = 0 \/ PayloadSize(snoop) < Size(snoop)
  BY DEF Sizes
<1>2. /\ snoop' = IF MovesAway(readable) /\ renamed THEN NoFile ELSE snoop
      /\ snoopRev' = SnoopRevAfter(Seen(readable), Big)
  BY DEF MoveBody
<1>3. snoopRev' = IF mode.save /\ mode.slice /\ Seen(readable) /\ ~Big THEN Size(snoop) ELSE 0
  BY <1>2 DEF SnoopRevAfter
<1>4. snoopRev' \in Nat
  BY <1>1, <1>3
<1>5. failed' = {} => (MovesAway(readable) => renamed) /\ readable
  BY DEF MoveBody, Note
<1>6. CASE snoop' = NoFile
  <2>1. PayloadSize(snoop') = 0 /\ Size(snoop') = 0
    BY <1>6, EmptyFiles
  <2> QED BY <1>4, <2>1, BoundsAssumption DEF Room
<1>7. CASE snoop' = snoop /\ snoop # NoFile /\ failed' = {}
  <2>1. Seen(readable) /\ ~MovesAway(readable)
    BY <1>2, <1>5, <1>7 DEF Seen
  <2>2. mode.save /\ IF mode.slice THEN ~(Size(snoop) > Limit) ELSE ~(Size(snoop) > 1)
    BY <2>1 DEF MovesAway, Big
  <2>3. CASE mode.slice
    <3>1. snoopRev' = Size(snoop) /\ Size(snoop) <= Limit
      BY <1>1, <1>3, <2>1, <2>2, <2>3, BoundsAssumption DEF Big
    <3>2. PayloadSize(snoop) < Limit /\ PayloadSize(snoop) <= snoopRev'
      BY <1>1, <3>1, BoundsAssumption
    <3>3. NewFile' => Size(snoop) <= 1
      BY <1>1, <2>2, <2>3, <3>1 DEF NewFile
    <3> QED BY <1>4, <1>7, <3>2, <3>3 DEF Room
  <2>4. CASE ~mode.slice
    <3>1. Size(snoop) <= 1 /\ PayloadSize(snoop) = 0
      BY <1>1, <2>2, <2>4
    <3> QED BY <1>4, <1>7, <3>1, BoundsAssumption DEF Room
  <2> QED BY <2>3, <2>4
<1> QED BY <1>2, <1>4, <1>6, <1>7

LEMMA SnoopMoveFile ==
    ASSUME Inv, FileInv, NEW t \in Actor, SnoopMove(t)
    PROVE  FileInv'
<1>1. pc[t] = "move" /\ ~snoopFd' /\ UNCHANGED <<mode, len>>
  BY DEF SnoopMove, main
<1>2. PICK renamed \in Ok("rename"), readable \in Ok("open"), enoent \in BOOLEAN :
        MoveBody(t, renamed, readable, enoent)
  BY SnoopMoveBody
<1>3. PICK l \in {"unlock", "reopen", "open"} : pc' = [pc EXCEPT ![t] = l]
  BY SnoopMoveFacts
<1>4. pc'[t] = l /\ \A u \in Actor \ {t} : pc'[u] = pc[u] /\ pc[u] \notin Holding
  BY <1>1, <1>3, Alone DEF Inv, Types
<1>5. (snoop' = snoop \/ snoop' = NoFile) /\ (failed' = {} => failed = {})
  BY SnoopMoveFacts
<1>6. snoopRev' \in Nat /\ (failed' = {} => Room' /\ (NewFile' => Size(snoop') <= 1))
  BY <1>1, <1>2, MoveLeaves DEF FileInv
<1>7. \A u \in Thread : /\ pc'[u] # "payload"
                        /\ pc'[u] \in {"capture", "record"} => pc[u] = pc'[u]
  BY <1>4, Names
<1>8. Sizes'
  <2>1. /\ Size(snoop') \in Nat /\ PayloadSize(snoop') \in Nat
        /\ PayloadSize(snoop') = 0 \/ PayloadSize(snoop') < Size(snoop')
    BY <1>5, EmptyFiles DEF FileInv, Sizes
  <2>2. \A u \in Thread : pc'[u] \in {"capture", "record", "payload"} => len'[u] \in PktLens
    BY <1>1, <1>7 DEF FileInv, Sizes
  <2> QED BY <1>6, <1>7, <2>1, <2>2 DEF Sizes
<1>9. Bounded'
  <2> SUFFICES ASSUME failed' = {}
               PROVE  /\ \A u \in Actor : pc'[u] \in AfterMove => Room'
                      /\ \A m \in PktLens : (\A n \in PktLens : n <= m) => PayloadSize(snoop') < Limit + m
    BY <1>1, <1>7 DEF Bounded
  <2>1. \A m \in PktLens : m \in Nat
    BY BoundsAssumption
  <2>2. PayloadSize(snoop') < Limit /\ PayloadSize(snoop') \in Nat
    BY <1>6, <1>8 DEF Room, Sizes
  <2> QED BY <1>6, <2>1, <2>2, BoundsAssumption
<1>10. SnoopHeaded'
  <2>1. failed' = {} => HeadersBelow(snoop', 1)
    BY <1>5, NoHeaders DEF FileInv, SnoopHeaded
  <2> QED BY <1>6, <2>1 DEF SnoopHeaded
<1> QED BY <1>8, <1>9, <1>10 DEF FileInv


LEMMA SnoopOpenFile ==
    ASSUME Inv, FileInv, NEW t \in Actor, SnoopOpen(t)
    PROVE  FileInv'
<1>1. /\ pc[t] = "open" /\ pc' = [pc EXCEPT ![t] = "unlock"]
      /\ UNCHANGED <<mode, snoopRev, len>>
  BY DEF SnoopOpen, main, Goto
<1>2. PICK opened \in Ok("open") :
        /\ snoopFd' = opened
        /\ snoop' = IF opened THEN Opened(snoop) \o (IF NewFile THEN <<HEADER>> ELSE <<>>)
                              ELSE snoop
        /\ failed' = failed \cup Note("open", opened)
  BY DEF SnoopOpen
<1>3. failed' = {} => failed = {}
  BY <1>2
<1>4. pc'[t] = "unlock" /\ \A u \in Actor \ {t} : pc'[u] = pc[u] /\ pc[u] \notin Holding
  BY <1>1, Alone DEF Inv, Types
<1>5. /\ Size(snoop) \in Nat /\ PayloadSize(snoop) \in Nat /\ snoopRev \in Nat
      /\ PayloadSize(snoop) = 0 \/ PayloadSize(snoop) < Size(snoop)
  BY DEF FileInv, Sizes
<1>6. /\ Size(snoop') \in Nat /\ Size(snoop') >= Size(snoop) /\ PayloadSize(snoop') = PayloadSize(snoop)
      /\ HeadersBelow(snoop, 1) /\ (NewFile => Size(snoop) <= 1) => HeadersBelow(snoop', 1)
  <2> DEFINE f == Opened(snoop) \o (IF NewFile THEN <<HEADER>> ELSE <<>>)
  <2>1. NewFile \in BOOLEAN /\ snoop \in Seq(Item)
    BY DEF NewFile, Inv, Types
  <2>2. /\ Size(f) \in Nat /\ Size(f) >= Size(snoop) /\ PayloadSize(f) = PayloadSize(snoop)
        /\ HeadersBelow(snoop, 1) /\ (NewFile => Size(snoop) <= 1) => HeadersBelow(f, 1)
    BY <1>5, <2>1, OpenedFile
  <2>3. snoop' = f \/ snoop' = snoop
    BY <1>2
  <2> HIDE DEF f
  <2> QED BY <1>5, <2>2, <2>3
<1>7. \A u \in Thread : pc'[u] # "payload" /\ (pc'[u] \in {"capture", "record"} => pc[u] = pc'[u])
  BY <1>4, Names
<1>8. \A u \in Actor : pc'[u] \notin AfterMove
  BY <1>4 DEF AfterMove
<1>9. Sizes'
  BY <1>1, <1>5, <1>6, <1>7 DEF FileInv, Sizes
<1>10. Bounded'
  <2>1. failed' = {} => Room
    BY <1>1, <1>3 DEF FileInv, Bounded, AfterMove
  <2>2. Room' <=> Room
    BY <1>1, <1>6 DEF Room
  <2> HIDE DEF AfterMove
  <2> QED BY <1>3, <1>6, <1>7, <1>8, <2>1, <2>2 DEF FileInv, Bounded
<1>11. SnoopHeaded'
  BY <1>1, <1>3, <1>6, <1>8 DEF FileInv, SnoopHeaded, AfterMove
<1> QED BY <1>9, <1>10, <1>11 DEF FileInv

LEMMA CaptureRecordFile ==
    ASSUME Inv, FileInv, NEW t \in Actor, CaptureRecord(t)
    PROVE  FileInv'
<1>1. /\ pc[t] = "record" /\ pc' = [pc EXCEPT ![t] = "payload"] /\ snoopRev' = snoopRev + len[t]
      /\ UNCHANGED <<mode, snoopFd, len, failed>>
  BY DEF CaptureRecord, main, Goto
<1>2. snoop' = IF snoopFd THEN Append(snoop, Record(t, 1)) ELSE snoop
  BY DEF CaptureRecord, SnoopWrite
<1>3. t \in Thread
  BY <1>1, WhoRuns
<1>4. pc'[t] = "payload" /\ \A u \in Actor \ {t} : pc'[u] = pc[u] /\ pc[u] \notin Holding
  BY <1>1, Alone DEF Inv, Types
<1>5. /\ Size(snoop) \in Nat /\ PayloadSize(snoop) \in Nat /\ snoopRev \in Nat
      /\ PayloadSize(snoop) = 0 \/ PayloadSize(snoop) < Size(snoop)
      /\ len[t] \in PktLens /\ len[t] \in Nat \ {0}
  BY <1>1, <1>3, BoundsAssumption DEF FileInv, Sizes
<1>6. Record(t, 1) \in Item /\ Record(t, 1).kind = "record" /\ Record(t, 1).len = 1
      /\ snoop \in Seq(Item)
  BY <1>3, Items DEF Record, Inv, Types
<1>7. /\ Size(snoop') \in Nat /\ PayloadSize(snoop') = PayloadSize(snoop)
      /\ PayloadSize(snoop) = 0 \/ PayloadSize(snoop') < Size(snoop')
      /\ snoopFd => PayloadSize(snoop') < Size(snoop')
      /\ HeadersBelow(snoop, 1) => HeadersBelow(snoop', 1)
  <2>1. CASE ~snoopFd
    BY <1>2, <1>5, <2>1
  <2>2. CASE snoopFd
    <3> DEFINE r == Append(snoop, Record(t, 1))
    <3>1. Size(r) = Size(snoop) + 1 /\ PayloadSize(r) = PayloadSize(snoop) + 0
      BY <1>6, SizeAppend
    <3>2. HeadersBelow(snoop, 1) => HeadersBelow(r, 1)
      BY <1>6, HeadersAppend
    <3>3. snoop' = r
      BY <1>2, <2>2
    <3> HIDE DEF r
    <3> QED BY <1>5, <3>1, <3>2, <3>3
  <2> QED BY <2>1, <2>2
<1>8. \A u \in Thread : pc'[u] = "payload" /\ u # t => FALSE
  BY <1>4, Names
<1>9. \A u \in Actor : pc'[u] \notin AfterMove \cup {"move"} /\ pc[u] # "move"
  BY <1>1, <1>4 DEF AfterMove
<1>10. Sizes'
  <2>1. snoopRev' \in Nat
    BY <1>1, <1>5
  <2>2. \A u \in Thread : pc'[u] \in {"capture", "record", "payload"} => len'[u] \in PktLens
    BY <1>1, <1>4, <1>5, <1>8, Names DEF FileInv, Sizes
  <2> QED BY <1>1, <1>5, <1>7, <1>8, <2>1, <2>2 DEF Sizes
<1>11. Bounded'
  <2>1. failed' = {} /\ snoopFd => Room /\ Room' /\ PayloadSize(snoop') + len[t] <= snoopRev'
    BY <1>1, <1>5, <1>7, <1>9, BoundsAssumption DEF FileInv, Bounded, Room
  <2> HIDE DEF AfterMove
  <2>2. failed' = {} => \A m \in PktLens : (\A n \in PktLens : n <= m) => PayloadSize(snoop') < Limit + m
    BY <1>1, <1>7 DEF FileInv, Bounded
  <2> QED BY <1>1, <1>8, <1>9, <2>1, <2>2 DEF Bounded
<1>12. SnoopHeaded'
  BY <1>1, <1>7, <1>9 DEF FileInv, SnoopHeaded
<1> QED BY <1>10, <1>11, <1>12 DEF FileInv

LEMMA CapturePayloadFile ==
    ASSUME Inv, FileInv, NEW t \in Actor, CapturePayload(t)
    PROVE  FileInv'
<1>1. /\ pc[t] = "payload" /\ pc' = [pc EXCEPT ![t] = IF snoopRev >= Limit THEN "move" ELSE "unlock"]
      /\ UNCHANGED <<mode, snoopFd, snoopRev, len, failed>>
  BY DEF CapturePayload, main, Goto
<1>2. snoop' = IF snoopFd THEN Append(snoop, Payload(t, len[t])) ELSE snoop
  BY DEF CapturePayload, SnoopWrite
<1>3. t \in Thread
  BY <1>1, WhoRuns
<1>4. /\ pc'[t] = IF snoopRev >= Limit THEN "move" ELSE "unlock"
      /\ \A u \in Actor \ {t} : pc'[u] = pc[u] /\ pc[u] \notin Holding
  BY <1>1, Alone DEF Inv, Types
<1>5. /\ Size(snoop) \in Nat /\ PayloadSize(snoop) \in Nat /\ snoopRev \in Nat
      /\ PayloadSize(snoop) = 0 \/ PayloadSize(snoop) < Size(snoop)
      /\ snoopFd => PayloadSize(snoop) < Size(snoop)
      /\ len[t] \in PktLens /\ len[t] \in Nat \ {0}
  BY <1>1, <1>3, BoundsAssumption DEF FileInv, Sizes
<1> DEFINE e == Payload(t, len[t])
<1>6. e \in Item /\ e.kind = "payload" /\ e.len = len[t] /\ snoop \in Seq(Item)
  BY <1>3, <1>5, Items DEF Payload, Inv, Types
<1> HIDE DEF e
<1>7. /\ Size(snoop') \in Nat /\ PayloadSize(snoop') \in Nat
      /\ PayloadSize(snoop') = PayloadSize(snoop) + (IF snoopFd THEN len[t] ELSE 0)
      /\ PayloadSize(snoop') = 0 \/ PayloadSize(snoop') < Size(snoop')
      /\ HeadersBelow(snoop, 1) => HeadersBelow(snoop', 1)
  <2>1. CASE ~snoopFd
    BY <1>2, <1>5, <2>1
  <2>2. CASE snoopFd
    <3> DEFINE r == Append(snoop, e)
    <3>1. Size(r) = Size(snoop) + len[t] /\ PayloadSize(r) = PayloadSize(snoop) + len[t]
      BY <1>6, SizeAppend
    <3>2. HeadersBelow(snoop, 1) => HeadersBelow(r, 1)
      BY <1>6, HeadersAppend
    <3>3. snoop' = r
      BY <1>2, <2>2 DEF e
    <3> HIDE DEF r
    <3> QED BY <1>5, <2>2, <3>1, <3>2, <3>3
  <2> QED BY <2>1, <2>2
<1>8. \A u \in Thread : pc'[u] # "payload" /\ (pc'[u] \in {"capture", "record"} => pc[u] = pc'[u])
  BY <1>4, Names
<1>9. \A u \in Actor : pc'[u] \notin AfterMove /\ pc[u] # "move"
  BY <1>1, <1>4 DEF AfterMove
<1>10. Sizes'
  BY <1>1, <1>5, <1>7, <1>8 DEF FileInv, Sizes
<1>11. Bounded'
  <2> SUFFICES ASSUME failed' = {}
               PROVE  /\ snoopFd /\ snoopRev < Limit => Room'
                      /\ \A m \in PktLens : (\A n \in PktLens : n <= m) => PayloadSize(snoop') < Limit + m
    <3>1. (\A u \in Actor : pc'[u] # "move") => snoopRev < Limit
      BY <1>4, <1>5, BoundsAssumption
    <3> HIDE DEF AfterMove
    <3> QED BY <1>1, <1>8, <1>9, <3>1 DEF Bounded
  <2>1. snoopFd => Room /\ PayloadSize(snoop) + len[t] <= snoopRev
    BY <1>1, <1>3, <1>9 DEF FileInv, Bounded
  <2>2. snoopFd /\ snoopRev < Limit => Room'
    BY <1>1, <1>5, <1>7, <2>1, BoundsAssumption DEF Room
  <2>3. ASSUME NEW m \in PktLens, \A n \in PktLens : n <= m PROVE PayloadSize(snoop') < Limit + m
    <3>1. CASE ~snoopFd
      BY <1>1, <1>5, <1>7, <2>3, <3>1 DEF FileInv, Bounded
    <3>2. CASE snoopFd
      <4>1. len[t] <= m /\ m \in Nat /\ PayloadSize(snoop) < Limit
        BY <1>5, <2>1, <2>3, <3>2, BoundsAssumption DEF Room
      <4> QED BY <1>5, <1>7, <3>2, <4>1, BoundsAssumption
    <3> QED BY <3>1, <3>2
  <2> QED BY <2>2, <2>3
<1>12. SnoopHeaded'
  BY <1>1, <1>7, <1>9 DEF FileInv, SnoopHeaded
<1> QED BY <1>10, <1>11, <1>12 DEF FileInv

\* The other steps leave the file alone.
LEMMA StepFile ==
    ASSUME Inv, FileInv, NEW t \in Actor, Step(t)
    PROVE  FileInv'
<1>1. CASE SnoopAcquire(t)
  <2>1. /\ pc[t] = "capture" /\ pc' = [pc EXCEPT ![t] = "record"]
        /\ UNCHANGED <<mode, snoop, snoopFd, snoopRev, len, failed>>
    BY <1>1 DEF SnoopAcquire, main, snoops, Goto
  <2>2. len'[t] \in PktLens
    <3>1. t \in Thread
      BY <2>1, WhoRuns
    <3> QED BY <2>1, <3>1 DEF FileInv, Sizes
  <2> QED BY <2>1, <2>2, SameFile DEF AfterMove
<1>2. CASE CaptureEnd(t)
  <2>1. /\ pc[t] = "unlock" /\ pc' = [pc EXCEPT ![t] = "idle"] /\ len' = [len EXCEPT ![t] = 0]
        /\ UNCHANGED <<mode, snoop, snoopFd, snoopRev, failed>>
    BY <1>2 DEF CaptureEnd, main, snoops, Goto
  <2>2. \A u \in Actor \ {t} : len'[u] = len[u]
    BY <2>1 DEF Inv, Types
  <2> QED BY <2>1, <2>2, SameFile DEF AfterMove
<1>3. CASE LogAcquire(t)
  <2> DEFINE l == Locked[pc[t]]
  <2>1. /\ pc[t] \in {"log", "reopen", "stamp", "initstamp"} /\ pc' = [pc EXCEPT ![t] = l]
        /\ UNCHANGED <<mode, snoop, snoopFd, snoopRev, len, failed>>
    BY <1>3 DEF LogAcquire, Locked, main, snoops, Goto
  <2>2. /\ pc[t] = "log" => l = "logwrite"
        /\ pc[t] = "reopen" => l = "reopening"
        /\ pc[t] = "stamp" => l = "stamping"
        /\ pc[t] = "initstamp" => l = "initstamping"
    BY DEF Locked
  <2> HIDE DEF l
  <2>3. l \notin {"payload", "capture", "record"} /\ (l \in AfterMove => pc[t] \in AfterMove)
    BY <2>1, <2>2 DEF AfterMove
  <2> QED BY <2>1, <2>3, SameFile
<1>4. CASE LogWrite(t)
  <2> DEFINE l == CASE pc[t] = "logwrite" -> "idle" [] pc[t] = "stamping" -> "open"
                    [] pc[t] = "initstamping" -> AfterLogInit
  <2>1. /\ pc[t] \in {"logwrite", "stamping", "initstamping"} /\ pc' = [pc EXCEPT ![t] = l]
        /\ UNCHANGED <<mode, snoop, snoopFd, snoopRev>>
    BY <1>4 DEF LogWrite, main, snoops, Goto
  <2>2. failed \subseteq failed'
    BY <1>4, LogOpenFails DEF LogWrite
  <2>3. \A u \in Actor \ {t} : len'[u] = len[u]
    <3>1. len' = len \/ len' = [len EXCEPT ![t] = 0]
      BY <1>4 DEF LogWrite
    <3> QED BY <3>1 DEF Inv, Types
  <2>4. /\ pc[t] = "logwrite" => l = "idle"
        /\ pc[t] = "stamping" => l = "open"
        /\ pc[t] = "initstamping" => l \in {"move", "unlock"}
    BY DEF AfterLogInit
  <2> HIDE DEF l
  <2>5. l \notin {"payload", "capture", "record"} /\ (l \in AfterMove => pc[t] \in AfterMove)
    BY <2>1, <2>4 DEF AfterMove
  <2> QED BY <2>1, <2>2, <2>3, <2>5, SameFile
<1>5. CASE LogReopen(t)
  <2>1. PICK l \in {"stamp", "open"} :
          /\ pc[t] = "reopening" /\ pc' = [pc EXCEPT ![t] = l]
          /\ UNCHANGED <<mode, snoop, snoopFd, snoopRev, len>>
    BY <1>5 DEF LogReopen, main, snoops, Goto
  <2>2. failed \subseteq failed'
    BY <1>5, LogOpenFails DEF LogReopen
  <2> QED BY <2>1, <2>2, SameFile DEF AfterMove
<1> QED BY <1>1, <1>2, <1>3, <1>4, <1>5, SnoopMoveFile, SnoopOpenFile, CaptureRecordFile, CapturePayloadFile
        DEF Step

LEMMA BeginFile ==
    ASSUME Inv, FileInv, NEW t \in Thread, Capture(t) \/ LogPacket(t)
    PROVE  FileInv'
<1>1. PICK l \in {"capture", "log"} :
        /\ pc[t] = "idle" /\ pc' = [pc EXCEPT ![t] = l]
        /\ UNCHANGED <<mode, snoop, snoopFd, snoopRev, failed>>
  BY DEF Capture, LogPacket, main, snoops, Goto
<1>2. PICK n \in PktLens : len' = [len EXCEPT ![t] = n]
  BY DEF Capture, LogPacket
<1>3. len'[t] = n /\ \A u \in Actor \ {t} : len'[u] = len[u]
  BY <1>2 DEF Inv, Types
<1> QED BY <1>1, <1>3, SameFile DEF AfterMove

LEMMA MainFile ==
    ASSUME Inv, FileInv, InitStart \/ InitLog \/ InitEnd
    PROVE  FileInv'
<1>1. PICK l \in {"loginit", "initstamp", "move", "unlock", "idle"} :
        /\ pc[Main] \in {"idle", "loginit", "unlock"} /\ pc' = [pc EXCEPT ![Main] = l]
        /\ UNCHANGED <<mode, snoop, snoopFd, snoopRev, len>>
  BY DEF InitStart, InitLog, InitEnd, AfterLogInit, main, snoops, Goto
<1>2. failed \subseteq failed'
  BY LogOpenFails DEF InitStart, InitLog, InitEnd
<1> QED BY <1>1, <1>2, SameFile DEF AfterMove

LEMMA NextFile == Inv /\ FileInv /\ [Next]_vars => FileInv'
<1> SUFFICES ASSUME Inv, FileInv, [Next]_vars PROVE FileInv'
  OBVIOUS
<1>1. CASE Cleanup
  <2>1. /\ ~snoopFd' /\ (\A t \in Actor : pc[t] = "idle")
        /\ UNCHANGED <<mode, snoop, snoopRev, pc, len, failed>>
    BY <1>1 DEF Cleanup
  <2>2. Sizes'
    BY <2>1 DEF FileInv, Sizes
  <2>3. Bounded'
    BY <2>1 DEF FileInv, Bounded, AfterMove
  <2>4. SnoopHeaded'
    BY <2>1 DEF FileInv, SnoopHeaded, HeadersBelow, AfterMove
  <2> QED BY <2>2, <2>3, <2>4 DEF FileInv
<1>2. CASE UNCHANGED vars
  <2>1. UNCHANGED <<mode, snoop, snoopFd, snoopRev, pc, len, failed>>
    BY <1>2 DEF vars, main, snoops
  <2>2. Sizes'
    BY <2>1 DEF FileInv, Sizes
  <2>3. Bounded'
    BY <2>1 DEF FileInv, Bounded, Room
  <2>4. SnoopHeaded'
    BY <2>1 DEF FileInv, SnoopHeaded, HeadersBelow, NewFile
  <2> QED BY <2>2, <2>3, <2>4 DEF FileInv
<1> QED BY <1>1, <1>2, StepFile, BeginFile, MainFile DEF Next

LEMMA InitFile == Init => FileInv
<1> SUFFICES ASSUME Init PROVE FileInv
  OBVIOUS
<1>1. /\ ~snoopFd /\ snoop = NoFile /\ snoopRev = 0 /\ failed = {}
      /\ \A t \in Actor : pc[t] = "idle"
  BY DEF Init
<1>2. Size(snoop) = 0 /\ PayloadSize(snoop) = 0
  BY <1>1, EmptyFiles
<1>3. Sizes
  BY <1>1, <1>2, Names DEF Sizes
<1>4. Bounded
  BY <1>1, <1>2, Names, BoundsAssumption DEF Bounded, AfterMove
<1>5. SnoopHeaded
  BY <1>1, NoHeaders DEF SnoopHeaded, AfterMove
<1> QED BY <1>3, <1>4, <1>5 DEF FileInv

-----------------------------------------------------------------------------
(* The steps, and the log of the controller *)

\* Its first header is written to an empty file, a second one behind no more than a header and
\* a time stamp.
LEMMA LogOpenFile ==
    ASSUME NEW new, NEW old \in Seq(Item), NEW rev, Size(old) \in Nat, LogOpen(new, old, rev)
    PROVE  /\ log' \in Seq(Item) /\ Size(log') \in Nat
           /\ failed' = {} => (HeadersBelow(old, 2) => HeadersBelow(log', 2))
           /\ logFp' \/ "open" \in failed'
           /\ failed \subseteq failed'
<1> DEFINE exists(readable) == old # NoFile /\ readable
           move(readable) == exists(readable) /\ IF mode.slice THEN new ELSE Size(old) > 2
           rest(renamed, readable) == IF move(readable) /\ renamed THEN NoFile ELSE old
           header(readable) == new \/ ~exists(readable) \/ Size(old) = 0
<1>1. PICK renamed \in Ok("rename"), readable \in Ok("open"), opened \in Ok("open") :
        /\ logFp' = opened
        /\ log' = IF opened THEN Opened(rest(renamed, readable))
                                 \o (IF header(readable) THEN <<HEADER>> ELSE <<>>)
                            ELSE rest(renamed, readable)
        /\ failed' = failed \cup Note("rename", ~move(readable) \/ renamed)
                            \cup Note("open", readable /\ opened)
  BY DEF LogOpen
<1> DEFINE r == rest(renamed, readable)
           h == header(readable)
           f == Opened(r) \o (IF h THEN <<HEADER>> ELSE <<>>)
<1>2. logFp' \/ "open" \in failed'
  BY <1>1 DEF Note
<1>3. failed' = {} => readable /\ (move(readable) => renamed)
  BY <1>1 DEF Note
<1>4. r = NoFile \/ r = old
  OBVIOUS
<1>5. r \in Seq(Item) /\ Size(r) \in Nat /\ (HeadersBelow(old, 2) => HeadersBelow(r, 2)) /\ h \in BOOLEAN
  BY <1>4, Items, EmptyFiles, NoHeaders
<1>6. failed' = {} /\ h => Size(r) <= 2
  <2> SUFFICES ASSUME failed' = {}, h, r = old, old # NoFile PROVE Size(old) <= 2
    BY <1>4, EmptyFiles
  <2>1. exists(readable) /\ ~move(readable) /\ (new \/ Size(old) = 0)
    BY <1>3
  <2> QED BY <2>1
<1>7. log' = f \/ log' = r
  BY <1>1
<1>8. failed \subseteq failed'
  BY <1>1
<1> HIDE DEF r, h
<1>9. /\ f \in Seq(Item) /\ Size(f) \in Nat
      /\ HeadersBelow(r, 2) /\ (h => Size(r) <= 2) => HeadersBelow(f, 2)
  BY <1>5, OpenedFile
<1> HIDE DEF f
<1> QED BY <1>2, <1>5, <1>6, <1>7, <1>8, <1>9

\* A step that leaves the log alone: it only ends a roll-over of the btsnoop file, or a session
\* that has not begun, if the log is there.
LEMMA SameLog ==
    ASSUME Inv, LogInv, NEW t \in Actor, NEW l, pc' = [pc EXCEPT ![t] = l],
           UNCHANGED <<mode, up, log, logFp>>, failed \subseteq failed', kept => kept',
           pc[t] \notin BeforeLog \/ t # Main,
           Sliced /\ pc[t] \in Reopening => l \in Reopening \/ kept'
    PROVE  LogInv'
<1>1. pc'[t] = l /\ \A u \in Actor \ {t} : pc'[u] = pc[u]
  BY DEF Inv, Types
<1>2. LogHeaded'
  BY DEF LogInv, LogHeaded, HeadersBelow
<1> HIDE DEF BeforeLog, Reopening
<1>3. LogReason'
  BY <1>1, Names DEF LogInv, LogReason, LogThere, Sliced
<1> QED BY <1>2, <1>3 DEF LogInv

\* After a step that opens the log.
LEMMA OpenedLog ==
    ASSUME LogInv, mode' = mode, log' \in Seq(Item), Size(log') \in Nat, failed \subseteq failed',
           failed' = {} /\ HeadersBelow(log, 2) => HeadersBelow(log', 2),
           mode.cp => logFp' \/ "open" \in failed'
    PROVE  LogInv'
BY DEF LogInv, LogHeaded, LogReason, LogThere

LEMMA LogWriteLog ==
    ASSUME Inv, LogInv, NEW t \in Actor, LogWrite(t)
    PROVE  LogInv'
<1> DEFINE stamp == pc[t] # "logwrite"
           n == IF stamp THEN 1 ELSE len[t]
           e == IF stamp THEN Stamp ELSE Payload(t, n)
           full == logRev + n >= Limit
           new == IF logFp THEN Append(log, e) ELSE log
           l == CASE pc[t] = "logwrite" -> "idle" [] pc[t] = "stamping" -> "open"
                  [] pc[t] = "initstamping" -> AfterLogInit
<1>1. /\ pc[t] \in {"logwrite", "stamping", "initstamping"} /\ pc' = [pc EXCEPT ![t] = l]
      /\ UNCHANGED <<mode, up, kept>>
      /\ full => LogOpen(TRUE, new, 0)
      /\ ~full => log' = new /\ UNCHANGED <<logFp, failed>>
  BY DEF LogWrite, main, Goto
<1>2. e \in Item /\ e.kind # "header" /\ e.len \in Nat
  <2>1. CASE stamp
    BY <2>1 DEF Stamp, Item
  <2>2. CASE ~stamp
    <3>1. t \in Thread /\ len[t] \in Nat
      BY <2>2, WhoRuns, Names DEF Inv, Types
    <3> QED BY <2>2, <3>1, Items DEF Payload
  <2> QED BY <2>1, <2>2
<1> HIDE DEF e, full
<1>3. log \in Seq(Item) /\ Size(log) \in Nat /\ (failed = {} => HeadersBelow(log, 2))
  BY DEF LogInv, LogHeaded
<1>4. new \in Seq(Item) /\ Size(new) \in Nat /\ (HeadersBelow(log, 2) => HeadersBelow(new, 2))
  <2> DEFINE a == Append(log, e)
  <2>1. Size(a) = Size(log) + e.len
    BY <1>2, <1>3, SizeAppend
  <2>2. HeadersBelow(log, 2) => HeadersBelow(a, 2)
    BY <1>2, <1>3, HeadersAppend
  <2>3. a \in Seq(Item)
    BY <1>2, <1>3, AppendProperties
  <2> HIDE DEF a
  <2>4. new = log \/ new = a
    BY DEF a
  <2>5. Size(a) \in Nat
    BY <1>2, <1>3, <2>1
  <2> HIDE DEF new
  <2> QED BY <1>3, <2>2, <2>3, <2>4, <2>5
<1> HIDE DEF new
<1>5. CASE full
  <2>1. LogOpen(TRUE, new, 0)
    BY <1>1, <1>5
  <2>2. /\ log' \in Seq(Item) /\ Size(log') \in Nat
        /\ failed' = {} => (HeadersBelow(new, 2) => HeadersBelow(log', 2))
        /\ logFp' \/ "open" \in failed'
        /\ failed \subseteq failed'
    BY <1>4, <2>1, LogOpenFile
  <2> QED BY <1>1, <1>4, <2>2, OpenedLog
<1>6. CASE ~full
  <2>1. log' = new /\ UNCHANGED <<mode, up, logFp, failed, kept>>
    BY <1>1, <1>6
  <2>2. LogHeaded'
    BY <1>3, <1>4, <2>1 DEF LogHeaded
  <2>3. pc'[t] = l /\ \A u \in Actor \ {t} : pc'[u] = pc[u]
    BY <1>1 DEF Inv, Types
  <2> HIDE DEF l
  <2>4. pc[t] \notin BeforeLog \cup Reopening
    BY <1>1 DEF BeforeLog, Reopening
  <2>5. LogReason'
    <3> HIDE DEF BeforeLog, Reopening
    <3>1. t = Main \/ up
      BY <1>1, WhoRuns
    <3> QED BY <2>1, <2>3, <2>4, <3>1, Names DEF LogInv, LogReason, LogThere, Sliced
  <2> QED BY <2>2, <2>5 DEF LogInv
<1> QED BY <1>5, <1>6

LEMMA LogReopenLog ==
    ASSUME Inv, LogInv, NEW t \in Actor, LogReopen(t)
    PROVE  LogInv'
<1>1. /\ mode' = mode
      /\ mode.cp => LogOpen(NewFile, log, 0)
      /\ ~mode.cp => UNCHANGED <<logFp, log, failed>>
  BY DEF LogReopen, main
<1>2. log \in Seq(Item) /\ Size(log) \in Nat
  BY DEF LogInv, LogHeaded
<1>3. CASE mode.cp
  BY <1>1, <1>2, <1>3, LogOpenFile, OpenedLog
<1>4. CASE ~mode.cp
  BY <1>1, <1>2, <1>4, OpenedLog
<1> QED BY <1>3, <1>4

\* The steps of an actor.
LEMMA StepLog ==
    ASSUME Inv, LogInv, NEW t \in Actor, Step(t)
    PROVE  LogInv'
<1>1. CASE SnoopMove(t)
  <2>1. /\ pc[t] = "move" /\ UNCHANGED <<mode, up, log, logFp>>
    BY <1>1 DEF SnoopMove, main, logs
  <2>2. PICK l \in {"unlock", "reopen", "open"} :
          /\ pc' = [pc EXCEPT ![t] = l] /\ (l = "unlock" => kept') /\ (l = "open" => ~Sliced)
    BY <1>1, SnoopMoveFacts DEF Sliced
  <2>3. failed \subseteq failed' /\ (kept => kept')
    BY <1>1, SnoopMoveFacts
  <2>4. Sliced => l \in Reopening \/ kept'
    BY <2>2 DEF Reopening
  <2> QED BY <2>1, <2>2, <2>3, <2>4, SameLog DEF BeforeLog
<1>2. CASE SnoopOpen(t)
  <2>1. /\ pc[t] = "open" /\ pc' = [pc EXCEPT ![t] = "unlock"] /\ failed \subseteq failed'
        /\ UNCHANGED <<mode, up, log, logFp, kept>>
    BY <1>2 DEF SnoopOpen, main, logs, Goto
  <2> QED BY <2>1, SameLog DEF BeforeLog, Reopening
<1>3. CASE SnoopAcquire(t) \/ CaptureRecord(t) \/ CapturePayload(t) \/ CaptureEnd(t)
  <2>1. PICK l \in {"record", "payload", "move", "unlock", "idle"} :
          /\ pc[t] \in {"capture", "record", "payload", "unlock"} /\ pc' = [pc EXCEPT ![t] = l]
          /\ UNCHANGED <<mode, up, log, logFp, failed, kept>>
    BY <1>3 DEF SnoopAcquire, CaptureRecord, CapturePayload, CaptureEnd, main, logs, Goto
  <2> QED BY <2>1, SameLog DEF BeforeLog, Reopening
<1>4. CASE LogAcquire(t)
  <2> DEFINE l == Locked[pc[t]]
  <2>1. /\ pc[t] \in {"log", "reopen", "stamp", "initstamp"} /\ pc' = [pc EXCEPT ![t] = l]
        /\ UNCHANGED <<mode, up, log, logFp, failed, kept>>
    BY <1>4 DEF LogAcquire, Locked, main, logs, Goto
  <2>2. pc[t] = "reopen" => l = "reopening"
    BY DEF Locked
  <2> HIDE DEF l
  <2>3. pc[t] \in Reopening => l \in Reopening
    BY <2>1, <2>2 DEF Reopening
  <2> QED BY <2>1, <2>3, SameLog DEF BeforeLog
<1> QED BY <1>1, <1>2, <1>3, <1>4, LogWriteLog, LogReopenLog DEF Step

LEMMA BeginLog ==
    ASSUME Inv, LogInv, NEW t \in Thread, Capture(t) \/ LogPacket(t)
    PROVE  LogInv'
<1>1. PICK l \in {"capture", "log"} :
        /\ pc[t] = "idle" /\ pc' = [pc EXCEPT ![t] = l]
        /\ UNCHANGED <<mode, up, log, logFp, failed, kept>>
  BY DEF Capture, LogPacket, main, logs, Goto
<1> QED BY <1>1, Names, SameLog DEF Reopening

\* init leaves a log that is sliced together with the btsnoop file to the roll-over, which comes
\* unless that file is switched off.
LEMMA InitStartLog ==
    ASSUME Inv, LogInv, InitStart
    PROVE  LogInv'
<1>1. /\ ~up /\ UNCHANGED <<mode, up, log, failed, kept>>
      /\ pc' = [pc EXCEPT ![Main] = IF LogAtInit THEN "loginit" ELSE AfterLogInit]
  BY DEF InitStart, Goto
<1>2. pc'[Main] = IF LogAtInit THEN "loginit" ELSE AfterLogInit
  BY <1>1, Names DEF Inv, Types
<1>3. LogHeaded'
  BY <1>1 DEF LogInv, LogHeaded, HeadersBelow
<1>4. CASE LogAtInit
  <2>1. pc'[Main] \in BeforeLog
    BY <1>2, <1>4 DEF BeforeLog
  <2> QED BY <1>1, <1>3, <2>1 DEF LogInv, LogReason
<1>5. CASE ~LogAtInit
  <2>1. mode.cp => Sliced
    BY <1>5 DEF LogAtInit, Sliced
  <2>2. mode.snoop => pc'[Main] \in Reopening
    BY <1>2, <1>5 DEF AfterLogInit, Reopening
  <2> QED BY <1>1, <1>3, <2>1, <2>2, Names DEF LogInv, LogReason, LogThere, Sliced
<1> QED BY <1>4, <1>5

LEMMA MainLog ==
    ASSUME Inv, LogInv, InitLog \/ InitEnd \/ Cleanup
    PROVE  LogInv'
<1>1. CASE InitLog
  <2>1. mode' = mode /\ LogOpen(TRUE, log, logRev)
    BY <1>1 DEF InitLog, main
  <2>2. log \in Seq(Item) /\ Size(log) \in Nat
    BY DEF LogInv, LogHeaded
  <2> QED BY <2>1, <2>2, LogOpenFile, OpenedLog
<1>2. CASE InitEnd
  <2>1. /\ pc[Main] = "unlock" /\ pc' = [pc EXCEPT ![Main] = "idle"]
        /\ UNCHANGED <<mode, log, logFp, failed, kept>>
    BY <1>2 DEF InitEnd, logs, Goto
  <2>2. \A u \in Actor \ {Main} : pc'[u] = pc[u]
    BY <2>1 DEF Inv, Types
  <2>3. LogHeaded'
    BY <2>1 DEF LogInv, LogHeaded, HeadersBelow
  <2>4. LogReason => LogThere \/ (Sliced /\ \E u \in Actor \ {Main} : pc[u] \in Reopening)
    BY <2>1 DEF LogReason, BeforeLog, Reopening
  <2>5. LogReason'
    <3> HIDE DEF Reopening
    <3> QED BY <2>1, <2>2, <2>4 DEF LogInv, LogReason, LogThere, Sliced
  <2> QED BY <2>3, <2>5 DEF LogInv
<1>3. CASE Cleanup
  <2>1. ~up' /\ pc'[Main] = "idle" /\ UNCHANGED <<log, failed>>
    BY <1>3, Names DEF Cleanup
  <2> QED BY <2>1 DEF LogInv, LogHeaded, HeadersBelow, LogReason, BeforeLog
<1> QED BY <1>1, <1>2, <1>3

LEMMA NextLog == Inv /\ LogInv /\ [Next]_vars => LogInv'
<1> SUFFICES ASSUME Inv, LogInv, [Next]_vars PROVE LogInv'
  OBVIOUS
<1>1. CASE UNCHANGED vars
  <2>1. UNCHANGED <<mode, up, log, logFp, pc, failed, kept>>
    BY <1>1 DEF vars, main, logs
  <2> QED BY <2>1 DEF LogInv, LogHeaded, HeadersBelow, LogReason, LogThere, Sliced
<1> QED BY <1>1, StepLog, BeginLog, InitStartLog, MainLog DEF Next

LEMMA InitLogInv == Init => LogInv
<1> SUFFICES ASSUME Init PROVE LogInv
  OBVIOUS
<1>1. ~up /\ log = NoFile /\ pc[Main] = "idle"
  BY Names DEF Init
<1>2. LogHeaded
  BY <1>1, Items, EmptyFiles, NoHeaders DEF LogHeaded
<1> QED BY <1>1, <1>2 DEF LogInv, LogReason, BeforeLog
-----------------------------------------------------------------------------
(* The two locks *)

\* Where an actor holds skwlog_lock.
LogHolding == {"logwrite", "reopening", "stamping", "initstamping"}

LogMutex ==
    /\ logLock \in Actor \cup {NoThread}
    /\ \A t \in Actor : pc[t] \in LogHolding <=> logLock = t

\* An actor that waits for a lock which another holds.
Waits(t) ==
    \/ pc[t] = "capture" /\ snoopLock # NoThread
    \/ pc[t] \in DOMAIN Locked /\ logLock # NoThread

\* Unless all are at rest, some actor waits for none: btsnoop_log_lock and skwlog_lock are never
\* wanted each by the holder of the other.
SomeoneRuns ==
    (\E t \in Actor : pc[t] # "idle") => \E t \in Actor : pc[t] # "idle" /\ ~Waits(t)

LEMMA NobodyActs == NoThread \notin Actor
BY ThreadAssumption DEF Main, NoThread

\* A step of one actor, which holds the lock afterwards exactly when it is at a place that says so.
LEMMA LockMoves ==
    ASSUME Inv, LogMutex, NEW t \in Actor, NEW l, pc' = [pc EXCEPT ![t] = l],
           \/ logLock' = logLock /\ (l \in LogHolding <=> pc[t] \in LogHolding)
           \/ logLock = NoThread /\ logLock' = t /\ l \in LogHolding
           \/ logLock = t /\ logLock' = NoThread /\ l \notin LogHolding
    PROVE  LogMutex'
<1>1. pc'[t] = l /\ \A u \in Actor \ {t} : pc'[u] = pc[u]
  BY DEF Inv, Types
<1>2. logLock' \in Actor \cup {NoThread}
  BY DEF LogMutex
<1> HIDE DEF LogHolding, Actor
<1>3. \A u \in Actor : pc'[u] \in LogHolding <=> logLock' = u
  BY <1>1, NobodyActs DEF LogMutex
<1> QED BY <1>2, <1>3 DEF LogMutex

LEMMA StepLocks ==
    ASSUME Inv, LogMutex, NEW t \in Actor, Step(t)
    PROVE  LogMutex'
<1>1. CASE SnoopMove(t)
  <2>1. pc[t] = "move" /\ logLock' = logLock
    BY <1>1 DEF SnoopMove
  <2>2. PICK l \in {"unlock", "reopen", "open"} : pc' = [pc EXCEPT ![t] = l]
    BY <1>1, SnoopMoveFacts
  <2> QED BY <2>1, <2>2, LockMoves DEF LogHolding
<1>2. CASE SnoopOpen(t) \/ SnoopAcquire(t) \/ CaptureRecord(t) \/ CapturePayload(t) \/ CaptureEnd(t)
  <2>1. PICK l \in {"unlock", "record", "payload", "move", "idle"} : pc' = [pc EXCEPT ![t] = l]
    BY <1>2 DEF SnoopOpen, SnoopAcquire, CaptureRecord, CapturePayload, CaptureEnd, Goto
  <2>2. pc[t] \in {"open", "capture", "record", "payload", "unlock"} /\ logLock' = logLock
    BY <1>2 DEF SnoopOpen, SnoopAcquire, CaptureRecord, CapturePayload, CaptureEnd
  <2> QED BY <2>1, <2>2, LockMoves DEF LogHolding
<1>3. CASE LogAcquire(t)
  <2> DEFINE l == Locked[pc[t]]
  <2>1. /\ pc[t] \in {"log", "reopen", "stamp", "initstamp"} /\ pc' = [pc EXCEPT ![t] = l]
        /\ logLock = NoThread /\ logLock' = t
    BY <1>3 DEF LogAcquire, Locked, Goto
  <2>2. l \in LogHolding
    BY <2>1 DEF Locked, LogHolding
  <2> HIDE DEF l
  <2> QED BY <2>1, <2>2, LockMoves
<1>4. CASE LogWrite(t)
  <2> DEFINE l == CASE pc[t] = "logwrite" -> "idle" [] pc[t] = "stamping" -> "open"
                    [] pc[t] = "initstamping" -> AfterLogInit
  <2>1. /\ pc[t] \in {"logwrite", "stamping", "initstamping"} /\ pc' = [pc EXCEPT ![t] = l]
        /\ logLock' = NoThread
    BY <1>4 DEF LogWrite, Goto
  <2>2. l \in {"idle", "open", "move", "unlock"}
    BY <2>1 DEF AfterLogInit
  <2> HIDE DEF l
  <2>3. logLock = t /\ l \notin LogHolding
    BY <2>1, <2>2 DEF LogMutex, LogHolding
  <2> QED BY <2>1, <2>3, LockMoves
<1>5. CASE LogReopen(t)
  <2>1. PICK l \in {"stamp", "open"} :
          pc[t] = "reopening" /\ pc' = [pc EXCEPT ![t] = l] /\ logLock' = NoThread
    BY <1>5 DEF LogReopen, Goto
  <2>2. logLock = t /\ l \notin LogHolding
    BY <2>1 DEF LogMutex, LogHolding
  <2> QED BY <2>1, <2>2, LockMoves
<1> QED BY <1>1, <1>2, <1>3, <1>4, <1>5 DEF Step

LEMMA NextLocks == Inv /\ LogMutex /\ [Next]_vars => LogMutex'
<1> SUFFICES ASSUME Inv, LogMutex, [Next]_vars PROVE LogMutex'
  OBVIOUS
<1>1. ASSUME NEW t \in Thread, Capture(t) \/ LogPacket(t) PROVE LogMutex'
  <2>1. PICK l \in {"capture", "log"} :
          pc[t] = "idle" /\ pc' = [pc EXCEPT ![t] = l] /\ logLock' = logLock
    BY <1>1 DEF Capture, LogPacket, Goto
  <2> QED BY <2>1, Names, LockMoves DEF LogHolding
<1>2. CASE InitStart \/ InitLog \/ InitEnd
  <2>1. PICK l \in {"loginit", "initstamp", "move", "unlock", "idle"} :
          /\ pc[Main] \in {"idle", "loginit", "unlock"} /\ pc' = [pc EXCEPT ![Main] = l]
          /\ logLock' = logLock
    BY <1>2 DEF InitStart, InitLog, InitEnd, AfterLogInit, Goto
  <2> QED BY <2>1, Names, LockMoves DEF LogHolding
<1>3. CASE Cleanup \/ UNCHANGED vars
  BY <1>3 DEF Cleanup, vars, LogMutex
<1> QED BY <1>1, <1>2, <1>3, StepLocks DEF Next

\* The holder of skwlog_lock waits for nothing; when it is free, neither does the holder of
\* btsnoop_log_lock.
LEMMA HoldersRun == Inv /\ LogMutex => SomeoneRuns
<1> SUFFICES ASSUME Inv, LogMutex, NEW t \in Actor, pc[t] # "idle"
             PROVE  \E u \in Actor : pc[u] # "idle" /\ ~Waits(u)
  BY DEF SomeoneRuns
<1>1. DOMAIN Locked = {"log", "reopen", "stamp", "initstamp"}
  BY DEF Locked
<1>2. CASE logLock # NoThread
  <2>1. logLock \in Actor /\ pc[logLock] \in LogHolding
    BY <1>2 DEF LogMutex
  <2>2. pc[logLock] # "idle" /\ ~Waits(logLock)
    BY <1>1, <2>1 DEF LogHolding, Waits
  <2> QED BY <2>1, <2>2
<1>3. CASE logLock = NoThread /\ snoopLock # NoThread
  <2>1. snoopLock \in Thread /\ pc[snoopLock] \in Holding
    BY <1>3 DEF Inv, Types, Mutex
  <2>2. pc[snoopLock] # "idle" /\ ~Waits(snoopLock)
    BY <1>3, <2>1 DEF Waits
  <2> QED BY <2>1, <2>2, Names
<1>4. CASE logLock = NoThread /\ snoopLock = NoThread
  BY <1>4 DEF Waits
<1> QED BY <1>2, <1>3, <1>4

-----------------------------------------------------------------------------
(* Theorems *)

LEMMA InitInv == Init => Inv
<1> SUFFICES ASSUME Init PROVE Inv
  OBVIOUS
<1>1. /\ ~up /\ snoop = NoFile /\ snoopLock = NoThread
      /\ pc = [t \in Actor |-> "idle"] /\ len = [t \in Actor |-> 0]
  BY DEF Init
<1>2. pc \in [Actor -> ThreadPlaces \cup MainPlaces] /\ \A t \in Actor : pc[t] = "idle"
  BY <1>1
<1>3. Types
  BY <1>1, <1>2, Items DEF Types
<1>4. Phases /\ Mutex
  BY <1>1, <1>2, Names DEF Phases, Mutex
<1>5. Whole
  BY <1>1 DEF Whole, NoFile
<1>6. Reason
  BY <1>1, <1>2, Names DEF Reason
<1> QED BY <1>3, <1>4, <1>5, <1>6 DEF Inv

LEMMA NextInv == Inv /\ [Next]_vars => Inv'
<1> SUFFICES ASSUME Inv, [Next]_vars PROVE Inv'
  OBVIOUS
<1>1. ASSUME NEW t \in Actor, Step(t) PROVE Inv'
  BY <1>1, SnoopMoveKeeps, SnoopOpenKeeps, SnoopAcquireKeeps, CaptureRecordKeeps,
     CapturePayloadKeeps, CaptureEndKeeps, LogAcquireKeeps, LogWriteKeeps, LogReopenKeeps
     DEF Step
<1>2. ASSUME NEW t \in Thread, Capture(t) \/ LogPacket(t) PROVE Inv'
  BY <1>2, BeginKeeps
<1>3. CASE InitStart \/ InitLog \/ InitEnd \/ Cleanup
  BY <1>3, InitStartKeeps, InitLogKeeps, InitEndKeeps, CleanupKeeps
<1>4. CASE UNCHANGED vars
  <2>1. UNCHANGED <<mode, up, snoop, snoopFd, snoopLock, pc, len, failed, kept>>
    BY <1>4 DEF vars, main, snoops
  <2>2. Types' /\ Phases' /\ Mutex'
    BY <2>1 DEF Inv, Types, Phases, Mutex
  <2>3. Whole'
    BY <2>1 DEF Inv, Whole, Followed, Pending
  <2>4. Reason'
    BY <2>1 DEF Inv, Reason
  <2> QED BY <2>2, <2>3, <2>4 DEF Inv
<1> QED BY <1>1, <1>2, <1>3, <1>4 DEF Next

LEMMA InvAlways == Spec => []Inv
BY InitInv, NextInv, PTL DEF Spec

\* skw_btsnoop_capture writes a packet in two pieces; whatever the other threads do, whenever
\* the file is rolled over and whatever fails, nothing comes between the two.
THEOREM SnoopRecordsWhole == Spec => []RecordsWhole
<1>1. Inv => RecordsWhole
  <2> SUFFICES ASSUME Inv, NEW i \in Kinds(snoop, "record")
               PROVE  \/ i = Len(snoop) /\ snoopLock = snoop[i].by /\ pc[snoop[i].by] = "payload"
                      \/ i + 1 \in Kinds(snoop, "payload") /\ snoop[i + 1].by = snoop[i].by
    BY DEF RecordsWhole
  <2>1. Len(snoop) \in Nat /\ i \in 1..Len(snoop) /\ snoop[i].kind = "record"
    BY DEF Inv, Types, Kinds
  <2>2. CASE Followed(snoop, i)
    BY <2>1, <2>2 DEF Followed, Kinds
  <2>3. CASE Pending(i)
    BY <2>3 DEF Pending
  <2> QED BY <2>1, <2>2, <2>3 DEF Inv, Whole
<1> QED BY <1>1, InvAlways, PTL

\* After skw_btsnoop_open the file is open, unless it could not be opened or a roll-over found
\* an older .last file; no capture and no later session closes it otherwise.
THEOREM SnoopStopHasReason == Spec => []SnoopStopExplained
<1>1. Inv => SnoopStopExplained
  BY DEF Inv, Reason, SnoopStopExplained, Rolling
<1> QED BY <1>1, InvAlways, PTL

LEMMA FilesAlways == Spec => [](FileInv /\ LogInv)
BY InvAlways, InitFile, NextFile, InitLogInv, NextLog, PTL DEF Spec

\* The packets of a session come on top of those the file was continued with, and several
\* captures may be under way: the file is rolled over before it exceeds the limit by a packet,
\* unless a file could not be renamed or read.
THEOREM SnoopFileBounded == Spec => []SnoopBounded
<1>1. FileInv => SnoopBounded
  BY DEF FileInv, Bounded, SnoopBounded
<1> QED BY <1>1, FilesAlways, PTL

\* Over any number of sessions and roll-overs, a file that is opened gets a second header at
\* most behind one header, a controller log behind a header and a time stamp.
THEOREM LogHeadersInFront == Spec => []HeadersInFront
<1>1. FileInv /\ LogInv => HeadersInFront
  BY DEF FileInv, SnoopHeaded, LogInv, LogHeaded, HeadersBelow, HeadersInFront, Kinds
<1> QED BY <1>1, FilesAlways, PTL

\* The controller log is opened by init, or later by the first roll-over of the btsnoop file;
\* no order of roll-overs and sessions loses it but for the reasons that are given.
THEOREM ControllerLogHasReason == Spec => []ControllerLogExplained
<1>1. Inv /\ LogInv => ControllerLogExplained
  BY DEF Inv, Phases, LogInv, LogReason, LogThere, Sliced, Reopening, ControllerLogExplained, Rolling
<1> QED BY <1>1, InvAlways, FilesAlways, PTL

\* A roll-over of the btsnoop log takes skwlog_lock while it holds btsnoop_log_lock, and threads that
\* log take each alone: however they come together, they do not all wait for one another.
THEOREM LogsNeverDeadlock == Spec => []SomeoneRuns
<1>1. Init => LogMutex
  BY NobodyActs DEF Init, LogMutex, LogHolding
<1> QED BY <1>1, InvAlways, NextLocks, HoldersRun, PTL DEF Spec
=============================================================================
