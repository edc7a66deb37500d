--------------------------- MODULE RecvScommProofs ---------------------------
(***************************************************************************)
(* Proofs about RecvScomm: for any streams, any number of ports and however   *)
(* read and write cut the bytes, the host gets whole packets.                 *)
(***************************************************************************)
EXTENDS RecvScomm, TLAPS, SequenceTheorems, WellFoundedInduction

-----------------------------------------------------------------------------
(* What FlattenSeq computes.  It is defined by recursion on the length; the inductions below *)
(* take the least number for which the claim fails.                                          *)

LEMMA LeastNumber ==
    ASSUME NEW T \in SUBSET Nat, T # {}
    PROVE  \E n \in T : \A m \in T : ~(m < n)
<1>1. PICK n \in T : \A m \in T : <<m, n>> \notin OpToRel(<, Nat)
  BY NatLessThanWellFounded, WFMin, Zenon
<1>2. \A m \in T : ~(m < n)
  BY <1>1, Zenon DEF OpToRel
<1> QED BY <1>2

\* f joins the first n parts of q, one more for each index.
Joins(f, q, n) == f = [i \in 1..n |-> IF i = 1 THEN q[i] ELSE f[i-1] \o q[i]]

LEMMA JoinsAt ==
    ASSUME NEW q, NEW n, NEW f, Joins(f, q, n), NEW i \in 1..n
    PROVE  f[i] = IF i = 1 THEN q[i] ELSE f[i-1] \o q[i]
<1> DEFINE e(j) == IF j = 1 THEN q[j] ELSE f[j-1] \o q[j]
<1>1. f = [j \in 1..n |-> e(j)]
  BY DEF Joins
<1> HIDE DEF e
<1>2. f[i] = e(i)
  BY <1>1
<1> QED BY <1>2 DEF e

LEMMA JoinsUnique ==
    ASSUME NEW q, NEW n \in Nat, NEW f, NEW g, Joins(f, q, n), Joins(g, q, n)
    PROVE  f = g
<1> DEFINE T == {i \in 1..n : f[i] # g[i]}
<1>1. T = {}
  <2> SUFFICES ASSUME T # {} PROVE FALSE
    OBVIOUS
  <2>a. T \in SUBSET Nat
    OBVIOUS
  <2>1. PICK i \in T : \A m \in T : ~(m < i)
    <3> HIDE DEF T
    <3> QED BY <2>a, LeastNumber
  <2>2. i \in 1..n /\ f[i] # g[i]
    BY <2>1
  <2>3. /\ f[i] = IF i = 1 THEN q[i] ELSE f[i-1] \o q[i]
        /\ g[i] = IF i = 1 THEN q[i] ELSE g[i-1] \o q[i]
    BY <2>2, JoinsAt
  <2>4. i # 1 => f[i-1] = g[i-1]
    <3>1. i # 1 => i - 1 \in 1..n /\ i - 1 < i
      BY <2>2
    <3> QED BY <2>1, <3>1
  <2> QED BY <2>2, <2>3, <2>4
<1>2. \A i \in 1..n : f[i] = g[i]
  BY <1>1
<1> QED BY <1>2 DEF Joins

LEMMA JoinsExists ==
    ASSUME NEW q, NEW n \in Nat
    PROVE  \E f : Joins(f, q, n)
<1> DEFINE T == {m \in Nat : ~ \E f : Joins(f, q, m)}
<1> SUFFICES T = {}
  OBVIOUS
<1> SUFFICES ASSUME T # {} PROVE FALSE
  OBVIOUS
<1>1. PICK m \in T : \A k \in T : ~(k < m)
  BY LeastNumber
<1>2. m # 0
  <2>1. Joins([i \in 1..0 |-> 0], q, 0)
    BY DEF Joins
  <2> QED BY <1>1, <2>1
<1>3. m \in Nat /\ m - 1 \in Nat /\ m - 1 < m
  BY <1>1, <1>2
<1>4. PICK f : Joins(f, q, m - 1)
  BY <1>1, <1>3
<1> DEFINE e(i) == IF i = 1 THEN q[i] ELSE f[i-1] \o q[i]
           g == [i \in 1..m |-> e(i)]
<1>5. \A i \in 1..(m-1) : g[i] = f[i]
  <2> SUFFICES ASSUME NEW i \in 1..(m-1) PROVE g[i] = f[i]
    OBVIOUS
  <2>1. f[i] = IF i = 1 THEN q[i] ELSE f[i-1] \o q[i]
    BY <1>3, <1>4, JoinsAt
  <2>2. i \in 1..m
    BY <1>3
  <2>3. g[i] = e(i)
    <3> HIDE DEF e
    <3> QED BY <2>2
  <2> QED BY <2>1, <2>3
<1>6. \A i \in 1..m : g[i] = e(i)
  <2> HIDE DEF e
  <2> QED OBVIOUS
<1>7. Joins(g, q, m)
  <2>1. g = [i \in 1..m |-> g[i]]
    OBVIOUS
  <2> HIDE DEF g
  <2>2. \A i \in 1..m : i # 1 => g[i-1] = f[i-1]
    <3>1. \A i \in 1..m : i # 1 => i - 1 \in 1..(m-1)
      BY <1>3
    <3> QED BY <1>5, <3>1
  <2>3. \A i \in 1..m : g[i] = IF i = 1 THEN q[i] ELSE g[i-1] \o q[i]
    BY <1>6, <2>2
  <2> QED BY <2>1, <2>3 DEF Joins
<1> QED BY <1>1, <1>7

LEMMA FlattenJoins ==
    ASSUME NEW q, Len(q) \in Nat \ {0}
    PROVE  \E f : Joins(f, q, Len(q)) /\ FlattenSeq(q) = f[Len(q)]
<1>1. \E f : Joins(f, q, Len(q))
  BY JoinsExists
<1>2. Joins(CHOOSE f : Joins(f, q, Len(q)), q, Len(q))
  BY <1>1, Zenon
<1>3. FlattenSeq(q) = (CHOOSE f : Joins(f, q, Len(q)))[Len(q)]
  BY Zenon DEF FlattenSeq, Joins
<1> QED BY <1>2, <1>3

\* A further part is joined at the end.
LEMMA FlattenAppend ==
    ASSUME NEW S, NEW q \in Seq(Seq(S)), NEW e \in Seq(S), FlattenSeq(q) \in Seq(S)
    PROVE  FlattenSeq(Append(q, e)) = FlattenSeq(q) \o e
<1> DEFINE r == Append(q, e)
           n == Len(q)
<1>1. /\ n \in Nat /\ Len(r) = n + 1 /\ r[n + 1] = e
      /\ \A i \in 1..n : r[i] = q[i]
  BY AppendProperties
<1> HIDE DEF r
<1>2. PICK f : Joins(f, r, n + 1) /\ FlattenSeq(r) = f[n + 1]
  BY <1>1, FlattenJoins
<1>3. f[n + 1] = IF n + 1 = 1 THEN r[n + 1] ELSE f[(n + 1) - 1] \o r[n + 1]
  <2>1. n + 1 \in 1..(n + 1)
    BY <1>1
  <2> HIDE DEF n
  <2> QED BY <1>2, <2>1, JoinsAt
<1>4. CASE n = 0
  <2>1. FlattenSeq(q) = <<>>
    <3>1. q = <<>>
      BY <1>4, EmptySeq
    <3> QED BY <1>4, <3>1, Zenon DEF FlattenSeq
  <2>2. <<>> \o e = e
    OBVIOUS
  <2>3. FlattenSeq(r) = e
    BY <1>1, <1>2, <1>3, <1>4
  <2> QED BY <2>1, <2>2, <2>3 DEF r
<1>5. CASE n # 0
  <2> DEFINE g == [i \in 1..n |-> f[i]]
  <2>1. Joins(g, q, n)
    <3>1. \A i \in 1..n : f[i] = IF i = 1 THEN r[i] ELSE f[i-1] \o r[i]
      <4> SUFFICES ASSUME NEW i \in 1..n PROVE f[i] = IF i = 1 THEN r[i] ELSE f[i-1] \o r[i]
        OBVIOUS
      <4>1. i \in 1..(n + 1)
        BY <1>1
      <4> HIDE DEF n
      <4> QED BY <1>2, <4>1, JoinsAt
    <3>2. \A i \in 1..n : i # 1 => i - 1 \in 1..n
      BY <1>1
    <3>3. \A i \in 1..n : g[i] = IF i = 1 THEN q[i] ELSE g[i-1] \o q[i]
      <4>1. \A i \in 1..n : g[i] = f[i]
        OBVIOUS
      <4> HIDE DEF g
      <4> QED BY <1>1, <3>1, <3>2, <4>1
    <3>4. g = [i \in 1..n |-> g[i]]
      OBVIOUS
    <3> HIDE DEF g
    <3> QED BY <3>3, <3>4 DEF Joins
  <2>2. n \in Nat \ {0}
    BY <1>1, <1>5
  <2>3. PICK h : Joins(h, q, n) /\ FlattenSeq(q) = h[n]
    BY <2>2, FlattenJoins
  <2>4. FlattenSeq(q) = f[n]
    <3>1. g = h
      <4> HIDE DEF n, g
      <4> QED BY <2>1, <2>2, <2>3, JoinsUnique
    <3>2. g[n] = f[n]
      BY <2>2
    <3> HIDE DEF g
    <3> QED BY <2>3, <3>1, <3>2
  <2>5. n + 1 # 1 /\ (n + 1) - 1 = n
    BY <2>2
  <2>6. FlattenSeq(r) = f[n] \o e
    BY <1>1, <1>2, <1>3, <2>5
  <2> QED BY <2>4, <2>6 DEF r
<1> QED BY <1>4, <1>5

\* One field of every record of a sequence of records.
LEMMA PktFields ==
    ASSUME NEW S, NEW T, NEW ds \in Seq([port : S, pkt : T])
    PROVE  [i \in 1..Len(ds) |-> ds[i].pkt] \in Seq(T)
<1> DEFINE e(i) == ds[i].pkt
<1>1. Len(ds) \in Nat
  OBVIOUS
<1>2. ASSUME NEW i \in 1..Len(ds) PROVE e(i) \in T
  <2> DEFINE R == [port : S, pkt : T]
  <2>1. ds \in Seq(R)
    OBVIOUS
  <2>2. R = [port : S, pkt : T]
    OBVIOUS
  <2> HIDE DEF R
  <2>3. ds[i] \in R
    BY <1>2, <2>1, ElementOfSeq
  <2> QED BY <2>2, <2>3
<1> HIDE DEF e
<1>3. [i \in 1..Len(ds) |-> e(i)] \in Seq(T)
  BY <1>1, <1>2
<1> QED BY <1>3 DEF e

\* The parts of the bytes of a stream: for each packet the noise before it and the packet.
Items(s) == [i \in 1..Len(s) |-> s[i].noise \o s[i].pkt]

LEMMA ItemFields ==
    ASSUME NEW s, IsStream(s)
    PROVE  /\ Len(s) \in Nat
           /\ \A i \in 1..Len(s) : s[i].noise \in Seq(Bytes) /\ s[i].pkt \in Seq(Bytes)
<1> DEFINE R == [noise : Seq(Bytes), pkt : Seq(Bytes)]
<1>1. s \in Seq(R) /\ Len(s) \in Nat
  BY DEF IsStream
<1> SUFFICES ASSUME NEW i \in 1..Len(s)
             PROVE  s[i].noise \in Seq(Bytes) /\ s[i].pkt \in Seq(Bytes)
  BY <1>1
<1>2. R = [noise : Seq(Bytes), pkt : Seq(Bytes)]
  OBVIOUS
<1> HIDE DEF R
<1>3. s[i] \in R
  BY <1>1, ElementOfSeq
<1> QED BY <1>2, <1>3

LEMMA ItemsType ==
    ASSUME NEW s, IsStream(s)
    PROVE  /\ Items(s) \in Seq(Seq(Bytes)) /\ Len(Items(s)) = Len(s)
           /\ \A i \in 1..Len(s) : Items(s)[i] = s[i].noise \o s[i].pkt
<1> DEFINE e(i) == s[i].noise \o s[i].pkt
<1>1. Len(s) \in Nat
  BY ItemFields
<1>2. \A i \in 1..Len(s) : e(i) \in Seq(Bytes)
  BY ItemFields, ConcatProperties
<1>3. Items(s) = [i \in 1..Len(s) |-> e(i)]
  BY DEF Items
<1> HIDE DEF e
<1>4. Items(s) \in Seq(Seq(Bytes)) /\ Len(Items(s)) = Len(s) /\ \A i \in 1..Len(s) : Items(s)[i] = e(i)
  BY <1>1, <1>2, <1>3
<1> QED BY <1>4 DEF e

\* A joined sequence has the elements of its parts.
LEMMA FlattenType ==
    ASSUME NEW S, NEW q \in Seq(Seq(S))
    PROVE  FlattenSeq(q) \in Seq(S)
<1>1. Len(q) \in Nat
  OBVIOUS
<1>2. CASE Len(q) = 0
  <2>1. q = <<>>
    BY <1>2, EmptySeq
  <2>2. FlattenSeq(q) = <<>>
    BY <1>2, <2>1, Zenon DEF FlattenSeq
  <2> QED BY <2>2
<1>3. CASE Len(q) # 0
  <2>1. PICK f : Joins(f, q, Len(q)) /\ FlattenSeq(q) = f[Len(q)]
    BY <1>1, <1>3, FlattenJoins
  <2> DEFINE T == {i \in 1..Len(q) : f[i] \notin Seq(S)}
  <2>2. T = {}
    <3> SUFFICES ASSUME T # {} PROVE FALSE
      OBVIOUS
    <3>1. T \in SUBSET Nat
      OBVIOUS
    <3>2. PICK i \in T : \A m \in T : ~(m < i)
      <4> HIDE DEF T
      <4> QED BY <3>1, LeastNumber
    <3>3. i \in 1..Len(q) /\ f[i] \notin Seq(S)
      BY <3>2
    <3>4. f[i] = IF i = 1 THEN q[i] ELSE f[i-1] \o q[i]
      BY <2>1, <3>3, JoinsAt
    <3>5. q[i] \in Seq(S)
      BY <3>3
    <3>6. i # 1 => f[i-1] \in Seq(S)
      <4>1. i # 1 => i - 1 \in 1..Len(q) /\ i - 1 < i
        BY <1>1, <3>3
      <4> QED BY <3>2, <4>1
    <3> QED BY <3>3, <3>4, <3>5, <3>6, ConcatProperties
  <2> QED BY <1>1, <1>3, <2>1, <2>2
<1> QED BY <1>2, <1>3

-----------------------------------------------------------------------------
(* The inductive invariant *)

Parts(ds) == [i \in 1..Len(ds) |-> ds[i].pkt]

Types ==
    /\ stream \in Streams
    /\ wire \in [Port -> Seq(Bytes)] /\ buf \in [Port -> Seq(Bytes)]
    /\ pc \in [Port -> {"poll", "parse", "lock", "write"}]
    /\ left \in [Port -> Int] /\ resynced \in [Port -> BOOLEAN]
    /\ lock \in Port \cup {NoPort}
    /\ host \in Seq(Bytes)
    /\ delivered \in Seq([port : Port, pkt : Seq(Bytes)])

\* A thread that sends has a whole packet, and the one that writes has the lock.
Sending ==
    \A p \in Port :
        /\ pc[p] \in {"lock", "write"} => Complete(buf[p])
        /\ pc[p] = "write" <=> lock = p
        /\ pc[p] = "write" => left[p] \in 0..PktLen(buf[p])

\* What the holder of the lock has written of its packet.
Written == IF lock = NoPort THEN <<>> ELSE SubSeq(buf[lock], 1, PktLen(buf[lock]) - left[lock])

HostWhole == host = FlattenSeq(Parts(delivered)) \o Written

Inv == Types /\ Sending /\ HostWhole /\ HeldBackExplained

LEMMA NoPortIsNone == NoPort \notin Port
BY PortAssumption DEF NoPort

LEMMA ByteNumbers == \A x, y \in 0..255 : x \in Nat /\ x + 256 * y \in Nat
OBVIOUS

\* The header of a whole packet is in the buffer, and the packet as well.
LEMMA CompleteLength ==
    ASSUME NEW b \in Seq(Bytes), Complete(b)
    PROVE  /\ PktLen(b) \in 0..Len(b)
           /\ SubSeq(b, 1, PktLen(b)) \in Seq(Bytes)
<1>1. b # <<>> /\ b[1] \in ParsedTypes /\ Len(b) >= HdrLens(b) /\ Len(b) >= PktLen(b) /\ Len(b) \in Nat
  BY DEF Complete
<1>2. \A i \in 1..Len(b) : b[i] \in 0..255
  <2>1. \A i \in 1..Len(b) : b[i] \in Bytes
    OBVIOUS
  <2> QED BY <2>1 DEF Bytes
<1>3. /\ b[1] \in {2, 5} => HdrLens(b) = 5
      /\ b[1] = 4 => HdrLens(b) = 3
      /\ b[1] \in {3, 7} => HdrLens(b) = 4
  <2>1. /\ hci_preamble_sizes[2] = 4 /\ hci_preamble_sizes[5] = 4 /\ hci_preamble_sizes[4] = 2
        /\ hci_preamble_sizes[3] = 3 /\ hci_preamble_sizes[7] = 3
    BY DEF hci_preamble_sizes, HCI_ACLDATA_PKT, HCI_SCODATA_PKT, HCI_EVENT_PKT, HCI_ISO_PKT,
           HCI_EVENT_SKWLOG, ParsedTypes
  <2> QED BY <2>1 DEF HdrLens
<1>4. b[1] \in {2, 3, 4, 5, 7}
  BY <1>1 DEF ParsedTypes, HCI_ACLDATA_PKT, HCI_SCODATA_PKT, HCI_EVENT_PKT, HCI_ISO_PKT, HCI_EVENT_SKWLOG
<1>5. PayloadLen(b) \in Nat /\ HdrLens(b) \in {3, 4, 5}
  <2>1. CASE b[1] \in {2, 5}
    <3>1. HdrLens(b) = 5 /\ Len(b) >= 5
      BY <1>1, <1>3, <2>1
    <3>2. b[4] \in 0..255 /\ b[5] \in 0..255
      BY <1>1, <1>2, <3>1
    <3>3. b[4] + 256 * b[5] \in Nat
      BY <3>2, ByteNumbers, Zenon
    <3>4. PayloadLen(b) = b[4] + 256 * b[5]
      BY <2>1 DEF PayloadLen, UInt16At, HCI_ACLDATA_PKT, HCI_ISO_PKT, HCI_EVENT_PKT, HCI_EVENT_SKWLOG
    <3>5. HdrLens(b) \in {3, 4, 5}
      BY <3>1
    <3> QED BY <3>3, <3>4, <3>5, Zenon
  <2>2. CASE b[1] = 4
    <3>1. HdrLens(b) = 3 /\ Len(b) >= 3
      BY <1>1, <1>3, <2>2
    <3>2. b[3] \in 0..255
      BY <1>1, <1>2, <3>1
    <3>3. b[3] \in Nat
      BY <3>2, ByteNumbers, Zenon
    <3>4. PayloadLen(b) = b[3]
      BY <2>2 DEF PayloadLen, UInt16At, HCI_ACLDATA_PKT, HCI_ISO_PKT, HCI_EVENT_PKT, HCI_EVENT_SKWLOG
    <3>5. HdrLens(b) \in {3, 4, 5}
      BY <3>1
    <3> QED BY <3>3, <3>4, <3>5, Zenon
  <2>3. CASE b[1] = 7
    <3>1. HdrLens(b) = 4 /\ Len(b) >= 4
      BY <1>1, <1>3, <2>3
    <3>2. b[3] \in 0..255 /\ b[4] \in 0..255
      BY <1>1, <1>2, <3>1
    <3>3. b[3] + 256 * b[4] \in Nat
      BY <3>2, ByteNumbers, Zenon
    <3>4. PayloadLen(b) = b[3] + 256 * b[4]
      BY <2>3 DEF PayloadLen, UInt16At, HCI_ACLDATA_PKT, HCI_ISO_PKT, HCI_EVENT_PKT, HCI_EVENT_SKWLOG
    <3>5. HdrLens(b) \in {3, 4, 5}
      BY <3>1
    <3> QED BY <3>3, <3>4, <3>5, Zenon
  <2>4. CASE b[1] = 3
    <3>1. HdrLens(b) = 4 /\ Len(b) >= 4
      BY <1>1, <1>3, <2>4
    <3>2. b[4] \in 0..255
      BY <1>1, <1>2, <3>1
    <3>3. b[4] \in Nat
      BY <3>2, ByteNumbers, Zenon
    <3>4. PayloadLen(b) = b[4]
      BY <2>4 DEF PayloadLen, UInt16At, HCI_ACLDATA_PKT, HCI_ISO_PKT, HCI_EVENT_PKT, HCI_EVENT_SKWLOG
    <3>5. HdrLens(b) \in {3, 4, 5}
      BY <3>1
    <3> QED BY <3>3, <3>4, <3>5, Zenon
  <2> QED BY <1>4, <2>1, <2>2, <2>3, <2>4
<1>6. PktLen(b) \in 0..Len(b)
  BY <1>1, <1>5 DEF PktLen
<1>7. SubSeq(b, 1, PktLen(b)) \in Seq(Bytes)
  BY <1>6, SubSeqProperties
<1> QED BY <1>6, <1>7

LEMMA DropType ==
    ASSUME NEW b \in Seq(Bytes), NEW n \in Nat
    PROVE  Drop(b, n) \in Seq(Bytes)
BY DEF Drop

-----------------------------------------------------------------------------
(* The steps of a thread that has not the lock *)

\* The thread moves bytes of its own.
LEMMA LocalKeeps ==
    ASSUME Inv, NEW p \in Port, pc[p] # "write",
           NEW l \in {"poll", "parse", "lock"}, pc' = [pc EXCEPT ![p] = l],
           NEW b \in Seq(Bytes), buf' = [buf EXCEPT ![p] = b],
           NEW r \in BOOLEAN, resynced' = [resynced EXCEPT ![p] = r],
           wire' \in [Port -> Seq(Bytes)],
           UNCHANGED <<stream, left, lock, host, delivered>>,
           l = "lock" => Complete(b), l = "poll" /\ Complete(b) => Len(b) < 4 \/ r
    PROVE  Inv'
<1>1. lock # p
  BY DEF Inv, Sending
<1>2. Types'
  BY DEF Inv, Types
<1>3. /\ pc'[p] = l /\ buf'[p] = b /\ resynced'[p] = r
      /\ \A q \in Port \ {p} : pc'[q] = pc[q] /\ buf'[q] = buf[q] /\ resynced'[q] = resynced[q]
  BY DEF Inv, Types
<1>4. Sending'
  <2> SUFFICES ASSUME NEW q \in Port
               PROVE  /\ pc'[q] \in {"lock", "write"} => Complete(buf'[q])
                      /\ pc'[q] = "write" <=> lock' = q
                      /\ pc'[q] = "write" => left'[q] \in 0..PktLen(buf'[q])
    BY DEF Sending, Complete, PktLen, PayloadLen, HdrLens, UInt16At
  <2>1. CASE q = p
    BY <1>1, <1>3, <2>1
  <2>2. CASE q # p
    BY <1>3, <2>2 DEF Inv, Sending
  <2> QED BY <2>1, <2>2
<1>5. HostWhole'
  <2>1. lock # NoPort => buf'[lock] = buf[lock]
    BY <1>1, <1>3 DEF Inv, Types
  <2>2. Written' = Written
    BY <2>1 DEF Written, PktLen, PayloadLen, HdrLens, UInt16At
  <2> QED BY <2>2 DEF Inv, HostWhole, Parts
<1>6. HeldBackExplained'
  <2> SUFFICES ASSUME NEW q \in Port
               PROVE  pc'[q] = "poll" /\ Complete(buf'[q]) => Len(buf'[q]) < 4 \/ resynced'[q]
    BY DEF HeldBackExplained, Complete, PktLen, PayloadLen, HdrLens, UInt16At
  <2>1. CASE q = p
    BY <1>3, <2>1
  <2>2. CASE q # p
    BY <1>3, <2>2 DEF Inv, HeldBackExplained
  <2> QED BY <2>1, <2>2
<1> QED BY <1>2, <1>4, <1>5, <1>6 DEF Inv

\* The buffer, and that an assignment of what is there changes nothing.
LEMMA Same ==
    ASSUME Inv, NEW p \in Port
    PROVE  /\ buf[p] \in Seq(Bytes) /\ buf = [buf EXCEPT ![p] = buf[p]]
           /\ resynced[p] \in BOOLEAN /\ resynced = [resynced EXCEPT ![p] = resynced[p]]
           /\ wire \in [Port -> Seq(Bytes)]
BY DEF Inv, Types

LEMMA MinOfTwo ==
    ASSUME NEW x \in Int, NEW y \in Int
    PROVE  Min({x, y}) \in {x, y} /\ Min({x, y}) <= x
<1>1. \E a \in {x, y} : \A b \in {x, y} : a <= b
  OBVIOUS
<1>2. Min({x, y}) \in {x, y} /\ \A b \in {x, y} : Min({x, y}) <= b
  BY <1>1, Zenon DEF Min
<1> QED BY <1>2

LEMMA ReadKeeps ==
    ASSUME Inv, NEW p \in Port, Read(p)
    PROVE  Inv'
<1>1. /\ pc[p] = "poll" /\ pc' = [pc EXCEPT ![p] = "parse"]
      /\ resynced' = [resynced EXCEPT ![p] = FALSE]
      /\ UNCHANGED <<stream, left, lock, host, delivered>>
  BY DEF Read
<1>2. PICK n \in Transfers(Min({Len(wire[p]), Room(p)})) :
        /\ buf' = [buf EXCEPT ![p] = @ \o SubSeq(wire[p], 1, n)]
        /\ wire' = [wire EXCEPT ![p] = Drop(@, n)]
  BY DEF Read
<1>3. n \in 0..Len(wire[p])
  <2>1. wire[p] \in Seq(Bytes) /\ Len(wire[p]) \in Nat
    BY DEF Inv, Types
  <2>2. Room(p) \in Int
    BY BufSizeAssumption, Same DEF Room
  <2>3. Room(p) > 0
    BY DEF Read
  <2> DEFINE m == Min({Len(wire[p]), Room(p)})
  <2>4. m \in {Len(wire[p]), Room(p)} /\ m <= Len(wire[p])
    <3>1. Len(wire[p]) \in Int
      BY <2>1
    <3> QED BY <2>2, <3>1, MinOfTwo, Zenon
  <2>5. n = m \/ (n \in Chunks /\ n < m)
    BY <1>2 DEF Transfers
  <2> HIDE DEF m
  <2>6. m \in Nat
    BY <2>1, <2>2, <2>3, <2>4
  <2>7. n \in Nat
    BY <2>5, <2>6, ChunksAssumption
  <2> QED BY <2>1, <2>4, <2>5, <2>6, <2>7
<1>4. SubSeq(wire[p], 1, n) \in Seq(Bytes) /\ Drop(wire[p], n) \in Seq(Bytes)
  <2>1. wire[p] \in Seq(Bytes) /\ Len(wire[p]) \in Nat
    BY Same
  <2>2. SubSeq(wire[p], 1, n) \in Seq(Bytes)
    BY <1>3, <2>1, SubSeqProperties
  <2>3. n \in Nat
    BY <1>3, <2>1
  <2> QED BY <2>1, <2>2, <2>3, DropType
<1>5. buf[p] \o SubSeq(wire[p], 1, n) \in Seq(Bytes)
  BY <1>4, Same, ConcatProperties
<1>6. wire' \in [Port -> Seq(Bytes)]
  BY <1>2, <1>4, Same
<1> QED BY <1>1, <1>2, <1>5, <1>6, LocalKeeps

LEMMA ParseMoreKeeps ==
    ASSUME Inv, NEW p \in Port, ParseMore(p)
    PROVE  Inv'
<1>1. /\ pc[p] = "parse" /\ ~Complete(buf[p]) /\ pc' = [pc EXCEPT ![p] = "poll"]
      /\ UNCHANGED <<stream, wire, buf, left, resynced, lock, host, delivered>>
  BY DEF ParseMore
<1> QED BY <1>1, Same, LocalKeeps

\* scomm_vendor_find_valid_type gives a number of bytes.
LEMMA ValidType ==
    ASSUME NEW b \in Seq(Bytes)
    PROVE  FindValidType(b) \in Nat
<1> DEFINE hits == {i \in 1..Len(b) : b[i] \in ResyncTypes}
<1>1. Len(b) \in Nat /\ hits \in SUBSET Nat /\ hits \subseteq 1..Len(b)
  OBVIOUS
<1>2. FindValidType(b) = IF hits = {} THEN Len(b) ELSE Min(hits) - 1
  BY DEF FindValidType
<1> HIDE DEF hits
<1>3. ASSUME hits # {} PROVE Min(hits) \in 1..Len(b)
  <2>1. PICK i \in hits : \A j \in hits : ~(j < i)
    BY <1>1, <1>3, LeastNumber
  <2>2. \A j \in hits : i <= j
    BY <1>1, <2>1
  <2>3. Min(hits) \in hits
    BY <2>2, Zenon DEF Min
  <2> QED BY <1>1, <2>3
<1>4. CASE hits = {}
  BY <1>1, <1>2, <1>4
<1>5. CASE hits # {}
  <2>1. Min(hits) \in 1..Len(b)
    BY <1>3, <1>5
  <2> QED BY <1>1, <1>2, <1>5, <2>1
<1> QED BY <1>4, <1>5

LEMMA ParseInvalidKeeps ==
    ASSUME Inv, NEW p \in Port, ParseInvalid(p)
    PROVE  Inv'
<1>1. /\ pc[p] = "parse" /\ pc' = [pc EXCEPT ![p] = "poll"]
      /\ buf' = [buf EXCEPT ![p] = Drop(buf[p], FindValidType(buf[p]))]
      /\ resynced' = [resynced EXCEPT ![p] = TRUE]
      /\ UNCHANGED <<stream, wire, left, lock, host, delivered>>
  BY DEF ParseInvalid
<1>2. Drop(buf[p], FindValidType(buf[p])) \in Seq(Bytes)
  BY Same, ValidType, DropType
<1> QED BY <1>1, <1>2, Same, LocalKeeps

\* A residue that waits has less than four bytes.
LEMMA ConsumeFacts ==
    ASSUME Inv, NEW p \in Port, Complete(buf[p]), Consume(p)
    PROVE  \E b \in Seq(Bytes), l \in {"poll", "parse"} :
              /\ buf' = [buf EXCEPT ![p] = b] /\ pc' = [pc EXCEPT ![p] = l]
              /\ l = "poll" => Len(b) < 4
<1> DEFINE rest == Drop(buf[p], PktLen(buf[p]))
<1>1. rest \in Seq(Bytes)
  BY Same, CompleteLength, DropType
<1>2. buf' = [buf EXCEPT ![p] = rest] /\ pc' = [pc EXCEPT ![p] = AfterPacket(rest)]
  BY DEF Consume
<1> HIDE DEF rest
<1>3. AfterPacket(rest) \in {"poll", "parse"} /\ (AfterPacket(rest) = "poll" => ~(Len(rest) >= 4))
  BY DEF AfterPacket
<1>4. AfterPacket(rest) = "poll" => Len(rest) < 4
  <2>1. Len(rest) \in Nat
    BY <1>1
  <2> QED BY <1>3, <2>1
<1> QED BY <1>1, <1>2, <1>3, <1>4

LEMMA ParseLogKeeps ==
    ASSUME Inv, NEW p \in Port, ParseLog(p)
    PROVE  Inv'
<1>1. /\ pc[p] = "parse" /\ Complete(buf[p]) /\ Consume(p)
      /\ UNCHANGED <<stream, wire, left, resynced, lock, host, delivered>>
  BY DEF ParseLog
<1>2. PICK b \in Seq(Bytes), l \in {"poll", "parse"} :
        /\ buf' = [buf EXCEPT ![p] = b] /\ pc' = [pc EXCEPT ![p] = l]
        /\ l = "poll" => Len(b) < 4
  BY <1>1, ConsumeFacts
<1> QED BY <1>1, <1>2, Same, LocalKeeps

LEMMA ParsePacketKeeps ==
    ASSUME Inv, NEW p \in Port, ParsePacket(p)
    PROVE  Inv'
<1>1. /\ pc[p] = "parse" /\ Complete(buf[p]) /\ pc' = [pc EXCEPT ![p] = "lock"]
      /\ UNCHANGED <<stream, wire, buf, left, resynced, lock, host, delivered>>
  BY DEF ParsePacket
<1> QED BY <1>1, Same, LocalKeeps

-----------------------------------------------------------------------------
(* The steps that take the lock, write and release it *)

\* The packets delivered so far.
LEMMA PartsType ==
    ASSUME Inv
    PROVE  /\ Parts(delivered) \in Seq(Seq(Bytes))
           /\ FlattenSeq(Parts(delivered)) \in Seq(Bytes)
<1>1. delivered \in Seq([port : Port, pkt : Seq(Bytes)])
  BY DEF Inv, Types
<1>2. Parts(delivered) \in Seq(Seq(Bytes))
  BY <1>1, PktFields DEF Parts
<1> QED BY <1>2, FlattenType

LEMMA AcquireKeeps ==
    ASSUME Inv, NEW p \in Port, Acquire(p)
    PROVE  Inv'
<1>1. /\ pc[p] = "lock" /\ lock = NoPort /\ lock' = p
      /\ left' = [left EXCEPT ![p] = PktLen(buf[p])] /\ pc' = [pc EXCEPT ![p] = "write"]
      /\ UNCHANGED <<stream, wire, buf, resynced, host, delivered>>
  BY DEF Acquire
<1>2. Complete(buf[p]) /\ buf[p] \in Seq(Bytes)
  BY <1>1, Same DEF Inv, Sending
<1>3. PktLen(buf[p]) \in 0..Len(buf[p]) /\ Len(buf[p]) \in Nat
  BY <1>2, CompleteLength
<1>4. Types'
  BY <1>1, <1>3 DEF Inv, Types
<1>5. /\ pc'[p] = "write" /\ left'[p] = PktLen(buf[p])
      /\ \A q \in Port \ {p} : pc'[q] = pc[q] /\ left'[q] = left[q]
  BY <1>1 DEF Inv, Types
<1>6. Sending'
  <2> SUFFICES ASSUME NEW q \in Port
               PROVE  /\ pc'[q] \in {"lock", "write"} => Complete(buf[q])
                      /\ pc'[q] = "write" <=> lock' = q
                      /\ pc'[q] = "write" => left'[q] \in 0..PktLen(buf[q])
    BY <1>1 DEF Sending
  <2>1. CASE q = p
    <3>1. left'[q] \in 0..PktLen(buf[q])
      BY <1>3, <1>5, <2>1
    <3> QED BY <1>1, <1>2, <1>5, <2>1, <3>1
  <2>2. CASE q # p
    <3>1. pc[q] # "write"
      BY <1>1, NoPortIsNone DEF Inv, Sending
    <3> QED BY <1>1, <1>5, <2>2, <3>1 DEF Inv, Sending
  <2> QED BY <2>1, <2>2
<1>7. HostWhole'
  <2>1. Written = <<>>
    BY <1>1 DEF Written
  <2>2. Written' = SubSeq(buf[p], 1, PktLen(buf[p]) - PktLen(buf[p]))
    BY <1>1, <1>5, NoPortIsNone DEF Written
  <2>3. PktLen(buf[p]) - PktLen(buf[p]) = 0
    BY <1>3
  <2>4. SubSeq(buf[p], 1, 0) = <<>>
    BY <1>2, SubSeqEmpty
  <2>5. Written' = Written
    BY <2>1, <2>2, <2>3, <2>4
  <2> QED BY <1>1, <2>5 DEF Inv, HostWhole
<1>8. HeldBackExplained'
  BY <1>1, <1>5 DEF Inv, HeldBackExplained
<1> QED BY <1>4, <1>6, <1>7, <1>8 DEF Inv

\* What is written is the next part of the packet of the holder of the lock.
LEMMA WriteKeeps ==
    ASSUME Inv, NEW p \in Port, Write(p)
    PROVE  Inv'
<1>1. /\ pc[p] = "write" /\ left[p] > 0
      /\ UNCHANGED <<stream, wire, buf, pc, resynced, lock, delivered>>
  BY DEF Write
<1> DEFINE b == buf[p]
           size == PktLen(buf[p])
           done == size - left[p]
<1>2. PICK n \in Transfers(left[p]) :
        /\ host' = host \o SubSeq(b, done + 1, done + n)
        /\ left' = [left EXCEPT ![p] = @ - n]
  BY DEF Write
<1>3. lock = p /\ Complete(b) /\ b \in Seq(Bytes) /\ left[p] \in 0..size
  BY <1>1, Same DEF Inv, Sending
<1>4. size \in 0..Len(b) /\ Len(b) \in Nat
  BY <1>3, CompleteLength
<1>5. left'[p] = left[p] - n /\ \A q \in Port \ {p} : left'[q] = left[q]
  BY <1>2 DEF Inv, Types
<1> HIDE DEF b, size
<1>6. n \in 1..left[p]
  BY <1>1, <1>2, <1>3, <1>4, ChunksAssumption DEF Transfers
<1>7. done \in 0..Len(b) /\ done + n \in done..Len(b) /\ size - (left[p] - n) = done + n
  BY <1>3, <1>4, <1>6
<1>8. left[p] - n \in 0..size
  BY <1>3, <1>4, <1>6
<1> HIDE DEF done
<1>9. SubSeq(b, 1, done) \o SubSeq(b, done + 1, done + n) = SubSeq(b, 1, done + n)
  <2>1. 1 \in 1..(Len(b) + 1) /\ done \in (1 - 1)..Len(b)
    BY <1>4, <1>7
  <2> QED BY <1>3, <1>7, <2>1, ConcatAdjacentSubSeq
<1>10. SubSeq(b, 1, done) \in Seq(Bytes) /\ SubSeq(b, done + 1, done + n) \in Seq(Bytes)
  <2>1. done + 1 \in 1..(Len(b) + 1) /\ done + n \in ((done + 1) - 1)..Len(b)
    BY <1>4, <1>7
  <2>2. 1 \in 1..(Len(b) + 1) /\ done \in (1 - 1)..Len(b)
    BY <1>4, <1>7
  <2> QED BY <1>3, <2>1, <2>2, SubSeqProperties
<1>11. HostWhole'
  <2>1. Written = SubSeq(b, 1, done)
    BY <1>3, NoPortIsNone DEF Written, b, done, size
  <2>2. Written' = SubSeq(b, 1, size - (left[p] - n))
    BY <1>1, <1>3, <1>5, NoPortIsNone DEF Written, b, size
  <2>3. Written' = SubSeq(b, 1, done) \o SubSeq(b, done + 1, done + n)
    BY <1>7, <1>9, <2>2
  <2>4. host = FlattenSeq(Parts(delivered)) \o SubSeq(b, 1, done)
    BY <2>1 DEF Inv, HostWhole
  <2>5. host' = FlattenSeq(Parts(delivered)) \o (SubSeq(b, 1, done) \o SubSeq(b, done + 1, done + n))
    <3> DEFINE A == FlattenSeq(Parts(delivered))
               B == SubSeq(b, 1, done)
               C == SubSeq(b, done + 1, done + n)
    <3>1. A \in Seq(Bytes) /\ B \in Seq(Bytes) /\ C \in Seq(Bytes)
      BY <1>10, PartsType
    <3>2. host' = (A \o B) \o C
      BY <1>2, <2>4
    <3> HIDE DEF A, B, C
    <3>3. (A \o B) \o C = A \o (B \o C)
      BY <3>1, ConcatAssociative
    <3> QED BY <3>2, <3>3 DEF A, B, C
  <2>6. Parts(delivered)' = Parts(delivered)
    BY <1>1 DEF Parts
  <2> QED BY <2>3, <2>5, <2>6 DEF HostWhole
<1>12. Types'
  <2>1. host' \in Seq(Bytes)
    BY <1>2, <1>10, ConcatProperties DEF Inv, Types
  <2>2. left' \in [Port -> Int]
    BY <1>2, <1>3, <1>4, <1>6 DEF Inv, Types
  <2> QED BY <1>1, <2>1, <2>2 DEF Inv, Types
<1>13. Sending'
  <2> SUFFICES ASSUME NEW q \in Port
               PROVE  /\ pc[q] \in {"lock", "write"} => Complete(buf[q])
                      /\ pc[q] = "write" <=> lock = q
                      /\ pc[q] = "write" => left'[q] \in 0..PktLen(buf[q])
    BY <1>1 DEF Sending
  <2>1. CASE q = p
    <3>1. left'[q] \in 0..PktLen(buf[q])
      BY <1>5, <1>8, <2>1 DEF size
    <3> QED BY <3>1 DEF Inv, Sending
  <2>2. CASE q # p
    BY <1>5, <2>2 DEF Inv, Sending
  <2> QED BY <2>1, <2>2
<1>14. HeldBackExplained'
  BY <1>1 DEF Inv, HeldBackExplained
<1> QED BY <1>11, <1>12, <1>13, <1>14 DEF Inv

\* When nothing is left of the packet it is one of those delivered.
LEMMA ReleaseKeeps ==
    ASSUME Inv, NEW p \in Port, Release(p)
    PROVE  Inv'
<1> DEFINE pkt == SubSeq(buf[p], 1, PktLen(buf[p]))
<1>1. /\ pc[p] = "write" /\ left[p] = 0 /\ lock' = NoPort
      /\ delivered' = Append(delivered, [port |-> p, pkt |-> pkt])
      /\ Consume(p) /\ UNCHANGED <<stream, wire, left, resynced, host>>
  BY DEF Release
<1>2. lock = p /\ Complete(buf[p]) /\ buf[p] \in Seq(Bytes)
  BY <1>1, Same DEF Inv, Sending
<1>3. PktLen(buf[p]) \in 0..Len(buf[p]) /\ Len(buf[p]) \in Nat /\ pkt \in Seq(Bytes)
  BY <1>2, CompleteLength
<1>4. PICK b \in Seq(Bytes), l \in {"poll", "parse"} :
        /\ buf' = [buf EXCEPT ![p] = b] /\ pc' = [pc EXCEPT ![p] = l]
        /\ l = "poll" => Len(b) < 4
  BY <1>1, <1>2, ConsumeFacts
<1>5. PktLen(buf[p]) - left[p] = PktLen(buf[p])
  BY <1>1, <1>3
<1> HIDE DEF pkt
<1>6. Types'
  <2>1. delivered' \in Seq([port : Port, pkt : Seq(Bytes)])
    BY <1>1, <1>3, AppendProperties DEF Inv, Types
  <2>2. buf' \in [Port -> Seq(Bytes)] /\ pc' \in [Port -> {"poll", "parse", "lock", "write"}]
    BY <1>4 DEF Inv, Types
  <2> QED BY <1>1, <2>1, <2>2 DEF Inv, Types
<1>7. /\ pc'[p] = l /\ buf'[p] = b
      /\ \A q \in Port \ {p} : pc'[q] = pc[q] /\ buf'[q] = buf[q]
  BY <1>4 DEF Inv, Types
<1>8. Sending'
  <2> SUFFICES ASSUME NEW q \in Port
               PROVE  /\ pc'[q] \in {"lock", "write"} => Complete(buf'[q])
                      /\ pc'[q] = "write" <=> lock' = q
                      /\ pc'[q] = "write" => left[q] \in 0..PktLen(buf'[q])
    BY <1>1 DEF Sending, Complete, PktLen, PayloadLen, HdrLens, UInt16At
  <2>1. CASE q = p
    BY <1>1, <1>7, <2>1, NoPortIsNone
  <2>2. CASE q # p
    <3>1. pc[q] # "write"
      BY <1>2, <2>2 DEF Inv, Sending
    <3> QED BY <1>1, <1>7, <2>2, <3>1, NoPortIsNone DEF Inv, Sending
  <2> QED BY <2>1, <2>2
<1>9. HostWhole'
  <2>1. Written = pkt
    BY <1>2, <1>5, NoPortIsNone DEF Written, pkt
  <2>2. Written' = <<>>
    BY <1>1 DEF Written
  <2>3. Parts(delivered)' = Append(Parts(delivered), pkt)
    BY <1>1, <1>3 DEF Parts, Inv, Types
  <2>4. FlattenSeq(Parts(delivered)') = FlattenSeq(Parts(delivered)) \o pkt
    BY <1>3, <2>3, PartsType, FlattenAppend
  <2>5. FlattenSeq(Parts(delivered)') \in Seq(Bytes)
    BY <1>3, <2>4, PartsType, ConcatProperties
  <2>6. FlattenSeq(Parts(delivered)') \o <<>> = FlattenSeq(Parts(delivered)')
    BY <2>5, ConcatEmptySeq
  <2>7. host' = FlattenSeq(Parts(delivered)) \o pkt
    BY <1>1, <2>1 DEF Inv, HostWhole
  <2> QED BY <2>2, <2>4, <2>6, <2>7 DEF HostWhole
<1>10. HeldBackExplained'
  <2> SUFFICES ASSUME NEW q \in Port
               PROVE  pc'[q] = "poll" /\ Complete(buf'[q]) => Len(buf'[q]) < 4 \/ resynced[q]
    BY <1>1 DEF HeldBackExplained, Complete, PktLen, PayloadLen, HdrLens, UInt16At
  <2>1. CASE q = p
    BY <1>4, <1>7, <2>1
  <2>2. CASE q # p
    BY <1>7, <2>2 DEF Inv, HeldBackExplained
  <2> QED BY <2>1, <2>2
<1> QED BY <1>6, <1>8, <1>9, <1>10 DEF Inv

-----------------------------------------------------------------------------
(* Theorems *)

LEMMA InitInv == Init => Inv
<1> SUFFICES ASSUME Init PROVE Inv
  OBVIOUS
<1>1. /\ stream \in Streams /\ wire = [p \in Port |-> BytesOf(stream[p])]
      /\ buf = [p \in Port |-> <<>>] /\ pc = [p \in Port |-> "poll"]
      /\ left = [p \in Port |-> 0] /\ resynced = [p \in Port |-> FALSE]
      /\ lock = NoPort /\ host = <<>> /\ delivered = <<>>
  BY DEF Init
<1>2. \A p \in Port : BytesOf(stream[p]) \in Seq(Bytes)
  <2> SUFFICES ASSUME NEW p \in Port PROVE BytesOf(stream[p]) \in Seq(Bytes)
    OBVIOUS
  <2>1. IsStream(stream[p])
    BY <1>1, StreamsAssumption
  <2>2. Items(stream[p]) \in Seq(Seq(Bytes))
    BY <2>1, ItemsType
  <2>3. BytesOf(stream[p]) = FlattenSeq(Items(stream[p]))
    BY DEF BytesOf, Items
  <2> QED BY <2>2, <2>3, FlattenType
<1>3. Types
  BY <1>1, <1>2 DEF Types
<1>4. Sending
  BY <1>1, NoPortIsNone DEF Sending
<1>5. HostWhole
  <2>1. Parts(delivered) = <<>> /\ Written = <<>>
    BY <1>1 DEF Parts, Written
  <2>2. Len(<<>>) = 0
    OBVIOUS
  <2>3. FlattenSeq(<<>>) = <<>>
    BY <2>2, Zenon DEF FlattenSeq
  <2> QED BY <1>1, <2>1, <2>3 DEF HostWhole
<1>6. HeldBackExplained
  BY <1>1 DEF HeldBackExplained, Complete
<1> QED BY <1>3, <1>4, <1>5, <1>6 DEF Inv

LEMMA NextInv == Inv /\ [Next]_vars => Inv'
<1> SUFFICES ASSUME Inv, [Next]_vars PROVE Inv'
  OBVIOUS
<1>1. ASSUME NEW p \in Port, Thread(p) PROVE Inv'
  BY <1>1, ReadKeeps, ParseMoreKeeps, ParseInvalidKeeps, ParseLogKeeps, ParsePacketKeeps,
     AcquireKeeps, WriteKeeps, ReleaseKeeps DEF Thread
<1>2. CASE UNCHANGED vars
  <2>1. Types' /\ Sending'
    BY <1>2 DEF vars, Inv, Types, Sending
  <2>2. HostWhole' /\ HeldBackExplained'
    BY <1>2 DEF vars, Inv, HostWhole, Written, Parts, HeldBackExplained
  <2> QED BY <2>1, <2>2 DEF Inv
<1> QED BY <1>1, <1>2 DEF Next

LEMMA InvAlways == Spec => []Inv
BY InitInv, NextInv, PTL DEF Spec

\* The threads of the ports write to one socket, each packet in as many writes as the socket
\* wants; under write2host_lock the host still gets whole packets one after the other.
THEOREM RecvHostSeesWholePackets == Spec => []HostSeesWholePackets
<1>1. Inv => HostSeesWholePackets
  BY DEF Inv, HostWhole, Written, Parts, HostSeesWholePackets
<1> QED BY <1>1, InvAlways, PTL

\* A whole packet stays in read_buffer only when it is a residue shorter than four bytes or
\* stands behind bytes that scomm_vendor_find_valid_type has just dropped.
THEOREM RecvHeldBack == Spec => []HeldBackExplained
BY InvAlways, PTL DEF Inv

-----------------------------------------------------------------------------
(* The parts of a joined sequence *)

\* The first k parts of q, joined.
Joined(q, k) == FlattenSeq(SubSeq(q, 1, k))

LEMMA JoinedNext ==
    ASSUME NEW S, NEW q \in Seq(Seq(S)), NEW k \in Nat, k < Len(q)
    PROVE  /\ q[k+1] \in Seq(S) /\ Joined(q, k) \in Seq(S)
           /\ Joined(q, k + 1) = Joined(q, k) \o q[k+1]
<1> DEFINE Q == Seq(S)
           c == SubSeq(q, 1, k)
<1>1. q \in Seq(Q) /\ Len(q) \in Nat
  OBVIOUS
<1> HIDE DEF Q
<1>2. q[k+1] \in Q /\ c \in Seq(Q) /\ Len(c) = k
  <2>1. k + 1 \in 1..Len(q) /\ 1 \in 1..(Len(q)+1) /\ k \in (1-1)..Len(q)
    BY <1>1
  <2>2. q[k+1] \in Q
    BY <1>1, <2>1, ElementOfSeq
  <2>3. c \in Seq(Q) /\ Len(c) = k
    BY <1>1, <2>1, SubSeqProperties
  <2> QED BY <2>2, <2>3
<1>3. SubSeq(q, 1, k + 1) = Append(c, q[k+1])
  BY <1>1, <1>2
<1> USE DEF Q
<1>4. FlattenSeq(c) \in Seq(S)
  BY <1>2, FlattenType
<1>5. FlattenSeq(Append(c, q[k+1])) = FlattenSeq(c) \o q[k+1]
  <2> HIDE DEF c
  <2> QED BY <1>2, <1>4, FlattenAppend
<1> QED BY <1>2, <1>3, <1>4, <1>5 DEF Joined

LEMMA JoinedEnds ==
    ASSUME NEW S, NEW q \in Seq(Seq(S))
    PROVE  Joined(q, 0) = <<>> /\ Joined(q, Len(q)) = FlattenSeq(q)
<1>1. SubSeq(q, 1, 0) = <<>> /\ SubSeq(q, 1, Len(q)) = q /\ Len(<<>>) = 0
  OBVIOUS
<1>2. FlattenSeq(<<>>) = <<>>
  BY <1>1, Zenon DEF FlattenSeq
<1> QED BY <1>1, <1>2 DEF Joined

\* One sequence begins with the other.
Begins(a, b) == Len(a) <= Len(b) /\ \A j \in 1..Len(a) : b[j] = a[j]

\* The first k parts stand in front of the first m parts.
LEMMA JoinedBegins ==
    ASSUME NEW S, NEW q \in Seq(Seq(S)), NEW k \in Nat, NEW m \in Nat, k <= m, m <= Len(q)
    PROVE  /\ Joined(q, k) \in Seq(S) /\ Joined(q, m) \in Seq(S)
           /\ Begins(Joined(q, k), Joined(q, m))
<1>0. \A i \in Nat : i <= Len(q) => Joined(q, i) \in Seq(S)
  <2> SUFFICES ASSUME NEW i \in Nat, i <= Len(q) PROVE Joined(q, i) \in Seq(S)
    OBVIOUS
  <2>1. CASE i < Len(q)
    BY <2>1, JoinedNext
  <2>2. CASE i = Len(q)
    BY <2>2, JoinedEnds, FlattenType
  <2> QED BY <2>1, <2>2
<1> DEFINE T == {i \in Nat : k <= i /\ i <= Len(q) /\ ~Begins(Joined(q, k), Joined(q, i))}
<1>1. T = {}
  <2> SUFFICES ASSUME T # {} PROVE FALSE
    OBVIOUS
  <2>1. PICK n \in T : \A i \in T : ~(i < n)
    BY LeastNumber
  <2>2. n \in Nat /\ k <= n /\ n <= Len(q) /\ ~Begins(Joined(q, k), Joined(q, n))
    BY <2>1
  <2>3. n # k
    <3>1. Begins(Joined(q, k), Joined(q, k))
      BY <1>0 DEF Begins
    <3> QED BY <2>2, <3>1
  <2>4. n - 1 \in Nat /\ k <= n - 1 /\ n - 1 < Len(q) /\ n - 1 < n /\ (n - 1) + 1 = n
    BY <2>2, <2>3
  <2>5. Begins(Joined(q, k), Joined(q, n - 1))
    BY <2>1, <2>4
  <2>6. q[n] \in Seq(S) /\ Joined(q, n) = Joined(q, n - 1) \o q[n]
    <3> DEFINE j == n - 1
    <3>1. j \in Nat /\ j < Len(q) /\ j + 1 = n
      BY <2>4
    <3> HIDE DEF j
    <3>2. q[j+1] \in Seq(S) /\ Joined(q, j + 1) = Joined(q, j) \o q[j+1]
      BY <3>1, JoinedNext
    <3> QED BY <3>1, <3>2 DEF j
  <2> DEFINE A == Joined(q, k)
             B == Joined(q, n - 1)
             C == q[n]
  <2>7. A \in Seq(S) /\ B \in Seq(S) /\ C \in Seq(S)
    BY <1>0, <2>2, <2>4, <2>6
  <2> HIDE DEF A, B, C
  <2>8. Begins(A, B) => Begins(A, B \o C)
    BY <2>7 DEF Begins
  <2> QED BY <2>2, <2>5, <2>6, <2>8 DEF A, B, C
<1>2. Begins(Joined(q, k), Joined(q, m))
  BY <1>1
<1>3. k <= Len(q)
  OBVIOUS
<1> HIDE DEF T
<1> QED BY <1>0, <1>2, <1>3

\* Where part k + 1 is in the joined sequence.
LEMMA PartPlace ==
    ASSUME NEW S, NEW q \in Seq(Seq(S)), NEW k \in Nat, k < Len(q)
    PROVE  LET t == FlattenSeq(q)
               n == Len(Joined(q, k))
           IN  /\ t \in Seq(S) /\ n \in Nat /\ q[k+1] \in Seq(S)
               /\ Len(Joined(q, k + 1)) = n + Len(q[k+1])
               /\ n + Len(q[k+1]) <= Len(t)
               /\ \A j \in 1..Len(q[k+1]) : t[n + j] = q[k+1][j]
<1> DEFINE t == FlattenSeq(q)
           A == Joined(q, k)
           B == Joined(q, k + 1)
           C == q[k+1]
<1>1. C \in Seq(S) /\ A \in Seq(S) /\ B = A \o C
  BY JoinedNext
<1>2. B \in Seq(S) /\ t \in Seq(S) /\ Begins(B, t)
  <2>1. Len(q) \in Nat /\ k + 1 \in Nat /\ k + 1 <= Len(q) /\ Len(q) <= Len(q)
    OBVIOUS
  <2>2. Joined(q, Len(q)) = t
    BY JoinedEnds
  <2> DEFINE n == k + 1
             m == Len(q)
  <2> HIDE DEF n, m, t
  <2>3. Joined(q, n) \in Seq(S) /\ Joined(q, m) \in Seq(S) /\ Begins(Joined(q, n), Joined(q, m))
    BY <2>1, JoinedBegins DEF n, m
  <2> QED BY <2>2, <2>3 DEF n, m
<1> HIDE DEF A, B, C, t
<1>3. Len(B) = Len(A) + Len(C) /\ Len(A) \in Nat /\ Len(C) \in Nat
      /\ \A j \in 1..Len(C) : B[Len(A) + j] = C[j]
  BY <1>1
<1>4. \A j \in 1..Len(C) : t[Len(A) + j] = C[j]
  <2> SUFFICES ASSUME NEW j \in 1..Len(C) PROVE t[Len(A) + j] = C[j]
    OBVIOUS
  <2>1. Len(A) + j \in 1..Len(B)
    BY <1>3
  <2> QED BY <1>2, <1>3, <2>1 DEF Begins
<1>5. Len(A) + Len(C) <= Len(t)
  BY <1>2, <1>3 DEF Begins
<1> QED BY <1>1, <1>2, <1>3, <1>4, <1>5 DEF A, B, C, t

-----------------------------------------------------------------------------
(* Packets *)

\* The header and the length field of a packet of each type.
LEMMA HeaderOf ==
    ASSUME NEW b
    PROVE  /\ b[1] = 4 => b[1] \in ParsedTypes /\ HdrLens(b) = 3 /\ PayloadLen(b) = b[3]
           /\ b[1] = 3 => b[1] \in ParsedTypes /\ HdrLens(b) = 4 /\ PayloadLen(b) = b[4]
           /\ b[1] = 7 => b[1] \in ParsedTypes /\ HdrLens(b) = 4 /\ PayloadLen(b) = b[3] + 256 * b[4]
           /\ b[1] \in {2, 5} =>
                b[1] \in ParsedTypes /\ HdrLens(b) = 5 /\ PayloadLen(b) = b[4] + 256 * b[5]
<1>1. /\ hci_preamble_sizes[2] = 4 /\ hci_preamble_sizes[5] = 4 /\ hci_preamble_sizes[4] = 2
      /\ hci_preamble_sizes[3] = 3 /\ hci_preamble_sizes[7] = 3
  BY DEF hci_preamble_sizes, HCI_ACLDATA_PKT, HCI_SCODATA_PKT, HCI_EVENT_PKT, HCI_ISO_PKT,
         HCI_EVENT_SKWLOG, ParsedTypes
<1>2. /\ b[1] = 4 => HdrLens(b) = 3
      /\ b[1] \in {3, 7} => HdrLens(b) = 4
      /\ b[1] \in {2, 5} => HdrLens(b) = 5
  BY <1>1 DEF HdrLens
<1>3. b[1] \in {2, 3, 4, 5, 7} => b[1] \in ParsedTypes
  BY DEF ParsedTypes, HCI_ACLDATA_PKT, HCI_SCODATA_PKT, HCI_EVENT_PKT, HCI_ISO_PKT, HCI_EVENT_SKWLOG
<1>4. CASE b[1] = 4
  BY <1>2, <1>3, <1>4
     DEF PayloadLen, UInt16At, HCI_ACLDATA_PKT, HCI_ISO_PKT, HCI_EVENT_PKT, HCI_EVENT_SKWLOG
<1>5. CASE b[1] = 3
  BY <1>2, <1>3, <1>5
     DEF PayloadLen, UInt16At, HCI_ACLDATA_PKT, HCI_ISO_PKT, HCI_EVENT_PKT, HCI_EVENT_SKWLOG
<1>6. CASE b[1] = 7
  BY <1>2, <1>3, <1>6
     DEF PayloadLen, UInt16At, HCI_ACLDATA_PKT, HCI_ISO_PKT, HCI_EVENT_PKT, HCI_EVENT_SKWLOG
<1>7. CASE b[1] \in {2, 5}
  BY <1>2, <1>3, <1>7
     DEF PayloadLen, UInt16At, HCI_ACLDATA_PKT, HCI_ISO_PKT, HCI_EVENT_PKT, HCI_EVENT_SKWLOG
<1> QED BY <1>4, <1>5, <1>6, <1>7

\* The length that the header of a packet says.
LEMMA PacketLength ==
    ASSUME NEW b \in Seq(Bytes), IsPacket(b)
    PROVE  /\ b[1] \in ParsedTypes /\ Len(b) >= 3 /\ Len(b) < 65536
           /\ HdrLens(b) \in 3..5 /\ HdrLens(b) <= Len(b)
           /\ PayloadLen(b) \in Nat /\ PayloadLen(b) + HdrLens(b) = Len(b)
<1>1. Len(b) \in Nat /\ Len(b) >= 3 /\ Len(b) < 65536
  BY SMT DEF IsPacket
<1>2. \/ b[1] = 4 /\ Len(b) = 3 + b[3]
      \/ b[1] = 3 /\ Len(b) >= 4 /\ Len(b) = 4 + b[4]
      \/ b[1] = 7 /\ Len(b) >= 4 /\ Len(b) = 4 + b[3] + 256 * b[4]
      \/ b[1] \in {2, 5} /\ Len(b) >= 5 /\ Len(b) = 5 + b[4] + 256 * b[5]
  BY SMT DEF IsPacket, SizeInHeader, HCI_ACLDATA_PKT, HCI_SCODATA_PKT, HCI_EVENT_PKT, HCI_ISO_PKT, HCI_EVENT_SKWLOG
<1>3. \A i \in 1..Len(b) : b[i] \in Nat
  <2>1. \A i \in 1..Len(b) : b[i] \in Bytes
    OBVIOUS
  <2>2. \A x \in Bytes : x \in Nat
    BY DEF Bytes
  <2> QED BY <2>1, <2>2, Zenon
<1>4. CASE b[1] = 4
  <2>1. b[1] \in ParsedTypes /\ HdrLens(b) = 3 /\ PayloadLen(b) = b[3]
    BY <1>4, HeaderOf, Zenon
  <2>2. Len(b) = 3 + b[3] /\ b[3] \in Nat
    BY <1>1, <1>2, <1>3, <1>4, SMT
  <2> QED BY <1>1, <2>1, <2>2, SMT
<1>5. CASE b[1] = 3
  <2>1. b[1] \in ParsedTypes /\ HdrLens(b) = 4 /\ PayloadLen(b) = b[4]
    BY <1>5, HeaderOf, Zenon
  <2>2. Len(b) = 4 + b[4] /\ Len(b) >= 4
    BY <1>2, <1>5, SMT
  <2>3. b[4] \in Nat
    BY <1>1, <1>3, <2>2, SMT
  <2> QED BY <1>1, <2>1, <2>2, <2>3, SMT
<1>6. CASE b[1] = 7
  <2>1. b[1] \in ParsedTypes /\ HdrLens(b) = 4 /\ PayloadLen(b) = b[3] + 256 * b[4]
    BY <1>6, HeaderOf, Zenon
  <2>2. Len(b) = 4 + b[3] + 256 * b[4] /\ Len(b) >= 4
    BY <1>2, <1>6, SMT
  <2>3. b[3] \in Nat /\ b[4] \in Nat
    BY <1>1, <1>3, <2>2, SMT
  <2> QED BY <1>1, <2>1, <2>2, <2>3, SMT
<1>7. CASE b[1] \in {2, 5}
  <2>1. b[1] \in ParsedTypes /\ HdrLens(b) = 5 /\ PayloadLen(b) = b[4] + 256 * b[5]
    BY <1>7, HeaderOf, Zenon
  <2>2. Len(b) = 5 + b[4] + 256 * b[5] /\ Len(b) >= 5
    BY <1>2, <1>7, SMT
  <2>3. b[4] \in Nat /\ b[5] \in Nat
    BY <1>1, <1>3, <2>2, SMT
  <2> QED BY <1>1, <2>1, <2>2, <2>3, SMT
<1> QED BY <1>2, <1>4, <1>5, <1>6, <1>7, SMT

\* A buffer that holds the first bytes of a packet, and perhaps what follows it.
LEMMA PacketAhead ==
    ASSUME NEW pkt \in Seq(Bytes), IsPacket(pkt), NEW b \in Seq(Bytes), b # <<>>,
           \A j \in 1..Len(b) : j <= Len(pkt) => b[j] = pkt[j]
    PROVE  /\ b[1] = pkt[1] /\ b[1] \in ParsedTypes
           /\ Complete(b) <=> Len(b) >= Len(pkt)
           /\ Complete(b) => PktLen(b) = Len(pkt) /\ SubSeq(b, 1, PktLen(b)) = pkt
<1>1. /\ pkt[1] \in ParsedTypes /\ Len(pkt) \in Nat /\ Len(pkt) >= 3
      /\ HdrLens(pkt) \in 3..5 /\ HdrLens(pkt) <= Len(pkt)
  BY PacketLength, SMT
<1>2. Len(b) \in Nat /\ Len(b) >= 1
  BY EmptySeq
<1>3. b[1] = pkt[1] /\ HdrLens(b) = HdrLens(pkt)
  <2>1. b[1] = pkt[1]
    BY <1>1, <1>2, SMT
  <2> QED BY <2>1, Zenon DEF HdrLens
<1>4. ASSUME Len(b) >= HdrLens(b) PROVE PktLen(b) = Len(pkt)
  <2>0. HdrLens(pkt) <= Len(b)
    BY <1>1, <1>2, <1>3, <1>4, SMT
  <2>1. \A j \in 1..HdrLens(pkt) : b[j] = pkt[j]
    <3>1. \A j \in 1..HdrLens(pkt) : j \in 1..Len(b) /\ j <= Len(pkt)
      BY <1>1, <1>2, <2>0, SMT
    <3> QED BY <3>1, Zenon
  <2>2. pkt[1] \in {2, 3, 4, 5, 7}
    BY <1>1 DEF ParsedTypes, HCI_ACLDATA_PKT, HCI_SCODATA_PKT, HCI_EVENT_PKT, HCI_ISO_PKT, HCI_EVENT_SKWLOG
  <2>3. PayloadLen(b) = PayloadLen(pkt)
    <3>1. CASE pkt[1] = 4
      <4>1. HdrLens(pkt) = 3
        BY <3>1, HeaderOf, SMT
      <4>2. b[3] = pkt[3]
        BY <2>1, <4>1
      <4> QED BY <1>3, <3>1, <4>2, HeaderOf, SMT
    <3>2. CASE pkt[1] = 3
      <4>1. HdrLens(pkt) = 4
        BY <3>2, HeaderOf, SMT
      <4>2. b[4] = pkt[4]
        BY <2>1, <4>1
      <4> QED BY <1>3, <3>2, <4>2, HeaderOf, SMT
    <3>3. CASE pkt[1] = 7
      <4>1. HdrLens(pkt) = 4
        BY <3>3, HeaderOf, SMT
      <4>2. b[3] = pkt[3] /\ b[4] = pkt[4]
        BY <2>1, <4>1
      <4>3. PayloadLen(pkt) = pkt[3] + 256 * pkt[4]
        BY <3>3, HeaderOf, SMT
      <4>4. b[1] = 7
        BY <1>3, <3>3
      <4>5. PayloadLen(b) = b[3] + 256 * b[4]
        BY <4>4, HeaderOf, Zenon
      <4> QED BY <4>2, <4>3, <4>5
    <3>4. CASE pkt[1] \in {2, 5}
      <4>1. HdrLens(pkt) = 5
        BY <3>4, HeaderOf, Zenon
      <4>2. b[4] = pkt[4] /\ b[5] = pkt[5]
        BY <2>1, <4>1
      <4>3. PayloadLen(pkt) = pkt[4] + 256 * pkt[5]
        BY <3>4, HeaderOf, Zenon
      <4>4. b[1] \in {2, 5}
        BY <1>3, <3>4
      <4>5. PayloadLen(b) = b[4] + 256 * b[5]
        BY <4>4, HeaderOf, Zenon
      <4> QED BY <4>2, <4>3, <4>5
    <3> QED BY <2>2, <3>1, <3>2, <3>3, <3>4
  <2>4. PayloadLen(pkt) + HdrLens(pkt) = Len(pkt) /\ Len(pkt) < 65536
    BY PacketLength, SMT
  <2>5. PktLen(b) = Len(pkt) % 65536
    BY <1>3, <2>3, <2>4, SMT DEF PktLen
  <2> QED BY <1>1, <2>4, <2>5, SMT
<1>5. Complete(b) <=> Len(b) >= Len(pkt)
  <2>1. ASSUME Len(b) >= Len(pkt) PROVE Complete(b)
    <3>1. Len(b) >= HdrLens(b)
      BY <1>1, <1>2, <1>3, <2>1, SMT
    <3>2. Len(b) >= PktLen(b)
      BY <1>4, <2>1, <3>1, Zenon
    <3>3. b[1] \in ParsedTypes
      BY <1>1, <1>3
    <3> QED BY <3>1, <3>2, <3>3, Zenon DEF Complete
  <2>2. ASSUME Complete(b) PROVE Len(b) >= Len(pkt)
    BY <1>4, <2>2, Zenon DEF Complete
  <2> QED BY <2>1, <2>2
<1>6. ASSUME Len(b) >= Len(pkt) PROVE SubSeq(b, 1, Len(pkt)) = pkt
  <2>1. Len(pkt) \in Nat /\ \A j \in 1..Len(pkt) : j \in 1..Len(b) /\ b[j] = pkt[j]
    BY <1>1, <1>2, <1>6, SMT
  <2>2. SubSeq(b, 1, Len(pkt)) = [j \in 1..Len(pkt) |-> b[j]]
    BY <1>2, <2>1, SMT
  <2>3. pkt = [j \in 1..Len(pkt) |-> pkt[j]]
    OBVIOUS
  <2> QED BY <2>1, <2>2, <2>3
<1>7. Complete(b) => PktLen(b) = Len(pkt)
  BY <1>4, Zenon DEF Complete
<1> QED BY <1>1, <1>3, <1>5, <1>6, <1>7, Zenon

-----------------------------------------------------------------------------
(* Where a thread is in its stream *)

\* The bytes of t from position i + 1 to position j.
Window(t, i, j) == SubSeq(t, i + 1, j)

LEMMA WindowFacts ==
    ASSUME NEW S, NEW t \in Seq(S), NEW i \in Nat, NEW j \in Nat, i <= j, j <= Len(t)
    PROVE  /\ Window(t, i, j) \in Seq(S) /\ Len(Window(t, i, j)) = j - i
           /\ \A m \in 1..(j - i) : Window(t, i, j)[m] = t[i + m]
<1> DEFINE a == i + 1
<1>1. a \in Int /\ j \in Int /\ \A m \in a..j : t[m] \in S
  <2>1. \A m \in a..j : m \in 1..Len(t)
    OBVIOUS
  <2> QED BY <2>1, ElementOfSeq
<1>2. (j - a) + 1 = j - i /\ (a <= j => (j - a) + 1 = j - i) /\ (~(a <= j) => 0 = j - i)
  OBVIOUS
<1>3. /\ SubSeq(t, a, j) \in Seq(S) /\ Len(SubSeq(t, a, j)) = IF a <= j THEN (j - a) + 1 ELSE 0
      /\ \A m \in 1..((j - a) + 1) : SubSeq(t, a, j)[m] = t[(a + m) - 1]
  <2> HIDE DEF a
  <2> QED BY <1>1, SubSeqProperties
<1>4. \A m \in 1..(j - i) : (a + m) - 1 = i + m
  OBVIOUS
<1> HIDE DEF a
<1>5. SubSeq(t, a, j) = Window(t, i, j)
  BY DEF Window, a
<1>6. Len(Window(t, i, j)) = j - i
  BY <1>2, <1>3, <1>5
<1>7. \A m \in 1..(j - i) : Window(t, i, j)[m] = t[i + m]
  BY <1>2, <1>3, <1>4, <1>5
<1> QED BY <1>3, <1>5, <1>6, <1>7

LEMMA WindowParts ==
    ASSUME NEW S, NEW t \in Seq(S), NEW i \in Nat, NEW j \in Nat, NEW k \in Nat,
           i <= j, j <= k, k <= Len(t)
    PROVE  /\ SubSeq(Window(t, i, k), 1, j - i) = Window(t, i, j)
           /\ Drop(Window(t, i, k), j - i) = Window(t, j, k)
           /\ Window(t, i, j) \o Window(t, j, k) = Window(t, i, k)
<1> DEFINE A == Window(t, i, j)
           B == Window(t, j, k)
           C == Window(t, i, k)
<1>1. /\ A \in Seq(S) /\ Len(A) = j - i /\ \A m \in 1..(j - i) : A[m] = t[i + m]
      /\ B \in Seq(S) /\ Len(B) = k - j /\ \A m \in 1..(k - j) : B[m] = t[j + m]
      /\ C \in Seq(S) /\ Len(C) = k - i /\ \A m \in 1..(k - i) : C[m] = t[i + m]
  <2>1. i <= k /\ j <= Len(t)
    OBVIOUS
  <2> QED BY <2>1, WindowFacts
<1> HIDE DEF A, B, C
<1>2. A \o B = C
  <2> DEFINE D == A \o B
  <2>1. D \in Seq(S) /\ Len(D) = (j - i) + (k - j)
        /\ \A m \in 1..((j - i) + (k - j)) : D[m] = IF m <= j - i THEN A[m] ELSE B[m - (j - i)]
    <3>1. /\ D \in Seq(S) /\ Len(D) = Len(A) + Len(B)
          /\ \A m \in 1..(Len(A) + Len(B)) : D[m] = IF m <= Len(A) THEN A[m] ELSE B[m - Len(A)]
      BY <1>1, ConcatProperties
    <3> HIDE DEF D
    <3> QED BY <1>1, <3>1
  <2> HIDE DEF D
  <2>2. Len(D) = Len(C)
    BY <1>1, <2>1
  <2>3. \A m \in 1..Len(D) : D[m] = C[m]
    <3> SUFFICES ASSUME NEW m \in 1..Len(D) PROVE D[m] = C[m]
      OBVIOUS
    <3>1. CASE m <= j - i
      BY <1>1, <2>1, <3>1
    <3>2. CASE ~(m <= j - i)
      <4>1. m - (j - i) \in 1..(k - j) /\ j + (m - (j - i)) = i + m
        BY <2>1, <3>2
      <4>2. D[m] = t[i + m]
        BY <1>1, <2>1, <3>2, <4>1
      <4> QED BY <1>1, <2>1, <2>2, <4>2
    <3> QED BY <3>1, <3>2
  <2>4. D = C
    BY <1>1, <2>1, <2>2, <2>3, SeqEqual
  <2> QED BY <2>4 DEF D
<1>3. SubSeq(C, 1, j - i) = A
  BY <1>1
<1>4. Drop(C, j - i) = B
  <2>1. Drop(C, j - i) = SubSeq(C, (j - i) + 1, k - i)
    BY <1>1 DEF Drop
  <2> DEFINE D == SubSeq(C, (j - i) + 1, k - i)
  <2>2. D \in Seq(S) /\ Len(D) = k - j /\ \A m \in 1..(k - j) : D[m] = C[(j - i) + m]
    BY <1>1
  <2> HIDE DEF D
  <2>3. \A m \in 1..(k - j) : D[m] = B[m]
    <3> SUFFICES ASSUME NEW m \in 1..(k - j) PROVE D[m] = B[m]
      OBVIOUS
    <3>1. (j - i) + m \in 1..(k - i) /\ i + ((j - i) + m) = j + m
      OBVIOUS
    <3> QED BY <1>1, <2>2, <3>1
  <2>4. D = B
    BY <1>1, <2>2, <2>3, SeqEqual
  <2> QED BY <2>1, <2>4 DEF D
<1> QED BY <1>2, <1>3, <1>4 DEF A, B, C

\* The position of the noise before packet k + 1 of a stream.
Start(s, k) == Len(Joined(Items(s), k))

LEMMA StreamPlace ==
    ASSUME NEW s, IsStream(s), NEW k \in Nat, k < Len(s)
    PROVE  LET t == BytesOf(s)
               noise == s[k+1].noise
               pkt == s[k+1].pkt
           IN  /\ t \in Seq(Bytes) /\ Start(s, k) \in Nat
               /\ noise \in Seq(Bytes) /\ pkt \in Seq(Bytes)
               /\ Start(s, k + 1) = Start(s, k) + Len(noise) + Len(pkt)
               /\ Start(s, k + 1) <= Len(t)
               /\ \A j \in 1..Len(noise) : t[Start(s, k) + j] = noise[j]
               /\ \A j \in 1..Len(pkt) : t[Start(s, k) + Len(noise) + j] = pkt[j]
<1> DEFINE t == BytesOf(s)
           q == Items(s)
           A == s[k+1].noise
           B == s[k+1].pkt
           n == Start(s, k)
<1>1. /\ q \in Seq(Seq(Bytes)) /\ Len(q) = Len(s) /\ Len(s) \in Nat /\ k + 1 \in 1..Len(s)
      /\ q[k+1] = A \o B /\ A \in Seq(Bytes) /\ B \in Seq(Bytes)
  <2>1. q \in Seq(Seq(Bytes)) /\ Len(q) = Len(s) /\ Len(s) \in Nat
    BY ItemsType, ItemFields
  <2>2. k + 1 \in 1..Len(s)
    BY <2>1
  <2> QED BY <2>1, <2>2, ItemsType, ItemFields
<1>2. t = FlattenSeq(q) /\ n = Len(Joined(q, k)) /\ Start(s, k + 1) = Len(Joined(q, k + 1))
  BY DEF BytesOf, Items, Start
<1> HIDE DEF q
<1>3. /\ t \in Seq(Bytes) /\ n \in Nat
      /\ Start(s, k + 1) = n + Len(q[k+1]) /\ n + Len(q[k+1]) <= Len(t)
      /\ \A j \in 1..Len(q[k+1]) : t[n + j] = q[k+1][j]
  <2>1. k < Len(q)
    BY <1>1
  <2> HIDE DEF t, n
  <2> QED BY <1>1, <1>2, <2>1, PartPlace
<1> HIDE DEF t, n, A, B
<1>4. /\ Len(q[k+1]) = Len(A) + Len(B) /\ Len(A) \in Nat /\ Len(B) \in Nat
      /\ \A j \in 1..Len(A) : q[k+1][j] = A[j]
      /\ \A j \in 1..Len(B) : q[k+1][Len(A) + j] = B[j]
  BY <1>1
<1>5. \A j \in 1..Len(A) : t[n + j] = A[j]
  <2>1. \A j \in 1..Len(A) : j \in 1..Len(q[k+1])
    BY <1>4
  <2> QED BY <1>3, <1>4, <2>1
<1>6. \A j \in 1..Len(B) : t[n + Len(A) + j] = B[j]
  <2>1. \A j \in 1..Len(B) : Len(A) + j \in 1..Len(q[k+1]) /\ n + (Len(A) + j) = n + Len(A) + j
    BY <1>3, <1>4
  <2> QED BY <1>3, <1>4, <2>1
<1>7. n + Len(q[k+1]) = n + Len(A) + Len(B)
  BY <1>3, <1>4
<1> QED BY <1>1, <1>3, <1>5, <1>6, <1>7 DEF t, n, A, B

LEMMA StreamEnds ==
    ASSUME NEW s, IsStream(s)
    PROVE  /\ Start(s, 0) = 0 /\ Start(s, Len(s)) = Len(BytesOf(s))
           /\ BytesOf(s) \in Seq(Bytes)
<1>1. Items(s) \in Seq(Seq(Bytes)) /\ Len(Items(s)) = Len(s)
  BY ItemsType
<1>2. BytesOf(s) = FlattenSeq(Items(s))
  BY DEF BytesOf, Items
<1>3. Joined(Items(s), 0) = <<>> /\ Joined(Items(s), Len(s)) = FlattenSeq(Items(s))
  BY <1>1, JoinedEnds
<1>4. FlattenSeq(Items(s)) \in Seq(Bytes)
  BY <1>1, FlattenType
<1> QED BY <1>2, <1>3, <1>4 DEF Start

\* The packets that a thread is through with: a packet that it sends counts as not.
Through(l, h) == IF l \in {"lock", "write"} THEN Len(h) - 1 ELSE Len(h)

\* A thread at place l with the packets h behind it has the bytes e + 1 to r of its stream s in its
\* buffer b; the bytes to e are those of the packets it is through with and of dropped noise.
Framed(s, h, b, w, l, e, r) ==
    /\ e <= r /\ r <= Len(BytesOf(s))
    /\ b = Window(BytesOf(s), e, r) /\ w = Window(BytesOf(s), r, Len(BytesOf(s)))
    /\ h \in Seq(Seq(Bytes)) /\ Len(h) <= Len(s) /\ \A i \in 1..Len(h) : h[i] = s[i].pkt
    /\ Through(l, h) \in 0..Len(s)
    /\ Through(l, h) = Len(s) => e = Start(s, Len(s))
    /\ Through(l, h) < Len(s) =>
          /\ e >= Start(s, Through(l, h))
          /\ e <= Start(s, Through(l, h)) + Len(s[Through(l, h) + 1].noise)
    /\ l \in {"lock", "write"} => Complete(b)
    /\ l # "poll" => b # <<>>

LEMMA FramedTypes ==
    ASSUME NEW s, IsStream(s), NEW h, NEW b, NEW w, NEW l, NEW e \in Nat, NEW r \in Nat,
           Framed(s, h, b, w, l, e, r)
    PROVE  /\ BytesOf(s) \in Seq(Bytes) /\ Len(BytesOf(s)) \in Nat /\ Len(s) \in Nat
           /\ b \in Seq(Bytes) /\ Len(b) = r - e /\ \A j \in 1..Len(b) : b[j] = BytesOf(s)[e + j]
           /\ w \in Seq(Bytes) /\ Len(w) = Len(BytesOf(s)) - r
<1>1. BytesOf(s) \in Seq(Bytes) /\ Len(BytesOf(s)) \in Nat /\ Len(s) \in Nat
  <2>1. BytesOf(s) \in Seq(Bytes) /\ Len(s) \in Nat
    BY StreamEnds, ItemFields
  <2> QED BY <2>1
<1>2. /\ e <= r /\ r <= Len(BytesOf(s))
      /\ b = Window(BytesOf(s), e, r) /\ w = Window(BytesOf(s), r, Len(BytesOf(s)))
  BY Zenon DEF Framed
<1>3. /\ b \in Seq(Bytes) /\ Len(b) = r - e /\ \A j \in 1..(r - e) : b[j] = BytesOf(s)[e + j]
  BY <1>1, <1>2, WindowFacts
<1>4. w \in Seq(Bytes) /\ Len(w) = Len(BytesOf(s)) - r
  <2> DEFINE t == BytesOf(s)
             n == Len(t)
  <2>1. n \in Nat /\ n <= Len(t)
    BY <1>1
  <2> HIDE DEF n
  <2>2. Window(t, r, n) \in Seq(Bytes) /\ Len(Window(t, r, n)) = n - r
    BY <1>1, <1>2, <2>1, WindowFacts DEF n
  <2> QED BY <1>2, <2>2 DEF n
<1> QED BY <1>1, <1>3, <1>4

LEMMA FramedLength ==
    ASSUME NEW s, IsStream(s), NEW h, NEW b, NEW w, NEW l, NEW e \in Nat, NEW r \in Nat,
           Framed(s, h, b, w, l, e, r)
    PROVE  Len(b) = r - e /\ Len(w) = Len(BytesOf(s)) - r
<1>1. BytesOf(s) \in Seq(Bytes)
  BY FramedTypes, Zenon
<1>2. /\ e <= r /\ r <= Len(BytesOf(s))
      /\ b = Window(BytesOf(s), e, r) /\ w = Window(BytesOf(s), r, Len(BytesOf(s)))
  BY Zenon DEF Framed
<1>3. Len(b) = r - e
  BY <1>1, <1>2, WindowFacts
<1> DEFINE n == Len(BytesOf(s))
<1>4. n \in Nat /\ n <= Len(BytesOf(s)) /\ r <= n
  BY <1>1, <1>2
<1> HIDE DEF n
<1>5. Len(Window(BytesOf(s), r, n)) = n - r
  BY <1>1, <1>4, WindowFacts
<1> QED BY <1>2, <1>3, <1>5, Zenon DEF n

\* At a byte that is a packet type the thread is at the start of the next packet; at any other byte
\* it is in the noise before it.
LEMMA AtPacket ==
    ASSUME NEW s, IsStream(s), IsFramed(s), NEW h, NEW b, NEW w, NEW l, NEW e \in Nat, NEW r \in Nat,
           Framed(s, h, b, w, l, e, r), b # <<>>
    PROVE  LET k == Through(l, h)
               noise == s[k+1].noise
               pkt == s[k+1].pkt
           IN  /\ k \in Nat /\ k < Len(s) /\ pkt \in Seq(Bytes)
               /\ b[1] \in ParsedTypes =>
                     /\ e = Start(s, k) + Len(noise) /\ b[1] = pkt[1]
                     /\ Complete(b) <=> Len(b) >= Len(pkt)
                     /\ Complete(b) => PktLen(b) = Len(pkt) /\ SubSeq(b, 1, PktLen(b)) = pkt
               /\ b[1] \notin ParsedTypes =>
                     /\ e < Start(s, k) + Len(noise)
                     /\ FindValidType(b) \in 1..Len(b)
                     /\ e + FindValidType(b) <= Start(s, k) + Len(noise)
<1> DEFINE k == Through(l, h)
           t == BytesOf(s)
           noise == s[k+1].noise
           pkt == s[k+1].pkt
           n == Start(s, k)
<1>1. /\ t \in Seq(Bytes) /\ Len(t) \in Nat /\ Len(s) \in Nat
      /\ b \in Seq(Bytes) /\ Len(b) = r - e /\ \A j \in 1..Len(b) : b[j] = t[e + j]
  BY FramedTypes
<1>2. Len(b) >= 1 /\ Len(b) \in Nat /\ r <= Len(t) /\ k \in 0..Len(s)
  <2>1. r <= Len(t) /\ k \in 0..Len(s)
    BY Zenon DEF Framed
  <2>2. Len(b) \in Nat /\ Len(b) # 0
    BY <1>1, EmptySeq
  <2> QED BY <2>1, <2>2
<1>3. k \in Nat /\ k < Len(s)
  <2>1. k # Len(s)
    <3> SUFFICES ASSUME k = Len(s) PROVE FALSE
      OBVIOUS
    <3>1. e = Start(s, Len(s))
      BY Zenon DEF Framed
    <3>2. e = Len(t)
      BY <3>1, StreamEnds, Zenon
    <3> HIDE DEF t
    <3> QED BY <1>1, <1>2, <3>2
  <2> HIDE DEF k
  <2> QED BY <1>1, <1>2, <2>1
<1>4. e >= n /\ e <= n + Len(noise)
  BY <1>3, Zenon DEF Framed
<1>5. /\ n \in Nat /\ noise \in Seq(Bytes) /\ pkt \in Seq(Bytes)
      /\ \A j \in 1..Len(noise) : t[n + j] = noise[j]
      /\ \A j \in 1..Len(pkt) : t[n + Len(noise) + j] = pkt[j]
  <2> HIDE DEF k
  <2>1. LET tt == BytesOf(s)
            no == s[k+1].noise
            pk == s[k+1].pkt
        IN  /\ tt \in Seq(Bytes) /\ Start(s, k) \in Nat
            /\ no \in Seq(Bytes) /\ pk \in Seq(Bytes)
            /\ Start(s, k + 1) = Start(s, k) + Len(no) + Len(pk)
            /\ Start(s, k + 1) <= Len(tt)
            /\ \A j \in 1..Len(no) : tt[Start(s, k) + j] = no[j]
            /\ \A j \in 1..Len(pk) : tt[Start(s, k) + Len(no) + j] = pk[j]
    BY <1>3, StreamPlace, Zenon
  <2> QED BY <2>1, Zenon
<1>6. /\ IsPacket(pkt)
      /\ \A j \in 1..Len(noise) : noise[j] \notin ParsedTypes
      /\ noise # <<>> => pkt[1] \in ResyncTypes
  <2>1. k + 1 \in 1..Len(s)
    <3> HIDE DEF k
    <3> QED BY <1>1, <1>3
  <2> QED BY <2>1, Zenon DEF IsFramed
<1> DEFINE gap == (n + Len(noise)) - e
<1>7. gap \in Nat /\ Len(noise) \in Nat /\ (gap = 0 <=> e = n + Len(noise)) /\ gap <= Len(noise)
  <2>1. Len(noise) \in Nat
    BY <1>5
  <2> HIDE DEF n, noise
  <2> QED BY <1>4, <1>5, <2>1
<1> HIDE DEF k, t, noise, pkt, n
<1>8. ASSUME NEW j \in 1..Len(b), j <= gap PROVE b[j] \notin ParsedTypes
  <2>1. (e - n) + j \in 1..Len(noise) /\ n + ((e - n) + j) = e + j
    BY <1>2, <1>4, <1>5, <1>7, <1>8
  <2> DEFINE i == (e - n) + j
  <2> HIDE DEF i
  <2>2. i \in 1..Len(noise) /\ n + i = e + j
    BY <2>1, Zenon DEF i
  <2>3. t[n + i] = noise[i] /\ noise[i] \notin ParsedTypes
    BY <1>5, <1>6, <2>2, Zenon
  <2>4. b[j] = t[e + j]
    BY <1>1, Zenon
  <2> QED BY <2>2, <2>3, <2>4, Zenon
<1>9. ASSUME gap = 0
      PROVE  /\ b[1] = pkt[1] /\ b[1] \in ParsedTypes
             /\ Complete(b) <=> Len(b) >= Len(pkt)
             /\ Complete(b) => PktLen(b) = Len(pkt) /\ SubSeq(b, 1, PktLen(b)) = pkt
  <2>0. e = n + Len(noise) /\ Len(pkt) \in Nat
    BY <1>5, <1>7, <1>9
  <2>1. \A j \in 1..Len(b) : j <= Len(pkt) => b[j] = pkt[j]
    <3> SUFFICES ASSUME NEW j \in 1..Len(b), j <= Len(pkt) PROVE b[j] = pkt[j]
      OBVIOUS
    <3>1. j \in 1..Len(pkt) /\ n + Len(noise) + j = e + j
      BY <1>2, <2>0
    <3>2. t[n + Len(noise) + j] = pkt[j]
      BY <1>5, <3>1
    <3>3. b[j] = t[e + j]
      BY <1>1
    <3> QED BY <3>1, <3>2, <3>3
  <2> QED BY <1>1, <1>5, <1>6, <2>1, PacketAhead, Zenon
<1>10. ASSUME gap # 0
       PROVE  /\ b[1] \notin ParsedTypes
              /\ FindValidType(b) \in 1..Len(b) /\ FindValidType(b) <= gap
  <2>1. b[1] \notin ParsedTypes
    <3>1. 1 \in 1..Len(b) /\ 1 <= gap
      BY <1>2, <1>7, <1>10
    <3> QED BY <1>8, <3>1
  <2> DEFINE hits == {i \in 1..Len(b) : b[i] \in ResyncTypes}
  <2>2. \A i \in hits : i \in 1..Len(b) /\ gap < i
    <3> SUFFICES ASSUME NEW i \in hits PROVE i \in 1..Len(b) /\ ~(i <= gap)
      BY <1>2, <1>7
    <3>1. i \in 1..Len(b) /\ b[i] \in ParsedTypes
      BY DEF ResyncTypes, ParsedTypes
    <3> QED BY <1>8, <3>1
  <2>3. gap < Len(b) => gap + 1 \in hits
    <3> SUFFICES ASSUME gap < Len(b) PROVE gap + 1 \in hits
      OBVIOUS
    <3>1. gap + 1 \in 1..Len(b) /\ e + (gap + 1) = n + Len(noise) + 1
      BY <1>2, <1>5, <1>7
    <3>2. 1 \in 1..Len(pkt)
      <4>1. Len(pkt) >= 3 /\ Len(pkt) \in Nat
        BY <1>5, <1>6, PacketLength, SMT
      <4> QED BY <4>1
    <3>3. b[gap + 1] = pkt[1]
      BY <1>1, <1>5, <3>1, <3>2
    <3>4. noise # <<>>
      <4>1. Len(noise) # 0
        BY <1>7, <1>10
      <4> QED BY <4>1
    <3> QED BY <1>6, <3>1, <3>3, <3>4
  <2>4. FindValidType(b) = IF hits = {} THEN Len(b) ELSE Min(hits) - 1
    BY Zenon DEF FindValidType
  <2> HIDE DEF hits
  <2>5. CASE hits = {}
    BY <1>2, <1>7, <2>1, <2>3, <2>4, <2>5
  <2>6. CASE hits # {}
    <3>1. hits \in SUBSET Nat
      BY <2>2
    <3>2. PICK i \in hits : \A j \in hits : ~(j < i)
      BY <2>6, <3>1, LeastNumber
    <3>3. \A j \in hits : i <= j
      BY <3>1, <3>2
    <3>4. Min(hits) \in hits /\ \A j \in hits : Min(hits) <= j
      BY <3>3, Zenon DEF Min
    <3>5. gap < Len(b)
      <4>1. Min(hits) \in 1..Len(b) /\ gap < Min(hits)
        BY <2>2, <3>4
      <4> QED BY <1>2, <1>7, <4>1
    <3>6. Min(hits) = gap + 1
      <4>1. Min(hits) \in Nat /\ gap < Min(hits)
        BY <2>2, <3>4
      <4>2. Min(hits) <= gap + 1
        BY <2>3, <3>4, <3>5
      <4> HIDE DEF gap
      <4> QED BY <1>7, <4>1, <4>2
    <3>7. FindValidType(b) = gap
      BY <1>7, <2>4, <2>6, <3>6
    <3> QED BY <1>2, <1>7, <1>10, <2>1, <3>5, <3>7
  <2> QED BY <2>5, <2>6
<1>11. CASE gap = 0
  BY <1>3, <1>5, <1>7, <1>9, <1>11, Zenon DEF k, noise, pkt, n
<1>12. CASE gap # 0
  <2>1. b[1] \notin ParsedTypes /\ FindValidType(b) \in 1..Len(b) /\ FindValidType(b) <= gap
    BY <1>10, <1>12
  <2>2. e < n + Len(noise) /\ e + FindValidType(b) <= n + Len(noise)
    BY <1>2, <1>5, <1>7, <1>12, <2>1
  <2> HIDE DEF gap
  <2> QED BY <1>3, <1>5, <2>1, <2>2, Zenon DEF k, noise, pkt, n
<1> QED BY <1>11, <1>12

-----------------------------------------------------------------------------
(* Each step of a thread keeps it framed *)

\* Bytes that leave the buffer.
LEMMA WindowDropped ==
    ASSUME NEW t \in Seq(Bytes), NEW e \in Nat, NEW r \in Nat, e <= r, r <= Len(t), NEW n \in 0..(r - e)
    PROVE  e + n \in Nat /\ e + n <= r /\ Drop(Window(t, e, r), n) = Window(t, e + n, r)
<1> DEFINE j == e + n
<1>1. j \in Nat /\ e <= j /\ j <= r /\ j - e = n
  OBVIOUS
<1> HIDE DEF j
<1>2. Drop(Window(t, e, r), j - e) = Window(t, j, r)
  BY <1>1, WindowParts
<1> QED BY <1>1, <1>2 DEF j

\* Bytes that are read go from the front of the wire to the end of the buffer.
MovesBytes(t, e, r, m, n) ==
    /\ r + n \in Nat /\ e <= r + n /\ r + n <= m
    /\ Window(t, e, r) \o SubSeq(Window(t, r, m), 1, n) = Window(t, e, r + n)
    /\ Drop(Window(t, r, m), n) = Window(t, r + n, m)
    /\ Window(t, e, r + n) # <<>>

LEMMA WindowRead ==
    ASSUME NEW t \in Seq(Bytes), NEW e \in Nat, NEW r \in Nat, NEW m \in Nat, e <= r, r <= m, m <= Len(t),
           NEW n \in Nat, n >= 1, n <= m - r
    PROVE  MovesBytes(t, e, r, m, n)
<1> DEFINE u == r + n
<1>1. u \in Nat /\ r <= u /\ e <= u /\ u <= m /\ u - r = n /\ u - e # 0
  OBVIOUS
<1>2. u <= Len(t)
  OBVIOUS
<1> HIDE DEF u
<1>3. SubSeq(Window(t, r, m), 1, n) = Window(t, r, u) /\ Drop(Window(t, r, m), n) = Window(t, u, m)
  <2>1. SubSeq(Window(t, r, m), 1, u - r) = Window(t, r, u)
    BY <1>1, WindowParts
  <2>2. Drop(Window(t, r, m), n) = Window(t, u, m)
    BY WindowDropped DEF u
  <2> QED BY <1>1, <2>1, <2>2, Zenon
<1>4. Window(t, e, r) \o Window(t, r, u) = Window(t, e, u)
  <2>1. u \in Nat /\ r <= u /\ u <= Len(t)
    BY <1>1, <1>2, Zenon
  <2> QED BY <2>1, WindowParts
<1>5. Len(Window(t, e, u)) = u - e
  BY <1>1, <1>2, WindowFacts
<1>6. Window(t, e, u) # <<>>
  BY <1>1, <1>5
<1> QED BY <1>1, <1>3, <1>4, <1>6, Zenon DEF u, MovesBytes

LEMMA FramedRead ==
    ASSUME NEW s, IsStream(s), NEW h, NEW b, NEW w, NEW e \in Nat, NEW r \in Nat,
           Framed(s, h, b, w, "poll", e, r),
           NEW n \in Nat, n >= 1, n <= Len(BytesOf(s)) - r
    PROVE  r + n \in Nat /\ Framed(s, h, b \o SubSeq(w, 1, n), Drop(w, n), "parse", e, r + n)
<1>1. /\ e <= r /\ r <= Len(BytesOf(s))
      /\ b = Window(BytesOf(s), e, r) /\ w = Window(BytesOf(s), r, Len(BytesOf(s)))
  BY Zenon DEF Framed
<1>2. BytesOf(s) \in Seq(Bytes) /\ Len(BytesOf(s)) \in Nat
  BY FramedTypes, Zenon
<1>3. /\ r + n \in Nat /\ e <= r + n /\ r + n <= Len(BytesOf(s))
      /\ b \o SubSeq(w, 1, n) = Window(BytesOf(s), e, r + n)
      /\ Drop(w, n) = Window(BytesOf(s), r + n, Len(BytesOf(s)))
      /\ b \o SubSeq(w, 1, n) # <<>>
  <2> DEFINE m == Len(BytesOf(s))
  <2>1. m \in Nat /\ m <= Len(BytesOf(s)) /\ e <= r /\ r <= m /\ n <= m - r
    BY <1>1, <1>2
  <2> HIDE DEF m
  <2>2. MovesBytes(BytesOf(s), e, r, m, n)
    BY <1>2, <2>1, WindowRead
  <2> QED BY <1>1, <2>2, Zenon DEF MovesBytes, m
<1>4. Through("parse", h) = Through("poll", h) /\ "parse" \notin {"lock", "write"}
  BY DEF Through
<1>5. /\ h \in Seq(Seq(Bytes)) /\ Len(h) <= Len(s) /\ \A i \in 1..Len(h) : h[i] = s[i].pkt
      /\ Through("poll", h) \in 0..Len(s)
      /\ Through("poll", h) = Len(s) => e = Start(s, Len(s))
      /\ Through("poll", h) < Len(s) =>
            /\ e >= Start(s, Through("poll", h))
            /\ e <= Start(s, Through("poll", h)) + Len(s[Through("poll", h) + 1].noise)
  BY Zenon DEF Framed
<1> DEFINE k == Through("poll", h)
<1> HIDE DEF k
<1> QED BY <1>3, <1>4, <1>5, Zenon DEF Framed, k

\* The rest waits for more data.
LEMMA FramedWaits ==
    ASSUME NEW s, NEW h, NEW b, NEW w, NEW e, NEW r, Framed(s, h, b, w, "parse", e, r)
    PROVE  Framed(s, h, b, w, "poll", e, r)
<1>1. Through("parse", h) = Through("poll", h)
  BY DEF Through
<1> QED BY <1>1, Zenon DEF Framed

\* From taking the lock to releasing it nothing moves.
LEMMA FramedLocks ==
    ASSUME NEW s, NEW h, NEW b, NEW w, NEW e, NEW r, Framed(s, h, b, w, "lock", e, r)
    PROVE  Framed(s, h, b, w, "write", e, r)
<1>1. Through("lock", h) = Through("write", h)
  BY DEF Through
<1>2. "write" # "poll" /\ "lock" # "poll"
  OBVIOUS
<1> QED BY <1>1, <1>2, Zenon DEF Framed

\* Noise is dropped, and no byte of a packet with it.
LEMMA FramedInvalid ==
    ASSUME NEW s, IsStream(s), IsFramed(s), NEW h, NEW b, NEW w, NEW e \in Nat, NEW r \in Nat,
           Framed(s, h, b, w, "parse", e, r), b[1] \notin ParsedTypes
    PROVE  /\ e + FindValidType(b) \in Nat /\ FindValidType(b) \in 1..Len(b)
           /\ Framed(s, h, Drop(b, FindValidType(b)), w, "poll", e + FindValidType(b), r)
<1> DEFINE k == Through("parse", h)
           n == FindValidType(b)
           u == e + n
           t == BytesOf(s)
<1>1. b # <<>>
  <2>1. "parse" # "poll"
    OBVIOUS
  <2> QED BY <2>1, Zenon DEF Framed
<1>2. k \in Nat /\ k < Len(s) /\ n \in 1..Len(b) /\ u <= Start(s, k) + Len(s[k+1].noise)
  BY <1>1, AtPacket, Zenon
<1>3. /\ t \in Seq(Bytes) /\ Len(t) \in Nat /\ Len(s) \in Nat /\ Len(b) = r - e
      /\ e <= r /\ r <= Len(t) /\ b = Window(t, e, r)
  <2>1. e <= r /\ r <= Len(t) /\ b = Window(t, e, r)
    BY Zenon DEF Framed
  <2>2. t \in Seq(Bytes) /\ Len(t) \in Nat /\ Len(s) \in Nat /\ Len(b) = r - e
    BY FramedTypes
  <2> QED BY <2>1, <2>2, Zenon
<1>4. e >= Start(s, k)
  BY <1>2, Zenon DEF Framed
<1>5. Start(s, k) \in Nat
  <2> HIDE DEF k
  <2> QED BY <1>2, StreamPlace, Zenon
<1>6. Through("poll", h) = k
  BY DEF Through
<1>f. Framed(s, h, b, w, "parse", e, r)
  OBVIOUS
<1> HIDE DEF n, t
<1>7. n \in 0..(r - e)
  BY <1>2, <1>3
<1>8. u \in Nat /\ u <= r /\ Drop(b, n) = Window(t, u, r)
  BY <1>3, <1>7, WindowDropped
<1>9. u >= Start(s, k)
  <2> HIDE DEF k
  <2> QED BY <1>2, <1>4, <1>5
<1>10. k # Len(s)
  <2> HIDE DEF k
  <2> QED BY <1>2, <1>3
<1> HIDE DEF u
<1>11. Framed(s, h, Window(t, u, r), w, "poll", u, r)
  <2>1. /\ u <= r /\ r <= Len(BytesOf(s))
        /\ w = Window(BytesOf(s), r, Len(BytesOf(s)))
        /\ h \in Seq(Seq(Bytes)) /\ Len(h) <= Len(s) /\ \A i \in 1..Len(h) : h[i] = s[i].pkt
        /\ k \in 0..Len(s)
    BY <1>8, <1>f, Zenon DEF Framed, t
  <2>2. "poll" \notin {"lock", "write"}
    OBVIOUS
  <2> HIDE DEF k
  <2> QED BY <1>2, <1>6, <1>8, <1>9, <1>10, <2>1, <2>2, Zenon DEF Framed, t
<1> QED BY <1>2, <1>8, <1>11, Zenon DEF n, u

\* The packet that is recognised is the next one of the stream.
LEMMA FramedRecognise ==
    ASSUME NEW s, IsStream(s), IsFramed(s), NEW h, NEW b, NEW w, NEW e \in Nat, NEW r \in Nat,
           Framed(s, h, b, w, "parse", e, r), Complete(b)
    PROVE  /\ Len(h) \in Nat /\ Len(h) < Len(s) /\ SubSeq(b, 1, PktLen(b)) = s[Len(h) + 1].pkt
           /\ Framed(s, Append(h, SubSeq(b, 1, PktLen(b))), b, w, "lock", e, r)
<1> DEFINE k == Through("parse", h)
           pkt == s[k+1].pkt
           g == Append(h, pkt)
<1>1. b # <<>> /\ b[1] \in ParsedTypes
  BY Zenon DEF Complete
<1>2. /\ k \in Nat /\ k < Len(s) /\ pkt \in Seq(Bytes)
      /\ PktLen(b) = Len(pkt) /\ SubSeq(b, 1, PktLen(b)) = pkt
  <2>1. LET kk == Through("parse", h)
            no == s[kk+1].noise
            pk == s[kk+1].pkt
        IN  /\ kk \in Nat /\ kk < Len(s) /\ pk \in Seq(Bytes)
            /\ b[1] \in ParsedTypes =>
                  /\ e = Start(s, kk) + Len(no) /\ b[1] = pk[1]
                  /\ Complete(b) <=> Len(b) >= Len(pk)
                  /\ Complete(b) => PktLen(b) = Len(pk) /\ SubSeq(b, 1, PktLen(b)) = pk
            /\ b[1] \notin ParsedTypes =>
                  /\ e < Start(s, kk) + Len(no)
                  /\ FindValidType(b) \in 1..Len(b)
                  /\ e + FindValidType(b) <= Start(s, kk) + Len(no)
    BY <1>1, AtPacket, Zenon
  <2> QED BY <1>1, <2>1, Zenon
<1>3. k = Len(h) /\ Len(s) \in Nat
  <2>1. k = Len(h)
    BY DEF Through
  <2>2. Len(s) \in Nat
    BY FramedTypes, Zenon
  <2> QED BY <2>1, <2>2
<1>4. /\ e <= r /\ r <= Len(BytesOf(s))
      /\ b = Window(BytesOf(s), e, r) /\ w = Window(BytesOf(s), r, Len(BytesOf(s)))
      /\ h \in Seq(Seq(Bytes)) /\ \A i \in 1..Len(h) : h[i] = s[i].pkt
      /\ e >= Start(s, k) /\ e <= Start(s, k) + Len(s[k+1].noise)
  BY <1>2, Zenon DEF Framed
<1> HIDE DEF k
<1>5. /\ g \in Seq(Seq(Bytes)) /\ Len(g) = k + 1 /\ k + 1 <= Len(s) /\ (k + 1) - 1 = k
      /\ k \in 0..Len(s) /\ k # Len(s)
      /\ \A i \in 1..k : g[i] = h[i]
      /\ g[k+1] = pkt /\ \A i \in 1..(k + 1) : i \in 1..k \/ i = k + 1
  <2> HIDE DEF pkt
  <2>1. Append(h, pkt) \in Seq(Seq(Bytes)) /\ Len(Append(h, pkt)) = Len(h) + 1
    BY <1>2, <1>4
  <2>2. \A i \in 1..k : g[i] = h[i]
    BY <1>2, <1>3, <1>4
  <2>3. g[k+1] = pkt
    BY <1>2, <1>3, <1>4
  <2> HIDE DEF g
  <2> QED BY <1>2, <1>3, <2>1, <2>2, <2>3 DEF g
<1> HIDE DEF g
<1>6. \A i \in 1..Len(g) : g[i] = s[i].pkt
  BY <1>3, <1>4, <1>5, Zenon DEF pkt
<1>7. Through("lock", g) = k
  BY <1>5 DEF Through
<1>8. Framed(s, g, b, w, "lock", e, r)
  <2> HIDE DEF pkt
  <2>1. Len(g) <= Len(s)
    BY <1>5, Zenon
  <2> QED BY <1>1, <1>4, <1>5, <1>6, <1>7, <2>1, Zenon DEF Framed
<1>9. g = Append(h, SubSeq(b, 1, PktLen(b)))
  BY <1>2, Zenon DEF g
<1> QED BY <1>2, <1>3, <1>8, <1>9, Zenon

\* The packet leaves the buffer; the thread is through with it.
LEMMA FramedConsume ==
    ASSUME NEW s, IsStream(s), IsFramed(s), NEW h, NEW b, NEW w, NEW e \in Nat, NEW r \in Nat,
           Framed(s, h, b, w, "write", e, r)
    PROVE  LET rest == Drop(b, PktLen(b))
           IN  /\ Len(h) \in 1..Len(s) /\ SubSeq(b, 1, PktLen(b)) = h[Len(h)]
               /\ e + PktLen(b) \in Nat
               /\ Framed(s, h, rest, w, AfterPacket(rest), e + PktLen(b), r)
<1>0. Len(b) = r - e
  BY FramedLength
<1> DEFINE k == Through("write", h)
           pkt == s[k+1].pkt
           noise == s[k+1].noise
           t == BytesOf(s)
           n == Len(pkt)
           u == e + n
           rest == Drop(b, PktLen(b))
           m == AfterPacket(rest)
<1>1. Complete(b)
  BY Zenon DEF Framed
<1>2. b # <<>> /\ b[1] \in ParsedTypes
  BY <1>1, Zenon DEF Complete
<1>3. /\ k \in Nat /\ k < Len(s) /\ pkt \in Seq(Bytes)
      /\ e = Start(s, k) + Len(noise) /\ Len(b) >= n
      /\ PktLen(b) = n /\ SubSeq(b, 1, PktLen(b)) = pkt
  <2>1. LET kk == Through("write", h)
            no == s[kk+1].noise
            pk == s[kk+1].pkt
        IN  /\ kk \in Nat /\ kk < Len(s) /\ pk \in Seq(Bytes)
            /\ b[1] \in ParsedTypes =>
                  /\ e = Start(s, kk) + Len(no) /\ b[1] = pk[1]
                  /\ Complete(b) <=> Len(b) >= Len(pk)
                  /\ Complete(b) => PktLen(b) = Len(pk) /\ SubSeq(b, 1, PktLen(b)) = pk
            /\ b[1] \notin ParsedTypes =>
                  /\ e < Start(s, kk) + Len(no)
                  /\ FindValidType(b) \in 1..Len(b)
                  /\ e + FindValidType(b) <= Start(s, kk) + Len(no)
    BY <1>2, AtPacket, Zenon
  <2> QED BY <1>1, <1>2, <2>1, Zenon
<1>4. k = Len(h) - 1
  BY DEF Through
<1>5. t \in Seq(Bytes) /\ Len(t) \in Nat /\ Len(s) \in Nat /\ Len(b) = r - e
  <2>1. t \in Seq(Bytes) /\ Len(t) \in Nat /\ Len(s) \in Nat
    BY FramedTypes, Zenon
  <2> QED BY <1>0, <2>1, Zenon
<1>6. /\ e <= r /\ r <= Len(t)
      /\ b = Window(t, e, r) /\ w = Window(t, r, Len(t))
      /\ h \in Seq(Seq(Bytes)) /\ Len(h) <= Len(s) /\ \A i \in 1..Len(h) : h[i] = s[i].pkt
  BY Zenon DEF Framed
<1>7. Start(s, k + 1) = u
  <2>1. Start(s, k) \in Nat /\ noise \in Seq(Bytes)
        /\ Start(s, k + 1) = Start(s, k) + Len(noise) + Len(pkt)
    <3> HIDE DEF k
    <3> QED BY <1>3, StreamPlace, Zenon
  <2>2. Len(noise) \in Nat /\ Len(pkt) \in Nat
    BY <1>3, <2>1
  <2> HIDE DEF k, pkt, noise
  <2> QED BY <1>3, <2>1, <2>2
<1> HIDE DEF k, t, pkt, noise
<1>8. Len(h) = k + 1 /\ k + 1 \in 1..Len(s) /\ Len(h) \in 1..Len(s) /\ Len(h) \in Nat
  <2>1. Len(h) \in Nat
    BY <1>6
  <2> QED BY <1>3, <1>4, <1>5, <2>1
<1>9. h[Len(h)] = pkt
  <2>1. h[Len(h)] = s[Len(h)].pkt
    BY <1>6, <1>8
  <2> QED BY <1>8, <2>1, Zenon DEF pkt
<1>10. n \in Nat /\ n \in 0..(r - e)
  BY <1>3, <1>5
<1> HIDE DEF n
<1>11. u \in Nat /\ u <= r /\ Drop(b, n) = Window(t, u, r)
  BY <1>5, <1>6, <1>10, WindowDropped
<1> HIDE DEF u
<1>12. m \notin {"lock", "write"} /\ (m # "poll" => rest # <<>>) /\ Through(m, h) = k + 1
  <2>1. (m = "parse" /\ Len(rest) >= 4) \/ m = "poll"
    BY DEF AfterPacket
  <2> HIDE DEF m
  <2>2. Through(m, h) = k + 1
    BY <1>8, <2>1 DEF Through
  <2>3. Len(rest) >= 4 => rest # <<>>
    <3> HIDE DEF rest
    <3> SUFFICES ASSUME rest = <<>>, Len(rest) >= 4 PROVE FALSE
      OBVIOUS
    <3> QED OBVIOUS
  <2> QED BY <2>1, <2>2, <2>3
<1>13. rest = Window(t, u, r)
  BY <1>3, <1>11, Zenon
<1> HIDE DEF m, rest
<1>14. /\ k + 1 \in 0..Len(s)
       /\ k + 1 = Len(s) => u = Start(s, Len(s))
       /\ k + 1 < Len(s) =>
             u >= Start(s, k + 1) /\ u <= Start(s, k + 1) + Len(s[(k + 1) + 1].noise)
  <2>1. k + 1 \in 0..Len(s)
    BY <1>8
  <2>2. ASSUME k + 1 < Len(s)
        PROVE  u >= Start(s, k + 1) /\ u <= Start(s, k + 1) + Len(s[(k + 1) + 1].noise)
    <3> DEFINE j == k + 1
               x == Len(s[j+1].noise)
    <3>1. j \in Nat /\ j < Len(s)
      BY <1>3, <2>2
    <3> HIDE DEF j
    <3>2. s[j+1].noise \in Seq(Bytes)
      BY <3>1, StreamPlace, Zenon
    <3>3. x \in Nat
      BY <3>2
    <3> HIDE DEF x
    <3>4. u >= u /\ u <= u + x
      BY <1>11, <3>3
    <3> QED BY <1>7, <3>4, Zenon DEF x, j
  <2> QED BY <1>7, <2>1, <2>2, Zenon
<1>15. Framed(s, h, rest, w, m, u, r)
  BY <1>6, <1>11, <1>12, <1>13, <1>14, Zenon DEF Framed, t
<1> QED BY <1>3, <1>8, <1>9, <1>11, <1>15, Zenon DEF u, m, rest

-----------------------------------------------------------------------------
(* What a thread has done with its stream *)

\* The packets of a stream that are for the host, one part for each packet.
HostParts(s) == [i \in 1..Len(s) |-> ForHost(s[i].pkt)]

LEMMA HostPartsType ==
    ASSUME NEW s, IsStream(s)
    PROVE  /\ HostParts(s) \in Seq(Seq(Seq(Bytes))) /\ Len(HostParts(s)) = Len(s) /\ Len(s) \in Nat
           /\ \A i \in 1..Len(s) : HostParts(s)[i] = ForHost(s[i].pkt)
<1> DEFINE e(i) == ForHost(s[i].pkt)
           S == Seq(Bytes)
<1>1. Len(s) \in Nat /\ \A i \in 1..Len(s) : s[i].pkt \in S
  BY ItemFields
<1> HIDE DEF S
<1>2. \A i \in 1..Len(s) : e(i) \in Seq(S)
  <2> SUFFICES ASSUME NEW i \in 1..Len(s) PROVE e(i) \in Seq(S)
    OBVIOUS
  <2>1. s[i].pkt \in S
    BY <1>1
  <2>2. \A x \in S : <<x>> \in Seq(S) /\ <<>> \in Seq(S)
    OBVIOUS
  <2> QED BY <2>1, <2>2 DEF ForHost
<1>3. HostParts(s) = [i \in 1..Len(s) |-> e(i)]
  BY DEF HostParts
<1> HIDE DEF e
<1>4. HostParts(s) \in Seq(Seq(S)) /\ Len(HostParts(s)) = Len(s)
      /\ \A i \in 1..Len(s) : HostParts(s)[i] = e(i)
  BY <1>1, <1>2, <1>3
<1> QED BY <1>1, <1>4 DEF e, S

LEMMA HostNext ==
    ASSUME NEW s, IsStream(s), NEW k \in Nat, k < Len(s)
    PROVE  /\ Joined(HostParts(s), k) \in Seq(Seq(Bytes))
           /\ Joined(HostParts(s), k + 1) = Joined(HostParts(s), k) \o ForHost(s[k+1].pkt)
<1> DEFINE S == Seq(Bytes)
           q == HostParts(s)
<1>1. q \in Seq(Seq(S)) /\ Len(q) = Len(s) /\ Len(s) \in Nat
      /\ \A i \in 1..Len(s) : q[i] = ForHost(s[i].pkt)
  BY HostPartsType, Zenon
<1> HIDE DEF S, q
<1>2. Joined(q, k) \in Seq(S) /\ Joined(q, k + 1) = Joined(q, k) \o q[k+1]
  BY <1>1, JoinedNext
<1>3. k + 1 \in 1..Len(s)
  BY <1>1
<1>4. q[k+1] = ForHost(s[k+1].pkt)
  BY <1>1, <1>3
<1> QED BY <1>2, <1>4, Zenon DEF S, q

\* A thread at place l gave the packets h of its stream s to the logs and the packets d to the host.
Tracks(s, h, b, w, l, d) ==
    /\ \E e, r \in Nat : Framed(s, h, b, w, l, e, r)
    /\ d = Joined(HostParts(s), Through(l, h))
    /\ l \in {"lock", "write"} => h[Len(h)][1] # HCI_EVENT_SKWLOG

LEMMA TracksStart ==
    ASSUME NEW s, IsStream(s)
    PROVE  Tracks(s, <<>>, <<>>, BytesOf(s), "poll", <<>>)
<1> DEFINE t == BytesOf(s)
           n == Len(t)
<1>1. Start(s, 0) = 0 /\ Start(s, Len(s)) = n /\ t \in Seq(Bytes)
  BY StreamEnds, Zenon
<1>2. Len(s) \in Nat /\ \A i \in 1..Len(s) : s[i].noise \in Seq(Bytes)
  BY ItemFields
<1> HIDE DEF t
<1>3. n \in Nat /\ SubSeq(t, 1, n) = t /\ SubSeq(t, 1, 0) = <<>>
  BY <1>1
<1>4. Window(t, 0, 0) = <<>> /\ Window(t, 0, n) = t
  BY <1>3 DEF Window
<1>5. /\ <<>> \in Seq(Seq(Bytes)) /\ Len(<<>>) = 0 /\ 0 <= Len(s) /\ 0 <= n
      /\ \A i \in 1..Len(<<>>) : <<>>[i] = s[i].pkt
      /\ 0 \in 0..Len(s)
  BY <1>2, <1>3
<1>6. Through("poll", <<>>) = 0
  BY DEF Through
<1>7. 0 = Len(s) => 0 = Start(s, Len(s))
  BY <1>1
<1>8. 0 < Len(s) => 0 >= Start(s, 0) /\ 0 <= Start(s, 0) + Len(s[0 + 1].noise)
  BY <1>1, <1>2
<1>9. Framed(s, <<>>, <<>>, t, "poll", 0, 0)
  <2>1. 0 <= 0
    OBVIOUS
  <2>2. "poll" \notin {"lock", "write"}
    OBVIOUS
  <2> HIDE DEF n
  <2> QED BY <1>3, <1>4, <1>5, <1>6, <1>7, <1>8, <2>1, <2>2, Zenon DEF Framed, t, n
<1>10. Joined(HostParts(s), 0) = <<>>
  <2> DEFINE S == Seq(Bytes)
  <2>1. HostParts(s) \in Seq(Seq(S))
    BY HostPartsType, Zenon
  <2> HIDE DEF S
  <2> QED BY <2>1, JoinedEnds
<1>11. "poll" \notin {"lock", "write"} /\ 0 \in Nat
  OBVIOUS
<1> QED BY <1>6, <1>9, <1>10, <1>11, Zenon DEF Tracks, t

LEMMA TracksRead ==
    ASSUME NEW s, IsStream(s), NEW h, NEW b, NEW w, NEW d, Tracks(s, h, b, w, "poll", d),
           NEW n \in 1..Len(w)
    PROVE  Tracks(s, h, b \o SubSeq(w, 1, n), Drop(w, n), "parse", d)
<1>1. PICK e \in Nat, r \in Nat : Framed(s, h, b, w, "poll", e, r)
  BY Zenon DEF Tracks
<1>2. Len(w) = Len(BytesOf(s)) - r
  BY <1>1, FramedLength
<1>3. BytesOf(s) \in Seq(Bytes)
  BY <1>1, FramedTypes, Zenon
<1>4. n \in Nat /\ n >= 1 /\ n <= Len(BytesOf(s)) - r
  BY <1>2, <1>3
<1>5. r + n \in Nat /\ Framed(s, h, b \o SubSeq(w, 1, n), Drop(w, n), "parse", e, r + n)
  BY <1>1, <1>4, FramedRead, Zenon
<1>6. Through("parse", h) = Through("poll", h) /\ "parse" \notin {"lock", "write"}
  BY DEF Through
<1> QED BY <1>5, <1>6, Zenon DEF Tracks

LEMMA TracksWaits ==
    ASSUME NEW s, NEW h, NEW b, NEW w, NEW d, Tracks(s, h, b, w, "parse", d)
    PROVE  Tracks(s, h, b, w, "poll", d)
<1>1. Through("parse", h) = Through("poll", h) /\ "poll" \notin {"lock", "write"}
  BY DEF Through
<1> QED BY <1>1, FramedWaits, Zenon DEF Tracks

LEMMA TracksInvalid ==
    ASSUME NEW s, IsStream(s), IsFramed(s), NEW h, NEW b, NEW w, NEW d,
           Tracks(s, h, b, w, "parse", d), b[1] \notin ParsedTypes
    PROVE  Tracks(s, h, Drop(b, FindValidType(b)), w, "poll", d)
<1>1. PICK e \in Nat, r \in Nat : Framed(s, h, b, w, "parse", e, r)
  BY Zenon DEF Tracks
<1>2. /\ e + FindValidType(b) \in Nat
      /\ Framed(s, h, Drop(b, FindValidType(b)), w, "poll", e + FindValidType(b), r)
  BY <1>1, FramedInvalid, Zenon
<1>3. Through("parse", h) = Through("poll", h) /\ "poll" \notin {"lock", "write"}
  BY DEF Through
<1> QED BY <1>2, <1>3, Zenon DEF Tracks

\* The packet that is recognised is the next one, and is the last of the ones in the logs.
Recognises(s, h, b, w, d, pkt, g) ==
    /\ pkt = s[Len(h) + 1].pkt /\ g[Len(g)][1] = b[1]
    /\ Len(g) = Len(h) + 1 /\ Len(h) \in Nat /\ Len(h) < Len(s)
    /\ \E e, r \in Nat : Framed(s, g, b, w, "lock", e, r)
    /\ d = Joined(HostParts(s), Len(h)) /\ Through("lock", g) = Len(h)

LEMMA TracksRecognise ==
    ASSUME NEW s, IsStream(s), IsFramed(s), NEW h, NEW b, NEW w, NEW d,
           Tracks(s, h, b, w, "parse", d), Complete(b)
    PROVE  Recognises(s, h, b, w, d, SubSeq(b, 1, PktLen(b)), Append(h, SubSeq(b, 1, PktLen(b))))
<1> DEFINE pkt == SubSeq(b, 1, PktLen(b))
           g == Append(h, pkt)
<1>1. PICK e \in Nat, r \in Nat : Framed(s, h, b, w, "parse", e, r)
  BY Zenon DEF Tracks
<1>2. /\ Len(h) \in Nat /\ Len(h) < Len(s) /\ pkt = s[Len(h) + 1].pkt
      /\ Framed(s, g, b, w, "lock", e, r)
  BY <1>1, FramedRecognise, Zenon
<1>3. h \in Seq(Seq(Bytes)) /\ g \in Seq(Seq(Bytes))
  BY <1>1, <1>2, Zenon DEF Framed
<1>4. b \in Seq(Bytes)
  BY <1>1, FramedTypes, Zenon
<1>5. b[1] = pkt[1] /\ pkt \in Seq(Bytes)
  <2> DEFINE n == PktLen(b)
             k == Len(h)
  <2>1. n \in 0..Len(b) /\ Len(b) \in Nat
    BY <1>4, CompleteLength
  <2>2. IsPacket(pkt)
    <3>1. Len(s) \in Nat
      BY <1>1, FramedTypes, Zenon
    <3>2. k \in Nat /\ k < Len(s) /\ pkt = s[k+1].pkt
      BY <1>2, Zenon
    <3>3. k + 1 \in 1..Len(s)
      <4> HIDE DEF k
      <4> QED BY <3>1, <3>2
    <3> QED BY <3>2, <3>3, Zenon DEF IsFramed
  <2>3. n \in 1..Len(b)
    <3>1. Len(pkt) = n
      <4> HIDE DEF n
      <4> QED BY <1>4, <2>1 DEF n
    <3>2. Len(pkt) >= 3
      <4> HIDE DEF pkt
      <4> QED BY <2>2, SMT DEF IsPacket
    <3> HIDE DEF n, pkt
    <3> QED BY <2>1, <3>1, <3>2
  <2> HIDE DEF n
  <2>4. SubSeq(b, 1, n)[1] = b[1] /\ SubSeq(b, 1, n) \in Seq(Bytes)
    BY <1>4, <2>1, <2>3
  <2> QED BY <2>4 DEF n
<1> HIDE DEF pkt
<1>6. Len(g) = Len(h) + 1 /\ g[Len(h) + 1] = pkt
  BY <1>3, <1>5
<1>7. d = Joined(HostParts(s), Len(h)) /\ Through("lock", g) = Len(h)
  <2>1. d = Joined(HostParts(s), Through("parse", h))
    BY Zenon DEF Tracks
  <2>2. Through("parse", h) = Len(h)
    BY DEF Through
  <2>3. Through("lock", g) = Len(h)
    <3> HIDE DEF g
    <3> QED BY <1>2, <1>6 DEF Through
  <2> QED BY <2>1, <2>2, <2>3, Zenon
<1>8. g[Len(g)][1] = b[1]
  BY <1>5, <1>6, Zenon
<1> HIDE DEF g
<1> QED BY <1>2, <1>6, <1>7, <1>8, Zenon DEF pkt, g, Recognises

LEMMA TracksPacket ==
    ASSUME NEW s, IsStream(s), IsFramed(s), NEW h, NEW b, NEW w, NEW d,
           Tracks(s, h, b, w, "parse", d), Complete(b), b[1] # HCI_EVENT_SKWLOG
    PROVE  Tracks(s, Append(h, SubSeq(b, 1, PktLen(b))), b, w, "lock", d)
<1> DEFINE pkt == SubSeq(b, 1, PktLen(b))
           g == Append(h, pkt)
<1>1. Recognises(s, h, b, w, d, pkt, g)
  BY TracksRecognise
<1> HIDE DEF g
<1> QED BY <1>1, Zenon DEF Tracks, Recognises, g

LEMMA TracksLocks ==
    ASSUME NEW s, NEW h, NEW b, NEW w, NEW d, Tracks(s, h, b, w, "lock", d)
    PROVE  Tracks(s, h, b, w, "write", d)
<1>1. Through("lock", h) = Through("write", h) /\ "lock" \in {"lock", "write"}
  BY DEF Through
<1> QED BY <1>1, FramedLocks, Zenon DEF Tracks

LEMMA AfterPlace ==
    ASSUME NEW rest
    PROVE  AfterPacket(rest) \in {"poll", "parse"} /\ AfterPacket(rest) \notin {"lock", "write"}
BY DEF AfterPacket

LEMMA TracksLog ==
    ASSUME NEW s, IsStream(s), IsFramed(s), NEW h, NEW b, NEW w, NEW d,
           Tracks(s, h, b, w, "parse", d), Complete(b), b[1] = HCI_EVENT_SKWLOG
    PROVE  LET rest == Drop(b, PktLen(b))
           IN  Tracks(s, Append(h, SubSeq(b, 1, PktLen(b))), rest, w, AfterPacket(rest), d)
<1> DEFINE pkt == SubSeq(b, 1, PktLen(b))
           g == Append(h, pkt)
           rest == Drop(b, PktLen(b))
           m == AfterPacket(rest)
<1>0. Recognises(s, h, b, w, d, pkt, g)
  BY TracksRecognise
<1>1. /\ pkt = s[Len(h) + 1].pkt /\ g[Len(g)][1] = b[1]
      /\ Len(g) = Len(h) + 1 /\ Len(h) \in Nat /\ Len(h) < Len(s)
      /\ \E e, r \in Nat : Framed(s, g, b, w, "lock", e, r)
      /\ d = Joined(HostParts(s), Len(h))
  <2> HIDE DEF pkt, g
  <2> QED BY <1>0, Zenon DEF Recognises
<1>2. PICK e \in Nat, r \in Nat : Framed(s, g, b, w, "lock", e, r)
  BY <1>1, Zenon
<1>3. pkt = g[Len(g)] /\ e + PktLen(b) \in Nat /\ Framed(s, g, rest, w, m, e + PktLen(b), r)
  <2>1. Framed(s, g, b, w, "write", e, r)
    <3> HIDE DEF g
    <3> QED BY <1>2, FramedLocks
  <2>2. LET x == Drop(b, PktLen(b))
        IN  /\ Len(g) \in 1..Len(s) /\ SubSeq(b, 1, PktLen(b)) = g[Len(g)]
            /\ e + PktLen(b) \in Nat
            /\ Framed(s, g, x, w, AfterPacket(x), e + PktLen(b), r)
    <3> HIDE DEF g
    <3> QED BY <2>1, FramedConsume, Zenon
  <2> QED BY <2>2, Zenon
<1>4. m \notin {"lock", "write"} /\ Through(m, g) = Len(g)
  <2>1. m \notin {"lock", "write"}
    BY AfterPlace
  <2> HIDE DEF m, g
  <2> QED BY <2>1 DEF Through
<1>5. ForHost(pkt) = <<>>
  <2>1. pkt[1] = b[1]
    BY <1>1, <1>3, Zenon
  <2> HIDE DEF pkt
  <2> QED BY <2>1 DEF ForHost
<1>6. Joined(HostParts(s), Len(g)) = d
  <2> DEFINE k == Len(h)
             S == Seq(Bytes)
  <2>1. k \in Nat /\ k < Len(s)
    BY <1>1
  <2>2. Joined(HostParts(s), k) = d /\ Len(g) = k + 1 /\ s[k+1].pkt = pkt
    BY <1>1, Zenon
  <2> HIDE DEF k, g, pkt
  <2>3. d \in Seq(S) /\ Joined(HostParts(s), k + 1) = d \o ForHost(pkt)
    BY <2>1, <2>2, HostNext, Zenon
  <2> HIDE DEF S
  <2>4. d \o <<>> = d
    BY <2>3, ConcatEmptySeq
  <2> QED BY <1>5, <2>2, <2>3, <2>4, Zenon
<1> HIDE DEF m
<1>7. Tracks(s, g, rest, w, m, d)
  BY <1>3, <1>4, <1>6, Zenon DEF Tracks
<1> QED BY <1>7, Zenon DEF m

\* The packet that the host got is the next one for the host.
Passes(s, h, w, d, pkt, rest) ==
    /\ Tracks(s, h, rest, w, AfterPacket(rest), d \o <<pkt>>)
    /\ \E k \in Nat : /\ k < Len(s) /\ d = Joined(HostParts(s), k)
                      /\ Joined(HostParts(s), k + 1) = d \o <<pkt>>

LEMMA TracksRelease ==
    ASSUME NEW s, IsStream(s), IsFramed(s), NEW h, NEW b, NEW w, NEW d, Tracks(s, h, b, w, "write", d)
    PROVE  Passes(s, h, w, d, SubSeq(b, 1, PktLen(b)), Drop(b, PktLen(b)))
<1> DEFINE pkt == SubSeq(b, 1, PktLen(b))
           rest == Drop(b, PktLen(b))
           m == AfterPacket(rest)
           k == Len(h) - 1
<1>1. PICK e \in Nat, r \in Nat : Framed(s, h, b, w, "write", e, r)
  BY Zenon DEF Tracks
<1>2. /\ Len(h) \in 1..Len(s) /\ pkt = h[Len(h)] /\ e + PktLen(b) \in Nat
      /\ Framed(s, h, rest, w, m, e + PktLen(b), r)
  BY <1>1, FramedConsume, Zenon
<1>3. \A i \in 1..Len(h) : h[i] = s[i].pkt
  BY <1>1, Zenon DEF Framed
<1>4. Len(s) \in Nat
  BY <1>1, FramedTypes, Zenon
<1>5. "write" \in {"lock", "write"} /\ Through("write", h) = k
  BY DEF Through
<1>6. d = Joined(HostParts(s), k) /\ pkt[1] # HCI_EVENT_SKWLOG
  BY <1>2, <1>5, Zenon DEF Tracks
<1>7. k \in Nat /\ k < Len(s) /\ k + 1 = Len(h) /\ Len(h) \in 1..Len(h)
  BY <1>2, <1>4
<1>8. ForHost(pkt) = <<pkt>>
  <2> HIDE DEF pkt
  <2> QED BY <1>6 DEF ForHost
<1>9. pkt = s[k+1].pkt
  <2> HIDE DEF k, pkt
  <2> QED BY <1>2, <1>3, <1>7
<1>10. m \notin {"lock", "write"} /\ Through(m, h) = Len(h)
  <2>1. m \notin {"lock", "write"}
    BY AfterPlace
  <2> HIDE DEF m
  <2> QED BY <2>1 DEF Through
<1> HIDE DEF k, m
<1>11. Joined(HostParts(s), k + 1) = d \o <<pkt>>
  BY <1>6, <1>7, <1>8, <1>9, HostNext, Zenon
<1>12. Tracks(s, h, rest, w, m, d \o <<pkt>>)
  BY <1>2, <1>7, <1>10, <1>11, Zenon DEF Tracks
<1> QED BY <1>6, <1>7, <1>11, <1>12, Zenon DEF m, Passes

-----------------------------------------------------------------------------
(* The threads keep track of their streams *)

\* The packets that the host got from a port, one part for each delivery.
OnParts(p, ds) == [i \in 1..Len(ds) |-> OnPort(p, ds[i])]
On(p, ds) == FlattenSeq(OnParts(p, ds))

LEMMA OnPartsType ==
    ASSUME NEW ds \in Seq([port : Port, pkt : Seq(Bytes)]), NEW p
    PROVE  OnParts(p, ds) \in Seq(Seq(Seq(Bytes))) /\ On(p, ds) \in Seq(Seq(Bytes))
<1> DEFINE S == Seq(Bytes)
           R == [port : Port, pkt : S]
           e(i) == OnPort(p, ds[i])
<1>1. \A d \in R : OnPort(p, d) \in Seq(S)
  <2> SUFFICES ASSUME NEW d \in R PROVE OnPort(p, d) \in Seq(S)
    OBVIOUS
  <2>1. d.pkt \in S
    OBVIOUS
  <2> HIDE DEF S
  <2>2. \A x \in S : <<x>> \in Seq(S) /\ <<>> \in Seq(S)
    OBVIOUS
  <2> QED BY <2>1, <2>2 DEF OnPort
<1> HIDE DEF R
<1>2. Len(ds) \in Nat /\ \A i \in 1..Len(ds) : ds[i] \in R
  <2>1. ds \in Seq(R)
    BY Zenon DEF R
  <2> QED BY <2>1, ElementOfSeq
<1>3. \A i \in 1..Len(ds) : e(i) \in Seq(S)
  BY <1>1, <1>2
<1>4. OnParts(p, ds) = [i \in 1..Len(ds) |-> e(i)]
  BY DEF OnParts
<1> HIDE DEF S, e
<1>5. OnParts(p, ds) \in Seq(Seq(S))
  BY <1>2, <1>3, <1>4
<1>6. FlattenSeq(OnParts(p, ds)) \in Seq(S)
  BY <1>5, FlattenType
<1> QED BY <1>5, <1>6, Zenon DEF On, S

LEMMA OnAppend ==
    ASSUME NEW ds \in Seq([port : Port, pkt : Seq(Bytes)]), NEW p, NEW q \in Port, NEW x \in Seq(Bytes)
    PROVE  On(p, Append(ds, [port |-> q, pkt |-> x])) = On(p, ds) \o (IF q = p THEN <<x>> ELSE <<>>)
<1> DEFINE S == Seq(Bytes)
           R == [port : Port, pkt : S]
           d == [port |-> q, pkt |-> x]
           f == OnPort(p, d)
           n == Len(ds)
           e(i) == OnPort(p, ds[i])
           c(i) == OnPort(p, Append(ds, d)[i])
<1>1. d \in R /\ f = (IF q = p THEN <<x>> ELSE <<>>)
  BY DEF OnPort
<1>2. OnParts(p, ds) \in Seq(Seq(S)) /\ On(p, ds) \in Seq(S)
  BY OnPartsType
<1>3. f \in Seq(S)
  <2>1. x \in S
    OBVIOUS
  <2> HIDE DEF S, f
  <2>2. <<x>> \in Seq(S) /\ <<>> \in Seq(S)
    BY <2>1
  <2> QED BY <1>1, <2>2
<1>4. ds \in Seq(R)
  OBVIOUS
<1> HIDE DEF R, d, S
<1>5. n \in Nat /\ Len(Append(ds, d)) = n + 1 /\ Append(ds, d)[n+1] = d
      /\ \A i \in 1..n : Append(ds, d)[i] = ds[i]
  BY <1>1, <1>4
<1>6. /\ \A i \in 1..n : c(i) = e(i)
      /\ c(n+1) = f
  BY <1>5, Zenon
<1>7. OnParts(p, Append(ds, d)) = [i \in 1..(n + 1) |-> c(i)] /\ OnParts(p, ds) = [i \in 1..n |-> e(i)]
  BY <1>5, Zenon DEF OnParts
<1>8. \A i \in 1..n : e(i) \in Seq(S)
  <2> HIDE DEF e
  <2> DEFINE g == OnParts(p, ds)
             Q == Seq(S)
  <2>1. (\A i \in 1..n : g[i] = e(i)) /\ Len(g) = n
    BY <1>5, <1>7
  <2>2. g \in Seq(Q)
    BY <1>2, Zenon
  <2> HIDE DEF n, g, Q
  <2>3. \A i \in 1..n : g[i] \in Q
    BY <2>1, <2>2, ElementOfSeq
  <2> QED BY <2>1, <2>3, Zenon DEF Q
<1> HIDE DEF c, e, f, n
<1>9. [i \in 1..(n + 1) |-> c(i)] = Append([i \in 1..n |-> e(i)], f)
  <2> DEFINE C == [i \in 1..(n + 1) |-> c(i)]
             E == [i \in 1..n |-> e(i)]
  <2>1. E \in Seq(Seq(S)) /\ Len(E) = n /\ \A i \in 1..n : E[i] = e(i)
    BY <1>5, <1>8
  <2>2. C \in Seq(Seq(S)) /\ Len(C) = n + 1 /\ \A i \in 1..(n + 1) : C[i] = c(i)
    <3>1. \A i \in 1..(n + 1) : c(i) \in Seq(S)
      <4> SUFFICES ASSUME NEW i \in 1..(n + 1) PROVE c(i) \in Seq(S)
        OBVIOUS
      <4>1. i \in 1..n \/ i = n + 1
        BY <1>5
      <4> QED BY <1>3, <1>6, <1>8, <4>1
    <3> QED BY <1>5, <3>1
  <2> HIDE DEF C, E
  <2>3. Append(E, f) \in Seq(Seq(S)) /\ Len(Append(E, f)) = n + 1
        /\ Append(E, f)[n + 1] = f /\ \A i \in 1..n : Append(E, f)[i] = E[i]
    BY <1>3, <1>5, <2>1
  <2>4. \A i \in 1..(n + 1) : C[i] = Append(E, f)[i]
    <3> SUFFICES ASSUME NEW i \in 1..(n + 1) PROVE C[i] = Append(E, f)[i]
      OBVIOUS
    <3>1. i \in 1..n \/ i = n + 1
      BY <1>5
    <3> QED BY <1>6, <2>1, <2>2, <2>3, <3>1
  <2>5. C = Append(E, f)
    BY <2>2, <2>3, <2>4, SeqEqual
  <2> QED BY <2>5 DEF C, E
<1>10. OnParts(p, Append(ds, d)) = Append(OnParts(p, ds), f)
  BY <1>7, <1>9, Zenon
<1>11. FlattenSeq(Append(OnParts(p, ds), f)) = FlattenSeq(OnParts(p, ds)) \o f
  BY <1>2, <1>3, FlattenAppend DEF On
<1> QED BY <1>1, <1>10, <1>11, Zenon DEF On, d

Tracking ==
    /\ handled \in [Port -> Seq(Seq(Bytes))]
    /\ \A p \in Port : Tracks(stream[p], handled[p], buf[p], wire[p], pc[p], On(p, delivered))

\* A thread moves what is its own; what the host got from the other ports stays.
LEMMA ThreadTracks ==
    ASSUME Inv, Tracking, NEW p \in Port, stream' = stream,
           NEW h, handled' = [handled EXCEPT ![p] = h], NEW b, buf' = [buf EXCEPT ![p] = b],
           NEW w, wire' = [wire EXCEPT ![p] = w], NEW l, pc' = [pc EXCEPT ![p] = l],
           \A q \in Port \ {p} : On(q, delivered') = On(q, delivered),
           Tracks(stream[p], h, b, w, l, On(p, delivered'))
    PROVE  Tracking'
<1>1. h \in Seq(Seq(Bytes))
  BY Zenon DEF Tracks, Framed
<1>2. handled' \in [Port -> Seq(Seq(Bytes))]
  <2> DEFINE S == Seq(Seq(Bytes))
  <2>1. handled \in [Port -> S] /\ h \in S
    BY <1>1 DEF Tracking
  <2> HIDE DEF S
  <2>2. handled' \in [Port -> S]
    BY <2>1
  <2> QED BY <2>2 DEF S
<1>3. /\ handled'[p] = h /\ buf'[p] = b /\ wire'[p] = w /\ pc'[p] = l
      /\ \A q \in Port \ {p} : /\ handled'[q] = handled[q] /\ buf'[q] = buf[q]
                               /\ wire'[q] = wire[q] /\ pc'[q] = pc[q]
  BY DEF Inv, Types, Tracking
<1>4. ASSUME NEW q \in Port
      PROVE  Tracks(stream'[q], handled'[q], buf'[q], wire'[q], pc'[q], On(q, delivered'))
  <2>1. CASE q = p
    BY <1>3, <2>1, Zenon
  <2>2. CASE q # p
    <3>1. Tracks(stream[q], handled[q], buf[q], wire[q], pc[q], On(q, delivered))
      BY Zenon DEF Tracking
    <3> QED BY <1>3, <2>2, <3>1, Zenon
  <2> QED BY <2>1, <2>2
<1> QED BY <1>2, <1>4, Zenon DEF Tracking

\* What a step leaves alone.
LEMMA SameAll ==
    ASSUME Inv, Tracking, NEW p \in Port
    PROVE  /\ handled = [handled EXCEPT ![p] = handled[p]] /\ buf = [buf EXCEPT ![p] = buf[p]]
           /\ wire = [wire EXCEPT ![p] = wire[p]] /\ IsStream(stream[p])
           /\ Tracks(stream[p], handled[p], buf[p], wire[p], pc[p], On(p, delivered))
           /\ StreamsAreFramed => IsFramed(stream[p])
<1>1. handled = [handled EXCEPT ![p] = handled[p]]
  BY DEF Tracking
<1>2. buf = [buf EXCEPT ![p] = buf[p]] /\ wire = [wire EXCEPT ![p] = wire[p]]
  BY DEF Inv, Types
<1>3. stream \in Streams
  BY DEF Inv, Types
<1>4. IsStream(stream[p]) /\ (StreamsAreFramed => IsFramed(stream[p]))
  BY <1>3, StreamsAssumption, Zenon DEF StreamsAreFramed
<1> QED BY <1>1, <1>2, <1>4, Zenon DEF Tracking

\* How many bytes read returns.
LEMMA ReadAmount ==
    ASSUME Inv, NEW p \in Port, Room(p) > 0, wire[p] # <<>>,
           NEW n \in Transfers(Min({Len(wire[p]), Room(p)}))
    PROVE  n \in 1..Len(wire[p]) /\ n <= Room(p) /\ Room(p) \in Nat
<1>1. wire[p] \in Seq(Bytes) /\ Len(wire[p]) \in Nat
  BY DEF Inv, Types
<1>2. Len(wire[p]) # 0
  BY <1>1, EmptySeq
<1>3. Room(p) \in Nat
  <2>1. Room(p) \in Int
    BY BufSizeAssumption, Same DEF Room
  <2> QED BY <2>1
<1> DEFINE x == Len(wire[p])
           y == Room(p)
           m == Min({x, y})
<1>4. x \in Nat /\ x # 0 /\ y \in Nat /\ y > 0
  BY <1>1, <1>2, <1>3
<1>5. n = m \/ (n \in Chunks /\ n < m)
  BY DEF Transfers
<1> HIDE DEF x, y
<1>6. m \in {x, y} /\ m <= x /\ m <= y
  <2>1. x \in Int /\ y \in Int /\ {x, y} = {y, x}
    BY <1>4
  <2>2. m \in {x, y} /\ m <= x
    BY <2>1, MinOfTwo, Zenon
  <2>3. m <= y
    BY <2>1, MinOfTwo, Zenon
  <2> QED BY <2>2, <2>3
<1> HIDE DEF m
<1>7. m \in Nat /\ m >= 1
  BY <1>4, <1>6
<1>8. n \in Nat /\ n >= 1 /\ n <= m
  <2>1. CASE n = m
    BY <1>7, <2>1
  <2>2. CASE n \in Chunks /\ n < m
    <3>1. n \in Nat \ {0} /\ n < m
      BY <2>2, ChunksAssumption
    <3> QED BY <1>7, <3>1
  <2> QED BY <1>5, <2>1, <2>2
<1>9. n \in 1..x /\ n <= y
  BY <1>4, <1>6, <1>7, <1>8
<1> QED BY <1>4, <1>9 DEF x, y

LEMMA ReadTracks ==
    ASSUME Inv, Tracking, NEW p \in Port, Read(p)
    PROVE  Tracking'
<1>1. /\ pc[p] = "poll" /\ pc' = [pc EXCEPT ![p] = "parse"] /\ wire[p] # <<>> /\ Room(p) > 0
      /\ UNCHANGED <<stream, handled, delivered>>
  BY DEF Read
<1>2. PICK n \in Transfers(Min({Len(wire[p]), Room(p)})) :
        /\ buf' = [buf EXCEPT ![p] = buf[p] \o SubSeq(wire[p], 1, n)]
        /\ wire' = [wire EXCEPT ![p] = Drop(wire[p], n)]
  BY DEF Read
<1>3. n \in 1..Len(wire[p])
  BY <1>1, ReadAmount
<1> DEFINE b == buf[p] \o SubSeq(wire[p], 1, n)
           w == Drop(wire[p], n)
<1>4. Tracks(stream[p], handled[p], b, w, "parse", On(p, delivered))
  <2>1. IsStream(stream[p]) /\ Tracks(stream[p], handled[p], buf[p], wire[p], "poll", On(p, delivered))
    BY <1>1, SameAll, Zenon
  <2> QED BY <1>3, <2>1, TracksRead, Zenon
<1>5. /\ stream' = stream /\ handled' = [handled EXCEPT ![p] = handled[p]]
      /\ buf' = [buf EXCEPT ![p] = b] /\ wire' = [wire EXCEPT ![p] = w]
      /\ \A q \in Port : On(q, delivered') = On(q, delivered)
  <2>1. stream' = stream /\ handled' = handled /\ delivered' = delivered
    BY <1>1, Zenon
  <2> QED BY <1>2, <2>1, SameAll, Zenon
<1> HIDE DEF b, w
<1> QED BY <1>1, <1>4, <1>5, ThreadTracks, Zenon

LEMMA ParseMoreTracks ==
    ASSUME Inv, Tracking, NEW p \in Port, ParseMore(p)
    PROVE  Tracking'
<1>1. /\ pc[p] = "parse" /\ pc' = [pc EXCEPT ![p] = "poll"]
      /\ UNCHANGED <<stream, wire, buf, handled, delivered>>
  BY DEF ParseMore
<1>2. Tracks(stream[p], handled[p], buf[p], wire[p], "poll", On(p, delivered))
  BY <1>1, SameAll, TracksWaits, Zenon
<1>3. /\ stream' = stream /\ handled' = [handled EXCEPT ![p] = handled[p]]
      /\ buf' = [buf EXCEPT ![p] = buf[p]] /\ wire' = [wire EXCEPT ![p] = wire[p]]
      /\ \A q \in Port : On(q, delivered') = On(q, delivered)
  BY <1>1, SameAll, Zenon
<1> QED BY <1>1, <1>2, <1>3, ThreadTracks, Zenon

LEMMA ParseInvalidTracks ==
    ASSUME StreamsAreFramed, Inv, Tracking, NEW p \in Port, ParseInvalid(p)
    PROVE  Tracking'
<1>1. /\ pc[p] = "parse" /\ pc' = [pc EXCEPT ![p] = "poll"] /\ buf[p][1] \notin ParsedTypes
      /\ buf' = [buf EXCEPT ![p] = Drop(buf[p], FindValidType(buf[p]))]
      /\ UNCHANGED <<stream, wire, handled, delivered>>
  BY DEF ParseInvalid
<1> DEFINE b == Drop(buf[p], FindValidType(buf[p]))
<1>2. Tracks(stream[p], handled[p], b, wire[p], "poll", On(p, delivered))
  <2>1. /\ IsStream(stream[p]) /\ IsFramed(stream[p])
        /\ Tracks(stream[p], handled[p], buf[p], wire[p], "parse", On(p, delivered))
    BY <1>1, SameAll, Zenon
  <2> QED BY <1>1, <2>1, TracksInvalid, Zenon
<1>3. /\ stream' = stream /\ handled' = [handled EXCEPT ![p] = handled[p]]
      /\ buf' = [buf EXCEPT ![p] = b] /\ wire' = [wire EXCEPT ![p] = wire[p]]
      /\ \A q \in Port : On(q, delivered') = On(q, delivered)
  BY <1>1, SameAll, Zenon
<1> HIDE DEF b
<1> QED BY <1>1, <1>2, <1>3, ThreadTracks, Zenon

LEMMA ParseLogTracks ==
    ASSUME StreamsAreFramed, Inv, Tracking, NEW p \in Port, ParseLog(p)
    PROVE  Tracking'
<1> DEFINE g == Append(handled[p], SubSeq(buf[p], 1, PktLen(buf[p])))
           b == Drop(buf[p], PktLen(buf[p]))
           l == AfterPacket(b)
<1>1. /\ pc[p] = "parse" /\ Complete(buf[p]) /\ buf[p][1] = HCI_EVENT_SKWLOG
      /\ handled' = [handled EXCEPT ![p] = g]
      /\ buf' = [buf EXCEPT ![p] = b] /\ pc' = [pc EXCEPT ![p] = l]
      /\ UNCHANGED <<stream, wire, delivered>>
  BY DEF ParseLog, Recognise, Consume
<1>2. Tracks(stream[p], g, b, wire[p], l, On(p, delivered))
  <2>1. /\ IsStream(stream[p]) /\ IsFramed(stream[p])
        /\ Tracks(stream[p], handled[p], buf[p], wire[p], "parse", On(p, delivered))
    BY <1>1, SameAll, Zenon
  <2> QED BY <1>1, <2>1, TracksLog, Zenon
<1>3. /\ stream' = stream /\ wire' = [wire EXCEPT ![p] = wire[p]]
      /\ \A q \in Port : On(q, delivered') = On(q, delivered)
  BY <1>1, SameAll, Zenon
<1> HIDE DEF g, b, l
<1> QED BY <1>1, <1>2, <1>3, ThreadTracks, Zenon

LEMMA ParsePacketTracks ==
    ASSUME StreamsAreFramed, Inv, Tracking, NEW p \in Port, ParsePacket(p)
    PROVE  Tracking'
<1> DEFINE g == Append(handled[p], SubSeq(buf[p], 1, PktLen(buf[p])))
<1>1. /\ pc[p] = "parse" /\ Complete(buf[p]) /\ buf[p][1] # HCI_EVENT_SKWLOG
      /\ handled' = [handled EXCEPT ![p] = g] /\ pc' = [pc EXCEPT ![p] = "lock"]
      /\ UNCHANGED <<stream, wire, buf, delivered>>
  BY DEF ParsePacket, Recognise
<1>2. Tracks(stream[p], g, buf[p], wire[p], "lock", On(p, delivered))
  <2>1. /\ IsStream(stream[p]) /\ IsFramed(stream[p])
        /\ Tracks(stream[p], handled[p], buf[p], wire[p], "parse", On(p, delivered))
    BY <1>1, SameAll, Zenon
  <2> QED BY <1>1, <2>1, TracksPacket, Zenon
<1>3. /\ stream' = stream /\ buf' = [buf EXCEPT ![p] = buf[p]] /\ wire' = [wire EXCEPT ![p] = wire[p]]
      /\ \A q \in Port : On(q, delivered') = On(q, delivered)
  BY <1>1, SameAll, Zenon
<1> HIDE DEF g
<1> QED BY <1>1, <1>2, <1>3, ThreadTracks, Zenon

LEMMA AcquireTracks ==
    ASSUME Inv, Tracking, NEW p \in Port, Acquire(p)
    PROVE  Tracking'
<1>1. /\ pc[p] = "lock" /\ pc' = [pc EXCEPT ![p] = "write"]
      /\ UNCHANGED <<stream, wire, buf, handled, delivered>>
  BY DEF Acquire
<1>2. Tracks(stream[p], handled[p], buf[p], wire[p], "write", On(p, delivered))
  BY <1>1, SameAll, TracksLocks, Zenon
<1>3. /\ stream' = stream /\ handled' = [handled EXCEPT ![p] = handled[p]]
      /\ buf' = [buf EXCEPT ![p] = buf[p]] /\ wire' = [wire EXCEPT ![p] = wire[p]]
      /\ \A q \in Port : On(q, delivered') = On(q, delivered)
  BY <1>1, SameAll, Zenon
<1> QED BY <1>1, <1>2, <1>3, ThreadTracks, Zenon

\* A release is the one step by which the host gets a packet: the next one of the port.
LEMMA ReleaseTracks ==
    ASSUME StreamsAreFramed, Inv, Tracking, NEW p \in Port, Release(p)
    PROVE  /\ Tracking'
           /\ \A q \in Port \ {p} : On(q, delivered') = On(q, delivered)
           /\ \E pkt \in Seq(Bytes) : \E k \in Nat :
                 /\ delivered' = Append(delivered, [port |-> p, pkt |-> pkt])
                 /\ On(p, delivered') = On(p, delivered) \o <<pkt>>
                 /\ k < Len(stream[p]) /\ On(p, delivered) = Joined(HostParts(stream[p]), k)
                 /\ On(p, delivered') = Joined(HostParts(stream[p]), k + 1)
<1> DEFINE pkt == SubSeq(buf[p], 1, PktLen(buf[p]))
           b == Drop(buf[p], PktLen(buf[p]))
           l == AfterPacket(b)
           s == stream[p]
           d == On(p, delivered)
<1>1. /\ pc[p] = "write" /\ delivered' = Append(delivered, [port |-> p, pkt |-> pkt])
      /\ buf' = [buf EXCEPT ![p] = b] /\ pc' = [pc EXCEPT ![p] = l]
      /\ UNCHANGED <<stream, wire, handled>>
  BY DEF Release, Consume
<1>2. pkt \in Seq(Bytes)
  <2>1. Complete(buf[p]) /\ buf[p] \in Seq(Bytes)
    BY <1>1, Same DEF Inv, Sending
  <2> QED BY <2>1, CompleteLength
<1>3. /\ IsStream(s) /\ IsFramed(s) /\ Tracks(s, handled[p], buf[p], wire[p], "write", d)
  BY <1>1, SameAll, Zenon
<1>4. /\ Tracks(s, handled[p], b, wire[p], l, d \o <<pkt>>)
      /\ \E k \in Nat : /\ k < Len(s) /\ d = Joined(HostParts(s), k)
                        /\ Joined(HostParts(s), k + 1) = d \o <<pkt>>
  <2> HIDE DEF s, d
  <2>1. Passes(s, handled[p], wire[p], d, pkt, b)
    BY <1>3, TracksRelease
  <2> QED BY <2>1, Zenon DEF Passes
<1>5. delivered \in Seq([port : Port, pkt : Seq(Bytes)])
  BY DEF Inv, Types
<1> HIDE DEF pkt, b, l
<1>6. On(p, delivered') = d \o <<pkt>>
  BY <1>1, <1>2, <1>5, OnAppend, Zenon
<1>7. ASSUME NEW q \in Port \ {p} PROVE On(q, delivered') = On(q, delivered)
  <2> DEFINE S == Seq(Bytes)
             c == On(q, delivered)
  <2>1. On(q, delivered') = c \o <<>>
    <3>1. q # p
      OBVIOUS
    <3>2. On(q, Append(delivered, [port |-> p, pkt |-> pkt])) = c \o (IF p = q THEN <<pkt>> ELSE <<>>)
      BY <1>2, <1>5, OnAppend, Zenon
    <3> QED BY <1>1, <3>1, <3>2, Zenon
  <2>2. c \in Seq(S)
    BY <1>5, OnPartsType, Zenon
  <2> HIDE DEF S, c
  <2>3. c \o <<>> = c
    BY <2>2, ConcatEmptySeq
  <2> QED BY <2>1, <2>3, Zenon DEF c
<1>8. Tracks(s, handled[p], b, wire[p], l, On(p, delivered'))
  BY <1>4, <1>6, Zenon
<1>9. /\ stream' = stream /\ handled' = [handled EXCEPT ![p] = handled[p]]
      /\ wire' = [wire EXCEPT ![p] = wire[p]]
  BY <1>1, SameAll, Zenon
<1>10. Tracking'
  BY <1>1, <1>7, <1>8, <1>9, ThreadTracks, Zenon
<1>11. PICK k \in Nat : /\ k < Len(s) /\ d = Joined(HostParts(s), k)
                        /\ Joined(HostParts(s), k + 1) = d \o <<pkt>>
  BY <1>4, Zenon
<1> QED BY <1>1, <1>2, <1>6, <1>7, <1>10, <1>11, Zenon

LEMMA WriteTracks ==
    ASSUME Tracking, NEW p \in Port, Write(p)
    PROVE  Tracking'
<1>1. UNCHANGED <<stream, wire, buf, pc, handled, delivered>>
  BY DEF Write
<1> QED BY <1>1, Zenon DEF Tracking

LEMMA InitTracking == Init => Tracking
<1> SUFFICES ASSUME Init PROVE Tracking
  OBVIOUS
<1>1. /\ stream \in Streams /\ wire = [p \in Port |-> BytesOf(stream[p])]
      /\ buf = [p \in Port |-> <<>>] /\ pc = [p \in Port |-> "poll"]
      /\ handled = [p \in Port |-> <<>>] /\ delivered = <<>>
  BY DEF Init
<1>2. handled \in [Port -> Seq(Seq(Bytes))]
  <2> DEFINE S == Seq(Bytes)
  <2> HIDE DEF S
  <2>1. <<>> \in Seq(S)
    OBVIOUS
  <2> DEFINE T == Seq(S)
  <2> HIDE DEF T
  <2>2. [p \in Port |-> <<>>] \in [Port -> T]
    BY <2>1 DEF T
  <2> QED BY <1>1, <2>2 DEF S, T
<1>3. \A p \in Port : On(p, <<>>) = <<>>
  <2> SUFFICES ASSUME NEW p \in Port PROVE On(p, <<>>) = <<>>
    OBVIOUS
  <2>1. OnParts(p, <<>>) = <<>>
    BY DEF OnParts
  <2>2. Len(<<>>) = 0
    OBVIOUS
  <2>3. FlattenSeq(<<>>) = <<>>
    BY <2>2, Zenon DEF FlattenSeq
  <2> QED BY <2>1, <2>3, Zenon DEF On
<1>4. ASSUME NEW p \in Port
      PROVE  Tracks(stream[p], handled[p], buf[p], wire[p], pc[p], On(p, delivered))
  <2>1. IsStream(stream[p])
    BY <1>1, StreamsAssumption
  <2>2. /\ handled[p] = <<>> /\ buf[p] = <<>> /\ wire[p] = BytesOf(stream[p]) /\ pc[p] = "poll"
        /\ On(p, delivered) = <<>>
    BY <1>1, <1>3, Zenon
  <2> QED BY <2>1, <2>2, TracksStart, Zenon
<1> QED BY <1>2, <1>4, Zenon DEF Tracking

LEMMA NextTracking == StreamsAreFramed /\ Inv /\ Tracking /\ [Next]_vars => Tracking'
<1> SUFFICES ASSUME StreamsAreFramed, Inv, Tracking, [Next]_vars PROVE Tracking'
  OBVIOUS
<1>1. ASSUME NEW p \in Port, Thread(p) PROVE Tracking'
  BY <1>1, ReadTracks, ParseMoreTracks, ParseInvalidTracks, ParseLogTracks, ParsePacketTracks,
     AcquireTracks, WriteTracks, ReleaseTracks DEF Thread
<1>2. CASE UNCHANGED vars
  BY <1>2, Zenon DEF vars, Tracking
<1> QED BY <1>1, <1>2 DEF Next

\* The packets in the logs of a port are the first ones of its stream.
LEMMA TracksFramed ==
    ASSUME NEW s, IsStream(s), NEW h, NEW b, NEW w, NEW l, NEW d, Tracks(s, h, b, w, l, d)
    PROVE  IsPrefix(h, PacketsOf(s))
<1> DEFINE S == Seq(Bytes)
           e(i) == s[i].pkt
           q == PacketsOf(s)
           n == Len(s)
           k == Len(h)
<1>1. h \in Seq(S) /\ k <= n /\ \A i \in 1..k : h[i] = e(i)
  BY Zenon DEF Tracks, Framed
<1>2. n \in Nat /\ \A i \in 1..n : e(i) \in S
  BY ItemFields
<1>3. q = [i \in 1..n |-> e(i)]
  BY DEF PacketsOf
<1> HIDE DEF S, e, n
<1>4. q \in Seq(S) /\ Len(q) = n /\ \A i \in 1..n : q[i] = e(i)
  BY <1>2, <1>3
<1> HIDE DEF q
<1>5. k \in Nat /\ SubSeq(h, 1, k) = h
  BY <1>1
<1> HIDE DEF k
<1>6. SubSeq(q, 1, k) = h
  <2> DEFINE c == SubSeq(q, 1, k)
  <2>1. c \in Seq(S) /\ Len(c) = k /\ \A i \in 1..k : c[i] = q[i]
    BY <1>1, <1>2, <1>4, <1>5
  <2>2. \A i \in 1..k : i \in 1..n
    BY <1>1, <1>2, <1>5
  <2> HIDE DEF c
  <2>3. \A i \in 1..k : c[i] = h[i]
    BY <1>1, <1>4, <2>1, <2>2
  <2>4. Len(h) = k
    BY DEF k
  <2>5. c = h
    BY <1>1, <2>1, <2>3, <2>4, SeqEqual
  <2> QED BY <2>5 DEF c
<1>7. IsPrefix(h, q)
  BY <1>1, <1>4, <1>5, <1>6 DEF IsPrefix, k
<1> QED BY <1>7 DEF q

LEMMA TrackingRecognised == Inv /\ Tracking => PacketsRecognised
<1> SUFFICES ASSUME Inv, Tracking, NEW p \in Port PROVE IsPrefix(handled[p], PacketsOf(stream[p]))
  BY DEF PacketsRecognised
<1> QED BY SameAll, TracksFramed, Zenon

LEMMA InvTrackingAlways == ASSUME StreamsAreFramed PROVE Spec => [](Inv /\ Tracking)
<1>1. Init => Inv /\ Tracking
  BY InitInv, InitTracking
<1>2. Inv /\ Tracking /\ [Next]_vars => (Inv /\ Tracking)'
  BY NextInv, NextTracking
<1> QED BY <1>1, <1>2, PTL DEF Spec

-----------------------------------------------------------------------------
(* Room in the buffer *)

\* A buffer of a thread at place l; who polls has room for at least a byte.
RoomFor(b, l) == Len(b) <= BufSize /\ (l = "poll" => Len(b) < BufSize)

Roomy == \A p \in Port : RoomFor(buf[p], pc[p])

LEMMA ThreadRoomy ==
    ASSUME Inv, Roomy, NEW p \in Port, NEW b, buf' = [buf EXCEPT ![p] = b],
           NEW l, pc' = [pc EXCEPT ![p] = l], RoomFor(b, l)
    PROVE  Roomy'
<1>1. /\ buf'[p] = b /\ pc'[p] = l
      /\ \A q \in Port \ {p} : buf'[q] = buf[q] /\ pc'[q] = pc[q]
  BY DEF Inv, Types
<1>2. ASSUME NEW q \in Port PROVE RoomFor(buf'[q], pc'[q])
  <2>1. CASE q = p
    BY <1>1, <2>1, Zenon
  <2>2. CASE q # p
    BY <1>1, <2>2, Zenon DEF Roomy
  <2> QED BY <2>1, <2>2
<1>3. Roomy' <=> \A q \in Port : RoomFor(buf'[q], pc'[q])
  BY Zenon DEF Roomy, RoomFor
<1> QED BY <1>2, <1>3, Zenon

\* A packet that waits for its last bytes is shorter than the buffer.
LEMMA WaitsWithRoom ==
    ASSUME NEW s, IsStream(s), IsFramed(s), NEW h, NEW b, NEW w, NEW d, Tracks(s, h, b, w, "parse", d),
           b[1] \in ParsedTypes, ~Complete(b), \A i \in 1..Len(s) : Len(s[i].pkt) <= BufSize
    PROVE  Len(b) < BufSize
<1> DEFINE k == Through("parse", h)
           pkt == s[k+1].pkt
<1>1. PICK e \in Nat, r \in Nat : Framed(s, h, b, w, "parse", e, r)
  BY Zenon DEF Tracks
<1>2. b # <<>>
  <2>1. "parse" # "poll"
    OBVIOUS
  <2> QED BY <1>1, <2>1, Zenon DEF Framed
<1>3. k \in Nat /\ k < Len(s) /\ pkt \in Seq(Bytes) /\ ~(Len(b) >= Len(pkt))
  BY <1>1, <1>2, AtPacket, Zenon
<1>4. b \in Seq(Bytes) /\ Len(s) \in Nat
  BY <1>1, FramedTypes, Zenon
<1>5. Len(pkt) <= BufSize
  <2>1. k + 1 \in 1..Len(s)
    <3> HIDE DEF k
    <3> QED BY <1>3, <1>4
  <2> QED BY <2>1, Zenon
<1>6. Len(b) \in Nat /\ Len(pkt) \in Nat /\ BufSize \in Nat
  BY <1>3, <1>4, BufSizeAssumption
<1> HIDE DEF pkt
<1> QED BY <1>3, <1>5, <1>6

LEMMA DropLength ==
    ASSUME NEW b \in Seq(Bytes), NEW n \in 0..Len(b)
    PROVE  Len(Drop(b, n)) = Len(b) - n
BY DEF Drop

\* What remains behind a packet fits, and what waits is shorter than four bytes.
LEMMA RestRoomy ==
    ASSUME NEW b \in Seq(Bytes), Complete(b), Len(b) <= BufSize
    PROVE  LET rest == Drop(b, PktLen(b)) IN RoomFor(rest, AfterPacket(rest))
<1> DEFINE rest == Drop(b, PktLen(b))
           n == PktLen(b)
<1>1. n \in 0..Len(b)
  BY CompleteLength
<1>2. Len(rest) = Len(b) - n /\ Len(b) \in Nat
  <2> HIDE DEF n
  <2>1. Len(Drop(b, n)) = Len(b) - n /\ Len(b) \in Nat
    BY <1>1, DropLength
  <2> QED BY <2>1 DEF n
<1> HIDE DEF rest, n
<1>3. Len(rest) \in Nat /\ Len(rest) <= BufSize /\ BufSize \in Nat /\ BufSize >= 4
  BY <1>1, <1>2, BufSizeAssumption
<1>4. RoomFor(rest, AfterPacket(rest))
  BY <1>3 DEF RoomFor, AfterPacket
<1> QED BY <1>4 DEF rest

LEMMA NextRoomy ==
    ASSUME StreamsAreFramed, PacketsFit, Inv, Tracking, Roomy, [Next]_vars
    PROVE  Roomy'
<1>0. ASSUME NEW p \in Port
      PROVE  /\ buf[p] \in Seq(Bytes) /\ Len(buf[p]) \in Nat /\ Len(buf[p]) <= BufSize
             /\ BufSize \in Nat /\ RoomFor(buf[p], pc[p])
  <2>1. buf[p] \in Seq(Bytes) /\ RoomFor(buf[p], pc[p])
    BY Same DEF Roomy
  <2> QED BY <2>1, BufSizeAssumption DEF RoomFor
<1>1. ASSUME NEW p \in Port, Read(p) PROVE Roomy'
  <2>1. pc' = [pc EXCEPT ![p] = "parse"] /\ wire[p] # <<>> /\ Room(p) > 0
    BY <1>1 DEF Read
  <2>2. PICK n \in Transfers(Min({Len(wire[p]), Room(p)})) :
          buf' = [buf EXCEPT ![p] = buf[p] \o SubSeq(wire[p], 1, n)]
    BY <1>1 DEF Read
  <2>3. n \in 1..Len(wire[p]) /\ n <= Room(p)
    BY <2>1, ReadAmount
  <2> DEFINE b == buf[p] \o SubSeq(wire[p], 1, n)
  <2>4. Len(b) = Len(buf[p]) + n
    <3>1. wire[p] \in Seq(Bytes) /\ buf[p] \in Seq(Bytes)
      BY DEF Inv, Types
    <3> QED BY <2>3, <3>1
  <2> HIDE DEF b
  <2>5. RoomFor(b, "parse")
    <3>1. n <= BufSize - Len(buf[p]) /\ n \in Nat
      <4>1. wire[p] \in Seq(Bytes)
        BY DEF Inv, Types
      <4> QED BY <2>3, <4>1 DEF Room
    <3> QED BY <1>0, <2>4, <3>1 DEF RoomFor
  <2> QED BY <2>1, <2>2, <2>5, ThreadRoomy DEF b
<1>2. ASSUME NEW p \in Port, ParseMore(p) PROVE Roomy'
  <2>1. /\ pc[p] = "parse" /\ pc' = [pc EXCEPT ![p] = "poll"] /\ buf' = buf
        /\ buf[p][1] \in ParsedTypes /\ ~Complete(buf[p])
    BY <1>2 DEF ParseMore
  <2>2. Len(buf[p]) < BufSize
    <3>1. /\ IsStream(stream[p]) /\ IsFramed(stream[p])
          /\ Tracks(stream[p], handled[p], buf[p], wire[p], "parse", On(p, delivered))
      BY <2>1, SameAll, Zenon
    <3>2. \A i \in 1..Len(stream[p]) : Len(stream[p][i].pkt) <= BufSize
      <4>1. stream \in Streams
        BY DEF Inv, Types
      <4> QED BY <4>1, Zenon DEF PacketsFit
    <3> QED BY <2>1, <3>1, <3>2, WaitsWithRoom, Zenon
  <2>3. RoomFor(buf[p], "poll")
    BY <1>0, <2>2 DEF RoomFor
  <2> QED BY <2>1, <2>3, Same, ThreadRoomy
<1>3. ASSUME NEW p \in Port, ParseInvalid(p) PROVE Roomy'
  <2> DEFINE n == FindValidType(buf[p])
             b == Drop(buf[p], n)
  <2>1. /\ pc[p] = "parse" /\ pc' = [pc EXCEPT ![p] = "poll"] /\ buf[p][1] \notin ParsedTypes
        /\ buf' = [buf EXCEPT ![p] = b]
    BY <1>3 DEF ParseInvalid
  <2>2. n \in 1..Len(buf[p])
    <3>1. /\ IsStream(stream[p]) /\ IsFramed(stream[p])
          /\ Tracks(stream[p], handled[p], buf[p], wire[p], "parse", On(p, delivered))
      BY <2>1, SameAll, Zenon
    <3>2. PICK e \in Nat, r \in Nat : Framed(stream[p], handled[p], buf[p], wire[p], "parse", e, r)
      BY <3>1, Zenon DEF Tracks
    <3> QED BY <2>1, <3>1, <3>2, FramedInvalid, Zenon
  <2> HIDE DEF n
  <2>3. Len(b) = Len(buf[p]) - n
    <3>1. buf[p] \in Seq(Bytes)
      BY <1>0
    <3>2. n \in 0..Len(buf[p])
      BY <1>0, <2>2
    <3> QED BY <3>1, <3>2, DropLength, Zenon
  <2> HIDE DEF b
  <2>4. RoomFor(b, "poll")
    BY <1>0, <2>2, <2>3 DEF RoomFor
  <2> QED BY <2>1, <2>4, ThreadRoomy
<1>4. ASSUME NEW p \in Port, Complete(buf[p]), Consume(p) PROVE Roomy'
  <2> DEFINE b == Drop(buf[p], PktLen(buf[p]))
  <2>1. buf' = [buf EXCEPT ![p] = b] /\ pc' = [pc EXCEPT ![p] = AfterPacket(b)]
    BY <1>4 DEF Consume
  <2>2. RoomFor(b, AfterPacket(b))
    BY <1>0, <1>4, RestRoomy
  <2> HIDE DEF b
  <2> QED BY <2>1, <2>2, ThreadRoomy
<1>5. ASSUME NEW p \in Port, ParsePacket(p) \/ Acquire(p) PROVE Roomy'
  <2>1. \E l \in {"lock", "write"} : pc' = [pc EXCEPT ![p] = l] /\ buf' = buf
    BY <1>5 DEF ParsePacket, Acquire
  <2>2. PICK l \in {"lock", "write"} : pc' = [pc EXCEPT ![p] = l] /\ buf' = buf
    BY <2>1
  <2>3. RoomFor(buf[p], l)
    BY <1>0 DEF RoomFor
  <2> QED BY <2>2, <2>3, Same, ThreadRoomy
<1>6. ASSUME NEW p \in Port, Release(p) PROVE Roomy'
  <2>1. pc[p] = "write" /\ Consume(p)
    BY <1>6 DEF Release
  <2>2. Complete(buf[p])
    BY <2>1 DEF Inv, Sending
  <2> QED BY <1>4, <2>1, <2>2
<1>7. ASSUME buf' = buf, pc' = pc PROVE Roomy'
  BY <1>7 DEF Roomy, RoomFor
<1>8. ASSUME NEW p \in Port, Thread(p) PROVE Roomy'
  <2>1. ParseLog(p) => Complete(buf[p]) /\ Consume(p)
    BY DEF ParseLog
  <2>2. Write(p) => buf' = buf /\ pc' = pc
    BY DEF Write
  <2> QED BY <1>1, <1>2, <1>3, <1>4, <1>5, <1>6, <1>7, <1>8, <2>1, <2>2, Zenon DEF Thread
<1>9. UNCHANGED vars => buf' = buf /\ pc' = pc
  BY DEF vars
<1> QED BY <1>7, <1>8, <1>9, Zenon DEF Next

-----------------------------------------------------------------------------
(* The link *)

\* What is still to come behind the first k parts starts with the next part.
LEMMA QueueNext ==
    ASSUME NEW S, NEW q \in Seq(Seq(S)), NEW k \in Nat, k < Len(q),
           NEW x, Joined(q, k + 1) = Joined(q, k) \o <<x>>
    PROVE  LET t == FlattenSeq(q)
               d == Joined(q, k)
           IN  /\ Drop(t, Len(d)) # <<>> /\ Head(Drop(t, Len(d))) = x
               /\ Tail(Drop(t, Len(d))) = Drop(t, Len(d \o <<x>>))
<1> DEFINE t == FlattenSeq(q)
           d == Joined(q, k)
           c == Joined(q, k + 1)
           n == Len(d)
           r == Drop(t, n)
<1>1. d \in Seq(S) /\ t \in Seq(S) /\ c = d \o <<x>>
  BY JoinedNext, FlattenType
<1>2. c \in Seq(S) /\ Begins(c, t)
  <2> DEFINE i == k + 1
             m == Len(q)
  <2>1. i \in Nat /\ m \in Nat /\ i <= m /\ m <= Len(q)
    OBVIOUS
  <2>2. Joined(q, m) = t
    BY JoinedEnds
  <2> HIDE DEF i, m, t
  <2>3. Joined(q, i) \in Seq(S) /\ Joined(q, m) \in Seq(S) /\ Begins(Joined(q, i), Joined(q, m))
    BY <2>1, JoinedBegins
  <2> QED BY <2>2, <2>3 DEF i
<1> HIDE DEF t, d, c
<1>3. n \in Nat /\ Len(c) = n + 1 /\ c[n+1] = x /\ Len(d \o <<x>>) = n + 1
  <2>1. Len(d \o <<x>>) = n + 1 /\ (d \o <<x>>)[n + 1] = x /\ n \in Nat
    BY <1>1
  <2> QED BY <1>1, <2>1, Zenon
<1>4. n + 1 <= Len(t) /\ t[n+1] = x /\ Len(t) \in Nat
  <2>1. n + 1 \in 1..Len(c)
    BY <1>3
  <2> QED BY <1>1, <1>2, <1>3, <2>1 DEF Begins
<1> HIDE DEF n
<1>5. r = SubSeq(t, n + 1, Len(t)) /\ Drop(t, n + 1) = SubSeq(t, (n + 1) + 1, Len(t))
  BY DEF Drop
<1>6. /\ r \in Seq(S) /\ Len(r) = Len(t) - n /\ \A i \in 1..(Len(t) - n) : r[i] = t[n + i]
  <2> DEFINE m == Len(t)
  <2>1. t \in Seq(S) /\ m \in Nat /\ n <= m /\ m <= Len(t) /\ n \in Nat
    BY <1>1, <1>3, <1>4
  <2> HIDE DEF m
  <2>2. /\ Window(t, n, m) \in Seq(S) /\ Len(Window(t, n, m)) = m - n
        /\ \A i \in 1..(m - n) : Window(t, n, m)[i] = t[n + i]
    BY <2>1, WindowFacts
  <2>3. Window(t, n, m) = r
    BY <1>5, Zenon DEF Window, m
  <2> QED BY <2>2, <2>3, Zenon DEF m
<1>7. /\ Drop(t, n + 1) \in Seq(S) /\ Len(Drop(t, n + 1)) = (Len(t) - n) - 1
      /\ \A i \in 1..((Len(t) - n) - 1) : Drop(t, n + 1)[i] = t[(n + 1) + i]
  <2> DEFINE u == n + 1
             m == Len(t)
  <2>1. u \in Nat /\ m \in Nat /\ u <= m /\ m <= Len(t) /\ (m - n) - 1 = m - u
    BY <1>3, <1>4
  <2>t. t \in Seq(S)
    BY <1>1
  <2> HIDE DEF u, m
  <2>2. /\ Window(t, u, m) \in Seq(S) /\ Len(Window(t, u, m)) = m - u
        /\ \A i \in 1..(m - u) : Window(t, u, m)[i] = t[u + i]
    <3>1. u \in Nat /\ m \in Nat /\ u <= m /\ m <= Len(t)
      BY <2>1, Zenon
    <3> QED BY <2>t, <3>1, WindowFacts
  <2>3. Window(t, u, m) = Drop(t, u)
    BY DEF Window, Drop, m
  <2> QED BY <2>1, <2>2, <2>3, Zenon DEF u, m
<1> HIDE DEF r
<1>8. r # <<>> /\ Head(r) = x
  BY <1>3, <1>4, <1>6
<1>9. /\ Tail(r) \in Seq(S) /\ Len(Tail(r)) = (Len(t) - n) - 1
      /\ \A i \in 1..((Len(t) - n) - 1) : Tail(r)[i] = r[i + 1]
  BY <1>6, <1>8
<1>10. Tail(r) = Drop(t, n + 1)
  <2> DEFINE A == Tail(r)
             B == Drop(t, n + 1)
             m == (Len(t) - n) - 1
  <2>1. \A i \in 1..m : i + 1 \in 1..(Len(t) - n) /\ n + (i + 1) = (n + 1) + i
    BY <1>3, <1>4
  <2>2. \A i \in 1..m : A[i] = B[i]
    BY <1>6, <1>7, <1>9, <2>1
  <2>3. A \in Seq(S) /\ B \in Seq(S) /\ Len(A) = m /\ Len(B) = m
    BY <1>7, <1>9
  <2> HIDE DEF A, B, m
  <2>4. A = B
    BY <2>2, <2>3, SeqEqual
  <2> QED BY <2>4 DEF A, B
<1> QED BY <1>3, <1>8, <1>10, Zenon DEF t, d, n, r

\* The packets of port p that the host has not got yet.
Queue(p) == Drop(FlattenSeq(HostParts(stream[p])), Len(On(p, delivered)))

LEMMA QueueIs ==
    [p \in Port |-> Drop(HostPackets(stream[p]), Len(DeliveredOn(p)))] = [p \in Port |-> Queue(p)]
<1>1. \A p \in Port : Drop(HostPackets(stream[p]), Len(DeliveredOn(p))) = Queue(p)
  BY Zenon DEF HostPackets, HostParts, DeliveredOn, On, OnParts, Queue
<1> QED BY <1>1

LEMMA LinkInit == Init => Link!Init
<1> SUFFICES ASSUME Init PROVE Link!Init
  OBVIOUS
<1>1. Inv /\ Tracking
  BY InitInv, InitTracking
<1>2. delivered = <<>>
  BY DEF Init
<1>3. ASSUME NEW p \in Port PROVE Queue(p) \in Seq(Seq(0..255))
  <2> DEFINE S == Seq(Bytes)
             t == FlattenSeq(HostParts(stream[p]))
             n == Len(On(p, delivered))
  <2>1. HostParts(stream[p]) \in Seq(Seq(S))
    BY <1>1, SameAll, HostPartsType, Zenon
  <2>2. On(p, delivered) \in Seq(S)
    <3>1. delivered \in Seq([port : Port, pkt : Seq(Bytes)])
      BY <1>1 DEF Inv, Types
    <3> QED BY <3>1, OnPartsType, Zenon
  <2> HIDE DEF S
  <2>3. t \in Seq(S) /\ n \in Nat
    BY <2>1, <2>2, FlattenType
  <2> HIDE DEF t, n
  <2>4. Drop(t, n) \in Seq(S)
    BY <2>3 DEF Drop
  <2> QED BY <2>4, Zenon DEF Queue, t, n, S, Bytes
<1>4. [p \in Port |-> Drop(HostPackets(stream[p]), Len(DeliveredOn(p)))] = [p \in Port |-> Queue(p)]
  BY QueueIs
<1> QED BY <1>2, <1>3, <1>4 DEF Link!Init

\* A release delivers the next packet of its port; every other step is invisible.
LEMMA LinkNext ==
    ASSUME StreamsAreFramed, Inv, Tracking, [Next]_vars
    PROVE  [Link!Next]_(Link!vars)
<1>0. /\ [p \in Port |-> Drop(HostPackets(stream[p]), Len(DeliveredOn(p)))] = [p \in Port |-> Queue(p)]
      /\ [p \in Port |-> Drop(HostPackets(stream[p]), Len(DeliveredOn(p)))]' = [p \in Port |-> Queue(p)]'
  <2>1. ([p \in Port |-> Drop(HostPackets(stream[p]), Len(DeliveredOn(p)))] = [p \in Port |-> Queue(p)])'
    BY QueueIs, PTL
  <2> QED BY <2>1, QueueIs
<1>1. ASSUME UNCHANGED <<stream, delivered>> PROVE UNCHANGED Link!vars
  <2>1. \A p \in Port : Queue(p)' = Queue(p)
    BY <1>1, Zenon DEF Queue
  <2>2. [p \in Port |-> Queue(p)]' = [p \in Port |-> Queue(p)]
    BY <2>1, Zenon
  <2> QED BY <1>0, <1>1, <2>2, Zenon DEF Link!vars
<1>2. ASSUME NEW p \in Port, Release(p) PROVE Link!Deliver(p)
  <2>1. /\ \A q \in Port \ {p} : On(q, delivered') = On(q, delivered)
        /\ \E pkt \in Seq(Bytes) : \E k \in Nat :
              /\ delivered' = Append(delivered, [port |-> p, pkt |-> pkt])
              /\ On(p, delivered') = On(p, delivered) \o <<pkt>>
              /\ k < Len(stream[p]) /\ On(p, delivered) = Joined(HostParts(stream[p]), k)
              /\ On(p, delivered') = Joined(HostParts(stream[p]), k + 1)
    BY <1>2, ReleaseTracks, Zenon
  <2>2. PICK pkt \in Seq(Bytes), k \in Nat :
              /\ delivered' = Append(delivered, [port |-> p, pkt |-> pkt])
              /\ On(p, delivered') = On(p, delivered) \o <<pkt>>
              /\ k < Len(stream[p]) /\ On(p, delivered) = Joined(HostParts(stream[p]), k)
              /\ On(p, delivered') = Joined(HostParts(stream[p]), k + 1)
    BY <2>1, Zenon
  <2>3. stream' = stream
    BY <1>2 DEF Release
  <2>4. Queue(p) # <<>> /\ Head(Queue(p)) = pkt /\ Queue(p)' = Tail(Queue(p))
    <3> DEFINE S == Seq(Bytes)
               q == HostParts(stream[p])
    <3>1. q \in Seq(Seq(S)) /\ Len(q) = Len(stream[p])
      BY SameAll, HostPartsType, Zenon
    <3>2. k < Len(q) /\ Joined(q, k + 1) = Joined(q, k) \o <<pkt>>
      BY <2>2, <3>1, Zenon
    <3> HIDE DEF S, q
    <3>3. /\ Drop(FlattenSeq(q), Len(Joined(q, k))) # <<>>
          /\ Head(Drop(FlattenSeq(q), Len(Joined(q, k)))) = pkt
          /\ Tail(Drop(FlattenSeq(q), Len(Joined(q, k)))) = Drop(FlattenSeq(q), Len(Joined(q, k) \o <<pkt>>))
      BY <3>1, <3>2, QueueNext
    <3>4. Queue(p) = Drop(FlattenSeq(q), Len(Joined(q, k)))
      BY <2>2, Zenon DEF Queue, q
    <3>5. Queue(p)' = Drop(FlattenSeq(q), Len(Joined(q, k) \o <<pkt>>))
      <4>1. Queue(p)' = Drop(FlattenSeq(HostParts(stream'[p])), Len(On(p, delivered')))
        BY Zenon DEF Queue, HostParts, ForHost, HCI_EVENT_SKWLOG, Drop
      <4> QED BY <2>2, <2>3, <4>1, Zenon DEF q
    <3> QED BY <3>3, <3>4, <3>5, Zenon
  <2>5. \A q \in Port \ {p} : Queue(q)' = Queue(q)
    BY <2>1, <2>3, Zenon DEF Queue
  <2> DEFINE Q == [q \in Port |-> Queue(q)]
  <2>6. Q[p] = Queue(p) /\ Q' = [Q EXCEPT ![p] = Tail(Q[p])]
    BY <2>4, <2>5
  <2> HIDE DEF Q
  <2>7. Q[p] # <<>> /\ Head(Q[p]) = pkt
    BY <2>4, <2>6, Zenon
  <2>8. /\ [q \in Port |-> Drop(HostPackets(stream[q]), Len(DeliveredOn(q)))] = Q
        /\ [q \in Port |-> Drop(HostPackets(stream[q]), Len(DeliveredOn(q)))]' = Q'
    BY <1>0, Zenon DEF Q
  <2> QED BY <2>2, <2>6, <2>7, <2>8 DEF Link!Deliver
<1>3. ASSUME NEW p \in Port, Thread(p), ~Release(p) PROVE UNCHANGED <<stream, delivered>>
  BY <1>3 DEF Thread, Read, ParseMore, ParseInvalid, ParseLog, ParsePacket, Acquire, Write
<1>4. UNCHANGED vars => UNCHANGED <<stream, delivered>>
  BY DEF vars
<1>5. \A p \in Port : Link!Deliver(p) => Link!Next
  BY Zenon DEF Link!Next
<1> QED BY <1>1, <1>2, <1>3, <1>4, <1>5, Zenon DEF Next

-----------------------------------------------------------------------------
(* Theorems about whole packets *)

\* If the controller sends whole packets with no byte of a packet type between them, then however
\* read cuts its bytes, the packets that a receive thread gives to the btsnoop log and to the log of
\* the controller are the ones that the controller sent, in order and none left out.
THEOREM RecvPacketsRecognised ==
    ASSUME StreamsAreFramed PROVE Spec => []PacketsRecognised
<1>1. Inv /\ Tracking => PacketsRecognised
  BY TrackingRecognised
<1> QED BY <1>1, InvTrackingAlways, PTL

\* If moreover every packet fits read_buffer then a thread that polls has room for at least a byte:
\* it never spins on reads of 0 bytes.
THEOREM RecvNeverFull ==
    ASSUME StreamsAreFramed, PacketsFit PROVE Spec => []NeverFull
<1>1. Init => Roomy
  BY BufSizeAssumption DEF Init, Roomy, RoomFor
<1>2. Inv /\ Tracking /\ Roomy /\ [Next]_vars => Roomy'
  BY NextRoomy
<1>3. Roomy => NeverFull
  BY DEF Roomy, RoomFor, NeverFull
<1> QED BY <1>1, <1>2, <1>3, InvTrackingAlways, PTL DEF Spec

\* The receive threads with their buffers, partial writes and the lock implement the link that the
\* stack relies on: each step delivers the next whole packet of a port, or is invisible.
THEOREM RecvImplementsHostLink ==
    ASSUME StreamsAreFramed PROVE Spec => ImplementsHostLink
<1>1. Init => Link!Init
  BY LinkInit
<1>2. Inv /\ Tracking /\ [Next]_vars => [Link!Next]_(Link!vars)
  BY LinkNext
<1> QED BY <1>1, <1>2, InvTrackingAlways, PTL DEF Spec, ImplementsHostLink, Link!Spec
=============================================================================
