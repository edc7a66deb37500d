-------------------------- MODULE RecvRawdataProofs --------------------------
(***************************************************************************)
(* Proofs about RecvRawdata: for any packets of the host, and however ports   *)
(* fail and take the bytes, each port gets what was framed for it, and a      *)
(* host that keeps the thread in step has its packets framed as it sent them. *)
(***************************************************************************)
EXTENDS RecvRawdata, TLAPS, SequenceTheorems, WellFoundedInduction

-----------------------------------------------------------------------------
(* What FlattenSeq computes.  It is defined by recursion on the length; the inductions below *)
(* take the least number for which the claim fails.                                          *)

LEMMA LeastNumber ==
    ASSUME NEW T \in SUBSET Nat, T # {}
    PROVE  \E n \in T : \A m \in T : ~(m < n)
<1>1. PICK n \in T : \A m \in T : <<m, n>> \notin OpToRel(<, Nat)
  BY NatLessThanWellFounded, WFMin, Zenon
<1>2. \A m \in T : ~(m < n)
  BY <1>1, Zenon DEF OpToRel
<1> QED BY <1>2

\* f joins the first n parts of q, one more for each index.
Joins(f, q, n) == f = [i \in 1..n |-> IF i = 1 THEN q[i] ELSE f[i-1] \o q[i]]

LEMMA JoinsAt ==
    ASSUME NEW q, NEW n, NEW f, Joins(f, q, n), NEW i \in 1..n
    PROVE  f[i] = IF i = 1 THEN q[i] ELSE f[i-1] \o q[i]
<1> DEFINE e(j) == IF j = 1 THEN q[j] ELSE f[j-1] \o q[j]
<1>1. f = [j \in 1..n |-> e(j)]
  BY DEF Joins
<1> HIDE DEF e
<1>2. f[i] = e(i)
  BY <1>1
<1> QED BY <1>2 DEF e

LEMMA JoinsUnique ==
    ASSUME NEW q, NEW n \in Nat, NEW f, NEW g, Joins(f, q, n), Joins(g, q, n)
    PROVE  f = g
<1> DEFINE T == {i \in 1..n : f[i] # g[i]}
<1>1. T = {}
  <2> SUFFICES ASSUME T # {} PROVE FALSE
    OBVIOUS
  <2>a. T \in SUBSET Nat
    OBVIOUS
  <2>1. PICK i \in T : \A m \in T : ~(m < i)
    <3> HIDE DEF T
    <3> QED BY <2>a, LeastNumber
  <2>2. i \in 1..n /\ f[i] # g[i]
    BY <2>1
  <2>3. /\ f[i] = IF i = 1 THEN q[i] ELSE f[i-1] \o q[i]
        /\ g[i] = IF i = 1 THEN q[i] ELSE g[i-1] \o q[i]
    BY <2>2, JoinsAt
  <2>4. i # 1 => f[i-1] = g[i-1]
    <3>1. i # 1 => i - 1 \in 1..n /\ i - 1 < i
      BY <2>2
    <3> QED BY <2>1, <3>1
  <2> QED BY <2>2, <2>3, <2>4
<1>2. \A i \in 1..n : f[i] = g[i]
  BY <1>1
<1> QED BY <1>2 DEF Joins

LEMMA JoinsExists ==
    ASSUME NEW q, NEW n \in Nat
    PROVE  \E f : Joins(f, q, n)
<1> DEFINE T == {m \in Nat : ~ \E f : Joins(f, q, m)}
<1> SUFFICES T = {}
  OBVIOUS
<1> SUFFICES ASSUME T # {} PROVE FALSE
  OBVIOUS
<1>1. PICK m \in T : \A k \in T : ~(k < m)
  BY LeastNumber
<1>2. m # 0
  <2>1. Joins([i \in 1..0 |-> 0], q, 0)
    BY DEF Joins
  <2> QED BY <1>1, <2>1
<1>3. m \in Nat /\ m - 1 \in Nat /\ m - 1 < m
  BY <1>1, <1>2
<1>4. PICK f : Joins(f, q, m - 1)
  BY <1>1, <1>3
<1> DEFINE e(i) == IF i = 1 THEN q[i] ELSE f[i-1] \o q[i]
           g == [i \in 1..m |-> e(i)]
<1>5. \A i \in 1..(m-1) : g[i] = f[i]
  <2> SUFFICES ASSUME NEW i \in 1..(m-1) PROVE g[i] = f[i]
    OBVIOUS
  <2>1. f[i] = IF i = 1 THEN q[i] ELSE f[i-1] \o q[i]
    BY <1>3, <1>4, JoinsAt
  <2>2. i \in 1..m
    BY <1>3
  <2>3. g[i] = e(i)
    <3> HIDE DEF e
    <3> QED BY <2>2
  <2> QED BY <2>1, <2>3
<1>6. \A i \in 1..m : g[i] = e(i)
  <2> HIDE DEF e
  <2> QED OBVIOUS
<1>7. Joins(g, q, m)
  <2>1. g = [i \in 1..m |-> g[i]]
    OBVIOUS
  <2> HIDE DEF g
  <2>2. \A i \in 1..m : i # 1 => g[i-1] = f[i-1]
    <3>1. \A i \in 1..m : i # 1 => i - 1 \in 1..(m-1)
      BY <1>3
    <3> QED BY <1>5, <3>1
  <2>3. \A i \in 1..m : g[i] = IF i = 1 THEN q[i] ELSE g[i-1] \o q[i]
    BY <1>6, <2>2
  <2> QED BY <2>1, <2>3 DEF Joins
<1> QED BY <1>1, <1>7

LEMMA FlattenJoins ==
    ASSUME NEW q, Len(q) \in Nat \ {0}
    PROVE  \E f : Joins(f, q, Len(q)) /\ FlattenSeq(q) = f[Len(q)]
<1>1. \E f : Joins(f, q, Len(q))
  BY JoinsExists
<1>2. Joins(CHOOSE f : Joins(f, q, Len(q)), q, Len(q))
  BY <1>1, Zenon
<1>3. FlattenSeq(q) = (CHOOSE f : Joins(f, q, Len(q)))[Len(q)]
  BY Zenon DEF FlattenSeq, Joins
<1> QED BY <1>2, <1>3

\* A further part is joined at the end.
LEMMA FlattenAppend ==
    ASSUME NEW S, NEW q \in Seq(Seq(S)), NEW e \in Seq(S), FlattenSeq(q) \in Seq(S)
    PROVE  FlattenSeq(Append(q, e)) = FlattenSeq(q) \o e
<1> DEFINE r == Append(q, e)
           n == Len(q)
<1>1. /\ n \in Nat /\ Len(r) = n + 1 /\ r[n + 1] = e
      /\ \A i \in 1..n : r[i] = q[i]
  BY AppendProperties
<1> HIDE DEF r
<1>2. PICK f : Joins(f, r, n + 1) /\ FlattenSeq(r) = f[n + 1]
  BY <1>1, FlattenJoins
<1>3. f[n + 1] = IF n + 1 = 1 THEN r[n + 1] ELSE f[(n + 1) - 1] \o r[n + 1]
  <2>1. n + 1 \in 1..(n + 1)
    BY <1>1
  <2> HIDE DEF n
  <2> QED BY <1>2, <2>1, JoinsAt
<1>4. CASE n = 0
  <2>1. FlattenSeq(q) = <<>>
    <3>1. q = <<>>
      BY <1>4, EmptySeq
    <3> QED BY <1>4, <3>1, Zenon DEF FlattenSeq
  <2>2. <<>> \o e = e
    OBVIOUS
  <2>3. FlattenSeq(r) = e
    BY <1>1, <1>2, <1>3, <1>4
  <2> QED BY <2>1, <2>2, <2>3 DEF r
<1>5. CASE n # 0
  <2> DEFINE g == [i \in 1..n |-> f[i]]
  <2>1. Joins(g, q, n)
    <3>1. \A i \in 1..n : f[i] = IF i = 1 THEN r[i] ELSE f[i-1] \o r[i]
      <4> SUFFICES ASSUME NEW i \in 1..n PROVE f[i] = IF i = 1 THEN r[i] ELSE f[i-1] \o r[i]
        OBVIOUS
      <4>1. i \in 1..(n + 1)
        BY <1>1
      <4> HIDE DEF n
      <4> QED BY <1>2, <4>1, JoinsAt
    <3>2. \A i \in 1..n : i # 1 => i - 1 \in 1..n
      BY <1>1
    <3>3. \A i \in 1..n : g[i] = IF i = 1 THEN q[i] ELSE g[i-1] \o q[i]
      <4>1. \A i \in 1..n : g[i] = f[i]
        OBVIOUS
      <4> HIDE DEF g
      <4> QED BY <1>1, <3>1, <3>2, <4>1
    <3>4. g = [i \in 1..n |-> g[i]]
      OBVIOUS
    <3> HIDE DEF g
    <3> QED BY <3>3, <3>4 DEF Joins
  <2>2. n \in Nat \ {0}
    BY <1>1, <1>5
  <2>3. PICK h : Joins(h, q, n) /\ FlattenSeq(q) = h[n]
    BY <2>2, FlattenJoins
  <2>4. FlattenSeq(q) = f[n]
    <3>1. g = h
      <4> HIDE DEF n, g
      <4> QED BY <2>1, <2>2, <2>3, JoinsUnique
    <3>2. g[n] = f[n]
      BY <2>2
    <3> HIDE DEF g
    <3> QED BY <2>3, <3>1, <3>2
  <2>5. n + 1 # 1 /\ (n + 1) - 1 = n
    BY <2>2
  <2>6. FlattenSeq(r) = f[n] \o e
    BY <1>1, <1>2, <1>3, <2>5
  <2> QED BY <2>4, <2>6 DEF r
<1> QED BY <1>4, <1>5

\* A joined sequence has the elements of its parts.
LEMMA FlattenType ==
    ASSUME NEW S, NEW q \in Seq(Seq(S))
    PROVE  FlattenSeq(q) \in Seq(S)
<1>1. Len(q) \in Nat
  OBVIOUS
<1>2. CASE Len(q) = 0
  <2>1. q = <<>>
    BY <1>2, EmptySeq
  <2>2. FlattenSeq(q) = <<>>
    BY <1>2, <2>1, Zenon DEF FlattenSeq
  <2> QED BY <2>2
<1>3. CASE Len(q) # 0
  <2>1. PICK f : Joins(f, q, Len(q)) /\ FlattenSeq(q) = f[Len(q)]
    BY <1>1, <1>3, FlattenJoins
  <2> DEFINE T == {i \in 1..Len(q) : f[i] \notin Seq(S)}
  <2>2. T = {}
    <3> SUFFICES ASSUME T # {} PROVE FALSE
      OBVIOUS
    <3>1. T \in SUBSET Nat
      OBVIOUS
    <3>2. PICK i \in T : \A m \in T : ~(m < i)
      <4> HIDE DEF T
      <4> QED BY <3>1, LeastNumber
    <3>3. i \in 1..Len(q) /\ f[i] \notin Seq(S)
      BY <3>2
    <3>4. f[i] = IF i = 1 THEN q[i] ELSE f[i-1] \o q[i]
      BY <2>1, <3>3, JoinsAt
    <3>5. q[i] \in Seq(S)
      BY <3>3
    <3>6. i # 1 => f[i-1] \in Seq(S)
      <4>1. i # 1 => i - 1 \in 1..Len(q) /\ i - 1 < i
        BY <1>1, <3>3
      <4> QED BY <3>2, <4>1
    <3> QED BY <3>3, <3>4, <3>5, <3>6, ConcatProperties
  <2> QED BY <1>1, <1>3, <2>1, <2>2
<1> QED BY <1>2, <1>3

(* The parts of a joined sequence *)

\* The first k parts of q, joined.
Joined(q, k) == FlattenSeq(SubSeq(q, 1, k))

LEMMA JoinedNext ==
    ASSUME NEW S, NEW q \in Seq(Seq(S)), NEW k \in Nat, k < Len(q)
    PROVE  /\ q[k+1] \in Seq(S) /\ Joined(q, k) \in Seq(S)
           /\ Joined(q, k + 1) = Joined(q, k) \o q[k+1]
<1> DEFINE Q == Seq(S)
           c == SubSeq(q, 1, k)
<1>1. q \in Seq(Q) /\ Len(q) \in Nat
  OBVIOUS
<1> HIDE DEF Q
<1>2. q[k+1] \in Q /\ c \in Seq(Q) /\ Len(c) = k
  <2>1. k + 1 \in 1..Len(q) /\ 1 \in 1..(Len(q)+1) /\ k \in (1-1)..Len(q)
    BY <1>1
  <2>2. q[k+1] \in Q
    BY <1>1, <2>1, ElementOfSeq
  <2>3. c \in Seq(Q) /\ Len(c) = k
    BY <1>1, <2>1, SubSeqProperties
  <2> QED BY <2>2, <2>3
<1>3. SubSeq(q, 1, k + 1) = Append(c, q[k+1])
  BY <1>1, <1>2
<1> USE DEF Q
<1>4. FlattenSeq(c) \in Seq(S)
  BY <1>2, FlattenType
<1>5. FlattenSeq(Append(c, q[k+1])) = FlattenSeq(c) \o q[k+1]
  <2> HIDE DEF c
  <2> QED BY <1>2, <1>4, FlattenAppend
<1> QED BY <1>2, <1>3, <1>4, <1>5 DEF Joined

LEMMA JoinedEnds ==
    ASSUME NEW S, NEW q \in Seq(Seq(S))
    PROVE  Joined(q, 0) = <<>> /\ Joined(q, Len(q)) = FlattenSeq(q)
<1>1. SubSeq(q, 1, 0) = <<>> /\ SubSeq(q, 1, Len(q)) = q /\ Len(<<>>) = 0
  OBVIOUS
<1>2. FlattenSeq(<<>>) = <<>>
  BY <1>1, Zenon DEF FlattenSeq
<1> QED BY <1>1, <1>2 DEF Joined

\* One sequence begins with the other.
Begins(a, b) == Len(a) <= Len(b) /\ \A j \in 1..Len(a) : b[j] = a[j]

\* The first k parts stand in front of the first m parts.
LEMMA JoinedBegins ==
    ASSUME NEW S, NEW q \in Seq(Seq(S)), NEW k \in Nat, NEW m \in Nat, k <= m, m <= Len(q)
    PROVE  /\ Joined(q, k) \in Seq(S) /\ Joined(q, m) \in Seq(S)
           /\ Begins(Joined(q, k), Joined(q, m))
<1>0. \A i \in Nat : i <= Len(q) => Joined(q, i) \in Seq(S)
  <2> SUFFICES ASSUME NEW i \in Nat, i <= Len(q) PROVE Joined(q, i) \in Seq(S)
    OBVIOUS
  <2>1. CASE i < Len(q)
    BY <2>1, JoinedNext
  <2>2. CASE i = Len(q)
    BY <2>2, JoinedEnds, FlattenType
  <2> QED BY <2>1, <2>2
<1> DEFINE T == {i \in Nat : k <= i /\ i <= Len(q) /\ ~Begins(Joined(q, k), Joined(q, i))}
<1>1. T = {}
  <2> SUFFICES ASSUME T # {} PROVE FALSE
    OBVIOUS
  <2>1. PICK n \in T : \A i \in T : ~(i < n)
    BY LeastNumber
  <2>2. n \in Nat /\ k <= n /\ n <= Len(q) /\ ~Begins(Joined(q, k), Joined(q, n))
    BY <2>1
  <2>3. n # k
    <3>1. Begins(Joined(q, k), Joined(q, k))
      BY <1>0 DEF Begins
    <3> QED BY <2>2, <3>1
  <2>4. n - 1 \in Nat /\ k <= n - 1 /\ n - 1 < Len(q) /\ n - 1 < n /\ (n - 1) + 1 = n
    BY <2>2, <2>3
  <2>5. Begins(Joined(q, k), Joined(q, n - 1))
    BY <2>1, <2>4
  <2>6. q[n] \in Seq(S) /\ Joined(q, n) = Joined(q, n - 1) \o q[n]
    <3> DEFINE j == n - 1
    <3>1. j \in Nat /\ j < Len(q) /\ j + 1 = n
      BY <2>4
    <3> HIDE DEF j
    <3>2. q[j+1] \in Seq(S) /\ Joined(q, j + 1) = Joined(q, j) \o q[j+1]
      BY <3>1, JoinedNext
    <3> QED BY <3>1, <3>2 DEF j
  <2> DEFINE A == Joined(q, k)
             B == Joined(q, n - 1)
             C == q[n]
  <2>7. A \in Seq(S) /\ B \in Seq(S) /\ C \in Seq(S)
    BY <1>0, <2>2, <2>4, <2>6
  <2> HIDE DEF A, B, C
  <2>8. Begins(A, B) => Begins(A, B \o C)
    BY <2>7 DEF Begins
  <2> QED BY <2>2, <2>5, <2>6, <2>8 DEF A, B, C
<1>2. Begins(Joined(q, k), Joined(q, m))
  BY <1>1
<1>3. k <= Len(q)
  OBVIOUS
<1> HIDE DEF T
<1> QED BY <1>0, <1>2, <1>3

-----------------------------------------------------------------------------
(* Types, and what the buffer holds in each round of reads *)

Bytes == 0..255

HdrLen(b) == 1 + hci_preamble_sizes[b[1]]

\* A packet whose header, and as many bytes as it says, are there.
Whole(b) == b # <<>> /\ b[1] \in DataTypes /\ Len(b) >= HdrLen(b) /\ Len(b) = HdrLen(b) + PayloadLen(b)

Types ==
    /\ setup \in Setups /\ unsent \in Seq(Seq(Bytes))
    /\ wire \in Seq(Bytes) /\ buf \in Seq(Bytes) /\ need \in Nat /\ bytes_read \in Nat
    /\ pc \in {"wait", "header", "payload", "route", "send", "abort"}
    /\ done \in Nat /\ framed \in Seq(Seq(Bytes))
    /\ out \in [Port -> Seq(Bytes)] /\ lossy \subseteq Port

\* What the buffer holds in each round.
HeaderRound(b, n, r) == b # <<>> /\ b[1] \in DataTypes /\ n = hci_preamble_sizes[b[1]] /\ Len(b) = 1 + r /\ r < n
PayloadRound(b, n, r) ==
    /\ b # <<>> /\ b[1] \in DataTypes /\ Len(b) = HdrLen(b) + r /\ r < n
    /\ n = PayloadLen(b)
Rounds ==
    /\ pc = "header" => HeaderRound(buf, need, bytes_read)
    /\ pc = "payload" => PayloadRound(buf, need, bytes_read)
    /\ pc \in {"route", "send"} => Whole(buf)
    /\ pc = "send" => done <= Len(buf)

Inv == Types /\ Rounds

LEMMA ByteNumbers == \A x, y \in 0..255 : x \in Nat /\ x + 256 * y \in Nat
OBVIOUS

\* The numbers in a header.
LEMMA HeaderOf ==
    ASSUME NEW b \in Seq(Bytes), b # <<>>, b[1] \in DataTypes
    PROVE  /\ HdrLen(b) \in {4, 5} /\ HdrLen(b) = 1 + hci_preamble_sizes[b[1]]
           /\ hci_preamble_sizes[b[1]] \in {3, 4}
           /\ Len(b) >= HdrLen(b) => PayloadLen(b) \in Nat
<1>1. hci_preamble_sizes[b[1]] = IF b[1] \in {HCI_ACLDATA_PKT, HCI_ISO_PKT} THEN 4 ELSE 3
  BY DEF hci_preamble_sizes
<1>2. HdrLen(b) = IF b[1] \in {HCI_ACLDATA_PKT, HCI_ISO_PKT} THEN 5 ELSE 4
  BY <1>1 DEF HdrLen
<1>3. \A i \in 1..Len(b) : b[i] \in 0..255
  <2>1. \A i \in 1..Len(b) : b[i] \in Bytes
    BY ElementOfSeq
  <2> QED BY <2>1 DEF Bytes
<1>4. ASSUME Len(b) >= HdrLen(b) PROVE PayloadLen(b) \in Nat
  <2>1. CASE b[1] \in {HCI_ACLDATA_PKT, HCI_ISO_PKT}
    <3>1. b[4] \in 0..255 /\ b[5] \in 0..255
      BY <1>2, <1>3, <1>4, <2>1
    <3>2. PayloadLen(b) = b[4] + 256 * b[5]
      BY <2>1 DEF PayloadLen
    <3> QED BY <3>1, <3>2, ByteNumbers, ZenonT(40)
  <2>2. CASE b[1] \notin {HCI_ACLDATA_PKT, HCI_ISO_PKT}
    <3>1. b[4] \in 0..255
      BY <1>2, <1>3, <1>4, <2>2
    <3>2. PayloadLen(b) = b[4]
      BY <2>2 DEF PayloadLen
    <3> QED BY <3>1, <3>2, ByteNumbers, ZenonT(40)
  <2> QED BY <2>1, <2>2
<1> QED BY <1>1, <1>2, <1>4

\* The header says the same of a packet as of the packet with more bytes behind it.
LEMMA HeaderBegins ==
    ASSUME NEW a \in Seq(Bytes), NEW b \in Seq(Bytes), Begins(a, b), a # <<>>, a[1] \in DataTypes
    PROVE  /\ b[1] = a[1] /\ HdrLen(b) = HdrLen(a)
           /\ Len(a) >= HdrLen(a) => PayloadLen(b) = PayloadLen(a)
<1>1. Len(a) \in Nat \ {0} /\ Len(a) <= Len(b) /\ \A j \in 1..Len(a) : b[j] = a[j]
  BY DEF Begins
<1>2. b[1] = a[1] /\ HdrLen(b) = HdrLen(a)
  BY <1>1 DEF HdrLen
<1>3. HdrLen(a) = IF a[1] \in {HCI_ACLDATA_PKT, HCI_ISO_PKT} THEN 5 ELSE 4
  BY DEF HdrLen, hci_preamble_sizes
<1>4. ASSUME Len(a) >= HdrLen(a) PROVE PayloadLen(b) = PayloadLen(a)
  <2>1. CASE a[1] \in {HCI_ACLDATA_PKT, HCI_ISO_PKT}
    <3>1. b[4] = a[4] /\ b[5] = a[5]
      BY <1>1, <1>3, <1>4, <2>1
    <3> QED BY <1>2, <2>1, <3>1 DEF PayloadLen
  <2>2. CASE a[1] \notin {HCI_ACLDATA_PKT, HCI_ISO_PKT}
    <3>1. b[4] = a[4]
      BY <1>1, <1>3, <1>4, <2>2
    <3> QED BY <1>2, <2>2, <3>1 DEF PayloadLen
  <2> QED BY <2>1, <2>2
<1> QED BY <1>2, <1>4

\* The bytes of b from position i + 1 to position j.
LEMMA PartOf ==
    ASSUME NEW S, NEW b \in Seq(S), NEW i \in Nat, NEW j \in Nat, i <= j, j <= Len(b)
    PROVE  /\ SubSeq(b, i + 1, j) \in Seq(S) /\ Len(SubSeq(b, i + 1, j)) = j - i
           /\ \A m \in 1..(j - i) : SubSeq(b, i + 1, j)[m] = b[i + m]
           /\ SubSeq(b, 1, i) \o SubSeq(b, i + 1, j) = SubSeq(b, 1, j)
<1> DEFINE a == i + 1
<1>1. a \in 1..(Len(b) + 1) /\ j \in (a - 1)..Len(b)
  OBVIOUS
<1>2. /\ SubSeq(b, a, j) \in Seq(S) /\ Len(SubSeq(b, a, j)) = IF a <= j THEN j - a + 1 ELSE 0
      /\ \A m \in 1..(j - a + 1) : SubSeq(b, a, j)[m] = b[a + m - 1]
  BY <1>1, SubSeqProperties
<1>3. (IF a <= j THEN j - a + 1 ELSE 0) = j - i /\ j - a + 1 = j - i /\ \A m \in Int : a + m - 1 = i + m
  OBVIOUS
<1>4. SubSeq(b, 1, i) \o SubSeq(b, a, j) = SubSeq(b, 1, j)
  <2>1. 1 \in 1..(Len(b) + 1) /\ i \in (1 - 1)..Len(b) /\ j \in i..Len(b)
    OBVIOUS
  <2> QED BY <2>1, ConcatAdjacentSubSeq
<1> HIDE DEF a
<1>5. \A m \in 1..(j - i) : SubSeq(b, a, j)[m] = b[i + m]
  <2> SUFFICES ASSUME NEW m \in 1..(j - i) PROVE SubSeq(b, a, j)[m] = b[i + m]
    OBVIOUS
  <2>1. m \in 1..(j - a + 1) /\ a + m - 1 = i + m
    BY <1>3
  <2>2. SubSeq(b, a, j)[m] = b[a + m - 1]
    BY <1>2, <2>1
  <2> QED BY <2>1, <2>2
<1> QED BY <1>2, <1>3, <1>4, <1>5 DEF a

\* A sequence cut in two.
LEMMA Cut ==
    ASSUME NEW S, NEW b \in Seq(S), NEW n \in Nat, n <= Len(b)
    PROVE  /\ SubSeq(b, 1, n) \in Seq(S) /\ Len(SubSeq(b, 1, n)) = n
           /\ Drop(b, n) \in Seq(S) /\ Len(Drop(b, n)) = Len(b) - n
           /\ SubSeq(b, 1, n) \o Drop(b, n) = b
           /\ Begins(SubSeq(b, 1, n), b)
<1>1. /\ SubSeq(b, 0 + 1, n) \in Seq(S) /\ Len(SubSeq(b, 0 + 1, n)) = n - 0
      /\ \A m \in 1..(n - 0) : SubSeq(b, 0 + 1, n)[m] = b[0 + m]
  BY PartOf
<1>2. /\ SubSeq(b, n + 1, Len(b)) \in Seq(S) /\ Len(SubSeq(b, n + 1, Len(b))) = Len(b) - n
      /\ SubSeq(b, 1, n) \o SubSeq(b, n + 1, Len(b)) = SubSeq(b, 1, Len(b))
  <2>1. Len(b) \in Nat /\ Len(b) <= Len(b)
    OBVIOUS
  <2> QED BY <2>1, PartOf, ZenonT(40)
<1>3. SubSeq(b, 1, Len(b)) = b
  OBVIOUS
<1> DEFINE B == SubSeq(b, 1, n)
           C == SubSeq(b, n + 1, Len(b))
<1>4. B \in Seq(S) /\ Len(B) = n /\ \A m \in 1..n : B[m] = b[m]
  <2>1. 0 + 1 = 1 /\ n - 0 = n /\ \A m \in 1..n : 0 + m = m
    OBVIOUS
  <2> QED BY <1>1, <2>1
<1>5. C \in Seq(S) /\ Len(C) = Len(b) - n /\ B \o C = b /\ Drop(b, n) = C
  BY <1>2, <1>3, Zenon DEF Drop
<1> HIDE DEF B, C
<1>6. Begins(B, b)
  BY <1>4 DEF Begins
<1> QED BY <1>4, <1>5, <1>6 DEF B

LEMMA SetupFacts ==
    ASSUME Inv
    PROVE  /\ setup \in Setups /\ setup.sends \in Seq(Seq(Bytes))
           /\ setup.pieces \subseteq Nat \ {0} /\ setup.chunks \subseteq Nat \ {0}
BY SetupsAssumption DEF Inv, Types, Setup, Bytes

\* Two sequences, joined.
LEMMA ConcatFacts ==
    ASSUME NEW S, NEW a \in Seq(S), NEW b \in Seq(S)
    PROVE  /\ a \o b \in Seq(S) /\ Len(a \o b) = Len(a) + Len(b) /\ Begins(a, a \o b)
           /\ \A c \in Seq(S) : (a \o b) \o c = a \o (b \o c)
<1> DEFINE d == a \o b
<1>1. /\ d \in Seq(S) /\ Len(d) = Len(a) + Len(b) /\ Len(a) \in Nat /\ Len(b) \in Nat
      /\ \A j \in 1..Len(a) : d[j] = a[j]
  OBVIOUS
<1>2. Begins(a, d)
  <2> HIDE DEF d
  <2> QED BY <1>1 DEF Begins
<1>3. \A c \in Seq(S) : (a \o b) \o c = a \o (b \o c)
  BY ConcatAssociative
<1> QED BY <1>1, <1>2, <1>3

LEMMA MinOfTwo ==
    ASSUME NEW x \in Int, NEW y \in Int
    PROVE  Min({x, y}) \in {x, y} /\ Min({x, y}) <= x /\ Min({x, y}) <= y
<1>1. \E a \in {x, y} : \A b \in {x, y} : a <= b
  OBVIOUS
<1>2. Min({x, y}) \in {x, y} /\ \A b \in {x, y} : Min({x, y}) <= b
  BY <1>1, Zenon DEF Min
<1> QED BY <1>2

\* A transfer moves at least a byte, and at most all.
LEMMA TransferSize ==
    ASSUME NEW sizes, sizes \subseteq Nat \ {0}, NEW max \in Nat, NEW n \in Transfers(sizes, max)
    PROVE  n \in Nat /\ n <= max /\ (max > 0 => n > 0) /\ (n < max => n \in sizes)
BY DEF Transfers

\* The bytes of one read.
LEMMA ReadFacts ==
    ASSUME Types
    PROVE  /\ ReadLen \in Nat /\ ReadLen <= Len(wire) /\ ReadLen <= need /\ ReadLen \in {Len(wire), need}
           /\ Filled \in Seq(Bytes) /\ Len(Filled) = Len(buf) + ReadLen /\ Begins(buf, Filled)
           /\ Drop(wire, ReadLen) \in Seq(Bytes) /\ Filled \o Drop(wire, ReadLen) = buf \o wire
<1>1. wire \in Seq(Bytes) /\ buf \in Seq(Bytes) /\ need \in Nat /\ Len(wire) \in Nat /\ Len(buf) \in Nat
  BY DEF Types
<1> DEFINE n == ReadLen
           A == SubSeq(wire, 1, n)
           B == Drop(wire, n)
<1>2. n \in {Len(wire), need} /\ n <= Len(wire) /\ n <= need
  <2> DEFINE m == Min({Len(wire), need})
  <2>1. Len(wire) \in Int /\ need \in Int
    BY <1>1
  <2>2. m \in {Len(wire), need} /\ m <= Len(wire) /\ m <= need
    BY <2>1, MinOfTwo, Zenon
  <2> QED BY <2>2 DEF ReadLen
<1> HIDE DEF n
<1>3. n \in Nat
  BY <1>1, <1>2
<1>4. A \in Seq(Bytes) /\ Len(A) = n /\ B \in Seq(Bytes) /\ A \o B = wire
  BY <1>1, <1>2, <1>3, Cut
<1>5. Filled = buf \o A
  BY DEF Filled, n
<1> HIDE DEF A, B
<1> DEFINE C == buf \o A
<1>6. C \in Seq(Bytes) /\ Len(C) = Len(buf) + n /\ Begins(buf, C)
  <2>1. Len(C) = Len(buf) + Len(A)
    BY <1>1, <1>4, ConcatFacts, Zenon
  <2> QED BY <1>1, <1>4, <2>1, ConcatFacts, Zenon
<1>7. C \o B = buf \o wire
  <2>1. buf \in Seq(Bytes) /\ A \in Seq(Bytes) /\ B \in Seq(Bytes)
    BY <1>1, <1>4
  <2>2. (buf \o A) \o B = buf \o (A \o B)
    <3>1. \A c \in Seq(Bytes) : (buf \o A) \o c = buf \o (A \o c)
      BY <2>1, ConcatFacts
    <3> QED BY <2>1, <3>1, Zenon
  <2> QED BY <1>4, <2>2, Zenon
<1>8. C = Filled
  BY <1>5
<1> HIDE DEF C
<1> QED BY <1>2, <1>3, <1>4, <1>6, <1>7, <1>8 DEF n, B

\* A short read goes on with the round.
LEMMA ReadMoreRound ==
    ASSUME Inv, ReadMore
    PROVE  /\ pc = "header" => HeaderRound(buf', need', bytes_read')
           /\ pc = "payload" => PayloadRound(buf', need', bytes_read')
<1>1. /\ pc \in {"header", "payload"} /\ bytes_read + ReadLen < need
      /\ buf' = Filled /\ bytes_read' = bytes_read + ReadLen /\ need' = need
  BY DEF ReadMore
<1>2. /\ ReadLen \in Nat /\ Filled \in Seq(Bytes) /\ Len(Filled) = Len(buf) + ReadLen
      /\ Begins(buf, Filled) /\ buf \in Seq(Bytes) /\ bytes_read \in Nat /\ Len(buf) \in Nat
  BY ReadFacts DEF Inv, Types
<1>3. ASSUME pc = "header" PROVE HeaderRound(buf', need', bytes_read')
  <2>1. buf # <<>> /\ buf[1] \in DataTypes /\ need = hci_preamble_sizes[buf[1]] /\ Len(buf) = 1 + bytes_read
    BY <1>3 DEF Inv, Rounds, HeaderRound
  <2>2. Filled[1] = buf[1] /\ Filled # <<>>
    BY <1>2, <2>1 DEF Begins
  <2>3. Len(Filled) = 1 + (bytes_read + ReadLen)
    BY <1>2, <2>1
  <2> QED BY <1>1, <2>1, <2>2, <2>3, Zenon DEF HeaderRound
<1>4. ASSUME pc = "payload" PROVE PayloadRound(buf', need', bytes_read')
  <2>1. buf # <<>> /\ buf[1] \in DataTypes /\ need = PayloadLen(buf) /\ Len(buf) = HdrLen(buf) + bytes_read
    BY <1>4 DEF Inv, Rounds, PayloadRound
  <2>2. HdrLen(buf) \in Nat /\ Len(buf) >= HdrLen(buf)
    BY <1>2, <2>1, HeaderOf
  <2>3. Filled[1] = buf[1] /\ HdrLen(Filled) = HdrLen(buf) /\ PayloadLen(Filled) = PayloadLen(buf)
    BY <1>2, <2>1, <2>2, HeaderBegins
  <2>4. Filled # <<>> /\ Len(Filled) = HdrLen(Filled) + (bytes_read + ReadLen)
    BY <1>2, <2>1, <2>2, <2>3 DEF Begins
  <2> QED BY <1>1, <2>1, <2>3, <2>4, Zenon DEF PayloadRound
<1> QED BY <1>3, <1>4

\* The header that is read, and how many bytes follow it.
LEMMA ReadHeaderRound ==
    ASSUME Inv, ReadHeader
    PROVE  /\ buf' = SubSeq(Filled, 1, HdrLen(buf)) /\ buf' \in Seq(Bytes) /\ buf' # <<>>
           /\ Len(buf') = HdrLen(buf') /\ HdrLen(buf') = HdrLen(buf)
           /\ buf'[1] = buf[1] /\ buf'[1] \in DataTypes /\ need' \in Nat /\ need' = PayloadLen(buf')
           /\ bytes_read' = 0 /\ pc' = (IF need' > 0 THEN "payload" ELSE "route")
<1> DEFINE b == SubSeq(Filled, 1, 1 + need)
<1>1. /\ pc = "header" /\ bytes_read + ReadLen >= need
      /\ buf' = b /\ need' = PayloadLen(b) /\ bytes_read' = 0
      /\ pc' = IF PayloadLen(b) > 0 THEN "payload" ELSE "route"
  BY DEF ReadHeader
<1>2. /\ ReadLen \in Nat /\ Filled \in Seq(Bytes) /\ Len(Filled) = Len(buf) + ReadLen
      /\ Begins(buf, Filled) /\ buf \in Seq(Bytes) /\ bytes_read \in Nat /\ need \in Nat
  BY ReadFacts DEF Inv, Types
<1>3. /\ buf # <<>> /\ buf[1] \in DataTypes /\ need = hci_preamble_sizes[buf[1]]
      /\ Len(buf) = 1 + bytes_read
  BY <1>1 DEF Inv, Rounds, HeaderRound
<1>4. HdrLen(buf) = 1 + need /\ HdrLen(buf) \in Nat
  BY <1>2, <1>3, HeaderOf
<1>5. 1 + need <= Len(Filled) /\ 1 + need \in Nat
  BY <1>1, <1>2, <1>3
<1>6. b \in Seq(Bytes) /\ Len(b) = 1 + need /\ Begins(b, Filled)
  <2> DEFINE n == 1 + need
  <2> HIDE DEF n
  <2> QED BY <1>2, <1>5, Cut DEF n
<1> HIDE DEF b
<1>7. b # <<>> /\ b[1] = buf[1] /\ b[1] \in DataTypes
  <2>1. Filled[1] = buf[1]
    BY <1>2, <1>3 DEF Begins
  <2>2. b # <<>> /\ b[1] = Filled[1]
    BY <1>2, <1>6 DEF Begins
  <2> QED BY <1>3, <2>1, <2>2
<1>8. HdrLen(b) = HdrLen(buf)
  BY <1>7 DEF HdrLen
<1>9. Len(b) = HdrLen(b) /\ PayloadLen(b) \in Nat
  BY <1>4, <1>6, <1>7, <1>8, HeaderOf
<1>10. b = SubSeq(Filled, 1, HdrLen(buf))
  BY <1>4 DEF b
<1> QED BY <1>1, <1>6, <1>7, <1>8, <1>9, <1>10, Zenon

\* The packet that is read.
LEMMA ReadPayloadRound ==
    ASSUME Inv, ReadPayload
    PROVE  /\ HdrLen(buf) + need \in Nat /\ HdrLen(buf) + need <= Len(Filled)
           /\ buf' = SubSeq(Filled, 1, HdrLen(buf) + need) /\ buf' \in Seq(Bytes) /\ Whole(buf')
<1> DEFINE b == SubSeq(Filled, 1, Len(buf) - bytes_read + need)
           n == HdrLen(buf) + need
<1>1. pc = "payload" /\ bytes_read + ReadLen >= need /\ buf' = b
  BY DEF ReadPayload
<1>2. /\ ReadLen \in Nat /\ Filled \in Seq(Bytes) /\ Len(Filled) = Len(buf) + ReadLen
      /\ Begins(buf, Filled) /\ buf \in Seq(Bytes) /\ bytes_read \in Nat /\ need \in Nat
  BY ReadFacts DEF Inv, Types
<1>3. /\ buf # <<>> /\ buf[1] \in DataTypes /\ need = PayloadLen(buf)
      /\ Len(buf) = HdrLen(buf) + bytes_read /\ bytes_read < need
  BY <1>1 DEF Inv, Rounds, PayloadRound
<1>4. HdrLen(buf) \in Nat /\ Len(buf) >= HdrLen(buf)
  BY <1>2, <1>3, HeaderOf
<1>5. Len(buf) - bytes_read + need = n /\ n \in Nat /\ n <= Len(Filled) /\ Len(buf) <= n
  BY <1>1, <1>2, <1>3, <1>4, SMTT(30)
<1> HIDE DEF n
<1>6. b = SubSeq(Filled, 1, n)
  BY <1>5
<1> HIDE DEF b
<1>7. b \in Seq(Bytes) /\ Len(b) = n /\ Begins(b, Filled)
  BY <1>2, <1>5, <1>6, Cut
<1>8. Begins(buf, b)
  BY <1>2, <1>5, <1>7 DEF Begins
<1>9. b[1] = buf[1] /\ HdrLen(b) = HdrLen(buf) /\ PayloadLen(b) = PayloadLen(buf)
  BY <1>2, <1>3, <1>4, <1>7, <1>8, HeaderBegins
<1>10. Len(b) = HdrLen(b) + PayloadLen(b) /\ Len(b) >= HdrLen(b) /\ b # <<>> /\ b[1] \in DataTypes
  <2>1. Len(b) = HdrLen(buf) + need
    BY <1>7 DEF n
  <2>2. b # <<>>
    BY <1>2, <1>3, <1>8 DEF Begins
  <2> QED BY <1>2, <1>3, <1>4, <1>9, <2>1, <2>2
<1>11. Whole(b)
  BY <1>10 DEF Whole
<1> QED BY <1>1, <1>5, <1>6, <1>7, <1>11 DEF n

-----------------------------------------------------------------------------
(* Every step keeps the types and the rounds *)

\* What the host writes: a part of its packet, or all of it.
LEMMA HostWriteFacts ==
    ASSUME Types, setup.pieces \subseteq Nat \ {0}, HostWrite
    PROVE  \E n \in Transfers(setup.pieces, Len(Head(unsent))) :
              /\ Head(unsent) \in Seq(Bytes) /\ Tail(unsent) \in Seq(Seq(Bytes)) /\ unsent # <<>>
              /\ n \in Nat /\ n <= Len(Head(unsent)) /\ (n < Len(Head(unsent)) => n \in setup.pieces)
              /\ wire' = wire \o SubSeq(Head(unsent), 1, n)
              /\ unsent' = IF n = Len(Head(unsent)) THEN Tail(unsent)
                                                    ELSE <<Drop(Head(unsent), n)>> \o Tail(unsent)
<1> DEFINE Q == Seq(Bytes)
           pkt == Head(unsent)
<1>1. unsent # <<>> /\ unsent \in Seq(Q)
  BY DEF HostWrite, Types
<1> HIDE DEF Q
<1>2. pkt \in Q /\ Tail(unsent) \in Seq(Q)
  BY <1>1
<1> USE DEF Q
<1> HIDE DEF pkt
<1>3. PICK n \in Transfers(setup.pieces, Len(pkt)) :
        /\ wire' = wire \o SubSeq(pkt, 1, n)
        /\ unsent' = IF n = Len(pkt) THEN Tail(unsent) ELSE <<Drop(pkt, n)>> \o Tail(unsent)
  BY DEF HostWrite, pkt
<1>4. Len(pkt) \in Nat
  BY <1>2
<1>5. n \in Nat /\ n <= Len(pkt) /\ (n < Len(pkt) => n \in setup.pieces)
  BY <1>4, TransferSize
<1> QED BY <1>1, <1>2, <1>3, <1>5, Zenon DEF pkt

LEMMA HostWriteKeeps == Inv /\ HostWrite => Inv'
<1> SUFFICES ASSUME Inv, HostWrite PROVE Inv'
  OBVIOUS
<1> DEFINE pkt == Head(unsent)
           Q == Seq(Bytes)
<1>1. PICK n \in Transfers(setup.pieces, Len(pkt)) :
        /\ pkt \in Q /\ Tail(unsent) \in Seq(Q) /\ unsent # <<>>
        /\ n \in Nat /\ n <= Len(pkt) /\ (n < Len(pkt) => n \in setup.pieces)
        /\ wire' = wire \o SubSeq(pkt, 1, n)
        /\ unsent' = IF n = Len(pkt) THEN Tail(unsent) ELSE <<Drop(pkt, n)>> \o Tail(unsent)
  BY HostWriteFacts, SetupFacts, Zenon DEF Inv
<1>2. SubSeq(pkt, 1, n) \in Q /\ Drop(pkt, n) \in Q
  <2> HIDE DEF pkt
  <2> QED BY <1>1, Cut
<1> HIDE DEF pkt
<1>3. wire' \in Q
  <2>1. wire \in Seq(Bytes) /\ SubSeq(pkt, 1, n) \in Seq(Bytes)
    BY <1>2 DEF Inv, Types
  <2> QED BY <1>1, <2>1, ConcatFacts, Zenon
<1>4. unsent' \in Seq(Q)
  <2> HIDE DEF Q
  <2>1. <<Drop(pkt, n)>> \o Tail(unsent) \in Seq(Q)
    BY <1>1, <1>2
  <2> QED BY <1>1, <2>1
<1>5. UNCHANGED <<setup, pc, buf, need, bytes_read, done, driver, out, lossy, pkt_cnts, framed>>
  BY DEF HostWrite, ports
<1>6. Types'
  BY <1>3, <1>4, <1>5 DEF Inv, Types
<1>7. Rounds'
  BY <1>5 DEF Inv, Rounds, HeaderRound, PayloadRound, Whole, HdrLen, PayloadLen
<1> QED BY <1>6, <1>7 DEF Inv

\* A step that reads takes bytes from the socket into the buffer.
LEMMA ReadKeeps ==
    ASSUME Inv, wire' \in Seq(Bytes), buf' \in Seq(Bytes), need' \in Nat, bytes_read' \in Nat,
           pc' \in {"header", "payload", "route", "abort"},
           UNCHANGED <<setup, unsent, done, driver, out, lossy, pkt_cnts, framed>>,
           pc' = "header" => HeaderRound(buf', need', bytes_read'),
           pc' = "payload" => PayloadRound(buf', need', bytes_read'),
           pc' = "route" => Whole(buf')
    PROVE  Inv'
<1>1. Types'
  <2>1. pc' \in {"wait", "header", "payload", "route", "send", "abort"}
    OBVIOUS
  <2> QED BY <2>1 DEF Inv, Types
<1>2. Rounds'
  BY Zenon DEF Rounds, HeaderRound, PayloadRound, Whole, HdrLen, PayloadLen
<1> QED BY <1>1, <1>2 DEF Inv

LEMMA ReadTypeKeeps == Inv /\ ReadType => Inv'
<1> SUFFICES ASSUME Inv, ReadType PROVE Inv'
  OBVIOUS
<1>1. wire \in Seq(Bytes) /\ wire # <<>> /\ buf' = <<Head(wire)>> /\ wire' = Tail(wire)
      /\ UNCHANGED <<setup, unsent, done, driver, out, lossy, pkt_cnts, framed>>
  BY DEF ReadType, Inv, Types, host, ports
<1>2. wire' \in Seq(Bytes) /\ buf' \in Seq(Bytes) /\ buf' # <<>> /\ buf'[1] = Head(wire) /\ Len(buf') = 1
  BY <1>1
<1>3. CASE Head(wire) \in DataTypes
  <2>1. pc' = "header" /\ need' = hci_preamble_sizes[buf'[1]] /\ bytes_read' = 0
    BY <1>2, <1>3 DEF ReadType
  <2>2. need' \in {3, 4}
    BY <1>2, <1>3, <2>1, HeaderOf
  <2>3. HeaderRound(buf', need', bytes_read')
    <3>1. Len(buf') = 1 + bytes_read' /\ bytes_read' < need'
      BY <1>2, <2>1, <2>2
    <3> QED BY <1>2, <1>3, <2>1, <3>1, Zenon DEF HeaderRound
  <2>4. need' \in Nat /\ bytes_read' \in Nat
    BY <2>1, <2>2
  <2>5. pc' \in {"header", "payload", "route", "abort"} /\ pc' # "payload" /\ pc' # "route"
    BY <2>1
  <2> QED BY <1>1, <1>2, <2>3, <2>4, <2>5, ReadKeeps
<1>4. CASE Head(wire) \notin DataTypes
  <2>1. pc' = "abort" /\ need' = need /\ bytes_read' = bytes_read
    BY <1>4 DEF ReadType
  <2>2. need' \in Nat /\ bytes_read' \in Nat
    BY <2>1 DEF Inv, Types
  <2> QED BY <1>1, <1>2, <2>1, <2>2, ReadKeeps
<1> QED BY <1>3, <1>4

LEMMA ReadMoreKeeps == Inv /\ ReadMore => Inv'
<1> SUFFICES ASSUME Inv, ReadMore PROVE Inv'
  OBVIOUS
<1>1. /\ pc \in {"header", "payload"} /\ pc' = pc /\ need' = need /\ bytes_read' = bytes_read + ReadLen
      /\ buf' = Filled /\ wire' = Drop(wire, ReadLen)
      /\ UNCHANGED <<setup, unsent, done, driver, out, lossy, pkt_cnts, framed>>
  BY DEF ReadMore, host, ports
<1>2. wire' \in Seq(Bytes) /\ buf' \in Seq(Bytes) /\ need' \in Nat /\ bytes_read' \in Nat
  BY <1>1, ReadFacts DEF Inv, Types
<1>3. /\ pc' = "header" => HeaderRound(buf', need', bytes_read')
      /\ pc' = "payload" => PayloadRound(buf', need', bytes_read')
  BY <1>1, ReadMoreRound, Zenon
<1>4. pc' \in {"header", "payload", "route", "abort"} /\ pc' # "route"
  BY <1>1
<1> QED BY <1>1, <1>2, <1>3, <1>4, ReadKeeps

LEMMA ReadHeaderKeeps == Inv /\ ReadHeader => Inv'
<1> SUFFICES ASSUME Inv, ReadHeader PROVE Inv'
  OBVIOUS
<1>1. /\ wire' = Drop(wire, ReadLen)
      /\ UNCHANGED <<setup, unsent, done, driver, out, lossy, pkt_cnts, framed>>
  BY DEF ReadHeader, host, ports
<1>2. /\ buf' \in Seq(Bytes) /\ buf' # <<>> /\ Len(buf') = HdrLen(buf') /\ buf'[1] \in DataTypes
      /\ need' \in Nat /\ need' = PayloadLen(buf')
      /\ bytes_read' = 0 /\ pc' = (IF need' > 0 THEN "payload" ELSE "route")
  BY ReadHeaderRound
<1>3. wire' \in Seq(Bytes) /\ bytes_read' \in Nat /\ pc' \in {"header", "payload", "route", "abort"}
  BY <1>1, <1>2, ReadFacts DEF Inv
<1>4. HdrLen(buf') \in Nat
  BY <1>2, HeaderOf
<1>5. CASE need' > 0
  <2>1. PayloadRound(buf', need', bytes_read')
    <3>1. Len(buf') = HdrLen(buf') + bytes_read' /\ bytes_read' < need'
      BY <1>2, <1>4, <1>5
    <3> QED BY <1>2, <3>1, Zenon DEF PayloadRound
  <2>2. pc' # "header" /\ pc' # "route"
    BY <1>2, <1>5
  <2> QED BY <1>1, <1>2, <1>3, <2>1, <2>2, ReadKeeps
<1>6. CASE ~(need' > 0)
  <2>1. Whole(buf')
    <3>1. Len(buf') = HdrLen(buf') + PayloadLen(buf') /\ Len(buf') >= HdrLen(buf')
      BY <1>2, <1>4, <1>6
    <3> QED BY <1>2, <3>1, Zenon DEF Whole
  <2>2. pc' # "header" /\ pc' # "payload"
    BY <1>2, <1>6
  <2> QED BY <1>1, <1>2, <1>3, <2>1, <2>2, ReadKeeps
<1> QED BY <1>5, <1>6

LEMMA ReadPayloadKeeps == Inv /\ ReadPayload => Inv'
<1> SUFFICES ASSUME Inv, ReadPayload PROVE Inv'
  OBVIOUS
<1>1. /\ wire' = Drop(wire, ReadLen) /\ pc' = "route"
      /\ UNCHANGED <<setup, unsent, need, bytes_read, done, driver, out, lossy, pkt_cnts, framed>>
  BY DEF ReadPayload, host, ports
<1>2. buf' \in Seq(Bytes) /\ Whole(buf')
  BY ReadPayloadRound
<1>3. wire' \in Seq(Bytes) /\ need' \in Nat /\ bytes_read' \in Nat
  BY <1>1, ReadFacts DEF Inv, Types
<1> QED BY <1>1, <1>2, <1>3, ReadKeeps

\* The steps that take the packet to its port.
LEMMA SendPortType == SendPort(buf) \in Port
BY DEF SendPort, Port, BT_COM_PORT_CMDEVT, BT_COM_PORT_ACL, BT_COM_PORT_AUDIO, BT_COM_PORT_ISO

LEMMA RouteKeeps == Inv /\ Route => Inv'
<1> SUFFICES ASSUME Inv, Route PROVE Inv'
  OBVIOUS
<1>1. /\ pc = "route" /\ pc' = "send" /\ done' = 0 /\ framed' = Append(framed, buf)
      /\ UNCHANGED <<setup, unsent, wire, buf, need, bytes_read, driver, out, lossy>>
  BY DEF Route, host
<1>2. Types'
  <2> DEFINE Q == Seq(Bytes)
  <2>1. framed \in Seq(Q) /\ buf \in Q
    BY DEF Inv, Types
  <2>2. framed' \in Seq(Q)
    <3> HIDE DEF Q
    <3> QED BY <1>1, <2>1
  <2> QED BY <1>1, <2>2 DEF Inv, Types
<1>3. Rounds'
  <2>1. Whole(buf) /\ 0 <= Len(buf)
    BY <1>1 DEF Inv, Rounds, Types
  <2>2. Whole(buf')
    BY <1>1, <2>1, Zenon DEF Whole, HdrLen, PayloadLen
  <2> QED BY <1>1, <2>1, <2>2 DEF Rounds
<1> QED BY <1>2, <1>3 DEF Inv

\* One write takes a part of the rest of the packet.
LEMMA SendFacts ==
    ASSUME Inv, Send
    PROVE  \E n \in Nat :
              /\ n > 0 /\ done + n <= Len(buf)
              /\ out' = [out EXCEPT ![SendPort(buf)] = @ \o SubSeq(buf, done + 1, done + n)]
              /\ done' = done + n
<1>1. PICK n \in Transfers(setup.chunks, Len(buf) - done) :
        /\ out' = [out EXCEPT ![SendPort(buf)] = @ \o SubSeq(buf, done + 1, done + n)]
        /\ done' = done + n
  BY DEF Send
<1>2. done < Len(buf) /\ done \in Nat /\ Len(buf) \in Nat
  BY DEF Send, Inv, Types
<1>3. Len(buf) - done \in Nat /\ Len(buf) - done > 0
  BY <1>2
<1>4. n \in Nat /\ n <= Len(buf) - done /\ n > 0
  BY <1>3, SetupFacts, TransferSize
<1>5. done + n <= Len(buf)
  BY <1>2, <1>4
<1> QED BY <1>1, <1>4, <1>5

LEMMA SendKeeps == Inv /\ Send => Inv'
<1> SUFFICES ASSUME Inv, Send PROVE Inv'
  OBVIOUS
<1>1. PICK n \in Nat :
        /\ n > 0 /\ done + n <= Len(buf)
        /\ out' = [out EXCEPT ![SendPort(buf)] = @ \o SubSeq(buf, done + 1, done + n)]
        /\ done' = done + n
  BY SendFacts
<1>2. pc = "send" /\ UNCHANGED <<setup, unsent, wire, pc, buf, need, bytes_read, framed, lossy>>
  BY DEF Send, host
<1>3. done \in Nat /\ buf \in Seq(Bytes) /\ out \in [Port -> Seq(Bytes)]
  BY DEF Inv, Types
<1>4. SubSeq(buf, done + 1, done + n) \in Seq(Bytes)
  <2>1. done + n \in Nat /\ done <= done + n
    BY <1>1, <1>3
  <2> QED BY <1>1, <1>3, <2>1, PartOf
<1>5. out' \in [Port -> Seq(Bytes)]
  <2> DEFINE o == out[SendPort(buf)] \o SubSeq(buf, done + 1, done + n)
  <2>1. o \in Seq(Bytes)
    BY <1>3, <1>4, SendPortType, ConcatFacts
  <2>2. out' = [out EXCEPT ![SendPort(buf)] = o]
    BY <1>1
  <2> HIDE DEF o
  <2> QED BY <1>3, <2>1, <2>2
<1>6. done' \in Nat /\ done' <= Len(buf')
  BY <1>1, <1>2, <1>3
<1>7. Types'
  BY <1>2, <1>5, <1>6 DEF Inv, Types
<1>8. Rounds'
  <2>1. Whole(buf')
    BY <1>2, Zenon DEF Inv, Rounds, Whole, HdrLen, PayloadLen
  <2> QED BY <1>2, <1>6, <2>1 DEF Rounds
<1> QED BY <1>7, <1>8 DEF Inv

LEMMA EndKeeps == Inv /\ (SendError \/ SendEnd) => Inv'
<1> SUFFICES ASSUME Inv, SendError \/ SendEnd PROVE Inv'
  OBVIOUS
<1>1. /\ pc' = "wait" /\ lossy' \subseteq lossy \cup {SendPort(buf)}
      /\ UNCHANGED <<setup, unsent, wire, buf, need, bytes_read, done, framed, out>>
  BY DEF SendError, SendEnd, host
<1>2. Types'
  BY <1>1, SendPortType DEF Inv, Types
<1>3. Rounds'
  BY <1>1 DEF Rounds
<1> QED BY <1>2, <1>3 DEF Inv

\* Nothing but driver changes, or nothing at all.
LEMMA OthersKeep ==
    ASSUME Inv, UNCHANGED <<setup, unsent, wire, pc, buf, need, bytes_read, done, framed, out, lossy>>
    PROVE  Inv'
<1>1. Types'
  BY DEF Inv, Types
<1>2. Rounds'
  BY DEF Inv, Rounds, HeaderRound, PayloadRound, Whole, HdrLen, PayloadLen
<1> QED BY <1>1, <1>2 DEF Inv

LEMMA InitInv == Init => Inv
<1> SUFFICES ASSUME Init PROVE Inv
  OBVIOUS
<1>1. /\ setup \in Setups /\ unsent = setup.sends /\ wire = <<>> /\ pc = "wait" /\ buf = <<>> /\ need = 0
      /\ bytes_read = 0 /\ done = 0 /\ framed = <<>> /\ out = [p \in Port |-> <<>>] /\ lossy = {}
  BY DEF Init
<1>2. unsent \in Seq(Seq(Bytes))
  BY <1>1, SetupsAssumption DEF Setup, Bytes
<1>3. Types
  BY <1>1, <1>2 DEF Types
<1>4. Rounds
  BY <1>1 DEF Rounds
<1> QED BY <1>3, <1>4 DEF Inv

LEMMA NextInv == Inv /\ [Next]_vars => Inv'
<1> SUFFICES ASSUME Inv, [Next]_vars PROVE Inv'
  OBVIOUS
<1>1. ASSUME NEW p \in Port, DriverDown(p) PROVE Inv'
  BY <1>1, OthersKeep DEF DriverDown, host
<1>2. CASE UNCHANGED vars
  BY <1>2, OthersKeep DEF vars
<1>3. CASE SocketThread
  BY <1>3, ReadTypeKeeps, ReadMoreKeeps, ReadHeaderKeeps, ReadPayloadKeeps, RouteKeeps, SendKeeps,
     EndKeeps, Zenon DEF SocketThread
<1> QED BY <1>1, <1>2, <1>3, HostWriteKeeps, Zenon DEF Next

LEMMA InvAlways == Spec => []Inv
BY InitInv, NextInv, PTL DEF Spec

-----------------------------------------------------------------------------
(* What the ports have got *)

Parts(p, q) == [i \in 1..Len(q) |-> PartFor(p, q[i])]

LEMMA PartsFacts ==
    ASSUME NEW p, NEW q \in Seq(Seq(Bytes))
    PROVE  /\ Parts(p, q) \in Seq(Seq(Bytes)) /\ Len(Parts(p, q)) = Len(q) /\ Len(q) \in Nat
           /\ \A i \in 1..Len(q) : Parts(p, q)[i] = PartFor(p, q[i])
<1> DEFINE Q == Seq(Bytes)
           e(i) == PartFor(p, q[i])
<1>1. q \in Seq(Q) /\ Len(q) \in Nat
  OBVIOUS
<1>2. \A i \in 1..Len(q) : e(i) \in Q
  <2> SUFFICES ASSUME NEW i \in 1..Len(q) PROVE e(i) \in Q
    OBVIOUS
  <2>1. q[i] \in Q /\ <<>> \in Q
    <3>1. q[i] \in Q
      <4> HIDE DEF Q
      <4> QED BY <1>1, ElementOfSeq
    <3> QED BY <3>1
  <2> HIDE DEF Q
  <2> QED BY <2>1, Zenon DEF PartFor
<1>3. Parts(p, q) = [i \in 1..Len(q) |-> e(i)]
  BY DEF Parts
<1> HIDE DEF e, Q
<1>4. Parts(p, q) \in Seq(Q) /\ Len(Parts(p, q)) = Len(q) /\ \A i \in 1..Len(q) : Parts(p, q)[i] = e(i)
  BY <1>1, <1>2, <1>3
<1> QED BY <1>1, <1>4 DEF e, Q

\* A packet adds its bytes for its own port, and none for the others.
LEMMA BytesForAppend ==
    ASSUME NEW p, NEW q \in Seq(Seq(Bytes)), NEW b \in Seq(Bytes)
    PROVE  /\ BytesFor(p, q) \in Seq(Bytes)
           /\ BytesFor(p, Append(q, b)) = BytesFor(p, q) \o PartFor(p, b)
<1> DEFINE Q == Seq(Bytes)
           r == Append(q, b)
           n == Len(q)
<1>1. q \in Seq(Q) /\ b \in Q /\ <<>> \in Q
  OBVIOUS
<1>2. PartFor(p, b) \in Q
  <2> HIDE DEF Q
  <2> QED BY <1>1, Zenon DEF PartFor
<1>3. r \in Seq(Q) /\ Len(r) = n + 1 /\ r[n + 1] = b /\ n \in Nat /\ \A i \in 1..n : r[i] = q[i]
  <2> HIDE DEF Q
  <2> QED BY <1>1, AppendProperties
<1> HIDE DEF r
<1>4. /\ Parts(p, q) \in Seq(Q) /\ Len(Parts(p, q)) = n
      /\ \A i \in 1..n : Parts(p, q)[i] = PartFor(p, q[i])
  BY PartsFacts
<1>5. /\ Parts(p, r) \in Seq(Q) /\ Len(Parts(p, r)) = n + 1
      /\ \A i \in 1..(n + 1) : Parts(p, r)[i] = PartFor(p, r[i])
  BY <1>3, PartsFacts
<1>6. Parts(p, r) = Append(Parts(p, q), PartFor(p, b))
  <2> DEFINE A == Parts(p, q)
             B == Parts(p, r)
             c == PartFor(p, b)
             C == Append(A, c)
  <2>0. A \in Seq(Q) /\ B \in Seq(Q) /\ c \in Q /\ Len(A) = n /\ Len(B) = n + 1 /\ n \in Nat
    BY <1>2, <1>3, <1>4, <1>5
  <2>1. \A i \in 1..n : B[i] = A[i]
    <3> SUFFICES ASSUME NEW i \in 1..n PROVE B[i] = A[i]
      OBVIOUS
    <3>1. i \in 1..(n + 1)
      BY <1>3
    <3> QED BY <1>3, <1>4, <1>5, <3>1
  <2>2. B[n + 1] = c
    BY <1>3, <1>5
  <2> HIDE DEF A, B, c, n, Q
  <2>3. C \in Seq(Q) /\ Len(C) = n + 1 /\ C[n + 1] = c /\ \A i \in 1..n : C[i] = A[i]
    BY <2>0, AppendProperties
  <2> HIDE DEF C
  <2>4. \A i \in 1..(n + 1) : B[i] = C[i]
    BY <2>0, <2>1, <2>2, <2>3
  <2>5. B = C
    BY <2>0, <2>3, <2>4, SeqEqual
  <2> QED BY <2>5 DEF A, B, c, C
<1>7. BytesFor(p, q) = FlattenSeq(Parts(p, q)) /\ BytesFor(p, r) = FlattenSeq(Parts(p, r))
  BY Zenon DEF BytesFor, Parts
<1>8. FlattenSeq(Parts(p, q)) \in Seq(Bytes)
  BY <1>4, FlattenType
<1>9. FlattenSeq(Append(Parts(p, q), PartFor(p, b))) = FlattenSeq(Parts(p, q)) \o PartFor(p, b)
  BY <1>2, <1>4, <1>8, FlattenAppend
<1> QED BY <1>6, <1>7, <1>8, <1>9 DEF r

\* A port that lost nothing: of the packet that is written for it, it has the bytes sent.
Received(p) ==
    IF pc = "send" /\ SendPort(buf) = p
    THEN \E X \in Seq(Bytes) : BytesFor(p, framed) = X \o buf /\ out[p] = X \o SubSeq(buf, 1, done)
    ELSE out[p] = BytesFor(p, framed)

PortsRight == \A p \in Port \ lossy : Received(p)

LEMMA SameSetup ==
    ASSUME setup' = setup
    PROVE  /\ \A p : BytesFor(p, framed)' = BytesFor(p, framed')
           /\ SendPort(buf)' = SendPort(buf')
BY Zenon DEF BytesFor, PartFor, SendPort

\* A step that writes nothing.
LEMMA SilentPorts ==
    ASSUME PortsRight, UNCHANGED <<setup, framed, out, lossy>>,
           pc' = "send" <=> pc = "send", pc = "send" => UNCHANGED <<buf, done>>
    PROVE  PortsRight'
<1> SUFFICES ASSUME NEW p \in Port \ lossy PROVE Received(p)'
  BY DEF PortsRight
<1>1. BytesFor(p, framed)' = BytesFor(p, framed)
  BY SameSetup
<1>2. Received(p) /\ out'[p] = out[p]
  BY DEF PortsRight
<1>3. CASE pc = "send"
  <2>1. SendPort(buf)' = SendPort(buf) /\ buf' = buf /\ done' = done /\ pc' = "send"
    BY <1>3, SameSetup
  <2> QED BY <1>1, <1>2, <1>3, <2>1, Zenon DEF Received
<1>4. CASE pc # "send"
  BY <1>1, <1>2, <1>4, Zenon DEF Received
<1> QED BY <1>3, <1>4

LEMMA RoutePorts ==
    ASSUME Inv, PortsRight, Route
    PROVE  PortsRight'
<1>1. /\ pc = "route" /\ pc' = "send" /\ done' = 0 /\ framed' = Append(framed, buf)
      /\ UNCHANGED <<setup, buf, out, lossy>>
  BY DEF Route, host
<1> SUFFICES ASSUME NEW p \in Port \ lossy PROVE Received(p)'
  BY <1>1 DEF PortsRight
<1>2. framed \in Seq(Seq(Bytes)) /\ buf \in Seq(Bytes)
  BY DEF Inv, Types
<1>3. BytesFor(p, framed) \in Seq(Bytes) /\ BytesFor(p, framed') = BytesFor(p, framed) \o PartFor(p, buf)
  BY <1>1, <1>2, BytesForAppend
<1>4. out[p] = BytesFor(p, framed)
  BY <1>1 DEF PortsRight, Received
<1>5. BytesFor(p, framed)' = BytesFor(p, framed') /\ SendPort(buf)' = SendPort(buf)
  BY <1>1, SameSetup
<1> DEFINE X == BytesFor(p, framed)
<1>6. CASE SendPort(buf) = p
  <2>1. BytesFor(p, framed') = X \o buf
    BY <1>3, <1>6 DEF PartFor
  <2>2. out'[p] = X \o SubSeq(buf', 1, done')
    <3>1. SubSeq(buf', 1, done') = <<>> /\ X \o <<>> = X
      BY <1>1, <1>3
    <3> QED BY <1>1, <1>4, <3>1
  <2>3. X \in Seq(Bytes)
    BY <1>3
  <2> HIDE DEF X
  <2> QED BY <1>1, <1>5, <1>6, <2>1, <2>2, <2>3, Zenon DEF Received
<1>7. CASE SendPort(buf) # p
  <2>1. BytesFor(p, framed') = X
    <3>1. PartFor(p, buf) = <<>> /\ X \o <<>> = X
      BY <1>3, <1>7 DEF PartFor
    <3> QED BY <1>3, <3>1
  <2> QED BY <1>1, <1>4, <1>5, <1>7, <2>1, Zenon DEF Received
<1> QED BY <1>6, <1>7

LEMMA SendPorts ==
    ASSUME Inv, PortsRight, Send
    PROVE  PortsRight'
<1>1. PICK n \in Nat :
        /\ n > 0 /\ done + n <= Len(buf)
        /\ out' = [out EXCEPT ![SendPort(buf)] = @ \o SubSeq(buf, done + 1, done + n)]
        /\ done' = done + n
  BY SendFacts
<1>2. pc = "send" /\ UNCHANGED <<setup, pc, buf, framed, lossy>>
  BY DEF Send, host
<1> SUFFICES ASSUME NEW p \in Port \ lossy PROVE Received(p)'
  BY <1>2 DEF PortsRight
<1>3. done \in Nat /\ buf \in Seq(Bytes) /\ out \in [Port -> Seq(Bytes)] /\ p \in Port
  BY DEF Inv, Types
<1>4. BytesFor(p, framed)' = BytesFor(p, framed) /\ SendPort(buf)' = SendPort(buf)
  BY <1>2, SameSetup
<1>5. Received(p)
  BY DEF PortsRight
<1>6. CASE SendPort(buf) = p
  <2>1. PICK X \in Seq(Bytes) : BytesFor(p, framed) = X \o buf /\ out[p] = X \o SubSeq(buf, 1, done)
    BY <1>2, <1>5, <1>6, Zenon DEF Received
  <2> DEFINE B == SubSeq(buf, 1, done)
             C == SubSeq(buf, done + 1, done + n)
  <2>2. out'[p] = (X \o B) \o C
    <3>1. out'[p] = out[p] \o C
      BY <1>1, <1>3, <1>6
    <3> QED BY <2>1, <3>1
  <2>3. B \in Seq(Bytes) /\ C \in Seq(Bytes) /\ B \o C = SubSeq(buf, 1, done + n)
    <3>1. done + n \in Nat /\ done <= done + n /\ done <= Len(buf)
      BY <1>1, <1>3
    <3>2. C \in Seq(Bytes) /\ B \o C = SubSeq(buf, 1, done + n)
      BY <1>1, <1>3, <3>1, PartOf
    <3>3. B \in Seq(Bytes)
      BY <1>3, <3>1, Cut
    <3> QED BY <3>2, <3>3
  <2> HIDE DEF B, C
  <2>4. (X \o B) \o C = X \o (B \o C)
    <3>1. X \in Seq(Bytes) /\ B \in Seq(Bytes) /\ C \in Seq(Bytes)
      BY <2>1, <2>3
    <3>2. \A c \in Seq(Bytes) : (X \o B) \o c = X \o (B \o c)
      BY <3>1, ConcatFacts
    <3> QED BY <3>1, <3>2, Zenon
  <2>5. out'[p] = X \o SubSeq(buf', 1, done')
    BY <1>1, <1>2, <2>2, <2>3, <2>4
  <2> QED BY <1>2, <1>4, <1>6, <2>1, <2>5, Zenon DEF Received
<1>7. CASE SendPort(buf) # p
  <2>1. out'[p] = out[p]
    BY <1>1, <1>3, <1>7
  <2> QED BY <1>2, <1>4, <1>5, <1>7, <2>1, Zenon DEF Received
<1> QED BY <1>6, <1>7

LEMMA EndPorts ==
    ASSUME Inv, PortsRight, SendError \/ SendEnd
    PROVE  PortsRight'
<1>1. /\ pc = "send" /\ pc' = "wait" /\ UNCHANGED <<setup, framed, out>>
      /\ lossy \subseteq lossy' /\ (SendPort(buf) \in lossy' \/ ~(done < Len(buf)))
  BY DEF SendError, SendEnd, host
<1> SUFFICES ASSUME NEW p \in Port \ lossy' PROVE Received(p)'
  BY DEF PortsRight
<1>2. Received(p)
  BY <1>1 DEF PortsRight
<1>3. BytesFor(p, framed)' = BytesFor(p, framed)
  BY <1>1, SameSetup
<1>4. out[p] = BytesFor(p, framed)
  <2>1. CASE SendPort(buf) = p
    <3>1. PICK X \in Seq(Bytes) : BytesFor(p, framed) = X \o buf /\ out[p] = X \o SubSeq(buf, 1, done)
      BY <1>1, <1>2, <2>1, Zenon DEF Received
    <3>2. ~(done < Len(buf)) /\ done <= Len(buf) /\ done \in Nat /\ buf \in Seq(Bytes)
      BY <1>1, <2>1 DEF Inv, Rounds, Types
    <3>3. SubSeq(buf, 1, done) = buf
      <4>1. done = Len(buf)
        BY <3>2
      <4> QED BY <3>2, <4>1
    <3> QED BY <3>1, <3>3
  <2>2. CASE SendPort(buf) # p
    BY <1>2, <2>2, Zenon DEF Received
  <2> QED BY <2>1, <2>2
<1> QED BY <1>1, <1>3, <1>4, Zenon DEF Received

LEMMA InitPorts == Init => PortsRight
<1> SUFFICES ASSUME Init, NEW p \in Port PROVE Received(p)
  BY DEF PortsRight
<1>1. pc # "send" /\ framed = <<>> /\ out[p] = <<>>
  BY DEF Init
<1>2. BytesFor(p, framed) = <<>>
  <2>1. BytesFor(p, framed) = FlattenSeq(Parts(p, framed))
    BY Zenon DEF BytesFor, Parts
  <2>2. framed \in Seq(Seq(Bytes)) /\ Len(framed) = 0
    BY <1>1
  <2>3. Parts(p, framed) = <<>>
    <3> DEFINE B == Parts(p, framed)
    <3>1. B \in Seq(Seq(Bytes)) /\ Len(B) = 0
      BY <2>2, PartsFacts
    <3> HIDE DEF B
    <3>2. B = <<>>
      BY <3>1, EmptySeq
    <3> QED BY <3>2 DEF B
  <2>4. FlattenSeq(<<>>) = <<>>
    <3>1. Len(<<>>) = 0
      OBVIOUS
    <3> QED BY <3>1, Zenon DEF FlattenSeq
  <2> QED BY <2>1, <2>3, <2>4
<1> QED BY <1>1, <1>2 DEF Received

LEMMA NextPorts == Inv /\ PortsRight /\ [Next]_vars => PortsRight'
<1> SUFFICES ASSUME Inv, PortsRight, [Next]_vars PROVE PortsRight'
  OBVIOUS
<1>1. CASE HostWrite
  BY <1>1, SilentPorts DEF HostWrite, ports
<1>2. CASE ReadType
  <2>1. pc # "send" /\ pc' # "send" /\ UNCHANGED <<setup, framed, out, lossy>>
    BY <1>2 DEF ReadType, host, ports
  <2> QED BY <2>1, SilentPorts
<1>3. CASE ReadMore
  <2>1. pc # "send" /\ pc' # "send" /\ UNCHANGED <<setup, framed, out, lossy>>
    BY <1>3 DEF ReadMore, host, ports
  <2> QED BY <2>1, SilentPorts
<1>4. CASE ReadHeader
  <2>1. pc # "send" /\ pc' # "send" /\ UNCHANGED <<setup, framed, out, lossy>>
    BY <1>4 DEF ReadHeader, host, ports
  <2> QED BY <2>1, SilentPorts
<1>5. CASE ReadPayload
  <2>1. pc # "send" /\ pc' # "send" /\ UNCHANGED <<setup, framed, out, lossy>>
    BY <1>5 DEF ReadPayload, host, ports
  <2> QED BY <2>1, SilentPorts
<1>6. ASSUME NEW p \in Port, DriverDown(p) PROVE PortsRight'
  BY <1>6, SilentPorts DEF DriverDown, host
<1>7. CASE UNCHANGED vars
  BY <1>7, SilentPorts DEF vars
<1> QED BY <1>1, <1>2, <1>3, <1>4, <1>5, <1>6, <1>7, RoutePorts, SendPorts, EndPorts, Zenon
        DEF Next, SocketThread

\* The front of a joined sequence.
LEMMA FrontOf ==
    ASSUME NEW S, NEW a \in Seq(S), NEW b \in Seq(S), NEW n \in Nat, n <= Len(b)
    PROVE  SubSeq(a \o b, 1, Len(a) + n) = a \o SubSeq(b, 1, n)
<1> DEFINE B == SubSeq(b, 1, n)
           C == Drop(b, n)
<1>1. B \in Seq(S) /\ Len(B) = n /\ C \in Seq(S) /\ b = B \o C
  BY Cut
<1> HIDE DEF B, C
<1>2. a \o b = (a \o B) \o C
  <2>1. B \in Seq(S)
    BY <1>1
  <2>2. \A c \in Seq(S) : (a \o B) \o c = a \o (B \o c)
    BY <2>1, ConcatAssociative
  <2> QED BY <1>1, <2>2, Zenon
<1> DEFINE D == a \o B
<1>3. D \in Seq(S) /\ Len(D) = Len(a) + n
  BY <1>1, ConcatFacts
<1> HIDE DEF D
<1>4. SubSeq(D \o C, 1, Len(D)) = D
  BY <1>1, <1>3
<1> QED BY <1>2, <1>3, <1>4 DEF D, B

LEMMA ReceivedMeans == Inv /\ PortsRight => PortGetsItsPackets
<1> SUFFICES ASSUME Inv, PortsRight, NEW p \in Port \ lossy
             PROVE  LET all == BytesFor(p, framed)
                        rest == IF pc = "send" /\ SendPort(buf) = p THEN Len(buf) - done ELSE 0
                    IN  out[p] = SubSeq(all, 1, Len(all) - rest)
  BY DEF PortGetsItsPackets
<1> DEFINE all == BytesFor(p, framed)
<1>1. Received(p) /\ all \in Seq(Bytes) /\ buf \in Seq(Bytes) /\ done \in Nat
  BY BytesForAppend DEF PortsRight, Inv, Types
<1>2. CASE pc = "send" /\ SendPort(buf) = p
  <2>1. PICK X \in Seq(Bytes) : all = X \o buf /\ out[p] = X \o SubSeq(buf, 1, done)
    BY <1>1, <1>2, Zenon DEF Received
  <2>2. done <= Len(buf)
    BY <1>2 DEF Inv, Rounds
  <2>3. SubSeq(X \o buf, 1, Len(X) + done) = X \o SubSeq(buf, 1, done)
    BY <1>1, <2>2, FrontOf
  <2>4. Len(all) - (Len(buf) - done) = Len(X) + done
    <3>1. Len(X \o buf) = Len(X) + Len(buf)
      BY <1>1, ConcatFacts
    <3> QED BY <1>1, <2>1, <3>1
  <2> QED BY <1>2, <2>1, <2>3, <2>4
<1>3. CASE ~(pc = "send" /\ SendPort(buf) = p)
  <2>1. out[p] = all
    BY <1>1, <1>3, Zenon DEF Received
  <2>2. SubSeq(all, 1, Len(all) - 0) = all
    <3> HIDE DEF all
    <3> QED BY <1>1
  <2> QED BY <1>3, <2>1, <2>2
<1> QED BY <1>2, <1>3

\* However the host writes and the ports take the bytes, and whatever dies: a port that lost nothing
\* has got the packets that the thread framed for it, whole and in order, up to the byte that the
\* write loop of scomm_vendor_recv_rawdata has come to.
THEOREM RawPortGetsItsPackets == Spec => []PortGetsItsPackets
BY InvAlways, InitPorts, NextPorts, ReceivedMeans, PTL DEF Spec

-----------------------------------------------------------------------------
(* Where the thread is in what the host sends *)

\* The packets of a host that keeps the thread in step.
LEMMA PacketWhole ==
    ASSUME NEW b \in Seq(Bytes), IsPacket(b)
    PROVE  /\ b # <<>> /\ b[1] \in DataTypes /\ HdrLen(b) \in {4, 5}
           /\ Len(b) >= HdrLen(b) /\ Len(b) = HdrLen(b) + PayloadLen(b)
<1>1. CASE Len(b) >= 4 /\ b[1] \in {HCI_COMMAND_PKT, HCI_SCODATA_PKT} /\ Len(b) = 4 + b[4]
  <2>1. b[1] \in DataTypes /\ b[1] \notin {HCI_ACLDATA_PKT, HCI_ISO_PKT}
    BY <1>1 DEF DataTypes, HCI_COMMAND_PKT, HCI_SCODATA_PKT, HCI_ACLDATA_PKT, HCI_ISO_PKT
  <2>2. HdrLen(b) = 4 /\ PayloadLen(b) = b[4]
    BY <2>1 DEF HdrLen, hci_preamble_sizes, PayloadLen
  <2> QED BY <1>1, <2>1, <2>2
<1>2. CASE /\ Len(b) >= 5 /\ b[1] \in {HCI_ACLDATA_PKT, HCI_ISO_PKT}
           /\ Len(b) = 5 + b[4] + 256 * b[5]
  <2>1. b[1] \in DataTypes
    BY <1>2 DEF DataTypes
  <2>2. HdrLen(b) = 5 /\ PayloadLen(b) = b[4] + 256 * b[5]
    BY <1>2, <2>1 DEF HdrLen, hci_preamble_sizes, PayloadLen
  <2>3. b[4] \in 0..255 /\ b[5] \in 0..255
    <3>1. \A i \in 1..Len(b) : b[i] \in Bytes
      BY ElementOfSeq
    <3>2. 4 \in 1..Len(b) /\ 5 \in 1..Len(b)
      <4>1. Len(b) \in Nat /\ Len(b) >= 5
        BY <1>2
      <4> HIDE <1>2
      <4> QED BY <4>1
    <3>3. b[4] \in Bytes /\ b[5] \in Bytes
      BY <3>1, <3>2, Zenon
    <3> QED BY <3>3, Zenon DEF Bytes
  <2>4. 5 + b[4] + 256 * b[5] = 5 + (b[4] + 256 * b[5])
    <3> DEFINE x == b[4]
               y == b[5]
    <3>1. x \in 0..255 /\ y \in 0..255
      BY <2>3
    <3> HIDE DEF x, y
    <3>2. 5 + x + 256 * y = 5 + (x + 256 * y)
      BY <3>1
    <3> QED BY <3>2 DEF x, y
  <2> QED BY <1>2, <2>1, <2>2, <2>4
<1> QED BY <1>1, <1>2 DEF IsPacket

\* Two packets, or their beginnings, with the same header say the same length.
LEMMA SameHeader ==
    ASSUME NEW a \in Seq(Bytes), NEW b \in Seq(Bytes), a[1] \in DataTypes, a[1] = b[1],
           \A i \in 1..HdrLen(a) : a[i] = b[i]
    PROVE  HdrLen(b) = HdrLen(a) /\ PayloadLen(b) = PayloadLen(a)
<1>1. HdrLen(b) = HdrLen(a)
  BY DEF HdrLen
<1>2. CASE a[1] \in {HCI_ACLDATA_PKT, HCI_ISO_PKT}
  <2>1. HdrLen(a) = 5
    BY <1>2 DEF HdrLen, hci_preamble_sizes
  <2>2. a[4] = b[4] /\ a[5] = b[5]
    BY <2>1
  <2> QED BY <1>1, <1>2, <2>2 DEF PayloadLen
<1>3. CASE a[1] \notin {HCI_ACLDATA_PKT, HCI_ISO_PKT}
  <2>1. HdrLen(a) = 4
    BY <1>3 DEF HdrLen, hci_preamble_sizes
  <2>2. a[4] = b[4]
    BY <2>1
  <2> QED BY <1>1, <1>3, <2>2 DEF PayloadLen
<1> QED BY <1>2, <1>3

\* The packets of s, all of them whole.
Packets(s) == s \in Seq(Seq(Bytes)) /\ \A i \in 1..Len(s) : IsPacket(s[i])

\* There are none only at packet j; else packet k + 1 is in front, and alone when it is packet j.
Follows(s, k, j, G) ==
    /\ G = <<>> <=> j = k
    /\ j > k => s[k+1] \in Seq(Bytes) /\ IsPacket(s[k+1]) /\ Begins(s[k+1], G)
    /\ j = k + 1 => Len(G) = Len(s[k+1])

\* What the bytes ahead are when they lead from the end of packet k to the end of packet j.
LEMMA ComesNext ==
    ASSUME NEW s, Packets(s), NEW k \in Nat, NEW j \in Nat, k <= j, j <= Len(s),
           NEW G \in Seq(Bytes), Joined(s, k) \o G = Joined(s, j)
    PROVE  Follows(s, k, j, G)
<1> USE DEF Follows
<1> DEFINE A == Joined(s, k)
           J == Joined(s, j)
           c == s[k+1]
<1>1. s \in Seq(Seq(Bytes)) /\ Len(s) \in Nat
  BY DEF Packets
<1>2. A \in Seq(Bytes) /\ J \in Seq(Bytes)
  BY <1>1, JoinedBegins
<1>3. A \o G = J
  OBVIOUS
<1>4. Len(J) = Len(A) + Len(G) /\ Len(A) \in Nat /\ Len(G) \in Nat
  <2> HIDE DEF A, J
  <2> QED BY <1>2, <1>3, ConcatFacts
<1>5. CASE j = k
  <2>1. A = J
    BY <1>5
  <2> HIDE DEF A, J
  <2>2. Len(G) = 0
    BY <1>4, <2>1
  <2>3. G = <<>>
    BY <2>2, EmptySeq
  <2> QED BY <1>5, <2>3
<1>6. CASE j > k
  <2> DEFINE B == Joined(s, k + 1)
  <2>1. k < Len(s) /\ k + 1 \in Nat /\ k + 1 <= j
    BY <1>6
  <2>2. c \in Seq(Bytes) /\ B = A \o c
    BY <1>1, <2>1, JoinedNext
  <2>3. B \in Seq(Bytes) /\ Begins(B, J)
    <3> DEFINE m == k + 1
    <3>1. m \in Nat /\ m <= j
      BY <2>1
    <3> HIDE DEF m
    <3>2. Joined(s, m) \in Seq(Bytes) /\ Begins(Joined(s, m), Joined(s, j))
      BY <1>1, <3>1, JoinedBegins
    <3> QED BY <3>2 DEF m
  <2>4. IsPacket(c)
    <3>1. k + 1 \in 1..Len(s)
      BY <1>1, <2>1
    <3> QED BY <3>1 DEF Packets
  <2>5. c # <<>>
    BY <2>2, <2>4, PacketWhole
  <2>6. j = k + 1 => J = B
    OBVIOUS
  <2> HIDE DEF A, B, c, J
  <2>7. Len(B) = Len(A) + Len(c) /\ \A i \in 1..Len(c) : B[Len(A) + i] = c[i]
    BY <1>2, <2>2
  <2>8. \A i \in 1..Len(G) : J[Len(A) + i] = G[i]
    BY <1>2, <1>3
  <2>9. Len(c) \in Nat \ {0} /\ Len(c) <= Len(G)
    BY <1>4, <2>2, <2>3, <2>5, <2>7 DEF Begins
  <2>10. \A i \in 1..Len(c) : G[i] = c[i]
    <3> SUFFICES ASSUME NEW i \in 1..Len(c) PROVE G[i] = c[i]
      OBVIOUS
    <3>1. Len(A) + i \in 1..Len(B) /\ i \in 1..Len(G)
      BY <1>4, <2>7, <2>9
    <3>2. J[Len(A) + i] = B[Len(A) + i]
      BY <2>3, <3>1 DEF Begins
    <3> QED BY <2>7, <2>8, <3>1, <3>2
  <2>11. Begins(c, G) /\ G # <<>>
    BY <2>9, <2>10 DEF Begins
  <2>12. j = k + 1 => Len(G) = Len(c)
    BY <1>4, <2>6, <2>7, <2>9
  <2> QED BY <1>6, <2>2, <2>4, <2>11, <2>12 DEF c
<1> QED BY <1>5, <1>6

\* What the host has not written: a rest of a packet, and the packets behind the first j.
Unwritten(s, X, j) ==
    IF X = <<>> THEN SubSeq(s, j + 1, Len(s)) ELSE <<X>> \o SubSeq(s, j + 1, Len(s))

\* The host has sent j packets, the last of them but for X, and k of them were framed; g are the bytes
\* between.  A host that cuts packets is in the one that is read, and the header of that one is there.
Placed(st, k, g, u) ==
    \E j \in Nat, X \in Seq(Bytes) :
        /\ k <= j /\ j <= Len(st.sends)
        /\ Joined(st.sends, k) \o (g \o X) = Joined(st.sends, j)
        /\ u = Unwritten(st.sends, X, j)
        /\ st.pieces = {} => X = <<>>
        /\ st.pieces # {} => j <= k + 1 /\ (g \o X # <<>> => Len(g) >= HdrLen(st.sends[k+1]))

\* The bytes of the packet that the thread reads.
Got == IF pc \in {"header", "payload", "route"} THEN buf ELSE <<>>

Framing ==
    /\ Len(framed) <= Len(setup.sends) /\ \A i \in 1..Len(framed) : framed[i] = setup.sends[i]
    /\ Placed(setup, Len(framed), Got \o wire, unsent)
    /\ pc = "header" => bytes_read = 0
    /\ pc = "payload" /\ setup.pieces = {} => bytes_read = 0
    /\ pc # "abort"

\* The bytes ahead, if there are any, are those of packet c, at least its header.
InHand(st, c, g) ==
    /\ c \in Seq(Bytes) /\ IsPacket(c) /\ Len(g) >= HdrLen(c)
    /\ \A i \in 1..Len(g) : i <= Len(c) => g[i] = c[i]
    /\ st.pieces = {} => Len(c) <= Len(g)
    /\ st.pieces # {} => Len(g) <= Len(c)

LEMMA AtHand ==
    ASSUME NEW st, Packets(st.sends), NEW k \in Nat, NEW g \in Seq(Bytes), g # <<>>, NEW u,
           Placed(st, k, g, u)
    PROVE  k < Len(st.sends) /\ InHand(st, st.sends[k+1], g)
<1> DEFINE s == st.sends
           c == s[k+1]
<1>1. PICK j \in Nat, X \in Seq(Bytes) :
        /\ k <= j /\ j <= Len(s)
        /\ Joined(s, k) \o (g \o X) = Joined(s, j)
        /\ st.pieces = {} => X = <<>>
        /\ st.pieces # {} => j <= k + 1 /\ (g \o X # <<>> => Len(g) >= HdrLen(c))
  BY Zenon DEF Placed
<1> DEFINE G == g \o X
<1>2. /\ G \in Seq(Bytes) /\ Len(G) = Len(g) + Len(X) /\ Begins(g, G)
      /\ Len(g) \in Nat \ {0} /\ Len(X) \in Nat
  BY ConcatFacts
<1>3. G # <<>>
  <2> HIDE DEF G
  <2> QED BY <1>2
<1>4. Len(s) \in Nat
  BY DEF Packets
<1>5. /\ G = <<>> <=> j = k
      /\ j > k => c \in Seq(Bytes) /\ IsPacket(c) /\ Begins(c, G)
      /\ j = k + 1 => Len(G) = Len(c)
  <2>1. Joined(s, k) \o G = Joined(s, j)
    BY <1>1
  <2>2. Packets(s)
    OBVIOUS
  <2> HIDE DEF s, G
  <2>3. Follows(s, k, j, G)
    <3>1. k <= j /\ j <= Len(s) /\ G \in Seq(Bytes)
      BY <1>1, <1>2
    <3> HIDE <1>1, <1>2
    <3> QED BY <2>1, <2>2, <3>1, ComesNext, Zenon
  <2> QED BY <2>3, Zenon DEF Follows
<1> HIDE DEF G, c
<1>6. j > k /\ k < Len(s)
  BY <1>1, <1>3, <1>4, <1>5
<1>7. c \in Seq(Bytes) /\ IsPacket(c) /\ Begins(c, G) /\ Len(c) \in Nat
  BY <1>5, <1>6
<1>8. \A i \in 1..Len(g) : i <= Len(c) => g[i] = c[i]
  BY <1>2, <1>7 DEF Begins
<1>9. st.pieces = {} => Len(c) <= Len(g)
  <2> SUFFICES ASSUME st.pieces = {} PROVE Len(c) <= Len(g)
    OBVIOUS
  <2>1. Len(X) = 0
    BY <1>1
  <2> QED BY <1>2, <1>7, <2>1 DEF Begins
<1>10. st.pieces # {} => Len(g) <= Len(c)
  <2> SUFFICES ASSUME st.pieces # {} PROVE Len(g) <= Len(c)
    OBVIOUS
  <2>1. j = k + 1
    BY <1>1, <1>6
  <2> QED BY <1>2, <1>5, <1>7, <2>1
<1>11. Len(g) >= HdrLen(c)
  <2>1. CASE st.pieces = {}
    <3>1. HdrLen(c) \in {4, 5} /\ Len(c) >= HdrLen(c)
      BY <1>7, PacketWhole
    <3> QED BY <1>2, <1>7, <1>9, <2>1, <3>1
  <2>2. CASE st.pieces # {}
    BY <1>1, <1>3, <2>2 DEF c, G
  <2> QED BY <2>1, <2>2
<1> QED BY <1>6, <1>7, <1>8, <1>9, <1>10, <1>11 DEF InHand, c

\* The thread reads: the bytes ahead stay, but some of them are in the buffer now.
LEMMA ReadFraming ==
    ASSUME Framing, UNCHANGED <<setup, unsent, framed>>, Got' \o wire' = Got \o wire,
           pc' = "header" => bytes_read' = 0,
           pc' = "payload" /\ setup.pieces = {} => bytes_read' = 0,
           pc' # "abort"
    PROVE  Framing'
<1>1. Placed(setup', Len(framed'), Got' \o wire', unsent')
  BY Zenon DEF Framing
<1>2. Placed(setup, Len(framed), Got \o wire, unsent)'
  BY <1>1, Zenon DEF Placed, Unwritten, HdrLen
<1> QED BY <1>2, Zenon DEF Framing

\* What is in hand in a round of reads.
LEMMA RoundInHand ==
    ASSUME Inv, Framing, KeepsPlace(setup), Got \o wire # <<>>
    PROVE  /\ Len(framed) < Len(setup.sends)
           /\ InHand(setup, setup.sends[Len(framed) + 1], Got \o wire)
<1> DEFINE g == Got \o wire
           k == Len(framed)
<1>1. Packets(setup.sends)
  BY SetupFacts DEF KeepsPlace, Packets
<1>2. g \in Seq(Bytes) /\ g # <<>> /\ k \in Nat
  <2>1. Got \in Seq(Bytes) /\ wire \in Seq(Bytes)
    BY DEF Got, Inv, Types
  <2>2. g \in Seq(Bytes)
    BY <2>1, ConcatFacts, Zenon
  <2> QED BY <2>2 DEF Inv, Types
<1>3. Placed(setup, k, g, unsent)
  BY DEF Framing
<1> HIDE DEF g, k
<1>4. k < Len(setup.sends) /\ InHand(setup, setup.sends[k+1], g)
  BY <1>1, <1>2, <1>3, AtHand, Zenon
<1> QED BY <1>4 DEF g, k

\* In a round of reads: what is in the buffer, c the packet that is read.
LEMMA BufferInHand ==
    ASSUME Inv, Framing, KeepsPlace(setup), pc \in {"header", "payload", "route"}
    PROVE  LET c == setup.sends[Len(framed) + 1]
           IN  /\ Len(framed) < Len(setup.sends) /\ c \in Seq(Bytes)
               /\ \A i \in 1..Len(buf) : i <= Len(c) => buf[i] = c[i]
               /\ HdrLen(c) \in {4, 5} /\ Len(c) = HdrLen(c) + PayloadLen(c) /\ Len(c) >= HdrLen(c)
               /\ buf # <<>> => buf[1] = c[1] /\ c[1] \in DataTypes /\ HdrLen(buf) = HdrLen(c)
               /\ Len(buf) + Len(wire) >= HdrLen(c)
               /\ setup.pieces = {} => Len(c) <= Len(buf) + Len(wire)
               /\ setup.pieces # {} => Len(buf) + Len(wire) <= Len(c)
<1> DEFINE c == setup.sends[Len(framed) + 1]
           g == buf \o wire
<1>1. buf # <<>> /\ buf \in Seq(Bytes) /\ wire \in Seq(Bytes) /\ Len(buf) \in Nat \ {0} /\ Len(wire) \in Nat
  BY DEF Inv, Rounds, Types, HeaderRound, PayloadRound, Whole
<1>2. g \in Seq(Bytes) /\ Len(g) = Len(buf) + Len(wire) /\ Begins(buf, g)
  BY <1>1, ConcatFacts
<1>3. Got = buf
  BY DEF Got
<1> HIDE DEF g
<1>4. g # <<>>
  BY <1>1, <1>2
<1>5. Len(framed) < Len(setup.sends) /\ InHand(setup, c, g)
  <2>1. Got \o wire = g
    BY <1>3 DEF g
  <2> HIDE DEF c
  <2> QED BY <1>4, <2>1, RoundInHand DEF c
<1> HIDE DEF c
<1>6. /\ c \in Seq(Bytes) /\ IsPacket(c) /\ Len(g) >= HdrLen(c)
      /\ \A i \in 1..Len(g) : i <= Len(c) => g[i] = c[i]
      /\ setup.pieces = {} => Len(c) <= Len(g)
      /\ setup.pieces # {} => Len(g) <= Len(c)
  BY <1>5 DEF InHand
<1>7. c # <<>> /\ c[1] \in DataTypes /\ HdrLen(c) \in {4, 5} /\ Len(c) >= HdrLen(c) /\ Len(c) = HdrLen(c) + PayloadLen(c)
  BY <1>6, PacketWhole
<1>8. \A i \in 1..Len(buf) : i <= Len(c) => buf[i] = c[i]
  BY <1>1, <1>2, <1>6 DEF Begins
<1>9. buf[1] = c[1]
  <2>1. 1 \in 1..Len(buf) /\ 1 <= Len(c)
    BY <1>1, <1>6, <1>7
  <2> QED BY <1>8, <2>1
<1>10. HdrLen(buf) = HdrLen(c)
  BY <1>9 DEF HdrLen
<1> QED BY <1>2, <1>5, <1>6, <1>7, <1>8, <1>9, <1>10 DEF c

LEMMA ReadTypeFraming ==
    ASSUME Inv, Framing, KeepsPlace(setup), ReadType
    PROVE  Framing'
<1>1. /\ pc = "wait" /\ wire # <<>> /\ buf' = <<Head(wire)>> /\ wire' = Tail(wire)
      /\ UNCHANGED <<setup, unsent, framed>>
  BY DEF ReadType, host
<1>2. wire \in Seq(Bytes)
  BY DEF Inv, Types
<1>3. Got \o wire = wire
  BY <1>1, <1>2 DEF Got
<1> DEFINE c == setup.sends[Len(framed) + 1]
<1>4. InHand(setup, c, wire)
  BY <1>1, <1>3, RoundInHand
<1> HIDE DEF c
<1>5. Head(wire) \in DataTypes
  <2>1. /\ c \in Seq(Bytes) /\ IsPacket(c)
        /\ \A i \in 1..Len(wire) : i <= Len(c) => wire[i] = c[i]
    BY <1>4 DEF InHand
  <2>2. c # <<>> /\ c[1] \in DataTypes
    BY <2>1, PacketWhole
  <2>3. 1 \in 1..Len(wire) /\ 1 <= Len(c) /\ Head(wire) = wire[1]
    BY <1>1, <1>2, <2>1, <2>2
  <2> QED BY <2>1, <2>2, <2>3
<1>6. pc' = "header" /\ bytes_read' = 0
  BY <1>5 DEF ReadType
<1>7. Got' \o wire' = Got \o wire
  <2>1. <<Head(wire)>> \o Tail(wire) = wire
    BY <1>1, <1>2
  <2>2. Got' = buf'
    BY <1>6 DEF Got
  <2> QED BY <1>1, <1>3, <2>1, <2>2
<1> QED BY <1>1, <1>6, <1>7, ReadFraming

\* In the header round all that is asked for is there.
LEMMA HeaderThere ==
    ASSUME Inv, Framing, KeepsPlace(setup), pc = "header"
    PROVE  ReadLen = need /\ bytes_read = 0 /\ Len(buf) = 1 /\ need \in Nat /\ HdrLen(buf) = 1 + need
<1>1. /\ buf # <<>> /\ buf[1] \in DataTypes /\ need = hci_preamble_sizes[buf[1]]
      /\ Len(buf) = 1 + bytes_read /\ bytes_read = 0 /\ buf \in Seq(Bytes) /\ wire \in Seq(Bytes)
  BY DEF Inv, Rounds, HeaderRound, Framing, Types
<1>2. HdrLen(buf) = 1 + need /\ need \in {3, 4}
  BY <1>1, HeaderOf
<1>3. Len(buf) + Len(wire) >= HdrLen(buf)
  BY <1>1, BufferInHand
<1>4. ReadLen \in {Len(wire), need} /\ ReadLen <= need /\ ReadLen \in Nat
  BY ReadFacts DEF Inv
<1>5. Len(wire) >= need /\ Len(wire) \in Nat
  BY <1>1, <1>2, <1>3
<1> QED BY <1>1, <1>2, <1>4, <1>5

\* In the payload round the packet ends with the bytes that are asked for.
LEMMA PayloadThere ==
    ASSUME Inv, Framing, KeepsPlace(setup), pc = "payload"
    PROVE  /\ Len(setup.sends[Len(framed) + 1]) = HdrLen(buf) + need
           /\ HdrLen(buf) \in Nat /\ Len(buf) = HdrLen(buf) + bytes_read
           /\ setup.pieces = {} => bytes_read = 0 /\ ReadLen = need
           /\ setup.pieces # {} => Len(buf) + Len(wire) <= HdrLen(buf) + need
<1> DEFINE c == setup.sends[Len(framed) + 1]
<1>1. /\ buf # <<>> /\ buf[1] \in DataTypes /\ need = PayloadLen(buf) /\ need \in Nat
      /\ Len(buf) = HdrLen(buf) + bytes_read /\ bytes_read \in Nat /\ buf \in Seq(Bytes) /\ wire \in Seq(Bytes)
  BY DEF Inv, Rounds, PayloadRound, Types
<1>2. /\ c \in Seq(Bytes) /\ HdrLen(c) \in {4, 5} /\ Len(c) = HdrLen(c) + PayloadLen(c) /\ Len(c) >= HdrLen(c)
      /\ buf[1] = c[1] /\ c[1] \in DataTypes /\ HdrLen(buf) = HdrLen(c)
      /\ \A i \in 1..Len(buf) : i <= Len(c) => buf[i] = c[i]
      /\ setup.pieces = {} => Len(c) <= Len(buf) + Len(wire)
      /\ setup.pieces # {} => Len(buf) + Len(wire) <= Len(c)
  BY <1>1, BufferInHand
<1> HIDE DEF c
<1>3. PayloadLen(c) = PayloadLen(buf)
  <2>1. \A i \in 1..HdrLen(buf) : buf[i] = c[i]
    BY <1>1, <1>2
  <2> QED BY <1>1, <1>2, <2>1, SameHeader
<1>4. Len(c) = HdrLen(buf) + need /\ HdrLen(buf) \in Nat
  BY <1>1, <1>2, <1>3
<1>5. ASSUME setup.pieces = {} PROVE bytes_read = 0 /\ ReadLen = need
  <2>1. bytes_read = 0
    BY <1>5 DEF Framing
  <2>2. ReadLen \in {Len(wire), need} /\ ReadLen <= need /\ ReadLen \in Nat /\ Len(wire) \in Nat
    BY <1>1, ReadFacts DEF Inv
  <2>3. Len(wire) >= need
    BY <1>1, <1>2, <1>4, <1>5, <2>1, <2>2
  <2> QED BY <1>1, <2>1, <2>2, <2>3
<1>6. setup.pieces # {} => Len(buf) + Len(wire) <= HdrLen(buf) + need
  BY <1>2, <1>4
<1> QED BY <1>1, <1>4, <1>5, <1>6 DEF c

LEMMA ReadMoreFraming ==
    ASSUME Inv, Framing, KeepsPlace(setup), ReadMore
    PROVE  Framing'
<1>1. /\ pc \in {"header", "payload"} /\ pc' = pc /\ bytes_read + ReadLen < need
      /\ buf' = Filled /\ wire' = Drop(wire, ReadLen)
      /\ UNCHANGED <<setup, unsent, framed>>
  BY DEF ReadMore, host
<1>2. need \in Nat
  BY DEF Inv, Types
<1>3. pc # "header"
  <2> SUFFICES ASSUME pc = "header" PROVE FALSE
    OBVIOUS
  <2>1. ReadLen = need /\ bytes_read = 0
    BY HeaderThere
  <2> QED BY <1>1, <1>2, <2>1
<1>4. pc = "payload" /\ pc' = "payload"
  BY <1>1, <1>3
<1>5. setup.pieces # {}
  <2> SUFFICES ASSUME setup.pieces = {} PROVE FALSE
    OBVIOUS
  <2>1. ReadLen = need /\ bytes_read = 0
    BY <1>4, PayloadThere
  <2> QED BY <1>1, <1>2, <2>1
<1>6. Got' \o wire' = Got \o wire
  <2>1. Got' = buf' /\ Got = buf
    BY <1>4 DEF Got
  <2>2. Filled \o Drop(wire, ReadLen) = buf \o wire
    BY ReadFacts DEF Inv
  <2> QED BY <1>1, <2>1, <2>2
<1> QED BY <1>1, <1>4, <1>5, <1>6, ReadFraming

LEMMA ReadHeaderFraming ==
    ASSUME Inv, Framing, KeepsPlace(setup), ReadHeader
    PROVE  Framing'
<1>1. /\ pc = "header" /\ wire' = Drop(wire, ReadLen)
      /\ UNCHANGED <<setup, unsent, framed>>
  BY DEF ReadHeader, host
<1>2. /\ buf' = SubSeq(Filled, 1, HdrLen(buf))
      /\ bytes_read' = 0 /\ pc' = (IF need' > 0 THEN "payload" ELSE "route")
  BY ReadHeaderRound
<1>3. ReadLen = need /\ Len(buf) = 1 /\ need \in Nat /\ HdrLen(buf) = 1 + need
  BY <1>1, HeaderThere
<1>4. Filled \in Seq(Bytes) /\ Len(Filled) = Len(buf) + ReadLen /\ Filled \o Drop(wire, ReadLen) = buf \o wire
  BY ReadFacts DEF Inv
<1>5. buf' = Filled
  <2>1. HdrLen(buf) = Len(Filled)
    BY <1>3, <1>4
  <2> QED BY <1>2, <1>4, <2>1
<1>6. pc' \in {"payload", "route"}
  BY <1>2
<1>7. Got' \o wire' = Got \o wire
  <2>1. Got' = buf' /\ Got = buf
    BY <1>1, <1>6 DEF Got
  <2> QED BY <1>1, <1>4, <1>5, <2>1
<1>8. pc' # "header" /\ pc' # "abort"
  BY <1>6
<1> QED BY <1>1, <1>2, <1>7, <1>8, ReadFraming

LEMMA ReadPayloadFraming ==
    ASSUME Inv, Framing, KeepsPlace(setup), ReadPayload
    PROVE  Framing'
<1>1. /\ pc = "payload" /\ pc' = "route" /\ wire' = Drop(wire, ReadLen)
      /\ UNCHANGED <<setup, unsent, framed>>
  BY DEF ReadPayload, host
<1> DEFINE n == HdrLen(buf) + need
<1>2. n \in Nat /\ n <= Len(Filled) /\ buf' = SubSeq(Filled, 1, n)
  BY ReadPayloadRound
<1>3. /\ HdrLen(buf) \in Nat /\ Len(buf) = HdrLen(buf) + bytes_read
      /\ setup.pieces = {} => bytes_read = 0 /\ ReadLen = need
      /\ setup.pieces # {} => Len(buf) + Len(wire) <= n
  BY <1>1, PayloadThere
<1>4. /\ Filled \in Seq(Bytes) /\ Len(Filled) = Len(buf) + ReadLen /\ ReadLen <= Len(wire)
      /\ Filled \o Drop(wire, ReadLen) = buf \o wire
      /\ ReadLen \in Nat /\ Len(wire) \in Nat /\ Len(buf) \in Nat
  <2>1. /\ Filled \in Seq(Bytes) /\ Len(Filled) = Len(buf) + ReadLen /\ ReadLen <= Len(wire)
        /\ Filled \o Drop(wire, ReadLen) = buf \o wire /\ ReadLen \in Nat
    BY ReadFacts, Zenon DEF Inv
  <2>2. Len(wire) \in Nat /\ Len(buf) \in Nat
    BY DEF Inv, Types
  <2> QED BY <2>1, <2>2
<1>5. Len(Filled) = n
  <2>1. CASE setup.pieces = {}
    BY <1>3, <1>4, <2>1
  <2>2. CASE setup.pieces # {}
    <3> HIDE DEF n
    <3> QED BY <1>2, <1>3, <1>4, <2>2
  <2> QED BY <2>1, <2>2
<1>6. buf' = Filled
  <2>1. SubSeq(Filled, 1, Len(Filled)) = Filled
    BY <1>4
  <2> QED BY <1>2, <1>5, <2>1
<1>7. Got' \o wire' = Got \o wire
  <2>1. Got' = buf' /\ Got = buf
    BY <1>1 DEF Got
  <2> QED BY <1>1, <1>4, <1>6, <2>1
<1> QED BY <1>1, <1>7, ReadFraming

LEMMA RouteFraming ==
    ASSUME Inv, Framing, KeepsPlace(setup), Route
    PROVE  Framing'
<1> DEFINE s == setup.sends
           k == Len(framed)
           c == s[k+1]
<1>1. /\ pc = "route" /\ pc' = "send" /\ framed' = Append(framed, buf)
      /\ UNCHANGED <<setup, unsent, wire>>
  BY DEF Route, host
<1>2. /\ Whole(buf) /\ buf \in Seq(Bytes) /\ wire \in Seq(Bytes) /\ k \in Nat /\ buf # <<>>
      /\ framed \in Seq(Seq(Bytes))
  BY <1>1 DEF Inv, Rounds, Types, Whole
<1>3. Packets(s) /\ s \in Seq(Seq(Bytes)) /\ Len(s) \in Nat
  BY SetupFacts DEF KeepsPlace, Packets
<1>4. buf = c
  <2>1. /\ buf[1] \in DataTypes /\ Len(buf) >= HdrLen(buf) /\ Len(buf) = HdrLen(buf) + PayloadLen(buf)
    BY <1>2 DEF Whole
  <2>2. /\ c \in Seq(Bytes) /\ HdrLen(c) \in {4, 5} /\ Len(c) = HdrLen(c) + PayloadLen(c) /\ Len(c) >= HdrLen(c)
        /\ buf[1] = c[1] /\ HdrLen(buf) = HdrLen(c)
        /\ \A i \in 1..Len(buf) : i <= Len(c) => buf[i] = c[i]
    BY <1>1, <1>2, BufferInHand
  <2> HIDE DEF c
  <2>3. PayloadLen(c) = PayloadLen(buf)
    <3>1. \A i \in 1..HdrLen(buf) : buf[i] = c[i]
      BY <1>2, <2>1, <2>2
    <3> QED BY <1>2, <2>1, <2>2, <3>1, SameHeader
  <2>4. Len(buf) = Len(c)
    BY <2>1, <2>2, <2>3
  <2>5. \A i \in 1..Len(buf) : buf[i] = c[i]
    BY <1>2, <2>2, <2>4
  <2> QED BY <1>2, <2>2, <2>4, <2>5, SeqEqual
<1>5. k < Len(s)
  BY <1>1, BufferInHand
<1>6. PICK j \in Nat, X \in Seq(Bytes) :
        /\ k <= j /\ j <= Len(s)
        /\ Joined(s, k) \o ((Got \o wire) \o X) = Joined(s, j)
        /\ unsent = Unwritten(s, X, j)
        /\ setup.pieces = {} => X = <<>>
        /\ setup.pieces # {} => j <= k + 1
  BY Zenon DEF Framing, Placed
<1>7. Got = buf /\ Got' = <<>>
  BY <1>1 DEF Got
<1> DEFINE W == wire \o X
<1>8. W \in Seq(Bytes)
  BY <1>2, ConcatFacts
<1>9. Joined(s, k) \in Seq(Bytes) /\ Joined(s, k + 1) = Joined(s, k) \o c /\ c \in Seq(Bytes)
  <2> HIDE DEF s, k
  <2> QED BY <1>2, <1>3, <1>5, JoinedNext
<1> HIDE DEF W
<1>10. Joined(s, k + 1) \o W = Joined(s, j)
  <2> DEFINE A == Joined(s, k)
  <2>1. (buf \o wire) \o X = buf \o W
    <3>1. \A z \in Seq(Bytes) : (buf \o wire) \o z = buf \o (wire \o z)
      BY <1>2, ConcatFacts
    <3> QED BY <3>1, Zenon DEF W
  <2>2. A \o (buf \o W) = Joined(s, j)
    BY <1>6, <1>7, <2>1, Zenon
  <2>3. (A \o buf) \o W = A \o (buf \o W)
    <3>1. \A z \in Seq(Bytes) : (A \o buf) \o z = A \o (buf \o z)
      <4>1. A \in Seq(Bytes) /\ buf \in Seq(Bytes)
        BY <1>2, <1>9
      <4> HIDE DEF A
      <4> QED BY <4>1, ConcatFacts
    <3> QED BY <1>8, <3>1, Zenon
  <2>4. Joined(s, k + 1) = A \o buf
    BY <1>4, <1>9, Zenon
  <2> QED BY <2>2, <2>3, <2>4, Zenon
<1>11. j >= k + 1
  <2> SUFFICES ASSUME j = k PROVE FALSE
    BY <1>2, <1>6
  <2> DEFINE G == (Got \o wire) \o X
  <2>1. G \in Seq(Bytes) /\ G # <<>>
    <3> DEFINE g == buf \o wire
    <3>1. g \in Seq(Bytes) /\ Len(g) = Len(buf) + Len(wire)
      BY <1>2, ConcatFacts
    <3> HIDE DEF g
    <3>2. g \o X \in Seq(Bytes) /\ Len(g \o X) = Len(g) + Len(X)
      BY <3>1, ConcatFacts
    <3>3. Len(buf) \in Nat \ {0} /\ Len(wire) \in Nat /\ Len(X) \in Nat
      BY <1>2
    <3>4. g \o X \in Seq(Bytes) /\ g \o X # <<>>
      BY <3>1, <3>2, <3>3
    <3> QED BY <1>7, <3>4 DEF g
  <2>2. Joined(s, k) \o G = Joined(s, j) /\ k <= j /\ j <= Len(s)
    BY <1>6, Zenon
  <2> HIDE DEF G, s, k
  <2>3. Follows(s, k, j, G)
    BY <1>2, <1>3, <2>1, <2>2, ComesNext, Zenon
  <2> QED BY <2>1, <2>3 DEF Follows
<1>12. Placed(setup, k + 1, wire, unsent)
  <2>1. Follows(s, k + 1, j, W)
    <3> DEFINE m == k + 1
    <3>1. m \in Nat /\ m <= j /\ j <= Len(s)
      BY <1>2, <1>6, <1>11
    <3>2. Joined(s, m) \o W = Joined(s, j)
      BY <1>10
    <3> HIDE DEF m, s, k
    <3>3. Follows(s, m, j, W)
      BY <1>3, <1>8, <3>1, <3>2, ComesNext, Zenon
    <3> QED BY <3>3 DEF m
  <2>2. setup.pieces # {} => j <= (k + 1) + 1 /\ (W # <<>> => Len(wire) >= HdrLen(s[(k + 1) + 1]))
    <3> SUFFICES ASSUME setup.pieces # {} PROVE j <= (k + 1) + 1 /\ W = <<>>
      OBVIOUS
    <3>1. j = k + 1
      BY <1>2, <1>6, <1>11
    <3>2. W = <<>>
      BY <2>1, <3>1 DEF Follows
    <3> QED BY <1>2, <3>1, <3>2
  <2>3. k + 1 <= j
    BY <1>2, <1>11
  <2> HIDE DEF k, s
  <2>4. Joined(s, k + 1) \o (wire \o X) = Joined(s, j)
    BY <1>10 DEF W
  <2> QED BY <1>6, <2>2, <2>3, <2>4, Zenon DEF Placed, W, s
<1>13. /\ framed' \in Seq(Seq(Bytes)) /\ Len(framed') = k + 1 /\ framed'[k+1] = buf
       /\ \A i \in 1..k : framed'[i] = framed[i]
  <2> DEFINE Q == Seq(Bytes)
  <2>1. framed \in Seq(Q) /\ buf \in Q
    BY <1>2
  <2> HIDE DEF Q
  <2>2. /\ framed' \in Seq(Q) /\ Len(framed') = k + 1 /\ framed'[k+1] = buf
        /\ \A i \in 1..k : framed'[i] = framed[i]
    BY <1>1, <2>1, AppendProperties
  <2> QED BY <2>2 DEF Q
<1>14. Placed(setup, Len(framed), Got \o wire, unsent)'
  <2>1. Got' \o wire' = wire
    <3>1. <<>> \o wire = wire
      BY <1>2
    <3> QED BY <1>1, <1>7, <3>1
  <2>2. Placed(setup', Len(framed'), Got' \o wire', unsent')
    BY <1>1, <1>12, <1>13, <2>1, Zenon
  <2> QED BY <2>2, Zenon DEF Placed, Unwritten, HdrLen
<1>15. \A i \in 1..Len(framed') : framed'[i] = s[i]
  <2> SUFFICES ASSUME NEW i \in 1..(k + 1) PROVE framed'[i] = s[i]
    BY <1>13
  <2>1. CASE i = k + 1
    BY <1>4, <1>13, <2>1
  <2>2. CASE i # k + 1
    <3>1. i \in 1..k
      BY <1>2, <2>2
    <3> QED BY <1>13, <3>1 DEF Framing
  <2> QED BY <2>1, <2>2
<1>16. Len(framed') <= Len(s)
  BY <1>2, <1>3, <1>5, <1>13
<1> QED BY <1>1, <1>14, <1>15, <1>16 DEF Framing


\* What the host writes next: the rest of the packet it is in, or else the next one.
Fronts(s, X, j, u) ==
    /\ X # <<>> => Head(u) = X /\ Tail(u) = SubSeq(s, j + 1, Len(s))
    /\ X = <<>> => /\ j < Len(s) /\ Len(u) = Len(s) - j
                   /\ Head(u) = s[j+1] /\ Tail(u) = SubSeq(s, (j + 1) + 1, Len(s))

LEMMA UnwrittenFront ==
    ASSUME NEW s, s \in Seq(Seq(Bytes)), NEW j \in Nat, j <= Len(s), NEW X \in Seq(Bytes),
           NEW u, u = Unwritten(s, X, j), u # <<>>
    PROVE  Fronts(s, X, j, u)
<1> DEFINE Q == Seq(Bytes)
           r == SubSeq(s, j + 1, Len(s))
<1>1. s \in Seq(Q) /\ Len(s) \in Nat /\ X \in Q
  OBVIOUS
<1> HIDE DEF Q
<1>2. r \in Seq(Q) /\ Len(r) = Len(s) - j /\ \A i \in 1..(Len(s) - j) : r[i] = s[j + i]
  <2>1. Len(s) <= Len(s)
    BY <1>1
  <2> QED BY <1>1, <2>1, PartOf
<1>3. CASE X # <<>>
  <2>1. u = <<X>> \o r
    BY <1>3, Zenon DEF Unwritten
  <2> HIDE DEF r
  <2>2. Head(<<X>> \o r) = X /\ Tail(<<X>> \o r) = r
    BY <1>1, <1>2
  <2> QED BY <1>3, <2>1, <2>2, Zenon DEF Fronts, r
<1>4. CASE X = <<>>
  <2>1. u = r
    BY <1>4, Zenon DEF Unwritten
  <2>2. Len(r) # 0
    <3> HIDE DEF r
    <3> QED BY <1>2, <2>1, EmptySeq
  <2>3. j < Len(s) /\ Head(r) = s[j+1]
    <3> HIDE DEF r
    <3> QED BY <1>1, <1>2, <2>2
  <2>4. Tail(r) = SubSeq(s, (j + 1) + 1, Len(s))
    <3> DEFINE m == j + 1
               t == SubSeq(s, m + 1, Len(s))
    <3>1. m \in Nat /\ m <= Len(s) /\ Len(s) <= Len(s)
      BY <1>1, <2>3
    <3> HIDE DEF m
    <3>2. t \in Seq(Q) /\ Len(t) = Len(s) - m /\ \A i \in 1..(Len(s) - m) : t[i] = s[m + i]
      BY <1>1, <3>1, PartOf
    <3> HIDE DEF t, r
    <3>3. Tail(r) \in Seq(Q) /\ Len(Tail(r)) = Len(r) - 1 /\ \A i \in 1..(Len(r) - 1) : Tail(r)[i] = r[i+1]
      BY <1>2, <2>2
    <3>4. Len(Tail(r)) = Len(t) /\ \A i \in 1..Len(t) : Tail(r)[i] = t[i]
      <4>1. m = j + 1
        BY DEF m
      <4>2. Len(t) = Len(r) - 1
        BY <1>1, <1>2, <3>2, <4>1
      <4>3. \A i \in 1..Len(t) : i + 1 \in 1..(Len(s) - j) /\ j + (i + 1) = m + i
        BY <1>1, <1>2, <3>2, <4>1
      <4> QED BY <1>2, <3>2, <3>3, <4>2, <4>3, ZenonT(40)
    <3>5. Tail(r) = t
      BY <3>2, <3>3, <3>4, SeqEqual
    <3> QED BY <3>5 DEF t, m
  <2>5. X = <<>> => j < Len(s) /\ Len(u) = Len(s) - j /\ Head(u) = s[j+1] /\ Tail(u) = SubSeq(s, (j + 1) + 1, Len(s))
    BY <1>2, <2>1, <2>3, <2>4
  <2> QED BY <1>4, <2>5, Zenon DEF Fronts
<1> QED BY <1>3, <1>4

\* A host that keeps the thread in step, and writes a packet or a piece of one.
LEMMA PlacedWrite ==
    ASSUME NEW st, Packets(st.sends), NEW k \in Nat, NEW g \in Seq(Bytes), NEW u, u # <<>>,
           Placed(st, k, g, u), NEW n \in Nat, n <= Len(Head(u)),
           n < Len(Head(u)) => st.pieces # {} /\ n >= 5,
           st.pieces # {} /\ Head(u) = st.sends[Len(st.sends) - Len(u) + 1] => g = <<>>
    PROVE  Placed(st, k, g \o SubSeq(Head(u), 1, n),
                  IF n = Len(Head(u)) THEN Tail(u) ELSE <<Drop(Head(u), n)>> \o Tail(u))
<1> DEFINE s == st.sends
           b == Head(u)
           P == SubSeq(b, 1, n)
           D == Drop(b, n)
           h == g \o P
           v == IF n = Len(b) THEN Tail(u) ELSE <<D>> \o Tail(u)
<1>1. s \in Seq(Seq(Bytes)) /\ Packets(s) /\ Len(s) \in Nat
  BY DEF Packets
<1>2. PICK j \in Nat, X \in Seq(Bytes) :
        /\ k <= j /\ j <= Len(s)
        /\ Joined(s, k) \o (g \o X) = Joined(s, j)
        /\ u = Unwritten(s, X, j)
        /\ st.pieces = {} => X = <<>>
        /\ st.pieces # {} => j <= k + 1 /\ (g \o X # <<>> => Len(g) >= HdrLen(s[k+1]))
  BY Zenon DEF Placed
<1>3. Fronts(s, X, j, u)
  <2> HIDE DEF s
  <2> QED BY <1>1, <1>2, UnwrittenFront, Zenon
<1>4. X = <<>> => b = s[j+1] /\ j < Len(s)
  BY <1>3, Zenon DEF Fronts
<1>5. b \in Seq(Bytes)
  <2>1. CASE X = <<>>
    <3>1. j + 1 \in 1..Len(s)
      BY <1>1, <1>4, <2>1
    <3> QED BY <1>1, <1>4, <2>1, <3>1, ElementOfSeq
  <2>2. CASE X # <<>>
    BY <1>3, <2>2, Zenon DEF Fronts
  <2> QED BY <2>1, <2>2
<1> HIDE DEF b
<1>6. P \in Seq(Bytes) /\ Len(P) = n /\ D \in Seq(Bytes) /\ Len(D) = Len(b) - n /\ P \o D = b /\ Len(b) \in Nat
  <2>1. n <= Len(b)
    BY DEF b
  <2>2. /\ P \in Seq(Bytes) /\ Len(P) = n /\ D \in Seq(Bytes) /\ Len(D) = Len(b) - n
        /\ P \o D = b
    BY <1>5, <2>1, Cut, Zenon
  <2>3. Len(b) \in Nat
    BY <1>5
  <2> QED BY <2>2, <2>3, Zenon
<1>7. n = Len(b) <=> D = <<>>
  <2> HIDE DEF D
  <2> QED BY <1>6, EmptySeq
<1> HIDE DEF P, D
<1>8. h \in Seq(Bytes) /\ Len(h) = Len(g) + n /\ h \o D = g \o b
  <2>1. h \in Seq(Bytes) /\ Len(h) = Len(g) + Len(P)
    BY <1>6, ConcatFacts
  <2>2. \A z \in Seq(Bytes) : (g \o P) \o z = g \o (P \o z)
    <3>1. P \in Seq(Bytes)
      BY <1>6
    <3> HIDE DEF h
    <3> QED BY <3>1, ConcatAssociative
  <2>3. (g \o P) \o D = g \o (P \o D)
    BY <1>6, <2>2, Zenon
  <2> QED BY <1>6, <2>1, <2>3
<1> HIDE DEF h
<1>9. \A i \in Nat : Tail(u) = SubSeq(s, i + 1, Len(s)) => v = Unwritten(s, D, i)
  <2> SUFFICES ASSUME NEW i \in Nat, Tail(u) = SubSeq(s, i + 1, Len(s)) PROVE v = Unwritten(s, D, i)
    OBVIOUS
  <2>1. CASE n = Len(b)
    BY <1>7, <2>1, Zenon DEF Unwritten
  <2>2. CASE n # Len(b)
    BY <1>7, <2>2, Zenon DEF Unwritten
  <2> QED BY <2>1, <2>2
<1> HIDE DEF v
<1>10. st.pieces = {} => D = <<>>
  BY <1>6, <1>7 DEF b
<1>11. CASE X # <<>>
  <2>1. b = X /\ Tail(u) = SubSeq(s, j + 1, Len(s))
    BY <1>3, <1>11, Zenon DEF Fronts, b
  <2>2. v = Unwritten(s, D, j)
    BY <1>9, <2>1, Zenon
  <2>3. st.pieces # {}
    BY <1>2, <1>11
  <2>4. h \o D = g \o X
    BY <1>8, <2>1
  <2>5. h \o D # <<>> => Len(h) >= HdrLen(s[k+1])
    <3> SUFFICES ASSUME h \o D # <<>> PROVE Len(h) >= HdrLen(s[k+1])
      OBVIOUS
    <3>1. Len(g) >= HdrLen(s[k+1])
      BY <1>2, <2>3, <2>4
    <3>2. j > k
      <4> SUFFICES ASSUME j = k PROVE FALSE
        BY <1>2
      <4> DEFINE G == g \o X
      <4>1. G \in Seq(Bytes) /\ Joined(s, k) \o G = Joined(s, j) /\ G # <<>>
        BY <1>2, <2>4, ConcatFacts
      <4> HIDE DEF G, s
      <4>2. Follows(s, k, j, G)
        BY <1>1, <1>2, <4>1, ComesNext, Zenon
      <4> QED BY <4>1, <4>2 DEF Follows
    <3>3. HdrLen(s[k+1]) \in Nat
      <4>1. k + 1 \in 1..Len(s)
        BY <1>1, <1>2, <3>2
      <4>2. s[k+1] \in Seq(Bytes) /\ IsPacket(s[k+1])
        BY <1>1, <4>1, ElementOfSeq DEF Packets
      <4>3. HdrLen(s[k+1]) \in {4, 5}
        BY <4>2, PacketWhole
      <4> QED BY <4>3
    <3>4. Len(g) \in Nat
      OBVIOUS
    <3> QED BY <1>8, <3>1, <3>3, <3>4
  <2>6. Joined(s, k) \o (h \o D) = Joined(s, j)
    BY <1>2, <2>4, Zenon
  <2>7. D \in Seq(Bytes)
    BY <1>6
  <2>8. Placed(st, k, h, v)
    BY <1>2, <1>10, <2>2, <2>3, <2>5, <2>6, <2>7, Zenon DEF Placed
  <2> QED BY <2>8, Zenon DEF h, v, P, D, b
<1>12. CASE X = <<>>
  <2>1. b = s[j+1] /\ j < Len(s) /\ Len(u) = Len(s) - j /\ Tail(u) = SubSeq(s, (j + 1) + 1, Len(s))
    BY <1>3, <1>12, Zenon DEF Fronts, b
  <2> DEFINE m == j + 1
  <2>2. m \in Nat /\ k <= m /\ m <= Len(s) /\ b = s[m] /\ m \in 1..Len(s)
    <3>1. b = s[m]
      BY <2>1, Zenon
    <3>2. k <= j /\ j < Len(s)
      BY <1>2, <2>1
    <3> HIDE DEF s
    <3> QED BY <1>1, <3>1, <3>2
  <2>3. v = Unwritten(s, D, m)
    BY <1>9, <2>1, <2>2, Zenon
  <2>4. g \o X = g
    BY <1>12
  <2>5. Joined(s, k) \o g = Joined(s, j)
    BY <1>2, <2>4, Zenon
  <2>6. Joined(s, k) \o (h \o D) = Joined(s, m)
    <3>1. Joined(s, m) = Joined(s, j) \o b
      BY <1>1, <2>1, JoinedNext
    <3>2. Joined(s, k) \in Seq(Bytes)
      <4>1. k <= Len(s)
        BY <1>1, <1>2
      <4> HIDE DEF s
      <4> QED BY <1>1, <4>1, JoinedBegins
    <3> DEFINE A == Joined(s, k)
    <3> HIDE DEF A
    <3>3. A \in Seq(Bytes)
      BY <3>2 DEF A
    <3>4. \A z \in Seq(Bytes) : (A \o g) \o z = A \o (g \o z)
      BY <3>3, ConcatFacts
    <3>5. (A \o g) \o b = A \o (g \o b)
      BY <1>5, <3>4, Zenon
    <3> QED BY <1>8, <2>5, <3>1, <3>5, Zenon DEF A
  <2>7. ASSUME st.pieces # {} PROVE m <= k + 1 /\ Len(h) >= HdrLen(s[k+1])
    <3>1. g = <<>>
      <4>1. Len(s) - Len(u) + 1 = m
        BY <1>1, <2>1
      <4> QED BY <2>2, <2>7, <4>1 DEF b
    <3>2. j = k
      <4>1. Joined(s, k) \o g = Joined(s, j) /\ g \in Seq(Bytes)
        BY <2>5
      <4> HIDE DEF s
      <4>2. Follows(s, k, j, g)
        BY <1>1, <1>2, <4>1, ComesNext, Zenon
      <4> QED BY <3>1, <4>2 DEF Follows
    <3>3. b = s[k+1] /\ IsPacket(b)
      BY <1>1, <2>1, <2>2, <3>2 DEF Packets
    <3>4. HdrLen(b) \in {4, 5} /\ Len(b) >= HdrLen(b)
      BY <1>5, <3>3, PacketWhole
    <3>5. n >= HdrLen(b)
      <4>1. n = Len(b) \/ n >= 5
        BY <1>6 DEF b
      <4> QED BY <1>6, <3>4, <4>1
    <3>6. Len(h) = n
      BY <1>8, <3>1
    <3> QED BY <3>2, <3>3, <3>5, <3>6
  <2> HIDE DEF m
  <2>8. D \in Seq(Bytes)
    BY <1>6
  <2>9. Placed(st, k, h, v)
    BY <1>10, <2>2, <2>3, <2>6, <2>7, <2>8, Zenon DEF Placed
  <2> QED BY <2>9, Zenon DEF h, v, P, D, b
<1> QED BY <1>11, <1>12

LEMMA HostWriteFraming ==
    ASSUME Inv, Framing, KeepsPlace(setup), HostWrite
    PROVE  Framing'
<1> DEFINE b == Head(unsent)
           g == Got \o wire
<1>1. PICK n \in Transfers(setup.pieces, Len(b)) :
        /\ b \in Seq(Bytes) /\ unsent # <<>>
        /\ n \in Nat /\ n <= Len(b) /\ (n < Len(b) => n \in setup.pieces)
        /\ wire' = wire \o SubSeq(b, 1, n)
        /\ unsent' = IF n = Len(b) THEN Tail(unsent) ELSE <<Drop(b, n)>> \o Tail(unsent)
  BY HostWriteFacts, SetupFacts, Zenon DEF Inv
<1>2. UNCHANGED <<setup, pc, buf, bytes_read, framed>> /\ (setup.lockstep /\ AtPacket => wire = <<>> /\ pc = "wait")
  BY DEF HostWrite
<1>3. Packets(setup.sends)
  BY SetupFacts DEF KeepsPlace, Packets
<1>4. Got \in Seq(Bytes) /\ wire \in Seq(Bytes) /\ Len(framed) \in Nat
  BY DEF Got, Inv, Types
<1>5. g \in Seq(Bytes)
  BY <1>4, ConcatFacts, Zenon
<1>6. setup.pieces # {} /\ AtPacket => g = <<>>
  <2> SUFFICES ASSUME setup.pieces # {}, AtPacket PROVE g = <<>>
    OBVIOUS
  <2>1. wire = <<>> /\ pc = "wait"
    BY <1>2 DEF KeepsPlace
  <2>2. Got = <<>>
    BY <2>1 DEF Got
  <2>3. <<>> \o <<>> = <<>>
    OBVIOUS
  <2> QED BY <2>1, <2>2, <2>3, Zenon
<1>7. n < Len(b) => setup.pieces # {} /\ n >= 5
  <2> SUFFICES ASSUME n < Len(b) PROVE setup.pieces # {} /\ n >= 5
    OBVIOUS
  <2>1. n \in setup.pieces
    BY <1>1
  <2> QED BY <2>1, Zenon DEF KeepsPlace
<1>8. Placed(setup, Len(framed), g, unsent)
  BY DEF Framing
<1> HIDE DEF g
<1> DEFINE v == IF n = Len(b) THEN Tail(unsent) ELSE <<Drop(b, n)>> \o Tail(unsent)
<1>9. Placed(setup, Len(framed), g \o SubSeq(b, 1, n), v)
  <2> DEFINE k == Len(framed)
  <2>1. k \in Nat
    BY <1>4
  <2>2. Placed(setup, k, g, unsent)
    BY <1>8
  <2>3. setup.pieces # {} /\ b = setup.sends[Len(setup.sends) - Len(unsent) + 1] => g = <<>>
    BY <1>6 DEF AtPacket
  <2> HIDE DEF k
  <2>4. Placed(setup, k, g \o SubSeq(b, 1, n), v)
    BY <1>1, <1>3, <1>5, <1>7, <2>1, <2>2, <2>3, PlacedWrite
  <2> QED BY <2>4 DEF k
<1>10. Got' = Got
  BY <1>2 DEF Got
<1>11. Got' \o wire' = g \o SubSeq(b, 1, n)
  <2> DEFINE P == SubSeq(b, 1, n)
  <2>1. P \in Seq(Bytes)
    <3> HIDE DEF b
    <3> QED BY <1>1, Cut
  <2>2. wire' = wire \o P
    BY <1>1
  <2> HIDE DEF P
  <2>3. \A z \in Seq(Bytes) : (Got \o wire) \o z = Got \o (wire \o z)
    BY <1>4, ConcatAssociative
  <2>4. Got \o wire' = (Got \o wire) \o P
    BY <2>1, <2>2, <2>3, Zenon
  <2> QED BY <1>10, <2>4, Zenon DEF g, P
<1>12. unsent' = v
  BY <1>1
<1>13. Placed(setup', Len(framed'), Got' \o wire', unsent')
  BY <1>2, <1>9, <1>11, <1>12, Zenon
<1>14. Placed(setup, Len(framed), Got \o wire, unsent)'
  BY <1>13, Zenon DEF Placed, Unwritten, HdrLen
<1> QED BY <1>2, <1>14 DEF Framing

\* The writes to the ports, and what befalls a port, leave the bytes from the host alone.
LEMMA PortSideFraming ==
    ASSUME Inv, Framing, Send \/ SendError \/ SendEnd \/ (\E p \in Port : DriverDown(p)) \/ UNCHANGED vars
    PROVE  Framing'
<1>1. UNCHANGED <<setup, unsent, wire, buf, bytes_read, framed>>
  BY DEF Send, SendError, SendEnd, DriverDown, vars, host
<1>2. pc' = pc \/ (pc = "send" /\ pc' = "wait")
  BY DEF Send, SendError, SendEnd, DriverDown, vars
<1>3. Got' = Got
  BY <1>1, <1>2 DEF Got
<1>4. pc' # "abort" /\ (pc' \in {"header", "payload"} => pc' = pc)
  BY <1>2 DEF Framing
<1>5. pc' = "header" => bytes_read' = 0
  BY <1>1, <1>4 DEF Framing
<1>6. pc' = "payload" /\ setup.pieces = {} => bytes_read' = 0
  BY <1>1, <1>4 DEF Framing
<1>7. Got' \o wire' = Got \o wire /\ UNCHANGED <<setup, unsent, framed>>
  BY <1>1, <1>3
<1> QED BY <1>4, <1>5, <1>6, <1>7, ReadFraming

LEMMA InitFraming == Init => Framing
<1> SUFFICES ASSUME Init PROVE Framing
  OBVIOUS
<1> DEFINE s == setup.sends
<1>1. unsent = s /\ wire = <<>> /\ pc = "wait" /\ framed = <<>> /\ setup \in Setups
  BY DEF Init
<1>2. s \in Seq(Seq(Bytes)) /\ Len(s) \in Nat
  BY <1>1, SetupsAssumption DEF Setup, Bytes
<1>3. Got = <<>> /\ Len(framed) = 0
  BY <1>1 DEF Got
<1>4. Got \o wire = <<>> /\ <<>> \o <<>> = <<>>
  BY <1>1, <1>3
<1>5. Joined(s, 0) = <<>>
  <2> HIDE DEF s
  <2> QED BY <1>2, JoinedEnds
<1>6. unsent = Unwritten(s, <<>>, 0)
  <2>1. SubSeq(s, 0 + 1, Len(s)) = s
    <3>1. 0 + 1 = 1 /\ SubSeq(s, 1, Len(s)) = s
      BY <1>2
    <3> QED BY <3>1, Zenon
  <2> QED BY <1>1, <2>1, Zenon DEF Unwritten
<1>7. Placed(setup, 0, <<>>, unsent)
  <2>1. 0 \in Nat /\ <<>> \in Seq(Bytes) /\ 0 <= Len(s) /\ 0 <= 0 /\ 0 <= 0 + 1
    BY <1>2
  <2> QED BY <1>4, <1>5, <1>6, <2>1, Zenon DEF Placed
<1>8. Placed(setup, Len(framed), Got \o wire, unsent)
  BY <1>3, <1>4, <1>7, Zenon
<1> QED BY <1>1, <1>2, <1>3, <1>8 DEF Framing

LEMMA NextFraming == HostsKeepPlace /\ Inv /\ Framing /\ [Next]_vars => Framing'
<1> SUFFICES ASSUME HostsKeepPlace, Inv, Framing, [Next]_vars PROVE Framing'
  OBVIOUS
<1>1. KeepsPlace(setup)
  BY SetupFacts, Zenon DEF HostsKeepPlace
<1> QED BY <1>1, HostWriteFraming, ReadTypeFraming, ReadMoreFraming, ReadHeaderFraming, ReadPayloadFraming,
           RouteFraming, PortSideFraming, Zenon DEF Next, SocketThread

LEMMA FramingMeans == Inv /\ Framing => FramedAsSent /\ TypeAlwaysValid
<1> SUFFICES ASSUME Inv, Framing PROVE FramedAsSent /\ TypeAlwaysValid
  OBVIOUS
<1> DEFINE Q == Seq(Bytes)
           s == setup.sends
<1>1. /\ framed \in Seq(Q) /\ s \in Seq(Q)
      /\ Len(framed) <= Len(s) /\ \A i \in 1..Len(framed) : framed[i] = s[i]
  BY SetupFacts DEF Inv, Types, Framing
<1> HIDE DEF Q, s
<1>2. IsPrefix(framed, s)
  <2>1. SubSeq(s, 1, Len(framed)) = framed
    BY <1>1
  <2> QED BY <1>1, <2>1 DEF IsPrefix
<1> QED BY <1>2 DEF FramedAsSent, TypeAlwaysValid, Framing, s

\* A host that writes whole packets that fit recvSocketBuf, or one packet at a time and never cuts a
\* header, has each of them recognised by scomm_vendor_recv_rawdata, in the order in which it sent
\* them: whatever the lengths, however many packets wait in the socket, and whatever the ports do.
THEOREM RawFramedAsSent == ASSUME HostsKeepPlace PROVE Spec => []FramedAsSent
BY InvAlways, InitFraming, NextFraming, FramingMeans, PTL DEF Spec

\* For such a host the thread never takes a byte of a payload for a type byte: assert(0) in
\* scomm_vendor_recv_rawdata is not reached.
THEOREM RawTypeAlwaysValid == ASSUME HostsKeepPlace PROVE Spec => []TypeAlwaysValid
BY InvAlways, InitFraming, NextFraming, FramingMeans, PTL DEF Spec
=============================================================================
