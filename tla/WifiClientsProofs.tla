-------------------------- MODULE WifiClientsProofs -------------------------
(***************************************************************************)
(* Proofs about WifiClients: for any number of countries, channels, calls and *)
(* commands, what wpa_supplicant believes is so, HANGED comes when it should, *)
(* and the queries of the HAL return what the driver has.                     *)
(***************************************************************************)
EXTENDS WifiClients, TLAPS, SequenceTheorems, WellFoundedInduction

\* A private command keeps the channels of wpa_supplicant up to date: only COUNTRY changes the
\* country, and then the event follows in the same step.
LEMMA PrivateNotifies ==
    ASSUME NEW i \in Iface, NEW c \in Cmd, Private(i, c)
    PROVE  known' = country' \/ UNCHANGED <<known, country>>
  <1>1. PICK ok : /\ country' = IF ok /\ c.name = "COUNTRY" THEN c.code ELSE country
                  /\ known' = IF Notifies(c, ok) THEN country' ELSE known
    BY DEF Private
  <1>2. CASE Notifies(c, ok)
    BY <1>1, <1>2
  <1>3. CASE ~Notifies(c, ok)
    <2>1. ~(ok /\ c.name = "COUNTRY")
      BY <1>3 DEF Notifies
    <2> QED
      BY <1>1, <1>3, <2>1
  <1> QED
    BY <1>2, <1>3

\* STOP and START announce the state of the flags, unless they could not be set.
LEMMA StopStartAnnounces ==
    ASSUME NEW i \in Iface, NEW c \in Cmd, StopStart(i, c),
           (announced = "STARTED") # up => "flags" \in cfailed, up \in BOOLEAN
    PROVE  /\ (announced' = "STARTED") # up' => "flags" \in cfailed'
           /\ up' \in BOOLEAN
  <1>1. PICK ok \in IF Target(i) = "wlan" THEN CmdOk("flags") ELSE {FALSE} :
            /\ up' = IF ok THEN c.name = "START" ELSE up
            /\ cfailed' = IF ok THEN cfailed ELSE cfailed \cup {"flags"}
    BY DEF StopStart
  <1>2. announced' = IF Target(i) = "wlan" THEN IF c.name = "START" THEN "STARTED" ELSE "STOPPED"
                                           ELSE announced
    BY DEF StopStart
  <1>3. CASE ok
    <2>1. Target(i) = "wlan"
      BY <1>1, <1>3
    <2>2. up' = (c.name = "START") /\ up' \in BOOLEAN
      BY <1>1, <1>3
    <2>3. CASE c.name = "START"
      <3>1. announced' = "STARTED" /\ up' = TRUE
        BY <1>2, <2>1, <2>2, <2>3
      <3> QED
        BY <3>1
    <2>4. CASE c.name # "START"
      <3>1. announced' = "STOPPED" /\ up' = FALSE
        BY <1>2, <2>1, <2>2, <2>4
      <3> QED
        BY <3>1
    <2> QED
      BY <2>3, <2>4
  <1>4. CASE ~ok
    <2>1. "flags" \in cfailed' /\ up' = up
      BY <1>1, <1>4
    <2> QED
      BY <2>1
  <1> QED
    BY <1>3, <1>4

-----------------------------------------------------------------------------
Informed == SupplicantInformed /\ up \in BOOLEAN

\* The calls of the framework change the country, of all that SupplicantInformed speaks of.
LEMMA FrameworkStep == Informed /\ Framework => Informed'
  <1> SUFFICES ASSUME Informed, Framework PROVE Informed'
    OBVIOUS
  <1>1. UNCHANGED <<known, announced, up, cfailed>>
    BY DEF Framework, cmdVars
  <1>2. halSet' = (halSet \/ country' # country)
    BY DEF Framework
  <1>3. known' # country' => halSet'
    BY <1>1, <1>2 DEF Informed, SupplicantInformed
  <1> QED
    BY <1>1, <1>3 DEF Informed, SupplicantInformed

\* No command of wpa_supplicant leaves it behind what it changed itself.
LEMMA SupplicantStep == Informed /\ Supplicant => Informed'
  <1> SUFFICES ASSUME Informed, Supplicant PROVE Informed'
    OBVIOUS
  <1>1. halSet' = (halSet /\ country' = country /\ known' = known)
    BY DEF Supplicant
  <1>2. CmdNext
    BY DEF Supplicant
  <1>3. known' = country' \/ UNCHANGED <<known, country>>
        => (known' # country' => halSet')
    BY <1>1 DEF Informed, SupplicantInformed
  <1>4. ASSUME UNCHANGED <<known, country, announced, up, cfailed>> PROVE Informed'
    BY <1>3, <1>4 DEF Informed, SupplicantInformed
  <1>5. CASE ParentChanges
    BY <1>4, <1>5 DEF ParentChanges
  <1>6. ASSUME NEW i \in Iface, NEW c \in Cmd, Private(i, c) PROVE Informed'
    <2>1. UNCHANGED <<announced, up>>
      BY <1>6 DEF Private
    <2>2. cfailed \subseteq cfailed'
      BY <1>6 DEF Private
    <2> QED
      BY <1>3, <1>6, <2>1, <2>2, PrivateNotifies DEF Informed, SupplicantInformed
  <1>7. ASSUME NEW i \in Iface, NEW c \in Cmd, StopStart(i, c) PROVE Informed'
    <2>1. UNCHANGED <<known, country>>
      BY <1>7 DEF StopStart
    <2>2. /\ (announced' = "STARTED") # up' => "flags" \in cfailed'
          /\ up' \in BOOLEAN
      BY <1>7, StopStartAnnounces DEF Informed, SupplicantInformed
    <2> QED
      BY <1>3, <2>1, <2>2 DEF Informed, SupplicantInformed
  <1>8. ASSUME NEW i \in Iface, NEW c \in Cmd, NoEffect(i, c) PROVE Informed'
    BY <1>4, <1>8 DEF NoEffect, cmdVars
  <1> QED
    BY <1>2, <1>5, <1>6, <1>7, <1>8 DEF CmdNext

\* wpa_supplicant has the channels of the driver's country unless the HAL set another one since,
\* and the state it announced is that of the flags unless a call that sets them failed.
THEOREM WifiSupplicantInformed == Spec => []SupplicantInformed
  <1>1. Init => Informed
    BY DEF Init, CmdInit, Informed, SupplicantInformed
  <1>2. Informed /\ [Next]_vars => Informed'
    <2> SUFFICES ASSUME Informed, [Next]_vars PROVE Informed'
      OBVIOUS
    <2>1. CASE Next
      BY <2>1, FrameworkStep, SupplicantStep DEF Next
    <2>2. CASE UNCHANGED vars
      BY <2>2 DEF vars, cmdVars, Informed, SupplicantInformed
    <2> QED
      BY <2>1, <2>2
  <1>3. Informed => SupplicantInformed
    BY DEF Informed
  <1> QED
    BY <1>1, <1>2, <1>3, PTL DEF Spec

-----------------------------------------------------------------------------
(* HANGED *)

Every == DRV_NUMBER_SEQUENTIAL_ERRORS + 1

\* n consecutive failures end with command i.
Run(i, n) == n \in 1..i /\ (\A k \in (i - n + 1)..i : ~log[k]) /\ (n = i \/ log[i - n])

\* The counter is what is left of n failures after the last report.
Counted(n) == \E q \in Nat : n = q * Every + drv_errors

\* The counter follows the failures that end with the latest command, and each failure was
\* reported, or not, as it should.
CountInv ==
    /\ log \in Seq(BOOLEAN)
    /\ drv_errors \in 0..DRV_NUMBER_SEQUENTIAL_ERRORS
    /\ Len(log) = 0 \/ log[Len(log)] => drv_errors = 0
    /\ Len(log) > 0 /\ ~log[Len(log)] => \E n : Run(Len(log), n) /\ Counted(n)
    /\ \A i \in 1..Len(log) : ~log[i] => \E n : Run(i, n) /\ (i \in hanged <=> n % Every = 0)
    /\ \A i \in hanged : i \in 1..Len(log) /\ ~log[i]

LEMMA EveryNat == DRV_NUMBER_SEQUENTIAL_ERRORS \in Nat /\ Every \in Nat \ {0}
BY CmdAssumption DEF Every

\* A run of failures is as long as it is.
LEMMA RunIsFailures ==
    ASSUME NEW i \in Nat, NEW n, Run(i, n)
    PROVE  Failures(i) = n
  <1>1. ASSUME NEW m, Run(i, m) PROVE m = n
    <2>1. n \in 1..i /\ m \in 1..i
      BY <1>1 DEF Run
    <2>2. ~(m < n)
      <3> SUFFICES ASSUME m < n PROVE FALSE
        OBVIOUS
      <3>1. i - m \in (i - n + 1)..i /\ m # i
        BY <2>1
      <3> QED
        BY <1>1, <3>1 DEF Run
    <2>3. ~(n < m)
      <3> SUFFICES ASSUME n < m PROVE FALSE
        OBVIOUS
      <3>1. i - n \in (i - m + 1)..i /\ n # i
        BY <2>1
      <3> QED
        BY <1>1, <3>1 DEF Run
    <2> QED
      BY <2>1, <2>2, <2>3
  <1>2. Failures(i) = CHOOSE m \in 1..i : Run(i, m)
    BY DEF Failures, Run
  <1>3. n \in 1..i
    BY DEF Run
  <1> QED
    BY <1>1, <1>2, <1>3

LEMMA Remainder ==
    ASSUME NEW n, NEW q \in Nat, NEW e \in 0..DRV_NUMBER_SEQUENTIAL_ERRORS, n = q * Every + e
    PROVE  n % Every = e
  <1>1. e \in 0..(Every - 1)
    BY EveryNat DEF Every
  <1> HIDE DEF Every
  <1> QED
    BY <1>1, EveryNat

\* The runs of the commands so far stay what they are.
LEMMA RunsStay ==
    ASSUME log \in Seq(BOOLEAN), NEW ok \in BOOLEAN, log' = Append(log, ok)
    PROVE  /\ log' \in Seq(BOOLEAN) /\ Len(log') = Len(log) + 1 /\ Len(log) \in Nat
           /\ log'[Len(log) + 1] = ok
           /\ \A k \in 1..Len(log) : log'[k] = log[k]
           /\ \A i \in 1..Len(log) : \A n : Run(i, n) => Run(i, n)'
  <1>1. /\ log' \in Seq(BOOLEAN) /\ Len(log') = Len(log) + 1 /\ Len(log) \in Nat
        /\ log'[Len(log) + 1] = ok
        /\ \A k \in 1..Len(log) : log'[k] = log[k]
    BY AppendProperties
  <1>2. ASSUME NEW i \in 1..Len(log), NEW n, Run(i, n) PROVE Run(i, n)'
    <2>1. n \in 1..i
      BY <1>2 DEF Run
    <2>2. \A k \in (i - n + 1)..i : k \in 1..Len(log)
      BY <1>1, <2>1
    <2>3. n # i => i - n \in 1..Len(log)
      BY <1>1, <2>1
    <2> QED
      BY <1>1, <1>2, <2>1, <2>2, <2>3 DEF Run
  <1> QED
    BY <1>1, <1>2

\* wpa_driver_send_hang_msg: the failures in a row are one more, and the counter goes on from
\* where the latest report left it.
LEMMA CountRight ==
    ASSUME CountInv, NEW ok \in BOOLEAN, Count(ok)
    PROVE  CountInv'
  <1> DEFINE E == DRV_NUMBER_SEQUENTIAL_ERRORS
  <1>0. PICK L \in Nat : L = Len(log)
    BY DEF CountInv
  <1>1. /\ drv_errors' = IF ok \/ drv_errors + 1 > E THEN 0 ELSE drv_errors + 1
        /\ hanged' = IF ~ok /\ drv_errors + 1 > E THEN hanged \cup {L + 1} ELSE hanged
        /\ log' = Append(log, ok)
    BY <1>0 DEF Count, Hangs
  <1>2. /\ log' \in Seq(BOOLEAN) /\ Len(log') = L + 1 /\ L \in Nat /\ log'[L + 1] = ok
        /\ \A k \in 1..L : log'[k] = log[k]
        /\ \A i \in 1..L : \A n : Run(i, n) => Run(i, n)'
    BY <1>0, <1>1, RunsStay DEF CountInv
  <1>3. drv_errors \in 0..E /\ E \in Nat
    BY EveryNat DEF CountInv
  <1>4. drv_errors' \in 0..E
    BY <1>1, <1>3
  <1>5. ~ok => \E n : Run(L + 1, n)' /\ Counted(n)' /\ (L + 1 \in hanged' <=> n % Every = 0)
    <2> SUFFICES ASSUME ~ok PROVE \E n : Run(L + 1, n)' /\ Counted(n)' /\ (L + 1 \in hanged' <=> n % Every = 0)
      OBVIOUS
    <2>1. PICK m \in Nat : /\ \E q \in Nat : m = q * Every + drv_errors
                           /\ m \in 0..L
                           /\ \A k \in (L - m + 1)..L : ~log[k]
                           /\ m = L \/ log[L - m]
      <3>1. CASE L = 0 \/ log[L]
        <4>1. drv_errors = 0
          BY <1>0, <3>1 DEF CountInv
        <4>2. 0 = 0 * Every + drv_errors
          BY <4>1, EveryNat
        <4>3. 0 \in 0..L /\ L - 0 = L /\ (L - 0 + 1)..L = {}
          BY <1>2
        <4> QED
          BY <3>1, <4>2, <4>3
      <3>2. CASE L > 0 /\ ~log[L]
        <4>1. PICK n : Run(L, n) /\ Counted(n)
          BY <1>0, <3>2 DEF CountInv
        <4>2. n \in Nat /\ n \in 0..L
          BY <1>2, <4>1 DEF Run
        <4> QED
          BY <4>1, <4>2 DEF Run, Counted
      <3> QED
        BY <1>2, <3>1, <3>2
    <2>2. PICK q \in Nat : m = q * Every + drv_errors
      BY <2>1
    <2>3. Run(L + 1, m + 1)'
      <3>1. m + 1 \in 1..(L + 1)
        BY <1>2, <2>1
      <3>2. ASSUME NEW k \in ((L + 1) - (m + 1) + 1)..(L + 1) PROVE ~log'[k]
        <4>1. CASE k = L + 1
          BY <1>2, <4>1
        <4>2. CASE k # L + 1
          <5>1. k \in (L - m + 1)..L /\ k \in 1..L
            BY <1>2, <2>1, <4>2
          <5> QED
            BY <1>2, <2>1, <5>1
        <4> QED
          BY <4>1, <4>2
      <3>3. m + 1 = L + 1 \/ log'[(L + 1) - (m + 1)]
        <4>1. CASE m = L
          BY <4>1
        <4>2. CASE m # L
          <5>1. (L + 1) - (m + 1) = L - m /\ L - m \in 1..L
            BY <1>2, <2>1, <4>2
          <5> QED
            BY <1>2, <2>1, <4>2, <5>1
        <4> QED
          BY <4>1, <4>2
      <3> QED
        BY <3>1, <3>2, <3>3 DEF Run
    <2>4. L + 1 \notin hanged
      BY <1>0, <1>2 DEF CountInv
    <2>5. CASE drv_errors + 1 > E
      <3>1. drv_errors' = 0 /\ L + 1 \in hanged'
        BY <1>1, <2>5
      <3>2. m + 1 = q * Every + Every
        BY <1>3, <2>2, <2>5, EveryNat DEF Every
      <3>3. (q + 1) * Every = q * Every + Every
        BY EveryNat
      <3>4. q + 1 \in Nat /\ 0 \in 0..E /\ m + 1 = (q + 1) * Every + 0
        BY <1>3, <2>1, <3>2, <3>3
      <3>5. (m + 1) % Every = 0
        BY <3>4, Remainder
      <3>6. Counted(m + 1)'
        BY <3>1, <3>4 DEF Counted
      <3> QED
        BY <2>3, <3>1, <3>5, <3>6
    <2>6. CASE ~(drv_errors + 1 > E)
      <3>1. drv_errors' = drv_errors + 1 /\ L + 1 \notin hanged'
        BY <1>1, <2>4, <2>6
      <3>2. drv_errors + 1 \in 0..E /\ drv_errors + 1 # 0
        BY <1>3, <2>6
      <3>3. m + 1 = q * Every + (drv_errors + 1)
        BY <1>3, <2>2, EveryNat
      <3>4. (m + 1) % Every = drv_errors + 1
        BY <3>2, <3>3, Remainder
      <3>5. Counted(m + 1)'
        BY <3>1, <3>3 DEF Counted
      <3> QED
        BY <2>3, <3>1, <3>2, <3>4, <3>5
    <2> QED
      BY <2>5, <2>6
  <1>6. Len(log') = 0 \/ log'[Len(log')] => drv_errors' = 0
    BY <1>1, <1>2
  <1>7. Len(log') > 0 /\ ~log'[Len(log')] => (\E n : Run(Len(log), n) /\ Counted(n))'
    <2>1. CASE ok
      BY <1>2, <2>1
    <2>2. CASE ~ok
      <3>1. PICK n : Run(L + 1, n)' /\ Counted(n)'
        BY <1>5, <2>2
      <3>2. Run(Len(log), n)'
        BY <1>2, <3>1 DEF Run
      <3> QED
        BY <3>1, <3>2
    <2> QED
      BY <2>1, <2>2
  <1>8. ASSUME NEW i \in 1..Len(log'), ~log'[i]
        PROVE  \E n : Run(i, n)' /\ (i \in hanged' <=> n % Every = 0)
    <2>1. CASE i = L + 1
      BY <1>2, <1>5, <1>8, <2>1
    <2>2. CASE i # L + 1
      <3>1. i \in 1..L
        BY <1>2, <2>2
      <3>2. PICK n : Run(i, n) /\ (i \in hanged <=> n % Every = 0)
        BY <1>0, <1>2, <1>8, <3>1 DEF CountInv
      <3>3. i \in hanged' <=> i \in hanged
        BY <1>1, <2>2
      <3> QED
        BY <1>2, <3>1, <3>2, <3>3
    <2> QED
      BY <2>1, <2>2
  <1>9. \A i \in hanged' : i \in 1..Len(log') /\ ~log'[i]
    BY <1>0, <1>1, <1>2 DEF CountInv
  <1> QED
    BY <1>2, <1>4, <1>6, <1>7, <1>8, <1>9 DEF CountInv

\* Only private commands that were not refused are counted.
LEMMA CommandCounts ==
    ASSUME CountInv, NEW i \in Iface, NEW c \in Cmd, Private(i, c)
    PROVE  CountInv'
  <1>1. PICK ok \in IF Target(i) = "wlan" THEN CmdOk("ioctl") ELSE {FALSE} : Count(ok)
    BY DEF Private
  <1>2. ok \in BOOLEAN
    BY DEF CmdOk
  <1> QED
    BY <1>1, <1>2, CountRight

LEMMA CountStays ==
    ASSUME CountInv, UNCHANGED <<log, drv_errors, hanged>>
    PROVE  CountInv'
  BY DEF CountInv, Run, Counted

\* HANGED comes at every (DRV_NUMBER_SEQUENTIAL_ERRORS + 1)-th failure in a row and never else,
\* whatever succeeds, is refused or is not counted between the failures.
THEOREM WifiHangedRight == Spec => []HangedRight
  <1>1. Init => CountInv
    BY EveryNat DEF Init, CmdInit, CountInv
  <1>2. CountInv /\ [Next]_vars => CountInv'
    <2> SUFFICES ASSUME CountInv, [Next]_vars PROVE CountInv'
      OBVIOUS
    <2>1. CASE Framework \/ UNCHANGED vars
      BY <2>1, CountStays DEF Framework, vars, cmdVars
    <2>2. CASE Supplicant
      <3>1. CASE ParentChanges
        BY <3>1, CountStays DEF ParentChanges
      <3>2. ASSUME NEW i \in Iface, NEW c \in Cmd, Private(i, c) \/ StopStart(i, c) \/ NoEffect(i, c)
            PROVE  CountInv'
        BY <3>2, CommandCounts, CountStays DEF StopStart, NoEffect, cmdVars
      <3> QED
        BY <2>2, <3>1, <3>2 DEF Supplicant, CmdNext
    <2> QED
      BY <2>1, <2>2 DEF Next
  <1>3. CountInv => HangedRight
    <2> SUFFICES ASSUME CountInv, NEW i
                 PROVE  i \in hanged <=> i \in DOMAIN log /\ ~log[i] /\ Failures(i) % Every = 0
      BY DEF HangedRight, Every
    <2>1. DOMAIN log = 1..Len(log) /\ Len(log) \in Nat
      BY DEF CountInv
    <2>2. CASE i \in 1..Len(log) /\ ~log[i]
      <3>1. PICK n : Run(i, n) /\ (i \in hanged <=> n % Every = 0)
        BY <2>2 DEF CountInv
      <3>2. Failures(i) = n
        BY <2>1, <2>2, <3>1, RunIsFailures
      <3> QED
        BY <2>1, <2>2, <3>1, <3>2
    <2>3. CASE ~(i \in 1..Len(log) /\ ~log[i])
      BY <2>1, <2>3 DEF CountInv
    <2> QED
      BY <2>2, <2>3
  <1> QED
    BY <1>1, <1>2, <1>3, PTL DEF Spec

-----------------------------------------------------------------------------
(* What Filter computes.  It is defined by recursion on the length; the induction below takes *)
(* the least index for which the claim fails.                                                 *)

LEMMA LeastNumber ==
    ASSUME NEW T \in SUBSET Nat, T # {}
    PROVE  \E n \in T : \A m \in T : ~(m < n)
  <1>1. PICK n \in T : \A m \in T : <<m, n>> \notin OpToRel(<, Nat)
    BY NatLessThanWellFounded, WFMin, Zenon
  <1>2. \A m \in T : ~(m < n)
    BY <1>1, Zenon DEF OpToRel
  <1> QED
    BY <1>2

\* f has what is kept of the first n members of s.
Keeps(f, s, S, n) ==
    f = [i \in 0..n |-> IF i = 0 THEN <<>>
                        ELSE IF s[i] \in S THEN Append(f[i-1], s[i]) ELSE f[i-1]]

LEMMA KeepsAt ==
    ASSUME NEW s, NEW S, NEW n, NEW f, Keeps(f, s, S, n), NEW i \in 0..n
    PROVE  f[i] = IF i = 0 THEN <<>> ELSE IF s[i] \in S THEN Append(f[i-1], s[i]) ELSE f[i-1]
  <1> DEFINE e(j) == IF j = 0 THEN <<>> ELSE IF s[j] \in S THEN Append(f[j-1], s[j]) ELSE f[j-1]
  <1>1. f = [j \in 0..n |-> e(j)]
    BY DEF Keeps
  <1> HIDE DEF e
  <1>2. f[i] = e(i)
    BY <1>1
  <1> QED
    BY <1>2 DEF e

LEMMA KeepsExist ==
    ASSUME NEW s, NEW S, NEW n \in Nat
    PROVE  \E f : Keeps(f, s, S, n)
  <1> DEFINE T == {m \in Nat : ~ \E f : Keeps(f, s, S, m)}
  <1> SUFFICES ASSUME T # {} PROVE FALSE
    OBVIOUS
  <1>1. PICK m \in T : \A k \in T : ~(k < m)
    BY LeastNumber
  <1>2. m # 0
    <2>1. Keeps([i \in 0..0 |-> <<>>], s, S, 0)
      BY DEF Keeps
    <2> QED
      BY <1>1, <2>1
  <1>3. m \in Nat /\ m - 1 \in Nat /\ m - 1 < m
    BY <1>1, <1>2
  <1>4. PICK f : Keeps(f, s, S, m - 1)
    BY <1>1, <1>3
  <1> DEFINE e(i) == IF i = 0 THEN <<>> ELSE IF s[i] \in S THEN Append(f[i-1], s[i]) ELSE f[i-1]
             g == [i \in 0..m |-> e(i)]
  <1>5. \A i \in 0..m : g[i] = e(i)
    <2> HIDE DEF e
    <2> QED
      OBVIOUS
  <1>6. \A i \in 0..(m-1) : g[i] = f[i]
    <2> SUFFICES ASSUME NEW i \in 0..(m-1) PROVE g[i] = f[i]
      OBVIOUS
    <2>1. f[i] = e(i)
      BY <1>3, <1>4, KeepsAt
    <2>2. i \in 0..m
      BY <1>3
    <2> HIDE DEF e, g
    <2> QED
      BY <1>5, <2>1, <2>2
  <1>7. Keeps(g, s, S, m)
    <2>1. g = [i \in 0..m |-> g[i]]
      OBVIOUS
    <2> HIDE DEF g
    <2>2. \A i \in 0..m : i # 0 => g[i-1] = f[i-1]
      <3>1. \A i \in 0..m : i # 0 => i - 1 \in 0..(m-1)
        BY <1>3
      <3> QED
        BY <1>6, <3>1
    <2>3. \A i \in 0..m :
            g[i] = IF i = 0 THEN <<>> ELSE IF s[i] \in S THEN Append(g[i-1], s[i]) ELSE g[i-1]
      BY <1>5, <2>2
    <2> QED
      BY <2>1, <2>3 DEF Keeps
  <1> QED
    BY <1>1, <1>7

\* The members of a sequence that are in a set.
LEMMA ElementsAppend ==
    ASSUME NEW R, NEW s \in Seq(R), NEW e \in R
    PROVE  Append(s, e) \in Seq(R) /\ Elements(Append(s, e)) = Elements(s) \cup {e}
  <1> DEFINE r == Append(s, e)
  <1>1. /\ r \in Seq(R) /\ Len(r) = Len(s) + 1 /\ Len(s) \in Nat /\ r[Len(s) + 1] = e
        /\ \A i \in 1..Len(s) : r[i] = s[i]
    BY AppendProperties
  <1> HIDE DEF r
  <1>2. DOMAIN r = 1..(Len(s) + 1) /\ DOMAIN s = 1..Len(s)
    BY <1>1
  <1>3. Elements(r) \subseteq Elements(s) \cup {e}
    <2> SUFFICES ASSUME NEW i \in 1..(Len(s) + 1) PROVE r[i] \in Elements(s) \cup {e}
      BY <1>2 DEF Elements
    <2>1. i = Len(s) + 1 \/ i \in 1..Len(s)
      BY <1>1
    <2> QED
      BY <1>1, <1>2, <2>1 DEF Elements
  <1>4. Elements(s) \cup {e} \subseteq Elements(r)
    <2>1. Len(s) + 1 \in DOMAIN r /\ \A i \in DOMAIN s : i \in DOMAIN r /\ r[i] = s[i]
      BY <1>1, <1>2
    <2> QED
      BY <1>1, <2>1 DEF Elements
  <1> QED
    BY <1>1, <1>3, <1>4 DEF r

\* Filter keeps the members of S, and nothing else.
LEMMA FilterElements ==
    ASSUME NEW R, NEW s \in Seq(R), NEW S
    PROVE  /\ Filter(s, S) \in Seq(R)
           /\ Elements(Filter(s, S)) = {e \in Elements(s) : e \in S}
  <1> DEFINE n == Len(s)
             F == CHOOSE f : Keeps(f, s, S, n)
  <1>1. n \in Nat /\ DOMAIN s = 1..n /\ \A i \in 1..n : s[i] \in R
    OBVIOUS
  <1>2. Keeps(F, s, S, n)
    <2>1. \E f : Keeps(f, s, S, n)
      BY <1>1, KeepsExist
    <2> HIDE DEF n
    <2> QED
      BY <2>1, Zenon
  <1>3. Filter(s, S) = F[n]
    BY Zenon DEF Filter, Keeps
  <1> HIDE DEF n, F
  <1> DEFINE Kept(i) == F[i] \in Seq(R) /\ Elements(F[i]) = {s[k] : k \in {j \in 1..i : s[j] \in S}}
             T == {i \in 0..n : ~Kept(i)}
  <1>4. T = {}
    <2> SUFFICES ASSUME T # {} PROVE FALSE
      OBVIOUS
    <2>1. T \in SUBSET Nat
      BY <1>1
    <2>2. PICK i \in T : \A m \in T : ~(m < i)
      <3> HIDE DEF T
      <3> QED
        BY <2>1, LeastNumber
    <2>3. i \in 0..n /\ ~Kept(i)
      BY <2>2
    <2>4. F[i] = IF i = 0 THEN <<>> ELSE IF s[i] \in S THEN Append(F[i-1], s[i]) ELSE F[i-1]
      BY <1>2, <2>3, KeepsAt
    <2>5. i # 0
      <3> SUFFICES ASSUME i = 0 PROVE FALSE
        OBVIOUS
      <3>1. F[i] = <<>> /\ {j \in 1..i : s[j] \in S} = {}
        BY <2>4
      <3>2. F[i] \in Seq(R) /\ Elements(F[i]) = {}
        BY <3>1 DEF Elements
      <3> QED
        BY <2>3, <3>1, <3>2
    <2>6. i - 1 \in 0..n /\ i \in 1..n /\ i - 1 < i /\ s[i] \in R
      BY <1>1, <2>3, <2>5
    <2>7. Kept(i - 1)
      <3>1. i - 1 \notin T
        BY <2>2, <2>6
      <3> QED
        BY <2>6, <3>1
    <2> DEFINE D(m) == {j \in 1..m : s[j] \in S}
    <2>8. CASE s[i] \in S
      <3>1. F[i] = Append(F[i-1], s[i])
        BY <2>4, <2>5, <2>8
      <3>2. F[i] \in Seq(R) /\ Elements(F[i]) = Elements(F[i-1]) \cup {s[i]}
        BY <2>6, <2>7, <3>1, ElementsAppend
      <3>3. D(i) = D(i - 1) \cup {i}
        BY <2>6, <2>8
      <3>4. {s[k] : k \in D(i)} = {s[k] : k \in D(i - 1)} \cup {s[i]}
        <4> HIDE DEF D
        <4> QED
          BY <3>3
      <3> QED
        BY <2>3, <2>7, <3>2, <3>4
    <2>9. CASE s[i] \notin S
      <3>1. F[i] = F[i-1]
        BY <2>4, <2>5, <2>9
      <3>2. D(i) = D(i - 1)
        BY <2>6, <2>9
      <3> QED
        BY <2>3, <2>7, <3>1, <3>2
    <2> QED
      BY <2>8, <2>9
  <1>5. Kept(n)
    <2>1. n \in 0..n
      BY <1>1
    <2> QED
      BY <1>4, <2>1
  <1>6. {s[k] : k \in {j \in 1..n : s[j] \in S}} = {e \in Elements(s) : e \in S}
    BY <1>1 DEF Elements
  <1> QED
    BY <1>3, <1>5, <1>6

-----------------------------------------------------------------------------
(* The queries of the HAL *)

\* What the driver has in country at for a request.
Offered ==
    {c \in Elements(Channels[at]) :
        /\ c.band \in ToSkwBandMask(query.bands)
        /\ c.modes \cap ToSkwIfaceMask(query.modes) # {}
        /\ ~(request.filter /\ c.restricted)}

\* What the parser makes of an answer is what the driver has.
Right(a) ==
    /\ query.kind = "usable" => a.list \in Seq(Channel) /\ Elements(a.list) = Offered
    /\ query.kind = "valid" =>
        /\ a.num = Len(a.list)
        /\ Elements(a.list) = {c \in Elements(Channels[at]) : c.band \in query.bands}
    /\ query.kind = "rings" =>
        /\ a.num = Len(a.list)
        /\ Elements(a.list) = {r \in Elements(Rings) : r.fits}
    /\ query.kind \in {"version", "features", "filter"} => a.num = Info[query.kind]
    /\ query.kind = "filter" => a.list = <<Info.filterLen>>
    /\ query.kind = "country" => at = query.code

Called == qpc # "idle" \/ queries > 0

\* A call has a request made for it, and at its end the answer or nothing.
QueryInv ==
    /\ qpc \in {"idle", "asked", "reply", "end"} /\ queries \in Nat
    /\ country \in Countries /\ at \in Countries
    /\ Called =>
        /\ query \in Queries
        /\ query.kind = "usable" =>
            /\ request.bands = ToSkwBandMask(query.bands)
            /\ request.modes = ToSkwIfaceMask(query.modes)
    /\ qpc \in {"asked", "reply"} => answer = NoAnswer /\ qfailed = {}
    /\ qpc = "reply" => Right(Parse(reply))
    /\ qpc = "end" \/ (qpc = "idle" /\ queries > 0) =>
        IF qfailed = {} THEN Right(answer) ELSE answer = NoAnswer
    /\ qpc = "idle" /\ queries > 0 =>
        result.answer = Returned /\ (result.err => qfailed # {})

LEMMA ChannelsSeq == \A c \in Countries : Channels[c] \in Seq(Channel)
  BY DriverAssumption

LEMMA AskedRight ==
    ASSUME QueryInv, NEW q \in Queries, Asked(q),
           q.kind = "usable" =>
               request'.bands = ToSkwBandMask(q.bands) /\ request'.modes = ToSkwIfaceMask(q.modes)
    PROVE  QueryInv'
  <1>1. /\ queries' = queries + 1 /\ query' = q /\ answer' = NoAnswer
        /\ UNCHANGED <<country, at>>
    BY DEF Asked
  <1>2. (qpc' = "asked" /\ qfailed' = {}) \/ (qpc' = "end" /\ qfailed' # {})
    BY DEF Asked
  <1>3. queries' \in Nat
    BY <1>1 DEF QueryInv
  <1> QED
    BY <1>1, <1>2, <1>3 DEF QueryInv, ToSkwBandMask, ToSkwIfaceMask

\* The parser returns what the driver answers.
LEMMA ReplyRight ==
    ASSUME QueryInv, Called, NEW q, q = query, q \in Query, at' = country', query' = query, request' = request,
           country' = IF q.kind = "country" THEN q.code ELSE country, reply' = Reply
    PROVE  Right(Parse(reply))'
  <1>1. /\ q.kind \in {"usable", "valid", "rings", "version", "features", "filter", "country"}
        /\ q.kind # "country" => at' = country
        /\ q.kind = "country" => at' = q.code
    BY DEF Query
  <1>2. CASE q.kind = "usable"
    <2> DEFINE S == {c \in Channel : c.band \in request.bands /\ c.modes \cap request.modes # {}
                                     /\ ~(request.filter /\ c.restricted)}
               l == Filter(Channels[country], S)
    <2>1. reply' = [data |-> l]
      BY <1>2 DEF Reply, Usable
    <2>2. l \in Seq(Channel) /\ Elements(l) = {e \in Elements(Channels[country]) : e \in S}
      BY ChannelsSeq, FilterElements DEF QueryInv
    <2>3. \A e \in Elements(Channels[country]) : e \in Channel
      BY ChannelsSeq DEF QueryInv, Elements
    <2> HIDE DEF l
    <2>4. Parse(reply)' = [num |-> 0, list |-> l]
      BY <1>2, <2>1 DEF Parse, ParseUsable
    <2>5. Elements(l) = Offered'
      BY <1>1, <1>2, <2>2, <2>3 DEF Offered, QueryInv, ToSkwBandMask, ToSkwIfaceMask
    <2> QED
      BY <1>2, <2>2, <2>4, <2>5 DEF Right
  <1>3. CASE q.kind = "valid"
    <2> DEFINE S == {c \in Channel : c.band \in q.bands}
               l == Filter(Channels[country], S)
    <2>1. reply' = [nr_channels |-> Len(l), channels |-> l]
      BY <1>3 DEF Reply, Valid
    <2>2. Elements(l) = {e \in Elements(Channels[country]) : e \in S}
      BY ChannelsSeq, FilterElements DEF QueryInv
    <2>3. \A e \in Elements(Channels[country]) : e \in Channel
      BY ChannelsSeq DEF QueryInv, Elements
    <2> HIDE DEF l
    <2>4. Parse(reply)' = [num |-> Len(l), list |-> l]
      BY <1>3, <2>1 DEF Parse, ParseChannels
    <2>5. Elements(l) = {c \in Elements(Channels[at']) : c.band \in q.bands}
      BY <1>1, <1>3, <2>2, <2>3
    <2> QED
      BY <1>3, <2>4, <2>5 DEF Right
  <1>4. CASE q.kind = "rings"
    <2> DEFINE l == Filter(Rings, Fitting)
    <2>1. reply'.rings = Rings
      BY <1>4 DEF Reply
    <2>2. Elements(l) = {e \in Elements(Rings) : e \in Fitting}
      BY DriverAssumption, FilterElements
    <2>3. \A e \in Elements(Rings) : e \in Ring
      BY DriverAssumption DEF Elements
    <2>4. Parse(reply)' = [num |-> Len(l), list |-> l]
      BY <1>4, <2>1 DEF Parse, ParseRings
    <2> HIDE DEF l
    <2>5. Elements(l) = {r \in Elements(Rings) : r.fits}
      BY <2>2, <2>3 DEF Fitting
    <2> QED
      BY <1>4, <2>4, <2>5 DEF Right
  <1>5. CASE q.kind \in {"version", "features"}
    <2>1. reply' = [data |-> Info[q.kind]]
      BY <1>5 DEF Reply
    <2>2. Parse(reply)' = [num |-> Info[q.kind], list |-> <<>>]
      BY <1>5, <2>1 DEF Parse, ParseVersion, ParseFeatures
    <2> QED
      BY <1>5, <2>2 DEF Right
  <1>6. CASE q.kind = "filter"
    <2>1. reply' = [version |-> Info.filter, max_len |-> Info.filterLen]
      BY <1>6 DEF Reply
    <2>2. Parse(reply)' = [num |-> Info.filter, list |-> <<Info.filterLen>>]
      BY <1>6, <2>1 DEF Parse, ParseFilter
    <2> QED
      BY <1>6, <2>2 DEF Right
  <1>7. CASE q.kind = "country"
    BY <1>1, <1>7 DEF Right
  <1> QED
    BY <1>1, <1>2, <1>3, <1>4, <1>5, <1>6, <1>7

LEMMA HandleRight ==
    ASSUME QueryInv, Handle
    PROVE  QueryInv'
  <1>1. PICK ok \in QueryOk("error") :
          /\ qpc' = IF ok THEN "reply" ELSE "end"
          /\ reply' = IF ok THEN Reply ELSE NoMessage
          /\ country' = IF ok /\ query.kind = "country" THEN query.code ELSE country
          /\ qfailed' = IF ok THEN qfailed ELSE qfailed \cup {"error"}
    BY DEF Handle
  <1>2. qpc = "asked" /\ at' = country' /\ UNCHANGED <<query, request, answer, result, queries>>
    BY DEF Handle
  <1>3. query \in Queries /\ query \in Query /\ Called
    BY <1>2, QueriesAssumption DEF QueryInv, Called
  <1>4. country' \in Countries
    BY <1>1, <1>3 DEF QueryInv, Query
  <1>5. answer = NoAnswer /\ qfailed = {}
    BY <1>2 DEF QueryInv
  <1>6. ok => Right(Parse(reply))'
    BY <1>1, <1>2, <1>3, ReplyRight
  <1>7. /\ ok => qpc' = "reply" /\ qfailed' = {}
        /\ ~ok => qpc' = "end" /\ qfailed' # {}
    BY <1>1, <1>5
  <1> QED
    BY <1>2, <1>3, <1>4, <1>5, <1>6, <1>7 DEF QueryInv, Called, ToSkwBandMask, ToSkwIfaceMask

LEMMA ReceiveRight ==
    ASSUME QueryInv, Receive
    PROVE  QueryInv'
  <1>1. PICK ok \in QueryOk("lost") :
          /\ answer' = IF ok THEN Parse(reply) ELSE answer
          /\ qfailed' = IF ok THEN qfailed ELSE qfailed \cup {"lost"}
    BY DEF Receive
  <1>2. qpc = "reply" /\ qpc' = "end" /\ UNCHANGED <<country, query, request, result, at, queries>>
    BY DEF Receive
  <1>3. answer = NoAnswer /\ qfailed = {} /\ Right(Parse(reply))
    BY <1>2 DEF QueryInv
  <1> DEFINE p == Parse(reply)
  <1>4. IF qfailed' = {} THEN answer' = p ELSE answer' = NoAnswer
    BY <1>1, <1>3
  <1> HIDE DEF p
  <1>5. Right(p)
    BY <1>3 DEF p
  <1>6. answer' = p => Right(answer)'
    BY <1>2, <1>5 DEF Right, Offered
  <1> QED
    BY <1>2, <1>4, <1>6 DEF QueryInv, Called

LEMMA ReturnRight ==
    ASSUME QueryInv, Return
    PROVE  QueryInv'
  <1>1. /\ qpc = "end" /\ qpc' = "idle"
        /\ UNCHANGED <<country, query, request, reply, answer, at, qfailed, queries>>
    BY DEF Return
  <1>2. result'.answer = Returned /\ (result'.err => qfailed # {})
    BY DEF Return
  <1>3. Returned' = Returned
    BY <1>1 DEF Returned, ReturnedUsable, Size
  <1>4. qfailed = {} /\ Right(answer) => Right(answer)'
    BY <1>1 DEF Right, Offered
  <1> QED
    BY <1>1, <1>2, <1>3, <1>4 DEF QueryInv, Called

\* The commands of wpa_supplicant may change the country, but nothing of the call.
LEMMA QueryStays ==
    ASSUME QueryInv, UNCHANGED queryVars, country' \in Countries
    PROVE  QueryInv'
  <1>1. UNCHANGED <<qpc, query, request, reply, answer, result, at, qfailed, queries>>
    BY DEF queryVars
  <1>2. \A a : Right(a)' <=> Right(a)
    BY <1>1 DEF Right, Offered
  <1>3. Parse(reply)' = Parse(reply)
    BY <1>1 DEF Parse
  <1>4. Returned' = Returned
    BY <1>1 DEF Returned, ReturnedUsable, Size
  <1>5. Right(Parse(reply)) => Right(Parse(reply))'
    BY <1>1, <1>3 DEF Right, Offered
  <1>6. Right(answer) => Right(answer)'
    BY <1>1 DEF Right, Offered
  <1> QED
    BY <1>1, <1>4, <1>5, <1>6 DEF QueryInv, Called

LEMMA QueryAlways == Spec => []QueryInv
  <1>1. Init => QueryInv
    BY DEF Init, DriverInit, QueriesInit, QueryInv, Called
  <1>2. QueryInv /\ [Next]_vars => QueryInv'
    <2> SUFFICES ASSUME QueryInv, [Next]_vars PROVE QueryInv'
      OBVIOUS
    <2>1. CASE Framework
      <3>1. ASSUME NEW q \in Queries, GetUsableChannels(q) PROVE QueryInv'
        BY <3>1, AskedRight DEF GetUsableChannels
      <3>2. ASSUME NEW q \in Queries,
                   \/ GetValidChannels(q) \/ GetRingBuffStatus(q) \/ GetVersion(q)
                   \/ GetLoggerFeature(q) \/ GetPacketFilterCapa(q) \/ SetCountryCode(q)
            PROVE  QueryInv'
        BY <3>2, AskedRight
           DEF GetValidChannels, GetRingBuffStatus, GetVersion, GetLoggerFeature, GetPacketFilterCapa,
               SetCountryCode
      <3> QED
        BY <2>1, <3>1, <3>2, HandleRight, ReceiveRight, ReturnRight DEF Framework, QueriesNext
    <2>2. CASE Supplicant
      <3>1. UNCHANGED queryVars /\ CmdNext
        BY <2>2 DEF Supplicant
      <3>2. country \in Countries
        BY DEF QueryInv
      <3>3. CASE ParentChanges
        BY <3>1, <3>2, <3>3, QueryStays DEF ParentChanges
      <3>4. ASSUME NEW i \in Iface, NEW c \in Cmd, Private(i, c) PROVE QueryInv'
        <4>1. country' \in Countries
          BY <3>2, <3>4 DEF Private, Cmd
        <4> QED
          BY <3>1, <4>1, QueryStays
      <3>5. ASSUME NEW i \in Iface, NEW c \in Cmd, StopStart(i, c) \/ NoEffect(i, c) PROVE QueryInv'
        BY <3>1, <3>2, <3>5, QueryStays DEF StopStart, NoEffect
      <3> QED
        BY <3>1, <3>3, <3>4, <3>5 DEF CmdNext
    <2>3. CASE UNCHANGED vars
      BY <2>3, QueryStays DEF vars, QueryInv
    <2> QED
      BY <2>1, <2>2, <2>3 DEF Next
  <1> QED
    BY <1>1, <1>2, PTL DEF Spec

\* A failure leaves an answer with nothing in it, also for a query of channels.
LEMMA NothingReturned ==
    ASSUME QueryInv, Called, answer = NoAnswer
    PROVE  Returned = NoAnswer
  <1>1. CASE query.kind # "usable"
    BY <1>1 DEF Returned
  <1>2. CASE query.kind = "usable"
    <2>1. query.max \in Nat
      BY <1>2, QueriesAssumption DEF QueryInv, Query
    <2>2. Len(answer.list) = 0
      BY DEF NoAnswer
    <2>3. Size(Len(answer.list)) = 0
      BY <2>1, <2>2 DEF Size
    <2> DEFINE e(i) == [freq |-> answer.list[i].freq, modes |-> ToHalIfaceMask(answer.list[i].modes)]
    <2>4. Returned = [num |-> 0, list |-> [i \in 1..0 |-> e(i)]]
      BY <1>2, <2>3 DEF Returned, ReturnedUsable
    <2> HIDE DEF e
    <2>5. [i \in 1..0 |-> e(i)] = <<>>
      OBVIOUS
    <2> QED
      BY <2>4, <2>5 DEF NoAnswer
  <1> QED
    BY <1>1, <1>2

\* The queries return what the driver has, or nothing after a failure, whatever an earlier call
\* left and whatever wpa_supplicant sets in between.
THEOREM WifiAnswersRight == Spec => []AnswersRight
  <1>1. QueryInv => AnswersRight
    <2> SUFFICES ASSUME QueryInv, Returns PROVE AnswersRight
      BY DEF AnswersRight
    <2>1. /\ IF qfailed = {} THEN Right(answer) ELSE answer = NoAnswer
          /\ result.answer = Returned /\ (result.err => qfailed # {})
          /\ Called
      BY DEF QueryInv, Returns, Called
    <2>2. qfailed # {} \/ result.err => result.answer = NoAnswer
      BY <2>1, NothingReturned
    <2>3. qfailed = {} /\ query.kind # "usable" => result.answer = answer /\ Right(answer)
      BY <2>1 DEF Returned
    <2> QED
      BY <2>2, <2>3 DEF AnswersRight, Right
  <1> QED
    BY <1>1, QueryAlways, PTL

-----------------------------------------------------------------------------
(* get_usable_channels: the conversions of its masks *)

LEMMA HalToSkwBand ==
    ASSUME NEW bands, bands \subseteq HalBands, NEW b \in SkwBands
    PROVE  b \in ToSkwBandMask(bands) <=> \E m \in bands : b = Band(m)
  <1>1. \A m \in HalBands : b \in ToSkwBand(m) <=> b = Band(m)
    BY DEF HalBands, SkwBands, ToSkwBand, Band
  <1> QED
    BY <1>1 DEF ToSkwBandMask

\* What a channel serves, in the framework's words.
LEMMA ServesModes ==
    ASSUME NEW c \in Channel, NEW modes, modes \subseteq HalModes
    PROVE  \A m : m \in Serves(c, modes) <=>
               /\ m \in modes
               /\ \/ m = "STA" /\ "STA" \in c.modes
                  \/ m = "AP" /\ "AP" \in c.modes
                  \/ m = "P2P" /\ ("GC" \in c.modes \/ "GO" \in c.modes)
  <1>1. Roles("STA") = {"STA"} /\ Roles("AP") = {"AP"} /\ Roles("P2P") = {"GC", "GO"} /\ Roles("other") = {}
    BY DEF Roles
  <1>2. \A m \in modes : m \in {"STA", "AP", "P2P", "other"}
    BY DEF HalModes
  <1> QED
    BY <1>1, <1>2 DEF Serves

LEMMA SkwToHalModes ==
    ASSUME NEW c \in Channel
    PROVE  ToHalIfaceMask(c.modes) = Serves(c, HalModes)
  <1>1. c.modes \subseteq SkwModes
    BY DEF Channel
  <1>2. \A m : m \in ToHalIfaceMask(c.modes) <=>
            \/ m = "STA" /\ "STA" \in c.modes
            \/ m = "AP" /\ "AP" \in c.modes
            \/ m = "P2P" /\ ("GC" \in c.modes \/ "GO" \in c.modes)
    <2>1. /\ ToHalIfaceModeMask("STA") = {"STA"} /\ ToHalIfaceModeMask("AP") = {"AP"}
          /\ ToHalIfaceModeMask("GC") = {"P2P"} /\ ToHalIfaceModeMask("GO") = {"P2P"}
          /\ ToHalIfaceModeMask("P2P_DEV") = {} /\ ToHalIfaceModeMask("IBSS") = {}
      BY DEF ToHalIfaceModeMask
    <2>2. \A n \in c.modes : n \in {"STA", "AP", "GC", "GO", "P2P_DEV", "IBSS"}
      BY <1>1 DEF SkwModes
    <2> QED
      BY <2>1, <2>2 DEF ToHalIfaceMask
  <1>3. \A m : m \in ToHalIfaceMask(c.modes) <=> m \in Serves(c, HalModes)
    BY <1>2, ServesModes DEF HalModes
  <1> QED
    BY <1>3

\* The modes of the request find a channel that serves one of those that were asked for, and
\* miss it only when that is for P2P owners alone.
LEMMA HalToSkwModes ==
    ASSUME NEW c \in Channel, NEW modes, modes \subseteq HalModes
    PROVE  /\ c.modes \cap ToSkwIfaceMask(modes) # {} => Serves(c, modes) # {}
           /\ Serves(c, modes) # {} =>
                \/ c.modes \cap ToSkwIfaceMask(modes) # {}
                \/ Serves(c, modes) = {"P2P"} /\ "GC" \notin c.modes
  <1>1. \A n : n \in ToSkwIfaceMask(modes) <=>
            \/ n = "STA" /\ "STA" \in modes
            \/ n = "AP" /\ "AP" \in modes
            \/ n = "GC" /\ "P2P" \in modes
    <2>1. /\ ToSkwIfaceModeMask("STA") = {"STA"} /\ ToSkwIfaceModeMask("AP") = {"AP"}
          /\ ToSkwIfaceModeMask("P2P") = {"GC"} /\ ToSkwIfaceModeMask("other") = {}
      BY DEF ToSkwIfaceModeMask
    <2>2. \A m \in modes : m \in {"STA", "AP", "P2P", "other"}
      BY DEF HalModes
    <2> QED
      BY <2>1, <2>2 DEF ToSkwIfaceMask
  <1>2. \A m : m \in Serves(c, modes) <=>
            /\ m \in modes
            /\ \/ m = "STA" /\ "STA" \in c.modes
               \/ m = "AP" /\ "AP" \in c.modes
               \/ m = "P2P" /\ ("GC" \in c.modes \/ "GO" \in c.modes)
    BY ServesModes
  <1>3. ASSUME NEW n \in c.modes \cap ToSkwIfaceMask(modes) PROVE Serves(c, modes) # {}
    BY <1>1, <1>2, <1>3
  <1>4. ASSUME c.modes \cap ToSkwIfaceMask(modes) = {}, NEW m \in Serves(c, modes)
        PROVE  m = "P2P" /\ "GC" \notin c.modes
    BY <1>1, <1>2, <1>4
  <1> QED
    BY <1>3, <1>4

\* What is returned are the first channels of the answer, as the framework sees them.
LEMMA ReturnedChannels ==
    ASSUME NEW max \in Nat, max = query.max, query.kind = "usable", answer.list \in Seq(Channel)
    PROVE  LET n == Len(answer.list)
               size == IF n > max THEN max ELSE n
           IN  /\ Returned.num = size /\ Len(Returned.list) = size
               /\ DOMAIN Returned.list = 1..size
               /\ \A i \in 1..size : Returned.list[i] = View(answer.list[i])
  <1> DEFINE n == Len(answer.list)
             size == IF n > max THEN max ELSE n
             e(i) == [freq |-> answer.list[i].freq, modes |-> ToHalIfaceMask(answer.list[i].modes)]
             l == [i \in 1..size |-> e(i)]
  <1>1. Returned = [num |-> size, list |-> l]
    BY DEF Returned, ReturnedUsable, Size
  <1>2. n \in Nat /\ size \in 0..n
    OBVIOUS
  <1>3. \A i \in 1..size : answer.list[i] \in Channel
    BY <1>2
  <1>4. \A i \in 1..size : e(i) = View(answer.list[i])
    BY <1>3, SkwToHalModes DEF View
  <1> HIDE DEF e, size
  <1>5. Len(l) = size /\ DOMAIN l = 1..size /\ \A i \in 1..size : l[i] = View(answer.list[i])
    BY <1>2, <1>4
  <1> HIDE DEF l
  <1> QED
    BY <1>1, <1>5 DEF size

\* Only channels of the bands and modes that were asked for are returned, and of what the caller
\* was promised only group owners' channels and what does not fit is missing, unless the request
\* held another filter than the caller's: then, and only then, the restricted ones differ.
THEOREM WifiUsableExplained == Spec => []UsableExplained
  <1>1. ASSUME QueryInv, Returns, query.kind = "usable", qfailed = {}
        PROVE  UsableExplained
    <2> DEFINE got == result.answer
               n == Len(answer.list)
               size == IF n > query.max THEN query.max ELSE n
    <2>1. /\ Called /\ got = Returned /\ at \in Countries
          /\ answer.list \in Seq(Channel) /\ Elements(answer.list) = Offered
      BY <1>1 DEF QueryInv, Returns, Called, Right
    <2>2. query.bands \subseteq HalBands /\ query.modes \subseteq HalModes /\ query.max \in Nat
      BY <1>1, <2>1, QueriesAssumption DEF QueryInv, Query
    <2>3. /\ got.num = size /\ Len(got.list) = size /\ DOMAIN got.list = 1..size
          /\ \A i \in 1..size : got.list[i] = View(answer.list[i])
      BY <1>1, <2>1, <2>2, ReturnedChannels
    <2>4. n \in Nat /\ size \in 0..n /\ size <= query.max /\ DOMAIN answer.list = 1..n
      BY <2>1, <2>2
    <2>5. \A c \in Elements(Channels[at]) : c \in Channel
      <3>1. Channels[at] \in Seq(Channel)
        BY <2>1, ChannelsSeq
      <3> QED
        BY <3>1 DEF Elements
    <2>6. \A c \in Elements(Channels[at]) : c \in Offered => Wanted(c)
      <3> SUFFICES ASSUME NEW c \in Elements(Channels[at]), c \in Offered PROVE Wanted(c)
        OBVIOUS
      <3>1. c \in Channel /\ c.band \in SkwBands
        BY <2>5 DEF Channel
      <3>2. \E b \in query.bands : c.band = Band(b)
        BY <2>2, <3>1, HalToSkwBand DEF Offered
      <3>3. Serves(c, query.modes) # {}
        BY <2>2, <3>1, HalToSkwModes DEF Offered
      <3> QED
        BY <3>2, <3>3 DEF Wanted
    <2> HIDE DEF size, n, got
    <2>7. ASSUME NEW v \in Elements(got.list)
          PROVE  \E c \in Elements(Channels[at]) : v = View(c) /\ (Promised(c) \/ (Wanted(c) /\ FilterLost))
      <3>1. PICK i \in 1..size : v = View(answer.list[i])
        BY <2>3 DEF Elements
      <3>2. answer.list[i] \in Elements(answer.list)
        BY <2>4 DEF Elements
      <3>3. answer.list[i] \in Offered /\ answer.list[i] \in Elements(Channels[at])
        BY <2>1, <3>2 DEF Offered
      <3>4. ~(request.filter /\ answer.list[i].restricted)
        BY <3>3 DEF Offered
      <3> QED
        BY <2>6, <3>1, <3>3, <3>4 DEF Promised, FilterLost
    <2>8. ASSUME NEW c \in Elements(Channels[at]), Promised(c)
          PROVE  \/ View(c) \in Elements(got.list)
                 \/ got.num = query.max
                 \/ FilterLost /\ c.restricted
                 \/ Serves(c, query.modes) = {"P2P"} /\ "GC" \notin c.modes
      <3>1. c \in Channel /\ c.band \in SkwBands
        BY <2>5 DEF Channel
      <3>2. c.band \in ToSkwBandMask(query.bands)
        BY <2>2, <2>8, <3>1, HalToSkwBand DEF Promised, Wanted
      <3>3. \/ c.modes \cap ToSkwIfaceMask(query.modes) # {}
            \/ Serves(c, query.modes) = {"P2P"} /\ "GC" \notin c.modes
        BY <2>2, <2>8, <3>1, HalToSkwModes DEF Promised, Wanted
      <3>4. CASE c \in Offered
        <4>1. PICK i \in 1..n : c = answer.list[i]
          BY <2>1, <2>4, <3>4 DEF Elements
        <4>2. CASE i <= size
          <5>1. i \in 1..size
            BY <2>4, <4>1, <4>2
          <5>2. View(c) = got.list[i] /\ i \in DOMAIN got.list
            BY <2>3, <4>1, <5>1
          <5> QED
            BY <5>2 DEF Elements
        <4>3. CASE ~(i <= size)
          BY <2>2, <2>3, <2>4, <4>1, <4>3 DEF size
        <4> QED
          BY <4>2, <4>3
      <3>5. CASE c \notin Offered
        BY <2>8, <3>2, <3>3, <3>5 DEF Offered, Promised, FilterLost
      <3> QED
        BY <3>4, <3>5
    <2>9. got.num = Len(got.list) /\ got.num <= query.max
      BY <2>3, <2>4
    <2> QED
      BY <2>7, <2>8, <2>9 DEF UsableExplained, got
  <1>2. QueryInv => UsableExplained
    BY <1>1 DEF UsableExplained
  <1> QED
    BY <1>2, QueryAlways, PTL
=============================================================================
