--------------------------- MODULE FwConfigProofs ---------------------------
(* Proofs about FwConfig, for every set of files and any number of attempts. *)
EXTENDS FwConfig, TLAPS, SequenceTheorems, WellFoundedInduction

\* The run of entries that one NVDS command takes from a 6316 file exists: it lies in the
\* file, fits a command, and the entry after it does not.
LEMMA RunEndExists ==
    ASSUME NEW f, IsTlvFile(f), NEW i \in 0..f.entries
    PROVE  /\ RunEnd(f, i) \in i..f.entries
           /\ RunFits(f, i, RunEnd(f, i))
           /\ \A k \in (RunEnd(f, i) + 1)..f.entries : ~RunFits(f, i, k)
<1> DEFINE T == {m \in 0..(f.entries - i) : RunFits(f, i, f.entries - m)}
<1>1. f.entries \in Nat /\ i \in Nat /\ f.at[i] \in Nat
  BY DEF IsTlvFile
<1>2. f.entries - i \in T
  <2>1. RunFits(f, i, f.entries - (f.entries - i))
    BY <1>1 DEF RunFits, NV_FILE_RD_BLOCK_SIZE
  <2> QED BY <1>1, <2>1
<1>3. T \subseteq Nat
  BY <1>1
<1>4. PICK x \in T : \A y \in T : ~(y < x)
  <2> HIDE DEF T
  <2>1. PICK x \in T : \A y \in T : <<y, x>> \notin OpToRel(<, Nat)
    BY <1>2, <1>3, NatLessThanWellFounded, WFMin, Zenon
  <2>2. \A y \in T : ~(y < x)
    BY <1>3, <2>1, Zenon DEF OpToRel
  <2> QED BY <2>2
<1>5. \E j \in i..f.entries : /\ RunFits(f, i, j)
                             /\ \A k \in (j+1)..f.entries : ~RunFits(f, i, k)
  <2>1. f.entries - x \in i..f.entries /\ RunFits(f, i, f.entries - x)
    BY <1>1
  <2>2. ASSUME NEW k \in (f.entries - x + 1)..f.entries, RunFits(f, i, k)
        PROVE  FALSE
    <3>1. f.entries - k \in 0..(f.entries - i) /\ f.entries - (f.entries - k) = k
      BY <1>1, <2>1, x \in 0..(f.entries - i)
    <3>2. f.entries - k \in T
      BY <2>2, <3>1
    <3>3. f.entries - k < x
      BY <1>1, x \in Nat
    <3> QED BY <1>4, <3>2, <3>3
  <2> QED BY <2>1, <2>2
<1> QED BY <1>5 DEF RunEnd

-----------------------------------------------------------------------------
(***************************************************************************)
(* The inductive invariant.  The safety properties do not say how far the    *)
(* download is while it runs: Early, Flight, Started and Download do.        *)
(***************************************************************************)
Early == state \in {"START", "READ_HCI_VERSION"} => sent = <<>>
Flight == cmd # NoCmd => ~envFailed
Started == state # "INIT" \/ cmd # NoCmd => attempts > 0
Download ==
    state \in {"NV_SEND", "WRITE_BD_ADDR", "NV_SEND_CMPL"} =>
        /\ chip = ChipOf(env.hw)
        /\ Contiguous
        /\ SentTo = nv_pos
        /\ state = "NV_SEND" =>
            /\ file_offset = Len(sent) % 256
            /\ nv_pos <= FileEnd
            /\ chip = "6316" => nv_pos < FileEnd
        /\ state # "NV_SEND" => nv_pos = FileEnd

Inv ==
    /\ TypeOK
    /\ NvHandleMatchesState
    /\ ReplyMatchesState
    /\ SilentAfterReport
    /\ BlocksNumbered
    /\ SuccessMeansConfigured
    /\ FaultsExplained
    /\ StallExplained
    /\ Early /\ Flight /\ Started /\ Download

\* What holds when HW_CFG_NV_SEND is entered with chip c at position i of the file.
Sending(c, i, off) ==
    /\ TypeOK /\ FaultsExplained /\ Alive
    /\ report = <<>> /\ ~envFailed /\ attempts > 0
    /\ c = ChipOf(env.hw)
    /\ i \in Nat /\ off \in 0..255 /\ off = Len(sent) % 256
    /\ Contiguous /\ SentTo = i
    /\ c = "6316" => i <= env.tlv.entries /\ (i = env.tlv.entries => i = 0)
    /\ c = "6160" => i <= env.blk
    /\ \A k \in 1..Len(sent) :
        /\ sent[k].off = (k - 1) % 256
        /\ c = "6160" => sent[k].patch = BlkPatch((k - 1) % 256)

USE DEF NV_FILE_RD_BLOCK_SIZE

\* Appending one command that starts where the last one ended.
LEMMA AppendCommand ==
    ASSUME TypeOK, Contiguous, NEW r \in NvCommand, r.from = SentTo,
           sent' = Append(sent, r)
    PROVE  /\ sent' \in Seq(NvCommand)
           /\ Len(sent') = Len(sent) + 1
           /\ sent'[Len(sent) + 1] = r
           /\ \A k \in 1..Len(sent) : sent'[k] = sent[k]
           /\ Contiguous'
           /\ SentTo' = r.to
<1>1. sent \in Seq(NvCommand) /\ Len(sent) \in Nat
  BY DEF TypeOK
<1>2. /\ sent' \in Seq(NvCommand)
      /\ Len(sent') = Len(sent) + 1
      /\ sent'[Len(sent) + 1] = r
      /\ \A k \in 1..Len(sent) : sent'[k] = sent[k]
  BY <1>1
<1>3. Contiguous'
  <2> SUFFICES ASSUME NEW k \in 1..Len(sent)'
               PROVE  sent'[k].from = IF k = 1 THEN 0 ELSE sent'[k-1].to
    BY DEF Contiguous
  <2>1. CASE k \in 1..Len(sent)
    BY <1>1, <1>2, <2>1 DEF Contiguous
  <2>2. CASE k = Len(sent) + 1
    <3>1. CASE sent = <<>>
      BY <1>1, <1>2, <2>2, <3>1 DEF SentTo
    <3>2. CASE sent # <<>>
      <4>1. Len(sent) \in 1..Len(sent) /\ k # 1
        BY <1>1, <2>2, <3>2, EmptySeq
      <4> QED BY <1>1, <1>2, <2>2, <3>2, <4>1 DEF SentTo
    <3> QED BY <3>1, <3>2
  <2> QED BY <1>1, <1>2, <2>1, <2>2
<1>4. SentTo' = r.to
  <2>1. sent' # <<>>
    BY <1>1, <1>2, EmptySeq
  <2> QED BY <1>2, <2>1 DEF SentTo
<1> QED BY <1>2, <1>3, <1>4

\* The block number after n blocks, as a uint8_t.
LEMMA NextOffsetFacts ==
    ASSUME NEW n \in Nat, NEW off, off = n % 256
    PROVE  NextOffset(off) \in 0..255 /\ NextOffset(off) = (n + 1) % 256
BY DEF NextOffset

\* Every file the environment can hold is well formed.
LEMMA EnvFacts ==
    ASSUME TypeOK
    PROVE  /\ IsTlvFile(env.tlv)
           /\ env.tlv.entries \in Nat
           /\ env.tlv.cut \in BOOLEAN
           /\ env.blk \in Nat
           /\ ChipOf(env.hw) \in {"6316", "6160"}
           /\ ChipOf(env.hw) = "6316" <=> env.hw = "6316"
<1>1. env.tlv \in TlvFiles /\ env.blk \in BlkFiles
  BY DEF TypeOK, Envs
<1>2. IsTlvFile(env.tlv)
  BY <1>1, TlvFilesAssumption
<1>3. env.blk \in Nat
  BY <1>1, BlkFilesAssumption
<1> QED BY <1>2, <1>3 DEF IsTlvFile, ChipOf

\* Two positions in the file between which a run leaves no room for the next header.
TightRun ==
    \E i, j \in 0..env.tlv.entries :
        j < env.tlv.entries /\ env.tlv.at[j] - env.tlv.at[i] \in {251, 252}

LEMMA OverrunNeedsTightRun ==
    ASSUME IsTlvFile(env.tlv), NEW i \in 0..env.tlv.entries, NEW j \in 0..env.tlv.entries,
           RunFits(env.tlv, i, j), PeekOverruns(env.tlv, i, j)
    PROVE  TightRun
<1> DEFINE at == env.tlv.at
<1>1. env.tlv.entries \in Nat /\ at[i] \in Nat /\ at[j] \in Nat
  BY DEF IsTlvFile
<1>2. j < env.tlv.entries /\ at[j] - at[i] <= 252 /\ at[j] - at[i] > 250
  BY <1>1 DEF RunFits, PeekOverruns, HCI_CMD_MAX_LEN
<1>3. at[j] - at[i] \in {251, 252}
  BY <1>1, <1>2
<1> QED BY <1>2, <1>3 DEF TightRun

\* Memory errors F join the earlier ones, among which there is no fclose(NULL).
LEMMA FaultsAdd ==
    ASSUME FaultsExplained, Alive, UNCHANGED <<env, attempts>>,
           NEW F, faults' = faults \cup F, "file_leak" \notin F,
           F \cap {"use_after_free", "double_free"} # {} => env.hw = "6316" /\ env.tlv.cut,
           "peek_overrun" \in F => env.hw = "6316" /\ TightRun,
           "fclose_null" \in F =>
               envFailed' /\ {"use_after_free", "double_free"} \subseteq F
    PROVE  FaultsExplained'
<1>1. "peek_overrun" \in faults => env.hw = "6316" /\ TightRun
  BY DEF FaultsExplained, TightRun
<1>2. faults' \cap {"use_after_free", "double_free"} # {} => env.hw = "6316" /\ env.tlv.cut
  <2>1. faults \cap {"use_after_free", "double_free"} # {} => env.hw = "6316" /\ env.tlv.cut
    BY DEF FaultsExplained
  <2> QED BY <2>1
<1>3. "fclose_null" \in faults' =>
        envFailed' /\ {"use_after_free", "double_free"} \subseteq faults'
  BY DEF Alive
<1>4. "peek_overrun" \in faults' => env.hw = "6316" /\ TightRun
  BY <1>1
<1>5. "file_leak" \in faults' => attempts > 1
  BY DEF FaultsExplained
<1>6. env' = env /\ attempts' = attempts
  OBVIOUS
<1> QED BY <1>2, <1>3, <1>4, <1>5, <1>6 DEF FaultsExplained, TightRun

\* A truncated 6316 file: the attempt ends with an unexplained reply to come.
LEMMA TruncatedStep ==
    ASSUME NEW i, NEW off, Sending("6316", i, off), NEW ok \in Outcomes,
           TlvTruncated(i, off, ok), chip' = "6316",
           UNCHANGED <<env, report, attempts>>
    PROVE  Inv'
<1> USE DEF Sending
<1>1. /\ IsTlvFile(env.tlv) /\ env.tlv.entries \in Nat /\ env.tlv.cut
      /\ env.hw = "6316" /\ ok \in BOOLEAN
  BY EnvFacts DEF TlvTruncated, Outcomes
<1>2. TypeOK'
  <2>1. Len(sent) \in Nat BY DEF TypeOK
  <2>2. NextOffset(off) \in 0..255
    BY <2>1, NextOffsetFacts
  <2>3. faults' \subseteq Faults
    BY <1>1 DEF TypeOK, TlvTruncated, Faults
  <2>4. cmd' \in Commands \cup {NoCmd} /\ state' \in States
    BY <1>1 DEF TypeOK, TlvTruncated, Xmit, Commands, States
  <2>5. file_offset' \in 0..255 /\ nv_pos' \in Nat /\ nv_fp' \in BOOLEAN
    BY <1>1, <2>2 DEF TypeOK, TlvTruncated
  <2>6. envFailed' \in BOOLEAN
    BY <1>1 DEF TypeOK, TlvTruncated
  <2>7. sent' \in Seq(NvCommand)
    BY <1>1 DEF TypeOK, TlvTruncated
  <2> QED BY <1>1, <2>3, <2>4, <2>5, <2>6, <2>7 DEF TypeOK, Chips
<1>3. NvHandleMatchesState' /\ ReplyMatchesState' /\ SilentAfterReport'
  BY <1>1 DEF NvHandleMatchesState, ReplyMatchesState, SilentAfterReport, TlvTruncated,
              Xmit, NoCmd
<1>4. BlocksNumbered' /\ SuccessMeansConfigured'
  BY <1>1 DEF BlocksNumbered, SuccessMeansConfigured, TlvTruncated
<1>5. FaultsExplained'
  <2> DEFINE F == {"use_after_free"} \cup IF ok THEN {} ELSE {"double_free", "fclose_null"}
  <2>1. faults' = faults \cup F /\ envFailed' = ~ok
    BY <1>1 DEF TlvTruncated
  <2>2. "fclose_null" \in F => ~ok /\ {"use_after_free", "double_free"} \subseteq F
    OBVIOUS
  <2>3. "file_leak" \notin F /\ "peek_overrun" \notin F
    OBVIOUS
  <2> HIDE DEF F
  <2> QED BY <1>1, <2>1, <2>2, <2>3, FaultsAdd
<1>6. StallExplained'
  BY <1>1 DEF StallExplained, TlvTruncated, Sendable
<1>7. Early' /\ Flight' /\ Started' /\ Download'
  BY <1>1 DEF Early, Flight, Started, Download, TlvTruncated, Xmit, NoCmd
<1> QED BY <1>2, <1>3, <1>4, <1>5, <1>6, <1>7 DEF Inv

\* Nothing to send: only for a file that is not Sendable.
LEMMA NothingStep ==
    ASSUME NEW i, NEW off, Sending("6316", i, off), TlvNothing(i, off), chip' = "6316",
           UNCHANGED <<env, report, attempts>>
    PROVE  Inv'
<1> USE DEF Sending
<1>1. /\ IsTlvFile(env.tlv) /\ env.tlv.entries \in Nat /\ env.hw = "6316"
      /\ i \in 0..env.tlv.entries /\ RunEnd(env.tlv, i) = i
  BY EnvFacts DEF TlvNothing
<1>2. ~Sendable(env.tlv)
  <2>1. CASE i = env.tlv.entries
    BY <2>1 DEF Sendable
  <2>2. CASE i # env.tlv.entries
    <3>1. i + 1 \in (i+1)..env.tlv.entries /\ i + 1 \in 1..env.tlv.entries /\ (i + 1) - 1 = i
      BY <1>1, <2>2
    <3>2. ~RunFits(env.tlv, i, i + 1)
      BY <1>1, <3>1, RunEndExists
    <3> QED BY <3>1, <3>2 DEF Sendable
  <2> QED BY <2>1, <2>2
<1>a. \/ nv_fp' = FALSE /\ state' = "WRITE_BD_ADDR"
      \/ nv_fp' = TRUE /\ state' = "NV_SEND"
  <2>1. CASE i = env.tlv.entries
    <3>1. (i < env.tlv.entries) = FALSE
      BY <1>1, <2>1
    <3> QED BY <2>1, <3>1 DEF TlvNothing
  <2>2. CASE i # env.tlv.entries
    <3>1. (i < env.tlv.entries) = TRUE
      BY <1>1, <2>2
    <3> QED BY <2>2, <3>1 DEF TlvNothing
  <2> QED BY <2>1, <2>2
<1>3. TypeOK'
  BY <1>1, <1>a DEF TypeOK, TlvNothing, Commands, States, Chips, Faults
<1>4. NvHandleMatchesState' /\ ReplyMatchesState' /\ SilentAfterReport'
  BY <1>a DEF NvHandleMatchesState, ReplyMatchesState, SilentAfterReport, TlvNothing, NoCmd
<1>5. BlocksNumbered' /\ SuccessMeansConfigured'
  BY <1>1 DEF BlocksNumbered, SuccessMeansConfigured, TlvNothing
<1>6. FaultsExplained'
  BY <1>1 DEF FaultsExplained, TlvNothing, TypeOK, Alive
<1>7. StallExplained'
  BY <1>1, <1>2 DEF StallExplained, TlvNothing
<1>8. Early' /\ Flight' /\ Started'
  BY <1>1 DEF Early, Flight, Started, TlvNothing, NoCmd
<1>9. Download'
  BY <1>1 DEF Download, TlvNothing, Contiguous, SentTo, FileEnd, ChipOf
<1> QED BY <1>3, <1>4, <1>5, <1>6, <1>7, <1>8, <1>9 DEF Inv

\* A run of entries is sent: the download advances to the end of the run.
LEMMA RunStep ==
    ASSUME NEW i, NEW off, Sending("6316", i, off), NEW ok \in Outcomes,
           TlvRun(i, off, ok), chip' = "6316",
           UNCHANGED <<env, report, attempts>>
    PROVE  Inv'
<1> USE DEF Sending
<1> DEFINE f == env.tlv
           j == RunEnd(f, i)
           r == [off |-> off, from |-> i, to |-> j, patch |-> TlvPatch(f, i, j)]
<1>1. /\ IsTlvFile(f) /\ f.entries \in Nat /\ env.hw = "6316" /\ ok \in BOOLEAN
      /\ i \in 0..f.entries
  <2>1. ok \in BOOLEAN BY DEF Outcomes
  <2>2. IsTlvFile(f) /\ f.entries \in Nat /\ env.hw = "6316" BY EnvFacts
  <2> QED BY <2>1, <2>2
<1>2. j \in i..f.entries /\ j > i /\ RunFits(f, i, j)
  BY <1>1, RunEndExists DEF TlvRun
<1> HIDE DEF j
<1>3. r \in NvCommand /\ r.from = SentTo /\ r.to = j /\ r.off = off
  <2>1. TlvPatch(f, i, j) \in Patches BY DEF TlvPatch, Patches
  <2> QED BY <1>1, <1>2, <2>1 DEF NvCommand
<1>4. /\ NextOffset(off) \in 0..255
      /\ NextOffset(off) = (Len(sent) + 1) % 256
  <2>1. Len(sent) \in Nat BY DEF TypeOK
  <2> QED BY <2>1, NextOffsetFacts
<1>5. CASE ok
  <2>1. /\ cmd' = "NVDS" /\ nv_pos' = j /\ file_offset' = NextOffset(off)
        /\ sent' = Append(sent, r)
        /\ faults' = faults \cup (IF PeekOverruns(f, i, j) THEN {"peek_overrun"} ELSE {})
        /\ envFailed' = FALSE
    BY <1>5 DEF TlvRun, Xmit, j, r
  <2>2. \/ j = f.entries /\ nv_fp' = FALSE /\ state' = "WRITE_BD_ADDR"
        \/ j < f.entries /\ nv_fp' = TRUE /\ state' = "NV_SEND"
    <3>1. CASE j = f.entries
      <4>1. (j < f.entries) = FALSE
        BY <1>1, <3>1
      <4> QED BY <1>5, <3>1, <4>1 DEF TlvRun, j
    <3>2. CASE j # f.entries
      <4>1. (j < f.entries) = TRUE
        BY <1>1, <1>2, <3>2
      <4> QED BY <1>5, <3>2, <4>1 DEF TlvRun, j
    <3> QED BY <3>1, <3>2
  <2>3. /\ sent' \in Seq(NvCommand)
        /\ Len(sent') = Len(sent) + 1
        /\ sent'[Len(sent) + 1] = r
        /\ \A k \in 1..Len(sent) : sent'[k] = sent[k]
        /\ Contiguous' /\ SentTo' = j
    BY <1>3, <2>1, AppendCommand
  <2> HIDE DEF r
  <2>4. TypeOK'
    <3>1. faults' \subseteq Faults
      BY <2>1 DEF TypeOK, Faults
    <3>2. nv_pos' \in Nat /\ file_offset' \in 0..255
      BY <1>1, <1>2, <1>4, <2>1
    <3> QED BY <2>1, <2>2, <2>3, <3>1, <3>2 DEF TypeOK, Commands, States, Chips
  <2>5. NvHandleMatchesState' /\ ReplyMatchesState' /\ SilentAfterReport'
    BY <2>1, <2>2 DEF NvHandleMatchesState, ReplyMatchesState, SilentAfterReport
  <2>6. BlocksNumbered'
    <3> SUFFICES ASSUME NEW k \in 1..Len(sent)'
                 PROVE  sent'[k].off = (k - 1) % 256
      BY DEF BlocksNumbered
    <3>1. Len(sent) \in Nat BY DEF TypeOK
    <3>2. CASE k \in 1..Len(sent)
      BY <2>3, <3>2
    <3>3. CASE k = Len(sent) + 1
      BY <1>3, <2>3, <3>1, <3>3
    <3> QED BY <2>3, <3>1, <3>2, <3>3
  <2>7. SuccessMeansConfigured' /\ StallExplained'
    BY <2>1 DEF SuccessMeansConfigured, StallExplained, Stalled, NoCmd
  <2>8. FaultsExplained'
    <3>3. FaultsExplained /\ Alive
      OBVIOUS
    <3> HIDE DEF Sending
    <3>1. i \in 0..f.entries /\ j \in 0..f.entries
      BY <1>1, <1>2
    <3>2. ASSUME PeekOverruns(f, i, j) PROVE TightRun
      BY <1>1, <1>2, <3>1, <3>2, OverrunNeedsTightRun
    <3> DEFINE F == IF PeekOverruns(f, i, j) THEN {"peek_overrun"} ELSE {}
    <3>4. /\ faults' = faults \cup F
          /\ F \cap {"file_leak", "fclose_null", "use_after_free", "double_free"} = {}
          /\ "peek_overrun" \in F => TightRun
      BY <2>1, <3>2
    <3> HIDE DEF F
    <3> QED BY <1>1, <3>3, <3>4, FaultsAdd
  <2>9. Early' /\ Flight' /\ Started'
    BY <2>1, <2>2 DEF Early, Flight, Started
  <2>10. Download'
    BY <1>1, <1>2, <1>4, <2>1, <2>2, <2>3 DEF Download, FileEnd, ChipOf
  <2> QED BY <2>4, <2>5, <2>6, <2>7, <2>8, <2>9, <2>10 DEF Inv
<1>6. CASE ~ok
  <2>1. /\ cmd' = NoCmd /\ nv_pos' = j /\ file_offset' = NextOffset(off)
        /\ sent' = sent /\ state' = "INIT" /\ nv_fp' = FALSE
        /\ faults' = faults \cup (IF PeekOverruns(f, i, j) THEN {"peek_overrun"} ELSE {})
        /\ envFailed' = TRUE
    BY <1>6 DEF TlvRun, Xmit, j
  <2>2. TypeOK'
    <3>1. faults' \subseteq Faults
      BY <2>1 DEF TypeOK, Faults
    <3>2. nv_pos' \in Nat /\ file_offset' \in 0..255
      BY <1>1, <1>2, <1>4, <2>1
    <3> QED BY <2>1, <3>1, <3>2 DEF TypeOK, States, Chips
  <2>3. NvHandleMatchesState' /\ ReplyMatchesState' /\ SilentAfterReport'
    BY <2>1 DEF NvHandleMatchesState, ReplyMatchesState, SilentAfterReport, NoCmd
  <2>4. BlocksNumbered' /\ SuccessMeansConfigured' /\ StallExplained'
    BY <2>1 DEF BlocksNumbered, SuccessMeansConfigured, StallExplained
  <2>5. FaultsExplained'
    <3>3. FaultsExplained /\ Alive
      OBVIOUS
    <3> HIDE DEF Sending
    <3>1. i \in 0..f.entries /\ j \in 0..f.entries
      BY <1>1, <1>2
    <3>2. ASSUME PeekOverruns(f, i, j) PROVE TightRun
      BY <1>1, <1>2, <3>1, <3>2, OverrunNeedsTightRun
    <3> DEFINE F == IF PeekOverruns(f, i, j) THEN {"peek_overrun"} ELSE {}
    <3>4. /\ faults' = faults \cup F
          /\ F \cap {"file_leak", "fclose_null", "use_after_free", "double_free"} = {}
          /\ "peek_overrun" \in F => TightRun
      BY <2>1, <3>2
    <3> HIDE DEF F
    <3> QED BY <1>1, <3>3, <3>4, FaultsAdd
  <2>6. Early' /\ Flight' /\ Started' /\ Download'
    BY <2>1 DEF Early, Flight, Started, Download, NoCmd
  <2> QED BY <2>2, <2>3, <2>4, <2>5, <2>6 DEF Inv
<1> QED BY <1>5, <1>6

\* A block lies in the file, and a short one ends it.
LEMMA BlockLenFacts ==
    ASSUME env.blk \in Nat, NEW i \in 0..env.blk
    PROVE  /\ BlockLen(i) \in 0..252
           /\ i + BlockLen(i) \in 0..env.blk
           /\ BlockLen(i) < 252 => i + BlockLen(i) = env.blk
BY DEF BlockLen

\* A block of a 6160 file is sent.
LEMMA BlockStep ==
    ASSUME NEW i, NEW off, Sending("6160", i, off), BlkSend(i, off), chip' = "6160",
           UNCHANGED <<env, report, attempts>>
    PROVE  Inv'
<1> DEFINE n == BlockLen(i)
           last == n < NV_FILE_RD_BLOCK_SIZE
           r == [off |-> off, from |-> i, to |-> i + n, patch |-> BlkPatch(off)]
<1>1. env.blk \in Nat /\ i \in 0..env.blk /\ env.hw # "6316" /\ ChipOf(env.hw) = "6160"
  BY EnvFacts DEF Sending
<1>2. /\ n \in 0..252 /\ i + n \in 0..env.blk
      /\ \/ last = TRUE /\ i + n = env.blk
         \/ last = FALSE
  <2>1. n \in 0..252 /\ i + n \in 0..env.blk /\ (n < 252 => i + n = env.blk)
    BY <1>1, BlockLenFacts
  <2> HIDE DEF n
  <2>2. CASE n < 252
    BY <2>1, <2>2
  <2>3. CASE n = 252
    BY <2>1, <2>3
  <2> QED BY <2>1, <2>2, <2>3
<1>a. /\ TypeOK /\ FaultsExplained /\ Alive /\ Contiguous /\ SentTo = i
      /\ report = <<>> /\ envFailed = FALSE /\ attempts > 0
      /\ off \in 0..255 /\ off = Len(sent) % 256 /\ Len(sent) \in Nat
  BY DEF Sending, TypeOK
<1>b. \A k \in 1..Len(sent) :
        sent[k].off = (k - 1) % 256 /\ sent[k].patch = BlkPatch((k - 1) % 256)
  BY DEF Sending
<1>3. PICK ok \in Outcomes :
        /\ Xmit("NVDS", ok)
        /\ state' = IF ~ok THEN "INIT" ELSE IF last THEN "WRITE_BD_ADDR" ELSE "NV_SEND"
        /\ nv_fp' = (ok /\ ~last)
        /\ nv_pos' = i + n
        /\ file_offset' = NextOffset(off)
        /\ sent' = IF ok THEN Append(sent, r) ELSE sent
        /\ faults' = faults \cup (IF ~ok /\ last THEN {"fclose_null"} ELSE {})
        /\ envFailed' = (envFailed \/ ~ok)
  BY DEF BlkSend
<1> HIDE DEF n, last
<1>4. r \in NvCommand /\ r.from = SentTo /\ r.to = i + n /\ r.off = off
      /\ r.patch = BlkPatch(off)
  BY <1>1, <1>2, <1>a DEF NvCommand, Patches, BlkPatch
<1> HIDE DEF r
<1>5. /\ NextOffset(off) \in 0..255
      /\ NextOffset(off) = (Len(sent) + 1) % 256
  BY <1>a, NextOffsetFacts
<1>c. nv_pos' = i + n /\ nv_pos' \in Nat /\ file_offset' = NextOffset(off) /\ file_offset' \in 0..255
  BY <1>1, <1>2, <1>3, <1>5
<1>d. /\ env' \in Envs /\ chip' \in Chips /\ report' = <<>> /\ attempts' \in 0..MaxAttempts
      /\ env' = env /\ attempts' > 0
  BY <1>a DEF TypeOK, Chips
<1>e. report' \in Seq({"SUCCESS", "FAIL"})
  <2>1. report \in Seq({"SUCCESS", "FAIL"})
    BY <1>a DEF TypeOK
  <2> QED BY <2>1
<1>6. CASE ok
  <2>1. cmd' = "NVDS" /\ sent' = Append(sent, r)
    BY <1>3, <1>6 DEF Xmit
  <2>a. envFailed' = FALSE
    <3>1. (envFailed \/ ~ok) = FALSE
      BY <1>6, <1>a
    <3> QED BY <1>3, <3>1
  <2>b. faults' = faults
    BY <1>3, <1>6
  <2>c. \/ last = TRUE /\ nv_fp' = FALSE /\ state' = "WRITE_BD_ADDR"
        \/ last = FALSE /\ nv_fp' = TRUE /\ state' = "NV_SEND"
    <3>1. CASE last = TRUE
      BY <1>3, <1>6, <3>1
    <3>2. CASE last = FALSE
      BY <1>3, <1>6, <3>2
    <3> QED BY <1>2, <3>1, <3>2
  <2>2. /\ sent' \in Seq(NvCommand)
        /\ Len(sent') = Len(sent) + 1
        /\ sent'[Len(sent) + 1] = r
        /\ \A k \in 1..Len(sent) : sent'[k] = sent[k]
        /\ Contiguous' /\ SentTo' = i + n
    BY <1>4, <1>a, <2>1, AppendCommand
  <2>3. TypeOK'
    <3>1. cmd' \in Commands \cup {NoCmd} /\ state' \in States /\ nv_fp' \in BOOLEAN
      BY <2>1, <2>c DEF Commands, States
    <3>2. faults' \subseteq Faults /\ envFailed' \in BOOLEAN
      BY <1>a, <2>a, <2>b DEF TypeOK
    <3> QED BY <1>c, <1>d, <1>e, <2>2, <3>1, <3>2 DEF TypeOK
  <2>4. NvHandleMatchesState' /\ ReplyMatchesState' /\ SilentAfterReport'
    <3>1. NvHandleMatchesState'
      BY <2>c DEF NvHandleMatchesState
    <3>2. ReplyMatchesState' /\ SilentAfterReport'
      BY <1>d, <2>1, <2>c DEF ReplyMatchesState, SilentAfterReport
    <3> QED BY <3>1, <3>2
  <2>5. BlocksNumbered'
    <3> SUFFICES ASSUME NEW k \in 1..Len(sent)'
                 PROVE  sent'[k].off = (k - 1) % 256
                        /\ sent'[k].patch = BlkPatch((k - 1) % 256)
      BY DEF BlocksNumbered
    <3>1. CASE k \in 1..Len(sent)
      BY <1>b, <2>2, <3>1
    <3>2. CASE k = Len(sent) + 1
      <4>1. sent'[k] = r /\ k - 1 = Len(sent)
        BY <1>a, <2>2, <3>2
      <4> QED BY <1>4, <1>a, <4>1
    <3>3. k \in 1..Len(sent) \/ k = Len(sent) + 1
      BY <1>a, <2>2
    <3> QED BY <3>1, <3>2, <3>3
  <2>6. SuccessMeansConfigured' /\ StallExplained'
    BY <1>d, <2>1 DEF SuccessMeansConfigured, StallExplained, Stalled, NoCmd
  <2>7. FaultsExplained'
    BY <1>1, <1>a, <1>d, <2>b DEF FaultsExplained, Alive
  <2>8. Early' /\ Flight' /\ Started'
    BY <1>d, <2>a, <2>c DEF Early, Flight, Started
  <2>9. Download'
    <3>1. FileEnd' = env.blk /\ chip' = ChipOf(env.hw)'
      BY <1>1, <1>d DEF FileEnd
    <3>2. file_offset' = Len(sent') % 256
      BY <1>5, <1>c, <2>2
    <3>3. nv_pos' <= env.blk /\ (last = TRUE => nv_pos' = env.blk)
      BY <1>1, <1>2, <1>c
    <3> QED BY <1>c, <2>2, <2>c, <3>1, <3>2, <3>3 DEF Download
  <2> QED BY <2>3, <2>4, <2>5, <2>6, <2>7, <2>8, <2>9 DEF Inv
<1>7. CASE ~ok
  <2>1. cmd' = NoCmd /\ sent' = sent /\ state' = "INIT"
    BY <1>3, <1>7 DEF Xmit
  <2>a. nv_fp' = FALSE
    <3>1. (ok /\ ~last) = FALSE
      BY <1>7
    <3> QED BY <1>3, <3>1
  <2>b. envFailed' = TRUE
    <3>1. (envFailed \/ ~ok) = TRUE
      BY <1>7
    <3> QED BY <1>3, <3>1
  <2>c. \/ faults' = faults
        \/ faults' = faults \cup {"fclose_null"} /\ nv_pos' = env.blk
    <3>1. CASE last = TRUE
      <4>1. nv_pos' = env.blk
        BY <1>2, <1>c, <3>1
      <4> QED BY <1>3, <1>7, <3>1, <4>1
    <3>2. CASE last = FALSE
      <4>1. (IF ~ok /\ last THEN {"fclose_null"} ELSE {}) = {}
        BY <3>2
      <4> QED BY <1>3, <4>1
    <3> QED BY <1>2, <3>1, <3>2
  <2>2. TypeOK'
    <3>1. faults' \subseteq Faults
      BY <1>a, <2>c DEF TypeOK, Faults
    <3>2. sent' \in Seq(NvCommand)
      BY <1>a, <2>1 DEF TypeOK
    <3> QED BY <1>c, <1>d, <1>e, <2>1, <2>a, <2>b, <3>1, <3>2 DEF TypeOK, States
  <2>3. NvHandleMatchesState' /\ ReplyMatchesState' /\ SilentAfterReport'
    <3>1. NvHandleMatchesState'
      BY <2>1, <2>a DEF NvHandleMatchesState
    <3>2. ReplyMatchesState' /\ SilentAfterReport'
      BY <1>d, <2>1 DEF ReplyMatchesState, SilentAfterReport, NoCmd
    <3> QED BY <3>1, <3>2
  <2>4. BlocksNumbered' /\ SuccessMeansConfigured' /\ StallExplained'
    <3>1. BlocksNumbered'
      BY <1>b, <2>1 DEF BlocksNumbered
    <3>2. SuccessMeansConfigured' /\ StallExplained'
      BY <1>d, <2>b DEF SuccessMeansConfigured, StallExplained
    <3> QED BY <3>1, <3>2
  <2>5. FaultsExplained'
    BY <1>1, <1>a, <1>d, <2>b, <2>c DEF FaultsExplained, Alive
  <2>6. Early' /\ Flight' /\ Started' /\ Download'
    BY <1>d, <2>1 DEF Early, Flight, Started, Download, NoCmd
  <2> QED BY <2>2, <2>3, <2>4, <2>5, <2>6 DEF Inv
<1> QED BY <1>6, <1>7

\* HW_CFG_NV_SEND, entered from either case.
LEMMA NvSendStep ==
    ASSUME NEW c, NEW i, NEW off, Sending(c, i, off), NvSend(c, i, off), chip' = c,
           UNCHANGED <<env, report, attempts>>
    PROVE  Inv'
<1>1. CASE c = "6316" /\ TlvSend(i, off)
  <2>1. CASE TlvNothing(i, off)
    BY <1>1, <2>1, NothingStep
  <2>2. CASE \E ok \in Outcomes : TlvTruncated(i, off, ok) \/ TlvRun(i, off, ok)
    BY <1>1, <2>2, TruncatedStep, RunStep
  <2> QED BY <1>1, <2>1, <2>2 DEF TlvSend
<1>2. CASE c = "6160" /\ BlkSend(i, off)
  BY <1>2, BlockStep
<1> QED BY <1>1, <1>2 DEF NvSend

-----------------------------------------------------------------------------
\* The parts of the invariant that speak of the commands sent only depend on them, on the
\* files and on the chip.
LEMMA SentUnchanged ==
    ASSUME UNCHANGED <<sent, env, chip>>
    PROVE  /\ Contiguous' = Contiguous
           /\ SentTo' = SentTo
           /\ FileEnd' = FileEnd
           /\ BlocksNumbered => BlocksNumbered'
BY DEF Contiguous, SentTo, FileEnd, BlocksNumbered

\* A process that has not configured anything satisfies the invariant.
LEMMA InitInv == Init => Inv
<1> SUFFICES ASSUME Init PROVE Inv
  OBVIOUS
<1> USE DEF Init
<1>1. TypeOK
  <2>1. report \in Seq({"SUCCESS", "FAIL"}) /\ sent \in Seq(NvCommand)
    BY EmptySeq
  <2>2. env \in Envs /\ state \in States /\ chip \in Chips
    BY DEF States, Chips
  <2>3. file_offset \in 0..255 /\ nv_pos \in Nat
    OBVIOUS
  <2>4. attempts \in 0..MaxAttempts
    BY MaxAttemptsAssumption
  <2>5. cmd \in Commands \cup {NoCmd}
    OBVIOUS
  <2>6. faults \subseteq Faults
    OBVIOUS
  <2>7. nv_fp \in BOOLEAN /\ envFailed \in BOOLEAN
    OBVIOUS
  <2> HIDE DEF Init
  <2> QED BY <2>1, <2>2, <2>3, <2>4, <2>5, <2>6, <2>7 DEF TypeOK
<1>2. NvHandleMatchesState /\ ReplyMatchesState /\ SilentAfterReport
  BY DEF NvHandleMatchesState, ReplyMatchesState, SilentAfterReport, NoCmd
<1>3. BlocksNumbered /\ SuccessMeansConfigured /\ StallExplained
  BY DEF BlocksNumbered, SuccessMeansConfigured, StallExplained, Stalled
<1>4. FaultsExplained
  BY DEF FaultsExplained
<1>5. Early /\ Flight /\ Started /\ Download
  BY DEF Early, Flight, Started, Download, NoCmd
<1> QED BY <1>1, <1>2, <1>3, <1>4, <1>5 DEF Inv

\* A new attempt starts from scratch, whatever state it finds.
LEMMA ConfigStartStep ==
    ASSUME Inv, ConfigStart
    PROVE  Inv'
<1>1. TypeOK /\ FaultsExplained /\ Alive
  BY DEF Inv, ConfigStart
<1>2. PICK alloc \in Outcomes, ok \in Outcomes :
        /\ state' = IF alloc THEN "START" ELSE "INIT"
        /\ Xmit("RESET", alloc /\ ok)
        /\ envFailed' = ~(alloc /\ ok)
        /\ faults' = faults \cup (IF nv_fp THEN {"file_leak"} ELSE {})
                            \cup (IF alloc THEN LeakUnless(ok) ELSE {})
  BY DEF ConfigStart
<1>3. /\ alloc \in BOOLEAN /\ ok \in BOOLEAN
  BY DEF Outcomes
<1>4. /\ file_offset' = 0 /\ nv_fp' = FALSE /\ nv_pos' = 0 /\ report' = <<>> /\ sent' = <<>>
      /\ attempts' = attempts + 1 /\ attempts < MaxAttempts /\ UNCHANGED <<env, chip>>
  BY DEF ConfigStart
<1>5. attempts' \in 0..MaxAttempts /\ attempts' > 0
  BY <1>1, <1>4, MaxAttemptsAssumption DEF TypeOK
<1>6. /\ faults' \subseteq Faults /\ "fclose_null" \notin faults'
      /\ faults' \subseteq faults \cup {"file_leak", "cmd_leak"}
      /\ "file_leak" \in faults' => "file_leak" \in faults \/ nv_fp
      /\ faults \subseteq faults'
  BY <1>1, <1>2, <1>3 DEF TypeOK, Faults, LeakUnless, Alive
<1>7. /\ cmd' \in {NoCmd, "RESET"} /\ state' \in {"START", "INIT"} /\ envFailed' \in BOOLEAN
      /\ cmd' # NoCmd => state' = "START" /\ ~envFailed'
      /\ cmd' = NoCmd => envFailed'
  BY <1>2, <1>3 DEF Xmit, NoCmd
<1>8. TypeOK'
  <2>1. report' \in Seq({"SUCCESS", "FAIL"}) /\ sent' \in Seq(NvCommand)
    BY <1>4, EmptySeq
  <2>2. env' \in Envs /\ chip' \in Chips
    BY <1>1, <1>4 DEF TypeOK
  <2>3. file_offset' \in 0..255 /\ nv_pos' \in Nat
    BY <1>4
  <2>4. state' \in States /\ cmd' \in Commands \cup {NoCmd}
    BY <1>7 DEF States, Commands
  <2>5. nv_fp' \in BOOLEAN
    BY <1>4
  <2> QED BY <1>5, <1>6, <1>7, <2>1, <2>2, <2>3, <2>4, <2>5 DEF TypeOK
<1>9. NvHandleMatchesState' /\ ReplyMatchesState' /\ SilentAfterReport'
  BY <1>4, <1>7 DEF NvHandleMatchesState, ReplyMatchesState, SilentAfterReport, NoCmd
<1>10. BlocksNumbered' /\ SuccessMeansConfigured' /\ StallExplained'
  BY <1>4, <1>7 DEF BlocksNumbered, SuccessMeansConfigured, StallExplained, Stalled
<1>11. FaultsExplained'
  <2>1. nv_fp => attempts > 0
    BY DEF Inv, NvHandleMatchesState, Started
  <2>2. attempts \in Nat
    BY <1>1 DEF TypeOK
  <2>3. "file_leak" \in faults' => attempts' > 1
    BY <1>1, <1>4, <1>6, <2>1, <2>2 DEF FaultsExplained
  <2> QED BY <1>1, <1>4, <1>6, <2>3 DEF FaultsExplained
<1>12. Early' /\ Flight' /\ Started' /\ Download'
  BY <1>4, <1>5, <1>7 DEF Early, Flight, Started, Download
<1> QED BY <1>8, <1>9, <1>10, <1>11, <1>12 DEF Inv

\* A callback that only sends a command and moves to the next state.
LEMMA AdvanceStep ==
    ASSUME Inv, CbStart \/ CbBdAddr
    PROVE  Inv'
<1>1. /\ TypeOK /\ FaultsExplained /\ Alive /\ ~envFailed /\ attempts > 0 /\ report = <<>>
      /\ state \in {"START", "WRITE_BD_ADDR"} /\ ~nv_fp
  BY DEF Inv, CbStart, CbBdAddr, Reply, Flight, Started, SilentAfterReport,
         NvHandleMatchesState
<1>2. PICK ok \in Outcomes :
        /\ cmd' \in {NoCmd, "READ_VERSION", "BD_ADDR"}
        /\ cmd' = "READ_VERSION" => state' = "READ_HCI_VERSION"
        /\ cmd' = "BD_ADDR" => state' = "NV_SEND_CMPL"
        /\ cmd' = NoCmd <=> ~ok
        /\ envFailed' = (envFailed \/ ~ok)
        /\ faults' = faults \cup LeakUnless(ok)
        /\ \/ state = "START" /\ state' = "READ_HCI_VERSION"
           \/ state = "WRITE_BD_ADDR" /\ state' = "NV_SEND_CMPL"
        /\ UNCHANGED <<env, file_offset, nv_fp, nv_pos, chip, report, sent, attempts>>
  BY DEF CbStart, CbBdAddr, Xmit, NoCmd, Outcomes
<1>3. ok \in BOOLEAN
  BY DEF Outcomes
<1>4. /\ faults' \subseteq Faults /\ "fclose_null" \notin faults'
      /\ faults' \subseteq faults \cup {"cmd_leak"} /\ faults \subseteq faults'
  BY <1>1, <1>2, <1>3 DEF TypeOK, Faults, LeakUnless, Alive
<1>5. envFailed' = ~ok
  BY <1>1, <1>2, <1>3
<1>6. TypeOK'
  BY <1>1, <1>2, <1>3, <1>4, <1>5 DEF TypeOK, States, Commands
<1>7. NvHandleMatchesState' /\ ReplyMatchesState' /\ SilentAfterReport'
  BY <1>1, <1>2 DEF NvHandleMatchesState, ReplyMatchesState, SilentAfterReport, NoCmd
<1>8. BlocksNumbered' /\ SuccessMeansConfigured' /\ StallExplained'
  BY <1>1, <1>2, <1>3, <1>5, SentUnchanged
     DEF Inv, SuccessMeansConfigured, StallExplained, Stalled
<1>9. FaultsExplained'
  BY <1>1, <1>2, <1>4 DEF FaultsExplained
<1>10. Early' /\ Flight' /\ Started'
  BY <1>1, <1>2, <1>3, <1>5 DEF Inv, Early, Flight, Started
<1>11. Download'
  <2>1. FileEnd' = FileEnd /\ SentTo' = SentTo /\ Contiguous' = Contiguous
    BY <1>2, SentUnchanged
  <2> QED BY <1>2, <2>1 DEF Inv, Download
<1> QED BY <1>6, <1>7, <1>8, <1>9, <1>10, <1>11 DEF Inv

\* Both ways into HW_CFG_NV_SEND establish Sending.
LEMMA DownloadStep ==
    ASSUME Inv, CbVersion \/ CbNvSend
    PROVE  Inv'
<1>1. /\ TypeOK /\ FaultsExplained /\ Alive /\ ~envFailed /\ attempts > 0 /\ report = <<>>
      /\ state \in {"READ_HCI_VERSION", "NV_SEND"} /\ BlocksNumbered
  BY DEF Inv, CbVersion, CbNvSend, Reply, Flight, Started, SilentAfterReport
<1>2. /\ env.tlv.entries \in Nat /\ env.blk \in Nat
      /\ ChipOf(env.hw) = "6316" \/ ChipOf(env.hw) = "6160"
  BY <1>1, EnvFacts
<1>3. CASE CbVersion
  <2>1. sent = <<>> /\ Len(sent) = 0
    BY <1>3, EmptySeq DEF Inv, Early, CbVersion
  <2>2. Contiguous /\ SentTo = 0
    BY <2>1 DEF Contiguous, SentTo
  <2>3. Sending(ChipOf(env.hw), 0, 0)
    BY <1>1, <1>2, <2>1, <2>2 DEF Sending
  <2> QED BY <1>3, <2>3, NvSendStep DEF CbVersion
<1>4. CASE CbNvSend
  <2>1. /\ state = "NV_SEND" /\ NvSend(chip, nv_pos, file_offset)
        /\ UNCHANGED <<env, chip, report, attempts>>
    BY <1>4 DEF CbNvSend
  <2>2. /\ chip = ChipOf(env.hw) /\ Contiguous /\ SentTo = nv_pos
        /\ file_offset = Len(sent) % 256
        /\ nv_pos <= FileEnd /\ (chip = "6316" => nv_pos < FileEnd)
    BY <2>1 DEF Inv, Download
  <2>3. nv_pos \in Nat /\ file_offset \in 0..255
    BY <1>1 DEF TypeOK
  <2>4. Sending(chip, nv_pos, file_offset)
    <3>1. chip = "6316" => nv_pos <= env.tlv.entries /\ nv_pos # env.tlv.entries
      BY <1>2, <2>2, <2>3 DEF FileEnd
    <3>2. chip = "6160" => nv_pos <= env.blk
      BY <2>2 DEF FileEnd
    <3> QED BY <1>1, <2>2, <2>3, <3>1, <3>2 DEF Sending, BlocksNumbered
  <2> QED BY <2>1, <2>4, NvSendStep
<1> QED BY <1>3, <1>4

\* The callbacks that send nothing.
LEMMA QuietStep ==
    ASSUME Inv, CbError \/ CbVersionNoFile \/ CbComplete \/ CbIgnored
    PROVE  Inv'
<1>1. /\ TypeOK /\ FaultsExplained /\ Alive /\ ~envFailed /\ attempts > 0 /\ report = <<>>
      /\ cmd # NoCmd
  BY DEF Inv, CbError, CbVersionNoFile, CbComplete, CbIgnored, Reply, Flight, Started,
         SilentAfterReport
<1>2. CASE CbError
  <2>1. /\ cmd' = NoCmd /\ envFailed' = TRUE
        /\ UNCHANGED <<env, state, file_offset, nv_fp, nv_pos, chip, report, sent,
                       faults, attempts>>
    BY <1>2 DEF CbError
  <2>2. TypeOK'
    BY <1>1, <2>1 DEF TypeOK
  <2>3. NvHandleMatchesState' /\ ReplyMatchesState' /\ SilentAfterReport'
    BY <1>1, <2>1 DEF Inv, NvHandleMatchesState, ReplyMatchesState, SilentAfterReport, NoCmd
  <2>4. BlocksNumbered' /\ SuccessMeansConfigured' /\ StallExplained' /\ FaultsExplained'
    BY <1>1, <2>1, SentUnchanged
       DEF Inv, SuccessMeansConfigured, StallExplained, FaultsExplained, Alive
  <2>5. Early' /\ Flight' /\ Started'
    BY <1>1, <2>1 DEF Inv, Early, Flight, Started
  <2>6. Download'
    BY <2>1, SentUnchanged DEF Inv, Download
  <2> QED BY <2>2, <2>3, <2>4, <2>5, <2>6 DEF Inv
<1>3. CASE CbVersionNoFile
  <2>1. /\ cmd' = NoCmd /\ envFailed' = TRUE /\ chip' = ChipOf(env.hw) /\ state' = "INIT"
        /\ report' = Append(report, "FAIL") /\ faults' = faults \cup {"evt_leak", "cmd_leak"}
        /\ UNCHANGED <<env, file_offset, nv_fp, nv_pos, sent, attempts>>
        /\ state = "READ_HCI_VERSION"
    BY <1>3 DEF CbVersionNoFile
  <2>2. report' = <<"FAIL">> /\ Len(report') = 1 /\ sent' = <<>> /\ Len(sent') = 0 /\ ~nv_fp'
        /\ chip' \in {"6316", "6160"}
    BY <1>1, <2>1, EmptySeq DEF Inv, Early, NvHandleMatchesState, ChipOf
  <2>3. TypeOK'
    <3>1. report' \in Seq({"SUCCESS", "FAIL"})
      BY <2>2
    <3> QED BY <1>1, <2>1, <2>2, <3>1 DEF TypeOK, States, Faults, Chips
  <2>4. NvHandleMatchesState' /\ ReplyMatchesState' /\ SilentAfterReport'
    BY <2>1, <2>2 DEF NvHandleMatchesState, ReplyMatchesState, SilentAfterReport, NoCmd
  <2>5. BlocksNumbered' /\ SuccessMeansConfigured' /\ StallExplained'
    <3>1. BlocksNumbered'
      BY <2>2 DEF BlocksNumbered
    <3>2. report' # <<"SUCCESS">>
      <4>1. report'[1] = "FAIL"
        BY <2>2
      <4> QED BY <4>1
    <3> QED BY <2>1, <3>1, <3>2 DEF SuccessMeansConfigured, StallExplained
  <2>6. FaultsExplained'
    BY <1>1, <2>1 DEF FaultsExplained, Alive
  <2>7. Early' /\ Flight' /\ Started' /\ Download'
    BY <2>1 DEF Early, Flight, Started, Download
  <2> QED BY <2>3, <2>4, <2>5, <2>6, <2>7 DEF Inv
<1>4. CASE CbComplete
  <2>1. /\ cmd' = NoCmd /\ state' = "INIT" /\ report' = Append(report, "SUCCESS")
        /\ UNCHANGED <<env, file_offset, nv_fp, nv_pos, chip, sent, faults,
                       envFailed, attempts>>
        /\ state \in {"NV_SEND_CMPL", "WRITE_BD_ADDR"}
    BY <1>4 DEF CbComplete
  <2>2. report' = <<"SUCCESS">> /\ Len(report') = 1 /\ report' # <<>> /\ ~nv_fp'
    BY <1>1, <2>1 DEF Inv, NvHandleMatchesState
  <2>3. TypeOK'
    <3>1. report' \in Seq({"SUCCESS", "FAIL"})
      BY <2>2
    <3> QED BY <1>1, <2>1, <2>2, <3>1 DEF TypeOK, States
  <2>4. NvHandleMatchesState' /\ ReplyMatchesState' /\ SilentAfterReport'
    BY <2>1, <2>2 DEF NvHandleMatchesState, ReplyMatchesState, SilentAfterReport, NoCmd
  <2>5. SuccessMeansConfigured'
    <3>1. chip = ChipOf(env.hw) /\ Contiguous /\ SentTo = FileEnd
      BY <2>1 DEF Inv, Download
    <3> QED BY <1>1, <2>1, <3>1, SentUnchanged DEF SuccessMeansConfigured
  <2>6. BlocksNumbered' /\ StallExplained' /\ FaultsExplained'
    BY <1>1, <2>1, <2>2, SentUnchanged
       DEF Inv, StallExplained, Stalled, FaultsExplained, Alive
  <2>7. Early' /\ Flight' /\ Started' /\ Download'
    BY <2>1 DEF Early, Flight, Started, Download
  <2> QED BY <2>3, <2>4, <2>5, <2>6, <2>7 DEF Inv
<1>5. CASE CbIgnored
  <2>1. /\ cmd' = NoCmd /\ faults' = faults \cup {"cmd_leak"} /\ state = "INIT"
        /\ UNCHANGED <<env, state, file_offset, nv_fp, nv_pos, chip, report, sent,
                       envFailed, attempts>>
    BY <1>5 DEF CbIgnored
  <2>2. TypeOK'
    BY <1>1, <2>1 DEF TypeOK, Faults
  <2>3. NvHandleMatchesState' /\ ReplyMatchesState' /\ SilentAfterReport'
    BY <1>1, <2>1 DEF Inv, NvHandleMatchesState, ReplyMatchesState, SilentAfterReport, NoCmd
  <2>4. "use_after_free" \in faults
    BY <1>1, <2>1 DEF Inv, ReplyMatchesState, TypeOK, Commands
  <2>5. env.hw = "6316" /\ ~Sendable(env.tlv)
    BY <1>1, <2>4 DEF FaultsExplained, Sendable
  <2>6. BlocksNumbered' /\ SuccessMeansConfigured'
    BY <1>1, <2>1, SentUnchanged DEF Inv, SuccessMeansConfigured
  <2>7. StallExplained'
    BY <2>1, <2>5 DEF StallExplained
  <2>8. FaultsExplained'
    BY <1>1, <2>1 DEF FaultsExplained, Alive
  <2>9. Early' /\ Flight' /\ Started' /\ Download'
    BY <2>1 DEF Early, Flight, Started, Download
  <2> QED BY <2>2, <2>3, <2>6, <2>7, <2>8, <2>9 DEF Inv
<1> QED BY <1>2, <1>3, <1>4, <1>5

-----------------------------------------------------------------------------
\* The invariant is inductive.
LEMMA NextInv == Inv /\ [Next]_vars => Inv'
<1> SUFFICES ASSUME Inv, [Next]_vars PROVE Inv'
  OBVIOUS
<1>1. CASE Next
  BY <1>1, ConfigStartStep, AdvanceStep, DownloadStep, QuietStep DEF Next, Callback
<1>2. CASE UNCHANGED vars
  <2>1. UNCHANGED <<env, state, file_offset, nv_fp, nv_pos, chip, cmd, report, sent,
                    faults, envFailed, attempts>>
    BY <1>2 DEF vars
  <2> QED BY <2>1 DEF Inv, TypeOK, NvHandleMatchesState, ReplyMatchesState, SilentAfterReport,
                      BlocksNumbered, SuccessMeansConfigured, FaultsExplained, StallExplained,
                      Stalled, Early, Flight, Started, Download, Contiguous, SentTo, FileEnd,
                      Alive
<1> QED BY <1>1, <1>2

\* The inductive invariant holds of every behaviour of the configuration.
THEOREM SpecInv == Spec => []Inv
BY InitInv, NextInv, PTL DEF Spec

\* Type correctness: hw_cfg_cb keeps its types, file_offset stays within a uint8_t, for every
\* file and any number of attempts.
THEOREM ConfigTypeCorrect == Spec => []TypeOK
<1>1. Inv => TypeOK BY DEF Inv
<1> QED BY <1>1, SpecInv, PTL

\* The nv file is open exactly in HW_CFG_NV_SEND and the stack hears of an attempt at most
\* once, with the state machine at rest.
THEOREM ConfigAtRestAfterReport == Spec => []AtRestAfterReport
<1>1. Inv => AtRestAfterReport BY DEF Inv, AtRestAfterReport
<1> QED BY <1>1, SpecInv, PTL

\* The state tells which command a reply answers, for every interleaving of attempts.
THEOREM ConfigReplyMatchesState == Spec => []ReplyMatchesState
<1>1. Inv => ReplyMatchesState BY DEF Inv
<1> QED BY <1>1, SpecInv, PTL

\* The NVDS commands of every download are numbered modulo 256.
THEOREM ConfigBlocksNumbered == Spec => []BlocksNumbered
<1>1. Inv => BlocksNumbered BY DEF Inv
<1> QED BY <1>1, SpecInv, PTL

\* SUCCESS is only reported after the whole file of the controller's chip was accepted in
\* order, whatever its length and however its entries fall into commands.
THEOREM ConfigSuccess == Spec => []SuccessMeansConfigured
<1>1. Inv => SuccessMeansConfigured BY DEF Inv
<1> QED BY <1>1, SpecInv, PTL

\* The memory errors of the callback need exactly the files and failures FaultsExplained
\* names.
THEOREM ConfigFaults == Spec => []FaultsExplained
<1>1. Inv => FaultsExplained BY DEF Inv
<1> QED BY <1>1, SpecInv, PTL

\* Without a failure outside the code, only a 6316 file that is not Sendable stalls the
\* configuration.
THEOREM ConfigStall == Spec => []StallExplained
<1>1. Inv => StallExplained BY DEF Inv
<1> QED BY <1>1, SpecInv, PTL
=============================================================================
