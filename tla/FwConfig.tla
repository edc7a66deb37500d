------------------------------ MODULE FwConfig ------------------------------
(***************************************************************************)
(* The firmware configuration of the controller: the state machine that    *)
(* scomm_vendor_config_start kicks off and scomm_vendor_config_callback     *)
(* drives, one call per HCI Command Complete event (scom_vendor.c).         *)
(*                                                                         *)
(*   RESET -> READ_LOCAL_VERSION -> NVDS ... NVDS -> [WRITE_BD_ADDR] -> ok   *)
(*                                                                         *)
(* The callback runs on the one thread of the stack that reads events, so   *)
(* a call is one atomic step.  The stack (alloc, xmit_cb, fwcfg_cb) and the *)
(* controller are external: an allocation, a transmission, an fopen or a    *)
(* command may fail, when EnvFails says so.                                 *)
(***************************************************************************)
EXTENDS Integers, Sequences

CONSTANTS
    TlvFiles,      \* candidate contents of sv6316.nvbin, see IsTlvFile
    BlkFiles,      \* candidate lengths in bytes of sv6160.nvbin
    MaxAttempts,   \* bound on the calls of scomm_vendor_config_start
    EnvFails       \* whether the stack, the file system and the controller may fail

NV_FILE_RD_BLOCK_SIZE == 252
HCI_CMD_MAX_LEN == 258

(***************************************************************************)
(* A 6316 file is a 4-byte header and a list of entries (3 bytes of tag     *)
(* and length, then the parameter).  at[k] is the file position after k     *)
(* entries; cut says that the file ends inside the parameter of the last;   *)
(* addr is the set of the entries that hold the Bluetooth address.          *)
(***************************************************************************)
IsTlvFile(f) ==
    /\ f.entries \in Nat
    /\ f.cut \in BOOLEAN
    /\ f.cut => f.entries > 0
    /\ f.at \in [0..f.entries -> Nat]
    /\ \A k \in 1..f.entries : f.at[k] - f.at[k-1] \in 3..258
    /\ f.addr \subseteq 1..f.entries

ASSUME TlvFilesAssumption == \A f \in TlvFiles : IsTlvFile(f)
ASSUME BlkFilesAssumption == BlkFiles \subseteq Nat
ASSUME MaxAttemptsAssumption == MaxAttempts \in Nat
ASSUME EnvFailsAssumption == EnvFails \in BOOLEAN

\* The answers of an external call: it may fail only when EnvFails.
Outcomes == IF EnvFails THEN {TRUE, FALSE} ELSE {TRUE}

States == {"INIT", "START", "READ_HCI_VERSION", "NV_SEND", "WRITE_BD_ADDR",
           "NV_SEND_CMPL"}
Commands == {"RESET", "READ_VERSION", "NVDS", "BD_ADDR"}
NoCmd == "none"
Chips == {"unknown", "6316", "6160"}
Faults == {"evt_leak", "cmd_leak", "file_leak", "use_after_free",
           "double_free", "fclose_null", "peek_overrun"}

VARIABLES
    env,          \* the controller's chip, the two files, whether the AP gives an address
    state,        \* hw_cfg_cb.state
    file_offset,  \* hw_cfg_cb.file_offset, a uint8_t
    nv_fp,        \* hw_cfg_cb.nv_fp # NULL
    nv_pos,       \* position in the file: entries (6316) or bytes (6160) read
    chip,         \* chip_version
    cmd,          \* the command whose Command Complete is awaited
    report,       \* results given to fwcfg_cb in this attempt
    sent,         \* NVDS commands accepted by xmit_cb in this attempt
    faults,       \* resource and memory errors so far
    envFailed,    \* something external failed in this attempt
    attempts      \* calls of scomm_vendor_config_start

vars == <<env, state, file_offset, nv_fp, nv_pos, chip, cmd, report, sent,
          faults, envFailed, attempts>>

Envs == [hw : {"6316", "6160", "other"}, tlv : TlvFiles, blk : BlkFiles, ap : BOOLEAN]

Patches == {"none", "addr", "flag"}
NvCommand == [off : 0..255, from : Nat, to : Nat, patch : Patches]

Init ==
    /\ env \in Envs
    /\ state = "INIT" /\ file_offset = 0 /\ nv_fp = FALSE /\ nv_pos = 0
    /\ chip = "unknown" /\ cmd = NoCmd /\ report = <<>> /\ sent = <<>>
    /\ faults = {} /\ envFailed = FALSE /\ attempts = 0

\* fclose(NULL) ends the process.
Alive == "fclose_null" \notin faults

-----------------------------------------------------------------------------
\* xmit_cb: the stack takes the command, or refuses it and leaves the buffer to the caller.
Xmit(op, ok) == cmd' = IF ok THEN op ELSE NoCmd

\* A refused command whose result the code ignores: the buffer is never freed.
LeakUnless(ok) == IF ok THEN {} ELSE {"cmd_leak"}

\* Slips: the counter does not wrap like a uint8_t, or wraps one too early.
NextOffsetWide(off) == off + 1
NextOffsetEarly(off) == (off + 1) % 255

NextOffset(off) == (off + 1) % 256

(***************************************************************************)
(* scomm_vendor_config_start: forget the previous attempt (an open nv_fp     *)
(* included), arm the state machine, send HCI_RESET.  The stack starts a     *)
(* new attempt only after it closed the ports, so no reply to an earlier     *)
(* command can still arrive.                                                *)
(***************************************************************************)
ConfigStart ==
    /\ Alive
    /\ attempts < MaxAttempts
    /\ \E alloc, ok \in Outcomes :
        /\ state' = IF alloc THEN "START" ELSE "INIT"
        /\ Xmit("RESET", alloc /\ ok)
        /\ envFailed' = ~(alloc /\ ok)
        /\ faults' = faults \cup (IF nv_fp THEN {"file_leak"} ELSE {})
                            \cup (IF alloc THEN LeakUnless(ok) ELSE {})
    /\ file_offset' = 0 /\ nv_fp' = FALSE /\ nv_pos' = 0
    /\ report' = <<>> /\ sent' = <<>>
    /\ attempts' = attempts + 1
    /\ UNCHANGED <<env, chip>>

\* A Command Complete event reaches scomm_vendor_config_callback.
Reply == Alive /\ cmd # NoCmd

\* A failure status, or no buffer for the next command: the event is freed, nothing else happens.
CbError ==
    /\ Reply
    /\ FALSE \in Outcomes
    /\ cmd' = NoCmd
    /\ envFailed' = TRUE
    /\ UNCHANGED <<env, state, file_offset, nv_fp, nv_pos, chip, report, sent,
                   faults, attempts>>

\* Slip: the state is not advanced after the version request.
CbStartNoAdvance ==
    /\ Reply
    /\ state = "START"
    /\ \E ok \in Outcomes :
        /\ Xmit("READ_VERSION", ok)
        /\ envFailed' = (envFailed \/ ~ok)
        /\ faults' = faults \cup LeakUnless(ok)
    /\ UNCHANGED <<env, state, file_offset, nv_fp, nv_pos, chip, report, sent, attempts>>

\* case HW_CFG_START
CbStart ==
    /\ Reply
    /\ state = "START"
    /\ \E ok \in Outcomes :
        /\ Xmit("READ_VERSION", ok)
        /\ envFailed' = (envFailed \/ ~ok)
        /\ faults' = faults \cup LeakUnless(ok)
    /\ state' = "READ_HCI_VERSION"
    /\ UNCHANGED <<env, file_offset, nv_fp, nv_pos, chip, report, sent, attempts>>

-----------------------------------------------------------------------------
\* Slip: the 3 bytes of tag and length of an entry are left out of the test for 252.
RunFitsNoHeader(f, i, j) == j = i \/ f.at[j] - f.at[i] - 3 <= NV_FILE_RD_BLOCK_SIZE

\* 6316: the entries i+1..j fit one command; RunEnd is the longest such run.
RunFits(f, i, j) == f.at[j] - f.at[i] <= NV_FILE_RD_BLOCK_SIZE

RunEnd(f, i) ==
    CHOOSE j \in i..f.entries :
        /\ RunFits(f, i, j)
        /\ \A k \in (j+1)..f.entries : ~RunFits(f, i, k)

\* The tag and length of the entry after the run are copied into the command buffer,
\* after its 5 bytes of header, before the code finds that the entry does not fit.
PeekOverruns(f, i, j) ==
    j < f.entries /\ 5 + (f.at[j] - f.at[i]) + 3 > HCI_CMD_MAX_LEN

(***************************************************************************)
(* The parameter of the last entry is cut short: scomm_vendor_init_err       *)
(* frees the buffer and closes the file, then the break only leaves the      *)
(* inner loop and the freed buffer is sent; if that is refused, init_err     *)
(* runs a second time.                                                      *)
(***************************************************************************)
TlvTruncated(i, off, ok) ==
    /\ env.tlv.cut
    /\ RunEnd(env.tlv, i) = env.tlv.entries
    /\ Xmit("NVDS", ok)
    /\ state' = "INIT" /\ nv_fp' = FALSE
    /\ nv_pos' = env.tlv.entries
    /\ file_offset' = NextOffset(off)
    /\ faults' = faults \cup {"use_after_free"}
                        \cup (IF ok THEN {} ELSE {"double_free", "fclose_null"})
    /\ envFailed' = (envFailed \/ ~ok)
    /\ UNCHANGED sent

\* The address in an entry of the run is replaced by that of skw_addr_get.
TlvPatch(f, i, j) == IF f.addr \cap ((i+1)..j) # {} THEN "addr" ELSE "none"

\* Slip: without the fseek the entry that did not fit is skipped.
TlvRunNoSeek(i, off, ok) ==
    LET f == env.tlv
        j == RunEnd(f, i)
        next == IF j < f.entries THEN j + 1 ELSE j
    IN  /\ ~(f.cut /\ j = f.entries)
        /\ j > i
        /\ Xmit("NVDS", ok)
        /\ state' = IF ~ok THEN "INIT"
                    ELSE IF next = f.entries THEN "WRITE_BD_ADDR" ELSE "NV_SEND"
        /\ nv_fp' = (ok /\ next < f.entries)
        /\ nv_pos' = next
        /\ file_offset' = NextOffset(off)
        /\ sent' = IF ok THEN Append(sent, [off |-> off, from |-> i, to |-> j,
                                            patch |-> TlvPatch(f, i, j)])
                         ELSE sent
        /\ faults' = faults
        /\ envFailed' = (envFailed \/ ~ok)

\* A run of at least one entry is sent; a refusal ends the attempt, the end of the file the download.
TlvRun(i, off, ok) ==
    LET f == env.tlv
        j == RunEnd(f, i)
    IN  /\ ~(f.cut /\ j = f.entries)
        /\ j > i
        /\ Xmit("NVDS", ok)
        /\ state' = IF ~ok THEN "INIT"
                    ELSE IF j = f.entries THEN "WRITE_BD_ADDR" ELSE "NV_SEND"
        /\ nv_fp' = (ok /\ j < f.entries)
        /\ nv_pos' = j
        /\ file_offset' = NextOffset(off)
        /\ sent' = IF ok THEN Append(sent, [off |-> off, from |-> i, to |-> j,
                                            patch |-> TlvPatch(f, i, j)])
                         ELSE sent
        /\ faults' = faults \cup (IF PeekOverruns(f, i, j) THEN {"peek_overrun"} ELSE {})
        /\ envFailed' = (envFailed \/ ~ok)

\* Nothing fits (an entry larger than a command, or no entry at all): nothing is sent,
\* the command buffer is dropped and no reply will call the code again.
TlvNothing(i, off) ==
    LET f == env.tlv
    IN  /\ ~(f.cut /\ RunEnd(f, i) = f.entries)
        /\ RunEnd(f, i) = i
        /\ cmd' = NoCmd
        /\ state' = IF i = f.entries THEN "WRITE_BD_ADDR" ELSE "NV_SEND"
        /\ nv_fp' = (i < f.entries)
        /\ nv_pos' = i
        /\ file_offset' = off
        /\ faults' = faults \cup {"cmd_leak"}
        /\ UNCHANGED <<sent, envFailed>>

TlvSend(i, off) ==
    \/ \E ok \in Outcomes : TlvTruncated(i, off, ok) \/ TlvRun(i, off, ok)
    \/ TlvNothing(i, off)

\* 6160: the next block of up to 252 bytes.  A short block is the last one, and then a
\* refused command closes the file twice.
BlockLen(pos) ==
    IF env.blk - pos > NV_FILE_RD_BLOCK_SIZE THEN NV_FILE_RD_BLOCK_SIZE ELSE env.blk - pos

BlkPatch(off) == CASE off = 0 -> "addr" [] off = 1 -> "flag" [] OTHER -> "none"

BlkSend(pos, off) ==
    \E ok \in Outcomes :
        LET n == BlockLen(pos)
            last == n < NV_FILE_RD_BLOCK_SIZE
        IN  /\ Xmit("NVDS", ok)
            /\ state' = IF ~ok THEN "INIT" ELSE IF last THEN "WRITE_BD_ADDR" ELSE "NV_SEND"
            /\ nv_fp' = (ok /\ ~last)
            /\ nv_pos' = pos + n
            /\ file_offset' = NextOffset(off)
            /\ sent' = IF ok THEN Append(sent, [off |-> off, from |-> pos, to |-> pos + n,
                                                patch |-> BlkPatch(off)])
                             ELSE sent
            /\ faults' = faults \cup (IF ~ok /\ last THEN {"fclose_null"} ELSE {})
            /\ envFailed' = (envFailed \/ ~ok)

NvSend(c, pos, off) ==
    \/ c = "6316" /\ TlvSend(pos, off)
    \/ c = "6160" /\ BlkSend(pos, off)

\* Every chip but the 6316 is configured as a 6160.
ChipOf(hw) == IF hw = "6316" THEN "6316" ELSE "6160"

\* case HW_CFG_READ_HCI_VERSION, the file cannot be opened: the early return frees neither
\* the command buffer nor the event.
CbVersionNoFile ==
    /\ Reply
    /\ state = "READ_HCI_VERSION"
    /\ FALSE \in Outcomes
    /\ cmd' = NoCmd
    /\ chip' = ChipOf(env.hw)
    /\ state' = "INIT"
    /\ report' = Append(report, "FAIL")
    /\ faults' = faults \cup {"evt_leak", "cmd_leak"}
    /\ envFailed' = TRUE
    /\ UNCHANGED <<env, file_offset, nv_fp, nv_pos, sent, attempts>>

\* case HW_CFG_READ_HCI_VERSION, which falls through to HW_CFG_NV_SEND.
CbVersion ==
    /\ Reply
    /\ state = "READ_HCI_VERSION"
    /\ chip' = ChipOf(env.hw)
    /\ NvSend(ChipOf(env.hw), 0, 0)
    /\ UNCHANGED <<env, report, attempts>>

\* case HW_CFG_NV_SEND
CbNvSend ==
    /\ Reply
    /\ state = "NV_SEND"
    /\ NvSend(chip, nv_pos, file_offset)
    /\ UNCHANGED <<env, chip, report, attempts>>

-----------------------------------------------------------------------------
\* Slip: the address is taken from the AP but the command is not sent.
CbBdAddrNoXmit ==
    /\ Reply
    /\ state = "WRITE_BD_ADDR"
    /\ env.ap
    /\ cmd' = NoCmd
    /\ state' = "NV_SEND_CMPL"
    /\ UNCHANGED <<env, file_offset, nv_fp, nv_pos, chip, report, sent, faults,
                   envFailed, attempts>>

\* case HW_CFG_WRITE_BD_ADDR with an address from the AP
CbBdAddr ==
    /\ Reply
    /\ state = "WRITE_BD_ADDR"
    /\ env.ap
    /\ \E ok \in Outcomes :
        /\ Xmit("BD_ADDR", ok)
        /\ envFailed' = (envFailed \/ ~ok)
        /\ faults' = faults \cup LeakUnless(ok)
    /\ state' = "NV_SEND_CMPL"
    /\ UNCHANGED <<env, file_offset, nv_fp, nv_pos, chip, report, sent, attempts>>

\* Slips: the state is not reset, or the stack is not told.
CbCompleteNoReset ==
    /\ Reply
    /\ \/ state = "NV_SEND_CMPL"
       \/ state = "WRITE_BD_ADDR" /\ ~env.ap
    /\ cmd' = NoCmd
    /\ report' = Append(report, "SUCCESS")
    /\ UNCHANGED <<env, state, file_offset, nv_fp, nv_pos, chip, sent, faults,
                   envFailed, attempts>>

CbCompleteSilent ==
    /\ Reply
    /\ \/ state = "NV_SEND_CMPL"
       \/ state = "WRITE_BD_ADDR" /\ ~env.ap
    /\ cmd' = NoCmd
    /\ state' = "INIT"
    /\ UNCHANGED <<env, file_offset, nv_fp, nv_pos, chip, report, sent, faults,
                   envFailed, attempts>>

\* case HW_CFG_NV_SEND_CMPL, and HW_CFG_WRITE_BD_ADDR without an address, which falls through
CbComplete ==
    /\ Reply
    /\ \/ state = "NV_SEND_CMPL"
       \/ state = "WRITE_BD_ADDR" /\ ~env.ap
    /\ cmd' = NoCmd
    /\ state' = "INIT"
    /\ report' = Append(report, "SUCCESS")
    /\ UNCHANGED <<env, file_offset, nv_fp, nv_pos, chip, sent, faults,
                   envFailed, attempts>>

\* A reply in a state without a case: the buffer of the next command is dropped.
CbIgnored ==
    /\ Reply
    /\ state = "INIT"
    /\ cmd' = NoCmd
    /\ faults' = faults \cup {"cmd_leak"}
    /\ UNCHANGED <<env, state, file_offset, nv_fp, nv_pos, chip, report, sent,
                   envFailed, attempts>>

Callback ==
    \/ CbStart \/ CbVersion \/ CbVersionNoFile \/ CbNvSend
    \/ CbBdAddr \/ CbComplete \/ CbIgnored \/ CbError

Next == ConfigStart \/ Callback

\* The controller answers every command it was sent.
Fairness == WF_vars(Callback)

Spec == Init /\ [][Next]_vars
FairSpec == Spec /\ Fairness

-----------------------------------------------------------------------------
(* Properties *)

\* Every variable of the configuration has its type; hw_cfg_cb.file_offset stays a uint8_t.
TypeOK ==
    /\ env \in Envs
    /\ state \in States
    /\ file_offset \in 0..255
    /\ nv_fp \in BOOLEAN
    /\ nv_pos \in Nat
    /\ chip \in Chips
    /\ cmd \in Commands \cup {NoCmd}
    /\ report \in Seq({"SUCCESS", "FAIL"})
    /\ sent \in Seq(NvCommand)
    /\ faults \subseteq Faults
    /\ envFailed \in BOOLEAN
    /\ attempts \in 0..MaxAttempts

\* The nv file is open exactly while the download runs: no path out of HW_CFG_NV_SEND
\* keeps the handle and no path into it lacks one.
NvHandleMatchesState == nv_fp <=> state = "NV_SEND"

\* scomm_vendor_config_callback never looks at the opcode it is called for: the state alone
\* has to tell which reply this is.  Only the reply to the freed buffer of a truncated file
\* arrives in a state that does not expect it.
ReplyMatchesState ==
    Alive =>
        /\ cmd = "RESET" => state = "START"
        /\ cmd = "READ_VERSION" => state = "READ_HCI_VERSION"
        /\ cmd = "NVDS" => \/ state \in {"NV_SEND", "WRITE_BD_ADDR"}
                           \/ state = "INIT" /\ "use_after_free" \in faults
        /\ cmd = "BD_ADDR" => state = "NV_SEND_CMPL"

\* The stack hears of an attempt at most once, and when it does the state machine is at
\* rest: no command is in flight, no file is open.
SilentAfterReport ==
    report # <<>> => Len(report) = 1 /\ state = "INIT" /\ cmd = NoCmd /\ ~nv_fp

\* Both: the open file and the report agree with the state at every reply.
AtRestAfterReport == NvHandleMatchesState /\ SilentAfterReport

\* The block number in every NVDS command is its place in the download modulo 256; blocks 0
\* and 1 of a 6160 file, and only the blocks whose number wrapped to 0 or 1, are patched.
BlocksNumbered ==
    \A k \in 1..Len(sent) :
        /\ sent[k].off = (k - 1) % 256
        /\ chip = "6160" => sent[k].patch = BlkPatch((k - 1) % 256)

\* The k-th command starts where the one before it ended.
Contiguous == \A k \in 1..Len(sent) : sent[k].from = IF k = 1 THEN 0 ELSE sent[k-1].to
SentTo == IF sent = <<>> THEN 0 ELSE sent[Len(sent)].to
FileEnd == IF chip = "6316" THEN env.tlv.entries ELSE env.blk

\* BT_VND_OP_RESULT_SUCCESS means that the controller accepted the whole file of its own
\* chip, in order, without a gap or a repetition, and that nothing failed on the way.
SuccessMeansConfigured ==
    report = <<"SUCCESS">> =>
        /\ chip = ChipOf(env.hw)
        /\ Contiguous
        /\ SentTo = FileEnd
        /\ ~envFailed

\* Entries that all fit a command and none of which is cut: the files the code can download.
Sendable(f) ==
    /\ f.entries > 0
    /\ ~f.cut
    /\ \A k \in 1..f.entries : RunFits(f, k - 1, k)

\* The memory errors and what they need: freed buffers are only touched for a truncated 6316
\* file, fclose(NULL) needs a refused command at the end of a file, the buffer is overrun
\* only behind a run of 251 or 252 bytes, and a file is only dropped by a new attempt.
FaultsExplained ==
    /\ faults \cap {"use_after_free", "double_free"} # {} => env.hw = "6316" /\ env.tlv.cut
    /\ "fclose_null" \in faults =>
        /\ envFailed
        /\ \/ {"use_after_free", "double_free"} \subseteq faults
           \/ chip = "6160" /\ nv_pos = env.blk
    /\ "peek_overrun" \in faults =>
        /\ env.hw = "6316"
        /\ \E i, j \in 0..env.tlv.entries :
               j < env.tlv.entries /\ env.tlv.at[j] - env.tlv.at[i] \in {251, 252}
    /\ "file_leak" \in faults => attempts > 1

\* The attempt is over as far as the code is concerned, and nobody was told.
Stalled == attempts > 0 /\ cmd = NoCmd /\ report = <<>>

\* The configuration never gets stuck without a report unless something external failed or
\* the 6316 file has no entry, an entry too large for a command, or a cut entry.
StallExplained ==
    Stalled => envFailed \/ (env.hw = "6316" /\ ~Sendable(env.tlv))

\* With a file the code can download, every attempt that gets its RESET out ends in
\* BT_VND_OP_RESULT_SUCCESS, unless the stack, the file system or the controller fails.
ConfigCompletes ==
    (cmd = "RESET" /\ (env.hw = "6316" => Sendable(env.tlv)))
        ~> (report = <<"SUCCESS">> \/ envFailed \/ ~Alive)
=============================================================================
