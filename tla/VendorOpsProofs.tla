--------------------------- MODULE VendorOpsProofs ---------------------------
(* Proofs about VendorOps: for every set of configuration files, any number of sessions and   *)
(* deaths of the process, and whatever may fail.                                              *)
EXTENDS VendorOps, TLAPS, FiniteSetTheorems

(***************************************************************************)
(* The inductive invariant, in three parts that each build on the first.     *)
(***************************************************************************)
Opening == {"uart", "ports", "classify", "opened"}

Types ==
    /\ conf \in Confs
    /\ pc \in {"down", "init", "up"} \cup Opening
    /\ named \subseteq Port
    /\ idx \in 0..4
    /\ port \in [Port -> {"closed", "opened", "running"}]
    /\ stack \in Port \cup {NoPort}
    /\ socketFailed \in BOOLEAN
    /\ btpw \in {"none", "open", "stale"}
    /\ gen \in {"idle", "start", "write"}
    /\ (pc = "init") <=> (gen # "idle")

\* The UART bit is what the configuration says, and it never meets that of SDIO.
UartConfigured ==
    /\ pc = "down" => transtype = {}
    /\ pc # "down" => (Uart <=> (conf # NoConf /\ conf.uart /\ ~conf.broken))
    /\ Uart => "SDIO" \notin transtype
    /\ pc = "uart" => Uart
    /\ pc \in {"ports", "classify"} => ~Uart

\* The ports that the loop has passed are running, unless a socket failed.
PassedRun == \A p \in named : p < idx => port[p] = "running" \/ socketFailed

\* How far USERIAL_OPEN has come with the ports and the socket of the stack.
SocketsOpened ==
    /\ named # {} => CMDEVT \in named
    /\ pc \in {"down", "init", "up", "uart"} => stack = NoPort
    /\ pc \in {"ports", "classify"} =>
        /\ PassedRun
        /\ idx = 0 => stack = NoPort
        /\ idx > 0 /\ named # {} => stack # NoPort \/ socketFailed
    /\ pc = "classify" => idx \in Port
    /\ pc = "opened" /\ stack # NoPort =>
        \/ Uart /\ port[CMDEVT] = "running"
        \/ ~Uart /\ idx # 0 /\ Transport(idx) \in transtype /\ PassedRun

PortsInv == Types /\ UartConfigured /\ SocketsOpened /\ StackGetsFirstPort

\* btpw_fp is only ever used by a UART beside a boot device, and the only way past its
\* reopening is a boot device that failed to open.
BtpwInv ==
    /\ btpw # "none" => conf # NoConf /\ conf.uart /\ ~conf.broken /\ ~conf.only
    /\ pc \in Opening /\ btpw = "stale" => "boot" \in failed
    /\ BtpwClosedOnce

NoneFailed == failed \cap {"fopen", "fwrite", "ap"} = {}

\* As long as nothing failed, the address file and the controllers' address go together.
AddrKept ==
    /\ bdaddr_valid
    /\ file \in Laps \cup {NoFile, Empty}
    /\ gen = "write" => file = Empty
    /\ pc \in {"up"} \cup Opening => file # NoFile
    /\ ap => given \subseteq {"ap"}
    /\ ~ap =>
        /\ file = NoFile \/ gen = "write" => given = {}
        /\ file = Empty /\ gen # "write" =>
            torn /\ bdaddr_lap = Default /\ given \subseteq {Default}
        /\ file \in Laps =>
            /\ given \subseteq {file}
            /\ pc \in {"up"} \cup Opening => bdaddr_lap = file

AddrInv == NoneFailed => AddrKept

Inv == PortsInv /\ BtpwInv /\ AddrInv

USE DEF Port, CMDEVT, ACL, AUDIO, ISO, NoPort

\* A configuration file is one of the records, or there is none.
LEMMA ConfFields ==
    ASSUME conf \in Confs, conf # NoConf
    PROVE  conf.nodes \in 0..4 /\ conf.uart \in BOOLEAN /\ conf.broken \in BOOLEAN /\ conf.only \in BOOLEAN
BY ConfsAssumption

-----------------------------------------------------------------------------
LEMMA InitInv == Init => Inv
<1> SUFFICES ASSUME Init PROVE Inv
  OBVIOUS
<1>1. Types
  <2>1. socketFailed \in BOOLEAN
    BY DEF Init
  <2>2. conf \in Confs /\ pc = "down" /\ named = {} /\ idx = 0 /\ stack = NoPort /\ btpw = "none"
        /\ gen = "idle" /\ port \in [Port -> {"closed", "opened", "running"}]
    BY DEF Init, AddrInit
  <2> QED BY <2>1, <2>2 DEF Types, Opening
<1>2. UartConfigured /\ SocketsOpened /\ StackGetsFirstPort
  BY DEF Init, UartConfigured, SocketsOpened, StackGetsFirstPort, Uart
<1>3. BtpwInv
  BY DEF Init, BtpwInv, BtpwClosedOnce, Opening
<1>4. AddrInv
  BY LapsAssumption DEF Init, AddrInit, AddrInv, AddrKept, Opening, NoFile, Empty, Default
<1> QED BY <1>1, <1>2, <1>3, <1>4 DEF Inv, PortsInv

-----------------------------------------------------------------------------
(* The ports and the transport *)

\* Opening one device keeps the socket of the stack right.
LEMMA OpenDeviceFacts ==
    ASSUME Types, StackGetsFirstPort, NEW p \in Port, NEW opened \in BOOLEAN,
           NEW paired \in BOOLEAN, OpenDevice(p, opened, paired),
           stack = NoPort => p = CMDEVT \/ socketFailed
    PROVE  /\ port' \in [Port -> {"closed", "opened", "running"}]
           /\ stack' \in Port \cup {NoPort}
           /\ StackGetsFirstPort'
           /\ \A q \in Port \ {p} : port'[q] = port[q]
           /\ socketFailed => socketFailed'
           /\ ~opened => stack' = stack /\ socketFailed' = socketFailed
           /\ opened => port'[p] = "running" \/ socketFailed'
           /\ opened => stack' # NoPort \/ socketFailed'
           /\ stack' # NoPort /\ stack = NoPort => port'[p] = "running"
<1> USE DEF OpenDevice, TakeFd, Types, StackGetsFirstPort
<1>1. port' \in [Port -> {"closed", "opened", "running"}] /\ \A q \in Port \ {p} : port'[q] = port[q]
  OBVIOUS
<1>2. CASE opened /\ paired
  BY <1>1, <1>2
<1>3. CASE opened /\ ~paired
  BY <1>1, <1>3
<1>4. CASE ~opened
  BY <1>1, <1>4
<1> QED BY <1>2, <1>3, <1>4

LEMMA OkBoolean == ASSUME NEW c PROVE Ok(c) \subseteq BOOLEAN
BY DEF Ok

LEMMA OpenUartStep == ASSUME PortsInv, OpenUart PROVE PortsInv'
<1>1. PICK opened \in BOOLEAN, paired \in BOOLEAN : OpenDevice(CMDEVT, opened, paired)
  BY OkBoolean DEF OpenUart
<1>2. stack = NoPort
  BY DEF OpenUart, PortsInv, SocketsOpened
<1>3. /\ port' \in [Port -> {"closed", "opened", "running"}]
      /\ stack' \in Port \cup {NoPort}
      /\ StackGetsFirstPort'
      /\ stack' # NoPort => port'[CMDEVT] = "running"
  BY <1>1, <1>2, OpenDeviceFacts DEF PortsInv
<1>4. Types'
  <2>1. socketFailed' \in BOOLEAN
    BY <1>1 DEF OpenDevice
  <2> QED BY <1>3, <2>1 DEF PortsInv, Types, OpenUart, bounds, addrVars, Opening
<1>5. UartConfigured'
  BY DEF PortsInv, UartConfigured, OpenUart, bounds, Uart
<1>6. SocketsOpened'
  BY <1>3, <1>5 DEF PortsInv, SocketsOpened, UartConfigured, OpenUart, Uart
<1> QED BY <1>3, <1>4, <1>5, <1>6 DEF PortsInv

LEMMA OpenPortStep == ASSUME PortsInv, OpenPort PROVE PortsInv'
<1>1. /\ pc = "ports" /\ idx \in Port
      /\ PassedRun
      /\ idx = 0 => stack = NoPort
      /\ idx > 0 /\ named # {} => stack # NoPort \/ socketFailed
      /\ named' = named /\ transtype' = transtype /\ conf' = conf /\ btpw' = btpw /\ gen' = gen
      /\ Types /\ UartConfigured /\ StackGetsFirstPort
      /\ named # {} => CMDEVT \in named
  BY DEF OpenPort, PortsInv, SocketsOpened, bounds, addrVars
<1>2. pc' \in {"ports", "classify"} /\ UartConfigured'
  BY <1>1 DEF OpenPort, UartConfigured, Uart
<1>3. CASE idx \notin named
  <2>1. idx' = idx + 1 /\ pc' = pc /\ port' = port /\ stack' = stack /\ socketFailed' = socketFailed
    BY <1>3 DEF OpenPort
  <2>2. Types'
    BY <1>1, <2>1 DEF Types, Opening
  <2>3. SocketsOpened'
    <3>1. PassedRun'
      BY <1>1, <1>3, <2>1 DEF PassedRun, Types
    <3> QED BY <1>1, <1>3, <2>1, <3>1 DEF SocketsOpened
  <2> QED BY <1>1, <1>2, <2>1, <2>2, <2>3 DEF PortsInv, StackGetsFirstPort
<1>4. CASE idx \in named
  <2>1. PICK opened \in BOOLEAN, paired \in BOOLEAN :
            /\ OpenDevice(idx, opened, paired)
            /\ IF opened THEN idx' = idx + 1 /\ UNCHANGED pc ELSE pc' = "classify" /\ UNCHANGED idx
    <3>1. Opens(idx) \subseteq BOOLEAN /\ Ok("socket") \subseteq BOOLEAN
      BY OkBoolean DEF Opens
    <3> QED BY <1>4, <3>1 DEF OpenPort
  <2>2. stack = NoPort => idx = CMDEVT \/ socketFailed
    BY <1>1, <1>4
  <2>3. /\ port' \in [Port -> {"closed", "opened", "running"}]
        /\ stack' \in Port \cup {NoPort}
        /\ StackGetsFirstPort'
        /\ \A q \in Port \ {idx} : port'[q] = port[q]
        /\ socketFailed => socketFailed'
        /\ ~opened => stack' = stack /\ socketFailed' = socketFailed
        /\ opened => port'[idx] = "running" \/ socketFailed'
        /\ opened => stack' # NoPort \/ socketFailed'
    BY <1>1, <2>1, <2>2, OpenDeviceFacts
  <2>4. Types'
    <3>1. socketFailed' \in BOOLEAN
      BY <2>1 DEF OpenDevice
    <3>2. idx' \in 0..4
      BY <1>1, <2>1
    <3> QED BY <1>1, <1>2, <2>3, <3>1, <3>2 DEF Types, Opening
  <2>5. CASE opened
    <3>1. idx' = idx + 1 /\ pc' = "ports"
      BY <1>1, <2>1, <2>5
    <3>2. PassedRun'
      <4> SUFFICES ASSUME NEW p \in named, p < idx + 1
                   PROVE  port'[p] = "running" \/ socketFailed'
        BY <1>1, <3>1 DEF PassedRun
      <4>1. p \in Port
        BY <1>1 DEF Types
      <4>2. CASE p = idx
        BY <2>3, <2>5, <4>2
      <4>3. CASE p # idx
        BY <1>1, <2>3, <4>1, <4>3 DEF PassedRun
      <4> QED BY <4>2, <4>3
    <3>3. SocketsOpened'
      BY <1>1, <2>3, <2>5, <3>1, <3>2 DEF SocketsOpened
    <3> QED BY <1>2, <2>3, <2>4, <3>3 DEF PortsInv
  <2>6. CASE ~opened
    <3>1. idx' = idx /\ pc' = "classify"
      BY <2>1, <2>6
    <3>2. PassedRun'
      <4> SUFFICES ASSUME NEW p \in named, p < idx
                   PROVE  port'[p] = "running" \/ socketFailed'
        BY <1>1, <3>1 DEF PassedRun
      <4>1. p \in Port \ {idx}
        BY <1>1 DEF Types
      <4> QED BY <1>1, <2>3, <4>1 DEF PassedRun
    <3>3. SocketsOpened'
      BY <1>1, <2>3, <2>6, <3>1, <3>2 DEF SocketsOpened
    <3> QED BY <1>2, <2>3, <2>4, <3>3 DEF PortsInv
  <2> QED BY <2>5, <2>6
<1> QED BY <1>3, <1>4

LEMMA OpenEndStep == ASSUME PortsInv, OpenEnd PROVE PortsInv'
<1>1. Transport(idx) \in {"USB", "SDIO"}
  BY DEF Transport
<1>2. ~Uart /\ ~Uart'
  BY <1>1 DEF PortsInv, UartConfigured, OpenEnd, Uart
<1>3. Types'
  BY DEF PortsInv, Types, OpenEnd, bounds, addrVars, Opening
<1>4. UartConfigured'
  BY <1>2 DEF PortsInv, UartConfigured, OpenEnd, bounds
<1>5. SocketsOpened'
  <2>1. PassedRun' /\ Transport(idx)' \in transtype' /\ (idx' = 0 => stack' = NoPort)
    BY DEF PortsInv, SocketsOpened, OpenEnd, PassedRun, Transport
  <2>2. named' # {} => CMDEVT \in named'
    BY DEF PortsInv, SocketsOpened, OpenEnd
  <2> QED BY <1>2, <2>1, <2>2 DEF SocketsOpened, OpenEnd, Transport
<1>6. StackGetsFirstPort'
  BY DEF PortsInv, StackGetsFirstPort, OpenEnd
<1> QED BY <1>3, <1>4, <1>5, <1>6 DEF PortsInv

LEMMA OpenBootStep == ASSUME PortsInv, OpenBoot PROVE PortsInv'
<1>1. /\ pc = "up" /\ stack = NoPort /\ stack' = NoPort
      /\ idx' = 0 /\ socketFailed' \in BOOLEAN
      /\ transtype' = transtype /\ named' = named /\ port' = port /\ conf' = conf /\ gen' = gen
  BY DEF PortsInv, SocketsOpened, OpenBoot, addrVars
<1>2. /\ pc' \in {"opened", "uart", "ports"}
      /\ pc' = "uart" => Uart
      /\ pc' = "ports" => ~Uart
  BY DEF OpenBoot
<1>3. btpw' \in {"none", "open", "stale"}
  BY DEF OpenBoot, BtpwAfter, PortsInv, Types
<1>4. Types'
  BY <1>1, <1>2, <1>3 DEF PortsInv, Types, Opening
<1>5. UartConfigured'
  BY <1>1, <1>2 DEF PortsInv, UartConfigured, Uart
<1>6. SocketsOpened'
  BY <1>1, <1>2 DEF PortsInv, SocketsOpened, PassedRun, Types
<1> QED BY <1>1, <1>4, <1>5, <1>6 DEF PortsInv, StackGetsFirstPort

LEMMA PortsNext == ASSUME PortsInv, [Next]_vars PROVE PortsInv'
<1>1. CASE InitCall
  <2>1. named' \subseteq Port /\ (named' # {} => CMDEVT \in named')
    <3>1. CASE conf = NoConf
      BY <1>1, <3>1 DEF InitCall
    <3>2. CASE conf # NoConf
      BY <1>1, <3>2, ConfFields DEF InitCall, PortsInv, Types
    <3> QED BY <3>1, <3>2
  <2>2. Types'
    BY <1>1, <2>1 DEF InitCall, PortsInv, Types, bounds, Opening
  <2>3. UartConfigured'
    <3>1. CASE conf = NoConf
      BY <1>1, <3>1 DEF InitCall, PortsInv, UartConfigured, bounds, Uart
    <3>2. CASE conf # NoConf
      BY <1>1, <3>2, ConfFields DEF InitCall, PortsInv, Types, UartConfigured, bounds, Uart
    <3> QED BY <3>1, <3>2
  <2>4. SocketsOpened' /\ StackGetsFirstPort'
    BY <1>1, <2>1 DEF InitCall, PortsInv, SocketsOpened, StackGetsFirstPort
  <2> QED BY <2>2, <2>3, <2>4 DEF PortsInv
<1>2. CASE InitAddr
  <2>1. gen \in {"start", "write"} /\ gen' \in {"idle", "write"}
    BY <1>2 DEF InitAddr, GenOpen, GenWrite
  <2>2. Types'
    BY <1>2, <2>1 DEF InitAddr, PortsInv, Types, bounds, Opening
  <2>3. UartConfigured'
    BY <1>2 DEF InitAddr, PortsInv, UartConfigured, bounds, Uart
  <2>4. SocketsOpened' /\ StackGetsFirstPort'
    BY <1>2 DEF InitAddr, PortsInv, SocketsOpened, StackGetsFirstPort
  <2> QED BY <2>2, <2>3, <2>4 DEF PortsInv
<1>3. CASE FwCfg
  BY <1>3 DEF FwCfg, GetAddr, opVars, bounds, PortsInv, Types, UartConfigured, Uart, SocketsOpened,
              PassedRun, StackGetsFirstPort
<1>4. CASE Close
  <2>1. Types'
    BY <1>4 DEF Close, PortsInv, Types, bounds, addrVars, Opening
  <2>2. UartConfigured' /\ SocketsOpened' /\ StackGetsFirstPort'
    BY <1>4 DEF Close, PortsInv, UartConfigured, Uart, SocketsOpened, StackGetsFirstPort, bounds
  <2> QED BY <2>1, <2>2 DEF PortsInv
<1>5. CASE Cleanup
  <2>1. Types'
    BY <1>5 DEF Cleanup, PortsInv, Types, bounds, addrVars, Opening
  <2>2. UartConfigured' /\ SocketsOpened' /\ StackGetsFirstPort'
    BY <1>5 DEF Cleanup, PortsInv, UartConfigured, Uart, SocketsOpened, StackGetsFirstPort, bounds
  <2> QED BY <2>1, <2>2 DEF PortsInv
<1>6. CASE Crash
  <2>1. Types'
    <3>1. socketFailed' \in BOOLEAN
      BY <1>6 DEF Crash
    <3>2. conf' = conf /\ pc' = "down" /\ named' = {} /\ idx' = 0 /\ stack' = NoPort /\ btpw' = "none"
          /\ gen' = "idle" /\ port' \in [Port -> {"closed", "opened", "running"}]
      BY <1>6 DEF Crash, AddrRestart
    <3> QED BY <3>1, <3>2 DEF PortsInv, Types, Opening
  <2>2. UartConfigured' /\ SocketsOpened' /\ StackGetsFirstPort'
    BY <1>6 DEF Crash, UartConfigured, Uart, SocketsOpened, StackGetsFirstPort
  <2> QED BY <2>1, <2>2 DEF PortsInv
<1>7. CASE UNCHANGED vars
  BY <1>7 DEF vars, addrVars, opVars, bounds, PortsInv, Types, UartConfigured, Uart, SocketsOpened,
              PassedRun, StackGetsFirstPort
<1> QED
  BY <1>1, <1>2, <1>3, <1>4, <1>5, <1>6, <1>7,
     OpenBootStep, OpenUartStep, OpenPortStep, OpenEndStep DEF Next

-----------------------------------------------------------------------------
(* btpw_fp *)

LEMMA BtpwNext == ASSUME PortsInv, BtpwInv, [Next]_vars PROVE BtpwInv'
<1>1. CASE OpenBoot
  <2>1. pc = "up" /\ conf' = conf /\ twice' = twice /\ failed \subseteq failed'
    BY <1>1 DEF OpenBoot
  <2>2. Uart <=> (conf # NoConf /\ conf.uart /\ ~conf.broken)
    BY <2>1 DEF PortsInv, UartConfigured
  <2>3. CASE btpw' = btpw
    <3>1. ASSUME btpw = "stale"
          PROVE  "boot" \in failed'
      <4>1. Uart /\ ~conf.only
        BY <2>2, <3>1 DEF BtpwInv
      <4> QED BY <1>1, <2>3, <3>1, <4>1 DEF OpenBoot, BtpwAfter, Note
    <3> QED BY <2>1, <2>3, <3>1 DEF BtpwInv, BtpwClosedOnce
  <2>4. CASE btpw' # btpw
    <3>1. Uart /\ ~conf.only /\ btpw' \in {"none", "open"}
      BY <1>1, <2>4 DEF OpenBoot, BtpwAfter
    <3> QED BY <2>1, <2>2, <3>1 DEF BtpwInv, BtpwClosedOnce
  <2> QED BY <2>3, <2>4
<1>2. CASE Close
  BY <1>2 DEF Close, BtpwInv, BtpwClosedOnce, Opening, bounds
<1>3. CASE OpenUart
  BY <1>3 DEF OpenUart, OpenDevice, BtpwInv, BtpwClosedOnce, Opening, bounds
<1>4. CASE OpenPort
  BY <1>4 DEF OpenPort, OpenDevice, BtpwInv, BtpwClosedOnce, Opening, bounds
<1>5. CASE OpenEnd
  BY <1>5 DEF OpenEnd, BtpwInv, BtpwClosedOnce, Opening, bounds
<1>6. CASE InitCall
  BY <1>6 DEF InitCall, BtpwInv, BtpwClosedOnce, Opening, bounds
<1>7. CASE InitAddr
  BY <1>7 DEF InitAddr, GenOpen, GenWrite, BtpwInv, BtpwClosedOnce, Opening, bounds
<1>8. CASE FwCfg
  BY <1>8 DEF FwCfg, GetAddr, BtpwInv, BtpwClosedOnce, Opening, bounds, opVars
<1>9. CASE Cleanup
  BY <1>9 DEF Cleanup, BtpwInv, BtpwClosedOnce, Opening, bounds
<1>10. CASE Crash
  BY <1>10 DEF Crash, AddrRestart, BtpwInv, BtpwClosedOnce, Opening
<1>11. CASE UNCHANGED vars
  BY <1>11 DEF vars, opVars, bounds, BtpwInv, BtpwClosedOnce
<1> QED
  BY <1>1, <1>2, <1>3, <1>4, <1>5, <1>6, <1>7, <1>8, <1>9, <1>10, <1>11 DEF Next

-----------------------------------------------------------------------------
(* The address *)

USE DEF NoFile, Empty, Default

\* Calls that failed are not forgotten.
LEMMA FailedGrows == ASSUME [Next]_vars PROVE failed \subseteq failed'
<1>1. CASE InitAddr
  BY <1>1 DEF InitAddr, GenOpen, GenWrite
<1>2. CASE OpenBoot
  BY <1>2 DEF OpenBoot
<1>3. CASE OpenUart
  BY <1>3 DEF OpenUart, OpenDevice
<1>4. CASE OpenPort
  BY <1>4 DEF OpenPort, OpenDevice
<1>5. CASE FwCfg
  BY <1>5 DEF FwCfg, GetAddr
<1>6. CASE InitCall \/ OpenEnd \/ Close \/ Cleanup
  BY <1>6 DEF InitCall, OpenEnd, Close, Cleanup
<1>7. CASE Crash
  BY <1>7 DEF Crash, AddrRestart
<1>8. CASE UNCHANGED vars
  BY <1>8 DEF vars
<1> QED BY <1>1, <1>2, <1>3, <1>4, <1>5, <1>6, <1>7, <1>8 DEF Next

\* The file is read, or created, when neither can fail.
LEMMA GenOpenFacts ==
    ASSUME GenOpen, NoneFailed', AddrKept
    PROVE  /\ gen = "start"
           /\ file = NoFile => file' = Empty /\ gen' = "write" /\ bdaddr_lap' = bdaddr_lap
           /\ file # NoFile => /\ file' = file /\ gen' = "idle"
                               /\ bdaddr_lap' = IF file # Empty THEN file ELSE bdaddr_lap
           /\ bdaddr_valid'
           /\ ap' = ap /\ given' = given /\ torn' = torn
<1>1. PICK readable \in BOOLEAN, creatable \in BOOLEAN :
        LET read == file # NoFile /\ readable
        IN  /\ bdaddr_lap' = IF read /\ file # Empty THEN file ELSE bdaddr_lap
            /\ file' = IF ~read /\ creatable THEN Empty ELSE file
            /\ gen' = IF ~read /\ creatable THEN "write" ELSE "idle"
            /\ bdaddr_valid' = (bdaddr_valid /\ (read \/ creatable))
            /\ failed' = failed \cup Note("fopen", readable /\ creatable)
  BY OkBoolean DEF GenOpen
<1>2. readable /\ creatable
  BY <1>1 DEF NoneFailed, Note
<1>3. bdaddr_valid
  BY DEF AddrKept
<1>4. /\ file = NoFile => file' = Empty /\ gen' = "write" /\ bdaddr_lap' = bdaddr_lap
      /\ file # NoFile => /\ file' = file /\ gen' = "idle"
                          /\ bdaddr_lap' = IF file # Empty THEN file ELSE bdaddr_lap
  BY <1>1, <1>2
<1>5. bdaddr_valid'
  BY <1>1, <1>2, <1>3
<1> QED BY <1>4, <1>5 DEF GenOpen

LEMMA InitAddrStep ==
    ASSUME Types, AddrKept, InitAddr, NoneFailed'
    PROVE  AddrKept'
<1>1. pc = "init" /\ pc' = IF gen' = "idle" THEN "up" ELSE "init"
  BY DEF InitAddr
<1>2. CASE GenOpen
  <2>1. /\ gen = "start"
        /\ file = NoFile => file' = Empty /\ gen' = "write" /\ bdaddr_lap' = bdaddr_lap
        /\ file # NoFile => /\ file' = file /\ gen' = "idle"
                            /\ bdaddr_lap' = IF file # Empty THEN file ELSE bdaddr_lap
        /\ bdaddr_valid'
        /\ ap' = ap /\ given' = given /\ torn' = torn
    BY <1>2, GenOpenFacts
  <2>2. CASE file = NoFile
    BY <1>1, <2>1, <2>2, LapsAssumption DEF AddrKept, Opening
  <2>3. CASE file = Empty
    BY <1>1, <2>1, <2>3, LapsAssumption DEF AddrKept, Opening
  <2>4. CASE file \in Laps
    BY <1>1, <2>1, <2>4, LapsAssumption DEF AddrKept, Opening
  <2> QED BY <2>2, <2>3, <2>4 DEF AddrKept
<1>3. CASE GenWrite
  <2>1. PICK lap \in Laps, written \in BOOLEAN :
            /\ bdaddr_lap' = lap
            /\ file' = IF written THEN lap ELSE file
            /\ failed' = failed \cup Note("fwrite", written)
    BY <1>3, OkBoolean DEF GenWrite
  <2>2. written
    BY <2>1 DEF NoneFailed, Note
  <2>3. /\ file' = lap /\ bdaddr_lap' = lap /\ lap \in Laps
        /\ gen = "write" /\ gen' = "idle"
        /\ ap' = ap /\ bdaddr_valid' = bdaddr_valid /\ given' = given
    BY <1>3, <2>1, <2>2 DEF GenWrite
  <2> QED BY <1>1, <2>3, LapsAssumption DEF AddrKept, Opening
<1> QED BY <1>2, <1>3 DEF InitAddr

LEMMA FwCfgStep ==
    ASSUME Types, AddrKept, FwCfg, NoneFailed'
    PROVE  AddrKept'
<1>1. PICK read \in BOOLEAN :
        /\ given' = given \cup {IF ap /\ read THEN "ap" ELSE IF bdaddr_valid THEN bdaddr_lap ELSE "nv"}
        /\ failed' = failed \cup Note("ap", read)
  BY OkBoolean DEF FwCfg, GetAddr
<1>2. read
  BY <1>1 DEF NoneFailed, Note
<1>3. given' = given \cup {IF ap THEN "ap" ELSE bdaddr_lap}
  BY <1>1, <1>2 DEF AddrKept
<1>4. /\ pc = "opened" /\ pc' = pc /\ gen' = gen /\ gen = "idle"
      /\ ap' = ap /\ file' = file /\ bdaddr_lap' = bdaddr_lap /\ bdaddr_valid' = bdaddr_valid
      /\ torn' = torn
  BY DEF FwCfg, GetAddr, opVars, Types
<1>5. CASE ap
  BY <1>3, <1>4, <1>5 DEF AddrKept, Opening
<1>6. CASE ~ap
  BY <1>3, <1>4, <1>6, LapsAssumption DEF AddrKept, Opening
<1> QED BY <1>5, <1>6

LEMMA AddrNext == ASSUME Types, AddrInv, [Next]_vars PROVE AddrInv'
<1> SUFFICES ASSUME NoneFailed' PROVE AddrKept'
  BY DEF AddrInv
<1>1. AddrKept
  BY FailedGrows DEF AddrInv, NoneFailed
<1>2. CASE Crash
  <2>1. /\ pc' = "down" /\ gen' = "idle" /\ bdaddr_lap' = Default /\ bdaddr_valid'
        /\ ap' = ap /\ file' = file /\ given' = given
        /\ torn \/ gen = "write" => torn'
    BY <1>2 DEF Crash, AddrRestart
  <2>2. CASE ap
    BY <1>1, <2>1, <2>2 DEF AddrKept, Opening
  <2>3. CASE ~ap /\ file = NoFile
    BY <1>1, <2>1, <2>3, LapsAssumption DEF AddrKept, Opening
  <2>4. CASE ~ap /\ file = Empty
    BY <1>1, <2>1, <2>4, LapsAssumption DEF AddrKept, Opening
  <2>5. CASE ~ap /\ file \in Laps
    BY <1>1, <2>1, <2>5, LapsAssumption DEF AddrKept, Opening
  <2> QED BY <1>1, <2>2, <2>3, <2>4, <2>5 DEF AddrKept
<1>3. CASE InitCall
  <2>1. /\ pc' = "init" /\ gen' = "start" /\ gen = "idle"
        /\ ap' = ap /\ file' = file /\ bdaddr_lap' = bdaddr_lap /\ bdaddr_valid' = bdaddr_valid
        /\ given' = given /\ torn' = torn
    BY <1>3 DEF InitCall, Types
  <2> QED BY <1>1, <2>1 DEF AddrKept, Opening
<1>4. CASE OpenBoot \/ OpenUart \/ OpenPort \/ OpenEnd \/ Close \/ Cleanup \/ UNCHANGED vars
  <2>1. /\ ap' = ap /\ file' = file /\ bdaddr_lap' = bdaddr_lap /\ bdaddr_valid' = bdaddr_valid
        /\ gen' = gen /\ given' = given /\ torn' = torn
    BY <1>4 DEF OpenBoot, OpenUart, OpenPort, OpenEnd, Close, Cleanup, vars, addrVars
  <2>2. pc' \in {"up"} \cup Opening => pc \in {"up"} \cup Opening
    BY <1>4 DEF OpenBoot, OpenUart, OpenPort, OpenEnd, Close, Cleanup, vars, opVars, Opening
  <2> QED BY <1>1, <2>1, <2>2 DEF AddrKept
<1> QED
  BY <1>1, <1>2, <1>3, <1>4, InitAddrStep, FwCfgStep DEF Next

-----------------------------------------------------------------------------
LEMMA SpecInv == Spec => []Inv
<1>1. Inv /\ [Next]_vars => Inv'
  BY PortsNext, BtpwNext, AddrNext DEF Inv, PortsInv
<1> QED BY InitInv, <1>1, PTL DEF Spec

\* A packet of the host goes to a port that runs, with the exceptions that the property names:
\* the guess of the transport from where the loop over the ports ended is right otherwise.
THEOREM VendorRoutesRun == Spec => []RoutesRun
<1>1. PortsInv => RoutesRun
  <2> SUFFICES ASSUME PortsInv, pc = "opened", stack # NoPort, NEW t \in HciType,
                      Route(t) \in named, ~socketFailed
               PROVE  \/ port[Route(t)] = "running"
                      \/ idx \in {AUDIO, ISO} /\ Route(t) >= idx
                      \/ {"USB", "SDIO"} \subseteq transtype
    BY DEF RoutesRun
  <2>1. Route(t) \in Port /\ idx \in 0..4 /\ ("SDIO" \notin transtype => Route(t) = CMDEVT)
    BY DEF Route, PortsInv, Types
  <2>2. CASE Uart
    BY <2>1, <2>2 DEF PortsInv, UartConfigured, SocketsOpened
  <2>3. CASE ~Uart
    <3>1. idx # 0 /\ Transport(idx) \in transtype /\ (Route(t) < idx => port[Route(t)] = "running")
      BY <2>3 DEF PortsInv, SocketsOpened, PassedRun
    <3>2. CASE idx = 1
      BY <2>1, <3>1, <3>2 DEF Transport
    <3>3. CASE idx # 1
      BY <2>1, <3>1, <3>3
    <3> QED BY <3>2, <3>3
  <2> QED BY <2>2, <2>3
<1> QED BY SpecInv, <1>1, PTL DEF Inv

\* The stack gets the socket of port 0, which alone is read, unless a socket failed.
THEOREM VendorFirstPort == Spec => []StackGetsFirstPort
BY SpecInv, PTL DEF Inv, PortsInv

\* A second close of btpw_fp needs a boot device that failed to open.
THEOREM VendorBtpwOnce == Spec => []BtpwClosedOnce
BY SpecInv, PTL DEF Inv, BtpwInv

LEMMA AtMostOne ==
    ASSUME NEW S, NEW x, S \subseteq {x}
    PROVE  Cardinality(S) <= 1
<1>1. CASE S = {}
  BY <1>1, FS_EmptySet
<1>2. CASE S = {x}
  BY <1>2, FS_Singleton
<1> QED BY <1>1, <1>2

\* The address of a device is the same in all sessions and processes, unless a file or the
\* vendor storage could not be accessed.
THEOREM VendorAddressStable == Spec => []AddressStable
<1>1. Inv => AddressStable
  <2> SUFFICES ASSUME AddrKept
               PROVE  Cardinality(given) <= 1 /\ (Default \in given => torn)
    BY DEF Inv, AddrInv, NoneFailed, AddressStable
  <2>1. /\ \E x : given \subseteq {x}
        /\ Default \in given => torn
    BY LapsAssumption DEF AddrKept
  <2> QED BY <2>1, AtMostOne
<1> QED BY SpecInv, <1>1, PTL
=============================================================================
