# Verification of the Seekwave Bluetooth vendor library and Wi-Fi HAL

This directory holds TLA+ models of the two user-space libraries of the Seekwave (SKW) combo
chips, TLC configurations that check them on small instances, and TLAPS proofs.

* `src/skwbt/` is `libbt-vendor`: a shared library that an Android Bluetooth stack loads. It
  opens the transport (UART, USB or SDIO), moves HCI packets between the controller's ports and
  the stack's socket, configures the controller and logs what passes by.
* `src/wlan/` is the Wi-Fi side: a HAL that talks to the driver by netlink, and private commands
  of wpa_supplicant.

Contents: [inventory](#1-inventory), [modules](#2-modules-and-how-they-correspond-to-the-code),
[runs](#3-runs-bounds-and-fairness), [proofs](#4-what-is-proved), [findings](#5-findings),
[what is not modelled](#6-abstractions-and-what-is-not-modelled), [plan](#7-plan).


## 1. Inventory

### The Bluetooth vendor library

| Component | State | Operations | Correct when |
|---|---|---|---|
| Vendor interface, `bt_vendor_skw.c` | the switches of `skwbt.conf`, `skwbt_transtype`, `skwbt_intf`, port names, `btboot_fp`, `btpw_fp` | `init`, `op(USERIAL_OPEN / FW_CFG / USERIAL_CLOSE / ...)`, `cleanup` | packets are routed to ports that run; the stack gets the socket that is read; nothing is closed twice |
| Ports and threads, `scom_vendor.c` | `scomm_vnd[4]`: `fd`, `uart_fd[2]`, `signal_fd[2]`, `thread_running`, `thread_started`, `is_busying`, `driver_state`, `thread_uart_id`; `write2host_lock` | `scomm_vendor_socket_open`, `_port_close`, `_socket_close`, `_send_hw_error`, the threads' loops | open and close return; when close returned no thread is left; descriptors are not used or closed after their close |
| Controller to host, `scomm_vendor_recv_scomm_thread` | `read_buffer` with its residue, `write2host_lock`, the host socket | read, parse, resynchronise, forward, log | packets are recognised however the reads cut them; they reach the host whole, in order, all of them |
| Host to controller, `scomm_vendor_recv_rawdata` | `recvSocketBuf`, `pkt_cnts` | read a header, the payload, route, write, wake the chip | the thread keeps its place in the stream; each port gets its packets; a dead port does not hold up the others |
| Firmware configuration, `scomm_vendor_config_start`, `_config_callback` | `hw_cfg_cb` (`state`, `file_offset`, `nv_fp`), `chip_version` | start; one call per Command Complete event | the whole file is downloaded, its blocks numbered; one report; success means success |
| btsnoop log, `skw_btsnoop.c` | `hci_btsnoop_fd`, `btsnoop_rev_length`, `btsnoop_log_lock` | init, open, capture, write, close | records stay whole, files readable and bounded; the log goes on |
| Controller log, `skw_log.c` | `skwlog_fp`, `skwlog_rev_length`, `skwlog_lock` | init, open, write, close | as above; the two locks do not deadlock |
| Bluetooth address, `skw_gen_addr.c` | `bdaddr_lap`, `bdaddr_valid`, the file `skwbdaddr.txt` | `skw_addr_gen_init`, `skw_addr_get`, `skw_addr_from_ap` | a device keeps its address over restarts and crashes |
| UART set-up | none | `tcio_baud`, `uart_open` | – |

Who runs what: the *stack's thread* calls the vendor interface and, in `op`, opens and closes the
ports. Each opened port has a *receive thread*; port 0 also has the *socket thread*, which reads
what the stack sends. All of them share `scomm_vnd` without a lock; the receive threads share the
socket to the stack under `write2host_lock`, and all share the two logs, which have a lock each.
The configuration is driven by the stack, which calls back with every Command Complete event.

```
             op()                       socket 0                    ports
   stack ------------> vendor_ops          |                          |
     |  \                 | open, close    v                          v
     |   \                +--------> [socket thread] -- route --> SDIO/USB/UART
     |    \ xmit_cb                   recv_rawdata                    |
     |     <------> config_callback                                   |
     <------------- write2host_lock <-- [receive threads 0..3] <------+
                                           |         |
                                      btsnoop log   controller log
```

### The Wi-Fi libraries

| Component | State | Operations | Correct when |
|---|---|---|---|
| HAL, `wifi_hal/main.cpp`, `wifi_command.cpp` | `hal_info`: two netlink sockets, `exit_socks`, `exit`, `interfaces` | `skw_wifi_initialize`, `_event_loop`, `_cleanup`, `_get_ifaces`, `sendMsg` | commands and cleanup end; sockets are released; commands reach their interface; the handle is not used after it was freed |
| Conversions and queries, `main.cpp` | the members of one command object | band and interface masks, `get_usable_channels`, `get_valid_channels`, ring buffers, version, logger and packet-filter queries, `set_country_code` | the results are what the driver has, fit the caller's arrays and mean the same to both sides; a failed query leaves nothing behind |
| Private commands, `driver_cmd_nl80211.c` | `drv_errors` | `wpa_driver_nl80211_driver_cmd` and its helpers | HANGED is reported once per run of errors; wpa_supplicant hears of what it changed |

The HAL and wpa_supplicant are two processes at one driver: what one sets (the country) changes
what the other was told (the channels).

### The hard parts

`PROJECT.json` lists the hazards with their lines. In short:

* *State that must stand for what the code does not look at*: the configuration callback ignores
  the opcode of the event; `file_offset` is an 8-bit counter; errors break out of one loop only.
* *Streams cut anywhere*: both directions parse packets from partial reads.
* *Shared descriptors without a lock*: ports are closed while three kinds of threads use them.
* *Two locks in nested roll-overs*, and sizes tracked across sessions.
* *Sticky globals over sessions*: transport bits, `btpw_fp`, `bdaddr_valid`.
* *Crashes* between the creation of the address file and its writing.
* *A handle freed by the event loop* while `cleanup` still uses it.
* *Failures that look like answers*: most queries of the HAL ignore the result of `send`; a request
  is built on the stack and not initialised.


## 2. Modules and how they correspond to the code

`PROJECT.json` ("map") gives the lines of every definition. Actions carry the names of the
functions or of the cases they stand for; variables carry the names of the C variables.

| Module | Models | Composes with |
|---|---|---|
| `FwConfig` | `scomm_vendor_config_start`, every case of `scomm_vendor_config_callback`, `scomm_vendor_init_err` | – |
| `FwConfigProofs` | proofs about `FwConfig` | extends it |
| `RecvScomm` | `scomm_vendor_recv_scomm_thread`, `_find_valid_type`, `_send_to_host`: bytes, reads, writes, lock | implements `HostLink` |
| `RecvScommProofs` | proofs about `RecvScomm` | extends it |
| `HostLink` | the promise to the stack: whole packets, in the order of each port | abstract specification |
| `RecvRawdata` | `scomm_vendor_recv_rawdata` with the routing of the ports | – |
| `RecvRawdataProofs` | proofs about `RecvRawdata` | extends it |
| `PortLifecycle` | `socket_open`, `socket_close`, `port_close`, both thread loops, `send_hw_error` | packets abstracted; their bytes are in `RecvScomm`, `RecvRawdata` |
| `PortLifecycleProofs` | proofs about `PortLifecycle` | extends it |
| `SnoopLog` | `skw_btsnoop.c` and `skw_log.c` with their two locks | – |
| `SnoopLogProofs` | proofs about `SnoopLog` | extends it |
| `BdAddr` | `skw_gen_addr.c` | – |
| `VendorConf` | `load_skwbt_conf`, `load_skwbt_stack_conf` | gives `VendorOps` and `SnoopLog` their configurations |
| `VendorOps` | `bt_vendor_skw.c`, with `usbsdio_open` | extends `BdAddr` |
| `VendorOpsProofs` | proofs about `VendorOps` and `BdAddr` | extends `VendorOps` |
| `WifiHal` | `main.cpp` (life of the handle) and `wifi_command.cpp` | – |
| `WifiHalProofs` | proofs about `WifiHal` | extends it |
| `WifiDriver` | the driver that the two clients share (external) | – |
| `WifiQueries` | `main.cpp`: the conversions, the queries and `set_country_code` | extends `WifiDriver` |
| `DriverCmd` | `driver_cmd_nl80211.c` | extends `WifiDriver` |
| `WifiClients` | both processes at the driver | composes `WifiQueries` and `DriverCmd` |
| `WifiClientsProofs` | proofs about `WifiClients` | extends it |
| `MC...` | the constants of the runs | extend the modules |

**FwConfig.** A call of the callback is one action, because the stack calls it from one thread.
An nv file of the 6316 is its entries: `at[k]` is the position after `k` of them, so that a run
fits when `at[j] - at[i] <= 252`; a 6160 file is its length. `faults` collects memory errors
(use after free, double free, `fclose(NULL)`, overrun) and leaks *instead of stopping* where the
C program would go on, so that the properties can say which files and failures lead to each.

**RecvScomm** works on bytes: a stream is a sequence of packets, each with the bytes before it that
belong to none (`noise`). It is cut by reads of any of the sizes in `Chunks`, and a packet reaches
the host in partial writes. What the parser relies on is stated apart, as `StreamsAreFramed` and
`PacketsFit`, which TLC evaluates for the streams of the run. `handled` and `delivered` are histories. `HostLink`
is refined with `chan <- delivered` and, as the queue, the packets of the stream not delivered.

**RecvRawdata** keeps the position in the packet (`need`, `bytes_read`), the buffer, and what each
port got. `lossy` holds the ports that lost bytes because their device failed. What the thread
relies on to keep its place is stated apart, as `KeepsPlace`: whole packets that fit
`recvSocketBuf`, each in one write, or one at a time and never cut inside a header. The code tests
none of this; `MCRecvRawdata` asserts it of the hosts of `recv_rawdata`, and those of
`recv_rawdata_pieces` break it.

**PortLifecycle** interleaves the stack's thread (`mpc`, `mport`), the receive threads (`rpc`) and
the socket thread (`spc`) at the statements where they touch shared state. A descriptor is
"none" (-1), "open" or "closed" (a number that was closed but is still stored, and may by now be
another file's). Every read, write, poll, ioctl and close of a descriptor that is "closed" goes
into the history `late`, and into `again` when the same thread does it a second time; `revived`
are the ports whose `driver_state` main set although their thread had failed.

**SnoopLog** keeps each file as a sequence of headers, records, payloads and time stamps with
their sizes. A thread stops between the steps that another thread can observe: the test for an
open file before the lock, the lock, the two writes of a record, the time stamp that needs the
other lock.

**VendorConf** is the two parsers of `skwbt.conf` as operators on a sequence of lines. The first
stops at a line without `=` and then sets no transport; the second goes on behind it. Some
switches take the value of their last line, others move one way only. Its results, `Load` and
`LogMode`, are the configurations of `VendorOps` and of the shipped instance of `SnoopLog`.

**VendorOps** has a step per device that is opened, as each may fail.

**WifiQueries** writes a mask as the set of its bits and a message of the driver as a record of its
attributes. A call is up to four steps: the request (`GetUsableChannels`, ... as the command
classes), the driver (`Handle`), the message (`Receive`) and the end (`Return`); between them
wpa_supplicant may change the country. `request.filter` is any Boolean, because the
`filter_mask` of the struct is never set.

**DriverCmd** has an action per kind of command; `Target` and `Refused` are the rerouting of the
P2P device to its parent. `drv_errors` is shared by the interfaces, as in the code.

**WifiHal** interleaves the framework (`pc`) with the event loops (`loop[h]`) of all handles. The
kernel answers a request with messages and an end, an error, or loses one of them.


## 3. Runs, bounds and fairness

Every property of a passing run has a mutant in `PROJECT.json`: a plausible slip (an operator or
action marked `Slip:` in the module) which makes that run fail.

| Run | Question | Bounds, and why they are enough |
|---|---|---|
| `fw_config` | Is the state machine right for every file, failure and a second attempt? | 16 files of the 6316: every way a run can end (exactly 252, 251 or 250 bytes, entries too large, cut) and 7 of the 6160, up to 257 blocks, where the block number wraps. Two attempts: the second meets what the first left. |
| `recv_scomm` | Framing, residues, the shared socket, delivery, refinement of `HostLink` | A buffer of 8 bytes, the size of the largest packet used, so that every packet can be cut everywhere and can fill it. All triples of seven packets (one of exactly four bytes, the shortest residue that is parsed at once) on one port; two ports with pairs and triples; noise of one byte and of more than a waiting residue. |
| `port_lifecycle` | What do threads do with closed descriptors? | Two ports: port 0 with its two threads, and another that writes to its socket. One packet from each port, two from the host (a thread must be able to come again to what it used too late), a socket with room for one. |
| `port_lifecycle_live` | Do open and close return, does a hardware error get through? | as above, without packets from the host |
| `recv_rawdata` | Framing, routing, and ports that die | All triples of six packets that cover every type, with and without payload. |
| `snoop_log` | Records, headers, sizes, locks, and why a log stops | All 16 configurations, two threads, two sessions, three packets of one or two units, a limit of three, so that each log rolls over more than once and between sessions. The calls of one step may fail. |
| `vendor_ops` | Routing, sockets, `btpw_fp`, the address | Ten configuration files (none, the shipped one, no to two nodes, a UART alone and beside the boot device, a line without `=` before, between and behind the nodes), three `USERIAL_OPEN` in any sessions (the third meets a `btpw_fp` that the first closed, or transport bits of two others), one death of the process, every call may fail. |
| `wifi_hal` | Late uses, interfaces, sockets, termination | Two handles (the second meets the sockets of the first), two commands, an event per handle, a `poll` that may fail at any time, up to two interfaces. |
| `wifi_clients` | What do queries return, what does wpa_supplicant believe, when is it told HANGED? | Two queries (the second meets what the first left) of twelve, with channels for clients only, owners only, restricted ones and a bound that cuts the list, in two countries; three private commands, enough for a failure, a success or a HANGED, and another failure, with `DRV_NUMBER_SEQUENTIAL_ERRORS` = 1. Every call may fail. |
| `port_lifecycle_signal`, `recv_rawdata_pieces`, `snoop_log_goes_on` | the findings of section 5 | the smallest instance |

What the passing runs show:

* **Configuration.** The reply always matches the state, but for the reply to the buffer that a
  cut file makes the code send after it was freed. Blocks are numbered modulo 256 and, in a 6160
  file of more than 256 blocks, the patches of blocks 0 and 1 are applied again. Success is
  reported only after the whole file was accepted in order. Every memory error needs a cut file,
  a refused command at the end of a file, or a run of 251 or 252 bytes before another entry; the
  configuration stops without a report only after a failure or for a file it cannot download.
* **Controller to host.** Packets are recognised and delivered whole however they are cut; what is
  held back is a residue of fewer than four bytes, or what stands behind discarded bytes, until
  more bytes come.
* **Ports.** When `port_close` has returned, the port's threads are gone. Before, closed
  descriptors are used, by reads as well as by writes: the socket of port 0 by one receive thread
  of *another* port (which writes) and by the socket thread (which comes from `epoll_wait` and reads);
  a port by its own receive thread (which polls or reads it once more, or closes it again), port 0 by
  the socket thread, and a port that its own thread has closed after an error also by main. Each
  of these happens once, because `thread_running` or `driver_state` stops the next one, but for main,
  which tests nothing, and for the socket thread at a port whose `driver_state` was set
  after its thread had failed. A descriptor is closed twice only after `POLLHUP`/`POLLERR`. Close
  hangs only if the stack stops reading with a full socket.
* **Host to controller.** A host that writes whole packets is understood; a dead port loses its
  own packets only.
* **Logs.** Records stay whole; files are bounded (the payloads exceed the limit by less than a
  packet); the locks never deadlock. A log that is missing has a reason, one of which is the
  finding on `rename`; another is that a sliced controller log needs the btsnoop log.
* **Vendor interface.** The transport is misjudged in named cases only: SDIO that lost a later
  port and a USB transport found after SDIO. The address is stable unless a file operation failed; the
  default address is given out only after a death between the creation of the file and its
  writing.
* **Wi-Fi.** `cleanup` touches a freed handle only when the loop, before it tests `hal->exit`
  between the two statements of `cleanup`, came out of its poll for an event or because `poll` failed
  or was interrupted. Interfaces other than the first are addressed wrongly only through a `wdev_idx`
  that was never cleared. An `initialize` that fails though no call did has met the event loop of
  an earlier handle that is still releasing its sockets.
* **Queries and commands.** `get_usable_channels` applies the caller's filter, reports the bands
  and modes asked for, and as many channels as fit, with two exceptions, both against the comment
  above it (section 5): restricted channels are reported although the caller filters them, or are missing
  although it does not, when the uninitialised `filter_mask` of the request differs from the caller's;
  and channels that P2P group owners alone may use are missing. A failed query returns zeros and nothing of
  an earlier one, but most report success. wpa_supplicant's channels are old only after the HAL set
  the country; HANGED comes after every run of errors over all interfaces.

Fairness:

* `FwConfig`: weak fairness of the replies. The stack delivers the Command Complete event of every
  command it took; a controller that does not answer is a failure outside this library.
* `RecvScomm`: weak fairness of each thread; strong fairness of taking the mutex, which a thread
  that waits for it is given in the end (threads contend only while packets come).
* `RecvRawdata`: weak fairness of the thread and of a host that sends what it has.
* `PortLifecycle`: weak fairness of the threads and of the stack inside a call it made, strong
  fairness of the mutex as above. No fairness makes the host read: `OpenCloseTerminate` names
  the blocked write.
* `SnoopLog`: weak fairness of the threads only. Between the roll-overs nobody needs to win a
  contended lock again and again, as the packets are finite.
* `WifiClients`: none; its properties are safety properties.
* `WifiHal`: weak fairness of functions that were called and of the event loops; not of events,
  calls or answers that were lost, and not of `LoopInterrupted`: that `cleanup` ends must not
  depend on a `poll` that fails.

`CHECK_DEADLOCK FALSE` stands in all configurations: each system may stop when the stack, the
host or the framework has made its bounded number of calls.


## 4. What is proved

`FwConfigProofs` proves, for *every* set of files that satisfies `TlvFilesAssumption` (entries of
3 to 258 bytes behind each other) and `BlkFilesAssumption` (any length), every number of attempts,
and with or without failures of the environment:

| Theorem | Statement |
|---|---|
| `ConfigTypeCorrect` | types, among them `file_offset \in 0..255` |
| `ConfigAtRestAfterReport` | one report, after which nothing is in flight and no file open |
| `ConfigReplyMatchesState` | the state tells which command a reply belongs to |
| `ConfigBlocksNumbered` | the k-th block is numbered `(k - 1) % 256` and patched accordingly |
| `ConfigSuccess` | success means that the whole file of the chip was accepted without a gap |
| `ConfigFaults` | what each memory error needs |
| `ConfigStall` | what a configuration that stops silently needs |

All follow from `SpecInv == Spec => []Inv`. `Inv` is the conjunction of the safety properties and
of four facts that they lack to be inductive:

* `Early`: no block was sent before the download began;
* `Flight`: while a reply is awaited nothing external has failed in this attempt;
* `Started`: only a call of `config_start` leaves the state of rest;
* `Download`: during the download `sent` is contiguous, reaches `nv_pos`, and has
  `file_offset` modulo 256 blocks; after it, it reaches the end of the file.

`Download` is why `SuccessMeansConfigured` and `BlocksNumbered` hold: neither says anything while
the download runs. The proof has a lemma per action (`ConfigStartStep`, `AdvanceStep`,
`DownloadStep`, `QuietStep`), and `DownloadStep` rests on one per outcome of a block
(`TruncatedStep`, `NothingStep`, `RunStep`, `BlockStep`). The one fact about an operator that
needs induction, that the longest run of entries exists (`RunEndExists`), comes from
the well-foundedness of `<` on the naturals: a `CHOOSE` over a bounded, non-empty set of numbers.

`VendorOpsProofs` proves all four properties of `VendorOps`, for every set of configuration files
(`ConfsAssumption`) and drawable addresses (`LapsAssumption`: none of them is the default), any
number of sessions and deaths, and whatever may fail:

| Theorem | Statement |
|---|---|
| `VendorRoutesRun` | packets are routed to running ports, but for the named exceptions |
| `VendorFirstPort` | the stack gets the socket of port 0 unless a socket failed |
| `VendorBtpwOnce` | a second close of `btpw_fp` needs a boot device that failed |
| `VendorAddressStable` | one address, over sessions and deaths |

The invariant has three parts. `PortsInv` says that the UART bit is what the configuration
says (`UartConfigured`) and how far the loop over the ports has come (`SocketsOpened`): the ports
behind `idx` run or a socket failed, and if a named port is behind `idx` the stack has a socket or
one failed. That second fact is what `StackGetsFirstPort` lacks: without it a later port's socket
could be the first. `BtpwInv` adds that only a UART beside a boot device uses `btpw_fp`, so that
`USERIAL_OPEN` cannot pass it by except through a failed boot device. `AddrInv` says that, while
nothing has failed, the address file, `bdaddr_lap` and the addresses given go together, for each
state of the file: absent (nothing given), empty (created by a process that died: the default),
or written.

`WifiHalProofs` proves the three safety properties of `WifiHal`, for every driver that satisfies
`KernelsAssumption`, any uninitialised contents and any number of handles, events and commands:

| Theorem | Statement |
|---|---|
| `WifiLateUse` | `cleanup` writes to a freed handle only when the loop's last poll before its last test of `hal->exit` ended for an event or a failure; the handle's sockets are closed then |
| `WifiRefused` | no error path of `initialize` leaves a socket that makes the next one fail |
| `WifiInterfaces` | `get_ifaces` is complete, and commands reach their interface |

The first two follow from one invariant about each handle: where its event loop is tells which
sockets it owns (`SocksOwned`) and whether it is the latest (`LoopRight`), and a loop that left
its poll saw an event, a failure, or the byte of `cleanup`, which is not written before `exit` is
set (`Woken`). The third has its own, `DumpInv`: while
the dump comes in, the interfaces found and the messages to come are those of the driver.

`WifiClientsProofs` proves, for any countries, channels, queries and number of commands:

| Theorem | Statement |
|---|---|
| `WifiSupplicantInformed` | wpa_supplicant's channels are those of the driver's country unless the HAL set it since; the state it announces is that of the flags unless a call failed |
| `WifiHangedRight` | HANGED comes at every (`DRV_NUMBER_SEQUENTIAL_ERRORS` + 1)-th failure in a row, and never else |
| `WifiAnswersRight` | a query returns what the driver has, or nothing after a failure, never what an earlier call left |
| `WifiUsableExplained` | `get_usable_channels` reports what was asked for under the caller's filter, and errs on restricted channels only when the request holds another filter |

The first is inductive with the type of `up`: a private command that changes the country is followed by
the event in the same step (`PrivateNotifies`), and STOP and START announce what they set
(`StopStartAnnounces`).

`WifiHangedRight` counts back through the history; its invariant, `CountInv`, goes forward: the
failures that end with the latest command are a multiple of the period, plus what the counter
holds (`Counted`), so a further failure reports exactly when it completes one (`CountRight`), and
the runs of earlier commands stay what they were (`RunsStay`).

For the queries `QueryInv` follows a call from the thread's place to place: the request is made
from the call, the answer is empty until a message came, the message on its way would be parsed
into what the driver has in the country in which it answered (`Right`), whatever wpa_supplicant
sets meanwhile, and the result is made from the parsed answer. The rest is about operators: what
`Filter` keeps (`FilterElements`, by the least index for which it fails), and that the masks of
bands and modes, taken from the framework's words to the driver's and back, lose only P2P group
owners (`HalToSkwBand`, `HalToSkwModes`, `SkwToHalModes`). `Filter` is `SelectSeq` with a set for
its test, written out because the provers have no definition of `SelectSeq`.

`SnoopLogProofs` proves, for any threads (`ThreadAssumption`: none is called like `init` or
nobody), packets, sessions and configurations, and whatever may fail:

| Theorem | Statement |
|---|---|
| `SnoopRecordsWhole` | nothing comes between the header of a btsnoop record and its packet |
| `SnoopStopHasReason` | the btsnoop log is only closed for one of two named reasons |
| `SnoopFileBounded` | the packets in the btsnoop file never exceed the limit by a whole packet, unless a call failed |
| `LogHeadersInFront` | no header is written into the middle of either log, unless a call failed |
| `ControllerLogHasReason` | the controller log is only missing for one of the named reasons |
| `LogsNeverDeadlock` | unless all are at rest, some actor waits for neither lock |

`RecordsWhole` alone is not inductive: two threads could both be about to write. The invariant
adds that a thread is at a place behind the lock exactly when it holds `btsnoop_log_lock`
(`Mutex`), that `init`, which opens the file without the lock, runs only while the threads are at
rest (`Phases`), and that a record without its packet is the last item of an *open* file whose
writer holds the lock (`Whole`): the file is closed and moved away only by an actor that is
alone (`AloneWithFile`). `Reason` extends `SnoopStopExplained` to the time in which the log is
rolled over or `init` prepares it. There is a lemma per action, over a few facts about what
several of them leave alone (`Moves`, `Untouched`, `SameReason`, `LogKeeps`).

The three theorems about sizes, headers and the controller log need more than those places. A
session continues a file, and the packets come on top of what it holds: `Room` says that a file which is written, or about to be, is below
the limit and that `btsnoop_rev_length` counts at least what is in it; between the header of a
record and its packet it has counted the packet already (`Bounded`). That the count after a
roll-over, which is the size of the whole file, is enough takes `Sizes`: a packet has a header
before it. The headers stay in front because a file gets one only when it is new, which
`skw_btsnoop_open` reads off the count, and a place after the move knows that the file then
holds at most a header (`SnoopHeaded`). `LogReason` extends `ControllerLogExplained` to the time
before `init` and to the roll-over which `init` leaves the opening of the log to. What `Size`
computes is recursive (`Total`); that it grows by what is appended is proved once (`TotalMore`,
`SizeAppend`) by taking the least number of which a claim fails, from the library's theorem on
the natural order.

`LogsNeverDeadlock` is the part of `LoggingTerminates` that can be proved: `LogMutex` says where
`skwlog_lock` is held, and none of those places waits (`HoldersRun`).

`PortLifecycleProofs` proves, for any number of ports, with or without the close signal, and
whatever devices and calls do:

| Theorem | Statement |
|---|---|
| `PortsClosedMeansStopped` | a port that `port_close` has closed has no thread left |
| `PortsLateUse` | which thread uses which descriptor after its close, and that only main and the socket thread at a revived port do so more than once |
| `PortsDoubleClose` | a descriptor is closed twice only after POLLERR or POLLHUP |

The invariant says that a receive thread lives only while its port has a descriptor, and has the
host lock only where it tests or writes (`Threads`); that the socket thread lives only as long as
port 0, which `socket_close` closes first (`SocketRight`); how far main is with each port
(`MainRight`); and who closed a descriptor that is closed (`ClosedRight`). There is a lemma per
action; steps that only move one actor share one (`RecvMoves`, `SocketMoves`, `MainMoves`).

For the late uses a second invariant, `LateInv`, gives every use in `late` the reason for which it
cannot come again (`Guard`): its thread has left the place from which it came, and the flag that it tests
before the next use is down and stays down. `thread_running` falls before a descriptor is closed
(`RunningRight`); `driver_state` of a failed port is up again only if main revived it
(`RevivedRight`).

`RecvScommProofs` proves, for any streams (`StreamsAssumption`), any ports, and reads and writes
of any sizes:

| Theorem | Statement |
|---|---|
| `RecvHostSeesWholePackets` | the host socket carries whole packets, but for the last, which is being written |
| `RecvHeldBack` | a whole packet waits in `read_buffer` only as a short residue or behind invalid bytes |
| `RecvPacketsRecognised` | the packets recognised on a port are the ones that the controller sent, in order |
| `RecvNeverFull` | a thread that polls has room in `read_buffer` |
| `RecvImplementsHostLink` | `RecvScomm` implements `HostLink` |

The invariant adds that a thread that sends has a whole packet and that the one that writes is the
holder of the lock (`Sending`), and ties the bytes at the host to the packets delivered and to
the part that the holder of the lock has written (`HostWhole`). It needs what `FlattenSeq` does
to a sequence that grows (`FlattenAppend`) and that it gives bytes (`FlattenType`). Both are
inductions over the length; they are made by taking the least index for which the claim fails
(`LeastNumber`, again from the well-foundedness of `<`), because the library's induction theorems
take an operator as a parameter.

The last three theorems assume `StreamsAreFramed`: every packet is framed as its header says, no
byte of the noise is a packet type, and no ISO packet stands behind noise (which `find_valid_type`
would step over, section 5). `RecvNeverFull` also assumes `PacketsFit`. Both are what the code
relies on, not what it tests; `MCRecvScomm` asserts both of the streams that TLC runs. The
invariant `Framed` says for each port that `read_buffer` followed by the bytes to come is the rest
of the stream from a packet boundary, or from inside the noise before the next packet, so that
`handled` is exactly the packets in front of that place. To show it, the bytes of a stream are cut
at the bounds of its packets (`Joined...`, `PartPlace`), a buffer is a `Window` of the stream, and
the header at a boundary gives the length of the packet that begins there (`HeaderOf`,
`PacketLength`, `PacketAhead`). `Tracks` adds that what was delivered on the port is the part of
those packets which is for the host; from it follow `PacketsRecognised` and, step by step, the
refinement: `Release` is `Deliver` of `HostLink`, every other step leaves `chan` and `queue` alone
(`LinkNext`). `Roomy` says that `read_buffer` is never overfilled and has room at the poll: what
waits there is less than a packet.

`RecvRawdataProofs` proves, for any configurations (`SetupsAssumption`), packets, and partial reads
and writes:

| Theorem | Statement |
|---|---|
| `RawPortGetsItsPackets` | a port that lost nothing has got the packets framed for it, up to the byte that the write loop has come to |
| `RawFramedAsSent` | the packets that are framed are the ones that the host sent, in order |
| `RawTypeAlwaysValid` | `assert(0)` is not reached |

The first holds for any host. `Rounds` says what the buffer holds in each round of reads: as many
bytes as were counted, behind a type and a header that say how many are wanted. With it
`PortsRight` ties what each port got to the packets framed for it and to the part of the current
one that is written (`Received`).

The other two assume `HostsKeepPlace`; `recv_rawdata_pieces` (section 5) shows that they fail
without. `Framing` says that the bytes read for the current packet, those in the socket and the rest
of the packet that the host is writing lead from the end of the packets framed to the end of the
packets sent (`Placed`). So what the thread has in hand is the next packet and no other
(`ComesNext`, `InHand`), its header is there in full when it is asked for, which is why nothing
has to be asked for twice, and a read in the payload of a packet that comes in pieces cannot reach
into the next packet, because the host waits. Both facts about joined sequences and those about
`FlattenSeq` are inductions over the length, made as in `RecvScommProofs`.

Only model-checked: the liveness properties (`ConfigCompletes`, `AllDelivered`, `AllForwarded`,
`OpenCloseTerminate`, `HwErrorReported`, `LoggingTerminates`, `OperationsTerminate`), as fairness and
`ENABLED` are out of the prover's reach.


## 5. Findings

Three runs end in a violation of what the source says of itself:

1. `port_lifecycle_signal`: `scomm_vendor_port_close` (scom_vendor.c:1069) writes the close signal
   to the end of the socketpair that is polled; the thread ends only by its time-out.
2. `recv_rawdata_pieces`: after a short read `scomm_vendor_recv_rawdata` (scom_vendor.c:424, 455)
   asks for the full length again, loses its place and reaches `assert(0)`.
3. `snoop_log_goes_on`: `skw_btsnoop_open` (skw_btsnoop.c:74) takes a rename that succeeded for
   one that failed; the log ends at its second roll-over.

Three more disagreements are stated where they bite, not as runs of their own:

* `scomm_vendor_find_valid_type` (scom_vendor.c:661) does not know ISO packets, although its
  description says that it finds "the index of valid packet type" (652): one that follows invalid
  bytes may be stepped over. `IsFramed` of `RecvScomm` leaves such streams out.
* `get_usable_channels` never passes `filter_mask` on (main.cpp:1768): the driver reads what was on
  the stack. The comment above it (1752-1756) says that the mask "indicates if the channel list
  should be filtered" and that without one the driver "should return list of usable channels purely
  based on regulatory constraints"; both fail. `UsableExplained` states the comment (`Promised`)
  and allows for the difference only where the two masks differ (`FilterLost`).
* The same comment says that `iface_mode_mask` has the bits of `wifi_interface_mode`, with bits for
  P2P clients and owners; the conversions use `wifi_interface_type`, which has one for both. The
  model follows the code.


## 6. Abstractions and what is not modelled

* **All modules**: log messages, file names, time stamps, delays (`usleep`), memory that runs out
  except where the code tests for it.
* **FwConfig**: opcodes, the bytes of a parameter, the log level in the patch. That a new attempt
  starts only after the ports were closed is the stack's doing (assumed). When the nv file cannot
  be opened, the buffers are kept although a comment at scom_vendor.c:1372 announces their
  release; `faults` records that leak.
* **RecvScomm / RecvRawdata**: a read error ends the thread and is in `PortLifecycle`. Retries of
  the SDIO ioctl are not modelled.
* **PortLifecycle**: one packet per read; the reuse of descriptor numbers by other files (a late
  use is recorded instead); `pthread_join(0)`, which is harmless in bionic.
* **SnoopLog**: failures are limited to the calls of one step; two failures in different sessions
  would only add combinations of the same outcomes. The stack calls `init` and `cleanup` while no
  thread runs.
* **VendorConf**: the splitting of a line at `=` and the trimming of blanks; more than four nodes,
  for which the array has no room (`ConfsAssumption`).
* **VendorOps**: The delays of `POWER_CTRL`, and operations that only report or return,
  change no state. The stack closes before it opens again. Without `skwbt.conf` no port has
  a name: the default node is never stored in `scomm_vnd`.
* **WifiHal**: at most eight interfaces (assumed of the driver: the code does not test). The
  framework makes one call at a time. Stubs that return a constant are left out.
  `deinitialize` closes `exit_socks` and frees the handle in one step.
* **WifiQueries**: the widths of channels; the arrays of the caller hold what the driver sends
  (the code does not test it, except for `get_usable_channels`, whose bound is modelled); the
  interface of a query (`WifiHal` has the addressing). A missing vendor attribute is a lost message.
* **DriverCmd**: the text of the answers and the value returned; the P2P helpers, which only log.
* **Not modelled**: the table of baud rates and the sequence of termios calls, of which only success matters; build files and
  firmware data.


## 7. Plan

Order: first what the product stands on (configuration, packets, ports), then what may break it
from the side (logs, vendor interface, Wi-Fi), then what is only computed.

Done: all of section 2, with the proofs of section 4.

Next, *extending the model*:

1. A composition of `VendorOps` with `PortLifecycle`, so that `RoutesRun` is checked against ports
   whose threads die.

Next, *proving*:

1. Every safety property that a passing run checks is proved, and so is the refinement of
   `HostLink`. What is left is the safety core of more liveness properties, as
   `LogsNeverDeadlock` is that of `LoggingTerminates`: that a configuration of `FwConfig` which
   is neither at rest nor stalled has a reply in flight, and that a thread of `RecvScomm` only
   waits for one that can write.
2. What the parsers of `VendorConf` give for every file, beyond the facts that `VendorOpsProofs`
   needs.
