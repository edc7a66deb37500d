----------------------------- MODULE VendorConf -----------------------------
(***************************************************************************)
(* skwbt.conf as bt_vendor_skw.c reads it at every init: load_skwbt_conf for  *)
(* the device nodes, load_skwbt_stack_conf for the switches.                 *)
(*                                                                         *)
(* A file is the sequence of its lines that are not blank, a comment or the   *)
(* head of a section.                                                       *)
(***************************************************************************)
EXTENDS Integers, SequencesExt

\* A line without '='.
NoSeparator == [key |-> "", val |-> ""]

At(f, key) == {i \in DOMAIN f : f[i].key = key}

\* load_skwbt_conf stops at a line without '='; load_skwbt_stack_conf goes on behind it.
Broken(f) == NoSeparator \in Range(f)

\* The nodes that come before it.  A '?' marks the first one as a UART.
Nodes(f) == {i \in At(f, "BtDeviceNode") : \A k \in 1..i : f[k] # NoSeparator}

Uart(f) == Nodes(f) # {} /\ f[Min(Nodes(f))].val = "?"

\* A switch that is set by "true" and reset by everything else: the last line counts.
Switch(f, key) == At(f, key) # {} /\ f[Max(At(f, key))].val = "true"

\* A switch that only one value moves: any line with it counts.
Moved(f, key, val) == \E i \in At(f, key) : f[i].val = val

\* What the vendor interface does with it, and what the logs do.
Load(f) == [nodes |-> Cardinality(Nodes(f)), uart |-> Uart(f), broken |-> Broken(f),
            only |-> ~Moved(f, "SkwBtUartOnly", "false")]

LogMode(f) == [snoop |-> Switch(f, "SkwBtsnoopDump"), save |-> Switch(f, "BtSnoopSaveLog"),
               slice |-> Switch(f, "SkwLogSlice"), cp |-> Switch(f, "SkwBtcplog")]

\* The file that the repository ships (conf/skwbt.conf).
Line(k, v) == [key |-> k, val |-> v]
Shipped ==
    << Line("BtDeviceNode", "CMD"), Line("BtDeviceNode", "DATA"), Line("BtDeviceNode", "AUDIO"),
       Line("BtDeviceNode", "ISOC"), Line("SkwBtUartOnly", "false"), Line("SkwBtNoSleep", "false"),
       Line("SkwBtsnoopDump", "true"), Line("SkwBtcplog", "true"), Line("SkwBtDrvlog", "true"),
       Line("BtSnoopFileName", "path"), Line("BtSnoopSaveLog", "true"), Line("SkwLogSlice", "true") >>
=============================================================================
