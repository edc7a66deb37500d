---------------------------- MODULE MCVendorOps -----------------------------
(* Instances of VendorOps for TLC. *)
EXTENDS VendorOps

CONSTANT noConf

C == INSTANCE VendorConf

Node == C!Line("BtDeviceNode", "node")
Tty == C!Line("BtDeviceNode", "?")
Both == C!Line("SkwBtUartOnly", "false")
Only == C!Line("SkwBtUartOnly", "true")

\* The shipped file, a UART alone and beside the boot device, files with no nodes, one and two;
\* a line without '=' before, between and behind the nodes; a switch given twice.
MCFiles ==
    {C!Shipped, <<Tty>>, <<Tty, Both, Only>>, <<>>, <<Node>>, <<Node, Node>>,
     <<C!NoSeparator, Tty>>, <<Node, C!NoSeparator, Node>>, <<Tty, C!NoSeparator, Both>>}

MCConfs == {noConf} \cup {C!Load(f) : f \in MCFiles}
=============================================================================
