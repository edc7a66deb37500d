----------------------------- MODULE MCSnoopLog -----------------------------
(* Instances of SnoopLog for TLC. *)
EXTENDS SnoopLog

AllModes == [snoop : BOOLEAN, save : BOOLEAN, slice : BOOLEAN, cp : BOOLEAN]

C == INSTANCE VendorConf

\* The configuration file that the repository ships.
ShippedModes == {C!LogMode(C!Shipped)}
=============================================================================
