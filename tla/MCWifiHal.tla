----------------------------- MODULE MCWifiHal ------------------------------
(* Instances of WifiHal for TLC. *)
EXTENDS WifiHal

\* A station alone; a station with a P2P device, which has no ifindex; two stations.
MCKernels ==
    { <<[ifindex |-> 1, wdev |-> 11]>>,
      <<[ifindex |-> 1, wdev |-> 11], [ifindex |-> 0, wdev |-> 12]>>,
      <<[ifindex |-> 1, wdev |-> 11], [ifindex |-> 3, wdev |-> 13]>> }
=============================================================================
