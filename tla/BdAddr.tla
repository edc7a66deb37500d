------------------------------- MODULE BdAddr -------------------------------
(***************************************************************************)
(* The Bluetooth address (skw_gen_addr.c): the lower part is drawn once and   *)
(* kept in skwbdaddr.txt; an address in the vendor storage of the platform    *)
(* takes precedence.  VendorOps calls gen_init and crashes the process.       *)
(***************************************************************************)
EXTENDS Integers, FiniteSets

CONSTANTS
    Laps,          \* lower address parts that may be drawn
    Faults         \* what may fail: here "fopen", "fwrite", "ap"

VARIABLES
    ap,            \* the vendor storage holds an address
    file,          \* skwbdaddr.txt: a lower address part, or Empty, or NoFile
    bdaddr_lap, bdaddr_valid,
    gen,           \* skw_addr_gen_init: "idle", "start", "write"
    given,         \* history: the addresses with which the controller was configured
    torn,          \* history: the process died with the file created and not written
    failed         \* history: calls that failed

addrVars == <<ap, file, bdaddr_lap, bdaddr_valid, gen, given, torn>>

NoFile == "absent"
Empty == "empty"
Default == "12:24:56"

\* What is drawn is hexadecimal digits, and not the part that all devices share.
ASSUME LapsAssumption == Laps \cap {NoFile, Empty, Default, "ap", "nv"} = {}

Ok(call) == IF call \in Faults THEN BOOLEAN ELSE {TRUE}
Note(call, ok) == IF ok THEN {} ELSE {call}

AddrInit ==
    /\ ap \in BOOLEAN
    /\ file = NoFile
    /\ bdaddr_lap = Default /\ bdaddr_valid = TRUE
    /\ gen = "idle"
    /\ given = {} /\ torn = FALSE /\ failed = {}

\* The file is read or, when it cannot be opened, created.
GenOpen ==
    /\ gen = "start"
    /\ \E readable \in Ok("fopen"), creatable \in Ok("fopen") :
        LET read == file # NoFile /\ readable
        IN  /\ bdaddr_lap' = IF read /\ file # Empty THEN file ELSE bdaddr_lap
            /\ file' = IF ~read /\ creatable THEN Empty ELSE file
            /\ gen' = IF ~read /\ creatable THEN "write" ELSE "idle"
            /\ bdaddr_valid' = (bdaddr_valid /\ (read \/ creatable))
            /\ failed' = failed \cup Note("fopen", readable /\ creatable)
    /\ UNCHANGED <<ap, given, torn>>

\* Slip: the new address is not flushed to the file.
GenWriteNot ==
    /\ gen = "write"
    /\ \E lap \in Laps : bdaddr_lap' = lap
    /\ gen' = "idle"
    /\ UNCHANGED <<ap, file, bdaddr_valid, given, torn, failed>>

GenWrite ==
    /\ gen = "write"
    /\ \E lap \in Laps, written \in Ok("fwrite") :
        /\ bdaddr_lap' = lap
        /\ file' = IF written THEN lap ELSE file
        /\ failed' = failed \cup Note("fwrite", written)
    /\ gen' = "idle"
    /\ UNCHANGED <<ap, bdaddr_valid, given, torn>>

\* The address that a configuration of the controller (FwConfig) leaves it with: the one of
\* the vendor storage, else the generated one, else the one in the nv file.
GetAddr ==
    /\ \E read \in Ok("ap") :
        /\ given' = given \cup {IF ap /\ read THEN "ap" ELSE IF bdaddr_valid THEN bdaddr_lap ELSE "nv"}
        /\ failed' = failed \cup Note("ap", read)
    /\ UNCHANGED <<ap, file, bdaddr_lap, bdaddr_valid, gen, torn>>

\* The variables of a new process.
AddrRestart ==
    /\ bdaddr_lap' = Default /\ bdaddr_valid' = TRUE
    /\ torn' = (torn \/ gen = "write")
    /\ gen' = "idle"
    /\ UNCHANGED <<ap, file, given, failed>>

\* The controller gets the same address in every session and process, unless a file or the
\* vendor storage could not be accessed; and a device gets the address that all devices
\* share only if the process once died between the creation of the file and its writing.
AddressStable ==
    failed \cap {"fopen", "fwrite", "ap"} = {} =>
        /\ Cardinality(given) <= 1
        /\ Default \in given => torn
=============================================================================
