----------------------------- MODULE WifiDriver -----------------------------
(***************************************************************************)
(* The Wi-Fi driver as its two clients, the HAL and wpa_supplicant, see it    *)
(* (external): the country it is set to and the channels usable there.        *)
(***************************************************************************)
EXTENDS Integers, Sequences

CONSTANTS
    Countries,
    Channels,      \* of each country: sequences of channels
    Rings,         \* the driver's ring buffers, and whether their status has the HAL's size
    Info           \* its version, its logger features, and version and size of its packet filter

SkwBands == {"2GHZ", "5GHZ", "6GHZ", "60GHZ"}
SkwModes == {"STA", "AP", "GC", "GO", "P2P_DEV", "IBSS"}
Channel == [freq : Nat, band : SkwBands, modes : SUBSET SkwModes, restricted : BOOLEAN]
Ring == [name : STRING, fits : BOOLEAN]

ASSUME DriverAssumption ==
    /\ Countries # {}
    /\ DOMAIN Channels = Countries /\ \A c \in Countries : Channels[c] \in Seq(Channel)
    /\ Rings \in Seq(Ring)
    /\ Info \in [{"version", "features", "filter", "filterLen"} -> Nat \ {0}]

VARIABLE country

DriverInit == country \in Countries

\* The members of S in the sequence s: SelectSeq with a set for its test.
Filter(s, S) ==
    LET kept[i \in 0..Len(s)] ==
            IF i = 0 THEN <<>>
            ELSE IF s[i] \in S THEN Append(kept[i-1], s[i]) ELSE kept[i-1]
    IN  kept[Len(s)]

\* The channels of the country in some of the bands, for one of the modes; a filter leaves out
\* the restricted ones.
Usable(bands, modes, filter) ==
    Filter(Channels[country],
           {c \in Channel : c.band \in bands /\ c.modes \cap modes # {} /\ ~(filter /\ c.restricted)})

Valid(bands) == Filter(Channels[country], {c \in Channel : c.band \in bands})
=============================================================================
