----------------------------- MODULE WifiClients ----------------------------
(***************************************************************************)
(* The HAL's queries and the commands of wpa_supplicant, two processes, at    *)
(* the same driver.                                                          *)
(***************************************************************************)
EXTENDS WifiQueries, DriverCmd

VARIABLE halSet    \* history: the HAL set the country after wpa_supplicant last heard of it

vars == <<country, queryVars, cmdVars, halSet>>

Init == DriverInit /\ QueriesInit /\ CmdInit /\ halSet = FALSE

Framework ==
    /\ QueriesNext
    /\ halSet' = (halSet \/ country' # country)
    /\ UNCHANGED cmdVars

Supplicant ==
    /\ CmdNext
    /\ halSet' = (halSet /\ country' = country /\ known' = known)
    /\ UNCHANGED queryVars

Next == Framework \/ Supplicant

Spec == Init /\ [][Next]_vars

-----------------------------------------------------------------------------
(* Properties *)

Returns == qpc = "idle" /\ queries > 0

\* The framework's view of a channel: a P2P interface is a client or a group owner.
Roles(mode) == CASE mode = "P2P" -> {"GC", "GO"} [] mode \in {"STA", "AP"} -> {mode} [] OTHER -> {}
Serves(c, modes) == {m \in modes : Roles(m) \cap c.modes # {}}
View(c) == [freq |-> c.freq, modes |-> Serves(c, HalModes)]

Band(b) ==
    CASE b = "2_4" -> "2GHZ" [] b = "5_0" -> "5GHZ" [] b = "6_0" -> "6GHZ" [] b = "60_0" -> "60GHZ" [] OTHER -> "none"

Wanted(c) == (\E b \in query.bands : c.band = Band(b)) /\ Serves(c, query.modes) # {}
Elements(s) == {s[i] : i \in DOMAIN s}

\* What get_usable_channels promises: the channels of the bands and modes that were asked for,
\* without the restricted ones when the caller set the filter, and with them when it did not.
Promised(c) == Wanted(c) /\ ~(query.filter /\ c.restricted)

\* The request did not carry the caller's filter.
FilterLost == ~(request.filter <=> query.filter)

\* get_usable_channels keeps its promise, as far as the channels fit, but for three things: a
\* restricted channel is reported against the caller's filter, or missing although the caller
\* set none, only when what the uninitialised filter_mask held is not what the caller asked;
\* and a promised channel that P2P group owners alone may use is missing.
UsableExplained ==
    Returns /\ query.kind = "usable" /\ qfailed = {} =>
        LET got == result.answer
        IN  /\ got.num = Len(got.list) /\ got.num <= query.max
            /\ \A v \in Elements(got.list) : \E c \in Elements(Channels[at]) :
                v = View(c) /\ (Promised(c) \/ (Wanted(c) /\ FilterLost))
            /\ \A c \in Elements(Channels[at]) :
                Promised(c) =>
                    \/ View(c) \in Elements(got.list)
                    \/ got.num = query.max
                    \/ FilterLost /\ c.restricted
                    \/ Serves(c, query.modes) = {"P2P"} /\ "GC" \notin c.modes

\* The other queries return what the driver has.  After a failure every query returns nothing,
\* mostly without an error, but never what an earlier one left; an error comes with no answer.
AnswersRight ==
    Returns =>
        LET got == result.answer
        IN  /\ qfailed # {} \/ result.err => got = NoAnswer
            /\ qfailed = {} /\ query.kind = "valid" =>
                /\ got.num = Len(got.list)
                /\ Elements(got.list) = {c \in Elements(Channels[at]) : c.band \in query.bands}
            /\ qfailed = {} /\ query.kind = "rings" =>
                /\ got.num = Len(got.list)
                /\ Elements(got.list) = {r \in Elements(Rings) : r.fits}
            /\ qfailed = {} /\ query.kind \in {"version", "features", "filter"} =>
                /\ got.num = Info[query.kind]
                /\ query.kind = "filter" => got.list = <<Info.filterLen>>
            /\ qfailed = {} /\ query.kind = "country" => at = query.code

\* What wpa_supplicant believes is so: it has the channels of the driver's country, unless the
\* HAL set it since, and the state it announced is that of the flags, unless a call that sets
\* them failed; no command on the P2P device without a parent disturbs either.
SupplicantInformed ==
    /\ known # country => halSet
    /\ (announced = "STARTED") # up => "flags" \in cfailed

\* The number of consecutive failures that end with command i.
Failures(i) == CHOOSE n \in 1..i : (\A k \in (i - n + 1)..i : ~log[k]) /\ (n = i \/ log[i - n])

\* HANGED comes at every (DRV_NUMBER_SEQUENTIAL_ERRORS + 1)-th consecutive failure, over all
\* interfaces, and never else: successes, STOP, START, MACADDR and refused commands between
\* them do what they should to the counter.
HangedRight ==
    hanged = {i \in DOMAIN log : ~log[i] /\ Failures(i) % (DRV_NUMBER_SEQUENTIAL_ERRORS + 1) = 0}
=============================================================================
