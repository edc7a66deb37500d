----------------------------- MODULE WifiQueries ----------------------------
(***************************************************************************)
(* The queries of the Wi-Fi HAL (wifi_hal/main.cpp): get_usable_channels,     *)
(* with its conversions of band and mode masks, get_valid_channels,           *)
(* get_ring_buffers_status, the queries of a single value, and                *)
(* set_country_code.  The framework makes one call at a time.                 *)
(*                                                                         *)
(* A mask is the set of its bits.                                            *)
(***************************************************************************)
EXTENDS WifiDriver

CONSTANTS
    Queries,       \* the calls of the framework
    MaxQueries,    \* bound on their number
    QueryFaults    \* what may fail: "send", "error" (from the kernel), "lost" (the reply)

HalBands == {"2_4", "5_0", "6_0", "60_0", "other"}
HalModes == {"STA", "AP", "P2P", "other"}

Query ==
    [kind : {"usable"}, bands : SUBSET HalBands, modes : SUBSET HalModes, max : Nat, filter : BOOLEAN]
    \cup [kind : {"valid"}, bands : SUBSET SkwBands]
    \cup [kind : {"rings", "version", "features", "filter"}]
    \cup [kind : {"country"}, code : Countries]

ASSUME QueriesAssumption == Queries \subseteq Query /\ MaxQueries \in Nat

NoMessage == [data |-> <<>>]
NoAnswer == [num |-> 0, list |-> <<>>]

VARIABLES
    qpc,           \* the framework's thread: "idle", "asked", "reply", "end"
    query,         \* the call
    request,       \* skw_usable_chan_info, as it is sent
    reply,         \* the driver's message, by attributes
    answer,        \* the members that the parser fills
    result,        \* what the latest call returned
    at,            \* history: the country when the driver answered
    qfailed,       \* history: what failed in this call
    queries        \* calls so far

queryVars == <<qpc, query, request, reply, answer, result, at, qfailed, queries>>

QueriesInit ==
    /\ qpc = "idle" /\ query = [kind |-> "none"]
    /\ request = [bands |-> {}, modes |-> {}, filter |-> FALSE]
    /\ reply = NoMessage /\ answer = NoAnswer
    /\ result = [answer |-> NoAnswer, err |-> FALSE]
    /\ at = country /\ qfailed = {} /\ queries = 0

-----------------------------------------------------------------------------
(* Conversions *)

\* The loops take one bit of the mask after the other; what a bit has no counterpart for
\* (SKW_INVALID) is left out.
ToSkwBand(b) ==
    CASE b = "2_4" -> {"2GHZ"} [] b = "5_0" -> {"5GHZ"} [] b = "6_0" -> {"6GHZ"} [] b = "60_0" -> {"60GHZ"}
      [] OTHER -> {}
ToSkwBandMask(mask) == UNION {ToSkwBand(b) : b \in mask}

ToHalIfaceModeMask(m) ==
    CASE m = "STA" -> {"STA"} [] m = "AP" -> {"AP"} [] m \in {"GC", "GO"} -> {"P2P"} [] OTHER -> {}
ToHalIfaceMask(mask) == UNION {ToHalIfaceModeMask(m) : m \in mask}

\* Slip: the mode of a P2P device instead of a client's.
ToSkwIfaceModeMaskDev(m) ==
    CASE m = "STA" -> {"STA"} [] m = "AP" -> {"AP"} [] m = "P2P" -> {"P2P_DEV"} [] OTHER -> {}

ToSkwIfaceModeMask(m) ==
    CASE m = "STA" -> {"STA"} [] m = "AP" -> {"AP"} [] m = "P2P" -> {"GC"} [] OTHER -> {}
ToSkwIfaceMask(mask) == UNION {ToSkwIfaceModeMask(m) : m \in mask}

-----------------------------------------------------------------------------
(* A call *)

QueryOk(call) == IF call \in QueryFaults THEN BOOLEAN ELSE {TRUE}

\* The constructors clear what the parser fills; then build and send.
Asked(q) ==
    /\ qpc = "idle" /\ queries < MaxQueries
    /\ queries' = queries + 1
    /\ query' = q /\ answer' = NoAnswer
    /\ \E sent \in QueryOk("send") :
        /\ qpc' = IF sent THEN "asked" ELSE "end"
        /\ qfailed' = IF sent THEN {} ELSE {"send"}
    /\ UNCHANGED <<country, reply, result, at>>

\* The filter_mask of the framework is not copied to the request, which is not initialised.
GetUsableChannels(q) ==
    /\ q.kind = "usable" /\ Asked(q)
    /\ request' \in [bands : {ToSkwBandMask(q.bands)}, modes : {ToSkwIfaceMask(q.modes)}, filter : BOOLEAN]

GetValidChannels(q) == q.kind = "valid" /\ Asked(q) /\ UNCHANGED request
GetRingBuffStatus(q) == q.kind = "rings" /\ Asked(q) /\ UNCHANGED request
GetVersion(q) == q.kind = "version" /\ Asked(q) /\ UNCHANGED request
GetLoggerFeature(q) == q.kind = "features" /\ Asked(q) /\ UNCHANGED request
GetPacketFilterCapa(q) == q.kind = "filter" /\ Asked(q) /\ UNCHANGED request
SetCountryCode(q) == q.kind = "country" /\ Asked(q) /\ UNCHANGED request

\* The driver's answer.
Reply ==
    CASE query.kind = "usable" -> [data |-> Usable(request.bands, request.modes, request.filter)]
      [] query.kind = "valid" -> [nr_channels |-> Len(Valid(query.bands)), channels |-> Valid(query.bands)]
      [] query.kind = "rings" -> [num_rings |-> Len(Rings), rings |-> Rings]
      [] query.kind \in {"version", "features"} -> [data |-> Info[query.kind]]
      [] query.kind = "filter" -> [version |-> Info.filter, max_len |-> Info.filterLen]
      [] OTHER -> NoMessage

\* The driver handles the command: it answers, or returns an error and does nothing.
Handle ==
    /\ qpc = "asked"
    /\ \E ok \in QueryOk("error") :
        /\ qpc' = IF ok THEN "reply" ELSE "end"
        /\ reply' = IF ok THEN Reply ELSE NoMessage
        /\ country' = IF ok /\ query.kind = "country" THEN query.code ELSE country
        /\ qfailed' = IF ok THEN qfailed ELSE qfailed \cup {"error"}
    /\ at' = country'
    /\ UNCHANGED <<query, request, answer, result, queries>>

-----------------------------------------------------------------------------
(* The parsers *)

Fitting == {r \in Ring : r.fits}

\* Slip: the number of rings is what the driver says.
ParseRingsCount(m) == [num |-> m.num_rings, list |-> Filter(m.rings, Fitting)]

\* A ring whose status has another size is not copied and not counted; the driver's number of
\* rings only goes to the log.
ParseRings(m) ==
    LET fitting == Filter(m.rings, Fitting)
    IN  [num |-> Len(fitting), list |-> fitting]

ParseUsable(m) == [num |-> 0, list |-> m.data]
ParseChannels(m) == [num |-> m.nr_channels, list |-> m.channels]
ParseVersion(m) == [num |-> m.data, list |-> <<>>]
ParseFeatures(m) == [num |-> m.data, list |-> <<>>]
ParseFilter(m) == [num |-> m.version, list |-> <<m.max_len>>]

Parse(m) ==
    CASE query.kind = "usable" -> ParseUsable(m)
      [] query.kind = "valid" -> ParseChannels(m)
      [] query.kind = "rings" -> ParseRings(m)
      [] query.kind = "version" -> ParseVersion(m)
      [] query.kind = "features" -> ParseFeatures(m)
      [] query.kind = "filter" -> ParseFilter(m)
      [] OTHER -> NoAnswer

\* msgHandler; the message may be lost or have no data.
Receive ==
    /\ qpc = "reply"
    /\ \E ok \in QueryOk("lost") :
        /\ answer' = IF ok THEN Parse(reply) ELSE answer
        /\ qfailed' = IF ok THEN qfailed ELSE qfailed \cup {"lost"}
    /\ qpc' = "end" /\ reply' = NoMessage
    /\ UNCHANGED <<country, query, request, result, at, queries>>

\* At most max_size channels are returned.
Size(len) == IF len > query.max THEN query.max ELSE len

\* get_usable_channels converts the channels; the others return what the parser found.
ReturnedUsable ==
    LET size == Size(Len(answer.list))
    IN  [num |-> size,
         list |-> [i \in 1..size |-> [freq |-> answer.list[i].freq,
                                      modes |-> ToHalIfaceMask(answer.list[i].modes)]]]

Returned == IF query.kind = "usable" THEN ReturnedUsable ELSE answer

\* Three of the calls report that the command could not be sent; sendMsg takes an error from
\* the kernel for a success, and the other calls report success whatever it says.
Reports == {"valid", "country", "version"}

\* The acknowledgement or the error ends the call.  No answer: zeros, or, when the version
\* could not be asked for, a buffer that is not written.
Return ==
    /\ qpc = "end"
    /\ qpc' = "idle"
    /\ result' = [answer |-> Returned, err |-> query.kind \in Reports /\ "send" \in qfailed]
    /\ UNCHANGED <<country, query, request, reply, answer, at, qfailed, queries>>

QueriesNext ==
    \/ \E q \in Queries :
        \/ GetUsableChannels(q) \/ GetValidChannels(q) \/ GetRingBuffStatus(q)
        \/ GetVersion(q) \/ GetLoggerFeature(q) \/ GetPacketFilterCapa(q) \/ SetCountryCode(q)
    \/ Handle \/ Receive \/ Return
=============================================================================
