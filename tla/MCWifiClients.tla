--------------------------- MODULE MCWifiClients ----------------------------
(* Instances of WifiClients for TLC. *)
EXTENDS WifiClients

Ch(f, b, m, r) == [freq |-> f, band |-> b, modes |-> m, restricted |-> r]

MCCountries == {"US", "DE"}

\* Channels for clients and for owners only, restricted ones, and other channels elsewhere.
MCChannels ==
    [c \in MCCountries |->
        IF c = "US"
        THEN << Ch(2412, "2GHZ", {"STA", "AP", "GC", "GO"}, FALSE), Ch(5180, "5GHZ", {"STA", "GO", "P2P_DEV"}, FALSE),
                Ch(5260, "5GHZ", {"STA"}, TRUE), Ch(5745, "5GHZ", {"AP", "GC"}, FALSE) >>
        ELSE << Ch(2412, "2GHZ", {"STA", "AP", "GC"}, FALSE), Ch(5955, "6GHZ", {"STA", "IBSS"}, FALSE) >>]

MCRings == <<[name |-> "ring0", fits |-> TRUE], [name |-> "ring1", fits |-> FALSE], [name |-> "ring2", fits |-> TRUE]>>

MCInfo == [version |-> 7, features |-> 3, filter |-> 2, filterLen |-> 100]

UsableQuery(b, m, n, f) == [kind |-> "usable", bands |-> b, modes |-> m, max |-> n, filter |-> f]

MCQueries ==
    { UsableQuery({"2_4", "5_0", "other"}, {"STA"}, 4, TRUE), UsableQuery({"5_0", "6_0"}, {"P2P", "AP", "other"}, 4, FALSE),
      UsableQuery({"2_4", "5_0"}, {"P2P"}, 4, FALSE), UsableQuery({"2_4", "5_0", "6_0", "60_0"}, {"STA", "AP"}, 1, FALSE),
      UsableQuery({"5_0"}, {"STA"}, 4, FALSE),
      [kind |-> "valid", bands |-> {"5GHZ"}], [kind |-> "rings"],
      [kind |-> "version"], [kind |-> "features"], [kind |-> "filter"],
      [kind |-> "country", code |-> "US"], [kind |-> "country", code |-> "DE"] }
=============================================================================
