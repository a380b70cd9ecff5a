--------------------------- MODULE MC_AhmpStream ----------------------------
(* An instance of AhmpStream for TLC: AND, which sends with api_mtx held, and *)
(* another goroutine, which denies joins or shares objects without it.       *)
(* Times are in tenths of a millisecond.                                     *)
EXTENDS AhmpStream

CONSTANTS and, other

Url(addresses) ==
    [scheme |-> "abyss:", hash |-> "Id", addresses |-> addresses, path |-> <<"/">>]

v4 == [ip |-> "10.0.0.1", port |-> "80"]
v6 == [ip |-> "fd00::1", port |-> "81"]

Message(type, ssid, rsid, time, list) ==
    [type |-> type, ssid |-> ssid, rsid |-> rsid, time |-> time, list |-> list]

Neighbor(sid, addresses) == [sid |-> sid, url |-> Url(addresses), time |-> 25, rest |-> ""]

Other(sid, rest) == [sid |-> sid, url |-> NoAURL, time |-> 0, rest |-> rest]

MCMessagesOf ==
    (and :> {Message("JN", "a", "", 15, <<>>),
             Message("JOK", "a", "b", 15, <<Neighbor("c", <<v4, v6>>), Neighbor("d", <<>>)>>),
             Message("JNI", "a", "b", 0, <<Neighbor("c", <<v6>>)>>),
             Message("MEM", "a", "b", 15, <<>>),
             Message("SJN", "a", "b", 0, <<Other("c", "Id")>>),
             Message("CRR", "a", "b", 0, <<Other("c", "Id")>>),
             Message("RST", "a", "nil", 0, <<>>)})
    @@ (other :> {Message("JDN", "", "b", 0, <<>>),
                  Message("SOA", "a", "b", 0, <<Other("o", "x")>>),
                  Message("SOD", "a", "b", 0, <<Other("o", "")>>)})

MCMaxSends == (and :> 1) @@ (other :> 2)
=============================================================================
