-------------------------------- MODULE Aurl --------------------------------
(***************************************************************************)
(* Abyss URLs (src/aurl/abyss_url.go) as text and as records.  A text is a *)
(* sequence of tokens: the separators the parser looks for are tokens of   *)
(* their own, a hash, an IP address, a port or a word of a path is one     *)
(* token each.                                                             *)
(***************************************************************************)
EXTENDS Naturals, Sequences, SequencesExt

CONSTANTS
    Ids,    \* tokens that IsValidPeerID takes: 32 or more base58 characters
    IPv4,   \* tokens that net.ParseIP takes, written without brackets
    IPv6,   \* and with brackets
    Ports   \* tokens that strconv.Atoi takes

AURLs == [scheme : STRING, hash : STRING, addresses : Seq([ip : STRING, port : STRING]), path : Seq(STRING)]

\* What TryParse returns with an error.
NoAURL == [scheme |-> "", hash |-> "", addresses |-> <<>>, path |-> <<>>]

\* Position of the first token tok, 0 if there is none.
First(text, tok) ==
    LET at == {k \in DOMAIN text : text[k] = tok} IN IF at = {} THEN 0 ELSE Min(at)

\* strings.Split.
Split(text, tok) ==
    LET cuts == <<0>> \o SetToSortSeq({k \in DOMAIN text : text[k] = tok}, <) \o <<Len(text) + 1>>
    IN  [k \in 1..Len(cuts) - 1 |-> SubSeq(text, cuts[k] + 1, cuts[k + 1] - 1)]

-----------------------------------------------------------------------------
\* Mutant: an IPv6 address is not put in brackets.
AddrStringPlain(a) == <<a.ip, ":", a.port>>

\* net.UDPAddr.String
AddrString(a) ==
    IF a.ip \in IPv6 THEN <<"[", a.ip, "]", ":", a.port>> ELSE <<a.ip, ":", a.port>>

AURLToString(a) ==
    LET Candidate(k) == (IF k = 1 THEN <<":">> ELSE <<"|">>) \o AddrString(a.addresses[k])
    IN  <<a.scheme, a.hash>>
        \o FlattenSeq([k \in DOMAIN a.addresses |-> Candidate(k)])
        \o <<"/">> \o a.path

IsValidPeerID(text) == Len(text) = 1 /\ text[1] \in Ids

\* One candidate between bars: an endpoint, or nothing where the parser goes on
\* to the next one.
Endpoint(ep) ==
    LET bracketed == ep # <<>> /\ ep[1] = "["
        ip        == IF bracketed THEN ep[2] ELSE ep[1]
    IN  IF /\ Len(ep) = IF bracketed THEN 5 ELSE 3
           /\ bracketed => ep[3] = "]"
           /\ ep[Len(ep) - 1] = ":"
           /\ ip \in (IF bracketed THEN IPv4 \cup IPv6 ELSE IPv4) /\ ep[Len(ep)] \in Ports
        THEN <<[ip |-> ip, port |-> ep[Len(ep)]]>>
        ELSE <<>>

Endpoints(text) ==
    LET eps == Split(text, "|") IN FlattenSeq([k \in DOMAIN eps |-> Endpoint(eps[k])])

\* The hash ends at the first colon, wherever that is, or at the first slash.
tryParseAbyss(body) ==
    LET addrStart == First(body, ":")
        pathStart == First(body, "/")
        pathEnd   == Len(body)
        hashEnd   == IF addrStart # 0 THEN addrStart
                     ELSE IF pathStart # 0 THEN pathStart ELSE pathEnd + 1
        addrEnd   == IF pathStart # 0 THEN pathStart ELSE pathEnd + 1
        hash      == SubSeq(body, 1, hashEnd - 1)
    IN  IF ~IsValidPeerID(hash) THEN NoAURL
        ELSE [scheme    |-> "abyss:",
              hash      |-> hash[1],
              addresses |-> IF addrStart = 0 THEN <<>>
                            ELSE Endpoints(SubSeq(body, addrStart + 1, addrEnd - 1)),
              path      |-> IF pathStart = 0 THEN <<>> ELSE SubSeq(body, pathStart + 1, pathEnd)]

\* The hash of an abyst URL is checked only where no path follows; a hash that
\* is not one token is no hash of any peer.
tryParseAbyst(body) ==
    LET slashIndex == First(body, "/")
        hash       == IF slashIndex = 0 THEN body ELSE SubSeq(body, 1, slashIndex - 1)
    IN  IF slashIndex = 0 /\ ~IsValidPeerID(body) THEN NoAURL
        ELSE [scheme    |-> "abyst:",
              hash      |-> IF Len(hash) = 1 THEN hash[1] ELSE "?",
              addresses |-> <<>>,
              path      |-> IF slashIndex = 0 THEN <<>>
                            ELSE SubSeq(body, slashIndex + 1, Len(body))]

TryParse(text) ==
    CASE text # <<>> /\ text[1] = "abyss:" -> tryParseAbyss(Tail(text))
      [] text # <<>> /\ text[1] = "abyst:" -> tryParseAbyst(Tail(text))
      [] OTHER -> NoAURL
=============================================================================
