------------------------------- MODULE ClientIP -------------------------------
(***************************************************************************)
(* The client IP resolvers (clientip.go) behind a chain of reverse proxies. *)
(* A request arrives with header values of its own, each proxy adds the     *)
(* address it sees to them and connects to the next, and the server asks a  *)
(* resolver for the address of the client.                                  *)
(*                                                                          *)
(* A resolver is a sequence of records [kind, n, guarded], the resolvers of *)
(* a chain, one if there is no chain: n is a count or a limit, guarded says *)
(* that it is behind a TrustedPeer.  However chains and trusted peers are   *)
(* nested, with one set of ranges they come down to this.                   *)
(***************************************************************************)
EXTENDS AddrList

CONSTANTS Clients,       \* the addresses of clients
          Proxies,       \* the addresses proxies connect from
          Unknown,       \* what stands for a peer without an address
          Headers,       \* [key, values]: the headers a request arrives with
          Written(_, _), \* how a proxy may write an address under a key
          Resolvers,     \* the resolvers the server may ask
          TrustedRanges, \* the ranges they are given
          MaxProxies

Punctuation == {Quote, Escape, Comma, Semicolon, Equals, Space, Colon, "[", "]", "port"}

\* Clients and proxies have addresses of their own, which no character is.
ASSUME ClientIPAssumption ==
    /\ Clients \cup Proxies \subseteq DOMAIN Addresses
    /\ Unknown \notin DOMAIN Addresses \cup Punctuation
    /\ DOMAIN Addresses \cap Punctuation = {}
    /\ \A a \in DOMAIN Addresses : Addresses[a] # Invalid
    /\ MaxProxies \in Nat

\* The trusted ranges are those of the proxies.
ASSUME RangesAssumption ==
    /\ TrustedRanges \subseteq DOMAIN Addresses
    /\ \A a \in Clients : /\ Addresses[a].ip \notin Unspecified
                          /\ ~IsContainedInRanges(Addresses[a], TrustedRanges)
    /\ \A a \in Proxies : /\ Addresses[a].ip \notin Unspecified
                          /\ IsContainedInRanges(Addresses[a], TrustedRanges)

\* Of the headers of clients nothing is assumed.
ASSUME HeadersAssumption ==
    \A h \in Headers : /\ h.key \in {"xff", "forwarded", "single"}
                      /\ h = [key |-> h.key, values |-> h.values]
                      /\ h.values \in Seq(Seq(STRING))

AddressOf(a) == IF a = Unknown THEN Invalid ELSE Addresses[a]

\* A proxy writes one item, in which the address it sees is found, and closes the
\* quoted strings it opens.
ASSUME WrittenAssumption ==
    \A a \in Clients \cup Proxies \cup {Unknown} :
        /\ \A t \in Written("single", a) : t \in Seq(STRING) /\ ParseAddr(t) = AddressOf(a)
        /\ \A key \in {"xff", "forwarded"} : \A t \in Written(key, a) :
              /\ t \in Seq(STRING)
              /\ LastSeparator(t, key, TRUE) = 0
              /\ key = "forwarded" => ~InQuotes(t)[Len(t)]
              /\ Item(t, key) = AddressOf(a)

Kinds == {"remoteAddr", "single", "leftmostNonPrivate", "rightmostNonPrivate",
          "rightmostTrustedCount", "rightmostTrustedRange"}

\* NewChain is given resolvers, of which those that read what a direct client may
\* write are behind a TrustedPeer; a count and a limit are positive.
ASSUME ResolversAssumption ==
    \A r \in Resolvers :
        /\ r \in Seq([kind : Kinds, n : Nat, guarded : BOOLEAN]) \ {<<>>}
        /\ \A i \in 1 .. Len(r) - 1 : r[i].guarded
        /\ \A i \in DOMAIN r :
              r[i].kind \in {"leftmostNonPrivate", "rightmostTrustedCount"} => r[i].n > 0

VARIABLES client,    \* the text of the address the client connects from
          header,    \* the header the resolvers read
          peer,      \* the other side of the last connection
          seen,      \* the peers the proxies wrote down, Unknown if they hid them
          answer     \* what the resolver returned

clientIPVars == <<client, header, peer, seen, answer>>

NoAnswer == [resolver |-> <<>>, ranged |-> TRUE, addr |-> Invalid]

-----------------------------------------------------------------------------
(* The resolvers; an error is the zero address. *)

Failed == Invalid

\* http.Request.RemoteAddr, with a port unless the peer is a Unix socket.
RemoteAddrText ==
    IF peer = Unknown THEN <<Unknown>>
    ELSE IF peer \in IPv6 THEN <<"[", peer, "]", Colon, "port">> ELSE <<peer, Colon, "port">>

RemoteAddr == ParseAddr(RemoteAddrText)

\* SingleIPHeader, lastHeader: the value is not trimmed.
SingleIPHeader ==
    IF header.key # "single" \/ header.values = <<>> THEN Failed ELSE ParseAddr(Last(header.values))

\* The values of the header a list resolver reads.
ListValues == IF header.key = "single" THEN <<>> ELSE header.values

\* The first item that is an address outside of the ranges.
FirstValidOutside(addrs, ranges) ==
    LET i == FirstIn({k \in DOMAIN addrs : addrs[k] # Invalid /\ ~IsContainedInRanges(addrs[k], ranges)})
    IN  IF i = 0 THEN Failed ELSE addrs[i]

LeftmostNonPrivate(limit) ==
    LET addrs == AddrSeq(ListValues, header.key)
    IN  FirstValidOutside(SubSeq(addrs, 1, Min({limit, Len(addrs)})), TrustedRanges)

RightmostNonPrivate ==
    FirstValidOutside(BackwardAddrSeq(ListValues, header.key), TrustedRanges)

RightmostTrustedCount(count) ==
    LET addrs == BackwardAddrSeq(ListValues, header.key)
    IN  IF count > Len(addrs) THEN Failed ELSE addrs[count]

\* Mutant of FirstUntrusted: an item that is not an address is passed over.
FirstValidUntrusted(addrs, ranges) == FirstValidOutside(addrs, ranges)

\* The loop of RightmostTrustedRange ends at the first item that is not trusted,
\* an address or not.
FirstUntrusted(addrs, ranges) ==
    LET i == FirstIn({k \in DOMAIN addrs : addrs[k] = Invalid \/ ~IsContainedInRanges(addrs[k], ranges)})
    IN  IF i = 0 THEN Failed ELSE addrs[i]

\* The connecting peer is an address outside of the trusted ranges.
UntrustedPeer == RemoteAddr # Invalid /\ ~IsContainedInRanges(RemoteAddr, TrustedRanges)

\* ranged is FALSE if the TrustedIPRange returns an error.
RightmostTrustedRange(ranged) ==
    IF ~ranged THEN Failed
    ELSE IF UntrustedPeer THEN RemoteAddr
    ELSE FirstUntrusted(BackwardAddrSeq(ListValues, header.key), TrustedRanges)

\* One resolver of a chain; TrustedPeer.ClientIP, if it is behind one.
Single(e, ranged) ==
    CASE e.guarded /\ (~ranged \/ UntrustedPeer) -> Failed
      [] OTHER ->
         CASE e.kind = "remoteAddr" -> RemoteAddr
           [] e.kind = "single" -> SingleIPHeader
           [] e.kind = "leftmostNonPrivate" -> LeftmostNonPrivate(e.n)
           [] e.kind = "rightmostNonPrivate" -> RightmostNonPrivate
           [] e.kind = "rightmostTrustedCount" -> RightmostTrustedCount(e.n)
           [] e.kind = "rightmostTrustedRange" -> RightmostTrustedRange(ranged)

\* Chain.ClientIP: the first answer that is no error.
FirstAnswer(answers) ==
    LET i == FirstIn({k \in DOMAIN answers : answers[k] # Failed})
    IN  IF i = 0 THEN Failed ELSE answers[i]

Resolved(r, ranged) == FirstAnswer([k \in DOMAIN r |-> Single(r[k], ranged)])

-----------------------------------------------------------------------------
ClientIPInit ==
    /\ client \in Clients
    /\ header \in Headers
    /\ peer = client
    /\ seen = <<>>
    /\ answer = NoAnswer

\* The values once a proxy has added the text, to the last value or as a new one.
Extended(text) ==
    {Append(header.values, text)} \cup
    (IF header.key = "single" \/ header.values = <<>> THEN {}
     ELSE {Append(Front(header.values), Last(header.values) \o <<Comma, Space>> \o text)})

\* The next proxy, which is not part of the program: it writes the peer it sees,
\* or hides it, and connects from its own address, or over a Unix socket.
Proxy ==
    /\ answer = NoAnswer /\ Len(seen) < MaxProxies
    /\ \E a \in {peer, Unknown} : \E text \in Written(header.key, a) :
          /\ header' \in [key : {header.key}, values : Extended(text)]
          /\ seen' = Append(seen, a)
    /\ peer' \in Proxies \cup {Unknown}
    /\ UNCHANGED <<client, answer>>

Resolve(r) ==
    /\ answer = NoAnswer
    /\ \E ranged \in BOOLEAN :
          answer' = [resolver |-> r, ranged |-> ranged, addr |-> Resolved(r, ranged)]
    /\ UNCHANGED <<client, header, peer, seen>>

ClientIPNext == Proxy \/ \E r \in Resolvers : Resolve(r)

ClientIPSpec == ClientIPInit /\ [][ClientIPNext]_clientIPVars

-----------------------------------------------------------------------------
(* Properties *)

Hidden == Unknown \in ToSet(seen)

\* The request came without the header, and no quoted comma was added.
OwnList == /\ Len(AddrSeq(header.values, header.key)) = Len(seen)
           /\ seen # <<>>

\* The deployments a resolver is documented for: r is asked behind as many proxies
\* as it counts on, or behind proxies whose addresses it trusts.
SuitedOne(e, ranged) ==
    /\ e.guarded => seen # <<>> /\ ranged
    /\ CASE e.kind = "remoteAddr" -> seen = <<>>
         [] e.kind = "single" -> header.key = "single" /\ Len(seen) = 1
         [] e.kind = "leftmostNonPrivate" -> header.key # "single" /\ OwnList
         [] e.kind = "rightmostNonPrivate" -> header.key # "single" /\ seen # <<>>
         [] e.kind = "rightmostTrustedCount" -> header.key # "single" /\ Len(seen) = e.n
         [] e.kind = "rightmostTrustedRange" -> header.key # "single" /\ ranged

Suited(r, ranged) == SuitedOne(IF seen = <<>> THEN Last(r) ELSE Head(r), ranged)

\* Whatever the header held when the request arrived, and however the proxies write
\* it (parameters in any order, quoted strings with commas, semicolons and escaped
\* quotes, ports and brackets, in one value or in several), a resolver that suits
\* the deployment returns the address of the client.
AnswerIsClient ==
    answer # NoAnswer /\ ~Hidden /\ Suited(answer.resolver, answer.ranged) =>
        answer.addr = Addresses[client]

\* The resolvers that go by what proxies wrote, behind enough of them.
GoesByProxies(r) ==
    \A i \in DOMAIN r :
        \/ r[i].kind \in {"remoteAddr", "rightmostTrustedRange"}
        \/ r[i].kind = "rightmostTrustedCount" /\ r[i].n <= Len(seen)

\* Even when proxies hide the addresses they see and when the trusted ranges cannot
\* be had, such a resolver returns an address some connection was made from, or an
\* error: never what the header held before the first proxy.
AnswerIsAPeer ==
    answer # NoAnswer /\ GoesByProxies(answer.resolver) =>
        answer.addr \in {Addresses[a] : a \in {client} \cup Proxies} \cup {Failed}
=============================================================================
