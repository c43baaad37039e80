------------------------------ MODULE RequestRules ------------------------------
(***************************************************************************)
(* What Squiddish does with a request before and while it forwards it      *)
(* (proxy/handler.rs): the checks of validate_request, the target of       *)
(* CONNECT, the choice of a handler, and the headers sent on.  Pure        *)
(* operators, used by ProxyServer.                                         *)
(*                                                                         *)
(* Data: a host or an authority is a sequence of characters of which only  *)
(* ".", ":", "[" and "]" mean something; any other element may stand for a *)
(* run of characters, a decimal number among them.  Letter case, which the *)
(* code ignores, is left out.  Headers are sets of names.                  *)
(***************************************************************************)
EXTENDS Integers, Sequences, SequencesExt

CONSTANTS
    NoHost,      \* no host, no authority
    PortNumber,  \* the texts that parse as u16 -> their numbers
    OwnVia       \* "1.1 squiddish"

ASSUME PortAssumption == \A p \in DOMAIN PortNumber : PortNumber[p] \in 0..65535

At(s, c) == {i \in DOMAIN s : s[i] = c}
Before(s, i) == SubSeq(s, 1, i - 1)
After(s, i) == SubSeq(s, i + 1, Len(s))

\* strip_host_port: what is in brackets; a name with several colons as it is;
\* otherwise what stands before the colon.
StripHostPort(host) ==
    IF host # <<>> /\ host[1] = "[" THEN
        IF At(host, "]") = {} THEN Tail(host)
        ELSE SubSeq(host, 2, Min(At(host, "]")) - 1)
    ELSE IF Cardinality(At(host, ":")) # 1 THEN host
    ELSE Before(host, Max(At(host, ":")))

\* Mutant: any suffix of the name matches.
HostMatchesSuffix(host, pattern) ==
    LET name == StripHostPort(host) IN
    /\ Len(name) >= Len(pattern)
    /\ After(name, Len(name) - Len(pattern)) = pattern

\* host_matches: the name itself, or a suffix after a dot.
HostMatches(host, pattern) ==
    LET name == StripHostPort(host)
        rest == Len(name) - Len(pattern)
    IN  \/ name = pattern
        \/ rest > 0 /\ After(name, rest) = pattern /\ name[rest] = "."

\* README, "Host Filtering": example.com stands for itself and its
\* subdomains (what HostMatches is compared with).
InDomain(name, domain) == name = domain \/ IsSuffix(<<".">> \o domain, name)

\* The authority names the host n: n, or n in brackets, and a port or none
\* (what StripHostPort, UriHost and ConnectTarget are compared with).
Names(authority, n) ==
    \E i \in 0..Len(authority) :
        LET host == SubSeq(authority, 1, i)  port == After(authority, i) IN
        /\ port # <<>> => port[1] = ":" /\ At(Tail(port), ":") = {}
        /\ \/ host = n /\ At(n, ":") = {} /\ At(n, "[") = {}
           \/ host = <<"[">> \o n \o <<"]">> /\ At(n, "]") = {}

\* The parts of an authority a host can be.
Parts(authority) ==
    {SubSeq(authority, i, j) : i \in {1, 2}, j \in 0..Len(authority)}

\* http::Uri::host: the authority without the port.
UriHost(authority) ==
    IF authority = NoHost THEN NoHost
    ELSE IF authority # <<>> /\ authority[1] = "[" THEN
        SubSeq(authority, 1, Min(At(authority, "]")))
    ELSE IF At(authority, ":") = {} THEN authority
    ELSE Before(authority, Min(At(authority, ":")))

HostOf(q) == IF q.authority # NoHost THEN UriHost(q.authority) ELSE q.host

\* validate_request, with the settings s.
Valid(q, s) ==
    LET named == HostOf(q) # NoHost
        matches(p) == HostMatches(HostOf(q), p)
    IN  /\ OwnVia \notin q.via
        /\ s["ALLOWED_HOSTS"] # {} =>
              named /\ \E p \in s["ALLOWED_HOSTS"] : matches(p)
        /\ s["BLOCKED_HOSTS"] # {} =>
              named /\ \A p \in s["BLOCKED_HOSTS"] : ~matches(p)
        /\ q.scheme \/ q.method = "CONNECT"

\* The text of a port; the empty one is none.
IsPort(s) == Len(s) = 1 /\ s[1] \in DOMAIN PortNumber

Target(host, port) ==
    IF IsPort(port) THEN [host |-> host, port |-> PortNumber[port[1]]]
    ELSE NoHost

\* parse_connect_uri: host and port, NoHost for an error.
ConnectTarget(authority) ==
    IF authority = NoHost THEN NoHost
    ELSE IF authority # <<>> /\ authority[1] = "[" THEN
        IF At(authority, "]") = {} THEN NoHost
        ELSE LET end == Min(At(authority, "]"))
                 rest == After(authority, end)
             IN  IF rest # <<>> /\ rest[1] = ":"
                 THEN Target(SubSeq(authority, 1, end), Tail(rest))
                 ELSE [host |-> SubSeq(authority, 1, end), port |-> 443]
    ELSE IF At(authority, ":") = {} THEN [host |-> authority, port |-> 443]
    ELSE LET colon == Max(At(authority, ":")) IN
         Target(Before(authority, colon), After(authority, colon))

\* Mutant: strict_https is not looked at.
RouteAnyPort(q, s) ==
    IF ~Valid(q, s) THEN "refused"
    ELSE IF q.method = "CONNECT" THEN
        IF ConnectTarget(q.authority) = NoHost THEN "refused" ELSE "dialing"
    ELSE IF q.method \in {"GET", "HEAD"} THEN "cacheable"
    ELSE "uploading"

\* handle_request, and handle_connect up to the dialing of the target.
Route(q, s) ==
    LET target == ConnectTarget(q.authority) IN
    IF ~Valid(q, s) THEN "refused"
    ELSE IF q.method = "CONNECT" THEN
        IF target = NoHost \/ (s["STRICT_HTTPS"] /\ target.port # 443)
        THEN "refused" ELSE "dialing"
    ELSE IF q.method \in {"GET", "HEAD"} THEN "cacheable"
    ELSE "uploading"

HopByHop ==
    {"connection", "keep-alive", "proxy-authenticate", "proxy-authorization",
     "te", "trailers", "transfer-encoding", "upgrade"}

\* filter_headers: the well-known ones and those the Connection header lists.
FilterHeaders(names, connection) == names \ (HopByHop \cup connection)

\* Mutant: the Via entry is added before the headers are filtered.
ForwardedFiltered(q) ==
    LET names == FilterHeaders(q.headers \cup {"via"}, q.connection) IN
    [q EXCEPT !.headers = names, !.connection = {},
              !.via = IF "via" \in names THEN @ \cup {OwnVia} ELSE {}]

\* The request sent on: filtered, then signed.
Forwarded(q) ==
    LET names == FilterHeaders(q.headers, q.connection) IN
    [q EXCEPT !.headers = names \cup {"via"}, !.connection = {},
              !.via = IF "via" \in names THEN @ \cup {OwnVia} ELSE {OwnVia}]

=============================================================================
