----------------------------- MODULE MCProxyServer -----------------------------
(* TLC instances of ProxyServer.                                           *)
EXTENDS ProxyServer, TLC

CONSTANTS c1, c2

\* Words of ten bits, and units that let sizes and durations leave them.
MCSizeUnits == [b |-> 1, kb |-> 2, mb |-> 4, gb |-> 8, tb |-> 16]
MCDurationUnits == [s |-> 1, m |-> 2, h |-> 4, d |-> 8]
MCPortNumber == ("443" :> 443) @@ ("80" :> 80)

\* An environment that sets some variables.
Sets(settings) ==
    [v \in Vars |-> IF v \in DOMAIN settings THEN settings[v] ELSE None]

Domain == <<"com">>
Sub == <<"www", ".", "com">>
Lookalike == <<"x", "com">>
Address == <<"[", ":", ":", "1", "]">>

MCEnvironments == {
    \* one connection; tunnels to any port; nothing of the domain
    Sets("MAX_CONNECTIONS" :> Number(1, 1, "none")
         @@ "STRICT_HTTPS" :> FALSE @@ "BLOCKED_HOSTS" :> <<Domain, <<>>>>),
    \* two connections; the domain only; a size that saturates
    Sets("MAX_CONNECTIONS" :> Number(2, 1, "none")
         @@ "ALLOWED_HOSTS" :> <<Domain, <<":", ":", "1">>>>
         @@ "DISK_SIZE" :> Number(100, 1, "tb")),
    \* three, for two clients with a tunnel each; a duration that wraps around
    Sets("MAX_CONNECTIONS" :> Number(3, 1, "none")
         @@ "TTL" :> Number(200, 1, "d") @@ "MEMORY_SIZE" :> Number(5, 2, "kb")),
    \* a timeout that wraps around to zero; half a byte; a word; no number
    Sets("TIMEOUT" :> Number(128, 1, "d")),
    Sets("MAX_BODY_SIZE" :> Number(1, 2, "b")),
    Sets("APT_ENABLED" :> Unparsable),
    Sets("TIMEOUT" :> Number(3, 2, "m"))}

Request(method, authority, via, connection) ==
    [method |-> method, scheme |-> method # "CONNECT",
     authority |-> authority, host |-> NoHost,
     headers |-> IF via = {} THEN {"te"} ELSE {"te", "via"},
     via |-> via, connection |-> connection]

Port(p) == <<":", p>>

MCRequests == {
    Request("CONNECT", Sub \o Port("443"), {}, {}),
    Request("CONNECT", Address \o Port("80"), {}, {}),
    Request("CONNECT", Lookalike, {}, {}),
    Request("CONNECT", Domain \o Port("x"), {}, {}),
    Request("GET", Lookalike \o Port("80"), {OwnVia}, {}),
    Request("POST", Domain \o Port("80"), {"1.0 other"}, {"via"}),
    Request("HEAD", Sub, {}, {}),
    [Request("GET", NoHost, {}, {}) EXCEPT !.scheme = FALSE, !.host = Sub]}

=============================================================================
