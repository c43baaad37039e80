------------------------------ MODULE ProxyServer ------------------------------
(***************************************************************************)
(* The Squiddish process (main.rs, proxy/mod.rs, proxy/handler.rs,         *)
(* proxy/tunnel.rs): it loads its configuration, accepts connections up to *)
(* a limit, serves one request after another on each, and turns a          *)
(* connection that asks for CONNECT into a tunnel.                         *)
(*                                                                         *)
(* The limit is a semaphore.  The task of a connection holds one permit    *)
(* until the connection ends; the task of a tunnel takes a second one,     *)
(* while its connection still has the first, and outlives it.  Both tasks, *)
(* the accept loop, the clients and the targets interleave.                *)
(*                                                                         *)
(* A cacheable request is one step here: TieredCache and                   *)
(* InflightDownloads have its inside.  A client that closes its socket is  *)
(* noticed at any later step.  A client is one peer address: it connects   *)
(* again only when nothing is left of its last connection.                 *)
(***************************************************************************)
EXTENDS Configuration, RequestRules

CONSTANTS
    Clients,       \* peer addresses
    Environments,  \* the environments the process may be started with
    Requests       \* the requests clients may send

ASSUME ClientsAssumption == IsFiniteSet(Clients)

ASSUME RequestsAssumption ==
    /\ Requests \subseteq
          [method : STRING, scheme : BOOLEAN,
           authority : {NoHost} \cup Seq(STRING), host : {NoHost} \cup Seq(STRING),
           headers : SUBSET STRING, via : SUBSET STRING,
           connection : SUBSET STRING]
    /\ None \notin Requests

\* What http::Uri parses, and userinfo apart: a request with a scheme has an
\* authority, and that is a name or a bracketed address, with a port or none.
ASSUME AuthoritiesAssumption ==
    \A q \in Requests :
        /\ q.scheme => q.authority # NoHost
        /\ q.authority # NoHost =>
              \E n \in Parts(q.authority) : Names(q.authority, n)

ASSUME EnvironmentsAssumption ==
    \A e \in Environments :
        /\ \A v \in SizeVars \cup DurationVars \cup CountVars :
              e[v] \in Text \cup {None, Unparsable}
        /\ \A v \in HostVars : e[v] \in {None} \cup Seq(Seq(STRING))

VARIABLES
    env,      \* the environment
    server,   \* state of the process
    config,   \* the settings, once loaded
    permits,  \* what is left in the semaphore
    conn,     \* state of each connection
    asked,    \* the request it handles, or that opened its tunnel
    tunnel,   \* state of each client's tunnel
    gone      \* whether the client has closed its socket

process == <<env, server, config>>
vars == <<process, permits, conn, asked, tunnel, gone>>

\* The states of a connection whose task runs.
Serving ==
    {"open", "cacheable", "uploading", "fetching", "collecting", "dialing",
     "switching", "closing"}

ConnState == {"away", "queued"} \cup Serving
TunnelState == {"none", "upgrading", "copying", "halfClosed"}

TypeOK ==
    /\ env     \in Environments
    /\ server  \in {"starting", "serving", "failed", "stopped"}
    /\ config  \in {None, FromVars(env)}
    /\ permits \in Nat
    /\ conn    \in [Clients -> ConnState]
    /\ asked   \in [Clients -> Requests \cup {None}]
    /\ tunnel  \in [Clients -> TunnelState]
    /\ gone    \in [Clients -> BOOLEAN]

Init ==
    /\ env \in Environments
    /\ server = "starting"
    /\ config = None
    /\ permits = 0
    /\ conn = [c \in Clients |-> "away"]
    /\ asked = [c \in Clients |-> None]
    /\ tunnel = [c \in Clients |-> "none"]
    /\ gone = [c \in Clients |-> FALSE]

-----------------------------------------------------------------------------
(* The process.                                                            *)

\* main: the configuration is loaded, the cache directory opened and the
\* address bound; the semaphore gets max_connections permits.
Load ==
    LET loaded == FromVars(env) IN
    /\ server = "starting" /\ loaded # Unparsable
    /\ server' = "serving" /\ config' = loaded
    /\ permits' = loaded["MAX_CONNECTIONS"]
    /\ UNCHANGED <<env, conn, asked, tunnel, gone>>

\* A variable does not parse, or the cache or the listener cannot be set up.
LoadFails ==
    /\ server = "starting"
    /\ server' = "failed"
    /\ UNCHANGED <<env, config, permits, conn, asked, tunnel, gone>>

\* ctrl_c ends the accept loop and main; the runtime drops every task.
Shutdown ==
    /\ server = "serving"
    /\ server' = "stopped"
    /\ conn' = [c \in Clients |-> "away"]
    /\ asked' = [c \in Clients |-> None]
    /\ tunnel' = [c \in Clients |-> "none"]
    /\ gone' = [c \in Clients |-> FALSE]
    /\ UNCHANGED <<env, config, permits>>

-----------------------------------------------------------------------------
(* The accept loop.                                                        *)

Connect(c) ==
    /\ server = "serving" /\ conn[c] = "away" /\ tunnel[c] = "none"
    /\ conn' = [conn EXCEPT ![c] = "queued"]
    /\ gone' = [gone EXCEPT ![c] = FALSE]
    /\ UNCHANGED <<process, permits, asked, tunnel>>

\* try_acquire_owned: the permit goes to the task of the connection ...
Accept(c) ==
    /\ conn[c] = "queued" /\ permits > 0
    /\ conn' = [conn EXCEPT ![c] = "open"]
    /\ permits' = permits - 1
    /\ UNCHANGED <<process, asked, tunnel, gone>>

\* Mutant: the accept loop waits for a permit.
RefuseNever(c) == FALSE /\ UNCHANGED vars

\* ... or there is none, and the connection is dropped.
Refuse(c) ==
    /\ conn[c] = "queued" /\ permits = 0
    /\ conn' = [conn EXCEPT ![c] = "away"]
    /\ UNCHANGED <<process, permits, asked, tunnel, gone>>

\* accept fails and the loop goes on: the connection was aborted, or it is still
\* in the backlog, as when no file descriptor is left.
AcceptFails(c) ==
    /\ conn[c] = "queued"
    /\ conn' \in {conn, [conn EXCEPT ![c] = "away"]}
    /\ UNCHANGED <<process, permits, asked, tunnel, gone>>

-----------------------------------------------------------------------------
(* The task of a connection: one request at a time.                        *)

\* The connection goes on to a state, or back to wait for the next request.
Goes(c, state) == conn' = [conn EXCEPT ![c] = state]
Reopens(c) ==
    Goes(c, "open") /\ asked' = [asked EXCEPT ![c] = None]

\* A request that is refused gets its page and leaves everything as it was.
Receive(c, q) ==
    /\ conn[c] = "open" /\ Route(q, config) # "refused"
    /\ Goes(c, Route(q, config))
    /\ asked' = [asked EXCEPT ![c] = q]
    /\ UNCHANGED <<process, permits, tunnel, gone>>

\* From the cache, from a download, or an error page.
CacheableAnswered(c) ==
    /\ conn[c] = "cacheable"
    /\ Reopens(c)
    /\ UNCHANGED <<process, permits, tunnel, gone>>

\* forward_request_full: the body of the request is complete ...
Uploaded(c) ==
    /\ conn[c] = "uploading"
    /\ Goes(c, "fetching")
    /\ UNCHANGED <<process, permits, asked, tunnel, gone>>

\* ... fetch_with_timeout has the headers of the response ...
Fetched(c) ==
    /\ conn[c] = "fetching"
    /\ Goes(c, "collecting")
    /\ UNCHANGED <<process, permits, asked, tunnel, gone>>

\* ... and its body is complete.
PassthroughAnswered(c) ==
    /\ conn[c] = "collecting"
    /\ Reopens(c)
    /\ UNCHANGED <<process, permits, tunnel, gone>>

\* A body is too large or broken, or the fetch failed or timed out.
PassthroughFails(c) ==
    /\ conn[c] \in {"uploading", "fetching", "collecting"}
    /\ Reopens(c)
    /\ UNCHANGED <<process, permits, tunnel, gone>>

\* The target of CONNECT does not answer in time, or not at all.
DialFails(c) ==
    /\ conn[c] = "dialing"
    /\ Reopens(c)
    /\ UNCHANGED <<process, permits, tunnel, gone>>

\* The target is connected, but there is no permit for a tunnel.
TunnelRefused(c) ==
    /\ conn[c] = "dialing" /\ permits = 0
    /\ Reopens(c)
    /\ UNCHANGED <<process, permits, tunnel, gone>>

\* Mutant: the tunnel's task takes no permit.
OpenTunnelFree(c) ==
    /\ conn[c] = "dialing"
    /\ tunnel' = [tunnel EXCEPT ![c] = "upgrading"]
    /\ Goes(c, "switching")
    /\ UNCHANGED <<process, permits, asked, gone>>

\* Mutant: the permit is taken without a look at what is left.
OpenTunnelUnchecked(c) ==
    /\ conn[c] = "dialing"
    /\ permits' = permits - 1
    /\ tunnel' = [tunnel EXCEPT ![c] = "upgrading"]
    /\ Goes(c, "switching")
    /\ UNCHANGED <<process, asked, gone>>

\* The tunnel's task is spawned with a permit of its own; 200 is sent.
OpenTunnel(c) ==
    /\ conn[c] = "dialing" /\ permits > 0
    /\ permits' = permits - 1
    /\ tunnel' = [tunnel EXCEPT ![c] = "upgrading"]
    /\ Goes(c, "switching")
    /\ UNCHANGED <<process, asked, gone>>

\* hyper hands the socket to the tunnel, if that still waits for it, and is
\* done with the connection.
HandOver(c) ==
    /\ conn[c] = "switching"
    /\ Goes(c, "closing")
    /\ tunnel' = [tunnel EXCEPT ![c] =
                     IF @ = "upgrading" THEN "copying" ELSE @]
    /\ UNCHANGED <<process, permits, asked, gone>>

\* serve_connection returns and the permit is dropped.
ConnDone(c) ==
    /\ Goes(c, "away")
    /\ permits' = permits + 1
    /\ asked' = [asked EXCEPT ![c] = IF tunnel[c] = "none" THEN None ELSE @]
    /\ UNCHANGED <<process, tunnel, gone>>

\* It was upgraded, or the client has closed its socket.
ConnEnds(c) ==
    /\ conn[c] = "closing" \/ (conn[c] \in Serving /\ gone[c])
    /\ ConnDone(c)

\* hyper closes it where the next request would begin: what comes is no request,
\* the body of the last one was broken, or the client asked for no other.
ConnStops(c) == conn[c] = "open" /\ ConnDone(c)

-----------------------------------------------------------------------------
(* The task of a tunnel.                                                   *)

\* The task ends: the permit and the connection to the target are dropped.
TunnelDone(c) ==
    /\ tunnel' = [tunnel EXCEPT ![c] = "none"]
    /\ permits' = permits + 1
    /\ asked' = [asked EXCEPT ![c] = IF conn[c] = "away" THEN None ELSE @]
    /\ UNCHANGED <<process, conn, gone>>

\* Mutant: the upgrade is awaited without a timeout or an error.
UpgradeFailsNever(c) == FALSE /\ TunnelDone(c)

\* The upgrade times out, or its connection ended without it.
UpgradeFails(c) == tunnel[c] = "upgrading" /\ TunnelDone(c)

\* The target closes its side; the client's side is still copied.
TargetCloses(c) ==
    /\ tunnel[c] = "copying"
    /\ tunnel' = [tunnel EXCEPT ![c] = "halfClosed"]
    /\ UNCHANGED <<process, permits, conn, asked, gone>>

\* copy_bidirectional is done: both sides are closed.
TunnelDrained(c) == tunnel[c] = "halfClosed" /\ gone[c] /\ TunnelDone(c)

\* It fails: a side was reset.
TunnelBreaks(c) == tunnel[c] \in {"copying", "halfClosed"} /\ TunnelDone(c)

-----------------------------------------------------------------------------
(* The client closes its socket, whoever reads it by now.                  *)

Leave(c) ==
    /\ ~gone[c] /\ (conn[c] # "away" \/ tunnel[c] # "none")
    /\ gone' = [gone EXCEPT ![c] = TRUE]
    /\ UNCHANGED <<process, permits, conn, asked, tunnel>>

AcceptStep(c) == Accept(c) \/ Refuse(c) \/ AcceptFails(c)

ConnStep(c) ==
    \/ \E q \in Requests : Receive(c, q)
    \/ CacheableAnswered(c)
    \/ Uploaded(c) \/ Fetched(c) \/ PassthroughAnswered(c)
    \/ PassthroughFails(c)
    \/ DialFails(c) \/ TunnelRefused(c) \/ OpenTunnel(c)
    \/ HandOver(c) \/ ConnEnds(c) \/ ConnStops(c)

TunnelStep(c) ==
    UpgradeFails(c) \/ TargetCloses(c) \/ TunnelDrained(c) \/ TunnelBreaks(c)

Next ==
    \/ Load \/ LoadFails \/ Shutdown
    \/ \E c \in Clients :
          Connect(c) \/ AcceptStep(c) \/ ConnStep(c) \/ TunnelStep(c) \/ Leave(c)

\* The runtime runs every task that can go on, the upgrade has a timeout, and
\* accept does not fail for ever.  Nothing is asked of clients and targets.
Fairness ==
    \A c \in Clients :
        /\ WF_vars(Accept(c) \/ Refuse(c))
        /\ WF_vars(ConnEnds(c))
        /\ WF_vars(UpgradeFails(c))
        /\ WF_vars(TunnelDrained(c))

Spec == Init /\ [][Next]_vars /\ Fairness

-----------------------------------------------------------------------------
(* Properties.                                                             *)

Connections == {c \in Clients : conn[c] \in Serving}
Tunnels == {c \in Clients : tunnel[c] # "none"}

\* No permit is lost and none is made up, on any path: as long as the process
\* serves, those left and those held by the tasks of connections and tunnels
\* are max_connections, so that connections and tunnels together never exceed
\* it and a client is refused only when they have reached it.
PermitsAccounted ==
    server = "serving" =>
        permits + Cardinality(Connections) + Cardinality(Tunnels)
            = config["MAX_CONNECTIONS"]

\* The host a request names: what stands before a port, out of its brackets.
NameOf(q) == CHOOSE n \in Parts(q.authority) : Names(q.authority, n)

\* What is forwarded, dialed or tunnelled was asked for a host of an allowed
\* domain and of no blocked one, whatever port or brackets stood around it; a
\* tunnel under strict_https leads to port 443 of that very host.
OnlyPermittedTargets ==
    \A c \in Clients :
        asked[c] # None =>
            LET q == asked[c]  name == NameOf(q)
                target == ConnectTarget(q.authority)
            IN  /\ config["ALLOWED_HOSTS"] # {} =>
                      \E d \in config["ALLOWED_HOSTS"] : InDomain(name, d)
                /\ \A d \in config["BLOCKED_HOSTS"] : ~InDomain(name, d)
                /\ tunnel[c] # "none" =>
                      /\ target.host \in {name, <<"[">> \o name \o <<"]">>}
                      /\ config["STRICT_HTTPS"] => target.port = 443

\* A request that was sent on is refused when it comes back, whatever headers
\* its sender declared to be hop-by-hop: a loop is cut after one turn.
LoopsAreCut ==
    \A c \in Clients :
        asked[c] # None /\ asked[c].method # "CONNECT"
            => Route(Forwarded(asked[c]), config) = "refused"

\* The value a text stands for, if a word can hold it.
Meaning(v, t) ==
    IF t.unit = "none" THEN t.num
    ELSE IF v \in SizeVars THEN (t.num * SizeUnits[t.unit]) \div t.den
    ELSE t.num * DurationUnits[t.unit]

\* A process that serves has no zero limit, even after a multiplication that
\* wrapped around, and every number it was given has the value written, as
\* long as a word can hold it; a size that no word holds is the largest.
ServesAsConfigured ==
    server = "serving" =>
        /\ \A v \in Critical : config[v] > 0
        /\ \A v \in SizeVars \cup DurationVars \cup CountVars :
              env[v] # None =>
                  IF Meaning(v, env[v]) <= MaxWord
                  THEN config[v] = Meaning(v, env[v])
                  ELSE v \in SizeVars => config[v] = MaxWord

\* Every connection in the backlog is taken up or dropped, if accept does not
\* fail for ever: the loop never waits for a permit, however many clients hold
\* theirs for ever.
NobodyWaitsInQueue ==
    \A c \in Clients : conn[c] = "queued" ~> conn[c] # "queued"

\* A client that has gone, at whatever point of a request, gives its
\* connection's permit back.  Its tunnel gives back the other one or copies for
\* a target that has not closed its own side, which may last for ever: a tunnel
\* whose upgrade did not come, or whose target has closed, is over.
PermitsComeBack ==
    \A c \in Clients :
        gone[c] ~> conn[c] = "away" /\ tunnel[c] \in {"none", "copying"}

=============================================================================
