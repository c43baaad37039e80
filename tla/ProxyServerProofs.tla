--------------------------- MODULE ProxyServerProofs ---------------------------
(***************************************************************************)
(* What ProxyServer guarantees for any finite set of clients, any          *)
(* environments and any requests: the semaphore accounts for every task,   *)
(* the limits in force are those that were written, a request never goes   *)
(* round twice, and nothing but permitted hosts is asked.                  *)
(***************************************************************************)
EXTENDS ProxyServer, ConfigurationProofs, RequestRulesProofs, FiniteSetTheorems,
        TLAPS

\* Nothing runs before the configuration is loaded, and then it is the one
\* that the environment describes.
Configured ==
    /\ server = "starting" =>
          \A c \in Clients : conn[c] = "away" /\ tunnel[c] = "none"
    /\ server = "serving" => FromVars(env) # Unparsable /\ config = FromVars(env)

\* The states of a connection that has not opened a tunnel.
BeforeTunnel == ConnState \ {"away", "switching", "closing"}

\* A connection opens one tunnel at most.
OneTunnelEach ==
    \A c \in Clients : conn[c] \in BeforeTunnel => tunnel[c] = "none"

ServerInvariant ==
    TypeOK /\ Configured /\ OneTunnelEach /\ PermitsAccounted

-----------------------------------------------------------------------------
(* Configurations.                                                         *)

\* The settings that FromVars accepts.
LEMMA Accepted ==
    ASSUME NEW e \in Environments, FromVars(e) # Unparsable
    PROVE  /\ FromVars(e) = Settings(e)
           /\ \A v \in Vars : Settings(e)[v] # Unparsable
           /\ \A v \in Critical : Settings(e)[v] # 0
BY DEF FromVars

\* An accepted number is what its variable says, if it was set.
LEMMA AcceptedNumber ==
    ASSUME NEW e \in Environments, FromVars(e) # Unparsable, NEW v \in NumberVars
    PROVE  /\ FromVars(e)[v] \in Nat
           /\ e[v] # None =>
                 /\ e[v] \in Text \cup {Unparsable}
                 /\ FromVars(e)[v] = Parse(v, e[v])
                 /\ Parse(v, e[v]) # Unparsable
<1>1. v \in Vars
  BY DEF NumberVars, Vars
<1>2. /\ FromVars(e) = Settings(e)
      /\ Settings(e)[v] # Unparsable
      /\ Settings(e)[v] = IF e[v] = None THEN Default[v] ELSE Parse(v, e[v])
  BY <1>1, Accepted DEF Settings
<1>3. CASE e[v] = None
  BY <1>2, <1>3, DefaultNumbers
<1>4. CASE e[v] # None
  <2>1. e[v] \in Text \cup {Unparsable}
    BY <1>4, EnvironmentsAssumption DEF NumberVars
  <2> QED BY <1>2, <1>4, <2>1, NumbersMean
<1> QED BY <1>3, <1>4

\* The value of a number that is accepted.
LEMMA AcceptedMeaning ==
    ASSUME NEW e \in Environments, FromVars(e) # Unparsable,
           NEW v \in NumberVars, e[v] # None
    PROVE  IF Meaning(v, e[v]) <= MaxWord
           THEN FromVars(e)[v] = Meaning(v, e[v])
           ELSE v \in SizeVars => FromVars(e)[v] = MaxWord
<1> DEFINE t == e[v]
<1>1. /\ t \in Text \cup {Unparsable} /\ Parse(v, t) # Unparsable
      /\ FromVars(e)[v] = Parse(v, t)
  BY AcceptedNumber
<1>2. t \in Text
  BY <1>1, NumbersMean
<1> HIDE DEF t
<1>3. CASE t.unit = "none"
  BY <1>1, <1>3, NumbersMean DEF Meaning, t
<1>4. CASE t.unit # "none" /\ v \in SizeVars
  <2>1. t.unit \in DOMAIN SizeUnits /\ Parse(v, t) = ParseSize(t)
    BY <1>1, <1>4, NumbersMean
  <2>2. Meaning(v, t) = (t.num * SizeUnits[t.unit]) \div t.den
    BY <1>4 DEF Meaning
  <2> QED BY <1>1, <1>2, <1>4, <2>1, <2>2, SizeSaturates DEF t
<1>5. CASE t.unit # "none" /\ v \notin SizeVars
  <2>1. /\ t.unit \in DOMAIN DurationUnits /\ IsWord(t)
        /\ Parse(v, t) = ParseDuration(t)
    BY <1>1, <1>5, NumbersMean
  <2>2. Meaning(v, t) = t.num * DurationUnits[t.unit]
    BY <1>5 DEF Meaning
  <2> QED BY <1>1, <1>2, <1>5, <2>1, <2>2, DurationIsExact DEF t
<1> QED BY <1>3, <1>4, <1>5

-----------------------------------------------------------------------------
(* Counting tasks.                                                         *)

\* The tasks that run are finitely many.
LEMMA TasksAreFinite ==
    /\ IsFiniteSet(Connections) /\ Cardinality(Connections) \in Nat
    /\ IsFiniteSet(Tunnels) /\ Cardinality(Tunnels) \in Nat
<1>1. Connections \in SUBSET Clients /\ Tunnels \in SUBSET Clients
  BY DEF Connections, Tunnels
<1>2. IsFiniteSet(Connections) /\ IsFiniteSet(Tunnels)
  BY <1>1, ClientsAssumption, FS_Subset
<1> QED BY <1>2, FS_CardinalityType

One(p) == IF p THEN 1 ELSE 0

\* What a connection that changes its state adds to the number of connections.
LEMMA ConnectionsCount ==
    ASSUME TypeOK, NEW c \in Clients, NEW s, conn' = [conn EXCEPT ![c] = s]
    PROVE  Cardinality(Connections)' =
              Cardinality(Connections) + One(s \in Serving) - One(conn[c] \in Serving)
<1>1. IsFiniteSet(Connections) /\ Cardinality(Connections) \in Nat
  BY TasksAreFinite
<1>2. c \in Connections <=> conn[c] \in Serving
  BY DEF Connections
<1>3. CASE s \in Serving
  <2>1. Connections' = Connections \cup {c}
    BY <1>3 DEF Connections, TypeOK
  <2>2. Cardinality(Connections') = IF conn[c] \in Serving THEN Cardinality(Connections)
                                    ELSE Cardinality(Connections) + 1
    BY <1>1, <1>2, <2>1, FS_AddElement
  <2> QED BY <1>1, <1>3, <2>2 DEF One
<1>4. CASE s \notin Serving
  <2>1. Connections' = Connections \ {c}
    BY <1>4 DEF Connections, TypeOK
  <2>2. Cardinality(Connections') = IF conn[c] \in Serving
                                    THEN Cardinality(Connections) - 1
                                    ELSE Cardinality(Connections)
    BY <1>1, <1>2, <2>1, FS_RemoveElement
  <2> QED BY <1>1, <1>4, <2>2 DEF One
<1> QED BY <1>3, <1>4

\* The same of tunnels.
LEMMA TunnelsCount ==
    ASSUME TypeOK, NEW c \in Clients, NEW s, tunnel' = [tunnel EXCEPT ![c] = s]
    PROVE  Cardinality(Tunnels)' =
              Cardinality(Tunnels) + One(s # "none") - One(tunnel[c] # "none")
<1>1. IsFiniteSet(Tunnels) /\ Cardinality(Tunnels) \in Nat
  BY TasksAreFinite
<1>2. c \in Tunnels <=> tunnel[c] # "none"
  BY DEF Tunnels
<1>3. CASE s # "none"
  <2>1. Tunnels' = Tunnels \cup {c}
    BY <1>3 DEF Tunnels, TypeOK
  <2>2. Cardinality(Tunnels') = IF tunnel[c] # "none" THEN Cardinality(Tunnels)
                                ELSE Cardinality(Tunnels) + 1
    BY <1>1, <1>2, <2>1, FS_AddElement
  <2> QED BY <1>1, <1>3, <2>2 DEF One
<1>4. CASE s = "none"
  <2>1. Tunnels' = Tunnels \ {c}
    BY <1>4 DEF Tunnels, TypeOK
  <2>2. Cardinality(Tunnels') = IF tunnel[c] # "none" THEN Cardinality(Tunnels) - 1
                                ELSE Cardinality(Tunnels)
    BY <1>1, <1>2, <2>1, FS_RemoveElement
  <2> QED BY <1>1, <1>4, <2>2 DEF One
<1> QED BY <1>3, <1>4

\* Tasks whose state is left alone keep their number.
LEMMA SameCount ==
    /\ UNCHANGED conn => UNCHANGED Cardinality(Connections)
    /\ UNCHANGED tunnel => UNCHANGED Cardinality(Tunnels)
BY DEF Connections, Tunnels

-----------------------------------------------------------------------------
(* The invariant.                                                          *)

\* The server before it has loaded satisfies the invariant.
LEMMA InitHolds == Init => ServerInvariant
BY DEF Init, ServerInvariant, TypeOK, Configured, OneTunnelEach,
       PermitsAccounted, ConnState, TunnelState, BeforeTunnel

\* Every step of the process keeps the invariant, ...
LEMMA LoadHolds ==
    ASSUME ServerInvariant, Load
    PROVE  ServerInvariant'
<1>1. /\ FromVars(env) # Unparsable /\ config' = FromVars(env)
      /\ permits' = FromVars(env)["MAX_CONNECTIONS"]
      /\ server' = "serving" /\ UNCHANGED <<env, conn, asked, tunnel, gone>>
  BY DEF Load
<1>2. permits' \in Nat
  <2>1. "MAX_CONNECTIONS" \in NumberVars
    BY DEF NumberVars, CountVars
  <2> QED BY <1>1, <2>1, AcceptedNumber DEF ServerInvariant, TypeOK
<1>3. TypeOK'
  BY <1>1, <1>2 DEF ServerInvariant, TypeOK
<1>4. Configured' /\ OneTunnelEach'
  BY <1>1 DEF ServerInvariant, Configured, OneTunnelEach
<1>5. Connections' = {} /\ Tunnels' = {}
  BY <1>1 DEF Load, ServerInvariant, Configured, Connections, Tunnels, Serving
<1>6. PermitsAccounted'
  BY <1>1, <1>2, <1>5, FS_EmptySet DEF PermitsAccounted
<1> QED BY <1>3, <1>4, <1>6 DEF ServerInvariant

\* A server that does not start keeps it,
LEMMA LoadFailsHolds ==
    ASSUME ServerInvariant, LoadFails
    PROVE  ServerInvariant'
BY DEF ServerInvariant, LoadFails, TypeOK, Configured, OneTunnelEach,
       PermitsAccounted

\* and one that stops has no task left.
LEMMA ShutdownHolds ==
    ASSUME ServerInvariant, Shutdown
    PROVE  ServerInvariant'
BY DEF ServerInvariant, Shutdown, TypeOK, Configured, OneTunnelEach,
       PermitsAccounted, ConnState, TunnelState, BeforeTunnel

\* ... and so does every step of one client's tasks that moves its connection
\* and its tunnel as follows: the permits change by what the two tasks take
\* and give back.
LEMMA TasksMove ==
    ASSUME ServerInvariant, NEW c \in Clients, NEW s \in ConnState,
           NEW u \in TunnelState, NEW d \in {0 - 1, 0, 1},
           conn' = [conn EXCEPT ![c] = s], tunnel' = [tunnel EXCEPT ![c] = u],
           permits' = permits + d, permits + d >= 0,
           d = One(conn[c] \in Serving) + One(tunnel[c] # "none")
               - One(s \in Serving) - One(u # "none"),
           s \in BeforeTunnel => u = "none",
           server # "starting", UNCHANGED process,
           asked' \in [Clients -> Requests \cup {None}],
           gone' \in [Clients -> BOOLEAN]
    PROVE  ServerInvariant'
<1>1. TypeOK'
  <2>1. UNCHANGED <<env, server, config>>
    BY DEF process
  <2>2. env' \in Environments /\ server' \in {"starting", "serving", "failed", "stopped"}
    BY <2>1 DEF ServerInvariant, TypeOK
  <2>3. config' \in {None, FromVars(env')}
    BY <2>1 DEF ServerInvariant, TypeOK
  <2>4. permits' \in Nat
    BY DEF ServerInvariant, TypeOK
  <2>5. conn' \in [Clients -> ConnState] /\ tunnel' \in [Clients -> TunnelState]
    BY DEF ServerInvariant, TypeOK
  <2> QED BY <2>2, <2>3, <2>4, <2>5 DEF TypeOK
<1>2. Configured'
  BY DEF ServerInvariant, Configured, process
<1>3. OneTunnelEach'
  BY DEF ServerInvariant, OneTunnelEach, TypeOK
<1>4. PermitsAccounted'
  <2> USE DEF ServerInvariant
  <2>1. Cardinality(Connections)' = Cardinality(Connections)
              + One(s \in Serving) - One(conn[c] \in Serving)
    BY ConnectionsCount
  <2>2. Cardinality(Tunnels)' = Cardinality(Tunnels)
              + One(u # "none") - One(tunnel[c] # "none")
    BY TunnelsCount, ZenonT(30)
  <2>3. /\ Cardinality(Connections) \in Nat /\ Cardinality(Tunnels) \in Nat
        /\ permits \in Nat
    BY TasksAreFinite DEF TypeOK
  <2>4. /\ One(s \in Serving) \in Nat /\ One(conn[c] \in Serving) \in Nat
        /\ One(u # "none") \in Nat /\ One(tunnel[c] # "none") \in Nat
    BY DEF One
  <2>5. permits' + Cardinality(Connections)' + Cardinality(Tunnels)'
           = permits + Cardinality(Connections) + Cardinality(Tunnels)
    BY <2>1, <2>2, <2>3, <2>4
  <2> QED BY <2>5 DEF PermitsAccounted, process
<1> QED BY <1>1, <1>2, <1>3, <1>4 DEF ServerInvariant

\* A connection that moves, without its tunnel.
LEMMA ConnectionMoves ==
    ASSUME ServerInvariant, NEW c \in Clients, NEW s \in ConnState,
           conn' = [conn EXCEPT ![c] = s], UNCHANGED <<process, tunnel>>,
           \/ s \in Serving /\ conn[c] \in Serving /\ UNCHANGED permits
           \/ s \notin Serving /\ conn[c] \notin Serving /\ UNCHANGED permits
           \/ s \in Serving /\ conn[c] \notin Serving /\ permits > 0
              /\ permits' = permits - 1
           \/ s \notin Serving /\ conn[c] \in Serving /\ permits' = permits + 1,
           s \in BeforeTunnel => tunnel[c] = "none",
           server # "starting",
           asked' \in [Clients -> Requests \cup {None}],
           gone' \in [Clients -> BOOLEAN]
    PROVE  ServerInvariant'
<1> DEFINE d == permits' - permits
<1>1. permits \in Nat /\ tunnel[c] \in TunnelState
  BY DEF ServerInvariant, TypeOK
<1>2. /\ d \in {0 - 1, 0, 1} /\ permits' = permits + d /\ permits + d >= 0
      /\ d = One(conn[c] \in Serving) + One(tunnel[c] # "none")
                - One(s \in Serving) - One(tunnel[c] # "none")
  <2>1. /\ d \in {0 - 1, 0, 1} /\ permits' = permits + d /\ permits + d >= 0
        /\ d = One(conn[c] \in Serving) - One(s \in Serving)
    BY <1>1 DEF One
  <2>2. /\ One(tunnel[c] # "none") \in Nat /\ One(s \in Serving) \in Nat
        /\ One(conn[c] \in Serving) \in Nat
    BY DEF One
  <2> QED BY <2>1, <2>2
<1>3. tunnel' = [tunnel EXCEPT ![c] = tunnel[c]]
  BY DEF ServerInvariant, TypeOK
<1>4. UNCHANGED process
  OBVIOUS
<1> HIDE DEF d
<1> QED BY <1>1, <1>2, <1>3, <1>4, TasksMove

\* A tunnel's task ends.
LEMMA TunnelEnds ==
    ASSUME ServerInvariant, NEW c \in Clients, tunnel[c] # "none", TunnelDone(c)
    PROVE  ServerInvariant'
<1>1. permits \in Nat /\ conn[c] \in ConnState /\ "none" \in TunnelState
  BY DEF ServerInvariant, TypeOK, TunnelState
<1>2. /\ permits' = permits + 1 /\ permits + 1 >= 0
      /\ 1 = One(conn[c] \in Serving) + One(tunnel[c] # "none")
                - One(conn[c] \in Serving) - One("none" # "none")
  BY <1>1 DEF TunnelDone, One
<1>3. conn' = [conn EXCEPT ![c] = conn[c]]
  BY DEF ServerInvariant, TypeOK, TunnelDone
<1>4. asked' \in [Clients -> Requests \cup {None}] /\ gone' \in [Clients -> BOOLEAN]
  BY DEF ServerInvariant, TypeOK, TunnelDone
<1>5. server # "starting"
  BY DEF ServerInvariant, Configured
<1>6. tunnel' = [tunnel EXCEPT ![c] = "none"] /\ UNCHANGED process
  BY DEF TunnelDone
<1> QED BY <1>1, <1>2, <1>3, <1>4, <1>5, <1>6, TasksMove

\* A connection that is not accepted goes, or stays where it is.
LEMMA RefusedOrKept ==
    ASSUME TypeOK, NEW c \in Clients, Refuse(c) \/ AcceptFails(c)
    PROVE  \E s \in {"queued", "away"} : conn' = [conn EXCEPT ![c] = s]
<1>1. CASE conn' = conn
  <2>1. conn[c] = "queued"
    BY DEF Refuse, AcceptFails
  <2>2. conn' = [conn EXCEPT ![c] = "queued"]
    BY <1>1, <2>1 DEF TypeOK
  <2> QED BY <2>2
<1>2. CASE conn' # conn
  BY <1>2 DEF Refuse, AcceptFails
<1> QED BY <1>1, <1>2

\* The accept loop.
LEMMA AcceptLoopHolds ==
    ASSUME ServerInvariant, NEW c \in Clients, Connect(c) \/ AcceptStep(c)
    PROVE  ServerInvariant'
<1>1. server # "starting"
  BY DEF ServerInvariant, Configured, Connect, AcceptStep, Accept, Refuse, AcceptFails
<1>2. asked' \in [Clients -> Requests \cup {None}] /\ gone' \in [Clients -> BOOLEAN]
  BY DEF ServerInvariant, TypeOK, Connect, AcceptStep, Accept, Refuse, AcceptFails
<1>3. CASE Connect(c)
  <2>1. /\ "queued" \in ConnState /\ "queued" \notin Serving /\ conn[c] \notin Serving
        /\ tunnel[c] = "none" /\ conn' = [conn EXCEPT ![c] = "queued"]
        /\ UNCHANGED <<process, tunnel>> /\ UNCHANGED permits
    BY <1>3 DEF Connect, ConnState, Serving
  <2> QED BY <1>1, <1>2, <2>1, ConnectionMoves
<1>4. CASE Accept(c)
  <2>1. /\ "open" \in ConnState /\ "open" \in Serving /\ conn[c] \notin Serving
        /\ permits > 0 /\ permits' = permits - 1
        /\ conn' = [conn EXCEPT ![c] = "open"] /\ UNCHANGED <<process, tunnel>>
    BY <1>4 DEF Accept, ConnState, Serving
  <2>2. tunnel[c] = "none"
    BY <1>4 DEF Accept, ServerInvariant, OneTunnelEach, BeforeTunnel, ConnState
  <2> QED BY <1>1, <1>2, <2>1, <2>2, ConnectionMoves
<1>5. CASE Refuse(c) \/ AcceptFails(c)
  <2>1. /\ conn[c] = "queued" /\ "queued" \notin Serving
        /\ UNCHANGED <<process, tunnel>> /\ UNCHANGED permits
    BY <1>5 DEF Refuse, AcceptFails, Serving
  <2>2. PICK s \in {"queued", "away"} : conn' = [conn EXCEPT ![c] = s]
    BY <1>5, <2>1, RefusedOrKept DEF ServerInvariant
  <2>3. /\ {"queued", "away"} \subseteq ConnState
        /\ {"queued", "away"} \cap Serving = {}
    BY DEF ConnState, Serving
  <2>4. tunnel[c] = "none" \/ s \notin BeforeTunnel
    BY <2>1, <2>2 DEF ServerInvariant, OneTunnelEach, BeforeTunnel, ConnState
  <2> QED BY <1>1, <1>2, <2>1, <2>2, <2>3, <2>4, ConnectionMoves
<1> QED BY <1>3, <1>4, <1>5 DEF AcceptStep

\* A connection that handles a request and goes on serving.
LEMMA HandlingHolds ==
    ASSUME ServerInvariant, NEW c \in Clients, NEW s \in Serving, Goes(c, s),
           conn[c] \in Serving, UNCHANGED <<process, permits, tunnel, gone>>,
           asked' \in [Clients -> Requests \cup {None}],
           s \in BeforeTunnel => tunnel[c] = "none"
    PROVE  ServerInvariant'
<1>1. server # "starting" /\ s \in ConnState
  BY DEF ServerInvariant, Configured, ConnState, Serving
<1>2. gone' \in [Clients -> BOOLEAN] /\ UNCHANGED permits
  BY DEF ServerInvariant, TypeOK
<1>3. conn' = [conn EXCEPT ![c] = s] /\ UNCHANGED <<process, tunnel>>
  BY DEF Goes
<1> QED BY <1>1, <1>2, <1>3, ConnectionMoves

\* What a request is routed to is a state of a connection before its tunnel.
LEMMA Routes ==
    ASSUME NEW q, Route(q, config) # "refused"
    PROVE  Route(q, config) \in Serving
<1> DEFINE v == Valid(q, config)
           t == ConnectTarget(q.authority)
<1>1. Route(q, config) \in {"refused", "dialing", "cacheable", "uploading"}
  <2>1. Route(q, config) =
           IF ~v THEN "refused"
           ELSE IF q.method = "CONNECT" THEN
             IF t = NoHost \/ (config["STRICT_HTTPS"] /\ t.port # 443)
             THEN "refused" ELSE "dialing"
           ELSE IF q.method \in {"GET", "HEAD"} THEN "cacheable"
           ELSE "uploading"
    BY DEF Route
  <2> HIDE DEF v, t
  <2> QED BY <2>1
<1> QED BY <1>1 DEF Serving

\* The task of a connection.
LEMMA ConnStepHolds ==
    ASSUME ServerInvariant, NEW c \in Clients, ConnStep(c)
    PROVE  ServerInvariant'
<1>1. asked' \in [Clients -> Requests \cup {None}]
  BY DEF ServerInvariant, TypeOK, ConnStep, Receive, CacheableAnswered, Uploaded,
         Fetched, PassthroughAnswered, PassthroughFails, DialFails, TunnelRefused,
         OpenTunnel, HandOver, ConnEnds, ConnStops, ConnDone, Reopens
<1>2. conn[c] \in BeforeTunnel => tunnel[c] = "none"
  BY DEF ServerInvariant, OneTunnelEach
<1>3. ASSUME NEW q \in Requests, Receive(c, q) PROVE ServerInvariant'
  <2>1. Route(q, config) \in Serving
    BY <1>3, Routes DEF Receive
  <2>2. Goes(c, Route(q, config)) /\ UNCHANGED <<process, permits, tunnel, gone>>
    BY <1>3 DEF Receive
  <2>3. conn[c] \in Serving /\ conn[c] \in BeforeTunnel
    BY <1>3 DEF Receive, Serving, BeforeTunnel, ConnState
  <2> QED BY <1>1, <1>2, <2>1, <2>2, <2>3, HandlingHolds
<1>4. CASE \/ CacheableAnswered(c) \/ PassthroughAnswered(c) \/ PassthroughFails(c)
           \/ DialFails(c) \/ TunnelRefused(c)
  <2>1. /\ conn[c] \in Serving /\ conn[c] \in BeforeTunnel /\ "open" \in Serving
        /\ Goes(c, "open") /\ UNCHANGED <<process, permits, tunnel, gone>>
    BY <1>4 DEF CacheableAnswered, PassthroughAnswered, PassthroughFails, DialFails,
         TunnelRefused, Reopens, Serving, BeforeTunnel, ConnState
  <2> QED BY <1>1, <1>2, <2>1, HandlingHolds
<1>5. CASE Uploaded(c)
  <2>1. /\ conn[c] \in Serving /\ conn[c] \in BeforeTunnel /\ "fetching" \in Serving
        /\ Goes(c, "fetching") /\ UNCHANGED <<process, permits, tunnel, gone>>
    BY <1>5 DEF Uploaded, Serving, BeforeTunnel, ConnState
  <2> QED BY <1>1, <1>2, <2>1, HandlingHolds
<1>6. CASE Fetched(c)
  <2>1. /\ conn[c] \in Serving /\ conn[c] \in BeforeTunnel /\ "collecting" \in Serving
        /\ Goes(c, "collecting") /\ UNCHANGED <<process, permits, tunnel, gone>>
    BY <1>6 DEF Fetched, Serving, BeforeTunnel, ConnState
  <2> QED BY <1>1, <1>2, <2>1, HandlingHolds
<1>7. CASE OpenTunnel(c)
  <2>1. /\ conn[c] \in Serving /\ conn[c] # "away" /\ conn[c] \in BeforeTunnel
        /\ "switching" \in Serving /\ "switching" \in ConnState
        /\ "switching" \notin BeforeTunnel /\ "upgrading" \in TunnelState
    BY <1>7 DEF OpenTunnel, Serving, BeforeTunnel, ConnState, TunnelState
  <2>2. /\ permits' = permits + (0 - 1) /\ permits + (0 - 1) >= 0
        /\ 0 - 1 = One(conn[c] \in Serving) + One(tunnel[c] # "none")
                - One("switching" \in Serving) - One("upgrading" # "none")
    BY <1>2, <1>7, <2>1 DEF OpenTunnel, One, ServerInvariant, TypeOK
  <2>3. server # "starting" /\ gone' \in [Clients -> BOOLEAN]
    BY <1>7, <2>1 DEF ServerInvariant, Configured, TypeOK, OpenTunnel
  <2>4. /\ conn' = [conn EXCEPT ![c] = "switching"]
        /\ tunnel' = [tunnel EXCEPT ![c] = "upgrading"] /\ UNCHANGED process
    BY <1>7 DEF OpenTunnel, Goes
  <2> QED BY <1>1, <2>1, <2>2, <2>3, <2>4, TasksMove
<1>8. CASE HandOver(c)
  <2> DEFINE u == IF tunnel[c] = "upgrading" THEN "copying" ELSE tunnel[c]
  <2>1. /\ conn[c] \in Serving /\ conn[c] # "away" /\ "closing" \in Serving
        /\ "closing" \in ConnState /\ "closing" \notin BeforeTunnel
    BY <1>8 DEF HandOver, Serving, BeforeTunnel, ConnState
  <2>2. u \in TunnelState /\ (u = "none" <=> tunnel[c] = "none")
    BY DEF ServerInvariant, TypeOK, TunnelState
  <2>3. /\ conn' = [conn EXCEPT ![c] = "closing"] /\ UNCHANGED process
        /\ tunnel' = [tunnel EXCEPT ![c] = u] /\ UNCHANGED permits
    BY <1>8 DEF HandOver, Goes, ServerInvariant, TypeOK
  <2>4. server # "starting" /\ gone' \in [Clients -> BOOLEAN]
    BY <1>8, <2>1 DEF ServerInvariant, Configured, TypeOK, HandOver
  <2> HIDE DEF u
  <2>5. /\ permits' = permits + 0 /\ permits + 0 >= 0
        /\ 0 = One(conn[c] \in Serving) + One(tunnel[c] # "none")
                - One("closing" \in Serving) - One(u # "none")
    BY <2>1, <2>2, <2>3 DEF One, ServerInvariant, TypeOK
  <2> QED BY <1>1, <2>1, <2>2, <2>3, <2>4, <2>5, TasksMove
<1>9. CASE ConnEnds(c) \/ ConnStops(c)
  <2>1. /\ conn[c] \in Serving /\ conn[c] # "away" /\ "away" \in ConnState
        /\ "away" \notin Serving /\ "away" \notin BeforeTunnel
    BY <1>9 DEF ConnEnds, ConnStops, Serving, BeforeTunnel, ConnState
  <2>2. /\ conn' = [conn EXCEPT ![c] = "away"] /\ permits' = permits + 1
        /\ UNCHANGED <<process, tunnel>>
    BY <1>9 DEF ConnEnds, ConnStops, ConnDone, Goes
  <2>3. server # "starting" /\ gone' \in [Clients -> BOOLEAN]
    BY <1>9, <2>1 DEF ServerInvariant, Configured, TypeOK, ConnEnds, ConnStops, ConnDone
  <2> QED BY <1>1, <2>1, <2>2, <2>3, ConnectionMoves
<1> QED BY <1>3, <1>4, <1>5, <1>6, <1>7, <1>8, <1>9 DEF ConnStep

\* The task of a tunnel, and the client.
LEMMA TunnelStepHolds ==
    ASSUME ServerInvariant, NEW c \in Clients, TunnelStep(c)
    PROVE  ServerInvariant'
<1>1. CASE TargetCloses(c)
  <2>1. /\ tunnel[c] # "none" /\ "halfClosed" \in TunnelState
        /\ tunnel' = [tunnel EXCEPT ![c] = "halfClosed"] /\ UNCHANGED process
    BY <1>1 DEF TargetCloses, TunnelState
  <2>2. /\ permits' = permits + 0 /\ permits + 0 >= 0
        /\ conn[c] \in ConnState /\ conn' = [conn EXCEPT ![c] = conn[c]]
        /\ asked' \in [Clients -> Requests \cup {None}] /\ gone' \in [Clients -> BOOLEAN]
    BY <1>1 DEF TargetCloses, ServerInvariant, TypeOK
  <2>3. 0 = One(conn[c] \in Serving) + One(tunnel[c] # "none")
                - One(conn[c] \in Serving) - One("halfClosed" # "none")
    BY <2>1 DEF One
  <2>4. server # "starting" /\ conn[c] \notin BeforeTunnel
    BY <2>1 DEF ServerInvariant, Configured, OneTunnelEach
  <2> QED BY <2>1, <2>2, <2>3, <2>4, TasksMove
<1>2. CASE UpgradeFails(c) \/ TunnelDrained(c) \/ TunnelBreaks(c)
  <2>1. tunnel[c] # "none" /\ TunnelDone(c)
    BY <1>2 DEF UpgradeFails, TunnelDrained, TunnelBreaks
  <2> QED BY <2>1, TunnelEnds
<1> QED BY <1>1, <1>2 DEF TunnelStep

\* A client that closes its socket changes no permit.
LEMMA LeaveHolds ==
    ASSUME ServerInvariant, NEW c \in Clients, Leave(c)
    PROVE  ServerInvariant'
BY DEF ServerInvariant, Leave, TypeOK, Configured, OneTunnelEach,
       PermitsAccounted, Connections, Tunnels, process

\* Every step keeps the invariant.
LEMMA StepHolds == ServerInvariant /\ [Next]_vars => ServerInvariant'
<1> SUFFICES ASSUME ServerInvariant, [Next]_vars PROVE ServerInvariant'
  OBVIOUS
<1>1. CASE UNCHANGED vars
  BY <1>1 DEF vars, process, ServerInvariant, TypeOK, Configured, OneTunnelEach,
         PermitsAccounted, Connections, Tunnels
<1>2. CASE Load \/ LoadFails \/ Shutdown
  BY <1>2, LoadHolds, LoadFailsHolds, ShutdownHolds
<1>3. ASSUME NEW c \in Clients,
             Connect(c) \/ AcceptStep(c) \/ ConnStep(c) \/ TunnelStep(c) \/ Leave(c)
      PROVE  ServerInvariant'
  BY <1>3, AcceptLoopHolds, ConnStepHolds, TunnelStepHolds, LeaveHolds
<1> QED BY <1>1, <1>2, <1>3 DEF Next

\* Every state satisfies the invariant.
THEOREM ServerInvariance == Spec => []ServerInvariant
BY InitHolds, StepHolds, PTL DEF Spec

-----------------------------------------------------------------------------
(* The results.                                                            *)

\* Every variable keeps its type; in particular the semaphore never goes below
\* zero, whatever the order in which tasks take and drop their permits.
THEOREM TypeCorrect == Spec => []TypeOK
<1>1. ServerInvariant => TypeOK
  BY DEF ServerInvariant
<1> QED BY <1>1, ServerInvariance, PTL

\* No path of a connection or of a tunnel loses a permit or makes one up.
THEOREM NoPermitLost == Spec => []PermitsAccounted
<1>1. ServerInvariant => PermitsAccounted
  BY DEF ServerInvariant
<1> QED BY <1>1, ServerInvariance, PTL

\* At most max_connections tasks of connections and tunnels run at once.
WithinLimit ==
    server = "serving" =>
        Cardinality(Connections) + Cardinality(Tunnels) <= config["MAX_CONNECTIONS"]

\* The tasks of connections and tunnels are never more than the limit.
THEOREM LimitHolds == Spec => []WithinLimit
<1>1. ServerInvariant => WithinLimit
  BY TasksAreFinite DEF ServerInvariant, PermitsAccounted, TypeOK, WithinLimit
<1> QED BY <1>1, ServerInvariance, PTL

\* The limits of a process that serves are not zero, and are those written.
THEOREM LimitsAsWritten == Spec => []ServesAsConfigured
<1>1. ServerInvariant => ServesAsConfigured
  <2> SUFFICES ASSUME ServerInvariant, server = "serving"
               PROVE  /\ \A v \in Critical : config[v] > 0
                      /\ \A v \in NumberVars : env[v] # None =>
                            IF Meaning(v, env[v]) <= MaxWord
                            THEN config[v] = Meaning(v, env[v])
                            ELSE v \in SizeVars => config[v] = MaxWord
    BY DEF ServesAsConfigured, NumberVars
  <2>1. /\ env \in Environments /\ FromVars(env) # Unparsable
        /\ config = FromVars(env)
    BY DEF ServerInvariant, TypeOK, Configured
  <2>2. ASSUME NEW v \in Critical PROVE config[v] > 0
    <3>1. v \in NumberVars
      BY DEF Critical, NumberVars, DurationVars
    <3> QED BY <2>1, <3>1, Accepted, AcceptedNumber
  <2> QED BY <2>1, <2>2, AcceptedMeaning
<1> QED BY <1>1, ServerInvariance, PTL

\* A request that was sent on is refused when it comes back.
THEOREM LoopsEnd == Spec => []LoopsAreCut
<1>1. ServerInvariant => LoopsAreCut
  <2> SUFFICES ASSUME ServerInvariant, NEW c \in Clients, asked[c] # None
               PROVE  Route(Forwarded(asked[c]), config) = "refused"
    BY DEF LoopsAreCut
  <2> DEFINE q == asked[c]
  <2>1. q \in Requests
    BY DEF ServerInvariant, TypeOK
  <2>2. "via" \in DOMAIN q
    BY <2>1, RequestsAssumption
  <2> HIDE DEF q
  <2>3. OwnVia \in Forwarded(q).via
    BY <2>2 DEF Forwarded
  <2>4. ~Valid(Forwarded(q), config)
    BY <2>3 DEF Valid
  <2> QED BY <2>4 DEF Route, q
<1> QED BY <1>1, ServerInvariance, PTL

-----------------------------------------------------------------------------
(* Requests.                                                               *)

\* What a connection handles was admitted under the settings in force, and a
\* target is dialed, and a tunnel kept, for a request that was routed there.
AdmittedFor(c) ==
    /\ conn[c] # "away" \/ tunnel[c] # "none" \/ asked[c] # None => server = "serving"
    /\ asked[c] # None => Route(asked[c], config) # "refused"
    /\ conn[c] = "dialing" \/ tunnel[c] # "none" =>
          asked[c] # None /\ Route(asked[c], config) = "dialing"

Admitted == \A c \in Clients : AdmittedFor(c)

\* Every step of the process keeps this, ...
LEMMA ProcessAdmits ==
    ASSUME ServerInvariant, Admitted, Load \/ LoadFails \/ Shutdown
    PROVE  Admitted'
<1>1. CASE Load \/ LoadFails
  BY <1>1 DEF Load, LoadFails, Admitted, AdmittedFor
<1>2. CASE Shutdown
  BY <1>2 DEF Shutdown, Admitted, AdmittedFor
<1> QED BY <1>1, <1>2

\* ... and so does a step that moves one client's connection, request and tunnel
\* to something admitted.
LEMMA ClientAdmits ==
    ASSUME TypeOK, Admitted, NEW c \in Clients, UNCHANGED process,
           NEW s, conn' = [conn EXCEPT ![c] = s],
           NEW q, asked' = [asked EXCEPT ![c] = q],
           NEW u, tunnel' = [tunnel EXCEPT ![c] = u],
           server = "serving", q # None => Route(q, config) # "refused",
           s = "dialing" \/ u # "none" => q # None /\ Route(q, config) = "dialing"
    PROVE  Admitted'
<1>1. UNCHANGED <<server, config>>
  BY DEF process
<1>2. conn'[c] = s /\ asked'[c] = q /\ tunnel'[c] = u
  BY DEF TypeOK
<1>3. AdmittedFor(c)'
  BY <1>1, <1>2 DEF AdmittedFor
<1>4. ASSUME NEW d \in Clients, d # c PROVE AdmittedFor(d)'
  <2>1. conn'[d] = conn[d] /\ asked'[d] = asked[d] /\ tunnel'[d] = tunnel[d]
    BY <1>4 DEF TypeOK
  <2> QED BY <1>1, <2>1 DEF Admitted, AdmittedFor
<1> QED BY <1>3, <1>4 DEF Admitted

\* The steps of the accept loop and of a client change no request.
LEMMA QueueAdmits ==
    ASSUME ServerInvariant, Admitted, NEW c \in Clients,
           Connect(c) \/ AcceptStep(c) \/ Leave(c)
    PROVE  Admitted'
<1>1. TypeOK /\ AdmittedFor(c)
  BY DEF ServerInvariant, Admitted
<1>2. asked' = [asked EXCEPT ![c] = asked[c]] /\ tunnel' = [tunnel EXCEPT ![c] = tunnel[c]]
  BY <1>1 DEF TypeOK, Connect, AcceptStep, Accept, Refuse, AcceptFails, Leave
<1>3. UNCHANGED process /\ server = "serving"
  BY <1>1 DEF AdmittedFor, Connect, AcceptStep, Accept, Refuse, AcceptFails, Leave
<1>4. PICK s : /\ conn' = [conn EXCEPT ![c] = s]
               /\ s = "dialing" => conn[c] = "dialing"
  <2>1. CASE Leave(c)
    <3>1. conn' = [conn EXCEPT ![c] = conn[c]]
      BY <1>1, <2>1 DEF TypeOK, Leave
    <3> QED BY <3>1
  <2>2. CASE Connect(c) \/ AcceptStep(c)
    <3>1. CASE Connect(c) \/ Accept(c)
      BY <3>1 DEF Connect, Accept
    <3>2. CASE Refuse(c) \/ AcceptFails(c)
      BY <1>1, <3>2, RefusedOrKept
    <3> QED BY <2>2, <3>1, <3>2 DEF AcceptStep
  <2> QED BY <2>1, <2>2
<1>5. /\ asked[c] # None => Route(asked[c], config) # "refused"
      /\ s = "dialing" \/ tunnel[c] # "none" =>
            asked[c] # None /\ Route(asked[c], config) = "dialing"
  BY <1>1, <1>4 DEF AdmittedFor
<1> QED BY <1>1, <1>2, <1>3, <1>4, <1>5, ClientAdmits

\* The steps of a connection.
LEMMA ConnectionAdmits ==
    ASSUME ServerInvariant, Admitted, NEW c \in Clients, ConnStep(c)
    PROVE  Admitted'
<1>1. /\ TypeOK /\ AdmittedFor(c)
      /\ conn[c] \in BeforeTunnel => tunnel[c] = "none"
  BY DEF ServerInvariant, Admitted, OneTunnelEach
<1>2. server = "serving" /\ UNCHANGED process
  BY <1>1 DEF AdmittedFor, ConnStep, Receive, CacheableAnswered, Uploaded, Fetched,
         PassthroughAnswered, PassthroughFails, DialFails, TunnelRefused, OpenTunnel,
         HandOver, ConnEnds, ConnStops, ConnDone, Serving
<1>3. ASSUME NEW q \in Requests, Receive(c, q) PROVE Admitted'
  <2> DEFINE r == Route(q, config)
  <2>1. /\ conn' = [conn EXCEPT ![c] = r] /\ asked' = [asked EXCEPT ![c] = q]
        /\ r # "refused" /\ q # None
    BY <1>3, RequestsAssumption DEF Receive, Goes
  <2>2. tunnel[c] = "none" /\ tunnel' = [tunnel EXCEPT ![c] = "none"]
    BY <1>1, <1>3 DEF Receive, BeforeTunnel, ConnState, Serving, TypeOK
  <2> QED BY <1>1, <1>2, <2>1, <2>2, ClientAdmits
<1>4. CASE \/ CacheableAnswered(c) \/ PassthroughAnswered(c) \/ PassthroughFails(c)
           \/ DialFails(c) \/ TunnelRefused(c)
  <2>1. PICK s, q : /\ conn' = [conn EXCEPT ![c] = s] /\ s # "dialing"
                    /\ asked' = [asked EXCEPT ![c] = q] /\ q = None
    BY <1>4 DEF CacheableAnswered, PassthroughAnswered, PassthroughFails, DialFails,
         TunnelRefused, Reopens, Goes
  <2>2. tunnel[c] = "none" /\ UNCHANGED tunnel
    BY <1>1, <1>4 DEF CacheableAnswered, PassthroughAnswered, PassthroughFails,
         DialFails, TunnelRefused, BeforeTunnel, ConnState, Serving
  <2>3. tunnel' = [tunnel EXCEPT ![c] = "none"]
    BY <1>1, <2>2 DEF TypeOK
  <2> QED BY <1>1, <1>2, <2>1, <2>3, ClientAdmits
<1>5. CASE Uploaded(c) \/ Fetched(c)
  <2>1. PICK s : conn' = [conn EXCEPT ![c] = s] /\ s # "dialing"
    BY <1>5 DEF Uploaded, Fetched, Goes
  <2>2. tunnel[c] = "none" /\ UNCHANGED <<asked, tunnel>>
    BY <1>1, <1>5 DEF Uploaded, Fetched, BeforeTunnel, ConnState, Serving
  <2>3. tunnel' = [tunnel EXCEPT ![c] = "none"] /\ asked' = [asked EXCEPT ![c] = asked[c]]
    BY <1>1, <2>2 DEF TypeOK
  <2>4. asked[c] # None => Route(asked[c], config) # "refused"
    BY <1>1 DEF AdmittedFor
  <2> QED BY <1>1, <1>2, <2>1, <2>3, <2>4, ClientAdmits
<1>6. CASE OpenTunnel(c) \/ HandOver(c)
  <2>1. PICK s, u : /\ conn' = [conn EXCEPT ![c] = s] /\ s # "dialing"
                    /\ tunnel' = [tunnel EXCEPT ![c] = u]
                    /\ u # "none" => conn[c] = "dialing" \/ tunnel[c] # "none"
    <3>1. CASE OpenTunnel(c)
      BY <3>1 DEF OpenTunnel, Goes
    <3>2. CASE HandOver(c)
      <4> DEFINE u == IF tunnel[c] = "upgrading" THEN "copying" ELSE tunnel[c]
      <4>1. /\ conn' = [conn EXCEPT ![c] = "closing"]
            /\ tunnel' = [tunnel EXCEPT ![c] = u]
            /\ u # "none" => tunnel[c] # "none"
        BY <3>2 DEF HandOver, Goes
      <4> HIDE DEF u
      <4> QED BY <4>1
    <3> QED BY <1>6, <3>1, <3>2
  <2>2. asked' = [asked EXCEPT ![c] = asked[c]]
    BY <1>1, <1>6 DEF TypeOK, OpenTunnel, HandOver
  <2>3. /\ asked[c] # None => Route(asked[c], config) # "refused"
        /\ u # "none" => asked[c] # None /\ Route(asked[c], config) = "dialing"
    BY <1>1, <2>1 DEF AdmittedFor
  <2> QED BY <1>1, <1>2, <2>1, <2>2, <2>3, ClientAdmits
<1>7. CASE ConnEnds(c) \/ ConnStops(c)
  <2> DEFINE q == IF tunnel[c] = "none" THEN None ELSE asked[c]
  <2>1. asked' = [asked EXCEPT ![c] = q]
    BY <1>7 DEF ConnEnds, ConnStops, ConnDone
  <2>2. tunnel' = [tunnel EXCEPT ![c] = tunnel[c]]
    BY <1>1, <1>7 DEF ConnEnds, ConnStops, ConnDone, TypeOK
  <2>3. /\ q # None => Route(q, config) # "refused"
        /\ tunnel[c] # "none" => q # None /\ Route(q, config) = "dialing"
    BY <1>1 DEF AdmittedFor
  <2> HIDE DEF q
  <2>4. PICK s : conn' = [conn EXCEPT ![c] = s] /\ s # "dialing"
    <3>1. conn' = [conn EXCEPT ![c] = "away"] /\ "away" # "dialing"
      BY <1>7 DEF ConnEnds, ConnStops, ConnDone, Goes
    <3> QED BY <3>1
  <2> QED BY <1>1, <1>2, <2>1, <2>2, <2>3, <2>4, ClientAdmits
<1> QED BY <1>3, <1>4, <1>5, <1>6, <1>7 DEF ConnStep

\* The steps of a tunnel.
LEMMA TunnelAdmits ==
    ASSUME ServerInvariant, Admitted, NEW c \in Clients, TunnelStep(c)
    PROVE  Admitted'
<1>1. /\ TypeOK /\ AdmittedFor(c)
      /\ conn[c] \in BeforeTunnel => tunnel[c] = "none"
  BY DEF ServerInvariant, Admitted, OneTunnelEach
<1>2. tunnel[c] # "none" /\ UNCHANGED <<process, conn>>
  BY DEF TunnelStep, UpgradeFails, TargetCloses, TunnelDrained, TunnelBreaks, TunnelDone
<1>3. /\ server = "serving" /\ conn' = [conn EXCEPT ![c] = conn[c]]
      /\ conn[c] # "dialing" /\ asked[c] # None /\ Route(asked[c], config) = "dialing"
  BY <1>1, <1>2 DEF AdmittedFor, TypeOK, BeforeTunnel, ConnState, Serving
<1>4. CASE TargetCloses(c)
  <2>1. /\ tunnel' = [tunnel EXCEPT ![c] = "halfClosed"]
        /\ asked' = [asked EXCEPT ![c] = asked[c]]
    BY <1>1, <1>4 DEF TargetCloses, TypeOK
  <2> QED BY <1>1, <1>2, <1>3, <2>1, ClientAdmits
<1>5. CASE UpgradeFails(c) \/ TunnelDrained(c) \/ TunnelBreaks(c)
  <2> DEFINE q == IF conn[c] = "away" THEN None ELSE asked[c]
  <2>1. /\ tunnel' = [tunnel EXCEPT ![c] = "none"]
        /\ asked' = [asked EXCEPT ![c] = q]
    BY <1>5 DEF UpgradeFails, TunnelDrained, TunnelBreaks, TunnelDone
  <2>2. q # None => Route(q, config) # "refused"
    BY <1>3
  <2> HIDE DEF q
  <2> QED BY <1>1, <1>2, <1>3, <2>1, <2>2, ClientAdmits
<1> QED BY <1>4, <1>5 DEF TunnelStep

\* Every state handles admitted requests only.
THEOREM AdmittedAlways == Spec => []Admitted
<1>1. Init => Admitted
  BY DEF Init, Admitted, AdmittedFor
<1>2. ServerInvariant /\ Admitted /\ [Next]_vars => Admitted'
  <2> SUFFICES ASSUME ServerInvariant, Admitted, [Next]_vars PROVE Admitted'
    OBVIOUS
  <2>1. CASE UNCHANGED vars
    BY <2>1 DEF vars, process, Admitted, AdmittedFor
  <2>2. CASE Load \/ LoadFails \/ Shutdown
    BY <2>2, ProcessAdmits
  <2>3. ASSUME NEW c \in Clients,
               Connect(c) \/ AcceptStep(c) \/ ConnStep(c) \/ TunnelStep(c) \/ Leave(c)
        PROVE  Admitted'
    BY <2>3, QueueAdmits, ConnectionAdmits, TunnelAdmits
  <2> QED BY <2>1, <2>2, <2>3 DEF Next
<1> QED BY <1>1, <1>2, ServerInvariance, PTL DEF Spec

\* The characters of names, which are strings; that the three literals are,
\* too, the provers do not know.
Characters == STRING \cup {".", "[", "]"}

\* The patterns of a host filter are names.
LEMMA Patterns ==
    ASSUME NEW e \in Environments, FromVars(e) # Unparsable, NEW v \in HostVars,
           NEW d \in FromVars(e)[v]
    PROVE  d \in Seq(Characters)
<1>1. /\ v \in Vars /\ v \notin SizeVars \cup DurationVars \cup CountVars
  BY DEF Vars, HostVars, SizeVars, DurationVars, CountVars
<1>2. FromVars(e)[v] = IF e[v] = None THEN Default[v] ELSE Parse(v, e[v])
  BY <1>1, Accepted DEF Settings
<1>3. CASE e[v] = None
  BY <1>2, <1>3 DEF Default, HostVars
<1>4. CASE e[v] # None
  <2>1. e[v] \in Seq(Seq(STRING))
    BY <1>4, EnvironmentsAssumption
  <2>2. v \in HostVars /\ v \notin OtherVars
    BY DEF HostVars, OtherVars
  <2> DEFINE t == e[v]
             size == ParseSize(t)
             duration == ParseDuration(t)
             count == ParseCount(t)
             hosts == {h \in ToSet(t) : h # <<>>}
  <2>3. Parse(v, t) = CASE v \in SizeVars -> size
                        [] v \in DurationVars -> duration
                        [] v \in CountVars -> count
                        [] v \in HostVars -> hosts
                        [] v \in OtherVars -> t
    BY DEF Parse
  <2> HIDE DEF size, duration, count, hosts
  <2>4. Parse(v, t) = hosts
    BY <1>1, <2>2, <2>3
  <2>5. d \in ToSet(t)
    BY <1>2, <1>4, <2>4 DEF hosts
  <2>6. d \in Seq(STRING)
    BY <2>1, <2>5 DEF ToSet
  <2> QED BY <2>6, Wider DEF Characters
<1> QED BY <1>3, <1>4

\* A request that is not refused has an authority, and the name in it is what
\* the filters look at and what a tunnel leads to.
LEMMA NameAdmitted ==
    ASSUME NEW q \in Requests, NEW s, Route(q, s) # "refused"
    PROVE  /\ HostOf(q) \in Seq(Characters) /\ StripHostPort(HostOf(q)) = NameOf(q)
           /\ ConnectTarget(q.authority) # NoHost =>
                 Written(ConnectTarget(q.authority).host, NameOf(q))
<1>1. Valid(q, s) /\ (q.method = "CONNECT" => ConnectTarget(q.authority) # NoHost)
  BY DEF Route
<1>2. q.authority # NoHost
  <2>1. CASE q.scheme
    BY <2>1, AuthoritiesAssumption
  <2>2. CASE ~q.scheme
    <3>1. ConnectTarget(q.authority) # NoHost
      BY <1>1, <2>2 DEF Valid
    <3> QED BY <3>1 DEF ConnectTarget
  <2> QED BY <2>1, <2>2
<1> DEFINE a == q.authority
<1>3. a \in Seq(Characters) /\ a # NoHost
  <2>1. a \in Seq(STRING)
    BY <1>2, RequestsAssumption
  <2> QED BY <1>2, <2>1, Wider DEF Characters
<1>4. NameOf(q) \in Parts(a) /\ Names(a, NameOf(q))
  BY <1>2, AuthoritiesAssumption DEF NameOf
<1> HIDE DEF a
<1>5. NameOf(q) \in Seq(Characters)
  <2>1. PICK i \in {1, 2}, j \in 0..Len(a) : NameOf(q) = SubSeq(a, i, j)
    BY <1>4 DEF Parts
  <2>2. i \in Nat \ {0} /\ j \in Nat /\ j <= Len(a)
    BY <1>3
  <2> QED BY <1>3, <2>1, <2>2, Part
<1>6. "[" \in Characters /\ "]" \in Characters
  BY DEF Characters
<1>7. /\ UriHost(a) \in Seq(Characters) /\ StripHostPort(UriHost(a)) = NameOf(q)
      /\ ConnectTarget(a) # NoHost => Written(ConnectTarget(a).host, NameOf(q))
  BY <1>3, <1>4, <1>5, <1>6, NameIsChecked
<1>8. HostOf(q) = UriHost(a)
  BY <1>2 DEF HostOf, a
<1> QED BY <1>3, <1>7, <1>8 DEF a

\* Nothing is forwarded, dialed or tunnelled but for a host of an allowed domain
\* and of no blocked one, and a tunnel leads to that host, at port 443 where
\* strict_https asks for it, for authorities and patterns of any length.
THEOREM OnlyPermitted == Spec => []OnlyPermittedTargets
<1>1. ServerInvariant /\ Admitted => OnlyPermittedTargets
  <2> SUFFICES ASSUME ServerInvariant, Admitted, NEW c \in Clients, asked[c] # None
               PROVE  LET q == asked[c]  name == NameOf(q)
                          target == ConnectTarget(q.authority)
                      IN  /\ config["ALLOWED_HOSTS"] # {} =>
                                \E d \in config["ALLOWED_HOSTS"] : InDomain(name, d)
                          /\ \A d \in config["BLOCKED_HOSTS"] : ~InDomain(name, d)
                          /\ tunnel[c] # "none" =>
                                /\ target.host \in {name, <<"[">> \o name \o <<"]">>}
                                /\ config["STRICT_HTTPS"] => target.port = 443
    BY DEF OnlyPermittedTargets
  <2> DEFINE q == asked[c]
             target == ConnectTarget(q.authority)
  <2>1. /\ q \in Requests /\ server = "serving" /\ Route(q, config) # "refused"
        /\ tunnel[c] # "none" => Route(q, config) = "dialing"
    BY DEF ServerInvariant, TypeOK, Admitted, AdmittedFor
  <2>2. /\ env \in Environments /\ FromVars(env) # Unparsable
        /\ config = FromVars(env)
    BY <2>1 DEF ServerInvariant, TypeOK, Configured
  <2> HIDE DEF q
  <2>3. /\ HostOf(q) \in Seq(Characters) /\ StripHostPort(HostOf(q)) = NameOf(q)
        /\ target # NoHost => Written(target.host, NameOf(q))
    BY <2>1, NameAdmitted
  <2>4. ASSUME NEW v \in HostVars, NEW d \in config[v]
        PROVE  HostMatches(HostOf(q), d) <=> InDomain(NameOf(q), d)
    <3>1. d \in Seq(Characters)
      BY <2>2, <2>4, Patterns
    <3>2. "." \in Characters
      BY DEF Characters
    <3> QED BY <2>3, <3>1, <3>2, MatchesDomain
  <2>5. "ALLOWED_HOSTS" \in HostVars /\ "BLOCKED_HOSTS" \in HostVars
    BY DEF HostVars
  <2>6. Valid(q, config)
    BY <2>1 DEF Route
  <2>7. /\ config["ALLOWED_HOSTS"] # {} =>
              \E d \in config["ALLOWED_HOSTS"] : HostMatches(HostOf(q), d)
        /\ \A d \in config["BLOCKED_HOSTS"] : ~HostMatches(HostOf(q), d)
    BY <2>6 DEF Valid
  <2>8. config["ALLOWED_HOSTS"] # {} =>
           \E d \in config["ALLOWED_HOSTS"] : InDomain(NameOf(q), d)
    BY <2>4, <2>5, <2>7
  <2>9. \A d \in config["BLOCKED_HOSTS"] : ~InDomain(NameOf(q), d)
    BY <2>4, <2>5, <2>7
  <2>10. ASSUME tunnel[c] # "none"
         PROVE  /\ Written(target.host, NameOf(q))
                /\ config["STRICT_HTTPS"] => target.port = 443
    <3>1. target # NoHost /\ (config["STRICT_HTTPS"] => target.port = 443)
      BY <2>1, <2>10 DEF Route
    <3> QED BY <2>3, <3>1
  <2> HIDE DEF target
  <2> QED BY <2>8, <2>9, <2>10 DEF Written, q, target
<1> QED BY <1>1, ServerInvariance, AdmittedAlways, PTL

=============================================================================
