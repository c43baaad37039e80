--------------------------- MODULE TieredCacheProofs ---------------------------
(***************************************************************************)
(* Theorems of TieredCache, for any requests, responses and number of gets.*)
(*                                                                         *)
(* The invariant that carries them says of every place an entry can be in  *)
(* that it is an entry of its key, and of a get in each control state what *)
(* it has seen: an entry that was alive, one that had expired, or none.    *)
(***************************************************************************)
EXTENDS TieredCache, DataLemmas, TLAPS

-----------------------------------------------------------------------------
(* What the policy gives.                                                  *)

\* The fields of a response are what the assumption says.
LEMMA ResponseFields ==
    ASSUME NEW r \in Responses
    PROVE  /\ r.cacheControl \in Seq(Directive)
           /\ r.expires \in Int \cup {None, Unparsable}
BY AsksAssumption

\* An age found in the Cache-Control lines is a natural number, and one of
\* those given there under its name.
LEMMA AgeIsGiven ==
    ASSUME NEW r \in Responses, NEW name \in {"s-maxage", "max-age"},
           Ages(r, name) # {}
    PROVE  Age(r, name) \in Nat /\ Age(r, name) \in Given(r, name)
<1> DEFINE c == r.cacheControl
           m == Max(Ages(r, name))
<1>1. c \in Seq(Directive)
  BY ResponseFields
<1>2. Len(c) \in Nat /\ DOMAIN c = 1..Len(c)
  BY <1>1
<1>3. Ages(r, name) \in SUBSET (0..Len(c))
  BY <1>2 DEF Ages
<1>4. m \in Ages(r, name)
  BY <1>2, <1>3, MaxIsGreatest
<1>5. /\ m \in DOMAIN c /\ c[m] \in Directive
      /\ c[m].name = name /\ c[m].value # Unparsable
  <2>1. m \in DOMAIN c /\ c[m].name = name /\ c[m].value # Unparsable
    BY <1>4 DEF Ages
  <2> HIDE DEF c, m
  <2> QED BY <1>1, <1>2, <2>1
<1>6. Age(r, name) = c[m].value
  BY DEF Age
<1>7. c[m].value \in Nat
  BY <1>5 DEF Directive
<1>8. c[m] \in ToSet(c)
  BY <1>5 DEF ToSet
<1> HIDE DEF c, m
<1>9. c[m].value \in Given(r, name)
  BY <1>5, <1>8 DEF Given, c
<1> QED BY <1>6, <1>7, <1>9

\* What the headers give is a number of seconds, or nothing.
LEMMA HeaderTTLType ==
    ASSUME NEW r \in Responses, NEW t \in Nat
    PROVE  HeaderTTL(r, t) \in Nat \cup {None}
<1>1. CASE Ages(r, "s-maxage") # {}
  BY <1>1, AgeIsGiven DEF HeaderTTL
<1>2. CASE Ages(r, "s-maxage") = {} /\ Ages(r, "max-age") # {}
  BY <1>2, AgeIsGiven DEF HeaderTTL
<1>3. CASE /\ Ages(r, "s-maxage") = {} /\ Ages(r, "max-age") = {}
           /\ r.expires # None
  <2>1. HeaderTTL(r, t) = SecondsUntil(r.expires, t)
    BY <1>3 DEF HeaderTTL
  <2>2. r.expires \in Int \cup {Unparsable}
    BY <1>3, ResponseFields
  <2>3. CASE r.expires = Unparsable
    BY <2>1, <2>3 DEF SecondsUntil
  <2>4. CASE r.expires # Unparsable /\ r.expires < t
    BY <2>1, <2>4 DEF SecondsUntil
  <2>5. CASE r.expires # Unparsable /\ ~(r.expires < t)
    <3>1. r.expires - t \in Nat
      BY <2>2, <2>5
    <3>2. (r.expires - t) \div 2 \in Nat
      BY <3>1
    <3> QED BY <2>1, <2>5, <3>2 DEF SecondsUntil, TicksPerSecond
  <2> QED BY <2>3, <2>4, <2>5
<1>4. CASE /\ Ages(r, "s-maxage") = {} /\ Ages(r, "max-age") = {}
           /\ r.expires = None
  BY <1>4 DEF HeaderTTL
<1> QED BY <1>1, <1>2, <1>3, <1>4

\* A TTL is a number of seconds.
LEMMA TTLType ==
    ASSUME NEW uri, NEW r \in Responses, NEW t \in Nat
    PROVE  TTL(uri, r, t) \in Nat
BY HeaderTTLType, PolicyAssumption DEF TTL, AptTTL

-----------------------------------------------------------------------------
(* The invariant.                                                          *)

Fetch == [phase : FetchPhase, ask : Asks \cup {None},
          response : Responses \cup {None}, entry : Entry \cup {None}]

\* An entry that belongs under the key k.
Held(e, k) == e \in Entry /\ CacheKeyOf(e.ask) = k

TiersHold ==
    \A k \in Keys : /\ memory[k] = None \/ Held(memory[k], k)
                    /\ disk[k] = None \/ Held(disk[k], k)

\* A download has been asked for under its key; it has a response from the
\* headers on and an entry while that is put.
FetchesHold ==
    \A k \in Keys :
        LET f == fetch[k] IN
        /\ f.phase # "none" => f.ask \in Asks /\ CacheKeyOf(f.ask) = k
        /\ f.phase \in {"body", "toDisk", "toMemory"} => f.response \in Responses
        /\ IF f.phase \in {"toDisk", "toMemory"} THEN Held(f.entry, k)
           ELSE f.entry = None

\* A get has an entry of its key while it removes, promotes or answers one;
\* what it removes had expired when it was seen, and the rest had not.
GetsHold ==
    \A g \in Gets :
        LET p == get[g] IN
        /\ p.phase # "idle" => p.ask \in Asks
        /\ IF p.phase \in {"expired", "promote", "purge", "hit"}
           THEN Held(p.entry, CacheKeyOf(p.ask)) ELSE p.entry = None
        /\ p.phase \in {"expired", "purge"} => IsExpired(p.entry, p.at)
        /\ p.phase \in {"promote", "hit"} => ~IsExpired(p.entry, p.at)

CacheInvariant == TypeOK /\ TiersHold /\ FetchesHold /\ GetsHold

\* The key of an ask is one of the keys.
LEMMA KeyOfAsk ==
    ASSUME NEW a \in Asks
    PROVE  CacheKeyOf(a) \in Keys
BY DEF Keys

\* The invariant holds of the empty cache ...
LEMMA InitHolds == Init => CacheInvariant
<1> SUFFICES ASSUME Init PROVE CacheInvariant
  OBVIOUS
<1>1. TypeOK
  BY AsksAssumption DEF Init, TypeOK, NoFetch, NoGet, FetchPhase, GetPhase
<1>2. TiersHold /\ FetchesHold /\ GetsHold
  BY DEF Init, TiersHold, FetchesHold, GetsHold, NoFetch, NoGet
<1> QED BY <1>1, <1>2 DEF CacheInvariant

\* ... and every action keeps it: those of a get,
LEMMA LookInMemoryHolds ==
    ASSUME CacheInvariant, NEW g \in Gets, NEW a \in Asks, LookInMemory(g, a)
    PROVE  CacheInvariant'
BY KeyOfAsk DEF CacheInvariant, TypeOK, TiersHold, FetchesHold, GetsHold, GetPhase, FetchPhase,
   LookInMemory

LEMMA InvalidateHolds ==
    ASSUME CacheInvariant, NEW g \in Gets, Invalidate(g)
    PROVE  CacheInvariant'
BY KeyOfAsk DEF CacheInvariant, TypeOK, TiersHold, FetchesHold, GetsHold, GetPhase, FetchPhase,
   Invalidate, KeyOf, Moves, NoGet

LEMMA DiskHitHolds ==
    ASSUME CacheInvariant, NEW g \in Gets, DiskHit(g)
    PROVE  CacheInvariant'
BY KeyOfAsk DEF CacheInvariant, TypeOK, TiersHold, FetchesHold, GetsHold, GetPhase, FetchPhase,
   DiskHit, KeyOf, Takes

LEMMA DiskExpiredHolds ==
    ASSUME CacheInvariant, NEW g \in Gets, DiskExpired(g)
    PROVE  CacheInvariant'
BY KeyOfAsk DEF CacheInvariant, TypeOK, TiersHold, FetchesHold, GetsHold, GetPhase, FetchPhase,
   DiskExpired, KeyOf, Takes

LEMMA DiskMissHolds ==
    ASSUME CacheInvariant, NEW g \in Gets, DiskMiss(g)
    PROVE  CacheInvariant'
BY KeyOfAsk DEF CacheInvariant, TypeOK, TiersHold, FetchesHold, GetsHold, GetPhase, FetchPhase,
   DiskMiss, KeyOf, Moves, NoGet

LEMMA DiskFailsHolds ==
    ASSUME CacheInvariant, NEW g \in Gets, DiskFails(g)
    PROVE  CacheInvariant'
BY KeyOfAsk DEF CacheInvariant, TypeOK, TiersHold, FetchesHold, GetsHold, GetPhase, FetchPhase,
   DiskFails, Ends, NoGet

LEMMA PromoteHolds ==
    ASSUME CacheInvariant, NEW g \in Gets, Promote(g)
    PROVE  CacheInvariant'
BY KeyOfAsk DEF CacheInvariant, TypeOK, TiersHold, FetchesHold, GetsHold, GetPhase, FetchPhase,
   Promote, KeyOf

LEMMA PurgeHolds ==
    ASSUME CacheInvariant, NEW g \in Gets, Purge(g)
    PROVE  CacheInvariant'
BY KeyOfAsk DEF CacheInvariant, TypeOK, TiersHold, FetchesHold, GetsHold, GetPhase, FetchPhase,
   Purge, KeyOf, Moves, NoGet

\* of the requests,
LEMMA JoinOrStartHolds ==
    ASSUME CacheInvariant, NEW g \in Gets, JoinOrStart(g)
    PROVE  CacheInvariant'
<1> DEFINE k == KeyOf(g)
<1>1. k \in Keys /\ get[g].ask \in Asks /\ k = CacheKeyOf(get[g].ask)
  BY KeyOfAsk DEF CacheInvariant, GetsHold, JoinOrStart, KeyOf
<1> HIDE DEF k
<1>2. get' = [get EXCEPT ![g] = NoGet] /\ memory' = memory /\ disk' = disk /\ now' = now
  BY DEF JoinOrStart, Ends
<1>3. CASE UNCHANGED <<fetch, downloads>>
  BY <1>2, <1>3 DEF CacheInvariant, TypeOK, TiersHold, FetchesHold, GetsHold,
     GetPhase, NoGet
<1>4. CASE /\ fetch[k].phase = "none" /\ downloads < MaxDownloads
           /\ fetch' = [fetch EXCEPT ![k].phase = "sent", ![k].ask = get[g].ask]
           /\ downloads' = downloads + 1
  <2>1. TypeOK'
    <3>1. fetch[k] \in Fetch
      BY <1>1 DEF CacheInvariant, TypeOK, Fetch
    <3>2. [fetch[k] EXCEPT !.phase = "sent", !.ask = get[g].ask] \in Fetch
      BY <1>1, <3>1 DEF Fetch, FetchPhase
    <3>3. fetch' \in [Keys -> Fetch]
      BY <1>4, <3>2 DEF CacheInvariant, TypeOK, Fetch
    <3>4. downloads' \in 0..MaxDownloads
      BY <1>4, AsksAssumption DEF CacheInvariant, TypeOK
    <3> QED BY <1>2, <3>3, <3>4
            DEF CacheInvariant, TypeOK, Fetch, GetPhase, NoGet
  <2>2. FetchesHold'
    BY <1>1, <1>4 DEF CacheInvariant, TypeOK, FetchesHold
  <2>3. TiersHold' /\ GetsHold'
    BY <1>2 DEF CacheInvariant, TypeOK, TiersHold, GetsHold, NoGet
  <2> QED BY <2>1, <2>2, <2>3 DEF CacheInvariant
<1> QED BY <1>3, <1>4 DEF JoinOrStart, k

LEMMA RespondHolds ==
    ASSUME CacheInvariant, NEW g \in Gets, Respond(g)
    PROVE  CacheInvariant'
BY KeyOfAsk DEF CacheInvariant, TypeOK, TiersHold, FetchesHold, GetsHold, GetPhase, FetchPhase,
   Respond, Ends, NoGet

LEMMA DisconnectHolds ==
    ASSUME CacheInvariant, NEW g \in Gets, Disconnect(g)
    PROVE  CacheInvariant'
BY KeyOfAsk DEF CacheInvariant, TypeOK, TiersHold, FetchesHold, GetsHold, GetPhase, FetchPhase,
   Disconnect, Ends, NoGet

\* of the downloads,
LEMMA HeadersArriveHolds ==
    ASSUME CacheInvariant, NEW k \in Keys, NEW r \in Responses, HeadersArrive(k, r)
    PROVE  CacheInvariant'
<1>1. TypeOK'
  <2>1. fetch[k] \in Fetch
    BY DEF CacheInvariant, TypeOK, Fetch
  <2>2. [fetch[k] EXCEPT !.phase = "body", !.response = r] \in Fetch
    BY <2>1 DEF Fetch, FetchPhase
  <2>3. fetch' \in [Keys -> Fetch]
    BY <2>2 DEF CacheInvariant, TypeOK, Fetch, HeadersArrive
  <2> QED BY <2>3 DEF CacheInvariant, TypeOK, Fetch, HeadersArrive
<1>2. FetchesHold'
  BY DEF CacheInvariant, TypeOK, FetchesHold, HeadersArrive
<1>3. TiersHold' /\ GetsHold'
  BY DEF CacheInvariant, TiersHold, GetsHold, HeadersArrive
<1> QED BY <1>1, <1>2, <1>3 DEF CacheInvariant

LEMMA DownloadFailsHolds ==
    ASSUME CacheInvariant, NEW k \in Keys, DownloadFails(k)
    PROVE  CacheInvariant'
BY KeyOfAsk DEF CacheInvariant, TypeOK, TiersHold, FetchesHold, GetsHold, GetPhase, FetchPhase,
   DownloadFails, NoFetch

LEMMA BodyEndsHolds ==
    ASSUME CacheInvariant, NEW k \in Keys, NEW big \in BOOLEAN, BodyEnds(k, big)
    PROVE  CacheInvariant'
<1> DEFINE f == fetch[k]
           e == [ask |-> f.ask, stamp |-> now, ttl |-> TTL(k.uri, f.response, now)]
<1>1. f.response \in Responses /\ f.ask \in Asks /\ CacheKeyOf(f.ask) = k
  BY DEF CacheInvariant, FetchesHold, BodyEnds
<1>2. TTL(k.uri, f.response, now) \in Nat /\ now \in Nat
  BY <1>1, TTLType DEF CacheInvariant, TypeOK
<1>3. e \in Entry /\ Held(e, k)
  BY <1>1, <1>2 DEF Entry, Held
<1> HIDE DEF e
<1>4. UNCHANGED <<memory, disk, get, now, downloads>>
  BY DEF BodyEnds
<1>5. TiersHold' /\ GetsHold'
  BY <1>4 DEF CacheInvariant, TiersHold, GetsHold
<1>6. CASE fetch' = [fetch EXCEPT ![k] = NoFetch]
  BY <1>4, <1>5, <1>6
     DEF CacheInvariant, TypeOK, FetchesHold, FetchPhase, NoFetch
<1>7. CASE \E p \in {"toDisk", "toMemory"} :
              fetch' = [fetch EXCEPT ![k] = [f EXCEPT !.phase = p, !.entry = e]]
  <2>1. PICK p \in {"toDisk", "toMemory"} :
           fetch' = [fetch EXCEPT ![k] = [f EXCEPT !.phase = p, !.entry = e]]
    BY <1>7
  <2>2. TypeOK'
    <3>1. f \in Fetch
      BY DEF CacheInvariant, TypeOK, Fetch
    <3>2. [f EXCEPT !.phase = p, !.entry = e] \in Fetch
      BY <1>3, <3>1 DEF Fetch, FetchPhase
    <3>3. fetch' \in [Keys -> Fetch]
      BY <2>1, <3>2 DEF CacheInvariant, TypeOK, Fetch
    <3> QED BY <1>4, <3>3 DEF CacheInvariant, TypeOK, Fetch
  <2>3. FetchesHold'
    BY <1>1, <1>3, <2>1 DEF CacheInvariant, TypeOK, FetchesHold
  <2> QED BY <1>5, <2>2, <2>3 DEF CacheInvariant
<1> QED BY <1>6, <1>7 DEF BodyEnds, e

LEMMA PutDiskHolds ==
    ASSUME CacheInvariant, NEW k \in Keys, PutDisk(k)
    PROVE  CacheInvariant'
<1>1. Held(fetch[k].entry, k) /\ fetch[k].entry \in Entry
  BY DEF CacheInvariant, FetchesHold, PutDisk, Held
<1>2. TypeOK'
  <2>1. fetch[k] \in Fetch
    BY DEF CacheInvariant, TypeOK, Fetch
  <2>2. [fetch[k] EXCEPT !.phase = "toMemory"] \in Fetch
    BY <2>1 DEF Fetch, FetchPhase
  <2>3. fetch' \in [Keys -> Fetch]
    BY <2>2 DEF CacheInvariant, TypeOK, Fetch, PutDisk
  <2>4. disk' \in [Keys -> Entry \cup {None}]
    BY <1>1 DEF CacheInvariant, TypeOK, PutDisk
  <2> QED BY <2>3, <2>4 DEF CacheInvariant, TypeOK, Fetch, PutDisk
<1>3. FetchesHold'
  BY DEF CacheInvariant, TypeOK, FetchesHold, PutDisk
<1>4. TiersHold'
  BY <1>1 DEF CacheInvariant, TypeOK, TiersHold, PutDisk
<1>5. GetsHold'
  BY DEF CacheInvariant, GetsHold, PutDisk
<1> QED BY <1>2, <1>3, <1>4, <1>5 DEF CacheInvariant

LEMMA PutDiskFailsHolds ==
    ASSUME CacheInvariant, NEW k \in Keys, PutDiskFails(k)
    PROVE  CacheInvariant'
BY KeyOfAsk DEF CacheInvariant, TypeOK, TiersHold, FetchesHold, GetsHold, GetPhase, FetchPhase,
   PutDiskFails, NoFetch

LEMMA PutMemoryHolds ==
    ASSUME CacheInvariant, NEW k \in Keys, PutMemory(k)
    PROVE  CacheInvariant'
BY KeyOfAsk DEF CacheInvariant, TypeOK, TiersHold, FetchesHold, GetsHold, GetPhase, FetchPhase,
   PutMemory, NoFetch

\* of the tiers,
LEMMA MemoryEvictsHolds ==
    ASSUME CacheInvariant, NEW k \in Keys, MemoryEvicts(k)
    PROVE  CacheInvariant'
BY KeyOfAsk DEF CacheInvariant, TypeOK, TiersHold, FetchesHold, GetsHold, GetPhase, FetchPhase,
   MemoryEvicts

LEMMA DiskEvictsHolds ==
    ASSUME CacheInvariant, NEW k \in Keys, DiskEvicts(k)
    PROVE  CacheInvariant'
BY KeyOfAsk DEF CacheInvariant, TypeOK, TiersHold, FetchesHold, GetsHold, GetPhase, FetchPhase,
   DiskEvicts

LEMMA RestartHolds ==
    ASSUME CacheInvariant, Restart
    PROVE  CacheInvariant'
BY KeyOfAsk DEF CacheInvariant, TypeOK, TiersHold, FetchesHold, GetsHold, GetPhase, FetchPhase,
   Restart, NoFetch, NoGet

\* and of the clock.
LEMMA ClockMovesHolds ==
    ASSUME CacheInvariant, ClockMoves
    PROVE  CacheInvariant'
BY KeyOfAsk DEF CacheInvariant, TypeOK, TiersHold, FetchesHold, GetsHold, GetPhase, FetchPhase,
   ClockMoves

\* Every step keeps the invariant.
LEMMA StepHolds == CacheInvariant /\ [Next]_vars => CacheInvariant'
<1> SUFFICES ASSUME CacheInvariant, [Next]_vars PROVE CacheInvariant'
  OBVIOUS
<1>1. ASSUME NEW g \in Gets, GetStep(g) PROVE CacheInvariant'
  BY <1>1, LookInMemoryHolds, InvalidateHolds, DiskHitHolds, DiskExpiredHolds,
     DiskMissHolds, DiskFailsHolds, PromoteHolds, PurgeHolds, JoinOrStartHolds,
     RespondHolds, DisconnectHolds DEF GetStep
<1>2. ASSUME NEW k \in Keys, FetchStep(k) PROVE CacheInvariant'
  BY <1>2, HeadersArriveHolds, BodyEndsHolds, DownloadFailsHolds, PutDiskHolds,
     PutDiskFailsHolds, PutMemoryHolds DEF FetchStep
<1>3. CASE UNCHANGED vars
  BY <1>3 DEF vars, CacheInvariant, TypeOK, TiersHold, FetchesHold, GetsHold
<1> QED BY <1>1, <1>2, <1>3, MemoryEvictsHolds, DiskEvictsHolds, RestartHolds,
           ClockMovesHolds DEF Next

\* Every state satisfies the invariant.
THEOREM CacheInvariance == Spec => []CacheInvariant
BY InitHolds, StepHolds, PTL DEF Spec

\* Every variable keeps its type; in particular no age and no stamp is negative.
THEOREM TypeCorrect == Spec => []TypeOK
<1>1. CacheInvariant => TypeOK
  BY DEF CacheInvariant
<1> QED BY <1>1, CacheInvariance, PTL

-----------------------------------------------------------------------------
(* What clients are answered.                                              *)

\* An age of no more than n whole seconds is less than n + 1 seconds.
LEMMA WholeSeconds ==
    ASSUME NEW s \in Nat, NEW t \in Nat, NEW n \in Nat,
           ~(t < s), ~((t - s) \div 2 > n)
    PROVE  s <= t /\ t - s < (n + 1) * 2
OBVIOUS

\* A get keeps the age its entry had when it was read.
LEMMA InvariantAnswersFresh == CacheInvariant => AnswersFresh
<1> SUFFICES ASSUME CacheInvariant, NEW g \in Gets, Settled(g)
             PROVE  /\ get[g].entry.stamp <= get[g].at
                    /\ get[g].at - get[g].entry.stamp
                          < (get[g].entry.ttl + 1) * TicksPerSecond
  BY DEF AnswersFresh
<1> DEFINE e == get[g].entry
           t == get[g].at
<1>1. e \in Entry /\ ~IsExpired(e, t)
  BY DEF CacheInvariant, GetsHold, Settled, Held
<1>2. t \in Nat
  BY DEF CacheInvariant, TypeOK
<1>3. e.stamp \in Nat /\ e.ttl \in Nat
  BY <1>1 DEF Entry
<1>4. ~(t < e.stamp) /\ ~((t - e.stamp) \div 2 > e.ttl)
  BY <1>1 DEF IsExpired, TicksPerSecond
<1> HIDE DEF e, t
<1>5. e.stamp <= t /\ t - e.stamp < (e.ttl + 1) * 2
  BY <1>2, <1>3, <1>4, WholeSeconds
<1> QED BY <1>5 DEF e, t, TicksPerSecond

\* No answer is older than its TTL, from whichever tier it comes.
THEOREM KeptFresh == Spec => []AnswersFresh
BY CacheInvariance, InvariantAnswersFresh, PTL

\* An answer was downloaded for a request with the same method, URI and
\* Accept-Encoding.
THEOREM VariantsApart == Spec => []AnswersOwnVariant
<1>1. CacheInvariant => AnswersOwnVariant
  <2> SUFFICES ASSUME CacheInvariant, NEW g \in Gets, Settled(g)
               PROVE  /\ get[g].ask.method = get[g].entry.ask.method
                      /\ get[g].ask.uri = get[g].entry.ask.uri
                      /\ get[g].ask.encoding = get[g].entry.ask.encoding
    BY DEF AnswersOwnVariant
  <2>1. CacheKeyOf(get[g].entry.ask) = CacheKeyOf(get[g].ask)
    BY DEF CacheInvariant, GetsHold, Settled, Held
  <2> QED BY <2>1 DEF CacheKeyOf
<1> QED BY <1>1, CacheInvariance, PTL

-----------------------------------------------------------------------------
(* What is stored, and for how long.                                       *)

\* A name that no line gives an age for is given no value at all.
LEMMA NothingGiven ==
    ASSUME NEW r \in Responses, NEW name, Ages(r, name) = {}
    PROVE  Given(r, name) = {}
<1> SUFFICES ASSUME NEW x \in Given(r, name) PROVE FALSE
  OBVIOUS
<1>1. PICK d \in ToSet(r.cacheControl) : d.name = name /\ d.value = x
  BY DEF Given
<1>2. PICK i \in DOMAIN r.cacheControl : r.cacheControl[i] = d
  BY <1>1 DEF ToSet
<1>3. x # Unparsable
  BY DEF Given
<1>4. i \in Ages(r, name)
  BY <1>1, <1>2, <1>3 DEF Ages
<1> QED BY <1>4

\* An entry kept until a date does not outlive it.
LEMMA SecondsEndBefore ==
    ASSUME NEW d \in Int, NEW t \in Nat, ~(d < t)
    PROVE  t + ((d - t) \div 2) * 2 <= d
OBVIOUS

\* The TTL of what is stored is one that the documentation allows.
LEMMA StoredTTL ==
    ASSUME NEW uri, NEW r \in Responses, NEW e, e.stamp \in Nat,
           Stores(uri, r, e.stamp), e.ttl = TTL(uri, r, e.stamp)
    PROVE  /\ DocumentedTTL(uri, e, r)
           /\ e.ttl = 0 /\ ~Special(uri) => DefaultTTL = 0
<1> DEFINE header == HeaderTTL(r, e.stamp)
<1>1. CASE Special(uri)
  <2>1. e.ttl = AptTTL(uri)
    BY <1>1 DEF TTL
  <2>2. e.ttl \in DocumentedClass(uri)
    BY <2>1 DEF AptTTL, IsAptPackageFile, IsAptPackageList, DocumentedClass,
       PlainPackages
  <2> QED BY <1>1, <2>2 DEF DocumentedTTL
<1>2. CASE ~Special(uri)
  <2>1. header # 0
    BY <1>2 DEF Stores
  <2>2. e.ttl = IF header = None THEN DefaultTTL ELSE header
    BY <1>2 DEF TTL
  <2>3. None \notin Int
    BY PolicyAssumption
  <2>4. CASE Ages(r, "s-maxage") # {}
    <3>1. header \in Nat /\ header \in Given(r, "s-maxage")
      BY <2>4, AgeIsGiven DEF HeaderTTL
    <3> QED BY <1>2, <2>1, <2>2, <2>3, <3>1 DEF DocumentedTTL
  <2>5. CASE Ages(r, "s-maxage") = {} /\ Ages(r, "max-age") # {}
    <3>1. header \in Nat /\ header \in Given(r, "max-age")
      BY <2>5, AgeIsGiven DEF HeaderTTL
    <3>2. Given(r, "s-maxage") = {}
      BY <2>5, NothingGiven
    <3> QED BY <1>2, <2>1, <2>2, <2>3, <3>1, <3>2 DEF DocumentedTTL
  <2>6. CASE Ages(r, "s-maxage") = {} /\ Ages(r, "max-age") = {}
    <3>1. Given(r, "s-maxage") = {} /\ Given(r, "max-age") = {}
      BY <2>6, NothingGiven
    <3>2. CASE r.expires = None
      <4>1. header = None
        BY <2>6, <3>2 DEF HeaderTTL
      <4> QED BY <1>2, <2>2, <3>1, <3>2, <4>1 DEF DocumentedTTL
    <3>3. CASE r.expires # None
      <4>1. header = SecondsUntil(r.expires, e.stamp)
        BY <2>6, <3>3 DEF HeaderTTL
      <4>2. r.expires # Unparsable /\ ~(r.expires < e.stamp)
        BY <2>1, <4>1 DEF SecondsUntil
      <4>3. r.expires \in Int
        BY <3>3, <4>2, ResponseFields
      <4>4. header = (r.expires - e.stamp) \div 2
        BY <4>1, <4>2 DEF SecondsUntil, TicksPerSecond
      <4>5. header \in Int
        BY <4>3, <4>4
      <4>6. e.ttl = header /\ e.ttl # 0
        BY <2>1, <2>2, <2>3, <4>5
      <4>7. e.stamp + e.ttl * 2 <= r.expires
        BY <4>2, <4>3, <4>4, <4>6, SecondsEndBefore
      <4> QED BY <1>2, <3>1, <3>3, <4>2, <4>6, <4>7
              DEF DocumentedTTL, TicksPerSecond
    <3> QED BY <3>2, <3>3
  <2> QED BY <2>4, <2>5, <2>6
<1> QED BY <1>1, <1>2

\* The download of a key puts an entry.
Puts(k) == fetch[k].phase \in {"toDisk", "toMemory"}

\* It goes on with the same entry, or its body has just ended.
LEMMA PutsBefore ==
    ASSUME CacheInvariant, [Next]_vars, NEW k \in Keys, Puts(k)'
    PROVE  \/ Puts(k) /\ UNCHANGED <<fetch[k].response, fetch[k].entry>>
           \/ \E big \in BOOLEAN : BodyEnds(k, big)
<1> DEFINE Goal == \/ Puts(k) /\ UNCHANGED <<fetch[k].response, fetch[k].entry>>
                   \/ \E big \in BOOLEAN : BodyEnds(k, big)
<1>1. CASE UNCHANGED fetch
  BY <1>1 DEF Puts
<1>2. ASSUME NEW g \in Gets, JoinOrStart(g) PROVE Goal
  BY <1>2 DEF Puts, JoinOrStart, CacheInvariant, TypeOK
<1>3. ASSUME NEW j \in Keys, NEW r \in Responses, HeadersArrive(j, r) PROVE Goal
  BY <1>3 DEF Puts, HeadersArrive, CacheInvariant, TypeOK
<1>4. ASSUME NEW j \in Keys, NEW big \in BOOLEAN, BodyEnds(j, big) PROVE Goal
  BY <1>4 DEF Puts, BodyEnds, CacheInvariant, TypeOK
<1>5. ASSUME NEW j \in Keys, DownloadFails(j) \/ PutDiskFails(j) \/ PutMemory(j)
      PROVE  Goal
  BY <1>5 DEF Puts, DownloadFails, PutDiskFails, PutMemory, CacheInvariant,
     TypeOK, NoFetch
<1>6. ASSUME NEW j \in Keys, PutDisk(j) PROVE Goal
  BY <1>6 DEF Puts, PutDisk, CacheInvariant, TypeOK
<1>7. CASE Restart
  BY <1>7 DEF Puts, Restart, NoFetch
<1>8. ASSUME NEW g \in Gets, GetStep(g), ~JoinOrStart(g) PROVE UNCHANGED fetch
  BY <1>8 DEF GetStep, LookInMemory, Invalidate, DiskHit, DiskExpired, DiskMiss,
     DiskFails, Promote, Purge, Respond, Disconnect
<1>9. ASSUME NEW j \in Keys, MemoryEvicts(j) \/ DiskEvicts(j) \/ ClockMoves
      PROVE  UNCHANGED fetch
  BY <1>9 DEF MemoryEvicts, DiskEvicts, ClockMoves
<1>10. ClockMoves => UNCHANGED fetch
  BY DEF ClockMoves
<1>11. UNCHANGED vars => UNCHANGED fetch
  BY DEF vars
<1> HIDE DEF Goal
<1>12. Goal
  BY <1>1, <1>2, <1>3, <1>4, <1>5, <1>6, <1>7, <1>8, <1>9, <1>10, <1>11
     DEF Next, FetchStep, Goal
<1> QED BY <1>12 DEF Goal

\* What is put into the cache is a response no header forbids to keep, for as
\* long as the first header that applies gives, or the APT classes.
THEOREM StoredByTheRules == Spec => []StoredAsDocumented
<1> DEFINE Rules(k) ==
      LET f == fetch[k]  r == f.response IN
      /\ r.success
      /\ \A d \in ToSet(r.cacheControl) :
            d.name \notin {"no-store", "no-cache", "private"}
      /\ "no-cache" \notin r.pragma
      /\ r.vary \cap {"*", "authorization", "cookie"} = {}
      /\ DocumentedTTL(k.uri, f.entry, r)
      /\ f.entry.ttl = 0 /\ ~Special(k.uri) => DefaultTTL = 0
<1>1. StoredAsDocumented <=> \A k \in Keys : Puts(k) => Rules(k)
  BY DEF StoredAsDocumented, Puts
<1>2. StoredAsDocumented' <=> \A k \in Keys : Puts(k)' => Rules(k)'
  BY DEF StoredAsDocumented, Puts
<1>3. Init => StoredAsDocumented
  BY <1>1 DEF Init, Puts, NoFetch
<1>4. ASSUME CacheInvariant, StoredAsDocumented, [Next]_vars, NEW k \in Keys, Puts(k)'
      PROVE  Rules(k)'
  <2>1. CASE Puts(k) /\ UNCHANGED <<fetch[k].response, fetch[k].entry>>
    <3>1. Rules(k)
      BY <1>1, <1>4, <2>1
    <3> QED BY <2>1, <3>1 DEF DocumentedTTL
  <2>2. ASSUME NEW big \in BOOLEAN, BodyEnds(k, big) PROVE Rules(k)'
    <3> DEFINE r == fetch[k].response
               e == [ask |-> fetch[k].ask, stamp |-> now, ttl |-> TTL(k.uri, r, now)]
    <3>1. r \in Responses /\ now \in Nat
      BY <1>4, <2>2 DEF CacheInvariant, TypeOK, FetchesHold, BodyEnds
    <3>2. Stores(k.uri, r, now) /\ fetch[k]'.entry = e /\ fetch[k]'.response = r
      BY <1>4, <2>2 DEF CacheInvariant, TypeOK, BodyEnds, Puts, NoFetch
    <3>3. e.stamp = now /\ e.ttl = TTL(k.uri, r, now)
      OBVIOUS
    <3> HIDE DEF e, r
    <3>4. /\ DocumentedTTL(k.uri, e, r)
          /\ e.ttl = 0 /\ ~Special(k.uri) => DefaultTTL = 0
      BY <3>1, <3>2, <3>3, StoredTTL
    <3>5. ShouldCache(r)
      BY <3>2 DEF Stores
    <3>6. \A d \in ToSet(r.cacheControl) :
             d.name \notin {"no-store", "no-cache", "private"}
      BY <3>5 DEF ShouldCache, ToSet
    <3>7. DocumentedTTL(k.uri, fetch[k].entry, fetch[k].response)'
      BY <3>2, <3>4 DEF DocumentedTTL
    <3> QED BY <3>2, <3>4, <3>5, <3>6, <3>7 DEF ShouldCache
  <2> QED BY <1>4, <2>1, <2>2, PutsBefore
<1>5. CacheInvariant /\ StoredAsDocumented /\ [Next]_vars => StoredAsDocumented'
  BY <1>2, <1>4
<1> QED BY <1>3, <1>5, CacheInvariance, PTL DEF Spec

-----------------------------------------------------------------------------
(* The refinement of FreshCache.                                           *)

AnswerOf(g) == IF Settled(g) THEN get[g].entry ELSE None

\* Nothing new can be answered.
Loss == \A k \in Keys : Available(k)' \subseteq Available(k)

\* To lose entries is to forget them in the abstract cache.
LEMMA LossIsForget ==
    ASSUME Loss, UNCHANGED now, \A g \in Gets : UNCHANGED AnswerOf(g)
    PROVE  Fresh!Forget
BY DEF Loss, AnswerOf, Fresh!Forget, Fresh!Loses

\* A get settles on an entry that could be answered.
LEMMA SettlingIsAnswer ==
    ASSUME CacheInvariant, NEW g \in Gets, NEW k \in Keys, NEW e \in Available(k),
           e \in Entry, ~IsExpired(e, now), AnswerOf(g)' = e,
           \A h \in Gets \ {g} : UNCHANGED AnswerOf(h),
           \A j \in Keys : UNCHANGED Available(j),
           UNCHANGED now
    PROVE  Fresh!Answer(g, k)
<1>1. e.stamp \in Nat /\ e.ttl \in Nat /\ now \in Nat
  BY DEF Entry, CacheInvariant, TypeOK
<1>2. ~(now < e.stamp) /\ ~((now - e.stamp) \div 2 > e.ttl)
  BY DEF IsExpired, TicksPerSecond
<1>3. e.stamp <= now /\ now - e.stamp < (e.ttl + 1) * 2
  BY <1>1, <1>2, WholeSeconds
<1>4. Fresh!Alive(e)
  BY <1>1, <1>3 DEF Fresh!Alive
<1> QED BY <1>4 DEF AnswerOf, Fresh!Answer

\* A get that no longer has an answer in hand is done in the abstract cache.
LEMMA DoneIsDone ==
    ASSUME NEW g \in Gets, Loss, UNCHANGED now, AnswerOf(g)' = None,
           \A h \in Gets \ {g} : UNCHANGED AnswerOf(h)
    PROVE  Fresh!Done(g)
BY DEF Loss, AnswerOf, Fresh!Done, Fresh!Loses

\* The steps of a get: a look in memory,
LEMMA LookRefines ==
    ASSUME CacheInvariant, NEW g \in Gets, NEW a \in Asks, LookInMemory(g, a)
    PROVE  Fresh!Next
<1> DEFINE k == CacheKeyOf(a)
           e == memory[k]
<1>1. k \in Keys
  BY KeyOfAsk
<1>2. \A j \in Keys : UNCHANGED Available(j)
  BY DEF LookInMemory, Available, KeyOf, CacheInvariant, TypeOK
<1>3. UNCHANGED now /\ \A h \in Gets \ {g} : UNCHANGED AnswerOf(h)
  BY DEF LookInMemory, AnswerOf, Settled, CacheInvariant, TypeOK
<1>4. CASE e # None /\ ~IsExpired(e, now)
  <2>1. e \in Available(k) /\ e \in Entry
    BY <1>1, <1>4 DEF Available, CacheInvariant, TiersHold, Held
  <2>2. AnswerOf(g)' = e
    BY <1>4 DEF LookInMemory, AnswerOf, Settled, CacheInvariant, TypeOK
  <2>3. Fresh!Answer(g, k)
    BY <1>1, <1>2, <1>3, <1>4, <2>1, <2>2, SettlingIsAnswer
  <2> QED BY <1>1, <2>3 DEF Fresh!Next
<1>5. CASE ~(e # None /\ ~IsExpired(e, now))
  <2>1. UNCHANGED AnswerOf(g)
    BY <1>5 DEF LookInMemory, AnswerOf, Settled, CacheInvariant, TypeOK
  <2>2. Fresh!Forget
    BY <1>2, <1>3, <2>1, LossIsForget DEF Loss
  <2> QED BY <2>2 DEF Fresh!Next
<1> QED BY <1>4, <1>5

\* a hit on disk,
LEMMA DiskHitRefines ==
    ASSUME CacheInvariant, NEW g \in Gets, DiskHit(g)
    PROVE  Fresh!Next
<1> DEFINE k == KeyOf(g)
           e == disk[k]
<1>1. k \in Keys
  BY KeyOfAsk DEF DiskHit, KeyOf, CacheInvariant, GetsHold
<1>2. e # None /\ ~IsExpired(e, now) /\ e \in Entry
  BY <1>1 DEF DiskHit, CacheInvariant, TiersHold, Held
<1>3. e \in Available(k)
  BY <1>2 DEF Available
<1>4. \A j \in Keys : UNCHANGED Available(j)
  BY DEF DiskHit, Takes, Available, KeyOf, CacheInvariant, TypeOK
<1>5. UNCHANGED now /\ \A h \in Gets \ {g} : UNCHANGED AnswerOf(h)
  BY DEF DiskHit, Takes, AnswerOf, Settled, CacheInvariant, TypeOK
<1>6. AnswerOf(g)' = e
  BY DEF DiskHit, Takes, AnswerOf, Settled, CacheInvariant, TypeOK
<1>7. ASSUME NEW j \in Keys, j = k PROVE Fresh!Next
  <2>1. PICK d \in Entry : d = e
    BY <1>2
  <2>2. Fresh!Answer(g, j)
    BY <1>2, <1>3, <1>4, <1>5, <1>6, <1>7, <2>1, SettlingIsAnswer
  <2> QED BY <2>2 DEF Fresh!Next
<1> QED BY <1>1, <1>7

\* The steps of a get that take from what can be answered, or nothing.
LEMMA QuietGetRefines ==
    ASSUME CacheInvariant, NEW g \in Gets,
           \/ Invalidate(g) \/ DiskExpired(g) \/ DiskMiss(g)
           \/ Promote(g) \/ Purge(g) \/ JoinOrStart(g)
    PROVE  Fresh!Next
<1>1. UNCHANGED now /\ \A h \in Gets : UNCHANGED AnswerOf(h)
  <2>1. CASE Invalidate(g) \/ DiskMiss(g) \/ Purge(g)
    <3>1. /\ UNCHANGED now /\ ~Settled(g)
          /\ \E p \in {"disk", "miss"} :
                get' = [get EXCEPT ![g] = [NoGet EXCEPT !.phase = p, !.ask = get[g].ask]]
      BY <2>1 DEF Invalidate, DiskMiss, Purge, Moves, Settled
    <3> QED BY <3>1 DEF NoGet, AnswerOf, Settled, CacheInvariant, TypeOK
  <2>2. CASE DiskExpired(g)
    BY <2>2 DEF DiskExpired, Takes, AnswerOf, Settled, CacheInvariant, TypeOK
  <2>3. CASE Promote(g)
    BY <2>3 DEF Promote, AnswerOf, Settled, CacheInvariant, TypeOK
  <2>4. CASE JoinOrStart(g)
    BY <2>4 DEF JoinOrStart, Ends, NoGet, AnswerOf, Settled, CacheInvariant, TypeOK
  <2> QED BY <2>1, <2>2, <2>3, <2>4
<1>2. Loss
  <2>1. CASE Invalidate(g)
    BY <2>1 DEF Invalidate, Moves, NoGet, Loss, Available, KeyOf, CacheInvariant, TypeOK
  <2>2. CASE DiskExpired(g)
    BY <2>2 DEF DiskExpired, Takes, Loss, Available, KeyOf, CacheInvariant, TypeOK
  <2>6. CASE DiskMiss(g)
    BY <2>6 DEF DiskMiss, Moves, NoGet, Loss, Available, KeyOf, CacheInvariant, TypeOK
  <2>3. CASE Promote(g)
    BY <2>3 DEF Promote, Loss, Available, KeyOf, CacheInvariant, TypeOK
  <2>4. CASE Purge(g)
    BY <2>4 DEF Purge, Moves, NoGet, Loss, Available, KeyOf, CacheInvariant, TypeOK
  <2>5. CASE JoinOrStart(g)
    BY <2>5 DEF JoinOrStart, Ends, NoGet, Loss, Available, KeyOf, CacheInvariant, TypeOK
  <2> QED BY <2>1, <2>2, <2>3, <2>4, <2>5, <2>6
<1> QED BY <1>1, <1>2, LossIsForget DEF Fresh!Next

\* and its end.
LEMMA EndOfGetRefines ==
    ASSUME CacheInvariant, NEW g \in Gets, DiskFails(g) \/ Respond(g) \/ Disconnect(g)
    PROVE  Fresh!Next
<1>1. /\ UNCHANGED now /\ AnswerOf(g)' = None
      /\ \A h \in Gets \ {g} : UNCHANGED AnswerOf(h)
  BY DEF DiskFails, Respond, Disconnect, Ends, NoGet, AnswerOf, Settled,
     CacheInvariant, TypeOK
<1>2. Loss
  <2>1. UNCHANGED <<memory, disk, fetch>> /\ get' = [get EXCEPT ![g] = NoGet]
    BY DEF DiskFails, Respond, Disconnect, Ends
  <2> QED BY <2>1 DEF NoGet, Loss, Available, KeyOf, CacheInvariant, TypeOK
<1> QED BY <1>1, <1>2, DoneIsDone DEF Fresh!Next

\* Downloads and evictions that store nothing new.
LEMMA QuietFetchRefines ==
    ASSUME CacheInvariant, NEW k \in Keys,
           \/ \E r \in Responses : HeadersArrive(k, r)
           \/ DownloadFails(k) \/ PutDisk(k) \/ PutDiskFails(k) \/ PutMemory(k)
           \/ MemoryEvicts(k) \/ DiskEvicts(k)
    PROVE  Fresh!Next
<1>1. UNCHANGED <<get, now>>
  BY DEF HeadersArrive, DownloadFails, PutDisk, PutDiskFails, PutMemory,
     MemoryEvicts, DiskEvicts
<1>2. \A g \in Gets : UNCHANGED AnswerOf(g)
  BY <1>1 DEF AnswerOf, Settled
<1>3. Loss
  <2>1. CASE \E r \in Responses : HeadersArrive(k, r)
    <3>1. PICK r \in Responses : HeadersArrive(k, r)
      BY <2>1
    <3>2. \A j \in Keys : fetch'[j].entry = fetch[j].entry
      BY <3>1 DEF HeadersArrive, CacheInvariant, TypeOK
    <3>3. UNCHANGED <<memory, disk, get>>
      BY <3>1 DEF HeadersArrive
    <3> QED BY <3>2, <3>3 DEF Loss, Available, KeyOf
  <2>2. CASE DownloadFails(k)
    BY <2>2 DEF DownloadFails, NoFetch, Loss, Available, KeyOf, CacheInvariant, TypeOK
  <2>3. CASE PutDisk(k)
    BY <2>3 DEF PutDisk, Loss, Available, KeyOf, CacheInvariant, TypeOK
  <2>4. CASE PutDiskFails(k)
    BY <2>4 DEF PutDiskFails, NoFetch, Loss, Available, KeyOf, CacheInvariant, TypeOK
  <2>5. CASE PutMemory(k)
    BY <2>5 DEF PutMemory, NoFetch, Loss, Available, KeyOf, CacheInvariant, TypeOK
  <2>6. CASE MemoryEvicts(k)
    BY <2>6 DEF MemoryEvicts, Loss, Available, KeyOf, CacheInvariant, TypeOK
  <2>7. CASE DiskEvicts(k)
    BY <2>7 DEF DiskEvicts, Loss, Available, KeyOf, CacheInvariant, TypeOK
  <2> QED BY <2>1, <2>2, <2>3, <2>4, <2>5, <2>6, <2>7
<1> QED BY <1>1, <1>2, <1>3, LossIsForget DEF Fresh!Next

\* The end of a body stores the entry in the abstract cache.
LEMMA BodyEndsRefines ==
    ASSUME CacheInvariant, NEW k \in Keys, NEW big \in BOOLEAN, BodyEnds(k, big)
    PROVE  Fresh!Next
<1> DEFINE f == fetch[k]
           e == [ask |-> f.ask, stamp |-> now, ttl |-> TTL(k.uri, f.response, now)]
<1>1. UNCHANGED <<memory, disk, get, now>>
  BY DEF BodyEnds
<1>2. \A g \in Gets : UNCHANGED AnswerOf(g)
  BY <1>1 DEF AnswerOf, Settled
<1>3. \A j \in Keys \ {k} : UNCHANGED Available(j)
  BY DEF BodyEnds, Available, KeyOf, CacheInvariant, TypeOK
<1>4. f.entry = None
  BY DEF BodyEnds, CacheInvariant, FetchesHold
<1>5. CASE ~Stores(k.uri, f.response, now)
  <2>1. Loss
    BY <1>1, <1>5 DEF BodyEnds, NoFetch, Loss, Available, KeyOf, CacheInvariant, TypeOK
  <2> QED BY <1>1, <1>2, <2>1, LossIsForget DEF Fresh!Next
<1>6. CASE Stores(k.uri, f.response, now)
  <2>1. fetch[k]'.entry = e
    BY <1>6 DEF BodyEnds, CacheInvariant, TypeOK
  <2>2. e \in Entry
    <3>1. f.response \in Responses /\ f.ask \in Asks /\ now \in Nat
      BY DEF CacheInvariant, TypeOK, FetchesHold, BodyEnds
    <3> QED BY <3>1, TTLType DEF Entry
  <2>3. e # None /\ e.stamp = now
    BY <2>2, EntryAssumption
  <2> HIDE DEF e
  <2>4. Available(k)' = Available(k) \cup {e}
    BY <1>1, <1>4, <2>1, <2>3 DEF Available, KeyOf
  <2>5. Fresh!Store(k)
    BY <1>1, <1>2, <1>3, <2>3, <2>4 DEF AnswerOf, Fresh!Store
  <2> QED BY <2>5 DEF Fresh!Next
<1> QED BY <1>5, <1>6

\* A restart forgets, and the clock moves in both.
LEMMA RestartRefines ==
    ASSUME CacheInvariant, Restart
    PROVE  Fresh!Next
<1>1. Fresh!Loses
  BY DEF Restart, NoFetch, NoGet, Available, KeyOf, Fresh!Loses
<1>2. UNCHANGED now /\ \A g \in Gets : AnswerOf(g)' = None
  BY DEF Restart, NoGet, AnswerOf, Settled
<1> QED BY <1>1, <1>2 DEF AnswerOf, Fresh!Restart, Fresh!Next

\* The clock of the cache is the clock of FreshCache.
LEMMA ClockRefines ==
    ASSUME CacheInvariant, ClockMoves
    PROVE  Fresh!Next
<1>1. now' \in Nat /\ UNCHANGED <<memory, disk, fetch, get>>
  BY AsksAssumption DEF ClockMoves
<1>2. \A k \in Keys : UNCHANGED Available(k)
  BY <1>1 DEF Available, KeyOf
<1> QED BY <1>1, <1>2 DEF Settled, Fresh!ClockMoves, Fresh!Next

\* Every behaviour of the two tiers, the gets and the downloads is one of
\* FreshCache.
THEOREM Refinement == Spec => ImplementsFreshCache
<1>1. Init => Fresh!Init
  BY DEF Init, NoFetch, NoGet, Available, Settled, Fresh!Init
<1>2. CacheInvariant /\ [Next]_vars => [Fresh!Next]_Fresh!vars
  <2> SUFFICES ASSUME CacheInvariant, [Next]_vars
               PROVE  Fresh!Next \/ UNCHANGED Fresh!vars
    OBVIOUS
  <2>1. ASSUME NEW g \in Gets, GetStep(g) PROVE Fresh!Next
    BY <2>1, LookRefines, DiskHitRefines, QuietGetRefines, EndOfGetRefines DEF GetStep
  <2>2. ASSUME NEW k \in Keys, FetchStep(k) \/ MemoryEvicts(k) \/ DiskEvicts(k)
        PROVE  Fresh!Next
    BY <2>2, QuietFetchRefines, BodyEndsRefines DEF FetchStep
  <2>3. CASE UNCHANGED vars
    BY <2>3 DEF vars, Available, KeyOf, Settled, Fresh!vars
  <2> QED BY <2>1, <2>2, <2>3, RestartRefines, ClockRefines DEF Next
<1> QED BY <1>1, <1>2, CacheInvariance, PTL DEF Spec, ImplementsFreshCache, Fresh!Spec

=============================================================================
