------------------------------ MODULE TieredCache ------------------------------
(***************************************************************************)
(* The two-tier cache and its use (cache/mod.rs, cache/memory.rs and, in   *)
(* proxy/handler.rs, the cacheable request and the part of the download    *)
(* that stores the response).                                              *)
(*                                                                         *)
(* A get looks in memory, then on disk, and awaits in between; other gets, *)
(* downloads, evictions and the clock run while it does.  It holds no lock *)
(* and acts on what it has seen: it invalidates, promotes and removes by   *)
(* key.  Its client may disconnect at any step.  A miss joins or starts    *)
(* the one download of its key (InflightDownloads has the inside of it).   *)
(*                                                                         *)
(* The disk is a map here: DiskCache has its files, where an answer can be *)
(* part of an entry.  The process may stop and start again at any step.    *)
(***************************************************************************)
EXTENDS CachePolicy

CONSTANTS
    Gets,       \* concurrent calls of handle_cacheable_request
    Asks,       \* requests: method, URI, Accept-Encoding, and the Range header
    Responses,  \* what the upstream may answer
    MaxTime,    \* bound: the clock
    MaxDownloads  \* bound: downloads started

ASSUME AsksAssumption ==
    /\ \A r \in Responses : /\ r.cacheControl \in Seq(Directive)
                            /\ r.expires \in Int \cup {None, Unparsable}
    /\ MaxTime \in Nat /\ MaxDownloads \in Nat
    /\ None \notin Asks \cup Responses

VARIABLES
    memory,  \* cache key -> entry in MemoryCache, or None
    disk,    \* cache key -> entry in DiskCache, or None
    fetch,   \* cache key -> its download
    get,     \* control state and locals of each get
    now,     \* SystemTime::now
    downloads  \* downloads started (no part of the code)

vars == <<memory, disk, fetch, get, now, downloads>>

\* create_cache_key: the only header in the key is Accept-Encoding.
CacheKeyOf(a) ==
    [method |-> a.method, uri |-> a.uri, encoding |-> a.encoding]

Keys == {CacheKeyOf(a) : a \in Asks}
Entry == [ask : Asks, stamp : Nat, ttl : Nat]

ASSUME EntryAssumption == None \notin Entry

GetPhase == {"idle", "expired", "disk", "promote", "purge", "miss", "hit"}
FetchPhase == {"none", "sent", "body", "toDisk", "toMemory"}

NoGet == [phase |-> "idle", ask |-> None, entry |-> None, at |-> 0]
NoFetch == [phase |-> "none", ask |-> None, response |-> None, entry |-> None]

TypeOK ==
    /\ memory \in [Keys -> Entry \cup {None}]
    /\ disk   \in [Keys -> Entry \cup {None}]
    /\ fetch  \in [Keys -> [phase : FetchPhase, ask : Asks \cup {None},
                            response : Responses \cup {None},
                            entry : Entry \cup {None}]]
    /\ get    \in [Gets -> [phase : GetPhase, ask : Asks \cup {None},
                            entry : Entry \cup {None}, at : Nat]]
    /\ now    \in Nat
    /\ downloads \in 0..MaxDownloads

\* TieredCache::new, on an empty directory.
Init ==
    /\ memory = [k \in Keys |-> None]
    /\ disk = [k \in Keys |-> None]
    /\ fetch = [k \in Keys |-> NoFetch]
    /\ get = [g \in Gets |-> NoGet]
    /\ now = 0
    /\ downloads = 0

-----------------------------------------------------------------------------
(* TieredCache::get and the miss that follows it.                          *)

KeyOf(g) == CacheKeyOf(get[g].ask)

\* The get goes on without an entry.
Moves(g, phase) ==
    get' = [get EXCEPT ![g] = [NoGet EXCEPT !.phase = phase, !.ask = get[g].ask]]
Ends(g) == get' = [get EXCEPT ![g] = NoGet]
\* The get takes the entry e, seen now.
Takes(g, phase, e) ==
    get' = [get EXCEPT ![g].phase = phase, ![g].entry = e, ![g].at = now]

\* A request arrives and its get looks in memory: a hit is answered, an entry
\* that has expired is to be removed, otherwise disk comes next.
LookInMemory(g, a) ==
    LET e == memory[CacheKeyOf(a)] IN
    /\ get[g].phase = "idle"
    /\ get' = [get EXCEPT ![g] =
          [phase |-> IF e = None THEN "disk"
                     ELSE IF IsExpired(e, now) THEN "expired" ELSE "hit",
           ask |-> a, entry |-> e, at |-> IF e = None THEN 0 ELSE now]]
    /\ UNCHANGED <<memory, disk, fetch, now, downloads>>

\* memory.remove: whatever is under the key by now is invalidated.
Invalidate(g) ==
    /\ get[g].phase = "expired"
    /\ memory' = [memory EXCEPT ![KeyOf(g)] = None]
    /\ Moves(g, "disk")
    /\ UNCHANGED <<disk, fetch, now, downloads>>

\* Mutant: an entry from disk is taken without a look at its age.
DiskHitUnchecked(g) ==
    LET e == disk[KeyOf(g)] IN
    /\ get[g].phase = "disk" /\ e # None
    /\ Takes(g, "promote", e)
    /\ UNCHANGED <<memory, disk, fetch, now, downloads>>

DiskHit(g) ==
    LET e == disk[KeyOf(g)] IN
    /\ get[g].phase = "disk" /\ e # None /\ ~IsExpired(e, now)
    /\ Takes(g, "promote", e)
    /\ UNCHANGED <<memory, disk, fetch, now, downloads>>

DiskExpired(g) ==
    LET e == disk[KeyOf(g)] IN
    /\ get[g].phase = "disk" /\ e # None /\ IsExpired(e, now)
    /\ Takes(g, "purge", e)
    /\ UNCHANGED <<memory, disk, fetch, now, downloads>>

DiskMiss(g) ==
    /\ get[g].phase = "disk" /\ disk[KeyOf(g)] = None
    /\ Moves(g, "miss")
    /\ UNCHANGED <<memory, disk, fetch, now, downloads>>

\* disk.get fails: the error goes to the client as a page.
DiskFails(g) ==
    /\ get[g].phase = "disk"
    /\ Ends(g)
    /\ UNCHANGED <<memory, disk, fetch, now, downloads>>

\* Mutant: the promoted entry is stamped anew.
PromoteRestamped(g) ==
    /\ get[g].phase = "promote"
    /\ memory' = [memory EXCEPT ![KeyOf(g)] =
                     [get[g].entry EXCEPT !.stamp = now]]
    /\ get' = [get EXCEPT ![g].phase = "hit"]
    /\ UNCHANGED <<disk, fetch, now, downloads>>

\* The entry read from disk goes to memory, over what is there by now.
Promote(g) ==
    /\ get[g].phase = "promote"
    /\ memory' = [memory EXCEPT ![KeyOf(g)] = get[g].entry]
    /\ get' = [get EXCEPT ![g].phase = "hit"]
    /\ UNCHANGED <<disk, fetch, now, downloads>>

\* disk.remove of what is there by now; an error is ignored.
Purge(g) ==
    /\ get[g].phase = "purge"
    /\ disk' \in {disk, [disk EXCEPT ![KeyOf(g)] = None]}
    /\ Moves(g, "miss")
    /\ UNCHANGED <<memory, fetch, now, downloads>>

\* join_or_start_download: the client streams from the download of its key.
JoinOrStart(g) ==
    /\ get[g].phase = "miss"
    /\ \/ fetch[KeyOf(g)].phase # "none" /\ UNCHANGED <<fetch, downloads>>
       \/ /\ fetch[KeyOf(g)].phase = "none" /\ downloads < MaxDownloads
          /\ fetch' = [fetch EXCEPT ![KeyOf(g)].phase = "sent",
                                    ![KeyOf(g)].ask = get[g].ask]
          /\ downloads' = downloads + 1
    /\ Ends(g)
    /\ UNCHANGED <<memory, disk, now>>

\* The cached response is built, or the client has gone.
Respond(g) ==
    /\ get[g].phase = "hit"
    /\ Ends(g)
    /\ UNCHANGED <<memory, disk, fetch, now, downloads>>

Disconnect(g) ==
    /\ get[g].phase \notin {"idle", "hit"}
    /\ Ends(g)
    /\ UNCHANGED <<memory, disk, fetch, now, downloads>>

-----------------------------------------------------------------------------
(* The end of fetch_and_stream, and TieredCache::put.                      *)

HeadersArrive(k, r) ==
    /\ fetch[k].phase = "sent"
    /\ fetch' = [fetch EXCEPT ![k].phase = "body", ![k].response = r]
    /\ UNCHANGED <<memory, disk, get, now, downloads>>

DownloadFails(k) ==
    /\ fetch[k].phase \in {"sent", "body"}
    /\ fetch' = [fetch EXCEPT ![k] = NoFetch]
    /\ UNCHANGED <<memory, disk, get, now, downloads>>

\* The body is complete.  A response to be stored becomes an entry, stamped
\* with this moment; one larger than 1 MB goes to disk first.
BodyEnds(k, big) ==
    LET f == fetch[k] IN
    /\ f.phase = "body"
    /\ fetch' = [fetch EXCEPT ![k] =
          IF ~Stores(k.uri, f.response, now) THEN NoFetch
          ELSE [f EXCEPT !.phase = IF big THEN "toDisk" ELSE "toMemory",
                         !.entry = [ask |-> f.ask, stamp |-> now,
                                    ttl |-> TTL(k.uri, f.response, now)]]]
    /\ UNCHANGED <<memory, disk, get, now, downloads>>

\* disk.put writes the entry, or leaves out one larger than the whole disk.
PutDisk(k) ==
    /\ fetch[k].phase = "toDisk"
    /\ disk' \in {disk, [disk EXCEPT ![k] = fetch[k].entry]}
    /\ fetch' = [fetch EXCEPT ![k].phase = "toMemory"]
    /\ UNCHANGED <<memory, get, now, downloads>>

\* disk.put fails, before or after it removed the old entry: the error ends
\* put, and memory does not get the entry either.
PutDiskFails(k) ==
    /\ fetch[k].phase = "toDisk"
    /\ disk' \in {disk, [disk EXCEPT ![k] = None]}
    /\ fetch' = [fetch EXCEPT ![k] = NoFetch]
    /\ UNCHANGED <<memory, get, now, downloads>>

\* memory.put; the guard then removes the download from the map.
PutMemory(k) ==
    /\ fetch[k].phase = "toMemory"
    /\ memory' = [memory EXCEPT ![k] = fetch[k].entry]
    /\ fetch' = [fetch EXCEPT ![k] = NoFetch]
    /\ UNCHANGED <<disk, get, now, downloads>>

-----------------------------------------------------------------------------
(* What happens to the cache from outside.                                 *)

\* moka evicts the entry, or did not admit it.
MemoryEvicts(k) ==
    /\ memory[k] # None
    /\ memory' = [memory EXCEPT ![k] = None]
    /\ UNCHANGED <<disk, fetch, get, now, downloads>>

\* A put under another key makes room.
DiskEvicts(k) ==
    /\ disk[k] # None
    /\ disk' = [disk EXCEPT ![k] = None]
    /\ UNCHANGED <<memory, fetch, get, now, downloads>>

\* The process stops and starts again: memory and all calls are lost.
Restart ==
    /\ memory' = [k \in Keys |-> None]
    /\ fetch' = [k \in Keys |-> NoFetch]
    /\ get' = [g \in Gets |-> NoGet]
    /\ UNCHANGED <<disk, now, downloads>>

\* The system clock goes on or is set back.
ClockMoves ==
    /\ now' \in {now + 1, now - 1} \cap 0..MaxTime
    /\ UNCHANGED <<memory, disk, fetch, get, downloads>>

GetStep(g) ==
    \/ \E a \in Asks : LookInMemory(g, a)
    \/ Invalidate(g)
    \/ DiskHit(g) \/ DiskExpired(g) \/ DiskMiss(g) \/ DiskFails(g)
    \/ Promote(g) \/ Purge(g)
    \/ JoinOrStart(g) \/ Respond(g) \/ Disconnect(g)

FetchStep(k) ==
    \/ \E r \in Responses : HeadersArrive(k, r)
    \/ \E big \in BOOLEAN : BodyEnds(k, big)
    \/ DownloadFails(k)
    \/ PutDisk(k) \/ PutDiskFails(k) \/ PutMemory(k)

Next ==
    \/ \E g \in Gets : GetStep(g)
    \/ \E k \in Keys : FetchStep(k) \/ MemoryEvicts(k) \/ DiskEvicts(k)
    \/ Restart
    \/ ClockMoves

Spec == Init /\ [][Next]_vars

-----------------------------------------------------------------------------
(* Properties.                                                             *)

Settled(g) == get[g].phase \in {"promote", "hit"}

\* No answer is older than its TTL, give or take the second the TTL ends in,
\* from the end of its download to the moment a get settled on it, whether it
\* comes from memory, from disk, from disk by way of memory or from before a
\* restart.
AnswersFresh ==
    \A g \in Gets :
        LET e == get[g].entry IN
        Settled(g) => /\ e.stamp <= get[g].at
                      /\ get[g].at - e.stamp < (e.ttl + 1) * TicksPerSecond

\* A cached answer was downloaded for a request with the same method, URI and
\* Accept-Encoding: variants of a resource are never mixed.
AnswersOwnVariant ==
    \A g \in Gets :
        LET a == get[g].ask  b == get[g].entry.ask IN
        Settled(g) =>
            /\ a.method = b.method /\ a.uri = b.uri
            /\ a.encoding = b.encoding

\* The APT class of a URI by the README: .deb files, package lists (Packages,
\* InRelease, Release) and the rest.  It names a plain Packages file among the
\* lists, which the code does not: that one is left open here.
PlainPackages(uri) == uri.ends = "/Packages"
DocumentedClass(uri) ==
    IF uri.ends = ".deb" THEN {PackageTTL}
    ELSE IF PlainPackages(uri) THEN {ListTTL, OtherTTL}
    ELSE IF \/ uri.has \cap {"Packages", "InRelease"} # {}
            \/ "/dists/" \in uri.has /\ uri.ends \in {"/Release", "/Release.gpg"}
         THEN {ListTTL}
    ELSE {OtherTTL}

\* The TTLs the README's rules allow: those of the first source that applies.
Given(r, name) ==
    {d.value : d \in {c \in ToSet(r.cacheControl) : c.name = name}}
        \ {Unparsable}
DocumentedTTL(uri, e, r) ==
    IF Special(uri) THEN e.ttl \in DocumentedClass(uri)
    ELSE IF Given(r, "s-maxage") # {} THEN e.ttl \in Given(r, "s-maxage")
    ELSE IF Given(r, "max-age") # {} THEN e.ttl \in Given(r, "max-age")
    ELSE IF r.expires = None THEN e.ttl = DefaultTTL
    ELSE r.expires # Unparsable
         /\ e.stamp + e.ttl * TicksPerSecond <= r.expires

\* README, "Cache Behavior" and "TTL Determination": what is on its way into
\* the cache was a success that no header forbade to keep, whatever other
\* directives stand beside the forbidding one, it is kept for the time its APT
\* class or the first applicable header gives, and for a time of zero only if
\* the operator configured that for want of a header.
StoredAsDocumented ==
    \A k \in Keys :
        LET f == fetch[k]  r == f.response IN
        f.phase \in {"toDisk", "toMemory"} =>
            /\ r.success
            /\ \A d \in ToSet(r.cacheControl) :
                  d.name \notin {"no-store", "no-cache", "private"}
            /\ "no-cache" \notin r.pragma
            /\ r.vary \cap {"*", "authorization", "cookie"} = {}
            /\ DocumentedTTL(k.uri, f.entry, r)
            /\ f.entry.ttl = 0 /\ ~Special(k.uri) => DefaultTTL = 0

\* The cache implements FreshCache.  What can still be answered is in a tier,
\* in the hands of a promotion or of a put.
Available(k) ==
    ({memory[k], disk[k], fetch[k].entry}
        \cup {get[g].entry : g \in {h \in Gets : get[h].phase = "promote"
                                                 /\ KeyOf(h) = k}}) \ {None}

Fresh == INSTANCE FreshCache
    WITH stored <- [k \in Keys |-> Available(k)],
         answer <- [g \in Gets |-> IF Settled(g) THEN get[g].entry ELSE None]

\* Nothing is answered that was not stored as it is, and what has left both
\* tiers and every hand does not come back.
ImplementsFreshCache == Fresh!Spec

-----------------------------------------------------------------------------
(* What a comment says and the code does not keep.                         *)

\* "Cache key based on request method, URI, and relevant headers": a part of a
\* resource, downloaded for a request with a Range header, is never the answer
\* from the cache to a request for all of it.
AnswerFitsRequest ==
    \A g \in Gets :
        get[g].phase = "hit" /\ get[g].ask.range = "all"
            => get[g].entry.ask.range # "part"

=============================================================================
