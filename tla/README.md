# Squiddish in TLA+

Squiddish is a caching HTTP proxy (Rust, tokio, hyper). Requests for one
resource share one upstream download, responses are kept in a memory and a disk
tier, CONNECT opens tunnels, and a semaphore bounds connections and tunnels.
These modules model its components and the rules they apply, TLC checks them on
small instances, and TLAPS proves the main results for all values of the
constants. Paths below are relative to the repository.

## The system

| component | state it keeps | operations | modelled in |
|---|---|---|---|
| In-flight downloads `src/cache/inflight.rs`, `src/proxy/handler.rs` | map key -> `DownloadState` (chunks so far, broadcast sender, watch channel for headers); one task per download with an `InflightGuard` | `join_or_start_download`, `set_response_meta`, `add_chunk`, `set_response_error`, `complete_download`; `handle_cacheable_request`, `handle_streaming_download`, `fetch_and_stream` | `InflightDownloads` |
| Streaming body `src/proxy/streaming.rs` | copied chunks, broadcast receiver | `poll_frame` | `InflightDownloads` |
| Disk cache `src/cache/disk.rs` | `.meta`/`.data` files, `current_size`, `eviction_order`, `write_mutex` | `put`, `get`, `remove`, `evict_if_needed`, `rebuild_index` | `DiskCache` |
| Two-tier cache `src/cache/mod.rs`, `memory.rs`, `handler.rs` | moka map, disk tier | `get` (promotion, expiry), `put` (over 1 MB to disk as well) | `TieredCache` |
| Cache key `src/cache/key.rs`, `handler.rs` | none | `CacheKey::new`, `create_cache_key` | `TieredCache` |
| Cache policy `handler.rs`, `src/apt.rs` | none | `should_cache_response`, `parse_cache_control_headers`, APT classes, `is_expired` | `CachePolicy` |
| Accept loop, start and stop `src/proxy/mod.rs`, `src/main.rs` | semaphore, one task per connection | `new`, `run`, `serve` | `ProxyServer` |
| CONNECT tunnel `handler.rs`, `src/proxy/tunnel.rs` | one task per tunnel, with a permit of its own | `handle_connect`, `handle_connect_tunnel` | `ProxyServer` |
| Passthrough requests `handler.rs` | none | `handle_passthrough_request`, `forward_request_full` | `ProxyServer` |
| Request rules `handler.rs` | none | `validate_request`, `host_matches`, `parse_connect_uri`, `filter_headers` | `RequestRules` |
| Configuration `src/config.rs` | the settings | `parse_size`, `parse_duration`, `from_vars` | `Configuration` |
| HTTP client `src/proxy/client.rs` | none | `fetch_with_timeout`, `collect_body` | in part: steps of a download and of a passthrough request |
| Error type, error page `src/error.rs`, `handler.rs` | none | | only that a request ends in one |

How they interact. The process reads its settings, binds, and accepts. The task of
a connection holds a permit of the semaphore and serves one request after
another: validated, then cacheable (GET, HEAD), passed through, or CONNECT, which
spawns a tunnel with a second permit. A GET or HEAD looks in the two-tier cache. On a miss it
enters the in-flight map under a write lock, and either subscribes to the
download in flight or inserts one and spawns its task. The task reads the
client's request body, fetches, publishes the headers on a watch channel, and
for each chunk takes the read lock, pushes and broadcasts. At the end it puts
the body in the cache, broadcasts `Complete` or reports the error, and its guard
removes the map entry. Clients wait for the headers, then poll their body:
the copied chunks first, the broadcast after.

Hard behaviours: a joiner between push and broadcast; a receiver overrun by the
ring buffer; a failure, timeout or panic in mid-stream with clients attached;
clients that disconnect at any await, the first one included; a cache miss that
is out of date when it reaches the map; a `get` on disk during a `put`; a `put`
that fails half way; a `remove` dropped half way; a stop of the process at any
file-system call; a get of the two tiers that acts by key on what it saw before an
await; a clock set back; a tunnel whose upgrade never comes; a duration that
overflows its word; headers that contradict each other. PROJECT.json lists each at its line with the properties that
watch it.

What makes each part correct:

* Coalescing: one download per key; every client gets the chunks in order, once
  each; a clean end means the whole download; only whole bodies are cached;
  entries and clients are never left behind.
* Disk cache: the index agrees with the files; the bytes on disk stay within
  `max_size`; a `get` answers with one entire entry; a restart keeps every entry in the
  index, in the order the modification times give.
* Two-tier cache: an answer is an entry as it was stored, under its own key and not
  expired; what has left every tier and every hand does not come back; nothing
  is stored that a header forbids.
* Accept loop and tunnels: permits in use and permits free are constant, a
  client that has gone leaves no permit taken but that of a tunnel whose target is
  still there, nobody waits in the backlog.
* Rules: only permitted hosts are reached; a request that loops is refused.
* Configuration: a process that serves has the limits written, and none is zero.

## Modules

| module | content |
|---|---|
| `SingleFlight` | what coalescing promises: at most one fetch per key, each reader a growing prefix, a clean end with everything |
| `InflightDownloads` | the code's locks, channels, tasks and handlers; properties; the refinement mapping to `SingleFlight` |
| `InflightInvariant` | the inductive invariant, in named parts |
| `InflightDownloadsProofs` | the theorems and their proofs |
| `MCInflightDownloads` | constants for TLC |
| `EntryStore` | what the disk tier promises: a bounded map that evicts its oldest entry (`Precedes`), gets that return what they found, restarts that lose nothing |
| `DiskCache` | the disk tier at the granularity of file-system calls; properties; the refinement mapping to `EntryStore` |
| `DiskCacheProofs` | the invariant of the files, the theorems and their proofs |
| `DiskIndexProofs` | the invariant of the index, the limit, the restart, and the refinement |
| `MCDiskCache` | constants for TLC |
| `CachePolicy` | what is stored, for how long, when it has expired; APT classes |
| `FreshCache` | what the two tiers promise: every answer was stored as it is and is alive, a lost entry stays lost |
| `TieredCache` | `get`, `put` and their use by requests and downloads; extends `CachePolicy`; the refinement mapping to `FreshCache` |
| `TieredCacheProofs` | its invariant, theorems and proofs |
| `MCTieredCache` | requests and responses for TLC |
| `Configuration` | the environment to settings, in words of any width |
| `ConfigurationProofs` | what sizes and durations come to |
| `RequestRules` | validation, host patterns, CONNECT targets, routing, headers sent on |
| `RequestRulesProofs` | what a host pattern matches, and that it is compared with the name in an authority |
| `ProxyServer` | the process: load, accept, serve, tunnel, stop; extends `Configuration` and `RequestRules` |
| `ProxyServerProofs` | its invariant, theorems and proofs |
| `MCProxyServer` | environments and requests for TLC |
| `DataLemmas` | finite sets of naturals and their subsets, sums over finite sets, what `retain` leaves of a sequence, ascending sequences |

### InflightDownloads and the code

A download is named by the request that started it; chunks are numbered, and
vectors of chunks are their lengths. `downloads` is the map;
`accumulated`, `sent`+`last`, `meta` are the fields of `DownloadState` (chunks,
broadcast channel, watch channel); `task` is the program point of the spawned
block and `fetch_and_stream`; `request`, `source`, `initial`, `next`, `got` are
a handler's program point, the download it is attached to, and the fields of its
`StreamingBody`; `cached` is the cache seen from here (an entry can vanish at any
time, `CacheForgets`).

Steps are the regions between awaits, and inside a lock wherever another thread
can see the difference: `add_chunk` is two steps (`PushChunk`,
`BroadcastChunk`) because a task holds only the read lock between them, and
`Join`, `Start` and `DropGuard` need the write lock (`WriteLockFree`). A task that
fails reports to the watch channel and the broadcast channel in separate steps
(`ReportError`, `BroadcastError`), and the senders of the entry and of the task
are dropped in separate steps (`DropGuard`, `DropSender`): clients can act between
them. `Panic` covers unwinding (the release profile unwinds) and a runtime that
drops the task.

Library semantics the model relies on: `watch::Sender::send` stores nothing
when no receiver is alive; a broadcast receiver starts at the tail, is told
`Lagged` once more than the capacity separates it from the tail, and sees
`Closed` when all senders are gone and it has drained the channel; hyper drops the
service future or the response body when the client disconnects. Reading the
headers and dropping the watch receiver is one step; nothing the code does lies
between them. A broadcast nobody receives is still counted in `sent`: no receiver
that could have read it exists.

### DiskCache and the code

File contents are told from names, because an open file survives unlinking:
`metaAt`/`dataAt` are the directory, `meta`/`data` the files. An entry is the
number of the put that wrote it. `writer` is the program point of whoever holds
`write_mutex`, `job` its locals; `reader`/`read` are the calls of `get`, which
hold nothing. `size` and `order` are the in-memory index. Every step is one call
of `tokio::fs`, as each is an await at which others run and the process may stop.
Calls of `fs::metadata` are merged with the step before the first unlink: only
the holder of the mutex, or an unlink left behind by a dropped `remove`,
changes files. Such an unlink (`DetachedUnlink`) is one the blocking pool still
does after the future that awaited it was dropped. `put` runs in the download task
and is never dropped; `remove` runs in a request's future and can be. `Restart` is
a stop at any point followed by `DiskCache::new`.

The modification time of a `.meta` file is a reading of the system clock when it is
written. `PutStart` chooses any time of `Times` for it: two puts may have the same time
(the clock of a file system is coarse) and a later put an earlier one (the clock was set
back). A restart sorts by these times (`Written`), and entries of one time come in the
order of the directory walk, which is any: `OldestFirst` is the set of all orders the
stable sort can give, and `Restart` takes one of them.

`damaged`, `faults` and `earlier` are not in the code: `damaged` names the keys an
earlier failure or interruption has left in a state the index does not
describe, so that the properties say exactly what holds without them and what
a restart repairs; `faults` bounds those events; `earlier` is how many puts had been
begun when the process was started last.

`EntryStore` is the same tier without files, names and index. A key holds the entry
whose two entire files its names lead to; an entry is there from the last byte of its
body and gone with the unlink of its `.meta` file. Every other step of the code is a
stutter. It says what `IndexMatchesFiles` and `FilesWithinLimit` do not: that the entry
that goes is the oldest and goes for want of room, that no step but those of its own key
takes it otherwise, and that no restart loses an entry or brings one back. Oldest means
that every other entry was put later, or that both were found at the last start and the
other one's modification time is not earlier (`Precedes`): of the entries found at the
start the code knows no other age. While a
key is `harmed` (`damaged` in the code's terms), neither order nor limit is promised. `disk` in
`TieredCache` is this map with the evictions left free.

Sums, `retain` and the sort by modification time are written with the folds and sets of
the community modules (`UsedBytes`, `Without`, `OldestFirst`).

Abstracted: the content of metadata, shard directories, JSON failures other than
an incomplete file, failing unlinks of existing files, loss of the page cache.

### TieredCache, CachePolicy and the code

`memory` and `disk` are the tiers, as maps from keys to entries: an entry is the
request it was downloaded for, the moment (`stamp`) and the TTL. `get[g]` is the
program point and the locals of one `handle_cacheable_request` with the
`TieredCache::get` inside; `fetch[k]` is the download of a key from
`join_or_start_download` to the end of `put`. Each step is what lies between two
awaits. `Invalidate`, `Promote` and `Purge` write by key what was decided at an
earlier step, over whatever is there by then, as the code does. `DiskFails` and
`PutDiskFails` are the errors `get` and `put` return early with; `Purge` may do
nothing, as its error is ignored. `MemoryEvicts` covers moka, which may drop or not
admit any entry; `DiskEvicts` covers the eviction another key causes. `Restart`
keeps the disk and loses the rest. The clock (`ClockMoves`) is the system's, so it
can go back; it counts half seconds, because ages are whole seconds and an entry
lives on within the second its TTL ends in.

`CachePolicy` has the rules as the code applies them, line by line of a header: which
of several Cache-Control directives counts, which values parse, when `Expires` is
looked at. URIs are the substrings `apt.rs` searches for; `StoredAsDocumented` compares
the classes they give with those of the README. The cached body, the hash
of the key and header letter case are left out.

### Configuration, RequestRules and the code

A text of a number is its value `num/den` with a unit, or unparsable; the width of a
word is `MaxWord`. `parse_size` goes through `f64` and its cast saturates;
`parse_duration` multiplies words, which wraps in a release build. `FromVars` is
`Config::from_vars`: the parsed variables over the defaults, and an error for any
that does not parse and any critical zero.

Host names are sequences of characters, of which only the dot, the colon and the
brackets matter; the properties compare `host_matches`, which works on suffixes and
positions, with what a domain and its subdomains are. `Route` is `handle_request` with
`handle_connect` up to dialing; `Forwarded` filters and signs headers in the
code's order.

### ProxyServer and the code

`permits` is the semaphore; `conn[c]` is the program point of a client's connection
task, `tunnel[c]` that of its tunnel's task, which starts while the connection
still has its permit and outlives it. `gone[c]` says that the client has closed its
socket, which hyper notices at any later step (`ConnEnds`); without that, hyper may end
an idle connection for what it reads there, or because the client asked for no other request
(`ConnStops`). A failed `accept` may have lost the connection or left it in the backlog, as
when no file descriptor is left (`AcceptFails`). `HandOver` is hyper's upgrade;
`UpgradeFails` is the timeout around it and the failure of its connection. A
tunnel drains when both sides are closed (`TunnelDrained`) or breaks. `Shutdown`
is `ctrl_c`: the accept loop ends, `main` returns, and the runtime drops all
tasks. A cacheable request is one step here, as `TieredCache` and
`InflightDownloads` have its inside. A semaphore of more than
`Semaphore::MAX_PERMITS` panics at start, which is a `LoadFails`.

## Runs

| run | instance | what it shows |
|---|---|---|
| `inflight_safety` | 3 requests, 1 key, bodies of up to 1 chunk and one too large, capacity 1, at most 2 downloads | the map, the cache and the ends of streams under all interleavings |
| `inflight_lag` | 2 requests, bodies up to 2 chunks and one too large, capacity 1 | order and completeness for late and lagging clients; the inductive invariant; refinement of `SingleFlight`; downloads finish, and clients that keep reading are answered |
| `inflight_joiner_refused` | violated | headers nobody was waiting for are lost; a later joiner is refused although the download succeeds |
| `inflight_joiner_truncated` | violated | a client joining after the failure was broadcast gets a short body that ends without an error |
| `inflight_stalled_body` | violated | joiners wait without limit for another client's request body |
| `disk_safety` | 2 keys, 3 puts, 1 reader, 1 failed or interrupted call, any number of restarts at rest, 2 times | index, limit, entirety, steady reads, restart; refinement of `EntryStore` |
| `disk_torn_read` | violated | `get` during `put` returns part of a body as a whole one |
| `disk_over_limit` | violated | after a failed or interrupted call a put takes the files above `max_size` |
| `disk_ghost` | violated | after an interruption a key is queued for eviction twice |
| `tiered_cache` | 2 gets, 2 downloads, a page and an APT file of each class, 9 responses, a clock of 3 values, evictions, disk errors, restarts | types; freshness of answers; the documented storing rules and TTLs; refinement of `FreshCache` |
| `tiered_range` | violated | a part of a resource, asked for with a Range header, answers a request for all of it |
| `proxy_server` | 2 clients, limits of 1 to 3, 8 requests, 7 environments, words of ten bits | permits, filters, loop detection, settings; nobody waits in the backlog; a client that has gone leaves at most a tunnel with its target |

Bounds. One key is enough for coalescing: the handlers of different keys share
only the lock, and the proofs cover any number of keys. Two requests give a
download and its joiner; three give two downloads one after the other with a
joiner between (`AtMostTwoDownloads` leaves out a third download; with three
requests it would have no joiner). Bodies of 2 chunks with a ring of 1 let a
receiver lag by one chunk or two and a joiner start before, between and after the
chunks; a larger ring only lets it lag later. A body of
`MaxChunks + 1` is the one the size limit refuses. On disk, sizes 1 and 2 with a
limit of 4 (metadata 1) make two small entries fit, a small and a large one not,
and size 4 too large for the cache; three puts under two keys give replacement
and eviction of another key or of the key itself. The clock has two readings and one
put at most gets the later one (`OneLaterTime`), so that it stands still, goes on or
goes back between the puts of two keys; the proofs cover any times. One reader suffices, as readers change nothing. A get looks at no time,
so states with a get under way are explored further only while the clock has stood
still, and after a restart only if that found damage (`GetsBesideDamage`). Requests are
symmetric in `inflight_safety`, gets in the runs of the two tiers and keys on disk; no
symmetry is used in a run with a liveness property. Deadlock is checked in the coalescing runs (`Terminating` is the
legitimate end) and not on disk, where the cache may come to rest after the last
put, nor in the other two, where a process or its clients may stop for good.

In `tiered_cache` two gets give one that acts late beside one that acts meanwhile, and
two downloads an old and a new entry of a key; a clock of 0, 1 and 2 half seconds
lets a TTL of zero live, expire and lie in the future. The responses have an age,
none, one beside `no-store`, two that disagree, dates, unparsable values and each
reason not to store but one per kind; the proofs cover the others. The four TTLs differ
(3, 1, 0 and 2 seconds), so that a file in the wrong class, or a default where a header
applies, shows. `OneKeyInUse`
does not explore states with two keys in use: no step of a key reads another one,
and the proofs need no such restriction. Of the APT files only one is followed beyond
its way into the cache (`OtherAptFilesOnce`), as what becomes of an entry depends on its
TTL only. In `proxy_server` a limit of 1 never
allows a tunnel (its connection has the permit), 2 lets two clients
compete for one, 3 lets a tunnel outlive its connection while others come. Words of ten bits
let a duration wrap around, once to zero, and a size saturate.

Fairness. `TaskFairness`: a spawned task that can move by itself does, and its
timers fire; this is what tokio guarantees. Nothing is assumed of the upstream
server: it may stop answering at any point, and the timeouts must do.
`RequestBodyFairness`: the client sends the request body it announced (GET and
HEAD have none). `DownloadsFinish` needs only these. `RequestsSettle` adds, as
its premise, that tokio polls ready service futures and that clients keep
reading. `StallSpec` drops the request-body assumption to show that joiners
depend on it. For `ProxyServer`: the accept loop runs, and accept does not fail for
ever (with `EMFILE` it may, and the backlog then waits); a connection whose client has
gone, or that is done, ends; the upgrade times out (`tokio::time::timeout`); a drained
tunnel ends. Nothing is assumed of clients, of upstream, of the targets of tunnels or of
requests in progress: `PermitsComeBack` promises the permit of a tunnel only when the
target has closed its side or the tunnel was never handed over, because
`copy_bidirectional` has no timeout.

## Findings

* Torn reads (`disk_torn_read`, a bug): `read_entry` neither takes the mutex nor
  compares the data with `metadata.data_size`. A body cut short is returned as a
  hit and promoted to memory. A stop between the two files leaves the same on
  disk for good. `get` during the writing of the `.meta` file fails to parse it,
  which answers the request with an error page.
* Ghosts (`disk_ghost`): `put` clears the order only when `old_size > 0`.
* Over the limit (`disk_over_limit`, a bug): after `write_entry` fails, the files it
  began are neither in `current_size` nor in the order, so the next put finds room beside
  them; the next put of their key subtracts their bytes, which were never added. (The
  size of the old entry stays in `current_size` too, which errs to the safe side.) A `.data` file without its `.meta` is not listed by a restart
  either, so nothing but a put of its key ever removes it.
* Ranges (`tiered_range`, a bug): the key has no header but Accept-Encoding and any
  success is stored, `206 Partial Content` included, so a part of a resource is
  answered for the whole: the run finds a request for all, answered from the cache with a
  part. The reverse (a range request answered with the whole) is allowed by HTTP and is not
  counted. A request that joins the download gets a part as well.
* Coalescing: the three violated runs above, each against the line of the README
  or comment quoted in PROJECT.json.

* Plain package lists, seen while translating and shown by no run: src/README.md:152
  gives package lists "(`Packages`, `InRelease`, etc.)" one hour, while
  `is_apt_package_list` (src/src/apt.rs:44-53) has only the compressed `Packages` files
  among them, so that `/dists/.../Packages` is kept for a day. `StoredAsDocumented` leaves that file open
  (`PlainPackages`) and holds the code to the README's class of every other one.

Not against any line of the documentation, but worth knowing; no property excludes
these, and PROJECT.json lists them as hazards without one: a get whose miss is
out of date starts a second download of what has just been stored; a promotion
can put an older entry over a younger one, and a get that saw an expired entry can
remove the fresh one put since (`FreshCache` allows both); when memory forgets a small entry,
a larger and older one on disk is answered again; a `put` that fails on disk keeps the entry
out of memory as well; at the limit, connections crowd out the tunnels they ask for; a
tunnel half closed by its client keeps its permit as long as its target likes; a duration
beyond 64 bits wraps around.

## Proofs

All theorems hold for every value of the constants that satisfies the named
assumptions of the modules: for any numbers of requests, keys, clients, gets, chunks,
puts, any sizes, any responses, any width of a word. Every argument has the same
shape: an inductive invariant (`Init` implies it, every action keeps it, one lemma per
action or kind of action), from which the safety properties follow, and which
supplies the guards where a refinement is proved.

### Coalescing: `InflightDownloadsProofs`

From `KeysAssumption`, `BoundsAssumption` and `NoneAssumption`:

* `Invariance`: `Spec => []InductiveInvariant`, and from it `TypeCorrect`,
  `OneDownloadPerKey`, `ChunksInOrder`, `CleanEndIsAll`, `TruncationIsLate`,
  `CacheHoldsWholeBodies`, `InitiatorServed`, which are the safety properties of
  the runs;
* `Refinement`: `Spec => ImplementsSingleFlight`.

That a client gets no chunk twice is not inductive: it rests on
where its receiver stands, that on what was pushed and sent when it joined, and
that on the map naming the task that pushes. So the invariant is a chain.
`MapInv`: the map names exactly the running tasks. `CountInv`: hence what a task
has read is what it pushed, and what it sent but for the chunk inside
`add_chunk`. `ResultInv`: only a whole body is cached or announced. `AttachInv`,
`CursorInv`: an attached receiver is either in the stream, where the next
message is the chunk after those it has (the write lock of `Join` excludes the
half-done `add_chunk`), or past the terminal message with all chunks copied.
`EndedInv`: so a clean end finds everything. `MetaInv`, `InitiatorInv`: the
first client still holds its watch receiver when headers arrive. For the refinement
every step is a step of `SingleFlight` or a stutter; `Publish` is `PushChunk`, a
clean end is `PollComplete` or `PollClosed`.

### Files on disk: `DiskCacheProofs`

From `SizesAssumption` and `NoneAssumption`: `FileInvariance`, and from it
`EntriesEntire` (`StoredIsEntire`) and `SteadyGetsEntire` (`SteadyReadIsEntire`).
The point is that a put writes only to files it created itself, under a number no
other put has: `NamesInv` says that the file of the running put has the name of its
key alone, and only from the step that creates it on, and `WriterInv` how far the
put is. Hence `EntriesInv`: a key that is undamaged and not being changed has an entire
entry or none. `ReadersInv`: a get that opened both files while they were quiet holds
two files of one put that is over, so nothing it reads can change, though the names
may go. `DetachedInv`: unlinks left behind concern damaged keys only. The index takes no
part in the argument, so the results hold for any eviction order.

### The index on disk: `DiskIndexProofs`

From `SizesAssumption`, `KeysAssumption` (finitely many keys) and `NoneAssumption`:
`IndexInvariance`, and from it `DiskTypesCorrect` (`TypeOK`), `IndexCorrect`
(`IndexMatchesFiles`), `LimitKept` (`FilesWithinLimit`), `RestartGivesBack`
(`RestartKeepsIndex`) and `AnswersAreOwn`: a get that reads a part of a body (see Findings) still reads files that
were put under its own key, so a torn answer mixes versions of one resource and
never two resources.

`IndexInvariant` adds to the invariant of the files what the index says of them while
nothing is damaged. The size agrees with the files only between calls: `SizeInv` says by
how much it is off at each point of a call, namely by the bytes evicted so far and by
the bytes of the old entry that are still, or no longer, there. `RoomInv` is why the
limit holds in the middle of a put: what was made room for stays free until the new
entry fills it. `OrderInv`: the order has every key with a `.meta` file once, but for the
key at hand, and each before those that are not older (`Older`): put later, or found with
it at the last start with no earlier time. No assumption is made about the clock. A
restart makes every entry one found at the start and sorts them by time, so `Older` holds
of its order whatever it was before; and every listing of a finite set has the same
length (`ListingLength`), so no key is lost or doubled. Only if the times ascend with
the puts (`ClockWentOn`) is the order the same: two ascending sequences of the same keys
are equal.

Sums over a set of keys, what `retain` leaves and sorted sequences are facts by
induction over data. The library's induction theorems cannot be applied here, so
`DataLemmas` proves them through sets: the set of numbers up to which a fact holds contains
0 and is closed under successor, hence is all of them (`NaturalsReached`), and likewise
for finite sets (`SubsetsReached`).

`DiskRefinement`: `Spec => ImplementsEntryStore`. Three facts are needed beside the index
(`StoreInvariant`). `SteadyInv`: the metadata a steady get holds is complete, so it will
be read. `VictimInv`: between popping an entry and unlinking its `.meta` file there is no
room for the new one, and no other entry goes before it. `BodyInv`: a put writes its body to a file of
its own even when a name of it has been unlinked by a remove that was dropped earlier,
so no other entry can show up under the key.

### Two tiers: `TieredCacheProofs`

From `AsksAssumption`, `EntryAssumption` and `PolicyAssumption`: `CacheInvariance`, and
from it `TypeCorrect`, `KeptFresh` (`AnswersFresh`), `VariantsApart` (an answer has
the method, URI and Accept-Encoding of its request), `StoredByTheRules`
(`StoredAsDocumented`), and `Refinement` (`ImplementsFreshCache`). `CacheInvariant` says of every place an entry can be in (a
tier, a download, the hands of a get) that it is an entry of the key it is found
under (`TiersHold`, `FetchesHold`), and of a get what it has seen: an entry that had
expired when it is about to remove, one that was alive when it is about to promote
or answer (`GetsHold`). A late write by key then moves entries between places of
their own key only. The rules are proved for any lists of directives; the
value that counts is the last, which needs that `Max` is the maximum (`DataLemmas`).

### Settings and rules: `ConfigurationProofs`, `RequestRulesProofs`

From `ConfigurationAssumption`: `DurationIsExact` says what a parsed duration is, for words of
any width and any units. (That a size saturates is how `ParseSize` is written, and a lemma.) `MatchesDomain`: for names and patterns
of any length, `host_matches` holds exactly when the name without port and brackets is
the domain or ends with a dot and the domain. `NameIsChecked`: when an authority names `n`
(`Names`: a name or a name in brackets, then nothing or a colon and a port), what the host
filter compares is `n`, and what CONNECT dials is `n` as it was written.

### The server: `ProxyServerProofs`

From the assumptions above, `ClientsAssumption`, `RequestsAssumption`,
`AuthoritiesAssumption` (a request with a scheme has an authority, and an authority names a
host) and
`EnvironmentsAssumption`: `ServerInvariance`, `TypeCorrect`, `NoPermitLost`
(`PermitsAccounted`), `LimitHolds` (connections and tunnels together never
exceed the limit), `LimitsAsWritten` (`ServesAsConfigured`), `LoopsEnd`
(`LoopsAreCut`), `AdmittedAlways` and from it `OnlyPermitted`
(`OnlyPermittedTargets`). `PermitsAccounted` is not inductive alone: that a tunnel opens where
none was, so that its permit is counted once, is `OneTunnelEach`, and that the total
is that of the settings in force is `Configured`. Counting is by `TasksMove`: a step
that moves one client's two tasks changes the permits by exactly what the
tasks take and give back. A target is checked once, when its request is routed, and
used by later steps and by another task: `Admitted` says of every request, connection
and tunnel in hand that it passed under the settings in force, which change only
while nothing is in hand.

### Only model-checked

* Liveness: `DownloadsFinish`, `RequestsSettle`, `NobodyWaitsInQueue`,
  `PermitsComeBack`. They hold under fairness, and fairness and ENABLED are beyond the
  prover. Every safety and action property and every refinement of the passing runs is
  proved.
* The violated runs, each a counterexample.

## Not modelled

* The bytes a tunnel copies (tokio's `copy_bidirectional`) and its buffers.
* The error page, its status and wording, and which error a failure is reported as;
  logging.
* moka's accounting: an entry's weight saturates at 32 bits, and the memory tier is
  a map that may forget any entry.
* The rounding of `f64` beyond 2^53 in `parse_size`: a text stands for the number it is
  rounded to, so `ServesAsConfigured` is about that number; letter case of headers, units and
  hosts; header lines that are no text.
* The content of metadata files, shard directories, failing unlinks of existing
  files, and a loss of the page cache.
* One module for all: the components meet in small interfaces (`cached` in
  `InflightDownloads`, the maps `memory` and `disk` and the downloads of
  `TieredCache`, the one-step cacheable request in `ProxyServer`), each of which
  allows whatever the module behind it does. Their product is beyond TLC.
  One consequence: a torn read (see Findings) is not an answer of
  `TieredCache`, whose disk is a map.
