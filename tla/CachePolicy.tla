------------------------------ MODULE CachePolicy ------------------------------
(***************************************************************************)
(* Which responses Squiddish stores and for how long: the headers          *)
(* (proxy/handler.rs), the classes of APT files (apt.rs) and the age at    *)
(* which an entry expires (cache/mod.rs).  Pure operators, used by         *)
(* TieredCache.                                                            *)
(*                                                                         *)
(* Data: a response is what the headers say, with names and directives in  *)
(* lower case (the code ignores case) and header lines that are no text    *)
(* left out (the code skips them).  A URI is the set of the substrings     *)
(* apt.rs looks for and the suffix it ends with; "APT host" stands for the *)
(* five hosts and "Packages" for Packages.gz, .xz and .bz2.  Time is       *)
(* counted in half seconds, so that a moment and its second differ.        *)
(***************************************************************************)
EXTENDS Integers, Sequences, SequencesExt

CONSTANTS
    None,        \* absence of a value
    Unparsable,  \* a number or a date that does not parse
    AptEnabled,  \* config.apt.enabled
    PackageTTL, ListTTL, OtherTTL,  \* config.apt.*_ttl_seconds
    DefaultTTL   \* config.cache.ttl_seconds

ASSUME PolicyAssumption ==
    /\ AptEnabled \in BOOLEAN
    /\ {PackageTTL, ListTTL, OtherTTL, DefaultTTL} \subseteq Nat
    /\ None # Unparsable /\ {None, Unparsable} \cap Int = {}

TicksPerSecond == 2

\* The Cache-Control directives of all lines in order; a directive that only
\* looks like a known one (no-cache="field") is "other".
Directive ==
    [name : {"no-store", "no-cache", "private", "other"}, value : {None}]
        \cup [name : {"s-maxage", "max-age"}, value : Nat \cup {Unparsable}]

Response ==
    [success : BOOLEAN, cacheControl : Seq(Directive),
     pragma : SUBSET STRING, vary : SUBSET STRING,
     expires : Int \cup {None, Unparsable}]

\* Mutant: only the first Cache-Control directive is looked at.
ShouldCacheFirst(r) ==
    /\ r.success
    /\ r.cacheControl # <<>> =>
          Head(r.cacheControl).name \notin {"no-store", "no-cache", "private"}
    /\ "no-cache" \notin r.pragma
    /\ r.vary \cap {"*", "authorization", "cookie"} = {}

\* should_cache_response: a success that no header forbids to store.
ShouldCache(r) ==
    /\ r.success
    /\ \A i \in DOMAIN r.cacheControl :
          r.cacheControl[i].name \notin {"no-store", "no-cache", "private"}
    /\ "no-cache" \notin r.pragma
    /\ r.vary \cap {"*", "authorization", "cookie"} = {}

\* The positions at which a directive has a value that parses.
Ages(r, name) ==
    {i \in DOMAIN r.cacheControl : /\ r.cacheControl[i].name = name
                                   /\ r.cacheControl[i].value # Unparsable}

\* The last of them counts.
Age(r, name) == r.cacheControl[Max(Ages(r, name))].value

\* Mutant: the difference is taken with its sign.
SecondsUntilSigned(date, now) ==
    IF date = Unparsable THEN 0 ELSE (date - now) \div TicksPerSecond

\* The whole seconds from now to a date; none if it is past or no date.
SecondsUntil(date, now) ==
    IF date = Unparsable \/ date < now THEN 0
    ELSE (date - now) \div TicksPerSecond

\* parse_cache_control_headers: seconds, or None without any such header.
HeaderTTL(r, now) ==
    IF Ages(r, "s-maxage") # {} THEN Age(r, "s-maxage")
    ELSE IF Ages(r, "max-age") # {} THEN Age(r, "max-age")
    ELSE IF r.expires # None THEN SecondsUntil(r.expires, now)
    ELSE None

-----------------------------------------------------------------------------
(* APT requests, told by their URI.                                        *)

IsAptRequest(uri) ==
    \/ uri.has \cap {"APT host", "/dists/", "/pool/", "Packages",
                     "Release.gpg", "InRelease"} # {}
    \/ uri.ends = ".deb"

\* Mutant: InRelease is not among the package lists.
IsAptPackageListNoInRelease(uri) ==
    \/ "Packages" \in uri.has
    \/ "/dists/" \in uri.has /\ uri.ends \in {"/Release", "/Release.gpg"}

IsAptPackageList(uri) ==
    \/ uri.has \cap {"Packages", "InRelease"} # {}
    \/ "/dists/" \in uri.has /\ uri.ends \in {"/Release", "/Release.gpg"}

IsAptPackageFile(uri) == uri.ends = ".deb"

AptTTL(uri) ==
    IF IsAptPackageFile(uri) THEN PackageTTL
    ELSE IF IsAptPackageList(uri) THEN ListTTL
    ELSE OtherTTL

-----------------------------------------------------------------------------
(* The end of fetch_and_stream and the life of an entry.                   *)

Special(uri) == AptEnabled /\ IsAptRequest(uri)

\* Mutant: a response with an age of zero is stored.
StoresZero(uri, r, now) == ShouldCache(r)

\* An APT file is stored whatever age its headers give.
Stores(uri, r, now) ==
    ShouldCache(r) /\ (Special(uri) \/ HeaderTTL(r, now) # 0)

TTL(uri, r, now) ==
    IF Special(uri) THEN AptTTL(uri)
    ELSE IF HeaderTTL(r, now) = None THEN DefaultTTL
    ELSE HeaderTTL(r, now)

\* CacheEntry::is_expired: the age in whole seconds exceeds the TTL, or the
\* clock says that the entry is not there yet.
IsExpired(e, now) ==
    \/ now < e.stamp
    \/ (now - e.stamp) \div TicksPerSecond > e.ttl

=============================================================================
