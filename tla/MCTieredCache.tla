----------------------------- MODULE MCTieredCache -----------------------------
(* TLC instances of TieredCache.                                           *)
EXTENDS TieredCache, TLC

CONSTANTS g1, g2, gzip

Page == [has |-> {}, ends |-> "other"]
List == [has |-> {"APT host", "/dists/", "InRelease"}, ends |-> "other"]
Release == [has |-> {"/dists/"}, ends |-> "/Release"]
Deb == [has |-> {"/pool/"}, ends |-> ".deb"]
Plain == [has |-> {"/dists/"}, ends |-> "/Packages"]

Ask(uri, encoding, range) ==
    [method |-> "GET", uri |-> uri, encoding |-> encoding, range |-> range]

\* A page and an APT file of each class.
PageAndAptFiles ==
    {Ask(uri, gzip, "all") : uri \in {Page, List, Release, Deb, Plain}}
\* A page, and a part of it.
WholeAndPart == {Ask(Page, gzip, "all"), Ask(Page, gzip, "part")}

Gives(name, value) == [name |-> name, value |-> value]

Answer(directives, expires) ==
    [success |-> TRUE, cacheControl |-> directives, pragma |-> {}, vary |-> {},
     expires |-> expires]

\* An age; none; an age beside a word that forbids to store; two ages that
\* disagree; a date; an age that does not parse beside a date in the past; and
\* what is not to be stored for its status or another header.
MCResponses ==
    {Answer(<<Gives("max-age", 1)>>, None),
     Answer(<<>>, None),
     Answer(<<Gives("max-age", 1), Gives("no-store", None)>>, None),
     Answer(<<Gives("s-maxage", 0), Gives("max-age", 1)>>, None),
     Answer(<<>>, 3),
     Answer(<<Gives("max-age", Unparsable)>>, 0),
     [Answer(<<>>, None) EXCEPT !.success = FALSE],
     [Answer(<<>>, None) EXCEPT !.pragma = {"no-cache"}],
     [Answer(<<>>, None) EXCEPT !.vary = {"cookie", "accept"}]}

InUse(k) ==
    \/ memory[k] # None \/ disk[k] # None \/ fetch[k] # NoFetch
    \/ \E g \in Gets : get[g].phase # "idle" /\ KeyOf(g) = k

\* Bound: what happens to one key does not depend on another, so that states
\* with two keys in use are not explored further.
OneKeyInUse == \A j, k \in Keys : InUse(j) /\ InUse(k) => j = k

\* Bound: the APT files differ in the TTL they are stored with only, so that of
\* a list or a .deb file no more than the way into the cache is explored.
OtherAptFilesOnce ==
    \A k \in Keys :
        k.uri \in {List, Release, Deb} => memory[k] = None /\ disk[k] = None

GetSymmetry == Permutations(Gets)

=============================================================================
