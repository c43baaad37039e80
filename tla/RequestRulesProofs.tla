--------------------------- MODULE RequestRulesProofs ---------------------------
(***************************************************************************)
(* What the host filter of RequestRules lets through, for names and        *)
(* patterns of any length.                                                 *)
(***************************************************************************)
EXTENDS RequestRules, DataLemmas, FiniteSetTheorems, SequenceTheorems, TLAPS

\* The part of a sequence that SubSeq takes.
LEMMA Part ==
    ASSUME NEW Chars, NEW s \in Seq(Chars), NEW i \in Nat \ {0}, NEW j \in Nat, j <= Len(s)
    PROVE  /\ SubSeq(s, i, j) \in Seq(Chars)
           /\ Len(SubSeq(s, i, j)) = IF i <= j THEN (j - i) + 1 ELSE 0
           /\ \A k \in 1..((j - i) + 1) : SubSeq(s, i, j)[k] = s[(i + k) - 1]
OBVIOUS

\* What is left after the first n elements.
LEMMA WhatFollows ==
    ASSUME NEW Chars, NEW s \in Seq(Chars), NEW n \in Nat, n <= Len(s)
    PROVE  /\ After(s, n) \in Seq(Chars) /\ Len(After(s, n)) = Len(s) - n
           /\ \A k \in 1..(Len(s) - n) : After(s, n)[k] = s[n + k]
BY DEF After

\* A sequence with an element put before it.
LEMMA WithFirst ==
    ASSUME NEW S, NEW s \in Seq(S), NEW x \in S
    PROVE  /\ <<x>> \o s \in Seq(S) /\ Len(<<x>> \o s) = Len(s) + 1
           /\ (<<x>> \o s)[1] = x
           /\ \A k \in 1..Len(s) : (<<x>> \o s)[k + 1] = s[k]
<1>1. <<x>> \in Seq(S) /\ Len(<<x>>) = 1 /\ <<x>>[1] = x
  OBVIOUS
<1> DEFINE t == <<x>>
<1> HIDE DEF t
<1>2. t \in Seq(S) /\ Len(t) = 1 /\ t[1] = x
  BY <1>1 DEF t
<1>3. /\ t \o s \in Seq(S) /\ Len(t \o s) = Len(t) + Len(s)
      /\ \A i \in 1..(Len(t) + Len(s)) :
            (t \o s)[i] = IF i <= Len(t) THEN t[i] ELSE s[i - Len(t)]
  BY <1>2, ConcatProperties
<1>4. Len(s) \in Nat
  OBVIOUS
<1> DEFINE c == t \o s
<1> HIDE DEF c
<1>5. c[1] = x
  BY <1>2, <1>3, <1>4 DEF c
<1>6. ASSUME NEW k \in 1..Len(s) PROVE c[k + 1] = s[k]
  <2>1. k + 1 \in 1..(1 + Len(s)) /\ ~(k + 1 <= 1) /\ (k + 1) - 1 = k
    BY <1>4
  <2> QED BY <1>2, <1>3, <2>1 DEF c
<1>7. c \in Seq(S) /\ Len(c) = Len(s) + 1
  BY <1>2, <1>3, <1>4 DEF c
<1> QED BY <1>5, <1>6, <1>7 DEF c, t

\* The positions of a character are positions, and the first of them is one.
LEMMA Positions ==
    ASSUME NEW Chars, NEW s \in Seq(Chars), NEW ch, At(s, ch) # {}
    PROVE  /\ Min(At(s, ch)) \in 1..Len(s) /\ s[Min(At(s, ch))] = ch
           /\ Max(At(s, ch)) \in 1..Len(s) /\ s[Max(At(s, ch))] = ch
<1>1. At(s, ch) \in SUBSET Nat /\ \A i \in At(s, ch) : i \in 1..Len(s) /\ s[i] = ch
  BY DEF At
<1>2. Min(At(s, ch)) \in At(s, ch)
  BY <1>1, MinIsLeast
<1>3. Max(At(s, ch)) \in At(s, ch)
  <2>1. Len(s) \in Nat /\ At(s, ch) \in SUBSET (0..Len(s))
    BY <1>1
  <2> QED BY <2>1, MaxIsGreatest
<1> QED BY <1>1, <1>2, <1>3

\* What strip_host_port returns is a name.
LEMMA StripType ==
    ASSUME NEW Chars, NEW host \in Seq(Chars)
    PROVE  StripHostPort(host) \in Seq(Chars)
<1>1. CASE host # <<>> /\ host[1] = "["
  <2>1. CASE At(host, "]") = {}
    BY <1>1, <2>1 DEF StripHostPort
  <2>2. CASE At(host, "]") # {}
    <3>1. Min(At(host, "]")) \in 1..Len(host)
      BY <2>2, Positions
    <3>2. Min(At(host, "]")) - 1 \in Nat /\ Min(At(host, "]")) - 1 <= Len(host)
      BY <3>1
    <3>3. SubSeq(host, 2, Min(At(host, "]")) - 1) \in Seq(Chars)
      BY <3>2, Part
    <3> QED BY <1>1, <2>2, <3>3 DEF StripHostPort
  <2> QED BY <2>1, <2>2
<1>2. CASE ~(host # <<>> /\ host[1] = "[") /\ Cardinality(At(host, ":")) # 1
  BY <1>2 DEF StripHostPort
<1>3. CASE ~(host # <<>> /\ host[1] = "[") /\ Cardinality(At(host, ":")) = 1
  <2>1. At(host, ":") # {}
    BY <1>3, FS_EmptySet
  <2>2. Max(At(host, ":")) \in 1..Len(host)
    BY <2>1, Positions
  <2>3. Max(At(host, ":")) - 1 \in Nat /\ Max(At(host, ":")) - 1 <= Len(host)
    BY <2>2
  <2>4. Before(host, Max(At(host, ":"))) \in Seq(Chars)
    BY <2>3, Part DEF Before
  <2> QED BY <1>3, <2>4 DEF StripHostPort
<1> QED BY <1>1, <1>2, <1>3

\* A sequence over a set is one over a larger set.
LEMMA Wider ==
    ASSUME NEW A, NEW B, NEW s \in Seq(A), A \subseteq B
    PROVE  s \in Seq(B)
OBVIOUS

-----------------------------------------------------------------------------
(* Names and domains.                                                      *)

\* One sequence ends another when its elements are the last of the other.
LEMMA SuffixIs ==
    ASSUME NEW Chars, NEW s \in Seq(Chars), NEW t \in Seq(Chars)
    PROVE  IsSuffix(s, t) <=>
              /\ Len(s) <= Len(t)
              /\ \A k \in 1..Len(s) : s[k] = t[(Len(t) - Len(s)) + k]
<1> DEFINE rs == Reverse(s)
           rt == Reverse(t)
<1>1. /\ rs \in Seq(Chars) /\ Len(rs) = Len(s)
      /\ \A k \in 1..Len(s) : rs[k] = s[(Len(s) - k) + 1]
  BY DEF Reverse
<1>2. /\ rt \in Seq(Chars) /\ Len(rt) = Len(t)
      /\ \A k \in 1..Len(t) : rt[k] = t[(Len(t) - k) + 1]
  BY DEF Reverse
<1>3. IsSuffix(s, t) <=> Len(s) <= Len(t) /\ SubSeq(rs, 1, Len(s)) = SubSeq(rt, 1, Len(s))
  BY <1>1, <1>2 DEF IsSuffix, IsPrefix
<1> HIDE DEF rs, rt
<1>4. ASSUME Len(s) <= Len(t)
      PROVE  SubSeq(rs, 1, Len(s)) = SubSeq(rt, 1, Len(s)) <=>
                \A k \in 1..Len(s) : rs[k] = rt[k]
  BY <1>1, <1>2, <1>4
<1>5. ASSUME Len(s) <= Len(t)
      PROVE  (\A k \in 1..Len(s) : rs[k] = rt[k]) <=>
                \A k \in 1..Len(s) : s[k] = t[(Len(t) - Len(s)) + k]
  <2>1. ASSUME \A k \in 1..Len(s) : rs[k] = rt[k], NEW k \in 1..Len(s)
        PROVE  s[k] = t[(Len(t) - Len(s)) + k]
    <3> DEFINE i == (Len(s) - k) + 1
    <3>1. /\ i \in 1..Len(s) /\ i \in 1..Len(t) /\ (Len(s) - i) + 1 = k
          /\ (Len(t) - i) + 1 = (Len(t) - Len(s)) + k
      BY <1>5
    <3> HIDE DEF i
    <3>2. rs[i] = s[k] /\ rt[i] = t[(Len(t) - Len(s)) + k]
      BY <1>1, <1>2, <3>1
    <3> QED BY <2>1, <3>1, <3>2
  <2>2. ASSUME \A k \in 1..Len(s) : s[k] = t[(Len(t) - Len(s)) + k], NEW k \in 1..Len(s)
        PROVE  rs[k] = rt[k]
    <3> DEFINE i == (Len(s) - k) + 1
    <3>1. /\ i \in 1..Len(s) /\ k \in 1..Len(t)
          /\ (Len(t) - Len(s)) + i = (Len(t) - k) + 1
      BY <1>5
    <3> HIDE DEF i
    <3>2. rs[k] = s[i] /\ rt[k] = t[(Len(t) - Len(s)) + i]
      BY <1>1, <1>2, <3>1 DEF i
    <3> QED BY <2>2, <3>1, <3>2
  <2> QED BY <2>1, <2>2
<1> QED BY <1>3, <1>4, <1>5

\* The host filter matches exactly the domain and its subdomains: a suffix
\* counts only where a label begins, for names of any length.
THEOREM MatchesDomain ==
    ASSUME NEW Chars, "." \in Chars,
           NEW host \in Seq(Chars), NEW pattern \in Seq(Chars)
    PROVE  HostMatches(host, pattern) <=> InDomain(StripHostPort(host), pattern)
<1> DEFINE name == StripHostPort(host)
           rest == Len(name) - Len(pattern)
           dotted == <<".">> \o pattern
<1>1. name \in Seq(Chars)
  BY StripType
<1>2. HostMatches(host, pattern) <=>
        name = pattern \/ (rest > 0 /\ After(name, rest) = pattern /\ name[rest] = ".")
  BY DEF HostMatches
<1> HIDE DEF name
<1>3. /\ dotted \in Seq(Chars) /\ Len(dotted) = Len(pattern) + 1
      /\ dotted[1] = "." /\ \A k \in 1..Len(pattern) : dotted[k + 1] = pattern[k]
  BY WithFirst
<1> HIDE DEF dotted
<1>4. rest > 0 <=> Len(dotted) <= Len(name)
  BY <1>1, <1>3
<1>5. ASSUME rest > 0
      PROVE  After(name, rest) = pattern <=>
                \A k \in 1..Len(pattern) : name[rest + k] = pattern[k]
  <2>1. rest \in Nat /\ rest <= Len(name) /\ Len(name) - rest = Len(pattern)
    BY <1>1, <1>5
  <2> HIDE DEF rest
  <2>2. /\ After(name, rest) \in Seq(Chars) /\ Len(After(name, rest)) = Len(pattern)
        /\ \A k \in 1..Len(pattern) : After(name, rest)[k] = name[rest + k]
    <3>1. /\ After(name, rest) \in Seq(Chars) /\ Len(After(name, rest)) = Len(name) - rest
          /\ \A k \in 1..(Len(name) - rest) : After(name, rest)[k] = name[rest + k]
      BY <1>1, <2>1, WhatFollows
    <3> QED BY <2>1, <3>1
  <2>3. After(name, rest) = pattern <=>
           \A k \in 1..Len(pattern) : After(name, rest)[k] = pattern[k]
    BY <2>2, SeqEqual
  <2> QED BY <2>2, <2>3
<1>6. ASSUME rest > 0
      PROVE  (\A k \in 1..Len(dotted) : dotted[k] = name[(Len(name) - Len(dotted)) + k])
               <=> /\ name[rest] = "."
                   /\ \A k \in 1..Len(pattern) : name[rest + k] = pattern[k]
  <2>1. ASSUME \A k \in 1..Len(dotted) : dotted[k] = name[(Len(name) - Len(dotted)) + k]
        PROVE  /\ name[rest] = "."
               /\ \A k \in 1..Len(pattern) : name[rest + k] = pattern[k]
    <3>1. 1 \in 1..Len(dotted) /\ (Len(name) - Len(dotted)) + 1 = rest
      BY <1>1, <1>3
    <3>2. ASSUME NEW k \in 1..Len(pattern)
          PROVE  k + 1 \in 1..Len(dotted) /\ (Len(name) - Len(dotted)) + (k + 1) = rest + k
      BY <1>1, <1>3
    <3> HIDE DEF rest
    <3> QED BY <1>3, <2>1, <3>1, <3>2
  <2>2. ASSUME name[rest] = ".",
               \A k \in 1..Len(pattern) : name[rest + k] = pattern[k],
               NEW k \in 1..Len(dotted)
        PROVE  dotted[k] = name[(Len(name) - Len(dotted)) + k]
    <3>1. CASE k = 1
      BY <1>1, <1>3, <2>2, <3>1
    <3>2. CASE k # 1
      <4>1. /\ k - 1 \in 1..Len(pattern) /\ (k - 1) + 1 = k
            /\ (Len(name) - Len(dotted)) + k = rest + (k - 1)
        BY <1>1, <1>3, <3>2
      <4> HIDE DEF rest
      <4> QED BY <1>3, <2>2, <4>1
    <3> QED BY <3>1, <3>2
  <2> QED BY <2>1, <2>2
<1>7. IsSuffix(dotted, name) <=>
        rest > 0 /\ After(name, rest) = pattern /\ name[rest] = "."
  <2>1. IsSuffix(dotted, name) <=>
           /\ Len(dotted) <= Len(name)
           /\ \A k \in 1..Len(dotted) : dotted[k] = name[(Len(name) - Len(dotted)) + k]
    BY <1>1, <1>3, SuffixIs
  <2> HIDE DEF rest
  <2> QED BY <1>4, <1>5, <1>6, <2>1
<1> HIDE DEF rest
<1> QED BY <1>2, <1>7 DEF InDomain, name, dotted

-----------------------------------------------------------------------------
(* Authorities and the names in them.                                      *)

\* The first position of a character, when nothing before it is that character.
LEMMA FirstAt ==
    ASSUME NEW Chars, NEW s \in Seq(Chars), NEW ch, NEW i \in 1..Len(s), s[i] = ch,
           \A k \in 1..(i - 1) : s[k] # ch
    PROVE  At(s, ch) # {} /\ Min(At(s, ch)) = i
<1>1. At(s, ch) \in SUBSET Nat /\ i \in At(s, ch)
  BY DEF At
<1>2. /\ Min(At(s, ch)) \in At(s, ch)
      /\ \A y \in At(s, ch) : Min(At(s, ch)) <= y
  BY <1>1, MinIsLeast
<1>3. ASSUME NEW m \in At(s, ch), m <= i PROVE m = i
  <2>1. m \in 1..Len(s) /\ s[m] = ch
    BY DEF At
  <2> QED BY <1>3, <2>1
<1> QED BY <1>1, <1>2, <1>3

\* The last position of a character, when nothing after it is that character.
LEMMA LastAt ==
    ASSUME NEW Chars, NEW s \in Seq(Chars), NEW ch, NEW i \in 1..Len(s), s[i] = ch,
           \A k \in (i + 1)..Len(s) : s[k] # ch
    PROVE  At(s, ch) # {} /\ Max(At(s, ch)) = i
<1>1. Len(s) \in Nat /\ At(s, ch) \in SUBSET (0..Len(s)) /\ i \in At(s, ch)
  BY DEF At
<1>2. /\ Max(At(s, ch)) \in At(s, ch)
      /\ \A y \in At(s, ch) : Max(At(s, ch)) >= y
  BY <1>1, MaxIsGreatest
<1>3. ASSUME NEW m \in At(s, ch), m >= i PROVE m = i
  <2>1. m \in 1..Len(s) /\ s[m] = ch
    BY DEF At
  <2> QED BY <1>3, <2>1
<1> QED BY <1>1, <1>2, <1>3

\* A name without a colon and without brackets is left as it is.
LEMMA StripPlain ==
    ASSUME NEW Chars, NEW n \in Seq(Chars), At(n, ":") = {}, At(n, "[") = {}
    PROVE  StripHostPort(n) = n
<1>1. ~(n # <<>> /\ n[1] = "[")
  BY DEF At
<1>2. Cardinality(At(n, ":")) # 1
  BY FS_EmptySet
<1> QED BY <1>1, <1>2 DEF StripHostPort

\* The sequence h is n with brackets around it.
Bracketed(h, n) ==
    /\ Len(h) = Len(n) + 2
    /\ h[1] = "[" /\ h[Len(n) + 2] = "]"
    /\ \A k \in 1..Len(n) : h[k + 1] = n[k]

\* A name in brackets is taken out of them.
LEMMA StripBracketed ==
    ASSUME NEW Chars, NEW host \in Seq(Chars), NEW n \in Seq(Chars),
           Bracketed(host, n), At(n, "]") = {}
    PROVE  StripHostPort(host) = n
<1> DEFINE i == Len(n) + 2
<1>1. /\ Len(n) \in Nat /\ i \in 1..Len(host) /\ i = Len(host) /\ i = Len(n) + 2
      /\ host[1] = "[" /\ host[i] = "]"
      /\ \A k \in 1..Len(n) : host[k + 1] = n[k]
  BY DEF Bracketed
<1> HIDE DEF i
<1>2. ASSUME NEW k \in 1..(i - 1) PROVE host[k] # "]"
  <2>1. CASE k = 1
    BY <1>1, <2>1
  <2>2. CASE k # 1
    <3>1. k - 1 \in 1..Len(n) /\ (k - 1) + 1 = k
      BY <1>1, <2>2
    <3>2. host[k] = n[k - 1] /\ n[k - 1] # "]"
      BY <1>1, <3>1 DEF At
    <3> QED BY <3>2
  <2> QED BY <2>1, <2>2
<1>3. At(host, "]") # {} /\ Min(At(host, "]")) = i
  BY <1>1, <1>2, FirstAt
<1>4. StripHostPort(host) = SubSeq(host, 2, i - 1)
  <2>1. Len(host) # 0
    BY <1>1
  <2>2. host # <<>>
    BY <2>1, EmptySeq
  <2> QED BY <1>1, <1>3, <2>2 DEF StripHostPort
<1>5. PICK j \in Nat : j = i - 1
  BY <1>1
<1> DEFINE t == SubSeq(host, 2, j)
<1>6. /\ t \in Seq(Chars) /\ Len(t) = Len(n)
      /\ \A k \in 1..Len(n) : t[k] = host[(2 + k) - 1]
  <2>1. /\ j <= Len(host) /\ (j - 2) + 1 = Len(n)
        /\ (IF 2 <= j THEN (j - 2) + 1 ELSE 0) = Len(n)
    BY <1>1, <1>5
  <2>2. /\ t \in Seq(Chars)
        /\ Len(t) = IF 2 <= j THEN (j - 2) + 1 ELSE 0
        /\ \A k \in 1..((j - 2) + 1) : t[k] = host[(2 + k) - 1]
    <3>1. t \in Seq(Chars)
      BY <2>1, Part
    <3>2. Len(t) = IF 2 <= j THEN (j - 2) + 1 ELSE 0
      BY <2>1, Part
    <3>3. ASSUME NEW k \in 1..((j - 2) + 1) PROVE t[k] = host[(2 + k) - 1]
      BY <2>1
    <3> QED BY <3>1, <3>2, <3>3
  <2> HIDE DEF t
  <2> QED BY <2>1, <2>2
<1> HIDE DEF t
<1>7. ASSUME NEW k \in 1..Len(n) PROVE t[k] = n[k]
  <2>1. (2 + k) - 1 = k + 1
    BY <1>1
  <2> QED BY <1>1, <1>6, <2>1
<1>8. t = n
  BY <1>6, <1>7, SeqEqual
<1> QED BY <1>4, <1>5, <1>8 DEF t

\* Where a plain name stands before a port or the end, it is the host of the
\* authority and of the target.
LEMMA PlainHost ==
    ASSUME NEW Chars, NEW a \in Seq(Chars), a # NoHost, NEW i \in 0..Len(a),
           NEW n, n = SubSeq(a, 1, i), At(n, ":") = {}, At(n, "[") = {},
           After(a, i) # <<>> =>
              After(a, i)[1] = ":" /\ At(Tail(After(a, i)), ":") = {}
    PROVE  /\ UriHost(a) = n
           /\ ConnectTarget(a) # NoHost => ConnectTarget(a).host = n
<1>1. Len(a) \in Nat /\ i \in Nat /\ i <= Len(a)
  OBVIOUS
<1>2. /\ n \in Seq(Chars) /\ Len(n) = i /\ \A k \in 1..i : n[k] = a[k]
  BY <1>1
<1>3. ASSUME NEW k \in 1..i PROVE a[k] # ":" /\ a[k] # "["
  <2>1. k \in DOMAIN n /\ n[k] = a[k]
    BY <1>2
  <2> QED BY <2>1 DEF At
<1>4. CASE i = Len(a)
  <2>1. n = a
    BY <1>1, <1>4
  <2>2. At(a, ":") = {} /\ At(a, "[") = {}
    BY <2>1
  <2>3. a # <<>> => 1 \in DOMAIN a
    OBVIOUS
  <2>4. ~(a # <<>> /\ a[1] = "[")
    BY <2>2, <2>3 DEF At
  <2> QED BY <2>1, <2>2, <2>4 DEF UriHost, ConnectTarget
<1>5. CASE i # Len(a)
  <2> DEFINE port == After(a, i)
  <2>1. /\ port \in Seq(Chars) /\ Len(port) = Len(a) - i
        /\ \A k \in 1..(Len(a) - i) : port[k] = a[i + k]
    BY <1>1, WhatFollows
  <2>2. port # <<>> /\ port[1] = ":" /\ At(Tail(port), ":") = {}
    <3>1. port # <<>>
      BY <1>1, <1>5, <2>1
    <3> QED BY <3>1
  <2> HIDE DEF port
  <2>3. i + 1 \in 1..Len(a) /\ a[i + 1] = ":"
    BY <1>1, <1>5, <2>1, <2>2
  <2>4. ASSUME NEW k \in (i + 2)..Len(a) PROVE a[k] # ":"
    <3>1. k - i \in 1..(Len(a) - i) /\ i + (k - i) = k /\ (k - i) - 1 \in 1..(Len(port) - 1)
      BY <1>1, <2>1
    <3>2. /\ Tail(port) \in Seq(Chars) /\ Len(Tail(port)) = Len(port) - 1
          /\ Tail(port)[(k - i) - 1] = port[k - i]
      BY <2>1, <2>2, <3>1
    <3>3. (k - i) - 1 \in DOMAIN Tail(port)
      BY <3>1, <3>2
    <3>4. Tail(port)[(k - i) - 1] # ":"
      BY <2>2, <3>3 DEF At
    <3> QED BY <2>1, <3>1, <3>2, <3>4
  <2>5. (i + 1) - 1 = i /\ (i + 1) + 1 = i + 2
    BY <1>1
  <2>6. At(a, ":") # {} /\ Min(At(a, ":")) = i + 1
    BY <1>3, <2>3, <2>5, FirstAt
  <2>7. Max(At(a, ":")) = i + 1
    BY <2>3, <2>4, <2>5, LastAt
  <2>8. ~(a # <<>> /\ a[1] = "[")
    <3>1. CASE i = 0
      BY <2>3, <3>1
    <3>2. CASE i # 0
      BY <1>1, <1>3, <3>2
    <3> QED BY <3>1, <3>2
  <2>9. Before(a, i + 1) = n
    BY <2>5 DEF Before
  <2> QED BY <2>6, <2>7, <2>8, <2>9 DEF UriHost, ConnectTarget, Target
<1> QED BY <1>4, <1>5

\* Where a name in brackets stands before a port or the end, the brackets and
\* what is in them are the host of the authority and of the target.
LEMMA BracketedHost ==
    ASSUME NEW Chars, NEW a \in Seq(Chars), a # NoHost, NEW i \in 0..Len(a),
           NEW n \in Seq(Chars), Bracketed(SubSeq(a, 1, i), n), At(n, "]") = {}
    PROVE  /\ UriHost(a) = SubSeq(a, 1, i)
           /\ ConnectTarget(a) # NoHost => ConnectTarget(a).host = SubSeq(a, 1, i)
<1> DEFINE h == SubSeq(a, 1, i)
<1>1. i \in Nat /\ Len(a) \in Nat /\ i <= Len(a) /\ Len(n) \in Nat
  OBVIOUS
<1>2. /\ h \in Seq(Chars) /\ Len(h) = i /\ \A k \in 1..i : h[k] = a[k]
  BY <1>1
<1>3. Bracketed(h, n)
  OBVIOUS
<1> HIDE DEF h
<1>4. /\ Len(h) = Len(n) + 2 /\ h[1] = "[" /\ h[Len(n) + 2] = "]"
      /\ \A k \in 1..Len(n) : h[k + 1] = n[k]
  BY <1>3 DEF Bracketed
<1>5. /\ i = Len(n) + 2 /\ i \in 1..Len(a)
      /\ h[1] = "[" /\ h[i] = "]" /\ \A k \in 1..Len(n) : h[k + 1] = n[k]
  BY <1>1, <1>2, <1>4
<1>6. a[1] = "[" /\ a[i] = "]" /\ Len(a) # 0
  BY <1>1, <1>5, <1>2
<1>7. ASSUME NEW k \in 1..(i - 1) PROVE a[k] # "]"
  <2>1. CASE k = 1
    BY <1>6, <2>1
  <2>2. CASE k # 1
    <3>1. k - 1 \in 1..Len(n) /\ (k - 1) + 1 = k /\ k \in 1..i
      BY <1>1, <1>5, <2>2
    <3>2. a[k] = n[k - 1]
      BY <1>5, <1>2, <3>1
    <3>3. k - 1 \in DOMAIN n
      BY <3>1
    <3>4. n[k - 1] # "]"
      BY <3>3 DEF At
    <3> QED BY <3>2, <3>4
  <2> QED BY <2>1, <2>2
<1>8. At(a, "]") # {} /\ Min(At(a, "]")) = i
  BY <1>5, <1>6, <1>7, FirstAt
<1>9. a # <<>>
  BY <1>6, EmptySeq
<1> QED BY <1>6, <1>8, <1>9 DEF h, UriHost, ConnectTarget, Target

\* A sequence in brackets.
LEMMA InBrackets ==
    ASSUME NEW Chars, "[" \in Chars, "]" \in Chars, NEW n \in Seq(Chars)
    PROVE  /\ <<"[">> \o n \o <<"]">> \in Seq(Chars)
           /\ Bracketed(<<"[">> \o n \o <<"]">>, n)
<1> DEFINE s == <<"[">> \o n
           e == <<"]">>
<1>1. /\ s \in Seq(Chars) /\ Len(s) = Len(n) + 1 /\ s[1] = "["
      /\ \A k \in 1..Len(n) : s[k + 1] = n[k]
  BY WithFirst
<1>2. e \in Seq(Chars) /\ Len(e) = 1 /\ e[1] = "]"
  OBVIOUS
<1> HIDE DEF s, e
<1>3. /\ s \o e \in Seq(Chars) /\ Len(s \o e) = Len(s) + Len(e)
      /\ \A i \in 1..(Len(s) + Len(e)) :
            (s \o e)[i] = IF i <= Len(s) THEN s[i] ELSE e[i - Len(s)]
  BY <1>1, <1>2, ConcatProperties
<1>4. Len(n) \in Nat
  OBVIOUS
<1> DEFINE c == s \o e
<1> HIDE DEF c
<1>5. c[1] = "["
  BY <1>1, <1>2, <1>3, <1>4 DEF c
<1>6. c[Len(n) + 2] = "]"
  <2>1. /\ Len(n) + 2 \in 1..(Len(s) + Len(e)) /\ ~(Len(n) + 2 <= Len(s))
        /\ (Len(n) + 2) - Len(s) = 1
    BY <1>1, <1>2, <1>4
  <2> QED BY <1>2, <1>3, <2>1 DEF c
<1>7. ASSUME NEW k \in 1..Len(n) PROVE c[k + 1] = n[k]
  <2>1. k + 1 \in 1..(Len(s) + Len(e)) /\ k + 1 <= Len(s)
    BY <1>1, <1>2, <1>4
  <2> QED BY <1>1, <1>3, <2>1 DEF c
<1>8. c \in Seq(Chars) /\ Len(c) = Len(n) + 2
  BY <1>1, <1>2, <1>3, <1>4 DEF c
<1>9. Bracketed(c, n)
  BY <1>5, <1>6, <1>7, <1>8 DEF Bracketed
<1> QED BY <1>8, <1>9 DEF c, s, e

\* A name, or the name in brackets.
Written(host, n) == host \in {n, <<"[">> \o n \o <<"]">>}

\* What the host filter compares is the name in the authority, whatever port or
\* brackets stand around it; what CONNECT dials is that name, too.
THEOREM NameIsChecked ==
    ASSUME NEW Chars, "[" \in Chars, "]" \in Chars,
           NEW a \in Seq(Chars), a # NoHost, NEW n \in Seq(Chars), Names(a, n)
    PROVE  /\ UriHost(a) \in Seq(Chars)
           /\ StripHostPort(UriHost(a)) = n
           /\ ConnectTarget(a) # NoHost => Written(ConnectTarget(a).host, n)
<1>1. PICK i \in 0..Len(a) :
        /\ After(a, i) # <<>> =>
              After(a, i)[1] = ":" /\ At(Tail(After(a, i)), ":") = {}
        /\ \/ SubSeq(a, 1, i) = n /\ At(n, ":") = {} /\ At(n, "[") = {}
           \/ SubSeq(a, 1, i) = <<"[">> \o n \o <<"]">> /\ At(n, "]") = {}
  BY DEF Names
<1>2. CASE SubSeq(a, 1, i) = n /\ At(n, ":") = {} /\ At(n, "[") = {}
  <2>1. /\ UriHost(a) = n
        /\ ConnectTarget(a) # NoHost => ConnectTarget(a).host = n
    BY <1>1, <1>2, PlainHost
  <2> QED BY <1>2, <2>1, StripPlain DEF Written
<1>3. CASE SubSeq(a, 1, i) = <<"[">> \o n \o <<"]">> /\ At(n, "]") = {}
  <2> DEFINE h == SubSeq(a, 1, i)
  <2>1. h \in Seq(Chars) /\ Bracketed(h, n)
    BY <1>3, InBrackets
  <2>2. /\ UriHost(a) = h
        /\ ConnectTarget(a) # NoHost => ConnectTarget(a).host = h
    BY <1>3, <2>1, BracketedHost
  <2>3. StripHostPort(h) = n
    BY <1>3, <2>1, StripBracketed
  <2> QED BY <1>3, <2>1, <2>2, <2>3 DEF Written
<1> QED BY <1>1, <1>2, <1>3

=============================================================================
