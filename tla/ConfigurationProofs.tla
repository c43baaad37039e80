-------------------------- MODULE ConfigurationProofs --------------------------
(***************************************************************************)
(* What the numbers of a configuration are, for words of any width and any *)
(* units.                                                                  *)
(***************************************************************************)
EXTENDS Configuration, DataLemmas, TLAPS

\* A product of numbers is a number.
LEMMA Factor ==
    ASSUME NEW a \in Nat, NEW b \in Nat
    PROVE  a * b \in Nat
OBVIOUS

\* A remainder is below the modulus; a number below it is its own.
LEMMA Remainder ==
    ASSUME NEW a \in Nat, NEW m \in Nat \ {0}
    PROVE  a % m \in 0..(m - 1) /\ (a < m => a % m = a)
OBVIOUS

\* A count is a word without a unit.
LEMMA CountIsWord ==
    ASSUME NEW t \in Text \cup {Unparsable}, ParseCount(t) # Unparsable
    PROVE  /\ t \in Text /\ t.unit = "none" /\ ParseCount(t) = t.num
           /\ t.num \in 0..MaxWord
BY ConfigurationAssumption DEF ParseCount, Text, IsWord

\* A size is the number times its unit, truncated, or the largest word.
LEMMA SizeSaturates ==
    ASSUME NEW t \in Text, t.unit \in DOMAIN SizeUnits
    PROVE  /\ ParseSize(t) \in Nat /\ ParseSize(t) <= MaxWord
           /\ LET bytes == (t.num * SizeUnits[t.unit]) \div t.den IN
              ParseSize(t) = IF bytes <= MaxWord THEN bytes ELSE MaxWord
<1> DEFINE unit == SizeUnits[t.unit]
           bytes == (t.num * unit) \div t.den
<1>1. t.num \in Nat /\ t.den \in Nat \ {0} /\ unit \in Nat
  BY ConfigurationAssumption DEF Text, Positive
<1>2. t.num * unit \in Nat
  BY <1>1, Factor
<1>3. bytes \in Nat
  <2>1. ASSUME NEW a \in Nat, NEW b \in Nat \ {0} PROVE a \div b \in Nat
    OBVIOUS
  <2> QED BY <1>1, <1>2, <2>1
<1>4. MaxWord \in Nat
  BY ConfigurationAssumption
<1>5. ParseSize(t) = Min({MaxWord, bytes})
  <2>1. t # Unparsable /\ t.unit # "none"
    BY ConfigurationAssumption
  <2> QED BY <2>1 DEF ParseSize
<1> HIDE DEF bytes
<1>6. /\ Min({MaxWord, bytes}) \in {MaxWord, bytes}
      /\ \A y \in {MaxWord, bytes} : Min({MaxWord, bytes}) <= y
  BY <1>3, <1>4, MinIsLeast
<1> QED BY <1>3, <1>4, <1>5, <1>6 DEF bytes

\* A duration is the number written times its unit, if a word holds that.
THEOREM DurationIsExact ==
    ASSUME NEW t \in Text, t.unit \in DOMAIN DurationUnits, IsWord(t)
    PROVE  /\ ParseDuration(t) \in 0..MaxWord
           /\ LET seconds == t.num * DurationUnits[t.unit] IN
              seconds <= MaxWord => ParseDuration(t) = seconds
<1> DEFINE seconds == t.num * DurationUnits[t.unit]
<1>1. seconds \in Nat
  BY Factor, ConfigurationAssumption DEF Text, Positive
<1>2. MaxWord + 1 \in Nat \ {0} /\ (MaxWord + 1) - 1 = MaxWord
  BY ConfigurationAssumption
<1>3. ParseDuration(t) = seconds % (MaxWord + 1)
  <2>1. t # Unparsable /\ t.unit # "none"
    BY ConfigurationAssumption
  <2> QED BY <2>1 DEF ParseDuration
<1> HIDE DEF seconds
<1>4. /\ seconds % (MaxWord + 1) \in 0..MaxWord
      /\ seconds < MaxWord + 1 => seconds % (MaxWord + 1) = seconds
  BY <1>1, <1>2, Remainder
<1>5. seconds <= MaxWord => seconds < MaxWord + 1
  BY <1>1, ConfigurationAssumption
<1> QED BY <1>3, <1>4, <1>5 DEF seconds

\* The variables that hold numbers.
NumberVars == SizeVars \cup DurationVars \cup CountVars

\* The parser of a variable.
LEMMA ParserOf ==
    ASSUME NEW v \in NumberVars, NEW t
    PROVE  Parse(v, t) = IF v \in SizeVars THEN ParseSize(t)
                         ELSE IF v \in DurationVars THEN ParseDuration(t)
                         ELSE ParseCount(t)
<1>1. /\ v \in SizeVars \/ v \in DurationVars \/ v \in CountVars
      /\ v \notin HostVars /\ v \notin OtherVars
      /\ ~(v \in SizeVars /\ v \in DurationVars)
      /\ ~(v \in SizeVars /\ v \in CountVars)
      /\ ~(v \in DurationVars /\ v \in CountVars)
  BY DEF NumberVars, SizeVars, DurationVars, CountVars, HostVars, OtherVars
<1> DEFINE size == ParseSize(t)
           duration == ParseDuration(t)
           count == ParseCount(t)
           hosts == {h \in ToSet(t) : h # <<>>}
<1>2. Parse(v, t) = CASE v \in SizeVars -> size
                      [] v \in DurationVars -> duration
                      [] v \in CountVars -> count
                      [] v \in HostVars -> hosts
                      [] v \in OtherVars -> t
  BY DEF Parse
<1> HIDE DEF size, duration, count, hosts
<1>3. Parse(v, t) = IF v \in SizeVars THEN size
                    ELSE IF v \in DurationVars THEN duration ELSE count
  BY <1>1, <1>2
<1> QED BY <1>3 DEF size, duration, count

\* Every number of a configuration that is accepted is one, and it has the
\* value that was written, if a word holds that.
LEMMA NumbersMean ==
    ASSUME NEW v \in NumberVars, NEW t \in Text \cup {Unparsable},
           Parse(v, t) # Unparsable
    PROVE  /\ t \in Text /\ Parse(v, t) \in Nat
           /\ t.unit = "none" => Parse(v, t) = t.num /\ t.num <= MaxWord
           /\ t.unit # "none" /\ v \in SizeVars =>
                 t.unit \in DOMAIN SizeUnits /\ Parse(v, t) = ParseSize(t)
           /\ t.unit # "none" /\ v \notin SizeVars =>
                 /\ v \in DurationVars /\ t.unit \in DOMAIN DurationUnits
                 /\ IsWord(t) /\ Parse(v, t) = ParseDuration(t)
<1>1. t # Unparsable
  BY ParserOf DEF ParseSize, ParseDuration, ParseCount
<1>2. t \in Text /\ t.num \in Nat
  BY <1>1 DEF Text
<1>3. CASE t.unit = "none"
  <2>1. Parse(v, t) = ParseCount(t)
    BY <1>1, <1>3, ParserOf DEF ParseSize, ParseDuration
  <2> QED BY <1>2, <1>3, <2>1, CountIsWord, ConfigurationAssumption
<1>4. CASE t.unit # "none" /\ v \in SizeVars
  <2>1. Parse(v, t) = ParseSize(t) /\ t.unit \in DOMAIN SizeUnits
    BY <1>1, <1>4, ParserOf DEF ParseSize
  <2> QED BY <1>2, <1>4, <2>1, SizeSaturates
<1>5. CASE t.unit # "none" /\ v \notin SizeVars
  <2>1. v \in DurationVars
    BY <1>5, ParserOf DEF ParseCount
  <2>2. Parse(v, t) = ParseDuration(t) /\ t.unit \in DOMAIN DurationUnits /\ IsWord(t)
    BY <1>1, <1>5, <2>1, ParserOf DEF ParseDuration
  <2>3. ParseDuration(t) \in 0..MaxWord
    BY <1>2, <2>2, DurationIsExact
  <2> QED BY <1>2, <1>5, <2>1, <2>2, <2>3, ConfigurationAssumption
<1> QED BY <1>3, <1>4, <1>5

\* So has every default.
LEMMA DefaultNumbers ==
    ASSUME NEW v \in NumberVars
    PROVE  Default[v] \in Nat
<1>1. /\ SizeUnits["gb"] \in Nat /\ DurationUnits["d"] \in Nat
      /\ DurationUnits["h"] \in Nat
  BY ConfigurationAssumption DEF Positive
<1>2. CASE v \in SizeVars
  BY <1>1, <1>2 DEF Default, SizeVars
<1>3. CASE v \in DurationVars
  BY <1>1, <1>3 DEF Default, DurationVars
<1>4. CASE v \in CountVars
  BY <1>4 DEF Default, CountVars
<1> QED BY <1>2, <1>3, <1>4 DEF NumberVars

=============================================================================
