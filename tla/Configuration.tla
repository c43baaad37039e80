----------------------------- MODULE Configuration -----------------------------
(***************************************************************************)
(* How Squiddish reads its settings from the environment (config.rs).      *)
(*                                                                         *)
(* Data: the text of a number is its value num/den, in lower case and      *)
(* trimmed, with the unit that follows it ("none" for none), or Unparsable *)
(* for anything that is not a number.  The numbers of the code have 64     *)
(* bits; here MaxWord is the largest.  The number before the unit of a     *)
(* size is the f64 its text is rounded to; the units are powers of two, so *)
(* that its product with one is exact.                                     *)
(***************************************************************************)
EXTENDS Integers, Sequences, SequencesExt

CONSTANTS
    None,           \* a variable that is not set
    Unparsable,     \* a text that does not parse, a configuration refused
    MaxWord,        \* u64::MAX
    SizeUnits,      \* "b", "kb", "mb", "gb", "tb" -> bytes
    DurationUnits   \* "s", "m", "h", "d" -> seconds

\* The text of a number.
Text == [num : Nat, den : Nat \ {0}, unit : STRING]

Positive(f) == \A u \in DOMAIN f : f[u] \in Nat \ {0}

ASSUME ConfigurationAssumption ==
    /\ MaxWord \in Nat /\ MaxWord >= 1000
    /\ DOMAIN SizeUnits = {"b", "kb", "mb", "gb", "tb"}
    /\ DOMAIN DurationUnits = {"s", "m", "h", "d"}
    /\ Positive(SizeUnits) /\ Positive(DurationUnits)
    /\ 100 * SizeUnits["gb"] <= MaxWord /\ 30 * DurationUnits["d"] <= MaxWord
    /\ None # Unparsable /\ {None, Unparsable} \cap (Nat \cup Text) = {}

Number(num, den, unit) == [num |-> num, den |-> den, unit |-> unit]

\* A number without a unit, which must be a whole one of one word.
IsWord(t) == t.den = 1 /\ t.num <= MaxWord

ParseCount(t) ==
    IF t # Unparsable /\ t.unit = "none" /\ IsWord(t) THEN t.num
    ELSE Unparsable

\* Mutant: a size that does not fit wraps around like a duration.
ParseSizeWraps(t) ==
    IF t = Unparsable \/ t.unit = "none" THEN ParseCount(t)
    ELSE IF t.unit \notin DOMAIN SizeUnits THEN Unparsable
    ELSE ((t.num * SizeUnits[t.unit]) \div t.den) % (MaxWord + 1)

\* parse_size: the cast from f64 truncates, and saturates at the largest word.
ParseSize(t) ==
    IF t = Unparsable \/ t.unit = "none" THEN ParseCount(t)
    ELSE IF t.unit \notin DOMAIN SizeUnits THEN Unparsable
    ELSE Min({MaxWord, (t.num * SizeUnits[t.unit]) \div t.den})

\* parse_duration: the multiplication wraps, as release builds do.
ParseDuration(t) ==
    IF t = Unparsable \/ t.unit = "none" THEN ParseCount(t)
    ELSE IF t.unit \notin DOMAIN DurationUnits \/ ~IsWord(t) THEN Unparsable
    ELSE (t.num * DurationUnits[t.unit]) % (MaxWord + 1)

-----------------------------------------------------------------------------
(* The variables SQUIDDISH_*.                                              *)

SizeVars == {"MEMORY_SIZE", "DISK_SIZE", "MAX_BODY_SIZE"}
DurationVars ==
    {"TTL", "APT_LIST_TTL", "APT_PACKAGE_TTL", "APT_OTHER_TTL", "TIMEOUT"}
CountVars == {"MAX_CONNECTIONS"}
HostVars == {"ALLOWED_HOSTS", "BLOCKED_HOSTS"}
\* Texts that parse to themselves or not at all; CACHE_DIR always does.
OtherVars == {"BIND_ADDR", "CACHE_DIR", "APT_ENABLED", "STRICT_HTTPS"}
Vars == SizeVars \cup DurationVars \cup CountVars \cup HostVars \cup OtherVars

Default ==
    [MEMORY_SIZE     |-> SizeUnits["gb"],
     DISK_SIZE       |-> 100 * SizeUnits["gb"],
     MAX_BODY_SIZE   |-> 10 * SizeUnits["gb"],
     TTL             |-> 7 * DurationUnits["d"],
     APT_LIST_TTL    |-> DurationUnits["h"],
     APT_PACKAGE_TTL |-> 30 * DurationUnits["d"],
     APT_OTHER_TTL   |-> DurationUnits["d"],
     TIMEOUT         |-> 300,
     MAX_CONNECTIONS |-> 1000,
     ALLOWED_HOSTS   |-> {},
     BLOCKED_HOSTS   |-> {},
     BIND_ADDR       |-> "127.0.0.1:3128",
     CACHE_DIR       |-> "./cache",
     APT_ENABLED     |-> TRUE,
     STRICT_HTTPS    |-> TRUE]

Parse(v, text) ==
    CASE v \in SizeVars     -> ParseSize(text)
      [] v \in DurationVars -> ParseDuration(text)
      [] v \in CountVars    -> ParseCount(text)
      [] v \in HostVars     -> {h \in ToSet(text) : h # <<>>}
      [] v \in OtherVars    -> text

\* The settings that must not be zero.
Critical == SizeVars \cup CountVars \cup {"TIMEOUT"}

Settings(env) ==
    [v \in Vars |-> IF env[v] = None THEN Default[v] ELSE Parse(v, env[v])]

\* Mutant: the check for zeroes is made before the variables are read.
FromVarsUnchecked(env) ==
    IF \E v \in Vars : Settings(env)[v] = Unparsable THEN Unparsable
    ELSE Settings(env)

\* Config::from_vars: the settings, or Unparsable when it returns an error.
FromVars(env) ==
    IF \/ \E v \in Vars : Settings(env)[v] = Unparsable
       \/ \E v \in Critical : Settings(env)[v] = 0
    THEN Unparsable
    ELSE Settings(env)

=============================================================================
