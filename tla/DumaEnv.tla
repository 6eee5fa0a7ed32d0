------------------------------- MODULE DumaEnv -------------------------------
(***************************************************************************)
(* The settings of DUMA and the environment (src/src/duma.c): duma_getenv(),*)
(* DUMA's own getenv(), and duma_getenvvars(), which reads the variables    *)
(* one after the other into the settings.                                   *)
(*                                                                          *)
(* A name, and the text of an entry of the environment, is a sequence of    *)
(* words; "=" is a word of its own.  value is what atoi() makes of the text *)
(* behind the first "=".                                                    *)
(***************************************************************************)
EXTENDS Integers, Sequences, SequencesExt, FiniteSetsExt

CONSTANTS
  Environments,   \* the values of environ: sequences of entries
  MIN_ALIGNMENT   \* DUMA_MIN_ALIGNMENT of the configuration

VARIABLES
  environ,
  next,       \* the number of the variable that is read next
  settings,
  copies      \* the texts that _duma_strdup() has copied

vars == <<environ, next, settings, copies>>

(* The variables in the order in which they are read: name of the setting,  *)
(* name in the environment, default, and what is done with the number.      *)
Entry(setting, name, default, rule) ==
  [setting |-> setting, name |-> name, default |-> default, rule |-> rule]

D(words) == <<"DUMA">> \o words

Variables == <<
  Entry("ALIGNMENT", D(<<"ALIGNMENT">>), MIN_ALIGNMENT, "alignment"),
  Entry("PROTECT_BELOW", D(<<"PROTECT", "BELOW">>), 0, "flag"),
  Entry("REPORT_ALL_LEAKS", D(<<"REPORT", "ALL", "LEAKS">>), 0, "flag"),
  Entry("PROTECT_FREE", D(<<"PROTECT", "FREE">>), -1, "long"),
  Entry("MAX_ALLOC", D(<<"MAX", "ALLOC">>), -1, "long"),
  Entry("MALLOC_0_STRATEGY", <<"MALLOC", "0", "STRATEGY">>, 3, "malloc0"),
  Entry("NEW_0_STRATEGY", <<"NEW", "0", "STRATEGY">>, 3, "new0"),
  Entry("MALLOC_FAILEXIT", D(<<"MALLOC", "FAILEXIT">>), 1, "flag"),
  Entry("FREE_ACCESS", D(<<"FREE", "ACCESS">>), 0, "flag"),
  Entry("FILL", D(<<"FILL">>), 255, "fill"),
  Entry("SLACKFILL", D(<<"SLACKFILL">>), 170, "slackfill"),
  Entry("SHOW_ALLOC", D(<<"SHOW", "ALLOC">>), 0, "flag"),
  Entry("SUPPRESS_ATEXIT", D(<<"SUPPRESS", "ATEXIT">>), 0, "flag"),
  Entry("MEMCPY_OVERLAP", D(<<"MEMCPY", "OVERLAP">>), 0, "flag"),
  Entry("OUTPUT_STACKTRACE", D(<<"OUTPUT", "STACKTRACE">>), 0, "flag"),
  Entry("OUTPUT_STACKTRACE_MAPFILE", D(<<"OUTPUT", "STACKTRACE", "MAPFILE">>),
        0, "copy"),
  Entry("OUTPUT_DEBUG", D(<<"OUTPUT", "DEBUG">>), 0, "flag"),
  Entry("OUTPUT_STDOUT", D(<<"OUTPUT", "STDOUT">>), 0, "flag"),
  Entry("OUTPUT_STDERR", D(<<"OUTPUT", "STDERR">>), 1, "flag"),
  Entry("OUTPUT_FILE", D(<<"OUTPUT", "FILE">>), 0, "copy"),
  Entry("SKIPCOUNT_INIT", D(<<"SKIPCOUNT", "INIT">>), 0, "flag"),
  Entry("CHECK_FREQ", D(<<"CHECK", "FREQ">>), 0, "freq"),
  Entry("DISABLE_BANNER", D(<<"DISABLE", "BANNER">>), 0, "flag") >>

Settings == {Variables[i].setting : i \in 1 .. Len(Variables)}

VariableOf(s) == CHOOSE v \in ToSet(Variables) : v.setting = s

Init ==
  /\ environ \in Environments
  /\ next = 1
  /\ settings = [s \in Settings |-> VariableOf(s).default]
  /\ copies = {}

(* Mutant: the '=' behind the name is not looked for.                       *)
Matches_Prefix(entry, name) ==
  /\ Len(entry.text) > Len(name)
  /\ \A i \in 1 .. Len(name) : entry.text[i] = name[i]

(* The comparison stops at the end of the name, with '=' there in the       *)
(* entry.                                                                   *)
Matches(entry, name) ==
  /\ Len(entry.text) > Len(name)
  /\ \A i \in 1 .. Len(name) : entry.text[i] = name[i]
  /\ entry.text[Len(name) + 1] = "="

(* duma_getenv(): the numbers of the entries that match; the first of them  *)
(* is returned.                                                             *)
Matching(name) == {i \in 1 .. Len(environ) : Matches(environ[i], name)}

(* What is stored for the number n, with old stored before.                 *)
Stored(rule, n, old) ==
  CASE rule = "flag"      -> IF n # 0 THEN 1 ELSE 0
    [] rule = "long"      -> n
    [] rule = "alignment" -> IF n = 0 THEN 1 ELSE n
    [] rule = "malloc0"   -> IF n \in 0 .. 3 THEN n ELSE old
    [] rule = "new0"      -> IF n \in 2 .. 3 THEN n ELSE old
    [] rule = "fill"      -> IF n = -1 THEN n ELSE n % 256
    [] rule = "slackfill" -> n % 256
    [] rule = "freq"      -> IF n > 0 THEN n ELSE old
    [] rule = "copy"      -> 1

(* One variable of duma_getenvvars().                                       *)
ReadVariable ==
  /\ next <= Len(Variables)
  /\ next' = next + 1
  /\ LET v == Variables[next]
         found == Matching(v.name)
         entry == environ[Min(found)]
     IN  IF found = {}
           THEN UNCHANGED <<settings, copies>>
           ELSE /\ settings' = [settings EXCEPT ![v.setting] =
                                  Stored(v.rule, entry.value, @)]
                /\ copies' = IF v.rule = "copy" THEN copies \cup {entry.text}
                             ELSE copies
  /\ UNCHANGED environ

Next == ReadVariable

Spec == Init /\ [][Next]_vars

-----------------------------------------------------------------------------

(* The numbers a user may ask for, and the ones the library can live with.  *)
Legal(rule) ==
  CASE rule \in {"flag", "copy"} -> {0, 1}
    [] rule = "long"      -> Int
    [] rule = "alignment" -> Int \ {0}
    [] rule = "malloc0"   -> 0 .. 3
    [] rule = "new0"      -> 2 .. 3
    [] rule = "fill"      -> -1 .. 255
    [] rule = "slackfill" -> 0 .. 255
    [] rule = "freq"      -> Nat

(* The entry that sets a variable: the first one of exactly its name.       *)
OwnEntries(v) ==
  {i \in 1 .. Len(environ) : \E rest \in 1 .. Len(environ[i].text) :
     SubSeq(environ[i].text, 1, rest) = Append(v.name, "=")}

(* The variable under the name that the documentation gives it: with DUMA_  *)
(* in front, which the code leaves out for the two strategies.              *)
Documented(v) ==
  IF v.rule \in {"malloc0", "new0"} THEN [v EXCEPT !.name = D(@)] ELSE v

(* Each setting is what the first entry of its own name asks for if that is *)
(* legal, and the default if there is none, whatever other entries the      *)
(* environment has: an entry whose name goes on behind a shorter one, one   *)
(* that occurs twice, one without "=".  No setting leaves its range.        *)
(* Nothing is asked where the code differs from the documentation: a count  *)
(* for SKIPCOUNT_INIT that is no flag, and the value of a strategy that one *)
(* of its two names has in the environment.                                 *)
EnvironmentRespected ==
  next > Len(Variables) =>
    \A v \in ToSet(Variables) :
      LET own == OwnEntries(v)
          value == environ[Min(own)].value
      IN  /\ v.setting # "SKIPCOUNT_INIT" => settings[v.setting] \in Legal(v.rule)
          /\ own = {} /\ OwnEntries(Documented(v)) = {}
               => settings[v.setting] = v.default
          /\ own # {} /\ Documented(v) = v /\ v.rule # "copy"
               /\ value \in Legal(v.rule)
               => settings[v.setting] = value
          /\ own # {} /\ v.rule = "copy"
               => settings[v.setting] = 1 /\ environ[Min(own)].text \in copies

(* What the documentation asks for: a number of allocations in              *)
(* SKIPCOUNT_INIT, and the strategies in entries whose names have the       *)
(* prefix of all the others.                                                *)
AsDocumented ==
  next > Len(Variables) =>
    \A v \in ToSet(Variables) :
      LET named == OwnEntries(Documented(v))
          value == environ[Min(named)].value
          legal == IF v.setting = "SKIPCOUNT_INIT" THEN Nat ELSE Legal(v.rule)
      IN  named # {} /\ v.rule # "copy"
            => (value \in legal => settings[v.setting] = value)

=============================================================================
