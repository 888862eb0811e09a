----------------------------- MODULE CommandLine -----------------------------
(***************************************************************************)
(* How the three programs read their options: the loops of parse_options   *)
(* in hpblr_record and hpblr_bench, of parse_common and export_events in   *)
(* hpblr_tool.  A grammar g is a record that has the options of each kind. *)
(* The program that owns main composes these actions.                      *)
(***************************************************************************)
EXTENDS Event, SequencesExt

CONSTANTS MaxU16, MaxU32  \* the largest std::uint16_t and std::uint32_t

ASSUME WidthAssumption == MaxU16 \in Nat /\ MaxU32 \in Nat

VARIABLES args,  \* the arguments not read yet
          given  \* option -> its value

Valued(g) == g.text \cup g.u64 \cup g.positive \cup g.u32 \cup g.u16 \cup g.severity

\* Mutated form: a number that is too large is cut to the width of the option.
ValuesCut(g, option, word) ==
  {word : o \in {option} \cap g.text}
    \cup {n \in Number(word) : \/ option \in g.u64
                               \/ option \in g.positive /\ n > 0}
    \cup {n % (MaxU32 + 1) : n \in {m \in Number(word) : option \in g.u32}}
    \cup {n % (MaxU16 + 1) : n \in {m \in Number(word) : option \in g.u16}}
    \cup {s \in SeverityFromString(word) : option \in g.severity}

\* What a word means as the value of an option; nothing if it is refused.
Values(g, option, word) ==
  {word : o \in {option} \cap g.text}
    \cup {n \in Number(word) : \/ option \in g.u64
                               \/ option \in g.positive /\ n > 0
                               \/ option \in g.u32 /\ n <= MaxU32
                               \/ option \in g.u16 /\ n <= MaxU16}
    \cup {s \in SeverityFromString(word) : option \in g.severity}

\* An option and the word behind it, whatever that word looks like.
ReadValue(g) ==
  /\ Len(args) >= 2 /\ args[1] \in Valued(g)
  /\ \E value \in Values(g, args[1], args[2]) :
       given' = [given EXCEPT ![args[1]] = value]
  /\ args' = SubSeq(args, 3, Len(args))

ReadFlag(g) ==
  /\ args # <<>> /\ args[1] \in g.flag
  /\ given' = [given EXCEPT ![args[1]] = TRUE]
  /\ args' = Tail(args)

ReadOption(g) == ReadValue(g) \/ ReadFlag(g)

Help(g) == args # <<>> /\ args[1] \in g.help

\* Unknown option, missing value or invalid value: an exception.
Refused(g) ==
  /\ args # <<>> /\ ~Help(g) /\ args[1] \notin g.flag
  /\ args[1] \in Valued(g) /\ Len(args) >= 2
       => Values(g, args[1], args[2]) = {}

-----------------------------------------------------------------------------
(* What a line asks for, read as a whole, for the properties *)

\* Is there an option at place i?  The first word is one, and so is the word
\* behind a flag, or behind an option and its value.
IsOption(g, line) ==
  LET at[i \in DOMAIN line] ==
        \/ i = 1
        \/ i > 1 /\ at[i - 1] /\ line[i - 1] \in g.flag
        \/ i > 2 /\ at[i - 2] /\ line[i - 2] \notin g.flag
  IN  at

\* The words given as the value of an option, the last one if there are more.
Asked(g, line, option) ==
  LET uses == {i \in DOMAIN line : line[i] = option /\ IsOption(g, line)[i]}
  IN  {line[i + 1] : i \in {j \in uses : \A k \in uses : k <= j}}

\* The number asked for, if any.
AskedNumber(g, line, option) == UNION {Number(w) : w \in Asked(g, line, option)}
=============================================================================
