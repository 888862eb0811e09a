-------------------------------- MODULE Event --------------------------------
(***************************************************************************)
(* The conversions of the event model (src/core/event.cpp) and of numbers  *)
(* on a command line.  A word is what a user types; an optional value is a *)
(* set with at most one element.                                           *)
(***************************************************************************)
EXTENDS Naturals

CONSTANTS NumberOf  \* the words std::from_chars reads to their end -> number

Number(word) == {NumberOf[w] : w \in {word} \cap DOMAIN NumberOf}

\* enum class Severity, from trace to critical
Severities == 0 .. 5

Names == [trace |-> 0, debug |-> 1, info |-> 2, warning |-> 3, error |-> 4,
          critical |-> 5]
ShortNames == [warn |-> 3, crit |-> 5]

ASSUME NumberAssumption ==
  /\ \A word \in DOMAIN NumberOf : NumberOf[word] \in Nat
  /\ DOMAIN NumberOf \cap (DOMAIN Names \cup DOMAIN ShortNames) = {}

SeverityFromU16(value) == {value} \cap Severities

\* A name, a short name, or the number of a severity.
SeverityFromString(word) ==
  {Names[w] : w \in {word} \cap DOMAIN Names}
    \cup {ShortNames[w] : w \in {word} \cap DOMAIN ShortNames}
    \cup UNION {SeverityFromU16(n) : n \in Number(word)}
=============================================================================
