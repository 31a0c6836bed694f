---------------------------- MODULE TokenCounters ----------------------------
(* The token counters of a response (usage.rs, observe.rs): what a usage      *)
(* object amounts to and which of several is kept.  A usage is a function     *)
(* from the counters that were reported to their values.                      *)
EXTENDS Naturals, FiniteSets

CONSTANTS
    None,         \* the absent value of an Option
    CounterLimit  \* number of values of a counter, 2^64 in the program

ASSUME CounterAssumption == CounterLimit \in Nat \ {0}

Counters == {"prompt", "completion", "total", "reasoning", "cached"}

(* The sum of two counters, which wraps in a release build.                   *)
CounterSum(a, b) == (a + b) % CounterLimit

(* A total the upstream left out is the sum of its parts.                     *)
TokenUsage(report) ==
    IF "total" \notin DOMAIN report /\ {"prompt", "completion"} \subseteq DOMAIN report
    THEN [c \in DOMAIN report \cup {"total"} |->
             IF c = "total" THEN CounterSum(report["prompt"], report["completion"])
             ELSE report[c]]
    ELSE report

Completeness(usage) == Cardinality(DOMAIN usage)

(* Slip: the earlier one of two equally complete is kept.                     *)
MergeUsageEarlier(current, seen) ==
    IF seen = None THEN current
    ELSE IF current = None \/ Completeness(current) < Completeness(seen) THEN seen
    ELSE current

(* The most complete usage is kept, the later one of two equally complete.    *)
MergeUsage(current, seen) ==
    IF seen = None THEN current
    ELSE IF current = None \/ Completeness(current) <= Completeness(seen) THEN seen
    ELSE current

(* The reference: of these reports, None standing for a payload without one,  *)
(* the usage is the most complete, and the latest of these.                   *)
MostComplete(usage, reports) ==
    LET full(i) == Completeness(TokenUsage(reports[i]))
        some == {i \in DOMAIN reports : reports[i] # None}
    IN IF some = {} THEN usage = None
       ELSE \E i \in some :
               /\ usage = TokenUsage(reports[i])
               /\ \A j \in some : full(j) <= full(i) /\ (j > i => full(j) < full(i))
=============================================================================
