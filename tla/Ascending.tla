---- MODULE Ascending ----
(***************************************************************************)
(* Numbers in ascending order: the order in which a list is walked or      *)
(* filtered by position, and the sort of the tool calls by index.          *)
(***************************************************************************)
EXTENDS Naturals, FiniteSets

Increases(s) == \A j, k \in DOMAIN s : j < k => s[j] < s[k]

Members(s) == {s[j] : j \in DOMAIN s}

\* The sequence of the numbers of a finite set, each once, the least first.
InOrder(S) == CHOOSE s \in [1 .. Cardinality(S) -> S] : Increases(s) /\ Members(s) = S
====
