--------------------------- MODULE MCIOIGenerator ---------------------------
(* Instances of IOIGenerator for TLC. *)
EXTENDS IOIGenerator

Group(first, last, scoring, worth, required) ==
  [first |-> first, last |-> last, scoring |-> scoring, score |-> worth,
   required |-> required]

\* Every way of scoring, a chain of required groups, and a group beside it.
Chain == <<Group(1, 1, "Complete", 3, {}), Group(2, 2, "Complete", 2, {1}),
           Group(3, 4, "Min", 4, {2}), Group(5, 5, "EachTest", 2, {})>>

ByTest == <<Group(1, 2, "EachTest", 2, {})>>
=============================================================================
