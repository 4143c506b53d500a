------------------------------ MODULE MCUsage ------------------------------
(***************************************************************************)
(* Small instances of UsageAudit for TLC: an empty table and a busy        *)
(* gateway, or a filled one, a report and one request.                     *)
(***************************************************************************)
EXTENDS UsageAudit

CONSTANTS o1, o2

ok1 == [model |-> 1, ok |-> TRUE, dur |-> 1]
ok2 == [model |-> 2, ok |-> TRUE, dur |-> 2]
bad == [model |-> 2, ok |-> FALSE, dur |-> 1]
MCTables ==
  {{[id |-> i, ts |-> IF i = 1 THEN 2 ELSE 3, owner |-> IF i = 2 THEN o2 ELSE o1,
     model |-> f[i].model, ok |-> f[i].ok, dur |-> f[i].dur] : i \in 1 .. 3} :
   f \in {<<ok1, ok2, bad>>, <<ok2, ok1, ok1>>}}
MCStarts ==
  {[rows |-> {}, budget |-> [days |-> 0, calls |-> <<{ok1}, {ok1}, {ok1}>>, reports |-> 0]]} \cup
  {[rows |-> t, budget |-> [days |-> 1, calls |-> <<{ok2, bad}>>, reports |-> 1]] : t \in MCTables}
MCRanges == {<<0, 9>>, <<3, 3>>}
Symmetry == Permutations(Requests)
=============================================================================
