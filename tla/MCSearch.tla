------------------------------ MODULE MCSearch ------------------------------
(* Instances of Search for TLC: two documents are in the index or on the   *)
(* way into it, the third may come at any time.                            *)
EXTENDS Search, TLC
Three == 1 .. 3
TwoTypes == {"concept", "tutorial"}
Hundredths == [f \in TwoTypes |-> IF f = "tutorial" THEN 110 ELSE 100]
Young == {3}
Reciprocals == [n \in 61 .. 63 |-> (61 * 62 * 63) \div n]
SomeLinks == {<<1, 3>>, <<2, 1>>, <<3, 2>>}
Ask(words, literal, filter, limit) ==
  [words |-> words, literal |-> literal, filter |-> filter, limit |-> limit]
All == TwoTypes \cup {"unclassified"}
SomeQueries ==
  {Ask({1, 2}, {1}, TwoTypes, 1), Ask({1, 2, 3}, {2}, All, 2), Ask({1, 3}, {2}, {"concept"}, 3)}
\* A filter that takes unclassified rows and not every facet type.
MixedFilter == {Ask({1, 2}, {1}, {"concept", "unclassified"}, 3)}
NoOutage == {{}}
SomeOutages ==
  {{}, {"dense"}, {"bm25", "only"}, {"graph", "promote", "spawn"}, {"confidence", "resolve"},
   {"bm25", "dense", "only", "catalog", "paths"}, {"fuse", "only", "grep"}}
SomeCorpora ==
  {[row |-> <<"concept", "concept", "unclassified">>, indexed |-> {1}, catalog |-> None],
   [row |-> <<"concept", "tutorial", "absent">>, indexed |-> {1}, catalog |-> <<1, 2>>]}
=============================================================================
