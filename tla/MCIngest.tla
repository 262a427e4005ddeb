------------------------------ MODULE MCIngest ------------------------------
(* Instances of Ingest for TLC. *)
EXTENDS Ingest, TLC
CONSTANTS f1, f2, f3, n1, n2, c1, c2, c3, c4, daemon, cli

TwoFiles == {f1, f2}
ThreeFiles == {f1, f2, f3}
AnyName(f) == Bases
TwoOfOneName(f) == {IF f = f3 THEN n2 ELSE n1}

\* docIdFromHash without and with a collision of the 32-bit prefix.
IdDistinct(b) == b

\* With AnyName, IdDistinct and nothing Rejected or Unreadable.
Symmetry == Permutations(TwoFiles) \cup Permutations({n1, n2}) \cup Permutations({c1, c2})

Anywhere == Busy \cup {"idle"}
NotHalfway == Anywhere \ {"commit", "sidecar"}
Handled == {"move", "hash", "normalize", "body", "insert", "rename"}
Calls == Handled \cup {"dedup", "begin", "commit", "route", "sidecar"}
Nowhere == {}
=============================================================================
