------------------------------ MODULE MCEnrich ------------------------------
(* Instances of Enrich for TLC. *)
EXTENDS Enrich, TLC
CONSTANTS daemon, cli

Out(dom, domp, tags, tagsp) ==
  [domain |-> dom, domain_proposed |-> domp, tags |-> tags, tags_proposed |-> tagsp]

SeedTerms == {<<"domain", "d1">>, <<"tag", "a">>, <<"tag", "b">>, <<"tag", "c">>}

Plain == Out("d1", None, {"a", "b", "c"}, {})
NewTag == Out("d1", None, {"a", "b", "x"}, {"x"})     \* overlaps with Plain
Novel == Out("d1", "d2", {"x", "y", "z"}, {"x", "y", "z"})
Odd == Out("d9", "d2", {"a", "b", "c"}, {})           \* unknown, another one proposed

Two == {Plain, NewTag}
Apart == {Plain, Novel}
OddToo == {Novel, Odd}

AnyOutput(d) == Outputs
NewTagFirst(d) == IF d = 1 THEN {NewTag} ELSE Outputs
PlainOutput(d) == {Plain}
NoFailure(d) == {}

\* Document 2 is one that Ollama never manages; document 1 names it as related.
NotTheSecond(d) == IF d = 2 THEN {} ELSE IF d = 1 THEN {Plain} ELSE {Novel}
SecondFails(d) == IF d = 2 THEN Failure ELSE {}
NoRelated(d) == {}
SecondOfFirst(d) == IF d = 1 THEN {2} ELSE {}
\* It manages the last one only.
OnlyTheLast(d) == IF d = MaxDocs THEN {Plain} ELSE {}
LastIsFine(d) == IF d = MaxDocs THEN {} ELSE {"unavailable"}

AllSimilar == Docs \X Docs
NoSimilar == {}
Anywhere == Points \ {"down"}
NotCommitted == Anywhere \ {"rename"}
Nowhere == {}
NoCalls == {}
AroundCommit == {"read", "txn", "rename"}
LoadAndCommit == {"load"} \cup AroundCommit
Vectors == {"vectors"}
Reads == {"read"}
=============================================================================
