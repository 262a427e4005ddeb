------------------------------- MODULE Ledger -------------------------------
(***************************************************************************)
(* What the engagement log promises (corpus-find-tool.ts,                  *)
(* acceptance-event-writer.ts): requests that were answered, with or       *)
(* without results, and the ones the operator accepted; only an answer     *)
(* that had results can be accepted, and nothing is taken back.            *)
(***************************************************************************)
CONSTANTS Requests
VARIABLES found, empty, accepted

Init == found = {} /\ empty = {} /\ accepted = {}

Answer(r) ==
  /\ r \notin found \cup empty
  /\ \/ found' = found \cup {r} /\ UNCHANGED empty
     \/ empty' = empty \cup {r} /\ UNCHANGED found
  /\ UNCHANGED accepted

Accept(r) ==
  /\ r \in found
  /\ accepted' = accepted \cup {r}
  /\ UNCHANGED <<found, empty>>

Next == \E r \in Requests : Answer(r) \/ Accept(r)
Spec == Init /\ [][Next]_<<found, empty, accepted>>
=============================================================================
