------------------------------- MODULE Corpus -------------------------------
(***************************************************************************)
(* What the readers of the store (search, the MCP resources, the recovery  *)
(* scan) rely on while the pipeline goes on writing: a document is         *)
(* committed once its body file is in place, classified once, and indexed  *)
(* once it is classified, together with its edges; none of it is undone.   *)
(* The writers implement this; the readers take it for their environment.  *)
(***************************************************************************)
CONSTANTS Docs, Facets,
          None   \* not classified

VARIABLES
  placed,   \* documents whose body file is in place
  known,    \* documents that have a row
  facets,   \* what the row of each says, or None
  indexed,  \* documents with full-text and vector rows
  edges     \* <<src_id, dst_id>>

store == <<placed, known, facets, indexed, edges>>

Classified == {d \in known : facets[d] # None}

Whole ==
  /\ placed \subseteq Docs /\ known \subseteq placed
  /\ facets \in [Docs -> Facets \cup {None}]
  /\ \A d \in Docs : facets[d] # None => d \in known
  /\ indexed \subseteq Classified /\ edges \subseteq indexed \X known

Place(d) ==
  /\ placed' = placed \cup {d}
  /\ UNCHANGED <<known, facets, indexed, edges>>

\* The undo of an insert that failed.
Withdraw(d) ==
  /\ d \notin known
  /\ placed' = placed \ {d}
  /\ UNCHANGED <<known, facets, indexed, edges>>

Commit(d) ==
  /\ d \in placed \ known
  /\ known' = known \cup {d}
  /\ UNCHANGED <<placed, facets, indexed, edges>>

Classify(d) ==
  /\ d \in known /\ facets[d] = None
  /\ \E f \in Facets \ {None} : facets' = [facets EXCEPT ![d] = f]
  /\ UNCHANGED <<placed, known, indexed, edges>>

IndexDoc(d) ==
  /\ d \in Classified \ indexed
  /\ indexed' = indexed \cup {d}
  /\ \E dsts \in SUBSET known : edges' = edges \cup ({d} \X dsts)
  /\ UNCHANGED <<placed, known, facets>>

Next == \E d \in Docs : Place(d) \/ Withdraw(d) \/ Commit(d) \/ Classify(d) \/ IndexDoc(d)

\* There may be a corpus already.
Spec == Whole /\ [][Next]_store
=============================================================================
