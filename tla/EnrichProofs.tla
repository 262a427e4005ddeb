---------------------------- MODULE EnrichProofs ----------------------------
(***************************************************************************)
(* Theorems about classifying and indexing, for any documents, answers,    *)
(* number of processes, kills, aborts, failing calls and stolen locks. The *)
(* theorems of the first part rest on none of these being absent, nor on   *)
(* the drain lock; each of the last three names what it cannot do without. *)
(*                                                                         *)
(* Told is the inductive invariant about what a process holds in its hand: *)
(* the output it is about to commit has been validated against a snapshot  *)
(* of the established terms, the one it is about to rename into place is   *)
(* the row's. A step that changes a table is one of five kinds (Kinds),    *)
(* what is committed only grows (Growing), and what a process does with    *)
(* its own variables keeps its hand in order (Acting).                     *)
(***************************************************************************)
EXTENDS Enrich, FiniteSetTheorems, TLAPS

Facets == Outputs \cup {None}
Have == 1 .. ingested
Roles == {"daemon", "reenrich", "reindex"}

\* The types, and: only documents that were ingested are classified.
Shape ==
  /\ ingested \in 0 .. MaxDocs /\ vec \subseteq Docs
  /\ row \in [Docs -> Facets] /\ front \in [Docs -> Facets]
  /\ fts \in [Docs -> Seq(Facets)]
  /\ \A d \in Docs : row[d] # None => d \in Have
  /\ pc \in [Procs -> Points] /\ role \in [Procs -> Roles]
  /\ todo \in [Procs -> SUBSET Have] /\ vocab \in [Procs -> SUBSET established]
  /\ doc \in [Procs -> Docs \cup {None}]
  /\ out \in [Procs -> Facets] /\ links \in [Procs -> SUBSET Docs]

\* What p knows about the document in hand, by program point.
InHand(p) ==
  /\ pc[p] \in Classifying \cup Retrieving => doc[p] \in Have
  /\ role[p] = "reindex" => \A d \in todo[p] : row[d] # None
  /\ pc[p] \in {"persist", "txn"} => out[p] \in Outputs /\ Validate(out[p], vocab[p])
  /\ pc[p] = "rename" => out[p] \in Outputs /\ row[doc[p]] = out[p]
  /\ pc[p] \in Retrieving => row[doc[p]] # None

Told == Shape /\ \A p \in Procs : InHand(p)

Mine(p) == <<pc[p], role[p], todo[p], doc[p], vocab[p], out[p], links[p]>>

\* Nothing committed is undone.
Grown ==
  /\ ingested <= ingested' /\ ingested' \in 0 .. MaxDocs
  /\ row' \in [Docs -> Facets] /\ front' \in [Docs -> Facets]
  /\ fts' \in [Docs -> Seq(Facets)] /\ vec' \subseteq Docs
  /\ \A d \in Docs : row[d] # None => row'[d] = row[d]
  /\ \A d \in Docs : row'[d] # None => d \in Have'
  /\ established \subseteq established'

Quiet == UNCHANGED <<tables, front>>
Commits(p) ==
  /\ p \in Procs /\ pc[p] = "txn" /\ AffectsRow(doc[p])
  /\ row' = [row EXCEPT ![doc[p]] = out[p]] /\ InsertProposed(p) /\ Goto(p, "rename")
  /\ UNCHANGED <<ingested, established, vec, fts, edges, front, doc>>
Renames(p) ==
  /\ p \in Procs /\ pc[p] = "rename" /\ front' \in {front, NewBody(p)} /\ UNCHANGED tables
Indexes(p) ==
  /\ p \in Procs /\ pc[p] = "index" /\ ~stop[p] /\ ~Violates(p)
  /\ fts' = [fts EXCEPT ![doc[p]] = Append(@, out[p])] /\ vec' = vec \cup {doc[p]}
  /\ edges' = edges \cup ({doc[p]} \X links[p])
  /\ UNCHANGED <<ingested, row, established, proposed, front>>

LEMMA Bounds ==
  ASSUME Told
  PROVE  Have \subseteq Docs /\ ingested \in Nat /\ MaxDocs \in Nat
<1>1. MaxDocs \in Nat /\ ingested \in 0 .. MaxDocs
  BY EnrichAssumption DEF Told, Shape
<1> QED BY <1>1 DEF Have, Docs

\* Only five steps change a table or a body file; the rest is quiet.
LEMMA Kinds ==
  ASSUME Told, [Next]_vars
  PROVE  \/ Quiet \/ Ingest \/ (\E ts : Promote(ts))
         \/ \E p \in Procs : Commits(p) \/ Renames(p) \/ Indexes(p)
<1> USE DEF Quiet, tables, files, locals, scratch, control
<1>1. CASE UNCHANGED vars
  BY <1>1 DEF vars
<1>2. CASE Ingest \/ Rob
  BY <1>2 DEF Rob
<1>3. CASE \E t \in Terms : Promote({t})
  BY <1>3
<1>4. CASE \E n \in 1 .. MaxDocs : PromoteFrequent(n)
  BY <1>4 DEF PromoteFrequent
<1>5. ASSUME NEW p \in Procs,
        Boot(p) \/ Exit(p) \/ (\E r \in {"daemon", "reenrich", "reindex"} : Start(p, r))
          \/ LoadFails(p) \/ Mute(p) \/ Abort(p) \/ Crash(p) \/ Finish(p) \/ TakeDoc(p)
      PROVE Quiet
  BY <1>5 DEF Boot, Exit, Start, LoadFails, Mute, Abort, Crash, Finish, TakeDoc
<1>6. ASSUME NEW p \in Procs,
        Unavailable(p) \/ AskAborted(p) \/ SchemaInvalid(p)
          \/ (\E o \in Outputs : Answered(p, o)) \/ PersistStart(p) \/ Embed(p) \/ EdgesBuild(p)
      PROVE Quiet
  BY <1>6 DEF Unavailable, AskAborted, SchemaInvalid, Answered, PersistStart, Embed, EdgesBuild
<1>7. ASSUME NEW p \in Procs, Transaction(p) PROVE Quiet \/ Commits(p)
  BY <1>7 DEF Transaction, Commits
<1>8. ASSUME NEW p \in Procs, RenameBody(p) PROVE Renames(p)
  BY <1>8 DEF RenameBody, Renames
<1>9. ASSUME NEW p \in Procs, Index(p) PROVE Quiet \/ Indexes(p)
  BY <1>9 DEF Index, Indexes
<1> QED
  BY <1>1, <1>2, <1>3, <1>4, <1>5, <1>6, <1>7, <1>8, <1>9 DEF Next, Step

\* Rows are inserted and classified, terms are established, and none of it is undone.
LEMMA Growing ==
  ASSUME Told, [Next]_vars
  PROVE  Grown
<1> USE EnrichAssumption DEF Grown, Told, Shape, Facets, Have
<1>1. CASE Quiet
  BY <1>1 DEF Quiet, tables
<1>2. CASE Ingest
  BY <1>2 DEF Ingest, files
<1>3. ASSUME NEW ts, Promote(ts) PROVE Grown
  BY <1>3 DEF Promote, files
<1>4. ASSUME NEW p \in Procs, Commits(p) PROVE Grown
  <2>1. doc[p] \in Docs /\ out[p] \in Facets
    BY <1>4 DEF Commits, InHand, Classifying, Have, Docs
  <2>2. doc[p] \in Have
    BY <1>4 DEF Commits, InHand, Classifying
  <2>3. row' \in [Docs -> Facets] /\ \A d \in Docs : row'[d] = IF d = doc[p] THEN out[p] ELSE row[d]
    BY <1>4, <2>1 DEF Commits
  <2>4. UNCHANGED Have
    BY <1>4 DEF Commits
  <2> QED BY <1>4, <2>1, <2>2, <2>3, <2>4 DEF Commits, AffectsRow
<1>5. ASSUME NEW p \in Procs, Renames(p) PROVE Grown
  <2>1. out[p] \in Facets
    BY DEF Facets
  <2>2. front' \in [Docs -> Facets]
    BY <1>5, <2>1 DEF Renames, NewBody
  <2> QED BY <1>5, <2>2 DEF Renames, tables
<1>6. ASSUME NEW p \in Procs, Indexes(p) PROVE Grown
  <2>1. doc[p] \in Docs
    BY <1>6 DEF Indexes, InHand, Retrieving, Have, Docs
  <2>2. Append(fts[doc[p]], out[p]) \in Seq(Facets)
    BY <2>1
  <2>3. fts' \in [Docs -> Seq(Facets)]
    BY <1>6, <2>2 DEF Indexes
  <2> QED BY <1>6, <2>3 DEF Indexes
<1> QED
  BY <1>1, <1>2, <1>3, <1>4, <1>5, <1>6, Kinds

----------------------------------------------------------------------------
\* A step of p touches no other process's variables, and what p holds is sound after it.
Moves(p) ==
  /\ \A q \in Procs \ {p} : UNCHANGED Mine(q)
  /\ pc' \in [Procs -> Points] /\ role' \in [Procs -> Roles]
  /\ todo' \in [Procs -> SUBSET Have] /\ vocab' \in [Procs -> SUBSET established]
  /\ doc' \in [Procs -> Docs \cup {None}]
  /\ out' \in [Procs -> Facets] /\ links' \in [Procs -> SUBSET Docs]
  /\ InHand(p)'

LEMMA Ending ==
  ASSUME Told, NEW p \in Procs, EndPass(p), UNCHANGED <<role, doc>>
  PROVE  Moves(p)
<1> USE DEF Told, Shape
<1>1. /\ pc' = [pc EXCEPT ![p] = "idle"] /\ todo' = [todo EXCEPT ![p] = {}]
      /\ vocab' = [vocab EXCEPT ![p] = {}] /\ out' = [out EXCEPT ![p] = None]
      /\ links' = [links EXCEPT ![p] = {}]
  BY DEF EndPass, Forget, Goto
<1>2. \A q \in Procs \ {p} : UNCHANGED Mine(q)
  BY <1>1 DEF Mine
<1>3. InHand(p)'
  BY <1>1 DEF InHand, Classifying, Retrieving
<1>4. /\ pc' \in [Procs -> Points] /\ role' \in [Procs -> Roles]
      /\ doc' \in [Procs -> Docs \cup {None}]
  BY <1>1 DEF Points
<1>5. todo' \in [Procs -> SUBSET Have] /\ vocab' \in [Procs -> SUBSET established]
  BY <1>1
<1>6. out' \in [Procs -> Facets] /\ links' \in [Procs -> SUBSET Docs]
  BY <1>1 DEF Facets
<1> QED BY <1>2, <1>3, <1>4, <1>5, <1>6 DEF Moves

LEMMA GoingOn ==
  ASSUME Told, NEW p \in Procs, NEW l \in Points, Goto(p, l),
         UNCHANGED <<role, todo, vocab, doc, out, links>>, InHand(p)'
  PROVE  Moves(p)
<1> USE DEF Told, Shape
<1>1. pc' = [pc EXCEPT ![p] = l]
  BY DEF Goto
<1>2. \A q \in Procs \ {p} : UNCHANGED Mine(q)
  BY <1>1 DEF Mine
<1>3. pc' \in [Procs -> Points]
  BY <1>1
<1> QED BY <1>2, <1>3 DEF Moves

LEMMA Waiting ==
  ASSUME Told, NEW p \in Procs, UNCHANGED <<ingested, row, pc, role, todo, doc, vocab, out, links>>
  PROVE  Moves(p)
<1>1. UNCHANGED Have
  BY DEF Have
<1>2. InHand(p)'
  BY <1>1 DEF Told, InHand
<1>3. \A q \in Procs \ {p} : UNCHANGED Mine(q)
  BY DEF Mine
<1> QED BY <1>2, <1>3 DEF Moves, Told, Shape

LEMMA Leaving ==
  ASSUME Told, NEW p \in Procs,
         FailureLane(p) \/ EndPass(p) \/ PersistFailed(p) \/ Throw(p) \/ Stuck(p),
         UNCHANGED <<role, doc, row>>
  PROVE  Moves(p)
<1>1. CASE EndPass(p)
  BY <1>1, Ending
<1>2. CASE Goto(p, "next") /\ UNCHANGED <<todo, vocab, out, links>>
  <2>1. pc'[p] = "next"
    BY <1>2 DEF Goto, Told, Shape
  <2>2. InHand(p)'
    BY <1>2, <2>1 DEF InHand, Classifying, Retrieving, Told
  <2> QED BY <1>2, <2>2, GoingOn DEF Points
<1>3. EndPass(p) \/ (Goto(p, "next") /\ UNCHANGED <<todo, vocab, out, links>>)
  BY DEF FailureLane, PersistFailed, Throw, Stuck, steady, scratch
<1> QED
  BY <1>1, <1>2, <1>3

\* Every step of a process is a move.
LEMMA Acting ==
  ASSUME Told, NEW p \in Procs,
         \/ Boot(p) \/ Exit(p) \/ Step(p) \/ \E r \in Roles : Start(p, r)
         \/ LoadFails(p) \/ Mute(p) \/ Abort(p) \/ Crash(p)
  PROVE  Moves(p)
<1> USE EnrichAssumption DEF locals, scratch, steady, control, tables, files
<1>0. InHand(p) /\ Shape
  BY DEF Told
<1>1. CASE Boot(p)
  <2>1. InHand(p)'
    BY <1>0, <1>1 DEF Boot, Goto, InHand, Shape, Classifying, Retrieving
  <2> QED BY <1>1, <2>1, GoingOn DEF Boot, Points
<1>2. CASE Exit(p)
  <2>1. /\ pc' = [pc EXCEPT ![p] = "down"] /\ doc' = [doc EXCEPT ![p] = None]
        /\ UNCHANGED <<role, todo, vocab, out, links, row>>
    BY <1>2 DEF Exit, Goto
  <2>2. InHand(p)'
    BY <1>0, <2>1 DEF InHand, Shape, Classifying, Retrieving
  <2>3. \A q \in Procs \ {p} : UNCHANGED Mine(q)
    BY <1>0, <2>1 DEF Mine, Shape
  <2>4. pc' \in [Procs -> Points] /\ doc' \in [Procs -> Docs \cup {None}]
    BY <1>0, <2>1 DEF Shape, Points
  <2> QED BY <1>0, <2>1, <2>2, <2>3, <2>4 DEF Moves, Shape
<1>3. ASSUME NEW r \in Roles, Start(p, r) PROVE Moves(p)
  <2>1. CASE UNCHANGED <<pc, role, todo, doc, vocab>>
    BY <1>3, <2>1, Waiting DEF Start
  <2>2. CASE /\ role' = [role EXCEPT ![p] = r] /\ todo' = [todo EXCEPT ![p] = Candidates(r)]
             /\ doc' = [doc EXCEPT ![p] = None] /\ vocab' = [vocab EXCEPT ![p] = established]
             /\ pc' = [pc EXCEPT ![p] = "next"]
    <3>1. UNCHANGED <<out, links, row>>
      BY <1>3 DEF Start
    <3>2. \A q \in Procs \ {p} : UNCHANGED Mine(q)
      BY <1>0, <2>2, <3>1 DEF Mine, Shape
    <3>3. Candidates(r) \subseteq Have /\ (r = "reindex" => \A d \in Candidates(r) : row[d] # None)
      BY DEF Candidates, Classified, Unclassified, Have
    <3>4. InHand(p)'
      BY <1>0, <2>2, <3>1, <3>3 DEF InHand, Shape, Classifying, Retrieving
    <3>5. pc' \in [Procs -> Points] /\ role' \in [Procs -> Roles]
          /\ doc' \in [Procs -> Docs \cup {None}]
      BY <1>0, <2>2 DEF Shape, Points
    <3>6. todo' \in [Procs -> SUBSET Have] /\ vocab' \in [Procs -> SUBSET established]
      BY <1>0, <2>2, <3>3 DEF Shape
    <3> QED BY <1>0, <3>1, <3>2, <3>4, <3>5, <3>6 DEF Moves, Shape
  <2> QED
    BY <1>3, <2>1, <2>2 DEF Start, Goto, EstablishedVocabulary
<1>4. CASE LoadFails(p) \/ Unavailable(p) \/ AskAborted(p) \/ Mute(p) \/ Finish(p)
  BY <1>4, Leaving
     DEF LoadFails, Unavailable, AskAborted, Mute, Finish
<1>5. CASE Abort(p)
  BY <1>5, Waiting DEF Abort
<1>6. CASE Crash(p)
  <2>1. /\ pc' = [pc EXCEPT ![p] = "down"] /\ doc' = [doc EXCEPT ![p] = None]
        /\ todo' = [todo EXCEPT ![p] = {}] /\ vocab' = [vocab EXCEPT ![p] = {}]
        /\ out' = [out EXCEPT ![p] = None] /\ links' = [links EXCEPT ![p] = {}]
        /\ UNCHANGED <<role, row>>
    BY <1>6 DEF Crash, Forget, Goto
  <2>2. \A q \in Procs \ {p} : UNCHANGED Mine(q)
    BY <1>0, <2>1 DEF Mine, Shape
  <2>3. InHand(p)'
    BY <1>0, <2>1 DEF InHand, Shape, Classifying, Retrieving
  <2>4. pc' \in [Procs -> Points] /\ doc' \in [Procs -> Docs \cup {None}]
    BY <1>0, <2>1 DEF Shape, Points
  <2>5. todo' \in [Procs -> SUBSET Have] /\ vocab' \in [Procs -> SUBSET established]
    BY <1>0, <2>1 DEF Shape
  <2>6. out' \in [Procs -> Facets] /\ links' \in [Procs -> SUBSET Docs]
    BY <1>0, <2>1 DEF Shape, Facets
  <2> QED BY <1>0, <2>1, <2>2, <2>3, <2>4, <2>5, <2>6 DEF Moves, Shape
<1>7. CASE TakeDoc(p)
  <2>1. PICK d \in todo[p] :
          /\ doc' = [doc EXCEPT ![p] = d] /\ todo' = [todo EXCEPT ![p] = @ \ {d}]
          /\ pc' = [pc EXCEPT ![p] = IF role[p] = "reindex" THEN "embed" ELSE "ask"]
          /\ UNCHANGED <<role, row, vocab, out, links>>
    BY <1>7 DEF TakeDoc, Goto
  <2>2. d \in Have /\ d \in Docs
    BY <1>0, <2>1 DEF Shape, Have, Docs
  <2>3. \A q \in Procs \ {p} : UNCHANGED Mine(q)
    BY <1>0, <2>1 DEF Mine, Shape
  <2>4. pc' \in [Procs -> Points] /\ doc' \in [Procs -> Docs \cup {None}]
        /\ todo' \in [Procs -> SUBSET Have]
    BY <1>0, <2>1, <2>2 DEF Shape, Points, Classifying, Retrieving
  <2>5. Have' = Have
    BY <1>7 DEF TakeDoc, Have
  <2>6. InHand(p)'
    BY <1>0, <2>1, <2>2, <2>5 DEF InHand, Shape, Classifying, Retrieving
  <2> QED BY <1>0, <2>1, <2>3, <2>4, <2>6 DEF Moves, Shape
<1>8. CASE SchemaInvalid(p)
  <2>1. CASE UNCHANGED pc
    BY <1>8, <2>1, Waiting DEF SchemaInvalid
  <2>2. CASE Goto(p, "next")
    <3>1. InHand(p)'
      BY <1>0, <1>8, <2>2 DEF SchemaInvalid, Goto, InHand, Shape, Classifying, Retrieving
    <3> QED BY <1>8, <2>2, <3>1, GoingOn DEF SchemaInvalid, Points
  <2> QED BY <1>8, <2>1, <2>2 DEF SchemaInvalid
<1>9. ASSUME NEW o \in Outputs, Answered(p, o) PROVE Moves(p)
  <2>1. CASE Goto(p, "next") /\ UNCHANGED out
    <3>1. InHand(p)'
      BY <1>0, <1>9, <2>1 DEF Answered, Goto, InHand, Shape, Classifying, Retrieving
    <3> QED BY <1>9, <2>1, <3>1, GoingOn DEF Answered, Points
  <2>2. CASE /\ Validate(o, vocab[p]) /\ out' = [out EXCEPT ![p] = o]
             /\ pc' = [pc EXCEPT ![p] = "persist"]
    <3>1. UNCHANGED <<ingested, row, role, todo, doc, vocab, links>> /\ pc[p] = "ask"
      BY <1>9 DEF Answered
    <3>2. \A q \in Procs \ {p} : UNCHANGED Mine(q)
      BY <1>0, <2>2, <3>1 DEF Mine, Shape
    <3>3. pc' \in [Procs -> Points] /\ out' \in [Procs -> Facets]
      BY <1>0, <2>2 DEF Shape, Points, Facets, Classifying
    <3>4. pc'[p] = "persist" /\ out'[p] = o
      BY <1>0, <2>2 DEF Shape
    <3>5. doc[p] \in Have /\ Have' = Have
      BY <1>0, <3>1 DEF InHand, Classifying, Have
    <3>6. Validate(out'[p], vocab'[p])
      BY <2>2, <3>1, <3>4
    <3>7. InHand(p)'
      BY <1>0, <3>1, <3>4, <3>5, <3>6 DEF InHand, Retrieving
    <3> QED BY <1>0, <3>1, <3>2, <3>3, <3>7 DEF Moves, Shape
  <2> QED BY <1>9, <2>1, <2>2 DEF Answered, Goto
<1>10. CASE PersistStart(p)
  <2>1. CASE Goto(p, "txn") /\ UNCHANGED scratch /\ UNCHANGED steady
    <3>1. pc[p] = "persist" /\ pc'[p] = "txn"
      BY <1>0, <1>10, <2>1 DEF PersistStart, Goto, Shape
    <3>2. UNCHANGED <<ingested, row, role, todo, doc, vocab, out, links>>
      BY <1>10, <2>1 DEF PersistStart
    <3>3. Validate(out'[p], vocab'[p])
      BY <1>0, <3>1, <3>2 DEF InHand
    <3>4. InHand(p)'
      BY <1>0, <3>1, <3>2, <3>3 DEF InHand, Classifying, Retrieving, Have
    <3> QED BY <2>1, <3>2, <3>4, GoingOn DEF Points, Classifying
  <2>2. CASE EndPass(p) \/ PersistFailed(p)
    BY <1>10, <2>2, Leaving DEF PersistStart
  <2> QED BY <1>10, <2>1, <2>2 DEF PersistStart
<1>11. CASE Transaction(p)
  <2>1. CASE PersistFailed(p) /\ UNCHANGED row
    BY <1>11, <2>1, Leaving DEF Transaction
  <2>2. CASE /\ Goto(p, "rename") /\ row' = [row EXCEPT ![doc[p]] = out[p]]
             /\ UNCHANGED <<steady, scratch>>
    <3>1. pc[p] = "txn" /\ pc'[p] = "rename"
      BY <1>0, <1>11, <2>2 DEF Transaction, Goto, Shape
    <3>2. UNCHANGED <<ingested, role, todo, doc, vocab, out, links>>
      BY <1>11, <2>2 DEF Transaction
    <3>3. doc[p] \in Have /\ out[p] \in Outputs /\ doc[p] \in Docs
      BY <1>0, <3>1 DEF InHand, Classifying, Have, Shape, Docs
    <3>4. row'[doc'[p]] = out'[p] /\ out'[p] \in Outputs /\ doc'[p] \in Have'
      BY <1>0, <2>2, <3>2, <3>3 DEF Shape, Have
    <3>5. role'[p] = "reindex" => \A d \in todo'[p] : row'[d] # None
      <4>1. \A d \in todo[p] : d \in Docs
        BY <1>0 DEF Shape, Have, Docs
      <4> QED BY <1>0, <2>2, <3>2, <3>3, <4>1 DEF InHand, Shape
    <3>6. InHand(p)'
      BY <3>1, <3>4, <3>5 DEF InHand, Retrieving
    <3> QED BY <2>2, <3>2, <3>6, GoingOn DEF Points, Classifying
  <2> QED BY <1>11, <2>1, <2>2 DEF Transaction
<1>12. CASE RenameBody(p)
  <2>1. CASE PersistFailed(p)
    BY <1>12, <2>1, Leaving DEF RenameBody
  <2>2. CASE /\ UNCHANGED <<steady, out, links>>
             /\ Goto(p, IF role[p] = "daemon" THEN "embed" ELSE "next")
    <3>1. pc[p] = "rename" /\ pc'[p] \in {"embed", "next"}
      BY <1>0, <1>12, <2>2 DEF RenameBody, Goto, Shape
    <3>2. UNCHANGED <<ingested, row, role, todo, doc, vocab, out, links>>
      BY <1>12, <2>2 DEF RenameBody
    <3>3. doc[p] \in Have /\ row[doc[p]] # None
      BY <1>0, <3>1 DEF InHand, Classifying
    <3>4. InHand(p)'
      BY <1>0, <3>1, <3>2, <3>3 DEF InHand, Classifying, Retrieving, Have
    <3> QED BY <2>2, <3>2, <3>4, GoingOn DEF Points, Retrieving
  <2> QED BY <1>12, <2>1, <2>2 DEF RenameBody
<1>13. CASE Embed(p)
  <2>1. CASE Throw(p) \/ Stuck(p)
    BY <1>13, <2>1, Leaving DEF Embed
  <2>2. CASE Goto(p, "next") /\ UNCHANGED <<steady, scratch>>
    <3>1. InHand(p)'
      BY <1>0, <1>13, <2>2 DEF Embed, Goto, InHand, Shape, Classifying, Retrieving
    <3> QED BY <1>13, <2>2, <3>1, GoingOn DEF Embed, Points
  <2>3. CASE out' = [out EXCEPT ![p] = front[doc[p]]] /\ pc' = [pc EXCEPT ![p] = "edges"]
              /\ UNCHANGED <<steady, links>>
    <3>1. pc[p] = "embed" /\ pc'[p] = "edges"
      BY <1>0, <1>13, <2>3 DEF Embed, Shape
    <3>2. UNCHANGED <<ingested, row, role, todo, doc, vocab, links>>
      BY <1>13, <2>3 DEF Embed
    <3>3. doc[p] \in Have /\ row[doc[p]] # None /\ doc[p] \in Docs
      BY <1>0, <3>1 DEF InHand, Retrieving, Have, Shape, Docs
    <3>4. InHand(p)'
      BY <1>0, <3>1, <3>2, <3>3 DEF InHand, Classifying, Retrieving, Have
    <3>5. \A q \in Procs \ {p} : UNCHANGED Mine(q)
      BY <1>0, <2>3, <3>2 DEF Mine, Shape
    <3>6. pc' \in [Procs -> Points] /\ out' \in [Procs -> Facets]
      BY <1>0, <2>3, <3>3 DEF Shape, Points, Retrieving
    <3> QED BY <1>0, <3>2, <3>4, <3>5, <3>6 DEF Moves, Shape
  <2> QED BY <1>13, <2>1, <2>2, <2>3 DEF Embed, Goto
<1>14. CASE EdgesBuild(p)
  <2>1. CASE Throw(p) \/ Stuck(p)
    BY <1>14, <2>1, Leaving DEF EdgesBuild
  <2>2. ASSUME NEW near \in Near(doc[p]), links' = [links EXCEPT ![p] = BuildEdges(doc[p], near)],
               pc' = [pc EXCEPT ![p] = "index"], UNCHANGED <<steady, out>>
        PROVE  Moves(p)
    <3>1. pc[p] = "edges" /\ pc'[p] = "index"
      BY <1>0, <1>14, <2>2 DEF EdgesBuild, Shape
    <3>2. UNCHANGED <<ingested, row, role, todo, doc, vocab, out>>
      BY <1>14, <2>2 DEF EdgesBuild
    <3>3. doc[p] \in Have /\ row[doc[p]] # None /\ doc[p] \in Docs
      BY <1>0, <3>1 DEF InHand, Retrieving, Have, Shape, Docs
    <3>4. InHand(p)'
      BY <1>0, <3>1, <3>2, <3>3 DEF InHand, Classifying, Retrieving, Have
    <3>5. \A q \in Procs \ {p} : UNCHANGED Mine(q)
      BY <1>0, <2>2, <3>2 DEF Mine, Shape
    <3>6. BuildEdges(doc[p], near) \subseteq Docs
      <4>1. vec \subseteq Docs
        BY <1>0 DEF Shape
      <4>2. Classified \subseteq Docs
        BY <1>0 DEF Shape, Classified, Docs
      <4>3. near \subseteq Docs
        BY <2>2, <4>1 DEF Near
      <4> QED BY <3>3, <4>1, <4>2, <4>3 DEF BuildEdges
    <3>7. pc' \in [Procs -> Points] /\ links' \in [Procs -> SUBSET Docs]
      BY <1>0, <2>2, <3>6 DEF Shape, Points, Retrieving
    <3> QED BY <1>0, <3>2, <3>4, <3>5, <3>7 DEF Moves, Shape
  <2> QED BY <1>14, <2>1, <2>2 DEF EdgesBuild, Goto
<1>15. CASE Index(p)
  <2>1. CASE Stuck(p)
    BY <1>15, <2>1, Leaving DEF Index
  <2>2. CASE Goto(p, "next") /\ UNCHANGED <<steady, scratch>>
    <3>1. InHand(p)'
      BY <1>0, <1>15, <2>2 DEF Index, Goto, InHand, Shape, Classifying, Retrieving
    <3> QED BY <1>15, <2>2, <3>1, GoingOn DEF Index, Points
  <2> QED BY <1>15, <2>1, <2>2 DEF Index
<1> QED
  BY <1>1, <1>2, <1>3, <1>4, <1>5, <1>6, <1>7, <1>8, <1>9, <1>10, <1>11, <1>12, <1>13, <1>14,
     <1>15 DEF Step

\* The processes beside it lose nothing: what they know only grows.
LEMMA Beside ==
  ASSUME Told, Grown, NEW q \in Procs, UNCHANGED Mine(q)
  PROVE  InHand(q)'
<1>1. /\ UNCHANGED <<pc[q], role[q], todo[q], doc[q], vocab[q], out[q]>>
      /\ InHand(q) /\ Shape
  BY DEF Mine, Told
<1>2. /\ Have \subseteq Have' /\ Have \subseteq Docs
      /\ \A d \in Have : row[d] # None => row'[d] = row[d]
  <2>1. Have \subseteq Docs
    BY Bounds
  <2>2. Have \subseteq Have'
    BY Bounds DEF Grown, Have
  <2> QED BY <2>1, <2>2 DEF Grown
<1>3. pc[q] \in {"persist", "txn"} => out'[q] \in Outputs /\ Validate(out'[q], vocab'[q])
  BY <1>1 DEF InHand
<1>4. pc[q] \in Classifying \cup Retrieving => doc[q] \in Have
  BY <1>1 DEF InHand
<1>5. role[q] = "reindex" => \A d \in todo[q] : row'[d] # None
  BY <1>1, <1>2 DEF InHand, Shape
<1>6. pc[q] = "rename" => out[q] \in Outputs /\ row'[doc[q]] = out[q]
  BY EnrichAssumption, <1>1, <1>2, <1>4 DEF InHand, Classifying
<1>7. pc[q] \in Retrieving => row'[doc[q]] # None
  BY <1>1, <1>2, <1>4 DEF InHand
<1> QED BY <1>1, <1>2, <1>3, <1>4, <1>5, <1>6, <1>7 DEF InHand

LEMMA Telling ==
  ASSUME Told, [Next]_vars
  PROVE  Told'
<1>1. Grown
  BY Growing
<1>2. Have \subseteq Have' /\ established \subseteq established'
  BY EnrichAssumption, <1>1 DEF Grown, Told, Shape, Have
<1>3. CASE UNCHANGED <<pc, role, todo, doc, vocab, out, links>>
  <2>1. \A q \in Procs : UNCHANGED Mine(q)
    BY <1>3 DEF Mine
  <2>2. \A q \in Procs : InHand(q)'
    BY <1>1, <2>1, Beside
  <2>3. Shape'
    BY <1>1, <1>2, <1>3 DEF Told, Shape, Grown
  <2> QED BY <2>2, <2>3 DEF Told
<1>4. ASSUME NEW p \in Procs, Moves(p) PROVE Told'
  <2>1. \A q \in Procs \ {p} : InHand(q)'
    BY <1>1, <1>4, Beside DEF Moves
  <2>2. Shape'
    BY <1>1, <1>2, <1>4 DEF Shape, Grown, Moves
  <2> QED BY <1>4, <2>1, <2>2 DEF Told, Moves
<1>5. CASE UNCHANGED vars
  BY <1>3, <1>5 DEF vars, locals, scratch
<1>6. CASE Ingest \/ Rob
  BY <1>3, <1>6 DEF Ingest, Rob, locals, scratch
<1>7. ASSUME NEW ts, Promote(ts) PROVE Told'
  BY <1>3, <1>7 DEF Promote, locals, scratch
<1>8. ASSUME NEW p \in Procs,
             \/ Boot(p) \/ Exit(p) \/ Step(p) \/ \E r \in Roles : Start(p, r)
             \/ LoadFails(p) \/ Mute(p) \/ Abort(p) \/ Crash(p)
      PROVE Told'
  BY <1>4, <1>8, Acting
<1> QED
  BY <1>5, <1>6, <1>7, <1>8 DEF Next, PromoteFrequent, Roles

LEMMA StartTold == Init => Told
<1> SUFFICES ASSUME Init PROVE Told
  OBVIOUS
<1>1. Shape
  BY EnrichAssumption DEF Init, Shape, Facets, Points, Roles, Have, Docs
<1>2. ASSUME NEW p \in Procs PROVE InHand(p)
  BY DEF Init, InHand, Classifying, Retrieving
<1> QED BY <1>1, <1>2 DEF Told

LEMMA AlwaysTold == Spec => []Told
BY StartTold, Telling, PTL DEF Spec

----------------------------------------------------------------------------
\* What the types say beyond Shape: the taxonomy, the lane, the lock and the counters.
Beyond ==
  /\ established \subseteq Terms /\ proposed \subseteq Terms
  /\ sidecars \subseteq Docs /\ catalog \subseteq Docs /\ edges \subseteq Docs \X Docs
  /\ holder \in Procs \cup {None} /\ trigger \in BOOLEAN /\ crashes \in 0 .. MaxCrashes
  /\ attempt \in [Procs -> Nat] /\ fails \in [Procs -> Nat] /\ stop \in [Procs -> BOOLEAN]

\* The part of it that an exception may touch.
Thrown ==
  /\ sidecars \subseteq Docs /\ catalog \subseteq Docs /\ holder \in Procs \cup {None}
  /\ attempt \in [Procs -> Nat] /\ fails \in [Procs -> Nat]

LEMMA EndTyped ==
  ASSUME Told, Beyond, NEW p \in Procs, EndPass(p), sidecars' \subseteq Docs
  PROVE  Thrown'
<1>1. Classified \subseteq Docs
  BY Bounds DEF Classified, Have
<1>2. catalog' \in {catalog, Classified} /\ holder' \in {holder, None}
  BY DEF EndPass, Release
<1>3. attempt' = [attempt EXCEPT ![p] = 0] /\ fails' = [fails EXCEPT ![p] = 0]
  BY DEF EndPass, Forget
<1> QED BY <1>1, <1>2, <1>3 DEF Beyond, Thrown

LEMMA LaneTyped ==
  ASSUME Told, Beyond, NEW p \in Procs, doc[p] \in Docs,
         FailureLane(p), RecordFailure(p) \/ UNCHANGED fails
  PROVE  Thrown'
<1>1. sidecars' \subseteq Docs
  BY DEF FailureLane, WriteErrorSidecar, Beyond
<1>2. fails[p] + 1 \in Nat
  BY DEF Beyond
<1>3. fails' \in [Procs -> Nat]
  BY <1>2 DEF RecordFailure, Beyond
<1> QED BY <1>1, <1>3 DEF FailureLane, steady, Beyond, Thrown

LEMMA ThrowTyped ==
  ASSUME Told, Beyond, NEW p \in Procs,
         \/ doc[p] \in Docs /\ (PersistFailed(p) \/ Stuck(p))
         \/ Throw(p) /\ UNCHANGED sidecars
  PROVE  Thrown'
<1>1. CASE EndPass(p) /\ UNCHANGED sidecars
  BY <1>1, EndTyped DEF Beyond
<1>2. CASE UNCHANGED <<sidecars, steady, scratch>>
  BY <1>2 DEF Beyond, Thrown, steady, scratch
<1>3. CASE doc[p] \in Docs /\ FailureLane(p) /\ (RecordFailure(p) \/ UNCHANGED fails)
  BY <1>3, LaneTyped
<1> QED BY <1>1, <1>2, <1>3 DEF PersistFailed, Stuck, Throw

\* A step that leaves the rest as it is.
LEMMA ThrownBeyond ==
  ASSUME Beyond, Thrown',
         UNCHANGED <<established, proposed, edges, trigger, crashes, stop>>
  PROVE  Beyond'
BY DEF Beyond, Thrown

LEMMA StepBeyond ==
  ASSUME Told, Beyond, [Next]_vars
  PROVE  Beyond'
<1> USE EnrichAssumption DEF tables, files, control, locals
<1>1. CASE Ingest \/ Rob \/ UNCHANGED vars
  BY <1>1 DEF Ingest, Rob, vars, scratch, Beyond
<1>2. ASSUME NEW ts, Promote(ts) PROVE Beyond'
  BY <1>2 DEF Promote, Beyond, scratch
<1>3. ASSUME NEW p \in Procs, Boot(p) \/ Exit(p) \/ Abort(p) PROVE Beyond'
  BY <1>3 DEF Boot, Exit, Abort, Beyond, scratch
<1>4. ASSUME NEW p \in Procs, NEW r, Start(p, r) PROVE Beyond'
  BY <1>4 DEF Start, Beyond, scratch
<1>5. ASSUME NEW p \in Procs, Crash(p) PROVE Beyond'
  BY <1>5 DEF Crash, Forget, Beyond
<1>6. ASSUME NEW p \in Procs, TakeDoc(p) PROVE Beyond'
  BY <1>6 DEF TakeDoc, Beyond
<1>7. ASSUME NEW p \in Procs, Finish(p) PROVE Beyond'
  <2>1. EndPass(p) /\ sidecars' \subseteq Docs
    BY <1>7 DEF Finish, Beyond
  <2> QED BY <1>7, <2>1, EndTyped, ThrownBeyond DEF Finish
<1>8. ASSUME NEW p \in Procs, Mute(p) PROVE Beyond'
  <2>1. Thrown'
    BY <1>8, EndTyped, ThrowTyped DEF Mute, Beyond
  <2> QED BY <1>8, <2>1, ThrownBeyond DEF Mute
<1>9. ASSUME NEW p \in Procs, pc[p] \in Classifying \cup Retrieving,
             LoadFails(p) \/ Step(p)
      PROVE  Beyond'
  <2>0. doc[p] \in Docs
    BY <1>9, Bounds DEF Told, InHand
  <2>1. CASE LoadFails(p) \/ AskAborted(p)
    BY <2>0, <2>1, LaneTyped, ThrownBeyond DEF LoadFails, AskAborted
  <2>2. CASE Unavailable(p)
    <3>1. CASE RecordFailure(p) /\ FailureLane(p)
      BY <2>0, <2>2, <3>1, LaneTyped, ThrownBeyond DEF Unavailable
    <3>2. CASE WriteErrorSidecar(p) /\ EndPass(p)
      <4>1. sidecars' \subseteq Docs
        BY <2>0, <3>2 DEF WriteErrorSidecar, Beyond
      <4> QED BY <2>2, <3>2, <4>1, EndTyped, ThrownBeyond DEF Unavailable
    <3> QED BY <2>2, <3>1, <3>2 DEF Unavailable
  <2>3. CASE SchemaInvalid(p)
    <3>1. attempt' \in [Procs -> Nat] /\ sidecars' \subseteq Docs
      BY <2>0, <2>3 DEF SchemaInvalid, WriteErrorSidecar, Beyond
    <3> QED BY <2>3, <3>1 DEF SchemaInvalid, Beyond
  <2>4. ASSUME NEW o \in Outputs, Answered(p, o) PROVE Beyond'
    <3>1. sidecars' \subseteq Docs
      BY <2>0, <2>4 DEF Answered, WriteErrorSidecar, Beyond
    <3> QED BY <2>4, <3>1 DEF Answered, Beyond
  <2>5. CASE PersistStart(p)
    <3>1. Thrown'
      <4>1. CASE EndPass(p) /\ UNCHANGED sidecars
        BY <4>1, EndTyped DEF Beyond
      <4>2. CASE UNCHANGED <<steady, sidecars, scratch>>
        BY <4>2 DEF Beyond, Thrown, steady, scratch
      <4> QED BY <2>0, <2>5, <4>1, <4>2, ThrowTyped DEF PersistStart
    <3> QED BY <2>5, <3>1, ThrownBeyond DEF PersistStart
  <2>6. CASE Transaction(p)
    <3>1. CASE PersistFailed(p) /\ UNCHANGED proposed
      BY <2>0, <2>6, <3>1, ThrowTyped, ThrownBeyond DEF Transaction
    <3>2. CASE InsertProposed(p) /\ UNCHANGED <<steady, sidecars, scratch>>
      <4>1. out[p] \in Outputs
        BY <2>6 DEF Transaction, Told, InHand
      <4>2. Proposals(out[p]) \subseteq Terms
        BY <4>1 DEF Terms
      <4>3. proposed' \subseteq Terms
        BY <3>2, <4>2 DEF InsertProposed, Beyond
      <4> QED BY <2>6, <3>2, <4>3 DEF Transaction, Beyond, steady, scratch
    <3> QED BY <2>6, <3>1, <3>2 DEF Transaction
  <2>7. CASE RenameBody(p)
    <3>1. Thrown'
      <4>1. CASE fails' = [fails EXCEPT ![p] = 0] /\ UNCHANGED <<steady, sidecars, attempt>>
        BY <4>1 DEF Beyond, Thrown, steady
      <4> QED BY <2>0, <2>7, <4>1, ThrowTyped DEF RenameBody
    <3> QED BY <2>7, <3>1, ThrownBeyond DEF RenameBody
  <2>8. CASE Embed(p)
    <3>1. Thrown'
      <4>1. CASE UNCHANGED <<steady, sidecars, attempt, fails>>
        BY <4>1 DEF Beyond, Thrown, steady
      <4> QED BY <2>0, <2>8, <4>1, ThrowTyped DEF Embed, scratch
    <3> QED BY <2>8, <3>1, ThrownBeyond DEF Embed
  <2>9. CASE EdgesBuild(p)
    <3>1. Thrown'
      <4>1. CASE UNCHANGED <<steady, sidecars, attempt, fails>>
        BY <4>1 DEF Beyond, Thrown, steady
      <4> QED BY <2>0, <2>9, <4>1, ThrowTyped DEF EdgesBuild
    <3> QED BY <2>9, <3>1, ThrownBeyond DEF EdgesBuild
  <2>10. CASE Index(p)
    <3>1. CASE Stuck(p) /\ UNCHANGED <<fts, vec, edges>>
      BY <2>0, <2>10, <3>1, ThrowTyped, ThrownBeyond DEF Index
    <3>2. CASE edges' = edges \cup ({doc[p]} \X links[p])
               /\ UNCHANGED <<steady, sidecars, scratch>>
      <4>1. edges' \subseteq Docs \X Docs
        BY <2>0, <3>2 DEF Beyond, Told, Shape
      <4> QED BY <2>10, <3>2, <4>1 DEF Index, Beyond, steady, scratch
    <3> QED BY <2>10, <3>1, <3>2 DEF Index
  <2> QED
    BY <1>9, <2>1, <2>2, <2>3, <2>4, <2>5, <2>6, <2>7, <2>8, <2>9, <2>10
       DEF Step, Finish, TakeDoc, Classifying, Retrieving
<1>10. ASSUME NEW p \in Procs, LoadFails(p) \/ Step(p) PROVE Beyond'
  <2>1. pc[p] \in Classifying \cup Retrieving \/ Finish(p) \/ TakeDoc(p)
    BY <1>10 DEF LoadFails, Step, Unavailable, AskAborted, SchemaInvalid, Answered, PersistStart,
                 Transaction, RenameBody, Embed, EdgesBuild, Index, Classifying, Retrieving
  <2> QED BY <1>6, <1>7, <1>9, <1>10, <2>1
<1> QED
  BY <1>1, <1>2, <1>3, <1>4, <1>5, <1>8, <1>10 DEF Next, PromoteFrequent

\* Nothing a pass does, however it ends, puts a term in the taxonomy that is neither a seed nor
\* something the model answered, or an edge between anything but documents; the body files and
\* the index hold answers of the model, and the lock names a process or nobody.
THEOREM TypeCorrect == Spec => []TypeOK
<1>1. Init => Beyond
  <2>1. Seed \subseteq Terms
    BY DEF Terms
  <2>2. 0 \in 0 .. MaxCrashes
    BY EnrichAssumption
  <2> SUFFICES ASSUME Init PROVE Beyond
    OBVIOUS
  <2>3. attempt \in [Procs -> Nat] /\ fails \in [Procs -> Nat] /\ stop \in [Procs -> BOOLEAN]
    BY DEF Init
  <2>4. /\ established = Seed /\ proposed = {} /\ sidecars = {} /\ catalog = {} /\ edges = {}
        /\ holder = None /\ trigger = FALSE /\ crashes = 0
    BY DEF Init
  <2> QED BY <2>1, <2>2, <2>3, <2>4 DEF Beyond
<1>2. ASSUME Told, Beyond PROVE TypeOK
  <2>1. Have \subseteq Docs
    BY <1>2, Bounds
  <2>2. todo \in [Procs -> SUBSET Docs]
    BY <1>2, <2>1 DEF Told, Shape
  <2>3. vocab \in [Procs -> SUBSET Terms]
    BY <1>2 DEF Told, Shape, Beyond
  <2> QED BY <1>2, <2>2, <2>3 DEF Told, Shape, Beyond, TypeOK, Facets, Roles
<1> QED
  BY <1>1, <1>2, StartTold, AlwaysTold, StepBeyond, PTL DEF Spec

----------------------------------------------------------------------------
\* Two passes that overlap, a crash, a promotion between them: a row that is
\* classified keeps its facets (updateClassification's WHERE clause).
THEOREM ClassifiedForGood == Spec => ClassifiedOnce
<1>1. Told /\ [Next]_vars => [\A d \in Docs : row[d] # None => row'[d] = row[d]]_vars
  BY Growing DEF Grown
<1> QED
  BY <1>1, AlwaysTold, PTL DEF Spec, ClassifiedOnce

LEMMA OneStateKept ==
  ASSUME Told, TermHasOneState, [Next]_vars
  PROVE  TermHasOneState'
<1> USE DEF TermHasOneState
<1>1. CASE Quiet \/ Ingest
  BY <1>1 DEF Quiet, Ingest, tables
<1>2. ASSUME NEW ts, Promote(ts) PROVE TermHasOneState'
  BY <1>2 DEF Promote
<1>3. ASSUME NEW p \in Procs, Commits(p) PROVE TermHasOneState'
  BY <1>3 DEF Commits, InsertProposed
<1>4. ASSUME NEW p \in Procs, Renames(p) \/ Indexes(p) PROVE TermHasOneState'
  BY <1>4 DEF Renames, Indexes, tables
<1> QED
  BY <1>1, <1>2, <1>3, <1>4, Kinds

\* insertProposedTerm and promote: no term is established and proposed at once.
LEMMA OneStatePerTerm == Spec => []TermHasOneState
<1>1. Init => TermHasOneState
  BY DEF Init, TermHasOneState
<1> QED
  BY <1>1, OneStateKept, AlwaysTold, PTL DEF Spec

LEMMA FrontKept ==
  ASSUME Told, FrontNeverAhead, [Next]_vars
  PROVE  FrontNeverAhead'
<1> USE DEF FrontNeverAhead
<1>1. CASE Quiet \/ Ingest
  BY <1>1 DEF Quiet, Ingest, tables, files
<1>2. ASSUME NEW ts, Promote(ts) PROVE FrontNeverAhead'
  BY <1>2 DEF Promote, files
<1>3. ASSUME NEW p \in Procs, Commits(p) PROVE FrontNeverAhead'
  BY <1>3 DEF Commits, AffectsRow, Told, Shape
<1>4. ASSUME NEW p \in Procs, Renames(p) PROVE FrontNeverAhead'
  <2>1. row[doc[p]] = out[p] /\ UNCHANGED row
    BY <1>4 DEF Renames, Told, InHand, tables
  <2> QED BY <1>4, <2>1 DEF Renames, NewBody, Told, Shape
<1>5. ASSUME NEW p \in Procs, Indexes(p) PROVE FrontNeverAhead'
  BY <1>5 DEF Indexes
<1> QED
  BY <1>1, <1>2, <1>3, <1>4, <1>5, Kinds

\* persistClassification, COMMIT before rename: no body file shows facets that
\* its row does not have.
THEOREM FrontFollowsRow == Spec => []FrontNeverAhead
<1>1. Init => FrontNeverAhead
  BY DEF Init, FrontNeverAhead
<1> QED
  BY <1>1, FrontKept, AlwaysTold, PTL DEF Spec

LEMMA TagsKept ==
  ASSUME Told, TagsKnown, [Next]_vars
  PROVE  TagsKnown'
<1> DEFINE Known == established \cup proposed
           TagsOf(o) == {<<"tag", t>> : t \in o.tags}
<1>1. SUFFICES ASSUME NEW d \in Docs, row'[d] # None
               PROVE  TagsOf(row'[d]) \subseteq Known'
  <2>1. Classified' \subseteq Docs
    BY Growing, Bounds DEF Grown, Classified, Docs
  <2> QED BY <2>1 DEF TagsKnown, Classified
<1>2. row[d] # None => TagsOf(row[d]) \subseteq Known
  BY DEF TagsKnown, Classified, Told, Shape, Have
<1>3. CASE Quiet \/ Ingest \/ (\E p \in Procs : Renames(p) \/ Indexes(p))
  BY <1>1, <1>2, <1>3 DEF Quiet, Ingest, Renames, Indexes, tables
<1>4. ASSUME NEW ts, Promote(ts) PROVE TagsOf(row'[d]) \subseteq Known'
  BY <1>1, <1>2, <1>4 DEF Promote
<1>5. ASSUME NEW p \in Procs, Commits(p) PROVE TagsOf(row'[d]) \subseteq Known'
  <2>1. Known \subseteq Known'
    BY <1>5 DEF Commits, InsertProposed
  <2>2. CASE d # doc[p]
    BY <1>1, <1>2, <1>5, <2>1, <2>2 DEF Commits, Told, Shape
  <2>3. CASE d = doc[p]
    <3>1. row'[d] = out[p]
      BY <1>5, <2>3 DEF Commits, Told, Shape
    <3>2. TagsOf(out[p]) \subseteq vocab[p] \cup Proposals(out[p])
      BY <1>5 DEF Commits, Told, InHand, Validate, Proposals
    <3>3. vocab[p] \subseteq established
      BY <1>5 DEF Told, Shape
    <3>4. vocab[p] \cup Proposals(out[p]) \subseteq Known'
      BY <1>5, <3>3 DEF Commits, InsertProposed
    <3> QED BY <3>1, <3>2, <3>4
  <2> QED BY <2>2, <2>3
<1> QED
  BY <1>3, <1>4, <1>5, Kinds

\* The tags of every row are terms of the taxonomy.
LEMMA TagsAreTerms == Spec => []TagsKnown
<1>1. Init => TagsKnown
  BY EnrichAssumption DEF Init, TagsKnown, Classified
<1> QED
  BY <1>1, TagsKept, AlwaysTold, PTL DEF Spec

\* validateClassifierOutput and insertProposedTerm, with a vocabulary read long before and
\* terms promoted since: the rows name terms, and each of these has one state.
THEOREM TaxonomyStaysSound == Spec => []TaxonomySound
<1>1. TagsKnown /\ TermHasOneState => TaxonomySound
  BY DEF TaxonomySound
<1> QED
  BY <1>1, TagsAreTerms, OneStatePerTerm, PTL

LEMMA IndexKept ==
  ASSUME Told, IndexIsWhole, [Next]_vars
  PROVE  IndexIsWhole'
<1>1. Classified \subseteq Classified' /\ Have \subseteq Have'
  <2>1. Grown
    BY Growing
  <2> QED BY EnrichAssumption, <2>1 DEF Classified, Have, Grown, Docs, Told, Shape
<1>2. CASE UNCHANGED <<vec, fts, edges>>
  BY <1>1, <1>2 DEF IndexIsWhole, Have
<1>3. ASSUME NEW p \in Procs, Indexes(p) PROVE IndexIsWhole'
  <2>1. doc[p] \in Classified /\ doc[p] \in Docs
    <3>1. doc[p] \in Have /\ row[doc[p]] # None
      BY <1>3 DEF Indexes, Told, InHand, Retrieving
    <3> QED BY <3>1, Bounds DEF Classified, Have
  <2>2. doc[p] \notin vec /\ links[p] \subseteq Have
    BY <1>3 DEF Indexes, Violates, Have
  <2>3. vec' \subseteq Classified'
    BY <1>1, <1>3, <2>1 DEF Indexes, IndexIsWhole
  <2>4. edges' \subseteq vec' \X Have'
    BY <1>1, <1>3, <2>2 DEF Indexes, IndexIsWhole, Have
  <2>5. ASSUME NEW d \in Docs PROVE Len(fts'[d]) = IF d \in vec' THEN 1 ELSE 0
    <3>1. fts[d] \in Seq(Facets) /\ out[p] \in Facets /\ Len(fts[d]) = IF d \in vec THEN 1 ELSE 0
      BY DEF Told, Shape, IndexIsWhole
    <3>2. fts'[d] = IF d = doc[p] THEN Append(fts[d], out[p]) ELSE fts[d]
      BY <1>3 DEF Indexes, Told, Shape
    <3>3. Len(Append(fts[d], out[p])) = Len(fts[d]) + 1
      BY <3>1
    <3>4. d \in vec' <=> d \in vec \/ d = doc[p]
      BY <1>3 DEF Indexes
    <3> QED BY <2>2, <3>1, <3>2, <3>3, <3>4
  <2> QED BY <2>3, <2>4, <2>5 DEF IndexIsWhole, Have
<1>4. \/ UNCHANGED <<vec, fts, edges>> \/ \E p \in Procs : Indexes(p)
  BY Kinds DEF Quiet, Ingest, Promote, Commits, Renames, tables
<1> QED
  BY <1>2, <1>3, <1>4

\* persistIndex: whatever overlaps or dies, an indexed document is classified
\* and has exactly one full-text row, and no edge dangles.
THEOREM IndexStaysWhole == Spec => []IndexIsWhole
<1>1. Init => IndexIsWhole
  BY DEF Init, IndexIsWhole
<1> QED
  BY <1>1, IndexKept, AlwaysTold, PTL DEF Spec

\* A step that changes a table is a step of the corpus.
LEMMA StepsOfCorpus ==
  ASSUME Told, IndexIsWhole, [Next]_vars
  PROVE  [C!Next]_(C!store)
<1>0. MaxDocs \in Nat /\ ingested \in 0 .. MaxDocs /\ Have \subseteq Docs
  BY Bounds DEF Told, Shape
<1>1. CASE Quiet \/ \E ts : Promote(ts)
  BY <1>1 DEF Quiet, Promote, tables, C!store
<1>2. CASE Ingest
  <2>1. ingested + 1 \in Docs \ Have /\ 1 .. ingested' = Have \cup {ingested + 1}
    BY <1>0, <1>2 DEF Ingest, Docs, Have
  <2>2. C!Commit(ingested + 1)
    BY <1>2, <2>1 DEF Ingest, C!Commit, Have
  <2> QED BY <2>1, <2>2 DEF C!Next
<1>3. ASSUME NEW p \in Procs, Commits(p) PROVE C!Next
  <2>1. doc[p] \in Have /\ doc[p] \in Docs /\ out[p] \in Outputs \ {None} /\ row[doc[p]] = None
    BY <1>0, <1>3, EnrichAssumption DEF Commits, AffectsRow, Told, InHand, Classifying
  <2>2. C!Classify(doc[p])
    BY <1>3, <2>1 DEF Commits, C!Classify, Have
  <2> QED BY <2>1, <2>2 DEF C!Next
<1>4. ASSUME NEW p \in Procs, Renames(p) PROVE UNCHANGED C!store
  BY <1>4 DEF Renames, tables, C!store
<1>5. ASSUME NEW p \in Procs, Indexes(p) PROVE C!Next
  <2>1. /\ doc[p] \in Have /\ doc[p] \in Docs /\ row[doc[p]] # None
        /\ doc[p] \notin vec /\ links[p] \subseteq Have
    BY <1>0, <1>5 DEF Indexes, Violates, Told, InHand, Retrieving, Have
  <2>2. doc[p] \in C!Classified \ vec
    BY <2>1 DEF C!Classified, Have
  <2>3. links[p] \in SUBSET (1 .. ingested)
    BY <2>1 DEF Have
  <2>4. C!IndexDoc(doc[p])
    BY <1>5, <2>2, <2>3 DEF Indexes, C!IndexDoc
  <2> QED BY <2>1, <2>4 DEF C!Next
<1> QED
  BY <1>1, <1>2, <1>3, <1>4, <1>5, Kinds

\* The writers implement the corpus its readers rely on, whatever overlaps, is killed, told
\* to stop or robbed of the lock: no row is classified twice or indexed before it is
\* classified, and no step shows a reader a document half indexed.
THEOREM EnrichImplementsCorpus == Spec => ImplementsCorpus
<1>1. Init => C!Whole
  <2> SUFFICES ASSUME Init PROVE C!Whole
    OBVIOUS
  <2>1. 1 .. ingested = {}
    BY DEF Init
  <2> QED BY <2>1 DEF Init, C!Whole, C!Classified
<1>2. Told /\ IndexIsWhole /\ [Next]_vars => [C!Next]_(C!store)
  BY StepsOfCorpus
<1> QED
  BY <1>1, <1>2, IndexStaysWhole, AlwaysTold, PTL DEF Spec, ImplementsCorpus, C!Spec

----------------------------------------------------------------------------
\* TagsLinked is not inductive: between EdgesBuild and Index a process holds
\* edges that may be stale. Each classified document that overlaps with the one
\* in hand is in its edges, or has the edge already, or everyone about to index
\* it has the edge.
Covered(q, e) ==
  \/ e \in links[q]
  \/ e \in vec /\ <<e, doc[q]>> \in edges
  \/ e \notin vec /\ \A r \in Procs : pc[r] = "index" /\ doc[r] = e => doc[q] \in links[r]

LinksCover ==
  \A q \in Procs : pc[q] = "index" =>
    \A e \in Classified \ {doc[q]} : TagOverlap(row[doc[q]].tags, row[e].tags) => Covered(q, e)

LEMMA OverlapIsMutual ==
  ASSUME NEW s, NEW t, IsFiniteSet(s), IsFiniteSet(t), TagOverlap(s, t)
  PROVE  TagOverlap(t, s)
<1>1. s \cap t = t \cap s /\ s \cup t = t \cup s
  OBVIOUS
<1>2. t # {}
  <2>1. SUFFICES ASSUME t = {} PROVE FALSE
    OBVIOUS
  <2>2. s \cap t = {} /\ s \cup t = s
    BY <2>1
  <2>3. Cardinality(s) \in Nat /\ Cardinality(s) # 0 /\ Cardinality(s \cap t) = 0
    BY <2>2, FS_CardinalityType, FS_EmptySet DEF TagOverlap
  <2>4. 10 * Cardinality(s \cap t) >= 3 * Cardinality(s)
    BY <2>2 DEF TagOverlap
  <2> QED BY <2>3, <2>4
<1> QED BY <1>1, <1>2 DEF TagOverlap

LEMMA MutualRows ==
  ASSUME Told, NEW d \in Classified, NEW e \in Classified, TagOverlap(row[d].tags, row[e].tags)
  PROVE  TagOverlap(row[e].tags, row[d].tags)
<1>1. row[d] \in Outputs /\ row[e] \in Outputs
  BY Bounds DEF Classified, Told, Shape, Facets, Have
<1> QED BY <1>1, OverlapIsMutual, EnrichAssumption

Same(q) == UNCHANGED <<pc[q], doc[q], links[q]>>
Built(q) ==
  /\ doc'[q] = doc[q] /\ \E near \in Near(doc[q]) : links'[q] = BuildEdges(doc[q], near)
  /\ UNCHANGED <<ingested, row, vec, edges>>

\* Who is about to index was, or has just built its edges.
LEMMA Entering ==
  ASSUME Told, [Next]_vars, NEW q \in Procs, pc'[q] = "index"
  PROVE  Same(q) \/ Built(q)
<1> USE DEF Same, locals, scratch, steady, tables, control
<1>1. CASE UNCHANGED vars \/ Ingest \/ Rob \/ \E ts : Promote(ts)
  BY <1>1 DEF vars, Ingest, Rob, Promote
<1>2. ASSUME NEW p \in Procs,
             \/ Boot(p) \/ Exit(p) \/ Step(p) \/ \E r \in Roles : Start(p, r)
             \/ LoadFails(p) \/ Mute(p) \/ Abort(p) \/ Crash(p)
      PROVE Same(q) \/ Built(q)
  <2>1. Moves(p) /\ Shape
    BY <1>2, Acting DEF Told
  <2>2. CASE p # q
    BY <2>1, <2>2 DEF Moves, Mine
  <2>3. CASE p = q /\ EdgesBuild(p) /\ ~Throw(p) /\ ~Stuck(p)
    BY <2>1, <2>3 DEF EdgesBuild, Built, Shape
  <2>4. CASE p = q /\ UNCHANGED <<pc, doc, links>>
    BY <2>4
  <2>5. ASSUME NEW l \in Points, p = q, Goto(p, l), l # "index" PROVE FALSE
    BY <2>1, <2>5 DEF Goto, Shape
  <2>6. CASE p = q /\ (EndPass(p) \/ FailureLane(p) \/ PersistFailed(p) \/ Throw(p) \/ Stuck(p))
    BY <2>5, <2>6 DEF EndPass, FailureLane, PersistFailed, Throw, Stuck, Points
  <2>7. CASE Boot(p) \/ Exit(p) \/ Crash(p) \/ TakeDoc(p)
    BY <2>2, <2>5, <2>7 DEF Boot, Exit, Crash, TakeDoc, Points, Classifying, Retrieving
  <2>8. CASE \E r \in Roles : Start(p, r)
    BY <2>1, <2>2, <2>5, <2>8 DEF Start, Points, Shape
  <2>9. CASE LoadFails(p) \/ Mute(p) \/ Abort(p) \/ Finish(p) \/ Unavailable(p) \/ AskAborted(p)
    BY <2>2, <2>4, <2>6, <2>9 DEF LoadFails, Mute, Abort, Finish, Unavailable, AskAborted
  <2>10. CASE SchemaInvalid(p) \/ \E o \in Outputs : Answered(p, o)
    BY <2>2, <2>4, <2>5, <2>10 DEF SchemaInvalid, Answered, Points, Classifying
  <2>11. CASE PersistStart(p) \/ Transaction(p) \/ RenameBody(p)
    BY <2>2, <2>5, <2>6, <2>11
       DEF PersistStart, Transaction, RenameBody, Points, Classifying, Retrieving
  <2>12. CASE Embed(p) \/ EdgesBuild(p) \/ Index(p)
    BY <2>2, <2>3, <2>5, <2>6, <2>12 DEF Embed, EdgesBuild, Index, Points, Retrieving
  <2> QED BY <1>2, <2>7, <2>8, <2>9, <2>10, <2>11, <2>12 DEF Step
<1> QED
  BY <1>1, <1>2 DEF Next, PromoteFrequent, Roles

LEMMA InHandClassified ==
  ASSUME Told, NEW q \in Procs, pc[q] = "index"
  PROVE  doc[q] \in Classified
<1>1. doc[q] \in Have /\ row[doc[q]] # None
  BY DEF Told, InHand, Retrieving
<1> QED BY <1>1 DEF Classified, Have

LEMMA CoverKept ==
  ASSUME Told, IndexIsWhole, LinksCover, [Next]_vars
  PROVE  LinksCover'
<1>1. SUFFICES ASSUME NEW q \in Procs, pc'[q] = "index",
                      NEW e \in Classified', e # doc'[q],
                      TagOverlap(row'[doc'[q]].tags, row'[e].tags)
               PROVE  Covered(q, e)'
  BY DEF LinksCover
<1>2. Same(q) \/ Built(q)
  BY <1>1, Entering
<1>3. ASSUME NEW r \in Procs, pc'[r] = "index" PROVE Same(r) \/ Built(r)
  BY <1>3, Entering
<1>4. CASE Built(q)
  <2>1. Classified' = Classified
    BY <1>4 DEF Built, Classified
  <2> QED BY <1>1, <1>4, <2>1 DEF Built, BuildEdges, Covered
<1>5. CASE Same(q) /\ UNCHANGED <<row, vec, edges, Classified>>
  <2>1. doc[q] \in Classified
    BY <1>1, <1>5, InHandClassified DEF Same
  <2>2. Covered(q, e)
    BY <1>1, <1>5 DEF LinksCover, Same
  <2>3. CASE e \in links[q] \/ (e \in vec /\ <<e, doc[q]>> \in edges)
    BY <1>5, <2>3 DEF Covered, Same
  <2>4. CASE e \notin vec /\ \A r \in Procs : pc[r] = "index" /\ doc[r] = e => doc[q] \in links[r]
    <3>1. TagOverlap(row[e].tags, row[doc[q]].tags)
      BY <1>1, <1>5, <2>1, MutualRows DEF Same
    <3>2. ASSUME NEW r \in Procs, pc'[r] = "index", doc'[r] = e PROVE doc[q] \in links'[r]
      <4>1. CASE Same(r)
        BY <2>4, <3>2, <4>1 DEF Same
      <4>2. CASE Built(r)
        BY <1>1, <1>5, <2>1, <3>1, <3>2, <4>2 DEF Built, BuildEdges, Same
      <4> QED BY <1>3, <3>2, <4>1, <4>2
    <3> QED BY <1>5, <2>4, <3>2 DEF Covered, Same
  <2> QED BY <2>2, <2>3, <2>4 DEF Covered
<1>6. ASSUME NEW p \in Procs, Commits(p), Same(q) PROVE Covered(q, e)'
  <2>1. doc[p] \in Have /\ out[p] # None /\ doc[p] \in Docs
    BY EnrichAssumption, <1>6, Bounds DEF Commits, Told, InHand, Classifying
  <2>2. row' # row /\ Classified' = Classified \cup {doc[p]} /\ doc[p] \notin Classified
        /\ \A d \in Docs \ {doc[p]} : row'[d] = row[d]
    BY <1>6, <2>1 DEF Commits, AffectsRow, Told, Shape, Classified, Have
  <2>3. ASSUME NEW r \in Procs, pc'[r] = "index" PROVE Same(r)
    BY <1>3, <2>2, <2>3 DEF Built
  <2>4. doc[q] \in Classified
    BY <1>1, <1>6, InHandClassified DEF Same
  <2>5. CASE e = doc[p]
    <3>1. e \notin vec
      BY <2>2, <2>5 DEF IndexIsWhole
    <3>2. \A r \in Procs : pc'[r] = "index" => doc'[r] # e
      BY <2>2, <2>3, <2>5, InHandClassified DEF Same
    <3> QED BY <1>6, <3>1, <3>2 DEF Covered, Commits
  <2>6. CASE e # doc[p]
    <3>1. e \in Classified /\ e \in Docs /\ doc[q] \in Docs
      BY <1>1, <2>2, <2>4, <2>6, Bounds DEF Classified, Have
    <3>2. row'[e] = row[e] /\ row'[doc[q]] = row[doc[q]]
      BY <2>2, <2>4, <2>6, <3>1
    <3>3. Covered(q, e)
      BY <1>1, <1>6, <3>1, <3>2 DEF LinksCover, Same
    <3> QED BY <1>6, <2>3, <3>3 DEF Covered, Commits, Same
  <2> QED BY <2>5, <2>6
<1>7. ASSUME NEW p \in Procs, Indexes(p), Same(q) PROVE Covered(q, e)'
  <2>1. vec' = vec \cup {doc[p]} /\ doc[p] \notin vec /\ edges' = edges \cup ({doc[p]} \X links[p])
        /\ pc[p] = "index" /\ UNCHANGED <<row, Classified>>
    BY <1>7 DEF Indexes, Violates, Classified
  <2>2. ASSUME NEW r \in Procs, pc'[r] = "index" PROVE Same(r)
    BY <1>3, <2>1, <2>2 DEF Built
  <2>3. Covered(q, e)
    BY <1>1, <1>7, <2>1 DEF LinksCover, Same
  <2>4. CASE e \in links[q] \/ (e \in vec /\ <<e, doc[q]>> \in edges)
    BY <1>7, <2>1, <2>4 DEF Covered, Same
  <2>5. CASE e \notin vec /\ (\A r \in Procs : pc[r] = "index" /\ doc[r] = e => doc[q] \in links[r])
             /\ e = doc[p]
    BY <1>7, <2>1, <2>5 DEF Covered, Same
  <2>6. CASE e \notin vec /\ (\A r \in Procs : pc[r] = "index" /\ doc[r] = e => doc[q] \in links[r])
             /\ e # doc[p]
    BY <1>7, <2>1, <2>2, <2>6 DEF Covered, Same
  <2> QED BY <2>3, <2>4, <2>5, <2>6 DEF Covered
<1>8. CASE Quiet \/ (\E ts : Promote(ts)) \/ \E p \in Procs : Renames(p)
  <2>1. UNCHANGED <<row, vec, edges, Classified>>
    BY <1>8 DEF Quiet, Promote, Renames, tables, Classified
  <2> QED BY <1>2, <1>4, <1>5, <2>1
<1>9. CASE Ingest
  <2>1. UNCHANGED <<row, vec, edges>> /\ ingested' = ingested + 1 /\ ingested < MaxDocs
    BY <1>9 DEF Ingest
  <2>2. ingested + 1 \in Docs /\ row[ingested + 1] = None
    <3>1. ingested + 1 \in Docs /\ ingested + 1 \notin Have
      BY <2>1, Bounds DEF Docs, Have
    <3> QED BY <3>1 DEF Told, Shape
  <2>3. Classified' = Classified
    BY <2>1, <2>2, Bounds DEF Classified
  <2> QED BY <1>2, <1>4, <1>5, <2>1, <2>3
<1> QED
  BY <1>2, <1>4, <1>6, <1>7, <1>8, <1>9, Kinds

LEMMA TagsLinkedKept ==
  ASSUME Told, IndexIsWhole, LinksCover, TagsLinked, [Next]_vars
  PROVE  TagsLinked'
<1>1. \A d \in vec : row'[d] = row[d]
  BY Growing, Bounds DEF Grown, IndexIsWhole, Classified, Have
<1>2. CASE UNCHANGED <<vec, edges>>
  BY <1>1, <1>2 DEF TagsLinked
<1>3. ASSUME NEW p \in Procs, Indexes(p) PROVE TagsLinked'
  <2>1. vec' = vec \cup {doc[p]} /\ edges' = edges \cup ({doc[p]} \X links[p])
        /\ pc[p] = "index" /\ doc[p] \notin vec /\ UNCHANGED row
    BY <1>3 DEF Indexes, Violates
  <2>2. doc[p] \in Classified
    BY <2>1, InHandClassified
  <2>3. ASSUME NEW e \in vec, TagOverlap(row[doc[p]].tags, row[e].tags)
        PROVE  {<<doc[p], e>>, <<e, doc[p]>>} \cap edges' # {}
    <3>1. Covered(p, e)
      BY <2>1, <2>3 DEF LinksCover, IndexIsWhole
    <3>2. <<doc[p], e>> \in edges' \/ <<e, doc[p]>> \in edges'
      BY <2>1, <2>3, <3>1 DEF Covered
    <3> QED BY <3>2
  <2>4. ASSUME NEW e \in vec, TagOverlap(row[e].tags, row[doc[p]].tags)
        PROVE  TagOverlap(row[doc[p]].tags, row[e].tags)
    BY <2>2, <2>4, MutualRows DEF IndexIsWhole
  <2> QED BY <2>1, <2>3, <2>4 DEF TagsLinked
<1>4. \/ UNCHANGED <<vec, edges>> \/ \E p \in Procs : Indexes(p)
  BY Kinds DEF Quiet, Ingest, Promote, Commits, Renames, tables
<1> QED
  BY <1>2, <1>3, <1>4

\* buildEdges and persistIndex: of two indexed documents with similar tags one
\* has the edge, although edges are computed before the transaction that stores
\* them and passes may overlap.
THEOREM SimilarTagsAreLinked == Spec => []TagsLinked
<1>1. Init => LinksCover /\ TagsLinked /\ IndexIsWhole
  BY DEF Init, LinksCover, TagsLinked, IndexIsWhole
<1> QED
  BY <1>1, CoverKept, TagsLinkedKept, IndexKept, AlwaysTold, PTL DEF Spec

----------------------------------------------------------------------------
(* What rests on the drain lock. A process that works and was not told to    *)
(* stop holds it, as long as nobody steals it: an aborted one gives it up    *)
(* but commits nothing to the index any more.                                *)

Acts(p) ==
  \/ Boot(p) \/ Exit(p) \/ Step(p) \/ \E r \in Roles : Start(p, r)
  \/ LoadFails(p) \/ Mute(p) \/ Abort(p) \/ Crash(p)

\* A step is one of a process, or one that leaves what the processes hold alone.
LEMMA Actors ==
  ASSUME [Next]_vars
  PROVE  \/ \E p \in Procs : Acts(p)
         \/ Rob
         \/ UNCHANGED <<holder, pc, role, todo, doc, vocab, out, links, stop, sidecars>>
<1>1. CASE UNCHANGED vars
  BY <1>1 DEF vars, locals, scratch, control, files
<1>2. CASE Ingest \/ (\E ts : Promote(ts))
  BY <1>2 DEF Ingest, Promote, locals, scratch, control, files
<1> QED
  BY <1>1, <1>2 DEF Next, PromoteFrequent, Acts, Roles

Working == {"next"} \cup Classifying \cup Retrieving
LockHeld ==
  /\ stop \in [Procs -> BOOLEAN] /\ holder \in Procs \cup {None}
  /\ \A p \in Procs : pc[p] \in Working /\ ~stop[p] => holder = p

\* What a step of p does to the lock and to its signal.
Hands(p) ==
  /\ stop' \in [Procs -> BOOLEAN] /\ \A q \in Procs \ {p} : stop'[q] = stop[q]
  /\ \/ holder' = holder /\ (pc'[p] \in Working /\ ~stop'[p] => pc[p] \in Working /\ ~stop[p])
     \/ holder' = p /\ holder = None
     \/ holder' = None /\ holder \in {None, p} /\ (pc'[p] \in Working => stop'[p])

LEMMA Keeping ==
  ASSUME LockHeld, NEW p \in Procs, UNCHANGED <<holder, stop>>,
         pc[p] \in Working \/ pc'[p] \notin Working
  PROVE  Hands(p)
BY DEF LockHeld, Hands

LEMMA Releasing ==
  ASSUME LockHeld, Told, NEW p \in Procs, EndPass(p), UNCHANGED stop
  PROVE  Hands(p)
<1>1. pc'[p] = "idle" /\ holder' = IF holder = p THEN None ELSE holder
  BY DEF EndPass, Goto, Release, Told, Shape
<1> QED
  BY <1>1 DEF LockHeld, Hands, Working, Classifying, Retrieving

LEMMA Handing ==
  ASSUME Told, LockHeld, NEW p \in Procs, Acts(p)
  PROVE  Hands(p)
<1> USE DEF locals, scratch, steady, control
<1>0. pc \in [Procs -> Points]
  BY DEF Told, Shape
<1>1. CASE Boot(p)
  <2>1. pc'[p] = "idle" /\ UNCHANGED holder /\ stop' = [stop EXCEPT ![p] = FALSE]
    BY <1>0, <1>1 DEF Boot, Goto
  <2> QED BY <2>1 DEF Hands, LockHeld, Working, Classifying, Retrieving
<1>2. CASE Exit(p)
  <2>1. pc'[p] = "down" /\ UNCHANGED <<holder, stop>>
    BY <1>0, <1>2 DEF Exit, Goto
  <2> QED BY <2>1, Keeping DEF Working, Classifying, Retrieving
<1>3. ASSUME NEW r \in Roles, Start(p, r) PROVE Hands(p)
  <2>1. CASE UNCHANGED <<holder, pc>>
    BY <1>3, <2>1, Keeping DEF Start
  <2>2. CASE LockFree /\ holder' = (IF stop[p] THEN None ELSE p)
    BY <1>3, <2>2 DEF Start, LockFree, Hands, LockHeld
  <2> QED BY <1>3, <2>1, <2>2 DEF Start
<1>4. CASE Abort(p)
  <2>1. /\ stop' = [stop EXCEPT ![p] = TRUE] /\ UNCHANGED pc
        /\ holder' = IF holder = p THEN None ELSE holder
    BY <1>4 DEF Abort
  <2> QED BY <2>1 DEF Hands, LockHeld
<1>5. CASE Crash(p)
  <2>1. pc'[p] = "down" /\ UNCHANGED stop /\ holder' = IF holder = p THEN None ELSE holder
    BY <1>0, <1>5 DEF Crash, Goto
  <2> QED BY <2>1 DEF Hands, LockHeld, Working, Classifying, Retrieving
<1>6. CASE EndPass(p) /\ UNCHANGED stop
  BY <1>6, Releasing
<1>7. CASE UNCHANGED <<holder, stop>> /\ pc[p] \in Working
  BY <1>7, Keeping
<1>8. CASE LoadFails(p) \/ Mute(p) \/ Finish(p) \/ TakeDoc(p) \/ Unavailable(p) \/ AskAborted(p)
            \/ SchemaInvalid(p) \/ \E o \in Outputs : Answered(p, o)
  BY <1>6, <1>7, <1>8
     DEF LoadFails, Mute, Finish, TakeDoc, Unavailable, AskAborted, SchemaInvalid, Answered,
         FailureLane, Throw, Working, Classifying, Retrieving
<1>9. CASE PersistStart(p) \/ Transaction(p) \/ RenameBody(p)
  BY <1>6, <1>7, <1>9
     DEF PersistStart, Transaction, RenameBody, PersistFailed, FailureLane, Working, Classifying
<1>10. CASE Embed(p) \/ EdgesBuild(p) \/ Index(p)
  BY <1>6, <1>7, <1>10
     DEF Embed, EdgesBuild, Index, Stuck, FailureLane, Throw, Working, Retrieving
<1> QED
  BY <1>1, <1>2, <1>3, <1>4, <1>5, <1>8, <1>9, <1>10 DEF Acts, Step

LEMMA LockKept ==
  ASSUME ~CanRob, Told, LockHeld, [Next]_vars
  PROVE  LockHeld'
<1>1. CASE UNCHANGED <<holder, pc, stop>>
  BY <1>1 DEF LockHeld
<1>2. ASSUME NEW p \in Procs, Acts(p) PROVE LockHeld'
  <2>1. Hands(p)
    BY <1>2, Handing
  <2>2. \A q \in Procs \ {p} : UNCHANGED pc[q]
    BY <1>2, Acting DEF Acts, Moves, Mine
  <2>3. holder' \in Procs \cup {None}
    BY <2>1 DEF Hands, LockHeld
  <2>4. ASSUME NEW q \in Procs, pc'[q] \in Working, ~stop'[q] PROVE holder' = q
    <3>1. CASE q = p
      BY <2>1, <2>4, <3>1 DEF Hands, LockHeld
    <3>2. CASE q # p
      <4>1. holder = q
        BY <2>1, <2>2, <2>4, <3>2 DEF Hands, LockHeld
      <4> QED BY EnrichAssumption, <2>1, <3>2, <4>1 DEF Hands
    <3> QED BY <3>1, <3>2
  <2> QED BY <2>1, <2>3, <2>4 DEF LockHeld, Hands
<1> QED
  BY <1>1, <1>2, Actors DEF Rob

\* A signal is forgotten only by a new process.
LEMMA SignalStays ==
  ASSUME Told, LockHeld, [Next]_vars, NEW q \in Procs, pc'[q] = "index", ~stop'[q]
  PROVE  ~stop[q]
<1>1. CASE UNCHANGED stop
  BY <1>1
<1>2. ASSUME NEW p \in Procs, Acts(p) PROVE ~stop[q]
  <2>1. CASE p # q
    BY <1>2, <2>1, Handing DEF Hands
  <2>2. CASE Boot(p) \/ Abort(p)
    BY <2>1, <2>2 DEF Boot, Abort, Goto, Told, Shape, LockHeld
  <2>3. CASE ~Boot(p) /\ ~Abort(p)
    BY <1>2, <2>3, <1>1 DEF Acts, Exit, Start, LoadFails, Mute, Crash, Step, Finish, TakeDoc,
       Unavailable, AskAborted, SchemaInvalid, Answered, PersistStart, Transaction, RenameBody,
       Embed, EdgesBuild, Index, locals
  <2> QED BY <2>2, <2>3
<1> QED
  BY <1>1, <1>2, Actors DEF Rob, locals

\* The edges in the hand of the holder lead to every similar indexed document.
SimilarCover ==
  \A q \in Procs : pc[q] = "index" /\ ~stop[q] =>
    \A e \in vec \ {doc[q]} : <<doc[q], e>> \in Similar => e \in links[q]

LEMMA SimilarCoverKept ==
  ASSUME ~CanRob, "vectors" \notin FailAt, Told, LockHeld, SimilarCover, [Next]_vars
  PROVE  SimilarCover'
<1>1. SUFFICES ASSUME NEW q \in Procs, pc'[q] = "index", ~stop'[q],
                      NEW e \in vec', e # doc'[q], <<doc'[q], e>> \in Similar
               PROVE  e \in links'[q]
  BY DEF SimilarCover
<1>2. CASE Built(q)
  BY <1>1, <1>2 DEF Built, BuildEdges, Near
<1>3. CASE Same(q)
  <2>1. pc[q] = "index" /\ ~stop[q] /\ holder = q
    BY <1>1, <1>3, SignalStays DEF Same, LockHeld, Working, Retrieving
  <2>2. e \in vec
    <3>1. CASE UNCHANGED vec
      BY <3>1
    <3>2. ASSUME NEW p \in Procs, Indexes(p) PROVE e \in vec
      <4>1. p = q
        BY <2>1, <3>2 DEF Indexes, LockHeld, Working, Retrieving
      <4> QED BY <1>1, <1>3, <3>2, <4>1 DEF Indexes, Same
    <3> QED
      BY <3>1, <3>2, Kinds DEF Quiet, Ingest, Promote, Commits, Renames, tables
  <2> QED BY <1>1, <1>3, <2>1, <2>2 DEF SimilarCover, Same
<1> QED BY <1>1, <1>2, <1>3, Entering

LEMMA SimilarLinkedKept ==
  ASSUME Told, LockHeld, SimilarCover, SimilarLinked, [Next]_vars
  PROVE  SimilarLinked'
<1>1. CASE UNCHANGED <<vec, edges>>
  BY <1>1 DEF SimilarLinked
<1>2. ASSUME NEW p \in Procs, Indexes(p) PROVE SimilarLinked'
  <2>1. vec' = vec \cup {doc[p]} /\ edges' = edges \cup ({doc[p]} \X links[p])
        /\ pc[p] = "index" /\ ~stop[p] /\ doc[p] \notin vec
    BY <1>2 DEF Indexes, Violates
  <2>2. ASSUME NEW e \in vec, <<doc[p], e>> \in Similar PROVE <<doc[p], e>> \in edges'
    BY <2>1, <2>2 DEF SimilarCover
  <2> QED BY <2>1, <2>2 DEF SimilarLinked
<1> QED
  BY <1>1, <1>2, Kinds DEF Quiet, Ingest, Promote, Commits, Renames, tables

LEMMA StartLocked == Init => LockHeld
BY DEF Init, LockHeld, Working, Classifying, Retrieving

\* summary_similarity compares with what is indexed when the edges are built, and stores
\* them later: of two similar documents one has the edge, through every kill and abort,
\* because only the holder of the drain lock indexes (edges-builder.ts). What breaks it is a
\* stolen lock, and a comparison with documents_vec that fails: buildEdges goes on without it.
THEOREM SimilarAreLinked ==
  ASSUME ~CanRob, "vectors" \notin FailAt
  PROVE  Spec => []SimilarLinked
<1>1. Init => SimilarCover /\ SimilarLinked
  BY DEF Init, SimilarCover, SimilarLinked
<1> QED
  BY <1>1, StartLocked, LockKept, SimilarCoverKept, SimilarLinkedKept, AlwaysTold, PTL DEF Spec

----------------------------------------------------------------------------
(* What rests on nobody being told to stop. *)

\* Without signals no process is ever told to stop.
NoSignal == stop = [p \in Procs |-> FALSE]

LEMMA NoSignalKept ==
  ASSUME ~CanAbort, NoSignal, [Next]_vars
  PROVE  NoSignal'
<1>1. CASE UNCHANGED stop
  BY <1>1 DEF NoSignal
<1>2. ASSUME NEW p \in Procs, Acts(p) PROVE NoSignal'
  <2>1. CASE Boot(p)
    BY <2>1 DEF Boot, NoSignal
  <2>2. CASE ~Boot(p)
    BY <1>1, <1>2, <2>2 DEF Acts, Exit, Start, LoadFails, Mute, Abort, Crash, Step, Finish,
       TakeDoc, Unavailable, AskAborted, SchemaInvalid, Answered, PersistStart, Transaction,
       RenameBody, Embed, EdgesBuild, Index, locals
  <2> QED BY <2>1, <2>2
<1> QED
  BY <1>1, <1>2, Actors DEF Rob, locals

\* Between the COMMIT and the rename a process stays where it is until it renames.
LEMMA RenameStays ==
  ASSUME ~CanAbort, "rename" \notin CrashAt, "rename" \notin FailAt,
         Told, NoSignal, [Next]_vars, NEW p \in Procs, pc[p] = "rename"
  PROVE  \/ pc'[p] = "rename" /\ doc'[p] = doc[p]
         \/ front' = NewBody(p) /\ UNCHANGED row
<1>1. ASSUME NEW q \in Procs, Acts(q), q # p PROVE UNCHANGED <<pc[p], doc[p]>>
  BY <1>1, Acting DEF Acts, Moves, Mine
<1>2. CASE RenameBody(p)
  BY <1>2 DEF RenameBody, NoSignal, tables
<1>3. CASE Acts(p)
  <2>1. ~stop[p]
    BY DEF NoSignal
  <2> QED
    BY <1>2, <1>3, <2>1 DEF Acts, Boot, Exit, Start, LoadFails, Mute, Abort, Crash, Step, Finish,
       TakeDoc, Unavailable, AskAborted, SchemaInvalid, Answered, PersistStart, Transaction,
       Embed, EdgesBuild, Index
<1> QED
  BY <1>1, <1>3, Actors DEF Rob, locals

LEMMA MirrorKept ==
  ASSUME ~CanAbort, "rename" \notin CrashAt, "rename" \notin FailAt,
         Told, NoSignal, FrontMirrorsRow, [Next]_vars
  PROVE  FrontMirrorsRow'
<1>1. SUFFICES ASSUME NEW d \in Docs
               PROVE  front'[d] = row'[d] \/ \E p \in Procs : pc'[p] = "rename" /\ doc'[p] = d
  BY DEF FrontMirrorsRow
<1>2. CASE front'[d] = front[d] /\ row'[d] = row[d]
  <2>1. ASSUME NEW p \in Procs, pc[p] = "rename", doc[p] = d
        PROVE  \/ pc'[p] = "rename" /\ doc'[p] = d
               \/ front'[d] = row'[d]
    <3>1. CASE front' = NewBody(p) /\ UNCHANGED row
      <4>1. front'[d] = out[p] /\ row[d] = out[p]
        BY <2>1, <3>1 DEF NewBody, Told, Shape, InHand
      <4> QED BY <3>1, <4>1
    <3> QED BY <2>1, <3>1, RenameStays
  <2> QED BY <1>2, <2>1 DEF FrontMirrorsRow
<1>3. CASE Quiet \/ Ingest \/ \E ts : Promote(ts)
  BY <1>2, <1>3 DEF Quiet, Ingest, Promote, tables, files
<1>4. ASSUME NEW p \in Procs, Indexes(p) PROVE UNCHANGED <<front, row>>
  BY <1>4 DEF Indexes
<1>5. ASSUME NEW p \in Procs, Commits(p), d = doc[p]
      PROVE  pc'[p] = "rename" /\ doc'[p] = d
  BY <1>5 DEF Commits, Goto, Told, Shape
<1>6. ASSUME NEW p \in Procs, Commits(p), d # doc[p]
      PROVE  front'[d] = front[d] /\ row'[d] = row[d]
  BY <1>6 DEF Commits, Told, Shape
<1>7. ASSUME NEW p \in Procs, Renames(p)
      PROVE  front'[d] = row'[d] \/ (front'[d] = front[d] /\ row'[d] = row[d])
  <2>1. row[doc[p]] = out[p] /\ UNCHANGED row
    BY <1>7 DEF Renames, Told, InHand, tables
  <2> QED BY <1>7, <2>1 DEF Renames, NewBody, Told, Shape
<1> QED
  BY <1>2, <1>3, <1>4, <1>5, <1>6, <1>7, Kinds

\* SC-CLASSIFY-005: row and body file agree except between the COMMIT and the rename,
\* if nobody is killed, aborted or fails there: persistClassification has nothing that
\* repairs the body file of a row it committed (classify-persister.ts).
THEOREM BodiesMirrorRows ==
  ASSUME ~CanAbort, "rename" \notin CrashAt, "rename" \notin FailAt
  PROVE  Spec => []FrontMirrorsRow
<1>1. Init => FrontMirrorsRow /\ NoSignal
  BY DEF Init, FrontMirrorsRow, NoSignal
<1> QED
  BY <1>1, MirrorKept, NoSignalKept, AlwaysTold, PTL DEF Spec

----------------------------------------------------------------------------
\* p left a sidecar of the document it had in hand, or did its job.
Dealt(p) ==
  \/ doc[p] \in sidecars
  \/ row[doc[p]] # None /\ (role[p] = "reenrich" \/ doc[p] \in vec)

Minds(p) ==
  /\ pc[p] \in {"next", "idle"} /\ doc[p] # None => Dealt(p)
  /\ pc[p] = "down" => doc[p] = None
  /\ pc[p] \in Classifying => role[p] # "reindex"

Dealing == \A p \in Procs : Minds(p)

\* What has been dealt with stays so.
LEMMA DealtStays ==
  ASSUME Told, Grown, sidecars \subseteq sidecars', vec \subseteq vec', NEW p \in Procs,
         UNCHANGED <<doc[p], role[p]>>, doc[p] # None, Dealt(p)
  PROVE  Dealt(p)'
<1>1. doc[p] \in Docs
  BY DEF Told, Shape
<1> QED BY <1>1 DEF Dealt, Grown

\* A failure is dealt with by its sidecar.
LEMMA LaneDeals ==
  ASSUME "sidecar" \notin FailAt, ~CanMute, Told, NEW p \in Procs,
         FailureLane(p) \/ PersistFailed(p) \/ Stuck(p), UNCHANGED doc
  PROVE  doc'[p] \in sidecars' /\ pc'[p] = "next"
BY DEF FailureLane, PersistFailed, Stuck, WriteErrorSidecar, Goto, Told, Shape

LEMMA SidecarsStay ==
  ASSUME "sidecar" \notin FailAt, ~CanMute, NoSignal, NEW p \in Procs, Acts(p)
  PROVE  sidecars \subseteq sidecars'
<1> USE DEF files, steady
<1>1. FailureLane(p) \/ PersistFailed(p) \/ Stuck(p) \/ WriteErrorSidecar(p)
        => sidecars \subseteq sidecars'
  BY DEF FailureLane, PersistFailed, Stuck, WriteErrorSidecar
<1>2. CASE UNCHANGED sidecars
  BY <1>2
<1> QED
  BY <1>1, <1>2 DEF Acts, Boot, Exit, Start, LoadFails, Mute, Abort, Crash, Step, Finish,
     TakeDoc, Unavailable, AskAborted, SchemaInvalid, Answered, PersistStart, Transaction,
     RenameBody, Embed, EdgesBuild, Index

LEMMA MindingSteps ==
  ASSUME ~CanAbort, ~CanMute, "sidecar" \notin FailAt, Told, NoSignal, Grown,
         vec \subseteq vec', NEW p \in Procs, Acts(p), Minds(p)
  PROVE  Minds(p)'
<1> USE DEF steady, scratch, locals, tables, files, control
<1>0. Shape /\ InHand(p) /\ ~stop[p] /\ sidecars \subseteq sidecars'
  BY SidecarsStay DEF Told, NoSignal
<1>1. CASE Boot(p)
  BY <1>0, <1>1 DEF Boot, Goto, Minds, Shape, Classifying
<1>2. CASE Exit(p) \/ Crash(p)
  BY <1>0, <1>2 DEF Exit, Crash, Goto, Minds, Shape, Classifying
<1>3. ASSUME NEW r \in Roles, Start(p, r) PROVE Minds(p)'
  <2>1. CASE UNCHANGED <<pc, role, doc>>
    <3>1. pc[p] = "idle" /\ UNCHANGED <<row, vec, sidecars>>
      BY <1>3 DEF Start
    <3> QED BY <2>1, <3>1 DEF Minds, Dealt, Classifying
  <2>2. CASE doc' = [doc EXCEPT ![p] = None] /\ Goto(p, "next")
    BY <1>0, <2>2 DEF Minds, Goto, Shape, Classifying
  <2> QED BY <1>3, <2>1, <2>2 DEF Start
<1>4. CASE Finish(p)
  <2>1. pc[p] = "next" /\ pc'[p] = "idle" /\ UNCHANGED <<doc, role, row, vec, sidecars>>
    BY <1>0, <1>4 DEF Finish, EndPass, Goto, Shape
  <2> QED BY <2>1 DEF Minds, Dealt, Classifying
<1>5. CASE TakeDoc(p)
  BY <1>0, <1>5 DEF TakeDoc, Goto, Minds, Shape, Classifying
<1>6. CASE (FailureLane(p) \/ PersistFailed(p) \/ Stuck(p)) /\ UNCHANGED doc
  <2>1. doc'[p] \in sidecars' /\ pc'[p] = "next"
    BY <1>0, <1>6, LaneDeals DEF Told
  <2> QED BY <2>1 DEF Minds, Dealt, Classifying
<1>7. CASE Unavailable(p) /\ WriteErrorSidecar(p) /\ EndPass(p)
  <2>1. doc'[p] \in sidecars' /\ pc'[p] = "idle"
    BY <1>0, <1>7 DEF Unavailable, WriteErrorSidecar, EndPass, Goto, Shape
  <2> QED BY <2>1 DEF Minds, Dealt, Classifying
<1>8. CASE LoadFails(p) \/ Unavailable(p) \/ AskAborted(p)
  BY <1>6, <1>7, <1>8 DEF LoadFails, Unavailable, AskAborted
<1>9. CASE SchemaInvalid(p) \/ \E o \in Outputs : Answered(p, o)
  <2>1. UNCHANGED <<doc, role>> /\ pc[p] = "ask"
    BY <1>9 DEF SchemaInvalid, Answered
  <2>2. CASE WriteErrorSidecar(p) /\ Goto(p, "next")
    BY <1>0, <2>1, <2>2 DEF WriteErrorSidecar, Goto, Minds, Dealt, Classifying, Shape
  <2>3. CASE UNCHANGED pc \/ Goto(p, "persist")
    BY <1>0, <2>1, <2>3 DEF Goto, Minds, Classifying, Shape
  <2> QED BY <1>9, <2>2, <2>3 DEF SchemaInvalid, Answered
<1>10. CASE PersistStart(p) \/ Transaction(p)
  <2>1. UNCHANGED <<doc, role>> /\ pc[p] \in Classifying
    BY <1>10 DEF PersistStart, Transaction, Classifying
  <2>2. CASE Goto(p, "txn") \/ Goto(p, "rename")
    BY <1>0, <2>1, <2>2 DEF Goto, Minds, Classifying, Shape
  <2> QED BY <1>0, <1>6, <1>10, <2>1, <2>2 DEF PersistStart, Transaction
<1>11. CASE RenameBody(p)
  <2>1. UNCHANGED <<doc, role, row>> /\ pc[p] = "rename" /\ doc[p] \in Docs
    BY <1>0, <1>11, Bounds DEF RenameBody, InHand, Classifying, Told
  <2>2. row[doc[p]] # None /\ role[p] # "reindex" /\ role[p] \in Roles
    BY <1>0, <2>1, EnrichAssumption DEF InHand, Minds, Classifying, Shape
  <2>3. CASE Goto(p, IF role[p] = "daemon" THEN "embed" ELSE "next")
    BY <1>0, <2>1, <2>2, <2>3 DEF Goto, Minds, Dealt, Classifying, Shape, Roles
  <2> QED BY <1>6, <1>11, <2>1, <2>3 DEF RenameBody
<1>12. CASE Embed(p) \/ EdgesBuild(p) \/ Index(p)
  <2>1. UNCHANGED <<doc, role, row>> /\ doc[p] \in Have /\ row[doc[p]] # None
    BY <1>0, <1>12 DEF Embed, EdgesBuild, Index, InHand, Retrieving
  <2>2. CASE Goto(p, "edges") \/ Goto(p, "index")
    BY <1>0, <2>1, <2>2 DEF Goto, Minds, Classifying, Shape
  <2>3. CASE Goto(p, "next") /\ doc[p] \in vec'
    BY <1>0, <2>1, <2>3 DEF Goto, Minds, Dealt, Classifying, Shape
  <2> QED BY <1>0, <1>6, <1>12, <2>1, <2>2, <2>3 DEF Embed, EdgesBuild, Index
<1> QED
  BY <1>1, <1>2, <1>3, <1>4, <1>5, <1>8, <1>9, <1>10, <1>11, <1>12
  DEF Acts, Step, Mute, Abort

LEMMA DealingKept ==
  ASSUME ~CanAbort, ~CanMute, "sidecar" \notin FailAt, Told, NoSignal, Dealing, [Next]_vars
  PROVE  Dealing'
<1>1. Grown
  BY Growing
<1>2. vec \subseteq vec'
  BY Kinds DEF Quiet, Ingest, Promote, Commits, Renames, Indexes, tables
<1>3. ASSUME NEW q \in Procs, UNCHANGED <<pc[q], doc[q], role[q]>>, sidecars \subseteq sidecars'
      PROVE  Minds(q)'
  BY <1>1, <1>2, <1>3, DealtStays DEF Minds, Dealing
<1>4. ASSUME NEW p \in Procs, Acts(p) PROVE Dealing'
  <2>1. sidecars \subseteq sidecars'
    BY <1>4, SidecarsStay
  <2>2. ASSUME NEW q \in Procs, q # p PROVE Minds(q)'
    BY <1>3, <1>4, <2>1, <2>2, Acting DEF Acts, Moves, Mine
  <2>3. Minds(p)'
    BY <1>1, <1>2, <1>4, MindingSteps DEF Dealing
  <2> QED BY <2>2, <2>3 DEF Dealing
<1> QED
  BY <1>3, <1>4, Actors DEF Rob, Dealing, locals, files

\* FR-CLASSIFY-011: a pass leaves no document without a row, an index entry or a sidecar,
\* however many passes overlap and die and whatever call fails; an abort, or an event or a
\* sidecar that cannot be written, leaves one in silence.
THEOREM NothingSkippedSilently ==
  ASSUME ~CanAbort, ~CanMute, "sidecar" \notin FailAt
  PROVE  Spec => []NoSilentSkip
<1>1. Init => Dealing /\ NoSignal
  BY DEF Init, Dealing, Minds, NoSignal, Classifying
<1>2. Dealing => NoSilentSkip
  BY DEF Dealing, Minds, Dealt, NoSilentSkip
<1> QED
  BY <1>1, <1>2, DealingKept, NoSignalKept, AlwaysTold, PTL DEF Spec
=============================================================================
