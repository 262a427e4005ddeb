------------------------------- MODULE Enrich -------------------------------
(***************************************************************************)
(* What happens to a document after its row is committed: the classify     *)
(* stage (classify-stage.ts, classify-persister.ts, validate.ts, the       *)
(* circuit breaker), the retrieval stages (retrieval-orchestrator.ts,      *)
(* edges-builder.ts, index-persister.ts) and the passes that run them: the *)
(* daemon's runClassifyPass, "corpus reenrich", "corpus reindex"; and      *)
(* "corpus taxonomy promote".                                              *)
(*                                                                         *)
(* Documents are numbered in the order of their ingest_timestamp. A step   *)
(* ends where the code awaits I/O; the awaits inside the two transactions  *)
(* resolve without I/O, so a transaction is one step. An output is what    *)
(* the model answered, as far as validation and persisting look at it.     *)
(*                                                                         *)
(* The lock is the exclusive lock of module ExclusiveLock, given up early  *)
(* by an abort and, with three processes or more, taken from a live holder *)
(* by another one, as in DrainLock.                                        *)
(***************************************************************************)
EXTENDS Naturals, FiniteSets, Sequences

CONSTANTS
  MaxDocs,      \* documents the drain can insert
  Outputs,      \* classifier outputs that satisfy the schema
  Seed,         \* the established terms at installation
  Answers(_),   \* the outputs Ollama can answer about a document
  Failures(_),  \* the other things that can happen when it is asked
  Related(_),   \* the document's well-formed "related" frontmatter
  Similar,      \* pairs whose embeddings are close
  Threshold,    \* failures that trip the circuit breaker
  Retries,      \* classifyRetryMaxAttempts
  Procs,        \* processes
  Daemon,       \* the one that is the daemon; the others are CLI commands
  Commands,     \* the CLI commands that are run
  None,
  CrashAt,      \* program points at which a process may be killed
  MaxCrashes,   \* bound on the number of kills
  CanAbort,     \* SIGTERM or SIGINT may arrive
  FailAt,       \* calls on files, SQLite or the embedder that may fail
  CanMute,      \* the telemetry log may be unwritable
  CanRob        \* the lock may be stolen from a live holder

Docs == 1 .. MaxDocs

Proposals(o) ==
  {<<"tag", t>> : t \in o.tags_proposed}
    \cup (IF o.domain_proposed = None THEN {} ELSE {<<"domain", o.domain_proposed>>})
Terms ==
  Seed \cup UNION {Proposals(o) \cup {<<"domain", o.domain>>} \cup {<<"tag", t>> : t \in o.tags}
                   : o \in Outputs}
Failure == {"unavailable", "aborted", "garbage"}
Classifying == {"ask", "persist", "txn", "rename"}
Retrieving == {"embed", "edges", "index"}
Calls == {"load", "read", "txn", "rename", "sidecar", "vectors"} \cup Retrieving
Points == {"down", "idle", "next"} \cup Classifying \cup Retrieving

ASSUME EnrichAssumption ==
  /\ MaxDocs \in Nat /\ Threshold \in Nat \ {0} /\ Retries \in Nat
  /\ MaxCrashes \in Nat
  /\ \A o \in Outputs : DOMAIN o = {"domain", "domain_proposed", "tags", "tags_proposed"}
                         /\ IsFiniteSet(o.tags)
  /\ \A d \in Docs : Answers(d) \subseteq Outputs /\ Failures(d) \subseteq Failure
  /\ \A d \in Docs : Related(d) \subseteq Docs
  /\ Similar \subseteq Docs \X Docs
  /\ Daemon \in Procs /\ None \notin Procs \cup Outputs
  /\ Commands \subseteq {"reenrich", "reindex"}
  /\ CrashAt \subseteq Points \ {"down"}
  /\ FailAt \subseteq Calls
  /\ {CanAbort, CanMute, CanRob} \subseteq BOOLEAN

VARIABLES
  ingested,     \* documents 1 .. ingested have a row
  row,          \* the facets of each row; None is facet_type "unclassified"
  front,        \* the facets in each body file's frontmatter
  established,  \* taxonomy_terms, by state
  proposed,
  sidecars,     \* documents with an .error.json in failed/
  vec,          \* documents with a row in documents_vec
  fts,          \* each document's rows of documents_fts: the frontmatter indexed
  edges,        \* <<src_id, dst_id>>
  catalog,      \* the documents listed in CATALOG.md
  holder,       \* the drain lock
  trigger,      \* a drain ended for which the daemon has not run a pass
  crashes,      \* kills so far
  pc, role, todo, doc, vocab, attempt, fails, out, links, stop
    \* of each process: program point; the command it runs; documents left;
    \* the one in hand; vocabulary snapshot; attempt; the breaker's count;
    \* the validated output, later the frontmatter that is indexed; the
    \* edges it built; its signal

tables == <<ingested, row, established, proposed, vec, fts, edges>>
files == <<front, sidecars, catalog>>
control == <<holder, trigger, crashes>>
scratch == <<attempt, fails, out, links>>
locals == <<role, todo, doc, vocab, scratch, stop>>
steady == <<holder, catalog, todo, vocab>>    \* between two ends of a pass
vars == <<tables, files, control, pc, locals>>

TypeOK ==
  /\ ingested \in 0 .. MaxDocs
  /\ row \in [Docs -> Outputs \cup {None}] /\ front \in [Docs -> Outputs \cup {None}]
  /\ established \subseteq Terms /\ proposed \subseteq Terms
  /\ sidecars \subseteq Docs /\ vec \subseteq Docs /\ catalog \subseteq Docs
  /\ fts \in [Docs -> Seq(Outputs \cup {None})] /\ edges \subseteq Docs \X Docs
  /\ holder \in Procs \cup {None} /\ trigger \in BOOLEAN
  /\ crashes \in 0 .. MaxCrashes
  /\ pc \in [Procs -> Points]
  /\ role \in [Procs -> {"daemon", "reenrich", "reindex"}]
  /\ todo \in [Procs -> SUBSET Docs] /\ doc \in [Procs -> Docs \cup {None}]
  /\ vocab \in [Procs -> SUBSET Terms]
  /\ attempt \in [Procs -> Nat] /\ fails \in [Procs -> Nat]
  /\ out \in [Procs -> Outputs \cup {None}]
  /\ links \in [Procs -> SUBSET Docs] /\ stop \in [Procs -> BOOLEAN]

Init ==
  /\ ingested = 0
  /\ row = [d \in Docs |-> None] /\ front = [d \in Docs |-> None]
  /\ established = Seed /\ proposed = {}
  /\ sidecars = {} /\ vec = {} /\ catalog = {}
  /\ fts = [d \in Docs |-> <<>>] /\ edges = {}
  /\ holder = None /\ trigger = FALSE /\ crashes = 0
  /\ pc = [p \in Procs |-> "down"]
  /\ role = [p \in Procs |-> "daemon"]
  /\ todo = [p \in Procs |-> {}] /\ doc = [p \in Procs |-> None]
  /\ vocab = [p \in Procs |-> {}]
  /\ attempt = [p \in Procs |-> 0] /\ fails = [p \in Procs |-> 0]
  /\ out = [p \in Procs |-> None] /\ links = [p \in Procs |-> {}]
  /\ stop = [p \in Procs |-> FALSE]

Goto(p, where) == pc' = [pc EXCEPT ![p] = where]
Unclassified == {d \in 1 .. ingested : row[d] = None}
Classified == {d \in 1 .. ingested : row[d] # None}

----------------------------------------------------------------------------
(* Passes *)

\* A drain inserts a sentinel row, under the lock, and the daemon's loop then
\* runs a classify pass.
Ingest ==
  /\ ingested < MaxDocs /\ holder = None
  /\ ingested' = ingested + 1
  /\ trigger' = (trigger \/ pc[Daemon] # "down")
  /\ UNCHANGED <<row, established, proposed, vec, fts, edges, files, holder,
                 crashes, pc, locals>>

Boot(p) ==
  /\ pc[p] = "down"
  /\ Goto(p, "idle")
  /\ trigger' = (trigger \/ p = Daemon)
  /\ stop' = [stop EXCEPT ![p] = FALSE]
  /\ UNCHANGED <<tables, files, holder, crashes, role, todo, doc, vocab, scratch>>

Exit(p) ==
  /\ pc[p] = "idle" /\ (stop[p] \/ p # Daemon)
  /\ Goto(p, "down")
  /\ doc' = [doc EXCEPT ![p] = None]
  /\ UNCHANGED <<tables, files, control, role, todo, vocab, scratch, stop>>

\* Mutant: EXISTS in place of NOT EXISTS.
CandidatesIndexed(r) ==
  IF r = "reindex" THEN Classified \cap vec ELSE Unclassified

Candidates(r) ==
  IF r = "reindex" THEN Classified \ vec ELSE Unclassified

\* Mutant: the result of acquireDrainLock is not looked at.
LockFreeAlways == TRUE
LockFree == holder = None

\* loadEstablishedVocabulary: the proposed terms are not in it.
EstablishedVocabulary == established

\* Acquire the lock, or skip the pass; then snapshot the vocabulary and the
\* rows to work on, with a fresh circuit breaker.
Start(p, r) ==
  /\ pc[p] = "idle"
  /\ IF p = Daemon THEN r = "daemon" /\ trigger ELSE r \in Commands
  /\ trigger' = (trigger /\ p # Daemon)
  /\ \/ /\ ~LockFree
        /\ UNCHANGED <<holder, pc, role, todo, doc, vocab>>
     \/ /\ LockFree
        /\ holder' = IF stop[p] THEN None ELSE p
        /\ role' = [role EXCEPT ![p] = r]
        /\ todo' = [todo EXCEPT ![p] = Candidates(r)]
        /\ doc' = [doc EXCEPT ![p] = None]
        /\ vocab' = [vocab EXCEPT ![p] = EstablishedVocabulary]
        /\ Goto(p, "next")
  /\ UNCHANGED <<tables, files, crashes, scratch, stop>>

\* The columns of the documents table, for the SELECT behind CATALOG.md.
DocumentColumns ==
  {"id", "title", "body_path", "source_path", "facet_domain", "tags_json", "facet_type",
   "source_type", "mime_type", "hash", "ingest_timestamp", "status"}

\* What the pass has in memory goes away.
Forget(p) ==
  /\ todo' = [todo EXCEPT ![p] = {}] /\ vocab' = [vocab EXCEPT ![p] = {}]
  /\ attempt' = [attempt EXCEPT ![p] = 0] /\ fails' = [fails EXCEPT ![p] = 0]
  /\ out' = [out EXCEPT ![p] = None] /\ links' = [links EXCEPT ![p] = {}]

\* Mutant: no release in the finally block.
ReleaseNot(p) == UNCHANGED holder
Release(p) == holder' = IF holder = p THEN None ELSE holder

\* The finally blocks: reindex regenerates CATALOG.md, if its SELECT does not
\* throw, and the lock is released.
EndPass(p) ==
  /\ Release(p) /\ Forget(p)
  /\ catalog' = IF role[p] = "reindex" /\ ~stop[p] /\ "summary" \in DocumentColumns
                THEN Classified ELSE catalog
  /\ Goto(p, "idle")

Finish(p) ==
  /\ pc[p] = "next" /\ (todo[p] = {} \/ stop[p])
  /\ EndPass(p)
  /\ UNCHANGED <<tables, front, sidecars, trigger, crashes, role, doc, stop>>

TakeDoc(p) ==
  /\ pc[p] = "next" /\ ~stop[p]
  /\ \E d \in todo[p] :
       /\ \A e \in todo[p] : d <= e
       /\ doc' = [doc EXCEPT ![p] = d]
       /\ todo' = [todo EXCEPT ![p] = @ \ {d}]
  /\ attempt' = [attempt EXCEPT ![p] = 0]
  /\ Goto(p, IF role[p] = "reindex" THEN "embed" ELSE "ask")
  /\ UNCHANGED <<tables, files, control, role, vocab, fails, out, links, stop>>

----------------------------------------------------------------------------
(* classifyStage *)

RecordFailure(p) == fails' = [fails EXCEPT ![p] = @ + 1]

WriteErrorSidecar(p) ==                                     \* best effort
  \/ sidecars' = sidecars \cup {doc[p]}
  \/ "sidecar" \in FailAt /\ UNCHANGED sidecars

\* Mutant: no sidecar.
FailureLaneSilent(p) ==
  Goto(p, "next") /\ UNCHANGED <<sidecars, steady, attempt, out, links>>

\* A sidecar, and on to the next document.
FailureLane(p) ==
  WriteErrorSidecar(p) /\ Goto(p, "next") /\ UNCHANGED <<steady, attempt, out, links>>

ShouldHalt(n) == n >= Threshold

\* validateClassifierOutput's second pass, against the snapshot.
Validate(o, v) ==
  /\ <<"domain", o.domain>> \in v \/ o.domain_proposed # None
  /\ \A t \in o.tags : <<"tag", t>> \in v \/ t \in o.tags_proposed

\* The document could not be read: sidecar, and the breaker does not count it.
LoadFails(p) ==
  /\ "load" \in FailAt /\ pc[p] = "ask" /\ attempt[p] = 0
  /\ FailureLane(p)
  /\ UNCHANGED <<tables, front, trigger, crashes, role, doc, fails, stop>>

Unavailable(p) ==
  /\ pc[p] = "ask" /\ "unavailable" \in Failures(doc[p])
  /\ \/ ~ShouldHalt(fails[p] + 1) /\ RecordFailure(p) /\ FailureLane(p)
     \/ ShouldHalt(fails[p] + 1) /\ WriteErrorSidecar(p) /\ EndPass(p)
  /\ UNCHANGED <<tables, front, trigger, crashes, role, doc, stop>>

\* AbortError: the parent's signal, or perDocClassifyTimeoutMs.
AskAborted(p) ==
  /\ pc[p] = "ask" /\ (stop[p] \/ "aborted" \in Failures(doc[p]))
  /\ FailureLane(p)
  /\ UNCHANGED <<tables, front, trigger, crashes, role, doc, fails, stop>>

SchemaInvalid(p) ==
  /\ pc[p] = "ask" /\ "garbage" \in Failures(doc[p])
  /\ \/ /\ attempt[p] < Retries
        /\ attempt' = [attempt EXCEPT ![p] = @ + 1]
        /\ UNCHANGED <<sidecars, pc>>
     \/ /\ attempt[p] >= Retries
        /\ WriteErrorSidecar(p) /\ Goto(p, "next") /\ UNCHANGED attempt
  /\ UNCHANGED <<tables, front, catalog, control, role, todo, doc, vocab, fails,
                 out, links, stop>>

Answered(p, o) ==
  /\ pc[p] = "ask" /\ o \in Answers(doc[p])
  /\ \/ ~Validate(o, vocab[p]) /\ WriteErrorSidecar(p) /\ Goto(p, "next") /\ UNCHANGED out
     \/ /\ Validate(o, vocab[p])
        /\ out' = [out EXCEPT ![p] = o]
        /\ Goto(p, "persist") /\ UNCHANGED sidecars
  /\ UNCHANGED <<tables, front, catalog, control, role, todo, doc, vocab,
                 attempt, fails, links, stop>>

----------------------------------------------------------------------------
(* persistClassification *)

\* A persist error counts for the breaker, but the pass goes on, unless the
\* event classify.failed cannot be written.
PersistFailed(p) ==
  \/ RecordFailure(p) /\ FailureLane(p)
  \/ CanMute /\ EndPass(p) /\ UNCHANGED sidecars

\* Mutant: the body file is rewritten first, in place.
PersistStartRewrites(p) ==
  /\ pc[p] = "persist" /\ ~stop[p] /\ Goto(p, "txn")
  /\ front' = [front EXCEPT ![doc[p]] = out[p]]
  /\ UNCHANGED <<steady, sidecars, scratch, tables, trigger, crashes, role, doc, stop>>

\* The entry check throws through classifyStage and ends the pass; otherwise
\* the body file is read, or not.
PersistStart(p) ==
  /\ pc[p] = "persist"
  /\ \/ stop[p] /\ EndPass(p) /\ UNCHANGED sidecars
     \/ ~stop[p] /\ Goto(p, "txn") /\ UNCHANGED <<steady, sidecars, scratch>>
     \/ ~stop[p] /\ "read" \in FailAt /\ PersistFailed(p)
  /\ UNCHANGED <<tables, front, trigger, crashes, role, doc, stop>>

\* Mutant: UPDATE without AND facet_type = 'unclassified'.
AffectsAnyRow(d) == TRUE
AffectsRow(d) == row[d] = None

\* Mutant: INSERT OR REPLACE.
ReplaceProposed(p) == proposed' = proposed \cup (Proposals(out[p]) \ vocab[p])

\* Only what the snapshot does not have, and ON CONFLICT DO NOTHING.
InsertProposed(p) ==
  proposed' = proposed \cup ((Proposals(out[p]) \ vocab[p]) \ established)

\* BEGIN IMMEDIATE, UPDATE ... WHERE facet_type = 'unclassified', the INSERTs
\* of proposed terms (ON CONFLICT DO NOTHING), COMMIT.
Transaction(p) ==
  /\ pc[p] = "txn"
  /\ \/ /\ stop[p] \/ "txn" \in FailAt \/ ~AffectsRow(doc[p])
        /\ PersistFailed(p)
        /\ UNCHANGED <<row, proposed>>
     \/ /\ ~stop[p] /\ AffectsRow(doc[p])
        /\ row' = [row EXCEPT ![doc[p]] = out[p]]
        /\ InsertProposed(p)
        /\ Goto(p, "rename")
        /\ UNCHANGED <<steady, sidecars, scratch>>
  /\ UNCHANGED <<ingested, established, vec, fts, edges, front, trigger, crashes,
                 role, doc, stop>>

\* Mutant: reenrich forgets the body file.
NewBodyDaemonOnly(p) == IF role[p] = "daemon" THEN [front EXCEPT ![doc[p]] = out[p]] ELSE front
NewBody(p) == [front EXCEPT ![doc[p]] = out[p]]

\* Only now the body file is replaced. An abort makes withTempDir reject and
\* remove the temporary file, before or after the rename.
RenameBody(p) ==
  /\ pc[p] = "rename"
  /\ \/ /\ ~stop[p]
        /\ front' = NewBody(p)
        /\ fails' = [fails EXCEPT ![p] = 0]
        /\ Goto(p, IF role[p] = "daemon" THEN "embed" ELSE "next")
        /\ UNCHANGED <<steady, sidecars, attempt, out, links>>
     \/ /\ stop[p] \/ "rename" \in FailAt
        /\ front' \in {front, NewBody(p)}
        /\ ~stop[p] => front' = front
        /\ PersistFailed(p)
  /\ UNCHANGED <<tables, trigger, crashes, role, doc, stop>>

----------------------------------------------------------------------------
(* retrievalOrchestrator *)

\* An exception: the daemon logs it and goes on, reindex ends.
Throw(p) ==
  \/ role[p] = "daemon" /\ Goto(p, "next") /\ UNCHANGED <<steady, scratch>>
  \/ role[p] = "reindex" /\ EndPass(p)

Stuck(p) ==
  \/ FailureLane(p) /\ UNCHANGED fails
  \/ CanMute /\ Throw(p) /\ UNCHANGED sidecars

\* Skip what is indexed; read the row and the body file, frontmatter included;
\* call the embedder.
Embed(p) ==
  /\ pc[p] = "embed"
  /\ \/ stop[p] /\ Throw(p) /\ UNCHANGED sidecars
     \/ /\ ~stop[p] /\ doc[p] \in vec
        /\ Goto(p, "next") /\ UNCHANGED <<steady, sidecars, scratch>>
     \/ doc[p] \notin vec /\ (stop[p] \/ "embed" \in FailAt) /\ Stuck(p)
     \/ /\ ~stop[p] /\ doc[p] \notin vec
        /\ out' = [out EXCEPT ![p] = front[doc[p]]]
        /\ Goto(p, "edges") /\ UNCHANGED <<steady, sidecars, attempt, fails, links>>
  /\ UNCHANGED <<tables, front, trigger, crashes, role, doc, stop>>

\* Jaccard index of the tags at least 0.3.
TagOverlap(s, t) ==
  s # {} /\ 10 * Cardinality(s \cap t) >= 3 * Cardinality(s \cup t)

\* Mutant: the tags are compared with those of indexed documents only.
BuildEdgesIndexed(d, near) ==
  {e \in vec \ {d} : TagOverlap(row[d].tags, row[e].tags)} \cup near \cup (Related(d) \ {d})

\* tag_overlap, summary_similarity (near) and explicit_related.
BuildEdges(d, near) ==
  {e \in Classified \ {d} : TagOverlap(row[d].tags, row[e].tags)} \cup near \cup (Related(d) \ {d})

\* The comparison with documents_vec; one that fails is taken for one that found nothing.
Near(d) ==
  {{e \in vec \ {d} : <<d, e>> \in Similar}} \cup (IF "vectors" \in FailAt THEN {{}} ELSE {})

EdgesBuild(p) ==
  /\ pc[p] = "edges"
  /\ \/ stop[p] /\ Throw(p) /\ UNCHANGED sidecars
     \/ /\ ~stop[p]
        /\ \E near \in Near(doc[p]) : links' = [links EXCEPT ![p] = BuildEdges(doc[p], near)]
        /\ Goto(p, "index") /\ UNCHANGED <<steady, sidecars, attempt, fails, out>>
     \/ ~stop[p] /\ "edges" \in FailAt /\ Stuck(p)    \* edges_build_timeout
  /\ UNCHANGED <<tables, front, trigger, crashes, role, doc, stop>>

\* Mutants: documents_vec without its primary key; edges without foreign keys.
ViolatesNoKey(p) == ~(links[p] \subseteq 1 .. ingested)

\* documents_vec has a primary key; edges have foreign keys to documents.
Violates(p) == doc[p] \in vec \/ ~(links[p] \subseteq 1 .. ingested)

Index(p) ==
  /\ pc[p] = "index"
  /\ \/ /\ stop[p] \/ "index" \in FailAt \/ Violates(p)
        /\ Stuck(p) /\ UNCHANGED <<fts, vec, edges>>
     \/ /\ ~stop[p] /\ ~Violates(p)
        /\ fts' = [fts EXCEPT ![doc[p]] = Append(@, out[p])]
        /\ vec' = vec \cup {doc[p]}
        /\ edges' = edges \cup ({doc[p]} \X links[p])
        /\ Goto(p, "next") /\ UNCHANGED <<steady, sidecars, scratch>>
  /\ UNCHANGED <<ingested, row, established, proposed, front, trigger, crashes,
                 role, doc, stop>>

----------------------------------------------------------------------------
(* Taxonomy *)

\* "corpus taxonomy promote": one synchronous transaction under the lock; a
\* term that is not in the table undoes it all.
Promote(ts) ==
  /\ holder = None /\ ts # {}
  /\ ts \subseteq established \cup proposed
  /\ established' = established \cup ts
  /\ proposed' = proposed \ ts
  /\ UNCHANGED <<ingested, row, vec, fts, edges, files, control, pc, locals>>

\* --from-proposed-with-count-ge: the proposed terms of at least n rows.
Uses(t) ==
  {d \in Classified : \/ t = <<"domain", row[d].domain>>
                      \/ t[1] = "tag" /\ t[2] \in row[d].tags}

PromoteFrequent(n) == Promote({t \in proposed : Cardinality(Uses(t)) >= n})

----------------------------------------------------------------------------
(* What goes wrong *)

\* emitTelemetry throws: out of classifyStage, hence out of the pass, or out
\* of the retrieval orchestrator. At "next" it is the last event of one
\* document or the first of the next.
Mute(p) ==
  /\ CanMute
  /\ \/ pc[p] \in {"next", "ask", "persist", "embed"} /\ EndPass(p)
     \/ pc[p] \in {"embed", "edges"} /\ Throw(p)
  /\ UNCHANGED <<tables, front, sidecars, trigger, crashes, role, doc, stop>>

Abort(p) ==
  /\ CanAbort /\ pc[p] # "down" /\ ~stop[p]
  /\ stop' = [stop EXCEPT ![p] = TRUE]
  /\ holder' = IF holder = p THEN None ELSE holder
  /\ UNCHANGED <<tables, files, trigger, crashes, pc, role, todo, doc, vocab, scratch>>

\* The steal race of DrainLock: the file of a live holder is unlinked.
Rob ==
  /\ CanRob /\ holder # None
  /\ holder' = None
  /\ UNCHANGED <<tables, files, trigger, crashes, pc, locals>>

Crash(p) ==
  /\ pc[p] \in CrashAt /\ crashes < MaxCrashes
  /\ crashes' = crashes + 1
  /\ holder' = IF holder = p THEN None ELSE holder
  /\ trigger' = (trigger /\ p # Daemon)
  /\ Forget(p)
  /\ doc' = [doc EXCEPT ![p] = None]
  /\ Goto(p, "down")
  /\ UNCHANGED <<tables, files, role, stop>>

----------------------------------------------------------------------------
Step(p) ==
  \/ Finish(p) \/ TakeDoc(p)
  \/ Unavailable(p) \/ AskAborted(p) \/ SchemaInvalid(p)
  \/ \E o \in Outputs : Answered(p, o)
  \/ PersistStart(p) \/ Transaction(p) \/ RenameBody(p)
  \/ Embed(p) \/ EdgesBuild(p) \/ Index(p)

Next ==
  \/ Ingest \/ Rob
  \/ \E t \in Terms : Promote({t})
  \/ \E n \in 1 .. MaxDocs : PromoteFrequent(n)
  \/ \E p \in Procs :
       \/ Boot(p) \/ Exit(p) \/ Step(p)
       \/ \E r \in {"daemon", "reenrich", "reindex"} : Start(p, r)
       \/ LoadFails(p) \/ Mute(p) \/ Abort(p) \/ Crash(p)

Spec == Init /\ [][Next]_vars

\* The daemon is restarted by its service unit and takes its steps; whoever
\* runs the commands runs each of them again and again.
FairSpec ==
  /\ Spec
  /\ WF_vars(Boot(Daemon)) /\ WF_vars(Start(Daemon, "daemon"))
  /\ \A p \in Procs : WF_vars(Step(p))
  /\ \A p \in Procs \ {Daemon} :
       /\ WF_vars(Boot(p))
       /\ \A r \in Commands : SF_vars(LockFree /\ Start(p, r))

----------------------------------------------------------------------------
(* Properties *)

\* persistClassification: whatever is killed, aborted or overlapping, a body
\* file never shows facets that its row does not have ("COMMIT first, rename
\* second").
FrontNeverAhead == \A d \in Docs : front[d] # None => front[d] = row[d]

\* SC-CLASSIFY-005: row and frontmatter agree, except while a process stands
\* between the COMMIT and the rename.
FrontMirrorsRow ==
  \A d \in Docs : \/ front[d] = row[d]
                  \/ \E p \in Procs : pc[p] = "rename" /\ doc[p] = d

\* updateClassification's WHERE clause: a classified row is never classified
\* again, not by two passes that overlap either.
ClassifiedOnce == [][\A d \in Docs : row[d] # None => row'[d] = row[d]]_vars

\* validateClassifierOutput and insertProposedTerm together: a tag in a row is
\* a term of the taxonomy, although the vocabulary was read long before.
TagsKnown ==
  \A d \in Classified : \A t \in row[d].tags : <<"tag", t>> \in established \cup proposed

\* The same for the domain.
DomainKnown ==
  \A d \in Classified : <<"domain", row[d].domain>> \in established \cup proposed

\* insertProposedTerm's ON CONFLICT DO NOTHING: a proposal made from a stale
\* vocabulary does not put an established term back among the proposed.
TermHasOneState == established \cap proposed = {}

\* The taxonomy against the rows and promotions, with overlapping passes on old vocabularies.
TaxonomySound == TagsKnown /\ TermHasOneState

\* persistIndex in one transaction: an indexed document is classified, has one
\* full-text row, and its edges lead to documents that exist.
IndexIsWhole ==
  /\ vec \subseteq Classified
  /\ \A d \in Docs : Len(fts[d]) = IF d \in vec THEN 1 ELSE 0
  /\ edges \subseteq vec \X (1 .. ingested)

\* buildEdges compares with classified rows, indexed or not, so that of two
\* documents with similar tags the one indexed second always has the edge.
TagsLinked ==
  \A d, e \in vec :
    d # e /\ TagOverlap(row[d].tags, row[e].tags) => {<<d, e>>, <<e, d>>} \cap edges # {}

\* summary_similarity compares with indexed documents only, and relies on the
\* lock for the same. A comparison that fails breaks it for good.
SimilarLinked ==
  \A d, e \in vec :
    d # e /\ {<<d, e>>, <<e, d>>} \subseteq Similar => {<<d, e>>, <<e, d>>} \cap edges # {}

\* ClassifyCircuitBreaker: after Threshold failures in a row no further
\* document is worked on.
BreakerHalts == \A p \in Procs : pc[p] \in Classifying => fails[p] < Threshold

\* FR-CLASSIFY-011: a pass that is done with a document has classified it (and
\* indexed it, if that is its job) or left a sidecar.
NoSilentSkip ==
  \A p \in Procs : pc[p] \in {"next", "idle"} /\ doc[p] # None =>
    \/ doc[p] \in sidecars
    \/ row[doc[p]] # None /\ (role[p] = "reenrich" \/ doc[p] \in vec)

\* SC-CLASSIFY-015: while a process is being told to stop, the row it is
\* working on stays a sentinel.
AbortedStaysSentinel ==
  [][\A p \in Procs : pc[p] = "rename" /\ stop'[p] => row[doc[p]] = None]_vars

\* runReindexCommand: a reindex that was not interrupted leaves CATALOG.md with
\* exactly the classified documents.
CatalogFresh ==
  [][\A p \in Procs :
       role[p] = "reindex" /\ pc[p] = "next" /\ pc'[p] = "idle" /\ ~stop[p]
         => catalog' = Classified]_vars

\* Every document for which the model gives an acceptable answer is classified
\* in the end, whatever stands before it in the queue.
Acceptable ==
  {d \in Docs : Failures(d) = {} /\ \A o \in Answers(d) : Validate(o, Seed)}
EventuallyClassified == \A d \in Acceptable : (d <= ingested) ~> (row[d] # None)

\* A classified document is searchable in the end, once the documents that its frontmatter
\* names as related are there: before that, every index transaction breaks a foreign key.
EventuallyIndexed ==
  \A d \in Docs : (row[d] # None /\ Related(d) \subseteq 1 .. ingested) ~> (d \in vec)

\* What readers of the tables see, whatever overlaps, is told to stop or loses the lock, is
\* the corpus they rely on: each step commits one document, classifies one that was not, or
\* indexes one that is classified, in one transaction with edges to documents that exist.
C == INSTANCE Corpus WITH Facets <- Outputs, placed <- Docs, known <- 1 .. ingested,
                          facets <- row, indexed <- vec
ImplementsCorpus == C!Spec
=============================================================================
