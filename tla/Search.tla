------------------------------- MODULE Search -------------------------------
(***************************************************************************)
(* A corpus.find request (corpus-find-tool.ts, tier-orchestrator.ts): the  *)
(* cascade hybrid, bm25-only, catalog-grep, fs-grep, the hybrid retriever  *)
(* with its four signals and their fusion (search.ts, fusion.ts and the    *)
(* adapters), and the abort signals of the budgets and of the caller. The  *)
(* drain, in a process of its own, adds documents meanwhile.               *)
(*                                                                         *)
(* A step is one SQL statement or one wait. SQL is synchronous, so a timer *)
(* or a cancellation is only seen while the handler waits for Ollama, a    *)
(* file, grep or the telemetry log. A ranking is a sequence of documents;  *)
(* which documents match a query is given, how they are ranked by content  *)
(* is any order.                                                           *)
(***************************************************************************)
EXTENDS Naturals, FiniteSets, Sequences, Functions

CONSTANTS
  Docs,
  Facets,       \* facet types of classified documents
  FacetWeight,  \* DEFAULT_CONFIDENCE_WEIGHTS.weights, in hundredths
  Recent,       \* documents younger than recencyBoostDays
  Links,        \* the edges each document gets when it is indexed, to those that exist
  Queries,      \* requests: words, literal, filter, limit
  Corpora,      \* initial states of the corpus: row, indexed and catalog
  TopK,         \* topKPerRetriever
  MinResults,   \* minResultsForFallthrough
  Outages,      \* sets of SQL statements and reads that fail during a request
  CanMute,      \* an append to the telemetry log may fail
  Credit,       \* 1/n of each denominator n of the fusion, as an integer in a common unit
  None, Failed

Signals == {"bm25", "dense", "graph", "confidence"}
Calls == Signals \cup {"fuse", "resolve", "only", "promote", "catalog", "grep", "spawn", "paths"}
Waits == {"open", "embed", "report", "error", "caught", "threw", "fallthrough", "overrun",
          "catalog", "grep"}
Points == Waits \cup {"idle", "bm25", "dense", "graph", "confidence", "fuse", "resolve",
                      "only", "promote", "paths", "reply", "answered"}

(* The constant k of the fusion, and k + rank. *)
K == 60
Denominators == K + 1 .. K + Cardinality(Docs)

ASSUME SearchAssumption ==
  /\ IsFiniteSet(Docs) /\ Recent \subseteq Docs /\ Links \subseteq Docs \X Docs
  /\ {"absent", "unclassified"} \cap Facets = {} /\ FacetWeight \in [Facets -> Nat \ {0}]
  /\ \A c \in Corpora : /\ c.row \in [Docs -> Facets \cup {"absent", "unclassified"}]
                         /\ c.indexed \subseteq {d \in Docs : c.row[d] \in Facets}
                         /\ \/ c.catalog = None
                            \/ \E S \in SUBSET Docs :
                                 c.catalog \in Injection(1 .. Cardinality(S), S)
  /\ \A q \in Queries : /\ q.words \subseteq Docs /\ q.literal \subseteq Docs
                        /\ q.filter \subseteq Facets \cup {"unclassified"}
                        /\ q.limit \in 1 .. 100
  /\ Outages \subseteq SUBSET Calls /\ None # "rejected" /\ None \notin Queries
  /\ TopK \in Nat \ {0} /\ MinResults \in Nat
  /\ Credit \in [Denominators -> Nat \ {0}]
  /\ \A m, n \in Denominators : m * Credit[m] = n * Credit[n]

VARIABLES
  row,      \* facet_type of each document's row, or "absent"
  indexed,  \* documents with full-text and vector rows
  edges,
  catalog,  \* the documents of CATALOG.md in order, or None
  req,      \* the request
  broken,   \* the calls that fail during it
  pc,       \* where its handler is
  tier,     \* the tier it is in, by its place in TIER_ORDER from 1
  master,   \* the cascade's signal is aborted: its budget is spent or the caller gave up
  child,    \* the tier's own signal is aborted
  embedded, \* the query has an embedding
  sig,      \* the ranking of each signal, or Failed
  weight,   \* confidenceMap: the multiplier of each document in this request
  found,    \* documents of the tier, best first
  merged,   \* hits merged so far
  deepest,  \* deepestContributing
  answer,   \* what the caller gets
  due,      \* history: what the full-text index owed the request when it came
  done      \* history: tiers whose outcome was "completed"

corpus == <<row, indexed, edges>>
clocks == <<master, child>>
hybrid == <<embedded, sig, weight>>
history == <<due, done>>
request == <<catalog, req, broken, tier>>
vars == <<corpus, request, pc, clocks, hybrid, found, merged, deepest, answer, history>>

(* Rankings of S cut after k, and the documents of a ranking. *)
Smaller(m, n) == IF m < n THEN m ELSE n
Rankings(S, k) == Injection(1 .. Smaller(Cardinality(S), k), S)
Prefix(s, n) == SubSeq(s, 1, Smaller(Len(s), n))
Place(s, d) == CHOOSE i \in DOMAIN s : s[i] = d
\* s without what is not in S: a set of one ranking.
Kept(s, S) ==
  {t \in Rankings(Range(s) \cap S, Cardinality(Range(s) \cap S)) :
     \A i, j \in DOMAIN t : i < j => Place(s, t[i]) < Place(s, t[j])}
Results(s) == IF s = Failed THEN <<>> ELSE s
DocsOf(kinds) == UNION {Range(Results(sig[k])) : k \in kinds}

(* The rows a filter lets through, and those that make a valid hit: the    *)
(* schema of a hit knows the classified facet types only.                  *)
Admitted(q) == {d \in Docs : row[d] \in q.filter}
Classified == {d \in Docs : row[d] \in Facets}
Matching(q) == indexed \cap q.words \cap Admitted(q)

(* confidenceWeightFor, in ten-thousandths; an unknown facet weighs 1.0. *)
ConfidenceWeight(d) ==
  (IF row[d] \in Facets THEN FacetWeight[row[d]] ELSE 100) * (IF d \in Recent THEN 105 ELSE 100)
-----------------------------------------------------------------------------
Init ==
  /\ \E c \in Corpora : row = c.row /\ indexed = c.indexed /\ catalog = c.catalog
  /\ edges = {l \in Links : l[1] \in indexed /\ row[l[2]] # "absent"}
  /\ req = None /\ broken = {} /\ pc = "idle" /\ tier = 1
  /\ master = FALSE /\ child = FALSE
  /\ embedded = FALSE /\ sig = [k \in Signals |-> Failed]
  /\ weight = [d \in Docs |-> 0]
  /\ found = <<>> /\ merged = <<>> /\ deepest = 1 /\ answer = None
  /\ due = {} /\ done = {}

(* The drain commits, classifies or indexes a document (modules Ingest and *)
(* Enrich); the index, vector and edge rows are one transaction.           *)
Commit(d) ==
  /\ row[d] = "absent"
  /\ row' = [row EXCEPT ![d] = "unclassified"]
  /\ UNCHANGED <<indexed, edges>>
Classify(d) ==
  /\ row[d] = "unclassified"
  /\ \E f \in Facets : row' = [row EXCEPT ![d] = f]
  /\ UNCHANGED <<indexed, edges>>
IndexDoc(d) ==
  /\ d \in Classified \ indexed
  /\ indexed' = indexed \cup {d}
  /\ edges' = edges \cup {l \in Links : l[1] = d /\ row[l[2]] # "absent"}
  /\ UNCHANGED row
Drain ==
  /\ \E d \in Docs : Commit(d) \/ Classify(d) \/ IndexDoc(d)
  /\ UNCHANGED <<request, pc, clocks, hybrid, found, merged, deepest, answer, history>>

(* A timer fires, or the caller cancels: abortChild passes it down. *)
Abort ==
  /\ pc \in Waits \ {"overrun"} /\ ~master
  /\ master' = TRUE /\ child' = TRUE
  /\ UNCHANGED <<corpus, request, pc, hybrid, found, merged, deepest, answer, history>>
TierTimeout ==
  /\ pc \in Waits \ {"overrun", "fallthrough", "threw"} /\ ~child
  /\ child' = TRUE
  /\ UNCHANGED <<corpus, request, pc, master, hybrid, found, merged, deepest, answer, history>>
-----------------------------------------------------------------------------
(* A request that passes the input schema; the others are answered at once *)
(* with a validation_error and touch nothing.                              *)
Find ==
  /\ pc = "idle"
  /\ \E q \in Queries : req' = q /\ due' = Matching(q)
  /\ broken' \in Outages
  /\ pc' = "open"
  /\ UNCHANGED <<corpus, catalog, tier, clocks, hybrid, found, merged, deepest, answer, done>>

(* emitTelemetry: the handler goes on, or the append throws. *)
Emit(at, next, thrown) ==
  /\ pc = at
  /\ pc' \in {next} \cup (IF CanMute THEN {thrown} ELSE {})

(* deepestTier: the deepest of deepestContributing and the tiers of the    *)
(* hits. The signals the hybrid tier reports and its error envelope do not *)
(* get this far: signals_used is empty, the other two fields are absent.   *)
Output ==
  LET hits == Prefix(merged, req.limit)
      tiers == {deepest} \cup {hits[i].tier : i \in DOMAIN hits}
  IN [hits |-> hits, tier_used |-> CHOOSE t \in tiers : \A u \in tiers : u <= t,
      degraded_signals |-> {}, error |-> None]
Rejected == [hits |-> <<>>, tier_used |-> 0, degraded_signals |-> {}, error |-> "rejected"]

Answering(a) == answer' = a
Reply ==
  /\ pc = "reply"
  /\ Answering(Output)
  /\ pc' = "answered"
  /\ UNCHANGED <<corpus, request, clocks, hybrid, found, merged, deepest, history>>

(* What the caller has got is forgotten; the next request starts afresh. *)
Return ==
  /\ pc = "answered"
  /\ pc' = "idle" /\ req' = None /\ broken' = {} /\ tier' = 1
  /\ master' = FALSE /\ child' = FALSE
  /\ embedded' = FALSE /\ sig' = [k \in Signals |-> Failed] /\ weight' = [d \in Docs |-> 0]
  /\ found' = <<>> /\ merged' = <<>> /\ deepest' = 1 /\ answer' = None
  /\ due' = {} /\ done' = {}
  /\ UNCHANGED <<corpus, catalog>>

(* Higher tier wins: a hit is added unless its document is there already. *)
Merge(old, ds) ==
  {old \o [i \in DOMAIN new |-> [doc |-> new[i], tier |-> tier]] :
     new \in Kept(ds, Docs \ {old[i].doc : i \in DOMAIN old})}

(* The rest of the loop's body once the tier has returned, up to its next  *)
(* wait: the tier_fallthrough event, or tier_skipped from the last tier.   *)
TierReturns(ds, outcome) == \E all \in Merge(merged, ds) :
  /\ merged' = all
  /\ deepest' = IF Len(all) > Len(merged) THEN tier ELSE deepest
  /\ done' = IF outcome = "completed" THEN done \cup {tier} ELSE done
  /\ found' = <<>>
  /\ pc' = IF outcome = "aborted" THEN "overrun"
           ELSE IF Len(all) >= MinResults THEN "reply"
           ELSE IF tier < 4 \/ outcome = "skipped" THEN "fallthrough"
           ELSE IF master THEN "overrun" ELSE "reply"
  /\ UNCHANGED <<corpus, request, clocks, hybrid, answer, due>>

(* A tier threw: its tier_failed and tier_fallthrough events are written   *)
(* before the next tier starts, and only they can throw out of the loop.   *)
Catch ==
  /\ Emit("threw", IF tier < 4 THEN "fallthrough" ELSE "reply", "answered")
  /\ IF pc' = "answered" THEN Answering(Rejected) ELSE UNCHANGED answer
  /\ UNCHANGED <<corpus, request, clocks, hybrid, found, merged, deepest, history>>

First == <<"open", "only", "catalog", "grep">>
FallThrough ==
  /\ Emit("fallthrough",
          IF master THEN "overrun" ELSE IF tier = 4 THEN "reply" ELSE First[tier + 1],
          "answered")
  /\ IF pc' = "answered" THEN Answering(Rejected) ELSE UNCHANGED answer
  /\ tier' = IF pc' \in Range(First) THEN tier + 1 ELSE tier
  /\ child' = IF pc' \in Range(First) THEN FALSE ELSE child
  /\ UNCHANGED <<corpus, catalog, req, broken, master, hybrid, found, merged, deepest, history>>

Overrun ==
  /\ Emit("overrun", "reply", "answered")
  /\ IF pc' = "answered" THEN Answering(Rejected) ELSE UNCHANGED answer
  /\ UNCHANGED <<corpus, request, clocks, hybrid, found, merged, deepest, history>>
-----------------------------------------------------------------------------
(* Tier 0: searchOrchestrator. *)
Go(at, next) == pc = at /\ pc' = next
StaysHybrid == UNCHANGED <<corpus, request, clocks, merged, deepest, answer, history>>

Open ==
  /\ Emit("open", "embed", "threw")
  /\ UNCHANGED <<hybrid, found>> /\ StaysHybrid

(* embedQuery: an answer, or a failure that is logged and, if that cannot  *)
(* be, thrown.                                                             *)
EmbedAnswered ==
  /\ Go("embed", "bm25") /\ ~child
  /\ embedded' = TRUE
  /\ UNCHANGED <<sig, weight, found>> /\ StaysHybrid
EmbedFails == Emit("embed", "bm25", "caught") /\ UNCHANGED <<hybrid, found>> /\ StaysHybrid
EmbedRefused == ~child /\ EmbedFails
\* Mutant: the embedder listens to the cascade's signal only.
EmbedAbortedByMaster == master /\ EmbedFails
EmbedAborted == child /\ EmbedFails

(* A retriever throws when the signal is aborted; otherwise its SQL, if it *)
(* has a reason to run it, may fail.                                       *)
Signal(kind, rankings, queried) ==
  /\ IF child \/ (queried /\ kind \in broken) THEN sig' = [sig EXCEPT ![kind] = Failed]
     ELSE \E r \in rankings : sig' = [sig EXCEPT ![kind] = r]
  /\ UNCHANGED <<weight, found>> /\ StaysHybrid

Bm25 == Go("bm25", "dense") /\ Signal("bm25", Rankings(Matching(req), TopK), TRUE)
        /\ UNCHANGED embedded
Nearest == IF embedded THEN Rankings(indexed \cap Admitted(req), TopK) ELSE {Failed}
Dense == Go("dense", "graph") /\ Signal("dense", Nearest, embedded)
         /\ embedded' = FALSE

(* The graph is walked one step in both directions from what was found. *)
Neighbours(seeds) ==
  {l[2] : l \in {l \in edges : l[1] \in seeds}} \cup {l[1] : l \in {l \in edges : l[2] \in seeds}}
Graph ==
  /\ Go("graph", "confidence")
  /\ Signal("graph",
            Rankings(Neighbours(DocsOf({"bm25", "dense"})) \cap Admitted(req), TopK),
            DocsOf({"bm25", "dense"}) # {})
  /\ UNCHANGED embedded

Sorted(S, score) ==
  {s \in Rankings(S, Cardinality(S)) : \A i, j \in DOMAIN s : i < j => score[s[i]] >= score[s[j]]}
Candidates == DocsOf({"bm25", "dense", "graph"})
Confidence ==
  /\ Go("confidence", "fuse")
  /\ Signal("confidence",
            Sorted({d \in Candidates : row[d] # "absent"}, [d \in Docs |-> ConfidenceWeight(d)]),
            Candidates # {})
  /\ UNCHANGED embedded

(* fuseRrf: each signal adds 1/(k + rank) to the documents it ranks. *)
\* Mutant: the ranks are added up, not their reciprocals.
ShareOfRanks(d, kind) ==
  LET s == Results(sig[kind])
  IN IF d \in Range(s) THEN K + Place(s, d) ELSE 0
Share(d, kind) ==
  LET s == Results(sig[kind])
  IN IF d \in Range(s) THEN Credit[K + Place(s, d)] ELSE 0
Rrf(d) == Share(d, "bm25") + Share(d, "dense") + Share(d, "graph") + Share(d, "confidence")
\* Mutant: off by one at the limit.
FusedShort(w) ==
  {Prefix(s, req.limit - 1) : s \in Sorted(DocsOf(Signals), [d \in Docs |-> Rrf(d) * w[d]])}
FusedBy(w) == {Prefix(s, req.limit) : s \in Sorted(DocsOf(Signals), [d \in Docs |-> Rrf(d) * w[d]])}

Fails(call, ds) == call \in broken /\ ds # {}
AllFailed == \A k \in Signals : sig[k] = Failed
Weights ==
  [d \in Docs |-> IF d \in Candidates /\ row[d] # "absent" THEN ConfidenceWeight(d) ELSE 10000]
Fuse ==
  /\ pc = "fuse"
  /\ \/ AllFailed /\ pc' = "error" /\ UNCHANGED <<weight, found>>
     \/ /\ ~AllFailed /\ ~Fails("fuse", Candidates) /\ pc' = "resolve"
        /\ weight' = Weights
        /\ found' \in FusedBy(weight')
     \/ ~AllFailed /\ Fails("fuse", Candidates) /\ pc' = "caught" /\ UNCHANGED <<weight, found>>
  /\ UNCHANGED <<embedded, sig>> /\ StaysHybrid

\* Mutant: any row makes a hit.
ValidRow(ds) == Kept(ds, {d \in Docs : row[d] # "absent"})

(* The rows are read again; a hit that does not fit the schema is dropped. *)
(* The rankings are not used any more, only which signals failed.          *)
Valid(ds) == Kept(ds, Classified)
Resolve ==
  /\ pc = "resolve"
  /\ \/ ~Fails("resolve", Range(found)) /\ pc' = "report" /\ found' \in Valid(found)
     \/ Fails("resolve", Range(found)) /\ pc' = "caught" /\ found' = <<>>
  /\ sig' = [k \in Signals |-> IF sig[k] = Failed THEN Failed ELSE <<>>]
  /\ weight' = [d \in Docs |-> 0]
  /\ UNCHANGED embedded /\ StaysHybrid

Escapes(next) == CanMute /\ pc' = next /\ found' = <<>> /\ UNCHANGED hybrid /\ StaysHybrid
Report == pc = "report" /\ (TierReturns(found, "completed") \/ Escapes("caught"))
AllSignalsFailed == pc = "error" /\ (TierReturns(<<>>, "failed") \/ Escapes("caught"))
Caught == pc = "caught" /\ (TierReturns(<<>>, "failed") \/ Escapes("threw"))
-----------------------------------------------------------------------------
(* Tier 1, without a wait: its own timeout cannot fire. *)
Only ==
  /\ pc = "only"
  /\ \/ \E r \in Rankings(Matching(req), TopK) :
          /\ "only" \notin broken /\ pc' = "promote" /\ found' = r
          /\ UNCHANGED hybrid /\ StaysHybrid
     \/ "only" \in broken /\ TierReturns(<<>>, "failed")
Promote ==
  /\ pc = "promote"
  /\ IF Fails("promote", Range(found)) THEN TierReturns(<<>>, "failed")
     ELSE \E hits \in Valid(found) : TierReturns(Prefix(hits, req.limit), "completed")

(* Tier 2 reads CATALOG.md; its lines are taken as they are, unfiltered. *)
CatalogGrep ==
  /\ pc = "catalog"
  /\ IF catalog = None THEN TierReturns(<<>>, "skipped") \/ Escapes("threw")
     ELSE \/ "catalog" \in broken /\ TierReturns(<<>>, "failed")
          \/ "catalog" \notin broken /\ child /\ TierReturns(<<>>, "aborted")
          \/ /\ "catalog" \notin broken /\ ~child
             /\ \E hits \in Kept(catalog, req.literal) :
                  TierReturns(Prefix(hits, req.limit), "completed")

(* Tier 3 greps the body files under Paths.docsStore(), an absolute path,  *)
(* and looks the files up by documents.body_path, which is relative to     *)
(* Paths.docs().                                                           *)
FilePath(d) == <<"docs", "store", d>>
BodyPath(d) == <<"store", d>>
Grepped == {d \in Docs : row[d] # "absent" /\ d \in req.literal}
GrepEnds ==
  /\ pc = "grep" /\ ~child /\ broken \cap {"grep", "spawn"} = {}
  /\ \/ Grepped = {} /\ TierReturns(<<>>, "completed")
     \/ /\ Grepped # {} /\ pc' = "paths"
        /\ found' \in Rankings(Grepped, Cardinality(Grepped))
        /\ UNCHANGED hybrid /\ StaysHybrid
GrepFails ==
  /\ pc = "grep"
  /\ \/ "grep" \in broken /\ TierReturns(<<>>, "failed")
     \/ "spawn" \in broken /\ TierReturns(<<>>, "skipped")
     \/ broken \cap {"grep", "spawn"} # {} /\ Escapes("threw")
GrepAborted == pc = "grep" /\ child /\ TierReturns(<<>>, "aborted")
PathsLookup ==
  /\ pc = "paths"
  /\ LET files == {FilePath(d) : d \in Range(found)}
         rows == {d \in Classified : BodyPath(d) \in files}
     IN IF "paths" \in broken THEN TierReturns(<<>>, "failed")
        ELSE \E r \in Rankings(rows, req.limit) : TierReturns(r, "completed")
-----------------------------------------------------------------------------
Request ==
  \/ Find \/ Open \/ EmbedAnswered \/ EmbedRefused \/ EmbedAborted
  \/ Bm25 \/ Dense \/ Graph \/ Confidence \/ Fuse \/ Resolve
  \/ Report \/ AllSignalsFailed \/ Caught \/ Catch \/ FallThrough \/ Overrun
  \/ Only \/ Promote \/ CatalogGrep \/ GrepEnds \/ GrepFails \/ GrepAborted \/ PathsLookup
  \/ Reply \/ Return
Next == Drain \/ Abort \/ TierTimeout \/ Request
Spec == Init /\ [][Next]_vars

(* The timers fire and the event loop goes on: files and the log answer;   *)
(* nothing is assumed of Ollama, grep, the callers or the drain.           *)
Running ==
  \/ Open \/ EmbedAborted \/ Bm25 \/ Dense \/ Graph \/ Confidence \/ Fuse \/ Resolve
  \/ Report \/ AllSignalsFailed \/ Caught \/ Catch \/ FallThrough \/ Overrun
  \/ Only \/ Promote \/ CatalogGrep \/ GrepAborted \/ PathsLookup \/ Reply
FairSpec == Spec /\ WF_vars(Running) /\ WF_vars(TierTimeout)
-----------------------------------------------------------------------------
Hit == [doc : Docs, tier : 1 .. 4]
Found == UNION {[1 .. n -> Docs] : n \in 0 .. Cardinality(Docs)}
TypeOK ==
  /\ row \in [Docs -> Facets \cup {"absent", "unclassified"}]
  /\ indexed \subseteq Classified /\ edges \subseteq Links
  /\ broken \in Outages \cup {{}}
  /\ req \in Queries \cup {None} /\ (req = None <=> pc = "idle")
  /\ pc \in Points /\ tier \in 1 .. 4
  /\ master \in BOOLEAN /\ child \in BOOLEAN /\ (master => child)
  /\ embedded \in BOOLEAN /\ sig \in [Signals -> Found \cup {Failed}]
  /\ found \in Found
  /\ Range(merged) \subseteq Hit /\ Len(merged) <= Cardinality(Docs)
  /\ deepest \in 1 .. tier /\ done \subseteq 1 .. tier

Answered == pc = "answered" /\ answer.error = None
Answers == {answer.hits[i].doc : i \in DOMAIN answer.hits}

(* The rows are read more than once and the drain writes in between; still *)
(* a document is returned once, at most limit of them, and what comes from *)
(* the database tiers exists, is classified and passes the filter when the *)
(* caller gets it.                                                         *)
AnswerIsSound ==
  Answered =>
    /\ Cardinality(Answers) = Len(answer.hits) /\ Len(answer.hits) <= req.limit
    /\ \A i \in DOMAIN answer.hits :
         answer.hits[i].tier \in {1, 2} =>
           answer.hits[i].doc \in Classified /\ row[answer.hits[i].doc] \in req.filter

(* A caller that gets fewer hits than it asked for, with a full-text search*)
(* that worked in a tier that returned, has got every matching document    *)
(* that was indexed when it asked.                                         *)
Searched ==
  2 \in done \/ (1 \in done /\ sig["bm25"] # Failed /\ "unclassified" \notin req.filter)
NothingMissed ==
  Answered /\ Searched /\ Len(answer.hits) < req.limit
    /\ Cardinality(indexed \cap req.words) <= TopK
  => due \subseteq Answers

(* Fusion respects unanimity: what no signal places behind another and     *)
(* weighs no less is not ranked behind it, nor cut off in its favour.      *)
Beats(d, e) ==
  /\ \A k \in Signals :
       e \in DocsOf({k}) => d \in DocsOf({k}) /\ Place(sig[k], d) < Place(sig[k], e)
  /\ weight[d] >= weight[e]
RankRespected ==
  pc = "resolve" =>
    \A d, e \in Docs :
      d # e /\ e \in Range(found) /\ Beats(d, e)
        => d \in Range(found) /\ Place(found, d) < Place(found, e)

(* Every request is answered, though Ollama and grep may hang: by the      *)
(* timers at the latest.                                                   *)
EventuallyAnswered == pc # "idle" ~> pc \in {"answered", "idle"}
-----------------------------------------------------------------------------
(* specs/005-retrieval/spec.md:70: with the embedding model unavailable    *)
(* "BM25 + graph + confidence still produce results". The master budget is *)
(* shorter than the embedder's timeout, so an embedder that hangs takes    *)
(* the other signals and tiers with it.                                    *)
IndexStillAnswers == Answered /\ due # {} => answer.hits # <<>>

(* specs/006-hardening/spec.md:119: grep's files are mapped to documents. *)
GrepFinds == Answered /\ 4 \in done /\ ~child /\ Len(answer.hits) < req.limit
               => Grepped \cap Classified \subseteq Answers
=============================================================================
