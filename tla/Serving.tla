------------------------------- MODULE Serving -------------------------------
(***************************************************************************)
(* The read-only resources of the MCP server (packages/transport) over the *)
(* files and the database that the pipeline goes on writing:               *)
(* corpus://failures, which "corpus failures list" reads the same way,     *)
(* corpus://docs/{id} and corpus://manifest. Nobody takes a lock to read.  *)
(*                                                                         *)
(* A step of a read ends at an await or at the end of an SQL statement. The*)
(* reads of a client do not touch each other, so one client that reads one *)
(* resource at a time stands for all; for the failures it walks through    *)
(* the pages, limit entries at a time. Sidecars are written by rename, one *)
(* file name per source, and carry distinct timestamps.                    *)
(***************************************************************************)
EXTENDS Naturals, FiniteSets

CONSTANTS
  Docs, None,
  Names,      \* the sidecars' file names, by who writes them: <<document, kind>>
  Limit,      \* ?limit=
  MaxTime,    \* bound on the sidecars written and the documents committed
  CanRemove,  \* the operator removes sidecars ("so operators can rm <path>")
  CanMute,    \* the telemetry log may be unwritable
  Refusals    \* why a read may be refused although its data is there

ASSUME ServingAssumption ==
  /\ Limit \in Nat \ {0} /\ MaxTime \in Nat
  /\ {CanRemove, CanMute} \subseteq BOOLEAN /\ None \notin Docs
  /\ Names \subseteq Docs \X {"lane", "error", "recovery"}
  /\ Refusals \subseteq {"locked", "integrity", "invalid", "thrown"}

\* The stages the sidecars of a kind carry: routeToFailed's (lane), those of the classify
\* and retrieval stages (<doc>.error.json), the recovery scan's.
Written == [lane |-> {"persist"}, error |-> {"classify", "embed", "index", "edges"},
            recovery |-> {"ingest"}]
Times == 0 .. MaxTime
Entries == [name : Names, stage : UNION {Written[k] : k \in DOMAIN Written}, at : Times]

VARIABLES
  clock,     \* timestamps given out
  sidecars,  \* the entries in Paths.failed(), one per name
  row,       \* of each document: None or its ingest_timestamp
  body,      \* the documents whose body file is in place
  ready,     \* "connecting", "connected", "ready"
  pc,        \* of the client
  stage,     \* ?stage=, or None
  offset,    \* ?offset=
  todo,      \* names still to be read
  got,       \* entries read for this page
  seen,      \* entries of all the pages
  stable,    \* history: entries that are there since the walk began
  shrunk,    \* history: an entry of the walk was taken off the list under it
  want,      \* the document asked for
  had,       \* history: was its row there?
  answer,    \* what the handler has to return
  logged     \* resource.read events of this request

vars == <<clock, sidecars, row, body, ready, pc, stage, offset, todo, got, seen, stable,
          shrunk, want, had, answer, logged>>
disk == <<clock, sidecars, row, body>>
walk == <<stage, offset, todo, got, seen, stable, shrunk>>
reply == <<want, had, answer, logged>>

Kinds == {"none", "page", "served", "manifest", "not_found", "missing", "muted",
          "locked", "integrity", "invalid", "thrown"}
Answers == [is : Kinds, count : Nat, last : Times \cup {None}]
Answer(what) == [is |-> what, count |-> 0, last |-> None]
NoAnswer == Answer("none")

TypeOK ==
  /\ clock \in Times /\ sidecars \subseteq Entries
  /\ row \in [Docs -> Times \cup {None}] /\ body \subseteq Docs
  /\ ready \in {"connecting", "connected", "ready"}
  /\ pc \in {"idle", "list", "parse", "body", "last", "emit", "catch", "done"}
  /\ stage \in {None, "embed", "index"} /\ offset \in Nat
  /\ todo \subseteq Names /\ got \subseteq Entries /\ seen \subseteq Entries
  /\ stable \subseteq Entries /\ shrunk \in BOOLEAN
  /\ want \in Docs \cup {None} /\ had \in BOOLEAN /\ answer \in Answers /\ logged \in Nat

Init ==
  /\ clock = 0 /\ sidecars = {} /\ row = [d \in Docs |-> None] /\ body = {}
  /\ ready = "connecting" /\ pc = "idle"
  /\ stage = None /\ offset = 0 /\ todo = {} /\ got = {} /\ seen = {}
  /\ stable = {} /\ shrunk = FALSE
  /\ want = None /\ had = FALSE /\ answer = NoAnswer /\ logged = 0

----------------------------------------------------------------------------
(* The pipeline and the operator *)

\* The strict schema of a sidecar takes neither the source_path of the failure lane, nor
\* the retry_count of the classify stage, nor the stage "edges".
Listable(e) == e.name[2] = "recovery" \/ e.stage \in {"embed", "index"}

Matching(E) == {e \in E : stage # None => e.stage = stage}

Shown(E) == {e \in Matching(E) : Listable(e)}

\* A sidecar of the same name is replaced.
WriteSidecar(n) ==
  /\ clock < MaxTime
  /\ clock' = clock + 1
  /\ \E s \in Written[n[2]] :
       LET old == {e \in sidecars : e.name = n}
           new == {[name |-> n, stage |-> s, at |-> clock + 1]}
       IN /\ sidecars' = (sidecars \ old) \cup new
          /\ stable' = stable \ old
          /\ shrunk' = (shrunk \/ (pc # "idle" /\ Shown(old) # {} /\ Shown(new) = {}))
  /\ UNCHANGED <<row, body, ready, pc, stage, offset, todo, got, seen, reply>>

RemoveSidecar(e) ==
  /\ CanRemove
  /\ sidecars' = sidecars \ {e} /\ stable' = stable \ {e}
  /\ shrunk' = (shrunk \/ (pc # "idle" /\ Shown({e}) # {}))
  /\ UNCHANGED <<clock, row, body, ready, pc, stage, offset, todo, got, seen, reply>>

PlaceBody(d) ==
  /\ d \notin body
  /\ body' = body \cup {d}
  /\ UNCHANGED <<clock, sidecars, row, ready, pc, walk, reply>>

\* The INSERT or the rename that comes before the COMMIT fails.
RemoveBody(d) ==
  /\ row[d] = None /\ d \in body
  /\ body' = body \ {d}
  /\ UNCHANGED <<clock, sidecars, row, ready, pc, walk, reply>>

\* Mutation: the row is committed before the body file is in place.
MayCommitFirst(d) == row[d] = None
MayCommit(d) == row[d] = None /\ d \in body

CommitRow(d) ==
  /\ MayCommit(d) /\ clock < MaxTime
  /\ clock' = clock + 1
  /\ row' = [row EXCEPT ![d] = clock + 1]
  /\ UNCHANGED <<sidecars, body, ready, pc, walk, reply>>

----------------------------------------------------------------------------
(* The server comes up: requests arrive once it is connected, and are refused with    *)
(* server_initializing until the index and the configuration are in order.            *)

Connect ==
  /\ ready = "connecting" /\ ready' = "connected"
  /\ UNCHANGED <<disk, pc, walk, reply>>

MarkReady ==
  /\ ready = "connected" /\ ready' = "ready"
  /\ UNCHANGED <<disk, pc, walk, reply>>

Ask == pc = "idle" /\ ready = "ready"

\* A writer has held the database for longer than busy_timeout ("locked"); the body bears
\* another document's id ("integrity"), or the payload does not pass its schema ("invalid");
\* the request is aborted, or a file or a statement fails otherwise ("thrown").
Refuse(why) ==
  /\ why \in Refusals
  /\ answer' = Answer(why)
  /\ pc' = IF why = "thrown" THEN "catch" ELSE "emit"

----------------------------------------------------------------------------
(* corpus://failures *)

StartWalk ==
  /\ Ask
  /\ stage' \in {None, "embed", "index"}
  /\ offset' = 0 /\ seen' = {} /\ stable' = sidecars /\ shrunk' = FALSE
  /\ pc' = "list"
  /\ UNCHANGED <<disk, ready, todo, got, reply>>

\* readdir.
ListSidecars ==
  /\ pc = "list"
  /\ todo' = {e.name : e \in sidecars}
  /\ got' = {} /\ logged' = 0
  /\ pc' = "parse"
  /\ UNCHANGED <<disk, ready, stage, offset, seen, stable, shrunk, want, had, answer>>

\* The files are read in parallel; one that has gone or does not parse is skipped.
ParseSidecar(n) ==
  /\ pc = "parse" /\ n \in todo
  /\ todo' = todo \ {n}
  /\ got' = got \cup {e \in sidecars : e.name = n /\ Listable(e)}
  /\ UNCHANGED <<disk, ready, pc, stage, offset, seen, stable, shrunk, reply>>

\* Mutation: oldest first.
BeforeOldest(a, b) == a.at < b.at
Before(a, b) == a.at > b.at

Page(E) ==
  {e \in E : LET rank == Cardinality({f \in E : Before(f, e)})
             IN offset <= rank /\ rank < offset + Limit}

ReadPage ==
  /\ pc = "parse" /\ todo = {}
  /\ seen' = seen \cup Page(Matching(got))
  /\ answer' = Answer("page")
  /\ pc' = "emit"
  /\ UNCHANGED <<disk, ready, stage, offset, todo, got, stable, shrunk, want, had, logged>>

\* readdir fails, or the request is aborted, which the reads of the files look at as well.
BreakOff ==
  /\ pc \in {"list", "parse"}
  /\ Refuse("thrown") /\ logged' = 0
  /\ UNCHANGED <<disk, ready, walk, want, had>>

\* The client asks for the next page as long as total_count says there is one.
NextPage ==
  /\ pc = "done" /\ answer.is = "page" /\ offset + Limit < Cardinality(Matching(got))
  /\ offset' = offset + Limit
  /\ pc' = "list"
  /\ UNCHANGED <<disk, ready, stage, todo, got, seen, stable, shrunk, reply>>

----------------------------------------------------------------------------
(* corpus://docs/{id} and corpus://manifest *)

FetchRow(d) ==
  /\ Ask
  /\ want' = d /\ had' = (row[d] # None) /\ logged' = 0
  /\ \/ row[d] # None /\ pc' = "body" /\ UNCHANGED answer
     \/ row[d] = None /\ pc' = "emit" /\ answer' = Answer("not_found")
     \/ \E why \in {"locked", "thrown"} : Refuse(why)
  /\ UNCHANGED <<disk, ready, walk>>

\* A body file that is not there throws.
ReadBody ==
  /\ pc = "body"
  /\ \/ want \in body /\ pc' = "emit" /\ answer' = Answer("served")
     \/ want \notin body /\ pc' = "catch" /\ answer' = Answer("missing")
     \/ \E why \in {"integrity", "invalid", "thrown"} : Refuse(why)
  /\ UNCHANGED <<disk, ready, walk, want, had, logged>>

Committed == {row[d] : d \in Docs} \ {None}

\* SELECT COUNT(*), then SELECT MAX(ingest_timestamp), outside a transaction.
CountDocs ==
  /\ Ask
  /\ \/ /\ answer' = [is |-> "manifest", count |-> Cardinality(Committed), last |-> None]
        /\ pc' = "last"
     \/ \E why \in {"locked", "thrown"} : Refuse(why)
  /\ logged' = 0
  /\ UNCHANGED <<disk, ready, walk, want, had>>

LastIngest ==
  /\ pc = "last"
  /\ \/ /\ answer' = [is |-> "manifest", count |-> answer.count,
                       last |-> IF Committed = {} THEN None
                                ELSE CHOOSE t \in Committed : \A u \in Committed : u <= t]
        /\ pc' = "emit"
     \/ \E why \in {"locked", "invalid", "thrown"} : Refuse(why)
  /\ UNCHANGED <<disk, ready, walk, want, had, logged>>

----------------------------------------------------------------------------
(* The answer *)

\* Mutation: an answer goes out although its event could not be appended.
AfterMuteAnswer == pc' = "done" /\ UNCHANGED answer

\* An append that fails is an exception like any other.
AfterMute == pc' = "catch" /\ answer' = Answer("muted")

\* The refusals that are reported before they are thrown as an McpError.
McpErrors == {"not_found", "locked", "integrity", "invalid"}

\* emitResourceRead, before the answer goes out.
EmitRead ==
  /\ pc = "emit"
  /\ \/ /\ logged' = logged + 1
        /\ IF answer.is \in McpErrors THEN pc' = "catch" ELSE pc' = "done"
        /\ UNCHANGED answer
     \/ /\ CanMute /\ UNCHANGED logged
        /\ AfterMute
  /\ UNCHANGED <<disk, ready, walk, want, had>>

\* An McpError was logged where it was thrown.
MustLog == answer.is \in {"missing", "thrown", "muted"}

Catch ==
  /\ pc = "catch"
  /\ \/ MustLog /\ logged' = logged + 1
     \/ (~MustLog \/ CanMute) /\ UNCHANGED logged
  /\ pc' = "done"
  /\ UNCHANGED <<disk, ready, walk, want, had, answer>>

\* The client is done with the request, or with the walk.
Leave ==
  /\ pc = "done"
  /\ pc' = "idle"
  /\ offset' = 0 /\ todo' = {} /\ got' = {} /\ seen' = {} /\ stable' = {} /\ stage' = None
  /\ shrunk' = FALSE
  /\ want' = None /\ had' = FALSE /\ answer' = NoAnswer /\ logged' = 0
  /\ UNCHANGED <<disk, ready>>

Failures ==
  \/ StartWalk \/ ListSidecars \/ \E n \in Names : ParseSidecar(n)
  \/ ReadPage \/ NextPage \/ BreakOff
Read == (\E d \in Docs : FetchRow(d)) \/ ReadBody \/ CountDocs \/ LastIngest
Reply == EmitRead \/ Catch \/ Leave
Pipeline ==
  \/ \E n \in Names : WriteSidecar(n)
  \/ \E e \in sidecars : RemoveSidecar(e)
  \/ \E d \in Docs : PlaceBody(d) \/ RemoveBody(d) \/ CommitRow(d)

Next == Pipeline \/ Connect \/ MarkReady \/ Failures \/ Read \/ Reply

Spec == Init /\ [][Next]_vars

----------------------------------------------------------------------------
(* Properties *)

Walked ==
  /\ pc = "done" /\ answer.is = "page" /\ ~(offset + Limit < Cardinality(Matching(got)))

\* A client that walked through all pages has seen every failure it could be shown that was
\* on disk during the whole walk, although failures are added and renewed under it
\* (failures-resource-adapter.ts:186: the newest first, then offset and limit), as long as
\* none is taken off the list.
WalkComplete == Walked /\ ~shrunk => Shown(stable) \subseteq seen

\* A document whose row was there when it was asked for is never answered as unknown, nor
\* its body file as missing, although row and body are read in two steps next to an ingest
\* that commits, fails and begins again (document-adapter.ts:56-69). It is served, or
\* refused as the handler says: locked, corrupt, aborted, or without a telemetry log.
CommittedIsFound ==
  pc = "done" /\ had => answer.is \notin {"not_found", "missing"}

\* A request leaves one resource.read event, never two, and no data goes out without it
\* (Constitution XIII as resource-document-handler.ts:137 states it).
AnswersAreLogged ==
  pc = "done" => logged <= 1 /\ (~MustLog => logged = 1)

----------------------------------------------------------------------------
(* What the code does not do *)

\* The same although an operator removes the sidecars that have been dealt with, or a later
\* failure of the same document is one that is not listed.
WalkSurvivesTriage == Walked => Shown(stable) \subseteq seen

\* corpus://failures shows the sidecars of Paths.failed(), of all stages
\* (specs/006-hardening/spec.md:182).
FailuresShown == Walked => Matching(stable) \subseteq seen

=============================================================================
