------------------------------ MODULE Recovery ------------------------------
(***************************************************************************)
(* What the telemetry log tells the daemon about work that was killed:     *)
(* the boot of the daemon (daemon/src/index.ts) with its recovery scan     *)
(* (recovery-scanner.ts, recovery-resumability.ts), next to the stages     *)
(* that write the log, run by the daemon and by one CLI command at a time. *)
(*                                                                         *)
(* The scan uses the log as a set of events since the last "daemon.started"*)
(* and pairs each started stage with any end of the same stage of the same *)
(* document, in whatever order. So the log is kept as the set of those     *)
(* events. The scan's own events, which decide only whether it appends     *)
(* recovery.scan_reentry, are left out. A stage is a chain of points, each *)
(* with the event it appends, its effect on the row, and the points that   *)
(* may follow.                                                             *)
(***************************************************************************)
EXTENDS Naturals, FiniteSets

CONSTANTS
  Docs,         \* documents; one inbox file name each
  Daemon, Cli,  \* the daemon, and the CLI command that is run, one after the other
  None,
  MaxBoots,     \* bound on the boots
  MaxKills,     \* bound on the kills
  CanMute,      \* the append of "daemon.started" may fail
  CanFail,      \* schema init and stages fail, and so does the write of a sidecar
  CanExpire     \* recoveryScanTimeoutMs may run out

ASSUME RecoveryAssumption ==
  /\ Daemon # Cli /\ None \notin {Daemon, Cli}
  /\ MaxBoots \in Nat /\ MaxKills \in Nat
  /\ {CanMute, CanFail, CanExpire} \subseteq BOOLEAN

Procs == {Daemon, Cli}
Stages == {"ingest", "classify", "embed", "index", "edges-build"}

\* The events of a stage, as STAGE_STARTED_EVENTS and STAGE_COMPLETED_EVENTS sort them.
Starts == [normalized |-> "ingest", classify |-> "classify", embed |-> "embed",
           index |-> "index", edges |-> "edges-build"]
Ends == [ingested |-> "ingest", classified |-> "classify", refused |-> "classify",
         embedded |-> "embed", embedfail |-> "embed", indexed |-> "index",
         indexfail |-> "index", edged |-> "edges-build", edgefail |-> "edges-build"]
Orphans == Docs \X Stages
Events == {"start", "end"} \X Orphans

\* The points of the chains: ingest, then classify, then embed, edges and index.
Good == [take |-> "normalized", normalized |-> "ingested",
         classify |-> "commit", commit |-> "classified",
         embed |-> "embedded", embedded |-> "edges", edges |-> "index",
         index |-> "txn", txn |-> "indexed", indexed |-> "edged"]
\* Where the failure of a point leads; "end" leaves without an event of its own.
Bad == [classify |-> {"refused", "end"}, classified |-> {"end"}, embed |-> {"embedfail"},
        edges |-> {"edgefail"}, index |-> {"indexfail"}]
Points == DOMAIN Good \cup DOMAIN Ends

VARIABLES
  log,       \* the events since the last "daemon.started"
  started,   \* is there a "daemon.started" in the log?
  row,       \* of each document: "none", "raw", "classified", "indexed"
  inbox,     \* documents with a file of their name in the inbox
  sidecars,  \* documents with a .recovery.error.json
  holder,    \* of the drain lock, or None
  pc,        \* where each process is
  job,       \* the document a busy process works on, and the point it is at
  expired,   \* has the scan's timeout fired?
  todo, found,  \* orphans the scan has still to report, and those it reported
  cur,       \* the orphan in hand
  before,    \* history: stages killed and left open when this session began
  mistaken,  \* history: stages this scan reported or wrote off while they were running
  boots, kills  \* counted for the bounds

vars == <<log, started, row, inbox, sidecars, holder, pc, job, expired, todo, found,
          cur, before, mistaken, boots, kills>>
window == <<log, started>>
docs == <<row, inbox, sidecars>>
scan == <<expired, todo, found, cur, before, mistaken>>
counts == <<boots, kills>>

NoJob == [doc |-> None, at |-> "end"]

\* The points of the scan: it reads the log, turns to its orphans, and with each it
\* waits for the report, then for the sidecar.
InHand == {"report", "dispatch", "sidecar"}
Scans == {"read", "resolve"} \cup InHand
Places == {"down", "boot", "lock", "idle", "busy"} \cup Scans

TypeOK ==
  /\ log \subseteq Events /\ started \in BOOLEAN
  /\ row \in [Docs -> {"none", "raw", "classified", "indexed"}]
  /\ inbox \subseteq Docs /\ sidecars \subseteq Docs
  /\ holder \in Procs \cup {None}
  /\ pc \in [Procs -> Places]
  /\ job \in [Procs -> [doc : Docs, at : Points] \cup {NoJob}]
  /\ expired \in BOOLEAN /\ todo \subseteq Orphans /\ found \subseteq Orphans
  /\ cur \in Orphans \cup {None} /\ before \subseteq Orphans /\ mistaken \subseteq Orphans
  /\ boots \in 0 .. MaxBoots /\ kills \in 0 .. MaxKills

Init ==
  /\ log = {} /\ started = FALSE
  /\ row = [d \in Docs |-> "none"] /\ inbox = Docs /\ sidecars = {}
  /\ holder = None
  /\ pc = [p \in Procs |-> IF p = Daemon THEN "down" ELSE "idle"]
  /\ job = [p \in Procs |-> NoJob]
  /\ expired = FALSE /\ todo = {} /\ found = {} /\ cur = None
  /\ before = {} /\ mistaken = {}
  /\ boots = 0 /\ kills = 0

Goto(p, where) == pc' = [pc EXCEPT ![p] = where]
Append(ev, d, stage) == log' = log \cup {<<ev, <<d, stage>>>>}

\* Mutation: a pass does not look at the result of acquiring the lock.
FreeAlways == TRUE

\* The drain lock as ExclusiveLock has it; a killed holder loses it (see DrainLock).
Free == holder = None
Release(p) == holder' = IF holder = p THEN None ELSE holder

\* Started \ completed.
Unfinished(E) == {o \in Orphans : <<"start", o>> \in E /\ <<"end", o>> \notin E}

----------------------------------------------------------------------------
(* The stages *)

Begin(p) ==
  /\ pc[p] = "idle" /\ Free
  /\ holder' = p
  /\ Goto(p, "busy")
  /\ UNCHANGED <<window, docs, job, scan, counts>>

\* Where a pass picks up a document: the inbox, the sentinel rows, or ("corpus
\* reindex") the classified rows without a vector.
Entry(p, d) ==
  {pt \in {"take", "classify", "embed"} :
     \/ pt = "take" /\ d \in inbox
     \/ pt = "classify" /\ row[d] = "raw"
     \/ pt = "embed" /\ row[d] = "classified" /\ p = Cli}

Pick(p) ==
  /\ pc[p] = "busy" /\ job[p] = NoJob
  /\ \E d \in Docs : \E pt \in Entry(p, d) : job' = [job EXCEPT ![p] = [doc |-> d, at |-> pt]]
  /\ UNCHANGED <<window, docs, holder, pc, scan, counts>>

\* What follows a point. reenrich classifies without indexing, the daemon goes on.
Follow(p, pt) ==
  (IF pt \in DOMAIN Good THEN {Good[pt]}
   ELSE IF pt = "classified" /\ p = Daemon THEN {"embed"} ELSE {"end"})
    \cup (IF CanFail /\ pt \in DOMAIN Bad THEN Bad[pt] ELSE {})

Emit(d, pt) ==
  IF pt \in DOMAIN Starts THEN Append("start", d, Starts[pt])
  ELSE IF pt \in DOMAIN Ends THEN Append("end", d, Ends[pt])
  ELSE UNCHANGED log

\* Its effect: the drain moves the file out of the inbox and commits a row, the
\* classify and the index transaction commit theirs.
Effect(d, pt) ==
  /\ inbox' = IF pt = "take" THEN inbox \ {d} ELSE inbox
  /\ row' = CASE pt = "take" /\ row[d] = "none" -> [row EXCEPT ![d] = "raw"]
              [] pt = "commit" -> [row EXCEPT ![d] = "classified"]
              [] pt = "txn" -> [row EXCEPT ![d] = "indexed"]
              [] OTHER -> row
  /\ UNCHANGED sidecars

\* A file whose document is already there is a duplicate: no event of a stage.
Advance(p, points) ==
  /\ pc[p] = "busy" /\ job[p] # NoJob /\ job[p].at \in points
  /\ LET d == job[p].doc
         pt == job[p].at
         next == IF pt = "take" /\ row[d] # "none" THEN {"end"} ELSE Follow(p, pt)
     IN /\ Emit(d, pt) /\ Effect(d, pt)
        /\ \E n \in next :
             job' = [job EXCEPT ![p] = IF n = "end" THEN NoJob ELSE [doc |-> d, at |-> n]]
  /\ UNCHANGED <<started, holder, pc, scan, counts>>

DrainDoc(p) == Advance(p, {"take", "normalized", "ingested"})
ClassifyDoc(p) == Advance(p, {"classify", "refused", "commit", "classified"})
RetrieveDoc(p) == Advance(p, Points \ {"take", "normalized", "ingested",
                                       "classify", "refused", "commit", "classified"})
Work(p) == DrainDoc(p) \/ ClassifyDoc(p) \/ RetrieveDoc(p)

Finish(p) ==
  /\ pc[p] = "busy" /\ job[p] = NoJob
  /\ Release(p)
  /\ Goto(p, "idle")
  /\ UNCHANGED <<window, docs, job, scan, counts>>

\* The stages a live process is in the middle of: started, and no end yet.
Within == [ingested |-> {"ingest"}, commit |-> {"classify"}, classified |-> {"classify"},
           refused |-> {"classify"}, embedded |-> {"embed"}, embedfail |-> {"embed"},
           index |-> {"edges-build"}, edgefail |-> {"edges-build"},
           txn |-> {"edges-build", "index"}, indexed |-> {"edges-build", "index"},
           indexfail |-> {"edges-build", "index"}, edged |-> {"edges-build"}]
InProgress(o) ==
  \E p \in Procs :
    /\ pc[p] = "busy" /\ job[p].doc = o[1]
    /\ job[p].at \in DOMAIN Within /\ o[2] \in Within[job[p].at]

----------------------------------------------------------------------------
(* The boot of the daemon *)

StartDaemon ==
  /\ pc[Daemon] = "down" /\ boots < MaxBoots
  /\ boots' = boots + 1
  /\ Goto(Daemon, "boot")
  /\ UNCHANGED <<window, docs, holder, job, scan, kills>>

\* The schema cannot be initialised, or a lane not be made: exit(1).
InitFails ==
  /\ pc[Daemon] = "boot" /\ CanFail
  /\ Goto(Daemon, "down")
  /\ UNCHANGED <<window, docs, holder, job, scan, counts>>

\* "daemon.started" opens a session, unless its append fails.
EmitStarted ==
  /\ pc[Daemon] = "boot"
  /\ \/ /\ started' = TRUE /\ log' = {}
        /\ before' = {o \in Unfinished(log) : ~InProgress(o)}
     \/ CanMute /\ UNCHANGED <<window, before>>
  /\ Goto(Daemon, "lock")
  /\ UNCHANGED <<docs, holder, job, expired, todo, found, cur, mistaken, counts>>

\* Mutation: waits for the lock.
AcquireWaits == Free /\ holder' = Daemon /\ Goto(Daemon, "read") /\ UNCHANGED before

\* Contention skips the scan, and the daemon goes on to its work.
AcquireForScan ==
  IF Free THEN holder' = Daemon /\ Goto(Daemon, "read") /\ UNCHANGED before
  ELSE Goto(Daemon, "idle") /\ before' = {} /\ UNCHANGED holder

BeginScan ==
  /\ pc[Daemon] = "lock"
  /\ AcquireForScan
  /\ UNCHANGED <<window, docs, job, expired, todo, found, cur, mistaken, counts>>

\* The timeout gives the lock back while the scan is still running.
Expire ==
  /\ CanExpire /\ pc[Daemon] \in Scans /\ ~expired
  /\ expired' = TRUE
  /\ Release(Daemon)
  /\ UNCHANGED <<window, docs, pc, job, todo, found, cur, before, mistaken, counts>>

ScanOver ==
  /\ expired' = FALSE /\ todo' = {} /\ found' = {} /\ cur' = None
  /\ before' = {} /\ mistaken' = {}

\* Mutation: gives the lock back only when there is nothing to report.
LeaveScanHolding ==
  /\ IF todo = {} THEN Release(Daemon) ELSE UNCHANGED holder
  /\ Goto(Daemon, "idle")
  /\ ScanOver

\* The finally blocks: the lock is released, and the daemon goes on.
LeaveScan ==
  /\ Release(Daemon) /\ Goto(Daemon, "idle")
  /\ ScanOver

\* The window begins with the last "daemon.started"; without one there is no scan.
ReadLog ==
  /\ pc[Daemon] = "read"
  /\ IF expired \/ ~started
     THEN LeaveScan
     ELSE /\ todo' = Unfinished(log)
          /\ Goto(Daemon, "resolve") /\ UNCHANGED <<holder, expired, found, cur, before, mistaken>>
  /\ UNCHANGED <<window, docs, job, counts>>

\* Mutation: turns to the next orphan after the timeout.
MayTurnOn == TRUE
MayTurn == ~expired

\* The signal is looked at only here, before the calls an orphan waits for.
TurnTo(o) ==
  /\ pc[Daemon] = "resolve" /\ o \in todo /\ MayTurn
  /\ cur' = o /\ todo' = todo \ {o}
  /\ Goto(Daemon, "report")
  /\ UNCHANGED <<window, docs, holder, job, expired, found, before, mistaken, counts>>

\* What is said of the orphan in hand is wrong when its stage is running again.
Judge == mistaken' = mistaken \cup {o \in {cur} : InProgress(o)}

\* recovery.orphan_found, of which a failing append is only logged.
Report ==
  /\ pc[Daemon] = "report"
  /\ \/ found' = found \cup {cur} /\ Judge
     \/ CanMute /\ UNCHANGED <<found, mistaken>>
  /\ Goto(Daemon, "dispatch")
  /\ UNCHANGED <<window, docs, holder, job, expired, todo, cur, before, counts>>

\* classifyOrphan: an ingest orphan needs its inbox file, the others can always be
\* resumed. requeue does nothing.
Resumable(o) == o[2] = "ingest" => o[1] \in inbox
Dispatch ==
  /\ pc[Daemon] = "dispatch"
  /\ Goto(Daemon, IF Resumable(cur) THEN "resolve" ELSE "sidecar")
  /\ UNCHANGED <<window, docs, holder, job, scan, counts>>

\* A sidecar that cannot be written ends the scan.
WriteOff ==
  /\ pc[Daemon] = "sidecar"
  /\ \/ /\ sidecars' = sidecars \cup {cur[1]} /\ Judge
        /\ Goto(Daemon, "resolve")
        /\ UNCHANGED <<holder, expired, todo, found, cur, before>>
     \/ CanFail /\ LeaveScan /\ UNCHANGED sidecars
  /\ UNCHANGED <<window, row, inbox, job, counts>>

\* The scan ran through its orphans, or was stopped by the timeout.
EndScan ==
  /\ pc[Daemon] = "resolve"
  /\ todo = {} \/ ~MayTurn
  /\ LeaveScan
  /\ UNCHANGED <<window, docs, job, counts>>

----------------------------------------------------------------------------
(* The environment *)

\* kill -9. After a command of the CLI the next one can be run.
Kill(p) ==
  /\ pc[p] # "down" /\ kills < MaxKills
  /\ kills' = kills + 1
  /\ Goto(p, IF p = Daemon THEN "down" ELSE "idle")
  /\ Release(p)
  /\ job' = [job EXCEPT ![p] = NoJob]
  /\ IF p = Daemon THEN ScanOver ELSE UNCHANGED scan
  /\ UNCHANGED <<window, docs, boots>>

\* The user drops a file of the same name again.
Drop(d) ==
  /\ d \notin inbox
  /\ inbox' = inbox \cup {d}
  /\ UNCHANGED <<window, row, sidecars, holder, pc, job, scan, counts>>

Stage(p) == Begin(p) \/ Pick(p) \/ Work(p) \/ Finish(p)
Boot ==
  \/ InitFails \/ EmitStarted \/ BeginScan \/ ReadLog
  \/ \E o \in Orphans : TurnTo(o)
  \/ Report \/ Dispatch \/ WriteOff \/ EndScan

Next ==
  \/ \E p \in Procs : Stage(p) \/ Kill(p)
  \/ StartDaemon \/ Boot \/ Expire
  \/ \E d \in Docs : Drop(d)

Spec == Init /\ [][Next]_vars

\* The boot does not wait for anything: its calls return.
FairSpec == Spec /\ WF_vars(Boot)

----------------------------------------------------------------------------
(* Properties *)

\* Wherever the timeout fires and whatever is started under the lock it gave back, a scan
\* reports or writes off at most one stage that a live process is in the middle of, the one
\* it had in hand; before the timeout, none (recovery-scanner.ts:184, the lock goes with the
\* timeout; :426, the signal is looked at between two orphans).
OneMistake ==
  /\ mistaken # {} => expired
  /\ \A o, q \in mistaken : o = q

\* Whatever the scan runs into, a booting daemon comes to serve the inbox, unless it is
\* killed or cannot initialise its schema (daemon/src/index.ts:144-147, "Failure does NOT
\* prevent daemon startup").
Booting == pc[Daemon] \in {"boot", "lock"} \cup Scans
DaemonServes == Booting ~> pc[Daemon] \in {"idle", "busy", "down"}

\* The lock the scan took does not stay with it: a daemon that serves its inbox and is not
\* in a pass does not hold it, and neither does a scan whose timeout has fired, so that a
\* drain is not stalled (recovery-scanner.ts:183).
ScanGivesBack ==
  holder = Daemon =>
    pc[Daemon] = "busy" \/ (pc[Daemon] \in Scans /\ ~expired)

\* Whatever is killed, and whoever goes on with what it left, the stages write the corpus
\* readers rely on: no document is committed, classified or indexed twice, nor loses what
\* it had. The lock is what keeps two passes from working on one document.
Known == {d \in Docs : row[d] # "none"}
Indexed == {d \in Docs : row[d] = "indexed"}
Facet == [d \in Docs |-> IF row[d] \in {"classified", "indexed"} THEN "classified" ELSE "none"]
C == INSTANCE Corpus WITH Facets <- {"classified"}, None <- "none", placed <- Docs,
                          known <- Known, facets <- Facet, indexed <- Indexed, edges <- {}
ImplementsCorpus == C!Spec

----------------------------------------------------------------------------
(* What the code does not do *)

\* "On restart, the recovery scanner detects all 5 orphans" of the killed daemon
\* (specs/006-hardening/spec.md:172): the scan of a restart that ran to its end found every
\* stage that was left open in the session before and that nobody has started again since.
OrphansDetected ==
  (boots > 1 /\ pc[Daemon] = "resolve" /\ todo = {} /\ ~expired) =>
    \A o \in before : <<"start", o>> \in log \/ o \in found

\* What a scan reports or writes off is dead: the timeout gives the lock back in the middle
\* of the calls for one orphan, and another process may start its stage again.
OrphanIsDead == mistaken = {}

\* A document written off as an unrecoverable orphan is not in the corpus.
UnresumableIsLost == \A d \in sidecars : row[d] = "none"
=============================================================================
