# TLA+ specifications of llm-corpus

llm-corpus is a local document corpus: files dropped into an inbox become rows
of one SQLite database and Markdown body files, a local language model (Ollama)
classifies them, and an MCP server answers queries over them. Several processes
share its state: the daemon, and any number of CLI commands (`drain`,
`reenrich`, `reindex`, `taxonomy promote`, and the installer's `init` and `uninstall`).
Those that work on documents coordinate through one lock file. Each of them may be
killed between any two system calls, get SIGTERM, or meet a failing call. That is what these specifications are about.

Paths below are relative to `packages/`.

## 1. The system

| Component | State | Operations | Hard part |
|---|---|---|---|
| Drain lock (`pipeline/src/drain-lock.ts`) | the lock file with its owner's pid; each handle's `released` flag | `acquireDrainLock`, steal from a dead owner, `release`, release on abort | check-then-unlink by several processes; kills between create and write; pid reuse |
| Ingest (`pipeline/src/drain-orchestrator.ts`, `persister.ts`, `failure-lane.ts`, `hasher.ts`, `validation-gate.ts`, `inbox-watcher.ts`) | the lanes `inbox/ pending/ processed/ failed/`, sidecars, `documents` rows, body files | one pass: list, validate, move, hash, dedup, normalize, write body, insert, rename, commit, or route to `failed/` | a file system and a database changed in separate steps; leftovers of killed passes; timeouts and SIGTERM at every await; writers that are not done |
| Classification (`pipeline/src/classify-stage.ts`, `classify-circuit-breaker.ts`, `storage/src/classify-persister.ts`, `inference/src/validate.ts`) | facets of a row, frontmatter of the body file, `taxonomy_terms`, sidecars, the breaker's count | ask, validate against a vocabulary snapshot, transaction, rename of the body file | COMMIT and rename are two steps; stale snapshot; which failures halt a batch |
| Retrieval indexing (`pipeline/src/retrieval-orchestrator.ts`, `index/src/edges-builder.ts`, `storage/src/index-persister.ts`) | `documents_vec`, `documents_fts`, `edges` | embed, build edges, insert all in one transaction | edges computed before the transaction; documents classified but not indexed |
| Taxonomy promotion (`cli/src/install-helpers/taxonomy-promote-helpers.ts`) | `taxonomy_terms` | promote named terms, or those used at least n times | races with a classify pass that holds a snapshot |
| Daemon (`daemon/src/index.ts`) | the pending trigger | initial drain, drain on a watcher event, classify pass after each drain, shutdown with a 2 s grace | a trigger spent on a contended lock |
| Recovery scanner (`pipeline/src/recovery-scanner.ts`, `recovery-resumability.ts`) | the telemetry log | at the boot of the daemon, under the drain lock: read the events since the last `daemon.started`, find stages that began and did not end, resume them or write a sidecar | where the window begins; commands that work meanwhile; a timeout between two orphans |
| Search (`index/src/search.ts`, `tier-orchestrator.ts`, `fusion.ts`) | none (reads the tables) | four signals fused by rank, three fallback tiers within a budget | per-tier timeouts, merging, missing signals |
| Installer (`cli/src/install-command.ts`, `uninstall-command.ts`, `install-helpers/`) | XDG directories, config, firewall rule, MCP client entry, service unit, receipt | steps of init, rollback, smoke test, uninstall | a failure, kill or timeout between any two steps; a host that already has some of it |
| MCP server (`transport/src/`) | none | read-only resources, `corpus.find`, one telemetry event per request | reads of several files and rows while the pipeline writes them |
| Engagement (`cli/src/engagement/`, `cli/src/accept-command.ts`) | the telemetry log and its rotated files | record answers, accept one, report over a window | appends, rotations and acceptances without a lock |
| Egress hook (`transport/src/egress-hook.ts`) | six patched functions | decide, call by call, whether a host is loopback | none: synchronous and installed once |
| Pilot harness (`pipeline/src/pilot-harness/`) | a run directory | an evaluation driver | not part of the running system |

Interaction: the inbox watcher triggers the daemon's drain, and after each drain
the daemon runs a classify pass; every pass, of the daemon or of a command,
first takes the drain lock and skips its work if it cannot. The stages of one
document communicate through the tables and the body file only. Telemetry is
written by every stage and read by the recovery scanner and the reports; a
failing append throws out of the stage.

`PROJECT.json` lists the hazards one by one, at their lines.

## 2. Modules

    ExclusiveLock        what users of the lock rely on (abstract)
    DrainLock            the lock file, system call by system call
    DrainLockProofs      theorems about DrainLock
    Corpus               what the readers of the store rely on (abstract)
    Ingest               a drain pass, several processes, the file system, SQLite
    IngestProofs         theorems about Ingest
    Enrich               classify and retrieval passes, taxonomy promotion
    EnrichProofs         theorems about Enrich
    Search               a corpus.find request: tiers, signals, fusion, budgets
    SearchProofs         theorems about Search
    Install              init, its rollback and smoke test, uninstall
    InstallProofs        theorems about Install
    Ledger               what the engagement log promises (abstract)
    Engagement           the log, its rotation, acceptances, a report
    EngagementProofs     theorems about Engagement
    Recovery             the daemon's boot and scan, beside the stages it looks for
    RecoveryProofs       theorems about Recovery
    Serving              the MCP resources, read while the pipeline writes
    ServingProofs        theorems about Serving
    MC*                  instances for TLC

`Ingest` and `Enrich` use the lock as `ExclusiveLock` describes it, with the two
ways in which `DrainLock` departs from it as explicit actions: an abort gives
the lock up while the work goes on (`Abort` in both), and a steal race takes it
from a live holder (`Rob` in `Enrich`). `Enrich` sees ingest as the action that
adds a row with facet_type `unclassified`. `Recovery` composes the chain of stages of both,
reduced to the events they append and their effect on a row, with the boot. `Search`
and `Serving` see the pipeline as the writes it makes to what they read. What those
writes amount to is `Corpus`: a body is in place before its row is committed, a row is
classified once, indexed once it is classified and together with its edges, and none of
it is undone. The three writers, `Ingest`, `Enrich` and `Recovery`, implement it.

In each component module the definitions marked "Mutant" are the plausible bugs
the properties are tested against; they are not part of any specification.

### DrainLock

A process is a pid. `pc` is its place in `acquireDrainLock`; each of `open("wx")`,
`write`, `read`, `kill(pid, 0)`, `unlink` and the second `open("wx")` is an
action. `lock` is the file at the lock path, identified by its creator, so that
a `write` through a descriptor whose file was unlinked goes nowhere. `MakeHandle`,
`ReleaseFn` and `Abort` are `makeHandle` with its abort listener. `robbed` is a
history variable: a stealer has unlinked the file of a live owner.

### Corpus

The abstract store: `placed` (body files by document), `known` (rows), `facets`, `indexed`,
`edges`, changed by `Place`, `Withdraw` (the undo of an insert that failed), `Commit`,
`Classify` and `IndexDoc`. Any store that is `Whole` is an initial one. Each writer maps its own
variables to these: `Ingest` the body files and the rows, documents being ids; `Enrich` its rows and retrieval tables, every body in
place; `Recovery` the progress of each row through the stages.

### Ingest

`file` gives each file a lane, a name in the lane and its bytes (a content, and
whether the copy is complete); `rows` is the `documents` table with its primary
key and unique hash; `bodies` the body files by document id; `sidecars` the names
in `failed/` with an `.error.json`. A process has a program point, the list it
read, the path it is working on, the hash, the normalized text, its signal
(`stop`) and its per-document signal (`cut`). One action per await of
`processOneFile` and `persist`: `Validate`, `MoveToPending`, `HashStart`/`HashEnd`,
`Dedup`, `Normalize`, `PersistStart`, `WriteBody`, `PersistCheck`, `Insert`,
`RenameProcessed`, `Commit`, `Undo`; and `Route`/`WriteSidecar` for the failure
lane. `CatchAll` is the catch block of `processOneFile`, which only knows the inbox
path. `access` followed by `rename` on the same path is one step. Faults are
`Fail` (a call fails, at the points in `FailAt`), `Mute` (the telemetry log is
unwritable), `TimeOut`, `Abort`, `Crash`.

### Enrich

Documents are numbered by `ingest_timestamp`. `row` has the facets of each row,
`front` those in the body file; `established` and `proposed` are the two states of
`taxonomy_terms`; `vec`, `fts`, `edges` the retrieval tables; `catalog` is
CATALOG.md. A process has a role (the daemon's pass, reenrich or reindex), the
documents left, its vocabulary snapshot, the breaker's count, the output it is
persisting. A step ends where the code awaits I/O; the two transactions contain
no such await, so `Transaction` and `Index` are atomic, and `RenameBody` after
`Transaction` is the gap the persister's comment discusses.

### Search

One request at a time (requests share nothing but the tables, which they only
read), while the drain of another process commits, classifies and indexes
documents (`Drain`, the effect of `Ingest` and `Enrich` on the tables). SQL is
synchronous in Node, so a step is one statement, and the drain may act between any
two; timers and cancellations are seen only at the `Waits`: the log, Ollama, a file,
grep. `master` is the cascade's abort signal (budget or caller), `child` the tier's,
chained by `abortChild`. `Bm25`, `Dense`, `Graph`, `Confidence` are the four
adapters, `Fuse` is `fuseRrf` with the exact comparison of the sums of 1/(60 + rank),
`Resolve` the second read of the rows, `Only`/`Promote`, `CatalogGrep` and
`GrepEnds`/`PathsLookup` the three other tiers; `TierReturns`, `Catch` and
`FallThrough` are the body of the cascade's loop, `Output` the answer. A ranking by
content is any order of the matching documents; only the weights of facets and
recency are numbers. The fusion adds up `Credit[n]`, which stands for 1/n as a whole number in
a unit common to the denominators that occur. `broken` is the set of statements and reads that fail during a
request, `CanMute` a telemetry append that throws.

### Install

The five things init changes (the XDG data, `config.toml` in it, the MCP client's entry,
the firewall rule, the service unit) each have an `owner`: nobody, the operator, the
command that made it, or corpus once that command has ended. A step of init is an action
(`Preflight`, `BringUp`, `Sqlite`, `Toml`, `SeedTerms`, `Register`, `Provision`,
`WriteUnit`, `LoadUnit`, `WriteReceipt`), with the checks of its helper (idempotent where
the helper looks first) and the entry it pushes on the rollback list `done`; `Undo` pops
it in reverse order and `Forget` removes the receipt. `Spawn` and `Drop` are
the smoke test. `StartUninstall`, `StopDaemon`, `Reverse`, `Mark` and `Purge` are uninstall, which
works from `receipt` only. Faults: a call in `FailAt` that throws (`Throws`), the budget
(`Expire`), kills, reboots, an operator who starts and stops the daemon, prepares a
receipt file or deletes `index.db`.

### Engagement and Ledger

`log` is the set of events with the generation of the file they were appended to, so that
a rotation renames files by adding one to `gen`. `Answer` is `wrapHandlerWithEngagement`,
`ScanForRequest` and `WriteAcceptance` the two awaits of the acceptance writer, which
looks in the log for the request and for an earlier acceptance, then appends. A report reads the
names of the active and the rotated files (`StartReport`), then one file at a step
(`ScanOneFile`), and aggregates. `Ledger` is what this amounts to: sets of requests
answered and accepted that only grow.

### Recovery

`log` is the set of stage events since the last `daemon.started`, which is all the scan
distinguishes. The stages are a table of points (`Good`, `Bad`) with the event each
appends and its effect on the row, run by the daemon and by one command, which may be
killed at any point. The boot is `StartDaemon`, `InitFails` (the schema or a lane cannot be
made: exit 1) or `EmitStarted`, `BeginScan` (the lock, or no scan), `ReadLog`, then for each
orphan the calls of `scanStage` that are awaited: `TurnTo` (the only look at the signal),
`Report` (`recovery.orphan_found`), `Dispatch` (`classifyOrphan`) and `WriteOff` (the
sidecar), and `EndScan`. `Expire` is `recoveryScanTimeoutMs`: its abort gives the lock back
at once, between any two of these, while the scan goes on with the orphan in hand (`cur`) to
its next look at the signal. `mistaken` is a history variable: stages reported or written off
while a live process was in the middle of them.

### Serving

One client that connects, then walks through `corpus://failures` page by page
(`StartWalk`, and for each page `ListSidecars`, a `ParseSidecar` per file, `ReadPage`) or
asks for a document (`FetchRow`, `ReadBody`) or the manifest (`CountDocs`, `LastIngest`).
A read may be refused although its data is there (`Refuse`, for the reasons in `Refusals`):
`locked` is SQLITE_BUSY, which a reader meets while a writer holds the database, `integrity`
a body that bears another document's id, `invalid` what a schema rejects, `thrown` any other
exception, among them the request's abort (`BreakOff`). The handlers answer the first three
with an MCP error and its event, as they do an unknown id (`McpErrors`).
`EmitRead` is the telemetry append before every answer and `Catch` the handler's catch
block, with its own append. Meanwhile `Pipeline` writes, renews and removes sidecars,
places bodies, removes them when the insert fails, and commits rows in the order of `persist`, and the operator
removes sidecars. `shrunk` is a history variable: an entry of the walk was taken off the
list under it.

## 3. Runs

Bounds are in the `.cfg` files; model values stand for names, contents and terms.

| Run | Instance | Shows |
|---|---|---|
| LockPair | 2 processes, aborts, kills once the pid is written, no pid reuse, fair | exclusion; refinement of `ExclusiveLock`; a dead owner's file is recovered |
| LockRobbed | 3 processes, kills anywhere, aborts, pid reuse | two holders only after a live owner was robbed |
| IngestCrash | 3 files, 2 of them of one name; 4 contents, one rejected and one unreadable; 2 kills, failing calls, fair | rows whole, lanes consistent, `pending/` empty after a pass; bytes are given up only where a leftover is returned to the inbox over a new file of its name, every other file settles; refinement of `Corpus` |
| IngestOverlap | 2 files of the same name and bytes, slow copies and failing calls; SIGTERM, timeouts and mute telemetry at the daemon, a clean one-shot drain beside it; symmetry in the files | one row per content, although the two passes overlap |
| EnrichOverlap | 2 documents, stolen lock, SIGTERM, failing reads, transactions and renames, mute telemetry | a row is classified once, frontmatter is never ahead of it; terms, tags, indexes consistent; refinement of `Corpus` |
| EnrichLive | 3 documents, the second one hopeless in every way the adapter can fail and named as related by the first, whose index transaction fails until it is ingested; a kill outside the commit gap, fair | row and frontmatter agree, sidecars for what was not done; the others are classified, indexed, and linked if similar |
| SearchCascade | 3 documents, 2 of them indexed or on the way, limits 1 to 3, 7 sets of failing calls, mute telemetry, fair timers | a sound and complete answer, unanimous signals respected, an answer to every request |
| InstallCycle | 3 inits with auto-start and smoke test and any uninstalls on macOS, 6 kinds of host, 1 failing call, 2 kills or reboots, the budget, a lost `index.db`, fair | a failed init is undone; the receipt is complete; a marked one means reversed; uninstall can be completed |
| EngagementReport | 2 requests, 2 acceptances, 2 rotations, failing appends | a report counts what happened in its window and all of it; the log implements `Ledger` |
| RecoveryScan | 1 document, 2 boots, 2 kills, failing schema, stages, sidecars and boot event, timeout, a CLI command; fair | wherever the timeout fires, at most one stage that runs is taken for an orphan, none before it; the lock is given back; every boot comes to serve; refinement of `Corpus` |
| RecoveryBlind | 1 document, 2 boots, 1 kill | **violation**: the scan does not see what the killed daemon left |
| ServingReads | 2 documents, 3 sidecar names, pages of 1, 4 writes, refused reads, mute telemetry | a walk misses nothing that stays on the list; a committed document is served or refused, never answered as unknown; one event per request |

Two files (two documents) are what the pairwise hazards need: a collision of
names, ids or contents, an overlap on the same document, an edge
between two documents. Three are needed where a third shows that a pass goes on
(or halts) after the first two. One kill suffices for a half-done step, two for a
half-done recovery. Two processes are all that can overlap on one document; the
lock needs a third one for the steal race. In `Search`, `MinResults` is the code's
default of 3, and the sets of failing calls of SearchCascade let each of the signals, each
statement and each tier fail at least once, alone or with the one that would have
made up for it. `MaxTag` bounds the random tags of a
name collision: one tag is enough for two files. Three inits are an install, one over it,
and one after an uninstall. The documents of `Recovery` do not touch each other, so one
is enough; a second boot has the session before it, and two kills are a stage that is left
open and one more during the scan or the stage that goes on with it.
Pages of one entry with two entries that stay and one that comes or goes are the smallest
walk that can skip an entry.

Deadlock is not checked where the system may wait for ever for a file, a request or a
user (`CHECK_DEADLOCK FALSE`).

Fairness. A running process takes its next step (weak fairness of its steps): Node
runs every ready callback, and every await of these stages has a timeout or is
local I/O. The daemon is restarted by its service unit (`Boot(Daemon)` in `Ingest`). In
`EnrichLive` somebody runs `reenrich` and `reindex` again and again, and now and
then while the lock is free (strong fairness of that). In `SearchCascade` the timers fire and
files and the log answer. In `RecoveryScan` a boot goes on to its next step. In
`InstallCycle` a command that runs goes on, and the operator who has begun to remove
corpus runs `uninstall` again. Nothing is assumed of the user otherwise, of one-shot
drains, of grep, or of Ollama.

### The listed violation

RecoveryBlind: spec 006, line 172 (SC-HARDEN-001): "On restart, the recovery scanner
detects all 5 orphans". `daemon/src/index.ts:133` appends the new `daemon.started` before
the scan, and `recovery-scanner.ts:284` begins its window at the last `daemon.started` in
the log. Every event of the killed session is before it: in the run the daemon is killed in
the middle of a stage, and its next boot finds nothing. What the scan can find is what
a command left between the boot event and the scan, which is what RecoveryScan is about.

### Further counterexamples

TLC also finds these disagreements between the code and its documentation. They
are not in the list of runs, but their instances are kept: `tlc -config X.cfg M`. An
instance with several properties shows them all with `-continue` (and one worker).

| Instance | Property | What happens |
|---|---|---|
| LockStealRace | MutualExclusion | two stealers of one dead owner's file, the second unlinks the first's new file (`drain-lock.ts:90`; spec 003, data-model.md:323) |
| LockEmptyFile | StaleLockRecovered | killed between create and write: an empty file nobody steals (`drain-lock.ts:89`) |
| IngestKilled | NoSilentLoss | a leftover of a killed pass is returned to the inbox over a new file of its name (`drain-orchestrator.ts:503`); by LossOnlyByReturn nothing else loses a file |
| IngestKilled | ProcessedHasRow | the process ends between the rename to `processed/` and COMMIT (`persister.ts:179`; SC-INGEST-004) |
| IngestAbortOverlap | RowHasBody | two overlapping drains of the same bytes: the loser's failed insert removes the winner's body (`persister.ts:162`) |
| IngestKilled | FailedHasSidecar | the process ends between the move to `failed/` and the sidecar (`failure-lane.ts:74`) |
| EnrichBreaker | BreakerHalts | persist failures count but never halt (`classify-stage.ts:589`) |
| EnrichAbort | AbortedStaysSentinel | an abort after COMMIT reports failure for a classified row (SC-CLASSIFY-015) |
| EnrichDomain | DomainKnown | an unknown domain passes if any domain is proposed (`validate.ts:73`) |
| EnrichDomain | SimilarLinked | a comparison with `documents_vec` that fails is passed over, and the document is indexed without the edge (`edges-builder.ts:135`) |
| EnrichUnindexed | EventuallyIndexed | without `corpus reindex`, a document killed between classifying and indexing is never indexed (`daemon/src/index.ts:236`) |
| EnrichStarved | EventuallyClassified | three documents the model never answers for, at the head of the queue, halt every pass; the fourth is never tried (`daemon/src/index.ts:262`; spec 004, line 69) |
| EnrichCatalog | CatalogFresh | the SELECT behind CATALOG.md names a column no schema has (`catalog-md-generator.ts:165`) |
| SearchBlind | IndexStillAnswers | a hanging embedder uses up the budget of all the tiers and the answer is empty (`tier-orchestrator.ts:75`; spec 005, line 70) |
| SearchBlind | GrepFinds | grep prints absolute paths, `body_path` is relative: the grep tier never finds anything (`fs-grep-tier.ts:218`; FR-HARDEN-015) |
| InstallReceiptLost | EffectsRemembered | an init over an installed corpus fails, and its rollback removes the receipt of the first one |
| UninstallStuck | UninstallResumes | Linux: an uninstall killed after it removed the firewall rule cannot be completed, because removing it again fails (`uninstall-command.ts:236`; adr-install-uninstall-surface.md:64) |
| SmokeNeverPasses | SmokeTestPasses | the smoke test waits for `edges-build.completed`, and the pipeline writes `edges.completed` (`smoke-harness.ts:144`, `retrieval-orchestrator.ts:286`) |
| EngagementPastWindow | ReportComplete | `--until` in the past: a rotated file written to after it is skipped with the events before it (`telemetry-log-scanner.ts:94`) |
| EngagementRotateMidway | ReportComplete | a rotation between the listing and the read of the active file |
| RecoveryScan | OrphanIsDead | in place of OneMistake: the timeout gives the lock away between the calls for one orphan, and its stage, started again by another process, is reported or written off (`recovery-scanner.ts:426`-`:483`) |
| RecoveryFalseLoss | UnresumableIsLost | an ingest orphan whose file has left the inbox, because its row was committed, is written off (`recovery-resumability.ts:72`) |
| FailuresHidden | FailuresShown | the strict schema refuses the sidecars of the failure lane, of classify and of edges (`failures-resource-schema.ts:63`; spec 006, line 182) |
| FailuresHidden | WalkSurvivesTriage | an entry removed between two pages moves the next one onto a page already read |

The modules are: MCDrainLock for Lock*, MCIngest for Ingest*, MCEnrich, MCSearch,
MCInstall for Install*, Uninstall* and Smoke*, MCEngagement, MCRecovery, and MCServing
for Failures*.

## 4. Proofs

Checked by TLAPS, for every value of the constants, from the module's own assumption
(`LockAssumption`, `IngestAssumption`, `EnrichAssumption`, `SearchAssumption`,
`InstallAssumption`, `EngagementAssumption`, `RecoveryAssumption`, `ServingAssumption`) and
the hypotheses a theorem states. A hypothesis is there because the property is false
without it; the column names the instance or the code that shows it.

| Theorem | Property | Hypothesis | Without it |
|---|---|---|---|
| RobberyIsTheOnlyWay | ExclusiveUnlessRobbed | | |
| PairExclusion, PairImplementsLock | MutualExclusion, ImplementsExclusiveLock | two pids, not reused | LockStealRace: a third owner, or a dead pid handed to a new one, is there to be robbed |
| GrantsUnlessRobbed | steps of `ExclusiveLock` until a robbery | | |
| TypeCorrect, in each of the eight modules | TypeOK | | |
| ContentsAreUnique | OneRowPerContent | | |
| FailedFilesExplained | FailedHasSidecar | no kill or failure at the write of the sidecar | IngestKilled |
| ProcessedFilesCommitted | ProcessedHasRow | no kill or failure at COMMIT | IngestKilled |
| RowsAreWhole | RowIsWhole | no abort, ids that tell hashes apart (`Injective`) | IngestAbortOverlap |
| LossesAreReturns | LossOnlyByReturn | as RowsAreWhole, no copy still going on | IngestOverlap with two contents: an overlapping drain goes on and removes another file than the one it hashed; the end of a copy replaces the bytes that were there |
| IngestImplementsCorpus | ImplementsCorpus | as RowsAreWhole | IngestAbortOverlap: the body of a committed row is withdrawn |
| PassesDrainPending | PendingDrained | no abort or timeout, no failure of the duplicate check, of opening the database or of the rename to `failed/` | the catch block looks in the inbox (`drain-orchestrator.ts`) |
| ClassifiedForGood, FrontFollowsRow, TaxonomyStaysSound, IndexStaysWhole, SimilarTagsAreLinked | ClassifiedOnce, FrontNeverAhead, TaxonomySound, IndexIsWhole, TagsLinked | | |
| EnrichImplementsCorpus | ImplementsCorpus | | |
| SimilarAreLinked | SimilarLinked | no lock stolen from a live owner, the comparison with `documents_vec` works | two holders build edges before either indexes; EnrichDomain |
| BodiesMirrorRows | FrontMirrorsRow | no abort; no kill or failure at the rename | nothing repairs the body file of a committed row (see EnrichAbort) |
| NothingSkippedSilently | NoSilentSkip | no abort; events and sidecars can be written | a stage that throws leaves nothing |
| AnswersAreSound | AnswerIsSound | a filter with `unclassified` has every facet type | SearchCascade with `Queries <- MixedFilter` |
| NothingIsMissed, RanksAreRespected | NothingMissed, RankRespected | | |
| ReceiptsAreComplete | ReceiptComplete | | |
| FailedInitsUndone | FailedInitUndone | no failure in the rollback or after an effect; one rule | what a rollback cannot undo stays |
| MarkedReceiptsReversed | MarkedMeansReversed | one command at a time; one rule | the commands take no lock |
| ReportIsSound, LogIsLedger | ReportSound, ImplementsLedger | | |
| ReportIsComplete | ReportComplete | no rotation during a report, window up to its call | EngagementRotateMidway, EngagementPastWindow |
| ScanReturnsTheLock, AtMostOneMistake, StagesImplementCorpus | ScanGivesBack, OneMistake, ImplementsCorpus | | |
| EveryAnswerIsLogged, CommittedIsNotMissed, WalksAreComplete | AnswersAreLogged, CommittedIsFound, WalkComplete | | |

The hypotheses are on what the environment does (the constants `CrashAt`, `FailAt`,
`Aborted`, ...), never on the state, and the passing run that checks the property is an
instance of them. The arguments:

`DrainLockProofs`, for every set of pids, kills anywhere, aborts and pid reuse:

- `TypeCorrect`: `Spec => []TypeOK`.
- `RobberyIsTheOnlyWay`: `Spec => []ExclusiveUnlessRobbed`. `MutualExclusion`
  itself is false (LockStealRace), and the conditional form is not inductive: it
  says nothing of a process between `open` and `makeHandle`. The inductive
  invariant `OwnersHaveTheFile` adds that whoever is creating the lock or holds it
  is the creator of the file at the path; the file has one creator, so holders are
  unique. Only `StealUnlink` can break it, and then it sets `robbed`.
- `PairExclusion`: with at most two pids and no reuse, `Spec => []MutualExclusion`.
  A stealer read a pid other than its own, of a process that is dead
  (`StealersSawDead`), and stays dead (`DeadStaysDead`); with two pids there is no
  third owner to rob (`PairSteals`).
- `GrantsUnlessRobbed` and `PairImplementsLock`: the holder of the abstract lock is the
  process that owns the file. `StepImplements` shows, from `OwnersHaveTheFile` on both
  sides, that a step which leaves nobody robbed changes the owner only from nobody or to
  nobody. A robbery has no abstract step: two processes hold the lock after it.

`IngestProofs`, for any files, names, contents and drains that overlap, time out, fail or
are killed anywhere; up to `ProcessedFilesCommitted` the drain lock is not used:

- `TypeCorrect`: `Spec => []TypeOK`, from `Sound`, which adds that whoever works on a
  document has a path in the inbox or `pending/`, and its hash once it is computed.
- `ContentsAreUnique`: `Spec => []OneRowPerContent`. A row is added by a COMMIT, and by
  `SoleWriter` the conflicts that INSERT looked for are still absent then. That no two rows
  come from one file needs `SourcesKept`: no step takes a file out of `processed/`, and a
  file found there under an id of a row would have conflicted on the id.
- `FailedFilesExplained`: `SidecarKept` says a file in `failed/` has its sidecar or a drain is
  about to write it; that it has no row is `SourcesKept` again.
- `ProcessedFilesCommitted`: `RowOrCommit`, the same between the rename and the COMMIT; names
  in `processed/` are unique (`UniquePaths`) because they begin with the id.
- `RowsAreWhole`: `LockHeld` (whoever works holds the lock, as nobody gives it up early), so
  that `InHand`, about the one document in the hands of the holder, is not disturbed by
  another drain: its body is where `persist` left it, its conflicts were looked for. It
  carries the bytes from the hash over both renames to `Rows`, what RowIsWhole says with
  its cases for copies that were not complete.
- `LossesAreReturns`: `Spec => LossOnlyByReturn`, for files that share names. A rename to
  `pending/` or `failed/` looks for a free name under the lock; one to `processed/` can only
  replace a file of the same bytes, for `NamedById` says that a name there begins with the id
  of its bytes and `InHand` that the hash in hand is that of the file; `Dedup` removes a file
  whose row is there. `Complete`: nothing is read before it is all there. What is left is the
  return of a leftover, which does not look.
- `IngestImplementsCorpus`: `Spec => ImplementsCorpus`. From the invariants of RowsAreWhole
  (`StepsOfCorpus`): a body is written under an id by `Place`, and taken away by `Withdraw`, at
  points where `InHand` says that no row conflicts with the document in hand; so the
  row the undo would leave without a body is not there. COMMIT is `Commit`, because `InHand`
  also says that the body is in place.
- `PassesDrainPending`: `Swept` says that every file in `pending/` is the one in hand or is
  ahead in the list of leftovers.

`EnrichProofs`, for any documents, answers, failures, kills, aborts and stolen locks, in
any number of processes; only `SimilarAreLinked` rests on the drain lock.

- The inductive invariant `Told` (`AlwaysTold`) is about what a process has in hand at
  each program point: what it is about to commit was validated against a snapshot of
  terms that are established still; what it is about to rename into place is the row's;
  what it retrieves for is classified. Only five steps change a table or a body file
  (`Kinds`), and nothing committed is undone (`Growing`), so that a process loses nothing
  by the others' steps (`Beside`).
- `ClassifiedForGood`: `Spec => ClassifiedOnce`, from `Growing`.
- `FrontFollowsRow`: `Spec => []FrontNeverAhead`. By `Told`, a rename brings what the row has.
- `TaxonomyStaysSound`: `Spec => []TaxonomySound`. By `Told`, a tag of the output is in the
  snapshot, hence established, or among the proposals inserted with the row (`TagsAreTerms`);
  no term is established and proposed at once (`OneStatePerTerm`, inductive by itself).
- `IndexStaysWhole`: `Spec => []IndexIsWhole`. The keys make a second index row fail.
- `SimilarTagsAreLinked`: `Spec => []TagsLinked`. Edges are computed in one step and stored
  in another; `LinksCover` says of each classified document that overlaps with the one
  in hand: it is among the edges in hand, or has been indexed with the opposite edge, or
  every process about to index it has that edge. It uses that the Jaccard index is
  symmetric (`OverlapIsMutual`) on finite sets of tags.
- `SimilarAreLinked`: `summary_similarity` compares only with what is indexed already, so two
  processes could each miss the other's document. `LockHeld` leaves one that indexes, and
  `SimilarCover` says that it has in hand an edge to every similar indexed document.
- `BodiesMirrorRows`: where row and front differ, somebody is at the rename (by `Told` with
  the right content).
- `EnrichImplementsCorpus`: `Spec => ImplementsCorpus`. By `Kinds` a step changes one table
  for one document; by `Told` the row it writes is unclassified in the transaction, and
  classified and not indexed at the index rows; the destinations of its edges are ingested.
  Since the vector and the full-text row appear in one transaction, `IndexIsWhole` lets
  one abstract set stand for both. Overlap, robbery and aborts need no hypothesis here.
- `TypeCorrect`: `Beyond` adds to `Told` the tables: the taxonomy holds seeds and what the model
  answered, edges are between documents, whatever way a pass ends.
- `NothingSkippedSilently`: `Dealing` says of each process that goes on to its next document:
  the last one is dealt with (`Minds`), by facets and an index entry or by a sidecar, and
  nothing that another process does takes these away.

`SearchProofs`, for any documents, queries and outages, with the drain at work between any
two steps:

- The inductive invariant `Inv` has four parts. `Shape`: rankings hold no document twice,
  the merged hits neither, and which tier is at which program point. `Checked`: what a
  database tier contributed was a classified row at the second read; facets are for good
  (`ClassifiedOnce`). `Fitting`: it passed the filter. `Complete`: a document owed to the
  request is in the full-text ranking, then in the fused one or cut off by `limit` others,
  then among the merged hits or kept out by `limit` others.
- `AnswersAreSound`: from the first three (`AnswerCut`, `HitsCount`). Its hypothesis was
  found by the proof: with a filter such as `{concept, unclassified}` the graph retriever
  takes an unclassified neighbour, which is classified as something else before the rows
  are read again (`search.ts:465`); that read checks the schema and not the filter.
- `NothingIsMissed`: from `Complete`, by counting distinct documents in a ranking and in its
  prefix. The sums of reciprocal ranks play no part: nothing is lost by fusion except at
  `limit`.
- `RanksAreRespected`: `Spec => []RankRespected`: a document that no signal places
  behind another one, and that weighs no less, is neither ranked behind it nor cut off at `limit` in
  its favour. `Ranked` (`AlwaysRanked`) adds to `Inv` that each signal's ranking repeats
  nothing, so that a document has one place in it, and that what is found is, until the rows
  are read, the fusion of these rankings under the positive weights of the request.
  Then a better place is a larger credit, for `m * Credit[m] = n * Credit[n]` decreases in the denominator;
  the credits of four signals add up; a document ranked by some signal has a positive sum, which
  is what makes the larger weight of the two count. The assumption on `Credit` is exact
  proportion to 1/n over the finite set `Denominators`, which a common multiple always
  provides (`Reciprocals` of MCSearch is one); the code's doubles are taken to
  be exact.
- `TypeCorrect`: `Beyond` adds to `Inv` the program points, that no tier is reported that was
  not reached, and that a tier's signal is aborted with the cascade's.

`InstallProofs`, for any commands and hosts:

- `TypeCorrect`: `Spec => []TypeOK`.
- `ReceiptsAreComplete`: `Listed` says that a receipt that is not marked lists `Needed`, all
  that init makes outside of `config.toml`, and that a unit is corpus's only where it
  starts at login. The receipt is what an init has in `done`: `Provided` says that at each
  program point this has what the steps before it provide.
- `FailedInitsUndone`: `Recorded` says that what a running init owns is in its `done`, which
  the rollback pops one by one.
- `MarkedReceiptsReversed`: `Reversing` says at each point of uninstall which of the
  receipt's things are gone.

`EngagementProofs`:

- `ReportIsSound`: `Spec => []ReportSound`. What a report has seen is in the log and in
  its window; the inductive invariant `LogTells` adds that each line of the log was
  written by an answer or an acceptance that happened, one that had hits if it was
  accepted. The counts are cardinalities of sets of ids, so a request seen in two
  files, or accepted twice, counts once.
- `LogIsLedger`: `Spec => ImplementsLedger`. From the same invariant: an acceptance
  found its request in the log, so the ledger has it, with results.
- `TypeCorrect`: inductive by itself; an event of the log names a generation there has been.
- `ReportIsComplete`: each line that was in the window at the start is in a file whose name
  the report still has to read, or has been seen. Without a rotation the names keep their
  files, and a file that was last written in or after the window of a line has an mtime
  that `enumerateRotatedFiles` accepts.

`RecoveryProofs`:

- `ScanReturnsTheLock`: `Spec => [](LockKept /\ ScanGivesBack)`. `LockKept` ties the
  holder to the program points at which it was acquired and not released, for the
  daemon and the command both; the timeout gives the lock back itself.
- `AtMostOneMistake`: `Spec => [](MistakeKept /\ OneMistake)`. While the scan has not timed
  out it holds the lock, so by `LockKept` nobody else is in a stage and nothing it says is
  wrong. After the timeout only the orphan in hand can be misjudged: `MistakeKept` says that
  what was, is still `cur`, until the next look at the signal ends the scan.
- `StagesImplementCorpus`: `Spec => ImplementsCorpus`. `InOrder` says of each document in
  the hands of a pass that its row is as far as the point of the stage expects. It is
  preserved because passes exclude one another (`OnePass`, from `LockKept`), even when a
  scan has timed out and still reads; whoever picks up what a killed pass left enters the chain
  at the point the row is at (`Entry`).
- `TypeCorrect`: uses `InOrder` for the points of the stages and the log's alphabet.

`ServingProofs`:

- `EveryAnswerIsLogged`: `Spec => []AnswersAreLogged`. `Accounted` says at each program
  point of the request how many events it has left.
- `CommittedIsNotMissed`: `Spec => []CommittedIsFound`, whatever reads are refused.
  `Promised` says that a committed row has its body, because the pipeline places it first,
  and that a request for a row that was there has found it, or was refused for a reason that
  is not its absence. (`Pipeline` is one pass at a time: with overlapping
  passes the body may be removed again, see IngestAbortOverlap.)
- `TypeCorrect`: `Stamped` adds that no row bears a later time than the clock and that the
  newest exists, so that the manifest has the time of a committed row, and each answer the
  shape its resource promises.
- `WalksAreComplete`: `Spec => []WalkComplete`. The failures are listed newest first, page
  by page. `Filed` is about the list, `Walking` about the walk: an entry of the list as
  it was at the start that is still there (`Lasting`) has been seen or is still ahead
  (`Ahead`), and the number of names before it on the list (`Newer`) never falls below
  the offset reached (`Reached`): entries that come or are renewed go to the front.

Every safety invariant and action property the passing runs check is a theorem. Only
model-checked are the liveness properties (`StaleLockRecovered`, `EventuallySettled`,
`EventuallyClassified`, `EventuallyIndexed`, `EventuallyAnswered`, `UninstallResumes`,
`DaemonServes`), for fairness and ENABLED are outside what TLAPS 1.4.5 proves. That
`Search` and `Serving` allow their environment every step of `Corpus` they can see
is not a theorem: their drain and pipeline actions were written from the same code,
and are to be read beside `Corpus`.

## 5. Not modelled

Left out for good: text extraction and MIME sniffing (string processing), event and
error schemas (data), the prompt's wording, rendering of reports. The egress hook is a
synchronous decision about one host name per call, on functions replaced once before any
other import: there is no state another step could find changed. The pilot harness is an
evaluation driver, run by hand against a fixed sample. The taxonomy and recent resources
are single SELECTs.

Two requests of an MCP server at once are not modelled either. The finds of a server share
one read-only connection (`cli/src/index.ts:79`), on which a statement is done before the
next one begins and no transaction spans an await; each read of a resource opens a
connection of its own. They share only what they read.

What would break the proofs, and so deserves a look in a change of the code: a writer of a
second table outside the transactions, a step that takes a file out of `processed/`, a pass
that gives the drain lock up before its end, a cache between the two reads of a search.
