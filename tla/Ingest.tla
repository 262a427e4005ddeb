------------------------------- MODULE Ingest -------------------------------
(***************************************************************************)
(* The ingest pipeline: the drain of packages/pipeline/src/                *)
(* drain-orchestrator.ts with the validation gate, the hasher, the         *)
(* persister and the failure lane, run by the daemon and by the one-shot   *)
(* "corpus drain" over the same lanes, database and body store.            *)
(*                                                                         *)
(* A file is an inode the user drops: rename moves it between lanes and    *)
(* replaces whatever had the target path. Its bytes are a content and      *)
(* whether the copy into the inbox has finished. A path is a lane and a    *)
(* name; a name is a base name and a tag (0: none), the tags being the     *)
(* random affixes that moveToPending and routeToFailed invent.             *)
(*                                                                         *)
(* Abstractions: the stat-then-rename pairs of moveToPending and           *)
(* routeToFailed are one step each and their random tags are fresh; the    *)
(* two readdir of the drain are one step; validation and extraction        *)
(* verdicts depend on the content only (Rejected, Unreadable). The lock is *)
(* the exclusive lock of module ExclusiveLock, with the abort that gives   *)
(* it up early, which DrainLock models call by call.                       *)
(***************************************************************************)
EXTENDS Naturals, FiniteSets

CONSTANTS
  Files,       \* the files the user can drop
  Bases,       \* base names
  BasesOf(_),  \* the ones a file may be dropped under
  Contents,    \* what they can contain
  MaxTag,      \* bound on random tags
  Rejected,    \* contents the validation gate refuses
  Unreadable,  \* contents whose extraction fails
  IdOf(_),     \* docIdFromHash: the first 8 hex digits of the hash
  Drainers,    \* processes that drain: the daemon and one-shot drains
  Daemon,      \* the one the inbox watcher triggers
  None,
  CrashAt,     \* program points at which a process may be killed
  MaxCrashes,  \* bound on the number of kills
  FailAt,      \* program points at which an I/O or SQLite call may fail
  Aborted,     \* drainers that SIGTERM or SIGINT may reach
  Slow,        \* drainers whose documents may exceed perDocTimeoutMs
  Muted,       \* drainers for which the telemetry log may be unwritable
  SlowCopy     \* a file may appear in the inbox before it is complete

Names == Bases \X (0 .. MaxTag)
Bytes == Contents \X BOOLEAN     \* a content, complete or so far
Ids == {IdOf(b) : b \in Bytes}
Lanes == {"inbox", "pending", "processed", "failed"}
Paths == {"inbox", "pending"} \X Names

Busy == {"list", "next", "validate", "move", "hash", "hashing", "dedup",
         "normalize", "persist", "body", "begin", "insert", "rename",
         "commit", "undo", "route", "sidecar"}
InDoc == Busy \ {"list", "next"}

ASSUME IngestAssumption ==
  /\ MaxTag \in Nat /\ MaxCrashes \in Nat
  /\ Rejected \subseteq Contents /\ Unreadable \subseteq Contents
  /\ None \notin Ids \cup Bytes \cup Paths \cup Names \cup Drainers
  /\ Daemon \in Drainers
  /\ CrashAt \subseteq Busy \cup {"idle"} /\ FailAt \subseteq InDoc
  /\ Aborted \cup Slow \cup Muted \subseteq Drainers
  /\ SlowCopy \in BOOLEAN

VARIABLES
  file,      \* of each file: where it is, its name there, its bytes
  rows,      \* the documents table: id, hash, and the file it came from
  bodies,    \* of each document id: the bytes its body file was made from
  sidecars,  \* names in failed/ that have an .error.json
  holder,    \* the drain lock
  writer,    \* who is inside BEGIN IMMEDIATE
  trigger,   \* the watcher has reported a file the daemon has not drained for
  crashes,   \* kills so far
  pc, todo, src, cur, hash, text, stop, cut
    \* of each process: program point; paths still to drain; name of the
    \* inbox path being processed (absolutePath); path it acts on; the hash;
    \* the bytes it normalized; its signal; its per-document signal

store == <<file, rows, bodies, sidecars>>
locals == <<todo, src, cur, hash, text>>
signals == <<stop, cut>>
env == <<trigger, crashes>>
vars == <<store, holder, writer, env, pc, locals, signals>>

Row == [id : Ids, hash : Bytes, of : Files]

TypeOK ==
  /\ file \in [Files -> [at : Lanes \cup {"outside", "removed", "replaced"},
                         name : Names \cup (Ids \X Names) \cup {None},
                         bytes : Bytes \cup {None}]]
  /\ rows \subseteq Row
  /\ bodies \in [Ids -> Bytes \cup {None}]
  /\ sidecars \subseteq Names
  /\ holder \in Drainers \cup {None} /\ writer \in Drainers \cup {None}
  /\ trigger \in BOOLEAN /\ crashes \in 0 .. MaxCrashes
  /\ pc \in [Drainers -> Busy \cup {"down", "idle"}]
  /\ todo \in [Drainers -> SUBSET Paths]
  /\ src \in [Drainers -> Names \cup {None}]
  /\ cur \in [Drainers -> Paths \cup {None}]
  /\ hash \in [Drainers -> Bytes \cup {None}]
  /\ text \in [Drainers -> Bytes \cup {None}]
  /\ stop \in [Drainers -> BOOLEAN] /\ cut \in [Drainers -> BOOLEAN]

Init ==
  /\ file = [f \in Files |-> [at |-> "outside", name |-> None, bytes |-> None]]
  /\ rows = {} /\ sidecars = {}
  /\ bodies = [i \in Ids |-> None]
  /\ holder = None /\ writer = None
  /\ trigger = FALSE /\ crashes = 0
  /\ pc = [d \in Drainers |-> "down"]
  /\ todo = [d \in Drainers |-> {}]
  /\ src = [d \in Drainers |-> None]
  /\ cur = [d \in Drainers |-> None]
  /\ hash = [d \in Drainers |-> None]
  /\ text = [d \in Drainers |-> None]
  /\ stop = [d \in Drainers |-> FALSE]
  /\ cut = [d \in Drainers |-> FALSE]

----------------------------------------------------------------------------
(* The file system *)

At(f, path) == file[f].at = path[1] /\ file[f].name = path[2]
Exists(path) == \E f \in Files : At(f, path)
PathsIn(lane) == {<<lane, file[f].name>> : f \in {g \in Files : file[g].at = lane}}

\* rename(2): f goes to the path, and what was there is gone.
Moved(f, path) ==
  [g \in Files |->
     IF g = f THEN [file[g] EXCEPT !.at = path[1], !.name = path[2]]
     ELSE IF At(g, path) THEN [file[g] EXCEPT !.at = "replaced"]
     ELSE file[g]]

\* Mutant: moves over whatever has the name.
FreeNamesTaken(lane, name) == {name}

\* The same name if it is free in the lane, else one with a fresh tag.
FreeNames(lane, name) ==
  IF Exists(<<lane, name>>)
  THEN {n \in Names : n[1] = name[1] /\ n[2] # 0 /\ ~Exists(<<lane, n>>)}
  ELSE {name}

Goto(d, where) == pc' = [pc EXCEPT ![d] = where]

\* Continue at a routing step that will move the file at path to failed/.
RouteFrom(d, path) == cur' = [cur EXCEPT ![d] = path] /\ Goto(d, "route")

\* processOneFile's catch block: route what is at the inbox path, if anything.
CatchAll(d) == RouteFrom(d, <<"inbox", src[d]>>)

----------------------------------------------------------------------------
(* The user and the watcher *)

Drop(f, b, c, whole) ==
  /\ file[f].at = "outside" /\ b \in BasesOf(f)
  /\ ~Exists(<<"inbox", <<b, 0>>>>)
  /\ whole \/ SlowCopy
  /\ file' = [file EXCEPT ![f] =
                [at |-> "inbox", name |-> <<b, 0>>, bytes |-> <<c, whole>>]]
  /\ trigger' = (trigger \/ (whole /\ pc[Daemon] # "down"))
  /\ UNCHANGED <<rows, bodies, sidecars, holder, writer, crashes, pc, locals,
                 signals>>

\* The copy ends, wherever the inode has been moved to meanwhile. Only then
\* does awaitWriteFinish report the file, if it is still in the inbox.
FinishCopy(f) ==
  /\ file[f].at \in Lanes /\ ~file[f].bytes[2]
  /\ file' = [file EXCEPT ![f].bytes = <<@[1], TRUE>>]
  /\ trigger' = (trigger \/ (file[f].at = "inbox" /\ pc[Daemon] # "down"))
  /\ UNCHANGED <<rows, bodies, sidecars, holder, writer, crashes, pc, locals,
                 signals>>

----------------------------------------------------------------------------
(* A drain pass *)

\* The daemon drains once at startup, for leftovers and the initial scan.
Boot(d) ==
  /\ pc[d] = "down"
  /\ Goto(d, "idle")
  /\ trigger' = (trigger \/ d = Daemon)
  /\ stop' = [stop EXCEPT ![d] = FALSE]
  /\ UNCHANGED <<store, holder, writer, crashes, locals, cut>>

\* drain: acquire the lock or give up until the next trigger. A signal that
\* fired before leaves the drain running without the lock.
StartDrain(d) ==
  /\ pc[d] = "idle"
  /\ d = Daemon => trigger
  /\ trigger' = (trigger /\ d # Daemon)
  /\ \/ /\ holder = None
        /\ holder' = IF stop[d] THEN None ELSE d
        /\ Goto(d, "list")
     \/ /\ holder # None
        /\ UNCHANGED <<holder, pc>>
  /\ UNCHANGED <<store, writer, crashes, locals, signals>>

\* Mutant: forgets the leftovers of a killed drain.
ListInboxOnly(d) ==
  /\ pc[d] = "list"
  /\ todo' = [todo EXCEPT ![d] = PathsIn("inbox")]
  /\ Goto(d, "next")
  /\ UNCHANGED <<store, holder, writer, env, src, cur, hash, text, signals>>

List(d) ==
  /\ pc[d] = "list"
  /\ todo' = [todo EXCEPT ![d] = PathsIn("pending") \cup PathsIn("inbox")]
  /\ Goto(d, "next")
  /\ UNCHANGED <<store, holder, writer, env, src, cur, hash, text, signals>>

\* The drain loop takes pending leftovers first, in any order.
Candidates(d) ==
  IF \E p \in todo[d] : p[1] = "pending"
  THEN {p \in todo[d] : p[1] = "pending"} ELSE todo[d]

Take(d, p) ==
  /\ pc[d] = "next"
  /\ p \in Candidates(d)
  /\ todo' = [todo EXCEPT ![d] = @ \ {p}]

\* The signal fired: the rest of the list goes to failed/ unprocessed.
TakeAborted(d, p) ==
  /\ Take(d, p) /\ stop[d]
  /\ RouteFrom(d, p)
  /\ UNCHANGED <<store, holder, writer, env, src, hash, text, signals>>

TakeInbox(d, p) ==
  /\ Take(d, p) /\ ~stop[d] /\ p[1] = "inbox"
  /\ src' = [src EXCEPT ![d] = p[2]]
  /\ cur' = [cur EXCEPT ![d] = p]
  /\ cut' = [cut EXCEPT ![d] = FALSE]
  /\ Goto(d, "validate")
  /\ UNCHANGED <<store, holder, writer, env, hash, text, stop>>

\* processPendingFile: rename back to the inbox, over any file of that name.
TakePending(d, p) ==
  /\ Take(d, p) /\ ~stop[d] /\ p[1] = "pending"
  /\ src' = [src EXCEPT ![d] = p[2]]
  /\ cur' = [cur EXCEPT ![d] = <<"inbox", p[2]>>]
  /\ cut' = [cut EXCEPT ![d] = FALSE]
  /\ \/ /\ ~Exists(p) /\ Goto(d, "next") /\ UNCHANGED file
     \/ /\ \E f \in Files : At(f, p) /\ file' = Moved(f, <<"inbox", p[2]>>)
        /\ Goto(d, "validate")
  /\ UNCHANGED <<rows, bodies, sidecars, holder, writer, env, hash, text, stop>>

EndDrain(d) ==
  /\ pc[d] = "next" /\ todo[d] = {}
  /\ holder' = IF holder = d THEN None ELSE holder
  /\ Goto(d, "idle")
  /\ UNCHANGED <<store, writer, env, locals, signals>>

\* The daemon stops once its signal has fired; a one-shot drain just ends.
Exit(d) ==
  /\ pc[d] = "idle" /\ (stop[d] \/ d # Daemon)
  /\ Goto(d, "down")
  /\ UNCHANGED <<store, holder, writer, env, locals, signals>>

----------------------------------------------------------------------------
(* processOneFile *)

Validate(d) ==
  /\ pc[d] = "validate"
  /\ \/ cut[d] /\ CatchAll(d)
     \/ ~cut[d] /\ ~Exists(cur[d]) /\ Goto(d, "next") /\ UNCHANGED cur
     \/ /\ ~cut[d]
        /\ \E f \in Files :
             /\ At(f, cur[d])
             /\ \/ file[f].bytes[1] \in Rejected /\ RouteFrom(d, cur[d])
                \/ file[f].bytes[1] \notin Rejected /\ Goto(d, "move") /\ UNCHANGED cur
  /\ UNCHANGED <<store, holder, writer, env, todo, src, hash, text, signals>>

MoveToPending(d) ==
  /\ pc[d] = "move"
  /\ \/ ~Exists(cur[d]) /\ Goto(d, "next") /\ UNCHANGED <<file, cur>>
     \/ \E f \in Files, n \in FreeNames("pending", cur[d][2]) :
          /\ At(f, cur[d])
          /\ file' = Moved(f, <<"pending", n>>)
          /\ cur' = [cur EXCEPT ![d] = <<"pending", n>>]
          /\ Goto(d, "hash")
  /\ UNCHANGED <<rows, bodies, sidecars, holder, writer, env, todo, src, hash,
                 text, signals>>

\* hashFile: sizeBefore; sizes differ exactly when completeness does.
HashStart(d) ==
  /\ pc[d] = "hash"
  /\ \/ cut[d] /\ CatchAll(d) /\ UNCHANGED hash
     \/ ~cut[d] /\ ~Exists(cur[d]) /\ RouteFrom(d, cur[d]) /\ UNCHANGED hash
     \/ /\ ~cut[d]
        /\ \E f \in Files : At(f, cur[d]) /\ hash' = [hash EXCEPT ![d] = file[f].bytes]
        /\ Goto(d, "hashing") /\ UNCHANGED cur
  /\ UNCHANGED <<store, holder, writer, env, todo, src, text, signals>>

\* An abort in mid-stream is an error result, one after it is thrown; a size
\* that changed, or a file that is gone, is file_unstable.
HashEnd(d) ==
  /\ pc[d] = "hashing"
  /\ \/ cut[d] /\ (CatchAll(d) \/ RouteFrom(d, cur[d]))
     \/ /\ ~cut[d]
        /\ ~\E f \in Files : At(f, cur[d]) /\ file[f].bytes = hash[d]
        /\ RouteFrom(d, cur[d])
     \/ /\ ~cut[d]
        /\ \E f \in Files : At(f, cur[d]) /\ file[f].bytes = hash[d]
        /\ Goto(d, "dedup") /\ UNCHANGED cur
  /\ UNCHANGED <<store, holder, writer, env, todo, src, hash, text, signals>>

\* Mutant: takes a body file left by a killed drain for a document.
DedupByBody(d) ==
  /\ pc[d] = "dedup"
  /\ \/ /\ bodies[IdOf(hash[d])] # None
        /\ file' = [f \in Files |-> IF At(f, cur[d])
                                    THEN [file[f] EXCEPT !.at = "removed"]
                                    ELSE file[f]]
        /\ Goto(d, "next")
     \/ bodies[IdOf(hash[d])] = None /\ Goto(d, "normalize") /\ UNCHANGED file
  /\ UNCHANGED <<rows, bodies, sidecars, holder, writer, env, locals, signals>>

\* findDocumentByHash: a duplicate is removed from pending/.
Dedup(d) ==
  /\ pc[d] = "dedup"
  /\ \/ /\ \E r \in rows : r.hash = hash[d]
        /\ file' = [f \in Files |-> IF At(f, cur[d])
                                    THEN [file[f] EXCEPT !.at = "removed"]
                                    ELSE file[f]]
        /\ Goto(d, "next")
     \/ /\ ~\E r \in rows : r.hash = hash[d]
        /\ Goto(d, "normalize") /\ UNCHANGED file
  /\ UNCHANGED <<rows, bodies, sidecars, holder, writer, env, locals, signals>>

\* An abort is thrown at the entry and an error result of the PDF tool.
Normalize(d) ==
  /\ pc[d] = "normalize"
  /\ \/ cut[d] /\ (CatchAll(d) \/ RouteFrom(d, cur[d])) /\ UNCHANGED text
     \/ /\ ~\E f \in Files : At(f, cur[d]) /\ file[f].bytes[1] \notin Unreadable
        /\ ~cut[d] /\ RouteFrom(d, cur[d]) /\ UNCHANGED text
     \/ /\ ~cut[d]
        /\ \E f \in Files :
             /\ At(f, cur[d]) /\ file[f].bytes[1] \notin Unreadable
             /\ text' = [text EXCEPT ![d] = file[f].bytes]
        /\ Goto(d, "persist") /\ UNCHANGED cur
  /\ UNCHANGED <<store, holder, writer, env, todo, src, hash, signals>>

----------------------------------------------------------------------------
(* persist *)

\* Mutant: commits without having written the body file.
PersistStartNoBody(d) ==
  /\ pc[d] = "persist"
  /\ \/ cut[d] /\ CatchAll(d)
     \/ ~cut[d] /\ Goto(d, "begin") /\ UNCHANGED cur
  /\ UNCHANGED <<store, holder, writer, env, todo, src, hash, text, signals>>

PersistStart(d) ==
  /\ pc[d] = "persist"
  /\ \/ cut[d] /\ CatchAll(d)
     \/ ~cut[d] /\ Goto(d, "body") /\ UNCHANGED cur
  /\ UNCHANGED <<store, holder, writer, env, todo, src, hash, text, signals>>

\* The body file is written to a temporary directory and renamed into place.
\* withTempDir rejects on an abort, whether or not the rename was done.
WriteBody(d) ==
  /\ pc[d] = "body"
  /\ \/ bodies' = [bodies EXCEPT ![IdOf(hash[d])] = text[d]]
     \/ cut[d] /\ UNCHANGED bodies
  /\ \/ cut[d] /\ RouteFrom(d, cur[d])
     \/ ~cut[d] /\ Goto(d, "begin") /\ UNCHANGED cur
  /\ UNCHANGED <<file, rows, sidecars, holder, writer, env, todo, src, hash,
                 text, signals>>

\* Mutant: renames to processed/ before the transaction.
PersistCheckRenamesFirst(d) ==
  /\ pc[d] = "begin"
  /\ \E f \in Files :
       /\ At(f, cur[d])
       /\ file' = Moved(f, <<"processed", <<IdOf(hash[d]), src[d]>>>>)
  /\ Goto(d, "insert")
  /\ UNCHANGED <<rows, bodies, sidecars, holder, writer, env, locals, signals>>

\* The last look at the signal before the transaction.
PersistCheck(d) ==
  /\ pc[d] = "begin"
  /\ \/ cut[d] /\ CatchAll(d)
     \/ ~cut[d] /\ Goto(d, "insert") /\ UNCHANGED cur
  /\ UNCHANGED <<store, holder, writer, env, todo, src, hash, text, signals>>

\* Mutant: neither a primary key nor UNIQUE.
ConflictsNever(d) == FALSE

Conflicts(d) == \E r \in rows : r.id = IdOf(hash[d]) \/ r.hash = hash[d]

\* BEGIN IMMEDIATE and INSERT: id is the primary key, hash is UNIQUE.
Insert(d) ==
  /\ pc[d] = "insert"
  /\ writer = None
  /\ \/ Conflicts(d) /\ Goto(d, "undo") /\ UNCHANGED writer
     \/ ~Conflicts(d) /\ Goto(d, "rename") /\ writer' = d
  /\ UNCHANGED <<store, holder, env, locals, signals>>

RenameProcessed(d) ==
  /\ pc[d] = "rename"
  /\ \/ /\ ~Exists(cur[d])
        /\ writer' = None /\ Goto(d, "undo") /\ UNCHANGED file
     \/ /\ \E f \in Files :
             /\ At(f, cur[d])
             /\ file' = Moved(f, <<"processed", <<IdOf(hash[d]), src[d]>>>>)
        /\ Goto(d, "commit") /\ UNCHANGED writer
  /\ UNCHANGED <<rows, bodies, sidecars, holder, env, locals, signals>>

Commit(d) ==
  /\ pc[d] = "commit"
  /\ \E f \in Files :
       /\ At(f, <<"processed", <<IdOf(hash[d]), src[d]>>>>)
       /\ rows' = rows \cup {[id |-> IdOf(hash[d]), hash |-> hash[d], of |-> f]}
  /\ writer' = None
  /\ Goto(d, "next")
  /\ UNCHANGED <<file, bodies, sidecars, holder, env, locals, signals>>

\* After the ROLLBACK the body file of the id is removed.
Undo(d) ==
  /\ pc[d] = "undo"
  /\ bodies' = [bodies EXCEPT ![IdOf(hash[d])] = None]
  /\ RouteFrom(d, cur[d])
  /\ UNCHANGED <<file, rows, sidecars, holder, writer, env, todo, src, hash,
                 text, signals>>

----------------------------------------------------------------------------
(* routeToFailed: the file, then its sidecar; src is then the failed name *)

\* Mutant: no sidecar is written.
RouteNoSidecar(d) ==
  /\ pc[d] = "route"
  /\ \/ ~Exists(cur[d]) /\ UNCHANGED file
     \/ \E f \in Files, n \in FreeNames("failed", cur[d][2]) :
          At(f, cur[d]) /\ file' = Moved(f, <<"failed", n>>)
  /\ Goto(d, "next")
  /\ UNCHANGED <<rows, bodies, sidecars, holder, writer, env, locals, signals>>

Route(d) ==
  /\ pc[d] = "route"
  /\ \/ ~Exists(cur[d]) /\ Goto(d, "next") /\ UNCHANGED <<file, src>>
     \/ \E f \in Files, n \in FreeNames("failed", cur[d][2]) :
          /\ At(f, cur[d])
          /\ file' = Moved(f, <<"failed", n>>)
          /\ src' = [src EXCEPT ![d] = n]
          /\ Goto(d, "sidecar")
  /\ UNCHANGED <<rows, bodies, sidecars, holder, writer, env, todo, cur, hash,
                 text, signals>>

WriteSidecar(d) ==
  /\ pc[d] = "sidecar"
  /\ sidecars' = sidecars \cup {src[d]}
  /\ Goto(d, "next")
  /\ UNCHANGED <<file, rows, bodies, holder, writer, env, locals, signals>>

----------------------------------------------------------------------------
(* What goes wrong *)

\* A call fails with an error the step handles.
Fail(d) ==
  /\ pc[d] \in FailAt
  /\ \/ /\ pc[d] \in {"move", "hash", "normalize", "body"}
        /\ RouteFrom(d, cur[d]) /\ UNCHANGED <<writer>>
     \/ /\ pc[d] \in {"dedup", "begin"}             \* openIndexReadWrite throws
        /\ CatchAll(d) /\ UNCHANGED writer
     \/ /\ pc[d] \in {"insert", "rename", "commit"}
        /\ writer' = IF writer = d THEN None ELSE writer
        /\ Goto(d, "undo") /\ UNCHANGED cur
     \/ /\ pc[d] \in {"route", "sidecar"}           \* the result is ignored
        /\ Goto(d, "next") /\ UNCHANGED <<cur, writer>>
  /\ UNCHANGED <<store, holder, env, todo, src, hash, text, signals>>

\* The telemetry log cannot be written: emitTelemetry throws, again in the
\* catch block of processOneFile, and out of the drain loop.
Mute(d) ==
  /\ d \in Muted
  /\ pc[d] \in {"next", "validate", "dedup", "normalize", "undo"}
  /\ bodies' = IF pc[d] = "undo" THEN [bodies EXCEPT ![IdOf(hash[d])] = None]
               ELSE bodies
  /\ holder' = IF holder = d THEN None ELSE holder
  /\ todo' = [todo EXCEPT ![d] = {}]
  /\ Goto(d, "idle")
  /\ UNCHANGED <<file, rows, sidecars, writer, env, src, cur, hash, text,
                 signals>>

TimeOut(d) ==
  /\ d \in Slow
  /\ pc[d] \in InDoc /\ ~cut[d]
  /\ cut' = [cut EXCEPT ![d] = TRUE]
  /\ UNCHANGED <<store, holder, writer, env, pc, locals, stop>>

\* SIGTERM: the signal fires, the lock is given up, the work goes on.
Abort(d) ==
  /\ d \in Aborted
  /\ pc[d] # "down" /\ ~stop[d]
  /\ stop' = [stop EXCEPT ![d] = TRUE]
  /\ cut' = [cut EXCEPT ![d] = TRUE]
  /\ holder' = IF holder = d THEN None ELSE holder
  /\ UNCHANGED <<store, writer, env, pc, locals>>

\* kill -9, or process.exit after the grace period: memory is lost, SQLite
\* rolls back, and the lock file is stale, hence free for the next process.
Crash(d) ==
  /\ pc[d] \in CrashAt /\ crashes < MaxCrashes
  /\ crashes' = crashes + 1
  /\ Goto(d, "down")
  /\ holder' = IF holder = d THEN None ELSE holder
  /\ writer' = IF writer = d THEN None ELSE writer
  /\ trigger' = (trigger /\ d # Daemon)
  /\ todo' = [todo EXCEPT ![d] = {}]
  /\ UNCHANGED <<store, src, cur, hash, text, signals>>

----------------------------------------------------------------------------
Work(d) ==
  \/ StartDrain(d) \/ List(d) \/ EndDrain(d)
  \/ \E p \in todo[d] : TakeAborted(d, p) \/ TakeInbox(d, p) \/ TakePending(d, p)
  \/ Validate(d) \/ MoveToPending(d) \/ HashStart(d) \/ HashEnd(d)
  \/ Dedup(d) \/ Normalize(d)
  \/ PersistStart(d) \/ WriteBody(d) \/ PersistCheck(d) \/ Insert(d)
  \/ RenameProcessed(d) \/ Commit(d) \/ Undo(d)
  \/ Route(d) \/ WriteSidecar(d)

User ==
  \E f \in Files :
    \/ \E b \in Bases, c \in Contents, whole \in BOOLEAN : Drop(f, b, c, whole)
    \/ FinishCopy(f)

Next ==
  \/ User
  \/ \E d \in Drainers :
       \/ Boot(d) \/ Work(d) \/ Exit(d)
       \/ Fail(d) \/ Mute(d) \/ TimeOut(d) \/ Abort(d) \/ Crash(d)

Spec == Init /\ [][Next]_vars

\* A process takes its next step unless it is killed; systemd restarts the
\* daemon. Nobody need run a one-shot drain (pc "idle"), nor drop a file.
FairSpec ==
  /\ Spec
  /\ WF_vars(Boot(Daemon))
  /\ \A d \in Drainers : WF_vars(Work(d) /\ (d = Daemon \/ pc[d] # "idle"))

----------------------------------------------------------------------------
(* Properties *)

\* persist: a committed row has a body file and its source is in processed/;
\* and unless its copy was still going on when it was hashed, both have the
\* very bytes that were hashed. Several files, kills and retries of a
\* leftover write the same body path.
RowIsWhole ==
  \A r \in rows :
    /\ bodies[r.id] # None /\ file[r.of].at = "processed"
    /\ r.hash[2] => bodies[r.id] = r.hash /\ file[r.of].bytes = r.hash

\* Every row points at a body file (SC-INGEST-004).
RowHasBody == \A r \in rows : bodies[r.id] # None

\* No two files with the same bytes become two documents, whatever leftovers
\* and drains there are (FR-INGEST-005).
OneRowPerContent ==
  \A r, q \in rows : (r.hash = q.hash \/ r.of = q.of) => r = q

\* A file in processed/ has a row, or its bytes do, except between the rename
\* and the COMMIT of the process that moved it.
ProcessedHasRow ==
  \A f \in Files : file[f].at = "processed" =>
    \/ \E r \in rows : r.of = f \/ r.hash = file[f].bytes
    \/ \E d \in Drainers : /\ pc[d] = "commit"
                          /\ file[f].name = <<IdOf(hash[d]), src[d]>>

\* A file in failed/ has its sidecar, except while it is being written, and
\* is the source of no row.
FailedHasSidecar ==
  \A f \in Files : file[f].at = "failed" =>
    /\ file[f].name \in sidecars
         \/ \E d \in Drainers : pc[d] = "sidecar" /\ src[d] = file[f].name
    /\ \A r \in rows : r.of # f

\* The bytes the pipeline has in its keeping: as a document, or as a file in a lane.
Kept ==
  {r.hash : r \in rows} \cup {file[f].bytes : f \in {g \in Files : file[g].at \in Lanes}}

\* Whatever is killed, fails or is retried, and whoever reuses a name: bytes are given up
\* only where processPendingFile returns a leftover over a new inbox file of its name
\* (drain-orchestrator.ts:503); every other rename and removal leaves the bytes in another
\* file or in a row.
LossOnlyByReturn ==
  [][\A b \in Kept \ Kept' : \E f, g \in Files :
       /\ file[f].at = "inbox" /\ file[f].bytes = b
       /\ At(g, <<"pending", file[f].name>>) /\ file'[g].at = "inbox"]_vars

\* What readers see is the corpus they rely on: the body file is in place before the row is
\* committed, and is taken back only while there is no row. Overlapping passes break it.
Placed == {i \in Ids : bodies[i] # None}
Known == {r.id : r \in rows}
NotYet == [i \in Ids |-> None]
C == INSTANCE Corpus WITH Docs <- Ids, Facets <- {}, placed <- Placed, known <- Known,
                          facets <- NotYet, indexed <- {}, edges <- {}
ImplementsCorpus == C!Spec

\* When a drain pass ends, it leaves nothing in pending/ (SC-INGEST-002).
PendingDrained ==
  [][\A d \in Drainers : EndDrain(d) => PathsIn("pending") = {}]_vars

\* A dropped file is eventually a document, a duplicate of one, or in failed/ with its
\* sidecar, however often its drain is killed; or a leftover was returned over it, which is
\* what LossOnlyByReturn says of the only files that have no end.
Settled(f) ==
  \/ \E r \in rows : r.hash = file[f].bytes
  \/ file[f].at = "failed" /\ file[f].name \in sidecars
  \/ file[f].at = "replaced" /\ file[f].name \in Names

EventuallySettled == \A f \in Files : file[f].at = "inbox" ~> Settled(f)

----------------------------------------------------------------------------
(* What the code does not do *)

\* A file that is gone from the lanes left its bytes in a row or in another file.
NoSilentLoss ==
  \A f \in Files : file[f].at \in {"removed", "replaced"} => file[f].bytes \in Kept
=============================================================================
