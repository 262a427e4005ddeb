------------------------------ MODULE DrainLock ------------------------------
(***************************************************************************)
(* The drain lock of packages/pipeline/src/drain-lock.ts: a lock file      *)
(* created with O_EXCL that holds the pid of its creator.                  *)
(*                                                                         *)
(* Every process of the corpus (the daemon and each CLI command) is a pid. *)
(* acquireDrainLock is synchronous inside its process, but each system     *)
(* call it makes is a step other processes interleave with: open("wx"),    *)
(* write(pid), read, kill(pid, 0), unlink, and the second open("wx").      *)
(* A kill -9 may land wherever CrashAt says; a signal handler runs only    *)
(* between turns of the event loop, that is while the process is idle or   *)
(* in the work the lock protects.                                          *)
(*                                                                         *)
(* A file is identified by its creator: write(pid) goes to the inode the   *)
(* process opened, so it fills the file at the lock path only if that is   *)
(* still the file this process created.                                    *)
(***************************************************************************)
CONSTANTS
  Pids,      \* process ids the operating system can hand out
  NoPid,     \* "holderPid = null"
  CrashAt,   \* program points at which a kill -9 may land
  PidReuse,  \* may the operating system hand out the pid of a dead process?
  CanAbort   \* does the environment send SIGTERM/SIGINT (or a timeout fire)?

NoFile == [by |-> NoPid, written |-> FALSE]
LockFile == {NoFile} \cup [by : Pids, written : BOOLEAN]

Points ==
  {"down",      \* no process has this pid
   "foreign",   \* a process that is not ours has this pid
   "idle",      \* outside acquireDrainLock, holding nothing
   "write",     \* created the file, pid not written yet
   "handle",    \* tryCreate returned true: makeHandle
   "read",      \* tryCreate returned false: read the holder
   "check",     \* kill(holderPid, 0)
   "steal",     \* the holder is dead: unlink
   "recreate",  \* second tryCreate
   "work"}      \* the caller runs under its handle

ASSUME LockAssumption ==
  /\ NoPid \notin Pids
  /\ CrashAt \subseteq Points \ {"down", "foreign"}
  /\ PidReuse \in BOOLEAN
  /\ CanAbort \in BOOLEAN

VARIABLES
  lock,      \* the file at Paths.drainLock()
  pc,        \* where each process is
  saw,       \* holderPid, as each process last read it
  released,  \* the released flag of each process's handle
  aborted,   \* has this process's AbortSignal fired?
  used,      \* pids handed out so far
  robbed     \* history: has a steal removed the file of a live owner?

vars == <<lock, pc, saw, released, aborted, used, robbed>>

TypeOK ==
  /\ lock \in LockFile
  /\ pc \in [Pids -> Points]
  /\ saw \in [Pids -> Pids \cup {NoPid}]
  /\ released \in [Pids -> BOOLEAN]
  /\ aborted \in [Pids -> BOOLEAN]
  /\ used \subseteq Pids /\ robbed \in BOOLEAN

Init ==
  /\ lock = NoFile
  /\ pc = [p \in Pids |-> "down"]
  /\ saw = [p \in Pids |-> NoPid]
  /\ released = [p \in Pids |-> TRUE]
  /\ aborted = [p \in Pids |-> FALSE]
  /\ used = {} /\ robbed = FALSE

Goto(p, where) == pc' = [pc EXCEPT ![p] = where]

IsPidAlive(q) == pc[q] # "down"

\* p works under a handle it has not released.
Holds(p) == pc[p] = "work" /\ ~released[p]

\* p has a file at the lock path that it may rely on: it is still acquiring,
\* or works under an unreleased handle.
Owner(p) == pc[p] \in {"write", "handle"} \/ Holds(p)

----------------------------------------------------------------------------
(* Acquiring *)

\* Mutant: open("w") in place of open("wx").
TryCreateShared(p, onExists) ==
  /\ lock' = [by |-> p, written |-> FALSE]
  /\ Goto(p, "write")

\* tryCreate: open(lockPath, "wx") creates the file, or fails with EEXIST.
TryCreate(p, onExists) ==
  \/ /\ lock = NoFile
     /\ lock' = [by |-> p, written |-> FALSE]
     /\ Goto(p, "write")
  \/ /\ lock # NoFile
     /\ Goto(p, onExists)
     /\ UNCHANGED lock

Acquire(p) ==
  /\ pc[p] = "idle"
  /\ TryCreate(p, "read")
  /\ UNCHANGED <<saw, released, aborted, used, robbed>>

WritePid(p) ==
  /\ pc[p] = "write"
  /\ lock' = IF lock.by = p THEN [by |-> p, written |-> TRUE] ELSE lock
  /\ Goto(p, "handle")
  /\ UNCHANGED <<saw, released, aborted, used, robbed>>

\* makeHandle: a handle whose signal has already fired is released at once,
\* and returned all the same.
MakeHandle(p) ==
  /\ pc[p] = "handle"
  /\ released' = [released EXCEPT ![p] = aborted[p]]
  /\ lock' = IF aborted[p] THEN NoFile ELSE lock
  /\ Goto(p, "work")
  /\ UNCHANGED <<saw, aborted, used, robbed>>

\* The holder's pid, or null when the file is gone or holds no number.
ReadHolder(p) ==
  /\ pc[p] = "read"
  /\ saw' = [saw EXCEPT ![p] = IF lock.written THEN lock.by ELSE NoPid]
  /\ Goto(p, "check")
  /\ UNCHANGED <<lock, released, aborted, used, robbed>>

\* Mutants: steals from a live holder; never steals.
MayStealAlive(p) == saw[p] # NoPid /\ saw[p] # p
MayStealNever(p) == FALSE

MaySteal(p) == saw[p] # NoPid /\ saw[p] # p /\ ~IsPidAlive(saw[p])

\* The stale-lock check: steal, or return LockContentionError.
CheckHolder(p) ==
  /\ pc[p] = "check"
  /\ \/ MaySteal(p) /\ Goto(p, "steal")
     \/ ~MaySteal(p) /\ Goto(p, "idle")
  /\ UNCHANGED <<lock, saw, released, aborted, used, robbed>>

\* unlink(lockPath), whoever's file that is by now.
StealUnlink(p) ==
  /\ pc[p] = "steal"
  /\ lock' = NoFile
  /\ robbed' = (robbed \/ \E q \in Pids : Owner(q) /\ lock.by = q)
  /\ Goto(p, "recreate")
  /\ UNCHANGED <<saw, released, aborted, used>>

Recreate(p) ==
  /\ pc[p] = "recreate"
  /\ TryCreate(p, "idle")
  /\ UNCHANGED <<saw, released, aborted, used, robbed>>

----------------------------------------------------------------------------
(* Releasing *)

\* Mutant: releases again what was released.
ReleaseTwice(p) ==
  /\ lock' = NoFile
  /\ released' = [released EXCEPT ![p] = TRUE]

\* releaseFn: once per handle, and without looking at the file's content.
ReleaseFn(p) ==
  /\ lock' = IF released[p] THEN lock ELSE NoFile
  /\ released' = [released EXCEPT ![p] = TRUE]

\* The caller's finally block.
Finish(p) ==
  /\ pc[p] = "work"
  /\ ReleaseFn(p)
  /\ Goto(p, "idle")
  /\ UNCHANGED <<saw, aborted, used, robbed>>

\* The abort listener releases the handle; the caller keeps running.
Abort(p) ==
  /\ CanAbort
  /\ pc[p] \in {"idle", "work"}
  /\ ~aborted[p]
  /\ aborted' = [aborted EXCEPT ![p] = TRUE]
  /\ IF pc[p] = "work" THEN ReleaseFn(p) ELSE UNCHANGED <<lock, released>>
  /\ UNCHANGED <<pc, saw, used, robbed>>

----------------------------------------------------------------------------
(* Processes *)

Start(p) ==
  /\ pc[p] = "down"
  /\ p \in used => PidReuse
  /\ used' = used \cup {p}
  /\ released' = [released EXCEPT ![p] = TRUE]
  /\ aborted' = [aborted EXCEPT ![p] = FALSE]
  /\ saw' = [saw EXCEPT ![p] = NoPid]
  /\ Goto(p, "idle")
  /\ UNCHANGED <<lock, robbed>>

Die(p) ==
  /\ Goto(p, "down")
  /\ released' = [released EXCEPT ![p] = TRUE]
  /\ UNCHANGED <<lock, saw, aborted, used, robbed>>

Exit(p) == pc[p] = "idle" /\ Die(p)

Crash(p) == pc[p] \in CrashAt /\ Die(p)

\* An unrelated program is given the pid of a dead process, and ends.
ForeignStart(p) ==
  /\ PidReuse
  /\ pc[p] = "down" /\ p \in used
  /\ Goto(p, "foreign")
  /\ UNCHANGED <<lock, saw, released, aborted, used, robbed>>

ForeignExit(p) ==
  /\ pc[p] = "foreign"
  /\ Goto(p, "down")
  /\ UNCHANGED <<lock, saw, released, aborted, used, robbed>>

Step(p) ==
  \/ Acquire(p) \/ WritePid(p) \/ MakeHandle(p)
  \/ ReadHolder(p) \/ CheckHolder(p) \/ StealUnlink(p) \/ Recreate(p)
  \/ Finish(p)

Next ==
  \E p \in Pids :
    \/ Step(p) \/ Abort(p)
    \/ Start(p) \/ Exit(p) \/ Crash(p) \/ ForeignStart(p) \/ ForeignExit(p)

Spec == Init /\ [][Next]_vars

\* System calls return, work ends, and a process that wants the lock keeps
\* asking: the watcher, a timer or a user triggers the next attempt.
FairSpec == Spec /\ \A p \in Pids : WF_vars(Step(p))

----------------------------------------------------------------------------
(* Properties *)

\* At most one process holds an unreleased handle (the single-writer
\* serialization of drain-lock.ts).
MutualExclusion == \A p, q \in Pids : Holds(p) /\ Holds(q) => p = q

\* Two processes come to hold the lock in one way only: between the check of
\* a pid (drain-lock.ts:89) and the unlink another process created the file.
\* No kill, abort, double release or reuse of a pid does it by itself.
ExclusiveUnlessRobbed == robbed \/ MutualExclusion

\* The file of a process that died does not stay for ever in the way of a
\* process that goes on asking for the lock (drain-lock.ts:50, stale-lock
\* recovery).
StaleLock == lock # NoFile /\ pc[lock.by] = "down"
StaleLockRecovered ==
  (\E p \in Pids : <>[](pc[p] \notin {"down", "foreign"})) => []<>~StaleLock

----------------------------------------------------------------------------
(* The lock file implements the exclusive lock, as far as MutualExclusion    *)
(* goes: the holder is the process with the unreleased handle.               *)

Holder == IF \E p \in Pids : Holds(p) THEN CHOOSE p \in Pids : Holds(p) ELSE NoPid

Abstract == INSTANCE ExclusiveLock WITH holder <- Holder

\* Every step of the lock file is a grant, a release or nothing to the users
\* of the lock.
ImplementsExclusiveLock == Abstract!Spec
=============================================================================
