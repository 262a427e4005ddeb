------------------------------ MODULE Install ------------------------------
(***************************************************************************)
(* "corpus init" and "corpus uninstall" (install-command.ts,               *)
(* uninstall-command.ts and install-helpers/): an installer that changes   *)
(* five things of the host, keeps in memory what it has to undo, undoes it *)
(* when a step fails or the 90 s budget ends, and leaves a receipt from    *)
(* which an uninstall works. A process may be killed between two steps.    *)
(*                                                                         *)
(* The things: the XDG subtree ("data": its directories, index.db and what *)
(* they hold), config.toml in it, mcpServers.corpus in the MCP client's    *)
(* configuration, the firewall rule of the uid, the auto-start unit. A     *)
(* thing belongs to nobody, to the operator, to the command that runs and  *)
(* made it, or to corpus: to a command that has ended.                     *)
(*                                                                         *)
(* No signal reaches the two commands from index.ts: an abort is the       *)
(* installer's budget, and SIGINT is a kill.                               *)
(***************************************************************************)
EXTENDS Naturals, FiniteSets

CONSTANTS
  Procs,       \* processes of the operator's shell
  Platform,    \* "linux" or "macos"
  Hosts,       \* what the operator may own before: subsets of Things
  Autostart,   \* --enable-autostart
  ForceUnit,   \* --force-autostart
  Smoke,       \* --smoke
  FailAt,      \* calls that may fail
  MaxFaults,   \* bound on the calls that fail
  CrashAt,     \* program points at which a command may be killed
  MaxCrashes,  \* bound on the kills
  MaxInits,    \* bound on the times init is run
  CanExpire,   \* the budget may end
  CanPrepare,  \* the operator may create the receipt file by hand
  CanLose,     \* the operator may delete index.db
  CanReboot    \* the host may reboot (bounded as the kills are)

Things == {"data", "toml", "mcp", "rule", "unit"}
Nobody == "nobody"
Operator == "operator"
Corpus == "corpus"
None == "none"
Written == "edges.completed"   \* what the pipeline writes of a document it has linked

\* A receipt file is not there, does not validate, or lists what was made and says
\* whether that is gone.
Receipts == [file : {"none", "bad", "valid"}, lists : SUBSET Things, gone : BOOLEAN]
Absent == [file |-> "none", lists |-> {}, gone |-> FALSE]
Steps == {"preflight", "data", "sqlite", "toml", "seed", "mcp", "rule", "unit", "load",
          "receipt"}
Smoking == {"spawn", "drop"}
Removing == {"daemon", "reverse", "mark", "purge"}
Points == {"idle"} \cup Steps \cup Smoking \cup {"undo"} \cup Removing

ASSUME InstallAssumption ==
  /\ Platform \in {"linux", "macos"} /\ Hosts \subseteq SUBSET Things
  /\ Procs \cap {Nobody, Operator, Corpus, "unit"} = {}
  /\ {Autostart, ForceUnit, Smoke, CanExpire, CanPrepare, CanLose, CanReboot} \subseteq BOOLEAN
  /\ CrashAt \subseteq Points \ {"idle"}
  /\ {MaxFaults, MaxCrashes, MaxInits} \subseteq Nat

VARIABLES
  owner,     \* who made each thing
  rules,     \* copies of the firewall rule: iptables -A appends
  loaded,    \* the service manager has the unit
  base,      \* the four XDG base directories exist
  index,     \* index.db exists
  receipt,
  daemon,    \* who started the running daemon: Nobody, Operator, "unit", or a command
  pid,       \* its daemon.pid is there
  log,       \* what telemetry.jsonl says of edges
  faults, crashes, inits,
  pc, purging,
  done,      \* of each process: the partial receipt, or what is left to reverse
  lists,     \* the receipt an uninstall read
  expired,   \* the budget of its last init ended
  result     \* of its last command: None, "ok", "already", "undone" (init failed),
             \* "unsmoked" (its smoke test failed), "failed" (uninstall) or "killed"

host == <<owner, rules, loaded, base, index, receipt, daemon, pid, log>>
bounds == <<faults, crashes, inits>>
locals == <<pc, purging, done, lists, expired, result>>
vars == <<host, bounds, locals>>

TypeOK ==
  /\ owner \in [Things -> Procs \cup {Nobody, Operator, Corpus}]
  /\ rules \in Nat /\ {loaded, base, index, pid} \subseteq BOOLEAN
  /\ receipt \in Receipts
  /\ daemon \in Procs \cup {Nobody, Operator, Corpus, "unit"}
  /\ log \subseteq {Written}
  /\ faults \in 0 .. MaxFaults /\ crashes \in 0 .. MaxCrashes /\ inits \in 0 .. MaxInits
  /\ pc \in [Procs -> Points] /\ purging \in [Procs -> BOOLEAN]
  /\ done \in [Procs -> SUBSET Things] /\ expired \in [Procs -> BOOLEAN]
  /\ lists \in [Procs -> Receipts]
  /\ result \in [Procs -> {None, "ok", "already", "undone", "unsmoked", "failed", "killed"}]

Init ==
  /\ \E has \in Hosts :
       /\ owner = [t \in Things |-> IF t \in has THEN Operator ELSE Nobody]
       /\ base = ("data" \in has)
       /\ rules = IF "rule" \in has THEN 1 ELSE 0
  /\ loaded = FALSE /\ index = FALSE /\ receipt = Absent
  /\ daemon = Nobody /\ pid = FALSE /\ log = {}
  /\ faults = 0 /\ crashes = 0 /\ inits = 0
  /\ pc = [p \in Procs |-> "idle"] /\ purging = [p \in Procs |-> FALSE]
  /\ done = [p \in Procs |-> {}] /\ lists = [p \in Procs |-> Absent]
  /\ expired = [p \in Procs |-> FALSE] /\ result = [p \in Procs |-> None]

Valid(r) == r.file = "valid"
Active(r) == Valid(r) /\ ~r.gone
Is(t) == owner[t] # Nobody
Goto(p, where) == pc' = [pc EXCEPT ![p] = where]
Make(p, t) == owner' = [owner EXCEPT ![t] = p]
Record(p, t) == done' = [done EXCEPT ![p] = @ \cup {t}]

\* The command returns or exits.
End(p, how) ==
  /\ Goto(p, "idle")
  /\ result' = [result EXCEPT ![p] = how]
  /\ done' = [done EXCEPT ![p] = {}] /\ lists' = [lists EXCEPT ![p] = Absent]
  /\ purging' = [purging EXCEPT ![p] = FALSE] /\ UNCHANGED expired

\* A call fails of itself: a tool that cannot be run, exits with an error or exceeds its
\* time, a file that cannot be written.
Fault(call) == call \in FailAt /\ faults < MaxFaults /\ faults' = faults + 1

\* A step throws: of itself, or because the budget ended. The pipeline's catch
\* block rolls back.
Throws(p, call) ==
  /\ \/ Fault(call)
     \/ expired[p] /\ UNCHANGED faults
  /\ Goto(p, "undo")
  /\ UNCHANGED <<done, crashes, inits>>

\* The step before "where" returns and its effect is recorded.
Returns(p, thing, where) ==
  /\ Record(p, thing) /\ Goto(p, where)
  /\ UNCHANGED bounds

service == <<daemon, pid, log>>
rest == <<purging, lists, expired, result>>

----------------------------------------------------------------------------
(* corpus init *)

\* The receipt of an uninstalled corpus is taken for an installation.
FullyInstalled == index /\ Valid(receipt)

StartInit(p) ==
  /\ pc[p] = "idle" /\ inits < MaxInits
  /\ inits' = inits + 1
  /\ \/ /\ FullyInstalled
        /\ End(p, "already")
        /\ UNCHANGED owner
     \/ /\ ~FullyInstalled
        /\ Goto(p, "preflight")
        /\ owner' = [t \in Things |-> IF owner[t] = p THEN Corpus ELSE owner[t]]
        /\ result' = [result EXCEPT ![p] = None] /\ expired' = [expired EXCEPT ![p] = FALSE]
        /\ UNCHANGED <<purging, done, lists>>
  /\ UNCHANGED <<rules, loaded, base, index, receipt, service, faults, crashes>>

\* A data directory without a receipt beside it.
Partial(based) == based /\ receipt.file = "none"

\* The look for a partial installation comes after checkXdgWritable has made the
\* directories it looks for.
Preflight(p) ==
  /\ pc[p] = "preflight"
  /\ base' = TRUE
  /\ \/ /\ ~Partial(base') /\ ~expired[p]
        /\ Goto(p, "data")
        /\ UNCHANGED <<done, bounds>>
     \/ /\ Partial(base')
        /\ Goto(p, "undo")
        /\ UNCHANGED <<done, bounds>>
     \/ Throws(p, "preflight")
  /\ UNCHANGED <<owner, rules, loaded, index, receipt, service, rest>>

\* All twelve directories are recorded as created, also those that were there.
BringUp(p) ==
  /\ pc[p] = "data"
  /\ \/ /\ ~expired[p]
        /\ owner' = [owner EXCEPT !["data"] = IF @ = Nobody THEN p ELSE @]
        /\ Returns(p, "data", "sqlite")
     \/ Throws(p, "data") /\ UNCHANGED owner
  /\ UNCHANGED <<rules, loaded, base, index, receipt, service, rest>>

Sqlite(p) ==
  /\ pc[p] = "sqlite"
  /\ \/ /\ ~expired[p]
        /\ index' = TRUE
        /\ Goto(p, "toml")
        /\ UNCHANGED <<done, bounds>>
     \/ Throws(p, "sqlite") /\ UNCHANGED index
  /\ UNCHANGED <<owner, rules, loaded, base, receipt, service, rest>>

\* withTempDir gives up when the signal is set, with its rename done or not.
MayLand(p, t) == UNCHANGED owner \/ Make(p, t)

\* Written unless it is there or the budget has ended before the step.
Toml(p) ==
  /\ pc[p] = "toml"
  /\ \/ /\ Is("toml") \/ expired[p]
        /\ Goto(p, "seed")
        /\ UNCHANGED <<owner, done, bounds>>
     \/ /\ ~Is("toml") /\ ~expired[p]
        /\ Make(p, "toml")
        /\ Returns(p, "toml", "seed")
     \/ /\ Throws(p, "toml")
        /\ IF expired[p] /\ ~Is("toml")
             THEN MayLand(p, "toml")
             ELSE UNCHANGED owner
  /\ UNCHANGED <<rules, loaded, base, index, receipt, service, rest>>

\* The database is opened, and made again if another command removed it. A
\* drain that holds the lock makes this fail; the signal is not looked at.
SeedTerms(p) ==
  /\ pc[p] = "seed"
  /\ base' = TRUE /\ index' = TRUE
  /\ owner' = [owner EXCEPT !["data"] = IF @ = Nobody THEN p ELSE @]
  /\ \/ Goto(p, "mcp") /\ UNCHANGED <<done, bounds>>
     \/ /\ Fault("seed") /\ Goto(p, "undo")
        /\ UNCHANGED <<done, crashes, inits>>
  /\ UNCHANGED <<rules, loaded, receipt, service, rest>>

\* Mutation: the entry is recorded by the step after it.
RegisterUnrecorded(p) ==
  /\ pc[p] = "mcp"
  /\ \/ ~expired[p] /\ Make(p, "mcp") /\ Goto(p, "rule") /\ UNCHANGED <<done, bounds>>
     \/ Throws(p, "mcp") /\ UNCHANGED owner
  /\ UNCHANGED <<rules, loaded, base, index, receipt, service, rest>>

\* The entry is overwritten if there is one. The file is read again after the
\* rename; an abort during the rename leaves it done or not.
Register(p) ==
  /\ pc[p] = "mcp"
  /\ \/ ~expired[p] /\ Make(p, "mcp") /\ Returns(p, "mcp", "rule")
     \/ Throws(p, "mcp") /\ UNCHANGED owner
     \/ Throws(p, "reread") /\ MayLand(p, "mcp")
  /\ UNCHANGED <<rules, loaded, base, index, receipt, service, rest>>

\* iptables appends a rule; loading a pf anchor replaces what is in it.
AppendRule == rules' = rules + 1
LoadAnchor == rules' = 1
Apply(p) ==
  /\ Make(p, "rule")
  /\ IF Platform = "linux" THEN AppendRule ELSE LoadAnchor

\* The probe, under "sudo -n", may not find the rule that is there.
Unseen ==
  \/ rules = 0 /\ UNCHANGED faults
  \/ rules > 0 /\ Fault("probe")

\* Mutation: a rule the probe finds is not recorded.
ProvisionOnlyNew(p) ==
  /\ pc[p] = "rule"
  /\ LET next == IF Autostart THEN "unit" ELSE "receipt" IN
       \/ /\ rules > 0 /\ ~expired[p]
          /\ Goto(p, next)
          /\ UNCHANGED <<owner, rules, done, bounds>>
       \/ ~expired[p] /\ rules = 0 /\ Apply(p) /\ Returns(p, "rule", next)
       \/ Throws(p, "rule") /\ UNCHANGED <<owner, rules>>
  /\ UNCHANGED <<loaded, base, index, receipt, service, rest>>

\* A rule the probe finds is recorded as if it had been made now; a tool the signal
\* kills has done its work or not.
Provision(p) ==
  /\ pc[p] = "rule"
  /\ LET next == IF Autostart THEN "unit" ELSE "receipt" IN
       \/ /\ rules > 0 /\ ~expired[p]
          /\ Returns(p, "rule", next)
          /\ UNCHANGED <<owner, rules>>
       \/ /\ ~expired[p]
          /\ Unseen /\ Apply(p)
          /\ Record(p, "rule") /\ Goto(p, next)
          /\ UNCHANGED <<crashes, inits>>
       \/ Throws(p, "rule") /\ UNCHANGED <<owner, rules>>
       \/ /\ expired[p] /\ Unseen /\ Apply(p)
          /\ Goto(p, "undo") /\ UNCHANGED <<done, crashes, inits>>
  /\ UNCHANGED <<loaded, base, index, receipt, service, rest>>

WriteUnit(p) ==
  /\ pc[p] = "unit"
  /\ \/ /\ Is("unit") /\ ~ForceUnit
        /\ Goto(p, "undo")
        /\ UNCHANGED <<owner, done, bounds>>
     \/ /\ ~Is("unit") \/ ForceUnit
        /\ Make(p, "unit") /\ Goto(p, "load")
        /\ UNCHANGED <<done, bounds>>
     \/ /\ Fault("unit") /\ Goto(p, "undo")
        /\ UNCHANGED <<owner, done, crashes, inits>>
  /\ UNCHANGED <<rules, loaded, base, index, receipt, service, rest>>

\* "enable --now", "launchctl load": a second daemon exits at once.
Enable ==
  /\ loaded' = TRUE /\ pid' = TRUE
  /\ daemon' = IF daemon = Nobody \/ ~pid THEN "unit" ELSE daemon

\* The unit is written before it is loaded and recorded after; when the load
\* fails its file is removed.
LoadUnit(p) ==
  /\ pc[p] = "load"
  /\ \/ ~expired[p] /\ Enable /\ Returns(p, "unit", "receipt") /\ UNCHANGED owner
     \/ /\ Throws(p, "load")
        /\ owner' = [owner EXCEPT !["unit"] = Nobody]
        /\ IF expired[p]
             THEN Enable \/ UNCHANGED <<loaded, daemon, pid>>
             ELSE UNCHANGED <<loaded, daemon, pid>>
  /\ UNCHANGED <<rules, base, index, receipt, log, rest>>

\* It does not name config.toml.
Receipt(p) == [file |-> "valid", lists |-> done[p] \ {"toml"}, gone |-> FALSE]

WriteReceipt(p) ==
  /\ pc[p] = "receipt"
  /\ \/ /\ ~expired[p]
        /\ receipt' = Receipt(p) /\ base' = TRUE
        /\ IF Smoke
             THEN Goto(p, "spawn") /\ done' = [done EXCEPT ![p] = {}] /\ UNCHANGED rest
             ELSE End(p, "ok")
        /\ UNCHANGED bounds
     \/ Throws(p, "receipt") /\ UNCHANGED <<base, receipt, rest>>
     \/ Throws(p, "reread") /\ receipt' = Receipt(p) /\ base' = TRUE /\ UNCHANGED rest
  /\ UNCHANGED <<owner, rules, loaded, index, service>>

Expire(p) ==
  /\ CanExpire /\ pc[p] \in Steps /\ ~expired[p]
  /\ expired' = [expired EXCEPT ![p] = TRUE]
  /\ UNCHANGED <<host, bounds, pc, purging, done, lists, result>>

----------------------------------------------------------------------------
(* Taking back *)

First(order, S) == CHOOSE t \in S : \A u \in S : order[t] <= order[u]
UndoOrder == [unit |-> 1, rule |-> 2, mcp |-> 3, toml |-> 4, data |-> 5]
ReverseOrder == [mcp |-> 1, rule |-> 2, unit |-> 3]

\* A file or an entry is removed.
Remove(t) ==
  /\ owner' = [owner EXCEPT ![t] = Nobody]
  /\ UNCHANGED <<rules, loaded, base, index, receipt, service>>

\* iptables deletes one rule and fails if there is none; an anchor is flushed.
CanUnapplyThere == rules > 0   \* Mutation: flushing an empty anchor is an error.
CanUnapply == Platform = "macos" \/ rules > 0
Unapply ==
  /\ rules' = IF Platform = "macos" THEN 0 ELSE rules - 1
  /\ owner' = [owner EXCEPT !["rule"] = IF rules' = 0 THEN Nobody ELSE @]
  /\ UNCHANGED <<loaded, base, index, receipt, service>>

\* The unit's file goes whether or not the service manager lets go of it.
RemoveUnit ==
  /\ owner' = [owner EXCEPT !["unit"] = Nobody]
  /\ \/ Fault("disable") /\ UNCHANGED <<loaded, daemon, pid>>
     \/ /\ loaded' = FALSE
        /\ IF daemon = "unit" THEN daemon' = Nobody /\ pid' = FALSE
                              ELSE UNCHANGED <<daemon, pid>>
        /\ UNCHANGED faults
  /\ UNCHANGED <<rules, base, index, receipt, log>>

\* The XDG subtree, whoever made it, and all that is in it.
Wipe ==
  /\ owner' = [owner EXCEPT !["data"] = Nobody, !["toml"] = Nobody]
  /\ index' = FALSE /\ base' = FALSE /\ receipt' = Absent
  /\ pid' = FALSE /\ log' = {}
  /\ UNCHANGED <<rules, loaded, daemon>>

\* rollbackPartialInstall: what is recorded, in a fixed order, whatever fails.
Undo(p) ==
  /\ pc[p] = "undo" /\ done[p] # {}
  /\ LET t == First(UndoOrder, done[p]) IN
       /\ \/ t \in {"mcp", "toml"} /\ Remove(t) /\ UNCHANGED faults
          \/ t = "rule" /\ CanUnapply /\ Unapply /\ UNCHANGED faults
          \/ t = "rule" /\ ~CanUnapply /\ UNCHANGED <<host, faults>>
          \/ t = "unit" /\ RemoveUnit
          \/ t = "data" /\ Wipe /\ UNCHANGED faults
          \/ Fault("undo") /\ UNCHANGED host
       /\ done' = [done EXCEPT ![p] = @ \ {t}]
  /\ UNCHANGED <<crashes, inits, pc, rest>>

\* Last of all the receipt, of which nobody asks whose it is.
Forget(p) ==
  /\ pc[p] = "undo" /\ done[p] = {}
  /\ receipt' = Absent
  /\ End(p, "undone")
  /\ UNCHANGED <<owner, rules, loaded, base, index, service, bounds>>

----------------------------------------------------------------------------
(* corpus uninstall [--purge] *)

\* detectRunningDaemon: a daemon whose pid file was removed is not seen.
Running == daemon # Nobody /\ pid
StopRunning == daemon' = Nobody /\ pid' = FALSE

StartUninstall(p, all) ==
  /\ pc[p] = "idle"
  /\ \/ ~Valid(receipt) /\ End(p, "failed")
     \/ Valid(receipt) /\ receipt.gone /\ ~all /\ End(p, "already")
     \/ /\ Valid(receipt)
        /\ all \/ ~receipt.gone
        /\ Goto(p, IF receipt.gone THEN "purge" ELSE "daemon")
        /\ done' = [done EXCEPT ![p] = receipt.lists \cap DOMAIN ReverseOrder]
        /\ lists' = [lists EXCEPT ![p] = receipt]
        /\ purging' = [purging EXCEPT ![p] = all]
        /\ result' = [result EXCEPT ![p] = None] /\ UNCHANGED expired
  /\ UNCHANGED <<host, bounds>>

StopDaemon(p) ==
  /\ pc[p] = "daemon"
  /\ \/ /\ IF Running THEN StopRunning ELSE UNCHANGED <<daemon, pid>>
        /\ Goto(p, "reverse")
        /\ UNCHANGED <<faults, done, rest>>
     \/ /\ Running
        /\ Fault("stop") /\ End(p, "failed") /\ UNCHANGED <<daemon, pid>>
  /\ UNCHANGED <<owner, rules, loaded, base, index, receipt, log, crashes, inits>>

\* Mutation: a rule that cannot be deleted is skipped as an entry is.
ReverseSkips(p) ==
  /\ pc[p] = "reverse" /\ done[p] # {}
  /\ LET t == First(ReverseOrder, done[p]) IN
       /\ \/ t = "mcp" /\ Remove(t) /\ UNCHANGED faults
          \/ t = "rule" /\ CanUnapply /\ Unapply /\ UNCHANGED faults
          \/ t = "rule" /\ Fault("unapply") /\ UNCHANGED host
          \/ t = "unit" /\ RemoveUnit
       /\ done' = [done EXCEPT ![p] = @ \ {t}]
  /\ UNCHANGED <<crashes, inits, pc, rest>>

\* An entry that cannot be removed and a unit that cannot be disabled do not
\* stop the command; a rule that cannot be deleted does.
Reverse(p) ==
  /\ pc[p] = "reverse" /\ done[p] # {}
  /\ LET t == First(ReverseOrder, done[p]) IN
       \/ /\ \/ t = "mcp" /\ Remove(t) /\ UNCHANGED faults
             \/ t = "mcp" /\ Fault("mcp") /\ UNCHANGED host
             \/ t = "rule" /\ CanUnapply /\ Unapply /\ UNCHANGED faults
             \/ t = "unit" /\ RemoveUnit
          /\ done' = [done EXCEPT ![p] = @ \ {t}]
          /\ UNCHANGED <<pc, rest>>
       \/ /\ t = "rule"
          /\ \/ ~CanUnapply /\ UNCHANGED faults
             \/ CanUnapply /\ Fault("unapply")
          /\ End(p, "failed")
          /\ UNCHANGED host
  /\ UNCHANGED <<crashes, inits>>

Reversed(p) ==
  /\ pc[p] = "reverse" /\ done[p] = {}
  /\ Goto(p, IF purging[p] THEN "purge" ELSE "mark")
  /\ UNCHANGED <<host, bounds, done, rest>>

Mark(p) ==
  /\ pc[p] = "mark"
  /\ \/ /\ receipt' = [lists[p] EXCEPT !.gone = TRUE] /\ base' = TRUE
        /\ End(p, "ok") /\ UNCHANGED faults
     \/ Fault("receipt") /\ End(p, "failed") /\ UNCHANGED <<base, receipt>>
  /\ UNCHANGED <<owner, rules, loaded, index, service, crashes, inits>>

Purge(p) ==
  /\ pc[p] = "purge"
  /\ Wipe
  /\ End(p, "ok")
  /\ UNCHANGED bounds

----------------------------------------------------------------------------
(* corpus init --smoke *)

\* The test starts a daemon of its own, and takes one that runs for it.
Spawn(p) ==
  /\ pc[p] = "spawn"
  /\ \/ /\ IF Running THEN UNCHANGED <<daemon, pid>> ELSE daemon' = p /\ pid' = TRUE
        /\ Goto(p, "drop")
        /\ UNCHANGED <<faults, done, rest>>
     \/ Fault("spawn") /\ End(p, "unsmoked") /\ UNCHANGED <<daemon, pid>>
  /\ UNCHANGED <<owner, rules, loaded, base, index, receipt, log, crashes, inits>>

\* A failed test ends the daemon it spawned.
Unsmoked(p) ==
  /\ End(p, "unsmoked")
  /\ IF daemon = p THEN StopRunning ELSE UNCHANGED <<daemon, pid>>

\* The name the test waits for; the rest of it, a search and "corpus daemon stop", comes
\* after it has been seen.
Awaited == "edges-build.completed"
Processed == Awaited \in log

\* The seed document is dropped, and its processing waited for.
Drop(p) ==
  /\ pc[p] = "drop"
  /\ IF Processed
       THEN End(p, "ok") /\ UNCHANGED <<daemon, pid, faults>>
       ELSE Unsmoked(p) /\ UNCHANGED faults
  /\ UNCHANGED <<owner, rules, loaded, base, index, receipt, log, crashes, inits>>

----------------------------------------------------------------------------
(* The host *)

\* runDaemonStart, by the operator. On macOS KeepAlive starts it again.
StartDaemon ==
  /\ ~pid
  /\ \/ base /\ daemon = Nobody /\ daemon' = Operator
     \/ Platform = "macos" /\ loaded /\ Is("unit") /\ daemon = Nobody /\ daemon' = "unit"
  /\ pid' = TRUE
  /\ UNCHANGED <<owner, rules, loaded, base, index, receipt, log, bounds, locals>>

\* The daemon processes what is in the inbox.
BuildEdges ==
  /\ daemon # Nobody /\ Written \notin log
  /\ log' = log \cup {Written}
  /\ UNCHANGED <<owner, rules, loaded, base, index, receipt, daemon, pid, bounds, locals>>

Crash(p) ==
  /\ pc[p] \in CrashAt /\ crashes < MaxCrashes
  /\ crashes' = crashes + 1
  /\ End(p, "killed")
  /\ daemon' = IF daemon = p THEN Corpus ELSE daemon
  /\ UNCHANGED <<owner, rules, loaded, base, index, receipt, pid, log, faults, inits>>

\* Firewall rules do not survive; a unit that is enabled starts.
Reboot ==
  /\ CanReboot /\ crashes < MaxCrashes /\ \A p \in Procs : pc[p] = "idle"
  /\ crashes' = crashes + 1
  /\ rules' = 0 /\ owner' = [owner EXCEPT !["rule"] = Nobody]
  /\ pid' = (loaded /\ Is("unit"))
  /\ daemon' = IF pid' THEN "unit" ELSE Nobody
  /\ UNCHANGED <<loaded, base, index, receipt, log, faults, inits, locals>>

\* The operator makes the probe for debris pass with an empty receipt file.
Prepare ==
  /\ CanPrepare /\ receipt = Absent
  /\ receipt' = [Absent EXCEPT !.file = "bad"] /\ base' = TRUE
  /\ UNCHANGED <<owner, rules, loaded, index, service, bounds, locals>>

\* The operator deletes index.db to have it built anew.
LoseIndex ==
  /\ CanLose /\ index
  /\ index' = FALSE
  /\ UNCHANGED <<owner, rules, loaded, base, receipt, service, bounds, locals>>

Installing(p) ==
  \/ Preflight(p) \/ BringUp(p) \/ Sqlite(p) \/ Toml(p) \/ SeedTerms(p)
  \/ Register(p) \/ Provision(p) \/ WriteUnit(p) \/ LoadUnit(p) \/ WriteReceipt(p)
  \/ Undo(p) \/ Forget(p)
SmokeTest(p) == Spawn(p) \/ Drop(p)
Uninstalling(p) ==
  StopDaemon(p) \/ Reverse(p) \/ Reversed(p) \/ Mark(p) \/ Purge(p)

Next ==
  \/ \E p \in Procs :
       \/ StartInit(p) \/ Installing(p) \/ Expire(p) \/ SmokeTest(p)
       \/ StartUninstall(p, FALSE) \/ StartUninstall(p, TRUE) \/ Uninstalling(p)
       \/ Crash(p)
  \/ StartDaemon \/ BuildEdges \/ Reboot \/ Prepare \/ LoseIndex

\* A command that runs goes on, and the operator repeats an uninstall.
Fairness ==
  \A p \in Procs :
    /\ WF_vars(Installing(p) \/ SmokeTest(p) \/ Uninstalling(p))
    /\ WF_vars(Active(receipt) /\ StartUninstall(p, FALSE))
Spec == Init /\ [][Next]_vars
FairSpec == Spec /\ Fairness

----------------------------------------------------------------------------
(* Correctness *)

\* What an init made is gone when it has failed within its budget (runPipeline,
\* rollbackPartialInstall): no step takes effect before a call of its own that may
\* fail without the rollback knowing of it.
FailedInitUndone ==
  \A p \in Procs :
    pc[p] = "idle" /\ result[p] = "undone" /\ ~expired[p] => \A t \in Things : owner[t] # p

Ended == \A p \in Procs : pc[p] = "idle"
Ours == Procs \cup {Corpus}

\* The receipt of an installed corpus names all that corpus has made outside of
\* config.toml (WriteInstallReceipt), also what a killed init left and a later one
\* took over: an uninstall has nothing else to work from.
ReceiptComplete ==
  Ended /\ Active(receipt) =>
    {t \in Things \ {"toml"} : owner[t] \in Ours} \subseteq receipt.lists

\* An uninstall that has marked the receipt has left no rule and no unit
\* (runUninstallCommand), whatever failed or was killed before it.
MarkedMeansReversed ==
  \A p \in Procs :
    Ended /\ result[p] = "ok" /\ Valid(receipt) /\ receipt.gone =>
      rules = 0 /\ owner["unit"] \notin Ours

\* An uninstall that failed or was killed is completed by running it again
\* (contracts/adr-install-uninstall-surface.md: "Idempotent uninstall resumption").
UninstallResumes == Active(receipt) ~> ~Active(receipt)

\* A smoke test that nothing disturbs succeeds (smoke-harness.ts:139: "the daemon writes
\* one per processed doc").
SmokeTestPasses == \A p \in Procs : result[p] = "unsmoked" => faults > 0

\* An entry, a rule or a unit that corpus made is named by a receipt: what init made
\* can be found again.
EffectsRemembered ==
  Ended => \A t \in {"mcp", "rule", "unit"} :
             owner[t] \in Ours => Valid(receipt) /\ t \in receipt.lists
=============================================================================
