---------------------------- MODULE InstallProofs ----------------------------
(***************************************************************************)
(* Theorems about "corpus init" and "corpus uninstall", for any number of  *)
(* commands run beside each other, any host, any calls that fail and any   *)
(* kills.                                                                  *)
(*                                                                         *)
(* The receipt is complete because every step records what it provides,    *)
(* whoever made it (Provided). A failed init is undone because what it     *)
(* made is what it has recorded (Recorded), and because there is at most   *)
(* one copy of the firewall rule to take back (OneCopy). A marked receipt  *)
(* means that all is reversed because what is left of it is what the       *)
(* uninstall has still to do (Reversing).                                  *)
(***************************************************************************)
EXTENDS Install, TLAPS

Acts(p) ==
  \/ StartInit(p) \/ Installing(p) \/ Expire(p) \/ SmokeTest(p)
  \/ StartUninstall(p, FALSE) \/ StartUninstall(p, TRUE) \/ Uninstalling(p) \/ Crash(p)
HostActs == StartDaemon \/ BuildEdges \/ Reboot \/ Prepare \/ LoseIndex

LEMMA Actors ==
  ASSUME [Next]_vars
  PROVE  (\E p \in Procs : Acts(p)) \/ HostActs \/ UNCHANGED vars
BY DEF Next, Acts, HostActs

\* The types of what the proofs look at.
HostTyped ==
  /\ owner \in [Things -> Procs \cup {Nobody, Operator, Corpus}]
  /\ rules \in Nat /\ {loaded, base, index, pid} \subseteq BOOLEAN
  /\ receipt \in Receipts
  /\ daemon \in Procs \cup {Nobody, Operator, Corpus, "unit"}
  /\ log \subseteq {Written}
  /\ faults \in 0 .. MaxFaults /\ crashes \in 0 .. MaxCrashes /\ inits \in 0 .. MaxInits

LocalsTyped ==
  /\ pc \in [Procs -> Points] /\ purging \in [Procs -> BOOLEAN]
  /\ done \in [Procs -> SUBSET Things] /\ lists \in [Procs -> Receipts]
  /\ expired \in [Procs -> BOOLEAN]
  /\ result \in [Procs -> {None, "ok", "already", "undone", "unsmoked", "failed", "killed"}]

Typed == HostTyped /\ LocalsTyped

Mine(p) == <<pc[p], purging[p], done[p], lists[p], expired[p], result[p]>>

LEMMA AbsentIsReceipt == Absent \in Receipts
BY DEF Absent, Receipts

LEMMA LocalsKept ==
  ASSUME Typed, NEW p \in Procs, Acts(p)
  PROVE  LocalsTyped' /\ \A q \in Procs \ {p} : UNCHANGED Mine(q)
<1> DEFINE Goal == LocalsTyped' /\ \A q \in Procs \ {p} : UNCHANGED Mine(q)
<1> USE DEF Typed, HostTyped, LocalsTyped, Mine, Goto, Record, Returns, Throws, bounds, rest,
       service, host
<1> USE DEF Points, Steps, Smoking, Removing, Things
<1>1. ASSUME NEW r \in {None, "ok", "already", "undone", "unsmoked", "failed", "killed"}, End(p, r)
      PROVE  Goal
  BY <1>1, AbsentIsReceipt DEF End
<1>2. CASE StartInit(p)
  BY <1>1, <1>2 DEF StartInit
<1>3. CASE Preflight(p) \/ BringUp(p) \/ Sqlite(p) \/ Toml(p) \/ SeedTerms(p) \/ Register(p)
  BY <1>3 DEF Preflight, BringUp, Sqlite, Toml, SeedTerms, Register
<1>4. CASE Provision(p) \/ WriteUnit(p) \/ LoadUnit(p)
  BY <1>4 DEF Provision, WriteUnit, LoadUnit
<1>5. CASE WriteReceipt(p)
  BY <1>1, <1>5 DEF WriteReceipt
<1>6. CASE Undo(p) \/ Forget(p)
  BY <1>1, <1>6 DEF Undo, Forget
<1>7. CASE Expire(p)
  BY <1>7 DEF Expire
<1>8. CASE SmokeTest(p)
  BY <1>1, <1>8 DEF SmokeTest, Spawn, Drop, Unsmoked
<1>9. ASSUME NEW all \in BOOLEAN, StartUninstall(p, all) PROVE Goal
  BY <1>1, <1>9 DEF StartUninstall, ReverseOrder
<1>10. CASE StopDaemon(p) \/ Mark(p) \/ Purge(p) \/ Crash(p)
  BY <1>1, <1>10 DEF StopDaemon, Mark, Purge, Crash
<1>11. CASE Reverse(p) \/ Reversed(p)
  BY <1>1, <1>11 DEF Reverse, Reversed
<1> QED
  BY <1>2, <1>3, <1>4, <1>5, <1>6, <1>7, <1>8, <1>9, <1>10, <1>11
     DEF Acts, Installing, Uninstalling

\* What a process does to the owners: things become its own or nobody's, and when it starts
\* anew what it made before is corpus's.
LEMMA Owners ==
  ASSUME Typed, NEW p \in Procs, Acts(p)
  PROVE  /\ owner' \in [Things -> Procs \cup {Nobody, Operator, Corpus}]
         /\ \A t \in Things : \/ owner'[t] = owner[t] \/ owner'[t] = Nobody
                              \/ owner'[t] = p /\ pc[p] # "idle" /\ (t = "unit" => pc[p] = "unit")
                              \/ StartInit(p) /\ owner[t] = p /\ owner'[t] = Corpus
<1> USE DEF Typed, HostTyped, LocalsTyped, Things, Make, Throws, Returns, MayLand, host
<1>1. CASE StartInit(p)
  BY <1>1 DEF StartInit
<1>2. CASE Preflight(p) \/ BringUp(p) \/ Sqlite(p) \/ Toml(p) \/ SeedTerms(p)
  BY <1>2 DEF Preflight, BringUp, Sqlite, Toml, SeedTerms
<1>3. CASE Register(p) \/ Provision(p) \/ WriteUnit(p) \/ LoadUnit(p) \/ WriteReceipt(p)
  BY <1>3 DEF Register, Provision, Apply, WriteUnit, LoadUnit, WriteReceipt
<1>4. CASE Undo(p) \/ Reverse(p)
  BY <1>4 DEF Undo, Reverse, Remove, Unapply, RemoveUnit, Wipe
<1>5. CASE Forget(p) \/ Expire(p) \/ SmokeTest(p) \/ Crash(p)
  BY <1>5 DEF Forget, Expire, SmokeTest, Spawn, Drop, Crash
<1>6. CASE StartUninstall(p, FALSE) \/ StartUninstall(p, TRUE) \/ StopDaemon(p) \/ Reversed(p)
           \/ Mark(p)
  BY <1>6 DEF StartUninstall, StopDaemon, Reversed, Mark
<1>7. CASE Purge(p)
  BY <1>7 DEF Purge, Wipe
<1> QED
  BY <1>1, <1>2, <1>3, <1>4, <1>5, <1>6, <1>7 DEF Acts, Installing, Uninstalling

LEMMA HostKept ==
  ASSUME Typed, [Next]_vars
  PROVE  HostTyped'
<1> USE DEF Typed, HostTyped, LocalsTyped, Throws, Returns, bounds, service, rest, host, locals
<1>1. MaxFaults \in Nat /\ MaxCrashes \in Nat /\ MaxInits \in Nat
  BY InstallAssumption
<1>0. \A call : Fault(call) => faults' \in 0 .. MaxFaults
  BY <1>1 DEF Fault
<1>2. CASE UNCHANGED vars
  BY <1>2 DEF vars
<1>3. CASE HostActs
  <2>1. CASE Reboot
    <3>1. owner' \in [Things -> Procs \cup {Nobody, Operator, Corpus}]
      BY <2>1 DEF Reboot
    <3>2. crashes' \in 0 .. MaxCrashes
      BY <1>1, <2>1 DEF Reboot
    <3> QED BY <2>1, <3>1, <3>2 DEF Reboot, Is
  <2>2. CASE StartDaemon \/ BuildEdges \/ Prepare \/ LoseIndex
    BY <2>2 DEF StartDaemon, BuildEdges, Prepare, LoseIndex, Absent, Receipts
  <2> QED BY <1>3, <2>1, <2>2 DEF HostActs
<1>4. ASSUME NEW p \in Procs, Acts(p) PROVE HostTyped'
  <2>1. owner' \in [Things -> Procs \cup {Nobody, Operator, Corpus}]
    BY <1>4, Owners
  <2>2. CASE StartInit(p) \/ Crash(p)
    <3>1. crashes' \in 0 .. MaxCrashes /\ inits' \in 0 .. MaxInits
      BY <1>1, <2>2 DEF StartInit, Crash
    <3> QED BY <2>1, <2>2, <3>1 DEF StartInit, Crash
  <2>3. CASE Preflight(p) \/ BringUp(p) \/ Sqlite(p) \/ Toml(p) \/ SeedTerms(p) \/ Register(p)
    BY <1>0, <1>1, <2>1, <2>3 DEF Preflight, BringUp, Sqlite, Toml, SeedTerms, Register
  <2>4. CASE Provision(p)
    BY <1>0, <1>1, <2>1, <2>4 DEF Provision, Unseen, Apply, AppendRule, LoadAnchor
  <2>5. CASE WriteUnit(p) \/ LoadUnit(p)
    <3>1. /\ faults' \in 0 .. MaxFaults
          /\ UNCHANGED <<rules, base, index, receipt, log, crashes, inits>>
      BY <1>0, <2>5 DEF WriteUnit, LoadUnit
    <3>2. /\ {loaded', pid'} \subseteq BOOLEAN
          /\ daemon' \in Procs \cup {Nobody, Operator, Corpus, "unit"}
      BY <2>5 DEF WriteUnit, LoadUnit, Enable
    <3> QED BY <2>1, <3>1, <3>2
  <2>6. CASE WriteReceipt(p)
    <3>1. Receipt(p) \in Receipts
      BY DEF Receipt, Receipts
    <3> QED BY <1>0, <1>1, <2>1, <2>6, <3>1 DEF WriteReceipt
  <2>7. CASE Undo(p) \/ Forget(p) \/ Reverse(p)
    <3> DEFINE Same == UNCHANGED <<loaded, base, index, receipt, service>>
    <3>1. ASSUME NEW t, Remove(t) PROVE UNCHANGED rules /\ Same
      BY <3>1 DEF Remove
    <3>2. ASSUME CanUnapply, Unapply PROVE rules' \in Nat /\ Same
      BY <3>2 DEF CanUnapply, Unapply
    <3>3. ASSUME RemoveUnit
          PROVE  /\ {loaded', pid'} \subseteq BOOLEAN
                 /\ daemon' \in Procs \cup {Nobody, Operator, Corpus, "unit"}
                 /\ UNCHANGED <<rules, base, index, receipt, log>>
                 /\ UNCHANGED faults \/ Fault("disable")
      BY <3>3 DEF RemoveUnit
    <3>4. ASSUME Wipe
          PROVE  /\ {loaded', base', index', pid'} \subseteq BOOLEAN /\ receipt' \in Receipts
                 /\ log' \subseteq {Written} /\ UNCHANGED <<rules, daemon>>
      BY <3>4, AbsentIsReceipt DEF Wipe
    <3>5. CASE Undo(p)
      BY <1>0, <2>1, <3>1, <3>2, <3>3, <3>4, <3>5 DEF Undo
    <3>6. CASE Reverse(p)
      BY <1>0, <2>1, <3>1, <3>2, <3>3, <3>6 DEF Reverse
    <3>7. CASE Forget(p)
      BY <2>1, <3>7, AbsentIsReceipt DEF Forget
    <3> QED BY <2>7, <3>5, <3>6, <3>7
  <2>8. CASE Expire(p) \/ SmokeTest(p)
    BY <1>0, <1>1, <2>1, <2>8 DEF Expire, SmokeTest, Spawn, Drop, Unsmoked, StopRunning, Running
  <2>9. CASE StartUninstall(p, FALSE) \/ StartUninstall(p, TRUE) \/ StopDaemon(p) \/ Reversed(p)
    BY <1>0, <1>1, <2>1, <2>9 DEF StartUninstall, StopDaemon, Reversed, StopRunning, Running
  <2>10. CASE Mark(p)
    <3>1. [lists[p] EXCEPT !.gone = TRUE] \in Receipts
      BY DEF Receipts
    <3> QED BY <1>0, <1>1, <2>1, <2>10, <3>1 DEF Mark
  <2>11. CASE Purge(p)
    BY <2>1, <2>11, AbsentIsReceipt DEF Purge, Wipe
  <2> QED
    BY <1>4, <2>2, <2>3, <2>4, <2>5, <2>6, <2>7, <2>8, <2>9, <2>10, <2>11
       DEF Acts, Installing, Uninstalling
<1> QED BY <1>2, <1>3, <1>4, Actors

LEMMA AlwaysTyped == Spec => []Typed
<1>1. Init => Typed
  <2> SUFFICES ASSUME Init PROVE Typed
    OBVIOUS
  <2>1. 0 \in 0 .. MaxFaults /\ 0 \in 0 .. MaxCrashes /\ 0 \in 0 .. MaxInits
    BY InstallAssumption
  <2>2. PICK has \in Hosts :
          /\ owner = [t \in Things |-> IF t \in has THEN Operator ELSE Nobody]
          /\ base = ("data" \in has)
          /\ rules = IF "rule" \in has THEN 1 ELSE 0
    BY DEF Init
  <2>3. owner \in [Things -> Procs \cup {Nobody, Operator, Corpus}] /\ rules \in Nat
    BY <2>2
  <2>4. base \in BOOLEAN
    BY <2>2
  <2>5. HostTyped
    BY <2>1, <2>3, <2>4, AbsentIsReceipt DEF Init, HostTyped
  <2>6. LocalsTyped
    BY AbsentIsReceipt DEF Init, LocalsTyped, Points
  <2> QED BY <2>5, <2>6 DEF Typed
<1>2. Typed /\ [Next]_vars => Typed'
  <2> SUFFICES ASSUME Typed, [Next]_vars PROVE LocalsTyped'
    BY HostKept DEF Typed
  <2>1. CASE HostActs \/ UNCHANGED vars
    BY <2>1 DEF HostActs, StartDaemon, BuildEdges, Reboot, Prepare, LoseIndex, vars, locals,
         Typed, LocalsTyped
  <2> QED BY <2>1, LocalsKept, Actors
<1> QED BY <1>1, <1>2, PTL DEF Spec

\* Every variable of the installer keeps its type, for any commands and hosts.
THEOREM TypeCorrect == Spec => []TypeOK
<1>1. Typed => TypeOK
  BY DEF Typed, HostTyped, LocalsTyped, TypeOK
<1> QED BY <1>1, AlwaysTyped, PTL

----------------------------------------------------------------------------
(* The receipt *)

Needed == {"data", "mcp", "rule"} \cup (IF Autostart THEN {"unit"} ELSE {})

\* What the steps before each program point have recorded.
Provided(p) ==
  /\ pc[p] \in {"sqlite", "toml", "seed", "mcp", "rule", "unit", "load", "receipt"} =>
       "data" \in done[p]
  /\ pc[p] \in {"rule", "unit", "load", "receipt"} => "mcp" \in done[p]
  /\ pc[p] \in {"unit", "load", "receipt"} => "rule" \in done[p]
  /\ pc[p] = "receipt" /\ Autostart => "unit" \in done[p]
  /\ pc[p] \in {"unit", "load"} => Autostart
  /\ pc[p] \in {"daemon", "reverse", "mark"} => Valid(lists[p]) /\ Needed \subseteq lists[p].lists

Listed ==
  /\ Valid(receipt) => Needed \subseteq receipt.lists
  /\ owner["unit"] \in Ours => Autostart

LEMMA ProvidedKept ==
  ASSUME Typed, Listed, NEW p \in Procs, Provided(p), Acts(p)
  PROVE  Provided(p)'
<1> USE DEF Typed, LocalsTyped, Provided, Goto, Record, Returns, Throws, bounds, rest
<1>1. ASSUME pc'[p] \in {"idle", "preflight", "undo", "spawn", "drop", "purge"} PROVE Provided(p)'
  BY <1>1
<1>2. CASE StartInit(p) \/ Crash(p) \/ Undo(p) \/ Forget(p) \/ Mark(p) \/ Purge(p) \/ SmokeTest(p)
  BY <1>1, <1>2 DEF StartInit, Crash, Undo, Forget, Mark, Purge, SmokeTest, Spawn, Drop, Unsmoked,
       End
<1>3. CASE Preflight(p) \/ BringUp(p) \/ Sqlite(p) \/ Toml(p) \/ SeedTerms(p) \/ Register(p)
  BY <1>3 DEF Preflight, BringUp, Sqlite, Toml, SeedTerms, Register
<1>4. CASE Provision(p)
  BY <1>4 DEF Provision
<1>5. CASE WriteUnit(p) \/ LoadUnit(p)
  BY <1>5 DEF WriteUnit, LoadUnit
<1>6. CASE WriteReceipt(p)
  BY <1>6 DEF WriteReceipt, End
<1>7. CASE Expire(p)
  BY <1>7 DEF Expire
<1>8. ASSUME NEW all \in BOOLEAN, StartUninstall(p, all) PROVE Provided(p)'
  BY <1>8 DEF StartUninstall, End, Listed
<1>9. CASE StopDaemon(p) \/ Reverse(p) \/ Reversed(p)
  BY <1>9 DEF StopDaemon, Reverse, Reversed, End
<1> QED
  BY <1>2, <1>3, <1>4, <1>5, <1>6, <1>7, <1>8, <1>9 DEF Acts, Installing, Uninstalling

\* Only a complete receipt is written, and only an uninstall with a valid one marks it.
LEMMA ListedKept ==
  ASSUME Typed, Listed, \A p \in Procs : Provided(p), [Next]_vars
  PROVE  Listed'
<1> USE DEF Typed, HostTyped, LocalsTyped, Listed, Valid
<1>1. owner'["unit"] \in Ours => Autostart
  <2>1. CASE HostActs \/ UNCHANGED vars
    BY <2>1, InstallAssumption DEF HostActs, StartDaemon, BuildEdges, Reboot, Prepare, LoseIndex,
       vars, host, Things
  <2>2. ASSUME NEW p \in Procs, Acts(p) PROVE owner'["unit"] \in Ours => Autostart
    BY <2>2, Owners, InstallAssumption DEF Things, Ours, Provided, Nobody, Corpus
  <2> QED BY <2>1, <2>2, Actors
<1>2. UNCHANGED receipt \/ ~Valid(receipt') => Listed'
  BY <1>1
<1>3. ASSUME NEW p \in Procs, WriteReceipt(p) PROVE Listed'
  <2>1. Needed \subseteq done[p] \ {"toml"}
    BY <1>3 DEF WriteReceipt, Provided, Needed
  <2> QED BY <1>1, <1>2, <1>3, <2>1 DEF WriteReceipt, Receipt
<1>4. ASSUME NEW p \in Procs, Mark(p) PROVE Listed'
  <2>1. [lists[p] EXCEPT !.gone = TRUE].lists = lists[p].lists
    BY DEF Receipts
  <2> QED BY <1>1, <1>2, <1>4, <2>1 DEF Mark, Provided
<1>5. ASSUME NEW p \in Procs, Undo(p) \/ Forget(p) \/ Purge(p) \/ Reverse(p) PROVE Listed'
  BY <1>2, <1>5
     DEF Undo, Forget, Purge, Reverse, Wipe, Remove, Unapply, RemoveUnit, Absent, host
<1>6. ASSUME NEW p \in Procs,
             \/ StartInit(p) \/ Preflight(p) \/ BringUp(p) \/ Sqlite(p) \/ Toml(p) \/ SeedTerms(p)
             \/ Register(p) \/ Provision(p) \/ WriteUnit(p) \/ LoadUnit(p) \/ Expire(p)
             \/ SmokeTest(p) \/ StartUninstall(p, FALSE) \/ StartUninstall(p, TRUE)
             \/ StopDaemon(p) \/ Reversed(p) \/ Crash(p)
      PROVE  Listed'
  BY <1>2, <1>6 DEF StartInit, Preflight, BringUp, Sqlite, Toml, SeedTerms, Register, Provision,
       WriteUnit, LoadUnit, Expire, SmokeTest, Spawn, Drop, StartUninstall, StopDaemon, Reversed,
       Crash, host
<1>7. CASE HostActs \/ UNCHANGED vars
  BY <1>2, <1>7 DEF HostActs, StartDaemon, BuildEdges, Reboot, Prepare, LoseIndex, Absent, vars,
     host
<1> QED
  BY <1>3, <1>4, <1>5, <1>6, <1>7, Actors DEF Acts, Installing, Uninstalling

LEMMA AlwaysProvided == Spec => [](Listed /\ \A p \in Procs : Provided(p))
<1> DEFINE All == \A p \in Procs : Provided(p)
<1>1. Init => Listed /\ All
  BY InstallAssumption
     DEF Init, Listed, Provided, Absent, Valid, Ours, Nobody, Operator, Corpus, Things
<1>2. ASSUME Typed, Listed, All, [Next]_vars PROVE All'
  <2> SUFFICES ASSUME NEW q \in Procs PROVE Provided(q)'
    OBVIOUS
  <2>1. UNCHANGED Mine(q) => Provided(q)'
    BY <1>2 DEF Mine, Provided
  <2>2. CASE HostActs \/ UNCHANGED vars
    BY <2>1, <2>2 DEF HostActs, StartDaemon, BuildEdges, Reboot, Prepare, LoseIndex, vars, locals,
       Mine
  <2>3. ASSUME NEW p \in Procs, Acts(p) PROVE Provided(q)'
    BY <1>2, <2>1, <2>3, LocalsKept, ProvidedKept
  <2> QED BY <1>2, <2>2, <2>3, Actors
<1>3. ASSUME Typed, Listed, All, [Next]_vars PROVE Listed'
  BY <1>3, ListedKept
<1> QED BY <1>1, <1>2, <1>3, AlwaysTyped, PTL DEF Spec

\* WriteInstallReceipt: a receipt that is not marked names whatever corpus made outside of
\* config.toml, also what killed and failed commands left, for any number of commands at
\* once: every step records what it finds in place as it does what it makes
\* (install-command.ts).
THEOREM ReceiptsAreComplete == Spec => []ReceiptComplete
<1>1. Typed /\ Listed => ReceiptComplete
  BY DEF Typed, HostTyped, Listed, ReceiptComplete, Needed, Active, Things
<1> QED BY <1>1, AlwaysTyped, AlwaysProvided, PTL

----------------------------------------------------------------------------
(* Taking back *)

\* The firewall rule is never there twice: a pf anchor is replaced, and iptables appends
\* only when the probe finds none.
OneRule == Platform = "macos" \/ "probe" \notin FailAt
OneCopy == rules \in {0, 1} /\ (rules = 0 => owner["rule"] = Nobody)

LEMMA CopyKept ==
  ASSUME OneRule, Typed, OneCopy, [Next]_vars
  PROVE  OneCopy'
<1> USE DEF Typed, HostTyped, LocalsTyped, OneCopy, Things, Throws, Returns, bounds, service, rest,
       host, locals
<1>1. CASE HostActs \/ UNCHANGED vars
  BY <1>1 DEF HostActs, StartDaemon, BuildEdges, Reboot, Prepare, LoseIndex, vars
<1>2. ASSUME NEW p \in Procs, Acts(p) PROVE OneCopy'
  <2>0. UNCHANGED rules /\ owner'["rule"] \in {owner["rule"], Nobody} => OneCopy'
    OBVIOUS
  <2>1. CASE StartInit(p)
    BY <2>1, InstallAssumption DEF StartInit, Nobody
  <2>2. CASE Preflight(p) \/ BringUp(p) \/ Sqlite(p) \/ Toml(p) \/ SeedTerms(p) \/ Register(p)
    BY <2>2 DEF Preflight, BringUp, Sqlite, Toml, SeedTerms, Register, MayLand, Make
  <2>3. CASE Provision(p)
    <3>1. ASSUME Unseen, Apply(p) PROVE OneCopy'
      <4>1. rules' = 1
        BY <3>1, InstallAssumption
           DEF OneRule, Unseen, Fault, Apply, AppendRule, LoadAnchor
      <4> QED BY <4>1
    <3> QED BY <2>3, <3>1 DEF Provision
  <2>4. CASE WriteUnit(p) \/ LoadUnit(p) \/ WriteReceipt(p)
    BY <2>4 DEF WriteUnit, LoadUnit, WriteReceipt, Make
  <2>5. CASE Undo(p) \/ Reverse(p)
    <3>1. ASSUME CanUnapply, Unapply PROVE OneCopy'
      BY <3>1 DEF CanUnapply, Unapply
    <3>2. ASSUME NEW t \in {"mcp", "toml"}, Remove(t) PROVE OneCopy'
      BY <3>2 DEF Remove
    <3>3. RemoveUnit \/ Wipe => OneCopy'
      BY DEF RemoveUnit, Wipe
    <3> QED BY <2>5, <3>1, <3>2, <3>3 DEF Undo, Reverse
  <2>6. CASE Forget(p) \/ Expire(p) \/ SmokeTest(p) \/ Crash(p) \/ Mark(p) \/ Purge(p)
    BY <2>6 DEF Forget, Expire, SmokeTest, Spawn, Drop, Crash, Mark, Purge, Wipe
  <2>7. CASE StartUninstall(p, FALSE) \/ StartUninstall(p, TRUE) \/ StopDaemon(p) \/ Reversed(p)
    BY <2>7 DEF StartUninstall, StopDaemon, Reversed
  <2> QED
    BY <1>2, <2>1, <2>2, <2>3, <2>4, <2>5, <2>6, <2>7 DEF Acts, Installing, Uninstalling
<1> QED BY <1>1, <1>2, Actors

LEMMA AlwaysOneCopy ==
  ASSUME OneRule
  PROVE  Spec => []OneCopy
<1>1. Init => OneCopy
  BY DEF Init, OneCopy, Things
<1>2. Typed /\ OneCopy /\ [Next]_vars => OneCopy'
  BY CopyKept
<1> QED BY <1>1, <1>2, AlwaysTyped, PTL DEF Spec

\* What an init that runs has made is what it has recorded, but for the unit that it has
\* written and not loaded; and when it has failed there is nothing of its own.
Recorded(p) ==
  /\ pc[p] \in Steps \cup {"undo"} /\ ~expired[p] =>
       \A t \in Things : owner[t] = p => t \in done[p] \/ (pc[p] = "load" /\ t = "unit")
  /\ pc[p] = "idle" /\ result[p] = "undone" /\ ~expired[p] => \A t \in Things : owner[t] # p

LEMMA RecordedKept ==
  ASSUME {"undo", "reread"} \cap FailAt = {}, OneRule, Typed, OneCopy,
         NEW p \in Procs, Provided(p), Recorded(p), Acts(p)
  PROVE  Recorded(p)'
<1> USE DEF Typed, HostTyped, LocalsTyped, Steps, Things, Goto, Record, Returns, Throws, Make,
       bounds, rest, host, service
<1>0. p \notin {Nobody, Operator, Corpus}
  BY InstallAssumption
<1>1. ASSUME pc'[p] \notin Steps \cup {"undo", "idle"} PROVE Recorded(p)'
  BY <1>1 DEF Recorded
<1>2. ASSUME NEW r \in {"ok", "already", "unsmoked", "failed", "killed"}, End(p, r)
      PROVE  Recorded(p)'
  BY <1>2 DEF End, Recorded
<1>3. CASE StartInit(p)
  <2>1. CASE End(p, "already")
    BY <1>2, <2>1
  <2>2. CASE pc' = [pc EXCEPT ![p] = "preflight"]
             /\ owner' = [t \in Things |-> IF owner[t] = p THEN Corpus ELSE owner[t]]
    BY <1>0, <2>2 DEF Recorded
  <2> QED BY <1>3, <2>1, <2>2 DEF StartInit
<1>4. ASSUME UNCHANGED <<owner, expired>>, pc[p] \in Steps \ {"load"},
             pc'[p] \in (Steps \ {"load"}) \cup {"undo"}, done[p] \subseteq done'[p]
      PROVE  Recorded(p)'
  BY <1>4 DEF Recorded
<1>5. CASE Preflight(p) \/ Sqlite(p)
  BY <1>4, <1>5 DEF Preflight, Sqlite
<1>6. CASE BringUp(p) \/ Toml(p) \/ SeedTerms(p)
  BY <1>6 DEF BringUp, Toml, SeedTerms, MayLand, Recorded, Provided
<1>7. CASE Register(p)
  BY <1>7 DEF Register, MayLand, Recorded, Fault
<1>8. CASE Provision(p)
  BY <1>8 DEF Provision, Apply, Recorded
<1>9. CASE WriteUnit(p)
  BY <1>9 DEF WriteUnit, Recorded
<1>10. CASE LoadUnit(p)
  BY <1>0, <1>10 DEF LoadUnit, Recorded
<1>11. CASE WriteReceipt(p)
  BY <1>1, <1>2, <1>4, <1>11 DEF WriteReceipt
<1>12. CASE Undo(p)
  <2>1. PICK t :
          /\ \/ t \in {"mcp", "toml"} /\ Remove(t)
             \/ t = "rule" /\ CanUnapply /\ Unapply
             \/ t = "rule" /\ ~CanUnapply /\ UNCHANGED host
             \/ t = "unit" /\ RemoveUnit
             \/ t = "data" /\ Wipe
             \/ Fault("undo") /\ UNCHANGED host
          /\ done' = [done EXCEPT ![p] = @ \ {t}]
    BY <1>12 DEF Undo
  <2>2. t \in Things => owner'[t] = Nobody
    <3>1. CASE t \in {"mcp", "toml"} /\ Remove(t)
      BY <3>1 DEF Remove
    <3>2. CASE t = "rule" /\ CanUnapply /\ Unapply
      <4>1. rules' = 0
        BY <3>2 DEF CanUnapply, Unapply, OneCopy
      <4> QED BY <3>2, <4>1 DEF Unapply
    <3>3. CASE t = "rule" /\ ~CanUnapply /\ UNCHANGED host
      BY <3>3 DEF CanUnapply, OneCopy
    <3>4. CASE t = "unit" /\ RemoveUnit
      BY <3>4 DEF RemoveUnit
    <3>5. CASE t = "data" /\ Wipe
      BY <3>5 DEF Wipe
    <3> QED BY <2>1, <3>1, <3>2, <3>3, <3>4, <3>5 DEF Fault
  <2>3. \A u \in Things : owner'[u] = p => owner[u] = p
    BY <1>0, <2>1 DEF Remove, Unapply, RemoveUnit, Wipe
  <2>4. pc[p] = "undo" /\ UNCHANGED <<pc, expired>> /\ done'[p] = done[p] \ {t}
    BY <1>12, <2>1 DEF Undo
  <2> QED BY <1>0, <2>2, <2>3, <2>4 DEF Recorded
<1>13. CASE Forget(p)
  BY <1>13 DEF Forget, End, Recorded
<1>14. CASE Expire(p)
  BY <1>14 DEF Expire, Recorded
<1>15. CASE SmokeTest(p) \/ Crash(p) \/ Mark(p) \/ Purge(p)
  BY <1>1, <1>2, <1>15 DEF SmokeTest, Spawn, Drop, Unsmoked, Crash, Mark, Purge
<1>16. ASSUME NEW all \in BOOLEAN, StartUninstall(p, all) PROVE Recorded(p)'
  BY <1>1, <1>2, <1>16 DEF StartUninstall
<1>17. CASE StopDaemon(p) \/ Reverse(p) \/ Reversed(p)
  BY <1>1, <1>2, <1>17 DEF StopDaemon, Reverse, Reversed
<1> QED
  BY <1>3, <1>5, <1>6, <1>7, <1>8, <1>9, <1>10, <1>11, <1>12, <1>13, <1>14, <1>15, <1>16, <1>17
     DEF Acts, Installing, Uninstalling

\* runPipeline and rollbackPartialInstall: what an init made is gone when it has failed within
\* its budget, for any number of commands at once, whatever calls fail: unless a call of the
\* rollback does, or one that has had its effect, or the rule was made twice because the
\* probe of iptables did not see it.
THEOREM FailedInitsUndone ==
  ASSUME {"undo", "reread"} \cap FailAt = {}, OneRule
  PROVE  Spec => []FailedInitUndone
<1> DEFINE All == \A p \in Procs : Recorded(p)
<1>1. Init => All
  BY InstallAssumption DEF Init, Recorded, Steps, None
<1>2. ASSUME Typed, OneCopy, \A p \in Procs : Provided(p), All, [Next]_vars PROVE All'
  <2> SUFFICES ASSUME NEW q \in Procs PROVE Recorded(q)'
    OBVIOUS
  <2>1. ASSUME UNCHANGED Mine(q), \A t \in Things : owner'[t] = q => owner[t] = q
        PROVE  Recorded(q)'
    BY <1>2, <2>1 DEF Mine, Recorded
  <2>2. CASE HostActs \/ UNCHANGED vars
    <3>1. UNCHANGED Mine(q)
      BY <2>2 DEF HostActs, StartDaemon, BuildEdges, Reboot, Prepare, LoseIndex, vars, locals, Mine
    <3>2. \A t \in Things : owner'[t] = q => owner[t] = q
      BY <1>2, <2>2, InstallAssumption DEF HostActs, StartDaemon, BuildEdges, Reboot, Prepare,
         LoseIndex, vars, host, Typed, HostTyped, Things
    <3> QED BY <2>1, <3>1, <3>2
  <2>3. ASSUME NEW p \in Procs, Acts(p), p # q PROVE Recorded(q)'
    <3>1. \A t \in Things : owner'[t] = q => owner[t] = q
      BY <1>2, <2>3, Owners, InstallAssumption
    <3> QED BY <1>2, <2>1, <2>3, <3>1, LocalsKept
  <2> QED BY <1>2, <2>2, <2>3, RecordedKept, Actors
<1>3. All => FailedInitUndone
  BY DEF Recorded, FailedInitUndone
<1> HIDE DEF All
<1> QED BY <1>1, <1>2, <1>3, AlwaysTyped, AlwaysOneCopy, AlwaysProvided, PTL DEF Spec

\* What is left of the rule and the unit is what the uninstall that runs has still to do.
Reversing(p) ==
  /\ pc[p] \in {"daemon", "reverse", "mark"} =>
       /\ rules = 0 \/ (pc[p] # "mark" /\ "rule" \in done[p])
       /\ owner["unit"] \notin Ours \/ (pc[p] # "mark" /\ "unit" \in done[p])
  /\ pc[p] \in {"spawn", "drop"} => ~receipt.gone
  /\ pc[p] = "idle" /\ result[p] = "ok" /\ Valid(receipt) /\ receipt.gone =>
       rules = 0 /\ owner["unit"] \notin Ours

LEMMA ReversingKept ==
  ASSUME Typed, OneCopy, Listed, NEW p \in Procs, Reversing(p), Acts(p)
  PROVE  Reversing(p)'
<1> USE DEF Typed, HostTyped, LocalsTyped, Things, Goto, Record, Returns, Throws, bounds, rest,
       host, service
<1>1. ASSUME pc'[p] \notin {"daemon", "reverse", "mark", "spawn", "drop", "idle"}
      PROVE  Reversing(p)'
  BY <1>1 DEF Reversing
<1>2. ASSUME NEW r \in {"already", "undone", "unsmoked", "failed", "killed"}, End(p, r)
      PROVE  Reversing(p)'
  BY <1>2 DEF End, Reversing
<1>3. ASSUME End(p, "ok"), ~(Valid(receipt') /\ receipt'.gone) PROVE Reversing(p)'
  BY <1>3 DEF End, Reversing
<1>4. CASE StartInit(p) \/ Crash(p) \/ Forget(p)
  BY <1>1, <1>2, <1>4 DEF StartInit, Crash, Forget
<1>5. CASE Preflight(p) \/ BringUp(p) \/ Sqlite(p) \/ Toml(p) \/ SeedTerms(p) \/ Register(p)
  BY <1>1, <1>5 DEF Preflight, BringUp, Sqlite, Toml, SeedTerms, Register
<1>6. CASE Provision(p) \/ WriteUnit(p) \/ LoadUnit(p) \/ Undo(p)
  BY <1>1, <1>6 DEF Provision, WriteUnit, LoadUnit, Undo
<1>7. CASE WriteReceipt(p)
  BY <1>1, <1>3, <1>7 DEF WriteReceipt, Receipt, Reversing
<1>8. CASE Expire(p)
  BY <1>1, <1>8 DEF Expire, Steps
<1>9. CASE SmokeTest(p)
  <2>1. CASE Spawn(p)
    BY <1>2, <2>1 DEF Spawn, Reversing
  <2>2. CASE Drop(p)
    <3>1. ~receipt.gone /\ UNCHANGED receipt
      BY <2>2 DEF Drop, Reversing
    <3> QED BY <1>2, <1>3, <2>2, <3>1 DEF Drop, Unsmoked
  <2> QED BY <1>9, <2>1, <2>2 DEF SmokeTest
<1>10. ASSUME NEW all \in BOOLEAN, StartUninstall(p, all) PROVE Reversing(p)'
  <2>1. CASE Goto(p, "daemon") /\ Valid(receipt)
             /\ done' = [done EXCEPT ![p] = receipt.lists \cap DOMAIN ReverseOrder]
    <3>1. "rule" \in done'[p] /\ (Autostart => "unit" \in done'[p])
      BY <2>1 DEF ReverseOrder, Listed, Needed
    <3>2. UNCHANGED owner /\ pc'[p] = "daemon"
      BY <1>10, <2>1 DEF StartUninstall
    <3> QED BY <3>1, <3>2 DEF Listed, Reversing
  <2> QED BY <1>1, <1>2, <1>10, <2>1 DEF StartUninstall
<1>11. CASE StopDaemon(p)
  BY <1>2, <1>11 DEF StopDaemon, Reversing
<1>12. CASE Reverse(p)
  <2>1. CASE End(p, "failed")
    BY <1>2, <2>1
  <2>2. ASSUME NEW t,
               \/ t = "mcp" /\ Remove(t)
               \/ t = "mcp" /\ UNCHANGED host
               \/ t = "rule" /\ CanUnapply /\ Unapply
               \/ t = "unit" /\ RemoveUnit,
               done' = [done EXCEPT ![p] = @ \ {t}], UNCHANGED pc, pc[p] = "reverse"
        PROVE  Reversing(p)'
    <3>1. \/ rules' = 0
          \/ rules' = rules /\ t # "rule"
      BY <2>2 DEF Remove, Unapply, CanUnapply, OneCopy, RemoveUnit
    <3>2. \/ owner'["unit"] = Nobody
          \/ owner'["unit"] = owner["unit"] /\ t # "unit"
      BY <2>2 DEF Remove, Unapply, RemoveUnit
    <3>3. Nobody \notin Ours
      BY InstallAssumption DEF Ours, Nobody, Corpus
    <3>4. done'[p] = done[p] \ {t} /\ pc'[p] = "reverse"
      BY <2>2
    <3> QED BY <2>2, <3>1, <3>2, <3>3, <3>4 DEF Reversing
  <2> QED BY <1>12, <2>1, <2>2 DEF Reverse
<1>13. CASE Reversed(p)
  BY <1>1, <1>13 DEF Reversed, Reversing
<1>14. CASE Mark(p)
  <2>1. rules' = 0 /\ owner'["unit"] \notin Ours
    BY <1>14 DEF Mark, Reversing
  <2>2. pc'[p] = "idle"
    BY <1>14 DEF Mark, End
  <2> QED BY <2>1, <2>2 DEF Reversing
<1>15. CASE Purge(p)
  BY <1>3, <1>15 DEF Purge, Wipe, Absent
<1> QED
  BY <1>4, <1>5, <1>6, <1>7, <1>8, <1>9, <1>10, <1>11, <1>12, <1>13, <1>14, <1>15
     DEF Acts, Installing, Uninstalling

\* runUninstallCommand: once the receipt is marked, no rule and no unit of corpus is left,
\* whatever calls failed, commands were killed or hosts rebooted before it, when one command
\* runs at a time: the commands take no lock, and an init beside the uninstall can make the
\* rule anew. The rule must not have been made twice, for iptables deletes one.
THEOREM MarkedReceiptsReversed ==
  ASSUME OneRule, \A p, q \in Procs : p = q
  PROVE  Spec => []MarkedMeansReversed
<1> DEFINE All == \A p \in Procs : Reversing(p)
<1>1. Init => All
  BY DEF Init, Reversing, None
<1>2. ASSUME Typed, OneCopy, Listed, All, [Next]_vars PROVE All'
  <2> SUFFICES ASSUME NEW q \in Procs PROVE Reversing(q)'
    OBVIOUS
  <2>1. CASE HostActs \/ UNCHANGED vars
    <3>1. UNCHANGED Mine(q)
      BY <2>1 DEF HostActs, StartDaemon, BuildEdges, Reboot, Prepare, LoseIndex, vars, locals, Mine
    <3>2. rules' \in {0, rules} /\ owner'["unit"] = owner["unit"]
      BY <1>2, <2>1 DEF HostActs, StartDaemon, BuildEdges, Reboot, Prepare, LoseIndex, vars, host,
         Typed, HostTyped, Things
    <3>3. receipt' = receipt \/ (~Valid(receipt') /\ ~receipt'.gone)
      BY <2>1 DEF HostActs, StartDaemon, BuildEdges, Reboot, Prepare, LoseIndex, vars, host,
         Absent, Valid
    <3> QED BY <1>2, <3>1, <3>2, <3>3 DEF Reversing, Mine
  <2> QED BY <1>2, <2>1, ReversingKept, Actors
<1>3. All => MarkedMeansReversed
  BY DEF Reversing, MarkedMeansReversed, Ended
<1> HIDE DEF All
<1> QED BY <1>1, <1>2, <1>3, AlwaysTyped, AlwaysOneCopy, AlwaysProvided, PTL DEF Spec
=============================================================================
