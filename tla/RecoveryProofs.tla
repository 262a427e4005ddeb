--------------------------- MODULE RecoveryProofs ---------------------------
(***************************************************************************)
(* Theorems about the recovery scan, for any documents, any number of      *)
(* boots and kills, failing appends and sidecars, and a timeout anywhere.  *)
(*                                                                         *)
(* No property is inductive. LockKept adds what they rest on: a            *)
(* process in a pass holds the drain lock, and so does a scan until its    *)
(* timeout fires. Hence, before the timeout, no process is in a pass at    *)
(* all. InOrder adds how far the row is of the document a pass has *)
(* in hand, which nobody else touches.                                     *)
(***************************************************************************)
EXTENDS Recovery, TLAPS

Scanning == pc[Daemon] \in Scans /\ ~expired

LockTypeOK ==
  /\ pc \in [Procs -> Places]
  /\ holder \in Procs \cup {None}
  /\ expired \in BOOLEAN
BusyHolds == \A p \in Procs : pc[p] = "busy" => holder = p
ScanHolds == Scanning => holder = Daemon
OnlyScanExpires == expired => pc[Daemon] \in Scans

LockKept == LockTypeOK /\ BusyHolds /\ ScanHolds /\ OnlyScanExpires /\ ScanGivesBack

----------------------------------------------------------------------------
\* The steps of a pass keep the invariant: it begins only when the lock is free, and gives
\* back the lock it took.
LEMMA StageKeepsLock ==
  ASSUME LockKept, NEW p \in Procs, Stage(p)
  PROVE  LockKept'
<1> USE RecoveryAssumption
    DEF LockKept, LockTypeOK, BusyHolds, ScanHolds, OnlyScanExpires, ScanGivesBack, Scanning,
        Procs, Places, Scans, InHand
<1>1. CASE Begin(p)
  BY <1>1 DEF Begin, Free, Goto, scan
<1>2. CASE Pick(p)
  BY <1>2 DEF Pick, scan
<1>3. CASE Work(p)
  BY <1>3 DEF Work, DrainDoc, ClassifyDoc, RetrieveDoc, Advance, scan
<1>4. CASE Finish(p)
  BY <1>4 DEF Finish, Release, Goto, scan
<1> QED
  BY <1>1, <1>2, <1>3, <1>4 DEF Stage

\* Leaving the scan gives the lock back, whether it was held or lost to the timeout.
LEMMA LeaveKeepsLock ==
  ASSUME LockKept, pc[Daemon] \in Scans, LeaveScan
  PROVE  LockKept'
BY RecoveryAssumption
   DEF LockKept, LockTypeOK, BusyHolds, ScanHolds, OnlyScanExpires, ScanGivesBack, Scanning,
       Procs, Places, Scans, InHand, LeaveScan, ScanOver, Release, Goto

\* The steps of the boot keep the invariant.
LEMMA BootKeepsLock ==
  ASSUME LockKept, Boot
  PROVE  LockKept'
<1> USE RecoveryAssumption
    DEF LockKept, LockTypeOK, BusyHolds, ScanHolds, OnlyScanExpires, ScanGivesBack, Scanning,
        Procs, Places, Scans, InHand
<1>1. CASE EmitStarted
  BY <1>1 DEF EmitStarted, Goto, scan
<1>2. CASE BeginScan
  <2>1. CASE Free
    BY <1>2, <2>1 DEF BeginScan, AcquireForScan, Free, Goto
  <2>2. CASE ~Free
    BY <1>2, <2>2 DEF BeginScan, AcquireForScan, Free, Goto
  <2> QED BY <2>1, <2>2
<1>3. CASE ReadLog
  <2>1. CASE LeaveScan
    BY <1>3, <2>1, LeaveKeepsLock DEF ReadLog
  <2>2. CASE Goto(Daemon, "resolve") /\ UNCHANGED <<holder, expired>>
    BY <1>3, <2>2 DEF ReadLog, Goto
  <2> QED
    BY <1>3, <2>1, <2>2 DEF ReadLog
<1>4. ASSUME NEW o \in Orphans, TurnTo(o) PROVE LockKept'
  BY <1>4 DEF TurnTo, Goto
<1>5. CASE Report
  BY <1>5 DEF Report, Goto
<1>6. CASE Dispatch
  BY <1>6 DEF Dispatch, Goto, scan
<1>7. CASE WriteOff
  <2>1. CASE LeaveScan
    BY <1>7, <2>1, LeaveKeepsLock DEF WriteOff
  <2>2. CASE Goto(Daemon, "resolve") /\ UNCHANGED <<holder, expired>>
    BY <1>7, <2>2 DEF WriteOff, Goto
  <2> QED
    BY <1>7, <2>1, <2>2 DEF WriteOff
<1>8. CASE EndScan
  BY <1>8, LeaveKeepsLock DEF EndScan
<1>9. CASE InitFails
  BY <1>9 DEF InitFails, Goto, scan
<1> QED
  BY <1>1, <1>2, <1>3, <1>4, <1>5, <1>6, <1>7, <1>8, <1>9 DEF Boot

\* Every step keeps the invariant: the timeout and a kill release the lock as well.
LEMMA StepKeepsLock ==
  ASSUME LockKept, [Next]_vars
  PROVE  LockKept'
<1>1. ASSUME NEW p \in Procs, Stage(p) PROVE LockKept'
  BY <1>1, StageKeepsLock
<1>2. CASE Boot
  BY <1>2, BootKeepsLock
<1> USE RecoveryAssumption
    DEF LockKept, LockTypeOK, BusyHolds, ScanHolds, OnlyScanExpires, ScanGivesBack, Scanning,
        Procs, Places, Scans, InHand
<1>3. ASSUME NEW p \in Procs, Kill(p) PROVE LockKept'
  BY <1>3 DEF Kill, ScanOver, Release, Goto, scan
<1>4. CASE StartDaemon
  BY <1>4 DEF StartDaemon, Goto, scan
<1>5. CASE Expire
  BY <1>5 DEF Expire, Release
<1>6. ASSUME NEW d \in Docs, Drop(d) PROVE LockKept'
  BY <1>6 DEF Drop, scan
<1>7. CASE UNCHANGED vars
  BY <1>7 DEF vars
<1> QED
  BY <1>1, <1>2, <1>3, <1>4, <1>5, <1>6, <1>7 DEF Next

\* The lock is free before anything runs.
LEMMA InitHasLockFree == Init => LockKept
BY RecoveryAssumption
   DEF Init, LockKept, LockTypeOK, BusyHolds, ScanHolds, OnlyScanExpires, ScanGivesBack,
       Scanning, Procs, Places, Scans, InHand

\* A pass and a scan that has not timed out hold the drain lock, and the daemon holds it
\* for nothing else (recovery-scanner.ts:181, :534).
THEOREM ScanReturnsTheLock == Spec => [](LockKept /\ ScanGivesBack)
<1>1. LockKept => ScanGivesBack
  BY DEF LockKept
<1> QED
  BY <1>1, InitHasLockFree, StepKeepsLock, PTL DEF Spec

----------------------------------------------------------------------------
(* What the scan may be wrong about *)

\* Until the timeout nothing is wrong; from then on, only what is said of the orphan the
\* scan had in hand.
MistakeKept ==
  /\ mistaken # {} => pc[Daemon] \in Scans
  /\ pc[Daemon] \in InHand => mistaken \subseteq {cur}
  /\ OneMistake

\* Before the timeout the scan holds the drain lock, and so nothing is in progress.
LEMMA NothingRuns ==
  ASSUME LockKept, pc[Daemon] \in Scans, ~expired, NEW o
  PROVE  ~InProgress(o)
BY RecoveryAssumption
   DEF LockKept, LockTypeOK, BusyHolds, ScanHolds, Scanning, InProgress, Scans, InHand, Procs

\* A report or a sidecar adds at most the orphan in hand.
LEMMA JudgeKeeps ==
  ASSUME LockKept, MistakeKept, pc[Daemon] \in InHand, Judge, UNCHANGED <<cur, expired>>
  PROVE  mistaken' \subseteq {cur} /\ OneMistake'
<1>1. mistaken \subseteq {cur} /\ mistaken' \subseteq {cur}
  BY DEF MistakeKept, Judge
<1>2. CASE expired
  BY <1>1, <1>2 DEF OneMistake
<1>3. CASE ~expired
  <2>1. mistaken = {} /\ ~InProgress(cur)
    BY <1>3, NothingRuns DEF MistakeKept, OneMistake, Scans
  <2> QED BY <2>1, <1>1 DEF Judge, OneMistake
<1> QED BY <1>1, <1>2, <1>3

\* Elsewhere, nothing is added, and the daemon does not leave the scan or come to hold
\* another orphan.
LEMMA MistakesStay ==
  ASSUME MistakeKept, UNCHANGED mistaken, expired => expired',
         (pc'[Daemon] = pc[Daemon] /\ UNCHANGED cur) \/ mistaken = {}
  PROVE  MistakeKept'
BY DEF MistakeKept, OneMistake

LEMMA OverKeeps ==
  ASSUME ScanOver
  PROVE  MistakeKept'
BY DEF ScanOver, MistakeKept, OneMistake

LEMMA StepKeepsMistake ==
  ASSUME LockKept, MistakeKept, [Next]_vars
  PROVE  MistakeKept'
<1> USE RecoveryAssumption DEF Procs
<1>1. pc \in [Procs -> Places] /\ Daemon \in Procs
  BY DEF LockKept, LockTypeOK
<1>2. ASSUME NEW p \in Procs, Stage(p) PROVE MistakeKept'
  <2>1. UNCHANGED <<mistaken, cur, expired>>
    BY <1>2 DEF Stage, Begin, Pick, Work, DrainDoc, ClassifyDoc, RetrieveDoc, Advance, Finish,
         scan
  <2>2. pc[p] \in {"idle", "busy"}
    BY <1>2 DEF Stage, Begin, Pick, Work, DrainDoc, ClassifyDoc, RetrieveDoc, Advance, Finish
  <2>3. pc' = pc \/ \E w : pc' = [pc EXCEPT ![p] = w]
    BY <1>2 DEF Stage, Begin, Pick, Work, DrainDoc, ClassifyDoc, RetrieveDoc, Advance, Finish,
         Goto
  <2>4. pc'[Daemon] = pc[Daemon] \/ p = Daemon
    BY <1>1, <2>3
  <2>5. p = Daemon => mistaken = {}
    BY <2>2 DEF MistakeKept, Scans, InHand
  <2> QED BY <2>1, <2>4, <2>5, MistakesStay
<1>3. ASSUME NEW p \in Procs, Kill(p) PROVE MistakeKept'
  <2>1. CASE p = Daemon
    BY <1>3, <2>1, OverKeeps DEF Kill
  <2>2. CASE p # Daemon
    <3>1. UNCHANGED <<mistaken, cur, expired>> /\ pc'[Daemon] = pc[Daemon]
      BY <1>1, <1>3, <2>2 DEF Kill, Goto, scan
    <3> QED BY <3>1, MistakesStay
  <2> QED BY <2>1, <2>2
<1>4. CASE StartDaemon \/ InitFails \/ EmitStarted \/ BeginScan
  <2>1. UNCHANGED <<mistaken, cur, expired>> /\ pc[Daemon] \notin Scans
    BY <1>4 DEF StartDaemon, InitFails, EmitStarted, BeginScan, scan, Scans, InHand
  <2> QED BY <2>1, MistakesStay DEF MistakeKept
<1>5. CASE Expire
  BY <1>5, MistakesStay DEF Expire
<1>6. CASE ReadLog
  <2>1. CASE LeaveScan
    BY <2>1, OverKeeps DEF LeaveScan
  <2>2. CASE Goto(Daemon, "resolve") /\ UNCHANGED <<mistaken, expired>>
    <3>1. pc'[Daemon] = "resolve" /\ UNCHANGED <<mistaken, expired>>
      BY <1>1, <2>2 DEF Goto
    <3> QED BY <3>1 DEF MistakeKept, OneMistake, Scans, InHand
  <2> QED BY <1>6, <2>1, <2>2 DEF ReadLog
<1>7. ASSUME NEW o \in Orphans, TurnTo(o) PROVE MistakeKept'
  <2>1. mistaken = {} /\ UNCHANGED <<mistaken, expired>>
    BY <1>7 DEF TurnTo, MayTurn, MistakeKept, OneMistake
  <2> QED BY <2>1 DEF MistakeKept, OneMistake
<1>8. CASE Report
  <2>1. pc[Daemon] \in InHand /\ pc'[Daemon] = "dispatch" /\ UNCHANGED <<cur, expired>>
    BY <1>1, <1>8 DEF Report, Goto, InHand
  <2>2. mistaken' \subseteq {cur} /\ OneMistake'
    BY <1>8, <2>1, JudgeKeeps DEF Report, MistakeKept, OneMistake
  <2> QED BY <2>1, <2>2 DEF MistakeKept, Scans, InHand
<1>9. CASE Dispatch
  <2>1. pc[Daemon] \in InHand /\ UNCHANGED <<mistaken, cur, expired>>
        /\ pc'[Daemon] \in {"resolve", "sidecar"}
    BY <1>1, <1>9 DEF Dispatch, Goto, InHand, scan
  <2> QED BY <2>1 DEF MistakeKept, OneMistake, Scans, InHand
<1>10. CASE WriteOff
  <2>1. CASE LeaveScan
    BY <2>1, OverKeeps DEF LeaveScan
  <2>2. CASE Judge /\ Goto(Daemon, "resolve") /\ UNCHANGED <<expired, cur>>
    <3>1. pc[Daemon] \in InHand /\ pc'[Daemon] = "resolve"
      BY <1>1, <1>10, <2>2 DEF WriteOff, Goto, InHand
    <3>2. OneMistake'
      BY <2>2, <3>1, JudgeKeeps
    <3> QED BY <3>1, <3>2 DEF MistakeKept, Scans, InHand
  <2> QED BY <1>10, <2>1, <2>2 DEF WriteOff
<1>11. CASE EndScan
  BY <1>11, OverKeeps DEF EndScan, LeaveScan
<1>12. ASSUME NEW d \in Docs, Drop(d) PROVE MistakeKept'
  BY <1>12, MistakesStay DEF Drop, scan
<1>13. CASE UNCHANGED vars
  BY <1>13, MistakesStay DEF vars
<1> QED
  BY <1>2, <1>3, <1>4, <1>5, <1>6, <1>7, <1>8, <1>9, <1>10, <1>11, <1>12, <1>13 DEF Next, Boot

\* However the timeout, kills and failing calls fall between the calls of the scan: it is
\* wrong about one stage at most, and about none before its timeout
\* (recovery-scanner.ts:184, :426).
THEOREM AtMostOneMistake == Spec => [](MistakeKept /\ OneMistake)
<1>1. Init => MistakeKept
  BY DEF Init, MistakeKept, OneMistake
<1>2. MistakeKept => OneMistake
  BY DEF MistakeKept
<1>3. Spec => []LockKept
  BY ScanReturnsTheLock, PTL
<1> QED
  BY <1>1, <1>2, <1>3, StepKeepsMistake, PTL DEF Spec

----------------------------------------------------------------------------
(* One pass at a time *)

Jobs == [doc : Docs, at : Points] \cup {NoJob}
RowTypeOK == row \in [Docs -> {"none", "raw", "classified", "indexed"}] /\ job \in [Procs -> Jobs]

\* How far the row is of the document a pass has in hand.
AtHand(p) ==
  job[p] # NoJob =>
    /\ pc[p] = "busy"
    /\ job[p].at \in {"classify", "commit"} => row[job[p].doc] = "raw"
    /\ job[p].at \in {"classified", "embed", "embedded", "edges", "index", "txn"} =>
         row[job[p].doc] = "classified"

InOrder == RowTypeOK /\ \A p \in Procs : AtHand(p)

\* Two processes are not in a pass at the same time.
LEMMA OnePass ==
  ASSUME LockKept, NEW p \in Procs, NEW q \in Procs, pc[p] = "busy", pc[q] = "busy"
  PROVE  p = q
BY DEF LockKept, BusyHolds

\* The effects of a point on the rows.
LEMMA Effects ==
  ASSUME RowTypeOK, NEW d \in Docs, NEW pt, Effect(d, pt)
  PROVE  /\ \A e \in Docs \ {d} : row'[e] = row[e]
         /\ row'[d] = CASE pt = "take" /\ row[d] = "none" -> "raw"
                        [] pt = "commit" -> "classified"
                        [] pt = "txn" -> "indexed"
                        [] OTHER -> row[d]
         /\ row' \in [Docs -> {"none", "raw", "classified", "indexed"}]
<1>1. CASE pt = "take" /\ row[d] = "none"
  BY <1>1 DEF Effect, RowTypeOK
<1>2. CASE pt = "commit"
  BY <1>2 DEF Effect, RowTypeOK
<1>3. CASE pt = "txn"
  BY <1>3 DEF Effect, RowTypeOK
<1>4. CASE ~(pt = "take" /\ row[d] = "none") /\ pt # "commit" /\ pt # "txn"
  <2>1. row' = row
    BY <1>4 DEF Effect
  <2> QED BY <1>4, <2>1 DEF RowTypeOK
<1> QED BY <1>1, <1>2, <1>3, <1>4

\* Where the chains lead.
LEMMA Chains ==
  ASSUME NEW p \in Procs, NEW pt \in Points, NEW n \in Follow(p, pt)
  PROVE  /\ n \in Points \cup {"end"}
         /\ n # "classify"
         /\ n = "commit" => pt = "classify"
         /\ n = "classified" => pt = "commit"
         /\ n \in {"embed", "embedded", "edges", "index", "txn"} =>
              pt \in {"classified", "embed", "embedded", "edges", "index"}
<1>1. CASE n \in {"refused", "end", "embedfail", "edgefail", "indexfail"}
  BY <1>1 DEF Points, Ends
<1>2. CASE pt \in DOMAIN Good /\ n = Good[pt]
  BY <1>2 DEF Good, Points, Ends
<1>3. CASE pt = "classified" /\ n = "embed"
  BY <1>3 DEF Points, Good
<1>4. pt \in DOMAIN Bad /\ n \in Bad[pt] =>
        n \in {"refused", "end", "embedfail", "edgefail", "indexfail"}
  BY DEF Bad
<1> QED
  BY <1>1, <1>2, <1>3, <1>4 DEF Follow

\* The steps of one row are those of the corpus.
LEMMA RowSteps ==
  ASSUME NEW d \in Docs, row \in [Docs -> {"none", "raw", "classified", "indexed"}],
         row' \in [Docs -> {"none", "raw", "classified", "indexed"}],
         \A e \in Docs \ {d} : row'[e] = row[e],
         \/ row'[d] = row[d]
         \/ <<row[d], row'[d]>> \in {<<"none", "raw">>, <<"raw", "classified">>,
                                    <<"classified", "indexed">>}
  PROVE  [C!Next]_(C!store)
<1>1. CASE row'[d] = row[d]
  <2>1. row' = row
    BY <1>1
  <2> QED BY <2>1 DEF C!store, Known, Indexed, Facet
<1>2. CASE row[d] = "none" /\ row'[d] = "raw"
  <2>1. Known' = Known \cup {d} /\ d \notin Known
    BY <1>2 DEF Known
  <2>2. Indexed' = Indexed
    BY <1>2 DEF Indexed
  <2>3. Facet' = Facet
    BY <1>2 DEF Facet
  <2>4. C!Commit(d)
    BY <2>1, <2>2, <2>3 DEF C!Commit
  <2> QED BY <2>4 DEF C!Next
<1>3. CASE row[d] = "raw" /\ row'[d] = "classified"
  <2>1. Known' = Known /\ d \in Known
    BY <1>3 DEF Known
  <2>2. Indexed' = Indexed
    BY <1>3 DEF Indexed
  <2>3. Facet[d] = "none" /\ Facet' = [Facet EXCEPT ![d] = "classified"]
    BY <1>3 DEF Facet
  <2>4. C!Classify(d)
    BY <2>1, <2>2, <2>3 DEF C!Classify
  <2> QED BY <2>4 DEF C!Next
<1>4. CASE row[d] = "classified" /\ row'[d] = "indexed"
  <2>1. Known' = Known /\ d \in Known
    BY <1>4 DEF Known
  <2>2. Indexed' = Indexed \cup {d} /\ d \notin Indexed
    BY <1>4 DEF Indexed
  <2>3. Facet[d] = "classified" /\ Facet' = Facet
    BY <1>4 DEF Facet
  <2>4. d \in C!Classified \ Indexed
    BY <2>1, <2>2, <2>3 DEF C!Classified
  <2>5. {} \in SUBSET Known /\ {} = {} \cup ({d} \X {})
    OBVIOUS
  <2>6. C!IndexDoc(d)
    BY <2>1, <2>2, <2>3, <2>4, <2>5 DEF C!IndexDoc
  <2> QED BY <2>6 DEF C!Next
<1> QED BY <1>1, <1>2, <1>3, <1>4

\* A step of a stage leaves the document in hand as far as the next point expects it.
LEMMA WorkInOrder ==
  ASSUME LockKept, InOrder, NEW p \in Procs, Work(p)
  PROVE  InOrder' /\ [C!Next]_(C!store)
<1> DEFINE d == job[p].doc
<1> DEFINE pt == job[p].at
<1> DEFINE next == IF pt = "take" /\ row[d] # "none" THEN {"end"} ELSE Follow(p, pt)
<1>1. /\ pc[p] = "busy" /\ job[p] # NoJob /\ Effect(d, pt)
      /\ \E n \in next :
           job' = [job EXCEPT ![p] = IF n = "end" THEN NoJob ELSE [doc |-> d, at |-> n]]
      /\ UNCHANGED <<pc>>
  BY DEF Work, DrainDoc, ClassifyDoc, RetrieveDoc, Advance
<1>2. d \in Docs /\ pt \in Points /\ job \in [Procs -> Jobs] /\ RowTypeOK
  BY <1>1 DEF InOrder, RowTypeOK, Jobs
<1>3. PICK n \in next :
        job' = [job EXCEPT ![p] = IF n = "end" THEN NoJob ELSE [doc |-> d, at |-> n]]
  BY <1>1
<1>4. /\ n \in Points \cup {"end"} /\ n # "classify"
      /\ n = "commit" => pt = "classify"
      /\ n = "classified" => pt = "commit"
      /\ n \in {"embed", "embedded", "edges", "index", "txn"} =>
           pt \in {"classified", "embed", "embedded", "edges", "index"}
  BY <1>2, Chains
<1>5. /\ pt \in {"classify", "commit"} => row[d] = "raw"
      /\ pt \in {"classified", "embed", "embedded", "edges", "index", "txn"} =>
           row[d] = "classified"
  BY <1>1 DEF InOrder, AtHand
<1> HIDE DEF d, pt, next
<1>6. /\ \A e \in Docs \ {d} : row'[e] = row[e]
      /\ row'[d] = CASE pt = "take" /\ row[d] = "none" -> "raw"
                     [] pt = "commit" -> "classified"
                     [] pt = "txn" -> "indexed"
                     [] OTHER -> row[d]
      /\ row' \in [Docs -> {"none", "raw", "classified", "indexed"}]
  BY <1>1, <1>2, Effects
<1>7. job'[p] = (IF n = "end" THEN NoJob ELSE [doc |-> d, at |-> n])
      /\ \A q \in Procs \ {p} : job'[q] = job[q]
  BY <1>2, <1>3
<1>8. RowTypeOK'
  <2>1. (IF n = "end" THEN NoJob ELSE [doc |-> d, at |-> n]) \in Jobs
    BY <1>2, <1>4 DEF Jobs
  <2>2. job' \in [Procs -> Jobs]
    BY <1>2, <1>3, <2>1
  <2> QED BY <1>6, <2>2 DEF RowTypeOK
<1>9. ASSUME NEW q \in Procs \ {p} PROVE AtHand(q)'
  BY <1>1, <1>7, <1>9, OnePass DEF InOrder, AtHand
<1>10. AtHand(p)'
  <2>1. CASE n = "end"
    BY <1>7, <2>1 DEF AtHand
  <2>2. CASE n # "end"
    <3>1. job'[p].doc = d /\ job'[p].at = n
      BY <1>7, <2>2
    <3>2. pt \notin {"take", "commit", "txn"} => row'[d] = row[d]
      BY <1>6
    <3>3. n = "commit" => row'[d] = "raw"
      BY <1>4, <1>5, <3>2
    <3>4. n \in {"classified", "embed", "embedded", "edges", "index", "txn"} =>
            row'[d] = "classified"
      BY <1>4, <1>5, <1>6, <3>2
    <3> QED BY <1>1, <1>4, <3>1, <3>2, <3>3, <3>4 DEF AtHand
  <2> QED BY <2>1, <2>2
<1>11. /\ pt = "commit" => row[d] = "raw"
       /\ pt = "txn" => row[d] = "classified"
  BY <1>5
<1>12. [C!Next]_(C!store)
  BY <1>2, <1>6, <1>11, RowSteps DEF RowTypeOK
<1> QED BY <1>8, <1>9, <1>10, <1>12 DEF InOrder

\* No other step touches a row, and only a pass has a document in hand.
LEMMA StepInOrder ==
  ASSUME LockKept, InOrder, [Next]_vars
  PROVE  InOrder' /\ [C!Next]_(C!store)
<1> DEFINE Quiet == UNCHANGED row /\ job' \in [Procs -> Jobs] /\ \A p \in Procs : AtHand(p)'
<1>1. ASSUME NEW p \in Procs, Work(p) PROVE InOrder' /\ [C!Next]_(C!store)
  BY <1>1, WorkInOrder
<1>2. ASSUME NEW p \in Procs, Pick(p) PROVE Quiet
  <2>1. PICK d \in Docs : \E pt \in Entry(p, d) : job' = [job EXCEPT ![p] = [doc |-> d, at |-> pt]]
    BY <1>2 DEF Pick
  <2>2. PICK pt \in Entry(p, d) : job' = [job EXCEPT ![p] = [doc |-> d, at |-> pt]]
    BY <2>1
  <2>3. /\ pt \in {"take", "classify", "embed"}
        /\ pt = "classify" => row[d] = "raw"
        /\ pt = "embed" => row[d] = "classified"
    BY <2>2 DEF Entry
  <2>4. [doc |-> d, at |-> pt] \in Jobs
    BY <2>3 DEF Jobs, Points, Good
  <2>5. job \in [Procs -> Jobs] /\ pc[p] = "busy" /\ UNCHANGED <<row, pc>>
    BY <1>2 DEF Pick, InOrder, RowTypeOK, docs
  <2>6. job' \in [Procs -> Jobs] /\ job'[p].doc = d /\ job'[p].at = pt
        /\ \A q \in Procs \ {p} : job'[q] = job[q]
    BY <2>2, <2>4, <2>5
  <2>7. AtHand(p)'
    BY <2>3, <2>5, <2>6 DEF AtHand
  <2>8. \A q \in Procs \ {p} : AtHand(q)'
    BY <2>5, <2>6 DEF AtHand, InOrder
  <2> QED BY <2>5, <2>6, <2>7, <2>8
<1>3. ASSUME UNCHANGED row, NEW p \in Procs, \A q \in Procs \ {p} : UNCHANGED <<pc[q], job[q]>>,
             job' \in [Procs -> Jobs], job'[p] = NoJob
      PROVE Quiet
  BY <1>3 DEF InOrder, AtHand
<1>4. ASSUME NEW p \in Procs, Begin(p) \/ Finish(p) PROVE Quiet
  <2>1. job[p] = NoJob /\ UNCHANGED <<row, job>>
    BY <1>4 DEF Begin, Finish, InOrder, AtHand, docs
  <2>2. \A q \in Procs \ {p} : UNCHANGED pc[q]
    BY <1>4 DEF Begin, Finish, Goto, LockKept, LockTypeOK
  <2> QED BY <1>3, <2>1, <2>2 DEF InOrder, RowTypeOK
<1>5. ASSUME NEW p \in Procs, Kill(p) PROVE Quiet
  <2>1. job' = [job EXCEPT ![p] = NoJob] /\ UNCHANGED row
    BY <1>5 DEF Kill, docs
  <2>2. \A q \in Procs \ {p} : UNCHANGED pc[q]
    BY <1>5 DEF Kill, Goto, LockKept, LockTypeOK
  <2>3. job' \in [Procs -> Jobs] /\ job'[p] = NoJob /\ \A q \in Procs \ {p} : UNCHANGED job[q]
    BY <2>1 DEF InOrder, RowTypeOK, Jobs
  <2> QED BY <1>3, <2>1, <2>2, <2>3
<1>6. ASSUME StartDaemon \/ Boot PROVE Quiet
  <2>1. pc[Daemon] # "busy" /\ UNCHANGED <<row, job>>
    BY <1>6 DEF StartDaemon, Boot, InitFails, EmitStarted, BeginScan, ReadLog, EndScan, TurnTo,
         Report, Dispatch, WriteOff, docs
  <2>2. \A q \in Procs \ {Daemon} : UNCHANGED pc[q]
    BY <1>6 DEF StartDaemon, Boot, InitFails, EmitStarted, BeginScan, AcquireForScan, ReadLog,
         EndScan, TurnTo, Report, Dispatch, WriteOff, LeaveScan, Goto, LockKept, LockTypeOK
  <2>3. Daemon \in Procs /\ job[Daemon] = NoJob
    BY <2>1 DEF InOrder, AtHand, Procs
  <2> QED BY <1>3, <2>1, <2>2, <2>3 DEF InOrder, RowTypeOK
<1>7. ASSUME UNCHANGED <<row, job, pc>> PROVE Quiet
  BY <1>7 DEF InOrder, RowTypeOK, AtHand
<1>8. ASSUME Expire \/ (\E d \in Docs : Drop(d)) \/ UNCHANGED vars PROVE Quiet
  BY <1>7, <1>8 DEF Expire, Drop, vars, docs
<1>9. Quiet => InOrder' /\ [C!Next]_(C!store)
  <2>1. UNCHANGED row => UNCHANGED <<Known, Indexed, Facet>>
    BY DEF Known, Indexed, Facet
  <2> QED BY <2>1 DEF InOrder, RowTypeOK, C!store
<1> HIDE DEF Quiet
<1> QED
  BY <1>1, <1>2, <1>4, <1>5, <1>6, <1>8, <1>9 DEF Next, Stage

LEMMA InitInOrder == Init => InOrder /\ C!Whole
<1> SUFFICES ASSUME Init PROVE InOrder /\ C!Whole
  OBVIOUS
<1>1. InOrder
  BY DEF Init, InOrder, RowTypeOK, Jobs, AtHand
<1>2. Known = {} /\ Indexed = {} /\ Facet \in [Docs -> {"none"}]
  BY DEF Init, Known, Indexed, Facet
<1>3. C!Whole
  BY <1>2 DEF C!Whole, C!Classified
<1> QED BY <1>1, <1>3

\* Whoever is killed, times out or goes on with what another one left: the stages write the
\* corpus the readers rely on. The scan may have given its lock back and still be reading the
\* log; what matters is that a pass never runs without it (drain-lock.ts, daemon/src/index.ts).
THEOREM StagesImplementCorpus == Spec => ImplementsCorpus
<1>1. Spec => []LockKept
  BY ScanReturnsTheLock, PTL
<1> QED
  BY <1>1, InitInOrder, StepInOrder, PTL DEF Spec, ImplementsCorpus, C!Spec

----------------------------------------------------------------------------
(* Types *)

RestTypeOK ==
  /\ log \subseteq Events /\ started \in BOOLEAN
  /\ cur \in Orphans \cup {None} /\ before \subseteq Orphans /\ mistaken \subseteq Orphans
  /\ inbox \subseteq Docs /\ sidecars \subseteq Docs
  /\ todo \subseteq Orphans /\ found \subseteq Orphans
  /\ boots \in 0 .. MaxBoots /\ kills \in 0 .. MaxKills

\* A point of a stage appends an event of the log's alphabet.
LEMMA EmitsEvents ==
  ASSUME log \subseteq Events, NEW d \in Docs, NEW pt \in Points, Emit(d, pt)
  PROVE  log' \subseteq Events
<1>1. ASSUME NEW ev \in {"start", "end"}, NEW s \in Stages, Append(ev, d, s)
      PROVE  log' \subseteq Events
  BY <1>1 DEF Append, Events, Orphans
<1>2. pt \in DOMAIN Starts => Starts[pt] \in Stages
  BY DEF Starts, Stages
<1>3. pt \in DOMAIN Ends => Ends[pt] \in Stages
  BY DEF Ends, Stages
<1> QED BY <1>1, <1>2, <1>3 DEF Emit

\* The scan has an orphan in hand while it waits for a call.
InHandOK == pc[Daemon] \in InHand => cur \in Orphans

LEMMA InHandKept ==
  ASSUME LockTypeOK, InHandOK, [Next]_vars
  PROVE  InHandOK'
<1> USE RecoveryAssumption DEF InHandOK, InHand, Procs
<1>1. pc \in [Procs -> Places]
  BY DEF LockTypeOK
<1>2. ASSUME NEW o \in Orphans, TurnTo(o) PROVE InHandOK'
  BY <1>2 DEF TurnTo
<1>3. CASE Report \/ Dispatch \/ WriteOff
  BY <1>1, <1>3 DEF Report, Dispatch, WriteOff, LeaveScan, Goto, scan
<1>4. CASE InitFails \/ EmitStarted \/ BeginScan \/ ReadLog \/ EndScan
  BY <1>1, <1>4 DEF InitFails, EmitStarted, BeginScan, AcquireForScan, ReadLog, EndScan,
                    LeaveScan, Goto
<1>5. ASSUME NEW p \in Procs, Stage(p) PROVE InHandOK'
  BY <1>1, <1>5 DEF Stage, Begin, Pick, Work, DrainDoc, ClassifyDoc, RetrieveDoc, Advance,
                    Finish, Goto, scan
<1>6. ASSUME NEW p \in Procs, Kill(p) PROVE InHandOK'
  BY <1>1, <1>6 DEF Kill, Goto, scan
<1>7. CASE StartDaemon \/ Expire
  BY <1>1, <1>7 DEF StartDaemon, Expire, Goto
<1>8. CASE (\E d \in Docs : Drop(d)) \/ UNCHANGED vars
  BY <1>8 DEF Drop, scan, vars
<1> QED
  BY <1>2, <1>3, <1>4, <1>5, <1>6, <1>7, <1>8 DEF Next, Boot

LEMMA RestKept ==
  ASSUME RestTypeOK, InHandOK, InOrder, [Next]_vars
  PROVE  RestTypeOK'
<1> USE RecoveryAssumption DEF RestTypeOK, window, scan, counts, docs
<1>1. Unfinished(log) \subseteq Orphans
  BY DEF Unfinished
<1>2. ASSUME NEW p \in Procs, Work(p) PROVE RestTypeOK'
  <2>1. /\ job[p].doc \in Docs /\ job[p].at \in Points
        /\ Emit(job[p].doc, job[p].at) /\ Effect(job[p].doc, job[p].at)
        /\ UNCHANGED <<started, scan, counts>>
    BY <1>2 DEF Work, DrainDoc, ClassifyDoc, RetrieveDoc, Advance, InOrder, RowTypeOK, Jobs
  <2>2. log' \subseteq Events
    BY <2>1, EmitsEvents
  <2>3. inbox' \subseteq Docs /\ sidecars' \subseteq Docs
    BY <2>1 DEF Effect
  <2> QED BY <2>1, <2>2, <2>3
<1>3. ASSUME NEW p \in Procs, Begin(p) \/ Pick(p) \/ Finish(p) PROVE RestTypeOK'
  BY <1>3 DEF Begin, Pick, Finish
<1>4. ASSUME NEW p \in Procs, Kill(p) PROVE RestTypeOK'
  BY <1>4 DEF Kill, ScanOver
<1>5. CASE StartDaemon
  BY <1>5 DEF StartDaemon
<1>6. CASE InitFails \/ EmitStarted \/ BeginScan \/ ReadLog \/ EndScan
  BY <1>1, <1>6
     DEF InitFails, EmitStarted, BeginScan, AcquireForScan, ReadLog, EndScan, LeaveScan, ScanOver
<1>7. ASSUME (\E o \in Orphans : TurnTo(o)) \/ Report \/ Dispatch \/ WriteOff
      PROVE RestTypeOK'
  <2>1. ASSUME NEW o \in Orphans, TurnTo(o) PROVE RestTypeOK'
    BY <2>1 DEF TurnTo
  <2>2. pc[Daemon] \in InHand => cur \in Orphans
    BY DEF InHandOK
  <2>3. CASE Report
    BY <2>2, <2>3 DEF Report, Judge, InHand
  <2>4. CASE Dispatch
    BY <2>4 DEF Dispatch
  <2>5. CASE WriteOff
    <3>1. cur \in Orphans /\ cur[1] \in Docs
      BY <2>2, <2>5 DEF WriteOff, InHand, Orphans
    <3>2. CASE LeaveScan /\ UNCHANGED sidecars
      BY <2>5, <3>2 DEF WriteOff, LeaveScan, ScanOver
    <3>3. CASE sidecars' = sidecars \cup {cur[1]} /\ Judge
               /\ UNCHANGED <<holder, expired, todo, found, cur, before>>
      BY <2>5, <3>1, <3>3 DEF WriteOff, Judge
    <3> QED BY <2>5, <3>2, <3>3 DEF WriteOff
  <2> QED BY <1>7, <2>1, <2>3, <2>4, <2>5
<1>8. CASE Expire \/ (\E d \in Docs : Drop(d)) \/ UNCHANGED vars
  BY <1>8 DEF Expire, Drop, vars
<1> QED
  BY <1>2, <1>3, <1>4, <1>5, <1>6, <1>7, <1>8 DEF Next, Stage, Boot

\* Every variable keeps its type; above all, the points of a pass are points of the chains
\* and the log holds events of the stages' alphabet (contracts/src/telemetry.ts).
THEOREM TypeCorrect == Spec => []TypeOK
<1>1. Spec => []LockKept
  BY ScanReturnsTheLock, PTL
<1>2. Init => RestTypeOK
  <2>1. 0 \in 0 .. MaxBoots /\ 0 \in 0 .. MaxKills
    BY RecoveryAssumption
  <2> QED BY <2>1 DEF Init, RestTypeOK
<1>4. Init => InHandOK
  BY RecoveryAssumption DEF Init, InHandOK, InHand, Procs
<1>5. LockKept => LockTypeOK
  BY DEF LockKept
<1>3. LockKept /\ InOrder /\ RestTypeOK => TypeOK
  BY DEF LockKept, LockTypeOK, InOrder, RowTypeOK, Jobs, RestTypeOK, TypeOK
<1> QED
  BY <1>1, <1>2, <1>3, <1>4, <1>5, InitInOrder, StepInOrder, InHandKept, RestKept, PTL
     DEF Spec
=============================================================================
