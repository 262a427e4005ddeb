--------------------------- MODULE DrainLockProofs ---------------------------
(***************************************************************************)
(* Theorems about the drain lock for any set of processes.                 *)
(*                                                                         *)
(* The inductive invariant OwnersHaveTheFile says that a process that is   *)
(* creating the lock, or holds it unreleased, is the creator of the file   *)
(* at the lock path. It makes the owner unique, hence MutualExclusion. The *)
(* only action that can break it is StealUnlink, and then robbed says so.  *)
(* The same invariant gives the refinement of ExclusiveLock: a process     *)
(* whose handle is made owned the file before, so nobody held the lock.    *)
(***************************************************************************)
EXTENDS DrainLock, TLAPS

HaveFile == \A p \in Pids : Owner(p) => lock.by = p
OwnersHaveTheFile == robbed \/ HaveFile

\* A process about to steal read a pid other than its own, of a process that
\* ran and is dead.
StealersSawDead ==
  \A p \in Pids : pc[p] = "steal" =>
    saw[p] \in Pids /\ saw[p] # p /\ pc[saw[p]] = "down"

----------------------------------------------------------------------------
\* Every action keeps the lock file, the program points, the pids read and
\* the flags in their types.
THEOREM TypeCorrect == Spec => []TypeOK
<1>1. Init => TypeOK
  BY LockAssumption DEF Init, TypeOK, LockFile, NoFile, Points
<1>2. TypeOK /\ [Next]_vars => TypeOK'
  <2> SUFFICES ASSUME TypeOK, [Next]_vars PROVE TypeOK'
    OBVIOUS
  <2> USE DEF TypeOK, LockFile, NoFile, Points
  <2>0. ASSUME NEW p \in Pids, NEW w \in Points, TryCreate(p, w)
        PROVE  lock' \in LockFile /\ pc' \in [Pids -> Points]
    <3>1. CASE lock = NoFile
      <4>1. [by |-> p, written |-> FALSE] \in [by : Pids, written : BOOLEAN]
        OBVIOUS
      <4>2. lock' = [by |-> p, written |-> FALSE]
        BY <2>0, <3>1 DEF TryCreate
      <4>3. pc' \in [Pids -> Points]
        BY <2>0, <3>1 DEF TryCreate, Goto
      <4> QED BY <4>1, <4>2, <4>3
    <3>2. CASE lock # NoFile
      BY <2>0, <3>2 DEF TryCreate, Goto
    <3> QED BY <3>1, <3>2
  <2>1. ASSUME NEW p \in Pids, Acquire(p) PROVE TypeOK'
    <3>1. "read" \in Points OBVIOUS
    <3> QED BY <2>0, <2>1, <3>1 DEF Acquire
  <2>2. ASSUME NEW p \in Pids, WritePid(p) PROVE TypeOK'
    BY <2>2 DEF WritePid, Goto
  <2>3. ASSUME NEW p \in Pids, MakeHandle(p) PROVE TypeOK'
    BY <2>3 DEF MakeHandle, Goto
  <2>4. ASSUME NEW p \in Pids, ReadHolder(p) PROVE TypeOK'
    BY <2>4 DEF ReadHolder, Goto
  <2>5. ASSUME NEW p \in Pids, CheckHolder(p) PROVE TypeOK'
    BY <2>5 DEF CheckHolder, Goto
  <2>6. ASSUME NEW p \in Pids, StealUnlink(p) PROVE TypeOK'
    BY <2>6 DEF StealUnlink, Goto
  <2>7. ASSUME NEW p \in Pids, Recreate(p) PROVE TypeOK'
    <3>1. "idle" \in Points OBVIOUS
    <3> QED BY <2>0, <2>7, <3>1 DEF Recreate
  <2>8. ASSUME NEW p \in Pids, Finish(p) PROVE TypeOK'
    BY <2>8 DEF Finish, ReleaseFn, Goto
  <2>9. ASSUME NEW p \in Pids, Abort(p) PROVE TypeOK'
    BY <2>9 DEF Abort, ReleaseFn, Goto
  <2>10. ASSUME NEW p \in Pids, Start(p) PROVE TypeOK'
    BY <2>10 DEF Start, Goto
  <2>11. ASSUME NEW p \in Pids, Exit(p) \/ Crash(p) PROVE TypeOK'
    BY <2>11 DEF Exit, Crash, Die, Goto
  <2>12. ASSUME NEW p \in Pids, ForeignStart(p) \/ ForeignExit(p) PROVE TypeOK'
    BY <2>12 DEF ForeignStart, ForeignExit, Goto
  <2>13. CASE UNCHANGED vars
    BY <2>13 DEF vars
  <2> QED
    BY <2>1, <2>2, <2>3, <2>4, <2>5, <2>6, <2>7, <2>8, <2>9, <2>10, <2>11,
       <2>12, <2>13 DEF Next, Step
<1> QED
  BY <1>1, <1>2, PTL DEF Spec

----------------------------------------------------------------------------
\* No step takes the file away from an owner, except a steal that sets robbed.
LEMMA OwnersStep ==
  TypeOK /\ OwnersHaveTheFile /\ [Next]_vars => OwnersHaveTheFile'
<1> SUFFICES ASSUME TypeOK, OwnersHaveTheFile, [Next]_vars
             PROVE  OwnersHaveTheFile'
  OBVIOUS
<1> USE LockAssumption DEF OwnersHaveTheFile, HaveFile, Owner, Holds, TypeOK,
        NoFile
<1>1. ASSUME NEW p \in Pids, Acquire(p) PROVE OwnersHaveTheFile'
  BY <1>1 DEF Acquire, TryCreate, Goto
<1>2. ASSUME NEW p \in Pids, WritePid(p) PROVE OwnersHaveTheFile'
  BY <1>2 DEF WritePid, Goto
<1>3. ASSUME NEW p \in Pids, MakeHandle(p) PROVE OwnersHaveTheFile'
  BY <1>3 DEF MakeHandle, Goto
<1>4. ASSUME NEW p \in Pids, ReadHolder(p) PROVE OwnersHaveTheFile'
  BY <1>4 DEF ReadHolder, Goto
<1>5. ASSUME NEW p \in Pids, CheckHolder(p) PROVE OwnersHaveTheFile'
  BY <1>5 DEF CheckHolder, Goto
<1>6. ASSUME NEW p \in Pids, StealUnlink(p) PROVE OwnersHaveTheFile'
  <2>1. robbed' \/ \A q \in Pids : ~Owner(q)
    BY <1>6 DEF StealUnlink
  <2> QED
    BY <1>6, <2>1 DEF StealUnlink, Goto
<1>7. ASSUME NEW p \in Pids, Recreate(p) PROVE OwnersHaveTheFile'
  BY <1>7 DEF Recreate, TryCreate, Goto
<1>8. ASSUME NEW p \in Pids, Finish(p) PROVE OwnersHaveTheFile'
  BY <1>8 DEF Finish, ReleaseFn, Goto
<1>9. ASSUME NEW p \in Pids, Abort(p) PROVE OwnersHaveTheFile'
  BY <1>9 DEF Abort, ReleaseFn, Goto
<1>10. ASSUME NEW p \in Pids, Start(p) PROVE OwnersHaveTheFile'
  BY <1>10 DEF Start, Goto
<1>11. ASSUME NEW p \in Pids, Exit(p) \/ Crash(p) PROVE OwnersHaveTheFile'
  BY <1>11 DEF Exit, Crash, Die, Goto
<1>12. ASSUME NEW p \in Pids, ForeignStart(p) \/ ForeignExit(p)
       PROVE  OwnersHaveTheFile'
  BY <1>12 DEF ForeignStart, ForeignExit, Goto
<1>13. CASE UNCHANGED vars
  BY <1>13 DEF vars
<1> QED
  BY <1>1, <1>2, <1>3, <1>4, <1>5, <1>6, <1>7, <1>8, <1>9, <1>10, <1>11,
     <1>12, <1>13 DEF Next, Step

\* At most one process holds the drain lock unless a stealer unlinked the
\* file of a live owner, whatever kills, aborts and reuse of pids occur.
THEOREM RobberyIsTheOnlyWay == Spec => []ExclusiveUnlessRobbed
<1>1. Init => OwnersHaveTheFile
  BY DEF Init, OwnersHaveTheFile, HaveFile, Owner, Holds
<1>2. OwnersHaveTheFile => ExclusiveUnlessRobbed
  BY DEF OwnersHaveTheFile, HaveFile, ExclusiveUnlessRobbed, MutualExclusion,
         Owner
<1> QED
  BY <1>1, <1>2, TypeCorrect, OwnersStep, PTL DEF Spec

----------------------------------------------------------------------------
UsedPids == \A p \in Pids : pc[p] # "down" => p \in used
SawUsed ==
  /\ lock # NoFile => lock.by \in used
  /\ \A p \in Pids : saw[p] # NoPid => saw[p] \in used

DeadInv == UsedPids /\ SawUsed /\ StealersSawDead

\* A pid found dead is one that was handed out (UsedPids), and the operating
\* system does not hand it out again, so it stays dead.
LEMMA DeadStaysDead ==
  ASSUME ~PidReuse
  PROVE  TypeOK /\ DeadInv /\ [Next]_vars => DeadInv'
<1> SUFFICES ASSUME TypeOK, DeadInv, [Next]_vars PROVE DeadInv'
  OBVIOUS
<1> USE LockAssumption DEF DeadInv, UsedPids, SawUsed, StealersSawDead, TypeOK,
        NoFile, LockFile
<1>1. ASSUME NEW p \in Pids, Acquire(p) PROVE DeadInv'
  BY <1>1 DEF Acquire, TryCreate, Goto
<1>2. ASSUME NEW p \in Pids, WritePid(p) PROVE DeadInv'
  BY <1>2 DEF WritePid, Goto
<1>3. ASSUME NEW p \in Pids, MakeHandle(p) PROVE DeadInv'
  BY <1>3 DEF MakeHandle, Goto
<1>4. ASSUME NEW p \in Pids, ReadHolder(p) PROVE DeadInv'
  BY <1>4 DEF ReadHolder, Goto
<1>5. ASSUME NEW p \in Pids, CheckHolder(p) PROVE DeadInv'
  BY <1>5 DEF CheckHolder, MaySteal, IsPidAlive, Goto
<1>6. ASSUME NEW p \in Pids, StealUnlink(p) PROVE DeadInv'
  BY <1>6 DEF StealUnlink, Goto
<1>7. ASSUME NEW p \in Pids, Recreate(p) PROVE DeadInv'
  BY <1>7 DEF Recreate, TryCreate, Goto
<1>8. ASSUME NEW p \in Pids, Finish(p) PROVE DeadInv'
  BY <1>8 DEF Finish, ReleaseFn, Goto
<1>9. ASSUME NEW p \in Pids, Abort(p) PROVE DeadInv'
  BY <1>9 DEF Abort, ReleaseFn, Goto
<1>10. ASSUME NEW p \in Pids, Start(p) PROVE DeadInv'
  BY <1>10 DEF Start, Goto
<1>11. ASSUME NEW p \in Pids, Exit(p) \/ Crash(p) PROVE DeadInv'
  BY <1>11 DEF Exit, Crash, Die, Goto
<1>12. ASSUME NEW p \in Pids, ForeignStart(p) \/ ForeignExit(p) PROVE DeadInv'
  BY <1>12 DEF ForeignStart, ForeignExit, Goto
<1>13. CASE UNCHANGED vars
  BY <1>13 DEF vars
<1> QED
  BY <1>1, <1>2, <1>3, <1>4, <1>5, <1>6, <1>7, <1>8, <1>9, <1>10, <1>11,
     <1>12, <1>13 DEF Next, Step

\* With two processes in all there is nobody whose file a stealer could take
\* by mistake: the one it found dead is the only other one.
LEMMA PairSteals ==
  ASSUME NEW a, NEW b, Pids = {a, b}
  PROVE  TypeOK /\ DeadInv /\ ~robbed /\ [Next]_vars => ~robbed'
<1> SUFFICES ASSUME TypeOK, DeadInv, ~robbed, [Next]_vars, robbed' PROVE FALSE
  OBVIOUS
<1>1. PICK p \in Pids : StealUnlink(p)
  BY DEF TypeOK, Next, Step, Acquire, WritePid, MakeHandle, ReadHolder,
         CheckHolder, Recreate, Finish, Abort, Start, Exit, Crash, Die,
         ForeignStart, ForeignExit, vars
<1>2. PICK q \in Pids : Owner(q)
  BY <1>1 DEF StealUnlink
<1>3. pc[q] # "down" /\ pc[q] # "steal" /\ pc[p] = "steal"
  BY <1>1, <1>2 DEF Owner, Holds, StealUnlink
<1>4. saw[p] \in Pids /\ saw[p] # p /\ pc[saw[p]] = "down"
  BY <1>3 DEF DeadInv, StealersSawDead
<1> QED
  BY <1>3, <1>4

\* Two processes whose pids are not reused never both hold the drain lock,
\* wherever either of them is killed or aborted.
THEOREM PairExclusion ==
  ASSUME NEW CONSTANT a, NEW CONSTANT b, Pids = {a, b}, ~PidReuse
  PROVE  Spec => []MutualExclusion
<1>1. Init => DeadInv /\ ~robbed
  BY DEF Init, DeadInv, UsedPids, SawUsed, StealersSawDead
<1>2. TypeOK /\ DeadInv /\ [Next]_vars => DeadInv'
  BY DeadStaysDead
<1>3. TypeOK /\ DeadInv /\ ~robbed /\ [Next]_vars => ~robbed'
  BY PairSteals
<1>4. ~robbed /\ ExclusiveUnlessRobbed => MutualExclusion
  BY DEF ExclusiveUnlessRobbed
<1> QED
  BY <1>1, <1>2, <1>3, <1>4, TypeCorrect, RobberyIsTheOnlyWay, PTL DEF Spec

----------------------------------------------------------------------------
(* The refinement: what a step does to the holder its users see.            *)

\* While no file was robbed, the process with the unreleased handle is the
\* only one, so it is the holder.
LEMMA HolderIs ==
  ASSUME HaveFile
  PROVE  /\ \A p \in Pids : Holds(p) => Holder = p
         /\ (\A p \in Pids : ~Holds(p)) => Holder = NoPid
         /\ \A p \in Pids : Holder = p <=> Holds(p)
<1>1. \A p, q \in Pids : Holds(p) /\ Holds(q) => p = q
  BY DEF HaveFile, Owner
<1>2. ASSUME NEW p \in Pids, Holds(p) PROVE Holder = p
  BY <1>1, <1>2 DEF Holder
<1>3. (\A p \in Pids : ~Holds(p)) => Holder = NoPid
  BY DEF Holder
<1>4. ASSUME NEW p \in Pids, Holder = p PROVE Holds(p)
  BY <1>2, <1>3, <1>4, LockAssumption
<1> QED
  BY <1>2, <1>3, <1>4

\* A step changes what one process holds, and a process that comes to hold the
\* lock owned the file already.
HandsOver(p) ==
  /\ \A q \in Pids \ {p} : Holds(q)' <=> Holds(q)
  /\ Holds(p)' /\ ~Holds(p) => Owner(p)

LEMMA OneHandMoves ==
  ASSUME TypeOK, [Next]_vars, Pids # {}
  PROVE  \E p \in Pids : HandsOver(p)
<1> USE DEF HandsOver, Holds, Owner, TypeOK
<1>1. ASSUME NEW p \in Pids, Acquire(p) PROVE HandsOver(p)
  BY <1>1 DEF Acquire, TryCreate, Goto
<1>2. ASSUME NEW p \in Pids, WritePid(p) PROVE HandsOver(p)
  BY <1>2 DEF WritePid, Goto
<1>3. ASSUME NEW p \in Pids, MakeHandle(p) PROVE HandsOver(p)
  BY <1>3 DEF MakeHandle, Goto
<1>4. ASSUME NEW p \in Pids, ReadHolder(p) PROVE HandsOver(p)
  BY <1>4 DEF ReadHolder, Goto
<1>5. ASSUME NEW p \in Pids, CheckHolder(p) PROVE HandsOver(p)
  BY <1>5 DEF CheckHolder, Goto
<1>6. ASSUME NEW p \in Pids, StealUnlink(p) PROVE HandsOver(p)
  BY <1>6 DEF StealUnlink, Goto
<1>7. ASSUME NEW p \in Pids, Recreate(p) PROVE HandsOver(p)
  BY <1>7 DEF Recreate, TryCreate, Goto
<1>8. ASSUME NEW p \in Pids, Finish(p) PROVE HandsOver(p)
  BY <1>8 DEF Finish, ReleaseFn, Goto
<1>9. ASSUME NEW p \in Pids, Abort(p) PROVE HandsOver(p)
  BY <1>9 DEF Abort, ReleaseFn, Goto
<1>10. ASSUME NEW p \in Pids, Start(p) PROVE HandsOver(p)
  BY <1>10 DEF Start, Goto
<1>11. ASSUME NEW p \in Pids, Exit(p) \/ Crash(p) PROVE HandsOver(p)
  BY <1>11 DEF Exit, Crash, Die, Goto
<1>12. ASSUME NEW p \in Pids, ForeignStart(p) \/ ForeignExit(p)
       PROVE  HandsOver(p)
  BY <1>12 DEF ForeignStart, ForeignExit, Goto
<1>13. ASSUME UNCHANGED vars PROVE \A p \in Pids : HandsOver(p)
  BY <1>13 DEF vars
<1> QED
  BY <1>1, <1>2, <1>3, <1>4, <1>5, <1>6, <1>7, <1>8, <1>9, <1>10, <1>11,
     <1>12, <1>13 DEF Next, Step

\* However many processes there are, a step that leaves no robbery behind is
\* a grant of the free lock, a release by its holder, or nothing, to the
\* users of the lock.
LEMMA StepImplements ==
  ASSUME TypeOK, HaveFile, HaveFile', [Next]_vars
  PROVE  [Abstract!Next]_Holder
<1> USE LockAssumption DEF Abstract!Next, Abstract!Grant, Abstract!GiveUp
<1>1. CASE Pids = {}
  BY <1>1 DEF Holder
<1>2. CASE Pids # {}
  <2>1. PICK p \in Pids : HandsOver(p)
    BY <1>2, OneHandMoves
  <2>2. /\ \A q \in Pids : Holder = q <=> Holds(q)
        /\ (\A q \in Pids : ~Holds(q)) => Holder = NoPid
    BY HolderIs
  <2>3. /\ \A q \in Pids : Holder' = q <=> Holds(q)'
        /\ (\A q \in Pids : ~Holds(q)') => Holder' = NoPid
    <3>1. /\ \A q \in Pids : Holds(q)' => Holder' = q
          /\ (\A q \in Pids : ~Holds(q)') => Holder' = NoPid
      BY DEF HaveFile, Owner, Holder
    <3> QED BY <3>1
  <2>4. CASE Holds(p)' /\ ~Holds(p)
    <3>1. \A q \in Pids : ~Holds(q)
      BY <2>1, <2>4 DEF HandsOver, HaveFile, Owner
    <3> QED BY <2>2, <2>3, <2>4, <3>1
  <2>5. CASE Holds(p) /\ ~Holds(p)'
    <3>1. \A q \in Pids : ~Holds(q)'
      BY <2>1, <2>2, <2>5 DEF HandsOver
    <3> QED BY <2>2, <2>3, <2>5, <3>1
  <2>6. CASE Holds(p)' <=> Holds(p)
    <3>1. \A q \in Pids : Holds(q)' <=> Holds(q)
      BY <2>1, <2>6 DEF HandsOver
    <3> QED BY <2>2, <2>3, <3>1
  <2> QED BY <2>4, <2>5, <2>6
<1> QED BY <1>1, <1>2

\* To any number of users, as long as no file was robbed, the lock file is an
\* exclusive lock: every step grants it while it is free, or is its holder's
\* giving it up, or none of their business (the open(wx) and the unlinks of
\* acquireDrainLock and release).
THEOREM GrantsUnlessRobbed == Spec => [][robbed' \/ Abstract!Next]_Holder
<1>1. Init => OwnersHaveTheFile
  BY DEF Init, OwnersHaveTheFile, HaveFile, Owner, Holds
<1>2. TypeOK /\ [Next]_vars /\ ~robbed' => ~robbed
  BY DEF TypeOK, Next, Step, Acquire, WritePid, MakeHandle, ReadHolder,
         CheckHolder, StealUnlink, Recreate, Finish, Abort, Start, Exit, Crash,
         Die, ForeignStart, ForeignExit, vars
<1>3. TypeOK /\ OwnersHaveTheFile /\ OwnersHaveTheFile' /\ [Next]_vars
      => [robbed' \/ Abstract!Next]_Holder
  <2> SUFFICES ASSUME TypeOK, OwnersHaveTheFile, OwnersHaveTheFile', [Next]_vars,
                      ~robbed'
               PROVE  Abstract!Next \/ UNCHANGED Holder
    OBVIOUS
  <2>1. ~robbed
    BY <1>2
  <2>2. HaveFile /\ HaveFile'
    BY <2>1 DEF OwnersHaveTheFile
  <2>3. [Abstract!Next]_Holder
    BY <2>2, StepImplements
  <2> QED BY <2>3
<1> QED
  BY <1>1, <1>3, TypeCorrect, OwnersStep, PTL DEF Spec

\* Two processes whose pids are not reused see the lock file as an exclusive
\* lock, from the first acquisition on and through every kill and abort: a
\* stealer's liveness check and its unlink agree (drain-lock.ts).
THEOREM PairImplementsLock ==
  ASSUME NEW CONSTANT a, NEW CONSTANT b, Pids = {a, b}, ~PidReuse
  PROVE  Spec => ImplementsExclusiveLock
<1>1. Init => DeadInv /\ ~robbed /\ OwnersHaveTheFile
  BY DEF Init, DeadInv, UsedPids, SawUsed, StealersSawDead, OwnersHaveTheFile,
         HaveFile, Owner, Holds
<1>2. TypeOK /\ DeadInv /\ [Next]_vars => DeadInv'
  BY DeadStaysDead
<1>3. TypeOK /\ DeadInv /\ ~robbed /\ [Next]_vars => ~robbed'
  BY PairSteals
<1>4. Init => Abstract!Init
  BY DEF Init, Abstract!Init, Holder, Holds
<1>5. /\ TypeOK /\ OwnersHaveTheFile /\ ~robbed
      /\ OwnersHaveTheFile' /\ ~robbed'
      /\ [Next]_vars
      => [Abstract!Next]_Holder
  BY StepImplements DEF OwnersHaveTheFile
<1> QED
  BY <1>1, <1>2, <1>3, <1>4, <1>5, TypeCorrect, OwnersStep, PTL
  DEF Spec, ImplementsExclusiveLock, Abstract!Spec
=============================================================================
