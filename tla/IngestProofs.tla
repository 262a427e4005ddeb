---------------------------- MODULE IngestProofs ----------------------------
(***************************************************************************)
(* Theorems about ingestion, for any files, names, contents and drainers.  *)
(*                                                                         *)
(* Sound is the type invariant with what makes it inductive: a process at  *)
(* work on a document has a path in the inbox or pending/, and once it has *)
(* hashed it, the hash. OneRowPerContent needs two facts more: only the    *)
(* writer is between INSERT and COMMIT, its content not yet in the table   *)
(* (SoleWriter), and the source of a row stays in processed/ under its id, *)
(* or is replaced there (SourcesKept). Up to ProcessedFilesCommitted the   *)
(* drain lock is not used: drains may overlap. RowsAreWhole,               *)
(* LossesAreReturns and PassesDrainPending rest on it (LockHeld), and for  *)
(* a process in a pass on what it knows of its document (InHand) and what  *)
(* it has left to do (Swept).                                              *)
(***************************************************************************)
EXTENDS Ingest, TLAPS

Sources == {"inbox", "pending"}
Places == Lanes \cup {"outside", "removed", "replaced"}
Labels == Names \cup (Ids \X Names) \cup {None}
Targets == Paths \cup ({"failed"} \X Names) \cup ({"processed"} \X (Ids \X Names))
Hashed == {"hashing", "dedup", "normalize", "persist", "body", "begin", "insert", "rename",
           "commit", "undo"}

FilesOK ==
  /\ file \in [Files -> [at : Places, name : Labels, bytes : Bytes \cup {None}]]
  /\ \A f \in Files : /\ file[f].at \in Sources => file[f].name \in Names
                      /\ file[f].at \in Lanes => file[f].bytes \in Bytes

HandsOK ==
  /\ pc \in [Drainers -> Busy \cup {"down", "idle"}]
  /\ todo \in [Drainers -> SUBSET Paths]
  /\ src \in [Drainers -> Names \cup {None}]
  /\ cur \in [Drainers -> Paths \cup {None}]
  /\ hash \in [Drainers -> Bytes \cup {None}]
  /\ \A d \in Drainers : /\ pc[d] \in InDoc => cur[d] \in Paths
                         /\ pc[d] \in InDoc \ {"route"} => src[d] \in Names
                         /\ pc[d] \in Hashed => hash[d] \in Bytes

StateOK ==
  /\ rows \subseteq Row /\ bodies \in [Ids -> Bytes \cup {None}] /\ sidecars \subseteq Names
  /\ holder \in Drainers \cup {None} /\ writer \in Drainers \cup {None}
  /\ trigger \in BOOLEAN /\ crashes \in 0 .. MaxCrashes
  /\ text \in [Drainers -> Bytes \cup {None}]
  /\ stop \in [Drainers -> BOOLEAN] /\ cut \in [Drainers -> BOOLEAN]

Sound == FilesOK /\ HandsOK /\ StateOK

\* What the transaction holds while it is open.
SoleWriter ==
  \A d \in Drainers : pc[d] \in {"rename", "commit"} => writer = d /\ ~Conflicts(d)

\* The source of a row stays where the transaction put it, under its id.
SourcesKept ==
  \A r \in rows : file[r.of].at \in {"processed", "replaced"} /\ file[r.of].name[1] = r.id

----------------------------------------------------------------------------
\* rename(2) from the inbox or pending/ disturbs nothing in processed/ but what it replaces.
LEMMA Moving ==
  ASSUME FilesOK, NEW f \in Files, file[f].at \in Sources, NEW path \in Targets,
         file' = Moved(f, path)
  PROVE  /\ FilesOK'
         /\ \A g \in Files : file[g].at \in {"processed", "replaced"} =>
              file'[g].at \in {"processed", "replaced"} /\ file'[g].name = file[g].name
<1> USE DEF FilesOK, Sources
<1>1. /\ path[1] \in Lanes /\ path[2] \in Labels
      /\ path[1] \in Sources => path[2] \in Names
  BY DEF Targets, Paths, Lanes, Labels
<1>2. file'[f] = [file[f] EXCEPT !.at = path[1], !.name = path[2]]
  BY DEF Moved
<1>3. \A g \in Files \ {f} :
        file'[g] = IF At(g, path) THEN [file[g] EXCEPT !.at = "replaced"] ELSE file[g]
  BY DEF Moved
<1>4. /\ file'[f].at = path[1] /\ file'[f].name = path[2] /\ file'[f].bytes = file[f].bytes
      /\ file'[f] \in [at : Places, name : Labels, bytes : Bytes \cup {None}]
  BY <1>1, <1>2 DEF Places
<1>5. ASSUME NEW g \in Files \ {f}
      PROVE  /\ file'[g].name = file[g].name /\ file'[g].bytes = file[g].bytes
             /\ file'[g].at = file[g].at \/ file'[g].at = "replaced"
             /\ file'[g] \in [at : Places, name : Labels, bytes : Bytes \cup {None}]
  BY <1>3, <1>5 DEF Places
<1>6. \A g \in Files : file'[g] \in [at : Places, name : Labels, bytes : Bytes \cup {None}]
  BY <1>4, <1>5
<1>7. file' \in [Files -> [at : Places, name : Labels, bytes : Bytes \cup {None}]]
  BY <1>6 DEF Moved
<1>8. file[f].bytes \in Bytes
  BY DEF Lanes
<1>9. \A g \in Files : /\ file'[g].at \in Sources => file'[g].name \in Names
                       /\ file'[g].at \in Lanes => file'[g].bytes \in Bytes
  BY <1>1, <1>4, <1>5, <1>8 DEF Lanes
<1>10. \A g \in Files : file[g].at \in {"processed", "replaced"} =>
         file'[g].at \in {"processed", "replaced"} /\ file'[g].name = file[g].name
  BY <1>5
<1> QED BY <1>7, <1>9, <1>10

Stays ==
  /\ FilesOK'
  /\ \A g \in Files : file[g].at \in {"processed", "replaced"} =>
       file'[g].at \in {"processed", "replaced"} /\ file'[g].name = file[g].name

LEMMA AtSource ==
  ASSUME Sound, NEW f \in Files, NEW path \in Paths, At(f, path)
  PROVE  file[f].at \in Sources
BY DEF At, Paths, Sources

\* No step takes a file out of processed/.
LEMMA FilesStay ==
  ASSUME Sound, [Next]_vars
  PROVE  Stays
<1> USE DEF Stays, Sound
<1>1. CASE UNCHANGED file
  BY <1>1 DEF FilesOK
<1>2. ASSUME NEW f \in Files, NEW path \in Targets, file[f].at \in Sources, file' = Moved(f, path)
      PROVE Stays
  BY <1>2, Moving
<1>3. ASSUME NEW f \in Files, NEW b \in Bases, NEW c \in Contents, NEW whole \in BOOLEAN,
             Drop(f, b, c, whole)
      PROVE Stays
  <2>1. <<b, 0>> \in Names /\ <<c, whole>> \in Bytes
    BY IngestAssumption DEF Names, Bytes
  <2>2. file' = [file EXCEPT ![f] = [at |-> "inbox", name |-> <<b, 0>>, bytes |-> <<c, whole>>]]
        /\ file[f].at = "outside"
    BY <1>3 DEF Drop
  <2> QED BY <2>1, <2>2 DEF FilesOK, Places, Labels, Lanes, Sources
<1>4. ASSUME NEW f \in Files, FinishCopy(f) PROVE Stays
  <2>1. file[f].bytes \in Bytes /\ <<file[f].bytes[1], TRUE>> \in Bytes
    BY <1>4 DEF FinishCopy, FilesOK, Bytes
  <2>2. file' = [file EXCEPT ![f] = [file[f] EXCEPT !.bytes = <<file[f].bytes[1], TRUE>>]]
    BY <1>4 DEF FinishCopy
  <2> QED BY <2>1, <2>2 DEF FilesOK
<1>5. ASSUME NEW d \in Drainers, NEW p \in todo[d], TakePending(d, p) PROVE Stays
  <2>1. p \in Paths /\ <<"inbox", p[2]>> \in Targets
    BY <1>5 DEF HandsOK, Paths, Targets
  <2> QED BY <1>1, <1>2, <1>5, <2>1, AtSource DEF TakePending
<1>6. ASSUME NEW d \in Drainers, MoveToPending(d) PROVE Stays
  <2>1. cur[d] \in Paths /\ FreeNames("pending", cur[d][2]) \subseteq Names
    BY <1>6 DEF MoveToPending, HandsOK, InDoc, Busy, FreeNames, Paths
  <2>2. \A n \in Names : <<"pending", n>> \in Targets
    BY DEF Targets, Paths
  <2> QED BY <1>1, <1>2, <1>6, <2>1, <2>2, AtSource DEF MoveToPending
<1>7. ASSUME NEW d \in Drainers, Dedup(d) PROVE Stays
  <2>1. cur[d] \in Paths
    BY <1>7 DEF Dedup, HandsOK, InDoc, Busy
  <2>2. CASE file' = [f \in Files |-> IF At(f, cur[d]) THEN [file[f] EXCEPT !.at = "removed"]
                                      ELSE file[f]]
    <3>1. ASSUME NEW g \in Files
          PROVE  /\ file'[g] \in [at : Places, name : Labels, bytes : Bytes \cup {None}]
                 /\ file'[g].name = file[g].name /\ file'[g].bytes = file[g].bytes
                 /\ file'[g].at = file[g].at
                      \/ (file'[g].at = "removed" /\ file[g].at \in Sources)
      BY <2>1, <2>2, <3>1, AtSource DEF FilesOK, Places
    <3>2. file' \in [Files -> [at : Places, name : Labels, bytes : Bytes \cup {None}]]
      BY <2>2, <3>1
    <3> QED BY <3>1, <3>2 DEF FilesOK, Lanes, Sources
  <2> QED BY <1>1, <1>7, <2>2 DEF Dedup
<1>8. ASSUME NEW d \in Drainers, RenameProcessed(d) PROVE Stays
  <2>1. cur[d] \in Paths /\ src[d] \in Names /\ hash[d] \in Bytes
    BY <1>8 DEF RenameProcessed, HandsOK, InDoc, Busy, Hashed
  <2>2. <<"processed", <<IdOf(hash[d]), src[d]>>>> \in Targets
    BY <2>1 DEF Targets, Ids
  <2> QED BY <1>1, <1>2, <1>8, <2>1, <2>2, AtSource DEF RenameProcessed
<1>9. ASSUME NEW d \in Drainers, Route(d) PROVE Stays
  <2>1. cur[d] \in Paths /\ FreeNames("failed", cur[d][2]) \subseteq Names
    BY <1>9 DEF Route, HandsOK, InDoc, Busy, FreeNames, Paths
  <2>2. \A n \in Names : <<"failed", n>> \in Targets
    BY DEF Targets
  <2> QED BY <1>1, <1>2, <1>9, <2>1, <2>2, AtSource DEF Route
<1>10. CASE UNCHANGED vars
  BY <1>1, <1>10 DEF vars, store
<1>11. ASSUME NEW d \in Drainers,
              \/ Boot(d) \/ Exit(d) \/ Fail(d) \/ Mute(d) \/ TimeOut(d) \/ Abort(d) \/ Crash(d)
       PROVE Stays
  BY <1>1, <1>11 DEF Boot, Exit, Fail, Mute, TimeOut, Abort, Crash, store
<1>12. ASSUME NEW d \in Drainers,
              \/ StartDrain(d) \/ List(d) \/ EndDrain(d)
              \/ \E p \in todo[d] : TakeAborted(d, p) \/ TakeInbox(d, p)
              \/ Validate(d) \/ HashStart(d) \/ HashEnd(d) \/ Normalize(d) \/ PersistStart(d)
       PROVE Stays
  BY <1>1, <1>12
     DEF StartDrain, List, EndDrain, TakeAborted, TakeInbox, Validate, HashStart, HashEnd,
         Normalize, PersistStart, store
<1>13. ASSUME NEW d \in Drainers,
              \/ WriteBody(d) \/ PersistCheck(d) \/ Insert(d) \/ Commit(d) \/ Undo(d)
              \/ WriteSidecar(d)
       PROVE Stays
  BY <1>1, <1>13 DEF WriteBody, PersistCheck, Insert, Commit, Undo, WriteSidecar, store
<1> QED
  BY <1>3, <1>4, <1>5, <1>6, <1>7, <1>8, <1>9, <1>10, <1>11, <1>12, <1>13 DEF Next, User, Work

\* Every step leaves each process with a path and a hash where it needs them.
LEMMA Handling ==
  ASSUME Sound, [Next]_vars
  PROVE  HandsOK'
<1> USE DEF HandsOK, InDoc, Busy, Hashed, Goto, locals, signals, store
<1>0. HandsOK /\ FilesOK
  BY DEF Sound
<1>1. CASE UNCHANGED vars \/ User
  BY <1>0, <1>1 DEF vars, User, Drop, FinishCopy
<1>2. ASSUME NEW d \in Drainers, TimeOut(d) \/ Abort(d) PROVE HandsOK'
  BY <1>0, <1>2 DEF TimeOut, Abort
<1>3. ASSUME NEW d \in Drainers, Boot(d) \/ Exit(d) \/ StartDrain(d) \/ EndDrain(d)
      PROVE HandsOK'
  BY <1>0, <1>3 DEF Boot, Exit, StartDrain, EndDrain
<1>4. ASSUME NEW d \in Drainers, Mute(d) \/ Crash(d) PROVE HandsOK'
  BY <1>0, <1>4 DEF Mute, Crash
<1>5. ASSUME NEW d \in Drainers, List(d) PROVE HandsOK'
  <2>1. PathsIn("inbox") \subseteq Paths /\ PathsIn("pending") \subseteq Paths
    BY <1>0 DEF FilesOK, PathsIn, Paths, Sources
  <2> QED BY <1>0, <1>5, <2>1 DEF List
<1>6. ASSUME NEW d \in Drainers, NEW p \in todo[d],
             TakeAborted(d, p) \/ TakeInbox(d, p) \/ TakePending(d, p)
      PROVE HandsOK'
  <2>1. p \in Paths /\ p[2] \in Names /\ <<"inbox", p[2]>> \in Paths
    BY <1>0 DEF Paths
  <2>2. CASE TakeAborted(d, p)
    BY <1>0, <2>1, <2>2 DEF TakeAborted, Take, RouteFrom
  <2>3. CASE TakeInbox(d, p)
    BY <1>0, <2>1, <2>3 DEF TakeInbox, Take
  <2>4. CASE TakePending(d, p)
    BY <1>0, <2>1, <2>4 DEF TakePending, Take
  <2> QED BY <1>6, <2>2, <2>3, <2>4
<1>7. ASSUME NEW d \in Drainers, CatchAll(d), pc[d] \in InDoc \ {"route"},
             UNCHANGED <<todo, src, hash>>
      PROVE HandsOK'
  <2>1. <<"inbox", src[d]>> \in Paths
    BY <1>0, <1>7 DEF Paths
  <2> QED BY <1>0, <1>7, <2>1 DEF CatchAll, RouteFrom
<1>8. ASSUME NEW d \in Drainers, RouteFrom(d, cur[d]), pc[d] \in InDoc,
             UNCHANGED <<todo, src, hash>>
      PROVE HandsOK'
  BY <1>0, <1>8 DEF RouteFrom
<1>9. ASSUME NEW d \in Drainers, NEW l \in Busy, Goto(d, l),
             pc[d] \in InDoc \ {"route"} \/ l = "next",
             l \in Hashed => pc[d] \in Hashed, UNCHANGED <<todo, src, cur, hash>>
      PROVE HandsOK'
  BY <1>0, <1>9
<1>10. ASSUME NEW d \in Drainers, Validate(d) PROVE HandsOK'
  BY <1>7, <1>8, <1>9, <1>10 DEF Validate
<1>11. ASSUME NEW d \in Drainers, MoveToPending(d) PROVE HandsOK'
  <2>1. cur[d] \in Paths /\ FreeNames("pending", cur[d][2]) \subseteq Names
    BY <1>0, <1>11 DEF MoveToPending, FreeNames, Paths
  <2>2. CASE UNCHANGED cur
    BY <1>0, <1>11, <2>2 DEF MoveToPending
  <2>3. ASSUME NEW n \in Names, cur' = [cur EXCEPT ![d] = <<"pending", n>>], Goto(d, "hash")
        PROVE HandsOK'
    <3>1. <<"pending", n>> \in Paths
      BY DEF Paths
    <3> QED BY <1>0, <1>11, <2>3, <3>1 DEF MoveToPending
  <2> QED BY <1>9, <1>11, <2>1, <2>3 DEF MoveToPending
<1>12. ASSUME NEW d \in Drainers, HashStart(d) PROVE HandsOK'
  <2>1. ASSUME NEW f \in Files, At(f, cur[d]), hash' = [hash EXCEPT ![d] = file[f].bytes],
               Goto(d, "hashing"), UNCHANGED cur
        PROVE HandsOK'
    <3>1. pc[d] = "hash" /\ cur[d] \in Paths /\ UNCHANGED <<todo, src>>
      BY <1>0, <1>12 DEF HashStart
    <3>2. file[f].bytes \in Bytes
      BY <1>0, <2>1, <3>1 DEF FilesOK, At, Paths, Lanes
    <3> QED BY <1>0, <2>1, <3>1, <3>2
  <2> QED BY <1>7, <1>8, <1>12, <2>1 DEF HashStart
<1>13. ASSUME NEW d \in Drainers, HashEnd(d) PROVE HandsOK'
  BY <1>7, <1>8, <1>9, <1>13 DEF HashEnd
<1>14. ASSUME NEW d \in Drainers, Dedup(d) \/ Insert(d) \/ RenameProcessed(d) \/ Commit(d)
       PROVE HandsOK'
  BY <1>9, <1>14 DEF Dedup, Insert, RenameProcessed, Commit
<1>15. ASSUME NEW d \in Drainers, Normalize(d) PROVE HandsOK'
  BY <1>7, <1>8, <1>9, <1>15 DEF Normalize
<1>16. ASSUME NEW d \in Drainers, PersistStart(d) \/ PersistCheck(d) PROVE HandsOK'
  BY <1>7, <1>9, <1>16 DEF PersistStart, PersistCheck
<1>17. ASSUME NEW d \in Drainers, WriteBody(d) \/ Undo(d) PROVE HandsOK'
  BY <1>8, <1>9, <1>17 DEF WriteBody, Undo
<1>18. ASSUME NEW d \in Drainers, Route(d) PROVE HandsOK'
  <2>1. cur[d] \in Paths /\ FreeNames("failed", cur[d][2]) \subseteq Names
    BY <1>0, <1>18 DEF Route, FreeNames, Paths
  <2>2. ASSUME NEW n \in Names, src' = [src EXCEPT ![d] = n], Goto(d, "sidecar") PROVE HandsOK'
    BY <1>0, <1>18, <2>1, <2>2 DEF Route
  <2> QED BY <1>9, <1>18, <2>1, <2>2 DEF Route
<1>19. ASSUME NEW d \in Drainers, WriteSidecar(d) PROVE HandsOK'
  BY <1>9, <1>19 DEF WriteSidecar
<1>20. ASSUME NEW d \in Drainers, Fail(d) PROVE HandsOK'
  BY <1>7, <1>8, <1>9, <1>20 DEF Fail
<1> QED
  BY <1>1, <1>2, <1>3, <1>4, <1>5, <1>6, <1>10, <1>11, <1>12, <1>13, <1>14, <1>15, <1>16, <1>17,
     <1>18, <1>19, <1>20 DEF Next, Work

\* The tables, the lock, the counters and the signals keep their types.
LEMMA Keeping ==
  ASSUME Sound, [Next]_vars
  PROVE  StateOK'
<1> USE DEF StateOK, env, locals, signals, store
<1>0. StateOK /\ HandsOK /\ FilesOK
  BY DEF Sound
<1>1. CASE UNCHANGED vars \/ User
  BY <1>0, <1>1 DEF vars, User, Drop, FinishCopy
<1>2. ASSUME NEW d \in Drainers,
             TimeOut(d) \/ Abort(d) \/ Boot(d) \/ Exit(d) \/ StartDrain(d) \/ EndDrain(d)
      PROVE StateOK'
  BY <1>0, <1>2 DEF TimeOut, Abort, Boot, Exit, StartDrain, EndDrain
<1>3. ASSUME NEW d \in Drainers, NEW b \in Bytes \cup {None},
             bodies' = bodies \/ bodies' = [bodies EXCEPT ![IdOf(hash[d])] = b],
             hash[d] \in Bytes
      PROVE bodies' \in [Ids -> Bytes \cup {None}]
  <2>1. IdOf(hash[d]) \in Ids
    BY <1>3 DEF Ids
  <2> QED BY <1>0, <1>3, <2>1
<1>4. ASSUME NEW d \in Drainers, Mute(d) PROVE StateOK'
  <2>1. CASE pc[d] = "undo"
    <3>1. hash[d] \in Bytes
      BY <1>0, <2>1 DEF HandsOK, Hashed
    <3>2. bodies' \in [Ids -> Bytes \cup {None}]
      BY <1>3, <1>4, <2>1, <3>1 DEF Mute
    <3> QED BY <1>0, <1>4, <3>2 DEF Mute
  <2>2. CASE pc[d] # "undo"
    BY <1>0, <1>4, <2>2 DEF Mute
  <2> QED BY <2>1, <2>2
<1>5. ASSUME NEW d \in Drainers, Crash(d) PROVE StateOK'
  <2>1. crashes' \in 0 .. MaxCrashes
    BY IngestAssumption, <1>0, <1>5 DEF Crash
  <2> QED BY <1>0, <1>5, <2>1 DEF Crash
<1>6. ASSUME NEW d \in Drainers,
             \/ \E p \in todo[d] : TakeAborted(d, p) \/ TakeInbox(d, p) \/ TakePending(d, p)
             \/ List(d) \/ Validate(d) \/ MoveToPending(d) \/ HashStart(d) \/ HashEnd(d)
             \/ Dedup(d) \/ PersistStart(d) \/ PersistCheck(d) \/ Route(d)
      PROVE StateOK'
  BY <1>0, <1>6 DEF TakeAborted, TakeInbox, TakePending, List, Validate, MoveToPending,
       HashStart, HashEnd, Dedup, PersistStart, PersistCheck, Route
<1>7. ASSUME NEW d \in Drainers, Normalize(d) PROVE StateOK'
  BY <1>0, <1>7 DEF Normalize, FilesOK
<1>8. ASSUME NEW d \in Drainers, WriteBody(d) \/ Undo(d) PROVE StateOK'
  <2>1. hash[d] \in Bytes
    BY <1>0, <1>8 DEF WriteBody, Undo, HandsOK, Hashed
  <2>2. bodies' \in [Ids -> Bytes \cup {None}]
    BY <1>0, <1>3, <1>8, <2>1 DEF WriteBody, Undo
  <2> QED BY <1>0, <1>8, <2>2 DEF WriteBody, Undo
<1>9. ASSUME NEW d \in Drainers, Insert(d) \/ RenameProcessed(d) \/ Fail(d) PROVE StateOK'
  BY <1>0, <1>9 DEF Insert, RenameProcessed, Fail
<1>10. ASSUME NEW d \in Drainers, Commit(d) PROVE StateOK'
  <2>1. hash[d] \in Bytes
    BY <1>0, <1>10 DEF Commit, HandsOK, Hashed
  <2>2. IdOf(hash[d]) \in Ids
    BY <2>1 DEF Ids
  <2>3. rows' \subseteq Row
    BY <1>0, <1>10, <2>1, <2>2 DEF Commit, Row
  <2> QED BY <1>0, <1>10, <2>3 DEF Commit
<1>11. ASSUME NEW d \in Drainers, WriteSidecar(d) PROVE StateOK'
  <2>1. src[d] \in Names
    BY <1>0, <1>11 DEF WriteSidecar, HandsOK, InDoc, Busy
  <2> QED BY <1>0, <1>11, <2>1 DEF WriteSidecar
<1> QED
  BY <1>1, <1>2, <1>4, <1>5, <1>6, <1>7, <1>8, <1>9, <1>10, <1>11 DEF Next, Work

LEMMA AlwaysSound == Spec => []Sound
<1>1. Init => Sound
  <2> SUFFICES ASSUME Init PROVE Sound
    OBVIOUS
  <2>1. FilesOK
    BY DEF Init, FilesOK, Places, Lanes, Labels, Sources
  <2>2. HandsOK
    BY DEF Init, HandsOK, InDoc, Busy, Hashed
  <2>3. 0 \in 0 .. MaxCrashes
    BY IngestAssumption
  <2>4. StateOK
    BY <2>3 DEF Init, StateOK
  <2> QED BY <2>1, <2>2, <2>4 DEF Sound
<1>2. Sound /\ [Next]_vars => Sound'
  BY FilesStay, Handling, Keeping DEF Stays, Sound
<1> QED
  BY <1>1, <1>2, PTL DEF Spec

\* Every variable of the pipeline keeps its type, for any files, names and drainers.
THEOREM TypeCorrect == Spec => []TypeOK
<1>1. Sound => TypeOK
  BY DEF Sound, FilesOK, HandsOK, StateOK, TypeOK, Places, Labels
<1> QED
  BY <1>1, AlwaysSound, PTL

----------------------------------------------------------------------------
\* BEGIN IMMEDIATE: from INSERT to COMMIT there is one writer, and nobody adds a row.
LEMMA WritersKept ==
  ASSUME Sound, SoleWriter, [Next]_vars
  PROVE  SoleWriter'
<1> USE DEF SoleWriter, Conflicts, Goto, locals, signals, store, env
<1> DEFINE In(x) == x \in {"rename", "commit"}
<1>0. pc \in [Drainers -> Busy \cup {"down", "idle"}] /\ None \notin Drainers
  BY IngestAssumption DEF Sound, HandsOK
<1>1. ASSUME UNCHANGED <<writer, rows>>,
             \A e \in Drainers : In(pc'[e]) => In(pc[e]) /\ hash'[e] = hash[e]
      PROVE  SoleWriter'
  BY <1>1
<1>2. CASE UNCHANGED vars \/ User
  BY <1>1, <1>2 DEF vars, User, Drop, FinishCopy
<1>3. ASSUME NEW d \in Drainers, UNCHANGED <<writer, rows, hash>>,
             NEW l \in Busy \cup {"down", "idle"}, ~In(l), Goto(d, l)
      PROVE  SoleWriter'
  BY <1>0, <1>1, <1>3
<1>4. ASSUME NEW d \in Drainers, Insert(d) PROVE SoleWriter'
  <2>1. \A e \in Drainers : ~In(pc[e])
    BY <1>0, <1>4 DEF Insert
  <2> QED BY <1>0, <1>4, <2>1 DEF Insert
<1>5. ASSUME NEW d \in Drainers, RenameProcessed(d) \/ Commit(d) PROVE SoleWriter'
  <2>1. \A e \in Drainers \ {d} : ~In(pc[e])
    BY <1>5 DEF RenameProcessed, Commit
  <2>2. CASE RenameProcessed(d)
    BY <1>0, <2>1, <2>2 DEF RenameProcessed
  <2>3. CASE Commit(d)
    BY <1>0, <2>1, <2>3 DEF Commit
  <2> QED BY <1>5, <2>2, <2>3
<1>6. ASSUME NEW d \in Drainers, NEW l \in Busy \cup {"down", "idle"}, ~In(l), Goto(d, l),
             writer' = IF writer = d THEN None ELSE writer, UNCHANGED <<rows, hash>>
      PROVE  SoleWriter'
  BY <1>0, <1>6
<1>7. ASSUME NEW d \in Drainers, Fail(d) PROVE SoleWriter'
  BY <1>3, <1>6, <1>7 DEF Fail, RouteFrom, CatchAll, Busy
<1>8. ASSUME NEW d \in Drainers, Crash(d) PROVE SoleWriter'
  BY <1>6, <1>8 DEF Crash
<1>9. ASSUME NEW d \in Drainers, TimeOut(d) \/ Abort(d) PROVE SoleWriter'
  BY <1>1, <1>9 DEF TimeOut, Abort
<1>10. ASSUME NEW d \in Drainers,
              Boot(d) \/ Exit(d) \/ StartDrain(d) \/ EndDrain(d) \/ List(d) \/ Mute(d)
       PROVE SoleWriter'
  BY <1>1, <1>3, <1>10 DEF Boot, Exit, StartDrain, EndDrain, List, Mute, Busy
<1>11. ASSUME NEW d \in Drainers, NEW p \in todo[d],
              TakeAborted(d, p) \/ TakeInbox(d, p) \/ TakePending(d, p)
       PROVE SoleWriter'
  BY <1>3, <1>11 DEF TakeAborted, TakeInbox, TakePending, RouteFrom, Busy
<1>12. ASSUME NEW d \in Drainers,
              \/ Validate(d) \/ MoveToPending(d) \/ HashEnd(d) \/ Dedup(d) \/ Normalize(d)
              \/ PersistStart(d) \/ WriteBody(d) \/ PersistCheck(d)
              \/ Undo(d) \/ Route(d) \/ WriteSidecar(d)
       PROVE SoleWriter'
  BY <1>3, <1>12
     DEF Validate, MoveToPending, HashEnd, Dedup, Normalize, PersistStart, WriteBody,
         PersistCheck, Undo, Route, WriteSidecar, RouteFrom, CatchAll, Busy
<1>13. ASSUME NEW d \in Drainers, HashStart(d) PROVE SoleWriter'
  <2>1. \A e \in Drainers \ {d} : hash'[e] = hash[e]
    BY <1>13 DEF HashStart, Sound, HandsOK
  <2>2. pc' \in [Drainers -> Busy \cup {"down", "idle"}] /\ ~In(pc'[d])
        /\ \A e \in Drainers \ {d} : pc'[e] = pc[e]
    BY <1>0, <1>13 DEF HashStart, RouteFrom, CatchAll, Busy
  <2> QED BY <1>1, <1>13, <2>1, <2>2 DEF HashStart
<1> QED
  BY <1>2, <1>4, <1>5, <1>7, <1>8, <1>9, <1>10, <1>11, <1>12, <1>13 DEF Next, Work

\* Only a COMMIT changes the table.
LEMMA RowsChange ==
  ASSUME [Next]_vars
  PROVE  UNCHANGED rows \/ \E d \in Drainers : Commit(d)
<1> USE DEF store
<1>1. CASE UNCHANGED vars \/ User
  BY <1>1 DEF vars, User, Drop, FinishCopy
<1>2. ASSUME NEW d \in Drainers,
             \/ Boot(d) \/ Exit(d) \/ Fail(d) \/ Mute(d) \/ TimeOut(d) \/ Abort(d) \/ Crash(d)
             \/ StartDrain(d) \/ List(d) \/ EndDrain(d)
             \/ \E p \in todo[d] : TakeAborted(d, p) \/ TakeInbox(d, p) \/ TakePending(d, p)
      PROVE UNCHANGED rows
  BY <1>2 DEF Boot, Exit, Fail, Mute, TimeOut, Abort, Crash, StartDrain, List, EndDrain,
       TakeAborted, TakeInbox, TakePending
<1>3. ASSUME NEW d \in Drainers,
             \/ Validate(d) \/ MoveToPending(d) \/ HashStart(d) \/ HashEnd(d) \/ Dedup(d)
             \/ Normalize(d) \/ PersistStart(d) \/ WriteBody(d) \/ PersistCheck(d)
             \/ Insert(d) \/ RenameProcessed(d) \/ Undo(d) \/ Route(d) \/ WriteSidecar(d)
      PROVE UNCHANGED rows
  BY <1>3 DEF Validate, MoveToPending, HashStart, HashEnd, Dedup, Normalize, PersistStart,
       WriteBody, PersistCheck, Insert, RenameProcessed, Undo, Route, WriteSidecar
<1> QED BY <1>1, <1>2, <1>3 DEF Next, Work

\* The file of a new row is in processed/ under the row's id.
LEMMA RowsKept ==
  ASSUME Sound, SoleWriter, SourcesKept, OneRowPerContent, [Next]_vars
  PROVE  SourcesKept' /\ OneRowPerContent'
<1> USE DEF SourcesKept, OneRowPerContent
<1>1. \A g \in Files : file[g].at \in {"processed", "replaced"} =>
        file'[g].at \in {"processed", "replaced"} /\ file'[g].name = file[g].name
  BY FilesStay DEF Stays
<1>2. \A r \in rows : r.of \in Files
  BY DEF Sound, StateOK, Row
<1>3. CASE UNCHANGED rows
  BY <1>1, <1>2, <1>3
<1>4. ASSUME NEW d \in Drainers, Commit(d) PROVE SourcesKept' /\ OneRowPerContent'
  <2>1. PICK f \in Files :
          /\ file[f].at = "processed" /\ file[f].name = <<IdOf(hash[d]), src[d]>>
          /\ rows' = rows \cup {[id |-> IdOf(hash[d]), hash |-> hash[d], of |-> f]}
    BY <1>4 DEF Commit, At
  <2>2. \A r \in rows : r.id # IdOf(hash[d]) /\ r.hash # hash[d]
    BY <1>4 DEF Commit, SoleWriter, Conflicts
  <2>3. \A r \in rows : r.of # f
    BY <2>1, <2>2
  <2>4. SourcesKept'
    BY <1>1, <1>2, <2>1
  <2> QED BY <2>1, <2>2, <2>3, <2>4
<1> QED
  BY <1>3, <1>4, RowsChange

\* findDocumentByHash, the primary key and the UNIQUE constraint: whatever drains overlap,
\* time out, fail or die, no two documents have one content, or come from one file.
THEOREM ContentsAreUnique == Spec => []OneRowPerContent
<1>1. Init => SoleWriter /\ SourcesKept /\ OneRowPerContent
  BY DEF Init, SoleWriter, SourcesKept, OneRowPerContent
<1> QED
  BY <1>1, AlwaysSound, WritersKept, RowsKept, PTL DEF Spec

----------------------------------------------------------------------------
(* Steps, for the theorems below: who acts, and where files come to be. *)

Acts(d) ==
  \/ Boot(d) \/ Work(d) \/ Exit(d) \/ Fail(d) \/ Mute(d) \/ TimeOut(d) \/ Abort(d) \/ Crash(d)

Mine(d) == <<pc[d], todo[d], src[d], cur[d], hash[d], text[d], stop[d], cut[d]>>

LEMMA Actors ==
  ASSUME [Next]_vars
  PROVE  \/ \E d \in Drainers : Acts(d)
         \/ User /\ UNCHANGED <<rows, bodies, sidecars, holder, writer, pc, locals, signals>>
         \/ UNCHANGED vars
BY DEF Next, Acts, User, Drop, FinishCopy

\* A process touches its own variables only.
LEMMA Aside ==
  ASSUME Sound, NEW d \in Drainers, Acts(d), NEW e \in Drainers, e # d
  PROVE  UNCHANGED Mine(e)
<1> USE DEF Mine, Sound, HandsOK, StateOK, Goto, locals, signals, RouteFrom, CatchAll, Take
<1>1. CASE Boot(d) \/ Exit(d) \/ Fail(d) \/ Mute(d) \/ TimeOut(d) \/ Abort(d) \/ Crash(d)
  BY <1>1 DEF Boot, Exit, Fail, Mute, TimeOut, Abort, Crash
<1>2. CASE StartDrain(d) \/ List(d) \/ EndDrain(d)
           \/ \E p \in todo[d] : TakeAborted(d, p) \/ TakeInbox(d, p) \/ TakePending(d, p)
  BY <1>2 DEF StartDrain, List, EndDrain, TakeAborted, TakeInbox, TakePending
<1>3. CASE Validate(d) \/ MoveToPending(d) \/ HashStart(d) \/ HashEnd(d) \/ Dedup(d)
           \/ Normalize(d)
  BY <1>3 DEF Validate, MoveToPending, HashStart, HashEnd, Dedup, Normalize
<1>4. CASE PersistStart(d) \/ WriteBody(d) \/ PersistCheck(d) \/ Insert(d)
           \/ RenameProcessed(d) \/ Commit(d) \/ Undo(d) \/ Route(d) \/ WriteSidecar(d)
  BY <1>4 DEF PersistStart, WriteBody, PersistCheck, Insert, RenameProcessed, Commit, Undo,
       Route, WriteSidecar
<1> QED
  BY <1>1, <1>2, <1>3, <1>4 DEF Acts, Work

\* Two files are never at one path.
UniquePaths ==
  \A f, g \in Files : file[f].at \in Lanes /\ file[g].at = file[f].at /\ file[g].name = file[f].name
                        => f = g

\* What rename(2) does to the file it moves and to the others.
LEMMA MovedTo ==
  ASSUME FilesOK, NEW f \in Files, NEW path \in Targets, file' = Moved(f, path)
  PROVE  /\ file'[f].at = path[1] /\ file'[f].name = path[2] /\ file'[f].bytes = file[f].bytes
         /\ \A g \in Files \ {f} :
              /\ file'[g].name = file[g].name /\ file'[g].bytes = file[g].bytes
              /\ ~At(g, path) => file'[g].at = file[g].at
              /\ At(g, path) => file'[g].at = "replaced"
<1> USE DEF FilesOK
<1>1. file'[f] = [file[f] EXCEPT !.at = path[1], !.name = path[2]]
  BY DEF Moved
<1>2. \A g \in Files \ {f} :
        file'[g] = IF At(g, path) THEN [file[g] EXCEPT !.at = "replaced"] ELSE file[g]
  BY DEF Moved
<1>3. \A g \in Files : file[g] \in [at : Places, name : Labels, bytes : Bytes \cup {None}]
  OBVIOUS
<1>4. /\ file'[f].at = path[1] /\ file'[f].name = path[2] /\ file'[f].bytes = file[f].bytes
  BY <1>1, <1>3
<1>5. ASSUME NEW g \in Files \ {f}
      PROVE  /\ file'[g].name = file[g].name /\ file'[g].bytes = file[g].bytes
             /\ ~At(g, path) => file'[g].at = file[g].at
             /\ At(g, path) => file'[g].at = "replaced"
  BY <1>2, <1>3
<1> QED BY <1>4, <1>5

\* d renames f to path: back to the inbox, to pending/, to processed/ or to failed/.
Renames(d, f, path) ==
  /\ file[f].at \in Sources /\ path \in Targets /\ file' = Moved(f, path)
  /\ \/ /\ pc[d] = "next" /\ pc'[d] = "validate" /\ file[f].at = "pending"
        /\ path = <<"inbox", file[f].name>>
        /\ <<"pending", file[f].name>> \in todo[d]
        /\ todo'[d] = todo[d] \ {<<"pending", file[f].name>>}
        /\ src'[d] = file[f].name /\ cur'[d] = path
     \/ /\ pc[d] = "move" /\ pc'[d] = "hash" /\ At(f, cur[d]) /\ path[1] = "pending"
        /\ path[2] \in FreeNames("pending", cur[d][2])
        /\ cur'[d] = path /\ src'[d] = src[d] /\ todo'[d] = todo[d]
     \/ /\ pc[d] = "rename" /\ pc'[d] = "commit" /\ At(f, cur[d])
        /\ path = <<"processed", <<IdOf(hash[d]), src[d]>>>>
        /\ UNCHANGED <<src, hash, todo, cur, text>>
     \/ /\ pc[d] = "route" /\ pc'[d] = "sidecar" /\ At(f, cur[d]) /\ path[1] = "failed"
        /\ path[2] \in FreeNames("failed", cur[d][2])
        /\ src'[d] = path[2] /\ todo'[d] = todo[d]

\* d removes a duplicate from pending/.
Drops(d) ==
  /\ pc[d] = "dedup" /\ \E r \in rows : r.hash = hash[d]
  /\ file' = [f \in Files |-> IF At(f, cur[d]) THEN [file[f] EXCEPT !.at = "removed"] ELSE file[f]]
  /\ Goto(d, "next")

LEMMA FileSteps ==
  ASSUME Sound, [Next]_vars
  PROVE  \/ UNCHANGED file
         \/ \E f \in Files : FinishCopy(f)
         \/ \E f \in Files, b \in Bases, c \in Contents, w \in BOOLEAN : Drop(f, b, c, w)
         \/ \E d \in Drainers, f \in Files : \E path \in Targets : Renames(d, f, path)
         \/ \E d \in Drainers : Drops(d)
<1> USE DEF Sound, HandsOK, Goto
<1>1. CASE UNCHANGED vars
  BY <1>1 DEF vars, store
<1>2. CASE User
  BY <1>2 DEF User
<1>3. ASSUME NEW d \in Drainers, NEW p \in todo[d], TakePending(d, p)
      PROVE  UNCHANGED file \/ \E f \in Files : \E path \in Targets : Renames(d, f, path)
  <2>1. p \in Paths /\ <<"inbox", p[2]>> \in Targets /\ p[1] = "pending" /\ pc[d] = "next"
    BY <1>3 DEF TakePending, Take, Paths, Targets
  <2>2. p = <<"pending", p[2]>>
    BY <2>1 DEF Paths
  <2>3. ASSUME NEW f \in Files, At(f, p), file' = Moved(f, <<"inbox", p[2]>>), Goto(d, "validate")
        PROVE  Renames(d, f, <<"inbox", p[2]>>)
    <3>1. file[f].at = "pending" /\ file[f].name = p[2] /\ p = <<"pending", file[f].name>>
      BY <2>1, <2>2, <2>3 DEF At
    <3>2. todo'[d] = todo[d] \ {p} /\ src'[d] = p[2] /\ cur'[d] = <<"inbox", p[2]>>
      BY <1>3 DEF TakePending, Take
    <3>3. pc'[d] = "validate"
      BY <2>3
    <3> QED BY <2>1, <2>3, <3>1, <3>2, <3>3 DEF Renames, Sources
  <2> QED BY <1>3, <2>1, <2>3 DEF TakePending
<1>4. ASSUME NEW d \in Drainers, MoveToPending(d)
      PROVE  UNCHANGED file \/ \E f \in Files : \E path \in Targets : Renames(d, f, path)
  <2>1. cur[d] \in Paths /\ FreeNames("pending", cur[d][2]) \subseteq Names
    BY <1>4 DEF MoveToPending, InDoc, Busy, FreeNames, Paths
  <2>2. \A n \in Names : <<"pending", n>> \in Targets
    BY DEF Targets, Paths
  <2>3. ASSUME NEW f \in Files, NEW n \in FreeNames("pending", cur[d][2]), At(f, cur[d]),
               file' = Moved(f, <<"pending", n>>), cur' = [cur EXCEPT ![d] = <<"pending", n>>],
               pc' = [pc EXCEPT ![d] = "hash"]
        PROVE  Renames(d, f, <<"pending", n>>)
    <3>1. file[f].at \in Sources
      BY <2>1, <2>3, AtSource DEF Sound
    <3> QED BY <1>4, <2>1, <2>2, <2>3, <3>1 DEF Renames, MoveToPending
  <2> QED BY <1>4, <2>1, <2>2, <2>3 DEF MoveToPending
<1>5. ASSUME NEW d \in Drainers, RenameProcessed(d)
      PROVE  UNCHANGED file \/ \E f \in Files : \E path \in Targets : Renames(d, f, path)
  <2>1. cur[d] \in Paths /\ src[d] \in Names /\ hash[d] \in Bytes
    BY <1>5 DEF RenameProcessed, InDoc, Busy, Hashed
  <2>2. <<"processed", <<IdOf(hash[d]), src[d]>>>> \in Targets
    BY <2>1 DEF Targets, Ids
  <2>3. ASSUME NEW f \in Files, At(f, cur[d]), pc' = [pc EXCEPT ![d] = "commit"],
               file' = Moved(f, <<"processed", <<IdOf(hash[d]), src[d]>>>>)
        PROVE  Renames(d, f, <<"processed", <<IdOf(hash[d]), src[d]>>>>)
    <3>1. file[f].at \in Sources
      BY <2>1, <2>3, AtSource DEF Sound
    <3> QED BY <1>5, <2>1, <2>2, <2>3, <3>1 DEF Renames, RenameProcessed, locals
  <2> QED BY <1>5, <2>2, <2>3 DEF RenameProcessed
<1>6. ASSUME NEW d \in Drainers, Route(d)
      PROVE  UNCHANGED file \/ \E f \in Files : \E path \in Targets : Renames(d, f, path)
  <2>1. cur[d] \in Paths /\ FreeNames("failed", cur[d][2]) \subseteq Names
    BY <1>6 DEF Route, InDoc, Busy, FreeNames, Paths
  <2>2. \A n \in Names : <<"failed", n>> \in Targets
    BY DEF Targets
  <2>3. ASSUME NEW f \in Files, NEW n \in FreeNames("failed", cur[d][2]), At(f, cur[d]),
               file' = Moved(f, <<"failed", n>>), src' = [src EXCEPT ![d] = n],
               pc' = [pc EXCEPT ![d] = "sidecar"]
        PROVE  Renames(d, f, <<"failed", n>>)
    <3>1. file[f].at \in Sources
      BY <2>1, <2>3, AtSource DEF Sound
    <3> QED BY <1>6, <2>1, <2>2, <2>3, <3>1 DEF Renames, Route
  <2> QED BY <1>6, <2>1, <2>2, <2>3 DEF Route
<1>7. ASSUME NEW d \in Drainers, Dedup(d) PROVE UNCHANGED file \/ Drops(d)
  BY <1>7 DEF Dedup, Drops
<1>8. ASSUME NEW d \in Drainers,
             \/ Boot(d) \/ Exit(d) \/ Fail(d) \/ Mute(d) \/ TimeOut(d) \/ Abort(d) \/ Crash(d)
             \/ StartDrain(d) \/ List(d) \/ EndDrain(d)
             \/ \E p \in todo[d] : TakeAborted(d, p) \/ TakeInbox(d, p)
      PROVE UNCHANGED file
  BY <1>8 DEF Boot, Exit, Fail, Mute, TimeOut, Abort, Crash, StartDrain, List, EndDrain,
       TakeAborted, TakeInbox, store
<1>9. ASSUME NEW d \in Drainers,
             \/ Validate(d) \/ HashStart(d) \/ HashEnd(d) \/ Normalize(d) \/ PersistStart(d)
             \/ WriteBody(d) \/ PersistCheck(d) \/ Insert(d) \/ Commit(d) \/ Undo(d)
             \/ WriteSidecar(d)
      PROVE UNCHANGED file
  BY <1>9 DEF Validate, HashStart, HashEnd, Normalize, PersistStart, WriteBody, PersistCheck,
       Insert, Commit, Undo, WriteSidecar, store
<1> QED
  BY <1>1, <1>2, <1>3, <1>4, <1>5, <1>6, <1>7, <1>8, <1>9 DEF Next, Work

LEMMA PathsKept ==
  ASSUME Sound, UniquePaths, [Next]_vars
  PROVE  UniquePaths'
<1> USE DEF UniquePaths, Sound
<1>1. CASE UNCHANGED file
  BY <1>1
<1>2. ASSUME NEW f \in Files, FinishCopy(f) PROVE UniquePaths'
  <2>1. file' = [file EXCEPT ![f] = [file[f] EXCEPT !.bytes = <<file[f].bytes[1], TRUE>>]]
    BY <1>2 DEF FinishCopy
  <2>2. \A g \in Files : file'[g].at = file[g].at /\ file'[g].name = file[g].name
    BY <2>1 DEF FilesOK
  <2> QED BY <2>2
<1>3. ASSUME NEW f \in Files, NEW b \in Bases, NEW c \in Contents, NEW w \in BOOLEAN,
             Drop(f, b, c, w)
      PROVE UniquePaths'
  <2>1. /\ ~Exists(<<"inbox", <<b, 0>>>>)
        /\ file' = [file EXCEPT ![f] = [at |-> "inbox", name |-> <<b, 0>>, bytes |-> <<c, w>>]]
    BY <1>3 DEF Drop
  <2>2. \A g \in Files : ~(file[g].at = "inbox" /\ file[g].name = <<b, 0>>)
    BY <2>1 DEF Exists, At
  <2> QED BY <2>1, <2>2 DEF FilesOK
<1>4. ASSUME NEW d \in Drainers, NEW f \in Files, NEW path \in Targets, Renames(d, f, path)
      PROVE UniquePaths'
  <2>1. file' = Moved(f, path)
    BY <1>4 DEF Renames
  <2>2. /\ file'[f].at = path[1] /\ file'[f].name = path[2]
        /\ \A g \in Files \ {f} : /\ file'[g].name = file[g].name
                                  /\ ~At(g, path) => file'[g].at = file[g].at
                                  /\ At(g, path) => file'[g].at = "replaced"
    BY <2>1, MovedTo
  <2> QED BY <2>2 DEF At, Lanes
<1>5. ASSUME NEW d \in Drainers, Drops(d) PROVE UniquePaths'
  <2>1. \A g \in Files : /\ file'[g].name = file[g].name
                         /\ file'[g].at = file[g].at \/ file'[g].at = "removed"
    BY <1>5 DEF Drops, FilesOK
  <2> QED BY <2>1 DEF Lanes
<1> QED
  BY <1>1, <1>2, <1>3, <1>4, <1>5, FileSteps

\* A file comes to failed/ by routeToFailed, to processed/ by persist, and stays there
\* under its name.
LEMMA Arrivals ==
  ASSUME Sound, [Next]_vars, NEW f \in Files
  PROVE  /\ file'[f].at = "failed" =>
              \/ file[f].at = "failed" /\ file'[f].name = file[f].name
              \/ \E d \in Drainers : pc'[d] = "sidecar" /\ src'[d] = file'[f].name
         /\ file'[f].at = "processed" =>
              \/ file[f].at = "processed" /\ file'[f].name = file[f].name
              \/ \E d \in Drainers : /\ pc'[d] = "commit"
                                     /\ file'[f].name = <<IdOf(hash'[d]), src'[d]>>
<1> USE DEF Sound
<1>1. CASE UNCHANGED file
  BY <1>1
<1>2. ASSUME NEW g \in Files, FinishCopy(g)
      PROVE file'[f].at = file[f].at /\ file'[f].name = file[f].name
  <2>1. file' = [file EXCEPT ![g] = [file[g] EXCEPT !.bytes = <<file[g].bytes[1], TRUE>>]]
    BY <1>2 DEF FinishCopy
  <2> QED BY <2>1 DEF FilesOK
<1>3. ASSUME NEW g \in Files, NEW b \in Bases, NEW c \in Contents, NEW w \in BOOLEAN,
             Drop(g, b, c, w)
      PROVE file'[f] = file[f] \/ file'[f].at = "inbox"
  BY <1>3 DEF Drop, FilesOK
<1>4. ASSUME NEW d \in Drainers, NEW g \in Files, NEW path \in Targets, Renames(d, g, path),
             file'[f].at \in {"failed", "processed"}
      PROVE \/ file'[f].at = file[f].at /\ file'[f].name = file[f].name
            \/ file'[f].at = "failed" /\ pc'[d] = "sidecar" /\ src'[d] = file'[f].name
            \/ file'[f].at = "processed" /\ pc'[d] = "commit"
                 /\ file'[f].name = <<IdOf(hash'[d]), src'[d]>>
  <2>1. file' = Moved(g, path)
    BY <1>4 DEF Renames
  <2>2. /\ file'[g].at = path[1] /\ file'[g].name = path[2]
        /\ \A h \in Files \ {g} : /\ file'[h].name = file[h].name
                                  /\ ~At(h, path) => file'[h].at = file[h].at
                                  /\ At(h, path) => file'[h].at = "replaced"
    BY <2>1, MovedTo
  <2>3. CASE f # g
    BY <1>4, <2>2, <2>3
  <2>4. CASE f = g
    BY <1>4, <2>2, <2>4 DEF Renames
  <2> QED BY <2>3, <2>4
<1>5. ASSUME NEW d \in Drainers, Drops(d)
      PROVE /\ file'[f].name = file[f].name
            /\ file'[f].at = file[f].at \/ file'[f].at = "removed"
  BY <1>5 DEF Drops, FilesOK
<1> QED
  BY <1>1, <1>2, <1>3, <1>4, <1>5, FileSteps

\* Rows and sidecars stay.
LEMMA StoreGrows ==
  ASSUME [Next]_vars
  PROVE  rows \subseteq rows' /\ sidecars \subseteq sidecars'
<1> USE DEF store
<1>1. CASE UNCHANGED vars \/ User
  BY <1>1 DEF vars, User, Drop, FinishCopy
<1>2. ASSUME NEW d \in Drainers,
             \/ Boot(d) \/ Exit(d) \/ Fail(d) \/ Mute(d) \/ TimeOut(d) \/ Abort(d) \/ Crash(d)
             \/ StartDrain(d) \/ List(d) \/ EndDrain(d)
             \/ \E p \in todo[d] : TakeAborted(d, p) \/ TakeInbox(d, p) \/ TakePending(d, p)
      PROVE rows \subseteq rows' /\ sidecars \subseteq sidecars'
  BY <1>2 DEF Boot, Exit, Fail, Mute, TimeOut, Abort, Crash, StartDrain, List, EndDrain,
       TakeAborted, TakeInbox, TakePending
<1>3. ASSUME NEW d \in Drainers,
             \/ Validate(d) \/ MoveToPending(d) \/ HashStart(d) \/ HashEnd(d) \/ Dedup(d)
             \/ Normalize(d) \/ PersistStart(d) \/ WriteBody(d) \/ PersistCheck(d)
             \/ Insert(d) \/ RenameProcessed(d) \/ Undo(d) \/ Route(d)
             \/ WriteSidecar(d) \/ Commit(d)
      PROVE rows \subseteq rows' /\ sidecars \subseteq sidecars'
  BY <1>3 DEF Validate, MoveToPending, HashStart, HashEnd, Dedup, Normalize, PersistStart,
       WriteBody, PersistCheck, Insert, RenameProcessed, Undo, Route, WriteSidecar, Commit
<1> QED BY <1>1, <1>2, <1>3 DEF Next, Work

----------------------------------------------------------------------------
\* A process that moved a file to failed/ goes on to its sidecar.
LEMMA SidecarNext ==
  ASSUME "sidecar" \notin CrashAt \cup FailAt, Sound, [Next]_vars,
         NEW d \in Drainers, pc[d] = "sidecar"
  PROVE  (pc'[d] = "sidecar" /\ src'[d] = src[d]) \/ src[d] \in sidecars'
<1>1. CASE UNCHANGED <<pc, src>>
  BY <1>1
<1>2. CASE User \/ UNCHANGED vars
  BY <1>1, <1>2 DEF User, Drop, FinishCopy, vars, locals
<1>3. ASSUME NEW e \in Drainers, Acts(e), e # d PROVE UNCHANGED <<pc[d], src[d]>>
  BY <1>3, Aside DEF Mine
<1>4. CASE Acts(d)
  BY <1>1, <1>4 DEF Acts, Work, Boot, Exit, Fail, Mute, TimeOut, Abort, Crash, StartDrain, List,
     EndDrain, TakeAborted, TakeInbox, TakePending, Take, Validate, MoveToPending, HashStart,
     HashEnd, Dedup, Normalize, PersistStart, WriteBody, PersistCheck, Insert, RenameProcessed,
     Commit, Undo, Route, WriteSidecar, locals
<1> QED BY <1>2, <1>3, <1>4, Actors

SidecarKept ==
  \A f \in Files : file[f].at = "failed" =>
    file[f].name \in sidecars \/ \E d \in Drainers : pc[d] = "sidecar" /\ src[d] = file[f].name

\* routeToFailed, then its sidecar: a file in failed/ has its sidecar and no row, whatever
\* drains overlap, time out or are told to stop, unless one is killed, or the write fails,
\* between the two (failure-lane.ts).
THEOREM FailedFilesExplained ==
  ASSUME "sidecar" \notin CrashAt \cup FailAt
  PROVE  Spec => []FailedHasSidecar
<1>1. Init => SidecarKept /\ SoleWriter /\ SourcesKept /\ OneRowPerContent
  BY DEF Init, SidecarKept, SoleWriter, SourcesKept, OneRowPerContent
<1>2. ASSUME Sound, SidecarKept, [Next]_vars PROVE SidecarKept'
  <2>1. SUFFICES ASSUME NEW f \in Files, file'[f].at = "failed"
                 PROVE  \/ file'[f].name \in sidecars'
                        \/ \E d \in Drainers : pc'[d] = "sidecar" /\ src'[d] = file'[f].name
    BY DEF SidecarKept
  <2>2. CASE file[f].at = "failed" /\ file'[f].name = file[f].name
    <3>1. CASE file[f].name \in sidecars
      BY <1>2, <2>2, <3>1, StoreGrows
    <3>2. ASSUME NEW d \in Drainers, pc[d] = "sidecar", src[d] = file[f].name
          PROVE  \/ file'[f].name \in sidecars'
                 \/ pc'[d] = "sidecar" /\ src'[d] = file'[f].name
      BY <1>2, <2>2, <3>2, SidecarNext
    <3> QED BY <1>2, <2>2, <3>1, <3>2 DEF SidecarKept
  <2> QED BY <1>2, <2>1, <2>2, Arrivals
<1>3. Sound /\ SidecarKept /\ SourcesKept => FailedHasSidecar
  BY DEF SidecarKept, SourcesKept, FailedHasSidecar, Sound, StateOK, Row
<1> QED
  BY <1>1, <1>2, <1>3, AlwaysSound, WritersKept, RowsKept, PTL DEF Spec

\* A process that moved a file to processed/ goes on to the COMMIT.
LEMMA CommitNext ==
  ASSUME "commit" \notin CrashAt \cup FailAt, Sound, [Next]_vars,
         NEW d \in Drainers, pc[d] = "commit"
  PROVE  \/ pc'[d] = "commit" /\ UNCHANGED <<hash[d], src[d]>>
         \/ Commit(d)
<1>1. CASE UNCHANGED <<pc, src, hash>>
  BY <1>1
<1>2. CASE User \/ UNCHANGED vars
  BY <1>1, <1>2 DEF User, Drop, FinishCopy, vars, locals
<1>3. ASSUME NEW e \in Drainers, Acts(e), e # d PROVE UNCHANGED <<pc[d], hash[d], src[d]>>
  BY <1>3, Aside DEF Mine
<1>4. CASE Acts(d)
  BY <1>1, <1>4 DEF Acts, Work, Boot, Exit, Fail, Mute, TimeOut, Abort, Crash, StartDrain, List,
     EndDrain, TakeAborted, TakeInbox, TakePending, Take, Validate, MoveToPending, HashStart,
     HashEnd, Dedup, Normalize, PersistStart, WriteBody, PersistCheck, Insert, RenameProcessed,
     Undo, Route, WriteSidecar, locals
<1> QED BY <1>2, <1>3, <1>4, Actors

RowOrCommit ==
  \A f \in Files : file[f].at = "processed" =>
    \/ \E r \in rows : r.of = f
    \/ \E d \in Drainers : pc[d] = "commit" /\ file[f].name = <<IdOf(hash[d]), src[d]>>

\* persist renames before it commits: a file in processed/ has its row, however many drains
\* run, unless one is killed, or its COMMIT fails, between the two (persister.ts): the undo
\* does not move the file back.
THEOREM ProcessedFilesCommitted ==
  ASSUME "commit" \notin CrashAt \cup FailAt
  PROVE  Spec => []ProcessedHasRow
<1>1. Init => RowOrCommit /\ UniquePaths
  BY DEF Init, RowOrCommit, UniquePaths, Lanes
<1>2. ASSUME Sound, UniquePaths, RowOrCommit, [Next]_vars PROVE RowOrCommit'
  <2>1. SUFFICES ASSUME NEW f \in Files, file'[f].at = "processed"
                 PROVE  \/ \E r \in rows' : r.of = f
                        \/ \E d \in Drainers : /\ pc'[d] = "commit"
                                               /\ file'[f].name = <<IdOf(hash'[d]), src'[d]>>
    BY DEF RowOrCommit
  <2>2. CASE file[f].at = "processed" /\ file'[f].name = file[f].name
    <3>1. CASE \E r \in rows : r.of = f
      BY <1>2, <3>1, StoreGrows
    <3>2. ASSUME NEW d \in Drainers, pc[d] = "commit",
                 file[f].name = <<IdOf(hash[d]), src[d]>>
          PROVE  \/ \E r \in rows' : r.of = f
                 \/ pc'[d] = "commit" /\ file'[f].name = <<IdOf(hash'[d]), src'[d]>>
      <4>1. CASE Commit(d)
        <5>1. PICK g \in Files :
                /\ file[g].at = "processed" /\ file[g].name = <<IdOf(hash[d]), src[d]>>
                /\ rows' = rows \cup {[id |-> IdOf(hash[d]), hash |-> hash[d], of |-> g]}
          BY <4>1 DEF Commit, At
        <5>2. g = f
          BY <1>2, <2>2, <3>2, <5>1 DEF UniquePaths, Lanes
        <5> DEFINE r == [id |-> IdOf(hash[d]), hash |-> hash[d], of |-> g]
        <5>3. r \in rows' /\ r.of = f
          BY <5>1, <5>2
        <5> HIDE DEF r
        <5> QED BY <5>3
      <4> QED BY <1>2, <2>2, <3>2, <4>1, CommitNext
    <3> QED BY <1>2, <2>2, <3>1, <3>2 DEF RowOrCommit
  <2> QED BY <1>2, <2>1, <2>2, Arrivals
<1>3. RowOrCommit => ProcessedHasRow
  BY DEF RowOrCommit, ProcessedHasRow
<1> QED
  BY <1>1, <1>2, <1>3, AlwaysSound, PathsKept, PTL DEF Spec

----------------------------------------------------------------------------
(* The drain lock: as long as no signal makes a process give it up early,    *)
(* one process at most is in a drain pass, and nothing moves under it.       *)

LockHeld == \A d \in Drainers : ~stop[d] /\ (pc[d] \in Busy => holder = d)

LEMMA LockKept ==
  ASSUME Aborted = {}, Sound, LockHeld, [Next]_vars
  PROVE  LockHeld'
<1> USE DEF LockHeld, Sound, HandsOK, StateOK, Busy, Goto, locals, signals, store, env
<1>0. None \notin Drainers
  BY IngestAssumption
<1>1. CASE UNCHANGED <<pc, holder, stop>>
  BY <1>1
<1>2. CASE User \/ UNCHANGED vars
  BY <1>1, <1>2 DEF User, Drop, FinishCopy, vars
<1>3. ASSUME NEW d \in Drainers, Acts(d) PROVE LockHeld'
  <2>1. \A e \in Drainers \ {d} : UNCHANGED <<pc[e], stop[e]>>
    BY <1>3, Aside DEF Mine
  <2>2. ASSUME ~stop'[d], UNCHANGED holder, pc'[d] \in Busy => pc[d] \in Busy PROVE LockHeld'
    BY <2>1, <2>2
  <2>3. ASSUME ~stop'[d], pc'[d] \notin Busy, holder' = IF holder = d THEN None ELSE holder
        PROVE  LockHeld'
    BY <2>1, <2>3
  <2>4. CASE Boot(d) \/ Exit(d) \/ Fail(d) \/ TimeOut(d)
    BY <2>2, <2>4 DEF Boot, Exit, Fail, TimeOut, RouteFrom, CatchAll
  <2>5. CASE Mute(d) \/ Crash(d) \/ EndDrain(d)
    BY <2>3, <2>5 DEF Mute, Crash, EndDrain
  <2>6. CASE StartDrain(d)
    BY <1>0, <2>1, <2>6 DEF StartDrain
  <2>7. CASE List(d) \/ \E p \in todo[d] : TakeAborted(d, p) \/ TakeInbox(d, p) \/ TakePending(d, p)
    BY <2>2, <2>7 DEF List, TakeAborted, TakeInbox, TakePending, Take, RouteFrom
  <2>8. CASE Validate(d) \/ MoveToPending(d) \/ HashStart(d) \/ HashEnd(d) \/ Dedup(d)
             \/ Normalize(d)
    BY <2>2, <2>8 DEF Validate, MoveToPending, HashStart, HashEnd, Dedup, Normalize
  <2>9. CASE PersistStart(d) \/ WriteBody(d) \/ PersistCheck(d) \/ Insert(d)
             \/ RenameProcessed(d) \/ Commit(d) \/ Undo(d) \/ Route(d) \/ WriteSidecar(d)
    BY <2>2, <2>9 DEF PersistStart, WriteBody, PersistCheck, Insert, RenameProcessed, Commit,
         Undo, Route, WriteSidecar
  <2>10. ~Abort(d)
    BY DEF Abort
  <2> QED BY <1>3, <2>4, <2>5, <2>6, <2>7, <2>8, <2>9, <2>10 DEF Acts, Work
<1> QED BY <1>2, <1>3, Actors

\* Who is not in a pass disturbs nothing.
LEMMA Outside ==
  ASSUME Sound, NEW d \in Drainers, Acts(d), pc[d] \notin Busy
  PROVE  UNCHANGED store
<1> USE DEF Busy
<1>1. CASE Work(d)
  BY <1>1 DEF Work, StartDrain, List, EndDrain, TakeAborted, TakeInbox, TakePending, Take,
     Validate, MoveToPending, HashStart, HashEnd, Dedup, Normalize, PersistStart, WriteBody,
     PersistCheck, Insert, RenameProcessed, Commit, Undo, Route, WriteSidecar
<1>2. CASE Fail(d) \/ Mute(d) \/ TimeOut(d)
  BY <1>2, IngestAssumption DEF Fail, Mute, TimeOut, InDoc
<1> QED BY <1>1, <1>2 DEF Acts, Boot, Exit, Abort, Crash

----------------------------------------------------------------------------
(* A row is whole: what a pass knows of its document, from the hash to the COMMIT. *)

Held == {"hash", "hashing", "dedup", "normalize", "persist", "body", "begin", "insert", "rename"}
Checked == {"normalize", "persist", "body", "begin", "insert", "rename", "commit", "undo"}
Read == {"persist", "body", "begin", "insert", "rename", "commit"}
Written == {"begin", "insert", "rename", "commit"}

InHand(d) ==
  /\ pc[d] \in Held => cur[d][1] = "pending"
  /\ pc[d] \in Held \ {"hash"} /\ hash[d][2] =>
       \A f \in Files : At(f, cur[d]) => file[f].bytes = hash[d]
  /\ pc[d] \in Checked => ~Conflicts(d)
  /\ pc[d] \in Read => text[d] \in Bytes /\ (hash[d][2] => text[d] = hash[d])
  /\ pc[d] \in Written => bodies[IdOf(hash[d])] = text[d]
  /\ pc[d] = "commit" /\ hash[d][2] =>
       \A f \in Files : At(f, <<"processed", <<IdOf(hash[d]), src[d]>>>>) =>
                          file[f].bytes = hash[d]

Rows ==
  \A r \in rows :
    /\ r.id = IdOf(r.hash)
    /\ bodies[r.id] # None /\ file[r.of].at = "processed"
    /\ r.hash[2] => bodies[r.id] = r.hash /\ file[r.of].bytes = r.hash

Injective == \A b, c \in Bytes : IdOf(b) = IdOf(c) => b = c

LEMMA HandKept ==
  ASSUME Injective, Sound, UniquePaths, Rows, NEW d \in Drainers, InHand(d), Acts(d)
  PROVE  InHand(d)'
<1> USE DEF Held, Checked, Read, Written, Goto, locals, signals, store, env, RouteFrom, CatchAll
<1> USE DEF Sound, HandsOK, StateOK
<1>1. ASSUME pc'[d] \notin Held \cup Checked PROVE InHand(d)'
  BY <1>1 DEF InHand
<1>2. ASSUME UNCHANGED <<store, src[d], cur[d], hash[d], text[d]>>,
             pc'[d] = pc[d] \/ <<pc[d], pc'[d]>> \in {<<"hashing", "dedup">>, <<"persist", "body">>,
               <<"begin", "insert">>, <<"insert", "rename">>, <<"insert", "undo">>,
               <<"rename", "undo">>, <<"commit", "undo">>}
      PROVE  InHand(d)'
  BY <1>2 DEF InHand, Conflicts, At
<1>3. CASE Boot(d) \/ Exit(d) \/ Mute(d) \/ Crash(d)
           \/ StartDrain(d) \/ List(d) \/ EndDrain(d)
           \/ \E p \in todo[d] : TakeAborted(d, p) \/ TakeInbox(d, p) \/ TakePending(d, p)
  BY <1>1, <1>3 DEF Boot, Exit, Mute, Crash, StartDrain, List, EndDrain,
       TakeAborted, TakeInbox, TakePending, Take
<1>4. CASE TimeOut(d) \/ Abort(d) \/ Insert(d)
  BY <1>2, <1>4 DEF TimeOut, Abort, Insert
<1>5. CASE Validate(d) \/ Commit(d) \/ Undo(d) \/ Route(d) \/ WriteSidecar(d)
  BY <1>1, <1>5 DEF Validate, Commit, Undo, Route, WriteSidecar
<1>6. CASE HashEnd(d) \/ PersistStart(d) \/ PersistCheck(d)
  BY <1>1, <1>2, <1>6 DEF HashEnd, PersistStart, PersistCheck
<1>7. CASE Fail(d)
  BY <1>1, <1>2, <1>7 DEF Fail
<1>8. CASE MoveToPending(d)
  <2>1. ASSUME NEW n, cur' = [cur EXCEPT ![d] = <<"pending", n>>], Goto(d, "hash")
        PROVE  InHand(d)'
    <3>1. pc'[d] = "hash" /\ cur'[d] = <<"pending", n>>
      BY <2>1
    <3> QED BY <3>1 DEF InHand
  <2> QED BY <1>1, <1>8, <2>1 DEF MoveToPending
<1>9. CASE HashStart(d)
  <2>1. pc[d] = "hash" /\ cur[d] \in Paths
    BY <1>9 DEF HashStart, InDoc, Busy
  <2>2. ASSUME NEW f \in Files, At(f, cur[d]), hash' = [hash EXCEPT ![d] = file[f].bytes],
               pc'[d] = "hashing", UNCHANGED <<cur, file>>
        PROVE  InHand(d)'
    <3>1. \A g \in Files : At(g, cur[d]) => g = f
      BY <2>1, <2>2 DEF UniquePaths, At, Paths, Lanes
    <3>2. hash'[d] = file[f].bytes
      BY <2>2
    <3> QED BY <2>1, <2>2, <3>1, <3>2 DEF InHand, At
  <2> QED BY <1>1, <1>9, <2>1, <2>2 DEF HashStart
<1>10. CASE Dedup(d)
  <2>1. ASSUME ~\E r \in rows : r.hash = hash[d], pc[d] = "dedup" PROVE ~Conflicts(d)
    BY <2>1 DEF Conflicts, Rows, Injective, Row, Hashed
  <2>2. CASE pc'[d] = "next"
    BY <1>1, <2>2
  <2>3. ASSUME ~\E r \in rows : r.hash = hash[d], Goto(d, "normalize"), UNCHANGED file
        PROVE  InHand(d)'
    BY <1>10, <2>1, <2>3 DEF Dedup, InHand, Conflicts, At
  <2> QED BY <1>10, <2>2, <2>3 DEF Dedup
<1>11. CASE Normalize(d)
  <2>1. ASSUME NEW f \in Files, At(f, cur[d]), text' = [text EXCEPT ![d] = file[f].bytes],
               Goto(d, "persist"), UNCHANGED cur
        PROVE  InHand(d)'
    <3>1. pc[d] = "normalize" /\ cur[d] \in Paths /\ UNCHANGED <<store, src, hash>>
      BY <1>11 DEF Normalize, InDoc, Busy
    <3>2. text'[d] = file[f].bytes /\ file[f].bytes \in Bytes
      BY <2>1, <3>1 DEF FilesOK, At, Paths, Lanes
    <3> QED BY <2>1, <3>1, <3>2 DEF InHand, Conflicts, At
  <2> QED BY <1>1, <1>11, <2>1 DEF Normalize
<1>12. CASE WriteBody(d)
  <2>1. ASSUME bodies' = [bodies EXCEPT ![IdOf(hash[d])] = text[d]], Goto(d, "begin"),
               UNCHANGED <<cur, src, hash, text, file, rows>>, pc[d] = "body"
        PROVE  InHand(d)'
    <3>1. IdOf(hash[d]) \in Ids
      BY <2>1 DEF Hashed, Ids
    <3>2. bodies'[IdOf(hash'[d])] = text'[d]
      BY <2>1, <3>1
    <3> QED BY <2>1, <3>2 DEF InHand, Conflicts, At
  <2> QED BY <1>1, <1>12, <2>1 DEF WriteBody
<1>13. CASE RenameProcessed(d)
  <2>1. CASE UNCHANGED file /\ Goto(d, "undo")
    BY <1>2, <1>13, <2>1 DEF RenameProcessed
  <2> DEFINE path == <<"processed", <<IdOf(hash[d]), src[d]>>>>
  <2>2. ASSUME NEW f \in Files, At(f, cur[d]), file' = Moved(f, path), Goto(d, "commit")
        PROVE  InHand(d)'
    <3>1. pc[d] = "rename" /\ src[d] \in Names /\ hash[d] \in Bytes
          /\ UNCHANGED <<rows, bodies, src, cur, hash, text>>
      BY <1>13 DEF RenameProcessed, InDoc, Busy, Hashed
    <3>2. path \in Targets
      BY <3>1 DEF Targets, Ids
    <3>3. /\ file'[f].bytes = file[f].bytes
          /\ \A g \in Files \ {f} : /\ file'[g].name = file[g].name
                                    /\ ~At(g, path) => file'[g].at = file[g].at
                                    /\ At(g, path) => file'[g].at = "replaced"
      BY <2>2, <3>2, MovedTo
    <3>4. \A g \in Files \ {f} : ~(file'[g].at = path[1] /\ file'[g].name = path[2])
      BY <3>3 DEF At
    <3>5. hash[d][2] => file[f].bytes = hash[d]
      BY <2>2, <3>1 DEF InHand
    <3>6. \A g \in Files : At(g, path)' => g = f
      BY <3>1, <3>4 DEF At
    <3> HIDE DEF path
    <3>7. pc'[d] = "commit"
      BY <2>2
    <3>8. hash'[d][2] => \A g \in Files : At(g, path)' => file'[g].bytes = hash'[d]
      BY <3>1, <3>3, <3>5, <3>6
    <3>9. hash'[d][2] => \A g \in Files : At(g, <<"processed", <<IdOf(hash[d]), src[d]>>>>)'
                                             => file'[g].bytes = hash'[d]
      BY <3>8 DEF path
    <3> QED BY <3>1, <3>7, <3>9 DEF InHand, Conflicts
  <2> QED BY <1>13, <2>1, <2>2 DEF RenameProcessed
<1> QED
  BY <1>3, <1>4, <1>5, <1>6, <1>7, <1>8, <1>9, <1>10, <1>11, <1>12, <1>13 DEF Acts, Work

\* What the user does to a file, or who is not in a pass, leaves a pass what it knows.
LEMMA HandUndisturbed ==
  ASSUME Sound, NEW d \in Drainers, InHand(d), UNCHANGED Mine(d),
         \/ UNCHANGED store
         \/ User /\ UNCHANGED <<rows, bodies>>
  PROVE  InHand(d)'
<1> USE DEF Held, Checked, Read, Written, Mine, Sound, HandsOK
<1>1. CASE UNCHANGED store
  BY <1>1 DEF InHand, Conflicts, At, store
<1>2. ASSUME UNCHANGED <<rows, bodies>>,
             \A f \in Files : \/ file'[f] = file[f] \/ file'[f].at = "inbox"
                              \/ /\ file'[f].at = file[f].at /\ file'[f].name = file[f].name
                                 /\ ~file[f].bytes[2]
      PROVE  InHand(d)'
  BY <1>2 DEF InHand, Conflicts, At
<1>3. ASSUME NEW f \in Files, FinishCopy(f)
      PROVE  InHand(d)' \/ ~(User /\ UNCHANGED <<rows, bodies>>)
  <2>1. file' = [file EXCEPT ![f] = [file[f] EXCEPT !.bytes = <<file[f].bytes[1], TRUE>>]]
        /\ ~file[f].bytes[2]
    BY <1>3 DEF FinishCopy
  <2> QED BY <1>2, <2>1 DEF FilesOK
<1>4. ASSUME NEW f \in Files, NEW b \in Bases, NEW c \in Contents, NEW w \in BOOLEAN,
             Drop(f, b, c, w)
      PROVE  InHand(d)' \/ ~(User /\ UNCHANGED <<rows, bodies>>)
  BY <1>2, <1>4 DEF Drop, FilesOK
<1> QED BY <1>1, <1>3, <1>4 DEF User

\* persist writes and removes the body file of the id it works for, and nobody else does.
LEMMA BodySteps ==
  ASSUME NEW d \in Drainers, Acts(d), ~UNCHANGED bodies
  PROVE  /\ pc[d] \in {"body", "undo"}
         /\ \/ bodies' = [bodies EXCEPT ![IdOf(hash[d])] = text[d]] /\ pc[d] = "body"
            \/ bodies' = [bodies EXCEPT ![IdOf(hash[d])] = None]
<1> USE DEF store
<1>1. CASE WriteBody(d)
  BY <1>1 DEF WriteBody
<1>2. CASE Undo(d) \/ Mute(d)
  BY <1>2 DEF Undo, Mute
<1>3. ASSUME Boot(d) \/ Exit(d) \/ Fail(d) \/ TimeOut(d) \/ Abort(d) \/ Crash(d) PROVE FALSE
  BY <1>3 DEF Boot, Exit, Fail, TimeOut, Abort, Crash
<1>4. ASSUME \/ StartDrain(d) \/ List(d) \/ EndDrain(d)
             \/ \E p \in todo[d] : TakeAborted(d, p) \/ TakeInbox(d, p) \/ TakePending(d, p)
             \/ Validate(d) \/ MoveToPending(d) \/ HashStart(d) \/ HashEnd(d) \/ Dedup(d)
      PROVE FALSE
  BY <1>4 DEF StartDrain, List, EndDrain, TakeAborted, TakeInbox, TakePending, Validate,
       MoveToPending, HashStart, HashEnd, Dedup
<1>5. ASSUME Normalize(d) \/ PersistStart(d) \/ PersistCheck(d) \/ Insert(d)
               \/ RenameProcessed(d) \/ Commit(d) \/ Route(d) \/ WriteSidecar(d)
      PROVE FALSE
  BY <1>5 DEF Normalize, PersistStart, PersistCheck, Insert, RenameProcessed, Commit, Route,
       WriteSidecar
<1> QED BY <1>1, <1>2, <1>3, <1>4, <1>5 DEF Acts, Work

\* A row keeps its body file and its source: no rename, body or undo is for the id of a row.
LEMMA RowsStayWhole ==
  ASSUME Injective, Sound, SoleWriter, SourcesKept, Rows, [Next]_vars,
         \A d \in Drainers : InHand(d)
  PROVE  Rows'
<1> USE DEF Sound, StateOK
<1>0. \A r \in rows : r.of \in Files /\ r.id \in Ids /\ r.hash \in Bytes
  BY DEF Row
<1>1. ASSUME NEW r \in rows
      PROVE  /\ file'[r.of].at = "processed"
             /\ file[r.of].bytes[2] => file'[r.of].bytes = file[r.of].bytes
  <2>1. r.of \in Files /\ file[r.of].at = "processed" /\ file[r.of].name[1] = r.id
    BY <1>0 DEF Rows, SourcesKept
  <2>2. ASSUME NEW f \in Files, FinishCopy(f)
        PROVE  /\ file'[r.of].at = "processed"
               /\ file[r.of].bytes[2] => file'[r.of].bytes = file[r.of].bytes
    <3>1. file' = [file EXCEPT ![f] = [file[f] EXCEPT !.bytes = <<file[f].bytes[1], TRUE>>]]
          /\ ~file[f].bytes[2]
      BY <2>2 DEF FinishCopy
    <3> QED BY <2>1, <3>1 DEF FilesOK
  <2>3. ASSUME NEW f \in Files, NEW b \in Bases, NEW c \in Contents, NEW w \in BOOLEAN,
               Drop(f, b, c, w)
        PROVE  file'[r.of] = file[r.of]
    BY <2>1, <2>3 DEF Drop, FilesOK
  <2>4. ASSUME NEW d \in Drainers, NEW f \in Files, NEW path \in Targets, Renames(d, f, path)
        PROVE  file'[r.of].at = "processed" /\ file'[r.of].bytes = file[r.of].bytes
    <3>1. r.of # f /\ file' = Moved(f, path)
      BY <2>1, <2>4 DEF Renames, Sources
    <3>2. ~At(r.of, path)
      BY <2>1, <2>4 DEF Renames, At, SoleWriter, Conflicts
    <3> QED BY <2>1, <3>1, <3>2, MovedTo
  <2>5. ASSUME NEW d \in Drainers, Drops(d) PROVE file'[r.of] = file[r.of]
    <3>1. cur[d] \in Paths
      BY <2>5 DEF Drops, HandsOK, InDoc, Busy
    <3>2. ~At(r.of, cur[d])
      BY <2>1, <3>1 DEF At, Paths
    <3> QED BY <2>1, <2>5, <3>2 DEF Drops
  <2> QED BY <2>1, <2>2, <2>3, <2>4, <2>5, FileSteps
<1>2. ASSUME NEW r \in rows PROVE bodies'[r.id] = bodies[r.id]
  <2>1. CASE UNCHANGED bodies
    BY <2>1
  <2>2. ASSUME NEW d \in Drainers, pc[d] \in {"body", "undo"},
               \/ bodies' = [bodies EXCEPT ![IdOf(hash[d])] = text[d]]
               \/ bodies' = [bodies EXCEPT ![IdOf(hash[d])] = None]
        PROVE  bodies'[r.id] = bodies[r.id]
    <3>1. r.id # IdOf(hash[d])
      BY <2>2 DEF InHand, Checked, Conflicts
    <3> QED BY <1>0, <2>2, <3>1
  <2>4. CASE UNCHANGED vars
    BY <2>1, <2>4 DEF vars, store
  <2> QED BY <2>1, <2>2, <2>4, Actors, BodySteps
<1>3. ASSUME NEW r \in rows
      PROVE  /\ r.id = IdOf(r.hash)
             /\ bodies'[r.id] # None /\ file'[r.of].at = "processed"
             /\ r.hash[2] => bodies'[r.id] = r.hash /\ file'[r.of].bytes = r.hash
  BY <1>1, <1>2 DEF Rows
<1>4. ASSUME NEW d \in Drainers, Commit(d) PROVE Rows'
  <2>1. PICK f \in Files :
          /\ At(f, <<"processed", <<IdOf(hash[d]), src[d]>>>>)
          /\ rows' = rows \cup {[id |-> IdOf(hash[d]), hash |-> hash[d], of |-> f]}
    BY <1>4 DEF Commit
  <2>2. UNCHANGED <<file, bodies>> /\ pc[d] = "commit"
    BY <1>4 DEF Commit
  <2>3. /\ text[d] \in Bytes /\ bodies[IdOf(hash[d])] = text[d]
        /\ hash[d][2] => text[d] = hash[d] /\ file[f].bytes = hash[d]
    BY <2>1, <2>2 DEF InHand, Read, Written
  <2>4. text[d] # None /\ file[f].at = "processed"
    BY <2>1, <2>3, IngestAssumption DEF At
  <2> DEFINE q == [id |-> IdOf(hash[d]), hash |-> hash[d], of |-> f]
  <2>5. /\ q.id = IdOf(q.hash)
        /\ bodies'[q.id] # None /\ file'[q.of].at = "processed"
        /\ q.hash[2] => bodies'[q.id] = q.hash /\ file'[q.of].bytes = q.hash
    BY <2>2, <2>3, <2>4
  <2>6. \A r \in rows' : r \in rows \/ r = q
    BY <2>1
  <2> HIDE DEF q
  <2> QED BY <1>3, <2>5, <2>6 DEF Rows
<1>5. CASE UNCHANGED rows
  BY <1>3, <1>5 DEF Rows
<1> QED BY <1>4, <1>5, RowsChange

Hands == \A d \in Drainers : InHand(d)

\* As long as nobody gives up the lock early, every pass knows what it works on.
LEMMA AlwaysInHand ==
  ASSUME Aborted = {}, Injective
  PROVE  Spec => [](Hands /\ Rows /\ SoleWriter)
<1>1. Init => /\ LockHeld /\ Hands /\ Rows /\ UniquePaths
              /\ SoleWriter /\ SourcesKept /\ OneRowPerContent
  BY DEF Init, LockHeld, Hands, InHand, Rows, UniquePaths, SoleWriter, SourcesKept,
         OneRowPerContent,
     Held, Checked, Read, Written, Busy, Lanes
<1>2. ASSUME Sound, UniquePaths, LockHeld, Rows, Hands, [Next]_vars PROVE Hands'
  <2> SUFFICES ASSUME NEW e \in Drainers PROVE InHand(e)'
    BY DEF Hands
  <2> USE <1>2 DEF Hands
  <2>1. ASSUME NEW d \in Drainers, Acts(d), d # e PROVE InHand(e)'
    <3>1. UNCHANGED Mine(e)
      BY <1>2, <2>1, Aside
    <3>2. CASE pc[d] \in Busy
      <4>1. pc[e] \notin Busy
        BY <1>2, <2>1, <3>2 DEF LockHeld
      <4>2. pc'[e] \notin Busy
        BY <3>1, <4>1 DEF Mine
      <4> QED BY <4>2 DEF InHand, Held, Checked, Read, Written, Busy
    <3>3. CASE pc[d] \notin Busy
      BY <1>2, <2>1, <3>1, <3>3, Outside, HandUndisturbed
    <3> QED BY <3>2, <3>3
  <2>2. CASE User /\ UNCHANGED <<rows, bodies, sidecars, holder, writer, pc, locals, signals>>
    <3>1. UNCHANGED Mine(e) /\ UNCHANGED <<rows, bodies>>
      BY <2>2 DEF Mine, locals, signals
    <3> QED BY <1>2, <2>2, <3>1, HandUndisturbed
  <2>3. CASE UNCHANGED vars
    <3>1. UNCHANGED Mine(e) /\ UNCHANGED store
      BY <2>3 DEF Mine, vars, locals, signals, store
    <3> QED BY <1>2, <3>1, HandUndisturbed
  <2> QED BY <1>2, <2>1, <2>2, <2>3, Actors, HandKept
<1>3. Sound /\ SoleWriter /\ SourcesKept /\ Rows /\ Hands /\ [Next]_vars => Rows'
  BY RowsStayWhole DEF Hands
<1> QED
  BY <1>1, <1>2, <1>3, AlwaysSound, LockKept, PathsKept, WritersKept, RowsKept, PTL DEF Spec

\* A row is whole as long as nobody gives up the lock early: its body file is there and its
\* source is in processed/, both with the bytes that were hashed if those were complete,
\* whatever calls of persist fail, whoever is killed or times out, and whatever copies are
\* still going on. It takes ids that tell hashes apart: docIdFromHash keeps 32 bits of the
\* hash, and the undo of a primary-key conflict removes the body of the row it conflicts
\* with (persister.ts).
THEOREM RowsAreWhole ==
  ASSUME Aborted = {}, Injective
  PROVE  Spec => []RowIsWhole
<1>1. Rows => RowIsWhole
  BY DEF Rows, RowIsWhole
<1> QED
  BY <1>1, AlwaysInHand, PTL

----------------------------------------------------------------------------
(* What the pipeline has in its keeping it gives up only where it returns a *)
(* leftover to the inbox: a pass knows the bytes of the file it renames or  *)
(* removes, and a file in processed/ is named by the id of its bytes.       *)

Complete ==
  /\ \A f \in Files : file[f].at \in Lanes => file[f].bytes[2]
  /\ \A d \in Drainers : pc[d] \in Hashed => hash[d][2]

NamedById ==
  \A f \in Files : file[f].at = "processed" => file[f].name[1] = IdOf(file[f].bytes)

\* Between two steps of its work a process keeps what it hashed.
LEMMA HashStep ==
  ASSUME Sound, [Next]_vars, NEW d \in Drainers, pc'[d] \in Hashed
  PROVE  \/ pc[d] \in Hashed /\ hash'[d] = hash[d]
         \/ \E f \in Files : file[f].at \in Sources /\ hash'[d] = file[f].bytes
<1> USE DEF Hashed, InDoc, Busy, locals, signals, store, Goto, RouteFrom, CatchAll, Take
<1>0. HandsOK
  BY DEF Sound
<1>1. CASE UNCHANGED <<pc, hash>>
  BY <1>1
<1>2. CASE User \/ UNCHANGED vars
  BY <1>1, <1>2 DEF User, Drop, FinishCopy, vars
<1>3. ASSUME NEW e \in Drainers, Acts(e), e # d PROVE UNCHANGED <<pc[d], hash[d]>>
  BY <1>3, Aside DEF Mine
<1>4. CASE Boot(d) \/ Exit(d) \/ Mute(d) \/ TimeOut(d) \/ Abort(d) \/ Crash(d)
           \/ StartDrain(d) \/ List(d) \/ EndDrain(d)
           \/ \E p \in todo[d] : TakeAborted(d, p) \/ TakeInbox(d, p) \/ TakePending(d, p)
  BY <1>0, <1>4 DEF HandsOK, Boot, Exit, Mute, TimeOut, Abort, Crash, StartDrain, List, EndDrain,
       TakeAborted, TakeInbox, TakePending
<1>5. CASE Fail(d) \/ Validate(d) \/ MoveToPending(d) \/ HashEnd(d) \/ Dedup(d) \/ Normalize(d)
           \/ PersistStart(d) \/ WriteBody(d) \/ PersistCheck(d) \/ Insert(d)
  BY <1>0, <1>5 DEF HandsOK, Fail, Validate, MoveToPending, HashEnd, Dedup, Normalize,
       PersistStart, WriteBody, PersistCheck, Insert
<1>6. CASE RenameProcessed(d) \/ Commit(d) \/ Undo(d) \/ WriteSidecar(d) \/ Route(d)
  BY <1>0, <1>6 DEF HandsOK, RenameProcessed, Commit, Undo, WriteSidecar, Route
<1>7. CASE HashStart(d)
  <2>1. ASSUME NEW f \in Files, At(f, cur[d]), hash' = [hash EXCEPT ![d] = file[f].bytes]
        PROVE  file[f].at \in Sources /\ hash'[d] = file[f].bytes
    <3>1. cur[d] \in Paths
      BY <1>0, <1>7 DEF HashStart, HandsOK
    <3> QED BY <1>0, <2>1, <3>1, AtSource DEF HandsOK
  <2> QED BY <1>0, <1>7, <2>1 DEF HandsOK, HashStart
<1>8. CASE Acts(d)
  BY <1>4, <1>5, <1>6, <1>7, <1>8 DEF Acts, Work
<1> QED BY <1>2, <1>3, <1>8, Actors

\* A pass renames the file that has the bytes it hashed.
LEMMA HandMoves ==
  ASSUME Sound, Hands, Complete, NEW d \in Drainers, NEW f \in Files, NEW path \in Targets,
         Renames(d, f, path), path[1] = "processed"
  PROVE  file[f].bytes = hash[d] /\ path[2][1] = IdOf(hash[d])
<1>1. pc[d] = "rename" /\ At(f, cur[d]) /\ path = <<"processed", <<IdOf(hash[d]), src[d]>>>>
  BY DEF Renames
<1> QED BY <1>1 DEF Hands, InHand, Held, Complete, Hashed

LEMMA CompleteKept ==
  ASSUME ~SlowCopy, Sound, Hands, Complete, NamedById, [Next]_vars
  PROVE  Complete' /\ NamedById'
<1> USE DEF Sound
<1> DEFINE Kinds == \A f \in Files : /\ file'[f].at \in Lanes => file'[f].bytes[2]
                                     /\ file'[f].at = "processed" =>
                                          file'[f].name[1] = IdOf(file'[f].bytes)
<1>1. Kinds
  <2>1. CASE UNCHANGED file
    BY <2>1 DEF Complete, NamedById
  <2>2. ASSUME NEW f \in Files, FinishCopy(f) PROVE FALSE
    BY <2>2 DEF FinishCopy, Complete
  <2>3. ASSUME NEW f \in Files, NEW b \in Bases, NEW c \in Contents, NEW w \in BOOLEAN,
               Drop(f, b, c, w)
        PROVE  Kinds
    <3>1. w /\ file' = [file EXCEPT ![f] = [at |-> "inbox", name |-> <<b, 0>>, bytes |-> <<c, w>>]]
      BY <2>3 DEF Drop
    <3>2. /\ file'[f] = [at |-> "inbox", name |-> <<b, 0>>, bytes |-> <<c, w>>]
          /\ \A g \in Files \ {f} : file'[g] = file[g]
      BY <3>1 DEF FilesOK
    <3> QED BY <3>1, <3>2 DEF Complete, NamedById
  <2>4. ASSUME NEW d \in Drainers, NEW f \in Files, NEW path \in Targets, Renames(d, f, path)
        PROVE  Kinds
    <3>1. file' = Moved(f, path) /\ file[f].at \in Sources
      BY <2>4 DEF Renames
    <3>2. /\ file'[f].at = path[1] /\ file'[f].name = path[2] /\ file'[f].bytes = file[f].bytes
          /\ \A g \in Files \ {f} :
               /\ file'[g].name = file[g].name /\ file'[g].bytes = file[g].bytes
               /\ file'[g].at = file[g].at \/ file'[g].at = "replaced"
      BY <3>1, MovedTo
    <3>3. file[f].bytes[2]
      BY <3>1 DEF Complete, Sources, Lanes
    <3>4. path[1] = "processed" => path[2][1] = IdOf(file[f].bytes)
      BY <2>4, HandMoves
    <3> QED BY <3>2, <3>3, <3>4 DEF Complete, NamedById, Lanes
  <2>5. ASSUME NEW d \in Drainers, Drops(d) PROVE Kinds
    <3>1. \A g \in Files : /\ file'[g].bytes = file[g].bytes /\ file'[g].name = file[g].name
                           /\ file'[g].at = file[g].at \/ file'[g].at = "removed"
      BY <2>5 DEF Drops, FilesOK
    <3> QED BY <3>1 DEF Complete, NamedById, Lanes
  <2> HIDE DEF Kinds
  <2> QED BY <2>1, <2>2, <2>3, <2>4, <2>5, FileSteps
<1>2. ASSUME NEW d \in Drainers, pc'[d] \in Hashed PROVE hash'[d][2]
  <2>1. CASE pc[d] \in Hashed /\ hash'[d] = hash[d]
    BY <2>1 DEF Complete
  <2>2. ASSUME NEW f \in Files, file[f].at \in Sources, hash'[d] = file[f].bytes
        PROVE  hash'[d][2]
    BY <2>2 DEF Complete, Sources, Lanes
  <2> QED BY <1>2, <2>1, <2>2, HashStep
<1> QED BY <1>1, <1>2 DEF Complete, NamedById

\* What a step takes from the keeping was in the inbox, under the name of the leftover that
\* the step returns there.
LEMMA LossStep ==
  ASSUME Injective, ~SlowCopy, Sound, Hands, Complete, NamedById, [Next]_vars,
         NEW b \in Kept, b \notin Kept'
  PROVE  \E f, g \in Files :
           /\ file[f].at = "inbox" /\ file[f].bytes = b
           /\ At(g, <<"pending", file[f].name>>) /\ file'[g].at = "inbox"
<1> USE DEF Sound
<1>1. ~\E r \in rows : r.hash = b
  BY StoreGrows DEF Kept
<1>2. PICK h \in Files : file[h].at \in Lanes /\ file[h].bytes = b
  BY <1>1 DEF Kept
<1>3. ~\E g \in Files : file'[g].at \in Lanes /\ file'[g].bytes = b
  BY DEF Kept
<1>4. file'[h] # file[h]
  BY <1>2, <1>3
<1>5. ASSUME NEW f \in Files, FinishCopy(f) PROVE FALSE
  BY <1>5 DEF FinishCopy, Complete
<1>6. ASSUME NEW f \in Files, NEW n \in Bases, NEW c \in Contents, NEW w \in BOOLEAN,
             Drop(f, n, c, w)
      PROVE  FALSE
  BY <1>2, <1>4, <1>6 DEF Drop, FilesOK, Lanes
<1>7. ASSUME NEW d \in Drainers, Drops(d) PROVE FALSE
  <2>1. At(h, cur[d])
    BY <1>4, <1>7 DEF Drops
  <2>2. file[h].bytes = hash[d]
    BY <1>7, <2>1 DEF Drops, Hands, InHand, Held, Complete, Hashed
  <2> QED BY <1>1, <1>2, <1>7, <2>2 DEF Drops
<1>8. ASSUME NEW d \in Drainers, NEW g \in Files, NEW path \in Targets, Renames(d, g, path)
      PROVE  /\ file[h].at = "inbox"
             /\ At(g, <<"pending", file[h].name>>) /\ file'[g].at = "inbox"
  <2>1. file' = Moved(g, path) /\ path[1] \in Lanes
    BY <1>8 DEF Renames, Targets, Paths, Lanes
  <2>2. /\ file'[g].at = path[1] /\ file'[g].name = path[2] /\ file'[g].bytes = file[g].bytes
        /\ \A k \in Files \ {g} :
             /\ file'[k].bytes = file[k].bytes
             /\ ~At(k, path) => file'[k].at = file[k].at
    BY <2>1, MovedTo
  <2>3. h # g /\ At(h, path) /\ file[g].bytes # b
    BY <1>2, <1>3, <2>1, <2>2
  <2>4. \A lane, name : \A n \in FreeNames(lane, name) : ~At(h, <<lane, n>>)
    BY DEF FreeNames, Exists
  <2>5. path[1] \notin {"pending", "failed"}
    <3>1. path = <<path[1], path[2]>>
      BY DEF Targets, Paths
    <3> QED BY <1>8, <2>3, <2>4, <3>1 DEF Renames
  <2>6. path[1] # "processed"
    <3> SUFFICES ASSUME path[1] = "processed" PROVE FALSE
      OBVIOUS
    <3>1. file[g].bytes = hash[d] /\ path[2][1] = IdOf(hash[d])
      BY <1>8, HandMoves
    <3>2. IdOf(b) = IdOf(hash[d])
      BY <1>2, <2>3, <3>1 DEF At, NamedById
    <3>3. b \in Bytes /\ hash[d] \in Bytes
      BY <1>2, <1>8, <3>1 DEF FilesOK, Renames, Sources, Lanes
    <3> QED BY <2>3, <3>1, <3>2, <3>3 DEF Injective
  <2>7. file[g].at = "pending" /\ path = <<"inbox", file[g].name>>
    BY <1>8, <2>5, <2>6 DEF Renames
  <2> QED BY <2>2, <2>3, <2>7 DEF At
<1> QED
  BY <1>2, <1>4, <1>5, <1>6, <1>7, <1>8, FileSteps

\* Whoever reuses a name, and whatever fails, dies or is retried: a rename out of the inbox
\* to pending/ or failed/ finds a free name, one to processed/ replaces a file of the same
\* bytes, and a duplicate is removed for the row that has its bytes. What is lost is lost
\* where processPendingFile returns a leftover over a file in the inbox
\* (drain-orchestrator.ts:503). It takes ids that tell hashes apart, one drain at a time, and
\* files that are complete when they are read.
THEOREM LossesAreReturns ==
  ASSUME Aborted = {}, Injective, ~SlowCopy
  PROVE  Spec => LossOnlyByReturn
<1>1. Init => Complete /\ NamedById
  BY DEF Init, Complete, NamedById, Lanes, Hashed
<1>2. Sound /\ Hands /\ Complete /\ NamedById /\ [Next]_vars => Complete' /\ NamedById'
  BY CompleteKept
<1>3. Sound /\ Hands /\ Complete /\ NamedById /\ [Next]_vars =>
        [\A b \in Kept \ Kept' : \E f, g \in Files :
           /\ file[f].at = "inbox" /\ file[f].bytes = b
           /\ At(g, <<"pending", file[f].name>>) /\ file'[g].at = "inbox"]_vars
  BY LossStep
<1> QED
  BY <1>1, <1>2, <1>3, AlwaysSound, AlwaysInHand, PTL DEF Spec, LossOnlyByReturn

\* A step that writes or removes a body file, or commits a row, is a step of the corpus.
LEMMA StepsOfCorpus ==
  ASSUME Sound, Hands, Rows, SoleWriter, [Next]_vars
  PROVE  [C!Next]_(C!store)
<1> USE DEF Sound, StateOK, HandsOK
<1>1. UNCHANGED NotYet
  BY DEF NotYet
<1>2. ASSUME NEW i \in Ids, C!Place(i) \/ C!Withdraw(i) \/ C!Commit(i) PROVE C!Next
  BY <1>2 DEF C!Next
<1>3. CASE UNCHANGED <<rows, bodies>>
  <2>1. UNCHANGED <<Placed, Known>>
    BY <1>3 DEF Placed, Known
  <2> QED BY <1>1, <2>1 DEF C!store
<1>4. ASSUME NEW d \in Drainers, Acts(d), UNCHANGED rows, ~UNCHANGED bodies
      PROVE  C!Next
  <2>1. /\ pc[d] \in {"body", "undo"}
        /\ \/ bodies' = [bodies EXCEPT ![IdOf(hash[d])] = text[d]] /\ pc[d] = "body"
           \/ bodies' = [bodies EXCEPT ![IdOf(hash[d])] = None]
    BY <1>4, BodySteps
  <2>2. IdOf(hash[d]) \in Ids
    BY <2>1 DEF Hashed, Ids
  <2>3. CASE bodies' = [bodies EXCEPT ![IdOf(hash[d])] = None]
    <3>1. Placed' = Placed \ {IdOf(hash[d])}
      BY <2>2, <2>3 DEF Placed
    <3>2. IdOf(hash[d]) \notin Known /\ UNCHANGED Known
      BY <1>4, <2>1 DEF Hands, InHand, Checked, Conflicts, Known
    <3>3. C!Withdraw(IdOf(hash[d]))
      BY <1>1, <3>1, <3>2 DEF C!Withdraw
    <3> QED BY <1>2, <2>2, <3>3
  <2>4. CASE bodies' = [bodies EXCEPT ![IdOf(hash[d])] = text[d]] /\ pc[d] = "body"
    <3>1. text[d] \in Bytes
      BY <2>4 DEF Hands, InHand, Read
    <3>2. Placed' = Placed \cup {IdOf(hash[d])} /\ UNCHANGED Known
      BY <1>4, <2>2, <2>4, <3>1, IngestAssumption DEF Placed, Known
    <3>3. C!Place(IdOf(hash[d]))
      BY <1>1, <3>2 DEF C!Place
    <3> QED BY <1>2, <2>2, <3>3
  <2> QED BY <2>1, <2>3, <2>4
<1>5. ASSUME NEW d \in Drainers, Commit(d) PROVE C!Next
  <2>1. PICK f \in Files :
          rows' = rows \cup {[id |-> IdOf(hash[d]), hash |-> hash[d], of |-> f]}
    BY <1>5 DEF Commit
  <2>2. pc[d] = "commit" /\ UNCHANGED bodies
    BY <1>5 DEF Commit
  <2>3. IdOf(hash[d]) \in Ids
    BY <2>2 DEF Hashed, Ids
  <2>4. text[d] \in Bytes /\ bodies[IdOf(hash[d])] = text[d]
    BY <2>2 DEF Hands, InHand, Read, Written
  <2>5. IdOf(hash[d]) \in Placed /\ IdOf(hash[d]) \notin Known
    <3>1. bodies[IdOf(hash[d])] # None
      BY <2>4, IngestAssumption
    <3>2. ~Conflicts(d)
      BY <2>2 DEF Hands, InHand, Checked
    <3> QED BY <2>3, <3>1, <3>2 DEF Placed, Known, Conflicts
  <2> DEFINE q == [id |-> IdOf(hash[d]), hash |-> hash[d], of |-> f]
  <2>6. q.id = IdOf(hash[d]) /\ \A r : r \in rows' <=> r \in rows \/ r = q
    BY <2>1
  <2> HIDE DEF q
  <2>7. Known' = Known \cup {IdOf(hash[d])} /\ UNCHANGED Placed
    BY <2>2, <2>6 DEF Known, Placed
  <2>8. C!Commit(IdOf(hash[d]))
    BY <1>1, <2>5, <2>7 DEF C!Commit
  <2> QED BY <1>2, <2>3, <2>8
<1>6. UNCHANGED rows \/ \E d \in Drainers : Commit(d)
  BY RowsChange
<1>7. UNCHANGED bodies \/ \E d \in Drainers : Acts(d)
  BY Actors DEF vars, store
<1> QED BY <1>3, <1>4, <1>5, <1>6, <1>7

\* The drain implements the corpus the readers rely on, whatever is killed, fails or times
\* out: no row is committed before its body file is in place, and no body file of a row is
\* taken back. It takes what RowsAreWhole takes.
THEOREM IngestImplementsCorpus ==
  ASSUME Aborted = {}, Injective
  PROVE  Spec => ImplementsCorpus
<1>1. Init => C!Whole
  BY DEF Init, C!Whole, C!Classified, Placed, Known, NotYet
<1>2. Sound /\ Hands /\ Rows /\ SoleWriter /\ [Next]_vars => [C!Next]_(C!store)
  BY StepsOfCorpus
<1> QED
  BY <1>1, <1>2, AlwaysSound, AlwaysInHand, PTL DEF Spec, ImplementsCorpus, C!Spec

----------------------------------------------------------------------------
(* What a pass has left to do in pending/. *)

Holding == Held \cup {"undo", "route"}

Swept ==
  \A d \in Drainers : pc[d] \in Busy \ {"list"} =>
    \A f \in Files : file[f].at = "pending" =>
      <<"pending", file[f].name>> \in todo[d] \/ (pc[d] \in Holding /\ At(f, cur[d]))

NeverCut == \A d \in Drainers : ~cut[d]

\* One pass covers pending/: what a step takes from the list it has in hand, until it has
\* left pending/.
LEMMA SweepStep ==
  ASSUME {"dedup", "begin", "route"} \cap FailAt = {}, Sound, UniquePaths, LockHeld, NeverCut,
         Swept, NEW d \in Drainers, Acts(d), pc'[d] \in Busy \ {"list"},
         NEW f \in Files, file'[f].at = "pending"
  PROVE  <<"pending", file'[f].name>> \in todo'[d] \/ (pc'[d] \in Holding /\ At(f, cur[d])')
<1> USE DEF Held, Holding, Busy, InDoc, Goto, locals, signals, store, env, RouteFrom, Take
<1> USE DEF Sound, HandsOK, StateOK
<1> DEFINE Left == <<"pending", file'[f].name>> \in todo'[d]
                     \/ (pc'[d] \in Holding /\ At(f, cur[d])')
<1>0. [Next]_vars
  BY DEF Acts, Next
<1>1. ASSUME UNCHANGED <<file, todo[d], cur[d]>>, pc[d] \in Busy \ {"list"},
             pc[d] \in Holding => pc'[d] \in Holding
      PROVE  Left
  BY <1>1 DEF Swept, At
<1>2. CASE Boot(d) \/ Exit(d) \/ Mute(d) \/ Crash(d) \/ StartDrain(d) \/ EndDrain(d)
  BY <1>2 DEF Boot, Exit, Mute, Crash, StartDrain, EndDrain
<1>3. CASE TimeOut(d) \/ Abort(d) \/ Insert(d)
  BY <1>1, <1>3 DEF TimeOut, Abort, Insert, LockHeld
<1>4. CASE List(d)
  BY <1>4 DEF List, PathsIn
<1>5. ASSUME NEW p \in todo[d], TakeAborted(d, p) PROVE FALSE
  BY <1>5 DEF TakeAborted, LockHeld
<1>6. ASSUME NEW p \in todo[d], TakeInbox(d, p) PROVE Left
  BY <1>6 DEF TakeInbox, Swept
<1>7. ASSUME NEW p \in todo[d], TakePending(d, p) PROVE Left
  <2>1. p = <<"pending", p[2]>> /\ todo' = [todo EXCEPT ![d] = todo[d] \ {p}]
        /\ pc[d] = "next"
    BY <1>7 DEF TakePending, Paths
  <2>2. CASE ~Exists(p) /\ UNCHANGED file
    <3>1. <<"pending", file[f].name>> \in todo[d] /\ <<"pending", file[f].name>> # p
      BY <2>1, <2>2 DEF Swept, Exists, At
    <3> QED BY <2>1, <2>2, <3>1
  <2>3. ASSUME NEW g \in Files, At(g, p), file' = Moved(g, <<"inbox", p[2]>>) PROVE Left
    <3>1. <<"inbox", p[2]>> \in Targets
      BY <2>1 DEF Targets, Paths
    <3>2. f # g /\ file'[f].name = file[f].name /\ file[f].at = "pending"
      BY <2>3, <3>1, MovedTo
    <3>3. <<"pending", file[f].name>> \in todo[d] /\ <<"pending", file[f].name>> # p
      BY <2>1, <2>3, <3>2 DEF Swept, UniquePaths, At, Lanes
    <3> QED BY <2>1, <3>2, <3>3
  <2> QED BY <1>7, <2>2, <2>3 DEF TakePending
<1>8. CASE Validate(d)
  BY <1>8 DEF Validate, NeverCut, Swept
<1>9. CASE MoveToPending(d)
  <2>1. CASE UNCHANGED <<file, cur>>
    BY <1>1, <1>9, <2>1 DEF MoveToPending
  <2>2. ASSUME NEW g \in Files, NEW n \in FreeNames("pending", cur[d][2]), At(g, cur[d]),
               file' = Moved(g, <<"pending", n>>), cur' = [cur EXCEPT ![d] = <<"pending", n>>],
               pc' = [pc EXCEPT ![d] = "hash"], pc[d] = "move", UNCHANGED todo
        PROVE  Left
    <3>1. <<"pending", n>> \in Targets
      BY <2>2 DEF FreeNames, Targets, Paths
    <3>2. /\ file'[g].at = "pending" /\ file'[g].name = n
          /\ \A h \in Files \ {g} : /\ file'[h].name = file[h].name
                                    /\ file'[h].at = "pending" => file[h].at = "pending"
      BY <2>2, <3>1, MovedTo
    <3>3. cur'[d] = <<"pending", n>> /\ pc'[d] = "hash"
      BY <2>2
    <3>4. CASE f = g
      BY <3>2, <3>3, <3>4 DEF At
    <3>5. CASE f # g
      BY <2>2, <3>2, <3>5 DEF Swept
    <3> QED BY <3>4, <3>5
  <2> QED BY <1>9, <2>1, <2>2 DEF MoveToPending
<1>10. CASE HashStart(d) \/ HashEnd(d) \/ Normalize(d) \/ PersistStart(d) \/ WriteBody(d)
            \/ PersistCheck(d) \/ Undo(d)
  BY <1>1, <1>10 DEF HashStart, HashEnd, Normalize, PersistStart, WriteBody, PersistCheck, Undo,
       NeverCut
<1>11. CASE Dedup(d)
  <2>1. CASE UNCHANGED file /\ pc'[d] = "normalize"
    BY <1>1, <1>11, <2>1 DEF Dedup
  <2>2. CASE Drops(d)
    BY <1>11, <2>2 DEF Dedup, Drops, Swept, At
  <2> QED BY <1>11, <2>1, <2>2 DEF Dedup, Drops
<1>12. CASE RenameProcessed(d)
  <2>1. CASE UNCHANGED file /\ pc'[d] = "undo"
    BY <1>1, <1>12, <2>1 DEF RenameProcessed
  <2> DEFINE path == <<"processed", <<IdOf(hash[d]), src[d]>>>>
  <2>2. ASSUME NEW g \in Files, At(g, cur[d]), file' = Moved(g, path) PROVE Left
    <3>1. path \in Targets
      BY <1>12 DEF RenameProcessed, Hashed, Targets, Ids
    <3>2. f # g /\ file'[f].name = file[f].name /\ file[f].at = "pending"
      BY <2>2, <3>1, MovedTo
    <3>3. ~At(f, cur[d])
      BY <2>2, <3>2 DEF UniquePaths, At, Lanes
    <3> QED BY <1>12, <3>2, <3>3 DEF RenameProcessed, Swept
  <2> QED BY <1>12, <2>1, <2>2 DEF RenameProcessed
<1>13. CASE Commit(d) \/ WriteSidecar(d)
  BY <1>1, <1>13 DEF Commit, WriteSidecar
<1>14. CASE Route(d)
  <2>1. CASE ~Exists(cur[d]) /\ UNCHANGED file
    BY <1>14, <2>1 DEF Route, Exists, Swept
  <2>2. ASSUME NEW g \in Files, NEW n \in FreeNames("failed", cur[d][2]), At(g, cur[d]),
               file' = Moved(g, <<"failed", n>>)
        PROVE  Left
    <3>1. <<"failed", n>> \in Targets
      BY <1>14 DEF Route, FreeNames, Targets, Paths
    <3>2. f # g /\ file'[f].name = file[f].name /\ file[f].at = "pending"
      BY <2>2, <3>1, MovedTo
    <3>3. ~At(f, cur[d])
      BY <2>2, <3>2 DEF UniquePaths, At, Lanes
    <3> QED BY <1>14, <3>2, <3>3 DEF Route, Swept
  <2> QED BY <1>14, <2>1, <2>2 DEF Route
<1>15. CASE Fail(d)
  BY <1>1, <1>15 DEF Fail
<1> QED
  BY <1>2, <1>3, <1>4, <1>5, <1>6, <1>7, <1>8, <1>9, <1>10, <1>11, <1>12, <1>13, <1>14, <1>15
     DEF Acts, Work

\* Nobody else brings a file to pending/, or takes one from the list.
LEMMA SweepKept ==
  ASSUME {"dedup", "begin", "route"} \cap FailAt = {}, Sound, UniquePaths, LockHeld, NeverCut,
         Swept, [Next]_vars
  PROVE  Swept'
<1> SUFFICES ASSUME NEW e \in Drainers, pc'[e] \in Busy \ {"list"},
                    NEW f \in Files, file'[f].at = "pending"
             PROVE  <<"pending", file'[f].name>> \in todo'[e]
                      \/ (pc'[e] \in Holding /\ At(f, cur[e])')
  BY DEF Swept
<1>1. ASSUME UNCHANGED Mine(e),
             file[f].at = "pending" /\ file'[f].name = file[f].name
      PROVE  <<"pending", file'[f].name>> \in todo'[e]
                      \/ (pc'[e] \in Holding /\ At(f, cur[e])')
  BY <1>1 DEF Swept, At, Mine
<1>2. ASSUME NEW d \in Drainers, Acts(d), d # e
      PROVE  UNCHANGED Mine(e) /\ UNCHANGED file
  <2>1. UNCHANGED Mine(e)
    BY <1>2, Aside
  <2>2. pc[d] \notin Busy
    BY <1>2, <2>1 DEF LockHeld, Mine
  <2> QED BY <1>2, <2>1, <2>2, Outside DEF store
<1>3. CASE User /\ UNCHANGED <<rows, bodies, sidecars, holder, writer, pc, locals, signals>>
  <2>1. UNCHANGED Mine(e)
    BY <1>3 DEF Mine, locals, signals
  <2>2. ASSUME NEW g \in Files, FinishCopy(g)
        PROVE  file[f].at = "pending" /\ file'[f].name = file[f].name
    <3>1. file' = [file EXCEPT ![g] = [file[g] EXCEPT !.bytes = <<file[g].bytes[1], TRUE>>]]
      BY <2>2 DEF FinishCopy
    <3> QED BY <3>1 DEF Sound, FilesOK
  <2>3. ASSUME NEW g \in Files, NEW b \in Bases, NEW c \in Contents, NEW w \in BOOLEAN,
               Drop(g, b, c, w)
        PROVE  file[f].at = "pending" /\ file'[f].name = file[f].name
    BY <2>3 DEF Drop, Sound, FilesOK
  <2> QED BY <1>1, <1>3, <2>1, <2>2, <2>3 DEF User
<1>4. CASE UNCHANGED vars
  BY <1>1, <1>4 DEF vars, store, Mine, locals, signals
<1> QED BY <1>1, <1>2, <1>3, <1>4, Actors, SweepStep

\* No signal, no timeout: no pass is cut short in mid-document.
LEMMA CutKept ==
  ASSUME Aborted = {}, Slow = {}, Sound, NeverCut, [Next]_vars
  PROVE  NeverCut'
<1> USE DEF NeverCut, Sound, StateOK, locals, signals, store, env
<1>1. CASE User \/ UNCHANGED vars
  BY <1>1 DEF User, Drop, FinishCopy, vars
<1>2. ASSUME NEW d \in Drainers, Acts(d) PROVE NeverCut'
  <2>1. CASE Boot(d) \/ Exit(d) \/ Fail(d) \/ Mute(d) \/ Crash(d) \/ StartDrain(d) \/ List(d)
             \/ EndDrain(d)
    BY <2>1 DEF Boot, Exit, Fail, Mute, Crash, StartDrain, List, EndDrain
  <2>2. CASE \E p \in todo[d] : TakeAborted(d, p) \/ TakeInbox(d, p) \/ TakePending(d, p)
    BY <2>2 DEF TakeAborted, TakeInbox, TakePending
  <2>3. CASE Validate(d) \/ MoveToPending(d) \/ HashStart(d) \/ HashEnd(d) \/ Dedup(d)
             \/ Normalize(d) \/ PersistStart(d) \/ WriteBody(d)
    BY <2>3 DEF Validate, MoveToPending, HashStart, HashEnd, Dedup, Normalize, PersistStart,
         WriteBody
  <2>4. CASE PersistCheck(d) \/ Insert(d) \/ RenameProcessed(d) \/ Commit(d) \/ Undo(d)
             \/ Route(d) \/ WriteSidecar(d)
    BY <2>4 DEF PersistCheck, Insert, RenameProcessed, Commit, Undo, Route, WriteSidecar
  <2> QED BY <1>2, <2>1, <2>2, <2>3, <2>4 DEF Acts, Work, TimeOut, Abort
<1> QED BY <1>1, <1>2, Actors

\* A pass that ends has left nothing in pending/: it lists the leftovers of killed passes
\* first and routes what fails to failed/ from where it is, except where the catch block of
\* processOneFile looks for it in the inbox (a throw of openIndexReadWrite at the duplicate
\* check or before the insert, a timeout) and where the rename to failed/ itself fails
\* (drain-orchestrator.ts).
THEOREM PassesDrainPending ==
  ASSUME Aborted = {}, Slow = {}, {"dedup", "begin", "route"} \cap FailAt = {}
  PROVE  Spec => PendingDrained
<1>1. Init => LockHeld /\ NeverCut /\ Swept /\ UniquePaths
  BY DEF Init, LockHeld, NeverCut, Swept, UniquePaths, Busy, Lanes
<1>2. Sound /\ Swept => \A d \in Drainers : EndDrain(d) => PathsIn("pending") = {}
  <2> SUFFICES ASSUME Sound, Swept, NEW d \in Drainers, EndDrain(d), NEW f \in Files,
                      file[f].at = "pending"
               PROVE  FALSE
    BY DEF PathsIn
  <2> QED BY DEF EndDrain, Swept, Holding, Held, Busy
<1>3. Sound /\ UniquePaths /\ LockHeld /\ NeverCut /\ Swept /\ [Next]_vars => Swept'
  BY SweepKept
<1>4. Sound /\ NeverCut /\ [Next]_vars => NeverCut'
  BY CutKept
<1>5. Sound /\ LockHeld /\ [Next]_vars => LockHeld'
  BY LockKept
<1> QED
  BY <1>1, <1>2, <1>3, <1>4, <1>5, AlwaysSound, PathsKept, PTL DEF Spec, PendingDrained
=============================================================================
