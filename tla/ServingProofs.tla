--------------------------- MODULE ServingProofs ----------------------------
(***************************************************************************)
(* Theorems about the read-only resources, for any documents, sidecars and *)
(* pages, whatever the pipeline writes meanwhile.                          *)
(*                                                                         *)
(* Accounted follows the resource.read event of a request through the      *)
(* program points of its handler; Promised follows the body of a document  *)
(* whose row has been read: the ingest puts the body in place first, and   *)
(* nothing takes it away. Walking counts what is ahead of an entry in a    *)
(* list that changes while it is read page by page.                        *)
(***************************************************************************)
EXTENDS Serving, FiniteSetTheorems, TLAPS

\* A handler has appended its event exactly when it is done with it: an exception that is
\* still to be logged has not been, and an McpError has.
Accounted ==
  /\ pc \in {"parse", "body", "last", "emit"} => logged = 0
  /\ pc = "catch" => logged = IF MustLog THEN 0 ELSE 1
  /\ pc = "done" => logged \in {0, 1} /\ (~MustLog => logged = 1)
  /\ pc = "emit" => ~MustLog

BodyBeforeRow == \A d \in Docs : row[d] # None => d \in body

Promised ==
  /\ DOMAIN row = Docs
  /\ BodyBeforeRow
  /\ pc \in {"idle", "list", "parse", "last"} => ~had
  /\ pc = "body" => want \in Docs /\ row[want] # None
  /\ had /\ pc # "body" => answer.is \notin {"page", "not_found", "missing"}

----------------------------------------------------------------------------
\* The rows bear different timestamps the clock has given out, so the newest one exists.
Stamped ==
  /\ \A d \in Docs : row[d] # None => row[d] <= clock
  /\ Committed = {} \/ \E t \in Committed : \A u \in Committed : u <= t

Typed == TypeOK /\ Stamped

\* What the two statements behind the manifest return: a number of rows and one of the times.
LEMMA CommittedTimes ==
  ASSUME Typed
  PROVE  /\ Committed \subseteq Times
         /\ Cardinality(Committed) \in Nat
         /\ Committed # {} =>
              (CHOOSE t \in Committed : \A u \in Committed : u <= t) \in Times
<1>1. Committed \subseteq Times
  BY DEF Typed, TypeOK, Committed
<1>2. Committed \in SUBSET Nat /\ \A t \in Committed : t <= MaxTime
  BY <1>1, ServingAssumption DEF Times
<1>3. IsFiniteSet(Committed)
  BY <1>2, ServingAssumption, FS_BoundedSetOfNaturals
<1>4. Cardinality(Committed) \in Nat
  BY <1>3, FS_CardinalityType
<1>5. Committed # {} => (CHOOSE t \in Committed : \A u \in Committed : u <= t) \in Committed
  BY DEF Typed, Stamped
<1> QED
  BY <1>1, <1>4, <1>5

\* Types: a sidecar carries a stage of its kind, a page what was parsed, the manifest a count
\* and a time.
LEMMA StepTypes ==
  ASSUME Typed, [Next]_vars
  PROVE  Typed'
<1> USE ServingAssumption
<1>0. TypeOK /\ clock \in Nat /\ Limit \in Nat
  BY DEF Typed, TypeOK, Times
<1>1. ASSUME NEW n \in Names, WriteSidecar(n) PROVE Typed'
  <2>1. PICK s \in Written[n[2]] :
          /\ sidecars' = (sidecars \ {e \in sidecars : e.name = n})
                           \cup {[name |-> n, stage |-> s, at |-> clock + 1]}
          /\ stable' = stable \ {e \in sidecars : e.name = n}
          /\ shrunk' \in BOOLEAN
    BY <1>0, <1>1 DEF WriteSidecar, TypeOK
  <2>2. n[2] \in DOMAIN Written
    BY DEF Written
  <2>3. clock + 1 \in Times /\ clock' = clock + 1
    BY <1>0, <1>1 DEF WriteSidecar, Times
  <2>4. [name |-> n, stage |-> s, at |-> clock + 1] \in Entries
    BY <2>1, <2>2, <2>3 DEF Entries
  <2>5. UNCHANGED <<row, body, ready, pc, stage, offset, todo, got, seen, reply>>
    BY <1>1 DEF WriteSidecar
  <2>6. TypeOK'
    BY <1>0, <2>1, <2>3, <2>4, <2>5 DEF TypeOK, reply
  <2>7. Stamped'
    <3>1. Committed' = Committed
      BY <2>5 DEF Committed
    <3>2. \A d \in Docs : row[d] # None => row[d] \in Nat /\ row[d] <= clock
      BY <1>0 DEF Typed, TypeOK, Stamped, Times
    <3>3. \A d \in Docs : row'[d] # None => row'[d] <= clock'
      BY <1>0, <2>3, <2>5, <3>2
    <3> QED BY <3>1, <3>3 DEF Typed, Stamped
  <2> QED BY <2>6, <2>7 DEF Typed
<1>2. ASSUME NEW e \in sidecars, RemoveSidecar(e) PROVE Typed'
  BY <1>0, <1>2 DEF RemoveSidecar, Typed, TypeOK, Stamped, Committed, reply
<1>3. ASSUME NEW d \in Docs, PlaceBody(d) \/ RemoveBody(d) PROVE Typed'
  BY <1>0, <1>3 DEF PlaceBody, RemoveBody, Typed, TypeOK, Stamped, Committed, walk, reply
<1>4. ASSUME NEW d \in Docs, CommitRow(d) PROVE Typed'
  <2>1. /\ clock' = clock + 1 /\ clock + 1 \in Times
        /\ row' = [row EXCEPT ![d] = clock + 1] /\ row[d] = None
        /\ UNCHANGED <<sidecars, body, ready, pc, walk, reply>>
    BY <1>0, <1>4 DEF CommitRow, MayCommit, Times
  <2>2. TypeOK'
    BY <1>0, <2>1 DEF TypeOK, walk, reply
  <2>3. \A e \in Docs : row'[e] # None => row'[e] <= clock'
    BY <1>0, <2>1 DEF Typed, TypeOK, Stamped, Times
  <2>4. CASE clock + 1 = None
    <3>1. row' = row
      BY <1>0, <2>1, <2>4 DEF TypeOK
    <3> QED BY <2>2, <2>3, <3>1 DEF Typed, Stamped, Committed
  <2>5. CASE clock + 1 # None
    <3>1. row'[d] = clock + 1
      BY <1>0, <2>1 DEF TypeOK
    <3>2. clock + 1 \in Committed'
      BY <2>5, <3>1 DEF Committed
    <3>3. \A u \in Committed' : u <= clock + 1
      BY <2>1, <2>3 DEF Committed
    <3> QED BY <2>2, <2>3, <3>2, <3>3 DEF Typed, Stamped
  <2> QED BY <2>4, <2>5
<1>5. CASE Connect \/ MarkReady \/ UNCHANGED vars
  BY <1>0, <1>5 DEF Connect, MarkReady, vars, Typed, TypeOK, Stamped, Committed, disk, walk, reply
<1>6. CASE StartWalk \/ ListSidecars \/ ReadPage \/ NextPage
  <2>1. UNCHANGED disk
    BY <1>6 DEF StartWalk, ListSidecars, ReadPage, NextPage
  <2>2. Stamped'
    BY <2>1 DEF Typed, Stamped, Committed, disk
  <2>3. CASE StartWalk
    BY <1>0, <2>2, <2>3 DEF StartWalk, Ask, Typed, TypeOK, disk, reply
  <2>4. CASE ListSidecars
    <3>1. {e.name : e \in sidecars} \subseteq Names
      BY <1>0 DEF TypeOK, Entries
    <3> QED BY <1>0, <2>2, <2>4, <3>1 DEF ListSidecars, Typed, TypeOK, disk
  <2>5. CASE ReadPage
    <3>1. Page(Matching(got)) \subseteq Entries
      BY <1>0 DEF Page, Matching, TypeOK
    <3>2. Answer("page") \in Answers
      BY DEF Answer, Answers, Kinds
    <3> QED BY <1>0, <2>2, <2>5, <3>1, <3>2 DEF ReadPage, Typed, TypeOK, disk
  <2>6. CASE NextPage
    <3>1. offset + Limit \in Nat
      BY <1>0 DEF TypeOK
    <3> QED BY <1>0, <2>2, <2>6, <3>1 DEF NextPage, Typed, TypeOK, disk, reply
  <2> QED BY <1>6, <2>3, <2>4, <2>5, <2>6
<1>7. ASSUME NEW n \in Names, ParseSidecar(n) PROVE Typed'
  BY <1>0, <1>7 DEF ParseSidecar, Typed, TypeOK, Stamped, Committed, disk, reply
<1>8. ASSUME NEW d \in Docs, FetchRow(d) PROVE Typed'
  <2>1. answer' \in Answers /\ pc' \in {"body", "emit", "catch"}
    BY <1>0, <1>8 DEF FetchRow, Refuse, Answer, Answers, Kinds, TypeOK
  <2>2. /\ want' = d /\ had' \in BOOLEAN /\ logged' = 0
        /\ UNCHANGED <<disk, ready, walk>>
    BY <1>8 DEF FetchRow
  <2> QED BY <1>0, <2>1, <2>2 DEF Typed, TypeOK, Stamped, Committed, disk, walk
<1>9. CASE ReadBody
  <2>1. answer' \in Answers /\ pc' \in {"emit", "catch"}
    BY <1>0, <1>9 DEF ReadBody, Refuse, Answer, Answers, Kinds
  <2>2. UNCHANGED <<disk, ready, walk, want, had, logged>>
    BY <1>9 DEF ReadBody
  <2> QED BY <1>0, <2>1, <2>2 DEF Typed, TypeOK, Stamped, Committed, disk, walk
<1>10. CASE CountDocs \/ LastIngest
  <2>1. answer.count \in Nat
    BY <1>0 DEF TypeOK, Answers
  <2>2. answer' \in Answers
    <3>0. ASSUME NEW why, Refuse(why) PROVE answer' \in Answers
      BY <3>0 DEF Refuse, Answer, Answers, Kinds
    <3>1. CASE CountDocs
      <4>1. [is |-> "manifest", count |-> Cardinality(Committed), last |-> None] \in Answers
        BY CommittedTimes DEF Answers, Kinds
      <4> QED BY <3>0, <3>1, <4>1 DEF CountDocs
    <3>2. CASE LastIngest
      <4> DEFINE newest == CHOOSE t \in Committed : \A u \in Committed : u <= t
      <4>1. (IF Committed = {} THEN None ELSE newest) \in Times \cup {None}
        BY CommittedTimes
      <4> HIDE DEF newest
      <4>2. \/ answer' = [is |-> "manifest", count |-> answer.count,
                          last |-> IF Committed = {} THEN None ELSE newest]
            \/ \E why : Refuse(why)
        BY <3>2 DEF LastIngest, newest
      <4> QED BY <2>1, <3>0, <4>1, <4>2 DEF Answers, Kinds
    <3> QED BY <1>10, <3>1, <3>2
  <2>3. /\ pc' \in {"last", "emit", "catch"} /\ logged' \in {0, logged}
        /\ UNCHANGED <<disk, ready, walk, want, had>>
    BY <1>10 DEF CountDocs, LastIngest, Refuse
  <2> QED BY <1>0, <2>2, <2>3 DEF Typed, TypeOK, Stamped, Committed, disk, walk
<1>13. CASE BreakOff
  <2>1. answer' \in Answers /\ pc' = "catch" /\ logged' = 0
    BY <1>13 DEF BreakOff, Refuse, Answer, Answers, Kinds
  <2>2. UNCHANGED <<disk, ready, walk, want, had>>
    BY <1>13 DEF BreakOff
  <2> QED BY <1>0, <2>1, <2>2 DEF Typed, TypeOK, Stamped, Committed, disk, walk
<1>11. CASE EmitRead \/ Catch
  <2>1. Answer("muted") \in Answers
    BY DEF Answer, Answers, Kinds
  <2>2. logged' \in Nat
    BY <1>0, <1>11 DEF EmitRead, Catch, TypeOK
  <2>3. Stamped'
    BY <1>11 DEF EmitRead, Catch, Typed, Stamped, Committed, disk
  <2>4. CASE EmitRead
    <3>1. /\ answer' \in Answers /\ pc' \in {pc, "catch", "done"}
          /\ UNCHANGED <<disk, ready, walk, want, had>>
      BY <1>0, <2>1, <2>4 DEF EmitRead, AfterMute, TypeOK
    <3> QED BY <1>0, <2>2, <2>3, <3>1 DEF Typed, TypeOK, disk, walk
  <2>5. CASE Catch
    <3>1. UNCHANGED <<disk, ready, walk, want, had, answer>> /\ pc' = "done"
      BY <2>5 DEF Catch
    <3> QED BY <1>0, <2>2, <2>3, <3>1 DEF Typed, TypeOK, disk, walk
  <2> QED BY <1>11, <2>4, <2>5
<1>12. CASE Leave
  <2>1. NoAnswer \in Answers
    BY DEF NoAnswer, Answer, Answers, Kinds
  <2>2. TypeOK'
    BY <1>0, <1>12, <2>1 DEF Leave, TypeOK, disk
  <2>3. Stamped'
    BY <1>12 DEF Leave, Typed, Stamped, Committed, disk
  <2> QED BY <2>2, <2>3 DEF Typed
<1> QED
  BY <1>1, <1>2, <1>3, <1>4, <1>5, <1>6, <1>7, <1>8, <1>9, <1>10, <1>11, <1>12, <1>13
     DEF Next, Pipeline, Failures, Read, Reply

\* Every answer has the shape its resource promises: a page of sidecars as their writers shape
\* them, a manifest of a count and the time of a committed row.
THEOREM TypeCorrect == Spec => []TypeOK
<1>1. ASSUME Init PROVE Typed
  <2>1. NoAnswer \in Answers
    BY DEF NoAnswer, Answer, Answers, Kinds
  <2>2. 0 \in Times
    BY ServingAssumption DEF Times
  <2>3. TypeOK
    BY <1>1, <2>1, <2>2 DEF Init, TypeOK
  <2>4. Stamped
    BY <1>1 DEF Init, Stamped, Committed
  <2> QED BY <2>3, <2>4 DEF Typed
<1>2. Typed => TypeOK
  BY DEF Typed
<1> QED
  BY <1>1, <1>2, StepTypes, PTL DEF Spec

----------------------------------------------------------------------------
\* Every step of a request keeps account of its event, and the others do not touch it.
LEMMA StepAccounts ==
  ASSUME Accounted, [Next]_vars
  PROVE  Accounted'
<1> USE DEF Accounted, MustLog, McpErrors
<1>1. CASE Pipeline \/ Connect \/ MarkReady
  <2>1. UNCHANGED <<pc, logged, answer>>
    BY <1>1 DEF Pipeline, WriteSidecar, RemoveSidecar, PlaceBody, RemoveBody,
                CommitRow, Connect, MarkReady, reply
  <2> QED BY <2>1
<1>2. CASE StartWalk
  BY <1>2 DEF StartWalk, reply
<1>3. CASE ListSidecars
  BY <1>3 DEF ListSidecars
<1>4. ASSUME NEW n \in Names, ParseSidecar(n) PROVE Accounted'
  BY <1>4 DEF ParseSidecar, reply
<1>5. CASE ReadPage
  BY <1>5 DEF ReadPage, Answer, NoAnswer
<1>6. CASE NextPage
  BY <1>6 DEF NextPage, reply
<1>7. ASSUME NEW d \in Docs, FetchRow(d) PROVE Accounted'
  BY <1>7 DEF FetchRow, Ask, Refuse, Answer
<1>8. CASE ReadBody
  BY <1>8 DEF ReadBody, Refuse, Answer
<1>9. CASE CountDocs
  BY <1>9 DEF CountDocs, Ask, Refuse, Answer
<1>10. CASE LastIngest
  BY <1>10 DEF LastIngest, Refuse, Answer
<1>15. CASE BreakOff
  BY <1>15 DEF BreakOff, Refuse, Answer
<1>11. CASE EmitRead
  BY <1>11 DEF EmitRead, AfterMute, Answer, NoAnswer
<1>12. CASE Catch
  BY <1>12 DEF Catch
<1>13. CASE Leave
  BY <1>13 DEF Leave
<1>14. CASE UNCHANGED vars
  BY <1>14 DEF vars, reply
<1> QED
  BY <1>1, <1>2, <1>3, <1>4, <1>5, <1>6, <1>7, <1>8, <1>9, <1>10, <1>11, <1>12, <1>13, <1>14,
     <1>15
     DEF Next, Failures, Read, Reply

\* A request leaves one resource.read event, never two, and no data goes out without it
\* (resource-document-handler.ts:137, resource-telemetry.ts:58).
THEOREM EveryAnswerIsLogged == Spec => []AnswersAreLogged
<1>1. Init => Accounted
  BY DEF Init, Accounted
<1>2. Accounted => AnswersAreLogged
  BY DEF Accounted, AnswersAreLogged
<1> QED
  BY <1>1, <1>2, StepAccounts, PTL DEF Spec

----------------------------------------------------------------------------
\* The pipeline places the body before it commits the row; a read in progress keeps what
\* it was promised.
LEMMA StepKeepsPromise ==
  ASSUME Promised, [Next]_vars
  PROVE  Promised'
<1> USE DEF Promised, BodyBeforeRow
<1>1. ASSUME NEW n \in Names, WriteSidecar(n) PROVE Promised'
  BY <1>1 DEF WriteSidecar, reply
<1>2. ASSUME NEW e \in sidecars, RemoveSidecar(e) PROVE Promised'
  BY <1>2 DEF RemoveSidecar, reply
<1>3. ASSUME NEW d \in Docs, PlaceBody(d) PROVE Promised'
  BY <1>3 DEF PlaceBody, reply
<1>4. ASSUME NEW d \in Docs, RemoveBody(d) PROVE Promised'
  BY <1>4 DEF RemoveBody, reply
<1>5. ASSUME NEW d \in Docs, CommitRow(d) PROVE Promised'
  <2>1. row[d] = None /\ d \in body /\ row' = [row EXCEPT ![d] = clock + 1]
        /\ UNCHANGED <<body, pc, want, had, answer>>
    BY <1>5 DEF CommitRow, MayCommit, reply
  <2>2. DOMAIN row' = Docs /\ BodyBeforeRow'
    BY <1>5, <2>1
  <2>3. pc' = "body" => want' \in Docs /\ row'[want'] # None
    BY <2>1
  <2> QED BY <2>1, <2>2, <2>3
<1>6. CASE Connect \/ MarkReady \/ UNCHANGED vars
  BY <1>6 DEF Connect, MarkReady, vars, disk, reply
<1>7. CASE StartWalk
  BY <1>7 DEF StartWalk, Ask, disk, reply
<1>8. CASE ListSidecars
  BY <1>8 DEF ListSidecars, disk
<1>9. ASSUME NEW n \in Names, ParseSidecar(n) PROVE Promised'
  BY <1>9 DEF ParseSidecar, disk, reply
<1>10. CASE ReadPage
  BY <1>10 DEF ReadPage, disk
<1>11. CASE NextPage
  BY <1>11 DEF NextPage, disk, reply
<1>12. ASSUME NEW d \in Docs, FetchRow(d) PROVE Promised'
  <2>1. want' = d /\ had' = (row[d] # None) /\ UNCHANGED <<row, body>>
    BY <1>12 DEF FetchRow, disk
  <2>2. CASE row[d] # None /\ pc' = "body"
    BY <2>1, <2>2
  <2>3. CASE row[d] = None /\ pc' = "emit"
    BY <2>1, <2>3
  <2>4. ASSUME NEW why \in {"locked", "thrown"}, Refuse(why) PROVE Promised'
    <3>1. answer'.is = why /\ pc' \in {"emit", "catch"}
      BY <2>4 DEF Refuse, Answer
    <3> QED BY <2>1, <3>1
  <2> QED BY <1>12, <2>2, <2>3, <2>4 DEF FetchRow
<1>13. CASE ReadBody
  <2>1. want \in body /\ UNCHANGED <<row, body>> /\ pc' \in {"emit", "catch"}
    BY <1>13 DEF ReadBody, Refuse, disk
  <2>2. answer'.is \in {"served", "integrity", "invalid", "thrown"}
    BY <1>13, <2>1 DEF ReadBody, Refuse, Answer
  <2> QED BY <2>1, <2>2
<1>14. CASE CountDocs
  BY <1>14 DEF CountDocs, Ask, Refuse, disk
<1>15. CASE LastIngest
  BY <1>15 DEF LastIngest, Refuse, disk
<1>19. CASE BreakOff
  BY <1>19 DEF BreakOff, Refuse, Answer, disk
<1>16. CASE EmitRead
  BY <1>16 DEF EmitRead, AfterMute, Answer, disk
<1>17. CASE Catch
  BY <1>17 DEF Catch, disk
<1>18. CASE Leave
  BY <1>18 DEF Leave, disk
<1> QED
  BY <1>1, <1>2, <1>3, <1>4, <1>5, <1>6, <1>7, <1>8, <1>9, <1>10, <1>11, <1>12, <1>13, <1>14,
     <1>15, <1>16, <1>17, <1>18, <1>19
     DEF Next, Pipeline, Failures, Read, Reply

\* A document whose row was there when it was asked for is never answered as unknown, and
\* its body never as a missing file, although the row and the body are read in two steps and
\* the ingest goes on (document-adapter.ts:69; persister.ts puts the body in place first and
\* takes it away only from a row it did not commit).
THEOREM CommittedIsNotMissed == Spec => []CommittedIsFound
<1>1. Init => Promised
  BY DEF Init, Promised, BodyBeforeRow
<1>2. Promised => CommittedIsFound
  BY DEF Promised, CommittedIsFound
<1> QED
  BY <1>1, <1>2, StepKeepsPromise, PTL DEF Spec

----------------------------------------------------------------------------
\* The files of a walk: one per name, dated in the order in which they were written.
\* Nothing that is read on the way is still to be read.
Filed ==
  /\ clock \in Nat /\ offset \in Nat
  /\ IsFiniteSet(sidecars)
  /\ \A e \in sidecars : e.at \in Nat /\ e.at <= clock
  /\ \A e, f \in sidecars : e.name = f.name => e = f
  /\ IsFiniteSet(got)
  /\ \A f \in got : f.at \in Nat /\ Listable(f) /\ f.name \notin todo
  /\ \A e, f \in got : e.name = f.name => e = f
  /\ stable \subseteq sidecars
  /\ pc = "idle" => got = {}
  /\ pc \in {"idle", "body", "last"} => stable = {}

\* The names that are listed before an entry, among the entries of S.
Newer(S, e) == {f.name : f \in {g \in S : g.at > e.at}}

\* What is or will be before an entry on the page that is being read: what has been read,
\* and what is there now and still to be read.
Ahead(e) == Newer(Matching(got), e) \cup (todo \cap Newer(Shown(sidecars), e))

\* Whatever is read stays on the list, renewed perhaps, unless it is taken off.
Lasting ==
  \A f \in Matching(got) : \E g \in Shown(sidecars) : g.name = f.name /\ g.at >= f.at

\* An entry that has not been seen is not before the page: as many names as were passed over
\* are ahead of it still. Only more can get ahead of it.
Reached(e) ==
  /\ pc = "list" => e \in seen \/ offset <= Cardinality(Newer(Shown(sidecars), e))
  /\ pc = "parse" => /\ e.name \in todo \/ e \in got
                     /\ e \in seen \/ offset <= Cardinality(Ahead(e))
  /\ pc \in {"emit", "catch", "done"} /\ answer.is = "page" =>
       /\ e \in got
       /\ e \in seen \/ offset + Limit <= Cardinality(Newer(Matching(got), e))

Walking == ~shrunk => Lasting /\ \A e \in Shown(stable) : Reached(e)

LEMMA ImageIsFinite ==
  ASSUME NEW S, IsFiniteSet(S), NEW e
  PROVE  IsFiniteSet(Newer(S, e))
<1> DEFINE T == {g \in S : g.at > e.at}
           name == [f \in T |-> f.name]
<1>1. IsFiniteSet(T)
  BY FS_Subset
<1>2. name \in Surjection(T, Newer(S, e))
  BY DEF Surjection, Newer
<1> QED
  BY <1>1, <1>2, FS_Surjection

LEMMA Bounded ==
  ASSUME NEW T, IsFiniteSet(T), NEW S, S \subseteq T
  PROVE  Cardinality(S) \in Nat /\ Cardinality(T) \in Nat /\ Cardinality(S) <= Cardinality(T)
BY FS_Subset, FS_CardinalityType

\* An entry's place in a list without two entries of one name is the number of names ahead.
LEMMA RankCountsNames ==
  ASSUME NEW E, IsFiniteSet(E), \A f, g \in E : f.name = g.name => f = g, NEW e
  PROVE  Cardinality({f \in E : Before(f, e)}) = Cardinality(Newer(E, e))
<1> DEFINE T == {f \in E : f.at > e.at}
           name == [f \in T |-> f.name]
<1>1. IsFiniteSet(T)
  BY FS_Subset
<1>2. name \in Bijection(T, Newer(E, e))
  BY DEF Bijection, Injection, IsInjective, Surjection, Newer
<1>3. Cardinality(Newer(E, e)) = Cardinality(T)
  BY <1>1, <1>2, FS_Bijection DEF ExistsBijection
<1> QED
  BY <1>3 DEF Before

----------------------------------------------------------------------------
LEMMA StepFiles ==
  ASSUME Filed, [Next]_vars
  PROVE  Filed'
<1> USE DEF Filed
<1>1. ASSUME NEW n \in Names, WriteSidecar(n) PROVE Filed'
  <2>1. PICK s \in Written[n[2]] :
          /\ sidecars' = (sidecars \ {e \in sidecars : e.name = n})
                           \cup {[name |-> n, stage |-> s, at |-> clock + 1]}
          /\ stable' = stable \ {e \in sidecars : e.name = n}
    BY <1>1 DEF WriteSidecar
  <2>2. UNCHANGED <<pc, todo, got, offset>> /\ clock' = clock + 1
    BY <1>1 DEF WriteSidecar
  <2>3. IsFiniteSet(sidecars')
    <3>1. IsFiniteSet(sidecars \ {e \in sidecars : e.name = n})
      BY FS_Subset
    <3> QED BY <2>1, <3>1, FS_AddElement
  <2>4. \A e \in sidecars' : e.at \in Nat /\ e.at <= clock'
    BY <2>1, <2>2
  <2>5. \A e, f \in sidecars' : e.name = f.name => e = f
    BY <2>1
  <2>6. stable' \subseteq sidecars'
    BY <2>1
  <2>7. pc' \in {"idle", "body", "last"} => stable' = {}
    BY <2>1, <2>2
  <2> QED BY <2>2, <2>3, <2>4, <2>5, <2>6, <2>7 DEF Listable
<1>2. ASSUME NEW r \in sidecars, RemoveSidecar(r) PROVE Filed'
  <2>1. IsFiniteSet(sidecars \ {r})
    BY FS_Subset
  <2> QED BY <1>2, <2>1 DEF RemoveSidecar, Listable
<1>3. ASSUME NEW n \in Names, ParseSidecar(n) PROVE Filed'
  <2> DEFINE read == {e \in sidecars : e.name = n /\ Listable(e)}
  <2>1. IsFiniteSet(read)
    BY FS_Subset
  <2>2. IsFiniteSet(got \cup read)
    BY <2>1, FS_Union
  <2>3. /\ todo' = todo \ {n} /\ n \in todo /\ got' = got \cup read /\ pc = "parse"
        /\ UNCHANGED <<clock, sidecars, pc, offset, stable>>
    BY <1>3 DEF ParseSidecar, disk
  <2>4. IsFiniteSet(got')
    BY <2>2, <2>3
  <2>5. \A f \in got' : f.at \in Nat /\ Listable(f) /\ f.name \notin todo'
    BY <2>3
  <2>6. \A e, f \in got' : e.name = f.name => e = f
    BY <2>3
  <2> QED BY <2>3, <2>4, <2>5, <2>6 DEF Listable
<1>4. CASE ListSidecars
  BY <1>4, FS_EmptySet DEF ListSidecars, disk
<1>5. CASE NextPage
  <2>1. offset + Limit \in Nat
    BY ServingAssumption
  <2> QED BY <1>5, <2>1 DEF NextPage, disk, Listable
<1>6. CASE Leave
  BY <1>6, FS_EmptySet DEF Leave, disk
<1>7. CASE StartWalk
  BY <1>7 DEF StartWalk, Ask, disk, Listable
<1>8. CASE (\E d \in Docs : FetchRow(d)) \/ ReadBody \/ CountDocs \/ LastIngest
  BY <1>8 DEF FetchRow, ReadBody, CountDocs, LastIngest, Refuse, Ask, disk, walk, Listable
<1>13. CASE BreakOff
  BY <1>13 DEF BreakOff, Refuse, disk, walk, Listable
<1>9. CASE ReadPage \/ EmitRead \/ Catch
  BY <1>9 DEF ReadPage, EmitRead, AfterMute, Catch, disk, walk, Listable
<1>10. CASE Connect \/ MarkReady \/ UNCHANGED vars
  BY <1>10 DEF Connect, MarkReady, vars, disk, walk, Listable
<1>11. ASSUME NEW d \in Docs, PlaceBody(d) \/ RemoveBody(d) PROVE Filed'
  BY <1>11 DEF PlaceBody, RemoveBody, walk, Listable
<1>12. ASSUME NEW d \in Docs, CommitRow(d) PROVE Filed'
  BY <1>12 DEF CommitRow, walk, Listable
<1> QED
  BY <1>1, <1>2, <1>3, <1>4, <1>5, <1>6, <1>7, <1>8, <1>9, <1>10, <1>11, <1>12, <1>13
     DEF Next, Pipeline, Failures, Read, Reply

----------------------------------------------------------------------------
\* While none is taken off the list, a write to the failures folder leaves every entry of it
\* there, or a newer one of its name.
LEMMA ListGrows ==
  ASSUME Filed, pc # "idle", ~shrunk',
         (\E n \in Names : WriteSidecar(n)) \/ (\E e \in sidecars : RemoveSidecar(e))
  PROVE  \A f \in Shown(sidecars) : \E g \in Shown(sidecars)' : g.name = f.name /\ g.at >= f.at
<1> SUFFICES ASSUME NEW f \in Shown(sidecars)
             PROVE  \E g \in Shown(sidecars)' : g.name = f.name /\ g.at >= f.at
  OBVIOUS
<1>0. f \in sidecars /\ f.at \in Nat /\ f.at <= clock /\ clock \in Nat
  BY DEF Filed, Shown, Matching
<1>1. ASSUME NEW n \in Names, WriteSidecar(n)
      PROVE  \E g \in Shown(sidecars)' : g.name = f.name /\ g.at >= f.at
  <2>1. PICK s \in Written[n[2]] :
          LET old == {e \in sidecars : e.name = n}
              new == {[name |-> n, stage |-> s, at |-> clock + 1]}
          IN /\ sidecars' = (sidecars \ old) \cup new
             /\ shrunk' = (shrunk \/ (pc # "idle" /\ Shown(old) # {} /\ Shown(new) = {}))
    BY <1>1 DEF WriteSidecar
  <2>2. stage' = stage
    BY <1>1 DEF WriteSidecar
  <2>3. CASE f.name # n
    BY <1>0, <2>1, <2>2, <2>3 DEF Shown, Matching, Listable
  <2>4. CASE f.name = n
    <3>1. f \in Shown({e \in sidecars : e.name = n})
      BY <1>0, <2>4 DEF Shown, Matching
    <3>2. PICK g \in Shown({[name |-> n, stage |-> s, at |-> clock + 1]}) : TRUE
      BY <2>1, <3>1
    <3>3. g = [name |-> n, stage |-> s, at |-> clock + 1]
      BY <3>2 DEF Shown, Matching
    <3>4. g \in Shown(sidecars)'
      BY <2>1, <2>2, <3>2, <3>3 DEF Shown, Matching, Listable
    <3> QED BY <1>0, <2>4, <3>3, <3>4
  <2> QED BY <2>3, <2>4
<1>2. ASSUME NEW r \in sidecars, RemoveSidecar(r)
      PROVE  \E g \in Shown(sidecars)' : g.name = f.name /\ g.at >= f.at
  <2>1. /\ sidecars' = sidecars \ {r} /\ stage' = stage
        /\ shrunk' = (shrunk \/ (pc # "idle" /\ Shown({r}) # {}))
    BY <1>2 DEF RemoveSidecar
  <2>2. f # r
    BY <2>1 DEF Shown, Matching
  <2> QED BY <1>0, <2>1, <2>2 DEF Shown, Matching, Listable
<1> QED BY <1>1, <1>2

\* The pipeline and the operator: what is ahead of an entry that stays only gets more.
LEMMA WritesKeepWalking ==
  ASSUME Filed, Filed', Walking,
         (\E n \in Names : WriteSidecar(n)) \/ (\E e \in sidecars : RemoveSidecar(e))
  PROVE  Walking'
<1>1. /\ UNCHANGED <<pc, stage, offset, todo, got, seen, answer>> /\ stable' \subseteq stable
      /\ (shrunk => shrunk')
  BY DEF WriteSidecar, RemoveSidecar, reply
<1>2. SUFFICES ASSUME ~shrunk' PROVE Lasting' /\ \A e \in Shown(stable)' : Reached(e)'
  BY DEF Walking
<1>3. Lasting /\ \A e \in Shown(stable) : Reached(e)
  BY <1>1, <1>2 DEF Walking
<1>4. Shown(stable)' \subseteq Shown(stable) /\ Matching(got)' = Matching(got)
  BY <1>1 DEF Shown, Matching, Listable
<1>5. CASE pc = "idle"
  <2>1. got' = {} /\ stable' = {}
    BY <1>1, <1>5 DEF Filed
  <2> QED BY <2>1 DEF Lasting, Shown, Matching
<1>6. CASE pc # "idle"
  <2>1. \A f \in Shown(sidecars) : \E g \in Shown(sidecars)' : g.name = f.name /\ g.at >= f.at
    BY <1>2, <1>6, ListGrows
  <2>2. /\ \A f \in Shown(sidecars) : f.at \in Nat
        /\ \A f \in Shown(sidecars)' : f.at \in Nat
        /\ \A f \in Matching(got) : f.at \in Nat
    BY DEF Filed, Shown, Matching
  <2>3. Lasting'
    <3>1. SUFFICES ASSUME NEW f \in Matching(got)
                   PROVE \E g \in Shown(sidecars)' : g.name = f.name /\ g.at >= f.at
      BY <1>4 DEF Lasting
    <3>2. PICK h \in Shown(sidecars) : h.name = f.name /\ h.at >= f.at
      BY <1>3 DEF Lasting
    <3>3. PICK g \in Shown(sidecars)' : g.name = h.name /\ g.at >= h.at
      BY <2>1
    <3> QED BY <2>2, <3>2, <3>3
  <2>4. ASSUME NEW e \in Shown(stable)' PROVE Reached(e)'
    <3>1. Reached(e) /\ e.at \in Nat
      BY <1>3, <1>4 DEF Filed, Shown, Matching
    <3>2. Newer(Shown(sidecars), e) \subseteq Newer(Shown(sidecars)', e)
      <4>1. SUFFICES ASSUME NEW f \in Shown(sidecars), f.at > e.at
                     PROVE \E g \in Shown(sidecars)' : g.name = f.name /\ g.at > e.at
        BY DEF Newer
      <4>2. PICK g \in Shown(sidecars)' : g.name = f.name /\ g.at >= f.at
        BY <2>1
      <4> QED BY <2>2, <3>1, <4>1, <4>2
    <3>3. IsFiniteSet(Shown(sidecars)') /\ IsFiniteSet(Matching(got))
      BY FS_Subset DEF Filed, Shown, Matching
    <3>4. /\ IsFiniteSet(Newer(Shown(sidecars)', e)) /\ IsFiniteSet(Newer(Matching(got), e))
      BY <3>3, ImageIsFinite
    <3>5. Cardinality(Newer(Shown(sidecars), e)) \in Nat
          /\ Cardinality(Newer(Shown(sidecars)', e)) \in Nat
          /\ Cardinality(Newer(Shown(sidecars), e)) <= Cardinality(Newer(Shown(sidecars)', e))
      BY <3>2, <3>4, Bounded
    <3>6. Ahead(e) \subseteq Ahead(e)'
      BY <1>1, <1>4, <3>2 DEF Ahead, Newer
    <3>7. IsFiniteSet(Ahead(e)')
      <4>1. Ahead(e)' = Newer(Matching(got), e) \cup (todo \cap Newer(Shown(sidecars)', e))
        BY <1>1, <1>4 DEF Ahead, Newer
      <4>2. IsFiniteSet(todo \cap Newer(Shown(sidecars)', e))
        BY <3>4, FS_Subset
      <4> QED BY <3>4, <4>1, <4>2, FS_Union
    <3>8. Cardinality(Ahead(e)) \in Nat /\ Cardinality(Ahead(e)') \in Nat
          /\ Cardinality(Ahead(e)) <= Cardinality(Ahead(e)')
      BY <3>6, <3>7, Bounded
    <3>9. pc' = "list" => e \in seen' \/ offset' <= Cardinality(Newer(Shown(sidecars), e)')
      BY <1>1, <3>1, <3>5 DEF Reached, Filed, Newer
    <3>10. pc' = "parse" => /\ e.name \in todo' \/ e \in got'
                            /\ e \in seen' \/ offset' <= Cardinality(Ahead(e)')
      BY <1>1, <3>1, <3>8 DEF Reached, Filed
    <3>11. Newer(Matching(got), e)' = Newer(Matching(got), e)
      BY <1>4 DEF Newer
    <3> QED BY <1>1, <3>1, <3>9, <3>10, <3>11 DEF Reached
  <2> QED BY <2>3, <2>4
<1> QED BY <1>5, <1>6

\* ParseSidecar: a name that was ahead and still to be read is read as an entry that is ahead.
LEMMA ParsingKeepsWalking ==
  ASSUME Filed, Filed', Walking, NEW n \in Names, ParseSidecar(n)
  PROVE  Walking'
<1> DEFINE read == {e \in sidecars : e.name = n /\ Listable(e)}
<1>1. /\ pc = "parse" /\ n \in todo /\ todo' = todo \ {n} /\ got' = got \cup read
      /\ UNCHANGED <<sidecars, pc, stage, offset, seen, stable, shrunk>>
  BY DEF ParseSidecar, disk
<1>2. SUFFICES ASSUME ~shrunk PROVE Lasting' /\ \A e \in Shown(stable)' : Reached(e)'
  BY <1>1 DEF Walking
<1>3. Lasting /\ \A e \in Shown(stable) : Reached(e)
  BY <1>2 DEF Walking
<1>4. Shown(stable)' = Shown(stable) /\ Shown(sidecars)' = Shown(sidecars)
  BY <1>1 DEF Shown, Matching, Listable
<1>5. Matching(got)' = Matching(got) \cup Matching(read)
  BY <1>1 DEF Matching
<1>6. Matching(read) \subseteq Shown(sidecars) /\ \A f \in Matching(read) : f.at \in Nat
  BY DEF Matching, Shown, Filed
<1>7. Lasting'
  BY <1>3, <1>4, <1>5, <1>6 DEF Lasting
<1>8. ASSUME NEW e \in Shown(stable) PROVE Reached(e)'
  <2>1. e \in sidecars /\ Listable(e) /\ Reached(e)
    BY <1>3 DEF Filed, Shown, Matching
  <2>2. Ahead(e) \subseteq Ahead(e)'
    <3>1. SUFFICES ASSUME NEW m \in Newer(Shown(sidecars), e), m = n
                   PROVE m \in Newer(Matching(got)', e)
      BY <1>1, <1>4, <1>5 DEF Ahead, Newer
    <3>2. PICK f \in Shown(sidecars) : f.at > e.at /\ f.name = m
      BY DEF Newer
    <3>3. f \in Matching(read)
      BY <3>1, <3>2 DEF Shown, Matching
    <3> QED BY <1>5, <3>2, <3>3 DEF Newer
  <2>3. IsFiniteSet(Ahead(e)')
    <3>1. IsFiniteSet(Shown(sidecars)') /\ IsFiniteSet(Matching(got)')
      BY FS_Subset DEF Filed, Shown, Matching
    <3>2. IsFiniteSet(Newer(Shown(sidecars)', e)) /\ IsFiniteSet(Newer(Matching(got)', e))
      BY <3>1, ImageIsFinite
    <3>3. IsFiniteSet(todo' \cap Newer(Shown(sidecars)', e))
      BY <3>2, FS_Subset
    <3>4. Ahead(e)' = Newer(Matching(got)', e) \cup (todo' \cap Newer(Shown(sidecars)', e))
      BY DEF Ahead, Newer
    <3> QED BY <3>2, <3>3, <3>4, FS_Union
  <2>4. Cardinality(Ahead(e)) \in Nat /\ Cardinality(Ahead(e)') \in Nat
        /\ Cardinality(Ahead(e)) <= Cardinality(Ahead(e)')
    BY <2>2, <2>3, Bounded
  <2>5. e.name \in todo' \/ e \in got'
    BY <1>1, <2>1 DEF Reached
  <2> QED BY <1>1, <2>1, <2>4, <2>5 DEF Reached, Filed
<1> QED BY <1>4, <1>7, <1>8

\* ReadPage: an entry that was not passed over is on the page, or after it.
LEMMA PagingKeepsWalking ==
  ASSUME Filed, Walking, ReadPage
  PROVE  Walking'
<1>1. /\ pc = "parse" /\ todo = {} /\ seen' = seen \cup Page(Matching(got)) /\ pc' = "emit"
      /\ UNCHANGED <<sidecars, got, todo, stage, offset, stable, shrunk>>
  BY DEF ReadPage, disk
<1>2. SUFFICES ASSUME ~shrunk PROVE Lasting' /\ \A e \in Shown(stable)' : Reached(e)'
  BY <1>1 DEF Walking
<1>3. Lasting /\ \A e \in Shown(stable) : Reached(e)
  BY <1>2 DEF Walking
<1>4. /\ Shown(stable)' = Shown(stable) /\ Shown(sidecars)' = Shown(sidecars)
      /\ Matching(got)' = Matching(got)
  BY <1>1 DEF Shown, Matching, Listable
<1>5. Lasting'
  BY <1>3, <1>4 DEF Lasting
<1>6. ASSUME NEW e \in Shown(stable) PROVE Reached(e)'
  <2> DEFINE rank == Cardinality({f \in Matching(got) : Before(f, e)})
  <2>1. e \in got /\ (e \in seen \/ offset <= Cardinality(Ahead(e)))
    BY <1>1, <1>3 DEF Reached
  <2>2. Ahead(e) = Newer(Matching(got), e)
    BY <1>1 DEF Ahead
  <2>3. e \in Matching(got)
    BY <2>1 DEF Shown, Matching
  <2>4. IsFiniteSet(Matching(got)) /\ \A f, g \in Matching(got) : f.name = g.name => f = g
    BY FS_Subset DEF Filed, Matching
  <2>5. rank = Cardinality(Newer(Matching(got), e))
    BY <2>4, RankCountsNames
  <2>6. rank \in Nat
    BY <2>4, <2>5, ImageIsFinite, FS_CardinalityType
  <2>7. offset \in Nat /\ Limit \in Nat
    BY ServingAssumption DEF Filed
  <2>8. e \in seen \/ e \in Page(Matching(got)) \/ offset + Limit <= rank
    BY <2>1, <2>2, <2>3, <2>5, <2>6, <2>7 DEF Page
  <2>9. Newer(Matching(got), e)' = Newer(Matching(got), e)
    BY <1>4 DEF Newer
  <2> QED BY <1>1, <2>1, <2>5, <2>8, <2>9 DEF Reached
<1> QED BY <1>4, <1>5, <1>6

\* NextPage: what was before an entry on this page is before it still.
LEMMA TurningKeepsWalking ==
  ASSUME Filed, Walking, NextPage
  PROVE  Walking'
<1>1. /\ pc = "done" /\ answer.is = "page" /\ pc' = "list" /\ offset' = offset + Limit
      /\ UNCHANGED <<sidecars, got, stage, seen, stable, shrunk>>
  BY DEF NextPage, disk
<1>2. SUFFICES ASSUME ~shrunk PROVE Lasting' /\ \A e \in Shown(stable)' : Reached(e)'
  BY <1>1 DEF Walking
<1>3. Lasting /\ \A e \in Shown(stable) : Reached(e)
  BY <1>2 DEF Walking
<1>4. /\ Shown(stable)' = Shown(stable) /\ Shown(sidecars)' = Shown(sidecars)
      /\ Matching(got)' = Matching(got)
  BY <1>1 DEF Shown, Matching, Listable
<1>5. Lasting'
  BY <1>3, <1>4 DEF Lasting
<1>6. ASSUME NEW e \in Shown(stable) PROVE Reached(e)'
  <2>1. e \in seen \/ offset + Limit <= Cardinality(Newer(Matching(got), e))
    BY <1>1, <1>3 DEF Reached
  <2>2. Newer(Matching(got), e) \subseteq Newer(Shown(sidecars), e)
    <3>1. SUFFICES ASSUME NEW f \in Matching(got), f.at > e.at
                   PROVE \E g \in Shown(sidecars) : g.name = f.name /\ g.at > e.at
      BY DEF Newer
    <3>2. PICK g \in Shown(sidecars) : g.name = f.name /\ g.at >= f.at
      BY <1>3 DEF Lasting
    <3>3. g.at \in Nat /\ f.at \in Nat /\ e.at \in Nat
      BY DEF Filed, Shown, Matching
    <3> QED BY <3>1, <3>2, <3>3
  <2>3. IsFiniteSet(Shown(sidecars))
    BY FS_Subset DEF Filed, Shown, Matching
  <2>4. Cardinality(Newer(Matching(got), e)) \in Nat
        /\ Cardinality(Newer(Shown(sidecars), e)) \in Nat
        /\ Cardinality(Newer(Matching(got), e)) <= Cardinality(Newer(Shown(sidecars), e))
    BY <2>2, <2>3, ImageIsFinite, Bounded
  <2>5. offset + Limit \in Nat
    BY ServingAssumption DEF Filed
  <2>6. Newer(Shown(sidecars), e)' = Newer(Shown(sidecars), e)
    BY <1>4 DEF Newer
  <2> QED BY <1>1, <2>1, <2>4, <2>5, <2>6 DEF Reached
<1> QED BY <1>4, <1>5, <1>6

\* readdir: whatever is on the list is now to be read.
LEMMA ListingKeepsWalking ==
  ASSUME Filed, Walking, ListSidecars
  PROVE  Walking'
<1>1. /\ pc = "list" /\ pc' = "parse" /\ got' = {} /\ todo' = {e.name : e \in sidecars}
      /\ UNCHANGED <<sidecars, stage, offset, seen, stable, shrunk>>
  BY DEF ListSidecars, disk
<1>2. SUFFICES ASSUME ~shrunk PROVE Lasting' /\ \A e \in Shown(stable)' : Reached(e)'
  BY <1>1 DEF Walking
<1>3. \A e \in Shown(stable) : Reached(e)
  BY <1>2 DEF Walking
<1>4. Shown(stable)' = Shown(stable) /\ Shown(sidecars)' = Shown(sidecars)
  BY <1>1 DEF Shown, Matching, Listable
<1>5. Lasting'
  BY <1>1 DEF Lasting, Matching
<1>6. ASSUME NEW e \in Shown(stable) PROVE Reached(e)'
  <2>1. e \in sidecars /\ (e \in seen \/ offset <= Cardinality(Newer(Shown(sidecars), e)))
    BY <1>1, <1>3 DEF Reached, Filed, Shown, Matching
  <2>2. Ahead(e)' = Newer(Shown(sidecars), e)
    BY <1>1, <1>4 DEF Ahead, Newer, Matching, Shown
  <2> QED BY <1>1, <2>1, <2>2 DEF Reached
<1> QED BY <1>4, <1>5, <1>6

LEMMA StepKeepsWalking ==
  ASSUME Filed, Filed', Walking, [Next]_vars
  PROVE  Walking'
<1>1. CASE (\E n \in Names : WriteSidecar(n)) \/ (\E e \in sidecars : RemoveSidecar(e))
  BY <1>1, WritesKeepWalking
<1>3. CASE StartWalk
  <2>1. got' = {} /\ seen' = {} /\ offset' = 0 /\ pc' = "list" /\ sidecars' = sidecars
    BY <1>3 DEF StartWalk, Ask, Filed, disk
  <2>2. ASSUME NEW e \in Shown(stable)' PROVE Reached(e)'
    <3>1. IsFiniteSet(Shown(sidecars)')
      BY <2>1, FS_Subset DEF Filed, Shown, Matching
    <3>2. Cardinality(Newer(Shown(sidecars)', e)) \in Nat
      BY <3>1, ImageIsFinite, FS_CardinalityType
    <3> QED BY <2>1, <3>2 DEF Reached, Newer
  <2> QED BY <2>1, <2>2 DEF Walking, Lasting, Matching
<1>2. CASE BreakOff
  <2>1. /\ pc' = "catch" /\ answer'.is # "page" /\ UNCHANGED <<sidecars, got, stage>>
        /\ UNCHANGED <<stable, shrunk>>
    BY <1>2 DEF BreakOff, Refuse, Answer, disk, walk
  <2> QED BY <2>1 DEF Walking, Lasting, Reached, Shown, Matching, Listable
<1>4. CASE Failures /\ ~StartWalk /\ ~BreakOff
  BY <1>4, ListingKeepsWalking, ParsingKeepsWalking, PagingKeepsWalking, TurningKeepsWalking
     DEF Failures
<1>5. CASE Leave
  BY <1>5 DEF Leave, Walking, Lasting, Shown, Matching
<1>6. CASE (\E d \in Docs : FetchRow(d)) \/ ReadBody \/ CountDocs \/ LastIngest
  <2>1. stable' = {} /\ UNCHANGED <<sidecars, got, stage, shrunk>>
    BY <1>6 DEF FetchRow, ReadBody, CountDocs, LastIngest, Ask, disk, walk, Filed
  <2> QED BY <2>1 DEF Walking, Lasting, Shown, Matching, Listable
<1>7. CASE EmitRead \/ Catch
  <2>1. /\ pc \in {"emit", "catch"} /\ pc' \in {"catch", "done"}
        /\ UNCHANGED <<sidecars, got, stage, offset, seen, stable, shrunk>>
        /\ answer'.is = "page" => answer.is = "page"
    BY <1>7 DEF EmitRead, AfterMute, Answer, Catch, disk, walk
  <2> QED BY <2>1 DEF Walking, Lasting, Reached, Shown, Matching, Listable, Newer
<1>8. CASE (\E d \in Docs : PlaceBody(d) \/ RemoveBody(d) \/ CommitRow(d))
           \/ Connect \/ MarkReady \/ UNCHANGED vars
  <2>1. /\ UNCHANGED <<sidecars, pc, stage, offset, todo>>
        /\ UNCHANGED <<got, seen, stable, shrunk, answer>>
    BY <1>8 DEF PlaceBody, RemoveBody, CommitRow, Connect, MarkReady, vars, disk, walk, reply
  <2>2. /\ Shown(stable)' = Shown(stable) /\ Shown(sidecars)' = Shown(sidecars)
        /\ Matching(got)' = Matching(got)
    BY <2>1 DEF Shown, Matching, Listable
  <2>3. Lasting => Lasting'
    BY <2>2 DEF Lasting
  <2>4. ASSUME NEW e, Reached(e) PROVE Reached(e)'
    <3>1. /\ Newer(Shown(sidecars), e)' = Newer(Shown(sidecars), e)
          /\ Newer(Matching(got), e)' = Newer(Matching(got), e)
      BY <2>2 DEF Newer
    <3>2. Ahead(e)' = Ahead(e)
      BY <2>1, <3>1 DEF Ahead
    <3> QED BY <2>1, <2>4, <3>1, <3>2 DEF Reached
  <2> QED BY <2>1, <2>2, <2>3, <2>4 DEF Walking
<1> QED
  BY <1>1, <1>2, <1>3, <1>4, <1>5, <1>6, <1>7, <1>8 DEF Next, Pipeline, Failures, Read, Reply

\* A client that walked through all the pages has seen every entry that stayed on the list,
\* although the failures are listed newest first, page by page, and others are added and
\* renewed between two pages and while one is read (failures-resource-adapter.ts:186).
THEOREM WalksAreComplete == Spec => []WalkComplete
<1>1. Init => Filed /\ Walking
  BY FS_EmptySet DEF Init, Filed, Walking, Lasting, Shown, Matching
<1>2. Filed /\ Walking => WalkComplete
  <2> SUFFICES ASSUME Filed, Walking, Walked, ~shrunk, NEW e \in Shown(stable)
               PROVE  e \in seen
    BY DEF WalkComplete
  <2>1. e \in got /\ (e \in seen \/ offset + Limit <= Cardinality(Newer(Matching(got), e)))
    BY DEF Walked, Walking, Reached
  <2> DEFINE ahead == {f \in Matching(got) : Before(f, e)}
  <2>2. IsFiniteSet(Matching(got)) /\ \A f, g \in Matching(got) : f.name = g.name => f = g
    BY FS_Subset DEF Filed, Matching
  <2>3. Cardinality(Newer(Matching(got), e)) = Cardinality(ahead)
    BY <2>2, RankCountsNames
  <2>4. e \in Matching(got) \ ahead
    BY <2>1 DEF Shown, Matching, Before, Filed
  <2>5. /\ Cardinality(ahead) \in Nat /\ Cardinality(Matching(got)) \in Nat
        /\ Cardinality(ahead) < Cardinality(Matching(got))
    BY <2>2, <2>4, FS_Subset, FS_CardinalityType
  <2>6. ~(offset + Limit < Cardinality(Matching(got))) /\ offset \in Nat /\ Limit \in Nat
    BY ServingAssumption DEF Walked, Filed
  <2> QED BY <2>1, <2>3, <2>5, <2>6
<1> QED
  BY <1>1, <1>2, StepFiles, StepKeepsWalking, PTL DEF Spec
=============================================================================
