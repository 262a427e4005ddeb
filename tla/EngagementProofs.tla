-------------------------- MODULE EngagementProofs --------------------------
(***************************************************************************)
(* Theorems about the engagement log, for any requests, any number of      *)
(* racing acceptances and rotations, and failing appends.                  *)
(*                                                                         *)
(* LogTells says what a line of the log proves: a "find" that its request  *)
(* was answered so, an "accept" that a command said so after an answer     *)
(* with results. A command about to append carries that fact over the gap  *)
(* between its scan and its append, and a report over the files it reads.  *)
(***************************************************************************)
EXTENDS Engagement, FiniteSetTheorems, TLAPS

Hit(r) == \E q \in answered : q.req = r /\ q.hits

FindsTell ==
  \A e \in log : e.ev = "find" => [req |-> e.req, hits |-> e.hits, at |-> e.at] \in answered
AcceptsTell ==
  \A e \in log : e.ev = "accept" =>
    \E a \in Accepters : pc[a] = "accepted" /\ wants[a] = e.req /\ Hit(e.req)
WritersSawHit == \A a \in Accepters : pc[a] = "write" => Hit(wants[a])
SeenIsLogged == seen \subseteq log /\ \A e \in seen : Within(e, since, until)

LogTells ==
  /\ pc \in [Accepters -> {"idle", "write", "accepted", "refused"}]
  /\ wants \in [Accepters -> Requests]
  /\ IsFiniteSet(answered)
  /\ FindsTell /\ AcceptsTell /\ WritersSawHit /\ SeenIsLogged

----------------------------------------------------------------------------
\* Types. An event names the generation that is active when it is appended.
LEMMA StepTypes ==
  ASSUME TypeOK, [Next]_vars
  PROVE  TypeOK'
<1> USE EngagementAssumption
<1>1. ASSUME NEW r \in Requests, Answer(r) PROVE TypeOK'
  <2>1. UNCHANGED <<now, gen, pc, wants, phase, since, until, todo, seen, before>>
    BY <1>1 DEF Answer, Append, files, accepts, report
  <2>2. PICK hits \in BOOLEAN :
          /\ answered' = answered \cup {[req |-> r, hits |-> hits, at |-> now]}
          /\ \/ Append([ev |-> "find", req |-> r, hits |-> hits, at |-> now, gen |-> gen])
             \/ UNCHANGED files
    BY <1>1 DEF Answer
  <2>3. [ev |-> "find", req |-> r, hits |-> hits, at |-> now, gen |-> gen] \in Events
    BY DEF TypeOK, Events
  <2>4. answered' \subseteq [req : Requests, hits : BOOLEAN, at : Times]
    BY <2>2 DEF TypeOK
  <2>5. log' \subseteq Events /\ mtime' \in [Gens -> Times]
    BY <2>2, <2>3 DEF TypeOK, Append, files
  <2> QED BY <2>1, <2>4, <2>5 DEF TypeOK
<1>2. ASSUME NEW a \in Accepters, ScanForRequest(a) PROVE TypeOK'
  BY <1>2 DEF ScanForRequest, TypeOK, files, report
<1>3. ASSUME NEW a \in Accepters, WriteAcceptance(a) PROVE TypeOK'
  <2>1. UNCHANGED <<now, gen, answered, wants, phase, since, until, todo, seen, before>>
    BY <1>3 DEF WriteAcceptance, Append, files, report
  <2>2. [ev |-> "accept", req |-> wants[a], by |-> a, at |-> now, gen |-> gen] \in Events
    BY DEF TypeOK, Events
  <2>3. log' \subseteq Events /\ mtime' \in [Gens -> Times]
    BY <1>3, <2>2 DEF TypeOK, WriteAcceptance, Append, files
  <2>4. pc' \in [Accepters -> {"idle", "write", "accepted", "refused"}]
    BY <1>3 DEF TypeOK, WriteAcceptance
  <2> QED BY <2>1, <2>3, <2>4 DEF TypeOK
<1>4. CASE StartReport
  BY <1>4 DEF StartReport, TypeOK, files, accepts, Files, Times, InWindow
<1>5. CASE ScanOneFile
  BY <1>5 DEF ScanOneFile, TypeOK, files, accepts
<1>6. CASE Aggregate \/ GiveUp
  BY <1>6 DEF Aggregate, GiveUp, TypeOK, files, accepts
<1>7. CASE Tick
  BY <1>7 DEF Tick, TypeOK, Times, files, accepts, report
<1>8. CASE Touch \/ Rotate
  BY <1>8 DEF Touch, Rotate, TypeOK, Gens, accepts, report
<1>9. CASE UNCHANGED vars
  BY <1>9 DEF TypeOK, vars
<1> QED
  BY <1>1, <1>2, <1>3, <1>4, <1>5, <1>6, <1>7, <1>8, <1>9 DEF Next

\* Whatever the log, the acceptances and the report go through, every value they keep is
\* one the code can hold: an event of the log names a generation there has been.
THEOREM TypeCorrect == Spec => []TypeOK
<1>1. Init => TypeOK
  BY EngagementAssumption DEF Init, TypeOK, Times, Gens
<1> QED
  BY <1>1, StepTypes, PTL DEF Spec

----------------------------------------------------------------------------
\* Nothing is logged at first.
LEMMA InitTells == Init => LogTells
BY FS_EmptySet
   DEF Init, LogTells, FindsTell, AcceptsTell, WritersSawHit, SeenIsLogged

\* An answer is recorded in "answered" with the event that is appended, if one is.
LEMMA AnswerTells ==
  ASSUME LogTells, NEW r \in Requests, Answer(r)
  PROVE  LogTells'
<1>1. PICK hits \in BOOLEAN :
        /\ answered' = answered \cup {[req |-> r, hits |-> hits, at |-> now]}
        /\ \/ log' = log \cup {[ev |-> "find", req |-> r, hits |-> hits, at |-> now,
                                gen |-> gen]}
           \/ log' = log
  BY DEF Answer, Append, files
<1>2. UNCHANGED <<pc, wants, seen, since, until>>
  BY DEF Answer, accepts, report
<1>3. IsFiniteSet(answered)'
  BY <1>1, FS_AddElement DEF LogTells
<1>4. \A s : Hit(s) => Hit(s)'
  BY <1>1 DEF Hit
<1>5. FindsTell'
  BY <1>1 DEF LogTells, FindsTell
<1>6. AcceptsTell' /\ WritersSawHit'
  BY <1>1, <1>2, <1>4 DEF LogTells, AcceptsTell, WritersSawHit
<1>7. SeenIsLogged'
  BY <1>1, <1>2 DEF LogTells, SeenIsLogged, Within
<1> QED
  BY <1>2, <1>3, <1>5, <1>6, <1>7 DEF LogTells

\* The scan of "corpus accept" finds an answer with results before the append.
LEMMA ScanTells ==
  ASSUME LogTells, NEW a \in Accepters, ScanForRequest(a)
  PROVE  LogTells'
<1>1. UNCHANGED <<answered, log, wants, seen, since, until>>
  BY DEF ScanForRequest, files, report
<1>2. pc[a] = "idle" /\ pc' = [pc EXCEPT ![a] = IF Acceptable(wants[a]) THEN "write"
                                                ELSE "refused"]
  BY DEF ScanForRequest
<1>3. Acceptable(wants[a]) => Hit(wants[a])
  <2>1. SUFFICES ASSUME Acceptable(wants[a]) PROVE Hit(wants[a])
    OBVIOUS
  <2>2. PICK e \in log : e.ev = "find" /\ e.req = wants[a] /\ e.hits
    BY <2>1 DEF Acceptable, FoundIn, Active
  <2>3. [req |-> e.req, hits |-> e.hits, at |-> e.at] \in answered
    BY <2>2 DEF LogTells, FindsTell
  <2> QED
    BY <2>2, <2>3 DEF Hit
<1>4. WritersSawHit'
  BY <1>1, <1>2, <1>3 DEF LogTells, WritersSawHit, Hit
<1>5. AcceptsTell'
  BY <1>1, <1>2 DEF LogTells, AcceptsTell, Hit
<1> QED
  BY <1>1, <1>2, <1>4, <1>5 DEF LogTells, FindsTell, SeenIsLogged, Within

\* What was known when the scan ended is still known when the acceptance is appended.
LEMMA WriteTells ==
  ASSUME LogTells, NEW a \in Accepters, WriteAcceptance(a)
  PROVE  LogTells'
<1>1. UNCHANGED <<answered, wants, seen, since, until>> /\ pc[a] = "write"
  BY DEF WriteAcceptance, report
<1>2. CASE /\ log' = log \cup {[ev |-> "accept", req |-> wants[a], by |-> a, at |-> now,
                                gen |-> gen]}
           /\ pc' = [pc EXCEPT ![a] = "accepted"]
  <2>1. Hit(wants[a])'
    BY <1>1 DEF LogTells, WritersSawHit, Hit
  <2>2. AcceptsTell'
    BY <1>1, <1>2, <2>1 DEF LogTells, AcceptsTell, Hit
  <2> QED
    BY <1>1, <1>2, <2>2 DEF LogTells, FindsTell, WritersSawHit, SeenIsLogged, Within, Hit
<1>3. CASE log' = log /\ pc' = [pc EXCEPT ![a] = "refused"]
  BY <1>1, <1>3 DEF LogTells, FindsTell, AcceptsTell, WritersSawHit, SeenIsLogged, Within, Hit
<1> QED
  BY <1>2, <1>3 DEF WriteAcceptance, Append, files

\* A report collects lines of its window, and begins with none.
LEMMA ReportTells ==
  ASSUME LogTells, StartReport \/ ScanOneFile \/ Aggregate \/ GiveUp
  PROVE  LogTells'
<1>1. UNCHANGED <<answered, log, pc, wants>>
  BY DEF StartReport, ScanOneFile, Aggregate, GiveUp, files, accepts
<1>2. SeenIsLogged'
  BY <1>1 DEF StartReport, ScanOneFile, Aggregate, GiveUp, LogTells, SeenIsLogged, Within
<1> QED
  BY <1>1, <1>2 DEF LogTells, FindsTell, AcceptsTell, WritersSawHit, Hit

\* Every step keeps the invariant.
LEMMA StepTells ==
  ASSUME LogTells, [Next]_vars
  PROVE  LogTells'
<1>1. CASE UNCHANGED <<log, answered, pc, wants, seen, since, until>>
  BY <1>1 DEF LogTells, FindsTell, AcceptsTell, WritersSawHit, SeenIsLogged, Within, Hit
<1>2. CASE Tick \/ Touch \/ Rotate
  BY <1>1, <1>2 DEF Tick, Touch, Rotate, files, accepts, report
<1>3. CASE UNCHANGED vars
  BY <1>1, <1>3 DEF vars
<1> QED
  BY <1>2, <1>3, AnswerTells, ScanTells, WriteTells, ReportTells DEF Next

----------------------------------------------------------------------------
\* The requests of some answers are no more than the answers.
LEMMA FewerIds ==
  ASSUME IsFiniteSet(answered), NEW W \in SUBSET answered,
         NEW E, \A e \in E : \E q \in W : q.req = e.req
  PROVE  Cardinality(Ids(E)) \in Nat /\ Cardinality(W) \in Nat
         /\ Cardinality(Ids(E)) <= Cardinality(W)
<1> DEFINE T == {q.req : q \in W}
           f == [q \in W |-> q.req]
<1>1. IsFiniteSet(W) /\ Cardinality(W) \in Nat
  BY FS_Subset, FS_CardinalityType
<1>2. f \in Surjection(W, T)
  BY DEF Surjection
<1>3. IsFiniteSet(T) /\ Cardinality(T) <= Cardinality(W)
  <2> HIDE DEF T, f
  <2> QED BY <1>1, <1>2, FS_Surjection
<1>4. Ids(E) \in SUBSET T
  BY DEF Ids
<1>5. IsFiniteSet(Ids(E)) /\ Cardinality(Ids(E)) <= Cardinality(T)
  <2> HIDE DEF T
  <2> QED BY <1>3, <1>4, FS_Subset
<1>6. Cardinality(Ids(E)) \in Nat /\ Cardinality(T) \in Nat
  <2> HIDE DEF T
  <2> QED BY <1>3, <1>5, FS_CardinalityType
<1> QED
  <2> HIDE DEF T
  <2> QED BY <1>1, <1>3, <1>5, <1>6

\* What the invariant says of the lines a report has taken bounds its counts.
LEMMA TellsSound == LogTells => ReportSound
<1> SUFFICES ASSUME LogTells PROVE ReportSound
  OBVIOUS
<1> DEFINE W == {q \in answered : Within(q, since, until)}
           V == {q \in answered :
                   q.hits /\ \E a \in Accepters : pc[a] = "accepted" /\ wants[a] = q.req}
<1>1. \A e \in Finds(seen) : \E q \in W : q.req = e.req
  <2> SUFFICES ASSUME NEW e \in Finds(seen) PROVE \E q \in W : q.req = e.req
    OBVIOUS
  <2>1. e \in log /\ e.ev = "find" /\ Within(e, since, until)
    BY DEF Finds, LogTells, SeenIsLogged
  <2>2. [req |-> e.req, hits |-> e.hits, at |-> e.at] \in answered
    BY <2>1 DEF LogTells, FindsTell
  <2>3. Within([req |-> e.req, hits |-> e.hits, at |-> e.at], since, until)
    BY <2>1 DEF Within
  <2> QED
    BY <2>2, <2>3
<1>2. \A e \in Acceptances(seen) : \E q \in V : q.req = e.req
  BY DEF Acceptances, LogTells, SeenIsLogged, AcceptsTell, Hit
<1>3. W \in SUBSET answered /\ V \in SUBSET answered /\ IsFiniteSet(answered)
  BY DEF LogTells
<1>4. Queries \in Nat /\ Cardinality(W) \in Nat /\ Queries <= Cardinality(W)
  <2> HIDE DEF W
  <2> QED BY <1>1, <1>3, FewerIds DEF Queries, Count
<1>5. Accepted <= Cardinality(V)
  <2> HIDE DEF V
  <2> QED BY <1>2, <1>3, FewerIds DEF Accepted, Count
<1>6. Verdict = "PASS" => Queries >= MinQueries
  BY DEF Verdict, ThresholdMet
<1>7. Verdict = "PASS" => Cardinality(W) >= MinQueries
  <2> HIDE DEF W
  <2> QED BY <1>4, <1>6, EngagementAssumption
<1> QED
  BY <1>4, <1>5, <1>7 DEF ReportSound

\* A report never counts a query that was not answered in its window, nor an acceptance
\* nobody made of an answer that had results (report-aggregator.ts:56), however many
\* commands race and whenever the log is rotated.
THEOREM ReportIsSound == Spec => []ReportSound
BY InitTells, StepTells, TellsSound, PTL DEF Spec

----------------------------------------------------------------------------
\* The ids of a set with one record more.
LEMMA IdsOfMore ==
  ASSUME NEW E, NEW x
  PROVE  Ids(E \cup {x}) = Ids(E) \cup {x.req}
BY DEF Ids

\* Lines other than an acceptance leave the ledger's acceptances as they are.
LEMMA AnswerRefines ==
  ASSUME NEW r \in Requests, Answer(r)
  PROVE  L!Answer(r)
<1>1. PICK hits \in BOOLEAN :
        /\ answered' = answered \cup {[req |-> r, hits |-> hits, at |-> now]}
        /\ \/ log' = log \cup {[ev |-> "find", req |-> r, hits |-> hits, at |-> now,
                                gen |-> gen]}
           \/ log' = log
  BY DEF Answer, Append, files
<1> DEFINE found(A) == {q.req : q \in {x \in A : x.hits}}
           empty(A) == {q.req : q \in {x \in A : ~x.hits}}
<1>2. r \notin found(answered) \cup empty(answered)
  BY DEF Answer
<1>3. \/ found(answered') = found(answered) \cup {r} /\ empty(answered') = empty(answered)
      \/ empty(answered') = empty(answered) \cup {r} /\ found(answered') = found(answered)
  <2> DEFINE x == [req |-> r, hits |-> hits, at |-> now]
             with(A) == {q \in A : q.hits}
             without(A) == {q \in A : ~q.hits}
  <2>1. x.req = r /\ x.hits = hits /\ answered' = answered \cup {x}
    BY <1>1
  <2>2. \/ with(answered') = with(answered) \cup {x} /\ without(answered') = without(answered)
        \/ without(answered') = without(answered) \cup {x} /\ with(answered') = with(answered)
    <3> HIDE DEF x
    <3> QED BY <2>1
  <2>3. \A A : found(A) = Ids(with(A)) /\ empty(A) = Ids(without(A))
    BY DEF Ids
  <2>4. \A A : Ids(A \cup {x}) = Ids(A) \cup {r}
    <3> HIDE DEF x
    <3> QED BY <2>1, IdsOfMore
  <2> QED
    <3> HIDE DEF found, empty, with, without, x
    <3> QED BY <2>2, <2>3, <2>4
<1>4. Ids(Acceptances(log')) = Ids(Acceptances(log))
  BY <1>1 DEF Ids, Acceptances
<1> QED
  BY <1>2, <1>3, <1>4 DEF L!Answer

\* Only an answer that had results is accepted.
LEMMA WriteRefines ==
  ASSUME LogTells, NEW a \in Accepters, WriteAcceptance(a)
  PROVE  L!Accept(wants[a]) \/ UNCHANGED <<answered, log>>
<1>1. CASE log' = log
  BY <1>1 DEF WriteAcceptance
<1>2. CASE log' = log \cup {[ev |-> "accept", req |-> wants[a], by |-> a, at |-> now,
                             gen |-> gen]}
  <2>1. wants[a] \in {q.req : q \in {x \in answered : x.hits}}
    BY DEF WriteAcceptance, LogTells, WritersSawHit, Hit
  <2>2. Ids(Acceptances(log')) = Ids(Acceptances(log)) \cup {wants[a]}
    <3> DEFINE x == [ev |-> "accept", req |-> wants[a], by |-> a, at |-> now, gen |-> gen]
    <3>1. x.req = wants[a] /\ x.ev = "accept" /\ log' = log \cup {x}
      BY <1>2
    <3>2. Acceptances(log') = Acceptances(log) \cup {x}
      <4> HIDE DEF x
      <4> QED BY <3>1 DEF Acceptances
    <3>3. Ids(Acceptances(log) \cup {x}) = Ids(Acceptances(log)) \cup {x.req}
      <4> HIDE DEF x
      <4> QED BY IdsOfMore
    <3> QED
      <4> HIDE DEF x
      <4> QED BY <3>1, <3>2, <3>3
  <2>3. answered' = answered
    BY DEF WriteAcceptance
  <2> QED
    BY <2>1, <2>2, <2>3 DEF L!Accept
<1> QED
  BY <1>1, <1>2 DEF WriteAcceptance, Append, files

\* The log implements the ledger: whatever the commands and the rotations do, it grows by
\* one answer to a request that had none, or by an acceptance of an answer with results
\* (acceptance-event-writer.ts:132).
THEOREM LogIsLedger == Spec => ImplementsLedger
<1>1. Init => L!Init
  BY DEF Init, L!Init, Ids, Acceptances
<1>2. ASSUME LogTells, [Next]_vars
      PROVE  L!Next \/ UNCHANGED <<answered, log>>
  <2>1. ASSUME NEW r \in Requests, Answer(r) PROVE L!Next
    BY <2>1, AnswerRefines DEF L!Next
  <2>2. ASSUME NEW a \in Accepters, WriteAcceptance(a)
        PROVE  L!Next \/ UNCHANGED <<answered, log>>
    BY <1>2, <2>2, WriteRefines DEF L!Next, LogTells
  <2>3. ASSUME NEW a \in Accepters, ScanForRequest(a) PROVE UNCHANGED <<answered, log>>
    BY <2>3 DEF ScanForRequest, files
  <2>4. CASE StartReport \/ ScanOneFile \/ Aggregate \/ GiveUp \/ Tick \/ Touch \/ Rotate
    BY <2>4 DEF StartReport, ScanOneFile, Aggregate, GiveUp, Tick, Touch, Rotate, files
  <2>5. CASE UNCHANGED vars
    BY <2>5 DEF vars
  <2> QED
    BY <1>2, <2>1, <2>2, <2>3, <2>4, <2>5 DEF Next
<1>3. LogTells /\ [Next]_vars =>
        [L!Next]_<<{q.req : q \in {x \in answered : x.hits}},
                   {q.req : q \in {x \in answered : ~x.hits}}, Ids(Acceptances(log))>>
  BY <1>2
<1>4. Spec => []LogTells
  BY InitTells, StepTells, PTL DEF Spec
<1> QED
  BY <1>1, <1>3, <1>4, PTL DEF Spec, ImplementsLedger, L!Spec

----------------------------------------------------------------------------
(* Completeness. The mtime of a file is that of its latest line, so the     *)
(* window of a report that ends now holds every file with a line in it.     *)

\* A line is in a file that has been opened, and is no newer than its mtime.
FilesDated ==
  /\ now \in Nat /\ gen \in Nat /\ gen <= MaxGen
  /\ mtime \in [Gens -> Nat] /\ \A g \in Gens : mtime[g] <= now
  /\ \A e \in log : e.gen \in Gens /\ e.gen <= gen /\ e.at \in Nat /\ e.at <= mtime[e.gen]

\* What the report has not taken of its window is in a file it has still to read.
NothingLeftOut ==
  /\ phase = "read" => \A e \in before :
       /\ e \in log /\ Within(e, since, until)
       /\ e \in seen \/ \E k \in todo : e.gen + k = gen
  /\ phase = "done" => before \subseteq seen

Complete == FilesDated /\ IsFiniteSet(log) /\ seen \subseteq log /\ NothingLeftOut

LEMMA InitComplete == Init => Complete
BY FS_EmptySet, EngagementAssumption
   DEF Init, Complete, FilesDated, NothingLeftOut, Gens

\* Appending a line dates its file, and moves nothing.
LEMMA AppendComplete ==
  ASSUME Complete, NEW e, Append(e), e.gen = gen, e.at = now,
         UNCHANGED <<now, report>>
  PROVE  Complete'
<1>1. gen \in Gens /\ now \in Nat /\ mtime \in [Gens -> Nat] /\ gen \in Nat /\ gen <= MaxGen
      /\ \A g \in Gens : mtime[g] <= now
  BY EngagementAssumption DEF Complete, FilesDated, Gens
<1>2. /\ log' = log \cup {e} /\ gen' = gen /\ now' = now
      /\ mtime' = [mtime EXCEPT ![gen] = now]
  BY DEF Append
<1>3. /\ mtime' \in [Gens -> Nat] /\ \A g \in Gens : mtime'[g] <= now
      /\ \A g \in Gens : mtime[g] <= mtime'[g]
      /\ mtime'[gen] = now
  BY <1>1, <1>2
<1>4. ASSUME NEW d \in log
      PROVE  d.gen \in Gens /\ d.gen <= gen /\ d.at \in Nat /\ d.at <= mtime'[d.gen]
  <2>1. d.gen \in Gens /\ d.gen <= gen /\ d.at \in Nat /\ d.at <= mtime[d.gen]
    BY DEF Complete, FilesDated
  <2>2. mtime[d.gen] \in Nat /\ mtime'[d.gen] \in Nat /\ mtime[d.gen] <= mtime'[d.gen]
    BY <2>1, <1>1, <1>3
  <2> QED BY <2>1, <2>2
<1>5. FilesDated'
  BY <1>1, <1>2, <1>3, <1>4 DEF FilesDated
<1>6. IsFiniteSet(log') /\ (seen \subseteq log)'
  BY <1>2, FS_AddElement DEF Complete, report
<1>7. NothingLeftOut'
  BY <1>2 DEF Complete, NothingLeftOut, Within, report
<1> QED
  BY <1>5, <1>6, <1>7 DEF Complete

\* The files with a line in the window of a new report are the ones it will read.
LEMMA StartComplete ==
  ASSUME ~PastWindows, Complete, StartReport
  PROVE  Complete'
<1>1. PICK from, to \in Times :
        /\ to = now /\ since' = from /\ until' = to
        /\ todo' = {0} \cup {k \in Files \ {0} : InWindow(k, from, to)}
        /\ before' = {e \in log : Within(e, from, to)}
  BY DEF StartReport
<1>2. UNCHANGED <<now, gen, log, mtime>> /\ phase' = "read" /\ seen' = {}
  BY DEF StartReport, files
<1>3. ASSUME NEW e \in before'
      PROVE  /\ e \in log /\ Within(e, since', until')
             /\ \E k \in todo' : e.gen + k = gen
  <2>1. e \in log /\ from <= e.at /\ e.at <= to /\ from \in Nat
    BY <1>1 DEF Within, Times
  <2>2. /\ e.gen \in Gens /\ e.gen \in Nat /\ gen \in Nat /\ gen <= MaxGen /\ e.gen <= gen
        /\ e.at \in Nat /\ e.at <= mtime[e.gen]
        /\ mtime[e.gen] \in Nat /\ mtime[e.gen] <= now
    BY <2>1 DEF Complete, FilesDated, Gens
  <2>3. from <= mtime[e.gen] /\ mtime[e.gen] <= to
    BY <2>1, <2>2, <1>1
  <2> DEFINE k == gen - e.gen
  <2>4. k \in Files /\ k <= gen /\ gen - k = e.gen /\ e.gen + k = gen
    BY <2>2, EngagementAssumption DEF Files
  <2>5. k \in todo'
    <3>1. InWindow(k, from, to)
      BY <2>3, <2>4 DEF InWindow
    <3> QED BY <3>1, <2>4, <1>1
  <2> QED BY <2>1, <2>4, <2>5, <1>1 DEF Within
<1>4. NothingLeftOut'
  BY <1>2, <1>3 DEF NothingLeftOut
<1> QED
  BY <1>2, <1>4 DEF Complete, FilesDated

\* Reading a file takes every line of the window that is in it.
LEMMA ScanFileComplete ==
  ASSUME Complete, ScanOneFile
  PROVE  Complete'
<1>1. PICK k \in todo :
        /\ todo' = todo \ {k}
        /\ seen' = seen \cup {e \in log : e.gen + k = gen /\ Within(e, since, until)}
  BY DEF ScanOneFile
<1>2. UNCHANGED <<now, gen, log, mtime, phase, since, until, before>> /\ phase = "read"
  BY DEF ScanOneFile, files
<1>3. NothingLeftOut'
  BY <1>1, <1>2 DEF Complete, NothingLeftOut, Within
<1>4. FilesDated'
  BY <1>2 DEF Complete, FilesDated
<1> QED
  BY <1>1, <1>2, <1>3, <1>4 DEF Complete

\* Every step keeps it, if the log is not rotated under the report.
LEMMA StepComplete ==
  ASSUME ~RotateMidway, ~PastWindows, Complete, [Next]_vars
  PROVE  Complete'
<1>1. ASSUME NEW r \in Requests, Answer(r) PROVE Complete'
  <2>1. UNCHANGED <<now, report>>
    BY <1>1 DEF Answer
  <2>2. PICK hits \in BOOLEAN :
          \/ Append([ev |-> "find", req |-> r, hits |-> hits, at |-> now, gen |-> gen])
          \/ UNCHANGED files
    BY <1>1 DEF Answer
  <2>3. CASE UNCHANGED files
    BY <2>1, <2>3 DEF Complete, FilesDated, NothingLeftOut, Within, files, report
  <2> QED BY <2>1, <2>2, <2>3, AppendComplete
<1>2. ASSUME NEW a \in Accepters, WriteAcceptance(a) PROVE Complete'
  <2>1. UNCHANGED <<now, report>>
    BY <1>2 DEF WriteAcceptance
  <2>2. CASE UNCHANGED files
    BY <2>1, <2>2 DEF Complete, FilesDated, NothingLeftOut, Within, files, report
  <2> QED BY <1>2, <2>1, <2>2, AppendComplete DEF WriteAcceptance
<1>3. ASSUME NEW a \in Accepters, ScanForRequest(a) PROVE Complete'
  BY <1>3 DEF ScanForRequest, Complete, FilesDated, NothingLeftOut, Within, files, report
<1>4. CASE Aggregate
  <2>1. UNCHANGED <<now, gen, log, mtime, since, until, before, seen, todo>>
        /\ phase = "read" /\ phase' = "done" /\ todo = {}
    BY <1>4 DEF Aggregate, files
  <2> QED BY <2>1 DEF Complete, FilesDated, NothingLeftOut
<1>5. CASE GiveUp
  BY <1>5 DEF GiveUp, Complete, FilesDated, NothingLeftOut, files
<1>6. CASE Tick
  <2>1. now' = now + 1 /\ UNCHANGED <<gen, log, mtime, phase, since, until, before, seen, todo>>
    BY <1>6 DEF Tick, files, report
  <2>2. FilesDated'
    BY <2>1, EngagementAssumption DEF Complete, FilesDated, Gens
  <2> QED BY <2>1, <2>2 DEF Complete, NothingLeftOut, Within
<1>7. CASE Touch
  <2>1. /\ mtime' = [mtime EXCEPT ![gen] = now]
        /\ UNCHANGED <<now, gen, log, phase, since, until, before, seen, todo>>
    BY <1>7 DEF Touch, report
  <2>2. gen \in Gens /\ now \in Nat /\ mtime \in [Gens -> Nat] /\ \A g \in Gens : mtime[g] <= now
    BY EngagementAssumption DEF Complete, FilesDated, Gens
  <2>3. mtime' \in [Gens -> Nat] /\ \A g \in Gens : mtime[g] <= mtime'[g] /\ mtime'[g] <= now
    BY <2>1, <2>2
  <2>4. FilesDated'
    BY <2>1, <2>3 DEF Complete, FilesDated, Gens
  <2> QED BY <2>1, <2>4 DEF Complete, NothingLeftOut, Within
<1>8. CASE Rotate
  <2>1. /\ gen' = gen + 1 /\ gen < MaxGen /\ phase # "read"
        /\ mtime' = [mtime EXCEPT ![gen + 1] = now]
        /\ UNCHANGED <<now, log, phase, since, until, before, seen, todo>>
    BY <1>8 DEF Rotate, report
  <2>2. gen + 1 \in Gens /\ now \in Nat /\ mtime \in [Gens -> Nat]
        /\ \A g \in Gens : mtime[g] <= now
    BY <2>1, EngagementAssumption DEF Complete, FilesDated, Gens
  <2>3. mtime' \in [Gens -> Nat] /\ \A g \in Gens : mtime[g] <= mtime'[g] /\ mtime'[g] <= now
    BY <2>1, <2>2
  <2>4. FilesDated'
    BY <2>1, <2>3, EngagementAssumption DEF Complete, FilesDated, Gens
  <2> QED BY <2>1, <2>4 DEF Complete, NothingLeftOut
<1>9. CASE UNCHANGED vars
  BY <1>9 DEF vars, Complete, FilesDated, NothingLeftOut, Within
<1> QED
  BY <1>1, <1>2, <1>3, <1>4, <1>5, <1>6, <1>7, <1>8, <1>9, StartComplete, ScanFileComplete
  DEF Next

\* The ids of fewer lines are no more.
LEMMA IdsOfFewer ==
  ASSUME NEW E, NEW F, IsFiniteSet(F), E \subseteq F
  PROVE  /\ Cardinality(Ids(E)) \in Nat /\ Cardinality(Ids(F)) \in Nat
         /\ Cardinality(Ids(E)) <= Cardinality(Ids(F))
<1> DEFINE f == [e \in F |-> e.req]
<1>1. f \in Surjection(F, Ids(F))
  BY DEF Surjection, Ids
<1>2. IsFiniteSet(Ids(F))
  <2> HIDE DEF f
  <2> QED BY <1>1, FS_Surjection
<1>3. Ids(E) \in SUBSET Ids(F)
  BY DEF Ids
<1> QED
  BY <1>2, <1>3, FS_Subset, FS_CardinalityType

LEMMA CompleteReports == Complete => ReportComplete
<1> SUFFICES ASSUME Complete, phase = "done" PROVE ReportComplete
  BY DEF ReportComplete
<1>1. before \subseteq seen /\ IsFiniteSet(seen)
  BY FS_Subset DEF Complete, NothingLeftOut
<1>2. /\ IsFiniteSet(Finds(seen)) /\ Finds(before) \subseteq Finds(seen)
      /\ IsFiniteSet(Acceptances(seen)) /\ Acceptances(before) \subseteq Acceptances(seen)
  BY <1>1, FS_Subset DEF Finds, Acceptances
<1>3. /\ Queries \in Nat /\ Cardinality(Ids(Finds(before))) \in Nat
      /\ Queries >= Cardinality(Ids(Finds(before)))
  BY <1>2, IdsOfFewer DEF Queries, Count
<1>4. Accepted >= Cardinality(Ids(Acceptances(before)))
  BY <1>2, IdsOfFewer DEF Accepted, Count
<1>5. KillSignal => Cardinality(Ids(Finds(before))) < KillBelow
  BY <1>3, EngagementAssumption DEF KillSignal
<1> QED
  BY <1>3, <1>4, <1>5 DEF ReportComplete

\* A report whose window ends at its call counts every line that was in the window when it
\* began, whatever was rotated before (telemetry-log-scanner.ts:62) and whatever is appended
\* meanwhile. A rotation during the report, or an earlier --until, loses lines.
THEOREM ReportIsComplete ==
  ASSUME ~RotateMidway, ~PastWindows
  PROVE  Spec => []ReportComplete
BY InitComplete, StepComplete, CompleteReports, PTL DEF Spec
=============================================================================
