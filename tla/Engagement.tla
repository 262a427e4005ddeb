----------------------------- MODULE Engagement -----------------------------
(***************************************************************************)
(* The engagement log: every answered corpus.find is recorded in           *)
(* telemetry.jsonl (wrapHandlerWithEngagement), "corpus accept" records    *)
(* that an answer was useful, "corpus engagement-proxy report" counts both *)
(* in a window of time and gives a verdict. The log is rotated by the host *)
(* (telemetry.jsonl becomes .1, .1 becomes .2), and nobody takes a lock.   *)
(*                                                                         *)
(* A file is a generation: the active one is gen, and .k is gen - k at the *)
(* moment the name is opened. Requests, notes and latencies are not        *)
(* modelled; the queries of a report are the distinct ids it has seen.     *)
(***************************************************************************)
EXTENDS Naturals, FiniteSets

CONSTANTS
  Requests,      \* ids of corpus.find requests (random UUIDs: no two are the same)
  Accepters,     \* runs of "corpus accept"
  MinQueries, MinAccepts,  \* ENGAGEMENT_C028_THRESHOLD
  KillBelow,     \* ENGAGEMENT_KILL_SIGNAL_THRESHOLD
  MaxTime,       \* bound on the clock
  MaxGen,        \* bound on the rotations
  CanMute,       \* an append may fail
  RotateMidway,  \* the log may be rotated while a report reads it
  PastWindows    \* --until may be in the past

ASSUME EngagementAssumption ==
  /\ {MinQueries, MinAccepts, KillBelow, MaxTime, MaxGen} \subseteq Nat
  /\ KillBelow <= MinQueries
  /\ {CanMute, RotateMidway, PastWindows} \subseteq BOOLEAN

Times == 0 .. MaxTime
Gens == 0 .. MaxGen
Files == 0 .. MaxGen     \* names: 0 is telemetry.jsonl, k is telemetry.jsonl.k
Events == [ev : {"find"}, req : Requests, hits : BOOLEAN, at : Times, gen : Gens]
            \cup [ev : {"accept"}, req : Requests, by : Accepters, at : Times, gen : Gens]

VARIABLES
  now,
  gen,       \* rotations so far
  log,       \* the events in the active and the rotated files
  mtime,     \* of each generation
  answered,  \* requests that were answered, recorded or not: [req, hits, at]
  pc,        \* of each accept: "idle", "write", "accepted", "refused"
  wants,     \* the request it accepts
  phase,     \* of the report: "idle", "read", "done"
  since, until,
  todo,      \* names it has still to read
  seen,      \* events it has taken
  before     \* the events that were in the window when it began

vars == <<now, gen, log, mtime, answered, pc, wants, phase, since, until, todo, seen, before>>
files == <<gen, log, mtime>>
accepts == <<pc, wants>>
report == <<phase, since, until, todo, seen, before>>

TypeOK ==
  /\ now \in Times /\ gen \in Gens /\ log \subseteq Events /\ mtime \in [Gens -> Times]
  /\ answered \subseteq [req : Requests, hits : BOOLEAN, at : Times]
  /\ pc \in [Accepters -> {"idle", "write", "accepted", "refused"}]
  /\ wants \in [Accepters -> Requests]
  /\ phase \in {"idle", "read", "done"} /\ since \in Times /\ until \in Times
  /\ todo \subseteq Files /\ seen \subseteq Events /\ before \subseteq Events

Init ==
  /\ now = 0 /\ gen = 0 /\ log = {} /\ mtime = [g \in Gens |-> 0]
  /\ answered = {}
  /\ pc = [a \in Accepters |-> "idle"] /\ wants \in [Accepters -> Requests]
  /\ phase = "idle" /\ since = 0 /\ until = 0
  /\ todo = {} /\ seen = {} /\ before = {}

\* emitTelemetry: one line at the end of the active file.
Append(e) ==
  /\ log' = log \cup {e}
  /\ mtime' = [mtime EXCEPT ![gen] = now]
  /\ UNCHANGED gen

----------------------------------------------------------------------------
(* Queries and acceptances *)

\* The answer goes out also when its event cannot be appended.
Answer(r) ==
  /\ \A q \in answered : q.req # r
  /\ \E hits \in BOOLEAN :
       /\ answered' = answered \cup {[req |-> r, hits |-> hits, at |-> now]}
       /\ \/ Append([ev |-> "find", req |-> r, hits |-> hits, at |-> now, gen |-> gen])
          \/ CanMute /\ UNCHANGED files
  /\ UNCHANGED <<now, accepts, report>>

Active == {e \in log : e.gen = gen}
FoundIn(E, r) == {e \in E : e.ev = "find" /\ e.req = r}
AcceptedIn(E, r) == {e \in E : e.ev = "accept" /\ e.req = r}

\* Mutation: an empty answer may be accepted.
AcceptableEmpty(r) == FoundIn(Active, r) # {} /\ AcceptedIn(Active, r) = {}

\* runAcceptanceEventWriter: the answer is in the active file, has results, and no
\* acceptance of it is there.
Acceptable(r) ==
  /\ FoundIn(Active, r) # {}
  /\ \A e \in FoundIn(Active, r) : e.hits
  /\ AcceptedIn(Active, r) = {}

\* The scan sees what is in the file when it passes; the event is appended later.
ScanForRequest(a) ==
  /\ pc[a] = "idle"
  /\ pc' = [pc EXCEPT ![a] = IF Acceptable(wants[a]) THEN "write" ELSE "refused"]
  /\ UNCHANGED <<now, files, answered, wants, report>>

WriteAcceptance(a) ==
  /\ pc[a] = "write"
  /\ \/ /\ Append([ev |-> "accept", req |-> wants[a], by |-> a, at |-> now, gen |-> gen])
        /\ pc' = [pc EXCEPT ![a] = "accepted"]
     \/ /\ CanMute /\ pc' = [pc EXCEPT ![a] = "refused"]
        /\ UNCHANGED files
  /\ UNCHANGED <<now, answered, wants, report>>

----------------------------------------------------------------------------
(* corpus engagement-proxy report *)

Within(e, from, to) == from <= e.at /\ e.at <= to

\* Mutation: a rotated file counts if its first event is in the window.
InWindowByFirst(k, from, to) ==
  k <= gen /\ \A e \in log : e.gen = gen - k => Within(e, from, to)

\* A rotated file counts if its mtime is in the window.
InWindow(k, from, to) ==
  k <= gen /\ from <= mtime[gen - k] /\ mtime[gen - k] <= to

\* enumerateRotatedFiles. Without --until it is the time of the call.
StartReport ==
  /\ phase = "idle"
  /\ phase' = "read"
  /\ \E from, to \in Times :
       /\ from <= to /\ to <= now
       /\ PastWindows \/ to = now
       /\ since' = from /\ until' = to
       /\ todo' = {0} \cup {k \in Files \ {0} : InWindow(k, from, to)}
       /\ before' = {e \in log : Within(e, from, to)}
  /\ seen' = {}
  /\ UNCHANGED <<now, files, answered, accepts>>

\* scanOneFile: the oldest name first, the active file last. A name that is not there
\* any more is empty.
ScanOneFile ==
  /\ phase = "read" /\ todo # {}
  /\ \E k \in todo :
       /\ \A j \in todo : j <= k
       /\ todo' = todo \ {k}
       /\ seen' = seen \cup {e \in log : e.gen + k = gen /\ Within(e, since, until)}
  /\ UNCHANGED <<now, files, answered, accepts, phase, since, until, before>>

Aggregate ==
  /\ phase = "read" /\ todo = {}
  /\ phase' = "done"
  /\ UNCHANGED <<now, files, answered, accepts, since, until, todo, seen, before>>

\* The timeout of the report, or SIGINT: no report.
GiveUp ==
  /\ phase = "read"
  /\ phase' = "idle" /\ todo' = {} /\ seen' = {} /\ before' = {}
  /\ UNCHANGED <<now, files, answered, accepts, since, until>>

Ids(E) == {e.req : e \in E}
Finds(E) == {e \in E : e.ev = "find"}
Acceptances(E) == {e \in E : e.ev = "accept"}

\* Mutation: every event counts.
CountEach(E) == Cardinality(E)

\* aggregateReport counts request ids.
Count(E) == Cardinality(Ids(E))
Queries == Count(Finds(seen))
Accepted == Count(Acceptances(seen))
ThresholdMet == Queries >= MinQueries /\ Accepted >= MinAccepts
KillSignal == Queries < KillBelow
Verdict == IF ThresholdMet THEN "PASS" ELSE "FAIL"

----------------------------------------------------------------------------
(* The host *)

Tick ==
  /\ now < MaxTime /\ now' = now + 1
  /\ UNCHANGED <<files, answered, accepts, report>>

\* Any other event.
Touch ==
  /\ mtime[gen] # now
  /\ mtime' = [mtime EXCEPT ![gen] = now]
  /\ UNCHANGED <<now, gen, log, answered, accepts, report>>

Rotate ==
  /\ gen < MaxGen /\ (phase # "read" \/ RotateMidway)
  /\ gen' = gen + 1
  /\ mtime' = [mtime EXCEPT ![gen + 1] = now]
  /\ UNCHANGED <<now, log, answered, accepts, report>>

Next ==
  \/ \E r \in Requests : Answer(r)
  \/ \E a \in Accepters : ScanForRequest(a) \/ WriteAcceptance(a)
  \/ StartReport \/ ScanOneFile \/ Aggregate \/ GiveUp
  \/ Tick \/ Touch \/ Rotate

Spec == Init /\ [][Next]_vars

----------------------------------------------------------------------------
(* Correctness *)

\* A report counts only what happened: a query for each request answered in its window,
\* an acceptance for each request that had results and was accepted by a command that
\* said so, however many commands raced (aggregateReport).
ReportSound ==
  phase = "done" =>
    /\ Queries <= Cardinality({q \in answered : Within(q, since, until)})
    /\ Accepted <= Cardinality({q \in answered :
         q.hits /\ \E a \in Accepters : pc[a] = "accepted" /\ wants[a] = q.req})
    /\ Verdict = "PASS" =>
         Cardinality({q \in answered : Within(q, since, until)}) >= MinQueries

\* A report misses nothing that was in its window when it began, in whichever file the
\* rotation had left it (enumerateRotatedFiles).
ReportComplete ==
  phase = "done" =>
    /\ Queries >= Cardinality(Ids(Finds(before)))
    /\ Accepted >= Cardinality(Ids(Acceptances(before)))
    /\ KillSignal => Cardinality(Ids(Finds(before))) < KillBelow

\* The log is a ledger of answers and acceptances (see Ledger).
L == INSTANCE Ledger WITH
       found <- {q.req : q \in {x \in answered : x.hits}},
       empty <- {q.req : q \in {x \in answered : ~x.hits}},
       accepted <- Ids(Acceptances(log))
ImplementsLedger == L!Spec
=============================================================================
