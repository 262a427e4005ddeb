---------------------------- MODULE SearchProofs ----------------------------
(***************************************************************************)
(* Theorems about a corpus.find request, for any documents, filters and    *)
(* limits, whatever fails or is aborted, and whatever the drain commits,   *)
(* classifies and indexes meanwhile.                                       *)
(***************************************************************************)
EXTENDS Search, FiniteSetTheorems, SequenceTheorems, TLAPS

\* Documents, best first, none of them twice.
IsRanking(s) == s \in Seq(Docs) /\ \A i, j \in DOMAIN s : s[i] = s[j] => i = j

DocsIn(hits) == {hits[i].doc : i \in DOMAIN hits}
Distinct(hits) == \A i, j \in DOMAIN hits : hits[i].doc = hits[j].doc => i = j

----------------------------------------------------------------------------
LEMMA Finite ==
  ASSUME NEW S, S \subseteq Docs
  PROVE  IsFiniteSet(S) /\ Cardinality(S) \in Nat
BY SearchAssumption, FS_Subset, FS_CardinalityType

\* As many documents as places.
LEMMA LengthCounts ==
  ASSUME NEW s, IsRanking(s)
  PROVE  Cardinality(Range(s)) = Len(s) /\ Len(s) \in Nat /\ Range(s) \subseteq Docs
<1>1. /\ Len(s) \in Nat /\ DOMAIN s = 1 .. Len(s) /\ s \in [1 .. Len(s) -> Docs]
      /\ \A i, j \in DOMAIN s : s[i] = s[j] => i = j
  BY DEF IsRanking
<1>2. s \in Bijection(1 .. Len(s), Range(s))
  BY <1>1 DEF Bijection, Injection, IsInjective, Surjection, Range
<1>3. Range(s) \subseteq Docs
  BY <1>1 DEF Range
<1> QED BY <1>1, <1>2, <1>3, FS_CountingElements DEF ExistsBijection

LEMMA HitsCount ==
  ASSUME NEW hits \in Seq(Hit), Distinct(hits)
  PROVE  /\ Cardinality(DocsIn(hits)) = Len(hits) /\ Len(hits) \in Nat
         /\ DocsIn(hits) \subseteq Docs
<1> DEFINE doc == [i \in 1 .. Len(hits) |-> hits[i].doc]
<1>1. /\ Len(hits) \in Nat /\ DOMAIN hits = 1 .. Len(hits)
      /\ \A i \in 1 .. Len(hits) : hits[i].doc \in Docs
  <2>1. \A i \in 1 .. Len(hits) : hits[i] \in Hit
    OBVIOUS
  <2> QED BY <2>1 DEF Hit
<1>2. doc \in Bijection(1 .. Len(hits), DocsIn(hits))
  BY <1>1 DEF Bijection, Injection, IsInjective, Surjection, Distinct, DocsIn
<1>3. DocsIn(hits) \subseteq Docs
  BY <1>1 DEF DocsIn
<1> QED BY <1>1, <1>2, <1>3, FS_CountingElements DEF ExistsBijection

\* A ranking of S cut after k, and one that is not cut.
LEMMA RankingsRank ==
  ASSUME NEW S, S \subseteq Docs, NEW k \in Nat, NEW s \in Rankings(S, k)
  PROVE  /\ IsRanking(s) /\ Range(s) \subseteq S
         /\ Cardinality(S) <= k => Range(s) = S
<1> DEFINE n == Smaller(Cardinality(S), k)
<1>1. IsFiniteSet(S) /\ Cardinality(S) \in Nat /\ n \in Nat
  BY Finite DEF Smaller
<1>2. s \in Injection(1 .. n, S)
  BY DEF Rankings
<1>3. s \in [1 .. n -> S] /\ \A i, j \in DOMAIN s : s[i] = s[j] => i = j
  BY <1>2 DEF Injection, IsInjective
<1>4. s \in Seq(S)
  BY <1>1, <1>3
<1>5. IsRanking(s)
  BY <1>3, <1>4 DEF IsRanking
<1>6. Range(s) \subseteq S
  BY <1>3 DEF Range
<1>7. ASSUME Cardinality(S) <= k PROVE Range(s) = S
  <2>1. n = Cardinality(S)
    BY <1>1, <1>7 DEF Smaller
  <2>2. Cardinality(1 .. n) = n
    <3> HIDE DEF n
    <3>1. Cardinality(1 .. n) = IF 1 > n THEN 0 ELSE n - 1 + 1
      BY <1>1, FS_Interval
    <3> QED BY <1>1, <3>1
  <2>3. s \in Surjection(1 .. n, S)
    BY <1>1, <1>2, <2>1, <2>2, FS_Injection
  <2> QED BY <1>3, <2>3 DEF Surjection, Range
<1> QED BY <1>5, <1>6, <1>7

LEMMA KeptRank ==
  ASSUME NEW s, IsRanking(s), NEW S, NEW t \in Kept(s, S)
  PROVE  IsRanking(t) /\ Range(t) = Range(s) \cap S
<1>1. Range(s) \cap S \subseteq Docs
  BY LengthCounts
<1>2. Cardinality(Range(s) \cap S) \in Nat
  BY <1>1, Finite
<1>3. t \in Rankings(Range(s) \cap S, Cardinality(Range(s) \cap S))
  BY DEF Kept
<1> QED BY <1>1, <1>2, <1>3, RankingsRank

LEMMA PrefixCuts ==
  ASSUME NEW T, NEW s \in Seq(T), NEW n \in Nat
  PROVE  /\ Prefix(s, n) \in Seq(T) /\ Len(Prefix(s, n)) = Smaller(Len(s), n)
         /\ DOMAIN Prefix(s, n) \subseteq DOMAIN s
         /\ \A i \in DOMAIN Prefix(s, n) : Prefix(s, n)[i] = s[i]
         /\ Len(s) <= n => Prefix(s, n) = s
<1>1. Len(s) \in Nat /\ Smaller(Len(s), n) \in 0 .. Len(s)
  BY DEF Smaller
<1>2. /\ Prefix(s, n) \in Seq(T) /\ Len(Prefix(s, n)) = Smaller(Len(s), n)
      /\ \A i \in 1 .. Smaller(Len(s), n) : Prefix(s, n)[i] = s[i]
  BY <1>1, SubSeqProperties DEF Prefix
<1>3. DOMAIN Prefix(s, n) = 1 .. Smaller(Len(s), n) /\ DOMAIN s = 1 .. Len(s)
  BY <1>2
<1>4. ASSUME Len(s) <= n PROVE Prefix(s, n) = s
  <2>1. Smaller(Len(s), n) = Len(s)
    BY <1>1, <1>4 DEF Smaller
  <2> QED BY <1>2, <1>3, <2>1
<1> QED BY <1>1, <1>2, <1>3, <1>4

LEMMA PrefixRank ==
  ASSUME NEW s, IsRanking(s), NEW n \in Nat
  PROVE  /\ IsRanking(Prefix(s, n)) /\ Range(Prefix(s, n)) \subseteq Range(s)
         /\ Range(Prefix(s, n)) = Range(s) \/ Len(Prefix(s, n)) = n
<1>1. s \in Seq(Docs) /\ Len(s) \in Nat
  BY DEF IsRanking
<1>2. /\ Prefix(s, n) \in Seq(Docs) /\ Len(Prefix(s, n)) = Smaller(Len(s), n)
      /\ DOMAIN Prefix(s, n) \subseteq DOMAIN s
      /\ \A i \in DOMAIN Prefix(s, n) : Prefix(s, n)[i] = s[i]
      /\ Len(s) <= n => Prefix(s, n) = s
  BY <1>1, PrefixCuts
<1> QED BY <1>1, <1>2 DEF IsRanking, Range, Smaller

\* Merging adds what was not there and loses nothing.
LEMMA MergeAdds ==
  ASSUME NEW old \in Seq(Hit), Distinct(old), NEW ds, IsRanking(ds), tier \in 1 .. 4,
         NEW all \in Merge(old, ds)
  PROVE  /\ all \in Seq(Hit) /\ Distinct(all)
         /\ DocsIn(all) = DocsIn(old) \cup Range(ds)
         /\ \A i \in DOMAIN all : \/ i \in DOMAIN old /\ all[i] = old[i]
                                  \/ all[i].tier = tier /\ all[i].doc \in Range(ds)
<1>1. PICK new \in Kept(ds, Docs \ DocsIn(old)) :
        all = old \o [i \in DOMAIN new |-> [doc |-> new[i], tier |-> tier]]
  BY DEF Merge, DocsIn
<1> DEFINE added == [i \in DOMAIN new |-> [doc |-> new[i], tier |-> tier]]
<1>2. IsRanking(new) /\ Range(new) = Range(ds) \cap (Docs \ DocsIn(old))
  BY KeptRank
<1>3. Range(ds) \subseteq Docs
  BY LengthCounts
<1>4. /\ Len(new) \in Nat /\ DOMAIN new = 1 .. Len(new) /\ Len(old) \in Nat
      /\ DOMAIN old = 1 .. Len(old)
      /\ \A i \in 1 .. Len(new) : new[i] \in Range(new) /\ new[i] \in Docs
      /\ \A i, j \in 1 .. Len(new) : new[i] = new[j] => i = j
  BY <1>2 DEF IsRanking, Range
<1>5. added \in Seq(Hit) /\ Len(added) = Len(new)
  BY <1>4 DEF Hit
<1>6. /\ all \in Seq(Hit) /\ Len(all) = Len(old) + Len(new) /\ DOMAIN all = 1 .. Len(all)
      /\ \A i \in 1 .. Len(old) : all[i] = old[i]
      /\ \A i \in Len(old) + 1 .. Len(all) : all[i] = added[i - Len(old)]
  BY <1>1, <1>4, <1>5
<1>7. \A i \in Len(old) + 1 .. Len(all) :
        /\ all[i].doc = new[i - Len(old)] /\ all[i].tier = tier
        /\ i - Len(old) \in 1 .. Len(new)
  <2> SUFFICES ASSUME NEW i \in Len(old) + 1 .. Len(all)
               PROVE  /\ all[i].doc = new[i - Len(old)] /\ all[i].tier = tier
                      /\ i - Len(old) \in 1 .. Len(new)
    OBVIOUS
  <2>1. i - Len(old) \in 1 .. Len(new)
    BY <1>4, <1>6
  <2>2. all[i] = [doc |-> new[i - Len(old)], tier |-> tier]
    BY <1>4, <1>6, <2>1
  <2> QED BY <2>1, <2>2
<1>8. \A i \in 1 .. Len(old) : old[i].doc \in DocsIn(old)
  BY <1>4 DEF DocsIn
<1>9. Distinct(all)
  <2> SUFFICES ASSUME NEW i \in 1 .. Len(all), NEW j \in 1 .. Len(all), all[i].doc = all[j].doc
               PROVE  i = j
    BY <1>6 DEF Distinct
  <2>1. CASE i \in 1 .. Len(old) /\ j \in 1 .. Len(old)
    BY <1>4, <1>6, <2>1 DEF Distinct
  <2>2. CASE i \in Len(old) + 1 .. Len(all) /\ j \in Len(old) + 1 .. Len(all)
    <3>1. i - Len(old) = j - Len(old)
      BY <1>4, <1>7, <2>2
    <3> QED BY <1>4, <1>6, <3>1
  <2>3. ASSUME NEW m \in 1 .. Len(old), NEW n \in Len(old) + 1 .. Len(all)
        PROVE  all[m].doc # all[n].doc
    <3>1. all[m].doc \in DocsIn(old)
      BY <1>6, <1>8
    <3>2. all[n].doc \in Range(new)
      BY <1>4, <1>7
    <3> QED BY <1>2, <3>1, <3>2
  <2>4. /\ i \in 1 .. Len(old) \/ i \in Len(old) + 1 .. Len(all)
        /\ j \in 1 .. Len(old) \/ j \in Len(old) + 1 .. Len(all)
    BY <1>4, <1>6
  <2> QED BY <2>1, <2>2, <2>3, <2>4
<1>10. DocsIn(all) = DocsIn(old) \cup Range(ds)
  <2>1. DocsIn(all) \subseteq DocsIn(old) \cup Range(ds)
    BY <1>2, <1>4, <1>6, <1>7 DEF DocsIn
  <2>2. ASSUME NEW d \in DocsIn(old) PROVE d \in DocsIn(all)
    <3>1. PICK i \in 1 .. Len(old) : d = old[i].doc
      BY <1>4 DEF DocsIn
    <3> QED BY <1>4, <1>6, <3>1 DEF DocsIn
  <2>3. ASSUME NEW d \in Range(new) PROVE d \in DocsIn(all)
    <3>1. PICK i \in 1 .. Len(new) : d = new[i]
      BY <1>4 DEF Range
    <3>2. i + Len(old) \in Len(old) + 1 .. Len(all) /\ (i + Len(old)) - Len(old) = i
      BY <1>4, <1>6
    <3>3. all[i + Len(old)].doc = d /\ i + Len(old) \in DOMAIN all
      BY <1>4, <1>6, <1>7, <3>1, <3>2
    <3> QED BY <3>3 DEF DocsIn
  <2> QED BY <1>2, <1>3, <2>1, <2>2, <2>3
<1>11. \A i \in DOMAIN all : \/ i \in DOMAIN old /\ all[i] = old[i]
                             \/ all[i].tier = tier /\ all[i].doc \in Range(ds)
  BY <1>2, <1>4, <1>6, <1>7
<1> QED BY <1>6, <1>9, <1>10, <1>11
----------------------------------------------------------------------------
Hybrid == {"idle", "open", "embed", "bm25", "dense", "graph", "confidence", "fuse", "resolve",
           "report", "error", "caught"}

\* The tiers come in their order, rankings repeat nothing, and neither does what is merged.
Shape ==
  /\ row \in [Docs -> Facets \cup {"absent", "unclassified"}] /\ indexed \subseteq Classified
  /\ pc # "idle" => req \in Queries
  /\ catalog = None \/ IsRanking(catalog)
  /\ tier \in 1 .. 4
  /\ pc \in Hybrid => tier = 1 /\ done = {} /\ merged = <<>>
  /\ pc \in {"only", "promote"} => tier = 2
  /\ pc = "catalog" => tier = 3
  /\ pc \in {"grep", "paths"} => tier = 4
  /\ IsRanking(found)
  /\ merged \in Seq(Hit) /\ Distinct(merged)
  /\ pc = "idle" => \A k \in Signals : sig[k] = Failed
  /\ DOMAIN sig = Signals /\ \A k \in Signals : Range(Results(sig[k])) \subseteq Docs
  /\ pc = "answered" => answer.error # None \/ answer.hits = Prefix(merged, req.limit)

FromTables == {i \in DOMAIN merged : merged[i].tier \in {1, 2}}

\* A hit of the database tiers was a classified row when it was resolved, and is for good.
Checked ==
  /\ pc = "report" => Range(found) \subseteq Classified
  /\ \A i \in FromTables : merged[i].doc \in Classified

\* A row that passes the filter goes on passing it when it is classified, if the filter takes
\* no unclassified rows or every facet type.
Settled == "unclassified" \in req.filter => Facets \subseteq req.filter

Fitting ==
  Settled /\ pc # "idle" =>
    /\ \A k \in Signals : Range(Results(sig[k])) \subseteq Admitted(req)
    /\ pc \in {"resolve", "report", "promote"} => Range(found) \subseteq Admitted(req)
    /\ \A i \in FromTables : merged[i].doc \in Admitted(req)

\* What the index owes the request is in the full-text ranking, then in the fused one or cut
\* off it by limit others, then among the hits or kept out by limit others.
Small == Cardinality(indexed \cap req.words) <= TopK
Plain == "unclassified" \notin req.filter

Complete ==
  pc # "idle" =>
    /\ due \subseteq Matching(req)
    /\ Small =>
         /\ pc \in {"dense", "graph", "confidence", "fuse"} /\ sig["bm25"] # Failed
              => due \subseteq Range(Results(sig["bm25"]))
         /\ Plain /\ pc \in {"resolve", "report"} /\ sig["bm25"] # Failed
              => due \subseteq Range(found) \/ Len(found) >= req.limit
         /\ pc = "promote" => due \subseteq Range(found)
         /\ Searched => due \subseteq DocsIn(merged) \/ Len(merged) >= req.limit

Inv == Shape /\ Checked /\ Fitting /\ Complete

LEMMA EmptyRank == IsRanking(<<>>) /\ Range(<<>>) = {}
BY DEF IsRanking, Range

LEMMA AdmittedWithin ==
  ASSUME NEW q
  PROVE  Matching(q) \subseteq Admitted(q) /\ Admitted(q) \subseteq Docs
         /\ Matching(q) \subseteq indexed \cap q.words /\ Matching(q) \subseteq Docs
BY DEF Matching, Admitted

\* Steps that move on in the handler: they read and merge nothing.
LEMMA MovesKeep ==
  ASSUME Inv, pc # "idle", pc' # "idle",
         UNCHANGED <<row, indexed, catalog, req, sig, merged, due, done>>,
         found' \in {found, <<>>}, tier' \in 1 .. 4,
         pc' \in Hybrid => pc \in Hybrid /\ tier' = tier,
         (pc' = pc /\ found' = found /\ tier' = tier)
           \/ pc' \notin {"dense", "graph", "confidence", "fuse", "resolve", "report", "promote",
                           "paths"},
         pc' = "only" => tier' = 2, pc' = "catalog" => tier' = 3, pc' = "grep" => tier' = 4,
         pc' = "answered" => answer'.error # None \/ answer'.hits = Prefix(merged, req.limit)
  PROVE  Inv'
<1>1. Shape'
  <2>1. Classified' = Classified
    BY DEF Classified
  <2>2. IsRanking(found')
    BY EmptyRank DEF Inv, Shape
  <2>3. \A k \in Signals : Results(sig[k])' = Results(sig[k])
    BY DEF Results
  <2>4. pc' \in {"only", "promote"} => tier' = 2
    BY DEF Inv, Shape
  <2>5. pc' \in {"grep", "paths"} => tier' = 4
    BY DEF Inv, Shape
  <2>6. catalog' = None \/ IsRanking(catalog')
    BY DEF Inv, Shape
  <2> QED BY <2>1, <2>2, <2>3, <2>4, <2>5, <2>6 DEF Inv, Shape, Distinct
<1>2. Checked'
  BY DEF Inv, Checked, Classified, FromTables
<1>3. Fitting'
  BY DEF Inv, Fitting, Settled, Admitted, FromTables, Results
<1>4. Complete'
  BY DEF Inv, Complete, Matching, Admitted, Small, Plain, Searched, Results, DocsIn
<1> QED BY <1>1, <1>2, <1>3, <1>4 DEF Inv

LEMMA Limits ==
  ASSUME NEW q \in Queries
  PROVE  /\ q.limit \in Nat /\ q.words \subseteq Docs
         /\ q.filter \subseteq Facets \cup {"unclassified"}
<1>1. \A p \in Queries : /\ p.words \subseteq Docs /\ p.literal \subseteq Docs
                          /\ p.filter \subseteq Facets \cup {"unclassified"}
                          /\ p.limit \in 1 .. 100
  BY SearchAssumption
<1> QED BY <1>1

LEMMA LongEnough ==
  ASSUME NEW S, NEW T, S \subseteq T, T \subseteq Docs
  PROVE  Cardinality(S) \in Nat /\ Cardinality(T) \in Nat /\ Cardinality(S) <= Cardinality(T)
BY Finite, FS_Subset

\* The drain only adds: rows, and to the index rows that are classified for good.
LEMMA DrainAdds ==
  ASSUME Shape, Drain
  PROVE  /\ UNCHANGED <<request, pc, clocks, hybrid, found, merged, deepest, answer, history>>
         /\ row' \in [Docs -> Facets \cup {"absent", "unclassified"}]
         /\ Classified \subseteq Classified' /\ indexed \subseteq indexed'
         /\ indexed' \subseteq Classified'
         /\ \A d \in Docs : row[d] \in Facets => row'[d] = row[d]
         /\ \A d \in Docs : row[d] = "unclassified" => row'[d] \in Facets \cup {"unclassified"}
<1>1. PICK d \in Docs : Commit(d) \/ Classify(d) \/ IndexDoc(d)
  BY DEF Drain
<1>2. /\ {"absent", "unclassified"} \cap Facets = {}
      /\ UNCHANGED <<request, pc, clocks, hybrid, found, merged, deepest, answer, history>>
  BY SearchAssumption DEF Drain
<1>3. CASE Commit(d)
  BY <1>2, <1>3 DEF Commit, Classified, Shape
<1>4. CASE Classify(d)
  BY <1>2, <1>4 DEF Classify, Classified, Shape
<1>5. CASE IndexDoc(d)
  BY <1>2, <1>5 DEF IndexDoc, Classified, Shape
<1> QED BY <1>1, <1>3, <1>4, <1>5

LEMMA DrainKeeps ==
  ASSUME Inv, Drain
  PROVE  Inv'
<1>1. /\ UNCHANGED <<request, pc, clocks, hybrid, found, merged, deepest, answer, history>>
      /\ row' \in [Docs -> Facets \cup {"absent", "unclassified"}]
      /\ Classified \subseteq Classified' /\ indexed \subseteq indexed'
      /\ indexed' \subseteq Classified'
      /\ \A d \in Docs : row[d] \in Facets => row'[d] = row[d]
      /\ \A d \in Docs : row[d] = "unclassified" => row'[d] \in Facets \cup {"unclassified"}
  BY DrainAdds DEF Inv
<1>2. UNCHANGED <<catalog, req, tier, pc, sig, found, merged, answer, due, done>>
  BY <1>1 DEF request, hybrid, history
<1>3. \A k \in Signals : Results(sig[k])' = Results(sig[k])
  BY <1>2 DEF Results
<1>4. Shape'
  BY <1>1, <1>2, <1>3 DEF Inv, Shape, Distinct, IsRanking, Range
<1>5. Checked'
  BY <1>1, <1>2 DEF Inv, Checked, FromTables
<1>6. \A q \in Queries : Matching(q) \subseteq Matching(q)'
  BY <1>1 DEF Matching, Admitted, Classified, Inv, Shape
<1>7. ASSUME Settled, pc # "idle" PROVE Admitted(req) \subseteq Admitted(req)'
  <2>1. req \in Queries /\ req.filter \subseteq Facets \cup {"unclassified"}
    BY <1>7, Limits DEF Inv, Shape
  <2> QED BY <1>1, <1>2, <1>7, <2>1 DEF Admitted, Settled
<1>8. Fitting'
  <2>1. Settled' = Settled /\ FromTables' = FromTables
    BY <1>2 DEF Settled, FromTables
  <2> QED BY <1>2, <1>3, <1>7, <2>1 DEF Inv, Fitting
<1>9. Complete'
  <2> SUFFICES ASSUME pc # "idle" PROVE Complete'
    BY <1>2 DEF Complete
  <2>1. req \in Queries /\ req.words \subseteq Docs
    BY Limits DEF Inv, Shape
  <2>2. Small' => Small
    <3>1. /\ Cardinality(indexed \cap req.words) \in Nat
          /\ Cardinality(indexed' \cap req.words) \in Nat
          /\ Cardinality(indexed \cap req.words) <= Cardinality(indexed' \cap req.words)
      BY <1>1, <2>1, LongEnough
    <3> QED BY <1>2, <3>1, SearchAssumption DEF Small
  <2>3. Plain' = Plain /\ Searched' = Searched
    BY <1>2 DEF Plain, Searched
  <2> QED BY <1>2, <1>3, <1>6, <2>1, <2>2, <2>3 DEF Inv, Complete, DocsIn
<1> QED BY <1>4, <1>5, <1>8, <1>9 DEF Inv

\* A tier that returns ds: sound hits, and all that is owed unless limit others came first.
LEMMA ReturnsKeep ==
  ASSUME Inv, pc # "idle", NEW ds, IsRanking(ds), NEW outcome, TierReturns(ds, outcome),
         tier \in {1, 2} => Range(ds) \subseteq Classified,
         tier \in {1, 2} /\ Settled => Range(ds) \subseteq Admitted(req),
         Small /\ outcome = "completed" /\ (tier = 2 \/ (tier = 1 /\ Plain /\ sig["bm25"] # Failed))
           => due \subseteq Range(ds) \/ Len(ds) >= req.limit
  PROVE  Inv'
<1>1. PICK all \in Merge(merged, ds) :
        /\ merged' = all /\ found' = <<>>
        /\ done' = IF outcome = "completed" THEN done \cup {tier} ELSE done
        /\ pc' \in {"overrun", "reply", "fallthrough"}
        /\ UNCHANGED <<corpus, request, clocks, hybrid, answer, due>>
  BY DEF TierReturns
<1>2. UNCHANGED <<row, indexed, catalog, req, tier, sig, due>>
  BY <1>1 DEF corpus, request, hybrid
<1>3. merged \in Seq(Hit) /\ Distinct(merged) /\ tier \in 1 .. 4
  BY DEF Inv, Shape
<1>4. /\ all \in Seq(Hit) /\ Distinct(all) /\ DocsIn(all) = DocsIn(merged) \cup Range(ds)
      /\ \A i \in DOMAIN all : \/ i \in DOMAIN merged /\ all[i] = merged[i]
                               \/ all[i].tier = tier /\ all[i].doc \in Range(ds)
  BY <1>3, MergeAdds
<1>5. Shape'
  <2>1. Classified' = Classified /\ \A k \in Signals : Results(sig[k])' = Results(sig[k])
    BY <1>2 DEF Classified, Results
  <2>2. IsRanking(found')
    BY <1>1, EmptyRank
  <2>3. pc' \notin Hybrid \cup {"only", "promote", "catalog", "grep", "paths", "answered"}
    BY <1>1 DEF Hybrid
  <2>4. catalog' = None \/ IsRanking(catalog')
    BY <1>2 DEF Inv, Shape
  <2> QED BY <1>1, <1>2, <1>4, <2>1, <2>2, <2>3, <2>4 DEF Inv, Shape
<1>6. Checked'
  BY <1>1, <1>2, <1>4 DEF Inv, Checked, FromTables, Classified
<1>7. Fitting'
  <2>1. Settled' = Settled /\ Admitted(req)' = Admitted(req)
    BY <1>2 DEF Settled, Admitted
  <2>2. \A k \in Signals : Results(sig[k])' = Results(sig[k])
    BY <1>2 DEF Results
  <2> QED BY <1>1, <1>4, <2>1, <2>2 DEF Inv, Fitting, FromTables
<1>8. Complete'
  <2>1. Matching(req)' = Matching(req) /\ Small' = Small /\ Plain' = Plain
    BY <1>2 DEF Matching, Admitted, Small, Plain
  <2>2. /\ Cardinality(DocsIn(all)) = Len(all) /\ DocsIn(all) \subseteq Docs
        /\ Cardinality(DocsIn(merged)) = Len(merged)
        /\ Cardinality(Range(ds)) = Len(ds)
    BY <1>3, <1>4, HitsCount, LengthCounts
  <2>3. /\ Len(all) \in Nat /\ Len(merged) \in Nat /\ Len(ds) \in Nat
        /\ Len(merged) <= Len(all) /\ Len(ds) <= Len(all)
    BY <1>4, <2>2, LongEnough
  <2>4. req.limit \in Nat
    <3>1. req \in Queries
      BY DEF Inv, Shape
    <3> QED BY <3>1, Limits
  <2>5. ASSUME Small, Searched' PROVE due \subseteq DocsIn(all) \/ Len(all) >= req.limit
    <3>1. CASE Searched
      <4>1. due \subseteq DocsIn(merged) \/ Len(merged) >= req.limit
        BY <2>5, <3>1 DEF Inv, Complete
      <4> QED BY <1>4, <2>3, <2>4, <4>1
    <3>2. CASE ~Searched
      <4>1. outcome = "completed" /\ (tier = 2 \/ (tier = 1 /\ Plain /\ sig["bm25"] # Failed))
        <5>1. sig'["bm25"] = sig["bm25"] /\ req' = req
          BY <1>2
        <5>2. 2 \in done' \/ (1 \in done' /\ sig["bm25"] # Failed /\ Plain)
          BY <2>5, <5>1 DEF Searched, Plain
        <5>3. 2 \notin done /\ (1 \in done => ~(sig["bm25"] # Failed /\ Plain))
          BY <3>2 DEF Searched, Plain
        <5> QED BY <1>1, <5>2, <5>3
      <4>2. due \subseteq Range(ds) \/ Len(ds) >= req.limit
        BY <2>5, <4>1
      <4> QED BY <1>4, <2>3, <2>4, <4>2
    <3> QED BY <3>1, <3>2
  <2> QED BY <1>1, <1>2, <2>1, <2>5 DEF Inv, Complete
<1> QED BY <1>5, <1>6, <1>7, <1>8 DEF Inv

----------------------------------------------------------------------------
LEMMA FindKeeps ==
  ASSUME Inv, Find
  PROVE  Inv'
<1>1. PICK q \in Queries : req' = q /\ due' = Matching(q)
  BY DEF Find
<1>2. /\ pc = "idle" /\ pc' = "open" /\ tier = 1 /\ done = {} /\ merged = <<>>
      /\ \A k \in Signals : sig[k] = Failed
      /\ UNCHANGED <<row, indexed, catalog, tier, sig, found, merged, answer, done>>
  <2>1. pc = "idle" /\ pc' = "open" /\ UNCHANGED <<catalog, tier, found, merged, answer, done>>
    BY DEF Find
  <2>2. UNCHANGED <<row, indexed, sig>>
    BY DEF Find, corpus, hybrid
  <2>3. pc \in Hybrid
    BY <2>1 DEF Hybrid
  <2>4. tier = 1 /\ done = {} /\ merged = <<>>
    BY <2>3 DEF Inv, Shape
  <2>5. \A k \in Signals : sig[k] = Failed
    BY <2>1 DEF Inv, Shape
  <2> QED BY <2>1, <2>2, <2>4, <2>5
<1>3. \A k \in Signals : Range(Results(sig[k])') = {}
  BY <1>2, EmptyRank DEF Results
<1>4. Shape'
  BY <1>1, <1>2, <1>3 DEF Inv, Shape, Hybrid, Classified, Distinct, IsRanking
<1>5. Checked' /\ Fitting'
  BY <1>2, <1>3 DEF Checked, Fitting, FromTables
<1>6. Complete'
  BY <1>1, <1>2 DEF Complete, Matching, Admitted, Searched
<1> QED BY <1>4, <1>5, <1>6 DEF Inv

LEMMA ReturnKeeps ==
  ASSUME Inv, Return
  PROVE  Inv'
<1>1. /\ pc' = "idle" /\ tier' = 1 /\ found' = <<>> /\ merged' = <<>> /\ done' = {}
      /\ sig' = [k \in Signals |-> Failed] /\ UNCHANGED <<row, indexed, catalog>>
  BY DEF Return, corpus
<1>2. \A k \in Signals : Range(Results(sig[k])') = {}
  BY <1>1, EmptyRank DEF Results
<1>3. Shape'
  BY <1>1, <1>2, EmptyRank DEF Inv, Shape, Classified, Distinct, IsRanking
<1>4. Checked' /\ Fitting' /\ Complete'
  BY <1>1 DEF Checked, Fitting, Complete, FromTables
<1> QED BY <1>3, <1>4 DEF Inv

\* A retriever's ranking is of rows that pass the filter, and the full-text one is not cut
\* when there are few.
LEMMA SignalKeeps ==
  ASSUME Inv, NEW kind \in Signals, NEW rankings, NEW queried, Signal(kind, rankings, queried),
         pc \in {"bm25", "dense", "graph", "confidence"},
         pc' \in {"dense", "graph", "confidence", "fuse"},
         kind = "bm25" \/ pc # "bm25",
         \A r \in rankings : r = Failed \/ Range(r) \subseteq Docs,
         Settled => \A r \in rankings : r = Failed \/ Range(r) \subseteq Admitted(req),
         kind = "bm25" /\ Small => \A r \in rankings : r = Failed \/ due \subseteq Range(r)
  PROVE  Inv'
<1>1. /\ UNCHANGED <<row, indexed, catalog, req, tier, found, merged, due, done>>
      /\ pc' # "idle" /\ pc \in Hybrid
  BY DEF Signal, StaysHybrid, corpus, request, history, Hybrid
<1>2. PICK r \in rankings \cup {Failed} : sig' = [sig EXCEPT ![kind] = r]
  BY DEF Signal
<1>3. DOMAIN sig = Signals /\ DOMAIN sig' = Signals /\ sig'[kind] = r
      /\ \A k \in Signals \ {kind} : sig'[k] = sig[k]
  BY <1>2 DEF Inv, Shape
<1>4. Range(Results(sig[kind])') = {} \/ (r # Failed /\ Range(Results(sig[kind])') = Range(r))
  BY <1>3, EmptyRank DEF Results
<1>5. \A k \in Signals \ {kind} : Results(sig[k])' = Results(sig[k])
  BY <1>3 DEF Results
<1>6. \A k \in Signals : Range(Results(sig[k])') \subseteq Docs
  BY <1>2, <1>4, <1>5 DEF Inv, Shape
<1>7. Shape'
  BY <1>1, <1>3, <1>6 DEF Inv, Shape, Hybrid, Classified, Distinct, IsRanking
<1>8. Checked'
  BY <1>1 DEF Inv, Checked, FromTables, Classified
<1>9. Fitting'
  <2>1. Settled' = Settled /\ Admitted(req)' = Admitted(req) /\ FromTables' = FromTables
    BY <1>1 DEF Settled, Admitted, FromTables
  <2>2. ASSUME Settled PROVE \A k \in Signals : Range(Results(sig[k])') \subseteq Admitted(req)
    BY <1>1, <1>2, <1>4, <1>5, <2>2 DEF Inv, Fitting, Hybrid
  <2> QED BY <1>1, <2>1, <2>2 DEF Inv, Fitting
<1>10. Complete'
  <2>1. Matching(req)' = Matching(req) /\ Small' = Small /\ done' = {} /\ pc # "idle"
    BY <1>1 DEF Matching, Admitted, Small, Inv, Shape
  <2>2. ASSUME Small, sig'["bm25"] # Failed PROVE due \subseteq Range(Results(sig["bm25"])')
    <3>1. CASE kind = "bm25"
      <4>1. sig'["bm25"] = r /\ Results(sig["bm25"])' = r
        BY <1>3, <2>2, <3>1 DEF Results
      <4> QED BY <1>2, <1>3, <2>2, <3>1, <4>1
    <3>2. CASE kind # "bm25"
      <4>1. "bm25" \in Signals
        BY DEF Signals
      <4>2. sig["bm25"] # Failed /\ Results(sig["bm25"])' = Results(sig["bm25"])
        BY <1>3, <1>5, <2>2, <3>2, <4>1
      <4> QED BY <2>1, <2>2, <3>2, <4>2 DEF Inv, Complete
    <3> QED BY <3>1, <3>2
  <2> QED BY <1>1, <2>1, <2>2 DEF Inv, Complete, Searched
<1> QED BY <1>7, <1>8, <1>9, <1>10 DEF Inv

LEMMA RetrieversKeep ==
  ASSUME Inv, Bm25 \/ Dense \/ Graph \/ Confidence
  PROVE  Inv'
<1>1. TopK \in Nat /\ \A q : Matching(q) \subseteq Admitted(q) /\ Admitted(q) \subseteq Docs
  BY SearchAssumption, AdmittedWithin
<1>2. DocsOf({"bm25", "dense"}) \subseteq Docs /\ Candidates \subseteq Docs
  BY DEF Inv, Shape, DocsOf, Candidates, Signals
<1>3. CASE Bm25
  <2>1. pc = "bm25" /\ pc' = "dense" /\ Signal("bm25", Rankings(Matching(req), TopK), TRUE)
    BY <1>3 DEF Bm25, Go
  <2>2. \A r \in Rankings(Matching(req), TopK) :
          /\ Range(r) \subseteq Docs /\ Range(r) \subseteq Admitted(req)
          /\ Cardinality(Matching(req)) <= TopK => Range(r) = Matching(req)
    BY <1>1, RankingsRank
  <2>3. Small => Cardinality(Matching(req)) <= TopK
    <3>1. indexed \cap req.words \subseteq Docs
      BY DEF Inv, Shape, Classified
    <3>2. /\ Cardinality(Matching(req)) \in Nat /\ Cardinality(indexed \cap req.words) \in Nat
          /\ Cardinality(Matching(req)) <= Cardinality(indexed \cap req.words)
      BY <3>1, AdmittedWithin, LongEnough
    <3> QED BY <1>1, <3>2 DEF Small
  <2>4. due \subseteq Matching(req)
    BY <2>1 DEF Inv, Complete
  <2> QED BY <2>1, <2>2, <2>3, <2>4, SignalKeeps DEF Signals
<1>4. CASE Dense
  <2>1. pc = "dense" /\ pc' = "graph" /\ Signal("dense", Nearest, embedded)
    BY <1>4 DEF Dense, Go
  <2>2. \A r \in Nearest : r = Failed \/ Range(r) \subseteq indexed \cap Admitted(req)
    <3>1. indexed \cap Admitted(req) \subseteq Docs
      BY <1>1
    <3> QED BY <1>1, <3>1, RankingsRank DEF Nearest
  <2> QED BY <1>1, <2>1, <2>2, SignalKeeps DEF Signals
<1>5. CASE Graph
  <2> DEFINE reached == Neighbours(DocsOf({"bm25", "dense"})) \cap Admitted(req)
  <2>1. /\ pc = "graph" /\ pc' = "confidence"
        /\ Signal("graph", Rankings(reached, TopK), DocsOf({"bm25", "dense"}) # {})
    BY <1>5 DEF Graph, Go
  <2>2. \A r \in Rankings(reached, TopK) : Range(r) \subseteq Admitted(req)
    BY <1>1, RankingsRank
  <2> QED BY <1>1, <2>1, <2>2, SignalKeeps DEF Signals
<1>6. CASE Confidence
  <2> DEFINE S == {d \in Candidates : row[d] # "absent"}
             rankings == Sorted(S, [d \in Docs |-> ConfidenceWeight(d)])
  <2>1. pc = "confidence" /\ pc' = "fuse" /\ Signal("confidence", rankings, Candidates # {})
    BY <1>6 DEF Confidence, Go
  <2>2. S \subseteq Docs /\ Cardinality(S) \in Nat
    BY <1>2, Finite
  <2>3. \A r \in rankings : Range(r) \subseteq S
    BY <2>2, RankingsRank DEF Sorted
  <2>4. Settled => Candidates \subseteq Admitted(req)
    BY <2>1 DEF Inv, Fitting, Candidates, DocsOf, Signals
  <2> QED BY <2>1, <2>2, <2>3, <2>4, SignalKeeps DEF Signals
<1> QED BY <1>3, <1>4, <1>5, <1>6

----------------------------------------------------------------------------
\* Fusion ranks whatever a signal ranked, and cuts at limit.
LEMMA FuseKeeps ==
  ASSUME Inv, Fuse
  PROVE  Inv'
<1>1. pc = "fuse" /\ UNCHANGED <<row, indexed, catalog, req, tier, sig, merged, due, done>>
  BY DEF Fuse, StaysHybrid, corpus, request, history
<1>2. CASE pc' \in {"error", "caught"} /\ found' = found
  <2>1. tier' \in 1 .. 4 /\ tier' = tier /\ pc \in Hybrid
    BY <1>1 DEF Inv, Shape, Hybrid
  <2> QED BY <1>1, <1>2, <2>1, MovesKeep
<1>3. CASE pc' = "resolve" /\ found' \in FusedBy(weight')
  <2>1. req \in Queries /\ req.limit \in Nat
    BY <1>1, Limits DEF Inv, Shape
  <2>2. PICK s \in Rankings(DocsOf(Signals), Cardinality(DocsOf(Signals))) :
          found' = Prefix(s, req.limit)
    BY <1>3 DEF FusedBy, Sorted
  <2>3. DocsOf(Signals) \subseteq Docs
    BY DEF Inv, Shape, DocsOf
  <2>4. IsRanking(s) /\ Range(s) = DocsOf(Signals)
    BY <2>2, <2>3, Finite, RankingsRank
  <2>5. /\ IsRanking(found') /\ Range(found') \subseteq DocsOf(Signals)
        /\ Range(found') = DocsOf(Signals) \/ Len(found') = req.limit
    BY <2>1, <2>2, <2>4, PrefixRank
  <2>6. Shape'
    BY <1>1, <1>3, <2>5 DEF Inv, Shape, Hybrid, Classified, Distinct, Results, IsRanking
  <2>7. Checked'
    BY <1>1, <1>3 DEF Inv, Checked, FromTables, Classified
  <2>8. Fitting'
    <3>1. Settled' = Settled /\ Admitted(req)' = Admitted(req) /\ FromTables' = FromTables
      BY <1>1 DEF Settled, Admitted, FromTables
    <3>2. Settled => DocsOf(Signals) \subseteq Admitted(req)
      BY <1>1 DEF Inv, Fitting, DocsOf
    <3>3. \A k \in Signals : Results(sig[k])' = Results(sig[k])
      BY <1>1 DEF Results
    <3> QED BY <1>1, <2>5, <3>1, <3>2, <3>3 DEF Inv, Fitting
  <2>9. Complete'
    <3>1. Matching(req)' = Matching(req) /\ Small' = Small /\ ~Searched'
      BY <1>1 DEF Matching, Admitted, Small, Searched, Inv, Shape, Hybrid
    <3>2. Range(Results(sig["bm25"])) \subseteq DocsOf(Signals)
      BY DEF DocsOf, Signals
    <3>3. Small /\ sig["bm25"] # Failed => due \subseteq Range(found') \/ Len(found') >= req.limit
      BY <1>1, <2>1, <2>5, <3>2 DEF Inv, Complete
    <3>4. pc # "idle" => due \subseteq Matching(req)
      BY DEF Inv, Complete
    <3> QED BY <1>1, <1>3, <3>1, <3>3, <3>4 DEF Complete
  <2> QED BY <2>6, <2>7, <2>8, <2>9 DEF Inv
<1> QED BY <1>2, <1>3 DEF Fuse

\* The hits are the classified rows of what was found. None is dropped if the filter lets
\* only such rows through.
LEMMA ResolveKeeps ==
  ASSUME Inv, Resolve
  PROVE  Inv'
<1>1. /\ pc = "resolve" /\ pc' \in {"report", "caught"}
      /\ UNCHANGED <<row, indexed, catalog, req, tier, merged, due, done>>
      /\ pc' = "report" => found' \in Kept(found, Classified)
      /\ pc' = "caught" => found' = <<>>
  BY DEF Resolve, Valid, StaysHybrid, corpus, request, history
<1>2. /\ DOMAIN sig' = Signals
      /\ \A k \in Signals : sig'[k] = IF sig[k] = Failed THEN Failed ELSE <<>>
  BY DEF Resolve
<1>3. \A k \in Signals : Range(Results(sig[k])') = {}
  BY <1>2, EmptyRank DEF Results
<1>4. /\ IsRanking(found')
      /\ pc' = "report" => Range(found') = Range(found) \cap Classified
  BY <1>1, EmptyRank, KeptRank DEF Inv, Shape
<1>5. Shape'
  BY <1>1, <1>2, <1>3, <1>4 DEF Inv, Shape, Hybrid, Classified, Distinct, IsRanking
<1>6. Checked'
  BY <1>1, <1>4 DEF Inv, Checked, FromTables, Classified
<1>7. Fitting'
  <2>1. Settled' = Settled /\ Admitted(req)' = Admitted(req) /\ FromTables' = FromTables
    BY <1>1 DEF Settled, Admitted, FromTables
  <2> QED BY <1>1, <1>3, <1>4, <2>1 DEF Inv, Fitting
<1>8. Complete'
  <2>1. /\ Matching(req)' = Matching(req) /\ Small' = Small /\ Plain' = Plain /\ ~Searched'
    BY <1>1 DEF Matching, Admitted, Small, Plain, Searched, Inv, Shape, Hybrid
  <2>2. sig'["bm25"] # Failed => sig["bm25"] # Failed
    BY <1>2 DEF Signals
  <2>3. ASSUME Plain, pc' = "report" PROVE Range(found') = Range(found) /\ Len(found') = Len(found)
    <3>1. Settled /\ req.filter \subseteq Facets
      BY <1>1, <2>3, Limits DEF Plain, Settled, Inv, Shape
    <3>2. Range(found) \subseteq Admitted(req)
      BY <1>1, <3>1 DEF Inv, Fitting
    <3>3. Range(found) \subseteq Classified
      BY <3>1, <3>2 DEF Admitted, Classified
    <3>4. Range(found') = Range(found)
      BY <1>4, <2>3, <3>3
    <3> QED BY <1>4, <3>4, LengthCounts DEF Inv, Shape
  <2>4. due \subseteq Matching(req)
    BY <1>1 DEF Inv, Complete
  <2>5. Plain /\ Small /\ sig["bm25"] # Failed
          => due \subseteq Range(found) \/ Len(found) >= req.limit
    BY <1>1 DEF Inv, Complete
  <2> QED BY <1>1, <2>1, <2>2, <2>3, <2>4, <2>5 DEF Complete
<1> QED BY <1>5, <1>6, <1>7, <1>8 DEF Inv

LEMMA EscapesKeep ==
  ASSUME Inv, NEW next \in {"caught", "threw"}, Escapes(next), pc # "idle",
         next = "caught" => pc \in Hybrid
  PROVE  Inv'
<1>1. /\ UNCHANGED <<row, indexed, catalog, req, tier, sig, merged, due, done>>
      /\ pc' = next /\ found' = <<>>
  BY DEF Escapes, StaysHybrid, corpus, request, hybrid, history
<1>2. tier \in 1 .. 4 /\ "threw" \notin Hybrid
  BY DEF Inv, Shape, Hybrid
<1> QED BY <1>1, <1>2, MovesKeep

\* A tier that has nothing to give.
LEMMA EmptyKeeps ==
  ASSUME Inv, pc # "idle", NEW outcome, TierReturns(<<>>, outcome),
         outcome = "completed" => tier \notin {1, 2}
  PROVE  Inv'
BY EmptyRank, ReturnsKeep

LEMMA TiersKeep ==
  ASSUME Inv, Report \/ AllSignalsFailed \/ Caught \/ Only \/ Promote
  PROVE  Inv'
<1>1. CASE Report
  <2>1. /\ pc = "report" /\ tier = 1 /\ IsRanking(found) /\ pc \in Hybrid
        /\ Range(found) \subseteq Classified
        /\ Settled => Range(found) \subseteq Admitted(req)
    BY <1>1 DEF Report, Inv, Shape, Checked, Fitting, Hybrid
  <2>2. Small /\ Plain /\ sig["bm25"] # Failed
          => due \subseteq Range(found) \/ Len(found) >= req.limit
    BY <2>1 DEF Inv, Complete
  <2> QED BY <1>1, <2>1, <2>2, ReturnsKeep, EscapesKeep DEF Report
<1>2. CASE AllSignalsFailed \/ Caught
  <2>1. pc # "idle" /\ pc \in Hybrid
    BY <1>2 DEF AllSignalsFailed, Caught, Hybrid
  <2> QED BY <1>2, <2>1, EmptyKeeps, EscapesKeep DEF AllSignalsFailed, Caught
<1>3. CASE Only
  <2>1. CASE TierReturns(<<>>, "failed")
    BY <1>3, <2>1, EmptyKeeps DEF Only
  <2>2. ASSUME NEW r \in Rankings(Matching(req), TopK), pc' = "promote", found' = r,
               UNCHANGED hybrid, StaysHybrid
        PROVE  Inv'
    <3>1. /\ UNCHANGED <<row, indexed, catalog, req, tier, sig, merged, due, done>>
          /\ pc = "only" /\ tier = 2
      BY <1>3, <2>2 DEF Only, StaysHybrid, corpus, request, hybrid, history, Inv, Shape
    <3>2. /\ IsRanking(found') /\ Range(found') \subseteq Matching(req)
          /\ Cardinality(Matching(req)) <= TopK => Range(found') = Matching(req)
      BY <2>2, AdmittedWithin, RankingsRank, SearchAssumption
    <3>3. Shape'
      BY <2>2, <3>1, <3>2
         DEF Inv, Shape, Hybrid, Classified, Distinct, Results, IsRanking
    <3>4. Checked'
      BY <2>2, <3>1 DEF Inv, Checked, FromTables, Classified
    <3>5. Fitting'
      <4>1. Settled' = Settled /\ Admitted(req)' = Admitted(req) /\ FromTables' = FromTables
        BY <3>1 DEF Settled, Admitted, FromTables
      <4>2. \A k \in Signals : Results(sig[k])' = Results(sig[k])
        BY <3>1 DEF Results
      <4> QED BY <3>1, <3>2, <4>1, <4>2, AdmittedWithin DEF Inv, Fitting
    <3>6. Complete'
      <4>1. /\ Matching(req)' = Matching(req) /\ Small' = Small
            /\ Searched' = Searched /\ DocsIn(merged)' = DocsIn(merged)
        BY <3>1 DEF Matching, Admitted, Small, Searched, DocsIn
      <4>2. indexed \cap req.words \subseteq Docs /\ TopK \in Nat
        BY SearchAssumption DEF Inv, Shape, Classified
      <4>3. /\ Cardinality(Matching(req)) \in Nat /\ Cardinality(indexed \cap req.words) \in Nat
            /\ Cardinality(Matching(req)) <= Cardinality(indexed \cap req.words)
        BY <4>2, AdmittedWithin, LongEnough
      <4>4. Small => Range(found') = Matching(req)
        BY <3>2, <4>2, <4>3 DEF Small
      <4>5. due \subseteq Matching(req)
        BY <3>1 DEF Inv, Complete
      <4> QED BY <2>2, <3>1, <4>1, <4>4, <4>5 DEF Inv, Complete
    <3> QED BY <3>3, <3>4, <3>5, <3>6 DEF Inv
  <2> QED BY <1>3, <2>1, <2>2 DEF Only
<1>4. CASE Promote
  <2>1. CASE TierReturns(<<>>, "failed")
    BY <1>4, <2>1, EmptyKeeps DEF Promote
  <2>2. ASSUME NEW hits \in Valid(found), TierReturns(Prefix(hits, req.limit), "completed")
        PROVE  Inv'
    <3>1. /\ pc = "promote" /\ tier = 2 /\ IsRanking(found) /\ req \in Queries
          /\ Settled => Range(found) \subseteq Admitted(req)
      BY <1>4 DEF Promote, Inv, Shape, Fitting
    <3>2. IsRanking(hits) /\ Range(hits) = Range(found) \cap Classified
      BY <2>2, <3>1, KeptRank DEF Valid
    <3> DEFINE ds == Prefix(hits, req.limit)
    <3>3. req.limit \in Nat
      BY <3>1, Limits
    <3>4. /\ IsRanking(ds) /\ Range(ds) \subseteq Range(hits)
          /\ Range(ds) = Range(hits) \/ Len(ds) = req.limit
      BY <3>2, <3>3, PrefixRank
    <3>5. Small => due \subseteq Range(hits)
      <4>1. due \subseteq indexed /\ indexed \subseteq Classified
        BY <3>1, AdmittedWithin DEF Inv, Shape, Complete
      <4>2. Small => due \subseteq Range(found)
        BY <3>1 DEF Inv, Complete
      <4> QED BY <3>2, <4>1, <4>2
    <3>6. Small => due \subseteq Range(ds) \/ Len(ds) >= req.limit
      BY <3>3, <3>4, <3>5
    <3> QED BY <2>2, <3>1, <3>2, <3>4, <3>6, ReturnsKeep
  <2> QED BY <1>4, <2>1, <2>2 DEF Promote
<1> QED BY <1>1, <1>2, <1>3, <1>4

LEMMA GrepsKeep ==
  ASSUME Inv, CatalogGrep \/ GrepEnds \/ GrepFails \/ GrepAborted \/ PathsLookup
  PROVE  Inv'
<1>1. pc \in {"catalog", "grep", "paths"} /\ tier \in {3, 4} /\ req \in Queries /\ req.limit \in Nat
  <2>1. pc \in {"catalog", "grep", "paths"}
    BY DEF CatalogGrep, GrepEnds, GrepFails, GrepAborted, PathsLookup
  <2> QED BY <2>1, Limits DEF Inv, Shape
<1>2. ASSUME NEW ds, IsRanking(ds), NEW outcome, TierReturns(ds, outcome) PROVE Inv'
  BY <1>1, <1>2, ReturnsKeep
<1>3. ASSUME NEW outcome, TierReturns(<<>>, outcome) PROVE Inv'
  BY <1>2, <1>3, EmptyRank
<1>4. CASE CatalogGrep
  <2>1. ASSUME catalog # None, NEW hits \in Kept(catalog, req.literal),
               TierReturns(Prefix(hits, req.limit), "completed")
        PROVE  Inv'
    <3>1. IsRanking(catalog)
      BY <2>1 DEF Inv, Shape
    <3>2. IsRanking(Prefix(hits, req.limit))
      BY <1>1, <2>1, <3>1, KeptRank, PrefixRank
    <3> QED BY <1>2, <2>1, <3>2
  <2> QED BY <1>1, <1>3, <1>4, <2>1, EscapesKeep DEF CatalogGrep
<1>5. CASE GrepEnds
  <2>1. ASSUME pc' = "paths", found' \in Rankings(Grepped, Cardinality(Grepped)),
               UNCHANGED hybrid, StaysHybrid
        PROVE  Inv'
    <3>1. /\ UNCHANGED <<row, indexed, catalog, req, tier, sig, merged, due, done>>
          /\ pc = "grep" /\ tier = 4
      BY <1>5, <2>1 DEF GrepEnds, StaysHybrid, corpus, request, hybrid, history, Inv, Shape
    <3>2. Grepped \subseteq Docs
      BY DEF Grepped
    <3>3. IsRanking(found')
      BY <2>1, <3>2, Finite, RankingsRank
    <3>4. Shape'
      BY <2>1, <3>1, <3>3 DEF Inv, Shape, Hybrid, Classified, Distinct, Results, IsRanking
    <3>5. Checked'
      BY <2>1, <3>1 DEF Inv, Checked, FromTables, Classified
    <3>6. Fitting'
      BY <2>1, <3>1 DEF Inv, Fitting, Settled, Admitted, FromTables, Results
    <3>7. Complete'
      BY <2>1, <3>1 DEF Inv, Complete, Matching, Admitted, Small, Searched, DocsIn
    <3> QED BY <3>4, <3>5, <3>6, <3>7 DEF Inv
  <2> QED BY <1>3, <1>5, <2>1 DEF GrepEnds
<1>6. CASE GrepFails
  BY <1>1, <1>3, <1>6, EscapesKeep DEF GrepFails
<1>7. CASE GrepAborted
  BY <1>3, <1>7 DEF GrepAborted
<1>8. CASE PathsLookup
  <2> DEFINE rows == {d \in Classified : BodyPath(d) \in {FilePath(e) : e \in Range(found)}}
  <2>1. rows \subseteq Docs
    BY DEF Classified
  <2>2. \A r \in Rankings(rows, req.limit) : IsRanking(r)
    BY <1>1, <2>1, RankingsRank
  <2>3. \/ TierReturns(<<>>, "failed")
        \/ \E r \in Rankings(rows, req.limit) : TierReturns(r, "completed")
    BY <1>8 DEF PathsLookup
  <2> QED BY <1>2, <1>3, <2>2, <2>3
<1> QED BY <1>4, <1>5, <1>6, <1>7, <1>8

----------------------------------------------------------------------------
\* What the other steps do: they move on.
LEMMA WaitsKeep ==
  ASSUME Inv, Abort \/ TierTimeout \/ Open \/ EmbedAnswered \/ EmbedRefused \/ EmbedAborted
              \/ Catch \/ FallThrough \/ Overrun \/ Reply
  PROVE  Inv'
<1>0. tier \in 1 .. 4 /\ None # "rejected"
  BY SearchAssumption DEF Inv, Shape
<1>1. CASE Abort \/ TierTimeout
  <2>1. /\ UNCHANGED <<row, indexed, catalog, req, tier, sig, merged, due, done, pc, found, answer>>
        /\ pc # "idle"
    BY <1>1 DEF Abort, TierTimeout, Waits, corpus, request, hybrid, history
  <2> QED BY <1>0, <2>1, MovesKeep DEF Inv, Shape
<1>2. CASE Open \/ EmbedAnswered \/ EmbedRefused \/ EmbedAborted
  <2>1. /\ UNCHANGED <<row, indexed, catalog, req, tier, sig, merged, due, done, found>>
        /\ pc \in {"open", "embed"} /\ pc' \in {"embed", "bm25", "caught", "threw"}
    BY <1>2 DEF Open, EmbedAnswered, EmbedRefused, EmbedAborted, EmbedFails, Emit, Go,
                StaysHybrid, corpus, request, hybrid, history
  <2> QED BY <1>0, <2>1, MovesKeep DEF Hybrid
<1>3. CASE Catch \/ Overrun
  <2>1. /\ UNCHANGED <<row, indexed, catalog, req, tier, sig, merged, due, done, found>>
        /\ pc \in {"threw", "overrun"} /\ pc' \in {"fallthrough", "reply", "answered"}
        /\ pc' = "answered" => answer' = Rejected
    BY <1>3 DEF Catch, Overrun, Emit, Answering, corpus, request, hybrid, history
  <2> QED BY <1>0, <2>1, MovesKeep DEF Hybrid, Rejected
<1>4. CASE FallThrough
  <2>1. /\ UNCHANGED <<row, indexed, catalog, req, sig, merged, due, done, found>>
        /\ pc = "fallthrough"
        /\ pc' \in {"overrun", "reply", "answered"} \/ (tier # 4 /\ pc' = First[tier + 1])
        /\ tier' = IF pc' \in Range(First) THEN tier + 1 ELSE tier
        /\ pc' = "answered" => answer' = Rejected
    BY <1>4 DEF FallThrough, Emit, Answering, corpus, hybrid, history
  <2>2. Range(First) = {"open", "only", "catalog", "grep"}
    BY DEF Range, First
  <2>3. CASE pc' \in {"overrun", "reply", "answered"}
    BY <1>0, <2>1, <2>2, <2>3, MovesKeep DEF Hybrid, Rejected
  <2>4. CASE tier # 4 /\ pc' = First[tier + 1]
    <3>1. \/ pc' = "only" /\ tier + 1 = 2
          \/ pc' = "catalog" /\ tier + 1 = 3
          \/ pc' = "grep" /\ tier + 1 = 4
      BY <1>0, <2>4 DEF First
    <3> QED BY <1>0, <2>1, <2>2, <3>1, MovesKeep DEF Hybrid
  <2> QED BY <2>1, <2>3, <2>4
<1>5. CASE Reply
  <2>1. /\ UNCHANGED <<row, indexed, catalog, req, tier, sig, merged, due, done, found>>
        /\ pc = "reply" /\ pc' = "answered" /\ answer'.hits = Prefix(merged, req.limit)
    BY <1>5 DEF Reply, Answering, Output, corpus, request, hybrid, history
  <2> QED BY <1>0, <2>1, MovesKeep DEF Hybrid
<1> QED BY <1>1, <1>2, <1>3, <1>4, <1>5

LEMMA StepKeeps ==
  ASSUME Inv, [Next]_vars
  PROVE  Inv'
<1>1. CASE UNCHANGED vars
  <2>1. UNCHANGED <<row, indexed, catalog, req, tier, sig, merged, due, done, pc, found, answer>>
    BY <1>1 DEF vars, corpus, request, hybrid, history
  <2>2. CASE pc # "idle"
    BY <2>1, <2>2, MovesKeep DEF Inv, Shape
  <2>3. CASE pc = "idle"
    <3>1. Shape'
      BY <2>1 DEF Inv, Shape, Classified, Distinct, Results, IsRanking
    <3>2. Checked' /\ Fitting' /\ Complete'
      BY <2>1, <2>3 DEF Inv, Checked, Fitting, Complete, FromTables, Classified
    <3> QED BY <3>1, <3>2 DEF Inv
  <2> QED BY <2>2, <2>3
<1>2. CASE Drain
  BY <1>2, DrainKeeps
<1>3. CASE Abort \/ TierTimeout
  BY <1>3, WaitsKeep
<1>4. CASE Request
  BY <1>4, FindKeeps, ReturnKeeps, WaitsKeep, RetrieversKeep, FuseKeeps, ResolveKeeps,
     TiersKeep, GrepsKeep DEF Request
<1> QED BY <1>1, <1>2, <1>3, <1>4 DEF Next

LEMMA Starts == Init => Inv
<1> SUFFICES ASSUME Init PROVE Inv
  OBVIOUS
<1>1. PICK c \in Corpora : row = c.row /\ indexed = c.indexed /\ catalog = c.catalog
  BY DEF Init
<1>2. /\ c.row \in [Docs -> Facets \cup {"absent", "unclassified"}]
      /\ c.indexed \subseteq {d \in Docs : c.row[d] \in Facets}
      /\ \/ c.catalog = None
         \/ \E S \in SUBSET Docs : c.catalog \in Injection(1 .. Cardinality(S), S)
  BY SearchAssumption
<1>3. catalog = None \/ IsRanking(catalog)
  <2> SUFFICES ASSUME NEW S \in SUBSET Docs, catalog \in Injection(1 .. Cardinality(S), S)
               PROVE  IsRanking(catalog)
    BY <1>1, <1>2
  <2>1. Cardinality(S) \in Nat
    BY Finite
  <2>2. catalog \in [1 .. Cardinality(S) -> S] /\ IsInjective(catalog)
    BY DEF Injection
  <2> QED BY <2>1, <2>2 DEF IsRanking, IsInjective
<1>4. /\ pc = "idle" /\ tier = 1 /\ done = {} /\ merged = <<>> /\ found = <<>>
      /\ sig = [k \in Signals |-> Failed]
  BY DEF Init
<1>5. \A k \in Signals : Range(Results(sig[k])) = {}
  BY <1>4, EmptyRank DEF Results
<1>6. Shape
  BY <1>1, <1>2, <1>3, <1>4, <1>5, EmptyRank DEF Shape, Classified, Distinct
<1>7. Checked /\ Fitting /\ Complete
  BY <1>4 DEF Checked, Fitting, Complete, FromTables
<1> QED BY <1>6, <1>7 DEF Inv

LEMMA Always == Spec => []Inv
BY Starts, StepKeeps, PTL DEF Spec

\* What the caller gets is what was merged, cut at limit.
LEMMA AnswerCut ==
  ASSUME Inv, Answered
  PROVE  /\ answer.hits = Prefix(merged, req.limit) /\ req \in Queries /\ req.limit \in Nat
         /\ answer.hits \in Seq(Hit) /\ Distinct(answer.hits) /\ Answers = DocsIn(answer.hits)
         /\ Len(answer.hits) = Smaller(Len(merged), req.limit)
         /\ \A i \in DOMAIN answer.hits : i \in DOMAIN merged /\ answer.hits[i] = merged[i]
         /\ Len(merged) <= req.limit => answer.hits = merged
<1>1. /\ answer.hits = Prefix(merged, req.limit) /\ req \in Queries
      /\ merged \in Seq(Hit) /\ Distinct(merged)
  BY DEF Inv, Shape, Answered
<1>2. req.limit \in Nat
  BY <1>1, Limits
<1>3. /\ Prefix(merged, req.limit) \in Seq(Hit)
      /\ Len(Prefix(merged, req.limit)) = Smaller(Len(merged), req.limit)
      /\ DOMAIN Prefix(merged, req.limit) \subseteq DOMAIN merged
      /\ \A i \in DOMAIN Prefix(merged, req.limit) : Prefix(merged, req.limit)[i] = merged[i]
      /\ Len(merged) <= req.limit => Prefix(merged, req.limit) = merged
  BY <1>1, <1>2, PrefixCuts
<1>4. Distinct(answer.hits)
  BY <1>1, <1>3 DEF Distinct
<1> QED BY <1>1, <1>2, <1>3, <1>4 DEF Answers, DocsIn

\* An answer has no document twice and at most limit, and what the database tiers found is
\* classified and passes the filter when the caller gets it, although rows are read several
\* times and classified in between (search.ts:465). This needs that a filter that names
\* "unclassified" names all the facet types as well: otherwise a document that a graph edge
\* leads to may be classified after it passed.
THEOREM AnswersAreSound ==
  ASSUME \A q \in Queries : "unclassified" \in q.filter => Facets \subseteq q.filter
  PROVE  Spec => []AnswerIsSound
<1>1. Inv => AnswerIsSound
  <2> SUFFICES ASSUME Inv, Answered PROVE AnswerIsSound
    BY DEF AnswerIsSound
  <2>1. /\ req \in Queries /\ req.limit \in Nat
        /\ answer.hits \in Seq(Hit) /\ Distinct(answer.hits) /\ Answers = DocsIn(answer.hits)
        /\ Len(answer.hits) = Smaller(Len(merged), req.limit)
        /\ \A i \in DOMAIN answer.hits : i \in DOMAIN merged /\ answer.hits[i] = merged[i]
    BY AnswerCut
  <2>2. Cardinality(Answers) = Len(answer.hits)
    BY <2>1, HitsCount
  <2>3. Len(answer.hits) <= req.limit
    <3>1. Len(merged) \in Nat
      BY DEF Inv, Shape
    <3> QED BY <2>1, <3>1 DEF Smaller
  <2>4. Settled /\ pc # "idle"
    BY <2>1 DEF Settled, Answered
  <2>5. ASSUME NEW i \in DOMAIN answer.hits, answer.hits[i].tier \in {1, 2}
        PROVE  answer.hits[i].doc \in Classified /\ row[answer.hits[i].doc] \in req.filter
    <3>1. i \in FromTables /\ answer.hits[i] = merged[i]
      BY <2>1, <2>5 DEF FromTables
    <3>2. merged[i].doc \in Classified /\ merged[i].doc \in Admitted(req)
      BY <2>4, <3>1 DEF Inv, Checked, Fitting
    <3> QED BY <3>1, <3>2 DEF Admitted
  <2> QED BY <2>2, <2>3, <2>5 DEF AnswerIsSound
<1> QED BY <1>1, Always, PTL

\* An answer that is not full has every matching document that was indexed when the caller
\* asked, if full-text search worked in a tier that returned: neither the fusion with the
\* other signals, nor the cut before validation, nor the merge of the tiers loses one
\* (search.ts:460, tier-orchestrator.ts:144).
THEOREM NothingIsMissed == Spec => []NothingMissed
<1>1. Inv => NothingMissed
  <2> SUFFICES ASSUME Inv, Answered, Searched, Len(answer.hits) < req.limit, Small
               PROVE  due \subseteq Answers
    BY DEF NothingMissed, Small
  <2>1. /\ req.limit \in Nat /\ Answers = DocsIn(answer.hits)
        /\ Len(answer.hits) = Smaller(Len(merged), req.limit)
        /\ Len(merged) <= req.limit => answer.hits = merged
    BY AnswerCut
  <2>2. Len(merged) \in Nat
    BY DEF Inv, Shape
  <2>3. answer.hits = merged /\ Len(merged) < req.limit
    BY <2>1, <2>2 DEF Smaller
  <2>4. due \subseteq DocsIn(merged) \/ Len(merged) >= req.limit
    BY DEF Inv, Complete, Answered
  <2> QED BY <2>1, <2>2, <2>3, <2>4
<1> QED BY <1>1, Always, PTL
----------------------------------------------------------------------------
\* Unanimity. Ranked is what RankRespected needs beside Inv: the rankings of the signals repeat
\* nothing, so that a document has one place in each, and until its rows are read what was
\* found is the fusion of those rankings under the weights of the request, all positive.
Ranked ==
  /\ \A k \in Signals : IsRanking(Results(sig[k]))
  /\ pc = "resolve" => weight \in [Docs -> Nat \ {0}] /\ found \in FusedBy(weight)

LEMMA TimesGrow ==
  ASSUME NEW a \in Nat, NEW b \in Nat, NEW c \in Nat
  PROVE  /\ a <= b => a * c <= b * c
         /\ a < b /\ c # 0 => a * c < b * c
<1>1. a <= b => a * c <= b * c
  BY SMT
<1>2. a < b /\ c # 0 => a * c < b * c
  BY SMT
<1> QED BY <1>1, <1>2

\* A better rank is worth more.
LEMMA CreditFalls ==
  ASSUME NEW m \in Denominators, NEW n \in Denominators, m < n
  PROVE  Credit[m] > Credit[n]
<1>1. /\ m \in Nat \ {0} /\ n \in Nat \ {0}
      /\ Credit[m] \in Nat \ {0} /\ Credit[n] \in Nat \ {0}
      /\ m * Credit[m] = n * Credit[n]
  BY SearchAssumption DEF Denominators, K
<1> SUFFICES ASSUME Credit[m] <= Credit[n] PROVE FALSE
  BY <1>1
<1>2. m * Credit[m] <= m * Credit[n]
  <2>1. Credit[m] * m <= Credit[n] * m
    BY <1>1, TimesGrow
  <2> QED BY <1>1, <2>1
<1>3. m * Credit[n] < n * Credit[n]
  BY <1>1, TimesGrow
<1>4. m * Credit[m] \in Nat /\ m * Credit[n] \in Nat /\ n * Credit[n] \in Nat
  BY <1>1
<1> QED BY <1>1, <1>2, <1>3, <1>4

LEMMA PlaceFound ==
  ASSUME NEW s, IsRanking(s), NEW d \in Range(s)
  PROVE  /\ Place(s, d) \in 1 .. Len(s) /\ s[Place(s, d)] = d
         /\ \A i \in 1 .. Len(s) : s[i] = d => i = Place(s, d)
         /\ K + Place(s, d) \in Denominators
<1>1. DOMAIN s = 1 .. Len(s) /\ Len(s) \in Nat
  BY DEF IsRanking
<1>2. \E i \in DOMAIN s : s[i] = d
  BY DEF Range
<1>3. Place(s, d) \in DOMAIN s /\ s[Place(s, d)] = d
  BY <1>2 DEF Place
<1>4. /\ Cardinality(Range(s)) = Len(s) /\ Cardinality(Docs) \in Nat
      /\ Cardinality(Range(s)) <= Cardinality(Docs)
  BY LengthCounts, LongEnough
<1> QED BY <1>1, <1>3, <1>4 DEF IsRanking, Denominators, K

\* One signal credits the document it places before the other with more, and neither with
\* anything if it ranks neither.
LEMMA ShareOrders ==
  ASSUME NEW k \in Signals, IsRanking(Results(sig[k])), NEW d, NEW e,
         e \in Range(Results(sig[k])) =>
           /\ d \in Range(Results(sig[k]))
           /\ Place(Results(sig[k]), d) < Place(Results(sig[k]), e)
  PROVE  /\ Share(d, k) \in Nat /\ Share(e, k) \in Nat /\ Share(d, k) >= Share(e, k)
         /\ e \in Range(Results(sig[k])) => Share(d, k) > Share(e, k)
<1> DEFINE s == Results(sig[k])
<1>1. \A x : Share(x, k) = IF x \in Range(s) THEN Credit[K + Place(s, x)] ELSE 0
  BY DEF Share
<1>2. \A x \in Range(s) : K + Place(s, x) \in Denominators /\ Place(s, x) \in Nat
  BY PlaceFound DEF IsRanking
<1>3. \A n \in Denominators : Credit[n] \in Nat \ {0}
  BY SearchAssumption
<1>4. \A x : Share(x, k) \in Nat
  BY <1>1, <1>2, <1>3
<1>5. CASE e \in Range(s)
  <2>1. d \in Range(s) /\ K + Place(s, d) < K + Place(s, e)
    BY <1>2, <1>5 DEF K
  <2>2. Credit[K + Place(s, d)] > Credit[K + Place(s, e)]
    BY <1>2, <1>5, <2>1, CreditFalls
  <2> QED BY <1>1, <1>4, <1>5, <2>1, <2>2
<1>6. CASE e \notin Range(s)
  BY <1>1, <1>4, <1>6
<1> QED BY <1>5, <1>6

\* Every signal's credit added up, times the weight.
LEMMA ScoreOrders ==
  ASSUME Ranked, weight \in [Docs -> Nat \ {0}],
         NEW d \in Docs, NEW e \in Docs, e \in DocsOf(Signals), Beats(d, e)
  PROVE  /\ d \in DocsOf(Signals)
         /\ Rrf(e) * weight[e] < Rrf(d) * weight[d]
         /\ Rrf(e) * weight[e] \in Nat /\ Rrf(d) * weight[d] \in Nat
<1>1. ASSUME NEW k \in Signals, e \in Range(Results(sig[k]))
      PROVE  d \in Range(Results(sig[k])) /\ Place(Results(sig[k]), d) < Place(Results(sig[k]), e)
  <2>1. DocsOf({k}) = Range(Results(sig[k]))
    BY DEF DocsOf
  <2>2. sig[k] # Failed
    BY <1>1, EmptyRank DEF Results
  <2>3. Results(sig[k]) = sig[k]
    BY <2>2 DEF Results
  <2> QED BY <1>1, <2>1, <2>3 DEF Beats
<1>2. \A k \in Signals :
        /\ Share(d, k) \in Nat /\ Share(e, k) \in Nat /\ Share(d, k) >= Share(e, k)
        /\ e \in Range(Results(sig[k])) => Share(d, k) > Share(e, k)
  BY <1>1, ShareOrders DEF Ranked
<1>3. PICK k \in Signals : e \in Range(Results(sig[k]))
  BY DEF DocsOf
<1>4. d \in DocsOf(Signals)
  BY <1>1, <1>3 DEF DocsOf
<1>5. Rrf(d) \in Nat /\ Rrf(e) \in Nat /\ Rrf(e) < Rrf(d)
  BY <1>2, <1>3 DEF Rrf, Signals
<1>6. weight[d] \in Nat /\ weight[e] \in Nat \ {0} /\ weight[e] <= weight[d]
  BY DEF Beats
<1>7. Rrf(e) * weight[e] < Rrf(d) * weight[e]
  BY <1>5, <1>6, TimesGrow
<1>8. Rrf(d) * weight[e] <= Rrf(d) * weight[d]
  <2>1. weight[e] * Rrf(d) <= weight[d] * Rrf(d)
    BY <1>5, <1>6, TimesGrow
  <2> QED BY <1>5, <1>6, <2>1
<1>9. Rrf(e) * weight[e] \in Nat /\ Rrf(d) * weight[e] \in Nat /\ Rrf(d) * weight[d] \in Nat
  BY <1>5, <1>6
<1> QED BY <1>4, <1>7, <1>8, <1>9

LEMMA RankedRespects ==
  ASSUME Inv, Ranked
  PROVE  RankRespected
<1> SUFFICES ASSUME pc = "resolve", NEW d \in Docs, NEW e \in Docs, d # e, e \in Range(found),
                    Beats(d, e)
             PROVE  d \in Range(found) /\ Place(found, d) < Place(found, e)
  BY DEF RankRespected
<1> DEFINE score == [x \in Docs |-> Rrf(x) * weight[x]]
<1>1. weight \in [Docs -> Nat \ {0}] /\ req.limit \in Nat /\ IsRanking(found)
  BY Limits DEF Ranked, Inv, Shape
<1>2. PICK s \in Sorted(DocsOf(Signals), score) : found = Prefix(s, req.limit)
  BY DEF Ranked, FusedBy
<1>3. DocsOf(Signals) \subseteq Docs
  BY DEF Inv, Shape, DocsOf
<1>4. /\ IsRanking(s) /\ Range(s) = DocsOf(Signals)
      /\ \A i, j \in DOMAIN s : i < j => score[s[i]] >= score[s[j]]
  BY <1>2, <1>3, Finite, RankingsRank DEF Sorted
<1> HIDE DEF score
<1>5. DOMAIN found \subseteq DOMAIN s /\ \A i \in DOMAIN found : found[i] = s[i]
  <2>1. s \in Seq(Docs)
    BY <1>4 DEF IsRanking
  <2> QED BY <1>1, <1>2, <2>1, PrefixCuts
<1>6. /\ Place(found, e) \in 1 .. Len(found) /\ found[Place(found, e)] = e
      /\ DOMAIN found = 1 .. Len(found) /\ DOMAIN s = 1 .. Len(s)
      /\ Len(found) \in Nat /\ Len(s) \in Nat
  <2>1. Place(found, e) \in 1 .. Len(found) /\ found[Place(found, e)] = e
    BY <1>1, PlaceFound
  <2>2. found \in Seq(Docs) /\ s \in Seq(Docs)
    BY <1>1, <1>4 DEF IsRanking
  <2> QED BY <2>1, <2>2
<1>7. e \in Range(s)
  BY <1>5, <1>6 DEF Range
<1>8. /\ d \in DocsOf(Signals) /\ score[e] < score[d] /\ score[e] \in Nat /\ score[d] \in Nat
  <2>1. /\ d \in DocsOf(Signals) /\ Rrf(e) * weight[e] < Rrf(d) * weight[d]
        /\ Rrf(e) * weight[e] \in Nat /\ Rrf(d) * weight[d] \in Nat
    BY <1>1, <1>4, <1>7, ScoreOrders
  <2> QED BY <2>1 DEF score
<1>9. Place(s, d) \in 1 .. Len(s) /\ s[Place(s, d)] = d
  BY <1>4, <1>8, PlaceFound
<1>10. Place(s, d) < Place(found, e)
  <2>1. Place(found, e) \in DOMAIN s /\ s[Place(found, e)] = e
    BY <1>5, <1>6
  <2>2. ~(Place(found, e) < Place(s, d))
    <3> SUFFICES ASSUME Place(found, e) < Place(s, d) PROVE FALSE
      OBVIOUS
    <3>1. score[e] >= score[d]
      BY <1>4, <1>6, <1>9, <2>1
    <3> QED BY <1>8, <3>1
  <2>3. Place(s, d) # Place(found, e)
    BY <1>9, <2>1
  <2> QED BY <1>6, <1>9, <2>2, <2>3
<1>11. Place(s, d) \in DOMAIN found /\ found[Place(s, d)] = d
  BY <1>5, <1>6, <1>9, <1>10
<1>12. d \in Range(found)
  BY <1>11 DEF Range
<1>13. Place(found, d) = Place(s, d)
  BY <1>1, <1>6, <1>11, <1>12, PlaceFound
<1> QED BY <1>10, <1>12, <1>13

\* A signal's ranking is what its retriever returned, or nothing.
LEMMA SignalRanks ==
  ASSUME Inv, Ranked, NEW kind \in Signals, NEW rankings, NEW queried,
         Signal(kind, rankings, queried), pc' # "resolve",
         \A r \in rankings : r = Failed \/ IsRanking(r)
  PROVE  Ranked'
<1>1. PICK r \in rankings \cup {Failed} : sig' = [sig EXCEPT ![kind] = r]
  BY DEF Signal
<1>2. sig'[kind] = r /\ \A k \in Signals \ {kind} : sig'[k] = sig[k]
  BY <1>1 DEF Inv, Shape
<1>3. IsRanking(Results(sig[kind])')
  BY <1>1, <1>2, EmptyRank DEF Results, IsRanking
<1>4. \A k \in Signals \ {kind} : Results(sig[k])' = Results(sig[k])
  BY <1>2 DEF Results
<1> QED BY <1>3, <1>4 DEF Ranked, IsRanking

LEMMA RetrieversRank ==
  ASSUME Inv, Ranked, Bm25 \/ Dense \/ Graph \/ Confidence
  PROVE  Ranked'
<1>1. TopK \in Nat /\ \A q : Matching(q) \subseteq Docs /\ Admitted(q) \subseteq Docs
  BY SearchAssumption, AdmittedWithin
<1>2. CASE Bm25
  <2>1. \A r \in Rankings(Matching(req), TopK) : IsRanking(r)
    BY <1>1, RankingsRank
  <2> QED BY <1>2, <2>1, SignalRanks DEF Bm25, Go, Signals
<1>3. CASE Dense
  <2>1. \A r \in Nearest : r = Failed \/ IsRanking(r)
    <3>1. indexed \cap Admitted(req) \subseteq Docs
      BY <1>1
    <3> QED BY <1>1, <3>1, RankingsRank DEF Nearest
  <2> QED BY <1>3, <2>1, SignalRanks DEF Dense, Go, Signals
<1>4. CASE Graph
  <2> DEFINE reached == Neighbours(DocsOf({"bm25", "dense"})) \cap Admitted(req)
  <2>1. reached \subseteq Docs
    BY <1>1
  <2>2. \A r \in Rankings(reached, TopK) : IsRanking(r)
    BY <1>1, <2>1, RankingsRank
  <2> QED BY <1>4, <2>2, SignalRanks DEF Graph, Go, Signals
<1>5. CASE Confidence
  <2> DEFINE S == {d \in Candidates : row[d] # "absent"}
             rankings == Sorted(S, [d \in Docs |-> ConfidenceWeight(d)])
  <2>1. S \subseteq Docs
    BY DEF Inv, Shape, DocsOf, Candidates, Signals
  <2>2. \A r \in rankings : IsRanking(r)
    BY <2>1, Finite, RankingsRank DEF Sorted
  <2> QED BY <1>5, <2>2, SignalRanks DEF Confidence, Go, Signals
<1> QED BY <1>2, <1>3, <1>4, <1>5

LEMMA WeightsPositive == Weights \in [Docs -> Nat \ {0}]
<1>1. \A f \in Facets : FacetWeight[f] \in Nat \ {0}
  BY SearchAssumption
<1>2. ASSUME NEW d \in Docs PROVE ConfidenceWeight(d) \in Nat \ {0}
  BY <1>1 DEF ConfidenceWeight
<1> QED BY <1>2 DEF Weights

\* Only Fuse leads to the reading of the rows, and until then nothing it used changes.
LEMMA OthersWait ==
  ASSUME Inv, [Next]_vars, ~(Fuse \/ Bm25 \/ Dense \/ Graph \/ Confidence \/ Resolve \/ Return)
  PROVE  /\ sig' = sig
         /\ pc' = "resolve" => pc = "resolve" /\ UNCHANGED <<req, weight, found>>
<1>1. CASE UNCHANGED vars
  BY <1>1 DEF vars, request, hybrid
<1>2. CASE Drain \/ Abort \/ TierTimeout
  BY <1>2 DEF Drain, Abort, TierTimeout, request, hybrid
<1>3. \A ds, outcome : TierReturns(ds, outcome) => sig' = sig /\ pc' # "resolve"
  BY DEF TierReturns, hybrid
<1>4. \A next : Escapes(next) => sig' = sig /\ pc' = next
  BY DEF Escapes, hybrid
<1>5. CASE Find \/ Open \/ EmbedAnswered \/ EmbedRefused \/ EmbedAborted \/ Reply
  BY <1>5 DEF Find, Open, EmbedAnswered, EmbedRefused, EmbedAborted, EmbedFails, Emit, Go, Reply,
              hybrid
<1>6. CASE Catch \/ FallThrough \/ Overrun
  <2>1. tier \in 1 .. 4 /\ \A i \in 2 .. 4 : First[i] # "resolve"
    BY DEF First, Inv, Shape
  <2>2. tier # 4 => First[tier + 1] # "resolve"
    BY <2>1
  <2> QED BY <1>6, <2>2 DEF Catch, FallThrough, Overrun, Emit, hybrid
<1>7. CASE Report \/ AllSignalsFailed \/ Caught
  BY <1>3, <1>4, <1>7 DEF Report, AllSignalsFailed, Caught
<1>8. CASE Only \/ Promote
  BY <1>3, <1>8 DEF Only, Promote, hybrid
<1>9. CASE CatalogGrep \/ GrepEnds \/ GrepFails \/ GrepAborted \/ PathsLookup
  <2>1. CASE CatalogGrep
    BY <1>3, <1>4, <2>1 DEF CatalogGrep
  <2>2. CASE GrepEnds
    BY <1>3, <2>2 DEF GrepEnds, hybrid
  <2>3. CASE GrepFails \/ GrepAborted
    BY <1>3, <1>4, <2>3 DEF GrepFails, GrepAborted
  <2>4. CASE PathsLookup
    BY <1>3, <2>4 DEF PathsLookup
  <2> QED BY <1>9, <2>1, <2>2, <2>3, <2>4
<1> QED BY <1>1, <1>2, <1>5, <1>6, <1>7, <1>8, <1>9 DEF Next, Request

LEMMA StepRanks ==
  ASSUME Inv, Ranked, [Next]_vars
  PROVE  Ranked'
<1>1. CASE Fuse
  <2>1. UNCHANGED <<sig, req>>
    BY <1>1 DEF Fuse, StaysHybrid, request
  <2>2. \A k \in Signals : IsRanking(Results(sig[k])')
    BY <2>1 DEF Ranked, Results, IsRanking
  <2>3. ASSUME pc' = "resolve" PROVE weight' = Weights /\ found' \in FusedBy(weight')
    BY <1>1, <2>3 DEF Fuse
  <2>4. FusedBy(weight)' = FusedBy(weight')
    BY <2>1 DEF FusedBy, DocsOf, Rrf, Share, Results
  <2> QED BY <2>2, <2>3, <2>4, WeightsPositive DEF Ranked
<1>2. CASE Bm25 \/ Dense \/ Graph \/ Confidence
  BY <1>2, RetrieversRank
<1>3. CASE Resolve
  <2>1. pc' # "resolve" /\ \A k \in Signals : Results(sig[k])' = <<>>
    BY <1>3 DEF Resolve, Results
  <2> QED BY <2>1, EmptyRank DEF Ranked, IsRanking
<1>4. CASE Return
  <2>1. pc' # "resolve" /\ \A k \in Signals : Results(sig[k])' = <<>>
    BY <1>4 DEF Return, Results
  <2> QED BY <2>1, EmptyRank DEF Ranked, IsRanking
<1>5. CASE ~(Fuse \/ Bm25 \/ Dense \/ Graph \/ Confidence \/ Resolve \/ Return)
  <2>1. /\ sig' = sig
        /\ pc' = "resolve" => pc = "resolve" /\ UNCHANGED <<req, weight, found>>
    BY <1>5, OthersWait
  <2>2. \A k \in Signals : IsRanking(Results(sig[k])')
    BY <2>1 DEF Ranked, Results, IsRanking
  <2>3. ASSUME pc' = "resolve" PROVE found' \in FusedBy(weight)' /\ weight' \in [Docs -> Nat \ {0}]
    <3>1. FusedBy(weight)' = FusedBy(weight)
      BY <2>1, <2>3 DEF FusedBy, DocsOf, Rrf, Share, Results
    <3> QED BY <2>1, <2>3, <3>1 DEF Ranked
  <2> QED BY <2>2, <2>3 DEF Ranked
<1> QED BY <1>1, <1>2, <1>3, <1>4, <1>5

LEMMA AlwaysRanked == Spec => []Ranked
<1>1. Init => Ranked
  <2> SUFFICES ASSUME Init PROVE Ranked
    OBVIOUS
  <2>1. pc = "idle" /\ \A k \in Signals : Results(sig[k]) = <<>>
    BY DEF Init, Results
  <2> QED BY <2>1, EmptyRank DEF Ranked
<1>2. Inv /\ Ranked /\ [Next]_vars => Ranked'
  BY StepRanks
<1> QED BY <1>1, <1>2, Always, PTL DEF Spec

\* Fusion respects unanimity, for any number of documents and any weights: what no signal places
\* behind another document and weighs no less is not ranked behind it, nor cut off at limit in
\* its favour (fusion.ts:57-88).
THEOREM RanksAreRespected == Spec => []RankRespected
<1>1. Inv /\ Ranked => RankRespected
  BY RankedRespects
<1> QED BY <1>1, Always, AlwaysRanked, PTL

----------------------------------------------------------------------------
\* Types: what they say beyond Inv and Ranked.
Beyond ==
  /\ edges \subseteq Links /\ broken \in Outages \cup {{}}
  /\ req \in Queries \cup {None} /\ (req = None <=> pc = "idle")
  /\ pc \in Points
  /\ master \in BOOLEAN /\ child \in BOOLEAN /\ (master => child)
  /\ embedded \in BOOLEAN /\ sig = [k \in Signals |-> sig[k]]
  /\ deepest \in 1 .. tier /\ done \subseteq 1 .. tier

\* Within a request, up to the next tier.
LEMMA Within ==
  ASSUME Inv, Beyond, pc # "idle", pc' \in Points \ {"idle"},
         UNCHANGED <<edges, broken, req, tier, clocks>>,
         embedded' \in BOOLEAN, sig' = [k \in Signals |-> sig'[k]],
         deepest' \in {deepest, tier}, done' \subseteq done \cup {tier}
  PROVE  Beyond'
<1>1. tier \in 1 .. 4
  BY DEF Inv, Shape
<1> QED BY <1>1 DEF Beyond, clocks

LEMMA TierBeyond ==
  ASSUME Inv, Beyond, pc # "idle", NEW ds, NEW outcome, TierReturns(ds, outcome)
  PROVE  Beyond'
<1>1. UNCHANGED <<edges, broken, req, tier, clocks, embedded, sig>>
  BY DEF TierReturns, corpus, request, hybrid
<1>2. pc' \in {"overrun", "reply", "fallthrough"}
  BY DEF TierReturns
<1>3. deepest' \in {deepest, tier} /\ done' \subseteq done \cup {tier}
  BY DEF TierReturns
<1>4. embedded' \in BOOLEAN /\ sig' = [k \in Signals |-> sig'[k]]
  BY <1>1 DEF Beyond
<1> QED BY <1>1, <1>2, <1>3, <1>4, Within DEF Points, Waits

LEMMA HybridBeyond ==
  ASSUME Inv, Beyond, pc # "idle", pc' \in Points \ {"idle"}, StaysHybrid,
         embedded' \in BOOLEAN, sig' = [k \in Signals |-> sig'[k]]
  PROVE  Beyond'
BY Within DEF StaysHybrid, corpus, request, history

LEMMA EscapesBeyond ==
  ASSUME Inv, Beyond, pc # "idle", NEW next \in Points \ {"idle"}, Escapes(next)
  PROVE  Beyond'
<1>1. UNCHANGED <<embedded, sig>> /\ StaysHybrid /\ pc' = next
  BY DEF Escapes, hybrid
<1> QED BY <1>1, HybridBeyond DEF Beyond

LEMMA SignalsBeyond ==
  ASSUME Inv, Beyond, Bm25 \/ Dense \/ Graph \/ Confidence
  PROVE  Beyond'
<1>1. /\ pc # "idle" /\ pc' \in Points \ {"idle"} /\ StaysHybrid
      /\ embedded' \in {embedded, FALSE}
      /\ \E kind \in Signals : \E r : sig' = [sig EXCEPT ![kind] = r]
  <2>1. \A kind, rankings, queried :
          Signal(kind, rankings, queried) =>
            StaysHybrid /\ \E r : sig' = [sig EXCEPT ![kind] = r]
    BY DEF Signal
  <2> QED BY <2>1 DEF Bm25, Dense, Graph, Confidence, Go, Points, Signals
<1>2. sig' = [k \in Signals |-> sig'[k]]
  BY <1>1 DEF Beyond
<1>3. embedded' \in BOOLEAN
  BY <1>1 DEF Beyond
<1> QED BY <1>1, <1>2, <1>3, HybridBeyond

LEMMA TiersBeyond ==
  ASSUME Inv, Beyond,
         \/ Report \/ AllSignalsFailed \/ Caught \/ Only \/ Promote \/ CatalogGrep
         \/ GrepEnds \/ GrepFails \/ GrepAborted \/ PathsLookup
  PROVE  Beyond'
<1>1. pc # "idle"
  BY DEF Report, AllSignalsFailed, Caught, Only, Promote, CatalogGrep, GrepEnds, GrepFails,
         GrepAborted, PathsLookup
<1>2. CASE \E ds, outcome : TierReturns(ds, outcome)
  BY <1>1, <1>2, TierBeyond
<1>3. CASE \E next \in {"caught", "threw"} : Escapes(next)
  BY <1>1, <1>3, EscapesBeyond DEF Points, Waits
<1>4. CASE pc' \in {"promote", "paths"} /\ UNCHANGED hybrid /\ StaysHybrid
  <2>1. pc' \in Points \ {"idle"} /\ UNCHANGED <<embedded, sig>>
    BY <1>4 DEF Points, hybrid
  <2> QED BY <1>1, <1>4, <2>1, HybridBeyond DEF Beyond
<1>5. CASE Report \/ AllSignalsFailed \/ Caught
  BY <1>2, <1>3, <1>5 DEF Report, AllSignalsFailed, Caught
<1>6. CASE Only \/ GrepEnds
  BY <1>2, <1>4, <1>6 DEF Only, GrepEnds
<1>7. CASE Promote \/ CatalogGrep
  BY <1>2, <1>3, <1>7 DEF Promote, CatalogGrep
<1>8. CASE GrepFails \/ GrepAborted \/ PathsLookup
  BY <1>2, <1>3, <1>8 DEF GrepFails, GrepAborted, PathsLookup
<1> QED BY <1>5, <1>6, <1>7, <1>8

LEMMA StepBeyond ==
  ASSUME Inv, Beyond, [Next]_vars
  PROVE  Beyond'
<1>1. CASE UNCHANGED vars
  BY <1>1 DEF vars, corpus, request, clocks, hybrid, history, Beyond
<1>2. CASE Drain
  BY <1>2 DEF Drain, Commit, Classify, IndexDoc, request, clocks, hybrid, history, Beyond
<1>3. CASE Abort \/ TierTimeout
  BY <1>3 DEF Abort, TierTimeout, corpus, request, hybrid, history, Beyond
<1>4. CASE Find
  BY <1>4, SearchAssumption DEF Find, corpus, clocks, hybrid, Beyond, Points, Waits
<1>5. CASE Open \/ EmbedRefused \/ EmbedAborted
  <2>1. pc # "idle" /\ pc' \in Points \ {"idle"} /\ StaysHybrid /\ UNCHANGED <<embedded, sig>>
    BY <1>5 DEF Open, EmbedRefused, EmbedAborted, EmbedFails, Emit, Points, Waits, hybrid
  <2> QED BY <2>1, HybridBeyond DEF Beyond
<1>6. CASE EmbedAnswered
  <2>1. pc # "idle" /\ pc' \in Points \ {"idle"} /\ StaysHybrid /\ embedded' = TRUE /\ sig' = sig
    BY <1>6 DEF EmbedAnswered, Go, Points
  <2> QED BY <2>1, HybridBeyond DEF Beyond
<1>7. CASE Bm25 \/ Dense \/ Graph \/ Confidence
  BY <1>7, SignalsBeyond
<1>8. CASE Fuse \/ Resolve
  <2>1. /\ pc # "idle" /\ pc' \in Points \ {"idle"} /\ StaysHybrid /\ UNCHANGED embedded
        /\ sig' \in {sig, [k \in Signals |-> IF sig[k] = Failed THEN Failed ELSE <<>>]}
    BY <1>8 DEF Fuse, Resolve, Points, Waits
  <2>2. sig' = [k \in Signals |-> sig'[k]]
    BY <2>1 DEF Beyond
  <2> QED BY <2>1, <2>2, HybridBeyond DEF Beyond
<1>9. CASE \/ Report \/ AllSignalsFailed \/ Caught \/ Only \/ Promote \/ CatalogGrep
           \/ GrepEnds \/ GrepFails \/ GrepAborted \/ PathsLookup
  BY <1>9, TiersBeyond
<1>10. CASE Catch \/ Overrun \/ Reply
  <2>1. /\ pc # "idle" /\ pc' \in Points \ {"idle"}
        /\ UNCHANGED <<corpus, request, clocks, hybrid, deepest, history>>
    BY <1>10 DEF Catch, Overrun, Reply, Emit, Points, Waits
  <2> QED BY <2>1, Within DEF Beyond, corpus, request, hybrid, history
<1>11. CASE FallThrough
  <2>1. /\ UNCHANGED <<corpus, req, broken, master, hybrid, deepest, history>>
        /\ child' \in {child, FALSE} /\ pc # "idle" /\ tier \in 1 .. 4
    BY <1>11 DEF FallThrough, Emit, Inv, Shape
  <2>2. Range(First) = {"open", "only", "catalog", "grep"}
    BY DEF First, Range
  <2>3. CASE pc' \in {"overrun", "reply", "answered"}
    <3>1. UNCHANGED <<edges, broken, req, tier, clocks, embedded, sig, deepest, done>>
      BY <1>11, <2>1, <2>2, <2>3 DEF FallThrough, corpus, clocks, hybrid, history
    <3> QED BY <2>1, <2>3, <3>1, Within DEF Beyond, Points, Waits
  <2>4. CASE ~master /\ tier # 4 /\ pc' = First[tier + 1]
    <3>1. pc' \in {"only", "catalog", "grep"}
      BY <2>1, <2>4 DEF First
    <3>2. tier' = tier + 1
      BY <1>11, <2>2, <3>1 DEF FallThrough
    <3>3. deepest' \in 1 .. tier' /\ done' \subseteq 1 .. tier'
      BY <2>1, <3>2 DEF Beyond, history
    <3>4. UNCHANGED <<edges, broken, req, embedded, sig>> /\ master' = FALSE
      BY <2>1, <2>4 DEF Beyond, corpus, hybrid
    <3> QED BY <2>1, <3>1, <3>3, <3>4 DEF Beyond, Points, Waits
  <2> QED BY <1>11, <2>3, <2>4 DEF FallThrough, Emit
<1>12. CASE Return
  <2>1. sig' = [k \in Signals |-> sig'[k]] /\ UNCHANGED edges
    BY <1>12 DEF Return, corpus
  <2>2. /\ req' = None /\ broken' = {} /\ pc' = "idle" /\ tier' = 1 /\ deepest' = 1
        /\ done' = {} /\ master' = FALSE /\ child' = FALSE /\ embedded' = FALSE
    BY <1>12 DEF Return
  <2>3. deepest' \in 1 .. tier' /\ done' \subseteq 1 .. tier'
    BY <2>2
  <2> QED BY <2>1, <2>2, <2>3 DEF Beyond, Points
<1> QED
  BY <1>1, <1>2, <1>3, <1>4, <1>5, <1>6, <1>7, <1>8, <1>9, <1>10, <1>11, <1>12
     DEF Next, Request

\* What a ranking is, as the type invariant puts it.
LEMMA RankingIsFound ==
  ASSUME NEW s, IsRanking(s)
  PROVE  s \in Found
<1>1. /\ Cardinality(Range(s)) = Len(s) /\ Len(s) \in Nat /\ Cardinality(Docs) \in Nat
      /\ Cardinality(Range(s)) <= Cardinality(Docs)
  BY LengthCounts, LongEnough
<1>2. s \in [1 .. Len(s) -> Docs]
  BY DEF IsRanking
<1> QED BY <1>1, <1>2 DEF Found

\* No step of a request, whatever times out or throws, leaves the handler between two tiers or
\* in one it has not come to, a ranking longer than the corpus, or a tier's signal alive under
\* a cascade that was aborted.
THEOREM TypeCorrect == Spec => []TypeOK
<1>1. Init => Beyond
  <2> SUFFICES ASSUME Init PROVE Beyond
    OBVIOUS
  <2>1. edges \subseteq Links /\ sig = [k \in Signals |-> sig[k]]
    BY DEF Init
  <2>2. /\ req = None /\ broken = {} /\ pc = "idle" /\ tier = 1 /\ deepest = 1 /\ done = {}
        /\ master = FALSE /\ child = FALSE /\ embedded = FALSE
    BY DEF Init
  <2>3. deepest \in 1 .. tier /\ done \subseteq 1 .. tier
    BY <2>2
  <2> QED BY <2>1, <2>2, <2>3 DEF Beyond, Points
<1>2. ASSUME Inv, Ranked, Beyond PROVE TypeOK
  <2>1. found \in Found
    BY <1>2, RankingIsFound DEF Inv, Shape
  <2>2. ASSUME NEW k \in Signals PROVE sig[k] \in Found \cup {Failed}
    BY <1>2, RankingIsFound DEF Ranked, Results
  <2>3. sig \in [Signals -> Found \cup {Failed}]
    BY <1>2, <2>2 DEF Beyond
  <2>4. Range(merged) \subseteq Hit
    BY <1>2 DEF Inv, Shape, Range
  <2>5. Len(merged) <= Cardinality(Docs)
    BY <1>2, HitsCount, LongEnough DEF Inv, Shape
  <2>6. /\ row \in [Docs -> Facets \cup {"absent", "unclassified"}]
        /\ indexed \subseteq Classified /\ tier \in 1 .. 4
    BY <1>2 DEF Inv, Shape
  <2> QED BY <1>2, <2>1, <2>3, <2>4, <2>5, <2>6 DEF Beyond, TypeOK
<1>3. Inv /\ Beyond /\ [Next]_vars => Beyond'
  BY StepBeyond
<1> QED
  BY <1>1, <1>2, <1>3, Always, AlwaysRanked, PTL DEF Spec
=============================================================================
