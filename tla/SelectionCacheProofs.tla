------------------------- MODULE SelectionCacheProofs -------------------------
(***************************************************************************)
(* Proofs about SelectionCache: what is memoized is valid for its key, so  *)
(* exact hits are complete, and hits were made for the budget of their     *)
(* request; no exact hit uses an entry that an ingest brought below the    *)
(* floor; the cache keeps its cap, and every entry its slot.               *)
(*                                                                         *)
(* The third one rests on fresh ids: an entry is worn only by an ingest,   *)
(* whose id is not in the entry's key, so that the key is not that of the  *)
(* store any more.  Only a turn or a batch lets ids go, and they collect   *)
(* the worn entries, or clear the cache, in the same step.                 *)
(***************************************************************************)
EXTENDS SelectionCache, FiniteSetTheorems, TLAPS

\* The cache m is valid for the fragments L, when n ids were handed out.
Valid(m, L, n) ==
    /\ n \in 0 .. MaxIds
    /\ L \subseteq 1 .. n
    /\ m = [k \in DOMAIN m |-> m[k]]
    /\ \A k \in DOMAIN m :
         /\ k \in Key
         /\ m[k] \in Entry
         /\ m[k].selected \subseteq k.frags
         /\ m[k].budget = k.budget
         /\ k.frags \subseteq 1 .. n
         /\ m[k].worn => k.frags # L

SnapshotValid == \A s \in snapshot : Valid(s.entries, s.live, s.idCounter)

CacheInv == Valid(entries, live, idCounter) /\ SnapshotValid

LEMMA IdBound == MaxIds \in Nat
BY CacheAssumption

LEMMA InitValid == CacheInit => CacheInv
BY IdBound DEF CacheInit, CacheInv, Valid, SnapshotValid, NoEntries

\* Removing entries, or the mark of wear, and letting fragments go while no
\* worn entry is left, keeps a cache valid.
LEMMA ClearedIsValid ==
    ASSUME NEW L, NEW n \in 0 .. MaxIds, L \subseteq 1 .. n
    PROVE  Valid(NoEntries, L, n)
BY DEF Valid, NoEntries

\* Ingest: the new id is in no key, so it does not matter what it wears out.
LEMMA IngestIsValid ==
    ASSUME CacheInv, NEW stale \in SUBSET live, Ingest(stale)
    PROVE  Valid(entries', live', idCounter')
<1>1. PICK hit \in SUBSET DOMAIN entries :
        entries' = [k \in DOMAIN entries |-> [entries[k] EXCEPT !.worn = @ \/ k \in hit]]
  BY DEF Ingest, Touched
<1>2. idCounter' = idCounter + 1 /\ live' = live \cup {idCounter + 1} /\ idCounter + 1 <= MaxIds
  BY IdBound DEF Ingest, CacheInv, Valid
<1>3. /\ idCounter' \in 0 .. MaxIds
      /\ live' \subseteq 1 .. idCounter'
  BY <1>2, IdBound DEF CacheInv, Valid
<1>4. DOMAIN entries' = DOMAIN entries /\ entries' = [k \in DOMAIN entries' |-> entries'[k]]
  BY <1>1
<1>5. ASSUME NEW k \in DOMAIN entries
      PROVE  /\ k \in Key
             /\ entries'[k] \in Entry
             /\ entries'[k].selected = entries[k].selected
             /\ entries'[k].budget = entries[k].budget
             /\ k.frags \subseteq 1 .. idCounter
             /\ idCounter + 1 \notin k.frags
  <2>1. entries[k] \in Entry /\ k \in Key /\ k.frags \subseteq 1 .. idCounter /\ idCounter \in Nat
    BY DEF CacheInv, Valid
  <2>3. PICK w \in BOOLEAN : w = (entries[k].worn \/ k \in hit)
    BY Zenon
  <2>4. entries'[k] = [entries[k] EXCEPT !.worn = w]
    BY <1>1, <2>3, Zenon
  <2>5. entries'[k].selected = entries[k].selected /\ entries'[k].budget = entries[k].budget
    BY <2>1, <2>4 DEF Entry
  <2>6. entries'[k] \in Entry
    BY <2>1, <2>4 DEF Entry
  <2> QED
    BY <2>1, <2>5, <2>6
<1>6. ASSUME NEW k \in DOMAIN entries
      PROVE  /\ entries'[k].selected \subseteq k.frags
             /\ entries'[k].budget = k.budget
             /\ k.frags \subseteq 1 .. idCounter'
             /\ k.frags # live'
  BY <1>5, <1>2 DEF CacheInv, Valid
<1> QED
  BY <1>3, <1>4, <1>5, <1>6 DEF Valid

\* Stubs: the keys of all entries lack the new id.
LEMMA StubIsValid ==
    ASSUME CacheInv, IngestStub
    PROVE  Valid(entries', live', idCounter')
<1>1. /\ idCounter' = idCounter + 1 /\ live' = live \cup {idCounter + 1}
      /\ idCounter + 1 <= MaxIds /\ entries' = entries
  BY IdBound DEF IngestStub, CacheInv, Valid
<1>2. ASSUME NEW k \in DOMAIN entries
      PROVE  k.frags \subseteq 1 .. idCounter' /\ k.frags # live'
  BY <1>1 DEF CacheInv, Valid
<1> QED
  BY <1>1, <1>2, IdBound DEF CacheInv, Valid

\* A duplicate: an id is used up.
LEMMA DuplicateIsValid ==
    ASSUME CacheInv, IngestDuplicate
    PROVE  Valid(entries', live', idCounter')
<1>1. /\ idCounter' = idCounter + 1 /\ live' = live
      /\ idCounter + 1 <= MaxIds /\ entries' = entries
  BY IdBound DEF IngestDuplicate, CacheInv, Valid
<1>2. ASSUME NEW k \in DOMAIN entries
      PROVE  k.frags \subseteq 1 .. idCounter'
  BY <1>1 DEF CacheInv, Valid
<1> QED
  BY <1>1, <1>2, IdBound DEF CacheInv, Valid

\* A batch leaves no entry behind.
LEMMA BatchIsValid ==
    ASSUME CacheInv, NEW gone \in SUBSET live, NEW n \in 0 .. MaxIds, BatchIngest(gone, n)
    PROVE  Valid(entries', live', idCounter')
<1>1. /\ idCounter' = idCounter + n
      /\ live' \subseteq live \cup (idCounter + 1 .. idCounter + n)
      /\ entries' = NoEntries /\ idCounter + n <= MaxIds
  BY DEF BatchIngest, EmptyCache
<1>2. idCounter' \in 0 .. MaxIds /\ live' \subseteq 1 .. idCounter'
  BY <1>1, IdBound DEF CacheInv, Valid
<1> QED
  BY <1>1, <1>2, ClearedIsValid

\* A turn collects every worn entry, whatever fragments it lets go.
LEMMA TurnIsValid ==
    ASSUME CacheInv, NEW left \in SUBSET live, AdvanceTurn(left)
    PROVE  Valid(entries', live', idCounter')
<1> DEFINE kept == {k \in DOMAIN entries : AboveFloor(entries[k])}
<1>1. entries' = [k \in kept |-> entries[k]] /\ live' = left /\ idCounter' = idCounter
  BY DEF AdvanceTurn, Restrict, Worthy
<1>2. ASSUME NEW k \in kept
      PROVE  entries'[k] = entries[k] /\ ~entries[k].worn
  BY <1>1 DEF AboveFloor
<1> QED
  BY <1>1, <1>2 DEF CacheInv, Valid

\* Whatever is stored is a selection of live fragments for the budget of its key.
LEMMA StoreIsValid ==
    ASSUME CacheInv, NEW q \in Queries, NEW b \in Budgets,
           NEW S \in Selections, Store(KeyOf(q, live, b), S)
    PROVE  Valid(entries', live, idCounter)
<1> DEFINE k == KeyOf(q, live, b)
<1>1. CASE entries' = entries
  BY <1>1 DEF CacheInv
<1>2. ASSUME NEW out \in SUBSET DOMAIN entries,
             entries' = [j \in (DOMAIN entries \ out) \cup {k} |->
                            IF j = k THEN NewEntry(S, k.budget) ELSE entries[j]]
      PROVE  Valid(entries', live, idCounter)
  <2>1. live \in SUBSET FragIds /\ live \subseteq 1 .. idCounter
    BY IdBound DEF CacheInv, Valid, FragIds
  <2>2. S \subseteq live
    BY DEF Selections
  <2>3. k \in Key /\ k.frags = live /\ k.budget = b
    BY <2>1 DEF KeyOf, Key
  <2>4. /\ NewEntry(S, k.budget) \in Entry
        /\ NewEntry(S, k.budget).selected = S /\ NewEntry(S, k.budget).budget = b
        /\ NewEntry(S, k.budget).worn = FALSE
    BY <2>1, <2>2, <2>3 DEF NewEntry, Entry
  <2>5. DOMAIN entries' = (DOMAIN entries \ out) \cup {k}
    BY <1>2
  <2>6. entries' = [j \in DOMAIN entries' |-> entries'[j]]
    BY <1>2
  <2>7. ASSUME NEW j \in DOMAIN entries'
        PROVE  /\ j \in Key
               /\ entries'[j] \in Entry
               /\ entries'[j].selected \subseteq j.frags
               /\ entries'[j].budget = j.budget
               /\ j.frags \subseteq 1 .. idCounter
               /\ entries'[j].worn => j.frags # live
    <3>1. CASE j = k
      <4>1. entries'[j] = NewEntry(S, k.budget)
        BY <1>2, <2>5, <3>1
      <4> QED
        BY <4>1, <3>1, <2>1, <2>2, <2>3, <2>4
    <3>2. CASE j # k
      <4>1. j \in DOMAIN entries /\ entries'[j] = entries[j]
        BY <1>2, <2>5, <3>2
      <4> QED
        BY <4>1 DEF CacheInv, Valid
    <3> QED
      BY <3>1, <3>2
  <2> QED
    BY <2>6, <2>7 DEF CacheInv, Valid
<1> QED
  BY <1>1, <1>2 DEF Store, Refused, Victims

\* A rating leaves the selection alone and takes the mark of wear away.
LEMMA RatingIsValid ==
    ASSUME CacheInv, NEW k, NEW success \in BOOLEAN, Rate(k, success)
    PROVE  Valid(entries', live, idCounter)
<1>1. CASE entries' = entries
  BY <1>1 DEF CacheInv
<1>2. CASE /\ k \in DOMAIN entries
           /\ entries' = [entries EXCEPT
                 ![k].good = IF success THEN @ + 1 ELSE @,
                 ![k].bad  = IF success THEN @ ELSE @ + 1,
                 ![k].worn = FALSE]
  <2>1. DOMAIN entries' = DOMAIN entries /\ entries' = [j \in DOMAIN entries' |-> entries'[j]]
    BY <1>2
  <2>2. ASSUME NEW j \in DOMAIN entries
        PROVE  /\ entries'[j] \in Entry
               /\ entries'[j].selected = entries[j].selected
               /\ entries'[j].budget = entries[j].budget
               /\ entries'[j].worn => entries[j].worn
    <3>1. entries[j] \in Entry
      BY DEF CacheInv, Valid
    <3>2. CASE j # k
      <4>1. entries'[j] = entries[j]
        BY <1>2, <3>2
      <4> QED
        BY <3>1, <4>1
    <3>3. CASE j = k
      <4>1. entries'[j] = [selected |-> entries[j].selected,
                           budget |-> entries[j].budget,
                           good |-> IF success THEN entries[j].good + 1 ELSE entries[j].good,
                           bad  |-> IF success THEN entries[j].bad ELSE entries[j].bad + 1,
                           worn |-> FALSE]
        BY <1>2, <3>1, <3>3 DEF Entry
      <4> QED
        BY <3>1, <4>1 DEF Entry
    <3> QED
      BY <3>2, <3>3
  <2> QED
    BY <2>1, <2>2 DEF CacheInv, Valid
<1> QED
  BY <1>1, <1>2 DEF Rate

-----------------------------------------------------------------------------
\* An import puts a cache in place that was valid when it was exported.
LEMMA ImportIsValid ==
    ASSUME CacheInv, NEW fresh \in BOOLEAN, ImportState(fresh)
    PROVE  Valid(entries', live', idCounter')
<1>1. PICK s \in snapshot : live' = s.live /\ idCounter' = s.idCounter /\ entries' = s.entries
  BY DEF ImportState
<1>2. Valid(s.entries, s.live, s.idCounter)
  BY DEF CacheInv, SnapshotValid
<1> QED
  BY <1>1, <1>2 DEF Valid

\* Hits and explorations leave the cache and the store alone.
LEMMA LookingChangesNoEntry ==
    ASSUME CacheInv, UNCHANGED <<entries, live, idCounter>>
    PROVE  Valid(entries', live', idCounter')
BY DEF CacheInv, Valid

\* Every step keeps the cache valid, and the snapshot a copy of a valid one.
LEMMA CacheStep == CacheInv /\ [CacheNext]_cacheVars => CacheInv'
<1> SUFFICES ASSUME CacheInv, [CacheNext]_cacheVars
             PROVE  CacheInv'
  OBVIOUS
<1>0. ASSUME Valid(entries', live', idCounter'), snapshot' = snapshot
      PROVE  CacheInv'
  BY <1>0 DEF CacheInv, SnapshotValid, Valid
<1>1. CASE \E stale \in SUBSET live : Ingest(stale)
  BY <1>1, <1>0, IngestIsValid DEF Ingest
<1>2. CASE IngestStub
  BY <1>2, <1>0, StubIsValid DEF IngestStub
<1>15. CASE IngestDuplicate
  BY <1>15, <1>0, DuplicateIsValid DEF IngestDuplicate
<1>3. CASE \E gone \in SUBSET live, n \in 0 .. MaxIds : BatchIngest(gone, n)
  BY <1>3, <1>0, BatchIsValid DEF BatchIngest
<1>4. CASE \E left \in SUBSET live : AdvanceTurn(left)
  BY <1>4, <1>0, TurnIsValid DEF AdvanceTurn
<1>5. CASE ClearCache
  <2>1. /\ entries' = NoEntries /\ live' = live /\ idCounter' = idCounter
        /\ snapshot' = snapshot
    BY <1>5 DEF ClearCache, EmptyCache
  <2>2. Valid(entries', live', idCounter')
    BY <2>1, ClearedIsValid DEF CacheInv, Valid
  <2> QED
    BY <2>1, <2>2, <1>0
<1>6. CASE \E q \in Queries, b \in Budgets : OptimizeExactHit(q, b)
  BY <1>6, <1>0, LookingChangesNoEntry DEF OptimizeExactHit, Hit
<1>7. CASE \E q \in Queries, b \in Budgets : OptimizeSemanticHit(q, b)
  BY <1>7, <1>0, LookingChangesNoEntry DEF OptimizeSemanticHit, Hit
<1>8. CASE \E q \in Queries, b \in Budgets, x \in BOOLEAN : Optimize(q, b, x)
  <2>1. PICK q \in Queries, b \in Budgets : \E S \in Selections :
           /\ Store(KeyOf(q, live, b), S)
           /\ UNCHANGED <<live, idCounter, snapshot>>
    BY <1>8 DEF Optimize, Answered
  <2>2. Valid(entries', live, idCounter)
    BY <2>1, StoreIsValid
  <2> QED
    BY <2>1, <2>2, <1>0
<1>9. CASE \E q \in Queries \cup {NoQuery}, b \in Budgets : Explore(q, b)
  BY <1>9, <1>0, LookingChangesNoEntry DEF Explore, Answered
<1>10. CASE \E b \in Budgets : OptimizeWithoutQuery(b)
  BY <1>10, <1>0, LookingChangesNoEntry DEF OptimizeWithoutQuery, Answered
<1>11. CASE \E ids \in SUBSET last.returned, s \in BOOLEAN : Feedback(ids, s)
  <2>1. PICK ids \in SUBSET last.returned, success \in BOOLEAN : Feedback(ids, success)
    BY <1>11
  <2>2. UNCHANGED <<live, idCounter, snapshot>>
    BY <2>1 DEF Feedback
  <2>3. CASE Rate(KeyOf(last.query, ids, last.budget), success)
    <3>1. Valid(entries', live, idCounter)
      BY <2>3, RatingIsValid
    <3> QED
      BY <2>2, <3>1, <1>0
  <2>4. CASE UNCHANGED <<entries, radius>>
    BY <2>2, <2>4, <1>0, LookingChangesNoEntry
  <2> QED
    BY <2>1, <2>3, <2>4 DEF Feedback
<1>12. CASE ExportState
  <2>1. /\ UNCHANGED <<entries, live, idCounter>>
        /\ snapshot' = {[live |-> live, idCounter |-> idCounter,
                         entries |-> entries, radius |-> radius]}
    BY <1>12 DEF ExportState
  <2>2. ASSUME NEW s \in snapshot'
        PROVE  Valid(s.entries, s.live, s.idCounter)
    BY <2>1 DEF CacheInv, Valid
  <2>3. SnapshotValid'
    BY <2>2 DEF SnapshotValid, Valid
  <2> QED
    BY <2>1, <2>3, LookingChangesNoEntry DEF CacheInv, Valid
<1>13. CASE \E fresh \in BOOLEAN : ImportState(fresh)
  BY <1>13, <1>0, ImportIsValid DEF ImportState
<1>14. CASE UNCHANGED cacheVars
  BY <1>14, <1>0, LookingChangesNoEntry DEF cacheVars
<1> QED
  BY <1>1, <1>2, <1>3, <1>4, <1>5, <1>6, <1>7, <1>8, <1>9, <1>10, <1>11, <1>12,
     <1>13, <1>14, <1>15 DEF CacheNext

LEMMA CacheIsValid == CacheSpec => []CacheInv
BY InitValid, CacheStep, PTL DEF CacheSpec

\* What store_with_budget memoizes is a selection of the fragments of its key,
\* made for the budget of its key, whatever is evicted, rated or imported.
THEOREM MemoizedAnswersAreValid == CacheSpec => []EntriesFitTheirKey
<1>1. CacheInv => EntriesFitTheirKey
  BY DEF CacheInv, Valid, EntriesFitTheirKey
<1> QED
  BY <1>1, CacheIsValid, PTL

\* lookup_with_budget never answers exactly from an entry that an ingest
\* brought below the quality floor.
THEOREM StaleEntriesAreNotReused == CacheSpec => NoStaleReuse
<1>1. CacheInv =>
        [\A k \in DOMAIN entries :
          entries[k].worn /\ last' # last /\ last'.kind = "exact"
             => k # KeyOf(last'.query, live, last'.budget)]_cacheVars
  BY DEF CacheInv, Valid, KeyOf
<1> QED
  BY <1>1, CacheIsValid, PTL DEF NoStaleReuse
-----------------------------------------------------------------------------
AnswerInv == HitsKeepTheBudget /\ ExactHitsAreComplete

\* What a hit from the entry of key k returns was made for the key's budget.
LEMMA HitFits ==
    ASSUME CacheInv, NEW k \in DOMAIN entries
    PROVE  /\ entries[k].budget = k.budget
           /\ k.frags = live => entries[k].selected \cap live = entries[k].selected
BY DEF CacheInv, Valid

LEMMA AnswerStep == CacheInv /\ AnswerInv /\ [CacheNext]_cacheVars => AnswerInv'
<1> SUFFICES ASSUME CacheInv, AnswerInv, [CacheNext]_cacheVars
             PROVE  AnswerInv'
  OBVIOUS
<1>1. ASSUME last' = last
      PROVE  AnswerInv'
  BY <1>1 DEF AnswerInv, HitsKeepTheBudget, ExactHitsAreComplete
<1>2. ASSUME last'.kind \notin {"exact", "semantic"}
      PROVE  AnswerInv'
  BY <1>2 DEF AnswerInv, HitsKeepTheBudget, ExactHitsAreComplete
<1>3. ASSUME NEW q \in Queries, NEW b \in Budgets, OptimizeExactHit(q, b)
      PROVE  AnswerInv'
  <2> DEFINE k == KeyOf(q, live, b)
  <2>1. /\ k \in DOMAIN entries /\ k.frags = live /\ k.budget = b
        /\ last'.budget = b
        /\ last'.madeFor = entries[k].budget
        /\ last'.selected = entries[k].selected
        /\ last'.returned = entries[k].selected \cap live
    BY <1>3 DEF OptimizeExactHit, Hit, KeyOf
  <2> QED
    BY <2>1, HitFits DEF AnswerInv, HitsKeepTheBudget, ExactHitsAreComplete
<1>4. ASSUME NEW q \in Queries, NEW b \in Budgets, OptimizeSemanticHit(q, b)
      PROVE  AnswerInv'
  <2>1. PICK n \in Similar(q, b) : Hit("semantic", q, b, slots[n])
    BY <1>4 DEF OptimizeSemanticHit, Probes
  <2>2. /\ entries[slots[n]].budget = b
        /\ last'.budget = b /\ last'.kind = "semantic"
        /\ last'.madeFor = entries[slots[n]].budget
    BY <2>1 DEF Similar, Hit
  <2> QED
    BY <2>2 DEF AnswerInv, HitsKeepTheBudget, ExactHitsAreComplete
<1>5. ASSUME NEW q, NEW b, NEW x, Optimize(q, b, x)
      PROVE  AnswerInv'
  BY <1>5, <1>2 DEF Optimize, Answered
<1>6. ASSUME NEW q, NEW b, Explore(q, b)
      PROVE  AnswerInv'
  BY <1>6, <1>2 DEF Explore, Answered
<1>7. ASSUME NEW b, OptimizeWithoutQuery(b)
      PROVE  AnswerInv'
  BY <1>7, <1>2 DEF OptimizeWithoutQuery, Answered
<1>8. ASSUME NEW fresh, ImportState(fresh)
      PROVE  AnswerInv'
  BY <1>8, <1>1, <1>2 DEF ImportState, None
<1> QED
  BY <1>1, <1>3, <1>4, <1>5, <1>6, <1>7, <1>8 DEF CacheNext, Ingest, IngestStub,
     IngestDuplicate, BatchIngest, AdvanceTurn, ClearCache, Feedback, ExportState, cacheVars

LEMMA AnswersAreSound == CacheSpec => []AnswerInv
<1>1. CacheInit => AnswerInv
  BY DEF CacheInit, None, AnswerInv, HitsKeepTheBudget, ExactHitsAreComplete
<1> QED
  BY <1>1, AnswerStep, CacheIsValid, PTL DEF CacheSpec

\* Cached selections do not leak across budgets, through either tier.
THEOREM CachedAnswersKeepTheBudget == CacheSpec => []HitsKeepTheBudget
<1>1. AnswerInv => HitsKeepTheBudget
  BY DEF AnswerInv
<1> QED
  BY <1>1, AnswersAreSound, PTL

\* rebuild_selected_list drops nothing from the selection of an exact hit.
THEOREM ExactAnswersAreWhole == CacheSpec => []ExactHitsAreComplete
<1>1. AnswerInv => ExactHitsAreComplete
  BY DEF AnswerInv
<1> QED
  BY <1>1, AnswersAreSound, PTL
-----------------------------------------------------------------------------
(***************************************************************************)
(* The cap and the slots.  Nothing bounds the queries, so that a cache is  *)
(* finite must be carried along; slots outlive their entries until the     *)
(* next import or clearing, and no entry ever loses its own.               *)
(***************************************************************************)
Small(m) == IsFiniteSet(DOMAIN m) /\ Cardinality(DOMAIN m) <= MaxEntries

LastTypeOK ==
    /\ last.query \in Queries \cup {NoQuery}
    /\ last.budget \in Budgets \cup {0}
    /\ last.eligible => last.query \in Queries
    /\ last.returned \subseteq last.selected

Radii == [Clusters -> MinRadius .. MaxRadius]

SlotInv ==
    /\ Small(entries)
    /\ slots \in Seq(Key)
    /\ EntriesAreIndexed
    /\ radius \in Radii
    /\ LastTypeOK
    /\ feedbacks \in 0 .. MaxFeedback
    /\ \A s \in snapshot : Small(s.entries) /\ s.radius \in Radii

\* What a step does to the entries and the slots: entries may go while the
\* slots stay, one may come with a slot of its own, or both start over.
Reshaped ==
    \/ DOMAIN entries' \subseteq DOMAIN entries /\ slots' = slots
    \/ \E k \in Key, out \in Victims :
         /\ DOMAIN entries' = (DOMAIN entries \ out) \cup {k}
         /\ k \notin DOMAIN entries
         /\ slots' = Append(slots, k)
    \/ DOMAIN entries' = {} /\ slots' = <<>>
    \/ \E s \in snapshot :
         entries' = s.entries /\ slots' \in Listings(DOMAIN s.entries)

\* The bounds, as numbers.
LEMMA Bounds ==
    /\ MaxEntries \in Nat \ {0}
    /\ MinRadius \in Nat /\ MaxRadius \in Nat
    /\ InitialRadius \in MinRadius .. MaxRadius
    /\ MaxFeedback \in Nat
    /\ ClusterOf \in [Queries -> Clusters]
    /\ NoQuery \notin Queries
<1>1. MaxEntries \in Nat \ {0}
  BY CacheAssumption
<1>2. MinRadius \in Nat
  BY CacheAssumption
<1>3. MaxRadius \in Nat
  BY CacheAssumption
<1>4. InitialRadius \in Nat
  BY CacheAssumption
<1>5. MinRadius <= InitialRadius /\ InitialRadius <= MaxRadius
  BY CacheAssumption
<1>6. MaxFeedback \in Nat
  BY CacheAssumption
<1>7. ClusterOf \in [Queries -> Clusters] /\ NoQuery \notin Queries
  BY CacheAssumption
<1> QED
  BY <1>1, <1>2, <1>3, <1>4, <1>5, <1>6, <1>7

\* That is all that any step does.
LEMMA EveryStepReshapes ==
    ASSUME CacheInv, SlotInv, [CacheNext]_cacheVars
    PROVE  Reshaped
<1>0. live \in SUBSET FragIds
  BY IdBound DEF CacheInv, Valid, FragIds
<1>1. ASSUME NEW stale, Ingest(stale)
      PROVE  Reshaped
  BY <1>1 DEF Ingest, Reshaped
<1>2. CASE IngestDuplicate \/ IngestStub \/ ExportState \/ UNCHANGED cacheVars
  BY <1>2 DEF IngestDuplicate, IngestStub, ExportState, cacheVars, Reshaped
<1>3. ASSUME EmptyCache
      PROVE  Reshaped
  BY <1>3 DEF EmptyCache, NoEntries, Reshaped
<1>4. ASSUME NEW gone, NEW n, BatchIngest(gone, n)
      PROVE  Reshaped
  BY <1>3, <1>4 DEF BatchIngest, Reshaped
<1>5. ASSUME NEW left, AdvanceTurn(left)
      PROVE  Reshaped
  BY <1>5 DEF AdvanceTurn, Restrict, Worthy, Reshaped
<1>6. CASE ClearCache
  BY <1>3, <1>6 DEF ClearCache
<1>7. ASSUME UNCHANGED <<entries, slots>>
      PROVE  Reshaped
  BY <1>7 DEF Reshaped
<1>8. ASSUME NEW q, NEW b, OptimizeExactHit(q, b) \/ OptimizeSemanticHit(q, b) \/ Explore(q, b)
                           \/ OptimizeWithoutQuery(b)
      PROVE  Reshaped
  BY <1>7, <1>8 DEF OptimizeExactHit, OptimizeSemanticHit, Hit, Explore, OptimizeWithoutQuery
<1>9. ASSUME NEW q \in Queries, NEW b \in Budgets, NEW x, Optimize(q, b, x)
      PROVE  Reshaped
  <2> DEFINE k == KeyOf(q, live, b)
  <2>1. k \in Key
    BY <1>0 DEF KeyOf, Key
  <2>2. PICK S : Store(k, S)
    BY <1>9 DEF Optimize
  <2> HIDE DEF k
  <2>3. CASE Refused
    BY <1>7, <2>3 DEF Refused
  <2>4. ASSUME NEW out \in Victims, k \notin DOMAIN entries,
               entries' = [j \in (DOMAIN entries \ out) \cup {k} |->
                            IF j = k THEN NewEntry(S, k.budget) ELSE entries[j]],
               slots' = Append(slots, k)
        PROVE  Reshaped
    BY <2>1, <2>4 DEF Reshaped
  <2> QED
    BY <2>2, <2>3, <2>4 DEF Store
<1>10. ASSUME NEW ids, NEW success, Feedback(ids, success)
       PROVE  Reshaped
  <2>1. slots' = slots /\ DOMAIN entries' = DOMAIN entries
    BY <1>10 DEF Feedback, Rate
  <2> QED
    BY <2>1 DEF Reshaped
<1>11. ASSUME NEW fresh, ImportState(fresh)
       PROVE  Reshaped
  BY <1>11 DEF ImportState, Reshaped
<1> QED
  BY <1>1, <1>2, <1>4, <1>5, <1>6, <1>8, <1>9, <1>10, <1>11 DEF CacheNext

\* The cache stays small, and every entry keeps a slot.
LEMMA ReshapedStaysIndexed ==
    ASSUME CacheInv, SlotInv, Reshaped
    PROVE  Small(entries') /\ slots' \in Seq(Key) /\ EntriesAreIndexed'
<1>0. /\ IsFiniteSet(DOMAIN entries) /\ Cardinality(DOMAIN entries) <= MaxEntries
      /\ Cardinality(DOMAIN entries) \in Nat
      /\ MaxEntries \in Nat \ {0} /\ slots \in Seq(Key) /\ EntriesAreIndexed
  BY FS_CardinalityType, Bounds DEF SlotInv, Small
<1>1. CASE DOMAIN entries' \subseteq DOMAIN entries /\ slots' = slots
  <2>1. IsFiniteSet(DOMAIN entries') /\ Cardinality(DOMAIN entries') <= Cardinality(DOMAIN entries)
    BY <1>0, <1>1, FS_Subset
  <2>2. Cardinality(DOMAIN entries') \in Nat
    BY <2>1, FS_CardinalityType
  <2> QED
    BY <1>0, <1>1, <2>1, <2>2 DEF Small, EntriesAreIndexed
<1>2. ASSUME NEW k \in Key, NEW out \in Victims,
             DOMAIN entries' = (DOMAIN entries \ out) \cup {k},
             k \notin DOMAIN entries,
             slots' = Append(slots, k)
      PROVE  Small(entries') /\ slots' \in Seq(Key) /\ EntriesAreIndexed'
  <2> DEFINE rest == DOMAIN entries \ out
  <2>1. out \in SUBSET DOMAIN entries
    BY DEF Victims
  <2>2. IsFiniteSet(rest) /\ Cardinality(rest) \in Nat
        /\ Cardinality(rest) <= Cardinality(DOMAIN entries)
    BY <1>0, FS_Subset, FS_CardinalityType
  <2>3. Cardinality(rest) < MaxEntries
    <3>1. CASE Cardinality(DOMAIN entries) >= MaxEntries
      <4>1. Cardinality(out) = 1 /\ IsFiniteSet(out)
        BY <1>0, <2>1, <3>1, FS_Subset DEF Victims
      <4>2. PICK j : out = {j}
        BY <4>1, FS_Singleton
      <4>3. j \in DOMAIN entries /\ rest = DOMAIN entries \ {j}
        BY <2>1, <4>2
      <4>4. Cardinality(rest) = Cardinality(DOMAIN entries) - 1
        BY <1>0, <4>3, FS_RemoveElement
      <4> QED
        BY <1>0, <4>4
    <3>2. CASE ~(Cardinality(DOMAIN entries) >= MaxEntries)
      BY <1>0, <2>2, <3>2
    <3> QED
      BY <3>1, <3>2
  <2>4. /\ IsFiniteSet(rest \cup {k})
        /\ Cardinality(rest \cup {k}) = Cardinality(rest) + 1
    BY <1>2, <2>2, FS_AddElement
  <2>5. Small(entries')
    BY <1>0, <1>2, <2>2, <2>3, <2>4 DEF Small
  <2>6. /\ slots' \in Seq(Key)
        /\ DOMAIN slots' = DOMAIN slots \cup {Len(slots) + 1}
        /\ slots'[Len(slots) + 1] = k
        /\ \A n \in DOMAIN slots : slots'[n] = slots[n]
    BY <1>0, <1>2
  <2>7. EntriesAreIndexed'
    BY <1>0, <1>2, <2>6 DEF EntriesAreIndexed
  <2> QED
    BY <2>5, <2>6, <2>7
<1>3. CASE DOMAIN entries' = {} /\ slots' = <<>>
  BY <1>0, <1>3, FS_EmptySet DEF Small, EntriesAreIndexed
<1>4. ASSUME NEW s \in snapshot, entries' = s.entries,
             slots' \in Listings(DOMAIN s.entries)
      PROVE  Small(entries') /\ slots' \in Seq(Key) /\ EntriesAreIndexed'
  <2>1. Small(s.entries) /\ DOMAIN s.entries \subseteq Key
    BY DEF SlotInv, CacheInv, SnapshotValid, Valid
  <2>2. Cardinality(DOMAIN s.entries) \in Nat
    BY <2>1, FS_CardinalityType DEF Small
  <2>3. slots' \in Seq(Key)
    BY <1>4, <2>1, <2>2 DEF Listings
  <2> QED
    BY <1>4, <2>1, <2>3 DEF Listings, EntriesAreIndexed, Small
<1> QED
  BY <1>1, <1>2, <1>3, <1>4 DEF Reshaped

\* Thresholds stay between the least and the greatest.
LEMMA RadiiStayInRange ==
    ASSUME SlotInv, [CacheNext]_cacheVars
    PROVE  radius' \in Radii
<1>0. /\ radius \in Radii /\ LastTypeOK
      /\ MinRadius \in Nat /\ MaxRadius \in Nat /\ InitialRadius \in MinRadius .. MaxRadius
  BY Bounds DEF SlotInv
<1>1. ASSUME radius' = radius
      PROVE  radius' \in Radii
  BY <1>0, <1>1
<1>2. ASSUME EmptyCache
      PROVE  radius' \in Radii
  BY <1>0, <1>2 DEF EmptyCache, Radii
<1>3. ASSUME NEW ids, NEW success, Feedback(ids, success)
      PROVE  radius' \in Radii
  <2>1. \A r \in MinRadius .. MaxRadius : Adapted(r, success) \in MinRadius .. MaxRadius
    BY <1>0 DEF Adapted
  <2>2. CASE \E k : radius' = [radius EXCEPT ![ClusterOf[k.query]] =
                                  Adapted(@, success)]
    BY <1>0, <2>1, <2>2 DEF Radii
  <2>3. radius' = radius \/ \E k : radius' = [radius EXCEPT ![ClusterOf[k.query]] =
                                                Adapted(@, success)]
    BY <1>3 DEF Feedback, Rate
  <2> QED
    BY <1>1, <2>2, <2>3
<1>4. ASSUME NEW fresh, ImportState(fresh)
      PROVE  radius' \in Radii
  BY <1>4 DEF ImportState, SlotInv
<1> QED
  BY <1>1, <1>2, <1>3, <1>4 DEF CacheNext, cacheVars, Ingest, IngestDuplicate, IngestStub,
     BatchIngest, AdvanceTurn, ClearCache, OptimizeExactHit, OptimizeSemanticHit, Hit,
     Optimize, Explore, OptimizeWithoutQuery, Answered, ExportState

\* What the engine remembers of its last answer stays typed.
LEMMA LastStaysTyped ==
    ASSUME SlotInv, [CacheNext]_cacheVars
    PROVE  LastTypeOK'
<1>1. ASSUME last' = last
      PROVE  LastTypeOK'
  BY <1>1 DEF SlotInv, LastTypeOK
<1>2. ASSUME NEW kind, NEW q \in Queries, NEW b \in Budgets, NEW k, Hit(kind, q, b, k)
      PROVE  LastTypeOK'
  BY <1>2 DEF Hit, LastTypeOK
<1>3. ASSUME NEW q \in Queries, NEW b \in Budgets, NEW S, NEW swapped, Answered(q, b, S, swapped)
      PROVE  LastTypeOK'
  BY <1>3, Zenon DEF Answered, LastTypeOK
<1>4. ASSUME NEW b \in Budgets, NEW S, NEW swapped \in BOOLEAN, Answered(NoQuery, b, S, swapped)
      PROVE  LastTypeOK'
  BY <1>4 DEF Answered, LastTypeOK
<1>5. ASSUME NEW q \in Queries, NEW b \in Budgets, OptimizeExactHit(q, b) \/ OptimizeSemanticHit(q, b)
      PROVE  LastTypeOK'
  BY <1>2, <1>5 DEF OptimizeExactHit, OptimizeSemanticHit
<1>6. ASSUME NEW q \in Queries, NEW b \in Budgets, NEW x, Optimize(q, b, x)
      PROVE  LastTypeOK'
  BY <1>3, <1>6 DEF Optimize
<1>7. ASSUME NEW q \in Queries \cup {NoQuery}, NEW b \in Budgets, Explore(q, b)
      PROVE  LastTypeOK'
  BY <1>3, <1>4, <1>7 DEF Explore
<1>8. ASSUME NEW b \in Budgets, OptimizeWithoutQuery(b)
      PROVE  LastTypeOK'
  BY <1>4, <1>8 DEF OptimizeWithoutQuery
<1>9. ASSUME NEW fresh, ImportState(fresh)
      PROVE  LastTypeOK'
  BY <1>1, <1>9 DEF ImportState, None, LastTypeOK
<1> QED
  BY <1>1, <1>5, <1>6, <1>7, <1>8, <1>9 DEF CacheNext, cacheVars, Ingest, IngestDuplicate,
     IngestStub, BatchIngest, AdvanceTurn, ClearCache, Feedback, ExportState

LEMMA SlotStep == CacheInv /\ SlotInv /\ [CacheNext]_cacheVars => SlotInv'
<1> SUFFICES ASSUME CacheInv, SlotInv, [CacheNext]_cacheVars
             PROVE  SlotInv'
  OBVIOUS
<1>1. Small(entries') /\ slots' \in Seq(Key) /\ EntriesAreIndexed'
  BY EveryStepReshapes, ReshapedStaysIndexed
<1>2. radius' \in Radii /\ LastTypeOK'
  BY RadiiStayInRange, LastStaysTyped
<1>3. feedbacks' \in 0 .. MaxFeedback
  <2>1. feedbacks' = feedbacks \/ (feedbacks < MaxFeedback /\ feedbacks' = feedbacks + 1)
    BY DEF CacheNext, cacheVars, Ingest, IngestDuplicate, IngestStub, BatchIngest,
       AdvanceTurn, ClearCache, OptimizeExactHit, OptimizeSemanticHit, Hit, Optimize,
       Explore, OptimizeWithoutQuery, Answered, Feedback, ExportState, ImportState
  <2> QED
    BY <2>1, Bounds DEF SlotInv
<1>4. \A s \in snapshot' : Small(s.entries) /\ s.radius \in Radii
  <2>1. CASE snapshot' = snapshot
    BY <2>1 DEF SlotInv
  <2>2. CASE ExportState
    BY <2>2 DEF ExportState, SlotInv
  <2>3. snapshot' = snapshot \/ ExportState
    BY DEF CacheNext, cacheVars, Ingest, IngestDuplicate, IngestStub, BatchIngest,
       AdvanceTurn, ClearCache, OptimizeExactHit, OptimizeSemanticHit, Hit, Optimize,
       Explore, OptimizeWithoutQuery, Answered, Feedback, ImportState
  <2> QED
    BY <2>1, <2>2, <2>3
<1> QED
  BY <1>1, <1>2, <1>3, <1>4 DEF SlotInv

LEMMA SlotsAreKept == CacheSpec => []SlotInv
<1>1. CacheInit => SlotInv
  <2> SUFFICES ASSUME CacheInit
               PROVE  SlotInv
    OBVIOUS
  <2>1. DOMAIN entries = {} /\ slots = <<>> /\ snapshot = {} /\ feedbacks = 0
    BY DEF CacheInit, NoEntries
  <2>2. Small(entries)
    BY <2>1, Bounds, FS_EmptySet DEF Small
  <2>3. radius \in Radii
    BY Bounds DEF CacheInit, Radii
  <2>4. LastTypeOK
    BY DEF CacheInit, None, LastTypeOK
  <2> QED
    BY <2>1, <2>2, <2>3, <2>4, Bounds DEF SlotInv, EntriesAreIndexed
<1> QED
  BY <1>1, SlotStep, CacheIsValid, PTL DEF CacheSpec

\* The cache keeps its types and its cap, with any number of queries.
THEOREM CacheStaysTyped == CacheSpec => []CacheTypeOK
<1>1. CacheInv /\ SlotInv => CacheTypeOK
  BY DEF CacheInv, Valid, SlotInv, Small, LastTypeOK, Radii, CacheTypeOK, IsCacheMap
<1> QED
  BY <1>1, CacheIsValid, SlotsAreKept, PTL

\* Every entry keeps a slot, so that similar queries can find it, through
\* evictions, collections, clearings and imports.
THEOREM EntriesStayIndexed == CacheSpec => []EntriesAreIndexed
<1>1. SlotInv => EntriesAreIndexed
  BY DEF SlotInv
<1> QED
  BY <1>1, SlotsAreKept, PTL
=============================================================================
