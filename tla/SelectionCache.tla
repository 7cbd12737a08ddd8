---------------------------- MODULE SelectionCache ----------------------------
(***************************************************************************)
(* The cache of optimize's selections (EgscCache, entroly-core/src/cache.rs) *)
(* and the parts of the engine that use it (entroly-core/src/lib.rs):      *)
(* optimize looks a selection up before it computes one, ingest and        *)
(* advance_turn wear entries out, and feedback on an answer is routed to   *)
(* the entry it came from.                                                 *)
(*                                                                         *)
(* An entry's key stands for the hash of the query, of all fragment ids    *)
(* there are, and of the budget.  A selection is the set of its fragments. *)
(* In what form each is sent and what that costs is left out: a hit counts *)
(* the skeletons and beliefs there are by then, so that it may cost more   *)
(* than the selection did, or than the budget.  The store is the set of    *)
(* its ids.                                                                *)
(*                                                                         *)
(* The admission gates, the frequency sketch and the eviction's values     *)
(* only decide whether a selection is stored and which entry makes room:   *)
(* both choices are free.                                                  *)
(***************************************************************************)
EXTENDS Integers, Sequences, FiniteSets, Functions

CONSTANTS
    Queries,      (* queries other than the empty one                      *)
    NoQuery,      (* the empty query                                       *)
    Clusters,     (* values of the high bits of a query's fingerprint      *)
    ClusterOf,    (* the cluster of a query                                *)
    Dist,         (* Hamming distance of two queries' fingerprints         *)
    Budgets,      (* effective budgets                                     *)
    MinJaccard,   (* min_jaccard, in percent                               *)
    MinRadius,    (* 2, the least adaptive threshold                       *)
    InitialRadius,(* initial_hamming_threshold                             *)
    MaxRadius,    (* 12, the greatest adaptive threshold                   *)
    MaxEntries,   (* max_entries                                           *)
    MaxSlots,     (* bound on slot_to_hash                                 *)
    MaxIds,       (* bound on the ids handed out                           *)
    MaxFeedback   (* bound on the feedback calls                           *)

FragIds == 1 .. MaxIds

ASSUME CacheAssumption ==
    /\ NoQuery \notin Queries
    /\ ClusterOf \in [Queries -> Clusters]
    /\ Dist \in [Queries \X Queries -> Nat]
    /\ \A q \in Queries : Dist[q, q] = 0
    /\ {MinJaccard, MinRadius, InitialRadius, MaxRadius,
        MaxSlots, MaxIds, MaxFeedback} \subseteq Nat
    /\ MinRadius <= InitialRadius /\ InitialRadius <= MaxRadius
    /\ MaxEntries \in Nat \ {0}

VARIABLES
    live,       (* ids of the fragments in the store                       *)
    idCounter,  (* the last id handed out                                  *)
    entries,    (* key -> entry                                            *)
    slots,      (* slot_to_hash; the semantic index has every slot         *)
    radius,     (* adaptive_thresholds                                     *)
    last,       (* last_query, last_effective_budget, last_cache_feedback_ *)
                (* eligible, and the answer the caller got                 *)
    feedbacks,  (* number of feedback calls                                *)
    snapshot    (* the last exported state, as a set of at most one        *)

cacheVars == <<live, idCounter, entries, slots, radius, last, feedbacks, snapshot>>
-----------------------------------------------------------------------------
Key == [query : Queries, frags : SUBSET FragIds, budget : Budgets]

\* A fault: the key of a selection leaves the fragments out.
KeyWithoutFragments(q, frags, b) == [query |-> q, frags |-> {}, budget |-> b]

KeyOf(q, frags, b) == [query |-> q, frags |-> frags, budget |-> b]

Entry == [selected : SUBSET FragIds, budget : Budgets, good : Nat, bad : Nat, worn : BOOLEAN]

\* A selection for a budget as it is first stored, rated by nobody.
NewEntry(S, b) == [selected |-> S, budget |-> b, good |-> 0, bad |-> 0, worn |-> FALSE]

NoEntries == [k \in {} |-> NewEntry({}, 0)]

(***************************************************************************)
(* wilson_score >= 0.15: the 95% lower bound of a proportion is at least   *)
(* 0.15 just when (p - 0.15)^2 >= 1.96^2 * 0.15 * 0.85 / n and p >= 0.15.  *)
(***************************************************************************)
Trusted(good, bad) ==
    LET n == good + bad
    IN  \/ n = 0
        \/ /\ 100 * good >= 15 * n
           /\ 100 * (100 * good - 15 * n) * (100 * good - 15 * n) >= 489804 * n

\* quality_score >= 0.15.
AboveFloor(e) == ~e.worn /\ Trusted(e.good, e.bad)

\* jaccard >= min_jaccard.
Alike(S, T) == 100 * Cardinality(S \cap T) >= MinJaccard * Cardinality(S \cup T)

None == [query |-> NoQuery, budget |-> 0, eligible |-> FALSE, kind |-> "none",
         selected |-> {}, returned |-> {}, madeFor |-> 0]

CacheInit ==
    /\ live = {}
    /\ idCounter = 0
    /\ entries = NoEntries
    /\ slots = <<>>
    /\ radius = [c \in Clusters |-> InitialRadius]
    /\ last = None
    /\ feedbacks = 0
    /\ snapshot = {}
-----------------------------------------------------------------------------
(***************************************************************************)
(* The store changes.  invalidate_weighted multiplies the quality of the   *)
(* entries that hold a stale fragment: those may now be below the floor.   *)
(***************************************************************************)
Touched(stale) == {k \in DOMAIN entries : k.frags \cap stale # {}}

Ingest(stale) ==
    /\ idCounter < MaxIds
    /\ idCounter' = idCounter + 1
    /\ live' = live \cup {idCounter'}
    /\ \E hit \in SUBSET Touched(stale \cup {idCounter'}) :
         entries' = [k \in DOMAIN entries |->
                        [entries[k] EXCEPT !.worn = @ \/ k \in hit]]
    /\ UNCHANGED <<slots, radius, last, feedbacks, snapshot>>

\* A duplicate uses an id up and changes nothing else that is modelled here.
IngestDuplicate ==
    /\ idCounter < MaxIds /\ live # {}
    /\ idCounter' = idCounter + 1
    /\ UNCHANGED <<live, entries, slots, radius, last, feedbacks, snapshot>>

\* Stubs come without any invalidation.
IngestStub ==
    /\ idCounter < MaxIds
    /\ idCounter' = idCounter + 1
    /\ live' = live \cup {idCounter'}
    /\ UNCHANGED <<entries, slots, radius, last, feedbacks, snapshot>>

EmptyCache ==
    /\ entries' = NoEntries
    /\ slots' = <<>>
    /\ radius' = [c \in Clusters |-> InitialRadius]

\* A batch of n items takes at most one stub out for each, adds those that are
\* no duplicates, and clears a cache that has entries.
BatchIngest(gone, n) ==
    /\ idCounter + n <= MaxIds /\ Cardinality(gone) <= n
    /\ idCounter' = idCounter + n
    /\ \E new \in SUBSET (idCounter + 1 .. idCounter') : live' = (live \ gone) \cup new
    /\ IF entries = NoEntries THEN UNCHANGED <<entries, slots, radius>> ELSE EmptyCache
    /\ UNCHANGED <<last, feedbacks, snapshot>>

\* What gc keeps.
Worthy == {k \in DOMAIN entries : AboveFloor(entries[k])}

\* A fault: the turn does not collect what fell below the floor.
UncollectedTurn(left) ==
    /\ live' = left
    /\ UNCHANGED <<entries, idCounter, slots, radius, last, feedbacks, snapshot>>

\* Decay, consolidation, and gc of what fell below the floor.
AdvanceTurn(left) ==
    /\ live' = left
    /\ entries' = Restrict(entries, Worthy)
    /\ UNCHANGED <<idCounter, slots, radius, last, feedbacks, snapshot>>

\* cache_clear.
ClearCache ==
    /\ EmptyCache
    /\ UNCHANGED <<live, idCounter, last, feedbacks, snapshot>>
-----------------------------------------------------------------------------
\* A fault: an entry answers for any budget.
SimilarForAnyBudget(q, b) ==
    {n \in DOMAIN slots :
        /\ slots[n] \in DOMAIN entries
        /\ Dist[q, slots[n].query] <= radius[ClusterOf[q]]
        /\ Alike(live, slots[n].frags)
        /\ AboveFloor(entries[slots[n]])}

\* The slots whose entry may answer a query it was not stored for.
Similar(q, b) ==
    {n \in DOMAIN slots :
        /\ slots[n] \in DOMAIN entries
        /\ Dist[q, slots[n].query] <= radius[ClusterOf[q]]
        /\ entries[slots[n]].budget = b
        /\ Alike(live, slots[n].frags)
        /\ AboveFloor(entries[slots[n]])}

(***************************************************************************)
(* The slots a probe of the semantic index may answer from: the least of   *)
(* those it finds.  It finds all that have the query's own fingerprint; a  *)
(* near one shares a bucket with it or not.                                *)
(***************************************************************************)
Probes(q, b) ==
    LET same == {n \in Similar(q, b) : Dist[q, slots[n].query] = 0}
    IN  {n \in Similar(q, b) : \A m \in same : n <= m}

\* What the caller gets for a cached selection: the fragments that still live.
Hit(kind, q, b, k) ==
    /\ last' = [query |-> q, budget |-> b, eligible |-> TRUE, kind |-> kind,
                selected |-> entries[k].selected,
                returned |-> entries[k].selected \cap live,
                madeFor |-> entries[k].budget]
    /\ UNCHANGED <<live, idCounter, entries, slots, radius, feedbacks, snapshot>>

OptimizeExactHit(q, b) ==
    LET k == KeyOf(q, live, b)
    IN  k \in DOMAIN entries /\ Hit("exact", q, b, k)

OptimizeSemanticHit(q, b) ==
    /\ KeyOf(q, live, b) \notin DOMAIN entries
    /\ \E n \in Probes(q, b) : Hit("semantic", q, b, slots[n])

\* The index finds nothing: no entry of the query's own fingerprint fits.
NothingCached(q, b) ==
    /\ KeyOf(q, live, b) \notin DOMAIN entries
    /\ \A n \in Similar(q, b) : Dist[q, slots[n].query] > 0

\* Which fragments fit a budget depends on the forms they are sent in.
Selections == SUBSET live

\* An exploration swaps one selected fragment for one that is not.
Swaps(S) == {(S \ {p[1]}) \cup {p[2]} : p \in S \X (live \ S)}

\* The admission gate turns a selection away.
Refused == UNCHANGED <<entries, slots>>

\* What goes to make room: one entry of a full cache, the one of least value.
Victims ==
    {out \in SUBSET DOMAIN entries :
        Cardinality(out) = (IF Cardinality(DOMAIN entries) >= MaxEntries THEN 1 ELSE 0)}

\* A fault: a full cache is noticed one entry late.
StoreLate(k, S) ==
    \/ UNCHANGED <<entries, slots>>
    \/ /\ k \notin DOMAIN entries /\ Len(slots) < MaxSlots
       /\ \E out \in SUBSET DOMAIN entries :
            /\ Cardinality(out) = (IF Cardinality(DOMAIN entries) > MaxEntries THEN 1 ELSE 0)
            /\ entries' = [j \in (DOMAIN entries \ out) \cup {k} |->
                              IF j = k THEN NewEntry(S, k.budget) ELSE entries[j]]
       /\ slots' = Append(slots, k)

\* store: what is there stays; a full cache evicts one entry or refuses.
Store(k, S) ==
    \/ Refused
    \/ /\ k \notin DOMAIN entries /\ Len(slots) < MaxSlots
       /\ \E out \in Victims :
            entries' = [j \in (DOMAIN entries \ out) \cup {k} |->
                            IF j = k THEN NewEntry(S, k.budget) ELSE entries[j]]
       /\ slots' = Append(slots, k)

\* The engine has computed a selection S, with or without a swap.
Answered(q, b, S, swapped) ==
    /\ last' = [query |-> q, budget |-> b, eligible |-> q # NoQuery /\ ~swapped,
                kind |-> "computed", selected |-> S, returned |-> S, madeFor |-> b]
    /\ UNCHANGED <<live, idCounter, radius, feedbacks, snapshot>>

\* The cache has nothing, or is passed over for an exploration that swaps none:
\* all is selected or pinned, or the fragment it picked is too long.
Optimize(q, b, explore) ==
    /\ explore \/ NothingCached(q, b)
    /\ \E S \in Selections :
         /\ Answered(q, b, S, FALSE)
         /\ Store(KeyOf(q, live, b), S)

\* An exploration passes the cache over, and its selection is not stored.
Explore(q, b) ==
    /\ \E S \in Selections : \E w \in Swaps(S) : Answered(q, b, w, TRUE)
    /\ UNCHANGED <<entries, slots>>

\* Without a query there is neither a lookup nor a store.
OptimizeWithoutQuery(b) ==
    /\ \E S \in Selections : Answered(NoQuery, b, S, FALSE)
    /\ UNCHANGED <<entries, slots>>
-----------------------------------------------------------------------------
\* adapt_threshold.
Adapted(r, success) ==
    IF success THEN (IF r < MaxRadius THEN r + 1 ELSE r)
               ELSE (IF r > MinRadius THEN r - 1 ELSE r)

\* record_feedback of the cache, for the entry the given ids lead to.
Rate(k, success) ==
    IF k \notin DOMAIN entries THEN UNCHANGED <<entries, radius>> ELSE
    LET c == ClusterOf[k.query]
    IN  /\ entries' = [entries EXCEPT
              ![k].good = IF success THEN @ + 1 ELSE @,
              ![k].bad  = IF success THEN @ ELSE @ + 1,
              ![k].worn = FALSE]
        /\ radius' = [radius EXCEPT ![c] = Adapted(@, success)]

\* record_success, record_failure and record_reward, for fragments of the
\* last answer.
Feedback(ids, success) ==
    /\ feedbacks < MaxFeedback
    /\ feedbacks' = feedbacks + 1
    /\ IF last.eligible THEN Rate(KeyOf(last.query, ids, last.budget), success)
                        ELSE UNCHANGED <<entries, radius>>
    /\ UNCHANGED <<live, idCounter, slots, last, snapshot>>

ExportState ==
    /\ snapshot' = {[live |-> live, idCounter |-> idCounter,
                     entries |-> entries, radius |-> radius]}
    /\ UNCHANGED <<live, idCounter, entries, slots, radius, last, feedbacks>>

\* The orders the exported entries can come in.
Listings(S) ==
    {l \in [1 .. Cardinality(S) -> S] : \A k \in S : \E n \in DOMAIN l : l[n] = k}

\* A fault: the semantic index is not rebuilt.
ImportWithoutIndex(fresh) ==
    /\ \E s \in snapshot :
         /\ live' = s.live /\ idCounter' = s.idCounter
         /\ entries' = s.entries /\ radius' = s.radius
         /\ slots' = <<>>
    /\ last' = IF fresh THEN None ELSE last
    /\ UNCHANGED <<feedbacks, snapshot>>

\* import_state, in place or in a process that has just started.
ImportState(fresh) ==
    /\ \E s \in snapshot :
         /\ live' = s.live /\ idCounter' = s.idCounter
         /\ entries' = s.entries /\ radius' = s.radius
         /\ slots' \in Listings(DOMAIN s.entries)
    /\ last' = IF fresh THEN None ELSE last
    /\ UNCHANGED <<feedbacks, snapshot>>

CacheNext ==
    \/ \E stale \in SUBSET live : Ingest(stale)
    \/ IngestDuplicate
    \/ IngestStub
    \/ \E gone \in SUBSET live, n \in 0 .. MaxIds : BatchIngest(gone, n)
    \/ \E left \in SUBSET live : AdvanceTurn(left)
    \/ ClearCache
    \/ \E q \in Queries, b \in Budgets : OptimizeExactHit(q, b)
    \/ \E q \in Queries, b \in Budgets : OptimizeSemanticHit(q, b)
    \/ \E q \in Queries, b \in Budgets, x \in BOOLEAN : Optimize(q, b, x)
    \/ \E q \in Queries \cup {NoQuery}, b \in Budgets : Explore(q, b)
    \/ \E b \in Budgets : OptimizeWithoutQuery(b)
    \/ \E ids \in SUBSET last.returned, s \in BOOLEAN : Feedback(ids, s)
    \/ ExportState
    \/ \E fresh \in BOOLEAN : ImportState(fresh)

CacheSpec == CacheInit /\ [][CacheNext]_cacheVars
-----------------------------------------------------------------------------
IsCacheMap(m) == DOMAIN m \subseteq Key /\ m \in [DOMAIN m -> Entry]

\* Type correctness; the cache respects its cap.
CacheTypeOK ==
    /\ live \subseteq 1 .. idCounter
    /\ idCounter \in 0 .. MaxIds
    /\ IsCacheMap(entries)
    /\ Cardinality(DOMAIN entries) <= MaxEntries
    /\ slots \in Seq(Key)
    /\ radius \in [Clusters -> MinRadius .. MaxRadius]
    /\ last.query \in Queries \cup {NoQuery}
    /\ last.budget \in Budgets \cup {0}
    /\ last.eligible => last.query \in Queries
    /\ last.returned \subseteq last.selected
    /\ feedbacks \in 0 .. MaxFeedback

\* Every entry can be found by a similar query, however many evictions,
\* collections, clearings and imports rearranged the slots.
EntriesAreIndexed == \A k \in DOMAIN entries : \E n \in DOMAIN slots : slots[n] = k

\* An entry is a selection of the fragments in its key, made for the budget in
\* its key.
EntriesFitTheirKey ==
    \A k \in DOMAIN entries : /\ entries[k].selected \subseteq k.frags
                              /\ entries[k].budget = k.budget

\* "Cached selections do not leak across budgets": whatever was evicted,
\* cleared, imported or put into other slots in between, either tier answers
\* only with a selection that was made for the budget of the request.
HitsKeepTheBudget == last.kind \in {"exact", "semantic"} => last.madeFor = last.budget

\* An exact hit returns the whole selection it reports: none of its fragments
\* has decayed, been consolidated or been replaced since it was stored.
ExactHitsAreComplete == last.kind = "exact" => last.returned = last.selected

\* "Score downgrade, NOT silent stale reuse": an entry that an ingest brought
\* below the floor is not answered from before it is collected or rated anew,
\* not even by an exact hit, which does not look at the quality.
NoStaleReuse ==
    [][\A k \in DOMAIN entries :
          entries[k].worn /\ last' # last /\ last'.kind = "exact"
             => k # KeyOf(last'.query, live, last'.budget)]_cacheVars
=============================================================================
