----------------------------- MODULE SkillRecipes -----------------------------
(***************************************************************************)
(* How the server learns from selections that went well, and replays them. *)
(*                                                                         *)
(* The crystallizer (reward_crystallizer.py) gathers the outcomes of       *)
(* optimize_context in clusters of like queries.  A cluster whose reward   *)
(* is beyond doubt becomes a promoted skill in the vault (skill_engine.py) *)
(* with the ids of the fragments it selected most: its recipe.  The router *)
(* of the fast path (fast_path.py) keeps the promoted skills it has loaded *)
(* until they expire, and answers a query on which one fires with what the *)
(* engine's own copy of the fragments has under the ids of the recipe.     *)
(* The tools of the server (server.py, cogops.rs) benchmark and promote    *)
(* skills behind the router's back.                                        *)
(*                                                                         *)
(* The tools run one at a time; a watcher thread ingests beside them.      *)
(* Queries stand for families of queries that gather in the same clusters. *)
(* Of the store there is what decides whether an id is held: unpinned      *)
(* fragments, which leave when they have not been selected for a while.    *)
(***************************************************************************)
EXTENDS Integers, FiniteSets, SequencesExt

CONSTANTS
    Queries,      (* families of queries                                   *)
    Fires,        (* <<p, q>>: the skills of p have a term that is in q    *)
    Bounds,       (* tenths: the fitness of a crystallized skill           *)
    Grades,       (* tenths: the fitness a benchmark can find              *)
    PromoteAt,    (* PROMOTION_THRESHOLD                                   *)
    PruneAt,      (* PRUNE_THRESHOLD                                       *)
    MinSamples,   (* min_samples                                           *)
    Window,       (* window                                                *)
    Cooldown,     (* cooldown                                              *)
    TopK,         (* the fragments of a recipe                             *)
    MaxClusters,  (* max_clusters                                          *)
    AgeLimit,     (* turns without access until recency < min_relevance    *)
    MaxIds,       (* bound on the fragments of one process                 *)
    MaxSkills     (* bound on the skills in the vault                      *)

ASSUME RecipesAssumption ==
    /\ Fires \subseteq Queries \X Queries
    /\ Bounds \cup Grades \subseteq 0 .. 10
    /\ PruneAt < PromoteAt
    /\ {MinSamples, Window, Cooldown, TopK, MaxClusters} \subseteq Nat \ {0}
    /\ MinSamples <= Window
    /\ {AgeLimit, MaxIds, MaxSkills} \subseteq Nat

VARIABLES
    age,        (* fragment id -> turns since it was last accessed         *)
    idCounter,  (* id_counter                                              *)
    ingesting,  (* the watcher is between the two steps of an ingest       *)
    snapshot,   (* the ids in _fragment_cache                              *)
    dirty,      (* _fragment_cache_dirty                                   *)
    clusters,   (* _clusters, the one observed last at the end             *)
    skills,     (* evolution/skills, in the order they were written        *)
    touched,    (* history: the skills promote_skill has been called on     *)
    loaded      (* the entries of the router's cache                       *)

storeVars  == <<age, idCounter, ingesting>>
copyVars   == <<snapshot, dirty>>
vaultVars  == <<skills, touched>>
recipeVars == <<storeVars, copyVars, vaultVars, clusters, loaded>>
-----------------------------------------------------------------------------
Ids == 1 .. MaxIds

\* An outcome is the set of selected ids; rest counts the observations until
\* the cluster may crystallize again.
Cluster == [query : Queries, window : Seq(SUBSET Ids), rest : 0 .. Cooldown]

Skill == [query : Queries, recipe : Seq(Ids), fitness : 0 .. 10,
          status : {"draft", "testing", "promoted", "pruned"}]

Entry == [skill : 1 .. MaxSkills, query : Queries, recipe : Seq(Ids), fitness : 0 .. 10]

RecipesInit ==
    /\ age = <<>> /\ idCounter = 0 /\ ingesting = FALSE
    /\ snapshot = {} /\ dirty = TRUE
    /\ clusters = <<>>
    /\ skills = <<>> /\ touched = {}
    /\ loaded = {}
-----------------------------------------------------------------------------
(***************************************************************************)
(* ingest_fragment marks the copy as outdated, then asks the engine, which *)
(* stores the content, finds it a duplicate or turns it away for its cap.  *)
(* When it is the watcher that ingests, tools can run between the two.     *)
(***************************************************************************)
MarkIngest ==
    /\ ~ingesting
    /\ ingesting' = TRUE
    /\ dirty' = TRUE
    /\ UNCHANGED <<age, idCounter, snapshot, vaultVars, clusters, loaded>>

Touch(ages, S) == [i \in DOMAIN ages \cup S |-> IF i \in S THEN 0 ELSE ages[i]]

FinishIngest ==
    /\ ingesting
    /\ ingesting' = FALSE
    /\ \/ /\ idCounter < MaxIds
          /\ idCounter' = idCounter + 1
          /\ \E i \in DOMAIN age \cup {idCounter'} : age' = Touch(age, {i})
       \/ UNCHANGED <<age, idCounter>>
    /\ UNCHANGED <<copyVars, vaultVars, clusters, loaded>>

\* advance_turn, with which every optimize_context begins.
Aged == [i \in {j \in DOMAIN age : age[j] < AgeLimit} |-> age[i] + 1]
-----------------------------------------------------------------------------
EntryOf(s) == [skill   |-> s,
               query   |-> skills[s].query,
               recipe  |-> skills[s].recipe,
               fitness |-> skills[s].fitness]

\* A fault: the status of a skill is not looked at.
LoadEverything == {EntryOf(s) : s \in {s \in DOMAIN skills : skills[s].recipe # <<>>}}

\* _load_skills: the promoted skills whose tool has a recipe.
Loadable ==
    {EntryOf(s) : s \in {s \in DOMAIN skills : /\ skills[s].status = "promoted"
                                               /\ skills[s].recipe # <<>>}}

\* _get_skills: an empty cache is always read anew.
Known == IF loaded = {} THEN Loadable ELSE loaded

\* The fittest of the skills that fire, and any of them when they are equal.
Best(q) ==
    LET firing == {e \in Known : <<e.query, q>> \in Fires}
    IN  {e \in firing : \A f \in firing : f.fitness <= e.fitness}

\* What the engine looks ids up in: its copy, made anew if it is outdated.
Copy == IF dirty THEN DOMAIN Aged ELSE snapshot

(***************************************************************************)
(* _materialize_recipe walks the recipe.  It counts what the copy has and  *)
(* what it has not, and breaks off at an entry beyond the budget, counted  *)
(* already, once there is something to serve.                              *)
(***************************************************************************)
Walks(recipe) ==
    LET had(n)        == {k \in 1 .. n : recipe[k] \in Copy}
        walk(n, upTo) == [served  |-> {recipe[k] : k \in had(upTo)},
                          present |-> Cardinality(had(n)),
                          missing |-> n - Cardinality(had(n))]
    IN  {walk(Len(recipe), Len(recipe))} \cup
        {walk(n, n - 1) : n \in {m \in DOMAIN recipe : m \in had(m) /\ had(m - 1) # {}}}

\* More than half missing is too stale to replay.
Stale(walk) == walk.missing > walk.present

\* A lookup leaves the copy as it used it.
LookedUp == snapshot' = Copy /\ dirty' = FALSE

(***************************************************************************)
(* try_match serves the recipe of the best skill.  Nothing is marked as    *)
(* accessed, and nothing is observed.                                      *)
(***************************************************************************)
Replay(q) ==
    /\ \E e \in Best(q) : \E walk \in Walks(e.recipe) :
         ~Stale(walk)
    /\ LookedUp
    /\ loaded' = Known
    /\ age' = Aged
    /\ UNCHANGED <<idCounter, ingesting, clusters, vaultVars>>

\* Nothing to replay: no skill fires, or the best is stale, whatever the next.
FallThrough(q) ==
    \/ Best(q) = {} /\ UNCHANGED copyVars
    \/ /\ \E e \in Best(q) : \E walk \in Walks(e.recipe) : Stale(walk)
       /\ LookedUp
-----------------------------------------------------------------------------
\* How often a window selects an id.
Count(w, i) == Cardinality({n \in DOMAIN w : i \in w[n]})

\* _top_fragments: the most selected, those selected more often first.
Recipes(w) ==
    LET chosen == UNION Range(w)
        n      == IF Cardinality(chosen) < TopK THEN Cardinality(chosen) ELSE TopK
    IN  {r \in [1 .. n -> chosen] :
            /\ \A j, k \in 1 .. n : j < k => r[j] # r[k] /\ Count(w, r[j]) >= Count(w, r[k])
            /\ \A i \in chosen \ Range(r), k \in 1 .. n : Count(w, r[k]) >= Count(w, i)}

\* A fault: the window may be one outcome too long.
SlideLate(w, S) == IF Len(w) > Window THEN Append(Tail(w), S) ELSE Append(w, S)

\* The window of a cluster that observes one more outcome.
Slide(w, S) == IF Len(w) = Window THEN Append(Tail(w), S) ELSE Append(w, S)

(***************************************************************************)
(* _find_or_create_cluster and observe: the outcome joins a cluster of its *)
(* family, whichever its fragments are like, or begins a new one, for      *)
(* which the cluster that was observed least recently makes room.          *)
(***************************************************************************)
Observed(q, S) ==
    LET joined(c) == [c EXCEPT !.window = Slide(@, S),
                               !.rest   = IF @ = 0 THEN 0 ELSE @ - 1]
        room      == IF Len(clusters) = MaxClusters THEN Tail(clusters) ELSE clusters
    IN  {Append(RemoveAt(clusters, n), joined(clusters[n])) :
            n \in {n \in DOMAIN clusters : clusters[n].query = q}} \cup
        {Append(room, [query |-> q, window |-> <<S>>, rest |-> 0])}

\* Whether the cluster just observed may crystallize; rewards decide if it does.
Ripe(c) == Len(c.window) >= MinSamples /\ c.rest = 0

(***************************************************************************)
(* crystallize_skill writes the page, the tool with the recipe and the     *)
(* metrics, in this order.  An error in between is swallowed by the        *)
(* callback, and what was written stays.                                   *)
(***************************************************************************)
Pages(c) ==
    LET skill(r, f) == [query |-> c.query, recipe |-> r, fitness |-> f, status |-> "promoted"]
    IN  {skill(r, f) : r \in Recipes(c.window), f \in Bounds \cup {0}} \cup {skill(<<>>, 0)}

\* A fault: the router keeps what it has loaded.
InvalidateNothing == loaded' = Known

\* invalidate_cache, with which the callback ends whatever was written.
InvalidateCache == loaded' = {}

\* _maybe_crystallize and the callback.
Crystallize(cs) ==
    LET n == Len(cs)
    IN  /\ Ripe(cs[n])
        /\ clusters' = [cs EXCEPT ![n].rest = Cooldown]
        /\ \/ UNCHANGED skills
           \/ /\ Len(skills) < MaxSkills
              /\ \E s \in Pages(cs[n]) : skills' = Append(skills, s)
        /\ InvalidateCache

(***************************************************************************)
(* optimize_context when nothing is replayed.  The engine computes a       *)
(* selection, which marks it as accessed, or has it in its cache, which    *)
(* does not.  The crystallizer observes what was selected.                 *)
(***************************************************************************)
Compute(q) ==
    /\ FallThrough(q)
    /\ \E S \in SUBSET DOMAIN Aged :
         /\ age' = Aged \/ age' = Touch(Aged, S)
         /\ \E cs \in Observed(q, S) :
              \/ clusters' = cs /\ loaded' = Known /\ UNCHANGED skills
              \/ Crystallize(cs)
    /\ UNCHANGED <<idCounter, ingesting, touched>>

\* Without a query nothing is replayed and nothing is observed.
ComputeUnasked ==
    /\ \E S \in SUBSET DOMAIN Aged : age' = Touch(Aged, S)
    /\ UNCHANGED <<idCounter, ingesting, copyVars, vaultVars, clusters, loaded>>
-----------------------------------------------------------------------------
\* create_skill: a draft whose tool has no recipe.
CreateSkill(q) ==
    /\ Len(skills) < MaxSkills
    /\ skills' = Append(skills, [query |-> q, recipe |-> <<>>, fitness |-> 0, status |-> "draft"])
    /\ UNCHANGED <<storeVars, copyVars, touched, clusters, loaded>>

\* benchmark_skill: the share of its cases that a skill passes.
BenchmarkSkill(s) ==
    /\ \E g \in Grades : skills' = [skills EXCEPT ![s].fitness = g]
    /\ UNCHANGED <<storeVars, copyVars, touched, clusters, loaded>>

\* promote_skill: the verdict follows the fitness, whatever the status was.
PromoteSkill(s) ==
    /\ skills' = [skills EXCEPT ![s].status =
                    IF skills[s].fitness >= PromoteAt    THEN "promoted"
                    ELSE IF skills[s].fitness <= PruneAt THEN "pruned"
                    ELSE "testing"]
    /\ touched' = touched \cup {s}
    /\ UNCHANGED <<storeVars, copyVars, clusters, loaded>>

\* The time to live of the router's cache runs out.
ExpireRouter ==
    /\ loaded # {}
    /\ loaded' = {}
    /\ UNCHANGED <<storeVars, copyVars, vaultVars, clusters>>

\* The server ends and starts again, without an index or with one that it had
\* just saved.  The vault is left.
Restart ==
    /\ \/ age' = <<>> /\ idCounter' = 0
       \/ UNCHANGED <<age, idCounter>>
    /\ ingesting' = FALSE
    /\ snapshot' = {} /\ dirty' = TRUE
    /\ clusters' = <<>>
    /\ loaded' = {}
    /\ UNCHANGED vaultVars

RecipesNext ==
    \/ MarkIngest
    \/ FinishIngest
    \/ \E q \in Queries : Replay(q) \/ Compute(q) \/ CreateSkill(q)
    \/ ComputeUnasked
    \/ \E s \in DOMAIN skills : BenchmarkSkill(s) \/ PromoteSkill(s)
    \/ ExpireRouter
    \/ Restart

\* Time passes: a cache that was loaded once does not stay fresh for ever.
RecipesSpec == RecipesInit /\ [][RecipesNext]_recipeVars /\ WF_recipeVars(ExpireRouter)
-----------------------------------------------------------------------------
(* Every variable has its type.  The windows, the cooldown, the clusters   *)
(* and the recipes stay within their bounds (reward_crystallizer.py), and  *)
(* the router has no entry without a recipe (_load_skills).                *)
SkillsTypeOK ==
    /\ DOMAIN age \subseteq 1 .. idCounter /\ Range(age) \subseteq 0 .. AgeLimit
    /\ idCounter \in 0 .. MaxIds
    /\ {ingesting, dirty} \subseteq BOOLEAN
    /\ snapshot \subseteq 1 .. idCounter
    /\ clusters \in Seq(Cluster) /\ Len(clusters) <= MaxClusters
    /\ \A n \in DOMAIN clusters : Len(clusters[n].window) \in 1 .. Window
    /\ skills \in Seq(Skill) /\ Len(skills) <= MaxSkills
    /\ \A s \in DOMAIN skills : Len(skills[s].recipe) <= TopK
    /\ touched \subseteq DOMAIN skills
    /\ loaded \subseteq Entry
    /\ \A e \in loaded : e.skill \in DOMAIN skills /\ e.recipe # <<>>

(* A router that answers from what it has loaded knows every crystallized  *)
(* skill that has a recipe and that no tool has judged since: the next     *)
(* query can use it at once, without waiting for the time to live          *)
(* (invalidate_cache and the callback of create_mcp_server), also when     *)
(* some skills were written in part and others came after them.            *)
RouterKnowsTheCrystallized ==
    loaded # {} =>
        \A s \in DOMAIN skills \ touched :
            skills[s].status = "promoted" /\ skills[s].recipe # <<>> =>
                \E e \in loaded : e.skill = s /\ e.recipe = skills[s].recipe

(* A skill that a tool has pruned or put back to testing, and leaves so,   *)
(* is at some time no longer replayed, although promote_skill does not     *)
(* tell the router: its cache expires (_get_skills, the cache's time to    *)
(* live "for resilience to vault edits made out-of-band").                 *)
RetiredSkillsLeave ==
    \A s \in 1 .. MaxSkills :
        <>[](s \in DOMAIN skills /\ skills[s].status # "promoted") =>
            <>[](\A e \in loaded : e.skill # s)

(* What a query is answered with from a recipe, the engine holds after the *)
(* turn of that query: "Fragments referenced by the recipe may have been   *)
(* evicted, edited, or never loaded into this session. The router verifies *)
(* presence and falls through" (fast_path.py; _get_fragment looks them up).*)
ServedFragmentsAreHeld ==
    \A q \in Queries : \A e \in Best(q) : \A walk \in Walks(e.recipe) :
        ~Stale(walk) => walk.served \subseteq DOMAIN Aged
=============================================================================
