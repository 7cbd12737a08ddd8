# Entroly in TLA+

Entroly keeps the context of a coding agent: it ingests files and other
texts as *fragments*, selects those that fit a token budget for each query,
memoizes the selections, learns from feedback, and lets several agents talk
over an event bus.  The heart of it is a Rust engine (`entroly-core`) behind a
Python MCP server and HTTP proxy (`entroly`), with a WebAssembly copy of the
engine (`entroly-wasm`).

This directory holds TLA+ models of the engine's stateful core, of the way one
request spends its token budget, and of the workspace listener and the
checkpoint files beside the engine, and of the skills that the server learns
and replays; the TLC configurations that check them; and
proofs that TLAPS checks.  Paths below are
relative to the repository.

## 1. What there is, and what it promises

`PROJECT.json` lists every component, the ones that are not modelled too, and
under `hazards` what can go wrong in them that a test would hardly reach.  The
table gives the state, the operations, the hard parts and what makes each right.

| component | state | operations | what is hard | correct when |
|---|---|---|---|---|
| Fragment store, `entroly-core/src/lib.rs` | `fragments`, `fragment_slot_ids`, `id_counter`, `current_turn`, pins | `ingest`, `ingest_paths_stubs`, `batch_ingest`, `optimize`'s marks, `advance_turn`, `export_state`/`import_state`, `persist_index`/`load_index` | four structures change together along a dozen paths; restarts at any point; the cap is checked in three loops | the indexes say what the store holds; pins and the cap are respected; ids in use are not reused |
| Duplicate index, `dedup.rs` | fingerprint and content hash per id | `insert`, `remove`, `mark_recalled` | must follow each eviction | a text is a duplicate just when it is held |
| LSH index, `lsh.rs` | slot, fingerprint pairs | `insert`, `query`, `clear` | slots are positions in a list that every turn rebuilds | a held text is found by its own fingerprint, under its own id |
| Consolidation, `resonance.rs` | none (groups are computed) | `find_consolidation_groups` | walks a hash map; closeness is not transitive | a cluster keeps a representative; pinned fragments stay |
| Selection cache, `cache.rs` | `entries`, `slot_to_hash`, the semantic index, thresholds per cluster | `lookup`, `store`, `record_feedback`, `invalidate_weighted`, `gc`, `clear`, export, import | two tiers with different checks; entries age while the store changes | a cached answer was computed for this budget, from fragments that are still there |
| `optimize` and feedback routing, `lib.rs` | `last_*`, `prev_*` | `optimize`, `record_success`/`failure`/`reward` | feedback comes later, and refers to "the last answer" | feedback reaches the entry and the selection it is about |
| Cognitive bus, `cognitive_bus.rs` | subscribers with bounded heaps, ring of fingerprints, memory bridge | `subscribe`, `unsubscribe`, `publish`, `drain`, `drain_memory_bridge` | order of calls by several agents; overflow; re-subscription | at most once per agent; the least urgent of those that wait is lost, the most urgent comes first |
| Selection pipeline, `knapsack_sds.rs`, `knapsack.rs`, `channel.rs`, `lib.rs` | the locals of one `optimize` call | pins, `ios_select` or `knapsack_optimize`, extraction, exploration, trailing pass; guard, interleaving, calibration | seven passes share one count of tokens, and each leaves the next something to spend; three passes reorder the same list | the budget is kept; no fragment is there twice; nothing that fits is left out; contradictions are settled and definitions come first |
| Online learners, `prism.rs`, `causal.rs`, `query_persona.rs`, ... | weights | updates per feedback | floating point | bounds on weights |
| Dependency graph, `depgraph.rs`, `hierarchical.rs` | definers and exporters of symbols, links both ways | `auto_link`, `transitive_deps`, `reverse_deps`, `identify_cluster`, export, import | fragments leave the store, links stay; files come in any order | the links say what used what when it came; a search finds what is within its depth |
| Text analyses, `entropy.rs`, `bm25.rs`, ... | none | pure functions | | |
| MCP server, `entroly/server.py` | an engine, a checkpoint manager | tools, auto-checkpoint, warm start | start from a file of another format | what was exported is there after a restart |
| Checkpoints, `checkpoint.py`, `server.py` | checkpoint files, the index file, a count of calls | save, retention, `load_latest`, `_write_gzip_index` | several processes on one directory, two threads that save in each, stops between any two steps | a completed save is kept and found again; files can be read |
| Skills and fast path, `reward_crystallizer.py`, `skill_engine.py`, `fast_path.py`, `cogops.rs`, `server.py` | clusters of outcomes, skills in the vault, the router's cache, the engine's copy of the fragments | `observe`, `crystallize_skill`, `try_match`, `benchmark_skill`, `promote_skill` | three caches of what others change: the vault, the store, the list of skills; skills written in part | what is replayed is there; a new skill is known at once, a pruned one not for ever |
| Value tracker and evolution, `value_tracker.py`, `evolution_*.py` | savings, spends, gaps | record, spend | two processes on one file | never spends more than it may |
| Change listener, `change_listener.py`, `vault.py` | snapshot file, beliefs | `scan_once`, `start` | edits in the middle of a scan; stops between its steps; a limit per scan; deletions show only as a difference | the record vouches for no outdated belief; every change is eventually processed |
| Retrieval store, `ccr.py` | LRU of originals | `store`, `retrieve` | eviction | an original handed out can be retrieved |
| Autotuner, `autotune.py` | journal, weights | log, load, prune, dream | two processes | no episode is lost |
| Vault, proxy, Python bridges, daemon, federation, RAVS, Python fallbacks, WebAssembly port | see `PROJECT.json` | | | |

How they interact.  The server calls the engine in-process: the Rust
`EntrolyEngine` is a `pyclass` whose methods take `&mut self`, so no two of its
calls run together.  Within one process the engine is therefore sequential; what
makes it hard is the *order* of calls by many clients, restarts, the order in
which hash maps are listed, and structures that must stay in step over long
histories.  What the server does around these calls is not sequential: a watcher
thread ingests changed files (`auto_index.py:651`), and saves when the interval
is reached, beside the thread that runs the tools.  `ingest`, `batch_ingest` and `advance_turn` write to the cache
(weaken, clear, collect); `optimize` reads the store and the cache and writes
both; `record_*` write to the cache and to the causal graph, from what
`optimize` left in `last_*` and `prev_*`.  `ingest` links a new fragment and searches the links backwards for answers to
weaken; `optimize` follows them forwards for context.  The server exports the
engine's state after a number of ingests and at `checkpoint_state`, into the
index file and then into a checkpoint, and imports it at its start and at
`resume_state`.

Outside the engine there is real concurrency: users edit files while the
listener's thread scans them, two threads of a server save, several processes
share files (the listener's snapshot, the savings of the value tracker, the autotuner's journal, the
checkpoints), and any process may stop between two writes.

## 2. Modules

| module | models | about |
|---|---|---|
| `Mailboxes` | nothing in particular | abstract: mail waits, is delivered at most once or is lost |
| `CognitiveBus` | `cognitive_bus.rs` | the bus; implements `Mailboxes` |
| `ContentSet` | nothing in particular | abstract: a set of contents that says truthfully whether an offer is new, a duplicate or refused, and that can forget and restart |
| `FragmentStore` | `lib.rs`, `fragment.rs`, `dedup.rs`, `lsh.rs`, `resonance.rs` | the store with its two indexes; implements `ContentSet` |
| `SelectionCache` | `cache.rs`, `optimize` and the feedback calls of `lib.rs` | the cache with its two tiers, its clients in the engine |
| `DependencyGraph` | `depgraph.rs`, `ingest` of `lib.rs` | which links there are, and which answers an ingest weakens |
| `GraphSearch` | `transitive_deps`, `identify_cluster` | the searches as functions, against a reference definition |
| `Selection` | `ios_select`, `knapsack_optimize`, `channel_trailing_pass`, the passes of `optimize` between them | how one call spends its budget |
| `Arrangement` | `contradiction_guard`, `semantic_interleave`, `bookend_calibrate` of `channel.rs` | what is evicted from a selection, and the order of the rest |
| `Checkpoints` | `checkpoint.py`, the checkpoint tools, the watcher and the shutdown handler of `server.py` | processes and threads that share a directory |
| `SharedIndex` | `_write_gzip_index` of `server.py` | the one index file that all of them write |
| `SkillRecipes` | `reward_crystallizer.py`, `crystallize_skill`, `fast_path.py`, the fast path of `server.py`, the skill tools of `cogops.rs` | outcomes that become skills, and skills that answer queries |
| `ChangeListener` | `change_listener.py`, `mark_beliefs_stale_for_files` and `write_belief` of `vault.py`, `compile_file` of `belief_compiler.py` | scans, the recorded snapshot, and the beliefs that follow the files |
| `MC...` | | small instances: sets, closeness relations, costs, symmetries |
| `MCCore`, `MCKept`, `MCAnswers` | | several instances that share no state, for one run |
| `...Proofs` | | the theorems, see section 5 |

Every definition that models code has an entry in `PROJECT.json` under `map`,
with its lines.  Definitions whose comment begins "A fault" are not part of any
specification: each is a plausible bug in the definition it stands next to, and
is used to show that a property of a run can fail.

### 2.1 CognitiveBus

A subscriber's record is its set of types (none means all) and its queue.  A
queue is a *set* of events with priorities: the code keeps a binary heap, and
where priorities are equal it returns whichever the layout favours, so `TopOf`
and `CutDown` give every set the heap can produce.  The priority itself is a
product of five numeric models.  The model lets it be any member of
`Priorities`, and so has neither clock nor rate models nor task context.  An
event is flagged as a spike for a subscriber when its priority is far from the
mean of those scored before, on either side, and once there were `MinSamples`
(three) of these: the model counts them in `scored` and leaves the flag open
after that (`SpikeFlags`).  `Messages` says which pairs of a print and a salience
are published.

* `Subscribe` replaces the record, queue included (`insert` into the map).
* `Publish` is one call: duplicate check against the ring, ring push, counter,
  bridge, routing to every other subscriber, and for each of them score, cut and
  push, in that order.  A near duplicate changes only a
  statistic, so it is not a step.
* `Drain` and `DrainMemoryBridge` are the methods of those names.

`routed`, `received`, `salient` and `remembered` are history variables, which
the properties need and no guard reads.

### 2.2 FragmentStore

A *text* is a class of texts with equal normalised contents, and also stands
for its own SimHash; `Similar` says which are within the consolidation
threshold.  A stub's fingerprint is `NoPrint` (0 in the code).  A fragment keeps
the text, source, whether it is hydrated (`has_simhash`), its pin, and the turn
of its last access.  Decay is a formula of that age; the model has the age at
which it crosses `min_relevance` as `AgeLimit`.  An id is `f<counter>` or
`sh<counter>`: the instance part of an id is drawn from a counter that starts
anew in every process, so it is the same in each, and ids of an earlier life, or
of a peer, are written alike.

* `Ingest` and `IngestStub` are whole calls (`IngestStub` is one path of
  `ingest_paths_stubs`, whose loop carries nothing over).
* `batch_ingest` is `BatchBegin` (which collects the map from sources to stubs)
  and one `BatchItem` for each item, so that properties hold between the items
  too.  Nothing but a stop of the process can come between: the other actions
  require `batch = <<>>`, as the call holds the engine.
* `Access` is what `optimize` does to the store: it marks what it selected, and
  it sets and then resets the pins of the files whose path matches the query.
* `AdvanceTurn` is decay, the consolidation every `Period` turns of more than
  `Crowd` fragments, removal from the duplicate index, and the LSH rebuild.
  `Groups` are the groups that *some* order of the hash map yields, and
  `Consolidations` the survivors, with any member of a group as its winner.
* `ExportState` adds to `saved`, the exports that lie in checkpoints and index,
  of which older ones may go.  `ImportState` takes *any* of them: over a live
  store (a resume) or in the next process, in the middle of a batch too, the
  newest or an older one, one of this life or of an earlier one.  `StartAfresh`
  is a process that finds no index it can read and starts with nothing, although
  exports may be there.  What a peer exports is what an earlier life may have
  exported, as ids tell neither apart.

Scores, entropy, skeletons, beliefs and learned weights only rank fragments and
do not appear.

The server writes the output of `export_state` into the index file
(`server.py`, `_auto_checkpoint`); `load_index` refuses it for want of
`fragment_slot_ids`, and `_load_index_compat` falls back to `import_state`.  So
the warm start that is shipped is `ImportState`.  `persist_index` and
`load_index` remain public methods of the engine and are not modelled.

### 2.3 SelectionCache

The store is here the set `live` of its ids, which ingests, stubs, batches and
turns change as they do in `FragmentStore` as far as a set of ids can tell.  An
entry's key is the query, the set of *all* ids there are, and the budget: the
code hashes these three.  An entry keeps the selection, the successes and
failures it was rated with, and `worn`: whether `invalidate_weighted` has
brought the quality below what the ratings alone give (the code multiplies; the
model lets each affected entry wear out or not).  `Trusted` is the Wilson lower
bound against the floor of 0.15, by cross-multiplication.

* `OptimizeExactHit`, `OptimizeSemanticHit`, `Optimize`, `Explore` and
  `OptimizeWithoutQuery` are the five ways through `optimize`.  The random
  choice to explore, the admission gates, the frequency sketch and the
  eviction's values are free choices.  The selection is any set of fragments;
  what a budget allows is the business of `Selection`.  A budget is only ever
  compared with another one.
* `Hit` is what a caller gets from an entry: those of its fragments that still
  live.  In which form each is then sent, and what that costs,
  `rebuild_selected_list` decides from the skeletons and beliefs of the day
  (`lib.rs:5669`), which `set_belief` changes without a word to the cache.  A hit
  may therefore cost more than its selection did, and more than the budget; the
  model has no costs, and `HitsKeepTheBudget` says no more than that the selection
  was *computed for* the budget asked.
* `Probes` is the semantic tier: it certainly finds the query's own
  fingerprint, and perhaps a near one; the first slot that passes the checks
  answers.
* `Feedback` hashes the ids it is *given*, as the code does, and rates the
  entry under that key if there is one.
* `Ingest`, `BatchIngest`, `AdvanceTurn`, `ClearCache`: weaken, clear, collect.
  That an ingest may wear entries out is more than the code does:
  `DependencyGraph` has the closure that decides it, and the run `IngestWeakens`
  shows that it misses the answers it is meant for.
* `ExportState`, `ImportState`: slots are renumbered in some order.

### 2.4 ChangeListener

A *version* is what a file holds between two edits and stands for its
fingerprint too (modification time and size; every write gives a new one).
`disk` has the version of each file, `saved` those of the state file, `beliefs`
the file and version each belief was compiled from and whether its status is
stale.  A belief is kept under the *name* of its file, the stem of the path:
files of one name share a belief, and the last one compiled has it (so that of
the many `__init__.py` of a project one has a belief; `BeliefsCatchUp` says so).
Marking
goes by names too: a changed or deleted file marks every belief whose name
contains its own.

`scan` holds the step and the local variables of `scan_once`, which are lost
when the scan ends.  Its steps are those between which an edit makes a
difference:

* `Begin`, then `Fingerprint` for each file in some order (`Overlook` when a
  file cannot be read just now: it is left out of the snapshot, like one that
  is gone).  Loading the record goes with the comparison, as nothing else
  writes it.
* `Unchanged` is the early return; `Refresh` takes the first `MaxFiles` changed
  files and marks the beliefs about these and about all deleted files.
  `RefreshInPart` is the same when some of these beliefs cannot be read or
  written: each such error is swallowed (`vault.py:402`), and the scan goes on to
  compile and to record its snapshot.
* `Compile` reads the file *then*, and writes a fresh belief; `CompileFails` is a
  file that is gone, blank, without entities, or raises, or whose belief cannot be
  written (`change_listener.py:146`).
* `Save` records the snapshot of the beginning.
* `Abort` ends a scan between any two steps, `AbortMarking` in the middle of the
  marks, `TornSave` in the middle of the record, which then reads as empty.  The
  writing of one belief is one step.

The verification pass and the sync summary write other files.  C# sources and
assembly definitions, which can add files to a scan and are compiled together,
are not modelled; neither are several scans at a time, nor a belief file that is
cut off in the middle of its writing.  `missed`, `failed` and `unmarked` are
history variables: the versions that the limit left out, that could not be
compiled, and the beliefs that could not be marked.

### 2.5 DependencyGraph and GraphSearch

A content is known by the symbols it uses, defines and exports to other
languages; the extraction from text decides these sets and nothing else.
Outgoing and incoming edges are kept in step by the code and are one set of
links here.  `symbolTable` and `exported` are the two tables of the code:
whoever provides a symbol last has it.  `linked` is a history variable, the
content of each fragment that `auto_link` has seen; the links are stated in its
terms.

* `Ingest` is the whole of `ingest` as far as links go: an id, `AutoLink` in the
  code's order (look up, register, look up exporters), and the search backwards
  that feeds `invalidate_weighted`, three links deep.
* `BatchIngest` is one item of `batch_ingest`, which links nothing.
* `AdvanceTurn` takes fragments from the store and, like the code, leaves the
  graph alone.
* `Optimize` memoizes an answer from the whole store; `ExportState`,
  `ImportState` and `Restart` keep one export.

`GraphSearch` has the two breadth-first searches with their queue, and the sets
they should return.  `Pop` is one turn of the `while` loop.  The loop itself is
the recursive function in `Walked`: as many turns as there are ids, which
empties the queue (`WalkedIsExact` in the proofs), and a turn with an empty
queue changes nothing.

### 2.6 Selection

One request, from the scored fragments to the selection.  A `Request` is what
`optimize` finds: token counts, lower resolutions and their costs, pins, files
named by path, relevance, whether a skeleton is an estimate, the budget, and
which selector is on.  Scores decide an order in which fragments are tried, and
any order may be the one: a greedy pass keeps *some* set that cannot be extended
(`FilledFrom`).  Each pass of the code is an action or a group of them:

`PinPrecise` (pins of the call) → `Pin`, `FillWhole` or `TakeFull`/`TakeLower`,
`FillDone` (`ios_select`) → `Extract` → `Explore` → `MeasureGap`, `Trail`
(trailing pass); without `enable_ios`, `Knapsack` → `Explore` →
`Substitute` (skeletons) → the trailing pass.

The positive information factor and diversity floor, channel coding, and a
temperature above the point where `knapsack.rs` turns to dynamic programming
(the engine clamps it there) are assumed; the module's header says so.

### 2.7 Arrangement

From `final_indices` to `ordered_indices`.  What contradicts what is a
relation; relevance and importance are ranks.  `Scan` is the inner loop of
`contradiction_guard`, a pair at a time, with its early exit.  `Round` is one
round of Kahn's sort.  `SemanticInterleave`, `Bookend` and `PreciseFirst` are
the three passes that reorder.  Each is stated by the order it leaves (`Ordered`,
`Calibrated`): the code sorts by level and then by weight or places the heaviest
of a level at its ends, and fragments that compare equal may come out either way.
Links lead from later fragments to earlier ones, so there are no cycles of
definitions: `ArrangementAssumption` says so in terms of `Number`, the counter's
value in an id, and `LinksLeadBack` proves it of the dependency graph.
`LevelOf` has the code's answer for cycles all the same.

### 2.8 Checkpoints and SharedIndex

Processes with an instance id each, in one directory, and in each process up to
two threads that save: the one that runs the tools, and the watcher, which
ingests changed files (`auto_index.py:638`).  Nothing in the server orders the
two.  A checkpoint is its owner, its name and its modification time.  The clock
is taken to go forward; the time of a checkpoint is that of its temporary
file, so the order of the renames need not be that of the times.  The name is
the instance's count of checkpoints and the second (`checkpoint.py:335`): saves
that overlap form the same name when they fall in the same second.  A process
takes longer than a second to come up again; so the count, which starts anew,
and the second together never repeat a name of an earlier life, and the model
lets the count go on instead.

* `StartWatcher` may come or not: the server catches that it fails.
* `IngestFragment` counts, and the one that reaches the interval makes its thread
  save; `SaveNow` is the tool; `Interrupt` is the handler of SIGTERM, which stops
  the main thread wherever it is in a call and saves once more.
* `NameCheckpoint`, `WriteCheckpoint`, `ReplaceCheckpoint`, `ListOwn`, `SortOwn`
  and `Unlink` are `save` and the retention after it, a step for each touch of
  what others see.  `Refuse` is a full disk or a failed write, after which the
  count stays due; `FailToSort` is a listed file that is gone when its time is
  asked for.  The two threads' increments of a count are taken as atomic.
* `List`, `Sort`, `Skip`, `Resume` are `load_latest`; peers, and the process's own
  watcher, save and prune in between.
* `Crash` may come anywhere.  An instance id can come back (a container's
  process 1), and its checkpoints are then its own again.

The file lock of `save` does not block, and its failure is ignored, so it orders
nothing.  Temporary checkpoints have unique names and no reader.

`latest`, `mixed` and `since` are history variables.  `latest` is what the last
save of an instance is known to have left: when saves of one process overlap it
is not known, because either may take the other's name, come to light in the
reverse order of their times, or be pruned by the other.  Two that share a name
leave one file, so that fewer than "the last `max_checkpoints`" are kept
(`checkpoint.py:255`).  What the two properties promise is therefore
limited to saves that overlap no other one of their own process.  A peer's saves
may overlap as they like.

`SharedIndex` is the index file, which is written before each checkpoint by the
tools, the watcher and the handler of every process: open, write and rename on
*one* temporary name.  A writer whose file has been renamed by another goes on
writing the renamed file, as the operating system has it: `handle` says where.
One write stands for the chunks of a real one, and two writes into one file may
leave either text or a mixture.  A start that reads the index writes it back
through the same name (`_load_index_compat`), and is one more writer.

### 2.9 SkillRecipes

The way of an outcome: `Compute` is `optimize_context` when nothing is replayed
(the turn, the lookup that failed, the selection, `observe`, and perhaps
`crystallize_skill` and the end of the router's cache, all in the one call);
`Replay` is the fast path, which changes nothing but ages, the copy of the
fragments and the list of skills.  A *query* is a family of queries whose
outcomes may gather in one cluster; whether they do depends on the fragments,
too, and is a free choice, as is whether the rewards suffice.  Of the store
there is the age of each fragment, which is what decides when an unpinned one
leaves; ids and pins are the business of `FragmentStore`.

* `MarkIngest` and `FinishIngest` are the two steps of `ingest_fragment`; the
  watcher of `auto_index.py` takes them in its own thread.
* `snapshot` and `dirty` are the engine's copy of the fragments.  Only
  `MarkIngest` marks it, and the next lookup makes it anew (`Copy`, `LookedUp`).
* `Pages` gives every state in which `crystallize_skill` may leave the vault:
  the callback swallows errors, and the count of skills goes up all the same.
* `BenchmarkSkill`, `PromoteSkill` and `CreateSkill` are the tools, which write
  to the vault only.  `touched` is a history variable: the skills that were judged.
* `ExpireRouter` is the time to live of the router's cache (60 s).
* `Restart` keeps the vault and starts with no index or with one just saved.

## 3. Runs

All runs are exhaustive over the stated instance.  Bounds that end counters are
named in each module (`MaxEvents`, `MaxIds`, `SavedIds`, `MaxSaved`, `MaxTurn`,
`MaxBatch`, `MaxSlots`, `MaxFeedback`, `MaxEdits`, `MaxFaults`, `MaxTime`,
`MaxSkills`); `MaxTotal` stands for the width of the code's token sums, and
`MaxDepth` is the deepest search tried.

Three runs check several modules that share no state: `MCCore`, `MCKept` and
`MCAnswers` choose in their initial state which part will run, and the others
stay as they begin.  So their behaviours are those of each part alone, and no
interleaving of two parts is claimed.  Deadlock is checked where every part may
always go on: an engine may export, a listener may scan, a process may start.
It is not checked in `Core` and `Answers` and in the runs about `Selection`,
where a request comes to its end.

| run | part | instance | checks |
|---|---|---|---|
| `Core` | `CognitiveBus` | 2 agents, 2 types, 4 contents of which 2 are near, priorities {1,3}, salient or not, spikes after 1 sample, queues of 2, ring of 2, 3 events | `BusTypeOK`, `QueueMatchesSubscription`, `RingHoldsNoDuplicates`, `BridgedExactlyOnce`, `DrainTakesTheTop`, `LossOnlyByOverflow`, `ImplementsMailboxes` |
| | `DependencyGraph` | 2 versions of a file, the second of which exports what the first defines, and a third file; 3 ids; exports of a store of one; searches up to depth 2 | `GraphTypeOK`, `LinksAreExact`, `SearchesAreExact` |
| | `Selection` | 3 fragments of sizes 4-2-1, 3-3-2, 5-3-0, with and without lower forms, any pins, budgets {1,3,5,6,10}, extracted sizes {1,3}, slack 1, both selectors | `SelectionTypeOK`, `TallyIsExact`, `SpentWithinBudget`, `NoUpgradeFits`, `NothingLeftFits` |
| `FragmentStore` | | 2 contents that are near, one of them protected, 2 sources, cap 2, batches of 2, 3 ids, 2 turns, consolidation in turn 2, 1 export at a time, of at most 1 id | `StoreTypeOK`, `DedupIsExact`, `NoContentTwice`, `RecallReaches`, `NoLiveFragmentReplaced`, `PinnedNeverLost`, `ConsolidationKeepsARepresentative`, `ImplementsContentSet` |
| `Kept` | `SelectionCache` | 1 query, 2 budgets, 2 ids, 1 entry, 2 slots, 1 feedback | `CacheTypeOK`, `EntriesAreIndexed`, `HitsKeepTheBudget`, `ExactHitsAreComplete`, `NoStaleReuse` |
| | `Checkpoints` | 2 processes, one of them with a watcher, a save at each ingest, 1 kept, 3 checkpoints written | `LastSavesSurvive`, `ResumesAreNotBehind` |
| `ListenerSync` | | 3 files, 2 of one name that is a part of the third's, 1 file per scan, 3 edits, 1 fault | `ListenerTypeOK`, `RecordsAreHonest`, `DeletionsReachBeliefs`, `BeliefsCatchUp` |
| `Answers` | `Arrangement` | up to 4 fragments in every order, three patterns of contradiction, every acyclic graph of definitions, two rankings | `SurvivorsAgree`, `DefinitionsComeFirst` |
| | `SkillRecipes` | 1 family of queries, 1 cluster with a window of 3, a cooldown of 2, 2 skills, 1 id per process | `SkillsTypeOK`, `RouterKnowsTheCrystallized`, `RetiredSkillsLeave` |

Why the bounds are enough for what is asked.  A queue of 2 with 3 events
overflows, with ties and without; a ring of 2 with 3 events is compared at both
its places, and slides.  A
cap of 2 is met by stubs, by contents and by both, and hydration at the cap
happens; 3 ids allow a fragment to leave and another to come under a later id;
two turns allow decay (`AgeLimit` 1) and a consolidation in the same history; a
batch of 2 meets its own duplicate and the stub of the same source twice.  Two
near contents are the least that consolidate; an export of one id, taken at any
time, is older than the store a moment later, and of another life once a start
found no index, so that an import of it meets fragments that bear its ids; longer
chains, in which closeness
is not transitive, are covered by `ConsolidationsRepresent` (section 5).  A
cache of one entry evicts at every second store, and two slots outlive their
entries; a query meets its own entry again under another set of fragments and
another budget, which is what the semantic tier has to tell apart, and what
several queries add is covered by the theorems on the cache.  Three edits create all three files, or
create, change and delete one in the middle of a scan; a limit of one leaves
files out as soon as two have changed; one fault can fall on any step of any
scan, or pass over any of the beliefs that are to be marked.  Three fragments have a user that comes before, between and after two
versions of what it uses, and a path of two links, which depth 1 cuts short; what
longer ways would hide is the matter of `SearchesStayExact`, on any graph.
Budgets of 1 to 10 are below, between and above every sum of three
fragments, pins fit into the half and the 40 percent or do not, and the slack of one
token tells a swap that uses it from one that does not.  Four fragments hold a
contradiction with one already evicted, and levels of one, two and three
fragments with a calibrated group among them.  Three checkpoints of two
processes, of which each keeps one, make one process prune while the other, or its
own other thread, lists, reads or renames.  One cluster is
evicted by the next of its own family; two skills are enough for one that the
router knows and one that it does not; one id can leave and, after a restart, be
given to another fragment.  The real constants (queues of `MAX_QUEUE_PER_AGENT`, ring of 1024, period
5, crowd 10, thresholds 2 to 12, Hamming 8, slack of 100 tokens, 100 files per
scan, a save every 5 ingests, 10 checkpoints kept) differ from these in size only.

Symmetry: agents, types and interchangeable contents of the bus, sources of the
store, budgets of the cache.  It is used with safety properties only.

Each property of a passing run has a mutant under `mutants` in
`PROJECT.json`: a bug in a mapped definition under which TLC finds the property
violated in the same instance.

### Where the code and its documentation disagree

Each of these runs checks one statement that a comment or a document makes, and
TLC finds a behaviour of the code that violates it.

| run | the text says | the code does |
|---|---|---|
| `SpikesComeFirst` | "Spike events are always included first." (`cognitive_bus.rs:638`) | the heap knows priorities only (`:417`), and a priority far *below* the mean is a spike too, so a low spike stays behind |
| `IngestWeakens` | "Transitive dependents get progressively softer invalidation via exponential decay" (`lib.rs:663`; likewise `cache.rs:1014`, `:1671`) | dependents are looked up from the new fragment (`lib.rs:690`), to which nothing is linked yet, so no answer that holds one is weakened |
| `HardCeiling` | "the caller-declared `token_budget` is a HARD ceiling" (`lib.rs:1254`) | an exploration may put in a fragment up to 100 tokens larger (`lib.rs:2402`) |
| `ForeignResume` | "Load the most recent checkpoint (from this instance)." (`checkpoint.py:423`) | the files of every instance are listed (`:427`) and the newest is taken |
| `SelectionEstimates` | "After materialization, actual skeleton_token_count replaces the estimate. Channel Coding trailing pass fills any budget gap." (`lib.rs:2272`) | the count keeps the estimate, the trailing pass fills the gap that it leaves, and skeletons that come out larger exceed the budget |
| `IndexRace` | "files ending in ``.json.gz`` are readable by gzip tools" (`server.py:1471`) | two writers, of one process or of two, have one temporary file and no lock; one renames what the other is still writing, and a stop leaves an index that cannot be read |
| `StaleReplays` (2 ids, recipes of 2) | "Fragments referenced by the recipe may have been evicted, edited, or never loaded into this session. The router verifies presence" (`fast_path.py:27`) | presence is looked up in a copy that only ingests mark as outdated (`server.py:659`, `:967`), so a query is answered with fragments the turn has just evicted; and as a replay marks nothing as accessed, replays bring this about by themselves |

Other places were read while modelling in which text and code differ; no run is
spent on them.  In the store: stubs "are excluded from all similarity ops"
(`fragment.rs:48`), but a consolidation merges all unpinned stubs, whose
fingerprints are all 0, into one (`lib.rs:465`).  "Reset temporary pins"
(`lib.rs:2820`) resets those of all path-matched files, permanent ones included.
"Stubs are NOT inserted into LSH" (`ingest_paths_stubs`), but `rebuild_lsh_index`
inserts them at the next turn.  Of a stub and its file's content it is said that
"the dedup system will keep both", but `batch_ingest` removes the stub.  Groups
of near duplicates are said to be within a distance, but members are compared
with the group's first only, and any of them may win.  `load_index` restores
neither the id counter nor the turn.  Ids are to be "globally-unique"
(`lib.rs:549`): they are between two restarts (`NoLiveFragmentReplaced`), but a
resume from an older export, or a start that finds no index, gives ids out again
that other texts had, and peers give out the same ones.

In `optimize` and the cache: a hit is charged what its fragments cost today
(`lib.rs:5669`), which nobody compares with the budget.
`last_query` serves "to route feedback to the correct cache entry"
(`lib.rs:196`), but entries are stored under the ids of all fragments and looked
up under those of the selection (`lib.rs:3828`).  A causal trace is said to hold
"all fragments selected", but after a hit it pairs the query with an older
selection.  `knapsack.rs:17` has a "hard budget" and a test says that "bisection
must never exceed budget" (`knapsack.rs:791`), but its fast path takes every
scored fragment as long as the tokens *expected* of them fit, which is up to
just under twice the budget; `SpentWithinBudget` therefore speaks of the default
selector only.  In that module the turn to dynamic programming cannot be
reached, as the engine keeps the temperature above it.

In the graph: "Dep graph is built lazily during
optimize()" (`lib.rs:1208`), but `auto_link` is called in `ingest` only
(`lib.rs:647`), so files that came by `batch_ingest` have no links.

In the arrangement: the guard does not look at pins.  A fragment may be evicted
by one that is evicted itself later, which `SurvivorsAgree` allows.  Moving the
files the query names to the front separates definitions from uses across the
two parts, which is why `DefinitionsComeFirst` speaks of each part.  Skeletons
are sent after all full fragments, and the token total is computed before the
guard evicts.

In the bus, `enqueue` says "evict lowest priority" (`cognitive_bus.rs:398`) and
makes room before it looks at the newcomer, which may be the lowest.

Around the files: the sync tool marks and recompiles "new, modified, and deleted
source files" (`server.py:3566`), but files beyond `max_files` are recorded as
synchronised without a belief (`change_listener.py:159`), and no later scan sees
them as changed.  A belief that can neither be marked nor written stays fresh, and
the record goes on as if it had been (`vault.py:402`, `change_listener.py:146`).
"After every N tool calls"
(`checkpoint.py:15`) counts ingests only.  Retention bounds one instance's
files, so those of instances that never return stay for good.  A save that fails
raises out of the ingest that called for it, though the fragment is in; a
peer that prunes while a resume sorts its listing makes the resume raise
(`FailToSort`); and of two saves of one process that overlap one may be lost.

Around the skills: `_get_fragment` prefers the source because "fragment IDs
change across sessions" (`server.py:943`), but recipes record ids, and a server
that starts without an index hands the same ids out again, to other fragments.
The watcher may finish an ingest after a lookup has cleared its mark, and the
copy then lacks the new fragment until the next ingest.  `try_match` looks at
the fittest skill only, so a stale one hides a fresh one of the same family.
The lower bound of a full window of 16 is at most 0.694, below
`PROMOTION_THRESHOLD`: "promote" puts every crystallized skill that was not
benchmarked back to testing (`skill_engine.py:803`).  Promoted skills are said to
"inject context into optimization" (`server.py:1995`), but the call is to
`engine.remember_fragment`, which `EntrolyEngine` does not have, and the error is
swallowed.  Misses are logged in another `EvolutionLogger` than the one the
daemon reads (`server.py:385`, `:3246`), so it never sees a gap.

## 4. Fairness

The engine is a library: every step is a call that a client may or may not make,
and nothing in the code obliges it to.  Its specifications assume no fairness,
state no liveness, and the refinements are of specifications without fairness.

`ListenerSpec` assumes weak fairness of `ScanStep`, the listener's own steps
together: `start` runs a thread that waits for an interval, scans, and does so
again until it is stopped; an exception in a scan is logged and the loop goes
on.  Users' edits, forced scans and faults get no fairness.  They are bounded in
number, which is what "the workspace is quiet" means in `BeliefsCatchUp`.

`RecipesSpec`, and `AnswersSpec` when the recipes are its part, assume weak
fairness of `ExpireRouter`, which is time passing: a list of skills loaded once is
not used for longer than its time to live.  Calls get none.  `RetiredSkillsLeave` needs no more.

## 5. Proofs

`CognitiveBusProofs`, `FragmentStoreProofs`, `SelectionCacheProofs`,
`ChangeListenerProofs`, `DependencyGraphProofs`, `SelectionProofs`,
`ArrangementProofs` and `ServerProofs` (checkpoints and skills) hold the theorems;
TLAPS checks them from the modules' named assumptions (`BusAssumption`,
`StoreAssumption`, `CacheAssumption`, `ListenerAssumption`, `GraphAssumption`,
`SearchAssumption`, `SelectionAssumption`, `ArrangementAssumption`,
`BoundsAreCounts`, `RecipesAssumption`) for every value of the constants.  TLC evaluates these assumptions in every run.  No symmetry and no
bound of the runs enters, and no set is assumed to be finite but the fragments of
one request.

Induction over data is done without induction theorems, which the provers cannot
instantiate.  Of the arguments at which a claim fails, if there are any, there is a
least one: natural numbers have it by `NatLessThanWellFounded` and `WFMin`
(`LeastOf`), finite sets by `FS_StrictSubsetOrderingWellFounded`
(`SmallestSubset`).  The claim holds at what comes before it, and one step of the
definition refutes it.  That a recursive function or a fold has the value its
equation says has to be shown first: it is a CHOOSE, so a solution must exist
(`IterationExists`, `FoldExists`) and be the only one (`IterationIsOne`,
`FoldsAgree`).

**The bus.**  `BusTypeCorrect` is the type invariant, which is inductive as it
stands.  `DeliversAtMostOnce` needs one fact more: an agent's history holds no
id above `eventCounter` (`RoutedWereIssued`), or the next event might be one it
has seen.  `DeliveryInv` is the conjunction.  `QueuesMatchSubscriptions` needs
`QueueInv`, which adds that queues are finite, for `Cardinality` to mean
something.  `BusImplementsMailboxes` maps each action to a step or a stutter of
`Mailboxes` under `DeliveryInv`: publishing is `Route` with the events that the
cap evicts as `gone`, draining is `Collect`, and both a new subscription and its
end are `Discard`.  `RingStaysFree` looks at the window after a push
(`PushedShape`: the old one, perhaps shifted by one, and the newcomer, which was
compared with all of the old one).  `SalientEventsAreBridged` rests on
`BridgeInv`: ids grow along what was remembered and what waits, up to
`eventCounter`, so the next one is new.  `MostUrgentFirst` and
`LeastUrgentLost` are about single steps under `DeliveryInv` and `QueueInv`: an
event that was received is in no queue, so what a step took can be told from
what it lost.  The first compares spikes with spikes and others with others, and
so holds whether or not the heap would put spikes first.  The second says that
what is lost is least urgent among the events that were waiting; the newcomer is
not among them, and may be less urgent than what it displaces.

**The store.**  `StoreInv` says that the live fragments and the exported ones
are `Sound` (ids up to the counter, each hydrated text once, well-formed), that
the duplicate index is `Exact`, and that a batch knows its stubs by stub ids, so
that it takes none but stubs away.  `AdmitIsSound` is the step that `Ingest`
and every `BatchItem` share; it needs that the new id is above every id in use.
`DedupStaysExact` and `ContentsAreUnique` follow, and `StoreImplementsContentSet`
maps each action to `Offer`, `Forget`, `Export`, `Reload` or a stutter: the
answer "duplicate" is given exactly for what is held.

The next part is about what happens to a fragment over time.  `KeepInv` adds to
`StoreInv` that stubs are never pinned, here and in the exports (so hydration
takes no pinned fragment).  `StepShape` shows that every step is `Ordinary`, which
keeps texts and pinned fragments, or a restart.  `PinnedFragmentsStay` and
`IdsKeepTheirText` follow.  Both speak of the time between two restarts: what the
second needs of a restart is that every export, however old and from whatever
life, has a counter not below the ids of its own fragments.  Across restarts ids do
get other texts.

`IndexInv` is about the LSH index and the cap.  Slots and entries outlive their
fragment until the next turn rebuilds them; they do no harm because every id in
a slot was issued (`slots[n][2] <= idCounter`), so that no fragment to come
bears it, and because ids keep their text.  `RebuiltIsRight` is the rebuilding: a
list of a set's ids in strict order lists them all, by counting.
`RecallFindsAll`, `StoreStaysWithinCap` and `StoreStaysTyped` follow.
`ConsolidationsRepresent` needs only that a group's members and its winner are
close to the same leader.

**The cache.**  `CacheInv` (`Valid`, of the present state and of the snapshot)
says that each entry selects only fragments of its key and was made for its key's
budget, that keys and the store name only ids that were handed out, and that
the key of a `worn` entry is not that of the store.  The last part is the
reason why the exact tier, which never looks at the quality, may be trusted: an
entry is worn by an ingest, which adds an id the key does not have; only turns
and batches let ids go, and these collect worn entries or clear the cache in the
same step.  `MemoizedAnswersAreValid` and `StaleEntriesAreNotReused` follow.  The
answer in `last` is right at the moment it is given (`HitFits`, `AnswerStep`):
`CachedAnswersKeepTheBudget`, where the exact tier is right because its key has the
budget and the semantic one because it compares it, and `ExactAnswersAreWhole`.
None of these says what an answer costs.
`SlotInv` carries along that the cache is finite, which nothing else says as
there may be any number of queries; `Reshaped` is what a step can do to entries
and slots.  `CacheStaysTyped`, with the cap, and `EntriesStayIndexed` follow.

**The listener.**  `ListenerInv` adds to the types and to `RecordsAreHonest` what
is true in the middle of a scan.  `VersionsWereWritten`: no version is above the
count of edits, so an edit makes a file differ from every record and every
snapshot.  `ScanIsHonest` is `RecordsAreHonest` for the snapshot that is about to
be recorded: it holds when the beliefs have been marked, since a file that is
neither marked nor left out has not changed since the old record, and is kept by
compiling, which takes the present version.  `DeletionsAreMarked` and
`CompilesWhatItSaw` say that what was seen as deleted is stale, or could not be marked, and stays so
because nothing but files that were seen is compiled.  A belief that could not be
marked makes the record lie only if its file could then not be compiled either,
and `RecordsAreHonest` excepts just that.  `ListenerTypeCorrect`,
`RecordsStayHonest` and `DeletionsAreNotLost` follow.

**The dependency graph.**  `GraphInv` says of the engine, and of the state it
exported, that each table has the *newest* provider of every symbol
(`TablesAreNewest`), that the links are those the order of the contents calls for
(`ExactIn`), and that memoized answers hold no id yet to be handed out.
`IngestedTables` and `IngestedLinks` are the step of `auto_link`: what was called
for stays called for, since a link looks only at what came before its user, and
what the new fragment calls for is what the tables hold.  `GraphStaysTyped` and
`LinksStayExact` follow.  From exactness comes `LinksLeadBack`: every link leads
to an earlier fragment, so that there are no cycles.

`SearchesStayExact` is about the two searches on any such graph.  The invariant
of the loop is `WalkInv`, with `R[k]` for what is within k links.  The queue holds
nodes of two neighbouring depths in ascending order, what was found and what waits
at the depth d are together `R[d]` (`AtDepth`), no node is found or queued twice
(`NeverTwice`), and what was visited is `R[d]` with where the found nodes lead,
unless d is the limit.  `NextDepth` is the moment at which the last node of a
depth has left, `PopStep` one turn.  As every turn finds a node, after `MaxIds`
turns nothing waits, and what was found is `R[limit]` (`EndOfWalk`), also when the
graph had no more to give before that (`NoFurther`).  For `identify_cluster` it is
needed that `transitive_deps` with depth 1 is the outgoing links
(`NeighboursAreLinked`), a first use of the theorem for the second search.

**The selection.**  `SelectionInv` adds to the checked properties which passes
belong to which selector and what they have not touched (`Staged`), and that a
candidate the trailing pass has already tried does not fit
(`TriedNoLongerFit`), since tokens left only shrink.  A lemma for each action;
`SelectionStaysTyped`, `SpendingStaysWithinBudget`, `FullDominatesToTheEnd` and
`TrailingPassLeavesNoRoom` follow.  The invariant carries the budget with the slack
of an exploration that swapped (`SpentWithSwap`); `SpentWithinBudget` is the case in
which none did, and the other is `HardCeiling`, which fails.  For these, sums need only be natural numbers,
which `SelectionAssumption` states as the width of the code's sums (`MaxTotal`).

`TallyStaysExact` is that the running count `used` is the sum over what is
selected, at each step of each pass.  It needs the sums themselves: `Total` is a
fold over a set, and `TotalTakesOne` and `TotalOfBoth` are what it adds up to,
whatever the order in which the fold takes the members.  Then a step that counts a
fragment's tokens takes a fragment that was not counted yet (`TallyOfWhole`,
`TallyOfForm`), or the count is made anew (`TallyAnew`, where a pass takes a whole
set at once).

Two theorems say how far the limits that do not hold are missed.
`OnlyEstimatesOverrun`: `WrittenWithinBudget`, which `SelectionEstimates` finds
violated, holds whenever no estimated skeleton comes out larger than it was
counted.  It takes the exact tally, the budget that the passes keep, and that what
is written out is what was selected, at its own cost unless it was estimated
(`FormsAreExtracted`).  `LegacyStaysUnderTwice`: the legacy selector, which does not
keep the budget, spends what the pins weigh or less than twice the budget, and no
pass after it goes beyond but by the slack of an exploration.

**The arrangement.**  `ScanInv` has at its heart that no pair which the scan has
passed holds two contradicting fragments that are both still in; leaving a row
early is harmless as its fragment is out.  `GuardSettlesContradictions` follows.
`LevelsInv` says that what has a level has all its definitions on lower ones,
`LevelsRespectDefinitions`.  `LineInv` carries that to the end of the three
passes: no round is ready only when all fragments have a level (`AllHaveLevels`:
of those without, the one with the least `Number` would be ready), each pass leaves
the kept fragments once each and in ascending levels, and the last takes the
fragments named by path out of that line, in order, and puts them first.  So a
definition stands before its uses in either part, `DefinitionsStandFirst`.

**Checkpoints.**  `ShelfInv` says that no two checkpoints have one name and that
no number in a name is still to come.  `ThreadInv` is about one thread: a save that
overlaps no other has the next number for its name and is newer than all its
instance has shown, so that putting it in place takes nothing away and makes it
the newest; and what its retention is about to remove is its instance's own and
not the last save.  `SavesSurvive` follows.  It takes numbers that only grow for
the names to tell saves apart, and it is here that saves of two threads must not
overlap (`mixed`).  `ResumeInv` adds that a process that resumes has its own last
save in what is left of its listing until it has read something, as long as no
other save of its own came; `ResumesCatchUp`.  That a listing has a newest file at
all comes from the library's theorems on well-founded relations.

`OneWriterKeepsIndexWhole` is the other side of `IndexRace`: if no two writers are
at the index at once, from opening the temporary file to renaming it, the index can
be read at all times, wherever they stop and whatever fails.  `IndexInv` ties
the two files to where the one writer is; what it leaves behind when it stops, the
next one empties before it writes.  So the temporary file and the rename are right,
and a lock that excludes (`save` takes one without waiting, after the index is
written, and ignores that it fails) is all that is missing.

**Skills.**  `SkillsInv` is the types, `RouterKnowsTheCrystallized` and
`RouterEchoesTheVault`.  The types need that a window never grows beyond its
bound however outcomes are observed and clusters evicted, and that a recipe is a
list of the engine's ids of at most `TopK`.  `RouterKnowsTheCrystallized` is kept
because the only step that adds a crystallized skill ends the router's list in the
same call, even when writing the page fails half way (`Pages`).
`RouterEchoesTheVault` is the converse: what the router has loaded has the query
and the recipe of its skill in the vault, as no call rewrites a recipe, and its
skill is still promoted unless a tool has judged it since.  `SkillsStayTyped`,
`RouterStaysCurrent` and `RouterReplaysTheVault` follow.

## 6. What is only model-checked, and what is not modelled

Only model-checked are the two liveness properties, `BeliefsCatchUp` and
`RetiredSkillsLeave`, and the disagreements of section 3.  Every other property of
a run is the statement of a theorem.  Only proved, and in no run, are
`AtMostOncePending`, `WithinCap`, `EntriesFitTheirKey`, `RouterEchoesTheVault` and
`LegacySpending`.

Not modelled within what is: numeric learners and scores (they rank; the models
choose freely where they would), text analyses, the contents of files,
formatting, statistics.  The data structures of the standard library (hash
maps, binary heaps) are taken at their word, with every order of listing and
every resolution of ties.  The pair `persist_index` and `load_index`, which the
shipped server does not take: it refuses its own file and falls back to
`import_state`.

Outside the prover's reach are liveness under fairness and ENABLED; they stay
with TLC.  So are the library's induction theorems, which section 5 does without.

## 7. What the project leaves out

* Several scanners on one state file, and several workspaces under one vault.
* `value_tracker.py`, `autotune.py`, `ccr.py`: small read-modify-write stores.
  Processes that share the first two may each save over what the other added
  (`value_tracker.py:412`, `autotune.py:748`).
* The learners (`prism.rs`, `causal.rs`, `query_persona.rs`, ...), the text
  analyses (`entropy.rs`, `bm25.rs`, `sast.rs`, `skeleton.rs`, ...), federation
  and RAVS: floating point and text, of which TLC could say little.
* The HTTP proxy, the Python bus and bridges, the daemon and the Python
  fallbacks: I/O, configuration, or a second implementation of what is modelled.
* The WebAssembly port (`entroly-wasm`): near copies of the core that lag behind
  it; nothing that is shown here is claimed of them.
* Store, graph and cache are three modules over one set of ids and not one
  composition: each has the others' steps as far as it can tell them apart.
