-------------------------- MODULE ServerProofs --------------------------
(***************************************************************************)
(* What the server keeps on disk and loads again: its checkpoints, their   *)
(* index and the skills in its vault.                                      *)
(*                                                                         *)
(* For any number of processes, with a watcher or without, any interval    *)
(* and any retention: no process loses the checkpoint of its last save,    *)
(* wherever it and its peers stop, and no resume puts a process behind     *)
(* that save, as long as its own two threads do not save at once.          *)
(* ThreadInv says why: a save that overlaps no other has the next number   *)
(* for its name and is newer than all its instance has shown, and what     *)
(* retention is about to remove is never the last one saved.  ResumeInv    *)
(* says that a process which is resuming still has that one in its list.   *)
(*                                                                         *)
(* The index can be read as long as one at a time writes it: IndexInv.     *)
(*                                                                         *)
(* For any number of skills and any bounds of the crystallizer: what the   *)
(* router has loaded is what the vault has promoted, and a crystallized    *)
(* skill is never missing from it.  SkillsInv is these with the types.     *)
(***************************************************************************)
EXTENDS Checkpoints, SharedIndex, SkillRecipes, FiniteSetTheorems, SequenceTheorems,
        WellFoundedInduction, TLAPS

Name == Nat \X {0, 1}

File == [owner : Instances, name : Name, time : Nat \ {0}]

Steps == {"down", "idle", "due", "named", "written", "replaced", "pruning",
          "unlinking", "listed", "sorted", "resumed"}

Typed ==
    /\ pc \in [Threads -> Steps]
    /\ created \in [Instances -> Nat]
    /\ clock \in Nat
    /\ name \in [Threads -> Name]
    /\ stamp \in [Threads -> Nat]
    /\ files \in SUBSET File
    /\ listed \in [Threads -> SUBSET File]
    /\ answer \in [Instances -> SUBSET File]
    /\ latest \in [Instances -> Nat]
    /\ mixed \in [Instances -> BOOLEAN]
    /\ since \in [Instances -> Nat]

\* No two checkpoints have one name, and no name is still to come; saves that
\* overlap are known to.
ShelfInv ==
    /\ \A f, g \in files : SameName(f, g) => f = g
    /\ \A f \in files : f.time <= clock /\ f.name[1] < created[f.owner]
    /\ \A i \in Instances :
          /\ mixed[i] => latest[i] = 0
          /\ Saving(Tools(i)) /\ Saving(Watcher(i)) => mixed[i]

\* A save that overlaps no other one is the newest of its instance, under a
\* name of its own; what retention is to remove is not the last one saved.
ThreadInv(t) ==
    /\ pc[t] = "written" =>
          /\ 0 < stamp[t] /\ stamp[t] <= clock
          /\ ~mixed[t[1]] => \A f \in OwnedBy(t[1], files) : f.time < stamp[t]
    /\ Saving(t) =>
          /\ name[t][1] <= created[t[1]]
          /\ ~mixed[t[1]] => name[t][1] = created[t[1]]
    /\ \A f \in listed[t] : f.time <= clock /\ f.name[1] < created[f.owner]
    /\ pc[t] \in {"pruning", "unlinking"} => \A f \in listed[t] : f.owner = t[1]
    /\ pc[t] = "unlinking" =>
          \A f \in listed[t], g \in OwnedBy(t[1], files) :
             g.time = latest[t[1]] => f.name # g.name

\* Unless its instance saves meanwhile, a resume has the last one in its list,
\* and nothing of its own in place of what it listed.
ResumeInv(i) ==
    /\ pc[Tools(i)] \in {"listed", "sorted", "resumed"} => since[i] <= latest[i]
    /\ latest[i] = since[i] /\ latest[i] # 0 =>
          /\ pc[Tools(i)] \in {"listed", "sorted"} =>
                \E f \in listed[Tools(i)] \cap files : f.owner = i /\ f.time = latest[i]
          /\ pc[Tools(i)] = "sorted" =>
                \A f \in listed[Tools(i)], g \in files :
                   f.owner = i /\ SameName(f, g) => f = g

CheckpointsInv ==
    /\ Typed
    /\ ShelfInv
    /\ \A t \in Threads : ThreadInv(t)
    /\ \A i \in Instances : ResumeInv(i)
    /\ LastSavesSurvive
    /\ ResumesAreNotBehind
-----------------------------------------------------------------------------
LEMMA ThreadsOfInstances ==
    /\ \A t \in Threads : t[1] \in Instances /\ t \in Both(t[1])
    /\ \A i \in Instances :
          /\ Tools(i) \in Threads /\ Watcher(i) \in Threads
          /\ Tools(i)[1] = i /\ Watcher(i)[1] = i /\ Tools(i) # Watcher(i)
          /\ Both(i) = {Tools(i), Watcher(i)}
  BY DEF Threads, Both, Tools, Watcher

\* What a step leaves alone that only lists, reads or gives up.
Quiet == UNCHANGED <<created, clock, files, latest, mixed>>

\* What a step of a thread leaves alone of the others.
OthersRest(t) ==
    /\ \A u \in Threads \ {t} :
          pc'[u] = pc[u] /\ name'[u] = name[u] /\ stamp'[u] = stamp[u] /\ listed'[u] = listed[u]
    /\ \A i \in Instances : t # Tools(i) => answer'[i] = answer[i] /\ since'[i] = since[i]

LEMMA CheckpointsInitHolds == CheckpointsInit => CheckpointsInv
  <1> SUFFICES ASSUME CheckpointsInit PROVE CheckpointsInv
    OBVIOUS
  <1> USE DEF CheckpointsInit
  <1>1. Typed
    BY DEF Typed, Steps, Name, NoName
  <1>2. \A t \in Threads : pc[t] = "down" /\ listed[t] = {}
    OBVIOUS
  <1>3. \A i \in Instances : pc[Tools(i)] = "down" /\ pc[Watcher(i)] = "down"
    BY <1>2, ThreadsOfInstances
  <1>4. ShelfInv
    BY <1>3 DEF ShelfInv, Saving
  <1>5. \A t \in Threads : ThreadInv(t)
    BY <1>2 DEF ThreadInv, Saving
  <1>6. \A i \in Instances : ResumeInv(i)
    BY <1>3 DEF ResumeInv
  <1>7. LastSavesSurvive /\ ResumesAreNotBehind
    BY DEF LastSavesSurvive, ResumesAreNotBehind
  <1> QED
    BY <1>1, <1>4, <1>5, <1>6, <1>7 DEF CheckpointsInv

\* What a resume knows is as it was if its thread rests and nothing is shown.
LEMMA RestingResume ==
    ASSUME NEW i \in Instances, ResumeInv(i), Quiet,
           pc'[Tools(i)] = pc[Tools(i)], listed'[Tools(i)] = listed[Tools(i)],
           answer'[i] = answer[i], since'[i] = since[i]
    PROVE  ResumeInv(i)'
  BY DEF ResumeInv, Quiet, SameName

LEMMA QuietStep ==
    ASSUME CheckpointsInv, NEW t \in Threads, Quiet, OthersRest(t), Typed',
           Saving(t)' => Saving(t), ThreadInv(t)', ResumeInv(t[1])',
           (pc[Tools(t[1])] = "resumed")' /\ latest[t[1]] = since'[t[1]] /\ latest[t[1]] # 0 =>
               \E f \in answer'[t[1]] : f.owner = t[1] => f.time >= latest[t[1]]
    PROVE  CheckpointsInv'
  <1> DEFINE k == t[1]
  <1>1. k \in Instances /\ t \in Both(k)
    BY ThreadsOfInstances
  <1>2. ShelfInv'
    <2>1. \A i \in Instances : /\ Saving(Tools(i))' => Saving(Tools(i))
                               /\ Saving(Watcher(i))' => Saving(Watcher(i))
      BY ThreadsOfInstances DEF OthersRest, Saving
    <2> QED
      BY <2>1 DEF CheckpointsInv, ShelfInv, Quiet, SameName
  <1>3. \A u \in Threads : ThreadInv(u)'
    <2>1. ASSUME NEW u \in Threads, u # t PROVE ThreadInv(u)'
      BY <2>1 DEF CheckpointsInv, ThreadInv, Quiet, OthersRest, Saving, OwnedBy
    <2> QED
      BY <2>1
  <1>4. \A i \in Instances \ {k} : Tools(i) # t
    BY ThreadsOfInstances
  <1>5. \A i \in Instances : ResumeInv(i)'
    <2>1. ASSUME NEW i \in Instances, i # k PROVE ResumeInv(i)'
      BY <1>4, <2>1, RestingResume, ThreadsOfInstances DEF CheckpointsInv, OthersRest
    <2> QED
      BY <2>1
  <1>6. LastSavesSurvive'
    BY DEF CheckpointsInv, LastSavesSurvive, Quiet, OwnedBy
  <1>7. ResumesAreNotBehind'
    <2>1. ASSUME NEW i \in Instances, i # k,
                 (pc[Tools(i)] = "resumed")', latest'[i] = since'[i], latest'[i] # 0
          PROVE  \E f \in answer'[i] : f.owner = i => f.time >= latest'[i]
      <3>1. pc'[Tools(i)] = pc[Tools(i)] /\ answer'[i] = answer[i] /\ since'[i] = since[i]
        BY <1>4, <2>1, ThreadsOfInstances DEF OthersRest
      <3> QED
        BY <2>1, <3>1 DEF CheckpointsInv, ResumesAreNotBehind, Quiet
    <2> QED
      BY <1>1, <2>1 DEF ResumesAreNotBehind, Quiet
  <1> QED
    BY <1>2, <1>3, <1>5, <1>6, <1>7 DEF CheckpointsInv

\* A step after which its thread is not in the middle of anything: it counts,
\* gives up, ends, or is about to name its checkpoint.
LEMMA RestingStep ==
    ASSUME CheckpointsInv, NEW t \in Threads, Quiet, OthersRest(t), Typed',
           pc'[t] \in {"down", "idle", "due"}, listed'[t] \subseteq listed[t],
           t # Tools(t[1]) => answer'[t[1]] = answer[t[1]] /\ since'[t[1]] = since[t[1]]
    PROVE  CheckpointsInv'
  <1> DEFINE k == t[1]
  <1>1. k \in Instances /\ t \in {Tools(k), Watcher(k)} /\ Tools(k) \in Threads
    BY ThreadsOfInstances
  <1>2. ~ Saving(t)'
    BY DEF Saving
  <1>3. ThreadInv(t)'
    BY <1>2 DEF CheckpointsInv, ThreadInv, Quiet
  <1>4. CASE t = Tools(k)
    <2>1. ResumeInv(k)'
      BY <1>4 DEF ResumeInv
    <2>2. (pc[Tools(k)] # "resumed")'
      BY <1>4
    <2> QED
      BY <1>2, <1>3, <2>1, <2>2, QuietStep
  <1>5. CASE t # Tools(k)
    <2>1. pc'[Tools(k)] = pc[Tools(k)] /\ listed'[Tools(k)] = listed[Tools(k)]
          /\ answer'[k] = answer[k] /\ since'[k] = since[k]
      BY <1>1, <1>5 DEF OthersRest
    <2>2. ResumeInv(k)'
      BY <1>1, <2>1, RestingResume DEF CheckpointsInv
    <2>3. (pc[Tools(k)] = "resumed")' /\ latest[k] = since'[k] /\ latest[k] # 0 =>
             \E f \in answer'[k] : f.owner = k => f.time >= latest[k]
      BY <1>1, <2>1 DEF CheckpointsInv, ResumesAreNotBehind
    <2> QED
      BY <1>2, <1>3, <2>2, <2>3, QuietStep
  <1> QED
    BY <1>4, <1>5

LEMMA RestingSteps ==
    ASSUME CheckpointsInv,
           \/ \E i \in Instances :
                 Start(i) \/ StartWatcher(i) \/ SaveNow(i) \/ Interrupt(i) \/ Return(i)
           \/ \E t \in Threads : IngestFragment(t) \/ Refuse(t) \/ FailToSort(t)
    PROVE  CheckpointsInv'
  <1> USE DEF Goes, Ends, nameVars, resumeVars, Quiet, OthersRest
  <1>0. Typed
    BY DEF CheckpointsInv
  <1>1. ASSUME NEW i \in Instances,
               Start(i) \/ StartWatcher(i) \/ SaveNow(i) \/ Interrupt(i) \/ Return(i)
        PROVE  CheckpointsInv'
    <2> DEFINE t == IF StartWatcher(i) THEN Watcher(i) ELSE Tools(i)
    <2>1. t \in Threads /\ t[1] = i /\ (t # Tools(i) <=> StartWatcher(i))
      BY ThreadsOfInstances
    <2>2. CASE StartWatcher(i)
      <3>1. Typed'
        BY <1>0, <2>2, ThreadsOfInstances DEF StartWatcher, Typed, Steps
      <3>2. OthersRest(t) /\ Quiet /\ pc'[t] = "idle" /\ UNCHANGED <<listed, answer, since>>
        BY <1>0, <2>1, <2>2 DEF StartWatcher, Typed
      <3> HIDE DEF t, OthersRest, Quiet
      <3> QED
        BY <2>1, <3>1, <3>2, RestingStep
    <2>3. CASE ~StartWatcher(i)
      <3>1. t = Tools(i) /\ (Start(i) \/ SaveNow(i) \/ Interrupt(i) \/ Return(i))
        BY <1>1, <2>3
      <3>2. Typed'
        <4>1. CASE Start(i) \/ SaveNow(i)
          BY <1>0, <2>1, <3>1, <4>1 DEF Start, SaveNow, Typed, Steps
        <4>2. CASE Interrupt(i)
          BY <1>0, <2>1, <3>1, <4>2 DEF Interrupt, Typed, Steps, Name, NoName
        <4>3. CASE Return(i)
          BY <1>0, <2>1, <3>1, <4>3 DEF Return, Typed, Steps
        <4> QED
          BY <3>1, <4>1, <4>2, <4>3
      <3>3. OthersRest(t) /\ Quiet /\ pc'[t] \in {"idle", "due"} /\ listed'[t] \subseteq listed[t]
        BY <1>0, <2>1, <3>1 DEF Start, SaveNow, Interrupt, Return, Typed
      <3> HIDE DEF t, OthersRest, Quiet
      <3> QED
        BY <2>1, <3>1, <3>2, <3>3, RestingStep
    <2> QED
      BY <2>2, <2>3
  <1>2. ASSUME NEW t \in Threads, IngestFragment(t) \/ Refuse(t) \/ FailToSort(t)
        PROVE  CheckpointsInv'
    <2>1. t[1] \in Instances
      BY ThreadsOfInstances
    <2>2. UNCHANGED <<created, clock, files, latest, mixed, answer, since>>
      BY <1>2 DEF IngestFragment, Refuse, FailToSort
    <2>3. /\ pc' \in [Threads -> Steps] /\ name' \in [Threads -> Name]
          /\ stamp' \in [Threads -> Nat] /\ listed' \in [Threads -> SUBSET File]
      <3>1. CASE IngestFragment(t)
        BY <1>0, <3>1 DEF IngestFragment, Typed, Steps
      <3>2. CASE Refuse(t) \/ FailToSort(t)
        <4>1. Ends(t) /\ NoName \in Name
          BY <3>2 DEF Refuse, FailToSort, NoName, Name
        <4> HIDE DEF NoName, Name
        <4> QED
          BY <1>0, <4>1 DEF Typed, Steps
      <3> QED
        BY <1>2, <3>1, <3>2
    <2>4. Typed'
      BY <1>0, <2>2, <2>3 DEF Typed
    <2>5. OthersRest(t) /\ Quiet
      BY <1>0, <1>2, <2>2 DEF IngestFragment, Refuse, FailToSort, Typed
    <2>6. pc'[t] \in {"idle", "due"} /\ listed'[t] \subseteq listed[t]
      BY <1>0, <1>2 DEF IngestFragment, Refuse, FailToSort, Typed
    <2> HIDE DEF OthersRest, Quiet
    <2> QED
      BY <2>1, <2>2, <2>4, <2>5, <2>6, RestingStep
  <1> QED
    BY <1>1, <1>2

LEMMA CrashStep ==
    ASSUME CheckpointsInv, NEW k \in Instances, Crash(k)
    PROVE  CheckpointsInv'
  <1> USE DEF CheckpointsInv
  <1>1. Typed'
    BY DEF Crash, Cleared, Typed, Steps, Name, NoName
  <1>2. \A t \in Threads : t[1] = k =>
           pc'[t] = "down" /\ listed'[t] = {}
    BY ThreadsOfInstances DEF Crash, Cleared, Typed
  <1>3. \A t \in Threads : t[1] # k =>
           pc'[t] = pc[t] /\ name'[t] = name[t] /\ stamp'[t] = stamp[t] /\ listed'[t] = listed[t]
    BY ThreadsOfInstances DEF Crash, Cleared, Typed
  <1>4. UNCHANGED <<created, clock, files, latest>>
    BY DEF Crash
  <1>5. \A i \in Instances : i # k =>
           mixed'[i] = mixed[i] /\ answer'[i] = answer[i] /\ since'[i] = since[i]
    BY DEF Crash, Typed
  <1>6. mixed'[k] = FALSE
    BY DEF Crash, Typed
  <1>7. ShelfInv'
    <2>1. ASSUME NEW i \in Instances
          PROVE  /\ mixed'[i] => latest'[i] = 0
                 /\ Saving(Tools(i))' /\ Saving(Watcher(i))' => mixed'[i]
      <3>1. CASE i = k
        BY <1>2, <1>6, <3>1, ThreadsOfInstances DEF Saving
      <3>2. CASE i # k
        BY <1>3, <1>4, <1>5, <3>2, ThreadsOfInstances DEF Saving, ShelfInv
      <3> QED
        BY <3>1, <3>2
    <2> QED
      BY <1>4, <2>1 DEF ShelfInv, SameName
  <1>8. ASSUME NEW t \in Threads PROVE ThreadInv(t)'
    <2>1. CASE t[1] = k
      BY <1>2, <2>1 DEF ThreadInv, Saving
    <2>2. CASE t[1] # k
      BY <1>3, <1>4, <1>5, <2>2, ThreadsOfInstances DEF ThreadInv, Saving, OwnedBy
    <2> QED
      BY <2>1, <2>2
  <1>9. ASSUME NEW i \in Instances
        PROVE  /\ ResumeInv(i)'
               /\ (pc[Tools(i)] = "resumed")' /\ latest'[i] = since'[i] /\ latest'[i] # 0 =>
                     \E f \in answer'[i] : f.owner = i => f.time >= latest'[i]
    <2>1. CASE i = k
      BY <1>2, <2>1, ThreadsOfInstances DEF ResumeInv
    <2>2. CASE i # k
      BY <1>3, <1>4, <1>5, <2>2, ThreadsOfInstances DEF ResumeInv, ResumesAreNotBehind, SameName
    <2> QED
      BY <2>1, <2>2
  <1>10. LastSavesSurvive' /\ ResumesAreNotBehind'
    BY <1>4, <1>9 DEF LastSavesSurvive, ResumesAreNotBehind, OwnedBy
  <1> QED
    BY <1>1, <1>7, <1>8, <1>9, <1>10

\* Retention lists what is its own, and of that removes what is older.
LEMMA ListOwnStep ==
    ASSUME CheckpointsInv, NEW t \in Threads, ListOwn(t)
    PROVE  CheckpointsInv'
  <1> DEFINE k == t[1]
  <1>1. k \in Instances /\ t \in {Tools(k), Watcher(k)}
    BY ThreadsOfInstances
  <1>2. /\ pc[t] = "replaced" /\ pc' = [pc EXCEPT ![t] = "pruning"]
        /\ listed' = [listed EXCEPT ![t] = OwnedBy(k, files)]
        /\ UNCHANGED <<created, clock, name, stamp, files, latest, mixed, answer, since>>
    BY DEF ListOwn, Goes, nameVars, resumeVars
  <1>3. Typed /\ Typed'
    BY <1>2 DEF CheckpointsInv, Typed, Steps, OwnedBy
  <1>4. pc'[t] = "pruning" /\ listed'[t] = OwnedBy(k, files)
    BY <1>2, <1>3 DEF Typed
  <1>5. OthersRest(t) /\ Quiet
    BY <1>2, <1>3 DEF OthersRest, Quiet, Typed
  <1>6. ThreadInv(t)'
    BY <1>2, <1>4 DEF ThreadInv, Saving, OwnedBy, CheckpointsInv, ShelfInv
  <1>7. ResumeInv(k)' /\ (pc'[Tools(k)] = "resumed" => pc[Tools(k)] = "resumed")
    <2>1. CASE t = Tools(k)
      BY <1>4, <2>1 DEF ResumeInv
    <2>2. CASE t # Tools(k)
      BY <1>1, <1>2, <1>5, <2>2, RestingResume, ThreadsOfInstances DEF CheckpointsInv, OthersRest
    <2> QED
      BY <2>1, <2>2
  <1> QED
    BY <1>1, <1>2, <1>3, <1>4, <1>5, <1>6, <1>7, QuietStep
       DEF Saving, CheckpointsInv, ResumesAreNotBehind

LEMMA OutdatedAreOlder ==
    ASSUME NEW S \in SUBSET File, NEW f \in Outdated(S)
    PROVE  f \in S /\ \E g \in S : g.time > f.time
  <1>1. f \in S /\ Cardinality(Newer(f, S)) >= MaxCheckpoints
    BY DEF Outdated
  <1>2. ASSUME Newer(f, S) = {} PROVE FALSE
    <2>1. Cardinality({}) = 0
      BY FS_EmptySet
    <2> QED
      BY <1>1, <1>2, <2>1, BoundsAreCounts
  <1> QED
    BY <1>1, <1>2 DEF Newer

LEMMA SortOwnStep ==
    ASSUME CheckpointsInv, NEW t \in Threads, SortOwn(t)
    PROVE  CheckpointsInv'
  <1> DEFINE k == t[1]
             old == Outdated(Present(listed[t]))
  <1>1. k \in Instances /\ t \in {Tools(k), Watcher(k)}
    BY ThreadsOfInstances
  <1>2. /\ pc[t] = "pruning"
        /\ pc' = [pc EXCEPT ![t] = IF listed'[t] = {} THEN "idle" ELSE "unlinking"]
        /\ listed' = [listed EXCEPT ![t] = old]
        /\ UNCHANGED <<created, clock, name, stamp, files, latest, mixed, answer, since>>
    BY DEF SortOwn, Goes, nameVars, resumeVars
  <1>3. Typed
    BY DEF CheckpointsInv
  <1>4. Present(listed[t]) \in SUBSET File /\ Present(listed[t]) \subseteq files
    BY <1>3 DEF Present, Typed
  <1>5. \A f \in Present(listed[t]) : f.owner = k
    BY <1>2 DEF CheckpointsInv, ThreadInv, Present, SameName
  <1>6. /\ old \subseteq files
        /\ \A f \in old : f.owner = k /\ \E g \in OwnedBy(k, files) : g.time > f.time
    <2> SUFFICES ASSUME NEW f \in old
                 PROVE  /\ f \in files /\ f.owner = k
                        /\ \E g \in OwnedBy(k, files) : g.time > f.time
      OBVIOUS
    <2>1. f \in Present(listed[t]) /\ \E g \in Present(listed[t]) : g.time > f.time
      BY <1>4, OutdatedAreOlder
    <2> QED
      BY <1>4, <1>5, <2>1 DEF OwnedBy
  <1> HIDE DEF old
  <1>7. pc'[t] \in {"idle", "unlinking"} /\ listed'[t] = old
    BY <1>2, <1>3 DEF Typed
  <1>8. Typed'
    BY <1>2, <1>3, <1>6 DEF Typed, Steps
  <1>9. OthersRest(t) /\ Quiet
    BY <1>2, <1>3 DEF OthersRest, Quiet, Typed
  <1>10. ThreadInv(t)'
    <2>1. ASSUME NEW f \in old, NEW g \in OwnedBy(k, files), g.time = latest[k]
          PROVE  f.name # g.name
      <3>1. PICK h \in OwnedBy(k, files) : h.time > f.time
        BY <1>6
      <3>2. g \in File /\ h \in File /\ f \in File
        BY <1>3, <1>6 DEF OwnedBy, Typed
      <3>3. latest[k] # 0 /\ h.time <= latest[k]
        BY <1>1, <2>1, <3>1, <3>2 DEF CheckpointsInv, LastSavesSurvive, File
      <3>4. f # g
        BY <2>1, <3>1, <3>2, <3>3, <1>1, <1>3 DEF File, Typed
      <3> QED
        BY <1>6, <3>4 DEF CheckpointsInv, ShelfInv, SameName, OwnedBy
    <2>2. \A f \in old : f.time <= clock /\ f.name[1] < created[f.owner]
      BY <1>6 DEF CheckpointsInv, ShelfInv
    <2> QED
      BY <1>2, <1>6, <1>7, <2>1, <2>2 DEF ThreadInv, Saving, OwnedBy
  <1>11. ResumeInv(k)' /\ (pc'[Tools(k)] = "resumed" => pc[Tools(k)] = "resumed")
    <2>1. CASE t = Tools(k)
      BY <1>7, <2>1 DEF ResumeInv
    <2>2. CASE t # Tools(k)
      BY <1>1, <1>2, <1>9, <2>2, RestingResume, ThreadsOfInstances DEF CheckpointsInv, OthersRest
    <2> QED
      BY <2>1, <2>2
  <1> QED
    BY <1>1, <1>2, <1>7, <1>8, <1>9, <1>10, <1>11, QuietStep
       DEF Saving, CheckpointsInv, ResumesAreNotBehind

LEMMA NameCheckpointStep ==
    ASSUME CheckpointsInv, NEW t \in Threads, NameCheckpoint(t)
    PROVE  CheckpointsInv'
  <1> DEFINE k == t[1]
             overlaps == \E u \in Both(k) \ {t} : Saving(u)
  <1>1. k \in Instances /\ t \in {Tools(k), Watcher(k)} /\ t \in Both(k)
        /\ Both(k) = {Tools(k), Watcher(k)} /\ Tools(k) \in Threads /\ Watcher(k) \in Threads
        /\ overlaps \in BOOLEAN
    BY ThreadsOfInstances
  <1>2. PICK sec \in {0, 1} : name' = [name EXCEPT ![t] = <<created[k], sec>>]
    BY DEF NameCheckpoint
  <1>3. /\ pc[t] = "due" /\ pc' = [pc EXCEPT ![t] = "named"]
        /\ mixed' = [mixed EXCEPT ![k] = overlaps]
        /\ latest' = IF overlaps THEN [latest EXCEPT ![k] = 0] ELSE latest
        /\ UNCHANGED <<created, clock, stamp, files, listed, answer, since>>
    BY DEF NameCheckpoint, Goes, resumeVars
  <1> HIDE DEF overlaps
  <1>4. Typed
    BY DEF CheckpointsInv
  <1>5. Typed'
    BY <1>1, <1>2, <1>3, <1>4 DEF Typed, Steps, Name
  <1>6. /\ pc'[t] = "named" /\ name'[t] = <<created[k], sec>> /\ mixed'[k] = overlaps
        /\ latest'[k] = IF overlaps THEN 0 ELSE latest[k]
    BY <1>1, <1>2, <1>3, <1>4 DEF Typed
  <1>7. /\ \A u \in Threads \ {t} : pc'[u] = pc[u] /\ name'[u] = name[u]
        /\ \A i \in Instances \ {k} : mixed'[i] = mixed[i] /\ latest'[i] = latest[i]
    BY <1>1, <1>2, <1>3, <1>4 DEF Typed
  <1>8. \A u \in Threads \ {t} : (Saving(u)' <=> Saving(u)) /\ (u[1] = k => u \in Both(k))
    BY <1>7, ThreadsOfInstances DEF Saving
  <1>9. ASSUME NEW u \in Threads, u[1] = k, u # t, Saving(u) PROVE overlaps
    BY <1>8, <1>9 DEF overlaps
  <1>10. ShelfInv'
    <2>1. ASSUME NEW i \in Instances
          PROVE  /\ mixed'[i] => latest'[i] = 0
                 /\ Saving(Tools(i))' /\ Saving(Watcher(i))' => mixed'[i]
      <3>1. CASE i = k
        BY <1>1, <1>6, <1>8, <1>9, <3>1, ThreadsOfInstances
      <3>2. CASE i # k
        BY <1>1, <1>7, <1>8, <3>2, ThreadsOfInstances DEF CheckpointsInv, ShelfInv
      <3> QED
        BY <3>1, <3>2
    <2> QED
      BY <1>3, <2>1 DEF CheckpointsInv, ShelfInv, SameName
  <1>11. ASSUME NEW u \in Threads PROVE ThreadInv(u)'
    <2>0. u[1] \in Instances /\ ThreadInv(u)
      BY ThreadsOfInstances DEF CheckpointsInv
    <2>1. CASE u = t
      BY <1>2, <1>3, <1>4, <1>6, <2>0, <2>1 DEF ThreadInv, Saving, Typed
    <2>2. CASE u # t /\ u[1] # k
      BY <1>3, <1>7, <1>8, <2>0, <2>2 DEF ThreadInv, Saving, OwnedBy
    <2>3. CASE u # t /\ u[1] = k
      <3>1. pc'[u] = pc[u] /\ name'[u] = name[u]
        BY <1>7, <2>3
      <3>2. Saving(u) => mixed'[k]
        BY <1>6, <1>9, <2>3
      <3>3. pc[u] = "unlinking" => \A f \in listed'[u], g \in OwnedBy(k, files)' :
               g.time = latest'[k] => f.name # g.name
        <4> SUFFICES ASSUME pc[u] = "unlinking", NEW f \in listed[u],
                            NEW g \in OwnedBy(k, files), g.time = latest'[k]
                     PROVE  f.name # g.name
          BY <1>3 DEF OwnedBy
        <4>1. g.time # 0
          BY <1>4 DEF OwnedBy, Typed, File
        <4>2. g.time = latest[k]
          BY <1>6, <4>1
        <4> QED
          BY <2>0, <2>3, <4>2 DEF ThreadInv
      <3> QED
        BY <1>3, <2>0, <2>3, <3>1, <3>2, <3>3 DEF ThreadInv, Saving, OwnedBy
    <2> QED
      BY <2>1, <2>2, <2>3
  <1>12. LastSavesSurvive'
    <2> SUFFICES ASSUME NEW i \in Instances, latest'[i] # 0
                 PROVE  /\ \E f \in OwnedBy(i, files) : f.time = latest'[i]
                        /\ \A f \in OwnedBy(i, files) : f.time <= latest'[i]
      BY <1>3 DEF LastSavesSurvive, OwnedBy
    <2>1. latest'[i] = latest[i]
      BY <1>6, <1>7
    <2> QED
      BY <2>1 DEF CheckpointsInv, LastSavesSurvive
  <1>13. ASSUME NEW i \in Instances
         PROVE  /\ ResumeInv(i)'
                /\ (pc[Tools(i)] = "resumed")' /\ latest'[i] = since'[i] /\ latest'[i] # 0 =>
                      \E f \in answer'[i] : f.owner = i => f.time >= latest'[i]
    <2>1. CASE t = Tools(i)
      BY <1>6, <2>1 DEF ResumeInv
    <2>2. CASE t # Tools(i)
      <3>1. pc'[Tools(i)] = pc[Tools(i)]
        BY <1>7, <2>2, ThreadsOfInstances
      <3>2. pc[Tools(i)] \in {"listed", "sorted", "resumed"} => latest'[i] = latest[i]
        <4>1. i = k /\ overlaps => Saving(Tools(i))
          BY <1>1, <2>2 DEF overlaps
        <4> QED
          BY <1>6, <1>7, <4>1 DEF Saving
      <3> QED
        BY <1>3, <3>1, <3>2 DEF CheckpointsInv, ResumeInv, ResumesAreNotBehind, SameName
    <2> QED
      BY <2>1, <2>2
  <1> QED
    BY <1>5, <1>10, <1>11, <1>12, <1>13 DEF CheckpointsInv, ResumesAreNotBehind

LEMMA WriteCheckpointStep ==
    ASSUME CheckpointsInv, NEW t \in Threads, WriteCheckpoint(t)
    PROVE  CheckpointsInv'
  <1> DEFINE k == t[1]
  <1>1. k \in Instances /\ t \in {Tools(k), Watcher(k)} /\ Tools(k) \in Threads
    BY ThreadsOfInstances
  <1>2. /\ pc[t] = "named" /\ pc' = [pc EXCEPT ![t] = "written"]
        /\ clock' = clock + 1 /\ stamp' = [stamp EXCEPT ![t] = clock + 1]
        /\ UNCHANGED <<created, name, files, listed, latest, mixed, answer, since>>
    BY DEF WriteCheckpoint, Goes, nameVars, resumeVars
  <1>3. Typed /\ clock \in Nat
    BY DEF CheckpointsInv, Typed
  <1>4. Typed'
    BY <1>2, <1>3 DEF Typed, Steps
  <1>5. /\ pc'[t] = "written" /\ stamp'[t] = clock + 1
        /\ \A u \in Threads \ {t} : pc'[u] = pc[u] /\ stamp'[u] = stamp[u]
    BY <1>2, <1>3 DEF Typed
  <1>6. \A u \in Threads : Saving(u)' <=> Saving(u)
    BY <1>2, <1>5 DEF Saving
  <1>7. \A f \in files : f.time <= clock /\ f.time \in Nat
    BY <1>3 DEF CheckpointsInv, ShelfInv, Typed, File
  <1>8. ShelfInv'
    <2>1. \A f \in files : f.time <= clock'
      BY <1>2, <1>3, <1>7
    <2>2. \A i \in Instances : Saving(Tools(i))' /\ Saving(Watcher(i))' => mixed[i]
      BY <1>6, ThreadsOfInstances DEF CheckpointsInv, ShelfInv
    <2> QED
      BY <1>2, <2>1, <2>2 DEF CheckpointsInv, ShelfInv, SameName
  <1>9. ASSUME NEW u \in Threads PROVE ThreadInv(u)'
    <2>0. \A f \in listed'[u] : f.time <= clock' /\ f.name[1] < created'[f.owner]
      <3> SUFFICES ASSUME NEW f \in listed[u]
                   PROVE  f.time <= clock' /\ f.name[1] < created'[f.owner]
        BY <1>2
      <3>1. f.time <= clock /\ f.time \in Nat /\ f.name[1] < created[f.owner]
        BY <1>3 DEF CheckpointsInv, ThreadInv, Typed, File
      <3> QED
        BY <1>2, <1>3, <3>1
    <2>1. CASE u = t
      <3>1. 0 < stamp'[t] /\ stamp'[t] <= clock' /\ \A f \in OwnedBy(k, files) : f.time < stamp'[t]
        BY <1>2, <1>3, <1>5, <1>7 DEF OwnedBy
      <3> QED
        BY <1>2, <1>5, <1>6, <2>0, <2>1, <3>1 DEF CheckpointsInv, ThreadInv, OwnedBy
    <2>2. CASE u # t
      <3>1. ThreadInv(u) /\ pc'[u] = pc[u] /\ stamp'[u] = stamp[u] /\ stamp[u] \in Nat
        BY <1>3, <1>5, <2>2 DEF CheckpointsInv, Typed
      <3>2. stamp[u] <= clock => stamp[u] <= clock'
        BY <1>2, <1>3, <3>1
      <3> QED
        BY <1>2, <1>6, <2>0, <3>1, <3>2 DEF ThreadInv, OwnedBy
    <2> QED
      BY <2>1, <2>2
  <1>10. ASSUME NEW i \in Instances
         PROVE  pc'[Tools(i)] \in {"listed", "sorted", "resumed"} => pc'[Tools(i)] = pc[Tools(i)]
    BY <1>5, ThreadsOfInstances
  <1>11. \A i \in Instances : ResumeInv(i)'
    BY <1>2, <1>10 DEF CheckpointsInv, ResumeInv, SameName
  <1>12. LastSavesSurvive' /\ ResumesAreNotBehind'
    BY <1>2, <1>10 DEF CheckpointsInv, LastSavesSurvive, ResumesAreNotBehind, OwnedBy
  <1> QED
    BY <1>4, <1>8, <1>9, <1>11, <1>12 DEF CheckpointsInv

\* A save that overlapped no other one shows the newest of its instance, in
\* nobody's place; any other one is not relied upon.
LEMMA ReplaceCheckpointStep ==
    ASSUME CheckpointsInv, NEW t \in Threads, ReplaceCheckpoint(t)
    PROVE  CheckpointsInv'
  <1> DEFINE k == t[1]
             new == [owner |-> k, name |-> name[t], time |-> stamp[t]]
  <1>1. k \in Instances /\ t \in {Tools(k), Watcher(k)} /\ Tools(k) \in Threads
    BY ThreadsOfInstances
  <1>2. /\ pc[t] = "written" /\ pc' = [pc EXCEPT ![t] = "replaced"]
        /\ files' = (files \ Present({new})) \cup {new}
        /\ latest' = IF mixed[k] THEN latest ELSE [latest EXCEPT ![k] = stamp[t]]
        /\ created' = [created EXCEPT ![k] = @ + 1]
        /\ name' = [name EXCEPT ![t] = NoName]
        /\ stamp' = [stamp EXCEPT ![t] = 0]
        /\ UNCHANGED <<clock, listed, mixed, answer, since>>
    BY DEF ReplaceCheckpoint, Goes, resumeVars
  <1>3. Typed /\ ThreadInv(t)
    BY DEF CheckpointsInv
  <1>4. /\ created[k] \in Nat /\ name[t] \in Name /\ stamp[t] \in Nat /\ clock \in Nat
        /\ 0 < stamp[t] /\ stamp[t] <= clock /\ name[t][1] \in Nat /\ name[t][1] <= created[k]
        /\ ~mixed[k] => name[t][1] = created[k]
        /\ ~mixed[k] => \A f \in OwnedBy(k, files) : f.time < stamp[t]
    BY <1>1, <1>2, <1>3 DEF Typed, ThreadInv, Saving, Name
  <1>5. new \in File /\ files \in SUBSET File /\ files' \in SUBSET File
    BY <1>1, <1>2, <1>3, <1>4 DEF File, Typed
  <1>6. Typed'
    BY <1>1, <1>2, <1>3, <1>4, <1>5 DEF Typed, Steps, NoName, Name
  <1>7. /\ pc'[t] = "replaced" /\ created'[k] = created[k] + 1
        /\ latest'[k] = IF mixed[k] THEN latest[k] ELSE stamp[t]
        /\ \A u \in Threads \ {t} : pc'[u] = pc[u] /\ name'[u] = name[u] /\ stamp'[u] = stamp[u]
        /\ \A i \in Instances \ {k} : created'[i] = created[i] /\ latest'[i] = latest[i]
    BY <1>1, <1>2, <1>3 DEF Typed
  <1>8. Present({new}) = {f \in files : SameName(f, new)}
    BY DEF Present
  <1>9. ~mixed[k] => Present({new}) = {}
    <2> SUFFICES ASSUME ~mixed[k], NEW f \in files, SameName(f, new) PROVE FALSE
      BY <1>8
    <2>1. f.owner = k /\ f.name = name[t] /\ f.name[1] < created[k] /\ name[t][1] = created[k]
      BY <1>4 DEF CheckpointsInv, ShelfInv, SameName
    <2> QED
      BY <1>4, <2>1
  <1>13. new.owner = k /\ new.name = name[t] /\ new.time = stamp[t]
    BY DEF new
  <1> HIDE DEF new
  <1>10. \A i \in Instances \ {k} : OwnedBy(i, files') = OwnedBy(i, files)
    BY <1>2, <1>8, <1>13 DEF OwnedBy, SameName
  <1>11. ~mixed[k] => OwnedBy(k, files') = OwnedBy(k, files) \cup {new}
    BY <1>2, <1>9, <1>13 DEF OwnedBy
  <1>12. \A u \in Threads \ {t} : Saving(u)' <=> Saving(u)
    BY <1>7 DEF Saving
  <1>14. \A f \in File : f.name[1] \in Nat /\ created[f.owner] \in Nat /\ created'[f.owner] \in Nat
                         /\ created[f.owner] <= created'[f.owner]
    <2> SUFFICES ASSUME NEW f \in File
                 PROVE  /\ f.name[1] \in Nat /\ created[f.owner] \in Nat
                        /\ created'[f.owner] \in Nat /\ created[f.owner] <= created'[f.owner]
      OBVIOUS
    <2>1. f.owner \in Instances /\ f.name[1] \in Nat
      BY DEF File, Name
    <2>2. created[f.owner] \in Nat
      BY <1>3, <2>1 DEF Typed
    <2> QED
      BY <1>7, <2>1, <2>2
  <1>15. ShelfInv'
    <2>1. \A f, g \in files' : SameName(f, g) => f = g
      BY <1>2, <1>8 DEF CheckpointsInv, ShelfInv, SameName
    <2>2. ASSUME NEW f \in files' PROVE f.time <= clock' /\ f.name[1] < created'[f.owner]
      <3>1. CASE f = new
        BY <1>2, <1>4, <1>7, <1>13, <3>1
      <3>2. CASE f # new
        <4>1. f \in files /\ f \in File /\ f.name[1] < created[f.owner] /\ f.time <= clock
          BY <1>2, <1>5, <3>2 DEF CheckpointsInv, ShelfInv
        <4>2. f.name[1] \in Nat /\ created[f.owner] \in Nat /\ created'[f.owner] \in Nat
              /\ created[f.owner] <= created'[f.owner]
          BY <1>14, <4>1
        <4> QED
          BY <1>2, <4>1, <4>2
      <3> QED
        BY <3>1, <3>2
    <2>3. ASSUME NEW i \in Instances
          PROVE  /\ mixed'[i] => latest'[i] = 0
                 /\ Saving(Tools(i))' /\ Saving(Watcher(i))' => mixed'[i]
      <3>1. Saving(Tools(i))' => Saving(Tools(i))
        BY <1>7, <1>12, ThreadsOfInstances DEF Saving
      <3>2. Saving(Watcher(i))' => Saving(Watcher(i))
        BY <1>7, <1>12, ThreadsOfInstances DEF Saving
      <3>3. mixed[i] => latest'[i] = latest[i]
        BY <1>7
      <3> QED
        BY <1>2, <3>1, <3>2, <3>3 DEF CheckpointsInv, ShelfInv
    <2> QED
      BY <2>1, <2>2, <2>3 DEF ShelfInv
  <1>16. ASSUME NEW u \in Threads PROVE ThreadInv(u)'
    <2>0. u[1] \in Instances /\ ThreadInv(u) /\ listed[u] \in SUBSET File /\ listed'[u] = listed[u]
      BY <1>2, <1>3, ThreadsOfInstances DEF CheckpointsInv, Typed
    <2>1. \A f \in listed'[u] : f.time <= clock' /\ f.name[1] < created'[f.owner]
      <3> SUFFICES ASSUME NEW f \in listed[u]
                   PROVE  f.time <= clock' /\ f.name[1] < created'[f.owner]
        BY <2>0
      <3>1. f \in File /\ f.name[1] < created[f.owner] /\ f.time <= clock'
        BY <1>2, <2>0 DEF ThreadInv
      <3>2. f.name[1] \in Nat /\ created[f.owner] \in Nat /\ created'[f.owner] \in Nat
            /\ created[f.owner] <= created'[f.owner]
        BY <1>14, <3>1
      <3> QED
        BY <3>1, <3>2
    <2>2. CASE u = t
      BY <1>7, <2>1, <2>2 DEF ThreadInv, Saving
    <2>3. CASE u # t /\ u[1] # k
      BY <1>2, <1>7, <1>10, <1>12, <2>0, <2>1, <2>3 DEF ThreadInv, OwnedBy
    <2>4. CASE u # t /\ u[1] = k
      <3>1. pc'[u] = pc[u] /\ name'[u] = name[u] /\ stamp'[u] = stamp[u]
        BY <1>7, <2>4
      <3>2. Saving(u) => mixed[k]
        BY <1>1, <1>2, <2>4, ThreadsOfInstances DEF CheckpointsInv, ShelfInv, Saving
      <3>3. Saving(u) => name[u][1] <= created'[k]
        <4>1. Saving(u) => name[u][1] <= created[k]
          BY <2>0, <2>4 DEF ThreadInv
        <4>2. name[u][1] \in Nat
          BY <1>3 DEF Typed, Name
        <4> QED
          BY <1>4, <1>7, <4>1, <4>2
      <3>4. pc[u] = "unlinking" => \A f \in listed'[u], g \in OwnedBy(k, files)' :
               g.time = latest'[k] => f.name # g.name
        <4> SUFFICES ASSUME pc[u] = "unlinking", NEW f \in listed[u],
                            NEW g \in OwnedBy(k, files'), g.time = latest'[k]
                     PROVE  f.name # g.name
          BY <2>0 DEF OwnedBy
        <4>1. CASE mixed[k]
          BY <1>5, <1>7, <4>1 DEF CheckpointsInv, ShelfInv, OwnedBy, File
        <4>2. CASE ~mixed[k]
          <5>1. g = new
            BY <1>4, <1>5, <1>7, <1>11, <4>2 DEF OwnedBy, File
          <5>2. g.name[1] = created[k]
            BY <1>4, <1>13, <4>2, <5>1
          <5>3. f \in File /\ f.owner = k /\ f.name[1] < created[k]
            BY <2>0, <2>4 DEF ThreadInv
          <5> QED
            BY <1>4, <1>14, <5>2, <5>3
        <4> QED
          BY <4>1, <4>2
      <3> QED
        BY <1>2, <2>0, <2>1, <2>4, <3>1, <3>2, <3>3, <3>4 DEF ThreadInv, Saving, OwnedBy
    <2> QED
      BY <2>2, <2>3, <2>4
  <1>17. ASSUME NEW i \in Instances, latest'[i] # 0
         PROVE  /\ \E f \in OwnedBy(i, files') : f.time = latest'[i]
                /\ \A f \in OwnedBy(i, files') : f.time <= latest'[i]
    <2>1. CASE i # k
      BY <1>7, <1>10, <1>17, <2>1 DEF CheckpointsInv, LastSavesSurvive
    <2>2. CASE i = k
      <3>1. ~mixed[k]
        BY <1>7, <1>17, <2>2 DEF CheckpointsInv, ShelfInv
      <3>2. \A f \in OwnedBy(k, files) : f.time \in Nat
        BY <1>5 DEF OwnedBy, File
      <3> QED
        BY <1>4, <1>7, <1>11, <1>13, <2>2, <3>1, <3>2
    <2> QED
      BY <2>1, <2>2
  <1>18. ASSUME NEW i \in Instances
         PROVE  /\ ResumeInv(i)'
                /\ (pc[Tools(i)] = "resumed")' /\ latest'[i] = since'[i] /\ latest'[i] # 0 =>
                      \E f \in answer'[i] : f.owner = i => f.time >= latest'[i]
    <2>1. CASE t = Tools(i)
      BY <1>7, <2>1 DEF ResumeInv
    <2>2. CASE t # Tools(i)
      <3>1. pc'[Tools(i)] = pc[Tools(i)] /\ latest[i] \in Nat /\ since[i] \in Nat
        BY <1>3, <1>7, <2>2, ThreadsOfInstances DEF Typed
      <3>2. CASE i # k
        <4>1. \A f \in files : f.owner = i => f \in files'
          BY <1>10, <3>2 DEF OwnedBy
        <4>2. \A f \in files' : f.owner = i => f \in files
          BY <1>10, <3>2 DEF OwnedBy
        <4>3. latest'[i] = latest[i]
          BY <1>7, <3>2
        <4>4. ResumeInv(i)'
          <5>1. ResumeInv(i) /\ listed' = listed /\ since' = since
            BY <1>2 DEF CheckpointsInv
          <5>2. \A f \in listed[Tools(i)] \cap files : f.owner = i => f \in files'
            BY <4>1
          <5>3. \A f, g : f.owner = i /\ SameName(f, g) => g.owner = i
            BY DEF SameName
          <5> QED
            BY <3>1, <4>2, <4>3, <5>1, <5>2, <5>3 DEF ResumeInv, SameName
        <4> QED
          BY <1>2, <3>1, <4>3, <4>4 DEF CheckpointsInv, ResumesAreNotBehind
      <3>3. CASE i = k /\ mixed[k]
        BY <1>2, <1>7, <3>1, <3>3
           DEF CheckpointsInv, ShelfInv, ResumeInv
      <3>4. CASE i = k /\ ~mixed[k]
        <4>1. pc[Tools(i)] \in {"listed", "sorted", "resumed"} =>
                 since[i] <= latest[i] /\ latest[i] < latest'[i]
          <5>1. latest[i] # 0 => \E f \in OwnedBy(i, files) : f.time = latest[i]
            BY DEF CheckpointsInv, LastSavesSurvive
          <5> QED
            BY <1>4, <1>7, <3>1, <3>4, <5>1 DEF CheckpointsInv, ResumeInv
        <4> QED
          BY <1>2, <1>4, <1>7, <3>1, <3>4, <4>1 DEF ResumeInv
      <3> QED
        BY <3>2, <3>3, <3>4
    <2> QED
      BY <2>1, <2>2
  <1>19. LastSavesSurvive' /\ ResumesAreNotBehind'
    BY <1>17, <1>18 DEF LastSavesSurvive, ResumesAreNotBehind, OwnedBy
  <1> QED
    BY <1>6, <1>15, <1>16, <1>18, <1>19 DEF CheckpointsInv

LEMMA UnlinkStep ==
    ASSUME CheckpointsInv, NEW t \in Threads, Unlink(t)
    PROVE  CheckpointsInv'
  <1> DEFINE k == t[1]
  <1>1. k \in Instances /\ t \in {Tools(k), Watcher(k)} /\ Tools(k) \in Threads
    BY ThreadsOfInstances
  <1>2. PICK f \in listed[t] :
           /\ pc[t] = "unlinking"
           /\ pc' = [pc EXCEPT ![t] = IF listed[t] = {f} THEN "idle" ELSE "unlinking"]
           /\ files' = files \ Present({f})
           /\ listed' = [listed EXCEPT ![t] = @ \ {f}]
    BY DEF Unlink, Goes
  <1>3. UNCHANGED <<created, clock, name, stamp, latest, mixed, answer, since>>
    BY DEF Unlink, nameVars, resumeVars
  <1>4. Typed /\ ThreadInv(t) /\ files' \subseteq files
    BY <1>2 DEF CheckpointsInv
  <1>5. Typed'
    BY <1>2, <1>3, <1>4 DEF Typed, Steps
  <1>6. /\ pc'[t] \in {"idle", "unlinking"} /\ listed'[t] = listed[t] \ {f}
        /\ \A u \in Threads \ {t} : pc'[u] = pc[u] /\ listed'[u] = listed[u]
    BY <1>2, <1>4 DEF Typed
  <1>7. \A u \in Threads : listed'[u] \subseteq listed[u] /\ (Saving(u)' => Saving(u))
    BY <1>6 DEF Saving
  <1>8. f.owner = k /\ \A g \in OwnedBy(k, files) : g.time = latest[k] => f.name # g.name
    BY <1>2, <1>4 DEF ThreadInv
  <1>9. \A g \in files : g.time = latest[g.owner] \/ g.owner # k => g \in files'
    BY <1>2, <1>8 DEF Present, SameName, OwnedBy
  <1>10. ShelfInv'
    BY <1>3, <1>4, <1>7, ThreadsOfInstances DEF CheckpointsInv, ShelfInv, SameName
  <1>11. ASSUME NEW u \in Threads PROVE ThreadInv(u)'
    <2>1. ThreadInv(u) /\ (u # t => pc'[u] = pc[u]) /\ (u = t => pc'[u] # "written" /\ ~Saving(u)')
          /\ (pc'[u] = "unlinking" => pc[u] = "unlinking")
          /\ (pc'[u] \in {"pruning", "unlinking"} => pc[u] \in {"pruning", "unlinking"})
      BY <1>2, <1>6 DEF CheckpointsInv, Saving
    <2>2. OwnedBy(u[1], files)' \subseteq OwnedBy(u[1], files)
      BY <1>4 DEF OwnedBy
    <2> QED
      BY <1>3, <1>7, <2>1, <2>2 DEF ThreadInv
  <1>12. LastSavesSurvive'
    <2> SUFFICES ASSUME NEW i \in Instances, latest[i] # 0
                 PROVE  /\ \E g \in OwnedBy(i, files') : g.time = latest[i]
                        /\ \A g \in OwnedBy(i, files') : g.time <= latest[i]
      BY <1>3 DEF LastSavesSurvive, OwnedBy
    <2>1. PICK g \in OwnedBy(i, files) : g.time = latest[i]
      BY DEF CheckpointsInv, LastSavesSurvive
    <2>2. g \in OwnedBy(i, files')
      BY <1>9, <2>1 DEF OwnedBy
    <2>3. OwnedBy(i, files') \subseteq OwnedBy(i, files)
      BY <1>4 DEF OwnedBy
    <2> QED
      BY <2>1, <2>2, <2>3 DEF CheckpointsInv, LastSavesSurvive
  <1>13. ASSUME NEW i \in Instances
         PROVE  /\ ResumeInv(i)'
                /\ (pc[Tools(i)] = "resumed")' /\ latest'[i] = since'[i] /\ latest'[i] # 0 =>
                      \E g \in answer'[i] : g.owner = i => g.time >= latest'[i]
    <2>1. CASE t = Tools(i)
      BY <1>6, <2>1 DEF ResumeInv
    <2>2. CASE t # Tools(i)
      <3>1. pc'[Tools(i)] = pc[Tools(i)] /\ listed'[Tools(i)] = listed[Tools(i)] /\ ResumeInv(i)
        BY <1>6, <2>2, ThreadsOfInstances DEF CheckpointsInv
      <3>2. \A g \in files : g.owner = i /\ g.time = latest[i] => g \in files'
        BY <1>9
      <3>3. ResumeInv(i)'
        BY <1>3, <1>4, <3>1, <3>2 DEF ResumeInv, SameName
      <3> QED
        BY <1>3, <3>1, <3>3 DEF CheckpointsInv, ResumesAreNotBehind
    <2> QED
      BY <2>1, <2>2
  <1> QED
    BY <1>5, <1>10, <1>11, <1>12, <1>13 DEF CheckpointsInv, ResumesAreNotBehind
-----------------------------------------------------------------------------
\* A set of counts that has a bound has a greatest member.
LEMMA BoundedHaveGreatest ==
    ASSUME NEW n \in Nat, NEW S \in SUBSET Nat, S # {}, \A t \in S : t <= n
    PROVE  \E t \in S : \A u \in S : u <= t
  <1> DEFINE R == {pair \in Nat \X Nat : pair[1] < pair[2]}
             T == {n - t : t \in S}
  <1>1. T \subseteq Nat /\ T # {}
    <2>1. \A t \in S : n - t \in Nat
      OBVIOUS
    <2>2. PICK t \in S : TRUE
      OBVIOUS
    <2>3. n - t \in T
      OBVIOUS
    <2> QED
      BY <2>1, <2>3
  <1>2. IsWellFoundedOn(R, Nat)
    BY NatLessThanWellFounded DEF OpToRel
  <1>3. PICK x \in T : \A y \in T : <<y, x>> \notin R
    <2> HIDE DEF T, R
    <2> QED
      BY <1>1, <1>2, WFMin
  <1>4. \A y \in T : ~(y < x)
    BY <1>1, <1>3
  <1>5. PICK t \in S : x = n - t
    OBVIOUS
  <1>6. ASSUME NEW u \in S
        PROVE  u <= t
    <2>1. n - u \in T
      OBVIOUS
    <2> QED
      BY <1>4, <1>5, <2>1
  <1> QED
    BY <1>5, <1>6

\* The newest file of a listing is one of it, and none is newer.
LEMMA NewestIsNewest ==
    ASSUME NEW shelf \in SUBSET File, shelf # {}, NEW n \in Nat,
           \A f \in shelf : f.time <= n
    PROVE  Newest(shelf) \in shelf /\ \A f \in shelf : f.time <= Newest(shelf).time
  <1> DEFINE S == {f.time : f \in shelf}
  <1>1. S \in SUBSET Nat /\ S # {} /\ \A t \in S : t <= n
    BY DEF File
  <1>2. PICK t \in S : \A u \in S : u <= t
    <2> HIDE DEF S
    <2> QED
      BY <1>1, BoundedHaveGreatest
  <1>3. PICK f \in shelf : f.time = t
    OBVIOUS
  <1>4. Newer(f, shelf) = {}
    BY <1>2, <1>3 DEF Newer, File
  <1>5. Newest(shelf) \in shelf /\ Newer(Newest(shelf), shelf) = {}
    BY <1>4 DEF Newest
  <1> QED
    BY <1>5 DEF Newer, File

\* The steps of a resume.  What it lists is in the directory, the last save of
\* its instance included, unless that saves meanwhile.
LEMMA ListStep ==
    ASSUME CheckpointsInv, NEW k \in Instances, List(k)
    PROVE  CheckpointsInv'
  <1> DEFINE t == Tools(k)
  <1>1. t \in Threads /\ t[1] = k /\ \A i : t # Tools(i) => i # k
    BY ThreadsOfInstances
  <1> HIDE DEF t
  <1>2. /\ pc[t] = "idle" /\ pc' = [pc EXCEPT ![t] = "listed"]
        /\ listed' = [listed EXCEPT ![t] = files]
        /\ since' = [since EXCEPT ![k] = latest[k]]
        /\ UNCHANGED <<created, clock, name, stamp, files, latest, mixed, answer>>
    BY DEF List, Goes, nameVars, t
  <1>3. Typed
    BY DEF CheckpointsInv
  <1>4. Typed'
    BY <1>1, <1>2, <1>3 DEF Typed, Steps
  <1>5. pc'[t] = "listed" /\ listed'[t] = files /\ since'[k] = latest[k] /\ latest[k] \in Nat
    BY <1>1, <1>2, <1>3 DEF Typed
  <1>6. OthersRest(t) /\ Quiet
    BY <1>1, <1>2, <1>3 DEF OthersRest, Quiet, Typed
  <1>7. ThreadInv(t)' /\ ~Saving(t)'
    BY <1>1, <1>2, <1>5 DEF ThreadInv, Saving, CheckpointsInv, ShelfInv
  <1>8. ResumeInv(k)'
    BY <1>2, <1>5 DEF ResumeInv, CheckpointsInv, LastSavesSurvive, OwnedBy, t
  <1> QED
    BY <1>1, <1>4, <1>5, <1>6, <1>7, <1>8, QuietStep DEF t

LEMMA SortStep ==
    ASSUME CheckpointsInv, NEW k \in Instances, Sort(k)
    PROVE  CheckpointsInv'
  <1> DEFINE t == Tools(k)
  <1>1. t \in Threads /\ t[1] = k
    BY ThreadsOfInstances
  <1> HIDE DEF t
  <1>2. /\ pc[t] = "listed" /\ pc' = [pc EXCEPT ![t] = "sorted"]
        /\ listed' = [listed EXCEPT ![t] = Present(@)]
        /\ UNCHANGED <<created, clock, name, stamp, files, latest, mixed, answer, since>>
    BY DEF Sort, Goes, nameVars, resumeVars, t
  <1>3. Typed /\ Present(listed[t]) \subseteq files
    BY DEF CheckpointsInv, Present
  <1>4. Typed'
    BY <1>1, <1>2, <1>3 DEF Typed, Steps
  <1>5. pc'[t] = "sorted" /\ listed'[t] = Present(listed[t])
    BY <1>1, <1>2, <1>3 DEF Typed
  <1>6. OthersRest(t) /\ Quiet
    BY <1>1, <1>2, <1>3 DEF OthersRest, Quiet, Typed
  <1>7. ThreadInv(t)' /\ ~Saving(t)'
    BY <1>1, <1>2, <1>3, <1>5 DEF ThreadInv, Saving, CheckpointsInv, ShelfInv
  <1>8. ResumeInv(k)'
    <2>1. listed[t] \cap files \subseteq listed'[t]
      BY <1>5 DEF Present, SameName
    <2>2. \A f \in listed'[t], g \in files : SameName(f, g) => f = g
      BY <1>3, <1>5 DEF CheckpointsInv, ShelfInv
    <2>3. ResumeInv(k)
      BY DEF CheckpointsInv
    <2> QED
      BY <1>2, <1>5, <2>1, <2>2, <2>3 DEF ResumeInv, t
  <1> QED
    BY <1>1, <1>4, <1>5, <1>6, <1>7, <1>8, QuietStep DEF t

LEMMA SkipStep ==
    ASSUME CheckpointsInv, NEW k \in Instances, Skip(k)
    PROVE  CheckpointsInv'
  <1> DEFINE t == Tools(k)
             top == Newest(listed[t])
  <1>1. t \in Threads /\ t[1] = k
    BY ThreadsOfInstances
  <1>2. pc[t] = "sorted" /\ Present({top}) = {}
    BY DEF Skip
  <1>3. /\ listed' = [listed EXCEPT ![t] = @ \ {top}]
        /\ UNCHANGED <<pc, created, clock, name, stamp, files, latest, mixed, answer, since>>
    BY DEF Skip, nameVars, resumeVars
  <1> HIDE DEF t, top
  <1>4. Typed /\ ThreadInv(t) /\ ResumeInv(k)
    BY <1>1 DEF CheckpointsInv
  <1>5. Typed'
    BY <1>1, <1>3, <1>4 DEF Typed
  <1>6. listed'[t] = listed[t] \ {top}
    BY <1>1, <1>3, <1>4 DEF Typed
  <1>7. OthersRest(t) /\ Quiet
    BY <1>1, <1>3, <1>4 DEF OthersRest, Quiet, Typed
  <1>8. ThreadInv(t)' /\ ~Saving(t)'
    BY <1>1, <1>2, <1>3, <1>4, <1>6 DEF ThreadInv, Saving
  <1>9. top \notin files
    BY <1>2 DEF Present, SameName
  <1>10. ResumeInv(k)'
    BY <1>2, <1>3, <1>4, <1>6, <1>9 DEF ResumeInv, t
  <1> QED
    BY <1>1, <1>2, <1>3, <1>5, <1>7, <1>8, <1>10, QuietStep DEF t

LEMMA ResumeStep ==
    ASSUME CheckpointsInv, NEW k \in Instances, Resume(k)
    PROVE  CheckpointsInv'
  <1> DEFINE t == Tools(k)
             top == Newest(listed[t])
  <1>1. t \in Threads /\ t[1] = k /\ \A i : t # Tools(i) => i # k
    BY ThreadsOfInstances
  <1>2. pc[t] = "sorted" /\ listed[t] # {} /\ Present({top}) # {}
    BY DEF Resume
  <1>3. /\ pc' = [pc EXCEPT ![t] = "resumed"]
        /\ listed' = [listed EXCEPT ![t] = {}]
        /\ answer' = [answer EXCEPT ![k] = Present({top})]
        /\ UNCHANGED <<created, clock, name, stamp, files, latest, mixed, since>>
    BY DEF Resume, Goes, nameVars
  <1> HIDE DEF t
  <1>4. Typed /\ ThreadInv(t) /\ ResumeInv(k) /\ Present({top}) \subseteq files
    BY <1>1 DEF CheckpointsInv, Present
  <1>5. top \in listed[t] /\ \A f \in listed[t] : f.time <= top.time
    <2>1. listed[t] \in SUBSET File /\ clock \in Nat /\ \A f \in listed[t] : f.time <= clock
      BY <1>1, <1>4 DEF Typed, ThreadInv
    <2> QED
      BY <1>2, <2>1, NewestIsNewest
  <1> HIDE DEF top
  <1>6. Typed'
    BY <1>1, <1>3, <1>4 DEF Typed, Steps
  <1>7. pc'[t] = "resumed" /\ listed'[t] = {} /\ answer'[k] = Present({top})
    BY <1>1, <1>3, <1>4 DEF Typed
  <1>8. OthersRest(t) /\ Quiet
    BY <1>1, <1>3, <1>4 DEF OthersRest, Quiet, Typed
  <1>9. ThreadInv(t)' /\ ~Saving(t)'
    BY <1>7 DEF ThreadInv, Saving
  <1>10. ResumeInv(k)'
    BY <1>2, <1>3, <1>4, <1>7 DEF ResumeInv, t
  <1>11. latest[k] = since'[k] /\ latest[k] # 0 =>
            \E f \in answer'[k] : f.owner = k => f.time >= latest[k]
    <2> SUFFICES ASSUME latest[k] = since[k], latest[k] # 0
                 PROVE  \E f \in Present({top}) : f.owner = k => f.time >= latest[k]
      BY <1>3, <1>7
    <2>1. PICK f \in Present({top}) : f \in files /\ SameName(f, top)
      BY <1>2 DEF Present
    <2>2. PICK g \in listed[t] : g.owner = k /\ g.time = latest[k]
      BY <1>2, <1>4 DEF ResumeInv, t
    <2>3. ASSUME f.owner = k PROVE f.time >= latest[k]
      <3>1. top = f
        BY <1>2, <1>4, <1>5, <2>1, <2>3 DEF ResumeInv, SameName, t
      <3>2. g.time <= f.time /\ g.time \in Nat /\ f.time \in Nat
        BY <1>1, <1>4, <1>5, <2>1, <2>2, <3>1 DEF Typed, File
      <3> QED
        BY <2>2, <3>2
    <2> QED
      BY <2>1, <2>3
  <1> QED
    BY <1>1, <1>6, <1>8, <1>9, <1>10, <1>11, QuietStep DEF t

\* A resume that finds nothing has no checkpoint of its own to find.
LEMMA FindNothingStep ==
    ASSUME CheckpointsInv, NEW k \in Instances, FindNothing(k)
    PROVE  CheckpointsInv'
  <1> DEFINE t == Tools(k)
  <1>1. t \in Threads /\ t[1] = k
    BY ThreadsOfInstances
  <1> HIDE DEF t
  <1>2. /\ pc[t] = "sorted" /\ listed[t] = {} /\ pc' = [pc EXCEPT ![t] = "resumed"]
        /\ UNCHANGED <<created, clock, name, stamp, files, listed, latest, mixed, answer, since>>
    BY DEF FindNothing, Goes, nameVars, resumeVars, t
  <1>3. Typed /\ ThreadInv(t) /\ ResumeInv(k)
    BY <1>1 DEF CheckpointsInv
  <1>4. Typed'
    BY <1>1, <1>2, <1>3 DEF Typed, Steps
  <1>5. pc'[t] = "resumed"
    BY <1>1, <1>2, <1>3 DEF Typed
  <1>6. OthersRest(t) /\ Quiet
    BY <1>1, <1>2, <1>3 DEF OthersRest, Quiet, Typed
  <1>7. ThreadInv(t)' /\ ~Saving(t)'
    BY <1>2, <1>5 DEF ThreadInv, Saving
  <1>8. ~ (latest[k] = since[k] /\ latest[k] # 0)
    BY <1>2, <1>3 DEF ResumeInv, t
  <1>9. ResumeInv(k)'
    BY <1>2, <1>3, <1>5, <1>8 DEF ResumeInv, t
  <1> QED
    BY <1>1, <1>2, <1>4, <1>6, <1>7, <1>8, <1>9, QuietStep DEF t
-----------------------------------------------------------------------------
LEMMA CheckpointsInvIsInductive ==
    CheckpointsInv /\ [CheckpointsNext]_vars => CheckpointsInv'
  <1> SUFFICES ASSUME CheckpointsInv, [CheckpointsNext]_vars PROVE CheckpointsInv'
    OBVIOUS
  <1>1. ASSUME NEW t \in Threads, IngestFragment(t) \/ Refuse(t) \/ FailToSort(t)
        PROVE  CheckpointsInv'
    BY <1>1, RestingSteps
  <1>2. ASSUME NEW t \in Threads, NameCheckpoint(t) PROVE CheckpointsInv'
    BY <1>2, NameCheckpointStep
  <1>3. ASSUME NEW t \in Threads, WriteCheckpoint(t) PROVE CheckpointsInv'
    BY <1>3, WriteCheckpointStep
  <1>4. ASSUME NEW t \in Threads, ReplaceCheckpoint(t) PROVE CheckpointsInv'
    BY <1>4, ReplaceCheckpointStep
  <1>5. ASSUME NEW t \in Threads, ListOwn(t) PROVE CheckpointsInv'
    BY <1>5, ListOwnStep
  <1>6. ASSUME NEW t \in Threads, SortOwn(t) PROVE CheckpointsInv'
    BY <1>6, SortOwnStep
  <1>7. ASSUME NEW t \in Threads, Unlink(t) PROVE CheckpointsInv'
    BY <1>7, UnlinkStep
  <1>8. ASSUME NEW i \in Instances,
               Start(i) \/ StartWatcher(i) \/ SaveNow(i) \/ Interrupt(i) \/ Return(i)
        PROVE  CheckpointsInv'
    BY <1>8, RestingSteps
  <1>9. ASSUME NEW i \in Instances, Crash(i) PROVE CheckpointsInv'
    BY <1>9, CrashStep
  <1>10. ASSUME NEW i \in Instances, List(i) PROVE CheckpointsInv'
    BY <1>10, ListStep
  <1>11. ASSUME NEW i \in Instances, Sort(i) PROVE CheckpointsInv'
    BY <1>11, SortStep
  <1>12. ASSUME NEW i \in Instances, Skip(i) PROVE CheckpointsInv'
    BY <1>12, SkipStep
  <1>13. ASSUME NEW i \in Instances, Resume(i) PROVE CheckpointsInv'
    BY <1>13, ResumeStep
  <1>14. ASSUME NEW i \in Instances, FindNothing(i) PROVE CheckpointsInv'
    BY <1>14, FindNothingStep
  <1>15. CASE UNCHANGED vars
    BY <1>15 DEF vars, nameVars, resumeVars, CheckpointsInv, Typed, ShelfInv, ThreadInv,
        ResumeInv, LastSavesSurvive, ResumesAreNotBehind, Saving, OwnedBy, SameName
  <1> QED
    BY <1>1, <1>2, <1>3, <1>4, <1>5, <1>6, <1>7, <1>8, <1>9, <1>10, <1>11, <1>12, <1>13,
       <1>14, <1>15 DEF CheckpointsNext

LEMMA CheckpointsInvHolds == CheckpointsSpec => []CheckpointsInv
  BY CheckpointsInitHolds, CheckpointsInvIsInductive, PTL DEF CheckpointsSpec

(* Wherever processes stop, and whatever their peers and their own threads *)
(* remove, the checkpoint of an instance's last save is in the directory   *)
(* and the newest of that instance, unless saves of it overlapped (save()).*)
THEOREM SavesSurvive == CheckpointsSpec => []LastSavesSurvive
  <1>1. CheckpointsInv => LastSavesSurvive
    BY DEF CheckpointsInv
  <1> QED
    BY <1>1, CheckpointsInvHolds, PTL

(* A resume that gets past the listing answers nothing of its own that is  *)
(* older than its instance's last save, and finds something if there was   *)
(* one, unless the watcher saves meanwhile (load_latest).                  *)
THEOREM ResumesCatchUp == CheckpointsSpec => []ResumesAreNotBehind
  <1>1. CheckpointsInv => ResumesAreNotBehind
    BY DEF CheckpointsInv
  <1> QED
    BY <1>1, CheckpointsInvHolds, PTL
-----------------------------------------------------------------------------
(***************************************************************************)
(* The index.  Its one temporary name is safe in the hands of one writer   *)
(* at a time, wherever that one stops or fails: what is renamed is what it *)
(* has finished.  OneWriter is what a lock would give, from the opening of *)
(* the file to its renaming.                                               *)
(***************************************************************************)
AtIndex(w) == at[w] \in {"opened", "filled"}

OneWriter == \A v, w \in Writers : AtIndex(v) /\ AtIndex(w) => v = w

IndexInv ==
    /\ at \in [Writers -> {"idle", "opened", "filled"}]
    /\ handle \in [Writers -> {"closed", "tmp"}]
    /\ tmp \in {"none", "empty", "whole"}
    /\ index \in {"none", "whole"}
    /\ \A w \in Writers :
          /\ handle[w] = "tmp" <=> at[w] = "opened"
          /\ at[w] = "opened" => tmp = "empty"
          /\ at[w] = "filled" => tmp = "whole"

LEMMA IndexInvIsKept ==
    IndexInv /\ OneWriter /\ OneWriter' /\ [IndexNext]_indexVars => IndexInv'
  <1> SUFFICES ASSUME IndexInv, OneWriter, OneWriter', [IndexNext]_indexVars
               PROVE  IndexInv'
    OBVIOUS
  <1> USE DEF IndexInv
  <1>1. ASSUME NEW w \in Writers, OpenIndex(w) PROVE IndexInv'
    <2>1. at'[w] = "opened" /\ handle'[w] = "tmp" /\ tmp' = "empty" /\ index' = index
      BY <1>1 DEF OpenIndex
    <2>2. \A v \in Writers \ {w} : ~AtIndex(v)' /\ at'[v] = at[v] /\ handle'[v] = handle[v]
      BY <1>1, <2>1 DEF OneWriter, AtIndex, OpenIndex
    <2>3. at' \in [Writers -> {"idle", "opened", "filled"}]
          /\ handle' \in [Writers -> {"closed", "tmp"}]
      BY <1>1 DEF OpenIndex
    <2> QED
      BY <2>1, <2>2, <2>3 DEF AtIndex
  <1>2. ASSUME NEW w \in Writers, WriteIndex(w) PROVE IndexInv'
    <2>1. tmp' = "whole" /\ index' = index
      BY <1>2 DEF WriteIndex, Written
    <2>2. at'[w] = "filled" /\ handle'[w] = "closed"
      BY <1>2 DEF WriteIndex
    <2>3. \A v \in Writers \ {w} : ~AtIndex(v) /\ at'[v] = at[v] /\ handle'[v] = handle[v]
      BY <1>2 DEF OneWriter, AtIndex, WriteIndex
    <2>4. at' \in [Writers -> {"idle", "opened", "filled"}]
          /\ handle' \in [Writers -> {"closed", "tmp"}]
      BY <1>2 DEF WriteIndex
    <2> QED
      BY <2>1, <2>2, <2>3, <2>4 DEF AtIndex
  <1>3. ASSUME NEW w \in Writers, GiveUpIndex(w) PROVE IndexInv'
    BY <1>3 DEF GiveUpIndex
  <1>4. ASSUME NEW w \in Writers, ReplaceIndex(w) PROVE IndexInv'
    <2>1. tmp = "whole" /\ at' = [at EXCEPT ![w] = "idle"]
      BY <1>4 DEF ReplaceIndex
    <2>2. index' = "whole" /\ tmp' = "none" /\ handle' = [v \in Writers |-> Renamed(handle[v])]
      BY <1>4, <2>1 DEF ReplaceIndex
    <2>3. \A v \in Writers \ {w} : ~AtIndex(v)
      BY <1>4 DEF OneWriter, AtIndex, ReplaceIndex
    <2>4. \A v \in Writers : handle[v] = "closed" /\ at'[v] = "idle"
      BY <1>4, <2>1, <2>3 DEF AtIndex, ReplaceIndex
    <2>5. handle' \in [Writers -> {"closed", "tmp"}] /\ \A v \in Writers : handle'[v] = "closed"
      BY <2>2, <2>4 DEF Renamed
    <2> QED
      BY <2>1, <2>2, <2>4, <2>5
  <1>5. CASE UNCHANGED indexVars
    BY <1>5 DEF indexVars, fileVars
  <1> QED
    BY <1>1, <1>2, <1>3, <1>4, <1>5 DEF IndexNext

\* The index can be read at all times, whoever stops or fails, if no two are
\* at it at once: the race for the temporary name is all that IndexRace shows
\* to be wrong, and a lock that excludes would mend it.
THEOREM OneWriterKeepsIndexWhole ==
    IndexSpec /\ []OneWriter => []IndexIsWhole
  <1>1. IndexInit => IndexInv
    BY DEF IndexInit, IndexInv
  <1>2. IndexInv => IndexIsWhole
    BY DEF IndexInv, IndexIsWhole
  <1> QED
    BY <1>1, <1>2, IndexInvIsKept, PTL DEF IndexSpec
-----------------------------------------------------------------------------
(***************************************************************************)
(* The skills: SkillsTypeOK is inductive, and with it what the router      *)
(* knows.  Each action is taken apart by the variables it changes.         *)
(***************************************************************************)
StoreTyped ==
    /\ DOMAIN age \subseteq 1 .. idCounter /\ Range(age) \subseteq 0 .. AgeLimit
    /\ idCounter \in 0 .. MaxIds
    /\ {ingesting, dirty} \subseteq BOOLEAN
    /\ snapshot \subseteq 1 .. idCounter

ClustersTyped ==
    /\ clusters \in Seq(Cluster) /\ Len(clusters) <= MaxClusters
    /\ \A n \in DOMAIN clusters : Len(clusters[n].window) \in 1 .. Window

VaultTyped ==
    /\ skills \in Seq(Skill) /\ Len(skills) <= MaxSkills
    /\ \A s \in DOMAIN skills : Len(skills[s].recipe) <= TopK
    /\ touched \subseteq DOMAIN skills

RouterTyped ==
    /\ loaded \subseteq Entry
    /\ \A e \in loaded : e.skill \in DOMAIN skills /\ e.recipe # <<>>

LEMMA TypesInParts ==
    SkillsTypeOK <=> StoreTyped /\ ClustersTyped /\ VaultTyped /\ RouterTyped
  BY DEF SkillsTypeOK, StoreTyped, ClustersTyped, VaultTyped, RouterTyped

LEMMA BoundsOfRecipes ==
    /\ MinSamples \in Nat /\ Window \in Nat \ {0}
    /\ Cooldown \in Nat \ {0} /\ TopK \in Nat \ {0} /\ MaxClusters \in Nat \ {0}
    /\ AgeLimit \in Nat /\ MaxIds \in Nat /\ MaxSkills \in Nat
    /\ Bounds \subseteq 0 .. 10 /\ Grades \subseteq 0 .. 10
  BY RecipesAssumption

LEMMA AgedTyped ==
    ASSUME StoreTyped
    PROVE  /\ DOMAIN Aged \subseteq 1 .. idCounter
           /\ DOMAIN Aged \subseteq Ids
           /\ \A i \in DOMAIN Aged : Aged[i] \in 0 .. AgeLimit
  <1>1. DOMAIN Aged = {j \in DOMAIN age : age[j] < AgeLimit}
    BY DEF Aged
  <1>2. DOMAIN Aged \subseteq 1 .. idCounter /\ DOMAIN Aged \subseteq Ids
    BY <1>1, BoundsOfRecipes DEF StoreTyped, Ids
  <1>3. ASSUME NEW i \in DOMAIN Aged PROVE Aged[i] \in 0 .. AgeLimit
    <2>1. age[i] \in 0 .. AgeLimit /\ age[i] < AgeLimit
      BY <1>1, <1>3 DEF StoreTyped, Range
    <2>2. Aged[i] = age[i] + 1
      BY <1>1, <1>3 DEF Aged
    <2> QED
      BY <2>1, <2>2, BoundsOfRecipes
  <1> QED
    BY <1>2, <1>3

LEMMA TouchTyped ==
    ASSUME NEW ages, NEW S, NEW n,
           DOMAIN ages \subseteq 1 .. n, S \subseteq 1 .. n,
           \A i \in DOMAIN ages : ages[i] \in 0 .. AgeLimit
    PROVE  /\ DOMAIN Touch(ages, S) \subseteq 1 .. n
           /\ Range(Touch(ages, S)) \subseteq 0 .. AgeLimit
  <1>1. DOMAIN Touch(ages, S) = DOMAIN ages \cup S
    BY DEF Touch
  <1>2. ASSUME NEW i \in DOMAIN ages \cup S PROVE Touch(ages, S)[i] \in 0 .. AgeLimit
    <2>1. Touch(ages, S)[i] = IF i \in S THEN 0 ELSE ages[i]
      BY DEF Touch
    <2> QED
      BY <2>1, BoundsOfRecipes
  <1> QED
    BY <1>1, <1>2 DEF Range

LEMMA KnownTyped ==
    ASSUME VaultTyped, RouterTyped
    PROVE  /\ Known \subseteq Entry
           /\ \A e \in Known : e.skill \in DOMAIN skills /\ e.recipe # <<>>
  <1>1. ASSUME NEW s \in DOMAIN skills
        PROVE  EntryOf(s) \in Entry /\ EntryOf(s).skill = s
               /\ EntryOf(s).recipe = skills[s].recipe
    <2>1. skills[s] \in Skill /\ s \in 1 .. MaxSkills
      BY <1>1, BoundsOfRecipes DEF VaultTyped
    <2> QED
      BY <2>1 DEF EntryOf, Entry, Skill
  <1>2. Loadable \subseteq Entry
        /\ \A e \in Loadable : e.skill \in DOMAIN skills /\ e.recipe # <<>>
    BY <1>1 DEF Loadable
  <1> QED
    BY <1>2 DEF Known, RouterTyped

LEMMA SlideTyped ==
    ASSUME NEW w \in Seq(SUBSET Ids), Len(w) \in 1 .. Window, NEW S \in SUBSET Ids
    PROVE  Slide(w, S) \in Seq(SUBSET Ids) /\ Len(Slide(w, S)) \in 1 .. Window
  <1>1. CASE Len(w) = Window
    <2>1. Tail(w) \in Seq(SUBSET Ids) /\ Len(Tail(w)) = Len(w) - 1
      BY BoundsOfRecipes, HeadTailProperties
    <2>2. Append(Tail(w), S) \in Seq(SUBSET Ids) /\ Len(Append(Tail(w), S)) = Len(w)
      BY <2>1, AppendProperties
    <2> QED
      BY <1>1, <2>2 DEF Slide
  <1>2. CASE Len(w) # Window
    <2>1. Append(w, S) \in Seq(SUBSET Ids) /\ Len(Append(w, S)) = Len(w) + 1
      BY AppendProperties
    <2> QED
      BY <1>2, <2>1, BoundsOfRecipes DEF Slide
  <1> QED
    BY <1>1, <1>2

\* A sequence of clusters in which every window is within its bounds.
Clustered(cs) == cs \in Seq(Cluster) /\ \A n \in DOMAIN cs : Len(cs[n].window) \in 1 .. Window

LEMMA ObservedTyped ==
    ASSUME ClustersTyped, NEW q \in Queries, NEW S \in SUBSET Ids, NEW cs \in Observed(q, S)
    PROVE  Clustered(cs) /\ Len(cs) \in 1 .. MaxClusters
  <1> DEFINE joined(c) == [c EXCEPT !.window = Slide(@, S),
                                    !.rest   = IF @ = 0 THEN 0 ELSE @ - 1]
             room == IF Len(clusters) = MaxClusters THEN Tail(clusters) ELSE clusters
             fresh == [query |-> q, window |-> <<S>>, rest |-> 0]
  <1>1. ASSUME NEW before \in Seq(Cluster), Clustered(before), Len(before) < MaxClusters,
               NEW c \in Cluster, Len(c.window) \in 1 .. Window
        PROVE  Clustered(Append(before, c)) /\ Len(Append(before, c)) \in 1 .. MaxClusters
    <2>1. /\ Append(before, c) \in Seq(Cluster)
          /\ Len(Append(before, c)) = Len(before) + 1
          /\ \A i \in 1 .. Len(before) : Append(before, c)[i] = before[i]
          /\ Append(before, c)[Len(before) + 1] = c
      BY AppendProperties
    <2>2. DOMAIN Append(before, c) = 1 .. Len(before) + 1 /\ DOMAIN before = 1 .. Len(before)
      BY <2>1
    <2> QED
      BY <1>1, <2>1, <2>2, BoundsOfRecipes DEF Clustered
  <1>2. CASE \E n \in DOMAIN clusters : clusters[n].query = q
                 /\ cs = Append(RemoveAt(clusters, n), joined(clusters[n]))
    <2> HIDE DEF joined
    <2>0. DOMAIN clusters = 1 .. Len(clusters) /\ Len(clusters) \in Nat
      BY DEF ClustersTyped
    <2>1. PICK n \in 1 .. Len(clusters) : cs = Append(RemoveAt(clusters, n), joined(clusters[n]))
      BY <1>2, <2>0
    <2> USE DEF joined
    <2> DEFINE c == clusters[n]
    <2>2. c \in Cluster /\ Len(c.window) \in 1 .. Window
      BY DEF ClustersTyped
    <2>3. joined(c) \in Cluster /\ Len(joined(c).window) \in 1 .. Window
      <3> HIDE DEF c
      <3>1. c.window \in Seq(SUBSET Ids) /\ c.rest \in 0 .. Cooldown
        BY <2>2 DEF Cluster
      <3>2. Slide(c.window, S) \in Seq(SUBSET Ids) /\ Len(Slide(c.window, S)) \in 1 .. Window
        BY <2>2, <3>1, SlideTyped
      <3>3. (IF c.rest = 0 THEN 0 ELSE c.rest - 1) \in 0 .. Cooldown
        BY <3>1, BoundsOfRecipes
      <3> QED
        BY <2>2, <3>2, <3>3 DEF Cluster
    <2> DEFINE left == SubSeq(clusters, 1, n - 1)
               right == SubSeq(clusters, n + 1, Len(clusters))
    <2>4. /\ left \in Seq(Cluster) /\ Len(left) = n - 1
          /\ \A i \in 1 .. Len(left) : left[i] = clusters[i]
      BY SubSeqProperties DEF ClustersTyped
    <2>5. /\ right \in Seq(Cluster) /\ Len(right) = Len(clusters) - n
          /\ \A i \in 1 .. Len(right) : right[i] = clusters[n + i]
      BY SubSeqProperties DEF ClustersTyped
    <2> HIDE DEF left, right, c
    <2>6. /\ left \o right \in Seq(Cluster)
          /\ Len(left \o right) = Len(clusters) - 1
          /\ \A i \in DOMAIN (left \o right) : \E k \in DOMAIN clusters : (left \o right)[i] = clusters[k]
      <3>1. /\ left \o right \in Seq(Cluster) /\ Len(left \o right) = Len(left) + Len(right)
            /\ \A i \in 1 .. Len(left) + Len(right) : (left \o right)[i] =
                   IF i <= Len(left) THEN left[i] ELSE right[i - Len(left)]
        BY <2>4, <2>5, ConcatProperties
      <3>2. DOMAIN (left \o right) = 1 .. Len(left) + Len(right) /\ DOMAIN clusters = 1 .. Len(clusters)
        BY <3>1 DEF ClustersTyped
      <3>3. ASSUME NEW i \in 1 .. Len(left) + Len(right)
            PROVE  \E k \in DOMAIN clusters : (left \o right)[i] = clusters[k]
        <4>1. CASE i <= Len(left)
          <5>1. i \in 1 .. Len(left) /\ i \in DOMAIN clusters
            BY <2>0, <2>4, <3>3, <4>1
          <5> QED
            BY <2>4, <3>1, <3>3, <4>1, <5>1
        <4>2. CASE ~(i <= Len(left))
          <5>1. i - Len(left) \in 1 .. Len(right) /\ n + (i - Len(left)) \in DOMAIN clusters
            BY <2>4, <2>5, <3>2, <3>3, <4>2
          <5> QED
            BY <2>5, <3>1, <4>2, <5>1
        <4> QED
          BY <4>1, <4>2
      <3> QED
        <4>1. Len(left) + Len(right) = Len(clusters) - 1
          BY <2>0, <2>4, <2>5
        <4> QED
          BY <3>1, <3>2, <3>3, <4>1
    <2>7. Clustered(left \o right) /\ Len(left \o right) < MaxClusters
      BY <2>6, BoundsOfRecipes DEF Clustered, ClustersTyped
    <2>8. cs = Append(left \o right, joined(c))
      BY <2>1 DEF RemoveAt, left, right, c
    <2> QED
      BY <1>1, <2>3, <2>6, <2>7, <2>8
  <1>3. CASE cs = Append(room, fresh)
    <2>1. fresh \in Cluster /\ Len(fresh.window) \in 1 .. Window
      BY BoundsOfRecipes DEF Cluster
    <2>2. room \in Seq(Cluster) /\ Clustered(room) /\ Len(room) < MaxClusters
      <3>1. CASE Len(clusters) = MaxClusters
        <4>1. clusters # <<>>
          BY <3>1, BoundsOfRecipes
        <4>2. /\ Tail(clusters) \in Seq(Cluster)
              /\ Len(Tail(clusters)) = Len(clusters) - 1
              /\ \A i \in 1 .. Len(Tail(clusters)) : Tail(clusters)[i] = clusters[i + 1]
          BY <4>1, HeadTailProperties DEF ClustersTyped
        <4>3. DOMAIN Tail(clusters) = 1 .. Len(clusters) - 1 /\ DOMAIN clusters = 1 .. Len(clusters)
          BY <4>2 DEF ClustersTyped
        <4> QED
          BY <3>1, <4>2, <4>3, BoundsOfRecipes DEF Clustered, ClustersTyped
      <3>2. CASE Len(clusters) # MaxClusters
        BY <3>2, BoundsOfRecipes DEF Clustered, ClustersTyped
      <3> QED
        BY <3>1, <3>2
    <2> HIDE DEF room, fresh
    <2> QED
      BY <1>1, <1>3, <2>1, <2>2
  <1> QED
    BY <1>2, <1>3 DEF Observed

LEMMA RecipesTyped ==
    ASSUME NEW w \in Seq(SUBSET Ids), NEW r \in Recipes(w)
    PROVE  r \in Seq(Ids) /\ Len(r) <= TopK
  <1> DEFINE chosen == UNION Range(w)
             n == IF Cardinality(chosen) < TopK THEN Cardinality(chosen) ELSE TopK
  <1>1. chosen \subseteq Ids
    BY DEF Range
  <1>2. IsFiniteSet(chosen)
    <2> HIDE DEF chosen
    <2>1. IsFiniteSet(Ids)
      BY FS_Interval, BoundsOfRecipes DEF Ids
    <2> QED
      BY <1>1, <2>1, FS_Subset
  <1>3. Cardinality(chosen) \in Nat
    BY <1>2, FS_CardinalityType
  <1>4. n \in Nat /\ n <= TopK
    BY <1>3, BoundsOfRecipes
  <1>5. r \in [1 .. n -> chosen]
    BY DEF Recipes
  <1> HIDE DEF n, chosen
  <1> QED
    BY <1>1, <1>4, <1>5

LEMMA PagesTyped ==
    ASSUME NEW c \in Cluster, NEW s \in Pages(c)
    PROVE  s \in Skill /\ Len(s.recipe) <= TopK
  <1>1. c.query \in Queries /\ c.window \in Seq(SUBSET Ids)
    BY DEF Cluster
  <1>2. \A r \in Recipes(c.window) : r \in Seq(Ids) /\ Len(r) <= TopK
    BY <1>1, RecipesTyped
  <1>3. <<>> \in Seq(Ids) /\ Len(<<>>) <= TopK
    BY BoundsOfRecipes
  <1>4. \A f \in Bounds \cup {0} : f \in 0 .. 10
    BY BoundsOfRecipes
  <1> DEFINE skill(r, f) == [query |-> c.query, recipe |-> r, fitness |-> f, status |-> "promoted"]
  <1>5. ASSUME NEW r \in Seq(Ids), Len(r) <= TopK, NEW f \in 0 .. 10
        PROVE  skill(r, f) \in Skill /\ Len(skill(r, f).recipe) <= TopK
    BY <1>1, <1>5 DEF Skill
  <1>6. \/ \E r \in Recipes(c.window), f \in Bounds \cup {0} : s = skill(r, f)
        \/ s = skill(<<>>, 0)
    BY DEF Pages
  <1> HIDE DEF skill
  <1> QED
    BY <1>2, <1>3, <1>4, <1>5, <1>6

\* What the router has loaded is what the vault has: its entries have the recipe
\* of their skill, which was promoted and is so still if no tool has judged it.
RouterEchoesTheVault ==
    \A e \in loaded :
        /\ skills[e.skill].query = e.query /\ skills[e.skill].recipe = e.recipe
        /\ e.skill \in touched \/ skills[e.skill].status = "promoted"

SkillsInv == SkillsTypeOK /\ RouterKnowsTheCrystallized /\ RouterEchoesTheVault

\* The recipe and the status of the skills in S are as they were.
SameSkills(S) ==
    \A s \in S : skills'[s].recipe = skills[s].recipe /\ skills'[s].query = skills[s].query
                  /\ (s \in touched' \/ skills'[s].status = skills[s].status)

LEMMA SkillsInitHolds == RecipesInit => SkillsInv
  <1> SUFFICES ASSUME RecipesInit PROVE SkillsInv
    OBVIOUS
  <1> USE DEF RecipesInit
  <1>1. StoreTyped
    <2>1. DOMAIN age = {}
      OBVIOUS
    <2>2. Range(age) = {}
      BY <2>1 DEF Range
    <2>3. idCounter \in 0 .. MaxIds
      BY BoundsOfRecipes
    <2>4. {ingesting, dirty} \subseteq BOOLEAN
      BY Zenon
    <2> QED
      BY <2>1, <2>2, <2>3, <2>4 DEF StoreTyped
  <1>2. ClustersTyped
    BY BoundsOfRecipes DEF ClustersTyped
  <1>3. VaultTyped
    BY BoundsOfRecipes DEF VaultTyped
  <1>4. RouterTyped
    BY DEF RouterTyped
  <1> QED
    BY <1>1, <1>2, <1>3, <1>4, TypesInParts
       DEF SkillsInv, RouterKnowsTheCrystallized, RouterEchoesTheVault

\* The router loads what it needs: the entries it answers from know every skill
\* that is promoted, and echo the vault.
LEMMA KnownAgrees ==
    ASSUME SkillsInv, loaded' = Known, UNCHANGED <<skills, touched>>
    PROVE  RouterTyped' /\ RouterKnowsTheCrystallized' /\ RouterEchoesTheVault'
  <1>1. VaultTyped /\ RouterTyped
    BY TypesInParts DEF SkillsInv
  <1>2. RouterTyped'
    BY <1>1, KnownTyped DEF RouterTyped, Entry
  <1>3. CASE loaded # {}
    BY <1>2, <1>3 DEF Known, SkillsInv, RouterKnowsTheCrystallized, RouterEchoesTheVault
  <1>4. CASE loaded = {}
    <2>1. loaded' = Loadable
      BY <1>4 DEF Known
    <2>2. \A s \in DOMAIN skills : EntryOf(s).skill = s /\ EntryOf(s).recipe = skills[s].recipe
                                    /\ EntryOf(s).query = skills[s].query
      BY DEF EntryOf
    <2>3. \A s \in DOMAIN skills : skills[s].status = "promoted" /\ skills[s].recipe # <<>> =>
              EntryOf(s) \in Loadable
      BY DEF Loadable
    <2>4. \A e \in Loadable : \E s \in DOMAIN skills : e = EntryOf(s) /\ skills[s].status = "promoted"
      BY DEF Loadable
    <2>5. RouterKnowsTheCrystallized'
      BY <2>1, <2>2, <2>3 DEF RouterKnowsTheCrystallized
    <2>6. RouterEchoesTheVault'
      BY <2>1, <2>2, <2>4 DEF RouterEchoesTheVault
    <2> QED
      BY <1>2, <2>5, <2>6
  <1> QED
    BY <1>3, <1>4

LEMMA EmptyRouterAgrees ==
    ASSUME loaded' = {}
    PROVE  RouterTyped' /\ RouterKnowsTheCrystallized' /\ RouterEchoesTheVault'
  BY DEF RouterTyped, RouterKnowsTheCrystallized, RouterEchoesTheVault

\* A tool that changes the vault and leaves the router as it is.
LEMMA VaultAgrees ==
    ASSUME SkillsInv, loaded' = loaded,
           DOMAIN skills \subseteq DOMAIN skills', touched \subseteq touched',
           SameSkills(DOMAIN skills),
           \A s \in DOMAIN skills' \ DOMAIN skills : skills'[s].status # "promoted"
    PROVE  RouterTyped' /\ RouterKnowsTheCrystallized' /\ RouterEchoesTheVault'
  <1>1. RouterTyped
    BY TypesInParts DEF SkillsInv
  <1>2. RouterTyped'
    BY <1>1 DEF RouterTyped, Entry
  <1>3. RouterKnowsTheCrystallized'
    BY DEF SkillsInv, RouterKnowsTheCrystallized, SameSkills
  <1>4. RouterEchoesTheVault'
    BY <1>1 DEF SkillsInv, RouterEchoesTheVault, SameSkills, RouterTyped
  <1> QED
    BY <1>2, <1>3, <1>4

LEMMA CopyTyped ==
    ASSUME StoreTyped PROVE Copy \subseteq 1 .. idCounter
  BY AgedTyped DEF Copy, StoreTyped

LEMMA CrystallizeStep ==
    ASSUME VaultTyped, NEW cs, Clustered(cs), Len(cs) \in 1 .. MaxClusters,
           Crystallize(cs), touched' = touched
    PROVE  ClustersTyped' /\ VaultTyped' /\ loaded' = {}
  <1> DEFINE n == Len(cs)
  <1>1. cs \in Seq(Cluster) /\ n \in 1 .. n /\ DOMAIN cs = 1 .. n
    BY DEF Clustered
  <1>2. cs[n] \in Cluster
    BY <1>1
  <1> HIDE DEF n
  <1>3. clusters' = [cs EXCEPT ![n].rest = Cooldown]
    BY DEF Crystallize, n
  <1> DEFINE c == [cs[n] EXCEPT !.rest = Cooldown]
  <1>4. c \in Cluster /\ c.window = cs[n].window
    BY <1>2, BoundsOfRecipes DEF Cluster
  <1>5. clusters' = [cs EXCEPT ![n] = c]
    BY <1>3
  <1> HIDE DEF c
  <1>6. /\ clusters' \in Seq(Cluster) /\ Len(clusters') = n /\ DOMAIN clusters' = 1 .. n
        /\ \A j \in 1 .. n : clusters'[j] = IF j = n THEN c ELSE cs[j]
    <2>1. n = Len(cs)
      BY DEF n
    <2> QED
      BY <1>1, <1>4, <1>5, <2>1, ExceptSeq
  <1>7. ClustersTyped'
    <2>1. n <= MaxClusters
      BY BoundsOfRecipes DEF n
    <2> QED
      BY <1>1, <1>4, <1>6, <2>1 DEF ClustersTyped, Clustered
  <1>8. loaded' = {}
    BY DEF Crystallize, InvalidateCache
  <1>9. VaultTyped'
    <2>1. CASE UNCHANGED skills
      BY <2>1 DEF VaultTyped
    <2>2. CASE Len(skills) < MaxSkills /\ \E s \in Pages(cs[n]) : skills' = Append(skills, s)
      <3>1. PICK s \in Pages(cs[n]) : skills' = Append(skills, s)
        BY <2>2
      <3>2. s \in Skill /\ Len(s.recipe) <= TopK
        BY <1>2, PagesTyped
      <3>3. /\ skills' \in Seq(Skill) /\ Len(skills') = Len(skills) + 1
            /\ \A i \in 1 .. Len(skills) : skills'[i] = skills[i]
            /\ skills'[Len(skills) + 1] = s
        BY <3>1, <3>2, AppendProperties DEF VaultTyped
      <3>4. DOMAIN skills' = 1 .. Len(skills) + 1 /\ DOMAIN skills = 1 .. Len(skills)
        BY <3>3 DEF VaultTyped
      <3> QED
        BY <2>2, <3>2, <3>3, <3>4, BoundsOfRecipes DEF VaultTyped
    <2> QED
      BY <2>1, <2>2 DEF Crystallize, n
  <1> QED
    BY <1>7, <1>8, <1>9

LEMMA ComputeStep ==
    ASSUME SkillsInv, NEW q \in Queries, Compute(q) PROVE SkillsInv'
  <1>0. StoreTyped /\ ClustersTyped /\ VaultTyped /\ RouterTyped
    BY TypesInParts DEF SkillsInv
  <1>1. PICK S \in SUBSET DOMAIN Aged :
           /\ age' = Aged \/ age' = Touch(Aged, S)
           /\ \E cs \in Observed(q, S) :
                \/ clusters' = cs /\ loaded' = Known /\ UNCHANGED skills
                \/ Crystallize(cs)
    BY DEF Compute
  <1>2. PICK cs \in Observed(q, S) :
           \/ clusters' = cs /\ loaded' = Known /\ UNCHANGED skills
           \/ Crystallize(cs)
    BY <1>1
  <1>3. UNCHANGED <<idCounter, ingesting, touched>>
    BY DEF Compute
  <1>4. StoreTyped'
    <2>1. DOMAIN age' \subseteq 1 .. idCounter /\ Range(age') \subseteq 0 .. AgeLimit
      BY <1>0, <1>1, AgedTyped, TouchTyped DEF Range
    <2>2. snapshot' \subseteq 1 .. idCounter /\ dirty' \in BOOLEAN
      BY <1>0, CopyTyped DEF Compute, FallThrough, LookedUp, copyVars, StoreTyped
    <2> QED
      BY <1>0, <1>3, <2>1, <2>2 DEF StoreTyped
  <1>5. S \in SUBSET Ids
    BY <1>0, AgedTyped
  <1>6. Clustered(cs) /\ Len(cs) \in 1 .. MaxClusters
    BY <1>0, <1>5, ObservedTyped
  <1>7. CASE clusters' = cs /\ loaded' = Known /\ UNCHANGED skills
    <2>1. ClustersTyped'
      BY <1>6, <1>7, BoundsOfRecipes DEF ClustersTyped, Clustered
    <2>2. VaultTyped'
      BY <1>0, <1>3, <1>7 DEF VaultTyped
    <2>3. RouterTyped' /\ RouterKnowsTheCrystallized' /\ RouterEchoesTheVault'
      BY <1>3, <1>7, KnownAgrees
    <2> QED
      BY <1>4, <2>1, <2>2, <2>3, TypesInParts DEF SkillsInv, SkillsTypeOK, StoreTyped, ClustersTyped, VaultTyped, RouterTyped
  <1>8. CASE Crystallize(cs)
    <2>1. ClustersTyped' /\ VaultTyped' /\ loaded' = {}
      BY <1>0, <1>3, <1>6, <1>8, CrystallizeStep
    <2>2. RouterTyped' /\ RouterKnowsTheCrystallized' /\ RouterEchoesTheVault'
      BY <2>1, EmptyRouterAgrees
    <2> QED
      BY <1>4, <2>1, <2>2 DEF SkillsInv, SkillsTypeOK, StoreTyped, ClustersTyped, VaultTyped, RouterTyped
  <1> QED
    BY <1>2, <1>7, <1>8

LEMMA ReplayStep ==
    ASSUME SkillsInv, NEW q \in Queries, Replay(q) PROVE SkillsInv'
  <1>1. StoreTyped /\ ClustersTyped /\ VaultTyped
    BY TypesInParts DEF SkillsInv
  <1>2. UNCHANGED <<idCounter, ingesting, clusters, skills, touched>>
        /\ age' = Aged /\ loaded' = Known /\ snapshot' = Copy /\ dirty' = FALSE
    BY DEF Replay, LookedUp, vaultVars
  <1>3. StoreTyped'
    <2>1. DOMAIN age' \subseteq 1 .. idCounter /\ Range(age') \subseteq 0 .. AgeLimit
      BY <1>1, <1>2, AgedTyped DEF Range
    <2> QED
      BY <1>1, <1>2, <2>1, CopyTyped DEF StoreTyped
  <1>4. ClustersTyped' /\ VaultTyped'
    BY <1>1, <1>2 DEF ClustersTyped, VaultTyped
  <1>5. RouterTyped' /\ RouterKnowsTheCrystallized' /\ RouterEchoesTheVault'
    BY <1>2, KnownAgrees
  <1> QED
    BY <1>3, <1>4, <1>5
       DEF SkillsInv, SkillsTypeOK, StoreTyped, ClustersTyped, VaultTyped, RouterTyped

\* create_skill, benchmark_skill and promote_skill.
LEMMA ToolStep ==
    ASSUME SkillsInv, UNCHANGED <<storeVars, copyVars, clusters, loaded>>,
           VaultTyped', DOMAIN skills \subseteq DOMAIN skills', touched \subseteq touched',
           SameSkills(DOMAIN skills),
           \A s \in DOMAIN skills' \ DOMAIN skills : skills'[s].status # "promoted"
    PROVE  SkillsInv'
  <1>1. StoreTyped /\ ClustersTyped
    BY TypesInParts DEF SkillsInv
  <1>2. StoreTyped' /\ ClustersTyped'
    BY <1>1 DEF StoreTyped, ClustersTyped, storeVars, copyVars
  <1>3. RouterTyped' /\ RouterKnowsTheCrystallized' /\ RouterEchoesTheVault'
    BY VaultAgrees
  <1> QED
    BY <1>2, <1>3
       DEF SkillsInv, SkillsTypeOK, StoreTyped, ClustersTyped, VaultTyped, RouterTyped

LEMMA CreateStep ==
    ASSUME SkillsInv, NEW q \in Queries, CreateSkill(q) PROVE SkillsInv'
  <1> DEFINE draft == [query |-> q, recipe |-> <<>>, fitness |-> 0, status |-> "draft"]
  <1>1. VaultTyped
    BY TypesInParts DEF SkillsInv
  <1>2. draft \in Skill /\ Len(draft.recipe) <= TopK /\ draft.status # "promoted"
    BY BoundsOfRecipes DEF Skill
  <1>3. skills' = Append(skills, draft) /\ Len(skills) < MaxSkills
        /\ UNCHANGED <<storeVars, copyVars, touched, clusters, loaded>>
    BY DEF CreateSkill
  <1> HIDE DEF draft
  <1>4. /\ skills' \in Seq(Skill) /\ Len(skills') = Len(skills) + 1
        /\ \A i \in 1 .. Len(skills) : skills'[i] = skills[i]
        /\ skills'[Len(skills) + 1] = draft
    BY <1>1, <1>2, <1>3, AppendProperties DEF VaultTyped
  <1>5. DOMAIN skills' = 1 .. Len(skills) + 1 /\ DOMAIN skills = 1 .. Len(skills)
    BY <1>1, <1>4 DEF VaultTyped
  <1>6. VaultTyped'
    BY <1>1, <1>2, <1>3, <1>4, <1>5, BoundsOfRecipes DEF VaultTyped
  <1>7. SameSkills(DOMAIN skills)
    BY <1>4, <1>5 DEF SameSkills
  <1> QED
    BY <1>2, <1>3, <1>4, <1>5, <1>6, <1>7, ToolStep

\* A skill that a tool has judged anew, its query and recipe as they were.
LEMMA JudgeStep ==
    ASSUME SkillsInv, NEW s \in DOMAIN skills, NEW new \in Skill,
           new.query = skills[s].query, new.recipe = skills[s].recipe,
           skills' = [skills EXCEPT ![s] = new], touched \subseteq touched',
           touched' \subseteq touched \cup {s},
           s \in touched' \/ new.status = skills[s].status,
           UNCHANGED <<storeVars, copyVars, clusters, loaded>>
    PROVE  SkillsInv'
  <1>1. VaultTyped
    BY TypesInParts DEF SkillsInv
  <1>2. s \in 1 .. Len(skills) /\ DOMAIN skills = 1 .. Len(skills)
    BY <1>1 DEF VaultTyped
  <1>3. /\ skills' \in Seq(Skill) /\ Len(skills') = Len(skills)
        /\ \A j \in 1 .. Len(skills) : skills'[j] = IF j = s THEN new ELSE skills[j]
    BY <1>1, <1>2, ExceptSeq DEF VaultTyped
  <1>4. DOMAIN skills' = DOMAIN skills
    BY <1>2, <1>3
  <1>5. VaultTyped'
    BY <1>1, <1>2, <1>3, <1>4 DEF VaultTyped
  <1>6. SameSkills(DOMAIN skills)
    BY <1>2, <1>3 DEF SameSkills
  <1> QED
    BY <1>4, <1>5, <1>6, ToolStep

LEMMA BenchmarkStep ==
    ASSUME SkillsInv, NEW s \in DOMAIN skills, BenchmarkSkill(s) PROVE SkillsInv'
  <1>1. skills[s] \in Skill
    BY TypesInParts DEF SkillsInv, VaultTyped
  <1>2. PICK g \in Grades : skills' = [skills EXCEPT ![s].fitness = g]
    BY DEF BenchmarkSkill
  <1> DEFINE new == [skills[s] EXCEPT !.fitness = g]
  <1>3. new \in Skill /\ new.query = skills[s].query /\ new.recipe = skills[s].recipe
        /\ new.status = skills[s].status
    BY <1>1, BoundsOfRecipes DEF Skill
  <1>4. skills' = [skills EXCEPT ![s] = new]
    BY <1>2
  <1>5. UNCHANGED <<storeVars, copyVars, touched, clusters, loaded>>
    BY DEF BenchmarkSkill
  <1> HIDE DEF new
  <1> QED
    BY <1>3, <1>4, <1>5, JudgeStep

LEMMA PromoteStep ==
    ASSUME SkillsInv, NEW s \in DOMAIN skills, PromoteSkill(s) PROVE SkillsInv'
  <1>1. skills[s] \in Skill
    BY TypesInParts DEF SkillsInv, VaultTyped
  <1> DEFINE verdict == IF skills[s].fitness >= PromoteAt    THEN "promoted"
                        ELSE IF skills[s].fitness <= PruneAt THEN "pruned"
                        ELSE "testing"
             new == [skills[s] EXCEPT !.status = verdict]
  <1>2. verdict \in {"draft", "testing", "promoted", "pruned"}
    OBVIOUS
  <1>3. skills' = [skills EXCEPT ![s].status = verdict]
    BY DEF PromoteSkill
  <1> HIDE DEF verdict
  <1>4. new \in Skill /\ new.query = skills[s].query /\ new.recipe = skills[s].recipe
    BY <1>1, <1>2 DEF Skill
  <1>5. skills' = [skills EXCEPT ![s] = new]
    BY <1>3
  <1>6. touched' = touched \cup {s} /\ UNCHANGED <<storeVars, copyVars, clusters, loaded>>
    BY DEF PromoteSkill
  <1> HIDE DEF new
  <1> QED
    BY <1>4, <1>5, <1>6, JudgeStep

\* What ages, comes and goes in the store, while the skills are left alone.
LEMMA StoreStep ==
    ASSUME SkillsInv, StoreTyped', UNCHANGED vaultVars,
           clusters' \in {clusters, <<>>}, loaded' \in {loaded, {}}
    PROVE  SkillsInv'
  <1>1. ClustersTyped /\ VaultTyped
    BY TypesInParts DEF SkillsInv
  <1>2. ClustersTyped'
    <2>1. CASE clusters' = <<>>
      BY <2>1, BoundsOfRecipes DEF ClustersTyped
    <2> QED
      BY <1>1, <2>1 DEF ClustersTyped
  <1>3. VaultTyped'
    BY <1>1 DEF VaultTyped, vaultVars
  <1>4. RouterTyped' /\ RouterKnowsTheCrystallized' /\ RouterEchoesTheVault'
    <2>1. CASE loaded' = {}
      BY <2>1, EmptyRouterAgrees
    <2>2. CASE loaded' = loaded
      BY <2>2, VaultAgrees DEF SameSkills, vaultVars
    <2> QED
      BY <2>1, <2>2
  <1> QED
    BY <1>2, <1>3, <1>4
       DEF SkillsInv, SkillsTypeOK, StoreTyped, ClustersTyped, VaultTyped, RouterTyped

LEMMA SkillsInvIsInductive == SkillsInv /\ [RecipesNext]_recipeVars => SkillsInv'
  <1> SUFFICES ASSUME SkillsInv, [RecipesNext]_recipeVars PROVE SkillsInv'
    OBVIOUS
  <1>0. StoreTyped
    BY TypesInParts DEF SkillsInv
  <1>1. CASE MarkIngest
    BY <1>0, <1>1, StoreStep DEF MarkIngest, StoreTyped
  <1>2. CASE FinishIngest
    <2>1. CASE UNCHANGED <<age, idCounter>>
      <3>1. StoreTyped'
        BY <1>0, <1>2, <2>1 DEF FinishIngest, StoreTyped, copyVars
      <3> QED
        BY <1>2, <3>1, StoreStep DEF FinishIngest
    <2>2. CASE idCounter < MaxIds /\ idCounter' = idCounter + 1
               /\ \E i \in DOMAIN age \cup {idCounter'} : age' = Touch(age, {i})
      <3>1. PICK i \in DOMAIN age \cup {idCounter'} : age' = Touch(age, {i})
        BY <2>2
      <3>2. idCounter' \in 0 .. MaxIds /\ 1 .. idCounter \subseteq 1 .. idCounter'
            /\ idCounter' \in 1 .. idCounter'
        BY <1>0, <2>2, BoundsOfRecipes DEF StoreTyped
      <3>3. \A j \in DOMAIN age : age[j] \in 0 .. AgeLimit
        BY <1>0 DEF StoreTyped, Range
      <3>4. DOMAIN age' \subseteq 1 .. idCounter' /\ Range(age') \subseteq 0 .. AgeLimit
        <4>1. DOMAIN age \subseteq 1 .. idCounter' /\ {i} \subseteq 1 .. idCounter'
          BY <1>0, <3>2 DEF StoreTyped
        <4> QED
          BY <3>1, <3>3, <4>1, TouchTyped
      <3>5. UNCHANGED copyVars /\ ingesting' = FALSE
        BY <1>2 DEF FinishIngest
      <3>6. StoreTyped'
        BY <1>0, <3>2, <3>4, <3>5 DEF StoreTyped, copyVars
      <3> QED
        BY <1>2, <3>6, StoreStep DEF FinishIngest
    <2> QED
      BY <1>2, <2>1, <2>2 DEF FinishIngest
  <1>3. CASE \E q \in Queries : Replay(q) \/ Compute(q) \/ CreateSkill(q)
    BY <1>3, ReplayStep, ComputeStep, CreateStep
  <1>4. CASE ComputeUnasked
    <2>1. PICK S \in SUBSET DOMAIN Aged : age' = Touch(Aged, S)
      BY <1>4 DEF ComputeUnasked
    <2>2. DOMAIN age' \subseteq 1 .. idCounter /\ Range(age') \subseteq 0 .. AgeLimit
      BY <1>0, <2>1, AgedTyped, TouchTyped
    <2>3. UNCHANGED <<idCounter, ingesting, copyVars, vaultVars, clusters, loaded>>
      BY <1>4 DEF ComputeUnasked
    <2>4. StoreTyped'
      BY <1>0, <2>2, <2>3 DEF StoreTyped, copyVars
    <2> QED
      BY <2>3, <2>4, StoreStep
  <1>5. CASE \E s \in DOMAIN skills : BenchmarkSkill(s) \/ PromoteSkill(s)
    BY <1>5, BenchmarkStep, PromoteStep
  <1>6. CASE ExpireRouter
    <2>1. StoreTyped'
      BY <1>0, <1>6 DEF ExpireRouter, StoreTyped, storeVars, copyVars
    <2> QED
      BY <1>6, <2>1, StoreStep DEF ExpireRouter
  <1>7. CASE Restart
    <2>1. CASE UNCHANGED <<age, idCounter>>
      <3>1. StoreTyped'
        BY <1>0, <1>7, <2>1 DEF Restart, StoreTyped
      <3> QED
        BY <1>7, <3>1, StoreStep DEF Restart
    <2>2. CASE age' = <<>> /\ idCounter' = 0
      <3>1. DOMAIN age' = {}
        BY <2>2
      <3>2. Range(age') = {}
        BY <3>1 DEF Range
      <3>3. StoreTyped'
        <4>1. idCounter' \in 0 .. MaxIds
          BY <2>2, BoundsOfRecipes
        <4>2. snapshot' = {} /\ {ingesting', dirty'} \subseteq BOOLEAN
          BY <1>7, Zenon DEF Restart
        <4> QED
          BY <3>1, <3>2, <4>1, <4>2 DEF StoreTyped
      <3> QED
        BY <1>7, <3>3, StoreStep DEF Restart
    <2> QED
      BY <1>7, <2>1, <2>2 DEF Restart
  <1>8. CASE UNCHANGED recipeVars
    <2>1. StoreTyped'
      BY <1>0, <1>8 DEF recipeVars, StoreTyped, storeVars, copyVars
    <2> QED
      BY <1>8, <2>1, StoreStep DEF recipeVars
  <1> QED
    BY <1>1, <1>2, <1>3, <1>4, <1>5, <1>6, <1>7, <1>8 DEF RecipesNext

LEMMA SkillsInvHolds == RecipesSpec => []SkillsInv
  BY SkillsInitHolds, SkillsInvIsInductive, PTL DEF RecipesSpec

\* Whatever is observed, crystallized, judged or restarted: the windows, the
\* cooldowns, the recipes and the ids of the engine's copy stay within bounds.
THEOREM SkillsStayTyped == RecipesSpec => []SkillsTypeOK
  <1>1. SkillsInv => SkillsTypeOK
    BY DEF SkillsInv
  <1> QED
    BY <1>1, SkillsInvHolds, PTL

\* However many skills there are and in whatever order they are crystallized, in
\* part or whole, loaded and judged: a router that has loaded skills knows every
\* crystallized one with a recipe that no tool has judged.
THEOREM RouterStaysCurrent == RecipesSpec => []RouterKnowsTheCrystallized
  <1>1. SkillsInv => RouterKnowsTheCrystallized
    BY DEF SkillsInv
  <1> QED
    BY <1>1, SkillsInvHolds, PTL

\* And it knows nothing else: what it replays is the recipe of a skill in the
\* vault, which was promoted and still is unless promote_skill has judged it.
THEOREM RouterReplaysTheVault == RecipesSpec => []RouterEchoesTheVault
  <1>1. SkillsInv => RouterEchoesTheVault
    BY DEF SkillsInv
  <1> QED
    BY <1>1, SkillsInvHolds, PTL
=============================================================================
