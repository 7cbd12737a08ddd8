----------------------------- MODULE Checkpoints -----------------------------
(***************************************************************************)
(* Server processes that share one checkpoint directory.  A process is     *)
(* known by its instance id; it may stop anywhere and start again, with    *)
(* the same id (a container's process 1).  Two threads of it save: the one *)
(* that runs the tools, and the watcher, which ingests changed files.  A   *)
(* save forms the checkpoint's name, writes a fresh temporary file, renames*)
(* it and prunes the instance's old checkpoints.  The file lock of save()  *)
(* does not block and its failure is ignored, so it orders nothing here.   *)
(*                                                                         *)
(* Abstracted: what a state holds.  A checkpoint is known by its name and  *)
(* its modification time, which the clock gives to each write of its data. *)
(* The index that is written before is in SharedIndex.                     *)
(***************************************************************************)
EXTENDS Naturals, FiniteSets

CONSTANTS
    Instances,       \* instance ids
    Watched,         \* those whose server starts a watcher, which may fail
    AutoInterval,    \* auto_interval: ingests between automatic checkpoints
    MaxCheckpoints,  \* max_checkpoints an instance keeps
    MaxTime          \* bound of the model: checkpoints written

ASSUME BoundsAreCounts ==
    /\ Watched \subseteq Instances
    /\ AutoInterval \in Nat \ {0}
    /\ MaxCheckpoints \in Nat \ {0}
    /\ MaxTime \in Nat

Tools(i) == <<i, "tools">>
Watcher(i) == <<i, "watcher">>

Threads == {Tools(i) : i \in Instances} \cup {Watcher(i) : i \in Instances}

VARIABLES
    pc,       \* where each thread is in its current call
    calls,    \* _tool_calls_since_checkpoint of each process
    created,  \* _total_checkpoints_created, which tells names apart
    clock,    \* the time of the last write of a checkpoint
    name,     \* checkpoint_id of the save in hand: a number and a second
    stamp,    \* the modification time of its temporary file
    files,    \* the checkpoints in the directory
    listed,   \* the checkpoints that a thread has listed or is to remove
    answer,   \* the checkpoint last resumed, if any
    latest,   \* the time of each instance's last save, 0 for none: see NameCheckpoint
    mixed,    \* whether the saves in hand have overlapped
    since     \* latest when a resume began

vars == <<pc, calls, created, clock, name, stamp, files, listed,
          answer, latest, mixed, since>>

nameVars == <<created, name, mixed>>
resumeVars == <<answer, since>>

NoName == <<0, 0>>

CheckpointsInit ==
    /\ pc = [t \in Threads |-> "down"]
    /\ calls = [i \in Instances |-> 0]
    /\ created = [i \in Instances |-> 0]
    /\ clock = 0
    /\ name = [t \in Threads |-> NoName]
    /\ stamp = [t \in Threads |-> 0]
    /\ files = {}
    /\ listed = [t \in Threads |-> {}]
    /\ answer = [i \in Instances |-> {}]
    /\ latest = [i \in Instances |-> 0]
    /\ mixed = [i \in Instances |-> FALSE]
    /\ since = [i \in Instances |-> 0]

\* Where a thread is next, and what it puts down when its call ends.
Goes(t, step) == pc' = [pc EXCEPT ![t] = step]

Ends(t) ==
    /\ Goes(t, "idle")
    /\ name' = [name EXCEPT ![t] = NoName]
    /\ stamp' = [stamp EXCEPT ![t] = 0]
    /\ listed' = [listed EXCEPT ![t] = {}]

-----------------------------------------------------------------------------
(* A process's life.  It takes longer than a second to come up again, so   *)
(* that the seconds in their names tell the checkpoints of two lives apart:*)
(* here its count goes on instead.                                         *)

Start(i) ==
    /\ pc[Tools(i)] = "down"
    /\ Goes(Tools(i), "idle")
    /\ UNCHANGED <<calls, clock, stamp, files, listed, latest, nameVars, resumeVars>>

\* start_incremental_watcher, between two calls of the main thread.
StartWatcher(i) ==
    /\ i \in Watched
    /\ pc[Tools(i)] = "idle"
    /\ pc[Watcher(i)] = "down"
    /\ Goes(Watcher(i), "idle")
    /\ UNCHANGED <<calls, clock, stamp, files, listed, latest, nameVars, resumeVars>>

Both(i) == {Tools(i), Watcher(i)}

Cleared(f, S, v) == [x \in DOMAIN f |-> IF x \in S THEN v ELSE f[x]]

Crash(i) ==
    /\ pc[Tools(i)] # "down"
    /\ pc' = Cleared(pc, Both(i), "down")
    /\ name' = Cleared(name, Both(i), NoName)
    /\ stamp' = Cleared(stamp, Both(i), 0)
    /\ listed' = Cleared(listed, Both(i), {})
    /\ calls' = [calls EXCEPT ![i] = 0]
    /\ answer' = [answer EXCEPT ![i] = {}]
    /\ since' = [since EXCEPT ![i] = 0]
    /\ mixed' = [mixed EXCEPT ![i] = FALSE]
    /\ UNCHANGED <<created, clock, files, latest>>

-----------------------------------------------------------------------------
(* What makes a thread save.  The index is written first; that it fails is *)
(* caught.                                                                 *)

\* An ingest counts; the one that reaches the interval saves.  A count that
\* a save did not reset stays due, and is not told apart further.
IngestFragment(t) ==
    /\ pc[t] = "idle"
    /\ IF calls[t[1]] + 1 >= AutoInterval
       THEN /\ calls' = [calls EXCEPT ![t[1]] = AutoInterval]
            /\ Goes(t, "due")
       ELSE /\ calls' = [calls EXCEPT ![t[1]] = @ + 1]
            /\ UNCHANGED pc
    /\ UNCHANGED <<clock, stamp, files, listed, latest, nameVars, resumeVars>>

\* The tool that saves at once.
SaveNow(i) ==
    /\ pc[Tools(i)] = "idle"
    /\ Goes(Tools(i), "due")
    /\ UNCHANGED <<calls, clock, stamp, files, listed, latest, nameVars, resumeVars>>

\* A signal stops the main thread in its call, which does not go on, for one
\* save more.
Interrupt(i) ==
    LET t == Tools(i) IN
    /\ pc[t] \notin {"down", "idle", "due"}
    /\ Goes(t, "due")
    /\ name' = [name EXCEPT ![t] = NoName]
    /\ stamp' = [stamp EXCEPT ![t] = 0]
    /\ listed' = [listed EXCEPT ![t] = {}]
    /\ answer' = [answer EXCEPT ![i] = {}]
    /\ since' = [since EXCEPT ![i] = 0]
    /\ UNCHANGED <<calls, created, clock, files, latest, mixed>>

-----------------------------------------------------------------------------
(* Saving.                                                                 *)

Saving(t) == pc[t] \in {"named", "written"}

\* The number and the second make the name: two saves of a process that
\* overlap form the same one if they fall in the same second.  The last save
\* is known only if it overlapped no other one of its process.
NameCheckpoint(t) ==
    LET i == t[1]
        overlaps == \E u \in Both(i) \ {t} : Saving(u)
    IN
    /\ pc[t] = "due"
    /\ \E sec \in IF overlaps THEN {0, 1} ELSE {0} :
          name' = [name EXCEPT ![t] = <<created[i], sec>>]
    /\ mixed' = [mixed EXCEPT ![i] = overlaps]
    /\ latest' = IF overlaps THEN [latest EXCEPT ![i] = 0] ELSE latest
    /\ Goes(t, "named")
    /\ UNCHANGED <<calls, created, clock, stamp, files, listed, resumeVars>>

\* save() gives up on a full disk, and a failed write takes its temporary
\* file away; either way the calls stay counted.
Refuse(t) ==
    /\ Saving(t)
    /\ Ends(t)
    /\ UNCHANGED <<calls, created, clock, files, latest, mixed, resumeVars>>

\* The temporary file is written and synced; that is its modification time.
WriteCheckpoint(t) ==
    /\ pc[t] = "named"
    /\ clock < MaxTime
    /\ clock' = clock + 1
    /\ stamp' = [stamp EXCEPT ![t] = clock + 1]
    /\ Goes(t, "written")
    /\ UNCHANGED <<calls, files, listed, latest, nameVars, resumeVars>>

SameName(f, g) == f.owner = g.owner /\ f.name = g.name

\* What has the names of these files by now.
Present(shelf) == {f \in files : \E g \in shelf : SameName(f, g)}

AllPresent(shelf) == \A g \in shelf : \E f \in files : SameName(f, g)

\* os.replace shows the checkpoint under its own name and keeps its time.
ReplaceCheckpoint(t) ==
    LET i == t[1]
        new == [owner |-> i, name |-> name[t], time |-> stamp[t]]
    IN
    /\ pc[t] = "written"
    /\ files' = (files \ Present({new})) \cup {new}
    /\ latest' = IF mixed[i] THEN latest ELSE [latest EXCEPT ![i] = stamp[t]]
    /\ calls' = [calls EXCEPT ![i] = 0]
    /\ created' = [created EXCEPT ![i] = @ + 1]
    /\ name' = [name EXCEPT ![t] = NoName]
    /\ stamp' = [stamp EXCEPT ![t] = 0]
    /\ Goes(t, "replaced")
    /\ UNCHANGED <<clock, listed, mixed, resumeVars>>

-----------------------------------------------------------------------------
(* Retention lists the instance's own checkpoints, sorts them by their     *)
(* times, and removes by name all but the newest.                          *)

OwnedBy(i, shelf) == {f \in shelf : f.owner = i}

Newer(f, shelf) == {g \in shelf : g.time > f.time}

\* A fault: the pattern matches the checkpoints of every instance.
ListAll(t) ==
    /\ pc[t] = "replaced"
    /\ listed' = [listed EXCEPT ![t] = files]
    /\ Goes(t, "pruning")
    /\ UNCHANGED <<calls, clock, stamp, files, latest, nameVars, resumeVars>>

ListOwn(t) ==
    /\ pc[t] = "replaced"
    /\ listed' = [listed EXCEPT ![t] = OwnedBy(t[1], files)]
    /\ Goes(t, "pruning")
    /\ UNCHANGED <<calls, clock, stamp, files, latest, nameVars, resumeVars>>

Outdated(shelf) ==
    {f \in shelf : Cardinality(Newer(f, shelf)) >= MaxCheckpoints}

SortOwn(t) ==
    /\ pc[t] = "pruning"
    /\ AllPresent(listed[t])
    /\ listed' = [listed EXCEPT ![t] = Outdated(Present(@))]
    /\ Goes(t, IF listed'[t] = {} THEN "idle" ELSE "unlinking")
    /\ UNCHANGED <<calls, clock, stamp, files, latest, nameVars, resumeVars>>

\* stat() of a file that is gone raises out of the call.
FailToSort(t) ==
    /\ pc[t] \in {"pruning", "listed"}
    /\ ~ AllPresent(listed[t])
    /\ Ends(t)
    /\ UNCHANGED <<calls, created, clock, files, latest, mixed, resumeVars>>

\* That there is nothing left to remove is caught.
Unlink(t) ==
    /\ pc[t] = "unlinking"
    /\ \E f \in listed[t] :
          /\ files' = files \ Present({f})
          /\ listed' = [listed EXCEPT ![t] = @ \ {f}]
          /\ Goes(t, IF listed[t] = {f} THEN "idle" ELSE "unlinking")
    /\ UNCHANGED <<calls, clock, stamp, latest, nameVars, resumeVars>>

-----------------------------------------------------------------------------
(* Resuming: the directory is listed, the listed files are sorted by their *)
(* modification times, and then tried from the newest on.  Others may save *)
(* and prune in between.                                                   *)

List(i) ==
    /\ pc[Tools(i)] = "idle"
    /\ listed' = [listed EXCEPT ![Tools(i)] = files]
    /\ since' = [since EXCEPT ![i] = latest[i]]
    /\ Goes(Tools(i), "listed")
    /\ UNCHANGED <<calls, clock, stamp, files, answer, latest, nameVars>>

Sort(i) ==
    /\ pc[Tools(i)] = "listed"
    /\ AllPresent(listed[Tools(i)])
    /\ listed' = [listed EXCEPT ![Tools(i)] = Present(@)]
    /\ Goes(Tools(i), "sorted")
    /\ UNCHANGED <<calls, clock, stamp, files, latest, nameVars, resumeVars>>

\* A fault: the sort is not reversed.
OldestFirst(shelf) == CHOOSE f \in shelf : \A g \in shelf : f.time <= g.time

Newest(shelf) == CHOOSE f \in shelf : Newer(f, shelf) = {}

\* The newest of the rest is gone: go on to the next.
Skip(i) ==
    LET t == Tools(i) IN
    /\ pc[t] = "sorted"
    /\ listed[t] # {}
    /\ Present({Newest(listed[t])}) = {}
    /\ listed' = [listed EXCEPT ![t] = @ \ {Newest(@)}]
    /\ UNCHANGED <<pc, calls, clock, stamp, files, latest, nameVars, resumeVars>>

\* What has the name by now is read.
Resume(i) ==
    LET t == Tools(i) IN
    /\ pc[t] = "sorted"
    /\ listed[t] # {}
    /\ Present({Newest(listed[t])}) # {}
    /\ answer' = [answer EXCEPT ![i] = Present({Newest(listed[t])})]
    /\ listed' = [listed EXCEPT ![t] = {}]
    /\ Goes(t, "resumed")
    /\ UNCHANGED <<calls, clock, stamp, files, latest, since, nameVars>>

\* no_checkpoint_found
FindNothing(i) ==
    /\ pc[Tools(i)] = "sorted"
    /\ listed[Tools(i)] = {}
    /\ Goes(Tools(i), "resumed")
    /\ UNCHANGED <<calls, clock, stamp, files, listed, latest, nameVars, resumeVars>>

\* The call returns with its answer.
Return(i) ==
    /\ pc[Tools(i)] = "resumed"
    /\ Goes(Tools(i), "idle")
    /\ answer' = [answer EXCEPT ![i] = {}]
    /\ since' = [since EXCEPT ![i] = 0]
    /\ UNCHANGED <<calls, clock, stamp, files, listed, latest, nameVars>>

CheckpointsNext ==
    \/ \E t \in Threads :
          \/ IngestFragment(t)
          \/ NameCheckpoint(t) \/ Refuse(t) \/ WriteCheckpoint(t) \/ ReplaceCheckpoint(t)
          \/ ListOwn(t) \/ SortOwn(t) \/ FailToSort(t) \/ Unlink(t)
    \/ \E i \in Instances :
          \/ Start(i) \/ StartWatcher(i) \/ Crash(i) \/ SaveNow(i) \/ Interrupt(i)
          \/ List(i) \/ Sort(i) \/ Skip(i) \/ Resume(i) \/ FindNothing(i) \/ Return(i)

CheckpointsSpec == CheckpointsInit /\ [][CheckpointsNext]_vars

-----------------------------------------------------------------------------
(* Wherever processes stop, and whatever their peers and their own threads *)
(* prune, the checkpoint of an instance's last save is in the directory,   *)
(* and it is the newest one of that instance (save(), _prune_old_check-    *)
(* points) - unless that save or one since overlapped another of its own   *)
(* process: then either may take the other's name, and its place.          *)
LastSavesSurvive ==
    \A i \in Instances :
        latest[i] # 0 =>
            /\ \E f \in OwnedBy(i, files) : f.time = latest[i]
            /\ \A f \in OwnedBy(i, files) : f.time <= latest[i]

(* A resume that gets past the listing finds a checkpoint once its         *)
(* instance has saved, although peers remove files while load_latest       *)
(* reads, and never one of its own that is older than that save - unless   *)
(* the instance's own watcher saves meanwhile.                             *)
ResumesAreNotBehind ==
    \A i \in Instances :
        pc[Tools(i)] = "resumed" /\ latest[i] = since[i] /\ latest[i] # 0 =>
            \E f \in answer[i] : f.owner = i => f.time >= latest[i]

(* A resume answers "the most recent checkpoint (from this instance)"      *)
(* (load_latest).                                                          *)
ResumesAreOwn ==
    \A i \in Instances : \A f \in answer[i] : f.owner = i
=============================================================================
