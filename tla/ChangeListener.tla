---------------------------- MODULE ChangeListener ----------------------------
(***************************************************************************)
(* The workspace change listener (entroly/change_listener.py): scans that  *)
(* compare the source files with a snapshot kept in a file, mark the       *)
(* beliefs about changed and deleted files stale, compile the changed ones *)
(* into fresh beliefs, and record the new snapshot.                        *)
(*                                                                         *)
(* Users write and delete files at any time, between any two steps of a    *)
(* scan; a scan ends early when the process stops or a step raises.  One   *)
(* scan runs at a time.                                                    *)
(*                                                                         *)
(* A version stands for a file's content and its fingerprint; version 0    *)
(* is no file, no belief, or no record.  A belief is kept under its file's *)
(* name, the stem of its path, so files of one name share a belief.  The   *)
(* verification pass and the summary change none of this state, and C#     *)
(* projects, whose structure can add files to a scan, do not appear.       *)
(***************************************************************************)
EXTENDS Integers, FiniteSets

CONSTANTS
    Files,      (* source files                                            *)
    NoFile,     (* what a belief that is not there is about                *)
    Names,      (* the stems of the files' paths                           *)
    NameOf,     (* the stem of each file                                   *)
    Within,     (* pairs of names, the first of which is in the second     *)
    MaxFiles,   (* max_files                                               *)
    MaxEdits,   (* bound on the writes and deletions                       *)
    MaxFaults   (* bound on unreadable files, scans that mark only a part  *)
                (* of the beliefs, and scans that end early                *)

ASSUME ListenerAssumption ==
    /\ NoFile \notin Files
    /\ NameOf \in [Files -> Names]
    /\ Within \subseteq Names \X Names
    /\ \A n \in Names : <<n, n>> \in Within
    /\ {MaxFiles, MaxEdits, MaxFaults} \subseteq Nat

VARIABLES
    disk,      (* the version of each file                                 *)
    beliefs,   (* the file and version a belief is from, and its status    *)
    saved,     (* the snapshot in the state file                           *)
    scan,      (* scan_once's step and local variables                     *)
    edits,     (* number of writes and deletions                           *)
    faults,    (* number of files not read, parts not marked, early ends   *)
    missed,    (* history: recorded versions that the limit left out       *)
    failed,    (* history: versions that could not be compiled             *)
    unmarked   (* history: beliefs that could not be marked, by their file *)
               (* and version                                              *)

listenerVars == <<disk, beliefs, saved, scan, edits, faults, missed, failed, unmarked>>
-----------------------------------------------------------------------------
Versions == 0 .. MaxEdits

Nothing == [f \in Files |-> 0]

Idle == [step |-> "idle", force |-> FALSE, todo |-> {}, seen |-> Nothing, left |-> {}]

ListenerInit ==
    /\ disk = Nothing
    /\ beliefs = [n \in Names |-> [file |-> NoFile, version |-> 0, stale |-> FALSE]]
    /\ saved = Nothing
    /\ scan = Idle
    /\ edits = 0
    /\ faults = 0
    /\ missed = {}
    /\ failed = {}
    /\ unmarked = {}

\* Every write gives the file a new modification time.
Write(f) ==
    /\ edits < MaxEdits
    /\ edits' = edits + 1
    /\ disk' = [disk EXCEPT ![f] = edits']
    /\ UNCHANGED <<beliefs, saved, scan, faults, missed, failed, unmarked>>

Delete(f) ==
    /\ edits < MaxEdits /\ disk[f] # 0
    /\ edits' = edits + 1
    /\ disk' = [disk EXCEPT ![f] = 0]
    /\ UNCHANGED <<beliefs, saved, scan, faults, missed, failed, unmarked>>
-----------------------------------------------------------------------------
Begin(force) ==
    /\ scan.step = "idle"
    /\ scan' = [step |-> "snapshot", force |-> force, todo |-> Files,
                seen |-> Nothing, left |-> {}]
    /\ UNCHANGED <<disk, beliefs, saved, edits, faults, missed, failed, unmarked>>

\* _snapshot looks at one file after the other.
Fingerprint(f) ==
    /\ scan.step = "snapshot" /\ f \in scan.todo
    /\ scan' = [scan EXCEPT !.seen[f] = disk[f], !.todo = @ \ {f}]
    /\ UNCHANGED <<disk, beliefs, saved, edits, faults, missed, failed, unmarked>>

\* A file that cannot be read just now is left out of the snapshot.
Overlook(f) ==
    /\ scan.step = "snapshot" /\ f \in scan.todo
    /\ faults < MaxFaults
    /\ faults' = faults + 1
    /\ scan' = [scan EXCEPT !.todo = @ \ {f}]
    /\ UNCHANGED <<disk, beliefs, saved, edits, missed, failed, unmarked>>

\* A forced scan knows of no previous snapshot.
Previous == IF scan.force THEN Nothing ELSE saved

\* A fault: a file without a record is not a changed file.
ChangedIfRecorded ==
    {f \in Files : scan.seen[f] # 0 /\ Previous[f] # 0 /\ scan.seen[f] # Previous[f]}

Changed == {f \in Files : scan.seen[f] # 0 /\ scan.seen[f] # Previous[f]}

\* A fault: a file without a fingerprint is left alone.
NoneDeleted == {}

Deleted == {f \in Files : scan.seen[f] = 0 /\ Previous[f] # 0}

\* changed[:max_files], whatever files come first.
FirstOf(S) ==
    {T \in SUBSET S : \/ T = S /\ Cardinality(S) <= MaxFiles
                      \/ Cardinality(T) = MaxFiles}

\* mark_beliefs_stale_for_files, which goes by the names of the files.
Marked(targets) ==
    {n \in Names : /\ beliefs[n].version # 0
                   /\ \E f \in targets : <<NameOf[f], n>> \in Within}

MarkStale(marked) ==
    beliefs' = [n \in Names |-> [beliefs[n] EXCEPT !.stale = @ \/ n \in marked]]

Unchanged ==
    /\ scan.step = "snapshot" /\ scan.todo = {}
    /\ Changed = {} /\ Deleted = {} /\ ~scan.force
    /\ scan' = Idle
    /\ UNCHANGED <<disk, beliefs, saved, edits, faults, missed, failed, unmarked>>

\* Every belief is marked but the lost ones, which cannot be read or written:
\* they are passed over.
RefreshBut(lost) ==
    /\ scan.step = "snapshot" /\ scan.todo = {}
    /\ Changed # {} \/ Deleted # {} \/ scan.force
    /\ \E work \in FirstOf(Changed) :
         LET marked == Marked(work \cup Deleted)
         IN  /\ lost \subseteq marked
             /\ MarkStale(marked \ lost)
             /\ scan' = [scan EXCEPT !.step = "compile", !.todo = work, !.left = Changed \ work]
    /\ unmarked' = unmarked \cup {<<beliefs[n].file, beliefs[n].version>> : n \in lost}
    /\ UNCHANGED <<disk, saved, edits, missed, failed>>

Refresh == RefreshBut({}) /\ UNCHANGED faults

\* The errors of single beliefs are swallowed, and the scan goes on.
RefreshInPart ==
    /\ faults < MaxFaults
    /\ faults' = faults + 1
    /\ \E lost \in (SUBSET Names) \ {{}} : RefreshBut(lost)

\* What a file holds when it is compiled, not when its fingerprint was taken.
Compile(f) ==
    /\ scan.step = "compile" /\ f \in scan.todo
    /\ disk[f] # 0
    /\ beliefs' = [beliefs EXCEPT ![NameOf[f]] =
                      [file |-> f, version |-> disk[f], stale |-> FALSE]]
    /\ scan' = [scan EXCEPT !.todo = @ \ {f}]
    /\ UNCHANGED <<disk, saved, edits, faults, missed, failed, unmarked>>

\* The file is gone, blank, without entities, or raises: the scan goes on.
CompileFails(f) ==
    /\ scan.step = "compile" /\ f \in scan.todo
    /\ failed' = failed \cup {<<f, disk[f]>>}
    /\ scan' = [scan EXCEPT !.todo = @ \ {f}]
    /\ UNCHANGED <<disk, beliefs, saved, edits, faults, missed, unmarked>>

\* A fault: what is on the disk by now is recorded.
SaveFromDisk ==
    /\ scan.step = "compile" /\ scan.todo = {}
    /\ saved' = disk
    /\ missed' = missed \cup {<<f, scan.seen[f]>> : f \in scan.left}
    /\ scan' = Idle
    /\ UNCHANGED <<disk, beliefs, edits, faults, failed, unmarked>>

\* The whole snapshot is recorded, with the files the limit left out.
Save ==
    /\ scan.step = "compile" /\ scan.todo = {}
    /\ saved' = scan.seen
    /\ missed' = missed \cup {<<f, scan.seen[f]>> : f \in scan.left}
    /\ scan' = Idle
    /\ UNCHANGED <<disk, beliefs, edits, faults, failed, unmarked>>

\* A fault: a new scan finds the old one's files.
AbortWithRemains ==
    /\ scan.step # "idle" /\ faults < MaxFaults
    /\ faults' = faults + 1
    /\ scan' = [scan EXCEPT !.step = "idle"]
    /\ UNCHANGED <<disk, beliefs, saved, edits, missed, failed, unmarked>>

\* The process stops, or a step raises and the loop logs it.
Abort ==
    /\ scan.step # "idle" /\ faults < MaxFaults
    /\ faults' = faults + 1
    /\ scan' = Idle
    /\ UNCHANGED <<disk, beliefs, saved, edits, missed, failed, unmarked>>

\* The process stops when it has marked a part of the beliefs.
AbortMarking ==
    /\ scan.step = "snapshot" /\ scan.todo = {} /\ faults < MaxFaults
    /\ faults' = faults + 1
    /\ \E work \in FirstOf(Changed) :
         \E marked \in SUBSET Marked(work \cup Deleted) : MarkStale(marked)
    /\ scan' = Idle
    /\ UNCHANGED <<disk, saved, edits, missed, failed, unmarked>>

\* The process stops while it writes the state file: it reads as empty.
TornSave ==
    /\ scan.step = "compile" /\ scan.todo = {} /\ faults < MaxFaults
    /\ faults' = faults + 1
    /\ saved' = Nothing
    /\ scan' = Idle
    /\ UNCHANGED <<disk, beliefs, edits, missed, failed, unmarked>>

\* The steps a started listener takes of its own.
ScanStep ==
    \/ Begin(FALSE)
    \/ \E f \in Files : Fingerprint(f)
    \/ Unchanged
    \/ Refresh
    \/ \E f \in Files : Compile(f) \/ CompileFails(f)
    \/ Save

ListenerNext ==
    \/ \E f \in Files : Write(f)
    \/ \E f \in Files : Delete(f)
    \/ Begin(TRUE)
    \/ ScanStep
    \/ \E f \in Files : Overlook(f)
    \/ RefreshInPart
    \/ Abort
    \/ AbortMarking
    \/ TornSave

\* The listener's thread waits an interval and scans again, until it is
\* stopped; each scan runs to its end or is counted among the faults.
ListenerSpec == ListenerInit /\ [][ListenerNext]_listenerVars /\ WF_listenerVars(ScanStep)
-----------------------------------------------------------------------------
\* Type correctness; nothing of a scan is left behind when it ends.
ListenerTypeOK ==
    /\ disk \in [Files -> Versions]
    /\ beliefs \in [Names -> [file : Files \cup {NoFile}, version : Versions, stale : BOOLEAN]]
    /\ \A n \in Names :
         IF beliefs[n].file = NoFile THEN beliefs[n].version = 0
         ELSE beliefs[n].version # 0 /\ NameOf[beliefs[n].file] = n
    /\ saved \in [Files -> Versions]
    /\ scan \in [step : {"idle", "snapshot", "compile"}, force : BOOLEAN,
                 todo : SUBSET Files, seen : [Files -> Versions], left : SUBSET Files]
    /\ scan.step = "idle" => scan = Idle
    /\ edits \in Versions
    /\ faults \in 0 .. MaxFaults
    /\ missed \subseteq Files \X Versions
    /\ failed \subseteq Files \X Versions
    /\ unmarked \subseteq Files \X Versions

\* A belief that could not be marked stale.
Unmarkable(n) == <<beliefs[n].file, beliefs[n].version>> \in unmarked

\* The belief about a file whose record is up to date was compiled from that
\* very version, or says that it is stale: an edit in the middle of a scan is
\* seen by the next, and so is what a scan that ended before it was recorded
\* had found.  Excepted are a version that the limit left out, and one that
\* could not be compiled when the old belief could not be marked either: it
\* takes both errors of one file to fool the record.
RecordsAreHonest ==
    \A n \in Names :
        LET about == beliefs[n].file
        IN  about # NoFile /\ ~beliefs[n].stale =>
              \/ disk[about] = 0
              \/ saved[about] # disk[about]
              \/ beliefs[n].version = disk[about]
              \/ <<about, disk[about]>> \in missed
              \/ <<about, disk[about]>> \in failed /\ Unmarkable(n)

\* No scan that compares with the record drops a deleted file from it while
\* the belief about the file still counts as fresh, unless that belief could
\* not be marked.
DeletionsReachBeliefs ==
    [][\A f \in Files :
          /\ saved[f] # 0 /\ saved'[f] = 0
          /\ scan.step = "compile" /\ ~scan.force /\ faults' = faults
          => \/ beliefs'[NameOf[f]].file # f
             \/ beliefs'[NameOf[f]].stale
             \/ Unmarkable(NameOf[f])]_listenerVars

\* What there is to know about a file is known.
CaughtUp(f) == beliefs[NameOf[f]].file = f /\ beliefs[NameOf[f]].version = disk[f]

\* Once the workspace is quiet, every file gets a belief of its last version,
\* or was left out by the limit, or could not be compiled, or the belief of its
\* name is about another file.
BeliefsCatchUp ==
    <>[](\A f \in Files : disk[f] # 0 =>
           \/ CaughtUp(f)
           \/ <<f, disk[f]>> \in missed \cup failed
           \/ beliefs[NameOf[f]].file \notin {f, NoFile})
=============================================================================
