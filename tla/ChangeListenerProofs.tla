------------------------- MODULE ChangeListenerProofs -------------------------
(* Proofs about the change listener: its types, and that neither edits in    *)
(* the middle of a scan nor scans that end early make the record claim too   *)
(* much, or drop a deletion that a belief could have heard of.               *)
EXTENDS ChangeListener, TLAPS

\* Versions come from writes that happened.
VersionsWereWritten ==
    \A f \in Files : disk[f] <= edits /\ saved[f] <= edits /\ scan.seen[f] <= edits

\* While a scan compiles, what it will record is true already, or is left out.
ScanIsHonest ==
    scan.step = "compile" =>
        \A n \in Names :
            LET about == beliefs[n].file
            IN  about # NoFile /\ ~beliefs[n].stale =>
                  \/ disk[about] = 0
                  \/ scan.seen[about] # disk[about]
                  \/ beliefs[n].version = disk[about]
                  \/ <<about, disk[about]>> \in missed
                  \/ about \in scan.left
                  \/ /\ Unmarkable(n)
                     /\ about \in scan.todo \/ <<about, disk[about]>> \in failed

\* A scan compiles files that it has seen.
CompilesWhatItSaw ==
    scan.step = "compile" => \A f \in scan.todo : scan.seen[f] # 0

\* While a scan compiles, the beliefs about the files it found deleted are
\* stale, or could not be marked.
DeletionsAreMarked ==
    scan.step = "compile" /\ ~scan.force =>
        \A f \in Files : saved[f] # 0 /\ scan.seen[f] = 0 =>
            \/ beliefs[NameOf[f]].file # f
            \/ beliefs[NameOf[f]].stale
            \/ Unmarkable(NameOf[f])

ListenerInv ==
    /\ ListenerTypeOK
    /\ VersionsWereWritten
    /\ RecordsAreHonest
    /\ ScanIsHonest
    /\ CompilesWhatItSaw
    /\ DeletionsAreMarked
-----------------------------------------------------------------------------
LEMMA InitHolds == ListenerInit => ListenerInv
  BY ListenerAssumption
  DEF ListenerInit, ListenerInv, ListenerTypeOK, VersionsWereWritten, RecordsAreHonest,
      ScanIsHonest, CompilesWhatItSaw, DeletionsAreMarked, Nothing, Idle, Versions

\* Marking keeps what beliefs are about, and makes none of them fresh.
LEMMA MarkingOnlyMarks ==
  ASSUME ListenerTypeOK, NEW marked, MarkStale(marked)
  PROVE  /\ beliefs' \in [Names -> [file : Files \cup {NoFile}, version : Versions,
                                    stale : BOOLEAN]]
         /\ \A n \in Names : /\ beliefs'[n].file = beliefs[n].file
                             /\ beliefs'[n].version = beliefs[n].version
                             /\ ~beliefs'[n].stale => ~beliefs[n].stale /\ n \notin marked
                             /\ n \in marked => beliefs'[n].stale
<1> DEFINE Record == [file : Files \cup {NoFile}, version : Versions, stale : BOOLEAN]
           Marks(n) == [beliefs[n] EXCEPT !.stale = @ \/ n \in marked]
<1>1. beliefs \in [Names -> Record]
  BY DEF ListenerTypeOK
<1>2. ASSUME NEW n \in Names
      PROVE  /\ Marks(n) \in Record
             /\ Marks(n).file = beliefs[n].file
             /\ Marks(n).version = beliefs[n].version
             /\ Marks(n).stale <=> beliefs[n].stale \/ n \in marked
  <2>1. PICK w \in BOOLEAN : w = (beliefs[n].stale \/ n \in marked)
    BY Zenon
  <2>2. beliefs[n] \in Record
    BY <1>1
  <2>3. Marks(n) = [beliefs[n] EXCEPT !.stale = w]
    BY <2>1, Zenon
  <2>4. /\ [beliefs[n] EXCEPT !.stale = w] \in Record
        /\ [beliefs[n] EXCEPT !.stale = w].file = beliefs[n].file
        /\ [beliefs[n] EXCEPT !.stale = w].version = beliefs[n].version
        /\ [beliefs[n] EXCEPT !.stale = w].stale = w
    BY <2>2
  <2> QED
    BY <2>1, <2>3, <2>4, Zenon
<1>3. beliefs' = [n \in Names |-> Marks(n)]
  BY Zenon DEF MarkStale
<1>4. \A n \in Names : beliefs'[n] = Marks(n)
  BY <1>3, Zenon
<1>5. beliefs' \in [Names -> Record]
  BY <1>2, <1>3, Zenon
<1> HIDE DEF Marks
<1> QED
  BY <1>2, <1>4, <1>5, Zenon
-----------------------------------------------------------------------------
\* The record of a scan is a function of what it reads.
LEMMA FingerprintTakes ==
  ASSUME ListenerTypeOK, NEW f \in Files, Fingerprint(f)
  PROVE  /\ scan' \in [step : {"idle", "snapshot", "compile"}, force : BOOLEAN,
                        todo : SUBSET Files, seen : [Files -> Versions], left : SUBSET Files]
         /\ scan'.step = "snapshot"
         /\ scan'.seen = [scan.seen EXCEPT ![f] = disk[f]]
  BY DEF ListenerTypeOK, Fingerprint

\* Users' edits: a new version is above every version there is.
LEMMA EditsKeepInv ==
  ASSUME ListenerInv, NEW f \in Files, Write(f) \/ Delete(f)
  PROVE  ListenerInv'
<1> USE DEF ListenerInv
<1>1. /\ edits' = edits + 1 /\ edits' \in Versions
      /\ UNCHANGED <<beliefs, saved, scan, faults, missed, failed, unmarked>>
      /\ \E v \in {0, edits'} : disk' = [disk EXCEPT ![f] = v]
  BY ListenerAssumption DEF Write, Delete, ListenerTypeOK, Versions
<1>2. PICK v \in {0, edits'} : disk' = [disk EXCEPT ![f] = v]
  BY <1>1
<1>3. v \in Versions /\ edits \in Nat
  BY <1>1, <1>2, ListenerAssumption DEF ListenerTypeOK, Versions
<1>4. \A g \in Files : disk'[g] = IF g = f THEN v ELSE disk[g]
  BY <1>2 DEF ListenerTypeOK
<1>5. ListenerTypeOK'
  BY <1>1, <1>2, <1>3 DEF ListenerTypeOK, Idle, Nothing
<1>6. \A g \in Files : saved[g] \in Nat /\ scan.seen[g] \in Nat /\ disk[g] \in Nat
  BY DEF ListenerTypeOK, Versions
<1>7. VersionsWereWritten'
  BY <1>1, <1>2, <1>3, <1>4, <1>6 DEF VersionsWereWritten
<1>8. \A g \in Files : disk'[g] # 0 /\ (saved[g] = disk'[g] \/ scan.seen[g] = disk'[g])
                        => disk'[g] = disk[g]
  BY <1>1, <1>2, <1>3, <1>4, <1>6 DEF VersionsWereWritten
<1>9. \A n \in Names : beliefs[n].file # NoFile => beliefs[n].file \in Files
  BY DEF ListenerTypeOK
<1>10. RecordsAreHonest'
  BY <1>1, <1>8, <1>9 DEF RecordsAreHonest, Unmarkable
<1>11. ScanIsHonest'
  BY <1>1, <1>8, <1>9 DEF ScanIsHonest, Unmarkable
<1>12. CompilesWhatItSaw' /\ DeletionsAreMarked'
  BY <1>1 DEF CompilesWhatItSaw, DeletionsAreMarked, Unmarkable
<1> QED
  BY <1>5, <1>7, <1>10, <1>11, <1>12

\* A scan's steps up to its first mark change the scan alone.
LEMMA LookingKeepsInv ==
  ASSUME ListenerInv,
         \/ \E force \in BOOLEAN : Begin(force)
         \/ \E f \in Files : Fingerprint(f) \/ Overlook(f)
         \/ Unchanged
         \/ Abort
  PROVE  ListenerInv'
<1> USE DEF ListenerInv
<1>1. UNCHANGED <<disk, beliefs, saved, edits, missed, failed, unmarked>>
  BY DEF Begin, Fingerprint, Overlook, Unchanged, Abort
<1>2. faults' \in 0 .. MaxFaults
  <2>1. faults' = faults \/ (faults < MaxFaults /\ faults' = faults + 1)
    BY DEF Begin, Fingerprint, Overlook, Unchanged, Abort
  <2>2. faults \in 0 .. MaxFaults /\ MaxFaults \in Nat
    BY ListenerAssumption DEF ListenerTypeOK
  <2> QED
    BY <2>1, <2>2
<1>3. /\ scan' \in [step : {"idle", "snapshot", "compile"}, force : BOOLEAN,
                     todo : SUBSET Files, seen : [Files -> Versions], left : SUBSET Files]
      /\ scan'.step # "compile"
      /\ scan'.step = "idle" => scan' = Idle
      /\ \A g \in Files : scan'.seen[g] \in {0, disk[g], scan.seen[g]}
  <2>1. 0 \in Versions
    BY ListenerAssumption DEF Versions
  <2>2. CASE \E force \in BOOLEAN : Begin(force)
    BY <2>1, <2>2 DEF Begin, Nothing
  <2>3. CASE \E f \in Files : Fingerprint(f)
    <3>1. PICK f \in Files : Fingerprint(f)
      BY <2>3
    <3>2. scan.seen \in [Files -> Versions]
      BY DEF ListenerTypeOK
    <3>3. \A g \in Files : scan'.seen[g] = IF g = f THEN disk[f] ELSE scan.seen[g]
      <4>1. scan'.seen = [scan.seen EXCEPT ![f] = disk[f]]
        BY <3>1, FingerprintTakes
      <4> QED
        BY <3>2, <4>1
    <3>4. \A g \in Files : scan'.seen[g] \in {0, disk[g], scan.seen[g]}
      BY <3>3
    <3> QED
      BY <3>1, <3>4, FingerprintTakes
  <2>4. CASE \E f \in Files : Overlook(f)
    BY <2>4 DEF Overlook, ListenerTypeOK
  <2>5. CASE Unchanged \/ Abort
    <3>1. scan' = Idle
      BY <2>5 DEF Unchanged, Abort
    <3> QED
      BY <2>1, <3>1 DEF Idle, Nothing
  <2> QED
    BY <2>2, <2>3, <2>4, <2>5
<1>4. ListenerTypeOK'
  BY <1>1, <1>2, <1>3 DEF ListenerTypeOK, Idle, Nothing
<1>5. edits \in Nat
  BY ListenerAssumption DEF ListenerTypeOK, Versions
<1>6. VersionsWereWritten'
  BY <1>1, <1>3, <1>5 DEF VersionsWereWritten
<1>7. RecordsAreHonest'
  BY <1>1 DEF RecordsAreHonest, Unmarkable
<1> QED
  BY <1>3, <1>4, <1>6, <1>7 DEF ScanIsHonest, CompilesWhatItSaw, DeletionsAreMarked
\* Marking makes nothing fresh, so what was true of fresh beliefs stays true.
LEMMA MarkingKeepsRecords ==
  ASSUME ListenerInv, NEW marked, MarkStale(marked),
         UNCHANGED <<disk, saved, edits, missed, failed>>, unmarked \subseteq unmarked'
  PROVE  RecordsAreHonest'
<1>1. \A n \in Names : /\ beliefs'[n].file = beliefs[n].file
                       /\ beliefs'[n].version = beliefs[n].version
                       /\ ~beliefs'[n].stale => ~beliefs[n].stale
  BY MarkingOnlyMarks DEF ListenerInv
<1> QED
  BY <1>1 DEF ListenerInv, RecordsAreHonest, Unmarkable

LEMMA MarkingKeepsBeliefTypes ==
  ASSUME ListenerInv, NEW marked, MarkStale(marked)
  PROVE  /\ beliefs' \in [Names -> [file : Files \cup {NoFile}, version : Versions,
                                    stale : BOOLEAN]]
         /\ \A n \in Names :
               IF beliefs'[n].file = NoFile THEN beliefs'[n].version = 0
               ELSE beliefs'[n].version # 0 /\ NameOf[beliefs'[n].file] = n
  BY MarkingOnlyMarks DEF ListenerInv, ListenerTypeOK

LEMMA RefreshKeepsInv ==
  ASSUME ListenerInv, NEW lost \in SUBSET Names, RefreshBut(lost), faults' \in 0 .. MaxFaults
  PROVE  ListenerInv'
<1> USE DEF ListenerInv
<1>1. PICK work \in FirstOf(Changed) :
        /\ lost \subseteq Marked(work \cup Deleted)
        /\ MarkStale(Marked(work \cup Deleted) \ lost)
        /\ scan' = [scan EXCEPT !.step = "compile", !.todo = work, !.left = Changed \ work]
  BY DEF RefreshBut
<1>2. /\ UNCHANGED <<disk, saved, edits, missed, failed>>
      /\ unmarked' = unmarked \cup {<<beliefs[n].file, beliefs[n].version>> : n \in lost}
  BY DEF RefreshBut
<1>3. work \subseteq Changed /\ Changed \subseteq Files /\ Deleted \subseteq Files
  BY DEF FirstOf, Changed, Deleted
<1>4. /\ scan' \in [step : {"idle", "snapshot", "compile"}, force : BOOLEAN,
                     todo : SUBSET Files, seen : [Files -> Versions], left : SUBSET Files]
      /\ scan'.step = "compile" /\ scan'.todo = work /\ scan'.left = Changed \ work
      /\ scan'.seen = scan.seen /\ scan'.force = scan.force
  <2>1. scan \in [step : {"idle", "snapshot", "compile"}, force : BOOLEAN,
                  todo : SUBSET Files, seen : [Files -> Versions], left : SUBSET Files]
    BY DEF ListenerTypeOK
  <2>2. work \in SUBSET Files /\ Changed \ work \in SUBSET Files
    BY <1>3
  <2> QED
    BY <1>1, <2>1, <2>2
<1>5. ListenerTypeOK'
  <2>1. ASSUME NEW n \in lost PROVE <<beliefs[n].file, beliefs[n].version>> \in Files \X Versions
    <3>1. n \in Names /\ beliefs[n].version # 0
      BY <1>1, <2>1 DEF Marked
    <3> QED
      BY <3>1 DEF ListenerTypeOK
  <2>2. unmarked' \subseteq Files \X Versions
    BY <1>2, <2>1 DEF ListenerTypeOK
  <2> QED
    BY <1>1, <1>2, <1>4, <2>2, MarkingKeepsBeliefTypes DEF ListenerTypeOK
<1>6. VersionsWereWritten'
  BY <1>2, <1>4 DEF VersionsWereWritten
<1>7. RecordsAreHonest'
  BY <1>1, <1>2, MarkingKeepsRecords
<1>8. \A n \in Names : /\ beliefs'[n].file = beliefs[n].file
                       /\ beliefs'[n].version = beliefs[n].version
                       /\ ~beliefs'[n].stale =>
                            ~beliefs[n].stale /\ n \notin Marked(work \cup Deleted) \ lost
                       /\ n \in lost => Unmarkable(n)'
  <2>1. \A n \in Names : /\ beliefs'[n].file = beliefs[n].file
                         /\ beliefs'[n].version = beliefs[n].version
                         /\ ~beliefs'[n].stale =>
                              ~beliefs[n].stale /\ n \notin Marked(work \cup Deleted) \ lost
    BY <1>1, MarkingOnlyMarks
  <2>2. \A n \in lost : <<beliefs[n].file, beliefs[n].version>> \in unmarked'
    BY <1>2
  <2> QED
    BY <2>1, <2>2 DEF Unmarkable
\* Beliefs about the files of this scan are marked: a file meets its own name.
<1>9. ASSUME NEW n \in Names, beliefs[n].file \in work \cup Deleted
      PROVE  n \in Marked(work \cup Deleted)
  <2>1. beliefs[n].file \in Files /\ beliefs[n].file # NoFile
    BY <1>3, <1>9, ListenerAssumption
  <2>2. beliefs[n].version # 0 /\ NameOf[beliefs[n].file] = n
    BY <2>1 DEF ListenerTypeOK
  <2>3. <<n, n>> \in Within
    BY ListenerAssumption
  <2> QED
    BY <1>9, <2>2, <2>3 DEF Marked
<1>10. ScanIsHonest'
  <2> SUFFICES ASSUME NEW n \in Names, NEW about, about = beliefs[n].file,
                      about # NoFile, ~beliefs'[n].stale, disk[about] # 0,
                      scan.seen[about] = disk[about], about \notin Changed \ work
               PROVE  \/ beliefs[n].version = disk[about]
                      \/ <<about, disk[about]>> \in missed
                      \/ /\ Unmarkable(n)'
                         /\ about \in work \/ <<about, disk[about]>> \in failed
    BY <1>2, <1>4, <1>8 DEF ScanIsHonest
  <2>1. about \in Files
    BY DEF ListenerTypeOK
  <2>2. CASE about \in work
    BY <1>8, <1>9, <2>2
  <2>3. CASE about \notin work
    <3>1. scan.seen[about] = Previous[about]
      BY <2>1, <2>3 DEF Changed
    <3>2. saved[about] = disk[about]
      BY <2>1, <3>1 DEF Previous, Nothing
    <3>3. Unmarkable(n) => Unmarkable(n)'
      BY <1>2, <1>8 DEF Unmarkable
    <3> QED
      BY <1>8, <3>2, <3>3 DEF RecordsAreHonest
  <2> QED
    BY <2>2, <2>3
<1>11. CompilesWhatItSaw'
  BY <1>3, <1>4 DEF CompilesWhatItSaw, Changed
<1>12. DeletionsAreMarked'
  <2> SUFFICES ASSUME ~scan.force, NEW f \in Files, saved[f] # 0, scan.seen[f] = 0,
                      beliefs'[NameOf[f]].file = f
               PROVE  beliefs'[NameOf[f]].stale \/ Unmarkable(NameOf[f])'
    BY <1>2, <1>4 DEF DeletionsAreMarked
  <2>1. f \in Deleted
    BY DEF Deleted, Previous
  <2>2. NameOf[f] \in Names
    BY ListenerAssumption
  <2> QED
    BY <1>8, <1>9, <2>1, <2>2
<1> QED
  BY <1>5, <1>6, <1>7, <1>10, <1>11, <1>12

\* A scan that ends leaves the record as it was, or without any file.
LEMMA EndingKeepsInv ==
  ASSUME ListenerInv, scan' = Idle, saved' \in {saved, Nothing},
         ListenerTypeOK', RecordsAreHonest', UNCHANGED <<disk, edits>>
  PROVE  ListenerInv'
<1>1. edits \in Nat
  BY ListenerAssumption DEF ListenerInv, ListenerTypeOK, Versions
<1>2. VersionsWereWritten'
  BY <1>1 DEF ListenerInv, VersionsWereWritten, Idle, Nothing
<1> QED
  BY <1>2 DEF ListenerInv, ScanIsHonest, CompilesWhatItSaw, DeletionsAreMarked, Idle
LEMMA AbortMarkingKeepsInv ==
  ASSUME ListenerInv, AbortMarking
  PROVE  ListenerInv'
<1> USE DEF ListenerInv
<1>1. PICK marked : MarkStale(marked)
  BY DEF AbortMarking
<1>2. /\ scan' = Idle
      /\ UNCHANGED <<disk, saved, edits, missed, failed, unmarked>>
      /\ faults < MaxFaults /\ faults' = faults + 1
  BY DEF AbortMarking
<1>3. faults' \in 0 .. MaxFaults
  BY <1>2, ListenerAssumption DEF ListenerTypeOK
<1>4. ListenerTypeOK'
  BY <1>1, <1>2, <1>3, MarkingKeepsBeliefTypes, ListenerAssumption
  DEF ListenerTypeOK, Idle, Nothing, Versions
<1>5. RecordsAreHonest'
  BY <1>1, <1>2, MarkingKeepsRecords
<1> QED
  BY <1>2, <1>4, <1>5, EndingKeepsInv

LEMMA TornSaveKeepsInv ==
  ASSUME ListenerInv, TornSave
  PROVE  ListenerInv'
<1> USE DEF ListenerInv
<1>1. /\ scan' = Idle /\ saved' = Nothing
      /\ UNCHANGED <<disk, beliefs, edits, missed, failed, unmarked>>
      /\ faults < MaxFaults /\ faults' = faults + 1
  BY DEF TornSave
<1>2. faults' \in 0 .. MaxFaults
  BY <1>1, ListenerAssumption DEF ListenerTypeOK
<1>3. ListenerTypeOK'
  BY <1>1, <1>2, ListenerAssumption DEF ListenerTypeOK, Idle, Nothing, Versions
<1>4. \A n \in Names : beliefs[n].file # NoFile => beliefs[n].file \in Files
  BY DEF ListenerTypeOK
<1>5. RecordsAreHonest'
  BY <1>1, <1>4 DEF RecordsAreHonest, Nothing, Unmarkable
<1> QED
  BY <1>1, <1>3, <1>5, EndingKeepsInv

LEMMA SaveKeepsInv ==
  ASSUME ListenerInv, Save
  PROVE  ListenerInv'
<1> USE DEF ListenerInv
<1>1. /\ scan.step = "compile" /\ scan.todo = {} /\ saved' = scan.seen /\ scan' = Idle
      /\ missed' = missed \cup {<<f, scan.seen[f]>> : f \in scan.left}
      /\ UNCHANGED <<disk, beliefs, edits, faults, failed, unmarked>>
  BY DEF Save
<1>2. /\ scan.seen \in [Files -> Versions] /\ scan.left \subseteq Files
      /\ edits \in Nat
  BY ListenerAssumption DEF ListenerTypeOK, Versions
<1>3. missed' \subseteq Files \X Versions
  BY <1>1, <1>2 DEF ListenerTypeOK
<1>4. ListenerTypeOK'
  BY <1>1, <1>2, <1>3, ListenerAssumption DEF ListenerTypeOK, Idle, Nothing, Versions
<1>5. VersionsWereWritten'
  BY <1>1, <1>2 DEF VersionsWereWritten, Idle, Nothing
<1>6. RecordsAreHonest'
  <2> SUFFICES ASSUME NEW n \in Names, NEW about, about = beliefs[n].file,
                      about # NoFile, ~beliefs[n].stale, disk[about] # 0,
                      scan.seen[about] = disk[about]
               PROVE  \/ beliefs[n].version = disk[about]
                      \/ <<about, disk[about]>> \in missed'
                      \/ <<about, disk[about]>> \in failed /\ Unmarkable(n)
    BY <1>1 DEF RecordsAreHonest, Unmarkable
  <2>1. \/ beliefs[n].version = disk[about]
        \/ <<about, disk[about]>> \in missed
        \/ about \in scan.left
        \/ <<about, disk[about]>> \in failed /\ Unmarkable(n)
    BY <1>1 DEF ScanIsHonest
  <2> QED
    BY <1>1, <2>1
<1> QED
  BY <1>1, <1>4, <1>5, <1>6 DEF ScanIsHonest, CompilesWhatItSaw, DeletionsAreMarked, Idle

\* What a scan does to its own record while it compiles.
LEMMA CompilingTypes ==
  ASSUME ListenerTypeOK, NEW f \in scan.todo, scan' = [scan EXCEPT !.todo = @ \ {f}]
  PROVE  /\ scan' \in [step : {"idle", "snapshot", "compile"}, force : BOOLEAN,
                        todo : SUBSET Files, seen : [Files -> Versions], left : SUBSET Files]
         /\ scan'.step = scan.step /\ scan'.seen = scan.seen
         /\ scan'.force = scan.force /\ scan'.left = scan.left
         /\ scan'.todo = scan.todo \ {f}
  BY DEF ListenerTypeOK

LEMMA CompileKeepsInv ==
  ASSUME ListenerInv, NEW f \in Files, Compile(f)
  PROVE  ListenerInv'
<1> USE DEF ListenerInv
<1>1. /\ scan.step = "compile" /\ f \in scan.todo /\ disk[f] # 0
      /\ scan' = [scan EXCEPT !.todo = @ \ {f}]
      /\ beliefs' = [beliefs EXCEPT ![NameOf[f]] =
                        [file |-> f, version |-> disk[f], stale |-> FALSE]]
      /\ UNCHANGED <<disk, saved, edits, faults, missed, failed, unmarked>>
  BY DEF Compile
<1>2. /\ scan' \in [step : {"idle", "snapshot", "compile"}, force : BOOLEAN,
                     todo : SUBSET Files, seen : [Files -> Versions], left : SUBSET Files]
      /\ scan'.step = scan.step /\ scan'.seen = scan.seen
      /\ scan'.force = scan.force /\ scan'.left = scan.left
      /\ scan'.todo = scan.todo \ {f}
  BY <1>1, CompilingTypes
<1>3. NameOf[f] \in Names /\ disk[f] \in Versions /\ f # NoFile
  BY ListenerAssumption DEF ListenerTypeOK
<1>4. beliefs \in [Names -> [file : Files \cup {NoFile}, version : Versions, stale : BOOLEAN]]
  BY DEF ListenerTypeOK
<1>5. /\ beliefs' \in [Names -> [file : Files \cup {NoFile}, version : Versions,
                                 stale : BOOLEAN]]
      /\ \A n \in Names : n # NameOf[f] => beliefs'[n] = beliefs[n]
      /\ /\ beliefs'[NameOf[f]].file = f
         /\ beliefs'[NameOf[f]].version = disk[f]
  BY <1>1, <1>3, <1>4
<1>6. ListenerTypeOK'
  BY <1>1, <1>2, <1>3, <1>5 DEF ListenerTypeOK
<1>7. VersionsWereWritten'
  BY <1>1, <1>2 DEF VersionsWereWritten
<1>8. RecordsAreHonest'
  BY <1>1, <1>5 DEF RecordsAreHonest, Unmarkable
<1>9. ScanIsHonest'
  <2>1. \A n \in Names : beliefs[n].file = f => n = NameOf[f]
    BY <1>3 DEF ListenerTypeOK
  <2> QED
    BY <1>1, <1>2, <1>3, <1>5, <2>1 DEF ScanIsHonest, Unmarkable
<1>10. CompilesWhatItSaw'
  BY <1>1, <1>2 DEF CompilesWhatItSaw
<1>11. DeletionsAreMarked'
  BY <1>1, <1>2, <1>5, ListenerAssumption DEF DeletionsAreMarked, CompilesWhatItSaw, Unmarkable
<1> QED
  BY <1>6, <1>7, <1>8, <1>9, <1>10, <1>11

LEMMA CompileFailsKeepsInv ==
  ASSUME ListenerInv, NEW f \in Files, CompileFails(f)
  PROVE  ListenerInv'
<1> USE DEF ListenerInv
<1>1. /\ scan.step = "compile" /\ f \in scan.todo
      /\ scan' = [scan EXCEPT !.todo = @ \ {f}]
      /\ failed' = failed \cup {<<f, disk[f]>>}
      /\ UNCHANGED <<disk, beliefs, saved, edits, faults, missed, unmarked>>
  BY DEF CompileFails
<1>2. /\ scan' \in [step : {"idle", "snapshot", "compile"}, force : BOOLEAN,
                     todo : SUBSET Files, seen : [Files -> Versions], left : SUBSET Files]
      /\ scan'.step = scan.step /\ scan'.seen = scan.seen
      /\ scan'.force = scan.force /\ scan'.left = scan.left
      /\ scan'.todo = scan.todo \ {f}
  BY <1>1, CompilingTypes
<1>3. failed' \subseteq Files \X Versions
  BY <1>1 DEF ListenerTypeOK
<1>4. ListenerTypeOK'
  BY <1>1, <1>2, <1>3 DEF ListenerTypeOK
<1> QED
  BY <1>1, <1>2, <1>4
  DEF VersionsWereWritten, RecordsAreHonest, ScanIsHonest, CompilesWhatItSaw, DeletionsAreMarked,
      Unmarkable
-----------------------------------------------------------------------------
LEMMA StepKeepsInv == ListenerInv /\ [ListenerNext]_listenerVars => ListenerInv'
<1> SUFFICES ASSUME ListenerInv, [ListenerNext]_listenerVars PROVE ListenerInv'
  OBVIOUS
<1>1. CASE \E f \in Files : Write(f) \/ Delete(f)
  BY <1>1, EditsKeepInv
<1>2. CASE \/ \E force \in BOOLEAN : Begin(force)
           \/ \E f \in Files : Fingerprint(f) \/ Overlook(f)
           \/ Unchanged \/ Abort
  BY <1>2, LookingKeepsInv
<1>3. CASE Refresh \/ RefreshInPart
  <2>1. PICK lost \in SUBSET Names : RefreshBut(lost)
    BY <1>3 DEF Refresh, RefreshInPart
  <2>2. faults' \in 0 .. MaxFaults
    BY <1>3, ListenerAssumption DEF Refresh, RefreshInPart, ListenerInv, ListenerTypeOK
  <2> QED
    BY <2>1, <2>2, RefreshKeepsInv
<1>4. CASE AbortMarking
  BY <1>4, AbortMarkingKeepsInv
<1>5. CASE \E f \in Files : Compile(f)
  BY <1>5, CompileKeepsInv
<1>6. CASE \E f \in Files : CompileFails(f)
  BY <1>6, CompileFailsKeepsInv
<1>7. CASE Save
  BY <1>7, SaveKeepsInv
<1>8. CASE TornSave
  BY <1>8, TornSaveKeepsInv
<1>9. CASE UNCHANGED listenerVars
  BY <1>9 DEF listenerVars, ListenerInv, ListenerTypeOK, VersionsWereWritten, RecordsAreHonest,
             ScanIsHonest, CompilesWhatItSaw, DeletionsAreMarked, Unmarkable
<1> QED
  BY <1>1, <1>2, <1>3, <1>4, <1>5, <1>6, <1>7, <1>8, <1>9 DEF ListenerNext, ScanStep

THEOREM ListenerInvHolds == ListenerSpec => []ListenerInv
  BY InitHolds, StepKeepsInv, PTL DEF ListenerSpec

\* Type correctness, and no scan leaves anything behind.
THEOREM ListenerTypeCorrect == ListenerSpec => []ListenerTypeOK
<1>1. ListenerInv => ListenerTypeOK
  BY DEF ListenerInv
<1> QED
  BY <1>1, ListenerInvHolds, PTL

\* scan_once records the snapshot that it compared, not what the disk holds when
\* it ends: whatever edits and early ends there were, the record does not
\* vouch for a fresh belief from another version, but where the limit left the
\* version out, or it could neither be compiled nor the old belief be marked.
THEOREM RecordsStayHonest == ListenerSpec => []RecordsAreHonest
<1>1. ListenerInv => RecordsAreHonest
  BY DEF ListenerInv
<1> QED
  BY <1>1, ListenerInvHolds, PTL

\* scan_once marks the beliefs about deleted files before it forgets the files,
\* all but those that mark_beliefs_stale_for_files fails to mark.
THEOREM DeletionsAreNotLost == ListenerSpec => DeletionsReachBeliefs
<1> DEFINE Reaches ==
      \A f \in Files :
          /\ saved[f] # 0 /\ saved'[f] = 0
          /\ scan.step = "compile" /\ ~scan.force /\ faults' = faults
          => \/ beliefs'[NameOf[f]].file # f
             \/ beliefs'[NameOf[f]].stale
             \/ Unmarkable(NameOf[f])
<1>1. ASSUME ListenerInv, [ListenerNext]_listenerVars
      PROVE  [Reaches]_listenerVars
  <2> SUFFICES ASSUME NEW f \in Files, saved[f] # 0, saved'[f] = 0,
                      scan.step = "compile", ~scan.force, faults' = faults
               PROVE  \/ beliefs'[NameOf[f]].file # f
                      \/ beliefs'[NameOf[f]].stale
                      \/ Unmarkable(NameOf[f])
    OBVIOUS
  <2>1. faults \in Int
    BY <1>1, ListenerAssumption DEF ListenerInv, ListenerTypeOK
  <2>2. saved' # saved
    OBVIOUS
  <2>3. CASE Save
    BY <1>1, <2>3 DEF Save, ListenerInv, DeletionsAreMarked
  <2>4. ~TornSave
    BY <2>1 DEF TornSave
  <2> QED
    BY <1>1, <2>2, <2>3, <2>4
    DEF ListenerNext, ScanStep, Write, Delete, Begin, Fingerprint, Overlook, Unchanged, Refresh,
        RefreshBut, RefreshInPart,
        AbortMarking, Abort, Compile, CompileFails, listenerVars
<1> QED
  BY <1>1, ListenerInvHolds, PTL DEF ListenerSpec, DeletionsReachBeliefs
=============================================================================
