---------------------------- MODULE FragmentStore ----------------------------
(***************************************************************************)
(* The fragment store of the Rust engine (entroly-core/src/lib.rs) with    *)
(* the two indexes it must keep in step: the duplicate index (dedup.rs)    *)
(* and the LSH index (lsh.rs), whose entries are slots of a list of ids.   *)
(*                                                                         *)
(* A fragment is content that was ingested, or a stub that stands for a    *)
(* file nobody has read yet; a batch replaces the stubs of its sources.    *)
(* A turn lets unused fragments decay and, now and then, consolidates      *)
(* near duplicates.  The whole state can be exported; any of the exports   *)
(* may be imported again, into a live store, by the next process, or in a  *)
(* later life that started empty and numbers its fragments anew.  Peers    *)
(* that share the checkpoints look the same to a store as other lives.     *)
(*                                                                         *)
(* A text is a class of equal normalised contents, and its fingerprint is  *)
(* the text itself.  Scores, token counts, skeletons and beliefs only rank *)
(* fragments, so where they pick one of several the choice is free.        *)
(***************************************************************************)
EXTENDS Integers, Sequences, FiniteSets, Functions

CONSTANTS
    Contents,      (* texts that are ingested                              *)
    Sources,       (* files; a stub's text is its source's name            *)
    Similar,       (* pairs of contents at Hamming distance <= 8           *)
    Protected,     (* sources and contents that are always pinned          *)
    NoPrint,       (* the fingerprint 0 of every stub                      *)
    MaxFragments,  (* max_fragments                                        *)
    AgeLimit,      (* turns without access until recency < min_relevance   *)
    Period,        (* turns between two consolidations                     *)
    Crowd,         (* fragments it takes for a consolidation               *)
    MaxBatch,      (* bound on the items of one batch                      *)
    MaxIds,        (* bound on id_counter                                  *)
    MaxTurn,       (* bound on current_turn                                *)
    MaxSaved,      (* bound on the exports that are kept                   *)
    SavedIds       (* bound on the id_counter of an export                 *)

Texts == Contents \cup Sources

ASSUME StoreAssumption ==
    /\ Similar \subseteq Contents \X Contents
    /\ \A p \in Similar : <<p[2], p[1]>> \in Similar
    /\ Contents \cap Sources = {}
    /\ Protected \subseteq Texts
    /\ NoPrint \notin Texts
    /\ {MaxFragments, Period} \subseteq Nat \ {0}
    /\ {AgeLimit, Crowd, MaxBatch, MaxIds, MaxTurn, MaxSaved, SavedIds} \subseteq Nat

VARIABLES
    fragments,   (* id -> fragment                                         *)
    dedup,       (* dedup_index: id -> text                                *)
    slots,       (* fragment_slot_ids                                      *)
    lsh,         (* lsh_index: the slots and fingerprints inserted         *)
    idCounter,   (* id_counter                                             *)
    turn,        (* current_turn                                           *)
    batch,       (* what batch_ingest has still to insert                  *)
    stubIndex,   (* the source -> stub id map of that call                 *)
    answer,      (* what the last content that was offered was told        *)
    saved        (* the exports that a resume or a restart may find        *)

storeVars == <<fragments, dedup, slots, lsh, idCounter, turn,
               batch, stubIndex, answer, saved>>
-----------------------------------------------------------------------------
\* "f.." or "sh..", then the counter; the instance part is the same in every
\* process, whose first engine always draws the same seed.
Ids == {"f", "sh"} \X (1 .. MaxIds)

Fragment == [text : Texts, source : Sources, hydrated : BOOLEAN,
             pinned : BOOLEAN, last : 0 .. MaxTurn]

Item == [text : Contents, source : Sources]

IsMap(m, S, T) == DOMAIN m \subseteq S /\ m \in [DOMAIN m -> T]

Fp(f) == IF f.hydrated THEN f.text ELSE NoPrint

\* Hamming distance within the consolidation threshold.
Close(f, g) == Fp(f) = Fp(g) \/ <<Fp(f), Fp(g)>> \in Similar

\* The string order of ids: fragments before stubs, then by number.
Before(i, j) ==
    \/ i[1] = "f" /\ j[1] = "sh"
    \/ i[1] = j[1] /\ i[2] < j[2]

Bind(m, k, v) == [j \in DOMAIN m \cup {k} |-> IF j = k THEN v ELSE m[j]]

Drop(m, S) == Restrict(m, DOMAIN m \ S)

Full(fr) == Cardinality(DOMAIN fr) >= MaxFragments

\* A fault: near fingerprints are duplicates whatever the content hash says.
DuplicatesByPrint(index, id, text) ==
    {j \in DOMAIN index \ {id} : index[j] = text \/ <<index[j], text>> \in Similar}

\* The ids DedupIndex::insert may report for a text, given what it indexes.
Duplicates(index, id, text) == {j \in DOMAIN index \ {id} : index[j] = text}

\* Every id once, in order.
SortedLists(S) ==
    {s \in [1 .. Cardinality(S) -> S] :
        \A m, n \in DOMAIN s : m < n => Before(s[m], s[n])}

\* rebuild_lsh_index: every fragment gets a slot, and every slot an entry.
Indexed(fr, list) ==
    {[slot |-> n, fp |-> Fp(fr[list[n]])] : n \in DOMAIN list}

\* A fault: the index is left as it was.
KeepLsh == UNCHANGED <<slots, lsh>>

RebuildLsh ==
    /\ slots' \in SortedLists(DOMAIN fragments')
    /\ lsh' = Indexed(fragments', slots')
-----------------------------------------------------------------------------
Empty == <<>>

StoreInit ==
    /\ fragments = Empty
    /\ dedup = Empty
    /\ slots = <<>>
    /\ lsh = {}
    /\ idCounter = 0
    /\ turn = 0
    /\ batch = <<>>
    /\ stubIndex = Empty
    /\ answer = <<"none">>
    /\ saved = {}

\* A new fragment enters the map, the slot list and the LSH index.
Store(fr, id, f) ==
    /\ fragments' = Bind(fr, id, f)
    /\ slots' = Append(slots, id)
    /\ lsh' = IF f.hydrated
              THEN lsh \cup {[slot |-> Len(slots) + 1, fp |-> Fp(f)]}
              ELSE lsh

\* A fault: a fragment is stamped with the turn to come.
HydratedAhead(text, source, pinned) ==
    [text |-> text, source |-> source, hydrated |-> TRUE, last |-> turn + 1,
     pinned |-> pinned \/ text \in Protected \/ source \in Protected]

\* The new fragment of a content.
Hydrated(text, source, pinned) ==
    [text |-> text, source |-> source, hydrated |-> TRUE, last |-> turn,
     pinned |-> pinned \/ text \in Protected \/ source \in Protected]

(***************************************************************************)
(* What ingest and every item of a batch do with a content, once the cap   *)
(* is checked: fr and index are the fragments and the duplicate index with *)
(* the source's stub out of the way.                                       *)
(***************************************************************************)
Admit(fr, index, text, source, pinned) ==
    LET id   == <<"f", idCounter + 1>>
        dups == Duplicates(index, id, text)
    IN  /\ idCounter' = idCounter + 1
        /\ \/ \E d \in dups :
                /\ fragments' = IF d \in DOMAIN fr
                                THEN [fr EXCEPT ![d].last = turn] ELSE fr
                /\ dedup' = index
                /\ answer' = <<"duplicate", text>>
                /\ UNCHANGED <<slots, lsh>>
           \/ /\ dups = {}
              /\ Store(fr, id, Hydrated(text, source, pinned))
              /\ dedup' = Bind(index, id, text)
              /\ answer' = <<"ingested", text>>

Ingest(text, source, pinned) ==
    /\ batch = <<>> /\ idCounter < MaxIds
    /\ \/ /\ Full(fragments)
          /\ answer' = <<"rejected", text>>
          /\ UNCHANGED <<fragments, dedup, slots, lsh, idCounter>>
       \/ /\ ~Full(fragments)
          /\ Admit(fragments, dedup, text, source, pinned)
    /\ UNCHANGED <<turn, batch, stubIndex, saved>>

\* One path of ingest_paths_stubs; the loop keeps nothing between two paths.
IngestStub(source) ==
    /\ batch = <<>> /\ idCounter < MaxIds
    /\ ~Full(fragments)
    /\ idCounter' = idCounter + 1
    /\ Store(fragments, <<"sh", idCounter + 1>>,
             [text |-> source, source |-> source, hydrated |-> FALSE,
              last |-> turn, pinned |-> FALSE])
    /\ UNCHANGED <<dedup, turn, batch, stubIndex, answer, saved>>

\* The stubs there are now, of which the map keeps one per source.
Stubs == {i \in DOMAIN fragments : ~fragments[i].hydrated /\ i[1] = "sh"}

StubIndexes ==
    {m \in [{fragments[i].source : i \in Stubs} -> Stubs] :
        \A s \in DOMAIN m : fragments[m[s]].source = s}

\* batch_ingest holds the engine until its last item is inserted.
BatchBegin(items) ==
    /\ batch = <<>>
    /\ batch' = items
    /\ stubIndex' \in StubIndexes
    /\ UNCHANGED <<fragments, dedup, slots, lsh, idCounter, turn, answer, saved>>

\* The stub of a source, if the call knows one.
StubOf(source) == IF source \in DOMAIN stubIndex THEN {stubIndex[source]} ELSE {}

\* The cap ends the batch; else the item's stub goes, then the item is admitted.
BatchItem ==
    /\ batch # <<>>
    /\ \/ /\ Full(fragments)
          /\ batch' = <<>> /\ stubIndex' = Empty
          /\ UNCHANGED <<fragments, dedup, slots, lsh, idCounter, answer>>
       \/ /\ ~Full(fragments) /\ idCounter < MaxIds
          /\ LET item == Head(batch)
                 gone == StubOf(item.source)
             IN  Admit(Drop(fragments, gone), Drop(dedup, gone),
                       item.text, item.source, FALSE)
          /\ batch' = Tail(batch)
          /\ stubIndex' = IF batch' = <<>> THEN Empty ELSE stubIndex
    /\ UNCHANGED <<turn, saved>>

\* optimize marks what it selects as used, and takes the pin from the files
\* whose path matched the query, which it had pinned for the selection.
Access(selected, matched) ==
    /\ batch = <<>>
    /\ fragments' = [i \in DOMAIN fragments |->
          [fragments[i] EXCEPT !.last   = IF i \in selected THEN turn ELSE @,
                               !.pinned = @ /\ i \notin matched]]
    /\ UNCHANGED <<dedup, slots, lsh, idCounter, turn, batch, stubIndex, answer, saved>>

(***************************************************************************)
(* find_consolidation_groups walks the unpinned fragments in the order the *)
(* hash map lists them.  One that no earlier leader claimed leads a group  *)
(* and claims all the unclaimed ones close to it.  lead[i] is the leader   *)
(* that claims i.                                                          *)
(***************************************************************************)
Orders(S) ==
    {r \in [S -> 1 .. Cardinality(S)] : \A i, j \in S : r[i] = r[j] => i = j}

Groups(S) ==
    {lead \in [S -> S] :
        /\ \A i \in S : Close(fragments[i], fragments[lead[i]])
        /\ \A i \in S : lead[lead[i]] = lead[i]
        /\ \E r \in Orders(S) : \A i \in S :
              /\ r[lead[i]] <= r[i]
              /\ \A l \in S : /\ lead[l] = l /\ r[l] <= r[i]
                              /\ Close(fragments[i], fragments[l])
                              => r[lead[i]] <= r[l]}

\* A fault: the winner is evicted with its group.
ConsolidationsWithoutWinner(S) ==
    {{i \in S : \/ fragments[i].pinned
               \/ \A j \in S \ {i} : fragments[j].pinned
                                      \/ ~Close(fragments[i], fragments[j])}}

\* What is left of S: the pinned, and a winner of every group, whichever the
\* feedback and the token counts favour.
Consolidations(S) ==
    LET free == {i \in S : ~fragments[i].pinned}
    IN  {(S \ free) \cup w : w \in
            {w \in SUBSET free : \E lead \in Groups(free) :
                \A l \in free : lead[l] = l =>
                    \E i \in w : {j \in w : lead[j] = l} = {i}}}

\* A fault: the decay ignores the pin.
AliveByAge(t) == {i \in DOMAIN fragments : t - fragments[i].last <= AgeLimit}

\* What has not decayed at turn t.
Alive(t) == {i \in DOMAIN fragments : fragments[i].pinned \/ t - fragments[i].last <= AgeLimit}

\* A fault: evictions do not reach the duplicate index.
DedupUntouched(left) == dedup

\* The duplicate index forgets every id that decayed or lost.
DedupAfter(left) == Drop(dedup, DOMAIN fragments \ left)

AdvanceTurn ==
    /\ batch = <<>> /\ turn < MaxTurn
    /\ turn' = turn + 1
    /\ LET alive == Alive(turn')
           due   == turn' % Period = 0 /\ Cardinality(alive) > Crowd
       IN  \E left \in IF due THEN Consolidations(alive) ELSE {alive} :
             /\ fragments' = Restrict(fragments, left)
             /\ dedup' = DedupAfter(left)
    /\ RebuildLsh
    /\ UNCHANGED <<idCounter, batch, stubIndex, answer, saved>>

\* What of the engine's state matters here.
Exported == [fragments |-> fragments, idCounter |-> idCounter, turn |-> turn]

\* Older exports stay, or are cleaned up.
ExportState ==
    /\ batch = <<>> /\ idCounter <= SavedIds
    /\ \E older \in SUBSET saved : saved' = older \cup {Exported}
    /\ Cardinality(saved') <= MaxSaved
    /\ UNCHANGED <<fragments, dedup, slots, lsh, idCounter, turn, batch, stubIndex, answer>>

\* A fault: the duplicate index is created and not filled.
RebuiltDedupEmpty(fr) == Empty

\* A duplicate index filled in id order: a repeated text is not indexed again.
RebuiltDedup(fr) ==
    LET first == {i \in DOMAIN fr :
                    \A j \in DOMAIN fr : fr[j].text = fr[i].text => ~Before(j, i)}
    IN  [i \in first |-> fr[i].text]

\* A fault: the counter of a new engine is not restored.
ImportWithoutCounter ==
    /\ \E s \in saved :
         /\ fragments' = s.fragments
         /\ turn' = s.turn
    /\ idCounter' = 0
    /\ dedup' = RebuiltDedup(fragments')
    /\ RebuildLsh
    /\ batch' = <<>> /\ stubIndex' = Empty /\ answer' = <<"none">>
    /\ UNCHANGED saved

\* import_state: a resume, or the start of the next process after any stop.
\* The export may come from this life, an earlier one, or a peer.
ImportState ==
    /\ \E s \in saved :
         /\ fragments' = s.fragments
         /\ idCounter' = s.idCounter
         /\ turn' = s.turn
    /\ dedup' = RebuiltDedup(fragments')
    /\ RebuildLsh
    /\ batch' = <<>> /\ stubIndex' = Empty /\ answer' = <<"none">>
    /\ UNCHANGED saved

\* The next process finds no index that it can read, and starts with an empty
\* engine; the exports are still there.
StartAfresh ==
    /\ fragments' = Empty /\ dedup' = Empty /\ slots' = <<>> /\ lsh' = {}
    /\ idCounter' = 0 /\ turn' = 0
    /\ batch' = <<>> /\ stubIndex' = Empty /\ answer' = <<"none">>
    /\ UNCHANGED saved

Restart == ImportState \/ StartAfresh

Batches == UNION {[1 .. n -> Item] : n \in 1 .. MaxBatch}

StoreNext ==
    \/ \E t \in Contents, s \in Sources, p \in BOOLEAN : Ingest(t, s, p)
    \/ \E s \in Sources : IngestStub(s)
    \/ \E items \in Batches : BatchBegin(items)
    \/ BatchItem
    \/ \E selected, matched \in SUBSET DOMAIN fragments : Access(selected, matched)
    \/ AdvanceTurn
    \/ ExportState
    \/ ImportState
    \/ StartAfresh

StoreSpec == StoreInit /\ [][StoreNext]_storeVars
-----------------------------------------------------------------------------
\* Type correctness of the store.
StoreTypeOK ==
    /\ IsMap(fragments, Ids, Fragment)
    /\ IsMap(dedup, Ids, Texts)
    /\ slots \in Seq(Ids)
    /\ lsh \subseteq [slot : Nat \ {0}, fp : Texts \cup {NoPrint}]
    /\ idCounter \in 0 .. MaxIds
    /\ turn \in 0 .. MaxTurn
    /\ batch \in Seq(Item)
    /\ IsMap(stubIndex, Sources, Ids)
    /\ answer \in {<<"none">>} \cup ({"ingested", "duplicate", "rejected"} \X Contents)
    /\ \A s \in saved : /\ IsMap(s.fragments, Ids, Fragment)
                        /\ s.idCounter \in 0 .. MaxIds
                        /\ s.turn \in 0 .. MaxTurn

\* The duplicate index follows every eviction, batch, consolidation and
\* import: it names live fragments only, with their text, so that no content
\* is turned away as a duplicate of one that is gone; and every content that
\* is held is in it.
DedupIsExact ==
    /\ \A i \in DOMAIN dedup : i \in DOMAIN fragments /\ fragments[i].text = dedup[i]
    /\ \A i \in DOMAIN fragments : fragments[i].hydrated => i \in DOMAIN dedup

\* No content is held twice, whatever batches, turns and imports came between.
NoContentTwice ==
    \A i, j \in DOMAIN fragments :
        /\ fragments[i].hydrated /\ fragments[j].hydrated
        /\ fragments[i].text = fragments[j].text
        => i = j

\* recall finds a held content by its own fingerprint, and no slot resolves
\* to a fragment with another fingerprint than the one it was inserted with.
RecallReaches ==
    /\ \A i \in DOMAIN fragments : fragments[i].hydrated =>
          \E e \in lsh : e.fp = Fp(fragments[i]) /\ slots[e.slot] = i
    /\ \A e \in lsh :
          /\ e.slot \in DOMAIN slots
          /\ slots[e.slot] \in DOMAIN fragments => e.fp = Fp(fragments[slots[e.slot]])

\* max_fragments bounds the store through stubs, batches and imports alike.
WithinCap == Cardinality(DOMAIN fragments) <= MaxFragments

\* Nothing but a restart takes a pinned fragment away: neither decay, nor a
\* consolidation it would lose, nor a batch that replaces the stubs.
PinnedNeverLost ==
    [][Restart \/ \A i \in DOMAIN fragments :
                     fragments[i].pinned => i \in DOMAIN fragments']_storeVars

\* Between restarts no id in use is ever given to another text, whichever
\* export was imported last and whatever bore the id before.  A restart itself
\* may change what an id stands for, since every life counts from 0.
NoLiveFragmentReplaced ==
    [][Restart \/ \A i \in DOMAIN fragments \cap DOMAIN fragments' :
                     fragments'[i].text = fragments[i].text]_storeVars

\* A fragment that is still fresh leaves in a turn only if a survivor is
\* within the threshold of a common neighbour.
ConsolidationKeepsARepresentative ==
    [][turn' = turn + 1 /\ ~Restart =>
         \A i \in Alive(turn') \ DOMAIN fragments' :
            \E l \in Alive(turn'), w \in DOMAIN fragments' :
               /\ Close(fragments[i], fragments[l])
               /\ Close(fragments[l], fragments[w])]_storeVars

HeldIn(fr) == {fr[i].text : i \in {j \in DOMAIN fr : fr[j].hydrated}}

Set == INSTANCE ContentSet WITH
    held     <- HeldIn(fragments),
    exported <- {HeldIn(s.fragments) : s \in saved}

\* The store is a set of contents that tells the truth about what it holds.
ImplementsContentSet == Set!SetSpec
=============================================================================
