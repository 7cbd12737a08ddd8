------------------------- MODULE FragmentStoreProofs -------------------------
(***************************************************************************)
(* For every set of contents and sources and every capacity, decay and     *)
(* period: the store keeps its types and its cap, its duplicate index      *)
(* names exactly what is held, no content is held twice, recall finds what *)
(* is held, pins and ids mean what they did, and the store implements the  *)
(* content set.                                                            *)
(***************************************************************************)
EXTENDS FragmentStore, FiniteSetTheorems, TLAPS

\* There are finitely many ids, so the store and its lists are finite.
LEMMA IdsAreFinite == IsFiniteSet(Ids)
<1>1. MaxIds \in Int
  BY StoreAssumption
<1>2. IsFiniteSet(1 .. MaxIds)
  BY <1>1, FS_Interval
<1>3. IsFiniteSet({"f"} \cup {"sh"})
  BY FS_Singleton, FS_AddElement
<1>4. Ids = ({"f"} \cup {"sh"}) \X (1 .. MaxIds)
  BY DEF Ids
<1> QED
  BY <1>2, <1>3, <1>4, FS_Product

\* A slot list is a sequence, whatever it lists.
LEMMA ListsAreSequences ==
    ASSUME NEW S \in SUBSET Ids, NEW s \in SortedLists(S)
    PROVE  s \in Seq(Ids) /\ s \in [DOMAIN s -> S] /\ DOMAIN s \subseteq Nat \ {0}
<1>1. Cardinality(S) \in Nat
  BY IdsAreFinite, FS_Subset, FS_CardinalityType
<1> QED
  BY <1>1 DEF SortedLists

\* What a fragment map must look like at any moment, saved or live: typed,
\* with ids that were issued, contents and stubs told apart by their text,
\* and no content twice.
Sound(fr, counter) ==
    /\ IsMap(fr, Ids, Fragment)
    /\ counter \in 0 .. MaxIds
    /\ \A i \in DOMAIN fr : i[2] <= counter
    /\ \A i \in DOMAIN fr : /\ fr[i].hydrated <=> fr[i].text \in Contents
                            /\ fr[i].hydrated <=> i[1] = "f"
    /\ \A i, j \in DOMAIN fr :
          fr[i].hydrated /\ fr[j].hydrated /\ fr[i].text = fr[j].text => i = j

\* The duplicate index names live fragments with their text, and all contents.
Exact(index, fr) ==
    /\ \A i \in DOMAIN index : i \in DOMAIN fr /\ fr[i].text = index[i]
    /\ \A i \in DOMAIN fr : fr[i].hydrated => i \in DOMAIN index

\* The inductive invariant: the live and the saved fragments are sound, the
\* duplicate index is exact, and a batch knows its stubs by their ids.
StoreInv ==
    /\ Sound(fragments, idCounter)
    /\ Exact(dedup, fragments)
    /\ turn \in 0 .. MaxTurn
    /\ batch \in Seq(Item)
    /\ \A s \in DOMAIN stubIndex : stubIndex[s][1] = "sh"
    /\ \A s \in saved : Sound(s.fragments, s.idCounter) /\ s.turn \in 0 .. MaxTurn
-----------------------------------------------------------------------------
\* Taking fragments away from a sound map, and their ids from an exact index,
\* leaves both sound and exact.
LEMMA DropIsSound ==
    ASSUME NEW fr, NEW index, NEW counter, NEW S, Sound(fr, counter), Exact(index, fr)
    PROVE  Sound(Drop(fr, S), counter) /\ Exact(Drop(index, S), Drop(fr, S))
BY DEF Sound, Exact, Drop, Restrict, IsMap

\* Refreshing a fragment's last access changes nothing that matters.
LEMMA TouchIsSound ==
    ASSUME NEW fr, NEW index, NEW counter, NEW new, Sound(fr, counter), Exact(index, fr),
           DOMAIN new = DOMAIN fr,
           \A i \in DOMAIN fr : /\ new[i] \in Fragment
                                /\ new[i].text = fr[i].text
                                /\ new[i].hydrated = fr[i].hydrated,
           new = [i \in DOMAIN new |-> new[i]]
    PROVE  Sound(new, counter) /\ Exact(index, new)
BY DEF Sound, Exact, IsMap

\* A fragment under the next id joins a sound map; a content it holds must be
\* new, and is indexed.
LEMMA BindIsSound ==
    ASSUME NEW fr, NEW index, NEW counter, Sound(fr, counter), Exact(index, fr),
           counter < MaxIds,
           NEW kind \in {"f", "sh"}, NEW f \in Fragment,
           f.hydrated <=> f.text \in Contents, f.hydrated <=> kind = "f",
           NEW index2,
           IF f.hydrated THEN /\ \A j \in DOMAIN index : index[j] # f.text
                              /\ index2 = Bind(index, <<kind, counter + 1>>, f.text)
                         ELSE index2 = index
    PROVE  /\ Sound(Bind(fr, <<kind, counter + 1>>, f), counter + 1)
           /\ Exact(index2, Bind(fr, <<kind, counter + 1>>, f))
<1> DEFINE id  == <<kind, counter + 1>>
           new == Bind(fr, id, f)
<1>1. /\ counter \in Nat /\ counter + 1 \in 0 .. MaxIds /\ id \in Ids
      /\ id[1] = kind /\ id[2] = counter + 1
  BY StoreAssumption DEF Sound, Ids
<1>2. /\ DOMAIN new = DOMAIN fr \cup {id}
      /\ new[id] = f
      /\ new = [j \in DOMAIN new |-> new[j]]
  BY DEF Bind
<1>3. id \notin DOMAIN fr
  BY <1>1 DEF Sound
<1>4. \A j \in DOMAIN fr : new[j] = fr[j]
  BY <1>3 DEF Bind
<1>a. \A j \in DOMAIN fr : j \in Ids /\ fr[j] \in Fragment /\ j[2] <= counter /\ j[2] \in Int
  BY DEF Sound, IsMap, Ids
<1> HIDE DEF id, new
<1>5. IsMap(new, Ids, Fragment)
  BY <1>1, <1>2, <1>4, <1>a DEF IsMap
<1>6. \A j \in DOMAIN new : j[2] <= counter + 1
  BY <1>1, <1>2, <1>a
<1>7. \A j \in DOMAIN new : /\ new[j].hydrated <=> new[j].text \in Contents
                            /\ new[j].hydrated <=> j[1] = "f"
  BY <1>1, <1>2, <1>4 DEF Sound
<1>8. ASSUME f.hydrated PROVE \A j \in DOMAIN fr : fr[j].hydrated => fr[j].text # f.text
  BY <1>8 DEF Exact
<1>9. \A i, j \in DOMAIN new :
        new[i].hydrated /\ new[j].hydrated /\ new[i].text = new[j].text => i = j
  BY <1>2, <1>4, <1>8 DEF Sound
<1>10. Sound(new, counter + 1)
  BY <1>1, <1>5, <1>6, <1>7, <1>9 DEF Sound
<1>11. Exact(index2, new)
  <2>1. CASE f.hydrated
    <3>1. /\ DOMAIN index2 = DOMAIN index \cup {id}
          /\ index2[id] = f.text
          /\ \A j \in DOMAIN index \ {id} : index2[j] = index[j]
      BY <2>1 DEF Bind, id
    <3>2. \A j \in DOMAIN index : j \in DOMAIN fr /\ j # id
      BY <1>3 DEF Exact
    <3> QED
      BY <1>2, <1>4, <3>1, <3>2 DEF Exact
  <2>2. CASE ~f.hydrated
    BY <1>2, <1>3, <1>4, <2>2 DEF Exact
  <2> QED
    BY <2>1, <2>2
<1> QED
  BY <1>10, <1>11 DEF new, id

\* Admitting a content keeps the map sound and the index exact.
LEMMA AdmitIsSound ==
    ASSUME StoreInv, NEW fr, NEW index, Sound(fr, idCounter), Exact(index, fr),
           NEW text \in Contents, NEW source \in Sources, NEW pinned \in BOOLEAN,
           idCounter < MaxIds, Admit(fr, index, text, source, pinned)
    PROVE  Sound(fragments', idCounter') /\ Exact(dedup', fragments')
<1> DEFINE id == <<"f", idCounter + 1>>
           f  == Hydrated(text, source, pinned)
<1>1. idCounter' = idCounter + 1 /\ idCounter \in Nat /\ idCounter' \in 0 .. MaxIds
  BY StoreAssumption DEF Admit, Sound
<1>2. CASE Duplicates(index, id, text) # {}
  <2>1. PICK d \in Duplicates(index, id, text) :
          /\ fragments' = IF d \in DOMAIN fr THEN [fr EXCEPT ![d].last = turn] ELSE fr
          /\ dedup' = index
    BY <1>2 DEF Admit
  <2>2. d \in DOMAIN fr
    BY DEF Duplicates, Exact
  <2>3. \A i \in DOMAIN fr : fr[i] \in Fragment /\ fr = [j \in DOMAIN fr |-> fr[j]]
    BY DEF Sound, IsMap
  <2>4. /\ DOMAIN fragments' = DOMAIN fr
        /\ \A i \in DOMAIN fr : /\ fragments'[i] \in Fragment
                                /\ fragments'[i].text = fr[i].text
                                /\ fragments'[i].hydrated = fr[i].hydrated
        /\ fragments' = [i \in DOMAIN fragments' |-> fragments'[i]]
    BY <2>1, <2>2, <2>3 DEF StoreInv, Fragment
  <2>5. Sound(fragments', idCounter) /\ Exact(index, fragments')
    BY <2>4, TouchIsSound
  <2>6. \A i \in DOMAIN fragments' : i[2] <= idCounter'
    <3>1. \A i \in DOMAIN fragments' : i[2] \in Int /\ i[2] <= idCounter
      BY <2>5 DEF Sound, IsMap, Ids
    <3> QED
      BY <1>1, <3>1
  <2>7. Sound(fragments', idCounter')
    BY <1>1, <2>5, <2>6 DEF Sound
  <2> QED
    BY <2>1, <2>5, <2>7 DEF Exact
<1>3. CASE Duplicates(index, id, text) = {}
  <2>1. /\ fragments' = Bind(fr, id, f)
        /\ dedup' = Bind(index, id, text)
    BY <1>3 DEF Admit, Store
  <2>2. f \in Fragment /\ f.hydrated /\ f.text = text
    BY DEF Hydrated, Fragment, Texts, StoreInv
  <2>3. id \notin DOMAIN fr /\ id \notin DOMAIN index
    BY <1>1 DEF Sound, Exact
  <2>4. \A j \in DOMAIN index : index[j] # text
    BY <1>3, <2>3 DEF Duplicates
  <2> HIDE DEF f
  <2>5. /\ Sound(Bind(fr, id, f), idCounter + 1)
        /\ Exact(Bind(index, id, text), Bind(fr, id, f))
    BY <2>2, <2>4, BindIsSound
  <2>6. PICK new, new2 : new = Bind(fr, id, f) /\ new2 = Bind(index, id, text)
    OBVIOUS
  <2>7. Sound(new, idCounter + 1) /\ Exact(new2, new)
    BY <2>5, <2>6
  <2>8. fragments' = new /\ dedup' = new2
    BY <2>1, <2>6
  <2> QED
    BY <1>1, <2>7, <2>8 DEF Sound, Exact
<1> QED
  BY <1>2, <1>3

\* What batch_ingest and ingest_paths_stubs store and what turns leave behind
\* is sound again, and so is what an import brings back.
LEMMA StoreStep == StoreInv /\ [StoreNext]_storeVars => StoreInv'
<1> SUFFICES ASSUME StoreInv, [StoreNext]_storeVars
             PROVE  StoreInv'
  OBVIOUS
<1>0. /\ Sound(fragments, idCounter) /\ Exact(dedup, fragments)
      /\ turn \in 0 .. MaxTurn /\ batch \in Seq(Item)
      /\ \A s \in DOMAIN stubIndex : stubIndex[s][1] = "sh"
      /\ \A s \in saved : Sound(s.fragments, s.idCounter) /\ s.turn \in 0 .. MaxTurn
  BY DEF StoreInv
<1>1. ASSUME NEW t \in Contents, NEW s \in Sources, NEW p \in BOOLEAN, Ingest(t, s, p)
      PROVE  StoreInv'
  <2>1. UNCHANGED <<turn, batch, stubIndex, saved>>
    BY <1>1 DEF Ingest
  <2>2. CASE Full(fragments)
    BY <1>0, <1>1, <2>1, <2>2 DEF Ingest, StoreInv
  <2>3. CASE ~Full(fragments)
    <3>1. Admit(fragments, dedup, t, s, p) /\ idCounter < MaxIds
      BY <1>1, <2>3 DEF Ingest
    <3>2. Sound(fragments', idCounter') /\ Exact(dedup', fragments')
      BY <1>0, <3>1, AdmitIsSound
    <3> QED
      BY <1>0, <2>1, <3>2 DEF StoreInv
  <2> QED
    BY <2>2, <2>3
<1>2. ASSUME NEW s \in Sources, IngestStub(s)
      PROVE  StoreInv'
  <2> DEFINE f == [text |-> s, source |-> s, hydrated |-> FALSE,
                   last |-> turn, pinned |-> FALSE]
  <2>1. /\ fragments' = Bind(fragments, <<"sh", idCounter + 1>>, f)
        /\ idCounter < MaxIds /\ idCounter' = idCounter + 1
        /\ UNCHANGED <<dedup, turn, batch, stubIndex, saved>>
    BY <1>2 DEF IngestStub, Store
  <2>2. f \in Fragment /\ ~f.hydrated /\ f.text \notin Contents
    BY <1>0, StoreAssumption DEF Fragment, Texts
  <2> HIDE DEF f
  <2>3. /\ Sound(Bind(fragments, <<"sh", idCounter + 1>>, f), idCounter + 1)
        /\ Exact(dedup, Bind(fragments, <<"sh", idCounter + 1>>, f))
    BY <1>0, <2>1, <2>2, BindIsSound
  <2> QED
    BY <1>0, <2>1, <2>3 DEF StoreInv
<1>3. ASSUME NEW items \in Batches, BatchBegin(items)
      PROVE  StoreInv'
  <2>1. items \in Seq(Item)
    BY StoreAssumption DEF Batches
  <2>2. \A s \in DOMAIN stubIndex' : stubIndex'[s][1] = "sh"
    BY <1>3 DEF BatchBegin, StubIndexes, Stubs
  <2> QED
    BY <1>0, <1>3, <2>1, <2>2 DEF BatchBegin, StoreInv
<1>4. CASE BatchItem
  <2>1. UNCHANGED <<turn, saved>> /\ batch # <<>>
    BY <1>4 DEF BatchItem
  <2>2. Head(batch) \in Item /\ Tail(batch) \in Seq(Item)
    BY <1>0, <2>1
  <2>3. batch' \in Seq(Item) /\ \A s \in DOMAIN stubIndex' : stubIndex'[s][1] = "sh"
    <3>1. (batch' = <<>> \/ batch' = Tail(batch)) /\ (stubIndex' = Empty \/ stubIndex' = stubIndex)
      BY <1>4 DEF BatchItem
    <3>2. <<>> \in Seq(Item) /\ DOMAIN Empty = {}
      BY DEF Empty
    <3> QED
      BY <1>0, <2>2, <3>1, <3>2
  <2>4. CASE Full(fragments)
    <3>1. UNCHANGED <<fragments, dedup, idCounter>>
      BY <1>4, <2>4 DEF BatchItem
    <3> QED
      BY <1>0, <2>1, <2>3, <3>1 DEF StoreInv
  <2>5. CASE ~Full(fragments)
    <3> DEFINE gone == StubOf(Head(batch).source)
    <3>1. /\ idCounter < MaxIds
          /\ Admit(Drop(fragments, gone), Drop(dedup, gone),
                   Head(batch).text, Head(batch).source, FALSE)
      BY <1>4, <2>5 DEF BatchItem
    <3>2. /\ Sound(Drop(fragments, gone), idCounter)
          /\ Exact(Drop(dedup, gone), Drop(fragments, gone))
      BY <1>0, DropIsSound
    <3>3. Head(batch).text \in Contents /\ Head(batch).source \in Sources
      BY <2>2 DEF Item
    <3> HIDE DEF gone
    <3>4. Sound(fragments', idCounter') /\ Exact(dedup', fragments')
      BY <3>1, <3>2, <3>3, AdmitIsSound
    <3> QED
      BY <1>0, <2>1, <2>3, <3>4 DEF StoreInv
  <2> QED
    BY <2>4, <2>5
<1>5. ASSUME NEW selected \in SUBSET DOMAIN fragments, NEW matched \in SUBSET DOMAIN fragments,
              Access(selected, matched)
      PROVE  StoreInv'
  <2>1. /\ fragments' = [i \in DOMAIN fragments |->
              [fragments[i] EXCEPT !.last   = IF i \in selected THEN turn ELSE @,
                                   !.pinned = @ /\ i \notin matched]]
        /\ UNCHANGED <<dedup, idCounter, turn, batch, stubIndex, saved>>
    BY <1>5 DEF Access
  <2>2. \A i \in DOMAIN fragments : fragments[i] \in Fragment
    BY <1>0 DEF Sound, IsMap
  <2>3. /\ DOMAIN fragments' = DOMAIN fragments
        /\ \A i \in DOMAIN fragments :
             /\ fragments'[i] \in Fragment
             /\ fragments'[i].text = fragments[i].text
             /\ fragments'[i].hydrated = fragments[i].hydrated
        /\ fragments' = [i \in DOMAIN fragments' |-> fragments'[i]]
    BY <1>0, <2>1, <2>2 DEF Fragment
  <2>4. Sound(fragments', idCounter) /\ Exact(dedup, fragments')
    BY <1>0, <2>3, TouchIsSound
  <2> QED
    BY <1>0, <2>1, <2>4 DEF StoreInv
<1>6. CASE AdvanceTurn
  <2>1. PICK left : /\ fragments' = Restrict(fragments, left)
                    /\ dedup' = DedupAfter(left)
                    /\ left \subseteq DOMAIN fragments
    BY <1>6 DEF AdvanceTurn, Alive, Consolidations
  <2>2. /\ turn' \in 0 .. MaxTurn
        /\ UNCHANGED <<idCounter, batch, stubIndex, saved>>
    BY <1>0, <1>6, StoreAssumption DEF AdvanceTurn
  <2> DEFINE out == DOMAIN fragments \ left
  <2>3. fragments' = Drop(fragments, out) /\ dedup' = Drop(dedup, out)
    BY <2>1 DEF Drop, Restrict, DedupAfter
  <2>4. Sound(Drop(fragments, out), idCounter) /\ Exact(Drop(dedup, out), Drop(fragments, out))
    BY <1>0, DropIsSound
  <2> QED
    BY <1>0, <2>2, <2>3, <2>4 DEF StoreInv
<1>7. CASE ExportState
  BY <1>0, <1>7 DEF ExportState, Exported, StoreInv
<1>8. CASE ImportState
  <2>1. PICK s \in saved : /\ fragments' = s.fragments
                           /\ idCounter' = s.idCounter
                           /\ turn' = s.turn
    BY <1>8 DEF ImportState
  <2>2. /\ Sound(fragments', idCounter') /\ turn' \in 0 .. MaxTurn
        /\ \A t \in saved' : Sound(t.fragments, t.idCounter) /\ t.turn \in 0 .. MaxTurn
        /\ batch' \in Seq(Item) /\ stubIndex' = Empty
        /\ dedup' = RebuiltDedup(fragments')
    BY <1>0, <1>8, <2>1 DEF ImportState
  <2>3. Exact(dedup', fragments')
    <3>1. \A i, j \in DOMAIN fragments' :
            fragments'[i].hydrated /\ fragments'[j].text = fragments'[i].text => j = i
      BY <2>2 DEF Sound
    <3>2. \A i \in DOMAIN fragments' : ~Before(i, i)
      BY <2>2 DEF Before, Sound, IsMap, Ids
    <3> QED
      BY <2>2, <3>1, <3>2 DEF Exact, RebuiltDedup
  <2> QED
    BY <2>2, <2>3 DEF StoreInv, Empty
<1>9. CASE StartAfresh
  <2>1. Sound(Empty, 0)
    BY StoreAssumption DEF Sound, Empty, IsMap
  <2> QED
    BY <1>0, <1>9, <2>1, StoreAssumption DEF StartAfresh, StoreInv, Exact, Empty
<1>10. CASE UNCHANGED storeVars
  BY <1>0, <1>10 DEF storeVars, StoreInv
<1> QED
  BY <1>1, <1>2, <1>3, <1>4, <1>5, <1>6, <1>7, <1>8, <1>9, <1>10 DEF StoreNext

LEMMA StoreInvariant == StoreSpec => []StoreInv
<1>1. StoreInit => StoreInv
  BY StoreAssumption DEF StoreInit, StoreInv, Sound, Exact, Empty, IsMap
<1> QED
  BY <1>1, StoreStep, PTL DEF StoreSpec

\* However ingests, batches, decay, consolidation, exports and restarts
\* follow each other: the duplicate index names exactly what is held.
THEOREM DedupStaysExact == StoreSpec => []DedupIsExact
<1>1. StoreInv => DedupIsExact
  BY DEF StoreInv, Exact, DedupIsExact
<1> QED
  BY <1>1, StoreInvariant, PTL

\* ... and no content is ever held twice.
THEOREM ContentsAreUnique == StoreSpec => []NoContentTwice
<1>1. StoreInv => NoContentTwice
  BY DEF StoreInv, Sound, NoContentTwice
<1> QED
  BY <1>1, StoreInvariant, PTL
-----------------------------------------------------------------------------
\* Stubs are not contents: without them the store holds the same contents.
LEMMA StubsAreNotHeld ==
    ASSUME NEW fr, NEW counter, Sound(fr, counter), NEW S, \A i \in S : i[1] = "sh"
    PROVE  HeldIn(Drop(fr, S)) = HeldIn(fr)
BY DEF HeldIn, Drop, Restrict, Sound

\* An admitted content was offered to the content set.
LEMMA AdmitOffers ==
    ASSUME StoreInv, NEW fr, NEW index, Sound(fr, idCounter), Exact(index, fr),
           HeldIn(fr) = HeldIn(fragments), UNCHANGED saved,
           NEW text \in Contents, NEW source \in Sources, NEW pinned \in BOOLEAN,
           Admit(fr, index, text, source, pinned)
    PROVE  Set!Offer(text)
<1> DEFINE id == <<"f", idCounter + 1>>
           f  == Hydrated(text, source, pinned)
<1>0. \A j \in DOMAIN index : /\ j \in DOMAIN fr /\ fr[j].text = index[j]
                              /\ fr[j].hydrated <=> fr[j].text \in Contents
  BY DEF Exact, Sound
<1>1. CASE Duplicates(index, id, text) # {}
  <2>1. PICK d \in Duplicates(index, id, text) :
          /\ fragments' = IF d \in DOMAIN fr THEN [fr EXCEPT ![d].last = turn] ELSE fr
          /\ answer' = <<"duplicate", text>>
    BY <1>1 DEF Admit
  <2>2. d \in DOMAIN fr /\ fr[d].hydrated /\ fr[d].text = text
    BY <1>0 DEF Duplicates
  <2>3. text \in HeldIn(fragments)
    BY <2>2 DEF HeldIn
  <2>4. \A i \in DOMAIN fr : fr[i] \in Fragment
    BY DEF Sound, IsMap
  <2>5. /\ DOMAIN fragments' = DOMAIN fr
        /\ \A i \in DOMAIN fr : /\ fragments'[i].text = fr[i].text
                                /\ fragments'[i].hydrated = fr[i].hydrated
    BY <2>1, <2>2, <2>4 DEF Fragment
  <2>6. HeldIn(fragments)' = HeldIn(fr)
    BY <2>5 DEF HeldIn
  <2> QED
    BY <2>1, <2>3, <2>6 DEF Set!Offer
<1>2. CASE Duplicates(index, id, text) = {}
  <2>1. fragments' = Bind(fr, id, f) /\ answer' = <<"ingested", text>>
    BY <1>2 DEF Admit, Store
  <2>2. f.hydrated /\ f.text = text
    BY DEF Hydrated
  <2>3. id \notin DOMAIN fr
    BY StoreAssumption DEF Sound
  <2> HIDE DEF f
  <2>4. text \notin HeldIn(fragments)
    <3>1. \A j \in DOMAIN fr : fr[j].hydrated => j \in DOMAIN index /\ index[j] = fr[j].text
      BY <1>0 DEF Exact
    <3>2. \A j \in DOMAIN fr : fr[j].hydrated => fr[j].text # text
      BY <1>2, <2>3, <3>1 DEF Duplicates
    <3> QED
      BY <3>2 DEF HeldIn
  <2>5. /\ DOMAIN fragments' = DOMAIN fr \cup {id}
        /\ fragments'[id] = f
        /\ \A j \in DOMAIN fr : fragments'[j] = fr[j]
    BY <2>1, <2>3 DEF Bind
  <2>6. HeldIn(fragments)' = HeldIn(fr) \cup {text}
    BY <2>2, <2>5 DEF HeldIn
  <2> QED
    BY <2>1, <2>4, <2>6 DEF Set!Offer
<1> QED
  BY <1>1, <1>2

\* One step of the store is one step of the content set, or none.
LEMMA SetStep == StoreInv /\ [StoreNext]_storeVars => [Set!SetNext]_(Set!setVars)
<1> SUFFICES ASSUME StoreInv, [StoreNext]_storeVars
             PROVE  [Set!SetNext]_(Set!setVars)
  OBVIOUS
<1>0. Sound(fragments, idCounter) /\ Exact(dedup, fragments) /\ batch \in Seq(Item)
  BY DEF StoreInv
<1>1. ASSUME NEW t \in Contents, NEW s \in Sources, NEW p \in BOOLEAN, Ingest(t, s, p)
      PROVE  Set!Offer(t)
  <2>1. CASE Full(fragments)
    BY <1>1, <2>1 DEF Ingest, Set!Offer
  <2>2. CASE ~Full(fragments)
    BY <1>0, <1>1, <2>2, AdmitOffers DEF Ingest
  <2> QED
    BY <2>1, <2>2
<1>2. ASSUME NEW s \in Sources, IngestStub(s)
      PROVE  UNCHANGED Set!setVars
  <2> DEFINE id == <<"sh", idCounter + 1>>
             f  == [text |-> s, source |-> s, hydrated |-> FALSE,
                    last |-> turn, pinned |-> FALSE]
  <2>1. fragments' = Bind(fragments, id, f) /\ UNCHANGED <<answer, saved>>
    BY <1>2 DEF IngestStub, Store
  <2>2. id \notin DOMAIN fragments
    BY <1>0, StoreAssumption DEF Sound
  <2>3. /\ DOMAIN fragments' = DOMAIN fragments \cup {id}
        /\ ~fragments'[id].hydrated
        /\ \A j \in DOMAIN fragments : fragments'[j] = fragments[j]
    BY <2>1, <2>2 DEF Bind
  <2>4. HeldIn(fragments)' = HeldIn(fragments)
    BY <2>3 DEF HeldIn
  <2> QED
    BY <2>1, <2>4 DEF Set!setVars
<1>3. ASSUME NEW items \in Batches, BatchBegin(items)
      PROVE  UNCHANGED Set!setVars
  BY <1>3 DEF BatchBegin, Set!setVars, HeldIn
<1>4. ASSUME BatchItem
      PROVE  UNCHANGED Set!setVars \/ \E t \in Contents : Set!Offer(t)
  <2>1. UNCHANGED saved /\ batch # <<>>
    BY <1>4 DEF BatchItem
  <2>2. CASE Full(fragments)
    BY <1>4, <2>1, <2>2 DEF BatchItem, Set!setVars, HeldIn
  <2>3. CASE ~Full(fragments)
    <3> DEFINE gone == StubOf(Head(batch).source)
    <3>0. Head(batch) \in Item
      BY <1>0, <2>1
    <3>1. Head(batch).text \in Contents /\ Head(batch).source \in Sources
      BY <3>0 DEF Item
    <3>2. Admit(Drop(fragments, gone), Drop(dedup, gone),
                Head(batch).text, Head(batch).source, FALSE)
      BY <1>4, <2>3 DEF BatchItem
    <3>3. /\ Sound(Drop(fragments, gone), idCounter)
          /\ Exact(Drop(dedup, gone), Drop(fragments, gone))
      BY <1>0, DropIsSound
    <3>4. \A i \in gone : i[1] = "sh"
      BY DEF StubOf, StoreInv
    <3> HIDE DEF gone
    <3>5. HeldIn(Drop(fragments, gone)) = HeldIn(fragments)
      BY <1>0, <3>4, StubsAreNotHeld
    <3>6. Set!Offer(Head(batch).text)
      BY <2>1, <3>1, <3>2, <3>3, <3>5, AdmitOffers
    <3> QED
      BY <3>1, <3>6
  <2> QED
    BY <2>2, <2>3
<1>5. ASSUME NEW selected \in SUBSET DOMAIN fragments, NEW matched \in SUBSET DOMAIN fragments,
              Access(selected, matched)
      PROVE  UNCHANGED Set!setVars
  <2>1. \A i \in DOMAIN fragments : fragments[i] \in Fragment
    BY <1>0 DEF Sound, IsMap
  <2>2. /\ DOMAIN fragments' = DOMAIN fragments
        /\ \A i \in DOMAIN fragments :
             /\ fragments'[i].text = fragments[i].text
             /\ fragments'[i].hydrated = fragments[i].hydrated
    BY <1>5, <2>1 DEF Access, Fragment
  <2>3. HeldIn(fragments)' = HeldIn(fragments)
    BY <2>2 DEF HeldIn
  <2> QED
    BY <1>5, <2>3 DEF Access, Set!setVars
<1>6. ASSUME AdvanceTurn
      PROVE  Set!Forget
  <2>1. PICK left : fragments' = Restrict(fragments, left) /\ left \subseteq DOMAIN fragments
    BY <1>6 DEF AdvanceTurn, Alive, Consolidations
  <2>2. HeldIn(fragments)' \subseteq HeldIn(fragments)
    BY <2>1 DEF HeldIn, Restrict
  <2> QED
    BY <1>6, <2>2 DEF AdvanceTurn, Set!Forget
<1>7. ASSUME ExportState
      PROVE  Set!Export
  <2>1. PICK older \in SUBSET saved : saved' = older \cup {Exported}
    BY <1>7 DEF ExportState
  <2>2. Exported.fragments = fragments
    BY DEF Exported
  <2>3. {HeldIn(s.fragments) : s \in saved'}
          = {HeldIn(s.fragments) : s \in older} \cup {HeldIn(fragments)}
    BY <2>1, <2>2
  <2>4. {HeldIn(s.fragments) : s \in older} \in SUBSET {HeldIn(s.fragments) : s \in saved}
    OBVIOUS
  <2>5. PICK E \in SUBSET {HeldIn(s.fragments) : s \in saved} :
          {HeldIn(s.fragments) : s \in saved'} = E \cup {HeldIn(fragments)}
    BY <2>3, <2>4, Zenon
  <2>6. HeldIn(fragments)' = HeldIn(fragments) /\ answer' = answer
    BY <1>7 DEF ExportState, HeldIn
  <2>7. {HeldIn(s.fragments) : s \in saved}' = {HeldIn(s.fragments) : s \in saved'}
    BY DEF HeldIn
  <2> QED
    BY <2>5, <2>6, <2>7, Zenon DEF Set!Export
<1>8. ASSUME ImportState
      PROVE  Set!Reload
  <2>1. PICK s \in saved : fragments' = s.fragments
    BY <1>8 DEF ImportState
  <2>2. HeldIn(fragments)' = HeldIn(s.fragments)
    BY <2>1 DEF HeldIn
  <2>3. HeldIn(fragments)' \in {HeldIn(r.fragments) : r \in saved}
    BY <2>2
  <2> QED
    BY <1>8, <2>3 DEF ImportState, Set!Reload
<1>9. ASSUME StartAfresh
      PROVE  Set!Reload
  <2>1. HeldIn(fragments)' = {}
    BY <1>9 DEF StartAfresh, Empty, HeldIn
  <2> QED
    BY <1>9, <2>1 DEF StartAfresh, Set!Reload
<1>10. CASE UNCHANGED storeVars
  BY <1>10 DEF storeVars, Set!setVars, HeldIn
<1> QED
  BY <1>1, <1>2, <1>3, <1>4, <1>5, <1>6, <1>7, <1>8, <1>9, <1>10 DEF StoreNext, Set!SetNext

\* The store is a content set: it answers "duplicate" exactly for what it
\* holds, and a restart brings back nothing, or what some export held.
THEOREM StoreImplementsContentSet == StoreSpec => ImplementsContentSet
<1>1. StoreInit => Set!SetInit
  BY DEF StoreInit, Set!SetInit, HeldIn, Empty
<1> QED
  BY <1>1, StoreInvariant, SetStep, PTL DEF StoreSpec, ImplementsContentSet, Set!SetSpec
-----------------------------------------------------------------------------
(***************************************************************************)
(* What the fragment store keeps: pinned fragments, and the meaning of     *)
(* ids.  A pin is lost by decay, a consolidation or a batch only if it is  *)
(* a stub's, and stubs are never pinned.  An id is given out once between  *)
(* two restarts because every export carries the counter that goes with    *)
(* its fragments.                                                          *)
(***************************************************************************)
StubsUnpinned(fr) == \A i \in DOMAIN fr : ~fr[i].hydrated => ~fr[i].pinned

\* The inductive invariant of what is kept.
KeepInv ==
    /\ StoreInv
    /\ StubsUnpinned(fragments)
    /\ \A s \in saved : StubsUnpinned(s.fragments)

\* What every step but a restart does to the fragments: each of them after
\* the step was there before, or bears the next id.
Ordinary ==
    /\ idCounter' \in {idCounter, idCounter + 1}
    /\ \A i \in DOMAIN fragments' :
          \/ /\ i \in DOMAIN fragments
             /\ fragments'[i].text = fragments[i].text
             /\ fragments'[i].hydrated = fragments[i].hydrated
             /\ fragments'[i].pinned => fragments[i].pinned
          \/ /\ idCounter' = idCounter + 1
             /\ i[2] = idCounter'
             /\ fragments'[i].hydrated \/ ~fragments'[i].pinned
    /\ \A i \in DOMAIN fragments \ DOMAIN fragments' : ~fragments[i].pinned
    /\ \/ saved' = saved
       \/ /\ UNCHANGED <<fragments, idCounter>>
          /\ saved' \subseteq saved \cup {Exported}
-----------------------------------------------------------------------------
\* Admitting a content keeps what was there and adds at most the next id.
LEMMA AdmitKeeps ==
    ASSUME StoreInv, NEW fr, NEW index, Sound(fr, idCounter), Exact(index, fr),
           NEW text \in Contents, NEW source \in Sources, NEW pinned \in BOOLEAN,
           Admit(fr, index, text, source, pinned)
    PROVE  /\ idCounter' = idCounter + 1
           /\ DOMAIN fr \subseteq DOMAIN fragments'
           /\ \A i \in DOMAIN fragments' :
                 \/ /\ i \in DOMAIN fr
                    /\ fragments'[i].text = fr[i].text
                    /\ fragments'[i].hydrated = fr[i].hydrated
                    /\ fragments'[i].pinned = fr[i].pinned
                 \/ i[2] = idCounter + 1 /\ fragments'[i].hydrated
<1> DEFINE id == <<"f", idCounter + 1>>
           f  == Hydrated(text, source, pinned)
<1>1. idCounter' = idCounter + 1
  BY DEF Admit
<1>2. CASE Duplicates(index, id, text) # {}
  <2>1. PICK d \in Duplicates(index, id, text) :
          fragments' = IF d \in DOMAIN fr THEN [fr EXCEPT ![d].last = turn] ELSE fr
    BY <1>2 DEF Admit
  <2>2. \A i \in DOMAIN fr : fr[i] \in Fragment
    BY DEF Sound, IsMap
  <2> QED
    BY <1>1, <2>1, <2>2 DEF Fragment
<1>3. CASE Duplicates(index, id, text) = {}
  <2>1. fragments' = Bind(fr, id, f)
    BY <1>3 DEF Admit, Store
  <2>2. f.hydrated
    BY DEF Hydrated
  <2>3. id \notin DOMAIN fr
    <3>1. idCounter \in Nat
      BY DEF Sound
    <3> QED
      BY <3>1 DEF Sound
  <2> HIDE DEF f
  <2>4. DOMAIN fragments' = DOMAIN fr \cup {id} /\ fragments'[id] = f
        /\ \A j \in DOMAIN fr : fragments'[j] = fr[j]
    BY <2>1, <2>3 DEF Bind
  <2> QED
    BY <1>1, <2>2, <2>4
<1> QED
  BY <1>2, <1>3

\* A turn lets no pinned fragment go.
LEMMA TurnKeepsThePinned ==
    ASSUME AdvanceTurn
    PROVE  \E left \in SUBSET DOMAIN fragments :
              /\ fragments' = Restrict(fragments, left)
              /\ \A i \in DOMAIN fragments : fragments[i].pinned => i \in left
<1>1. PICK left : /\ fragments' = Restrict(fragments, left)
                  /\ left = Alive(turn') \/ left \in Consolidations(Alive(turn'))
  BY DEF AdvanceTurn
<1>2. /\ Alive(turn') \subseteq DOMAIN fragments
      /\ \A i \in DOMAIN fragments : fragments[i].pinned => i \in Alive(turn')
  BY DEF Alive
<1> HIDE DEF Alive
<1>3. \A l \in Consolidations(Alive(turn')) :
         /\ l \subseteq Alive(turn')
         /\ \A i \in Alive(turn') : fragments[i].pinned => i \in l
  BY DEF Consolidations
<1> QED
  BY <1>1, <1>2, <1>3

\* Every step is ordinary or a restart.
LEMMA StepShape ==
    ASSUME KeepInv, [StoreNext]_storeVars
    PROVE  Ordinary \/ Restart
<1>0. /\ Sound(fragments, idCounter) /\ Exact(dedup, fragments)
      /\ batch \in Seq(Item) /\ idCounter \in Nat
      /\ \A s \in DOMAIN stubIndex : stubIndex[s][1] = "sh"
      /\ StoreInv /\ StubsUnpinned(fragments)
  BY DEF KeepInv, StoreInv, Sound
<1>1. ASSUME NEW t \in Contents, NEW s \in Sources, NEW p \in BOOLEAN, Ingest(t, s, p)
      PROVE  Ordinary
  <2>1. CASE Full(fragments)
    BY <1>1, <2>1 DEF Ingest, Ordinary
  <2>2. CASE ~Full(fragments)
    <3>1. Admit(fragments, dedup, t, s, p) /\ saved' = saved
      BY <1>1, <2>2 DEF Ingest
    <3> QED
      BY <1>0, <3>1, AdmitKeeps DEF Ordinary
  <2> QED
    BY <2>1, <2>2
<1>2. ASSUME NEW s \in Sources, IngestStub(s)
      PROVE  Ordinary
  <2> DEFINE f  == [text |-> s, source |-> s, hydrated |-> FALSE,
                    last |-> turn, pinned |-> FALSE]
             id == <<"sh", idCounter + 1>>
  <2>1. /\ fragments' = Bind(fragments, id, f)
        /\ idCounter' = idCounter + 1 /\ saved' = saved
    BY <1>2 DEF IngestStub, Store
  <2>2. ~f.pinned
    OBVIOUS
  <2>3. id \notin DOMAIN fragments
    BY <1>0 DEF Sound
  <2> HIDE DEF f
  <2>4. DOMAIN fragments' = DOMAIN fragments \cup {id} /\ fragments'[id] = f
        /\ \A j \in DOMAIN fragments : fragments'[j] = fragments[j]
    BY <2>1, <2>3 DEF Bind
  <2> QED
    BY <2>1, <2>2, <2>4 DEF Ordinary
<1>3. ASSUME NEW items \in Batches, BatchBegin(items)
      PROVE  Ordinary
  BY <1>3 DEF BatchBegin, Ordinary
<1>4. CASE BatchItem
  <2>1. CASE Full(fragments)
    BY <1>4, <2>1 DEF BatchItem, Ordinary
  <2>2. CASE ~Full(fragments)
    <3> DEFINE gone == StubOf(Head(batch).source)
    <3>1. /\ Admit(Drop(fragments, gone), Drop(dedup, gone),
                   Head(batch).text, Head(batch).source, FALSE)
          /\ saved' = saved
      BY <1>4, <2>2 DEF BatchItem
    <3>2. /\ Sound(Drop(fragments, gone), idCounter)
          /\ Exact(Drop(dedup, gone), Drop(fragments, gone))
      BY <1>0, DropIsSound
    <3>3. Head(batch).text \in Contents /\ Head(batch).source \in Sources
      <4>1. Head(batch) \in Item
        BY <1>0, <1>4 DEF BatchItem
      <4> QED
        BY <4>1 DEF Item
    <3>4. \A i \in gone : i[1] = "sh"
      BY <1>0 DEF StubOf
    <3>5. \A i \in DOMAIN fragments : i \in gone => ~fragments[i].pinned
      BY <1>0, <3>4 DEF Sound, StubsUnpinned
    <3> HIDE DEF gone
    <3>6. /\ DOMAIN Drop(fragments, gone) = DOMAIN fragments \ gone
          /\ \A i \in DOMAIN fragments \ gone : Drop(fragments, gone)[i] = fragments[i]
      BY DEF Drop, Restrict
    <3>7. PICK fr : fr = Drop(fragments, gone)
      OBVIOUS
    <3>8. /\ idCounter' = idCounter + 1
          /\ DOMAIN fr \subseteq DOMAIN fragments'
          /\ \A i \in DOMAIN fragments' :
                \/ /\ i \in DOMAIN fr
                   /\ fragments'[i].text = fr[i].text
                   /\ fragments'[i].hydrated = fr[i].hydrated
                   /\ fragments'[i].pinned = fr[i].pinned
                \/ i[2] = idCounter + 1 /\ fragments'[i].hydrated
      BY <1>0, <3>1, <3>2, <3>3, <3>7, AdmitKeeps
    <3> QED
      BY <3>1, <3>5, <3>6, <3>7, <3>8 DEF Ordinary
  <2> QED
    BY <2>1, <2>2
<1>5. ASSUME NEW selected \in SUBSET DOMAIN fragments, NEW matched \in SUBSET DOMAIN fragments,
              Access(selected, matched)
      PROVE  Ordinary
  <2>1. /\ fragments' = [i \in DOMAIN fragments |->
              [fragments[i] EXCEPT !.last   = IF i \in selected THEN turn ELSE @,
                                   !.pinned = @ /\ i \notin matched]]
        /\ UNCHANGED <<idCounter, saved>>
    BY <1>5 DEF Access
  <2>2. \A i \in DOMAIN fragments : fragments[i] \in Fragment
    BY <1>0 DEF Sound, IsMap
  <2>3. \A i \in DOMAIN fragments : fragments'[i].pinned => fragments[i].pinned
    BY <2>1, <2>2, Zenon DEF Fragment
  <2>4. /\ DOMAIN fragments' = DOMAIN fragments
        /\ \A i \in DOMAIN fragments : /\ fragments'[i].text = fragments[i].text
                                       /\ fragments'[i].hydrated = fragments[i].hydrated
    BY <2>1, <2>2 DEF Fragment
  <2> QED
    BY <2>1, <2>3, <2>4 DEF Ordinary
<1>6. CASE AdvanceTurn
  <2>1. UNCHANGED <<idCounter, saved>>
    BY <1>6 DEF AdvanceTurn
  <2> QED
    BY <1>6, <2>1, TurnKeepsThePinned DEF Ordinary, Restrict
<1>7. CASE ExportState
  BY <1>7 DEF ExportState, Ordinary
<1>8. CASE UNCHANGED storeVars
  BY <1>8 DEF storeVars, Ordinary
<1> QED
  BY <1>1, <1>2, <1>3, <1>4, <1>5, <1>6, <1>7, <1>8 DEF StoreNext, Restart

LEMMA KeepStep == KeepInv /\ [StoreNext]_storeVars => KeepInv'
<1> SUFFICES ASSUME KeepInv, [StoreNext]_storeVars
             PROVE  KeepInv'
  OBVIOUS
<1>1. StoreInv'
  BY StoreStep DEF KeepInv
<1>2. CASE Ordinary
  <2>1. StubsUnpinned(fragments')
    BY <1>2 DEF Ordinary, KeepInv, StubsUnpinned
  <2>2. \A s \in saved' : StubsUnpinned(s.fragments)
    <3>1. Exported.fragments = fragments
      BY DEF Exported
    <3>2. \A s \in saved' : s \in saved \/ s = Exported
      BY <1>2 DEF Ordinary
    <3> QED
      BY <3>1, <3>2 DEF KeepInv
  <2> QED
    BY <1>1, <2>1, <2>2 DEF KeepInv
<1>3. CASE ImportState
  BY <1>1, <1>3 DEF ImportState, KeepInv
<1>4. CASE StartAfresh
  BY <1>1, <1>4 DEF StartAfresh, KeepInv, StubsUnpinned, Empty
<1> QED
  BY <1>2, <1>3, <1>4, StepShape DEF Restart

LEMMA KeepInvariant == StoreSpec => []KeepInv
<1>1. StoreInit => KeepInv
  BY StoreAssumption
     DEF StoreInit, KeepInv, StubsUnpinned, StoreInv, Sound, Exact, Empty, IsMap
<1> QED
  BY <1>1, KeepStep, PTL DEF StoreSpec

\* Outside a restart no pinned fragment ever leaves the store: not by decay,
\* not by a consolidation it would lose, not by a batch that replaces stubs.
THEOREM PinnedFragmentsStay == StoreSpec => PinnedNeverLost
<1>1. KeepInv /\ [StoreNext]_storeVars =>
        [Restart \/ \A i \in DOMAIN fragments :
                       fragments[i].pinned => i \in DOMAIN fragments']_storeVars
  BY StepShape DEF Ordinary
<1> QED
  BY <1>1, KeepInvariant, PTL DEF StoreSpec, PinnedNeverLost

\* Between two restarts no id in use is ever given to another text, whichever
\* export was imported last, and whatever it made of the ids.
THEOREM IdsKeepTheirText == StoreSpec => NoLiveFragmentReplaced
<1>1. ASSUME KeepInv, [StoreNext]_storeVars, ~Restart
      PROVE  \A i \in DOMAIN fragments \cap DOMAIN fragments' :
                fragments'[i].text = fragments[i].text
  <2>1. /\ idCounter \in Nat
        /\ \A i \in DOMAIN fragments : i[2] \in Int /\ i[2] <= idCounter
    BY <1>1 DEF KeepInv, StoreInv, Sound, IsMap, Ids
  <2>2. Ordinary
    BY <1>1, StepShape
  <2> QED
    BY <2>1, <2>2 DEF Ordinary
<1>2. KeepInv /\ [StoreNext]_storeVars =>
        [Restart \/ \A i \in DOMAIN fragments \cap DOMAIN fragments' :
                       fragments'[i].text = fragments[i].text]_storeVars
  BY <1>1
<1> QED
  BY <1>2, KeepInvariant, PTL DEF StoreSpec, NoLiveFragmentReplaced
-----------------------------------------------------------------------------
(***************************************************************************)
(* What recall can find, and the cap.  An entry of the LSH index outlives  *)
(* its fragment until the next turn: it stays right because a slot's id    *)
(* was issued, so that no fragment to come can bear it.                    *)
(***************************************************************************)
Entry == [slot : Nat \ {0}, fp : Texts \cup {NoPrint}]

\* The inductive invariant of the indexes, of the types and of the cap.
IndexInv ==
    /\ StoreTypeOK
    /\ \A n \in DOMAIN slots : slots[n][2] <= idCounter
    /\ RecallReaches
    /\ WithinCap
    /\ \A s \in saved : Cardinality(DOMAIN s.fragments) <= MaxFragments

\* What an ordinary step that is no turn does to the indexes: nothing, or it
\* gives the new fragment the next slot and a content an entry for it.
Grown ==
    \/ /\ UNCHANGED <<slots, lsh>>
       /\ DOMAIN fragments' \subseteq DOMAIN fragments
    \/ \E id \in Ids :
         /\ ~Full(fragments)
         /\ id[2] = idCounter + 1 /\ idCounter' = idCounter + 1
         /\ id \in DOMAIN fragments'
         /\ DOMAIN fragments' \subseteq DOMAIN fragments \cup {id}
         /\ slots' = Append(slots, id)
         /\ lsh' = IF fragments'[id].hydrated
                   THEN lsh \cup {[slot |-> Len(slots) + 1, fp |-> Fp(fragments'[id])]}
                   ELSE lsh

\* A list of a set's ids in order lists them all.
LEMMA ListsAreComplete ==
    ASSUME NEW S \in SUBSET Ids, NEW s \in SortedLists(S)
    PROVE  \A i \in S : \E n \in DOMAIN s : s[n] = i
<1> DEFINE N == 1 .. Cardinality(S)
<1>1. IsFiniteSet(S)
  BY IdsAreFinite, FS_Subset
<1>2. Cardinality(S) \in Nat /\ IsFiniteSet(N) /\ Cardinality(N) = Cardinality(S)
  BY <1>1, FS_CardinalityType, FS_Interval
<1>3. s \in [N -> S] /\ \A m, n \in N : m < n => Before(s[m], s[n])
  BY DEF SortedLists
<1>4. \A i \in Ids : ~Before(i, i)
  BY DEF Before, Ids
<1>5. \A m, n \in N : s[m] = s[n] => m = n
  <2> SUFFICES ASSUME NEW m \in N, NEW n \in N, s[m] = s[n], m # n
               PROVE  FALSE
    OBVIOUS
  <2>1. m < n \/ n < m
    BY <1>2
  <2> QED
    BY <1>3, <1>4, <2>1
<1>6. s \in Injection(N, S)
  BY <1>3, <1>5 DEF Injection, IsInjective
<1>7. s \in Surjection(N, S)
  BY <1>1, <1>2, <1>6, FS_Injection
<1> QED
  BY <1>3, <1>7 DEF Surjection

\* Rebuilt indexes are right, whatever the fragments are.
LEMMA RebuiltIsRight ==
    ASSUME IsMap(fragments', Ids, Fragment), RebuildLsh
    PROVE  /\ slots' \in Seq(Ids)
           /\ \A n \in DOMAIN slots' : slots'[n] \in DOMAIN fragments'
           /\ lsh' \subseteq Entry
           /\ RecallReaches'
<1> PICK fr, list : fr = fragments' /\ list = slots'
  OBVIOUS
<1>1. /\ DOMAIN fr \in SUBSET Ids
      /\ \A i \in DOMAIN fr : fr[i] \in Fragment
      /\ list \in SortedLists(DOMAIN fr)
  BY DEF IsMap, RebuildLsh
<1>2. /\ list \in Seq(Ids) /\ DOMAIN list \subseteq Nat \ {0}
      /\ \A n \in DOMAIN list : list[n] \in DOMAIN fr
  BY <1>1, ListsAreSequences
<1>3. \A i \in DOMAIN fr : \E n \in DOMAIN list : list[n] = i
  BY <1>1, ListsAreComplete
<1>4. lsh' = {[slot |-> n, fp |-> Fp(fr[list[n]])] : n \in DOMAIN list}
  BY DEF RebuildLsh, Indexed
<1>5. \A i \in DOMAIN fr : Fp(fr[i]) \in Texts \cup {NoPrint}
  BY <1>1 DEF Fp, Fragment
<1>6. ASSUME NEW e \in lsh'
      PROVE  /\ e \in Entry
             /\ e.slot \in DOMAIN list
             /\ e.fp = Fp(fr[list[e.slot]])
  <2>1. PICK n \in DOMAIN list : e = [slot |-> n, fp |-> Fp(fr[list[n]])]
    BY <1>4, <1>6
  <2> QED
    BY <1>2, <1>5, <2>1 DEF Entry
<1>7. ASSUME NEW i \in DOMAIN fr
      PROVE  \E e \in lsh' : e.fp = Fp(fr[i]) /\ list[e.slot] = i
  <2>1. PICK n \in DOMAIN list : list[n] = i
    BY <1>3
  <2>2. [slot |-> n, fp |-> Fp(fr[i])] \in lsh'
    BY <1>4, <2>1
  <2> QED
    BY <2>1, <2>2
<1> QED
  BY <1>2, <1>6, <1>7 DEF RecallReaches

\* Indexes that grew with the fragments stay right.
LEMMA GrownIsRight ==
    ASSUME KeepInv, StoreInv', IndexInv, Ordinary, Grown
    PROVE  /\ slots' \in Seq(Ids)
           /\ \A n \in DOMAIN slots' : slots'[n][2] <= idCounter'
           /\ lsh' \subseteq Entry
           /\ RecallReaches'
<1>1. /\ slots \in Seq(Ids) /\ lsh \subseteq Entry
      /\ idCounter \in Nat /\ idCounter' \in {idCounter, idCounter + 1}
      /\ \A n \in DOMAIN slots : slots[n] \in Ids /\ slots[n][2] <= idCounter
                                 /\ slots[n][2] \in Nat
      /\ \A i \in DOMAIN fragments : i[2] <= idCounter /\ i[2] \in Nat
      /\ \A i \in DOMAIN fragments' : fragments'[i] \in Fragment
      /\ \A i \in DOMAIN fragments : \A j \in DOMAIN fragments' :
            i = j => Fp(fragments'[i]) = Fp(fragments[i])
                     /\ fragments'[i].hydrated = fragments[i].hydrated
  <2>1. slots \in Seq(Ids) /\ lsh \subseteq Entry
    BY DEF IndexInv, StoreTypeOK, Entry
  <2>2. \A n \in DOMAIN slots : slots[n] \in Ids
    BY <2>1
  <2>3. idCounter \in Nat /\ idCounter' \in {idCounter, idCounter + 1}
    BY DEF KeepInv, StoreInv, Sound, Ordinary
  <2>4. \A i \in DOMAIN fragments : i[2] <= idCounter /\ i \in Ids
    BY DEF KeepInv, StoreInv, Sound, IsMap
  <2>5. \A i \in DOMAIN fragments' : fragments'[i] \in Fragment
    BY DEF StoreInv, Sound, IsMap
  <2>6. \A i \in Ids : i[2] \in Nat
    BY DEF Ids
  <2>7. \A i \in DOMAIN fragments : i \in DOMAIN fragments' =>
          /\ fragments'[i].text = fragments[i].text
          /\ fragments'[i].hydrated = fragments[i].hydrated
    BY <2>3, <2>4, <2>6 DEF Ordinary
  <2> QED
    BY <2>1, <2>2, <2>3, <2>4, <2>5, <2>6, <2>7 DEF IndexInv, Fp
<1>2. /\ \A i \in DOMAIN fragments : fragments[i].hydrated =>
            \E e \in lsh : e.fp = Fp(fragments[i]) /\ slots[e.slot] = i
      /\ \A e \in lsh : /\ e.slot \in DOMAIN slots
                        /\ slots[e.slot] \in DOMAIN fragments =>
                              e.fp = Fp(fragments[slots[e.slot]])
  BY DEF IndexInv, RecallReaches
<1>3. CASE UNCHANGED <<slots, lsh>> /\ DOMAIN fragments' \subseteq DOMAIN fragments
  <2>1. /\ slots' \in Seq(Ids)
        /\ \A n \in DOMAIN slots' : slots'[n][2] <= idCounter'
        /\ lsh' \subseteq Entry
    BY <1>1, <1>3
  <2>2. RecallReaches'
    BY <1>1, <1>2, <1>3 DEF RecallReaches
  <2> QED
    BY <2>1, <2>2
<1>4. ASSUME NEW id \in Ids,
             id[2] = idCounter + 1, idCounter' = idCounter + 1,
             id \in DOMAIN fragments',
             DOMAIN fragments' \subseteq DOMAIN fragments \cup {id},
             slots' = Append(slots, id),
             lsh' = IF fragments'[id].hydrated
                    THEN lsh \cup {[slot |-> Len(slots) + 1, fp |-> Fp(fragments'[id])]}
                    ELSE lsh
      PROVE  /\ slots' \in Seq(Ids)
             /\ \A n \in DOMAIN slots' : slots'[n][2] <= idCounter'
             /\ lsh' \subseteq Entry
             /\ RecallReaches'
  <2>1. /\ slots' \in Seq(Ids) /\ Len(slots) \in Nat
        /\ DOMAIN slots' = DOMAIN slots \cup {Len(slots) + 1}
        /\ slots'[Len(slots) + 1] = id
        /\ \A n \in DOMAIN slots : slots'[n] = slots[n] /\ slots[n] # id
        /\ id \notin DOMAIN fragments
    BY <1>1, <1>4
  <2>2. \A n \in DOMAIN slots' : slots'[n][2] <= idCounter'
    BY <1>1, <1>4, <2>1
  <2> DEFINE new == [slot |-> Len(slots) + 1, fp |-> Fp(fragments'[id])]
  <2>3. new \in Entry
    BY <1>1, <1>4, <2>1 DEF Entry, Fp, Fragment
  <2>4. new.slot = Len(slots) + 1 /\ new.fp = Fp(fragments'[id])
    OBVIOUS
  <2>5. lsh' = (IF fragments'[id].hydrated THEN lsh \cup {new} ELSE lsh)
    BY <1>4
  <2> HIDE DEF new
  <2>6. lsh' \subseteq Entry
    BY <1>1, <2>3, <2>5
  <2>7. ASSUME NEW i \in DOMAIN fragments', fragments'[i].hydrated
        PROVE  \E e \in lsh' : e.fp = Fp(fragments'[i]) /\ slots'[e.slot] = i
    <3>1. CASE i = id
      BY <2>1, <2>4, <2>5, <2>7, <3>1
    <3>2. CASE i # id
      <4>1. i \in DOMAIN fragments
        BY <1>4, <3>2
      <4>2. PICK e \in lsh : e.fp = Fp(fragments[i]) /\ slots[e.slot] = i
        BY <1>1, <1>2, <2>7, <4>1
      <4> QED
        BY <1>1, <1>2, <2>1, <2>5, <4>1, <4>2
    <3> QED
      BY <3>1, <3>2
  <2>8. ASSUME NEW e \in lsh'
        PROVE  /\ e.slot \in DOMAIN slots'
               /\ slots'[e.slot] \in DOMAIN fragments' => e.fp = Fp(fragments'[slots'[e.slot]])
    <3>1. CASE e = new
      BY <2>1, <2>4, <3>1
    <3>2. CASE e \in lsh
      <4>1. e.slot \in DOMAIN slots /\ slots'[e.slot] = slots[e.slot] /\ slots[e.slot] # id
        BY <1>2, <2>1, <3>2
      <4>2. slots[e.slot] \in DOMAIN fragments' => slots[e.slot] \in DOMAIN fragments
        BY <1>4, <4>1
      <4> QED
        BY <1>1, <1>2, <2>1, <3>2, <4>1, <4>2
    <3> QED
      BY <2>5, <2>8, <3>1, <3>2
  <2> QED
    BY <2>1, <2>2, <2>6, <2>7, <2>8 DEF RecallReaches
<1> QED
  BY <1>3, <1>4 DEF Grown

\* Admitting a content lets the indexes grow by at most its own id.
LEMMA AdmitGrows ==
    ASSUME StoreInv, NEW fr, NEW index, Sound(fr, idCounter), Exact(index, fr),
           DOMAIN fr \subseteq DOMAIN fragments, ~Full(fragments), idCounter < MaxIds,
           IsMap(index, Ids, Texts),
           NEW text \in Contents, NEW source \in Sources, NEW pinned \in BOOLEAN,
           Admit(fr, index, text, source, pinned)
    PROVE  /\ Grown
           /\ IsMap(dedup', Ids, Texts)
           /\ answer' \in {"ingested", "duplicate"} \X Contents
<1> DEFINE id == <<"f", idCounter + 1>>
           f  == Hydrated(text, source, pinned)
<1>1. /\ idCounter' = idCounter + 1 /\ idCounter \in Nat
      /\ id \in Ids /\ id[2] = idCounter + 1
  BY StoreAssumption DEF Admit, Sound, Ids
<1>2. CASE Duplicates(index, id, text) # {}
  <2>1. PICK d \in Duplicates(index, id, text) :
          /\ fragments' = IF d \in DOMAIN fr THEN [fr EXCEPT ![d].last = turn] ELSE fr
          /\ dedup' = index
          /\ answer' = <<"duplicate", text>>
          /\ UNCHANGED <<slots, lsh>>
    BY <1>2 DEF Admit
  <2>2. DOMAIN fragments' = DOMAIN fr
    BY <2>1
  <2> QED
    BY <2>1, <2>2 DEF Grown
<1>3. CASE Duplicates(index, id, text) = {}
  <2>1. /\ fragments' = Bind(fr, id, f)
        /\ slots' = Append(slots, id)
        /\ lsh' = IF f.hydrated
                  THEN lsh \cup {[slot |-> Len(slots) + 1, fp |-> Fp(f)]} ELSE lsh
        /\ dedup' = Bind(index, id, text)
        /\ answer' = <<"ingested", text>>
    BY <1>3 DEF Admit, Store
  <2> HIDE DEF id, f
  <2>2. /\ DOMAIN fragments' = DOMAIN fr \cup {id}
        /\ fragments'[id] = f
    BY <2>1 DEF Bind
  <2>3. IsMap(dedup', Ids, Texts)
    <3>1. text \in Texts
      BY DEF Texts
    <3> QED
      BY <1>1, <2>1, <3>1 DEF IsMap, Bind
  <2>4. Grown
    BY <1>1, <2>1, <2>2 DEF Grown
  <2> QED
    BY <2>1, <2>3, <2>4
<1> QED
  BY <1>2, <1>3

\* The part of the types that StoreInv does not have.
TypeRest ==
    /\ IsMap(dedup, Ids, Texts)
    /\ IsMap(stubIndex, Sources, Ids)
    /\ answer \in {<<"none">>} \cup ({"ingested", "duplicate", "rejected"} \X Contents)

\* Every step lets the indexes grow, or a turn or a restart rebuilds them.
LEMMA IndexShape ==
    ASSUME KeepInv, TypeRest, [StoreNext]_storeVars
    PROVE  /\ TypeRest'
           /\ \/ Grown
              \/ /\ RebuildLsh
                 /\ \/ DOMAIN fragments' \subseteq DOMAIN fragments
                    \/ \E s \in saved : fragments' = s.fragments
              \/ /\ fragments' = Empty /\ slots' = <<>> /\ lsh' = {}
                 /\ idCounter' = 0
<1>0. /\ StoreInv /\ Sound(fragments, idCounter) /\ Exact(dedup, fragments)
      /\ batch \in Seq(Item)
      /\ IsMap(dedup, Ids, Texts)
      /\ IsMap(stubIndex, Sources, Ids)
      /\ answer \in {<<"none">>} \cup ({"ingested", "duplicate", "rejected"} \X Contents)
  BY DEF KeepInv, StoreInv, TypeRest
<1>a. IsMap(Empty, Sources, Ids) /\ IsMap(Empty, Ids, Texts)
  BY DEF IsMap, Empty
<1>1. ASSUME NEW t \in Contents, NEW s \in Sources, NEW p \in BOOLEAN, Ingest(t, s, p)
      PROVE  TypeRest' /\ Grown
  <2>1. CASE Full(fragments)
    <3>1. /\ UNCHANGED <<fragments, dedup, slots, lsh, stubIndex>>
          /\ answer' = <<"rejected", t>>
      BY <1>1, <2>1 DEF Ingest
    <3> QED
      BY <1>0, <3>1 DEF TypeRest, Grown
  <2>2. CASE ~Full(fragments)
    <3>1. /\ Admit(fragments, dedup, t, s, p) /\ idCounter < MaxIds
          /\ stubIndex' = stubIndex
      BY <1>1, <2>2 DEF Ingest
    <3>2. /\ Grown
          /\ IsMap(dedup', Ids, Texts)
          /\ answer' \in {"ingested", "duplicate"} \X Contents
      BY <1>0, <2>2, <3>1, AdmitGrows
    <3> QED
      BY <1>0, <3>1, <3>2 DEF TypeRest
  <2> QED
    BY <2>1, <2>2
<1>2. ASSUME NEW s \in Sources, IngestStub(s)
      PROVE  TypeRest' /\ Grown
  <2> DEFINE id == <<"sh", idCounter + 1>>
             f  == [text |-> s, source |-> s, hydrated |-> FALSE,
                    last |-> turn, pinned |-> FALSE]
  <2>1. /\ fragments' = Bind(fragments, id, f)
        /\ slots' = Append(slots, id) /\ lsh' = lsh
        /\ ~Full(fragments) /\ idCounter < MaxIds /\ idCounter' = idCounter + 1
        /\ UNCHANGED <<dedup, stubIndex, answer>>
    BY <1>2 DEF IngestStub, Store
  <2>2. id \in Ids /\ id[2] = idCounter + 1
    BY <1>0, <2>1, StoreAssumption DEF Sound, Ids
  <2>3. ~f.hydrated
    OBVIOUS
  <2> HIDE DEF id, f
  <2>4. DOMAIN fragments' = DOMAIN fragments \cup {id} /\ fragments'[id] = f
    BY <2>1 DEF Bind
  <2>5. Grown
    BY <2>1, <2>2, <2>3, <2>4 DEF Grown
  <2> QED
    BY <1>0, <2>1, <2>5 DEF TypeRest
<1>3. ASSUME NEW items \in Batches, BatchBegin(items)
      PROVE  TypeRest' /\ Grown
  <2>1. PICK m \in StubIndexes : stubIndex' = m
    BY <1>3 DEF BatchBegin
  <2>2. /\ Stubs \subseteq Ids
        /\ \A i \in Stubs : fragments[i].source \in Sources
    BY <1>0 DEF Stubs, Sound, IsMap, Fragment
  <2>3. IsMap(m, Sources, Ids)
    BY <2>2 DEF StubIndexes, IsMap
  <2> QED
    BY <1>0, <1>3, <2>1, <2>3 DEF BatchBegin, TypeRest, Grown
<1>4. ASSUME BatchItem
      PROVE  TypeRest' /\ Grown
  <2>1. stubIndex' = Empty \/ stubIndex' = stubIndex
    BY <1>4 DEF BatchItem
  <2>2. CASE Full(fragments)
    BY <1>0, <1>4, <1>a, <2>1, <2>2 DEF BatchItem, TypeRest, Grown
  <2>3. CASE ~Full(fragments)
    <3> DEFINE gone == StubOf(Head(batch).source)
    <3>1. /\ Admit(Drop(fragments, gone), Drop(dedup, gone),
                   Head(batch).text, Head(batch).source, FALSE)
          /\ idCounter < MaxIds /\ batch # <<>>
      BY <1>4, <2>3 DEF BatchItem
    <3>2. Head(batch).text \in Contents /\ Head(batch).source \in Sources
      <4>1. Head(batch) \in Item
        BY <1>0, <3>1
      <4> QED
        BY <4>1 DEF Item
    <3>3. PICK fr, index : fr = Drop(fragments, gone) /\ index = Drop(dedup, gone)
      OBVIOUS
    <3>4. /\ Sound(fr, idCounter) /\ Exact(index, fr)
      BY <1>0, <3>3, DropIsSound
    <3>5. DOMAIN fr \subseteq DOMAIN fragments /\ IsMap(index, Ids, Texts)
      BY <1>0, <3>3 DEF Drop, Restrict, IsMap
    <3>6. Admit(fr, index, Head(batch).text, Head(batch).source, FALSE)
      BY <3>1, <3>3
    <3>7. /\ Grown
          /\ IsMap(dedup', Ids, Texts)
          /\ answer' \in {"ingested", "duplicate"} \X Contents
      BY <1>0, <2>3, <3>1, <3>2, <3>4, <3>5, <3>6, AdmitGrows
    <3> QED
      BY <1>0, <1>a, <2>1, <3>7 DEF TypeRest
  <2> QED
    BY <2>2, <2>3
<1>5. ASSUME NEW selected \in SUBSET DOMAIN fragments, NEW matched \in SUBSET DOMAIN fragments,
              Access(selected, matched)
      PROVE  TypeRest' /\ Grown
  <2>1. /\ DOMAIN fragments' = DOMAIN fragments
        /\ UNCHANGED <<dedup, slots, lsh, stubIndex, answer>>
    BY <1>5 DEF Access
  <2> QED
    BY <1>0, <2>1 DEF TypeRest, Grown
<1>6. ASSUME AdvanceTurn
      PROVE  TypeRest' /\ RebuildLsh /\ DOMAIN fragments' \subseteq DOMAIN fragments
  <2>1. PICK left : fragments' = Restrict(fragments, left) /\ dedup' = DedupAfter(left)
                    /\ left \subseteq DOMAIN fragments
    BY <1>6 DEF AdvanceTurn, Alive, Consolidations
  <2>2. RebuildLsh /\ UNCHANGED <<stubIndex, answer>>
    BY <1>6 DEF AdvanceTurn
  <2>3. IsMap(dedup', Ids, Texts)
    BY <1>0, <2>1 DEF DedupAfter, Drop, Restrict, IsMap
  <2>4. DOMAIN fragments' \subseteq DOMAIN fragments
    BY <2>1 DEF Restrict
  <2> QED
    BY <1>0, <2>2, <2>3, <2>4 DEF TypeRest
<1>7. CASE ExportState
  BY <1>0, <1>7 DEF ExportState, TypeRest, Grown
<1>8. ASSUME ImportState
      PROVE  TypeRest' /\ RebuildLsh /\ \E s \in saved : fragments' = s.fragments
  <2>1. PICK s \in saved : fragments' = s.fragments
    BY <1>8 DEF ImportState
  <2>2. RebuildLsh /\ dedup' = RebuiltDedup(fragments') /\ stubIndex' = Empty
        /\ answer' = <<"none">>
    BY <1>8 DEF ImportState
  <2>3. IsMap(fragments', Ids, Fragment)
    BY <1>0, <2>1 DEF StoreInv, Sound
  <2>4. IsMap(dedup', Ids, Texts)
    BY <2>2, <2>3 DEF RebuiltDedup, IsMap, Fragment
  <2> QED
    BY <1>a, <2>1, <2>2, <2>4 DEF TypeRest
<1>9. ASSUME StartAfresh
      PROVE  TypeRest' /\ /\ fragments' = Empty /\ slots' = <<>> /\ lsh' = {}
                          /\ idCounter' = 0
  BY <1>9, <1>a DEF StartAfresh, TypeRest
<1>10. CASE UNCHANGED storeVars
  BY <1>0, <1>10 DEF storeVars, TypeRest, Grown
<1> QED
  BY <1>1, <1>2, <1>3, <1>4, <1>5, <1>6, <1>7, <1>8, <1>9, <1>10 DEF StoreNext

\* The indexes, the types and the cap are kept by every step.
LEMMA IndexStep == KeepInv /\ IndexInv /\ [StoreNext]_storeVars => IndexInv'
<1> SUFFICES ASSUME KeepInv, IndexInv, [StoreNext]_storeVars
             PROVE  IndexInv'
  OBVIOUS
<1> DEFINE Right == /\ slots' \in Seq(Ids)
                    /\ \A n \in DOMAIN slots' : slots'[n][2] <= idCounter'
                    /\ lsh' \subseteq Entry
                    /\ RecallReaches'
           Within(S) == Cardinality(S) <= MaxFragments
<1>1. KeepInv' /\ StoreInv'
  BY KeepStep DEF KeepInv
<1>2. TypeRest
  BY DEF IndexInv, StoreTypeOK, TypeRest
<1>3. /\ DOMAIN fragments \subseteq Ids /\ DOMAIN fragments' \subseteq Ids
      /\ IsMap(fragments', Ids, Fragment)
      /\ \A i \in DOMAIN fragments' : i[2] <= idCounter'
  BY <1>1 DEF KeepInv, StoreInv, Sound, IsMap
<1>4. /\ \A S \in SUBSET Ids : IsFiniteSet(S) /\ Cardinality(S) \in Nat
      /\ \A S \in SUBSET Ids : \A T \in SUBSET S : Cardinality(T) <= Cardinality(S)
  BY IdsAreFinite, FS_Subset, FS_CardinalityType
<1>5. /\ MaxFragments \in Nat
      /\ Within(DOMAIN fragments)
      /\ \A s \in saved : Within(DOMAIN s.fragments)
  BY StoreAssumption DEF IndexInv, WithinCap
<1>6. ASSUME RebuildLsh
      PROVE  Right
  BY <1>3, <1>6, RebuiltIsRight
<1>7. ASSUME fragments' = Empty, slots' = <<>>, lsh' = {}
      PROVE  Right
  BY <1>7 DEF RecallReaches, Empty
<1>8. Right
  <2>1. CASE Ordinary
    BY <1>1, <1>2, <1>6, <1>7, <2>1, GrownIsRight, IndexShape
  <2>2. CASE ImportState
    BY <1>6, <2>2 DEF ImportState
  <2>3. CASE StartAfresh
    BY <1>7, <2>3 DEF StartAfresh
  <2> QED
    BY <2>1, <2>2, <2>3, StepShape DEF Restart
<1>9. Within(DOMAIN fragments')
  <2>1. ASSUME DOMAIN fragments' \subseteq DOMAIN fragments
        PROVE  Within(DOMAIN fragments')
    <3>1. Cardinality(DOMAIN fragments') <= Cardinality(DOMAIN fragments)
      BY <1>3, <1>4, <2>1
    <3> QED
      BY <1>3, <1>4, <1>5, <3>1
  <2>2. ASSUME NEW id \in Ids, ~Full(fragments),
               DOMAIN fragments' \subseteq DOMAIN fragments \cup {id}
        PROVE  Within(DOMAIN fragments')
    <3>1. Cardinality(DOMAIN fragments) < MaxFragments
      BY <1>3, <1>4, <1>5, <2>2 DEF Full
    <3>2. /\ Cardinality(DOMAIN fragments \cup {id}) <= Cardinality(DOMAIN fragments) + 1
          /\ DOMAIN fragments \cup {id} \in SUBSET Ids
      BY <1>3, <1>4, FS_AddElement
    <3>3. Cardinality(DOMAIN fragments') <= Cardinality(DOMAIN fragments \cup {id})
      BY <1>4, <2>2, <3>2
    <3> QED
      BY <1>3, <1>4, <1>5, <3>1, <3>2, <3>3
  <2>3. ASSUME NEW s \in saved, fragments' = s.fragments
        PROVE  Within(DOMAIN fragments')
    BY <1>5, <2>3
  <2>4. ASSUME fragments' = Empty
        PROVE  Within(DOMAIN fragments')
    BY <1>5, <2>4, FS_EmptySet DEF Empty
  <2> QED
    BY <1>2, <2>1, <2>2, <2>3, <2>4, IndexShape DEF Grown
<1>10. \A s \in saved' : Within(DOMAIN s.fragments)
  <2>1. CASE saved' = saved
    BY <1>5, <2>1
  <2>2. CASE saved' \subseteq saved \cup {Exported}
    BY <1>5, <2>2 DEF Exported
  <2> QED
    BY <2>1, <2>2, StepShape DEF Ordinary, Restart, ImportState, StartAfresh
<1>11. StoreTypeOK'
  <2>1. TypeRest'
    BY <1>2, IndexShape
  <2>2. /\ IsMap(fragments', Ids, Fragment)
        /\ idCounter' \in 0 .. MaxIds /\ turn' \in 0 .. MaxTurn /\ batch' \in Seq(Item)
        /\ \A s \in saved' : /\ IsMap(s.fragments, Ids, Fragment)
                             /\ s.idCounter \in 0 .. MaxIds /\ s.turn \in 0 .. MaxTurn
    BY <1>1 DEF StoreInv, Sound
  <2> QED
    BY <1>8, <2>1, <2>2 DEF StoreTypeOK, TypeRest, Entry
<1> QED
  BY <1>8, <1>9, <1>10, <1>11 DEF IndexInv, WithinCap

LEMMA IndexInvariant == StoreSpec => []IndexInv
<1>1. StoreInit => IndexInv
  <2> SUFFICES ASSUME StoreInit
               PROVE  IndexInv
    OBVIOUS
  <2>1. /\ DOMAIN fragments = {} /\ DOMAIN slots = {} /\ lsh = {} /\ saved = {}
        /\ 0 <= MaxFragments
    BY StoreAssumption DEF StoreInit, Empty
  <2>2. StoreTypeOK
    BY StoreAssumption DEF StoreInit, StoreTypeOK, IsMap, Empty
  <2>3. WithinCap
    BY <2>1, FS_EmptySet DEF WithinCap
  <2> QED
    BY <2>1, <2>2, <2>3 DEF IndexInv, RecallReaches
<1> QED
  BY <1>1, IndexStep, KeepInvariant, PTL DEF StoreSpec

\* The store, its indexes and its exported state keep their types.
THEOREM StoreStaysTyped == StoreSpec => []StoreTypeOK
BY IndexInvariant, PTL DEF IndexInv

\* recall finds every content that is held by its own fingerprint, and no
\* entry ever leads to a fragment with another, although evictions leave
\* their slots behind until the next turn.
THEOREM RecallFindsAll == StoreSpec => []RecallReaches
BY IndexInvariant, PTL DEF IndexInv

\* Stubs, batches and imports alike stay within max_fragments.
THEOREM StoreStaysWithinCap == StoreSpec => []WithinCap
BY IndexInvariant, PTL DEF IndexInv
-----------------------------------------------------------------------------
\* Being close is mutual.
LEMMA CloseIsMutual ==
    ASSUME NEW f, NEW g, Close(f, g)
    PROVE  Close(g, f)
<1>1. \A p \in Similar : <<p[2], p[1]>> \in Similar
  BY StoreAssumption
<1> QED
  BY <1>1 DEF Close

\* A consolidation that takes a fragment keeps the winner of its group, and
\* both are close to the group's leader.
LEMMA WinnersRepresent ==
    ASSUME NEW S \in SUBSET DOMAIN fragments, NEW left \in Consolidations(S),
           NEW i \in S \ left
    PROVE  \E l \in S, w \in left : /\ Close(fragments[i], fragments[l])
                                    /\ Close(fragments[l], fragments[w])
<1> DEFINE free == {j \in S : ~fragments[j].pinned}
<1>1. PICK win \in SUBSET free :
        /\ left = (S \ free) \cup win
        /\ \E lead \in Groups(free) :
              \A l \in free : lead[l] = l => \E j \in win : {k \in win : lead[k] = l} = {j}
  BY DEF Consolidations
<1>2. PICK lead \in Groups(free) :
        \A l \in free : lead[l] = l => \E j \in win : {k \in win : lead[k] = l} = {j}
  BY <1>1
<1>3. /\ i \in free
      /\ lead \in [free -> free]
      /\ \A j \in free : /\ Close(fragments[j], fragments[lead[j]])
                         /\ lead[lead[j]] = lead[j]
  BY <1>1 DEF Groups
<1>4. PICK j \in win : lead[j] = lead[i]
  BY <1>2, <1>3
<1>5. j \in left /\ lead[i] \in S /\ Close(fragments[j], fragments[lead[i]])
  BY <1>1, <1>3, <1>4
<1> QED
  BY <1>3, <1>5, CloseIsMutual

\* Whatever a turn consolidates away has a survivor within the threshold of a
\* common neighbour.
THEOREM ConsolidationsRepresent == StoreSpec => ConsolidationKeepsARepresentative
<1> DEFINE Represented ==
      turn' = turn + 1 /\ ~Restart =>
         \A i \in Alive(turn') \ DOMAIN fragments' :
            \E l \in Alive(turn'), w \in DOMAIN fragments' :
               /\ Close(fragments[i], fragments[l])
               /\ Close(fragments[l], fragments[w])
<1>1. ASSUME StoreInv, [StoreNext]_storeVars
      PROVE  Represented
  <2>1. turn \in Int
    BY <1>1 DEF StoreInv
  <2>2. CASE turn' = turn
    BY <2>1, <2>2
  <2>3. CASE Restart
    BY <2>3
  <2>4. CASE AdvanceTurn
    <3>1. PICK left : /\ fragments' = Restrict(fragments, left)
                      /\ left = Alive(turn') \/ left \in Consolidations(Alive(turn'))
      BY <2>4 DEF AdvanceTurn
    <3>2. Alive(turn') \in SUBSET DOMAIN fragments
      BY DEF Alive
    <3>3. PICK S : S = Alive(turn')
      OBVIOUS
    <3>4. left \subseteq S
      BY <3>1, <3>3 DEF Consolidations
    <3>5. DOMAIN fragments' = left
      BY <3>1, <3>2, <3>3, <3>4 DEF Restrict
    <3>6. \A i \in S \ left : \E l \in S, w \in left :
            /\ Close(fragments[i], fragments[l])
            /\ Close(fragments[l], fragments[w])
      BY <3>1, <3>2, <3>3, WinnersRepresent
    <3> QED
      BY <3>3, <3>5, <3>6
  <2> QED
    BY <1>1, <2>2, <2>3, <2>4 DEF StoreNext, storeVars, Restart, Ingest, IngestStub,
       BatchBegin, BatchItem, Access, ExportState
<1>2. StoreInv /\ [StoreNext]_storeVars => [Represented]_storeVars
  BY <1>1
<1> QED
  BY <1>2, StoreInvariant, PTL DEF StoreSpec, ConsolidationKeepsARepresentative
=============================================================================
