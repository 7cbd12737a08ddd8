-------------------------- MODULE ArrangementProofs --------------------------
(***************************************************************************)
(* That contradiction_guard settles every contradiction, for any number of *)
(* selected fragments, that the rounds of the topological sort give a      *)
(* definition a lower level than its uses, and that the passes which order *)
(* by those levels put every survivor in its place once.                   *)
(*                                                                         *)
(* The invariant of the scan is Scanned: no pair it has passed holds two   *)
(* contradicting fragments that are both still in.                         *)
(***************************************************************************)
EXTENDS Arrangement, FiniteSetTheorems, WellFoundedInduction, TLAPS

Scanned ==
    \A p, q \in Positions \ evicted :
        p < q /\ (p < first \/ (p = first /\ q < second)) => ~Contradict(p, q)

EvictedWithReason ==
    \A p \in evicted : \E q \in Positions : Contradict(q, p) /\ Relevance(q) >= Relevance(p)

ScanInv ==
    /\ choice \in Selections
    /\ ArrangementTypeOK
    /\ stage # "guard" => first >= Len(choice.chosen)
    /\ Scanned
    /\ EvictedWithReason

\* In what has a level, a definition has a lower one than its uses, and no use
\* has one before its definitions.
LevelsLeadUp ==
    /\ DOMAIN level \subseteq Kept
    /\ \A f \in DOMAIN level : level[f] \in Nat /\ level[f] < depth
    /\ \A f \in DOMAIN level : \A d \in Kept \ {f} :
          <<d, f>> \in choice.defines => d \in DOMAIN level /\ level[d] < level[f]

LevelsInv ==
    /\ depth \in Nat
    /\ stage = "guard" => DOMAIN level = {}
    /\ LevelsLeadUp

LEMMA ChoiceFields ==
    ASSUME choice \in Selections
    PROVE  /\ choice \in Choice
           /\ choice.chosen \in Seq(Fragments)
           /\ Len(choice.chosen) \in Nat
           /\ \A p \in Positions : Relevance(p) \in Nat
           /\ \A p, q \in Positions : Contradict(p, q) => Contradict(q, p)
  <1>1. choice \in Choice /\ choice.chosen \in Seq(Fragments) /\ choice.relevance \in [Fragments -> Nat]
    BY ArrangementAssumption DEF Choice
  <1>2. Len(choice.chosen) \in Nat /\ \A p \in Positions : At(p) \in Fragments
    BY <1>1 DEF Positions, At
  <1>3. \A p, q \in Positions : Contradict(p, q) => Contradict(q, p)
    <2> SUFFICES ASSUME NEW p \in Positions, NEW q \in Positions, Contradict(p, q)
                 PROVE  Contradict(q, p)
      OBVIOUS
    <2> DEFINE pair == <<At(p), At(q)>>
    <2>1. pair \in choice.contradict
      BY DEF Contradict
    <2>2. <<pair[2], pair[1]>> \in choice.contradict
      BY <2>1, ArrangementAssumption
    <2> QED
      BY <2>2 DEF Contradict
  <1> QED
    BY <1>1, <1>2, <1>3 DEF Relevance

LEMMA ScanInitHolds == ArrangementInit => ScanInv
  BY ArrangementAssumption
     DEF ArrangementInit, ScanInv, ArrangementTypeOK, Scanned, EvictedWithReason, Positions

LEMMA ScanStep == ScanInv /\ Scan => ScanInv'
  <1> SUFFICES ASSUME ScanInv, Scan PROVE ScanInv'
    OBVIOUS
  <1> USE DEF ScanInv, Scan
  <1>1. choice' = choice /\ Positions' = Positions
    BY DEF Positions
  <1>2. /\ \A p, q : Contradict(p, q)' <=> Contradict(p, q)
        /\ \A p : Relevance(p)' = Relevance(p)
    BY <1>1 DEF Contradict, Relevance, At
  <1>3. first \in Positions /\ first \in Nat /\ second \in Nat /\ evicted \subseteq Positions
    BY ChoiceFields DEF ArrangementTypeOK, Positions
  <1>4. CASE first \in evicted \/ second > Len(choice.chosen)
    <2>1. first' = first + 1 /\ second' = first + 2 /\ evicted' = evicted
      BY <1>4 DEF NextFirst
    <2>2. ArrangementTypeOK'
      BY <1>1, <1>3, <2>1 DEF ArrangementTypeOK
    <2>3. Scanned'
      <3> SUFFICES ASSUME NEW p \in Positions \ evicted, NEW q \in Positions \ evicted,
                          p < q, p < first + 1 \/ (p = first + 1 /\ q < first + 2)
                   PROVE  ~Contradict(p, q)
        BY <1>1, <1>2, <2>1 DEF Scanned
      <3>1. p \in Nat /\ q \in Nat /\ q <= Len(choice.chosen)
        BY ChoiceFields DEF Positions
      <3>2. p < first \/ (p = first /\ q < second)
        BY <1>3, <1>4, <3>1, ChoiceFields
      <3> QED
        BY <3>2 DEF Scanned
    <2>4. EvictedWithReason'
      BY <1>1, <1>2, <2>1 DEF EvictedWithReason
    <2> QED
      BY <1>1, <2>2, <2>3, <2>4
  <1>5. CASE ~(first \in evicted \/ second > Len(choice.chosen))
    <2>1. second <= Len(choice.chosen)
      BY <1>3, <1>5, ChoiceFields
    <2>2. CASE second \in evicted \/ ~Contradict(first, second)
      <3>1. second' = second + 1 /\ first' = first /\ evicted' = evicted
        BY <1>5, <2>2
      <3>2. ArrangementTypeOK'
        BY <1>1, <1>3, <3>1 DEF ArrangementTypeOK
      <3>3. Scanned'
        <4> SUFFICES ASSUME NEW p \in Positions \ evicted, NEW q \in Positions \ evicted,
                            p < q, p < first \/ (p = first /\ q < second + 1)
                     PROVE  ~Contradict(p, q)
          BY <1>1, <1>2, <3>1 DEF Scanned
        <4>1. p \in Nat /\ q \in Nat
          BY ChoiceFields DEF Positions
        <4>2. CASE q = second /\ p = first
          BY <2>2, <4>2
        <4>3. CASE ~(q = second /\ p = first)
          BY <1>3, <4>1, <4>3 DEF Scanned
        <4> QED
          BY <4>2, <4>3
      <3>4. EvictedWithReason'
        BY <1>1, <1>2, <3>1 DEF EvictedWithReason
      <3> QED
        BY <1>1, <3>2, <3>3, <3>4
    <2>3. CASE ~(second \in evicted \/ ~Contradict(first, second))
      <3>1. second \in Nat /\ Relevance(first) \in Nat
        BY <1>3, ChoiceFields
      <3>2. CASE Relevance(first) >= Relevance(second)
        <4>1. second' = second + 1 /\ first' = first /\ evicted' = evicted \cup {second}
          BY <1>5, <2>3, <3>2
        <4>2. second \in Positions
          <5>1. second >= 1
            BY <1>3, <2>3 DEF ArrangementTypeOK
          <5> QED
            BY <1>3, <2>1, <5>1, ChoiceFields DEF Positions
        <4>3. ArrangementTypeOK'
          BY <1>1, <1>3, <4>1, <4>2 DEF ArrangementTypeOK
        <4>4. Scanned'
          <5> SUFFICES ASSUME NEW p \in Positions \ (evicted \cup {second}),
                              NEW q \in Positions \ (evicted \cup {second}),
                              p < q, p < first \/ (p = first /\ q < second + 1)
                       PROVE  ~Contradict(p, q)
            BY <1>1, <1>2, <4>1 DEF Scanned
          <5>1. p \in Nat /\ q \in Nat
            BY ChoiceFields DEF Positions
          <5> QED
            BY <1>3, <5>1 DEF Scanned
        <4>5. EvictedWithReason'
          BY <1>1, <1>2, <1>3, <2>3, <3>2, <4>1 DEF EvictedWithReason
        <4> QED
          BY <1>1, <4>3, <4>4, <4>5
      <3>3. CASE ~(Relevance(first) >= Relevance(second))
        <4>1. first' = first + 1 /\ second' = first + 2 /\ evicted' = evicted \cup {first}
          BY <1>5, <2>3, <3>3 DEF NextFirst
        <4>2. second \in Positions
          <5>1. second >= 1
            BY <1>3, <2>3 DEF ArrangementTypeOK
          <5> QED
            BY <1>3, <2>1, <5>1, ChoiceFields DEF Positions
        <4>3. ArrangementTypeOK'
          BY <1>1, <1>3, <4>1 DEF ArrangementTypeOK
        <4>4. Scanned'
          <5> SUFFICES ASSUME NEW p \in Positions \ (evicted \cup {first}),
                              NEW q \in Positions \ (evicted \cup {first}),
                              p < q, p < first + 1 \/ (p = first + 1 /\ q < first + 2)
                       PROVE  ~Contradict(p, q)
            BY <1>1, <1>2, <4>1 DEF Scanned
          <5>1. p \in Nat /\ q \in Nat /\ p # first
            BY ChoiceFields DEF Positions
          <5> QED
            BY <1>3, <5>1 DEF Scanned
        <4>5. EvictedWithReason'
          <5>1. Contradict(second, first) /\ Relevance(second) >= Relevance(first)
            BY <1>3, <2>3, <3>3, <4>2, ChoiceFields
          <5> QED
            BY <1>1, <1>2, <4>1, <4>2, <5>1 DEF EvictedWithReason
        <4> QED
          BY <1>1, <4>3, <4>4, <4>5
      <3> QED
        BY <3>2, <3>3
    <2> QED
      BY <2>2, <2>3
  <1> QED
    BY <1>4, <1>5

LEMMA ScanInvIsInductive ==
    ScanInv /\ [ArrangementNext]_arrangementVars => ScanInv'
  <1> SUFFICES ASSUME ScanInv, [ArrangementNext]_arrangementVars PROVE ScanInv'
    OBVIOUS
  <1>1. CASE Scan
    BY <1>1, ScanStep
  <1>2. CASE ~Scan
    <2>1. /\ UNCHANGED <<choice, first, second, evicted>>
          /\ stage' \in {"guard", "levels", "bookend", "precise", "done"}
          /\ stage' # "guard" => stage # "guard" \/ first >= Len(choice.chosen)
          /\ depth' \in Nat
      <3> USE DEF ScanInv, ArrangementTypeOK
      <3>1. CASE GuardDone
        BY <3>1 DEF GuardDone
      <3>2. CASE Round
        BY <3>2 DEF Round
      <3>3. CASE SemanticInterleave
        BY <3>3 DEF SemanticInterleave
      <3>4. CASE Bookend
        BY <3>4 DEF Bookend
      <3>5. CASE PreciseFirst
        BY <3>5 DEF PreciseFirst
      <3>6. CASE UNCHANGED arrangementVars
        BY <3>6 DEF arrangementVars
      <3> QED
        BY <1>2, <3>1, <3>2, <3>3, <3>4, <3>5, <3>6 DEF ArrangementNext
    <2> QED
      BY <2>1 DEF ScanInv, ArrangementTypeOK, Scanned, EvictedWithReason, Positions,
          Contradict, Relevance, At
  <1> QED
    BY <1>1, <1>2

LEMMA LevelsInitHold == ArrangementInit => LevelsInv
  BY DEF ArrangementInit, LevelsInv, LevelsLeadUp

LEMMA LevelsInvIsInductive ==
    LevelsInv /\ [ArrangementNext]_arrangementVars => LevelsInv'
  <1> SUFFICES ASSUME LevelsInv, [ArrangementNext]_arrangementVars PROVE LevelsInv'
    OBVIOUS
  <1>1. CASE Scan
    BY <1>1 DEF Scan, LevelsInv, LevelsLeadUp
  <1>2. CASE Round
    <2>1. Kept' = Kept /\ choice' = choice
      BY <1>2 DEF Round, Kept, Positions, At
    <2>2. /\ DOMAIN level' = DOMAIN level \cup Ready
          /\ \A f \in Ready : level'[f] = depth
          /\ \A f \in DOMAIN level : level'[f] = level[f]
          /\ Ready \cap DOMAIN level = {}
      BY <1>2 DEF Round, Ready
    <2>3. Ready \subseteq Kept
      BY DEF Ready
    <2>4. \A f \in DOMAIN level' : level'[f] \in Nat /\ level'[f] < depth'
      BY <1>2, <2>2 DEF Round, LevelsInv, LevelsLeadUp
    <2>5. ASSUME NEW f \in DOMAIN level', NEW d \in Kept \ {f}, <<d, f>> \in choice.defines
          PROVE  d \in DOMAIN level' /\ level'[d] < level'[f]
      <3>1. CASE f \in Ready
        <4>1. d \in DOMAIN level /\ level[d] < depth
          BY <2>5, <3>1 DEF Ready, LevelsInv, LevelsLeadUp
        <4> QED
          BY <2>2, <3>1, <4>1
      <3>2. CASE f \in DOMAIN level
        <4>1. d \in DOMAIN level /\ level[d] < level[f]
          BY <2>5, <3>2 DEF LevelsInv, LevelsLeadUp
        <4> QED
          BY <2>2, <3>2, <4>1
      <3> QED
        BY <2>2, <3>1, <3>2
    <2> QED
      BY <1>2, <2>1, <2>2, <2>3, <2>4, <2>5 DEF Round, LevelsInv, LevelsLeadUp
  <1>3. CASE ~Scan /\ ~Round
    <2>1. /\ UNCHANGED <<choice, evicted, level, depth>>
          /\ stage' = "guard" => stage = "guard"
      BY <1>3 DEF ArrangementNext, arrangementVars, GuardDone, SemanticInterleave, Bookend,
          PreciseFirst
    <2> QED
      BY <2>1 DEF LevelsInv, LevelsLeadUp, Kept, Positions, At
  <1> QED
    BY <1>1, <1>2, <1>3
-----------------------------------------------------------------------------
\* contradiction_guard leaves no contradiction behind, and evicts nothing without
\* one, for any number of fragments in any order.
THEOREM GuardSettlesContradictions == ArrangementSpec => []SurvivorsAgree
  <1>1. ScanInv => SurvivorsAgree
    <2> SUFFICES ASSUME ScanInv PROVE SurvivorsAgree
      OBVIOUS
    <2>1. ASSUME stage # "guard", NEW p \in Positions \ evicted,
                 NEW q \in Positions \ evicted, p < q
          PROVE  ~Contradict(p, q)
      <3>1. p < first
        BY <2>1, ChoiceFields DEF ScanInv, ArrangementTypeOK, Positions
      <3> QED
        BY <2>1, <3>1 DEF ScanInv, Scanned
    <2>2. ASSUME stage # "guard", NEW p \in Positions \ evicted,
                 NEW q \in Positions \ evicted, p # q
          PROVE  ~Contradict(p, q)
      <3>1. p < q \/ q < p
        BY <2>2, ChoiceFields DEF ScanInv, Positions
      <3> QED
        BY <2>1, <2>2, <3>1, ChoiceFields DEF ScanInv
    <2> QED
      BY <2>2 DEF SurvivorsAgree, ScanInv, EvictedWithReason
  <1> QED
    BY <1>1, ScanInitHolds, ScanInvIsInductive, PTL DEF ArrangementSpec

\* Kahn's rounds give a definition a lower level than its uses, whatever the
\* links: the levels from which both ordering passes build their order.
THEOREM LevelsRespectDefinitions == ArrangementSpec => []LevelsLeadUp
  <1>1. LevelsInv => LevelsLeadUp
    BY DEF LevelsInv
  <1> QED
    BY <1>1, LevelsInitHold, LevelsInvIsInductive, PTL DEF ArrangementSpec
-----------------------------------------------------------------------------
(***************************************************************************)
(* The order.  Links lead back, so that every fragment kept has a level    *)
(* when no more are ready, and each pass leaves every fragment kept in the *)
(* line once, the levels in ascending order until the last pass moves the  *)
(* files named to the front.                                               *)
(***************************************************************************)
InLevels(s) == \A p, q \in DOMAIN s : p < q => LevelOf(s[p]) <= LevelOf(s[q])

LineInv ==
    /\ stage \in {"bookend", "precise"} =>
          Kept \subseteq DOMAIN level /\ line \in SetToSeqs(Kept) /\ InLevels(line)
    /\ DefinitionsComeFirst

LEMMA KeptIsFinite ==
    ASSUME choice \in Selections
    PROVE  IsFiniteSet(Kept) /\ Kept \subseteq Fragments
  <1>1. IsFiniteSet(Positions)
    BY ChoiceFields, FS_Interval DEF Positions
  <1> DEFINE In == Positions \ evicted
             f == [p \in In |-> At(p)]
  <1>2. IsFiniteSet(In)
    BY <1>1, FS_Subset
  <1>3. f \in [In -> Kept] /\ \A x \in Kept : \E p \in In : f[p] = x
    BY DEF Kept
  <1>4. Kept \subseteq Fragments
    BY ChoiceFields DEF Kept, Positions, At
  <1> HIDE DEF In, f
  <1>5. f \in Surjection(In, Kept)
    BY <1>3 DEF Surjection
  <1> QED
    BY <1>2, <1>4, <1>5, FS_Surjection

\* A sequence in which each of S stands once has all of S, and as many.
LEMMA EachOnceIsAll ==
    ASSUME NEW S, IsFiniteSet(S), NEW s \in SetToSeqs(S)
    PROVE  Len(s) = Cardinality(S) /\ ToSet(s) = S /\ DOMAIN s = 1 .. Cardinality(S)
  <1> DEFINE n == Cardinality(S)
             D == 1 .. n
  <1>1. n \in Nat
    BY FS_CardinalityType
  <1>2. s \in [D -> S] /\ \A i, j \in D : i # j => s[i] # s[j]
    BY DEF SetToSeqs
  <1>3. IsFiniteSet(D) /\ Cardinality(D) = n
    BY <1>1, FS_Interval
  <1> HIDE DEF D, n
  <1>4. Len(s) = n
    BY <1>1, <1>2 DEF D
  <1>5. ASSUME NEW e \in S, \A i \in D : s[i] # e PROVE FALSE
    <2>1. IsFiniteSet(S \ {e}) /\ Cardinality(S \ {e}) = n - 1
      BY FS_RemoveElement DEF n
    <2>2. s \in [D -> S \ {e}]
      BY <1>2, <1>5
    <2> QED
      BY <1>1, <1>2, <1>3, <2>1, <2>2, FS_PigeonHole
  <1>6. ToSet(s) = S
    BY <1>2, <1>5 DEF ToSet
  <1> QED
    BY <1>2, <1>4, <1>6 DEF D, n

\* The oldest fragment without a level is ready: it uses only older ones.
LEMMA AllHaveLevels ==
    ASSUME choice \in Selections, Ready = {}
    PROVE  Kept \subseteq DOMAIN level
  <1> SUFFICES ASSUME Kept \ DOMAIN level # {} PROVE FALSE
    OBVIOUS
  <1> DEFINE Left == Kept \ DOMAIN level
             Numbers == {Number[f] : f \in Left}
  <1>1. Left \subseteq Fragments /\ Left # {}
    BY KeptIsFinite
  <1>2. Numbers \subseteq Nat /\ Numbers # {}
    BY <1>1, ArrangementAssumption
  <1>3. PICK n \in Numbers : \A m \in Numbers : ~(m < n)
    <2> HIDE DEF Numbers
    <2>1. PICK n \in Numbers : \A m \in Numbers : <<m, n>> \notin OpToRel(<, Nat)
      BY <1>2, NatLessThanWellFounded, WFMin
    <2> QED
      BY <1>2, <2>1 DEF OpToRel
  <1>4. PICK f \in Left : Number[f] = n
    OBVIOUS
  <1>5. f \notin Ready
    OBVIOUS
  <1>6. PICK d \in Kept \ {f} : <<d, f>> \in choice.defines /\ d \notin DOMAIN level
    BY <1>4, <1>5 DEF Ready
  <1>7. Number[d] < Number[f]
    <2> DEFINE pair == <<d, f>>
    <2>1. pair \in choice.defines
      BY <1>6
    <2>2. Number[pair[1]] < Number[pair[2]]
      BY <2>1, ArrangementAssumption
    <2> QED
      BY <2>2
  <1>8. Number[d] \in Numbers
    BY <1>6
  <1> QED
    BY <1>3, <1>4, <1>7, <1>8

LEMMA SemanticInterleaveStep ==
    ASSUME ScanInv, LevelsInv, SemanticInterleave
    PROVE  LineInv'
  <1>1. choice \in Selections /\ Ready = {}
    BY DEF ScanInv, SemanticInterleave
  <1>2. Kept \subseteq DOMAIN level
    BY <1>1, AllHaveLevels
  <1>3. line' \in SetToSeqs(Kept) /\ \A p, q \in DOMAIN line' : p < q => LevelOf(line'[p]) <= LevelOf(line'[q])
    <2> DEFINE Weightier(f, g) ==
                  \/ choice.importance[f] > choice.importance[g]
                  \/ /\ choice.importance[f] = choice.importance[g]
                     /\ RankIn(choice.chosen, f) < RankIn(choice.chosen, g)
               Leaf(l) == depth > 1 /\ l = depth - 1
               Before(f, g) ==
                  \/ LevelOf(f) < LevelOf(g)
                  \/ /\ LevelOf(f) = LevelOf(g)
                     /\ IF Leaf(LevelOf(f)) THEN Weightier(g, f) ELSE Weightier(f, g)
    <2>1. line' \in Ordered(Before)
      BY DEF SemanticInterleave
    <2>2. \A f \in Kept : LevelOf(f) \in Nat
      BY <1>2 DEF LevelsInv, LevelsLeadUp, LevelOf
    <2>3. \A f, g : Before(f, g) => LevelOf(f) < LevelOf(g) \/ LevelOf(f) = LevelOf(g)
      OBVIOUS
    <2> HIDE DEF Before
    <2>4. line' \in SetToSeqs(Kept) /\ \A p, q \in DOMAIN line' : p < q => Before(line'[p], line'[q])
      BY <2>1 DEF Ordered
    <2>5. \A p \in DOMAIN line' : line'[p] \in Kept
      BY <2>4 DEF SetToSeqs
    <2> QED
      BY <2>2, <2>3, <2>4, <2>5
  <1>4. UNCHANGED <<choice, evicted, level>> /\ stage' = "bookend"
    BY DEF SemanticInterleave
  <1>5. Kept' = Kept /\ \A f : LevelOf(f)' = LevelOf(f)
    BY <1>4 DEF Kept, Positions, At, LevelOf
  <1> QED
    BY <1>2, <1>3, <1>4, <1>5 DEF LineInv, InLevels, DefinitionsComeFirst

LEMMA BookendStep ==
    ASSUME ScanInv, LevelsInv, LineInv, Bookend
    PROVE  LineInv'
  <1>1. Kept \subseteq DOMAIN level /\ line \in SetToSeqs(Kept) /\ InLevels(line)
    BY DEF LineInv, Bookend
  <1>2. \A f \in Kept : LevelOf(f) \in Nat
    BY <1>1 DEF LevelsInv, LevelsLeadUp, LevelOf
  <1>3. line' \in SetToSeqs(Kept) /\ InLevels(line')
    <2>1. CASE Len(line) <= 2
      BY <1>1, <2>1 DEF Bookend, InLevels
    <2>2. CASE ~(Len(line) <= 2)
      <3>1. /\ line' \in SetToSeqs(Kept)
            /\ \A p, q \in DOMAIN line' :
                  LevelOf(line'[p]) # LevelOf(line'[q]) /\ p < q =>
                      LevelOf(line'[p]) < LevelOf(line'[q])
        BY <2>2 DEF Bookend
      <3>2. \A p \in DOMAIN line' : line'[p] \in Kept
        BY <3>1 DEF SetToSeqs
      <3> QED
        BY <1>2, <3>1, <3>2 DEF InLevels
    <2> QED
      BY <2>1, <2>2
  <1>4. UNCHANGED <<choice, evicted, level>> /\ stage' = "precise"
    BY DEF Bookend
  <1>5. Kept' = Kept /\ \A f : LevelOf(f)' = LevelOf(f)
    BY <1>4 DEF Kept, Positions, At, LevelOf
  <1> QED
    BY <1>1, <1>3, <1>4, <1>5 DEF LineInv, InLevels, DefinitionsComeFirst

LEMMA PreciseFirstStep ==
    ASSUME ScanInv, LevelsInv, LineInv, PreciseFirst
    PROVE  LineInv'
  <1>1. Kept \subseteq DOMAIN level /\ line \in SetToSeqs(Kept) /\ InLevels(line)
        /\ choice \in Selections
    BY DEF LineInv, PreciseFirst, ScanInv
  <1>2. \A f \in Kept : LevelOf(f) = level[f] /\ level[f] \in Nat
    BY <1>1 DEF LevelsInv, LevelsLeadUp, LevelOf
  <1>3. IsFiniteSet(Kept)
    BY <1>1, KeptIsFinite
  <1> DEFINE Before(f, g) ==
                \/ f \in choice.precise /\ g \notin choice.precise
                \/ /\ f \in choice.precise <=> g \in choice.precise
                   /\ RankIn(line, f) < RankIn(line, g)
  <1>4. line' \in Ordered(Before)
    BY DEF PreciseFirst
  <1>5. \A f, g : Before(f, g) /\ (f \in choice.precise <=> g \in choice.precise) =>
                    RankIn(line, f) < RankIn(line, g)
    OBVIOUS
  <1> HIDE DEF Before
  <1>6. line' \in SetToSeqs(Kept) /\ \A p, q \in DOMAIN line' : p < q => Before(line'[p], line'[q])
    BY <1>4 DEF Ordered
  <1>7. DOMAIN line = 1 .. Cardinality(Kept) /\ ToSet(line) = Kept /\ Cardinality(Kept) \in Nat
    BY <1>1, <1>3, EachOnceIsAll, FS_CardinalityType
  <1>8. Len(line') = Cardinality(Kept) /\ ToSet(line') = Kept /\ DOMAIN line' = 1 .. Cardinality(Kept)
    BY <1>3, <1>6, EachOnceIsAll
  <1>9. \A f \in Kept : RankIn(line, f) \in DOMAIN line /\ line[RankIn(line, f)] = f
    BY <1>7 DEF RankIn, ToSet
  <1>10. ASSUME NEW p \in DOMAIN line', NEW q \in DOMAIN line',
                <<line'[p], line'[q]>> \in choice.defines, ~(p < q),
                line'[p] \in choice.precise <=> line'[q] \in choice.precise
         PROVE  FALSE
    <2> DEFINE d == line'[p]
               u == line'[q]
    <2>1. d \in Kept /\ u \in Kept
      BY <1>8 DEF ToSet
    <2>2. Number[d] < Number[u] /\ Number[d] \in Nat
      <3> DEFINE pair == <<d, u>>
      <3>1. Number[pair[1]] < Number[pair[2]]
        BY <1>1, <1>10, ArrangementAssumption
      <3>2. d \in Fragments
        BY <1>1, <2>1, KeptIsFinite
      <3> QED
        BY <3>1, <3>2, ArrangementAssumption
    <2>3. d # u
      BY <2>2
    <2>4. level[d] < level[u]
      BY <1>1, <1>10, <2>1, <2>3 DEF LevelsInv, LevelsLeadUp
    <2>5. q < p
      BY <1>7, <1>8, <1>10, <2>3
    <2>6. RankIn(line, u) < RankIn(line, d)
      BY <1>5, <1>6, <1>10, <2>5
    <2>7. LevelOf(u) <= LevelOf(d)
      BY <1>1, <1>9, <2>1, <2>6 DEF InLevels
    <2> QED
      BY <1>2, <2>1, <2>4, <2>7
  <1>11. UNCHANGED <<choice, evicted, level>> /\ stage' = "done"
    BY DEF PreciseFirst
  <1>12. Kept' = Kept
    BY <1>11 DEF Kept, Positions, At
  <1>13. \A p, q \in DOMAIN line' :
            <<line'[p], line'[q]>> \in choice.defines =>
               p < q \/ {line'[p], line'[q]} \cap choice.precise \notin {{}, {line'[p], line'[q]}}
    <2> SUFFICES ASSUME NEW p \in DOMAIN line', NEW q \in DOMAIN line',
                        <<line'[p], line'[q]>> \in choice.defines, ~(p < q)
                 PROVE  {line'[p], line'[q]} \cap choice.precise \notin {{}, {line'[p], line'[q]}}
      OBVIOUS
    <2>1. ~(line'[p] \in choice.precise <=> line'[q] \in choice.precise)
      BY <1>10
    <2> QED
      BY <2>1
  <1> QED
    BY <1>8, <1>11, <1>12, <1>13 DEF LineInv, DefinitionsComeFirst

LEMMA LineInvIsInductive ==
    ScanInv /\ LevelsInv /\ LineInv /\ [ArrangementNext]_arrangementVars => LineInv'
  <1> SUFFICES ASSUME ScanInv, LevelsInv, LineInv, [ArrangementNext]_arrangementVars
               PROVE  LineInv'
    OBVIOUS
  <1>1. CASE SemanticInterleave
    BY <1>1, SemanticInterleaveStep
  <1>2. CASE Bookend
    BY <1>2, BookendStep
  <1>3. CASE PreciseFirst
    BY <1>3, PreciseFirstStep
  <1>4. CASE Scan \/ GuardDone \/ Round
    BY <1>4 DEF Scan, GuardDone, Round, LineInv, DefinitionsComeFirst
  <1>5. CASE UNCHANGED arrangementVars
    BY <1>5 DEF arrangementVars, LineInv, DefinitionsComeFirst, InLevels, LevelOf, Kept,
                Positions, At
  <1> QED
    BY <1>1, <1>2, <1>3, <1>4, <1>5 DEF ArrangementNext

\* In the order handed out every survivor stands once, and a definition before
\* its uses among the files named and among the others, for any number of
\* fragments, any relevances and any links that lead back.
THEOREM DefinitionsStandFirst == ArrangementSpec => []DefinitionsComeFirst
  <1>1. ArrangementInit => LineInv
    BY DEF ArrangementInit, LineInv, DefinitionsComeFirst
  <1>2. LineInv => DefinitionsComeFirst
    BY DEF LineInv
  <1> QED
    BY <1>1, <1>2, ScanInitHolds, ScanInvIsInductive, LevelsInitHold, LevelsInvIsInductive,
       LineInvIsInductive, PTL DEF ArrangementSpec
=============================================================================
