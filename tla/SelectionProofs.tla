--------------------------- MODULE SelectionProofs ---------------------------
(***************************************************************************)
(* That one optimize call stays within its budget unless it explores,      *)
(* gives no fragment a lower form while it fits whole, leaves nothing out  *)
(* that fits, and counts what it spends exactly, for every store, request  *)
(* and order of scores.                                                    *)
(*                                                                         *)
(* The invariant is SelectionInv: which passes belong to which selector    *)
(* and what they have not touched yet (Staged), and, for the trailing      *)
(* pass, that a candidate it no longer holds fits the tokens left no more  *)
(* (TriedNoLongerFit): used only grows there.                              *)
(*                                                                         *)
(* The tally is an invariant next to it; what it rests on is that a total  *)
(* over a set is that over the set without a member, and that member's.    *)
(***************************************************************************)
EXTENDS Selection, FiniteSetTheorems, WellFoundedInduction, TLAPS

\* Sums of token counts, which Requests bounds.
CountsAreBounded == \E r \in Requests : request.tokens = r.tokens

Staged ==
    /\ phase \in {"pin", "fill", "greedy", "extract"} => request.ios
    /\ phase \in {"knapsack", "skeletons"} => ~request.ios
    /\ phase \in {"precise", "pin", "knapsack"} => full = {}
    /\ phase \in {"precise", "pin", "fill", "knapsack"} => DOMAIN brief = {}
    /\ phase \in {"precise", "pin", "fill", "greedy", "extract", "knapsack", "explore"} =>
          explored = {}

TriedNoLongerFit ==
    phase = "trail" =>
        /\ queue \cap Selected = {}
        /\ \A f \in Frags \ (Selected \cup queue) :
              request.tokens[f] > 0 => request.tokens[f] > request.budget - used

\* The bound through the exploration too, whose swap may cost Slack more.
SpentWithSwap ==
    request.ios => used <= request.budget + IF explored = {} THEN 0 ELSE Slack

SelectionInv ==
    /\ SelectionTypeOK
    /\ CountsAreBounded
    /\ Staged
    /\ SpentWithSwap
    /\ NoUpgradeFits
    /\ TriedNoLongerFit
    /\ NothingLeftFits
-----------------------------------------------------------------------------
LEMMA WeightIsNat ==
    ASSUME CountsAreBounded, NEW S \in SUBSET Frags
    PROVE  Weight(S) \in Nat
  <1>1. PICK r \in Requests : request.tokens = r.tokens
    BY DEF CountsAreBounded
  <1>2. Total(r.tokens, S) \in 0 .. MaxTotal
    BY SelectionAssumption
  <1> QED
    BY <1>1, <1>2, SelectionAssumption DEF Weight

LEMMA RequestFields ==
    ASSUME request \in Request
    PROVE  /\ request.tokens \in [Frags -> Nat]
           /\ request.forms \in [Frags -> SUBSET Form]
           /\ request.pinned \subseteq Frags
           /\ request.precise \subseteq Frags
           /\ request.relevant \subseteq Frags
           /\ request.budget \in Nat
           /\ request.ios \in BOOLEAN
  BY DEF Request

LEMMA LeftIsNat ==
    ASSUME request \in Request, used \in Int
    PROVE  /\ Left(used) \in Nat
           /\ Left(used) > 0 => Left(used) = request.budget - used
           /\ Left(used) = 0 => request.budget - used <= 0
  BY RequestFields DEF Left

LEMMA SelectionInitHolds == SelectionInit => SelectionInv
  <1> SUFFICES ASSUME SelectionInit PROVE SelectionInv
    OBVIOUS
  <1>1. request \in Request
    BY SelectionAssumption DEF SelectionInit
  <1>2. DOMAIN brief = {}
    BY DEF SelectionInit
  <1>3. SelectionTypeOK
    BY <1>1, <1>2 DEF SelectionInit, SelectionTypeOK
  <1>4. CountsAreBounded
    BY DEF SelectionInit, CountsAreBounded
  <1>5. SpentWithSwap
    BY <1>1, RequestFields DEF SelectionInit, SpentWithSwap
  <1> QED
    BY <1>2, <1>3, <1>4, <1>5
       DEF SelectionInit, SelectionInv, Staged, NoUpgradeFits, TriedNoLongerFit,
           NothingLeftFits
-----------------------------------------------------------------------------
\* The passes before the greedy loop.
LEMMA PinPreciseStep == SelectionInv /\ PinPrecise => SelectionInv'
  <1> SUFFICES ASSUME SelectionInv, PinPrecise PROVE SelectionInv'
    OBVIOUS
  <1> USE DEF SelectionInv, PinPrecise
  <1>1. request \in Request
    BY DEF SelectionTypeOK
  <1>2. PICK S \in SUBSET request.precise :
           request' = [request EXCEPT !.pinned = @ \cup S]
    OBVIOUS
  <1>3. /\ request'.tokens = request.tokens /\ request'.forms = request.forms
        /\ request'.budget = request.budget
    BY <1>1, <1>2 DEF Request
  <1>4. request'.ios = request.ios
    BY <1>1, <1>2, Zenon DEF Request
  <1>5. request.pinned \cup S \in SUBSET Frags
    BY <1>1, RequestFields
  <1>6. request' \in Request
    BY <1>1, <1>2, <1>5 DEF Request
  <1>7. SelectionTypeOK'
    BY <1>3, <1>6 DEF SelectionTypeOK
  <1>8. CountsAreBounded'
    BY <1>3 DEF CountsAreBounded
  <1>9. Staged'
    BY <1>4 DEF Staged
  <1>10. SpentWithSwap' /\ NoUpgradeFits'
    BY <1>3, <1>4 DEF SpentWithSwap, NoUpgradeFits
  <1> QED
    BY <1>7, <1>8, <1>9, <1>10 DEF TriedNoLongerFit, NothingLeftFits

LEMMA PinStep == SelectionInv /\ Pin => SelectionInv'
  <1> SUFFICES ASSUME SelectionInv, Pin PROVE SelectionInv'
    OBVIOUS
  <1> USE DEF SelectionInv, Pin
  <1>1. request \in Request /\ request' = request
    BY DEF SelectionTypeOK
  <1>2. PICK S \in SUBSET request.pinned :
           /\ Weight(S) \in 0 .. PinCap
           /\ full' = S
           /\ used' = Weight(S)
    BY DEF FilledFrom
  <1>3. used' \in Nat /\ used' <= request.budget
    BY <1>1, <1>2, RequestFields DEF PinCap
  <1>4. DOMAIN brief = {} /\ request.ios /\ explored = {}
    BY DEF Staged
  <1>5. SelectionTypeOK'
    BY <1>1, <1>2, <1>3, <1>4, RequestFields DEF SelectionTypeOK
  <1>6. CountsAreBounded'
    BY <1>1 DEF CountsAreBounded
  <1>7. Staged' /\ NoUpgradeFits'
    BY <1>1, <1>4 DEF Staged, NoUpgradeFits
  <1>8. SpentWithSwap'
    BY <1>1, <1>3, <1>4, RequestFields DEF SpentWithSwap
  <1> QED
    BY <1>5, <1>6, <1>7, <1>8 DEF TriedNoLongerFit, NothingLeftFits

LEMMA KnapsackStep == SelectionInv /\ Knapsack => SelectionInv'
  <1> SUFFICES ASSUME SelectionInv, Knapsack PROVE SelectionInv'
    OBVIOUS
  <1> USE DEF SelectionInv, Knapsack
  <1>1. request \in Request /\ request' = request
    BY DEF SelectionTypeOK
  <1>2. PICK S \in SUBSET request.relevant :
           /\ full' = request.pinned \cup S
           /\ used' = Weight(request.pinned) + Weight(S)
    OBVIOUS
  <1>3. used' \in Nat
    BY <1>1, <1>2, RequestFields, WeightIsNat
  <1>4. DOMAIN brief = {} /\ ~request.ios /\ explored = {}
    BY DEF Staged
  <1>5. SelectionTypeOK'
    BY <1>1, <1>2, <1>3, <1>4, RequestFields DEF SelectionTypeOK
  <1>6. CountsAreBounded'
    BY <1>1 DEF CountsAreBounded
  <1>7. Staged' /\ NoUpgradeFits' /\ SpentWithSwap'
    BY <1>1, <1>4 DEF Staged, NoUpgradeFits, SpentWithSwap
  <1> QED
    BY <1>5, <1>6, <1>7 DEF TriedNoLongerFit, NothingLeftFits
-----------------------------------------------------------------------------
\* The greedy loop of ios_select.  Tokens are spent on f, whole or in a form.
LEMMA FillWholeStep == SelectionInv /\ FillWhole => SelectionInv'
  <1> SUFFICES ASSUME SelectionInv, FillWhole PROVE SelectionInv'
    OBVIOUS
  <1> USE DEF SelectionInv, FillWhole
  <1>1. request \in Request /\ request' = request /\ used \in Int
    BY DEF SelectionTypeOK
  <1>2. DOMAIN brief = {} /\ request.ios /\ explored = {}
    BY DEF Staged
  <1>3. used' \in Int /\ used' <= request.budget
    BY <1>1, LeftIsNat, RequestFields
  <1>4. SelectionTypeOK'
    BY <1>1, <1>2, <1>3, RequestFields DEF SelectionTypeOK, Candidates
  <1>5. CountsAreBounded'
    BY <1>1 DEF CountsAreBounded
  <1>6. Staged' /\ NoUpgradeFits'
    BY <1>1, <1>2 DEF Staged, NoUpgradeFits
  <1>7. SpentWithSwap'
    BY <1>1, <1>2, <1>3, RequestFields DEF SpentWithSwap
  <1> QED
    BY <1>4, <1>5, <1>6, <1>7 DEF TriedNoLongerFit, NothingLeftFits

LEMMA TakeFullStep ==
    ASSUME NEW f \in Frags, SelectionInv, TakeFull(f)
    PROVE  SelectionInv'
  <1> USE DEF SelectionInv, TakeFull, Fill
  <1>1. request \in Request /\ request' = request /\ used \in Int
    BY DEF SelectionTypeOK
  <1>2. request.ios /\ explored = {}
    BY DEF Staged
  <1>3. f \notin DOMAIN brief /\ request.tokens[f] \in Nat \ {0}
    BY <1>1, RequestFields DEF Open, Candidates, Selected
  <1>4. used' \in Int /\ used' > used /\ used' <= request.budget
    BY <1>1, <1>3, LeftIsNat, RequestFields
  <1>5. SelectionTypeOK'
    BY <1>1, <1>3, <1>4 DEF SelectionTypeOK
  <1>6. CountsAreBounded'
    BY <1>1 DEF CountsAreBounded
  <1>7. Staged'
    BY <1>1, <1>2 DEF Staged
  <1>8. SpentWithSwap'
    BY <1>1, <1>2, <1>4, RequestFields DEF SpentWithSwap
  <1>9. NoUpgradeFits'
    <2> SUFFICES ASSUME NEW g \in DOMAIN brief
                 PROVE  request.tokens[g] - brief[g].cost > request.budget - used'
      BY <1>1 DEF NoUpgradeFits
    <2>1. request.tokens[g] - brief[g].cost > request.budget - used
      BY <1>2 DEF NoUpgradeFits
    <2>2. brief[g].cost \in Nat /\ request.tokens[g] \in Nat
      BY <1>1, RequestFields DEF SelectionTypeOK, Form
    <2> QED
      BY <2>1, <2>2, <1>1, <1>4, RequestFields
  <1> QED
    BY <1>5, <1>6, <1>7, <1>8, <1>9 DEF TriedNoLongerFit, NothingLeftFits

LEMMA TakeLowerStep ==
    ASSUME NEW f \in Frags, NEW form \in request.forms[f], SelectionInv, TakeLower(f, form)
    PROVE  SelectionInv'
  <1> USE DEF SelectionInv, TakeLower, Fill
  <1>1. request \in Request /\ request' = request /\ used \in Int
    BY DEF SelectionTypeOK
  <1>2. request.ios /\ explored = {}
    BY DEF Staged
  <1>3. f \notin full /\ f \notin DOMAIN brief
    BY DEF Open, Candidates, Selected
  <1>4. form \in Form /\ form.cost \in Nat /\ request.tokens[f] \in Nat
    BY <1>1, RequestFields DEF Form
  <1>5. used' \in Int /\ used' >= used /\ used' <= request.budget
    BY <1>1, <1>4, LeftIsNat, RequestFields
  <1>6. /\ DOMAIN brief' = DOMAIN brief \cup {f}
        /\ brief'[f] = form
        /\ \A g \in DOMAIN brief : brief'[g] = brief[g]
    BY <1>3 DEF With
  <1>7. SelectionTypeOK'
    BY <1>1, <1>3, <1>5, <1>6 DEF SelectionTypeOK
  <1>8. CountsAreBounded'
    BY <1>1 DEF CountsAreBounded
  <1>9. Staged'
    BY <1>1, <1>2 DEF Staged
  <1>10. SpentWithSwap'
    BY <1>1, <1>2, <1>5, RequestFields DEF SpentWithSwap
  <1>11. NoUpgradeFits'
    <2> SUFFICES ASSUME NEW g \in DOMAIN brief \cup {f}
                 PROVE  request.tokens[g] - brief'[g].cost > request.budget - used'
      BY <1>1, <1>6 DEF NoUpgradeFits
    <2>1. CASE g = f
      BY <2>1, <1>1, <1>4, <1>6, LeftIsNat, RequestFields
    <2>2. CASE g \in DOMAIN brief
      <3>1. request.tokens[g] - brief[g].cost > request.budget - used
        BY <1>2, <2>2 DEF NoUpgradeFits
      <3>2. brief[g].cost \in Nat /\ request.tokens[g] \in Nat
        BY <1>1, <2>2, RequestFields DEF SelectionTypeOK, Form
      <3> QED
        BY <3>1, <3>2, <2>2, <1>1, <1>5, <1>6, RequestFields
    <2> QED
      BY <2>1, <2>2
  <1> QED
    BY <1>7, <1>8, <1>9, <1>10, <1>11 DEF TriedNoLongerFit, NothingLeftFits

LEMMA FillDoneStep == SelectionInv /\ FillDone => SelectionInv'
  <1> SUFFICES ASSUME SelectionInv, FillDone PROVE SelectionInv'
    OBVIOUS
  <1> USE DEF SelectionInv, FillDone
  <1>1. request.ios /\ explored = {}
    BY DEF Staged
  <1>2. SelectionTypeOK' /\ CountsAreBounded'
    BY DEF SelectionTypeOK, CountsAreBounded
  <1>3. Staged' /\ SpentWithSwap' /\ NoUpgradeFits'
    BY <1>1 DEF Staged, SpentWithSwap, NoUpgradeFits
  <1> QED
    BY <1>2, <1>3 DEF TriedNoLongerFit, NothingLeftFits
-----------------------------------------------------------------------------
\* Extraction, exploration and the skeletons of the legacy selector.
LEMMA ExtractStep == SelectionInv /\ Extract => SelectionInv'
  <1> SUFFICES ASSUME SelectionInv, Extract PROVE SelectionInv'
    OBVIOUS
  <1> USE DEF SelectionInv, Extract
  <1>1. SelectionTypeOK' /\ CountsAreBounded'
    BY DEF SelectionTypeOK, CountsAreBounded
  <1>2. Staged' /\ SpentWithSwap' /\ NoUpgradeFits'
    BY DEF Staged, SpentWithSwap, NoUpgradeFits
  <1> QED
    BY <1>1, <1>2 DEF TriedNoLongerFit, NothingLeftFits

LEMMA ExploreStep ==
    ASSUME NEW old \in full \ request.pinned,
           NEW new \in Frags \ (Selected \cup request.pinned),
           SelectionInv, Explore(old, new)
    PROVE  SelectionInv'
  <1> USE DEF SelectionInv, Explore, AfterExplore
  <1>1. request \in Request /\ request' = request /\ used \in Int
    BY DEF SelectionTypeOK
  <1>2. request.tokens[old] \in Nat /\ request.tokens[new] \in Nat
    BY <1>1, RequestFields DEF SelectionTypeOK
  <1>3. used' \in Int /\ used' <= used + Slack
    BY <1>1, <1>2, SelectionAssumption
  <1>4. SelectionTypeOK'
    BY <1>1, <1>3 DEF SelectionTypeOK, Selected
  <1>5. CountsAreBounded'
    BY <1>1 DEF CountsAreBounded
  <1>6. Staged' /\ NoUpgradeFits'
    BY <1>1 DEF Staged, NoUpgradeFits
  <1>7. SpentWithSwap'
    <2> SUFFICES ASSUME request.ios PROVE used' <= request.budget + Slack
      BY <1>1 DEF SpentWithSwap
    <2>1. used <= request.budget
      BY <1>1, RequestFields DEF Staged, SpentWithSwap
    <2> QED
      BY <2>1, <1>1, <1>3, RequestFields, SelectionAssumption
  <1> QED
    BY <1>4, <1>5, <1>6, <1>7 DEF TriedNoLongerFit, NothingLeftFits

LEMMA NoExploreStep == SelectionInv /\ NoExplore => SelectionInv'
  <1> SUFFICES ASSUME SelectionInv, NoExplore PROVE SelectionInv'
    OBVIOUS
  <1> USE DEF SelectionInv, NoExplore, AfterExplore
  <1>1. SelectionTypeOK' /\ CountsAreBounded'
    BY DEF SelectionTypeOK, CountsAreBounded
  <1>2. Staged' /\ SpentWithSwap' /\ NoUpgradeFits'
    BY DEF Staged, SpentWithSwap, NoUpgradeFits
  <1> QED
    BY <1>1, <1>2 DEF TriedNoLongerFit, NothingLeftFits

LEMMA SubstituteStep ==
    ASSUME NEW f \in Frags, NEW form \in request.forms[f],
           SelectionInv, Substitute(f, form)
    PROVE  SelectionInv'
  <1> USE DEF SelectionInv, Substitute
  <1>1. request \in Request /\ request' = request /\ used \in Int
    BY DEF SelectionTypeOK
  <1>2. ~request.ios /\ f \notin full /\ f \notin DOMAIN brief
    BY DEF Staged, Selected
  <1>3. form.cost \in Nat
    BY <1>1, RequestFields DEF Form
  <1>4. /\ DOMAIN brief' = DOMAIN brief \cup {f}
        /\ brief'[f] = form
        /\ \A g \in DOMAIN brief : brief'[g] = brief[g]
    BY <1>2 DEF With
  <1>5. SelectionTypeOK'
    BY <1>1, <1>2, <1>3, <1>4 DEF SelectionTypeOK
  <1>6. CountsAreBounded'
    BY <1>1 DEF CountsAreBounded
  <1>7. Staged' /\ SpentWithSwap' /\ NoUpgradeFits'
    BY <1>1, <1>2 DEF Staged, SpentWithSwap, NoUpgradeFits
  <1> QED
    BY <1>5, <1>6, <1>7 DEF TriedNoLongerFit, NothingLeftFits

LEMMA SubstituteDoneStep == SelectionInv /\ SubstituteDone => SelectionInv'
  <1> SUFFICES ASSUME SelectionInv, SubstituteDone PROVE SelectionInv'
    OBVIOUS
  <1> USE DEF SelectionInv, SubstituteDone
  <1>1. SelectionTypeOK' /\ CountsAreBounded'
    BY DEF SelectionTypeOK, CountsAreBounded
  <1>2. Staged' /\ SpentWithSwap' /\ NoUpgradeFits'
    BY DEF Staged, SpentWithSwap, NoUpgradeFits
  <1> QED
    BY <1>1, <1>2 DEF TriedNoLongerFit, NothingLeftFits
-----------------------------------------------------------------------------
\* The trailing pass.
LEMMA MeasureGapStep == SelectionInv /\ MeasureGap => SelectionInv'
  <1> SUFFICES ASSUME SelectionInv, MeasureGap PROVE SelectionInv'
    OBVIOUS
  <1> USE DEF SelectionInv, MeasureGap
  <1>1. request \in Request /\ request' = request /\ used \in Int
    BY DEF SelectionTypeOK
  <1>2. SelectionTypeOK' /\ CountsAreBounded'
    BY DEF SelectionTypeOK, CountsAreBounded
  <1>3. Staged' /\ SpentWithSwap' /\ NoUpgradeFits'
    BY DEF Staged, SpentWithSwap, NoUpgradeFits
  <1>4. TriedNoLongerFit'
    <2>1. Selected' = Selected
      BY DEF Selected
    <2>2. queue' \cap Selected = {}
      OBVIOUS
    <2>3. ASSUME NEW f \in Frags \ (Selected \cup queue'), request.tokens[f] > 0
          PROVE  request.tokens[f] > request.budget - used
      <3>1. request.tokens[f] \in Nat /\ request.tokens[f] \notin 1 .. Left(used)
        BY <1>1, RequestFields, <2>3
      <3> QED
        BY <3>1, <2>3, <1>1, LeftIsNat, RequestFields
    <2> QED
      BY <1>1, <2>1, <2>2, <2>3 DEF TriedNoLongerFit
  <1> QED
    BY <1>2, <1>3, <1>4 DEF NothingLeftFits

LEMMA TrailStep ==
    ASSUME NEW f \in Frags, SelectionInv, Trail(f)
    PROVE  SelectionInv'
  <1> USE DEF SelectionInv, Trail
  <1>1. request \in Request /\ request' = request /\ used \in Int
    BY DEF SelectionTypeOK
  <1>2. f \notin Selected /\ request.tokens[f] \in Nat
    BY <1>1, RequestFields DEF TriedNoLongerFit
  <1>3. used' \in Int /\ used' >= used
    BY <1>1, <1>2
  <1>4. used' = used \/ used' <= request.budget \/ request.tokens[f] = 0
    BY <1>1, <1>2, LeftIsNat, RequestFields
  <1>5. SelectionTypeOK'
    BY <1>1, <1>2, <1>3 DEF SelectionTypeOK, Selected
  <1>6. CountsAreBounded'
    BY <1>1 DEF CountsAreBounded
  <1>7. Staged'
    BY <1>1 DEF Staged
  <1>8. SpentWithSwap'
    <2>1. CASE used' = used
      BY <2>1, <1>1 DEF SpentWithSwap
    <2>2. CASE used' <= request.budget
      BY <2>2, <1>1, <1>3, RequestFields, SelectionAssumption DEF SpentWithSwap
    <2>3. CASE request.tokens[f] = 0
      BY <2>3, <1>1 DEF SpentWithSwap
    <2> QED
      BY <2>1, <2>2, <2>3, <1>4
  <1>9. NoUpgradeFits'
    <2> SUFFICES ASSUME request.ios, explored = {}, NEW g \in DOMAIN brief
                 PROVE  request.tokens[g] - brief[g].cost > request.budget - used'
      BY <1>1 DEF NoUpgradeFits
    <2>1. request.tokens[g] - brief[g].cost > request.budget - used
      BY DEF NoUpgradeFits
    <2>2. brief[g].cost \in Nat /\ request.tokens[g] \in Nat
      BY <1>1, RequestFields DEF SelectionTypeOK, Form
    <2> QED
      BY <2>1, <2>2, <1>1, <1>3, RequestFields
  <1>10. TriedNoLongerFit'
    <2>1. Selected' = Selected \/ Selected' = Selected \cup {f}
      BY DEF Selected
    <2>2. queue' \cap Selected' = {}
      BY <2>1 DEF TriedNoLongerFit
    <2>3. ASSUME NEW g \in Frags \ (Selected' \cup queue'), request.tokens[g] > 0
          PROVE  request.tokens[g] > request.budget - used'
      <3>1. request.tokens[g] \in Nat
        BY <1>1, RequestFields
      <3>2. CASE g = f
        <4>1. request.tokens[f] > Left(used) /\ used' = used
          BY <1>1, <1>2, <2>3, <3>2, LeftIsNat DEF Selected
        <4> QED
          BY <3>1, <3>2, <4>1, <1>1, LeftIsNat, RequestFields
      <3>3. CASE g # f
        <4>1. request.tokens[g] > request.budget - used
          BY <2>1, <2>3, <3>3 DEF TriedNoLongerFit
        <4> QED
          BY <3>1, <4>1, <1>1, <1>3, RequestFields
      <3> QED
        BY <3>2, <3>3
    <2> QED
      BY <1>1, <2>2, <2>3 DEF TriedNoLongerFit
  <1> QED
    BY <1>5, <1>6, <1>7, <1>8, <1>9, <1>10 DEF NothingLeftFits

LEMMA TrailDoneStep == SelectionInv /\ TrailDone => SelectionInv'
  <1> SUFFICES ASSUME SelectionInv, TrailDone PROVE SelectionInv'
    OBVIOUS
  <1> USE DEF SelectionInv, TrailDone
  <1>1. request \in Request /\ request' = request /\ used \in Int
    BY DEF SelectionTypeOK
  <1>2. SelectionTypeOK' /\ CountsAreBounded'
    BY DEF SelectionTypeOK, CountsAreBounded
  <1>3. Staged' /\ SpentWithSwap' /\ NoUpgradeFits'
    BY DEF Staged, SpentWithSwap, NoUpgradeFits
  <1>4. NothingLeftFits'
    <2>1. Selected' = Selected
      BY DEF Selected
    <2>2. ASSUME NEW f \in Frags \ Selected, request.tokens[f] > 0
          PROVE  request.tokens[f] > request.budget - used
      <3>1. CASE queue = {}
        BY <2>2, <3>1 DEF TriedNoLongerFit
      <3>2. CASE Left(used) = 0
        BY <2>2, <3>2, <1>1, LeftIsNat, RequestFields
      <3> QED
        BY <3>1, <3>2
    <2> QED
      BY <1>1, <2>1, <2>2 DEF NothingLeftFits
  <1> QED
    BY <1>2, <1>3, <1>4 DEF TriedNoLongerFit
-----------------------------------------------------------------------------
LEMMA SelectionInvIsInductive ==
    SelectionInv /\ [SelectionNext]_selectionVars => SelectionInv'
  <1> SUFFICES ASSUME SelectionInv, [SelectionNext]_selectionVars
               PROVE  SelectionInv'
    OBVIOUS
  <1>1. CASE UNCHANGED selectionVars
    BY <1>1 DEF SelectionInv, selectionVars, SelectionTypeOK, CountsAreBounded, Staged,
        SpentWithSwap, NoUpgradeFits, TriedNoLongerFit, NothingLeftFits, Selected
  <1>2. CASE PinPrecise \/ Pin \/ Knapsack
    BY <1>2, PinPreciseStep, PinStep, KnapsackStep
  <1>3. CASE FillWhole \/ FillDone \/ Extract
    BY <1>3, FillWholeStep, FillDoneStep, ExtractStep
  <1>4. CASE \E f \in Frags : TakeFull(f)
    BY <1>4, TakeFullStep
  <1>5. CASE \E f \in Frags : \E form \in request.forms[f] : TakeLower(f, form)
    BY <1>5, TakeLowerStep
  <1>6. CASE ExploreAny \/ NoExplore
    BY <1>6, ExploreStep, NoExploreStep DEF ExploreAny
  <1>7. CASE \E f \in Frags : \E form \in request.forms[f] : Substitute(f, form)
    BY <1>7, SubstituteStep
  <1>8. CASE SubstituteDone \/ MeasureGap \/ TrailDone
    BY <1>8, SubstituteDoneStep, MeasureGapStep, TrailDoneStep
  <1>9. CASE \E f \in Frags : Trail(f)
    BY <1>9, TrailStep
  <1> QED
    BY <1>1, <1>2, <1>3, <1>4, <1>5, <1>6, <1>7, <1>8, <1>9 DEF SelectionNext

LEMMA SelectionInvHolds == SelectionSpec => []SelectionInv
  BY SelectionInitHolds, SelectionInvIsInductive, PTL DEF SelectionSpec

\* The selection is well typed, and no fragment is selected both in full and at a
\* lower resolution, whatever the passes of optimize choose.
THEOREM SelectionStaysTyped == SelectionSpec => []SelectionTypeOK
  <1>1. SelectionInv => SelectionTypeOK
    BY DEF SelectionInv
  <1> QED
    BY <1>1, SelectionInvHolds, PTL

\* What ios_select and the passes after it count as used stays within the budget
\* in every call that explores nothing.
THEOREM SpendingStaysWithinBudget == SelectionSpec => []SpentWithinBudget
  <1>1. SelectionInv => SpentWithinBudget
    BY RequestFields DEF SelectionInv, SelectionTypeOK, SpentWithSwap, SpentWithinBudget
  <1> QED
    BY <1>1, SelectionInvHolds, PTL

\* A fragment that ios_select gives in a lower form would not fit whole in what
\* is left when the call ends.
THEOREM FullDominatesToTheEnd == SelectionSpec => []NoUpgradeFits
  <1>1. SelectionInv => NoUpgradeFits
    BY DEF SelectionInv
  <1> QED
    BY <1>1, SelectionInvHolds, PTL

\* channel_trailing_pass, trying every candidate once, leaves none that fits.
THEOREM TrailingPassLeavesNoRoom == SelectionSpec => []NothingLeftFits
  <1>1. SelectionInv => NothingLeftFits
    BY DEF SelectionInv
  <1> QED
    BY <1>1, SelectionInvHolds, PTL
-----------------------------------------------------------------------------
(***************************************************************************)
(* Totals.  Total is a fold over a set, in an order that is left open.     *)
(* What it adds up follows from the equation the fold solves, which has a  *)
(* solution for every finite set and only one.  Sets of counterexamples    *)
(* stand in for induction: a set of finite sets has a smallest one.        *)
(***************************************************************************)
\* The equation of the fold behind Total.
Adds(g, t, S) ==
    g = [s \in SUBSET S |->
            IF s = {} THEN 0
            ELSE t[CHOOSE x \in s : TRUE] + g[s \ {CHOOSE x \in s : TRUE}]]

LEMMA TotalIsFold ==
    ASSUME NEW t, NEW S
    PROVE  Total(t, S) = (CHOOSE g : Adds(g, t, S))[S]
  BY DEF Total, FoldFunctionOnSet, MapThenFoldSet, Adds

LEMMA SmallestSubset ==
    ASSUME NEW S, IsFiniteSet(S), NEW T \in SUBSET SUBSET S, T # {}
    PROVE  \E s \in T : \A r \in T : r \subseteq s => r = s
  <1> DEFINE R == StrictSubsetOrdering(S)
  <1>1. IsWellFoundedOn(R, FiniteSubsetsOf(S))
    BY FS_StrictSubsetOrderingWellFounded
  <1>2. T \subseteq FiniteSubsetsOf(S)
    BY FS_Subset DEF FiniteSubsetsOf
  <1>3. PICK s \in T : \A r \in T : <<r, s>> \notin R
    <2> HIDE DEF R
    <2> QED BY <1>1, <1>2, WFMin
  <1> QED
    BY <1>3 DEF StrictSubsetOrdering

\* A solution of the equation for a set is one for its subsets too, and there is
\* only one.
LEMMA FoldsAgree ==
    ASSUME NEW t, NEW S, IsFiniteSet(S), NEW R \in SUBSET S, NEW g, NEW h,
           Adds(g, t, S), Adds(h, t, R)
    PROVE  g[R] = h[R]
  <1> DEFINE T == {s \in SUBSET R : g[s] # h[s]}
  <1>1. SUFFICES ASSUME T # {} PROVE FALSE
    OBVIOUS
  <1>2. IsFiniteSet(R)
    BY FS_Subset
  <1>3. PICK s \in T : \A r \in T : r \subseteq s => r = s
    <2> T \in SUBSET SUBSET R
      OBVIOUS
    <2> HIDE DEF T
    <2> QED BY <1>1, <1>2, SmallestSubset
  <1>4. s \in SUBSET R /\ s \in SUBSET S /\ g[s] # h[s]
    OBVIOUS
  <1>5. CASE s = {}
    BY <1>4, <1>5 DEF Adds
  <1>6. CASE s # {}
    <2> DEFINE c == CHOOSE x \in s : TRUE
               r == s \ {c}
    <2>1. c \in s
      BY <1>6
    <2>2. r \in SUBSET R /\ r \in SUBSET S /\ r # s
      BY <1>4, <2>1
    <2>3. r \notin T
      BY <1>3, <2>2
    <2>4. g[r] = h[r]
      BY <2>2, <2>3
    <2>5. g[s] = t[c] + g[r] /\ h[s] = t[c] + h[r]
      BY <1>4, <1>6 DEF Adds
    <2> QED
      BY <1>4, <2>4, <2>5
  <1> QED
    BY <1>5, <1>6

LEMMA FoldExists ==
    ASSUME NEW t, NEW S, IsFiniteSet(S)
    PROVE  \E g : Adds(g, t, S)
  <1> DEFINE T == {s \in SUBSET S : ~\E g : Adds(g, t, s)}
  <1>1. SUFFICES ASSUME T # {} PROVE FALSE
    OBVIOUS
  <1>2. PICK s \in T : \A r \in T : r \subseteq s => r = s
    <2> T \in SUBSET SUBSET S
      OBVIOUS
    <2> HIDE DEF T
    <2> QED BY <1>1, SmallestSubset
  <1>3. s \in SUBSET S /\ IsFiniteSet(s)
    BY FS_Subset
  <1> DEFINE G(r) == (CHOOSE g : Adds(g, t, r))[r]
             c(r) == CHOOSE x \in r : TRUE
             h == [r \in SUBSET s |-> IF r = {} THEN 0 ELSE t[c(r)] + G(r \ {c(r)})]
  <1>4. ASSUME NEW r \in SUBSET s, r # s
        PROVE  Adds(CHOOSE g : Adds(g, t, r), t, r)
    <2>1. r \notin T
      BY <1>2, <1>4
    <2>2. \E g : Adds(g, t, r)
      BY <1>3, <2>1
    <2> QED
      BY <2>2
  <1>5. ASSUME NEW r \in SUBSET s, r # s
        PROVE  h[r] = G(r)
    <2> DEFINE g == CHOOSE g : Adds(g, t, r)
               q == r \ {c(r)}
    <2>1. Adds(g, t, r)
      BY <1>4, <1>5
    <2>2. CASE r = {}
      BY <2>1, <2>2 DEF Adds
    <2>3. CASE r # {}
      <3>1. c(r) \in r /\ q \in SUBSET r /\ q \in SUBSET s /\ q # s
        BY <2>3
      <3>2. Adds(CHOOSE f : Adds(f, t, q), t, q)
        BY <1>4, <3>1
      <3>3. IsFiniteSet(r)
        BY <1>3, FS_Subset
      <3>4. g[q] = G(q)
        <4> HIDE DEF g, q
        <4> QED BY <3>1, <3>2, <3>3, <2>1, FoldsAgree
      <3>5. g[r] = t[c(r)] + g[q]
        BY <2>1, <2>3 DEF Adds
      <3>6. h[r] = t[c(r)] + G(q)
        BY <2>3
      <3> QED
        BY <3>4, <3>5, <3>6
    <2> QED
      BY <2>2, <2>3
  <1>6. Adds(h, t, s)
    <2>1. ASSUME NEW r \in SUBSET s, r # {}
          PROVE  G(r \ {c(r)}) = h[r \ {c(r)}]
      <3>1. c(r) \in r
        BY <2>1
      <3>2. r \ {c(r)} \in SUBSET s /\ r \ {c(r)} # s
        BY <3>1
      <3> HIDE DEF G, h, c
      <3> QED BY <3>2, <1>5
    <2>2. h = [r \in SUBSET s |-> IF r = {} THEN 0 ELSE t[c(r)] + h[r \ {c(r)}]]
      <3> DEFINE k == [r \in SUBSET s |-> IF r = {} THEN 0 ELSE t[c(r)] + h[r \ {c(r)}]]
      <3>1. ASSUME NEW r \in SUBSET s
            PROVE  h[r] = k[r]
        <4>1. CASE r = {}
          BY <4>1
        <4>2. CASE r # {}
          <5>1. h[r] = t[c(r)] + G(r \ {c(r)})
            BY <4>2
          <5>2. k[r] = t[c(r)] + h[r \ {c(r)}]
            BY <4>2
          <5>3. G(r \ {c(r)}) = h[r \ {c(r)}]
            BY <2>1, <4>2
          <5> HIDE DEF G, h, k, c
          <5> QED
            BY <5>1, <5>2, <5>3
        <4> QED
          BY <4>1, <4>2
      <3> QED
        BY <3>1
    <2> QED
      BY <2>2 DEF Adds
  <1> QED
    BY <1>6

\* What Total does, in the terms of its own choice.
LEMMA TotalUnfolds ==
    ASSUME NEW t, NEW S, IsFiniteSet(S)
    PROVE  Total(t, S) = IF S = {} THEN 0
                         ELSE t[CHOOSE x \in S : TRUE] + Total(t, S \ {CHOOSE x \in S : TRUE})
  <1> DEFINE g == CHOOSE g : Adds(g, t, S)
             c == CHOOSE x \in S : TRUE
             h == CHOOSE h : Adds(h, t, S \ {c})
  <1>1. Adds(g, t, S)
    BY FoldExists
  <1>2. Total(t, S) = g[S]
    BY TotalIsFold
  <1>3. CASE S = {}
    BY <1>1, <1>2, <1>3 DEF Adds
  <1>4. CASE S # {}
    <2>1. IsFiniteSet(S \ {c}) /\ S \ {c} \in SUBSET S
      BY FS_Subset
    <2>2. Adds(h, t, S \ {c})
      BY <2>1, FoldExists
    <2>3. g[S \ {c}] = h[S \ {c}]
      <3> HIDE DEF g, h, c
      <3> QED BY <1>1, <2>1, <2>2, FoldsAgree
    <2>4. g[S] = t[c] + g[S \ {c}]
      BY <1>1, <1>4 DEF Adds
    <2>5. Total(t, S \ {c}) = h[S \ {c}]
      BY TotalIsFold
    <2> QED
      BY <1>2, <1>4, <2>3, <2>4, <2>5
  <1> QED
    BY <1>3, <1>4

LEMMA TotalOfNone ==
    ASSUME NEW t
    PROVE  Total(t, {}) = 0
  BY FS_EmptySet, TotalUnfolds

\* A total is that of the rest and the count of one, whichever one it is.
LEMMA TotalTakesOne ==
    ASSUME NEW t, NEW S, IsFiniteSet(S), \A x \in S : t[x] \in Int
    PROVE  /\ Total(t, S) \in Int
           /\ \A x \in S : Total(t, S) = t[x] + Total(t, S \ {x})
  <1> DEFINE Good(s) == /\ Total(t, s) \in Int
                        /\ \A x \in s : Total(t, s) = t[x] + Total(t, s \ {x})
             T == {s \in SUBSET S : ~Good(s)}
  <1>1. SUFFICES ASSUME T # {} PROVE FALSE
    OBVIOUS
  <1>2. PICK s \in T : \A r \in T : r \subseteq s => r = s
    <2> T \in SUBSET SUBSET S
      OBVIOUS
    <2> HIDE DEF T
    <2> QED BY <1>1, SmallestSubset
  <1>3. s \in SUBSET S /\ IsFiniteSet(s) /\ ~Good(s)
    BY FS_Subset
  <1>4. \A r \in SUBSET s : r # s => Good(r)
    BY <1>2, <1>3
  <1> DEFINE c == CHOOSE x \in s : TRUE
  <1>5. s # {}
    <2> SUFFICES Good({})
      BY <1>3
    <2> QED BY TotalOfNone
  <1>6. c \in s /\ t[c] \in Int
    BY <1>3, <1>5
  <1>7. Total(t, s) = t[c] + Total(t, s \ {c})
    BY <1>3, <1>5, TotalUnfolds
  <1>8. Good(s \ {c})
    <2> s \ {c} # s
      BY <1>6
    <2> HIDE DEF Good
    <2> QED BY <1>4
  <1>9. Total(t, s) \in Int
    BY <1>6, <1>7, <1>8
  <1>10. ASSUME NEW x \in s
         PROVE  Total(t, s) = t[x] + Total(t, s \ {x})
    <2>1. CASE x = c
      BY <1>7, <2>1
    <2>2. CASE x # c
      <3>1. Good(s \ {x})
        <4> s \ {x} # s
          OBVIOUS
        <4> HIDE DEF Good
        <4> QED BY <1>4
      <3>2. x \in s \ {c} /\ c \in s \ {x}
        BY <1>6, <2>2
      <3>3. Total(t, s \ {c}) = t[x] + Total(t, (s \ {c}) \ {x})
        BY <1>8, <3>2
      <3>4. Total(t, s \ {x}) = t[c] + Total(t, (s \ {x}) \ {c})
        BY <3>1, <3>2
      <3>5. (s \ {c}) \ {x} = (s \ {x}) \ {c}
        OBVIOUS
      <3> DEFINE rest == Total(t, (s \ {x}) \ {c})
      <3>6. t[x] \in Int
        BY <1>3
      <3>7. Good((s \ {x}) \ {c})
        <4> (s \ {x}) \ {c} # s
          OBVIOUS
        <4> HIDE DEF Good, c
        <4> QED BY <1>4
      <3>8. rest \in Int
        BY <3>7
      <3>9. Total(t, s \ {c}) = t[x] + rest /\ Total(t, s \ {x}) = t[c] + rest
        BY <3>3, <3>4, <3>5
      <3> HIDE DEF c, rest
      <3> QED
        BY <1>6, <1>7, <3>6, <3>8, <3>9
    <2> QED
      BY <2>1, <2>2
  <1> QED
    BY <1>3, <1>9, <1>10

\* Totals depend on the counts they add up and on nothing else.
LEMMA TotalsAgree ==
    ASSUME NEW t, NEW u, NEW S, IsFiniteSet(S), \A x \in S : t[x] \in Int /\ t[x] = u[x]
    PROVE  Total(t, S) = Total(u, S)
  <1> DEFINE T == {s \in SUBSET S : Total(t, s) # Total(u, s)}
  <1>1. SUFFICES ASSUME T # {} PROVE FALSE
    OBVIOUS
  <1>2. PICK s \in T : \A r \in T : r \subseteq s => r = s
    <2> T \in SUBSET SUBSET S
      OBVIOUS
    <2> HIDE DEF T
    <2> QED BY <1>1, SmallestSubset
  <1>3. s \in SUBSET S /\ IsFiniteSet(s) /\ Total(t, s) # Total(u, s)
    BY <1>2, FS_Subset
  <1>4. s # {}
    BY <1>3, TotalOfNone
  <1>5. PICK x \in s : TRUE
    BY <1>4
  <1>6. s \ {x} \in SUBSET S /\ s \ {x} \subseteq s /\ s \ {x} # s
    BY <1>3
  <1>7. Total(t, s \ {x}) = Total(u, s \ {x})
    BY <1>2, <1>6
  <1>8. \A y \in s : t[y] \in Int /\ u[y] \in Int /\ t[y] = u[y]
    BY <1>3
  <1>9. Total(t, s) = t[x] + Total(t, s \ {x}) /\ Total(u, s) = u[x] + Total(u, s \ {x})
    BY <1>3, <1>8, TotalTakesOne
  <1> QED
    BY <1>3, <1>7, <1>8, <1>9

\* The total of two sets that are disjoint.
LEMMA TotalOfBoth ==
    ASSUME NEW t, NEW R, NEW S, IsFiniteSet(R), IsFiniteSet(S), R \cap S = {},
           \A x \in R \cup S : t[x] \in Int
    PROVE  Total(t, R \cup S) = Total(t, R) + Total(t, S)
  <1> DEFINE T == {s \in SUBSET S : Total(t, R \cup s) # Total(t, R) + Total(t, s)}
  <1>1. SUFFICES ASSUME T # {} PROVE FALSE
    OBVIOUS
  <1>2. PICK s \in T : \A r \in T : r \subseteq s => r = s
    <2> T \in SUBSET SUBSET S
      OBVIOUS
    <2> HIDE DEF T
    <2> QED BY <1>1, SmallestSubset
  <1>3. /\ s \in SUBSET S /\ IsFiniteSet(s)
        /\ Total(t, R \cup s) # Total(t, R) + Total(t, s)
    BY <1>2, FS_Subset
  <1>4. Total(t, R) \in Int
    BY TotalTakesOne
  <1>5. s # {}
    <2> R \cup {} = R
      OBVIOUS
    <2> QED BY <1>3, <1>4, TotalOfNone
  <1>6. PICK x \in s : TRUE
    BY <1>5
  <1> DEFINE r == s \ {x}
  <1>7. r \in SUBSET S /\ r \subseteq s /\ r # s
    BY <1>3
  <1>8. Total(t, R \cup r) = Total(t, R) + Total(t, r)
    BY <1>2, <1>7
  <1>9. Total(t, s) = t[x] + Total(t, r) /\ t[x] \in Int
    BY <1>3, TotalTakesOne
  <1>10. Total(t, R \cup s) = t[x] + Total(t, R \cup r)
    <2>1. (R \cup s) \ {x} = R \cup r /\ x \in R \cup s
      BY <1>3
    <2>2. IsFiniteSet(R \cup s) /\ \A y \in R \cup s : t[y] \in Int
      BY <1>3, FS_Union
    <2> QED
      BY <2>1, <2>2, TotalTakesOne
  <1>11. Total(t, r) \in Int
    BY <1>3, <1>7, FS_Subset, TotalTakesOne
  <1> HIDE DEF r
  <1> QED
    BY <1>3, <1>4, <1>8, <1>9, <1>10, <1>11
-----------------------------------------------------------------------------
\* The tokens of what is selected at a lower resolution.
BriefWeight == Total([f \in DOMAIN brief |-> brief[f].cost], DOMAIN brief)

LEMMA SetsAreFinite ==
    ASSUME NEW S \in SUBSET Frags
    PROVE  IsFiniteSet(S)
  BY SelectionAssumption, FS_Subset

LEMMA WeightAdds ==
    ASSUME request \in Request, NEW R \in SUBSET Frags, NEW S \in SUBSET Frags, R \cap S = {}
    PROVE  Weight(R \cup S) = Weight(R) + Weight(S)
  <1>1. \A f \in R \cup S : request.tokens[f] \in Int
    BY RequestFields
  <1> QED
    BY <1>1, SetsAreFinite, TotalOfBoth DEF Weight

LEMMA WeightTakesOne ==
    ASSUME request \in Request, NEW S \in SUBSET Frags, NEW f \in Frags \ S
    PROVE  Weight(S \cup {f}) = Weight(S) + request.tokens[f] /\ Weight(S) \in Int
  <1>1. \A g \in S \cup {f} : request.tokens[g] \in Int
    BY RequestFields
  <1>2. IsFiniteSet(S \cup {f}) /\ IsFiniteSet(S)
    BY SetsAreFinite
  <1>3. (S \cup {f}) \ {f} = S
    OBVIOUS
  <1>4. Weight(S \cup {f}) = request.tokens[f] + Weight(S)
    BY <1>1, <1>2, <1>3, TotalTakesOne DEF Weight
  <1>5. request.tokens[f] \in Int /\ Weight(S) \in Int
    BY <1>1, <1>2, TotalTakesOne DEF Weight
  <1> HIDE DEF Weight
  <1> QED
    BY <1>4, <1>5

LEMMA NothingBriefWeighsNothing ==
    ASSUME DOMAIN brief = {}
    PROVE  BriefWeight = 0
  BY TotalOfNone DEF BriefWeight

\* A form more is a cost more.
LEMMA BriefWeightAdds ==
    ASSUME SelectionTypeOK, NEW f \in Frags \ DOMAIN brief, NEW form \in request.forms[f],
           brief' = With(brief, f, form)
    PROVE  BriefWeight' = BriefWeight + form.cost
  <1> DEFINE t == [g \in DOMAIN brief |-> brief[g].cost]
             u == [g \in DOMAIN brief' |-> brief'[g].cost]
  <1>1. /\ DOMAIN brief' = DOMAIN brief \cup {f}
        /\ brief'[f] = form
        /\ \A g \in DOMAIN brief : brief'[g] = brief[g]
    BY DEF With
  <1>2. form.cost \in Int /\ \A g \in DOMAIN brief : brief[g].cost \in Int
    BY RequestFields DEF SelectionTypeOK, Form
  <1>3. DOMAIN brief \in SUBSET Frags /\ DOMAIN brief \cup {f} \in SUBSET Frags
    BY DEF SelectionTypeOK
  <1>4. \A g \in DOMAIN brief \cup {f} : u[g] \in Int
    BY <1>1, <1>2
  <1>5. u[f] = form.cost /\ \A g \in DOMAIN brief : t[g] \in Int /\ t[g] = u[g]
    BY <1>1, <1>2
  <1> HIDE DEF t, u
  <1>6. Total(u, DOMAIN brief \cup {f}) = u[f] + Total(u, (DOMAIN brief \cup {f}) \ {f})
    BY <1>3, <1>4, SetsAreFinite, TotalTakesOne
  <1>7. (DOMAIN brief \cup {f}) \ {f} = DOMAIN brief
    OBVIOUS
  <1>8. Total(t, DOMAIN brief) = Total(u, DOMAIN brief) /\ Total(t, DOMAIN brief) \in Int
    BY <1>3, <1>5, SetsAreFinite, TotalsAgree, TotalTakesOne
  <1>9. BriefWeight = Total(t, DOMAIN brief)
    BY DEF BriefWeight, t
  <1>10. BriefWeight' = Total(u, DOMAIN brief \cup {f})
    BY <1>1 DEF BriefWeight, u
  <1> QED
    BY <1>2, <1>5, <1>6, <1>7, <1>8, <1>9, <1>10

LEMMA BriefWeightIsInt ==
    ASSUME SelectionTypeOK
    PROVE  BriefWeight \in Int
  <1> DEFINE t == [g \in DOMAIN brief |-> brief[g].cost]
  <1>1. \A g \in DOMAIN brief : t[g] \in Int
    BY RequestFields DEF SelectionTypeOK, Form
  <1>2. IsFiniteSet(DOMAIN brief)
    BY SetsAreFinite DEF SelectionTypeOK
  <1> QED
    BY <1>1, <1>2, TotalTakesOne DEF BriefWeight

LEMMA TallyInitHolds == SelectionInit => TallyIsExact
  <1> SUFFICES ASSUME SelectionInit PROVE TallyIsExact
    OBVIOUS
  <1>1. DOMAIN brief = {} /\ full = {} /\ used = 0
    BY DEF SelectionInit
  <1>2. BriefWeight = 0 /\ Weight(full) = 0
    BY <1>1, NothingBriefWeighsNothing, TotalOfNone DEF Weight
  <1> QED
    BY <1>1, <1>2 DEF TallyIsExact, BriefWeight

\* Nothing is selected or given up.
LEMMA TallyOfNothing ==
    ASSUME TallyIsExact, request'.tokens = request.tokens, UNCHANGED <<full, brief, used>>
    PROVE  TallyIsExact'
  BY DEF TallyIsExact, Weight

\* Another fragment goes in whole.
LEMMA TallyOfWhole ==
    ASSUME TallyIsExact, SelectionTypeOK, NEW f \in Frags \ full,
           full' = full \cup {f}, used' = used + request.tokens[f], UNCHANGED <<request, brief>>
    PROVE  TallyIsExact'
  <1>1. full \in SUBSET Frags /\ request \in Request /\ request.tokens[f] \in Int
    BY RequestFields DEF SelectionTypeOK
  <1>2. Weight(full)' = Weight(full) + request.tokens[f] /\ Weight(full) \in Int
    BY <1>1, WeightTakesOne DEF Weight
  <1>3. BriefWeight' = BriefWeight /\ BriefWeight \in Int
    BY BriefWeightIsInt DEF BriefWeight
  <1> QED
    BY <1>1, <1>2, <1>3 DEF TallyIsExact, BriefWeight

\* Another goes in at a lower resolution.
LEMMA TallyOfForm ==
    ASSUME TallyIsExact, SelectionTypeOK, NEW f \in Frags \ DOMAIN brief,
           NEW form \in request.forms[f], brief' = With(brief, f, form),
           used' = used + form.cost, UNCHANGED <<request, full>>
    PROVE  TallyIsExact'
  <1>1. full \in SUBSET Frags /\ request \in Request /\ form.cost \in Int
    BY RequestFields DEF SelectionTypeOK, Form
  <1>2. Weight(full)' = Weight(full) /\ Weight(full) \in Int
    <2>1. \A g \in full : request.tokens[g] \in Int
      BY <1>1, RequestFields
    <2> QED
      BY <1>1, <2>1, SetsAreFinite, TotalTakesOne DEF Weight
  <1>3. BriefWeight' = BriefWeight + form.cost /\ BriefWeight \in Int
    BY BriefWeightIsInt, BriefWeightAdds
  <1> QED
    BY <1>1, <1>2, <1>3 DEF TallyIsExact, BriefWeight

\* Nothing is selected at a lower resolution, and the rest is counted anew.
LEMMA TallyAnew ==
    ASSUME request'.tokens = request.tokens, DOMAIN brief = {}, brief' = brief,
           used' = Weight(full'), request \in Request, full' \in SUBSET Frags
    PROVE  TallyIsExact'
  <1>1. BriefWeight' = 0
    BY NothingBriefWeighsNothing DEF BriefWeight
  <1>2. Weight(full') \in Int
    <2>1. \A g \in full' : request.tokens[g] \in Int
      BY RequestFields
    <2> QED
      BY <2>1, SetsAreFinite, TotalTakesOne DEF Weight
  <1> QED
    BY <1>1, <1>2 DEF TallyIsExact, BriefWeight, Weight

LEMMA TallyOfKnapsack == SelectionInv /\ Knapsack => TallyIsExact'
  <1> SUFFICES ASSUME SelectionInv, Knapsack PROVE TallyIsExact'
    OBVIOUS
  <1>1. request \in Request /\ request' = request /\ DOMAIN brief = {} /\ brief' = brief
    BY DEF SelectionInv, SelectionTypeOK, Staged, Knapsack
  <1>2. PICK S \in SUBSET (request.relevant \ request.pinned) :
           /\ full' = request.pinned \cup S
           /\ used' = Weight(request.pinned) + Weight(S)
    BY DEF Knapsack
  <1>3. /\ request.pinned \in SUBSET Frags /\ S \in SUBSET Frags
        /\ request.pinned \cap S = {}
    BY <1>1, RequestFields
  <1>4. used' = Weight(full')
    BY <1>1, <1>2, <1>3, WeightAdds
  <1>5. full' \in SUBSET Frags
    BY <1>2, <1>3
  <1> QED
    BY <1>1, <1>4, <1>5, TallyAnew

LEMMA TallyOfFillWhole == SelectionInv /\ TallyIsExact /\ FillWhole => TallyIsExact'
  <1> SUFFICES ASSUME SelectionInv, TallyIsExact, FillWhole PROVE TallyIsExact'
    OBVIOUS
  <1>1. /\ request \in Request /\ request' = request /\ brief' = brief
        /\ DOMAIN brief = {} /\ full \in SUBSET Frags
    BY DEF SelectionInv, SelectionTypeOK, Staged, FillWhole
  <1>2. BriefWeight = 0
    BY <1>1, NothingBriefWeighsNothing
  <1>3. Candidates \in SUBSET Frags /\ full \cap Candidates = {}
    BY <1>1, RequestFields DEF Candidates
  <1>4. used = Weight(full)
    <2>1. \A g \in full : request.tokens[g] \in Int
      BY <1>1, RequestFields
    <2>2. Weight(full) \in Int
      BY <1>1, <2>1, SetsAreFinite, TotalTakesOne DEF Weight
    <2> QED
      BY <1>2, <2>2 DEF TallyIsExact, BriefWeight
  <1>5. used' = Weight(full')
    BY <1>1, <1>3, <1>4, WeightAdds DEF FillWhole
  <1>6. full' \in SUBSET Frags
    BY <1>1, <1>3 DEF FillWhole
  <1> QED
    BY <1>1, <1>5, <1>6, TallyAnew

\* One leaves and another takes its place.
LEMMA TallyOfExplore ==
    ASSUME SelectionInv, TallyIsExact,
           NEW old \in full \ request.pinned,
           NEW new \in Frags \ (Selected \cup request.pinned),
           Explore(old, new)
    PROVE  TallyIsExact'
  <1>1. /\ request \in Request /\ full \in SUBSET Frags /\ SelectionTypeOK
        /\ request' = request /\ brief' = brief
        /\ full' = (full \ {old}) \cup {new}
        /\ used' = used - request.tokens[old] + request.tokens[new]
    BY DEF SelectionInv, SelectionTypeOK, Explore
  <1> DEFINE rest == full \ {old}
  <1>2. /\ rest \in SUBSET Frags /\ old \in Frags \ rest /\ new \in Frags \ rest
        /\ rest \cup {old} = full
    BY <1>1 DEF Selected
  <1>3. request.tokens[old] \in Int /\ request.tokens[new] \in Int
    BY <1>1, <1>2, RequestFields
  <1>4. /\ Weight(full) = Weight(rest) + request.tokens[old]
        /\ Weight(rest \cup {new}) = Weight(rest) + request.tokens[new]
        /\ Weight(rest) \in Int
    <2> HIDE DEF rest
    <2> QED BY <1>1, <1>2, WeightTakesOne
  <1>5. BriefWeight' = BriefWeight /\ BriefWeight \in Int
    BY <1>1, BriefWeightIsInt DEF BriefWeight
  <1>6. Weight(full)' = Weight(rest) + request.tokens[new]
    BY <1>1, <1>4 DEF Weight
  <1>7. used = Weight(full) + BriefWeight
    BY DEF TallyIsExact, BriefWeight
  <1>8. used' = Weight(full)' + BriefWeight'
    <2> HIDE DEF rest
    <2> QED BY <1>1, <1>3, <1>4, <1>5, <1>6, <1>7
  <1> QED
    BY <1>8 DEF TallyIsExact, BriefWeight

LEMMA TallyStep ==
    SelectionInv /\ TallyIsExact /\ [SelectionNext]_selectionVars => TallyIsExact'
  <1> SUFFICES ASSUME SelectionInv, TallyIsExact, [SelectionNext]_selectionVars
               PROVE  TallyIsExact'
    OBVIOUS
  <1>1. SelectionTypeOK /\ request \in Request
    BY DEF SelectionInv, SelectionTypeOK
  <1>2. CASE UNCHANGED selectionVars
    BY <1>2, TallyOfNothing DEF selectionVars
  <1>3. CASE PinPrecise
    <2>1. request'.tokens = request.tokens
      BY <1>1, <1>3 DEF PinPrecise, Request
    <2> QED
      BY <1>3, <2>1, TallyOfNothing DEF PinPrecise
  <1>4. CASE Pin
    <2>1. PICK S \in SUBSET request.pinned : full' = S /\ used' = Weight(S)
      BY <1>4 DEF Pin
    <2>2. /\ full' \in SUBSET Frags /\ DOMAIN brief = {}
          /\ brief' = brief /\ request'.tokens = request.tokens
      BY <1>1, <1>4, <2>1, RequestFields DEF Pin, SelectionInv, Staged
    <2> QED
      BY <1>1, <2>1, <2>2, TallyAnew
  <1>5. CASE Knapsack
    BY <1>5, TallyOfKnapsack
  <1>6. CASE FillWhole
    BY <1>6, TallyOfFillWhole
  <1>7. CASE FillDone \/ Extract \/ NoExplore \/ SubstituteDone \/ MeasureGap \/ TrailDone
    BY <1>7, TallyOfNothing DEF FillDone, Extract, NoExplore, SubstituteDone, MeasureGap, TrailDone
  <1>8. CASE \E f \in Frags : TakeFull(f)
    BY <1>1, <1>8, TallyOfWhole DEF TakeFull, Fill, Open, Selected
  <1>9. CASE \E f \in Frags : \E form \in request.forms[f] : TakeLower(f, form)
    BY <1>1, <1>9, TallyOfForm DEF TakeLower, Fill, Open, Selected
  <1>10. CASE ExploreAny
    BY <1>10, TallyOfExplore DEF ExploreAny
  <1>11. CASE \E f \in Frags : \E form \in request.forms[f] : Substitute(f, form)
    BY <1>1, <1>11, TallyOfForm DEF Substitute, Selected
  <1>12. CASE \E f \in Frags : Trail(f)
    <2>1. PICK f \in Frags : Trail(f)
      BY <1>12
    <2>2. f \notin Selected
      BY <2>1 DEF SelectionInv, TriedNoLongerFit, Trail
    <2>3. CASE request.tokens[f] <= Left(used)
      BY <1>1, <2>1, <2>2, <2>3, TallyOfWhole DEF Trail, Selected
    <2>4. CASE ~(request.tokens[f] <= Left(used))
      BY <2>1, <2>4, TallyOfNothing DEF Trail
    <2> QED
      BY <2>3, <2>4
  <1> QED
    BY <1>2, <1>3, <1>4, <1>5, <1>6, <1>7, <1>8, <1>9, <1>10, <1>11, <1>12 DEF SelectionNext

\* The tokens counted pass by pass are those of the fragments and the forms that
\* are selected, through the swap and the trailing pass, whatever the store.
THEOREM TallyStaysExact == SelectionSpec => []TallyIsExact
  BY TallyInitHolds, TallyStep, SelectionInvHolds, PTL DEF SelectionSpec
-----------------------------------------------------------------------------
(***************************************************************************)
(* What the checked properties leave open: by how much the default path    *)
(* may exceed its budget once skeletons are written out, and the legacy    *)
(* selector at all.                                                        *)
(***************************************************************************)
\* The forms that are written out are those selected, and all but the estimated
\* skeletons come out as they were counted.
FormsAreExtracted ==
    request.ios /\ phase \notin {"precise", "pin", "fill", "greedy", "extract"} =>
        /\ DOMAIN extracted = DOMAIN brief
        /\ \A f \in DOMAIN brief :
              /\ extracted[f] \in Nat
              /\ f \notin request.estimated => extracted[f] = brief[f].cost

SwapSlack == IF explored = {} THEN 0 ELSE Slack

\* The legacy selector spends what the pins weigh, or less than twice the
\* budget, and the slack of an exploration.
LegacySpending ==
    ~request.ios /\ phase \notin {"precise", "knapsack"} =>
        \/ used <= Weight(request.pinned) + SwapSlack
        \/ used < 2 * request.budget + SwapSlack

\* Totals of greater counts are greater.
LEMMA TotalsCompare ==
    ASSUME NEW t, NEW u, NEW S, IsFiniteSet(S),
           \A x \in S : t[x] \in Int /\ u[x] \in Int /\ t[x] <= u[x]
    PROVE  Total(t, S) <= Total(u, S)
  <1> DEFINE T == {s \in SUBSET S : ~(Total(t, s) <= Total(u, s))}
  <1>1. SUFFICES ASSUME T # {} PROVE FALSE
    OBVIOUS
  <1>2. PICK s \in T : \A r \in T : r \subseteq s => r = s
    <2> T \in SUBSET SUBSET S
      OBVIOUS
    <2> HIDE DEF T
    <2> QED BY <1>1, SmallestSubset
  <1>3. s \in SUBSET S /\ IsFiniteSet(s) /\ ~(Total(t, s) <= Total(u, s))
    BY <1>2, FS_Subset
  <1>4. s # {}
    BY <1>3, TotalOfNone
  <1>5. PICK x \in s : TRUE
    BY <1>4
  <1> DEFINE r == s \ {x}
  <1>6. r \in SUBSET S /\ r \subseteq s /\ r # s
    BY <1>3
  <1>7. Total(t, r) <= Total(u, r)
    BY <1>2, <1>6
  <1>8. \A y \in s : t[y] \in Int /\ u[y] \in Int
    BY <1>3
  <1>9. Total(t, s) = t[x] + Total(t, r) /\ Total(u, s) = u[x] + Total(u, r)
    BY <1>3, <1>8, TotalTakesOne
  <1>10. Total(t, r) \in Int /\ Total(u, r) \in Int
    BY <1>3, <1>6, <1>8, FS_Subset, TotalTakesOne
  <1>11. t[x] \in Int /\ u[x] \in Int /\ t[x] <= u[x]
    BY <1>3
  <1> HIDE DEF r
  <1> QED
    BY <1>3, <1>7, <1>9, <1>10, <1>11

LEMMA TotalIsNat ==
    ASSUME NEW t, NEW S, IsFiniteSet(S), \A x \in S : t[x] \in Nat
    PROVE  Total(t, S) \in Nat
  <1> DEFINE T == {s \in SUBSET S : Total(t, s) \notin Nat}
  <1>1. SUFFICES ASSUME T # {} PROVE FALSE
    OBVIOUS
  <1>2. PICK s \in T : \A r \in T : r \subseteq s => r = s
    <2> T \in SUBSET SUBSET S
      OBVIOUS
    <2> HIDE DEF T
    <2> QED BY <1>1, SmallestSubset
  <1>3. s \in SUBSET S /\ IsFiniteSet(s) /\ Total(t, s) \notin Nat
    BY <1>2, FS_Subset
  <1>4. s # {}
    BY <1>3, TotalOfNone
  <1>5. PICK x \in s : TRUE
    BY <1>4
  <1> DEFINE r == s \ {x}
  <1>6. r \in SUBSET S /\ r \subseteq s /\ r # s
    BY <1>3
  <1>7. Total(t, r) \in Nat
    BY <1>2, <1>6
  <1>8. \A y \in s : t[y] \in Int
    BY <1>3
  <1>9. Total(t, s) = t[x] + Total(t, r)
    BY <1>3, <1>8, TotalTakesOne
  <1>10. t[x] \in Nat
    BY <1>3
  <1> HIDE DEF r
  <1> QED
    BY <1>3, <1>7, <1>9, <1>10

LEMMA UsedIsNat ==
    ASSUME SelectionInv, TallyIsExact
    PROVE  used \in Nat
  <1> DEFINE t == [f \in DOMAIN brief |-> brief[f].cost]
  <1>1. \A f \in DOMAIN brief : t[f] \in Nat
    BY RequestFields DEF SelectionInv, SelectionTypeOK, Form
  <1>2. IsFiniteSet(DOMAIN brief) /\ full \in SUBSET Frags
    BY SetsAreFinite DEF SelectionInv, SelectionTypeOK
  <1> HIDE DEF t
  <1>3. Total(t, DOMAIN brief) \in Nat
    BY <1>1, <1>2, TotalIsNat
  <1>4. Weight(full) \in Nat
    BY <1>2, WeightIsNat DEF SelectionInv
  <1> QED
    BY <1>3, <1>4 DEF TallyIsExact, t
-----------------------------------------------------------------------------
LEMMA ExtractedStep ==
    SelectionInv /\ FormsAreExtracted /\ [SelectionNext]_selectionVars => FormsAreExtracted'
  <1> SUFFICES ASSUME SelectionInv, FormsAreExtracted, [SelectionNext]_selectionVars
               PROVE  FormsAreExtracted'
    OBVIOUS
  <1>1. SelectionTypeOK /\ request \in Request /\ Staged
    BY DEF SelectionInv, SelectionTypeOK
  <1>2. CASE UNCHANGED selectionVars
    BY <1>2 DEF selectionVars, FormsAreExtracted
  <1>3. CASE PinPrecise
    <2>1. request'.ios = request.ios
      BY <1>1, <1>3 DEF PinPrecise, Request
    <2> QED
      BY <1>3, <2>1 DEF PinPrecise, FormsAreExtracted
  <1>4. CASE Pin \/ FillWhole \/ FillDone
    BY <1>4 DEF Pin, FillWhole, FillDone, FormsAreExtracted
  <1>5. CASE Knapsack
    BY <1>1, <1>5 DEF Knapsack, Staged, FormsAreExtracted
  <1>6. CASE Extract
    <2> DEFINE Estimates == {f \in DOMAIN brief \cap request.estimated : brief[f].kind = "skeleton"}
    <2>1. PICK S \in SUBSET Estimates : \E sizes \in [S -> Sizes] :
             extracted' = [f \in DOMAIN brief |-> IF f \in S THEN sizes[f] ELSE brief[f].cost]
      BY <1>6 DEF Extract
    <2>2. PICK sizes \in [S -> Sizes] :
             extracted' = [f \in DOMAIN brief |-> IF f \in S THEN sizes[f] ELSE brief[f].cost]
      BY <2>1
    <2>3. brief' = brief /\ request' = request
      BY <1>6 DEF Extract
    <2>4. \A f \in DOMAIN brief : brief[f].cost \in Nat
      BY <1>1, RequestFields DEF SelectionTypeOK, Form
    <2>5. \A f \in S : sizes[f] \in Nat /\ f \in request.estimated
      BY <2>2, SelectionAssumption
    <2> QED
      BY <2>2, <2>3, <2>4, <2>5 DEF FormsAreExtracted
  <1>7. CASE \E f \in Frags : TakeFull(f)
    BY <1>7 DEF TakeFull, Fill, FormsAreExtracted
  <1>8. CASE \E f \in Frags : \E form \in request.forms[f] : TakeLower(f, form)
    BY <1>8 DEF TakeLower, Fill, FormsAreExtracted
  <1>9. CASE ExploreAny \/ NoExplore
    BY <1>9 DEF ExploreAny, Explore, NoExplore, FormsAreExtracted
  <1>10. CASE \E f \in Frags : \E form \in request.forms[f] : Substitute(f, form)
    BY <1>1, <1>10 DEF Substitute, Staged, FormsAreExtracted
  <1>11. CASE SubstituteDone \/ MeasureGap \/ TrailDone
    BY <1>11 DEF SubstituteDone, MeasureGap, TrailDone, FormsAreExtracted
  <1>12. CASE \E f \in Frags : Trail(f)
    BY <1>12 DEF Trail, FormsAreExtracted
  <1> QED
    BY <1>2, <1>3, <1>4, <1>5, <1>6, <1>7, <1>8, <1>9, <1>10, <1>11, <1>12 DEF SelectionNext

\* What takes no more than is left stays within the budget or takes nothing.
LEMMA LegacyPassStep ==
    ASSUME SelectionInv, TallyIsExact, LegacySpending, NEW cost \in Nat, cost <= Left(used),
           phase \notin {"precise", "knapsack"},
           used' = used + cost, UNCHANGED <<request, explored>>
    PROVE  LegacySpending'
  <1> SUFFICES ASSUME ~request.ios
               PROVE  \/ used' <= Weight(request.pinned) + SwapSlack
                      \/ used' < 2 * request.budget + SwapSlack
    BY DEF LegacySpending, SwapSlack, Weight
  <1>1. used \in Nat /\ request \in Request /\ request.budget \in Nat /\ SwapSlack \in Nat
    BY UsedIsNat, RequestFields, SelectionAssumption DEF SelectionInv, SelectionTypeOK, SwapSlack
  <1>2. Weight(request.pinned) \in Nat
    BY <1>1, WeightIsNat, RequestFields DEF SelectionInv
  <1>3. CASE Left(used) = 0
    <2>1. used' = used
      BY <1>1, <1>3
    <2> QED
      BY <2>1 DEF LegacySpending
  <1>4. CASE Left(used) > 0
    <2>1. Left(used) = request.budget - used
      BY <1>1, <1>4, LeftIsNat
    <2>2. used' <= request.budget /\ request.budget > 0
      BY <1>1, <1>4, <2>1
    <2> QED
      BY <1>1, <2>2
  <1> QED
    BY <1>1, <1>3, <1>4, LeftIsNat

LEMMA LegacyKnapsackStep == SelectionInv /\ Knapsack => LegacySpending'
  <1> SUFFICES ASSUME SelectionInv, Knapsack PROVE LegacySpending'
    OBVIOUS
  <1> DEFINE used0 == Weight(request.pinned)
             room == Left(used0)
             scored == {f \in request.relevant \ request.pinned : request.tokens[f] > 0}
  <1>1. request \in Request /\ request.budget \in Nat /\ scored \in SUBSET Frags /\ explored = {}
    BY RequestFields DEF SelectionInv, SelectionTypeOK, Staged, Knapsack
  <1>2. PICK S \in SUBSET scored :
           /\ \/ room = 0 /\ S = {}
              \/ room > 0 /\ S = scored /\ Weight(scored) < 2 * room
              \/ room > 0 /\ Weight(scored) > room /\ FilledFrom(S, scored, room)
           /\ used' = used0 + Weight(S)
    BY DEF Knapsack
  <1>3. request' = request /\ explored' = {}
    BY <1>1 DEF Knapsack
  <1>4. used0 \in Nat /\ Weight(S) \in Nat
    BY <1>1, <1>2, WeightIsNat, RequestFields DEF SelectionInv
  <1>5. room \in Nat /\ (room > 0 => room = request.budget - used0)
    BY <1>1, <1>4 DEF Left
  <1>6. SwapSlack' = 0
    BY <1>3 DEF SwapSlack
  <1>7. Weight({}) = 0
    BY TotalOfNone DEF Weight
  <1>8. FilledFrom(S, scored, room) => Weight(S) <= room
    BY <1>5 DEF FilledFrom
  <1>9. (used0)' = used0
    BY <1>3 DEF Weight
  <1>10. SUFFICES used' <= used0 \/ used' < 2 * request.budget
    BY <1>1, <1>3, <1>4, <1>6, <1>9 DEF LegacySpending
  <1> HIDE DEF used0, room, scored
  <1>11. CASE room = 0 /\ S = {}
    BY <1>2, <1>4, <1>7, <1>11
  <1>12. CASE room > 0 /\ Weight(S) < 2 * room
    BY <1>1, <1>2, <1>4, <1>5, <1>12
  <1> QED
    BY <1>2, <1>4, <1>5, <1>8, <1>11, <1>12

LEMMA LegacyStep ==
    SelectionInv /\ TallyIsExact /\ LegacySpending /\ [SelectionNext]_selectionVars => LegacySpending'
  <1> SUFFICES ASSUME SelectionInv, TallyIsExact, LegacySpending, [SelectionNext]_selectionVars
               PROVE  LegacySpending'
    OBVIOUS
  <1>1. SelectionTypeOK /\ request \in Request /\ Staged /\ used \in Nat
    BY UsedIsNat DEF SelectionInv, SelectionTypeOK
  <1>2. ASSUME phase' \notin {"precise", "knapsack"} => phase \notin {"precise", "knapsack"},
               UNCHANGED <<request, used, explored>>
        PROVE  LegacySpending'
    BY <1>2 DEF LegacySpending, SwapSlack, Weight
  <1>3. CASE UNCHANGED selectionVars
    BY <1>2, <1>3 DEF selectionVars
  <1>4. CASE PinPrecise
    <2>1. request'.ios = request.ios
      BY <1>1, <1>4 DEF PinPrecise, Request
    <2> QED
      BY <1>4, <2>1 DEF PinPrecise, LegacySpending
  <1>5. CASE Pin \/ FillWhole \/ FillDone \/ Extract
    BY <1>1, <1>5 DEF Pin, FillWhole, FillDone, Extract, Staged, LegacySpending
  <1>6. CASE Knapsack
    BY <1>6, LegacyKnapsackStep
  <1>7. CASE \E f \in Frags : TakeFull(f)
    BY <1>1, <1>7 DEF TakeFull, Fill, Staged, LegacySpending
  <1>8. CASE \E f \in Frags : \E form \in request.forms[f] : TakeLower(f, form)
    BY <1>1, <1>8 DEF TakeLower, Fill, Staged, LegacySpending
  <1>9. CASE ExploreAny
    <2>1. PICK old \in full \ request.pinned, new \in Frags \ (Selected \cup request.pinned) :
             Explore(old, new)
      BY <1>9 DEF ExploreAny
    <2>2. request.tokens[old] \in Nat /\ request.tokens[new] \in Nat
      BY <1>1, RequestFields DEF SelectionTypeOK
    <2>3. used' \in Int /\ used' <= used + Slack
      BY <1>1, <2>1, <2>2, SelectionAssumption DEF Explore
    <2>4. explored = {} /\ explored' # {} /\ request' = request /\ phase = "explore"
      BY <1>1, <2>1 DEF Explore, Staged
    <2>5. SwapSlack = 0 /\ SwapSlack' = Slack /\ Weight(request.pinned)' = Weight(request.pinned)
      BY <2>4 DEF SwapSlack, Weight
    <2>6. Weight(request.pinned) \in Nat /\ request.budget \in Nat
      BY <1>1, WeightIsNat, RequestFields DEF SelectionInv
    <2>7. ~request.ios => used <= Weight(request.pinned) \/ used < 2 * request.budget
      BY <2>4, <2>5, <2>6 DEF LegacySpending
    <2> QED
      BY <1>1, <2>3, <2>4, <2>5, <2>6, <2>7, SelectionAssumption DEF LegacySpending
  <1>10. CASE NoExplore \/ SubstituteDone \/ MeasureGap \/ TrailDone
    BY <1>2, <1>10 DEF NoExplore, SubstituteDone, MeasureGap, TrailDone
  <1>11. CASE \E f \in Frags : \E form \in request.forms[f] : Substitute(f, form)
    <2>1. PICK f \in Frags : \E form \in request.forms[f] : Substitute(f, form)
      BY <1>11
    <2>2. PICK form \in request.forms[f] : Substitute(f, form)
      BY <2>1
    <2>3. form.cost \in Nat
      BY <1>1, RequestFields DEF Form
    <2> QED
      BY <2>2, <2>3, LegacyPassStep DEF Substitute
  <1>12. CASE \E f \in Frags : Trail(f)
    <2>1. PICK f \in Frags : Trail(f)
      BY <1>12
    <2>2. request.tokens[f] \in Nat
      BY <1>1, RequestFields
    <2>3. CASE request.tokens[f] <= Left(used)
      BY <2>1, <2>2, <2>3, LegacyPassStep DEF Trail
    <2>4. CASE ~(request.tokens[f] <= Left(used))
      BY <1>2, <2>1, <2>4 DEF Trail
    <2> QED
      BY <2>3, <2>4
  <1> QED
    BY <1>3, <1>4, <1>5, <1>6, <1>7, <1>8, <1>9, <1>10, <1>11, <1>12 DEF SelectionNext
-----------------------------------------------------------------------------
\* The estimates are the only way in which the default path writes out more than
\* its budget and the slack: it does not when no estimated skeleton comes out
\* larger than it was counted, whatever the passes did (optimize).
THEOREM OnlyEstimatesOverrun ==
    SelectionSpec =>
        []((\A f \in DOMAIN brief \cap request.estimated :
               f \in DOMAIN extracted => extracted[f] <= brief[f].cost)
             => WrittenWithinBudget)
  <1> DEFINE NoneLarger == \A f \in DOMAIN brief \cap request.estimated :
                              f \in DOMAIN extracted => extracted[f] <= brief[f].cost
  <1>1. SelectionInit => FormsAreExtracted
    BY DEF SelectionInit, FormsAreExtracted
  <1>2. ASSUME SelectionInv, TallyIsExact, FormsAreExtracted, NoneLarger
        PROVE  WrittenWithinBudget
    <2> SUFFICES ASSUME phase = "done", request.ios
                 PROVE  Weight(full) + Total(extracted, DOMAIN extracted)
                           <= request.budget + SwapSlack
      BY DEF WrittenWithinBudget, SwapSlack
    <2> DEFINE t == [f \in DOMAIN brief |-> brief[f].cost]
    <2>1. DOMAIN extracted = DOMAIN brief /\ \A f \in DOMAIN brief : extracted[f] \in Nat
      BY <1>2 DEF FormsAreExtracted
    <2>2. \A f \in DOMAIN brief : t[f] \in Int /\ extracted[f] \in Int /\ extracted[f] <= t[f]
      <3> SUFFICES ASSUME NEW f \in DOMAIN brief
                   PROVE  t[f] \in Int /\ extracted[f] \in Int /\ extracted[f] <= t[f]
        OBVIOUS
      <3>1. t[f] = brief[f].cost /\ t[f] \in Nat
        BY <1>2, RequestFields DEF SelectionInv, SelectionTypeOK, Form
      <3> HIDE DEF t
      <3>2. CASE f \in request.estimated
        BY <1>2, <2>1, <3>1, <3>2
      <3>3. CASE f \notin request.estimated
        BY <1>2, <2>1, <3>1, <3>3 DEF FormsAreExtracted
      <3> QED
        BY <3>2, <3>3
    <2>3. IsFiniteSet(DOMAIN brief) /\ full \in SUBSET Frags
      BY <1>2, SetsAreFinite DEF SelectionInv, SelectionTypeOK
    <2> HIDE DEF t
    <2>4. Total(extracted, DOMAIN brief) <= Total(t, DOMAIN brief)
      BY <2>2, <2>3, TotalsCompare
    <2>5. Total(extracted, DOMAIN brief) \in Int /\ Total(t, DOMAIN brief) \in Int
      BY <2>2, <2>3, TotalTakesOne
    <2>6. Weight(full) \in Nat
      BY <1>2, <2>3, WeightIsNat DEF SelectionInv
    <2>7. used = Weight(full) + Total(t, DOMAIN brief)
      BY <1>2 DEF TallyIsExact, t
    <2>8. used <= request.budget + SwapSlack
      BY <1>2 DEF SelectionInv, SpentWithSwap, SwapSlack
    <2>9. request.budget + SwapSlack \in Int
      BY <1>2, RequestFields, SelectionAssumption DEF SelectionInv, SelectionTypeOK, SwapSlack
    <2> QED
      BY <2>1, <2>4, <2>5, <2>6, <2>7, <2>8, <2>9
  <1>3. SelectionInv /\ TallyIsExact /\ FormsAreExtracted => (NoneLarger => WrittenWithinBudget)
    BY <1>2
  <1> QED
    BY <1>1, <1>3, ExtractedStep, TallyStaysExact, SelectionInvHolds, PTL DEF SelectionSpec

\* The legacy selector has a bound as well, though not the budget: what the pins
\* weigh, or just under twice the budget (its fast path takes every scored
\* fragment if the tokens expected of them fit, knapsack_optimize), and no pass
\* after it goes beyond that but by the slack.
THEOREM LegacyStaysUnderTwice == SelectionSpec => []LegacySpending
  <1>1. SelectionInit => LegacySpending
    BY DEF SelectionInit, LegacySpending
  <1> QED
    BY <1>1, LegacyStep, TallyStaysExact, SelectionInvHolds, PTL DEF SelectionSpec
=============================================================================
