------------------------------ MODULE Selection ------------------------------
(***************************************************************************)
(* How one optimize call spends its token budget, from the scored fragments*)
(* to the selection (EntrolyEngine::optimize in entroly-core/src/lib.rs,   *)
(* ios_select in knapsack_sds.rs, knapsack_optimize in knapsack.rs,        *)
(* channel_trailing_pass in channel.rs).                                   *)
(*                                                                         *)
(* Scores decide in which order fragments are tried and are abstracted to  *)
(* a choice: a pass that tries fragments in the order of a score keeps     *)
(* some set that cannot be extended, and any such set may be the one.      *)
(* Information factors and the diversity floor are positive, channel       *)
(* coding is on, and the temperature is above the floor where knapsack.rs  *)
(* turns to dynamic programming: the engine clamps it there.               *)
(***************************************************************************)
EXTENDS Integers, FiniteSets, Functions

CONSTANTS
    Frags,      (* fragments of the store                                  *)
    Requests,   (* what optimize may find: see Request                     *)
    Sizes,      (* token counts of skeletons once they are extracted       *)
    Slack,      (* tokens by which an explored fragment may be larger      *)
    MaxTotal    (* u32::MAX, which no total of token counts exceeds        *)

\* Skeleton, belief or reference: a resolution below Full, and its cost.
Form == [kind : {"skeleton", "belief", "reference"}, cost : Nat]

\* tokens of a fragment at full resolution; its forms; is_pinned; matched by
\* path (precision_file_ids); of positive relevance; whose skeleton is an
\* estimate of batch_ingest; the effective budget; enable_ios.
Request == [tokens : [Frags -> Nat], forms : [Frags -> SUBSET Form],
            pinned : SUBSET Frags, precise : SUBSET Frags,
            relevant : SUBSET Frags, estimated : SUBSET Frags,
            budget : Nat, ios : BOOLEAN]

Total(tokens, S) == FoldFunctionOnSet(+, 0, tokens, S)

ASSUME SelectionAssumption ==
    /\ IsFiniteSet(Frags)
    /\ Requests \subseteq Request
    /\ Sizes \subseteq Nat
    /\ {Slack, MaxTotal} \subseteq Nat
    /\ \A r \in Requests : \A S \in SUBSET Frags :
          Total(r.tokens, S) \in 0 .. MaxTotal

VARIABLES
    request,    (* the request; its pins grow by those of the call         *)
    phase,      (* the next pass                                           *)
    full,       (* final_indices: fragments selected at full resolution    *)
    brief,      (* skeleton_indices: fragment -> the form selected for it  *)
    used,       (* tokens used, as the passes count them                   *)
    explored,   (* explored_ids                                            *)
    queue,      (* candidates the trailing pass has not tried yet          *)
    extracted   (* fragment -> cost of its form once it is written out     *)

selectionVars == <<request, phase, full, brief, used, explored, queue, extracted>>
-----------------------------------------------------------------------------
Weight(S) == Total(request.tokens, S)

\* What a pass over C in some order leaves when it skips what does not fit.
FilledFrom(S, C, room) ==
    /\ S \subseteq C
    /\ Weight(S) \in 0 .. room
    /\ \A f \in C \ S : Weight(S) + request.tokens[f] > room

Left(n) == IF n < request.budget THEN request.budget - n ELSE 0

With(m, k, v) == [x \in DOMAIN m \cup {k} |-> IF x = k THEN v ELSE m[x]]

Selected == full \cup DOMAIN brief

\* Candidates of a selector, which skip the pins already in.
Candidates == {f \in request.relevant \ full : request.tokens[f] > 0}

Open == Candidates \ Selected

SelectionInit ==
    /\ request \in Requests
    /\ phase = "precise"
    /\ full = {} /\ brief = <<>> /\ used = 0
    /\ explored = {} /\ queue = {} /\ extracted = <<>>

\* Files the query names by path are pinned for this call, up to 40% of the
\* budget.
PinPrecise ==
    /\ phase = "precise"
    /\ \E S \in SUBSET request.precise :
          /\ FilledFrom(S, request.precise, (request.budget * 40) \div 100)
          /\ request' = [request EXCEPT !.pinned = @ \cup S]
    /\ phase' = IF request.ios THEN "pin" ELSE "knapsack"
    /\ UNCHANGED <<full, brief, used, explored, queue, extracted>>

PinCap == request.budget \div 2

\* A fault: all pins go in, whatever they weigh.
PinAll ==
    /\ phase = "pin"
    /\ full' = request.pinned
    /\ used' = Weight(request.pinned)
    /\ phase' = "fill"
    /\ UNCHANGED <<request, brief, explored, queue, extracted>>

\* All pins go in when they fit in half the budget, else the relevant ones
\* that do; the others compete as candidates.
Pin ==
    /\ phase = "pin"
    /\ \E S \in SUBSET request.pinned :
          /\ IF Weight(request.pinned) \in 0 .. PinCap
             THEN S = request.pinned
             ELSE FilledFrom(S, request.pinned \cap request.relevant, PinCap)
          /\ full' = S
          /\ used' = Weight(S)
    /\ phase' = "fill"
    /\ UNCHANGED <<request, brief, explored, queue, extracted>>

\* Everything fits: the greedy loop is skipped.
FillWhole ==
    /\ phase = "fill"
    /\ Weight(Candidates) \in 1 .. Left(used)
    /\ full' = full \cup Candidates
    /\ used' = used + Weight(Candidates)
    /\ phase' = "extract"
    /\ UNCHANGED <<request, brief, explored, queue, extracted>>

\* The greedy loop runs when the candidates do not all fit.
Fill ==
    /\ phase \in {"fill", "greedy"}
    /\ phase = "fill" => Weight(Candidates) > Left(used)
    /\ phase' = "greedy"
    /\ UNCHANGED <<request, explored, queue, extracted>>

TakeFull(f) ==
    /\ Fill
    /\ f \in Open
    /\ request.tokens[f] <= Left(used)
    /\ full' = full \cup {f}
    /\ used' = used + request.tokens[f]
    /\ UNCHANGED brief

\* A fault: a form is taken though the whole fragment fits.
TakeCheapest(f, form) ==
    /\ Fill
    /\ f \in Open
    /\ form.cost <= Left(used)
    /\ Left(used) > 0
    /\ brief' = With(brief, f, form)
    /\ used' = used + form.cost
    /\ UNCHANGED full

\* A lower resolution is for fragments that do not fit whole.
TakeLower(f, form) ==
    /\ Fill
    /\ f \in Open
    /\ request.tokens[f] > Left(used)
    /\ form.cost <= Left(used)
    /\ Left(used) > 0
    /\ brief' = With(brief, f, form)
    /\ used' = used + form.cost
    /\ UNCHANGED full

FillDone ==
    /\ phase \in {"fill", "greedy"}
    /\ \/ Left(used) = 0
       \/ \A f \in Open : /\ request.tokens[f] > Left(used)
                          /\ \A form \in request.forms[f] : form.cost > Left(used)
    /\ phase' = "extract"
    /\ UNCHANGED <<request, full, brief, used, explored, queue, extracted>>

\* Skeletons that were estimated are extracted now, where extraction finds one;
\* used keeps the estimate.
Extract ==
    /\ phase = "extract"
    /\ \E S \in SUBSET {f \in DOMAIN brief \cap request.estimated : brief[f].kind = "skeleton"} :
       \E sizes \in [S -> Sizes] :
          extracted' = [f \in DOMAIN brief |-> IF f \in S THEN sizes[f] ELSE brief[f].cost]
    /\ phase' = "explore"
    /\ UNCHANGED <<request, full, brief, used, explored, queue>>

\* The legacy selector: every pin, then the scored fragments in the order of
\* their probabilities, or all of them when the tokens expected of them fit.
\* A score is positive, so a probability is between a half and one.
Knapsack ==
    /\ phase = "knapsack"
    /\ LET used0 == Weight(request.pinned)
           room == Left(used0)
           scored == {f \in request.relevant \ request.pinned : request.tokens[f] > 0}
       IN \E S \in SUBSET scored :
             /\ \/ room = 0 /\ S = {}
                \/ room > 0 /\ S = scored /\ Weight(scored) < 2 * room
                \/ /\ room > 0
                   /\ Weight(scored) > room
                   /\ FilledFrom(S, scored, room)
             /\ full' = request.pinned \cup S
             /\ used' = used0 + Weight(S)
    /\ phase' = "explore"
    /\ UNCHANGED <<request, brief, explored, queue, extracted>>

AfterExplore == IF request.ios THEN "gap" ELSE "skeletons"

\* A fault: the tokens of the fragment that leaves are not given back.
ExploreWithoutRefund(old, new) ==
    /\ phase = "explore"
    /\ request.tokens[new] <= request.tokens[old] + Slack
    /\ full' = (full \ {old}) \cup {new}
    /\ used' = used + request.tokens[new]
    /\ explored' = {new}
    /\ phase' = AfterExplore
    /\ UNCHANGED <<request, brief, queue, extracted>>

\* A selected fragment, never a pin, makes room for one not selected.
Explore(old, new) ==
    /\ phase = "explore"
    /\ request.tokens[new] <= request.tokens[old] + Slack
    /\ full' = (full \ {old}) \cup {new}
    /\ used' = used - request.tokens[old] + request.tokens[new]
    /\ explored' = {new}
    /\ phase' = AfterExplore
    /\ UNCHANGED <<request, brief, queue, extracted>>

ExploreAny == \E old \in full \ request.pinned, new \in Frags \ (Selected \cup request.pinned) :
                 Explore(old, new)

NoExplore ==
    /\ phase = "explore"
    /\ phase' = AfterExplore
    /\ UNCHANGED <<request, full, brief, used, explored, queue, extracted>>

\* The legacy skeletons of what was not selected, in some order.
Substitute(f, form) ==
    /\ phase = "skeletons"
    /\ f \notin Selected
    /\ form.kind = "skeleton"
    /\ form.cost <= Left(used)
    /\ brief' = With(brief, f, form)
    /\ extracted' = With(extracted, f, form.cost)
    /\ used' = used + form.cost
    /\ UNCHANGED <<request, phase, full, explored, queue>>

SubstituteDone ==
    /\ phase = "skeletons"
    /\ \A f \in Frags \ Selected : \A form \in request.forms[f] :
          form.kind = "skeleton" => form.cost > Left(used)
    /\ phase' = "gap"
    /\ UNCHANGED <<request, full, brief, used, explored, queue, extracted>>

\* A fault: what is selected at a lower resolution is a candidate again.
MeasureGapOverFull ==
    /\ phase = "gap"
    /\ queue' = {f \in Frags \ full : request.tokens[f] \in 1 .. Left(used)}
    /\ phase' = "trail"
    /\ UNCHANGED <<request, full, brief, used, explored, extracted>>

\* Candidates of the trailing pass are those that fit the gap, relevant or not.
MeasureGap ==
    /\ phase = "gap"
    /\ queue' = {f \in Frags \ Selected : request.tokens[f] \in 1 .. Left(used)}
    /\ phase' = "trail"
    /\ UNCHANGED <<request, full, brief, used, explored, extracted>>

\* A fault: the pass ends at the first fragment that does not fit.
TrailToFirstMiss(f) ==
    /\ phase = "trail"
    /\ f \in queue
    /\ IF request.tokens[f] <= Left(used)
       THEN /\ full' = full \cup {f}
            /\ used' = used + request.tokens[f]
            /\ queue' = queue \ {f}
       ELSE UNCHANGED <<full, used>> /\ queue' = {}
    /\ UNCHANGED <<request, phase, brief, explored, extracted>>

Trail(f) ==
    /\ phase = "trail"
    /\ f \in queue
    /\ queue' = queue \ {f}
    /\ IF request.tokens[f] <= Left(used)
       THEN full' = full \cup {f} /\ used' = used + request.tokens[f]
       ELSE UNCHANGED <<full, used>>
    /\ UNCHANGED <<request, phase, brief, explored, extracted>>

TrailDone ==
    /\ phase = "trail"
    /\ queue = {} \/ Left(used) = 0
    /\ queue' = {}
    /\ phase' = "done"
    /\ UNCHANGED <<request, full, brief, used, explored, extracted>>

SelectionNext ==
    \/ PinPrecise \/ Pin \/ Knapsack
    \/ FillWhole \/ FillDone \/ Extract
    \/ \E f \in Frags : TakeFull(f)
    \/ \E f \in Frags : \E form \in request.forms[f] : TakeLower(f, form)
    \/ ExploreAny \/ NoExplore
    \/ \E f \in Frags : \E form \in request.forms[f] : Substitute(f, form)
    \/ SubstituteDone
    \/ MeasureGap \/ TrailDone
    \/ \E f \in Frags : Trail(f)

SelectionSpec == SelectionInit /\ [][SelectionNext]_selectionVars
-----------------------------------------------------------------------------
\* The state is well typed, and a fragment is selected in one form only: the
\* passes must never add in full what is already there as a skeleton ("CRITICAL:
\* pass BOTH full and skeleton indices to prevent double-inclusion", optimize).
SelectionTypeOK ==
    /\ request \in Request
    /\ phase \in {"precise", "pin", "fill", "greedy", "extract", "knapsack",
                  "explore", "skeletons", "gap", "trail", "done"}
    /\ {full, DOMAIN brief, explored, queue} \subseteq SUBSET Frags
    /\ full \cap DOMAIN brief = {}
    /\ \A f \in DOMAIN brief : brief[f] \in request.forms[f]
    /\ used \in Int

\* The tokens the passes count one by one are those of what is selected, through
\* pins, greedy choices, the exploration swap and the trailing pass.
TallyIsExact ==
    used = Weight(full)
           + Total([f \in DOMAIN brief |-> brief[f].cost], DOMAIN brief)

\* ios_select and the passes after it never count more than the budget as spent
\* in a call that explores nothing, however the pins, the pins of the call and
\* the lower resolutions divide it.
SpentWithinBudget ==
    request.ios /\ explored = {} => used <= request.budget

\* What the comment in optimize says, that the budget is a hard ceiling, of all
\* calls of the default path: the tokens counted at the end are within it.
HardCeiling ==
    phase = "done" /\ request.ios => used <= request.budget

\* "Full dominates when it fits" (ios_select) at the end of the call, not only
\* when the form is chosen: no fragment selected at a lower resolution would fit
\* whole in the tokens left.  A swap may free tokens, and nothing is upgraded.
NoUpgradeFits ==
    request.ios /\ explored = {} =>
        \A f \in DOMAIN brief :
            request.tokens[f] - brief[f].cost > request.budget - used

\* The trailing pass leaves no fragment out that fits what is left ("instead of
\* leaving unused budget on the table", optimize), though it tries each
\* candidate once and never returns to one it skipped.
NothingLeftFits ==
    phase = "done" =>
        \A f \in Frags \ Selected :
            request.tokens[f] > 0 => request.tokens[f] > request.budget - used

(* "After materialization, actual skeleton_token_count replaces the         *)
(* estimate" (optimize): the tokens written out by the default path stay    *)
(* within the budget and the slack of an exploration.                       *)
WrittenWithinBudget ==
    phase = "done" /\ request.ios =>
        Weight(full) + Total(extracted, DOMAIN extracted)
            <= request.budget + IF explored = {} THEN 0 ELSE Slack
=============================================================================
