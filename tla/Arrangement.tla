----------------------------- MODULE Arrangement -----------------------------
(***************************************************************************)
(* What optimize does with the fragments it selected in full: the guard    *)
(* that evicts one of two contradicting fragments, the order by causal     *)
(* level, the placing at the peaks of attention within a level, and the    *)
(* files the query names moved to the front (contradiction_guard,          *)
(* semantic_interleave and bookend_calibrate in entroly-core/src/          *)
(* channel.rs, precision-first ordering in lib.rs).                        *)
(*                                                                         *)
(* A relevance is its rank, and what contradicts what is a relation: the   *)
(* thresholds on paths and hashes decide it and nothing else.  Both passes *)
(* that order compute the causal levels of the same fragments; here the    *)
(* levels are computed once.                                               *)
(***************************************************************************)
EXTENDS Integers, Sequences, FiniteSets, SequencesExt

CONSTANTS
    Fragments,  (* fragments of the store                                  *)
    Number,     (* of a fragment: the counter's value in its id            *)
    Selections  (* what the passes before leave: see Choice                *)

\* final_indices; relevance of each fragment; relevance weighted by the
\* criticality of its file; contradicting pairs; <<d, u>> when u uses a symbol
\* that d defines; the files matched by path.
Choice == [chosen : Seq(Fragments), relevance : [Fragments -> Nat],
           importance : [Fragments -> Nat],
           contradict : SUBSET (Fragments \X Fragments),
           defines : SUBSET (Fragments \X Fragments), precise : SUBSET Fragments]

\* Links lead from a fragment to one ingested before it: DependencyGraph has it
\* as an invariant, and its proofs as a theorem.
ASSUME ArrangementAssumption ==
    /\ Number \in [Fragments -> Nat]
    /\ Selections \subseteq Choice
    /\ \A s \in Selections :
          /\ \A p, q \in DOMAIN s.chosen : p # q => s.chosen[p] # s.chosen[q]
          /\ \A pair \in s.contradict : <<pair[2], pair[1]>> \in s.contradict
          /\ \A pair \in s.defines : Number[pair[1]] < Number[pair[2]]

VARIABLES
    choice,     (* what was selected                                       *)
    stage,      (* the next pass                                           *)
    first,      (* i of the pairwise scan, a position of chosen            *)
    second,     (* j of the pairwise scan                                  *)
    evicted,    (* evicted_set, positions of chosen                        *)
    level,      (* causal level of the fragments placed so far             *)
    depth,      (* the level of the next round of the topological sort     *)
    line        (* ordered_indices                                         *)

arrangementVars == <<choice, stage, first, second, evicted, level, depth, line>>
-----------------------------------------------------------------------------
Positions == 1 .. Len(choice.chosen)

At(p) == choice.chosen[p]

Contradict(p, q) == <<At(p), At(q)>> \in choice.contradict

Relevance(p) == choice.relevance[At(p)]

Kept == {At(p) : p \in Positions \ evicted}

ArrangementInit ==
    /\ choice \in Selections
    /\ stage = "guard"
    /\ first = 1 /\ second = 2 /\ evicted = {}
    /\ level = <<>> /\ depth = 0 /\ line = <<>>

NextFirst == first' = first + 1 /\ second' = first + 2

\* A fault: whichever is evicted, the scan leaves the fragment it is at.
ScanToFirstPair ==
    /\ stage = "guard" /\ first < Len(choice.chosen)
    /\ IF first \in evicted \/ second > Len(choice.chosen)
       THEN NextFirst /\ UNCHANGED evicted
       ELSE IF second \in evicted \/ ~Contradict(first, second)
       THEN second' = second + 1 /\ UNCHANGED <<first, evicted>>
       ELSE /\ evicted' = evicted \cup {IF Relevance(first) >= Relevance(second)
                                        THEN second ELSE first}
            /\ NextFirst
    /\ UNCHANGED <<choice, stage, level, depth, line>>

\* The pairwise scan, a pair at a time: the less relevant one goes, the later
\* one when they are equal.
Scan ==
    /\ stage = "guard" /\ first < Len(choice.chosen)
    /\ IF first \in evicted \/ second > Len(choice.chosen)
       THEN NextFirst /\ UNCHANGED evicted
       ELSE IF second \in evicted \/ ~Contradict(first, second)
       THEN second' = second + 1 /\ UNCHANGED <<first, evicted>>
       ELSE IF Relevance(first) >= Relevance(second)
       THEN second' = second + 1 /\ evicted' = evicted \cup {second} /\ UNCHANGED first
       ELSE NextFirst /\ evicted' = evicted \cup {first}
    /\ UNCHANGED <<choice, stage, level, depth, line>>

GuardDone ==
    /\ stage = "guard" /\ first >= Len(choice.chosen)
    /\ stage' = "levels"
    /\ UNCHANGED <<choice, first, second, evicted, level, depth, line>>

\* Fragments all of whose definitions have a level.
Ready == {f \in Kept \ DOMAIN level :
             \A d \in Kept \ {f} : <<d, f>> \in choice.defines => d \in DOMAIN level}

\* A round of Kahn's sort gives its level to all that are ready.
Round ==
    /\ stage = "levels" /\ Ready # {}
    /\ level' = [f \in DOMAIN level \cup Ready |-> IF f \in Ready THEN depth ELSE level[f]]
    /\ depth' = depth + 1
    /\ UNCHANGED <<choice, stage, first, second, evicted, line>>

\* Fragments in a cycle keep level 0.
LevelOf(f) == IF f \in DOMAIN level THEN level[f] ELSE 0

RankIn(s, f) == CHOOSE p \in DOMAIN s : s[p] = f

\* The sequence of what is kept, ordered by Before.
Ordered(Before(_, _)) ==
    {s \in SetToSeqs(Kept) : \A p, q \in DOMAIN s : p < q => Before(s[p], s[q])}

\* By causal level, the most important first, equals in their order; the last
\* level in reverse.
SemanticInterleave ==
    /\ stage = "levels" /\ Ready = {}
    /\ LET Weightier(f, g) ==
               \/ choice.importance[f] > choice.importance[g]
               \/ /\ choice.importance[f] = choice.importance[g]
                  /\ RankIn(choice.chosen, f) < RankIn(choice.chosen, g)
           Leaf(l) == depth > 1 /\ l = depth - 1
           Before(f, g) ==
               \/ LevelOf(f) < LevelOf(g)
               \/ /\ LevelOf(f) = LevelOf(g)
                  /\ IF Leaf(LevelOf(f)) THEN Weightier(g, f) ELSE Weightier(f, g)
       IN line' \in Ordered(Before)
    /\ stage' = "bookend"
    /\ UNCHANGED <<choice, first, second, evicted, level, depth>>

\* attention_weight: the nearest to an end of the whole sequence is the brightest.
Brighter(p, q) ==
    LET Edge(k) == IF k - 1 < Len(line) - k THEN k - 1 ELSE Len(line) - k
    IN Edge(p) < Edge(q) \/ (Edge(p) = Edge(q) /\ p < q)

\* The order by relevance, equals as they stand.
Dearer(f, g) ==
    \/ choice.relevance[f] > choice.relevance[g]
    \/ choice.relevance[f] = choice.relevance[g] /\ RankIn(line, f) < RankIn(line, g)

\* A group of three or more has its most relevant fragments at its best slots.
Calibrated(s, p, q) ==
    IF Cardinality({f \in Kept : LevelOf(f) = LevelOf(s[p])}) <= 2
    THEN p < q => RankIn(line, s[p]) < RankIn(line, s[q])
    ELSE Brighter(p, q) => Dearer(s[p], s[q])

\* A fault: the best slots are those of the sequence, not of the level.
BookendAcross ==
    /\ stage = "bookend"
    /\ IF Len(line) <= 2 THEN line' = line
       ELSE line' \in {s \in SetToSeqs(Kept) : \A p, q \in DOMAIN s :
                          Brighter(p, q) => Dearer(s[p], s[q])}
    /\ stage' = "precise"
    /\ UNCHANGED <<choice, first, second, evicted, level, depth>>

\* The groups stand in the order of their levels.
Bookend ==
    /\ stage = "bookend"
    /\ IF Len(line) <= 2 THEN line' = line
       ELSE line' \in {s \in SetToSeqs(Kept) : \A p, q \in DOMAIN s :
                          IF LevelOf(s[p]) = LevelOf(s[q]) THEN Calibrated(s, p, q)
                          ELSE p < q => LevelOf(s[p]) < LevelOf(s[q])}
    /\ stage' = "precise"
    /\ UNCHANGED <<choice, first, second, evicted, level, depth>>

\* Precision files first, then the rest, each in their order.
PreciseFirst ==
    /\ stage = "precise"
    /\ LET Before(f, g) ==
               \/ f \in choice.precise /\ g \notin choice.precise
               \/ /\ f \in choice.precise <=> g \in choice.precise
                  /\ RankIn(line, f) < RankIn(line, g)
       IN line' \in Ordered(Before)
    /\ stage' = "done"
    /\ UNCHANGED <<choice, first, second, evicted, level, depth>>

ArrangementNext ==
    Scan \/ GuardDone \/ Round \/ SemanticInterleave \/ Bookend \/ PreciseFirst

ArrangementSpec == ArrangementInit /\ [][ArrangementNext]_arrangementVars
-----------------------------------------------------------------------------
\* The state is well typed.
ArrangementTypeOK ==
    /\ choice \in Choice
    /\ stage \in {"guard", "levels", "bookend", "precise", "done"}
    /\ {first, second} \subseteq Nat \ {0} /\ depth \in Nat
    /\ evicted \subseteq Positions

\* contradiction_guard leaves no two fragments that contradict each other, in
\* whatever order the pairs are met and though a scan is cut short when its own
\* fragment is evicted; and it evicts nothing but for a contradiction with a
\* fragment at least as relevant.
SurvivorsAgree ==
    /\ stage # "guard" =>
          \A p, q \in Positions \ evicted : p # q => ~Contradict(p, q)
    /\ \A p \in evicted : \E q \in Positions :
          Contradict(q, p) /\ Relevance(q) >= Relevance(p)

\* "Cross-level reordering would break def -> ref chains" (channel.rs): every
\* survivor stands in the final order once, and a definition before its uses,
\* among the files the query names and among the others.
DefinitionsComeFirst ==
    stage = "done" =>
        /\ Len(line) = Cardinality(Kept) /\ ToSet(line) = Kept
        /\ \A p, q \in DOMAIN line :
              <<line[p], line[q]>> \in choice.defines =>
                 p < q \/ {line[p], line[q]} \cap choice.precise \notin {{}, {line[p], line[q]}}
=============================================================================
