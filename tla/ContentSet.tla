------------------------------ MODULE ContentSet ------------------------------
(***************************************************************************)
(* What the fragment store promises about contents, without saying how: it *)
(* holds a set of contents, answers "duplicate" exactly for the contents   *)
(* it holds, may turn a new one away, may forget, and can go back to       *)
(* nothing or to what it once exported.                                    *)
(***************************************************************************)
CONSTANTS Contents

VARIABLES
    held,      (* the contents that can be retrieved                       *)
    answer,    (* the last answer, to whoever offered a content            *)
    exported   (* the sets that a restart can find                         *)

setVars == <<held, answer, exported>>

SetInit == held = {} /\ answer = <<"none">> /\ exported = {}

\* The content is taken, recognised or turned away.
Offer(c) ==
    /\ \/ c \notin held /\ held' = held \cup {c} /\ answer' = <<"ingested", c>>
       \/ c \in held    /\ held' = held          /\ answer' = <<"duplicate", c>>
       \/ held' = held  /\ answer' = <<"rejected", c>>
    /\ UNCHANGED exported

\* What decays or is consolidated away is no longer held.
Forget ==
    /\ held' \in SUBSET held
    /\ UNCHANGED <<answer, exported>>

\* Older exports stay, or are cleaned up.
Export ==
    /\ \E older \in SUBSET exported : exported' = older \cup {held}
    /\ UNCHANGED <<held, answer>>

\* A restart finds one of the exports, or nothing.
Reload ==
    /\ held' \in exported \cup {{}}
    /\ answer' = <<"none">>
    /\ UNCHANGED exported

SetNext ==
    \/ \E c \in Contents : Offer(c)
    \/ Forget
    \/ Export
    \/ Reload

SetSpec == SetInit /\ [][SetNext]_setVars
=============================================================================
