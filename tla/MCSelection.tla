---------------------------- MODULE MCSelection ----------------------------
EXTENDS Selection, TLC

CONSTANTS f1, f2, f3

OneTo(a, b, c) == f1 :> a @@ f2 :> b @@ f3 :> c

Skeleton(n) == [kind |-> "skeleton", cost |-> n]
Reference(n) == [kind |-> "reference", cost |-> n]

\* A large, a middling and a small fragment, equal ones, and an empty one.
MCTokens == {OneTo(4, 2, 1), OneTo(3, 3, 2), OneTo(5, 3, 0)}

MCForms == {OneTo({}, {}, {}),
            OneTo({Skeleton(2), Reference(1)}, {Skeleton(1)}, {Reference(1)})}

MCRequests ==
    [tokens : MCTokens, forms : MCForms, pinned : SUBSET {f1, f3},
     precise : SUBSET {f2, f3}, relevant : {{f1, f2, f3}, {f2}, {}},
     estimated : {{}, {f1, f2}}, budget : {1, 3, 5, 6, 10}, ios : BOOLEAN]
=============================================================================
