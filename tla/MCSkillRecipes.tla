---------------------------- MODULE MCSkillRecipes ----------------------------
(* Small instances of SkillRecipes for TLC. *)
EXTENDS SkillRecipes

CONSTANT q1

\* The terms of a family are in its own queries.
OwnTerms == {<<q, q>> : q \in Queries}
=============================================================================
