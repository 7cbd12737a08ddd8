----------------------------- MODULE MCAnswers -----------------------------
(* How optimize arranges what it selected, and the skills that replay what *)
(* was selected before, share no state and are checked together.  In a     *)
(* behavior one of the two runs, so what is explored is that of each alone.*)
EXTENDS MCArrangement, MCSkillRecipes

VARIABLE part

answersVars == <<part, arrangementVars, recipeVars>>

\* An arrangement that stays begins with some one of the selections.
AnyChoice == CHOOSE s \in Selections : TRUE

AnswersInit ==
    /\ part \in {"arrangement", "recipes"}
    /\ part # "arrangement" => choice = AnyChoice
    /\ ArrangementInit
    /\ RecipesInit

Arranges == part = "arrangement" /\ ArrangementNext /\ UNCHANGED <<part, recipeVars>>

Learns == part = "recipes" /\ RecipesNext /\ UNCHANGED <<part, arrangementVars>>

Expires == part = "recipes" /\ ExpireRouter /\ UNCHANGED <<part, arrangementVars>>

AnswersSpec ==
    /\ AnswersInit
    /\ [][Arranges \/ Learns]_answersVars
    /\ WF_answersVars(Expires)
=============================================================================
