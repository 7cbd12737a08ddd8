--------------------------- MODULE MCChangeListener ---------------------------
(* Small instances of ChangeListener for TLC. *)
EXTENDS ChangeListener, TLC

CONSTANTS f1, f2, f3, n1, n2

\* f1 and f2 have the same name, which is a part of the name of f3.
Stems == [f \in Files |-> IF f = f3 THEN n2 ELSE n1]

StemsWithin == {<<n1, n1>>, <<n1, n2>>, <<n2, n2>>} \cap (Names \X Names)
=============================================================================
