-------------------------- MODULE MCDependencyGraph --------------------------
(* Small instances of DependencyGraph for TLC.                             *)
EXTENDS GraphSearch

CONSTANTS a1, a2, user, s, t

\* Two versions of a file that defines s, the second in another language, and
\* a file that defines t; a2 uses what it exports.
Used == (a1 :> {s, t}) @@ (a2 :> {s}) @@ (user :> {s, t})

Defined == (a1 :> {s}) @@ (a2 :> {}) @@ (user :> {t})

Exported == (a1 :> {}) @@ (a2 :> {s}) @@ (user :> {})
=============================================================================
