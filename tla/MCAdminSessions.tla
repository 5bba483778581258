--------------------------- MODULE MCAdminSessions ---------------------------
(***************************************************************************)
(* Instances of AdminSessions.  The tokens are interchangeable.            *)
(***************************************************************************)
EXTENDS AdminSessions, TLC

Symmetry == Permutations(Token)
==============================================================================
