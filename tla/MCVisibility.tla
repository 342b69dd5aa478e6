---------------------------- MODULE MCVisibility -----------------------------
(* Visibility on a small instance: the user is in the first of two guilds.    *)
(* No symmetry, as a liveness property is checked.                            *)
EXTENDS Visibility

CONSTANT g1

MCFirstMembers == [g \in Guilds |-> IF g = g1 THEN Users ELSE {}]
=============================================================================
