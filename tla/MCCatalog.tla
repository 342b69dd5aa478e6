------------------------------ MODULE MCCatalog ------------------------------
(* Catalog on a small instance: two process names, one of them also the name  *)
(* IGDB gives a game, so that writes of equal values meet.                    *)
EXTENDS Catalog, TLC

CONSTANTS e1, e2, s1, n1, n2, t2, t3

MCTitleOf == e1 :> n1 @@ e2 :> t2 @@ s1 :> t3
\* A recognised game, and a stub the bot made of a process it saw.
MCSeed == <<[row |-> Applied(Stub(n1, "PENDING"), e1, TRUE, NoCover), names |-> {}],
            [row |-> Stub(n2, "PENDING"), names |-> {n2}]>>
MCMixes == {[ops |-> {"bot", "prefer", "requeue"}, calls |-> 3],
            [ops |-> {"bot", "merge", "alias"}, calls |-> 4],
            [ops |-> {"create", "cover", "link", "requeue"}, calls |-> 3],
            [ops |-> {"link", "merge", "create"}, calls |-> 3],
            [ops |-> {"prefer", "merge", "link"}, calls |-> 3]}
MCMerges == {[ops |-> {"requeue", "merge"}, calls |-> 2]}
MCSymmetry == Permutations(Procs) \cup Permutations(Workers) \cup Permutations(Users)
=============================================================================
