----------------------------- MODULE MCSessions -----------------------------
(* Instances of Sessions for TLC.                                          *)
EXTENDS SessionsRefinement, TLC

CONSTANTS hades, hadesExe, celeste, gHades, gCeleste

\* Two activity strings of one game, and another game.
MCGameOf == (hades :> gHades) @@ (hadesExe :> gHades) @@ (celeste :> gCeleste)
MCTwoGames == (hades :> gHades) @@ (celeste :> gCeleste)
MCOneGame == (hades :> gHades)

Symmetry == Permutations(Ids) \cup Permutations(Reqs)
=============================================================================
