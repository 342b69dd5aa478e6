------------------------------ MODULE MCService ------------------------------
(* Service on a small instance: an ordinary account with a token and a        *)
(* device, the demo account with a token, an administrator who is not logged  *)
(* in yet; two requests and two runs of the weekly report at a time.          *)
EXTENDS Service, TLC

CONSTANTS ann, bob, demo

MCLoggedIn == <<ann, demo>>
MCUsers == {ann, bob, demo}
MCMixes == {{"schedule", "cancel", "discord", "demo", "reset"},
            {"bot_login", "bot_logout", "link", "schedule"},
            {"transcribe", "demo", "reset", "logout", "dev"},
            {"report", "register", "unregister", "settings", "schedule", "reset"}}

MCSymmetry == Permutations(Procs) \cup Permutations(Workers)
=============================================================================
