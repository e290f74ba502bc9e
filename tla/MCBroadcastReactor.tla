-------------------------- MODULE MCBroadcastReactor --------------------------
(* Three clients of the broadcasting server: two lines from one of them, one *)
(* from the others.                                                          *)
EXTENDS BroadcastReactor, TLC

CONSTANTS ann, bob, cleo

MCClients == {ann, bob, cleo}
MCLines == (ann :> 2) @@ (bob :> 1) @@ (cleo :> 1)
MCLeavers == {bob}
MCFds == {5, 6, 7}
=============================================================================
