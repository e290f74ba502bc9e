---------------------------- MODULE MCEchoServer -----------------------------
(* EchoServer with its clients and workers as model values.                *)
EXTENDS EchoServer, TLC

CONSTANTS c1, c2, c3, w1

OneWorker == {w1}
TwoClients == {c1, c2}
OneEach == [c \in TwoClients |-> 1]
ThreeClients == {c1, c2, c3}
TwoOneNone == (c1 :> 2) @@ (c2 :> 1) @@ (c3 :> 0)
Leaver == {c2}
MCFds == 1..2
MCOtherFds == MCFds \cup {ListenFd}
MCFunctor == Line
=============================================================================
