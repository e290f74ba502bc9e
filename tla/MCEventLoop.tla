---------------------------- MODULE MCEventLoop ------------------------------
(* EventLoop with its threads, functors and descriptors as model values.   *)
EXTENDS EventLoop

CONSTANTS t1, t2, f, g, h, sock

MCCallers == {t1, t2}
MCFunctor == {f, g, h}
MCOtherFds == {sock}
=============================================================================
