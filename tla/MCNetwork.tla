----------------------------- MODULE MCNetwork -----------------------------
(* A small instance of Network: one guest thread, cancelled and created       *)
(* again, and one socket slot over two host descriptors, opened and rerouted, *)
(* so that the frame, the slot and a descriptor are all used again while      *)
(* calls made before are parked; and two sessions that may share the socket.  *)
EXTENDS Network

MCFds == {0}
MCSessions == {0, 1}

\* Calls and sessions meet in the sockets only: the second session is looked at
\* in games that have made one call at most.
SecondSessionEarly == session[1].active => token <= 2
=============================================================================
