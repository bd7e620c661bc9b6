--------------------------- MODULE MCMessageQueue ---------------------------
(* An instance of MessageQueue for TLC: three threads and two messages.    *)
EXTENDS MessageQueue

CONSTANTS t1, t2, t3, m1, m2

MCThread == {t1, t2, t3}
MCMessage == {m1, m2}
=============================================================================
