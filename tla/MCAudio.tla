------------------------------ MODULE MCAudio ------------------------------
(* A small instance of Audio: three blocks, of which a tick delivers two; two *)
(* units to a block and three to each of the two buffers, so that blocks go   *)
(* across buffers; and a queue of one.                                        *)
EXTENDS Audio
=============================================================================
