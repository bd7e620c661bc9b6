------------------------------ MODULE MCVideo ------------------------------
(* A small instance of Video.                                                *)
EXTENDS Video
=============================================================================
