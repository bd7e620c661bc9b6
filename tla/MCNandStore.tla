---------------------------- MODULE MCNandStore ----------------------------
(* Two versions of one title, which do not have the same contents, and a      *)
(* second title that shares contents with both.                               *)
EXTENDS NandStore

CONSTANTS game, channel, x, y, z, lib, font

Own(i, h) == [id |-> i, shared |-> FALSE, sha1 |-> h]
Shared(i, h) == [id |-> i, shared |-> TRUE, sha1 |-> h]

MCPackages ==
    {[title |-> game, contents |-> <<Own(1, x), Own(2, y), Shared(3, lib)>>],
     [title |-> game, contents |-> <<Own(1, z), Shared(3, font)>>],
     [title |-> channel, contents |-> <<Own(1, x), Shared(2, font), Shared(3, lib)>>]}
=============================================================================
