----------------------------- MODULE SoundLine -----------------------------
(***************************************************************************)
(* What the game's sound output promises of the blocks it is given: they   *)
(* are played whole, in order and once.  A block may be lost, but only a   *)
(* whole one of which nothing was played, and only where that much sound   *)
(* is on its way already that it would come too late: a block that was     *)
(* refused because too many are queued, or one dropped in front of a full  *)
(* renderer.  AudioOutput and Audio implement this specification.          *)
(***************************************************************************)
EXTENDS Naturals, Sequences

CONSTANTS BlockUnits,   \* the length of a block
          LimitUnits,   \* sound the renderer may hold before a block is lost
          MaxQueued     \* blocks that may be queued before one is refused

VARIABLES line,         \* the sound that is to be played, unit by unit
          next,         \* the number of the next block
          open          \* whether there is a renderer

lineVars == <<line, next, open>>

Block(n) == [i \in 1..BlockUnits |-> <<n, i>>]
Suffix(k) == SubSeq(line, k + 1, Len(line))

LineInit == line = <<>> /\ next = 1 /\ open = FALSE

Open == open' = TRUE /\ UNCHANGED <<line, next>>

Send ==
    /\ line' = line \o Block(next)
    /\ next' = next + 1
    /\ UNCHANGED open

Refuse ==
    /\ Len(line) >= MaxQueued * BlockUnits
    /\ next' = next + 1
    /\ UNCHANGED <<line, open>>

Lose ==
    /\ \E k \in 0..Len(line) :
        /\ open => k + BlockUnits > LimitUnits
        /\ k + BlockUnits <= Len(line)
        /\ \E n \in 1..(next - 1) : SubSeq(line, k + 1, k + BlockUnits) = Block(n)
        /\ line' = SubSeq(line, 1, k) \o Suffix(k + BlockUnits)
    /\ UNCHANGED <<next, open>>

Play ==
    /\ \E k \in 1..Len(line) : line' = Suffix(k)
    /\ UNCHANGED <<next, open>>

Close ==
    /\ open' = FALSE
    /\ \E k \in 0..Len(line) : line' = Suffix(k)
    /\ UNCHANGED next

LineNext == Open \/ Send \/ Refuse \/ Lose \/ Play \/ Close

LineSpec == LineInit /\ [][LineNext]_lineVars
=============================================================================
