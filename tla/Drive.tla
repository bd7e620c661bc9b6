------------------------------- MODULE Drive -------------------------------
(* What a game is promised of its disc. Until it is mounted, files are put on *)
(* it and replaced; from then on its files stay the same, and a read delivers *)
(* exactly the bytes that were asked for, of the file that was asked for, or  *)
(* fails and leaves the game's buffer alone. It fails only when the file does *)
(* not have those bytes, or does not have them any more.                      *)
EXTENDS Integers

CONSTANTS
    Path, Host,
    FileSize,           \* of each host file when it was registered
    Offset, Length,     \* what reads ask for
    NoPath              \* a read that names no file

VARIABLES
    mounted,
    contents,   \* the host file behind each path of the disc
    host,       \* what there is of each host file now
    reply       \* the read just made: what was asked, how it ended, what it delivered

vars == <<mounted, contents, host, reply>>

Nothing == [host |-> {}, from |-> 0, bytes |-> 0]

Init ==
    /\ mounted = FALSE
    /\ contents = << >>
    /\ reply = << >>

\* A host file is put at some paths, in place of whatever was there.
Put ==
    /\ ~mounted
    /\ \E h \in Host : \E paths \in SUBSET Path :
            contents' = [p \in DOMAIN contents \cup paths |->
                            IF p \in paths THEN h ELSE contents[p]]
    /\ UNCHANGED <<mounted, host, reply>>

\* What was listed so far is dropped, to be listed again.
Empty == ~mounted /\ contents' = << >> /\ UNCHANGED <<mounted, host, reply>>

Mount == ~mounted /\ mounted' = TRUE /\ UNCHANGED <<contents, host, reply>>

\* The user changes files under the running game.
HostChanges == UNCHANGED <<mounted, contents, reply>>

Least(m, n) == IF m < n THEN m ELSE n
Lacks(h, end) == ~host[h].there \/ host[h].size < end

Ended(asked, state, delivered) ==
    reply' = [asked |-> asked, state |-> state, delivered |-> delivered]
Delivers(asked, h, from, bytes) ==
    /\ host[h].size >= from + bytes
    /\ Ended(asked, "end", IF bytes = 0 THEN Nothing
                           ELSE [host |-> {h}, from |-> from, bytes |-> bytes])

\* A read of `length` bytes at `offset` of the file at p, cut at its end.
Read(p, offset, length, inMemory) ==
    LET h == contents[p]
        bytes == Least(length, FileSize[h] - offset)
        asked == [by |-> "handle", path |-> p, offset |-> offset, length |-> length]
    IN  IF /\ offset \in 0 .. FileSize[h] - 1
           /\ length >= 0
           /\ inMemory \/ bytes = 0
        THEN \/ Delivers(asked, h, offset, bytes)
             \/ Lacks(h, offset + bytes) /\ Ended(asked, "fatal", Nothing)
        ELSE Ended(asked, "fatal", Nothing)

\* A read at a place of the disc, or by a handle that lies inside a file: of the file
\* that is there, of the disc's header, or of nothing. By place, a length of 0 asks for
\* the rest of the file; only by handle is a read cut at its end.
ReadAnywhere(by, length) ==
    LET asked == [by |-> by, path |-> NoPath, offset |-> 0, length |-> length]
        Bytes(rest) == IF by = "handle" THEN Least(length, rest)
                       ELSE IF length = 0 THEN rest ELSE length
    IN  \/ Ended(asked, "fatal", Nothing)
        \/ by = "place" /\ length = 0 /\ Ended(asked, "end", Nothing)
        \/ /\ by = "place"
           /\ Ended(asked, "end", [host |-> {"header"}, from |-> 0, bytes |-> length])
        \/ /\ length >= 0
           /\ \E p \in DOMAIN contents : \E from \in 0 .. FileSize[contents[p]] :
                Delivers(asked, contents[p], from, Bytes(FileSize[contents[p]] - from))

\* The game goes on from the read.
GoesOn == mounted /\ reply' = << >> /\ UNCHANGED <<mounted, contents, host>>

Reads ==
    /\ mounted
    /\ reply = << >>
    /\ UNCHANGED <<mounted, contents, host>>
    /\ \/ \E p \in DOMAIN contents, offset \in Offset, length \in Length,
             inMemory \in BOOLEAN : Read(p, offset, length, inMemory)
       \/ \E by \in {"handle", "place"}, length \in Length : ReadAnywhere(by, length)

Next == Put \/ Empty \/ Mount \/ HostChanges \/ Reads \/ GoesOn
Spec == Init /\ [][Next]_vars
=============================================================================
