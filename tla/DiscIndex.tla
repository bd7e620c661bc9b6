----------------------------- MODULE DiscIndex -----------------------------
(* The disc that a game sees (src/src/platform/fs/dvd.cpp,                    *)
(* src/src/platform/include/hle/dvd_contract.h): an extracted disc with mods  *)
(* laid over it, listed file by file at boot or by DVDInit, published to the  *)
(* guest as a file table whose every file has a range of disc offsets, and    *)
(* then read, by file handle or by disc offset, from host files that may have *)
(* been cut or deleted in the meantime.                                       *)
(*                                                                            *)
(* Reads run on the caller's thread: kDvdAsync is false in this build.        *)
EXTENDS Riivolution, FiniteSets

CONSTANTS
    Path, Host,     \* paths on the disc; host files
    FileSize,       \* of each host file when it is listed
    NameOf,         \* of each path: its last component
    Below,          \* pairs of paths, the second inside the first as a directory
    Discs,          \* the discs, and the mods of each in discovery order
    Word, Align,    \* 4 and 32 in the code
    Limit,          \* 2^32: what a word counts up to
    MaxFiles,       \* how many files the reserved table has room for
    MaxOpen,        \* kDvdOpenFiles
    HeaderSize,     \* of a read of the disc's header, at offset 0
    Offset, Length, Bias, Place,    \* what reads ask for
    Fragile,        \* the host files that the user cuts or deletes
    NoPath

ASSUME SizesAssumption ==
    /\ FileSize \in [Host -> Nat]
    /\ {Word, Align, Limit, MaxOpen} \subseteq Nat \ {0}
    /\ Align % Word = 0

\* What a disc and its mods are made of. A folder that maps by name has names.
Laid == [at : Path, host : Host]
FilePatchType == [at : Path, host : Host \cup {Nowhere}, create : BOOLEAN]
FolderPatchType ==
    [byName : {FALSE}, create : BOOLEAN, files : SUBSET Laid]
    \cup [byName : {TRUE}, create : BOOLEAN, files : SUBSET [at : STRING, host : Host]]
PatchType == [id : STRING, files : Seq(FilePatchType), folders : Seq(FolderPatchType)]
OptionType == [id : STRING, selected : Nat, choices : Seq(Seq(STRING))]
XmlType == [valid : BOOLEAN, options : Seq(OptionType), patches : Seq(PatchType)]
ChoiceType == [id : STRING, choice : Nat]
PackType == [xmls : Seq(XmlType), tree : SUBSET Laid,
             config : Seq(ChoiceType), pins : Seq(ChoiceType)]

ASSUME DiscsAssumption ==
    Discs \subseteq [trees : Seq(SUBSET Laid), fst : SUBSET [path : Path, word : Nat, size : Nat],
                    packs : Seq(PackType), missing : SUBSET Host, cardFails : BOOLEAN]

ASSUME ReadsAssumption ==
    Offset \cup Length \subseteq Int /\ Bias \cup Place \subseteq Nat /\ Fragile \subseteq Host

VARIABLES
    disc,       \* one of Discs
    overlays,   \* RuntimeRiivolution::Overlays: the mappings of each root, loaded once
    stage,      \* "off", "prescan", "prescanned", "scan", "ready", "failed"
    fast,       \* whether the disc is being listed by Horizon's own reads
    pending,    \* the mappings still to apply: <<overlay, position>>, 0 the disc itself
    left,       \* the files of the first of them not visited yet
    known,      \* how many entries there were when it was begun
    entries,    \* g_fileEntries before the table is built: every registration
    unlisted,   \* files that the card failed to list: <<overlay, position, file>>
    files,      \* g_fileEntries afterwards: path -> host file and first word
    extents,    \* g_publishedExtents: first byte -> path
    host,       \* what there is of each host file
    open,       \* the host files kept open, the one used last at the end
    reply       \* the read just made: what was asked, how it ended, what it delivered

index == <<stage, fast, pending, left, known, entries, unlisted, files, extents>>
vars == <<disc, overlays, index, host, open, reply>>

MaxIn(S) == CHOOSE m \in S : \A n \in S : n <= m
Larger(m, n) == IF m < n THEN n ELSE m
Least(m, n) == IF m < n THEN m ELSE n

Init ==
    /\ disc \in Discs
    /\ overlays = [i \in DOMAIN disc.packs |-> OverlayMappings(disc.packs[i])]
    /\ stage = "off"
    /\ fast = FALSE
    /\ pending = << >>
    /\ left = {}
    /\ known = 0
    /\ entries = << >>
    /\ unlisted = {}
    /\ files = << >>
    /\ extents = << >>
    /\ host = [h \in Host |-> [there |-> h \notin disc.missing, size |-> FileSize[h]]]
    /\ open = << >>
    /\ reply = << >>

-----------------------------------------------------------------------------
(* Listing the disc and what is laid over it.                                 *)

\* The files of the disc itself: "files" at "/", then "sys" at "/sys/".
DiscMapping(tree) == [kind |-> "folder", create |-> TRUE, files |-> tree]
Mappings(i) ==
    IF i = 0 THEN [n \in DOMAIN disc.trees |-> DiscMapping(disc.trees[n])]
             ELSE overlays[i]

Steps(i) == [n \in DOMAIN Mappings(i) |-> <<i, n>>]

\* Mutant of OverlaySteps: the roots in discovery order.
OverlayStepsInOrder == FlattenSeq([k \in DOMAIN overlays |-> Steps(k)])

\* "apply the roots in reverse discovery order"
OverlaySteps == FlattenSeq([k \in DOMAIN overlays |-> Steps(Len(overlays) + 1 - k)])

Mapping(step) == Mappings(step[1])[step[2]]
Begun(steps) ==
    /\ pending' = steps
    /\ left' = IF steps = << >> THEN {} ELSE Mapping(Head(steps)).files

\* RegisterFileEntry and g_pathToEntry: the last registration of a path is its entry.
Registered == {entries[k].path : k \in DOMAIN entries}
Latest(p) == MaxIn({k \in DOMAIN entries : entries[k].path = p})

\* DVD_HLE_PrescanDisc, before the game runs: Horizon's listing first.
PrescanDisc ==
    /\ stage = "off"
    /\ disc.trees # << >>
    /\ stage' = "prescan"
    /\ fast' = TRUE
    /\ Begun(Steps(0))
    /\ known' = 0
    /\ UNCHANGED <<disc, overlays, entries, unlisted, files, extents, host, open, reply>>

\* DVDInit: the disc, if there was no prescan, and then the overlays.
DVDInit ==
    /\ stage \in {"off", "prescanned"}
    /\ stage' = "scan"
    /\ fast' = FALSE
    /\ Begun((IF stage = "off" THEN Steps(0) ELSE << >>) \o OverlaySteps)
    /\ known' = Len(entries)
    /\ UNCHANGED <<disc, overlays, entries, unlisted, files, extents, host, open, reply>>

\* The paths to which a file of a mapping is registered. A by-name mapping replaces
\* the entries there were when it began, whatever their directory.
Targets(mapping, file) ==
    IF mapping.kind = "by name"
    THEN Kept([k \in 1 .. known |-> entries[k].path], {p \in Path : NameOf[p] = file.at})
    ELSE IF mapping.create \/ file.at \in Registered THEN <<file.at>> ELSE << >>

\* One file of the mapping: ScanDirectory's registerEntry, ApplyFolderByNameMapping's
\* applyEntry, or a file patch. A file that is not there is skipped.
Visit ==
    /\ \E file \in left :
        LET paths == IF host[file.host].there
                     THEN Targets(Mapping(Head(pending)), file) ELSE << >>
        IN  /\ left' = left \ {file}
            /\ entries' = entries \o [k \in DOMAIN paths |->
                                        [path |-> paths[k], host |-> file.host]]
    /\ UNCHANGED <<disc, overlays, stage, fast, pending, known, unlisted, files, extents,
                   host, open, reply>>

\* The next mapping, once a mapping is through.
NextMapping ==
    /\ pending # << >>
    /\ left = {}
    /\ Begun(Tail(pending))
    /\ known' = Len(entries)
    /\ UNCHANGED <<disc, overlays, stage, fast, entries, unlisted, files, extents, host,
                   open, reply>>

\* The card fails to list the rest of a folder: fsDirRead of the fast listing, or
\* the portable walk's increment. What was listed stays, and nothing is redone.
ListingStops ==
    /\ disc.cardFails
    /\ left # {}
    /\ Mapping(Head(pending)).kind # "file"
    /\ unlisted' = unlisted \cup {<<Head(pending)[1], Head(pending)[2], f>> : f \in left}
    /\ left' = {}
    /\ UNCHANGED <<disc, overlays, stage, fast, pending, known, entries, files, extents, host,
                   open, reply>>

\* The card fails to open a directory: "a partial listing is redone whole by the
\* portable walk".
FastListingFails ==
    /\ stage = "prescan"
    /\ fast
    /\ left # {}
    /\ fast' = FALSE
    /\ entries' = << >>
    /\ known' = 0
    /\ unlisted' = {}
    /\ Begun(Steps(0))
    /\ UNCHANGED <<disc, overlays, stage, files, extents, host, open, reply>>

PrescanEnds ==
    /\ stage = "prescan"
    /\ pending = << >>
    /\ stage' = "prescanned"
    /\ UNCHANGED <<disc, overlays, fast, pending, left, known, entries, unlisted, files, extents,
                   host, open, reply>>

-----------------------------------------------------------------------------
(* Publishing the file table.                                                 *)

\* LoadFstIndex: the disc's own table, its ends cut to 32 bits.
FstFiles == {f \in disc.fst : f.word * Word < Limit}
FstEnd(f) == (f.word * Word + f.size) % Limit

\* The word of the entry k on the real disc; 0 if it is not there. Only the last
\* registration of a path takes the place of the disc's file.
RealWord(k) ==
    LET same == {f \in FstFiles : f.path = entries[k].path}
    IN  IF same # {} /\ k = Latest(entries[k].path)
        THEN (CHOOSE f \in same : TRUE).word ELSE 0

AlignUp(n) == ((n + Align - 1) \div Align) * Align

\* The end of everything that is on the real disc: the disc's own files, and the
\* files that took their places.
RealEnds ==
    {FstEnd(f) : f \in FstFiles}
    \cup {RealWord(k) * Word + FileSize[entries[k].host] :
            k \in {n \in DOMAIN entries : RealWord(n) # 0}}

\* Mutant of RealEnd: only the disc's own files, however large those in their places.
RealEndOfDisc == MaxIn({0} \cup {FstEnd(f) : f \in FstFiles})

RealEnd == MaxIn({0} \cup RealEnds)

\* "Give runtime-added files unique synthetic disc ranges": the word of each entry,
\* and where the synthetic ranges go on after it.
Placed ==
    LET placed[k \in 0 .. Len(entries)] ==
            IF k = 0 THEN [next |-> RealEnd, word |-> 0, fits |-> TRUE]
            ELSE IF RealWord(k) # 0 THEN [placed[k - 1] EXCEPT !.word = RealWord(k)]
            ELSE [next |-> AlignUp(placed[k - 1].next) + Larger(FileSize[entries[k].host], 4),
                  word |-> AlignUp(placed[k - 1].next) \div Word,
                  fits |-> /\ placed[k - 1].fits
                           /\ AlignUp(placed[k - 1].next) \div Word < Limit]
    IN  placed

\* DvdFstContract::BuildImage, which keeps the last registration of each path.
Image(placed) ==
    [p \in Registered |-> [host |-> entries[Latest(p)].host, word |-> placed[Latest(p)].word]]
ImageFails ==
    \/ Cardinality(Registered) > MaxFiles
    \/ \E pair \in Below : {pair[1], pair[2]} \subseteq Registered

Start(image, p) == image[p].word * Word
\* A file's range; an empty file has a byte of it.
EndOf(image, p) == Start(image, p) + Larger(FileSize[image[p].host], 1)

\* The searchable ranges: of files that start together, std::sort may leave any last,
\* and the search takes the last.
Starts(image) == {Start(image, p) : p \in {q \in DOMAIN image : image[q].word # 0}}
Lasts(image) ==
    {S \in SUBSET DOMAIN image :
        /\ \A p \in S : image[p].word # 0
        /\ \A s \in Starts(image) : Cardinality({p \in S : Start(image, p) = s}) = 1}

BuildAndPublishRuntimeFst ==
    /\ stage = "scan"
    /\ pending = << >>
    /\ \E placed \in {Placed} : \E image \in {Image(placed)} :
        IF ~placed[Len(entries)].fits \/ ImageFails
        THEN stage' = "failed" /\ UNCHANGED <<entries, known, files, extents>>
        ELSE /\ stage' = "ready"
             /\ files' = image
             /\ \E last \in Lasts(image) :
                    extents' = [s \in Starts(image) |-> CHOOSE p \in last : Start(image, p) = s]
             /\ entries' = << >>
             /\ known' = 0
    /\ UNCHANGED <<disc, overlays, fast, pending, left, unlisted, host, open, reply>>

-----------------------------------------------------------------------------
(* Reading.                                                                   *)

Idle == stage = "ready" /\ reply = << >>

Nothing == [host |-> {}, from |-> 0, bytes |-> 0]
Ended(asked, state, delivered) ==
    reply' = [asked |-> asked, state |-> state, delivered |-> delivered]
Fatal(asked) == Ended(asked, "fatal", Nothing) /\ UNCHANGED open
Delivers(asked, h, from, bytes) ==
    Ended(asked, "end", IF bytes = 0 THEN Nothing
                        ELSE [host |-> {h}, from |-> from, bytes |-> bytes])

\* Mutant of Found: the search is a lower_bound.
FoundByLowerBound(byte) ==
    LET before == {s \in DOMAIN extents : s < byte}
    IN  IF before # {} /\ byte < EndOf(files, extents[MaxIn(before)])
        THEN {MaxIn(before)} ELSE {}

\* FindPublishedExtentForByteOffset: the start of the extent at a byte, if any.
Found(byte) ==
    LET before == {s \in DOMAIN extents : s <= byte}
    IN  IF before # {} /\ byte < EndOf(files, extents[MaxIn(before)])
        THEN {MaxIn(before)} ELSE {}

\* Mutant of NowOpen: no file is closed for a new one.
NowOpenAll(h) == Append(Kept(open, Host \ {h}), h)

\* DvdWorkerRead: through the files kept open, of which the one used longest ago is
\* closed for a new one. An open file can be read after it was deleted.
NowOpen(h) ==
    IF h \in Range(open) THEN Append(Kept(open, Host \ {h}), h)
    ELSE Append(IF Len(open) >= MaxOpen THEN Tail(open) ELSE open, h)

DvdReadNow(asked, h, from, bytes) ==
    IF h \notin Range(open) /\ ~host[h].there
    THEN Fatal(asked)
    ELSE /\ open' = NowOpen(h)
         /\ IF bytes = 0 \/ from + bytes <= host[h].size
            THEN Delivers(asked, h, from, bytes)
            ELSE Ended(asked, "fatal", Nothing)

\* ResolveFileRead of a file handle that holds a published word, or one that lies
\* `bias` words further on.
ReadHandle(asked, word, inMemory) ==
    LET found == Found(word * Word)
        start == CHOOSE s \in found : TRUE
        h == files[extents[start]].host
        from == word * Word - start + asked.offset
        bytes == Least(asked.length, FileSize[h] - from)
    IN  IF \/ found = {}
           \/ asked.offset < 0 \/ asked.length < 0
           \/ from >= FileSize[h]
           \/ bytes # 0 /\ ~inMemory
        THEN Fatal(asked)
        ELSE DvdReadNow(asked, h, from, bytes)

\* DVDReadPrio and DVDReadAsyncPrio.
ReadFile ==
    /\ Idle
    /\ \E p \in DOMAIN files, offset \in Offset, length \in Length, inMemory \in BOOLEAN :
        ReadHandle([by |-> "handle", path |-> p, offset |-> offset, length |-> length],
                   files[p].word, inMemory)
    /\ UNCHANGED <<disc, overlays, index, host>>
ReadInsideFile ==
    /\ Idle
    /\ \E p \in DOMAIN files, length \in Length, bias \in Bias :
        ReadHandle([by |-> "handle", path |-> NoPath, offset |-> 0, length |-> length],
                   files[p].word + bias, TRUE)
    /\ UNCHANGED <<disc, overlays, index, host>>

\* ResolveAbsRead: "Accept both byte offsets and the FST's four-byte word offsets".
Effective(place) == IF Found(place) # {} THEN place ELSE place * Word

AtPlace(length) == [by |-> "place", path |-> NoPath, offset |-> 0, length |-> length]

\* ReadExact, of as many bytes as were asked for, 0 asking for the rest.
ReadAbs(place, length, inMemory) ==
    LET asked == AtPlace(length)
        found == Found(Effective(place))
        start == CHOOSE s \in found : TRUE
        h == files[extents[start]].host
        from == Effective(place) - start
        rest == FileSize[h] - from
        bytes == IF length = 0 \/ length > rest THEN rest ELSE length
    IN  IF \/ found = {}
           \/ length # 0 /\ bytes # length
           \/ length # 0 /\ ~inMemory
           \/ ~host[h].there \/ from >= host[h].size \/ from + bytes > host[h].size
        THEN Ended(asked, "fatal", Nothing)
        ELSE Delivers(asked, h, from, bytes)

\* DVDReadAbsAsyncPrio. A read of 0 bytes to a place outside memory faults in the
\* copy, and is left out.
ReadAbsAsyncPrio ==
    /\ Idle
    /\ \E place \in Place, length \in Length, inMemory \in BOOLEAN :
        /\ inMemory \/ length # 0
        /\ IF length < 0
           THEN Ended(AtPlace(length), "fatal", Nothing)
           ELSE ReadAbs(place, length, inMemory)
    /\ UNCHANGED <<disc, overlays, index, host, open>>

\* DVDLowRead: no bytes, the header, or a place of the disc.
DVDLowRead ==
    /\ Idle
    /\ \E place \in Place, length \in Length, inMemory \in BOOLEAN :
        LET asked == AtPlace(length)
        IN  /\ length >= 0
            /\ CASE length = 0 -> Ended(asked, "end", Nothing)
                 [] place = 0 /\ length >= HeaderSize ->
                        IF inMemory
                        THEN Ended(asked, "end",
                                   [host |-> {"header"}, from |-> 0, bytes |-> length])
                        ELSE Ended(asked, "fatal", Nothing)
                 [] OTHER -> ReadAbs(place, length, inMemory)
    /\ UNCHANGED <<disc, overlays, index, host, open>>

\* The game goes on from the read.
GoesOn ==
    /\ reply # << >>
    /\ reply' = << >>
    /\ UNCHANGED <<disc, overlays, index, host, open>>

\* The user cuts or deletes a file while the game runs.
HostChanges ==
    /\ Idle
    /\ \E h \in Fragile :
        /\ host[h].there
        /\ \/ host[h].size = FileSize[h] /\ FileSize[h] > 0
              /\ host' = [host EXCEPT ![h].size = @ - 1]
           \/ host' = [host EXCEPT ![h].there = FALSE]
    /\ UNCHANGED <<disc, overlays, index, open, reply>>

Next ==
    \/ PrescanDisc \/ DVDInit \/ Visit \/ NextMapping \/ ListingStops
    \/ FastListingFails \/ PrescanEnds \/ BuildAndPublishRuntimeFst
    \/ ReadFile \/ ReadInsideFile \/ ReadAbsAsyncPrio \/ DVDLowRead
    \/ GoesOn \/ HostChanges

Spec == Init /\ [][Next]_vars

-----------------------------------------------------------------------------
(* Properties.                                                                *)

TypeOK ==
    /\ disc \in Discs
    /\ stage \in {"off", "prescan", "prescanned", "scan", "ready", "failed"}
    /\ fast \in BOOLEAN
    /\ known \in 0 .. Len(entries)
    /\ entries \in Seq([path : Path, host : Host])
    /\ DOMAIN files \subseteq Path
    /\ \A p \in DOMAIN files : files[p] \in [host : Host, word : 0 .. Limit - 1]
    /\ \A s \in DOMAIN extents : extents[s] \in DOMAIN files /\ Start(files, extents[s]) = s
    /\ \A h \in Host : host[h].there \in BOOLEAN /\ host[h].size \in 0 .. FileSize[h]
    /\ open \in Seq(Host)
    /\ Len(open) <= MaxOpen
    /\ Cardinality(Range(open)) = Len(open)

\* An option stands at its last valid pin, else at the last choice remembered for it,
\* else where it starts: said without applying one after the other.
LastChoice(s, P(_)) == LET hits == {k \in DOMAIN s : P(s[k])}
                       IN  IF hits = {} THEN {} ELSE {s[MaxIn(hits)].choice}
ChoiceOf(option, pack) ==
    LET pinned == LastChoice(pack.pins, LAMBDA c : c.id = option.id
                                            /\ c.choice <= Len(option.choices))
        remembered == LastChoice(pack.config, LAMBDA c : c.id = option.id)
    IN  CHOOSE c \in IF pinned # {} THEN pinned
                     ELSE IF remembered # {} THEN remembered ELSE {option.selected} : TRUE
\* The patches of the choices made: an id is of the first patch that has it.
ChosenPatches(xml, pack) ==
    {xml.patches[k] : k \in {i \in DOMAIN xml.patches :
        /\ \A j \in 1 .. i - 1 : xml.patches[j].id # xml.patches[i].id
        /\ \E option \in Range(xml.options) :
            /\ ChoiceOf(option, pack) \in DOMAIN option.choices
            /\ xml.patches[i].id \in Range(option.choices[ChoiceOf(option, pack)])}}

\* The files a step offers for a path, and where a path gets a file from: the steps
\* of the first overlay in discovery order that has one outrank the others, and in
\* it the later ones; only a creating step puts a path on the disc that was not
\* there before.
AllSteps == UNION {{<<i, n>> : n \in DOMAIN Mappings(i)} : i \in 0 .. Len(overlays)}
Outranks(s, t) == IF s[1] = t[1] THEN s[2] > t[2]
                  ELSE t[1] = 0 \/ (s[1] # 0 /\ s[1] < t[1])
Offered(s, p) ==
    {f.host : f \in {g \in Mapping(s).files :
        /\ g.at = IF Mapping(s).kind = "by name" THEN NameOf[p] ELSE p
        /\ g.host \notin disc.missing
        /\ <<s[1], s[2], g>> \notin unlisted}}
Creates(s, p) == Offered(s, p) # {} /\ Mapping(s).create /\ Mapping(s).kind # "by name"
Sources(p) ==
    {s \in AllSteps : /\ Offered(s, p) # {}
                      /\ Creates(s, p) \/ \E t \in AllSteps : Outranks(s, t) /\ Creates(t, p)}

\* "RegisterFileEntry lets the last registration win, so apply the roots in reverse
\* discovery order: the explicitly configured root outranks the mod manifest": the
\* disc that is published has, at every path, the file of the source that outranks
\* the others, and no other path; and a mod's patches are those of the choices made.
OverlaysOutrank ==
    /\ stage = "off" =>
        \A pack \in Range(disc.packs) : \A xml \in Range(pack.xmls) :
            Range(GeneratePatches(xml, pack)) = ChosenPatches(xml, pack)
    /\ Idle =>
        /\ DOMAIN files = {p \in Path : Sources(p) # {}}
        /\ \A p \in DOMAIN files : \E s \in Sources(p) :
            /\ \A t \in Sources(p) \ {s} : Outranks(s, t)
            /\ files[p].host \in Offered(s, p)

\* "Give runtime-added files unique synthetic disc ranges so reads can find them": the
\* range of a file that is not on the real disc meets no other file's, and the file is
\* found from its start. (Where the real disc has files, that is: without one, the
\* first range is at 0, which stands for none.)
OnRealDisc(p) == \E f \in disc.fst : f.path = p
SyntheticApart ==
    Idle =>
        \A p \in {r \in DOMAIN files : ~OnRealDisc(r)} :
            /\ Found(Start(files, p)) # {} /\ extents[Start(files, p)] = p
            /\ \A q \in DOMAIN files \ {p} :
                \/ EndOf(files, p) <= Start(files, q)
                \/ EndOf(files, q) <= Start(files, p)

\* A disc without files; or one whose table has some, and ends after the start of each of
\* them and before the 2^32 that a word counts up to.
TableInOrder(d) ==
    LET listed == {f \in d.fst : f.word * Word < Limit}
    IN  \/ d.trees = << >> /\ d.packs = << >>
        \/ /\ listed # {}
           /\ \A f \in listed : \E g \in listed : /\ f.word * Word < g.word * Word + g.size
                                                  /\ g.word * Word + g.size < Limit

\* The words of a disc's table that count name one file each.
WordsApart(d) ==
    \A f, g \in {e \in d.fst : e.word * Word < Limit} :
        f.word = g.word /\ f.word # 0 => f.path = g.path

\* The index and its reads are a disc with the promises of Drive.
D == INSTANCE Drive WITH
        mounted <- stage = "ready",
        contents <- IF stage = "ready" THEN [p \in DOMAIN files |-> files[p].host]
                    ELSE [p \in Registered |-> entries[Latest(p)].host]
ImplementsDrive == D!Spec
=============================================================================
