----------------------------- MODULE NandStore -----------------------------
(* Installing titles into a NAND and removing them (format/nand/store.cpp).   *)
(* A title is a ticket, a TMD and contents of its own; contents it shares     *)
(* with other titles are kept once in /shared1, under names a map gives them. *)
(* An installation is a sequence of writes, each of which may fail or be cut  *)
(* short by the loss of power, and nothing is undone.                         *)
(* A content's bytes are told apart by its hash, which is what stands for     *)
(* them here; keys, signatures and the layout of a WAD are left out.          *)
EXTENDS Naturals, Sequences

CONSTANTS
    Titles,
    Ids,            \* the content ids that name a title's own files
    Hashes,         \* the SHA-1 of contents
    Packages,       \* the WADs: [title, contents]
    None,           \* no TMD, or none that can be parsed
    Missing, Torn   \* no such file; a file cut short

Contents == [id : Ids, shared : BOOLEAN, sha1 : Hashes]

ASSUME PackagesAssumption == Packages \subseteq [title : Titles, contents : Seq(Contents)]
\* A title's own contents are told apart by their ids.
ASSUME IdsAssumption ==
    \A p \in Packages : \A i, j \in DOMAIN p.contents :
        /\ ~p.contents[i].shared /\ ~p.contents[j].shared
        /\ p.contents[i].id = p.contents[j].id
        => i = j
ASSUME MarkersAssumption == None \notin Packages /\ Missing \notin Hashes /\ Torn \notin Hashes

VARIABLES
    ticket,     \* /ticket/<title>.tik
    tmd,        \* /title/<title>/content/title.tmd
    own,        \* /title/<title>/content/<id>.app
    app,        \* /shared1/<name>.app, for the names in use
    map,        \* /shared1/content.map: the hash that each name was given, in order
    job,        \* the call under way
    installed,  \* the packages installed to the end, their titles not touched since
    mapTorn     \* a write of the map was once cut short

nandFiles == <<ticket, tmd, own, app, map>>
nandVars == <<ticket, tmd, own, app, map, job, installed, mapTorn>>

NoJob == [op |-> "none"]

NandInit ==
    /\ ticket = [t \in Titles |-> None]
    /\ tmd = [t \in Titles |-> None]
    /\ own = [t \in Titles |-> [i \in Ids |-> Missing]]
    /\ app = << >>
    /\ map = << >>
    /\ job = NoJob
    /\ installed = {}
    /\ mapTorn = FALSE

-----------------------------------------------------------------------------
\* The shared map. A name is the count of entries before it, from 0 on disk
\* and from 1 here, so the entry's place is its name. A map stored the other
\* way round is turned when it is loaded.

Known(shared, sha1) == \E n \in DOMAIN shared : shared[n] = sha1

NameIn(shared, sha1) == CHOOSE n \in DOMAIN shared : shared[n] = sha1

\* Mutant of NextName: the count taken after the entry is there.
NextNameOfLast(shared) == Len(shared)

\* The name the next content gets, and the map with it.
NextName(shared) == Len(shared) + 1

Added(shared, sha1) == Append(shared, sha1)

-----------------------------------------------------------------------------
\* InstallTitle: ticket, TMD, contents, map.

Package == job.package
Title == job.package.title
Content == job.package.contents[job.next]

At(op, step) == job.op = op /\ job.step = step

Installing(p, step, next, shared) ==
    [op |-> "install", package |-> p, step |-> step, next |-> next, shared |-> shared]

Touched(t) == installed' = {p \in installed : p.title # t}

InstallTitle(p) ==
    /\ job = NoJob
    /\ job' = Installing(p, "ticket", 1, << >>)
    /\ Touched(p.title)
    /\ UNCHANGED <<nandFiles, mapTorn>>

WriteTicket ==
    /\ At("install", "ticket")
    /\ ticket' = [ticket EXCEPT ![Title] = Package]
    /\ job' = Installing(Package, "tmd", 1, << >>)
    /\ UNCHANGED <<tmd, own, app, map, installed, mapTorn>>

\* The map is loaded once the TMD is written.
WriteTmd ==
    /\ At("install", "tmd")
    /\ tmd' = [tmd EXCEPT ![Title] = Package]
    /\ job' = Installing(Package, "contents", 1, map)
    /\ UNCHANGED <<ticket, own, app, map, installed, mapTorn>>

NextContent(shared) == job' = Installing(Package, "contents", job.next + 1, shared)

MoreContents == At("install", "contents") /\ job.next \in DOMAIN job.package.contents

WriteOwn ==
    /\ MoreContents
    /\ ~Content.shared
    /\ own' = [own EXCEPT ![Title] = [own[Title] EXCEPT ![Content.id] = Content.sha1]]
    /\ NextContent(job.shared)
    /\ UNCHANGED <<ticket, tmd, app, map, installed, mapTorn>>

\* A content another title has installed is not written again.
SkipShared ==
    /\ MoreContents
    /\ Content.shared
    /\ Known(job.shared, Content.sha1)
    /\ NextContent(job.shared)
    /\ UNCHANGED <<nandFiles, installed, mapTorn>>

\* The files of /shared1 with the next one written.
WithApp(bytes) ==
    [n \in DOMAIN app \cup {NextName(job.shared)} |->
        IF n = NextName(job.shared) THEN bytes ELSE app[n]]

WriteShared ==
    /\ MoreContents
    /\ Content.shared
    /\ ~Known(job.shared, Content.sha1)
    /\ app' = WithApp(Content.sha1)
    /\ NextContent(Added(job.shared, Content.sha1))
    /\ UNCHANGED <<ticket, tmd, own, map, installed, mapTorn>>

\* An empty map is not written.
WriteMap ==
    /\ At("install", "contents")
    /\ job.next \notin DOMAIN job.package.contents
    /\ map' = job.shared
    /\ job' = NoJob
    /\ installed' = installed \cup {Package}
    /\ UNCHANGED <<ticket, tmd, own, app, mapTorn>>

-----------------------------------------------------------------------------
\* A write that fails ends the installation, and the loss of power ends the
\* process. What was being written is as before, or cut short: a TMD or ticket
\* cut short does not parse, and a map cut short keeps its first entries.

Interrupted ==
    \/ At("install", "ticket") /\ UNCHANGED <<nandFiles, mapTorn>>
    \/ /\ At("install", "ticket")
       /\ ticket' = [ticket EXCEPT ![Title] = None]
       /\ UNCHANGED <<tmd, own, app, map, mapTorn>>
    \/ /\ At("install", "tmd")
       /\ \E left \in {tmd[Title], None} : tmd' = [tmd EXCEPT ![Title] = left]
       /\ UNCHANGED <<ticket, own, app, map, mapTorn>>
    \/ At("install", "contents") /\ UNCHANGED <<nandFiles, mapTorn>>
    \/ /\ MoreContents
       /\ ~Content.shared
       /\ own' = [own EXCEPT ![Title] = [own[Title] EXCEPT ![Content.id] = Torn]]
       /\ UNCHANGED <<ticket, tmd, app, map, mapTorn>>
    \/ /\ MoreContents
       /\ Content.shared
       /\ ~Known(job.shared, Content.sha1)
       /\ app' = WithApp(Torn)
       /\ UNCHANGED <<ticket, tmd, own, map, mapTorn>>
    \/ /\ At("install", "contents")
       /\ job.next \notin DOMAIN job.package.contents
       /\ job.shared # << >>
       /\ \E n \in 0 .. Len(job.shared) : map' = SubSeq(job.shared, 1, n)
       /\ mapTorn' = TRUE
       /\ UNCHANGED <<ticket, tmd, own, app>>

Interrupt == Interrupted /\ job' = NoJob /\ UNCHANGED installed

-----------------------------------------------------------------------------
\* RemoveTitle: the contents its TMD lists as its own, the TMD, the ticket.
\* What a removal answers is not looked at.

Removing(p, step, next) ==
    [op |-> "remove", package |-> p, step |-> step, next |-> next]

RemoveTitle(t) ==
    /\ job = NoJob
    /\ tmd[t] # None
    /\ job' = Removing(tmd[t], "contents", 1)
    /\ Touched(t)
    /\ UNCHANGED <<nandFiles, mapTorn>>

\* Mutant of RemoveContent: shared contents go with the title.
RemoveContentEvenShared(works) ==
    /\ At("remove", "contents")
    /\ job.next \in DOMAIN job.package.contents
    /\ own' = IF works /\ ~Content.shared
              THEN [own EXCEPT ![Title] = [own[Title] EXCEPT ![Content.id] = Missing]]
              ELSE own
    /\ app' = [n \in {m \in DOMAIN app : works /\ Content.shared => app[m] # Content.sha1}
                  |-> app[n]]
    /\ job' = Removing(Package, "contents", job.next + 1)
    /\ UNCHANGED <<ticket, tmd, map, installed, mapTorn>>

RemoveContent(works) ==
    /\ At("remove", "contents")
    /\ job.next \in DOMAIN job.package.contents
    /\ own' = IF works /\ ~Content.shared
              THEN [own EXCEPT ![Title] = [own[Title] EXCEPT ![Content.id] = Missing]]
              ELSE own
    /\ job' = Removing(Package, "contents", job.next + 1)
    /\ UNCHANGED <<ticket, tmd, app, map, installed, mapTorn>>

RemoveTmd(works) ==
    /\ At("remove", "contents")
    /\ job.next \notin DOMAIN job.package.contents
    /\ tmd' = IF works THEN [tmd EXCEPT ![Title] = None] ELSE tmd
    /\ job' = Removing(Package, "ticket", job.next)
    /\ UNCHANGED <<ticket, own, app, map, installed, mapTorn>>

RemoveTicket(works) ==
    /\ At("remove", "ticket")
    /\ ticket' = IF works THEN [ticket EXCEPT ![Title] = None] ELSE ticket
    /\ job' = NoJob
    /\ UNCHANGED <<tmd, own, app, map, installed, mapTorn>>

PowerLostRemoving ==
    /\ job.op = "remove"
    /\ job' = NoJob
    /\ UNCHANGED <<nandFiles, installed, mapTorn>>

-----------------------------------------------------------------------------
Install ==
    \/ \E p \in Packages : InstallTitle(p)
    \/ WriteTicket
    \/ WriteTmd
    \/ WriteOwn
    \/ SkipShared
    \/ WriteShared
    \/ WriteMap

Uninstall ==
    \/ \E t \in Titles : RemoveTitle(t)
    \/ \E works \in BOOLEAN : RemoveContent(works) \/ RemoveTmd(works) \/ RemoveTicket(works)

NandNext == Install \/ Uninstall \/ Interrupt \/ PowerLostRemoving

NandSpec == NandInit /\ [][NandNext]_nandVars

-----------------------------------------------------------------------------
\* What the other operations answer.

\* ResolveContents: the file a content is read from.
Bytes(t, c) ==
    IF ~c.shared THEN own[t][c.id]
    ELSE IF Known(map, c.sha1) /\ NameIn(map, c.sha1) \in DOMAIN app
         THEN app[NameIn(map, c.sha1)]
         ELSE Missing

\* TitleInstalled and InstalledTitles go by the TMD.
InstalledTitles == {t \in Titles : tmd[t] # None}

-----------------------------------------------------------------------------
\* Every file of the NAND holds a value of its kind, and the map never names
\* one content twice.
NandTypeOK ==
    /\ ticket \in [Titles -> Packages \cup {None}]
    /\ tmd \in [Titles -> Packages \cup {None}]
    /\ own \in [Titles -> [Ids -> Hashes \cup {Missing, Torn}]]
    /\ DOMAIN app \subseteq Nat
    /\ \A n \in DOMAIN app : app[n] \in Hashes \cup {Torn}
    /\ map \in Seq(Hashes)
    /\ \A m, n \in DOMAIN map : map[m] = map[n] => m = n
    /\ installed \subseteq Packages

\* Whatever is cut short, and whichever titles come and go: a content that the
\* shared map names is in the file of that name, whole (InstallTitle writes the
\* map last, after every content it adds to it).
MapNamesWhatIsThere ==
    \A n \in DOMAIN map : n \in DOMAIN app /\ app[n] = map[n]

\* A title whose installation was reported complete keeps its ticket, its TMD
\* and every content, its own and those it shares, through the failures and
\* removals of other titles - unless a write of the map itself was cut short.
InstalledIsComplete ==
    ~mapTorn => \A p \in installed :
        /\ p.title \in InstalledTitles
        /\ ticket[p.title] = p
        /\ tmd[p.title] = p
        /\ \A i \in DOMAIN p.contents : Bytes(p.title, p.contents[i]) = p.contents[i].sha1
=============================================================================
