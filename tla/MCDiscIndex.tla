---------------------------- MODULE MCDiscIndex ----------------------------
(* Small discs for DiscIndex: two files and a system file, with and without   *)
(* mods: one that replaces a file by one that reaches into the next, adds     *)
(* files, replaces by name, pins an option and has two patches of one id; and *)
(* discs that do not work.                                                    *)
EXTENDS DiscIndex

CONSTANTS nowhere, va, vb, vs, ma, mb, mn, huge

MCHost == {va, vb, vs, ma, mb, mn, huge}
MCFileSize == [h \in MCHost |->
    CASE h = va -> 6 [] h = vb -> 5 [] h = vs -> 2 [] h = ma -> 10
      [] h = mb -> 0 [] h = mn -> 3 [] h = huge -> 300]
MCPath == {"/a", "/b", "/sys/s", "/d/a", "/a/x"}
MCNameOf == [p \in MCPath |->
    CASE p \in {"/a", "/d/a"} -> "a" [] p = "/b" -> "b" [] p = "/sys/s" -> "s" [] OTHER -> "x"]
MCBelow == {<<"/a", "/a/x">>}

At(p, h) == [at |-> p, host |-> h]
Trees == <<{At("/a", va), At("/b", vb)}, {At("/sys/s", vs)}>>
Fst == {[path |-> "/a", word |-> 2, size |-> 6], [path |-> "/b", word |-> 4, size |-> 5],
        [path |-> "/d/a", word |-> 40, size |-> 1]}

NoXml(tree) == [xmls |-> << >>, tree |-> tree, config |-> << >>, pins |-> << >>]
Pack(xml, config, pins) == [xmls |-> <<xml>>, tree |-> {}, config |-> config, pins |-> pins]
FilePatch(p, h, create) == [at |-> p, host |-> h, create |-> create]
Folder(byName, create, fs) == [byName |-> byName, create |-> create, files |-> fs]

Mod ==
    [valid |-> TRUE,
     options |-> <<[id |-> "skins", selected |-> 0, choices |-> <<<<"big">>, <<"byname", "none">>>>],
                   [id |-> "extra", selected |-> 1, choices |-> <<<<"add">>>>]>>,
     patches |-> <<[id |-> "big", files |-> <<FilePatch("/a", ma, FALSE), FilePatch("/b", nowhere, FALSE)>>,
                    folders |-> << >>],
                   [id |-> "byname", files |-> << >>,
                    folders |-> <<Folder(TRUE, FALSE, {At("a", ma), At("x", mn)})>>],
                   [id |-> "add", files |-> <<FilePatch("/a/x", mn, FALSE)>>,
                    folders |-> <<Folder(FALSE, TRUE, {At("/d/a", mn)}),
                                  Folder(FALSE, FALSE, {At("/b", mb), At("/a/x", mb)})>>],
                   [id |-> "big", files |-> <<FilePatch("/b", ma, TRUE)>>, folders |-> << >>]>>]

Disc(trees, fst, packs, missing, cardFails) ==
    [trees |-> trees, fst |-> fst, packs |-> packs, missing |-> missing,
     cardFails |-> cardFails]
Choice(id, n) == [id |-> id, choice |-> n]

MCDiscs ==
    {Disc(Trees, Fst, << >>, {vb}, TRUE),
     Disc(Trees, Fst, <<Pack(Mod, <<Choice("skins", 2), Choice("extra", 7)>>,
                             <<Choice("skins", 1), Choice("skins", 3)>>),
                        NoXml({At("/a", mn), At("/b", ma)})>>, {}, FALSE),
     Disc(Trees, Fst, <<Pack(Mod, <<Choice("skins", 2)>>, << >>)>>, {}, TRUE),
     Disc(Trees, Fst, <<NoXml({At("/a/x", mn)})>>, {}, FALSE),
     Disc(Trees, Fst, <<NoXml({At("/a", huge), At("/d/a", mn)})>>, {}, FALSE),
     Disc(<< >>, {}, << >>, {}, FALSE)}

\* The discs are what the theorems about discs ask for.
ASSUME TablesAssumption == \A d \in MCDiscs : TableInOrder(d) /\ WordsApart(d)

MCOffset == {-1, 0, 5, 6}
MCLength == {-1, 0, 1, 7}
MCPlace == {0, 2, 9, 17, 64}
=============================================================================
