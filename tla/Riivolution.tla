---------------------------- MODULE Riivolution ----------------------------
(* What a mod lays over a disc: the patches that the chosen options of its    *)
(* Riivolution XMLs switch on, as file and folder mappings in the order that  *)
(* they apply (src/src/platform/fs/riivolution.cpp,                           *)
(* src/src/platform/include/hle/riivolution_contract.h).                      *)
(*                                                                            *)
(* An XML is a record: whether it is for this game, its options (of all its   *)
(* sections) and its patches. An option has an id, the choice it starts with  *)
(* (0 is off) and the patch ids of each choice. A patch has file patches and  *)
(* folder patches, each with where its external file is on the host: nowhere, *)
(* if the path climbs out of the card or is not there.                        *)
EXTENDS Integers, Sequences, SequencesExt

CONSTANT Nowhere    \* the host of an external that cannot be used

\* The elements of s that are in S, in their order.
Kept(s, S) ==
    LET kept[n \in 0 .. Len(s)] == IF n = 0 THEN << >>
                                   ELSE IF s[n] \in S THEN Append(kept[n - 1], s[n])
                                   ELSE kept[n - 1]
    IN  kept[Len(s)]

\* The options after the choices were made in their turn: `taken` is of the pairs of
\* a choice and an option that takes it.
Chosen(options, choices, taken) ==
    LET chosen[n \in 0 .. Len(choices)] ==
            IF n = 0 THEN options
            ELSE [i \in DOMAIN options |->
                    IF <<n, i>> \in taken
                    THEN [chosen[n - 1][i] EXCEPT !.selected = choices[n].choice]
                    ELSE chosen[n - 1][i]]
    IN  chosen[Len(choices)]

\* "Dolphin-compatible remembered choices": each sets the options it names.
ApplyConfigDefaults(options, config) ==
    Chosen(options, config,
           {c \in (DOMAIN config) \X (DOMAIN options) : options[c[2]].id = config[c[1]].id})

\* The choices pinned by the distribution, where the option has such a choice.
ApplySelections(options, pins) ==
    Chosen(options, pins,
           {c \in (DOMAIN pins) \X (DOMAIN options) :
                /\ options[c[2]].id = pins[c[1]].id
                /\ pins[c[1]].choice <= Len(options[c[2]].choices)})

Options(xml, pack) ==
    ApplySelections(ApplyConfigDefaults(xml.options, pack.config), pack.pins)

\* The first patch with an id: none, if the XML has no such patch.
PatchNamed(xml, id) ==
    LET first == SelectInSeq(xml.patches, LAMBDA p : p.id = id)
    IN  IF first = 0 THEN << >> ELSE <<xml.patches[first]>>

\* Disc::GeneratePatches: the patches of each option's choice, in order. A choice
\* the option does not have switches it off.
GeneratePatches(xml, pack) ==
    LET Of(option) ==
            IF option.selected \in 1 .. Len(option.choices)
            THEN FlattenSeq([i \in DOMAIN option.choices[option.selected] |->
                                PatchNamed(xml, option.choices[option.selected][i])])
            ELSE << >>
        options == Options(xml, pack)
    IN  FlattenSeq([i \in DOMAIN options |-> Of(options[i])])

\* A patch's file patches, then its folder patches; one whose external cannot be
\* used is skipped.
CollectMappings(patch) ==
    LET files == Kept(patch.files, {f \in Range(patch.files) : f.host # Nowhere})
        folders == Kept(patch.folders, {f \in Range(patch.folders) : f.files # {}})
    IN  [i \in DOMAIN files |->
            [kind |-> "file", create |-> files[i].create,
             files |-> {[at |-> files[i].at, host |-> files[i].host]}]]
        \o [i \in DOMAIN folders |->
            [kind |-> IF folders[i].byName THEN "by name" ELSE "folder",
             create |-> folders[i].create, files |-> folders[i].files]]

\* RiivoLoadPatchSet: the mappings of a pack's XMLs for this game, in order.
LoadPatchSet(pack) ==
    LET xmls == Kept(pack.xmls, {xml \in Range(pack.xmls) : xml.valid})
        Of(xml) == LET patches == GeneratePatches(xml, pack)
                   IN  FlattenSeq([i \in DOMAIN patches |-> CollectMappings(patches[i])])
    IN  FlattenSeq([i \in DOMAIN xmls |-> Of(xmls[i])])

\* ScanOverlayRoot: a root without a Riivolution XML has the disc's own shape.
OverlayMappings(pack) ==
    IF pack.xmls = << >>
    THEN <<[kind |-> "folder", create |-> TRUE, files |-> pack.tree]>>
    ELSE LoadPatchSet(pack)
=============================================================================
