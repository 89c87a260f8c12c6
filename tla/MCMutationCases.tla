--------------------------- MODULE MCMutationCases ---------------------------
(* Two small sources built cell by cell, and the operations asked of them. *)
EXTENDS MutationCases

D(n) == <<"d", n>>
Ds(ns) == [i \in 1..Len(ns) |-> D(ns[i])]
Packed(runtime, size) == <<<<"z", runtime, size>>>> \o [i \in 1..(size - 1) |-> Filler]

\* The parts one behind the other, behind the header.
Image(arm9, arm7, fnt, files, ov9, ov7) ==
    LET parts == <<arm9, arm7, ov9, ov7, fnt, [i \in 1..Len(files) |-> D(0)]>> \o files
        starts == FoldLeft(LAMBDA s, p : Append(s, Last(s) + Len(p)), <<HeaderCells>>, parts)
        fat == [i \in 1..Len(files) |-> <<"fat", starts[6 + i], starts[7 + i]>>]
        reg(k) == <<"reg", starts[k], Len(parts[k])>>
        body == <<<<"cap", 0>>, <<"exe", starts[1], Len(arm9), 100>>, <<"exe", starts[2], Len(arm7), 200>>,
                  reg(5), reg(6), reg(3), reg(4), <<"used", Last(starts)>>>>
        cells == FlattenSeq([parts EXCEPT ![6] = fat])
    IN  body \o <<<<"crc", body>>, D(0)>> \o cells

Fnt == <<<<"dir", 2, 2, 2>>, <<"dir", 5, 3, 0>>, <<"file", 1>>, <<"sub", 5, 1>>, <<"end">>, <<"file", 3>>, <<"end">>>>
R1 == Ds(<<1, 1, 1>>)
R2 == Ds(<<1, 1, 2>>)
R3 == Ds(<<3, 3, 3>>)
Ov(id, ram, size, file, csize, z) == <<"ov", id, ram, size, 1, file, csize, z>>

\* Overlay 1 compressed, overlay 0 plain at the same address, one ARM7 overlay.
Plain == Image(Ds(<<1, 2, 3>>), Ds(<<4, 5>>), Fnt,
               <<Packed(R1, 1), Ds(<<1, 6>>), Ds(<<7>>), Ds(<<8, 8>>), Ds(<<2>>)>>,
               <<Ov(1, 110, 3, 0, 1, TRUE), Ov(0, 110, 2, 1, 0, FALSE)>>, <<Ov(0, 210, 2, 4, 0, FALSE)>>)
\* No FNT at all, a compressed overlay with padding behind its payload.
Bare == Image(Ds(<<1>>), Ds(<<4, 5>>), <<>>, <<Packed(R2, 2) \o Ds(<<4>>), Ds(<<7, 7>>)>>,
              <<Ov(0, 110, 3, 0, 2, TRUE)>>, <<>>)
\* Two overlays on one compressed file.
SharedFile == Image(Ds(<<1>>), Ds(<<4>>), Fnt, <<Packed(R1, 1), Ds(<<7>>), Ds(<<7>>), Ds(<<8>>)>>,
                    <<Ov(0, 110, 3, 0, 1, TRUE), Ov(1, 120, 3, 0, 1, TRUE)>>, <<>>)

Main(p) == [kind |-> "main", p |-> p]
OverlayAt(p, id) == [kind |-> "overlay", p |-> p, id |-> id]
File(id) == [kind |-> "file", id |-> id]
Path(path) == [kind |-> "path", path |-> path]
Bytes(t, by, v, old, new) == [type |-> "bytes", target |-> t, at |-> [by |-> by, v |-> v], expected |-> Ds(old), new |-> Ds(new)]
Replace(t, old, new) == [type |-> "component", target |-> t, expected |-> old, new |-> new, sha |-> new]
NewFile(t, old, new) == [type |-> "file", target |-> t, expected |-> Ds(old), new |-> Ds(new), sha |-> Ds(new)]
Add(path, new) == [type |-> "add", path |-> path, new |-> Ds(new), sha |-> Ds(new)]
Decoded(p, id, stored, old, new) ==
    [type |-> "overlay", p |-> p, id |-> id, expected |-> stored, runtime |-> old, new |-> new, sha |-> new]

PlainOps == <<
    Bytes(Main("arm9"), "offset", 1, <<2>>, <<7>>),
    Bytes(Main("arm9"), "offset", 1, <<3>>, <<7>>),
    Bytes(Main("arm9"), "address", 101, <<2, 3>>, <<0, 0>>),
    Bytes(OverlayAt("arm9", 0), "address", 110, <<1>>, <<9>>),
    Bytes(OverlayAt("arm9", 1), "offset", 0, <<1>>, <<9>>),
    Bytes(OverlayAt("arm7", 0), "offset", 0, <<2>>, <<9>>),
    Bytes(File(3), "offset", 1, <<8>>, <<9>>),
    Bytes(File(1), "offset", 0, <<1>>, <<9>>),
    Replace(Main("arm7"), Ds(<<4, 5>>), Ds(<<5, 4>>)),
    Replace(OverlayAt("arm9", 1), Packed(R1, 1), Packed(R3, 1)),
    Replace(OverlayAt("arm9", 1), Packed(R1, 1), Ds(<<9>>)),
    NewFile(File(2), <<7>>, <<6, 6, 6>>),
    Bytes(Path(<<1>>), "offset", 0, <<7>>, <<9>>),
    NewFile(Path(<<5, 3>>), <<8, 8>>, <<2>>),
    [NewFile(File(3), <<8, 8>>, <<2>>) EXCEPT !.sha = Ds(<<3>>)],
    Add(<<6, 1>>, <<1, 1>>),
    Add(<<6, 2, 1>>, <<2>>),
    Add(<<6, 2>>, <<3>>),
    Add(<<5, 9>>, <<4>>),
    Add(<<4, 3>>, <<5>>),
    Decoded("arm9", 1, Packed(R1, 1), R1, R2),
    Decoded("arm9", 1, Packed(R1, 1), R1, Ds(<<1, 2, 3>>)),
    Decoded("arm9", 0, Ds(<<1, 6>>), Ds(<<1, 6>>), Ds(<<2, 2>>))>>
BareOps == <<
    Bytes(File(1), "offset", 0, <<7>>, <<9>>),
    Replace(OverlayAt("arm9", 0), Packed(R2, 2) \o Ds(<<4>>), Packed(R1, 2) \o Ds(<<5>>)),
    Replace(OverlayAt("arm9", 0), Packed(R2, 2) \o Ds(<<4>>), Packed(R1, 1) \o Ds(<<5, 5>>)),
    NewFile(File(1), <<7, 7>>, <<7>>),
    Add(<<6, 1>>, <<1>>),
    Decoded("arm9", 0, Packed(R2, 2) \o Ds(<<4>>), R2, R1)>>
SharedOps == <<
    Replace(OverlayAt("arm9", 0), Packed(R1, 1), Packed(R3, 1)),
    NewFile(File(1), <<7>>, <<6>>),
    Decoded("arm9", 0, Packed(R1, 1), R1, R2),
    Decoded("arm9", 1, Packed(R1, 1), R1, R3)>>

MCCases == {[image |-> Plain, ops |-> PlainOps], [image |-> Bare, ops |-> BareOps]}
MCShared == {[image |-> SharedFile, ops |-> SharedOps]}
=============================================================================
