------------------------------- MODULE NdsRom -------------------------------
(***************************************************************************)
(* The structure of a Nintendo DS image: how the server reads it (header,  *)
(* FAT, FNT, overlay tables), how it writes the parts a rebuild replaces,  *)
(* and how it maps runtime addresses to ROM offsets and back.              *)
(*                                                                         *)
(* An image is a sequence of cells, the cell at ROM offset o being         *)
(* img[o + 1].  A cell holds what the code tells apart, tagged by kind:    *)
(*   <<"d", n>>                  data; zero is the padding                 *)
(*   <<"exe", off, size, ram>>   an executable of the header               *)
(*   <<"reg", off, size>>        a region of the header                    *)
(*   <<"cap", c>>, <<"used", n>>, <<"crc", cells>>                         *)
(*   <<"fat", start, end>>       a FAT entry                               *)
(*   <<"dir", sub, first, parent>>, <<"file", name>>,                      *)
(*   <<"sub", name, dir>>, <<"end">>   the FNT                             *)
(*   <<"ov", id, ram, ramSize, bss, file, csize, compressed>>              *)
(*   <<"z", runtime, n>>, <<"zf">>  a BLZ payload of n cells, by content   *)
(* Names are numbers, a path is a sequence of names, and the CRC and every *)
(* hash are the content they are taken over.                               *)
(***************************************************************************)
EXTENDS Integers, SequencesExt

CONSTANTS BaseCapacity,  \* BASE_CAPACITY_BYTES, in cells
          MaxCapacity    \* MAX_DEVICE_CAPACITY

ASSUME CapacityAssumption == BaseCapacity \in Nat \ {0} /\ MaxCapacity \in Nat

Refused == [ok |-> FALSE]
NoPath == <<>>
Zero == <<"d", 0>>
Filler == <<"zf">>
Processors == {"arm9", "arm7"}

HeaderCells == 10       \* the 0x200 bytes no mutation may touch
RebuildHeader == 9      \* the 0x160 bytes a rebuild rewrites
CapacityAt == 0
ExecutableAt == [arm9 |-> 1, arm7 |-> 2]
RegionAt == [fnt |-> 3, fat |-> 4, arm9 |-> 5, arm7 |-> 6]
UsedAt == 7
CrcAt == 8

At(img, o) == img[o + 1]
Slice(img, start, end) == SubSeq(img, start + 1, end)
Patch(img, start, cells) ==
    [i \in 1..Len(img) |-> IF i > start /\ i <= start + Len(cells) THEN cells[i - start] ELSE img[i]]
Pad(img, size) == img \o [i \in 1..(size - Len(img)) |-> Zero]
All(cells, tag) == \A i \in 1..Len(cells) : cells[i][1] = tag
Overlap(s, e, s2, e2) == s < e2 /\ s2 < e

-----------------------------------------------------------------------------
(* Reading *)

ParseHeader(img) ==
    LET size == Len(img)
        exe(p) == At(img, ExecutableAt[p])
        reg(r) == At(img, RegionAt[r])
    IN  IF /\ size >= HeaderCells
           /\ \A p \in Processors : exe(p)[1] = "exe" /\ exe(p)[3] > 0 /\ exe(p)[2] + exe(p)[3] <= size
           /\ \A r \in DOMAIN RegionAt : reg(r)[1] = "reg" /\ reg(r)[2] + reg(r)[3] <= size
        THEN [ok |-> TRUE,
              exe |-> [p \in Processors |->
                        [start |-> exe(p)[2], end |-> exe(p)[2] + exe(p)[3],
                         ram |-> exe(p)[4], ramEnd |-> exe(p)[4] + exe(p)[3]]],
              region |-> [r \in DOMAIN RegionAt |->
                           [start |-> reg(r)[2], end |-> reg(r)[2] + reg(r)[3]]]]
        ELSE Refused

RegionOf(img, h, r) == Slice(img, h.region[r].start, h.region[r].end)

\* The FAT: file f is entry f + 1.
ParseFat(img, h) ==
    LET cells == RegionOf(img, h, "fat")
    IN  IF All(cells, "fat") /\ \A i \in 1..Len(cells) : cells[i][2] <= cells[i][3] /\ cells[i][3] <= Len(img)
        THEN [ok |-> TRUE, fat |-> [i \in 1..Len(cells) |-> [start |-> cells[i][2], end |-> cells[i][3]]]]
        ELSE Refused

\* The entries of a directory, up to its terminator.
Subtable(fnt, offset) ==
    LET stop == {e \in offset..(Len(fnt) - 1) : At(fnt, e) = <<"end">>}
    IN  IF stop = {} THEN <<>> ELSE Slice(fnt, offset, CHOOSE e \in stop : \A e2 \in stop : e <= e2)

FilesOf(entries) == SelectSeq(entries, LAMBDA c : c[1] = "file")
ChildrenOf(entries) == {<<entries[i][3], entries[i][2]>> : i \in {j \in 1..Len(entries) : entries[j][1] = "sub"}}

\* The recursive visit of the directories from the root, as the set of the
\* pairs <<directory, path>> it reaches in at most n steps.
Reached(children, n) ==
    LET reach[k \in 0..n] ==
            IF k = 0 THEN {<<0, <<>>>>}
            ELSE reach[k - 1] \cup
                 UNION {{<<c[1], Append(r[2], c[2])>> : c \in children[r[1]]} : r \in reach[k - 1]}
    IN  reach[n]

(* Every directory but the root is entered only from its parent, under one *)
(* name, and all are reached; a FAT entry is named at most once.           *)
ParseFnt(img, h, files) ==
    LET fnt == RegionOf(img, h, "fnt")
        n == IF fnt # <<>> /\ fnt[1][1] = "dir" THEN fnt[1][4] ELSE 0
        sub == [d \in 0..(n - 1) |-> Subtable(fnt, At(fnt, d)[2])]
        children == [d \in 0..(n - 1) |-> ChildrenOf(sub[d])]
        reached == Reached(children, n)
        path(d) == (CHOOSE r \in reached : r[1] = d)[2]
        named == {<<d, i>> : d \in 0..(n - 1), i \in 1..Len(fnt)}
        names == {x \in named : x[2] <= Len(FilesOf(sub[x[1]]))}
        fileId(x) == At(fnt, x[1])[3] + x[2] - 1
        pathOf(f) == LET own == {x \in names : fileId(x) = f}
                     IN  IF own = {} THEN NoPath
                         ELSE LET x == CHOOSE x \in own : TRUE IN Append(path(x[1]), FilesOf(sub[x[1]])[x[2]][2])
    IN  IF fnt = <<>> THEN [ok |-> TRUE, dirs |-> <<>>, paths |-> [i \in 1..files |-> NoPath]]
        ELSE IF /\ n \in 1..Len(fnt)
                /\ All(SubSeq(fnt, 1, n), "dir")
                /\ \A d \in 0..(n - 1) :
                       /\ At(fnt, d)[2] \in n..(Len(fnt) - 1)
                       /\ \E e \in At(fnt, d)[2]..(Len(fnt) - 1) : At(fnt, e) = <<"end">>
                       /\ \A i \in 1..Len(sub[d]) : sub[d][i][1] \in {"file", "sub"}
                       /\ \A c \in children[d] : c[1] \in 1..(n - 1) /\ At(fnt, c[1])[4] = d
                /\ \A d \in 0..(n - 1) : Cardinality({r \in reached : r[1] = d}) = 1
                /\ \A x \in names : fileId(x) < files
                /\ \A x, y \in names : fileId(x) = fileId(y) => x = y
             THEN [ok |-> TRUE,
                   dirs |-> [i \in 1..n |-> [path |-> path(i - 1), first |-> At(fnt, i - 1)[3],
                                             parent |-> IF i = 1 THEN -1 ELSE At(fnt, i - 1)[4]]],
                   paths |-> [i \in 1..files |-> pathOf(i - 1)]]
             ELSE Refused

\* The overlays of a processor, in the order of their identifiers.
ParseOverlays(img, h, fat, p) ==
    LET cells == RegionOf(img, h, p)
        overlay(c) == [id |-> c[2], ram |-> c[3], ramSize |-> c[4], bss |-> c[5], file |-> c[6],
                       start |-> fat[c[6] + 1].start, end |-> fat[c[6] + 1].end,
                       csize |-> c[7], compressed |-> c[8]]
    IN  IF All(cells, "ov") /\ \A i \in 1..Len(cells) : cells[i][6] < Len(fat)
        THEN [ok |-> TRUE,
              overlays |-> SortSeq([i \in 1..Len(cells) |-> overlay(cells[i])], LAMBDA a, b : a.id < b.id)]
        ELSE Refused

ReadRomMap(img) ==
    LET h == ParseHeader(img)
        f == IF h.ok THEN ParseFat(img, h) ELSE Refused
        t == IF f.ok THEN ParseFnt(img, h, Len(f.fat)) ELSE Refused
        o == [p \in Processors |-> IF t.ok THEN ParseOverlays(img, h, f.fat, p) ELSE Refused]
    IN  IF \A p \in Processors : o[p].ok
        THEN [ok |-> TRUE, image |-> img, exe |-> h.exe, region |-> h.region, fat |-> f.fat,
              dirs |-> t.dirs, paths |-> t.paths, overlays |-> [p \in Processors |-> o[p].overlays]]
        ELSE Refused

-----------------------------------------------------------------------------
(* Overlays at run time *)

Decodes(payload, ramSize) ==
    /\ payload # <<>> /\ payload[1][1] = "z"
    /\ Len(payload[1][2]) = ramSize /\ payload[1][3] = Len(payload)
    /\ \A i \in 2..Len(payload) : payload[i] = Filler

StoredSize(runtime) == Cardinality({runtime[i] : i \in 1..Len(runtime)})
Encodes(runtime) == runtime # <<>> /\ StoredSize(runtime) < Len(runtime)
Encode(runtime) == <<<<"z", runtime, StoredSize(runtime)>>>> \o [i \in 1..(StoredSize(runtime) - 1) |-> Filler]

OverlayOf(map, p, id) == {i \in 1..Len(map.overlays[p]) : map.overlays[p][i].id = id}
FindOverlay(map, p, id) == map.overlays[p][CHOOSE i \in OverlayOf(map, p, id) : \A j \in OverlayOf(map, p, id) : i <= j]
Stored(map, o) == Slice(map.image, o.start, o.end)
Payload(map, o) == Slice(map.image, o.start, o.start + o.csize)
PayloadFits(o) == o.csize >= 1 /\ o.csize <= o.end - o.start

\* The initialized image of an overlay in memory, if it can be had.
HasRuntime(map, o) == IF o.compressed THEN PayloadFits(o) /\ Decodes(Payload(map, o), o.ramSize) ELSE TRUE
Runtime(map, o) == IF o.compressed THEN Payload(map, o)[1][2] ELSE Stored(map, o)

-----------------------------------------------------------------------------
(* Writing *)

\* serializeNdsFat refuses entries that are inside out or share bytes.
FatFits(fat) ==
    /\ \A i \in 1..Len(fat) : fat[i].start <= fat[i].end
    /\ \A i, j \in 1..Len(fat) :
           i < j /\ fat[i].start < fat[i].end /\ fat[j].start < fat[j].end
             => ~Overlap(fat[i].start, fat[i].end, fat[j].start, fat[j].end)
FatCells(fat) == [i \in 1..Len(fat) |-> <<"fat", fat[i].start, fat[i].end>>]

ParentPath(path) == SubSeq(path, 1, Len(path) - 1)
\* The files of directory d, which the FNT can only name as one run of identifiers.
FilesIn(paths, dir) == {f \in 0..(Len(paths) - 1) : paths[f + 1] # NoPath /\ ParentPath(paths[f + 1]) = dir.path}
FntFits(dirs, paths) ==
    /\ dirs # <<>>
    /\ \A i \in 1..Len(dirs) :
           LET own == FilesIn(paths, dirs[i])
           IN  own = dirs[i].first..(dirs[i].first + Cardinality(own) - 1)
SubtableOf(dirs, paths, d) ==
    LET own == FilesIn(paths, dirs[d + 1])
        sub == SelectSeq([i \in 1..Len(dirs) |-> i - 1], LAMBDA c : dirs[c + 1].parent = d)
    IN  [i \in 1..Cardinality(own) |-> <<"file", Last(paths[dirs[d + 1].first + i])>>]
        \o [i \in 1..Len(sub) |-> <<"sub", Last(dirs[sub[i] + 1].path), sub[i]>>]
        \o <<<<"end">>>>
FntCells(dirs, paths) ==
    LET n == Len(dirs)
        tables == FoldLeft(LAMBDA done, d : Append(done, Last(done) \o SubtableOf(dirs, paths, d)),
                           <<<<>>>>, [i \in 1..n |-> i - 1])
    IN  [i \in 1..n |-> <<"dir", n + Len(tables[i]), dirs[i].first, IF i = 1 THEN n ELSE dirs[i].parent>>]
        \o Last(tables)

OverlayTableFits(overlays) == \A i, j \in 1..Len(overlays) : overlays[i].id = overlays[j].id => i = j
\* The table with the compressed sizes in "sizes" in place of the old ones.
OverlayTableCells(overlays, sizes) ==
    [i \in 1..Len(overlays) |->
        LET o == overlays[i]
        IN  <<"ov", o.id, o.ram, o.ramSize, o.bss, o.file,
              IF o.id \in DOMAIN sizes THEN sizes[o.id] ELSE o.csize, o.compressed>>]

CapacityCells(code) == BaseCapacity * 2^code
CapacityFits(used) == used \in 1..CapacityCells(MaxCapacity)
SelectCapacity(used) ==
    CHOOSE c \in 0..MaxCapacity : used <= CapacityCells(c) /\ \A d \in 0..(c - 1) : used > CapacityCells(d)

HeaderChecksumValid(img) == At(img, CrcAt) = <<"crc", Slice(img, 0, CrcAt)>>
\* regions: the regions that move, to where.
RebuiltHeader(img, used, regions) ==
    LET body == [i \in 1..CrcAt |->
                    CASE i = CapacityAt + 1 -> <<"cap", SelectCapacity(used)>>
                      [] i = UsedAt + 1 -> <<"used", used>>
                      [] \E r \in DOMAIN regions : RegionAt[r] + 1 = i ->
                             LET r == CHOOSE r \in DOMAIN regions : RegionAt[r] + 1 = i
                             IN  <<"reg", regions[r].start, regions[r].end - regions[r].start>>
                      [] OTHER -> img[i]]
    IN  Append(body, <<"crc", body>>)

-----------------------------------------------------------------------------
(* Addresses *)

MainCandidate(map, p, a) ==
    LET x == map.exe[p]
    IN  IF a >= x.ram /\ a < x.ramEnd
        THEN {[kind |-> "main", id |-> -1, rel |-> a - x.ram, direct |-> TRUE,
               rom |-> x.start + a - x.ram, compressed |-> FALSE]}
        ELSE {}

\* Mutant: an address behind the stored cells of an overlay gets an offset too.
OverlayCandidateUnbounded(o, a) ==
    LET rel == a - o.ram
        direct == rel < o.ramSize /\ ~o.compressed
    IN  IF a >= o.ram /\ a < o.ram + o.ramSize + o.bss
        THEN {[kind |-> IF rel < o.ramSize THEN "overlay" ELSE "bss", id |-> o.id, rel |-> rel,
               direct |-> direct, rom |-> IF direct THEN o.start + rel ELSE -1, compressed |-> o.compressed]}
        ELSE {}
OverlayCandidate(o, a) ==
    LET rel == a - o.ram
        direct == rel < o.ramSize /\ ~o.compressed /\ rel < o.end - o.start
    IN  IF a >= o.ram /\ a < o.ram + o.ramSize + o.bss
        THEN {[kind |-> IF rel < o.ramSize THEN "overlay" ELSE "bss", id |-> o.id, rel |-> rel,
               direct |-> direct, rom |-> IF direct THEN o.start + rel ELSE -1, compressed |-> o.compressed]}
        ELSE {}

RuntimeCandidates(map, p, a) ==
    MainCandidate(map, p, a) \cup UNION {OverlayCandidate(map.overlays[p][i], a) : i \in 1..Len(map.overlays[p])}

ResolveRuntimeAddress(map, p, a) ==
    LET found == RuntimeCandidates(map, p, a)
        only == CHOOSE c \in found : TRUE
        status == IF found = {} THEN "unmapped"
                  ELSE IF Cardinality(found) > 1 THEN "ambiguous"
                  ELSE IF only.kind = "bss" THEN "runtime-only-bss"
                  ELSE IF only.compressed THEN "compressed"
                  ELSE "resolved"
    IN  [status |-> status, candidates |-> found]

\* Everything that owns ROM offset o; address -1 is none.
ResolveRomOffset(map, o) ==
    LET inside(x) == o >= x.start /\ o < x.end
        structure(k) == [kind |-> k, id |-> -1, address |-> -1]
    IN  (IF o < HeaderCells THEN {structure("header")} ELSE {})
        \cup {structure(r) : r \in {r \in DOMAIN RegionAt : inside(map.region[r])}}
        \cup {[kind |-> "main", id |-> -1, address |-> map.exe[p].ram + o - map.exe[p].start] :
                p \in {p \in Processors : inside(map.exe[p])}}
        \cup {[kind |-> "file", id |-> f - 1, address |-> -1] : f \in {f \in 1..Len(map.fat) : inside(map.fat[f])}}
        \cup UNION {{[kind |-> "overlay", id |-> v.id,
                      address |-> IF ~v.compressed /\ o - v.start < v.ramSize THEN v.ram + o - v.start ELSE -1] :
                        v \in {v \in {map.overlays[p][i] : i \in 1..Len(map.overlays[p])} : inside(v)}} :
                    p \in Processors}
=============================================================================
