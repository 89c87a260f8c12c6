---------------------------- MODULE MutationPlan ----------------------------
(***************************************************************************)
(* The mutation pipeline as functions: what a manifest may ask of a source *)
(* image, the plan it compiles to, the image the plan builds, and what the *)
(* verification of an image checks.                                        *)
(*                                                                         *)
(* A manifest is [version, ops].  An operation has a type and the guards   *)
(* and the replacement it names; "new" is the content of its artifact and  *)
(* "sha" the content the manifest says it has:                             *)
(*   bytes      target, at, expected, new                                  *)
(*   component  target, expected, new, sha                                 *)
(*   file       target, expected, new, sha     (version 2 from here on)    *)
(*   add        path, new, sha                                             *)
(*   overlay    p, id, expected, runtime, new, sha                         *)
(* A target is [kind: main, p], [kind: overlay, p, id], [kind: file, id]   *)
(* or [kind: path, path].                                                  *)
(***************************************************************************)
EXTENDS NdsRom

CONSTANTS PayloadAlign,  \* PAYLOAD_ALIGNMENT
          MetaAlign,     \* METADATA_ALIGNMENT
          MaxGrowth,     \* MAX_NDS_REBUILD_GROWTH_BYTES
          MaxDirs        \* MAX_DIRECTORY_COUNT

ASSUME LayoutAssumption ==
    PayloadAlign \in Nat \ {0} /\ MetaAlign \in Nat \ {0} /\ MaxGrowth \in Nat /\ MaxDirs \in Nat

-----------------------------------------------------------------------------
(* Selecting *)

Owners(map, file) ==
    UNION {{[p |-> p, overlay |-> map.overlays[p][i]] :
                i \in {i \in 1..Len(map.overlays[p]) : map.overlays[p][i].file = file}} : p \in Processors}
Compressed(owners) == {w \in owners : w.overlay.compressed}

FilesAt(map, target) ==
    {f \in 0..(Len(map.fat) - 1) :
        IF target.kind = "file" THEN f = target.id ELSE map.paths[f + 1] = target.path}

\* The component a target selects; a file that backs an overlay is refused.
Component(map, target) ==
    LET found(start, end, file, owners) ==
            [ok |-> TRUE, start |-> start, end |-> end, file |-> file, owners |-> owners]
    IN  CASE target.kind = "main" -> found(map.exe[target.p].start, map.exe[target.p].end, -1, {})
          [] target.kind = "overlay" ->
               IF OverlayOf(map, target.p, target.id) = {} THEN Refused
               ELSE LET o == FindOverlay(map, target.p, target.id)
                    IN  found(o.start, o.end, o.file, Owners(map, o.file))
          [] OTHER ->
               IF Cardinality(FilesAt(map, target)) # 1 THEN Refused
               ELSE LET f == CHOOSE f \in FilesAt(map, target) : TRUE
                    IN  IF Owners(map, f) # {} THEN Refused
                        ELSE found(map.fat[f + 1].start, map.fat[f + 1].end, f, {})

\* The offset in its component of a byte edit: given, or from an address.
OffsetsAt(map, op) ==
    IF op.at.by = "offset" THEN {op.at.v}
    ELSE LET r == ResolveRuntimeAddress(map, op.target.p, op.at.v)
             fit == IF op.target.kind = "main"
                    THEN {c \in r.candidates : r.status = "resolved" /\ c.kind = "main"}
                    ELSE {c \in r.candidates : /\ r.status \in {"resolved", "ambiguous"}
                                               /\ c.kind = "overlay" /\ c.id = op.target.id /\ c.direct}
         IN  IF Cardinality(fit) = 1 THEN {c.rel : c \in fit} ELSE {}

Structure(map) ==
    {[start |-> 0, end |-> HeaderCells]}
    \cup {map.region[r] : r \in {r \in DOMAIN RegionAt : map.region[r].start < map.region[r].end}}
OutsideStructure(map, start, end) ==
    /\ start < end /\ end <= Len(map.image)
    /\ \A r \in Structure(map) : ~Overlap(start, end, r.start, r.end)

-----------------------------------------------------------------------------
(* Guards of one operation *)

ArtifactIs(op) == op.new = op.sha

BytesFit(map, op) ==
    LET c == Component(map, op.target)
        n == Len(op.expected)
    IN  /\ n >= 1 /\ Len(op.new) = n /\ op.new # op.expected
        /\ c.ok
        /\ Compressed(c.owners) = {}
        /\ \E at \in OffsetsAt(map, op) :
               /\ at + n <= c.end - c.start
               /\ OutsideStructure(map, c.start + at, c.start + at + n)
               /\ Slice(map.image, c.start + at, c.start + at + n) = op.expected
GuardedBytes(map, op) ==
    LET c == Component(map, op.target)
        at == CHOOSE at \in OffsetsAt(map, op) : TRUE
    IN  [start |-> c.start + at, end |-> c.start + at + Len(op.new), new |-> op.new, owners |-> {}]

\* A compressed replacement has to decode for every overlay on the file.
ValidForOwners(c, new) ==
    \A w \in Compressed(c.owners) :
        PayloadFits(w.overlay) /\ Decodes(SubSeq(new, 1, w.overlay.csize), w.overlay.ramSize)
ComponentFits(map, op) ==
    LET c == Component(map, op.target)
    IN  /\ c.ok
        /\ OutsideStructure(map, c.start, c.end)
        /\ Slice(map.image, c.start, c.end) = op.expected
        /\ Len(op.new) = c.end - c.start
        /\ ArtifactIs(op)
        /\ op.new # op.expected
        /\ ValidForOwners(c, op.new)
GuardedComponent(map, op) ==
    LET c == Component(map, op.target)
    IN  [start |-> c.start, end |-> c.end, new |-> op.new, owners |-> Compressed(c.owners)]

FileFits(map, op) ==
    LET c == Component(map, op.target)
    IN  /\ c.ok
        /\ Slice(map.image, c.start, c.end) = op.expected
        /\ op.new # <<>>
        /\ ArtifactIs(op)
        /\ op.new # op.expected

AddFits(op) == Len(op.path) >= 2 /\ op.new # <<>> /\ ArtifactIs(op)

OverlayFits(map, op) ==
    /\ OverlayOf(map, op.p, op.id) # {}
    /\ LET o == FindOverlay(map, op.p, op.id)
       IN  /\ o.compressed /\ PayloadFits(o) /\ o.ramSize >= 1
           /\ HasRuntime(map, o)
           /\ Stored(map, o) = op.expected
           /\ Runtime(map, o) = op.runtime
           /\ Len(op.new) = o.ramSize
           /\ ArtifactIs(op)
           /\ op.new # op.runtime
           /\ Encodes(op.new)

Of(m, type) == {i \in 1..Len(m.ops) : m.ops[i].type = type}
Fixed(m) == Of(m, "bytes") \cup Of(m, "component")

OperationsFit(map, m) ==
    /\ m.version = 1 => Fixed(m) = 1..Len(m.ops)
    /\ \A i \in Of(m, "bytes") : BytesFit(map, m.ops[i])
    /\ \A i \in Of(m, "component") : ComponentFits(map, m.ops[i])
    /\ \A i \in Of(m, "file") : FileFits(map, m.ops[i])
    /\ \A i \in Of(m, "add") : AddFits(m.ops[i])
    /\ \A i \in Of(m, "overlay") : OverlayFits(map, m.ops[i])

Guarded(map, op) == IF op.type = "bytes" THEN GuardedBytes(map, op) ELSE GuardedComponent(map, op)
\* The source range of an operation that replaces a file or an overlay.
SourceOf(map, op) ==
    IF op.type = "file" THEN Component(map, op.target) ELSE FindOverlay(map, op.p, op.id)
Touches(a, b) == Overlap(a.start, a.end, b.start, b.end)

NoMutationConflicts(map, m) ==
    \A i, j \in Fixed(m) : i < j => ~Touches(Guarded(map, m.ops[i]), Guarded(map, m.ops[j]))

\* Mutant: a file may be edited in place and moved by one manifest.
DistinctFilesMove(map, m) ==
    LET moved == Of(m, "file") \cup Of(m, "overlay")
    IN  \A i, j \in moved : i # j => SourceOf(map, m.ops[i]).file # SourceOf(map, m.ops[j]).file
NoLogicalConflicts(map, m) ==
    LET moved == Of(m, "file") \cup Of(m, "overlay")
    IN  /\ \A i, j \in moved : i # j => SourceOf(map, m.ops[i]).file # SourceOf(map, m.ops[j]).file
        /\ \A i \in Fixed(m), j \in moved : ~Touches(Guarded(map, m.ops[i]), SourceOf(map, m.ops[j]))

-----------------------------------------------------------------------------
(* New files *)

LexLess(a, b) ==
    \E i \in 1..Len(b) :
        /\ \A j \in 1..(i - 1) : j <= Len(a) /\ a[j] = b[j]
        /\ i > Len(a) \/ a[i] < b[i]

NewPaths(m) == {m.ops[i].path : i \in Of(m, "add")}
NewDirs(m) == UNION {{SubSeq(path, 1, n) : n \in 1..(Len(path) - 1)} : path \in NewPaths(m)}
TopLevel(map) ==
    {map.dirs[i].path[1] : i \in 2..Len(map.dirs)}
    \cup {map.paths[f][1] : f \in {f \in 1..Len(map.paths) : Len(map.paths[f]) = 1}}

ExtensionFits(map, m) ==
    Of(m, "add") # {} =>
        /\ \A path \in NewPaths(m) : path[1] \notin TopLevel(map)
        /\ \A i, j \in Of(m, "add") : m.ops[i].path = m.ops[j].path => i = j
        /\ NewPaths(m) \cap NewDirs(m) = {}
        /\ map.dirs # <<>>
        /\ Len(map.dirs) + Cardinality(NewDirs(m)) <= MaxDirs

\* Directories in preorder, files by directory and then by name.
SortedDirs(m) == SetToSortSeq(NewDirs(m), LexLess)
Before(a, b) ==
    \/ LexLess(ParentPath(a), ParentPath(b))
    \/ ParentPath(a) = ParentPath(b) /\ Last(a) < Last(b)
SortedFiles(m) == SetToSortSeq(NewPaths(m), Before)

FinalPaths(map, m) == map.paths \o SortedFiles(m)
FinalDirs(map, m) ==
    LET new == SortedDirs(m)
        at(dir) == IF dir = <<>> THEN 0 ELSE Len(map.dirs) + (CHOOSE i \in 1..Len(new) : new[i] = dir) - 1
        ahead(dir) == {path \in NewPaths(m) : LexLess(ParentPath(path), dir)}
    IN  map.dirs \o [i \in 1..Len(new) |->
            [path |-> new[i], first |-> Len(map.fat) + Cardinality(ahead(new[i])), parent |-> at(ParentPath(new[i]))]]

-----------------------------------------------------------------------------
(* The layout of a rebuild: payloads, then metadata, behind the source. *)

AlignUp(n, a) == ((n + a - 1) \div a) * a

\* Pieces [owner, cells] placed one behind the other from "start" on.
LayOut(start, pieces, align) ==
    FoldLeft(LAMBDA done, piece :
                LET at == AlignUp(done.next, align)
                    end == at + Len(piece.cells)
                IN  [next |-> end, segments |-> Append(done.segments,
                        [owner |-> piece.owner, start |-> at, end |-> end, cells |-> piece.cells])],
             [next |-> start, segments |-> <<>>], pieces)

FileIdOf(map, m, i) ==
    IF m.ops[i].type = "add"
    THEN (CHOOSE f \in 1..Len(FinalPaths(map, m)) : FinalPaths(map, m)[f] = m.ops[i].path) - 1
    ELSE SourceOf(map, m.ops[i]).file
PayloadOf(op) == IF op.type = "overlay" THEN Encode(op.new) ELSE op.new
PayloadClass(op) == IF op.type = "add" THEN 1 ELSE 0

Moved(m) == Of(m, "file") \cup Of(m, "overlay") \cup Of(m, "add")
Pieces(map, m, order) ==
    [k \in 1..Len(order) |-> [owner |-> <<"file", FileIdOf(map, m, order[k])>>, cells |-> PayloadOf(m.ops[order[k]])]]
PayloadOrder(map, m) ==
    LET ahead(i, j) == \/ PayloadClass(m.ops[i]) < PayloadClass(m.ops[j])
                       \/ PayloadClass(m.ops[i]) = PayloadClass(m.ops[j]) /\ FileIdOf(map, m, i) < FileIdOf(map, m, j)
    IN  SetToSortSeq(Moved(m), ahead)

\* Mutant: the payloads are placed in the order of the manifest.
PayloadLayoutAsWritten(map, m) ==
    LayOut(AlignUp(Len(map.image), PayloadAlign), Pieces(map, m, SetToSortSeq(Moved(m), <)), PayloadAlign)
PayloadLayout(map, m) ==
    LayOut(AlignUp(Len(map.image), PayloadAlign), Pieces(map, m, PayloadOrder(map, m)), PayloadAlign)

\* The FAT in which the files "placed" holds have moved there.
FatWith(map, paths, placed) ==
    LET own(f) == {k \in 1..Len(placed) : placed[k].owner = <<"file", f>>}
    IN  [i \in 1..Len(paths) |->
            IF own(i - 1) = {} THEN map.fat[i]
            ELSE LET s == placed[CHOOSE k \in own(i - 1) : TRUE] IN [start |-> s.start, end |-> s.end]]
FinalFat(map, m) == FatWith(map, FinalPaths(map, m), PayloadLayout(map, m).segments)

\* The compressed sizes the overlay table of p has to be rewritten with.
Sizes(map, m, p) ==
    LET mine == {i \in Of(m, "overlay") : m.ops[i].p = p}
    IN  [id \in {m.ops[i].id : i \in mine} |->
            StoredSize(m.ops[CHOOSE i \in mine : m.ops[i].id = id].new)]

Metadata(map, m) ==
    LET fnt == IF Of(m, "add") = {} THEN <<>>
               ELSE <<[owner |-> "fnt", cells |-> FntCells(FinalDirs(map, m), FinalPaths(map, m))]>>
        fat == <<[owner |-> "fat", cells |-> FatCells(FinalFat(map, m))]>>
        table(p) == IF Sizes(map, m, p) = <<>> THEN <<>>
                    ELSE <<[owner |-> p, cells |-> OverlayTableCells(map.overlays[p], Sizes(map, m, p))]>>
    IN  fnt \o fat \o table("arm9") \o table("arm7")

WithMetadata(payload, metadata) ==
    LET meta == LayOut(payload.next, metadata, MetaAlign)
    IN  [used |-> meta.next, segments |-> payload.segments \o meta.segments]
Layout(map, m) == WithMetadata(PayloadLayout(map, m), Metadata(map, m))

RegionsOf(segments) ==
    [r \in {segments[k].owner : k \in 1..Len(segments)} \cap DOMAIN RegionAt |->
        segments[CHOOSE k \in 1..Len(segments) : segments[k].owner = r]]

UsedFits(map, used) == used - Len(map.image) <= MaxGrowth /\ CapacityFits(used)
\* What can still refuse a rebuild whose operations are all right.
RebuildFits(map, m) ==
    /\ FatFits(FinalFat(map, m))
    /\ Of(m, "add") # {} => FntFits(FinalDirs(map, m), FinalPaths(map, m))
    /\ \A p \in Processors : Sizes(map, m, p) # <<>> => OverlayTableFits(map.overlays[p])
    /\ UsedFits(map, Layout(map, m).used)
    /\ HeaderChecksumValid(map.image)

-----------------------------------------------------------------------------
(* The plan *)

FixedOf(map, m) == [i \in Fixed(m) |-> Guarded(map, m.ops[i])]

PlanV1(map, m) == [ok |-> TRUE, version |-> 1, source |-> map, manifest |-> m, fixed |-> FixedOf(map, m)]

\* The cells of the header that a rebuild changes; no other may differ.
HeaderRewrites(map, header) == {o \in 0..(RebuildHeader - 1) : At(map.image, o) # At(header, o)}
RewriteAllowed(regions) == {CapacityAt, UsedAt, CrcAt} \cup {RegionAt[r] : r \in DOMAIN regions}

PlanWith(map, m, layout, regions, header) ==
    IF HeaderRewrites(map, header) \subseteq RewriteAllowed(regions)
    THEN [ok |-> TRUE, version |-> 2, source |-> map, manifest |-> m, fixed |-> FixedOf(map, m),
          segments |-> layout.segments, used |-> layout.used,
          size |-> CapacityCells(SelectCapacity(layout.used)), header |-> header,
          fat |-> FinalFat(map, m), dirs |-> FinalDirs(map, m), paths |-> FinalPaths(map, m)]
    ELSE Refused
PlanFor(map, m, layout) ==
    LET regions == RegionsOf(layout.segments)
    IN  PlanWith(map, m, layout, regions, RebuiltHeader(map.image, layout.used, regions))
PlanV2(map, m) == PlanFor(map, m, Layout(map, m))

Compile(map, m) ==
    IF ~OperationsFit(map, m) \/ ~NoMutationConflicts(map, m) THEN Refused
    ELSE IF m.version = 1 THEN PlanV1(map, m)
    ELSE IF ExtensionFits(map, m) /\ NoLogicalConflicts(map, m) /\ RebuildFits(map, m) THEN PlanV2(map, m)
    ELSE Refused

-----------------------------------------------------------------------------
(* Applying it *)

ApplicationOrder(plan) ==
    SetToSortSeq(DOMAIN plan.fixed,
                 LAMBDA i, j : \/ plan.fixed[i].start < plan.fixed[j].start
                               \/ plan.fixed[i].start = plan.fixed[j].start /\ i < j)
ApplyFixed(img, plan) ==
    FoldLeft(LAMBDA done, i : Patch(done, plan.fixed[i].start, plan.fixed[i].new), img, ApplicationOrder(plan))

SegmentsFit(plan) ==
    LET n == Len(plan.segments)
    IN  /\ \A k \in 1..n : plan.segments[k].start >= Len(plan.source.image) /\ plan.segments[k].end <= plan.size
        /\ \A k \in 1..(n - 1) : plan.segments[k].end <= plan.segments[k + 1].start
        /\ plan.size >= Len(plan.source.image)
ApplySegments(img, plan) ==
    FoldLeft(LAMBDA done, s : Patch(done, s.start, s.cells), img, plan.segments)

Apply(plan) ==
    IF plan.version = 1 THEN ApplyFixed(plan.source.image, plan)
    ELSE Patch(ApplySegments(ApplyFixed(Pad(plan.source.image, plan.size), plan), plan), 0, plan.header)

-----------------------------------------------------------------------------
(* Verifying an image against it *)

Changed(plan, out) == {o \in 0..(Len(plan.source.image) - 1) : At(plan.source.image, o) # At(out, o)}
InFixed(plan, o) == \E i \in DOMAIN plan.fixed : o >= plan.fixed[i].start /\ o < plan.fixed[i].end

FixedInPlace(plan, out) ==
    \A i \in DOMAIN plan.fixed : Slice(out, plan.fixed[i].start, plan.fixed[i].end) = plan.fixed[i].new

\* The overlays that fixed component operations rewrote still decode, in place.
OwnersDecode(plan, outMap) ==
    \A i \in DOMAIN plan.fixed : \A w \in plan.fixed[i].owners :
        /\ OverlayOf(outMap, w.p, w.overlay.id) # {}
        /\ LET o == FindOverlay(outMap, w.p, w.overlay.id)
           IN  /\ o.compressed /\ HasRuntime(outMap, o)
               /\ [f \in {"start", "end", "ram", "ramSize", "bss"} |-> o[f]]
                    = [f \in {"start", "end", "ram", "ramSize", "bss"} |-> w.overlay[f]]

SameGeometry(a, b) ==
    a.exe = b.exe /\ a.region = b.region /\ a.fat = b.fat /\ a.dirs = b.dirs /\ a.paths = b.paths
      /\ a.overlays = b.overlays

VerifyV1(plan, out, outMap) ==
    /\ Len(out) = Len(plan.source.image)
    /\ outMap.ok
    /\ \A r \in Structure(plan.source) :
           Slice(out, r.start, r.end) = Slice(plan.source.image, r.start, r.end)
    /\ SameGeometry(plan.source, outMap)
    /\ FixedInPlace(plan, out)
    /\ OwnersDecode(plan, outMap)
    /\ \A o \in Changed(plan, out) : InFixed(plan, o)

\* Mutant: the gaps between the segments are not looked at.
SegmentsOnlyInPlace(plan, out) ==
    \A k \in 1..Len(plan.segments) :
        Slice(out, plan.segments[k].start, plan.segments[k].end) = plan.segments[k].cells
SegmentsInPlace(plan, out) ==
    /\ \A k \in 1..Len(plan.segments) :
           Slice(out, plan.segments[k].start, plan.segments[k].end) = plan.segments[k].cells
    /\ \A o \in Len(plan.source.image)..(plan.size - 1) :
           At(out, o) = Zero \/ \E k \in 1..Len(plan.segments) : o >= plan.segments[k].start /\ o < plan.segments[k].end

FilesystemAsPlanned(plan, outMap) ==
    /\ outMap.fat = plan.fat
    /\ outMap.paths = plan.paths
    /\ Len(outMap.dirs) = Len(plan.dirs)
    /\ \A i \in (Len(plan.source.dirs) + 1)..Len(plan.dirs) : outMap.dirs[i] = plan.dirs[i]

\* The FAT entry of every file or overlay replaced or added holds its payload.
PayloadsInPlace(plan, out) ==
    LET m == plan.manifest
    IN  \A i \in 1..Len(m.ops) : i \notin Fixed(m) =>
            LET entry == plan.fat[FileIdOf(plan.source, m, i) + 1]
            IN  Slice(out, entry.start, entry.end) = PayloadOf(m.ops[i])

\* Mutant: the compressed size counts as part of what an overlay means.
SemanticsWithSize(o) == [f \in {"id", "ram", "ramSize", "bss", "file", "compressed", "csize"} |-> o[f]]
Semantics(o) == [f \in {"id", "ram", "ramSize", "bss", "file", "compressed"} |-> o[f]]
\* The overlay an operation replaced is its new content ...
OverlayReplaced(plan, op, outMap) ==
    /\ OverlayOf(outMap, op.p, op.id) # {}
    /\ LET o == FindOverlay(outMap, op.p, op.id)
       IN  /\ Semantics(o) = Semantics(FindOverlay(plan.source, op.p, op.id))
           /\ o.csize = StoredSize(op.new)
           /\ HasRuntime(outMap, o)
           /\ Stored(outMap, o) = Encode(op.new)
           /\ Runtime(outMap, o) = op.new
\* ... and every other one means what it did: where it is stored and its
\* compressed size are not part of that.
OverlaysKeepSemantics(plan, outMap) ==
    \A p \in Processors :
        /\ Len(outMap.overlays[p]) = Len(plan.source.overlays[p])
        /\ \A i \in 1..Len(plan.source.overlays[p]) :
               LET o == plan.source.overlays[p][i]
               IN  /\ OverlayOf(outMap, p, o.id) # {}
                   /\ Semantics(FindOverlay(outMap, p, o.id)) = Semantics(o)

VerifyV2(plan, out, outMap) ==
    /\ Len(out) = plan.size
    /\ outMap.ok
    /\ Slice(out, 0, RebuildHeader) = plan.header
    /\ SegmentsInPlace(plan, out)
    /\ FilesystemAsPlanned(plan, outMap)
    /\ FixedInPlace(plan, out)
    /\ PayloadsInPlace(plan, out)
    /\ \A i \in Of(plan.manifest, "overlay") : OverlayReplaced(plan, plan.manifest.ops[i], outMap)
    /\ OverlaysKeepSemantics(plan, outMap)
    /\ \A o \in Changed(plan, out) :
           InFixed(plan, o) \/ o \in HeaderRewrites(plan.source, plan.header)
    /\ OwnersDecode(plan, outMap)   \* completeNdsMutationBuildVerification

Verify(plan, out) ==
    IF plan.version = 1 THEN VerifyV1(plan, out, ReadRomMap(out)) ELSE VerifyV2(plan, out, ReadRomMap(out))
=============================================================================
