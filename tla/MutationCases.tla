---------------------------- MODULE MutationCases ----------------------------
(***************************************************************************)
(* The mutation pipeline run end to end: a client writes a manifest one    *)
(* operation after the other, the planner compiles it, the builder applies *)
(* the plan, the medium may damage the result, and the verifier judges it. *)
(* What the client asked for is defined here on what the source means -    *)
(* its executables, files, directories and overlays as run - and not on    *)
(* offsets, so that it owes nothing to the planner.                        *)
(***************************************************************************)
EXTENDS MutationPlan

CONSTANTS Cases,       \* the sources, each with the operations a client may ask of it
          MaxOps,      \* operations in a manifest
          MaxDamaged   \* damage only the images of manifests of up to so many

ASSUME CasesAssumption == MaxOps \in Nat /\ MaxDamaged \in Nat

VARIABLES case, manifest, last, phase, plan, output, passed
vars == <<case, manifest, last, phase, plan, output, passed>>

Source == ReadRomMap(case.image)

Init == /\ case \in Cases
        /\ manifest \in [version : {1, 2}, ops : {<<>>}]
        /\ last = 1
        /\ phase = "writing"
        /\ plan = Refused
        /\ output = <<>>
        /\ passed = FALSE

\* The client.  Manifests are written in the order of case.ops; the others
\* are permutations of these, which OrderIrrelevant covers.
AddOperation ==
    /\ phase = "writing" /\ Len(manifest.ops) < MaxOps
    /\ \E i \in last..Len(case.ops) :
           /\ manifest' = [manifest EXCEPT !.ops = Append(@, case.ops[i])]
           /\ last' = i
    /\ UNCHANGED <<case, phase, plan, output, passed>>

CompilePlan ==
    /\ phase = "writing" /\ manifest.ops # <<>>
    /\ plan' = IF Source.ok THEN Compile(Source, manifest) ELSE Refused
    /\ phase' = IF plan'.ok THEN "planned" ELSE "refused"
    /\ UNCHANGED <<case, manifest, last, output, passed>>

ApplyPlan ==
    /\ phase = "planned"
    /\ IF plan.version = 1 \/ SegmentsFit(plan)
       THEN output' = Apply(plan) /\ phase' = "built"
       ELSE output' = output /\ phase' = "failed"
    /\ UNCHANGED <<case, manifest, last, plan, passed>>

\* A cell another program or the medium has changed.
Other(cell) ==
    {<<"d", 9>>}
    \cup (IF cell[1] = "fat" THEN {<<"fat", cell[2] + 1, cell[3] + 1>>, <<"fat", cell[2], cell[3] - 1>>} ELSE {})
    \cup (IF cell[1] = "file" THEN {<<"file", 8>>} ELSE {})
    \cup (IF cell[1] = "ov" THEN {[cell EXCEPT ![3] = @ + 1], [cell EXCEPT ![7] = @ + 1]} ELSE {})
    \cup (IF cell[1] = "used" THEN {<<"used", cell[2] + 1>>} ELSE {})
Damage ==
    /\ phase = "built" /\ Len(manifest.ops) <= MaxDamaged
    /\ \/ \E i \in 1..Len(output) : \E c \in Other(output[i]) \ {output[i]} : output' = [output EXCEPT ![i] = c]
       \/ output' = SubSeq(output, 1, Len(output) - 1)
       \/ output' = Append(output, Zero)
    /\ phase' = "damaged"
    /\ UNCHANGED <<case, manifest, last, plan, passed>>

VerifyOutput ==
    /\ phase \in {"built", "damaged"}
    /\ passed' = Verify(plan, output)
    /\ phase' = IF phase = "built" THEN "verified" ELSE "judged"
    /\ UNCHANGED <<case, manifest, last, plan, output>>

Next == AddOperation \/ CompilePlan \/ ApplyPlan \/ Damage \/ VerifyOutput

Spec == Init /\ [][Next]_vars

-----------------------------------------------------------------------------
(* What an image means, and what a manifest asks it to become. *)

OverlayBacked(map, f) == Owners(map, f) # {}
RuntimeOf(map, o) == IF HasRuntime(map, o) THEN Runtime(map, o) ELSE <<<<"undecodable">>>>

Meaning(map, files) ==
    [main |-> [p \in Processors |-> Slice(map.image, map.exe[p].start, map.exe[p].end)],
     files |-> {[id |-> f, path |-> map.paths[f + 1], cells |-> Slice(map.image, map.fat[f + 1].start, map.fat[f + 1].end)] :
                   f \in {f \in 0..(files - 1) : ~OverlayBacked(map, f)}},
     added |-> {[path |-> map.paths[f + 1], cells |-> Slice(map.image, map.fat[f + 1].start, map.fat[f + 1].end)] :
                   f \in files..(Len(map.fat) - 1)},
     dirs |-> {map.dirs[i].path : i \in 1..Len(map.dirs)},
     overlays |-> [p \in Processors |->
                    {[id |-> o.id, ram |-> o.ram, ramSize |-> o.ramSize, bss |-> o.bss, runtime |-> RuntimeOf(map, o)] :
                        o \in {map.overlays[p][i] : i \in 1..Len(map.overlays[p])}}]]

\* The operations on one component, in order, applied to its cells.
Edited(cells, base, ops) ==
    FoldLeft(LAMBDA done, op :
                IF op.type = "bytes"
                THEN Patch(done, IF op.at.by = "offset" THEN op.at.v ELSE op.at.v - base, op.new)
                ELSE op.new,
             cells, ops)
OnMain(m, p) ==
    SelectSeq(m.ops, LAMBDA op : op.type \in {"bytes", "component"} /\ op.target.kind = "main" /\ op.target.p = p)
OnFile(m, f, path) ==
    SelectSeq(m.ops, LAMBDA op : /\ op.type \in {"bytes", "component", "file"}
                                 /\ \/ op.target.kind = "file" /\ op.target.id = f
                                    \/ op.target.kind = "path" /\ op.target.path = path)
OnOverlay(m, p, id) ==
    SelectSeq(m.ops, LAMBDA op :
        IF op.type = "overlay" THEN op.p = p /\ op.id = id
        ELSE op.type \in {"bytes", "component"} /\ op.target.kind = "overlay" /\ op.target.p = p /\ op.target.id = id)

\* A stored replacement of a compressed overlay asks for what it decodes to.
AskedRuntime(o, ops) ==
    IF ops # <<>> /\ o.compressed /\ Last(ops).type = "component" THEN Last(ops).new[1][2]
    ELSE Edited(o.runtime, o.ram, ops)

Asked(map, now, m) ==
    LET compressed(p, id) == FindOverlay(map, p, id).compressed
    IN  [main |-> [p \in Processors |-> Edited(now.main[p], map.exe[p].ram, OnMain(m, p))],
         files |-> {[x EXCEPT !.cells = Edited(@, 0, OnFile(m, x.id, x.path))] : x \in now.files},
         added |-> {[path |-> m.ops[i].path, cells |-> m.ops[i].new] : i \in Of(m, "add")},
         dirs |-> now.dirs \cup NewDirs(m),
         overlays |-> [p \in Processors |->
            {[x EXCEPT !.runtime = AskedRuntime([runtime |-> @, ram |-> x.ram, compressed |-> compressed(p, x.id)],
                                                OnOverlay(m, p, x.id))] : x \in now.overlays[p]}]]

-----------------------------------------------------------------------------
(* Properties *)

\* A manifest the planner accepts is never refused later: the image its plan
\* builds passes every check of the verifier (planner.ts, apply.ts, verify.ts).
AcceptedVerifies ==
    /\ phase # "failed"
    /\ phase = "verified" => passed

\* An image that passes means what the client asked for and nothing else: every
\* file, directory, executable and overlay it did not name is as it was.
VerifiedIsAsked ==
    phase \in {"verified", "judged"} /\ passed =>
        LET as(map) == Meaning(map, Len(Source.fat))
        IN  as(ReadRomMap(output)) = Asked(Source, as(Source), manifest)

\* Whatever cell of the image has changed since it was built, the verifier sees it.
DamageIsCaught == phase = "judged" => ~passed

\* The order of the operations in a manifest decides neither whether it is
\* accepted nor what it builds (application order, file and directory IDs, layout).
OrderIrrelevant ==
    phase \in {"planned", "refused"} =>
        \A order \in Permutations(1..Len(manifest.ops)) :
            LET same(other) == other.ok = plan.ok /\ (plan.ok => Apply(other) = Apply(plan))
            IN  same(Compile(Source, [manifest EXCEPT !.ops = [i \in 1..Len(@) |-> @[order[i]]]]))

\* Addresses and offsets agree in every image, source or built: an address that
\* resolves to a ROM offset is among the owners of that offset, and conversely
\* every address an offset is said to have resolves to it (resolver.ts).
Agree(map) ==
    /\ \A p \in Processors, a \in 0..300 :
           \A c \in RuntimeCandidates(map, p, a) :
               c.direct => [kind |-> c.kind, id |-> c.id, address |-> a] \in ResolveRomOffset(map, c.rom)
    /\ \A o \in 0..(Len(map.image) - 1) : \A x \in ResolveRomOffset(map, o) :
           x.address # -1 => \E p \in Processors : \E c \in RuntimeCandidates(map, p, x.address) :
                                 c.kind = x.kind /\ c.id = x.id /\ c.rom = o
AddressesAgree ==
    /\ phase = "writing" /\ manifest.ops = <<>> => Agree(Source)
    /\ phase = "verified" /\ passed => Agree(ReadRomMap(output))

\* A file that backs several overlays stays valid for each of them: an overlay
\* that could be decoded in the source can be decoded in an image that passes.
SharedFileStaysValid ==
    phase = "verified" /\ passed =>
        \A p \in Processors : \A i \in 1..Len(Source.overlays[p]) :
            LET o == Source.overlays[p][i]
                out == ReadRomMap(output)
            IN  HasRuntime(Source, o) => HasRuntime(out, FindOverlay(out, p, o.id))
=============================================================================
