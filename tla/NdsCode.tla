------------------------------- MODULE NdsCode -------------------------------
(***************************************************************************)
(* Code as the static analyses see it: which component owns an address,    *)
(* what one instruction decodes to, where its control may go, what it      *)
(* refers to, and which components and seeds a search is given.            *)
(*                                                                         *)
(* A program is a ROM map of NdsRom (its executables and overlays, with    *)
(* addresses in bytes) with two more fields: entry, the entry address of   *)
(* each processor, and code, what the decoder makes of the bytes at a      *)
(* source.  A source is a place code is read from: a component (an overlay *)
(* identifier, or Main), an address and a mode.                            *)
(***************************************************************************)
EXTENDS NdsRom

CONSTANT AddressSpace  \* 2^32

ASSUME AddressSpaceAssumption == AddressSpace \in Nat \ {0}

Main == -1
AnyOwner == -2        \* no overlay asked for
Nowhere == -1         \* no address
Modes == {"arm", "thumb"}
MinimumSize == [arm |-> 4, thumb |-> 2]

Source(component, at, mode) == [component |-> component, at |-> at, mode |-> mode]
NoSource == Source(Main, Nowhere, "arm")
Resolved(source) == [status |-> "resolved", source |-> source]
Unresolved(status) == [status |-> status, source |-> NoSource]
AtAddress(source, a) == [source EXCEPT !.at = a]

\* A sequence in order with one more element: a push and a stable sort.
PutInOrder(seq, x, Before(_, _)) ==
    InsertAt(seq, 1 + Cardinality({i \in 1..Len(seq) : ~Before(x, seq[i])}), x)

-----------------------------------------------------------------------------
(* Ownership *)

\* The addresses whose bytes a component holds: not its BSS, nor what its file lacks.
CodeRange(rom, p, component) ==
    IF component = Main THEN [start |-> rom.exe[p].ram, end |-> rom.exe[p].ramEnd]
    ELSE LET o == FindOverlay(rom, p, component)
         IN  [start |-> o.ram,
              end |-> o.ram + IF o.compressed THEN o.ramSize ELSE Min({o.ramSize, o.end - o.start})]

\* Where the byte of a source is stored; a compressed overlay stores none as it is.
RomOffset(rom, p, s) ==
    IF s.component = Main THEN rom.exe[p].start + s.at - rom.exe[p].ram
    ELSE LET o == FindOverlay(rom, p, s.component) IN IF o.compressed THEN Nowhere ELSE o.start + s.at - o.ram

Inside(range, a) == a >= range.start /\ a < range.end

Candidates(rom, p, a, owner) ==
    {c \in RuntimeCandidates(rom, p, a) : owner = AnyOwner \/ (c.kind # "main" /\ c.id = owner)}

(* The one component that owns address a.  A wrong alignment is an error   *)
(* and not a status; the callers refuse both.                              *)
Resolve(rom, p, a, mode, owner) ==
    LET found == Candidates(rom, p, a, owner)
        only == CHOOSE c \in found : TRUE
    IN  IF found = {} THEN Unresolved("unmapped-address")
        ELSE IF Cardinality(found) > 1 THEN Unresolved("ambiguous-code-source")
        ELSE IF only.kind = "bss" THEN Unresolved("runtime-only-bss")
        ELSE IF ~only.direct /\ ~only.compressed THEN Unresolved("unmapped-address")
        ELSE IF a % MinimumSize[mode] # 0 THEN Unresolved("misaligned")
        ELSE Resolved(Source(only.id, a, mode))

(* The callers name a source again by its address, mode and overlay; main  *)
(* cannot be named, so an overlay over it makes the name ambiguous.        *)
ResolveAgain(rom, p, s) ==
    Resolve(rom, p, s.at, s.mode, IF s.component = Main THEN AnyOwner ELSE s.component)

\* A target inside the component of the instruction belongs to that component, whatever else is mapped there.
ControlFlowTarget(rom, p, current, a, mode) ==
    IF Inside(CodeRange(rom, p, current.component), a) THEN Resolved(Source(current.component, a, mode))
    ELSE Resolve(rom, p, a, mode, AnyOwner)

-----------------------------------------------------------------------------
(* Instructions *)

(* What the decoder returns for the bytes at a source: the size, the flags *)
(* the normalised flow is made from, the immediate operand, and for the    *)
(* flag "pc" the displacement of a literal or address from the PC.         *)
Instruction(size, flags, immediate, displacement) ==
    [size |-> size, flags |-> flags, immediate |-> immediate, displacement |-> displacement]

\* Undecodable bytes, or an instruction longer than the bytes at hand.
CanDecode(rom, source, window) == source \in DOMAIN rom.code /\ rom.code[source].size <= window

Opposite == [arm |-> "thumb", thumb |-> "arm"]

FlowKind(d) ==
    LET direct == d.immediate # Nowhere
    IN  IF "return" \in d.flags THEN "return"
        ELSE IF "call" \in d.flags THEN IF direct THEN "call" ELSE "indirect-call"
        ELSE IF "jump" \notin d.flags THEN "fallthrough"
        ELSE IF ~direct THEN "indirect-branch"
        ELSE IF "conditional" \in d.flags THEN "conditional-branch"
        ELSE "unconditional-branch"

TargetMode(source, d) == IF "switches" \in d.flags THEN Opposite[source.mode] ELSE source.mode

DirectKinds == {"call", "conditional-branch", "unconditional-branch"}

\* The instruction at a source: its flow, where it goes, and the place after it.
InstructionAt(rom, p, source) ==
    LET d == rom.code[source]
        kind == FlowKind(d)
    IN  [kind |-> kind, size |-> d.size, source |-> source,
         target |-> IF kind \in DirectKinds
                    THEN ControlFlowTarget(rom, p, source, d.immediate, TargetMode(source, d))
                    ELSE Unresolved("none"),
         immediate |-> d.immediate, targetMode |-> TargetMode(source, d),
         next |-> AtAddress(source, source.at + d.size)]

ArchitecturalPc(source) ==
    IF source.mode = "arm" THEN source.at + 8 ELSE ((source.at + 4) \div 4) * 4

\* The references of an instruction to address a.
ReferencesTo(rom, p, source, a) ==
    LET i == InstructionAt(rom, p, source)
        d == rom.code[source]
        to(kind, mode) == [kind |-> kind, site |-> source, mode |-> mode]
    IN  (IF i.kind = "call" /\ i.immediate = a THEN {to("direct-call", i.targetMode)} ELSE {})
        \cup (IF i.kind \in DirectKinds \ {"call"} /\ i.immediate = a THEN {to("direct-branch", i.targetMode)} ELSE {})
        \cup (IF "pc" \in d.flags /\ (ArchitecturalPc(source) + d.displacement) % AddressSpace = a
              THEN {to("pc-relative", "none")} ELSE {})

-----------------------------------------------------------------------------
(* Scope and seeds *)

\* scope: main (is Main in it), all (every overlay), ids (a sequence of overlays).
ScopeIsValid(rom, p, scope) ==
    LET known == {o.id : o \in ToSet(rom.overlays[p])}
    IN  \/ scope.all \/ (scope.main /\ scope.ids = <<>>)
        \/ scope.ids # <<>> /\ IsInjective(scope.ids) /\ ToSet(scope.ids) \subseteq known

\* A finite set of numbers as a sequence, the least first.
Ascending(S) == [i \in 1..Cardinality(S) |-> CHOOSE x \in S : Cardinality({y \in S : y < x}) = i - 1]

Components(rom, p, scope) ==
    LET ids == IF scope.all THEN {o.id : o \in ToSet(rom.overlays[p])} ELSE ToSet(scope.ids)
    IN  (IF scope.main THEN <<Main>> ELSE <<>>) \o Ascending(ids)

SeedSource(rom, p, seed) == Resolve(rom, p, seed.at, seed.mode, seed.owner).source

SeedsAreValid(rom, p, scope, seeds) ==
    \A i \in 1..Len(seeds) :
        /\ Resolve(rom, p, seeds[i].at, seeds[i].mode, seeds[i].owner).status = "resolved"
        /\ SeedSource(rom, p, seeds[i]).component \in ToSet(Components(rom, p, scope))

SeedSources(rom, p, seeds) ==
    LET all == [i \in 1..Len(seeds) |-> SeedSource(rom, p, seeds[i])]
    IN  FoldLeft(LAMBDA kept, s : IF s \in ToSet(kept) THEN kept ELSE Append(kept, s), <<>>, all)

ProgramEntry(rom, p) == Resolve(rom, p, rom.entry[p], "arm", AnyOwner)
=============================================================================
