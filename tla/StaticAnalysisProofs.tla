------------------------- MODULE StaticAnalysisProofs -------------------------
(***************************************************************************)
(* Proofs about StaticAnalysis, for every program, request and limit: the  *)
(* tools keep to their limits (BudgetsHold), a search returns references   *)
(* of reachable code, the first of those it came upon (FoundIsFirst), and, *)
(* with four bytes of the limit to spare, a graph is the code its entry    *)
(* reaches (GraphIsExact) and a search that says complete has found every  *)
(* reference (CompleteIsWhole); the verdict on a function is right where   *)
(* callers can be named (VerdictIsRight). The decoder is given only the    *)
(* bytes left of the limit: an instruction cut by them ends a walk with no *)
(* reason, and that is what the bytes to spare leave out.                  *)
(*                                                                         *)
(* The searches fold over seeds, references, calls and instructions. What  *)
(* a fold keeps is proved by induction on the elements it has taken:       *)
(* EverySubset and FoldExists, from the least element of a set of numbers. *)
(* The bytes of a set of instructions are counted as a set (Bytes), so     *)
(* that a sum of sizes is the cardinality of one.                          *)
(*                                                                         *)
(* ReachedFrom counts its waves. That nothing new is left after as many as *)
(* there are places (ReachedIsClosed) follows by counting: a wave that     *)
(* finds nothing is the last, and every other takes a place that none took *)
(* before.                                                                 *)
(***************************************************************************)
EXTENDS StaticAnalysis, FiniteSetTheorems, SequenceTheorems, WellFoundedInduction, TLAPS

-----------------------------------------------------------------------------
(* Induction *)

LEMMA Least ==
    ASSUME NEW T \in SUBSET Nat, T # {}
    PROVE  \E x \in T : \A y \in T : x <= y
<1> DEFINE R == {ss \in Nat \X Nat : ss[1] < ss[2]}
<1>1. IsWellFoundedOn(R, Nat)
  BY NatLessThanWellFounded, Zenon DEF OpToRel
<1>2. PICK x \in T : \A y \in T : <<y, x>> \notin R
  <2> HIDE DEF R
  <2> QED BY <1>1, WFMin
<1>3. ASSUME NEW y \in T, y < x PROVE FALSE
  <2>1. <<y, x>> \in R
    BY <1>3
  <2> QED BY <1>2, <2>1
<1> QED BY <1>3

\* Induction on the natural numbers, with a set for the property.
LEMMA EveryNatural ==
    ASSUME NEW S, 0 \in S, \A n \in Nat : n \in S => n + 1 \in S
    PROVE  Nat \subseteq S
<1>1. SUFFICES ASSUME Nat \ S # {} PROVE FALSE
  OBVIOUS
<1>2. PICK x \in Nat \ S : \A y \in Nat \ S : x <= y
  BY <1>1, Least
<1>3. x - 1 \in Nat /\ x - 1 \in S
  BY <1>2
<1>4. (x - 1) + 1 \in S
  BY <1>3
<1> QED BY <1>3, <1>4

\* it is the fold of F over D, from base, the elements taken in the order of ch.
Folds(it, D, ch, base, F) == \A s \in SUBSET D : it[s] = IF s = {} THEN base ELSE F[<<it[s \ {ch[s]}], ch[s]>>]
Chooses(ch, D) == \A s \in SUBSET D : s # {} => ch[s] \in s

\* Induction on the subsets of a finite set, one chosen element after the other.
LEMMA EverySubset ==
    ASSUME NEW D, IsFiniteSet(D), NEW ch, Chooses(ch, D),
           NEW G, {} \in G, \A s \in SUBSET D : s # {} /\ s \ {ch[s]} \in G => s \in G
    PROVE  D \in G
<1> USE DEF Chooses
<1> DEFINE S == {k \in Nat : \A s \in SUBSET D : Cardinality(s) = k => s \in G}
<1>1. 0 \in S
  BY FS_EmptySet, FS_Subset
<1>2. ASSUME NEW k \in Nat, k \in S PROVE k + 1 \in S
  <2>1. ASSUME NEW s \in SUBSET D, Cardinality(s) = k + 1 PROVE s \in G
    <3>1. IsFiniteSet(s)
      BY FS_Subset
    <3>2. s # {}
      BY <2>1, FS_EmptySet
    <3>3. ch[s] \in s
      BY <3>2
    <3>4. Cardinality(s \ {ch[s]}) = Cardinality(s) - 1
      BY <3>1, <3>3, FS_RemoveElement
    <3>5. s \ {ch[s]} \in G
      BY <1>2, <2>1, <3>4
    <3> QED BY <3>2, <3>5
  <2> QED BY <2>1
<1>3. Nat \subseteq S
  <2> HIDE DEF S
  <2> QED BY <1>1, <1>2, EveryNatural
<1> QED BY <1>3, FS_CardinalityType

\* What a fold with a step function F computes exists, and has its type.
LEMMA FoldExists ==
    ASSUME NEW D, IsFiniteSet(D), NEW ch, Chooses(ch, D), NEW A, NEW base \in A, NEW F \in [A \X D -> A]
    PROVE  \E it \in [SUBSET D -> A] : Folds(it, D, ch, base, F)
<1> USE DEF Chooses
<1> DEFINE Small(k) == {s \in SUBSET D : Cardinality(s) <= k}
           Solves(it, s) == it[s] = IF s = {} THEN base ELSE F[<<it[s \ {ch[s]}], ch[s]>>]
           S == {k \in Nat : \E it \in [Small(k) -> A] : \A s \in Small(k) : Solves(it, s)}
<1>0. \A s \in SUBSET D : IsFiniteSet(s) /\ Cardinality(s) \in Nat /\ (Cardinality(s) = 0 <=> s = {})
  BY FS_Subset, FS_CardinalityType, FS_EmptySet
<1>1. 0 \in S
  <2>1. Small(0) = {{}}
    BY <1>0
  <2>2. [s \in Small(0) |-> base] \in [Small(0) -> A] /\ \A s \in Small(0) : Solves([t \in Small(0) |-> base], s)
    BY <2>1
  <2> HIDE DEF Small, Solves
  <2> QED BY <2>2
<1>2. ASSUME NEW k \in Nat, k \in S PROVE k + 1 \in S
  <2>1. PICK it \in [Small(k) -> A] : \A s \in Small(k) : Solves(it, s)
    BY <1>2
  <2> DEFINE more == [s \in Small(k + 1) |-> IF s = {} THEN base ELSE F[<<it[s \ {ch[s]}], ch[s]>>]]
  <2>2. ASSUME NEW s \in Small(k + 1), s # {} PROVE s \ {ch[s]} \in Small(k) /\ ch[s] \in D
    <3>1. ch[s] \in s /\ Cardinality(s \ {ch[s]}) = Cardinality(s) - 1
      BY <1>0, <2>2, FS_RemoveElement
    <3> QED BY <1>0, <3>1
  <2>3. more \in [Small(k + 1) -> A]
    <3> HIDE DEF Small
    <3> QED BY <2>2
  <2>4. Small(k) \subseteq Small(k + 1)
    BY <1>0
  <2>5. \A t \in Small(k) : more[t] = it[t]
    <3> HIDE DEF Small
    <3> QED BY <2>1, <2>4
  <2>6. \A s \in Small(k + 1) : Solves(more, s)
    <3> HIDE DEF Small
    <3> QED BY <2>2, <2>5
  <2> HIDE DEF more, Small, Solves
  <2> QED BY <2>3, <2>6
<1>3. Nat \subseteq S
  <2> HIDE DEF S
  <2> QED BY <1>1, <1>2, EveryNatural
<1>4. Cardinality(D) \in S
  BY <1>0, <1>3
<1>5. Small(Cardinality(D)) = SUBSET D
  BY FS_Subset
<1> QED BY <1>4, <1>5 DEF Folds

-----------------------------------------------------------------------------
(* Types *)

CallTypeOK ==
    /\ call.rom \in Programs /\ call.p \in Processors /\ call.scope \in Scope
    /\ call.target \in Selector /\ call.seeds \in Seq(Selector)
    /\ call.limits \in [CallLimits -> Positive] /\ call.cfg \in [GraphLimits -> Positive]

\* Where code is read from, and what an instruction points to.
Places == [component : Everywhere, at : Int, mode : Modes]
Statuses ==
    {"resolved", "unmapped-address", "ambiguous-code-source", "runtime-only-bss", "misaligned", "none"}
Targets == [status : Statuses, source : Places]
CodeAt == DOMAIN call.rom.code

FlowKinds ==
    {"fallthrough", "call", "indirect-call", "return", "indirect-branch", "conditional-branch", "unconditional-branch"}
Instructions ==
    [kind : FlowKinds, size : Nat, source : Places, target : Targets, immediate : Int, targetMode : Modes, next : Places]
References == [kind : {"direct-call", "direct-branch", "pc-relative"}, site : Places, mode : Modes \cup {"none"}]

GraphReasons == {"block-limit", "instruction-limit", "byte-limit", "edge-limit"}
EdgeTypes == {"branch", "conditional-taken", "conditional-fallthrough"}
EdgeType == [from : Places, type : EdgeTypes, at : Int, mode : Modes, to : Places]
CallType == [block : Places, site : Places, target : Targets]
GraphType ==
    [entry : Places, limits : [GraphLimits -> Positive], open : {TRUE}, queue : Seq(Places), scheduled : SUBSET Places,
     block : Places, cursor : Nat, window : Int,
     blocks : SUBSET Places, instructions : SUBSET (Places \X Int), bytes : Nat, edges : SUBSET EdgeType,
     calls : Seq(CallType), unresolved : SUBSET [from : Places, at : Int, kind : Statuses \cup FlowKinds],
     reasons : SUBSET GraphReasons]

LEMMA OverlaysTyped ==
    ASSUME CallTypeOK, NEW c \in Everywhere, c # Main
    PROVE  FindOverlay(call.rom, call.p, c) \in OverlayRecord
<1> DEFINE all == call.rom.overlays[call.p]
           own == OverlayOf(call.rom, call.p, c)
<1>1. all \in Seq(OverlayRecord)
  BY ProgramsAssumption DEF CallTypeOK
<1>2. own \in SUBSET Nat /\ own \subseteq DOMAIN all
  BY <1>1 DEF OverlayOf
<1>3. own # {}
  BY <1>1 DEF Everywhere, ToSet, OverlayOf
<1>4. \E i \in own : \A j \in own : i <= j
  BY <1>2, <1>3, Least
<1>5. (CHOOSE i \in own : \A j \in own : i <= j) \in own
  BY <1>4
<1>6. \A i \in DOMAIN all : all[i] \in OverlayRecord
  BY <1>1
<1>7. FindOverlay(call.rom, call.p, c) = all[CHOOSE i \in own : \A j \in own : i <= j]
  BY DEF FindOverlay
<1> HIDE DEF all, own
<1> QED BY <1>2, <1>5, <1>6, <1>7

LEMMA EndTyped ==
    ASSUME CallTypeOK, NEW s \in Places
    PROVE  End(s) \in Int
<1>1. CASE s.component = Main
  <2>1. call.rom.exe[call.p] \in [start : Int, end : Int, ram : Int, ramEnd : Int]
    BY ProgramsAssumption DEF CallTypeOK
  <2> QED BY <1>1, <2>1 DEF End, CodeRange
<1>2. CASE s.component # Main
  <2> DEFINE o == FindOverlay(call.rom, call.p, s.component)
  <2>1. o \in OverlayRecord
    BY <1>2, OverlaysTyped DEF Places
  <2>2. \A x, y \in Int : Min({x, y}) \in Int
    BY DEF Min
  <2>3. o.ram \in Int /\ o.ramSize \in Int /\ o.end - o.start \in Int
    BY <2>1 DEF OverlayRecord
  <2> HIDE DEF o
  <2>4. Min({o.ramSize, o.end - o.start}) \in Int
    BY <2>2, <2>3
  <2> QED BY <1>2, <2>3, <2>4 DEF End, CodeRange, o
<1> QED BY <1>1, <1>2

LEMMA NoSourceIsPlace == NoSource \in Places
BY DEF NoSource, Source, Places, Everywhere, Main, Nowhere, Modes

LEMMA ResolveTyped ==
    ASSUME CallTypeOK, NEW a \in Int, NEW mode \in Modes, NEW owner
    PROVE  Resolve(call.rom, call.p, a, mode, owner) \in Targets
<1> DEFINE found == Candidates(call.rom, call.p, a, owner)
           only == CHOOSE c \in found : TRUE
           r == Resolve(call.rom, call.p, a, mode, owner)
<1>1. /\ Unresolved("unmapped-address") \in Targets /\ Unresolved("ambiguous-code-source") \in Targets
      /\ Unresolved("runtime-only-bss") \in Targets /\ Unresolved("misaligned") \in Targets
  BY NoSourceIsPlace DEF Unresolved, Targets, Statuses
<1>2. \A c \in found : c.id \in Everywhere
  <2>1. \A c \in MainCandidate(call.rom, call.p, a) : c.id = Main
    BY DEF MainCandidate, Main
  <2>2. \A o : \A c \in OverlayCandidate(o, a) : c.id = o.id
    BY DEF OverlayCandidate
  <2>3. call.rom.overlays[call.p] \in Seq(OverlayRecord)
    BY ProgramsAssumption DEF CallTypeOK
  <2>4. \A i \in 1..Len(call.rom.overlays[call.p]) : call.rom.overlays[call.p][i].id \in Everywhere
    BY <2>3 DEF Everywhere, ToSet
  <2> QED BY <2>1, <2>2, <2>4 DEF Candidates, RuntimeCandidates, Everywhere
<1>3. \A c \in Everywhere : Resolved(Source(c, a, mode)) \in Targets
  <2> SUFFICES ASSUME NEW c \in Everywhere PROVE Resolved(Source(c, a, mode)) \in Targets
    OBVIOUS
  <2>1. Source(c, a, mode) \in Places
    BY DEF Source, Places
  <2> HIDE DEF Places
  <2> QED BY <2>1 DEF Resolved, Targets, Statuses
<1> HIDE DEF found
<1>0. found # {} => only \in found
  OBVIOUS
<1> HIDE DEF only
<1>4. r \in {Unresolved("unmapped-address"), Unresolved("ambiguous-code-source"), Unresolved("runtime-only-bss"),
             Unresolved("misaligned")} \/ (found # {} /\ r = Resolved(Source(only.id, a, mode)))
  BY DEF Resolve, found, only
<1> HIDE DEF r
<1>5. r \in Targets
  <2>1. CASE found # {} /\ r = Resolved(Source(only.id, a, mode))
    BY <1>0, <1>2, <1>3, <2>1
  <2> QED BY <1>1, <1>4, <2>1
<1> QED BY <1>5 DEF r

LEMMA SomewhereResolved ==
    ASSUME NEW s \in Places
    PROVE  Resolved(s) \in Targets
BY DEF Resolved, Targets, Statuses

LEMMA NothingResolved == Unresolved("none") \in Targets
BY NoSourceIsPlace DEF Unresolved, Targets, Statuses

LEMMA AtAddressTyped ==
    ASSUME NEW s \in Places, NEW a \in Int
    PROVE  AtAddress(s, a) \in Places
BY DEF AtAddress, Places

LEMMA InstructionTyped ==
    ASSUME CallTypeOK, NEW s \in Places, s \in CodeAt
    PROVE  InstructionAt(call.rom, call.p, s) \in Instructions
<1> DEFINE d == call.rom.code[s]
           kind == FlowKind(d)
           mode == TargetMode(s, d)
           target == IF kind \in DirectKinds THEN ControlFlowTarget(call.rom, call.p, s, d.immediate, mode)
                     ELSE Unresolved("none")
           next == AtAddress(s, s.at + d.size)
<1>1. d.size \in Nat /\ d.immediate \in Int
  BY ProgramsAssumption DEF CallTypeOK, CodeAt
<1>2. kind \in FlowKinds
  BY DEF FlowKind, FlowKinds
<1>3. mode \in Modes
  BY DEF TargetMode, Places, Modes, Opposite
<1>4. s.at \in Int /\ s.component \in Everywhere
  BY DEF Places
<1>5. next \in Places
  BY <1>1, <1>4, AtAddressTyped
<1> HIDE DEF d, kind, mode
<1>6. Resolve(call.rom, call.p, d.immediate, mode, AnyOwner) \in Targets
  BY <1>1, <1>3, ResolveTyped
<1>7. Resolved(Source(s.component, d.immediate, mode)) \in Targets
  <2>1. Source(s.component, d.immediate, mode) \in Places
    BY <1>1, <1>3, <1>4 DEF Source, Places
  <2> QED BY <2>1, SomewhereResolved
<1>8. Unresolved("misaligned") \in Targets
  BY NoSourceIsPlace DEF Unresolved, Targets, Statuses
<1>9. target \in Targets
  BY <1>6, <1>7, <1>8, NothingResolved DEF ControlFlowTarget
<1> HIDE DEF target, next
<1>10. InstructionAt(call.rom, call.p, s) =
         [kind |-> kind, size |-> d.size, source |-> s, target |-> target, immediate |-> d.immediate,
          targetMode |-> mode, next |-> next]
  BY DEF InstructionAt, d, kind, mode, target, next
<1> QED BY <1>1, <1>2, <1>3, <1>5, <1>9, <1>10 DEF Instructions

LEMMA InstructionIsHere ==
    ASSUME NEW s
    PROVE  /\ InstructionAt(call.rom, call.p, s).source = s
           /\ InstructionAt(call.rom, call.p, s).size = call.rom.code[s].size
BY DEF InstructionAt

-----------------------------------------------------------------------------
(* The bytes of a set of instructions *)

\* The sum of the sizes of the instructions of S, as a number of elements.
Bytes(S) == {b \in S \X Nat : b[2] \in 1..SizeAt(b[1])}

LEMMA OneMoreInstruction ==
    ASSUME NEW S, NEW x, x \notin S, SizeAt(x) \in Nat, IsFiniteSet(Bytes(S))
    PROVE  /\ IsFiniteSet(Bytes(S \cup {x}))
           /\ Cardinality(Bytes(S \cup {x})) = SizeAt(x) + Cardinality(Bytes(S))
<1> DEFINE own == {x} \X (1..SizeAt(x))
           pair == [i \in 1..SizeAt(x) |-> <<x, i>>]
<1>1. IsFiniteSet(1..SizeAt(x)) /\ Cardinality(1..SizeAt(x)) = SizeAt(x)
  BY FS_Interval
<1>2. pair \in Bijection(1..SizeAt(x), own)
  BY DEF Bijection, Injection, Surjection, IsInjective
<1>3. IsFiniteSet(own) /\ Cardinality(own) = SizeAt(x)
  <2>1. ExistsBijection(1..SizeAt(x), own)
    BY <1>2 DEF ExistsBijection
  <2> HIDE DEF own
  <2> QED BY <1>1, <2>1, FS_Bijection
<1>4. Bytes(S \cup {x}) = own \cup Bytes(S)
  BY DEF Bytes
<1>5. own \cap Bytes(S) = {}
  BY DEF Bytes
<1> HIDE DEF own
<1>6. Cardinality(own \cup Bytes(S)) = Cardinality(own) + Cardinality(Bytes(S)) - Cardinality(own \cap Bytes(S))
  BY <1>3, FS_Union
<1>7. IsFiniteSet(own \cup Bytes(S))
  BY <1>3, FS_Union
<1>8. Cardinality(own \cap Bytes(S)) = 0 /\ Cardinality(Bytes(S)) \in Nat
  BY <1>5, FS_EmptySet, FS_CardinalityType
<1>9. Cardinality(own \cup Bytes(S)) = Cardinality(own) + Cardinality(Bytes(S))
  BY <1>3, <1>6, <1>8
<1> QED BY <1>3, <1>4, <1>7, <1>9

LEMMA NoInstruction == Bytes({}) = {}
BY DEF Bytes

\* What the totals of a discovery add up, whatever the order.
LEMMA SumIsBytes ==
    ASSUME NEW S, IsFiniteSet(S), \A x \in S : SizeAt(x) \in Nat
    PROVE  /\ MapThenSumSet(SizeAt, S) = Cardinality(Bytes(S))
           /\ IsFiniteSet(Bytes(S))
<1> DEFINE ch == [s \in SUBSET S |-> CHOOSE x \in s : TRUE]
           F == [a \in Nat \X S |-> SizeAt(a[2]) + a[1]]
           iter == CHOOSE it : it = [s \in SUBSET S |->
                       IF s = {} THEN 0 ELSE SizeAt(CHOOSE x \in s : TRUE) + it[s \ {CHOOSE x \in s : TRUE}]]
<1>1. MapThenSumSet(SizeAt, S) = iter[S]
  BY DEF MapThenSumSet, MapThenFoldSet
<1>2. \A s \in SUBSET S : s # {} => ch[s] \in s /\ ch[s] = CHOOSE x \in s : TRUE
  OBVIOUS
<1>3. F \in [Nat \X S -> Nat]
  OBVIOUS
<1>4. PICK it \in [SUBSET S -> Nat] : Folds(it, S, ch, 0, F)
  <2> DEFINE A == Nat
             base == 0
  <2>1. base \in A /\ F \in [A \X S -> A]
    BY <1>3
  <2> HIDE DEF ch, F, A, base
  <2>2. Chooses(ch, S)
    BY <1>2 DEF Chooses
  <2>3. \E it \in [SUBSET S -> A] : Folds(it, S, ch, base, F)
    BY <2>1, <2>2, FoldExists
  <2> QED BY <2>3 DEF A, base
<1>5. ASSUME NEW s \in SUBSET S, s # {}
      PROVE  F[<<it[s \ {ch[s]}], ch[s]>>] = SizeAt(CHOOSE x \in s : TRUE) + it[s \ {CHOOSE x \in s : TRUE}]
  <2>1. ch[s] \in S /\ it[s \ {ch[s]}] \in Nat
    BY <1>2, <1>5
  <2>2. \A n \in Nat, x \in S : F[<<n, x>>] = SizeAt(x) + n
    BY Zenon
  <2> QED BY <1>2, <1>5, <2>1, <2>2
<1>6. it = [s \in SUBSET S |->
          IF s = {} THEN 0 ELSE SizeAt(CHOOSE x \in s : TRUE) + it[s \ {CHOOSE x \in s : TRUE}]]
  <2> HIDE DEF ch, F
  <2> QED BY <1>4, <1>5 DEF Folds
<1>7. iter = [s \in SUBSET S |->
          IF s = {} THEN 0 ELSE SizeAt(CHOOSE x \in s : TRUE) + iter[s \ {CHOOSE x \in s : TRUE}]]
  BY <1>6
<1> HIDE DEF iter
<1> DEFINE G == {s \in SUBSET S : IsFiniteSet(Bytes(s)) /\ iter[s] = Cardinality(Bytes(s))}
<1>8. {} \in G
  BY <1>7, NoInstruction, FS_EmptySet
<1>9. ASSUME NEW s \in SUBSET S, s # {}, s \ {ch[s]} \in G PROVE s \in G
  <2> DEFINE x == ch[s]
  <2>1. x \in s /\ SizeAt(x) \in Nat
    BY <1>2, <1>9
  <2>2. (s \ {x}) \cup {x} = s
    BY <2>1
  <2>3. iter[s] = SizeAt(x) + iter[s \ {x}]
    BY <1>7, <1>9
  <2> HIDE DEF x, ch
  <2>4. IsFiniteSet(Bytes(s \ {x})) /\ iter[s \ {x}] = Cardinality(Bytes(s \ {x}))
    BY <1>9 DEF x
  <2>5. IsFiniteSet(Bytes(s)) /\ Cardinality(Bytes(s)) = SizeAt(x) + Cardinality(Bytes(s \ {x}))
    BY <2>1, <2>2, <2>4, OneMoreInstruction
  <2> QED BY <2>3, <2>4, <2>5
<1>10. S \in G
  <2> HIDE DEF G, ch
  <2>1. Chooses(ch, S)
    BY <1>2 DEF Chooses
  <2> QED BY <1>8, <1>9, <2>1, EverySubset
<1> QED BY <1>1, <1>10

-----------------------------------------------------------------------------
(* One graph *)

\* What a graph has recorded is within its limits, and its blocks were scheduled.
GraphInLimits(g) ==
    /\ g \in GraphType
    /\ IsFiniteSet(g.scheduled) /\ Cardinality(g.scheduled) <= g.limits.blocks
    /\ IsFiniteSet(g.instructions) /\ Cardinality(g.instructions) <= g.limits.instructions
    /\ IsFiniteSet(g.edges) /\ Cardinality(g.edges) <= g.limits.edges
    /\ g.bytes <= g.limits.bytes /\ Cardinality(Bytes(g.instructions)) <= g.bytes
    /\ IsFiniteSet(Bytes(g.instructions)) /\ \A x \in g.instructions : SizeAt(x) \in Nat
    /\ g.blocks \subseteq g.scheduled
    /\ g.block # NoSource => g.block \in g.scheduled
    /\ \A i \in 1..Len(g.queue) : g.queue[i] \in g.scheduled
\* The window of a block is no longer than what the limit on bytes leaves.
WindowInLimit(g) == g.block # NoSource => g.bytes + (g.window - g.cursor) <= g.limits.bytes
\* g and h have read the same code.
HasReadAs(g, h) ==
    /\ g.limits = h.limits /\ g.block = h.block /\ g.cursor = h.cursor /\ g.window = h.window
    /\ g.bytes = h.bytes /\ g.instructions = h.instructions

LEMMA OneMore ==
    ASSUME NEW S, IsFiniteSet(S), NEW x, NEW n \in Nat, Cardinality(S) < n
    PROVE  IsFiniteSet(S \cup {x}) /\ Cardinality(S \cup {x}) <= n
<1>1. Cardinality(S) \in Nat
  BY FS_CardinalityType
<1>2. IsFiniteSet(S \cup {x}) /\ (Cardinality(S \cup {x}) = Cardinality(S) \/ Cardinality(S \cup {x}) = Cardinality(S) + 1)
  BY FS_AddElement
<1> QED BY <1>1, <1>2

LEMMA LimitsArePositive ==
    ASSUME NEW g \in GraphType
    PROVE  /\ g.limits.blocks \in Nat /\ g.limits.instructions \in Nat
           /\ g.limits.bytes \in Nat /\ g.limits.edges \in Nat
BY DEF GraphType, GraphLimits, Positive

LEMMA ScheduleKeeps ==
    ASSUME NEW g, GraphInLimits(g), NEW s \in Places
    PROVE  GraphInLimits(Schedule(g, s)) /\ HasReadAs(Schedule(g, s), g)
<1>1. g \in GraphType
  BY DEF GraphInLimits
<1>2. CASE s \in g.scheduled
  BY <1>2 DEF Schedule, HasReadAs
<1>3. CASE s \notin g.scheduled /\ Cardinality(g.scheduled) >= g.limits.blocks
  <2>1. Schedule(g, s) = [g EXCEPT !.reasons = @ \cup {"block-limit"}]
    BY <1>3 DEF Schedule
  <2>2. Schedule(g, s) \in GraphType
    BY <1>1, <2>1 DEF GraphType, GraphReasons
  <2> QED BY <1>1, <2>1, <2>2 DEF GraphInLimits, HasReadAs, GraphType
<1>4. CASE s \notin g.scheduled /\ ~(Cardinality(g.scheduled) >= g.limits.blocks)
  <2> DEFINE h == [g EXCEPT !.scheduled = @ \cup {s}, !.queue = Append(@, s)]
  <2>1. Schedule(g, s) = h
    BY <1>4 DEF Schedule
  <2>2. h \in GraphType
    <3>1. g.scheduled \cup {s} \in SUBSET Places /\ Append(g.queue, s) \in Seq(Places)
      BY <1>1 DEF GraphType
    <3> QED BY <1>1, <3>1 DEF GraphType
  <2>3. /\ h.scheduled = g.scheduled \cup {s} /\ h.queue = Append(g.queue, s) /\ h.limits = g.limits
        /\ h.block = g.block /\ h.cursor = g.cursor /\ h.window = g.window /\ h.bytes = g.bytes
        /\ h.instructions = g.instructions /\ h.edges = g.edges /\ h.blocks = g.blocks
    BY <1>1 DEF GraphType
  <2>4. IsFiniteSet(h.scheduled) /\ Cardinality(h.scheduled) <= h.limits.blocks
    <3>1. IsFiniteSet(g.scheduled) /\ Cardinality(g.scheduled) \in Nat /\ g.limits.blocks \in Nat
      BY <1>1, LimitsArePositive, FS_CardinalityType DEF GraphInLimits
    <3>2. Cardinality(g.scheduled) < g.limits.blocks
      BY <1>4, <3>1
    <3>3. IsFiniteSet(g.scheduled \cup {s}) /\ Cardinality(g.scheduled \cup {s}) <= g.limits.blocks
      BY <3>1, <3>2, OneMore
    <3> HIDE DEF h
    <3> QED BY <2>3, <3>3
  <2>5. \A i \in 1..Len(h.queue) : h.queue[i] \in h.scheduled
    <3>1. g.queue \in Seq(Places)
      BY <1>1 DEF GraphType
    <3>2. \A i \in 1..Len(g.queue) : g.queue[i] \in g.scheduled
      BY DEF GraphInLimits
    <3> QED BY <2>3, <3>1, <3>2
  <2> HIDE DEF h
  <2> QED BY <2>1, <2>2, <2>3, <2>4, <2>5 DEF GraphInLimits, HasReadAs
<1> QED BY <1>2, <1>3, <1>4

LEMMA ReasonKeeps ==
    ASSUME NEW g, GraphInLimits(g), NEW R \in SUBSET GraphReasons
    PROVE  GraphInLimits([g EXCEPT !.reasons = @ \cup R]) /\ HasReadAs([g EXCEPT !.reasons = @ \cup R], g)
<1>1. g \in GraphType
  BY DEF GraphInLimits
<1>2. [g EXCEPT !.reasons = @ \cup R] \in GraphType
  BY <1>1 DEF GraphType
<1> QED BY <1>1, <1>2 DEF GraphInLimits, HasReadAs, GraphType

LEMMA UnresolvedKeeps ==
    ASSUME NEW g, GraphInLimits(g), NEW a \in Int, NEW kind \in Statuses \cup FlowKinds
    PROVE  /\ GraphInLimits([g EXCEPT !.unresolved = @ \cup {[from |-> g.block, at |-> a, kind |-> kind]}])
           /\ HasReadAs([g EXCEPT !.unresolved = @ \cup {[from |-> g.block, at |-> a, kind |-> kind]}], g)
<1>1. g \in GraphType
  BY DEF GraphInLimits
<1>2. g.unresolved \cup {[from |-> g.block, at |-> a, kind |-> kind]} \in SUBSET [from : Places, at : Int, kind : Statuses \cup FlowKinds]
  BY <1>1 DEF GraphType
<1>3. [g EXCEPT !.unresolved = @ \cup {[from |-> g.block, at |-> a, kind |-> kind]}] \in GraphType
  BY <1>1, <1>2 DEF GraphType
<1> QED BY <1>1, <1>3 DEF GraphInLimits, HasReadAs, GraphType

LEMMA CallKeeps ==
    ASSUME NEW g, GraphInLimits(g), NEW s \in Places, NEW target \in Targets
    PROVE  /\ GraphInLimits([g EXCEPT !.calls = Append(@, [block |-> g.block, site |-> s, target |-> target])])
           /\ HasReadAs([g EXCEPT !.calls = Append(@, [block |-> g.block, site |-> s, target |-> target])], g)
<1>1. g \in GraphType
  BY DEF GraphInLimits
<1>2. Append(g.calls, [block |-> g.block, site |-> s, target |-> target]) \in Seq(CallType)
  <2>1. [block |-> g.block, site |-> s, target |-> target] \in CallType
    BY <1>1 DEF GraphType, CallType
  <2> QED BY <1>1, <2>1 DEF GraphType
<1>3. [g EXCEPT !.calls = Append(@, [block |-> g.block, site |-> s, target |-> target])] \in GraphType
  BY <1>1, <1>2 DEF GraphType
<1> QED BY <1>1, <1>3 DEF GraphInLimits, HasReadAs, GraphType

LEMMA EdgeKeeps ==
    ASSUME NEW g, GraphInLimits(g), NEW e \in EdgeType, Cardinality(g.edges) < g.limits.edges
    PROVE  GraphInLimits([g EXCEPT !.edges = @ \cup {e}]) /\ HasReadAs([g EXCEPT !.edges = @ \cup {e}], g)
<1> DEFINE h == [g EXCEPT !.edges = @ \cup {e}]
<1>1. g \in GraphType
  BY DEF GraphInLimits
<1>2. h \in GraphType
  BY <1>1 DEF GraphType
<1>3. IsFiniteSet(g.edges \cup {e}) /\ Cardinality(g.edges \cup {e}) <= g.limits.edges
  <2>1. g.limits.edges \in Nat /\ IsFiniteSet(g.edges)
    BY <1>1, LimitsArePositive DEF GraphInLimits
  <2> QED BY <2>1, OneMore
<1> QED BY <1>1, <1>2, <1>3 DEF GraphInLimits, HasReadAs, GraphType

LEMMA HasReadAsChains ==
    ASSUME NEW f, NEW g, NEW h, HasReadAs(f, g), HasReadAs(g, h)
    PROVE  HasReadAs(f, h)
BY DEF HasReadAs

LEMMA AddEdgeKeeps ==
    ASSUME NEW g, GraphInLimits(g), Here \in Places, NEW type \in EdgeTypes, NEW a \in Int, NEW mode \in Modes,
           NEW target \in Targets
    PROVE  GraphInLimits(AddEdge(g, type, a, mode, target)) /\ HasReadAs(AddEdge(g, type, a, mode, target), g)
<1> DEFINE h == IF target.status = "resolved" THEN Schedule(g, target.source)
                ELSE [g EXCEPT !.unresolved = @ \cup {[from |-> g.block, at |-> Here.at, kind |-> target.status]}]
           to == IF target.source \in h.scheduled THEN target.source ELSE NoSource
           e == [from |-> g.block, type |-> type, at |-> a, mode |-> mode, to |-> to]
<1>1. target.source \in Places /\ target.status \in Statuses \cup FlowKinds /\ Here.at \in Int
  BY DEF Targets, Places
<1>2. GraphInLimits(h) /\ HasReadAs(h, g)
  BY <1>1, ScheduleKeeps, UnresolvedKeeps
<1>3. g \in GraphType /\ h \in GraphType /\ h.edges = g.edges
  BY <1>2 DEF GraphInLimits, Schedule, GraphType
<1>4. e \in EdgeType
  <2>1. to \in Places /\ g.block \in Places
    BY <1>1, <1>3, NoSourceIsPlace DEF GraphType
  <2> HIDE DEF to
  <2> QED BY <2>1 DEF EdgeType
<1> HIDE DEF h, to
<1>5. CASE Cardinality(g.edges) >= g.limits.edges
  <2>1. AddEdge(g, type, a, mode, target) = [g EXCEPT !.reasons = @ \cup {"edge-limit"}]
    BY <1>5 DEF AddEdge
  <2>2. {"edge-limit"} \in SUBSET GraphReasons
    BY DEF GraphReasons
  <2> QED BY <2>1, <2>2, ReasonKeeps
<1>6. CASE ~(Cardinality(g.edges) >= g.limits.edges)
  <2>1. AddEdge(g, type, a, mode, target) = [h EXCEPT !.edges = @ \cup {e}]
    BY <1>6 DEF AddEdge, h, to
  <2>2. Cardinality(h.edges) < h.limits.edges
    BY <1>2, <1>3, <1>6, LimitsArePositive, FS_CardinalityType DEF GraphInLimits, HasReadAs
  <2> HIDE DEF e
  <2> QED BY <1>2, <1>4, <2>1, <2>2, EdgeKeeps, HasReadAsChains
<1> QED BY <1>5, <1>6

LEMMA FollowKeeps ==
    ASSUME NEW g, GraphInLimits(g), Here \in Places, NEW i \in Instructions
    PROVE  GraphInLimits(Follow(g, i)) /\ HasReadAs(Follow(g, i), g)
<1> DEFINE exit(h) == [h EXCEPT !.unresolved = @ \cup {[from |-> h.block, at |-> i.source.at, kind |-> i.kind]}]
           record(h) == [h EXCEPT !.calls = Append(@, [block |-> h.block, site |-> i.source, target |-> i.target])]
<1>1. /\ i.kind \in FlowKinds /\ i.source \in Places /\ i.target \in Targets /\ i.immediate \in Int
      /\ i.targetMode \in Modes /\ i.next \in Places
  BY DEF Instructions
<1>2. ASSUME NEW h, GraphInLimits(h) PROVE GraphInLimits(exit(h)) /\ HasReadAs(exit(h), h)
  <2>1. i.kind \in Statuses \cup FlowKinds /\ i.source.at \in Int
    BY <1>1 DEF Places
  <2> QED BY <1>2, <2>1, UnresolvedKeeps
<1>3. GraphInLimits(record(g)) /\ HasReadAs(record(g), g)
  BY <1>1, CallKeeps
<1>4. ASSUME NEW type \in {"branch", "conditional-taken"}
      PROVE  GraphInLimits(Branch(g, i, type)) /\ HasReadAs(Branch(g, i, type), g)
  BY <1>1, AddEdgeKeeps DEF Branch, EdgeTypes
<1>5. ASSUME NEW h, GraphInLimits(h) PROVE GraphInLimits(FallThrough(h, i)) /\ HasReadAs(FallThrough(h, i), h)
  <2>1. i.next.at \in Int /\ i.next.mode \in Modes /\ Resolved(i.next) \in Targets
    BY <1>1, SomewhereResolved DEF Places
  <2>2. "conditional-fallthrough" \in EdgeTypes
    BY DEF EdgeTypes
  <2>3. HasReadAs(h, h)
    BY DEF HasReadAs
  <2> QED BY <1>5, <2>1, <2>2, <2>3, AddEdgeKeeps DEF FallThrough
<1>6. HasReadAs(g, g)
  BY DEF HasReadAs
<1>7. CASE i.kind = "fallthrough"
  BY <1>6, <1>7 DEF Follow
<1>8. CASE i.kind = "call"
  BY <1>3, <1>8 DEF Follow
<1>9. CASE i.kind = "indirect-call"
  <2>1. Follow(g, i) = exit(record(g))
    BY <1>9 DEF Follow
  <2> HIDE DEF exit, record
  <2> QED BY <1>2, <1>3, <2>1, HasReadAsChains
<1>10. CASE i.kind \in {"return", "indirect-branch"}
  <2>1. Follow(g, i) = exit(g)
    BY <1>10 DEF Follow
  <2> HIDE DEF exit
  <2> QED BY <1>2, <2>1
<1>11. CASE i.kind = "unconditional-branch"
  BY <1>4, <1>11 DEF Follow
<1>12. CASE i.kind = "conditional-branch"
  <2>1. Follow(g, i) = FallThrough(Branch(g, i, "conditional-taken"), i)
    BY <1>12 DEF Follow
  <2> QED BY <1>4, <1>5, <2>1, HasReadAsChains
<1> QED BY <1>1, <1>7, <1>8, <1>9, <1>10, <1>11, <1>12 DEF FlowKinds

GraphOK == graph = Idle \/ (GraphInLimits(graph) /\ WindowInLimit(graph))

LEMMA GraphStays ==
    ASSUME UNCHANGED call, graph' = Idle \/ (GraphInLimits(graph') /\ WindowInLimit(graph'))
    PROVE  GraphOK'
<1>1. Places' = Places /\ EdgeType' = EdgeType /\ CallType' = CallType
  BY DEF EdgeType, CallType, Targets, Places, Everywhere
<1>2. GraphType' = GraphType
  BY <1>1 DEF GraphType
<1>3. \A x \in graph'.instructions : SizeAt(x)' = SizeAt(x)
  BY DEF SizeAt
<1>4. Bytes(graph.instructions)' = Bytes(graph'.instructions)
  BY DEF Bytes, SizeAt
<1> QED BY <1>2, <1>3, <1>4 DEF GraphOK, GraphInLimits, WindowInLimit, Idle, NoSource, Source, Main, Nowhere

LEMMA EmptyGraphInLimits ==
    ASSUME NEW s \in Places, NEW limits \in [GraphLimits -> Positive]
    PROVE  GraphInLimits(EmptyGraph(s, limits)) /\ WindowInLimit(EmptyGraph(s, limits))
<1> DEFINE g == EmptyGraph(s, limits)
<1>1. g \in GraphType
  BY NoSourceIsPlace DEF EmptyGraph, GraphType
<1>2. IsFiniteSet({s}) /\ Cardinality({s}) = 1 /\ IsFiniteSet({}) /\ Cardinality({}) = 0
  BY FS_Singleton, FS_EmptySet
<1>3. /\ g.scheduled = {s} /\ g.instructions = {} /\ g.edges = {} /\ g.bytes = 0 /\ g.blocks = {}
      /\ g.block = NoSource /\ g.queue = <<s>> /\ g.limits = limits
  BY DEF EmptyGraph
<1>4. limits.blocks \in Positive /\ limits.instructions \in Positive /\ limits.bytes \in Positive /\ limits.edges \in Positive
  BY DEF GraphLimits
<1>5. limits.blocks >= 1 /\ limits.instructions >= 0 /\ limits.bytes >= 0 /\ limits.edges >= 0
  BY <1>4 DEF Positive
<1> HIDE DEF g
<1> QED BY <1>1, <1>2, <1>3, <1>5, NoInstruction DEF GraphInLimits, WindowInLimit, g

LEMMA HereIsPlace ==
    ASSUME GraphInLimits(graph)
    PROVE  Here \in Places
<1>1. graph.block \in Places /\ graph.cursor \in Nat
  BY DEF GraphInLimits, GraphType
<1>2. graph.block.at + graph.cursor \in Int
  BY <1>1 DEF Places
<1> QED BY <1>1, <1>2, AtAddressTyped DEF Here

LEMMA CloseBlockKeeps ==
    ASSUME NEW g, GraphInLimits(g), g.block # NoSource
    PROVE  GraphInLimits(CloseBlock(g)) /\ WindowInLimit(CloseBlock(g)) /\ CloseBlock(g).limits = g.limits
<1>1. g \in GraphType
  BY DEF GraphInLimits
<1>2. CloseBlock(g) \in GraphType
  BY <1>1, NoSourceIsPlace DEF CloseBlock, GraphType
<1> QED BY <1>1, <1>2 DEF CloseBlock, GraphInLimits, WindowInLimit, GraphType

\* What a block may read: nothing past the end of its component or past the limit.
LEMMA WindowFits ==
    ASSUME CallTypeOK, NEW s \in Places, NEW budget \in Nat
    PROVE  BytesToRead(s, budget) \in Int /\ BytesToRead(s, budget) <= budget
<1>1. s.at \in Int /\ End(s) \in Int
  BY EndTyped DEF Places
<1>2. \A x \in Int : Min({budget, x}) \in Int /\ Min({budget, x}) <= budget
  BY DEF Min
<1> QED BY <1>1, <1>2 DEF BytesToRead

LEMMA TakeBlockKeeps ==
    ASSUME CallTypeOK, GraphOK, TakeBlock
    PROVE  GraphInLimits(graph') /\ WindowInLimit(graph') /\ graph'.limits = graph.limits
<1>1. GraphInLimits(graph) /\ graph \in GraphType
  BY DEF GraphOK, GraphInLimits, TakeBlock, Idle
<1> DEFINE s == Head(graph.queue)
           budget == graph.limits.bytes - graph.bytes
           window == BytesToRead(s, budget)
<1>2. graph' = [graph EXCEPT !.queue = Tail(@), !.block = s, !.cursor = 0, !.window = window]
  BY DEF TakeBlock
<1>3. s \in Places /\ s \in graph.scheduled /\ Tail(graph.queue) \in Seq(Places)
  <2>1. graph.queue \in Seq(Places) /\ graph.queue # <<>>
    BY <1>1 DEF TakeBlock, GraphType
  <2>2. s = graph.queue[1] /\ 1 \in 1..Len(graph.queue)
    BY <2>1
  <2> QED BY <1>1, <2>1, <2>2 DEF GraphInLimits
<1>4. \A i \in 1..Len(Tail(graph.queue)) : Tail(graph.queue)[i] \in graph.scheduled
  <2>1. graph.queue \in Seq(Places) /\ graph.queue # <<>>
    BY <1>1 DEF TakeBlock, GraphType
  <2>2. \A i \in 1..Len(Tail(graph.queue)) : i + 1 \in 1..Len(graph.queue) /\ Tail(graph.queue)[i] = graph.queue[i + 1]
    BY <2>1
  <2> QED BY <1>1, <2>2 DEF GraphInLimits
<1>5. budget \in Nat /\ graph.bytes \in Nat /\ graph.limits.bytes \in Nat
  <2>1. graph.bytes \in Nat /\ graph.limits.bytes \in Nat /\ graph.bytes <= graph.limits.bytes
    BY <1>1, LimitsArePositive DEF GraphInLimits, GraphType
  <2> QED BY <2>1
<1>6. window \in Int /\ window <= budget
  BY <1>3, <1>5, WindowFits
<1> HIDE DEF s, window
<1>7. graph' \in GraphType
  BY <1>1, <1>2, <1>3, <1>6 DEF GraphType
<1>8. GraphInLimits(graph')
  BY <1>1, <1>2, <1>3, <1>4, <1>7 DEF GraphInLimits, GraphType
<1>9. graph'.bytes = graph.bytes /\ graph'.window = window /\ graph'.cursor = 0 /\ graph'.limits = graph.limits
  BY <1>1, <1>2 DEF GraphType
<1>10. WindowInLimit(graph')
  BY <1>5, <1>6, <1>9 DEF WindowInLimit
<1> QED BY <1>8, <1>9, <1>10

LEMMA StopBlockKeeps ==
    ASSUME GraphOK, StopBlock
    PROVE  GraphInLimits(graph') /\ WindowInLimit(graph') /\ graph'.limits = graph.limits
<1>1. GraphInLimits(graph) /\ graph.block # NoSource
  BY DEF GraphOK, StopBlock, InBlock, Idle
<1> DEFINE R == IF Stop # "limit" THEN {} ELSE IF LimitsReached(graph) # {} THEN LimitsReached(graph) ELSE {"byte-limit"}
           g == [graph EXCEPT !.reasons = @ \cup R]
<1>2. R \in SUBSET GraphReasons
  BY DEF LimitsReached, GraphReasons
<1>3. graph' = CloseBlock(g)
  BY DEF StopBlock
<1> HIDE DEF R
<1>4. GraphInLimits(g) /\ HasReadAs(g, graph)
  BY <1>1, <1>2, ReasonKeeps
<1> HIDE DEF g
<1> QED BY <1>1, <1>3, <1>4, CloseBlockKeeps DEF HasReadAs

\* An instruction is read only inside the window, and before a limit is reached.
LEMMA ReadsOn ==
    ASSUME NEW here, NEW window, NEW min, NEW atLimit \in BOOLEAN, StopReason(here, window, min, atLimit) = "none"
    PROVE  ~atLimit /\ here \in CodeAt /\ call.rom.code[here].size <= window
BY DEF StopReason, CanDecode, CodeAt

LEMMA ReadKeeps ==
    ASSUME CallTypeOK, GraphInLimits(graph), WindowInLimit(graph), InBlock, Stop = "none"
    PROVE  LET size == call.rom.code[Here].size
               g == [graph EXCEPT !.instructions = @ \cup {<<graph.block, Here.at>>}, !.bytes = @ + size,
                                  !.cursor = @ + size]
           IN  /\ GraphInLimits(g) /\ WindowInLimit(g) /\ Here \in CodeAt
               /\ g.block = graph.block /\ g.limits = graph.limits
<1> DEFINE size == call.rom.code[Here].size
           x == <<graph.block, Here.at>>
           g == [graph EXCEPT !.instructions = @ \cup {x}, !.bytes = @ + size, !.cursor = @ + size]
<1>1. graph \in GraphType /\ Here \in Places
  BY HereIsPlace DEF GraphInLimits
<1>2. LimitsReached(graph) = {} /\ Here \in CodeAt /\ size <= graph.window - graph.cursor
  <2>1. (LimitsReached(graph) # {}) \in BOOLEAN
    OBVIOUS
  <2> QED BY <2>1, ReadsOn DEF Stop
<1>3. size \in Nat
  BY <1>2, ProgramsAssumption DEF CallTypeOK, CodeAt
<1>4. AtAddress(x[1], x[2]) = Here /\ SizeAt(x) = size
  BY <1>1 DEF Here, AtAddress, SizeAt, GraphType, Places
<1>5. x \in Places \X Int
  BY <1>1 DEF GraphType, Places
<1>6. /\ graph.bytes \in Nat /\ graph.limits.bytes \in Nat /\ graph.limits.instructions \in Nat
      /\ graph.cursor \in Nat /\ graph.window \in Int
      /\ IsFiniteSet(graph.instructions) /\ Cardinality(graph.instructions) \in Nat
      /\ IsFiniteSet(Bytes(graph.instructions)) /\ Cardinality(Bytes(graph.instructions)) \in Nat
      /\ Cardinality(Bytes(graph.instructions)) <= graph.bytes
  BY <1>1, LimitsArePositive, FS_CardinalityType DEF GraphInLimits, GraphType
<1>7. Cardinality(graph.instructions) < graph.limits.instructions
  BY <1>2, <1>6 DEF LimitsReached
<1> HIDE DEF size, x
<1>8. /\ g \in GraphType /\ g.instructions = graph.instructions \cup {x} /\ g.bytes = graph.bytes + size
      /\ g.cursor = graph.cursor + size /\ g.limits = graph.limits /\ g.block = graph.block
      /\ g.window = graph.window /\ g.scheduled = graph.scheduled /\ g.blocks = graph.blocks
      /\ g.edges = graph.edges /\ g.queue = graph.queue
  <2>1. graph.instructions \cup {x} \in SUBSET (Places \X Int) /\ graph.bytes + size \in Nat /\ graph.cursor + size \in Nat
    BY <1>1, <1>3, <1>5, <1>6 DEF GraphType
  <2> QED BY <1>1, <2>1 DEF GraphType
<1> HIDE DEF g
<1>9. IsFiniteSet(g.instructions) /\ Cardinality(g.instructions) <= g.limits.instructions
  BY <1>6, <1>7, <1>8, OneMore
<1>10. IsFiniteSet(Bytes(g.instructions)) /\ Cardinality(Bytes(g.instructions)) <= g.bytes
  <2>1. CASE x \in graph.instructions
    <3>1. g.instructions = graph.instructions
      BY <1>8, <2>1
    <3>2. IsFiniteSet(Bytes(g.instructions)) /\ Cardinality(Bytes(g.instructions)) <= graph.bytes
      BY <1>6, <3>1
    <3>3. graph.bytes <= graph.bytes + size /\ Cardinality(Bytes(g.instructions)) \in Nat
      BY <1>3, <1>6, <3>1
    <3> QED BY <1>3, <1>6, <1>8, <3>2, <3>3
  <2>2. CASE x \notin graph.instructions
    <3>1. /\ IsFiniteSet(Bytes(g.instructions))
          /\ Cardinality(Bytes(g.instructions)) = size + Cardinality(Bytes(graph.instructions))
      BY <1>3, <1>4, <1>6, <1>8, <2>2, OneMoreInstruction
    <3> QED BY <1>3, <1>6, <1>8, <3>1
  <2> QED BY <2>1, <2>2
<1>11. g.bytes <= g.limits.bytes /\ WindowInLimit(g)
  <2>1. graph.bytes + (graph.window - graph.cursor) <= graph.limits.bytes
    BY DEF WindowInLimit, InBlock
  <2> QED BY <1>2, <1>3, <1>6, <1>8, <2>1 DEF WindowInLimit, size
<1>12. \A y \in g.instructions : SizeAt(y) \in Nat
  BY <1>3, <1>4, <1>8 DEF GraphInLimits
<1>13. GraphInLimits(g)
  BY <1>8, <1>9, <1>10, <1>11, <1>12 DEF GraphInLimits
<1> QED BY <1>2, <1>8, <1>11, <1>13 DEF g, x, size

LEMMA DecodeKeeps ==
    ASSUME CallTypeOK, GraphOK, DecodeInstruction
    PROVE  GraphInLimits(graph') /\ WindowInLimit(graph') /\ graph'.limits = graph.limits
<1>1. GraphInLimits(graph) /\ WindowInLimit(graph) /\ graph.block # NoSource
  BY DEF GraphOK, DecodeInstruction, InBlock, Idle
<1> DEFINE i == InstructionAt(call.rom, call.p, Here)
           size == call.rom.code[Here].size
           read == [graph EXCEPT !.instructions = @ \cup {<<graph.block, Here.at>>}, !.bytes = @ + size,
                                 !.cursor = @ + size]
<1>2. i.size = size
  BY InstructionIsHere
<1>3. graph' = IF GoesOn(i) THEN Follow(read, i) ELSE CloseBlock(Follow(read, i))
  <2> HIDE DEF size
  <2> QED BY <1>2 DEF DecodeInstruction
<1>4. GraphInLimits(read) /\ WindowInLimit(read) /\ Here \in CodeAt
      /\ read.block = graph.block /\ read.limits = graph.limits
  BY <1>1, ReadKeeps DEF DecodeInstruction
<1>5. i \in Instructions
  BY <1>1, <1>4, HereIsPlace, InstructionTyped
<1> HIDE DEF i, read
<1>6. GraphInLimits(Follow(read, i)) /\ HasReadAs(Follow(read, i), read)
  BY <1>1, <1>4, <1>5, HereIsPlace, FollowKeeps
<1>7. WindowInLimit(Follow(read, i)) /\ Follow(read, i).block # NoSource
  BY <1>1, <1>4, <1>6 DEF WindowInLimit, HasReadAs
<1>8. Follow(read, i).limits = graph.limits
  BY <1>4, <1>6 DEF HasReadAs
<1> QED BY <1>3, <1>6, <1>7, <1>8, CloseBlockKeeps

LEMMA FlowKeeps ==
    ASSUME CallTypeOK, GraphOK, FlowNext
    PROVE  GraphOK' /\ UNCHANGED call /\ (graph.open => graph'.limits = graph.limits /\ graph'.open)
<1>0. ASSUME GraphInLimits(graph') PROVE graph'.open
  BY <1>0 DEF GraphInLimits, GraphType
<1>1. UNCHANGED call
  BY DEF FlowNext, TakeBlock, StopBlock, DecodeInstruction, AnswerGraph
<1>2. CASE TakeBlock
  BY <1>1, <1>2, <1>0, TakeBlockKeeps, GraphStays
<1>3. CASE StopBlock
  BY <1>1, <1>3, <1>0, StopBlockKeeps, GraphStays
<1>4. CASE DecodeInstruction
  BY <1>1, <1>4, <1>0, DecodeKeeps, GraphStays
<1>5. CASE AnswerGraph
  BY <1>1, <1>5, GraphStays DEF AnswerGraph, GraphOK
<1> QED BY <1>1, <1>2, <1>3, <1>4, <1>5 DEF FlowNext

LEMMA FoldIsTyped ==
    ASSUME NEW D, IsFiniteSet(D), NEW ch, Chooses(ch, D), NEW A, NEW iter, iter[{}] \in A,
           \A s \in SUBSET D : s # {} /\ iter[s \ {ch[s]}] \in A => iter[s] \in A
    PROVE  iter[D] \in A
<1> DEFINE G == {s \in SUBSET D : iter[s] \in A}
<1>1. {} \in G /\ \A s \in SUBSET D : s # {} /\ s \ {ch[s]} \in G => s \in G
  OBVIOUS
<1>2. D \in G
  <2> HIDE DEF G
  <2> QED BY <1>1, EverySubset
<1> QED BY <1>2

\* A fold over a sequence takes the last of the indices that are left.
Latest(n) == [s \in SUBSET (1..n) |-> Max(s)]

LEMMA LatestChooses ==
    ASSUME NEW n \in Nat
    PROVE  /\ IsFiniteSet(1..n) /\ Chooses(Latest(n), 1..n)
           /\ \A s \in SUBSET (1..n) : Latest(n)[s] = Max(s) /\ (s # {} => Max(s) \in 1..n)
<1>1. ASSUME NEW s \in SUBSET (1..n), s # {} PROVE Max(s) \in s
  <2> DEFINE T == {n - x : x \in s}
  <2>1. T \in SUBSET Nat /\ T # {}
    <3>1. \A x \in s : x \in Int /\ x <= n
      OBVIOUS
    <3>2. \A x \in s : n - x \in Nat
      BY <3>1
    <3> QED BY <1>1, <3>2
  <2> HIDE DEF T
  <2>2. PICK y \in T : \A z \in T : y <= z
    BY <2>1, Least
  <2>3. PICK x \in s : y = n - x
    BY <2>2 DEF T
  <2>4. \A z \in s : n - x <= n - z
    BY <2>2, <2>3 DEF T
  <2>5. \A z \in s : x >= z
    BY <2>4
  <2> QED BY <2>5 DEF Max
<1>2. \A s \in SUBSET (1..n) : Latest(n)[s] = Max(s)
  BY DEF Latest
<1>3. Chooses(Latest(n), 1..n)
  BY <1>1, <1>2 DEF Chooses
<1>4. IsFiniteSet(1..n)
  BY FS_Interval
<1> QED BY <1>1, <1>2, <1>3, <1>4

-----------------------------------------------------------------------------
(* Seeds *)

LEMMA SeedSourcesTyped ==
    ASSUME CallTypeOK
    PROVE  SeedSources(call.rom, call.p, call.seeds) \in Seq(Places)
<1> DEFINE n == Len(call.seeds)
           all == [i \in 1..n |-> SeedSource(call.rom, call.p, call.seeds[i])]
           keep(kept, s) == IF s \in ToSet(kept) THEN kept ELSE Append(kept, s)
           A == Seq(Places)
           F == [x \in A \X (1..n) |-> keep(x[1], all[x[2]])]
           iter == CHOOSE it : it = [s \in SUBSET (1..n) |->
                       IF s = {} THEN <<>> ELSE keep(it[s \ {Max(s)}], all[Max(s)])]
<1>1. SeedSources(call.rom, call.p, call.seeds) = iter[1..n]
  BY DEF SeedSources, FoldLeft, MapThenFoldSet
<1>2. n \in Nat /\ call.seeds \in Seq(Selector)
  BY DEF CallTypeOK
<1>3. \A i \in 1..n : all[i] \in Places
  <2>1. ASSUME NEW i \in 1..n PROVE SeedSource(call.rom, call.p, call.seeds[i]) \in Places
    <3>1. call.seeds[i] \in Selector
      BY <1>2
    <3>2. call.seeds[i].at \in Int /\ call.seeds[i].mode \in Modes
      BY <3>1 DEF Selector
    <3> QED BY <3>2, ResolveTyped DEF SeedSource, Targets
  <2> QED BY <2>1
<1>4. \A kept \in A, s \in Places : keep(kept, s) \in A
  OBVIOUS
<1> HIDE DEF n, all, keep, A
<1>5. F \in [A \X (1..n) -> A]
  BY <1>3, <1>4
<1>6. <<>> \in A
  BY DEF A
<1>7. PICK it \in [SUBSET (1..n) -> A] : Folds(it, 1..n, Latest(n), <<>>, F)
  <2> HIDE DEF F
  <2> QED BY <1>2, <1>5, <1>6, LatestChooses, FoldExists
<1>8. ASSUME NEW s \in SUBSET (1..n), s # {}
      PROVE  F[<<it[s \ {Latest(n)[s]}], Latest(n)[s]>>] = keep(it[s \ {Max(s)}], all[Max(s)])
  <2>1. Latest(n)[s] = Max(s) /\ Max(s) \in 1..n /\ it[s \ {Max(s)}] \in A
    BY <1>2, <1>7, <1>8, LatestChooses
  <2> QED BY <2>1
<1>9. it = [s \in SUBSET (1..n) |-> IF s = {} THEN <<>> ELSE keep(it[s \ {Max(s)}], all[Max(s)])]
  <2> HIDE DEF F
  <2> QED BY <1>7, <1>8 DEF Folds
<1>10. iter = [s \in SUBSET (1..n) |-> IF s = {} THEN <<>> ELSE keep(iter[s \ {Max(s)}], all[Max(s)])]
  BY <1>9
<1> HIDE DEF iter
<1>11. \A s \in SUBSET (1..n) : s # {} /\ iter[s \ {Latest(n)[s]}] \in A => iter[s] \in A
  <2> SUFFICES ASSUME NEW s \in SUBSET (1..n), s # {}, iter[s \ {Latest(n)[s]}] \in A PROVE iter[s] \in A
    OBVIOUS
  <2>1. Latest(n)[s] = Max(s) /\ Max(s) \in 1..n
    BY <1>2, LatestChooses
  <2>2. iter[s] = keep(iter[s \ {Max(s)}], all[Max(s)])
    BY <1>10
  <2> QED BY <1>3, <1>4, <2>1, <2>2
<1>12. iter[1..n] \in A
  BY <1>2, <1>6, <1>10, <1>11, LatestChooses, FoldIsTyped
<1> QED BY <1>1, <1>12 DEF A

-----------------------------------------------------------------------------
(* Sequences in order *)

LEMMA InsertTyped ==
    ASSUME NEW S, NEW seq \in Seq(S), NEW x \in S, NEW i \in 1..(Len(seq) + 1)
    PROVE  InsertAt(seq, i, x) \in Seq(S) /\ Len(InsertAt(seq, i, x)) = Len(seq) + 1
<1>1. SubSeq(seq, 1, i - 1) \in Seq(S) /\ Len(SubSeq(seq, 1, i - 1)) = i - 1
  OBVIOUS
<1>2. SubSeq(seq, i, Len(seq)) \in Seq(S) /\ Len(SubSeq(seq, i, Len(seq))) = Len(seq) - i + 1
  OBVIOUS
<1>3. <<x>> \in Seq(S) /\ Len(<<x>>) = 1
  OBVIOUS
<1>4. \A u, v \in Seq(S) : u \o v \in Seq(S) /\ Len(u \o v) = Len(u) + Len(v)
  OBVIOUS
<1> DEFINE u == SubSeq(seq, 1, i - 1)
           v == SubSeq(seq, i, Len(seq))
<1>5. InsertAt(seq, i, x) = (u \o <<x>>) \o v
  BY DEF InsertAt
<1> HIDE DEF u, v
<1>6. u \o <<x>> \in Seq(S) /\ Len(u \o <<x>>) = i - 1 + 1
  BY <1>1, <1>3, <1>4 DEF u
<1>7. (u \o <<x>>) \o v \in Seq(S) /\ Len((u \o <<x>>) \o v) = Len(u \o <<x>>) + Len(v)
  BY <1>2, <1>4, <1>6 DEF v
<1>8. i \in Int /\ Len(seq) \in Nat /\ Len(v) = Len(seq) - i + 1
  BY <1>2 DEF v
<1>9. (i - 1 + 1) + (Len(seq) - i + 1) = Len(seq) + 1
  BY <1>8
<1> QED BY <1>5, <1>6, <1>7, <1>8, <1>9

LEMMA PlaceInRange ==
    ASSUME NEW n \in Nat, NEW T \in SUBSET (1..n)
    PROVE  1 + Cardinality(T) \in 1..(n + 1)
<1>1. IsFiniteSet(1..n) /\ Cardinality(1..n) = n
  BY FS_Interval
<1>2. Cardinality(T) <= n /\ Cardinality(T) \in Nat
  BY <1>1, FS_Subset, FS_CardinalityType
<1> QED BY <1>2

\* Any enumeration of a finite set is a sequence of its elements.
LEMMA Enumerated ==
    ASSUME NEW S, IsFiniteSet(S)
    PROVE  SetToSeq(S) \in [1..Cardinality(S) -> S] /\ Cardinality(S) \in Nat
<1>1. Cardinality(S) \in Nat /\ ExistsBijection(1..Cardinality(S), S)
  BY FS_CardinalityType
<1>2. \E f \in [1..Cardinality(S) -> S] : IsInjective(f)
  BY <1>1 DEF ExistsBijection, Bijection, Injection, IsInjective
<1> QED BY <1>1, <1>2 DEF SetToSeq

LEMMA ReferencesTyped ==
    ASSUME CallTypeOK, NEW s \in Places, s \in CodeAt, NEW a
    PROVE  /\ ReferencesTo(call.rom, call.p, s, a) \in SUBSET References
           /\ IsFiniteSet(ReferencesTo(call.rom, call.p, s, a))
<1> DEFINE i == InstructionAt(call.rom, call.p, s)
           to(kind, mode) == [kind |-> kind, site |-> s, mode |-> mode]
           all == {to("direct-call", i.targetMode), to("direct-branch", i.targetMode), to("pc-relative", "none")}
<1>1. i.targetMode \in Modes
  BY InstructionTyped DEF Instructions
<1>2. all \in SUBSET References
  BY <1>1 DEF References
<1>3. IsFiniteSet(all)
  <2>1. \A x, y, z : IsFiniteSet({x} \cup {y} \cup {z})
    BY FS_Singleton, FS_AddElement
  <2> DEFINE x == to("direct-call", i.targetMode)
             y == to("direct-branch", i.targetMode)
             z == to("pc-relative", "none")
  <2>2. all = {x} \cup {y} \cup {z}
    OBVIOUS
  <2> HIDE DEF x, y, z, all
  <2> QED BY <2>1, <2>2
<1>4. ReferencesTo(call.rom, call.p, s, a) \subseteq all
  <2> HIDE DEF i
  <2> QED BY DEF ReferencesTo, i
<1> HIDE DEF all
<1> QED BY <1>2, <1>3, <1>4, FS_Subset

-----------------------------------------------------------------------------
(* The search *)

ScanReasonNames == GraphReasons \cup {"component-limit"}
ScanType ==
    [open : {TRUE}, considered : {Considered}, queue : Seq(Places), scheduled : SUBSET Places,
     seeded : SUBSET Everywhere, limited : SUBSET Everywhere, reasons : SUBSET ScanReasonNames,
     found : Seq(References), matching : Nat, decoded : SUBSET Places, instructions : Nat, bytes : Nat, edges : Nat,
     block : Places, cursor : Nat, window : Int]
ScanInLimits(s) ==
    /\ s \in ScanType
    /\ IsFiniteSet(s.scheduled) /\ Cardinality(s.scheduled) <= call.limits.blocks
    /\ s.instructions <= call.limits.instructions /\ s.bytes <= call.limits.bytes /\ s.edges <= call.limits.edges
    /\ Len(s.found) <= call.limits.xrefs
ScanWindowInLimit(s) == s.block # NoSource => s.bytes + (s.window - s.cursor) <= call.limits.bytes
\* s and t stand at the same place of the same block.
StandsAs(s, t) == s.block = t.block /\ s.bytes = t.bytes /\ s.window = t.window /\ s.cursor = t.cursor

LEMMA CallLimitsTyped ==
    ASSUME CallTypeOK
    PROVE  \A k \in CallLimits : call.limits[k] \in Nat /\ call.limits[k] >= 1
BY DEF CallTypeOK, Positive

LEMMA LimitedKeeps ==
    ASSUME NEW s, ScanInLimits(s), NEW reason \in ScanReasonNames, NEW c \in Everywhere
    PROVE  ScanInLimits(Limited(Reason(s, reason), c)) /\ StandsAs(Limited(Reason(s, reason), c), s)
<1> DEFINE t == Reason(s, reason)
           r == Limited(t, c)
<1>1. s \in ScanType
  BY DEF ScanInLimits
<1>2. s.reasons \cup {reason} \in SUBSET ScanReasonNames
  BY <1>1 DEF ScanType
<1>3. t \in ScanType
  BY <1>1, <1>2 DEF ScanType, Reason
<1>4. ScanInLimits(t) /\ StandsAs(t, s)
  BY <1>1, <1>3 DEF ScanInLimits, StandsAs, ScanType, Reason
<1> HIDE DEF t
<1>5. t.limited \cup {c} \in SUBSET Everywhere
  BY <1>3 DEF ScanType
<1>6. r \in ScanType
  BY <1>3, <1>5 DEF ScanType, Limited
<1>7. ScanInLimits(r) /\ StandsAs(r, s)
  BY <1>3, <1>4, <1>6 DEF ScanInLimits, StandsAs, ScanType, Limited
<1> QED BY <1>7 DEF t

LEMMA ScheduleSourceKeeps ==
    ASSUME CallTypeOK, NEW s, ScanInLimits(s), NEW p \in Places
    PROVE  ScanInLimits(ScheduleSource(s, p)) /\ StandsAs(ScheduleSource(s, p), s)
<1> DEFINE seeded == [s EXCEPT !.seeded = @ \cup {p.component}]
           r == ScheduleSource(s, p)
<1>1. s \in ScanType /\ p.component \in Everywhere
  BY DEF ScanInLimits, Places
<1>2. seeded \in ScanType
  BY <1>1 DEF ScanType
<1>3. ScanInLimits(seeded) /\ StandsAs(seeded, s)
  BY <1>1, <1>2 DEF ScanInLimits, StandsAs, ScanType
<1>4. CASE p.component \notin s.considered
  BY <1>4 DEF ScheduleSource, StandsAs
<1>5. CASE p.component \in s.considered /\ p \in s.scheduled
  BY <1>3, <1>5 DEF ScheduleSource
<1>6. CASE /\ p.component \in s.considered /\ p \notin s.scheduled
           /\ Cardinality(s.scheduled) >= call.limits.blocks
  <2> HIDE DEF seeded
  <2>1. r = Limited(Reason(seeded, "block-limit"), p.component)
    BY <1>6 DEF ScheduleSource, ScanLimits, seeded
  <2>2. "block-limit" \in ScanReasonNames
    BY DEF ScanReasonNames, GraphReasons
  <2>3. ScanInLimits(r) /\ StandsAs(r, seeded)
    BY <1>1, <1>3, <2>1, <2>2, LimitedKeeps
  <2> QED BY <1>3, <2>3 DEF StandsAs
<1>7. CASE /\ p.component \in s.considered /\ p \notin s.scheduled
           /\ ~(Cardinality(s.scheduled) >= call.limits.blocks)
  <2>0. seeded.scheduled = s.scheduled /\ seeded.queue = s.queue
    BY <1>1 DEF ScanType
  <2> HIDE DEF seeded
  <2>1. r = [seeded EXCEPT !.scheduled = @ \cup {p}, !.queue = Append(@, p)]
    BY <1>7 DEF ScheduleSource, ScanLimits, seeded
  <2>2. seeded.scheduled \cup {p} \in SUBSET Places /\ Append(seeded.queue, p) \in Seq(Places)
    BY <1>2 DEF ScanType
  <2>3. r \in ScanType
    BY <1>2, <2>1, <2>2 DEF ScanType
  <2>4. call.limits.blocks \in Nat /\ Cardinality(s.scheduled) \in Nat /\ IsFiniteSet(s.scheduled)
    BY CallLimitsTyped, FS_CardinalityType DEF CallLimits, GraphLimits, ScanInLimits
  <2>5. IsFiniteSet(s.scheduled \cup {p}) /\ Cardinality(s.scheduled \cup {p}) <= call.limits.blocks
    BY <1>7, <2>4, OneMore
  <2> QED BY <1>2, <1>3, <2>0, <2>1, <2>3, <2>5 DEF ScanInLimits, StandsAs, ScanType
<1> QED BY <1>4, <1>5, <1>6, <1>7

LEMMA EmptyScanInLimits ==
    ASSUME CallTypeOK
    PROVE  ScanInLimits(EmptyScan) /\ EmptyScan.block = NoSource
<1>1. EmptyScan \in ScanType
  BY NoSourceIsPlace DEF EmptyScan, ScanType, ScanReasonNames
<1>2. IsFiniteSet({}) /\ Cardinality({}) = 0
  BY FS_EmptySet
<1>3. \A k \in {"blocks", "instructions", "bytes", "edges", "xrefs"} : call.limits[k] \in Nat
  BY CallLimitsTyped DEF CallLimits, GraphLimits
<1>4. /\ EmptyScan.scheduled = {} /\ EmptyScan.instructions = 0 /\ EmptyScan.bytes = 0 /\ EmptyScan.edges = 0
      /\ EmptyScan.found = <<>> /\ EmptyScan.block = NoSource
  BY DEF EmptyScan
<1> QED BY <1>1, <1>2, <1>3, <1>4 DEF ScanInLimits

LEMMA SeedsTyped ==
    ASSUME CallTypeOK
    PROVE  ImplicitSeed \o SeedSources(call.rom, call.p, call.seeds) \in Seq(Places)
<1>1. call.rom.entry[call.p] \in Int /\ "arm" \in Modes
  BY ProgramsAssumption DEF CallTypeOK, Modes
<1>2. ProgramEntry(call.rom, call.p).source \in Places
  BY <1>1, ResolveTyped DEF ProgramEntry, Targets
<1>3. ImplicitSeed \in Seq(Places)
  BY <1>2 DEF ImplicitSeed
<1> QED BY <1>3, SeedSourcesTyped

StartsAll(iter, n, all, A) ==
    /\ iter \in [SUBSET (1..n) -> A]
    /\ ScanStart = iter[1..n] /\ iter[{}] = EmptyScan
    /\ \A s \in SUBSET (1..n) : s # {} => iter[s] = ScheduleSource(iter[s \ {Max(s)}], all[Max(s)])

\* How the seeds are scheduled one after the other, in any set A that has the results.
LEMMA ScanStartUnfolds ==
    ASSUME CallTypeOK, NEW A, EmptyScan \in A, NEW all \in Seq(Places),
           all = ImplicitSeed \o SeedSources(call.rom, call.p, call.seeds),
           \A s \in A, p \in ToSet(all) : ScheduleSource(s, p) \in A
    PROVE  \E iter : StartsAll(iter, Len(all), all, A)
<1> DEFINE n == Len(all)
           F == [x \in A \X (1..n) |-> ScheduleSource(x[1], all[x[2]])]
           iter == CHOOSE it : it = [s \in SUBSET (1..n) |->
                       IF s = {} THEN EmptyScan ELSE ScheduleSource(it[s \ {Max(s)}], all[Max(s)])]
<1>2. n \in Nat /\ DOMAIN all = 1..n /\ \A i \in 1..n : all[i] \in ToSet(all)
  <2>1. n \in Nat /\ DOMAIN all = 1..n
    OBVIOUS
  <2> QED BY <2>1 DEF ToSet
<1>3. ScanStart = iter[1..n]
  <2>1. ScanStart = (CHOOSE it : it = [s \in SUBSET DOMAIN all |->
                       IF s = {} THEN EmptyScan ELSE ScheduleSource(it[s \ {Max(s)}], all[Max(s)])])[DOMAIN all]
    BY DEF ScanStart, FoldLeft, MapThenFoldSet
  <2> QED BY <1>2, <2>1
<1> HIDE DEF n
<1>6. F \in [A \X (1..n) -> A]
  BY <1>2
<1>7. PICK it \in [SUBSET (1..n) -> A] : Folds(it, 1..n, Latest(n), EmptyScan, F)
  <2> HIDE DEF F
  <2> QED BY <1>2, <1>6, LatestChooses, FoldExists
<1>8. ASSUME NEW s \in SUBSET (1..n), s # {}
      PROVE  F[<<it[s \ {Latest(n)[s]}], Latest(n)[s]>>] = ScheduleSource(it[s \ {Max(s)}], all[Max(s)])
  <2>1. Latest(n)[s] = Max(s) /\ Max(s) \in 1..n /\ it[s \ {Max(s)}] \in A
    BY <1>2, <1>7, <1>8, LatestChooses
  <2> QED BY <2>1
<1>9. it = [s \in SUBSET (1..n) |-> IF s = {} THEN EmptyScan ELSE ScheduleSource(it[s \ {Max(s)}], all[Max(s)])]
  <2> HIDE DEF F
  <2> QED BY <1>7, <1>8 DEF Folds
<1>10. iter = [s \in SUBSET (1..n) |-> IF s = {} THEN EmptyScan ELSE ScheduleSource(iter[s \ {Max(s)}], all[Max(s)])]
  BY <1>9
<1> HIDE DEF iter
<1>11. \A s \in SUBSET (1..n) : s # {} /\ iter[s \ {Latest(n)[s]}] \in A => iter[s] \in A
  <2> SUFFICES ASSUME NEW s \in SUBSET (1..n), s # {}, iter[s \ {Latest(n)[s]}] \in A PROVE iter[s] \in A
    OBVIOUS
  <2>1. Latest(n)[s] = Max(s) /\ Max(s) \in 1..n
    BY <1>2, LatestChooses
  <2>2. iter[s] = ScheduleSource(iter[s \ {Max(s)}], all[Max(s)])
    BY <1>10
  <2> QED BY <1>2, <2>1, <2>2
<1>12. \A s \in SUBSET (1..n) : iter[s] \in A
  <2>1. iter[{}] \in A
    BY <1>10
  <2> SUFFICES ASSUME NEW D \in SUBSET (1..n) PROVE iter[D] \in A
    OBVIOUS
  <2>2. IsFiniteSet(D) /\ Chooses(Latest(n), D)
    BY <1>2, LatestChooses, FS_Subset DEF Chooses
  <2>3. \A s \in SUBSET D : s # {} /\ iter[s \ {Latest(n)[s]}] \in A => iter[s] \in A
    BY <1>11
  <2> QED BY <2>1, <2>2, <2>3, FoldIsTyped
<1>13. iter \in [SUBSET (1..n) -> A]
  BY <1>10, <1>12
<1>14. iter[{}] = EmptyScan
       /\ \A s \in SUBSET (1..n) : s # {} => iter[s] = ScheduleSource(iter[s \ {Max(s)}], all[Max(s)])
  BY <1>10
<1> QED BY <1>3, <1>13, <1>14 DEF StartsAll, n

\* What holds of the empty search and is kept for every seed holds when the search begins.
LEMMA ScanStartIn ==
    ASSUME CallTypeOK, NEW A, EmptyScan \in A, NEW all \in Seq(Places),
           all = ImplicitSeed \o SeedSources(call.rom, call.p, call.seeds),
           \A s \in A, p \in ToSet(all) : ScheduleSource(s, p) \in A
    PROVE  ScanStart \in A
<1>1. PICK iter : StartsAll(iter, Len(all), all, A)
  BY ScanStartUnfolds
<1> QED BY <1>1 DEF StartsAll

\* The blocks of the seeds are scheduled within the limit on blocks.
LEMMA ScanStartInLimits ==
    ASSUME CallTypeOK
    PROVE  ScanInLimits(ScanStart) /\ ScanStart.block = NoSource
<1> DEFINE all == ImplicitSeed \o SeedSources(call.rom, call.p, call.seeds)
           A == {s \in ScanType : ScanInLimits(s) /\ s.block = NoSource}
<1>1. all \in Seq(Places)
  BY SeedsTyped
<1> HIDE DEF all
<1>2. \A p \in ToSet(all) : p \in Places
  BY <1>1 DEF ToSet
<1>3. \A s \in A, p \in ToSet(all) : ScheduleSource(s, p) \in A
  BY <1>2, ScheduleSourceKeeps DEF ScanInLimits, StandsAs
<1>4. EmptyScan \in A
  BY EmptyScanInLimits DEF ScanInLimits
<1> HIDE DEF A
<1>5. ScanStart \in A
  BY <1>1, <1>3, <1>4, ScanStartIn DEF all
<1> QED BY <1>5 DEF A

LEMMA RetainKeeps ==
    ASSUME CallTypeOK, NEW found \in Seq(References), Len(found) <= call.limits.xrefs, NEW r \in References
    PROVE  Retain(found, r) \in Seq(References) /\ Len(Retain(found, r)) <= call.limits.xrefs
<1> DEFINE T == {i \in 1..Len(found) : ~ReferenceBefore(r, found[i])}
           sorted == PutInOrder(found, r, ReferenceBefore)
<1>1. 1 + Cardinality(T) \in 1..(Len(found) + 1)
  BY PlaceInRange
<1>2. sorted = InsertAt(found, 1 + Cardinality(T), r)
  BY DEF PutInOrder
<1> HIDE DEF T
<1>3. sorted \in Seq(References) /\ Len(sorted) = Len(found) + 1
  BY <1>1, <1>2, InsertTyped
<1>4. Retain(found, r) = IF Len(sorted) > call.limits.xrefs THEN Front(sorted) ELSE sorted
  BY DEF Retain, ScanLimits
<1> HIDE DEF sorted
<1>5. Front(sorted) \in Seq(References) /\ Len(Front(sorted)) = Len(found)
  BY <1>3 DEF Front
<1>6. call.limits.xrefs \in Nat
  BY CallLimitsTyped DEF CallLimits
<1> QED BY <1>3, <1>4, <1>5, <1>6

RetainAll(found, new) == FoldLeft(Retain, found, new)
RetainsAll(iter, found, n, new, A) ==
    /\ iter \in [SUBSET (1..n) -> A]
    /\ RetainAll(found, new) = iter[1..n] /\ iter[{}] = found
    /\ \A s \in SUBSET (1..n) : s # {} => iter[s] = Retain(iter[s \ {Max(s)}], new[Max(s)])

\* How the references of an instruction are put in order one after the other, in any set A that has the results.
LEMMA RetainUnfolds ==
    ASSUME NEW A, NEW found \in A, NEW n \in Nat, NEW new \in [1..n -> References],
           \A f \in A, r \in References : Retain(f, r) \in A
    PROVE  \E iter : RetainsAll(iter, found, n, new, A)
<1> DEFINE F == [x \in A \X (1..n) |-> Retain(x[1], new[x[2]])]
           iter == CHOOSE it : it = [s \in SUBSET (1..n) |->
                       IF s = {} THEN found ELSE Retain(it[s \ {Max(s)}], new[Max(s)])]
<1>1. RetainAll(found, new) = iter[1..n]
  <2>1. RetainAll(found, new) = (CHOOSE it : it = [s \in SUBSET DOMAIN new |->
                       IF s = {} THEN found ELSE Retain(it[s \ {Max(s)}], new[Max(s)])])[DOMAIN new]
    BY DEF RetainAll, FoldLeft, MapThenFoldSet
  <2>2. DOMAIN new = 1..n
    OBVIOUS
  <2> QED BY <2>1, <2>2
<1>4. F \in [A \X (1..n) -> A]
  OBVIOUS
<1>5. PICK it \in [SUBSET (1..n) -> A] : Folds(it, 1..n, Latest(n), found, F)
  <2> HIDE DEF F
  <2> QED BY <1>4, LatestChooses, FoldExists
<1>6. ASSUME NEW s \in SUBSET (1..n), s # {}
      PROVE  F[<<it[s \ {Latest(n)[s]}], Latest(n)[s]>>] = Retain(it[s \ {Max(s)}], new[Max(s)])
  <2>1. Latest(n)[s] = Max(s) /\ Max(s) \in 1..n /\ it[s \ {Max(s)}] \in A
    BY <1>5, <1>6, LatestChooses
  <2> QED BY <2>1
<1>7. it = [s \in SUBSET (1..n) |-> IF s = {} THEN found ELSE Retain(it[s \ {Max(s)}], new[Max(s)])]
  <2> HIDE DEF F
  <2> QED BY <1>5, <1>6 DEF Folds
<1>8. iter = [s \in SUBSET (1..n) |-> IF s = {} THEN found ELSE Retain(iter[s \ {Max(s)}], new[Max(s)])]
  BY <1>7
<1> HIDE DEF iter, F
<1>9. \A s \in SUBSET (1..n) : s # {} /\ iter[s \ {Latest(n)[s]}] \in A => iter[s] \in A
  <2> SUFFICES ASSUME NEW s \in SUBSET (1..n), s # {}, iter[s \ {Latest(n)[s]}] \in A PROVE iter[s] \in A
    OBVIOUS
  <2>1. Latest(n)[s] = Max(s) /\ Max(s) \in 1..n
    BY LatestChooses
  <2>2. iter[s] = Retain(iter[s \ {Max(s)}], new[Max(s)])
    BY <1>8
  <2> QED BY <2>1, <2>2
<1> DEFINE G == {s \in SUBSET (1..n) : iter[s] \in A}
<1>10. \A s \in SUBSET (1..n) : iter[s] \in A
  <2>1. iter[{}] \in A
    BY <1>8
  <2> SUFFICES ASSUME NEW D \in SUBSET (1..n) PROVE iter[D] \in A
    OBVIOUS
  <2>2. IsFiniteSet(D) /\ Chooses(Latest(n), D)
    BY LatestChooses, FS_Subset DEF Chooses
  <2>3. \A s \in SUBSET D : s # {} /\ iter[s \ {Latest(n)[s]}] \in A => iter[s] \in A
    BY <1>9
  <2> QED BY <2>1, <2>2, <2>3, FoldIsTyped
<1>11. iter \in [SUBSET (1..n) -> A]
  BY <1>8, <1>10
<1>12. iter[{}] = found /\ \A s \in SUBSET (1..n) : s # {} => iter[s] = Retain(iter[s \ {Max(s)}], new[Max(s)])
  BY <1>8
<1> QED BY <1>1, <1>11, <1>12 DEF RetainsAll

LEMMA RetainAllKeeps ==
    ASSUME CallTypeOK, NEW found \in Seq(References), Len(found) <= call.limits.xrefs,
           NEW n \in Nat, NEW new \in [1..n -> References]
    PROVE  RetainAll(found, new) \in Seq(References) /\ Len(RetainAll(found, new)) <= call.limits.xrefs
<1> DEFINE A == {f \in Seq(References) : Len(f) <= call.limits.xrefs}
<1>1. \A f \in A, r \in References : Retain(f, r) \in A
  BY RetainKeeps
<1>2. found \in A
  OBVIOUS
<1>3. RetainAll(found, new) \in A
  <2> HIDE DEF A
  <2>1. PICK iter : RetainsAll(iter, found, n, new, A)
    BY <1>1, <1>2, RetainUnfolds
  <2> QED BY <2>1 DEF RetainsAll
<1> QED BY <1>3

LEMMA CollectKeeps ==
    ASSUME CallTypeOK, NEW s, ScanInLimits(s), NEW i, i.source \in Places, i.source \in CodeAt
    PROVE  ScanInLimits(Collect(s, i)) /\ StandsAs(Collect(s, i), s)
<1> DEFINE S == ReferencesTo(call.rom, call.p, i.source, call.target.at)
           new == SetToSeq(S)
           n == Cardinality(S)
           found == RetainAll(s.found, new)
           t == [s EXCEPT !.found = found, !.matching = @ + Len(new)]
<1>1. S \in SUBSET References /\ IsFiniteSet(S)
  BY ReferencesTyped
<1> HIDE DEF S
<1>2. n \in Nat /\ new \in [1..n -> S]
  BY <1>1, Enumerated
<1>3. new \in [1..n -> References]
  BY <1>1, <1>2
<1>4. new \in Seq(References) /\ Len(new) \in Nat
  BY <1>2, <1>3
<1>5. s \in ScanType /\ s.found \in Seq(References) /\ Len(s.found) <= call.limits.xrefs
  BY DEF ScanInLimits, ScanType
<1> HIDE DEF new, n
<1>6. found \in Seq(References) /\ Len(found) <= call.limits.xrefs
  BY <1>2, <1>3, <1>5, RetainAllKeeps
<1>7. Collect(s, i) = t
  BY DEF Collect, RetainAll, new, S
<1> HIDE DEF found
<1>8. s.matching + Len(new) \in Nat
  BY <1>4, <1>5 DEF ScanType
<1>9. t \in ScanType
  BY <1>5, <1>6, <1>8 DEF ScanType
<1>10. /\ t.found = found /\ t.scheduled = s.scheduled /\ t.instructions = s.instructions /\ t.bytes = s.bytes
       /\ t.edges = s.edges /\ t.block = s.block /\ t.window = s.window /\ t.cursor = s.cursor
  BY <1>5 DEF ScanType
<1> HIDE DEF t
<1> QED BY <1>6, <1>7, <1>9, <1>10 DEF ScanInLimits, StandsAs

LEMMA TraverseToKeeps ==
    ASSUME CallTypeOK, NEW s, ScanInLimits(s), NEW target \in Targets
    PROVE  ScanInLimits(TraverseTo(s, target)) /\ StandsAs(TraverseTo(s, target), s)
<1> DEFINE t == [s EXCEPT !.edges = @ + 1]
           r == TraverseTo(s, target)
<1>1. s \in ScanType /\ s.edges \in Nat /\ s.block.component \in Everywhere /\ target.source \in Places
  BY DEF ScanInLimits, ScanType, Places, Targets
<1>2. CASE target.status # "resolved" \/ target.source.component \notin s.considered
  BY <1>2 DEF TraverseTo, StandsAs
<1>3. CASE /\ ~(target.status # "resolved" \/ target.source.component \notin s.considered)
           /\ s.edges >= call.limits.edges
  <2>1. r = Limited(Reason(s, "edge-limit"), s.block.component)
    BY <1>3 DEF TraverseTo, ScanLimits
  <2>2. "edge-limit" \in ScanReasonNames
    BY DEF ScanReasonNames, GraphReasons
  <2> QED BY <1>1, <2>1, <2>2, LimitedKeeps
<1>4. CASE /\ ~(target.status # "resolved" \/ target.source.component \notin s.considered)
           /\ ~(s.edges >= call.limits.edges)
  <2>1. r = ScheduleSource(t, target.source)
    BY <1>4 DEF TraverseTo, ScanLimits
  <2>2. call.limits.edges \in Nat
    BY CallLimitsTyped DEF CallLimits, GraphLimits
  <2> DEFINE n == s.edges + 1
  <2>3. n \in Nat /\ n <= call.limits.edges
    BY <1>1, <1>4, <2>2
  <2> HIDE DEF n
  <2>4. t = [s EXCEPT !.edges = n]
    BY DEF n
  <2>5. ScanInLimits(t) /\ StandsAs(t, s)
    <3> HIDE DEF t
    <3>1. t \in ScanType
      BY <1>1, <2>3, <2>4 DEF ScanType
    <3>2. /\ t.edges = n /\ t.found = s.found /\ t.scheduled = s.scheduled /\ t.instructions = s.instructions
          /\ t.bytes = s.bytes /\ t.block = s.block /\ t.window = s.window /\ t.cursor = s.cursor
      BY <1>1, <2>4 DEF ScanType
    <3> QED BY <2>3, <3>1, <3>2 DEF ScanInLimits, StandsAs
  <2> HIDE DEF t
  <2>6. ScanInLimits(r) /\ StandsAs(r, t)
    BY <1>1, <2>1, <2>5, ScheduleSourceKeeps
  <2> QED BY <2>5, <2>6 DEF StandsAs
<1> QED BY <1>2, <1>3, <1>4

LEMMA TraverseKeeps ==
    ASSUME CallTypeOK, NEW s, ScanInLimits(s), NEW i \in Instructions
    PROVE  ScanInLimits(Traverse(s, i)) /\ StandsAs(Traverse(s, i), s)
<1> DEFINE through == IF i.next.at < End(i.source) THEN Resolved(i.next) ELSE Unresolved("none")
<1>1. i.target \in Targets /\ i.next \in Places
  BY DEF Instructions
<1>2. through \in Targets
  BY <1>1, SomewhereResolved, NothingResolved
<1>3. /\ ScanInLimits(TraverseTo(s, i.target)) /\ StandsAs(TraverseTo(s, i.target), s)
  BY <1>1, TraverseToKeeps
<1> HIDE DEF through
<1>4. LET t == TraverseTo(TraverseTo(s, i.target), through) IN ScanInLimits(t) /\ StandsAs(t, TraverseTo(s, i.target))
  BY <1>2, <1>3, TraverseToKeeps
<1>5. CASE i.kind \in {"call", "unconditional-branch"}
  BY <1>3, <1>5 DEF Traverse
<1>6. CASE i.kind = "conditional-branch"
  <2>1. Traverse(s, i) = TraverseTo(TraverseTo(s, i.target), through)
    BY <1>6 DEF Traverse, through
  <2> QED BY <1>3, <1>4, <2>1 DEF StandsAs
<1>7. CASE i.kind \notin {"call", "unconditional-branch", "conditional-branch"}
  <2>1. Traverse(s, i) = s
    BY <1>7 DEF Traverse
  <2> QED BY <2>1 DEF StandsAs
<1> QED BY <1>5, <1>6, <1>7

ScanOK == scan = NoScan \/ (ScanInLimits(scan) /\ ScanWindowInLimit(scan))

LEMMA ScanStays ==
    ASSUME UNCHANGED call, scan' = NoScan \/ (ScanInLimits(scan') /\ ScanWindowInLimit(scan'))
    PROVE  ScanOK'
<1>1. Places' = Places /\ Everywhere' = Everywhere /\ References' = References /\ Considered' = Considered
  BY DEF References, Places, Everywhere, Considered, Selected, ScanLimits
<1>2. ScanType' = ScanType
  BY <1>1 DEF ScanType
<1> QED BY <1>2 DEF ScanOK, ScanInLimits, ScanWindowInLimit, NoScan, NoSource, Source, Main, Nowhere

LEMMA ScanIsTyped ==
    ASSUME ScanOK, scan.open
    PROVE  /\ ScanInLimits(scan) /\ ScanWindowInLimit(scan) /\ scan \in ScanType
           /\ scan.bytes \in Nat /\ scan.cursor \in Nat /\ scan.window \in Int /\ scan.instructions \in Nat
<1>1. ScanInLimits(scan) /\ ScanWindowInLimit(scan)
  BY DEF ScanOK, NoScan
<1>2. scan \in ScanType
  BY <1>1 DEF ScanInLimits
<1> QED BY <1>1, <1>2 DEF ScanType

LEMMA ScanTakeBlockKeeps ==
    ASSUME CallTypeOK, ScanOK, ScanTakeBlock
    PROVE  ScanInLimits(scan') /\ ScanWindowInLimit(scan')
<1>1. ScanInLimits(scan) /\ scan \in ScanType
  BY ScanIsTyped DEF ScanTakeBlock, ScanRunning
<1> DEFINE s == Head(scan.queue)
           budget == call.limits.bytes - scan.bytes
           window == BytesToRead(s, budget)
<1>2. scan' = [scan EXCEPT !.queue = Tail(@), !.block = s, !.cursor = 0, !.window = window]
  BY DEF ScanTakeBlock, ScanLimits
<1>3. s \in Places /\ Tail(scan.queue) \in Seq(Places)
  <2>1. scan.queue \in Seq(Places) /\ scan.queue # <<>>
    BY <1>1 DEF ScanTakeBlock, ScanType
  <2> QED BY <2>1
<1>4. budget \in Nat /\ scan.bytes \in Nat /\ call.limits.bytes \in Nat
  <2>1. scan.bytes \in Nat /\ call.limits.bytes \in Nat /\ scan.bytes <= call.limits.bytes
    BY <1>1, CallLimitsTyped DEF CallLimits, GraphLimits, ScanInLimits, ScanType
  <2> QED BY <2>1
<1>5. window \in Int /\ window <= budget
  BY <1>3, <1>4, WindowFits
<1> HIDE DEF s, window
<1>6. scan' \in ScanType
  BY <1>1, <1>2, <1>3, <1>5 DEF ScanType
<1>7. ScanInLimits(scan')
  BY <1>1, <1>2, <1>6 DEF ScanInLimits, ScanType
<1>8. scan'.bytes = scan.bytes /\ scan'.window = window /\ scan'.cursor = 0
  BY <1>1, <1>2 DEF ScanType
<1> QED BY <1>4, <1>5, <1>7, <1>8 DEF ScanWindowInLimit

LEMMA ScanGiveUpKeeps ==
    ASSUME CallTypeOK, ScanOK, ScanGiveUp
    PROVE  ScanInLimits(scan') /\ ScanWindowInLimit(scan')
<1>1. ScanInLimits(scan) /\ scan \in ScanType
  BY ScanIsTyped DEF ScanGiveUp, ScanRunning
<1> DEFINE more == {q.component : q \in ToSet(scan.queue)}
<1>2. scan' = [scan EXCEPT !.queue = <<>>, !.reasons = @ \cup ScanLimitsReached, !.limited = @ \cup more]
  BY DEF ScanGiveUp
<1>3. more \in SUBSET Everywhere
  <2>1. scan.queue \in Seq(Places)
    BY <1>1 DEF ScanType
  <2>2. \A j \in DOMAIN scan.queue : scan.queue[j] \in Places
    BY <2>1
  <2> QED BY <2>2 DEF ToSet, Places
<1>4. ScanLimitsReached \in SUBSET ScanReasonNames
  BY DEF ScanLimitsReached, ScanReasonNames, GraphReasons
<1> HIDE DEF more
<1>5. scan' \in ScanType
  <2>1. <<>> \in Seq(Places)
    OBVIOUS
  <2>2. scan.reasons \cup ScanLimitsReached \in SUBSET ScanReasonNames /\ scan.limited \cup more \in SUBSET Everywhere
    BY <1>1, <1>3, <1>4 DEF ScanType
  <2> HIDE DEF ScanInLimits
  <2> QED BY <1>1, <1>2, <2>1, <2>2 DEF ScanType
<1>6. /\ scan'.found = scan.found /\ scan'.scheduled = scan.scheduled /\ scan'.instructions = scan.instructions
      /\ scan'.edges = scan.edges /\ scan'.bytes = scan.bytes /\ scan'.block = NoSource
  BY <1>1, <1>2 DEF ScanType, ScanGiveUp
<1> QED BY <1>1, <1>5, <1>6 DEF ScanInLimits, ScanWindowInLimit

\* A block that ends leaves everything but the place of the reader as it is.
LEMMA EndBlockKeeps ==
    ASSUME NEW s, ScanInLimits(s)
    PROVE  LET t == [s EXCEPT !.block = NoSource] IN ScanInLimits(t) /\ ScanWindowInLimit(t)
<1> DEFINE t == [s EXCEPT !.block = NoSource]
<1>1. s \in ScanType
  BY DEF ScanInLimits
<1>2. t \in ScanType /\ t.block = NoSource
  BY <1>1, NoSourceIsPlace DEF ScanType
<1> QED BY <1>1, <1>2 DEF ScanInLimits, ScanWindowInLimit, ScanType

LEMMA ScanStopBlockKeeps ==
    ASSUME CallTypeOK, ScanOK, ScanStopBlock
    PROVE  ScanInLimits(scan') /\ ScanWindowInLimit(scan')
<1> DEFINE reason == IF scan.instructions >= call.limits.instructions THEN "instruction-limit" ELSE "byte-limit"
           ended == [scan EXCEPT !.block = NoSource]
<1>1. ScanInLimits(scan) /\ scan \in ScanType
  BY ScanIsTyped DEF ScanStopBlock, ScanRunning
<1>2. ScanInLimits(ended) /\ ended.block = NoSource /\ ended \in ScanType
  BY <1>1, EndBlockKeeps DEF ScanType, ScanInLimits
<1>3. reason \in ScanReasonNames /\ scan.block.component \in Everywhere
  BY <1>1 DEF ScanReasonNames, GraphReasons, ScanType, Places
<1>4. scan' = IF ScanStop = "limit" THEN Limited(Reason(ended, reason), scan.block.component) ELSE ended
  BY DEF ScanStopBlock, ScanLimits
<1> HIDE DEF reason, ended
<1>5. ScanInLimits(Limited(Reason(ended, reason), scan.block.component))
      /\ StandsAs(Limited(Reason(ended, reason), scan.block.component), ended)
  BY <1>2, <1>3, LimitedKeeps
<1> QED BY <1>2, <1>4, <1>5 DEF ScanWindowInLimit, StandsAs

LEMMA ScanHereIsPlace ==
    ASSUME scan \in ScanType
    PROVE  ScanHere \in Places
<1>1. scan.block \in Places /\ scan.cursor \in Nat
  BY DEF ScanType
<1>2. scan.block.at + scan.cursor \in Int
  BY <1>1 DEF Places
<1> QED BY <1>1, <1>2, AtAddressTyped DEF ScanHere

LEMMA ScanInstructionKeeps ==
    ASSUME CallTypeOK, ScanOK, ScanInstruction
    PROVE  ScanInLimits(scan') /\ ScanWindowInLimit(scan')
<1> DEFINE i == InstructionAt(call.rom, call.p, ScanHere)
           size == call.rom.code[ScanHere].size
           read == [scan EXCEPT !.instructions = @ + 1, !.bytes = @ + size, !.cursor = @ + size,
                                !.decoded = @ \cup {ScanHere}]
           traversed == Traverse(Collect(read, i), i)
<1>1. /\ ScanInLimits(scan) /\ ScanWindowInLimit(scan) /\ scan \in ScanType /\ scan.block # NoSource
      /\ scan.bytes \in Nat /\ scan.cursor \in Nat /\ scan.window \in Int /\ scan.instructions \in Nat
  BY ScanIsTyped DEF ScanInstruction, ScanRunning
<1>2. ScanHere \in Places
  BY <1>1, ScanHereIsPlace
<1>3. ~ScanAtLimit /\ ScanHere \in CodeAt /\ size <= scan.window - scan.cursor
  <2>1. ScanAtLimit \in BOOLEAN
    BY DEF ScanAtLimit
  <2> QED BY <2>1, ReadsOn DEF ScanInstruction, ScanStop
<1>4. size \in Nat
  BY <1>3, ProgramsAssumption DEF CallTypeOK, CodeAt
<1>5. i.size = size /\ i.source = ScanHere
  BY InstructionIsHere
<1>6. i \in Instructions
  BY <1>2, <1>3, InstructionTyped
<1>7. scan' = IF GoesOn(i) THEN traversed ELSE [traversed EXCEPT !.block = NoSource]
  <2> HIDE DEF size
  <2> QED BY <1>5 DEF ScanInstruction
<1> HIDE DEF i, size
<1>8. call.limits.instructions \in Nat /\ call.limits.bytes \in Nat
  BY CallLimitsTyped DEF CallLimits, GraphLimits
<1> DEFINE count == scan.instructions + 1
           bytes == scan.bytes + size
           cursor == scan.cursor + size
<1>9. count \in Nat /\ count <= call.limits.instructions /\ bytes \in Nat /\ cursor \in Nat
  BY <1>1, <1>3, <1>4, <1>8 DEF ScanAtLimit, ScanLimits
<1>10. bytes + (scan.window - cursor) <= call.limits.bytes /\ bytes <= call.limits.bytes
  <2>1. scan.bytes + (scan.window - scan.cursor) <= call.limits.bytes
    BY <1>1 DEF ScanWindowInLimit
  <2> QED BY <1>1, <1>3, <1>4, <1>8, <2>1
<1>11. read = [scan EXCEPT !.instructions = count, !.bytes = bytes, !.cursor = cursor, !.decoded = @ \cup {ScanHere}]
  OBVIOUS
<1> HIDE DEF read, count, bytes, cursor
<1>12. read \in ScanType
  <2>1. scan.decoded \cup {ScanHere} \in SUBSET Places
    BY <1>1, <1>2 DEF ScanType
  <2> QED BY <1>1, <1>9, <1>11, <2>1 DEF ScanType
<1>13. /\ read.instructions = count /\ read.bytes = bytes /\ read.cursor = cursor /\ read.window = scan.window
       /\ read.scheduled = scan.scheduled /\ read.edges = scan.edges /\ read.found = scan.found
  BY <1>1, <1>11 DEF ScanType
<1>14. ScanInLimits(read)
  BY <1>1, <1>9, <1>10, <1>12, <1>13 DEF ScanInLimits
<1>15. ScanInLimits(Collect(read, i)) /\ StandsAs(Collect(read, i), read)
  BY <1>2, <1>3, <1>5, <1>14, CollectKeeps
<1>16. ScanInLimits(traversed) /\ StandsAs(traversed, Collect(read, i))
  BY <1>6, <1>15, TraverseKeeps
<1> HIDE DEF traversed
<1>17. ScanWindowInLimit(traversed)
  BY <1>10, <1>13, <1>15, <1>16 DEF StandsAs, ScanWindowInLimit
<1> QED BY <1>7, <1>16, <1>17, EndBlockKeeps

LEMMA RequestedTyped ==
    ASSUME CallTypeOK
    PROVE  Requested \in Targets
BY ResolveTyped DEF Requested, CallTypeOK, Selector

LEMMA ScanKeeps ==
    ASSUME CallTypeOK, GraphOK, ScanOK, ScanNext
    PROVE  /\ GraphOK' /\ ScanOK' /\ UNCHANGED call
           /\ UNCHANGED graph \/ scan.open
<1>1. UNCHANGED call
  BY DEF ScanNext, ScanTakeBlock, ScanGiveUp, ScanStopBlock, ScanInstruction, AnswerReferences, AnswerUnproven,
         StartFunction, AnswerFunction
<1>2. ASSUME UNCHANGED graph PROVE GraphOK'
  BY <1>1, <1>2, GraphStays DEF GraphOK
<1>3. ASSUME UNCHANGED scan PROVE ScanOK'
  BY <1>1, <1>3, ScanStays DEF ScanOK
<1>4. CASE ScanTakeBlock
  BY <1>1, <1>2, <1>4, ScanTakeBlockKeeps, ScanStays DEF ScanTakeBlock, ScanRunning
<1>5. CASE ScanGiveUp
  BY <1>1, <1>2, <1>5, ScanGiveUpKeeps, ScanStays DEF ScanGiveUp, ScanRunning
<1>6. CASE ScanStopBlock
  BY <1>1, <1>2, <1>6, ScanStopBlockKeeps, ScanStays DEF ScanStopBlock, ScanRunning
<1>7. CASE ScanInstruction
  BY <1>1, <1>2, <1>7, ScanInstructionKeeps, ScanStays DEF ScanInstruction, ScanRunning
<1>8. CASE AnswerReferences
  BY <1>1, <1>2, <1>3, <1>8 DEF AnswerReferences, ScanIsDone, ScanRunning
<1>9. CASE AnswerUnproven
  BY <1>1, <1>2, <1>3, <1>9 DEF AnswerUnproven, ScanIsDone, ScanRunning
<1>10. CASE StartFunction
  <2>1. Requested.source \in Places /\ call.cfg \in [GraphLimits -> Positive]
    BY RequestedTyped DEF Targets, CallTypeOK
  <2>2. GraphInLimits(graph') /\ WindowInLimit(graph')
    BY <1>10, <2>1, EmptyGraphInLimits DEF StartFunction
  <2> QED BY <1>1, <1>3, <1>10, <2>2, GraphStays DEF StartFunction, ScanIsDone, ScanRunning
<1>11. CASE AnswerFunction
  BY <1>1, <1>2, <1>3, <1>11 DEF AnswerFunction
<1> QED BY <1>4, <1>5, <1>6, <1>7, <1>8, <1>9, <1>10, <1>11 DEF ScanNext

-----------------------------------------------------------------------------
(* The discovery *)

Work == [kind : {"function", "coverage"}, source : Places]
DiscoveryReasons == GraphReasons \cup {"component-limit", "function-limit", "call-site-limit"}
ProofType == [site : Places, target : Places, caller : Places]
CallEdgeType == [caller : Places, at : Int, rom : Int, callee : Places]
TraversedType == [from : Places, type : EdgeTypes, at : Int, mode : Modes]
DiscoveryType(cfg) ==
    [open : {TRUE}, queue : Seq(Work), work : {<<>>} \cup (Work \X SUBSET GraphReasons), functions : SUBSET Places,
     proofs : SUBSET ProofType, edges : SUBSET CallEdgeType, sites : SUBSET (Places \X Places), cfg : {cfg},
     blocks : SUBSET Places, instructions : SUBSET (Places \X Int), bytes : Nat, traversed : SUBSET TraversedType,
     scanned : SUBSET Everywhere, limited : SUBSET Everywhere, reasons : SUBSET DiscoveryReasons]

\* The functions and the call sites are within their limits.
FindsInLimits(d) ==
    /\ d \in DiscoveryType(d.cfg)
    /\ IsFiniteSet(d.functions) /\ Cardinality(d.functions) <= call.limits.functions
    /\ IsFiniteSet(d.sites) /\ Cardinality(d.sites) <= call.limits.callSites
\* The graphs so far have left something of every limit, if only nothing.
TotalsInLimits(d) ==
    /\ IsFiniteSet(d.blocks) /\ IsFiniteSet(d.instructions) /\ IsFiniteSet(d.traversed)
    /\ \A k \in GraphLimits : Remaining(d)[k] >= 0
\* d and e have analysed the same code.
TotalsAs(d, e) ==
    /\ d.blocks = e.blocks /\ d.instructions = e.instructions /\ d.bytes = e.bytes /\ d.traversed = e.traversed
    /\ d.cfg = e.cfg

LEMMA TotalsStay ==
    ASSUME NEW d, NEW e, TotalsAs(d, e)
    PROVE  (TotalsInLimits(e) => TotalsInLimits(d)) /\ Remaining(d) = Remaining(e)
BY DEF TotalsAs, TotalsInLimits, Remaining

LEMMA CutKeeps ==
    ASSUME NEW d, FindsInLimits(d), NEW R \in SUBSET DiscoveryReasons, NEW c \in Everywhere
    PROVE  FindsInLimits(LimitComponent(Because(d, R), c)) /\ TotalsAs(LimitComponent(Because(d, R), c), d)
<1> DEFINE e == Because(d, R)
           f == LimitComponent(e, c)
<1>1. d \in DiscoveryType(d.cfg)
  BY DEF FindsInLimits
<1>2. d.reasons \cup R \in SUBSET DiscoveryReasons /\ d.limited \cup {c} \in SUBSET Everywhere
  BY <1>1 DEF DiscoveryType
<1>3. e \in DiscoveryType(d.cfg) /\ e.limited = d.limited
  BY <1>1, <1>2 DEF DiscoveryType, Because
<1>4. /\ e.functions = d.functions /\ e.sites = d.sites /\ TotalsAs(e, d)
  BY <1>1 DEF DiscoveryType, Because, TotalsAs
<1> HIDE DEF e
<1>5. f \in DiscoveryType(d.cfg)
  BY <1>2, <1>3 DEF DiscoveryType, LimitComponent
<1>6. /\ f.functions = e.functions /\ f.sites = e.sites /\ TotalsAs(f, e)
  BY <1>3 DEF DiscoveryType, LimitComponent, TotalsAs
<1> HIDE DEF f
<1>7. f.cfg = d.cfg
  BY <1>4, <1>6 DEF TotalsAs
<1> QED BY <1>4, <1>5, <1>6, <1>7 DEF FindsInLimits, TotalsAs, e, f

LEMMA EnsureFunctionKeeps ==
    ASSUME CallTypeOK, NEW d, FindsInLimits(d), NEW s \in Places
    PROVE  FindsInLimits(EnsureFunction(d, s)) /\ TotalsAs(EnsureFunction(d, s), d)
<1> DEFINE w == [kind |-> "function", source |-> s]
           e == [d EXCEPT !.functions = @ \cup {s}, !.queue = Append(@, w)]
<1>1. d \in DiscoveryType(d.cfg) /\ s.component \in Everywhere
  BY DEF FindsInLimits, Places
<1>2. CASE s \in d.functions
  BY <1>2 DEF EnsureFunction, TotalsAs
<1>3. CASE s \notin d.functions /\ Cardinality(d.functions) >= call.limits.functions
  <2>1. EnsureFunction(d, s) = LimitComponent(Because(d, {"function-limit"}), s.component)
    BY <1>3 DEF EnsureFunction, Budget
  <2>2. {"function-limit"} \in SUBSET DiscoveryReasons
    BY DEF DiscoveryReasons
  <2> QED BY <1>1, <2>1, <2>2, CutKeeps
<1>4. CASE s \notin d.functions /\ ~(Cardinality(d.functions) >= call.limits.functions)
  <2>1. EnsureFunction(d, s) = e
    BY <1>4 DEF EnsureFunction, Budget
  <2>2. d.functions \cup {s} \in SUBSET Places /\ Append(d.queue, w) \in Seq(Work)
    <3>1. w \in Work
      BY DEF Work
    <3> HIDE DEF w
    <3> QED BY <1>1, <3>1 DEF DiscoveryType
  <2>3. call.limits.functions \in Nat /\ IsFiniteSet(d.functions) /\ Cardinality(d.functions) \in Nat
    BY CallLimitsTyped, FS_CardinalityType DEF CallLimits, FindsInLimits
  <2>4. IsFiniteSet(d.functions \cup {s}) /\ Cardinality(d.functions \cup {s}) <= call.limits.functions
    <3>1. Cardinality(d.functions) < call.limits.functions
      BY <1>4, <2>3
    <3> QED BY <2>3, <3>1, OneMore
  <2> HIDE DEF w
  <2>5. e \in DiscoveryType(d.cfg) /\ e.functions = d.functions \cup {s} /\ e.sites = d.sites /\ e.cfg = d.cfg
    BY <1>1, <2>2 DEF DiscoveryType
  <2>6. TotalsAs(e, d)
    BY <1>1 DEF TotalsAs, DiscoveryType
  <2> HIDE DEF e
  <2> QED BY <2>1, <2>4, <2>5, <2>6 DEF FindsInLimits
<1> QED BY <1>2, <1>3, <1>4

LEMMA AddProofKeeps ==
    ASSUME NEW d, FindsInLimits(d), NEW site \in Places, NEW s \in Places, NEW caller \in Places
    PROVE  FindsInLimits(AddProof(d, site, s, caller)) /\ TotalsAs(AddProof(d, site, s, caller), d)
<1> DEFINE same == {q \in d.proofs : q.site = site /\ q.target = s}
           more == (d.proofs \ same) \cup {[site |-> site, target |-> s, caller |-> caller]}
           e == [d EXCEPT !.proofs = more]
<1>1. d \in DiscoveryType(d.cfg)
  BY DEF FindsInLimits
<1>2. AddProof(d, site, s, caller) \in {d, e}
  BY DEF AddProof
<1>3. more \in SUBSET ProofType
  BY <1>1 DEF DiscoveryType, ProofType
<1> HIDE DEF more
<1>4. e \in DiscoveryType(d.cfg) /\ e.functions = d.functions /\ e.sites = d.sites /\ e.cfg = d.cfg
  BY <1>1, <1>3 DEF DiscoveryType
<1>5. TotalsAs(e, d) /\ TotalsAs(d, d)
  BY <1>1 DEF TotalsAs, DiscoveryType
<1> HIDE DEF e
<1>6. FindsInLimits(e)
  BY <1>4 DEF FindsInLimits
<1> QED BY <1>2, <1>5, <1>6

LEMMA CallEdgeTyped ==
    ASSUME CallTypeOK, NEW caller \in Places, NEW site \in Places, NEW s \in Places
    PROVE  CallEdge(caller, site, s) \in CallEdgeType
<1>1. site.at \in Int /\ site.component \in Everywhere
  BY DEF Places
<1>2. RomOffset(call.rom, call.p, site) \in Int
  <2>1. CASE site.component = Main
    <3>1. call.rom.exe[call.p] \in [start : Int, end : Int, ram : Int, ramEnd : Int]
      BY ProgramsAssumption DEF CallTypeOK
    <3> QED BY <1>1, <2>1, <3>1 DEF RomOffset
  <2>2. CASE site.component # Main
    <3> DEFINE o == FindOverlay(call.rom, call.p, site.component)
    <3>1. o \in OverlayRecord
      BY <1>1, <2>2, OverlaysTyped
    <3> HIDE DEF o
    <3>2. o.start \in Int /\ o.ram \in Int
      BY <3>1 DEF OverlayRecord
    <3>3. RomOffset(call.rom, call.p, site) = IF o.compressed THEN Nowhere ELSE o.start + site.at - o.ram
      BY <2>2 DEF RomOffset, o
    <3> QED BY <1>1, <3>2, <3>3 DEF Nowhere
  <2> QED BY <2>1, <2>2
<1> QED BY <1>1, <1>2 DEF CallEdge, CallEdgeType

LEMMA ProcessCallKeeps ==
    ASSUME CallTypeOK, NEW d, FindsInLimits(d), NEW site \in Places, NEW s \in Places, NEW caller \in Places
    PROVE  FindsInLimits(ProcessCall(d, site, s, caller)) /\ TotalsAs(ProcessCall(d, site, s, caller), d)
<1> DEFINE key == <<site, s>>
           kept == [d EXCEPT !.sites = @ \cup {key}]
           ensured == EnsureFunction(kept, s)
           proven == AddProof(ensured, site, s, caller)
           edge == CallEdge(caller, site, s)
           called == [proven EXCEPT !.edges = @ \cup {edge}]
<1>1. d \in DiscoveryType(d.cfg) /\ s.component \in Everywhere
  BY DEF FindsInLimits, Places
<1>2. CASE key \notin d.sites /\ Cardinality(d.sites) >= call.limits.callSites
  <2>1. ProcessCall(d, site, s, caller) = LimitComponent(Because(d, {"call-site-limit"}), s.component)
    BY <1>2 DEF ProcessCall, Budget
  <2>2. {"call-site-limit"} \in SUBSET DiscoveryReasons
    BY DEF DiscoveryReasons
  <2> QED BY <1>1, <2>1, <2>2, CutKeeps
<1>3. CASE ~(key \notin d.sites /\ Cardinality(d.sites) >= call.limits.callSites)
  <2>1. IsFiniteSet(d.sites \cup {key}) /\ Cardinality(d.sites \cup {key}) <= call.limits.callSites
    <3>1. call.limits.callSites \in Nat /\ IsFiniteSet(d.sites) /\ Cardinality(d.sites) \in Nat
          /\ Cardinality(d.sites) <= call.limits.callSites
      BY CallLimitsTyped, FS_CardinalityType DEF CallLimits, FindsInLimits
    <3>2. CASE key \in d.sites
      <4>1. d.sites \cup {key} = d.sites
        BY <3>2
      <4> QED BY <3>1, <4>1
    <3>3. CASE key \notin d.sites
      <4>1. Cardinality(d.sites) < call.limits.callSites
        BY <1>3, <3>1, <3>3
      <4> HIDE DEF key
      <4> QED BY <3>1, <4>1, OneMore
    <3> QED BY <3>2, <3>3
  <2>2. key \in Places \X Places
    OBVIOUS
  <2> HIDE DEF key
  <2>3. kept \in DiscoveryType(d.cfg) /\ kept.sites = d.sites \cup {key} /\ kept.functions = d.functions /\ kept.cfg = d.cfg
    <3>1. d.sites \cup {key} \in SUBSET (Places \X Places)
      BY <1>1, <2>2 DEF DiscoveryType
    <3> QED BY <1>1, <3>1 DEF DiscoveryType
  <2>4. TotalsAs(kept, d)
    BY <1>1 DEF TotalsAs, DiscoveryType
  <2> HIDE DEF kept
  <2>5. FindsInLimits(kept)
    BY <2>1, <2>3 DEF FindsInLimits
  <2>6. FindsInLimits(ensured) /\ TotalsAs(ensured, kept)
    BY <2>5, EnsureFunctionKeeps
  <2> HIDE DEF ensured
  <2>7. FindsInLimits(proven) /\ TotalsAs(proven, ensured)
    BY <2>6, AddProofKeeps
  <2> HIDE DEF proven
  <2>8. edge \in CallEdgeType /\ proven \in DiscoveryType(proven.cfg)
    BY <2>7, CallEdgeTyped DEF FindsInLimits
  <2> HIDE DEF edge
  <2>9. called \in DiscoveryType(proven.cfg) /\ called.functions = proven.functions /\ called.sites = proven.sites
        /\ called.cfg = proven.cfg /\ TotalsAs(called, proven)
    <3>1. proven.edges \cup {edge} \in SUBSET CallEdgeType
      BY <2>8 DEF DiscoveryType
    <3>2. called \in DiscoveryType(proven.cfg)
      BY <2>8, <3>1 DEF DiscoveryType
    <3> QED BY <2>8, <3>2 DEF DiscoveryType, TotalsAs
  <2>10. ProcessCall(d, site, s, caller) \in {proven, called}
    BY <1>3 DEF ProcessCall, Budget, proven, ensured, kept, key, edge
  <2> HIDE DEF called
  <2>11. FindsInLimits(called) /\ TotalsAs(called, d) /\ TotalsAs(proven, d)
    BY <2>4, <2>6, <2>7, <2>9 DEF FindsInLimits, TotalsAs
  <2> QED BY <2>7, <2>10, <2>11
<1> QED BY <1>2, <1>3

\* The calls of a graph are processed one after the other.
LEMMA ProcessCallsKeep ==
    ASSUME CallTypeOK, NEW d, FindsInLimits(d), NEW calls \in Seq(CallType), NEW caller \in Places
    PROVE  FindsInLimits(ProcessCalls(d, calls, caller)) /\ TotalsAs(ProcessCalls(d, calls, caller), d)
<1> DEFINE n == Len(calls)
           process(e, c) == IF c.target.status = "resolved" /\ c.target.source.component \in ComponentsInLimit
                            THEN ProcessCall(e, c.site, c.target.source, caller) ELSE e
           A == {e \in DiscoveryType(d.cfg) : FindsInLimits(e) /\ TotalsAs(e, d)}
           F == [x \in A \X (1..n) |-> process(x[1], calls[x[2]])]
           iter == CHOOSE it : it = [s \in SUBSET (1..n) |->
                       IF s = {} THEN d ELSE process(it[s \ {Max(s)}], calls[Max(s)])]
<1>1. n \in Nat /\ DOMAIN calls = 1..n /\ \A i \in 1..n : calls[i] \in CallType
  OBVIOUS
<1>2. ProcessCalls(d, calls, caller) = iter[1..n]
  <2>1. ProcessCalls(d, calls, caller) = (CHOOSE it : it = [s \in SUBSET DOMAIN calls |->
                       IF s = {} THEN d ELSE process(it[s \ {Max(s)}], calls[Max(s)])])[DOMAIN calls]
    BY DEF ProcessCalls, FoldLeft, MapThenFoldSet
  <2> QED BY <1>1, <2>1
<1>3. \A e \in A, c \in CallType : process(e, c) \in A
  <2> SUFFICES ASSUME NEW e \in A, NEW c \in CallType PROVE process(e, c) \in A
    OBVIOUS
  <2>1. c.site \in Places /\ c.target.source \in Places
    BY DEF CallType, Targets
  <2>2. LET r == ProcessCall(e, c.site, c.target.source, caller) IN FindsInLimits(r) /\ TotalsAs(r, e)
    BY <2>1, ProcessCallKeeps
  <2>3. ProcessCall(e, c.site, c.target.source, caller) \in A
    BY <2>2 DEF FindsInLimits, TotalsAs
  <2> QED BY <2>3
<1>4. d \in A
  BY DEF FindsInLimits, TotalsAs
<1> HIDE DEF n, A, process
<1>5. F \in [A \X (1..n) -> A]
  BY <1>1, <1>3
<1>6. PICK it \in [SUBSET (1..n) -> A] : Folds(it, 1..n, Latest(n), d, F)
  <2> HIDE DEF F
  <2> QED BY <1>1, <1>4, <1>5, LatestChooses, FoldExists
<1>7. ASSUME NEW s \in SUBSET (1..n), s # {}
      PROVE  F[<<it[s \ {Latest(n)[s]}], Latest(n)[s]>>] = process(it[s \ {Max(s)}], calls[Max(s)])
  <2>1. Latest(n)[s] = Max(s) /\ Max(s) \in 1..n /\ it[s \ {Max(s)}] \in A
    BY <1>1, <1>6, <1>7, LatestChooses
  <2> QED BY <2>1
<1>8. it = [s \in SUBSET (1..n) |-> IF s = {} THEN d ELSE process(it[s \ {Max(s)}], calls[Max(s)])]
  <2> HIDE DEF F
  <2> QED BY <1>6, <1>7 DEF Folds
<1>9. iter = [s \in SUBSET (1..n) |-> IF s = {} THEN d ELSE process(iter[s \ {Max(s)}], calls[Max(s)])]
  BY <1>8
<1> HIDE DEF iter
<1>10. \A s \in SUBSET (1..n) : s # {} /\ iter[s \ {Latest(n)[s]}] \in A => iter[s] \in A
  <2> SUFFICES ASSUME NEW s \in SUBSET (1..n), s # {}, iter[s \ {Latest(n)[s]}] \in A PROVE iter[s] \in A
    OBVIOUS
  <2>1. Latest(n)[s] = Max(s) /\ Max(s) \in 1..n
    BY <1>1, LatestChooses
  <2>2. iter[s] = process(iter[s \ {Max(s)}], calls[Max(s)])
    BY <1>9
  <2> QED BY <1>1, <1>3, <2>1, <2>2
<1>11. iter[1..n] \in A
  <2>1. iter[{}] \in A
    BY <1>4, <1>9
  <2>2. IsFiniteSet(1..n) /\ Chooses(Latest(n), 1..n)
    BY <1>1, LatestChooses
  <2> QED BY <1>10, <2>1, <2>2, FoldIsTyped
<1> QED BY <1>2, <1>11 DEF A

\* The seeds of a discovery are put in order one after the other.
LEMMA CoverageSeedsTyped ==
    ASSUME CallTypeOK
    PROVE  CoverageSeeds \in Seq(Places)
<1> DEFINE all == SeedSources(call.rom, call.p, call.seeds)
           n == Len(all)
           A == Seq(Places)
           put(done, s) == IF s.component \in ComponentsInLimit THEN PutInOrder(done, s, SeedBefore) ELSE done
           F == [x \in A \X (1..n) |-> put(x[1], all[x[2]])]
           iter == CHOOSE it : it = [s \in SUBSET (1..n) |->
                       IF s = {} THEN <<>> ELSE put(it[s \ {Max(s)}], all[Max(s)])]
<1>1. all \in Seq(Places)
  BY SeedSourcesTyped
<1> HIDE DEF all
<1>2. n \in Nat /\ DOMAIN all = 1..n /\ \A i \in 1..n : all[i] \in Places
  BY <1>1
<1>3. CoverageSeeds = iter[1..n]
  <2>1. CoverageSeeds = (CHOOSE it : it = [s \in SUBSET DOMAIN all |->
                       IF s = {} THEN <<>> ELSE put(it[s \ {Max(s)}], all[Max(s)])])[DOMAIN all]
    BY DEF CoverageSeeds, FoldLeft, MapThenFoldSet, all
  <2> QED BY <1>2, <2>1
<1>4. \A done \in A, s \in Places : put(done, s) \in A
  <2> SUFFICES ASSUME NEW done \in Seq(Places), NEW s \in Places PROVE PutInOrder(done, s, SeedBefore) \in Seq(Places)
    OBVIOUS
  <2> DEFINE T == {i \in 1..Len(done) : ~SeedBefore(s, done[i])}
  <2>1. 1 + Cardinality(T) \in 1..(Len(done) + 1)
    BY PlaceInRange
  <2>2. PutInOrder(done, s, SeedBefore) = InsertAt(done, 1 + Cardinality(T), s)
    BY DEF PutInOrder
  <2> HIDE DEF T
  <2> QED BY <2>1, <2>2, InsertTyped
<1>5. <<>> \in A
  OBVIOUS
<1> HIDE DEF n, A, put
<1>6. F \in [A \X (1..n) -> A]
  BY <1>2, <1>4
<1>7. PICK it \in [SUBSET (1..n) -> A] : Folds(it, 1..n, Latest(n), <<>>, F)
  <2> HIDE DEF F
  <2> QED BY <1>2, <1>5, <1>6, LatestChooses, FoldExists
<1>8. ASSUME NEW s \in SUBSET (1..n), s # {}
      PROVE  F[<<it[s \ {Latest(n)[s]}], Latest(n)[s]>>] = put(it[s \ {Max(s)}], all[Max(s)])
  <2>1. Latest(n)[s] = Max(s) /\ Max(s) \in 1..n /\ it[s \ {Max(s)}] \in A
    BY <1>2, <1>7, <1>8, LatestChooses
  <2> QED BY <2>1
<1>9. it = [s \in SUBSET (1..n) |-> IF s = {} THEN <<>> ELSE put(it[s \ {Max(s)}], all[Max(s)])]
  <2> HIDE DEF F
  <2> QED BY <1>7, <1>8 DEF Folds
<1>10. iter = [s \in SUBSET (1..n) |-> IF s = {} THEN <<>> ELSE put(iter[s \ {Max(s)}], all[Max(s)])]
  BY <1>9
<1> HIDE DEF iter
<1>11. \A s \in SUBSET (1..n) : s # {} /\ iter[s \ {Latest(n)[s]}] \in A => iter[s] \in A
  <2> SUFFICES ASSUME NEW s \in SUBSET (1..n), s # {}, iter[s \ {Latest(n)[s]}] \in A PROVE iter[s] \in A
    OBVIOUS
  <2>1. Latest(n)[s] = Max(s) /\ Max(s) \in 1..n
    BY <1>2, LatestChooses
  <2>2. iter[s] = put(iter[s \ {Max(s)}], all[Max(s)])
    BY <1>10
  <2> QED BY <1>2, <1>4, <2>1, <2>2
<1>12. iter[1..n] \in A
  <2>1. iter[{}] \in A
    BY <1>5, <1>10
  <2>2. IsFiniteSet(1..n) /\ Chooses(Latest(n), 1..n)
    BY <1>2, LatestChooses
  <2> QED BY <1>11, <2>1, <2>2, FoldIsTyped
<1> QED BY <1>3, <1>12 DEF A

LEMMA DiscoveryStartInLimits ==
    ASSUME CallTypeOK
    PROVE  FindsInLimits(DiscoveryStart) /\ TotalsInLimits(DiscoveryStart)
<1> DEFINE entry == ProgramEntry(call.rom, call.p).source
           entered == IF Main \in ComponentsInLimit THEN EnsureFunction(EmptyDiscovery, entry) ELSE EmptyDiscovery
           seeds == [i \in 1..Len(CoverageSeeds) |-> [kind |-> "coverage", source |-> CoverageSeeds[i]]]
<1>1. EmptyDiscovery \in DiscoveryType(EmptyDiscovery.cfg)
  BY DEF EmptyDiscovery, DiscoveryType, DiscoveryReasons
<1>2. IsFiniteSet({}) /\ Cardinality({}) = 0
  BY FS_EmptySet
<1>3. \A k \in {"functions", "callSites", "blocks", "instructions", "bytes", "edges"} :
          call.limits[k] \in Nat /\ call.limits[k] >= 0
  BY CallLimitsTyped DEF CallLimits, GraphLimits
<1>4. /\ EmptyDiscovery.functions = {} /\ EmptyDiscovery.sites = {} /\ EmptyDiscovery.blocks = {}
      /\ EmptyDiscovery.instructions = {} /\ EmptyDiscovery.bytes = 0 /\ EmptyDiscovery.traversed = {}
  BY DEF EmptyDiscovery
<1>5. FindsInLimits(EmptyDiscovery)
  BY <1>1, <1>2, <1>3, <1>4 DEF FindsInLimits
<1>6. TotalsInLimits(EmptyDiscovery)
  BY <1>2, <1>3, <1>4 DEF TotalsInLimits, Remaining, GraphLimits, Budget
<1>7. entry \in Places
  <2>1. call.rom.entry[call.p] \in Int /\ "arm" \in Modes
    BY ProgramsAssumption DEF CallTypeOK, Modes
  <2> QED BY <2>1, ResolveTyped DEF ProgramEntry, Targets
<1> HIDE DEF entry
<1>8. FindsInLimits(entered) /\ TotalsAs(entered, EmptyDiscovery)
  BY <1>5, <1>7, EnsureFunctionKeeps DEF TotalsAs
<1>9. seeds \in Seq(Work)
  <2>1. CoverageSeeds \in Seq(Places)
    BY CoverageSeedsTyped
  <2>2. \A i \in 1..Len(CoverageSeeds) : [kind |-> "coverage", source |-> CoverageSeeds[i]] \in Work
    BY <2>1 DEF Work
  <2> HIDE DEF Work
  <2> QED BY <2>1, <2>2
<1>10. DiscoveryStart = [entered EXCEPT !.queue = @ \o seeds]
  BY DEF DiscoveryStart, entry
<1> HIDE DEF entered, seeds
<1>11. entered \in DiscoveryType(entered.cfg)
  BY <1>8 DEF FindsInLimits
<1>12. entered.queue \o seeds \in Seq(Work)
  <2>1. entered.queue \in Seq(Work)
    BY <1>11 DEF DiscoveryType
  <2> QED BY <1>9, <2>1
<1>13. /\ DiscoveryStart \in DiscoveryType(entered.cfg) /\ DiscoveryStart.functions = entered.functions
       /\ DiscoveryStart.sites = entered.sites /\ DiscoveryStart.cfg = entered.cfg /\ TotalsAs(DiscoveryStart, entered)
  BY <1>10, <1>11, <1>12 DEF DiscoveryType, TotalsAs
<1>14. FindsInLimits(DiscoveryStart)
  BY <1>8, <1>13 DEF FindsInLimits
<1> QED BY <1>6, <1>8, <1>13, <1>14, TotalsStay

DiscoveryOK == disc = NoDiscovery \/ (FindsInLimits(disc) /\ TotalsInLimits(disc))
\* A graph of a discovery may use no more than what is left.
GraphIsCovered ==
    disc.open /\ graph.open =>
        disc.work # <<>> /\ \A k \in GraphLimits : graph.limits[k] <= Remaining(disc)[k]

LEMMA DiscoveryStays ==
    ASSUME UNCHANGED call, disc' = NoDiscovery \/ (FindsInLimits(disc') /\ TotalsInLimits(disc'))
    PROVE  DiscoveryOK'
<1>1. Places' = Places /\ Everywhere' = Everywhere
  BY DEF Places, Everywhere
<1>2. Work' = Work /\ ProofType' = ProofType /\ CallEdgeType' = CallEdgeType /\ TraversedType' = TraversedType
  BY <1>1 DEF Work, ProofType, CallEdgeType, TraversedType
<1>3. DiscoveryType(disc.cfg)' = DiscoveryType(disc'.cfg)
  BY <1>1, <1>2 DEF DiscoveryType
<1> QED BY <1>3 DEF DiscoveryOK, FindsInLimits, TotalsInLimits, Remaining, Budget, NoDiscovery

LEMMA DiscoveryIsTyped ==
    ASSUME DiscoveryOK, disc.open
    PROVE  FindsInLimits(disc) /\ TotalsInLimits(disc) /\ disc \in DiscoveryType(disc.cfg)
BY DEF DiscoveryOK, FindsInLimits, NoDiscovery

LEMMA RemainingTyped ==
    ASSUME CallTypeOK, NEW d, FindsInLimits(d), TotalsInLimits(d)
    PROVE  /\ Cardinality(d.blocks) \in Nat /\ Cardinality(d.instructions) \in Nat
           /\ Cardinality(d.traversed) \in Nat /\ d.bytes \in Nat
           /\ \A k \in GraphLimits : Remaining(d)[k] \in Int /\ call.limits[k] \in Nat
<1>1. /\ Cardinality(d.blocks) \in Nat /\ Cardinality(d.instructions) \in Nat
      /\ Cardinality(d.traversed) \in Nat
  BY FS_CardinalityType DEF TotalsInLimits
<1>2. d.bytes \in Nat
  BY DEF FindsInLimits, DiscoveryType
<1>3. \A k \in GraphLimits : call.limits[k] \in Nat
  BY CallLimitsTyped DEF CallLimits
<1>4. \A k \in GraphLimits : Remaining(d)[k] \in Int
  BY <1>1, <1>2, <1>3 DEF Remaining, GraphLimits, Budget
<1> QED BY <1>1, <1>2, <1>3, <1>4

LEMMA NextWorkTyped ==
    ASSUME FindsInLimits(disc), disc.queue # <<>>
    PROVE  NextWork \in Work /\ Tail(disc.queue) \in Seq(Work) /\ NextWork.source \in Places
<1>1. disc.queue \in Seq(Work)
  BY DEF FindsInLimits, DiscoveryType
<1>2. NextWork \in Work /\ Tail(disc.queue) \in Seq(Work)
  BY <1>1 DEF NextWork
<1> QED BY <1>2 DEF Work

LEMMA CfgOfKeeps ==
    ASSUME NEW d, FindsInLimits(d), NEW w, NEW R
    PROVE  FindsInLimits(CfgOf(d, w, R)) /\ (TotalsInLimits(d) => TotalsInLimits(CfgOf(d, w, R)))
<1> DEFINE c == (w.source :> R) @@ d.cfg
           e == [d EXCEPT !.cfg = c]
<1>1. d \in DiscoveryType(d.cfg)
  BY DEF FindsInLimits
<1>2. CfgOf(d, w, R) \in {d, e}
  BY DEF CfgOf
<1> HIDE DEF c
<1>3. /\ e \in DiscoveryType(e.cfg) /\ e.functions = d.functions /\ e.sites = d.sites /\ e.blocks = d.blocks
      /\ e.instructions = d.instructions /\ e.bytes = d.bytes /\ e.traversed = d.traversed
  BY <1>1 DEF DiscoveryType
<1> HIDE DEF e
<1>4. FindsInLimits(e) /\ (TotalsInLimits(d) => TotalsInLimits(e))
  BY <1>3 DEF FindsInLimits, TotalsInLimits, Remaining
<1> QED BY <1>2, <1>4

\* The limits of the next graph are positive, and covered by what is left.
LEMMA CfgLimitsAreCovered ==
    ASSUME CallTypeOK, FindsInLimits(disc), TotalsInLimits(disc), Exhausted(disc) = {}
    PROVE  /\ CfgLimits(disc) \in [GraphLimits -> Positive]
           /\ \A k \in GraphLimits : CfgLimits(disc)[k] <= Remaining(disc)[k]
<1> DEFINE R == Remaining(disc)
<1>1. DOMAIN call.cfg = GraphLimits /\ \A k \in GraphLimits : call.cfg[k] \in Nat /\ call.cfg[k] > 0
  BY DEF CallTypeOK, Positive
<1>2. DOMAIN ReasonOf = GraphLimits
  BY DEF ReasonOf, GraphLimits
<1>3. \A k \in GraphLimits : R[k] \in Int
  BY RemainingTyped
<1>4. \A k \in GraphLimits : R[k] > 0
  <2> HIDE DEF R
  <2>1. \A k \in GraphLimits : ~(R[k] <= 0)
    BY <1>2 DEF Exhausted, R
  <2> QED BY <1>3, <2>1
<1>5. \A x, y \in Int : Min({x, y}) \in {x, y} /\ Min({x, y}) <= y
  BY DEF Min
<1>6. CfgLimits(disc) = [k \in GraphLimits |-> Min({call.cfg[k], R[k]})]
  BY <1>1 DEF CfgLimits
<1> HIDE DEF R
<1>7. \A k \in GraphLimits : Min({call.cfg[k], R[k]}) \in Positive /\ Min({call.cfg[k], R[k]}) <= R[k]
  <2> SUFFICES ASSUME NEW k \in GraphLimits
               PROVE  Min({call.cfg[k], R[k]}) \in Positive /\ Min({call.cfg[k], R[k]}) <= R[k]
    OBVIOUS
  <2> DEFINE x == call.cfg[k]
             y == R[k]
  <2>1. x \in Int /\ x > 0 /\ y \in Int /\ y > 0
    BY <1>1, <1>3, <1>4
  <2> HIDE DEF x, y
  <2>2. Min({x, y}) \in Positive /\ Min({x, y}) <= y
    BY <1>5, <2>1 DEF Positive
  <2> QED BY <2>2 DEF x, y
<1> QED BY <1>6, <1>7 DEF R

LEMMA StartGraphKeeps ==
    ASSUME CallTypeOK, DiscoveryOK, StartGraph
    PROVE  GraphOK' /\ DiscoveryOK' /\ GraphIsCovered' /\ UNCHANGED call
<1>1. FindsInLimits(disc) /\ TotalsInLimits(disc) /\ disc \in DiscoveryType(disc.cfg) /\ UNCHANGED call
  BY DiscoveryIsTyped DEF StartGraph, CanStart, DiscoveryRunning
<1>2. NextWork \in Work /\ Tail(disc.queue) \in Seq(Work) /\ NextWork.source \in Places
  BY <1>1, NextWorkTyped DEF StartGraph, CanStart
<1>3. Tightened(disc) \in SUBSET GraphReasons
  BY DEF Tightened, ReasonOf, GraphReasons
<1> DEFINE work == <<NextWork, Tightened(disc)>>
<1>4. work \in {<<>>} \cup (Work \X SUBSET GraphReasons) /\ work # <<>>
  BY <1>2, <1>3
<1>5. disc' = [disc EXCEPT !.queue = Tail(@), !.work = work]
  BY DEF StartGraph
<1> HIDE DEF work
<1>6. disc' \in DiscoveryType(disc.cfg)
  BY <1>1, <1>2, <1>4, <1>5 DEF DiscoveryType
<1>7. /\ disc'.functions = disc.functions /\ disc'.sites = disc.sites /\ disc'.cfg = disc.cfg /\ disc'.work = work
      /\ TotalsAs(disc', disc)
  BY <1>1, <1>5 DEF DiscoveryType, TotalsAs
<1>8. FindsInLimits(disc') /\ TotalsInLimits(disc') /\ Remaining(disc') = Remaining(disc)
  BY <1>1, <1>6, <1>7, TotalsStay DEF FindsInLimits
<1>9. EntryAgain.source \in Places
  <2>1. NextWork.source.at \in Int /\ NextWork.source.mode \in Modes
    BY <1>2 DEF Places
  <2> QED BY <2>1, ResolveTyped DEF EntryAgain, ResolveAgain, Targets
<1>10. CfgLimits(disc) \in [GraphLimits -> Positive] /\ \A k \in GraphLimits : CfgLimits(disc)[k] <= Remaining(disc)[k]
  BY <1>1, CfgLimitsAreCovered DEF StartGraph, CanStart
<1>11. graph' = EmptyGraph(EntryAgain.source, CfgLimits(disc))
  BY DEF StartGraph
<1>12. GraphInLimits(graph') /\ WindowInLimit(graph')
  BY <1>9, <1>10, <1>11, EmptyGraphInLimits
<1>13. graph'.limits = CfgLimits(disc)
  BY <1>11 DEF EmptyGraph
<1>14. Remaining(disc)' = Remaining(disc')
  BY <1>1 DEF Remaining, Budget
<1>15. GraphIsCovered'
  BY <1>4, <1>7, <1>8, <1>10, <1>13, <1>14 DEF GraphIsCovered
<1> QED BY <1>1, <1>8, <1>12, <1>15, GraphStays, DiscoveryStays

LEMMA LeaveWorkKeeps ==
    ASSUME CallTypeOK, DiscoveryOK, LeaveWork
    PROVE  DiscoveryOK' /\ GraphIsCovered' /\ UNCHANGED <<call, graph>>
<1>1. FindsInLimits(disc) /\ TotalsInLimits(disc) /\ disc \in DiscoveryType(disc.cfg) /\ UNCHANGED <<call, graph>>
  BY DiscoveryIsTyped DEF LeaveWork, DiscoveryRunning
<1>2. NextWork \in Work /\ Tail(disc.queue) \in Seq(Work) /\ NextWork.source \in Places
  BY <1>1, NextWorkTyped DEF LeaveWork
<1> DEFINE gone == {ReasonOf[k] : k \in Exhausted(disc)}
           reasons == disc.reasons \cup gone
           cut == reasons \cap {ReasonOf[k] : k \in DOMAIN ReasonOf}
           c == NextWork.source.component
           rest == Tail(disc.queue)
           left == [disc EXCEPT !.queue = rest, !.reasons = reasons]
           limited == LimitComponent(left, c)
<1>3. disc' = CfgOf(limited, NextWork, cut)
  BY DEF LeaveWork
<1>4. gone \in SUBSET DiscoveryReasons
  BY DEF Exhausted, ReasonOf, DiscoveryReasons, GraphReasons
<1> HIDE DEF gone
<1>5. reasons \in SUBSET DiscoveryReasons /\ c \in Everywhere /\ rest \in Seq(Work)
  BY <1>1, <1>2, <1>4 DEF DiscoveryType, Places
<1> HIDE DEF reasons, cut, c, rest
<1>6. left \in DiscoveryType(disc.cfg)
  BY <1>1, <1>5 DEF DiscoveryType
<1>7. left.functions = disc.functions /\ left.sites = disc.sites /\ TotalsAs(left, disc) /\ left.limited = disc.limited
  BY <1>1 DEF DiscoveryType, TotalsAs
<1> HIDE DEF left
<1>8. limited \in DiscoveryType(disc.cfg)
  <2>1. left.limited \cup {c} \in SUBSET Everywhere
    BY <1>5, <1>6 DEF DiscoveryType
  <2> QED BY <1>6, <2>1 DEF DiscoveryType, LimitComponent
<1>9. limited.functions = left.functions /\ limited.sites = left.sites /\ TotalsAs(limited, left)
  BY <1>6 DEF DiscoveryType, TotalsAs, LimitComponent
<1> HIDE DEF limited
<1>10. TotalsAs(limited, disc) /\ limited.cfg = disc.cfg
  BY <1>7, <1>9 DEF TotalsAs
<1>11. FindsInLimits(limited) /\ TotalsInLimits(limited)
  BY <1>1, <1>7, <1>8, <1>9, <1>10, TotalsStay DEF FindsInLimits
<1>12. FindsInLimits(disc') /\ TotalsInLimits(disc')
  BY <1>3, <1>11, CfgOfKeeps
<1>13. ~graph'.open
  BY <1>1 DEF LeaveWork
<1> QED BY <1>1, <1>12, <1>13, DiscoveryStays DEF GraphIsCovered

LEMMA SkipSeedKeeps ==
    ASSUME CallTypeOK, DiscoveryOK, SkipSeed
    PROVE  DiscoveryOK' /\ GraphIsCovered' /\ UNCHANGED <<call, graph>>
<1>1. FindsInLimits(disc) /\ TotalsInLimits(disc) /\ disc \in DiscoveryType(disc.cfg) /\ UNCHANGED <<call, graph>>
  BY DiscoveryIsTyped DEF SkipSeed, DiscoveryRunning
<1>2. Tail(disc.queue) \in Seq(Work)
  BY <1>1, NextWorkTyped DEF SkipSeed
<1>3. disc' = [disc EXCEPT !.queue = Tail(@)]
  BY DEF SkipSeed
<1>4. disc' \in DiscoveryType(disc.cfg)
  BY <1>1, <1>2, <1>3 DEF DiscoveryType
<1>5. disc'.functions = disc.functions /\ disc'.sites = disc.sites /\ disc'.cfg = disc.cfg /\ TotalsAs(disc', disc)
  BY <1>1, <1>3 DEF DiscoveryType, TotalsAs
<1>6. FindsInLimits(disc') /\ TotalsInLimits(disc')
  BY <1>1, <1>4, <1>5, TotalsStay DEF FindsInLimits
<1>7. ~graph'.open
  BY <1>1 DEF SkipSeed
<1> QED BY <1>1, <1>6, <1>7, DiscoveryStays DEF GraphIsCovered

\* Two finite sets together have no more elements than both.
LEMMA Together ==
    ASSUME NEW S, IsFiniteSet(S), NEW T, IsFiniteSet(T), NEW n \in Nat, Cardinality(S) + Cardinality(T) <= n
    PROVE  IsFiniteSet(S \cup T) /\ Cardinality(S \cup T) <= n
<1>1. /\ IsFiniteSet(S \cup T)
      /\ Cardinality(S \cup T) = Cardinality(S) + Cardinality(T) - Cardinality(S \cap T)
  BY FS_Union
<1>2. IsFiniteSet(S \cap T)
  BY FS_Subset
<1>3. Cardinality(S) \in Nat /\ Cardinality(T) \in Nat /\ Cardinality(S \cap T) \in Nat
  BY <1>2, FS_CardinalityType
<1> QED BY <1>1, <1>3

\* The edges of a graph, told apart by where they come from and go to.
LEMMA TraversedFew ==
    ASSUME NEW E \in SUBSET EdgeType, IsFiniteSet(E)
    PROVE  LET T == {[from |-> e.from, type |-> e.type, at |-> e.at, mode |-> e.mode] : e \in E}
           IN  T \in SUBSET TraversedType /\ IsFiniteSet(T) /\ Cardinality(T) <= Cardinality(E)
<1> DEFINE part(e) == [from |-> e.from, type |-> e.type, at |-> e.at, mode |-> e.mode]
           T == {part(e) : e \in E}
           f == [e \in E |-> part(e)]
<1>1. T \in SUBSET TraversedType
  BY DEF EdgeType, TraversedType
<1>2. f \in Surjection(E, T)
  <2> HIDE DEF part
  <2> QED BY DEF Surjection
<1>3. IsFiniteSet(T) /\ Cardinality(T) <= Cardinality(E)
  <2> HIDE DEF T, f
  <2> QED BY <1>2, FS_Surjection
<1> QED BY <1>1, <1>3

LEMMA FreshBytes ==
    ASSUME CallTypeOK, NEW g, GraphInLimits(g), NEW S
    PROVE  LET fresh == g.instructions \ S
           IN  MapThenSumSet(SizeAt, fresh) \in Nat /\ MapThenSumSet(SizeAt, fresh) <= g.limits.bytes
<1> DEFINE fresh == g.instructions \ S
<1>1. g \in GraphType /\ IsFiniteSet(fresh) /\ \A x \in fresh : SizeAt(x) \in Nat
  BY FS_Subset DEF GraphInLimits
<1>2. MapThenSumSet(SizeAt, fresh) = Cardinality(Bytes(fresh)) /\ IsFiniteSet(Bytes(fresh))
  BY <1>1, SumIsBytes
<1>3. Bytes(fresh) \in SUBSET Bytes(g.instructions)
  BY DEF Bytes
<1>4. IsFiniteSet(Bytes(g.instructions)) /\ Cardinality(Bytes(g.instructions)) <= g.bytes /\ g.bytes <= g.limits.bytes
  BY DEF GraphInLimits
<1> HIDE DEF fresh
<1>5. Cardinality(Bytes(fresh)) <= Cardinality(Bytes(g.instructions))
  BY <1>3, <1>4, FS_Subset
<1>6. /\ Cardinality(Bytes(fresh)) \in Nat /\ Cardinality(Bytes(g.instructions)) \in Nat
      /\ g.bytes \in Nat /\ g.limits.bytes \in Nat
  BY <1>1, <1>2, <1>4, FS_CardinalityType, LimitsArePositive DEF GraphType
<1>7. Cardinality(Bytes(fresh)) <= g.limits.bytes
  BY <1>4, <1>5, <1>6
<1> QED BY <1>2, <1>6, <1>7 DEF fresh

LEMMA CollectGraphKeeps ==
    ASSUME CallTypeOK, NEW d, FindsInLimits(d), TotalsInLimits(d), NEW g, GraphInLimits(g), NEW R,
           \A k \in GraphLimits : g.limits[k] <= Remaining(d)[k]
    PROVE  FindsInLimits(CollectGraph(d, g, R)) /\ TotalsInLimits(CollectGraph(d, g, R))
<1> DEFINE fresh == g.instructions \ d.instructions
           bytes == d.bytes + MapThenSumSet(SizeAt, fresh)
           edges == {[from |-> e.from, type |-> e.type, at |-> e.at, mode |-> e.mode] : e \in g.edges}
           blocks == d.blocks \cup g.blocks
           instructions == d.instructions \cup g.instructions
           traversed == d.traversed \cup edges
           scanned == d.scanned \cup {b.component : b \in g.blocks}
           reasons == d.reasons \cup (g.reasons \cap R)
           limited == d.limited \cup IF g.reasons = {} THEN {} ELSE {b.component : b \in g.blocks \cup {g.entry}}
           e == CollectGraph(d, g, R)
<1>1. d \in DiscoveryType(d.cfg) /\ g \in GraphType
  BY DEF FindsInLimits, GraphInLimits
<1>2. e = [d EXCEPT !.blocks = blocks, !.instructions = instructions, !.bytes = bytes, !.traversed = traversed,
                    !.scanned = scanned, !.reasons = reasons, !.limited = limited]
  BY DEF CollectGraph
<1>3. MapThenSumSet(SizeAt, fresh) \in Nat /\ MapThenSumSet(SizeAt, fresh) <= g.limits.bytes
  BY FreshBytes
<1> HIDE DEF fresh
<1>4. edges \in SUBSET TraversedType /\ IsFiniteSet(edges) /\ Cardinality(edges) <= Cardinality(g.edges)
  BY <1>1, TraversedFew DEF GraphInLimits, GraphType
<1> HIDE DEF edges, e
<1>5. /\ g.limits.blocks <= Remaining(d).blocks /\ g.limits.instructions <= Remaining(d).instructions
      /\ g.limits.bytes <= Remaining(d).bytes /\ g.limits.edges <= Remaining(d).edges
  BY DEF GraphLimits
<1>6. /\ Cardinality(d.blocks) \in Nat /\ Cardinality(d.instructions) \in Nat
      /\ Cardinality(d.traversed) \in Nat /\ d.bytes \in Nat
      /\ call.limits.blocks \in Nat /\ call.limits.instructions \in Nat /\ call.limits.bytes \in Nat
      /\ call.limits.edges \in Nat
      /\ IsFiniteSet(d.blocks) /\ IsFiniteSet(d.instructions) /\ IsFiniteSet(d.traversed)
  BY RemainingTyped DEF GraphLimits, TotalsInLimits
<1>7. /\ IsFiniteSet(g.blocks) /\ IsFiniteSet(g.instructions) /\ IsFiniteSet(g.edges)
      /\ Cardinality(g.blocks) \in Nat /\ Cardinality(g.instructions) \in Nat /\ Cardinality(g.edges) \in Nat
      /\ Cardinality(edges) \in Nat /\ Cardinality(g.blocks) <= Cardinality(g.scheduled)
      /\ Cardinality(g.scheduled) \in Nat
  BY <1>4, FS_Subset, FS_CardinalityType DEF GraphInLimits
<1>8. /\ g.limits.blocks \in Nat /\ g.limits.instructions \in Nat /\ g.limits.bytes \in Nat /\ g.limits.edges \in Nat
      /\ Cardinality(g.scheduled) <= g.limits.blocks /\ Cardinality(g.instructions) <= g.limits.instructions
      /\ Cardinality(g.edges) <= g.limits.edges
  BY <1>1, LimitsArePositive DEF GraphInLimits
<1>9. IsFiniteSet(blocks) /\ Cardinality(blocks) <= call.limits.blocks
  <2>1. Cardinality(d.blocks) + Cardinality(g.blocks) <= call.limits.blocks
    <3>1. g.limits.blocks <= call.limits.blocks - Cardinality(d.blocks)
      BY <1>5 DEF Remaining, Budget
    <3> QED BY <1>6, <1>7, <1>8, <3>1
  <2> QED BY <1>6, <1>7, <2>1, Together
<1>10. IsFiniteSet(instructions) /\ Cardinality(instructions) <= call.limits.instructions
  <2>1. Cardinality(d.instructions) + Cardinality(g.instructions) <= call.limits.instructions
    <3>1. g.limits.instructions <= call.limits.instructions - Cardinality(d.instructions)
      BY <1>5 DEF Remaining, Budget
    <3> QED BY <1>6, <1>7, <1>8, <3>1
  <2> QED BY <1>6, <1>7, <2>1, Together
<1>11. IsFiniteSet(traversed) /\ Cardinality(traversed) <= call.limits.edges
  <2>1. Cardinality(d.traversed) + Cardinality(edges) <= call.limits.edges
    <3>1. g.limits.edges <= call.limits.edges - Cardinality(d.traversed)
      BY <1>5 DEF Remaining, Budget
    <3> QED BY <1>4, <1>6, <1>7, <1>8, <3>1
  <2> QED BY <1>4, <1>6, <1>7, <2>1, Together
<1>12. bytes \in Nat /\ bytes <= call.limits.bytes
  <2>1. g.limits.bytes <= call.limits.bytes - d.bytes
    BY <1>5 DEF Remaining, Budget
  <2> QED BY <1>3, <1>6, <1>8, <2>1
<1>13. /\ blocks \in SUBSET Places /\ instructions \in SUBSET (Places \X Int) /\ traversed \in SUBSET TraversedType
  BY <1>1, <1>4 DEF DiscoveryType, GraphType
<1>14. reasons \in SUBSET DiscoveryReasons
  BY <1>1 DEF DiscoveryType, GraphType, DiscoveryReasons
<1>15. scanned \in SUBSET Everywhere /\ limited \in SUBSET Everywhere
  <2>1. \A b \in g.blocks \cup {g.entry} : b.component \in Everywhere
    BY <1>1 DEF GraphType, Places
  <2>2. d.scanned \in SUBSET Everywhere /\ d.limited \in SUBSET Everywhere
    BY <1>1 DEF DiscoveryType
  <2> QED BY <2>1, <2>2
<1> HIDE DEF blocks, instructions, bytes, traversed, scanned, reasons, limited
<1>16. e \in DiscoveryType(d.cfg)
  BY <1>1, <1>2, <1>12, <1>13, <1>14, <1>15 DEF DiscoveryType
<1>17. /\ e.functions = d.functions /\ e.sites = d.sites /\ e.cfg = d.cfg /\ e.blocks = blocks
       /\ e.instructions = instructions /\ e.bytes = bytes /\ e.traversed = traversed
  BY <1>1, <1>2 DEF DiscoveryType
<1>18. FindsInLimits(e)
  BY <1>16, <1>17 DEF FindsInLimits
<1>19. TotalsInLimits(e)
  <2>1. /\ Cardinality(blocks) \in Nat /\ Cardinality(instructions) \in Nat /\ Cardinality(traversed) \in Nat
    BY <1>9, <1>10, <1>11, FS_CardinalityType
  <2>2. /\ call.limits.blocks - Cardinality(e.blocks) >= 0 /\ call.limits.instructions - Cardinality(e.instructions) >= 0
        /\ call.limits.bytes - e.bytes >= 0 /\ call.limits.edges - Cardinality(e.traversed) >= 0
    BY <1>6, <1>9, <1>10, <1>11, <1>12, <1>17, <2>1
  <2>3. \A k \in GraphLimits : Remaining(e)[k] >= 0
    BY <2>2 DEF Remaining, Budget, GraphLimits
  <2> QED BY <1>9, <1>10, <1>11, <1>17, <2>3 DEF TotalsInLimits
<1> QED BY <1>18, <1>19 DEF e

LEMMA UseGraphKeeps ==
    ASSUME CallTypeOK, GraphOK, DiscoveryOK, GraphIsCovered, UseGraph
    PROVE  GraphOK' /\ DiscoveryOK' /\ GraphIsCovered' /\ UNCHANGED call
<1> DEFINE w == disc.work[1]
           more == CollectGraph(disc, graph, disc.work[2])
           collected == CfgOf(more, w, graph.reasons)
           caller == IF w.kind = "function" THEN w.source ELSE NoCaller
<1>1. /\ FindsInLimits(disc) /\ TotalsInLimits(disc) /\ disc \in DiscoveryType(disc.cfg) /\ UNCHANGED call
      /\ graph.open /\ disc.open
  BY DiscoveryIsTyped DEF UseGraph, DiscoveryRunning, GraphIsDone
<1>2. GraphInLimits(graph) /\ graph.calls \in Seq(CallType)
  <2>1. GraphInLimits(graph)
    BY <1>1 DEF GraphOK, Idle
  <2> QED BY <2>1 DEF GraphInLimits, GraphType
<1>3. disc' = ProcessCalls(collected, graph.calls, caller) /\ graph' = Idle
  BY DEF UseGraph
<1>4. caller \in Places
  <2>1. disc.work \in Work \X SUBSET GraphReasons
    BY <1>1 DEF DiscoveryType, GraphIsCovered
  <2>2. w \in Work
    BY <2>1
  <2>3. w.source \in Places
    BY <2>2 DEF Work
  <2> HIDE DEF w
  <2> QED BY <2>3, NoSourceIsPlace DEF NoCaller
<1> HIDE DEF caller
<1>5. FindsInLimits(more) /\ TotalsInLimits(more)
  BY <1>1, <1>2, CollectGraphKeeps DEF GraphIsCovered
<1> HIDE DEF more
<1>6. FindsInLimits(collected) /\ TotalsInLimits(collected)
  BY <1>5, CfgOfKeeps
<1> HIDE DEF collected
<1>7. FindsInLimits(disc') /\ TotalsInLimits(disc')
  BY <1>2, <1>3, <1>4, <1>6, ProcessCallsKeep, TotalsStay
<1>8. ~graph'.open
  BY <1>3 DEF Idle
<1> QED BY <1>1, <1>3, <1>7, <1>8, GraphStays, DiscoveryStays DEF GraphIsCovered

-----------------------------------------------------------------------------
(* The limits hold *)

LEMMA DiscoveryKeeps ==
    ASSUME CallTypeOK, GraphOK, DiscoveryOK, GraphIsCovered, DiscoveryNext
    PROVE  GraphOK' /\ DiscoveryOK' /\ GraphIsCovered' /\ UNCHANGED call /\ disc.open
<1>1. disc.open
  BY DEF DiscoveryNext, StartGraph, FailGraph, LeaveWork, SkipSeed, UseGraph, AnswerFunctions, CanStart, DiscoveryRunning
<1>2. CASE UNCHANGED <<call, graph, disc>>
  <2>1. GraphOK'
    BY <1>2, GraphStays DEF GraphOK
  <2>2. DiscoveryOK'
    BY <1>2, DiscoveryStays DEF DiscoveryOK
  <2>3. GraphIsCovered'
    BY <1>2 DEF GraphIsCovered, Remaining, Budget
  <2> QED BY <1>1, <1>2, <2>1, <2>2, <2>3
<1>3. CASE StartGraph
  BY <1>1, <1>3, StartGraphKeeps
<1>4. CASE UNCHANGED <<call, graph>> /\ DiscoveryOK' /\ GraphIsCovered'
  <2>1. GraphOK'
    BY <1>4, GraphStays DEF GraphOK
  <2> QED BY <1>1, <1>4, <2>1
<1>5. CASE UseGraph
  BY <1>1, <1>5, UseGraphKeeps
<1>6. ASSUME FailGraph \/ AnswerFunctions PROVE UNCHANGED <<call, graph, disc>>
  BY <1>6 DEF FailGraph, AnswerFunctions
<1>7. ASSUME LeaveWork \/ SkipSeed PROVE UNCHANGED <<call, graph>> /\ DiscoveryOK' /\ GraphIsCovered'
  BY <1>7, LeaveWorkKeeps, SkipSeedKeeps
<1> QED BY <1>2, <1>3, <1>4, <1>5, <1>6, <1>7 DEF DiscoveryNext

\* The inductive invariant.
WithinLimits ==
    /\ CallTypeOK /\ GraphOK /\ ScanOK /\ DiscoveryOK
    /\ GraphIsCovered
    /\ ~(scan.open /\ disc.open)

LEMMA WithinLimitsInit ==
    ASSUME Init
    PROVE  WithinLimits
<1>1. PICK rom \in Programs, r \in Requests :
          call = [rom |-> rom, tool |-> r.tool, p |-> r.p, scope |-> r.scope, seeds |-> r.seeds,
                  target |-> r.target, limits |-> r.limits, cfg |-> r.cfg]
  BY DEF Init
<1>2. CallTypeOK
  BY <1>1, RequestsAssumption DEF CallTypeOK
<1>3. graph = Idle /\ scan = NoScan /\ disc = NoDiscovery
  BY DEF Init
<1>4. ~scan.open /\ ~disc.open
  BY <1>3 DEF NoScan, NoDiscovery
<1> QED BY <1>2, <1>3, <1>4 DEF WithinLimits, GraphOK, ScanOK, DiscoveryOK, GraphIsCovered

LEMMA WithinLimitsNext ==
    ASSUME WithinLimits, [Next]_vars
    PROVE  WithinLimits'
<1> USE DEF WithinLimits
<1>1. ASSUME UNCHANGED call PROVE CallTypeOK'
  BY <1>1 DEF CallTypeOK
<1>2. ASSUME UNCHANGED <<call, graph>> PROVE GraphOK'
  BY <1>2, GraphStays DEF GraphOK
<1>3. ASSUME UNCHANGED <<call, scan>> PROVE ScanOK'
  BY <1>3, ScanStays DEF ScanOK
<1>4. ASSUME UNCHANGED <<call, disc>> PROVE DiscoveryOK'
  BY <1>4, DiscoveryStays DEF DiscoveryOK
<1>5. ASSUME UNCHANGED <<call, graph, disc>> PROVE GraphIsCovered'
  BY <1>5 DEF GraphIsCovered, Remaining, Budget
<1>6. ASSUME UNCHANGED <<call, graph, scan, disc>> PROVE WithinLimits'
  BY <1>1, <1>2, <1>3, <1>4, <1>5, <1>6
<1>7. CASE BeginGraph
  <2>1. UNCHANGED <<call, scan, disc>> /\ ~disc.open
    BY <1>7 DEF BeginGraph, Fresh
  <2>2. Requested.source \in Places /\ call.cfg \in [GraphLimits -> Positive]
    BY RequestedTyped DEF Targets, CallTypeOK
  <2>3. GraphOK'
    BY <1>7, <2>1, <2>2, EmptyGraphInLimits, GraphStays DEF BeginGraph
  <2>4. GraphIsCovered'
    BY <2>1 DEF GraphIsCovered
  <2> QED BY <1>1, <1>3, <1>4, <2>1, <2>3, <2>4
<1>8. CASE BeginScan
  <2>1. UNCHANGED <<call, graph, disc>> /\ ~disc.open /\ scan' = ScanStart
    BY <1>8 DEF BeginScan, Fresh
  <2>2. ScanInLimits(scan') /\ ScanWindowInLimit(scan')
    BY <2>1, ScanStartInLimits DEF ScanWindowInLimit
  <2>3. ScanOK'
    BY <2>1, <2>2, ScanStays
  <2> QED BY <1>1, <1>2, <1>4, <1>5, <2>1, <2>3
<1>9. CASE BeginDiscovery
  <2>1. UNCHANGED <<call, graph, scan>> /\ ~scan.open /\ ~graph.open /\ disc' = DiscoveryStart
    BY <1>9 DEF BeginDiscovery, Fresh
  <2>2. DiscoveryOK'
    BY <2>1, DiscoveryStartInLimits, DiscoveryStays
  <2>3. GraphIsCovered'
    BY <2>1 DEF GraphIsCovered
  <2> QED BY <1>1, <1>2, <1>3, <2>1, <2>2, <2>3
<1>10. CASE FlowNext /\ UNCHANGED <<scan, disc>>
  <2>1. GraphOK' /\ UNCHANGED call /\ (graph.open => graph'.limits = graph.limits /\ graph'.open)
    BY <1>10, FlowKeeps
  <2>2. graph.open
    BY <1>10 DEF FlowNext, TakeBlock, StopBlock, DecodeInstruction, AnswerGraph, InBlock, GraphIsDone
  <2>3. Remaining(disc)' = Remaining(disc)
    BY <1>10, <2>1 DEF Remaining, Budget
  <2>4. GraphIsCovered'
    BY <1>10, <2>1, <2>2, <2>3 DEF GraphIsCovered
  <2> QED BY <1>1, <1>3, <1>4, <1>10, <2>1, <2>4
<1>11. CASE ScanNext /\ UNCHANGED disc
  <2>1. GraphOK' /\ ScanOK' /\ UNCHANGED call /\ (UNCHANGED graph \/ scan.open)
    BY <1>11, ScanKeeps
  <2>2. CASE scan.open
    <3>1. ~disc.open /\ ~disc'.open
      BY <1>11, <2>2
    <3>2. GraphIsCovered'
      BY <3>1 DEF GraphIsCovered
    <3> QED BY <1>1, <1>4, <1>11, <2>1, <3>1, <3>2
  <2>3. CASE UNCHANGED graph /\ ~scan.open
    <3>1. UNCHANGED scan
      BY <1>11, <2>3 DEF ScanNext, ScanTakeBlock, ScanGiveUp, ScanStopBlock, ScanInstruction, AnswerReferences,
                         AnswerUnproven, StartFunction, AnswerFunction, ScanRunning
    <3> QED BY <1>6, <1>11, <2>1, <2>3, <3>1
  <2> QED BY <2>1, <2>2, <2>3
<1>12. CASE DiscoveryNext /\ UNCHANGED scan
  <2>1. GraphOK' /\ DiscoveryOK' /\ GraphIsCovered' /\ UNCHANGED call /\ disc.open
    BY <1>12, DiscoveryKeeps
  <2> QED BY <1>1, <1>3, <1>12, <2>1
<1>13. CASE Refuse \/ Return \/ UNCHANGED vars
  BY <1>6, <1>13 DEF Refuse, Return, vars
<1> QED BY <1>7, <1>8, <1>9, <1>10, <1>11, <1>12, <1>13 DEF Next

LEMMA WithinLimitsSuffices ==
    ASSUME WithinLimits
    PROVE  BudgetsHold
<1>1. ASSUME graph.open PROVE GraphInLimits(graph)
  BY <1>1 DEF WithinLimits, GraphOK, Idle
<1>2. ASSUME scan.open PROVE ScanInLimits(scan)
  BY <1>2, ScanIsTyped DEF WithinLimits
<1>3. ASSUME disc.open PROVE FindsInLimits(disc) /\ TotalsInLimits(disc)
  BY <1>3, DiscoveryIsTyped DEF WithinLimits
<1>4. DOMAIN ReasonOf = GraphLimits
  BY DEF ReasonOf, GraphLimits
<1> QED BY <1>1, <1>2, <1>3, <1>4 DEF BudgetsHold, GraphInLimits, ScanInLimits, FindsInLimits, TotalsInLimits

\* No limit of a call is overrun, for every program and every request.
THEOREM BudgetsAreKept == Spec => []BudgetsHold
<1>1. Init => WithinLimits
  BY WithinLimitsInit
<1>2. WithinLimits /\ [Next]_vars => WithinLimits'
  BY WithinLimitsNext
<1>3. WithinLimits => BudgetsHold
  BY WithinLimitsSuffices
<1> QED BY <1>1, <1>2, <1>3, PTL DEF Spec

-----------------------------------------------------------------------------
(* The code that is reachable *)

\* w starts with base and goes on with F.
Iterates(w, m, base, F) == \A n \in 0..m : w[n] = IF n = 0 THEN base ELSE F[w[n - 1]]

LEMMA IterationExists ==
    ASSUME NEW A, NEW base \in A, NEW F \in [A -> A], NEW m \in Nat
    PROVE  \E w \in [0..m -> A] : Iterates(w, m, base, F)
<1> DEFINE Solves(w, k) == \A n \in 0..k : w[n] = IF n = 0 THEN base ELSE F[w[n - 1]]
           S == {k \in Nat : \E w \in [0..k -> A] : Solves(w, k)}
<1>1. 0 \in S
  <2>1. [n \in 0..0 |-> base] \in [0..0 -> A] /\ Solves([n \in 0..0 |-> base], 0)
    OBVIOUS
  <2> HIDE DEF Solves
  <2> QED BY <2>1
<1>2. ASSUME NEW k \in Nat, k \in S PROVE k + 1 \in S
  <2>1. PICK w \in [0..k -> A] : Solves(w, k)
    BY <1>2
  <2> DEFINE more == [n \in 0..(k + 1) |-> IF n = k + 1 THEN F[w[k]] ELSE w[n]]
  <2>2. more \in [0..(k + 1) -> A]
    OBVIOUS
  <2>3. ASSUME NEW n \in 0..(k + 1) PROVE more[n] = IF n = 0 THEN base ELSE F[more[n - 1]]
    <3>1. CASE n = k + 1
      BY <3>1
    <3>2. CASE n # k + 1
      <4>1. n \in 0..k /\ (n # 0 => n - 1 \in 0..k)
        BY <3>2
      <4>2. more[n] = w[n] /\ (n # 0 => more[n - 1] = w[n - 1])
        BY <4>1
      <4> HIDE DEF more
      <4> QED BY <2>1, <4>1, <4>2
    <3> QED BY <3>1, <3>2
  <2> HIDE DEF more
  <2>4. Solves(more, k + 1)
    BY <2>3
  <2> HIDE DEF Solves
  <2> QED BY <2>2, <2>4
<1>3. Nat \subseteq S
  <2> HIDE DEF S
  <2> QED BY <1>1, <1>2, EveryNatural
<1> QED BY <1>3 DEF Iterates

\* The waves of ReachedFrom: what is reached, and what was new in the last one.
Waves(D) == [all : SUBSET D, last : SUBSET D]
NewIn(next, x) == (UNION {next[s] : s \in x.last}) \ x.all

AreWaves(wave, D, next, start) ==
    /\ wave[0] = [all |-> start, last |-> start]
    /\ \A n \in 1..Cardinality(D) : /\ wave[n].all = wave[n - 1].all \cup NewIn(next, wave[n - 1])
                                  /\ wave[n].last = NewIn(next, wave[n - 1])
    /\ ReachedFrom(next, start) = wave[Cardinality(D)].all

LEMMA NewPlaces ==
    ASSUME NEW D, NEW next \in [D -> SUBSET D], NEW x \in Waves(D)
    PROVE  /\ NewIn(next, x) \in SUBSET D /\ NewIn(next, x) \cap x.all = {}
           /\ x.last = {} => NewIn(next, x) = {}
           /\ \A s \in x.last : next[s] \subseteq x.all \cup NewIn(next, x)
<1>1. x.last \in SUBSET D
  BY DEF Waves
<1>2. \A s \in x.last : next[s] \in SUBSET D
  BY <1>1
<1> HIDE DEF Waves
<1> QED BY <1>2 DEF NewIn

LEMMA WavesReach ==
    ASSUME NEW D, IsFiniteSet(D), NEW next \in [D -> SUBSET D], NEW start \in SUBSET D
    PROVE  \E wave \in [0..Cardinality(D) -> Waves(D)] : AreWaves(wave, D, next, start)
<1> DEFINE size == Cardinality(D)
           A == Waves(D)
           step(x) == [all |-> x.all \cup NewIn(next, x), last |-> NewIn(next, x)]
           F == [x \in A |-> step(x)]
           base == [all |-> start, last |-> start]
           wave == CHOOSE w : w = [n \in 0..size |-> IF n = 0 THEN base ELSE step(w[n - 1])]
<1>1. ReachedFrom(next, start) = wave[size].all
  BY DEF ReachedFrom, NewIn
<1>2. size \in Nat
  BY FS_CardinalityType
<1>3. \A x \in A : step(x) \in A
  <2> SUFFICES ASSUME NEW x \in A PROVE step(x) \in A
    OBVIOUS
  <2>1. NewIn(next, x) \in SUBSET D /\ x.all \in SUBSET D
    BY NewPlaces DEF Waves
  <2> QED BY <2>1 DEF Waves
<1>4. base \in A
  BY DEF Waves
<1>5. \A x : step(x).all = x.all \cup NewIn(next, x) /\ step(x).last = NewIn(next, x)
  OBVIOUS
<1> HIDE DEF A, step
<1>6. F \in [A -> A] /\ \A x \in A : F[x] = step(x)
  BY <1>3
<1> HIDE DEF size, F, base
<1>7. PICK w \in [0..size -> A] : Iterates(w, size, base, F)
  BY <1>2, <1>4, <1>6, IterationExists
<1>8. w = [n \in 0..size |-> IF n = 0 THEN base ELSE step(w[n - 1])]
  <2>1. ASSUME NEW n \in 0..size, n # 0 PROVE F[w[n - 1]] = step(w[n - 1])
    <3>1. n - 1 \in 0..size
      BY <1>2, <2>1
    <3> QED BY <1>6, <1>7, <3>1
  <2> QED BY <1>7, <2>1 DEF Iterates
<1>9. wave = [n \in 0..size |-> IF n = 0 THEN base ELSE step(wave[n - 1])]
  BY <1>8
<1> HIDE DEF wave
<1> DEFINE S == {n \in Nat : n \in 0..size => wave[n] \in A}
<1>10. 0 \in S
  BY <1>2, <1>4, <1>9
<1>11. ASSUME NEW n \in Nat, n \in S PROVE n + 1 \in S
  <2> SUFFICES ASSUME n + 1 \in 0..size PROVE wave[n + 1] \in A
    OBVIOUS
  <2>1. n \in 0..size /\ (n + 1) - 1 = n /\ n + 1 # 0
    BY <1>2
  <2>2. wave[n + 1] = step(wave[n])
    BY <1>9, <2>1
  <2> QED BY <1>3, <1>11, <2>1, <2>2
<1>12. \A n \in 0..size : wave[n] \in A
  <2>1. Nat \subseteq S
    <3> HIDE DEF S
    <3> QED BY <1>10, <1>11, EveryNatural
  <2> QED BY <1>2, <2>1
<1>13. wave \in [0..size -> A]
  BY <1>9, <1>12
<1>14. wave[0] = base
  BY <1>2, <1>9
<1>15. ASSUME NEW n \in 1..size PROVE wave[n] = step(wave[n - 1])
  <2>1. n \in 0..size /\ n # 0
    BY <1>2
  <2> QED BY <1>9, <2>1
<1> QED BY <1>1, <1>5, <1>13, <1>14, <1>15 DEF size, A, base, AreWaves

\* Every wave adds a place or is the last: what is reached is closed.
LEMMA ReachedIsClosed ==
    ASSUME NEW D, IsFiniteSet(D), NEW next \in [D -> SUBSET D], NEW start \in SUBSET D
    PROVE  /\ ReachedFrom(next, start) \in SUBSET D
           /\ start \subseteq ReachedFrom(next, start)
           /\ \A s \in ReachedFrom(next, start) : next[s] \subseteq ReachedFrom(next, start)
<1> DEFINE size == Cardinality(D)
<1>1. size \in Nat
  BY FS_CardinalityType
<1>0. PICK wave \in [0..size -> Waves(D)] : AreWaves(wave, D, next, start)
  BY WavesReach
<1>2. /\ wave[0] = [all |-> start, last |-> start]
      /\ \A n \in 1..size : /\ wave[n].all = wave[n - 1].all \cup NewIn(next, wave[n - 1])
                            /\ wave[n].last = NewIn(next, wave[n - 1])
      /\ ReachedFrom(next, start) = wave[size].all
  BY <1>0 DEF AreWaves
<1> HIDE DEF size
<1> DEFINE Good(n) ==
             /\ start \subseteq wave[n].all
             /\ \A s \in wave[n].all \ wave[n].last : next[s] \subseteq wave[n].all
             /\ wave[n].last # {} => Cardinality(wave[n].all) > n
           S == {n \in Nat : n \in 0..size => Good(n)}
<1>3. \A n \in 0..size : wave[n] \in Waves(D) /\ wave[n].all \in SUBSET D
  BY <1>2 DEF Waves
<1>4. 0 \in S
  <2>1. wave[0].all = start /\ wave[0].last = start
    BY <1>2
  <2>2. start # {} => Cardinality(start) > 0
    <3>1. IsFiniteSet(start)
      BY FS_Subset
    <3> QED BY <3>1, FS_EmptySet, FS_CardinalityType
  <2> QED BY <2>1, <2>2
<1>5. ASSUME NEW n \in Nat, n \in S PROVE n + 1 \in S
  <2> SUFFICES ASSUME n + 1 \in 0..size PROVE Good(n + 1)
    OBVIOUS
  <2> DEFINE old == wave[n]
             now == wave[n + 1]
  <2>1. n \in 0..size /\ n + 1 \in 1..size /\ (n + 1) - 1 = n /\ Good(n)
    BY <1>1, <1>5
  <2>2. now.all = old.all \cup NewIn(next, old) /\ now.last = NewIn(next, old)
    BY <1>2, <2>1
  <2>3. /\ old \in Waves(D) /\ now \in Waves(D) /\ old.all \in SUBSET D /\ now.all \in SUBSET D
        /\ start \subseteq old.all /\ (\A s \in old.all \ old.last : next[s] \subseteq old.all)
        /\ (old.last # {} => Cardinality(old.all) > n)
    BY <1>3, <2>1
  <2> HIDE DEF old, now
  <2>4. /\ NewIn(next, old) \cap old.all = {} /\ (old.last = {} => NewIn(next, old) = {})
        /\ \A s \in old.last : next[s] \subseteq now.all
    BY <2>2, <2>3, NewPlaces
  <2>5. ASSUME NEW s \in now.all \ now.last PROVE next[s] \subseteq now.all
    <3>1. s \in old.all
      BY <2>2
    <3> QED BY <2>2, <2>3, <2>4, <3>1
  <2>6. ASSUME now.last # {} PROVE Cardinality(now.all) > n + 1
    <3>1. old.last # {}
      BY <2>2, <2>4, <2>6
    <3>2. PICK x \in now.last : x \notin old.all
      BY <2>2, <2>4, <2>6
    <3>3. IsFiniteSet(old.all) /\ IsFiniteSet(now.all)
      BY <2>3, FS_Subset
    <3>4. Cardinality(old.all \cup {x}) = Cardinality(old.all) + 1
      BY <3>2, <3>3, FS_AddElement
    <3>5. old.all \cup {x} \in SUBSET now.all
      BY <2>2, <3>2
    <3>6. Cardinality(old.all \cup {x}) <= Cardinality(now.all)
      BY <3>3, <3>5, FS_Subset
    <3>7. Cardinality(old.all) \in Nat /\ Cardinality(now.all) \in Nat /\ Cardinality(old.all) > n
      BY <2>3, <3>1, <3>3, FS_CardinalityType
    <3> QED BY <3>4, <3>6, <3>7
  <2> QED BY <2>2, <2>3, <2>5, <2>6 DEF now
<1>6. Good(size)
  <2>1. Nat \subseteq S
    <3> HIDE DEF S
    <3> QED BY <1>4, <1>5, EveryNatural
  <2> QED BY <1>1, <2>1
<1>7. wave[size].all \in SUBSET D
  BY <1>1, <1>3
<1>8. wave[size].last = {}
  <2>1. Cardinality(wave[size].all) <= size /\ Cardinality(wave[size].all) \in Nat
    BY <1>7, FS_Subset, FS_CardinalityType DEF size
  <2> QED BY <1>1, <1>6, <2>1
<1> QED BY <1>2, <1>6, <1>7, <1>8

\* It is the least set that is closed.
LEMMA ReachedIsLeast ==
    ASSUME NEW D, IsFiniteSet(D), NEW next \in [D -> SUBSET D], NEW start \in SUBSET D,
           NEW C, start \subseteq C, \A s \in C \cap D : next[s] \subseteq C
    PROVE  ReachedFrom(next, start) \subseteq C
<1> DEFINE size == Cardinality(D)
<1>1. size \in Nat
  BY FS_CardinalityType
<1>0. PICK wave \in [0..size -> Waves(D)] : AreWaves(wave, D, next, start)
  BY WavesReach
<1>2. /\ wave[0] = [all |-> start, last |-> start]
      /\ \A n \in 1..size : /\ wave[n].all = wave[n - 1].all \cup NewIn(next, wave[n - 1])
                            /\ wave[n].last = NewIn(next, wave[n - 1])
      /\ ReachedFrom(next, start) = wave[size].all
  BY <1>0 DEF AreWaves
<1> HIDE DEF size
<1> DEFINE S == {n \in Nat : n \in 0..size => wave[n].all \subseteq C /\ wave[n].last \subseteq C}
<1>3. 0 \in S
  BY <1>2
<1>4. ASSUME NEW n \in Nat, n \in S PROVE n + 1 \in S
  <2> SUFFICES ASSUME n + 1 \in 0..size PROVE wave[n + 1].all \subseteq C /\ wave[n + 1].last \subseteq C
    OBVIOUS
  <2> DEFINE old == wave[n]
             now == wave[n + 1]
  <2>1. n \in 0..size /\ n + 1 \in 1..size /\ (n + 1) - 1 = n /\ old.all \subseteq C /\ old.last \subseteq C
    BY <1>1, <1>4
  <2>2. now.all = old.all \cup NewIn(next, old) /\ now.last = NewIn(next, old)
    BY <1>2, <2>1
  <2>3. old.last \in SUBSET D
    BY <1>2, <2>1 DEF Waves
  <2> HIDE DEF old, now
  <2>4. \A s \in old.last : next[s] \subseteq C
    BY <2>1, <2>3
  <2>5. NewIn(next, old) \subseteq C
    BY <2>4, Zenon DEF NewIn
  <2> QED BY <2>1, <2>2, <2>5 DEF now
<1>5. size \in S
  <2>1. Nat \subseteq S
    <3> HIDE DEF S
    <3> QED BY <1>3, <1>4, EveryNatural
  <2> QED BY <1>1, <2>1
<1> QED BY <1>1, <1>2, <1>5

-----------------------------------------------------------------------------
(* References in order *)

\* y does not come before x.
NotAfter(x, y) == ~ReferenceBefore(y, x)
InOrder(found) == \A i, j \in 1..Len(found) : i < j => NotAfter(found[i], found[j])

LEMMA ReferenceOrder ==
    ASSUME NEW x \in References, NEW y \in References
    PROVE  ReferenceBefore(x, y) <=>
               LET m(r) == Rank[r.site.mode]
                   k(r) == Rank[r.kind]
               IN  \/ x.site.component < y.site.component
                   \/ x.site.component = y.site.component
                      /\ \/ x.site.at < y.site.at
                         \/ x.site.at = y.site.at /\ (m(x) < m(y) \/ (m(x) = m(y) /\ k(x) < k(y)))
<1> DEFINE key(r) == <<r.site.component, r.site.at, Rank[r.site.mode], Rank[r.kind]>>
<1>1. \A r : key(r)[1] = r.site.component /\ key(r)[2] = r.site.at /\ key(r)[3] = Rank[r.site.mode] /\ key(r)[4] = Rank[r.kind]
  OBVIOUS
<1>2. ReferenceBefore(x, y) <=> \E i \in 1..4 : key(x)[i] < key(y)[i] /\ \A j \in 1..(i - 1) : key(x)[j] = key(y)[j]
  BY DEF ReferenceBefore
<1> HIDE DEF key
<1>3. (\A j \in 1..(1 - 1) : key(x)[j] = key(y)[j]) <=> TRUE
  OBVIOUS
<1>4. (\A j \in 1..(2 - 1) : key(x)[j] = key(y)[j]) <=> key(x)[1] = key(y)[1]
  OBVIOUS
<1>5. (\A j \in 1..(3 - 1) : key(x)[j] = key(y)[j]) <=> key(x)[1] = key(y)[1] /\ key(x)[2] = key(y)[2]
  OBVIOUS
<1>6. (\A j \in 1..(4 - 1) : key(x)[j] = key(y)[j])
        <=> key(x)[1] = key(y)[1] /\ key(x)[2] = key(y)[2] /\ key(x)[3] = key(y)[3]
  OBVIOUS
<1>7. 1..4 = {1, 2, 3, 4}
  OBVIOUS
<1>8. ReferenceBefore(x, y) <=>
        \/ key(x)[1] < key(y)[1]
        \/ key(x)[2] < key(y)[2] /\ key(x)[1] = key(y)[1]
        \/ key(x)[3] < key(y)[3] /\ key(x)[1] = key(y)[1] /\ key(x)[2] = key(y)[2]
        \/ key(x)[4] < key(y)[4] /\ key(x)[1] = key(y)[1] /\ key(x)[2] = key(y)[2] /\ key(x)[3] = key(y)[3]
  BY <1>2, <1>3, <1>4, <1>5, <1>6, <1>7
<1> QED BY <1>1, <1>8


LEMMA KeysAreNumbers ==
    ASSUME CallTypeOK, NEW r \in References
    PROVE  r.site.component \in Int /\ r.site.at \in Int /\ Rank[r.site.mode] \in Int /\ Rank[r.kind] \in Int
<1>1. r.site.component \in Int
  <2>1. call.rom.overlays[call.p] \in Seq(OverlayRecord)
    BY ProgramsAssumption DEF CallTypeOK
  <2> DEFINE all == call.rom.overlays[call.p]
  <2>2. \A i \in DOMAIN all : all[i].id \in Int
    <3>1. \A i \in DOMAIN all : all[i] \in OverlayRecord
      BY <2>1
    <3>2. \A o \in OverlayRecord : o.id \in Int
      BY DEF OverlayRecord
    <3> HIDE DEF all
    <3> QED BY <3>1, <3>2
  <2>3. Everywhere \subseteq Int
    BY <2>2 DEF Everywhere, Main, ToSet
  <2> QED BY <2>3 DEF References, Places
<1>2. r.site.at \in Int /\ r.site.mode \in Modes /\ r.kind \in {"direct-call", "direct-branch", "pc-relative"}
  BY DEF References, Places
<1>3. Rank["arm"] = 0 /\ Rank["thumb"] = 1 /\ Rank["direct-branch"] = 0 /\ Rank["direct-call"] = 1 /\ Rank["pc-relative"] = 2
  BY DEF Rank, Modes
<1> QED BY <1>1, <1>2, <1>3 DEF Modes

\* References are in a linear order, but for those that are alike in everything it looks at.
LEMMA OrderIsWeak ==
    ASSUME CallTypeOK, NEW x \in References, NEW y \in References, NEW z \in References
    PROVE  /\ NotAfter(x, x)
           /\ ReferenceBefore(x, y) => NotAfter(x, y)
           /\ NotAfter(x, y) /\ NotAfter(y, z) => NotAfter(x, z)
<1>1. \A r \in References : r.site.component \in Int /\ r.site.at \in Int /\ Rank[r.site.mode] \in Int /\ Rank[r.kind] \in Int
  BY KeysAreNumbers
<1> DEFINE a(r) == r.site.component
           b(r) == r.site.at
           m(r) == Rank[r.site.mode]
           k(r) == Rank[r.kind]
           before(p, q) == \/ a(p) < a(q)
                           \/ a(p) = a(q) /\ (b(p) < b(q) \/ (b(p) = b(q) /\ (m(p) < m(q) \/ (m(p) = m(q) /\ k(p) < k(q)))))
<1>2. \A p, q \in References : ReferenceBefore(p, q) <=> before(p, q)
  BY ReferenceOrder
<1>3. ~before(x, x)
  BY <1>1
<1>4. before(x, y) => ~before(y, x)
  BY <1>1
<1>5. ~before(y, x) /\ ~before(z, y) => ~before(z, x)
  BY <1>1
<1> HIDE DEF before
<1> QED BY <1>2, <1>3, <1>4, <1>5 DEF NotAfter

\* The elements of a sequence with one more in it.
LEMMA InsertedAt ==
    ASSUME NEW S, NEW seq \in Seq(S), NEW x \in S, NEW k \in 1..(Len(seq) + 1)
    PROVE  /\ InsertAt(seq, k, x) \in Seq(S) /\ Len(InsertAt(seq, k, x)) = Len(seq) + 1
           /\ InsertAt(seq, k, x)[k] = x
           /\ \A i \in 1..(k - 1) : InsertAt(seq, k, x)[i] = seq[i]
           /\ \A i \in (k + 1)..(Len(seq) + 1) : InsertAt(seq, k, x)[i] = seq[i - 1]
<1> DEFINE u == SubSeq(seq, 1, k - 1)
           v == SubSeq(seq, k, Len(seq))
<1>1. u \in Seq(S) /\ Len(u) = k - 1 /\ \A i \in 1..(k - 1) : u[i] = seq[i]
  OBVIOUS
<1>2. v \in Seq(S) /\ Len(v) = Len(seq) - k + 1 /\ \A i \in 1..(Len(seq) - k + 1) : v[i] = seq[k + i - 1]
  OBVIOUS
<1>3. InsertAt(seq, k, x) = (u \o <<x>>) \o v
  BY DEF InsertAt
<1> HIDE DEF u, v
<1> DEFINE w == u \o <<x>>
<1>4. w \in Seq(S) /\ Len(w) = k /\ w[k] = x /\ \A i \in 1..(k - 1) : w[i] = seq[i]
  BY <1>1
<1> HIDE DEF w
<1>5. /\ w \o v \in Seq(S) /\ Len(w \o v) = Len(w) + Len(v)
      /\ \A i \in 1..Len(w) : (w \o v)[i] = w[i]
      /\ \A i \in (Len(w) + 1)..(Len(w) + Len(v)) : (w \o v)[i] = v[i - Len(w)]
  BY <1>2, <1>4
<1>6. Len(w) + Len(v) = Len(seq) + 1
  BY <1>2, <1>4
<1>7. ASSUME NEW i \in (k + 1)..(Len(seq) + 1) PROVE (w \o v)[i] = seq[i - 1]
  <2>1. i - k \in 1..(Len(seq) - k + 1) /\ k + (i - k) - 1 = i - 1
    OBVIOUS
  <2>2. v[i - k] = seq[i - 1]
    BY <1>2, <2>1
  <2> QED BY <1>4, <1>5, <1>6, <2>2
<1> QED BY <1>3, <1>4, <1>5, <1>6, <1>7 DEF w

\* A set of numbers without gaps is an interval.
LEMMA NoGaps ==
    ASSUME NEW n \in Nat, NEW T \in SUBSET (1..n), \A i \in T : \A j \in 1..i : j \in T
    PROVE  T = 1..Cardinality(T) /\ Cardinality(T) \in 0..n
<1>1. CASE T = {}
  BY <1>1, FS_EmptySet
<1>2. CASE T # {}
  <2>1. PICK m \in T : \A j \in T : j <= m
    <3> DEFINE U == {n - j : j \in T}
    <3>1. U \in SUBSET Nat /\ U # {}
      <4>1. \A j \in T : n - j \in Nat
        OBVIOUS
      <4> QED BY <1>2, <4>1
    <3> HIDE DEF U
    <3>2. PICK u \in U : \A z \in U : u <= z
      BY <3>1, Least
    <3>3. PICK j \in T : u = n - j
      BY <3>2 DEF U
    <3>4. \A z \in T : n - j <= n - z
      BY <3>2, <3>3 DEF U
    <3> QED BY <3>4
  <2>2. T = 1..m
    <3>1. m \in 1..n /\ \A j \in 1..m : j \in T
      BY <2>1
    <3>2. \A j \in T : j \in 1..m
      BY <2>1
    <3> QED BY <3>1, <3>2
  <2>3. Cardinality(T) = m
    BY <2>1, <2>2, FS_Interval
  <2> QED BY <2>2, <2>3
<1> QED BY <1>1, <1>2

\* Where a reference is put: after all that come before it or are alike.
LEMMA PutInOrderKeepsOrder ==
    ASSUME CallTypeOK, NEW found \in Seq(References), InOrder(found), NEW r \in References
    PROVE  \E k \in 1..(Len(found) + 1) :
               /\ PutInOrder(found, r, ReferenceBefore) = InsertAt(found, k, r)
               /\ \A i \in 1..(k - 1) : NotAfter(found[i], r)
               /\ \A i \in k..Len(found) : ReferenceBefore(r, found[i])
               /\ InOrder(PutInOrder(found, r, ReferenceBefore))
<1> DEFINE T == {i \in 1..Len(found) : ~ReferenceBefore(r, found[i])}
           k == 1 + Cardinality(T)
           sorted == InsertAt(found, k, r)
<1>0. Len(found) \in Nat /\ \A i \in 1..Len(found) : found[i] \in References
  OBVIOUS
<1>1. ASSUME NEW i \in T, NEW j \in 1..i PROVE j \in T
  <2>1. i \in 1..Len(found) /\ j \in 1..Len(found) /\ NotAfter(found[i], r)
    BY DEF NotAfter
  <2>2. NotAfter(found[j], found[i])
    BY <1>0, <2>1, OrderIsWeak DEF InOrder
  <2>3. NotAfter(found[j], r)
    BY <1>0, <2>1, <2>2, OrderIsWeak
  <2> QED BY <2>1, <2>3 DEF NotAfter
<1>2. T = 1..Cardinality(T) /\ Cardinality(T) \in 0..Len(found)
  BY <1>0, <1>1, NoGaps
<1>3. k \in 1..(Len(found) + 1) /\ k - 1 = Cardinality(T)
  BY <1>0, <1>2
<1>4. \A i \in 1..(k - 1) : NotAfter(found[i], r)
  BY <1>2, <1>3 DEF NotAfter
<1>5. \A i \in k..Len(found) : ReferenceBefore(r, found[i])
  <2> SUFFICES ASSUME NEW i \in k..Len(found) PROVE i \in 1..Len(found) /\ i \notin T
    OBVIOUS
  <2> DEFINE c == Cardinality(T)
  <2>1. T = 1..c /\ c \in 0..Len(found) /\ k = 1 + c
    BY <1>2
  <2> HIDE DEF c, T, k
  <2> QED BY <1>0, <2>1
<1>6. PutInOrder(found, r, ReferenceBefore) = sorted
  BY DEF PutInOrder
<1> HIDE DEF k, T
<1>7. /\ sorted \in Seq(References) /\ Len(sorted) = Len(found) + 1 /\ sorted[k] = r
      /\ \A i \in 1..(k - 1) : sorted[i] = found[i]
      /\ \A i \in (k + 1)..(Len(found) + 1) : sorted[i] = found[i - 1]
  BY <1>3, InsertedAt
<1> HIDE DEF sorted
<1>8. InOrder(sorted)
  <2> SUFFICES ASSUME NEW i \in 1..Len(sorted), NEW j \in 1..Len(sorted), i < j PROVE NotAfter(sorted[i], sorted[j])
    BY DEF InOrder
  <2>1. CASE j < k
    <3>1. i \in 1..(k - 1) /\ j \in 1..(k - 1) /\ i \in 1..Len(found) /\ j \in 1..Len(found)
      BY <1>0, <1>3, <2>1
    <3> QED BY <1>7, <3>1 DEF InOrder
  <2>2. CASE j = k
    <3>1. i \in 1..(k - 1)
      BY <1>0, <1>3, <2>2
    <3> QED BY <1>4, <1>7, <2>2, <3>1
  <2>3. CASE i < k /\ j > k
    <3>1. i \in 1..(k - 1) /\ j \in (k + 1)..(Len(found) + 1) /\ i \in 1..Len(found) /\ j - 1 \in 1..Len(found) /\ i < j - 1
      BY <1>0, <1>3, <1>7, <2>3
    <3> QED BY <1>7, <3>1 DEF InOrder
  <2>4. CASE i = k
    <3>1. j \in (k + 1)..(Len(found) + 1) /\ j - 1 \in k..Len(found) /\ j - 1 \in 1..Len(found)
      BY <1>0, <1>3, <1>7, <2>4
    <3>2. ReferenceBefore(r, found[j - 1])
      BY <1>5, <3>1
    <3> QED BY <1>0, <1>7, <2>4, <3>1, <3>2, OrderIsWeak
  <2>5. CASE i > k
    <3>1. /\ i \in (k + 1)..(Len(found) + 1) /\ j \in (k + 1)..(Len(found) + 1)
          /\ i - 1 \in 1..Len(found) /\ j - 1 \in 1..Len(found) /\ i - 1 < j - 1
      BY <1>0, <1>3, <1>7, <2>5
    <3> QED BY <1>7, <3>1 DEF InOrder
  <2> QED BY <1>3, <2>1, <2>2, <2>3, <2>4, <2>5
<1> QED BY <1>3, <1>4, <1>5, <1>6, <1>8 DEF sorted

\* found tells of q: it is there, or there was no room before it.
TellsOf(found, q) ==
    \/ q \in ToSet(found)
    \/ Len(found) = call.limits.xrefs /\ \A i \in 1..Len(found) : NotAfter(found[i], q)
IsListed(found) == found \in Seq(References) /\ Len(found) <= call.limits.xrefs /\ InOrder(found)

LEMMA RetainTells ==
    ASSUME CallTypeOK, NEW found, IsListed(found), NEW r \in References
    PROVE  /\ IsListed(Retain(found, r))
           /\ ToSet(Retain(found, r)) \subseteq ToSet(found) \cup {r}
           /\ TellsOf(Retain(found, r), r)
           /\ \A q \in References : TellsOf(found, q) => TellsOf(Retain(found, r), q)
           /\ Len(found) < call.limits.xrefs =>
                  Len(Retain(found, r)) = Len(found) + 1 /\ ToSet(found) \cup {r} \subseteq ToSet(Retain(found, r))
<1> DEFINE n == Len(found)
           max == call.limits.xrefs
           sorted == PutInOrder(found, r, ReferenceBefore)
           f == Retain(found, r)
<1>1. found \in Seq(References) /\ n <= max /\ InOrder(found) /\ n \in Nat /\ max \in Nat /\ max >= 1
  BY CallLimitsTyped DEF IsListed, CallLimits
<1>2. PICK k \in 1..(n + 1) :
        /\ sorted = InsertAt(found, k, r)
        /\ \A i \in 1..(k - 1) : NotAfter(found[i], r)
        /\ \A i \in k..n : ReferenceBefore(r, found[i])
        /\ InOrder(sorted)
  BY <1>1, PutInOrderKeepsOrder
<1>4. f = IF Len(sorted) > max THEN Front(sorted) ELSE sorted
  BY DEF Retain, ScanLimits
<1>5. \A i \in 1..n : found[i] \in References
  BY <1>1
<1> HIDE DEF sorted, f
<1>3. /\ sorted \in Seq(References) /\ Len(sorted) = n + 1 /\ sorted[k] = r
      /\ \A i \in 1..(k - 1) : sorted[i] = found[i]
      /\ \A i \in (k + 1)..(n + 1) : sorted[i] = found[i - 1]
  <2>1. found \in Seq(References) /\ k \in 1..(Len(found) + 1) /\ sorted = InsertAt(found, k, r)
    BY <1>1, <1>2
  <2>2. /\ InsertAt(found, k, r) \in Seq(References) /\ Len(InsertAt(found, k, r)) = Len(found) + 1
        /\ InsertAt(found, k, r)[k] = r
        /\ \A i \in 1..(k - 1) : InsertAt(found, k, r)[i] = found[i]
        /\ \A i \in (k + 1)..(Len(found) + 1) : InsertAt(found, k, r)[i] = found[i - 1]
    <3> HIDE DEF n
    <3>1. found \in Seq(References) /\ k \in 1..(Len(found) + 1)
      BY <2>1
    <3> QED BY <3>1, InsertedAt
  <2> QED BY <2>1, <2>2
<1> HIDE DEF n
<1>6. \A i \in 1..(n + 1) : sorted[i] \in ToSet(found) \cup {r}
  <2> SUFFICES ASSUME NEW i \in 1..(n + 1) PROVE sorted[i] \in ToSet(found) \cup {r}
    OBVIOUS
  <2>1. CASE i < k
    <3>1. i \in 1..(k - 1) /\ i \in DOMAIN found
      BY <1>1, <1>2, <2>1 DEF n
    <3> QED BY <1>3, <3>1 DEF ToSet
  <2>2. CASE i = k
    BY <1>3, <2>2
  <2>3. CASE i > k
    <3>1. i \in (k + 1)..(n + 1) /\ i - 1 \in DOMAIN found
      BY <1>1, <1>2, <2>3 DEF n
    <3> QED BY <1>3, <3>1 DEF ToSet
  <2> QED BY <1>2, <2>1, <2>2, <2>3
<1>7. \A q \in ToSet(found) \cup {r} : \E i \in 1..(n + 1) : sorted[i] = q
  <2> SUFFICES ASSUME NEW q \in ToSet(found) PROVE \E i \in 1..(n + 1) : sorted[i] = q
    BY <1>2, <1>3
  <2>1. PICK j \in 1..n : found[j] = q
    BY <1>1 DEF ToSet, n
  <2>2. CASE j < k
    <3>1. j \in 1..(k - 1) /\ j \in 1..(n + 1)
      BY <1>1, <1>2, <2>2
    <3> QED BY <1>3, <2>1, <3>1
  <2>3. CASE j >= k
    <3>1. j + 1 \in (k + 1)..(n + 1) /\ j + 1 \in 1..(n + 1) /\ (j + 1) - 1 = j
      BY <1>1, <1>2, <2>3
    <3> QED BY <1>3, <2>1, <3>1
  <2> QED BY <1>1, <1>2, <2>2, <2>3
<1>8. CASE n < max
  <2>1. f = sorted /\ DOMAIN f = 1..(n + 1) /\ Len(f) = n + 1
    BY <1>1, <1>3, <1>4, <1>8
  <2>2. \A q \in ToSet(found) \cup {r} : q \in ToSet(f)
    BY <1>7, <2>1 DEF ToSet
  <2>3. ToSet(f) \subseteq ToSet(found) \cup {r}
    BY <1>6, <2>1 DEF ToSet
  <2>4. \A q \in References : TellsOf(found, q) => q \in ToSet(found)
    BY <1>1, <1>8 DEF TellsOf, n
  <2>5. IsListed(f)
    BY <1>1, <1>2, <1>3, <1>8, <2>1 DEF IsListed
  <2> QED BY <2>1, <2>2, <2>3, <2>4, <2>5 DEF TellsOf, f, n
<1>9. CASE n = max
  <2> DEFINE last == sorted[n + 1]
  <2>1. f = Front(sorted)
    BY <1>1, <1>3, <1>4, <1>9
  <2>2. f \in Seq(References) /\ Len(f) = n /\ \A i \in 1..n : f[i] = sorted[i]
    BY <1>1, <1>3, <2>1 DEF Front
  <2>3. \A i \in 1..n : NotAfter(f[i], last)
    <3>1. \A i \in 1..n : i \in 1..Len(sorted) /\ n + 1 \in 1..Len(sorted) /\ i < n + 1
      BY <1>1, <1>3
    <3> QED BY <1>2, <2>2, <3>1 DEF InOrder
  <2>4. IsListed(f)
    <3>1. \A i \in 1..n : i \in 1..Len(sorted)
      BY <1>1, <1>3
    <3>2. InOrder(f)
      BY <1>2, <2>2, <3>1 DEF InOrder
    <3> QED BY <1>1, <1>9, <2>2, <3>2 DEF IsListed
  <2>5. ToSet(f) \subseteq ToSet(found) \cup {r}
    <3>1. \A i \in DOMAIN f : i \in 1..n /\ i \in 1..(n + 1)
      BY <1>1, <2>2
    <3> QED BY <1>6, <2>2, <3>1 DEF ToSet
  <2> HIDE DEF last
  <2>6. ASSUME NEW q \in ToSet(found) \cup {r} PROVE TellsOf(f, q)
    <3>1. PICK i \in 1..(n + 1) : sorted[i] = q
      BY <1>7
    <3>2. CASE i \in 1..n
      <4>1. q \in ToSet(f)
        <5>1. i \in DOMAIN f /\ f[i] = q
          BY <2>2, <3>1, <3>2
        <5> QED BY <5>1 DEF ToSet
      <4> QED BY <4>1 DEF TellsOf
    <3>3. CASE i = n + 1
      <4>1. q = last
        BY <3>1, <3>3 DEF last
      <4> QED BY <1>9, <2>2, <2>3, <4>1 DEF TellsOf
    <3> QED BY <1>1, <3>2, <3>3
  <2>7. ASSUME NEW q \in References, \A i \in 1..n : NotAfter(found[i], q) PROVE TellsOf(f, q)
    <3>1. \A i \in 1..n : NotAfter(f[i], q)
      <4> SUFFICES ASSUME NEW i \in 1..n PROVE NotAfter(f[i], q)
        OBVIOUS
      <4>1. CASE i < k
        <5>1. i \in 1..(k - 1)
          BY <1>2, <4>1
        <5> QED BY <1>3, <2>2, <2>7, <5>1
      <4>2. CASE i > k
        <5>1. i \in (k + 1)..(n + 1) /\ i - 1 \in 1..n
          BY <1>1, <1>2, <4>2
        <5> QED BY <1>3, <2>2, <2>7, <5>1
      <4>3. CASE i = k
        <5>1. f[i] = r /\ n \in k..n /\ n \in 1..n
          BY <1>1, <1>2, <1>3, <2>2, <4>3
        <5>2. NotAfter(r, found[n]) /\ NotAfter(found[n], q)
          BY <1>2, <1>5, <2>7, <5>1, OrderIsWeak
        <5> QED BY <1>5, <5>1, <5>2, OrderIsWeak
      <4> QED BY <1>2, <4>1, <4>2, <4>3
    <3> QED BY <1>9, <2>2, <3>1 DEF TellsOf
  <2>8. ASSUME NEW q \in References, TellsOf(found, q) PROVE TellsOf(f, q)
    BY <2>6, <2>7, <2>8 DEF TellsOf, n
  <2> QED BY <1>1, <1>9, <2>4, <2>5, <2>6, <2>8 DEF f, n
<1> QED BY <1>1, <1>8, <1>9

\* The list tells of all that were put in order.
LEMMA RetainAllTells ==
    ASSUME CallTypeOK, NEW found, IsListed(found), NEW n \in Nat, NEW new \in [1..n -> References]
    PROVE  LET after == RetainAll(found, new)
               added == {new[i] : i \in 1..n}
           IN  /\ IsListed(after)
               /\ ToSet(after) \subseteq ToSet(found) \cup added
               /\ \A q \in References : q \in added \/ TellsOf(found, q) => TellsOf(after, q)
<1> DEFINE A == {f \in Seq(References) : IsListed(f)}
           added(s) == {new[i] : i \in s}
<1>1. \A f \in A, r \in References : Retain(f, r) \in A
  BY RetainTells DEF IsListed
<1>2. found \in A
  BY DEF IsListed
<1>0. \A f : f \in A => IsListed(f)
  OBVIOUS
<1> HIDE DEF A
<1>10. PICK iter : RetainsAll(iter, found, n, new, A)
  BY <1>1, <1>2, RetainUnfolds
<1>3. /\ iter \in [SUBSET (1..n) -> A]
      /\ RetainAll(found, new) = iter[1..n] /\ iter[{}] = found
      /\ \A s \in SUBSET (1..n) : s # {} => iter[s] = Retain(iter[s \ {Max(s)}], new[Max(s)])
  BY <1>10 DEF RetainsAll
<1> DEFINE Good(s) == /\ ToSet(iter[s]) \subseteq ToSet(found) \cup added(s)
                      /\ \A q \in References : q \in added(s) \/ TellsOf(found, q) => TellsOf(iter[s], q)
           G == {s \in SUBSET (1..n) : Good(s)}
<1>4. {} \in G
  <2>1. added({}) = {}
    OBVIOUS
  <2> HIDE DEF added
  <2> QED BY <1>3, <2>1
<1>5. ASSUME NEW s \in SUBSET (1..n), s # {}, s \ {Latest(n)[s]} \in G PROVE s \in G
  <2> DEFINE m == Max(s)
             rest == s \ {m}
  <2>1. m \in s /\ m \in 1..n /\ rest \in SUBSET (1..n) /\ Good(rest) /\ iter[s] = Retain(iter[rest], new[m])
    BY <1>3, <1>5, LatestChooses DEF Chooses
  <2>2. new[m] \in References /\ IsListed(iter[rest])
    BY <1>0, <1>3, <2>1
  <2>3. added(s) = added(rest) \cup {new[m]}
    BY <2>1
  <2> HIDE DEF m, rest, added
  <2>4. /\ ToSet(iter[s]) \subseteq ToSet(iter[rest]) \cup {new[m]}
        /\ TellsOf(iter[s], new[m])
        /\ \A q \in References : TellsOf(iter[rest], q) => TellsOf(iter[s], q)
    BY <2>1, <2>2, RetainTells
  <2>5. Good(s)
    BY <2>1, <2>3, <2>4
  <2> QED BY <2>5
<1>6. 1..n \in G
  <2> HIDE DEF G
  <2>1. IsFiniteSet(1..n) /\ Chooses(Latest(n), 1..n)
    BY LatestChooses
  <2> QED BY <1>4, <1>5, <2>1, EverySubset
<1>7. IsListed(iter[1..n])
  BY <1>0, <1>3
<1> QED BY <1>3, <1>6, <1>7

-----------------------------------------------------------------------------
(* What is selected *)

LEMMA SelectedTyped ==
    ASSUME CallTypeOK
    PROVE  Len(Selected) \in Nat /\ DOMAIN Selected = 1..Len(Selected)
<1> DEFINE all == call.rom.overlays[call.p]
           ids == IF call.scope.all THEN {o.id : o \in ToSet(all)} ELSE ToSet(call.scope.ids)
           first == IF call.scope.main THEN <<Main>> ELSE <<>>
           later == Ascending(ids)
           V == {first[i] : i \in DOMAIN first} \cup {later[i] : i \in DOMAIN later}
<1>1. IsFiniteSet({o.id : o \in ToSet(all)})
  <2>1. all \in Seq(OverlayRecord)
    BY ProgramsAssumption DEF CallTypeOK
  <2> HIDE DEF all
  <2> DEFINE n == Len(all)
             T == {o.id : o \in ToSet(all)}
             f == [i \in 1..n |-> all[i].id]
  <2>2. n \in Nat /\ DOMAIN all = 1..n
    BY <2>1
  <2> HIDE DEF n
  <2>3. f \in Surjection(1..n, T)
    BY <2>2 DEF Surjection, ToSet
  <2>4. IsFiniteSet(1..n)
    BY <2>2, FS_Interval
  <2> HIDE DEF f, T
  <2>5. IsFiniteSet(T)
    BY <2>3, <2>4, FS_Surjection
  <2> QED BY <2>5 DEF T
<1>2. IsFiniteSet(ToSet(call.scope.ids))
  <2> DEFINE seq == call.scope.ids
             n == Len(seq)
             T == ToSet(seq)
  <2>1. seq \in Seq(Nat)
    BY DEF CallTypeOK, Scope
  <2> HIDE DEF seq
  <2>2. n \in Nat /\ DOMAIN seq = 1..n /\ seq = [i \in 1..n |-> seq[i]]
    BY <2>1
  <2> HIDE DEF n
  <2>3. seq \in Surjection(1..n, T)
    BY <2>2 DEF Surjection, ToSet
  <2>4. IsFiniteSet(1..n)
    BY <2>2, FS_Interval
  <2> HIDE DEF T
  <2>5. IsFiniteSet(T)
    BY <2>3, <2>4, FS_Surjection
  <2> QED BY <2>5 DEF T, seq
<1>3. Cardinality(ids) \in Nat
  <2>1. IsFiniteSet(ids)
    BY <1>1, <1>2
  <2> HIDE DEF ids
  <2> QED BY <2>1, FS_CardinalityType
<1>4. Selected = first \o later
  BY DEF Selected, Components
<1>5. first \in Seq(V)
  <2>1. first = <<>> \/ first = <<Main>>
    OBVIOUS
  <2>2. first = <<Main>> => Main \in V
    <3>1. first = <<Main>> => 1 \in DOMAIN first /\ first[1] = Main
      OBVIOUS
    <3> HIDE DEF first
    <3> QED BY <3>1
  <2> HIDE DEF first, V
  <2>3. CASE first = <<>>
    BY <2>3
  <2>4. CASE first = <<Main>>
    <3>1. Main \in V
      BY <2>2, <2>4
    <3>2. <<Main>> \in Seq(V)
      BY <3>1
    <3> QED BY <2>4, <3>2
  <2> QED BY <2>1, <2>3, <2>4
<1>6. later \in Seq(V)
  <2> DEFINE m == Cardinality(ids)
  <2>1. later = [i \in 1..m |-> later[i]]
    <3> HIDE DEF ids
    <3> DEFINE e(i) == CHOOSE x \in ids : Cardinality({y \in ids : y < x}) = i - 1
    <3>1. later = [i \in 1..m |-> e(i)]
      BY DEF Ascending
    <3> HIDE DEF later, m, e
    <3> QED BY <3>1
  <2> HIDE DEF later, m, first
  <2>2. \A i \in 1..m : later[i] \in V
    BY <2>1
  <2> HIDE DEF V
  <2>3. m \in Nat
    BY <1>3 DEF m
  <2> QED BY <2>1, <2>2, <2>3
<1> HIDE DEF first, later, V
<1> QED BY <1>4, <1>5, <1>6

LEMMA ConsideredIsSelected ==
    ASSUME CallTypeOK
    PROVE  Considered \subseteq InScope
<1> DEFINE n == Len(Selected)
           m == call.limits.components
<1>1. n \in Nat /\ DOMAIN Selected = 1..n
  BY SelectedTyped
<1>2. m \in Nat
  BY CallLimitsTyped DEF CallLimits
<1> HIDE DEF n, m
<1>3. Min({n, m}) <= n /\ Min({n, m}) \in Int
  <2>1. (n <= m => Min({n, m}) = n) /\ (m <= n => Min({n, m}) = m)
    BY <1>1, <1>2 DEF Min
  <2> QED BY <1>1, <1>2, <2>1
<1>4. 1..Min({n, m}) \subseteq 1..n
  BY <1>1, <1>3
<1> QED BY <1>1, <1>4 DEF Considered, InScope, ToSet, ScanLimits, n, m

-----------------------------------------------------------------------------
(* The code a search reads *)

LEMMA ScopeIsClosed ==
    ASSUME CallTypeOK
    PROVE  /\ ScopeCode \in SUBSET CodeAt
           /\ CodeIn(Entries \cup Seeds, InScope) \subseteq ScopeCode
           /\ \A s \in ScopeCode : CodeIn(Successors(s, TRUE), InScope) \subseteq ScopeCode
<1> DEFINE next == [s \in CodeAt |-> CodeIn(Successors(s, TRUE), InScope)]
           start == CodeIn(Entries \cup Seeds, InScope)
<1>1. IsFiniteSet(CodeAt)
  BY ProgramsAssumption DEF CallTypeOK, CodeAt
<1>2. \A S : CodeIn(S, InScope) \in SUBSET CodeAt
  BY DEF CodeIn, Runs, CanDecode, CodeAt
<1>3. next \in [CodeAt -> SUBSET CodeAt] /\ start \in SUBSET CodeAt
  BY <1>2
<1>4. ScopeCode = ReachedFrom(next, start)
  BY DEF ScopeCode, Reach, CodeAt
<1>5. \A s \in CodeAt : next[s] = CodeIn(Successors(s, TRUE), InScope)
  OBVIOUS
<1> HIDE DEF next, start
<1>6. /\ ReachedFrom(next, start) \in SUBSET CodeAt /\ start \subseteq ReachedFrom(next, start)
      /\ \A s \in ReachedFrom(next, start) : next[s] \subseteq ReachedFrom(next, start)
  BY <1>1, <1>3, ReachedIsClosed
<1> QED BY <1>4, <1>5, <1>6 DEF start

\* q is a place of the selected components, and reachable code if it decodes.
Leads(q) == q.component \in InScope /\ (Runs(q) => q \in ScopeCode)

LEMMA RootsLead ==
    ASSUME CallTypeOK, NEW q \in Entries \cup Seeds, q.component \in InScope
    PROVE  Leads(q)
BY ScopeIsClosed DEF Leads, CodeIn

LEMMA SuccessorsLead ==
    ASSUME CallTypeOK, NEW s \in ScopeCode, NEW q \in Successors(s, TRUE), q.component \in InScope
    PROVE  Leads(q)
BY ScopeIsClosed DEF Leads, CodeIn

\* Where an instruction of reachable code sends the search.
LEMMA FlowLeads ==
    ASSUME CallTypeOK, NEW s \in ScopeCode, s \in Places
    PROVE  LET i == InstructionAt(call.rom, call.p, s)
           IN  /\ /\ i.kind \in {"call", "unconditional-branch", "conditional-branch"}
                  /\ i.target.status = "resolved" /\ i.target.source.component \in InScope
                  => Leads(i.target.source)
               /\ /\ i.kind \in {"fallthrough", "call", "indirect-call", "conditional-branch"}
                  /\ i.next.at < End(i.source) /\ i.next.component \in InScope
                  => Leads(i.next)
<1> DEFINE i == InstructionAt(call.rom, call.p, s)
<1>1. s \in CodeAt
  BY ScopeIsClosed
<1>2. i \in Instructions /\ i.source = s
  BY <1>1, InstructionTyped, InstructionIsHere
<1>3. i.next.component = s.component
  BY DEF InstructionAt, AtAddress, Places
<1>4. End(i.next) = End(s) /\ End(i.source) = End(s)
  BY <1>2, <1>3 DEF End
<1>5. ASSUME i.kind \in {"call", "unconditional-branch", "conditional-branch"}, i.target.status = "resolved"
      PROVE  i.target.source \in Successors(s, TRUE)
  <2> HIDE DEF i
  <2> QED BY <1>5 DEF Successors, i
<1>6. ASSUME i.kind \in {"fallthrough", "call", "indirect-call", "conditional-branch"}, i.next.at < End(i.source)
      PROVE  i.next \in Successors(s, TRUE)
  <2> HIDE DEF i
  <2> QED BY <1>4, <1>6 DEF Successors, i
<1> HIDE DEF i
<1> QED BY <1>5, <1>6, SuccessorsLead DEF i

-----------------------------------------------------------------------------
(* What a search has found *)

ReferencesIn(S) == UNION {ReferencesTo(call.rom, call.p, p, call.target.at) : p \in S}
HereIn(s) == AtAddress(s.block, s.block.at + s.cursor)

QueueLeads(s) == \A j \in DOMAIN s.queue : Leads(s.queue[j])
FindsFirst(s) ==
    /\ QueueLeads(s)
    /\ s.decoded \subseteq ScopeCode
    /\ IsListed(s.found)
    /\ ToSet(s.found) \subseteq ReferencesIn(s.decoded)
    /\ \A r \in ReferencesIn(s.decoded) : TellsOf(s.found, r)
\* A block is read inside its component, from code that is reachable.
ReadsReached(s) ==
    s.block # NoSource => Leads(HereIn(s)) /\ s.window - s.cursor <= End(s.block) - HereIn(s).at

\* s has found in its code what t has.
FoundAs(s, t) == s.found = t.found /\ s.decoded = t.decoded /\ s.considered = t.considered

LEMMA LimitedLeads ==
    ASSUME NEW s \in ScanType, NEW reason, NEW c
    PROVE  LET t == Limited(Reason(s, reason), c) IN FoundAs(t, s) /\ t.queue = s.queue
<1> DEFINE t == Reason(s, reason)
           r == Limited(t, c)
<1>1. t = [s EXCEPT !.reasons = t.reasons] /\ r = [t EXCEPT !.limited = r.limited]
  BY DEF ScanType, Reason, Limited
<1>2. t.found = s.found /\ t.decoded = s.decoded /\ t.considered = s.considered /\ t.queue = s.queue
  BY DEF ScanType, Reason
<1>3. r.found = t.found /\ r.decoded = t.decoded /\ r.considered = t.considered /\ r.queue = t.queue
  BY DEF ScanType, Reason, Limited
<1> QED BY <1>2, <1>3 DEF FoundAs

LEMMA ScheduleSourceLeads ==
    ASSUME CallTypeOK, NEW s, ScanInLimits(s), QueueLeads(s), NEW p \in Places, p.component \in s.considered => Leads(p)
    PROVE  QueueLeads(ScheduleSource(s, p)) /\ FoundAs(ScheduleSource(s, p), s)
<1> DEFINE seeded == [s EXCEPT !.seeded = @ \cup {p.component}]
           r == ScheduleSource(s, p)
<1>1. s \in ScanType /\ p.component \in Everywhere
  BY DEF ScanInLimits, Places
<1>2. seeded \in ScanType
  BY <1>1 DEF ScanType
<1>3. FoundAs(seeded, s) /\ seeded.queue = s.queue /\ seeded.queue \in Seq(Places)
  BY <1>1 DEF FoundAs, ScanType
<1>4. CASE p.component \notin s.considered
  BY <1>4 DEF ScheduleSource, FoundAs
<1>5. CASE p.component \in s.considered /\ p \in s.scheduled
  <2>1. r = seeded
    BY <1>5 DEF ScheduleSource
  <2> HIDE DEF seeded
  <2> QED BY <1>3, <2>1 DEF QueueLeads
<1>6. CASE /\ p.component \in s.considered /\ p \notin s.scheduled
           /\ Cardinality(s.scheduled) >= call.limits.blocks
  <2> HIDE DEF seeded
  <2>1. r = Limited(Reason(seeded, "block-limit"), p.component)
    BY <1>6 DEF ScheduleSource, ScanLimits, seeded
  <2>2. FoundAs(r, seeded) /\ r.queue = seeded.queue
    BY <1>2, <2>1, LimitedLeads
  <2> QED BY <1>3, <2>2 DEF QueueLeads, FoundAs
<1>7. CASE /\ p.component \in s.considered /\ p \notin s.scheduled
           /\ ~(Cardinality(s.scheduled) >= call.limits.blocks)
  <2> HIDE DEF seeded
  <2>1. r = [seeded EXCEPT !.scheduled = @ \cup {p}, !.queue = Append(@, p)]
    BY <1>7 DEF ScheduleSource, ScanLimits, seeded
  <2>2. r.queue = Append(seeded.queue, p) /\ FoundAs(r, seeded)
    BY <1>2, <2>1 DEF ScanType, FoundAs
  <2>3. \A j \in DOMAIN r.queue : r.queue[j] = p \/ (j \in DOMAIN s.queue /\ r.queue[j] = s.queue[j])
    BY <1>3, <2>2
  <2>4. Leads(p)
    BY <1>7
  <2> HIDE DEF r
  <2>5. QueueLeads(r)
    BY <2>3, <2>4 DEF QueueLeads
  <2>6. FoundAs(r, s)
    BY <1>3, <2>2 DEF FoundAs
  <2> QED BY <2>5, <2>6 DEF r
<1> QED BY <1>4, <1>5, <1>6, <1>7

LEMMA TraverseToLeads ==
    ASSUME CallTypeOK, NEW s, ScanInLimits(s), QueueLeads(s), NEW target \in Targets,
           target.status = "resolved" /\ target.source.component \in s.considered => Leads(target.source)
    PROVE  QueueLeads(TraverseTo(s, target)) /\ FoundAs(TraverseTo(s, target), s)
<1> DEFINE t == [s EXCEPT !.edges = @ + 1]
           r == TraverseTo(s, target)
<1>1. s \in ScanType /\ s.edges \in Nat /\ s.block.component \in Everywhere /\ target.source \in Places
  BY DEF ScanInLimits, ScanType, Places, Targets
<1>2. CASE target.status # "resolved" \/ target.source.component \notin s.considered
  BY <1>2 DEF TraverseTo, FoundAs
<1>3. CASE /\ ~(target.status # "resolved" \/ target.source.component \notin s.considered)
           /\ s.edges >= call.limits.edges
  <2>1. r = Limited(Reason(s, "edge-limit"), s.block.component)
    BY <1>3 DEF TraverseTo, ScanLimits
  <2>2. FoundAs(r, s) /\ r.queue = s.queue
    BY <1>1, <2>1, LimitedLeads
  <2> QED BY <2>2 DEF QueueLeads
<1>4. CASE /\ ~(target.status # "resolved" \/ target.source.component \notin s.considered)
           /\ ~(s.edges >= call.limits.edges)
  <2>1. r = ScheduleSource(t, target.source)
    BY <1>4 DEF TraverseTo, ScanLimits
  <2>2. call.limits.edges \in Nat
    BY CallLimitsTyped DEF CallLimits, GraphLimits
  <2> DEFINE n == s.edges + 1
  <2>3. n \in Nat /\ n <= call.limits.edges
    BY <1>1, <1>4, <2>2
  <2> HIDE DEF n
  <2>4. t = [s EXCEPT !.edges = n]
    BY DEF n
  <2>5. ScanInLimits(t) /\ FoundAs(t, s) /\ t.queue = s.queue
    <3> HIDE DEF t
    <3>1. t \in ScanType
      BY <1>1, <2>3, <2>4 DEF ScanType
    <3>2. /\ t.edges = n /\ t.found = s.found /\ t.scheduled = s.scheduled /\ t.instructions = s.instructions
          /\ t.bytes = s.bytes /\ t.decoded = s.decoded /\ t.considered = s.considered /\ t.queue = s.queue
      BY <1>1, <2>4 DEF ScanType
    <3> QED BY <2>3, <3>1, <3>2 DEF ScanInLimits, FoundAs
  <2> HIDE DEF t
  <2>6. QueueLeads(t) /\ (target.source.component \in t.considered => Leads(target.source))
    BY <1>4, <2>5 DEF QueueLeads, FoundAs
  <2>7. QueueLeads(r) /\ FoundAs(r, t)
    BY <1>1, <2>1, <2>5, <2>6, ScheduleSourceLeads
  <2> QED BY <2>5, <2>7 DEF FoundAs
<1> QED BY <1>2, <1>3, <1>4

LEMMA TraverseLeads ==
    ASSUME CallTypeOK, NEW s, ScanInLimits(s), QueueLeads(s), NEW h \in Places, h \in ScopeCode,
           h.component \in InScope
    PROVE  LET i == InstructionAt(call.rom, call.p, h)
           IN  QueueLeads(Traverse(s, i)) /\ FoundAs(Traverse(s, i), s)
<1> DEFINE i == InstructionAt(call.rom, call.p, h)
           through == IF i.next.at < End(i.source) THEN Resolved(i.next) ELSE Unresolved("none")
           kinds == {"call", "unconditional-branch", "conditional-branch"}
<1>0. s.considered \subseteq InScope
  BY ConsideredIsSelected DEF ScanInLimits, ScanType
<1>1. i \in Instructions /\ i.target \in Targets /\ i.next \in Places /\ i.source = h
  BY ScopeIsClosed, InstructionTyped, InstructionIsHere DEF Instructions
<1>2. /\ /\ i.kind \in kinds /\ i.target.status = "resolved" /\ i.target.source.component \in InScope
         => Leads(i.target.source)
      /\ i.kind = "conditional-branch" /\ i.next.at < End(i.source) /\ i.next.component \in InScope => Leads(i.next)
  BY FlowLeads
<1> HIDE DEF i
<1>3. through \in Targets
  BY <1>1, SomewhereResolved, NothingResolved
<1>4. i.kind = "conditional-branch" /\ through.status = "resolved" /\ through.source.component \in InScope
        => Leads(through.source)
  BY <1>2 DEF Resolved, Unresolved
<1> HIDE DEF through
<1> DEFINE t == TraverseTo(s, i.target)
<1>5. i.kind \in kinds => QueueLeads(t) /\ FoundAs(t, s)
  BY <1>0, <1>1, <1>2, TraverseToLeads
<1>6. ScanInLimits(t)
  BY <1>1, TraverseToKeeps
<1> HIDE DEF t
<1>7. CASE i.kind \in {"call", "unconditional-branch"}
  BY <1>5, <1>7 DEF Traverse, t, i
<1>8. CASE i.kind = "conditional-branch"
  <2>1. Traverse(s, i) = TraverseTo(t, through)
    BY <1>8 DEF Traverse, through, t
  <2>2. t.considered \subseteq InScope
    BY <1>0, <1>5, <1>8 DEF FoundAs
  <2>3. QueueLeads(TraverseTo(t, through)) /\ FoundAs(TraverseTo(t, through), t)
    BY <1>3, <1>4, <1>5, <1>6, <1>8, <2>2, TraverseToLeads
  <2> QED BY <1>5, <1>8, <2>1, <2>3 DEF FoundAs, i
<1>9. CASE i.kind \notin {"call", "unconditional-branch", "conditional-branch"}
  <2>1. Traverse(s, i) = s
    BY <1>9 DEF Traverse
  <2> QED BY <2>1 DEF FoundAs, i
<1> QED BY <1>7, <1>8, <1>9

\* An enumeration leaves no element out.
LEMMA AllEnumerated ==
    ASSUME NEW S, IsFiniteSet(S)
    PROVE  S = {SetToSeq(S)[i] : i \in 1..Cardinality(S)}
<1> DEFINE n == Cardinality(S)
           f == SetToSeq(S)
<1>1. n \in Nat /\ ExistsBijection(1..n, S)
  BY FS_CardinalityType
<1>2. \E g \in [1..n -> S] : IsInjective(g)
  BY <1>1 DEF ExistsBijection, Bijection, Injection, IsInjective
<1>3. f \in [1..n -> S] /\ IsInjective(f)
  BY <1>2 DEF SetToSeq
<1>4. IsFiniteSet(1..n) /\ Cardinality(1..n) = n
  BY <1>1, FS_Interval
<1> HIDE DEF f, n
<1>5. f \in Injection(1..n, S)
  BY <1>3 DEF Injection, IsInjective
<1>6. f \in Surjection(1..n, S)
  BY <1>4, <1>5, FS_Injection DEF n
<1>7. \A x \in S : \E i \in 1..n : f[i] = x
  BY <1>6 DEF Surjection
<1> QED BY <1>3, <1>7 DEF f, n

\* The list tells of the references of the instructions that were decoded.
LEMMA CollectTells ==
    ASSUME CallTypeOK, NEW s \in ScanType, NEW i, NEW p \in Places, p \in CodeAt, i.source = p,
           NEW old \in SUBSET Places, old \subseteq CodeAt, IsListed(s.found),
           ToSet(s.found) \subseteq ReferencesIn(old), \A r \in ReferencesIn(old) : TellsOf(s.found, r)
    PROVE  LET t == Collect(s, i)
           IN  /\ IsListed(t.found) /\ ToSet(t.found) \subseteq ReferencesIn(old \cup {p})
               /\ \A r \in ReferencesIn(old \cup {p}) : TellsOf(t.found, r)
               /\ t.queue = s.queue /\ t.decoded = s.decoded /\ t.considered = s.considered
<1> DEFINE S == ReferencesTo(call.rom, call.p, p, call.target.at)
           new == SetToSeq(S)
           n == Cardinality(S)
           after == RetainAll(s.found, new)
           t == Collect(s, i)
           added == {new[j] : j \in 1..n}
<1>1. S \in SUBSET References /\ IsFiniteSet(S)
  BY ReferencesTyped
<1>2. ReferencesIn(old \cup {p}) = ReferencesIn(old) \cup S
  BY DEF ReferencesIn
<1>3. ReferencesIn(old) \in SUBSET References
  <2>1. \A q \in old : ReferencesTo(call.rom, call.p, q, call.target.at) \in SUBSET References
    BY ReferencesTyped
  <2> QED BY <2>1 DEF ReferencesIn
<1>4. t = [s EXCEPT !.found = after, !.matching = @ + Len(new)]
  BY DEF Collect, RetainAll
<1> HIDE DEF S
<1>5. n \in Nat /\ new \in [1..n -> S] /\ S = added
  BY <1>1, Enumerated, AllEnumerated
<1>6. new \in [1..n -> References]
  BY <1>1, <1>5
<1>7. t.found = after /\ t.queue = s.queue /\ t.decoded = s.decoded /\ t.considered = s.considered
  BY <1>4 DEF ScanType
<1> HIDE DEF new, n, t
<1>8. /\ IsListed(after) /\ ToSet(after) \subseteq ToSet(s.found) \cup added
      /\ \A q \in References : q \in added \/ TellsOf(s.found, q) => TellsOf(after, q)
  BY <1>5, <1>6, RetainAllTells
<1> HIDE DEF after, added
<1> QED BY <1>1, <1>2, <1>3, <1>5, <1>7, <1>8 DEF t

\* What a search knows of its queue, its block and what it has found, inductive with WithinLimits.
ScanFinds == scan = NoScan \/ (FindsFirst(scan) /\ ReadsReached(scan))

LEMMA FindsStay ==
    ASSUME UNCHANGED call, scan' = NoScan \/ (FindsFirst(scan') /\ ReadsReached(scan'))
    PROVE  ScanFinds'
<1>1. \A s : End(s)' = End(s) /\ Runs(s)' = Runs(s)
  BY DEF End, Runs
<1>2. Places' = Places /\ Everywhere' = Everywhere /\ References' = References
      /\ Selected' = Selected /\ InScope' = InScope /\ Entries' = Entries /\ Seeds' = Seeds
  BY DEF References, Places, Everywhere, Selected, InScope, Entries, Seeds
<1>3. ScopeCode' = ScopeCode
  BY <1>1, <1>2 DEF ScopeCode, Reach, CodeIn, Successors, End, Runs
<1>5. \A q : Leads(q)' = Leads(q)
  BY <1>1, <1>2, <1>3 DEF Leads
<1>6. \A S : ReferencesIn(S)' = ReferencesIn(S)
  BY DEF ReferencesIn
<1>7. \A f : IsListed(f)' = IsListed(f) /\ \A r : TellsOf(f, r)' = TellsOf(f, r)
  BY <1>2 DEF IsListed, TellsOf
<1>8. FindsFirst(scan') => FindsFirst(scan)'
  BY <1>3, <1>5, <1>6, <1>7 DEF FindsFirst, QueueLeads
<1>9. ReadsReached(scan') => ReadsReached(scan)'
  BY <1>1, <1>5 DEF ReadsReached, HereIn
<1> QED BY <1>8, <1>9 DEF ScanFinds, NoScan, NoSource, Source, Main, Nowhere

LEMMA ScanStartFinds ==
    ASSUME CallTypeOK
    PROVE  FindsFirst(ScanStart) /\ ReadsReached(ScanStart)
<1> DEFINE all == ImplicitSeed \o SeedSources(call.rom, call.p, call.seeds)
           A == {s \in ScanType : /\ ScanInLimits(s) /\ QueueLeads(s) /\ s.block = NoSource
                                  /\ s.found = <<>> /\ s.decoded = {}}
<1>1. all \in Seq(Places) /\ ImplicitSeed \in Seq(Places) /\ SeedSources(call.rom, call.p, call.seeds) \in Seq(Places)
  <2>1. ImplicitSeed \in Seq(Places)
    <3>1. call.rom.entry[call.p] \in Int /\ "arm" \in Modes
      BY ProgramsAssumption DEF CallTypeOK, Modes
    <3>2. ProgramEntry(call.rom, call.p).source \in Places
      BY <3>1, ResolveTyped DEF ProgramEntry, Targets
    <3> QED BY <3>2 DEF ImplicitSeed
  <2> QED BY <2>1, SeedSourcesTyped
<1>2. \A p \in ToSet(all) : p \in Places /\ p \in Entries \cup Seeds
  <2>1. \A j \in DOMAIN all : /\ all[j] \in Places
                              /\ \/ \E k \in DOMAIN ImplicitSeed : all[j] = ImplicitSeed[k]
                                 \/ all[j] \in Seeds
    <3> DEFINE x == ImplicitSeed
               y == SeedSources(call.rom, call.p, call.seeds)
    <3>1. x \in Seq(Places) /\ y \in Seq(Places)
      BY <1>1
    <3> HIDE DEF x, y
    <3>2. \A j \in DOMAIN (x \o y) : /\ (x \o y)[j] \in Places
                                     /\ \/ \E k \in DOMAIN x : (x \o y)[j] = x[k]
                                        \/ \E k \in DOMAIN y : (x \o y)[j] = y[k]
      <4> SUFFICES ASSUME NEW j \in DOMAIN (x \o y)
                   PROVE  /\ (x \o y)[j] \in Places
                          /\ \/ \E k \in DOMAIN x : (x \o y)[j] = x[k]
                             \/ \E k \in DOMAIN y : (x \o y)[j] = y[k]
        OBVIOUS
      <4>1. CASE j \in 1..Len(x)
        BY <3>1, <4>1
      <4>2. CASE j \notin 1..Len(x)
        <5>1. j - Len(x) \in DOMAIN y /\ (x \o y)[j] = y[j - Len(x)]
          BY <3>1, <4>2
        <5> QED BY <3>1, <5>1
      <4> QED BY <4>1, <4>2
    <3> QED BY <3>2 DEF x, y, Seeds, ToSet
  <2>2. \A k \in DOMAIN ImplicitSeed : ImplicitSeed[k] \in Entries
    <3>1. CASE Main \in Considered /\ ProgramEntry(call.rom, call.p).status = "resolved"
      <4>1. ImplicitSeed = <<ProgramEntry(call.rom, call.p).source>>
        BY <3>1 DEF ImplicitSeed
      <4>2. ProgramEntry(call.rom, call.p).source \in Entries
        BY <3>1, ConsideredIsSelected DEF Entries
      <4> QED BY <4>1, <4>2
    <3>2. CASE ~(Main \in Considered /\ ProgramEntry(call.rom, call.p).status = "resolved")
      BY <3>2 DEF ImplicitSeed
    <3> QED BY <3>1, <3>2
  <2> HIDE DEF all
  <2> QED BY <2>1, <2>2 DEF ToSet
<1> HIDE DEF all
<1>3. \A s \in A, p \in ToSet(all) : ScheduleSource(s, p) \in A
  <2> SUFFICES ASSUME NEW s \in A, NEW p \in ToSet(all) PROVE ScheduleSource(s, p) \in A
    OBVIOUS
  <2>1. p \in Places /\ (p.component \in s.considered => Leads(p))
    BY <1>2, RootsLead, ConsideredIsSelected DEF ScanType
  <2>2. ScanInLimits(ScheduleSource(s, p)) /\ StandsAs(ScheduleSource(s, p), s)
    BY <2>1, ScheduleSourceKeeps
  <2>3. QueueLeads(ScheduleSource(s, p)) /\ FoundAs(ScheduleSource(s, p), s)
    BY <2>1, ScheduleSourceLeads
  <2> QED BY <2>2, <2>3 DEF ScanInLimits, StandsAs, FoundAs
<1>4. EmptyScan \in A
  <2>1. EmptyScan.found = <<>> /\ EmptyScan.decoded = {} /\ EmptyScan.queue = <<>>
    BY DEF EmptyScan
  <2> QED BY <2>1, EmptyScanInLimits DEF ScanInLimits, QueueLeads
<1> HIDE DEF A
<1>5. ScanStart \in A
  BY <1>1, <1>3, <1>4, ScanStartIn DEF all
<1>6. /\ QueueLeads(ScanStart) /\ ScanStart.block = NoSource /\ ScanStart.found = <<>> /\ ScanStart.decoded = {}
  BY <1>5 DEF A
<1>7. IsListed(<<>>) /\ ToSet(<<>>) = {} /\ ReferencesIn({}) = {}
  BY CallLimitsTyped DEF IsListed, InOrder, ToSet, ReferencesIn, CallLimits
<1> QED BY <1>6, <1>7 DEF FindsFirst, ReadsReached

LEMMA ScanTakeBlockFinds ==
    ASSUME CallTypeOK, ScanOK, ScanFinds, ScanTakeBlock
    PROVE  FindsFirst(scan') /\ ReadsReached(scan')
<1>1. ScanInLimits(scan) /\ scan \in ScanType /\ FindsFirst(scan)
  BY ScanIsTyped DEF ScanTakeBlock, ScanRunning, ScanFinds, NoScan
<1> DEFINE s == Head(scan.queue)
           budget == call.limits.bytes - scan.bytes
           window == BytesToRead(s, budget)
<1>2. scan' = [scan EXCEPT !.queue = Tail(@), !.block = s, !.cursor = 0, !.window = window]
  BY DEF ScanTakeBlock, ScanLimits
<1>3. s \in Places /\ Leads(s) /\ \A j \in DOMAIN Tail(scan.queue) : Leads(Tail(scan.queue)[j])
  <2>1. scan.queue \in Seq(Places) /\ scan.queue # <<>> /\ \A j \in DOMAIN scan.queue : Leads(scan.queue[j])
    BY <1>1 DEF ScanTakeBlock, ScanType, FindsFirst, QueueLeads
  <2> DEFINE q == scan.queue
  <2> HIDE DEF q
  <2>2. q \in Seq(Places) /\ q # <<>> /\ \A j \in DOMAIN q : Leads(q[j])
    BY <2>1 DEF q
  <2>3. Head(q) = q[1] /\ 1 \in DOMAIN q /\ q[1] \in Places
    BY <2>2
  <2>4. \A j \in DOMAIN Tail(q) : j + 1 \in DOMAIN q /\ Tail(q)[j] = q[j + 1]
    BY <2>2
  <2> QED BY <2>2, <2>3, <2>4 DEF q
<1>4. budget > 0 /\ budget \in Nat
  <2>1. scan.bytes \in Nat /\ call.limits.bytes \in Nat /\ scan.bytes <= call.limits.bytes
    BY <1>1, CallLimitsTyped DEF CallLimits, GraphLimits, ScanInLimits, ScanType
  <2> QED BY <2>1 DEF ScanTakeBlock, ScanAtLimit, ScanLimits
<1>5. window \in Int /\ window <= End(s) - s.at
  <2>1. End(s) - s.at \in Int
    BY <1>3, EndTyped DEF Places
  <2> DEFINE room == End(s) - s.at
  <2>2. window = Min({budget, room})
    BY <1>4 DEF BytesToRead
  <2> HIDE DEF room, budget, window
  <2>3. room \in Int
    BY <2>1 DEF room
  <2>4. Min({budget, room}) \in Int /\ Min({budget, room}) <= room
    BY <1>4, <2>3 DEF Min
  <2> QED BY <2>2, <2>4 DEF room
<1> HIDE DEF s, window
<1>6. /\ scan'.queue = Tail(scan.queue) /\ scan'.block = s /\ scan'.cursor = 0 /\ scan'.window = window
      /\ scan'.found = scan.found /\ scan'.decoded = scan.decoded
  BY <1>1, <1>2 DEF ScanType
<1>7. FindsFirst(scan')
  BY <1>1, <1>3, <1>6 DEF FindsFirst, QueueLeads
<1>8. HereIn(scan') = s
  BY <1>3, <1>6 DEF HereIn, AtAddress, Places
<1>9. ReadsReached(scan')
  BY <1>3, <1>5, <1>6, <1>8 DEF ReadsReached
<1> QED BY <1>7, <1>9

LEMMA ScanGiveUpFinds ==
    ASSUME CallTypeOK, ScanOK, ScanFinds, ScanGiveUp
    PROVE  FindsFirst(scan') /\ ReadsReached(scan')
<1>1. ScanInLimits(scan) /\ scan \in ScanType /\ FindsFirst(scan)
  BY ScanIsTyped DEF ScanGiveUp, ScanRunning, ScanFinds, NoScan
<1>2. scan'.queue = <<>> /\ scan'.found = scan.found /\ scan'.decoded = scan.decoded /\ scan'.block = NoSource
  BY <1>1 DEF ScanGiveUp, ScanType
<1> QED BY <1>1, <1>2 DEF FindsFirst, QueueLeads, ReadsReached

LEMMA ScanStopBlockFinds ==
    ASSUME CallTypeOK, ScanOK, ScanFinds, ScanStopBlock
    PROVE  FindsFirst(scan') /\ ReadsReached(scan')
<1> DEFINE reason == IF scan.instructions >= call.limits.instructions THEN "instruction-limit" ELSE "byte-limit"
           ended == [scan EXCEPT !.block = NoSource]
           limited == Limited(Reason(ended, reason), scan.block.component)
<1>1. ScanInLimits(scan) /\ scan \in ScanType /\ FindsFirst(scan)
  BY ScanIsTyped DEF ScanStopBlock, ScanRunning, ScanFinds, NoScan
<1>2. ended \in ScanType /\ ended.block = NoSource /\ FoundAs(ended, scan) /\ ended.queue = scan.queue
  BY <1>1, NoSourceIsPlace DEF ScanType, FoundAs
<1>3. scan' = limited \/ scan' = ended
  BY DEF ScanStopBlock, ScanLimits
<1> HIDE DEF ended, reason
<1>4. FoundAs(limited, ended) /\ limited.queue = ended.queue /\ limited.block = ended.block
  <2>1. limited.block = ended.block
    BY <1>2 DEF Limited, Reason, ScanType
  <2> QED BY <1>2, <2>1, LimitedLeads
<1> HIDE DEF limited
<1>5. scan'.queue = scan.queue /\ scan'.found = scan.found /\ scan'.decoded = scan.decoded /\ scan'.block = NoSource
  BY <1>2, <1>3, <1>4 DEF FoundAs
<1> QED BY <1>1, <1>5 DEF FindsFirst, QueueLeads, ReadsReached

LEMMA ScanInstructionFinds ==
    ASSUME CallTypeOK, ScanOK, ScanFinds, ScanInstruction
    PROVE  FindsFirst(scan') /\ ReadsReached(scan')
<1> DEFINE h == ScanHere
           i == InstructionAt(call.rom, call.p, h)
           size == call.rom.code[h].size
           read == [scan EXCEPT !.instructions = @ + 1, !.bytes = @ + size, !.cursor = @ + size,
                                !.decoded = @ \cup {h}]
           collected == Collect(read, i)
           traversed == Traverse(collected, i)
<1>1. /\ ScanInLimits(scan) /\ ScanWindowInLimit(scan) /\ scan \in ScanType /\ scan.block # NoSource
      /\ scan.bytes \in Nat /\ scan.cursor \in Nat /\ scan.window \in Int /\ scan.instructions \in Nat
      /\ FindsFirst(scan) /\ ReadsReached(scan)
  BY ScanIsTyped DEF ScanInstruction, ScanRunning, ScanFinds, NoScan
<1>2. h \in Places /\ h = HereIn(scan) /\ h.component = scan.block.component /\ h.at = scan.block.at + scan.cursor
  <2>1. h \in Places
    BY <1>1, ScanHereIsPlace
  <2>2. scan.block \in Places
    BY <1>1 DEF ScanType
  <2> QED BY <2>1, <2>2 DEF ScanHere, HereIn, AtAddress, Places
<1>3. ~ScanAtLimit /\ h \in CodeAt /\ size <= scan.window - scan.cursor
  <2>1. ScanAtLimit \in BOOLEAN
    BY DEF ScanAtLimit
  <2> QED BY <2>1, ReadsOn DEF ScanInstruction, ScanStop
<1>4. size \in Nat
  BY <1>3, ProgramsAssumption DEF CallTypeOK, CodeAt
<1>5. End(h) = End(scan.block) /\ End(h) \in Int
  BY <1>2, EndTyped DEF End
<1>6. h \in ScopeCode /\ h.component \in InScope
  <2>1. Leads(h) /\ scan.window - scan.cursor <= End(h) - h.at
    BY <1>1, <1>2, <1>5 DEF ReadsReached
  <2>2. size <= End(h) - h.at
    BY <1>1, <1>2, <1>3, <1>4, <1>5, <2>1 DEF Places
  <2>3. Runs(h)
    BY <1>3, <2>2 DEF Runs, CanDecode, CodeAt
  <2> QED BY <2>1, <2>3 DEF Leads
<1>7. i.size = size /\ i.source = h /\ i \in Instructions
  BY <1>2, <1>3, InstructionIsHere, InstructionTyped
<1>8. i.next = AtAddress(h, h.at + size)
  BY DEF InstructionAt
<1>9. scan' = IF GoesOn(i) THEN traversed ELSE [traversed EXCEPT !.block = NoSource]
  <2> HIDE DEF size
  <2> QED BY <1>7 DEF ScanInstruction
<1>10. /\ read \in ScanType /\ ScanInLimits(read) /\ read.decoded = scan.decoded \cup {h}
       /\ read.queue = scan.queue /\ read.found = scan.found /\ read.window = scan.window /\ read.block = scan.block
       /\ read.cursor = scan.cursor + size /\ read.considered = scan.considered
  <2> DEFINE count == scan.instructions + 1
             bytes == scan.bytes + size
             cursor == scan.cursor + size
  <2>1. call.limits.instructions \in Nat /\ call.limits.bytes \in Nat
    BY CallLimitsTyped DEF CallLimits, GraphLimits
  <2> HIDE DEF size
  <2>2. count \in Nat /\ count <= call.limits.instructions /\ bytes \in Nat /\ cursor \in Nat
    BY <1>1, <1>3, <1>4, <2>1 DEF ScanAtLimit, ScanLimits
  <2>3. bytes <= call.limits.bytes
    <3>1. scan.bytes + (scan.window - scan.cursor) <= call.limits.bytes
      BY <1>1 DEF ScanWindowInLimit
    <3> QED BY <1>1, <1>3, <1>4, <2>1, <3>1
  <2>4. read = [scan EXCEPT !.instructions = count, !.bytes = bytes, !.cursor = cursor, !.decoded = @ \cup {h}]
    OBVIOUS
  <2> HIDE DEF read, count, bytes, cursor, h
  <2>5. read \in ScanType
    <3>1. scan.decoded \cup {h} \in SUBSET Places
      BY <1>1, <1>2 DEF ScanType
    <3> QED BY <1>1, <2>2, <2>4, <3>1 DEF ScanType
  <2>6. /\ read.instructions = count /\ read.bytes = bytes /\ read.cursor = cursor /\ read.window = scan.window
        /\ read.scheduled = scan.scheduled /\ read.edges = scan.edges /\ read.found = scan.found
        /\ read.decoded = scan.decoded \cup {h} /\ read.queue = scan.queue /\ read.block = scan.block
        /\ read.considered = scan.considered
    BY <1>1, <2>4 DEF ScanType
  <2>7. ScanInLimits(read)
    BY <1>1, <2>2, <2>3, <2>5, <2>6 DEF ScanInLimits
  <2> QED BY <2>5, <2>6, <2>7 DEF cursor
<1> HIDE DEF i, size, read, h
<1>11. ScanInLimits(collected) /\ StandsAs(collected, read)
  BY <1>2, <1>3, <1>7, <1>10, CollectKeeps
<1>12. scan.decoded \in SUBSET Places /\ scan.decoded \subseteq CodeAt
  BY <1>1, ScopeIsClosed DEF ScanType, FindsFirst
<1>13. /\ IsListed(collected.found) /\ ToSet(collected.found) \subseteq ReferencesIn(scan.decoded \cup {h})
       /\ \A r \in ReferencesIn(scan.decoded \cup {h}) : TellsOf(collected.found, r)
       /\ collected.queue = scan.queue /\ collected.decoded = scan.decoded \cup {h}
       /\ collected.considered = scan.considered
  <2>1. /\ IsListed(read.found) /\ ToSet(read.found) \subseteq ReferencesIn(scan.decoded)
        /\ \A r \in ReferencesIn(scan.decoded) : TellsOf(read.found, r)
    BY <1>1, <1>10 DEF FindsFirst
  <2>2. read \in ScanType /\ h \in Places /\ h \in CodeAt /\ i.source = h
    BY <1>2, <1>3, <1>7, <1>10
  <2> HIDE DEF ScanType
  <2>3. /\ IsListed(collected.found) /\ ToSet(collected.found) \subseteq ReferencesIn(scan.decoded \cup {h})
        /\ \A r \in ReferencesIn(scan.decoded \cup {h}) : TellsOf(collected.found, r)
        /\ collected.queue = read.queue /\ collected.decoded = read.decoded
        /\ collected.considered = read.considered
    BY <1>12, <2>1, <2>2, CollectTells
  <2> QED BY <1>10, <2>3
<1> HIDE DEF collected
<1>14. QueueLeads(collected)
  BY <1>1, <1>13 DEF FindsFirst, QueueLeads
<1>15. QueueLeads(traversed) /\ FoundAs(traversed, collected)
  BY <1>2, <1>6, <1>11, <1>14, TraverseLeads DEF i
<1>16. ScanInLimits(traversed) /\ StandsAs(traversed, collected) /\ traversed \in ScanType
  BY <1>7, <1>11, TraverseKeeps DEF ScanInLimits
<1> HIDE DEF traversed
<1>17. FindsFirst(traversed)
  BY <1>1, <1>6, <1>13, <1>15 DEF FindsFirst, FoundAs
<1>18. CASE GoesOn(i)
  <2>1. scan' = traversed
    BY <1>9, <1>18
  <2>2. traversed.block = scan.block /\ traversed.window = scan.window /\ traversed.cursor = scan.cursor + size
    BY <1>10, <1>11, <1>16 DEF StandsAs
  <2>3. HereIn(traversed) = i.next /\ i.next.at = h.at + size /\ i.next.component = h.component
    <3>1. scan.block \in Places
      BY <1>1 DEF ScanType
    <3>2. h = AtAddress(scan.block, scan.block.at + scan.cursor)
      BY <1>2 DEF HereIn
    <3>3. scan.block.at + (scan.cursor + size) = h.at + size
      BY <1>1, <1>2, <1>4, <3>1 DEF Places
    <3> QED BY <1>2, <1>8, <2>2, <3>1, <3>2, <3>3 DEF HereIn, AtAddress, Places
  <2>4. Leads(i.next)
    <3>1. i.kind \in {"fallthrough", "call", "indirect-call"} /\ i.next.at < End(i.source)
      BY <1>18 DEF GoesOn
    <3> QED BY <1>2, <1>6, <2>3, <3>1, FlowLeads DEF i
  <2>5. scan.window - scan.cursor <= End(scan.block) - h.at
    BY <1>1, <1>2 DEF ReadsReached
  <2>6. traversed.window - traversed.cursor <= End(traversed.block) - HereIn(traversed).at
    <3>1. h.at \in Int /\ End(scan.block) \in Int
      BY <1>2, <1>5 DEF Places
    <3> QED BY <1>1, <1>4, <2>2, <2>3, <2>5, <3>1
  <2> QED BY <1>17, <2>1, <2>3, <2>4, <2>6 DEF ReadsReached
<1>19. CASE ~GoesOn(i)
  <2>1. scan' = [traversed EXCEPT !.block = NoSource]
    BY <1>9, <1>19
  <2>2. /\ scan'.queue = traversed.queue /\ scan'.found = traversed.found /\ scan'.decoded = traversed.decoded
        /\ scan'.block = NoSource
    BY <1>16, <2>1 DEF ScanType
  <2> QED BY <1>17, <2>2 DEF FindsFirst, QueueLeads, ReadsReached
<1> QED BY <1>18, <1>19

-----------------------------------------------------------------------------
(* The references found *)

LEMMA ScanFindsNext ==
    ASSUME WithinLimits, ScanFinds, [Next]_vars
    PROVE  ScanFinds'
<1>1. CallTypeOK /\ ScanOK
  BY DEF WithinLimits
<1>2. ASSUME UNCHANGED <<call, scan>> PROVE ScanFinds'
  BY <1>2, FindsStay DEF ScanFinds
<1>3. CASE BeginScan
  <2>1. scan' = ScanStart /\ UNCHANGED call
    BY <1>3 DEF BeginScan
  <2> QED BY <1>1, <2>1, ScanStartFinds, FindsStay
<1>4. CASE ScanNext /\ UNCHANGED disc
  <2>1. ASSUME ScanTakeBlock \/ ScanGiveUp \/ ScanStopBlock \/ ScanInstruction PROVE ScanFinds'
    <3>1. UNCHANGED call
      BY <2>1 DEF ScanTakeBlock, ScanGiveUp, ScanStopBlock, ScanInstruction
    <3>2. FindsFirst(scan') /\ ReadsReached(scan')
      BY <1>1, <2>1, ScanTakeBlockFinds, ScanGiveUpFinds, ScanStopBlockFinds, ScanInstructionFinds
    <3> QED BY <3>1, <3>2, FindsStay
  <2>2. ASSUME AnswerReferences \/ AnswerUnproven \/ StartFunction \/ AnswerFunction PROVE ScanFinds'
    BY <1>2, <2>2 DEF AnswerReferences, AnswerUnproven, StartFunction, AnswerFunction
  <2> QED BY <1>4, <2>1, <2>2 DEF ScanNext
<1>5. ASSUME \/ BeginGraph \/ BeginDiscovery \/ Refuse \/ Return \/ UNCHANGED vars
             \/ FlowNext /\ UNCHANGED <<scan, disc>>
             \/ DiscoveryNext /\ UNCHANGED scan
      PROVE  UNCHANGED <<call, scan>>
  BY <1>5 DEF BeginGraph, BeginDiscovery, Refuse, Return, vars, FlowNext, TakeBlock, StopBlock, DecodeInstruction,
              AnswerGraph, DiscoveryNext, StartGraph, FailGraph, LeaveWork, SkipSeed, UseGraph, AnswerFunctions
<1> QED BY <1>2, <1>3, <1>4, <1>5 DEF Next

LEMMA ScanFindsSuffices ==
    ASSUME ScanFinds
    PROVE  FoundIsFirst
<1> SUFFICES ASSUME ScanIsDone PROVE FoundIsFirst
  BY DEF FoundIsFirst
<1>1. FindsFirst(scan)
  BY DEF ScanFinds, ScanIsDone, ScanRunning, NoScan
<1>2. ReferencesIn(scan.decoded) \subseteq ReferencesIn(ScopeCode) /\ ReferencesIn(ScopeCode) = ScopeReferences
  BY <1>1 DEF FindsFirst, ReferencesIn, ScopeReferences
<1>3. \A s \in scan.decoded : \A r \in ReferencesTo(call.rom, call.p, s, call.target.at) : TellsOf(scan.found, r)
  BY <1>1 DEF FindsFirst, ReferencesIn
<1> QED BY <1>1, <1>2, <1>3 DEF FoundIsFirst, FindsFirst, TellsOf, NotAfter

\* A finished search returns only references of code its entries and seeds reach in its components,
\* and of the code it decoded none it left out comes before one it returns (findNdsReferences).
THEOREM SearchFindsTheFirst == Spec => []FoundIsFirst
<1>1. Init => WithinLimits /\ ScanFinds
  BY WithinLimitsInit DEF Init, ScanFinds
<1>2. WithinLimits /\ ScanFinds /\ [Next]_vars => (WithinLimits /\ ScanFinds)'
  BY WithinLimitsNext, ScanFindsNext
<1>3. ScanFinds => FoundIsFirst
  BY ScanFindsSuffices
<1> QED BY <1>1, <1>2, <1>3, PTL DEF Spec

-----------------------------------------------------------------------------
(* The code of a graph                                                     *)
(*                                                                         *)
(* A graph reads only code its entry reaches (GraphFlows), and as long as  *)
(* it gives no reason for stopping it owes every place it has scheduled or *)
(* that its instructions lead to: such a place waits, is read next, is     *)
(* read already, or is no code (GraphCovers).  The decoder only sees the   *)
(* bytes left of the limit, so what it stops at without a reason is known  *)
(* to be no code while these hold an instruction of four bytes.            *)

\* The places a graph has still to read, and those it owes nothing more.
Pending(g, q) == q \in ToSet(g.queue) \/ (g.block # NoSource /\ q = HereIn(g))
Covered(g, q) == Pending(g, q) \/ (Runs(q) => q \in DecodedIn(g))
BytesToSpare(g) == g.reasons = {} /\ g.bytes + 4 <= g.limits.bytes

Body(g) == Reach({g.entry}, FALSE, Everywhere)
Flows(g, q) == Runs(q) => q \in Body(g)

\* What is left of the window is the rest of the component, or all that the limit still allows.
WindowIsRest(g) ==
    LET window == g.window - g.cursor
        rest == End(g.block) - HereIn(g).at
        budget == g.limits.bytes - g.bytes
    IN  budget > 0 => window <= rest /\ (window = rest \/ window = budget)

GraphFlows(g) ==
    /\ \A j \in DOMAIN g.queue : Flows(g, g.queue[j])
    /\ DecodedIn(g) \subseteq Body(g)
    /\ g.block # NoSource => Flows(g, HereIn(g)) /\ WindowIsRest(g)

GraphCovers(g) ==
    /\ g.entry \in g.scheduled
    /\ BytesToSpare(g) =>
        /\ \A s \in g.scheduled : Covered(g, s)
        /\ \A d \in DecodedIn(g) : \A t \in Successors(d, FALSE) : Covered(g, t)

\* An edge leads to a scheduled place, or the graph has the unresolved exit of its branch.
Tied(g, e) ==
    \/ e.to \in g.scheduled /\ e.to # NoSource
    \/ \E u \in g.unresolved : Accounts(u, e)
GraphIsTied(g) ==
    /\ g.scheduled \ {NoSource} \subseteq g.blocks \cup ToSet(g.queue) \cup {g.block}
    /\ g.reasons = {} => \A e \in g.edges : Tied(g, e)

GraphKnown(g) == GraphFlows(g) /\ GraphCovers(g) /\ GraphIsTied(g)
GraphFacts == graph = Idle \/ GraphKnown(graph)

LEMMA ReachIsClosed ==
    ASSUME CallTypeOK, NEW roots, NEW withCalls, NEW where
    PROVE  /\ Reach(roots, withCalls, where) \in SUBSET CodeAt
           /\ CodeIn(roots, where) \subseteq Reach(roots, withCalls, where)
           /\ \A s \in Reach(roots, withCalls, where) :
                  CodeIn(Successors(s, withCalls), where) \subseteq Reach(roots, withCalls, where)
<1> DEFINE next == [s \in CodeAt |-> CodeIn(Successors(s, withCalls), where)]
           start == CodeIn(roots, where)
<1>1. IsFiniteSet(CodeAt)
  BY ProgramsAssumption DEF CallTypeOK, CodeAt
<1>2. \A S : CodeIn(S, where) \in SUBSET CodeAt
  BY DEF CodeIn, Runs, CanDecode, CodeAt
<1>3. next \in [CodeAt -> SUBSET CodeAt] /\ start \in SUBSET CodeAt
  BY <1>2
<1>4. Reach(roots, withCalls, where) = ReachedFrom(next, start)
  BY DEF Reach, CodeAt
<1>5. \A s \in CodeAt : next[s] = CodeIn(Successors(s, withCalls), where)
  OBVIOUS
<1> HIDE DEF next, start
<1>6. /\ ReachedFrom(next, start) \in SUBSET CodeAt /\ start \subseteq ReachedFrom(next, start)
      /\ \A s \in ReachedFrom(next, start) : next[s] \subseteq ReachedFrom(next, start)
  BY <1>1, <1>3, ReachedIsClosed
<1> QED BY <1>4, <1>5, <1>6 DEF start

LEMMA ReachIsLeast ==
    ASSUME CallTypeOK, NEW roots, NEW withCalls, NEW where, NEW C, CodeIn(roots, where) \subseteq C,
           \A s \in C \cap CodeAt : CodeIn(Successors(s, withCalls), where) \subseteq C
    PROVE  Reach(roots, withCalls, where) \subseteq C
<1> DEFINE next == [s \in CodeAt |-> CodeIn(Successors(s, withCalls), where)]
           start == CodeIn(roots, where)
<1>1. IsFiniteSet(CodeAt)
  BY ProgramsAssumption DEF CallTypeOK, CodeAt
<1>2. \A S : CodeIn(S, where) \in SUBSET CodeAt
  BY DEF CodeIn, Runs, CanDecode, CodeAt
<1>3. next \in [CodeAt -> SUBSET CodeAt] /\ start \in SUBSET CodeAt
  BY <1>2
<1>4. Reach(roots, withCalls, where) = ReachedFrom(next, start)
  BY DEF Reach, CodeAt
<1>5. start \subseteq C /\ \A s \in C \cap CodeAt : next[s] \subseteq C
  OBVIOUS
<1> HIDE DEF next, start
<1>6. ReachedFrom(next, start) \subseteq C
  BY <1>1, <1>3, <1>5, ReachedIsLeast
<1> QED BY <1>4, <1>6

\* A place the reader stops at without a word, with four bytes to spare, is no code.
LEMMA SilentStop ==
    ASSUME CallTypeOK, NEW q \in Places, NEW window \in Int, NEW budget \in Int, budget >= 4,
           window <= End(q) - q.at, window = End(q) - q.at \/ window = budget,
           NEW atLimit \in BOOLEAN,
           StopReason(q, window, MinimumSize[q.mode], atLimit) \in {"component-boundary", "decode-stopped"}
    PROVE  ~Runs(q)
<1>1. q.at \in Int /\ End(q) \in Int /\ q.mode \in Modes
  BY EndTyped DEF Places
<1>2. MinimumSize[q.mode] \in {2, 4}
  BY <1>1 DEF MinimumSize, Modes
<1> SUFFICES ASSUME Runs(q) PROVE FALSE
  OBVIOUS
<1> DEFINE size == call.rom.code[q].size
           min == MinimumSize[q.mode]
<1>3. q \in CodeAt /\ size <= End(q) - q.at
  BY DEF Runs, CanDecode, CodeAt
<1>4. size \in {min, 4}
  BY <1>3, CodeAssumption DEF CallTypeOK, CodeAt
<1> HIDE DEF size, min
<1>5. size <= window
  BY <1>1, <1>2, <1>3, <1>4 DEF min
<1>6. ~(q.at >= End(q)) /\ ~(window < min)
  BY <1>1, <1>2, <1>3, <1>4, <1>5 DEF min
<1>7. CanDecode(call.rom, q, window)
  BY <1>3, <1>5 DEF CanDecode, CodeAt, size
<1>8. StopReason(q, window, min, atLimit) \in {"limit", "none"}
  BY <1>6, <1>7 DEF StopReason
<1> QED BY <1>8 DEF min

\* No instruction leads to where no code is.
LEMMA NowhereIsNoCode == ASSUME CallTypeOK PROVE ~Runs(NoSource)
BY CodeAssumption DEF CallTypeOK, Runs, CanDecode, NoSource, Source, Nowhere, Main

LEMMA LeadsSomewhere ==
    ASSUME CallTypeOK, NEW s \in Places, s \in CodeAt
    PROVE  LET i == InstructionAt(call.rom, call.p, s)
           IN  i.next # NoSource /\ (i.target.status = "resolved" => i.target.source # NoSource)
<1> DEFINE d == call.rom.code[s]
           i == InstructionAt(call.rom, call.p, s)
           kind == FlowKind(d)
           mode == TargetMode(s, d)
<1>1. s.at \in Nat /\ d.size \in Nat /\ d.immediate \in Int
  BY CodeAssumption, ProgramsAssumption DEF CallTypeOK, CodeAt
<1>2. i.next # NoSource
  <2>1. i.next = AtAddress(s, s.at + d.size)
    BY DEF InstructionAt
  <2>2. AtAddress(s, s.at + d.size).at = s.at + d.size
    BY DEF AtAddress, Places
  <2> HIDE DEF i, d
  <2> QED BY <1>1, <2>1, <2>2 DEF NoSource, Source, Nowhere
<1>3. ASSUME i.target.status = "resolved" PROVE i.target.source # NoSource
  <2>1. i.target = IF kind \in DirectKinds THEN ControlFlowTarget(call.rom, call.p, s, d.immediate, mode)
                   ELSE Unresolved("none")
    BY DEF InstructionAt
  <2>2. kind \in DirectKinds => d.immediate # Nowhere
    BY DEF FlowKind, DirectKinds
  <2> HIDE DEF i, d, kind, mode
  <2>3. kind \in DirectKinds /\ d.immediate # Nowhere
    BY <1>3, <2>1, <2>2 DEF Unresolved
  <2>4. i.target = ControlFlowTarget(call.rom, call.p, s, d.immediate, mode)
    BY <2>1, <2>3
  <2>5. i.target.source.at = d.immediate
    <3>1. ASSUME Resolve(call.rom, call.p, d.immediate, mode, AnyOwner).status = "resolved"
          PROVE  Resolve(call.rom, call.p, d.immediate, mode, AnyOwner).source.at = d.immediate
      BY <3>1 DEF Resolve, Resolved, Unresolved, Source
    <3> QED BY <1>3, <2>4, <3>1 DEF ControlFlowTarget, Resolved, Unresolved, Source
  <2> QED BY <2>3, <2>5 DEF NoSource, Source
<1> QED BY <1>2, <1>3

\* f is g with the targets T scheduled, or with the reason why one is not; its new edges are tied.
Grows(g, f, T) ==
    /\ f.entry = g.entry /\ f.blocks = g.blocks /\ f.block = g.block
    /\ ToSet(g.queue) \subseteq ToSet(f.queue) /\ ToSet(f.queue) \subseteq ToSet(g.queue) \cup T
    /\ g.scheduled \subseteq f.scheduled /\ f.scheduled \subseteq g.scheduled \cup ToSet(f.queue)
    /\ g.reasons \subseteq f.reasons /\ (f.reasons = {} => T \subseteq f.scheduled)
    /\ g.unresolved \subseteq f.unresolved
    /\ f.reasons = {} => \A e \in f.edges : e \in g.edges \/ Tied(f, e)

LEMMA GrowsChains ==
    ASSUME NEW g, NEW h, NEW f, NEW T, NEW U, Grows(g, h, T), Grows(h, f, U)
    PROVE  Grows(g, f, T \cup U)
<1>1. ASSUME f.reasons = {}, NEW e \in f.edges PROVE e \in g.edges \/ Tied(f, e)
  <2>1. h.reasons = {}
    BY <1>1 DEF Grows
  <2>2. e \in h.edges \/ Tied(f, e)
    BY <1>1 DEF Grows
  <2>3. e \in h.edges => e \in g.edges \/ Tied(h, e)
    BY <2>1 DEF Grows
  <2>4. Tied(h, e) => Tied(f, e)
    BY DEF Tied, Grows
  <2> QED BY <2>2, <2>3, <2>4
<1>2. f.reasons = {} => T \cup U \subseteq f.scheduled
  BY DEF Grows
<1> QED BY <1>1, <1>2 DEF Grows

LEMMA GrowsNot ==
    ASSUME NEW g, NEW f, f.entry = g.entry, f.blocks = g.blocks, f.block = g.block, f.queue = g.queue,
           f.scheduled = g.scheduled, f.edges = g.edges, g.reasons \subseteq f.reasons,
           g.unresolved \subseteq f.unresolved
    PROVE  Grows(g, f, {})
BY DEF Grows

LEMMA AppendedSet ==
    ASSUME NEW S, NEW q \in Seq(S), NEW x
    PROVE  ToSet(Append(q, x)) = ToSet(q) \cup {x}
<1>1. DOMAIN q = 1..Len(q) /\ DOMAIN Append(q, x) = 1..(Len(q) + 1) /\ Len(q) \in Nat
  BY LenProperties, AppendProperties
<1>2. \A i \in 1..Len(q) : Append(q, x)[i] = q[i]
  BY AppendProperties
<1>3. Append(q, x)[Len(q) + 1] = x
  BY AppendProperties
<1>4. 1..(Len(q) + 1) = 1..Len(q) \cup {Len(q) + 1}
  BY <1>1
<1> QED BY <1>1, <1>2, <1>3, <1>4 DEF ToSet

LEMMA ScheduleGrows ==
    ASSUME NEW g \in GraphType, NEW s \in Places
    PROVE  LET h == Schedule(g, s)
           IN  Grows(g, h, {s}) /\ h.edges = g.edges /\ h.unresolved = g.unresolved
<1>1. CASE s \in g.scheduled
  BY <1>1 DEF Schedule, Grows
<1>2. CASE s \notin g.scheduled /\ Cardinality(g.scheduled) >= g.limits.blocks
  <2>1. Schedule(g, s) = [g EXCEPT !.reasons = @ \cup {"block-limit"}]
    BY <1>2 DEF Schedule
  <2> QED BY <2>1 DEF Grows, GraphType
<1>3. CASE s \notin g.scheduled /\ ~(Cardinality(g.scheduled) >= g.limits.blocks)
  <2> DEFINE h == [g EXCEPT !.scheduled = @ \cup {s}, !.queue = Append(@, s)]
  <2>1. Schedule(g, s) = h
    BY <1>3 DEF Schedule
  <2>2. /\ h.scheduled = g.scheduled \cup {s} /\ h.queue = Append(g.queue, s)
        /\ h.block = g.block /\ h.entry = g.entry /\ h.edges = g.edges /\ h.blocks = g.blocks
        /\ h.reasons = g.reasons /\ h.unresolved = g.unresolved
    BY DEF GraphType
  <2>3. ToSet(h.queue) = ToSet(g.queue) \cup {s}
    BY <2>2, AppendedSet DEF GraphType
  <2> HIDE DEF h
  <2> QED BY <2>1, <2>2, <2>3 DEF Grows
<1> QED BY <1>1, <1>2, <1>3

Goal(target) == IF target.status = "resolved" THEN {target.source} ELSE {}

\* The edge of the branch at hand.
IsTargetHere(type, a, mode, target) ==
    LET i == InstructionAt(call.rom, call.p, Here)
    IN  type # "conditional-fallthrough" /\ i.immediate = a /\ i.targetMode = mode /\ i.target = target

LEMMA AddEdgeGrows ==
    ASSUME NEW g, GraphInLimits(g), NEW type \in EdgeTypes, NEW a \in Int, NEW mode \in Modes,
           NEW target \in Targets, target.status = "resolved" => target.source # NoSource,
           Here \in Places, AtAddress(g.block, Here.at) = Here,
           target.status = "resolved" \/ IsTargetHere(type, a, mode, target)
    PROVE  Grows(g, AddEdge(g, type, a, mode, target), Goal(target))
<1> DEFINE h == IF target.status = "resolved" THEN Schedule(g, target.source)
                ELSE [g EXCEPT !.unresolved = @ \cup {[from |-> g.block, at |-> Here.at, kind |-> target.status]}]
           to == IF target.source \in h.scheduled THEN target.source ELSE NoSource
           e == [from |-> g.block, type |-> type, at |-> a, mode |-> mode, to |-> to]
           f == [h EXCEPT !.edges = @ \cup {e}]
<1>1. target.source \in Places /\ g \in GraphType
  BY DEF Targets, GraphInLimits
<1>2. Grows(g, h, Goal(target)) /\ h.edges = g.edges /\ h \in GraphType
  <2>1. CASE target.status = "resolved"
    <3>1. h = Schedule(g, target.source) /\ Goal(target) = {target.source}
      BY <2>1 DEF Goal
    <3>2. GraphInLimits(h)
      BY <1>1, <3>1, ScheduleKeeps
    <3> HIDE DEF h
    <3> QED BY <1>1, <3>1, <3>2, ScheduleGrows DEF GraphInLimits
  <2>2. CASE target.status # "resolved"
    <3>1. h = [g EXCEPT !.unresolved = @ \cup {[from |-> g.block, at |-> Here.at, kind |-> target.status]}] /\ Goal(target) = {}
      BY <2>2 DEF Goal
    <3>2. target.status \in Statuses \cup FlowKinds /\ Here.at \in Int
      BY DEF Targets, Places
    <3>3. GraphInLimits(h)
      BY <3>1, <3>2, UnresolvedKeeps
    <3>4. /\ h.entry = g.entry /\ h.blocks = g.blocks /\ h.block = g.block /\ h.queue = g.queue
          /\ h.scheduled = g.scheduled /\ h.edges = g.edges /\ g.reasons = h.reasons
          /\ g.unresolved \subseteq h.unresolved
      BY <1>1, <3>1 DEF GraphType
    <3> HIDE DEF h
    <3> QED BY <3>1, <3>3, <3>4, GrowsNot DEF GraphInLimits
  <2> QED BY <2>1, <2>2
<1>3. CASE Cardinality(g.edges) >= g.limits.edges
  <2>1. AddEdge(g, type, a, mode, target) = [g EXCEPT !.reasons = @ \cup {"edge-limit"}]
    BY <1>3 DEF AddEdge
  <2> DEFINE k == [g EXCEPT !.reasons = @ \cup {"edge-limit"}]
  <2>2. /\ k.entry = g.entry /\ k.blocks = g.blocks /\ k.block = g.block /\ k.queue = g.queue
        /\ k.scheduled = g.scheduled /\ k.edges = g.edges /\ k.reasons = g.reasons \cup {"edge-limit"}
        /\ g.unresolved = k.unresolved
    BY <1>1 DEF GraphType
  <2> HIDE DEF k
  <2>3. Grows(g, k, Goal(target))
    BY <2>2 DEF Grows
  <2> QED BY <2>1, <2>3 DEF k
<1>4. CASE ~(Cardinality(g.edges) >= g.limits.edges)
  <2>1. AddEdge(g, type, a, mode, target) = f
    BY <1>4 DEF AddEdge
  <2>2. h.reasons = {} => Tied(h, e)
    <3>1. CASE target.status = "resolved"
      <4>1. h.reasons = {} => target.source \in h.scheduled
        BY <1>2, <3>1 DEF Grows, Goal
      <4> HIDE DEF h
      <4> QED BY <3>1, <4>1 DEF Tied
    <3>2. CASE target.status # "resolved"
      <4> DEFINE u == [from |-> g.block, at |-> Here.at, kind |-> target.status]
                 i == InstructionAt(call.rom, call.p, Here)
      <4>1. u \in h.unresolved
        BY <1>1, <3>2 DEF GraphType
      <4>2. e.from = g.block /\ e.type = type /\ e.at = a /\ e.mode = mode
        OBVIOUS
      <4>3. /\ type # "conditional-fallthrough" /\ i.immediate = a /\ i.targetMode = mode
            /\ i.target.status = target.status
        BY <3>2 DEF IsTargetHere
      <4>4. u.from = g.block /\ AtAddress(u.from, u.at) = Here /\ u.kind = target.status
        OBVIOUS
      <4> HIDE DEF h, e, u, i
      <4>5. Accounts(u, e)
        BY <4>2, <4>3, <4>4 DEF Accounts, i
      <4> QED BY <4>1, <4>5 DEF Tied
    <3> QED BY <3>1, <3>2
  <2> HIDE DEF h, e
  <2>3. /\ f.entry = h.entry /\ f.blocks = h.blocks /\ f.block = h.block /\ f.queue = h.queue
        /\ f.scheduled = h.scheduled /\ f.edges = h.edges \cup {e} /\ f.reasons = h.reasons
        /\ f.unresolved = h.unresolved
    BY <1>2 DEF GraphType
  <2> HIDE DEF f
  <2>4. Grows(h, f, {})
    BY <2>2, <2>3 DEF Grows, Tied
  <2>5. Goal(target) \cup {} = Goal(target)
    OBVIOUS
  <2> QED BY <1>2, <2>1, <2>4, <2>5, GrowsChains
<1> QED BY <1>3, <1>4

\* The places the graph schedules after an instruction; after any other it reads on.
Ways(i) ==
    (IF i.kind \in {"unconditional-branch", "conditional-branch"} THEN Goal(i.target) ELSE {})
    \cup (IF i.kind = "conditional-branch" /\ i.next.at < End(i.source) THEN {i.next} ELSE {})

LEMMA FollowGrows ==
    ASSUME NEW g, GraphInLimits(g), NEW i \in Instructions, i = InstructionAt(call.rom, call.p, Here),
           Here \in Places, AtAddress(g.block, Here.at) = Here,
           i.target.status = "resolved" => i.target.source # NoSource, i.next # NoSource
    PROVE  Grows(g, Follow(g, i), Ways(i))
<1> DEFINE exit(h) == [h EXCEPT !.unresolved = @ \cup {[from |-> h.block, at |-> i.source.at, kind |-> i.kind]}]
           record(h) == [h EXCEPT !.calls = Append(@, [block |-> h.block, site |-> i.source, target |-> i.target])]
<1>1. /\ i.kind \in FlowKinds /\ i.source \in Places /\ i.target \in Targets /\ i.immediate \in Int
      /\ i.targetMode \in Modes /\ i.next \in Places
  BY DEF Instructions
<1>2. ASSUME NEW h \in GraphType PROVE Grows(h, exit(h), {})
  BY GrowsNot DEF GraphType
<1>3. Grows(g, record(g), {}) /\ record(g) \in GraphType
  <2>1. GraphInLimits(record(g)) /\ g \in GraphType
    BY <1>1, CallKeeps DEF GraphInLimits
  <2>2. record(g).entry = g.entry /\ record(g).blocks = g.blocks /\ record(g).block = g.block
        /\ record(g).queue = g.queue /\ record(g).scheduled = g.scheduled /\ record(g).edges = g.edges
        /\ record(g).reasons = g.reasons /\ record(g).unresolved = g.unresolved
    BY <2>1 DEF GraphType
  <2> HIDE DEF record
  <2> QED BY <2>1, <2>2, GrowsNot DEF GraphInLimits
<1>4. ASSUME NEW type \in {"branch", "conditional-taken"}
      PROVE  GraphInLimits(Branch(g, i, type)) /\ Grows(g, Branch(g, i, type), Goal(i.target))
             /\ Branch(g, i, type).block = g.block
  <2>1. GraphInLimits(Branch(g, i, type)) /\ HasReadAs(Branch(g, i, type), g)
    BY <1>1, AddEdgeKeeps DEF Branch, EdgeTypes
  <2>2. IsTargetHere(type, i.immediate, i.targetMode, i.target)
    BY DEF IsTargetHere
  <2>3. Branch(g, i, type) = AddEdge(g, type, i.immediate, i.targetMode, i.target) /\ type \in EdgeTypes
    BY DEF Branch, EdgeTypes
  <2>4. Grows(g, Branch(g, i, type), Goal(i.target))
    BY <1>1, <2>2, <2>3, AddEdgeGrows
  <2> QED BY <2>1, <2>4 DEF HasReadAs
<1>5. ASSUME NEW h, GraphInLimits(h), h.block = g.block
      PROVE  Grows(h, FallThrough(h, i), IF i.next.at < End(i.source) THEN {i.next} ELSE {})
  <2>1. i.next.at \in Int /\ i.next.mode \in Modes /\ Resolved(i.next) \in Targets
    BY <1>1, SomewhereResolved DEF Places
  <2>2. "conditional-fallthrough" \in EdgeTypes
    BY DEF EdgeTypes
  <2>3. Resolved(i.next).status = "resolved" /\ Resolved(i.next).source = i.next /\ Goal(Resolved(i.next)) = {i.next}
    BY DEF Resolved, Goal
  <2>4. CASE i.next.at < End(i.source)
    <3>1. FallThrough(h, i) = AddEdge(h, "conditional-fallthrough", i.next.at, i.next.mode, Resolved(i.next))
      BY <2>4 DEF FallThrough
    <3> DEFINE t == Resolved(i.next)
    <3>2. AtAddress(h.block, Here.at) = Here /\ i.next # NoSource
      BY <1>5
    <3>3. t \in Targets /\ t.status = "resolved" /\ t.source # NoSource
      BY <2>1, <2>3, <3>2
    <3> HIDE DEF t
    <3>4. Grows(h, AddEdge(h, "conditional-fallthrough", i.next.at, i.next.mode, t), Goal(t))
      BY <1>5, <2>1, <2>2, <3>2, <3>3, AddEdgeGrows
    <3> QED BY <2>3, <2>4, <3>1, <3>4 DEF t
  <2>5. CASE ~(i.next.at < End(i.source))
    BY <2>5 DEF FallThrough, Grows
  <2> QED BY <2>4, <2>5
<1>6. g \in GraphType
  BY DEF GraphInLimits
<1>7. CASE i.kind = "fallthrough"
  <2>1. Follow(g, i) = g /\ Ways(i) = {}
    BY <1>7 DEF Follow, Ways
  <2> QED BY <2>1, GrowsNot
<1>8. CASE i.kind = "call"
  <2>1. Follow(g, i) = record(g) /\ Ways(i) = {}
    BY <1>8 DEF Follow, Ways
  <2> HIDE DEF record
  <2> QED BY <1>3, <2>1
<1>9. CASE i.kind = "indirect-call"
  <2>1. Follow(g, i) = exit(record(g)) /\ Ways(i) = {} /\ {} \cup {} = {}
    BY <1>9 DEF Follow, Ways
  <2> HIDE DEF exit, record
  <2>2. Grows(record(g), exit(record(g)), {})
    BY <1>2, <1>3
  <2>3. Grows(g, exit(record(g)), {} \cup {})
    BY <1>3, <2>2, GrowsChains
  <2> QED BY <2>1, <2>3
<1>10. CASE i.kind \in {"return", "indirect-branch"}
  <2>1. Follow(g, i) = exit(g) /\ Ways(i) = {}
    BY <1>10 DEF Follow, Ways
  <2> HIDE DEF exit
  <2> QED BY <1>2, <1>6, <2>1
<1>11. CASE i.kind = "unconditional-branch"
  <2>1. Follow(g, i) = Branch(g, i, "branch") /\ Ways(i) = Goal(i.target)
    BY <1>11 DEF Follow, Ways
  <2> QED BY <1>4, <2>1
<1>12. CASE i.kind = "conditional-branch"
  <2> DEFINE h == Branch(g, i, "conditional-taken")
             U == IF i.next.at < End(i.source) THEN {i.next} ELSE {}
  <2>1. Follow(g, i) = FallThrough(h, i) /\ Ways(i) = Goal(i.target) \cup U
    BY <1>12 DEF Follow, Ways
  <2>2. GraphInLimits(h) /\ Grows(g, h, Goal(i.target)) /\ h.block = g.block
    BY <1>4
  <2> HIDE DEF h
  <2>3. Grows(h, FallThrough(h, i), U)
    BY <1>5, <2>2
  <2> HIDE DEF U
  <2> QED BY <2>1, <2>2, <2>3, GrowsChains
<1> QED BY <1>1, <1>7, <1>8, <1>9, <1>10, <1>11, <1>12 DEF FlowKinds

LEMMA EmptyGraphKnown ==
    ASSUME CallTypeOK, NEW s \in Places, NEW limits \in [GraphLimits -> Positive]
    PROVE  GraphKnown(EmptyGraph(s, limits))
<1> DEFINE g == EmptyGraph(s, limits)
<1>1. /\ g.entry = s /\ g.queue = <<s>> /\ g.scheduled = {s} /\ g.block = NoSource /\ g.blocks = {}
      /\ g.instructions = {} /\ g.edges = {} /\ g.reasons = {} /\ g.unresolved = {}
  BY DEF EmptyGraph
<1> HIDE DEF g
<1>2. DecodedIn(g) = {}
  BY <1>1 DEF DecodedIn
<1>3. ToSet(g.queue) = {s} /\ \A j \in DOMAIN g.queue : g.queue[j] = s
  BY <1>1 DEF ToSet
<1>4. Runs(s) => s \in Body(g)
  <2>1. CodeIn({s}, Everywhere) \subseteq Body(g)
    BY <1>1, ReachIsClosed DEF Body
  <2> QED BY <2>1 DEF CodeIn, Places
<1>5. GraphFlows(g)
  BY <1>1, <1>2, <1>3, <1>4 DEF GraphFlows, Flows
<1>6. GraphCovers(g)
  BY <1>1, <1>2, <1>3 DEF GraphCovers, Covered, Pending
<1>7. GraphIsTied(g)
  BY <1>1, <1>3 DEF GraphIsTied
<1> QED BY <1>5, <1>6, <1>7 DEF GraphKnown, g

LEMMA HeadAndTail ==
    ASSUME NEW S, NEW q \in Seq(S), q # <<>>
    PROVE  /\ Head(q) \in S /\ Tail(q) \in Seq(S)
           /\ ToSet(q) = {Head(q)} \cup ToSet(Tail(q))
           /\ 1 \in DOMAIN q /\ Head(q) = q[1]
           /\ \A j \in DOMAIN Tail(q) : j + 1 \in DOMAIN q /\ Tail(q)[j] = q[j + 1]
<1>1. Len(q) \in Nat \ {0} /\ DOMAIN q = 1..Len(q) /\ Head(q) = q[1] /\ Tail(q) \in Seq(S) /\ Head(q) \in S
  BY HeadTailProperties, LenProperties, EmptySeq
<1>2. DOMAIN Tail(q) = 1..(Len(q) - 1) /\ \A j \in 1..(Len(q) - 1) : Tail(q)[j] = q[j + 1]
  BY HeadTailProperties, LenProperties
<1>3. ASSUME NEW k \in 2..Len(q) PROVE k - 1 \in 1..(Len(q) - 1) /\ Tail(q)[k - 1] = q[k]
  BY <1>1, <1>2
<1>4. 1..Len(q) = {1} \cup 2..Len(q)
  BY <1>1
<1>5. \A j \in DOMAIN Tail(q) : j + 1 \in DOMAIN q /\ Tail(q)[j] = q[j + 1]
  BY <1>1, <1>2
<1>6. ToSet(q) \subseteq {Head(q)} \cup ToSet(Tail(q))
  <2>1. \A i \in 1..Len(q) : q[i] \in {Head(q)} \cup ToSet(Tail(q))
    <3>1. \A j \in DOMAIN Tail(q) : Tail(q)[j] \in ToSet(Tail(q))
      BY DEF ToSet
    <3>2. \A k \in 2..Len(q) : q[k] \in ToSet(Tail(q))
      BY <1>2, <1>3, <3>1
    <3> QED BY <1>1, <1>4, <3>2
  <2> QED BY <1>1, <2>1 DEF ToSet
<1>7. {Head(q)} \cup ToSet(Tail(q)) \subseteq ToSet(q)
  BY <1>1, <1>5 DEF ToSet
<1> QED BY <1>1, <1>5, <1>6, <1>7

LEMMA WindowOfBlock ==
    ASSUME CallTypeOK, NEW s \in Places, NEW budget \in Nat, budget > 0
    PROVE  LET window == BytesToRead(s, budget)
               rest == End(s) - s.at
           IN  window \in Int /\ window <= rest /\ (window = rest \/ window = budget)
<1> DEFINE rest == End(s) - s.at
<1>1. rest \in Int
  BY EndTyped DEF Places
<1>2. BytesToRead(s, budget) = Min({budget, rest})
  BY DEF BytesToRead
<1> HIDE DEF rest
<1>3. (budget <= rest => Min({budget, rest}) = budget) /\ (rest <= budget => Min({budget, rest}) = rest)
  BY <1>1 DEF Min
<1> QED BY <1>1, <1>2, <1>3 DEF rest

LEMMA TakeBlockKnown ==
    ASSUME CallTypeOK, GraphOK, GraphKnown(graph), TakeBlock
    PROVE  GraphKnown(graph')
<1>1. GraphInLimits(graph) /\ graph \in GraphType
  BY DEF GraphOK, GraphInLimits, TakeBlock, Idle
<1> DEFINE q == graph.queue
           s == Head(q)
           budget == graph.limits.bytes - graph.bytes
           window == BytesToRead(s, budget)
           h == graph'
<1>2. h = [graph EXCEPT !.queue = Tail(@), !.block = s, !.cursor = 0, !.window = window]
  BY DEF TakeBlock
<1>3. /\ s \in Places /\ Tail(q) \in Seq(Places) /\ ToSet(q) = {s} \cup ToSet(Tail(q))
      /\ 1 \in DOMAIN q /\ s = q[1]
      /\ \A j \in DOMAIN Tail(q) : j + 1 \in DOMAIN q /\ Tail(q)[j] = q[j + 1]
  <2>1. q \in Seq(Places) /\ q # <<>>
    BY <1>1 DEF TakeBlock, GraphType
  <2> HIDE DEF q
  <2> QED BY <2>1, HeadAndTail
<1>4. budget \in Nat
  <2>1. graph.bytes \in Nat /\ graph.limits.bytes \in Nat /\ graph.bytes <= graph.limits.bytes
    BY <1>1, LimitsArePositive DEF GraphInLimits, GraphType
  <2> QED BY <2>1
<1>5. budget > 0 => LET rest == End(s) - s.at IN window \in Int /\ window <= rest /\ (window = rest \/ window = budget)
  BY <1>3, <1>4, WindowOfBlock
<1>6. graph.block = NoSource
  BY DEF TakeBlock
<1> HIDE DEF s, window
<1>7. /\ h.queue = Tail(q) /\ h.block = s /\ h.cursor = 0 /\ h.window = window
      /\ h.entry = graph.entry /\ h.scheduled = graph.scheduled /\ h.blocks = graph.blocks /\ h.limits = graph.limits
      /\ h.instructions = graph.instructions /\ h.edges = graph.edges /\ h.reasons = graph.reasons
      /\ h.unresolved = graph.unresolved /\ h.bytes = graph.bytes
  BY <1>1, <1>2 DEF GraphType
<1> HIDE DEF h
<1>8. HereIn(h) = s
  BY <1>3, <1>7 DEF HereIn, AtAddress, Places
<1>9. DecodedIn(h) = DecodedIn(graph) /\ Body(h) = Body(graph)
  BY <1>7 DEF DecodedIn, Body
<1>10. GraphFlows(h)
  <2>1. \A j \in DOMAIN q : Flows(graph, q[j])
    BY DEF GraphKnown, GraphFlows
  <2>2. \A x : Flows(h, x) <=> Flows(graph, x)
    BY <1>9 DEF Flows
  <2>3. Flows(h, s) /\ \A j \in DOMAIN h.queue : Flows(h, h.queue[j])
    BY <1>3, <1>7, <2>1, <2>2
  <2>4. h.block # NoSource => WindowIsRest(h)
    <3>1. h.window - h.cursor = window \/ window \notin Int
      BY <1>7
    <3> QED BY <1>3, <1>5, <1>7, <1>8, <3>1 DEF WindowIsRest
  <2>5. DecodedIn(graph) \subseteq Body(graph)
    BY DEF GraphKnown, GraphFlows
  <2> HIDE DEF q
  <2> QED BY <1>8, <1>9, <2>3, <2>4, <2>5 DEF GraphFlows
<1>11. GraphCovers(h)
  <2>1. ASSUME NEW x, Covered(graph, x) PROVE Covered(h, x)
    <3>1. CASE x \in ToSet(graph.queue)
      <4>1. CASE x = s
        <5>1. CASE s = NoSource
          BY <4>1, <5>1, NowhereIsNoCode DEF Covered
        <5>2. CASE s # NoSource
          BY <1>7, <1>8, <4>1, <5>2 DEF Covered, Pending
        <5> QED BY <5>1, <5>2
      <4>2. CASE x # s
        BY <1>3, <1>7, <3>1, <4>2 DEF Covered, Pending
      <4> QED BY <4>1, <4>2
    <3>2. CASE Runs(x) => x \in DecodedIn(graph)
      BY <1>9, <3>2 DEF Covered
    <3> QED BY <1>6, <2>1, <3>1, <3>2 DEF Covered, Pending
  <2>2. BytesToSpare(h) => BytesToSpare(graph)
    BY <1>7 DEF BytesToSpare
  <2> QED BY <1>7, <1>9, <2>1, <2>2 DEF GraphKnown, GraphCovers
<1>12. GraphIsTied(h)
  <2>1. h.scheduled \ {NoSource} \subseteq h.blocks \cup ToSet(h.queue) \cup {h.block}
    BY <1>3, <1>6, <1>7 DEF GraphKnown, GraphIsTied
  <2>2. \A e : Tied(graph, e) => Tied(h, e)
    BY <1>7 DEF Tied
  <2> QED BY <1>7, <2>1, <2>2 DEF GraphKnown, GraphIsTied
<1> QED BY <1>10, <1>11, <1>12 DEF GraphKnown, h

\* A block is closed before a place that is no code, or for a reason.
LEMMA CloseBlockKnown ==
    ASSUME CallTypeOK, NEW g \in GraphType, GraphKnown(g), g.block # NoSource,
           BytesToSpare(g) => (Runs(HereIn(g)) => HereIn(g) \in DecodedIn(g))
    PROVE  GraphKnown(CloseBlock(g))
<1> DEFINE h == CloseBlock(g)
<1>1. /\ h.queue = g.queue /\ h.block = NoSource /\ h.bytes = g.bytes
      /\ h.entry = g.entry /\ h.scheduled = g.scheduled /\ h.blocks = g.blocks \cup {g.block} /\ h.limits = g.limits
      /\ h.instructions = g.instructions /\ h.edges = g.edges /\ h.reasons = g.reasons /\ h.unresolved = g.unresolved
  BY DEF CloseBlock, GraphType
<1> HIDE DEF h
<1>2. DecodedIn(h) = DecodedIn(g) /\ Body(h) = Body(g)
  BY <1>1 DEF DecodedIn, Body
<1>3. GraphFlows(h)
  <2>1. \A x : Flows(h, x) <=> Flows(g, x)
    BY <1>2 DEF Flows
  <2> QED BY <1>1, <1>2, <2>1 DEF GraphKnown, GraphFlows
<1>4. GraphCovers(h)
  <2>1. ASSUME NEW x, Covered(g, x), BytesToSpare(g) PROVE Covered(h, x)
    BY <1>1, <1>2, <2>1 DEF Covered, Pending
  <2>2. BytesToSpare(h) => BytesToSpare(g)
    BY <1>1 DEF BytesToSpare
  <2> QED BY <1>1, <1>2, <2>1, <2>2 DEF GraphKnown, GraphCovers
<1>5. GraphIsTied(h)
  <2>1. h.scheduled \ {NoSource} \subseteq h.blocks \cup ToSet(h.queue) \cup {h.block}
    BY <1>1 DEF GraphKnown, GraphIsTied
  <2>2. \A e : Tied(g, e) => Tied(h, e)
    BY <1>1 DEF Tied
  <2> QED BY <1>1, <2>1, <2>2 DEF GraphKnown, GraphIsTied
<1> QED BY <1>3, <1>4, <1>5 DEF GraphKnown, h

LEMMA StopBlockKnown ==
    ASSUME CallTypeOK, GraphOK, GraphKnown(graph), StopBlock
    PROVE  GraphKnown(graph')
<1>1. GraphInLimits(graph) /\ graph \in GraphType /\ graph.block # NoSource
  BY DEF GraphOK, GraphInLimits, StopBlock, InBlock, Idle
<1> DEFINE R == IF Stop # "limit" THEN {} ELSE IF LimitsReached(graph) # {} THEN LimitsReached(graph) ELSE {"byte-limit"}
           g == [graph EXCEPT !.reasons = @ \cup R]
<1>2. R \in SUBSET GraphReasons /\ (R = {} => Stop # "limit")
  BY DEF LimitsReached, GraphReasons
<1>3. graph' = CloseBlock(g)
  BY DEF StopBlock
<1> HIDE DEF R
<1>4. /\ g.queue = graph.queue /\ g.block = graph.block /\ g.bytes = graph.bytes /\ g.cursor = graph.cursor
      /\ g.window = graph.window
      /\ g.entry = graph.entry /\ g.scheduled = graph.scheduled /\ g.blocks = graph.blocks /\ g.limits = graph.limits
      /\ g.instructions = graph.instructions /\ g.edges = graph.edges /\ g.reasons = graph.reasons \cup R
      /\ g.unresolved = graph.unresolved
  BY <1>1 DEF GraphType
<1>5. g \in GraphType
  BY <1>1, <1>2 DEF GraphType
<1> HIDE DEF g
<1>6. DecodedIn(g) = DecodedIn(graph) /\ Body(g) = Body(graph) /\ HereIn(g) = HereIn(graph) /\ HereIn(graph) = Here
  BY <1>4 DEF DecodedIn, Body, HereIn, Here
<1>7. GraphKnown(g)
  <2>1. \A x : (Flows(g, x) <=> Flows(graph, x)) /\ (Covered(g, x) <=> Covered(graph, x)) /\ (Tied(g, x) <=> Tied(graph, x))
    BY <1>4, <1>6 DEF Flows, Covered, Pending, Tied
  <2>2. BytesToSpare(g) => BytesToSpare(graph)
    BY <1>4 DEF BytesToSpare
  <2>3. WindowIsRest(g) <=> WindowIsRest(graph)
    BY <1>4, <1>6 DEF WindowIsRest
  <2>4. GraphFlows(g)
    BY <1>4, <1>6, <2>1, <2>3 DEF GraphKnown, GraphFlows
  <2>5. GraphCovers(g)
    BY <1>4, <1>6, <2>1, <2>2 DEF GraphKnown, GraphCovers
  <2>6. GraphIsTied(g)
    BY <1>4, <2>1 DEF GraphKnown, GraphIsTied
  <2> QED BY <2>4, <2>5, <2>6 DEF GraphKnown
<1>8. ASSUME BytesToSpare(g) PROVE ~Runs(HereIn(g))
  <2> DEFINE window == graph.window - graph.cursor
             budget == graph.limits.bytes - graph.bytes
  <2>1. R = {} /\ graph.bytes + 4 <= graph.limits.bytes
    BY <1>4, <1>8 DEF BytesToSpare
  <2>2. window \in Int /\ budget \in Int /\ budget >= 4
    <3>1. /\ graph.window \in Int /\ graph.cursor \in Nat /\ graph.bytes \in Nat
          /\ graph.limits.bytes \in Nat
      BY <1>1, LimitsArePositive DEF GraphType
    <3> QED BY <2>1, <3>1
  <2>3. Here \in Places /\ Here.mode = graph.block.mode /\ End(Here) = End(graph.block)
    <3>1. Here \in Places
      BY <1>1, HereIsPlace
    <3>2. graph.block \in Places
      BY <1>1 DEF GraphType
    <3> QED BY <3>1, <3>2 DEF Here, AtAddress, Places, End
  <2>4. WindowIsRest(graph)
    BY <1>1 DEF GraphKnown, GraphFlows
  <2>5. window <= End(Here) - Here.at /\ (window = End(Here) - Here.at \/ window = budget)
    BY <1>6, <2>2, <2>3, <2>4 DEF WindowIsRest
  <2>6. Stop \in {"component-boundary", "decode-stopped"}
    <3>1. Stop # "limit" /\ Stop # "none"
      BY <1>2, <2>1 DEF StopBlock
    <3> QED BY <3>1 DEF Stop, StopReason
  <2>7. (LimitsReached(graph) # {}) \in BOOLEAN
    OBVIOUS
  <2>8. Stop = StopReason(Here, window, MinimumSize[Here.mode], LimitsReached(graph) # {})
    BY <2>3 DEF Stop
  <2> HIDE DEF window, budget
  <2>9. ~Runs(Here)
    BY <2>2, <2>3, <2>5, <2>6, <2>7, <2>8, SilentStop
  <2> QED BY <1>6, <2>9
<1> QED BY <1>1, <1>3, <1>4, <1>5, <1>7, <1>8, CloseBlockKnown

\* Where the graph goes on to after an instruction is where its control goes.
LEMMA SuccessorsAre ==
    ASSUME CallTypeOK, NEW s \in Places, s \in CodeAt
    PROVE  LET i == InstructionAt(call.rom, call.p, s)
           IN  /\ Ways(i) \subseteq Successors(s, FALSE)
               /\ GoesOn(i) => i.next \in Successors(s, FALSE)
               /\ Successors(s, FALSE) \subseteq Ways(i) \cup (IF GoesOn(i) THEN {i.next} ELSE {})
<1> DEFINE i == InstructionAt(call.rom, call.p, s)
           falls == i.kind \in {"fallthrough", "call", "indirect-call", "conditional-branch"}
           jumps == i.kind \in {"conditional-branch", "unconditional-branch"}
<1>1. i \in Instructions /\ i.source = s
  BY InstructionTyped, InstructionIsHere
<1>2. i.next.component = s.component
  BY DEF InstructionAt, AtAddress, Places
<1>3. End(i.next) = End(s) /\ End(i.source) = End(s)
  BY <1>1, <1>2 DEF End
<1>4. Successors(s, FALSE) = {t \in {i.next} : falls /\ t.at < End(t)}
                             \cup {t \in {i.target.source} : jumps /\ i.target.status = "resolved"}
  <2> HIDE DEF i
  <2> QED BY DEF Successors, i
<1> HIDE DEF i
<1> QED BY <1>3, <1>4 DEF Ways, GoesOn, Goal, i

LEMMA DecodeKnown ==
    ASSUME CallTypeOK, GraphOK, GraphKnown(graph), DecodeInstruction
    PROVE  GraphKnown(graph')
<1>1. GraphInLimits(graph) /\ WindowInLimit(graph) /\ graph.block # NoSource /\ graph \in GraphType
  BY DEF GraphOK, DecodeInstruction, InBlock, Idle, GraphInLimits
<1> DEFINE i == InstructionAt(call.rom, call.p, Here)
           size == call.rom.code[Here].size
           read == [graph EXCEPT !.instructions = @ \cup {<<graph.block, Here.at>>}, !.bytes = @ + size,
                                 !.cursor = @ + size]
           f == Follow(read, i)
           c == graph'
<1>2. i.size = size /\ i.source = Here
  BY InstructionIsHere
<1>3. c = IF GoesOn(i) THEN f ELSE CloseBlock(f)
  <2> HIDE DEF size
  <2> QED BY <1>2 DEF DecodeInstruction
<1>4. GraphInLimits(read) /\ Here \in CodeAt /\ read.block = graph.block /\ read.limits = graph.limits
  BY <1>1, ReadKeeps DEF DecodeInstruction
<1>5. i \in Instructions /\ Here \in Places
  BY <1>1, <1>4, HereIsPlace, InstructionTyped
<1>6. i.next # NoSource /\ (i.target.status = "resolved" => i.target.source # NoSource)
  BY <1>4, <1>5, LeadsSomewhere
<1>7. i.next = AtAddress(Here, Here.at + size)
  BY DEF InstructionAt
<1>8. size \in Nat /\ size <= graph.window - graph.cursor /\ LimitsReached(graph) = {}
  <2>1. (LimitsReached(graph) # {}) \in BOOLEAN
    OBVIOUS
  <2>2. LimitsReached(graph) = {} /\ size <= graph.window - graph.cursor
    BY <2>1, ReadsOn DEF Stop, DecodeInstruction
  <2>3. size \in Nat
    BY <1>4, ProgramsAssumption DEF CallTypeOK, CodeAt
  <2> QED BY <2>2, <2>3
<1>9. /\ Here.component = graph.block.component /\ Here.at = graph.block.at + graph.cursor
      /\ Here.mode = graph.block.mode /\ End(Here) = End(graph.block) /\ HereIn(graph) = Here
      /\ AtAddress(graph.block, Here.at) = Here
      /\ AtAddress(graph.block, graph.block.at + (graph.cursor + size)) = i.next /\ i.next.at = Here.at + size
  <2>1. graph.block \in Places /\ graph.cursor \in Nat
    BY <1>1 DEF GraphType
  <2>2. graph.block.at + (graph.cursor + size) = (graph.block.at + graph.cursor) + size
    BY <1>8, <2>1 DEF Places
  <2> HIDE DEF size, i
  <2> QED BY <1>7, <2>1, <2>2 DEF Here, HereIn, AtAddress, Places, End
<1>30. i = InstructionAt(call.rom, call.p, Here)
  OBVIOUS
<1> HIDE DEF i, size
<1>10. /\ read.instructions = graph.instructions \cup {<<graph.block, Here.at>>} /\ read.bytes = graph.bytes + size
       /\ read.cursor = graph.cursor + size /\ read.window = graph.window /\ read.queue = graph.queue
       /\ read.scheduled = graph.scheduled /\ read.blocks = graph.blocks /\ read.edges = graph.edges
       /\ read.reasons = graph.reasons /\ read.unresolved = graph.unresolved /\ read.entry = graph.entry
  BY <1>1 DEF GraphType
<1> HIDE DEF read
<1>11. GraphInLimits(f) /\ HasReadAs(f, read) /\ Grows(read, f, Ways(i))
  BY <1>4, <1>5, <1>6, <1>9, <1>30, FollowKeeps, FollowGrows
<1> HIDE DEF f
<1>12. /\ c.queue = f.queue /\ c.scheduled = f.scheduled /\ c.edges = f.edges /\ c.reasons = f.reasons
       /\ c.unresolved = f.unresolved /\ c.entry = f.entry /\ c.bytes = f.bytes /\ c.limits = f.limits
       /\ c.instructions = f.instructions
       /\ c.block = (IF GoesOn(i) THEN f.block ELSE NoSource) /\ f.blocks \subseteq c.blocks
       /\ f.block \in c.blocks \cup {c.block}
       /\ GoesOn(i) => c.cursor = f.cursor /\ c.window = f.window
  <2>1. f \in GraphType
    BY <1>11 DEF GraphInLimits
  <2>2. CASE GoesOn(i)
    <3>1. c = f
      BY <1>3, <2>2
    <3> QED BY <2>2, <3>1
  <2>3. CASE ~GoesOn(i)
    <3>1. c = [f EXCEPT !.blocks = @ \cup {f.block}, !.block = NoSource]
      BY <1>3, <2>3 DEF CloseBlock
    <3> HIDE DEF c
    <3>2. /\ c.queue = f.queue /\ c.scheduled = f.scheduled /\ c.edges = f.edges /\ c.reasons = f.reasons
          /\ c.unresolved = f.unresolved /\ c.entry = f.entry /\ c.bytes = f.bytes /\ c.limits = f.limits
          /\ c.instructions = f.instructions /\ c.block = NoSource /\ c.blocks = f.blocks \cup {f.block}
      BY <2>1, <3>1 DEF GraphType
    <3> QED BY <2>3, <3>2
  <2> QED BY <2>2, <2>3
<1> HIDE DEF c
<1>13. /\ c.entry = graph.entry /\ c.limits = graph.limits /\ c.bytes = graph.bytes + size
       /\ c.instructions = graph.instructions \cup {<<graph.block, Here.at>>}
       /\ graph.blocks \subseteq c.blocks /\ graph.block \in c.blocks \cup {c.block}
       /\ c.block = (IF GoesOn(i) THEN graph.block ELSE NoSource)
       /\ GoesOn(i) => c.cursor = graph.cursor + size /\ c.window = graph.window
  <2>1. /\ f.entry = read.entry /\ f.blocks = read.blocks /\ f.block = read.block
    BY <1>11 DEF Grows
  <2>2. /\ f.limits = read.limits /\ f.cursor = read.cursor /\ f.window = read.window
        /\ f.bytes = read.bytes /\ f.instructions = read.instructions
    BY <1>11 DEF HasReadAs
  <2> QED BY <1>4, <1>10, <1>12, <2>1, <2>2
<1>14. DecodedIn(c) = DecodedIn(graph) \cup {Here} /\ Body(c) = Body(graph)
  <2> DEFINE y == <<graph.block, Here.at>>
  <2>1. AtAddress(y[1], y[2]) = Here
    BY <1>9
  <2> HIDE DEF y
  <2>2. c.instructions = graph.instructions \cup {y}
    BY <1>13 DEF y
  <2>3. DecodedIn(c) = DecodedIn(graph) \cup {Here}
    BY <2>1, <2>2 DEF DecodedIn
  <2> QED BY <1>13, <2>3 DEF Body
<1>15. GoesOn(i) => HereIn(c) = i.next
  BY <1>9, <1>13 DEF HereIn
<1>16. /\ ToSet(graph.queue) \subseteq ToSet(c.queue) /\ ToSet(c.queue) \subseteq ToSet(graph.queue) \cup Ways(i)
       /\ graph.scheduled \subseteq c.scheduled /\ c.scheduled \subseteq graph.scheduled \cup ToSet(c.queue)
       /\ graph.reasons \subseteq c.reasons /\ (c.reasons = {} => Ways(i) \subseteq c.scheduled)
       /\ graph.unresolved \subseteq c.unresolved
  BY <1>10, <1>11, <1>12 DEF Grows
<1>17. c.reasons = {} => \A e \in c.edges : e \in graph.edges \/ Tied(c, e)
  <2>1. \A e : Tied(f, e) => Tied(c, e)
    BY <1>12 DEF Tied
  <2> QED BY <1>10, <1>11, <1>12, <2>1 DEF Grows
<1>18. /\ Ways(i) \subseteq Successors(Here, FALSE) /\ (GoesOn(i) => i.next \in Successors(Here, FALSE))
       /\ Successors(Here, FALSE) \subseteq Ways(i) \cup (IF GoesOn(i) THEN {i.next} ELSE {})
  BY <1>4, <1>5, SuccessorsAre DEF i
<1>19. /\ graph.window \in Int /\ graph.cursor \in Nat /\ graph.bytes \in Nat /\ graph.limits.bytes \in Nat
       /\ graph.bytes < graph.limits.bytes
  <2>1. graph.window \in Int /\ graph.cursor \in Nat /\ graph.bytes \in Nat /\ graph.limits.bytes \in Nat
    BY <1>1, LimitsArePositive DEF GraphType
  <2> QED BY <1>8, <2>1 DEF LimitsReached
<1>20. End(Here) \in Int /\ Here.at \in Int
  BY <1>5, EndTyped DEF Places
<1>21. WindowIsRest(graph) /\ Flows(graph, Here)
  BY <1>1, <1>9 DEF GraphKnown, GraphFlows
<1>22. LET window == graph.window - graph.cursor
           rest == End(Here) - Here.at
       IN  window <= rest /\ (window = rest \/ window = graph.limits.bytes - graph.bytes)
  BY <1>9, <1>19, <1>21 DEF WindowIsRest
<1>23. Runs(Here)
  <2>1. size <= End(Here) - Here.at
    BY <1>8, <1>19, <1>20, <1>22
  <2> QED BY <1>4, <2>1 DEF Runs, CanDecode, CodeAt, size
<1>24. Here \in Body(graph)
  BY <1>21, <1>23 DEF Flows
<1>25. \A t \in Successors(Here, FALSE) \cap Places : Flows(c, t)
  <2>1. CodeIn(Successors(Here, FALSE), Everywhere) \subseteq Body(graph)
    BY <1>24, ReachIsClosed DEF Body
  <2> QED BY <1>14, <2>1 DEF CodeIn, Flows, Places
<1>26. Ways(i) \subseteq Places /\ i.next \in Places
  BY <1>5 DEF Ways, Goal, Instructions, Targets
<1>27. GraphFlows(c)
  <2>1. \A x \in ToSet(graph.queue) : Flows(c, x)
    BY <1>14 DEF GraphKnown, GraphFlows, Flows, ToSet
  <2>2. \A x \in ToSet(c.queue) : Flows(c, x)
    BY <1>16, <1>18, <1>25, <1>26, <2>1
  <2>3. \A j \in DOMAIN c.queue : Flows(c, c.queue[j])
    BY <2>2 DEF ToSet
  <2>4. ASSUME c.block # NoSource PROVE Flows(c, HereIn(c)) /\ WindowIsRest(c)
    <3>1. GoesOn(i) /\ c.block = graph.block
      BY <1>13, <2>4
    <3>2. Flows(c, HereIn(c))
      BY <1>15, <1>18, <1>25, <1>26, <3>1
    <3>3. /\ c.window = graph.window /\ c.cursor = graph.cursor + size /\ HereIn(c).at = Here.at + size
          /\ End(c.block) = End(Here)
      BY <1>9, <1>13, <1>15, <3>1
    <3>4. WindowIsRest(c)
      BY <1>8, <1>13, <1>19, <1>20, <1>22, <3>3 DEF WindowIsRest
    <3> QED BY <3>2, <3>4
  <2>5. DecodedIn(c) \subseteq Body(c)
    BY <1>14, <1>24 DEF GraphKnown, GraphFlows
  <2> QED BY <2>3, <2>4, <2>5 DEF GraphFlows
<1>28. GraphCovers(c)
  <2>1. c.entry \in c.scheduled
    BY <1>13, <1>16 DEF GraphKnown, GraphCovers
  <2> SUFFICES ASSUME BytesToSpare(c)
               PROVE  /\ \A s \in c.scheduled : Covered(c, s)
                      /\ \A d \in DecodedIn(c) : \A t \in Successors(d, FALSE) : Covered(c, t)
    BY <2>1 DEF GraphCovers
  <2>2. c.reasons = {} /\ BytesToSpare(graph)
    BY <1>8, <1>13, <1>16, <1>19 DEF BytesToSpare
  <2>3. ASSUME NEW x, Covered(graph, x) PROVE Covered(c, x)
    <3>1. CASE x \in ToSet(graph.queue)
      BY <1>16, <3>1 DEF Covered, Pending
    <3>2. CASE x = Here
      BY <1>14, <3>2 DEF Covered
    <3>3. CASE Runs(x) => x \in DecodedIn(graph)
      BY <1>14, <3>3 DEF Covered
    <3> QED BY <1>9, <2>3, <3>1, <3>2, <3>3 DEF Covered, Pending
  <2>4. \A s \in c.scheduled : Covered(c, s)
    <3>1. \A s \in ToSet(c.queue) : Covered(c, s)
      BY DEF Covered, Pending
    <3> QED BY <1>16, <2>2, <2>3, <3>1 DEF GraphKnown, GraphCovers
  <2>5. \A t \in Successors(Here, FALSE) : Covered(c, t)
    <3>1. \A t \in Ways(i) : Covered(c, t)
      BY <1>16, <2>2, <2>4
    <3>2. GoesOn(i) => Covered(c, i.next)
      BY <1>1, <1>13, <1>15 DEF Covered, Pending
    <3> QED BY <1>18, <3>1, <3>2
  <2>6. \A d \in DecodedIn(graph) : \A t \in Successors(d, FALSE) : Covered(c, t)
    BY <2>2, <2>3 DEF GraphKnown, GraphCovers
  <2> QED BY <1>14, <2>4, <2>5, <2>6
<1>29. GraphIsTied(c)
  <2>1. c.scheduled \ {NoSource} \subseteq c.blocks \cup ToSet(c.queue) \cup {c.block}
    BY <1>13, <1>16 DEF GraphKnown, GraphIsTied
  <2>2. \A e : Tied(graph, e) => Tied(c, e)
    BY <1>16 DEF Tied
  <2> QED BY <1>16, <1>17, <2>1, <2>2 DEF GraphKnown, GraphIsTied
<1> QED BY <1>27, <1>28, <1>29 DEF GraphKnown, c

LEMMA GraphKnownSuffices ==
    ASSUME CallTypeOK, GraphOK, graph.open => GraphKnown(graph)
    PROVE  GraphIsDone /\ graph.bytes + 4 <= graph.limits.bytes => GraphIsExact
<1> SUFFICES ASSUME GraphIsDone, graph.bytes + 4 <= graph.limits.bytes
             PROVE  GraphIsExact
  OBVIOUS
<1>1. GraphKnown(graph) /\ graph.queue = <<>> /\ graph.block = NoSource
  BY DEF GraphIsDone
<1>2. ToSet(graph.queue) = {}
  BY <1>1 DEF ToSet
<1>3. DecodedIn(graph) \subseteq Body(graph)
  BY <1>1 DEF GraphKnown, GraphFlows
<1>4. ASSUME graph.reasons = {} PROVE Body(graph) \subseteq DecodedIn(graph)
  <2>1. BytesToSpare(graph)
    BY <1>4 DEF BytesToSpare
  <2>2. \A x : Covered(graph, x) => (Runs(x) => x \in DecodedIn(graph))
    BY <1>1, <1>2 DEF Covered, Pending
  <2>3. CodeIn({graph.entry}, Everywhere) \subseteq DecodedIn(graph)
    BY <1>1, <2>1, <2>2 DEF GraphKnown, GraphCovers, CodeIn
  <2>4. \A s \in DecodedIn(graph) \cap CodeAt : CodeIn(Successors(s, FALSE), Everywhere) \subseteq DecodedIn(graph)
    BY <1>1, <2>1, <2>2 DEF GraphKnown, GraphCovers, CodeIn
  <2> QED BY <2>3, <2>4, ReachIsLeast DEF Body
<1>5. ASSUME graph.reasons = {}, NEW e \in graph.edges
      PROVE  e.to \in graph.blocks \/ \E u \in graph.unresolved : Accounts(u, e)
  <2>1. Tied(graph, e) /\ graph.scheduled \ {NoSource} \subseteq graph.blocks \cup {NoSource}
    BY <1>1, <1>2, <1>5 DEF GraphKnown, GraphIsTied
  <2> QED BY <2>1 DEF Tied
<1> QED BY <1>3, <1>4, <1>5 DEF GraphIsExact, Body

LEMMA GraphFactsStay ==
    ASSUME UNCHANGED call, graph' = Idle \/ GraphKnown(graph')
    PROVE  GraphFacts'
<1>1. \A s : End(s)' = End(s) /\ Runs(s)' = Runs(s)
  BY DEF End, Runs
<1>2. Everywhere' = Everywhere /\ \A s : Successors(s, FALSE)' = Successors(s, FALSE)
  BY DEF Everywhere, Successors, End
<1>3. \A g : Reach({g.entry}, FALSE, Everywhere)' = Reach({g.entry}, FALSE, Everywhere)
  BY <1>1, <1>2 DEF Reach, CodeIn, Successors, End, Runs
<1>4. CASE graph' = Idle
  BY <1>4 DEF GraphFacts, Idle, NoSource, Source, Main, Nowhere
<1>5. CASE GraphKnown(graph')
  <2> DEFINE g == graph'
  <2>1. Body(graph)' = Body(g)
    BY <1>3 DEF Body
  <2>2. \A x : Flows(graph, x)' = Flows(g, x)
    BY <1>1, <2>1 DEF Flows
  <2>3. DecodedIn(graph)' = DecodedIn(g) /\ HereIn(graph)' = HereIn(g)
    BY DEF DecodedIn, HereIn
  <2>4. \A x : Covered(graph, x)' = Covered(g, x)
    BY <1>1, <2>3 DEF Covered, Pending
  <2>5. BytesToSpare(graph)' = BytesToSpare(g) /\ WindowIsRest(graph)' = WindowIsRest(g)
    BY <1>1, <2>3 DEF BytesToSpare, WindowIsRest
  <2>6. \A e : Tied(graph, e)' = Tied(g, e)
    BY DEF Tied, Accounts
  <2>7. GraphFlows(graph)'
    BY <1>5, <2>1, <2>2, <2>3, <2>5 DEF GraphKnown, GraphFlows
  <2>8. GraphCovers(graph)'
    BY <1>2, <1>5, <2>3, <2>4, <2>5 DEF GraphKnown, GraphCovers
  <2>9. GraphIsTied(graph)'
    BY <1>5, <2>6 DEF GraphKnown, GraphIsTied
  <2> QED BY <2>7, <2>8, <2>9 DEF GraphFacts, GraphKnown
<1> QED BY <1>4, <1>5

LEMMA GraphFactsNext ==
    ASSUME WithinLimits, GraphFacts, [Next]_vars
    PROVE  GraphFacts'
<1>1. CallTypeOK /\ GraphOK /\ DiscoveryOK
  BY DEF WithinLimits
<1>2. ASSUME UNCHANGED <<call, graph>> PROVE GraphFacts'
  BY <1>2, GraphFactsStay DEF GraphFacts, GraphKnown
<1>3. graph.open => GraphKnown(graph)
  BY DEF GraphFacts, GraphKnown, Idle
<1>4. Requested.source \in Places /\ call.cfg \in [GraphLimits -> Positive]
  BY <1>1, RequestedTyped DEF Targets, CallTypeOK
<1>5. ASSUME BeginGraph \/ StartFunction PROVE GraphFacts'
  <2>1. graph' = EmptyGraph(Requested.source, call.cfg) /\ UNCHANGED call
    BY <1>5 DEF BeginGraph, StartFunction
  <2> QED BY <1>1, <1>4, <2>1, EmptyGraphKnown, GraphFactsStay
<1>6. CASE StartGraph
  <2>1. graph' = EmptyGraph(EntryAgain.source, CfgLimits(disc)) /\ UNCHANGED call
    BY <1>6 DEF StartGraph
  <2>2. FindsInLimits(disc) /\ TotalsInLimits(disc) /\ NextWork \in Work
    BY <1>1, <1>6, DiscoveryIsTyped, NextWorkTyped DEF StartGraph, CanStart, DiscoveryRunning
  <2>3. EntryAgain.source \in Places
    <3>1. NextWork.source.at \in Int /\ NextWork.source.mode \in Modes
      BY <2>2 DEF Work, Places
    <3> QED BY <1>1, <3>1, ResolveTyped DEF EntryAgain, ResolveAgain, Targets
  <2>4. CfgLimits(disc) \in [GraphLimits -> Positive]
    BY <1>1, <1>6, <2>2, CfgLimitsAreCovered DEF StartGraph, CanStart
  <2> QED BY <1>1, <2>1, <2>3, <2>4, EmptyGraphKnown, GraphFactsStay
<1>7. CASE TakeBlock \/ StopBlock \/ DecodeInstruction
  <2>1. UNCHANGED call /\ graph.open
    BY <1>7 DEF TakeBlock, StopBlock, DecodeInstruction, InBlock
  <2>2. GraphKnown(graph')
    BY <1>1, <1>3, <1>7, <2>1, TakeBlockKnown, StopBlockKnown, DecodeKnown
  <2> QED BY <2>1, <2>2, GraphFactsStay
<1>8. CASE UseGraph
  <2>1. graph' = Idle /\ UNCHANGED call
    BY <1>8 DEF UseGraph
  <2> QED BY <2>1, GraphFactsStay
<1>9. ASSUME \/ BeginScan \/ BeginDiscovery \/ Refuse \/ Return \/ UNCHANGED vars \/ AnswerGraph
             \/ ScanTakeBlock \/ ScanGiveUp \/ ScanStopBlock \/ ScanInstruction
             \/ AnswerReferences \/ AnswerUnproven \/ AnswerFunction
             \/ FailGraph \/ LeaveWork \/ SkipSeed \/ AnswerFunctions
      PROVE  UNCHANGED <<call, graph>>
  BY <1>9 DEF BeginScan, BeginDiscovery, Refuse, Return, vars, AnswerGraph, ScanTakeBlock, ScanGiveUp, ScanStopBlock,
              ScanInstruction, AnswerReferences, AnswerUnproven, AnswerFunction, FailGraph, LeaveWork, SkipSeed,
              AnswerFunctions
<1> QED BY <1>2, <1>5, <1>6, <1>7, <1>8, <1>9 DEF Next, FlowNext, ScanNext, DiscoveryNext

LEMMA GraphFactsInit ==
    ASSUME Init
    PROVE  GraphFacts
BY DEF Init, GraphFacts

LEMMA GraphFactsSuffice ==
    ASSUME WithinLimits, GraphFacts
    PROVE  GraphIsDone /\ graph.bytes + 4 <= graph.limits.bytes => GraphIsExact
<1>1. graph.open => GraphKnown(graph)
  BY DEF GraphFacts, GraphKnown, Idle
<1> QED BY <1>1, GraphKnownSuffices DEF WithinLimits

\* A finished graph with four bytes of its limit to spare has only code its entry reaches without
\* calls; a complete one has all of it and no loose edge (analyzeNdsControlFlow).
THEOREM GraphsAreExact == Spec => [](GraphIsDone /\ graph.bytes + 4 <= graph.limits.bytes => GraphIsExact)
<1>1. Init => WithinLimits /\ GraphFacts
  BY WithinLimitsInit, GraphFactsInit
<1>2. WithinLimits /\ GraphFacts /\ [Next]_vars => (WithinLimits /\ GraphFacts)'
  BY WithinLimitsNext, GraphFactsNext
<1>3. WithinLimits /\ GraphFacts => (GraphIsDone /\ graph.bytes + 4 <= graph.limits.bytes => GraphIsExact)
  BY GraphFactsSuffice
<1> QED BY <1>1, <1>2, <1>3, PTL DEF Spec

-----------------------------------------------------------------------------
(* What a search has covered: everything the roots lead to is pending,    *)
(* decoded or no code (ScanCovers), and every reference of decoded code is *)
(* in the list while the list has room (ListsAll).                         *)

\* The places a search has still to read, and those it owes nothing more.
ScanPending(s, q) == q \in ToSet(s.queue) \/ (s.block # NoSource /\ q = HereIn(s))
ScanCovered(s, q) == ScanPending(s, q) \/ (Runs(q) => q \in s.decoded)
ScanBytesToSpare(s) == s.reasons = {} /\ s.bytes + 4 <= call.limits.bytes
Roots == {q \in Entries \cup Seeds : q.component \in InScope}

ScanWindowIsRest(s) ==
    LET window == s.window - s.cursor
        rest == End(s.block) - HereIn(s).at
        budget == call.limits.bytes - s.bytes
    IN  budget > 0 => window <= rest /\ (window = rest \/ window = budget)
ScanCovers(s) ==
    /\ s.reasons = {} => s.considered = InScope
    /\ ScanBytesToSpare(s) =>
        /\ \A q \in s.scheduled \cup Roots : ScanCovered(s, q)
        /\ \A d \in s.decoded : \A t \in Successors(d, TRUE) : t.component \in InScope => ScanCovered(s, t)
\* While the list has room for all that were found, it has them all.
ListsAll(s) ==
    s.matching <= call.limits.xrefs =>
        Len(s.found) = s.matching /\ ReferencesIn(s.decoded) \subseteq ToSet(s.found)
ScanKnown(s) == (s.block # NoSource => ScanWindowIsRest(s)) /\ ScanCovers(s) /\ ListsAll(s)
ScanFacts == scan = NoScan \/ ScanKnown(scan)

\* f is s with the targets T scheduled that are in its components, or with the reason why one is not.
Spreads(s, f, T) ==
    /\ FoundAs(f, s) /\ f.matching = s.matching
    /\ ToSet(s.queue) \subseteq ToSet(f.queue)
    /\ s.scheduled \subseteq f.scheduled /\ f.scheduled \subseteq s.scheduled \cup ToSet(f.queue)
    /\ s.reasons \subseteq f.reasons
    /\ f.reasons = {} => \A t \in T : t.component \in s.considered => t \in f.scheduled

LEMMA SpreadsChains ==
    ASSUME NEW s, NEW h, NEW f, NEW T, NEW U, Spreads(s, h, T), Spreads(h, f, U)
    PROVE  Spreads(s, f, T \cup U)
<1>1. FoundAs(f, s) /\ f.matching = s.matching /\ h.considered = s.considered
  BY DEF Spreads, FoundAs
<1>2. /\ ToSet(s.queue) \subseteq ToSet(f.queue)
      /\ s.scheduled \subseteq f.scheduled /\ f.scheduled \subseteq s.scheduled \cup ToSet(f.queue)
      /\ s.reasons \subseteq f.reasons
  BY DEF Spreads
<1>3. ASSUME f.reasons = {}, NEW t \in T \cup U, t.component \in s.considered PROVE t \in f.scheduled
  <2>1. h.reasons = {} /\ h.scheduled \subseteq f.scheduled
    BY <1>3 DEF Spreads
  <2> QED BY <1>1, <1>3, <2>1 DEF Spreads
<1> QED BY <1>1, <1>2, <1>3 DEF Spreads

\* A reason is given, or nothing but the account of edges or components changes.
LEMMA SpreadsNot ==
    ASSUME NEW s, NEW f, FoundAs(f, s), f.matching = s.matching, f.queue = s.queue, f.scheduled = s.scheduled,
           s.reasons \subseteq f.reasons, NEW T,
           f.reasons = {} => \A t \in T : t.component \in s.considered => t \in s.scheduled
    PROVE  Spreads(s, f, T)
BY DEF Spreads

LEMMA LimitedSpreads ==
    ASSUME NEW s \in ScanType, NEW reason, NEW c, NEW T
    PROVE  Spreads(s, Limited(Reason(s, reason), c), T)
<1> DEFINE t == Reason(s, reason)
           f == Limited(t, c)
<1>1. /\ t.matching = s.matching /\ t.queue = s.queue /\ t.scheduled = s.scheduled
      /\ t.reasons = s.reasons \cup {reason}
  BY DEF ScanType, Reason
<1>2. /\ f.matching = t.matching /\ f.queue = t.queue /\ f.scheduled = t.scheduled /\ f.reasons = t.reasons
  BY DEF ScanType, Reason, Limited
<1>3. FoundAs(f, s)
  BY LimitedLeads
<1> HIDE DEF f, t
<1>4. Spreads(s, f, T)
  BY <1>1, <1>2, <1>3, SpreadsNot
<1> QED BY <1>4 DEF f, t

LEMMA ScheduleSourceSpreads ==
    ASSUME NEW s \in ScanType, NEW p \in Places
    PROVE  Spreads(s, ScheduleSource(s, p), {p})
<1> DEFINE seeded == [s EXCEPT !.seeded = @ \cup {p.component}]
           r == ScheduleSource(s, p)
<1>1. p.component \in Everywhere
  BY DEF Places
<1>2. seeded \in ScanType
  BY <1>1 DEF ScanType
<1>3. /\ FoundAs(seeded, s) /\ seeded.matching = s.matching /\ seeded.queue = s.queue
      /\ seeded.scheduled = s.scheduled /\ seeded.reasons = s.reasons
  BY DEF FoundAs, ScanType
<1>4. CASE p.component \notin s.considered
  <2>1. r = s
    BY <1>4 DEF ScheduleSource
  <2>2. FoundAs(s, s)
    BY DEF FoundAs
  <2> HIDE DEF r
  <2> QED BY <1>4, <2>1, <2>2, SpreadsNot DEF r
<1>5. CASE p.component \in s.considered /\ p \in s.scheduled
  <2>1. r = seeded
    BY <1>5 DEF ScheduleSource
  <2> HIDE DEF seeded, r
  <2> QED BY <1>3, <1>5, <2>1, SpreadsNot DEF r
<1>6. CASE /\ p.component \in s.considered /\ p \notin s.scheduled
           /\ Cardinality(s.scheduled) >= call.limits.blocks
  <2> HIDE DEF seeded
  <2>1. r = Limited(Reason(seeded, "block-limit"), p.component)
    BY <1>6 DEF ScheduleSource, ScanLimits, seeded
  <2>2. Spreads(seeded, r, {p})
    BY <1>2, <2>1, LimitedSpreads
  <2> HIDE DEF r
  <2>3. FoundAs(r, s)
    BY <1>3, <2>2 DEF Spreads, FoundAs
  <2> QED BY <1>3, <2>2, <2>3 DEF Spreads, FoundAs, r
<1>7. CASE /\ p.component \in s.considered /\ p \notin s.scheduled
           /\ ~(Cardinality(s.scheduled) >= call.limits.blocks)
  <2> HIDE DEF seeded
  <2>1. r = [seeded EXCEPT !.scheduled = @ \cup {p}, !.queue = Append(@, p)]
    BY <1>7 DEF ScheduleSource, ScanLimits, seeded
  <2>2. /\ r.queue = Append(seeded.queue, p) /\ r.scheduled = seeded.scheduled \cup {p}
        /\ r.matching = seeded.matching /\ r.reasons = seeded.reasons
    BY <1>2, <2>1 DEF ScanType
  <2>3. FoundAs(r, seeded)
    BY <1>2, <2>1 DEF ScanType, FoundAs
  <2>4. ToSet(r.queue) = ToSet(s.queue) \cup {p}
    BY <1>3, <2>2, AppendedSet DEF ScanType
  <2> HIDE DEF r
  <2>5. FoundAs(r, s)
    BY <1>3, <2>3 DEF FoundAs
  <2> QED BY <1>3, <2>2, <2>4, <2>5 DEF Spreads, r
<1> QED BY <1>4, <1>5, <1>6, <1>7

LEMMA TraverseToSpreads ==
    ASSUME NEW s \in ScanType, NEW target \in Targets
    PROVE  Spreads(s, TraverseTo(s, target), Goal(target))
<1> DEFINE t == [s EXCEPT !.edges = @ + 1]
           r == TraverseTo(s, target)
<1>1. s.edges \in Nat /\ target.source \in Places
  BY DEF ScanType, Targets
<1>2. CASE target.status # "resolved" \/ target.source.component \notin s.considered
  <2>1. r = s
    BY <1>2 DEF TraverseTo
  <2>2. FoundAs(s, s) /\ \A x \in Goal(target) : x.component \notin s.considered
    BY <1>2 DEF FoundAs, Goal
  <2> HIDE DEF r
  <2> QED BY <2>1, <2>2, SpreadsNot DEF r
<1>3. CASE /\ ~(target.status # "resolved" \/ target.source.component \notin s.considered)
           /\ s.edges >= call.limits.edges
  <2>1. r = Limited(Reason(s, "edge-limit"), s.block.component)
    BY <1>3 DEF TraverseTo, ScanLimits
  <2> QED BY <2>1, LimitedSpreads
<1>4. CASE /\ ~(target.status # "resolved" \/ target.source.component \notin s.considered)
           /\ ~(s.edges >= call.limits.edges)
  <2>1. r = ScheduleSource(t, target.source)
    BY <1>4 DEF TraverseTo, ScanLimits
  <2>2. t \in ScanType
    <3> DEFINE n == s.edges + 1
    <3>1. n \in Nat
      BY <1>1
    <3>2. t = [s EXCEPT !.edges = n]
      OBVIOUS
    <3> HIDE DEF n, t
    <3> QED BY <3>1, <3>2 DEF ScanType
  <2>3. /\ FoundAs(t, s) /\ t.matching = s.matching /\ t.queue = s.queue /\ t.scheduled = s.scheduled
        /\ t.reasons = s.reasons
    BY DEF FoundAs, ScanType
  <2>4. Goal(target) = {target.source}
    BY <1>4 DEF Goal
  <2> HIDE DEF t
  <2>5. Spreads(t, r, {target.source})
    BY <1>1, <2>1, <2>2, ScheduleSourceSpreads
  <2>6. Spreads(s, t, {})
    BY <2>3, SpreadsNot
  <2>7. {} \cup {target.source} = {target.source}
    OBVIOUS
  <2> HIDE DEF r
  <2> QED BY <2>4, <2>5, <2>6, <2>7, SpreadsChains DEF r
<1> QED BY <1>2, <1>3, <1>4

\* The places the search schedules after an instruction; after any other it reads on.
ScanWays(i) ==
    (IF i.kind \in {"call", "unconditional-branch", "conditional-branch"} THEN Goal(i.target) ELSE {})
    \cup (IF i.kind = "conditional-branch" /\ i.next.at < End(i.source) THEN {i.next} ELSE {})

LEMMA TraverseSpreads ==
    ASSUME CallTypeOK, NEW s, ScanInLimits(s), NEW i \in Instructions
    PROVE  Spreads(s, Traverse(s, i), ScanWays(i))
<1> DEFINE through == IF i.next.at < End(i.source) THEN Resolved(i.next) ELSE Unresolved("none")
           t == TraverseTo(s, i.target)
           U == IF i.next.at < End(i.source) THEN {i.next} ELSE {}
<1>1. i.target \in Targets /\ i.next \in Places /\ s \in ScanType
  BY DEF Instructions, ScanInLimits
<1>2. through \in Targets /\ Goal(through) = U
  <2>1. through \in Targets
    BY <1>1, SomewhereResolved, NothingResolved
  <2>2. Goal(through) = U
    BY DEF Goal, Resolved, Unresolved
  <2> QED BY <2>1, <2>2
<1>3. Spreads(s, t, Goal(i.target)) /\ t \in ScanType
  BY <1>1, TraverseToSpreads, TraverseToKeeps DEF ScanInLimits
<1> HIDE DEF t, through, U
<1>4. Spreads(s, TraverseTo(t, through), Goal(i.target) \cup U)
  <2>1. Spreads(t, TraverseTo(t, through), U)
    BY <1>2, <1>3, TraverseToSpreads
  <2> QED BY <1>3, <2>1, SpreadsChains
<1>5. CASE i.kind \in {"call", "unconditional-branch"}
  <2>1. Traverse(s, i) = t /\ ScanWays(i) = Goal(i.target)
    BY <1>5 DEF Traverse, ScanWays, t
  <2> QED BY <1>3, <2>1
<1>6. CASE i.kind = "conditional-branch"
  <2>1. Traverse(s, i) = TraverseTo(t, through) /\ ScanWays(i) = Goal(i.target) \cup U
    BY <1>6 DEF Traverse, ScanWays, t, through, U
  <2> QED BY <1>4, <2>1
<1>7. CASE i.kind \notin {"call", "unconditional-branch", "conditional-branch"}
  <2>1. Traverse(s, i) = s /\ ScanWays(i) = {} /\ FoundAs(s, s)
    BY <1>7 DEF Traverse, ScanWays, FoundAs
  <2> QED BY <2>1, SpreadsNot
<1> QED BY <1>5, <1>6, <1>7

\* Where the search goes on to after an instruction is where its control goes.
LEMMA ScanSuccessorsAre ==
    ASSUME CallTypeOK, NEW s \in Places, s \in CodeAt
    PROVE  LET i == InstructionAt(call.rom, call.p, s)
           IN  Successors(s, TRUE) \subseteq ScanWays(i) \cup (IF GoesOn(i) THEN {i.next} ELSE {})
<1> DEFINE i == InstructionAt(call.rom, call.p, s)
           falls == i.kind \in {"fallthrough", "call", "indirect-call", "conditional-branch"}
           jumps == i.kind \in {"conditional-branch", "unconditional-branch"} \/ i.kind = "call"
<1>1. i \in Instructions /\ i.source = s
  BY InstructionTyped, InstructionIsHere
<1>2. i.next.component = s.component
  BY DEF InstructionAt, AtAddress, Places
<1>3. End(i.next) = End(s) /\ End(i.source) = End(s)
  BY <1>1, <1>2 DEF End
<1>4. Successors(s, TRUE) = {t \in {i.next} : falls /\ t.at < End(t)}
                            \cup {t \in {i.target.source} : jumps /\ i.target.status = "resolved"}
  <2> HIDE DEF i
  <2> QED BY DEF Successors, i
<1> HIDE DEF i
<1> QED BY <1>3, <1>4 DEF ScanWays, GoesOn, Goal, i

\* A list with room for all the references of an instruction takes them all.
LEMMA RetainAllLosesNone ==
    ASSUME CallTypeOK, NEW found, IsListed(found), NEW n \in Nat, NEW new \in [1..n -> References],
           Len(found) + n <= call.limits.xrefs
    PROVE  LET after == RetainAll(found, new)
           IN  Len(after) = Len(found) + n /\ ToSet(found) \cup {new[i] : i \in 1..n} \subseteq ToSet(after)
<1> DEFINE A == {f \in Seq(References) : IsListed(f)}
           added(s) == {new[i] : i \in s}
           max == call.limits.xrefs
<1>1. \A f \in A, r \in References : Retain(f, r) \in A
  BY RetainTells DEF IsListed
<1>2. found \in A /\ Len(found) \in Nat /\ max \in Nat
  BY CallLimitsTyped DEF IsListed, CallLimits
<1>0. \A f : f \in A => IsListed(f)
  OBVIOUS
<1> HIDE DEF A
<1>3. PICK iter : RetainsAll(iter, found, n, new, A)
  BY <1>1, <1>2, RetainUnfolds
<1>4. /\ iter \in [SUBSET (1..n) -> A]
      /\ RetainAll(found, new) = iter[1..n] /\ iter[{}] = found
      /\ \A s \in SUBSET (1..n) : s # {} => iter[s] = Retain(iter[s \ {Max(s)}], new[Max(s)])
  BY <1>3 DEF RetainsAll
<1>5. IsFiniteSet(1..n) /\ Cardinality(1..n) = n
  BY FS_Interval
<1> DEFINE Good(s) == Len(iter[s]) = Len(found) + Cardinality(s) /\ ToSet(found) \cup added(s) \subseteq ToSet(iter[s])
           G == {s \in SUBSET (1..n) : Good(s)}
<1>6. {} \in G
  <2>1. added({}) = {} /\ Cardinality({}) = 0
    BY FS_EmptySet
  <2> HIDE DEF added
  <2> QED BY <1>2, <1>4, <2>1
<1>7. ASSUME NEW s \in SUBSET (1..n), s # {}, s \ {Latest(n)[s]} \in G PROVE s \in G
  <2> DEFINE m == Max(s)
             rest == s \ {m}
             c == Cardinality(rest)
  <2>1. m \in s /\ m \in 1..n /\ rest \in SUBSET (1..n) /\ Good(rest) /\ iter[s] = Retain(iter[rest], new[m])
    BY <1>4, <1>7, LatestChooses DEF Chooses
  <2>2. new[m] \in References /\ IsListed(iter[rest])
    BY <1>0, <1>4, <2>1
  <2>3. added(s) = added(rest) \cup {new[m]}
    BY <2>1
  <2>4. c \in Nat /\ Cardinality(s) = c + 1 /\ Cardinality(s) <= n
    <3>1. IsFiniteSet(s) /\ Cardinality(s) <= Cardinality(1..n) /\ Cardinality(s) \in Nat
      BY <1>5, FS_Subset, FS_CardinalityType
    <3>2. IsFiniteSet(rest) /\ Cardinality(rest) = Cardinality(s) - 1
      <4> HIDE DEF m
      <4> QED BY <2>1, <3>1, FS_RemoveElement
    <3>3. c \in Nat
      BY <3>2, FS_CardinalityType
    <3> HIDE DEF rest, m
    <3> QED BY <1>5, <3>1, <3>2, <3>3
  <2> HIDE DEF m, rest, added, c
  <2>5. Len(iter[rest]) = Len(found) + c /\ Len(iter[rest]) < max
    <3>1. Len(iter[rest]) = Len(found) + c
      BY <2>1 DEF c
    <3> HIDE DEF max
    <3>2. Len(found) + n <= max
      BY DEF max
    <3> QED BY <1>2, <2>4, <3>1, <3>2
  <2>6. Len(iter[s]) = Len(iter[rest]) + 1 /\ ToSet(iter[rest]) \cup {new[m]} \subseteq ToSet(iter[s])
    BY <2>1, <2>2, <2>5, RetainTells
  <2>7. Len(iter[s]) = Len(found) + Cardinality(s)
    BY <1>2, <2>4, <2>5, <2>6
  <2>8. Good(s)
    BY <2>1, <2>3, <2>6, <2>7
  <2> QED BY <2>8
<1>8. 1..n \in G
  <2> HIDE DEF G
  <2>1. IsFiniteSet(1..n) /\ Chooses(Latest(n), 1..n)
    BY LatestChooses
  <2> QED BY <1>6, <1>7, <2>1, EverySubset
<1> QED BY <1>4, <1>5, <1>8

\* The seeds are spread one after the other.
LEMMA ScanStartSpreads ==
    ASSUME CallTypeOK
    PROVE  Spreads(EmptyScan, ScanStart, ToSet(ImplicitSeed \o SeedSources(call.rom, call.p, call.seeds)))
<1> DEFINE all == ImplicitSeed \o SeedSources(call.rom, call.p, call.seeds)
           n == Len(all)
           A == {s \in ScanType : ScanInLimits(s)}
           seen(D) == {all[j] : j \in D}
<1>1. all \in Seq(Places)
  BY SeedsTyped
<1> HIDE DEF all
<1>2. n \in Nat /\ DOMAIN all = 1..n /\ ToSet(all) = seen(1..n) /\ \A j \in 1..n : all[j] \in Places
  <2>1. n \in Nat /\ DOMAIN all = 1..n
    BY <1>1
  <2> QED BY <1>1, <2>1 DEF ToSet
<1>3. \A p \in ToSet(all) : p \in Places
  BY <1>2
<1>4. \A s \in A, p \in ToSet(all) : ScheduleSource(s, p) \in A
  BY <1>3, ScheduleSourceKeeps DEF ScanInLimits
<1>5. EmptyScan \in A
  BY EmptyScanInLimits DEF ScanInLimits
<1>6. \A s \in A : s \in ScanType
  OBVIOUS
<1> HIDE DEF A
<1>7. PICK iter : StartsAll(iter, n, all, A)
  BY <1>1, <1>4, <1>5, ScanStartUnfolds DEF all
<1>8. /\ iter \in [SUBSET (1..n) -> A]
      /\ ScanStart = iter[1..n] /\ iter[{}] = EmptyScan
      /\ \A s \in SUBSET (1..n) : s # {} => iter[s] = ScheduleSource(iter[s \ {Max(s)}], all[Max(s)])
  BY <1>7 DEF StartsAll
<1> HIDE DEF n
<1> DEFINE G == {D \in SUBSET (1..n) : Spreads(EmptyScan, iter[D], seen(D))}
<1>9. {} \in G
  <2>1. FoundAs(EmptyScan, EmptyScan)
    BY DEF FoundAs
  <2>2. Spreads(EmptyScan, EmptyScan, {})
    BY <2>1, SpreadsNot
  <2>3. seen({}) = {}
    OBVIOUS
  <2> HIDE DEF seen
  <2> QED BY <1>8, <2>2, <2>3
<1>10. ASSUME NEW D \in SUBSET (1..n), D # {}, D \ {Latest(n)[D]} \in G PROVE D \in G
  <2> DEFINE m == Max(D)
             rest == D \ {m}
  <2>1. /\ m \in D /\ m \in 1..n /\ rest \in SUBSET (1..n) /\ Spreads(EmptyScan, iter[rest], seen(rest))
        /\ iter[D] = ScheduleSource(iter[rest], all[m])
    BY <1>2, <1>8, <1>10, LatestChooses DEF Chooses
  <2>2. iter[rest] \in ScanType /\ all[m] \in Places
    BY <1>2, <1>6, <1>8, <2>1
  <2>3. seen(D) = seen(rest) \cup {all[m]}
    BY <2>1
  <2> HIDE DEF m, rest, seen
  <2>4. Spreads(iter[rest], iter[D], {all[m]})
    BY <2>1, <2>2, ScheduleSourceSpreads
  <2>5. Spreads(EmptyScan, iter[D], seen(D))
    BY <2>1, <2>3, <2>4, SpreadsChains
  <2> QED BY <2>5
<1>11. 1..n \in G
  <2> HIDE DEF G
  <2>1. IsFiniteSet(1..n) /\ Chooses(Latest(n), 1..n)
    BY <1>2, LatestChooses
  <2> QED BY <1>9, <1>10, <2>1, EverySubset
<1> QED BY <1>2, <1>8, <1>11 DEF all

\* When no component is left out, all roots are seeds of the search.
LEMMA RootsAreSeeds ==
    ASSUME CallTypeOK, Considered = InScope
    PROVE  Roots \subseteq ToSet(ImplicitSeed \o SeedSources(call.rom, call.p, call.seeds))
<1> DEFINE x == ImplicitSeed
           y == SeedSources(call.rom, call.p, call.seeds)
<1>1. x \in Seq(Places) /\ y \in Seq(Places)
  <2>1. call.rom.entry[call.p] \in Int /\ "arm" \in Modes
    BY ProgramsAssumption DEF CallTypeOK, Modes
  <2>2. ProgramEntry(call.rom, call.p).source \in Places
    BY <2>1, ResolveTyped DEF ProgramEntry, Targets
  <2>3. ImplicitSeed \in Seq(Places)
    BY <2>2 DEF ImplicitSeed
  <2> QED BY <2>3, SeedSourcesTyped
<1>2. \A q \in Entries : q \in ToSet(x)
  <2> SUFFICES ASSUME NEW q \in Entries PROVE q \in ToSet(x)
    OBVIOUS
  <2>1. Main \in Considered /\ ProgramEntry(call.rom, call.p).status = "resolved"
        /\ q = ProgramEntry(call.rom, call.p).source
    BY DEF Entries
  <2>2. x = <<q>>
    BY <2>1 DEF ImplicitSeed
  <2> HIDE DEF x
  <2>3. 1 \in DOMAIN x /\ x[1] = q
    BY <2>2
  <2> QED BY <2>3 DEF ToSet
<1>3. \A q \in Seeds : q \in ToSet(y)
  BY DEF Seeds
<1> HIDE DEF x, y
<1>4. ToSet(x) \cup ToSet(y) \subseteq ToSet(x \o y)
  <2>1. Len(x) \in Nat /\ Len(y) \in Nat /\ DOMAIN x = 1..Len(x) /\ DOMAIN y = 1..Len(y)
        /\ DOMAIN (x \o y) = 1..(Len(x) + Len(y))
    BY <1>1
  <2>2. ASSUME NEW i \in DOMAIN x PROVE i \in DOMAIN (x \o y) /\ (x \o y)[i] = x[i]
    BY <1>1, <2>1
  <2>3. ASSUME NEW i \in DOMAIN y PROVE Len(x) + i \in DOMAIN (x \o y) /\ (x \o y)[Len(x) + i] = y[i]
    BY <1>1, <2>1
  <2> QED BY <2>2, <2>3 DEF ToSet
<1> QED BY <1>2, <1>3, <1>4 DEF Roots, x, y

LEMMA ConsideredIsAll ==
    ASSUME CallTypeOK, EmptyScan.reasons = {}
    PROVE  Considered = InScope
<1> DEFINE n == Len(Selected)
           m == call.limits.components
<1>1. n \in Nat /\ DOMAIN Selected = 1..n
  BY SelectedTyped
<1>2. m \in Nat
  BY CallLimitsTyped DEF CallLimits
<1>3. ~(n > m)
  BY DEF EmptyScan, ScanLimits
<1> HIDE DEF n, m
<1>4. Min({n, m}) = n
  BY <1>1, <1>2, <1>3 DEF Min
<1> QED BY <1>1, <1>4 DEF Considered, InScope, ToSet, ScanLimits, n, m

LEMMA ScanStartKnown ==
    ASSUME CallTypeOK
    PROVE  ScanKnown(ScanStart)
<1> DEFINE all == ImplicitSeed \o SeedSources(call.rom, call.p, call.seeds)
           s == ScanStart
<1>1. Spreads(EmptyScan, s, ToSet(all)) /\ s.block = NoSource
  BY ScanStartSpreads, ScanStartInLimits
<1> HIDE DEF s
<1>2. /\ EmptyScan.considered = Considered /\ EmptyScan.found = <<>> /\ EmptyScan.decoded = {}
      /\ EmptyScan.matching = 0 /\ EmptyScan.scheduled = {}
  BY DEF EmptyScan
<1>3. /\ s.considered = Considered /\ s.found = <<>> /\ s.decoded = {} /\ s.matching = 0
      /\ s.scheduled \subseteq ToSet(s.queue) /\ EmptyScan.reasons \subseteq s.reasons
      /\ s.reasons = {} => \A t \in ToSet(all) : t.component \in Considered => t \in s.scheduled
  BY <1>1, <1>2 DEF Spreads, FoundAs
<1> HIDE DEF all
<1>4. ASSUME s.reasons = {} PROVE Considered = InScope /\ Roots \subseteq s.scheduled
  <2>1. Considered = InScope
    BY <1>3, <1>4, ConsideredIsAll
  <2>2. Roots \subseteq ToSet(all)
    BY <2>1, RootsAreSeeds DEF all
  <2> QED BY <1>3, <1>4, <2>1, <2>2 DEF Roots
<1>5. ScanCovers(s)
  <2>1. \A q \in s.scheduled : ScanCovered(s, q)
    BY <1>3 DEF ScanCovered, ScanPending
  <2> QED BY <1>3, <1>4, <2>1 DEF ScanCovers, ScanBytesToSpare
<1>6. ListsAll(s)
  <2>1. ReferencesIn({}) = {} /\ Len(<<>>) = 0
    BY DEF ReferencesIn
  <2> QED BY <1>3, <2>1 DEF ListsAll
<1> QED BY <1>1, <1>5, <1>6 DEF ScanKnown, s

LEMMA ScanTakeBlockKnown ==
    ASSUME CallTypeOK, ScanOK, ScanKnown(scan), ScanTakeBlock
    PROVE  ScanKnown(scan')
<1>1. ScanInLimits(scan) /\ scan \in ScanType
  BY ScanIsTyped DEF ScanTakeBlock, ScanRunning
<1> DEFINE q == scan.queue
           s == Head(q)
           budget == call.limits.bytes - scan.bytes
           window == BytesToRead(s, budget)
           h == scan'
<1>2. h = [scan EXCEPT !.queue = Tail(@), !.block = s, !.cursor = 0, !.window = window]
  BY DEF ScanTakeBlock, ScanLimits
<1>3. s \in Places /\ Tail(q) \in Seq(Places) /\ ToSet(q) = {s} \cup ToSet(Tail(q))
  <2>1. q \in Seq(Places) /\ q # <<>>
    BY <1>1 DEF ScanTakeBlock, ScanType
  <2> HIDE DEF q
  <2> QED BY <2>1, HeadAndTail
<1>4. budget \in Nat
  <2>1. scan.bytes \in Nat /\ call.limits.bytes \in Nat /\ scan.bytes <= call.limits.bytes
    BY <1>1, CallLimitsTyped DEF CallLimits, GraphLimits, ScanInLimits, ScanType
  <2> QED BY <2>1
<1>5. budget > 0 => LET rest == End(s) - s.at IN window \in Int /\ window <= rest /\ (window = rest \/ window = budget)
  BY <1>3, <1>4, WindowOfBlock
<1>6. scan.block = NoSource
  BY DEF ScanTakeBlock
<1> HIDE DEF s, window
<1>7. /\ h.queue = Tail(q) /\ h.block = s /\ h.cursor = 0 /\ h.window = window
      /\ h.scheduled = scan.scheduled /\ h.decoded = scan.decoded /\ h.considered = scan.considered
      /\ h.found = scan.found /\ h.matching = scan.matching /\ h.reasons = scan.reasons /\ h.bytes = scan.bytes
  BY <1>1, <1>2 DEF ScanType
<1> HIDE DEF h
<1>8. HereIn(h) = s
  BY <1>3, <1>7 DEF HereIn, AtAddress, Places
<1>9. h.block # NoSource => ScanWindowIsRest(h)
  <2>1. h.window - h.cursor = window \/ window \notin Int
    BY <1>7
  <2> QED BY <1>3, <1>5, <1>7, <1>8, <2>1 DEF ScanWindowIsRest
<1>10. ScanCovers(h)
  <2>1. ASSUME NEW x, ScanCovered(scan, x) PROVE ScanCovered(h, x)
    <3>1. CASE x \in ToSet(scan.queue)
      <4>1. CASE x = s
        <5>1. CASE s = NoSource
          BY <4>1, <5>1, NowhereIsNoCode DEF ScanCovered
        <5>2. CASE s # NoSource
          BY <1>7, <1>8, <4>1, <5>2 DEF ScanCovered, ScanPending
        <5> QED BY <5>1, <5>2
      <4>2. CASE x # s
        BY <1>3, <1>7, <3>1, <4>2 DEF ScanCovered, ScanPending
      <4> QED BY <4>1, <4>2
    <3>2. CASE Runs(x) => x \in scan.decoded
      BY <1>7, <3>2 DEF ScanCovered
    <3> QED BY <1>6, <2>1, <3>1, <3>2 DEF ScanCovered, ScanPending
  <2>2. ScanBytesToSpare(h) => ScanBytesToSpare(scan)
    BY <1>7 DEF ScanBytesToSpare
  <2> QED BY <1>7, <2>1, <2>2 DEF ScanKnown, ScanCovers
<1>11. ListsAll(h)
  BY <1>7 DEF ScanKnown, ListsAll
<1> QED BY <1>9, <1>10, <1>11 DEF ScanKnown, h

\* A search that gives a reason owes nothing but its list.
LEMMA GivesReason ==
    ASSUME NEW s, ListsAll(s), NEW t, t.reasons # {}, t.block = NoSource, t.matching = s.matching,
           t.found = s.found, t.decoded = s.decoded
    PROVE  ScanKnown(t)
BY DEF ScanKnown, ScanCovers, ScanBytesToSpare, ListsAll

LEMMA ScanGiveUpKnown ==
    ASSUME CallTypeOK, ScanOK, ScanKnown(scan), ScanGiveUp
    PROVE  ScanKnown(scan')
<1>1. scan \in ScanType /\ ListsAll(scan)
  BY ScanIsTyped DEF ScanGiveUp, ScanRunning, ScanKnown
<1>2. /\ scan'.reasons = scan.reasons \cup ScanLimitsReached /\ scan'.block = NoSource
      /\ scan'.matching = scan.matching /\ scan'.found = scan.found /\ scan'.decoded = scan.decoded
  BY <1>1 DEF ScanGiveUp, ScanType
<1>3. ScanLimitsReached # {}
  BY DEF ScanGiveUp, ScanAtLimit, ScanLimitsReached
<1> QED BY <1>1, <1>2, <1>3, GivesReason

LEMMA ScanStopBlockKnown ==
    ASSUME CallTypeOK, ScanOK, ScanKnown(scan), ScanStopBlock
    PROVE  ScanKnown(scan')
<1> DEFINE reason == IF scan.instructions >= call.limits.instructions THEN "instruction-limit" ELSE "byte-limit"
           ended == [scan EXCEPT !.block = NoSource]
           limited == Limited(Reason(ended, reason), scan.block.component)
           h == scan'
           here == HereIn(scan)
<1>1. /\ ScanInLimits(scan) /\ scan \in ScanType /\ scan.block # NoSource
      /\ scan.bytes \in Nat /\ scan.cursor \in Nat /\ scan.window \in Int
  BY ScanIsTyped DEF ScanStopBlock, ScanRunning
<1>2. /\ ended \in ScanType /\ ended.block = NoSource /\ FoundAs(ended, scan) /\ ended.queue = scan.queue
      /\ ended.matching = scan.matching /\ ended.scheduled = scan.scheduled /\ ended.reasons = scan.reasons
      /\ ended.bytes = scan.bytes
  BY <1>1, NoSourceIsPlace DEF ScanType, FoundAs
<1>3. h = IF ScanStop = "limit" THEN limited ELSE ended
  BY DEF ScanStopBlock, ScanLimits
<1> HIDE DEF ended, reason
<1>4. CASE ScanStop = "limit"
  <2>1. /\ limited.block = ended.block /\ limited.matching = ended.matching
        /\ limited.found = ended.found /\ limited.decoded = ended.decoded
    BY <1>2 DEF Limited, Reason, ScanType
  <2>2. limited.reasons # {}
    <3> DEFINE r == Reason(ended, reason)
    <3>1. r.reasons = ended.reasons \cup {reason}
      BY <1>2 DEF Reason, ScanType
    <3>2. limited.reasons = r.reasons
      BY <1>2 DEF Limited, Reason, ScanType
    <3> HIDE DEF r
    <3> QED BY <3>1, <3>2
  <2> HIDE DEF limited
  <2>3. h = limited /\ ListsAll(scan)
    BY <1>3, <1>4 DEF ScanKnown
  <2>4. limited.block = NoSource /\ limited.matching = scan.matching /\ limited.found = scan.found
        /\ limited.decoded = scan.decoded
    BY <1>2, <2>1 DEF FoundAs
  <2> QED BY <2>2, <2>3, <2>4, GivesReason
<1>5. CASE ScanStop # "limit"
  <2>0. h = ended
    BY <1>3, <1>5
  <2> HIDE DEF h, limited
  <2>1. ASSUME ScanBytesToSpare(scan) PROVE ~Runs(here)
    <3> DEFINE window == scan.window - scan.cursor
               budget == call.limits.bytes - scan.bytes
    <3>1. window \in Int /\ budget \in Int /\ budget >= 4
      <4>1. call.limits.bytes \in Nat /\ scan.bytes + 4 <= call.limits.bytes
        BY <2>1, CallLimitsTyped DEF CallLimits, GraphLimits, ScanBytesToSpare
      <4> QED BY <1>1, <4>1
    <3>2. here \in Places /\ here = ScanHere /\ here.mode = scan.block.mode /\ End(here) = End(scan.block)
      <4>1. ScanHere \in Places
        BY <1>1, ScanHereIsPlace
      <4>2. scan.block \in Places
        BY <1>1 DEF ScanType
      <4> QED BY <4>1, <4>2 DEF ScanHere, HereIn, AtAddress, Places, End
    <3>3. ScanWindowIsRest(scan)
      BY <1>1 DEF ScanKnown
    <3>4. window <= End(here) - here.at /\ (window = End(here) - here.at \/ window = budget)
      BY <3>1, <3>2, <3>3 DEF ScanWindowIsRest
    <3>5. ScanStop \in {"component-boundary", "decode-stopped"}
      <4>1. ScanStop # "limit" /\ ScanStop # "none"
        BY <1>5 DEF ScanStopBlock
      <4> QED BY <4>1 DEF ScanStop, StopReason
    <3>6. ScanAtLimit \in BOOLEAN
      BY DEF ScanAtLimit
    <3>7. ScanStop = StopReason(here, window, MinimumSize[here.mode], ScanAtLimit)
      BY <3>2 DEF ScanStop
    <3> HIDE DEF window, budget, here
    <3> QED BY <3>1, <3>2, <3>4, <3>5, <3>6, <3>7, SilentStop
  <2>2. ScanCovers(h)
    <3>1. ASSUME NEW x, ScanCovered(scan, x), ScanBytesToSpare(scan) PROVE ScanCovered(h, x)
      BY <1>2, <2>0, <2>1, <3>1 DEF ScanCovered, ScanPending, FoundAs
    <3>2. ScanBytesToSpare(h) => ScanBytesToSpare(scan)
      BY <1>2, <2>0 DEF ScanBytesToSpare
    <3> QED BY <1>2, <2>0, <3>1, <3>2 DEF ScanKnown, ScanCovers, FoundAs
  <2>3. ListsAll(h)
    BY <1>2, <2>0 DEF ScanKnown, ListsAll, FoundAs
  <2> QED BY <1>2, <2>0, <2>2, <2>3 DEF ScanKnown, h
<1> QED BY <1>4, <1>5

\* An instruction that is read adds all its references to the list, or shows that there are too many.
LEMMA CollectListsAll ==
    ASSUME CallTypeOK, NEW s \in ScanType, NEW i, NEW p \in Places, p \in CodeAt, i.source = p,
           NEW old, s.decoded = old \cup {p}, IsListed(s.found),
           s.matching <= call.limits.xrefs => Len(s.found) = s.matching /\ ReferencesIn(old) \subseteq ToSet(s.found)
    PROVE  LET t == Collect(s, i)
           IN  /\ ListsAll(t) /\ t.queue = s.queue /\ t.decoded = s.decoded /\ t.considered = s.considered
               /\ t.scheduled = s.scheduled /\ t.reasons = s.reasons /\ t.bytes = s.bytes
<1> DEFINE S == ReferencesTo(call.rom, call.p, p, call.target.at)
           new == SetToSeq(S)
           n == Cardinality(S)
           after == RetainAll(s.found, new)
           t == Collect(s, i)
           added == {new[j] : j \in 1..n}
           max == call.limits.xrefs
<1>1. S \in SUBSET References /\ IsFiniteSet(S)
  BY ReferencesTyped
<1>2. ReferencesIn(old \cup {p}) = ReferencesIn(old) \cup S
  BY DEF ReferencesIn
<1>4. t = [s EXCEPT !.found = after, !.matching = @ + Len(new)]
  BY DEF Collect, RetainAll
<1> HIDE DEF S
<1>5. n \in Nat /\ new \in [1..n -> S] /\ S = added
  BY <1>1, Enumerated, AllEnumerated
<1>6. new \in [1..n -> References] /\ Len(new) = n
  BY <1>1, <1>5
<1>7. /\ t.found = after /\ t.matching = s.matching + Len(new)
      /\ t.queue = s.queue /\ t.decoded = s.decoded /\ t.considered = s.considered
      /\ t.scheduled = s.scheduled /\ t.reasons = s.reasons /\ t.bytes = s.bytes
  BY <1>4 DEF ScanType
<1>8. s.matching \in Nat /\ max \in Nat /\ Len(s.found) \in Nat
  BY CallLimitsTyped DEF ScanType, CallLimits
<1> HIDE DEF new, n, t
<1>9. Len(s.found) + n <= max => Len(after) = Len(s.found) + n /\ ToSet(s.found) \cup added \subseteq ToSet(after)
  BY <1>5, <1>6, RetainAllLosesNone
<1> HIDE DEF after, added, max
<1>10. ASSUME t.matching <= max PROVE Len(t.found) = t.matching /\ ReferencesIn(t.decoded) \subseteq ToSet(t.found)
  <2>1. s.matching + n <= max /\ s.matching <= max
    BY <1>5, <1>6, <1>7, <1>8, <1>10
  <2>2. Len(s.found) = s.matching /\ ReferencesIn(old) \subseteq ToSet(s.found)
    BY <2>1 DEF max
  <2>3. Len(after) = s.matching + n /\ ToSet(s.found) \cup added \subseteq ToSet(after)
    BY <1>9, <2>1, <2>2
  <2> QED BY <1>2, <1>5, <1>6, <1>7, <2>2, <2>3
<1> QED BY <1>7, <1>10 DEF ListsAll, t, max

LEMMA ScanInstructionKnown ==
    ASSUME CallTypeOK, ScanOK, ScanFinds, ScanKnown(scan), ScanInstruction
    PROVE  ScanKnown(scan')
<1> DEFINE h == ScanHere
           i == InstructionAt(call.rom, call.p, h)
           size == call.rom.code[h].size
           read == [scan EXCEPT !.instructions = @ + 1, !.bytes = @ + size, !.cursor = @ + size,
                                !.decoded = @ \cup {h}]
           collected == Collect(read, i)
           f == Traverse(collected, i)
           c == scan'
<1>1. /\ ScanInLimits(scan) /\ ScanWindowInLimit(scan) /\ scan \in ScanType /\ scan.block # NoSource
      /\ scan.bytes \in Nat /\ scan.cursor \in Nat /\ scan.window \in Int /\ scan.instructions \in Nat
      /\ FindsFirst(scan)
  BY ScanIsTyped DEF ScanInstruction, ScanRunning, ScanFinds, NoScan
<1>2. /\ h \in Places /\ h = HereIn(scan) /\ h.component = scan.block.component /\ h.at = scan.block.at + scan.cursor
      /\ End(h) = End(scan.block) /\ End(h) \in Int /\ h.at \in Int
  <2>1. h \in Places
    BY <1>1, ScanHereIsPlace
  <2>2. scan.block \in Places
    BY <1>1 DEF ScanType
  <2>3. h.component = scan.block.component
    BY <2>2 DEF ScanHere, AtAddress, Places
  <2>4. h = HereIn(scan) /\ h.at = scan.block.at + scan.cursor
    BY <2>2 DEF ScanHere, HereIn, AtAddress, Places
  <2>5. End(h) = End(scan.block)
    BY <2>3 DEF End
  <2>6. End(h) \in Int /\ h.at \in Int
    BY <2>1, EndTyped DEF Places
  <2> QED BY <2>1, <2>3, <2>4, <2>5, <2>6
<1>3. ~ScanAtLimit /\ h \in CodeAt /\ size <= scan.window - scan.cursor
  <2>1. ScanAtLimit \in BOOLEAN
    BY DEF ScanAtLimit
  <2> QED BY <2>1, ReadsOn DEF ScanInstruction, ScanStop
<1>4. size \in Nat
  BY <1>3, ProgramsAssumption DEF CallTypeOK, CodeAt
<1>5. i.size = size /\ i.source = h /\ i \in Instructions
  BY <1>2, <1>3, InstructionIsHere, InstructionTyped
<1>6. i.next = AtAddress(h, h.at + size)
  BY DEF InstructionAt
<1>7. c = IF GoesOn(i) THEN f ELSE [f EXCEPT !.block = NoSource]
  <2> HIDE DEF size
  <2> QED BY <1>5 DEF ScanInstruction
<1>8. Successors(h, TRUE) \subseteq ScanWays(i) \cup (IF GoesOn(i) THEN {i.next} ELSE {})
  BY <1>2, <1>3, ScanSuccessorsAre
<1>9. call.limits.instructions \in Nat /\ call.limits.bytes \in Nat
  BY CallLimitsTyped DEF CallLimits, GraphLimits
<1>10. /\ read \in ScanType /\ ScanInLimits(read) /\ read.decoded = scan.decoded \cup {h}
       /\ read.queue = scan.queue /\ read.found = scan.found /\ read.window = scan.window /\ read.block = scan.block
       /\ read.cursor = scan.cursor + size /\ read.considered = scan.considered /\ read.bytes = scan.bytes + size
       /\ read.matching = scan.matching /\ read.scheduled = scan.scheduled /\ read.reasons = scan.reasons
  <2> DEFINE count == scan.instructions + 1
             bytes == scan.bytes + size
             cursor == scan.cursor + size
  <2> HIDE DEF size
  <2>2. count \in Nat /\ count <= call.limits.instructions /\ bytes \in Nat /\ cursor \in Nat
    BY <1>1, <1>3, <1>4, <1>9 DEF ScanAtLimit, ScanLimits
  <2>3. bytes <= call.limits.bytes
    <3>1. scan.bytes + (scan.window - scan.cursor) <= call.limits.bytes
      BY <1>1 DEF ScanWindowInLimit
    <3> QED BY <1>1, <1>3, <1>4, <1>9, <3>1
  <2>4. read = [scan EXCEPT !.instructions = count, !.bytes = bytes, !.cursor = cursor, !.decoded = @ \cup {h}]
    OBVIOUS
  <2> HIDE DEF read, count, bytes, cursor, h
  <2>5. read \in ScanType
    <3>1. scan.decoded \cup {h} \in SUBSET Places
      BY <1>1, <1>2 DEF ScanType
    <3> QED BY <1>1, <2>2, <2>4, <3>1 DEF ScanType
  <2>6. /\ read.instructions = count /\ read.bytes = bytes /\ read.cursor = cursor /\ read.window = scan.window
        /\ read.scheduled = scan.scheduled /\ read.edges = scan.edges /\ read.found = scan.found
        /\ read.decoded = scan.decoded \cup {h} /\ read.queue = scan.queue /\ read.block = scan.block
        /\ read.considered = scan.considered /\ read.matching = scan.matching /\ read.reasons = scan.reasons
    BY <1>1, <2>4 DEF ScanType
  <2>7. ScanInLimits(read)
    BY <1>1, <2>2, <2>3, <2>5, <2>6 DEF ScanInLimits
  <2> QED BY <2>5, <2>6, <2>7 DEF cursor, bytes
<1> HIDE DEF i, size, read, h
<1>11. ScanInLimits(collected) /\ StandsAs(collected, read)
  BY <1>2, <1>3, <1>5, <1>10, CollectKeeps
<1>12. /\ ListsAll(collected) /\ collected.queue = scan.queue /\ collected.decoded = scan.decoded \cup {h}
       /\ collected.considered = scan.considered /\ collected.scheduled = scan.scheduled
       /\ collected.reasons = scan.reasons
  <2>1. IsListed(read.found) /\ read.decoded = scan.decoded \cup {h} /\ read \in ScanType
    BY <1>1, <1>10 DEF FindsFirst
  <2>2. read.matching <= call.limits.xrefs =>
            Len(read.found) = read.matching /\ ReferencesIn(scan.decoded) \subseteq ToSet(read.found)
    BY <1>10 DEF ScanKnown, ListsAll
  <2> HIDE DEF ScanType
  <2>3. /\ ListsAll(collected) /\ collected.queue = read.queue /\ collected.decoded = read.decoded
        /\ collected.considered = read.considered
        /\ collected.scheduled = read.scheduled /\ collected.reasons = read.reasons
    <3>1. h \in Places /\ h \in CodeAt /\ i.source = h
      BY <1>2, <1>3, <1>5
    <3>2. LET t == Collect(read, i)
          IN  /\ ListsAll(t) /\ t.queue = read.queue /\ t.decoded = read.decoded /\ t.considered = read.considered
              /\ t.scheduled = read.scheduled /\ t.reasons = read.reasons /\ t.bytes = read.bytes
      BY <2>1, <2>2, <3>1, CollectListsAll
    <3> QED BY <3>2
  <2> QED BY <1>10, <2>3
<1> HIDE DEF collected
<1>13. ScanInLimits(f) /\ StandsAs(f, collected) /\ f \in ScanType /\ Spreads(collected, f, ScanWays(i))
  BY <1>5, <1>11, TraverseKeeps, TraverseSpreads DEF ScanInLimits
<1> HIDE DEF f
<1>14. /\ c.queue = f.queue /\ c.scheduled = f.scheduled /\ c.reasons = f.reasons /\ c.bytes = f.bytes
       /\ c.decoded = f.decoded /\ c.found = f.found /\ c.matching = f.matching /\ c.considered = f.considered
       /\ c.block = (IF GoesOn(i) THEN f.block ELSE NoSource)
       /\ GoesOn(i) => c.cursor = f.cursor /\ c.window = f.window
  <2>1. CASE GoesOn(i)
    <3>1. c = f
      BY <1>7, <2>1
    <3> QED BY <2>1, <3>1
  <2>2. CASE ~GoesOn(i)
    <3>1. c = [f EXCEPT !.block = NoSource]
      BY <1>7, <2>2
    <3> HIDE DEF c
    <3>2. /\ c.queue = f.queue /\ c.scheduled = f.scheduled /\ c.reasons = f.reasons /\ c.bytes = f.bytes
          /\ c.decoded = f.decoded /\ c.found = f.found /\ c.matching = f.matching /\ c.considered = f.considered
          /\ c.block = NoSource
      BY <1>13, <3>1 DEF ScanType
    <3> QED BY <2>2, <3>2
  <2> QED BY <2>1, <2>2
<1> HIDE DEF c
<1>15. /\ c.decoded = scan.decoded \cup {h} /\ c.considered = scan.considered
       /\ c.bytes = scan.bytes + size
       /\ c.block = (IF GoesOn(i) THEN scan.block ELSE NoSource)
       /\ GoesOn(i) => c.cursor = scan.cursor + size /\ c.window = scan.window
  <2>1. f.decoded = collected.decoded /\ f.considered = collected.considered
    BY <1>13 DEF Spreads, FoundAs
  <2>2. /\ f.block = read.block /\ f.bytes = read.bytes /\ f.window = read.window /\ f.cursor = read.cursor
    BY <1>11, <1>13 DEF StandsAs
  <2> QED BY <1>10, <1>12, <1>14, <2>1, <2>2
<1>16. /\ ToSet(scan.queue) \subseteq ToSet(c.queue)
       /\ scan.scheduled \subseteq c.scheduled /\ c.scheduled \subseteq scan.scheduled \cup ToSet(c.queue)
       /\ scan.reasons \subseteq c.reasons
       /\ c.reasons = {} => \A t \in ScanWays(i) : t.component \in scan.considered => t \in c.scheduled
  <2>1. /\ ToSet(collected.queue) \subseteq ToSet(f.queue)
        /\ collected.scheduled \subseteq f.scheduled /\ f.scheduled \subseteq collected.scheduled \cup ToSet(f.queue)
        /\ collected.reasons \subseteq f.reasons
    BY <1>13 DEF Spreads
  <2>2. f.reasons = {} => \A t \in ScanWays(i) : t.component \in collected.considered => t \in f.scheduled
    BY <1>13 DEF Spreads
  <2> QED BY <1>12, <1>14, <2>1, <2>2
<1>17. ListsAll(c)
  <2>1. f.decoded = collected.decoded /\ f.found = collected.found /\ f.matching = collected.matching
    BY <1>13 DEF Spreads, FoundAs
  <2> QED BY <1>12, <1>14, <2>1 DEF ListsAll
<1>18. GoesOn(i) => HereIn(c) = i.next /\ i.next.at = h.at + size /\ i.next.component = h.component
  <2>1. scan.block \in Places
    BY <1>1 DEF ScanType
  <2>2. h = AtAddress(scan.block, scan.block.at + scan.cursor)
    BY <1>2 DEF HereIn
  <2>3. scan.block.at + (scan.cursor + size) = h.at + size
    BY <1>1, <1>2, <1>4, <2>1 DEF Places
  <2> QED BY <1>2, <1>6, <1>15, <2>1, <2>2, <2>3 DEF HereIn, AtAddress, Places
<1>19. scan.bytes < call.limits.bytes
  BY <1>1, <1>3, <1>9 DEF ScanAtLimit, ScanLimits
<1>20. LET window == scan.window - scan.cursor
           rest == End(h) - h.at
       IN  window <= rest /\ (window = rest \/ window = call.limits.bytes - scan.bytes)
  <2>1. ScanWindowIsRest(scan)
    BY <1>1 DEF ScanKnown
  <2> QED BY <1>1, <1>2, <1>9, <1>19, <2>1 DEF ScanWindowIsRest
<1>21. ASSUME c.block # NoSource PROVE ScanWindowIsRest(c)
  <2>1. GoesOn(i) /\ c.block = scan.block
    BY <1>15, <1>21
  <2>2. /\ c.window = scan.window /\ c.cursor = scan.cursor + size /\ HereIn(c).at = h.at + size
        /\ End(c.block) = End(h)
    BY <1>2, <1>15, <1>18, <2>1
  <2> QED BY <1>1, <1>2, <1>4, <1>9, <1>15, <1>20, <2>2 DEF ScanWindowIsRest
<1>22. ScanCovers(c)
  <2>1. c.reasons = {} => c.considered = InScope /\ scan.reasons = {} /\ scan.considered = InScope
    BY <1>15, <1>16 DEF ScanKnown, ScanCovers
  <2> SUFFICES ASSUME ScanBytesToSpare(c)
               PROVE  /\ \A q \in c.scheduled \cup Roots : ScanCovered(c, q)
                      /\ \A d \in c.decoded : \A t \in Successors(d, TRUE) : t.component \in InScope => ScanCovered(c, t)
    BY <2>1 DEF ScanCovers
  <2>2. c.reasons = {} /\ ScanBytesToSpare(scan)
    BY <1>1, <1>4, <1>9, <1>15, <1>16 DEF ScanBytesToSpare
  <2>3. ASSUME NEW x, ScanCovered(scan, x) PROVE ScanCovered(c, x)
    <3>1. CASE x \in ToSet(scan.queue)
      BY <1>16, <3>1 DEF ScanCovered, ScanPending
    <3>2. CASE x = h
      BY <1>15, <3>2 DEF ScanCovered
    <3>3. CASE Runs(x) => x \in scan.decoded
      BY <1>15, <3>3 DEF ScanCovered
    <3> QED BY <1>2, <2>3, <3>1, <3>2, <3>3 DEF ScanCovered, ScanPending
  <2>4. \A q \in c.scheduled \cup Roots : ScanCovered(c, q)
    <3>1. \A q \in ToSet(c.queue) : ScanCovered(c, q)
      BY DEF ScanCovered, ScanPending
    <3> QED BY <1>16, <2>2, <2>3, <3>1 DEF ScanKnown, ScanCovers
  <2>5. \A t \in Successors(h, TRUE) : t.component \in InScope => ScanCovered(c, t)
    <3>1. \A t \in ScanWays(i) : t.component \in InScope => ScanCovered(c, t)
      BY <1>16, <2>1, <2>2, <2>4
    <3>2. GoesOn(i) => ScanCovered(c, i.next)
      BY <1>1, <1>15, <1>18 DEF ScanCovered, ScanPending
    <3> QED BY <1>8, <3>1, <3>2
  <2>6. \A d \in scan.decoded : \A t \in Successors(d, TRUE) : t.component \in InScope => ScanCovered(c, t)
    BY <2>2, <2>3 DEF ScanKnown, ScanCovers
  <2> QED BY <1>15, <2>4, <2>5, <2>6
<1> QED BY <1>17, <1>21, <1>22 DEF ScanKnown, c

LEMMA ScanFactsStay ==
    ASSUME UNCHANGED call, scan' = NoScan \/ ScanKnown(scan')
    PROVE  ScanFacts'
<1>1. \A s : End(s)' = End(s) /\ Runs(s)' = Runs(s)
  BY DEF End, Runs
<1>2. /\ Everywhere' = Everywhere /\ Selected' = Selected /\ InScope' = InScope /\ Entries' = Entries /\ Seeds' = Seeds
  BY DEF Everywhere, Selected, InScope, Entries, Seeds
<1>3. \A s : Successors(s, TRUE)' = Successors(s, TRUE)
  BY DEF Successors, End
<1>4. \A S : ReferencesIn(S)' = ReferencesIn(S)
  BY DEF ReferencesIn
<1>5. Roots' = Roots
  BY <1>2 DEF Roots
<1>6. CASE scan' = NoScan
  BY <1>6 DEF ScanFacts, NoScan, NoSource, Source, Main, Nowhere
<1>7. CASE ScanKnown(scan')
  <2> DEFINE s == scan'
  <2>1. HereIn(scan)' = HereIn(s)
    BY DEF HereIn
  <2>2. \A x : ScanCovered(scan, x)' = ScanCovered(s, x)
    BY <1>1, <2>1 DEF ScanCovered, ScanPending
  <2>3. ScanBytesToSpare(scan)' = ScanBytesToSpare(s) /\ ScanWindowIsRest(scan)' = ScanWindowIsRest(s)
    BY <1>1, <2>1 DEF ScanBytesToSpare, ScanWindowIsRest
  <2>4. ScanCovers(scan)'
    BY <1>2, <1>3, <1>5, <1>7, <2>2, <2>3 DEF ScanKnown, ScanCovers
  <2>5. ListsAll(scan)'
    BY <1>4, <1>7 DEF ScanKnown, ListsAll
  <2>6. (scan.block # NoSource => ScanWindowIsRest(scan))'
    BY <1>7, <2>3 DEF ScanKnown, NoSource, Source, Main, Nowhere
  <2> QED BY <2>4, <2>5, <2>6 DEF ScanFacts, ScanKnown
<1> QED BY <1>6, <1>7

LEMMA ScanFactsNext ==
    ASSUME WithinLimits, ScanFinds, ScanFacts, [Next]_vars
    PROVE  ScanFacts'
<1>1. CallTypeOK /\ ScanOK
  BY DEF WithinLimits
<1>2. ASSUME UNCHANGED <<call, scan>> PROVE ScanFacts'
  BY <1>2, ScanFactsStay DEF ScanFacts
<1>3. CASE BeginScan
  <2>1. scan' = ScanStart /\ UNCHANGED call
    BY <1>3 DEF BeginScan
  <2> QED BY <1>1, <2>1, ScanStartKnown, ScanFactsStay
<1>4. CASE ScanNext /\ UNCHANGED disc
  <2>1. ASSUME ScanTakeBlock \/ ScanGiveUp \/ ScanStopBlock \/ ScanInstruction PROVE ScanFacts'
    <3>1. UNCHANGED call /\ scan.open
      BY <2>1 DEF ScanTakeBlock, ScanGiveUp, ScanStopBlock, ScanInstruction, ScanRunning
    <3>2. ScanKnown(scan)
      BY <3>1 DEF ScanFacts, NoScan
    <3>3. ScanKnown(scan')
      BY <1>1, <2>1, <3>2, ScanTakeBlockKnown, ScanGiveUpKnown, ScanStopBlockKnown, ScanInstructionKnown
    <3> QED BY <3>1, <3>3, ScanFactsStay
  <2>2. ASSUME AnswerReferences \/ AnswerUnproven \/ StartFunction \/ AnswerFunction PROVE ScanFacts'
    BY <1>2, <2>2 DEF AnswerReferences, AnswerUnproven, StartFunction, AnswerFunction
  <2> QED BY <1>4, <2>1, <2>2 DEF ScanNext
<1>5. ASSUME \/ BeginGraph \/ BeginDiscovery \/ Refuse \/ Return \/ UNCHANGED vars
             \/ FlowNext /\ UNCHANGED <<scan, disc>>
             \/ DiscoveryNext /\ UNCHANGED scan
      PROVE  UNCHANGED <<call, scan>>
  BY <1>5 DEF BeginGraph, BeginDiscovery, Refuse, Return, vars, FlowNext, TakeBlock, StopBlock, DecodeInstruction,
              AnswerGraph, DiscoveryNext, StartGraph, FailGraph, LeaveWork, SkipSeed, UseGraph, AnswerFunctions
<1> QED BY <1>2, <1>3, <1>4, <1>5 DEF Next

SearchIsOver == scan.open /\ scan.block = NoSource /\ scan.queue = <<>>

\* A finished search that gives no reason and has bytes to spare has read all there is.
LEMMA ReadsAllCode ==
    ASSUME CallTypeOK, ScanFinds, ScanFacts, SearchIsOver, ScanBytesToSpare(scan)
    PROVE  scan.decoded = ScopeCode
<1>1. ScanKnown(scan) /\ FindsFirst(scan) /\ scan.queue = <<>> /\ scan.block = NoSource
  BY DEF ScanFacts, ScanFinds, SearchIsOver, NoScan
<1>2. ToSet(scan.queue) = {}
  BY <1>1 DEF ToSet
<1>3. \A x : ScanCovered(scan, x) => (Runs(x) => x \in scan.decoded)
  BY <1>1, <1>2 DEF ScanCovered, ScanPending
<1>4. CodeIn(Entries \cup Seeds, InScope) \subseteq scan.decoded
  BY <1>1, <1>3 DEF ScanKnown, ScanCovers, CodeIn, Roots
<1>5. \A s \in scan.decoded \cap CodeAt : CodeIn(Successors(s, TRUE), InScope) \subseteq scan.decoded
  BY <1>1, <1>3 DEF ScanKnown, ScanCovers, CodeIn
<1>6. ScopeCode \subseteq scan.decoded
  BY <1>4, <1>5, ReachIsLeast DEF ScopeCode
<1> QED BY <1>1, <1>6 DEF FindsFirst

\* One that says complete lists every reference.
LEMMA CompleteFindsAll ==
    ASSUME WithinLimits, ScanFinds, ScanFacts, SearchIsOver, ScanStatus = "complete",
           scan.bytes + 4 <= call.limits.bytes
    PROVE  ToSet(scan.found) = ScopeReferences
<1>1. scan \in ScanType
  BY ScanIsTyped DEF WithinLimits, SearchIsOver
<1>2. scan.reasons = {} /\ scan.matching <= call.limits.xrefs
  <2>1. ScanReasons = {}
    BY DEF ScanStatus
  <2>2. scan.matching \in Nat /\ call.limits.xrefs \in Nat
    BY <1>1, CallLimitsTyped DEF ScanType, CallLimits, WithinLimits
  <2> QED BY <2>1, <2>2 DEF ScanReasons, ScanLimits
<1>3. scan.decoded = ScopeCode
  BY <1>2, ReadsAllCode DEF WithinLimits, ScanBytesToSpare
<1>4. ScanKnown(scan) /\ FindsFirst(scan)
  BY DEF ScanFacts, ScanFinds, SearchIsOver, NoScan
<1>5. ToSet(scan.found) = ReferencesIn(scan.decoded)
  BY <1>2, <1>4 DEF ScanKnown, ListsAll, FindsFirst
<1> QED BY <1>3, <1>5 DEF ScopeReferences, ReferencesIn

LEMMA ScanFactsSuffice ==
    ASSUME WithinLimits, ScanFinds, ScanFacts
    PROVE  scan.open /\ scan.bytes + 4 <= call.limits.bytes => CompleteIsWhole
BY CompleteFindsAll DEF CompleteIsWhole, SearchIsOver, ScanIsDone, ScanRunning

\* A finished search that says complete, with four bytes of its limit to spare, has found every reference in the
\* code that its entries and seeds reach in its components (findNdsReferences).
THEOREM SearchIsWhole == Spec => [](scan.open /\ scan.bytes + 4 <= call.limits.bytes => CompleteIsWhole)
<1>1. Init => WithinLimits /\ ScanFinds /\ ScanFacts
  BY WithinLimitsInit DEF Init, ScanFinds, ScanFacts
<1>2. WithinLimits /\ ScanFinds /\ ScanFacts /\ [Next]_vars => (WithinLimits /\ ScanFinds /\ ScanFacts)'
  BY WithinLimitsNext, ScanFindsNext, ScanFactsNext
<1>3. WithinLimits /\ ScanFinds /\ ScanFacts
        => (scan.open /\ scan.bytes + 4 <= call.limits.bytes => CompleteIsWhole)
  BY ScanFactsSuffice
<1> QED BY <1>1, <1>2, <1>3, PTL DEF Spec

-----------------------------------------------------------------------------
(* The verdict on a function: between the search and the answer nothing    *)
(* changes what it is made from, a proof among the references is a call of *)
(* the entry, and a call of it would be one.                               *)

\* The callers in the code that is searched, resolved again from their addresses, are themselves.
CallersAreUnique == \A s \in ScopeCode : ResolveAgain(call.rom, call.p, s) = Resolved(s)

\* The analysis of a function goes on, and answers, with the verdict of a search that is over.
VerdictFacts ==
    call.tool = "function" =>
        /\ ~disc.open
        /\ scan.open => Requested.status = "resolved"
        /\ graph.open => SearchIsOver /\ ProofStatus = "proven"
        /\ answer.status \in {"proven", "not-proven-function-entry"} => SearchIsOver /\ ProofStatus = answer.status

LEMMA VerdictFactsInit ==
    ASSUME Init
    PROVE  VerdictFacts
BY DEF Init, VerdictFacts, Idle, NoAnswer, NoScan, NoDiscovery

LEMMA VerdictStays ==
    ASSUME UNCHANGED <<call, scan>>
    PROVE  /\ Requested' = Requested /\ ProofStatus' = ProofStatus
           /\ SearchIsOver' = SearchIsOver
           /\ ScanIsDone => SearchIsOver
<1>1. Requested' = Requested /\ Selected' = Selected
  BY DEF Requested, Selected
<1>2. ScanReasons' = ScanReasons
  BY DEF ScanReasons, ScanLimits
<1>3. \A c : ComponentCoverage(c)' = ComponentCoverage(c)
  BY DEF ComponentCoverage
<1>4. ScanStatus' = ScanStatus
  BY <1>1, <1>2, <1>3 DEF ScanStatus
<1>5. \A r : IsProof(r)' = IsProof(r)
  BY <1>1 DEF IsProof
<1>6. Callers' = Callers
  BY <1>5 DEF Callers
<1>7. \A s : IsProgramEntry(s)' = IsProgramEntry(s)
  BY DEF IsProgramEntry
<1>8. ProofStatus' = ProofStatus
  BY <1>1, <1>4, <1>6, <1>7 DEF ProofStatus
<1> QED BY <1>1, <1>8 DEF SearchIsOver, ScanIsDone, ScanRunning

LEMMA VerdictFactsNext ==
    ASSUME VerdictFacts, [Next]_vars
    PROVE  VerdictFacts'
<1> SUFFICES ASSUME call.tool = "function", UNCHANGED call
             PROVE  /\ ~disc'.open
                    /\ scan'.open => Requested.status = "resolved"
                    /\ graph'.open => SearchIsOver' /\ ProofStatus' = "proven"
                    /\ answer'.status \in {"proven", "not-proven-function-entry"}
                         => SearchIsOver' /\ ProofStatus' = answer'.status
  <2>1. UNCHANGED call
    BY DEF Next, BeginGraph, BeginScan, BeginDiscovery, Refuse, Return, vars, FlowNext, TakeBlock, StopBlock,
           DecodeInstruction, AnswerGraph, ScanNext, ScanTakeBlock, ScanGiveUp, ScanStopBlock, ScanInstruction,
           AnswerReferences, AnswerUnproven, StartFunction, AnswerFunction, DiscoveryNext, StartGraph, FailGraph,
           LeaveWork, SkipSeed, UseGraph, AnswerFunctions
  <2>2. Requested' = Requested
    BY <2>1 DEF Requested
  <2> QED BY <2>1, <2>2 DEF VerdictFacts
<1>1. /\ ~disc.open
      /\ scan.open => Requested.status = "resolved"
      /\ graph.open => SearchIsOver /\ ProofStatus = "proven"
      /\ answer.status \in {"proven", "not-proven-function-entry"} => SearchIsOver /\ ProofStatus = answer.status
  BY DEF VerdictFacts
<1>2. ASSUME UNCHANGED scan
      PROVE  SearchIsOver' = SearchIsOver /\ ProofStatus' = ProofStatus /\ (ScanIsDone => SearchIsOver)
  BY <1>2, VerdictStays
<1>3. CASE UNCHANGED <<scan, disc, answer>> /\ (graph'.open => graph.open)
  BY <1>1, <1>2, <1>3
<1>4. CASE BeginScan
  <2>1. Requested.status = "resolved" /\ answer = NoAnswer /\ ~graph.open
    BY <1>4 DEF BeginScan, IsAccepted, Fresh
  <2>2. UNCHANGED <<graph, answer, disc>>
    BY <1>4 DEF BeginScan
  <2> QED BY <1>1, <2>1, <2>2 DEF NoAnswer
<1>5. CASE Refuse
  <2>1. answer' = [status |-> "refused"] /\ UNCHANGED <<graph, scan, disc>>
    BY <1>5 DEF Refuse
  <2> QED BY <1>1, <1>2, <2>1
<1>6. ASSUME BeginGraph \/ BeginDiscovery \/ DiscoveryNext \/ AnswerGraph \/ AnswerReferences PROVE FALSE
  BY <1>1, <1>6 DEF BeginGraph, BeginDiscovery, AnswerGraph, AnswerReferences, DiscoveryNext, StartGraph, FailGraph,
                    LeaveWork, SkipSeed, UseGraph, AnswerFunctions, CanStart, DiscoveryRunning
<1>7. ASSUME TakeBlock \/ StopBlock \/ DecodeInstruction
      PROVE  graph.open /\ UNCHANGED answer
  BY <1>7 DEF TakeBlock, StopBlock, DecodeInstruction, InBlock
<1>8. CASE FlowNext /\ UNCHANGED <<scan, disc>>
  BY <1>3, <1>6, <1>7, <1>8 DEF FlowNext
<1>9. CASE (ScanTakeBlock \/ ScanGiveUp \/ ScanStopBlock \/ ScanInstruction) /\ UNCHANGED disc
  <2>1. scan.open /\ answer = NoAnswer /\ ~SearchIsOver /\ UNCHANGED <<graph, answer>>
    BY <1>9 DEF ScanTakeBlock, ScanGiveUp, ScanStopBlock, ScanInstruction, ScanRunning, SearchIsOver
  <2> QED BY <1>1, <1>9, <2>1 DEF NoAnswer
<1>10. CASE AnswerUnproven /\ UNCHANGED disc
  <2>1. ScanIsDone /\ answer' = [status |-> ProofStatus, callers |-> {}] /\ UNCHANGED <<graph, scan>>
    BY <1>10 DEF AnswerUnproven
  <2>2. answer'.status = ProofStatus
    BY <2>1
  <2> QED BY <1>1, <1>2, <1>10, <2>1, <2>2
<1>11. CASE StartFunction /\ UNCHANGED disc
  <2>1. ScanIsDone /\ ProofStatus = "proven" /\ UNCHANGED <<scan, answer>>
    BY <1>11 DEF StartFunction
  <2> QED BY <1>1, <1>2, <1>11, <2>1
<1>12. CASE AnswerFunction /\ UNCHANGED disc
  <2>1. graph.open /\ answer' = [status |-> "proven", callers |-> Callers] /\ UNCHANGED <<graph, scan>>
    BY <1>12 DEF AnswerFunction, GraphIsDone
  <2>2. answer'.status = "proven"
    BY <2>1
  <2> QED BY <1>1, <1>2, <1>12, <2>1, <2>2
<1>13. CASE ScanNext /\ UNCHANGED disc
  BY <1>6, <1>9, <1>10, <1>11, <1>12, <1>13 DEF ScanNext
<1>14. CASE Return \/ UNCHANGED vars
  BY <1>3, <1>14 DEF Return, vars
<1> QED BY <1>4, <1>5, <1>6, <1>8, <1>13, <1>14 DEF Next

\* A resolved target is at the address and in the mode of the instruction.
LEMMA TargetIsOperand ==
    ASSUME NEW rom, NEW p, NEW s, NEW a, NEW mode
    PROVE  LET t == ControlFlowTarget(rom, p, s, a, mode)
           IN  t.status = "resolved" => t = Resolved(t.source) /\ t.source.at = a /\ t.source.mode = mode
<1>1. ASSUME NEW owner, Resolve(rom, p, a, mode, owner).status = "resolved"
      PROVE  LET t == Resolve(rom, p, a, mode, owner)
             IN  t = Resolved(t.source) /\ t.source.at = a /\ t.source.mode = mode
  BY <1>1 DEF Resolve, Resolved, Unresolved, Source
<1> QED BY <1>1 DEF ControlFlowTarget, Resolved, Unresolved, Source

LEMMA RequestedIsOperand ==
    ASSUME Requested.status = "resolved"
    PROVE  Requested = Resolved(Requested.source) /\ Requested.source.at = call.target.at
BY DEF Requested, Resolve, Resolved, Unresolved, Source

\* A caller of the requested place among the references is a call of it in the code that is searched.
LEMMA ProofIsCall ==
    ASSUME CallersAreUnique, Requested.status = "resolved", NEW s \in ScopeCode,
           NEW r \in ReferencesTo(call.rom, call.p, s, call.target.at), IsProof(r)
    PROVE  Requested.source \in CallTargets(s)
<1> DEFINE i == InstructionAt(call.rom, call.p, s)
<1>1. i.kind = "call" /\ i.immediate = call.target.at /\ r.site = s /\ r.mode = i.targetMode
  <2> DEFINE made == [kind |-> "direct-call", site |-> s, mode |-> i.targetMode]
  <2>1. r.kind = "direct-call"
    BY DEF IsProof
  <2>2. i.kind = "call" /\ i.immediate = call.target.at /\ r = made
    <3> HIDE DEF i
    <3> QED BY <2>1 DEF ReferencesTo, i
  <2> QED BY <2>2
<1>2. ResolveAgain(call.rom, call.p, s).source = s
  <2>1. ResolveAgain(call.rom, call.p, s) = Resolved(s)
    BY DEF CallersAreUnique
  <2> QED BY <2>1 DEF Resolved
<1>3. ControlFlowTarget(call.rom, call.p, s, i.immediate, i.targetMode) = Requested
  BY <1>1, <1>2 DEF IsProof
<1>4. i.target = ControlFlowTarget(call.rom, call.p, s, i.immediate, i.targetMode)
  BY <1>1 DEF InstructionAt, DirectKinds
<1> HIDE DEF i
<1> QED BY <1>1, <1>3, <1>4 DEF CallTargets, i

\* A call of the requested place is a proof, in the list of references to its address.
LEMMA CallIsProof ==
    ASSUME CallersAreUnique, Requested.status = "resolved", NEW s \in ScopeCode,
           Requested.source \in CallTargets(s)
    PROVE  \E r \in ReferencesTo(call.rom, call.p, s, call.target.at) : IsProof(r)
<1> DEFINE i == InstructionAt(call.rom, call.p, s)
           r == [kind |-> "direct-call", site |-> s, mode |-> i.targetMode]
<1>1. i.kind = "call" /\ i.target.status = "resolved" /\ i.target.source = Requested.source
  BY DEF CallTargets
<1>2. i.target = ControlFlowTarget(call.rom, call.p, s, i.immediate, i.targetMode)
  BY <1>1 DEF InstructionAt, DirectKinds
<1> HIDE DEF i
<1>3. /\ i.target = Resolved(i.target.source)
      /\ i.target.source.at = i.immediate /\ i.target.source.mode = i.targetMode
  BY <1>1, <1>2, TargetIsOperand
<1>4. Requested = i.target /\ i.immediate = call.target.at
  BY <1>1, <1>3, RequestedIsOperand
<1>5. r \in ReferencesTo(call.rom, call.p, s, call.target.at)
  BY <1>1, <1>4 DEF ReferencesTo, i
<1>6. ResolveAgain(call.rom, call.p, s) = Resolved(s)
  BY DEF CallersAreUnique
<1>7. IsProof(r)
  BY <1>1, <1>2, <1>3, <1>4, <1>6 DEF IsProof, Resolved
<1> QED BY <1>5, <1>7

LEMMA VerdictFactsSuffice ==
    ASSUME WithinLimits, ScanFinds, ScanFacts, VerdictFacts, CallersAreUnique,
           answer.status = "proven" \/ scan.bytes + 4 <= call.limits.bytes
    PROVE  VerdictIsRight
<1> SUFFICES ASSUME call.tool = "function", answer.status \in {"proven", "not-proven-function-entry"}
             PROVE  answer.status = "proven"
                      <=> IsProgramEntry(Requested.source) \/ \E s \in ScopeCode : Requested.source \in CallTargets(s)
  BY DEF VerdictIsRight
<1>1. SearchIsOver /\ ProofStatus = answer.status /\ Requested.status = "resolved"
  BY DEF VerdictFacts, SearchIsOver
<1>2. FindsFirst(scan)
  BY <1>1 DEF ScanFinds, SearchIsOver, NoScan
<1>3. ASSUME answer.status = "proven", ~IsProgramEntry(Requested.source)
      PROVE  \E s \in ScopeCode : Requested.source \in CallTargets(s)
  <2>1. Callers # {}
    BY <1>1, <1>3 DEF ProofStatus
  <2>2. PICK r \in ToSet(scan.found) : IsProof(r)
    BY <2>1 DEF Callers
  <2>3. PICK s \in ScopeCode : r \in ReferencesTo(call.rom, call.p, s, call.target.at)
    BY <1>2 DEF FindsFirst, ReferencesIn
  <2> QED BY <1>1, <2>2, <2>3, ProofIsCall
<1>4. ASSUME answer.status = "not-proven-function-entry"
      PROVE  /\ ~IsProgramEntry(Requested.source)
             /\ ~\E s \in ScopeCode : Requested.source \in CallTargets(s)
  <2>1. ~IsProgramEntry(Requested.source) /\ Callers = {} /\ ScanStatus = "complete"
    BY <1>1, <1>4 DEF ProofStatus
  <2>2. ToSet(scan.found) = ScopeReferences
    BY <1>1, <1>4, <2>1, CompleteFindsAll
  <2>3. ASSUME NEW s \in ScopeCode, Requested.source \in CallTargets(s) PROVE FALSE
    <3>1. PICK r \in ReferencesTo(call.rom, call.p, s, call.target.at) : IsProof(r)
      BY <1>1, <2>3, CallIsProof
    <3>2. r \in ToSet(scan.found)
      BY <2>2 DEF ScopeReferences
    <3> QED BY <2>1, <3>1, <3>2 DEF Callers
  <2> QED BY <2>1, <2>3
<1> QED BY <1>3, <1>4

\* The verdict on a function entry is right when the callers in the code that is searched are themselves when they are
\* resolved again (analyzeNdsFunction): that an entry is proven whatever the limits, that it is not with four bytes of
\* the limit to spare.
THEOREM VerdictsAreRight ==
    Spec => [](CallersAreUnique /\ (answer.status = "proven" \/ scan.bytes + 4 <= call.limits.bytes) => VerdictIsRight)
<1>1. Init => WithinLimits /\ ScanFinds /\ ScanFacts /\ VerdictFacts
  BY WithinLimitsInit, VerdictFactsInit DEF Init, ScanFinds, ScanFacts
<1>2. WithinLimits /\ ScanFinds /\ ScanFacts /\ VerdictFacts /\ [Next]_vars
        => (WithinLimits /\ ScanFinds /\ ScanFacts /\ VerdictFacts)'
  BY WithinLimitsNext, ScanFindsNext, ScanFactsNext, VerdictFactsNext
<1>3. WithinLimits /\ ScanFinds /\ ScanFacts /\ VerdictFacts
        => (CallersAreUnique /\ (answer.status = "proven" \/ scan.bytes + 4 <= call.limits.bytes) => VerdictIsRight)
  BY VerdictFactsSuffice
<1> QED BY <1>1, <1>2, <1>3, PTL DEF Spec

=============================================================================
