---------------------------- MODULE StaticAnalysis ----------------------------
(***************************************************************************)
(* The static-analysis tools over one ROM: a call of nds_analyze_control_- *)
(* flow ("cfg"), nds_find_xrefs ("xrefs"), nds_analyze_function            *)
(* ("function") or nds_discover_functions ("functions"), from its checks   *)
(* to its answer.  The code that is reachable and the references in it are *)
(* defined here once more, without worklists and limits, to compare.       *)
(***************************************************************************)
EXTENDS ReferenceScan, FunctionDiscovery

CONSTANTS Programs,  \* the ROMs
          Requests   \* what the tools are called with: tool, p, scope, seeds, target, limits, cfg

Positive == Nat \ {0}
GraphLimits == {"blocks", "instructions", "bytes", "edges"}
CallLimits == GraphLimits \cup {"components", "xrefs", "functions", "callSites"}

\* A ROM map, and what the decoder returns for its code: finitely much, of sizes that are not negative.
OverlayRecord ==
    [id : Nat, ram : Int, ramSize : Int, bss : Int, file : Int, start : Int, end : Int, csize : Int,
     compressed : BOOLEAN]
ASSUME ProgramsAssumption ==
    \A rom \in Programs :
        /\ \A p \in Processors :
               /\ rom.exe[p] \in [start : Int, end : Int, ram : Int, ramEnd : Int]
               /\ rom.entry[p] \in Int
               /\ rom.overlays[p] \in Seq(OverlayRecord)
        /\ IsFiniteSet(DOMAIN rom.code)
        /\ \A s \in DOMAIN rom.code :
               rom.code[s] \in [size : Nat, flags : SUBSET STRING, immediate : Int, displacement : Int]

\* Code is at addresses, and an instruction has four bytes, or two in Thumb.
ASSUME CodeAssumption ==
    \A rom \in Programs : \A s \in DOMAIN rom.code : s.at \in Nat /\ rom.code[s].size \in {MinimumSize[s.mode], 4}

\* The decoder gives a direct branch or call no target that is misaligned for its mode: the tools throw on one.
ASSUME AlignmentAssumption ==
    \A rom \in Programs : \A s \in DOMAIN rom.code :
        FlowKind(rom.code[s]) \in DirectKinds =>
            rom.code[s].immediate % MinimumSize[TargetMode(s, rom.code[s])] = 0

\* A request that passed the schema of its tool; every limit is a positive safe integer.
Selector == [at : Int, mode : Modes, owner : Int]
Scope == [main : BOOLEAN, all : BOOLEAN, ids : Seq(Nat)]
ASSUME RequestsAssumption ==
    \A r \in Requests :
        /\ r.p \in Processors /\ r.scope \in Scope /\ r.target \in Selector /\ r.seeds \in Seq(Selector)
        /\ r.limits \in [CallLimits -> Positive] /\ r.cfg \in [GraphLimits -> Positive]

vars == <<call, graph, answer, scan, disc>>

Init ==
    /\ \E rom \in Programs, r \in Requests :
           call = [rom |-> rom, tool |-> r.tool, p |-> r.p, scope |-> r.scope, seeds |-> r.seeds,
                   target |-> r.target, limits |-> r.limits, cfg |-> r.cfg]
    /\ graph = Idle /\ answer = NoAnswer /\ scan = NoScan /\ disc = NoDiscovery

-----------------------------------------------------------------------------
(* A call begins *)

Fresh == answer = NoAnswer /\ ~graph.open /\ ~scan.open /\ ~disc.open

ScopeAndSeedsAreValid ==
    ScopeIsValid(call.rom, call.p, call.scope) /\ SeedsAreValid(call.rom, call.p, call.scope, call.seeds)

\* The searches for functions also want the program entry, when main is selected.
FunctionSearchIsValid ==
    /\ ScopeAndSeedsAreValid
    /\ call.scope.main => /\ ProgramEntry(call.rom, call.p).status = "resolved"
                          /\ ProgramEntry(call.rom, call.p).source.component = Main

IsAccepted ==
    CASE call.tool = "cfg" -> Requested.status = "resolved"
      [] call.tool = "xrefs" -> ScopeAndSeedsAreValid
      [] call.tool = "function" -> Requested.status = "resolved" /\ FunctionSearchIsValid
      [] call.tool = "functions" -> FunctionSearchIsValid

BeginGraph ==
    /\ Fresh /\ call.tool = "cfg" /\ IsAccepted
    /\ graph' = EmptyGraph(Requested.source, call.cfg)
    /\ UNCHANGED <<call, answer, scan, disc>>

BeginScan ==
    /\ Fresh /\ call.tool \in {"xrefs", "function"} /\ IsAccepted
    /\ scan' = ScanStart
    /\ UNCHANGED <<call, graph, answer, disc>>

BeginDiscovery ==
    /\ Fresh /\ call.tool = "functions" /\ IsAccepted
    /\ disc' = DiscoveryStart
    /\ UNCHANGED <<call, graph, answer, scan>>

Refuse ==
    /\ Fresh /\ ~IsAccepted
    /\ answer' = [status |-> "refused"]
    /\ UNCHANGED <<call, graph, scan, disc>>

\* A call that was answered is over; one that was not can always go on.
Return == answer # NoAnswer /\ UNCHANGED vars

Next ==
    \/ BeginGraph \/ BeginScan \/ BeginDiscovery \/ Refuse
    \/ FlowNext /\ UNCHANGED <<scan, disc>>
    \/ ScanNext /\ UNCHANGED disc
    \/ DiscoveryNext /\ UNCHANGED scan
    \/ Return

Spec == Init /\ [][Next]_vars

-----------------------------------------------------------------------------
(* The code that is reachable *)

Everywhere == {Main} \cup {o.id : o \in ToSet(call.rom.overlays[call.p])}

Runs(s) == CanDecode(call.rom, s, End(s) - s.at)

\* The places control may go to from s, for the code the tools follow.
Successors(s, withCalls) ==
    LET i == InstructionAt(call.rom, call.p, s)
        falls == i.kind \in {"fallthrough", "call", "indirect-call", "conditional-branch"}
        jumps == i.kind \in {"conditional-branch", "unconditional-branch"} \/ (withCalls /\ i.kind = "call")
    IN  {t \in {i.next} : falls /\ t.at < End(t)}
        \cup {t \in {i.target.source} : jumps /\ i.target.status = "resolved"}

\* The code in S, inside the components of where.
CodeIn(S, where) == {s \in S : s.component \in where /\ Runs(s)}

\* What next leads to from start, as often as it takes.
ReachedFrom(next, start) ==
    LET size == Cardinality(DOMAIN next)
        wave[n \in 0..size] ==
            IF n = 0 THEN [all |-> start, last |-> start]
            ELSE LET before == wave[n - 1]
                     new == (UNION {next[s] : s \in before.last}) \ before.all
                 IN  [all |-> before.all \cup new, last |-> new]
    IN  wave[size].all

\* The places reached from roots inside the components of where.
Reach(roots, withCalls, where) ==
    ReachedFrom([s \in DOMAIN call.rom.code |-> CodeIn(Successors(s, withCalls), where)], CodeIn(roots, where))

InScope == ToSet(Selected)
Entries == {e.source : e \in {x \in {ProgramEntry(call.rom, call.p)} : Main \in InScope /\ x.status = "resolved"}}
Seeds == ToSet(SeedSources(call.rom, call.p, call.seeds))
ScopeCode == Reach(Entries \cup Seeds, TRUE, InScope)
ScopeReferences == UNION {ReferencesTo(call.rom, call.p, s, call.target.at) : s \in ScopeCode}

CallTargets(s) ==
    LET i == InstructionAt(call.rom, call.p, s)
    IN  {t \in {i.target.source} : i.kind = "call" /\ i.target.status = "resolved"}

\* The functions there are: the entry, and what the code of functions and seeds calls.
Functions ==
    LET body(s) == Reach({s}, FALSE, Everywhere)
        called(S) == {f \in UNION {UNION {CallTargets(t) : t \in body(s)} : s \in S} : f.component \in InScope}
        closure[n \in 0..Cardinality(DOMAIN call.rom.code)] ==
            IF n = 0 THEN Entries \cup called(Seeds)
            ELSE LET before == closure[n - 1] IN before \cup called(before)
    IN  closure[Cardinality(DOMAIN call.rom.code)]

\* The calls among them.
FunctionCalls(all) ==
    LET calls(f, s) == {CallEdge(f, s, t) : t \in CallTargets(s) \cap all}
    IN  UNION {UNION {calls(f, s) : s \in Reach({f}, FALSE, Everywhere)} : f \in all}

-----------------------------------------------------------------------------
(* Properties *)

DecodedIn(g) == {AtAddress(x[1], x[2]) : x \in g.instructions}

(* No limit is overrun at any moment: not by one graph, not by the search, *)
(* and not by the graphs of a discovery taken together, although each is   *)
(* only given what the ones before it have left.                           *)
BudgetsHold ==
    /\ graph.open => /\ Cardinality(graph.scheduled) <= graph.limits.blocks
                     /\ Cardinality(graph.instructions) <= graph.limits.instructions
                     /\ graph.bytes <= graph.limits.bytes
                     /\ Cardinality(graph.edges) <= graph.limits.edges
    /\ scan.open => /\ Cardinality(scan.scheduled) <= call.limits.blocks
                    /\ scan.instructions <= call.limits.instructions
                    /\ scan.bytes <= call.limits.bytes
                    /\ scan.edges <= call.limits.edges
                    /\ Len(scan.found) <= call.limits.xrefs
    /\ disc.open => /\ Cardinality(disc.functions) <= call.limits.functions
                    /\ Cardinality(disc.sites) <= call.limits.callSites
                    /\ \A k \in DOMAIN ReasonOf : Remaining(disc)[k] >= 0

\* The unresolved exit u is of the branch that edge e is made from, and says what its target was found to be.
Accounts(u, e) ==
    LET i == InstructionAt(call.rom, call.p, AtAddress(u.from, u.at))
    IN  /\ u.from = e.from /\ e.type # "conditional-fallthrough"
        /\ i.immediate = e.at /\ i.targetMode = e.mode /\ i.target.status = u.kind

(* A control-flow graph has only code its entry reaches without calls, and *)
(* all of it when it is complete; an edge of a complete graph leads to a   *)
(* block of it, or the graph has the unresolved exit of that very branch.  *)
GraphIsExact ==
    GraphIsDone =>
        LET code == Reach({graph.entry}, FALSE, Everywhere)
        IN  /\ DecodedIn(graph) \subseteq code
            /\ graph.reasons = {} => /\ DecodedIn(graph) = code
                                     /\ \A e \in graph.edges : e.to \in graph.blocks
                                           \/ \E u \in graph.unresolved : Accounts(u, e)

(* A search that says complete has found every reference in the code that  *)
(* is reachable in the selected components: its silence is definitive.     *)
CompleteIsWhole ==
    ScanIsDone /\ ScanStatus = "complete" => ToSet(scan.found) = ScopeReferences

(* What a search returns are references of reachable code, and the first   *)
(* in order of those in the code it decoded.                               *)
FoundIsFirst ==
    ScanIsDone =>
        /\ ToSet(scan.found) \subseteq ScopeReferences
        /\ \A s \in scan.decoded : \A r \in ReferencesTo(call.rom, call.p, s, call.target.at) :
               r \in ToSet(scan.found) \/ \A i \in 1..Len(scan.found) : ~ReferenceBefore(r, scan.found[i])

(* The verdict on a function entry is right: proven only for the entry of  *)
(* the program or the target of a reachable call, and not proven only when *)
(* no reachable call in the selected components has it as its target.      *)
VerdictIsRight ==
    call.tool = "function" /\ answer.status \in {"proven", "not-proven-function-entry"} =>
        (answer.status = "proven"
            <=> IsProgramEntry(Requested.source) \/ \E s \in ScopeCode : Requested.source \in CallTargets(s))

\* An answer has only functions and calls there are; a complete one has all.
AgreesWith(functions, calls) ==
    /\ answer.functions \subseteq functions /\ answer.edges \subseteq calls
    /\ answer.status = "complete" => functions \subseteq answer.functions /\ calls \subseteq answer.edges

(* A discovery lists only functions there are, with only calls there are,  *)
(* and all of both when it says complete.  Every function has its graph;   *)
(* one that functions call has a caller among its proofs, and the callers  *)
(* its proofs name do call it.                                             *)
DiscoveryIsExact ==
    call.tool = "functions" /\ answer.status \in {"complete", "partial-coverage", "truncated"} =>
        /\ \E functions \in {Functions} : AgreesWith(functions, FunctionCalls(functions))
        /\ DOMAIN disc.cfg = answer.functions
        /\ \A e \in answer.edges : DirectCallers(e.callee) # {}
        /\ \A f \in answer.functions : \A g \in DirectCallers(f) :
               \E e \in answer.edges : e.caller = g /\ e.callee = f
=============================================================================
