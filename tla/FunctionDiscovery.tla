--------------------------- MODULE FunctionDiscovery ---------------------------
(***************************************************************************)
(* The discovery of proven functions (nds_discover_functions): the program *)
(* entry and every resolved call target inside the selected components is  *)
(* a function; each gets its control-flow graph, in FIFO order, under its  *)
(* own limits clipped to what is left of the limits of the whole call.     *)
(* Seeds are analysed for the calls in them and are not functions.         *)
(***************************************************************************)
EXTENDS ControlFlow

VARIABLE disc  \* the discovery

NoDiscovery == [open |-> FALSE]
NoCaller == NoSource

Budget == call.limits
ComponentsAsked == Components(call.rom, call.p, call.scope)
ComponentsInLimit == {ComponentsAsked[i] : i \in 1..Min({Len(ComponentsAsked), Budget.components})}

LimitComponent(d, component) == [d EXCEPT !.limited = @ \cup {component}]
Because(d, reasons) == [d EXCEPT !.reasons = @ \cup reasons]

-----------------------------------------------------------------------------
(* Functions and their proofs *)

(* A function is its entry source.  A proof is a call site with the        *)
(* function it was analysed in, or NoCaller for code reached from a seed.  *)
EnsureFunction(d, s) ==
    IF s \in d.functions THEN d
    ELSE IF Cardinality(d.functions) >= Budget.functions
         THEN LimitComponent(Because(d, {"function-limit"}), s.component)
    ELSE [d EXCEPT !.functions = @ \cup {s}, !.queue = Append(@, [kind |-> "function", source |-> s])]

\* Mutant: a later proof of a call site always takes the place of the first.
AddProofLast(d, site, s, caller) ==
    IF s \notin d.functions THEN d
    ELSE [d EXCEPT !.proofs = {q \in @ : ~(q.site = site /\ q.target = s)}
                              \cup {[site |-> site, target |-> s, caller |-> caller]}]
\* One proof for each call site and target: a caller that is known replaces none.
AddProof(d, site, s, caller) ==
    LET same == {q \in d.proofs : q.site = site /\ q.target = s}
        keep == same # {} /\ \A q \in same : q.caller # NoCaller \/ caller = NoCaller
    IN  IF s \notin d.functions \/ keep THEN d
        ELSE [d EXCEPT !.proofs = (@ \ same) \cup {[site |-> site, target |-> s, caller |-> caller]}]

\* A call edge is told apart by the address and the storage of its site.
CallEdge(caller, site, callee) ==
    [caller |-> caller, at |-> site.at, rom |-> RomOffset(call.rom, call.p, site), callee |-> callee]

\* A call of site to s, found in the graph of caller.
ProcessCall(d, site, s, caller) ==
    LET key == <<site, s>>
        kept == [d EXCEPT !.sites = @ \cup {key}]
        proven == AddProof(EnsureFunction(kept, s), site, s, caller)
    IN  IF key \notin d.sites /\ Cardinality(d.sites) >= Budget.callSites
        THEN LimitComponent(Because(d, {"call-site-limit"}), s.component)
        ELSE IF caller = NoCaller \/ s \notin proven.functions THEN proven
        ELSE [proven EXCEPT !.edges = @ \cup {CallEdge(caller, site, s)}]

ProcessCalls(d, calls, caller) ==
    LET eligible(c) == c.target.status = "resolved" /\ c.target.source.component \in ComponentsInLimit
        process(e, c) == IF eligible(c) THEN ProcessCall(e, c.site, c.target.source, caller) ELSE e
    IN  FoldLeft(process, d, calls)

-----------------------------------------------------------------------------
(* Budgets *)

\* Mutant: the limits of a graph are not clipped to what is left.
LocalLimits(d) == call.cfg
\* What is left of the limits of the whole call, for the next graph.
Remaining(d) ==
    [blocks |-> Budget.blocks - Cardinality(d.blocks),
     instructions |-> Budget.instructions - Cardinality(d.instructions),
     bytes |-> Budget.bytes - d.bytes,
     edges |-> Budget.edges - Cardinality(d.traversed)]
CfgLimits(d) == [k \in DOMAIN call.cfg |-> Min({call.cfg[k], Remaining(d)[k]})]

ReasonOf == [blocks |-> "block-limit", instructions |-> "instruction-limit", bytes |-> "byte-limit", edges |-> "edge-limit"]
Exhausted(d) == {k \in DOMAIN ReasonOf : Remaining(d)[k] <= 0}
Tightened(d) == {ReasonOf[k] : k \in {k \in DOMAIN ReasonOf : Remaining(d)[k] <= call.cfg[k]}}

-----------------------------------------------------------------------------
(* The worklist *)

\* The digits after the first of an identifier below 2^32, in decimal.
MoreDigits(n) == Cardinality({k \in 1..9 : n >= 10^k})

(* Components are ordered by their keys, which are text: main first, then  *)
(* the overlays as their identifiers are written, 10 before 2.             *)
ComponentBefore(c, d) ==
    LET aligned(x, y) == x * 10^MoreDigits(y)
    IN  \/ c = Main /\ d # Main
        \/ /\ Main \notin {c, d}
           /\ \/ aligned(c, d) < aligned(d, c)
              \/ aligned(c, d) = aligned(d, c) /\ c < d

SeedBefore(s, t) ==
    \/ ComponentBefore(s.component, t.component)
    \/ s.component = t.component /\ s.at < t.at
    \/ s.component = t.component /\ s.at = t.at /\ s.mode = "arm" /\ t.mode = "thumb"

CoverageSeeds ==
    LET put(done, s) == IF s.component \in ComponentsInLimit THEN PutInOrder(done, s, SeedBefore) ELSE done
    IN  FoldLeft(put, <<>>, SeedSources(call.rom, call.p, call.seeds))

EmptyDiscovery ==
    [open |-> TRUE, queue |-> <<>>, work |-> <<>>, functions |-> {}, proofs |-> {}, edges |-> {}, sites |-> {},
     cfg |-> <<>>, blocks |-> {}, instructions |-> {}, bytes |-> 0, traversed |-> {}, scanned |-> {}, limited |-> {},
     reasons |-> IF Len(ComponentsAsked) > Budget.components THEN {"component-limit"} ELSE {}]

DiscoveryStart ==
    LET entered == IF Main \in ComponentsInLimit THEN EnsureFunction(EmptyDiscovery, ProgramEntry(call.rom, call.p).source)
                   ELSE EmptyDiscovery
    IN  [entered EXCEPT !.queue =
           @ \o [i \in 1..Len(CoverageSeeds) |-> [kind |-> "coverage", source |-> CoverageSeeds[i]]]]

DiscoveryRunning == disc.open /\ answer = NoAnswer
NextWork == Head(disc.queue)
IsNeeded(w) == ~(w.kind = "coverage" /\ w.source \in disc.functions)

CfgOf(d, w, reasons) == IF w.kind = "function" THEN [d EXCEPT !.cfg = (w.source :> reasons) @@ @] ELSE d

CanStart == DiscoveryRunning /\ ~graph.open /\ disc.queue # <<>> /\ IsNeeded(NextWork) /\ Exhausted(disc) = {}
EntryAgain == ResolveAgain(call.rom, call.p, NextWork.source)

\* The next piece of work needs a graph, and there is budget for one.
StartGraph ==
    /\ CanStart /\ EntryAgain.status = "resolved"
    /\ disc' = [disc EXCEPT !.queue = Tail(@), !.work = <<NextWork, Tightened(disc)>>]
    /\ graph' = EmptyGraph(EntryAgain.source, CfgLimits(disc))
    /\ UNCHANGED <<call, answer>>

\* Its entry cannot be named: the whole call fails.
FailGraph ==
    /\ CanStart /\ EntryAgain.status # "resolved"
    /\ answer' = [status |-> "entry-not-unique"]
    /\ UNCHANGED <<call, graph, disc>>

\* No budget is left for the next piece of work.
LeaveWork ==
    /\ DiscoveryRunning /\ ~graph.open /\ disc.queue # <<>>
    /\ IsNeeded(NextWork) /\ Exhausted(disc) # {}
    /\ LET reasons == disc.reasons \cup {ReasonOf[k] : k \in Exhausted(disc)}
           cut == reasons \cap {ReasonOf[k] : k \in DOMAIN ReasonOf}
           left == [disc EXCEPT !.queue = Tail(@), !.reasons = reasons]
       IN  disc' = CfgOf(LimitComponent(left, NextWork.source.component), NextWork, cut)
    /\ UNCHANGED <<call, graph, answer>>

SkipSeed ==
    /\ DiscoveryRunning /\ ~graph.open /\ disc.queue # <<>>
    /\ ~IsNeeded(NextWork)
    /\ disc' = [disc EXCEPT !.queue = Tail(@)]
    /\ UNCHANGED <<call, graph, answer>>

SizeAt(x) == call.rom.code[AtAddress(x[1], x[2])].size

\* What a graph adds to the totals.  One that was cut short limits the components it is in.
CollectGraph(d, g, tightened) ==
    LET fresh == g.instructions \ d.instructions
    IN  [d EXCEPT !.blocks = @ \cup g.blocks, !.instructions = @ \cup g.instructions,
                  !.bytes = @ + MapThenSumSet(SizeAt, fresh),
                  !.traversed = @ \cup {[from |-> e.from, type |-> e.type, at |-> e.at, mode |-> e.mode] : e \in g.edges},
                  !.scanned = @ \cup {b.component : b \in g.blocks},
                  !.reasons = @ \cup (g.reasons \cap tightened),
                  !.limited = @ \cup IF g.reasons = {} THEN {} ELSE {b.component : b \in g.blocks \cup {g.entry}}]

\* The graph is complete: its totals count, and its calls make functions.
UseGraph ==
    /\ DiscoveryRunning /\ GraphIsDone
    /\ LET w == disc.work[1]
           collected == CfgOf(CollectGraph(disc, graph, disc.work[2]), w, graph.reasons)
       IN  disc' = ProcessCalls(collected, graph.calls, IF w.kind = "function" THEN w.source ELSE NoCaller)
    /\ graph' = Idle
    /\ UNCHANGED <<call, answer>>

DiscoveryCoverage(component) ==
    IF component \notin ComponentsInLimit \/ component \in disc.limited THEN "out-of-limit"
    ELSE IF component \in disc.scanned THEN "scanned"
    ELSE "no-proven-seed"

DiscoveryStatus ==
    IF disc.reasons # {} THEN "truncated"
    ELSE IF \E c \in ToSet(ComponentsAsked) : DiscoveryCoverage(c) # "scanned" THEN "partial-coverage"
    ELSE "complete"

DirectCallers(s) == {q.caller : q \in {q \in disc.proofs : q.target = s}} \ {NoCaller}

AnswerFunctions ==
    /\ DiscoveryRunning /\ ~graph.open /\ disc.queue = <<>>
    /\ answer' = [status |-> DiscoveryStatus, functions |-> disc.functions, edges |-> disc.edges]
    /\ UNCHANGED <<call, graph, disc>>

DiscoveryNext == StartGraph \/ FailGraph \/ LeaveWork \/ SkipSeed \/ UseGraph \/ AnswerFunctions
=============================================================================
