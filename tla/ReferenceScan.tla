----------------------------- MODULE ReferenceScan -----------------------------
(***************************************************************************)
(* The search for the references to one address (nds_find_xrefs), and the  *)
(* analysis of one function (nds_analyze_function): the search gives the   *)
(* proof that the address is a function entry, and a proven entry gets its *)
(* control-flow graph.  The search follows calls too, stays inside the     *)
(* selected components, and says how much of them it covered.              *)
(***************************************************************************)
EXTENDS ControlFlow

VARIABLE scan  \* the search

NoScan == [open |-> FALSE, block |-> NoSource, queue |-> <<>>]

ScanInBlock == scan.open /\ scan.block # NoSource
ScanLimits == call.limits
Limited(s, component) == [s EXCEPT !.limited = @ \cup {component}]
Reason(s, reason) == [s EXCEPT !.reasons = @ \cup {reason}]

ScheduleSource(s, source) ==
    LET seeded == [s EXCEPT !.seeded = @ \cup {source.component}]
    IN  IF source.component \notin s.considered THEN s
        ELSE IF source \in s.scheduled THEN seeded
        ELSE IF Cardinality(s.scheduled) >= ScanLimits.blocks
             THEN Limited(Reason(seeded, "block-limit"), source.component)
        ELSE [seeded EXCEPT !.scheduled = @ \cup {source}, !.queue = Append(@, source)]

Selected == Components(call.rom, call.p, call.scope)
Considered == {Selected[i] : i \in 1..Min({Len(Selected), ScanLimits.components})}

EmptyScan ==
    [open |-> TRUE, considered |-> Considered, queue |-> <<>>, scheduled |-> {}, seeded |-> {}, limited |-> {},
     reasons |-> IF Len(Selected) > ScanLimits.components THEN {"component-limit"} ELSE {},
     found |-> <<>>, matching |-> 0, decoded |-> {}, instructions |-> 0, bytes |-> 0, edges |-> 0,
     block |-> NoSource, cursor |-> 0, window |-> 0]

\* The entry of the program is a seed of its main executable.
ImplicitSeed ==
    LET entry == ProgramEntry(call.rom, call.p)
    IN  IF Main \in Considered /\ entry.status = "resolved" THEN <<entry.source>> ELSE <<>>

ScanStart == FoldLeft(ScheduleSource, EmptyScan, ImplicitSeed \o SeedSources(call.rom, call.p, call.seeds))

-----------------------------------------------------------------------------
(* References found *)

Rank == [k \in Modes \cup {"direct-branch", "direct-call", "pc-relative"} |->
            IF k \in {"arm", "direct-branch"} THEN 0 ELSE IF k \in {"thumb", "direct-call"} THEN 1 ELSE 2]

ReferenceBefore(x, y) ==
    LET key(r) == <<r.site.component, r.site.at, Rank[r.site.mode], Rank[r.kind]>>
    IN  \E i \in 1..4 : key(x)[i] < key(y)[i] /\ \A j \in 1..(i - 1) : key(x)[j] = key(y)[j]

\* Mutant: the references found first are kept, whatever their order.
RetainFirst(found, r) ==
    IF Len(found) < ScanLimits.xrefs THEN PutInOrder(found, r, ReferenceBefore) ELSE found
\* The first maxXrefs of the references so far, in order.
Retain(found, r) ==
    LET sorted == PutInOrder(found, r, ReferenceBefore)
    IN  IF Len(sorted) > ScanLimits.xrefs THEN Front(sorted) ELSE sorted

Collect(s, i) ==
    LET new == SetToSeq(ReferencesTo(call.rom, call.p, i.source, call.target.at))
    IN  [s EXCEPT !.found = FoldLeft(Retain, @, new), !.matching = @ + Len(new)]

-----------------------------------------------------------------------------
(* Traversal *)

TraverseTo(s, target) ==
    IF target.status # "resolved" \/ target.source.component \notin s.considered THEN s
    ELSE IF s.edges >= ScanLimits.edges THEN Limited(Reason(s, "edge-limit"), s.block.component)
    ELSE ScheduleSource([s EXCEPT !.edges = @ + 1], target.source)

\* Mutant: a call is recorded and not followed, as in the control-flow graph.
TraverseBranches(s, i) ==
    LET through == IF i.next.at < End(i.source) THEN Resolved(i.next) ELSE Unresolved("none")
    IN  CASE i.kind = "unconditional-branch" -> TraverseTo(s, i.target)
          [] i.kind = "conditional-branch" -> TraverseTo(TraverseTo(s, i.target), through)
          [] OTHER -> s
Traverse(s, i) ==
    LET through == IF i.next.at < End(i.source) THEN Resolved(i.next) ELSE Unresolved("none")
    IN  CASE i.kind \in {"call", "unconditional-branch"} -> TraverseTo(s, i.target)
          [] i.kind = "conditional-branch" -> TraverseTo(TraverseTo(s, i.target), through)
          [] OTHER -> s

ScanHere == AtAddress(scan.block, scan.block.at + scan.cursor)
ScanAtLimit == scan.instructions >= ScanLimits.instructions \/ scan.bytes >= ScanLimits.bytes
ScanLimitsReached ==
    (IF scan.instructions >= ScanLimits.instructions THEN {"instruction-limit"} ELSE {})
    \cup (IF scan.bytes >= ScanLimits.bytes THEN {"byte-limit"} ELSE {})
ScanStop == StopReason(ScanHere, scan.window - scan.cursor, MinimumSize[scan.block.mode], ScanAtLimit)

ScanRunning == scan.open /\ answer = NoAnswer

ScanTakeBlock ==
    /\ ScanRunning /\ scan.block = NoSource /\ scan.queue # <<>> /\ ~ScanAtLimit
    /\ LET s == Head(scan.queue)
       IN  scan' = [scan EXCEPT !.queue = Tail(@), !.block = s, !.cursor = 0,
                                !.window = BytesToRead(s, ScanLimits.bytes - scan.bytes)]
    /\ UNCHANGED <<call, graph, answer>>

\* The limits are reached between two blocks: what is pending stays unscanned.
ScanGiveUp ==
    /\ ScanRunning /\ scan.block = NoSource /\ scan.queue # <<>> /\ ScanAtLimit
    /\ scan' = [scan EXCEPT !.queue = <<>>, !.reasons = @ \cup ScanLimitsReached,
                            !.limited = @ \cup {q.component : q \in ToSet(scan.queue)}]
    /\ UNCHANGED <<call, graph, answer>>

ScanStopBlock ==
    /\ ScanRunning /\ scan.block # NoSource /\ ScanStop # "none"
    /\ LET reason == IF scan.instructions >= ScanLimits.instructions THEN "instruction-limit" ELSE "byte-limit"
           ended == [scan EXCEPT !.block = NoSource]
       IN  scan' = IF ScanStop = "limit" THEN Limited(Reason(ended, reason), scan.block.component) ELSE ended
    /\ UNCHANGED <<call, graph, answer>>

ScanInstruction ==
    /\ ScanRunning /\ scan.block # NoSource /\ ScanStop = "none"
    /\ LET i == InstructionAt(call.rom, call.p, ScanHere)
           read == [scan EXCEPT !.instructions = @ + 1, !.bytes = @ + i.size, !.cursor = @ + i.size,
                                !.decoded = @ \cup {i.source}]
           traversed == Traverse(Collect(read, i), i)
       IN  scan' = IF GoesOn(i) THEN traversed ELSE [traversed EXCEPT !.block = NoSource]
    /\ UNCHANGED <<call, graph, answer>>

-----------------------------------------------------------------------------
(* The result of the search *)

ScanReasons == scan.reasons \cup (IF scan.matching > ScanLimits.xrefs THEN {"result-limit"} ELSE {})

ComponentCoverage(component) ==
    IF component \notin scan.considered THEN "out-of-limit"
    ELSE IF component \notin scan.seeded THEN "no-proven-seed"
    ELSE IF component \in scan.limited THEN "out-of-limit"
    ELSE "scanned"

ScanStatus ==
    IF ScanReasons # {} THEN "truncated"
    ELSE IF \E c \in ToSet(Selected) : ComponentCoverage(c) # "scanned"
         THEN "partial-coverage"
    ELSE "complete"

-----------------------------------------------------------------------------
(* The proof of a function entry *)

Requested == Resolve(call.rom, call.p, call.target.at, call.target.mode, call.target.owner)

IsProgramEntry(s) == s.component = Main /\ s.mode = "arm" /\ s.at = call.rom.entry[call.p]

\* Mutant: a call to the address proves the entry in whatever mode it was asked for.
IsProofInAnyMode(r) ==
    r.kind = "direct-call" /\ ResolveAgain(call.rom, call.p, r.site).status = "resolved"
(* A reference proves the entry if it is a call in its mode, and the call, *)
(* resolved again from its address, has the entry as its target.           *)
IsProof(r) ==
    LET caller == ResolveAgain(call.rom, call.p, r.site)
    IN  /\ r.kind = "direct-call" /\ r.mode = Requested.source.mode
        /\ caller.status = "resolved"
        /\ ControlFlowTarget(call.rom, call.p, caller.source, call.target.at, r.mode) = Requested

Callers == {r.site : r \in {x \in ToSet(scan.found) : IsProof(x)}}
ProofStatus ==
    IF IsProgramEntry(Requested.source) \/ Callers # {} THEN "proven"
    ELSE IF ScanStatus = "complete" THEN "not-proven-function-entry"
    ELSE "proof-inconclusive"

ScanIsDone == ScanRunning /\ scan.block = NoSource /\ scan.queue = <<>>

AnswerReferences ==
    /\ ScanIsDone /\ call.tool = "xrefs"
    /\ answer' = [status |-> ScanStatus, xrefs |-> scan.found, reasons |-> ScanReasons]
    /\ UNCHANGED <<call, graph, scan>>

AnswerUnproven ==
    /\ ScanIsDone /\ call.tool = "function" /\ ~graph.open /\ ProofStatus # "proven"
    /\ answer' = [status |-> ProofStatus, callers |-> {}]
    /\ UNCHANGED <<call, graph, scan>>

StartFunction ==
    /\ ScanIsDone /\ call.tool = "function" /\ ~graph.open /\ ProofStatus = "proven"
    /\ graph' = EmptyGraph(Requested.source, call.cfg)
    /\ UNCHANGED <<call, scan, answer>>

AnswerFunction ==
    /\ GraphIsDone /\ call.tool = "function" /\ answer = NoAnswer
    /\ answer' = [status |-> "proven", callers |-> Callers]
    /\ UNCHANGED <<call, graph, scan>>

ScanNext ==
    \/ ScanTakeBlock \/ ScanGiveUp \/ ScanStopBlock \/ ScanInstruction
    \/ AnswerReferences \/ AnswerUnproven \/ StartFunction \/ AnswerFunction
=============================================================================
