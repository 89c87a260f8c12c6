------------------------------ MODULE ControlFlow ------------------------------
(***************************************************************************)
(* The control-flow analysis: basic blocks from one entry in a FIFO        *)
(* worklist, under limits on blocks, instructions, bytes and edges.  Calls *)
(* are recorded and not followed.  A call of a static-analysis tool is in  *)
(* the variable call, and its answer in answer; the analysis of one entry  *)
(* runs in the variable graph, one instruction at a time.                  *)
(***************************************************************************)
EXTENDS NdsCode

VARIABLES call,   \* the tool call: its program rom, processor p, and the tool's request
          graph,  \* the control-flow graph being built
          answer  \* what the tool answered, once it has

NoAnswer == [status |-> "none"]
Idle == [block |-> NoSource, queue |-> <<>>, open |-> FALSE]

\* The graph of entry s before its first block.
EmptyGraph(s, limits) ==
    [entry |-> s, limits |-> limits, open |-> TRUE, queue |-> <<s>>, scheduled |-> {s},
     block |-> NoSource, cursor |-> 0, window |-> 0,
     blocks |-> {}, instructions |-> {}, bytes |-> 0, edges |-> {}, calls |-> <<>>,
     unresolved |-> {}, reasons |-> {}]

InBlock == graph.open /\ graph.block # NoSource
GraphIsDone == graph.open /\ graph.block = NoSource /\ graph.queue = <<>>

End(s) == CodeRange(call.rom, call.p, s.component).end
Here == AtAddress(graph.block, graph.block.at + graph.cursor)
BytesToRead(s, budget) == IF budget > 0 THEN Min({budget, End(s) - s.at}) ELSE 0

\* The reader stands before the next instruction of a block: why it stops, if it does.
StopReason(here, window, min, atLimit) ==
    IF here.at >= End(here) THEN "component-boundary"
    ELSE IF atLimit THEN "limit"
    ELSE IF window < min THEN IF here.at + window >= End(here) THEN "component-boundary" ELSE "limit"
    ELSE IF ~CanDecode(call.rom, here, window) THEN "decode-stopped"
    ELSE "none"

LimitsReached(g) ==
    (IF Cardinality(g.instructions) >= g.limits.instructions THEN {"instruction-limit"} ELSE {})
    \cup (IF g.bytes >= g.limits.bytes THEN {"byte-limit"} ELSE {})

Stop ==
    StopReason(Here, graph.window - graph.cursor, MinimumSize[graph.block.mode], LimitsReached(graph) # {})

-----------------------------------------------------------------------------
(* Edges *)

\* Mutant: a target the block limit keeps out is dropped without a word.
ScheduleQuietly(g, s) ==
    IF s \in g.scheduled \/ Cardinality(g.scheduled) >= g.limits.blocks THEN g
    ELSE [g EXCEPT !.scheduled = @ \cup {s}, !.queue = Append(@, s)]
Schedule(g, s) ==
    IF s \in g.scheduled THEN g
    ELSE IF Cardinality(g.scheduled) >= g.limits.blocks THEN [g EXCEPT !.reasons = @ \cup {"block-limit"}]
    ELSE [g EXCEPT !.scheduled = @ \cup {s}, !.queue = Append(@, s)]

AddEdge(g, type, a, mode, target) ==
    LET scheduled == IF target.status = "resolved" THEN Schedule(g, target.source)
                     ELSE [g EXCEPT !.unresolved = @ \cup {[from |-> g.block, at |-> Here.at, kind |-> target.status]}]
    IN  IF Cardinality(g.edges) >= g.limits.edges THEN [g EXCEPT !.reasons = @ \cup {"edge-limit"}]
        ELSE [scheduled EXCEPT !.edges =
                @ \cup {[from |-> g.block, type |-> type, at |-> a, mode |-> mode,
                         to |-> IF target.source \in scheduled.scheduled THEN target.source ELSE NoSource]}]

Branch(g, i, type) == AddEdge(g, type, i.immediate, i.targetMode, i.target)
FallThrough(g, i) ==
    IF i.next.at < End(i.source) THEN AddEdge(g, "conditional-fallthrough", i.next.at, i.next.mode, Resolved(i.next))
    ELSE g

\* What the flow of an instruction adds to the graph, and whether the block goes on after it.
Follow(g, i) ==
    LET exit(h) == [h EXCEPT !.unresolved = @ \cup {[from |-> h.block, at |-> i.source.at, kind |-> i.kind]}]
        record(h) == [h EXCEPT !.calls = Append(@, [block |-> h.block, site |-> i.source, target |-> i.target])]
    IN  CASE i.kind = "fallthrough" -> g
          [] i.kind = "call" -> record(g)
          [] i.kind = "indirect-call" -> exit(record(g))
          [] i.kind \in {"return", "indirect-branch"} -> exit(g)
          [] i.kind = "unconditional-branch" -> Branch(g, i, "branch")
          [] i.kind = "conditional-branch" -> FallThrough(Branch(g, i, "conditional-taken"), i)

GoesOn(i) == i.kind \in {"fallthrough", "call", "indirect-call"} /\ i.next.at < End(i.source)

CloseBlock(g) == [g EXCEPT !.blocks = @ \cup {g.block}, !.block = NoSource]

-----------------------------------------------------------------------------
(* Steps *)

TakeBlock ==
    /\ graph.open /\ graph.block = NoSource /\ graph.queue # <<>>
    /\ LET s == Head(graph.queue)
       IN  graph' = [graph EXCEPT !.queue = Tail(@), !.block = s, !.cursor = 0,
                                  !.window = BytesToRead(s, graph.limits.bytes - graph.bytes)]
    /\ UNCHANGED <<call, answer>>

StopBlock ==
    /\ InBlock /\ Stop # "none"
    /\ graph' = CloseBlock([graph EXCEPT
         !.reasons = @ \cup (IF Stop # "limit" THEN {}
                             ELSE IF LimitsReached(graph) # {} THEN LimitsReached(graph) ELSE {"byte-limit"})])
    /\ UNCHANGED <<call, answer>>

DecodeInstruction ==
    /\ InBlock /\ Stop = "none"
    /\ LET i == InstructionAt(call.rom, call.p, Here)
           read == [graph EXCEPT !.instructions = @ \cup {<<graph.block, Here.at>>}, !.bytes = @ + i.size,
                                 !.cursor = @ + i.size]
           followed == Follow(read, i)
       IN  graph' = IF GoesOn(i) THEN followed ELSE CloseBlock(followed)
    /\ UNCHANGED <<call, answer>>

GraphStatus == IF graph.reasons = {} THEN "complete" ELSE "truncated"

AnswerGraph ==
    /\ GraphIsDone /\ call.tool = "cfg" /\ answer = NoAnswer
    /\ answer' = [status |-> GraphStatus]
    /\ UNCHANGED <<call, graph>>

FlowNext == TakeBlock \/ StopBlock \/ DecodeInstruction \/ AnswerGraph
=============================================================================
