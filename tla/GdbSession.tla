----------------------------- MODULE GdbSession -----------------------------
(***************************************************************************)
(* The persistent GDB Remote Serial Protocol session of                    *)
(* src/src/services/gdb-session.ts: one socket, one reply awaited at a     *)
(* time, requests serialized by a promise chain, and an execution state    *)
(* the caller reads.  The emulator's stub and the TCP connection are       *)
(* external: they are modelled by what the session can observe of them.    *)
(*                                                                         *)
(* Node runs one callback at a time and drains the microtask queue before  *)
(* the next one.  A timer, a socket event or a reset is a macrotask and    *)
(* needs Quiet; the continuation of a settled promise is a microtask.      *)
(* While a chunk of data is being parsed (chunk.n > 0) nothing else runs.  *)
(***************************************************************************)
EXTENDS Integers, Sequences

CONSTANTS
    Req,            \* calls made on the session, each of them once
    Sock,           \* the sockets net.createConnection may return
    NoReq, NoSock,  \* no call, no socket
    Kinds,          \* the methods the calls of this instance may be
    TimeoutKinds,   \* the methods whose reply timer may expire in this instance
    MaxSteps,       \* bound on the instructions of a step sequence (100 in the code)
    MaxChunk,       \* bound on the packets one 'data' event carries
    MaxResets,      \* bound on the calls of reset by the owner of the session
    StubCorrupts    \* whether the stub may send a packet that does not parse

ExclusiveKinds == {"cmd", "query", "continue", "step", "wait", "interrupt"}
ConnectKinds   == {"cmd", "query", "continue", "step"}
ExecKinds      == {"continue", "step", "wait", "interrupt"}
AllKinds       == ExclusiveKinds \cup {"connect"}

ASSUME ReqAssumption     == NoReq \notin Req /\ NoSock \notin Sock
ASSUME KindAssumption    == Kinds \subseteq AllKinds /\ TimeoutKinds \subseteq AllKinds
ASSUME BoundAssumption   == /\ MaxSteps \in Nat \ {0} /\ MaxChunk \in Nat \ {0}
                            /\ MaxResets \in Nat
ASSUME CorruptAssumption == StubCorrupts \in BOOLEAN

VARIABLES
    sock,       \* #socket
    state,      \* #state
    frag,       \* #buffer: the socket an unfinished packet came from, or NoSock
    pending,    \* #pending: the call whose reply is awaited, or NoReq
    queuedStop, \* #queuedStop
    chunk,      \* the 'data' event being handled: its socket, packets left to parse
    issued,     \* #queue: places handed out in the promise chain
    served,     \* #queue: the place whose predecessor has released it
    kind,       \* method of each call
    pc,         \* where each call is
    place,      \* place of each call in the promise chain
    on,         \* the socket local variable of each call
    left,       \* instructions a step sequence still has to run
    got,        \* what the last awaited promise of each call settled with
    phase,      \* life of each socket
    toStub,     \* requests written on each socket, not yet read by the stub
    fromStub,   \* packets sent by the stub on each socket, not yet delivered
    target,     \* the emulated ARM9: halted, running or exited
    resumedBy,  \* the call and socket of the last resume the stub obeyed
    resets      \* resets so far

session == <<sock, state, frag, pending, queuedStop, chunk>>
calls   == <<issued, served, kind, pc, place, on, left, got>>
stub    == <<target, resumedBy>>
net     == <<phase, toStub, fromStub>>
vars    == <<session, calls, stub, net, resets>>

-----------------------------------------------------------------------------
(* Packets.  "data" is any reply that is not a stop reply (OK, Exx, memory, *)
(* registers), "signal" is Sxx or Txx, "exit" is Wxx or Xxx, "bad" is one   *)
(* with a wrong checksum or one that overflows the reply limit.  The call   *)
(* the packet answers is recorded only to state properties.                 *)
Pkt(k, r)   == [kind |-> k, for |-> r]
NoPkt       == Pkt("none", NoReq)
Failure     == Pkt("error", NoReq)
TimedOut    == Pkt("timeout", NoReq)
Packet      == [kind : {"none", "error", "timeout", "data", "signal", "exit", "bad"},
                for : Req \cup {NoReq}]

StopState(p) == IF p.kind = "signal" THEN "stopped" ELSE "unavailable"
IsStop(p)    == p.kind \in {"signal", "exit"}

Live(s)   == s # NoSock /\ phase[s] \in {"open", "fin"}
Parsing   == chunk.n > 0
NoChunk   == [from |-> NoSock, n |-> 0]
(* Mutant: a call does not await its predecessor in the chain. *)
InTurnAtOnce(r) == pc[r] = "queued"

InTurn(r) == pc[r] = "queued" /\ place[r] = served
Ready(r)  == InTurn(r) \/ pc[r] \in {"ready", "resumed"}
Quiet     == ~Parsing /\ \A r \in Req : ~Ready(r)

-----------------------------------------------------------------------------
Init ==
    /\ sock = NoSock /\ state = "unavailable" /\ frag = NoSock
    /\ pending = NoReq /\ queuedStop = NoPkt /\ chunk = NoChunk
    /\ issued = 0 /\ served = 0
    /\ kind \in [Req -> Kinds]
    /\ pc = [r \in Req |-> "idle"]
    /\ place = [r \in Req |-> 0]
    /\ on = [r \in Req |-> NoSock]
    /\ left \in [Req -> 1..MaxSteps]
    /\ \A r \in Req : kind[r] # "step" => left[r] = 1
    /\ got = [r \in Req |-> NoPkt]
    /\ phase = [s \in Sock |-> "new"]
    /\ toStub = [s \in Sock |-> <<>>]
    /\ fromStub = [s \in Sock |-> <<>>]
    /\ target = "halted"
    /\ resumedBy = [req |-> NoReq, sock |-> NoSock]
    /\ resets = 0

(* Mutant: a call that fails does not release the chain. *)
SettleKeepingTheChain(S, result) ==
    /\ pc' = [r \in Req |-> IF r \in S THEN "done" ELSE pc[r]]
    /\ got' = [r \in Req |-> IF r \in S THEN result ELSE got[r]]
    /\ served' = IF result # Failure /\ \E r \in S : kind[r] \in ExclusiveKinds
                 THEN served + 1 ELSE served

(* The calls of S end with result; the one of them that holds the promise  *)
(* chain, if any, releases it (finally in #runExclusive).                  *)
Settle(S, result) ==
    /\ pc' = [r \in Req |-> IF r \in S THEN "done" ELSE pc[r]]
    /\ got' = [r \in Req |-> IF r \in S THEN result ELSE got[r]]
    /\ served' = IF \E r \in S : kind[r] \in ExclusiveKinds THEN served + 1 ELSE served

PendingCalls == {pending} \ {NoReq}

(* Mutant: reset only rejects the pending reply and clears its buffers. *)
DropBuffersOnly ==
    /\ frag' = NoSock
    /\ queuedStop' = NoPkt
    /\ UNCHANGED <<sock, state, phase>>

(* reset(): everything but the rejection of the pending reply. *)
DropConnection ==
    /\ sock' = NoSock
    /\ frag' = NoSock
    /\ queuedStop' = NoPkt
    /\ state' = "unavailable"
    /\ phase' = IF Live(sock) THEN [phase EXCEPT ![sock] = "dead"] ELSE phase

(* A request of r goes out on s: lost unless the connection is still open. *)
Write(s, cmd, r) ==
    toStub' = IF phase[s] = "open"
              THEN [toStub EXCEPT ![s] = Append(@, [cmd |-> cmd, req |-> r])]
              ELSE toStub

-----------------------------------------------------------------------------
(* Calls *)

(* A caller invokes a method: #runExclusive takes the next place in the    *)
(* promise chain.  connect() is not exclusive; its only direct caller      *)
(* first checks that the state is unavailable.                             *)
Submit(r) ==
    /\ ~Parsing
    /\ pc[r] = "idle"
    /\ kind[r] \in ExclusiveKinds
    /\ pc' = [pc EXCEPT ![r] = "queued"]
    /\ place' = [place EXCEPT ![r] = issued]
    /\ issued' = issued + 1
    /\ UNCHANGED <<session, served, kind, on, left, got, stub, net, resets>>

OpenSocket(r) ==
    \E s \in Sock :
        /\ phase[s] = "new"
        /\ phase' = [phase EXCEPT ![s] = "connecting"]
        /\ on' = [on EXCEPT ![r] = s]
        /\ pc' = [pc EXCEPT ![r] = "connecting"]

ConnectDirectly(r) ==
    /\ ~Parsing
    /\ pc[r] = "idle"
    /\ kind[r] = "connect"
    /\ state = "unavailable"
    /\ IF Live(sock)
       THEN Settle({r}, NoPkt) /\ UNCHANGED <<on, phase>>
       ELSE OpenSocket(r) /\ UNCHANGED <<got, served>>
    /\ UNCHANGED <<session, issued, kind, place, left, stub, toStub, fromStub, resets>>

(* The predecessor has released the chain: the call connects if it must. *)
EnterConnecting(r) ==
    /\ ~Parsing
    /\ InTurn(r)
    /\ kind[r] \in ConnectKinds
    /\ IF Live(sock)
       THEN pc' = [pc EXCEPT ![r] = "ready"] /\ UNCHANGED <<on, phase>>
       ELSE OpenSocket(r)
    /\ UNCHANGED <<session, issued, served, kind, place, left, got, stub,
                   toStub, fromStub, resets>>

(* #waitForPacket and the write that follows it.  The reply slot must be   *)
(* free, or the call throws with the state already changed.                *)
AwaitReply(r, s, cmd) ==
    IF pending # NoReq
    THEN Settle({r}, Failure) /\ UNCHANGED <<pending, on, toStub>>
    ELSE /\ pending' = r
         /\ pc' = [pc EXCEPT ![r] = "awaiting"]
         /\ on' = [on EXCEPT ![r] = s]
         /\ IF cmd = "" THEN UNCHANGED toStub ELSE Write(s, cmd, r)
         /\ UNCHANGED <<got, served>>

(* sendStoppedCommand, continueExecution and stepInstructions after their  *)
(* connect() has returned.                                                 *)
Dispatch(r) ==
    /\ ~Parsing
    /\ pc[r] = "ready"
    /\ queuedStop' = IF state = "stopped" /\ kind[r] \in ExecKinds THEN NoPkt ELSE queuedStop
    /\ IF state = "stopped" /\ Live(sock)
       THEN /\ state' = IF kind[r] \in ExecKinds THEN "waiting" ELSE state
            /\ AwaitReply(r, sock, kind[r])
       ELSE Settle({r}, Failure) /\ UNCHANGED <<state, pending, on, toStub>>
    /\ UNCHANGED <<sock, frag, chunk, issued, kind, place, left, stub,
                   phase, fromStub, resets>>

(* waitForStop: a stop that arrived meanwhile is returned at once. *)
EnterWait(r) ==
    /\ ~Parsing
    /\ InTurn(r)
    /\ kind[r] = "wait"
    /\ \/ /\ queuedStop # NoPkt
          /\ queuedStop' = NoPkt
          /\ state' = StopState(queuedStop)
          /\ Settle({r}, queuedStop)
          /\ UNCHANGED <<pending, on, toStub>>
       \/ /\ queuedStop = NoPkt
          /\ state = "running" /\ Live(sock)
          /\ state' = "waiting"
          /\ AwaitReply(r, sock, "")
          /\ UNCHANGED queuedStop
       \/ /\ queuedStop = NoPkt
          /\ ~(state = "running" /\ Live(sock))
          /\ Settle({r}, Failure)
          /\ UNCHANGED <<state, queuedStop, pending, on, toStub>>
    /\ UNCHANGED <<sock, frag, chunk, issued, kind, place, left, stub,
                   phase, fromStub, resets>>

(* interruptAndWait: the raw interrupt byte, only while running. *)
EnterInterrupt(r) ==
    /\ ~Parsing
    /\ InTurn(r)
    /\ kind[r] = "interrupt"
    /\ IF state = "running" /\ Live(sock)
       THEN state' = "waiting" /\ AwaitReply(r, sock, "interrupt")
       ELSE Settle({r}, Failure) /\ UNCHANGED <<state, pending, on, toStub>>
    /\ UNCHANGED <<sock, frag, queuedStop, chunk, issued, kind, place, left, stub,
                   phase, fromStub, resets>>

(* The awaited reply of r has arrived: a command returns it, an execution  *)
(* request interprets it (#finishExecutionWait, #executionStopResult).     *)
ReturnReply(r) ==
    /\ kind[r] \notin ExecKinds
    /\ Settle({r}, got[r])
    /\ UNCHANGED <<session, issued, kind, place, on, left, stub, net, resets>>

ReturnStop(r) ==
    /\ kind[r] \in ExecKinds
    /\ IsStop(got[r])
    /\ state' = StopState(got[r])
    /\ Settle({r}, got[r])
    /\ UNCHANGED <<sock, frag, pending, queuedStop, chunk, issued, kind, place,
                   on, left, stub, net, resets>>

(* A normal single-step stop (SIGTRAP without a breakpoint reason) with    *)
(* instructions left: the next one goes out on the socket the sequence     *)
(* began with.                                                             *)
StepAgain(r) ==
    /\ kind[r] = "step"
    /\ got[r].kind = "signal"
    /\ left[r] > 1
    /\ left' = [left EXCEPT ![r] = @ - 1]
    /\ state' = "waiting"
    /\ AwaitReply(r, on[r], "step")
    /\ UNCHANGED <<sock, frag, queuedStop, chunk, issued, kind, place, stub,
                   phase, fromStub, resets>>

RejectStop(r) ==
    /\ kind[r] \in ExecKinds
    /\ ~IsStop(got[r])
    /\ DropConnection
    /\ pending' = NoReq
    /\ Settle({r} \cup PendingCalls, Failure)
    /\ UNCHANGED <<chunk, issued, kind, place, on, left, stub, toStub, fromStub, resets>>

Resume(r) ==
    /\ ~Parsing
    /\ pc[r] = "resumed"
    /\ ReturnReply(r) \/ ReturnStop(r) \/ StepAgain(r) \/ RejectStop(r)

(* Mutant: a request that times out is taken for one that has stopped. *)
ReplyTimeoutStops(r) ==
    /\ Quiet
    /\ pending = r
    /\ kind[r] \in TimeoutKinds
    /\ pending' = NoReq
    /\ state' = IF kind[r] \in ExecKinds THEN "stopped" ELSE state
    /\ Settle({r}, IF kind[r] \in ExecKinds THEN TimedOut ELSE Failure)
    /\ UNCHANGED <<sock, frag, queuedStop, chunk, issued, kind, place, on, left,
                   stub, net, resets>>

(* The timer of the awaited reply fires.  An execution request that times  *)
(* out leaves the target running; a command just fails.                    *)
ReplyTimeout(r) ==
    /\ Quiet
    /\ pending = r
    /\ kind[r] \in TimeoutKinds
    /\ pending' = NoReq
    /\ IF kind[r] \in ExecKinds
       THEN state' = "running" /\ Settle({r}, TimedOut)
       ELSE UNCHANGED state /\ Settle({r}, Failure)
    /\ UNCHANGED <<sock, frag, queuedStop, chunk, issued, kind, place, on, left,
                   stub, net, resets>>

(* The owner of the session calls reset(): the chain of calls stays. *)
Reset ==
    /\ Quiet
    /\ resets < MaxResets
    /\ resets' = resets + 1
    /\ DropConnection
    /\ pending' = NoReq
    /\ Settle(PendingCalls, Failure)
    /\ UNCHANGED <<chunk, issued, kind, place, on, left, stub, toStub, fromStub>>

-----------------------------------------------------------------------------
(* Socket events *)

Connectors(s) == {r \in Req : pc[r] = "connecting" /\ on[r] = s}

(* 'connect'.  The stub halts the target when a debugger attaches, which   *)
(* is what the code relies on when it sets the state to stopped.  The      *)
(* events of a socket destroyed earlier come first.                        *)
Connected(s) ==
    /\ Quiet
    /\ phase[s] = "connecting"
    /\ target # "exited"
    /\ \A d \in Sock : phase[d] # "dead"
    /\ phase' = [phase EXCEPT ![s] = "open"]
    /\ sock' = s
    /\ state' = "stopped"
    /\ target' = "halted"
    /\ toStub' = [d \in Sock |-> IF phase[d] = "closed" THEN <<>> ELSE toStub[d]]
    /\ pc' = [r \in Req |-> IF r \notin Connectors(s) THEN pc[r]
                            ELSE IF kind[r] = "connect" THEN "done" ELSE "ready"]
    /\ UNCHANGED <<frag, pending, queuedStop, chunk, issued, served, kind, place, on,
                   left, got, resumedBy, fromStub, resets>>

(* What the 'close' handler does, whichever socket it belongs to; an       *)
(* 'error' is followed at once by it.                                      *)
CloseHandler(S) ==
    /\ sock' = NoSock
    /\ state' = "unavailable"
    /\ pending' = NoReq
    /\ Settle(S \cup PendingCalls, Failure)
    /\ UNCHANGED <<frag, queuedStop, chunk, issued, kind, place, on, left, stub, resets>>

ConnectRefused(s) ==
    /\ Quiet
    /\ phase[s] = "connecting"
    /\ phase' = [phase EXCEPT ![s] = "closed"]
    /\ CloseHandler(Connectors(s))
    /\ UNCHANGED <<toStub, fromStub>>

(* The connect timer: destroy() now, 'close' later. *)
ConnectTimeout(s) ==
    /\ Quiet
    /\ phase[s] = "connecting"
    /\ phase' = [phase EXCEPT ![s] = "dead"]
    /\ Settle(Connectors(s), Failure)
    /\ UNCHANGED <<session, issued, kind, place, on, left, stub, toStub, fromStub, resets>>

(* 'close' of a socket destroyed here, of one the peer has closed (once    *)
(* its data is delivered), or 'error' and 'close' of a lost connection.    *)
Closed(s) ==
    /\ Quiet
    /\ phase[s] \in {"open", "fin", "dead"}
    /\ phase[s] = "fin" => fromStub[s] = <<>>
    /\ phase' = [phase EXCEPT ![s] = "closed"]
    /\ fromStub' = [fromStub EXCEPT ![s] = <<>>]
    /\ CloseHandler({})
    /\ UNCHANGED toStub

(* 'data': n whole packets in one event, parsed one after the other before *)
(* anything else runs. *)
Deliver(s) ==
    /\ Quiet
    /\ Live(s)
    /\ \E n \in 1..MaxChunk :
        /\ n <= Len(fromStub[s])
        /\ chunk' = [from |-> s, n |-> n]
    /\ UNCHANGED <<sock, state, frag, pending, queuedStop, calls, stub, net, resets>>

(* 'data' that ends inside a packet: the beginning stays in the buffer. *)
DeliverFragment(s) ==
    /\ Quiet
    /\ Live(s)
    /\ fromStub[s] # <<>>
    /\ frag = NoSock
    /\ frag' = s
    /\ UNCHANGED <<sock, state, pending, queuedStop, chunk, calls, stub, net, resets>>

Consume(s, n) == fromStub' = [fromStub EXCEPT ![s] = SubSeq(@, n + 1, Len(@))]

(* A packet that does not parse, because it is corrupt or because the      *)
(* buffer still begins with a fragment from another connection, or an      *)
(* unsolicited one that is no stop reply: reset, and the chunk is dropped. *)
Unusable(p, s) ==
    \/ p.kind = "bad"
    \/ frag \notin {NoSock, s}
    \/ pending = NoReq /\ state = "running" /\ ~IsStop(p)

RejectPacket(s) ==
    /\ Unusable(Head(fromStub[s]), s)
    /\ DropConnection
    /\ pending' = NoReq
    /\ Settle(PendingCalls, Failure)
    /\ chunk' = NoChunk
    /\ Consume(s, chunk.n)
    /\ UNCHANGED <<issued, kind, place, on, left, stub, toStub, resets>>

NextInChunk == chunk' = IF chunk.n = 1 THEN NoChunk ELSE [chunk EXCEPT !.n = @ - 1]

(* Mutant: a packet nobody awaits is dropped. *)
AcceptAwaitedPacket(s) ==
    LET p == Head(fromStub[s]) IN
    /\ ~Unusable(p, s)
    /\ frag' = NoSock
    /\ NextInChunk
    /\ Consume(s, 1)
    /\ IF pending # NoReq
       THEN /\ pending' = NoReq
            /\ pc' = [pc EXCEPT ![pending] = "resumed"]
            /\ got' = [got EXCEPT ![pending] = p]
       ELSE UNCHANGED <<pending, pc, got>>
    /\ UNCHANGED <<sock, state, queuedStop, issued, served, kind, place, on, left,
                   resets, stub, phase, toStub>>

(* The packet resolves the awaited reply, or is queued as the stop of a    *)
(* running target, or is dropped.                                          *)
AcceptPacket(s) ==
    LET p == Head(fromStub[s]) IN
    /\ ~Unusable(p, s)
    /\ frag' = NoSock
    /\ NextInChunk
    /\ Consume(s, 1)
    /\ \/ /\ pending # NoReq
          /\ pending' = NoReq
          /\ pc' = [pc EXCEPT ![pending] = "resumed"]
          /\ got' = [got EXCEPT ![pending] = p]
          /\ UNCHANGED <<state, queuedStop>>
       \/ /\ pending = NoReq /\ state = "running"
          /\ queuedStop' = p
          /\ state' = StopState(p)
          /\ UNCHANGED <<pending, pc, got>>
       \/ /\ pending = NoReq /\ state # "running"
          /\ UNCHANGED <<state, queuedStop, pending, pc, got>>
    /\ UNCHANGED <<sock, issued, served, kind, place, on, left, stub, phase, toStub, resets>>

HandlePacket ==
    /\ Parsing
    /\ RejectPacket(chunk.from) \/ AcceptPacket(chunk.from)

-----------------------------------------------------------------------------
(* The stub and the network (external) *)

Reply(s, p) ==
    fromStub' = IF phase[s] = "open" THEN [fromStub EXCEPT ![s] = Append(@, p)] ELSE fromStub

ReplyKinds(k) == {k} \cup (IF StubCorrupts THEN {"bad"} ELSE {})

(* The stub reads the next request of a connection.  It answers a command, *)
(* obeys a resume, and stops a running target on an interrupt byte; the    *)
(* interrupt of a halted target is ignored.                                *)
StubServes(s) ==
    /\ ~Parsing
    /\ toStub[s] # <<>>
    /\ LET m == Head(toStub[s]) IN
        /\ toStub' = [toStub EXCEPT ![s] = Tail(@)]
        /\ \/ /\ m.cmd = "cmd"
              /\ \E k \in ReplyKinds("data") : Reply(s, Pkt(k, m.req))
              /\ UNCHANGED stub
           \/ /\ m.cmd = "query"
              /\ \E k \in ReplyKinds("signal") : Reply(s, Pkt(k, m.req))
              /\ UNCHANGED stub
           \/ /\ m.cmd \in {"continue", "step"}
              /\ target' = IF target = "exited" THEN target ELSE "running"
              /\ resumedBy' = [req |-> m.req, sock |-> s]
              /\ UNCHANGED fromStub
           \/ /\ m.cmd = "interrupt"
              /\ target' = IF target = "running" THEN "halted" ELSE target
              /\ IF target = "running" THEN Reply(s, Pkt("signal", m.req))
                                       ELSE UNCHANGED fromStub
              /\ UNCHANGED resumedBy
    /\ UNCHANGED <<session, calls, phase, resets>>

(* The running target hits a breakpoint or ends a step, or it exits. *)
TargetStops ==
    /\ ~Parsing
    /\ target = "running"
    /\ \E k \in {"signal", "exit"} :
        /\ target' = IF k = "signal" THEN "halted" ELSE "exited"
        /\ \E b \in ReplyKinds(k) : Reply(resumedBy.sock, Pkt(b, resumedBy.req))
    /\ UNCHANGED <<session, calls, resumedBy, phase, toStub, resets>>

(* The stub closes a connection it has been served on. *)
PeerCloses(s) ==
    /\ ~Parsing
    /\ phase[s] = "open"
    /\ phase' = [phase EXCEPT ![s] = "fin"]
    /\ toStub' = [toStub EXCEPT ![s] = <<>>]
    /\ UNCHANGED <<session, calls, stub, fromStub, resets>>

-----------------------------------------------------------------------------
Enter(r)     == EnterConnecting(r) \/ EnterWait(r) \/ EnterInterrupt(r)
Microtask(r) == Enter(r) \/ Dispatch(r) \/ Resume(r)

SocketEvent(s) ==
    \/ Connected(s) \/ ConnectRefused(s) \/ ConnectTimeout(s) \/ Closed(s)
    \/ Deliver(s) \/ DeliverFragment(s)

External == TargetStops \/ \E s \in Sock : StubServes(s) \/ PeerCloses(s)

Next ==
    \/ \E r \in Req : Submit(r) \/ ConnectDirectly(r) \/ Microtask(r) \/ ReplyTimeout(r)
    \/ \E s \in Sock : SocketEvent(s)
    \/ HandlePacket
    \/ Reset
    \/ External

Spec == Init /\ [][Next]_vars

(* The event loop runs every ready microtask and finishes every chunk, and *)
(* a timer that is due fires.  Nothing is assumed of the stub.             *)
Fairness ==
    /\ \A r \in Req : WF_vars(Microtask(r)) /\ WF_vars(ReplyTimeout(r))
    /\ \A s \in Sock : WF_vars(ConnectTimeout(s)) /\ WF_vars(Closed(s) /\ phase[s] = "dead")
    /\ WF_vars(HandlePacket)

FairSpec == Spec /\ Fairness

-----------------------------------------------------------------------------
(* Properties *)

(* Every variable keeps its type: in particular the code's four debugger   *)
(* states, one awaited call at most and one socket at most.                *)
CallTypeOK ==
    /\ pending \in Req \cup {NoReq}
    /\ issued \in Nat /\ served \in Nat
    /\ kind \in [Req -> AllKinds]
    /\ pc \in [Req -> {"idle", "queued", "connecting", "ready", "awaiting", "resumed", "done"}]
    /\ place \in [Req -> Nat]

TypeOK ==
    /\ CallTypeOK
    /\ sock \in Sock \cup {NoSock} /\ frag \in Sock \cup {NoSock}
    /\ state \in {"unavailable", "stopped", "running", "waiting"}
    /\ queuedStop \in Packet
    /\ chunk \in [from : Sock \cup {NoSock}, n : Nat]
    /\ resets \in Nat
    /\ on \in [Req -> Sock \cup {NoSock}]
    /\ left \in [Req -> Nat]
    /\ got \in [Req -> Packet]
    /\ phase \in [Sock -> {"new", "connecting", "open", "fin", "dead", "closed"}]
    /\ toStub \in [Sock -> Seq([cmd : AllKinds, req : Req])]
    /\ fromStub \in [Sock -> Seq(Packet)]
    /\ target \in {"halted", "running", "exited"}
    /\ resumedBy \in [req : Req \cup {NoReq}, sock : Sock \cup {NoSock}]

InSection(r) ==
    kind[r] \in ExclusiveKinds /\ pc[r] \in {"connecting", "ready", "awaiting", "resumed"}

(* The promise chain serves one call at a time, whatever fails, times out  *)
(* or is reset: the reply slot belongs to the one call in the section, so  *)
(* #waitForPacket never finds a reply already pending and no execution     *)
(* request is left behind in the waiting state.                            *)
Serialized ==
    /\ \A r, q \in Req : InSection(r) /\ InSection(q) => r = q
    /\ \A r \in Req : pc[r] = "awaiting" <=> pending = r

(* The waiting state always has an execution request that will leave it.   *)
WaitingHasWaiter ==
    state = "waiting" =>
        \E r \in Req : kind[r] \in ExecKinds /\ pc[r] \in {"awaiting", "resumed"}

(* A session that reports stopped over a live connection is not lying: the *)
(* ARM9 is halted, so memory and breakpoints may be touched.               *)
StoppedMeansHalted ==
    state = "stopped" /\ Live(sock) => target # "running"

(* No command other than the interrupt byte reaches the stub while the     *)
(* target runs.                                                            *)
CommandOnlyWhenHalted ==
    \A s \in Sock :
        phase[s] = "open" /\ toStub[s] # <<>> /\ Head(toStub[s]).cmd # "interrupt"
            => target # "running"

(* A command returns the reply to that command, never to another one.      *)
ReplyIsOwn ==
    \A r \in Req :
        kind[r] \in {"cmd", "query"} /\ got[r].kind \in {"data", "signal", "exit"}
            => got[r].for = r

(* A stop is never lost: a session that believes the target runs, with     *)
(* nothing under way on its connection, is right.                          *)
NoLostStop ==
    /\ state = "running" /\ ~Parsing
    /\ sock # NoSock /\ phase[sock] = "open"
    /\ toStub[sock] = <<>> /\ fromStub[sock] = <<>>
    => target = "running"

(* The sessions keeps to one GDB connection. *)
OneConnection ==
    \A s, d \in Sock : phase[s] \in {"open", "fin"} /\ phase[d] \in {"open", "fin"} => s = d

(* Every call made on the session ends, with a result or an error. *)
CallsEnd == \A r \in Req : pc[r] = "queued" ~> pc[r] = "done"

-----------------------------------------------------------------------------
(* The inductive invariant behind Serialized and WaitingHasWaiter. *)

Placed(r) == kind[r] \in ExclusiveKinds /\ pc[r] # "idle"

(* The promise chain is a ticket queue: places are never shared, the call  *)
(* in the section holds the place being served, and the rest are behind.   *)
ChainInv ==
    /\ served <= issued
    /\ \A r \in Req : Placed(r) => place[r] < issued
    /\ \A r, q \in Req : Placed(r) /\ Placed(q) /\ place[r] = place[q] => r = q
    /\ \A r \in Req : pc[r] = "queued" => place[r] >= served
    /\ \A r \in Req : InSection(r) => place[r] = served
    /\ \A r \in Req : pc[r] \in {"queued", "ready", "awaiting", "resumed"}
                        => kind[r] \in ExclusiveKinds

AwaitInv == \A r \in Req : pc[r] = "awaiting" <=> pending = r

IInv == CallTypeOK /\ ChainInv /\ AwaitInv /\ WaitingHasWaiter
=============================================================================
