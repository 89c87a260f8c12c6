-------------------------- MODULE GdbSessionProofs --------------------------
(***************************************************************************)
(* Proofs about GdbSession, for any number of calls, sockets, resets,      *)
(* steps and late replies or stops.  First Serialized and WaitingHasWaiter.*)
(* Then what the session and the stub say to each other: types, and, for a *)
(* session whose commands are answered in time and whose caller leaves     *)
(* connecting to the requests, StoppedMeansHalted, ReplyIsOwn, NoLostStop. *)
(***************************************************************************)
EXTENDS GdbSession, SequenceTheorems, TLAPS

SectionPCs == {"connecting", "ready", "awaiting", "resumed"}

(* Calls that hold the place being served and end, together with calls of  *)
(* connect(), leave the chain in order: Settle as every handler uses it.   *)
LEMMA SettleKeepsChain ==
  ASSUME CallTypeOK, ChainInv, NEW S \in SUBSET Req, NEW result,
         \A r \in S : kind[r] \in ExclusiveKinds => InTurn(r) \/ InSection(r),
         Settle(S, result), UNCHANGED <<kind, place, issued>>
  PROVE  ChainInv' /\ pc' \in [Req -> {"idle", "queued", "connecting", "ready", "awaiting",
                                       "resumed", "done"}] /\ served' \in Nat
<1>1. pc' \in [Req -> {"idle", "queued", "connecting", "ready", "awaiting", "resumed", "done"}]
      /\ \A r \in Req : pc'[r] = IF r \in S THEN "done" ELSE pc[r]
  BY DEF Settle, CallTypeOK
<1>3. \A r \in S : kind[r] \in ExclusiveKinds => Placed(r) /\ place[r] = served
  BY DEF InTurn, InSection, Placed, ChainInv
<1>2. served' \in Nat /\ served' <= issued'
  BY <1>3 DEF Settle, CallTypeOK, ChainInv
<1>4. \A r \in Req : Placed(r)' => Placed(r)
  BY <1>1, <1>3 DEF Placed
<1>5. \A r \in Req : Placed(r)' => place'[r] < issued'
  BY <1>4 DEF ChainInv
<1>6. \A r, q \in Req : Placed(r)' /\ Placed(q)' /\ place'[r] = place'[q] => r = q
  BY <1>4 DEF ChainInv
<1>7. \A r \in Req : pc'[r] = "queued" => place'[r] >= served'
  <2>1. CASE \E q \in S : kind[q] \in ExclusiveKinds
    <3>1. PICK q \in S : kind[q] \in ExclusiveKinds
      BY <2>1
    <3>2. Placed(q) /\ place[q] = served /\ served' = served + 1
      BY <3>1, <1>3, <2>1 DEF Settle
    <3>3. ASSUME NEW r \in Req, pc'[r] = "queued"
          PROVE  place[r] >= served + 1
      <4>1. r \notin S /\ pc[r] = "queued" /\ r # q
        BY <3>3, <1>1
      <4>2. Placed(r) /\ place[r] >= served
        BY <4>1 DEF Placed, ChainInv
      <4>3. place[r] # served
        BY <4>1, <4>2, <3>2 DEF ChainInv
      <4> QED BY <4>2, <4>3 DEF CallTypeOK
    <3> QED BY <3>2, <3>3
  <2>2. CASE ~ \E q \in S : kind[q] \in ExclusiveKinds
    BY <2>2, <1>1 DEF Settle, ChainInv
  <2> QED BY <2>1, <2>2
<1>8. \A r \in Req : InSection(r)' => place'[r] = served'
  <2>1. ASSUME NEW r \in Req, InSection(r)'
        PROVE  place'[r] = served'
    <3>1. r \notin S /\ InSection(r) /\ Placed(r) /\ place[r] = served
      BY <2>1, <1>1 DEF InSection, Placed, ChainInv
    <3>2. ~ \E q \in S : kind[q] \in ExclusiveKinds
      BY <3>1, <1>3 DEF ChainInv
    <3> QED BY <3>1, <3>2 DEF Settle
  <2> QED BY <2>1
<1>9. \A r \in Req : pc'[r] \in {"queued", "ready", "awaiting", "resumed"}
                       => kind'[r] \in ExclusiveKinds
  BY <1>1 DEF ChainInv
<1> QED BY <1>1, <1>2, <1>5, <1>6, <1>7, <1>8, <1>9 DEF ChainInv

(* A call that moves on inside the section keeps the chain in order. *)
LEMMA MoveKeepsChain ==
  ASSUME CallTypeOK, ChainInv, NEW r \in Req, InTurn(r) \/ InSection(r),
         kind[r] \in ExclusiveKinds,
         NEW c \in SectionPCs, pc' = [pc EXCEPT ![r] = c],
         UNCHANGED <<kind, place, issued, served>>
  PROVE  ChainInv' /\ pc' \in [Req -> {"idle", "queued", "connecting", "ready", "awaiting",
                                       "resumed", "done"}]
<1>1. pc' \in [Req -> {"idle", "queued", "connecting", "ready", "awaiting", "resumed", "done"}]
      /\ \A q \in Req : pc'[q] = IF q = r THEN c ELSE pc[q]
  BY DEF CallTypeOK, SectionPCs
<1>2. Placed(r) /\ place[r] = served
  BY DEF InTurn, InSection, Placed, ChainInv
<1>3. \A q \in Req : Placed(q)' => Placed(q)
  BY <1>1, <1>2 DEF Placed
<1>4. \A q \in Req : InSection(q)' => place'[q] = served'
  BY <1>1, <1>2 DEF InSection, ChainInv
<1>5. \A q \in Req : pc'[q] = "queued" => place'[q] >= served'
  BY <1>1 DEF ChainInv, SectionPCs
<1>6. \A q \in Req : pc'[q] \in {"queued", "ready", "awaiting", "resumed"}
                       => kind'[q] \in ExclusiveKinds
  BY <1>1 DEF ChainInv
<1>7. \A q \in Req : Placed(q)' => place'[q] < issued'
  BY <1>3 DEF ChainInv
<1>8. \A q, t \in Req : Placed(q)' /\ Placed(t)' /\ place'[q] = place'[t] => q = t
  BY <1>3 DEF ChainInv
<1> QED BY <1>1, <1>4, <1>5, <1>6, <1>7, <1>8, served' <= issued' DEF ChainInv

(* At most one call is in the section. *)
LEMMA SectionUnique ==
  ASSUME CallTypeOK, ChainInv, NEW r \in Req, NEW q \in Req,
         InTurn(r) \/ InSection(r), InSection(q), kind[r] \in ExclusiveKinds
  PROVE  r = q /\ InSection(r)
<1>1. Placed(r) /\ place[r] = served /\ Placed(q) /\ place[q] = served
  BY DEF InTurn, InSection, Placed, ChainInv
<1>2. r = q
  BY <1>1 DEF ChainInv
<1> QED BY <1>2

(* The awaiting call, if any, is in the section; it is what failPending    *)
(* rejects. *)
LEMMA PendingInSection ==
  ASSUME CallTypeOK, ChainInv, AwaitInv, NEW r \in PendingCalls
  PROVE  r \in Req /\ pending = r /\ pc[r] = "awaiting" /\ InSection(r)
<1>1. r \in Req /\ pending = r
  BY DEF PendingCalls, CallTypeOK
<1>2. pc[r] = "awaiting"
  BY <1>1 DEF AwaitInv
<1> QED BY <1>1, <1>2 DEF ChainInv, InSection

(* #failPending with the calls T that end at the same time. *)
LEMMA FailPendingStep ==
  ASSUME CallTypeOK, ChainInv, AwaitInv, NEW T \in SUBSET Req, NEW result,
         \A r \in T : kind[r] \in ExclusiveKinds => InTurn(r) \/ InSection(r),
         Settle(T \cup PendingCalls, result), pending' = NoReq,
         UNCHANGED <<kind, place, issued>>
  PROVE  CallTypeOK' /\ ChainInv' /\ AwaitInv'
<1>1. T \cup PendingCalls \in SUBSET Req
  BY PendingInSection
<1>2. \A r \in T \cup PendingCalls :
         kind[r] \in ExclusiveKinds => InTurn(r) \/ InSection(r)
  BY PendingInSection
<1>3. /\ ChainInv' /\ served' \in Nat
      /\ pc' \in [Req -> {"idle", "queued", "connecting", "ready", "awaiting", "resumed", "done"}]
  BY <1>1, <1>2, SettleKeepsChain
<1>4. CallTypeOK'
  BY <1>3 DEF CallTypeOK
<1>5. AwaitInv'
  BY <1>1, ReqAssumption DEF AwaitInv, Settle, PendingCalls, CallTypeOK
<1> QED BY <1>3, <1>4, <1>5

(* A call r that holds the place being served and awaits nothing ends.     *)
LEMMA EndStep ==
  ASSUME CallTypeOK, ChainInv, AwaitInv, NEW r \in Req, NEW result,
         InTurn(r) \/ InSection(r), pc[r] # "awaiting",
         Settle({r}, result), UNCHANGED <<pending, kind, place, issued>>
  PROVE  CallTypeOK' /\ ChainInv' /\ AwaitInv'
<1>1. /\ ChainInv' /\ served' \in Nat
      /\ pc' \in [Req -> {"idle", "queued", "connecting", "ready", "awaiting", "resumed", "done"}]
  BY SettleKeepsChain
<1>2. CallTypeOK'
  BY <1>1 DEF CallTypeOK
<1>3. AwaitInv'
  BY DEF AwaitInv, Settle, CallTypeOK
<1> QED BY <1>1, <1>2, <1>3

(* #waitForPacket, called in the section, finds the reply slot free: the   *)
(* call becomes the awaiting one.                                          *)
LEMMA AwaitStep ==
  ASSUME CallTypeOK, ChainInv, AwaitInv, NEW r \in Req, NEW s, NEW cmd,
         InTurn(r) \/ InSection(r), kind[r] \in ExclusiveKinds, pc[r] # "awaiting",
         AwaitReply(r, s, cmd), UNCHANGED <<kind, place, issued>>
  PROVE  CallTypeOK' /\ ChainInv' /\ AwaitInv' /\ pc'[r] = "awaiting"
<1>1. pending = NoReq
  <2>1. SUFFICES ASSUME pending # NoReq PROVE FALSE
    OBVIOUS
  <2>2. pending \in PendingCalls
    BY <2>1 DEF PendingCalls
  <2>3. pending \in Req /\ InSection(pending) /\ pc[pending] = "awaiting"
    BY <2>2, PendingInSection
  <2>4. r = pending
    BY <2>3, SectionUnique
  <2> QED BY <2>3, <2>4
<1>2. pending' = r /\ pc' = [pc EXCEPT ![r] = "awaiting"] /\ served' = served
  BY <1>1 DEF AwaitReply
<1>3. "awaiting" \in SectionPCs
  BY DEF SectionPCs
<1>4. /\ ChainInv'
      /\ pc' \in [Req -> {"idle", "queued", "connecting", "ready", "awaiting", "resumed", "done"}]
  BY <1>2, <1>3, MoveKeepsChain
<1>5. CallTypeOK'
  BY <1>2, <1>4 DEF CallTypeOK
<1>6. AwaitInv'
  BY <1>1, <1>2, ReqAssumption DEF AwaitInv, CallTypeOK
<1> QED BY <1>2, <1>4, <1>5, <1>6 DEF CallTypeOK

(* A call r moves on inside the section without awaiting a reply. *)
LEMMA MoveStep ==
  ASSUME CallTypeOK, ChainInv, AwaitInv, NEW r \in Req, NEW c \in {"connecting", "ready"},
         InTurn(r) \/ InSection(r), kind[r] \in ExclusiveKinds, pc[r] # "awaiting",
         pc' = [pc EXCEPT ![r] = c], UNCHANGED <<pending, kind, place, issued, served>>
  PROVE  CallTypeOK' /\ ChainInv' /\ AwaitInv'
<1>1. c \in SectionPCs
  BY DEF SectionPCs
<1>2. /\ ChainInv'
      /\ pc' \in [Req -> {"idle", "queued", "connecting", "ready", "awaiting", "resumed", "done"}]
  BY <1>1, MoveKeepsChain
<1>3. CallTypeOK'
  BY <1>2 DEF CallTypeOK
<1>4. AwaitInv'
  BY DEF AwaitInv, CallTypeOK
<1> QED BY <1>2, <1>3, <1>4

(* The waiting state survives any step that leaves alone the execution     *)
(* request the state belongs to.                                           *)
LEMMA WaiterKept ==
  ASSUME WaitingHasWaiter, state' = "waiting" => state = "waiting", kind' = kind,
         \A r \in Req : kind[r] \in ExecKinds /\ pc[r] \in {"awaiting", "resumed"}
                        => pc'[r] \in {"awaiting", "resumed"}
  PROVE  WaitingHasWaiter'
BY DEF WaitingHasWaiter

-----------------------------------------------------------------------------
(* The actions, one lemma each where more than a step kind is needed *)

(* A submitted call takes a place nobody has, behind the ones handed out. *)
LEMMA SubmitStep ==
  ASSUME IInv, NEW r \in Req, Submit(r)
  PROVE  IInv'
<1> USE DEF IInv, Submit
<1>1. CallTypeOK'
  BY DEF CallTypeOK, session
<1>2. \A q \in Req : /\ pc'[q] = IF q = r THEN "queued" ELSE pc[q]
                     /\ place'[q] = IF q = r THEN issued ELSE place[q]
  BY DEF CallTypeOK
<1>3. ~Placed(r) /\ \A q \in Req : q # r => (Placed(q)' <=> Placed(q))
  BY <1>2 DEF Placed
<1>5. ChainInv'
  <2>1. \A q \in Req : Placed(q)' => place'[q] < issued'
    BY <1>2, <1>3 DEF ChainInv, CallTypeOK
  <2>2. \A q, t \in Req : Placed(q)' /\ Placed(t)' /\ place'[q] = place'[t] => q = t
    BY <1>2, <1>3 DEF ChainInv, CallTypeOK
  <2>3. \A q \in Req : pc'[q] = "queued" => place'[q] >= served'
    BY <1>2 DEF ChainInv, CallTypeOK
  <2>4. \A q \in Req : InSection(q)' => place'[q] = served'
    BY <1>2 DEF ChainInv, InSection
  <2>5. \A q \in Req : pc'[q] \in {"queued", "ready", "awaiting", "resumed"}
                         => kind'[q] \in ExclusiveKinds
    BY <1>2 DEF ChainInv
  <2>6. served' <= issued'
    BY DEF ChainInv, CallTypeOK
  <2> QED BY <2>1, <2>2, <2>3, <2>4, <2>5, <2>6 DEF ChainInv
<1>6. AwaitInv'
  BY <1>2 DEF AwaitInv, session
<1>7. WaitingHasWaiter'
  BY <1>2, WaiterKept DEF session
<1> QED BY <1>1, <1>5, <1>6, <1>7

(* A direct connect() is outside the chain and awaits no reply. *)
LEMMA ConnectDirectlyStep ==
  ASSUME IInv, NEW r \in Req, ConnectDirectly(r)
  PROVE  IInv'
<1> USE DEF IInv, ConnectDirectly
<1>1. kind[r] \notin ExclusiveKinds /\ pc[r] = "idle"
  BY DEF ExclusiveKinds
<1>2. CASE Live(sock)
  <2>1. Settle({r}, NoPkt) /\ UNCHANGED <<state, pending, kind, place, issued>>
    BY <1>2 DEF session
  <2>2. /\ ChainInv' /\ served' \in Nat
        /\ pc' \in [Req -> {"idle", "queued", "connecting", "ready", "awaiting", "resumed", "done"}]
    BY <1>1, <2>1, SettleKeepsChain
  <2>3. CallTypeOK' /\ AwaitInv' /\ WaitingHasWaiter'
    BY <1>1, <2>1, <2>2, WaiterKept DEF CallTypeOK, AwaitInv, Settle
  <2> QED BY <2>2, <2>3
<1>3. CASE ~Live(sock)
  <2>1. /\ pc' = [pc EXCEPT ![r] = "connecting"]
        /\ UNCHANGED <<state, pending, kind, place, issued, served>>
    BY <1>3 DEF OpenSocket, session
  <2>2. \A q \in Req : pc'[q] = IF q = r THEN "connecting" ELSE pc[q]
    BY <2>1 DEF CallTypeOK
  <2>3. CallTypeOK'
    BY <2>1 DEF CallTypeOK
  <2>4. ChainInv'
    BY <1>1, <2>1, <2>2 DEF ChainInv, Placed, InSection
  <2>5. AwaitInv' /\ WaitingHasWaiter'
    BY <1>1, <2>1, <2>2, WaiterKept DEF AwaitInv
  <2> QED BY <2>3, <2>4, <2>5
<1> QED BY <1>2, <1>3

(* The call whose turn it is enters the section, which is empty. *)
LEMMA EnterConnectingStep ==
  ASSUME IInv, NEW r \in Req, EnterConnecting(r)
  PROVE  IInv'
<1> USE DEF IInv, EnterConnecting
<1>1. /\ pc' = [pc EXCEPT ![r] = "ready"] \/ pc' = [pc EXCEPT ![r] = "connecting"]
      /\ UNCHANGED <<state, pending, kind, place, issued, served>>
  BY DEF OpenSocket, session
<1>2. kind[r] \in ExclusiveKinds /\ pc[r] = "queued" /\ InTurn(r)
  BY DEF ConnectKinds, ExclusiveKinds, InTurn
<1>3. CallTypeOK' /\ ChainInv' /\ AwaitInv'
  BY <1>1, <1>2, MoveStep
<1>4. WaitingHasWaiter'
  BY <1>1, <1>2, WaiterKept DEF CallTypeOK
<1> QED BY <1>3, <1>4

(* Dispatch, EnterWait and EnterInterrupt either fail without touching the *)
(* state, or return at once, or become the awaiting call.                  *)
LEMMA DispatchStep ==
  ASSUME IInv, NEW r \in Req, Dispatch(r)
  PROVE  IInv'
<1> USE DEF IInv, Dispatch
<1>1. kind[r] \in ExclusiveKinds /\ pc[r] = "ready" /\ InSection(r)
  BY DEF ChainInv, InSection
<1>2. CASE state = "stopped" /\ Live(sock)
  <2>1. AwaitReply(r, sock, kind[r]) /\ UNCHANGED <<kind, place, issued>>
    BY <1>2
  <2>2. CallTypeOK' /\ ChainInv' /\ AwaitInv' /\ pc'[r] = "awaiting"
    BY <1>1, <2>1, AwaitStep
  <2>3. WaitingHasWaiter'
    <3>1. CASE kind[r] \in ExecKinds
      BY <2>2, <3>1 DEF WaitingHasWaiter
    <3>2. CASE kind[r] \notin ExecKinds
      BY <1>2, <3>2 DEF WaitingHasWaiter
    <3> QED BY <3>1, <3>2
  <2> QED BY <2>2, <2>3
<1>3. CASE ~(state = "stopped" /\ Live(sock))
  <2>1. Settle({r}, Failure) /\ UNCHANGED <<state, pending, kind, place, issued>>
    BY <1>3
  <2>2. CallTypeOK' /\ ChainInv' /\ AwaitInv'
    BY <1>1, <2>1, EndStep
  <2>3. WaitingHasWaiter'
    BY <1>1, <2>1, WaiterKept DEF Settle
  <2> QED BY <2>2, <2>3
<1> QED BY <1>2, <1>3

(* waitForStop returns, throws, or becomes the waiter of its state. *)
LEMMA EnterWaitStep ==
  ASSUME IInv, NEW r \in Req, EnterWait(r)
  PROVE  IInv'
<1> USE DEF IInv, EnterWait
<1>1. /\ kind[r] \in ExclusiveKinds /\ kind[r] \in ExecKinds
      /\ pc[r] = "queued" /\ InTurn(r)
  BY DEF InTurn, ExclusiveKinds, ExecKinds
<1>2. UNCHANGED <<kind, place, issued>>
  OBVIOUS
<1>3. CASE queuedStop # NoPkt
  <2>1. /\ Settle({r}, queuedStop) /\ UNCHANGED pending
        /\ state' # "waiting"
    BY <1>3 DEF StopState
  <2>2. CallTypeOK' /\ ChainInv' /\ AwaitInv'
    BY <1>1, <1>2, <2>1, EndStep
  <2> QED BY <2>1, <2>2 DEF WaitingHasWaiter
<1>4. CASE queuedStop = NoPkt /\ state = "running" /\ Live(sock)
  <2>1. AwaitReply(r, sock, "")
    BY <1>4
  <2>2. CallTypeOK' /\ ChainInv' /\ AwaitInv' /\ pc'[r] = "awaiting"
    BY <1>1, <1>2, <2>1, AwaitStep
  <2> QED BY <1>1, <1>2, <2>2 DEF WaitingHasWaiter
<1>5. CASE queuedStop = NoPkt /\ ~(state = "running" /\ Live(sock))
  <2>1. Settle({r}, Failure) /\ UNCHANGED <<pending, state>>
    BY <1>5
  <2>2. CallTypeOK' /\ ChainInv' /\ AwaitInv'
    BY <1>1, <1>2, <2>1, EndStep
  <2>3. WaitingHasWaiter'
    BY <1>1, <1>2, <2>1, WaiterKept DEF Settle
  <2> QED BY <2>2, <2>3
<1> QED BY <1>3, <1>4, <1>5

(* interruptAndWait throws or becomes the waiter of its state. *)
LEMMA EnterInterruptStep ==
  ASSUME IInv, NEW r \in Req, EnterInterrupt(r)
  PROVE  IInv'
<1> USE DEF IInv, EnterInterrupt
<1>1. /\ kind[r] \in ExclusiveKinds /\ kind[r] \in ExecKinds
      /\ pc[r] = "queued" /\ InTurn(r)
  BY DEF InTurn, ExclusiveKinds, ExecKinds
<1>2. UNCHANGED <<kind, place, issued>>
  OBVIOUS
<1>3. CASE state = "running" /\ Live(sock)
  <2>1. AwaitReply(r, sock, "interrupt")
    BY <1>3
  <2>2. CallTypeOK' /\ ChainInv' /\ AwaitInv' /\ pc'[r] = "awaiting"
    BY <1>1, <1>2, <2>1, AwaitStep
  <2> QED BY <1>1, <1>2, <2>2 DEF WaitingHasWaiter
<1>4. CASE ~(state = "running" /\ Live(sock))
  <2>1. Settle({r}, Failure) /\ UNCHANGED <<pending, state>>
    BY <1>4
  <2>2. CallTypeOK' /\ ChainInv' /\ AwaitInv'
    BY <1>1, <1>2, <2>1, EndStep
  <2>3. WaitingHasWaiter'
    BY <1>1, <1>2, <2>1, WaiterKept DEF Settle
  <2> QED BY <2>2, <2>3
<1> QED BY <1>3, <1>4

(* A resumed call returns, steps again as its own waiter, or resets. *)
LEMMA ResumeStep ==
  ASSUME IInv, NEW r \in Req, Resume(r)
  PROVE  IInv'
<1> USE DEF IInv
<1>1. kind[r] \in ExclusiveKinds /\ pc[r] = "resumed" /\ InSection(r)
  BY DEF Resume, ChainInv, InSection
<1>2. CASE ReturnReply(r)
  <2>1. /\ Settle({r}, got[r]) /\ kind[r] \notin ExecKinds
        /\ UNCHANGED <<state, pending, kind, place, issued>>
    BY <1>2 DEF ReturnReply, session
  <2>2. CallTypeOK' /\ ChainInv' /\ AwaitInv'
    BY <1>1, <2>1, EndStep
  <2>3. WaitingHasWaiter'
    BY <2>1, WaiterKept DEF Settle
  <2> QED BY <2>2, <2>3
<1>3. CASE ReturnStop(r)
  <2>1. /\ Settle({r}, got[r]) /\ state' # "waiting"
        /\ UNCHANGED <<pending, kind, place, issued>>
    BY <1>3 DEF ReturnStop, StopState
  <2>2. CallTypeOK' /\ ChainInv' /\ AwaitInv'
    BY <1>1, <2>1, EndStep
  <2> QED BY <2>1, <2>2 DEF WaitingHasWaiter
<1>4. CASE StepAgain(r)
  <2>1. /\ AwaitReply(r, on[r], "step") /\ kind[r] = "step"
        /\ UNCHANGED <<kind, place, issued>>
    BY <1>4 DEF StepAgain
  <2>2. CallTypeOK' /\ ChainInv' /\ AwaitInv' /\ pc'[r] = "awaiting"
    BY <1>1, <2>1, AwaitStep
  <2> QED BY <2>1, <2>2 DEF WaitingHasWaiter, ExecKinds
<1>5. CASE RejectStop(r)
  <2>1. /\ Settle({r} \cup PendingCalls, Failure) /\ pending' = NoReq
        /\ state' = "unavailable" /\ UNCHANGED <<kind, place, issued>>
    BY <1>5 DEF RejectStop, DropConnection
  <2>2. {r} \in SUBSET Req /\ \A q \in {r} : InSection(q)
    BY <1>1
  <2>3. CallTypeOK' /\ ChainInv' /\ AwaitInv'
    BY <2>1, <2>2, FailPendingStep
  <2> QED BY <2>1, <2>3 DEF WaitingHasWaiter
<1> QED BY <1>2, <1>3, <1>4, <1>5 DEF Resume

(* A timeout frees the reply slot and leaves the waiting state. *)
LEMMA ReplyTimeoutStep ==
  ASSUME IInv, NEW r \in Req, ReplyTimeout(r)
  PROVE  IInv'
<1> USE DEF IInv, ReplyTimeout
<1>1. PendingCalls = {r} /\ {} \in SUBSET Req
  BY ReqAssumption DEF PendingCalls
<1>2. PICK result : Settle({} \cup PendingCalls, result)
  BY <1>1
<1>3. CallTypeOK' /\ ChainInv' /\ AwaitInv'
  BY <1>1, <1>2, FailPendingStep
<1>4. WaitingHasWaiter'
  <2>1. CASE kind[r] \in ExecKinds
    BY <2>1 DEF WaitingHasWaiter
  <2>2. CASE kind[r] \notin ExecKinds
    BY <2>2, WaiterKept DEF Settle
  <2> QED BY <2>1, <2>2
<1> QED BY <1>3, <1>4

(* reset, a refused connection, a closed one and a packet that does not    *)
(* parse all reject the awaited reply and leave the session unavailable.   *)
LEMMA UnavailableStep ==
  ASSUME IInv, NEW T \in SUBSET Req,
         \A r \in T : pc[r] = "connecting",
         Settle(T \cup PendingCalls, Failure), pending' = NoReq,
         state' = "unavailable", UNCHANGED <<kind, place, issued>>
  PROVE  IInv'
<1>1. \A r \in T : kind[r] \in ExclusiveKinds => InTurn(r) \/ InSection(r)
  BY DEF InSection
<1>2. CallTypeOK' /\ ChainInv' /\ AwaitInv'
  BY <1>1, FailPendingStep DEF IInv
<1>3. WaitingHasWaiter'
  BY DEF WaitingHasWaiter
<1> QED BY <1>2, <1>3 DEF IInv

(* The one call a reset rejects is the one in the section. *)
LEMMA OnlyPendingFails ==
  ASSUME IInv, Settle({} \cup PendingCalls, Failure), pending' = NoReq,
         state' = "unavailable", UNCHANGED <<kind, place, issued>>
  PROVE  IInv'
<1>1. {} \in SUBSET Req /\ \A r \in {} : pc[r] = "connecting"
  OBVIOUS
<1> QED BY <1>1, UnavailableStep

(* A connection moves its connector on and leaves the session stopped. *)
LEMMA ConnectedStep ==
  ASSUME IInv, NEW s \in Sock, Connected(s)
  PROVE  IInv'
<1> USE DEF IInv
<1>1. /\ state' = "stopped" /\ UNCHANGED <<pending, kind, place, issued, served>>
      /\ \A r \in Req : pc'[r] = IF pc[r] = "connecting" /\ on[r] = s
                                 THEN IF kind[r] = "connect" THEN "done" ELSE "ready"
                                 ELSE pc[r]
      /\ pc' \in [Req -> {"idle", "queued", "connecting", "ready", "awaiting", "resumed", "done"}]
  BY DEF Connected, Connectors, CallTypeOK
<1>2. CallTypeOK'
  BY <1>1 DEF CallTypeOK
<1>3. \A r \in Req : kind[r] # "connect" => kind[r] \in ExclusiveKinds
  BY DEF CallTypeOK, AllKinds
<1>4. /\ \A r \in Req : Placed(r)' <=> Placed(r)
      /\ \A r \in Req : InSection(r)' => InSection(r)
      /\ \A r \in Req : pc'[r] \in {"queued", "ready", "awaiting", "resumed"}
                         => kind[r] \in ExclusiveKinds
  BY <1>1, <1>3 DEF Placed, InSection, ChainInv, ExclusiveKinds
<1>5. ChainInv'
  BY <1>1, <1>4 DEF ChainInv
<1>6. AwaitInv' /\ WaitingHasWaiter'
  BY <1>1 DEF AwaitInv, WaitingHasWaiter
<1> QED BY <1>2, <1>5, <1>6

(* A connect that times out ends its connectors and nothing else. *)
LEMMA ConnectTimeoutStep ==
  ASSUME IInv, NEW s \in Sock, ConnectTimeout(s)
  PROVE  IInv'
<1> USE DEF IInv
<1>1. /\ Settle(Connectors(s), Failure) /\ UNCHANGED <<state, pending, kind, place, issued>>
      /\ Connectors(s) \in SUBSET Req /\ \A r \in Connectors(s) : pc[r] = "connecting"
  BY DEF ConnectTimeout, Connectors, session
<1>2. /\ ChainInv' /\ served' \in Nat
      /\ pc' \in [Req -> {"idle", "queued", "connecting", "ready", "awaiting", "resumed", "done"}]
  BY <1>1, SettleKeepsChain DEF InSection
<1>3. CallTypeOK' /\ AwaitInv'
  BY <1>1, <1>2 DEF CallTypeOK, AwaitInv, Settle
<1>4. WaitingHasWaiter'
  BY <1>1, WaiterKept DEF Settle
<1> QED BY <1>2, <1>3, <1>4

(* A packet resumes the awaiting call, is queued, dropped or refused. *)
LEMMA HandlePacketStep ==
  ASSUME IInv, HandlePacket
  PROVE  IInv'
<1> USE DEF IInv
<1>1. CASE RejectPacket(chunk.from)
  <2>1. /\ Settle({} \cup PendingCalls, Failure) /\ pending' = NoReq
        /\ state' = "unavailable" /\ UNCHANGED <<kind, place, issued>>
    BY <1>1 DEF RejectPacket, DropConnection
  <2> QED BY <2>1, OnlyPendingFails
<1>2. CASE AcceptPacket(chunk.from)
  <2>1. UNCHANGED <<kind, place, issued, served>>
    BY <1>2 DEF AcceptPacket
  <2>2. CASE pending # NoReq
    <3>1. /\ pending \in PendingCalls /\ pending' = NoReq /\ state' = state
          /\ pc' = [pc EXCEPT ![pending] = "resumed"]
      BY <1>2, <2>2 DEF AcceptPacket, PendingCalls
    <3>2. pending \in Req /\ InSection(pending) /\ pc[pending] = "awaiting"
      BY <3>1, PendingInSection
    <3>3. kind[pending] \in ExclusiveKinds /\ "resumed" \in SectionPCs
      BY <3>2 DEF InSection, SectionPCs
    <3>4. /\ ChainInv'
          /\ pc' \in [Req -> {"idle", "queued", "connecting", "ready", "awaiting", "resumed", "done"}]
      BY <2>1, <3>1, <3>2, <3>3, MoveKeepsChain
    <3>5. CallTypeOK'
      BY <2>1, <3>1, <3>4 DEF CallTypeOK
    <3>6. AwaitInv'
      BY <3>1, ReqAssumption DEF AwaitInv, CallTypeOK
    <3>7. WaitingHasWaiter'
      BY <2>1, <3>1, WaiterKept DEF CallTypeOK
    <3> QED BY <3>4, <3>5, <3>6, <3>7
  <2>3. CASE pending = NoReq
    <3>1. UNCHANGED <<pending, pc>> /\ (state' = state \/ state' # "waiting")
      BY <1>2, <2>3 DEF AcceptPacket, StopState
    <3>2. CallTypeOK' /\ ChainInv' /\ AwaitInv'
      BY <2>1, <3>1 DEF CallTypeOK, ChainInv, AwaitInv, Placed, InSection
    <3>3. WaitingHasWaiter'
      BY <2>1, <3>1 DEF WaitingHasWaiter
    <3> QED BY <3>2, <3>3
  <2> QED BY <2>2, <2>3
<1> QED BY <1>1, <1>2 DEF HandlePacket

(* Steps that touch neither the calls nor the execution state. *)
LEMMA QuietStep ==
  ASSUME IInv, UNCHANGED <<state, pending, issued, served, kind, pc, place>>
  PROVE  IInv'
BY DEF IInv, CallTypeOK, ChainInv, AwaitInv, WaitingHasWaiter, Placed, InSection

-----------------------------------------------------------------------------
(* No call is placed at first. *)
LEMMA InitIInv == Init => IInv
<1> SUFFICES ASSUME Init PROVE IInv
  OBVIOUS
<1>1. CallTypeOK
  BY KindAssumption DEF Init, CallTypeOK
<1>2. ChainInv /\ AwaitInv
  BY ReqAssumption DEF Init, ChainInv, AwaitInv, Placed, InSection
<1>3. WaitingHasWaiter
  BY DEF Init, WaitingHasWaiter
<1> QED BY <1>1, <1>2, <1>3 DEF IInv

(* Every step of the session keeps the invariant. *)
LEMMA NextIInv == IInv /\ [Next]_vars => IInv'
<1> SUFFICES ASSUME IInv, [Next]_vars PROVE IInv'
  OBVIOUS
<1>1. ASSUME NEW r \in Req,
             Submit(r) \/ ConnectDirectly(r) \/ Microtask(r) \/ ReplyTimeout(r)
      PROVE  IInv'
  BY <1>1, SubmitStep, ConnectDirectlyStep, EnterConnectingStep, EnterWaitStep,
     EnterInterruptStep, DispatchStep, ResumeStep, ReplyTimeoutStep DEF Microtask, Enter
<1>2. ASSUME NEW s \in Sock, SocketEvent(s)
      PROVE  IInv'
  <2>1. CASE Connected(s)
    BY <2>1, ConnectedStep
  <2>2. CASE ConnectRefused(s)
    <3>1. /\ Settle(Connectors(s) \cup PendingCalls, Failure) /\ pending' = NoReq
          /\ state' = "unavailable" /\ UNCHANGED <<kind, place, issued>>
      BY <2>2 DEF ConnectRefused, CloseHandler
    <3>2. Connectors(s) \in SUBSET Req /\ \A r \in Connectors(s) : pc[r] = "connecting"
      BY DEF Connectors
    <3> QED BY <3>1, <3>2, UnavailableStep
  <2>3. CASE ConnectTimeout(s)
    BY <2>3, ConnectTimeoutStep
  <2>4. CASE Closed(s)
    <3>1. /\ Settle({} \cup PendingCalls, Failure) /\ pending' = NoReq
          /\ state' = "unavailable" /\ UNCHANGED <<kind, place, issued>>
      BY <2>4 DEF Closed, CloseHandler
    <3> QED BY <3>1, OnlyPendingFails
  <2>5. CASE Deliver(s) \/ DeliverFragment(s)
    BY <2>5, QuietStep DEF Deliver, DeliverFragment, calls
  <2> QED BY <1>2, <2>1, <2>2, <2>3, <2>4, <2>5 DEF SocketEvent
<1>3. CASE HandlePacket
  BY <1>3, HandlePacketStep
<1>4. CASE Reset
  <2>1. /\ Settle({} \cup PendingCalls, Failure) /\ pending' = NoReq
        /\ state' = "unavailable" /\ UNCHANGED <<kind, place, issued>>
    BY <1>4 DEF Reset, DropConnection
  <2> QED BY <2>1, OnlyPendingFails
<1>5. CASE External
  BY <1>5, QuietStep DEF External, TargetStops, StubServes, PeerCloses, session, calls
<1>6. CASE UNCHANGED vars
  BY <1>6, QuietStep DEF vars, session, calls
<1> QED BY <1>1, <1>2, <1>3, <1>4, <1>5, <1>6 DEF Next

(* What the invariant says of places, said of calls. *)
LEMMA IInvImpliesSerialized == IInv => Serialized
BY DEF IInv, Serialized, ChainInv, AwaitInv, Placed, InSection

(* The promise chain of #runExclusive serves one call at a time and the    *)
(* reply slot is the serving call's alone, for any calls, however they     *)
(* fail, time out or are reset.                                            *)
THEOREM SessionSerialized == Spec => []Serialized
<1>1. Spec => []IInv
  BY InitIInv, NextIInv, PTL DEF Spec
<1> QED BY <1>1, IInvImpliesSerialized, PTL

(* A session in the waiting state always has an execution request that     *)
(* will leave it. *)
THEOREM SessionWaitingHasWaiter == Spec => []WaitingHasWaiter
<1>1. Spec => []IInv
  BY InitIInv, NextIInv, PTL DEF Spec
<1>2. IInv => WaitingHasWaiter
  BY DEF IInv
<1> QED BY <1>1, <1>2, PTL

-----------------------------------------------------------------------------
(* Every variable keeps its type *)

\* The event being handled comes from a socket that has what is left of it.
ChunkOK == Parsing => chunk.from \in Sock /\ chunk.n <= Len(fromStub[chunk.from])
TypeInv == TypeOK /\ ChunkOK

LEMMA PacketsTyped ==
    /\ NoPkt \in Packet /\ Failure \in Packet /\ TimedOut \in Packet
    /\ \A k \in {"none", "error", "timeout", "data", "signal", "exit", "bad"}, r \in Req \cup {NoReq} : Pkt(k, r) \in Packet
BY DEF NoPkt, Failure, TimedOut, Pkt, Packet

LEMMA SettleTyped ==
    ASSUME TypeOK, NEW S \in SUBSET Req, NEW result \in Packet, Settle(S, result)
    PROVE  got' \in [Req -> Packet]
BY DEF TypeOK, Settle

LEMMA PendingIsCall == TypeOK => PendingCalls \in SUBSET Req
BY DEF TypeOK, CallTypeOK, PendingCalls

\* The packets of a socket lose the first ones.
LEMMA Shortened ==
    ASSUME NEW S, NEW q \in Seq(S), NEW n \in 0..Len(q)
    PROVE  /\ SubSeq(q, n + 1, Len(q)) \in Seq(S)
           /\ Len(SubSeq(q, n + 1, Len(q))) = Len(q) - n
<1>1. n \in Int /\ n + 1 \in Int /\ Len(q) \in Int /\ n <= Len(q)
  OBVIOUS
<1>2. \A i \in (n + 1)..Len(q) : q[i] \in S
  OBVIOUS
<1>3. /\ SubSeq(q, n + 1, Len(q)) \in Seq(S)
      /\ Len(SubSeq(q, n + 1, Len(q))) = IF n + 1 <= Len(q) THEN Len(q) - (n + 1) + 1 ELSE 0
  BY <1>1, <1>2, SubSeqProperties
<1> QED BY <1>1, <1>3

\* A packet goes to the end.
LEMMA Lengthened ==
    ASSUME NEW S, NEW q \in Seq(S), NEW x \in S
    PROVE  /\ Append(q, x) \in Seq(S) /\ Len(Append(q, x)) = Len(q) + 1
           /\ <<>> \in Seq(S)
  OBVIOUS

LEMMA WriteTyped ==
    ASSUME TypeOK, NEW s \in Sock \cup {NoSock}, NEW cmd \in AllKinds, NEW r \in Req, Write(s, cmd, r)
    PROVE  toStub' \in [Sock -> Seq([cmd : AllKinds, req : Req])]
<1>1. [cmd |-> cmd, req |-> r] \in [cmd : AllKinds, req : Req]
  OBVIOUS
<1>3. toStub \in [Sock -> Seq([cmd : AllKinds, req : Req])]
  BY DEF TypeOK
<1>2. \A d \in Sock : Append(toStub[d], [cmd |-> cmd, req |-> r]) \in Seq([cmd : AllKinds, req : Req])
  BY <1>1, <1>3, Lengthened
<1> QED BY <1>2, <1>3 DEF Write

LEMMA AwaitTyped ==
    ASSUME TypeOK, NEW s \in Sock \cup {NoSock}, NEW cmd \in AllKinds \cup {""}, NEW r \in Req, AwaitReply(r, s, cmd)
    PROVE  /\ toStub' \in [Sock -> Seq([cmd : AllKinds, req : Req])]
           /\ on' \in [Req -> Sock \cup {NoSock}] /\ got' \in [Req -> Packet]
<1>1. CASE pending # NoReq
  BY <1>1, SettleTyped, PacketsTyped DEF AwaitReply, TypeOK
<1>2. CASE pending = NoReq
  <2>1. on' \in [Req -> Sock \cup {NoSock}] /\ got' \in [Req -> Packet]
    BY <1>2 DEF AwaitReply, TypeOK
  <2>2. toStub' \in [Sock -> Seq([cmd : AllKinds, req : Req])]
    BY <1>2, WriteTyped DEF AwaitReply, TypeOK
  <2> QED BY <2>1, <2>2
<1> QED BY <1>1, <1>2

LEMMA DropTyped ==
    ASSUME TypeOK, DropConnection
    PROVE  /\ sock' = NoSock /\ frag' = NoSock /\ queuedStop' = NoPkt /\ state' = "unavailable"
           /\ phase' \in [Sock -> {"new", "connecting", "open", "fin", "dead", "closed"}]
BY DEF TypeOK, DropConnection

\* The steps of the calls.
LEMMA CallsTyped ==
    ASSUME TypeInv, CallTypeOK', NEW r \in Req,
           Submit(r) \/ ConnectDirectly(r) \/ EnterConnecting(r) \/ Dispatch(r) \/ EnterWait(r) \/ EnterInterrupt(r)
    PROVE  TypeInv'
<1> USE DEF TypeInv
<1>1. CASE Submit(r)
  BY <1>1 DEF Submit, session, stub, net, TypeOK, ChunkOK, Parsing
<1>2. ASSUME OpenSocket(r)
      PROVE  /\ on' \in [Req -> Sock \cup {NoSock}]
             /\ phase' \in [Sock -> {"new", "connecting", "open", "fin", "dead", "closed"}]
  BY <1>2 DEF OpenSocket, TypeOK
<1>3. CASE ConnectDirectly(r)
  <2>1. got' \in [Req -> Packet]
    BY <1>3, SettleTyped, PacketsTyped DEF ConnectDirectly, TypeOK
  <2>2. /\ on' \in [Req -> Sock \cup {NoSock}]
        /\ phase' \in [Sock -> {"new", "connecting", "open", "fin", "dead", "closed"}]
    BY <1>2, <1>3 DEF ConnectDirectly, TypeOK
  <2> QED BY <1>3, <2>1, <2>2 DEF ConnectDirectly, session, stub, TypeOK, ChunkOK, Parsing
<1>4. CASE EnterConnecting(r)
  <2>1. /\ on' \in [Req -> Sock \cup {NoSock}]
        /\ phase' \in [Sock -> {"new", "connecting", "open", "fin", "dead", "closed"}]
    BY <1>2, <1>4 DEF EnterConnecting, TypeOK
  <2> QED BY <1>4, <2>1 DEF EnterConnecting, session, stub, TypeOK, ChunkOK, Parsing
<1>5. {r} \in SUBSET Req /\ sock \in Sock \cup {NoSock} /\ kind[r] \in AllKinds /\ queuedStop \in Packet
  BY DEF TypeOK, CallTypeOK
<1>6. "interrupt" \in AllKinds
  BY DEF AllKinds, ExclusiveKinds
<1> DEFINE Spoken == /\ toStub' \in [Sock -> Seq([cmd : AllKinds, req : Req])]
                     /\ on' \in [Req -> Sock \cup {NoSock}] /\ got' \in [Req -> Packet]
<1>7. ASSUME Settle({r}, Failure), UNCHANGED <<on, toStub>> PROVE Spoken
  BY <1>5, <1>7, SettleTyped, PacketsTyped DEF TypeOK
<1>8. CASE Dispatch(r)
  <2>1. Spoken
    BY <1>5, <1>7, <1>8, AwaitTyped DEF Dispatch
  <2>2. state' \in {"unavailable", "stopped", "running", "waiting"} /\ queuedStop' \in Packet
    BY <1>8, PacketsTyped DEF Dispatch, TypeOK
  <2> QED BY <1>8, <2>1, <2>2 DEF Dispatch, stub, TypeOK, ChunkOK, Parsing
<1>9. CASE EnterWait(r)
  <2>1. CASE queuedStop # NoPkt
    BY <1>5, <1>9, <2>1, SettleTyped, PacketsTyped DEF EnterWait, StopState, stub, TypeOK, ChunkOK, Parsing
  <2>2. CASE queuedStop = NoPkt
    <3>1. Spoken
      BY <1>5, <1>7, <1>9, <2>2, AwaitTyped DEF EnterWait
    <3> QED BY <1>9, <2>2, <3>1 DEF EnterWait, stub, TypeOK, ChunkOK, Parsing
  <2> QED BY <2>1, <2>2
<1>10. CASE EnterInterrupt(r)
  <2>1. Spoken
    BY <1>5, <1>6, <1>7, <1>10, AwaitTyped DEF EnterInterrupt
  <2> QED BY <1>10, <2>1 DEF EnterInterrupt, stub, TypeOK, ChunkOK, Parsing
<1> QED BY <1>1, <1>3, <1>4, <1>8, <1>9, <1>10

\* A call whose reply has come.
LEMMA ResumeTyped ==
    ASSUME TypeInv, CallTypeOK', NEW r \in Req, Resume(r)
    PROVE  TypeInv'
<1> USE DEF TypeInv
<1>1. {r} \in SUBSET Req /\ {r} \cup PendingCalls \in SUBSET Req /\ got[r] \in Packet /\ on[r] \in Sock \cup {NoSock}
  BY PendingIsCall DEF TypeOK
<1>2. CASE ReturnReply(r)
  <2>1. got' \in [Req -> Packet]
    BY <1>1, <1>2, SettleTyped DEF ReturnReply
  <2> QED BY <1>2, <2>1 DEF ReturnReply, session, stub, net, TypeOK, ChunkOK, Parsing
<1>3. CASE ReturnStop(r)
  <2>1. got' \in [Req -> Packet]
    BY <1>1, <1>3, SettleTyped DEF ReturnStop
  <2> QED BY <1>3, <2>1 DEF ReturnStop, StopState, stub, net, TypeOK, ChunkOK, Parsing
<1>4. CASE StepAgain(r)
  <2>1. "step" \in AllKinds /\ AwaitReply(r, on[r], "step")
    BY <1>4 DEF StepAgain, AllKinds, ExclusiveKinds
  <2>2. /\ toStub' \in [Sock -> Seq([cmd : AllKinds, req : Req])]
        /\ on' \in [Req -> Sock \cup {NoSock}] /\ got' \in [Req -> Packet]
    BY <1>1, <2>1, AwaitTyped
  <2>3. left' \in [Req -> Nat]
    BY <1>4 DEF StepAgain, TypeOK
  <2> QED BY <1>4, <2>2, <2>3 DEF StepAgain, stub, TypeOK, ChunkOK, Parsing
<1>5. CASE RejectStop(r)
  <2>1. got' \in [Req -> Packet]
    BY <1>1, <1>5, SettleTyped, PacketsTyped DEF RejectStop
  <2>2. /\ sock' = NoSock /\ frag' = NoSock /\ queuedStop' = NoPkt /\ state' = "unavailable"
        /\ phase' \in [Sock -> {"new", "connecting", "open", "fin", "dead", "closed"}]
    BY <1>5, DropTyped DEF RejectStop
  <2> QED BY <1>5, <2>1, <2>2, PacketsTyped DEF RejectStop, stub, TypeOK, ChunkOK, Parsing
<1> QED BY <1>2, <1>3, <1>4, <1>5 DEF Resume

LEMMA TimerTyped ==
    ASSUME TypeInv, CallTypeOK', Reset \/ \E r \in Req : ReplyTimeout(r)
    PROVE  TypeInv'
<1> USE DEF TypeInv
<1>1. ASSUME NEW r \in Req, ReplyTimeout(r) PROVE TypeInv'
  <2>1. got' \in [Req -> Packet]
    BY <1>1, SettleTyped, PacketsTyped DEF ReplyTimeout
  <2> QED BY <1>1, <2>1 DEF ReplyTimeout, stub, net, TypeOK, ChunkOK, Parsing
<1>2. CASE Reset
  <2>1. got' \in [Req -> Packet]
    BY <1>2, SettleTyped, PendingIsCall, PacketsTyped DEF Reset
  <2>2. /\ sock' = NoSock /\ frag' = NoSock /\ queuedStop' = NoPkt /\ state' = "unavailable"
        /\ phase' \in [Sock -> {"new", "connecting", "open", "fin", "dead", "closed"}]
    BY <1>2, DropTyped DEF Reset
  <2>3. resets' \in Nat
    BY <1>2 DEF Reset, TypeOK
  <2>4. UNCHANGED <<chunk, kind, left, on, target, resumedBy, toStub, fromStub>>
    BY <1>2 DEF Reset, stub
  <2>5. ChunkOK'
    BY <2>4 DEF ChunkOK, Parsing
  <2> QED BY <2>1, <2>2, <2>3, <2>4, <2>5, PacketsTyped DEF TypeOK
<1> QED BY <1>1, <1>2

LEMMA SocketTyped ==
    ASSUME TypeInv, CallTypeOK', NEW s \in Sock, SocketEvent(s)
    PROVE  TypeInv'
<1> USE DEF TypeInv
<1>1. Connectors(s) \in SUBSET Req /\ Connectors(s) \cup PendingCalls \in SUBSET Req
      /\ {} \cup PendingCalls \in SUBSET Req
  BY PendingIsCall DEF Connectors
<1>2. CASE Connected(s)
  <2>1. toStub' \in [Sock -> Seq([cmd : AllKinds, req : Req])]
    <3> DEFINE M == [cmd : AllKinds, req : Req]
    <3>1. toStub \in [Sock -> Seq(M)]
      BY DEF TypeOK
    <3>2. toStub' = [d \in Sock |-> IF phase[d] = "closed" THEN <<>> ELSE toStub[d]]
      BY <1>2 DEF Connected
    <3> HIDE DEF M
    <3>3. <<>> \in Seq(M)
      OBVIOUS
    <3>4. toStub' \in [Sock -> Seq(M)]
      BY <3>1, <3>2, <3>3
    <3> QED BY <3>4 DEF M
  <2>2. phase' \in [Sock -> {"new", "connecting", "open", "fin", "dead", "closed"}]
    BY <1>2 DEF Connected, TypeOK
  <2> QED BY <1>2, <2>1, <2>2 DEF Connected, TypeOK, ChunkOK, Parsing
<1>3. ASSUME NEW S \in SUBSET Req, S \cup PendingCalls \in SUBSET Req, CloseHandler(S), Quiet,
             UNCHANGED toStub, phase' = [phase EXCEPT ![s] = "closed"], fromStub' \in [Sock -> Seq(Packet)]
      PROVE  TypeInv'
  <2>1. got' \in [Req -> Packet]
    BY <1>3, SettleTyped, PacketsTyped DEF CloseHandler
  <2>2. phase' \in [Sock -> {"new", "connecting", "open", "fin", "dead", "closed"}]
    BY <1>3 DEF TypeOK
  <2> QED BY <1>3, <2>1, <2>2 DEF CloseHandler, Quiet, stub, TypeOK, ChunkOK, Parsing
<1>4. CASE ConnectRefused(s)
  BY <1>1, <1>3, <1>4 DEF ConnectRefused, TypeOK
<1>5. CASE ConnectTimeout(s)
  <2>1. got' \in [Req -> Packet]
    BY <1>1, <1>5, SettleTyped, PacketsTyped DEF ConnectTimeout
  <2>2. phase' \in [Sock -> {"new", "connecting", "open", "fin", "dead", "closed"}]
    BY <1>5 DEF ConnectTimeout, TypeOK
  <2> QED BY <1>5, <2>1, <2>2 DEF ConnectTimeout, session, stub, TypeOK, ChunkOK, Parsing
<1>6. CASE Closed(s)
  <2>1. fromStub' \in [Sock -> Seq(Packet)]
    BY <1>6 DEF Closed, TypeOK
  <2> QED BY <1>1, <1>3, <1>6, <2>1 DEF Closed
<1>7. CASE Deliver(s)
  <2>1. PICK n \in 1..MaxChunk : n <= Len(fromStub[s]) /\ chunk' = [from |-> s, n |-> n]
    BY <1>7 DEF Deliver
  <2>2. chunk' \in [from : Sock \cup {NoSock}, n : Nat] /\ chunk'.from = s /\ chunk'.n <= Len(fromStub[s])
    BY <2>1
  <2>3. UNCHANGED <<sock, state, frag, pending, queuedStop, calls, stub, net, resets>>
    BY <1>7 DEF Deliver
  <2> QED BY <2>2, <2>3 DEF calls, stub, net, TypeOK, ChunkOK, Parsing
<1>8. CASE DeliverFragment(s)
  BY <1>8 DEF DeliverFragment, calls, stub, net, TypeOK, ChunkOK, Parsing
<1> QED BY <1>2, <1>4, <1>5, <1>6, <1>7, <1>8 DEF SocketEvent

LEMMA PacketTyped ==
    ASSUME TypeInv, CallTypeOK', HandlePacket
    PROVE  TypeInv'
<1> DEFINE s == chunk.from
           p == Head(fromStub[s])
<1>1. /\ s \in Sock /\ chunk.n \in Nat \ {0} /\ chunk.n <= Len(fromStub[s]) /\ fromStub[s] \in Seq(Packet)
      /\ chunk \in [from : Sock \cup {NoSock}, n : Nat] /\ Parsing
  BY DEF HandlePacket, TypeInv, ChunkOK, TypeOK, Parsing
<1>2. p \in Packet
  BY <1>1
<1>3. NoChunk \in [from : Sock \cup {NoSock}, n : Nat] /\ NoChunk.n = 0
  BY DEF NoChunk
<1>4. CASE RejectPacket(s)
  <2>1. got' \in [Req -> Packet]
    BY <1>4, SettleTyped, PendingIsCall, PacketsTyped DEF RejectPacket, TypeInv
  <2>2. /\ sock' = NoSock /\ frag' = NoSock /\ queuedStop' = NoPkt /\ state' = "unavailable"
        /\ phase' \in [Sock -> {"new", "connecting", "open", "fin", "dead", "closed"}]
    BY <1>4, DropTyped DEF RejectPacket, TypeInv
  <2>3. SubSeq(fromStub[s], chunk.n + 1, Len(fromStub[s])) \in Seq(Packet)
    BY <1>1, Shortened
  <2>4. fromStub' \in [Sock -> Seq(Packet)]
    BY <1>1, <1>4, <2>3 DEF RejectPacket, Consume, TypeInv, TypeOK
  <2>5. chunk' = NoChunk
    BY <1>4 DEF RejectPacket
  <2>6. UNCHANGED <<left, on, target, resumedBy, toStub, resets>>
    BY <1>4 DEF RejectPacket, stub
  <2>7. chunk' \in [from : Sock \cup {NoSock}, n : Nat] /\ ChunkOK'
    BY <1>3, <2>5 DEF ChunkOK, Parsing
  <2> QED BY <2>1, <2>2, <2>4, <2>6, <2>7, PacketsTyped DEF TypeInv, TypeOK
<1>5. CASE AcceptPacket(s)
  <2>1. /\ SubSeq(fromStub[s], 1 + 1, Len(fromStub[s])) \in Seq(Packet)
        /\ Len(SubSeq(fromStub[s], 1 + 1, Len(fromStub[s]))) = Len(fromStub[s]) - 1
    <3>1. 1 \in 0..Len(fromStub[s])
      BY <1>1
    <3> QED BY <1>1, <3>1, Shortened
  <2>2. fromStub' = [fromStub EXCEPT ![s] = SubSeq(fromStub[s], 1 + 1, Len(fromStub[s]))]
    BY <1>5 DEF AcceptPacket, Consume
  <2>3. fromStub' \in [Sock -> Seq(Packet)] /\ Len(fromStub'[s]) = Len(fromStub[s]) - 1
    BY <1>1, <2>1, <2>2 DEF TypeInv, TypeOK
  <2>4. chunk' = IF chunk.n = 1 THEN NoChunk ELSE [chunk EXCEPT !.n = @ - 1]
    BY <1>5 DEF AcceptPacket, NextInChunk
  <2>5. chunk' \in [from : Sock \cup {NoSock}, n : Nat]
    BY <1>1, <1>3, <2>4
  <2>6. ChunkOK'
    BY <1>1, <1>3, <2>3, <2>4 DEF ChunkOK, Parsing, TypeInv, TypeOK
  <2>7. got' \in [Req -> Packet] /\ queuedStop' \in Packet /\ state' \in {"unavailable", "stopped", "running", "waiting"}
    <3>1. CASE pending # NoReq
      <4>1. got' = [got EXCEPT ![pending] = p] /\ UNCHANGED <<state, queuedStop>>
        BY <1>5, <3>1 DEF AcceptPacket
      <4> QED BY <1>2, <4>1 DEF TypeInv, TypeOK
    <3>2. CASE pending = NoReq
      <4>1. got' = got /\ queuedStop' \in {queuedStop, p} /\ state' \in {state, StopState(p)}
        BY <1>5, <3>2 DEF AcceptPacket
      <4> QED BY <1>2, <4>1 DEF StopState, TypeInv, TypeOK
    <3> QED BY <3>1, <3>2
  <2>8. frag' = NoSock /\ UNCHANGED <<sock, on, left, target, resumedBy, phase, toStub, resets>>
    BY <1>5 DEF AcceptPacket, stub
  <2> QED BY <2>3, <2>5, <2>6, <2>7, <2>8 DEF TypeInv, TypeOK
<1> QED BY <1>4, <1>5 DEF HandlePacket

LEMMA StubTyped ==
    ASSUME TypeInv, CallTypeOK', External
    PROVE  TypeInv'
<1>1. /\ fromStub \in [Sock -> Seq(Packet)] /\ toStub \in [Sock -> Seq([cmd : AllKinds, req : Req])]
      /\ resumedBy \in [req : Req \cup {NoReq}, sock : Sock \cup {NoSock}]
  BY DEF TypeInv, TypeOK
<1>2. ASSUME NEW s \in Sock \cup {NoSock}, NEW p \in Packet, Reply(s, p) PROVE fromStub' \in [Sock -> Seq(Packet)]
  <2>1. \A d \in Sock : Append(fromStub[d], p) \in Seq(Packet)
    BY <1>1
  <2> QED BY <1>1, <1>2, <2>1 DEF Reply
<1>3. \A k \in {"data", "signal", "exit"} : \A b \in ReplyKinds(k), r \in Req \cup {NoReq} : Pkt(b, r) \in Packet
  BY PacketsTyped DEF ReplyKinds
<1>4. CASE TargetStops
  <2>1. fromStub' \in [Sock -> Seq(Packet)]
    BY <1>1, <1>2, <1>3, <1>4 DEF TargetStops
  <2> QED BY <1>4, <2>1 DEF TargetStops, session, calls, TypeInv, TypeOK, ChunkOK, Parsing
<1>5. ASSUME NEW s \in Sock, StubServes(s) PROVE TypeInv'
  <2> DEFINE m == Head(toStub[s])
  <2>1. m \in [cmd : AllKinds, req : Req] /\ Tail(toStub[s]) \in Seq([cmd : AllKinds, req : Req])
    BY <1>1, <1>5, HeadTailProperties DEF StubServes
  <2>2. toStub' \in [Sock -> Seq([cmd : AllKinds, req : Req])]
    BY <1>1, <1>5, <2>1 DEF StubServes
  <2>3. fromStub' \in [Sock -> Seq(Packet)]
    <3>1. m.req \in Req
      BY <2>1
    <3>2. fromStub' = fromStub \/ \E k \in {"data", "signal"} : \E b \in ReplyKinds(k) : Reply(s, Pkt(b, m.req))
      BY <1>5 DEF StubServes, ReplyKinds
    <3> QED BY <1>1, <1>2, <1>3, <3>1, <3>2
  <2>4. target' \in {"halted", "running", "exited"} /\ resumedBy' \in [req : Req \cup {NoReq}, sock : Sock \cup {NoSock}]
    BY <1>5, <2>1 DEF StubServes, stub, TypeInv, TypeOK
  <2> QED BY <1>5, <2>2, <2>3, <2>4 DEF StubServes, session, calls, TypeInv, TypeOK, ChunkOK, Parsing
<1>6. ASSUME NEW s \in Sock, PeerCloses(s) PROVE TypeInv'
  <2>1. toStub' \in [Sock -> Seq([cmd : AllKinds, req : Req])]
    <3> DEFINE M == [cmd : AllKinds, req : Req]
    <3>1. toStub \in [Sock -> Seq(M)]
      BY <1>1
    <3>2. toStub' = [toStub EXCEPT ![s] = <<>>]
      BY <1>6 DEF PeerCloses
    <3> HIDE DEF M
    <3>3. <<>> \in Seq(M)
      OBVIOUS
    <3>4. toStub' \in [Sock -> Seq(M)]
      BY <3>1, <3>2, <3>3
    <3> QED BY <3>4 DEF M
  <2>2. phase' \in [Sock -> {"new", "connecting", "open", "fin", "dead", "closed"}]
    BY <1>6 DEF PeerCloses, TypeInv, TypeOK
  <2> QED BY <1>6, <2>1, <2>2 DEF PeerCloses, session, calls, stub, TypeInv, TypeOK, ChunkOK, Parsing
<1> QED BY <1>4, <1>5, <1>6 DEF External
\* Every step keeps every type.
LEMMA TypesKept ==
    ASSUME TypeInv, [Next]_vars, CallTypeOK'
    PROVE  TypeInv'
<1>1. CASE UNCHANGED vars
  BY <1>1 DEF vars, session, calls, stub, net, TypeInv, TypeOK, ChunkOK, Parsing
<1>2. ASSUME NEW r \in Req, Submit(r) \/ ConnectDirectly(r) \/ Microtask(r) \/ ReplyTimeout(r)
      PROVE  TypeInv'
  BY <1>2, CallsTyped, ResumeTyped, TimerTyped DEF Microtask, Enter
<1>3. ASSUME NEW s \in Sock, SocketEvent(s) PROVE TypeInv'
  BY <1>3, SocketTyped
<1> QED BY <1>1, <1>2, <1>3, PacketTyped, TimerTyped, StubTyped DEF Next

\* The session begins with every variable of its type.
LEMMA TypesInitially == Init => TypeInv
<1> SUFFICES ASSUME Init PROVE TypeInv
  OBVIOUS
<1>1. left \in [Req -> Nat] /\ kind \in [Req -> AllKinds]
  <2>1. MaxSteps \in Nat /\ Kinds \subseteq AllKinds
    BY BoundAssumption, KindAssumption
  <2>2. left \in [Req -> 1..MaxSteps] /\ kind \in [Req -> Kinds]
    BY DEF Init
  <2> QED BY <2>1, <2>2
<1>2. CallTypeOK
  BY <1>1 DEF Init, CallTypeOK
<1>3. /\ toStub \in [Sock -> Seq([cmd : AllKinds, req : Req])]
      /\ fromStub \in [Sock -> Seq(Packet)]
  <2> DEFINE M == [cmd : AllKinds, req : Req]
  <2>1. toStub = [s \in Sock |-> <<>>] /\ fromStub = [s \in Sock |-> <<>>]
    BY DEF Init
  <2> HIDE DEF M
  <2>2. <<>> \in Seq(M) /\ <<>> \in Seq(Packet)
    OBVIOUS
  <2>3. toStub \in [Sock -> Seq(M)] /\ fromStub \in [Sock -> Seq(Packet)]
    BY <2>1, <2>2
  <2> QED BY <2>3 DEF M
<1>4. ~Parsing /\ chunk \in [from : Sock \cup {NoSock}, n : Nat]
  BY DEF Init, Parsing, NoChunk
<1> QED BY <1>1, <1>2, <1>3, <1>4, PacketsTyped DEF Init, TypeInv, TypeOK, ChunkOK

\* Every variable of the session, its calls and its connections keeps its type.
THEOREM TypeCorrect == Spec => []TypeOK
<1>1. TypeInv /\ CallTypeOK /\ CallTypeOK' /\ [Next]_vars => TypeInv'
  BY TypesKept
<1>2. Spec => []CallTypeOK
  <2>1. IInv => CallTypeOK
    BY DEF IInv
  <2> QED BY <2>1, InitIInv, NextIInv, PTL DEF Spec
<1>3. TypeInv => TypeOK
  BY DEF TypeInv
<1> QED BY <1>1, <1>2, <1>3, TypesInitially, PTL DEF Spec

-----------------------------------------------------------------------------
(* The conversation of a session whose commands are answered in time and   *)
(* whose caller leaves connecting to the requests.  A late reply to a      *)
(* command that was given up would be taken for the reply to the next one, *)
(* so neither half can be dropped.                                         *)
AnsweredInTime == Kinds \subseteq ExclusiveKinds /\ TimeoutKinds \cap {"cmd", "query"} = {}

(* The session's socket is the one live connection: what was written on    *)
(* any other has been read or thrown away before it was connected.         *)
ConnectionInv ==
    /\ \A s \in Sock : phase[s] \in {"open", "fin"} => s = sock
    /\ sock # NoSock =>
        /\ phase[sock] \in {"open", "fin"}
        /\ \A s \in Sock \ {sock} : phase[s] \in {"new", "closed"} /\ toStub[s] = <<>>
    /\ \A s \in Sock :
        /\ phase[s] \in {"new", "connecting"} => toStub[s] = <<>> /\ fromStub[s] = <<>>
        /\ phase[s] = "connecting" => \E r \in Req : pc[r] = "connecting" /\ on[r] = s
        /\ phase[s] = "fin" => toStub[s] = <<>>
    /\ Parsing => sock # NoSock /\ chunk.from = sock

(* At most one request other than the interrupt byte is on its way to the  *)
(* stub, or the target runs, or one packet is on its way back.             *)
NoRequest == \A i \in DOMAIN toStub[sock] : toStub[sock][i].cmd = "interrupt"
Requested(i) ==
    /\ toStub[sock][i].cmd # "interrupt"
    /\ \A j \in DOMAIN toStub[sock] \ {i} : toStub[sock][j].cmd = "interrupt"
    /\ target = "halted" /\ fromStub[sock] = <<>>
Answered == NoRequest /\ target # "running" /\ Len(fromStub[sock]) = 1
Idle == NoRequest /\ target # "running" /\ fromStub[sock] = <<>>
(* What the peer closed before it was done with. *)
Lost == phase[sock] = "fin" /\ NoRequest /\ fromStub[sock] = <<>>

CommandUnderWay ==
    /\ kind[pending] \in {"cmd", "query"} /\ target = "halted"
    /\ \/ \E i \in DOMAIN toStub[sock] :
            Requested(i) /\ toStub[sock][i] = [cmd |-> kind[pending], req |-> pending]
       \/ Answered /\ Head(fromStub[sock]).for = pending
       \/ Lost
RunUnderWay ==
    \/ \E i \in DOMAIN toStub[sock] : Requested(i) /\ toStub[sock][i].cmd \in {"continue", "step"}
    \/ NoRequest /\ target = "running" /\ resumedBy.sock = sock /\ fromStub[sock] = <<>>
    \/ /\ Answered /\ Head(fromStub[sock]).kind \in {"signal", "exit", "bad"}
       /\ Head(fromStub[sock]).kind = "signal" => target = "halted"
    \/ Lost

Exchange ==
    /\ state = "stopped" => target = "halted" /\ IF pending = NoReq THEN Idle ELSE CommandUnderWay
    /\ state = "running" => pending = NoReq /\ RunUnderWay
    /\ state = "waiting" =>
        IF pending = NoReq THEN Idle ELSE kind[pending] \in ExecKinds /\ RunUnderWay
    /\ state = "unavailable" => pending = NoReq /\ Idle
QueuedStopInv ==
    queuedStop # NoPkt =>
        \/ state = "stopped"
        \/ state = "unavailable" /\ queuedStop.kind = "exit"
ResumedInv ==
    \A r \in Req :
        /\ pc[r] \in {"awaiting", "resumed"} => on[r] = sock
        /\ pc[r] = "resumed" /\ kind[r] \in ExecKinds =>
            /\ state = "waiting" /\ IsStop(got[r])
            /\ got[r].kind = "signal" => target = "halted"
ConversationInv == sock # NoSock => Exchange /\ QueuedStopInv /\ ResumedInv

TokenInv ==
    /\ kind \in [Req -> Kinds]
    /\ queuedStop # NoPkt => IsStop(queuedStop)
    /\ ConnectionInv /\ ConversationInv /\ ReplyIsOwn

(* Only a request that connects when it must is ever between its turn and  *)
(* its write. *)
ConnectorInv ==
    \A r \in Req : /\ pc[r] = "connecting" => kind[r] \in ConnectKinds \cup {"connect"}
                   /\ pc[r] = "ready" => kind[r] \in ConnectKinds

Steps == TypeInv /\ IInv /\ TokenInv /\ ConnectorInv /\ TypeInv' /\ IInv'
Busy  == {"connecting", "ready", "awaiting", "resumed"}
Talk  == <<sock, phase[sock], toStub[sock], fromStub[sock], target, resumedBy>>

\* A call in the section, or the one whose turn it is, is alone in it.
LEMMA Alone ==
    ASSUME AnsweredInTime, Steps, NEW r \in Req, InTurn(r) \/ pc[r] \in Busy
    PROVE  /\ \A q \in Req \ {r} : pc[q] \notin Busy
           /\ InTurn(r) => pc[r] \notin Busy
           /\ pc[r] # "awaiting" => pending = NoReq
<1>1. \A q \in Req : kind[q] \in ExclusiveKinds
  BY DEF AnsweredInTime, Steps, TokenInv
<1>2. \A q \in Req : pc[q] \in Busy => InSection(q)
  BY <1>1 DEF InSection, Busy
<1>3. \A q \in Req : pc[q] \in Busy => r = q
  BY <1>1, <1>2, SectionUnique DEF Steps, IInv
<1>4. InTurn(r) => pc[r] \notin Busy
  BY DEF InTurn, Busy
<1>5. pending # NoReq => pending \in Req /\ pc[pending] = "awaiting" /\ pc[pending] \in Busy
  BY DEF Steps, IInv, AwaitInv, CallTypeOK, Busy
<1>6. pc[r] # "awaiting" => pending = NoReq
  BY <1>3, <1>5
<1> QED BY <1>3, <1>4, <1>6

\* Nothing is said while only the session's own variables change.
LEMMA NothingSaid ==
    ASSUME UNCHANGED Talk
    PROVE  /\ Idle' = Idle /\ RunUnderWay' = RunUnderWay
           /\ UNCHANGED <<kind, pending>> => CommandUnderWay' = CommandUnderWay
<1>1. NoRequest' = NoRequest /\ Answered' = Answered /\ Lost' = Lost /\ \A i : Requested(i)' = Requested(i)
  BY DEF Talk, NoRequest, Answered, Lost, Requested
<1> QED BY <1>1 DEF Talk, Idle, RunUnderWay, CommandUnderWay

\* A result that is no packet, or the packet a call already had, is nobody else's reply.
LEMMA OwnKept ==
    ASSUME ReplyIsOwn, TypeInv, NEW S \in SUBSET Req, NEW result, Settle(S, result), UNCHANGED kind,
           \A r \in S : \/ result.kind \notin {"data", "signal", "exit"}
                        \/ kind[r] \notin {"cmd", "query"}
                        \/ result = got[r]
    PROVE  ReplyIsOwn'
BY DEF ReplyIsOwn, Settle, TypeInv, TypeOK

LEMMA NoReply ==
    /\ Failure.kind \notin {"data", "signal", "exit"} /\ TimedOut.kind \notin {"data", "signal", "exit"}
    /\ NoPkt.kind \notin {"data", "signal", "exit"}
BY DEF Failure, TimedOut, NoPkt, Pkt

\* A step that opens, closes and drops no connection.
LEMMA ConnectionKept ==
    ASSUME ConnectionInv, UNCHANGED <<sock, phase>>,
           \A r \in Req : pc[r] = "connecting" => pc'[r] = "connecting" /\ on'[r] = on[r],
           \A s \in Sock : toStub'[s] # toStub[s] => phase[s] \notin {"new", "connecting", "fin"} /\ (sock # NoSock => s = sock),
           \A s \in Sock : fromStub'[s] # fromStub[s] => phase[s] \notin {"new", "connecting"},
           Parsing' => sock # NoSock /\ chunk'.from = sock
    PROVE  ConnectionInv'
BY DEF ConnectionInv

\* A step that drops the connection, if there is one.
LEMMA ConnectionDropped ==
    ASSUME ConnectionInv, sock' = NoSock, ~Parsing',
           \A s \in Sock : phase'[s] \notin {"open", "fin"},
           \A s \in Sock : phase'[s] \in {"new", "connecting"} =>
               phase'[s] = phase[s] /\ toStub'[s] = toStub[s] /\ fromStub'[s] = fromStub[s],
           \A s \in Sock, r \in Req : phase'[s] = "connecting" /\ pc[r] = "connecting" /\ on[r] = s =>
               pc'[r] = "connecting" /\ on'[r] = on[r]
    PROVE  ConnectionInv' /\ ConversationInv'
<1>1. ConversationInv'
  BY DEF ConversationInv
<1>2. \A s \in Sock : phase'[s] = "connecting" => \E r \in Req : pc'[r] = "connecting" /\ on'[r] = s
  BY DEF ConnectionInv
<1>3. \A s \in Sock : phase'[s] \in {"new", "connecting"} => toStub'[s] = <<>> /\ fromStub'[s] = <<>>
  BY DEF ConnectionInv
<1> QED BY <1>1, <1>2, <1>3 DEF ConnectionInv

\* The socket, when there is one, carries a live connection.
LEMMA SockIsLive ==
    ASSUME TypeInv, ConnectionInv
    PROVE  /\ Live(sock) <=> sock # NoSock
           /\ sock # NoSock => sock \in Sock /\ toStub[sock] \in Seq([cmd : AllKinds, req : Req]) /\ fromStub[sock] \in Seq(Packet)
           /\ \A s \in Sock : phase[s] \in {"open", "fin"} => s = sock /\ sock # NoSock
           /\ \A s \in Sock : phase[s] = "connecting" => sock = NoSock
<1>1. /\ sock \in Sock \cup {NoSock} /\ NoSock \notin Sock
      /\ toStub \in [Sock -> Seq([cmd : AllKinds, req : Req])] /\ fromStub \in [Sock -> Seq(Packet)]
  BY ReqAssumption DEF TypeInv, TypeOK
<1>2. Live(sock) <=> sock # NoSock
  BY DEF Live, ConnectionInv
<1>3. sock # NoSock => sock \in Sock /\ toStub[sock] \in Seq([cmd : AllKinds, req : Req]) /\ fromStub[sock] \in Seq(Packet)
  <2> DEFINE M == [cmd : AllKinds, req : Req]
  <2>1. toStub \in [Sock -> Seq(M)]
    BY <1>1
  <2> HIDE DEF M
  <2>2. sock # NoSock => sock \in Sock /\ toStub[sock] \in Seq(M) /\ fromStub[sock] \in Seq(Packet)
    BY <1>1, <2>1
  <2> QED BY <2>2 DEF M
<1>4. \A s \in Sock : phase[s] \in {"open", "fin"} => s = sock /\ sock # NoSock
  BY <1>1 DEF ConnectionInv
<1>5. ASSUME NEW s \in Sock, phase[s] = "connecting" PROVE sock = NoSock
  <2>1. sock # NoSock => s = sock \/ phase[s] \in {"new", "closed"}
    BY DEF ConnectionInv
  <2>2. sock # NoSock => phase[sock] \in {"open", "fin"}
    BY DEF ConnectionInv
  <2> QED BY <1>5, <2>1, <2>2
<1> QED BY <1>2, <1>3, <1>4, <1>5

\* A request goes out on an idle connection.
LEMMA Asked ==
    ASSUME Steps, sock # NoSock, Idle, target = "halted", NEW cmd \in AllKinds \ {"interrupt"}, NEW r \in Req,
           Write(sock, cmd, r), UNCHANGED <<sock, phase, fromStub, target>>
    PROVE  \/ \E i \in DOMAIN toStub'[sock] :
                 Requested(i)' /\ toStub'[sock][i] = [cmd |-> cmd, req |-> r]
           \/ Lost'
<1> DEFINE q == toStub[sock]
           m == [cmd |-> cmd, req |-> r]
<1>1. sock \in Sock /\ phase[sock] \in {"open", "fin"} /\ q \in Seq([cmd : AllKinds, req : Req]) /\ toStub \in [Sock -> Seq([cmd : AllKinds, req : Req])]
  BY SockIsLive DEF Steps, TokenInv, ConnectionInv, TypeInv, TypeOK
<1>2. CASE phase[sock] = "fin"
  BY <1>2 DEF Write, Lost, Idle, NoRequest
<1>3. CASE phase[sock] = "open"
  <2>1. toStub'[sock] = Append(q, m)
    BY <1>1, <1>3 DEF Write
  <2>2. m \in [cmd : AllKinds, req : Req]
    OBVIOUS
  <2>3. /\ DOMAIN Append(q, m) = 1..(Len(q) + 1) /\ Len(q) \in Nat /\ DOMAIN q = 1..Len(q)
        /\ Append(q, m)[Len(q) + 1] = m
        /\ \A i \in 1..Len(q) : Append(q, m)[i] = q[i]
    BY <1>1, <2>2, AppendProperties
  <2>4. \A i \in 1..Len(q) : q[i].cmd = "interrupt"
    BY <2>3 DEF Idle, NoRequest
  <2>5. fromStub'[sock] = <<>> /\ target' = "halted" /\ sock' = sock
    BY DEF Idle
  <2>11. PICK n \in Nat : n = Len(q) + 1
    BY <2>3
  <2>6. n \in DOMAIN toStub'[sock] /\ toStub'[sock][n] = m
    BY <2>1, <2>3, <2>11
  <2>7. \A j \in DOMAIN toStub'[sock] \ {n} : toStub'[sock][j].cmd = "interrupt"
    BY <2>1, <2>3, <2>4, <2>11
  <2>8. m.cmd = cmd /\ cmd # "interrupt"
    OBVIOUS
  <2> HIDE DEF m
  <2>9. Requested(n)'
    BY <2>5, <2>6, <2>7, <2>8 DEF Requested
  <2>10. \E i \in DOMAIN toStub'[sock] : Requested(i)' /\ toStub'[sock][i] = m
    BY <2>6, <2>9
  <2> QED BY <2>10 DEF m
<1> QED BY <1>1, <1>2, <1>3

\* The interrupt byte changes nothing of what is under way.
LEMMA Nudged ==
    ASSUME Steps, sock # NoSock, RunUnderWay, NEW r \in Req,
           Write(sock, "interrupt", r), UNCHANGED <<sock, phase, fromStub, target, resumedBy>>
    PROVE  RunUnderWay'
<1> DEFINE q == toStub[sock]
           m == [cmd |-> "interrupt", req |-> r]
<1>1. sock \in Sock /\ phase[sock] \in {"open", "fin"} /\ q \in Seq([cmd : AllKinds, req : Req]) /\ toStub \in [Sock -> Seq([cmd : AllKinds, req : Req])]
  BY SockIsLive DEF Steps, TokenInv, ConnectionInv, TypeInv, TypeOK
<1>2. CASE phase[sock] = "fin"
  <2>1. UNCHANGED Talk
    BY <1>2 DEF Write, Talk
  <2> QED BY <2>1, NothingSaid
<1>3. CASE phase[sock] = "open"
  <2>1. toStub'[sock] = Append(q, m)
    BY <1>1, <1>3 DEF Write
  <2>2. m \in [cmd : AllKinds, req : Req]
    BY DEF AllKinds, ExclusiveKinds
  <2>3. /\ DOMAIN Append(q, m) = 1..(Len(q) + 1) /\ Len(q) \in Nat /\ DOMAIN q = 1..Len(q)
        /\ Append(q, m)[Len(q) + 1] = m
        /\ \A i \in 1..Len(q) : Append(q, m)[i] = q[i]
    BY <1>1, <2>2, AppendProperties
  <2>4. m.cmd = "interrupt"
    OBVIOUS
  <2>5. NoRequest => NoRequest'
    <3> SUFFICES ASSUME NoRequest, NEW i \in DOMAIN toStub'[sock] PROVE toStub'[sock][i].cmd = "interrupt"
      BY DEF NoRequest
    <3>1. i \in 1..Len(q) \/ i = Len(q) + 1
      BY <2>1, <2>3
    <3> QED BY <2>1, <2>3, <2>4, <3>1 DEF NoRequest
  <2>6. ASSUME NEW i \in DOMAIN q, Requested(i), q[i].cmd \in {"continue", "step"}
        PROVE  i \in DOMAIN toStub'[sock] /\ Requested(i)' /\ toStub'[sock][i].cmd \in {"continue", "step"}
    <3>1. i \in DOMAIN toStub'[sock] /\ toStub'[sock][i] = q[i] /\ q[i].cmd # "interrupt"
      BY <2>1, <2>3, <2>6
    <3>2. ASSUME NEW j \in DOMAIN toStub'[sock] \ {i} PROVE toStub'[sock][j].cmd = "interrupt"
      <4>1. j \in 1..Len(q) \/ j = Len(q) + 1
        BY <2>1, <2>3
      <4> QED BY <2>1, <2>3, <2>4, <2>6, <4>1 DEF Requested
    <3>3. target' = "halted" /\ fromStub'[sock] = <<>>
      BY <2>6 DEF Requested
    <3> QED BY <2>6, <3>1, <3>2, <3>3 DEF Requested
  <2> QED BY <2>5, <2>6 DEF RunUnderWay, Answered, Lost
<1> QED BY <1>1, <1>2, <1>3

\* What is under way when a packet has come: its answer, and only that.
LEMMA PacketMeansAnswered ==
    ASSUME TypeInv, sock # NoSock, Len(fromStub[sock]) # 0, Exchange
    PROVE  /\ pending # NoReq
              => \/ state = "stopped" /\ kind[pending] \in {"cmd", "query"} /\ Head(fromStub[sock]).for = pending
                 \/ state = "waiting" /\ kind[pending] \in ExecKinds
           /\ pending = NoReq => state = "running"
           /\ state # "stopped"
              => /\ Head(fromStub[sock]).kind \in {"signal", "exit", "bad"}
                 /\ Head(fromStub[sock]).kind = "signal" => target = "halted"
           /\ Answered
<1>1. ~Idle /\ ~Lost /\ \A i : ~Requested(i)
  BY DEF Idle, Lost, Requested
<1>2. CommandUnderWay => Answered /\ Head(fromStub[sock]).for = pending
  BY <1>1 DEF CommandUnderWay
<1>3. RunUnderWay => /\ Answered /\ Head(fromStub[sock]).kind \in {"signal", "exit", "bad"}
                     /\ Head(fromStub[sock]).kind = "signal" => target = "halted"
  BY <1>1 DEF RunUnderWay
<1>4. state \in {"unavailable", "stopped", "running", "waiting"}
  BY DEF TypeInv, TypeOK
<1> QED BY <1>1, <1>2, <1>3, <1>4 DEF Exchange, CommandUnderWay

LEMMA Heard ==
    ASSUME TypeInv, ConnectionInv, sock # NoSock, Answered, Consume(sock, 1), UNCHANGED <<sock, toStub, target>>
    PROVE  Idle'
<1> DEFINE f == fromStub[sock]
<1>1. sock \in Sock /\ f \in Seq(Packet) /\ fromStub \in [Sock -> Seq(Packet)]
  BY SockIsLive DEF TypeInv, TypeOK
<1>2. Len(f) = 1 /\ 1 \in 0..Len(f)
  BY DEF Answered
<1>3. SubSeq(f, 1 + 1, Len(f)) \in Seq(Packet) /\ Len(SubSeq(f, 1 + 1, Len(f))) = 0
  BY <1>1, <1>2, Shortened
<1>4. fromStub'[sock] = <<>>
  BY <1>1, <1>3, EmptySeq DEF Consume
<1>5. NoRequest'
  BY DEF Answered, NoRequest
<1> QED BY <1>4, <1>5 DEF Idle, Answered

\* Reading the first of the requests.
LEMMA FirstRead ==
    ASSUME NEW S, NEW q \in Seq(S), q # <<>>
    PROVE  /\ Len(q) \in Nat \ {0} /\ DOMAIN q = 1..Len(q) /\ Head(q) = q[1]
           /\ DOMAIN Tail(q) = 1..(Len(q) - 1)
           /\ \A i \in 1..(Len(q) - 1) : Tail(q)[i] = q[i + 1] /\ i + 1 \in DOMAIN q
           /\ \A i \in DOMAIN q : i # 1 => i - 1 \in DOMAIN Tail(q) /\ Tail(q)[i - 1] = q[i]
<1>1. Len(q) \in Nat \ {0} /\ DOMAIN q = 1..Len(q) /\ Head(q) = q[1]
  BY EmptySeq
<1>2. Len(Tail(q)) = Len(q) - 1 /\ Tail(q) \in Seq(S) /\ \A i \in 1..Len(Tail(q)) : Tail(q)[i] = q[i + 1]
  BY HeadTailProperties
<1>3. DOMAIN Tail(q) = 1..(Len(q) - 1)
  BY <1>2
<1>4. \A i \in 1..(Len(q) - 1) : Tail(q)[i] = q[i + 1] /\ i + 1 \in DOMAIN q
  BY <1>1, <1>2
<1>5. ASSUME NEW i \in DOMAIN q, i # 1 PROVE i - 1 \in DOMAIN Tail(q) /\ Tail(q)[i - 1] = q[i]
  <2>1. i - 1 \in 1..(Len(q) - 1) /\ (i - 1) + 1 = i
    BY <1>1, <1>5
  <2>2. Tail(q)[i - 1] = q[(i - 1) + 1]
    BY <2>1, <1>4
  <2> QED BY <2>1, <2>2, <1>3
<1> QED BY <1>1, <1>3, <1>4, <1>5

LEMMA ServedSocket ==
    ASSUME Steps, NEW s \in Sock, toStub[s] # <<>>, sock # NoSock
    PROVE  /\ s = sock /\ phase[s] = "open"
           /\ toStub[s] \in Seq([cmd : AllKinds, req : Req]) /\ fromStub[s] \in Seq(Packet)
           /\ toStub \in [Sock -> Seq([cmd : AllKinds, req : Req])] /\ fromStub \in [Sock -> Seq(Packet)]
BY SockIsLive DEF Steps, TypeInv, TypeOK, TokenInv, ConnectionInv

\* The stub reads an interrupt byte: what is under way stays, or a running target is stopped.
LEMMA InterruptRead ==
    ASSUME Steps, sock # NoSock, sock \in Sock, StubServes(sock), Head(toStub[sock]).cmd = "interrupt"
    PROVE  /\ UNCHANGED <<sock, phase, resumedBy, kind, pending>>
           /\ target # "running" => target' = target /\ (Idle => Idle') /\ (CommandUnderWay => CommandUnderWay')
           /\ RunUnderWay => RunUnderWay'
<1> DEFINE q == toStub[sock]
<1>1. /\ q # <<>> /\ phase[sock] = "open" /\ q \in Seq([cmd : AllKinds, req : Req]) /\ fromStub[sock] \in Seq(Packet)
      /\ toStub \in [Sock -> Seq([cmd : AllKinds, req : Req])] /\ fromStub \in [Sock -> Seq(Packet)]
  BY ServedSocket DEF StubServes
<1>2. UNCHANGED <<sock, phase, resumedBy, kind, pending>>
  BY DEF StubServes, session, calls, stub
<1>3. toStub'[sock] = Tail(q)
  BY <1>1 DEF StubServes
<1>4. q[1].cmd = "interrupt"
  BY <1>1, FirstRead
<1>5. NoRequest => NoRequest'
  BY <1>1, <1>2, <1>3, FirstRead DEF NoRequest
<1>6. ASSUME NEW i \in DOMAIN q, Requested(i), fromStub'[sock] = <<>>, target' = "halted"
      PROVE  \E j \in DOMAIN toStub'[sock] : Requested(j)' /\ toStub'[sock][j] = q[i]
  <2>1. i # 1 /\ i \in 1..Len(q)
    BY <1>1, <1>4, <1>6, FirstRead DEF Requested
  <2>2. PICK j \in Nat : j = i - 1
    BY <2>1
  <2>3. j \in DOMAIN toStub'[sock] /\ toStub'[sock][j] = q[i]
    BY <1>1, <1>3, <2>1, <2>2, FirstRead
  <2>4. ASSUME NEW k \in DOMAIN toStub'[sock] \ {j} PROVE toStub'[sock][k].cmd = "interrupt"
    <3>1. k \in 1..(Len(q) - 1) /\ toStub'[sock][k] = q[k + 1] /\ k + 1 \in DOMAIN q
      BY <1>1, <1>3, FirstRead
    <3>2. k + 1 # i
      BY <2>1, <2>2, <3>1
    <3> QED BY <1>6, <3>1, <3>2 DEF Requested
  <2>5. q[i].cmd # "interrupt"
    BY <1>6 DEF Requested
  <2> QED BY <1>2, <1>6, <2>3, <2>4, <2>5 DEF Requested
<1>7. target # "running" => UNCHANGED <<target, fromStub>>
  BY DEF StubServes
<1>8. ASSUME NEW i \in DOMAIN q, Requested(i)
      PROVE  \E j \in DOMAIN toStub'[sock] : Requested(j)' /\ toStub'[sock][j] = q[i]
  <2>1. fromStub'[sock] = <<>> /\ target' = "halted"
    BY <1>7, <1>8 DEF Requested
  <2> QED BY <1>6, <1>8, <2>1
<1>9. target # "running" => (Idle => Idle') /\ (CommandUnderWay => CommandUnderWay') /\ (RunUnderWay => RunUnderWay')
  <2> SUFFICES ASSUME target # "running"
               PROVE  (Idle => Idle') /\ (CommandUnderWay => CommandUnderWay') /\ (RunUnderWay => RunUnderWay')
    OBVIOUS
  <2>1. UNCHANGED <<target, fromStub, sock, phase, resumedBy, kind, pending>>
    BY <1>2, <1>7
  <2>2. (Idle => Idle') /\ (Answered => Answered') /\ (Lost => Lost')
    BY <1>5, <2>1 DEF Idle, Answered, Lost
  <2>3. CommandUnderWay => CommandUnderWay'
    BY <1>8, <2>1, <2>2 DEF CommandUnderWay
  <2>4. RunUnderWay => RunUnderWay'
    BY <1>8, <2>1, <2>2 DEF RunUnderWay
  <2> QED BY <2>2, <2>3, <2>4
<1>10. ASSUME target = "running", RunUnderWay PROVE RunUnderWay'
  <2>1. NoRequest /\ fromStub[sock] = <<>>
    BY <1>1, <1>10 DEF RunUnderWay, Requested, Answered, Lost
  <2> DEFINE p == Pkt("signal", Head(q).req)
  <2>2. target' = "halted" /\ fromStub'[sock] = Append(<<>>, p)
    BY <1>1, <1>10, <2>1 DEF StubServes, Reply
  <2>3. Append(<<>>, p) = <<p>> /\ p.kind = "signal"
    BY DEF Pkt
  <2>4. Len(fromStub'[sock]) = 1 /\ Head(fromStub'[sock]).kind = "signal"
    BY <2>2, <2>3
  <2> QED BY <1>2, <1>5, <2>1, <2>2, <2>4 DEF RunUnderWay, Answered
<1> QED BY <1>2, <1>7, <1>9, <1>10

\* The stub reads the request that is on its way: it answers it or lets the target run.
LEMMA RequestRead ==
    ASSUME Steps, sock # NoSock, sock \in Sock, StubServes(sock), Head(toStub[sock]).cmd # "interrupt"
    PROVE  /\ UNCHANGED <<sock, phase, kind, pending>> /\ ~Idle
           /\ CommandUnderWay => CommandUnderWay' /\ target' = target
           /\ RunUnderWay => RunUnderWay' /\ target = "halted"
<1> DEFINE q == toStub[sock]
           m == Head(q)
<1>1. /\ q # <<>> /\ phase[sock] = "open" /\ q \in Seq([cmd : AllKinds, req : Req]) /\ fromStub[sock] \in Seq(Packet)
      /\ toStub \in [Sock -> Seq([cmd : AllKinds, req : Req])] /\ fromStub \in [Sock -> Seq(Packet)]
  BY ServedSocket DEF StubServes
<1>2. UNCHANGED <<sock, phase, kind, pending>>
  BY DEF StubServes, session, calls
<1>3. toStub'[sock] = Tail(q)
  BY <1>1 DEF StubServes
<1>4. m = q[1] /\ 1 \in DOMAIN q /\ q[1].cmd # "interrupt"
  BY <1>1, FirstRead
<1>5. ~NoRequest
  BY <1>4 DEF NoRequest
<1>6. ASSUME NEW i \in DOMAIN q, Requested(i)
      PROVE  i = 1 /\ NoRequest' /\ target = "halted" /\ fromStub[sock] = <<>>
  <2>1. i = 1 /\ target = "halted" /\ fromStub[sock] = <<>>
    BY <1>4, <1>6 DEF Requested
  <2>2. ASSUME NEW k \in DOMAIN toStub'[sock] PROVE toStub'[sock][k].cmd = "interrupt"
    <3>1. k \in 1..(Len(q) - 1) /\ toStub'[sock][k] = q[k + 1] /\ k + 1 \in DOMAIN q /\ k + 1 # 1
      BY <1>1, <1>3, FirstRead
    <3> QED BY <1>6, <2>1, <3>1 DEF Requested
  <2> QED BY <1>2, <2>1, <2>2 DEF NoRequest
<1>7. ASSUME CommandUnderWay PROVE CommandUnderWay' /\ target' = target
  <2>1. PICK i \in DOMAIN q : Requested(i) /\ q[i] = [cmd |-> kind[pending], req |-> pending]
    BY <1>5, <1>7 DEF CommandUnderWay, Answered, Lost
  <2>2. m.cmd \in {"cmd", "query"} /\ m.req = pending /\ NoRequest' /\ target = "halted" /\ fromStub[sock] = <<>>
    BY <1>4, <1>6, <1>7, <2>1 DEF CommandUnderWay
  <2>3. PICK b : Reply(sock, Pkt(b, pending)) /\ UNCHANGED stub
    BY <2>2 DEF StubServes
  <2>4. fromStub'[sock] = Append(<<>>, Pkt(b, pending)) /\ target' = target
    BY <1>1, <2>2, <2>3 DEF Reply, stub
  <2>5. Len(fromStub'[sock]) = 1 /\ Head(fromStub'[sock]).for = pending
    BY <2>4 DEF Pkt
  <2> QED BY <1>2, <1>7, <2>2, <2>4, <2>5 DEF CommandUnderWay, Answered
<1>8. ASSUME RunUnderWay PROVE RunUnderWay' /\ target = "halted"
  <2>1. PICK i \in DOMAIN q : Requested(i) /\ q[i].cmd \in {"continue", "step"}
    BY <1>5, <1>8 DEF RunUnderWay, Answered, Lost
  <2>2. m.cmd \in {"continue", "step"} /\ NoRequest' /\ target = "halted" /\ fromStub[sock] = <<>>
    BY <1>4, <1>6, <2>1
  <2>3. target' = "running" /\ resumedBy'.sock = sock /\ fromStub' = fromStub
    BY <2>2 DEF StubServes
  <2> QED BY <1>2, <2>2, <2>3 DEF RunUnderWay
<1> QED BY <1>2, <1>5, <1>7, <1>8 DEF Idle

\* The running target stops or exits.
LEMMA RunEnds ==
    ASSUME Steps, sock # NoSock, TargetStops, RunUnderWay
    PROVE  RunUnderWay'
<1>1. /\ sock \in Sock /\ phase[sock] \in {"open", "fin"} /\ fromStub \in [Sock -> Seq(Packet)]
      /\ \A s \in Sock : phase[s] = "open" => s = sock
  BY SockIsLive DEF Steps, TokenInv, ConnectionInv, TypeInv, TypeOK
<1>2. UNCHANGED <<sock, phase, toStub, resumedBy>> /\ target = "running"
  BY DEF TargetStops, session
<1>3. NoRequest /\ NoRequest' /\ fromStub[sock] = <<>> /\ (resumedBy.sock = sock \/ phase[sock] = "fin")
  BY <1>2 DEF RunUnderWay, Requested, Answered, Lost, NoRequest
<1>4. PICK k \in {"signal", "exit"}, b \in {"signal", "exit", "bad"} :
        /\ target' = IF k = "signal" THEN "halted" ELSE "exited"
        /\ b = "signal" => k = "signal"
        /\ Reply(resumedBy.sock, Pkt(b, resumedBy.req))
  <2>1. PICK k \in {"signal", "exit"} :
          /\ target' = IF k = "signal" THEN "halted" ELSE "exited"
          /\ \E b \in ReplyKinds(k) : Reply(resumedBy.sock, Pkt(b, resumedBy.req))
    BY DEF TargetStops
  <2>2. PICK b \in ReplyKinds(k) : Reply(resumedBy.sock, Pkt(b, resumedBy.req))
    BY <2>1
  <2>3. b \in {"signal", "exit", "bad"} /\ (b = "signal" => k = "signal")
    BY DEF ReplyKinds
  <2> QED BY <2>1, <2>2, <2>3
<1>5. CASE phase[sock] = "fin"
  <2>1. \A s \in Sock : phase[s] # "open"
    BY <1>1, <1>5
  <2>2. fromStub'[sock] = fromStub[sock]
    BY <1>1, <1>4, <1>5, <2>1 DEF Reply
  <2> QED BY <1>2, <1>3, <1>5, <2>2 DEF RunUnderWay, Lost
<1>6. CASE phase[sock] = "open"
  <2> DEFINE p == Pkt(b, resumedBy.req)
  <2>1. fromStub'[sock] = Append(<<>>, p) /\ p.kind = b
    BY <1>1, <1>3, <1>4, <1>6 DEF Reply, Pkt
  <2> HIDE DEF p
  <2>2. Len(fromStub'[sock]) = 1 /\ Head(fromStub'[sock]) = p
    BY <2>1
  <2> QED BY <1>2, <1>3, <1>4, <2>1, <2>2 DEF RunUnderWay, Answered
<1> QED BY <1>1, <1>5, <1>6

\* The peer closes the connection: what was not answered is lost.
LEMMA PeerLeaves ==
    ASSUME Steps, sock # NoSock, sock \in Sock, PeerCloses(sock)
    PROVE  /\ UNCHANGED <<sock, kind, pending, target>>
           /\ Idle => Idle'
           /\ CommandUnderWay => CommandUnderWay'
           /\ RunUnderWay => RunUnderWay'
<1>1. /\ UNCHANGED <<sock, kind, pending, target, fromStub, resumedBy>> /\ toStub'[sock] = <<>> /\ phase'[sock] = "fin"
  <2>1. toStub \in [Sock -> Seq([cmd : AllKinds, req : Req])] /\ phase \in [Sock -> {"new", "connecting", "open", "fin", "dead", "closed"}]
    BY DEF Steps, TypeInv, TypeOK
  <2> QED BY <2>1 DEF PeerCloses, session, calls, stub
<1>2. NoRequest'
  BY <1>1 DEF NoRequest
<1>3. /\ Answered => Answered'
      /\ Lost => Lost'
      /\ \A i : Requested(i) => Lost'
      /\ Idle => Idle'
      /\ fromStub[sock] = <<>> => Lost'
  BY <1>1, <1>2 DEF Answered, Lost, Requested, Idle
<1>4. CommandUnderWay => CommandUnderWay'
  BY <1>1, <1>3 DEF CommandUnderWay
<1>5. RunUnderWay => RunUnderWay'
  BY <1>1, <1>3 DEF RunUnderWay
<1> QED BY <1>1, <1>3, <1>4, <1>5

-----------------------------------------------------------------------------
(* Every step keeps the invariant *)

\* The calls that fail with a connection are not connecting on another one.
LEMMA DropStep ==
    ASSUME Steps, NEW S \in SUBSET Req, Settle(S \cup PendingCalls, Failure), UNCHANGED <<kind, on, toStub>>,
           sock' = NoSock, queuedStop' \in {NoPkt, queuedStop}, ~Parsing',
           NEW d \in Sock \cup {NoSock}, \A r \in S : pc[r] = "connecting" => on[r] = d,
           \A s \in Sock : IF s = d THEN phase'[s] \in {"dead", "closed"} ELSE phase'[s] = phase[s],
           \A s \in Sock : phase'[s] \notin {"open", "fin"},
           \A s \in Sock : phase'[s] \in {"new", "connecting"} => fromStub'[s] = fromStub[s]
    PROVE  TokenInv'
<1>1. S \cup PendingCalls \in SUBSET Req /\ \A r \in PendingCalls : pc[r] = "awaiting"
  BY PendingIsCall, PendingInSection DEF Steps, TypeInv, IInv
<1>2. ReplyIsOwn'
  BY <1>1, NoReply, OwnKept DEF Steps, TokenInv
<1>3. \A s \in Sock, r \in Req : phase'[s] = "connecting" /\ pc[r] = "connecting" /\ on[r] = s =>
        pc'[r] = "connecting" /\ on'[r] = on[r]
  <2> SUFFICES ASSUME NEW s \in Sock, NEW r \in Req, phase'[s] = "connecting", pc[r] = "connecting", on[r] = s
               PROVE  pc'[r] = "connecting" /\ on'[r] = on[r]
    OBVIOUS
  <2>1. s # d
    BY DEF Steps, TokenInv
  <2>2. r \notin S \cup PendingCalls
    BY <1>1, <2>1
  <2> QED BY <2>2 DEF Settle
<1>4. \A s \in Sock : phase'[s] \in {"new", "connecting"} =>
        phase'[s] = phase[s] /\ toStub'[s] = toStub[s] /\ fromStub'[s] = fromStub[s]
  OBVIOUS
<1>5. ConnectionInv' /\ ConversationInv'
  BY <1>3, <1>4, ConnectionDropped DEF Steps, TokenInv
<1> QED BY <1>2, <1>5 DEF Steps, TokenInv

\* reset() leaves no live connection.
LEMMA DropPhases ==
    ASSUME Steps, DropConnection
    PROVE  /\ sock \in Sock \cup {NoSock}
           /\ \A s \in Sock : IF s = sock THEN phase'[s] \in {"dead", "closed"} ELSE phase'[s] = phase[s]
           /\ \A s \in Sock : phase'[s] \notin {"open", "fin"}
<1>1. /\ sock \in Sock \cup {NoSock} /\ phase \in [Sock -> {"new", "connecting", "open", "fin", "dead", "closed"}]
      /\ \A s \in Sock : phase[s] \in {"open", "fin"} => s = sock
      /\ Live(sock) <=> sock # NoSock
  BY SockIsLive DEF Steps, TypeInv, TypeOK, TokenInv
<1> QED BY <1>1, ReqAssumption DEF DropConnection

LEMMA RejectStopStep ==
    ASSUME Steps, NEW r \in Req, Resume(r), RejectStop(r)
    PROVE  TokenInv'
<1>1. {r} \in SUBSET Req /\ pc[r] = "resumed" /\ sock' = NoSock /\ queuedStop' \in {NoPkt, queuedStop} /\ ~Parsing'
  BY DEF Resume, RejectStop, DropConnection, Parsing
<1>2. UNCHANGED <<kind, on, toStub, fromStub>> /\ Settle({r} \cup PendingCalls, Failure)
  BY DEF RejectStop
<1> QED BY <1>1, <1>2, DropPhases, DropStep DEF RejectStop

LEMMA ResetStep ==
    ASSUME Steps, Reset
    PROVE  TokenInv'
<1>1. {} \in SUBSET Req /\ sock' = NoSock /\ queuedStop' \in {NoPkt, queuedStop} /\ ~Parsing'
  BY DEF Reset, DropConnection, Parsing, Quiet
<1>2. UNCHANGED <<kind, on, toStub, fromStub>> /\ Settle({} \cup PendingCalls, Failure)
  <2>1. {} \cup PendingCalls = PendingCalls
    OBVIOUS
  <2> QED BY <2>1 DEF Reset
<1> QED BY <1>1, <1>2, DropPhases, DropStep DEF Reset

LEMMA RejectPacketStep ==
    ASSUME Steps, Parsing, RejectPacket(chunk.from)
    PROVE  TokenInv'
<1> DEFINE c == chunk.from
<1>1. {} \in SUBSET Req /\ sock' = NoSock /\ queuedStop' \in {NoPkt, queuedStop} /\ ~Parsing'
  BY DEF RejectPacket, DropConnection, Parsing, NoChunk
<1>2. UNCHANGED <<kind, on, toStub>> /\ Settle({} \cup PendingCalls, Failure)
  <2>1. {} \cup PendingCalls = PendingCalls
    OBVIOUS
  <2> QED BY <2>1 DEF RejectPacket
<1>3. c = sock /\ sock # NoSock /\ phase[sock] \in {"open", "fin"}
  BY DEF Steps, TokenInv, ConnectionInv
<1>4. \A s \in Sock : phase'[s] \in {"new", "connecting"} => fromStub'[s] = fromStub[s]
  <2> SUFFICES ASSUME NEW s \in Sock, phase'[s] \in {"new", "connecting"} PROVE fromStub'[s] = fromStub[s]
    OBVIOUS
  <2>1. s # c
    BY <1>3, DropPhases DEF RejectPacket
  <2>2. fromStub \in [Sock -> Seq(Packet)] /\ Consume(c, chunk.n)
    BY DEF Steps, TypeInv, TypeOK, RejectPacket
  <2> QED BY <2>1, <2>2 DEF Consume
<1> QED BY <1>1, <1>2, <1>4, DropPhases, DropStep DEF RejectPacket

LEMMA ClosingStep ==
    ASSUME Steps, NEW s \in Sock, ConnectRefused(s) \/ Closed(s)
    PROVE  TokenInv'
<1>1. phase \in [Sock -> {"new", "connecting", "open", "fin", "dead", "closed"}] /\ fromStub \in [Sock -> Seq(Packet)]
  BY DEF Steps, TypeInv, TypeOK
<1>2. /\ phase' = [phase EXCEPT ![s] = "closed"] /\ ~Parsing /\ UNCHANGED toStub
      /\ fromStub' \in {fromStub, [fromStub EXCEPT ![s] = <<>>]}
  BY DEF ConnectRefused, Closed, Quiet
<1>3. \A d \in Sock : phase'[d] \notin {"open", "fin"}
  <2>1. \A d \in Sock : phase[d] \in {"open", "fin"} => d = s
    BY SockIsLive DEF Steps, TokenInv, ConnectionInv, ConnectRefused, Closed
  <2> QED BY <1>1, <1>2, <2>1
<1>4. \A d \in Sock : IF d = s THEN phase'[d] \in {"dead", "closed"} ELSE phase'[d] = phase[d]
  BY <1>1, <1>2
<1>5. \A d \in Sock : phase'[d] \in {"new", "connecting"} => fromStub'[d] = fromStub[d]
  BY <1>1, <1>2
<1>6. PICK S \in SUBSET Req : CloseHandler(S) /\ \A r \in S : on[r] = s
  BY DEF ConnectRefused, Closed, Connectors
<1>7. /\ sock' = NoSock /\ queuedStop' \in {NoPkt, queuedStop} /\ ~Parsing'
      /\ UNCHANGED <<kind, on, toStub>> /\ Settle(S \cup PendingCalls, Failure)
  BY <1>2, <1>6 DEF CloseHandler, Parsing
<1> QED BY <1>3, <1>4, <1>5, <1>6, <1>7, DropStep

LEMMA ConnectTimeoutTokenStep ==
    ASSUME Steps, NEW s \in Sock, ConnectTimeout(s)
    PROVE  TokenInv'
<1>1. Connectors(s) \in SUBSET Req /\ \A r \in Req : (r \in Connectors(s) <=> pc[r] = "connecting" /\ on[r] = s)
  BY DEF Connectors
<1>2. /\ Settle(Connectors(s), Failure) /\ phase' = [phase EXCEPT ![s] = "dead"] /\ ~Parsing /\ phase[s] = "connecting"
      /\ UNCHANGED <<sock, state, queuedStop, chunk, kind, on, toStub, fromStub>>
  BY DEF ConnectTimeout, Quiet, session
<1>3. ReplyIsOwn'
  BY <1>1, <1>2, NoReply, OwnKept DEF Steps, TokenInv
<1>4. /\ phase \in [Sock -> {"new", "connecting", "open", "fin", "dead", "closed"}]
      /\ sock = NoSock /\ \A d \in Sock : phase[d] \notin {"open", "fin"}
  BY <1>2, SockIsLive DEF Steps, TypeInv, TypeOK, TokenInv
<1>5. /\ sock' = NoSock /\ ~Parsing' /\ \A d \in Sock : phase'[d] \notin {"open", "fin"}
      /\ \A d \in Sock : phase'[d] \in {"new", "connecting"} =>
           phase'[d] = phase[d] /\ toStub'[d] = toStub[d] /\ fromStub'[d] = fromStub[d]
  BY <1>2, <1>4 DEF Parsing
<1>6. \A d \in Sock, r \in Req : phase'[d] = "connecting" /\ pc[r] = "connecting" /\ on[r] = d =>
        pc'[r] = "connecting" /\ on'[r] = on[r]
  <2> SUFFICES ASSUME NEW d \in Sock, NEW r \in Req, phase'[d] = "connecting", pc[r] = "connecting", on[r] = d
               PROVE  pc'[r] = "connecting" /\ on'[r] = on[r]
    OBVIOUS
  <2>1. d # s
    BY <1>2, <1>4
  <2>2. r \notin Connectors(s)
    BY <1>1, <2>1
  <2> QED BY <1>2, <2>2 DEF Settle
<1>7. ConnectionInv' /\ ConversationInv'
  BY <1>5, <1>6, ConnectionDropped DEF Steps, TokenInv
<1> QED BY <1>2, <1>3, <1>7 DEF Steps, TokenInv

\* 'connect': the new connection is the only one and nothing has been said on it.
LEMMA ConnectedTokenStep ==
    ASSUME AnsweredInTime, Steps, NEW s \in Sock, Connected(s)
    PROVE  TokenInv'
<1>1. /\ phase[s] = "connecting" /\ phase' = [phase EXCEPT ![s] = "open"] /\ sock' = s /\ state' = "stopped"
      /\ target' = "halted" /\ ~Parsing /\ \A d \in Sock : phase[d] # "dead"
      /\ toStub' = [d \in Sock |-> IF phase[d] = "closed" THEN <<>> ELSE toStub[d]]
      /\ UNCHANGED <<pending, queuedStop, chunk, kind, on, got, fromStub>>
  BY DEF Connected, Quiet
<1>2. /\ phase \in [Sock -> {"new", "connecting", "open", "fin", "dead", "closed"}]
      /\ sock = NoSock /\ \A d \in Sock : phase[d] \notin {"open", "fin"}
  BY <1>1, SockIsLive DEF Steps, TypeInv, TypeOK, TokenInv
<1>3. PICK r \in Req : pc[r] = "connecting" /\ on[r] = s
  BY <1>1 DEF Steps, TokenInv, ConnectionInv
<1>4. pending = NoReq /\ \A q \in Req \ {r} : pc[q] \notin Busy
  BY <1>3, Alone DEF Busy
<1>5. \A d \in Sock \ {s} : phase[d] \in {"new", "closed"}
  <2> SUFFICES ASSUME NEW d \in Sock \ {s}, phase[d] = "connecting" PROVE FALSE
    BY <1>1, <1>2
  <2>1. PICK q \in Req : pc[q] = "connecting" /\ on[q] = d
    BY DEF Steps, TokenInv, ConnectionInv
  <2> QED BY <1>3, <1>4, <2>1 DEF Busy
<1>6. /\ toStub[s] = <<>> /\ fromStub[s] = <<>>
      /\ \A d \in Sock : phase[d] = "new" => toStub[d] = <<>> /\ fromStub[d] = <<>>
  BY <1>1 DEF Steps, TokenInv, ConnectionInv
<1>7. \A d \in Sock : toStub'[d] = <<>>
  BY <1>1, <1>5, <1>6
<1>8. phase'[s] = "open" /\ \A d \in Sock \ {s} : phase'[d] = phase[d]
  BY <1>1, <1>2
<1>9. ConnectionInv'
  BY <1>1, <1>5, <1>6, <1>7, <1>8 DEF ConnectionInv, Parsing
<1>10. Exchange'
  <2>1. NoRequest' /\ fromStub'[s] = <<>>
    BY <1>1, <1>6, <1>7 DEF NoRequest
  <2> QED BY <1>1, <1>4, <2>1 DEF Exchange, Idle
<1>11. QueuedStopInv'
  BY <1>1 DEF QueuedStopInv
<1>12. \A q \in Req : pc'[q] \notin {"awaiting", "resumed"}
  BY <1>3, <1>4 DEF Connected, Connectors, Busy
<1>13. ResumedInv' /\ ReplyIsOwn'
  BY <1>1, <1>12 DEF ResumedInv, ReplyIsOwn, Steps, TokenInv
<1> QED BY <1>1, <1>9, <1>10, <1>11, <1>13 DEF Steps, TokenInv, ConversationInv

\* The calls' own conjuncts survive a call that ends in the section or moves on in it.
LEMMA ResumedKept ==
    ASSUME ResumedInv, UNCHANGED <<sock, kind>>,
           target = "halted" => target' = "halted",
           \A q \in Req : pc'[q] \in {"awaiting", "resumed"} =>
               pc'[q] = pc[q] /\ on'[q] = on[q] /\ got'[q] = got[q],
           \A q \in Req : pc[q] = "resumed" /\ pc'[q] = "resumed" => state' = state
    PROVE  ResumedInv'
BY DEF ResumedInv

LEMMA SubmitTokenStep ==
    ASSUME Steps, NEW r \in Req, Submit(r)
    PROVE  TokenInv'
<1>1. /\ UNCHANGED <<sock, state, pending, queuedStop, chunk, kind, on, got, phase, toStub, fromStub, target, resumedBy>>
      /\ pc[r] = "idle" /\ pc' = [pc EXCEPT ![r] = "queued"]
  BY DEF Submit, session, stub, net
<1>2. pc \in [Req -> {"idle", "queued", "connecting", "ready", "awaiting", "resumed", "done"}]
  BY DEF Steps, TypeInv, TypeOK, CallTypeOK
<1>3. \A q \in Req : (q # r => pc'[q] = pc[q]) /\ pc'[r] = "queued"
  BY <1>1, <1>2
<1>4. ConnectionInv'
  BY <1>1, <1>3, ConnectionKept DEF Steps, TokenInv, ConnectionInv, Parsing
<1>5. sock # NoSock => Exchange'
  BY <1>1, NothingSaid DEF Steps, TokenInv, ConversationInv, Exchange, Talk
<1>6. sock # NoSock => ResumedInv'
  BY <1>1, <1>3, ResumedKept DEF Steps, TokenInv, ConversationInv
<1> QED BY <1>1, <1>4, <1>5, <1>6 DEF Steps, TokenInv, ConversationInv, QueuedStopInv, ReplyIsOwn

LEMMA ConnectDirectlyTokenStep ==
    ASSUME AnsweredInTime, Steps, NEW r \in Req, ConnectDirectly(r)
    PROVE  TokenInv'
BY DEF AnsweredInTime, Steps, TokenInv, ConnectDirectly, ExclusiveKinds

LEMMA EnterConnectingTokenStep ==
    ASSUME AnsweredInTime, Steps, NEW r \in Req, EnterConnecting(r)
    PROVE  TokenInv'
<1>1. /\ UNCHANGED <<sock, state, pending, queuedStop, chunk, kind, got, toStub, fromStub, target, resumedBy>>
      /\ pc[r] = "queued" /\ ~Parsing
  BY DEF EnterConnecting, InTurn, session, stub
<1>2. pc \in [Req -> {"idle", "queued", "connecting", "ready", "awaiting", "resumed", "done"}] /\ on \in [Req -> Sock \cup {NoSock}]
      /\ phase \in [Sock -> {"new", "connecting", "open", "fin", "dead", "closed"}]
  BY DEF Steps, TypeInv, TypeOK, CallTypeOK
<1>3. ReplyIsOwn'
  BY <1>1 DEF Steps, TokenInv, ReplyIsOwn
<1>4. CASE Live(sock)
  <2>1. pc' = [pc EXCEPT ![r] = "ready"] /\ UNCHANGED <<on, phase>>
    BY <1>4 DEF EnterConnecting
  <2>2. \A q \in Req : (q # r => pc'[q] = pc[q]) /\ pc'[r] = "ready"
    BY <1>2, <2>1
  <2>3. ConnectionInv'
    BY <1>1, <2>1, <2>2, ConnectionKept DEF Steps, TokenInv, Parsing
  <2>4. sock # NoSock => Exchange'
    BY <1>1, <2>1, NothingSaid DEF Steps, TokenInv, ConversationInv, Exchange, Talk
  <2>5. sock # NoSock => ResumedInv'
    BY <1>1, <2>1, <2>2, ResumedKept DEF Steps, TokenInv, ConversationInv
  <2> QED BY <1>1, <1>3, <2>3, <2>4, <2>5 DEF Steps, TokenInv, ConversationInv, QueuedStopInv
<1>5. CASE ~Live(sock)
  <2>1. PICK s \in Sock : /\ phase[s] = "new" /\ phase' = [phase EXCEPT ![s] = "connecting"]
                          /\ on' = [on EXCEPT ![r] = s] /\ pc' = [pc EXCEPT ![r] = "connecting"]
    BY <1>5 DEF EnterConnecting, OpenSocket
  <2>2. sock = NoSock
    BY <1>5, SockIsLive DEF Steps, TokenInv
  <2>3. /\ \A q \in Req \ {r} : pc'[q] = pc[q] /\ on'[q] = on[q]
        /\ pc'[r] = "connecting" /\ on'[r] = s /\ phase'[s] = "connecting"
        /\ \A d \in Sock \ {s} : phase'[d] = phase[d]
    BY <1>2, <2>1
  <2>4. ConnectionInv'
    <3>1. \A d \in Sock : phase'[d] = "connecting" => \E q \in Req : pc'[q] = "connecting" /\ on'[q] = d
      <4> SUFFICES ASSUME NEW d \in Sock \ {s}, phase[d] = "connecting"
                   PROVE  \E q \in Req : pc'[q] = "connecting" /\ on'[q] = d
        BY <2>3
      <4>1. PICK q \in Req : pc[q] = "connecting" /\ on[q] = d
        BY DEF Steps, TokenInv, ConnectionInv
      <4> QED BY <1>1, <2>3, <4>1
    <3>2. \A d \in Sock : phase'[d] \in {"new", "connecting"} => phase[d] \in {"new", "connecting"}
      BY <2>1, <2>3
    <3>3. \A d \in Sock : phase'[d] \in {"open", "fin"} => phase[d] = phase'[d]
      BY <2>3
    <3> QED BY <1>1, <2>2, <3>1, <3>2, <3>3 DEF Steps, TokenInv, ConnectionInv, Parsing
  <2> QED BY <1>1, <1>3, <2>2, <2>4 DEF Steps, TokenInv, ConversationInv
<1> QED BY <1>4, <1>5

\* A call that is not connecting ends.
LEMMA CallEnds ==
    ASSUME Steps, NEW r \in Req, NEW result, Settle({r}, result), pc[r] # "connecting", ~Parsing',
           UNCHANGED <<sock, kind, on, phase, toStub, fromStub, target, resumedBy>>,
           result.kind \notin {"data", "signal", "exit"} \/ kind[r] \notin {"cmd", "query"} \/ result = got[r],
           \A q \in Req \ {r} : pc[q] = "resumed" => state' = state
    PROVE  /\ ConnectionInv' /\ ReplyIsOwn' /\ (sock # NoSock => ResumedInv')
           /\ sock # NoSock /\ UNCHANGED <<state, pending>> => Exchange'
<1>1. /\ pc'[r] = "done" /\ \A q \in Req \ {r} : pc'[q] = pc[q] /\ got'[q] = got[q]
  BY DEF Settle
<1>2. ConnectionInv'
  BY <1>1, ConnectionKept DEF Steps, TokenInv
<1>3. {r} \in SUBSET Req
  OBVIOUS
<1>4. ReplyIsOwn'
  BY <1>3, OwnKept DEF Steps, TokenInv
<1>5. sock # NoSock => ResumedInv'
  BY <1>1, ResumedKept DEF Steps, TokenInv, ConversationInv
<1>6. sock # NoSock /\ UNCHANGED <<state, pending>> => Exchange'
  BY NothingSaid DEF Steps, TokenInv, ConversationInv, Exchange, Talk
<1> QED BY <1>2, <1>4, <1>5, <1>6

\* A call whose turn it is awaits a reply on the session's socket.
LEMMA CallAwaits ==
    ASSUME AnsweredInTime, Steps, NEW r \in Req, InTurn(r) \/ pc[r] \in {"ready", "resumed"}, ~Parsing,
           NEW cmd, sock # NoSock, AwaitReply(r, sock, cmd),
           UNCHANGED <<sock, kind, phase, fromStub, target, resumedBy, chunk>>
    PROVE  /\ pending = NoReq /\ pending' = r
           /\ IF cmd = "" THEN UNCHANGED toStub ELSE Write(sock, cmd, r)
           /\ ConnectionInv' /\ ResumedInv' /\ ReplyIsOwn'
           /\ \A q \in Req \ {r} : pc[q] # "resumed"
<1>1. (InTurn(r) \/ pc[r] \in Busy) /\ pc[r] # "awaiting"
  BY DEF InTurn, Busy
<1>2. pending = NoReq /\ \A q \in Req \ {r} : pc[q] \notin Busy
  BY <1>1, Alone
<1>3. /\ pending' = r /\ pc' = [pc EXCEPT ![r] = "awaiting"] /\ on' = [on EXCEPT ![r] = sock]
      /\ IF cmd = "" THEN UNCHANGED toStub ELSE Write(sock, cmd, r)
      /\ UNCHANGED got
  BY <1>2 DEF AwaitReply
<1>4. /\ sock \in Sock /\ phase[sock] \in {"open", "fin"}
      /\ toStub \in [Sock -> Seq([cmd : AllKinds, req : Req])]
      /\ on \in [Req -> Sock \cup {NoSock}]
      /\ pc \in [Req -> {"idle", "queued", "connecting", "ready", "awaiting", "resumed", "done"}]
  BY SockIsLive DEF Steps, TypeInv, TypeOK, CallTypeOK, TokenInv, ConnectionInv
<1>5. /\ pc'[r] = "awaiting" /\ on'[r] = sock
      /\ \A q \in Req \ {r} : pc'[q] = pc[q] /\ on'[q] = on[q] /\ pc'[q] \notin {"awaiting", "resumed"}
  BY <1>2, <1>3, <1>4 DEF Busy
<1>6. \A s \in Sock : toStub'[s] # toStub[s] => s = sock /\ phase[s] = "open"
  BY <1>3, <1>4 DEF Write
<1>7. pc[r] # "connecting" /\ ~Parsing'
  BY <1>1 DEF InTurn, Parsing
<1>8. ConnectionInv'
  BY <1>5, <1>6, <1>7, ConnectionKept DEF Steps, TokenInv
<1>9. ResumedInv'
  BY <1>5 DEF ResumedInv
<1>10. ReplyIsOwn'
  BY <1>3 DEF ReplyIsOwn, Steps, TokenInv
<1> QED BY <1>2, <1>3, <1>8, <1>9, <1>10 DEF Busy

LEMMA DispatchTokenStep ==
    ASSUME AnsweredInTime, Steps, NEW r \in Req, Dispatch(r)
    PROVE  TokenInv'
<1>1. /\ pc[r] = "ready" /\ ~Parsing /\ ~Parsing'
      /\ UNCHANGED <<sock, chunk, kind, phase, fromStub, target, resumedBy>>
      /\ queuedStop' = IF state = "stopped" /\ kind[r] \in ExecKinds THEN NoPkt ELSE queuedStop
  BY DEF Dispatch, Parsing, stub
<1>2. Live(sock) <=> sock # NoSock
  BY SockIsLive DEF Steps, TokenInv
<1>3. kind[r] \in {"cmd", "query", "continue", "step"}
  BY <1>1 DEF Steps, ConnectorInv, ConnectKinds
<1>4. ASSUME ConnectionInv', ReplyIsOwn', sock # NoSock => Exchange' /\ QueuedStopInv' /\ ResumedInv' PROVE TokenInv'
  BY <1>1, <1>4 DEF Steps, TokenInv, ConversationInv
<1>5. CASE state = "stopped" /\ Live(sock)
  <2>1. state' = (IF kind[r] \in ExecKinds THEN "waiting" ELSE state) /\ AwaitReply(r, sock, kind[r])
    BY <1>5 DEF Dispatch
  <2>2. /\ pending = NoReq /\ pending' = r /\ Write(sock, kind[r], r)
        /\ ConnectionInv' /\ ResumedInv' /\ ReplyIsOwn'
    BY <1>1, <1>2, <1>3, <1>5, <2>1, CallAwaits
  <2>3. Idle /\ target = "halted"
    BY <1>2, <1>5, <2>2 DEF Steps, TokenInv, ConversationInv, Exchange
  <2>4. kind[r] \in AllKinds \ {"interrupt"}
    BY <1>3 DEF AllKinds, ExclusiveKinds
  <2>5. \/ \E i \in DOMAIN toStub'[sock] : Requested(i)' /\ toStub'[sock][i] = [cmd |-> kind[r], req |-> r]
        \/ Lost'
    BY <1>1, <1>2, <1>5, <2>2, <2>3, <2>4, Asked
  <2>6. pending' # NoReq
    BY <2>2, ReqAssumption
  <2>7. CASE kind[r] \in {"cmd", "query"}
    <3>1. CommandUnderWay'
      BY <1>1, <2>2, <2>3, <2>5, <2>7 DEF CommandUnderWay
    <3>2. state' = "stopped"
      BY <1>5, <2>1, <2>7 DEF ExecKinds
    <3> QED BY <1>1, <1>4, <2>2, <2>3, <2>6, <3>1, <3>2 DEF Exchange, QueuedStopInv
  <2>8. CASE kind[r] \in {"continue", "step"}
    <3>1. RunUnderWay'
      BY <1>1, <2>5, <2>8 DEF RunUnderWay
    <3>2. state' = "waiting" /\ queuedStop' = NoPkt /\ kind'[r] \in ExecKinds
      BY <1>1, <1>5, <2>1, <2>8 DEF ExecKinds
    <3> QED BY <1>4, <2>2, <2>6, <3>1, <3>2 DEF Exchange, QueuedStopInv
  <2> QED BY <1>3, <2>7, <2>8
<1>6. CASE ~(state = "stopped" /\ Live(sock))
  <2>1. Settle({r}, Failure) /\ UNCHANGED <<state, pending, on, toStub>>
    BY <1>6 DEF Dispatch
  <2>2. /\ ConnectionInv' /\ ReplyIsOwn'
        /\ sock # NoSock => ResumedInv' /\ Exchange'
    BY <1>1, <2>1, NoReply, CallEnds
  <2>3. sock # NoSock => QueuedStopInv'
    BY <1>1, <1>2, <1>6, <2>1 DEF Steps, TokenInv, ConversationInv, QueuedStopInv
  <2> QED BY <1>4, <2>2, <2>3
<1> QED BY <1>5, <1>6

LEMMA EnterWaitTokenStep ==
    ASSUME AnsweredInTime, Steps, NEW r \in Req, EnterWait(r)
    PROVE  TokenInv'
<1>1. /\ pc[r] = "queued" /\ InTurn(r) /\ kind[r] = "wait" /\ ~Parsing /\ ~Parsing'
      /\ UNCHANGED <<sock, chunk, kind, phase, fromStub, target, resumedBy>>
  BY DEF EnterWait, InTurn, Parsing, stub
<1>2. Live(sock) <=> sock # NoSock
  BY SockIsLive DEF Steps, TokenInv
<1>3. ASSUME ConnectionInv', ReplyIsOwn', queuedStop' \in {NoPkt, queuedStop},
             sock # NoSock => Exchange' /\ QueuedStopInv' /\ ResumedInv'
      PROVE  TokenInv'
  BY <1>1, <1>3 DEF Steps, TokenInv, ConversationInv
<1>4. pending = NoReq /\ \A q \in Req : pc[q] # "resumed"
  BY <1>1, Alone DEF Busy
<1>5. CASE queuedStop # NoPkt
  <2>1. queuedStop' = NoPkt /\ state' = StopState(queuedStop) /\ Settle({r}, queuedStop) /\ UNCHANGED <<pending, on, toStub>>
    BY <1>5 DEF EnterWait
  <2>2. /\ ConnectionInv' /\ ReplyIsOwn'
        /\ sock # NoSock => ResumedInv'
    BY <1>1, <1>4, <2>1, CallEnds
  <2>3. sock # NoSock => Idle'
    <3> SUFFICES ASSUME sock # NoSock PROVE Idle'
      OBVIOUS
    <3>1. Idle
      BY <1>4, <1>5 DEF Steps, TokenInv, ConversationInv, Exchange, QueuedStopInv
    <3> QED BY <1>1, <2>1, <3>1, NothingSaid DEF Talk
  <2>4. sock # NoSock /\ state' = "stopped" => target' = "halted"
    <3>1. state' = "stopped" => queuedStop.kind # "exit"
      BY <2>1 DEF StopState
    <3> QED BY <1>1, <1>5, <3>1 DEF Steps, TokenInv, ConversationInv, Exchange, QueuedStopInv
  <2>5. state' \in {"stopped", "unavailable"}
    BY <2>1 DEF StopState
  <2>6. sock # NoSock => Exchange' /\ QueuedStopInv'
    BY <1>4, <2>1, <2>3, <2>4, <2>5 DEF Exchange, QueuedStopInv
  <2> QED BY <1>3, <2>1, <2>2, <2>6
<1>6. CASE queuedStop = NoPkt /\ state = "running" /\ Live(sock)
  <2>1. state' = "waiting" /\ AwaitReply(r, sock, "") /\ UNCHANGED queuedStop
    BY <1>6 DEF EnterWait
  <2>2. pending' = r /\ UNCHANGED toStub /\ ConnectionInv' /\ ResumedInv' /\ ReplyIsOwn'
    BY <1>1, <1>2, <1>6, <2>1, CallAwaits
  <2>3. RunUnderWay'
    BY <1>1, <1>2, <1>6, <2>2, NothingSaid DEF Talk, Steps, TokenInv, ConversationInv, Exchange
  <2>4. kind'[pending'] \in ExecKinds /\ pending' # NoReq
    BY <1>1, <2>2, ReqAssumption DEF ExecKinds
  <2>5. Exchange' /\ QueuedStopInv'
    BY <1>6, <2>1, <2>3, <2>4 DEF Exchange, QueuedStopInv
  <2> QED BY <1>3, <2>1, <2>2, <2>5
<1>7. CASE queuedStop = NoPkt /\ ~(state = "running" /\ Live(sock))
  <2>1. Settle({r}, Failure) /\ UNCHANGED <<state, queuedStop, pending, on, toStub>>
    BY <1>7 DEF EnterWait
  <2>2. /\ ConnectionInv' /\ ReplyIsOwn'
        /\ sock # NoSock => ResumedInv' /\ Exchange'
    BY <1>1, <2>1, NoReply, CallEnds
  <2> QED BY <1>3, <1>7, <2>1, <2>2 DEF QueuedStopInv
<1> QED BY <1>5, <1>6, <1>7

LEMMA EnterInterruptTokenStep ==
    ASSUME AnsweredInTime, Steps, NEW r \in Req, EnterInterrupt(r)
    PROVE  TokenInv'
<1>1. /\ pc[r] = "queued" /\ InTurn(r) /\ kind[r] = "interrupt" /\ ~Parsing /\ ~Parsing'
      /\ UNCHANGED <<sock, chunk, kind, phase, fromStub, target, resumedBy, queuedStop>>
  BY DEF EnterInterrupt, InTurn, Parsing, stub
<1>2. Live(sock) <=> sock # NoSock
  BY SockIsLive DEF Steps, TokenInv
<1>3. ASSUME ConnectionInv', ReplyIsOwn', sock # NoSock => Exchange' /\ QueuedStopInv' /\ ResumedInv'
      PROVE  TokenInv'
  BY <1>1, <1>3 DEF Steps, TokenInv, ConversationInv
<1>4. CASE state = "running" /\ Live(sock)
  <2>1. state' = "waiting" /\ AwaitReply(r, sock, "interrupt")
    BY <1>4 DEF EnterInterrupt
  <2>2. pending' = r /\ Write(sock, "interrupt", r) /\ ConnectionInv' /\ ResumedInv' /\ ReplyIsOwn'
    BY <1>1, <1>2, <1>4, <2>1, CallAwaits
  <2>3. RunUnderWay /\ queuedStop = NoPkt
    BY <1>2, <1>4 DEF Steps, TokenInv, ConversationInv, Exchange, QueuedStopInv
  <2>4. RunUnderWay'
    BY <1>1, <1>2, <1>4, <2>2, <2>3, Nudged
  <2>5. kind'[pending'] \in ExecKinds /\ pending' # NoReq
    BY <1>1, <2>2, ReqAssumption DEF ExecKinds
  <2>6. Exchange' /\ QueuedStopInv'
    BY <1>1, <2>1, <2>3, <2>4, <2>5 DEF Exchange, QueuedStopInv
  <2> QED BY <1>3, <2>2, <2>6
<1>5. CASE ~(state = "running" /\ Live(sock))
  <2>1. Settle({r}, Failure) /\ UNCHANGED <<state, pending, on, toStub>>
    BY <1>5 DEF EnterInterrupt
  <2>2. /\ ConnectionInv' /\ ReplyIsOwn'
        /\ sock # NoSock => ResumedInv' /\ Exchange'
    BY <1>1, <2>1, NoReply, CallEnds
  <2>3. sock # NoSock => QueuedStopInv'
    BY <1>1, <2>1 DEF Steps, TokenInv, ConversationInv, QueuedStopInv
  <2> QED BY <1>3, <2>2, <2>3
<1> QED BY <1>4, <1>5

LEMMA ReturnReplyTokenStep ==
    ASSUME AnsweredInTime, Steps, NEW r \in Req, Resume(r), ReturnReply(r)
    PROVE  TokenInv'
<1>1. /\ pc[r] = "resumed" /\ ~Parsing /\ ~Parsing' /\ Settle({r}, got[r])
      /\ UNCHANGED <<sock, state, pending, queuedStop, kind, on, phase, toStub, fromStub, target, resumedBy>>
  BY DEF Resume, ReturnReply, Parsing, session, stub, net
<1>2. /\ ConnectionInv' /\ ReplyIsOwn'
      /\ sock # NoSock => ResumedInv' /\ Exchange'
  BY <1>1, CallEnds
<1> QED BY <1>1, <1>2 DEF Steps, TokenInv, ConversationInv, QueuedStopInv

LEMMA ReturnStopTokenStep ==
    ASSUME AnsweredInTime, Steps, NEW r \in Req, Resume(r), ReturnStop(r)
    PROVE  TokenInv'
<1>1. /\ pc[r] = "resumed" /\ ~Parsing /\ ~Parsing' /\ Settle({r}, got[r]) /\ kind[r] \in ExecKinds
      /\ state' = StopState(got[r])
      /\ UNCHANGED <<sock, pending, queuedStop, kind, on, phase, toStub, fromStub, target, resumedBy>>
  BY DEF Resume, ReturnStop, Parsing, stub, net
<1>2. pending = NoReq /\ \A q \in Req \ {r} : pc[q] # "resumed"
  BY <1>1, Alone DEF Busy
<1>3. /\ ConnectionInv' /\ ReplyIsOwn'
      /\ sock # NoSock => ResumedInv'
  BY <1>1, <1>2, CallEnds
<1>4. ASSUME sock # NoSock PROVE Exchange' /\ QueuedStopInv'
  <2>1. state = "waiting" /\ (got[r].kind = "signal" => target = "halted")
    BY <1>1, <1>4 DEF Steps, TokenInv, ConversationInv, ResumedInv
  <2>2. Idle /\ queuedStop = NoPkt
    BY <1>2, <1>4, <2>1 DEF Steps, TokenInv, ConversationInv, Exchange, QueuedStopInv
  <2>3. Idle'
    BY <1>1, <2>2, NothingSaid DEF Talk
  <2> QED BY <1>1, <1>2, <2>1, <2>2, <2>3 DEF Exchange, QueuedStopInv, StopState
<1> QED BY <1>1, <1>3, <1>4 DEF Steps, TokenInv, ConversationInv

LEMMA StepAgainTokenStep ==
    ASSUME AnsweredInTime, Steps, NEW r \in Req, Resume(r), StepAgain(r)
    PROVE  TokenInv'
<1>1. /\ pc[r] = "resumed" /\ ~Parsing /\ kind[r] = "step" /\ got[r].kind = "signal" /\ state' = "waiting"
      /\ AwaitReply(r, on[r], "step")
      /\ UNCHANGED <<sock, queuedStop, chunk, kind, phase, fromStub, target, resumedBy>>
  BY DEF Resume, StepAgain, stub
<1>2. pending = NoReq /\ \A q \in Req \ {r} : pc[q] \notin Busy
  BY <1>1, Alone DEF Busy
<1>3. CASE sock = NoSock
  <2>1. /\ pc' = [pc EXCEPT ![r] = "awaiting"] /\ on' = [on EXCEPT ![r] = on[r]] /\ UNCHANGED got /\ Write(on[r], "step", r)
    BY <1>1, <1>2 DEF AwaitReply
  <2>2. \A d \in Sock : phase[d] \notin {"open", "fin"}
    BY <1>3, SockIsLive DEF Steps, TokenInv
  <2>3. /\ pc \in [Req -> {"idle", "queued", "connecting", "ready", "awaiting", "resumed", "done"}]
        /\ on \in [Req -> Sock \cup {NoSock}] /\ toStub \in [Sock -> Seq([cmd : AllKinds, req : Req])]
    BY DEF Steps, TypeInv, TypeOK, CallTypeOK
  <2>4. \A q \in Req : pc[q] = "connecting" => pc'[q] = "connecting" /\ on'[q] = on[q]
    BY <1>1, <2>1, <2>3
  <2>5. \A d \in Sock : toStub'[d] = toStub[d]
    BY <2>1, <2>2, <2>3 DEF Write
  <2>6. ConnectionInv'
    BY <1>1, <2>4, <2>5, ConnectionKept DEF Steps, TokenInv, Parsing
  <2> QED BY <1>1, <1>3, <2>1, <2>6 DEF Steps, TokenInv, ConversationInv, ReplyIsOwn
<1>4. CASE sock # NoSock
  <2>1. on[r] = sock /\ state = "waiting" /\ target = "halted"
    BY <1>1, <1>4 DEF Steps, TokenInv, ConversationInv, ResumedInv, ExecKinds
  <2>2. pending' = r /\ Write(sock, "step", r) /\ ConnectionInv' /\ ResumedInv' /\ ReplyIsOwn'
    BY <1>1, <1>4, <2>1, CallAwaits
  <2>3. Idle /\ queuedStop = NoPkt
    BY <1>2, <1>4, <2>1 DEF Steps, TokenInv, ConversationInv, Exchange, QueuedStopInv
  <2>4. "step" \in AllKinds \ {"interrupt"}
    BY DEF AllKinds, ExclusiveKinds
  <2>5. \/ \E i \in DOMAIN toStub'[sock] : Requested(i)' /\ toStub'[sock][i] = [cmd |-> "step", req |-> r]
        \/ Lost'
    BY <1>1, <1>4, <2>1, <2>2, <2>3, <2>4, Asked
  <2>6. RunUnderWay'
    BY <1>1, <2>5 DEF RunUnderWay
  <2>7. kind'[pending'] \in ExecKinds /\ pending' # NoReq
    BY <1>1, <2>2, ReqAssumption DEF ExecKinds
  <2>8. Exchange' /\ QueuedStopInv'
    BY <1>1, <2>3, <2>6, <2>7 DEF Exchange, QueuedStopInv
  <2> QED BY <1>1, <2>2, <2>8 DEF Steps, TokenInv, ConversationInv
<1> QED BY <1>3, <1>4

LEMMA ReplyTimeoutTokenStep ==
    ASSUME AnsweredInTime, Steps, NEW r \in Req, ReplyTimeout(r)
    PROVE  TokenInv'
<1>1. /\ pending = r /\ pending' = NoReq /\ ~Parsing' /\ kind[r] \in ExecKinds /\ state' = "running" /\ Settle({r}, TimedOut)
      /\ UNCHANGED <<sock, queuedStop, kind, on, phase, toStub, fromStub, target, resumedBy>>
  <2>1. kind[r] \in ExclusiveKinds /\ kind[r] \notin {"cmd", "query"}
    BY DEF AnsweredInTime, Steps, TokenInv, ReplyTimeout
  <2>2. kind[r] \in ExecKinds
    BY <2>1 DEF ExclusiveKinds, ExecKinds
  <2> QED BY <2>2 DEF ReplyTimeout, Quiet, Parsing, stub, net
<1>2. pc[r] = "awaiting" /\ \A q \in Req \ {r} : pc[q] # "resumed"
  <2>1. pc[r] = "awaiting"
    BY <1>1 DEF Steps, IInv, AwaitInv
  <2> QED BY <2>1, Alone DEF Busy
<1>3. /\ ConnectionInv' /\ ReplyIsOwn'
      /\ sock # NoSock => ResumedInv'
  BY <1>1, <1>2, NoReply, CallEnds
<1>4. ASSUME sock # NoSock PROVE Exchange' /\ QueuedStopInv'
  <2>1. kind[r] \notin {"cmd", "query"} /\ r # NoReq
    BY <1>1, ReqAssumption DEF ExecKinds
  <2>2. state = "waiting"
    <3>1. state # "stopped"
      BY <1>1, <1>4, <2>1 DEF Steps, TokenInv, ConversationInv, Exchange, CommandUnderWay
    <3> QED BY <1>1, <1>4, <2>1, <3>1 DEF Steps, TokenInv, ConversationInv, Exchange, TypeInv, TypeOK
  <2>3. RunUnderWay /\ queuedStop = NoPkt
    BY <1>1, <1>4, <2>1, <2>2 DEF Steps, TokenInv, ConversationInv, Exchange, QueuedStopInv
  <2>4. RunUnderWay'
    BY <1>1, <2>3, NothingSaid DEF Talk
  <2> QED BY <1>1, <2>3, <2>4 DEF Exchange, QueuedStopInv
<1> QED BY <1>1, <1>3, <1>4 DEF Steps, TokenInv, ConversationInv

\* 'data' comes from the session's socket.
LEMMA DeliverTokenStep ==
    ASSUME Steps, NEW s \in Sock, Deliver(s) \/ DeliverFragment(s)
    PROVE  TokenInv'
<1>1. /\ UNCHANGED <<sock, state, pending, queuedStop, kind, pc, on, got, phase, toStub, fromStub, target, resumedBy>>
      /\ chunk' = chunk \/ chunk'.from = s
      /\ Live(s)
  BY DEF Deliver, DeliverFragment, calls, stub, net
<1>2. s = sock /\ sock # NoSock
  BY <1>1, SockIsLive DEF Live, Steps, TokenInv
<1>3. Parsing' => sock # NoSock /\ chunk'.from = sock
  BY <1>1, <1>2 DEF Steps, TokenInv, ConnectionInv, Parsing
<1>4. ConnectionInv'
  BY <1>1, <1>3, ConnectionKept DEF Steps, TokenInv
<1>5. Exchange'
  BY <1>1, <1>2, NothingSaid DEF Steps, TokenInv, ConversationInv, Exchange, Talk
<1> QED BY <1>1, <1>2, <1>4, <1>5 DEF Steps, TokenInv, ConversationInv, QueuedStopInv, ResumedInv, ReplyIsOwn

\* A packet that parses: the awaited reply, or the stop of a target nobody waits for.
LEMMA AcceptPacketTokenStep ==
    ASSUME AnsweredInTime, Steps, Parsing, AcceptPacket(chunk.from)
    PROVE  TokenInv'
<1> DEFINE p == Head(fromStub[sock])
<1>1. chunk.from = sock /\ sock # NoSock /\ sock \in Sock /\ chunk.n \in Nat /\ chunk.n > 0 /\ chunk.n <= Len(fromStub[sock])
  BY SockIsLive DEF Steps, TokenInv, ConnectionInv, TypeInv, TypeOK, ChunkOK, Parsing
<1>2. /\ ~Unusable(p, sock) /\ Consume(sock, 1) /\ NextInChunk
      /\ UNCHANGED <<sock, kind, on, phase, toStub, target, resumedBy>>
  BY <1>1 DEF AcceptPacket, stub
<1>3. /\ fromStub \in [Sock -> Seq(Packet)] /\ fromStub[sock] \in Seq(Packet)
      /\ phase[sock] \in {"open", "fin"}
      /\ pc \in [Req -> {"idle", "queued", "connecting", "ready", "awaiting", "resumed", "done"}]
      /\ got \in [Req -> Packet] /\ pending \in Req \cup {NoReq}
      /\ chunk \in [from : Sock \cup {NoSock}, n : Nat]
  BY <1>1, SockIsLive DEF Steps, TypeInv, TypeOK, CallTypeOK, TokenInv, ConnectionInv
<1>4. Len(fromStub[sock]) # 0
  BY <1>1, <1>3
<1>5. Exchange /\ QueuedStopInv /\ ResumedInv /\ ConnectionInv /\ ReplyIsOwn /\ TypeInv
  BY <1>1 DEF Steps, TokenInv, ConversationInv
<1>6. /\ pending # NoReq => \/ state = "stopped" /\ kind[pending] \in {"cmd", "query"} /\ p.for = pending
                            \/ state = "waiting" /\ kind[pending] \in ExecKinds
      /\ pending = NoReq => state = "running"
      /\ state # "stopped" => p.kind \in {"signal", "exit", "bad"} /\ (p.kind = "signal" => target = "halted")
      /\ Answered
  BY <1>1, <1>4, <1>5, PacketMeansAnswered
<1>7. Idle'
  BY <1>1, <1>2, <1>5, <1>6, Heard
<1>8. state # "stopped" => IsStop(p)
  BY <1>2, <1>6 DEF Unusable, IsStop
<1>9. ConnectionInv'
  <2>1. \A s \in Sock : fromStub'[s] # fromStub[s] => s = sock
    BY <1>1, <1>2, <1>3 DEF Consume
  <2>2. Parsing' => chunk'.from = sock
    BY <1>1, <1>2, <1>3 DEF NextInChunk, Parsing, NoChunk
  <2>3. \A q \in Req : pc[q] = "connecting" => pc'[q] = "connecting"
    <3>1. pending # NoReq => pc[pending] = "awaiting"
      BY <1>3 DEF Steps, IInv, AwaitInv
    <3> QED BY <1>3, <3>1 DEF AcceptPacket
  <2> QED BY <1>1, <1>2, <1>3, <1>5, <2>1, <2>2, <2>3, ConnectionKept
<1>10. CASE pending # NoReq
  <2>1. /\ pending' = NoReq /\ pc' = [pc EXCEPT ![pending] = "resumed"] /\ got' = [got EXCEPT ![pending] = p]
        /\ UNCHANGED <<state, queuedStop>>
    BY <1>1, <1>10 DEF AcceptPacket
  <2>2. /\ pending \in Req /\ pc'[pending] = "resumed" /\ got'[pending] = p
        /\ \A q \in Req \ {pending} : pc'[q] = pc[q] /\ got'[q] = got[q]
    BY <1>3, <1>10, <2>1
  <2>3. Exchange'
    BY <1>2, <1>5, <1>6, <1>7, <1>10, <2>1 DEF Exchange
  <2>4. pc[pending] = "awaiting" /\ on[pending] = sock
    BY <1>5, <2>2 DEF Steps, IInv, AwaitInv, ResumedInv
  <2>5. kind[pending] \in ExecKinds => state = "waiting" /\ IsStop(p) /\ (p.kind = "signal" => target = "halted")
    BY <1>6, <1>8, <1>10 DEF ExecKinds
  <2>6. ResumedInv'
    BY <1>2, <1>5, <2>1, <2>2, <2>4, <2>5 DEF ResumedInv
  <2>7. ReplyIsOwn'
    BY <1>2, <1>5, <1>6, <1>10, <2>2 DEF ReplyIsOwn, ExecKinds
  <2>8. QueuedStopInv'
    BY <1>5, <2>1 DEF QueuedStopInv
  <2> QED BY <1>2, <1>9, <2>1, <2>3, <2>6, <2>7, <2>8 DEF Steps, TokenInv, ConversationInv
<1>11. CASE pending = NoReq
  <2>1. queuedStop' = p /\ state' = StopState(p) /\ UNCHANGED <<pending, pc, got>> /\ state = "running"
    BY <1>1, <1>6, <1>11 DEF AcceptPacket
  <2>2. \/ state' = "stopped" /\ target = "halted"
        \/ state' = "unavailable" /\ p.kind = "exit"
    BY <1>6, <1>8, <2>1 DEF StopState, IsStop
  <2>3. Exchange' /\ QueuedStopInv'
    BY <1>2, <1>7, <1>11, <2>1, <2>2 DEF Exchange, QueuedStopInv
  <2>4. ResumedInv'
    BY <1>2, <1>5, <2>1 DEF ResumedInv
  <2>5. IsStop(queuedStop')
    BY <1>8, <2>1
  <2> QED BY <1>2, <1>5, <1>9, <2>1, <2>3, <2>4, <2>5 DEF Steps, TokenInv, ConversationInv, ReplyIsOwn
<1> QED BY <1>10, <1>11

\* What the stub does is a step of the exchange under way, if there is one.
LEMMA ExchangeStep ==
    ASSUME Steps, sock # NoSock, UNCHANGED <<session, calls>>,
           /\ Idle => Idle' /\ target' = target
           /\ CommandUnderWay => CommandUnderWay' /\ target' = target
           /\ RunUnderWay => RunUnderWay'
    PROVE  Exchange' /\ QueuedStopInv' /\ ResumedInv'
<1>1. Exchange /\ QueuedStopInv /\ ResumedInv
  BY DEF Steps, TokenInv, ConversationInv
<1>2. UNCHANGED <<sock, state, pending, queuedStop, kind, pc, on, got>>
  BY DEF session, calls
<1>3. Exchange'
  BY <1>1, <1>2 DEF Exchange
<1>4. QueuedStopInv'
  BY <1>1, <1>2 DEF QueuedStopInv
<1>5. ResumedInv'
  <2> SUFFICES ASSUME NEW r \in Req, pc[r] = "resumed", kind[r] \in ExecKinds PROVE target' = target
    BY <1>1, <1>2 DEF ResumedInv
  <2>1. state = "waiting"
    BY <1>1 DEF ResumedInv
  <2>2. pending = NoReq
    <3>1. InSection(r) /\ kind[r] \in ExclusiveKinds
      BY DEF InSection, ExecKinds, ExclusiveKinds
    <3>2. ASSUME pending # NoReq PROVE FALSE
      <4>1. pending \in PendingCalls
        BY <3>2 DEF PendingCalls
      <4>2. pending \in Req /\ pc[pending] = "awaiting" /\ InSection(pending)
        BY <4>1, PendingInSection DEF Steps, IInv
      <4>3. r = pending
        BY <3>1, <4>2, SectionUnique DEF Steps, IInv
      <4> QED BY <4>2, <4>3
    <3> QED BY <3>2
  <2> QED BY <1>1, <2>1, <2>2 DEF Exchange
<1> QED BY <1>3, <1>4, <1>5

\* The stub speaks on the live connection only, and reads what older ones left.
LEMMA StubTokenStep ==
    ASSUME Steps, UNCHANGED <<session, calls>>, UNCHANGED phase, ~Parsing,
           \A s \in Sock : toStub'[s] # toStub[s] => toStub[s] # <<>>,
           \A s \in Sock : fromStub'[s] # fromStub[s] => phase[s] = "open",
           sock # NoSock => Exchange' /\ QueuedStopInv' /\ ResumedInv'
    PROVE  TokenInv'
<1>1. UNCHANGED <<sock, state, pending, queuedStop, chunk, kind, pc, on, got>>
  BY DEF session, calls
<1>2. \A s \in Sock : toStub'[s] # toStub[s] => phase[s] \notin {"new", "connecting", "fin"} /\ (sock # NoSock => s = sock)
  BY DEF Steps, TokenInv, ConnectionInv
<1>3. ConnectionInv'
  BY <1>1, <1>2, ConnectionKept DEF Steps, TokenInv, Parsing
<1> QED BY <1>1, <1>3 DEF Steps, TokenInv, ConversationInv, ReplyIsOwn

LEMMA TargetStopsTokenStep ==
    ASSUME Steps, TargetStops
    PROVE  TokenInv'
<1>1. UNCHANGED <<session, calls>> /\ UNCHANGED <<phase, toStub>> /\ ~Parsing /\ target = "running"
  BY DEF TargetStops
<1>2. \A s \in Sock : fromStub'[s] # fromStub[s] => phase[s] = "open"
  <2>1. fromStub \in [Sock -> Seq(Packet)]
    BY DEF Steps, TypeInv, TypeOK
  <2>2. \A p : Reply(resumedBy.sock, p) => \A s \in Sock : fromStub'[s] # fromStub[s] => phase[s] = "open"
    BY <2>1 DEF Reply
  <2> QED BY <2>2 DEF TargetStops
<1>3. ASSUME sock # NoSock PROVE Exchange' /\ QueuedStopInv' /\ ResumedInv'
  <2>1. ~Idle /\ ~CommandUnderWay
    BY <1>1 DEF Idle, CommandUnderWay
  <2>2. RunUnderWay => RunUnderWay'
    BY <1>3, RunEnds
  <2> QED BY <1>1, <1>3, <2>1, <2>2, ExchangeStep
<1> QED BY <1>1, <1>2, <1>3, StubTokenStep

LEMMA StubServesTokenStep ==
    ASSUME Steps, NEW s \in Sock, StubServes(s)
    PROVE  TokenInv'
<1>1. UNCHANGED <<session, calls>> /\ UNCHANGED phase /\ ~Parsing /\ toStub[s] # <<>>
  BY DEF StubServes
<1>2. /\ fromStub \in [Sock -> Seq(Packet)]
      /\ toStub \in [Sock -> Seq([cmd : AllKinds, req : Req])]
  BY DEF Steps, TypeInv, TypeOK
<1>3. \A d \in Sock : toStub'[d] # toStub[d] => toStub[d] # <<>>
  <2>1. toStub' = [toStub EXCEPT ![s] = Tail(toStub[s])]
    BY DEF StubServes
  <2> QED BY <1>1, <1>2, <2>1
<1>4. \A d \in Sock : fromStub'[d] # fromStub[d] => phase[d] = "open"
  <2>1. \A p : Reply(s, p) => \A d \in Sock : fromStub'[d] # fromStub[d] => phase[d] = "open"
    BY <1>2 DEF Reply
  <2> QED BY <2>1 DEF StubServes
<1>5. ASSUME sock # NoSock PROVE Exchange' /\ QueuedStopInv' /\ ResumedInv'
  <2>1. s = sock
    BY <1>1, <1>5, ServedSocket
  <2>2. CASE Head(toStub[sock]).cmd = "interrupt"
    <3>1. /\ target # "running" => target' = target /\ (Idle => Idle') /\ (CommandUnderWay => CommandUnderWay')
          /\ RunUnderWay => RunUnderWay'
      BY <1>5, <2>1, <2>2, InterruptRead
    <3>2. target = "running" => ~Idle /\ ~CommandUnderWay
      BY DEF Idle, CommandUnderWay
    <3> QED BY <1>1, <1>5, <3>1, <3>2, ExchangeStep
  <2>3. CASE Head(toStub[sock]).cmd # "interrupt"
    <3>1. ~Idle /\ (CommandUnderWay => CommandUnderWay' /\ target' = target) /\ (RunUnderWay => RunUnderWay')
      BY <1>5, <2>1, <2>3, RequestRead
    <3> QED BY <1>1, <1>5, <3>1, ExchangeStep
  <2> QED BY <2>2, <2>3
<1> QED BY <1>1, <1>3, <1>4, <1>5, StubTokenStep

LEMMA PeerClosesTokenStep ==
    ASSUME Steps, NEW s \in Sock, PeerCloses(s)
    PROVE  TokenInv'
<1>1. /\ UNCHANGED <<session, calls>> /\ UNCHANGED <<stub, fromStub>> /\ ~Parsing /\ phase[s] = "open"
      /\ phase' = [phase EXCEPT ![s] = "fin"] /\ toStub' = [toStub EXCEPT ![s] = <<>>]
  BY DEF PeerCloses
<1>2. s = sock /\ sock # NoSock
  BY <1>1, SockIsLive DEF Steps, TokenInv
<1>3. UNCHANGED <<sock, state, pending, queuedStop, chunk, kind, pc, on, got, target>>
  BY <1>1 DEF session, calls, stub
<1>4. /\ phase \in [Sock -> {"new", "connecting", "open", "fin", "dead", "closed"}]
      /\ toStub \in [Sock -> Seq([cmd : AllKinds, req : Req])]
  BY DEF Steps, TypeInv, TypeOK
<1>5. /\ phase'[s] = "fin" /\ toStub'[s] = <<>>
      /\ \A d \in Sock \ {s} : phase'[d] = phase[d] /\ toStub'[d] = toStub[d]
  BY <1>1, <1>4
<1>6. ConnectionInv'
  BY <1>1, <1>2, <1>3, <1>5 DEF Steps, TokenInv, ConnectionInv, Parsing
<1>7. Exchange' /\ QueuedStopInv' /\ ResumedInv'
  <2>1. (Idle => Idle') /\ (CommandUnderWay => CommandUnderWay') /\ (RunUnderWay => RunUnderWay')
    BY <1>2, PeerLeaves
  <2> QED BY <1>1, <1>2, <1>3, <2>1, ExchangeStep
<1> QED BY <1>3, <1>6, <1>7 DEF Steps, TokenInv, ConversationInv, ReplyIsOwn

LEMMA ConnectorStep ==
    ASSUME ConnectorInv, TypeInv, IInv, [Next]_vars
    PROVE  ConnectorInv'
<1> DEFINE PCs == {"idle", "queued", "connecting", "ready", "awaiting", "resumed", "done"}
<1>1. pc \in [Req -> PCs] /\ on \in [Req -> Sock \cup {NoSock}]
  BY DEF TypeInv, TypeOK, CallTypeOK
<1>2. ASSUME UNCHANGED kind, \A q \in Req : pc'[q] \in {"connecting", "ready"} => pc'[q] = pc[q] PROVE ConnectorInv'
  BY <1>2 DEF ConnectorInv
<1>3. ASSUME NEW S, NEW result, Settle(S, result), UNCHANGED kind PROVE ConnectorInv'
  <2>1. \A q \in Req : pc'[q] \in {"connecting", "ready"} => pc'[q] = pc[q]
    BY <1>3 DEF Settle
  <2> QED BY <1>2, <1>3, <2>1
<1>4. ASSUME NEW r \in Req, NEW s, NEW cmd, AwaitReply(r, s, cmd), UNCHANGED kind PROVE ConnectorInv'
  <2>1. CASE pending # NoReq
    BY <1>3, <1>4, <2>1 DEF AwaitReply
  <2>2. CASE pending = NoReq
    <3>1. \A q \in Req : pc'[q] \in {"connecting", "ready"} => pc'[q] = pc[q]
      BY <1>1, <1>4, <2>2 DEF AwaitReply
    <3> QED BY <1>2, <1>4, <3>1
  <2> QED BY <2>1, <2>2
<1>5. ASSUME NEW r \in Req, NEW c, pc' = [pc EXCEPT ![r] = c], UNCHANGED kind,
             \/ c = "queued"
             \/ c = "connecting" /\ kind[r] \in ConnectKinds \cup {"connect"}
             \/ c = "ready" /\ kind[r] \in ConnectKinds
      PROVE  ConnectorInv'
  <2>1. \A q \in Req \ {r} : pc'[q] = pc[q]
    BY <1>1, <1>5
  <2>2. pc'[r] = c
    BY <1>1, <1>5
  <2> QED BY <1>5, <2>1, <2>2 DEF ConnectorInv
<1>6. ASSUME NEW r \in Req, Submit(r) \/ ConnectDirectly(r) \/ EnterConnecting(r) PROVE ConnectorInv'
  <2>1. CASE Submit(r)
    BY <1>5, <2>1 DEF Submit
  <2>2. CASE ConnectDirectly(r)
    BY <1>3, <1>5, <2>2 DEF ConnectDirectly, OpenSocket
  <2>3. CASE EnterConnecting(r)
    BY <1>5, <2>3 DEF EnterConnecting, OpenSocket
  <2> QED BY <1>6, <2>1, <2>2, <2>3
<1>7. ASSUME NEW r \in Req, Dispatch(r) \/ EnterWait(r) \/ EnterInterrupt(r) PROVE ConnectorInv'
  BY <1>3, <1>4, <1>7 DEF Dispatch, EnterWait, EnterInterrupt
<1>8. ASSUME NEW r \in Req, Resume(r) \/ ReplyTimeout(r) PROVE ConnectorInv'
  BY <1>3, <1>4, <1>8 DEF Resume, ReturnReply, ReturnStop, StepAgain, RejectStop, ReplyTimeout
<1>9. ASSUME NEW s \in Sock, Connected(s) PROVE ConnectorInv'
  <2>1. \A q \in Req : \/ pc'[q] = pc[q] \/ pc'[q] = "done"
                       \/ pc'[q] = "ready" /\ pc[q] = "connecting" /\ kind[q] # "connect"
    BY <1>9 DEF Connected, Connectors
  <2>2. UNCHANGED kind
    BY <1>9 DEF Connected
  <2> QED BY <2>1, <2>2 DEF ConnectorInv
<1>10. ASSUME NEW s \in Sock, ConnectRefused(s) \/ ConnectTimeout(s) \/ Closed(s) PROVE ConnectorInv'
  BY <1>3, <1>10 DEF ConnectRefused, ConnectTimeout, Closed, CloseHandler
<1>11. ASSUME NEW s \in Sock, Deliver(s) \/ DeliverFragment(s) PROVE ConnectorInv'
  BY <1>2, <1>11 DEF Deliver, DeliverFragment, calls
<1>12. CASE HandlePacket
  <2>1. CASE RejectPacket(chunk.from)
    BY <1>3, <2>1 DEF RejectPacket
  <2>2. CASE AcceptPacket(chunk.from)
    <3>1. \A q \in Req : pc'[q] \in {"connecting", "ready"} => pc'[q] = pc[q]
      BY <1>1, <2>2 DEF AcceptPacket
    <3> QED BY <1>2, <2>2, <3>1 DEF AcceptPacket
  <2> QED BY <1>12, <2>1, <2>2 DEF HandlePacket
<1>13. CASE Reset
  BY <1>3, <1>13 DEF Reset
<1>14. CASE External
  BY <1>2, <1>14 DEF External, TargetStops, StubServes, PeerCloses, calls
<1>15. CASE UNCHANGED vars
  BY <1>2, <1>15 DEF vars, calls
<1> QED BY <1>6, <1>7, <1>8, <1>9, <1>10, <1>11, <1>12, <1>13, <1>14, <1>15
        DEF Next, Microtask, Enter, SocketEvent

LEMMA TokenStep ==
    ASSUME AnsweredInTime, Steps, [Next]_vars
    PROVE  TokenInv'
<1>1. ASSUME UNCHANGED vars PROVE TokenInv'
  <2>1. UNCHANGED <<session, calls, stub, net>>
    BY <1>1 DEF vars
  <2>2. /\ UNCHANGED <<sock, state, pending, queuedStop, chunk, kind, pc, on, got>>
        /\ UNCHANGED <<phase, toStub, fromStub, target, resumedBy>>
    BY <2>1 DEF session, calls, stub, net
  <2>3. ConnectionInv'
    BY <2>2 DEF Steps, TokenInv, ConnectionInv, Parsing
  <2>4. Exchange' = Exchange
    BY <2>2, NothingSaid DEF Exchange, Talk
  <2> QED BY <2>2, <2>3, <2>4 DEF Steps, TokenInv, ConversationInv, QueuedStopInv, ResumedInv, ReplyIsOwn
<1>2. ASSUME NEW r \in Req, Submit(r) \/ ConnectDirectly(r) \/ Microtask(r) \/ ReplyTimeout(r) PROVE TokenInv'
  <2>1. CASE Resume(r)
    BY <2>1, ReturnReplyTokenStep, ReturnStopTokenStep, StepAgainTokenStep, RejectStopStep DEF Resume
  <2> QED BY <1>2, <2>1, SubmitTokenStep, ConnectDirectlyTokenStep, EnterConnectingTokenStep, DispatchTokenStep,
             EnterWaitTokenStep, EnterInterruptTokenStep, ReplyTimeoutTokenStep DEF Microtask, Enter
<1>3. ASSUME NEW s \in Sock, SocketEvent(s) PROVE TokenInv'
  BY <1>3, ConnectedTokenStep, ClosingStep, ConnectTimeoutTokenStep, DeliverTokenStep DEF SocketEvent
<1>4. ASSUME HandlePacket PROVE TokenInv'
  BY <1>4, RejectPacketStep, AcceptPacketTokenStep DEF HandlePacket
<1>5. ASSUME External PROVE TokenInv'
  BY <1>5, TargetStopsTokenStep, StubServesTokenStep, PeerClosesTokenStep DEF External
<1> QED BY <1>1, <1>2, <1>3, <1>4, <1>5, ResetStep DEF Next

LEMMA TokenInitially == Init => TokenInv /\ ConnectorInv
<1> SUFFICES ASSUME Init PROVE TokenInv /\ ConnectorInv
  OBVIOUS
<1>1. ConnectionInv /\ ConversationInv /\ ConnectorInv
  BY DEF Init, ConnectionInv, ConversationInv, ConnectorInv, Parsing, NoChunk
<1>2. ReplyIsOwn
  BY NoReply DEF Init, ReplyIsOwn
<1> QED BY <1>1, <1>2 DEF Init, TokenInv

-----------------------------------------------------------------------------
(* The invariant of the conversation, for a session whose commands are     *)
(* answered in time and whose caller leaves connecting to the requests: a  *)
(* request, a running target or a packet is under way, never two of them,  *)
(* and each of the code's four states says which.                          *)
THEOREM ConversationInvariance == ASSUME AnsweredInTime PROVE Spec => []TokenInv
<1> DEFINE All == TypeInv /\ IInv /\ TokenInv /\ ConnectorInv
<1>1. Init => All
  BY TypesInitially, InitIInv, TokenInitially
<1>2. All /\ [Next]_vars => All'
  <2> SUFFICES ASSUME All, [Next]_vars PROVE All'
    OBVIOUS
  <2>1. IInv'
    BY NextIInv
  <2>2. TypeInv'
    BY <2>1, TypesKept DEF IInv
  <2>3. ConnectorInv'
    BY ConnectorStep
  <2>4. TokenInv'
    BY AnsweredInTime, <2>1, <2>2, TokenStep DEF Steps
  <2> QED BY <2>1, <2>2, <2>3, <2>4
<1>3. All => TokenInv
  OBVIOUS
<1> HIDE DEF All
<1> QED BY <1>1, <1>2, <1>3, PTL DEF Spec

(* A session that says stopped over a live connection has a halted ARM9:   *)
(* what a command, a breakpoint or a memory access relies on.              *)
THEOREM StoppedIsHalted == ASSUME AnsweredInTime PROVE Spec => []StoppedMeansHalted
<1>1. TokenInv => StoppedMeansHalted
  BY DEF TokenInv, ConversationInv, Exchange, StoppedMeansHalted, Live
<1> QED BY <1>1, ConversationInvariance, PTL

(* What a command returns is the reply to that command, for any number of  *)
(* calls, late stops, resets and reconnections.                            *)
THEOREM RepliesAreOwn == ASSUME AnsweredInTime PROVE Spec => []ReplyIsOwn
<1>1. TokenInv => ReplyIsOwn
  BY DEF TokenInv
<1> QED BY <1>1, ConversationInvariance, PTL

(* A session that believes the target runs, with nothing under way on its  *)
(* connection, is right: no stop has been lost.                            *)
THEOREM StopsAreKept == ASSUME AnsweredInTime PROVE Spec => []NoLostStop
<1>1. TokenInv => NoLostStop
  BY DEF TokenInv, ConversationInv, Exchange, RunUnderWay, Requested, Answered, Lost, NoLostStop
<1> QED BY <1>1, ConversationInvariance, PTL

=============================================================================
