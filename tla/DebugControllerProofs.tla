------------------------ MODULE DebugControllerProofs ------------------------
(***************************************************************************)
(* Proofs about DebugController: the registry and the stub agree, an add   *)
(* owns its record, and the hits counted are stops, for any number of      *)
(* calls, locations, generations and stops.                                *)
(***************************************************************************)
EXTENDS DebugController, TLAPS

-----------------------------------------------------------------------------
(* Sequences *)

LEMMA AppendFacts ==
  ASSUME NEW S, NEW q \in Seq(S), NEW e \in S
  PROVE  /\ Append(q, e) \in Seq(S) /\ Len(Append(q, e)) = Len(q) + 1
         /\ \A i \in 1..Len(q) : Append(q, e)[i] = q[i]
         /\ Append(q, e)[Len(q) + 1] = e
OBVIOUS

LEMMA TailFacts ==
  ASSUME NEW S, NEW q \in Seq(S), q # <<>>
  PROVE  /\ Tail(q) \in Seq(S) /\ Len(q) \in Nat \ {0} /\ Len(Tail(q)) = Len(q) - 1
         /\ \A i \in 1..Len(Tail(q)) : Tail(q)[i] = q[i + 1]
         /\ q[1] = Head(q) /\ q[1] \in S
OBVIOUS

LEMMA RotateFacts ==
  ASSUME NEW S, NEW q \in Seq(S), q # <<>>, NEW e \in S
  PROVE  /\ Append(Tail(q), e) \in Seq(S) /\ Len(Append(Tail(q), e)) = Len(q)
         /\ \A i \in 1..(Len(q) - 1) : Append(Tail(q), e)[i] = q[i + 1]
         /\ Append(Tail(q), e)[Len(q)] = e
<1>1. /\ Tail(q) \in Seq(S) /\ Len(q) \in Nat \ {0} /\ Len(Tail(q)) = Len(q) - 1
      /\ \A i \in 1..Len(Tail(q)) : Tail(q)[i] = q[i + 1]
  BY TailFacts
<1>2. /\ Append(Tail(q), e) \in Seq(S) /\ Len(Append(Tail(q), e)) = Len(Tail(q)) + 1
      /\ \A i \in 1..Len(Tail(q)) : Append(Tail(q), e)[i] = Tail(q)[i]
      /\ Append(Tail(q), e)[Len(Tail(q)) + 1] = e
  BY <1>1, AppendFacts
<1> QED
  BY <1>1, <1>2

-----------------------------------------------------------------------------
(* The chains *)

(* A call joins the end of a chain. *)
LEMMA QueueJoin ==
  ASSUME TypeOK, QueueInv, NEW c \in Call, NEW g \in Gen, ~Pending(c),
         queue' = [queue EXCEPT ![g] = Append(@, c)],
         \A d \in Call : d # c => call'[d] = call[d],
         call'[c].sess = g, call'[c].pc = "queued",
         call'[c].op = "add" <=> call'[c].cmd = "Z0",
         \A q \in Gen : (sstate'[q] = "waiting" <=> sstate[q] = "waiting")
  PROVE  QueueInv' /\ queue' \in [Gen -> Seq(Call)]
<1>1. /\ queue'[g] \in Seq(Call) /\ Len(queue'[g]) = Len(queue[g]) + 1
      /\ \A i \in 1..Len(queue[g]) : queue'[g][i] = queue[g][i]
      /\ queue'[g][Len(queue[g]) + 1] = c
      /\ Len(queue[g]) \in Nat
  BY AppendFacts DEF TypeOK
<1>2. \A q \in Gen : q # g => queue'[q] = queue[q]
  BY DEF TypeOK
<1>3. ASSUME NEW q \in Gen, NEW i \in 1..Len(queue[q])
      PROVE  queue[q][i] \in Call /\ queue[q][i] # c
  <2>1. queue[q] \in Seq(Call)
    BY DEF TypeOK
  <2> QED
    BY <2>1 DEF QueueInv
<1>4. queue' \in [Gen -> Seq(Call)]
  BY <1>1 DEF TypeOK
<1>5. ASSUME NEW q \in Gen, NEW i \in 1..Len(queue'[q])
      PROVE  /\ call'[queue'[q][i]].sess = q /\ call'[queue'[q][i]].pc \in {"queued", "waiting"}
             /\ i # 1 => call'[queue'[q][i]].pc = "queued"
  <2>1. CASE q = g /\ i = Len(queue[g]) + 1
    BY <2>1, <1>1
  <2>2. CASE ~(q = g /\ i = Len(queue[g]) + 1)
    <3>1. i \in 1..Len(queue[q]) /\ queue'[q][i] = queue[q][i]
      BY <2>2, <1>1, <1>2
    <3>2. call'[queue'[q][i]] = call[queue[q][i]]
      BY <3>1, <1>3
    <3> QED
      BY <3>1, <3>2 DEF QueueInv, Pending
  <2> QED
    BY <2>1, <2>2
<1>6. ASSUME NEW q \in Gen, NEW i \in 1..Len(queue'[q]), NEW j \in 1..Len(queue'[q]),
             queue'[q][i] = queue'[q][j]
      PROVE  i = j
  <2>1. CASE q = g
    BY <2>1, <1>1, <1>3, <1>6 DEF QueueInv
  <2>2. CASE q # g
    BY <2>2, <1>2, <1>6 DEF QueueInv
  <2> QED
    BY <2>1, <2>2
<1>7. ASSUME NEW d \in Call, call'[d].pc \in {"queued", "waiting"}
      PROVE  /\ call'[d].sess \in Gen
             /\ \E i \in 1..Len(queue'[call'[d].sess]) : queue'[call'[d].sess][i] = d
             /\ call'[d].op = "add" <=> call'[d].cmd = "Z0"
             /\ call'[d].pc = "waiting" => sstate'[call'[d].sess] = "waiting" /\ call'[d].cmd \in ExecOps
  <2>1. CASE d = c
    BY <2>1, <1>1
  <2>2. CASE d # c
    <3>1. call'[d] = call[d] /\ call[d].sess \in Gen
      BY <2>2, <1>7 DEF QueueInv, Pending
    <3>2. PICK i \in 1..Len(queue[call[d].sess]) : queue[call[d].sess][i] = d
      BY <3>1, <1>7 DEF QueueInv, Pending
    <3>3. i \in 1..Len(queue'[call[d].sess]) /\ queue'[call[d].sess][i] = d
      BY <3>1, <3>2, <1>1, <1>2
    <3> QED
      BY <3>1, <3>3, <1>7 DEF QueueInv, Pending
  <2> QED
    BY <2>1, <2>2
<1>8. \A q \in Gen : sstate'[q] = "waiting" => queue'[q] # <<>> /\ call'[queue'[q][1]].pc = "waiting"
  <2> SUFFICES ASSUME NEW q \in Gen, sstate[q] = "waiting"
               PROVE  queue'[q] # <<>> /\ call'[queue'[q][1]].pc = "waiting"
    OBVIOUS
  <2>1. queue[q] # <<>> /\ call[queue[q][1]].pc = "waiting" /\ Len(queue[q]) \in Nat \ {0}
    <3>1. queue[q] \in Seq(Call) /\ queue[q] # <<>>
      BY DEF QueueInv, TypeOK
    <3> QED
      BY <3>1 DEF QueueInv
  <2>2. queue'[q][1] = queue[q][1] /\ queue'[q] # <<>>
    BY <2>1, <1>1, <1>2
  <2>3. queue[q][1] \in Call /\ queue[q][1] # c
    BY <2>1, <1>3
  <2> QED
    BY <2>1, <2>2, <2>3
<1> QED
  BY <1>4, <1>5, <1>6, <1>7, <1>8 DEF QueueInv, Pending

(* The head of a chain ends. *)
LEMMA QueueEnd ==
  ASSUME TypeOK, QueueInv, NEW c \in Call, NEW g \in Gen, queue[g] # <<>>, Head(queue[g]) = c,
         queue' = [queue EXCEPT ![g] = Tail(@)],
         \A d \in Call : d # c => call'[d] = call[d],
         call'[c].pc = "done",
         sstate'[g] # "waiting",
         \A q \in Gen : q # g => (sstate'[q] = "waiting" <=> sstate[q] = "waiting")
  PROVE  QueueInv' /\ queue' \in [Gen -> Seq(Call)]
<1>1. /\ queue'[g] \in Seq(Call) /\ Len(queue'[g]) = Len(queue[g]) - 1
      /\ Len(queue[g]) \in Nat \ {0}
      /\ \A i \in 1..Len(queue'[g]) : queue'[g][i] = queue[g][i + 1]
      /\ queue[g][1] = c
  BY TailFacts DEF TypeOK
<1>2. \A q \in Gen : q # g => queue'[q] = queue[q]
  BY DEF TypeOK
<1>4. queue' \in [Gen -> Seq(Call)]
  BY <1>1 DEF TypeOK
<1>3. ASSUME NEW q \in Gen, NEW i \in 1..Len(queue'[q])
      PROVE  queue'[q][i] \in Call /\ queue'[q][i] # c
  <2>1. queue'[q] \in Seq(Call)
    BY <1>4
  <2>2. CASE q = g
    <3>1. queue'[g][i] = queue[g][i + 1] /\ i + 1 \in 1..Len(queue[g])
      BY <2>2, <1>1
    <3> QED
      BY <3>1, <2>1, <2>2, <1>1 DEF QueueInv
  <2>3. CASE q # g
    BY <2>1, <2>3, <1>1, <1>2 DEF QueueInv, Pending
  <2> QED
    BY <2>2, <2>3
<1>5. ASSUME NEW q \in Gen, NEW i \in 1..Len(queue'[q])
      PROVE  /\ call'[queue'[q][i]].sess = q /\ call'[queue'[q][i]].pc \in {"queued", "waiting"}
             /\ i # 1 => call'[queue'[q][i]].pc = "queued"
  <2>1. call'[queue'[q][i]] = call[queue'[q][i]]
    BY <1>3
  <2>2. CASE q = g
    <3>1. queue'[g][i] = queue[g][i + 1] /\ i + 1 \in 1..Len(queue[g])
      BY <2>2, <1>1
    <3> QED
      BY <3>1, <2>1, <2>2 DEF QueueInv, Pending
  <2>3. CASE q # g
    BY <2>1, <2>3, <1>2 DEF QueueInv, Pending
  <2> QED
    BY <2>2, <2>3
<1>6. ASSUME NEW q \in Gen, NEW i \in 1..Len(queue'[q]), NEW j \in 1..Len(queue'[q]),
             queue'[q][i] = queue'[q][j]
      PROVE  i = j
  <2>1. CASE q = g
    <3>1. queue[g][i + 1] = queue[g][j + 1] /\ i + 1 \in 1..Len(queue[g]) /\ j + 1 \in 1..Len(queue[g])
      BY <2>1, <1>1, <1>6
    <3>2. i + 1 = j + 1
      BY <3>1 DEF QueueInv
    <3> QED
      BY <3>2, <2>1, <1>1
  <2>2. CASE q # g
    BY <2>2, <1>2, <1>6 DEF QueueInv
  <2> QED
    BY <2>1, <2>2
<1>7. ASSUME NEW d \in Call, call'[d].pc \in {"queued", "waiting"}
      PROVE  /\ call'[d].sess \in Gen
             /\ \E i \in 1..Len(queue'[call'[d].sess]) : queue'[call'[d].sess][i] = d
             /\ call'[d].op = "add" <=> call'[d].cmd = "Z0"
             /\ call'[d].pc = "waiting" => sstate'[call'[d].sess] = "waiting" /\ call'[d].cmd \in ExecOps
  <2>1. d # c /\ call'[d] = call[d]
    BY <1>7
  <2>2. PICK i \in 1..Len(queue[call[d].sess]) : queue[call[d].sess][i] = d
    BY <1>7, <2>1 DEF QueueInv, Pending
  <2>3. CASE call[d].sess = g
    <3>1. i - 1 \in 1..Len(queue'[g]) /\ queue'[g][i - 1] = d
      BY <2>1, <2>2, <2>3, <1>1
    <3>2. call[d].pc = "queued"
      BY <2>1, <2>2, <2>3, <1>1 DEF QueueInv
    <3>3. call[d].op = "add" <=> call[d].cmd = "Z0"
      BY <2>1, <1>7 DEF QueueInv, Pending
    <3> QED
      BY <3>1, <3>2, <3>3, <2>1, <2>3
  <2>4. CASE call[d].sess # g
    BY <2>1, <2>2, <2>4, <1>2, <1>7 DEF QueueInv, Pending
  <2> QED
    BY <2>3, <2>4
<1>8. \A q \in Gen : sstate'[q] = "waiting" => queue'[q] # <<>> /\ call'[queue'[q][1]].pc = "waiting"
  <2> SUFFICES ASSUME NEW q \in Gen, q # g, sstate[q] = "waiting"
               PROVE  queue'[q] # <<>> /\ call'[queue'[q][1]].pc = "waiting"
    OBVIOUS
  <2>1. queue[q] # <<>> /\ call[queue[q][1]].pc = "waiting" /\ queue'[q] = queue[q]
    BY <1>2 DEF QueueInv
  <2>2. queue[q] \in Seq(Call)
    BY DEF TypeOK
  <2>3. queue[q][1] # c
    BY <2>1, <2>2, <1>3
  <2>4. queue[q][1] \in Call
    BY <2>1, <2>2
  <2> QED
    BY <2>1, <2>3, <2>4
<1> QED
  BY <1>4, <1>5, <1>6, <1>7, <1>8 DEF QueueInv, Pending

(* The head of a chain sends its next request, behind the others. *)
LEMMA QueueAgain ==
  ASSUME TypeOK, QueueInv, NEW c \in Call, NEW g \in Gen, queue[g] # <<>>, Head(queue[g]) = c,
         queue' = [queue EXCEPT ![g] = Append(Tail(@), c)],
         \A d \in Call : d # c => call'[d] = call[d],
         call'[c].sess = g, call'[c].pc = "queued",
         call'[c].op # "add", call'[c].cmd # "Z0",
         sstate'[g] # "waiting",
         \A q \in Gen : q # g => (sstate'[q] = "waiting" <=> sstate[q] = "waiting")
  PROVE  QueueInv' /\ queue' \in [Gen -> Seq(Call)]
<1>1. /\ queue'[g] \in Seq(Call) /\ Len(queue'[g]) = Len(queue[g])
      /\ \A i \in 1..(Len(queue[g]) - 1) : queue'[g][i] = queue[g][i + 1]
      /\ queue'[g][Len(queue[g])] = c
      /\ Len(queue[g]) \in Nat \ {0}
      /\ queue[g][1] = c
  BY RotateFacts, TailFacts DEF TypeOK
<1>2. \A q \in Gen : q # g => queue'[q] = queue[q]
  BY DEF TypeOK
<1>4. queue' \in [Gen -> Seq(Call)]
  BY <1>1 DEF TypeOK
<1>3. ASSUME NEW q \in Gen, NEW i \in 1..Len(queue'[q])
      PROVE  queue'[q][i] \in Call /\ (queue'[q][i] = c <=> q = g /\ i = Len(queue[g]))
  <2>1. queue'[q] \in Seq(Call)
    BY <1>4
  <2>2. CASE q = g /\ i = Len(queue[g])
    BY <2>1, <2>2, <1>1
  <2>3. CASE q = g /\ i # Len(queue[g])
    <3>1. queue'[g][i] = queue[g][i + 1] /\ i + 1 \in 1..Len(queue[g])
      BY <2>3, <1>1
    <3> QED
      BY <3>1, <2>1, <2>3, <1>1 DEF QueueInv
  <2>4. CASE q # g
    BY <2>1, <2>4, <1>1, <1>2 DEF QueueInv, Pending
  <2> QED
    BY <2>2, <2>3, <2>4
<1>5. ASSUME NEW q \in Gen, NEW i \in 1..Len(queue'[q])
      PROVE  /\ call'[queue'[q][i]].sess = q /\ call'[queue'[q][i]].pc \in {"queued", "waiting"}
             /\ i # 1 => call'[queue'[q][i]].pc = "queued"
  <2>1. CASE q = g /\ i = Len(queue[g])
    BY <2>1, <1>1
  <2>2. CASE q = g /\ i # Len(queue[g])
    <3>1. queue'[g][i] = queue[g][i + 1] /\ i + 1 \in 1..Len(queue[g])
      BY <2>2, <1>1
    <3>2. call'[queue'[g][i]] = call[queue'[g][i]]
      BY <2>2, <1>3
    <3> QED
      BY <3>1, <3>2, <2>2 DEF QueueInv, Pending
  <2>3. CASE q # g
    <3>1. call'[queue'[q][i]] = call[queue'[q][i]]
      BY <2>3, <1>3
    <3> QED
      BY <3>1, <2>3, <1>2 DEF QueueInv, Pending
  <2> QED
    BY <2>1, <2>2, <2>3
<1>6. ASSUME NEW q \in Gen, NEW i \in 1..Len(queue'[q]), NEW j \in 1..Len(queue'[q]),
             queue'[q][i] = queue'[q][j]
      PROVE  i = j
  <2>1. CASE q = g /\ (i = Len(queue[g]) \/ j = Len(queue[g]))
    BY <2>1, <1>3, <1>6
  <2>2. CASE q = g /\ i # Len(queue[g]) /\ j # Len(queue[g])
    <3>1. queue[g][i + 1] = queue[g][j + 1] /\ i + 1 \in 1..Len(queue[g]) /\ j + 1 \in 1..Len(queue[g])
      BY <2>2, <1>1, <1>6
    <3>2. i + 1 = j + 1
      BY <3>1 DEF QueueInv
    <3> QED
      BY <3>2, <2>2, <1>1
  <2>3. CASE q # g
    BY <2>3, <1>2, <1>6 DEF QueueInv
  <2> QED
    BY <2>1, <2>2, <2>3
<1>7. ASSUME NEW d \in Call, call'[d].pc \in {"queued", "waiting"}
      PROVE  /\ call'[d].sess \in Gen
             /\ \E i \in 1..Len(queue'[call'[d].sess]) : queue'[call'[d].sess][i] = d
             /\ call'[d].op = "add" <=> call'[d].cmd = "Z0"
             /\ call'[d].pc = "waiting" => sstate'[call'[d].sess] = "waiting" /\ call'[d].cmd \in ExecOps
  <2>0. CASE d = c
    BY <2>0, <1>1
  <2>1. CASE d # c
    <3>1. call'[d] = call[d] /\ call[d].sess \in Gen
      BY <2>1, <1>7 DEF QueueInv, Pending
    <3>2. PICK i \in 1..Len(queue[call[d].sess]) : queue[call[d].sess][i] = d
      BY <3>1, <1>7 DEF QueueInv, Pending
    <3>3. call[d].op = "add" <=> call[d].cmd = "Z0"
      BY <3>1, <1>7 DEF QueueInv, Pending
    <3>4. CASE call[d].sess = g
      <4>1. i - 1 \in 1..Len(queue'[g]) /\ queue'[g][i - 1] = d
        BY <2>1, <3>2, <3>4, <1>1
      <4>2. call[d].pc = "queued"
        BY <2>1, <1>7, <3>1, <3>2, <3>4, <1>1 DEF QueueInv
      <4> QED
        BY <4>1, <4>2, <3>1, <3>3, <3>4
    <3>5. CASE call[d].sess # g
      <4>1. i \in 1..Len(queue'[call[d].sess]) /\ queue'[call[d].sess][i] = d
        BY <3>1, <3>2, <3>5, <1>2
      <4>2. call[d].pc = "waiting" => sstate'[call[d].sess] = "waiting" /\ call[d].cmd \in ExecOps
        BY <3>1, <3>5 DEF QueueInv, Pending
      <4> QED
        BY <4>1, <4>2, <3>1, <3>3
    <3> QED
      BY <3>4, <3>5
  <2> QED
    BY <2>0, <2>1
<1>8. \A q \in Gen : sstate'[q] = "waiting" => queue'[q] # <<>> /\ call'[queue'[q][1]].pc = "waiting"
  <2> SUFFICES ASSUME NEW q \in Gen, q # g, sstate[q] = "waiting"
               PROVE  queue'[q] # <<>> /\ call'[queue'[q][1]].pc = "waiting"
    OBVIOUS
  <2>1. queue[q] # <<>> /\ call[queue[q][1]].pc = "waiting" /\ queue'[q] = queue[q]
    BY <1>2 DEF QueueInv
  <2>2. queue[q] \in Seq(Call)
    BY DEF TypeOK
  <2>3. queue[q][1] # c
    BY <2>1, <2>2, <1>3
  <2>4. queue[q][1] \in Call
    BY <2>1, <2>2
  <2> QED
    BY <2>1, <2>3, <2>4
<1> QED
  BY <1>4, <1>5, <1>6, <1>7, <1>8 DEF QueueInv, Pending

(* The head of a chain waits for a stop. *)
LEMMA QueueWaits ==
  ASSUME TypeOK, QueueInv, NEW c \in Call, NEW g \in Gen, queue[g] # <<>>, Head(queue[g]) = c,
         queue' = queue,
         \A d \in Call : d # c => call'[d] = call[d],
         call'[c].sess = g, call'[c].pc = "waiting",
         call'[c].op # "add", call'[c].cmd \in ExecOps,
         sstate'[g] = "waiting",
         \A q \in Gen : q # g => (sstate'[q] = "waiting" <=> sstate[q] = "waiting")
  PROVE  QueueInv' /\ queue' \in [Gen -> Seq(Call)]
<1>1. queue \in [Gen -> Seq(Call)] /\ 1 \in 1..Len(queue[g]) /\ queue[g][1] = c
  BY TailFacts DEF TypeOK
<1>2. ASSUME NEW q \in Gen, NEW i \in 1..Len(queue[q])
      PROVE  queue[q][i] \in Call /\ (queue[q][i] = c <=> q = g /\ i = 1)
  <2>1. queue[q] \in Seq(Call)
    BY DEF TypeOK
  <2> QED
    BY <2>1, <1>1 DEF QueueInv, Pending
<1>3. ASSUME NEW q \in Gen, NEW i \in 1..Len(queue[q])
      PROVE  /\ call'[queue[q][i]].sess = q /\ call'[queue[q][i]].pc \in {"queued", "waiting"}
             /\ i # 1 => call'[queue[q][i]].pc = "queued"
  BY <1>2 DEF QueueInv, Pending
<1>4. ASSUME NEW d \in Call, call'[d].pc \in {"queued", "waiting"}
      PROVE  /\ call'[d].sess \in Gen
             /\ \E i \in 1..Len(queue[call'[d].sess]) : queue[call'[d].sess][i] = d
             /\ call'[d].op = "add" <=> call'[d].cmd = "Z0"
             /\ call'[d].pc = "waiting" => sstate'[call'[d].sess] = "waiting" /\ call'[d].cmd \in ExecOps
  <2>1. CASE d = c
    BY <2>1, <1>1 DEF ExecOps
  <2>2. CASE d # c
    BY <2>2, <1>4 DEF QueueInv, Pending
  <2> QED
    BY <2>1, <2>2
<1>5. ASSUME NEW q \in Gen, sstate'[q] = "waiting"
      PROVE  queue[q] # <<>> /\ call'[queue[q][1]].pc = "waiting"
  <2>1. CASE q = g
    BY <2>1, <1>1
  <2>2. CASE q # g
    <3>1. queue[q] # <<>> /\ call[queue[q][1]].pc = "waiting"
      BY <2>2, <1>5 DEF QueueInv
    <3>2. queue[q] \in Seq(Call) /\ 1 \in 1..Len(queue[q])
      BY <3>1 DEF TypeOK
    <3> QED
      BY <3>1, <3>2, <2>2, <1>2
  <2> QED
    BY <2>1, <2>2
<1>6. \A q \in Gen : \A i, j \in 1..Len(queue'[q]) : queue'[q][i] = queue'[q][j] => i = j
  BY DEF QueueInv
<1> QED
  BY <1>1, <1>3, <1>4, <1>5, <1>6 DEF QueueInv, Pending

(* Nothing moves in the chains. *)
LEMMA QueueSame ==
  ASSUME QueueInv, queue' = queue, call' = call,
         \A q \in Gen : (sstate'[q] = "waiting" <=> sstate[q] = "waiting")
  PROVE  QueueInv'
BY DEF QueueInv, Pending

-----------------------------------------------------------------------------
(* The registry *)

SameSpot(b, d) == b.id = d.id /\ b.loc = d.loc

(* Taking a record back leaves the others as they are. *)
LEMMA WithoutFacts ==
  ASSUME RegistryOK, NEW id, registry' = Without(id), nextId' = nextId
  PROVE  /\ RegistryOK'
         /\ \A b \in registry' : b \in registry /\ b.id # id
         /\ \A b \in registry : b.id # id => b \in registry'
BY DEF RegistryOK, Without

(* The record of an acknowledged breakpoint becomes enabled; the others    *)
(* are left as they are.                                                   *)
LEMMA MarkFacts ==
  ASSUME RegistryOK, NEW r \in registry, MarkInstalled(r.id), nextId' = nextId
  PROVE  /\ RegistryOK'
         /\ \A b \in registry' : (b \in registry /\ b.id # r.id)
                                 \/ (SameSpot(b, r) /\ b.enabled /\ b.hits = r.hits)
         /\ \A b \in registry : b.id # r.id => b \in registry'
         /\ \E b \in registry' : SameSpot(b, r) /\ b.enabled
<1>1. Record(r.id) = r
  BY DEF Record, RegistryOK
<1> DEFINE m == [r EXCEPT !.enabled = TRUE]
<1>2. registry' = Without(r.id) \cup {m}
  BY <1>1 DEF MarkInstalled
<1>3. r \in [id : 1..(nextId - 1), loc : Loc, enabled : BOOLEAN, hits : Nat]
  BY DEF RegistryOK
<1>4. /\ m \in [id : 1..(nextId - 1), loc : Loc, enabled : BOOLEAN, hits : Nat]
      /\ m.id = r.id /\ m.loc = r.loc /\ m.enabled /\ m.hits = r.hits
  BY <1>3
<1> HIDE DEF m
<1>5. \A b \in registry' : (b \in registry /\ b.id # r.id) \/ b = m
  BY <1>2 DEF Without
<1>6. \A b, d \in registry' : b.id = d.id \/ b.loc = d.loc => b = d
  BY <1>4, <1>5 DEF RegistryOK
<1>7. RegistryOK'
  BY <1>4, <1>5, <1>6 DEF RegistryOK
<1>8. \A b \in registry : b.id # r.id => b \in registry'
  BY <1>2 DEF Without
<1> QED
  BY <1>2, <1>4, <1>5, <1>7, <1>8 DEF SameSpot

(* A hit adds one to the enabled record at its location, if there is one,  *)
(* and to no other.                                                        *)
LEMMA HitFacts ==
  ASSUME RegistryOK, NEW l, RecordHit(l), nextId' = nextId
  PROVE  /\ RegistryOK'
         /\ \A b \in registry' : \E d \in registry :
               /\ SameSpot(b, d) /\ b.enabled = d.enabled
               /\ b.hits = d.hits \/ (b.loc = l /\ b.hits = d.hits + 1)
         /\ \A d \in registry : \E b \in registry' :
               SameSpot(b, d) /\ b.enabled = d.enabled /\ (d.enabled \/ b = d)
<1>1. CASE ActiveAt(l) = {}
  <2>1. registry' = registry
    BY <1>1 DEF RecordHit
  <2> QED
    BY <2>1 DEF RegistryOK, SameSpot
<1>2. CASE ActiveAt(l) # {}
  <2> DEFINE r == CHOOSE x \in ActiveAt(l) : TRUE
             m == [r EXCEPT !.hits = @ + 1]
  <2>1. r \in registry /\ r.enabled /\ r.loc = l
    BY <1>2 DEF ActiveAt
  <2>2. registry' = Without(r.id) \cup {m}
    BY <1>2 DEF RecordHit
  <2>3. r \in [id : 1..(nextId - 1), loc : Loc, enabled : BOOLEAN, hits : Nat]
    BY <2>1 DEF RegistryOK
  <2> HIDE DEF r
  <2>4. /\ m \in [id : 1..(nextId - 1), loc : Loc, enabled : BOOLEAN, hits : Nat]
        /\ m.id = r.id /\ m.loc = l /\ m.enabled = r.enabled /\ m.hits = r.hits + 1
    <3>1. r.hits \in Nat /\ r.hits + 1 \in Nat
      BY <2>3
    <3>2. m.id = r.id /\ m.loc = l /\ m.enabled = r.enabled /\ m.hits = r.hits + 1
      BY <2>1, <2>3
    <3>3. m \in [id : 1..(nextId - 1), loc : Loc, enabled : BOOLEAN, hits : Nat]
      BY <2>3, <3>1
    <3> QED
      BY <3>2, <3>3
  <2> HIDE DEF m
  <2>5. \A b \in registry' : (b \in registry /\ b.id # r.id) \/ b = m
    BY <2>2 DEF Without
  <2>6. \A b, d \in registry' : b.id = d.id \/ b.loc = d.loc => b = d
    BY <2>1, <2>4, <2>5 DEF RegistryOK
  <2>7. RegistryOK'
    BY <2>4, <2>5, <2>6 DEF RegistryOK
  <2>8. \A d \in registry : d.id # r.id => d \in registry'
    BY <2>2 DEF Without
  <2>9. m \in registry' /\ \A d \in registry : d.id = r.id => d = r
    BY <2>1, <2>2 DEF RegistryOK
  <2> QED
    BY <2>1, <2>4, <2>5, <2>7, <2>8, <2>9 DEF SameSpot
<1> QED
  BY <1>1, <1>2

(* A new record takes an id and a location nobody has. *)
LEMMA AddFacts ==
  ASSUME RegistryOK, NEW l \in Loc, CanAdd(l),
         registry' = registry \cup {NewRecord(l)}, nextId' = nextId + 1
  PROVE  /\ RegistryOK'
         /\ \E b \in registry' : b.id = nextId /\ b.loc = l /\ ~b.enabled
         /\ \A b \in registry' : b \in registry \/ (b.id = nextId /\ b.loc = l /\ ~b.enabled /\ b.hits = 0)
<1> DEFINE m == NewRecord(l)
<1>1. m.id = nextId /\ m.loc = l /\ m.enabled = FALSE /\ m.hits = 0
  BY DEF NewRecord
<1>2. m \in [id : 1..nextId, loc : Loc, enabled : BOOLEAN, hits : Nat]
  BY DEF NewRecord, RegistryOK
<1>3. m \in registry' /\ \A b \in registry' : b \in registry \/ b = m
  OBVIOUS
<1> HIDE DEF m
<1>4. \A b \in registry : /\ b \in [id : 1..nextId, loc : Loc, enabled : BOOLEAN, hits : Nat]
                          /\ b.id # nextId /\ b.loc # l
  BY DEF RegistryOK, CanAdd
<1>5. nextId' - 1 = nextId /\ nextId' \in Nat \ {0}
  BY DEF RegistryOK
<1>6. \A b, d \in registry' : b.id = d.id \/ b.loc = d.loc => b = d
  BY <1>1, <1>3, <1>4 DEF RegistryOK
<1>7. \A b \in registry' : b \in [id : 1..(nextId' - 1), loc : Loc, enabled : BOOLEAN, hits : Nat]
  BY <1>2, <1>3, <1>4, <1>5
<1> QED
  BY <1>1, <1>3, <1>5, <1>6, <1>7 DEF RegistryOK

-----------------------------------------------------------------------------
(* The order of the current chain *)

(* It survives every step that takes at most the head of the chain away,   *)
(* adds nothing to it but a read of the registers, leaves the places of    *)
(* the records alone, and removes no record that is not enabled but the    *)
(* one of the head.                                                        *)
LEMMA OrderKept ==
  ASSUME RegistryOK, OrderInv, gen # 0, gen' = gen, nextId' = nextId, RegistryOK',
         NEW k \in {0, 1}, Len(queue[gen]) \in Nat, Len(queue'[gen]) \in Nat,
         \A i \in Places' : Place(i)'.cmd \in {"Z0", "z0"} =>
            i + k \in Places /\ Place(i)'.cmd = Place(i + k).cmd
            /\ Place(i)'.id = Place(i + k).id /\ Place(i)'.loc = Place(i + k).loc,
         \A j \in Places : j > k /\ Place(j).cmd = "Z0" =>
            j - k \in Places' /\ Place(j - k)'.cmd = "Z0" /\ Place(j - k)'.id = Place(j).id,
         \A b \in registry' : \E d \in registry : SameSpot(b, d),
         \A d \in registry : d.enabled \/ d \in registry'
            \/ (k = 1 /\ 1 \in Places /\ Place(1).cmd \in {"Z0", "z0"} /\ Place(1).id = d.id)
  PROVE  OrderInv'
<1> SUFFICES ASSUME NEW i \in Places', Place(i)'.cmd \in {"Z0", "z0"}
             PROVE  /\ Place(i)'.id \in 1..(nextId' - 1) /\ Place(i)'.loc \in Loc
                    /\ Place(i)'.cmd = "Z0" =>
                        /\ \E b \in registry' : b.id = Place(i)'.id /\ b.loc = Place(i)'.loc /\ ~b.enabled
                        /\ \A j \in Places' : Place(j)'.id = Place(i)'.id =>
                             (Place(j)'.cmd = "z0" => i < j) /\ (Place(j)'.cmd = "Z0" => i = j)
                    /\ Place(i)'.cmd = "z0" => \A b \in registry' :
                        /\ b.id = Place(i)'.id => b.loc = Place(i)'.loc
                        /\ b.loc = Place(i)'.loc /\ b.id # Place(i)'.id =>
                             \E j \in Places' : i < j /\ Place(j)'.cmd = "Z0" /\ Place(j)'.id = b.id
  BY DEF OrderInv
<1>1. /\ i + k \in Places /\ Place(i)'.cmd = Place(i + k).cmd
      /\ Place(i)'.id = Place(i + k).id /\ Place(i)'.loc = Place(i + k).loc
      /\ i \in Nat \ {0}
  BY DEF Places
<1>2. Place(i)'.id \in 1..(nextId' - 1) /\ Place(i)'.loc \in Loc
  BY <1>1 DEF OrderInv
<1>3. ASSUME Place(i)'.cmd = "Z0"
      PROVE  \E b \in registry' : b.id = Place(i)'.id /\ b.loc = Place(i)'.loc /\ ~b.enabled
  <2>1. PICK b \in registry : b.id = Place(i + k).id /\ b.loc = Place(i + k).loc /\ ~b.enabled
    BY <1>1, <1>3 DEF OrderInv
  <2>2. ASSUME k = 1, 1 \in Places, Place(1).cmd \in {"Z0", "z0"}, Place(1).id = b.id
        PROVE  FALSE
    <3>1. i + k > 1
      BY <1>1, <2>2
    <3> QED
      BY <1>1, <1>3, <2>1, <2>2, <3>1 DEF OrderInv
  <2> QED
    BY <1>1, <2>1, <2>2
<1>4. ASSUME Place(i)'.cmd = "Z0", NEW j \in Places', Place(j)'.id = Place(i)'.id,
             Place(j)'.cmd \in {"Z0", "z0"}
      PROVE  (Place(j)'.cmd = "z0" => i < j) /\ (Place(j)'.cmd = "Z0" => i = j)
  <2>1. /\ j + k \in Places /\ Place(j)'.cmd = Place(j + k).cmd
        /\ Place(j)'.id = Place(j + k).id /\ j \in Nat
    BY <1>4 DEF Places
  <2>2. (Place(j)'.cmd = "z0" => i + k < j + k) /\ (Place(j)'.cmd = "Z0" => i + k = j + k)
    BY <1>1, <1>4, <2>1 DEF OrderInv
  <2> QED
    BY <1>1, <2>1, <2>2
<1>5. ASSUME Place(i)'.cmd = "z0", NEW b \in registry'
      PROVE  /\ b.id = Place(i)'.id => b.loc = Place(i)'.loc
             /\ b.loc = Place(i)'.loc /\ b.id # Place(i)'.id =>
                   \E j \in Places' : i < j /\ Place(j)'.cmd = "Z0" /\ Place(j)'.id = b.id
  <2>1. PICK d \in registry : SameSpot(b, d)
    OBVIOUS
  <2>2. b.id = Place(i)'.id => b.loc = Place(i)'.loc
    BY <1>1, <1>5, <2>1 DEF OrderInv, SameSpot
  <2>3. ASSUME b.loc = Place(i)'.loc, b.id # Place(i)'.id
        PROVE  \E j \in Places' : i < j /\ Place(j)'.cmd = "Z0" /\ Place(j)'.id = b.id
    <3>1. PICK j \in Places : i + k < j /\ Place(j).cmd = "Z0" /\ Place(j).id = b.id
      BY <1>1, <1>5, <2>1, <2>3 DEF OrderInv, SameSpot
    <3>2. j > k /\ i < j - k
      BY <1>1, <3>1 DEF Places
    <3>3. j - k \in Places' /\ Place(j - k)'.cmd = "Z0" /\ Place(j - k)'.id = Place(j).id
      BY <3>1, <3>2
    <3> QED
      BY <3>1, <3>2, <3>3
  <2> QED
    BY <2>2, <2>3
<1> QED
  BY <1>2, <1>3, <1>4, <1>5

(* An add joins last, with an id nobody has. *)
LEMMA OrderAdd ==
  ASSUME RegistryOK, OrderInv, gen # 0, gen' = gen, nextId' = nextId + 1,
         NEW n \in Nat, NEW l \in Loc, Places = 1..n, Places' = 1..(n + 1),
         \A i \in Places : Place(i)' = Place(i),
         Place(n + 1)'.cmd = "Z0", Place(n + 1)'.id = nextId, Place(n + 1)'.loc = l,
         \E b \in registry' : b.id = nextId /\ b.loc = l /\ ~b.enabled,
         \A b \in registry' : b \in registry \/ (b.id = nextId /\ b.loc = l),
         registry \subseteq registry'
  PROVE  OrderInv'
<1>1. \A i \in Places' : i \in Places \/ i = n + 1
  OBVIOUS
<1>2. n + 1 \in Places' /\ nextId \in Nat \ {0} /\ nextId \in 1..(nextId' - 1)
  BY DEF RegistryOK
<1>3. ASSUME NEW i \in Places, Place(i).cmd \in {"Z0", "z0"}
      PROVE  Place(i).id \in 1..(nextId - 1) /\ Place(i).id # nextId /\ Place(i).loc \in Loc
  BY <1>2, <1>3 DEF OrderInv
<1>4. \A i \in Places' : Place(i)'.cmd \in {"Z0", "z0"} =>
         Place(i)'.id \in 1..(nextId' - 1) /\ Place(i)'.loc \in Loc
  BY <1>1, <1>2, <1>3
<1>5. ASSUME NEW i \in Places', Place(i)'.cmd = "Z0"
      PROVE  \E b \in registry' : b.id = Place(i)'.id /\ b.loc = Place(i)'.loc /\ ~b.enabled
  <2>1. CASE i = n + 1
    BY <2>1
  <2>2. CASE i \in Places
    BY <2>2, <1>5 DEF OrderInv
  <2> QED
    BY <1>1, <2>1, <2>2
<1>6. ASSUME NEW i \in Places', Place(i)'.cmd = "Z0", NEW j \in Places',
             Place(j)'.id = Place(i)'.id, Place(j)'.cmd \in {"Z0", "z0"}
      PROVE  (Place(j)'.cmd = "z0" => i < j) /\ (Place(j)'.cmd = "Z0" => i = j)
  <2>1. CASE i \in Places /\ j \in Places
    BY <2>1, <1>6 DEF OrderInv
  <2>2. CASE i = n + 1 /\ j = n + 1
    BY <2>2, <1>2
  <2>3. CASE (i = n + 1 /\ j \in Places) \/ (i \in Places /\ j = n + 1)
    BY <2>3, <1>3, <1>6
  <2> QED
    BY <1>1, <2>1, <2>2, <2>3
<1>7. ASSUME NEW i \in Places', Place(i)'.cmd = "z0", NEW b \in registry'
      PROVE  /\ b.id = Place(i)'.id => b.loc = Place(i)'.loc
             /\ b.loc = Place(i)'.loc /\ b.id # Place(i)'.id =>
                   \E j \in Places' : i < j /\ Place(j)'.cmd = "Z0" /\ Place(j)'.id = b.id
  <2>1. i \in Places /\ Place(i)' = Place(i) /\ i < n + 1
    BY <1>1, <1>7
  <2>2. CASE b \in registry
    <3>1. b.id = Place(i)'.id => b.loc = Place(i)'.loc
      BY <2>1, <2>2, <1>7 DEF OrderInv
    <3>2. ASSUME b.loc = Place(i)'.loc, b.id # Place(i)'.id
          PROVE  \E j \in Places' : i < j /\ Place(j)'.cmd = "Z0" /\ Place(j)'.id = b.id
      <4>1. PICK j \in Places : i < j /\ Place(j).cmd = "Z0" /\ Place(j).id = b.id
        BY <2>1, <2>2, <3>2, <1>7 DEF OrderInv
      <4> QED
        BY <4>1
    <3> QED
      BY <3>1, <3>2
  <2>3. CASE b.id = nextId /\ b.loc = l
    BY <2>1, <2>3, <1>2, <1>3, <1>7
  <2> QED
    BY <2>2, <2>3
<1> QED
  BY <1>4, <1>5, <1>6, <1>7 DEF OrderInv

(* A removal of a registered breakpoint joins last. *)
LEMMA OrderRemove ==
  ASSUME RegistryOK, OrderInv, gen # 0, gen' = gen, nextId' = nextId, registry' = registry,
         NEW n \in Nat, NEW r \in registry, Places = 1..n, Places' = 1..(n + 1),
         \A i \in Places : Place(i)' = Place(i),
         Place(n + 1)'.cmd = "z0", Place(n + 1)'.id = r.id, Place(n + 1)'.loc = r.loc
  PROVE  OrderInv'
<1>1. \A i \in Places' : i \in Places \/ i = n + 1
  OBVIOUS
<1>2. /\ r.id \in 1..(nextId - 1) /\ r.loc \in Loc
      /\ \A b \in registry : b.id = r.id \/ b.loc = r.loc => b = r
  BY DEF RegistryOK
<1>3. \A i \in Places' : Place(i)'.cmd \in {"Z0", "z0"} =>
         Place(i)'.id \in 1..(nextId' - 1) /\ Place(i)'.loc \in Loc
  BY <1>1, <1>2 DEF OrderInv
<1>4. ASSUME NEW i \in Places', Place(i)'.cmd = "Z0"
      PROVE  /\ i \in Places
             /\ \E b \in registry' : b.id = Place(i)'.id /\ b.loc = Place(i)'.loc /\ ~b.enabled
  <2>1. i \in Places
    BY <1>1, <1>4
  <2> QED
    BY <2>1, <1>4 DEF OrderInv
<1>5. ASSUME NEW i \in Places', Place(i)'.cmd = "Z0", NEW j \in Places',
             Place(j)'.id = Place(i)'.id
      PROVE  (Place(j)'.cmd = "z0" => i < j) /\ (Place(j)'.cmd = "Z0" => i = j)
  <2>1. CASE j \in Places
    BY <2>1, <1>4, <1>5 DEF OrderInv
  <2>2. CASE j = n + 1
    BY <2>2, <1>4, <1>5
  <2> QED
    BY <1>1, <2>1, <2>2
<1>6. ASSUME NEW i \in Places', Place(i)'.cmd = "z0", NEW b \in registry'
      PROVE  /\ b.id = Place(i)'.id => b.loc = Place(i)'.loc
             /\ b.loc = Place(i)'.loc /\ b.id # Place(i)'.id =>
                   \E j \in Places' : i < j /\ Place(j)'.cmd = "Z0" /\ Place(j)'.id = b.id
  <2>1. CASE i \in Places
    <3>1. b.id = Place(i)'.id => b.loc = Place(i)'.loc
      BY <2>1, <1>6 DEF OrderInv
    <3>2. ASSUME b.loc = Place(i)'.loc, b.id # Place(i)'.id
          PROVE  \E j \in Places' : i < j /\ Place(j)'.cmd = "Z0" /\ Place(j)'.id = b.id
      <4>1. PICK j \in Places : i < j /\ Place(j).cmd = "Z0" /\ Place(j).id = b.id
        BY <2>1, <3>2, <1>6 DEF OrderInv
      <4> QED
        BY <4>1
    <3> QED
      BY <3>1, <3>2
  <2>2. CASE i = n + 1
    BY <2>2, <1>2, <1>6
  <2> QED
    BY <1>1, <2>1, <2>2
<1> QED
  BY <1>3, <1>4, <1>5, <1>6 DEF OrderInv

-----------------------------------------------------------------------------
(* Steps of a chain, on all that the chain is part of *)

(* The calls are served by the current session. *)
LEMMA HeadIsCurrent ==
  ASSUME GenInv, gen # 0, NEW g \in Gen, queue[g] # <<>>
  PROVE  g = gen
BY DEF GenInv

LEMMA HeadPlace ==
  ASSUME TypeOK, QueueInv, gen # 0, queue[gen] # <<>>
  PROVE  /\ gen \in Gen /\ 1 \in Places /\ Head(queue[gen]) \in Call
         /\ Place(1) = call[Head(queue[gen])]
         /\ Pending(Head(queue[gen])) /\ call[Head(queue[gen])].sess = gen
<1>1. gen \in Gen /\ queue[gen] \in Seq(Call)
  BY DEF TypeOK
<1>2. 1 \in 1..Len(queue[gen]) /\ queue[gen][1] = Head(queue[gen]) /\ Head(queue[gen]) \in Call
  BY <1>1, TailFacts
<1> QED
  BY <1>1, <1>2 DEF Places, Place, QueueInv

(* The head of the current chain ends, or reads the registers. *)
LEMMA HeadLeaves ==
  ASSUME Base, gen # 0, gen' = gen, nextId' = nextId, RegistryOK',
         NEW c \in Call, queue[gen] # <<>>, Head(queue[gen]) = c,
         \A d \in Call : d # c => call'[d] = call[d],
         \/ queue' = [queue EXCEPT ![gen] = Tail(@)] /\ call'[c].pc = "done"
         \/ /\ queue' = [queue EXCEPT ![gen] = Append(Tail(@), c)]
            /\ call'[c].sess = gen /\ call'[c].pc = "queued"
            /\ call'[c].op # "add" /\ call'[c].cmd = "g",
         sstate'[gen] # "waiting",
         \A q \in Gen : q # gen => (sstate'[q] = "waiting" <=> sstate[q] = "waiting"),
         \A b \in registry' : \E d \in registry : SameSpot(b, d),
         \A d \in registry : d.enabled \/ d \in registry'
            \/ (call[c].cmd \in {"Z0", "z0"} /\ call[c].id = d.id)
  PROVE  QueueInv' /\ OrderInv' /\ queue' \in [Gen -> Seq(Call)]
<1>1. /\ gen \in Gen /\ queue \in [Gen -> Seq(Call)] /\ queue[gen] \in Seq(Call)
      /\ 1 \in Places /\ Place(1) = call[c]
  BY HeadPlace DEF Base, TypeOK
<1>2. QueueInv' /\ queue' \in [Gen -> Seq(Call)]
  <2>1. CASE queue' = [queue EXCEPT ![gen] = Tail(@)] /\ call'[c].pc = "done"
    BY <1>1, <2>1, QueueEnd DEF Base
  <2>2. CASE queue' = [queue EXCEPT ![gen] = Append(Tail(@), c)] /\ call'[c].pc # "done"
    BY <1>1, <2>2, QueueAgain DEF Base
  <2> QED
    BY <2>1, <2>2
<1>3. Len(queue[gen]) \in Nat \ {0} /\ Len(queue'[gen]) \in Nat
  BY <1>1, <1>2
<1>4. \A i \in Places : queue[gen][i] \in Call /\ (i # 1 => queue[gen][i] # c)
  <2>1. queue[gen][1] = c
    BY <1>1, TailFacts
  <2>2. \A i \in Places : queue[gen][i] \in Call
    BY <1>1 DEF Places
  <2>3. \A i, j \in Places : queue[gen][i] = queue[gen][j] => i = j
    BY <1>1 DEF Places, Base, QueueInv
  <2> QED
    BY <1>1, <2>1, <2>2, <2>3
<1>5. ASSUME NEW j \in Places, j > 1
      PROVE  j - 1 \in Places' /\ Place(j - 1)' = Place(j)
  <2>1. j - 1 \in 1..Len(queue'[gen]) /\ queue'[gen][j - 1] = queue[gen][j]
    <3>1. CASE queue' = [queue EXCEPT ![gen] = Tail(@)]
      BY <1>1, <3>1, <1>5, TailFacts DEF Places
    <3>2. CASE queue' = [queue EXCEPT ![gen] = Append(Tail(@), c)]
      <4>1. /\ Len(queue'[gen]) = Len(queue[gen])
            /\ \A i \in 1..(Len(queue[gen]) - 1) : queue'[gen][i] = queue[gen][i + 1]
        BY <1>1, <3>2, RotateFacts
      <4> QED
        BY <4>1, <1>3, <1>5 DEF Places
    <3> QED
      BY <3>1, <3>2
  <2>2. call'[queue[gen][j]] = call[queue[gen][j]]
    BY <1>4, <1>5
  <2> QED
    BY <2>1, <2>2 DEF Places, Place
<1>6. ASSUME NEW i \in Places', Place(i)'.cmd \in {"Z0", "z0"}
      PROVE  i + 1 \in Places
  <2>1. CASE queue' = [queue EXCEPT ![gen] = Tail(@)]
    BY <1>1, <2>1, TailFacts DEF Places
  <2>2. CASE queue' = [queue EXCEPT ![gen] = Append(Tail(@), c)] /\ call'[c].cmd = "g"
    <3>1. Len(queue'[gen]) = Len(queue[gen]) /\ queue'[gen][Len(queue[gen])] = c
      BY <1>1, <2>2, RotateFacts
    <3>2. i # Len(queue[gen])
      BY <3>1, <2>2, <1>6 DEF Place
    <3> QED
      BY <3>1, <3>2, <1>3 DEF Places
  <2> QED
    BY <2>1, <2>2
<1>7. \A i \in Places' : Place(i)'.cmd \in {"Z0", "z0"} => i + 1 \in Places /\ Place(i)' = Place(i + 1)
  <2> SUFFICES ASSUME NEW i \in Places', Place(i)'.cmd \in {"Z0", "z0"}
               PROVE  i + 1 \in Places /\ Place(i)' = Place(i + 1)
    OBVIOUS
  <2>1. i + 1 \in Places /\ i + 1 > 1 /\ (i + 1) - 1 = i
    BY <1>6, <1>3 DEF Places
  <2> QED
    BY <2>1, <1>5
<1>8. OrderInv'
  BY <1>1, <1>3, <1>5, <1>7, OrderKept DEF Base, TypeOK
<1> QED
  BY <1>2, <1>8

(* The current chain stays as it is; its head may begin to wait. *)
LEMMA HeadStays ==
  ASSUME Base, gen # 0, gen' = gen, nextId' = nextId, registry' = registry, queue' = queue,
         \A d \in Call : call'[d].cmd = call[d].cmd /\ call'[d].id = call[d].id /\ call'[d].loc = call[d].loc
  PROVE  OrderInv'
<1>1. gen \in Gen /\ queue[gen] \in Seq(Call) /\ Len(queue[gen]) \in Nat /\ Places' = Places
  BY DEF Base, TypeOK, Places
<1>2. \A i \in Places : /\ Place(i)'.cmd = Place(i).cmd /\ Place(i)'.id = Place(i).id
                        /\ Place(i)'.loc = Place(i).loc
                        /\ i + 0 = i /\ i - 0 = i
  BY <1>1 DEF Places, Place
<1>3. RegistryOK'
  BY DEF Base, TypeOK, RegistryOK
<1> QED
  BY <1>1, <1>2, <1>3, OrderKept DEF Base, TypeOK, SameSpot

(* A call joins the current chain. *)
LEMMA CallJoins ==
  ASSUME Base, gen # 0, gen' = gen, NEW c \in Call, call[c].pc = "idle",
         NEW r \in CallRecord, Enqueue(c, gen, r),
         r.sess = gen, r.pc = "queued", r.op = "add" <=> r.cmd = "Z0",
         \A q \in Gen : (sstate'[q] = "waiting" <=> sstate[q] = "waiting")
  PROVE  /\ QueueInv' /\ queue' \in [Gen -> Seq(Call)] /\ call' \in [Call -> CallRecord]
         /\ \E n \in Nat : /\ Places = 1..n /\ Places' = 1..(n + 1)
                           /\ \A i \in Places : Place(i)' = Place(i)
                           /\ Place(n + 1)' = r
<1>1. /\ gen \in Gen /\ queue \in [Gen -> Seq(Call)] /\ queue[gen] \in Seq(Call)
      /\ call \in [Call -> CallRecord]
  BY DEF Base, TypeOK
<1>2. call' \in [Call -> CallRecord] /\ call'[c] = r /\ \A d \in Call : d # c => call'[d] = call[d]
  BY <1>1 DEF Enqueue
<1>3. QueueInv' /\ queue' \in [Gen -> Seq(Call)]
  BY <1>1, <1>2, QueueJoin DEF Base, Enqueue, Pending
<1>4. /\ Len(queue'[gen]) = Len(queue[gen]) + 1 /\ Len(queue[gen]) \in Nat
      /\ \A i \in 1..Len(queue[gen]) : queue'[gen][i] = queue[gen][i]
      /\ queue'[gen][Len(queue[gen]) + 1] = c
  BY <1>1, AppendFacts DEF Enqueue
<1>5. \A i \in Places : queue[gen][i] \in Call /\ queue[gen][i] # c
  BY <1>1 DEF Places, Base, QueueInv, Pending
<1>6. Places = 1..Len(queue[gen]) /\ Places' = 1..(Len(queue[gen]) + 1)
  BY <1>4 DEF Places
<1>8. ASSUME NEW n, n = Len(queue[gen])
      PROVE  Place(n + 1)' = r
  BY <1>2, <1>4, <1>8 DEF Place
<1>7. ASSUME NEW i \in Places
      PROVE  Place(i)' = Place(i)
  <2>1. queue'[gen][i] = queue[gen][i]
    BY <1>4 DEF Places
  <2>2. call'[queue[gen][i]] = call[queue[gen][i]]
    BY <1>2, <1>5
  <2> QED
    BY <2>1, <2>2 DEF Place
<1> QED
  BY <1>2, <1>3, <1>4, <1>6, <1>7, <1>8

-----------------------------------------------------------------------------
(* Base is inductive *)

LEMMA AddBase ==
  ASSUME Base, NEW c \in Call, NEW l \in Loc, AddBreakpoint(c, l), UNCHANGED awaiting
  PROVE  Base'
<1> DEFINE r == NewCall("add", "Z0", nextId, l, 0)
<1>1. /\ call[c].pc = "idle" /\ gen # 0 /\ gen \in Gen /\ nextId \in Nat
      /\ registry' = registry \cup {NewRecord(l)} /\ nextId' = nextId + 1 /\ CanAdd(l)
      /\ Enqueue(c, gen, r)
      /\ UNCHANGED <<gen, ranges, lastStop, sstate, stopQueued, emulator>>
  BY DEF AddBreakpoint, Begin, Base, TypeOK, RegistryOK
<1>2. /\ r \in CallRecord /\ r.sess = gen /\ r.pc = "queued" /\ r.op = "add" /\ r.cmd = "Z0"
      /\ r.id = nextId /\ r.loc = l
  BY <1>1, BoundAssumption DEF NewCall, CallRecord
<1> HIDE DEF r
<1>3. /\ RegistryOK'
      /\ \E b \in registry' : b.id = nextId /\ b.loc = l /\ ~b.enabled
      /\ \A b \in registry' : b \in registry \/ (b.id = nextId /\ b.loc = l)
  BY <1>1, AddFacts DEF Base, TypeOK
<1>4. /\ QueueInv' /\ queue' \in [Gen -> Seq(Call)] /\ call' \in [Call -> CallRecord]
      /\ \E n \in Nat : /\ Places = 1..n /\ Places' = 1..(n + 1)
                        /\ \A i \in Places : Place(i)' = Place(i)
                        /\ Place(n + 1)' = r
  BY <1>1, <1>2, CallJoins
<1>5. OrderInv'
  <2>1. PICK n \in Nat : /\ Places = 1..n /\ Places' = 1..(n + 1)
                         /\ \A i \in Places : Place(i)' = Place(i)
                         /\ Place(n + 1)' = r
    BY <1>4
  <2>2. Place(n + 1)'.cmd = "Z0" /\ Place(n + 1)'.id = nextId /\ Place(n + 1)'.loc = l
    BY <2>1, <1>2
  <2> QED
    BY <1>1, <1>3, <2>1, <2>2, OrderAdd DEF Base, TypeOK
<1>6. TypeOK'
  BY <1>1, <1>3, <1>4 DEF Base, TypeOK, emulator
<1>7. GenInv'
  <2>1. \A q \in Gen : q # gen => queue'[q] = queue[q]
    BY <1>1 DEF Enqueue, Base, TypeOK
  <2> QED
    BY <1>1, <2>1 DEF Base, GenInv, emulator
<1> QED
  BY <1>4, <1>5, <1>6, <1>7 DEF Base

LEMMA RemoveBase ==
  ASSUME Base, NEW c \in Call, NEW b \in registry, RemoveBreakpoint(c, b), UNCHANGED awaiting
  PROVE  Base'
<1> DEFINE r == NewCall("remove", "z0", b.id, b.loc, 0)
<1>1. /\ call[c].pc = "idle" /\ gen # 0 /\ gen \in Gen
      /\ Enqueue(c, gen, r)
      /\ UNCHANGED <<ctrl, sstate, stopQueued, emulator>>
  BY DEF RemoveBreakpoint, Begin, Base, TypeOK
<1>2. /\ r \in CallRecord /\ r.sess = gen /\ r.pc = "queued" /\ r.op = "remove" /\ r.cmd = "z0"
      /\ r.id = b.id /\ r.loc = b.loc
  <2>1. b.id \in Nat /\ b.loc \in Loc
    BY DEF Base, TypeOK, RegistryOK
  <2> QED
    BY <1>1, <2>1, BoundAssumption DEF NewCall, CallRecord
<1> HIDE DEF r
<1>4. /\ QueueInv' /\ queue' \in [Gen -> Seq(Call)] /\ call' \in [Call -> CallRecord]
      /\ \E n \in Nat : /\ Places = 1..n /\ Places' = 1..(n + 1)
                        /\ \A i \in Places : Place(i)' = Place(i)
                        /\ Place(n + 1)' = r
  BY <1>1, <1>2, CallJoins DEF ctrl
<1>5. OrderInv'
  <2>1. PICK n \in Nat : /\ Places = 1..n /\ Places' = 1..(n + 1)
                         /\ \A i \in Places : Place(i)' = Place(i)
                         /\ Place(n + 1)' = r
    BY <1>4
  <2>2. Place(n + 1)'.cmd = "z0" /\ Place(n + 1)'.id = b.id /\ Place(n + 1)'.loc = b.loc
    BY <2>1, <1>2
  <2>3. UNCHANGED <<gen, registry, nextId>>
    BY <1>1 DEF ctrl
  <2> QED
    BY <1>1, <2>1, <2>2, <2>3, OrderRemove DEF Base, TypeOK
<1>6. TypeOK'
  BY <1>1, <1>4 DEF Base, TypeOK, RegistryOK, ctrl, emulator
<1>7. GenInv'
  <2>1. \A q \in Gen : q # gen => queue'[q] = queue[q]
    BY <1>1 DEF Enqueue, Base, TypeOK
  <2> QED
    BY <1>1, <2>1 DEF Base, GenInv, ctrl, emulator
<1> QED
  BY <1>4, <1>5, <1>6, <1>7 DEF Base

(* A call that neither inserts nor deletes a breakpoint. *)
LEMMA OtherJoins ==
  ASSUME Base, NEW c \in Call, NEW r \in CallRecord, call[c].pc = "idle", gen # 0,
         Enqueue(c, gen, r), r.sess = gen, r.pc = "queued",
         r.op # "add", r.cmd \notin {"Z0", "z0"},
         \/ sstate' = sstate
         \/ sstate[gen] # "waiting" /\ sstate' = [sstate EXCEPT ![gen] = "stopped"],
         UNCHANGED <<ctrl, stopQueued, emulator, awaiting>>
  PROVE  Base'
<1>1. gen \in Gen /\ UNCHANGED <<gen, registry, nextId>>
  BY DEF Base, TypeOK, ctrl
<1>2. /\ sstate' \in [Gen -> {"unavailable", "stopped", "running", "waiting"}]
      /\ \A q \in Gen : (sstate'[q] = "waiting" <=> sstate[q] = "waiting")
      /\ \A q \in Gen : q # gen => sstate'[q] = sstate[q]
      /\ sstate'[gen] = sstate[gen] \/ sstate'[gen] = "stopped"
  BY <1>1 DEF Base, TypeOK
<1>4. /\ QueueInv' /\ queue' \in [Gen -> Seq(Call)] /\ call' \in [Call -> CallRecord]
      /\ \E n \in Nat : /\ Places = 1..n /\ Places' = 1..(n + 1)
                        /\ \A i \in Places : Place(i)' = Place(i)
                        /\ Place(n + 1)' = r
  BY <1>1, <1>2, CallJoins
<1>5. OrderInv'
  <2>1. PICK n \in Nat : /\ Places = 1..n /\ Places' = 1..(n + 1)
                         /\ \A i \in Places : Place(i)' = Place(i)
                         /\ Place(n + 1)' = r
    BY <1>4
  <2>2. \A i \in Places' : Place(i)'.cmd \in {"Z0", "z0"} => i + 0 \in Places /\ Place(i)' = Place(i + 0)
    BY <2>1
  <2>3. \A j \in Places : j - 0 \in Places' /\ Place(j - 0)' = Place(j)
    BY <2>1
  <2>4. RegistryOK' /\ Len(queue[gen]) \in Nat /\ Len(queue'[gen]) \in Nat
    BY <1>1, <1>4 DEF Base, TypeOK, RegistryOK
  <2> QED
    BY <1>1, <2>2, <2>3, <2>4, OrderKept DEF Base, TypeOK, SameSpot
<1>6. TypeOK'
  BY <1>1, <1>2, <1>4 DEF Base, TypeOK, RegistryOK, ctrl, emulator
<1>7. GenInv'
  <2>1. \A q \in Gen : q # gen => queue'[q] = queue[q]
    BY <1>1 DEF Enqueue, Base, TypeOK
  <2> QED
    BY <1>1, <1>2, <2>1 DEF Base, GenInv, ctrl, emulator
<1> QED
  BY <1>4, <1>5, <1>6, <1>7 DEF Base

LEMMA ExecuteBase ==
  ASSUME Base, NEW c \in Call, NEW op \in ExecOps, Execute(c, op), UNCHANGED awaiting
  PROVE  Base'
<1> DEFINE r == NewCall(op, op, 0, NoLoc, 0)
<1>1. /\ call[c].pc = "idle" /\ gen # 0 /\ gen \in Gen /\ Enqueue(c, gen, r)
      /\ UNCHANGED <<ctrl, sstate, stopQueued, emulator>>
  BY DEF Execute, Begin, Base, TypeOK
<1>2. /\ r \in CallRecord /\ r.sess = gen /\ r.pc = "queued" /\ r.op = op /\ r.cmd = op
  BY <1>1, BoundAssumption DEF NewCall, CallRecord
<1> HIDE DEF r
<1> QED
  BY <1>1, <1>2, OtherJoins DEF ExecOps

LEMMA CaptureBase ==
  ASSUME Base, NEW c \in Call, CaptureStopContext(c), UNCHANGED awaiting
  PROVE  Base'
<1> DEFINE r == NewCall("capture", IF lastStop = 0 THEN "?" ELSE "g", 0, NoLoc, lastStop)
<1>1. /\ call[c].pc = "idle" /\ gen # 0 /\ gen \in Gen /\ Enqueue(c, gen, r)
      /\ ConnectState(gen) = "stopped" /\ sstate' = [sstate EXCEPT ![gen] = "stopped"]
      /\ lastStop \in 0..MaxStops
      /\ UNCHANGED <<ctrl, stopQueued, emulator>>
  BY DEF CaptureStopContext, Begin, Base, TypeOK
<1>2. /\ r \in CallRecord /\ r.sess = gen /\ r.pc = "queued" /\ r.op = "capture" /\ r.cmd \in {"?", "g"}
  BY <1>1, BoundAssumption DEF NewCall, CallRecord
<1>3. sstate[gen] # "waiting"
  BY <1>1 DEF ConnectState
<1> HIDE DEF r
<1> QED
  BY <1>1, <1>2, <1>3, OtherJoins

LEMMA ReplaceBase ==
  ASSUME Base, NEW R \in SUBSET (Loc \ MainLoc), ReplaceAdditionalRanges(R), UNCHANGED awaiting
  PROVE  Base'
<1>1. /\ gen # 0 /\ ranges' = MainLoc \cup R
      /\ UNCHANGED <<gen, registry, nextId, lastStop, queue, sstate, stopQueued, call, emulator>>
  BY DEF ReplaceAdditionalRanges, sessions
<1>2. TypeOK'
  BY <1>1, LocAssumption DEF Base, TypeOK, RegistryOK, emulator
<1>3. QueueInv' /\ OrderInv'
  BY <1>1, QueueSame, HeadStays DEF Base
<1>4. GenInv'
  BY <1>1 DEF Base, GenInv, emulator
<1> QED
  BY <1>2, <1>3, <1>4 DEF Base

(* A call that ends is done, and nothing else changes in the calls. *)
LEMMA EndFacts ==
  ASSUME TypeOK, NEW c \in Call, NEW g \in Gen, End(c, g)
  PROVE  /\ call' \in [Call -> CallRecord]
         /\ call'[c] = [call[c] EXCEPT !.pc = "done"] /\ call'[c].pc = "done"
         /\ \A d \in Call : d # c => call'[d] = call[d]
         /\ queue' = [queue EXCEPT ![g] = Tail(@)]
<1>1. call \in [Call -> CallRecord] /\ call[c] \in CallRecord
  BY DEF TypeOK
<1>2. [call[c] EXCEPT !.pc = "done"] \in CallRecord /\ [call[c] EXCEPT !.pc = "done"].pc = "done"
  BY <1>1 DEF CallRecord
<1>3. call' = [call EXCEPT ![c] = [call[c] EXCEPT !.pc = "done"]]
  BY DEF End
<1> QED
  BY <1>1, <1>2, <1>3 DEF End

(* Without an emulator the calls left on a session can only end. *)
LEMMA OrphansEnd ==
  ASSUME Base, gen = 0, NEW c \in Call, NEW g \in Gen, Answer(c, g)
  PROVE  /\ End(c, g) /\ queue[g] # <<>> /\ Head(queue[g]) = c
         /\ registry = {} /\ UNCHANGED <<ctrl, sstate, stopQueued, emulator>>
<1>1. /\ sstate[g] = "unavailable" /\ ~stopQueued[g] /\ emu = 0 /\ registry = {}
      /\ ~CanConnect(g) /\ ~Stopped(c, g)
  BY BoundAssumption DEF Base, TypeOK, GenInv, CanConnect, Stopped, Gen
<1>2. ~Waiting(c, g)
  <2> SUFFICES ASSUME Waiting(c, g) PROVE FALSE
    OBVIOUS
  <2>1. queue[g] \in Seq(Call) /\ queue[g] # <<>> /\ call[c].pc = "waiting"
    BY DEF Base, TypeOK, Waiting
  <2>2. 1 \in 1..Len(queue[g]) /\ queue[g][1] = c
    BY <2>1, TailFacts DEF Waiting
  <2>3. call[c].sess = g
    BY <2>2 DEF Base, QueueInv
  <2> QED
    BY <1>1, <2>1, <2>3 DEF Base, QueueInv, Pending
<1>3. CASE Fail(c, g)
  BY <1>1, <1>3 DEF Fail, AtHead, Rejected, Without, ctrl
<1>4. CASE AwaitStop(c, g)
  BY <1>1, <1>4 DEF AwaitStop, AtHead
<1> QED
  BY <1>1, <1>2, <1>3, <1>4
     DEF Answer, Insert, Delete, QueryStop, ReadRegisters, Continue, WaitTimesOut

LEMMA OrphanBase ==
  ASSUME Base, gen = 0, NEW c \in Call, NEW g \in Gen, Answer(c, g), UNCHANGED awaiting
  PROVE  Base'
<1>1. /\ End(c, g) /\ queue[g] # <<>> /\ Head(queue[g]) = c
      /\ UNCHANGED <<ctrl, sstate, stopQueued, emulator>>
  BY OrphansEnd
<1>2. /\ call' \in [Call -> CallRecord] /\ call'[c].pc = "done"
      /\ \A d \in Call : d # c => call'[d] = call[d]
      /\ queue' = [queue EXCEPT ![g] = Tail(@)]
  BY <1>1, EndFacts DEF Base
<1>3. sstate[g] = "unavailable" /\ gen' = 0
  BY <1>1, BoundAssumption DEF Base, GenInv, Gen, ctrl
<1>4. QueueInv' /\ queue' \in [Gen -> Seq(Call)]
  BY <1>1, <1>2, <1>3, QueueEnd DEF Base
<1>5. TypeOK'
  BY <1>1, <1>2, <1>4 DEF Base, TypeOK, RegistryOK, ctrl, emulator
<1>6. GenInv'
  BY <1>1, <1>3 DEF Base, GenInv, ctrl, emulator
<1>7. OrderInv'
  BY <1>3 DEF OrderInv
<1> QED
  BY <1>4, <1>5, <1>6, <1>7 DEF Base

(* The head of the current chain ends or reads the registers, whatever     *)
(* becomes of its record.                                                  *)
LEMMA HeadMoves ==
  ASSUME Base, gen # 0, NEW c \in Call, queue[gen] # <<>>, Head(queue[gen]) = c,
         call' \in [Call -> CallRecord],
         \A d \in Call : d # c => call'[d] = call[d],
         \/ queue' = [queue EXCEPT ![gen] = Tail(@)] /\ call'[c].pc = "done"
         \/ /\ queue' = [queue EXCEPT ![gen] = Append(Tail(@), c)]
            /\ call'[c].sess = gen /\ call'[c].pc = "queued"
            /\ call'[c].op # "add" /\ call'[c].cmd = "g",
         RegistryOK', \A b \in registry' : \E d \in registry : SameSpot(b, d),
         \A d \in registry : d.enabled \/ d \in registry'
            \/ (call[c].cmd \in {"Z0", "z0"} /\ call[c].id = d.id),
         NEW s \in {"unavailable", "stopped", "running"}, sstate' = [sstate EXCEPT ![gen] = s],
         stopQueued' = [stopQueued EXCEPT ![gen] = stopQueued'[gen]],
         stopQueued'[gen] \in BOOLEAN, stopQueued'[gen] => s = "stopped",
         installed' \subseteq Loc, lastStop' \in 0..MaxStops, target' \in {0, gen},
         at' \in Loc \cup {NoLoc}, stops' \in 0..MaxStops, stopsAt' \in [Loc -> Nat],
         UNCHANGED <<gen, nextId, ranges, gens, emu, awaiting>>
  PROVE  Base'
<1>1. gen \in Gen
  BY DEF Base, TypeOK
<1>2. /\ sstate' \in [Gen -> {"unavailable", "stopped", "running", "waiting"}]
      /\ sstate'[gen] = s /\ \A q \in Gen : q # gen => sstate'[q] = sstate[q]
  BY <1>1 DEF Base, TypeOK
<1>3. /\ stopQueued' \in [Gen -> BOOLEAN]
      /\ \A q \in Gen : q # gen => stopQueued'[q] = stopQueued[q]
  BY <1>1 DEF Base, TypeOK
<1>4. QueueInv' /\ OrderInv' /\ queue' \in [Gen -> Seq(Call)]
  BY <1>2, HeadLeaves
<1>5. TypeOK'
  BY <1>2, <1>3, <1>4 DEF Base, TypeOK
<1>6. GenInv'
  <2>1. \A q \in Gen : q # gen => queue'[q] = queue[q]
    BY DEF Base, TypeOK
  <2>2. \A q \in Gen : q # gen => sstate'[q] = "unavailable" /\ ~stopQueued'[q] /\ queue'[q] = <<>>
    BY <1>2, <1>3, <2>1 DEF Base, GenInv
  <2>3. \A q \in Gen : stopQueued'[q] => sstate'[q] = "stopped"
    BY <1>2, <2>2
  <2> QED
    BY <2>2, <2>3 DEF Base, GenInv
<1> QED
  BY <1>4, <1>5, <1>6 DEF Base

(* What the guards of an answer to the current session say. *)
LEMMA AnswerFacts ==
  ASSUME Base, gen # 0, NEW c \in Call, NEW g \in Gen, Answer(c, g)
  PROVE  /\ g = gen /\ queue[gen] # <<>> /\ Head(queue[gen]) = c
         /\ CanConnect(gen) /\ Pending(c) /\ call[c].sess = gen
         /\ AtHead(c, g) => sstate[gen] # "waiting"
<1>1. queue[g] # <<>> /\ Head(queue[g]) = c
  BY DEF Answer, Fail, Insert, Delete, QueryStop, ReadRegisters, Continue, AwaitStop,
         WaitTimesOut, Stopped, AtHead, Waiting
<1>2. g = gen
  BY <1>1, HeadIsCurrent DEF Base
<1>3. CanConnect(gen)
  BY DEF Base, TypeOK, CanConnect
<1>4. ASSUME AtHead(c, g)
      PROVE  sstate[gen] # "waiting"
  <2>1. queue[g] \in Seq(Call) /\ queue[g][1] = c
    BY <1>1, TailFacts DEF Base, TypeOK
  <2> QED
    BY <2>1, <1>2, <1>4 DEF Base, QueueInv, AtHead
<1> QED
  BY <1>1, <1>2, <1>3, <1>4, HeadPlace DEF Base

LEMMA FailBase ==
  ASSUME Base, gen # 0, NEW c \in Call, NEW g \in Gen, Fail(c, g), UNCHANGED awaiting
  PROVE  Base'
<1>1. /\ g = gen /\ queue[gen] # <<>> /\ Head(queue[gen]) = c /\ Pending(c)
      /\ CanConnect(gen) /\ sstate[gen] # "waiting"
  BY AnswerFacts DEF Answer, Fail
<1>2. /\ call' \in [Call -> CallRecord] /\ call'[c].pc = "done"
      /\ \A d \in Call : d # c => call'[d] = call[d]
      /\ queue' = [queue EXCEPT ![gen] = Tail(@)]
  BY <1>1, EndFacts DEF Base, Fail, Rejected
<1>3. PICK s \in {"unavailable", "stopped", "running"} :
         /\ sstate' = [sstate EXCEPT ![gen] = s]
         /\ stopQueued[gen] => s = "stopped"
  <2>1. ConnectState(gen) \in {"stopped", "running"} /\ (stopQueued[gen] => ConnectState(gen) = "stopped")
    BY <1>1 DEF ConnectState, Base, TypeOK, GenInv
  <2>2. sstate' = [sstate EXCEPT ![gen] = ConnectState(gen)]
    BY <1>1 DEF Fail
  <2> QED
    BY <2>1, <2>2
<1>4. /\ RegistryOK' /\ \A b \in registry' : \E d \in registry : SameSpot(b, d)
      /\ \A d \in registry : d.enabled \/ d \in registry'
            \/ (call[c].cmd \in {"Z0", "z0"} /\ call[c].id = d.id)
  <2>0. nextId' = nextId
    BY DEF Fail, Rejected
  <2>1. CASE call[c].op = "add"
    <3>1. registry' = Without(call[c].id) /\ call[c].cmd = "Z0"
      BY <1>1, <2>1 DEF Fail, Rejected, Base, QueueInv
    <3> QED
      BY <2>0, <3>1, WithoutFacts DEF Base, TypeOK, SameSpot
  <2>2. CASE call[c].op # "add"
    BY <2>0, <2>2 DEF Fail, Rejected, Base, TypeOK, RegistryOK, SameSpot
  <2> QED
    BY <2>1, <2>2
<1>5. /\ UNCHANGED <<gen, nextId, ranges, lastStop, stopQueued, emulator, awaiting>>
      /\ stopQueued' = [stopQueued EXCEPT ![gen] = stopQueued'[gen]] /\ stopQueued'[gen] \in BOOLEAN
  BY DEF Fail, Rejected, Base, TypeOK
<1>6. /\ installed' \subseteq Loc /\ lastStop' \in 0..MaxStops /\ target' \in {0, gen}
      /\ at' \in Loc \cup {NoLoc} /\ stops' \in 0..MaxStops /\ stopsAt' \in [Loc -> Nat]
      /\ UNCHANGED <<gens, emu>>
  BY <1>5 DEF emulator, Base, TypeOK, GenInv
<1> QED
  BY <1>1, <1>2, <1>3, <1>4, <1>5, <1>6, HeadMoves

LEMMA InsertBase ==
  ASSUME Base, gen # 0, NEW c \in Call, NEW g \in Gen, Insert(c, g), UNCHANGED awaiting
  PROVE  Base'
<1>1. /\ g = gen /\ queue[gen] # <<>> /\ Head(queue[gen]) = c /\ Pending(c)
      /\ call[c].cmd = "Z0" /\ nextId' = nextId
  BY AnswerFacts DEF Answer, Insert
<1>2. /\ call' \in [Call -> CallRecord] /\ call'[c].pc = "done"
      /\ \A d \in Call : d # c => call'[d] = call[d]
      /\ queue' = [queue EXCEPT ![gen] = Tail(@)]
  BY <1>1, EndFacts DEF Base, Insert
<1>3. PICK r \in registry : r.id = call[c].id /\ r.loc = call[c].loc
  BY <1>1, HeadPlace DEF Base, OrderInv
<1>4. /\ RegistryOK' /\ \A b \in registry' : \E d \in registry : SameSpot(b, d)
      /\ \A d \in registry : d.enabled \/ d \in registry'
            \/ (call[c].cmd \in {"Z0", "z0"} /\ call[c].id = d.id)
  <2>1. CASE MarkInstalled(r.id)
    BY <1>1, <1>3, <2>1, MarkFacts DEF Base, TypeOK, SameSpot
  <2>2. CASE registry' = Without(call[c].id)
    BY <1>1, <2>2, WithoutFacts DEF Base, TypeOK, SameSpot
  <2> QED
    BY <1>3, <2>1, <2>2 DEF Insert, Known
<1>5. call[c].loc \in Loc
  BY <1>3 DEF Base, TypeOK, RegistryOK
<1>6. /\ UNCHANGED <<gen, ranges, gens, emu>>
      /\ sstate' = [sstate EXCEPT ![gen] = "stopped"]
      /\ stopQueued' = [stopQueued EXCEPT ![gen] = stopQueued'[gen]] /\ stopQueued'[gen] \in BOOLEAN
      /\ installed' \subseteq Loc /\ lastStop' \in 0..MaxStops /\ target' \in {0, gen}
      /\ at' \in Loc \cup {NoLoc} /\ stops' \in 0..MaxStops /\ stopsAt' \in [Loc -> Nat]
  BY <1>1, <1>5 DEF Insert, Base, TypeOK, GenInv
<1> QED
  BY <1>1, <1>2, <1>4, <1>6, HeadMoves

LEMMA DeleteBase ==
  ASSUME Base, gen # 0, NEW c \in Call, NEW g \in Gen, Delete(c, g), UNCHANGED awaiting
  PROVE  Base'
<1>1. /\ g = gen /\ queue[gen] # <<>> /\ Head(queue[gen]) = c /\ Pending(c)
      /\ call[c].cmd = "z0" /\ nextId' = nextId
  BY AnswerFacts DEF Answer, Delete
<1>2. /\ call' \in [Call -> CallRecord] /\ call'[c].pc = "done"
      /\ \A d \in Call : d # c => call'[d] = call[d]
      /\ queue' = [queue EXCEPT ![gen] = Tail(@)]
  BY <1>1, EndFacts DEF Base, Delete
<1>4. /\ RegistryOK' /\ \A b \in registry' : \E d \in registry : SameSpot(b, d)
      /\ \A d \in registry : d.enabled \/ d \in registry'
            \/ (call[c].cmd \in {"Z0", "z0"} /\ call[c].id = d.id)
  <2>1. CASE registry' = registry
    BY <1>1, <2>1 DEF Base, TypeOK, RegistryOK, SameSpot
  <2>2. CASE registry' = Without(call[c].id)
    BY <1>1, <2>2, WithoutFacts DEF Base, TypeOK, SameSpot
  <2> QED
    BY <2>1, <2>2 DEF Delete
<1>6. /\ UNCHANGED <<gen, ranges, gens, emu>>
      /\ sstate' = [sstate EXCEPT ![gen] = "stopped"]
      /\ stopQueued' = [stopQueued EXCEPT ![gen] = stopQueued'[gen]] /\ stopQueued'[gen] \in BOOLEAN
      /\ installed' \subseteq Loc /\ lastStop' \in 0..MaxStops /\ target' \in {0, gen}
      /\ at' \in Loc \cup {NoLoc} /\ stops' \in 0..MaxStops /\ stopsAt' \in [Loc -> Nat]
  BY <1>1 DEF Delete, Base, TypeOK, GenInv
<1> QED
  BY <1>1, <1>2, <1>4, <1>6, HeadMoves

LEMMA QueryBase ==
  ASSUME Base, gen # 0, NEW c \in Call, NEW g \in Gen, QueryStop(c, g), UNCHANGED awaiting
  PROVE  Base'
<1>1. /\ g = gen /\ queue[gen] # <<>> /\ Head(queue[gen]) = c /\ Pending(c)
      /\ call[c].cmd = "?" /\ call[c].sess = gen /\ call[c].pc = "queued"
      /\ UNCHANGED <<registry, nextId>>
  BY AnswerFacts DEF Answer, QueryStop, Stopped, AtHead
<1>2. call[c].op # "add"
  BY <1>1 DEF Base, QueueInv
<1> DEFINE r == [call[c] EXCEPT !.cmd = "g", !.shown = stops]
<1>3. call[c] \in CallRecord /\ stops \in 0..MaxStops
  BY DEF Base, TypeOK
<1>4. /\ r \in CallRecord /\ r.cmd = "g" /\ r.sess = gen /\ r.pc = "queued" /\ r.op # "add"
  BY <1>1, <1>2, <1>3 DEF CallRecord
<1>5. call' = [call EXCEPT ![c] = r]
  BY DEF QueryStop
<1> HIDE DEF r
<1>6. /\ call' \in [Call -> CallRecord] /\ call'[c] = r
      /\ \A d \in Call : d # c => call'[d] = call[d]
      /\ queue' = [queue EXCEPT ![gen] = Append(Tail(@), c)]
  BY <1>1, <1>4, <1>5 DEF Base, TypeOK, QueryStop
<1>7. /\ RegistryOK' /\ \A b \in registry' : \E d \in registry : SameSpot(b, d)
      /\ \A d \in registry : d \in registry'
  BY <1>1 DEF Base, TypeOK, RegistryOK, SameSpot
<1>8. /\ UNCHANGED <<gen, ranges, gens, emu>>
      /\ sstate' = [sstate EXCEPT ![gen] = "stopped"]
      /\ stopQueued' = [stopQueued EXCEPT ![gen] = stopQueued'[gen]] /\ stopQueued'[gen] \in BOOLEAN
      /\ installed' \subseteq Loc /\ lastStop' \in 0..MaxStops /\ target' \in {0, gen}
      /\ at' \in Loc \cup {NoLoc} /\ stops' \in 0..MaxStops /\ stopsAt' \in [Loc -> Nat]
  BY <1>1 DEF QueryStop, Base, TypeOK, GenInv, emulator
<1> QED
  BY <1>1, <1>4, <1>6, <1>7, <1>8, HeadMoves

LEMMA ReadBase ==
  ASSUME Base, gen # 0, NEW c \in Call, NEW g \in Gen, ReadRegisters(c, g), UNCHANGED awaiting
  PROVE  Base'
<1>1. /\ g = gen /\ queue[gen] # <<>> /\ Head(queue[gen]) = c /\ Pending(c)
      /\ nextId' = nextId
  BY AnswerFacts DEF Answer, ReadRegisters
<1> DEFINE r == [call[c] EXCEPT !.pc = "done", !.shownAt = stops]
<1>3. call[c] \in CallRecord /\ stops \in 0..MaxStops
  BY DEF Base, TypeOK
<1>4. r \in CallRecord /\ r.pc = "done"
  BY <1>3 DEF CallRecord
<1>5. call' = [call EXCEPT ![c] = r]
  BY DEF ReadRegisters
<1> HIDE DEF r
<1>6. /\ call' \in [Call -> CallRecord] /\ call'[c].pc = "done"
      /\ \A d \in Call : d # c => call'[d] = call[d]
      /\ queue' = [queue EXCEPT ![gen] = Tail(@)]
  BY <1>1, <1>4, <1>5 DEF Base, TypeOK, ReadRegisters
<1>7. /\ RegistryOK' /\ \A b \in registry' : \E d \in registry : SameSpot(b, d)
      /\ \A d \in registry : d.enabled \/ d \in registry'
  <2>1. CASE RecordHit(at)
    BY <1>1, <2>1, HitFacts DEF Base, TypeOK
  <2>2. CASE registry' = registry
    BY <1>1, <2>2 DEF Base, TypeOK, RegistryOK, SameSpot
  <2> QED
    BY <2>1, <2>2 DEF ReadRegisters
<1>8. /\ UNCHANGED <<gen, ranges, gens, emu>>
      /\ sstate' = [sstate EXCEPT ![gen] = "stopped"]
      /\ stopQueued' = [stopQueued EXCEPT ![gen] = stopQueued'[gen]] /\ stopQueued'[gen] \in BOOLEAN
      /\ installed' \subseteq Loc /\ lastStop' \in 0..MaxStops /\ target' \in {0, gen}
      /\ at' \in Loc \cup {NoLoc} /\ stops' \in 0..MaxStops /\ stopsAt' \in [Loc -> Nat]
  BY <1>1 DEF ReadRegisters, Base, TypeOK, GenInv, emulator
<1> QED
  BY <1>1, <1>6, <1>7, <1>8, HeadMoves

LEMMA TimeoutBase ==
  ASSUME Base, gen # 0, NEW c \in Call, NEW g \in Gen, WaitTimesOut(c, g), UNCHANGED awaiting
  PROVE  Base'
<1>1. /\ g = gen /\ queue[gen] # <<>> /\ Head(queue[gen]) = c /\ Pending(c)
      /\ call[c].pc = "waiting" /\ call[c].sess = gen
  BY AnswerFacts DEF Answer, WaitTimesOut, Waiting
<1>2. /\ call' \in [Call -> CallRecord] /\ call'[c].pc = "done"
      /\ \A d \in Call : d # c => call'[d] = call[d]
      /\ queue' = [queue EXCEPT ![gen] = Tail(@)]
  BY <1>1, EndFacts DEF Base, WaitTimesOut
<1>3. sstate[gen] = "waiting" /\ ~stopQueued[gen]
  BY <1>1 DEF Base, QueueInv, GenInv, Pending
<1>4. UNCHANGED <<ctrl, stopQueued, emulator>> /\ sstate' = [sstate EXCEPT ![gen] = "running"]
  BY <1>1 DEF WaitTimesOut
<1>5. UNCHANGED <<gen, registry, nextId, ranges, lastStop, gens, emu>>
  BY <1>4 DEF ctrl, emulator
<1>7. /\ RegistryOK' /\ \A b \in registry' : \E d \in registry : SameSpot(b, d)
      /\ \A d \in registry : d \in registry'
  BY <1>5 DEF Base, TypeOK, RegistryOK, SameSpot
<1>8. /\ stopQueued' = [stopQueued EXCEPT ![gen] = stopQueued'[gen]] /\ ~stopQueued'[gen]
      /\ stopQueued'[gen] \in BOOLEAN
      /\ installed' \subseteq Loc /\ lastStop' \in 0..MaxStops /\ target' \in {0, gen}
      /\ at' \in Loc \cup {NoLoc} /\ stops' \in 0..MaxStops /\ stopsAt' \in [Loc -> Nat]
  BY <1>3, <1>4 DEF Base, TypeOK, GenInv, ctrl, emulator
<1> QED
  BY <1>1, <1>2, <1>4, <1>5, <1>7, <1>8, HeadMoves

(* The head of the current chain begins to wait for a stop. *)
LEMMA HeadWaits ==
  ASSUME Base, gen # 0, NEW c \in Call, queue[gen] # <<>>, Head(queue[gen]) = c,
         call[c].cmd \in ExecOps, call' = [call EXCEPT ![c].pc = "waiting"], queue' = queue,
         sstate' = [sstate EXCEPT ![gen] = "waiting"],
         stopQueued' = [stopQueued EXCEPT ![gen] = FALSE], target' \in {0, gen},
         UNCHANGED <<ctrl, gens, emu, installed, at, stops, stopsAt, awaiting>>
  PROVE  Base'
<1>1. /\ gen \in Gen /\ Pending(c) /\ call[c].sess = gen /\ call[c] \in CallRecord
      /\ UNCHANGED <<gen, registry, nextId, ranges, lastStop>>
  BY HeadPlace DEF Base, TypeOK, ctrl
<1> DEFINE r == [call[c] EXCEPT !.pc = "waiting"]
<1>2. /\ r \in CallRecord /\ r.pc = "waiting" /\ r.sess = gen /\ r.op = call[c].op
      /\ r.cmd = call[c].cmd /\ r.id = call[c].id /\ r.loc = call[c].loc
  BY <1>1 DEF CallRecord
<1>3. call' = [call EXCEPT ![c] = r]
  OBVIOUS
<1> HIDE DEF r
<1>4. /\ call' \in [Call -> CallRecord] /\ call'[c] = r
      /\ \A d \in Call : d # c => call'[d] = call[d]
  BY <1>2, <1>3 DEF Base, TypeOK
<1>5. /\ sstate' \in [Gen -> {"unavailable", "stopped", "running", "waiting"}]
      /\ sstate'[gen] = "waiting" /\ \A q \in Gen : q # gen => sstate'[q] = sstate[q]
      /\ stopQueued' \in [Gen -> BOOLEAN]
      /\ \A q \in Gen : stopQueued'[q] => stopQueued[q] /\ q # gen
  BY <1>1 DEF Base, TypeOK
<1>6. call[c].op # "add"
  BY <1>1 DEF Base, QueueInv, ExecOps
<1>7. QueueInv'
  BY <1>1, <1>2, <1>4, <1>5, <1>6, QueueWaits DEF Base
<1>8. OrderInv'
  <2>1. \A d \in Call : call'[d].cmd = call[d].cmd /\ call'[d].id = call[d].id /\ call'[d].loc = call[d].loc
    BY <1>2, <1>4
  <2> QED
    BY <1>1, <2>1, HeadStays
<1>9. TypeOK'
  BY <1>1, <1>4, <1>5 DEF Base, TypeOK, RegistryOK
<1>10. GenInv'
  BY <1>1, <1>5 DEF Base, GenInv
<1> QED
  BY <1>7, <1>8, <1>9, <1>10 DEF Base

(* #enrichExecutionResult ends the call, or sends it for the registers. *)
LEMMA EnrichFacts ==
  ASSUME Base, gen # 0, NEW c \in Call, queue[gen] # <<>>, Head(queue[gen]) = c,
         call[c].cmd \in ExecOps, NEW n, Enrich(c, gen, n)
  PROVE  /\ call' \in [Call -> CallRecord]
         /\ \A d \in Call : d # c => call'[d] = call[d]
         /\ \/ queue' = [queue EXCEPT ![gen] = Tail(@)] /\ call'[c].pc = "done"
            \/ /\ queue' = [queue EXCEPT ![gen] = Append(Tail(@), c)]
               /\ call'[c].sess = gen /\ call'[c].pc = "queued"
               /\ call'[c].op # "add" /\ call'[c].cmd = "g"
               /\ call'[c].op = call[c].op
         /\ lastStop' = n /\ UNCHANGED <<gen, registry, nextId, ranges>>
<1>1. /\ gen \in Gen /\ Pending(c) /\ call[c].sess = gen /\ call[c] \in CallRecord
      /\ queue \in [Gen -> Seq(Call)] /\ call \in [Call -> CallRecord]
  BY HeadPlace DEF Base, TypeOK
<1>2. lastStop' = n /\ UNCHANGED <<gen, registry, nextId, ranges>>
  BY DEF Enrich
<1>3. CASE registry # {}
  <2> DEFINE r == [call[c] EXCEPT !.cmd = "g", !.pc = "queued", !.sess = gen]
  <2>1. call[c].op # "add"
    BY <1>1 DEF Base, QueueInv, ExecOps
  <2>2. /\ r \in CallRecord /\ r.pc = "queued" /\ r.sess = gen /\ r.op = call[c].op /\ r.cmd = "g"
    BY <1>1 DEF CallRecord
  <2>3. call' = [call EXCEPT ![c] = r]
    BY <1>3 DEF Enrich
  <2> HIDE DEF r
  <2>4. queue' = [q \in Gen |-> LET rest == IF q = gen THEN Tail(queue[q]) ELSE queue[q]
                                IN  IF q = gen THEN Append(rest, c) ELSE rest]
    BY <1>3 DEF Enrich
  <2>5. queue' = [queue EXCEPT ![gen] = Append(Tail(@), c)]
    BY <1>1, <2>4
  <2> QED
    BY <1>1, <1>2, <2>1, <2>2, <2>3, <2>5
<1>4. CASE registry = {}
  <2>1. End(c, gen)
    BY <1>4 DEF Enrich
  <2> QED
    BY <1>1, <1>2, <2>1, EndFacts DEF Base
<1> QED
  BY <1>3, <1>4

LEMMA ContinueBase ==
  ASSUME Base, gen # 0, NEW c \in Call, NEW g \in Gen, Continue(c, g), UNCHANGED awaiting
  PROVE  Base'
<1>1. /\ g = gen /\ queue[gen] # <<>> /\ Head(queue[gen]) = c /\ sstate[gen] # "waiting"
      /\ call[c].cmd = "continue" /\ gen \in Gen
      /\ UNCHANGED <<ctrl, gens, emu, installed, at, stops, stopsAt>>
  BY AnswerFacts DEF Answer, Continue
<1>2. CASE ConnectState(gen) = "stopped"
  <2>1. /\ call' = [call EXCEPT ![c].pc = "waiting"] /\ queue' = queue
        /\ sstate' = [sstate EXCEPT ![gen] = "waiting"] /\ target' = gen
        /\ stopQueued' = [stopQueued EXCEPT ![gen] = FALSE]
    BY <1>1, <1>2 DEF Continue, Base, TypeOK
  <2> QED
    BY <1>1, <2>1, HeadWaits DEF ExecOps
<1>3. CASE ConnectState(gen) # "stopped"
  <2>1. End(c, gen) /\ UNCHANGED <<sstate, target>> /\ sstate[gen] = "running"
    BY <1>1, <1>3 DEF Continue, ConnectState, Base, TypeOK
  <2>2. /\ call' \in [Call -> CallRecord] /\ call'[c].pc = "done"
        /\ \A d \in Call : d # c => call'[d] = call[d]
        /\ queue' = [queue EXCEPT ![gen] = Tail(@)]
    BY <1>1, <2>1, EndFacts DEF Base
  <2>3. ~stopQueued[gen] /\ sstate' = [sstate EXCEPT ![gen] = "running"]
    BY <1>1, <2>1 DEF Base, GenInv, TypeOK
  <2>4. /\ stopQueued' = [stopQueued EXCEPT ![gen] = stopQueued'[gen]] /\ ~stopQueued'[gen]
        /\ stopQueued'[gen] \in BOOLEAN
    BY <1>1, <2>3 DEF Continue, Base, TypeOK
  <2>5. UNCHANGED <<gen, registry, nextId, ranges, lastStop>>
    BY <1>1 DEF ctrl
  <2>6. /\ RegistryOK' /\ \A b \in registry' : \E d \in registry : SameSpot(b, d)
        /\ \A d \in registry : d \in registry'
    BY <2>5 DEF Base, TypeOK, RegistryOK, SameSpot
  <2>7. /\ installed' \subseteq Loc /\ lastStop' \in 0..MaxStops /\ target' \in {0, gen}
        /\ at' \in Loc \cup {NoLoc} /\ stops' \in 0..MaxStops /\ stopsAt' \in [Loc -> Nat]
    BY <1>1, <2>1, <2>5 DEF Base, TypeOK, GenInv
  <2> QED
    BY <1>1, <2>2, <2>3, <2>4, <2>5, <2>6, <2>7, HeadMoves
<1> QED
  BY <1>2, <1>3

(* The three outcomes of a wait or a pause. *)
LEMMA AwaitBase ==
  ASSUME Base, gen # 0, NEW c \in Call, NEW g \in Gen, AwaitStop(c, g), UNCHANGED awaiting
  PROVE  Base'
<1>1. /\ g = gen /\ queue[gen] # <<>> /\ Head(queue[gen]) = c /\ sstate[gen] # "waiting"
      /\ call[c].cmd \in ExecOps /\ gen \in Gen /\ UNCHANGED emulator
  BY AnswerFacts DEF Answer, AwaitStop, ExecOps
<1>2. /\ installed' \subseteq Loc /\ target' \in {0, gen} /\ UNCHANGED <<gens, emu>>
      /\ at' \in Loc \cup {NoLoc} /\ stops' \in 0..MaxStops /\ stopsAt' \in [Loc -> Nat]
  BY <1>1 DEF Base, TypeOK, GenInv, emulator
<1>3. CASE /\ stopQueued' = [stopQueued EXCEPT ![g] = FALSE]
           /\ sstate' = [sstate EXCEPT ![g] = "stopped"]
           /\ Enrich(c, g, stops)
  <2>1. /\ call' \in [Call -> CallRecord]
        /\ \A d \in Call : d # c => call'[d] = call[d]
        /\ \/ queue' = [queue EXCEPT ![gen] = Tail(@)] /\ call'[c].pc = "done"
           \/ /\ queue' = [queue EXCEPT ![gen] = Append(Tail(@), c)]
              /\ call'[c].sess = gen /\ call'[c].pc = "queued"
              /\ call'[c].op # "add" /\ call'[c].cmd = "g"
        /\ lastStop' = stops /\ UNCHANGED <<gen, registry, nextId, ranges>>
    BY <1>1, <1>3, EnrichFacts
  <2>2. /\ RegistryOK' /\ \A b \in registry' : \E d \in registry : SameSpot(b, d)
        /\ \A d \in registry : d \in registry'
    BY <2>1 DEF Base, TypeOK, RegistryOK, SameSpot
  <2>3. /\ stopQueued' = [stopQueued EXCEPT ![gen] = stopQueued'[gen]]
        /\ stopQueued'[gen] \in BOOLEAN /\ lastStop' \in 0..MaxStops
    BY <1>1, <1>3, <2>1 DEF Base, TypeOK
  <2> QED
    BY <1>1, <1>2, <1>3, <2>1, <2>2, <2>3, HeadMoves
<1>4. CASE /\ sstate[g] = "running"
           /\ sstate' = [sstate EXCEPT ![g] = "waiting"]
           /\ call' = [call EXCEPT ![c].pc = "waiting"]
           /\ UNCHANGED <<ctrl, queue, stopQueued>>
  <2>1. stopQueued' = [stopQueued EXCEPT ![gen] = FALSE]
    BY <1>1, <1>4 DEF Base, TypeOK, GenInv
  <2> QED
    BY <1>1, <1>2, <1>4, <2>1, HeadWaits DEF emulator
<1>5. CASE End(c, g) /\ UNCHANGED <<ctrl, sstate, stopQueued>>
  <2>1. /\ call' \in [Call -> CallRecord] /\ call'[c].pc = "done"
        /\ \A d \in Call : d # c => call'[d] = call[d]
        /\ queue' = [queue EXCEPT ![gen] = Tail(@)]
    BY <1>1, <1>5, EndFacts DEF Base
  <2>2. /\ sstate[gen] \in {"unavailable", "stopped", "running"}
        /\ sstate' = [sstate EXCEPT ![gen] = sstate[gen]]
        /\ stopQueued' = [stopQueued EXCEPT ![gen] = stopQueued'[gen]]
        /\ stopQueued'[gen] \in BOOLEAN /\ (stopQueued'[gen] => sstate[gen] = "stopped")
    BY <1>1, <1>5 DEF Base, TypeOK, GenInv
  <2>3. UNCHANGED <<gen, registry, nextId, ranges, lastStop>> /\ lastStop' \in 0..MaxStops
    BY <1>5 DEF ctrl, Base, TypeOK
  <2>4. /\ RegistryOK' /\ \A b \in registry' : \E d \in registry : SameSpot(b, d)
        /\ \A d \in registry : d \in registry'
    BY <2>3 DEF Base, TypeOK, RegistryOK, SameSpot
  <2> QED
    BY <1>1, <1>2, <2>1, <2>2, <2>3, <2>4, HeadMoves
<1> QED
  BY <1>3, <1>4, <1>5 DEF AwaitStop

LEMMA StopsBase ==
  ASSUME Base, NEW l \in installed \cup {NoLoc}, TargetStops(l), UNCHANGED awaiting
  PROVE  Base' /\ gen # 0 /\ target = gen
<1>1. /\ target = gen /\ gen # 0 /\ gen \in Gen /\ l \in Loc \cup {NoLoc}
      /\ target' = 0 /\ at' = l /\ stops' = stops + 1 /\ stops + 1 \in 0..MaxStops
      /\ UNCHANGED <<gens, emu, installed>>
  BY BoundAssumption DEF TargetStops, Base, TypeOK, GenInv
<1>2. stopsAt' \in [Loc -> Nat]
  <2>1. CASE l = NoLoc
    BY <2>1 DEF TargetStops, Base, TypeOK
  <2>2. CASE l # NoLoc
    <3>1. stopsAt' = [stopsAt EXCEPT ![l] = stopsAt[l] + 1] /\ stopsAt[l] + 1 \in Nat
      BY <1>1, <2>2 DEF TargetStops, Base, TypeOK
    <3> QED
      BY <3>1 DEF Base, TypeOK
  <2> QED
    BY <2>1, <2>2
<1>3. ASSUME NEW c \in Call, Waiting(c, target), sstate' = [sstate EXCEPT ![target] = "stopped"],
             Enrich(c, target, stops + 1), UNCHANGED stopQueued
      PROVE  Base'
  <2>1. /\ queue[gen] # <<>> /\ Head(queue[gen]) = c /\ call[c].pc = "waiting" /\ Pending(c)
    BY <1>1, <1>3 DEF Waiting, Pending
  <2>2. call[c].cmd \in ExecOps
    BY <2>1 DEF Base, QueueInv
  <2>3. /\ call' \in [Call -> CallRecord]
        /\ \A d \in Call : d # c => call'[d] = call[d]
        /\ \/ queue' = [queue EXCEPT ![gen] = Tail(@)] /\ call'[c].pc = "done"
           \/ /\ queue' = [queue EXCEPT ![gen] = Append(Tail(@), c)]
              /\ call'[c].sess = gen /\ call'[c].pc = "queued"
              /\ call'[c].op # "add" /\ call'[c].cmd = "g"
        /\ lastStop' = stops + 1 /\ UNCHANGED <<gen, registry, nextId, ranges>>
    BY <1>1, <1>3, <2>1, <2>2, EnrichFacts
  <2>4. /\ RegistryOK' /\ \A b \in registry' : \E d \in registry : SameSpot(b, d)
        /\ \A d \in registry : d \in registry'
    BY <2>3 DEF Base, TypeOK, RegistryOK, SameSpot
  <2>5. /\ stopQueued' = [stopQueued EXCEPT ![gen] = stopQueued'[gen]]
        /\ stopQueued'[gen] \in BOOLEAN /\ lastStop' \in 0..MaxStops
        /\ installed' \subseteq Loc /\ stops' \in 0..MaxStops
    BY <1>1, <1>3, <2>3 DEF Base, TypeOK
  <2> QED
    BY <1>1, <1>2, <1>3, <2>1, <2>3, <2>4, <2>5, HeadMoves
<1>4. ASSUME \/ /\ sstate[target] = "running"
                /\ sstate' = [sstate EXCEPT ![target] = "stopped"]
                /\ stopQueued' = [stopQueued EXCEPT ![target] = TRUE]
             \/ UNCHANGED <<sstate, stopQueued>>,
             UNCHANGED <<ctrl, queue, call>>
      PROVE  Base'
  <2>1. /\ sstate' \in [Gen -> {"unavailable", "stopped", "running", "waiting"}]
        /\ stopQueued' \in [Gen -> BOOLEAN]
        /\ \A q \in Gen : (sstate'[q] = "waiting" <=> sstate[q] = "waiting")
        /\ \A q \in Gen : q # gen => sstate'[q] = sstate[q] /\ stopQueued'[q] = stopQueued[q]
        /\ stopQueued'[gen] => sstate'[gen] = "stopped"
    BY <1>1, <1>4 DEF Base, TypeOK, GenInv
  <2>2. UNCHANGED <<gen, registry, nextId, ranges, lastStop>>
    BY <1>4 DEF ctrl
  <2>3. QueueInv' /\ OrderInv'
    BY <1>1, <1>4, <2>1, <2>2, QueueSame, HeadStays DEF Base
  <2>4. TypeOK'
    BY <1>1, <1>2, <1>4, <2>1, <2>2 DEF Base, TypeOK, RegistryOK
  <2>5. GenInv'
    BY <1>1, <1>4, <2>1, <2>2 DEF Base, GenInv
  <2> QED
    BY <2>3, <2>4, <2>5 DEF Base
<1> QED
  BY <1>1, <1>3, <1>4 DEF TargetStops, sessions

LEMMA StartBase ==
  ASSUME OrphansDrain, Base, StartEmulator, UNCHANGED awaiting
  PROVE  Base'
<1>1. /\ emu = 0 /\ gen = 0 /\ gens + 1 \in Gen /\ gens' = gens + 1 /\ emu' = gens + 1
      /\ gen' = gens + 1 /\ gen' # 0
      /\ \A g \in Gen : queue[g] = <<>>
      /\ registry' = {} /\ nextId' = 1 /\ lastStop' = 0 /\ ranges' = MainLoc
      /\ installed' = {} /\ target' = 0 /\ at' = NoLoc /\ stopsAt' = [l \in Loc |-> 0]
      /\ UNCHANGED <<queue, sstate, stopQueued, call, stops>>
  BY BoundAssumption DEF StartEmulator, sessions, Base, TypeOK, Gen
<1>2. RegistryOK'
  BY <1>1 DEF RegistryOK
<1>3. TypeOK'
  BY <1>1, <1>2, BoundAssumption, LocAssumption DEF Base, TypeOK
<1>4. QueueInv'
  BY <1>1, QueueSame DEF Base
<1>5. GenInv'
  <2>1. \A g \in Gen : g # 0
    BY BoundAssumption DEF Gen
  <2> QED
    BY <1>1, <2>1 DEF Base, GenInv
<1>6. OrderInv'
  <2>1. Places' = {}
    BY <1>1 DEF Places
  <2> QED
    BY <2>1 DEF OrderInv
<1> QED
  BY <1>3, <1>4, <1>5, <1>6 DEF Base

LEMMA ExitBase ==
  ASSUME Base, EmulatorExits, UNCHANGED awaiting
  PROVE  Base'
<1>1. /\ gen # 0 /\ gen \in Gen /\ emu' = 0 /\ installed' = {} /\ target' = 0
      /\ gen' = 0 /\ registry' = {} /\ nextId' = 1 /\ ranges' = {} /\ lastStop' = 0
      /\ sstate' = [g \in Gen |-> "unavailable"]
      /\ stopQueued' = [stopQueued EXCEPT ![gen] = FALSE]
      /\ UNCHANGED <<gens, at, stops, stopsAt>>
  BY DEF EmulatorExits, Base, TypeOK
<1>2. PICK hit \in SUBSET Heads :
        /\ \A g \in Gen : queue[g] # <<>> /\ sstate[g] # "unavailable" => Head(queue[g]) \in hit
        /\ call' = [c \in Call |-> IF c \in hit THEN [call[c] EXCEPT !.pc = "done"] ELSE call[c]]
        /\ queue' = [g \in Gen |-> IF queue[g] # <<>> /\ Head(queue[g]) \in hit
                                   THEN Tail(queue[g]) ELSE queue[g]]
  BY DEF EmulatorExits
<1>3. /\ queue \in [Gen -> Seq(Call)] /\ call \in [Call -> CallRecord]
      /\ \A g \in Gen : g # gen => queue[g] = <<>>
  BY <1>1 DEF Base, TypeOK, GenInv
<1>4. call' \in [Call -> CallRecord]
  <2>1. \A c \in Call : [call[c] EXCEPT !.pc = "done"] \in CallRecord
    BY <1>3 DEF CallRecord
  <2> QED
    BY <1>2, <1>3, <2>1
<1>5. \A h \in hit : queue[gen] # <<>> /\ h = Head(queue[gen])
  BY <1>1, <1>3 DEF Heads
<1>6. QueueInv' /\ queue' \in [Gen -> Seq(Call)]
  <2>1. CASE queue[gen] # <<>> /\ Head(queue[gen]) \in hit
    <3> DEFINE c == Head(queue[gen])
    <3>1. c \in Call
      BY <1>1, <1>3, <2>1, TailFacts
    <3>2. queue' = [queue EXCEPT ![gen] = Tail(@)]
      BY <1>1, <1>2, <1>3, <2>1
    <3>3. call'[c].pc = "done"
      <4>1. call'[c] = [call[c] EXCEPT !.pc = "done"] /\ call[c] \in CallRecord
        BY <1>2, <1>3, <2>1, <3>1
      <4> QED
        BY <4>1 DEF CallRecord
    <3>4. \A d \in Call : d # c => call'[d] = call[d]
      BY <1>2, <1>5
    <3>5. \A q \in Gen : sstate'[q] # "waiting" /\ (q # gen => sstate[q] # "waiting")
      BY <1>1 DEF Base, GenInv
    <3> HIDE DEF c
    <3>6. queue[gen] # <<>> /\ Head(queue[gen]) = c
      BY <2>1 DEF c
    <3> QED
      BY <1>1, <3>1, <3>2, <3>3, <3>4, <3>5, <3>6, QueueEnd DEF Base
  <2>2. CASE ~(queue[gen] # <<>> /\ Head(queue[gen]) \in hit)
    <3>1. hit = {}
      BY <1>5, <2>2
    <3>2. queue' = queue /\ call' = call
      BY <1>2, <1>3, <3>1
    <3>3. \A q \in Gen : sstate[q] # "waiting"
      BY <1>1, <1>2, <3>1 DEF Base, QueueInv, GenInv
    <3> QED
      BY <1>1, <1>3, <3>2, <3>3, QueueSame DEF Base
  <2> QED
    BY <2>1, <2>2
<1>7. RegistryOK'
  BY <1>1 DEF RegistryOK
<1>8. TypeOK'
  <2>1. sstate' \in [Gen -> {"unavailable", "stopped", "running", "waiting"}]
    BY <1>1
  <2>2. stopQueued' \in [Gen -> BOOLEAN]
    BY <1>1 DEF Base, TypeOK
  <2>3. gen' = 0 /\ 0 \in 0..MaxStops /\ {} \subseteq Loc
    BY <1>1, BoundAssumption
  <2> QED
    BY <1>1, <1>4, <1>6, <1>7, <2>1, <2>2, <2>3 DEF Base, TypeOK
<1>9. GenInv'
  <2>1. \A g \in Gen : ~stopQueued'[g]
    BY <1>1 DEF Base, TypeOK, GenInv
  <2> QED
    BY <1>1, <2>1 DEF GenInv
<1>10. OrderInv'
  BY <1>1 DEF OrderInv
<1> QED
  BY <1>6, <1>8, <1>9, <1>10 DEF Base

(* With the orphans of a reset session gone before the next emulator       *)
(* listens, every step keeps Base.                                         *)
LEMMA BaseStep ==
  ASSUME OrphansDrain, Base, [Next]_vars
  PROVE  Base'
<1>1. CASE UNCHANGED vars
  <2>1. /\ UNCHANGED <<gen, registry, nextId, ranges, lastStop, queue, sstate, stopQueued, call>>
        /\ UNCHANGED <<awaiting, gens, emu, installed, target, at, stops, stopsAt>>
    BY <1>1 DEF vars, ctrl, sessions, emulator
  <2>2. TypeOK' /\ GenInv'
    BY <2>1 DEF Base, TypeOK, RegistryOK, GenInv
  <2>3. QueueInv'
    BY <2>1, QueueSame DEF Base
  <2>4. OrderInv'
    BY <2>1, HeadStays DEF Base, OrderInv
  <2> QED
    BY <2>2, <2>3, <2>4 DEF Base
<1>2. ASSUME Next PROVE Base'
  <2>0. UNCHANGED awaiting
    BY <1>2 DEF Next
  <2>1. ASSUME NEW c \in Call, Request(c) PROVE Base'
    BY <2>0, <2>1, AddBase, RemoveBase, ExecuteBase, CaptureBase DEF Request
  <2>2. ASSUME NEW c \in Call, NEW g \in Gen, Answer(c, g) PROVE Base'
    <3>1. CASE gen = 0
      BY <2>0, <2>2, <3>1, OrphanBase
    <3>2. CASE gen # 0
      BY <2>0, <2>2, <3>2, FailBase, InsertBase, DeleteBase, QueryBase, ReadBase, ContinueBase,
         AwaitBase, TimeoutBase DEF Answer
    <3> QED
      BY <3>1, <3>2
  <2> QED
    BY <1>2, <2>0, <2>1, <2>2, ReplaceBase, StopsBase, StartBase, ExitBase DEF Next, Step
<1> QED
  BY <1>1, <1>2

LEMMA InitBase ==
  ASSUME Init
  PROVE  Base
<1>1. RegistryOK
  BY DEF Init, RegistryOK
<1>2. call \in [Call -> CallRecord]
  <2>1. Idle \in CallRecord
    BY BoundAssumption DEF Idle, CallRecord
  <2> QED
    BY <2>1 DEF Init
<1>3. TypeOK
  BY <1>1, <1>2, BoundAssumption, FlagAssumption DEF Init, TypeOK
<1>4. QueueInv
  <2>1. \A c \in Call : ~Pending(c)
    BY DEF Init, Idle, Pending
  <2> QED
    BY <2>1 DEF Init, QueueInv
<1>5. GenInv /\ OrderInv
  BY DEF Init, GenInv, OrderInv
<1> QED
  BY <1>3, <1>4, <1>5 DEF Base

(* When the calls left on a reset session have ended before the next       *)
(* emulator listens, Base always holds: the chains hold the calls under way, *)
(* only the current session is in use, and the order of its chain keeps    *)
(* adds and removals of one location apart.                                *)
THEOREM BaseInvariance ==
  ASSUME OrphansDrain
  PROVE  Spec => []Base
<1>1. Init => Base
  BY InitBase
<1>2. Base /\ [Next]_vars => Base'
  BY BaseStep
<1> QED
  BY <1>1, <1>2, PTL DEF Spec

(* Every variable keeps its type, in every interleaving of calls, stops,   *)
(* timeouts, exits and restarts.                                           *)
THEOREM TypeCorrect ==
  ASSUME OrphansDrain
  PROVE  Spec => []TypeOK
<1>1. Base => TypeOK
  BY DEF Base
<1> QED
  BY <1>1, BaseInvariance, PTL

(* While an add is under way its record is its own: nobody enables, removes *)
(* or replaces it.                                                         *)
THEOREM AddsOwnTheirRecords ==
  ASSUME OrphansDrain
  PROVE  Spec => []AddOwnsRecord
<1>1. ASSUME Base, NEW c \in Call,
             call[c].op = "add", call[c].pc = "queued", call[c].sess = gen
      PROVE  \E b \in registry : b.id = call[c].id /\ b.loc = call[c].loc /\ ~b.enabled
  <2>1. gen \in Gen /\ gen # 0 /\ call[c].cmd = "Z0"
    BY <1>1, BoundAssumption DEF Base, QueueInv, Pending, Gen
  <2>2. PICK i \in Places : queue[gen][i] = c
    BY <1>1 DEF Base, QueueInv, Pending, Places
  <2> QED
    BY <1>1, <2>1, <2>2 DEF Base, OrderInv, Place
<1>2. Base => AddOwnsRecord
  BY <1>1 DEF AddOwnsRecord
<1> QED
  BY <1>2, BaseInvariance, PTL

-----------------------------------------------------------------------------
(* The registry and the stub agree, when no reply is lost *)

Agreeing == Agreement /\ BreakpointsInRange

(* Records keep their places and their flags, and the stub its breakpoints. *)
LEMMA AgreementKept ==
  ASSUME Agreeing, UNCHANGED <<gen, ranges, installed>>,
         \A b \in registry' : \E d \in registry : SameSpot(b, d) /\ b.enabled = d.enabled,
         \A d \in registry : d.enabled => \E b \in registry' : SameSpot(b, d) /\ b.enabled = d.enabled
  PROVE  Agreeing'
<1>1. EnabledIsInstalled'
  BY DEF Agreeing, Agreement, EnabledIsInstalled, SameSpot
<1>2. \A l \in installed' : \E b \in registry' : b.loc = l /\ b.enabled
  <2> SUFFICES ASSUME NEW l \in installed
               PROVE  \E b \in registry' : b.loc = l /\ b.enabled
    OBVIOUS
  <2>1. PICK d \in registry : d.loc = l /\ d.enabled
    BY DEF Agreeing, Agreement
  <2> QED
    BY <2>1 DEF SameSpot
<1>3. BreakpointsInRange'
  BY DEF Agreeing, BreakpointsInRange, SameSpot
<1> QED
  BY <1>1, <1>2, <1>3 DEF Agreeing, Agreement

LEMMA AddAgreement ==
  ASSUME Base, Agreeing, NEW c \in Call, NEW l \in Loc, AddBreakpoint(c, l)
  PROVE  Agreeing'
<1>1. /\ gen # 0 /\ l \in ranges /\ CanAdd(l) /\ UNCHANGED <<gen, ranges, installed>>
      /\ registry' = registry \cup {NewRecord(l)} /\ nextId' = nextId + 1
  BY DEF AddBreakpoint, Begin, emulator, Base, TypeOK
<1>2. \A b \in registry' : b \in registry \/ (b.id = nextId /\ b.loc = l /\ ~b.enabled)
  BY <1>1, AddFacts DEF Base, TypeOK
<1> QED
  BY <1>1, <1>2 DEF Agreeing, Agreement, EnabledIsInstalled, BreakpointsInRange

LEMMA InsertAgreement ==
  ASSUME Base, Agreeing, ~RepliesLost, gen # 0, NEW c \in Call, NEW g \in Gen, Insert(c, g)
  PROVE  Agreeing'
<1>1. /\ queue[gen] # <<>> /\ Head(queue[gen]) = c /\ call[c].cmd = "Z0" /\ nextId' = nextId
      /\ installed' = installed \cup {call[c].loc} /\ UNCHANGED <<gen, ranges>>
  BY AnswerFacts DEF Answer, Insert
<1>2. PICK r \in registry : r.id = call[c].id /\ r.loc = call[c].loc
  BY <1>1, HeadPlace DEF Base, OrderInv
<1>3. MarkInstalled(r.id)
  BY <1>2 DEF Insert, Known
<1>4. /\ \A b \in registry' : (b \in registry /\ b.id # r.id) \/ (SameSpot(b, r) /\ b.enabled)
      /\ \A b \in registry : b.id # r.id => b \in registry'
      /\ \E b \in registry' : SameSpot(b, r) /\ b.enabled
  BY <1>1, <1>3, MarkFacts DEF Base, TypeOK
<1>5. EnabledIsInstalled'
  BY <1>1, <1>2, <1>4 DEF Agreeing, Agreement, EnabledIsInstalled, SameSpot
<1>6. ASSUME NEW l \in installed'
      PROVE  \E b \in registry' : b.loc = l /\ b.enabled
  <2>1. CASE l = r.loc
    BY <2>1, <1>4 DEF SameSpot
  <2>2. CASE l # r.loc
    <3>1. PICK d \in registry : d.loc = l /\ d.enabled
      BY <1>1, <1>2, <2>2 DEF Agreeing, Agreement
    <3>2. d.id # r.id
      BY <2>2, <3>1 DEF Base, TypeOK, RegistryOK
    <3> QED
      BY <1>4, <3>1, <3>2
  <2> QED
    BY <2>1, <2>2
<1>7. BreakpointsInRange'
  BY <1>1, <1>2, <1>4 DEF Agreeing, BreakpointsInRange, SameSpot
<1> QED
  BY <1>5, <1>6, <1>7 DEF Agreeing, Agreement

(* A removal takes its own breakpoint away: another record at its location *)
(* belongs to an add that is still behind it.                              *)
LEMMA DeleteAgreement ==
  ASSUME Base, Agreeing, ~RepliesLost, gen # 0, NEW c \in Call, NEW g \in Gen, Delete(c, g)
  PROVE  Agreeing'
<1>1. /\ queue[gen] # <<>> /\ Head(queue[gen]) = c /\ call[c].cmd = "z0" /\ nextId' = nextId
      /\ installed' = installed \ {call[c].loc} /\ UNCHANGED <<gen, ranges>>
      /\ registry' = Without(call[c].id)
  BY AnswerFacts DEF Answer, Delete
<1>2. /\ \A b \in registry' : b \in registry /\ b.id # call[c].id
      /\ \A b \in registry : b.id # call[c].id => b \in registry'
  BY <1>1, WithoutFacts DEF Base, TypeOK
<1>3. ASSUME NEW b \in registry, b.loc = call[c].loc, b.id # call[c].id
      PROVE  ~b.enabled
  <2>1. 1 \in Places /\ Place(1) = call[c]
    BY <1>1, HeadPlace DEF Base
  <2>2. PICK j \in Places : Place(j).cmd = "Z0" /\ Place(j).id = b.id
    BY <1>1, <1>3, <2>1 DEF Base, OrderInv
  <2>3. PICK d \in registry : d.id = Place(j).id /\ ~d.enabled
    BY <2>2 DEF Base, OrderInv
  <2> QED
    BY <2>2, <2>3 DEF Base, TypeOK, RegistryOK
<1>4. EnabledIsInstalled'
  BY <1>1, <1>2, <1>3 DEF Agreeing, Agreement, EnabledIsInstalled
<1>5. ASSUME NEW l \in installed'
      PROVE  \E b \in registry' : b.loc = l /\ b.enabled
  <2>1. PICK b \in registry : b.loc = l /\ b.enabled
    BY <1>1 DEF Agreeing, Agreement
  <2>2. b.id # call[c].id
    <3>1. 1 \in Places /\ Place(1) = call[c]
      BY <1>1, HeadPlace DEF Base
    <3> QED
      BY <1>1, <2>1, <3>1 DEF Base, OrderInv
  <2> QED
    BY <1>2, <2>1, <2>2
<1>6. BreakpointsInRange'
  BY <1>1, <1>2 DEF Agreeing, BreakpointsInRange
<1> QED
  BY <1>4, <1>5, <1>6 DEF Agreeing, Agreement

(* A refused add takes a record back that is not enabled. *)
LEMMA FailAgreement ==
  ASSUME Base, Agreeing, gen # 0, NEW c \in Call, NEW g \in Gen, Fail(c, g)
  PROVE  Agreeing'
<1>1. /\ queue[gen] # <<>> /\ Head(queue[gen]) = c /\ nextId' = nextId /\ Pending(c)
      /\ UNCHANGED <<gen, ranges, installed>>
  BY AnswerFacts DEF Answer, Fail, Rejected, emulator
<1>2. CASE call[c].op = "add"
  <2>1. registry' = Without(call[c].id) /\ call[c].cmd = "Z0"
    BY <1>1, <1>2 DEF Fail, Rejected, Base, QueueInv
  <2>2. /\ \A b \in registry' : b \in registry
        /\ \A b \in registry : b.id # call[c].id => b \in registry'
    BY <1>1, <2>1, WithoutFacts DEF Base, TypeOK
  <2>3. PICK r \in registry : r.id = call[c].id /\ ~r.enabled
    BY <1>1, <2>1, HeadPlace DEF Base, OrderInv
  <2>4. \A d \in registry : d.enabled => d \in registry'
    BY <2>2, <2>3 DEF Base, TypeOK, RegistryOK
  <2> QED
    BY <1>1, <2>2, <2>4, AgreementKept DEF SameSpot
<1>3. CASE call[c].op # "add"
  <2>1. registry' = registry
    BY <1>3 DEF Fail, Rejected
  <2> QED
    BY <1>1, <2>1, AgreementKept DEF SameSpot
<1> QED
  BY <1>2, <1>3

LEMMA ReadAgreement ==
  ASSUME Base, Agreeing, NEW c \in Call, NEW g \in Gen, ReadRegisters(c, g)
  PROVE  Agreeing'
<1>1. nextId' = nextId /\ UNCHANGED <<gen, ranges, installed>>
  BY DEF ReadRegisters, emulator
<1>2. CASE RecordHit(at)
  BY <1>1, <1>2, HitFacts, AgreementKept DEF Base, TypeOK
<1>3. CASE registry' = registry
  BY <1>1, <1>3, AgreementKept DEF SameSpot
<1> QED
  BY <1>2, <1>3 DEF ReadRegisters

LEMMA AgreementStep ==
  ASSUME ~RepliesLost, Base, Agreeing, [Next]_vars
  PROVE  Agreeing'
<1>1. ASSUME UNCHANGED <<gen, registry, ranges, installed>>
      PROVE  Agreeing'
  BY <1>1, AgreementKept DEF SameSpot
<1>2. CASE UNCHANGED vars
  BY <1>1, <1>2 DEF vars, ctrl, emulator
<1>3. ASSUME NEW c \in Call, Request(c)
      PROVE  Agreeing'
  <2>1. ASSUME NEW b \in registry, RemoveBreakpoint(c, b) PROVE Agreeing'
    BY <1>1, <2>1 DEF RemoveBreakpoint, ctrl, emulator
  <2>2. ASSUME NEW op \in ExecOps, Execute(c, op) PROVE Agreeing'
    BY <1>1, <2>2 DEF Execute, ctrl, emulator
  <2>3. CASE CaptureStopContext(c)
    BY <1>1, <2>3 DEF CaptureStopContext, ctrl, emulator
  <2> QED
    BY <1>3, <2>1, <2>2, <2>3, AddAgreement DEF Request
<1>4. ASSUME NEW c \in Call, NEW g \in Gen, Answer(c, g)
      PROVE  Agreeing'
  <2>1. CASE gen = 0
    BY <1>1, <1>4, <2>1, OrphansEnd DEF ctrl, emulator
  <2>2. CASE gen # 0
    <3>1. CASE QueryStop(c, g)
      BY <1>1, <3>1 DEF QueryStop, emulator
    <3>2. CASE Continue(c, g)
      BY <1>1, <3>2 DEF Continue, ctrl
    <3>3. CASE AwaitStop(c, g)
      BY <1>1, <3>3 DEF AwaitStop, Enrich, ctrl, emulator
    <3>4. CASE WaitTimesOut(c, g)
      BY <1>1, <3>4 DEF WaitTimesOut, ctrl, emulator
    <3> QED
      BY <1>4, <2>2, <3>1, <3>2, <3>3, <3>4, FailAgreement, InsertAgreement, DeleteAgreement,
         ReadAgreement DEF Answer
  <2> QED
    BY <2>1, <2>2
<1>5. ASSUME NEW R \in SUBSET (Loc \ MainLoc), ReplaceAdditionalRanges(R)
      PROVE  Agreeing'
  BY <1>5 DEF ReplaceAdditionalRanges, emulator, Agreeing, Agreement, EnabledIsInstalled,
              BreakpointsInRange
<1>6. ASSUME NEW l \in installed \cup {NoLoc}, TargetStops(l)
      PROVE  Agreeing'
  BY <1>1, <1>6 DEF TargetStops, Enrich, ctrl
<1>7. CASE StartEmulator \/ EmulatorExits
  <2>1. registry' = {} /\ installed' = {}
    BY <1>7 DEF StartEmulator, EmulatorExits
  <2> QED
    BY <2>1 DEF Agreeing, Agreement, EnabledIsInstalled, BreakpointsInRange
<1> QED
  BY <1>2, <1>3, <1>4, <1>5, <1>6, <1>7 DEF Next, Step

LEMMA AgreementInvariance ==
  ASSUME OrphansDrain, ~RepliesLost
  PROVE  Spec => [](Base /\ Agreeing)
<1>1. Init => Base /\ Agreeing
  BY InitBase DEF Init, Agreeing, Agreement, EnabledIsInstalled, BreakpointsInRange
<1>2. Base /\ Agreeing /\ [Next]_vars => (Base /\ Agreeing)'
  BY BaseStep, AgreementStep
<1> QED
  BY <1>1, <1>2, PTL DEF Spec

(* A breakpoint the controller reports enabled is in the emulator. *)
THEOREM EnabledAreInstalled ==
  ASSUME OrphansDrain, ~RepliesLost
  PROVE  Spec => []EnabledIsInstalled
<1>1. Base /\ Agreeing => EnabledIsInstalled
  BY DEF Agreeing, Agreement
<1> QED
  BY <1>1, AgreementInvariance, PTL

(* No breakpoint stays in the emulator without a record to remove it by. *)
THEOREM InstalledAreRegistered ==
  ASSUME OrphansDrain, ~RepliesLost
  PROVE  Spec => []InstalledIsRegistered
<1>1. Base /\ Agreeing => InstalledIsRegistered
  BY DEF Agreeing, Agreement, InstalledIsRegistered
<1> QED
  BY <1>1, AgreementInvariance, PTL

(* Replacing the executable ranges never strands a breakpoint outside them. *)
THEOREM RangesCoverBreakpoints ==
  ASSUME OrphansDrain, ~RepliesLost
  PROVE  Spec => []BreakpointsInRange
<1>1. Base /\ Agreeing => BreakpointsInRange
  BY DEF Agreeing
<1> QED
  BY <1>1, AgreementInvariance, PTL

-----------------------------------------------------------------------------
(* The hits counted are stops, when the client awaits each call *)

(* No call becomes pending or about to count, no stop is queued, nothing   *)
(* resumes, and no hit is counted.                                         *)
LEMMA HitsKept ==
  ASSUME HitInv,
         \A c \in Call : Pending(c)' => Pending(c),
         \A c \in Call : Counting(c)' => Counting(c),
         \A c \in Call : call'[c].cmd = "?" => call[c].cmd = "?",
         \A c \in Call : call'[c].op = call[c].op,
         \A g \in Gen : stopQueued'[g] => stopQueued[g],
         target' \in {0, target}, UNCHANGED <<at, stopsAt>>,
         \A b \in registry' : \E d \in registry : SameSpot(b, d) /\ b.hits = d.hits
  PROVE  HitInv'
<1>1. HitPending' => HitPending
  BY DEF HitPending
<1>2. ASSUME NEW b \in registry'
      PROVE  /\ b.hits <= stopsAt'[b.loc]
             /\ HitPending' /\ at' \in Loc /\ b.loc = at' => b.hits < stopsAt'[at']
  <2>1. PICK d \in registry : SameSpot(b, d) /\ b.hits = d.hits
    OBVIOUS
  <2> QED
    BY <1>1, <2>1 DEF HitInv, HitsMatchStops, SameSpot
<1>3. HitPending' => target' = 0 /\ (at' \in Loc => stopsAt'[at'] >= 1)
  BY <1>1 DEF HitInv
<1>4. /\ \A c, d \in Call : Pending(c)' /\ Pending(d)' => c = d
      /\ \A c \in Call, g \in Gen : Counting(c)' => ~stopQueued'[g]
      /\ \A c \in Call : call'[c].cmd = "?" => call'[c].op = "capture"
  BY DEF HitInv
<1> QED
  BY <1>2, <1>3, <1>4 DEF HitInv, HitsMatchStops

(* A call joins while no other is under way. *)
LEMMA JoinHits ==
  ASSUME Base, HitInv, awaiting, NEW c \in Call, NEW op, Begin(c, op),
         NEW r, Enqueue(c, gen, r), r.pc = "queued",
         r.op = "capture" \/ r.cmd \notin {"?", "g"},
         UNCHANGED <<stopQueued, target, at, stopsAt>>,
         RegistryOK',
         \A b \in registry' : b \in registry \/ b.hits = 0
  PROVE  HitInv'
<1>1. /\ \A d \in Call : ~Pending(d)
      /\ call'[c] = r /\ \A d \in Call : d # c => call'[d] = call[d]
  BY DEF Begin, Enqueue, Pending, Base, TypeOK
<1>2. \A d \in Call : ~Counting(d)'
  BY <1>1 DEF Counting, Pending, ExecOps
<1>3. HitPending' => HitPending
  BY <1>2 DEF HitPending
<1>4. /\ \A d, e \in Call : Pending(d)' /\ Pending(e)' => d = e
      /\ \A d \in Call : call'[d].cmd = "?" => call'[d].op = "capture"
  BY <1>1 DEF Pending, HitInv
<1>5. stopsAt \in [Loc -> Nat] /\ \A b \in registry' : b.loc \in Loc /\ b.hits \in Nat
  BY DEF Base, TypeOK, RegistryOK
<1>6. ASSUME NEW b \in registry'
      PROVE  /\ b.hits <= stopsAt[b.loc]
             /\ HitPending' /\ at \in Loc /\ b.loc = at => b.hits < stopsAt[at]
  <2>1. CASE b \in registry
    BY <1>3, <2>1 DEF HitInv, HitsMatchStops
  <2>2. CASE b.hits = 0
    BY <1>3, <1>5, <2>2 DEF HitInv
  <2> QED
    BY <2>1, <2>2
<1>7. HitPending' => target' = 0 /\ (at' \in Loc => stopsAt'[at'] >= 1)
  BY <1>3 DEF HitInv
<1> QED
  BY <1>2, <1>4, <1>6, <1>7 DEF HitInv, HitsMatchStops

LEMMA RequestHits ==
  ASSUME Base, HitInv, awaiting, NEW c \in Call, Request(c)
  PROVE  HitInv'
<1>1. ASSUME NEW l \in Loc, AddBreakpoint(c, l) PROVE HitInv'
  <2>1. /\ Begin(c, "add") /\ Enqueue(c, gen, NewCall("add", "Z0", nextId, l, 0))
        /\ CanAdd(l) /\ registry' = registry \cup {NewRecord(l)} /\ nextId' = nextId + 1
        /\ UNCHANGED <<stopQueued, target, at, stopsAt>>
    BY <1>1 DEF AddBreakpoint, emulator
  <2>2. RegistryOK' /\ \A b \in registry' : b \in registry \/ b.hits = 0
    BY <2>1, AddFacts DEF Base, TypeOK
  <2> QED
    BY <2>1, <2>2, JoinHits DEF NewCall
<1>2. RegistryOK' \/ registry' # registry \/ nextId' # nextId
  BY DEF Base, TypeOK, RegistryOK
<1>3. ASSUME NEW b \in registry, RemoveBreakpoint(c, b) PROVE HitInv'
  <2>1. /\ Begin(c, "remove") /\ Enqueue(c, gen, NewCall("remove", "z0", b.id, b.loc, 0))
        /\ UNCHANGED <<registry, nextId, stopQueued, target, at, stopsAt>>
    BY <1>3 DEF RemoveBreakpoint, ctrl, emulator
  <2> QED
    BY <1>2, <2>1, JoinHits DEF NewCall
<1>4. ASSUME NEW op \in ExecOps, Execute(c, op) PROVE HitInv'
  <2>1. /\ Begin(c, op) /\ Enqueue(c, gen, NewCall(op, op, 0, NoLoc, 0))
        /\ UNCHANGED <<registry, nextId, stopQueued, target, at, stopsAt>>
    BY <1>4 DEF Execute, ctrl, emulator
  <2> QED
    BY <1>2, <2>1, JoinHits DEF NewCall, ExecOps
<1>5. ASSUME CaptureStopContext(c) PROVE HitInv'
  <2>1. /\ Begin(c, "capture")
        /\ Enqueue(c, gen, NewCall("capture", IF lastStop = 0 THEN "?" ELSE "g", 0, NoLoc, lastStop))
        /\ UNCHANGED <<registry, nextId, stopQueued, target, at, stopsAt>>
    BY <1>5 DEF CaptureStopContext, ctrl, emulator
  <2> QED
    BY <1>2, <2>1, JoinHits DEF NewCall
<1> QED
  BY <1>1, <1>3, <1>4, <1>5 DEF Request

(* The one pending call ends, and counts nothing. *)
LEMMA EndHits ==
  ASSUME HitInv, NEW c \in Call, call'[c].pc = "done",
         call'[c].op = call[c].op, call'[c].cmd = call[c].cmd,
         \A d \in Call : d # c => call'[d] = call[d],
         \A g \in Gen : stopQueued'[g] => stopQueued[g],
         target' \in {0, target}, UNCHANGED <<at, stopsAt>>,
         \A b \in registry' : \E d \in registry : SameSpot(b, d) /\ b.hits = d.hits
  PROVE  HitInv'
<1>1. /\ \A d \in Call : Pending(d)' => Pending(d)
      /\ \A d \in Call : Counting(d)' => Counting(d)
      /\ \A d \in Call : call'[d].cmd = "?" => call[d].cmd = "?"
      /\ \A d \in Call : call'[d].op = call[d].op
  BY DEF Pending, Counting
<1> QED
  BY <1>1, HitsKept

(* The answers that end a call without a hit. *)
LEMMA EndsHits ==
  ASSUME Base, HitInv, gen # 0, NEW c \in Call, NEW g \in Gen,
         Fail(c, g) \/ Insert(c, g) \/ Delete(c, g) \/ WaitTimesOut(c, g)
  PROVE  HitInv'
<1>1. /\ queue[gen] # <<>> /\ Head(queue[gen]) = c /\ Pending(c) /\ End(c, g)
      /\ UNCHANGED <<stopQueued, target, at, stopsAt>> /\ nextId' = nextId
  BY AnswerFacts DEF Answer, Fail, Rejected, Insert, Delete, WaitTimesOut, ctrl, emulator
<1>2. /\ call'[c] = [call[c] EXCEPT !.pc = "done"] /\ call[c] \in CallRecord
      /\ \A d \in Call : d # c => call'[d] = call[d]
  BY <1>1, EndFacts DEF Base, TypeOK
<1>3. call'[c].pc = "done" /\ call'[c].op = call[c].op /\ call'[c].cmd = call[c].cmd
  BY <1>2 DEF CallRecord
<1>4. \A b \in registry' : \E d \in registry : SameSpot(b, d) /\ b.hits = d.hits
  <2>1. CASE registry' = registry
    BY <2>1 DEF SameSpot
  <2>2. CASE \E id : registry' = Without(id)
    BY <2>2 DEF Without, SameSpot
  <2>3. CASE Insert(c, g) /\ registry' # registry /\ ~(\E id : registry' = Without(id))
    <3>1. PICK r \in registry : r.id = call[c].id
      BY <2>3 DEF Insert, Known
    <3>2. MarkInstalled(r.id)
      BY <2>3, <3>1 DEF Insert, Known
    <3> QED
      BY <1>1, <3>2, MarkFacts DEF Base, TypeOK, SameSpot
  <2> QED
    BY <2>1, <2>2, <2>3 DEF Fail, Rejected, Delete, WaitTimesOut, ctrl
<1> QED
  BY <1>1, <1>2, <1>3, <1>4, EndHits

LEMMA QueryHits ==
  ASSUME Base, HitInv, NEW c \in Call, NEW g \in Gen, QueryStop(c, g)
  PROVE  HitInv'
<1> DEFINE r == [call[c] EXCEPT !.cmd = "g", !.shown = stops]
<1>1. /\ call[c].cmd = "?" /\ call[c].pc = "queued" /\ call[c] \in CallRecord
      /\ call' = [call EXCEPT ![c] = r]
      /\ UNCHANGED <<registry, stopQueued, target, at, stopsAt>>
  BY DEF QueryStop, Stopped, AtHead, emulator, Base, TypeOK
<1>2. r.cmd = "g" /\ r.op = call[c].op /\ r.pc = call[c].pc
  BY <1>1 DEF CallRecord
<1> HIDE DEF r
<1>3. call'[c] = r /\ \A d \in Call : d # c => call'[d] = call[d]
  BY <1>1 DEF Base, TypeOK
<1>4. call[c].op = "capture"
  BY <1>1 DEF HitInv
<1>5. /\ \A d \in Call : Pending(d)' => Pending(d)
      /\ \A d \in Call : Counting(d)' => Counting(d)
      /\ \A d \in Call : call'[d].cmd = "?" => call[d].cmd = "?"
      /\ \A d \in Call : call'[d].op = call[d].op
  BY <1>1, <1>2, <1>3, <1>4 DEF Pending, Counting, ExecOps
<1> QED
  BY <1>1, <1>5, HitsKept DEF SameSpot

(* The hit that was pending is counted, once. *)
LEMMA ReadHits ==
  ASSUME Base, HitInv, gen # 0, NEW c \in Call, NEW g \in Gen, ReadRegisters(c, g)
  PROVE  HitInv'
<1> DEFINE r == [call[c] EXCEPT !.pc = "done", !.shownAt = stops]
<1>1. /\ call[c].cmd = "g" /\ call[c].pc = "queued" /\ call[c] \in CallRecord
      /\ call' = [call EXCEPT ![c] = r]
      /\ UNCHANGED <<nextId, stopQueued, target, at, stopsAt>>
  BY DEF ReadRegisters, Stopped, AtHead, emulator, Base, TypeOK
<1>2. r.cmd = "g" /\ r.op = call[c].op /\ r.pc = "done"
  BY <1>1 DEF CallRecord
<1> HIDE DEF r
<1>3. call'[c] = r /\ \A d \in Call : d # c => call'[d] = call[d]
  BY <1>1 DEF Base, TypeOK
<1>4. CASE call[c].op \notin ExecOps
  <2>1. registry' = registry
    BY <1>4 DEF ReadRegisters
  <2> QED
    BY <1>1, <1>2, <1>3, <2>1, EndHits DEF SameSpot
<1>5. CASE call[c].op \in ExecOps
  <2>1. RecordHit(at) /\ Counting(c)
    BY <1>1, <1>5 DEF ReadRegisters, Counting
  <2>2. \A d \in Call : ~Pending(d)'
    <3>1. \A d \in Call : Pending(d) => d = c
      BY <2>1 DEF HitInv, Counting, Pending
    <3> QED
      BY <3>1, <1>2, <1>3 DEF Pending
  <2>3. ~HitPending'
    <3>1. \A q \in Gen : ~stopQueued'[q]
      BY <1>1, <2>1 DEF HitInv
    <3> QED
      BY <2>2, <3>1 DEF HitPending, Counting, Pending
  <2>4. HitPending
    BY <2>1 DEF HitPending
  <2>5. ASSUME NEW b \in registry'
        PROVE  b.hits <= stopsAt[b.loc]
    <3>1. PICK d \in registry : /\ SameSpot(b, d)
                                /\ b.hits = d.hits \/ (b.loc = at /\ b.hits = d.hits + 1)
      <4>1. RegistryOK /\ nextId' = nextId /\ b \in registry'
        BY <1>1, <2>5 DEF Base, TypeOK
      <4>2. \A x \in registry' : \E d \in registry :
               /\ SameSpot(x, d) /\ x.enabled = d.enabled
               /\ x.hits = d.hits \/ (x.loc = at /\ x.hits = d.hits + 1)
        BY <2>1, <4>1, HitFacts
      <4> QED
        BY <4>1, <4>2
    <3>2. d.loc \in Loc /\ d.hits \in Nat /\ stopsAt[d.loc] \in Nat
      BY DEF Base, TypeOK, RegistryOK
    <3>3. d.hits <= stopsAt[d.loc]
      BY DEF HitInv, HitsMatchStops
    <3>4. d.loc = at => d.hits < stopsAt[at]
      BY <2>4, <3>2 DEF HitInv
    <3> QED
      BY <3>1, <3>2, <3>3, <3>4 DEF SameSpot
  <2>6. \A d \in Call : call'[d].cmd = "?" => call'[d].op = "capture"
    BY <1>2, <1>3 DEF HitInv
  <2> QED
    BY <1>1, <2>2, <2>3, <2>5, <2>6 DEF HitInv, HitsMatchStops, HitPending, Counting, Pending
<1> QED
  BY <1>4, <1>5

(* The one call under way begins to wait: then no hit is pending. *)
LEMMA WaitHits ==
  ASSUME Base, HitInv, gen # 0, NEW c \in Call, Pending(c),
         call' = [call EXCEPT ![c].pc = "waiting"],
         \A q \in Gen : ~stopQueued'[q],
         UNCHANGED <<registry, at, stopsAt>>
  PROVE  HitInv'
<1> DEFINE r == [call[c] EXCEPT !.pc = "waiting"]
<1>1. call[c] \in CallRecord /\ call' = [call EXCEPT ![c] = r]
  BY DEF Base, TypeOK
<1>2. r.cmd = call[c].cmd /\ r.op = call[c].op /\ r.pc = "waiting"
  BY <1>1 DEF CallRecord
<1> HIDE DEF r
<1>3. call'[c] = r /\ \A d \in Call : d # c => call'[d] = call[d] /\ ~Pending(d)
  BY <1>1 DEF Base, TypeOK, HitInv
<1>4. \A d \in Call : ~Counting(d)'
  BY <1>2, <1>3 DEF Counting, Pending
<1>5. ~HitPending'
  BY <1>4 DEF HitPending
<1>6. \A d, e \in Call : Pending(d)' /\ Pending(e)' => d = e
  BY <1>3 DEF Pending
<1>7. \A d \in Call : call'[d].cmd = "?" => call'[d].op = "capture"
  BY <1>2, <1>3 DEF HitInv
<1> QED
  BY <1>4, <1>5, <1>6, <1>7 DEF HitInv, HitsMatchStops

(* The one call under way takes a stop, and may have a hit to count. *)
LEMMA TakeHits ==
  ASSUME Base, HitInv, gen # 0, NEW c \in Call, queue[gen] # <<>>, Head(queue[gen]) = c,
         call[c].cmd \in ExecOps, NEW n, Enrich(c, gen, n),
         \A q \in Gen : ~stopQueued'[q], target' = 0,
         at' \in Loc => stopsAt'[at'] >= 1 /\ \A b \in registry : b.loc = at' => b.hits < stopsAt'[at'],
         \A b \in registry : b.hits <= stopsAt'[b.loc]
  PROVE  HitInv'
<1>1. /\ \A d \in Call : d # c => call'[d] = call[d]
      /\ call'[c].pc = "done" \/ (call'[c].pc = "queued" /\ call'[c].cmd = "g")
      /\ registry' = registry
  BY EnrichFacts
<1>2. \A d \in Call : d # c => ~Pending(d)
  BY HeadPlace DEF Base, HitInv
<1>3. \A d, e \in Call : Pending(d)' /\ Pending(e)' => d = e
  BY <1>1, <1>2 DEF Pending
<1>4. \A d \in Call : call'[d].cmd = "?" => call'[d].op = "capture"
  <2>1. call'[c].cmd # "?"
    <3>1. CASE registry # {}
      <4>1. call'[c] = [call[c] EXCEPT !.cmd = "g", !.pc = "queued", !.sess = gen]
            /\ call[c] \in CallRecord
        BY <3>1 DEF Enrich, Base, TypeOK
      <4> QED
        BY <4>1 DEF CallRecord
    <3>2. CASE registry = {}
      <4>1. call'[c] = [call[c] EXCEPT !.pc = "done"] /\ call[c] \in CallRecord
        BY <3>2, EndFacts, HeadPlace DEF Enrich, Base, TypeOK
      <4> QED
        BY <4>1 DEF CallRecord, ExecOps
    <3> QED
      BY <3>1, <3>2
  <2> QED
    BY <1>1, <2>1 DEF HitInv
<1> QED
  BY <1>1, <1>3, <1>4 DEF HitInv, HitsMatchStops

LEMMA ContinueHits ==
  ASSUME Base, HitInv, gen # 0, NEW c \in Call, NEW g \in Gen, Continue(c, g)
  PROVE  HitInv'
<1>1. /\ g = gen /\ gen \in Gen /\ queue[gen] # <<>> /\ Head(queue[gen]) = c /\ Pending(c)
      /\ UNCHANGED <<registry, at, stopsAt>>
      /\ stopQueued' = [stopQueued EXCEPT ![gen] = @ /\ ConnectState(gen) # "stopped"]
  BY AnswerFacts DEF Answer, Continue, ctrl
<1>2. \A q \in Gen : /\ stopQueued'[q] => stopQueued[q] /\ q = gen
                     /\ stopQueued'[q] => ConnectState(gen) # "stopped"
  BY <1>1 DEF Base, TypeOK, GenInv
<1>3. CASE ConnectState(gen) = "stopped"
  <2>1. call' = [call EXCEPT ![c].pc = "waiting"]
    BY <1>1, <1>3 DEF Continue
  <2> QED
    BY <1>1, <1>2, <1>3, <2>1, WaitHits
<1>4. CASE ConnectState(gen) # "stopped"
  <2>1. End(c, g) /\ target' = target
    BY <1>1, <1>4 DEF Continue
  <2>2. /\ call'[c] = [call[c] EXCEPT !.pc = "done"] /\ call[c] \in CallRecord
        /\ \A d \in Call : d # c => call'[d] = call[d]
    BY <2>1, EndFacts DEF Base, TypeOK
  <2>3. call'[c].pc = "done" /\ call'[c].op = call[c].op /\ call'[c].cmd = call[c].cmd
    BY <2>2 DEF CallRecord
  <2> QED
    BY <1>1, <1>2, <2>1, <2>2, <2>3, EndHits DEF SameSpot
<1> QED
  BY <1>3, <1>4

LEMMA AwaitHits ==
  ASSUME Base, HitInv, gen # 0, NEW c \in Call, NEW g \in Gen, AwaitStop(c, g)
  PROVE  HitInv'
<1>1. /\ g = gen /\ gen \in Gen /\ queue[gen] # <<>> /\ Head(queue[gen]) = c /\ Pending(c)
      /\ call[c].cmd \in ExecOps /\ UNCHANGED <<target, at, stops, stopsAt>>
  BY AnswerFacts DEF Answer, AwaitStop, ExecOps, emulator
<1>2. CASE /\ call[c].cmd = "wait" /\ stopQueued[g]
           /\ stopQueued' = [stopQueued EXCEPT ![g] = FALSE]
           /\ Enrich(c, g, stops)
  <2>1. \A q \in Gen : ~stopQueued'[q]
    BY <1>1, <1>2 DEF Base, TypeOK, GenInv
  <2>2. HitPending
    BY <1>2 DEF HitPending
  <2>3. /\ target' = 0
        /\ at' \in Loc => stopsAt'[at'] >= 1 /\ \A b \in registry : b.loc = at' => b.hits < stopsAt'[at']
        /\ \A b \in registry : b.hits <= stopsAt'[b.loc]
    BY <1>1, <2>2 DEF HitInv, HitsMatchStops
  <2>4. Enrich(c, gen, stops)
    BY <1>1, <1>2
  <2> QED
    BY <1>1, <2>1, <2>3, <2>4, TakeHits
<1>3. CASE /\ sstate[g] = "running"
           /\ call' = [call EXCEPT ![c].pc = "waiting"]
           /\ UNCHANGED <<ctrl, queue, stopQueued>>
  <2>1. \A q \in Gen : ~stopQueued'[q]
    BY <1>1, <1>3 DEF Base, TypeOK, GenInv
  <2> QED
    BY <1>1, <1>3, <2>1, WaitHits DEF ctrl
<1>4. CASE End(c, g) /\ UNCHANGED <<ctrl, sstate, stopQueued>>
  <2>1. /\ call'[c] = [call[c] EXCEPT !.pc = "done"] /\ call[c] \in CallRecord
        /\ \A d \in Call : d # c => call'[d] = call[d]
    BY <1>4, EndFacts DEF Base, TypeOK
  <2>2. call'[c].pc = "done" /\ call'[c].op = call[c].op /\ call'[c].cmd = call[c].cmd
    BY <2>1 DEF CallRecord
  <2> QED
    BY <1>1, <1>4, <2>1, <2>2, EndHits DEF SameSpot, ctrl
<1> QED
  BY <1>2, <1>3, <1>4 DEF AwaitStop

(* While the target runs no hit is pending; its stop makes one. *)
LEMMA StopHits ==
  ASSUME Base, HitInv, NEW l \in installed \cup {NoLoc}, TargetStops(l)
  PROVE  HitInv'
<1>1. /\ gen # 0 /\ target = gen /\ gen \in Gen /\ l \in Loc \cup {NoLoc}
      /\ target' = 0 /\ at' = l
  BY BoundAssumption DEF TargetStops, Base, TypeOK, GenInv
<1>2. (\A c \in Call : ~Counting(c)) /\ (\A q \in Gen : ~stopQueued[q])
  BY <1>1 DEF HitInv, HitPending
<1>3. \A k \in Loc : /\ stopsAt[k] \in Nat /\ stopsAt'[k] \in Nat
                     /\ stopsAt[k] <= stopsAt'[k] /\ (k = l => stopsAt'[k] = stopsAt[k] + 1)
  <2>1. CASE l = NoLoc
    BY <2>1, LocAssumption DEF TargetStops, Base, TypeOK
  <2>2. CASE l # NoLoc
    BY <1>1, <2>2 DEF TargetStops, Base, TypeOK
  <2> QED
    BY <2>1, <2>2
<1>4. ASSUME NEW b \in registry
      PROVE  b.hits <= stopsAt'[b.loc] /\ (b.loc = l => b.hits < stopsAt'[l])
  <2>1. b.loc \in Loc /\ b.hits \in Nat /\ b.hits <= stopsAt[b.loc]
    BY DEF Base, TypeOK, RegistryOK, HitInv, HitsMatchStops
  <2> QED
    BY <1>3, <2>1
<1>5. at' \in Loc => stopsAt'[at'] >= 1 /\ \A b \in registry : b.loc = at' => b.hits < stopsAt'[at']
  BY <1>1, <1>3, <1>4
<1>6. ASSUME NEW c \in Call, Waiting(c, target), Enrich(c, target, stops + 1), UNCHANGED stopQueued
      PROVE  HitInv'
  <2>1. queue[gen] # <<>> /\ Head(queue[gen]) = c /\ call[c].pc = "waiting" /\ Pending(c)
    BY <1>1, <1>6 DEF Waiting, Pending
  <2>2. call[c].cmd \in ExecOps /\ Enrich(c, gen, stops + 1)
    BY <1>1, <1>6, <2>1 DEF Base, QueueInv
  <2>3. \A q \in Gen : ~stopQueued'[q]
    BY <1>2, <1>6
  <2> QED
    BY <1>1, <1>4, <1>5, <2>1, <2>2, <2>3, TakeHits
<1>7. ASSUME UNCHANGED <<ctrl, call>>
      PROVE  HitInv'
  <2>1. /\ \A c \in Call : Counting(c)' = Counting(c) /\ Pending(c)' = Pending(c)
        /\ registry' = registry
    BY <1>7 DEF Counting, Pending, ctrl
  <2>2. \A c \in Call : call'[c].cmd = "?" => call'[c].op = "capture"
    BY <1>7 DEF HitInv
  <2>3. \A c, d \in Call : Pending(c)' /\ Pending(d)' => c = d
    BY <2>1 DEF HitInv
  <2> QED
    BY <1>1, <1>2, <1>4, <1>5, <2>1, <2>2, <2>3 DEF HitInv, HitsMatchStops
<1> QED
  BY <1>6, <1>7 DEF TargetStops, sessions

LEMMA StartHits ==
  ASSUME Base, HitInv, StartEmulator
  PROVE  HitInv'
<1>1. registry' = {} /\ target' = 0 /\ at' = NoLoc /\ UNCHANGED <<stopQueued, call>>
  BY DEF StartEmulator, sessions
<1>2. \A c \in Call : Counting(c)' = Counting(c) /\ Pending(c)' = Pending(c)
  BY <1>1 DEF Counting, Pending
<1>3. at' \notin Loc
  BY <1>1, LocAssumption
<1> QED
  BY <1>1, <1>2, <1>3 DEF HitInv, HitsMatchStops

LEMMA ExitHits ==
  ASSUME Base, HitInv, EmulatorExits
  PROVE  HitInv'
<1>1. /\ registry' = {} /\ target' = 0 /\ UNCHANGED <<at, stopsAt>>
      /\ stopQueued' = [stopQueued EXCEPT ![gen] = FALSE]
  BY DEF EmulatorExits
<1>2. PICK hit \in SUBSET Heads :
        call' = [c \in Call |-> IF c \in hit THEN [call[c] EXCEPT !.pc = "done"] ELSE call[c]]
  BY DEF EmulatorExits
<1>3. \A q \in Gen : stopQueued'[q] => stopQueued[q]
  BY <1>1 DEF Base, TypeOK
<1>4. ASSUME NEW c \in Call
      PROVE  /\ Pending(c)' => Pending(c)
             /\ Counting(c)' => Counting(c)
             /\ call'[c].cmd = call[c].cmd /\ call'[c].op = call[c].op
  <2>1. CASE c \in hit
    <3>1. call'[c] = [call[c] EXCEPT !.pc = "done"] /\ call[c] \in CallRecord
      BY <1>2, <2>1 DEF Base, TypeOK
    <3>2. call'[c].pc = "done" /\ call'[c].cmd = call[c].cmd /\ call'[c].op = call[c].op
      BY <3>1 DEF CallRecord
    <3> QED
      BY <3>2 DEF Pending, Counting
  <2>2. CASE c \notin hit
    <3>1. call'[c] = call[c]
      BY <1>2, <2>2
    <3> QED
      BY <3>1 DEF Pending, Counting
  <2> QED
    BY <2>1, <2>2
<1> QED
  BY <1>1, <1>3, <1>4, HitsKept

LEMMA OrphanHits ==
  ASSUME Base, HitInv, gen = 0, NEW c \in Call, NEW g \in Gen, Answer(c, g)
  PROVE  HitInv'
<1>1. End(c, g) /\ UNCHANGED <<ctrl, stopQueued, emulator>>
  BY OrphansEnd
<1>2. /\ call'[c] = [call[c] EXCEPT !.pc = "done"] /\ call[c] \in CallRecord
      /\ \A d \in Call : d # c => call'[d] = call[d]
  BY <1>1, EndFacts DEF Base, TypeOK
<1>3. call'[c].pc = "done" /\ call'[c].op = call[c].op /\ call'[c].cmd = call[c].cmd
  BY <1>2 DEF CallRecord
<1> QED
  BY <1>1, <1>2, <1>3, EndHits DEF SameSpot, ctrl, emulator

LEMMA HitStep ==
  ASSUME Base, awaiting => HitInv, [Next]_vars
  PROVE  (awaiting => HitInv)'
<1> SUFFICES ASSUME awaiting, HitInv
             PROVE  HitInv'
  BY DEF Next, vars
<1>1. ASSUME UNCHANGED <<registry, stopQueued, call, target, at, stopsAt>>
      PROVE  HitInv'
  <2>1. \A c \in Call : Pending(c)' = Pending(c) /\ Counting(c)' = Counting(c)
    BY <1>1 DEF Pending, Counting
  <2> QED
    BY <1>1, <2>1, HitsKept DEF SameSpot
<1>2. CASE UNCHANGED vars
  BY <1>1, <1>2 DEF vars, ctrl, sessions, emulator
<1>3. ASSUME NEW R \in SUBSET (Loc \ MainLoc), ReplaceAdditionalRanges(R)
      PROVE  HitInv'
  BY <1>1, <1>3 DEF ReplaceAdditionalRanges, sessions, emulator
<1>4. ASSUME NEW c \in Call, NEW g \in Gen, Answer(c, g)
      PROVE  HitInv'
  <2>1. CASE gen = 0
    BY <1>4, <2>1, OrphanHits
  <2>2. CASE gen # 0
    BY <1>4, <2>2, EndsHits, QueryHits, ReadHits, ContinueHits, AwaitHits DEF Answer
  <2> QED
    BY <2>1, <2>2
<1> QED
  BY <1>2, <1>3, <1>4, RequestHits, StopHits, StartHits, ExitHits DEF Next, Step

(* With a client that awaits each call before it makes the next, the hits  *)
(* counted of a breakpoint never exceed the stops the target made at it    *)
(* since the emulator was started, whatever times out, is lost or exits.   *)
THEOREM AwaitedHitsAreStops ==
  ASSUME OrphansDrain
  PROVE  Spec => []AwaitedHitsMatchStops
<1> DEFINE I == Base /\ (awaiting => HitInv)
<1>1. Init => I
  <2> SUFFICES ASSUME Init PROVE HitInv
    BY InitBase
  <2>1. \A c \in Call : call[c].pc = "idle" /\ call[c].cmd = "none"
    BY DEF Init, Idle
  <2>2. registry = {} /\ target = 0 /\ at = NoLoc /\ \A g \in Gen : ~stopQueued[g]
    BY DEF Init
  <2> QED
    BY <2>1, <2>2, LocAssumption DEF HitInv, HitPending, Counting, Pending, HitsMatchStops
<1>2. I /\ [Next]_vars => I'
  BY BaseStep, HitStep
<1>3. I => AwaitedHitsMatchStops
  BY DEF HitInv, AwaitedHitsMatchStops
<1> QED
  BY <1>1, <1>2, <1>3, PTL DEF Spec
=============================================================================
