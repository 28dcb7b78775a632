------------------------ MODULE ChatBusDelivery_proofs ------------------------
(***************************************************************************)
(* What becomes of a request: it is lost only at the price of a failure,   *)
(* the answer its client gets is its own, or at least its own session's,   *)
(* and the line in which it waits is kept as WorkQueue promises.           *)
(***************************************************************************)
EXTENDS ChatBus_proofs, Counting

(***************************************************************************)
(* Losses.  A request is lost when it leaves the list or the listener      *)
(* without a final event on the global stream: with a step that stops the  *)
(* container or raises, and one request in hand per step.  SaveSession     *)
(* forgets a request too, which must be finished by then.                  *)
(***************************************************************************)
Losses == {r \in Requests : Lost(r)}

LossesCounted == AtMost(Losses, stops + faults)

SavedIsFinished == \A t \in Tenants : pc[t] = "save" => Finished(cur[t])

LossInv == LossesCounted /\ SavedIsFinished

\* A step loses no request, or charges one for the one it loses.
LEMMA LossesPaid ==
  ASSUME TypeOK, LossesCounted,
         \/ Losses' \subseteq Losses /\ UNCHANGED <<stops, faults>>
         \/ /\ \E x : Losses' \subseteq Losses \cup {x}
            /\ \/ stops' = stops + 1 /\ faults' = faults
               \/ stops' = stops /\ faults' = faults + 1
  PROVE  LossesCounted'
<1>1. /\ stops \in Nat /\ faults \in Nat /\ stops + faults \in Nat
      /\ AtMost(Losses, stops + faults)
  BY DEF TypeOK, LossesCounted
<1>2. CASE Losses' \subseteq Losses /\ UNCHANGED <<stops, faults>>
  <2>1. AtMost(Losses', stops + faults)
    BY <1>1, <1>2, CountNoMore
  <2> QED  BY <1>2, <2>1 DEF LossesCounted, AtMost
<1>3. ASSUME NEW x, Losses' \subseteq Losses \cup {x},
             \/ stops' = stops + 1 /\ faults' = faults
             \/ stops' = stops /\ faults' = faults + 1
      PROVE  LossesCounted'
  <2>1. AtMost(Losses', stops + faults + 1)
    BY <1>1, <1>3, CountOneMore
  <2>2. stops' + faults' = stops + faults + 1
    BY <1>1, <1>3
  <2> QED  BY <2>1, <2>2 DEF LossesCounted, AtMost
<1> QED  BY <1>2, <1>3

LEMMA LossInit == Init => LossInv
<1> SUFFICES ASSUME Init PROVE LossInv
  OBVIOUS
<1>1. Losses = {}
  <2>1. ASSUME NEW r \in Requests PROVE ~ Lost(r)
    BY ChatBusAssumption DEF Init, Lost
  <2> QED  BY <2>1 DEF Losses
<1>2. AtMost(Losses, 0)
  BY <1>1, CountNone
<1>3. LossesCounted
  BY <1>2 DEF Init, LossesCounted
<1>4. SavedIsFinished
  BY DEF Init, SavedIsFinished
<1> QED  BY <1>3, <1>4 DEF LossInv

\* What is finished stays so.
LEMMA StaysFinished ==
  ASSUME TypeOK, NEW r, Finished(r),
         \/ UNCHANGED global
         \/ \E e \in Event : global' = Append(global, e)
  PROVE  Finished(r)'
<1>1. global \in Seq(Event)
  BY DEF TypeOK
<1>2. PICK i \in 1 .. Len(global) : global[i].req = r
  BY DEF Finished
<1>3. i \in 1 .. Len(global') /\ global'[i] = global[i]
  BY <1>1, <1>2
<1> QED  BY <1>2, <1>3 DEF Finished

\* What is pushed next is not among what was popped.
LEMMA PushLosesNothing ==
  ASSUME TypeOK, QueueInv, NEW r \in Requests, PushInbound(r),
         UNCHANGED <<popped, cur, global>>
  PROVE  Losses' \subseteq Losses
<1> SUFFICES ASSUME NEW q \in Requests, Lost(q)' PROVE Lost(q)
  BY DEF Losses
<1>1. TenantOf[r] \in Tenants
  BY ChatBusAssumption
<1>2. ticket' = [ticket EXCEPT ![r] = pushed[TenantOf[r]] + 1]
  BY DEF PushInbound
<1>3. CASE q # r
  <2>1. ticket'[q] = ticket[q]
    BY <1>2, <1>3 DEF TypeOK
  <2> QED  BY <2>1 DEF Lost, Finished
<1>4. CASE q = r
  <2>1. ticket'[q] = pushed[TenantOf[q]] + 1
    BY <1>2, <1>4 DEF TypeOK
  <2>2. /\ Len(inbound[TenantOf[q]]) = pushed[TenantOf[q]] - popped[TenantOf[q]]
        /\ Len(inbound[TenantOf[q]]) \in Nat
        /\ pushed[TenantOf[q]] \in Nat /\ popped[TenantOf[q]] \in Nat
    BY <1>1, <1>4 DEF QueueInv, FifoOrder, TypeOK
  <2>3. pushed[TenantOf[q]] + 1 \notin 1 .. popped[TenantOf[q]]
    BY <2>2
  <2> QED  BY <2>1, <2>3 DEF Lost
<1> QED  BY <1>3, <1>4

\* A pop takes the oldest request out of the list and no other.
LEMMA PopLosesOldest ==
  ASSUME TypeOK, QueueInv, NEW t \in Tenants, PopInbound(t), cur[t] = NoReq,
         \A u \in Tenants : u # t => cur'[u] = cur[u],
         UNCHANGED <<ticket, global>>
  PROVE  /\ Oldest(inbound[t]) \in Requests
         /\ Losses' \subseteq Losses \cup {Oldest(inbound[t])}
         /\ cur'[t] = Oldest(inbound[t]) => Losses' \subseteq Losses
<1> DEFINE o == Oldest(inbound[t])
           n == Len(inbound[t])
<1>1. /\ inbound[t] \in Seq(Requests) /\ inbound[t] # <<>>
      /\ pushed[t] \in Nat /\ popped[t] \in Nat
      /\ popped' = [popped EXCEPT ![t] = popped[t] + 1]
  BY DEF TypeOK, PopInbound
<1>2. n \in 1 .. Len(inbound[t]) /\ n \in Nat
  BY <1>1
<1>3. n = pushed[t] - popped[t] /\ TenantOf[inbound[t][n]] = t
      /\ ticket[inbound[t][n]] = pushed[t] + 1 - n
  BY <1>2 DEF QueueInv, FifoOrder
<1>4. o = inbound[t][n] /\ o \in Requests
  BY <1>1, <1>2 DEF Oldest
<1> HIDE DEF o, n
<1>5. ticket[o] = popped[t] + 1 /\ TenantOf[o] = t
  BY <1>1, <1>2, <1>3, <1>4
<1>6. ASSUME NEW q \in Requests, Lost(q)' PROVE Lost(q) \/ (q = o /\ cur'[t] # q)
  <2>1. TenantOf[q] \in Tenants
    BY ChatBusAssumption
  <2>2. /\ ticket[q] \in 1 .. popped'[TenantOf[q]]
        /\ cur'[TenantOf[q]] # q /\ ~ Finished(q)
    BY <1>6 DEF Lost, Finished
  <2>3. CASE TenantOf[q] # t
    BY <1>1, <2>1, <2>2, <2>3 DEF Lost, TypeOK
  <2>4. CASE TenantOf[q] = t /\ ticket[q] = popped[t] + 1
    <3>1. q = o
      BY <1>1, <1>4, <1>5, <2>4 DEF QueueInv, TicketsUnique
    <3> QED  BY <2>2, <2>4, <3>1
  <2>5. CASE TenantOf[q] = t /\ ticket[q] # popped[t] + 1
    <3>1. ticket[q] \in 1 .. popped[t]
      BY <1>1, <2>1, <2>2, <2>5 DEF TypeOK
    <3>2. cur[t] # q
      BY ChatBusAssumption
    <3> QED  BY <2>2, <2>5, <3>1, <3>2 DEF Lost
  <2> QED  BY <2>3, <2>4, <2>5
<1>7. Losses' \subseteq Losses \cup {o} /\ (cur'[t] = o => Losses' \subseteq Losses)
  BY <1>6 DEF Losses
<1> QED  BY <1>4, <1>7 DEF o

\* Forgetting what a listener handles loses that request at most.
LEMMA ForgetLosesCurrent ==
  ASSUME TypeOK, NEW t \in Tenants, Forget(t), UNCHANGED <<ticket, popped>>,
         \/ UNCHANGED global
         \/ \E e \in Event : global' = Append(global, e)
  PROVE  Losses' \subseteq Losses \cup {cur[t]}
<1> SUFFICES ASSUME NEW q \in Requests, Lost(q)', q # cur[t] PROVE Lost(q)
  BY DEF Losses
<1>1. TenantOf[q] \in Tenants
  BY ChatBusAssumption
<1>2. ~ Finished(q)
  BY StaysFinished DEF Lost
<1>3. cur[TenantOf[q]] # q
  BY <1>1 DEF Lost, Forget, TypeOK
<1> QED  BY <1>2, <1>3 DEF Lost

LEMMA LossStep == TypeInv /\ QueueInv /\ LossInv /\ [Next]_vars => LossInv'
<1> USE DEF gwVars, redisVars, agentVars, clientVars, histVars, budgetVars, vars
<1> SUFFICES ASSUME TypeInv, QueueInv, LossInv, [Next]_vars PROVE LossInv'
  OBVIOUS
<1>ty. TypeOK /\ HandlesARequest /\ LossesCounted /\ SavedIsFinished
  BY DEF TypeInv, LossInv
<1>none. ASSUME Losses' \subseteq Losses,
                \/ UNCHANGED <<stops, faults>>
                \/ UNCHANGED stops /\ faults' = faults + 1
         PROVE  LossesCounted'
  BY <1>ty, <1>none, LossesPaid
<1>one. ASSUME NEW x, Losses' \subseteq Losses \cup {x},
               \/ stops' = stops + 1 /\ faults' = faults
               \/ stops' = stops /\ faults' = faults + 1
        PROVE  LossesCounted'
  BY <1>ty, <1>one, LossesPaid
\* Steps of the gateway and its clients, and those of a listener that keep what it handles.
<1>same. ASSUME UNCHANGED <<ticket, popped, cur, global>>
         PROVE  Losses' \subseteq Losses
  BY <1>same DEF Losses, Lost, Finished
<1>sv. ASSUME \A t \in Tenants : pc'[t] = "save" =>
                 Finished(cur[t])' \/ (pc[t] = "save" /\ cur'[t] = cur[t]),
              \/ UNCHANGED global
              \/ \E e \in Event : global' = Append(global, e)
       PROVE  SavedIsFinished'
  <2> SUFFICES ASSUME NEW t \in Tenants, pc'[t] = "save", pc[t] = "save", cur'[t] = cur[t]
               PROVE  Finished(cur[t])'
    BY <1>sv DEF SavedIsFinished, Finished
  <2>1. Finished(cur[t])
    BY <1>ty DEF SavedIsFinished
  <2>2. \E r : r = cur[t]
    OBVIOUS
  <2>3. PICK r : r = cur[t]
    BY <2>2
  <2>4. Finished(r)'
    BY <1>sv, <1>ty, <2>1, <2>3, StaysFinished DEF Finished
  <2> QED  BY <2>3, <2>4 DEF Finished
<1>1. ASSUME NEW r \in Requests, ResolveTenant(r) PROVE LossInv'
  <2>1. UNCHANGED <<ticket, popped, cur, global, stops, faults>>
    BY <1>1 DEF ResolveTenant
  <2>2. \A t \in Tenants : pc'[t] = "save" => pc[t] = "save"
    BY <1>1, <1>ty DEF ResolveTenant, TypeOK
  <2> QED  BY <2>1, <2>2, <1>none, <1>same, <1>sv DEF LossInv
<1>2. ASSUME NEW r \in Requests, PublishRequest(r) \/ PublishRequestRaises(r) PROVE LossInv'
  <2>1. /\ UNCHANGED <<popped, cur, global, pc, stops>>
        /\ faults' = faults \/ faults' = faults + 1
        /\ PushInbound(r) \/ UNCHANGED ticket
    BY <1>2 DEF PublishRequest, PublishRequestRaises
  <2>2. Losses' \subseteq Losses
    BY <2>1, <1>ty, <1>same, PushLosesNothing
  <2> QED  BY <2>1, <2>2, <1>none, <1>sv DEF LossInv
<1>3. ASSUME NEW r \in Requests, Stream(r) \/ Disconnect(r) PROVE LossInv'
  <2>1. UNCHANGED <<ticket, popped, cur, global, pc, stops, faults>>
    BY <1>3 DEF Stream, OpenStream, ReadBatch, DeliverEvent, Disconnect
  <2> QED  BY <2>1, <1>none, <1>same, <1>sv DEF LossInv
<1>4. ASSUME NEW t \in Tenants,
             RunEnds(t) \/ PublishFinal(t) \/ Backoff(t) \/ PublishProgress(t)
      PROVE  LossInv'
  <2>1. UNCHANGED <<ticket, popped, cur, global, stops, faults>>
    BY <1>4 DEF RunEnds, PublishFinal, Backoff, PublishProgress
  <2>2. \A u \in Tenants : pc'[u] = "save" => pc[u] = "save"
    BY <1>4, <1>ty DEF RunEnds, PublishFinal, Backoff, PublishProgress, TypeOK
  <2> QED  BY <2>1, <2>2, <1>none, <1>same, <1>sv DEF LossInv
<1>5. ASSUME NEW t \in Tenants, ConsumeRequest(t) PROVE LossInv'
  <2>1. cur[t] = NoReq
    BY <1>5, <1>ty DEF ConsumeRequest, HandlesARequest, Busy
  <2>2. /\ PopInbound(t) /\ UNCHANGED <<ticket, global, stops, faults>>
        /\ cur'[t] = Oldest(inbound[t])
        /\ \A u \in Tenants : u # t => cur'[u] = cur[u] /\ pc'[u] = pc[u]
        /\ pc'[t] = "run"
    BY <1>5, <1>ty DEF ConsumeRequest, TypeOK
  <2>3. Losses' \subseteq Losses
    BY <2>1, <2>2, <1>ty, PopLosesOldest
  <2> QED  BY <2>2, <2>3, <1>none, <1>sv DEF LossInv
<1>6. ASSUME NEW t \in Tenants, ConsumeRaises(t) PROVE LossInv'
  <2>1. cur[t] = NoReq
    BY <1>6, <1>ty DEF ConsumeRaises, HandlesARequest, Busy
  <2>2. /\ UNCHANGED <<ticket, global, cur, stops>> /\ faults' = faults + 1
        /\ PopInbound(t) \/ UNCHANGED popped
        /\ \A u \in Tenants : pc'[u] = "save" => pc[u] = "save"
    BY <1>6, <1>ty DEF ConsumeRaises, TypeOK
  <2>3. LossesCounted'
    <3>1. CASE PopInbound(t)
      BY <2>1, <2>2, <3>1, <1>ty, <1>one, PopLosesOldest
    <3>2. CASE UNCHANGED popped
      BY <2>2, <3>2, <1>none, <1>same
    <3> QED  BY <2>2, <3>1, <3>2
  <2> QED  BY <2>2, <2>3, <1>sv DEF LossInv
<1>7. ASSUME NEW t \in Tenants, PublishFinalGlobal(t) PROVE LossInv'
  <2>1. /\ pc[t] \in {"done2", "err2"} /\ global' = Append(global, Final(t))
        /\ UNCHANGED <<ticket, popped, stops, faults>>
        /\ UNCHANGED cur \/ Forget(t)
        /\ \A u \in Tenants : u # t => cur'[u] = cur[u] /\ pc'[u] = pc[u]
        /\ pc'[t] = "save" => cur'[t] = cur[t]
    BY <1>7, <1>ty DEF PublishFinalGlobal, Forget, TypeOK
  <2>2. Final(t) \in Event /\ Final(t).req = cur[t]
    BY <2>1, <1>ty, FinalType DEF HandlesARequest, Busy, Final
  <2>3. \A r : r = cur[t] => Finished(r)'
    <3>1. global \in Seq(Event)
      BY <1>ty DEF TypeOK
    <3>2. Len(global) + 1 \in 1 .. Len(global') /\ global'[Len(global) + 1] = Final(t)
      BY <2>1, <2>2, <3>1
    <3> QED  BY <2>2, <3>2 DEF Finished
  <2>4. Losses' \subseteq Losses
    <3> SUFFICES ASSUME NEW q \in Requests, Lost(q)' PROVE Lost(q)
      BY DEF Losses
    <3>1. q # cur[t]
      BY <2>3 DEF Lost
    <3>2. CASE UNCHANGED cur
      <4>1. ~ Finished(q)
        BY <2>1, <2>2, <1>ty, StaysFinished DEF Lost
      <4> QED  BY <2>1, <3>2, <4>1 DEF Lost
    <3>3. CASE Forget(t)
      BY <2>1, <2>2, <3>1, <3>3, <1>ty, ForgetLosesCurrent DEF Losses
    <3> QED  BY <2>1, <3>2, <3>3
  <2>5. \A u \in Tenants : pc'[u] = "save" =>
          Finished(cur[u])' \/ (pc[u] = "save" /\ cur'[u] = cur[u])
    <3> SUFFICES ASSUME NEW u \in Tenants, pc'[u] = "save", u = t
                 PROVE  Finished(cur[u])'
      BY <2>1
    <3>1. cur'[u] = cur[t]
      BY <2>1
    <3> QED  BY <2>3, <3>1 DEF Finished
  <2> QED  BY <2>1, <2>2, <2>4, <2>5, <1>none, <1>sv DEF LossInv
<1>8. ASSUME NEW t \in Tenants, SaveSession(t) PROVE LossInv'
  <2>1. /\ pc[t] = "save" /\ UNCHANGED <<ticket, popped, global, stops, faults>> /\ Forget(t)
        /\ \A u \in Tenants : pc'[u] = "save" => u # t /\ pc[u] = "save"
        /\ \A u \in Tenants : u # t => cur'[u] = cur[u]
    BY <1>8, <1>ty DEF SaveSession, Forget, TypeOK
  <2>2. Finished(cur[t])
    BY <2>1, <1>ty DEF SavedIsFinished
  <2>3. Losses' \subseteq Losses
    <3> SUFFICES ASSUME NEW q \in Requests, Lost(q)' PROVE Lost(q)
      BY DEF Losses
    <3>1. ~ Finished(q)
      BY <2>1 DEF Lost, Finished
    <3>2. q # cur[t]
      BY <2>2, <3>1
    <3> QED  BY <2>1, <3>2, <1>ty, ForgetLosesCurrent DEF Losses
  <2> QED  BY <2>1, <2>3, <1>none, <1>sv DEF LossInv
<1>9. ASSUME NEW t \in Tenants, ContainerGone(t) \/ Provision(t) PROVE LossInv'
  <2>1. /\ UNCHANGED <<ticket, popped, global, faults>> /\ stops' = stops + 1 /\ Forget(t)
        /\ \A u \in Tenants : pc'[u] = "save" => u # t /\ pc[u] = "save"
        /\ \A u \in Tenants : u # t => cur'[u] = cur[u]
    BY <1>9, <1>ty DEF ContainerGone, Provision, Forget, TypeOK
  <2>2. Losses' \subseteq Losses \cup {cur[t]}
    BY <2>1, <1>ty, ForgetLosesCurrent
  <2> QED  BY <2>1, <2>2, <1>one, <1>sv DEF LossInv
<1>10. ASSUME NEW t \in Tenants, PublishFinalRaises(t) PROVE LossInv'
  <2>1. /\ pc[t] \in {"done1", "done2", "err1", "err2"}
        /\ UNCHANGED <<ticket, popped, stops>> /\ faults' = faults + 1
        /\ UNCHANGED global \/ global' = Append(global, Final(t))
        /\ UNCHANGED cur \/ Forget(t)
        /\ \A u \in Tenants : pc'[u] = "save" => u # t /\ pc[u] = "save"
        /\ \A u \in Tenants : u # t => cur'[u] = cur[u]
    BY <1>10, <1>ty DEF PublishFinalRaises, Forget, TypeOK
  <2>2. Final(t) \in Event
    BY <2>1, <1>ty, FinalType DEF HandlesARequest, Busy
  <2>3. Losses' \subseteq Losses \cup {cur[t]}
    <3>1. CASE UNCHANGED cur
      <4> SUFFICES ASSUME NEW q \in Requests, Lost(q)' PROVE Lost(q)
        BY DEF Losses
      <4>1. ~ Finished(q)
        BY <2>1, <2>2, <1>ty, StaysFinished DEF Lost
      <4> QED  BY <2>1, <3>1, <4>1 DEF Lost
    <3>2. CASE Forget(t)
      BY <2>1, <2>2, <3>2, <1>ty, ForgetLosesCurrent DEF Losses
    <3> QED  BY <2>1, <3>1, <3>2
  <2> QED  BY <2>1, <2>2, <2>3, <1>one, <1>sv DEF LossInv
<1>11. CASE UNCHANGED vars
  BY <1>11, <1>none, <1>same, <1>sv DEF LossInv
<1> QED
  BY <1>1, <1>2, <1>3, <1>4, <1>5, <1>6, <1>7, <1>8, <1>9, <1>10, <1>11 DEF Next, Listener

\* The listener drops no request silently: every one that was popped and is neither
\* handled nor finished is paid for by a container that ended or a Redis call that
\* raised, one each, for any number of tenants, requests and failures.
THEOREM LossesAlwaysCharged == Spec => []LossesAreCharged
<1>1. LossInv => LossesAreCharged
  BY DEF LossInv, LossesCounted, LossesAreCharged, Losses, AtMost
<1>2. Spec => []TypeInv
  BY TypeInvHolds
<1>3. Spec => []QueueInv
  BY QueueInvHolds
<1> QED  BY <1>1, <1>2, <1>3, LossInit, LossStep, PTL DEF Spec

(***************************************************************************)
(* Answers.  The clients of a session work in turns and resume, and no     *)
(* Redis call has raised.  Then at most one request of a session is in     *)
(* progress; the others are not posted yet, or ended with a final event of *)
(* their own, after which the agent adds no event of theirs.  The reader   *)
(* of the next request starts behind that event, wherever the container    *)
(* was stopped or the connection dropped in between.                       *)
(***************************************************************************)
FinalEvent(e) == e.kind \in Terminal

Publishing == {"run", "done1", "err1"}

OwnStream ==
  \A k \in Keys : \A j \in 1 .. Len(outbound[k]) : GatewayKey(On(k, j).req) = k

FinalIsLast ==
  \A k \in Keys : \A j \in 1 .. Len(outbound[k]) : \A i \in 1 .. j - 1 :
    On(k, i).req = On(k, j).req => ~FinalEvent(On(k, i))

NoFinalYet ==
  \A t \in Tenants : pc[t] \in Publishing =>
    \A k \in Keys : \A j \in 1 .. Len(outbound[k]) :
      On(k, j).req = cur[t] => ~FinalEvent(On(k, j))

\* The agent's part of the invariant.
AgentInv == OwnStream /\ FinalIsLast /\ NoFinalYet

InProgress(r) == gw[r] \in {"resolved", "posted"} /\ sse[r].st # "ended"

OneInProgress ==
  \A q, r \in Requests :
    GatewayKey(q) = GatewayKey(r) /\ InProgress(q) /\ InProgress(r) => q = r

NoneFailed == \A r \in Requests : gw[r] # "failed"

OpenIsPosted == \A r \in Requests : sse[r].st # "closed" => gw[r] = "posted"

EndedWasFinished ==
  \A r \in Requests : sse[r].st = "ended" =>
    \E j \in 1 .. Len(outbound[GatewayKey(r)]) :
      On(GatewayKey(r), j).req = r /\ FinalEvent(On(GatewayKey(r), j))

EndedWasSeen ==
  \A k \in Keys : \A j \in 1 .. Len(outbound[k]) :
    sse[On(k, j).req].st = "ended" => j <= seen[k]

OpenFromSeen == \A r \in Requests : sse[r].st = "open" => seen[GatewayKey(r)] <= sse[r].last

\* The clients' part.
ClientInv ==
  /\ OneInProgress /\ NoneFailed /\ OpenIsPosted
  /\ EndedWasFinished /\ EndedWasSeen /\ OpenFromSeen
  /\ AnswerIsOwn

InTurns == ClientSerial /\ ClientResumes /\ faults = 0
AnswerInv == InTurns => AgentInv /\ ClientInv

LEMMA AnswerInit == Init => AnswerInv
<1> SUFFICES ASSUME Init PROVE AgentInv /\ ClientInv
  BY DEF AnswerInv
<1>1. AgentInv
  BY DEF Init, AgentInv, OwnStream, FinalIsLast, NoFinalYet
<1>2. \A r \in Requests : GatewayKey(r) \in Keys
  BY DEF Keys
<1>3. OneInProgress /\ NoneFailed /\ OpenIsPosted /\ AnswerIsOwn
  BY DEF Init, OneInProgress, InProgress, NoneFailed, OpenIsPosted, AnswerIsOwn
<1>4. EndedWasFinished /\ EndedWasSeen /\ OpenFromSeen
  BY <1>2 DEF Init, EndedWasFinished, EndedWasSeen, OpenFromSeen
<1> QED  BY <1>1, <1>3, <1>4 DEF ClientInv

\* Every event is of a request that was posted.
LEMMA StreamedWasPosted ==
  ASSUME TypeOK, Untouched, StreamedWasPopped, NoneFailed,
         NEW k \in Keys, NEW j \in 1 .. Len(outbound[k])
  PROVE  On(k, j) \in Event /\ On(k, j).req \in Requests /\ gw[On(k, j).req] = "posted"
<1>0. On(k, j) \in Event
  BY DEF On, TypeOK
<1>1. On(k, j) \in Event /\ On(k, j).req \in Requests
  BY <1>0 DEF Event
<1>2. ticket[On(k, j).req] \in 1 .. popped[TenantOf[On(k, j).req]]
  BY DEF StreamedWasPopped
<1>3. ticket[On(k, j).req] # 0
  BY <1>1, <1>2
<1> QED  BY <1>1, <1>3 DEF Untouched, TypeOK, NoneFailed

\* What the agent does without publishing: it keeps its request and does not go
\* back, or it has none, or it takes one that no stream has an event of.
LEMMA AgentQuiet ==
  ASSUME TypeOK, AgentInv, UNCHANGED outbound,
         \A t \in Tenants :
           \/ pc'[t] \notin Publishing
           \/ pc[t] \in Publishing /\ cur'[t] = cur[t]
           \/ \A k \in Keys : \A j \in 1 .. Len(outbound[k]) : On(k, j).req # cur'[t]
  PROVE  AgentInv'
<1>1. OwnStream'
  BY DEF AgentInv, OwnStream, On, GatewayKey
<1>2. FinalIsLast'
  BY DEF AgentInv, FinalIsLast, On, FinalEvent
<1>3. NoFinalYet'
  BY DEF AgentInv, NoFinalYet, On, FinalEvent
<1> QED  BY <1>1, <1>2, <1>3 DEF AgentInv

\* An event the agent publishes for the request in its hand.
LEMMA AgentPublishes ==
  ASSUME TypeInv, QueueInv, AgentInv, NEW t \in Tenants, pc[t] \in Publishing, UNCHANGED cur,
         NEW e \in Event, e.req = cur[t], AddToSession(AgentKey(cur[t]), e),
         FinalEvent(e) => pc'[t] \notin Publishing,
         \A u \in Tenants : u # t => pc'[u] = pc[u]
  PROVE  AgentInv'
<1>0. cur[t] \in Requests /\ AgentKey(cur[t]) = GatewayKey(cur[t]) /\ GatewayKey(cur[t]) \in Keys
  BY NormalizeIdempotent DEF TypeInv, TypeOK, Event, Keys
<1> DEFINE n == Len(outbound[GatewayKey(cur[t])]) + 1
<1>1. \A l \in Keys : \A j \in 1 .. Len(outbound'[l]) :
        \/ j \in 1 .. Len(outbound[l]) /\ outbound'[l][j] = On(l, j)
        \/ l = GatewayKey(cur[t]) /\ j = n /\ outbound'[l][j] = e
  BY <1>0, AddToSessionEntries DEF TypeInv, On
<1>2. \A l \in Keys : Len(outbound[l]) \in Nat /\ Len(outbound'[l]) \in Nat
  <2>1. outbound \in [Keys -> Seq(Event)] /\ outbound' \in [Keys -> Seq(Event)]
    BY <1>0, AddToSessionType DEF TypeInv, TypeOK
  <2> QED  BY <2>1
<1>3. \A l \in Keys : \A j \in 1 .. Len(outbound[l]) : On(l, j).req = cur[t] => ~FinalEvent(On(l, j))
  BY DEF AgentInv, NoFinalYet
<1> HIDE DEF n
<1>4. OwnStream'
  <2> SUFFICES ASSUME NEW k \in Keys, NEW j \in 1 .. Len(outbound'[k])
               PROVE  GatewayKey(outbound'[k][j].req) = k
    BY DEF OwnStream, On, GatewayKey
  <2> QED  BY <1>1 DEF AgentInv, OwnStream
<1>5. FinalIsLast'
  <2> SUFFICES ASSUME NEW k \in Keys, NEW j \in 1 .. Len(outbound'[k]), NEW i \in 1 .. j - 1,
                      outbound'[k][i].req = outbound'[k][j].req
               PROVE  ~FinalEvent(outbound'[k][i])
    BY DEF FinalIsLast, On, FinalEvent
  <2>1. i \in 1 .. Len(outbound'[k]) /\ i < j
    BY <1>2
  <2>2. i \in 1 .. Len(outbound[k]) /\ outbound'[k][i] = On(k, i)
    BY <1>1, <1>2, <2>1 DEF n
  <2>3. CASE j \in 1 .. Len(outbound[k]) /\ outbound'[k][j] = On(k, j)
    BY <2>2, <2>3 DEF AgentInv, FinalIsLast
  <2>4. CASE outbound'[k][j] = e
    BY <1>3, <2>2, <2>4
  <2> QED  BY <1>1, <2>3, <2>4
<1>6. NoFinalYet'
  <2> SUFFICES ASSUME NEW u \in Tenants, pc'[u] \in Publishing,
                      NEW k \in Keys, NEW j \in 1 .. Len(outbound'[k]),
                      outbound'[k][j].req = cur[u]
               PROVE  ~FinalEvent(outbound'[k][j])
    BY DEF NoFinalYet, On, FinalEvent
  <2>1. CASE outbound'[k][j] = e
    <3>1. cur[u] # NoReq => TenantOf[cur[u]] = u
      BY DEF QueueInv, FifoOrder
    <3>2. cur[u] = cur[t] /\ TenantOf[cur[t]] = t /\ cur[t] # NoReq
      BY <1>0, <2>1, ChatBusAssumption DEF QueueInv, FifoOrder
    <3> QED  BY <2>1, <3>1, <3>2
  <2>2. CASE j \in 1 .. Len(outbound[k]) /\ outbound'[k][j] = On(k, j)
    BY <1>3, <2>2 DEF AgentInv, NoFinalYet
  <2> QED  BY <1>1, <2>1, <2>2
<1> QED  BY <1>4, <1>5, <1>6 DEF AgentInv

\* Clients see a stream grow by an event of a request that has none final yet.
LEMMA ClientsSeePublish ==
  ASSUME TypeInv, AgentInv, ClientInv, NEW t \in Tenants, pc[t] \in Publishing,
         NEW e \in Event, e.req = cur[t], AddToSession(AgentKey(cur[t]), e),
         UNCHANGED <<gw, sse, seen, answer>>
  PROVE  ClientInv'
<1>0. cur[t] \in Requests /\ AgentKey(cur[t]) = GatewayKey(cur[t]) /\ GatewayKey(cur[t]) \in Keys
  BY NormalizeIdempotent DEF TypeInv, TypeOK, Event, Keys
<1>1. /\ \A l \in Keys : \A j \in 1 .. Len(outbound[l]) :
           j \in 1 .. Len(outbound'[l]) /\ outbound'[l][j] = On(l, j)
      /\ \A l \in Keys : \A j \in 1 .. Len(outbound'[l]) :
           \/ j \in 1 .. Len(outbound[l]) /\ outbound'[l][j] = On(l, j)
           \/ outbound'[l][j] = e
  BY <1>0, AddToSessionEntries DEF TypeInv, On
<1>2. sse[cur[t]].st # "ended"
  BY <1>0 DEF AgentInv, NoFinalYet, ClientInv, EndedWasFinished
<1>3. EndedWasFinished'
  <2> SUFFICES ASSUME NEW r \in Requests, sse[r].st = "ended"
               PROVE  \E j \in 1 .. Len(outbound'[GatewayKey(r)]) :
                        /\ outbound'[GatewayKey(r)][j].req = r
                        /\ FinalEvent(outbound'[GatewayKey(r)][j])
    BY DEF EndedWasFinished, On, FinalEvent, GatewayKey
  <2>1. PICK j \in 1 .. Len(outbound[GatewayKey(r)]) :
          On(GatewayKey(r), j).req = r /\ FinalEvent(On(GatewayKey(r), j))
    BY DEF ClientInv, EndedWasFinished
  <2>2. GatewayKey(r) \in Keys
    BY DEF Keys
  <2> QED  BY <1>1, <2>1, <2>2
<1>4. EndedWasSeen'
  <2> SUFFICES ASSUME NEW k \in Keys, NEW j \in 1 .. Len(outbound'[k]),
                      sse[outbound'[k][j].req].st = "ended"
               PROVE  j <= seen[k]
    BY DEF EndedWasSeen, On
  <2> QED  BY <1>1, <1>2 DEF ClientInv, EndedWasSeen
<1>5. OneInProgress' /\ NoneFailed' /\ OpenIsPosted' /\ OpenFromSeen' /\ AnswerIsOwn'
  BY DEF ClientInv, OneInProgress, InProgress, NoneFailed, OpenIsPosted, OpenFromSeen,
         AnswerIsOwn, GatewayKey
<1> QED  BY <1>3, <1>4, <1>5 DEF ClientInv

\* A session's next request comes when the others are not posted, or ended.
LEMMA ClientsPost ==
  ASSUME TypeInv, ClientInv, ClientSerial, NEW r \in Requests,
         ResolveTenant(r) \/ PublishRequest(r)
  PROVE  ClientInv'
<1>1. /\ UNCHANGED <<outbound, sse, seen, answer>>
      /\ gw' = [gw EXCEPT ![r] = "resolved"] \/ gw' = [gw EXCEPT ![r] = "posted"]
  BY DEF ResolveTenant, PublishRequest, redisVars, clientVars
<1>2. NoneFailed' /\ OpenIsPosted'
  <2>1. gw[r] = "posted" => gw'[r] = "posted"
    BY DEF ResolveTenant, PublishRequest
  <2>2. gw[r] = "new" \/ gw[r] = "resolved"
    BY DEF ResolveTenant, PublishRequest
  <2> QED  BY <1>1, <2>2 DEF ClientInv, NoneFailed, OpenIsPosted, TypeInv, TypeOK
<1>3. OneInProgress'
  <2> SUFFICES ASSUME NEW p \in Requests, NEW q \in Requests,
                      GatewayKey(p) = GatewayKey(q), InProgress(p)', InProgress(q)'
               PROVE  p = q
    BY DEF OneInProgress, GatewayKey
  <2>1. \A s \in Requests : s # r => (InProgress(s)' <=> InProgress(s))
    BY <1>1 DEF InProgress, TypeInv, TypeOK
  <2>2. CASE ResolveTenant(r)
    <3>1. \A s \in Requests : s # r /\ GatewayKey(s) = GatewayKey(r) => ~InProgress(s)
      BY <2>2 DEF ResolveTenant, MayPost, InProgress
    <3> QED  BY <2>1, <3>1 DEF ClientInv, OneInProgress
  <2>3. CASE PublishRequest(r)
    <3>1. InProgress(r)' => InProgress(r)
      BY <1>1, <2>3 DEF PublishRequest, InProgress
    <3> QED  BY <2>1, <3>1 DEF ClientInv, OneInProgress
  <2> QED  BY <2>2, <2>3
<1>4. EndedWasFinished' /\ EndedWasSeen' /\ OpenFromSeen' /\ AnswerIsOwn'
  BY <1>1 DEF ClientInv, EndedWasFinished, EndedWasSeen, OpenFromSeen, AnswerIsOwn, On,
              FinalEvent, GatewayKey
<1> QED  BY <1>2, <1>3, <1>4 DEF ClientInv

\* A reader opens behind what the client has seen, reads on from there, and may
\* lose its connection.
LEMMA ClientsRead ==
  ASSUME TypeInv, ClientInv, ClientResumes, NEW r \in Requests,
         OpenStream(r) \/ ReadBatch(r) \/ Disconnect(r)
  PROVE  ClientInv'
<1>0. GatewayKey(r) \in Keys
  BY DEF Keys
<1>1. /\ UNCHANGED <<outbound, gw, seen, answer>>
      /\ \A q \in Requests : q # r => sse'[q] = sse[q]
      /\ sse[r].st # "ended" /\ gw[r] = "posted"
  BY DEF OpenStream, ReadBatch, Disconnect, gwVars, redisVars, ClientInv, OpenIsPosted, TypeInv,
         TypeOK
<1>2. /\ sse'[r].st # "ended"
      /\ sse'[r].st = "open" => seen[GatewayKey(r)] <= sse'[r].last
  <2>1. seen[GatewayKey(r)] \in Nat /\ sse[r] \in Reader /\ sse[r].last \in Nat
        /\ trimmed[GatewayKey(r)] \in Nat
    BY <1>0 DEF TypeInv, TypeOK, Reader
  <2>2. CASE OpenStream(r)
    <3>1. sse'[r] = [st |-> "open", last |-> seen[GatewayKey(r)], upto |-> 0]
      BY <2>2 DEF OpenStream, TypeInv, TypeOK
    <3> QED  BY <2>1, <3>1
  <2>3. CASE ReadBatch(r)
    <3>1. sse[r].st = "open" /\ sse'[r].st = "open" /\ sse[r].last <= sse'[r].last
          /\ sse'[r].last \in Nat
      BY <2>1, <2>3 DEF ReadBatch, TypeInv, TypeOK, Reader
    <3>2. seen[GatewayKey(r)] <= sse[r].last
      BY <3>1 DEF ClientInv, OpenFromSeen
    <3> QED  BY <2>1, <3>1, <3>2
  <2>4. CASE Disconnect(r)
    BY <2>4, <2>1 DEF Disconnect, TypeInv, TypeOK, Reader
  <2> QED  BY <2>2, <2>3, <2>4
<1>3. OneInProgress' /\ NoneFailed' /\ OpenIsPosted' /\ OpenFromSeen' /\ AnswerIsOwn'
  BY <1>1, <1>2 DEF ClientInv, OneInProgress, InProgress, NoneFailed, OpenIsPosted,
         OpenFromSeen, AnswerIsOwn, GatewayKey
<1>4. \A q : sse'[q].st = "ended" /\ q \in Requests => sse[q].st = "ended"
  BY <1>1, <1>2
<1>5. EndedWasFinished'
  BY <1>1, <1>4 DEF ClientInv, EndedWasFinished, On, FinalEvent, GatewayKey
<1>6. EndedWasSeen'
  <2> SUFFICES ASSUME NEW k \in Keys, NEW j \in 1 .. Len(outbound[k]),
                      sse'[On(k, j).req].st = "ended"
               PROVE  j <= seen[k]
    BY <1>1 DEF EndedWasSeen, On
  <2>1. On(k, j) \in Event
    BY DEF On, TypeInv, TypeOK
  <2>2. On(k, j).req \in Requests
    BY <2>1 DEF Event
  <2> QED  BY <1>4, <2>2 DEF ClientInv, EndedWasSeen
<1> QED  BY <1>3, <1>5, <1>6 DEF ClientInv

\* The event a reader hands over is its own request's: the entry is beyond what
\* the client has seen, so its request has not ended, and one only is in progress.
LEMMA DeliversItsOwn ==
  ASSUME TypeInv, Untouched, StreamedWasPopped, AgentInv, ClientInv, NEW r \in Requests,
         DeliverEvent(r)
  PROVE  LET k == GatewayKey(r)
             id == sse[r].last + 1
         IN  /\ k \in Keys /\ id \in 1 .. Len(outbound[k]) /\ seen[k] < id
             /\ On(k, id) \in Event /\ On(k, id).req = r /\ gw[r] = "posted"
<1> DEFINE k == GatewayKey(r)
           id == sse[r].last + 1
<1>0. k \in Keys
  BY DEF Keys
<1>1. /\ seen[k] \in Nat /\ sse[r] \in Reader /\ sse[r].last \in Nat /\ sse[r].upto \in Nat
      /\ Len(outbound[k]) \in Nat
  BY <1>0 DEF TypeInv, TypeOK, Reader
<1>2. sse[r].st = "open" /\ id <= sse[r].upto
  BY DEF DeliverEvent
<1>3. sse[r].upto <= Len(outbound[k]) /\ seen[k] <= sse[r].last /\ gw[r] = "posted"
  BY <1>2 DEF TypeInv, BatchOnStream, ClientInv, OpenFromSeen, OpenIsPosted
<1>4. id \in 1 .. Len(outbound[k]) /\ seen[k] < id
  BY <1>1, <1>2, <1>3
<1> HIDE DEF k, id
<1>5. On(k, id) \in Event /\ On(k, id).req \in Requests /\ gw[On(k, id).req] = "posted"
  BY <1>0, <1>4, StreamedWasPosted DEF TypeInv, ClientInv
<1>6. GatewayKey(On(k, id).req) = k
  BY <1>0, <1>4 DEF AgentInv, OwnStream
<1>7. sse[On(k, id).req].st # "ended"
  <2>1. id \in Nat
    BY <1>4
  <2>2. ~(id <= seen[k])
    BY <1>1, <1>4, <2>1
  <2> QED  BY <1>0, <1>4, <2>2 DEF ClientInv, EndedWasSeen
<1>8. On(k, id).req = r
  BY <1>2, <1>3, <1>5, <1>6, <1>7 DEF ClientInv, OneInProgress, InProgress, k
<1> QED  BY <1>0, <1>3, <1>4, <1>5, <1>8 DEF k, id

LEMMA ClientsAreServed ==
  ASSUME TypeInv, Untouched, StreamedWasPopped, AgentInv, ClientInv, NEW r \in Requests,
         DeliverEvent(r)
  PROVE  ClientInv'
<1> DEFINE k == GatewayKey(r)
           id == sse[r].last + 1
           e == On(k, id)
<1>1. /\ k \in Keys /\ id \in 1 .. Len(outbound[k]) /\ seen[k] < id
      /\ e \in Event /\ e.req = r /\ gw[r] = "posted"
  BY DeliversItsOwn
<1>2. sse[r].st = "open" /\ sse[r] \in Reader /\ sse \in [Requests -> Reader]
      /\ seen \in [Keys -> Nat] /\ answer \in [Requests -> Requests \cup {NoReq}]
  BY DEF DeliverEvent, TypeInv, TypeOK
<1>3. /\ sse' = [sse EXCEPT ![r].last = id,
                            ![r].st = IF FinalEvent(e) THEN "ended" ELSE "open"]
      /\ seen' = [seen EXCEPT ![k] = IF id > @ THEN id ELSE @]
      /\ answer' = [answer EXCEPT ![r] = IF FinalEvent(e) THEN e.req ELSE @]
      /\ UNCHANGED <<gw, outbound>>
  BY DEF DeliverEvent, FinalEvent, On, gwVars, redisVars
<1>4. /\ sse'[r].last = id /\ sse'[r].st = IF FinalEvent(e) THEN "ended" ELSE "open"
      /\ \A q \in Requests : q # r => sse'[q] = sse[q]
  BY <1>2, <1>3 DEF Reader
<1>5. seen'[k] = id /\ \A l \in Keys : (l # k => seen'[l] = seen[l]) /\ seen[l] <= seen'[l]
  BY <1>1, <1>2, <1>3
<1>6. \A q \in Requests : answer'[q] = answer[q] \/ (q = r /\ answer'[q] = r)
  BY <1>1, <1>2, <1>3
<1>h. On(k, id) = e /\ k = GatewayKey(r)
  OBVIOUS
<1> HIDE DEF k, id, e
<1>7. NoneFailed' /\ OpenIsPosted' /\ AnswerIsOwn'
  BY <1>1, <1>3, <1>4, <1>6 DEF ClientInv, NoneFailed, OpenIsPosted, AnswerIsOwn
<1>8. OneInProgress'
  <2>1. \A q \in Requests : InProgress(q)' => InProgress(q)
    BY <1>2, <1>3, <1>4 DEF InProgress
  <2> QED  BY <2>1 DEF ClientInv, OneInProgress, GatewayKey
<1>9. OpenFromSeen'
  <2> SUFFICES ASSUME NEW q \in Requests, sse'[q].st = "open"
               PROVE  seen'[GatewayKey(q)] <= sse'[q].last
    BY DEF OpenFromSeen, GatewayKey
  <2>1. GatewayKey(q) \in Keys
    BY DEF Keys
  <2>2. CASE q = r
    BY <1>1, <1>4, <1>5, <1>h, <2>2
  <2>3. CASE q # r
    <3>1. sse[q].st = "open" /\ gw[q] = "posted" /\ sse'[q] = sse[q]
      BY <1>4, <2>3 DEF ClientInv, OpenIsPosted
    <3>2. GatewayKey(q) # k
      BY <1>1, <1>2, <1>h, <2>3, <3>1 DEF ClientInv, OneInProgress, InProgress
    <3> QED  BY <1>5, <2>1, <3>1, <3>2 DEF ClientInv, OpenFromSeen
  <2> QED  BY <2>2, <2>3
<1>10. EndedWasFinished'
  <2> SUFFICES ASSUME NEW q \in Requests, sse'[q].st = "ended"
               PROVE  \E j \in 1 .. Len(outbound[GatewayKey(q)]) :
                        On(GatewayKey(q), j).req = q /\ FinalEvent(On(GatewayKey(q), j))
    BY <1>3 DEF EndedWasFinished, On, FinalEvent, GatewayKey
  <2>1. CASE q = r
    BY <1>1, <1>4, <1>h, <2>1
  <2>2. CASE q # r
    BY <1>4, <2>2 DEF ClientInv, EndedWasFinished
  <2> QED  BY <2>1, <2>2
<1>11. EndedWasSeen'
  <2> SUFFICES ASSUME NEW l \in Keys, NEW j \in 1 .. Len(outbound[l]),
                      sse'[On(l, j).req].st = "ended"
               PROVE  j <= seen'[l]
    BY <1>3 DEF EndedWasSeen, On
  <2>1. On(l, j).req \in Requests
    BY StreamedWasPosted DEF TypeInv, ClientInv
  <2>2. CASE On(l, j).req = r
    <3>1. l = k
      BY <1>h, <2>2 DEF AgentInv, OwnStream
    <3>2. FinalEvent(On(k, id))
      BY <1>4, <1>h, <2>2
    <3>3. ~(id < j)
      <4> SUFFICES ASSUME id < j PROVE FALSE
        OBVIOUS
      <4>1. id \in 1 .. j - 1
        BY <1>1
      <4> QED  BY <1>1, <1>h, <2>2, <3>1, <3>2, <4>1 DEF AgentInv, FinalIsLast
    <3> QED  BY <1>1, <1>5, <3>1, <3>3
  <2>3. CASE On(l, j).req # r
    <3>1. j <= seen[l]
      BY <1>4, <2>1, <2>3 DEF ClientInv, EndedWasSeen
    <3>2. seen[l] \in Nat /\ seen'[l] \in Nat /\ seen[l] <= seen'[l]
      BY <1>1, <1>2, <1>5
    <3> QED  BY <3>1, <3>2
  <2> QED  BY <2>2, <2>3
<1> QED  BY <1>7, <1>8, <1>9, <1>10, <1>11 DEF ClientInv

\* Clients do not see a step that leaves their requests and the streams alone.
LEMMA ClientsQuiet ==
  ASSUME ClientInv, UNCHANGED <<outbound, gw, sse, seen, answer>>
  PROVE  ClientInv'
  BY DEF ClientInv, OneInProgress, InProgress, NoneFailed, OpenIsPosted, EndedWasFinished,
         EndedWasSeen, OpenFromSeen, AnswerIsOwn, On, FinalEvent, GatewayKey

LEMMA AnswerStep ==
  ASSUME TypeInv, TypeInv', QueueInv, QueueInv', StreamInv, AnswerInv, [Next]_vars
  PROVE  AnswerInv'
<1> USE DEF gwVars, redisVars, agentVars, clientVars, histVars, budgetVars, vars
<1> SUFFICES ASSUME InTurns' PROVE AgentInv' /\ ClientInv'
  BY DEF AnswerInv
<1>f. faults' = 0 /\ faults \in Nat /\ ClientSerial /\ ClientResumes
  BY DEF InTurns, TypeInv, TypeOK
<1>in. ASSUME UNCHANGED faults  PROVE AgentInv /\ ClientInv
  BY <1>f, <1>in DEF AnswerInv, InTurns
<1>u. Untouched /\ StreamedWasPopped /\ TypeOK
  BY DEF QueueInv, StreamInv, TypeInv
<1>1. ASSUME NEW r \in Requests, ResolveTenant(r) \/ PublishRequest(r)
      PROVE  AgentInv' /\ ClientInv'
  <2>1. UNCHANGED <<faults, outbound, cur>>
        /\ \A t \in Tenants : pc'[t] \in Publishing => pc[t] \in Publishing
    BY <1>1, <1>u DEF ResolveTenant, PublishRequest, TypeOK, Publishing
  <2> QED  BY <1>1, <1>f, <1>in, <1>u, <2>1, AgentQuiet, ClientsPost
<1>2. ASSUME NEW r \in Requests,
             OpenStream(r) \/ ReadBatch(r) \/ Disconnect(r) \/ DeliverEvent(r)
      PROVE  AgentInv' /\ ClientInv'
  <2>1. UNCHANGED <<faults, outbound, cur, pc>>
    BY <1>2 DEF OpenStream, ReadBatch, Disconnect, DeliverEvent
  <2> QED  BY <1>2, <1>f, <1>in, <1>u, <2>1, AgentQuiet, ClientsRead, ClientsAreServed
<1>3. ASSUME NEW t \in Tenants, ConsumeRequest(t)  PROVE AgentInv' /\ ClientInv'
  <2>1. /\ UNCHANGED <<faults, outbound, gw, sse, seen, answer, ticket>>
        /\ \A u \in Tenants : u # t => cur'[u] = cur[u] /\ pc'[u] = pc[u]
        /\ popped' = [popped EXCEPT ![t] = popped[t] + 1]
    BY <1>3, <1>u DEF ConsumeRequest, PopInbound, TypeOK
  <2>2. \A k \in Keys : \A j \in 1 .. Len(outbound[k]) : On(k, j).req # cur'[t]
    <3> SUFFICES ASSUME NEW k \in Keys, NEW j \in 1 .. Len(outbound[k]),
                        On(k, j).req = cur'[t]
                 PROVE  FALSE
      OBVIOUS
    <3>1. On(k, j).req \in Requests /\ cur'[t] # NoReq
      BY <1>in, <1>u, <2>1, StreamedWasPosted, ChatBusAssumption DEF ClientInv
    <3>2. TenantOf[cur'[t]] = t /\ ticket[cur'[t]] = popped[t] + 1 /\ popped[t] \in Nat
      BY <1>u, <2>1, <3>1 DEF QueueInv, FifoOrder, TypeOK
    <3>3. ticket[cur'[t]] \in 1 .. popped[t]
      BY <1>u, <3>2 DEF StreamedWasPopped
    <3> QED  BY <3>2, <3>3
  <2> QED  BY <1>in, <1>u, <2>1, <2>2, AgentQuiet, ClientsQuiet
<1>4. ASSUME NEW t \in Tenants,
             \/ RunEnds(t) \/ PublishFinalGlobal(t) \/ SaveSession(t) \/ Backoff(t)
             \/ ContainerGone(t) \/ Provision(t)
      PROVE  AgentInv' /\ ClientInv'
  <2>1. /\ UNCHANGED <<faults, outbound, gw, sse, seen, answer>>
        /\ \A u \in Tenants : u # t => cur'[u] = cur[u] /\ pc'[u] = pc[u]
        /\ pc'[t] \in Publishing => pc[t] \in Publishing /\ cur'[t] = cur[t]
    BY <1>4, <1>u DEF RunEnds, PublishFinalGlobal, SaveSession, Backoff, ContainerGone,
                      Provision, Forget, TypeOK, Publishing
  <2> QED  BY <1>in, <1>u, <2>1, AgentQuiet, ClientsQuiet
<1>5. ASSUME NEW t \in Tenants, PublishProgress(t)  PROVE AgentInv' /\ ClientInv'
  <2> DEFINE e == [kind |-> "progress", req |-> cur[t]]
  <2>1. /\ pc[t] \in Publishing /\ UNCHANGED <<faults, cur, pc, gw, sse, seen, answer>>
        /\ AddToSession(AgentKey(cur[t]), e)
    BY <1>5 DEF PublishProgress, Publishing
  <2>2. cur[t] \in Requests
    BY <2>1 DEF TypeInv, TypeOK, HandlesARequest, Busy, Publishing
  <2>3. e \in Event /\ e.req = cur[t] /\ ~FinalEvent(e)
    BY <2>2 DEF Event, FinalEvent, Terminal
  <2> HIDE DEF e
  <2> QED  BY <1>in, <2>1, <2>3, AgentPublishes, ClientsSeePublish
<1>6. ASSUME NEW t \in Tenants, PublishFinal(t)  PROVE AgentInv' /\ ClientInv'
  <2>1. /\ pc[t] \in Publishing /\ UNCHANGED <<faults, cur, gw, sse, seen, answer>>
        /\ AddToSession(AgentKey(cur[t]), Final(t)) /\ pc'[t] \notin Publishing
        /\ \A u \in Tenants : u # t => pc'[u] = pc[u]
    BY <1>6, <1>u DEF PublishFinal, Publishing, TypeOK
  <2>2. Final(t) \in Event /\ Final(t).req = cur[t]
    BY <1>u, <2>1, FinalType DEF TypeInv, HandlesARequest, Busy, Publishing, Final
  <2> QED  BY <1>in, <2>1, <2>2, AgentPublishes, ClientsSeePublish
<1>7. ASSUME \/ \E r \in Requests : PublishRequestRaises(r)
             \/ \E t \in Tenants : PublishFinalRaises(t) \/ ConsumeRaises(t)
      PROVE  FALSE
  <2>1. faults' = faults + 1
    BY <1>7 DEF PublishRequestRaises, PublishFinalRaises, ConsumeRaises
  <2> QED  BY <1>f, <2>1
<1>8. CASE UNCHANGED vars
  BY <1>8, <1>in, <1>u, AgentQuiet, ClientsQuiet
<1> QED
  BY <1>1, <1>2, <1>3, <1>4, <1>5, <1>6, <1>7, <1>8 DEF Next, Listener, Stream

\* A client that posts a turn after the last one's answer, and resumes from what it
\* has seen, is never given another request's final event, however many tenants,
\* sessions, container stops and dropped connections there are and wherever its
\* stream is trimmed, as long as no Redis call has raised.
THEOREM AnswersAreOwn == Spec => [](InTurns => AnswerIsOwn)
<1>1. AnswerInv => (InTurns => AnswerIsOwn)
  BY DEF AnswerInv, ClientInv
<1>2. Spec => []TypeInv
  BY TypeInvHolds
<1>3. Spec => []QueueInv
  BY QueueInvHolds
<1>4. Spec => []StreamInv
  BY StreamInvHolds
<1> QED  BY <1>1, <1>2, <1>3, <1>4, AnswerInit, AnswerStep, PTL DEF Spec

(***************************************************************************)
(* Sessions.  Two tenants' requests meet only on a session stream that     *)
(* both name: whatever raises or is posted out of turn, a reader is        *)
(* answered by a request of its own session.                               *)
(***************************************************************************)
AnswerFromSession ==
  \A r \in Requests : answer[r] # NoReq => GatewayKey(answer[r]) = GatewayKey(r)

SessionInv == OwnStream /\ AnswerFromSession

LEMMA SessionStep == TypeInv /\ SessionInv /\ [Next]_vars => SessionInv'
<1> USE DEF gwVars, redisVars, agentVars, clientVars, histVars, budgetVars
<1> SUFFICES ASSUME TypeInv, SessionInv, [Next]_vars PROVE SessionInv'
  OBVIOUS
<1>t. TypeOK /\ HandlesARequest /\ BatchOnStream
  BY DEF TypeInv
<1>0. ASSUME UNCHANGED <<outbound, answer>>
      PROVE  SessionInv'
  BY <1>0 DEF SessionInv, OwnStream, AnswerFromSession, On
<1>a. ASSUME NEW t \in Tenants, cur[t] # NoReq, NEW e \in Event, e.req = cur[t],
             AddToSession(AgentKey(cur[t]), e), UNCHANGED answer
      PROVE  SessionInv'
  <2>1. cur[t] \in Requests /\ AgentKey(cur[t]) \in Keys /\ AgentKey(cur[t]) = GatewayKey(cur[t])
    BY <1>a, <1>t, FinalType, NormalizeIdempotent, ChatBusAssumption DEF AgentKey, GatewayKey
  <2>2. ASSUME NEW k \in Keys, NEW j \in 1 .. Len(outbound'[k])
        PROVE  GatewayKey(outbound'[k][j].req) = k
    BY <1>a, <1>t, <2>1, AddToSessionEntries DEF SessionInv, OwnStream, On
  <2> QED  BY <1>a, <2>2 DEF SessionInv, OwnStream, AnswerFromSession, On
<1>1. ASSUME NEW r \in Requests, DeliverEvent(r)
      PROVE  SessionInv'
  <2> DEFINE k == GatewayKey(r)
             id == sse[r].last + 1
  <2>1. /\ k \in Keys /\ id \in 1 .. Len(outbound[k])
        /\ outbound' = outbound
        /\ answer' = [answer EXCEPT ![r] = IF outbound[k][id].kind \in Terminal
                                           THEN outbound[k][id].req ELSE answer[r]]
    <3>1. k \in Keys /\ sse[r] \in Reader /\ Len(outbound[k]) \in Nat
      BY <1>t DEF Keys, TypeOK
    <3>2. id <= sse[r].upto /\ sse[r].upto <= Len(outbound[k])
      BY <1>1, <1>t DEF DeliverEvent, BatchOnStream
    <3>3. id \in 1 .. Len(outbound[k])
      BY <3>1, <3>2 DEF Reader
    <3> QED  BY <1>1, <3>1, <3>3 DEF DeliverEvent
  <2>2. GatewayKey(outbound[k][id].req) = k
    BY <2>1 DEF SessionInv, OwnStream, On
  <2> HIDE DEF id
  <2>3. \A q \in Requests : answer'[q] # NoReq => GatewayKey(answer'[q]) = GatewayKey(q)
    BY <1>t, <2>1, <2>2 DEF SessionInv, AnswerFromSession, TypeOK
  <2> QED  BY <2>1, <2>3 DEF SessionInv, OwnStream, AnswerFromSession, On
<1>2. ASSUME NEW t \in Tenants, PublishProgress(t)
      PROVE  SessionInv'
  <2>1. cur[t] # NoReq /\ cur[t] \in Requests
    BY <1>2, <1>t DEF PublishProgress, HandlesARequest, Busy, TypeOK
  <2>2. [kind |-> "progress", req |-> cur[t]] \in Event
    BY <2>1 DEF Event
  <2> QED  BY <1>2, <1>a, <2>1, <2>2 DEF PublishProgress
<1>3. ASSUME NEW t \in Tenants, PublishFinal(t) \/ PublishFinalRaises(t)
      PROVE  SessionInv'
  <2>1. /\ pc[t] \in {"done1", "done2", "err1", "err2"} /\ answer' = answer
        /\ outbound' = outbound \/ AddToSession(AgentKey(cur[t]), Final(t))
    BY <1>3 DEF PublishFinal, PublishFinalRaises
  <2>2. cur[t] # NoReq /\ Final(t) \in Event /\ Final(t).req = cur[t]
    BY <1>t, <2>1, FinalType DEF HandlesARequest, Busy, Final
  <2> QED  BY <1>0, <1>a, <2>1, <2>2
<1>4. ASSUME NEW r \in Requests,
             \/ ResolveTenant(r) \/ PublishRequest(r) \/ PublishRequestRaises(r)
             \/ OpenStream(r) \/ ReadBatch(r) \/ Disconnect(r)
      PROVE  SessionInv'
  BY <1>0, <1>4 DEF ResolveTenant, PublishRequest, PublishRequestRaises, OpenStream, ReadBatch,
                    Disconnect
<1>5. ASSUME NEW t \in Tenants,
             \/ ConsumeRequest(t) \/ RunEnds(t) \/ PublishFinalGlobal(t) \/ SaveSession(t)
             \/ Backoff(t) \/ ConsumeRaises(t) \/ ContainerGone(t) \/ Provision(t)
      PROVE  SessionInv'
  BY <1>0, <1>5 DEF ConsumeRequest, RunEnds, PublishFinalGlobal, SaveSession, Backoff,
                    ConsumeRaises, ContainerGone, Provision
<1>6. CASE UNCHANGED vars
  BY <1>0, <1>6 DEF vars
<1> QED  BY <1>1, <1>2, <1>3, <1>4, <1>5, <1>6 DEF Next, Listener, Stream

\* A client is answered by another tenant only if the two tenants share a session id
\* (AnswerFromOwnTenant fails without this hypothesis, in the run chat_shared_session).
THEOREM AnswersFromOwnTenant ==
  ASSUME \A q, r \in Requests : GatewayKey(q) = GatewayKey(r) => TenantOf[q] = TenantOf[r]
  PROVE  Spec => []AnswerFromOwnTenant
<1>1. Init => SessionInv
  BY DEF Init, SessionInv, OwnStream, AnswerFromSession
<1>2. TypeInv /\ SessionInv => AnswerFromOwnTenant
  BY DEF TypeInv, TypeOK, SessionInv, AnswerFromSession, AnswerFromOwnTenant
<1>3. Spec => []TypeInv
  BY TypeInvHolds
<1> QED  BY <1>1, <1>2, <1>3, SessionStep, PTL DEF Spec

(***************************************************************************)
(* The bus implements WorkQueue.  The line of a tenant is its inbound list *)
(* read from the other end.  The fate of a request is told by its ticket,  *)
(* by the pops so far, by what the listener handles and by the global      *)
(* stream; a step changes the fate of one request at most.                 *)
(***************************************************************************)
Fate == [r \in Requests |-> FateOf(r)]
Line == [t \in Tenants |-> Seqs!Reverse(inbound[t])]

FinishedWasPopped ==
  \A r \in Requests : Finished(r) => ticket[r] \in 1 .. popped[TenantOf[r]]

WorkInv == TypeOK /\ HandlesARequest /\ QueueInv /\ SavedIsFinished /\ FinishedWasPopped

LEMMA SameSequence ==
  ASSUME NEW S, NEW p \in Seq(S), NEW q \in Seq(S), Len(p) = Len(q),
         \A i \in 1 .. Len(q) : p[i] = q[i]
  PROVE  p = q
OBVIOUS

LEMMA AllButTheEnds ==
  ASSUME NEW S, NEW q \in Seq(S), NEW n \in Nat, Len(q) = n + 1,
         NEW p, NEW r, p = SubSeq(q, 1, n), r = Tail(q)
  PROVE  /\ p \in Seq(S) /\ Len(p) = n /\ \A i \in 1 .. n : p[i] = q[i]
         /\ r \in Seq(S) /\ Len(r) = n /\ \A i \in 1 .. n : r[i] = q[i + 1]
<1>1. p \in Seq(S) /\ \A i \in 1 .. n : p[i] = q[i]
  OBVIOUS
<1>2. Len(p) = n
  OBVIOUS
<1>3. q # <<>>
  OBVIOUS
<1>4. r \in Seq(S) /\ Len(r) = n /\ \A i \in 1 .. n : r[i] = q[i + 1]
  BY <1>3
<1> QED  BY <1>1, <1>2, <1>4

\* LPUSH and BRPOP, on the list read from its tail.
LEMMA ReadFromTheTail ==
  ASSUME NEW q \in Seq(Requests)
  PROVE  /\ \A r \in Requests : Seqs!Reverse(<<r>> \o q) = Append(Seqs!Reverse(q), r)
         /\ q # <<>> => /\ Seqs!Reverse(q) # <<>>
                        /\ Head(Seqs!Reverse(q)) = Oldest(q)
                        /\ Seqs!Reverse(AllButOldest(q)) = Tail(Seqs!Reverse(q))
<1>1. \A r \in Requests : Seqs!Reverse(<<r>> \o q) = Append(Seqs!Reverse(q), r)
  BY DEF Seqs!Reverse
<1>2. ASSUME q # <<>>
      PROVE  /\ Seqs!Reverse(q) # <<>>
             /\ Head(Seqs!Reverse(q)) = Oldest(q)
             /\ Seqs!Reverse(AllButOldest(q)) = Tail(Seqs!Reverse(q))
  <2>1. PICK n \in Nat : Len(q) = n + 1
    <3>1. Len(q) - 1 \in Nat /\ Len(q) = Len(q) - 1 + 1
      BY <1>2
    <3> QED  BY <3>1
  <2>2. PICK p : p = AllButOldest(q)
    OBVIOUS
  <2>3. PICK R : R = Seqs!Reverse(q)
    OBVIOUS
  <2>4. R \in Seq(Requests) /\ Len(R) = n + 1 /\ \A i \in 1 .. n + 1 : R[i] = q[n + 1 - i + 1]
    BY <2>1, <2>3 DEF Seqs!Reverse
  <2>5. PICK T : T = Tail(R)
    OBVIOUS
  <2>6. p = SubSeq(q, 1, n)
    <3>1. Len(q) - 1 = n
      BY <2>1
    <3> QED  BY <2>2, <3>1 DEF AllButOldest
  <2>7. /\ p \in Seq(Requests) /\ Len(p) = n /\ \A i \in 1 .. n : p[i] = q[i]
        /\ T \in Seq(Requests) /\ Len(T) = n /\ \A i \in 1 .. n : T[i] = R[i + 1]
    BY <2>1, <2>4, <2>5, <2>6, AllButTheEnds
  <2>8. PICK P : P = Seqs!Reverse(p)
    OBVIOUS
  <2>9. P \in Seq(Requests) /\ Len(P) = n /\ \A i \in 1 .. n : P[i] = p[n - i + 1]
    BY <2>7, <2>8 DEF Seqs!Reverse
  <2>10. ASSUME NEW i \in 1 .. n
         PROVE  P[i] = T[i]
    <3>1. n - i + 1 \in 1 .. n /\ i + 1 \in 1 .. n + 1 /\ n + 1 - (i + 1) + 1 = n - i + 1
      OBVIOUS
    <3> QED  BY <2>4, <2>7, <2>9, <3>1
  <2>11. P = T
    BY <2>7, <2>9, <2>10, SameSequence
  <2>12. R[1] = q[n + 1] /\ R # <<>>
    BY <2>4
  <2>13. Head(R) = Oldest(q)
    BY <2>1, <2>4, <2>12 DEF Oldest
  <2> QED  BY <2>2, <2>3, <2>5, <2>8, <2>11, <2>12, <2>13
<1> QED  BY <1>1, <1>2

\* The fate of a request that a step has nothing to do with.
LEMMA FateStays ==
  ASSUME NEW q \in Requests, Finished(q)' <=> Finished(q), ticket'[q] = ticket[q],
         cur'[TenantOf[q]] = q <=> cur[TenantOf[q]] = q,
         ticket[q] \in 1 .. popped'[TenantOf[q]] <=> ticket[q] \in 1 .. popped[TenantOf[q]]
  PROVE  FateOf(q)' = FateOf(q)
BY DEF FateOf, Lost, Finished

LEMMA OneFateChanges ==
  ASSUME NEW r \in Requests, \A q \in Requests : q # r => FateOf(q)' = FateOf(q)
  PROVE  /\ Fate' = [Fate EXCEPT ![r] = FateOf(r)']
         /\ FateOf(r)' = FateOf(r) => Fate' = Fate
BY DEF Fate

\* An XADD to the global stream finishes the request it names and no other.
LEMMA GlobalFinishes ==
  ASSUME TypeOK, NEW e \in Event, global' = Append(global, e), NEW q \in Requests
  PROVE  Finished(q)' <=> Finished(q) \/ q = e.req
<1>1. /\ global \in Seq(Event) /\ Len(global') = Len(global) + 1
      /\ global'[Len(global) + 1] = e
      /\ \A i \in 1 .. Len(global) : global'[i] = global[i]
  BY DEF TypeOK
<1>2. \A i : i \in 1 .. Len(global') <=> i \in 1 .. Len(global) \/ i = Len(global) + 1
  BY <1>1
<1> QED  BY <1>1, <1>2 DEF Finished

LEMMA PushIsAccepted ==
  ASSUME WorkInv, NEW r \in Requests, PushInbound(r), ticket[r] = 0,
         UNCHANGED <<popped, cur, global>>
  PROVE  Work!Accept(r)
<1> DEFINE t == TenantOf[r]
<1>0. /\ t \in Tenants /\ inbound[t] \in Seq(Requests) /\ pushed[t] \in Nat /\ popped[t] \in Nat
      /\ ticket \in [Requests -> Nat] /\ inbound \in [Tenants -> Seq(Requests)]
  BY ChatBusAssumption DEF WorkInv, TypeOK
<1>1. ~Finished(r) /\ ~Finished(r)'
  BY <1>0 DEF WorkInv, FinishedWasPopped, Finished
<1>2. cur[t] # r
  <2>1. cur[t] # NoReq => ticket[cur[t]] = popped[t] /\ popped[t] # 0
    BY <1>0 DEF WorkInv, QueueInv, FifoOrder, CurIsTicketed
  <2> QED  BY <2>1, ChatBusAssumption
<1>3. FateOf(r) = "new"
  BY <1>1, <1>2 DEF FateOf
<1>4. ticket'[r] = pushed[t] + 1
  BY <1>0 DEF PushInbound
<1>5. pushed[t] + 1 \notin 1 .. popped[t] /\ pushed[t] + 1 # 0
  BY <1>0 DEF WorkInv, QueueInv, FifoOrder
<1>6. FateOf(r)' = "queued"
  BY <1>1, <1>2, <1>4, <1>5 DEF FateOf, Lost
<1>7. ASSUME NEW q \in Requests, q # r
      PROVE  FateOf(q)' = FateOf(q)
  <2>1. ticket'[q] = ticket[q]
    BY <1>0, <1>7 DEF PushInbound
  <2> QED  BY <2>1, FateStays DEF Finished
<1>8. Fate' = [Fate EXCEPT ![r] = "queued"] /\ Fate[r] = "new"
  BY <1>3, <1>6, <1>7, OneFateChanges DEF Fate
<1>9. Line' = [Line EXCEPT ![t] = Append(Line[t], r)]
  <2>1. \A u \in Tenants : inbound'[u] = IF u = t THEN <<r>> \o inbound[u] ELSE inbound[u]
    BY <1>0 DEF PushInbound
  <2>2. Seqs!Reverse(<<r>> \o inbound[t]) = Append(Seqs!Reverse(inbound[t]), r)
    BY <1>0, ReadFromTheTail
  <2> QED  BY <1>0, <2>1, <2>2 DEF Line
<1> QED  BY <1>8, <1>9 DEF Work!Accept, Fate, Line

\* A pop takes the first of the line: it is handled, or lost with the reply.
LEMMA PopTakesFirst ==
  ASSUME WorkInv, NEW t \in Tenants, PopInbound(t), cur[t] = NoReq,
         \A u \in Tenants : u # t => cur'[u] = cur[u],
         cur'[t] \in {Oldest(inbound[t]), NoReq}, UNCHANGED <<ticket, global>>
  PROVE  /\ cur'[t] = Oldest(inbound[t]) => Work!Handle(t)
         /\ cur'[t] = NoReq => Work!First(t, "lost")
<1> DEFINE n == Len(inbound[t])
<1>o. PICK o : o = Oldest(inbound[t])
  OBVIOUS
<1>0. /\ inbound[t] \in Seq(Requests) /\ inbound[t] # <<>>
      /\ popped' = [popped EXCEPT ![t] = popped[t] + 1]
      /\ inbound' = [inbound EXCEPT ![t] = AllButOldest(inbound[t])]
  BY DEF PopInbound, WorkInv, TypeOK
<1>t. /\ pushed[t] \in Nat /\ popped[t] \in Nat /\ ticket \in [Requests -> Nat]
      /\ popped \in [Tenants -> Nat] /\ inbound \in [Tenants -> Seq(Requests)]
  BY DEF WorkInv, TypeOK
<1>1. n \in 1 .. Len(inbound[t])
  BY <1>0
<1>2. n = pushed[t] - popped[t] /\ TenantOf[inbound[t][n]] = t
      /\ ticket[inbound[t][n]] = pushed[t] + 1 - n
  BY <1>1 DEF WorkInv, QueueInv, FifoOrder
<1>3. o = inbound[t][n] /\ o \in Requests
  BY <1>0, <1>1, <1>o DEF Oldest
<1> HIDE DEF n
<1>4. ticket[o] = popped[t] + 1 /\ TenantOf[o] = t
  BY <1>t, <1>2, <1>3
<1>5. popped[t] + 1 \notin 1 .. popped[t] /\ popped[t] + 1 # 0
      /\ popped[t] + 1 \in 1 .. popped[t] + 1
  BY <1>t
<1>6. o # NoReq
  BY <1>3, ChatBusAssumption
<1>7. ~Finished(o) /\ ~Finished(o)'
  BY <1>3, <1>4, <1>5 DEF WorkInv, FinishedWasPopped, Finished
<1>8. cur'[t] = o => FateOf(o)' = "handled"
  BY <1>4, <1>7 DEF FateOf
<1>9. cur'[t] = NoReq => FateOf(o)' = "lost"
  <2>1. popped'[t] = popped[t] + 1
    BY <1>0, <1>t
  <2> QED  BY <1>4, <1>5, <1>6, <1>7, <2>1 DEF FateOf, Lost
<1>10. ASSUME NEW q \in Requests, q # o
       PROVE  FateOf(q)' = FateOf(q)
  <2>1. TenantOf[q] \in Tenants /\ q # NoReq
    BY ChatBusAssumption
  <2>2. cur'[TenantOf[q]] = q <=> cur[TenantOf[q]] = q
    BY <1>o, <1>10, <2>1
  <2>3. ticket[q] \in 1 .. popped'[TenantOf[q]] <=> ticket[q] \in 1 .. popped[TenantOf[q]]
    <3>1. CASE TenantOf[q] # t
      BY <1>0, <1>t, <2>1, <3>1
    <3>2. CASE TenantOf[q] = t
      <4>1. ticket[q] # popped[t] + 1
        BY <1>3, <1>4, <1>5, <1>10, <3>2 DEF WorkInv, QueueInv, TicketsUnique
      <4>2. popped'[t] = popped[t] + 1 /\ ticket[q] \in Nat
        BY <1>0, <1>t
      <4> QED  BY <1>t, <3>2, <4>1, <4>2
    <3> QED  BY <3>1, <3>2
  <2> QED  BY <2>2, <2>3, FateStays DEF Finished
<1>11. /\ cur'[t] = o => Fate' = [Fate EXCEPT ![o] = "handled"]
       /\ cur'[t] = NoReq => Fate' = [Fate EXCEPT ![o] = "lost"]
  BY <1>3, <1>8, <1>9, <1>10, OneFateChanges
<1>12. Line[t] # <<>> /\ Head(Line[t]) = o /\ Line' = [Line EXCEPT ![t] = Tail(Line[t])]
  <2>1. /\ Seqs!Reverse(inbound[t]) # <<>> /\ Head(Seqs!Reverse(inbound[t])) = o
        /\ Seqs!Reverse(AllButOldest(inbound[t])) = Tail(Seqs!Reverse(inbound[t]))
    BY <1>0, <1>o, ReadFromTheTail
  <2>2. \A u \in Tenants :
          inbound'[u] = IF u = t THEN AllButOldest(inbound[u]) ELSE inbound[u]
    BY <1>0, <1>t
  <2> QED  BY <2>1, <2>2 DEF Line
<1>13. \A q \in Requests : TenantOf[q] = t => Fate[q] # "handled"
  BY ChatBusAssumption DEF Fate, FateOf
<1>14. /\ cur'[t] = o => Work!First(t, "handled")
       /\ cur'[t] = NoReq => Work!First(t, "lost")
  BY <1>11, <1>12 DEF Work!First, Fate, Line
<1> QED  BY <1>o, <1>13, <1>14 DEF Work!Handle, Fate

\* What a listener forgets was finished, or is lost.
LEMMA ForgetMayLose ==
  ASSUME WorkInv, NEW t \in Tenants, Forget(t), UNCHANGED <<inbound, ticket, popped, global>>
  PROVE  \/ UNCHANGED <<Fate, Line>>
         \/ \E r \in Requests : ~Finished(r) /\ cur[t] = r /\ Work!HandledBecomes(r, "lost")
<1>0. /\ cur \in [Tenants -> Requests \cup {NoReq}] /\ cur' = [cur EXCEPT ![t] = NoReq]
      /\ ticket \in [Requests -> Nat] /\ popped \in [Tenants -> Nat]
  BY DEF WorkInv, TypeOK, Forget
<1>1. Line' = Line
  BY DEF Line
<1>2. ASSUME NEW q \in Requests, q # cur[t]
      PROVE  FateOf(q)' = FateOf(q)
  <2>1. TenantOf[q] \in Tenants /\ q # NoReq
    BY ChatBusAssumption
  <2>2. cur'[TenantOf[q]] = q <=> cur[TenantOf[q]] = q
    BY <1>0, <1>2, <2>1
  <2> QED  BY <2>2, FateStays DEF Finished
<1>3. CASE cur[t] = NoReq
  <2>1. \A q \in Requests : FateOf(q)' = FateOf(q)
    BY <1>2, <1>3, ChatBusAssumption
  <2> QED  BY <1>1, <2>1 DEF Fate
<1>4. CASE cur[t] # NoReq
  <2>1. PICK r \in Requests : r = cur[t]
    BY <1>0, <1>4
  <2>2. TenantOf[r] = t /\ ticket[r] = popped[t] /\ popped[t] # 0
    BY <1>4, <2>1 DEF WorkInv, QueueInv, FifoOrder, CurIsTicketed
  <2>3. Finished(r)' <=> Finished(r)
    BY DEF Finished
  <2>4. /\ Fate' = [Fate EXCEPT ![r] = FateOf(r)']
        /\ FateOf(r)' = FateOf(r) => Fate' = Fate
    BY <1>2, <2>1, OneFateChanges
  <2>5. CASE Finished(r)
    <3>1. FateOf(r)' = FateOf(r)
      BY <2>3, <2>5 DEF FateOf
    <3> QED  BY <1>1, <2>4, <3>1
  <2>6. CASE ~Finished(r)
    <3>1. FateOf(r) = "handled"
      BY <2>1, <2>2, <2>6 DEF FateOf
    <3>2. popped[t] \in 1 .. popped[t] /\ cur'[t] # r
      BY <1>0, <2>1, <2>2, ChatBusAssumption
    <3>3. FateOf(r)' = "lost"
      BY <2>2, <2>3, <2>6, <3>2 DEF FateOf, Lost
    <3> QED  BY <1>1, <2>1, <2>4, <2>6, <3>1, <3>3 DEF Work!HandledBecomes, Fate, Line
  <2> QED  BY <2>5, <2>6
<1> QED  BY <1>3, <1>4

\* The XADD to the global stream finishes what is handled.
LEMMA GlobalMayFinish ==
  ASSUME WorkInv, NEW t \in Tenants, cur[t] # NoReq, global' = Append(global, Final(t)),
         cur' = cur \/ Forget(t), UNCHANGED <<inbound, ticket, popped>>
  PROVE  \/ UNCHANGED <<Fate, Line>>
         \/ \E r \in Requests : Work!HandledBecomes(r, "finished")
<1>0. cur \in [Tenants -> Requests \cup {NoReq}] /\ TypeOK
  BY DEF WorkInv, TypeOK
<1>1. PICK r \in Requests : r = cur[t]
  BY <1>0
<1>2. Final(t) \in Event /\ Final(t).req = r
  BY <1>0, <1>1, FinalType DEF Final
<1>3. \A q \in Requests : Finished(q)' <=> Finished(q) \/ q = r
  BY <1>0, <1>2, GlobalFinishes
<1>4. TenantOf[r] = t
  BY <1>1 DEF WorkInv, QueueInv, FifoOrder
<1>5. ASSUME NEW q \in Requests, q # r
      PROVE  FateOf(q)' = FateOf(q)
  <2>1. TenantOf[q] \in Tenants /\ q # NoReq
    BY ChatBusAssumption
  <2>2. cur'[TenantOf[q]] = q <=> cur[TenantOf[q]] = q
    BY <1>0, <1>1, <1>5, <2>1 DEF Forget
  <2> QED  BY <1>3, <1>5, <2>2, FateStays
<1>6. FateOf(r)' = "finished"
  BY <1>3 DEF FateOf
<1>7. FateOf(r) \in {"handled", "finished"}
  BY <1>1, <1>4 DEF FateOf
<1>8. /\ Fate' = [Fate EXCEPT ![r] = FateOf(r)']
      /\ FateOf(r)' = FateOf(r) => Fate' = Fate
  BY <1>5, OneFateChanges
<1>9. Line' = Line
  BY DEF Line
<1>10. CASE FateOf(r) = "finished"
  BY <1>6, <1>8, <1>9, <1>10
<1>11. CASE FateOf(r) = "handled"
  BY <1>6, <1>8, <1>9, <1>11 DEF Work!HandledBecomes, Fate, Line
<1> QED  BY <1>7, <1>10, <1>11

\* The fates and the lines that nothing touches.
LEMMA NothingHappens ==
  ASSUME UNCHANGED <<inbound, ticket, popped, cur, global>>
  PROVE  UNCHANGED <<Fate, Line>>
<1>1. \A q \in Requests : FateOf(q)' = FateOf(q)
  BY FateStays DEF Finished
<1> QED  BY <1>1 DEF Fate, Line

LEMMA WorkStep ==
  ASSUME WorkInv, [Next]_vars
  PROVE  [Work!Next]_<<Fate, Line, stops + faults>>
<1> USE DEF gwVars, redisVars, agentVars, clientVars, histVars, budgetVars
<1>t. stops \in Nat /\ faults \in Nat /\ TypeOK /\ HandlesARequest
  BY DEF WorkInv, TypeOK
<1>a. ASSUME \/ UNCHANGED <<Fate, Line>>
             \/ \E r \in Requests : Work!Accept(r) \/ Work!HandledBecomes(r, "finished")
             \/ \E t \in Tenants : Work!Handle(t),
             stops' = stops, faults' = faults \/ faults' = faults + 1
      PROVE  Work!Next
  <2>1. stops' + faults' \in {stops + faults, stops + faults + 1}
    BY <1>t, <1>a
  <2> QED  BY <1>a, <2>1 DEF Work!Next, Work!Goes, Fate, Line
<1>b. ASSUME \/ UNCHANGED <<Fate, Line>>
             \/ \E r \in Requests : Work!HandledBecomes(r, "lost")
             \/ \E t \in Tenants : Work!First(t, "lost"),
             \/ stops' = stops + 1 /\ faults' = faults
             \/ stops' = stops /\ faults' = faults + 1
      PROVE  Work!Next
  <2>1. stops' + faults' = stops + faults + 1
    BY <1>t, <1>b
  <2> QED  BY <1>b, <2>1 DEF Work!Next, Work!Goes, Work!Loses, Fate, Line
<1>1. ASSUME NEW r \in Requests, ResolveTenant(r) \/ Stream(r) \/ Disconnect(r)
      PROVE  Work!Next
  <2>1. UNCHANGED <<inbound, ticket, popped, cur, global, stops, faults>>
    BY <1>1 DEF ResolveTenant, Stream, OpenStream, ReadBatch, DeliverEvent, Disconnect
  <2> QED  BY <1>a, <2>1, NothingHappens
<1>2. ASSUME NEW r \in Requests, PublishRequest(r) \/ PublishRequestRaises(r)
      PROVE  Work!Next
  <2>1. /\ UNCHANGED <<popped, cur, global, stops>> /\ gw[r] = "resolved"
        /\ faults' = faults \/ faults' = faults + 1
        /\ PushInbound(r) \/ UNCHANGED <<inbound, ticket>>
    BY <1>2 DEF PublishRequest, PublishRequestRaises
  <2>2. ticket[r] = 0
    BY <2>1 DEF WorkInv, QueueInv, Untouched
  <2>3. CASE PushInbound(r)
    BY <1>a, <2>1, <2>2, <2>3, PushIsAccepted
  <2>4. CASE UNCHANGED <<inbound, ticket>>
    BY <1>a, <2>1, <2>4, NothingHappens
  <2> QED  BY <2>1, <2>3, <2>4
<1>3. ASSUME NEW t \in Tenants,
             RunEnds(t) \/ PublishFinal(t) \/ Backoff(t) \/ PublishProgress(t)
      PROVE  Work!Next
  <2>1. UNCHANGED <<inbound, ticket, popped, cur, global, stops, faults>>
    BY <1>3 DEF RunEnds, PublishFinal, Backoff, PublishProgress
  <2> QED  BY <1>a, <2>1, NothingHappens
<1>4. ASSUME NEW t \in Tenants, ConsumeRequest(t)
      PROVE  Work!Next
  <2>1. cur[t] = NoReq
    BY <1>4, <1>t DEF ConsumeRequest, HandlesARequest, Busy
  <2>2. /\ PopInbound(t) /\ UNCHANGED <<ticket, global, stops, faults>>
        /\ cur'[t] = Oldest(inbound[t]) /\ \A u \in Tenants : u # t => cur'[u] = cur[u]
    BY <1>4, <1>t DEF ConsumeRequest, TypeOK
  <2>3. Work!Handle(t)
    BY <2>1, <2>2, PopTakesFirst
  <2> QED  BY <1>a, <2>2, <2>3
<1>5. ASSUME NEW t \in Tenants, ConsumeRaises(t)
      PROVE  Work!Next
  <2>1. cur[t] = NoReq
    BY <1>5, <1>t DEF ConsumeRaises, HandlesARequest, Busy
  <2>2. /\ UNCHANGED <<ticket, global, cur, stops>> /\ faults' = faults + 1
        /\ PopInbound(t) \/ UNCHANGED <<inbound, popped>>
    BY <1>5 DEF ConsumeRaises
  <2>3. CASE PopInbound(t)
    <3>1. Work!First(t, "lost")
      BY <2>1, <2>2, <2>3, PopTakesFirst
    <3> QED  BY <1>b, <2>2, <3>1
  <2>4. CASE UNCHANGED <<inbound, popped>>
    BY <1>a, <2>2, <2>4, NothingHappens
  <2> QED  BY <2>2, <2>3, <2>4
<1>6. ASSUME NEW t \in Tenants, PublishFinalGlobal(t)
      PROVE  Work!Next
  <2>1. /\ pc[t] \in {"done2", "err2"} /\ global' = Append(global, Final(t))
        /\ UNCHANGED <<inbound, ticket, popped, stops, faults>>
        /\ cur' = cur \/ Forget(t)
    BY <1>6 DEF PublishFinalGlobal
  <2>2. cur[t] # NoReq
    BY <1>t, <2>1 DEF HandlesARequest, Busy
  <2> QED  BY <1>a, <2>1, <2>2, GlobalMayFinish
<1>7. ASSUME NEW t \in Tenants, SaveSession(t)
      PROVE  Work!Next
  <2>1. /\ pc[t] = "save" /\ Forget(t)
        /\ UNCHANGED <<inbound, ticket, popped, global, stops, faults>>
    BY <1>7 DEF SaveSession
  <2>2. Finished(cur[t])
    BY <2>1 DEF WorkInv, SavedIsFinished
  <2>3. UNCHANGED <<Fate, Line>>
    BY <2>1, <2>2, ForgetMayLose
  <2> QED  BY <1>a, <2>1, <2>3
<1>8. ASSUME NEW t \in Tenants, ContainerGone(t) \/ Provision(t)
      PROVE  Work!Next
  <2>1. /\ stops' = stops + 1 /\ Forget(t)
        /\ UNCHANGED <<inbound, ticket, popped, global, faults>>
    BY <1>8 DEF ContainerGone, Provision
  <2> QED  BY <1>b, <2>1, ForgetMayLose
<1>9. ASSUME NEW t \in Tenants, PublishFinalRaises(t)
      PROVE  Work!Next
  <2>1. /\ pc[t] \in {"done1", "done2", "err1", "err2"}
        /\ UNCHANGED <<inbound, ticket, popped, stops>> /\ faults' = faults + 1
        /\ global' = global \/ global' = Append(global, Final(t))
        /\ cur' = cur \/ Forget(t)
    BY <1>9 DEF PublishFinalRaises
  <2>2. cur[t] # NoReq
    BY <1>t, <2>1 DEF HandlesARequest, Busy
  <2>3. CASE global' = Append(global, Final(t))
    BY <1>a, <2>1, <2>2, <2>3, GlobalMayFinish
  <2>4. CASE global' = global /\ cur' = cur
    BY <1>a, <2>1, <2>4, NothingHappens
  <2>5. CASE global' = global /\ Forget(t)
    BY <1>b, <2>1, <2>5, ForgetMayLose
  <2> QED  BY <2>1, <2>3, <2>4, <2>5
<1>10. CASE UNCHANGED vars
  <2>1. UNCHANGED <<inbound, ticket, popped, cur, global, stops, faults>>
    BY <1>10 DEF vars
  <2> QED  BY <1>a, <2>1, NothingHappens
<1> QED
  BY <1>1, <1>2, <1>3, <1>4, <1>5, <1>6, <1>7, <1>8, <1>9, <1>10 DEF Next, Listener

LEMMA FinishedIsPopped ==
  ASSUME TypeOK, StreamedWasPopped, GlobalFollowsSession
  PROVE  FinishedWasPopped
<1> SUFFICES ASSUME NEW r \in Requests, Finished(r)
             PROVE  ticket[r] \in 1 .. popped[TenantOf[r]]
  BY DEF FinishedWasPopped
<1>1. PICK i \in 1 .. Len(global) : global[i].req = r
  BY DEF Finished
<1>2. PICK j \in 1 .. Len(outbound[AgentKey(r)]) : On(AgentKey(r), j) = global[i]
  BY <1>1 DEF GlobalFollowsSession, On
<1>3. AgentKey(r) \in Keys
  BY DEF Keys
<1> QED  BY <1>1, <1>2, <1>3 DEF StreamedWasPopped

\* The requests of a tenant are handled one at a time in the order of their acceptance;
\* what is handled is finished or lost for ever, and a request is lost only in a step in
\* which a Redis call raises or a container ends, at most one in each (WorkQueue).
THEOREM BusImplementsWorkQueue == Spec => ImplementsWorkQueue
<1>1. Init => Work!Init
  <2> SUFFICES ASSUME Init PROVE Work!Init
    OBVIOUS
  <2>1. \A r \in Requests : FateOf(r) = "new"
    <3>1. NoReq \notin Requests /\ \A r \in Requests : TenantOf[r] \in Tenants
      BY ChatBusAssumption
    <3> QED  BY <3>1 DEF Init, FateOf, Finished
  <2>2. \A t \in Tenants : Seqs!Reverse(inbound[t]) = <<>>
    BY DEF Init, Seqs!Reverse
  <2> QED  BY <2>1, <2>2 DEF Init, Work!Init
<1>2. TypeInv /\ QueueInv /\ LossInv /\ StreamInv /\ GlobalFollowsSession => WorkInv
  BY FinishedIsPopped DEF TypeInv, LossInv, StreamInv, WorkInv
<1>3. WorkInv /\ [Next]_vars => [Work!Next]_<<Fate, Line, stops + faults>>
  BY WorkStep
<1>4. Spec => []TypeInv
  BY TypeInvHolds
<1>5. Spec => []QueueInv
  BY QueueInvHolds
<1>6. Spec => []StreamInv
  BY StreamInvHolds
<1>7. Spec => []GlobalFollowsSession
  BY GlobalIsOnSession
<1>8. Spec => []LossInv
  BY <1>4, <1>5, LossInit, LossStep, PTL DEF Spec
<1> QED
  BY <1>1, <1>2, <1>3, <1>4, <1>5, <1>6, <1>7, <1>8, PTL
     DEF Spec, ImplementsWorkQueue, Work!Spec, Fate, Line
=============================================================================
