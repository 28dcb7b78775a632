---------------------------- MODULE ChatBus_proofs ----------------------------
(***************************************************************************)
(* Proofs about ChatBus, for every set of tenants and requests and every   *)
(* value of the bounds.                                                    *)
(***************************************************************************)
EXTENDS ChatBus, TLAPS

\* The gateway and the agent name a request's session stream alike: the
\* normalisation the agent applies to a normalised id changes nothing.
THEOREM NormalizeIdempotent ==
  ASSUME NEW r \in Requests
  PROVE  AgentKey(r) = GatewayKey(r)
<1>1. RawIdOf[r] \in Seq(STRING)
  BY ChatBusAssumption
<1>2. CASE RawIdOf[r] = <<>>
  BY <1>2 DEF AgentKey, GatewayKey, Normalize
<1>3. CASE RawIdOf[r] # <<>> /\ Len(RawIdOf[r]) = 1
  BY <1>3 DEF AgentKey, GatewayKey, Normalize
<1>4. CASE RawIdOf[r] # <<>> /\ Len(RawIdOf[r]) # 1
  BY <1>4 DEF AgentKey, GatewayKey, Normalize
<1> QED  BY <1>2, <1>3, <1>4

(***************************************************************************)
(* Type correctness.  TypeOK is not inductive: an event is published for   *)
(* `cur', which must be a request then, an SSE generator yields entry      *)
(* last + 1 of its batch, which must exist, and a tenant the gateway       *)
(* forgot gets a new listener, which must not inherit a request.           *)
(***************************************************************************)
Busy == {"run", "done1", "done2", "save", "err1", "err2"}

HandlesARequest ==
  \A t \in Tenants : /\ pc[t] \in Busy <=> cur[t] # NoReq
                     /\ ~cached[t] => pc[t] = "down"

BatchOnStream == \A r \in Requests : sse[r].upto <= Len(outbound[GatewayKey(r)])

TypeInv == TypeOK /\ HandlesARequest /\ BatchOnStream

\* XADD keeps the streams well typed and removes no entry from the sequence.
LEMMA AddToSessionType ==
  ASSUME TypeOK, NEW k \in Keys, NEW e \in Event, AddToSession(k, e)
  PROVE  /\ outbound' \in [Keys -> Seq(Event)]
         /\ trimmed' \in [Keys -> Nat]
         /\ \A l \in Keys : Len(outbound[l]) <= Len(outbound'[l])
<1>1. outbound' \in [Keys -> Seq(Event)]
  BY DEF TypeOK, AddToSession
<1>2. PICK n \in trimmed[k] .. Len(outbound[k]) + 1 : trimmed' = [trimmed EXCEPT ![k] = n]
  BY DEF AddToSession
<1>3. n \in Nat
  BY <1>2 DEF TypeOK
<1>4. trimmed' \in [Keys -> Nat]
  BY <1>2, <1>3 DEF TypeOK
<1>5. ASSUME NEW l \in Keys  PROVE Len(outbound[l]) <= Len(outbound'[l])
  <2>1. outbound[l] \in Seq(Event)
    BY DEF TypeOK
  <2>2. CASE l = k
    BY <2>1, <2>2 DEF TypeOK, AddToSession
  <2>3. CASE l # k
    BY <2>1, <2>3 DEF TypeOK, AddToSession
  <2> QED  BY <2>2, <2>3
<1> QED  BY <1>1, <1>4, <1>5

\* A batch that was within its stream stays so when streams only grow.
LEMMA LongerStreams ==
  ASSUME TypeOK, BatchOnStream, UNCHANGED sse, outbound' \in [Keys -> Seq(Event)],
         \A l \in Keys : Len(outbound[l]) <= Len(outbound'[l])
  PROVE  BatchOnStream'
<1> SUFFICES ASSUME NEW r \in Requests
             PROVE  sse[r].upto <= Len(outbound'[GatewayKey(r)])
  BY DEF BatchOnStream
<1>1. GatewayKey(r) \in Keys
  BY DEF Keys
<1>2. /\ sse[r].upto \in Nat
      /\ outbound[GatewayKey(r)] \in Seq(Event)
      /\ outbound'[GatewayKey(r)] \in Seq(Event)
  BY <1>1 DEF TypeOK, Reader
<1>3. sse[r].upto <= Len(outbound[GatewayKey(r)])
  BY DEF BatchOnStream
<1> QED  BY <1>1, <1>2, <1>3

\* The final event of a listener that handles a request is an event.
LEMMA FinalType ==
  ASSUME TypeOK, NEW t \in Tenants, cur[t] # NoReq
  PROVE  Final(t) \in Event /\ AgentKey(cur[t]) \in Keys /\ cur[t] \in Requests
  BY DEF TypeOK, Final, Event, Keys

LEMMA TypeInit == Init => TypeInv
<1> SUFFICES ASSUME Init PROVE TypeInv
  OBVIOUS
<1>1. TypeOK
  BY ChatBusAssumption DEF Init, TypeOK, ListenerPC, Reader
<1>2. HandlesARequest
  BY DEF Init, HandlesARequest, Busy
<1>3. BatchOnStream
  <2> SUFFICES ASSUME NEW r \in Requests
               PROVE  sse[r].upto <= Len(outbound[GatewayKey(r)])
    BY DEF BatchOnStream
  <2>1. GatewayKey(r) \in Keys
    BY DEF Keys
  <2> QED  BY <2>1 DEF Init
<1> QED  BY <1>1, <1>2, <1>3 DEF TypeInv

\* Every step keeps the variables well typed, a busy listener's request known,
\* and every batch within its stream.
LEMMA TypeStep == TypeInv /\ [Next]_vars => TypeInv'
<1> USE DEF gwVars, redisVars, agentVars, clientVars, histVars, budgetVars, vars
<1> SUFFICES ASSUME TypeInv, [Next]_vars PROVE TypeInv'
  OBVIOUS
<1> USE DEF TypeInv
<1>k. \A r \in Requests : GatewayKey(r) \in Keys /\ AgentKey(r) \in Keys
  BY DEF Keys
<1>t. \A r \in Requests : TenantOf[r] \in Tenants
  BY ChatBusAssumption
<1>1. ASSUME NEW r \in Requests, ResolveTenant(r) PROVE TypeInv'
  <2>1. TypeOK'
    BY <1>1, <1>t DEF ResolveTenant, TypeOK, ListenerPC
  <2>2. HandlesARequest'
    <3>1. CASE cached[TenantOf[r]]
      BY <1>1, <3>1 DEF ResolveTenant, HandlesARequest
    <3>2. CASE ~cached[TenantOf[r]]
      <4>1. pc[TenantOf[r]] = "down" /\ cur[TenantOf[r]] = NoReq
        BY <3>2, <1>t DEF HandlesARequest, Busy
      <4>2. /\ cached' = [cached EXCEPT ![TenantOf[r]] = TRUE]
            /\ pc' = [pc EXCEPT ![TenantOf[r]] = "idle"]
            /\ cur' = cur
        BY <1>1, <3>2 DEF ResolveTenant
      <4>3. ASSUME NEW t \in Tenants
            PROVE  /\ pc'[t] \in Busy <=> cur'[t] # NoReq
                   /\ ~cached'[t] => pc'[t] = "down"
        <5>1. CASE t = TenantOf[r]
          BY <4>1, <4>2, <5>1, <1>t DEF TypeOK, Busy
        <5>2. CASE t # TenantOf[r]
          BY <4>2, <5>2 DEF TypeOK, HandlesARequest
        <5> QED  BY <5>1, <5>2
      <4> QED  BY <4>3 DEF HandlesARequest
    <3> QED  BY <3>1, <3>2
  <2>3. BatchOnStream'
    BY <1>1 DEF ResolveTenant, TypeOK, BatchOnStream
  <2> QED  BY <2>1, <2>2, <2>3
<1>2. ASSUME NEW r \in Requests, PublishRequest(r) PROVE TypeInv'
  <2>1. TypeOK'
    BY <1>2, <1>t DEF PublishRequest, TypeOK, PushInbound
  <2>2. HandlesARequest'
    BY <1>2 DEF PublishRequest, TypeOK, HandlesARequest
  <2>3. BatchOnStream'
    BY <1>2 DEF PublishRequest, TypeOK, BatchOnStream
  <2> QED  BY <2>1, <2>2, <2>3
<1>3. ASSUME NEW r \in Requests, PublishRequestRaises(r) PROVE TypeInv'
  <2>1. TypeOK'
    <3>1. faults' \in Nat /\ gw' \in [Requests -> {"new", "resolved", "posted", "failed"}]
      BY <1>3 DEF PublishRequestRaises, TypeOK
    <3>2. /\ inbound' \in [Tenants -> Seq(Requests)]
          /\ pushed' \in [Tenants -> Nat]
          /\ ticket' \in [Requests -> Nat]
      <4>1. CASE PushInbound(r)
        BY <4>1, <1>t DEF PushInbound, TypeOK
      <4>2. CASE UNCHANGED <<inbound, pushed, ticket>>
        BY <4>2 DEF TypeOK
      <4> QED  BY <1>3, <4>1, <4>2 DEF PublishRequestRaises
    <3> QED  BY <1>3, <3>1, <3>2 DEF PublishRequestRaises, TypeOK
  <2>2. HandlesARequest'
    BY <1>3 DEF PublishRequestRaises, TypeOK, HandlesARequest
  <2>3. BatchOnStream'
    BY <1>3 DEF PublishRequestRaises, TypeOK, BatchOnStream
  <2> QED  BY <2>1, <2>2, <2>3
<1>4. ASSUME NEW r \in Requests, OpenStream(r) PROVE TypeInv'
  <2>1. TypeOK'
    BY <1>4, <1>k DEF OpenStream, TypeOK, Reader
  <2>2. HandlesARequest'
    BY <1>4 DEF OpenStream, TypeOK, HandlesARequest
  <2>3. BatchOnStream'
    BY <1>4, <1>k DEF OpenStream, TypeOK, BatchOnStream
  <2> QED  BY <2>1, <2>2, <2>3
<1>5. ASSUME NEW r \in Requests, ReadBatch(r) PROVE TypeInv'
  <2>1. TypeOK'
    <3> DEFINE k == GatewayKey(r)
               from == IF trimmed[k] > sse[r].last THEN trimmed[k] ELSE sse[r].last
    <3>1. k \in Keys /\ from \in Nat /\ Len(outbound[k]) \in Nat /\ sse[r] \in Reader
      BY <1>k DEF TypeOK, Reader
    <3>2. sse' = [sse EXCEPT ![r] = [sse[r] EXCEPT !.last = from, !.upto = Len(outbound[k])]]
      BY <1>5 DEF ReadBatch
    <3>3. [sse[r] EXCEPT !.last = from, !.upto = Len(outbound[k])] \in Reader
      BY <3>1 DEF Reader
    <3>4. sse' \in [Requests -> Reader]
      BY <3>2, <3>3 DEF TypeOK
    <3> QED  BY <1>5, <3>4 DEF ReadBatch, TypeOK
  <2>2. HandlesARequest'
    BY <1>5 DEF ReadBatch, TypeOK, HandlesARequest
  <2>3. BatchOnStream'
    BY <1>5, <1>k DEF ReadBatch, TypeOK, BatchOnStream
  <2> QED  BY <2>1, <2>2, <2>3
<1>6. ASSUME NEW r \in Requests, DeliverEvent(r) PROVE TypeInv'
  <2> DEFINE k == GatewayKey(r)  id == sse[r].last + 1
  <2>1. k \in Keys /\ id \in 1 .. Len(outbound[k]) /\ outbound[k] \in Seq(Event)
    BY <1>6, <1>k DEF DeliverEvent, TypeOK, BatchOnStream, Reader
  <2>2. outbound[k][id] \in Event
    BY <2>1
  <2>3. TypeOK'
    <3> DEFINE st == IF outbound[k][id].kind \in Terminal THEN "ended" ELSE "open"
    <3>0. st \in {"open", "ended"} /\ id \in Nat /\ sse[r] \in Reader
      BY DEF TypeOK, Reader
    <3> HIDE DEF st, id
    <3>1. [sse[r] EXCEPT !.last = id, !.st = st] \in Reader
      BY <3>0 DEF Reader
    <3> USE DEF st, id
    <3>2. sse' \in [Requests -> Reader]
      BY <1>6, <3>1 DEF DeliverEvent, TypeOK
    <3>3. seen' \in [Keys -> Nat]
      BY <1>6, <2>1 DEF DeliverEvent, TypeOK
    <3>4. answer' \in [Requests -> Requests \cup {NoReq}]
      BY <1>6, <2>2 DEF DeliverEvent, TypeOK, Event
    <3> QED  BY <1>6, <3>2, <3>3, <3>4 DEF DeliverEvent, TypeOK
  <2>4. HandlesARequest'
    BY <1>6 DEF DeliverEvent, HandlesARequest
  <2>5. BatchOnStream'
    BY <1>6 DEF DeliverEvent, TypeOK, BatchOnStream, Reader
  <2> QED  BY <2>3, <2>4, <2>5
<1>7. ASSUME NEW r \in Requests, Disconnect(r) PROVE TypeInv'
  <2>1. TypeOK'
    <3>1. [sse[r] EXCEPT !.st = "closed"] \in Reader
      BY DEF TypeOK, Reader
    <3>2. sse' \in [Requests -> Reader] /\ drops' \in Nat
      BY <1>7, <3>1 DEF Disconnect, TypeOK
    <3> QED  BY <1>7, <3>2 DEF Disconnect, TypeOK
  <2>2. HandlesARequest'
    BY <1>7 DEF Disconnect, TypeOK, HandlesARequest
  <2>3. BatchOnStream'
    BY <1>7 DEF Disconnect, TypeOK, BatchOnStream
  <2> QED  BY <2>1, <2>2, <2>3
<1>8. ASSUME NEW t \in Tenants, ConsumeRequest(t) PROVE TypeInv'
  <2>1. TypeOK'
    BY <1>8 DEF ConsumeRequest, TypeOK, PopInbound, Oldest, AllButOldest, ListenerPC
  <2>2. HandlesARequest'
    <3>1. Oldest(inbound[t]) \in Requests
      BY <1>8 DEF ConsumeRequest, PopInbound, Oldest, TypeOK
    <3>2. Oldest(inbound[t]) # NoReq
      BY <3>1, ChatBusAssumption
    <3> QED  BY <1>8, <3>2 DEF ConsumeRequest, TypeOK, HandlesARequest, Busy
  <2>3. BatchOnStream'
    BY <1>8 DEF ConsumeRequest, TypeOK, BatchOnStream
  <2> QED  BY <2>1, <2>2, <2>3
<1>9. ASSUME NEW t \in Tenants, RunEnds(t) PROVE TypeInv'
  BY <1>9 DEF RunEnds, TypeOK, HandlesARequest, BatchOnStream, ListenerPC, Busy
<1>10. ASSUME NEW t \in Tenants, PublishFinal(t) PROVE TypeInv'
  <2>1. Final(t) \in Event /\ AgentKey(cur[t]) \in Keys
    BY <1>10, FinalType DEF PublishFinal, HandlesARequest, Busy
  <2>2. /\ outbound' \in [Keys -> Seq(Event)]
        /\ trimmed' \in [Keys -> Nat]
        /\ \A l \in Keys : Len(outbound[l]) <= Len(outbound'[l])
    BY <1>10, <2>1, AddToSessionType DEF PublishFinal
  <2>3. TypeOK'
    BY <1>10, <2>2 DEF PublishFinal, TypeOK, ListenerPC
  <2>4. HandlesARequest'
    BY <1>10 DEF PublishFinal, TypeOK, HandlesARequest, Busy
  <2>5. BatchOnStream'
    BY <1>10, <1>k, <2>2, LongerStreams DEF PublishFinal
  <2> QED  BY <2>3, <2>4, <2>5
<1>11. ASSUME NEW t \in Tenants, PublishFinalGlobal(t) PROVE TypeInv'
  <2>1. Final(t) \in Event
    BY <1>11, FinalType DEF PublishFinalGlobal, HandlesARequest, Busy
  <2>2. TypeOK'
    <3>1. cur' \in [Tenants -> Requests \cup {NoReq}] /\ prog' \in [Tenants -> Nat]
      <4>1. CASE UNCHANGED <<cur, prog>>
        BY <4>1 DEF TypeOK
      <4>2. CASE Forget(t)
        BY <4>2 DEF Forget, TypeOK
      <4> QED  BY <1>11, <4>1, <4>2 DEF PublishFinalGlobal
    <3>2. pc' \in [Tenants -> ListenerPC]
      BY <1>11 DEF PublishFinalGlobal, TypeOK, ListenerPC
    <3>3. global' \in Seq(Event)
      BY <1>11, <2>1 DEF PublishFinalGlobal, TypeOK
    <3> QED  BY <1>11, <3>1, <3>2, <3>3 DEF PublishFinalGlobal, TypeOK
  <2>3. HandlesARequest'
    BY <1>11 DEF PublishFinalGlobal, Forget, TypeOK, HandlesARequest, Busy
  <2>4. BatchOnStream'
    BY <1>11 DEF PublishFinalGlobal, BatchOnStream
  <2> QED  BY <2>2, <2>3, <2>4
<1>12. ASSUME NEW t \in Tenants, SaveSession(t) PROVE TypeInv'
  <2>1. TypeOK'
    BY <1>12 DEF SaveSession, Forget, TypeOK, ListenerPC
  <2>2. HandlesARequest'
    BY <1>12 DEF SaveSession, Forget, TypeOK, HandlesARequest, Busy
  <2>3. BatchOnStream'
    BY <1>12 DEF SaveSession, BatchOnStream
  <2> QED  BY <2>1, <2>2, <2>3
<1>13. ASSUME NEW t \in Tenants, Backoff(t) PROVE TypeInv'
  <2>1. TypeOK'
    BY <1>13 DEF Backoff, TypeOK, ListenerPC
  <2>2. HandlesARequest'
    BY <1>13 DEF Backoff, TypeOK, HandlesARequest, Busy
  <2>3. BatchOnStream'
    BY <1>13 DEF Backoff, BatchOnStream
  <2> QED  BY <2>1, <2>2, <2>3
<1>14. ASSUME NEW t \in Tenants, PublishProgress(t) PROVE TypeInv'
  <2>1. cur[t] \in Requests
    BY <1>14 DEF PublishProgress, HandlesARequest, Busy, TypeOK
  <2>2. [kind |-> "progress", req |-> cur[t]] \in Event /\ AgentKey(cur[t]) \in Keys
    BY <2>1, <1>k DEF Event
  <2>3. /\ outbound' \in [Keys -> Seq(Event)]
        /\ trimmed' \in [Keys -> Nat]
        /\ \A l \in Keys : Len(outbound[l]) <= Len(outbound'[l])
    BY <1>14, <2>2, AddToSessionType DEF PublishProgress
  <2>4. TypeOK'
    <3>1. prog' \in [Tenants -> Nat]
      BY <1>14 DEF PublishProgress, TypeOK
    <3> QED  BY <1>14, <2>3, <3>1 DEF PublishProgress, TypeOK
  <2>5. HandlesARequest'
    BY <1>14 DEF PublishProgress, HandlesARequest
  <2>6. BatchOnStream'
    BY <1>14, <2>3, LongerStreams DEF PublishProgress
  <2> QED  BY <2>4, <2>5, <2>6
<1>15. ASSUME NEW t \in Tenants, PublishFinalRaises(t) PROVE TypeInv'
  <2>1. Final(t) \in Event /\ AgentKey(cur[t]) \in Keys /\ pc[t] \in Busy
    BY <1>15, FinalType DEF PublishFinalRaises, HandlesARequest, Busy
  <2>2. /\ outbound' \in [Keys -> Seq(Event)]
        /\ trimmed' \in [Keys -> Nat]
        /\ \A l \in Keys : Len(outbound[l]) <= Len(outbound'[l])
    <3>1. CASE AddToSession(AgentKey(cur[t]), Final(t))
      BY <3>1, <2>1, AddToSessionType
    <3>2. CASE UNCHANGED <<outbound, trimmed>>
      BY <3>2, <1>k DEF TypeOK
    <3> QED  BY <1>15, <3>1, <3>2 DEF PublishFinalRaises
  <2>3. global' \in Seq(Event)
    <3>1. CASE global' = Append(global, Final(t))
      BY <3>1, <2>1 DEF TypeOK
    <3>2. CASE UNCHANGED global
      BY <3>2 DEF TypeOK
    <3> QED  BY <1>15, <3>1, <3>2 DEF PublishFinalRaises
  <2>4. BatchOnStream'
    BY <1>15, <2>2, LongerStreams DEF PublishFinalRaises
  <2>5. TypeOK'
    <3>1. cur' \in [Tenants -> Requests \cup {NoReq}] /\ prog' \in [Tenants -> Nat]
      <4>1. CASE UNCHANGED <<cur, prog>>
        BY <4>1 DEF TypeOK
      <4>2. CASE Forget(t)
        BY <4>2 DEF Forget, TypeOK
      <4> QED  BY <1>15, <4>1, <4>2 DEF PublishFinalRaises
    <3>2. pc' \in [Tenants -> ListenerPC]
      BY <1>15 DEF PublishFinalRaises, TypeOK, ListenerPC
    <3>3. faults' \in Nat
      BY <1>15 DEF PublishFinalRaises, TypeOK
    <3> QED
      BY <1>15, <2>2, <2>3, <3>1, <3>2, <3>3 DEF PublishFinalRaises, TypeOK
  <2>6. HandlesARequest'
    <3>1. CASE pc[t] \in {"done1", "done2"}
      BY <1>15, <3>1 DEF PublishFinalRaises, TypeOK, HandlesARequest, Busy
    <3>2. CASE pc[t] \in {"err1", "err2"}
      BY <1>15, <3>2 DEF PublishFinalRaises, Forget, TypeOK, HandlesARequest, Busy
    <3> QED  BY <1>15, <3>1, <3>2 DEF PublishFinalRaises
  <2> QED  BY <2>4, <2>5, <2>6
<1>16. ASSUME NEW t \in Tenants, ConsumeRaises(t) PROVE TypeInv'
  <2>1. TypeOK'
    <3>1. inbound' \in [Tenants -> Seq(Requests)] /\ popped' \in [Tenants -> Nat]
      <4>1. CASE PopInbound(t)
        BY <4>1 DEF PopInbound, AllButOldest, TypeOK
      <4>2. CASE UNCHANGED <<inbound, popped>>
        BY <4>2 DEF TypeOK
      <4> QED  BY <1>16, <4>1, <4>2 DEF ConsumeRaises
    <3>2. pc' \in [Tenants -> ListenerPC] /\ faults' \in Nat
      BY <1>16 DEF ConsumeRaises, TypeOK, ListenerPC
    <3> QED  BY <1>16, <3>1, <3>2 DEF ConsumeRaises, TypeOK
  <2>2. HandlesARequest'
    BY <1>16 DEF ConsumeRaises, TypeOK, HandlesARequest, Busy
  <2>3. BatchOnStream'
    BY <1>16 DEF ConsumeRaises, TypeOK, BatchOnStream
  <2> QED  BY <2>1, <2>2, <2>3
<1>17. ASSUME NEW t \in Tenants, ContainerGone(t) PROVE TypeInv'
  <2>1. TypeOK'
    <3>1. pc' \in [Tenants -> ListenerPC] /\ stops' \in Nat
      BY <1>17 DEF ContainerGone, TypeOK, ListenerPC
    <3>3. [cached EXCEPT ![t] = FALSE] \in [Tenants -> BOOLEAN]
      BY DEF TypeOK
    <3>4. cached' \in [Tenants -> BOOLEAN]
      BY <1>17, <3>3 DEF ContainerGone, TypeOK
    <3>2. cur' \in [Tenants -> Requests \cup {NoReq}] /\ prog' \in [Tenants -> Nat]
      BY <1>17 DEF ContainerGone, Forget, TypeOK
    <3> QED  BY <1>17, <3>1, <3>2, <3>4 DEF ContainerGone, TypeOK
  <2>2. HandlesARequest'
    BY <1>17 DEF ContainerGone, TypeOK, HandlesARequest, Forget, Busy
  <2>3. BatchOnStream'
    BY <1>17 DEF ContainerGone, TypeOK, BatchOnStream
  <2> QED  BY <2>1, <2>2, <2>3
<1>18. ASSUME NEW t \in Tenants, Provision(t) PROVE TypeInv'
  <2>1. TypeOK'
    BY <1>18 DEF Provision, TypeOK, Forget, ListenerPC
  <2>2. HandlesARequest'
    BY <1>18 DEF Provision, TypeOK, HandlesARequest, Forget, Busy
  <2>3. BatchOnStream'
    BY <1>18 DEF Provision, TypeOK, BatchOnStream
  <2> QED  BY <2>1, <2>2, <2>3
<1>19. CASE UNCHANGED vars
  BY <1>19 DEF TypeOK, HandlesARequest, BatchOnStream
<1> QED
  BY <1>1, <1>2, <1>3, <1>4, <1>5, <1>6, <1>7, <1>8, <1>9, <1>10, <1>11, <1>12, <1>13,
     <1>14, <1>15, <1>16, <1>17, <1>18, <1>19 DEF Next, Listener, Stream

LEMMA TypeInvHolds == Spec => []TypeInv
BY TypeInit, TypeStep, PTL DEF Spec

\* Every reachable state of the chat path is well typed, for every set of
\* tenants and requests, whatever raises, stops or disconnects.
THEOREM TypeCorrect == Spec => []TypeOK
BY TypeInvHolds, PTL DEF TypeInv

(***************************************************************************)
(* The inbound list is a FIFO.  A push writes the ticket of a request that *)
(* has none, so no request in the list or at the listener is disturbed.    *)
(***************************************************************************)
Untouched == \A r \in Requests : gw[r] \in {"new", "resolved"} => ticket[r] = 0
TicketsBounded == \A r \in Requests : ticket[r] <= pushed[TenantOf[r]]
TicketsUnique ==
  \A q, r \in Requests :
    TenantOf[q] = TenantOf[r] /\ ticket[q] = ticket[r] /\ ticket[q] # 0 => q = r
CurIsTicketed == \A t \in Tenants : cur[t] # NoReq => popped[t] # 0

QueueInv ==
  FifoOrder /\ Untouched /\ TicketsBounded /\ TicketsUnique /\ CurIsTicketed

\* What touches neither the list nor the tickets, and at most forgets what a
\* listener handles, keeps the queue invariant.
LEMMA QueueQuiet ==
  ASSUME TypeOK, QueueInv, UNCHANGED <<inbound, ticket, pushed, popped>>,
         \A t \in Tenants : cur'[t] \in {cur[t], NoReq},
         \A r \in Requests : gw'[r] \in {"new", "resolved"} => gw[r] \in {"new", "resolved"}
  PROVE  QueueInv'
<1> USE DEF QueueInv
<1>1. FifoOrder'
  <2> SUFFICES ASSUME NEW t \in Tenants
               PROVE  /\ Len(inbound[t]) = pushed[t] - popped[t]
                      /\ \A i \in 1 .. Len(inbound[t]) :
                           /\ TenantOf[inbound[t][i]] = t
                           /\ ticket[inbound[t][i]] = pushed[t] + 1 - i
                      /\ cur'[t] # NoReq =>
                           TenantOf[cur'[t]] = t /\ ticket[cur'[t]] = popped[t]
    BY DEF FifoOrder
  <2> QED  BY DEF FifoOrder
<1>2. Untouched' /\ TicketsBounded' /\ TicketsUnique' /\ CurIsTicketed'
  BY DEF Untouched, TicketsBounded, TicketsUnique, CurIsTicketed
<1> QED  BY <1>1, <1>2

\* LPUSH.
LEMMA QueuePush ==
  ASSUME TypeOK, QueueInv, NEW r \in Requests, gw[r] = "resolved", PushInbound(r),
         gw' \in {[gw EXCEPT ![r] = "posted"], [gw EXCEPT ![r] = "failed"]},
         UNCHANGED <<cur, popped>>
  PROVE  QueueInv'
<1> USE DEF QueueInv
<1> DEFINE u == TenantOf[r]
<1>1. u \in Tenants /\ \A q \in Requests : TenantOf[q] \in Tenants
  BY ChatBusAssumption
<1>2. /\ inbound' = [inbound EXCEPT ![u] = <<r>> \o inbound[u]]
      /\ pushed' = [pushed EXCEPT ![u] = pushed[u] + 1]
      /\ ticket' = [ticket EXCEPT ![r] = pushed[u] + 1]
  BY DEF PushInbound
<1>3. ticket[r] = 0
  BY DEF Untouched
<1> HIDE DEF u
<1>4. ASSUME NEW t \in Tenants
      PROVE  /\ Len(inbound'[t]) = pushed'[t] - popped[t]
             /\ \A i \in 1 .. Len(inbound'[t]) :
                  /\ TenantOf[inbound'[t][i]] = t
                  /\ ticket'[inbound'[t][i]] = pushed'[t] + 1 - i
             /\ cur[t] # NoReq => TenantOf[cur[t]] = t /\ ticket'[cur[t]] = popped[t]
  <2>1. /\ inbound[t] \in Seq(Requests) /\ pushed[t] \in Nat /\ popped[t] \in Nat
        /\ cur[t] \in Requests \cup {NoReq}
    BY DEF TypeOK
  <2>2. /\ Len(inbound[t]) = pushed[t] - popped[t]
        /\ \A i \in 1 .. Len(inbound[t]) :
             TenantOf[inbound[t][i]] = t /\ ticket[inbound[t][i]] = pushed[t] + 1 - i
        /\ cur[t] # NoReq => TenantOf[cur[t]] = t /\ ticket[cur[t]] = popped[t]
    BY DEF FifoOrder
  <2>3. \A i \in 1 .. Len(inbound[t]) : inbound[t][i] \in Requests /\ inbound[t][i] # r
    BY <2>1, <2>2, <1>3
  <2>4. \A q \in Requests : q # r => ticket'[q] = ticket[q]
    BY <1>2 DEF TypeOK
  <2>5. cur[t] # NoReq => cur[t] # r
    BY <2>1, <2>2, <1>3 DEF CurIsTicketed
  <2>c. cur[t] # NoReq => TenantOf[cur[t]] = t /\ ticket'[cur[t]] = popped[t]
    BY <2>1, <2>2, <2>4, <2>5
  <2>6. CASE t # u
    <3>1. inbound'[t] = inbound[t] /\ pushed'[t] = pushed[t]
      BY <1>2, <2>6 DEF TypeOK
    <3>2. \A i \in 1 .. Len(inbound[t]) : ticket'[inbound[t][i]] = ticket[inbound[t][i]]
      BY <2>3, <2>4
    <3> QED  BY <3>1, <3>2, <2>2, <2>c
  <2>7. CASE t = u
    <3>1. inbound'[t] = <<r>> \o inbound[t] /\ pushed'[t] = pushed[t] + 1
      BY <1>2, <2>7 DEF TypeOK
    <3>2. /\ Len(inbound'[t]) = Len(inbound[t]) + 1
          /\ inbound'[t][1] = r
          /\ \A i \in 2 .. Len(inbound'[t]) : inbound'[t][i] = inbound[t][i - 1]
      BY <3>1, <2>1
    <3>3. ticket'[r] = pushed[t] + 1 /\ TenantOf[r] = t
      BY <1>2, <2>7 DEF TypeOK, u
    <3>4. ASSUME NEW i \in 1 .. Len(inbound'[t])
          PROVE  TenantOf[inbound'[t][i]] = t /\ ticket'[inbound'[t][i]] = pushed'[t] + 1 - i
      <4>1. CASE i = 1
        BY <4>1, <3>1, <3>2, <3>3, <2>1
      <4>2. CASE i # 1
        <5>1. i - 1 \in 1 .. Len(inbound[t]) /\ inbound'[t][i] = inbound[t][i - 1]
          BY <4>2, <3>2, <2>1
        <5>2. /\ TenantOf[inbound[t][i - 1]] = t
              /\ ticket[inbound[t][i - 1]] = pushed[t] + 1 - (i - 1)
              /\ ticket'[inbound[t][i - 1]] = ticket[inbound[t][i - 1]]
          BY <5>1, <2>2, <2>3, <2>4
        <5> QED  BY <5>1, <5>2, <3>1, <2>1
      <4> QED  BY <4>1, <4>2
    <3>5. Len(inbound'[t]) = pushed'[t] - popped[t]
      BY <3>1, <3>2, <2>1, <2>2
    <3> QED  BY <3>4, <3>5, <2>c
  <2> QED  BY <2>6, <2>7
<1>5. FifoOrder'
  BY <1>4 DEF FifoOrder
<1>6. Untouched'
  BY <1>2 DEF Untouched, TypeOK
<1>7. TicketsBounded'
  BY <1>1, <1>2 DEF TicketsBounded, TypeOK, u
<1>8. TicketsUnique'
  <2> SUFFICES ASSUME NEW p \in Requests, NEW q \in Requests,
                      TenantOf[p] = TenantOf[q], ticket'[p] = ticket'[q], ticket'[p] # 0
               PROVE  p = q
    BY DEF TicketsUnique
  <2>1. CASE p # r /\ q # r
    BY <2>1, <1>2 DEF TicketsUnique, TypeOK
  <2>2. CASE p = r /\ q # r
    BY <2>2, <1>1, <1>2 DEF TicketsBounded, TypeOK, u
  <2>3. CASE p # r /\ q = r
    BY <2>3, <1>1, <1>2 DEF TicketsBounded, TypeOK, u
  <2> QED  BY <2>1, <2>2, <2>3
<1>9. CurIsTicketed'
  BY DEF CurIsTicketed
<1> QED  BY <1>5, <1>6, <1>7, <1>8, <1>9

\* BRPOP; the listener takes the request, or the reply is lost.
LEMMA QueuePop ==
  ASSUME TypeOK, QueueInv, NEW t \in Tenants, PopInbound(t), cur[t] = NoReq,
         cur' \in {[cur EXCEPT ![t] = Oldest(inbound[t])], cur},
         UNCHANGED <<gw, ticket, pushed>>
  PROVE  QueueInv'
<1> USE DEF QueueInv
<1>1. ASSUME NEW u \in Tenants
      PROVE  /\ Len(inbound'[u]) = pushed[u] - popped'[u]
             /\ \A i \in 1 .. Len(inbound'[u]) :
                  TenantOf[inbound'[u][i]] = u /\ ticket[inbound'[u][i]] = pushed[u] + 1 - i
             /\ cur'[u] # NoReq =>
                  TenantOf[cur'[u]] = u /\ ticket[cur'[u]] = popped'[u] /\ popped'[u] # 0
  <2>1. /\ inbound[u] \in Seq(Requests) /\ pushed[u] \in Nat /\ popped[u] \in Nat
        /\ cur[u] \in Requests \cup {NoReq}
    BY DEF TypeOK
  <2>2. /\ Len(inbound[u]) = pushed[u] - popped[u]
        /\ \A i \in 1 .. Len(inbound[u]) :
             TenantOf[inbound[u][i]] = u /\ ticket[inbound[u][i]] = pushed[u] + 1 - i
        /\ cur[u] # NoReq =>
             TenantOf[cur[u]] = u /\ ticket[cur[u]] = popped[u] /\ popped[u] # 0
    BY DEF FifoOrder, CurIsTicketed
  <2>3. CASE u # t
    <3>1. inbound'[u] = inbound[u] /\ popped'[u] = popped[u] /\ cur'[u] = cur[u]
      BY <2>3 DEF PopInbound, TypeOK
    <3> QED  BY <3>1, <2>2
  <2>4. CASE u = t
    <3> DEFINE n == Len(inbound[u])
    <3>1. inbound[u] # <<>> /\ inbound'[u] = SubSeq(inbound[u], 1, n - 1)
          /\ popped'[u] = popped[u] + 1
      BY <2>4 DEF PopInbound, AllButOldest, TypeOK
    <3>2. n \in Nat /\ n >= 1
      BY <2>1, <3>1
    <3>3. /\ Len(inbound'[u]) = n - 1
          /\ \A i \in 1 .. n - 1 : inbound'[u][i] = inbound[u][i]
      BY <2>1, <3>1, <3>2
    <3>4. cur'[u] \in {inbound[u][n], NoReq}
      BY <2>4 DEF Oldest, TypeOK
    <3>5. cur'[u] # NoReq => TenantOf[cur'[u]] = u /\ ticket[cur'[u]] = popped'[u]
      <4>1. n \in 1 .. Len(inbound[u])
        BY <3>2
      <4>2. TenantOf[inbound[u][n]] = u /\ ticket[inbound[u][n]] = pushed[u] + 1 - n
        BY <4>1, <2>2
      <4>3. pushed[u] + 1 - n = popped[u] + 1
        BY <2>1, <2>2
      <4> QED  BY <4>2, <4>3, <3>1, <3>4
    <3>6. \A i \in 1 .. Len(inbound'[u]) :
            TenantOf[inbound'[u][i]] = u /\ ticket[inbound'[u][i]] = pushed[u] + 1 - i
      <4>1. \A i \in 1 .. Len(inbound'[u]) : i \in 1 .. Len(inbound[u]) /\ i \in 1 .. n - 1
        BY <3>2, <3>3
      <4>2. \A i \in 1 .. Len(inbound'[u]) : inbound'[u][i] = inbound[u][i]
        BY <4>1, <3>3
      <4> QED  BY <4>1, <4>2, <2>2
    <3>7. Len(inbound'[u]) = pushed[u] - popped'[u] /\ popped'[u] # 0
      <4>1. n = pushed[u] - popped[u] /\ Len(inbound'[u]) = n - 1 /\ popped'[u] = popped[u] + 1
        BY <3>1, <3>3, <2>2
      <4> HIDE DEF n
      <4> QED  BY <4>1, <3>2, <2>1
    <3> QED  BY <3>5, <3>6, <3>7
  <2> QED  BY <2>3, <2>4
<1>2. FifoOrder' /\ CurIsTicketed'
  BY <1>1 DEF FifoOrder, CurIsTicketed
<1>3. Untouched' /\ TicketsBounded' /\ TicketsUnique'
  BY DEF Untouched, TicketsBounded, TicketsUnique
<1> QED  BY <1>2, <1>3

LEMMA QueueInit == Init => QueueInv
<1> SUFFICES ASSUME Init PROVE QueueInv
  OBVIOUS
<1>1. \A r \in Requests : TenantOf[r] \in Tenants
  BY ChatBusAssumption
<1>2. FifoOrder
  BY DEF Init, FifoOrder
<1>3. Untouched /\ TicketsBounded /\ TicketsUnique /\ CurIsTicketed
  BY <1>1 DEF Init, Untouched, TicketsBounded, TicketsUnique, CurIsTicketed
<1> QED  BY <1>2, <1>3 DEF QueueInv

LEMMA QueueStep == TypeInv /\ QueueInv /\ [Next]_vars => QueueInv'
<1> USE DEF gwVars, redisVars, agentVars, clientVars, histVars, budgetVars, vars
<1> SUFFICES ASSUME TypeInv, QueueInv, [Next]_vars PROVE QueueInv'
  OBVIOUS
<1>ty. TypeOK /\ HandlesARequest
  BY DEF TypeInv
<1> DEFINE Quiet ==
      /\ UNCHANGED <<inbound, ticket, pushed, popped>>
      /\ \A t \in Tenants : cur'[t] \in {cur[t], NoReq}
      /\ \A r \in Requests :
           gw'[r] \in {"new", "resolved"} => gw[r] \in {"new", "resolved"}
<1>q. Quiet => QueueInv'
  BY <1>ty, QueueQuiet
<1>f. ASSUME NEW t \in Tenants, Forget(t) PROVE \A u \in Tenants : cur'[u] \in {cur[u], NoReq}
  BY <1>ty, <1>f DEF Forget, TypeOK
<1>1. ASSUME NEW r \in Requests, ResolveTenant(r) PROVE QueueInv'
  BY <1>1, <1>ty, <1>q DEF ResolveTenant, TypeOK
<1>2. ASSUME NEW r \in Requests, PublishRequest(r) PROVE QueueInv'
  BY <1>2, <1>ty, QueuePush DEF PublishRequest
<1>3. ASSUME NEW r \in Requests, PublishRequestRaises(r) PROVE QueueInv'
  <2>1. CASE PushInbound(r)
    BY <1>3, <2>1, <1>ty, QueuePush DEF PublishRequestRaises
  <2>2. CASE UNCHANGED <<inbound, pushed, ticket>>
    BY <1>3, <2>2, <1>ty, <1>q DEF PublishRequestRaises, TypeOK
  <2> QED  BY <1>3, <2>1, <2>2 DEF PublishRequestRaises
<1>4. ASSUME NEW r \in Requests, Stream(r) \/ Disconnect(r) PROVE QueueInv'
  BY <1>4, <1>q DEF Stream, OpenStream, ReadBatch, DeliverEvent, Disconnect
<1>5. ASSUME NEW t \in Tenants, ConsumeRequest(t) PROVE QueueInv'
  <2>1. cur[t] = NoReq
    BY <1>5, <1>ty DEF ConsumeRequest, HandlesARequest, Busy
  <2> QED  BY <1>5, <2>1, <1>ty, QueuePop DEF ConsumeRequest
<1>6. ASSUME NEW t \in Tenants, ConsumeRaises(t) PROVE QueueInv'
  <2>1. cur[t] = NoReq
    BY <1>6, <1>ty DEF ConsumeRaises, HandlesARequest, Busy
  <2>2. CASE PopInbound(t)
    BY <1>6, <2>1, <2>2, <1>ty, QueuePop DEF ConsumeRaises
  <2>3. CASE UNCHANGED <<inbound, popped>>
    BY <1>6, <2>3, <1>q DEF ConsumeRaises
  <2> QED  BY <1>6, <2>2, <2>3 DEF ConsumeRaises
<1>7. ASSUME NEW t \in Tenants, RunEnds(t) \/ PublishFinal(t) \/ Backoff(t) \/ PublishProgress(t)
      PROVE  QueueInv'
  BY <1>7, <1>q DEF RunEnds, PublishFinal, Backoff, PublishProgress
<1>8. ASSUME NEW t \in Tenants, PublishFinalGlobal(t) PROVE QueueInv'
  BY <1>8, <1>q, <1>f DEF PublishFinalGlobal
<1>9. ASSUME NEW t \in Tenants, PublishFinalRaises(t) PROVE QueueInv'
  BY <1>9, <1>q, <1>f DEF PublishFinalRaises
<1>10. ASSUME NEW t \in Tenants, SaveSession(t) \/ ContainerGone(t) \/ Provision(t)
       PROVE  QueueInv'
  BY <1>10, <1>q, <1>f DEF SaveSession, ContainerGone, Provision
<1>11. CASE UNCHANGED vars
  BY <1>11, <1>q
<1> QED
  BY <1>1, <1>2, <1>3, <1>4, <1>5, <1>6, <1>7, <1>8, <1>9, <1>10, <1>11 DEF Next, Listener

LEMMA QueueInvHolds == Spec => []QueueInv
<1>1. Spec => []TypeInv
  BY TypeInvHolds
<1> QED  BY <1>1, QueueInit, QueueStep, PTL DEF Spec

\* The inbound list of every tenant is a FIFO queue, through every failure of
\* Redis, the container or the client.
THEOREM InboundIsFifo == Spec => []FifoOrder
BY QueueInvHolds, PTL DEF QueueInv

(***************************************************************************)
(* What the streams hold.  Every event belongs to a request that has been  *)
(* popped, so the request popped last is not yet on a stream; the events a *)
(* listener has published for its request tell how far it is.              *)
(***************************************************************************)
On(k, j) == outbound[k][j]

StreamedWasPopped ==
  \A k \in Keys : \A j \in 1 .. Len(outbound[k]) :
    ticket[On(k, j).req] \in 1 .. popped[TenantOf[On(k, j).req]]

NotYetFinal ==
  \A t \in Tenants : \A k \in Keys : \A j \in 1 .. Len(outbound[k]) :
    cur[t] # NoReq /\ On(k, j).req = cur[t] =>
      /\ pc[t] \in {"run", "done1"} => Rank(On(k, j)) = 0
      /\ pc[t] \in {"done2", "err1"} => Rank(On(k, j)) < 2

StreamInv == StreamedWasPopped /\ NotYetFinal /\ TurnsInOrder /\ TurnShape

\* The entries of a stream after an XADD: the old ones and the new one.
LEMMA AddToSessionEntries ==
  ASSUME TypeOK, NEW k \in Keys, NEW e \in Event, AddToSession(k, e)
  PROVE  /\ outbound' \in [Keys -> Seq(Event)]
         /\ \A l \in Keys : \A j \in 1 .. Len(outbound[l]) :
              j \in 1 .. Len(outbound'[l]) /\ outbound'[l][j] = outbound[l][j]
         /\ Len(outbound[k]) + 1 \in 1 .. Len(outbound'[k])
         /\ outbound'[k][Len(outbound[k]) + 1] = e
         /\ \A l \in Keys : \A j \in 1 .. Len(outbound'[l]) :
              \/ j \in 1 .. Len(outbound[l]) /\ outbound'[l][j] = outbound[l][j]
              \/ l = k /\ j = Len(outbound[l]) + 1 /\ outbound'[l][j] = e
<1>1. outbound' = [outbound EXCEPT ![k] = Append(outbound[k], e)]
  BY DEF AddToSession
<1>2. outbound[k] \in Seq(Event) /\ outbound \in [Keys -> Seq(Event)]
  BY DEF TypeOK
<1>3. outbound' \in [Keys -> Seq(Event)]
  BY <1>1, <1>2
<1>4. /\ Len(outbound'[k]) = Len(outbound[k]) + 1
      /\ outbound'[k][Len(outbound[k]) + 1] = e
      /\ \A j \in 1 .. Len(outbound[k]) : outbound'[k][j] = outbound[k][j]
  BY <1>1, <1>2
<1>5. \A l \in Keys : l # k => outbound'[l] = outbound[l]
  BY <1>1, <1>2
<1>6. \A l \in Keys : Len(outbound[l]) \in Nat
  BY <1>2
<1> HIDE DEF TypeOK
<1> QED  BY <1>3, <1>4, <1>5, <1>6

\* A turn's next event, of the rank its listener's state calls for, goes to the
\* end of a stream that no later turn has reached.
LEMMA StreamAdd ==
  ASSUME TypeOK, QueueInv, StreamInv, NEW t \in Tenants, cur[t] # NoReq,
         NEW e \in Event, e.req = cur[t], AddToSession(AgentKey(cur[t]), e),
         \/ pc[t] = "run" /\ Rank(e) = 0
         \/ pc[t] = "done1" /\ Rank(e) = 1
         \/ pc[t] = "err1" /\ Rank(e) = 2,
         UNCHANGED <<ticket, popped>>
  PROVE  /\ StreamedWasPopped' /\ TurnsInOrder' /\ TurnShape'
         /\ \A k \in Keys : \A j \in 1 .. Len(outbound'[k]) :
              \/ j \in 1 .. Len(outbound[k]) /\ outbound'[k][j] = On(k, j)
              \/ outbound'[k][j] = e
<1> USE DEF StreamInv
<1> DEFINE K == AgentKey(cur[t])
<1>1. cur[t] \in Requests /\ K \in Keys
  BY DEF TypeOK, Keys
<1>2. /\ ticket[cur[t]] = popped[t] /\ TenantOf[cur[t]] = t
      /\ popped[t] # 0 /\ popped[t] \in Nat
  BY DEF QueueInv, FifoOrder, CurIsTicketed, TypeOK
<1>3. \A k \in Keys : \A j \in 1 .. Len(outbound'[k]) :
        \/ j \in 1 .. Len(outbound[k]) /\ outbound'[k][j] = outbound[k][j]
        \/ k = K /\ j = Len(outbound[k]) + 1 /\ outbound'[k][j] = e
  BY <1>1, AddToSessionEntries
<1>4. \A k \in Keys : \A j \in 1 .. Len(outbound[k]) : outbound[k][j] \in Event
  BY DEF TypeOK
<1>len. \A k \in Keys : Len(outbound[k]) \in Nat
  BY DEF TypeOK
<1> HIDE DEF K
<1>5. StreamedWasPopped'
  <2> SUFFICES ASSUME NEW k \in Keys, NEW j \in 1 .. Len(outbound'[k])
               PROVE  ticket[outbound'[k][j].req] \in 1 .. popped[TenantOf[outbound'[k][j].req]]
    BY DEF StreamedWasPopped, On
  <2>1. CASE j \in 1 .. Len(outbound[k]) /\ outbound'[k][j] = outbound[k][j]
    BY <2>1 DEF StreamedWasPopped, On
  <2>2. CASE outbound'[k][j] = e
    BY <2>2, <1>2
  <2> QED  BY <2>1, <2>2, <1>3
<1>6. TurnsInOrder'
  <2> SUFFICES ASSUME NEW k \in Keys, NEW j \in 1 .. Len(outbound'[k]), NEW i \in 1 .. j,
                      TenantOf[outbound'[k][i].req] = TenantOf[outbound'[k][j].req]
               PROVE  \/ outbound'[k][i].req = outbound'[k][j].req
                      \/ ticket[outbound'[k][i].req] < ticket[outbound'[k][j].req]
    BY DEF TurnsInOrder
  <2>0. i \in 1 .. Len(outbound'[k])
    BY AddToSessionEntries, <1>1 DEF K
  <2>1. CASE j \in 1 .. Len(outbound[k]) /\ outbound'[k][j] = outbound[k][j]
    <3>1. i \in 1 .. Len(outbound[k]) /\ outbound'[k][i] = outbound[k][i]
      BY <2>0, <2>1, <1>3, <1>len
    <3> QED  BY <2>1, <3>1 DEF TurnsInOrder
  <2>2. CASE j = Len(outbound[k]) + 1 /\ outbound'[k][j] = e
    <3>1. CASE outbound'[k][i] = e
      BY <2>2, <3>1
    <3>2. CASE i \in 1 .. Len(outbound[k]) /\ outbound'[k][i] = outbound[k][i]
      <4> DEFINE q == outbound[k][i].req
      <4>1. q \in Requests /\ ticket[q] \in Nat /\ ticket[q] \in 1 .. popped[TenantOf[q]]
        BY <3>2, <1>4 DEF StreamedWasPopped, On, Event, TypeOK
      <4>2. TenantOf[q] = t
        BY <2>2, <3>2, <1>2
      <4>3. ticket[q] = ticket[cur[t]] => q = cur[t]
        BY <4>1, <4>2, <1>1, <1>2 DEF QueueInv, TicketsUnique
      <4> QED  BY <2>2, <3>2, <4>1, <4>2, <4>3, <1>2
    <3> QED  BY <3>1, <3>2, <2>0, <1>3
  <2> QED  BY <2>1, <2>2, <1>3
<1>7. TurnShape'
  <2> SUFFICES ASSUME NEW k \in Keys, NEW j \in 1 .. Len(outbound'[k]), NEW i \in 1 .. j - 1,
                      outbound'[k][i].req = outbound'[k][j].req
               PROVE  \/ Rank(outbound'[k][i]) < Rank(outbound'[k][j])
                      \/ Rank(outbound'[k][i]) = 0 /\ Rank(outbound'[k][j]) = 0
    BY DEF TurnShape, Rank
  <2>0. i \in 1 .. Len(outbound'[k])
    BY AddToSessionEntries, <1>1 DEF K
  <2>1. i \in 1 .. Len(outbound[k]) /\ outbound'[k][i] = outbound[k][i]
    BY <2>0, <1>3, <1>len
  <2>2. CASE j \in 1 .. Len(outbound[k]) /\ outbound'[k][j] = outbound[k][j]
    BY <2>1, <2>2 DEF TurnShape
  <2>3. CASE outbound'[k][j] = e
    BY <2>1, <2>3, <1>1 DEF NotYetFinal, On
  <2> QED  BY <2>2, <2>3, <1>3
<1> QED  BY <1>3, <1>5, <1>6, <1>7 DEF On

\* Where a listener may go without publishing.
Moves(t) ==
  \/ cur'[t] = NoReq
  \/ /\ cur'[t] = cur[t]
     /\ pc'[t] \in {"run", "done1"} => pc[t] \in {"run", "done1"}
     /\ pc'[t] \in {"done2", "err1"} => pc[t] \in {"run", "done1", "done2", "err1"}

LEMMA StreamQuiet ==
  ASSUME TypeOK, TypeOK', StreamInv, UNCHANGED outbound,
         \A r \in Requests : ticket[r] # 0 => ticket'[r] = ticket[r],
         \A t \in Tenants : popped[t] <= popped'[t] /\ Moves(t)
  PROVE  StreamInv'
<1> USE DEF StreamInv
<1>1. \A k \in Keys : \A j \in 1 .. Len(outbound[k]) :
        /\ On(k, j).req \in Requests
        /\ ticket'[On(k, j).req] = ticket[On(k, j).req]
        /\ ticket[On(k, j).req] \in 1 .. popped[TenantOf[On(k, j).req]]
  <2> SUFFICES ASSUME NEW k \in Keys, NEW j \in 1 .. Len(outbound[k])
               PROVE  /\ On(k, j).req \in Requests
                      /\ ticket'[On(k, j).req] = ticket[On(k, j).req]
                      /\ ticket[On(k, j).req] \in 1 .. popped[TenantOf[On(k, j).req]]
    OBVIOUS
  <2>1. On(k, j) \in Event
    BY DEF On, TypeOK
  <2>2. ticket[On(k, j).req] \in 1 .. popped[TenantOf[On(k, j).req]]
    BY DEF StreamedWasPopped
  <2> QED  BY <2>1, <2>2 DEF Event
<1>2. StreamedWasPopped'
  <2> SUFFICES ASSUME NEW k \in Keys, NEW j \in 1 .. Len(outbound[k])
               PROVE  ticket'[On(k, j).req] \in 1 .. popped'[TenantOf[On(k, j).req]]
    BY DEF StreamedWasPopped, On
  <2>1. TenantOf[On(k, j).req] \in Tenants
    BY <1>1, ChatBusAssumption
  <2>2. \A t \in Tenants : popped[t] \in Nat /\ popped'[t] \in Nat /\ popped[t] <= popped'[t]
    BY DEF TypeOK
  <2>3. ticket'[On(k, j).req] \in 1 .. popped[TenantOf[On(k, j).req]]
    BY <1>1
  <2> QED  BY <2>1, <2>2, <2>3
<1>3. NotYetFinal'
  BY DEF NotYetFinal, On, Moves, Rank
<1>4. TurnsInOrder'
  <2> SUFFICES ASSUME NEW k \in Keys, NEW j \in 1 .. Len(outbound[k]), NEW i \in 1 .. j,
                      TenantOf[On(k, i).req] = TenantOf[On(k, j).req]
               PROVE  \/ On(k, i).req = On(k, j).req
                      \/ ticket'[On(k, i).req] < ticket'[On(k, j).req]
    BY DEF TurnsInOrder, On
  <2>1. i \in 1 .. Len(outbound[k])
    BY DEF TypeOK
  <2> QED  BY <1>1, <2>1 DEF TurnsInOrder, On
<1>5. TurnShape'
  BY DEF TurnShape, Rank
<1> QED  BY <1>2, <1>3, <1>4, <1>5

\* A turn begins with nothing on any stream.
LEMMA StreamConsume ==
  ASSUME TypeOK, QueueInv', StreamInv, NEW t \in Tenants, ConsumeRequest(t)
  PROVE  StreamInv'
<1> USE DEF StreamInv
<1> USE DEF gwVars, redisVars, agentVars, clientVars, histVars, budgetVars
<1>1. /\ UNCHANGED <<outbound, ticket>>
      /\ popped' = [popped EXCEPT ![t] = popped[t] + 1]
      /\ \A u \in Tenants : u # t => cur'[u] = cur[u] /\ pc'[u] = pc[u]
      /\ cur'[t] # NoReq => TenantOf[cur'[t]] = t /\ ticket[cur'[t]] = popped[t] + 1
  BY DEF ConsumeRequest, PopInbound, QueueInv, FifoOrder, TypeOK
<1>2. \A u \in Tenants : popped[u] \in Nat /\ popped'[u] \in Nat /\ popped[u] <= popped'[u]
  BY <1>1 DEF TypeOK
<1>3. StreamedWasPopped'
  <2> SUFFICES ASSUME NEW k \in Keys, NEW j \in 1 .. Len(outbound[k])
               PROVE  ticket[On(k, j).req] \in 1 .. popped'[TenantOf[On(k, j).req]]
    BY <1>1 DEF StreamedWasPopped, On
  <2>0. On(k, j) \in Event
    BY DEF On, TypeOK
  <2>1. On(k, j).req \in Requests
    BY <2>0 DEF Event
  <2>2. TenantOf[On(k, j).req] \in Tenants
    BY <2>1, ChatBusAssumption
  <2>3. ticket[On(k, j).req] \in 1 .. popped[TenantOf[On(k, j).req]]
    BY DEF StreamedWasPopped
  <2> QED  BY <2>2, <2>3, <1>2
<1>4. NotYetFinal'
  <2> SUFFICES ASSUME NEW u \in Tenants, NEW k \in Keys, NEW j \in 1 .. Len(outbound[k]),
                      cur'[u] # NoReq, On(k, j).req = cur'[u]
               PROVE  /\ pc'[u] \in {"run", "done1"} => Rank(On(k, j)) = 0
                      /\ pc'[u] \in {"done2", "err1"} => Rank(On(k, j)) < 2
    BY <1>1 DEF NotYetFinal, On, Rank
  <2>1. CASE u # t
    BY <1>1, <2>1 DEF NotYetFinal
  <2>2. CASE u = t
    <3>1. ticket[On(k, j).req] \in 1 .. popped[t] /\ ticket[On(k, j).req] = popped[t] + 1
      BY <1>1, <2>2 DEF StreamedWasPopped
    <3> QED  BY <3>1, <1>2
  <2> QED  BY <2>1, <2>2
<1>5. TurnsInOrder' /\ TurnShape'
  BY <1>1 DEF TurnsInOrder, TurnShape, Rank
<1> QED  BY <1>3, <1>4, <1>5

\* What a listener has after a publish of its own.
LEMMA NotYetFinalAfterAdd ==
  ASSUME TypeOK, QueueInv, StreamInv, NEW t \in Tenants, cur[t] # NoReq,
         NEW e, e.req = cur[t],
         \A k \in Keys : \A j \in 1 .. Len(outbound'[k]) :
           \/ j \in 1 .. Len(outbound[k]) /\ outbound'[k][j] = On(k, j)
           \/ outbound'[k][j] = e,
         \A u \in Tenants : u # t => cur'[u] = cur[u] /\ pc'[u] = pc[u],
         \/ cur'[t] = NoReq
         \/ /\ cur'[t] = cur[t]
            /\ pc'[t] \in {"run", "done1"} => pc[t] = "run" /\ Rank(e) = 0
            /\ pc'[t] \in {"done2", "err1"} => pc[t] = "done1" /\ Rank(e) < 2
  PROVE  NotYetFinal'
<1> SUFFICES ASSUME NEW u \in Tenants, NEW k \in Keys, NEW j \in 1 .. Len(outbound'[k]),
                    cur'[u] # NoReq, outbound'[k][j].req = cur'[u]
             PROVE  /\ pc'[u] \in {"run", "done1"} => Rank(outbound'[k][j]) = 0
                    /\ pc'[u] \in {"done2", "err1"} => Rank(outbound'[k][j]) < 2
  BY DEF NotYetFinal, On, Rank
<1>1. CASE j \in 1 .. Len(outbound[k]) /\ outbound'[k][j] = On(k, j)
  <2>1. CASE u = t
    BY <1>1, <2>1 DEF StreamInv, NotYetFinal
  <2>2. CASE u # t
    BY <1>1, <2>2 DEF StreamInv, NotYetFinal
  <2> QED  BY <2>1, <2>2
<1>2. CASE outbound'[k][j] = e
  <2>1. TenantOf[cur[t]] = t
    BY DEF QueueInv, FifoOrder
  <2>2. u # t => TenantOf[cur[u]] = u
    BY DEF QueueInv, FifoOrder
  <2>3. u = t
    BY <1>2, <2>1, <2>2
  <2> QED  BY <1>2, <2>3
<1> QED  BY <1>1, <1>2

LEMMA StreamInit == Init => StreamInv
  BY DEF Init, StreamInv, StreamedWasPopped, NotYetFinal, TurnsInOrder, TurnShape

LEMMA StreamStep ==
  TypeInv /\ TypeInv' /\ QueueInv /\ QueueInv' /\ StreamInv /\ [Next]_vars => StreamInv'
<1> USE DEF gwVars, redisVars, agentVars, clientVars, histVars, budgetVars, vars
<1> SUFFICES ASSUME TypeInv, TypeInv', QueueInv, QueueInv', StreamInv, [Next]_vars
             PROVE  StreamInv'
  OBVIOUS
<1>ty. TypeOK /\ TypeOK' /\ HandlesARequest
  BY DEF TypeInv
<1>pop. ASSUME UNCHANGED popped
        PROVE  \A u \in Tenants : popped[u] <= popped'[u]
  BY <1>pop, <1>ty DEF TypeOK
<1>q. ASSUME UNCHANGED <<outbound, ticket, popped>>, \A u \in Tenants : Moves(u)
      PROVE  StreamInv'
  BY <1>q, <1>ty, <1>pop, StreamQuiet
<1>push. ASSUME NEW r \in Requests, gw[r] = "resolved", PushInbound(r),
                UNCHANGED <<outbound, popped, cur, pc>>
         PROVE  StreamInv'
  <2>1. ticket[r] = 0
    BY <1>push DEF QueueInv, Untouched
  <2>2. \A q \in Requests : ticket[q] # 0 => ticket'[q] = ticket[q]
    BY <1>push, <2>1, <1>ty DEF PushInbound, TypeOK
  <2> QED  BY <1>push, <2>2, <1>ty, <1>pop, StreamQuiet DEF Moves
<1>fin. ASSUME NEW t \in Tenants, pc[t] \in {"done1", "err1"}
        PROVE  /\ cur[t] # NoReq /\ Final(t) \in Event /\ Final(t).req = cur[t]
               /\ Rank(Final(t)) = IF pc[t] = "done1" THEN 1 ELSE 2
  <2>1. cur[t] # NoReq
    BY <1>fin, <1>ty DEF HandlesARequest, Busy
  <2> QED  BY <1>fin, <2>1, <1>ty, FinalType DEF Final, Rank
<1>1. ASSUME NEW r \in Requests, ResolveTenant(r) PROVE StreamInv'
  <2>1. ASSUME NEW u \in Tenants PROVE Moves(u)
    BY <1>1, <1>ty DEF ResolveTenant, Moves, TypeOK
  <2> QED  BY <1>1, <2>1, <1>q DEF ResolveTenant
<1>2. ASSUME NEW r \in Requests, PublishRequest(r) PROVE StreamInv'
  BY <1>2, <1>push DEF PublishRequest
<1>3. ASSUME NEW r \in Requests, PublishRequestRaises(r) PROVE StreamInv'
  <2>1. CASE PushInbound(r)
    BY <1>3, <2>1, <1>push DEF PublishRequestRaises
  <2>2. CASE UNCHANGED <<inbound, pushed, ticket>>
    BY <1>3, <2>2, <1>q DEF PublishRequestRaises, Moves
  <2> QED  BY <1>3, <2>1, <2>2 DEF PublishRequestRaises
<1>4. ASSUME NEW r \in Requests, Stream(r) \/ Disconnect(r) PROVE StreamInv'
  BY <1>4, <1>q DEF Stream, OpenStream, ReadBatch, DeliverEvent, Disconnect, Moves
<1>5. ASSUME NEW t \in Tenants, ConsumeRequest(t) PROVE StreamInv'
  BY <1>5, <1>ty, StreamConsume
<1>6. ASSUME NEW t \in Tenants, ConsumeRaises(t) PROVE StreamInv'
  <2>1. \A u \in Tenants : popped[u] <= popped'[u]
    <3>1. CASE popped' = [popped EXCEPT ![t] = popped[t] + 1]
      <4>1. popped \in [Tenants -> Nat]
        BY <1>ty DEF TypeOK
      <4> QED  BY <3>1, <4>1
    <3>2. CASE UNCHANGED popped
      BY <3>2, <1>pop
    <3> QED  BY <1>6, <3>1, <3>2 DEF ConsumeRaises, PopInbound
  <2>2. ASSUME NEW u \in Tenants PROVE Moves(u)
    BY <1>6, <1>ty DEF ConsumeRaises, Moves, TypeOK
  <2> QED  BY <1>6, <2>1, <2>2, <1>ty, StreamQuiet DEF ConsumeRaises
<1>7. ASSUME NEW t \in Tenants, RunEnds(t) \/ Backoff(t) PROVE StreamInv'
  <2>1. ASSUME NEW u \in Tenants PROVE Moves(u)
    BY <1>7, <1>ty DEF RunEnds, Backoff, Moves, TypeOK
  <2> QED  BY <1>7, <2>1, <1>q DEF RunEnds, Backoff
<1>8. ASSUME NEW t \in Tenants, PublishProgress(t) PROVE StreamInv'
  <2> DEFINE e == [kind |-> "progress", req |-> cur[t]]
  <2>1. pc[t] = "run" /\ cur[t] # NoReq /\ cur[t] \in Requests
    BY <1>8, <1>ty DEF PublishProgress, HandlesARequest, Busy, TypeOK
  <2>2. e \in Event /\ e.req = cur[t] /\ Rank(e) = 0
    BY <2>1 DEF Event, Rank
  <2>3. AddToSession(AgentKey(cur[t]), e) /\ UNCHANGED <<pc, cur, ticket, popped>>
    BY <1>8 DEF PublishProgress
  <2> HIDE DEF e
  <2>4. /\ StreamedWasPopped' /\ TurnsInOrder' /\ TurnShape'
        /\ \A k \in Keys : \A j \in 1 .. Len(outbound'[k]) :
             \/ j \in 1 .. Len(outbound[k]) /\ outbound'[k][j] = On(k, j)
             \/ outbound'[k][j] = e
    BY <2>1, <2>2, <2>3, <1>ty, StreamAdd
  <2>5. NotYetFinal'
    BY <2>1, <2>2, <2>3, <2>4, <1>ty, NotYetFinalAfterAdd
  <2> QED  BY <2>4, <2>5 DEF StreamInv
<1>9. ASSUME NEW t \in Tenants, PublishFinal(t) PROVE StreamInv'
  <2>1. /\ pc[t] \in {"done1", "err1"} /\ AddToSession(AgentKey(cur[t]), Final(t))
        /\ UNCHANGED <<cur, ticket, popped>>
        /\ pc'[t] = IF pc[t] = "done1" THEN "done2" ELSE "err2"
        /\ \A u \in Tenants : u # t => pc'[u] = pc[u]
    BY <1>9, <1>ty DEF PublishFinal, TypeOK
  <2>2. /\ StreamedWasPopped' /\ TurnsInOrder' /\ TurnShape'
        /\ \A k \in Keys : \A j \in 1 .. Len(outbound'[k]) :
             \/ j \in 1 .. Len(outbound[k]) /\ outbound'[k][j] = On(k, j)
             \/ outbound'[k][j] = Final(t)
    BY <2>1, <1>fin, <1>ty, StreamAdd
  <2>3. NotYetFinal'
    BY <2>1, <2>2, <1>fin, <1>ty, NotYetFinalAfterAdd
  <2> QED  BY <2>2, <2>3 DEF StreamInv
<1>10. ASSUME NEW t \in Tenants, PublishFinalGlobal(t) PROVE StreamInv'
  <2>1. ASSUME NEW u \in Tenants PROVE Moves(u)
    BY <1>10, <1>ty DEF PublishFinalGlobal, Forget, Moves, TypeOK
  <2> QED  BY <1>10, <2>1, <1>q DEF PublishFinalGlobal
<1>11. ASSUME NEW t \in Tenants, PublishFinalRaises(t) PROVE StreamInv'
  <2>1. /\ UNCHANGED <<ticket, popped>>
        /\ \A u \in Tenants : u # t => cur'[u] = cur[u] /\ pc'[u] = pc[u]
        /\ \/ /\ pc[t] \in {"done1", "done2"}
              /\ pc'[t] = "err1" /\ cur'[t] = cur[t]
           \/ /\ pc[t] \in {"err1", "err2"}
              /\ cur'[t] = NoReq
    BY <1>11, <1>ty DEF PublishFinalRaises, Forget, TypeOK
  <2>2. CASE pc[t] \in {"done1", "err1"} /\ AddToSession(AgentKey(cur[t]), Final(t))
    <3>1. /\ StreamedWasPopped' /\ TurnsInOrder' /\ TurnShape'
          /\ \A k \in Keys : \A j \in 1 .. Len(outbound'[k]) :
               \/ j \in 1 .. Len(outbound[k]) /\ outbound'[k][j] = On(k, j)
               \/ outbound'[k][j] = Final(t)
      BY <2>1, <2>2, <1>fin, <1>ty, StreamAdd
    <3>2. NotYetFinal'
      BY <2>1, <2>2, <3>1, <1>fin, <1>ty, NotYetFinalAfterAdd
    <3> QED  BY <3>1, <3>2 DEF StreamInv
  <2>3. CASE UNCHANGED outbound
    <3>1. ASSUME NEW u \in Tenants PROVE Moves(u)
      BY <2>1 DEF Moves
    <3> QED  BY <2>1, <2>3, <3>1, <1>q
  <2> QED  BY <1>11, <2>2, <2>3 DEF PublishFinalRaises
<1>12. ASSUME NEW t \in Tenants, SaveSession(t) \/ ContainerGone(t) \/ Provision(t)
       PROVE  StreamInv'
  <2>1. ASSUME NEW u \in Tenants PROVE Moves(u)
    BY <1>12, <1>ty DEF SaveSession, ContainerGone, Provision, Forget, Moves, TypeOK
  <2> QED  BY <1>12, <2>1, <1>q DEF SaveSession, ContainerGone, Provision
<1>13. CASE UNCHANGED vars
  BY <1>13, <1>q DEF Moves
<1> QED
  BY <1>1, <1>2, <1>3, <1>4, <1>5, <1>6, <1>7, <1>8, <1>9, <1>10, <1>11, <1>12, <1>13
     DEF Next, Listener

LEMMA StreamInvHolds == Spec => []StreamInv
<1>1. Spec => []TypeInv
  BY TypeInvHolds
<1>2. Spec => []QueueInv
  BY QueueInvHolds
<1> QED  BY <1>1, <1>2, StreamInit, StreamStep, PTL DEF Spec

\* The turns of a tenant stand on a session stream in the order in which their
\* requests were accepted, whatever was stopped, restarted or failed between.
THEOREM TurnsStayInOrder == Spec => []TurnsInOrder
BY StreamInvHolds, PTL DEF StreamInv

\* A turn is progress events, at most one `done', then at most one `error'.
THEOREM TurnsAreWellShaped == Spec => []TurnShape
BY StreamInvHolds, PTL DEF StreamInv

(***************************************************************************)
(* The global stream.                                                      *)
(***************************************************************************)
OnSession(e) ==
  \E j \in 1 .. Len(outbound[AgentKey(e.req)]) : outbound[AgentKey(e.req)][j] = e

AboutToGoGlobal ==
  \A t \in Tenants : pc[t] \in {"done2", "err2"} => OnSession(Final(t))

GlobalInv == GlobalFollowsSession /\ AboutToGoGlobal

\* What is on a session stream stays there.
LEMMA StaysOnSession ==
  ASSUME TypeOK, NEW e \in Event, OnSession(e),
         \/ UNCHANGED outbound
         \/ \E k \in Keys, d \in Event : AddToSession(k, d)
  PROVE  OnSession(e)'
<1>1. AgentKey(e.req) \in Keys
  BY DEF Event, Keys
<1>2. CASE UNCHANGED outbound
  BY <1>2 DEF OnSession
<1>3. ASSUME NEW k \in Keys, NEW d \in Event, AddToSession(k, d) PROVE OnSession(e)'
  BY <1>1, <1>3, AddToSessionEntries DEF OnSession
<1> QED  BY <1>2, <1>3

LEMMA GlobalInit == Init => GlobalInv
  BY DEF Init, GlobalInv, GlobalFollowsSession, AboutToGoGlobal

LEMMA GlobalStep == TypeInv /\ GlobalInv /\ [Next]_vars => GlobalInv'
<1> USE DEF gwVars, redisVars, agentVars, clientVars, histVars, budgetVars, vars
<1> SUFFICES ASSUME TypeInv, GlobalInv, [Next]_vars PROVE GlobalInv'
  OBVIOUS
<1>ty. TypeOK /\ HandlesARequest
  BY DEF TypeInv
<1>ev. \A t \in Tenants : pc[t] \in Busy => Final(t) \in Event /\ AgentKey(cur[t]) \in Keys
  BY <1>ty, FinalType DEF HandlesARequest
<1> DEFINE Grows == \/ UNCHANGED outbound
                    \/ \E k \in Keys, d \in Event : AddToSession(k, d)
           Enters(t) == pc'[t] \in {"done2", "err2"} =>
                          \/ pc'[t] = pc[t] /\ cur'[t] = cur[t]
                          \/ OnSession(Final(t))'
\* The global stream unchanged, or one of the events about to go there added.
<1>g. ASSUME Grows, \/ UNCHANGED global
                    \/ \E t \in Tenants : /\ pc[t] \in {"done2", "err2"}
                                          /\ global' = Append(global, Final(t))
      PROVE  GlobalFollowsSession'
  <2> SUFFICES ASSUME NEW i \in 1 .. Len(global')
               PROVE  \E j \in 1 .. Len(outbound'[AgentKey(global'[i].req)]) :
                        outbound'[AgentKey(global'[i].req)][j] = global'[i]
    BY DEF GlobalFollowsSession, AgentKey, GatewayKey
  <2>1. ASSUME NEW e \in Event, OnSession(e), global'[i] = e
        PROVE  \E j \in 1 .. Len(outbound'[AgentKey(global'[i].req)]) :
                 outbound'[AgentKey(global'[i].req)][j] = global'[i]
    <3>1. OnSession(e)'
      BY <1>g, <2>1, <1>ty, StaysOnSession
    <3> QED  BY <2>1, <3>1 DEF OnSession
  <2>2. CASE i \in 1 .. Len(global) /\ global'[i] = global[i]
    <3>1. global[i] \in Event /\ OnSession(global[i])
      BY <2>2, <1>ty DEF TypeOK, GlobalInv, GlobalFollowsSession, OnSession
    <3> QED  BY <2>2, <3>1, <2>1
  <2>3. ASSUME NEW t \in Tenants, pc[t] \in {"done2", "err2"}, global'[i] = Final(t)
        PROVE  \E j \in 1 .. Len(outbound'[AgentKey(global'[i].req)]) :
                 outbound'[AgentKey(global'[i].req)][j] = global'[i]
    <3>1. Final(t) \in Event /\ OnSession(Final(t))
      BY <2>3, <1>ev DEF GlobalInv, AboutToGoGlobal, Busy
    <3> QED  BY <2>3, <3>1, <2>1
  <2>4. CASE UNCHANGED global
    BY <2>2, <2>4
  <2>5. ASSUME NEW t \in Tenants, pc[t] \in {"done2", "err2"}, global' = Append(global, Final(t))
        PROVE  \E j \in 1 .. Len(outbound'[AgentKey(global'[i].req)]) :
                 outbound'[AgentKey(global'[i].req)][j] = global'[i]
    <3>1. global \in Seq(Event) /\ Final(t) \in Event
      BY <2>5, <1>ty, <1>ev DEF TypeOK, Busy
    <3>2. \/ i \in 1 .. Len(global) /\ global'[i] = global[i]
          \/ global'[i] = Final(t)
      BY <3>1, <2>5
    <3> QED  BY <2>2, <2>3, <2>5, <3>2
  <2> QED  BY <1>g, <2>4, <2>5
<1>a. ASSUME Grows, \A t \in Tenants : Enters(t)
      PROVE  AboutToGoGlobal'
  <2> SUFFICES ASSUME NEW t \in Tenants, pc'[t] \in {"done2", "err2"}
               PROVE  OnSession(Final(t))'
    BY DEF AboutToGoGlobal
  <2>1. CASE pc'[t] = pc[t] /\ cur'[t] = cur[t]
    <3>1. Final(t)' = Final(t) /\ Final(t) \in Event /\ OnSession(Final(t))
      BY <2>1, <1>ev DEF Final, Busy, GlobalInv, AboutToGoGlobal
    <3>2. PICK e \in Event : e = Final(t)
      BY <3>1
    <3>3. OnSession(e)'
      BY <1>a, <3>1, <3>2, <1>ty, StaysOnSession DEF OnSession
    <3> QED  BY <3>1, <3>2, <3>3 DEF OnSession
  <2> QED  BY <1>a, <2>1
<1> HIDE DEF Enters
<1>e. ASSUME NEW t \in Tenants,
             \/ pc'[t] = pc[t] /\ cur'[t] = cur[t]
             \/ pc'[t] \notin {"done2", "err2"}
      PROVE  Enters(t)
  BY <1>e DEF Enters
<1>1. ASSUME NEW r \in Requests,
             \/ ResolveTenant(r) \/ PublishRequest(r) \/ PublishRequestRaises(r)
             \/ Stream(r) \/ Disconnect(r)
      PROVE  GlobalInv'
  <2>1. UNCHANGED <<outbound, global, cur>>
    BY <1>1 DEF ResolveTenant, PublishRequest, PublishRequestRaises, Stream, OpenStream,
                ReadBatch, DeliverEvent, Disconnect
  <2>2. ASSUME NEW t \in Tenants PROVE Enters(t)
    <3>1. pc'[t] = pc[t] \/ pc'[t] = "idle"
      BY <1>1, <1>ty DEF ResolveTenant, PublishRequest, PublishRequestRaises, Stream,
                  OpenStream, ReadBatch, DeliverEvent, Disconnect, TypeOK
    <3> QED  BY <2>1, <3>1, <1>e
  <2> QED  BY <2>1, <2>2, <1>g, <1>a DEF GlobalInv
<1>2. ASSUME NEW t \in Tenants,
             \/ ConsumeRequest(t) \/ RunEnds(t) \/ SaveSession(t) \/ Backoff(t)
             \/ ConsumeRaises(t) \/ ContainerGone(t) \/ Provision(t)
      PROVE  GlobalInv'
  <2>1. UNCHANGED <<outbound, global>>
    BY <1>2 DEF ConsumeRequest, RunEnds, SaveSession, Backoff, ConsumeRaises, ContainerGone,
                Provision
  <2>2. ASSUME NEW u \in Tenants PROVE Enters(u)
    <3>1. u # t => pc'[u] = pc[u] /\ cur'[u] = cur[u]
      BY <1>2, <1>ty DEF ConsumeRequest, RunEnds, SaveSession, Backoff, ConsumeRaises,
                  ContainerGone, Provision, Forget, TypeOK
    <3>2. pc'[t] \notin {"done2", "err2"}
      BY <1>2, <1>ty DEF ConsumeRequest, RunEnds, SaveSession, Backoff, ConsumeRaises,
                  ContainerGone, Provision, TypeOK
    <3> QED  BY <3>1, <3>2, <1>e
  <2> QED  BY <2>1, <2>2, <1>g, <1>a DEF GlobalInv
<1>3. ASSUME NEW t \in Tenants, PublishProgress(t) PROVE GlobalInv'
  <2>1. cur[t] \in Requests
    BY <1>3, <1>ty DEF PublishProgress, HandlesARequest, Busy, TypeOK
  <2>2. [kind |-> "progress", req |-> cur[t]] \in Event /\ AgentKey(cur[t]) \in Keys
    BY <2>1 DEF Event, Keys
  <2>3. Grows /\ UNCHANGED <<global, pc, cur>>
    BY <1>3, <2>2 DEF PublishProgress
  <2> QED  BY <2>3, <1>e, <1>g, <1>a DEF GlobalInv
<1>4. ASSUME NEW t \in Tenants, PublishFinal(t) PROVE GlobalInv'
  <2>1. /\ pc[t] \in {"done1", "err1"} /\ UNCHANGED <<global, cur>>
        /\ AddToSession(AgentKey(cur[t]), Final(t))
        /\ pc' = [pc EXCEPT ![t] = IF pc[t] = "done1" THEN "done2" ELSE "err2"]
    BY <1>4 DEF PublishFinal
  <2>2. Final(t) \in Event /\ AgentKey(cur[t]) \in Keys
    BY <2>1, <1>ev DEF Busy
  <2>3. Final(t)' = Final(t)
    BY <2>1, <1>ty DEF Final, TypeOK
  <2>4. \E j \in 1 .. Len(outbound'[AgentKey(cur[t])]) : outbound'[AgentKey(cur[t])][j] = Final(t)
    BY <2>1, <2>2, <1>ty, AddToSessionEntries
  <2>5. OnSession(Final(t))'
    BY <2>1, <2>3, <2>4 DEF OnSession, Final
  <2>6. ASSUME NEW u \in Tenants PROVE Enters(u)
    <3>1. CASE u = t
      BY <2>5, <3>1 DEF Enters
    <3>2. CASE u # t
      BY <2>1, <3>2, <1>ty, <1>e DEF TypeOK
    <3> QED  BY <3>1, <3>2
  <2>7. Grows
    BY <2>1, <2>2
  <2> QED  BY <2>1, <2>6, <2>7, <1>g, <1>a DEF GlobalInv
<1>5. ASSUME NEW t \in Tenants, PublishFinalGlobal(t) PROVE GlobalInv'
  <2>1. /\ pc[t] \in {"done2", "err2"} /\ UNCHANGED outbound
        /\ global' = Append(global, Final(t))
    BY <1>5 DEF PublishFinalGlobal
  <2>2. ASSUME NEW u \in Tenants PROVE Enters(u)
    <3>1. u # t => pc'[u] = pc[u] /\ cur'[u] = cur[u]
      BY <1>5, <1>ty DEF PublishFinalGlobal, Forget, TypeOK
    <3>2. pc'[t] \notin {"done2", "err2"}
      BY <1>5, <1>ty DEF PublishFinalGlobal, TypeOK
    <3> QED  BY <3>1, <3>2, <1>e
  <2> QED  BY <2>1, <2>2, <1>g, <1>a DEF GlobalInv
<1>6. ASSUME NEW t \in Tenants, PublishFinalRaises(t) PROVE GlobalInv'
  <2>1. Final(t) \in Event /\ AgentKey(cur[t]) \in Keys
    BY <1>6, <1>ev DEF PublishFinalRaises, Busy
  <2>2. Grows /\ (\/ UNCHANGED global
                  \/ pc[t] \in {"done2", "err2"} /\ global' = Append(global, Final(t)))
    BY <1>6, <2>1 DEF PublishFinalRaises
  <2>3. ASSUME NEW u \in Tenants PROVE Enters(u)
    <3>1. u # t => pc'[u] = pc[u] /\ cur'[u] = cur[u]
      BY <1>6, <1>ty DEF PublishFinalRaises, Forget, TypeOK
    <3>2. pc'[t] \notin {"done2", "err2"}
      BY <1>6, <1>ty DEF PublishFinalRaises, TypeOK
    <3> QED  BY <3>1, <3>2, <1>e
  <2> QED  BY <2>2, <2>3, <1>g, <1>a DEF GlobalInv
<1>7. CASE UNCHANGED vars
  BY <1>7, <1>e, <1>g, <1>a DEF GlobalInv
<1> QED  BY <1>1, <1>2, <1>3, <1>4, <1>5, <1>6, <1>7 DEF Next, Listener

\* No final event is announced to the dispatcher before the session's own
\* readers can see it.
THEOREM GlobalIsOnSession == Spec => []GlobalFollowsSession
<1>1. Spec => []TypeInv
  BY TypeInvHolds
<1>2. Spec => []GlobalInv
  BY <1>1, GlobalInit, GlobalStep, PTL DEF Spec
<1> QED  BY <1>2, PTL DEF GlobalInv
=============================================================================
