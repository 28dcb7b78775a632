------------------------------- MODULE ChatBus -------------------------------
(***************************************************************************)
(* The chat path: POST /api/chat, the tenant's inbound Redis list, the     *)
(* agent's bus listener, the session and global streams, and the SSE       *)
(* readers that the gateway runs for its clients.                          *)
(*                                                                         *)
(* A session id is a sequence of its colon-separated parts; <<>> stands    *)
(* for an absent or blank one.  A Redis stream is an append-only sequence  *)
(* whose indices are the entry ids; `trimmed' counts the entries that      *)
(* MAXLEN has removed from its front.                                      *)
(***************************************************************************)
EXTENDS Integers, Sequences, FiniteSets
Seqs == INSTANCE SequencesExt

CONSTANTS
  Tenants,         \* tenant ids, one agent container each
  Requests,        \* the POST /api/chat requests clients may make
  TenantOf,        \* the tenant a request names
  RawIdOf,         \* the sessionId a request carries, as its parts
  Readers,         \* the requests whose client opens the SSE stream; the
                   \* others are fire-and-forget (POST /api/chat/async)
  NoReq,           \* no request
  SessionMaxLen,   \* MAXLEN of a session stream
  ClientSerial,    \* TRUE: a client posts a turn after the previous answer
  ClientResumes,   \* TRUE: a client passes the last event id it has seen
  MaxProgress,     \* bound: progress events of one turn
  MaxStops,        \* bound: container stops, restarts and crashes
  MaxFaults,       \* bound: Redis calls that raise
  MaxDrops         \* bound: SSE clients that disconnect

ASSUME ChatBusAssumption ==
  /\ TenantOf \in [Requests -> Tenants]
  /\ RawIdOf \in [Requests -> Seq(STRING)]
  /\ Readers \subseteq Requests
  /\ NoReq \notin Requests
  /\ ClientSerial \in BOOLEAN /\ ClientResumes \in BOOLEAN
  /\ {SessionMaxLen, MaxProgress, MaxStops, MaxFaults, MaxDrops} \subseteq Nat

(***************************************************************************)
(* Session ids.  The gateway normalises before the push, the agent again   *)
(* after the pop; each names a stream by its own result.                   *)
(***************************************************************************)
NormalizeAlways(raw) ==  \* mutant: the prefix is added without the test for ":"
  IF raw = <<>> THEN <<"api", "direct">> ELSE <<"api">> \o raw

Normalize(raw) ==
  IF raw = <<>> THEN <<"api", "direct">>
  ELSE IF Len(raw) = 1 THEN <<"api", raw[1]>>
  ELSE raw

GatewayKey(r) == Normalize(RawIdOf[r])
AgentKey(r)   == Normalize(GatewayKey(r))
Keys == {GatewayKey(r) : r \in Requests} \cup {AgentKey(r) : r \in Requests}

VARIABLES
  gw,        \* progress of the gateway's chat handler, per request
  cached,    \* tenant present in DockerManager._tenants
  inbound,   \* nanogate:tenant:{id}:inbound, head first
  outbound,  \* nanogate:session:{key}:outbound
  trimmed,   \* entries removed from the front of a session stream
  global,    \* nanogate:outbound:all
  pc,        \* where the bus listener of a tenant's agent is
  cur,       \* the request it handles
  prog,      \* progress events it has published for it
  sse,       \* the SSE generator opened for a request
  answer,    \* the request whose final event ended that generator
  seen,      \* last event id the client of a session has received
  ticket,    \* history: position of a request among its tenant's pushes
  pushed, popped,       \* history: pushes and pops on an inbound list
  stops, faults, drops  \* what has been used of the bounds

gwVars     == <<gw, cached>>
redisVars  == <<inbound, outbound, trimmed, global>>
agentVars  == <<pc, cur, prog>>
clientVars == <<sse, answer, seen>>
histVars   == <<ticket, pushed, popped>>
budgetVars == <<stops, faults, drops>>
vars == <<gwVars, redisVars, agentVars, clientVars, histVars, budgetVars>>

ListenerPC ==
  {"down", "idle", "run", "done1", "done2", "save", "err1", "err2", "backoff"}
Event == [kind : {"progress", "done", "error"}, req : Requests]
Terminal == {"done", "error"}
Reader == [st : {"closed", "open", "ended"}, last : Nat, upto : Nat]

TypeOK ==
  /\ gw \in [Requests -> {"new", "resolved", "posted", "failed"}]
  /\ cached \in [Tenants -> BOOLEAN]
  /\ inbound \in [Tenants -> Seq(Requests)]
  /\ outbound \in [Keys -> Seq(Event)]
  /\ trimmed \in [Keys -> Nat]
  /\ global \in Seq(Event)
  /\ pc \in [Tenants -> ListenerPC]
  /\ cur \in [Tenants -> Requests \cup {NoReq}]
  /\ prog \in [Tenants -> Nat]
  /\ sse \in [Requests -> Reader]
  /\ answer \in [Requests -> Requests \cup {NoReq}]
  /\ seen \in [Keys -> Nat]
  /\ ticket \in [Requests -> Nat]
  /\ pushed \in [Tenants -> Nat]
  /\ popped \in [Tenants -> Nat]
  /\ stops \in Nat /\ faults \in Nat /\ drops \in Nat

Init ==
  /\ gw = [r \in Requests |-> "new"]
  /\ cached = [t \in Tenants |-> FALSE]
  /\ inbound = [t \in Tenants |-> <<>>]
  /\ outbound = [k \in Keys |-> <<>>]
  /\ trimmed = [k \in Keys |-> 0]
  /\ global = <<>>
  /\ pc = [t \in Tenants |-> "down"]
  /\ cur = [t \in Tenants |-> NoReq]
  /\ prog = [t \in Tenants |-> 0]
  /\ sse = [r \in Requests |-> [st |-> "closed", last |-> 0, upto |-> 0]]
  /\ answer = [r \in Requests |-> NoReq]
  /\ seen = [k \in Keys |-> 0]
  /\ ticket = [r \in Requests |-> 0]
  /\ pushed = [t \in Tenants |-> 0]
  /\ popped = [t \in Tenants |-> 0]
  /\ stops = 0 /\ faults = 0 /\ drops = 0

(***************************************************************************)
(* Gateway: POST /api/chat                                                 *)
(***************************************************************************)

\* A client that works in turns waits for the answer before it posts again.
MayPost(r) ==
  ClientSerial => \A q \in Requests \ {r} :
    GatewayKey(q) = GatewayKey(r) => gw[q] \in {"new", "failed"} \/ sse[q].st = "ended"

\* registry.get_or_create: a cached tenant is returned as it is, whatever has
\* become of its container; any other gets a container.
ResolveTenant(r) ==
  LET t == TenantOf[r] IN
  /\ gw[r] = "new"
  /\ MayPost(r)
  /\ gw' = [gw EXCEPT ![r] = "resolved"]
  /\ IF cached[t] THEN UNCHANGED <<cached, pc>>
     ELSE /\ cached' = [cached EXCEPT ![t] = TRUE]
          /\ pc' = [pc EXCEPT ![t] = "idle"]
  /\ UNCHANGED <<redisVars, cur, prog, clientVars, histVars, budgetVars>>

PushAtTail(r) ==  \* mutant: RPUSH
  LET t == TenantOf[r] IN
  /\ inbound' = [inbound EXCEPT ![t] = Append(@, r)]
  /\ pushed' = [pushed EXCEPT ![t] = @ + 1]
  /\ ticket' = [ticket EXCEPT ![r] = pushed[t] + 1]

\* publish_request: LPUSH at the head of the tenant's list.
PushInbound(r) ==
  LET t == TenantOf[r] IN
  /\ inbound' = [inbound EXCEPT ![t] = <<r>> \o @]
  /\ pushed' = [pushed EXCEPT ![t] = @ + 1]
  /\ ticket' = [ticket EXCEPT ![r] = pushed[t] + 1]

PublishRequest(r) ==
  /\ gw[r] = "resolved"
  /\ gw' = [gw EXCEPT ![r] = "posted"]
  /\ PushInbound(r)
  /\ UNCHANGED <<cached, outbound, trimmed, global, agentVars, clientVars,
                 popped, budgetVars>>

\* LPUSH raises, its effect done or not: the client gets a 500 and no stream.
PublishRequestRaises(r) ==
  /\ gw[r] = "resolved"
  /\ faults < MaxFaults
  /\ faults' = faults + 1
  /\ gw' = [gw EXCEPT ![r] = "failed"]
  /\ PushInbound(r) \/ UNCHANGED <<inbound, pushed, ticket>>
  /\ UNCHANGED <<cached, outbound, trimmed, global, agentVars, clientVars,
                 popped, stops, drops>>

(***************************************************************************)
(* Agent: bus_listener_loop                                                *)
(***************************************************************************)
Oldest(q) == q[Len(q)]
AllButOldest(q) == SubSeq(q, 1, Len(q) - 1)

\* BRPOP: the element leaves Redis before the listener has done anything.
PopInbound(t) ==
  /\ inbound[t] # <<>>
  /\ inbound' = [inbound EXCEPT ![t] = AllButOldest(@)]
  /\ popped' = [popped EXCEPT ![t] = @ + 1]

ConsumeRequest(t) ==
  /\ pc[t] = "idle"
  /\ PopInbound(t)
  /\ cur' = [cur EXCEPT ![t] = Oldest(inbound[t])]
  /\ pc' = [pc EXCEPT ![t] = "run"]
  /\ UNCHANGED <<gwVars, outbound, trimmed, global, prog, clientVars,
                 ticket, pushed, budgetVars>>

\* XADD to a session stream.  MAXLEN is approximate: Redis may trim the front,
\* never below SessionMaxLen entries.
AddToSession(k, e) ==
  /\ outbound' = [outbound EXCEPT ![k] = Append(@, e)]
  /\ \E n \in trimmed[k] .. Len(outbound[k]) + 1 :
       /\ n = trimmed[k] \/ Len(outbound[k]) + 1 - n >= SessionMaxLen
       /\ trimmed' = [trimmed EXCEPT ![k] = n]

\* _on_progress: a failure is swallowed, so it is a turn with one event less.
PublishProgress(t) ==
  /\ pc[t] = "run"
  /\ prog[t] < MaxProgress
  /\ AddToSession(AgentKey(cur[t]), [kind |-> "progress", req |-> cur[t]])
  /\ prog' = [prog EXCEPT ![t] = @ + 1]
  /\ UNCHANGED <<gwVars, inbound, global, pc, cur, clientVars, histVars, budgetVars>>

RunEndsSilently(t) ==  \* mutant: a raising run is skipped like an empty message
  /\ pc[t] = "run"
  /\ \/ pc' = [pc EXCEPT ![t] = "done1"] /\ UNCHANGED <<cur, prog>>
     \/ /\ pc' = [pc EXCEPT ![t] = "idle"]
        /\ cur' = [cur EXCEPT ![t] = NoReq]
        /\ prog' = [prog EXCEPT ![t] = 0]
  /\ UNCHANGED <<gwVars, redisVars, clientVars, histVars, budgetVars>>

\* _run_chat returns or raises.
RunEnds(t) ==
  /\ pc[t] = "run"
  /\ \E p \in {"done1", "err1"} : pc' = [pc EXCEPT ![t] = p]
  /\ UNCHANGED <<gwVars, redisVars, cur, prog, clientVars, histVars, budgetVars>>

FinalAsState(t) == [kind |-> pc[t], req |-> cur[t]]  \* mutant: not a wire status

Final(t) ==
  [kind |-> IF pc[t] \in {"done1", "done2"} THEN "done" ELSE "error", req |-> cur[t]]

\* The loop body is over: nothing of the request is kept.
Forget(t) ==
  /\ cur' = [cur EXCEPT ![t] = NoReq]
  /\ prog' = [prog EXCEPT ![t] = 0]

PublishGlobalFirst(t) ==  \* mutant: the two XADDs swapped
  /\ pc[t] \in {"done1", "err1"}
  /\ global' = Append(global, Final(t))
  /\ pc' = [pc EXCEPT ![t] = IF @ = "done1" THEN "done2" ELSE "err2"]
  /\ UNCHANGED <<gwVars, inbound, outbound, trimmed, cur, prog, clientVars,
                 histVars, budgetVars>>

\* publish_event(..., global_event=True): the session stream first ...
PublishFinal(t) ==
  /\ pc[t] \in {"done1", "err1"}
  /\ AddToSession(AgentKey(cur[t]), Final(t))
  /\ pc' = [pc EXCEPT ![t] = IF @ = "done1" THEN "done2" ELSE "err2"]
  /\ UNCHANGED <<gwVars, inbound, global, cur, prog, clientVars, histVars, budgetVars>>

\* ... then the global stream.
PublishFinalGlobal(t) ==
  /\ pc[t] \in {"done2", "err2"}
  /\ global' = Append(global, Final(t))
  /\ IF pc[t] = "done2"
     THEN /\ pc' = [pc EXCEPT ![t] = "save"]
          /\ UNCHANGED <<cur, prog>>
     ELSE /\ pc' = [pc EXCEPT ![t] = "idle"]
          /\ Forget(t)
  /\ UNCHANGED <<gwVars, inbound, outbound, trimmed, clientVars, histVars, budgetVars>>

\* save_session_state_to_redis swallows its own failures.
SaveSession(t) ==
  /\ pc[t] = "save"
  /\ pc' = [pc EXCEPT ![t] = "idle"]
  /\ Forget(t)
  /\ UNCHANGED <<gwVars, redisVars, clientVars, histVars, budgetVars>>

PublishFinalRetried(t) ==  \* mutant: a publish that raised is tried again
  /\ faults < MaxFaults
  /\ faults' = faults + 1
  /\ pc[t] \in {"done1", "err1"}
  /\ AddToSession(AgentKey(cur[t]), Final(t))
  /\ UNCHANGED <<gwVars, inbound, global, agentVars, clientVars, histVars, stops, drops>>

\* A Redis call of publish_event raises, its effect done or not.  A failed
\* `done' is answered by an `error'; a failed `error' by the outer handler.
PublishFinalRaises(t) ==
  /\ faults < MaxFaults
  /\ faults' = faults + 1
  /\ \/ pc[t] \in {"done1", "err1"} /\ AddToSession(AgentKey(cur[t]), Final(t))
        /\ UNCHANGED global
     \/ pc[t] \in {"done2", "err2"} /\ global' = Append(global, Final(t))
        /\ UNCHANGED <<outbound, trimmed>>
     \/ pc[t] \in {"done1", "done2", "err1", "err2"}
        /\ UNCHANGED <<outbound, trimmed, global>>
  /\ IF pc[t] \in {"done1", "done2"}
     THEN /\ pc' = [pc EXCEPT ![t] = "err1"]
          /\ UNCHANGED <<cur, prog>>
     ELSE /\ pc' = [pc EXCEPT ![t] = "backoff"]
          /\ Forget(t)
  /\ UNCHANGED <<gwVars, inbound, clientVars, histVars, stops, drops>>

\* BRPOP raises; with its reply lost, the popped request is lost too.
ConsumeRaises(t) ==
  /\ pc[t] = "idle"
  /\ faults < MaxFaults
  /\ faults' = faults + 1
  /\ PopInbound(t) \/ UNCHANGED <<inbound, popped>>
  /\ pc' = [pc EXCEPT ![t] = "backoff"]
  /\ UNCHANGED <<gwVars, outbound, trimmed, global, cur, prog, clientVars,
                 ticket, pushed, stops, drops>>

ListenerDies(t) ==  \* mutant: the handler is outside the loop
  pc[t] = "backoff" /\ UNCHANGED vars

\* The outer handler sleeps and the loop starts over.
Backoff(t) ==
  /\ pc[t] = "backoff"
  /\ pc' = [pc EXCEPT ![t] = "idle"]
  /\ UNCHANGED <<gwVars, redisVars, cur, prog, clientVars, histVars, budgetVars>>

(***************************************************************************)
(* The container's life, as far as the bus sees it.                        *)
(***************************************************************************)

ContainerGoneRequeues(t) ==  \* mutant: the interrupted request is pushed again
  /\ pc[t] # "down"
  /\ stops < MaxStops
  /\ stops' = stops + 1
  /\ pc' = [pc EXCEPT ![t] = "down"]
  /\ cached' = [cached EXCEPT ![t] = FALSE]
  /\ inbound' = [inbound EXCEPT ![t] = IF cur[t] = NoReq THEN @ ELSE <<cur[t]>> \o @]
  /\ Forget(t)
  /\ UNCHANGED <<gw, outbound, trimmed, global, clientVars, histVars, faults, drops>>

\* Stopped by the gateway, which forgets the tenant, or dead by itself, which
\* the gateway does not notice.  A cancelled listener publishes nothing.
ContainerGone(t) ==
  /\ pc[t] # "down"
  /\ stops < MaxStops
  /\ stops' = stops + 1
  /\ pc' = [pc EXCEPT ![t] = "down"]
  /\ cached' \in {cached, [cached EXCEPT ![t] = FALSE]}
  /\ Forget(t)
  /\ UNCHANGED <<gw, redisVars, clientVars, histVars, faults, drops>>

\* POST /api/tenant/config: whatever container there was is replaced.
Provision(t) ==
  /\ stops < MaxStops
  /\ stops' = stops + 1
  /\ pc' = [pc EXCEPT ![t] = "idle"]
  /\ cached' = [cached EXCEPT ![t] = TRUE]
  /\ Forget(t)
  /\ UNCHANGED <<gw, redisVars, clientVars, histVars, faults, drops>>

(***************************************************************************)
(* Gateway: GET /api/chat/stream/{session_id}                              *)
(***************************************************************************)
OpenStreamFromZero(r) ==  \* mutant: last_event_id is not passed on
  /\ r \in Readers /\ gw[r] = "posted" /\ sse[r].st = "closed"
  /\ sse' = [sse EXCEPT ![r] = [st |-> "open", last |-> 0, upto |-> 0]]
  /\ UNCHANGED <<gwVars, redisVars, agentVars, answer, seen, histVars, budgetVars>>

OpenStream(r) ==
  /\ r \in Readers
  /\ gw[r] = "posted"
  /\ sse[r].st = "closed"
  /\ LET from == IF ClientResumes THEN seen[GatewayKey(r)] ELSE 0
     IN sse' = [sse EXCEPT ![r] = [st |-> "open", last |-> from, upto |-> 0]]
  /\ UNCHANGED <<gwVars, redisVars, agentVars, answer, seen, histVars, budgetVars>>

\* XREAD returns every retained entry after last_id as one batch; the batch
\* stays with the generator when the stream is trimmed meanwhile.
ReadBatch(r) ==
  LET k == GatewayKey(r)
      from == IF trimmed[k] > sse[r].last THEN trimmed[k] ELSE sse[r].last IN
  /\ sse[r].st = "open"
  /\ sse[r].last >= sse[r].upto
  /\ from < Len(outbound[k])
  /\ sse' = [sse EXCEPT ![r].last = from, ![r].upto = Len(outbound[k])]
  /\ UNCHANGED <<gwVars, redisVars, agentVars, answer, seen, histVars, budgetVars>>

\* One entry of the batch is yielded; a final one ends the generator.
DeliverEvent(r) ==
  LET k == GatewayKey(r)
      id == sse[r].last + 1
      e == outbound[k][id] IN
  /\ sse[r].st = "open"
  /\ id <= sse[r].upto
  /\ sse' = [sse EXCEPT ![r].last = id,
                        ![r].st = IF e.kind \in Terminal THEN "ended" ELSE "open"]
  /\ seen' = [seen EXCEPT ![k] = IF id > @ THEN id ELSE @]
  /\ answer' = [answer EXCEPT ![r] = IF e.kind \in Terminal THEN e.req ELSE @]
  /\ UNCHANGED <<gwVars, redisVars, agentVars, histVars, budgetVars>>

\* The client is gone, or XREAD raised and the generator closed with an error of
\* its own: what it still held never reached the client, who may reopen.
Disconnect(r) ==
  /\ drops < MaxDrops
  /\ drops' = drops + 1
  /\ sse[r].st = "open"
  /\ sse' = [sse EXCEPT ![r].st = "closed"]
  /\ UNCHANGED <<gwVars, redisVars, agentVars, answer, seen, histVars, stops, faults>>

-----------------------------------------------------------------------------
Listener(t) ==
  \/ ConsumeRequest(t) \/ RunEnds(t) \/ PublishFinal(t) \/ PublishFinalGlobal(t)
  \/ SaveSession(t) \/ Backoff(t)
Stream(r) == OpenStream(r) \/ ReadBatch(r) \/ DeliverEvent(r)

Next ==
  \/ \E r \in Requests :
       \/ ResolveTenant(r) \/ PublishRequest(r) \/ PublishRequestRaises(r)
       \/ Stream(r) \/ Disconnect(r)
  \/ \E t \in Tenants :
       \/ Listener(t) \/ PublishProgress(t)
       \/ PublishFinalRaises(t) \/ ConsumeRaises(t)
       \/ ContainerGone(t) \/ Provision(t)

Spec == Init /\ [][Next]_vars

\* The event loops of gateway and agent run every task that is ready, and a
\* nanobot run ends; clients need not post, but read what they asked for.
FairSpec ==
  /\ Spec
  /\ \A t \in Tenants : WF_vars(Listener(t))
  /\ \A r \in Requests : WF_vars(PublishRequest(r)) /\ WF_vars(Stream(r))

(***************************************************************************)
(* Properties                                                              *)
(***************************************************************************)

\* LPUSH at one end and BRPOP at the other make a FIFO: the list holds exactly
\* the pushes that are not popped, newest first, and the request a listener
\* handles is the one pushed right after the last one handled.
FifoOrder ==
  \A t \in Tenants :
    /\ Len(inbound[t]) = pushed[t] - popped[t]
    /\ \A i \in 1 .. Len(inbound[t]) :
         /\ TenantOf[inbound[t][i]] = t
         /\ ticket[inbound[t][i]] = pushed[t] + 1 - i
    /\ cur[t] # NoReq => TenantOf[cur[t]] = t /\ ticket[cur[t]] = popped[t]

\* On a session stream the turns of one tenant stand one after the other, in
\* the order in which the requests were accepted: no event of an earlier turn
\* follows one of a later turn, whatever was stopped or restarted between.
TurnsInOrder ==
  \A k \in Keys : \A j \in 1 .. Len(outbound[k]) : \A i \in 1 .. j :
    LET q == outbound[k][i].req  r == outbound[k][j].req IN
    TenantOf[q] = TenantOf[r] => q = r \/ ticket[q] < ticket[r]

\* The events of a turn are progress, then at most one `done', then at most one
\* `error': progress never follows a final event, no final event is repeated.
Rank(e) == CASE e.kind = "progress" -> 0 [] e.kind = "done" -> 1 [] OTHER -> 2
TurnShape ==
  \A k \in Keys : \A j \in 1 .. Len(outbound[k]) : \A i \in 1 .. j - 1 :
    LET d == outbound[k][i]  e == outbound[k][j] IN
    d.req = e.req => \/ Rank(d) < Rank(e)
                     \/ Rank(d) = 0 /\ Rank(e) = 0

\* The dispatcher never announces a result that the session's own readers
\* cannot see: a final event is on its session stream before it is global.
GlobalFollowsSession ==
  \A i \in 1 .. Len(global) :
    \E j \in 1 .. Len(outbound[AgentKey(global[i].req)]) :
      outbound[AgentKey(global[i].req)][j] = global[i]

\* The listener drops no request silently: one that was popped, is no longer
\* handled and has no final event on the global stream is paid for by a
\* container that ended or a Redis call that raised, one each.
Finished(r) == \E i \in 1 .. Len(global) : global[i].req = r
Lost(r) ==
  /\ ticket[r] \in 1 .. popped[TenantOf[r]]
  /\ cur[TenantOf[r]] # r
  /\ ~Finished(r)
LossesAreCharged == Cardinality({r \in Requests : Lost(r)}) <= stops + faults

\* The bus implements WorkQueue: a tenant's requests are handled one at a time in the
\* order of their acceptance, and one is lost only in a step that raises or in which a
\* container ends, at most one in each, and is never handled again.
FateOf(r) ==
  IF Finished(r) THEN "finished"
  ELSE IF cur[TenantOf[r]] = r THEN "handled"
  ELSE IF ticket[r] = 0 THEN "new"
  ELSE IF Lost(r) THEN "lost" ELSE "queued"

Work == INSTANCE WorkQueue WITH fate <- [r \in Requests |-> FateOf(r)],
                                line <- [t \in Tenants |-> Seqs!Reverse(inbound[t])],
                                troubles <- stops + faults
ImplementsWorkQueue == Work!Spec

\* The final event that ends the SSE stream opened for a request is that
\* request's own.
AnswerIsOwn == \A r \in Requests : answer[r] \in {r, NoReq}

\* ... or at least one of the tenant the request was for.
AnswerFromOwnTenant ==
  \A r \in Requests : answer[r] # NoReq => TenantOf[answer[r]] = TenantOf[r]

\* A client that works in turns is answered, also when its SSE connection
\* drops and it resumes, as long as Redis and the container stay up.
EveryClientAnswered == \A r \in Readers : gw[r] = "posted" ~> answer[r] = r

\* Accepted requests are finished while Redis and the container stay up.
EveryRequestFinished == \A r \in Requests : gw[r] = "posted" ~> Finished(r)

\* A listener survives every exception: what is queued is popped sooner or
\* later, unless the container goes down.
Queued(r) == \E i \in 1 .. Len(inbound[TenantOf[r]]) : inbound[TenantOf[r]][i] = r
QueueDrains ==
  \A r \in Requests : Queued(r) ~> ~Queued(r) \/ pc[TenantOf[r]] = "down"
=============================================================================
