------------------------------ MODULE Approvals ------------------------------
(***************************************************************************)
(* Commands that wait for a human: the exec tool parks them, the client    *)
(* approves them through the gateway, the agent runs them and resumes the  *)
(* conversation.                                                           *)
(*                                                                         *)
(* One agent.  Its turns are the bus listener's, one after the other in    *)
(* the listener's task, those of the agent's own chat routes and those     *)
(* that an approval resumes, each in the task of its request.  A task has  *)
(* its own copy of the context variables.                                  *)
(***************************************************************************)
EXTENDS Integers

CONSTANTS
  Sessions,     \* session keys
  Direct,       \* "api:direct", the key a command gets outside of any session
  NoSession,    \* no session
  MaxChats,     \* bound: turns started by a message
  MaxRequests,  \* bound: approvals posted by clients
  MaxCommands,  \* bound: commands the agent wants to execute
  MaxRestarts   \* bound: restarts of the container

ASSUME ApprovalsAssumption ==
  /\ Direct \in Sessions /\ NoSession \notin Sessions
  /\ MaxChats \in Nat /\ MaxRequests \in Nat /\ MaxCommands \in Nat /\ MaxRestarts \in Nat

\* A turn is a message's or an approval's; the n-th of its kind.
Chats    == 1 .. MaxChats
Requests == MaxChats + 1 .. MaxChats + MaxRequests
Turns    == Chats \cup Requests

\* A command is known by its request_id: the n-th is parked under id n.
Commands  == 1 .. MaxCommands
NoCommand == 0

\* The contexts: the listener's, and one per request to the agent.
Listener == 0
Contexts == {Listener} \cup Turns

VARIABLES
  kind,       \* how a message reached the agent
  sess,       \* the session of a message's turn
  at,         \* where that turn is
  active,     \* ACTIVE_SESSION in a context
  ctxId,      \* APPROVAL_REQUEST_ID in a context
  announced,  \* the approval_request_id of a turn's answer
  parked,     \* commands parked so far
  pending,    \* GatewayExecTool.pending: the session_key of a pending command
  target,     \* the command an approval is for
  claim,      \* the sessionId it is refused for
  hpc,        \* the agent's handler of an approval
  rep,        \* what that handler answers
  filed,      \* history: the session_key a command was parked under
  by,         \* history: the turn that wanted it
  asked,      \* history: the session whose user it came up with
  epoch,      \* history: the number of restarts before it was parked
  ran,        \* history: how often it was started
  restarts

turnVars == <<kind, sess, at, active, ctxId, announced>>
toolVars == <<parked, pending, filed, by, asked, epoch>>
reqVars  == <<target, claim, hpc, rep>>
vars     == <<turnVars, toolVars, reqVars, ran, restarts>>

TypeOK ==
  /\ kind \in [Chats -> {"none", "bus", "own"}]
  /\ sess \in [Chats -> Sessions \cup {NoSession}]
  /\ at \in [Chats -> {"new", "up", "ended", "lost"}]
  /\ active \in [Contexts -> Sessions \cup {NoSession}]
  /\ ctxId \in [Contexts -> Commands \cup {NoCommand}]
  /\ announced \in [Chats -> Commands \cup {NoCommand}]
  /\ parked \in 0 .. MaxCommands
  /\ pending \in [Commands -> Sessions \cup {NoSession}]
  /\ target \in [Requests -> Commands \cup {NoCommand}]
  /\ claim \in [Requests -> Sessions \cup {NoSession}]
  /\ hpc \in [Requests -> {"none", "sent", "popped", "running", "resuming", "over", "gone"}]
  /\ rep \in [Requests -> {"none", "ok", "unknown", "noStart", "timeout", "mismatch"}]
  /\ filed \in [Commands -> Sessions \cup {NoSession}]
  /\ by \in [Commands -> Turns \cup {Listener}]
  /\ asked \in [Commands -> Sessions \cup {NoSession}]
  /\ epoch \in [Commands -> 0 .. MaxRestarts]
  /\ ran \in [Commands -> Nat]
  /\ restarts \in 0 .. MaxRestarts

Init ==
  /\ kind = [t \in Chats |-> "none"]
  /\ sess = [t \in Chats |-> NoSession]
  /\ at = [t \in Chats |-> "new"]
  /\ active = [x \in Contexts |-> NoSession]
  /\ ctxId = [x \in Contexts |-> NoCommand]
  /\ announced = [t \in Chats |-> NoCommand]
  /\ parked = 0
  /\ pending = [c \in Commands |-> NoSession]
  /\ target = [r \in Requests |-> NoCommand]
  /\ claim = [r \in Requests |-> NoSession]
  /\ hpc = [r \in Requests |-> "none"]
  /\ rep = [r \in Requests |-> "none"]
  /\ filed = [c \in Commands |-> NoSession]
  /\ by = [c \in Commands |-> Listener]
  /\ asked = [c \in Commands |-> NoSession]
  /\ epoch = [c \in Commands |-> 0]
  /\ ran = [c \in Commands |-> 0]
  /\ restarts = 0

(***************************************************************************)
(* Turns started by a message.                                             *)
(***************************************************************************)

\* The context in which turn t runs: all bus turns share the listener's.
Ctx(t) == IF t \in Chats /\ kind[t] = "bus" THEN Listener ELSE t

\* Mutant: _run_chat leaves APPROVAL_REQUEST_ID as it is.
StartChatNoReset(t, k, s, x) ==
  /\ at[t] = "new" /\ \A u \in Chats : u < t => at[u] # "new"
  /\ kind' = [kind EXCEPT ![t] = k]
  /\ sess' = [sess EXCEPT ![t] = s]
  /\ at' = [at EXCEPT ![t] = "up"]
  /\ active' = [active EXCEPT ![x] = s]
  /\ UNCHANGED <<ctxId, announced, toolVars, reqVars, ran, restarts>>

\* The first step of a turn of kind k in session s, _run_chat: its context
\* names the session and no approval.
StartChat(t, k, s, x) ==
  /\ at[t] = "new" /\ \A u \in Chats : u < t => at[u] # "new"
  /\ kind' = [kind EXCEPT ![t] = k]
  /\ sess' = [sess EXCEPT ![t] = s]
  /\ at' = [at EXCEPT ![t] = "up"]
  /\ active' = [active EXCEPT ![x] = s]
  /\ ctxId' = [ctxId EXCEPT ![x] = NoCommand]
  /\ UNCHANGED <<announced, toolVars, reqVars, ran, restarts>>

\* The listener takes a request once it is done with the one before.
BusTurn(t, s) ==
  /\ \A u \in Chats : kind[u] = "bus" => at[u] # "up"
  /\ StartChat(t, "bus", s, Listener)

\* The agent's own POST /api/chat and /api/chat/async.
OwnTurn(t, s) == StartChat(t, "own", s, t)

\* A turn ends: its answer announces the approval its context names.
TurnEnds(t) ==
  /\ at[t] = "up"
  /\ announced' = [announced EXCEPT ![t] = ctxId[Ctx(t)]]
  /\ at' = [at EXCEPT ![t] = "ended"]
  /\ UNCHANGED <<kind, sess, active, ctxId, toolVars, reqVars, ran, restarts>>

\* The engine raises, or the final callback of /api/chat/async cannot be posted:
\* the client has an error or nothing.
TurnFails(t) ==
  /\ at[t] = "up"
  /\ at' = [at EXCEPT ![t] = "lost"]
  /\ UNCHANGED <<kind, sess, active, ctxId, announced, toolVars, reqVars, ran, restarts>>

(***************************************************************************)
(* GatewayExecTool                                                         *)
(***************************************************************************)

Running(t) == IF t \in Chats THEN at[t] = "up" ELSE hpc[t] = "resuming"

\* Mutant: one ACTIVE_SESSION for all tasks, the one that the last turn set.
ActiveSessionGlobal(x) ==
  LET begun == {t \in Chats : at[t] # "new"} IN
  IF begun = {} THEN Direct ELSE sess[CHOOSE t \in begun : \A u \in begun : u <= t]

\* Mutant: nobody has set ACTIVE_SESSION.
ActiveSessionUnset(x) == Direct

\* ACTIVE_SESSION.get("api:direct")
ActiveSession(x) == IF active[x] = NoSession THEN Direct ELSE active[x]

\* Mutant: there is room for one pending command.
ParkAlone(c, s) == pending' = [d \in Commands |-> IF d = c THEN s ELSE NoSession]

\* Mutant: the entry is filed under the session's key, not the request's id.
ParkUnderSession(c, s) ==
  pending' = [d \in Commands \cup {s} |-> IF d = s THEN s ELSE pending[d]]

Park(c, s) == pending' = [pending EXCEPT ![c] = s]

\* execute: the command is parked under the session of its context, and the
\* context now names it.
Execute(t, c) ==
  /\ Running(t) /\ c = parked + 1
  /\ parked' = c
  /\ Park(c, ActiveSession(Ctx(t)))
  /\ ctxId' = [ctxId EXCEPT ![Ctx(t)] = c]
  /\ filed' = [filed EXCEPT ![c] = ActiveSession(Ctx(t))]
  /\ by' = [by EXCEPT ![c] = t]
  /\ asked' = [asked EXCEPT ![c] = IF t \in Chats THEN sess[t] ELSE asked[target[t]]]
  /\ epoch' = [epoch EXCEPT ![c] = restarts]
  /\ UNCHANGED <<kind, sess, at, active, announced, reqVars, ran, restarts>>

(***************************************************************************)
(* Approvals: the client and the gateway.                                  *)
(***************************************************************************)

\* A client approves a command it was told of, by an answer, by the model or by
\* GET /approvals/pending; maybe it has done so before, and was told 400 by a
\* gateway that gave up after 120 seconds or lost the connection, which the agent
\* does not notice.  The gateway asks the tenants one by one; only the one modelled
\* here knows the request_id.
Post(r, c) ==
  /\ hpc[r] = "none" /\ \A q \in Requests : q < r => hpc[q] # "none"
  /\ c <= parked
  /\ target' = [target EXCEPT ![r] = c]
  /\ hpc' = [hpc EXCEPT ![r] = "sent"]
  /\ UNCHANGED <<turnVars, toolVars, claim, rep, ran, restarts>>

(***************************************************************************)
(* Approvals: the agent's handler and run_approved.                        *)
(***************************************************************************)

\* The handler of r answers a.
Answer(r, a) ==
  /\ rep' = [rep EXCEPT ![r] = a]
  /\ hpc' = [hpc EXCEPT ![r] = "over"]

\* Mutant: the entry is looked up, and popped by somebody later.
TakeNoPop(r) ==
  /\ hpc[r] = "sent"
  /\ IF pending[target[r]] = NoSession
     THEN Answer(r, "unknown")
     ELSE hpc' = [hpc EXCEPT ![r] = "popped"] /\ UNCHANGED rep
  /\ UNCHANGED <<turnVars, toolVars, target, claim, ran, restarts>>

\* The tool that has the request_id is looked up and the entry popped, with no
\* await in between; then the token provider runs.
Take(r) ==
  /\ hpc[r] = "sent"
  /\ IF pending[target[r]] = NoSession
     THEN Answer(r, "unknown") /\ UNCHANGED pending
     ELSE /\ hpc' = [hpc EXCEPT ![r] = "popped"]
          /\ pending' = [pending EXCEPT ![target[r]] = NoSession]
          /\ UNCHANGED rep
  /\ UNCHANGED <<turnVars, parked, filed, by, asked, epoch, target, claim, ran, restarts>>

\* The subprocess is created, or that raises and nothing runs.
StartCommand(r) ==
  /\ hpc[r] = "popped"
  /\ \/ /\ hpc' = [hpc EXCEPT ![r] = "running"]
        /\ ran' = [ran EXCEPT ![target[r]] = @ + 1]
        /\ UNCHANGED rep
     \/ Answer(r, "noStart") /\ UNCHANGED ran
  /\ UNCHANGED <<turnVars, toolVars, target, claim, restarts>>

\* Mutant: only the token provider has a timeout.
TimeOutTokenOnly(r) ==
  /\ hpc[r] = "popped"
  /\ Answer(r, "timeout")
  /\ UNCHANGED <<turnVars, toolVars, target, claim, ran, restarts>>

\* The command takes longer than the timeout.  It is not killed.
TimeOut(r) ==
  /\ hpc[r] = "running"
  /\ Answer(r, "timeout")
  /\ UNCHANGED <<turnVars, toolVars, target, claim, ran, restarts>>

\* autoResume, resumeOnFailure and the exit code, in any combination.
ShouldResume == {autoResume /\ (success \/ onFailure) :
                   autoResume \in BOOLEAN, success \in BOOLEAN, onFailure \in BOOLEAN}

\* The command exits.  A turn of its session is resumed, in the context of the
\* handler; the client's sessionId is compared only now, and only in that case.
EndCommand(r) ==
  /\ hpc[r] = "running"
  /\ \E resume \in ShouldResume, s \in Sessions \cup {NoSession} :
       \/ ~ resume /\ Answer(r, "ok") /\ UNCHANGED claim
       \/ /\ resume /\ s \notin {NoSession, filed[target[r]]}
          /\ claim' = [claim EXCEPT ![r] = s]
          /\ Answer(r, "mismatch")
       \/ /\ resume /\ s \in {NoSession, filed[target[r]]}
          /\ hpc' = [hpc EXCEPT ![r] = "resuming"]
          /\ UNCHANGED <<claim, rep>>
  /\ UNCHANGED <<turnVars, toolVars, target, ran, restarts>>

\* The resumed turn ends or raises: 200 either way.
EndResume(r) ==
  /\ hpc[r] = "resuming"
  /\ Answer(r, "ok")
  /\ UNCHANGED <<turnVars, toolVars, target, claim, ran, restarts>>

\* The container is stopped, crashes or is provisioned again: its turns, its
\* handlers and its pending commands are gone.
Restart ==
  /\ restarts < MaxRestarts /\ restarts' = restarts + 1
  /\ at' = [t \in Chats |-> IF at[t] = "up" THEN "lost" ELSE at[t]]
  /\ active' = [x \in Contexts |-> NoSession]
  /\ ctxId' = [x \in Contexts |-> NoCommand]
  /\ pending' = [c \in Commands |-> NoSession]
  /\ hpc' = [r \in Requests |->
               IF hpc[r] \in {"sent", "popped", "running", "resuming"} THEN "gone" ELSE hpc[r]]
  /\ UNCHANGED <<kind, sess, announced, parked, filed, by, asked, epoch,
                 target, claim, rep, ran>>

ChatStep(t) ==
  \/ \E s \in Sessions : BusTurn(t, s) \/ OwnTurn(t, s)
  \/ TurnEnds(t) \/ TurnFails(t)

HandlerStep(r) == Take(r) \/ StartCommand(r) \/ TimeOut(r) \/ EndCommand(r) \/ EndResume(r)

Next ==
  \/ \E t \in Chats : ChatStep(t)
  \/ \E t \in Turns, c \in Commands : Execute(t, c)
  \/ \E r \in Requests :
       \/ \E c \in Commands : Post(r, c)
       \/ HandlerStep(r)
  \/ Restart

Spec == Init /\ [][Next]_vars

\* A handler's task is scheduled, the timeout of run_approved runs off, and a turn
\* of the engine ends.  A command need not exit.
Fairness ==
  \A r \in Requests :
    WF_vars(Take(r)) /\ WF_vars(StartCommand(r)) /\ WF_vars(TimeOut(r)) /\ WF_vars(EndResume(r))

FairSpec == Spec /\ Fairness

(***************************************************************************)
(* Properties.                                                             *)
(***************************************************************************)

\* However often a command is approved, and whatever times out, is refused or
\* restarts meanwhile, it is started at most once, and clients are told `ok' no
\* more often than it was started (run_approved pops before its first await).
RunsAtMostOnce ==
  /\ \A c \in Commands : ran[c] <= 1
  /\ \A r \in Requests : rep[r] = "ok" => ran[target[r]] = 1
  /\ \A q, r \in Requests :
       rep[q] = "ok" /\ rep[r] = "ok" /\ target[q] = target[r] => q = r

\* The answer to a message announces the last command that this very turn parked,
\* and none if it parked none: not one of an earlier turn of the listener's task,
\* nor of a turn that runs beside it (_run_chat, agent/context.py:10).
IsLastParked(t, c) ==
  /\ \A d \in Commands : by[d] = t => d <= c
  /\ c # NoCommand => by[c] = t

AnnouncedIsOwn == \A t \in Chats : at[t] = "ended" => IsLastParked(t, announced[t])

\* A command that a message's turn parks is filed under the session of that turn,
\* with turns of other sessions running on the same loop (agent/context.py:7).
FiledUnderOwnSession == \A c \in Commands : by[c] \in Chats => filed[c] = sess[by[c]]

\* A client that approves a command in the conversation in which it came up is told
\* of a session mismatch, after the command has run, only if a resumed turn parked
\* it: such a turn has no ACTIVE_SESSION (agent/routes/approval.py:118).
HonestMismatchIsCharged ==
  \A r \in Requests :
    rep[r] = "mismatch" /\ claim[r] = asked[target[r]] => by[target[r]] \in Requests

\* A parked command stays pending until an approval takes it: commands parked later,
\* approvals of others and refusals do not drop it; only a restart does.
TakenBy(r, c) ==
  /\ target[r] = c
  /\ \/ hpc[r] \in {"popped", "running", "resuming"}
     \/ rep[r] \in {"ok", "noStart", "timeout", "mismatch"}

ParkedStaysPending ==
  \A c \in 1 .. parked :
    epoch[c] = restarts /\ pending[c] = NoSession => \E r \in Requests : TakenBy(r, c)

\* Every approval that reaches the agent is answered, also when the command hangs,
\* unless the container goes away (the timeout of run_approved).
ApprovalsFinish == \A r \in Requests : hpc[r] = "sent" ~> hpc[r] \in {"over", "gone"}
=============================================================================
