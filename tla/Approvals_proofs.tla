-------------------------- MODULE Approvals_proofs --------------------------
(***************************************************************************)
(* Proofs about Approvals, for every set of sessions and every value of    *)
(* the bounds.                                                             *)
(***************************************************************************)
EXTENDS Approvals, TLAPS

\* Every step is one of these; theorems about steps have a case for each.
LEMMA EveryStep ==
  ASSUME [Next]_vars
  PROVE  \/ \E t \in Chats, s \in Sessions : BusTurn(t, s) \/ OwnTurn(t, s)
         \/ \E t \in Chats : TurnEnds(t) \/ TurnFails(t)
         \/ \E t \in Turns, c \in Commands : Execute(t, c)
         \/ \E r \in Requests, c \in Commands : Post(r, c)
         \/ \E r \in Requests : \/ Take(r) \/ StartCommand(r) \/ TimeOut(r)
                                \/ EndCommand(r) \/ EndResume(r)
         \/ Restart
         \/ UNCHANGED vars
  BY DEF Next, ChatStep, HandlerStep

(***************************************************************************)
(* Type correctness.  A resumed turn asks on behalf of the command that    *)
(* its approval is for, which must be one that was parked.                 *)
(***************************************************************************)
TargetKnown ==
  \A r \in Requests : hpc[r] # "none" => target[r] \in Commands /\ target[r] <= parked

TypeInv == TypeOK /\ TargetKnown

LEMMA KindsOfTurns ==
  /\ \A r \in Requests : r \notin Chats /\ r # Listener
  /\ \A t \in Chats : t \notin Requests /\ t # Listener
  /\ \A c \in Commands : c # NoCommand /\ c \in Nat
  BY ApprovalsAssumption DEF Chats, Requests, Commands, Listener, NoCommand

LEMMA CtxIsContext == \A t \in Turns : Ctx(t) \in Contexts
  BY DEF Ctx, Contexts

LEMMA ActiveSessionType ==
  ASSUME TypeOK, NEW x \in Contexts
  PROVE  ActiveSession(x) \in Sessions
  BY ApprovalsAssumption DEF TypeOK, ActiveSession

LEMMA TypeInit == Init => TypeInv
<1> SUFFICES ASSUME Init PROVE TypeInv
  OBVIOUS
<1>1. TypeOK
  BY ApprovalsAssumption DEF Init, TypeOK
<1>2. TargetKnown
  BY DEF Init, TargetKnown
<1> QED  BY <1>1, <1>2 DEF TypeInv

LEMMA TypeStep ==
  ASSUME TypeInv, [Next]_vars
  PROVE  TypeInv'
<1> USE ApprovalsAssumption DEF TypeInv, TypeOK, TargetKnown
<1>1. ASSUME NEW t \in Chats, NEW s \in Sessions, BusTurn(t, s)  PROVE TypeInv'
  BY <1>1 DEF BusTurn, StartChat, toolVars, reqVars, Contexts
<1>2. ASSUME NEW t \in Chats, NEW s \in Sessions, OwnTurn(t, s)  PROVE TypeInv'
  BY <1>2 DEF OwnTurn, StartChat, toolVars, reqVars, Contexts, Turns
<1>3. ASSUME NEW t \in Chats, TurnEnds(t)  PROVE TypeInv'
  <2>1. ctxId[Ctx(t)] \in Commands \cup {NoCommand}
    BY CtxIsContext DEF Turns
  <2> QED  BY <1>3, <2>1 DEF TurnEnds, toolVars, reqVars
<1>4. ASSUME NEW t \in Chats, TurnFails(t)  PROVE TypeInv'
  BY <1>4 DEF TurnFails, toolVars, reqVars
<1>5. ASSUME NEW t \in Turns, NEW c \in Commands, Execute(t, c)  PROVE TypeInv'
  <2> DEFINE a == IF t \in Chats THEN sess[t] ELSE asked[target[t]]
  <2>1. ActiveSession(Ctx(t)) \in Sessions /\ Ctx(t) \in Contexts
    BY CtxIsContext, ActiveSessionType
  <2>2. a \in Sessions \cup {NoSession}
    BY <1>5, KindsOfTurns DEF Execute, Running, Turns
  <2>3. parked' \in 0 .. MaxCommands /\ parked < parked'
    BY <1>5 DEF Execute, Commands
  <2>4. /\ pending' \in [Commands -> Sessions \cup {NoSession}]
        /\ filed' \in [Commands -> Sessions \cup {NoSession}]
        /\ ctxId' \in [Contexts -> Commands \cup {NoCommand}]
    BY <1>5, <2>1 DEF Execute, Park
  <2>5. /\ asked' \in [Commands -> Sessions \cup {NoSession}]
        /\ by' \in [Commands -> Turns \cup {Listener}]
        /\ epoch' \in [Commands -> 0 .. MaxRestarts]
    BY <1>5, <2>2 DEF Execute
  <2>6. TargetKnown'
    BY <1>5, <2>3 DEF Execute, reqVars, Commands
  <2> QED  BY <1>5, <2>3, <2>4, <2>5, <2>6 DEF Execute, reqVars
<1>6. ASSUME NEW r \in Requests, NEW c \in Commands, Post(r, c)  PROVE TypeInv'
  BY <1>6 DEF Post, turnVars, toolVars
<1>7. ASSUME NEW r \in Requests, Take(r)  PROVE TypeInv'
  BY <1>7 DEF Take, Answer, turnVars
<1>8. ASSUME NEW r \in Requests, StartCommand(r)  PROVE TypeInv'
  BY <1>8 DEF StartCommand, Answer, turnVars, toolVars
<1>9. ASSUME NEW r \in Requests, TimeOut(r)  PROVE TypeInv'
  BY <1>9 DEF TimeOut, Answer, turnVars, toolVars
<1>10. ASSUME NEW r \in Requests, EndCommand(r)  PROVE TypeInv'
  BY <1>10 DEF EndCommand, Answer, turnVars, toolVars
<1>11. ASSUME NEW r \in Requests, EndResume(r)  PROVE TypeInv'
  BY <1>11 DEF EndResume, Answer, turnVars, toolVars
<1>12. CASE Restart
  BY <1>12 DEF Restart
<1>13. CASE UNCHANGED vars
  BY <1>13 DEF vars, turnVars, toolVars, reqVars
<1> HIDE DEF TypeInv
<1> QED
  BY EveryStep, <1>1, <1>2, <1>3, <1>4, <1>5, <1>6, <1>7, <1>8, <1>9, <1>10, <1>11,
     <1>12, <1>13

LEMMA TypeAlways == Spec => []TypeInv
  BY TypeInit, TypeStep, PTL DEF Spec

\* Every variable of the agent always has its type (TypeOK).
THEOREM ApprovalsTypeCorrect == Spec => []TypeOK
<1>1. TypeInv => TypeOK
  BY DEF TypeInv
<1> QED  BY <1>1, TypeAlways, PTL

(***************************************************************************)
(* A command is started at most once.  An approval that took a command     *)
(* keeps it from all others: the entry is gone, and will not come back     *)
(* under the same id.                                                      *)
(***************************************************************************)
PendingUntaken ==
  \A c \in Commands :
    pending[c] # NoSession =>
      c <= parked /\ ran[c] = 0 /\ \A r \in Requests : ~ TakenBy(r, c)

OneTaker ==
  \A q, r \in Requests :
    TakenBy(q, target[q]) /\ TakenBy(r, target[r]) /\ target[q] = target[r] => q = r

PoppedNotStarted == \A r \in Requests : hpc[r] = "popped" => ran[target[r]] = 0

StartedOnce ==
  \A r \in Requests :
    hpc[r] \in {"running", "resuming"} \/ rep[r] \in {"ok", "timeout", "mismatch"}
      => ran[target[r]] = 1

UnparkedNotStarted == \A c \in Commands : parked < c => ran[c] = 0

AnsweredIsOver == \A r \in Requests : rep[r] # "none" => hpc[r] = "over"

OnceInv ==
  /\ PendingUntaken /\ OneTaker /\ PoppedNotStarted /\ StartedOnce
  /\ UnparkedNotStarted /\ AnsweredIsOver
  /\ \A c \in Commands : ran[c] <= 1

LEMMA OnceInit == Init => OnceInv
  BY DEF Init, OnceInv, PendingUntaken, OneTaker, PoppedNotStarted, StartedOnce,
         UnparkedNotStarted, AnsweredIsOver, TakenBy

LEMMA OnceStep ==
  ASSUME TypeInv, OnceInv, [Next]_vars
  PROVE  OnceInv'
<1> USE ApprovalsAssumption
       DEF TypeInv, TypeOK, TargetKnown, OnceInv, PendingUntaken, OneTaker, PoppedNotStarted,
           StartedOnce, UnparkedNotStarted, AnsweredIsOver, TakenBy
<1>1. ASSUME NEW t \in Chats, NEW s \in Sessions, BusTurn(t, s)  PROVE OnceInv'
  BY <1>1 DEF BusTurn, StartChat, toolVars, reqVars
<1>2. ASSUME NEW t \in Chats, NEW s \in Sessions, OwnTurn(t, s)  PROVE OnceInv'
  BY <1>2 DEF OwnTurn, StartChat, toolVars, reqVars
<1>3. ASSUME NEW t \in Chats, TurnEnds(t)  PROVE OnceInv'
  BY <1>3 DEF TurnEnds, toolVars, reqVars
<1>4. ASSUME NEW t \in Chats, TurnFails(t)  PROVE OnceInv'
  BY <1>4 DEF TurnFails, toolVars, reqVars
<1>5. ASSUME NEW t \in Turns, NEW c \in Commands, Execute(t, c)  PROVE OnceInv'
  <2>1. /\ parked' = c /\ parked < c /\ UNCHANGED <<target, claim, hpc, rep, ran>>
        /\ \A d \in Commands : d # c => pending'[d] = pending[d]
    BY <1>5 DEF Execute, Park, reqVars
  <2>2. ASSUME NEW r \in Requests  PROVE ~ TakenBy(r, c)
    <3>1. CASE hpc[r] = "none"
      BY <3>1
    <3>2. CASE hpc[r] # "none"
      <4>1. target[r] <= parked /\ target[r] # c
        BY <2>1, <3>2 DEF Commands
      <4> QED  BY <4>1
    <3> QED  BY <3>1, <3>2
  <2>3. PendingUntaken'
    <3>1. ran[c] = 0
      BY <2>1
    <3>2. \A d \in Commands : d <= parked => d <= parked'
      BY <2>1 DEF Commands
    <3>3. \A d \in Commands, r \in Requests : TakenBy(r, d)' <=> TakenBy(r, d)
      BY <2>1
    <3> HIDE DEF TakenBy, OnceInv
    <3>4. PendingUntaken
      BY DEF OnceInv
    <3> QED  BY <2>1, <2>2, <3>1, <3>2, <3>3, <3>4 DEF Commands
  <2>4. UnparkedNotStarted'
    BY <2>1 DEF Commands
  <2> QED  BY <2>1, <2>3, <2>4
<1>6. ASSUME NEW r \in Requests, NEW c \in Commands, Post(r, c)  PROVE OnceInv'
  <2>1. /\ UNCHANGED <<parked, pending, ran, rep>> /\ hpc[r] = "none" /\ rep[r] = "none"
        /\ hpc' = [hpc EXCEPT ![r] = "sent"] /\ target' = [target EXCEPT ![r] = c]
    BY <1>6 DEF Post, toolVars
  <2>2. ~ TakenBy(r, target[r])' /\ \A d \in Commands : ~ TakenBy(r, d)'
    BY <2>1
  <2>3. \A q \in Requests : q # r => UNCHANGED <<hpc[q], target[q], rep[q]>>
    BY <2>1
  <2>4. PendingUntaken'
    BY <2>1, <2>2, <2>3
  <2>5. OneTaker'
    BY <2>1, <2>2, <2>3
  <2>6. PoppedNotStarted' /\ StartedOnce' /\ UnparkedNotStarted' /\ AnsweredIsOver'
    BY <2>1, <2>3
  <2> QED  BY <2>1, <2>4, <2>5, <2>6
<1>7. ASSUME NEW r \in Requests, Take(r)  PROVE OnceInv'
  <2>1. /\ UNCHANGED <<parked, target, ran>> /\ target[r] \in Commands
        /\ hpc[r] = "sent" /\ rep[r] = "none"
    BY <1>7 DEF Take
  <2>2. CASE pending[target[r]] = NoSession
    <3>1. UNCHANGED pending /\ Answer(r, "unknown")
      BY <1>7, <2>2 DEF Take
    <3> QED  BY <2>1, <3>1 DEF Answer
  <2>3. CASE pending[target[r]] # NoSession
    <3>1. /\ hpc' = [hpc EXCEPT ![r] = "popped"] /\ UNCHANGED rep
          /\ pending' = [pending EXCEPT ![target[r]] = NoSession]
      BY <1>7, <2>3 DEF Take
    <3>2. ran[target[r]] = 0 /\ \A q \in Requests : ~ TakenBy(q, target[r])
      BY <2>1, <2>3
    <3> QED  BY <2>1, <3>1, <3>2
  <2> QED  BY <2>2, <2>3
<1>8. ASSUME NEW r \in Requests, StartCommand(r)  PROVE OnceInv'
  <2>1. /\ UNCHANGED <<parked, pending, target>> /\ target[r] \in Commands
        /\ hpc[r] = "popped" /\ ran[target[r]] = 0 /\ target[r] <= parked
        /\ TakenBy(r, target[r]) /\ rep[r] = "none"
    BY <1>8 DEF StartCommand, toolVars
  <2>2. /\ pending[target[r]] = NoSession
        /\ \A q \in Requests : TakenBy(q, target[q]) /\ target[q] = target[r] => q = r
    BY <2>1
  <2>3. CASE /\ hpc' = [hpc EXCEPT ![r] = "running"]
             /\ ran' = [ran EXCEPT ![target[r]] = @ + 1] /\ UNCHANGED rep
    <3>1. \A d \in Commands : ran'[d] = IF d = target[r] THEN 1 ELSE ran[d]
      BY <2>1, <2>3
    <3>2. \A q \in Requests : TakenBy(q, target[q])' => TakenBy(q, target[q])
      BY <2>1, <2>3
    <3>3. \A q \in Requests, d \in Commands : TakenBy(q, d)' => TakenBy(q, d)
      BY <2>1, <2>3
    <3>4. PendingUntaken'
      BY <2>1, <2>2, <3>1, <3>3
    <3>5. OneTaker'
      BY <2>1, <3>2
    <3>6. AnsweredIsOver'
      BY <2>1, <2>3
    <3>7. UnparkedNotStarted'
      <4>1. \A d \in Commands : parked < d => d # target[r]
        BY <2>1 DEF Commands
      <4>2. UnparkedNotStarted /\ parked' = parked
        BY <2>1
      <4> HIDE DEF OnceInv, TypeInv
      <4> QED  BY <4>1, <4>2, <3>1
    <3>8. PoppedNotStarted'
      BY <2>1, <2>2, <2>3, <3>1
    <3>9. StartedOnce'
      BY <2>1, <2>2, <2>3, <3>1
    <3> QED  BY <3>1, <3>4, <3>5, <3>6, <3>7, <3>8, <3>9
  <2>4. CASE Answer(r, "noStart") /\ UNCHANGED ran
    BY <2>1, <2>4 DEF Answer
  <2> QED  BY <1>8, <2>3, <2>4 DEF StartCommand
<1>9. ASSUME NEW r \in Requests, TimeOut(r)  PROVE OnceInv'
  BY <1>9 DEF TimeOut, Answer, toolVars
<1>10. ASSUME NEW r \in Requests, EndCommand(r)  PROVE OnceInv'
  <2>1. /\ UNCHANGED <<parked, pending, target, ran>>
        /\ hpc[r] = "running" /\ rep[r] = "none"
    BY <1>10 DEF EndCommand, toolVars
  <2>2. \/ \E a \in {"ok", "mismatch"} : Answer(r, a)
        \/ hpc' = [hpc EXCEPT ![r] = "resuming"] /\ UNCHANGED rep
    BY <1>10 DEF EndCommand
  <2>3. CASE \E a \in {"ok", "mismatch"} : Answer(r, a)
    BY <2>1, <2>3 DEF Answer
  <2>4. CASE hpc' = [hpc EXCEPT ![r] = "resuming"] /\ UNCHANGED rep
    BY <2>1, <2>4
  <2> QED  BY <2>2, <2>3, <2>4
<1>11. ASSUME NEW r \in Requests, EndResume(r)  PROVE OnceInv'
  BY <1>11 DEF EndResume, Answer, toolVars
<1>12. CASE Restart
  BY <1>12 DEF Restart
<1>13. CASE UNCHANGED vars
  BY <1>13 DEF vars, toolVars, reqVars
<1> HIDE DEF TypeInv, OnceInv
<1> QED
  BY EveryStep, <1>1, <1>2, <1>3, <1>4, <1>5, <1>6, <1>7, <1>8, <1>9, <1>10, <1>11,
     <1>12, <1>13

\* However often a command is approved, and whatever times out, fails or restarts
\* meanwhile, run_approved starts it at most once and tells one client `ok'
\* (RunsAtMostOnce).
THEOREM CommandsRunAtMostOnce == Spec => []RunsAtMostOnce
<1>1. TypeInv /\ OnceInv => RunsAtMostOnce
  BY DEF TypeInv, TypeOK, TargetKnown, OnceInv, StartedOnce, OneTaker, TakenBy, AnsweredIsOver,
         RunsAtMostOnce
<1> QED  BY <1>1, OnceInit, OnceStep, TypeAlways, PTL DEF Spec

(***************************************************************************)
(* A parked command is pending until an approval takes it.                 *)
(***************************************************************************)
EpochPast == \A c \in Commands : epoch[c] <= restarts

LEMMA ParkedStep ==
  ASSUME TypeInv, OnceInv, EpochPast, ParkedStaysPending, [Next]_vars
  PROVE  EpochPast' /\ ParkedStaysPending'
<1> USE ApprovalsAssumption
       DEF TypeInv, TypeOK, TargetKnown, EpochPast, ParkedStaysPending, TakenBy, AnsweredIsOver
<1> DEFINE Goal == EpochPast' /\ ParkedStaysPending'
<1>0. 1 .. parked \subseteq Commands /\ AnsweredIsOver
  BY DEF Commands, OnceInv
<1>1. ASSUME NEW t \in Chats, NEW s \in Sessions, BusTurn(t, s)  PROVE Goal
  BY <1>0, <1>1 DEF BusTurn, StartChat, toolVars, reqVars
<1>2. ASSUME NEW t \in Chats, NEW s \in Sessions, OwnTurn(t, s)  PROVE Goal
  BY <1>0, <1>2 DEF OwnTurn, StartChat, toolVars, reqVars
<1>3. ASSUME NEW t \in Chats, TurnEnds(t)  PROVE Goal
  BY <1>0, <1>3 DEF TurnEnds, toolVars, reqVars
<1>4. ASSUME NEW t \in Chats, TurnFails(t)  PROVE Goal
  BY <1>0, <1>4 DEF TurnFails, toolVars, reqVars
<1>5. ASSUME NEW t \in Turns, NEW c \in Commands, Execute(t, c)  PROVE Goal
  <2>1. ActiveSession(Ctx(t)) \in Sessions
    BY CtxIsContext, ActiveSessionType
  <2>2. /\ parked' = c /\ c = parked + 1 /\ UNCHANGED <<target, claim, hpc, rep, restarts>>
        /\ pending'[c] # NoSession
        /\ epoch' = [epoch EXCEPT ![c] = restarts]
        /\ \A d \in Commands : d # c => pending'[d] = pending[d]
    BY <1>5, <2>1 DEF Execute, Park, reqVars
  <2>3. EpochPast'
    BY <2>2
  <2>4. ASSUME NEW d \in 1 .. parked', epoch'[d] = restarts', pending'[d] = NoSession
        PROVE  \E r \in Requests : TakenBy(r, d)'
    <3>1. d # c /\ d \in 1 .. parked /\ d \in Commands
      BY <1>0, <2>2, <2>4
    <3>2. PICK r \in Requests : TakenBy(r, d)
      BY <2>2, <2>4, <3>1
    <3> QED  BY <2>2, <3>2
  <2> QED  BY <2>3, <2>4
<1>6. ASSUME NEW r \in Requests, NEW c \in Commands, Post(r, c)  PROVE Goal
  <2>1. /\ UNCHANGED <<parked, pending, epoch, restarts, rep>>
        /\ hpc[r] = "none" /\ rep[r] = "none"
        /\ \A q \in Requests : q # r => UNCHANGED <<hpc[q], target[q]>>
    BY <1>0, <1>6 DEF Post, toolVars
  <2> QED  BY <1>0, <2>1
<1>7. ASSUME NEW r \in Requests, Take(r)  PROVE Goal
  <2>1. /\ UNCHANGED <<parked, epoch, restarts, target>>
        /\ hpc[r] = "sent" /\ rep[r] = "none"
    BY <1>0, <1>7 DEF Take
  <2>2. CASE pending[target[r]] = NoSession
    BY <1>0, <1>7, <2>1, <2>2 DEF Take, Answer
  <2>3. CASE pending[target[r]] # NoSession
    BY <1>0, <1>7, <2>1, <2>3 DEF Take
  <2> QED  BY <2>2, <2>3
<1>8. ASSUME NEW r \in Requests, StartCommand(r)  PROVE Goal
  BY <1>0, <1>8 DEF StartCommand, Answer, toolVars
<1>9. ASSUME NEW r \in Requests, TimeOut(r)  PROVE Goal
  BY <1>0, <1>9 DEF TimeOut, Answer, toolVars
<1>10. ASSUME NEW r \in Requests, EndCommand(r)  PROVE Goal
  BY <1>0, <1>10 DEF EndCommand, Answer, toolVars
<1>11. ASSUME NEW r \in Requests, EndResume(r)  PROVE Goal
  BY <1>0, <1>11 DEF EndResume, Answer, toolVars
<1>12. CASE Restart
  BY <1>0, <1>12 DEF Restart
<1>13. CASE UNCHANGED vars
  BY <1>0, <1>13 DEF vars, toolVars, reqVars
<1> HIDE DEF TypeInv, ParkedStaysPending, EpochPast
<1> QED
  BY EveryStep, <1>1, <1>2, <1>3, <1>4, <1>5, <1>6, <1>7, <1>8, <1>9, <1>10, <1>11,
     <1>12, <1>13

\* Only an approval that takes it, or a restart, makes a parked command no longer
\* pending (ParkedStaysPending).
THEOREM ParkedUntilTaken == Spec => []ParkedStaysPending
<1>1. Init => EpochPast /\ ParkedStaysPending
  BY DEF Init, EpochPast, ParkedStaysPending
<1> QED  BY <1>1, ParkedStep, OnceInit, OnceStep, TypeAlways, PTL DEF Spec

(***************************************************************************)
(* What an answer announces, and the session that a command is filed       *)
(* under.  A turn that runs has its context for itself: the listener's has *)
(* one turn at a time, and a context names the last command of its turn.   *)
(***************************************************************************)
UnparkedHaveNoTurn ==
  \A c \in Commands : IF c <= parked THEN by[c] \in Turns ELSE by[c] = Listener

NewParkedNone == \A t \in Chats : at[t] = "new" => \A c \in Commands : by[c] # t

OneBusTurn ==
  \A t, u \in Chats :
    at[t] = "up" /\ at[u] = "up" /\ kind[t] = "bus" /\ kind[u] = "bus" => t = u

ContextIsOwn ==
  \A t \in Chats :
    at[t] = "up" => /\ IsLastParked(t, ctxId[Ctx(t)])
                    /\ active[Ctx(t)] = sess[t] /\ sess[t] \in Sessions

FiledAsAsked ==
  \A c \in Commands : by[c] \in Chats => filed[c] = sess[by[c]] /\ asked[c] = sess[by[c]]

MismatchIsOther ==
  \A r \in Requests : rep[r] = "mismatch" => claim[r] # filed[target[r]]

ContextInv ==
  /\ UnparkedHaveNoTurn /\ NewParkedNone /\ OneBusTurn /\ ContextIsOwn
  /\ AnnouncedIsOwn /\ FiledAsAsked

\* No two turns that run share a context.
LEMMA ContextsApart ==
  ASSUME OneBusTurn, NEW t \in Chats, NEW u \in Turns, at[t] = "up", Running(u), u # t
  PROVE  Ctx(u) # Ctx(t)
  BY KindsOfTurns DEF OneBusTurn, Ctx, Running, Turns

LEMMA ContextInit == Init => ContextInv
  BY KindsOfTurns, ApprovalsAssumption
     DEF Init, ContextInv, UnparkedHaveNoTurn, NewParkedNone, OneBusTurn, ContextIsOwn,
         AnnouncedIsOwn, FiledAsAsked, Commands

\* A turn that begins finds a context that no running turn has, and resets it.
LEMMA StartKeepsContexts ==
  ASSUME TypeOK, ContextInv, NEW t \in Chats, NEW s \in Sessions,
         BusTurn(t, s) \/ OwnTurn(t, s)
  PROVE  ContextInv'
<1> DEFINE k == IF BusTurn(t, s) THEN "bus" ELSE "own"
           x == IF BusTurn(t, s) THEN Listener ELSE t
<1>1. /\ StartChat(t, k, s, x)
      /\ k = "bus" => x = Listener
      /\ k # "bus" => x = t
      /\ k = "bus" => \A u \in Chats : kind[u] = "bus" => at[u] # "up"
  BY DEF BusTurn, OwnTurn
<1>2. /\ at[t] = "new" /\ x \in Contexts
      /\ kind' = [kind EXCEPT ![t] = k] /\ sess' = [sess EXCEPT ![t] = s]
      /\ at' = [at EXCEPT ![t] = "up"] /\ active' = [active EXCEPT ![x] = s]
      /\ ctxId' = [ctxId EXCEPT ![x] = NoCommand]
      /\ UNCHANGED <<announced, parked, filed, by, asked>>
  BY DEF BusTurn, OwnTurn, StartChat, toolVars, Contexts, Turns
<1>3. Ctx(t)' = x /\ \A u \in Chats : u # t => Ctx(u)' = Ctx(u)
  BY <1>2, KindsOfTurns DEF Ctx, TypeOK, BusTurn, OwnTurn
<1>4. \A u \in Chats : u # t /\ at[u] = "up" => Ctx(u) # x
  BY KindsOfTurns DEF Ctx, BusTurn, OwnTurn
<1>5. \A c \in Commands : by[c] # t
  BY <1>2 DEF ContextInv, NewParkedNone
<1>6. \A u \in Chats : \A c : IsLastParked(u, c)' <=> IsLastParked(u, c)
  BY <1>2 DEF IsLastParked
<1>7. ContextIsOwn'
  <2> SUFFICES ASSUME NEW u \in Chats, at'[u] = "up"
               PROVE  /\ IsLastParked(u, ctxId'[Ctx(u)'])
                      /\ active'[Ctx(u)'] = sess'[u] /\ sess'[u] \in Sessions
    BY <1>6 DEF ContextIsOwn, IsLastParked
  <2>1. CASE u = t
    BY <1>2, <1>3, <1>5, <2>1 DEF TypeOK, IsLastParked
  <2>2. CASE u # t
    <3>1. at[u] = "up" /\ Ctx(u) # x /\ Ctx(u)' = Ctx(u) /\ Ctx(u) \in Contexts
      BY <1>2, <1>3, <1>4, <2>2, CtxIsContext DEF TypeOK, Turns
    <3>2. ctxId'[Ctx(u)] = ctxId[Ctx(u)] /\ active'[Ctx(u)] = active[Ctx(u)] /\ sess'[u] = sess[u]
      BY <1>2, <2>2, <3>1 DEF TypeOK
    <3> QED  BY <3>1, <3>2 DEF ContextInv, ContextIsOwn
  <2> QED  BY <2>1, <2>2
<1>8. UnparkedHaveNoTurn' /\ NewParkedNone'
  BY <1>2 DEF ContextInv, UnparkedHaveNoTurn, NewParkedNone, TypeOK
<1>9. OneBusTurn'
  BY <1>2 DEF ContextInv, OneBusTurn, TypeOK, BusTurn, OwnTurn
<1>10. AnnouncedIsOwn'
  BY <1>2, <1>6 DEF ContextInv, AnnouncedIsOwn, TypeOK
<1>11. FiledAsAsked'
  BY <1>2, <1>5 DEF ContextInv, FiledAsAsked, TypeOK
<1> QED  BY <1>7, <1>8, <1>9, <1>10, <1>11 DEF ContextInv

\* A command is parked in the name of the turn whose context it is.
LEMMA ExecuteKeepsContexts ==
  ASSUME TypeInv, ContextInv, NEW t \in Turns, NEW c \in Commands, Execute(t, c)
  PROVE  ContextInv'
<1>1. /\ Running(t) /\ parked' = c /\ c = parked + 1 /\ Ctx(t) \in Contexts
      /\ ctxId' = [ctxId EXCEPT ![Ctx(t)] = c]
      /\ filed' = [filed EXCEPT ![c] = ActiveSession(Ctx(t))]
      /\ by' = [by EXCEPT ![c] = t]
      /\ asked' = [asked EXCEPT ![c] = IF t \in Chats THEN sess[t] ELSE asked[target[t]]]
      /\ UNCHANGED <<kind, sess, at, active, announced>>
  BY CtxIsContext DEF Execute
<1>2. by[c] = Listener /\ parked < c
  BY <1>1 DEF ContextInv, UnparkedHaveNoTurn, Commands, TypeInv, TypeOK
<1>3. \A u \in Chats : Ctx(u)' = Ctx(u)
  BY <1>1 DEF Ctx
<1>4. \A u \in Chats, d \in Commands \cup {NoCommand} :
        u # t /\ IsLastParked(u, d) => IsLastParked(u, d)'
  BY <1>1, <1>2, KindsOfTurns DEF IsLastParked, TypeInv, TypeOK
<1>5. t \in Chats => IsLastParked(t, c)'
  <2>1. \A d \in Commands : by[d] \in Chats => d <= parked
    BY KindsOfTurns DEF ContextInv, UnparkedHaveNoTurn
  <2>2. c \in Nat /\ parked \in Nat /\ Commands \subseteq Nat
    BY <1>1 DEF Commands, TypeInv, TypeOK
  <2> QED  BY <1>1, <2>1, <2>2 DEF IsLastParked, TypeInv, TypeOK
<1>6. ContextIsOwn'
  <2> SUFFICES ASSUME NEW u \in Chats, at[u] = "up"
               PROVE  IsLastParked(u, ctxId[Ctx(u)])'
    BY <1>1, <1>3 DEF ContextInv, ContextIsOwn
  <2>1. CASE u = t
    BY <1>1, <1>3, <1>5, <2>1 DEF TypeInv, TypeOK
  <2>2. CASE u # t
    <3>1. Ctx(u) # Ctx(t) /\ Ctx(u) \in Contexts
      BY <1>1, <2>2, ContextsApart, CtxIsContext DEF ContextInv, Turns
    <3>2. ctxId'[Ctx(u)'] = ctxId[Ctx(u)] /\ ctxId[Ctx(u)] \in Commands \cup {NoCommand}
      BY <1>1, <1>3, <3>1 DEF TypeInv, TypeOK
    <3>3. IsLastParked(u, ctxId[Ctx(u)])
      BY DEF ContextInv, ContextIsOwn
    <3> DEFINE d == ctxId[Ctx(u)]
    <3>4. \A e \in Commands : by'[e] = u => e <= d
      BY <1>4, <2>2, <3>2, <3>3 DEF IsLastParked
    <3>5. d # NoCommand => by'[d] = u
      BY <1>4, <2>2, <3>2, <3>3 DEF IsLastParked
    <3> QED  BY <3>2, <3>4, <3>5 DEF IsLastParked
  <2> QED  BY <2>1, <2>2
<1>7. UnparkedHaveNoTurn' /\ NewParkedNone' /\ OneBusTurn'
  BY <1>1, <1>2, KindsOfTurns
     DEF ContextInv, UnparkedHaveNoTurn, NewParkedNone, OneBusTurn, Running, TypeInv, TypeOK,
         Commands
<1>8. AnnouncedIsOwn'
  <2> SUFFICES ASSUME NEW u \in Chats, at[u] = "ended"
               PROVE  IsLastParked(u, announced[u])'
    BY <1>1 DEF AnnouncedIsOwn
  <2>1. u # t /\ IsLastParked(u, announced[u]) /\ announced[u] \in Commands \cup {NoCommand}
    BY <1>1 DEF Running, ContextInv, AnnouncedIsOwn, TypeInv, TypeOK
  <2> DEFINE d == announced[u]
  <2>2. (\A e \in Commands : by'[e] = u => e <= d) /\ (d # NoCommand => by'[d] = u)
    BY <1>4, <2>1 DEF IsLastParked
  <2> QED  BY <1>1, <2>2 DEF IsLastParked
<1>9. FiledAsAsked'
  <2>1. t \in Chats => ActiveSession(Ctx(t)) = sess[t]
    BY <1>1, ApprovalsAssumption DEF Running, ContextInv, ContextIsOwn, ActiveSession
  <2> QED  BY <1>1, <2>1 DEF ContextInv, FiledAsAsked, TypeInv, TypeOK
<1> QED  BY <1>6, <1>7, <1>8, <1>9 DEF ContextInv

LEMMA ContextStep ==
  ASSUME TypeInv, ContextInv, [Next]_vars
  PROVE  ContextInv'
<1> DEFINE seen == <<kind, sess, at, active, ctxId, announced, parked, filed, by, asked>>
<1>0. ASSUME UNCHANGED seen  PROVE ContextInv'
  BY <1>0 DEF ContextInv, UnparkedHaveNoTurn, NewParkedNone, OneBusTurn, ContextIsOwn,
              AnnouncedIsOwn, FiledAsAsked, IsLastParked, Ctx
<1>1. ASSUME NEW t \in Chats, NEW s \in Sessions, BusTurn(t, s) \/ OwnTurn(t, s)
      PROVE  ContextInv'
  BY <1>1, StartKeepsContexts DEF TypeInv
<1>2. ASSUME NEW t \in Chats, TurnEnds(t)  PROVE ContextInv'
  <2>1. IsLastParked(t, ctxId[Ctx(t)])
    BY <1>2 DEF TurnEnds, ContextInv, ContextIsOwn
  <2> QED
    BY <1>2, <2>1 DEF TurnEnds, toolVars, ContextInv, UnparkedHaveNoTurn, NewParkedNone,
         OneBusTurn, ContextIsOwn, AnnouncedIsOwn, FiledAsAsked, IsLastParked, Ctx, TypeInv,
         TypeOK
<1>3. ASSUME NEW t \in Chats, TurnFails(t)  PROVE ContextInv'
  BY <1>3 DEF TurnFails, toolVars, ContextInv, UnparkedHaveNoTurn, NewParkedNone,
       OneBusTurn, ContextIsOwn, AnnouncedIsOwn, FiledAsAsked, IsLastParked, Ctx, TypeInv, TypeOK
<1>4. ASSUME NEW t \in Turns, NEW c \in Commands, Execute(t, c)  PROVE ContextInv'
  BY <1>4, ExecuteKeepsContexts
<1>5. ASSUME NEW r \in Requests, NEW c \in Commands, Post(r, c)  PROVE ContextInv'
  BY <1>0, <1>5 DEF Post, turnVars, toolVars
<1>6. ASSUME NEW r \in Requests,
             Take(r) \/ StartCommand(r) \/ TimeOut(r) \/ EndCommand(r) \/ EndResume(r)
      PROVE  ContextInv'
  BY <1>0, <1>6 DEF Take, StartCommand, TimeOut, EndCommand, EndResume, turnVars, toolVars
<1>7. CASE Restart
  BY <1>7 DEF Restart, ContextInv, UnparkedHaveNoTurn, NewParkedNone,
       OneBusTurn, ContextIsOwn, AnnouncedIsOwn, FiledAsAsked, IsLastParked, Ctx, TypeInv, TypeOK
<1>8. CASE UNCHANGED vars
  BY <1>0, <1>8 DEF vars, turnVars, toolVars
<1> HIDE DEF TypeInv, ContextInv
<1> QED  BY EveryStep, <1>1, <1>2, <1>3, <1>4, <1>5, <1>6, <1>7, <1>8

LEMMA ContextAlways == Spec => []ContextInv
  BY ContextInit, ContextStep, TypeAlways, PTL DEF Spec

\* The answer of every turn announces the last command that this turn parked, and
\* none if it parked none (AnnouncedIsOwn).
THEOREM AnswersAnnounceTheirOwn == Spec => []AnnouncedIsOwn
<1>1. ContextInv => AnnouncedIsOwn
  BY DEF ContextInv
<1> QED  BY <1>1, ContextAlways, PTL

\* What a message's turn parks is filed under the session of this turn, whatever
\* runs beside it (FiledUnderOwnSession).
THEOREM FiledUnderOwnSessionAlways == Spec => []FiledUnderOwnSession
<1>1. ContextInv => FiledUnderOwnSession
  BY DEF ContextInv, FiledAsAsked, FiledUnderOwnSession
<1> QED  BY <1>1, ContextAlways, PTL

(***************************************************************************)
(* Mismatches.                                                             *)
(***************************************************************************)
LEMMA MismatchStep ==
  ASSUME TypeInv, OnceInv, MismatchIsOther, [Next]_vars
  PROVE  MismatchIsOther'
<1> USE DEF TypeInv, TypeOK, TargetKnown, OnceInv, AnsweredIsOver, MismatchIsOther
<1>0. ASSUME UNCHANGED <<rep, claim, filed, target>>  PROVE MismatchIsOther'
  BY <1>0
<1>1. ASSUME NEW t \in Chats, NEW s \in Sessions, BusTurn(t, s) \/ OwnTurn(t, s)
      PROVE  MismatchIsOther'
  BY <1>0, <1>1 DEF BusTurn, OwnTurn, StartChat, toolVars, reqVars
<1>2. ASSUME NEW t \in Chats, TurnEnds(t) \/ TurnFails(t)  PROVE MismatchIsOther'
  BY <1>0, <1>2 DEF TurnEnds, TurnFails, toolVars, reqVars
<1>3. ASSUME NEW t \in Turns, NEW c \in Commands, Execute(t, c)  PROVE MismatchIsOther'
  <2>1. /\ UNCHANGED <<rep, claim, target>> /\ parked < c
        /\ \A d \in Commands : d # c => filed'[d] = filed[d]
    BY <1>3 DEF Execute, reqVars, Commands
  <2>2. ASSUME NEW r \in Requests, rep[r] = "mismatch"
        PROVE  target[r] \in Commands /\ target[r] # c
    BY <2>1, <2>2 DEF Commands
  <2> QED  BY <2>1, <2>2
<1>4. ASSUME NEW r \in Requests, NEW c \in Commands, Post(r, c)  PROVE MismatchIsOther'
  BY <1>4 DEF Post, toolVars
<1>5. ASSUME NEW r \in Requests, Take(r) \/ StartCommand(r) \/ TimeOut(r) \/ EndResume(r)
      PROVE  MismatchIsOther'
  BY <1>5 DEF Take, StartCommand, TimeOut, EndResume, Answer, toolVars
<1>6. ASSUME NEW r \in Requests, EndCommand(r)  PROVE MismatchIsOther'
  BY <1>6 DEF EndCommand, Answer, toolVars
<1>7. CASE Restart
  BY <1>0, <1>7 DEF Restart
<1>8. CASE UNCHANGED vars
  BY <1>0, <1>8 DEF vars, toolVars, reqVars
<1> HIDE DEF TypeInv, MismatchIsOther
<1> QED  BY EveryStep, <1>1, <1>2, <1>3, <1>4, <1>5, <1>6, <1>7, <1>8

\* A client that names the conversation a command came up in is refused only if
\* the command was parked by a resumed turn (HonestMismatchIsCharged).
THEOREM HonestMismatchAlwaysCharged == Spec => []HonestMismatchIsCharged
<1>1. Init => MismatchIsOther
  BY DEF Init, MismatchIsOther
<1>2. TypeInv /\ OnceInv /\ ContextInv /\ MismatchIsOther => HonestMismatchIsCharged
  <2> SUFFICES ASSUME TypeInv, OnceInv, ContextInv, MismatchIsOther, NEW r \in Requests,
                      rep[r] = "mismatch", claim[r] = asked[target[r]]
               PROVE  by[target[r]] \in Requests
    BY DEF HonestMismatchIsCharged
  <2>1. target[r] \in Commands /\ target[r] <= parked
    BY DEF TypeInv, TargetKnown, OnceInv, AnsweredIsOver
  <2>2. by[target[r]] \in Turns
    BY <2>1 DEF ContextInv, UnparkedHaveNoTurn
  <2>3. by[target[r]] \notin Chats
    BY <2>1 DEF ContextInv, FiledAsAsked, MismatchIsOther
  <2> QED  BY <2>2, <2>3 DEF Turns
<1> QED
  BY <1>1, <1>2, MismatchStep, OnceInit, OnceStep, TypeAlways, ContextAlways, PTL DEF Spec
=============================================================================
