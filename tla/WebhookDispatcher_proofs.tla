----------------------- MODULE WebhookDispatcher_proofs -----------------------
(***************************************************************************)
(* Proofs about WebhookDispatcher, for every set of gateway processes and  *)
(* every value of the bounds.                                              *)
(***************************************************************************)
EXTENDS WebhookDispatcher, Counting

(***************************************************************************)
(* Type correctness.  TypeOK is not inductive: a dispatcher settles, POSTs *)
(* and acknowledges `msg', which must be an entry then, and Wake counts an *)
(* attempt, which must not have been the last.                             *)
(***************************************************************************)
EmptyHanded == {"off", "reading", "ended"}

HoldsDelivered ==
  \A w \in Workers : IF st[w] \in EmptyHanded THEN msg[w] = NoEvent ELSE msg[w] \in was

SleepsBetweenAttempts ==
  \A w \in Workers : st[w] = "sleep" => attempt[w] < MaxRetries - 1

TypeInv == TypeOK /\ HoldsDelivered /\ SleepsBetweenAttempts

\* Every step is one of these; theorems about steps have a case for each.
LEMMA EveryStep ==
  ASSUME [Next]_vars
  PROVE  \/ Publish
         \/ \E w \in Workers : \/ Start(w) \/ Read(w) \/ ReadRaises(w) \/ Inspect(w)
                               \/ Post(w) \/ StopBeforePost(w) \/ Wake(w) \/ Ack(w)
                               \/ AckRaises(w) \/ Stop(w) \/ Exit(w) \/ Crash(w)
         \/ UNCHANGED vars
  BY DEF Next, Step

\* What a dispatcher works on is an entry that was delivered to it.
LEMMA HeldIsEvent ==
  ASSUME TypeInv, NEW w \in Workers, st[w] \notin EmptyHanded
  PROVE  msg[w] \in was /\ msg[w] \in Events
<1>1. msg[w] \in was /\ msg[w] \in 1 .. delivered /\ msg[w] \in Events \cup {NoEvent}
  BY DEF TypeInv, TypeOK, HoldsDelivered
<1> QED  BY <1>1, DispatcherAssumption

LEMMA TypeInit == Init => TypeInv
<1> SUFFICES ASSUME Init PROVE TypeInv
  OBVIOUS
<1>1. /\ added \in 0 .. MaxEvents /\ trimmed \in 0 .. added /\ delivered \in 0 .. added
      /\ attempt \in [Workers -> 0 .. MaxRetries - 1]
  BY DispatcherAssumption DEF Init
<1>2. /\ pel \subseteq 1 .. delivered /\ was \subseteq 1 .. delivered
      /\ group \in BOOLEAN /\ stop \in [Workers -> BOOLEAN] /\ faults \in Nat
  BY DEF Init
<1>3. /\ st \in [Workers -> WorkerState] /\ msg \in [Workers -> Events \cup {NoEvent}]
      /\ fate \in [Events -> Fate] /\ ends \in [Endings -> Nat]
  BY DEF Init, WorkerState, Fate
<1>4. posts \in [Events -> Nat] /\ taken \in [Events -> Nat] /\ mishaps \in [Events -> Nat]
  BY DEF Init
<1>5. HoldsDelivered /\ SleepsBetweenAttempts
  BY DEF Init, HoldsDelivered, SleepsBetweenAttempts, EmptyHanded
<1> QED  BY <1>1, <1>2, <1>3, <1>4, <1>5 DEF TypeInv, TypeOK

LEMMA TypeStep ==
  ASSUME TypeInv, [Next]_vars
  PROVE  TypeInv'
<1> USE DispatcherAssumption
       DEF TypeInv, TypeOK, HoldsDelivered, SleepsBetweenAttempts, EmptyHanded, WorkerState
<1>1. CASE Publish
  BY <1>1 DEF Publish, groupVars, workerVars, callbackVars, Events, Fate, Endings
<1>2. ASSUME NEW w \in Workers, Start(w)  PROVE TypeInv'
  BY <1>2 DEF Start, Goto, streamVars, callbackVars
<1>3. ASSUME NEW w \in Workers, Read(w)  PROVE TypeInv'
  <2>1. PICK e \in Unread : Deliver(e) /\ msg' = [msg EXCEPT ![w] = e]
    BY <1>3 DEF Read
  <2>2. /\ delivered' \in 0 .. added /\ pel' \subseteq 1 .. delivered'
        /\ was' \subseteq 1 .. delivered' /\ was \subseteq was' /\ e \in was' /\ e \in Events
    BY <2>1 DEF Unread, Deliver, Events
  <2>3. /\ st' = [st EXCEPT ![w] = "got"]
        /\ UNCHANGED <<streamVars, group, attempt, stop, callbackVars, ends, faults>>
    BY <1>3 DEF Read, Goto
  <2>4. /\ st' \in [Workers -> WorkerState] /\ msg' \in [Workers -> Events \cup {NoEvent}]
        /\ HoldsDelivered' /\ SleepsBetweenAttempts'
    BY <2>1, <2>2, <2>3
  <2> QED  BY <2>2, <2>3, <2>4 DEF streamVars, callbackVars
<1>4. ASSUME NEW w \in Workers, ReadRaises(w)  PROVE TypeInv'
  <2>1. CASE UNCHANGED <<delivered, pel, was>> /\ group' \in BOOLEAN
    BY <1>4, <2>1 DEF ReadRaises, Goto, Fault, streamVars, callbackVars
  <2>2. CASE (\E e \in Unread : NextUnread(e) /\ Deliver(e)) /\ UNCHANGED group
    <3>1. PICK e \in Unread : Deliver(e)
      BY <2>2
    <3>2. /\ delivered' \in 0 .. added /\ pel' \subseteq 1 .. delivered'
          /\ was' \subseteq 1 .. delivered' /\ was \subseteq was'
      BY <3>1 DEF Unread, Deliver, Events
    <3>3. /\ st[w] \in EmptyHanded /\ st' = [st EXCEPT ![w] = "ended"]
          /\ msg' = msg /\ attempt' = attempt /\ faults' = faults + 1
          /\ UNCHANGED <<streamVars, group, stop, callbackVars, ends>>
      BY <1>4, <2>2 DEF ReadRaises, Goto, Fault
    <3>4. HoldsDelivered' /\ SleepsBetweenAttempts'
      BY <3>2, <3>3
    <3> QED  BY <3>2, <3>3, <3>4 DEF streamVars, callbackVars
  <2> QED  BY <1>4, <2>1, <2>2 DEF ReadRaises, groupVars
<1>5. ASSUME NEW w \in Workers, Inspect(w)  PROVE TypeInv'
  <2>1. msg[w] \in was /\ msg[w] \in Events
    BY <1>5, HeldIsEvent DEF Inspect
  <2>2. fate' \in [Events -> Fate] /\ attempt' \in [Workers -> 0 .. MaxRetries - 1]
    BY <1>5, <2>1 DEF Inspect, Fate
  <2>3. /\ st' \in [Workers -> WorkerState] /\ msg' \in [Workers -> Events \cup {NoEvent}]
        /\ HoldsDelivered'
    BY <1>5, <2>1 DEF Inspect, Goto
  <2>4. SleepsBetweenAttempts'
    BY <1>5 DEF Inspect, Goto
  <2> QED  BY <1>5, <2>2, <2>3, <2>4 DEF Inspect, streamVars, groupVars
<1>6. ASSUME NEW w \in Workers, Post(w)  PROVE TypeInv'
  <2>1. msg[w] \in was /\ msg[w] \in Events
    BY <1>6, HeldIsEvent DEF Post
  <2>2. /\ posts' \in [Events -> Nat] /\ taken' \in [Events -> Nat]
        /\ mishaps' \in [Events -> Nat]
    BY <1>6, <2>1 DEF Post
  <2>3. fate' \in [Events -> Fate]
    BY <1>6, <2>1 DEF Post, Retry, Fate
  <2>4. \E s \in {"ackDone", "ackGaveUp", "sleep"} :
          Goto(w, s) /\ (s = "sleep" => attempt[w] < MaxRetries - 1)
    BY <1>6 DEF Post, Retry
  <2>5. st' \in [Workers -> WorkerState] /\ HoldsDelivered' /\ SleepsBetweenAttempts'
    BY <1>6, <2>1, <2>4 DEF Post, Goto
  <2> QED  BY <1>6, <2>2, <2>3, <2>5 DEF Post, streamVars, groupVars
<1>7. ASSUME NEW w \in Workers, StopBeforePost(w)  PROVE TypeInv'
  BY <1>7 DEF StopBeforePost, Release, Goto, streamVars, groupVars, callbackVars
<1>8. ASSUME NEW w \in Workers, Wake(w)  PROVE TypeInv'
  BY <1>8 DEF Wake, Goto, streamVars, groupVars, callbackVars
<1>9. ASSUME NEW w \in Workers, Ack(w)  PROVE TypeInv'
  <2>1. /\ msg' \in [Workers -> Events \cup {NoEvent}]
        /\ attempt' \in [Workers -> 0 .. MaxRetries - 1]
    BY <1>9 DEF Ack, Release
  <2>2. /\ st' \in [Workers -> WorkerState] /\ pel' \subseteq 1 .. delivered
        /\ HoldsDelivered' /\ SleepsBetweenAttempts'
    BY <1>9 DEF Ack, Release, Goto
  <2> QED  BY <1>9, <2>1, <2>2 DEF Ack, streamVars, callbackVars
<1>10. ASSUME NEW w \in Workers, AckRaises(w)  PROVE TypeInv'
  <2>1. msg[w] \in was /\ msg[w] \in Events
    BY <1>10, HeldIsEvent DEF AckRaises, AckState
  <2>2. /\ mishaps' \in [Events -> Nat] /\ fate' \in [Events -> Fate]
        /\ faults' \in Nat /\ pel' \subseteq 1 .. delivered
    BY <1>10, <2>1 DEF AckRaises, AckState, Retry, Fate, Fault
  <2>3. CASE st[w] = "ackDone"
    <3>1. \E s \in {"ackGaveUp", "sleep"} :
            Goto(w, s) /\ (s = "sleep" => attempt[w] < MaxRetries - 1)
      BY <1>10, <2>3 DEF AckRaises, Retry
    <3>2. st' \in [Workers -> WorkerState] /\ HoldsDelivered' /\ SleepsBetweenAttempts'
      BY <1>10, <2>1, <2>3, <3>1 DEF AckRaises, Goto
    <3> QED  BY <1>10, <2>2, <2>3, <3>2 DEF AckRaises, streamVars
  <2>4. CASE st[w] # "ackDone"
    <3>1. /\ st' \in [Workers -> WorkerState] /\ msg' \in [Workers -> Events \cup {NoEvent}]
          /\ HoldsDelivered' /\ SleepsBetweenAttempts'
      BY <1>10, <2>4 DEF AckRaises, Release, Goto
    <3>2. attempt' \in [Workers -> 0 .. MaxRetries - 1]
      BY <1>10, <2>4 DEF AckRaises, Release
    <3> QED  BY <1>10, <2>2, <2>4, <3>1, <3>2 DEF AckRaises, streamVars
  <2> QED  BY <2>3, <2>4
<1>11. ASSUME NEW w \in Workers, Stop(w)  PROVE TypeInv'
  BY <1>11 DEF Stop, Ends, Endings, streamVars, groupVars, callbackVars
<1>12. ASSUME NEW w \in Workers, Exit(w)  PROVE TypeInv'
  BY <1>12 DEF Exit, Leave, Release, Goto, streamVars, groupVars, callbackVars
<1>13. ASSUME NEW w \in Workers, Crash(w)  PROVE TypeInv'
  BY <1>13 DEF Crash, Ends, Endings, Leave, Release, Goto, streamVars, groupVars, callbackVars
<1>14. CASE UNCHANGED vars
  BY <1>14 DEF vars, streamVars, groupVars, workerVars, callbackVars
<1> HIDE DEF TypeInv
<1> QED
  BY EveryStep, <1>1, <1>2, <1>3, <1>4, <1>5, <1>6, <1>7, <1>8, <1>9, <1>10, <1>11,
     <1>12, <1>13, <1>14

\* Every variable of the dispatchers always has its type (TypeOK).
THEOREM DispatcherTypeCorrect == Spec => []TypeOK
<1>1. TypeInv => TypeOK
  BY DEF TypeInv
<1> QED  BY <1>1, TypeInit, TypeStep, PTL DEF Spec

(***************************************************************************)
(* One dispatcher per entry.  An entry is held from the read on, and the   *)
(* read only delivers what no dispatcher ever had: TypeInv keeps `was'     *)
(* below `delivered', and what is held in `was'.                           *)
(***************************************************************************)

\* A dispatcher gets an entry from the group only: any other step keeps or
\* drops the one it holds.
LEMMA HoldsFreshOrKeeps ==
  ASSUME TypeInv, [Next]_vars
  PROVE  \A w \in Workers : \/ msg'[w] = msg[w]
                            \/ msg'[w] = NoEvent
                            \/ Read(w) /\ msg'[w] \in Events \ was
<1> USE DEF TypeInv, TypeOK
<1>1. ASSUME NEW v \in Workers, Read(v), NEW w \in Workers
      PROVE  IF w = v THEN msg'[w] \in Events \ was ELSE msg'[w] = msg[w]
  BY <1>1, DispatcherAssumption DEF Read, Unread, Events
<1>2. ASSUME NEW v \in Workers,
             \/ Start(v) \/ ReadRaises(v) \/ Inspect(v) \/ Post(v) \/ StopBeforePost(v)
             \/ Wake(v) \/ Ack(v) \/ AckRaises(v) \/ Stop(v) \/ Exit(v) \/ Crash(v),
             NEW w \in Workers
      PROVE  msg'[w] = msg[w] \/ msg'[w] = NoEvent
  BY <1>2 DEF Start, ReadRaises, Inspect, Post, StopBeforePost, Wake, Ack, AckRaises, Stop,
              Exit, Crash, Leave, Release
<1>3. Publish \/ UNCHANGED vars => UNCHANGED msg
  BY DEF Publish, vars, workerVars
<1> QED  BY EveryStep, <1>1, <1>2, <1>3

\* At most one step of one dispatcher is a read.
LEMMA OneReads ==
  ASSUME TypeInv, NEW v \in Workers, NEW w \in Workers, Read(v), Read(w)
  PROVE  v = w
<1>1. st[v] = "reading" /\ st'[w] = "got" /\ st' = [st EXCEPT ![v] = "got"]
  BY DEF Read, Goto, TypeInv, TypeOK
<1>2. st[w] = "reading"
  BY DEF Read
<1> QED  BY <1>1, <1>2 DEF TypeInv, TypeOK

\* No two dispatchers ever work on the same entry (OneDispatcher).
THEOREM OneDispatcherAlways == Spec => []OneDispatcher
<1>1. Init => OneDispatcher
  BY DEF Init, OneDispatcher
<1>2. ASSUME TypeInv, OneDispatcher, [Next]_vars  PROVE OneDispatcher'
  <2> SUFFICES ASSUME NEW v \in Workers, NEW w \in Workers,
                      msg'[v] = msg'[w], msg'[v] # NoEvent
               PROVE  v = w
    BY DEF OneDispatcher
  <2>1. \A u \in Workers : msg[u] = NoEvent \/ msg[u] \in was
    BY <1>2 DEF TypeInv, HoldsDelivered
  <2> QED  BY <1>2, <2>1, HoldsFreshOrKeeps, OneReads DEF OneDispatcher
<1> QED  BY <1>1, <1>2, TypeInit, TypeStep, PTL DEF Spec

(***************************************************************************)
(* Nothing is acknowledged before it is settled.                           *)
(***************************************************************************)
KeptOrFated == \A e \in was : e \in pel \/ fate[e] # "none"

FatedBeforeAck == \A w \in Workers : st[w] \in AckState => fate[msg[w]] # "none"

SettleInv == KeptOrFated /\ FatedBeforeAck

\* The dispatcher settles the entry it holds, and never takes that back.
LEMMA FateIsKept ==
  ASSUME TypeInv, [Next]_vars
  PROVE  \A e \in Events : fate[e] # "none" => fate'[e] # "none"
<1> SUFFICES ASSUME NEW e \in Events, fate[e] # "none"  PROVE fate'[e] # "none"
  OBVIOUS
<1> USE DEF TypeInv, TypeOK
<1>1. ASSUME NEW w \in Workers, Inspect(w) \/ Post(w) \/ AckRaises(w)
      PROVE  fate'[e] # "none"
  <2>1. fate' = fate \/ \E f \in {"noCallback", "delivered", "gaveUp"} :
                          fate' = [fate EXCEPT ![msg[w]] = f]
    BY <1>1 DEF Inspect, Post, AckRaises, Retry
  <2> QED  BY <2>1
<1>2. ASSUME NEW w \in Workers,
             \/ Start(w) \/ Read(w) \/ ReadRaises(w) \/ StopBeforePost(w)
             \/ Wake(w) \/ Ack(w) \/ Stop(w) \/ Exit(w) \/ Crash(w)
      PROVE  fate' = fate
  BY <1>2 DEF Start, Read, ReadRaises, StopBeforePost, Wake, Ack, Stop, Exit, Crash, Leave, Release,
              callbackVars
<1>3. Publish \/ UNCHANGED vars => fate' = fate
  BY DEF Publish, vars, callbackVars
<1> QED  BY EveryStep, <1>1, <1>2, <1>3

\* A dispatcher gets ready to acknowledge in a step that settles its entry.
LEMMA GetsReadyToAck ==
  ASSUME TypeInv, FatedBeforeAck, [Next]_vars
  PROVE  FatedBeforeAck'
<1> SUFFICES ASSUME NEW v \in Workers, st'[v] \in AckState  PROVE fate'[msg'[v]] # "none"
  BY DEF FatedBeforeAck
<1> USE DEF AckState
<1>1. CASE st[v] \in AckState /\ msg'[v] = msg[v]
  <2>1. msg[v] \in Events
    BY <1>1, HeldIsEvent DEF EmptyHanded
  <2> QED  BY <1>1, <2>1, FateIsKept DEF FatedBeforeAck
<1>2. ASSUME NEW w \in Workers, Inspect(w) \/ Post(w) \/ AckRaises(w), w # v
      PROVE  st[v] \in AckState /\ msg'[v] = msg[v]
  BY <1>2 DEF Inspect, Post, AckRaises, Retry, Release, Goto, TypeInv, TypeOK
<1>3. CASE Inspect(v) \/ Post(v)
  <2>1. msg[v] \in Events
    BY <1>3, HeldIsEvent DEF Inspect, Post, EmptyHanded
  <2>2. CASE Inspect(v)
    BY <2>1, <2>2 DEF Inspect, Goto, TypeInv, TypeOK
  <2>3. CASE Post(v)
    BY <2>1, <2>3 DEF Post, Retry, Goto, TypeInv, TypeOK
  <2> QED  BY <1>3, <2>2, <2>3
<1>4. CASE AckRaises(v)
  BY <1>1, <1>4 DEF AckRaises, Goto, TypeInv, TypeOK
<1>5. ASSUME NEW w \in Workers,
             \/ Start(w) \/ Read(w) \/ ReadRaises(w) \/ StopBeforePost(w)
             \/ Wake(w) \/ Ack(w) \/ Stop(w) \/ Exit(w) \/ Crash(w)
      PROVE  st[v] \in AckState /\ msg'[v] = msg[v]
  BY <1>5 DEF Start, Read, ReadRaises, StopBeforePost, Wake, Ack, Stop, Exit, Crash, Leave, Release,
              Goto, TypeInv, TypeOK
<1>6. Publish \/ UNCHANGED vars => st[v] \in AckState /\ msg'[v] = msg[v]
  BY DEF Publish, vars, workerVars
<1> QED  BY EveryStep, <1>1, <1>2, <1>3, <1>4, <1>5, <1>6

\* Only an acknowledgement takes an entry out of the pending ones.
LEMMA AckingIsSettling ==
  ASSUME TypeInv, SettleInv, [Next]_vars
  PROVE  KeptOrFated'
<1> USE DEF TypeInv, TypeOK, SettleInv
<1>0. \A e \in was : e \in Events
  BY DispatcherAssumption DEF Events
<1>1. ASSUME NEW w \in Workers, Ack(w) \/ AckRaises(w)  PROVE KeptOrFated'
  <2>1. was' = was /\ \A e \in was : e \in pel => e \in pel' \/ fate[e] # "none"
    BY <1>1 DEF Ack, AckRaises, FatedBeforeAck
  <2> QED  BY <1>0, <2>1, FateIsKept DEF KeptOrFated
<1>2. ASSUME NEW w \in Workers, Read(w) \/ ReadRaises(w)  PROVE KeptOrFated'
  <2>1. \E d \in SUBSET Events : pel' = pel \cup d /\ was' = was \cup d
    <3>1. CASE UNCHANGED <<delivered, pel, was>>
      <4>1. pel' = pel \cup {} /\ was' = was \cup {}
        BY <3>1
      <4> WITNESS {} \in SUBSET Events
      <4> QED  BY <4>1
    <3>2. CASE \E e \in Unread : Deliver(e)
      BY <3>2 DEF Deliver, Unread
    <3> QED  BY <1>2, <3>1, <3>2 DEF Read, ReadRaises, groupVars
  <2>2. UNCHANGED fate
    BY <1>2 DEF Read, ReadRaises, callbackVars
  <2> QED  BY <2>1, <2>2 DEF KeptOrFated
<1>3. ASSUME \/ Publish \/ UNCHANGED vars
             \/ \E w \in Workers : \/ Start(w) \/ Inspect(w) \/ Post(w) \/ StopBeforePost(w)
                                   \/ Wake(w) \/ Stop(w) \/ Exit(w) \/ Crash(w)
      PROVE  KeptOrFated'
  <2>1. UNCHANGED <<pel, was>>
    BY <1>3 DEF Publish, Start, Inspect, Post, StopBeforePost, Wake, Stop, Exit, Crash, Leave, Release,
                groupVars, vars
  <2> QED  BY <1>0, <2>1, FateIsKept DEF KeptOrFated
<1> QED  BY EveryStep, <1>1, <1>2, <1>3

\* An entry that was delivered to a dispatcher and is no longer pending has been
\* settled: no acknowledgement hides an event that was never tried.
THEOREM AckedMeansSettledAlways == Spec => []AckedMeansSettled
<1>1. Init => SettleInv
  BY DEF Init, SettleInv, KeptOrFated, FatedBeforeAck, AckState
<1>2. TypeInv /\ SettleInv /\ [Next]_vars => SettleInv'
  BY GetsReadyToAck, AckingIsSettling DEF SettleInv
<1>3. SettleInv => AckedMeansSettled
  BY DEF SettleInv, KeptOrFated, AckedMeansSettled
<1> QED  BY <1>1, <1>2, <1>3, TypeInit, TypeStep, PTL DEF Spec

(***************************************************************************)
(* What an entry costs its endpoint.  The POSTs of an entry are counted by *)
(* the attempts of the one dispatcher that holds it, and they start from   *)
(* zero because an entry is delivered once.  A dispatcher that will POST   *)
(* again has not yet been told that the endpoint took the entry, unless    *)
(* the XACK after that raised: each take so far has its mishap.            *)
(***************************************************************************)
Untried(e) == posts[e] = 0 /\ taken[e] = 0

CountsAgree(w) ==
  /\ st[w] = "got" => Untried(msg[w])
  /\ st[w] = "post" => posts[msg[w]] = attempt[w]
  /\ st[w] \in {"sleep", "ackDone"} => posts[msg[w]] = attempt[w] + 1
  /\ st[w] \in {"post", "sleep"} => taken[msg[w]] <= mishaps[msg[w]]

CountInv ==
  /\ \A e \in Events \ was : Untried(e)
  /\ \A w \in Workers : CountsAgree(w)
  /\ AttemptsBounded
  /\ DuplicatesAreCharged

\* What a dispatcher does changes nothing for the entries of the others.
LEMMA OthersCountsAgree ==
  ASSUME TypeInv, OneDispatcher, NEW w \in Workers,
         NEW v \in Workers, v # w, CountsAgree(v),
         st'[v] = st[v], msg'[v] = msg[v], attempt'[v] = attempt[v],
         \A e \in Events : e = msg[w] \/ (/\ posts'[e] = posts[e] /\ taken'[e] = taken[e]
                                          /\ mishaps'[e] = mishaps[e])
  PROVE  CountsAgree(v)'
<1>1. CASE st[v] \in EmptyHanded
  BY <1>1 DEF CountsAgree, EmptyHanded
<1>2. CASE st[v] \notin EmptyHanded
  <2>1. msg[v] \in Events /\ msg[v] # NoEvent
    BY <1>2, HeldIsEvent, DispatcherAssumption DEF Events
  <2>2. msg[v] # msg[w]
    BY <2>1 DEF OneDispatcher
  <2> QED  BY <2>1, <2>2 DEF CountsAgree, Untried
<1> QED  BY <1>1, <1>2

\* Steps that make no POST and lose no reply.
LEMMA QuietStep ==
  ASSUME TypeInv, OneDispatcher, CountInv, NEW w \in Workers,
         UNCHANGED <<posts, taken, mishaps>>,
         \A v \in Workers : v # w => /\ st'[v] = st[v] /\ msg'[v] = msg[v]
                                     /\ attempt'[v] = attempt[v],
         CountsAgree(w)', was \subseteq was'
  PROVE  CountInv'
<1>1. \A v \in Workers : CountsAgree(v)'
  BY OthersCountsAgree DEF CountInv
<1>2. \A e \in Events \ was' : Untried(e)'
  BY DEF CountInv, Untried
<1> QED  BY <1>1, <1>2 DEF CountInv, AttemptsBounded, DuplicatesAreCharged

LEMMA CountStep ==
  ASSUME TypeInv, OneDispatcher, CountInv, [Next]_vars
  PROVE  CountInv'
<1> USE DEF TypeInv, TypeOK
<1>1. ASSUME NEW w \in Workers,
             \/ Start(w) \/ ReadRaises(w) \/ StopBeforePost(w) \/ Ack(w) \/ Exit(w) \/ Crash(w)
      PROVE  CountInv'
  <2>1. /\ UNCHANGED <<posts, taken, mishaps>> /\ was \subseteq was'
        /\ attempt' = attempt \/ attempt' = [attempt EXCEPT ![w] = 0]
        /\ msg' = msg \/ msg' = [msg EXCEPT ![w] = NoEvent]
        /\ \E s \in EmptyHanded : st' = [st EXCEPT ![w] = s]
    BY <1>1 DEF Start, ReadRaises, Deliver, StopBeforePost, Ack, Exit, Crash, Leave, Release,
                Goto,
                callbackVars, EmptyHanded
  <2>2. CountsAgree(w)'
    BY <2>1 DEF CountsAgree, EmptyHanded
  <2>3. \A v \in Workers : v # w => /\ st'[v] = st[v] /\ msg'[v] = msg[v]
                                    /\ attempt'[v] = attempt[v]
    BY <2>1
  <2> QED  BY <2>1, <2>2, <2>3, QuietStep
<1>2. ASSUME NEW w \in Workers, Read(w)  PROVE CountInv'
  <2>1. msg'[w] \in Events \ was
    BY <1>2, DispatcherAssumption DEF Read, Unread, Events
  <2>2. CountsAgree(w)'
    BY <1>2, <2>1 DEF Read, Goto, CountsAgree, Untried, CountInv, callbackVars
  <2>3. /\ UNCHANGED <<posts, taken, mishaps>> /\ was \subseteq was'
        /\ \A v \in Workers : v # w => /\ st'[v] = st[v] /\ msg'[v] = msg[v]
                                       /\ attempt'[v] = attempt[v]
    BY <1>2 DEF Read, Deliver, Goto, callbackVars
  <2> QED  BY <2>2, <2>3, QuietStep
<1>3. ASSUME NEW w \in Workers, Inspect(w) \/ Wake(w)  PROVE CountInv'
  <2>1. msg[w] \in Events /\ CountsAgree(w)
    BY <1>3, HeldIsEvent DEF Inspect, Wake, EmptyHanded, CountInv
  <2>4. CountsAgree(w)'
    <3>1. CASE Inspect(w)
      <4>1. Untried(msg[w]) /\ attempt'[w] = 0 /\ UNCHANGED <<posts, taken, mishaps>>
        BY <2>1, <3>1 DEF Inspect, CountsAgree
      <4>2. \/ st'[w] \in {"ended", "ackNone"}
            \/ st'[w] = "post" /\ msg'[w] = msg[w]
        BY <3>1 DEF Inspect, Goto
      <4> QED  BY <2>1, <4>1, <4>2 DEF CountsAgree, Untried
    <3>2. CASE Wake(w)
      <4>1. /\ st[w] = "sleep" /\ st'[w] = "post" /\ attempt'[w] = attempt[w] + 1
            /\ UNCHANGED <<msg, posts, taken, mishaps>>
        BY <3>2 DEF Wake, Goto, callbackVars
      <4> QED  BY <2>1, <4>1 DEF CountsAgree
    <3> QED  BY <1>3, <3>1, <3>2
  <2>5. /\ UNCHANGED <<posts, taken, mishaps, was>>
        /\ \A v \in Workers : v # w => /\ st'[v] = st[v] /\ msg'[v] = msg[v]
                                       /\ attempt'[v] = attempt[v]
    BY <1>3 DEF Inspect, Wake, Goto, callbackVars
  <2> QED  BY <2>4, <2>5, QuietStep
<1>4. ASSUME NEW w \in Workers, Post(w) \/ AckRaises(w)  PROVE CountInv'
  <2>1. msg[w] \in Events /\ msg[w] \in was /\ CountsAgree(w)
    BY <1>4, HeldIsEvent DEF Post, AckRaises, AckState, EmptyHanded, CountInv
  <2>2. /\ UNCHANGED was
        /\ \A v \in Workers : v # w => /\ st'[v] = st[v] /\ msg'[v] = msg[v]
                                       /\ attempt'[v] = attempt[v]
        /\ \A e \in Events : e = msg[w] \/ (/\ posts'[e] = posts[e] /\ taken'[e] = taken[e]
                                            /\ mishaps'[e] = mishaps[e])
    BY <1>4 DEF Post, AckRaises, Retry, Release, Goto
  <2>3. /\ CountsAgree(w)'
        /\ posts'[msg[w]] <= MaxRetries
        /\ taken'[msg[w]] <= 1 + mishaps'[msg[w]]
    <3>1. CASE Post(w)
      <4>1. posts'[msg[w]] = attempt[w] + 1
        BY <2>1, <3>1 DEF Post, CountsAgree
      <4>2. \/ st'[w] = "ackDone" /\ taken'[msg[w]] <= 1 + mishaps'[msg[w]]
            \/ st'[w] \in {"sleep", "ackGaveUp"} /\ taken'[msg[w]] <= mishaps'[msg[w]]
        BY <2>1, <3>1 DEF Post, Retry, Goto, CountsAgree
      <4>3. msg'[w] = msg[w] /\ attempt'[w] = attempt[w]
        BY <3>1 DEF Post
      <4>4. posts'[msg[w]] <= MaxRetries
        BY <4>1, DispatcherAssumption
      <4>5. CountsAgree(w)'
        BY <4>1, <4>2, <4>3 DEF CountsAgree
      <4>6. mishaps'[msg[w]] \in Nat /\ taken'[msg[w]] \in Nat
        BY <2>1, <3>1 DEF Post
      <4> QED  BY <4>2, <4>4, <4>5, <4>6
    <3>2. CASE AckRaises(w) /\ st[w] = "ackDone"
      <4>1. /\ posts' = posts /\ taken' = taken /\ msg' = msg /\ attempt' = attempt
            /\ mishaps'[msg[w]] = mishaps[msg[w]] + 1
            /\ st'[w] \in {"sleep", "ackGaveUp"}
        BY <2>1, <3>2 DEF AckRaises, Retry, Release, Goto
      <4>2. taken[msg[w]] <= 1 + mishaps[msg[w]] /\ posts[msg[w]] <= MaxRetries
        BY <2>1 DEF CountInv, AttemptsBounded, DuplicatesAreCharged
      <4> QED  BY <2>1, <2>2, <3>2, <4>1, <4>2 DEF CountsAgree
    <3>3. CASE AckRaises(w) /\ st[w] # "ackDone"
      BY <2>1, <3>3 DEF AckRaises, Goto, CountsAgree, CountInv, AttemptsBounded,
                        DuplicatesAreCharged
    <3> QED  BY <1>4, <3>1, <3>2, <3>3
  <2>4. \A v \in Workers : CountsAgree(v)'
    BY <2>2, <2>3, OthersCountsAgree DEF CountInv
  <2>5. \A e \in Events \ was' : Untried(e)'
    BY <2>1, <2>2 DEF CountInv, Untried
  <2>6. AttemptsBounded' /\ DuplicatesAreCharged'
    BY <2>2, <2>3 DEF CountInv, AttemptsBounded, DuplicatesAreCharged
  <2> QED  BY <2>4, <2>5, <2>6 DEF CountInv
<1>5. ASSUME Publish \/ UNCHANGED vars \/ \E w \in Workers : Stop(w)  PROVE CountInv'
  BY <1>5 DEF Publish, Stop, vars, workerVars, callbackVars, CountInv, CountsAgree, Untried,
              AttemptsBounded, DuplicatesAreCharged
<1> QED  BY EveryStep, <1>1, <1>2, <1>3, <1>4, <1>5

LEMMA CountInit == Init => CountInv
  BY DispatcherAssumption
  DEF Init, CountInv, CountsAgree, Untried, AttemptsBounded, DuplicatesAreCharged

\* An event costs its endpoint at most max_retries POSTs, whatever crashes, is
\* shut down and starts again (AttemptsBounded).
THEOREM AttemptsAlwaysBounded == Spec => []AttemptsBounded
<1>1. CountInv => AttemptsBounded
  BY DEF CountInv
<1> QED
  BY <1>1, CountInit, CountStep, OneDispatcherAlways, TypeInit, TypeStep, PTL DEF Spec

\* An endpoint takes an event once, and once more for each reply that was lost and
\* each XACK that raised after it (DuplicatesAreCharged).
THEOREM DuplicatesAlwaysCharged == Spec => []DuplicatesAreCharged
<1>1. CountInv => DuplicatesAreCharged
  BY DEF CountInv
<1> QED
  BY <1>1, CountInit, CountStep, OneDispatcherAlways, TypeInit, TypeStep, PTL DEF Spec

(***************************************************************************)
(* The dispatchers implement EventDelivery.  The status of an event is     *)
(* read off `was' first: what no dispatcher had is queued or trimmed, what *)
(* one had is held, settled or abandoned.                                  *)
(***************************************************************************)
OnlyDelivered == pel \subseteq was /\ \A e \in Events : fate[e] # "none" => e \in was

\* The group skips only what is trimmed.
NoneSkipped == \A e \in Events : e <= delivered => e \in was \/ e <= trimmed

MapInv == TypeInv /\ SettleInv /\ OnlyDelivered /\ NoneSkipped

\* Numbers and sets that only grow.
LEMMA Monotone ==
  ASSUME TypeInv, [Next]_vars
  PROVE  added <= added' /\ trimmed <= trimmed' /\ delivered <= delivered' /\ was \subseteq was'
<1> USE DEF TypeInv, TypeOK
<1>1. CASE Publish
  BY <1>1 DEF Publish, groupVars
<1>2. ASSUME NEW w \in Workers, Read(w) \/ ReadRaises(w)
      PROVE  UNCHANGED streamVars /\ delivered <= delivered' /\ was \subseteq was'
  BY <1>2 DEF Read, ReadRaises, Unread, Deliver, Events, groupVars
<1>3. ASSUME NEW w \in Workers,
             \/ Start(w) \/ Inspect(w) \/ Post(w) \/ StopBeforePost(w) \/ Wake(w)
             \/ Ack(w) \/ AckRaises(w) \/ Stop(w) \/ Exit(w) \/ Crash(w)
      PROVE  UNCHANGED <<streamVars, delivered, was>>
  BY <1>3 DEF Start, Inspect, Post, StopBeforePost, Wake, Ack, AckRaises, Stop, Exit, Crash,
              Leave, Release, groupVars
<1>4. UNCHANGED vars => UNCHANGED <<streamVars, delivered, was>>
  BY DEF vars, groupVars
<1> QED  BY EveryStep, <1>1, <1>2, <1>3, <1>4 DEF streamVars

\* Only the entry in hand is settled.
LEMMA SettlesTheHeld ==
  ASSUME TypeInv, [Next]_vars
  PROVE  \A e \in Events : fate'[e] = fate[e] \/ Held(e)
<1> SUFFICES ASSUME NEW e \in Events, ~Held(e)  PROVE fate'[e] = fate[e]
  OBVIOUS
<1>1. ASSUME NEW w \in Workers, Inspect(w) \/ Post(w) \/ AckRaises(w)
      PROVE  fate'[e] = fate[e]
  <2>1. msg[w] # e
    BY DEF Held
  <2> QED  BY <1>1, <2>1 DEF Inspect, Post, AckRaises, Retry, TypeInv, TypeOK
<1>2. ASSUME NEW w \in Workers,
             \/ Start(w) \/ Read(w) \/ ReadRaises(w) \/ StopBeforePost(w)
             \/ Wake(w) \/ Ack(w) \/ Stop(w) \/ Exit(w) \/ Crash(w)
      PROVE  fate' = fate
  BY <1>2 DEF Start, Read, ReadRaises, StopBeforePost, Wake, Ack, Stop, Exit, Crash, Leave, Release,
              callbackVars
<1>3. Publish \/ UNCHANGED vars => fate' = fate
  BY DEF Publish, vars, callbackVars
<1> QED  BY EveryStep, <1>1, <1>2, <1>3

\* An entry joins `was' when the group hands it out, to a dispatcher that then
\* holds it or that never learns of it.
LEMMA HandsOut ==
  ASSUME TypeInv, [Next]_vars, NEW e \in Events, e \in was', e \notin was
  PROVE  e \in Unread /\ (Held(e)' \/ fate'[e] = fate[e])
<1>1. ASSUME NEW w \in Workers, Read(w)
      PROVE  e \in Unread /\ Held(e)'
  BY <1>1 DEF Read, Deliver, Held, TypeInv, TypeOK
<1>2. ASSUME NEW w \in Workers, ReadRaises(w)
      PROVE  e \in Unread /\ fate'[e] = fate[e]
  BY <1>2 DEF ReadRaises, Deliver, callbackVars
<1>3. ASSUME NEW w \in Workers,
             \/ Start(w) \/ Inspect(w) \/ Post(w) \/ StopBeforePost(w) \/ Wake(w)
             \/ Ack(w) \/ AckRaises(w) \/ Stop(w) \/ Exit(w) \/ Crash(w)
      PROVE  FALSE
  BY <1>3 DEF Start, Inspect, Post, StopBeforePost, Wake, Ack, AckRaises, Stop, Exit, Crash,
              Leave, Release
<1>4. ~Publish /\ ~UNCHANGED vars
  BY DEF Publish, vars
<1> QED  BY EveryStep, <1>1, <1>2, <1>3, <1>4

LEMMA OnlyDeliveredStep ==
  ASSUME TypeInv, OnlyDelivered, [Next]_vars
  PROVE  OnlyDelivered'
<1>1. \A e \in Events : fate'[e] # "none" => e \in was'
  <2>1. \A e \in Events : Held(e) => e \in was
    BY DispatcherAssumption DEF Held, TypeInv, HoldsDelivered, EmptyHanded, Events
  <2> QED  BY <2>1, SettlesTheHeld, Monotone DEF OnlyDelivered
<1>2. pel' \subseteq was'
  <2>1. ASSUME NEW w \in Workers, Read(w) \/ ReadRaises(w)
        PROVE  pel' \subseteq was'
    BY <2>1 DEF Read, ReadRaises, Deliver, OnlyDelivered, groupVars
  <2>2. ASSUME NEW w \in Workers,
               \/ Start(w) \/ Inspect(w) \/ Post(w) \/ StopBeforePost(w) \/ Wake(w)
               \/ Ack(w) \/ AckRaises(w) \/ Stop(w) \/ Exit(w) \/ Crash(w)
        PROVE  pel' \subseteq pel
    BY <2>2 DEF Start, Inspect, Post, StopBeforePost, Wake, Ack, AckRaises, Stop, Exit, Crash,
                Leave, Release, groupVars
  <2>3. Publish \/ UNCHANGED vars => pel' \subseteq pel
    BY DEF Publish, vars, groupVars
  <2> QED  BY EveryStep, Monotone, <2>1, <2>2, <2>3 DEF OnlyDelivered
<1> QED  BY <1>1, <1>2 DEF OnlyDelivered

LEMMA NoneSkippedStep ==
  ASSUME TypeInv, NoneSkipped, [Next]_vars
  PROVE  NoneSkipped'
<1> SUFFICES ASSUME NEW e \in Events, e <= delivered', e \notin was', ~(e <= trimmed')
             PROVE  FALSE
  BY DEF NoneSkipped
<1>1. /\ e \in Nat /\ trimmed \in Nat /\ trimmed' \in Nat /\ delivered \in Nat
      /\ added \in Nat /\ trimmed <= trimmed'
  <2>1. trimmed' \in Nat
    BY TypeStep DEF TypeInv, TypeOK
  <2>2. e \in Nat /\ trimmed \in Nat /\ delivered \in Nat /\ added \in Nat
    BY DEF TypeInv, TypeOK, Events
  <2> QED  BY <2>1, <2>2, Monotone
<1>2. ~(e <= delivered)
  BY <1>1, Monotone DEF NoneSkipped
<1>3. ASSUME NEW w \in Workers, Read(w) \/ ReadRaises(w)  PROVE FALSE
  <2>1. PICK d \in Unread : NextUnread(d) /\ Deliver(d)
    BY <1>2, <1>3 DEF Read, ReadRaises, groupVars
  <2>2. e <= d /\ e # d /\ d <= added
    BY <2>1 DEF Deliver, Unread
  <2>3. e \in Unread /\ d \in Nat
    BY <1>1, <1>2, <2>2 DEF Unread, Events
  <2> QED  BY <1>1, <2>1, <2>2, <2>3 DEF NextUnread
<1>4. ASSUME NEW w \in Workers,
             \/ Start(w) \/ Inspect(w) \/ Post(w) \/ StopBeforePost(w) \/ Wake(w)
             \/ Ack(w) \/ AckRaises(w) \/ Stop(w) \/ Exit(w) \/ Crash(w)
      PROVE  FALSE
  BY <1>2, <1>4 DEF Start, Inspect, Post, StopBeforePost, Wake, Ack, AckRaises, Stop, Exit,
                    Crash, Leave, Release, groupVars
<1>5. Publish \/ UNCHANGED vars => FALSE
  BY <1>2 DEF Publish, vars, groupVars
<1> QED  BY EveryStep, <1>3, <1>4, <1>5

\* MAXLEN removes an entry only when StreamMaxLen newer ones are published.
LEMMA TrimsTheOld ==
  ASSUME TypeInv, TypeInv', [Next]_vars, NEW e \in Events, e <= trimmed', ~(e <= trimmed)
  PROVE  added' \in Events /\ added' >= e + StreamMaxLen
<1>1. Publish
  <2>1. ASSUME NEW w \in Workers,
               \/ Start(w) \/ Read(w) \/ ReadRaises(w) \/ Inspect(w) \/ Post(w)
               \/ StopBeforePost(w) \/ Wake(w) \/ Ack(w) \/ AckRaises(w) \/ Stop(w)
               \/ Exit(w) \/ Crash(w)
        PROVE  UNCHANGED trimmed
    BY <2>1 DEF Start, Read, ReadRaises, Inspect, Post, StopBeforePost, Wake, Ack, AckRaises,
                Stop, Exit, Crash, Leave, streamVars
  <2>2. UNCHANGED vars => UNCHANGED trimmed
    BY DEF vars, streamVars
  <2> QED  BY EveryStep, <2>1, <2>2
<1>2. added' - trimmed' >= StreamMaxLen
  BY <1>1 DEF Publish
<1>3. e \in Nat /\ e >= 1 /\ added' \in 0 .. MaxEvents /\ trimmed' \in 0 .. added'
  BY DEF TypeInv, TypeOK, Events
<1>4. added' >= e /\ added' \in 1 .. MaxEvents
  BY <1>3, DispatcherAssumption
<1>5. /\ StreamMaxLen \in Nat /\ e \in Nat /\ trimmed' \in Nat /\ added' \in Nat
      /\ trimmed' >= e
  BY <1>3, DispatcherAssumption
<1>6. \A a, t, d, m \in Nat : a - t >= m /\ t >= d => a >= d + m
  OBVIOUS
<1>7. added' >= e + StreamMaxLen
  BY <1>2, <1>5, <1>6
<1> QED  BY <1>4, <1>7 DEF Events

\* The status of an event, from what the group did with it.
StatusIs(e) ==
  /\ e > added => StatusOf(e) = "unpublished"
  /\ e <= added /\ e \notin was =>
       StatusOf(e) = IF e <= trimmed \/ e <= delivered THEN "trimmed" ELSE "queued"
  /\ e \in was =>
       /\ e <= added
       /\ StatusOf(e) = IF Held(e) THEN "held"
                        ELSE IF fate[e] = "none" THEN "abandoned" ELSE "settled"

AllStatuses == \A e \in Events : StatusIs(e)

LEMMA StatusesFollow == MapInv => AllStatuses
<1> SUFFICES ASSUME MapInv, NEW e \in Events  PROVE StatusIs(e)
  BY DEF AllStatuses
<1> USE DEF StatusIs
<1>1. added \in Nat /\ e \in Nat
  BY DispatcherAssumption DEF MapInv, TypeInv, TypeOK, Events
<1>2. Held(e) => e \in was
  BY <1>1, DispatcherAssumption DEF MapInv, TypeInv, HoldsDelivered, Held
<1>3. e \in was => e <= added
  BY <1>1 DEF MapInv, TypeInv, TypeOK
<1>4. CASE e > added
  BY <1>1, <1>3, <1>4 DEF StatusOf
<1>5. CASE e <= added /\ e \notin was
  <2>1. ~Held(e) /\ ~Abandoned(e) /\ ~(e > added)
    BY <1>1, <1>2, <1>5 DEF MapInv, OnlyDelivered, Abandoned
  <2> QED  BY <1>5, <2>1 DEF StatusOf
<1>6. CASE e \in was
  <2>1. ~(e > added) /\ e <= added
    BY <1>1, <1>3, <1>6
  <2>2. CASE Held(e)
    BY <1>6, <2>1, <2>2 DEF StatusOf, Abandoned
  <2>3. CASE ~Held(e) /\ fate[e] = "none"
    <3>1. Abandoned(e)
      BY <1>6, <2>3 DEF MapInv, SettleInv, KeptOrFated, Abandoned
    <3> QED  BY <1>6, <2>1, <2>3, <3>1 DEF StatusOf
  <2>4. CASE ~Held(e) /\ fate[e] # "none"
    BY <1>6, <2>1, <2>4 DEF StatusOf
  <2> QED  BY <1>6, <2>1, <2>2, <2>3, <2>4
<1> QED  BY <1>1, <1>4, <1>5, <1>6

\* A step moves each event as EventDelivery allows, or leaves it.
LEMMA StatusMoves ==
  ASSUME MapInv, MapInv', [Next]_vars, NEW e \in Events
  PROVE  \/ StatusOf(e)' = StatusOf(e)
         \/ <<StatusOf(e), StatusOf(e)'>> \in Delivery!Moves
<1> USE DEF Delivery!Moves
<1>n. /\ e \in Nat /\ added \in Nat /\ trimmed \in Nat /\ delivered \in Nat
      /\ added' \in Nat /\ trimmed' \in Nat /\ delivered' \in Nat
  BY DispatcherAssumption DEF MapInv, TypeInv, TypeOK, Events
<1>m. /\ added <= added' /\ trimmed <= trimmed' /\ delivered <= delivered'
      /\ was \subseteq was'
  BY Monotone DEF MapInv
<1>s. StatusIs(e) /\ StatusIs(e)'
  <2>1. AllStatuses'
    BY StatusesFollow, PTL
  <2> QED  BY <2>1, StatusesFollow DEF AllStatuses
<1> USE DEF StatusIs
<1>1. CASE e \in was' /\ e \notin was
  <2>1. e \in Unread /\ (Held(e)' \/ fate'[e] = fate[e])
    BY <1>1, HandsOut DEF MapInv
  <2>2. StatusOf(e) = "queued"
    BY <1>1, <1>n, <1>s, <2>1 DEF Unread
  <2>3. StatusOf(e)' \in {"held", "abandoned"}
    BY <1>1, <1>s, <2>1 DEF MapInv, OnlyDelivered
  <2> QED  BY <2>2, <2>3
<1>2. CASE e > added /\ e \notin was'
  BY <1>2, <1>n, <1>s
<1>3. CASE e <= added /\ e \notin was'
  <2>1. e \notin was /\ e <= added'
    BY <1>3, <1>m, <1>n
  <2> QED  BY <1>3, <1>m, <1>n, <1>s, <2>1
<1>4. CASE e \in was
  <2>1. /\ e \in was'
        /\ StatusOf(e) = IF Held(e) THEN "held"
                         ELSE IF fate[e] = "none" THEN "abandoned" ELSE "settled"
    BY <1>4, <1>m, <1>s
  <2>2. CASE Held(e)
    BY <1>s, <2>1, <2>2
  <2>3. CASE ~Held(e)
    <3>1. ~Held(e)'
      <4>1. e # NoEvent
        BY <1>n, DispatcherAssumption
      <4> QED  BY <1>4, <2>3, <4>1, HoldsFreshOrKeeps DEF Held, MapInv
    <3>2. fate'[e] = fate[e]
      BY <2>3, SettlesTheHeld DEF MapInv
    <3> QED  BY <1>s, <2>1, <2>3, <3>1, <3>2
  <2> QED  BY <2>2, <2>3
<1> QED  BY <1>1, <1>2, <1>3, <1>4, <1>n

LEMMA TrimmedLate ==
  ASSUME MapInv, MapInv', [Next]_vars, NEW e \in Events,
         StatusOf(e)' = "trimmed", StatusOf(e) # "trimmed"
  PROVE  \E d \in Events : StatusOf(d)' # "unpublished" /\ d >= e + StreamMaxLen
<1>1. /\ e \in Nat /\ added \in Nat /\ trimmed \in Nat /\ trimmed <= added
      /\ added' \in Nat /\ trimmed' \in Nat
  BY DispatcherAssumption DEF MapInv, TypeInv, TypeOK, Events
<1>2. AllStatuses /\ AllStatuses'
  <2>1. AllStatuses'
    BY StatusesFollow, PTL
  <2> QED  BY <2>1, StatusesFollow
<1>3. e \notin was' /\ e <= trimmed'
  BY <1>1, <1>2 DEF AllStatuses, StatusIs, MapInv, NoneSkipped
<1>4. ~(e <= trimmed)
  BY <1>1, <1>2, <1>3, Monotone DEF AllStatuses, StatusIs, MapInv
<1>5. added' \in Events /\ added' >= e + StreamMaxLen
  BY <1>3, <1>4, TrimsTheOld DEF MapInv
<1>6. ASSUME NEW d \in Events, d <= added'  PROVE StatusOf(d)' # "unpublished"
  BY <1>1, <1>2, <1>6, DispatcherAssumption DEF AllStatuses, StatusIs, Events
<1>7. PICK d \in Events : d = added'
  BY <1>5
<1> QED  BY <1>1, <1>5, <1>6, <1>7

\* An event is handed to at most one dispatcher, once; then it is settled or it
\* is abandoned for ever, and only an old one is trimmed unread (EventDelivery).
THEOREM DispatcherImplementsDelivery == Spec => ImplementsDelivery
<1>1. Init => Delivery!Init
  BY DispatcherAssumption DEF Init, Delivery!Init, StatusOf, Events
<1>2. Init => SettleInv /\ OnlyDelivered /\ NoneSkipped
  BY DEF Init, SettleInv, KeptOrFated, FatedBeforeAck, AckState, OnlyDelivered, NoneSkipped,
         Events
<1>3. MapInv /\ [Next]_vars => MapInv'
  BY TypeStep, GetsReadyToAck, AckingIsSettling, OnlyDeliveredStep, NoneSkippedStep
     DEF MapInv, SettleInv
<1>4. MapInv /\ MapInv' /\ [Next]_vars => Delivery!Next
  <2> SUFFICES ASSUME MapInv, MapInv', [Next]_vars  PROVE Delivery!Next
    OBVIOUS
  <2>1. \A e \in Events : StatusOf(e)' \in Delivery!Status
    <3>1. AllStatuses'
      BY StatusesFollow, PTL
    <3>2. ASSUME NEW e \in Events  PROVE e > added' \/ e <= added'
      BY DispatcherAssumption DEF MapInv, TypeInv, TypeOK, Events
    <3> QED  BY <3>1, <3>2 DEF AllStatuses, StatusIs, Delivery!Status
  <2> QED  BY <2>1, StatusMoves, TrimmedLate DEF Delivery!Next, Delivery!Published
<1> QED
  BY <1>1, <1>2, <1>3, <1>4, TypeInit, PTL DEF Spec, MapInv, ImplementsDelivery, Delivery!Spec

(***************************************************************************)
(* What is abandoned.  A stop pays for two events before it costs any: the *)
(* one in the dispatcher's hand and the one it reads after.  So a table    *)
(* lists, beside the abandoned events, what each stopped dispatcher can    *)
(* still abandon, its stop having paid for it: one event while it runs,    *)
(* and one more while it is between two attempts, because it then goes on  *)
(* to read.  No step makes the table longer than the bill.                 *)
(***************************************************************************)
AbandonedEvents == {e \in Events : Abandoned(e)}
StoppedWorkers == {w \in Workers : stop[w] /\ st[w] \notin {"off", "ended"}}
StoppedInRetries == {w \in Workers : stop[w] /\ st[w] \in {"post", "sleep"}}

Table(A, B, C) == ({"lost"} \X A) \cup ({"last"} \X B) \cup ({"retried"} \X C)
Charged == Table(AbandonedEvents, StoppedWorkers, StoppedInRetries)
Bill == ends["crash"] + 2 * ends["stop"] + faults

StartsUnstopped == \A w \in Workers : st[w] = "off" => ~stop[w]
ChargeInv == AtMost(Charged, Bill) /\ StartsUnstopped

\* An event is abandoned by the dispatcher that lets go of it.
LEMMA AbandonsItsOwn ==
  ASSUME TypeInv, NEW w \in Workers, pel' \subseteq pel,
         \A v \in Workers \ {w} : msg'[v] = msg[v]
  PROVE  /\ AbandonedEvents' \subseteq AbandonedEvents \cup {msg[w]}
         /\ msg'[w] = msg[w] \/ msg[w] = NoEvent => AbandonedEvents' \subseteq AbandonedEvents
         /\ msg[w] \notin pel' => AbandonedEvents' \subseteq AbandonedEvents
<1>1. ASSUME NEW e \in Events, Abandoned(e)', ~Abandoned(e)
      PROVE  e = msg[w] /\ e # msg'[w] /\ e # NoEvent /\ e \in pel'
  BY <1>1, DispatcherAssumption DEF Abandoned, Held, Events
<1>2. AbandonedEvents' = {e \in Events : Abandoned(e)'}
  BY DEF AbandonedEvents, Events
<1> QED  BY <1>1, <1>2 DEF AbandonedEvents

\* Handing out an entry abandons it at most, and only if nobody holds it then.
LEMMA ReadAbandons ==
  ASSUME TypeInv, NEW w \in Workers, NEW e \in Unread, Deliver(e),
         \A v \in Workers \ {w} : msg'[v] = msg[v], msg[w] = NoEvent
  PROVE  /\ AbandonedEvents' \subseteq AbandonedEvents \cup {e}
         /\ msg'[w] = e => AbandonedEvents' \subseteq AbandonedEvents
<1>1. ASSUME NEW d \in Events, Abandoned(d)', ~Abandoned(d)
      PROVE  d = e /\ d # msg'[w]
  BY <1>1, DispatcherAssumption DEF Abandoned, Held, Events, Deliver
<1>2. AbandonedEvents' = {d \in Events : Abandoned(d)'}
  BY DEF AbandonedEvents, Events
<1> QED  BY <1>1, <1>2 DEF AbandonedEvents

\* A dispatcher's step changes what the other dispatchers can still abandon in
\* nothing, and its own part as where it is and its stop event say.
LEMMA StoppedFollow ==
  ASSUME NEW w \in Workers, \A v \in Workers \ {w} : st'[v] = st[v] /\ stop'[v] = stop[v]
  PROVE  /\ StoppedWorkers' \subseteq StoppedWorkers \cup {w}
         /\ StoppedInRetries' \subseteq StoppedInRetries \cup {w}
         /\ ~stop'[w] \/ st'[w] \in {"off", "ended"}
              => StoppedWorkers' \subseteq StoppedWorkers \ {w}
         /\ ~stop'[w] \/ st'[w] \notin {"post", "sleep"}
              => StoppedInRetries' \subseteq StoppedInRetries \ {w}
         /\ stop'[w] = stop[w] /\ st[w] \notin {"off", "ended"}
              => StoppedWorkers' \subseteq StoppedWorkers
         /\ stop'[w] = stop[w] /\ st[w] \in {"post", "sleep"}
              => StoppedInRetries' \subseteq StoppedInRetries
  BY DEF StoppedWorkers, StoppedInRetries

\* What a stop, a crash or a fault adds to the bill.
LEMMA BillFollows ==
  ASSUME TypeInv
  PROVE  /\ Bill \in Nat
         /\ UNCHANGED <<ends, faults>> => Bill' = Bill
         /\ UNCHANGED ends /\ Fault => Bill' = Bill + 1
         /\ UNCHANGED faults /\ Ends("crash") => Bill' = Bill + 1
         /\ UNCHANGED faults /\ Ends("stop") => Bill' = Bill + 2
<1>1. ends \in [Endings -> Nat] /\ faults \in Nat
  BY DEF TypeInv, TypeOK
<1>2. ends["crash"] \in Nat /\ ends["stop"] \in Nat
  BY <1>1 DEF Endings
<1>3. Ends("crash") => ends'["crash"] = ends["crash"] + 1 /\ ends'["stop"] = ends["stop"]
  BY <1>1 DEF Ends, Endings
<1>4. Ends("stop") => ends'["crash"] = ends["crash"] /\ ends'["stop"] = ends["stop"] + 1
  BY <1>1 DEF Ends, Endings
<1>5. Bill' = ends'["crash"] + 2 * ends'["stop"] + faults'
  BY DEF Bill
<1>6. Ends("stop") /\ UNCHANGED faults => Bill' = Bill + 2
  BY <1>1, <1>2, <1>4, <1>5 DEF Bill
<1>7. Ends("crash") /\ UNCHANGED faults => Bill' = Bill + 1
  BY <1>1, <1>2, <1>3, <1>5 DEF Bill
<1>8. UNCHANGED ends /\ Fault => Bill' = Bill + 1
  BY <1>1, <1>2, <1>5 DEF Bill, Fault
<1> QED  BY <1>1, <1>2, <1>5, <1>6, <1>7, <1>8 DEF Bill

LEMMA ChargeInit == Init => ChargeInv
<1> SUFFICES ASSUME Init PROVE ChargeInv
  OBVIOUS
<1>1. Charged = {}
  BY DEF Init, Charged, Table, AbandonedEvents, Abandoned, StoppedWorkers, StoppedInRetries
<1>2. Bill = 0 /\ StartsUnstopped
  BY DEF Init, Bill, Endings, StartsUnstopped
<1> QED  BY <1>1, <1>2, CountNone DEF ChargeInv

\* A step of one dispatcher that changes no other, in the words of the lemmas.
LEMMA OthersKeep ==
  ASSUME TypeInv, NEW w \in Workers,
         \/ Start(w) \/ Read(w) \/ ReadRaises(w) \/ Inspect(w) \/ Post(w)
         \/ StopBeforePost(w) \/ Wake(w) \/ Ack(w) \/ AckRaises(w) \/ Stop(w) \/ Exit(w)
         \/ Crash(w)
  PROVE  \A v \in Workers \ {w} : st'[v] = st[v] /\ stop'[v] = stop[v] /\ msg'[v] = msg[v]
<1> USE DEF TypeInv, TypeOK, Goto
<1>1. CASE Start(w) \/ Read(w) \/ ReadRaises(w) \/ Inspect(w) \/ StopBeforePost(w) \/ Wake(w)
  BY <1>1 DEF Start, Read, ReadRaises, Inspect, StopBeforePost, Release, Wake
<1>2. CASE Post(w) \/ AckRaises(w)
  BY <1>2 DEF Post, AckRaises, Retry, Release
<1>3. CASE Ack(w) \/ Stop(w) \/ Exit(w) \/ Crash(w)
  BY <1>3 DEF Ack, Stop, Exit, Crash, Leave, Release
<1> QED  BY <1>1, <1>2, <1>3

\* What a step may do to the columns for what it adds to the bill.
LEMMA StepPaid ==
  ASSUME Bill \in Nat, AtMost(Charged, Bill), NEW x, NEW w,
         \/ /\ AbandonedEvents' \subseteq AbandonedEvents
            /\ StoppedWorkers' \subseteq StoppedWorkers
            /\ StoppedInRetries' \subseteq StoppedInRetries
            /\ Bill' = Bill \/ Bill' = Bill + 1
         \/ /\ AbandonedEvents' \subseteq AbandonedEvents \cup {x}
            /\ StoppedWorkers' \subseteq StoppedWorkers
            /\ StoppedInRetries' \subseteq StoppedInRetries
            /\ Bill' = Bill + 1
         \/ /\ AbandonedEvents' \subseteq AbandonedEvents
            /\ StoppedWorkers' \subseteq StoppedWorkers
            /\ StoppedInRetries' \subseteq StoppedInRetries \cup {w}
            /\ Bill' = Bill + 1
         \/ /\ AbandonedEvents' \subseteq AbandonedEvents
            /\ StoppedWorkers' \subseteq StoppedWorkers \cup {w}
            /\ StoppedInRetries' \subseteq StoppedInRetries \cup {w}
            /\ Bill' = Bill + 2
         \/ /\ AbandonedEvents' \subseteq AbandonedEvents \cup {x}
            /\ StoppedWorkers' \subseteq StoppedWorkers \ {w} /\ w \in StoppedWorkers
            /\ StoppedInRetries' \subseteq StoppedInRetries
            /\ Bill' = Bill
         \/ /\ AbandonedEvents' \subseteq AbandonedEvents \cup {x}
            /\ StoppedWorkers' \subseteq StoppedWorkers
            /\ StoppedInRetries' \subseteq StoppedInRetries \ {w} /\ w \in StoppedInRetries
            /\ Bill' = Bill
  PROVE  AtMost(Charged', Bill')
<1> DEFINE S == Charged
           T == Charged'
           b == Bill
           A == AbandonedEvents
           B == StoppedWorkers
           C == StoppedInRetries
<1>t. S = Table(A, B, C) /\ T = Table(A', B', C')
  BY DEF Charged
<1>b. b \in Nat /\ AtMost(S, b)
  OBVIOUS
<1> HIDE DEF S, T, b, A, B, C
<1>1. ASSUME T \subseteq S  PROVE AtMost(T, b) /\ AtMost(T, b + 1)
  BY <1>b, <1>1, CountNoMore
<1>2. ASSUME NEW y, T \subseteq S \cup {y}  PROVE AtMost(T, b + 1)
  BY <1>b, <1>2, CountOneMore
<1>3. ASSUME NEW y, NEW z, T \subseteq (S \cup {y}) \cup {z}  PROVE AtMost(T, b + 2)
  <2>1. AtMost(S \cup {y}, b + 1)
    BY <1>b, CountOneMore
  <2>2. b + 1 \in Nat
    BY <1>b
  <2>3. AtMost(T, (b + 1) + 1)
    BY <1>3, <2>1, <2>2, CountOneMore
  <2>4. (b + 1) + 1 = b + 2
    BY <1>b
  <2> QED  BY <2>3, <2>4
<1>4. ASSUME NEW y, NEW z \in S, T \subseteq (S \ {z}) \cup {y}  PROVE AtMost(T, b)
  BY <1>b, <1>4, CountExchange
<1>5. /\ A' \subseteq A /\ B' \subseteq B /\ C' \subseteq C => T \subseteq S
      /\ A' \subseteq A \cup {x} /\ B' \subseteq B /\ C' \subseteq C
           => T \subseteq S \cup {<<"lost", x>>}
      /\ A' \subseteq A /\ B' \subseteq B /\ C' \subseteq C \cup {w}
           => T \subseteq S \cup {<<"retried", w>>}
      /\ A' \subseteq A /\ B' \subseteq B \cup {w} /\ C' \subseteq C \cup {w}
           => T \subseteq (S \cup {<<"last", w>>}) \cup {<<"retried", w>>}
  BY <1>t DEF Table
<1>6. /\ A' \subseteq A \cup {x} /\ B' \subseteq B \ {w} /\ C' \subseteq C
           => T \subseteq (S \ {<<"last", w>>}) \cup {<<"lost", x>>}
      /\ A' \subseteq A \cup {x} /\ B' \subseteq B /\ C' \subseteq C \ {w}
           => T \subseteq (S \ {<<"retried", w>>}) \cup {<<"lost", x>>}
  BY <1>t DEF Table
<1>7. (w \in B => <<"last", w>> \in S) /\ (w \in C => <<"retried", w>> \in S)
  BY <1>t DEF Table
<1>8. T = Charged' /\ b = Bill
  BY DEF T, b
<1> QED
  BY <1>1, <1>2, <1>3, <1>4, <1>5, <1>6, <1>7, <1>8 DEF A, B, C

\* No step makes the table longer than the bill.
LEMMA ChargeStep ==
  ASSUME TypeInv, AtMost(Charged, Bill), StartsUnstopped, [Next]_vars
  PROVE  AtMost(Charged', Bill')
<1> DEFINE A == AbandonedEvents
           B == StoppedWorkers
           C == StoppedInRetries
<1>t. Bill \in Nat /\ AtMost(Charged, Bill)
  BY BillFollows
<1>1. CASE Publish \/ UNCHANGED vars
  <2>1. A' = A /\ B' = B /\ C' = C
    BY <1>1 DEF Publish, vars, groupVars, workerVars, AbandonedEvents, Abandoned, Held,
                StoppedWorkers, StoppedInRetries
  <2>2. Bill' = Bill
    BY <1>1, BillFollows DEF Publish, vars
  <2> QED  BY <1>t, <2>1, <2>2, StepPaid
<1>2. ASSUME NEW w \in Workers, Start(w) \/ Post(w) \/ Wake(w) \/ Ack(w)
      PROVE  AtMost(Charged', Bill')
  <2>1. A' \subseteq A
    <3>1. CASE Start(w) \/ Post(w) \/ Wake(w)
      <4>1. pel' = pel /\ msg' = msg
        BY <3>1 DEF Start, Post, Wake, groupVars, workerVars
      <4> QED  BY <1>2, <4>1, AbandonsItsOwn
    <3>2. CASE Ack(w)
      <4>1. pel' \subseteq pel /\ msg[w] \notin pel'
        BY <3>2 DEF Ack
      <4> QED  BY <1>2, <4>1, AbandonsItsOwn, OthersKeep
    <3> QED  BY <1>2, <3>1, <3>2
  <2>2. B' \subseteq B /\ C' \subseteq C
    <3>1. stop'[w] = stop[w] /\ (st[w] = "off" => ~stop[w])
      BY <1>2 DEF Start, Post, Wake, Ack, workerVars, StartsUnstopped
    <3>2. CASE Start(w) \/ Ack(w)
      <4>1. /\ st[w] = "off" \/ st[w] \in AckState
            /\ st'[w] = "reading"
        BY <3>2 DEF Start, Ack, Goto, TypeInv, TypeOK
      <4> QED  BY <1>2, <3>1, <4>1, OthersKeep, StoppedFollow DEF AckState
    <3>3. CASE Post(w) \/ Wake(w)
      <4>1. (st[w] = "post" /\ ~stop[w]) \/ st[w] = "sleep"
        BY <3>3 DEF Post, Wake
      <4> QED  BY <1>2, <3>1, <4>1, OthersKeep, StoppedFollow
    <3> QED  BY <1>2, <3>2, <3>3
  <2>3. Bill' = Bill
    BY <1>2, BillFollows DEF Start, Post, Wake, Ack
  <2> QED  BY <1>t, <2>1, <2>2, <2>3, StepPaid
<1>3. ASSUME NEW w \in Workers, Read(w)  PROVE AtMost(Charged', Bill')
  <2>1. A' \subseteq A
    <3>1. PICK e \in Unread : Deliver(e) /\ msg' = [msg EXCEPT ![w] = e]
      BY <1>3 DEF Read
    <3>2. msg'[w] = e /\ msg[w] = NoEvent
      BY <1>3, <3>1 DEF Read, TypeInv, TypeOK, HoldsDelivered, EmptyHanded
    <3> QED  BY <1>3, <3>1, <3>2, OthersKeep, ReadAbandons
  <2>2. stop'[w] = stop[w] /\ st[w] = "reading" /\ st'[w] = "got"
    BY <1>3 DEF Read, Goto, TypeInv, TypeOK
  <2>3. B' \subseteq B /\ C' \subseteq C
    BY <1>3, <2>2, OthersKeep, StoppedFollow
  <2>4. Bill' = Bill
    BY <1>3, BillFollows DEF Read
  <2> QED  BY <1>t, <2>1, <2>3, <2>4, StepPaid
<1>4. ASSUME NEW w \in Workers, ReadRaises(w)  PROVE AtMost(Charged', Bill')
  <2>1. \E x : A' \subseteq A \cup {x}
    <3>1. msg' = msg /\ msg[w] = NoEvent
      BY <1>4 DEF ReadRaises, TypeInv, TypeOK, HoldsDelivered, EmptyHanded
    <3>2. CASE UNCHANGED pel
      BY <1>4, <3>1, <3>2, AbandonsItsOwn
    <3>3. CASE \E e \in Unread : Deliver(e)
      <4>1. PICK e \in Unread : Deliver(e)
        BY <3>3
      <4> QED  BY <1>4, <3>1, <4>1, ReadAbandons
    <3> QED  BY <1>4, <3>2, <3>3 DEF ReadRaises, groupVars
  <2>2. stop'[w] = stop[w] /\ st'[w] = "ended"
    BY <1>4 DEF ReadRaises, Goto, TypeInv, TypeOK
  <2>3. B' \subseteq B /\ C' \subseteq C
    BY <1>4, <2>2, OthersKeep, StoppedFollow
  <2>4. Bill' = Bill + 1
    BY <1>4, BillFollows DEF ReadRaises
  <2> QED  BY <1>t, <2>1, <2>3, <2>4, StepPaid
<1>5. ASSUME NEW w \in Workers, Inspect(w)  PROVE AtMost(Charged', Bill')
  <2>1. /\ UNCHANGED <<pel, stop>> /\ st[w] = "got"
        /\ IF stop[w] THEN st'[w] = "ended"
           ELSE msg' = msg
    BY <1>5 DEF Inspect, Goto, groupVars, TypeInv, TypeOK
  <2>2. Bill' = Bill
    BY <1>5, BillFollows DEF Inspect
  <2>3. CASE stop[w]
    <3>1. A' \subseteq A \cup {msg[w]}
      BY <1>5, <2>1, OthersKeep, AbandonsItsOwn
    <3>2. B' \subseteq B \ {w} /\ C' \subseteq C /\ w \in B
      BY <1>5, <2>1, <2>3, OthersKeep, StoppedFollow DEF StoppedWorkers
    <3> QED  BY <1>t, <2>2, <3>1, <3>2, StepPaid
  <2>4. CASE ~stop[w]
    <3>1. A' \subseteq A
      BY <1>5, <2>1, <2>4, OthersKeep, AbandonsItsOwn
    <3>2. B' \subseteq B /\ C' \subseteq C
      BY <1>5, <2>1, <2>4, OthersKeep, StoppedFollow
    <3> QED  BY <1>t, <2>2, <3>1, <3>2, StepPaid
  <2> QED  BY <2>3, <2>4
<1>6. ASSUME NEW w \in Workers, StopBeforePost(w)  PROVE AtMost(Charged', Bill')
  <2>1. UNCHANGED <<pel, stop>> /\ st[w] = "post" /\ stop[w] /\ st'[w] = "reading"
    BY <1>6 DEF StopBeforePost, Goto, groupVars, TypeInv, TypeOK
  <2>2. A' \subseteq A \cup {msg[w]}
    BY <1>6, <2>1, OthersKeep, AbandonsItsOwn
  <2>3. B' \subseteq B /\ C' \subseteq C \ {w} /\ w \in C
    BY <1>6, <2>1, OthersKeep, StoppedFollow DEF StoppedInRetries
  <2>4. Bill' = Bill
    BY <1>6, BillFollows DEF StopBeforePost
  <2> QED  BY <1>t, <2>2, <2>3, <2>4, StepPaid
<1>7. ASSUME NEW w \in Workers, AckRaises(w)  PROVE AtMost(Charged', Bill')
  <2>1. stop' = stop /\ st[w] \in AckState /\ pel' \subseteq pel
    BY <1>7 DEF AckRaises
  <2>2. Bill' = Bill + 1
    BY <1>7, BillFollows DEF AckRaises
  <2>3. B' \subseteq B
    BY <1>7, <2>1, OthersKeep, StoppedFollow DEF AckState
  <2>4. CASE st[w] = "ackDone"
    <3>1. A' \subseteq A
      <4>1. msg' = msg
        BY <1>7, <2>4 DEF AckRaises
      <4> QED  BY <1>7, <2>1, <4>1, AbandonsItsOwn
    <3>2. C' \subseteq C \cup {w}
      BY <1>7, OthersKeep, StoppedFollow
    <3> QED  BY <1>t, <2>2, <2>3, <3>1, <3>2, StepPaid
  <2>5. CASE st[w] # "ackDone"
    <3>1. A' \subseteq A \cup {msg[w]}
      BY <1>7, <2>1, OthersKeep, AbandonsItsOwn
    <3>2. st'[w] = "reading"
      BY <1>7, <2>5 DEF AckRaises, Goto, TypeInv, TypeOK
    <3>3. C' \subseteq C
      BY <1>7, <3>2, OthersKeep, StoppedFollow
    <3> QED  BY <1>t, <2>2, <2>3, <3>1, <3>3, StepPaid
  <2> QED  BY <2>4, <2>5
<1>8. ASSUME NEW w \in Workers, Stop(w)  PROVE AtMost(Charged', Bill')
  <2>1. A' \subseteq A
    <3>1. pel' = pel /\ msg' = msg
      BY <1>8 DEF Stop, groupVars
    <3> QED  BY <1>8, <3>1, AbandonsItsOwn
  <2>2. B' \subseteq B \cup {w} /\ C' \subseteq C \cup {w}
    BY <1>8, OthersKeep, StoppedFollow
  <2>3. Bill' = Bill + 2
    BY <1>8, BillFollows DEF Stop
  <2> QED  BY <1>t, <2>1, <2>2, <2>3, StepPaid
<1>9. ASSUME NEW w \in Workers, Exit(w)  PROVE AtMost(Charged', Bill')
  <2>1. pel' = pel /\ st'[w] = "off" /\ st[w] # "off" /\ stop[w] /\ msg'[w] = NoEvent
    BY <1>9 DEF Exit, Leave, Release, Goto, groupVars, TypeInv, TypeOK
  <2>2. A' \subseteq A \cup {msg[w]}
    BY <1>9, <2>1, OthersKeep, AbandonsItsOwn
  <2>3. B' \subseteq B \ {w} /\ C' \subseteq C
    BY <1>9, <2>1, OthersKeep, StoppedFollow
  <2>4. Bill' = Bill
    BY <1>9, BillFollows DEF Exit, Leave, Release
  <2>5. CASE st[w] = "ended"
    <3>1. A' \subseteq A
      <4>1. msg[w] = NoEvent
        BY <2>5 DEF TypeInv, HoldsDelivered, EmptyHanded
      <4> QED  BY <1>9, <2>1, <4>1, OthersKeep, AbandonsItsOwn
    <3> QED  BY <1>t, <2>3, <2>4, <3>1, StepPaid
  <2>6. CASE st[w] # "ended"
    <3>1. w \in B
      BY <2>1, <2>6 DEF StoppedWorkers
    <3> QED  BY <1>t, <2>2, <2>3, <2>4, <3>1, StepPaid
  <2> QED  BY <2>5, <2>6
<1>10. ASSUME NEW w \in Workers, Crash(w)  PROVE AtMost(Charged', Bill')
  <2>1. pel' = pel /\ st'[w] = "off"
    BY <1>10 DEF Crash, Leave, Release, Goto, groupVars, TypeInv, TypeOK
  <2>2. A' \subseteq A \cup {msg[w]}
    BY <1>10, <2>1, OthersKeep, AbandonsItsOwn
  <2>3. B' \subseteq B /\ C' \subseteq C
    BY <1>10, <2>1, OthersKeep, StoppedFollow
  <2>4. Bill' = Bill + 1
    BY <1>10, BillFollows DEF Crash, Leave, Release
  <2> QED  BY <1>t, <2>2, <2>3, <2>4, StepPaid
<1> QED
  BY EveryStep, <1>1, <1>2, <1>3, <1>4, <1>5, <1>6, <1>7, <1>8, <1>9, <1>10

\* A gateway process that starts has not been told to stop.
LEMMA UnstoppedStep ==
  ASSUME TypeInv, StartsUnstopped, [Next]_vars
  PROVE  StartsUnstopped'
<1>1. ASSUME NEW w \in Workers,
             \/ Start(w) \/ Read(w) \/ ReadRaises(w) \/ Inspect(w) \/ Post(w)
             \/ StopBeforePost(w) \/ Wake(w) \/ Ack(w) \/ AckRaises(w) \/ Stop(w)
      PROVE  st'[w] # "off" /\ \A v \in Workers \ {w} : st'[v] = st[v] /\ stop'[v] = stop[v]
  <2>1. CASE Post(w) \/ AckRaises(w)
    BY <2>1 DEF Post, AckRaises, Retry, Release, Goto, TypeInv, TypeOK
  <2>2. CASE \/ Start(w) \/ Read(w) \/ ReadRaises(w) \/ Inspect(w)
             \/ StopBeforePost(w) \/ Wake(w) \/ Ack(w) \/ Stop(w)
    BY <2>2 DEF Start, Read, ReadRaises, Inspect, StopBeforePost, Wake, Ack, Stop, Goto,
                TypeInv, TypeOK
  <2>3. \A v \in Workers \ {w} : st'[v] = st[v] /\ stop'[v] = stop[v]
    BY <1>1, OthersKeep
  <2> QED  BY <1>1, <2>1, <2>2, <2>3
<1>2. ASSUME NEW w \in Workers, Exit(w) \/ Crash(w)
      PROVE  ~stop'[w] /\ \A v \in Workers \ {w} : st'[v] = st[v] /\ stop'[v] = stop[v]
  BY <1>2 DEF Exit, Crash, Leave, Release, Goto, TypeInv, TypeOK
<1>3. Publish \/ UNCHANGED vars => UNCHANGED <<st, stop>>
  BY DEF Publish, vars, workerVars
<1> QED  BY EveryStep, <1>1, <1>2, <1>3 DEF StartsUnstopped

\* The entries abandoned are never more than the crashes, the stops and the Redis
\* faults account for (AbandonedAreCharged): no other interleaving of the gateways
\* loses an event.
THEOREM AbandonedAlwaysCharged == Spec => []AbandonedAreCharged
<1>1. TypeInv /\ ChargeInv => AbandonedAreCharged
  <2> SUFFICES ASSUME TypeInv, ChargeInv PROVE AbandonedAreCharged
    OBVIOUS
  <2> DEFINE f == [e \in AbandonedEvents |-> <<"lost", e>>]
  <2>1. Bill \in Nat /\ AtMost(Charged, Bill)
    BY BillFollows DEF ChargeInv
  <2>2. /\ f \in [AbandonedEvents -> Charged]
        /\ \A d, e \in AbandonedEvents : f[d] = f[e] => d = e
    BY DEF Charged, Table
  <2>3. AtMost(AbandonedEvents, Bill)
    BY <2>1, <2>2, CountMapped
  <2> QED  BY <2>3 DEF AtMost, AbandonedAreCharged, AbandonedEvents, Bill
<1>2. TypeInv /\ ChargeInv /\ [Next]_vars => ChargeInv'
  BY ChargeStep, UnstoppedStep DEF ChargeInv, AtMost
<1> QED
  BY <1>1, <1>2, TypeInit, TypeStep, ChargeInit, PTL DEF Spec
=============================================================================
