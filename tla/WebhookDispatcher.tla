--------------------------- MODULE WebhookDispatcher ---------------------------
(***************************************************************************)
(* The dispatchers of the gateway processes, which read the global stream  *)
(* as one consumer group and POST final events to their callback URLs.     *)
(*                                                                         *)
(* Entries of nanogate:outbound:all are numbered in the order of their     *)
(* XADDs; `trimmed' counts those that MAXLEN has removed from the front.   *)
(* The group keeps the id it delivered last and the set of entries that    *)
(* are delivered and not acknowledged.  Only ">" is ever read, so neither  *)
(* the consumers' names nor who owns a pending entry matters.              *)
(***************************************************************************)
EXTENDS Integers, FiniteSets

CONSTANTS
  Workers,      \* gateway processes, each with one dispatcher
  NoEvent,      \* no entry
  MaxEvents,    \* bound: entries of the global stream
  HasCallback,  \* the entries whose request carries a callbackUrl
  StreamMaxLen, \* MAXLEN of the global stream
  MaxRetries,   \* max_retries
  MaxExits,     \* bound: gateway processes that crash or are shut down
  MaxFaults     \* bound: Redis calls that raise

Events == 1 .. MaxEvents

ASSUME DispatcherAssumption ==
  /\ NoEvent \notin Nat
  /\ HasCallback \subseteq Events
  /\ MaxEvents \in Nat /\ StreamMaxLen \in Nat /\ MaxRetries \in Nat \ {0}
  /\ MaxExits \in Nat /\ MaxFaults \in Nat

VARIABLES
  added,      \* entries added so far
  trimmed,    \* entries removed from the front
  group,      \* does the consumer group exist
  delivered,  \* its last-delivered id
  pel,        \* its pending entries
  st,         \* where a dispatcher is
  msg,        \* the entry it holds
  attempt,    \* attempts it has finished for that entry
  stop,       \* its _stop_event
  posts,      \* history: POSTs made for an entry
  taken,      \* history: POSTs the callback endpoint has taken for an entry
  mishaps,    \* history: replies of taken POSTs lost, and XACKs raised after one
  fate,       \* history: how the dispatcher settled an entry
  was,        \* history: entries once delivered to a dispatcher
  ends,       \* counts: gateway processes that were stopped, that crashed
  faults      \* counts: Redis calls that raised

streamVars   == <<added, trimmed>>
groupVars    == <<group, delivered, pel>>
workerVars   == <<st, msg, attempt, stop>>
callbackVars == <<posts, taken, mishaps, fate>>
vars == <<streamVars, groupVars, workerVars, callbackVars, was, ends, faults>>

WorkerState ==
  {"off", "reading", "got", "post", "sleep", "ackNone", "ackDone", "ackGaveUp", "ended"}
Endings == {"stop", "crash"}
Fate == {"none", "noCallback", "delivered", "gaveUp"}

TypeOK ==
  /\ added \in 0 .. MaxEvents /\ trimmed \in 0 .. added
  /\ group \in BOOLEAN /\ delivered \in 0 .. added /\ pel \subseteq 1 .. delivered
  /\ st \in [Workers -> WorkerState]
  /\ msg \in [Workers -> Events \cup {NoEvent}]
  /\ attempt \in [Workers -> 0 .. MaxRetries - 1]
  /\ stop \in [Workers -> BOOLEAN]
  /\ posts \in [Events -> Nat]
  /\ taken \in [Events -> Nat]
  /\ mishaps \in [Events -> Nat]
  /\ fate \in [Events -> Fate]
  /\ was \subseteq 1 .. delivered
  /\ ends \in [Endings -> Nat] /\ faults \in Nat

Init ==
  /\ added = 0 /\ trimmed = 0
  /\ group = FALSE /\ delivered = 0 /\ pel = {}
  /\ st = [w \in Workers |-> "off"]
  /\ msg = [w \in Workers |-> NoEvent]
  /\ attempt = [w \in Workers |-> 0]
  /\ stop = [w \in Workers |-> FALSE]
  /\ posts = [e \in Events |-> 0]
  /\ taken = [e \in Events |-> 0]
  /\ mishaps = [e \in Events |-> 0]
  /\ fate = [e \in Events |-> "none"]
  /\ was = {} /\ ends = [k \in Endings |-> 0] /\ faults = 0

Goto(w, s) == st' = [st EXCEPT ![w] = s]

\* The dispatcher is through with its entry; its locals are out of scope.
Release(w) ==
  /\ msg' = [msg EXCEPT ![w] = NoEvent]
  /\ attempt' = [attempt EXCEPT ![w] = 0]

Fault == faults < MaxFaults /\ faults' = faults + 1
Ends(k) ==
  /\ ends["stop"] + ends["crash"] < MaxExits
  /\ ends' = [ends EXCEPT ![k] = @ + 1]

(***************************************************************************)
(* The agents: publish_event(..., global_event=True).                      *)
(***************************************************************************)

\* MAXLEN is approximate: the front may be trimmed, never below StreamMaxLen.
Publish ==
  /\ added < MaxEvents
  /\ added' = added + 1
  /\ \E n \in trimmed .. added' :
       /\ n = trimmed \/ added' - n >= StreamMaxLen
       /\ trimmed' = n
  /\ UNCHANGED <<groupVars, workerVars, callbackVars, was, ends, faults>>

(***************************************************************************)
(* start                                                                   *)
(***************************************************************************)

\* Mutant: the group is created at the end of the stream, at "$".
StartFromNow(w) ==
  /\ st[w] = "off"
  /\ group' = TRUE
  /\ delivered' = IF group THEN delivered ELSE added
  /\ Goto(w, "reading")
  /\ UNCHANGED <<streamVars, pel, msg, attempt, stop, callbackVars, was, ends, faults>>

\* init_consumer_group: XGROUP CREATE from id 0; an existing group is kept.
Start(w) ==
  /\ st[w] = "off"
  /\ group' = TRUE
  /\ Goto(w, "reading")
  /\ UNCHANGED <<streamVars, delivered, pel, msg, attempt, stop, callbackVars, was,
                 ends, faults>>

\* Mutant: reading claims pending entries too, whoever works on them.
UnreadOrPending ==
  {e \in Events : (e > delivered \/ e \in pel) /\ e > trimmed /\ e <= added}

\* The entries that XREADGROUP ">" would still deliver.
Unread == {e \in Events : e > delivered /\ e > trimmed /\ e <= added}

\* XREADGROUP with count=1: the oldest unread entry becomes pending.
NextUnread(e) == e \in Unread /\ \A d \in Unread : e <= d

Deliver(e) ==
  /\ delivered' = e
  /\ pel' = pel \cup {e}
  /\ was' = was \cup {e}

Read(w) ==
  /\ st[w] = "reading"
  /\ \E e \in Unread :
       /\ NextUnread(e)
       /\ Deliver(e)
       /\ msg' = [msg EXCEPT ![w] = e]
  /\ Goto(w, "got")
  /\ UNCHANGED <<streamVars, group, attempt, stop, callbackVars, ends, faults>>

\* An exception of the group's creation or of XREADGROUP, its effect done or
\* not, ends start(): nobody restarts the task.
ReadRaises(w) ==
  /\ st[w] \in {"off", "reading"}
  /\ Fault
  /\ \/ UNCHANGED <<groupVars, was>>
     \/ st[w] = "off" /\ group' = TRUE /\ UNCHANGED <<delivered, pel, was>>
     \/ /\ st[w] = "reading"
        /\ \E e \in Unread : NextUnread(e) /\ Deliver(e)
        /\ UNCHANGED group
  /\ Goto(w, "ended")
  /\ UNCHANGED <<streamVars, msg, attempt, stop, callbackVars, ends>>

\* The stop event is tested, then the callback URL.
Inspect(w) ==
  /\ st[w] = "got"
  /\ \/ /\ stop[w]
        /\ Goto(w, "ended")
        /\ msg' = [msg EXCEPT ![w] = NoEvent]
        /\ UNCHANGED fate
     \/ /\ ~stop[w] /\ msg[w] \notin HasCallback
        /\ Goto(w, "ackNone")
        /\ fate' = [fate EXCEPT ![msg[w]] = "noCallback"]
        /\ UNCHANGED msg
     \/ /\ ~stop[w] /\ msg[w] \in HasCallback
        /\ Goto(w, "post")
        /\ UNCHANGED <<msg, fate>>
  /\ attempt' = [attempt EXCEPT ![w] = 0]
  /\ UNCHANGED <<streamVars, groupVars, stop, posts, taken, mishaps, was, ends, faults>>

(***************************************************************************)
(* _process_event                                                          *)
(***************************************************************************)

\* Mutant: backing off does not look at the number of attempts.
RetryForever(w) == Goto(w, "sleep") /\ UNCHANGED fate

\* An attempt has failed: back off, or give up after the last one.
Retry(w) ==
  /\ Goto(w, IF attempt[w] < MaxRetries - 1 THEN "sleep" ELSE "ackGaveUp")
  /\ fate' = IF attempt[w] < MaxRetries - 1 \/ fate[msg[w]] = "delivered" THEN fate
             ELSE [fate EXCEPT ![msg[w]] = "gaveUp"]

\* Mutant: a delivery is not returned from, the loop of attempts goes on.
PostWithoutReturn(w) ==
  LET e == msg[w] IN
  /\ st[w] = "post" /\ ~stop[w]
  /\ posts' = [posts EXCEPT ![e] = @ + 1]
  /\ \/ taken' = [taken EXCEPT ![e] = @ + 1]
     \/ UNCHANGED taken
  /\ Retry(w)
  /\ UNCHANGED <<streamVars, groupVars, msg, attempt, stop, mishaps, was, ends, faults>>

\* The endpoint takes the event and says so; it takes it and the reply is lost
\* or late; it refuses, or is never reached.
Post(w) ==
  LET e == msg[w] IN
  /\ st[w] = "post" /\ ~stop[w]
  /\ posts' = [posts EXCEPT ![e] = @ + 1]
  /\ \/ /\ taken' = [taken EXCEPT ![e] = @ + 1]
        /\ fate' = [fate EXCEPT ![e] = "delivered"]
        /\ Goto(w, "ackDone")
        /\ UNCHANGED mishaps
     \/ /\ taken' = [taken EXCEPT ![e] = @ + 1]
        /\ mishaps' = [mishaps EXCEPT ![e] = @ + 1]
        /\ Retry(w)
     \/ /\ UNCHANGED <<taken, mishaps>>
        /\ Retry(w)
  /\ UNCHANGED <<streamVars, groupVars, msg, attempt, stop, was, ends, faults>>

\* Mutant: a stopped dispatcher acknowledges the entry it gives back.
StopAcks(w) ==
  /\ st[w] = "post" /\ stop[w]
  /\ pel' = pel \ {msg[w]}
  /\ Goto(w, "reading")
  /\ Release(w)
  /\ UNCHANGED <<streamVars, group, delivered, stop, callbackVars, was, ends, faults>>

\* Stopped before an attempt: the entry is left pending.
StopBeforePost(w) ==
  /\ st[w] = "post" /\ stop[w]
  /\ Goto(w, "reading")
  /\ Release(w)
  /\ UNCHANGED <<streamVars, groupVars, stop, callbackVars, was, ends, faults>>

Wake(w) ==
  /\ st[w] = "sleep"
  /\ Goto(w, "post")
  /\ attempt' = [attempt EXCEPT ![w] = @ + 1]
  /\ UNCHANGED <<streamVars, groupVars, msg, stop, callbackVars, was, ends, faults>>

AckState == {"ackNone", "ackDone", "ackGaveUp"}

\* Mutant: exhausted retries are not acknowledged.
AckUnlessGaveUp(w) ==
  /\ st[w] \in AckState
  /\ pel' = IF st[w] = "ackGaveUp" THEN pel ELSE pel \ {msg[w]}
  /\ Goto(w, "reading")
  /\ Release(w)
  /\ UNCHANGED <<streamVars, group, delivered, stop, callbackVars, was, ends, faults>>

Ack(w) ==
  /\ st[w] \in AckState
  /\ pel' = pel \ {msg[w]}
  /\ Goto(w, "reading")
  /\ Release(w)
  /\ UNCHANGED <<streamVars, group, delivered, stop, callbackVars, was, ends, faults>>

\* XACK raises, its effect done or not.  After a 2xx this is inside the try of
\* the attempt and counts as a failed attempt; otherwise start() logs it.
AckRaises(w) ==
  /\ st[w] \in AckState
  /\ Fault
  /\ pel' \in {pel, pel \ {msg[w]}}
  /\ IF st[w] = "ackDone"
     THEN /\ Retry(w)
          /\ mishaps' = [mishaps EXCEPT ![msg[w]] = @ + 1]
          /\ UNCHANGED <<msg, attempt>>
     ELSE /\ Goto(w, "reading")
          /\ Release(w)
          /\ UNCHANGED <<mishaps, fate>>
  /\ UNCHANGED <<streamVars, group, delivered, stop, posts, taken, was, ends>>

(***************************************************************************)
(* The gateway process.                                                    *)
(***************************************************************************)

\* Shutdown: stop() ...
Stop(w) ==
  /\ st[w] # "off" /\ ~stop[w]
  /\ Ends("stop")
  /\ stop' = [stop EXCEPT ![w] = TRUE]
  /\ UNCHANGED <<streamVars, groupVars, st, msg, attempt, callbackVars, was, faults>>

Leave(w) ==
  /\ Goto(w, "off")
  /\ Release(w)
  /\ stop' = [stop EXCEPT ![w] = FALSE]
  /\ UNCHANGED <<streamVars, groupVars, callbackVars, was, faults>>

\* ... then the task gets five seconds before it is cancelled.
Exit(w) == st[w] # "off" /\ stop[w] /\ Leave(w) /\ UNCHANGED ends

Crash(w) ==
  /\ st[w] # "off" /\ ~stop[w]
  /\ Ends("crash")
  /\ Leave(w)

-----------------------------------------------------------------------------
Step(w) ==
  \/ Start(w) \/ Read(w) \/ Inspect(w) \/ Post(w) \/ StopBeforePost(w) \/ Wake(w)
  \/ Ack(w) \/ Exit(w)

Next ==
  \/ Publish
  \/ \E w \in Workers : Step(w) \/ ReadRaises(w) \/ AckRaises(w) \/ Stop(w) \/ Crash(w)

Spec == Init /\ [][Next]_vars

\* A dispatcher is a task of a running event loop, its POSTs time out, and a
\* gateway process that ended is started again.
FairSpec == Spec /\ \A w \in Workers : WF_vars(Step(w))

(***************************************************************************)
(* Properties                                                              *)
(***************************************************************************)
Held(e) == \E w \in Workers : msg[w] = e
Abandoned(e) == e \in pel /\ ~Held(e)

\* The group spreads the events: no two dispatchers work on the same one.
OneDispatcher ==
  \A v, w \in Workers : msg[v] = msg[w] /\ msg[v] # NoEvent => v = w

\* What was delivered to a dispatcher and is no longer pending is settled: no
\* acknowledgement hides an event that was never tried.
AckedMeansSettled == \A e \in was \ pel : fate[e] # "none" \/ Held(e)

\* An event costs its endpoint at most max_retries POSTs, through restarts too.
AttemptsBounded == \A e \in Events : posts[e] <= MaxRetries

\* An endpoint takes an event once, and once more for each reply that was lost
\* and each XACK that raised: nothing else makes the dispatcher POST again.
DuplicatesAreCharged == \A e \in Events : taken[e] <= 1 + mishaps[e]

\* An event that stays pending and is in nobody's hands is paid for: a crash costs
\* the one in hand, a Redis call that raised costs one, and a clean stop up to two,
\* the one whose retries it cuts short and the one read after it.
AbandonedAreCharged ==
  Cardinality({e \in Events : Abandoned(e)}) <= ends["crash"] + 2 * ends["stop"] + faults

\* The task of the dispatcher was ended by an exception, in a gateway that runs on:
\* only another start of the process makes it read again.
Deaf(w) == st[w] = "ended" /\ ~stop[w]

\* Unless all dispatchers are ended by exceptions for good, an event is settled,
\* abandoned or trimmed unread: no endpoint, however it answers, blocks them, and a
\* restarted dispatcher, or the one that is left, goes on with the events after.
EventuallySettled ==
  []<>(\E w \in Workers : ~Deaf(w)) =>
    \A e \in Events :
      e <= added ~> (e \in was /\ ~Held(e)) \/ (e <= trimmed /\ e \notin was)

\* The class comment's guarantee: a published event with a callback, still on the
\* stream, is POSTed until its endpoint takes it or the retries are used up.
GuaranteedDelivery ==
  \A e \in HasCallback : e <= added ~> fate[e] \in {"delivered", "gaveUp"} \/ e <= trimmed

\* What has become of an event, in EventDelivery's terms.
StatusOf(e) ==
  CASE e > added                       -> "unpublished"
    [] e <= added /\ Held(e)           -> "held"
    [] e <= added /\ Abandoned(e) /\ fate[e] = "none" -> "abandoned"
    [] e \in was /\ ~Held(e) /\ fate[e] # "none"      -> "settled"
    [] e <= added /\ e \notin was /\ (e <= trimmed \/ e <= delivered) -> "trimmed"
    [] OTHER                           -> "queued"

\* The dispatchers implement EventDelivery: an event is handed out at most once,
\* and is then settled or abandoned for ever.
Delivery == INSTANCE EventDelivery WITH status <- [e \in Events |-> StatusOf(e)]
ImplementsDelivery == Delivery!Spec
=============================================================================
