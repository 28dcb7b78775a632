----------------------------- MODULE EventDelivery -----------------------------
(***************************************************************************)
(* What the consumer group promises about the final events of the agents:  *)
(* each is handed to at most one dispatcher, once, and then it is settled  *)
(* (POSTed, given up or found to need no POST) or abandoned for ever.  The *)
(* stream forgets an event that nobody was handed only when StreamMaxLen   *)
(* newer ones are published.                                               *)
(***************************************************************************)
EXTENDS Naturals

CONSTANTS
  Events,       \* natural numbers, in the order of publication
  StreamMaxLen

VARIABLE status   \* what has become of each event

Status == {"unpublished", "queued", "trimmed", "held", "settled", "abandoned"}

TypeOK == status \in [Events -> Status]

Init == status = [e \in Events |-> "unpublished"]

\* Events change status together: publishing one may trim others, and a
\* dispatcher that dies abandons the one it holds.
Moves == { <<"unpublished", "queued">>, <<"unpublished", "trimmed">>,
           <<"queued", "trimmed">>, <<"queued", "held">>, <<"queued", "abandoned">>,
           <<"held", "settled">>, <<"held", "abandoned">> }

Published(e) == status[e] # "unpublished"

Next ==
  /\ status' \in [Events -> Status]
  /\ \A e \in Events :
       \/ status'[e] = status[e]
       \/ /\ <<status[e], status'[e]>> \in Moves
          /\ status'[e] = "trimmed" =>
               \E d \in Events : Published(d)' /\ d >= e + StreamMaxLen

Spec == Init /\ [][Next]_status
=============================================================================
