------------------------------- MODULE WorkQueue -------------------------------
(***************************************************************************)
(* What the bus promises about the requests of its tenants: each tenant's  *)
(* wait in one line and are handled one at a time, in the order in which   *)
(* they were accepted; what is handled is finished, or is lost, for ever,  *)
(* in the very step in which something goes wrong; and what goes wrong     *)
(* once costs one request at most.                                         *)
(***************************************************************************)
EXTENDS Naturals, Sequences

CONSTANTS Requests, Tenants, TenantOf

VARIABLES
  fate,     \* what has become of each request
  line,     \* the requests that wait, of each tenant
  troubles  \* how often something has gone wrong

Init ==
  /\ fate = [r \in Requests |-> "new"]
  /\ line = [t \in Tenants |-> <<>>]
  /\ troubles = 0

Accept(r) ==
  /\ fate[r] = "new"
  /\ fate' = [fate EXCEPT ![r] = "queued"]
  /\ line' = [line EXCEPT ![TenantOf[r]] = Append(@, r)]

First(t, f) ==
  /\ line[t] # <<>>
  /\ fate' = [fate EXCEPT ![Head(line[t])] = f]
  /\ line' = [line EXCEPT ![t] = Tail(@)]

Handle(t) ==
  /\ \A r \in Requests : TenantOf[r] = t => fate[r] # "handled"
  /\ First(t, "handled")

HandledBecomes(r, f) ==
  /\ fate[r] = "handled"
  /\ fate' = [fate EXCEPT ![r] = f]
  /\ UNCHANGED line

\* Work goes on, whether something goes wrong in the step or not ...
Goes ==
  /\ \/ \E r \in Requests : Accept(r) \/ HandledBecomes(r, "finished")
     \/ \E t \in Tenants : Handle(t)
     \/ UNCHANGED <<fate, line>>
  /\ troubles' \in {troubles, troubles + 1}

\* ... and a request is lost only when something does.
Loses ==
  /\ \/ \E r \in Requests : HandledBecomes(r, "lost")
     \/ \E t \in Tenants : First(t, "lost")
  /\ troubles' = troubles + 1

Next == Goes \/ Loses

Spec == Init /\ [][Next]_<<fate, line, troubles>>
=============================================================================
