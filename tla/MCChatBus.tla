----------------------------- MODULE MCChatBus -----------------------------
(* Instances of ChatBus for TLC. *)
EXTENDS ChatBus, TLC

CONSTANTS ta, tb, r1, r2, r3

\* Two turns of one session of ta, its id spelt with and without "api:", and a
\* session of tb.
TwoSessionsTenantOf == (r1 :> ta) @@ (r2 :> ta) @@ (r3 :> tb)
TwoSessionsRawIdOf ==
  (r1 :> <<"s">>) @@ (r2 :> <<"api", "s">>) @@ (r3 :> <<>>)

\* Three requests for one tenant, two of them in one session.
OneTenantTenantOf == (r1 :> ta) @@ (r2 :> ta) @@ (r3 :> ta)
OneTenantRawIdOf == (r1 :> <<"s">>) @@ (r2 :> <<"s">>) @@ (r3 :> <<"api", "u">>)

\* Nobody passes a sessionId.
NoSessionIdRawIdOf == (r1 :> <<>>) @@ (r2 :> <<>>) @@ (r3 :> <<>>)
=============================================================================
