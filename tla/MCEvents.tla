------------------------------ MODULE MCEvents ------------------------------
EXTENDS Events

\* The subscriptions that will not be called any more: ended by the client, or
\* by a Destroy that threw, or with their entity.
Over ==
  {n \in Subscriptions :
     \/ n \in ended \cup lost
     \/ subs[n][1] \in (issued \ living) /\ n \notin late}

\* What history has to say of states: how a subscription came to be over makes
\* no difference to what can happen, nor to any of the properties.
MCView ==
  <<signals, subs, connected,
    [k \in DOMAIN stack |-> [stack[k] EXCEPT !.due = @ \ Over]],
    undefined, registry, late, Over, selfDestroyed>>
=============================================================================
