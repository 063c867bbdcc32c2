------------------------ MODULE MCPropertySubscription ------------------------
(***************************************************************************)
(* Instances of PropertySubscription: clients a and b, host h, properties  *)
(* x and y.                                                                *)
(***************************************************************************)
EXTENDS PropertySubscription

CONSTANTS a, b, h, x, y

\* What the theorems assume holds of these instances.
ASSUME MCAssumption == OneSubscriber /\ OneWay /\ FewRequests

\* Two clients of h, or one.
TwoClients == {<<a, h>>, <<b, h>>}
OneClient == {<<a, h>>}

\* Each client with a property of its own and a host that only answers; or
\* one client of a host that ends subscriptions and sets values.
PlainOrBusy ==
    {[uses |-> {<<a, h, x>>, <<b, h, y>>}, hosts |-> {}],
     [uses |-> {<<a, h, x>>},
      hosts |-> {"shutdown", "terminate", "remove", "set"}]}

\* One client of a host that sets values.
Setting == {[uses |-> {<<a, h, x>>}, hosts |-> {"set"}]}
=============================================================================
