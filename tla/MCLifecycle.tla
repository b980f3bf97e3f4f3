----------------------------- MODULE MCLifecycle -----------------------------
(* Constants for the model-checking runs of Lifecycle.                        *)
EXTENDS Lifecycle

With(m) == [mod |-> m, classed |-> TRUE]
Without(m) == [mod |-> m, classed |-> FALSE]

\* Every module alone, with and without its class, and twice; beep beside every other
\* module, in either order; two others; and three.
SomeConfigs ==
    {<<With(m)>> : m \in Module} \cup {<<Without(m)>> : m \in Module}
    \cup {<<With(m), With(m)>> : m \in Module}
    \cup {<<With("beep"), With(m)>> : m \in Module} \cup {<<With(m), With("beep")>> : m \in Module}
    \cup {<<With("light"), With("matrix")>>, <<Without("buzz"), With("light")>>,
          <<With("buzz"), With("matrix"), With("beep")>>}
WithDnssd == {<<With("dnssd")>>}
=============================================================================
