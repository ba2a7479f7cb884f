-------------------------- MODULE MCInfrastructure --------------------------
(* Instances of Infrastructure for TLC: small compositions, among them some *)
(* that do not compile, and requirements stated of them.                    *)
EXTENDS Infrastructure, TLC

P(kind, value) == [kind |-> kind, value |-> value]
Facility(identity, records, callable, workers) ==
    [kind |-> "facility", identity |-> identity, records |-> records, callable |-> callable,
     workers |-> workers]
Lease(identity, properties) ==
    [kind |-> "lease", identity |-> identity, properties |-> properties]
Thread(identity, properties) ==
    [kind |-> "thread", identity |-> identity, properties |-> properties]
Composed(resources, bindings) == [resources |-> resources, bindings |-> bindings]

Stored == <<P("records", 1), P("callable", 1)>>
Low == 1
High == 3

Pinned  == <<P("stack", 4), P("priority", High), P("affinity", 0)>>
Floating == <<P("affinity", AnyProcessor), P("stack", 2)>>

\* Two Workers of one facility, alone and before a thread.
Pool == Composed(<<Facility("a", 2, 1, <<Pinned, Floating>>)>>, <<>>)

PoolAndThread ==
    Composed(<<Facility("a", 2, 1, <<Pinned, Floating>>), Thread("t", Floating)>>, <<"t">>)

\* A facility that compiles away, a lease, a thread of the same identity.
LeaseAndThread ==
    Composed(<<Thread("a", Pinned), Facility("a", 0, 0, <<>>), Lease("a", Stored \o Pinned)>>,
             <<"a">>)

\* Two facilities, two threads whose bindings come in another order.
Small == <<
    Composed(<<Facility("a", 1, 1, << <<>> >>)>>, <<>>),
    Composed(<<Thread("t", <<P("priority", Low)>>), Thread("u", <<>>)>>, <<"u", "t">>),
    Composed(<<>>, <<>>)>>

\* What no compiler accepts: an identity declared twice, a property declared twice,
\* bindings that are missing, double or of no thread, capacities that are missing.
Rejected == {
    Composed(<<Facility("a", 1, 1, <<Floating>>), Facility("a", 1, 1, <<Pinned>>)>>, <<>>),
    Composed(<<Thread("t", <<P("affinity", 0), P("affinity", 1)>>)>>, <<"t">>),
    Composed(<<Lease("a", Stored \o <<P("priority", High), P("priority", Low)>>)>>, <<>>),
    Composed(<<Thread("t", <<>>)>>, <<"t", "t">>),
    Composed(<<Thread("t", <<>>)>>, <<>>),
    Composed(<<Facility("a", 1, 1, <<Floating>>)>>, <<"t">>),
    Composed(<<Facility("a", 1, 0, <<Floating>>)>>, <<>>),
    Composed(<<Facility("a", 1, 1, <<>>)>>, <<>>),
    Composed(<<Lease("a", <<P("records", 1)>>)>>, <<>>)}

MCTopologies ==
    {Pool, LeaseAndThread} \cup {Small[i] : i \in DOMAIN Small} \cup Rejected

MCPool == {PoolAndThread}

Symmetry == Permutations(Closers) \cup Permutations(Dispatchers)

Constraints ==
    {P("concurrency", 1), P("concurrency", 2), P("stack", 2), P("stack", 4), P("priority", Low),
     P("priority", High), P("affinity", 0), P("affinity", AnyProcessor)}

MCRequirements ==
    [kind : {"facility", "lease", "thread"}, identity : {"a", "t", "u"},
     constraints : {{}} \cup {{x, y} : x \in Constraints, y \in Constraints}]
=============================================================================
