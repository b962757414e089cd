------------------------------ MODULE LoadOrder ------------------------------
(* The order in which plugins should be loaded (registry.rs,                 *)
(* topological_order): Kahn's algorithm over the manifests it is given, with *)
(* the dependencies each of them lists.  The maps it walks are HashMaps, so  *)
(* plugins that become free together are queued in any order.                *)
EXTENDS Naturals, FiniteSets, Sequences, SequencesExt

CONSTANTS PluginNames,      \* ids, numbers in the order of the names
          MaxDependencies   \* length of a manifest's list

ASSUME LoadOrderAssumption ==
    PluginNames \subseteq Nat /\ IsFiniteSet(PluginNames) /\ MaxDependencies \in Nat

VARIABLES given,            \* the dependency list of every manifest
          in_degree,        \* what is left to load before a plugin
          queue, order,
          phase             \* of the function: idle, in its loop, done

orderVars == <<given, in_degree, queue, order, phase>>

Lists == SeqOf(PluginNames, MaxDependencies)

OrderInit ==
    /\ given = <<>> /\ in_degree = <<>>
    /\ queue = <<>> /\ order = <<>>
    /\ phase = "idle"

\* The dependencies of p that are among the manifests, and where its list has
\* them; the others are not this function's concern.
DepAt(p) == {n \in DOMAIN given[p] : given[p][n] \in DOMAIN given}
Deps(p) == {given[p][n] : n \in DepAt(p)}

\* A queue of these plugins in the order of their names.
SortedQueues(S) == {s \in SetToSeqs(S) : \A i, j \in DOMAIN s : i < j => s[i] < s[j]}

topological_order(manifests) ==
    /\ phase = "idle" /\ phase' = "loop"
    /\ given' = manifests
    /\ in_degree' = [p \in DOMAIN manifests |-> Cardinality(DepAt(p)')]
    /\ queue' \in SortedQueues({p \in DOMAIN manifests : in_degree'[p] = 0})
    /\ UNCHANGED order

\* Faulty variant: a plugin is free when the first of its dependencies is out.
FreedByFirst(id) ==
    {p \in DOMAIN given : id \in Deps(p) /\ in_degree[p] = Cardinality(DepAt(p))}

\* The plugins that wait for nothing but id.
Freed(id) == {p \in DOMAIN given : id \in Deps(p) /\ in_degree[p] = 1}

\* One round of the loop: every plugin that lists id has one less to wait for.
Pop ==
    /\ queue # <<>>
    /\ LET id == Head(queue)
       IN /\ order' = Append(order, id)
          /\ in_degree' = [p \in DOMAIN given |->
                             IF id \in Deps(p) THEN in_degree[p] - 1 ELSE in_degree[p]]
          /\ \E s \in SetToSeqs(Freed(id)) : queue' = Tail(queue) \o s
    /\ UNCHANGED <<given, phase>>

EndOfLoop ==
    /\ phase = "loop" /\ queue = <<>>
    /\ phase' = "done"
    /\ UNCHANGED <<given, in_degree, queue, order>>

\* The answer: an order, or an error that speaks of a cycle.
Ordered == Len(order) = Cardinality(DOMAIN given)

\* Whether a plugin with these dependencies may be loaded beside these active ones.
check_dependencies(dependencies, active) == dependencies \subseteq active

OrderNext ==
    \/ \E S \in SUBSET PluginNames : \E m \in [S -> Lists] : topological_order(m)
    \/ Pop \/ EndOfLoop

OrderSpec == OrderInit /\ [][OrderNext]_orderVars

------------------------------------------------------------------------------
Cyclic == \E S \in (SUBSET DOMAIN given) \ {{}} : \A p \in S : Deps(p) \cap S # {}

ListedTwice ==
    \E p \in DOMAIN given : \E m, n \in DepAt(p) : m # n /\ given[p][m] = given[p][n]

\* An order that is returned holds every plugin once, and loading in it meets
\* the check of its dependencies at every step, whatever is active besides;
\* and it is refused just when there is none, or when a manifest lists one
\* dependency twice, which the algorithm takes for a cycle.
LoadOrderRight ==
    /\ \A p \in DOMAIN in_degree : in_degree[p] \in Nat
    /\ IsInjective(order)
    /\ \A i \in DOMAIN order :
          check_dependencies(Deps(order[i]), {order[j] : j \in 1..(i - 1)})
    /\ phase = "done" => (Ordered <=> ~Cyclic /\ ~ListedTwice)
=============================================================================
