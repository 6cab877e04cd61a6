------------------------------ MODULE KahnSort ------------------------------
(***************************************************************************)
(* BuildScheduler.topologicalSort (internal/daemon/scheduler.go), Kahn's   *)
(* algorithm on the graph that AddDependency built.  The graph is a        *)
(* multigraph, since nothing keeps a dependency from being added twice;    *)
(* edges is the sequence of AddDependency calls, each a pair               *)
(* <<dependent, dependency>>.                                              *)
(***************************************************************************)
EXTENDS Integers, Sequences, FiniteSets, SequencesExt

\* Mutant: AddDependency adds a dependent only once, but counts the edge.
Dependents_Distinct(edges, d) ==
    SetToSeq({e[1] : e \in {f \in Range(edges) : f[2] = d}})

\* task.Dependents after the AddDependency calls.
Dependents(edges, d) ==
    FoldLeft(LAMBDA ds, e : IF e[2] = d THEN Append(ds, e[1]) ELSE ds, <<>>, edges)

InDegrees(tasks, edges) ==
    [t \in tasks |-> Cardinality({i \in 1..Len(edges) : edges[i][1] = t})]

\* The queue at first: the tasks without dependencies, in the order of a Go
\* map, which may be any.
FirstQueues(tasks, edges) == SetToSeqs({t \in tasks : InDegrees(tasks, edges)[t] = 0})

\* One turn of the loop over the dependents of the dequeued task.
Relax(s, t) ==
    LET left == s.inDegree[t] - 1
    IN [inDegree |-> [s.inDegree EXCEPT ![t] = left],
        queue |-> IF left = 0 THEN Append(s.queue, t) ELSE s.queue, result |-> s.result]

\* One turn of the loop over the queue.
Dequeue(s, edges) ==
    IF s.queue = <<>> THEN s
    ELSE FoldLeft(Relax, [inDegree |-> s.inDegree, queue |-> Tail(s.queue),
                          result |-> Append(s.result, Head(s.queue))],
                  Dependents(edges, Head(s.queue)))

\* Every task is queued at most once, so the loop ends within as many turns
\* as there are tasks.
topologicalSort(tasks, edges, first) ==
    LET start == [inDegree |-> InDegrees(tasks, edges), queue |-> first, result |-> <<>>]
        end == FoldLeft(LAMBDA s, i : Dequeue(s, edges), start, [i \in 1..Cardinality(tasks) |-> i])
    IN [order |-> end.result, fails |-> Len(end.result) # Cardinality(tasks)]

-----------------------------------------------------------------------------
\* Reference: no task twice and each after everything it depends on.
IsTopologicalOrder(order, edges) ==
    /\ IsInjective(order)
    /\ \A e \in Range(edges) : \A i \in DOMAIN order :
         order[i] = e[1] => \E j \in 1..(i - 1) : order[j] = e[2]

\* Reference: tasks each of which depends on one of them.
Cyclic(tasks, edges) ==
    \E S \in (SUBSET tasks) \ {{}} :
        \A t \in S : \E d \in S : <<t, d>> \in Range(edges)
=============================================================================
