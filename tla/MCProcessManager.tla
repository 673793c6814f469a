-------------------------- MODULE MCProcessManager --------------------------
(* Small instances of ProcessManager for TLC.                              *)
EXTENDS ProcessManager, TLC

\* Objects and request threads are interchangeable.  The liveness run does not
\* use it.
Symmetry == Permutations(Procs) \cup Permutations(Threads)

\* Bound: only the first process of a behaviour has children.
ChildrenBound ==
    (\E p \in Procs, w \in Children : os[p][w] # "none")
        => Cardinality({p \in Procs : alloc[p] # "unused"}) = 1
=============================================================================
