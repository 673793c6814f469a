------------------------------ MODULE TreeHash ------------------------------
(***************************************************************************)
(* TREE_HASH_TABLE of IISLib/treehash.h: records under hierarchical paths, *)
(* every path with its leading parts as nodes, the nodes both in hash      *)
(* buckets and in a tree of parents and child lists.  Inserts share the    *)
(* lock and work their way down by compare-and-swaps.                      *)
(*                                                                         *)
(* The buckets are those of HASH_TABLE, line for line, and module          *)
(* HashTable shows that they act as an atomic set: here finding a node and *)
(* linking a new one are single steps.  A path is a sequence of segments.  *)
(***************************************************************************)
EXTENDS Naturals, FiniteSets, Sequences, SequencesExt

CONSTANTS
    Threads,
    Records,
    PathOf,     \* PathOf[r] : GetKey
    Orders,     \* Orders[i] : the paths along the buckets after i - 1 growths
    Limits,     \* Limits[i] : GetPrime(2 * _nBuckets) then
    Filters,    \* the sets of records a caller's DeleteIf may choose
    Null

VARIABLES
    tree,       \* path |-> _pRecord, _pParentNode and the list of its children
    nItems,
    size,       \* which of Orders the buckets follow
    readers,    \* the threads inserting between SharedAcquire and SharedRelease
    pc,
    rec,        \* rec[t] : the record t inserts
    len,        \* the segments before cchEnd: SubSeq(PathOf[rec[t]], 1, len[t])
    up,         \* pParentNode
    refs, held,
    shares,     \* the shared holds _tableLock counts
    fault       \* it was released with none, or taken for writing under an
                \* insert: what follows is undefined, and the model stops

vars == <<tree, nItems, size, readers, pc, rec, len, up, refs, held, shares, fault>>

Nodes == DOMAIN tree
Path(t) == SubSeq(PathOf[rec[t]], 1, len[t])
IsLast(t) == len[t] = Len(PathOf[rec[t]])

Init ==
    /\ tree = [p \in {} |-> Null] /\ nItems = 0 /\ size = 1 /\ readers = {}
    /\ pc = [t \in Threads |-> "idle"] /\ len = [t \in Threads |-> 0]
    /\ rec = [t \in Threads |-> Null] /\ up = rec /\ held = rec
    /\ refs = [r \in Records |-> 0] /\ shares = 0 /\ fault = FALSE

Goto(t, l) == pc' = [pc EXCEPT ![t] = l]

\* A created record, referenced by its creator.
Create(t, r) ==
    /\ pc[t] = "idle" /\ held[t] = Null /\ refs[r] = 0
    /\ refs' = [refs EXCEPT ![r] = 1] /\ held' = [held EXCEPT ![t] = r]

\* SharedRelease: the lock does not know whose share it gives up.
SharedRelease ==
    IF shares = 0 THEN fault' = TRUE /\ UNCHANGED shares
    ELSE shares' = shares - 1 /\ UNCHANGED fault

\* InsertRecord copies the path and takes the lock,
InsertRecord(t, r) ==
    /\ Create(t, r)
    /\ shares' = shares + 1 /\ UNCHANGED fault
    /\ rec' = [rec EXCEPT ![t] = r] /\ len' = [len EXCEPT ![t] = Len(PathOf[r]) - 1]
    /\ readers' = readers \cup {t} /\ Goto(t, "ascend")
    /\ UNCHANGED <<tree, nItems, size, up>>

\* or fails to copy it and releases the lock it has not taken.
CopyFails(t, r) ==
    /\ Create(t, r) /\ SharedRelease
    /\ UNCHANGED <<tree, nItems, size, readers, pc, rec, len, up>>

\* The lowest leading part that has a node is the first parent.
FindParent(t) ==
    /\ pc[t] = "ascend"
    /\ \/ /\ len[t] = 0 \/ Path(t) \in Nodes
          /\ up' = [up EXCEPT ![t] = IF len[t] = 0 THEN Null ELSE Path(t)]
          /\ len' = [len EXCEPT ![t] = @ + 1] /\ Goto(t, "add")
       \/ /\ len[t] # 0 /\ Path(t) \notin Nodes
          /\ len' = [len EXCEPT ![t] = @ - 1] /\ UNCHANGED <<pc, up>>
    /\ UNCHANGED <<tree, nItems, size, readers, rec, refs, held, shares, fault>>

\* What the loop of InsertRecord does after AddNodeInternal: go on below the
\* node, or release the lock.
Descend(t, l) ==
    IF IsLast(t) THEN Goto(t, l) /\ UNCHANGED <<len, up>>
    ELSE /\ up' = [up EXCEPT ![t] = Path(t)]
         /\ len' = [len EXCEPT ![t] = @ + 1] /\ Goto(t, "add")

\* AddNodeInternal finds the node.  An empty one at the end of the path takes
\* the record by compare-and-swap; the node it had allocated is deleted
\* without its record.
AddExisting(t) ==
    /\ pc[t] = "add" /\ Path(t) \in Nodes
    /\ \/ /\ IsLast(t) /\ tree[Path(t)].record = Null
          /\ tree' = [tree EXCEPT ![Path(t)].record = rec[t]]
          /\ Goto(t, "refer") /\ UNCHANGED <<len, up>>
       \/ /\ ~IsLast(t) \/ tree[Path(t)].record # Null
          /\ Descend(t, "release") /\ UNCHANGED tree
    /\ UNCHANGED <<nItems, size, readers, rec, refs, held, shares, fault>>

\* or links a new one below the parent found before.
AddNew(t) ==
    /\ pc[t] = "add" /\ Path(t) \notin Nodes
    /\ tree' = [p \in Nodes \cup {Path(t)} |->
                  IF p # Path(t) THEN tree[p]
                  ELSE [record |-> IF IsLast(t) THEN rec[t] ELSE Null,
                        parent |-> up[t], children |-> <<>>]]
    /\ Goto(t, IF IsLast(t) THEN "own" ELSE "count")
    /\ UNCHANGED <<nItems, size, readers, rec, len, up, refs, held, shares, fault>>

\* Without memory the insert ends; the nodes added so far stay.
AddFails(t) ==
    /\ pc[t] = "add" /\ Goto(t, "release")
    /\ UNCHANGED <<tree, nItems, size, readers, rec, len, up, refs, held, shares, fault>>

\* The record now in the table is referenced for it.
ReferenceRecord(t) ==
    /\ \/ pc[t] = "refer" /\ Goto(t, "inserted")
       \/ pc[t] = "own" /\ Goto(t, "count")
    /\ refs' = [refs EXCEPT ![rec[t]] = @ + 1]
    /\ UNCHANGED <<tree, nItems, size, readers, rec, len, up, held, shares, fault>>

CountItem(t) ==
    /\ pc[t] = "count" /\ nItems' = nItems + 1
    /\ IF up[t] = Null THEN Descend(t, "inserted") ELSE Goto(t, "adopt") /\ UNCHANGED <<len, up>>
    /\ UNCHANGED <<tree, size, readers, rec, refs, held, shares, fault>>

\* The node becomes its parent's first child.
UpdateParent(t) ==
    /\ pc[t] = "adopt" /\ Descend(t, "inserted")
    /\ tree' = [tree EXCEPT ![up[t]].children = <<Path(t)>> \o @]
    /\ UNCHANGED <<nItems, size, readers, rec, refs, held, shares, fault>>

Release(t) ==
    /\ \/ pc[t] = "release" /\ Goto(t, "idle")
       \/ pc[t] = "inserted" /\ Goto(t, IF nItems > Limits[size] THEN "rehash" ELSE "idle")
    /\ SharedRelease /\ readers' = readers \ {t}
    /\ rec' = [rec EXCEPT ![t] = Null] /\ up' = [up EXCEPT ![t] = Null]
    /\ len' = [len EXCEPT ![t] = 0]
    /\ UNCHANGED <<tree, nItems, size, refs, held>>

\* _tableLock is taken exclusively when it counts no shares; with the shares
\* of its inserts taken away by others, that is under them.
Exclusive == shares = 0 /\ readers = {}
Overlap ==
    /\ shares = 0 /\ readers # {} /\ fault' = TRUE
    /\ UNCHANGED <<tree, nItems, size, readers, pc, rec, len, up, refs, held, shares>>

\* RehashTableIfNeeded: the test above is repeated under the exclusive lock,
\* and the nodes move to more buckets unless there is no memory for them.
Rehash(t) ==
    /\ pc[t] = "rehash" /\ Exclusive /\ Goto(t, "idle")
    /\ \/ nItems > Limits[size] /\ size' = size + 1
       \/ UNCHANGED size
    /\ UNCHANGED <<tree, nItems, readers, rec, len, up, refs, held, shares, fault>>

\* The caller gives its reference back.
Drop(t) ==
    /\ pc[t] = "idle" /\ held[t] # Null
    /\ refs' = [refs EXCEPT ![held[t]] = @ - 1]
    /\ held' = [held EXCEPT ![t] = Null]
    /\ UNCHANGED <<tree, nItems, size, readers, pc, rec, len, up, shares, fault>>

\* A node without a record is not found.
FindKey(t, p) ==
    /\ pc[t] = "idle" /\ held[t] = Null
    /\ p \in Nodes /\ tree[p].record # Null
    /\ held' = [held EXCEPT ![t] = tree[p].record]
    /\ refs' = [refs EXCEPT ![tree[p].record] = @ + 1]
    /\ UNCHANGED <<tree, nItems, size, readers, pc, rec, len, up, shares, fault>>

\* The node p and all below it, reached by the lists of children.
Below(T, p) ==
    LET below[d \in 0 .. Len(Orders[size])] ==
            IF d = 0 THEN {p}
            ELSE below[d - 1] \cup UNION {Range(T[q].children) : q \in below[d - 1]}
    IN below[Len(Orders[size])]

\* Mutant: the node stays in its parent's list.
DeleteNodeInternal_Leaves(T, p) == [q \in DOMAIN T \ Below(T, p) |-> T[q]]

\* DeleteNodeInternal: the node leaves its parent's list, which is walked
\* until it is found, and all below it goes with it.
DeleteNodeInternal(T, p) ==
    [q \in DOMAIN T \ Below(T, p) |->
        IF q # T[p].parent THEN T[q]
        ELSE [T[q] EXCEPT !.children = RemoveAt(@, CHOOSE i \in DOMAIN @ : @[i] = p)]]

\* The tree becomes T under the exclusive lock; what it holds no longer is
\* counted and referenced no more.
Become(T) ==
    LET recordsOf(X) == {X[p].record : p \in DOMAIN X} \ {Null} IN
    /\ Exclusive /\ T # tree /\ tree' = T
    /\ nItems' = nItems - (Cardinality(Nodes) - Cardinality(DOMAIN T))
    /\ refs' = [r \in Records |->
          IF r \in recordsOf(tree) \ recordsOf(T) THEN refs[r] - 1 ELSE refs[r]]
    /\ UNCHANGED <<size, readers, pc, rec, len, up, held, shares, fault>>

DeleteKey(p) == p \in Nodes /\ Become(DeleteNodeInternal(tree, p))

\* DeleteIf at one node: a chosen record goes, and with it the node if it has
\* no children, as does an empty node without children.
Visit(F, T, p) ==
    LET leaf == T[p].children = <<>>
        chosen == T[p].record \in F
    IN IF p \notin DOMAIN T THEN T
       ELSE IF leaf /\ (chosen \/ T[p].record = Null) THEN DeleteNodeInternal(T, p)
       ELSE IF chosen THEN [T EXCEPT ![p].record = Null]
       ELSE T

\* One walk along the buckets.
Walk(F) ==
    LET walk[i \in 0 .. Len(Orders[size])] ==
            IF i = 0 THEN tree ELSE Visit(F, walk[i - 1], Orders[size][i])
    IN walk[Len(Orders[size])]

DeleteIf(F) == Become(Walk(F))

Clear == Become([p \in {} |-> Null])

Step ==
    \/ \E t \in Threads :
        \/ FindParent(t) \/ AddExisting(t) \/ AddNew(t) \/ AddFails(t)
        \/ ReferenceRecord(t) \/ CountItem(t) \/ UpdateParent(t) \/ Release(t) \/ Rehash(t) \/ Drop(t)
        \/ \E r \in Records : InsertRecord(t, r) \/ CopyFails(t, r)
        \/ \E p \in Range(Orders[1]) : FindKey(t, p)
    \/ \E p \in Range(Orders[1]) : DeleteKey(p)
    \/ \E F \in Filters : DeleteIf(F)
    \/ Clear
    \/ Overlap

Next == ~fault /\ Step

Spec == Init /\ [][Next]_vars

-----------------------------------------------------------------------------
(* Properties                                                              *)

\* The nodes t has linked into a bucket and not yet counted or given to
\* their parent.
Pending(l) == {t \in Threads : pc[t] \in l}

\* Buckets and tree agree, whatever inserts and deletions overlapped, until a
\* writer or a release meets the share that an insert whose copy failed has
\* given up for another (lines 543 and 594): every node's parent is the node of
\* its path without the last segment and is in the table, every node is once in
\* its parent's list of children and in no other (but for an insert between its
\* two compare-and-swaps), and _nItems counts the nodes.  DeleteNodeInternal
\* (line 606) walks these lists with no check for their end.  A record has one
\* reference for its node and one for each caller: an insert that finds the
\* node taken, or fails on its way down, has kept none and dropped none (line
\* 434).
TreeIsSound ==
    /\ \A p \in Nodes :
        /\ tree[p].parent = IF Len(p) = 1 THEN Null ELSE Front(p)
        /\ tree[p].parent # Null => tree[p].parent \in Nodes
        /\ \A q \in Nodes :
            Cardinality({i \in DOMAIN tree[q].children : tree[q].children[i] = p})
              = IF /\ tree[p].parent = q
                   /\ \A t \in Pending({"own", "count", "adopt"}) : Path(t) # p
                THEN 1 ELSE 0
    /\ \A q \in Nodes : Range(tree[q].children) \subseteq Nodes
    /\ nItems = Cardinality(Nodes) - Cardinality(Pending({"own", "count"}))
    /\ \A r \in Records :
        refs[r] = Cardinality({t \in Threads : held[t] = r})
            + (IF /\ \E p \in Nodes : tree[p].record = r
                  /\ \A t \in Pending({"refer", "own"}) : rec[t] # r
               THEN 1 ELSE 0)
=============================================================================
