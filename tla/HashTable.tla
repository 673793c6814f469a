----------------------------- MODULE HashTable ------------------------------
(***************************************************************************)
(* HASH_TABLE of IISLib/hashtable.h: buckets of nodes kept in increasing   *)
(* order of their hashes.  Lookups and inserts run side by side under the  *)
(* shared lock, an insert by a compare-and-swap of one next pointer;       *)
(* deletions and the growth of the table hold the lock exclusively, so each *)
(* of them is one step.  A node is named by the record it holds.           *)
(***************************************************************************)
EXTENDS Naturals, FiniteSets, Sequences, SequencesExt, Lists

CONSTANTS
    Threads,
    Records,
    KeyOf,      \* KeyOf[r] : ExtractKey
    Hash,       \* Hash[k] : CalcKeyHash
    GetPrime,   \* GetPrime[n] : PRIME::GetPrime
    Filters,    \* the sets of records a caller's DeleteIf may choose
    Null

VARIABLES
    chains,     \* chains[b] : the nodes of a bucket, along their next pointers
    nItems,
    readers,    \* the threads holding _tableLock shared
    pc, key, node,  \* node[t] : pNewNode's record, Null in a lookup
    prev,       \* whose next pointer ppPreviousNodeNextPointer is: a node's
                \* or, Null, the bucket's
    next,       \* the node read through it
    ret,        \* what the call returns, Null while undecided
    refs,       \* references to a record
    held        \* the record the caller holds a reference to

locals == <<pc, key, node, prev, next, ret>>
table == <<chains, nItems>>
vars == <<table, readers, locals, refs, held>>

Keys == {KeyOf[r] : r \in Records}
HashOf(r) == Hash[KeyOf[r]]
nBuckets == Cardinality(DOMAIN chains)
Bucket(k) == Hash[k] % nBuckets
Linked == UNION {Range(chains[b]) : b \in DOMAIN chains}

Init ==
    /\ chains = [b \in {0} |-> <<>>]
    /\ nItems = 0 /\ readers = {}
    /\ pc = [t \in Threads |-> "idle"]
    /\ key = [t \in Threads |-> Null]
    /\ node = key /\ prev = key /\ next = key /\ ret = key /\ held = key
    /\ refs = [r \in Records |-> 0]

Goto(t, l) == pc' = [pc EXCEPT ![t] = l]

\* The place of a node in its chain, 0 for the bucket's own pointer, and the
\* node its next pointer leads to.
Place(c, x) == IF x = Null THEN 0 ELSE CHOOSE i \in 1 .. Len(c) : c[i] = x
After(c, x) == IF Place(c, x) = Len(c) THEN Null ELSE c[Place(c, x) + 1]

\* Mutant: the search ends at a node of the same hash and another key.
FindNodeInternal_StopsAtEqual(t, x, k) ==
    LET n == After(chains[Bucket(k)], x)
        found == n # Null /\ KeyOf[n] = k
        past == n = Null \/ (n # Null /\ HashOf(n) >= Hash[k] /\ ~found)
    IN /\ prev' = [prev EXCEPT ![t] = x]
       /\ next' = [next EXCEPT ![t] = n]
       /\ Goto(t, IF found THEN "found" ELSE IF past THEN "past" ELSE "walk")
       /\ ret' = [ret EXCEPT ![t] =
             CASE found -> IF node[t] = Null THEN n ELSE "exists"
               [] past /\ node[t] = Null -> "none"
               [] OTHER -> Null]

(***************************************************************************)
(* FindNodeInternal: read the next pointer of x; go on while the hash of   *)
(* what it leads to is not greater and the key not equal.                  *)
(***************************************************************************)
FindNodeInternal(t, x, k) ==
    LET n == After(chains[Bucket(k)], x)
        found == n # Null /\ KeyOf[n] = k
        past == n = Null \/ (n # Null /\ HashOf(n) > Hash[k])
    IN /\ prev' = [prev EXCEPT ![t] = x]
       /\ next' = [next EXCEPT ![t] = n]
       /\ Goto(t, IF found THEN "found" ELSE IF past THEN "past" ELSE "walk")
       /\ ret' = [ret EXCEPT ![t] =
             CASE found -> IF node[t] = Null THEN n ELSE "exists"
               [] past /\ node[t] = Null -> "none"
               [] OTHER -> Null]

Advance(t) ==
    /\ pc[t] = "walk" /\ FindNodeInternal(t, next[t], key[t])
    /\ UNCHANGED <<table, readers, key, node, refs, held>>

\* The lock is taken shared and the search starts at the key's bucket.
Acquire(t) ==
    /\ pc[t] = "acquire" /\ readers' = readers \cup {t}
    /\ FindNodeInternal(t, Null, key[t])
    /\ UNCHANGED <<table, key, node, refs, held>>

FindKey(t, k) ==
    /\ pc[t] = "idle" /\ held[t] = Null
    /\ Goto(t, "acquire") /\ key' = [key EXCEPT ![t] = k]
    /\ UNCHANGED <<table, readers, node, prev, next, ret, refs, held>>

\* The record is referenced under the lock, then the lock is released.
FindKeyEnd(t) ==
    /\ node[t] = Null
    /\ \/ /\ pc[t] = "found"
          /\ refs' = [refs EXCEPT ![next[t]] = @ + 1]
          /\ held' = [held EXCEPT ![t] = next[t]]
       \/ pc[t] = "past" /\ UNCHANGED <<refs, held>>
    /\ readers' = readers \ {t} /\ Goto(t, "return")
    /\ UNCHANGED <<table, key, node, prev, next, ret>>

\* A new record, whose creator holds the only reference, is inserted; the
\* allocation of its node may fail.
InsertRecord(t, r) ==
    /\ pc[t] = "idle" /\ held[t] = Null /\ refs[r] = 0
    /\ refs' = [refs EXCEPT ![r] = 1] /\ held' = [held EXCEPT ![t] = r]
    /\ key' = [key EXCEPT ![t] = KeyOf[r]] /\ node' = [node EXCEPT ![t] = r]
    /\ Goto(t, "acquire") \/ Goto(t, "return")
    /\ UNCHANGED <<table, readers, prev, next, ret>>

\* Mutant: the node that was not linked is deleted with its record.
InsertExists_Deletes(t) ==
    /\ node[t] # Null /\ pc[t] = "found"
    /\ refs' = [refs EXCEPT ![node[t]] = @ - 1]
    /\ readers' = readers \ {t} /\ Goto(t, "return")
    /\ UNCHANGED <<table, key, node, prev, next, ret, held>>

\* The node was found: the new one is deleted without its record.
InsertExists(t) ==
    /\ node[t] # Null /\ pc[t] = "found"
    /\ readers' = readers \ {t} /\ Goto(t, "return")
    /\ UNCHANGED <<table, key, node, prev, next, ret, refs, held>>

\* The compare-and-swap of the next pointer: the node is linked, or the
\* search starts again because another insert changed the pointer.
InsertLink(t) ==
    LET b == Bucket(key[t])
        unchanged == After(chains[b], prev[t]) = next[t]
    IN
    /\ node[t] # Null /\ pc[t] = "past"
    /\ \/ /\ unchanged
          /\ chains' = [chains EXCEPT ![b] = InsertAt(@, Place(@, prev[t]) + 1, node[t])]
          /\ Goto(t, "linked") /\ ret' = [ret EXCEPT ![t] = "ok"]
          /\ prev' = [prev EXCEPT ![t] = Null] /\ next' = [next EXCEPT ![t] = Null]
       \/ ~unchanged /\ FindNodeInternal(t, Null, key[t]) /\ UNCHANGED chains
    /\ UNCHANGED <<nItems, readers, key, node, refs, held>>

\* Only a linked record is referenced for the table.
InsertReference(t) ==
    /\ pc[t] = "linked" /\ Goto(t, "count")
    /\ refs' = [refs EXCEPT ![node[t]] = @ + 1]
    /\ UNCHANGED <<table, readers, key, node, prev, next, ret, held>>

InsertCount(t) ==
    /\ pc[t] = "count" /\ Goto(t, "look")
    /\ nItems' = nItems + 1 /\ readers' = readers \ {t}
    /\ UNCHANGED <<chains, key, node, prev, next, ret, refs, held>>

TooMany == nItems > GetPrime[2 * nBuckets]

\* RehashTableIfNeeded looks at the counts with no lock held,
RehashLook(t) ==
    /\ pc[t] = "look" /\ Goto(t, IF TooMany THEN "rehash" ELSE "return")
    /\ UNCHANGED <<table, readers, key, node, prev, next, ret, refs, held>>

\* a node goes into a chain behind those of no greater hash,
InOrder(chain, r) ==
    InsertAt(chain, Min({i \in 1 .. Len(chain) + 1 : i <= Len(chain) => HashOf(chain[i]) > HashOf(r)}), r)

\* n buckets are filled with the nodes in the order of the old ones,
Nodes == LET all[b \in 0 .. nBuckets] == IF b = 0 THEN <<>> ELSE all[b - 1] \o chains[b - 1]
         IN  all[nBuckets]
Rechained(n) ==
    LET fill[i \in 0 .. Len(Nodes)] ==
            IF i = 0 THEN [b \in 0 .. n - 1 |-> <<>>]
            ELSE [fill[i - 1] EXCEPT ![HashOf(Nodes[i]) % n] = InOrder(@, Nodes[i])]
    IN  fill[Len(Nodes)]

\* and the test is made again under the exclusive lock; without memory the
\* table stays as it is.
Rehash(t) ==
    /\ pc[t] = "rehash" /\ readers = {} /\ Goto(t, "return")
    /\ \/ TooMany /\ chains' = Rechained(GetPrime[2 * nBuckets])
       \/ UNCHANGED chains
    /\ UNCHANGED <<nItems, readers, key, node, prev, next, ret, refs, held>>

Return(t) ==
    /\ pc[t] = "return" /\ Goto(t, "idle")
    /\ key' = [key EXCEPT ![t] = Null] /\ node' = [node EXCEPT ![t] = Null]
    /\ prev' = [prev EXCEPT ![t] = Null] /\ next' = [next EXCEPT ![t] = Null]
    /\ ret' = [ret EXCEPT ![t] = Null]
    /\ UNCHANGED <<table, readers, refs, held>>

\* The caller gives its reference back.
Drop(t) ==
    /\ pc[t] = "idle" /\ held[t] # Null
    /\ refs' = [refs EXCEPT ![held[t]] = @ - 1]
    /\ held' = [held EXCEPT ![t] = Null]
    /\ UNCHANGED <<table, readers, locals>>

\* Nodes leave the chains and their records lose the table's reference.
DeleteNodes(S) ==
    /\ readers = {}
    /\ chains' = [b \in DOMAIN chains |-> Filter(chains[b], Records \ S)]
    /\ refs' = [r \in Records |-> IF r \in S THEN refs[r] - 1 ELSE refs[r]]
    /\ UNCHANGED <<readers, locals, held>>

DeleteKey(k) ==
    LET S == {r \in Linked : KeyOf[r] = k} IN
    S # {} /\ DeleteNodes(S) /\ nItems' = nItems - 1

DeleteIf(F) ==
    LET S == F \cap Linked IN
    S # {} /\ DeleteNodes(S) /\ nItems' = nItems - Cardinality(S)

Clear == nItems # 0 /\ DeleteNodes(Linked) /\ nItems' = 0

Next ==
    \/ \E t \in Threads :
        \/ Acquire(t) \/ Advance(t) \/ FindKeyEnd(t) \/ Return(t) \/ Drop(t)
        \/ InsertExists(t) \/ InsertLink(t) \/ InsertReference(t) \/ InsertCount(t)
        \/ RehashLook(t) \/ Rehash(t)
        \/ \E k \in Keys : FindKey(t, k)
        \/ \E r \in Records : InsertRecord(t, r)
    \/ \E k \in Keys : DeleteKey(k)
    \/ \E F \in Filters : DeleteIf(F)
    \/ Clear

Spec == Init /\ [][Next]_vars

-----------------------------------------------------------------------------
(* Properties                                                              *)

\* Lookups and inserts overlap, and a lookup walks pointers that inserts are
\* changing: still each call acts as if at one instant on a set of records
\* with one record per key (hashtable.h:430, "possible by keeping the hashes
\* in a bucket in increasing order").
Map == INSTANCE KeyedSet WITH
    members <- Linked,
    call <- [t \in Threads |->
        IF pc[t] = "idle" THEN Null
        ELSE IF node[t] = Null THEN [op |-> "find", key |-> key[t]]
        ELSE [op |-> "insert", record |-> node[t]]],
    answer <- ret
ActsAtomically == Map!Spec

\* A record has one reference for the table, from the one an insert adds
\* behind its compare-and-swap until the node is deleted, and one for every
\* caller that created or found it: none is freed under a caller.  And
\* _nItems, changed by interlocked increments and by plain decrements, counts
\* the nodes but for inserts still on their way; the growth of the table and
\* the assertion of its destructor (line 261) rely on that.
Pending(l) == {t \in Threads : pc[t] \in l}
CountsExact ==
    /\ nItems = Cardinality(Linked) - Cardinality(Pending({"linked", "count"}))
    /\ \A r \in Records :
        refs[r] = Cardinality({t \in Threads : held[t] = r})
            + (IF r \in Linked /\ \A t \in Pending({"linked"}) : node[t] # r THEN 1 ELSE 0)
=============================================================================
