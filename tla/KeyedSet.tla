------------------------------ MODULE KeyedSet ------------------------------
(***************************************************************************)
(* What a hash table promises to its callers: a set of records, at most    *)
(* one per key, in which every call takes effect at one instant between    *)
(* its start and its return.                                               *)
(***************************************************************************)

CONSTANTS
    Threads, Records,
    KeyOf,      \* KeyOf[r] : what ExtractKey returns
    Null

VARIABLES
    members,    \* the records in the table
    call,       \* call[t] : the operation t is in, or Null
    answer      \* answer[t] : what it returns, Null while undecided

vars == <<members, call, answer>>

Keys == {KeyOf[r] : r \in Records}

Calls == [op : {"find"}, key : Keys] \cup [op : {"insert"}, record : Records]

Init ==
    /\ members = {}
    /\ call = [t \in Threads |-> Null]
    /\ answer = [t \in Threads |-> Null]

Matches(k) == {r \in members : KeyOf[r] = k}

Begin(t) ==
    /\ call[t] = Null
    /\ \E c \in Calls : call' = [call EXCEPT ![t] = c]
    /\ UNCHANGED <<members, answer>>

Decide(t, a) == answer[t] = Null /\ answer' = [answer EXCEPT ![t] = a] /\ UNCHANGED call

Find(t) ==
    /\ call[t] # Null /\ call[t].op = "find"
    /\ \/ \E r \in Matches(call[t].key) : Decide(t, r)
       \/ Matches(call[t].key) = {} /\ Decide(t, "none")
    /\ UNCHANGED members

Insert(t) ==
    /\ call[t] # Null /\ call[t].op = "insert"
    /\ \/ /\ Matches(KeyOf[call[t].record]) = {} /\ Decide(t, "ok")
          /\ members' = members \cup {call[t].record}
       \/ /\ Matches(KeyOf[call[t].record]) # {} /\ Decide(t, "exists")
          /\ UNCHANGED members

\* The answer is given back; a call may also fail for want of memory before
\* it has done anything.
Return(t) ==
    /\ call[t] # Null /\ call' = [call EXCEPT ![t] = Null]
    /\ answer[t] # Null \/ call[t].op = "insert"
    /\ answer' = [answer EXCEPT ![t] = Null]
    /\ UNCHANGED members

\* DeleteKey, DeleteIf and Clear.
Remove == members' \subseteq members /\ UNCHANGED <<call, answer>>

Next == Remove \/ \E t \in Threads : Begin(t) \/ Find(t) \/ Insert(t) \/ Return(t)

Spec == Init /\ [][Next]_vars
=============================================================================
