-------------------------------- MODULE Lists --------------------------------
(***************************************************************************)
(* Lists of which a part is kept, in order: SelectSeq as a recursive       *)
(* function on the positions, and by the names of lines.                   *)
(***************************************************************************)
EXTENDS Naturals, Sequences, Functions

\* What s has of S.
Filter(s, S) ==
    LET upto[i \in 0 .. Len(s)] ==
            IF i = 0 THEN <<>>
            ELSE IF s[i] \in S THEN Append(upto[i - 1], s[i]) ELSE upto[i - 1]
    IN  upto[Len(s)]

\* The lines with one of the names, and the others.
Named(s, names) == Filter(s, {x \in Range(s) : x.name \in names})
Unnamed(s, names) == Filter(s, {x \in Range(s) : x.name \notin names})
==============================================================================
