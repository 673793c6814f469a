----------------------------- MODULE RequestLife -----------------------------
(***************************************************************************)
(* What a FORWARDING_HANDLER promises IIS: at any time exactly one party   *)
(* owes the next step of a request, the module on one of its threads or an *)
(* operation it has started; the module answers once, and after that       *)
(* nothing of the request is left to happen but the end of the handler.    *)
(***************************************************************************)

VARIABLES
    owes,    \* who owes the next step: "module", "operation" or "nobody"
    answer,  \* the answer to IIS: "none", "CONTINUE" or "FINISH_REQUEST"
    freed    \* the handler is deleted

lifeVars == <<owes, answer, freed>>

Init == owes = "module" /\ answer = "none" /\ freed = FALSE

\* The module starts an operation, and will be called back.
Start == owes = "module" /\ owes' = "operation" /\ UNCHANGED <<answer, freed>>

\* The operation completes.
Complete == owes = "operation" /\ owes' = "module" /\ UNCHANGED <<answer, freed>>

Answer ==
    /\ owes = "module" /\ owes' = "nobody"
    /\ answer' \in {"CONTINUE", "FINISH_REQUEST"} /\ UNCHANGED freed

Free == owes = "nobody" /\ ~freed /\ freed' = TRUE /\ UNCHANGED <<owes, answer>>

Next == Start \/ Complete \/ Answer \/ Free

Spec == Init /\ [][Next]_lifeVars
=============================================================================
