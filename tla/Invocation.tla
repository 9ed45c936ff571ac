------------------------------ MODULE Invocation ------------------------------
(***************************************************************************)
(* What a caller may rely on when it has a contract invoked for it         *)
(* (backend/src/services/StellarService.ts): the operation may be applied, *)
(* more than once even, until the caller is told a transaction hash; the   *)
(* hash means that it has been applied, and nothing is applied after it.   *)
(* An error says nothing: the operation may have been applied, or may be   *)
(* applied still.                                                          *)
(***************************************************************************)
EXTENDS Naturals

CONSTANTS
    Callers,      \* calls of invokeContract
    MaxApplied    \* how often one call may be applied

VARIABLES
    applied,      \* how often each call's operation was applied
    answer        \* what each caller was told

InvocationInit ==
    /\ applied = [c \in Callers |-> 0]
    /\ answer = [c \in Callers |-> "none"]

Apply(c) ==
    /\ answer[c] # "hash" /\ applied[c] < MaxApplied
    /\ applied' = [applied EXCEPT ![c] = @ + 1]
    /\ UNCHANGED answer

AnswerHash(c) ==
    /\ answer[c] = "none" /\ applied[c] > 0
    /\ answer' = [answer EXCEPT ![c] = "hash"]
    /\ UNCHANGED applied

AnswerError(c) ==
    /\ answer[c] = "none"
    /\ answer' = [answer EXCEPT ![c] = "error"]
    /\ UNCHANGED applied

InvocationNext == \E c \in Callers : Apply(c) \/ AnswerHash(c) \/ AnswerError(c)

InvocationSpec == InvocationInit /\ [][InvocationNext]_<<applied, answer>>
==============================================================================
