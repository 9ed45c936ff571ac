---------------------------- MODULE InvokeContract ----------------------------
(***************************************************************************)
(* StellarService.invokeContract (backend/src/services/StellarService.ts): *)
(* up to maxRetries attempts to build, simulate, send and await one        *)
(* transaction.  All calls sign with the oracle's key and so share the     *)
(* sequence number of one account.                                         *)
(*                                                                         *)
(* The network is external: an account has at most one transaction pending,*)
(* the one that carries its next sequence number, and a transaction that   *)
(* the ledger has not included when its time bound (setTimeout(30)) passes *)
(* never will be.  Polling for 30 seconds outlasts the bound.              *)
(***************************************************************************)
EXTENDS Naturals, Sequences, FiniteSets

CONSTANTS
    Callers,
    MaxRetries,     \* maxRetries, 3 in the code
    MaxLosses       \* bound: answers of the network that are lost

VARIABLES
    ledgerSeq,      \* the account's sequence number on the ledger
    txs,            \* what each call has sent: sequence number and state
    step,           \* where each call is
    sourceAccount,  \* its copy of the sequence number
    attempts,       \* attempts it has made
    losses          \* answers lost so far

invokeVars == <<ledgerSeq, txs, step, sourceAccount, attempts, losses>>

InvokeInit ==
    /\ ledgerSeq = 0
    /\ txs = [c \in Callers |-> <<>>]
    /\ step = [c \in Callers |-> "start"]
    /\ sourceAccount = [c \in Callers |-> 0]
    /\ attempts = [c \in Callers |-> 0]
    /\ losses = 0

Goto(c, label) == step' = [step EXCEPT ![c] = label]
Lose == losses < MaxLosses /\ losses' = losses + 1

(* The account is loaded once, before the loop; a missing key or a failed   *)
(* load ends the call.                                                      *)
LoadAccount(c) ==
    /\ step[c] = "start"
    /\ \/ /\ sourceAccount' = [sourceAccount EXCEPT ![c] = ledgerSeq]
          /\ Goto(c, "build") /\ UNCHANGED losses
       \/ Lose /\ Goto(c, "error") /\ UNCHANGED sourceAccount
    /\ UNCHANGED <<ledgerSeq, txs, attempts>>

(* The catch of the loop: whatever was thrown, the next attempt or the end.*)
Caught(c) ==
    /\ attempts' = [attempts EXCEPT ![c] = @ + 1]
    /\ Goto(c, IF attempts[c] + 1 >= MaxRetries THEN "error" ELSE "build")

(* build() takes the next number from the local account, also when the     *)
(* simulation then fails.                                                   *)
BuildAndSimulate(c) ==
    /\ step[c] = "build"
    /\ sourceAccount' = [sourceAccount EXCEPT ![c] = @ + 1]
    /\ \/ Goto(c, "send") /\ UNCHANGED attempts
       \/ Caught(c)
    /\ UNCHANGED <<ledgerSeq, txs, losses>>

(* External: the network takes a transaction with the next number if none  *)
(* of the account is pending.                                               *)
Pending(d) == \E k \in DOMAIN txs[d] : txs[d][k].state = "pending"
Accepts(n) == n = ledgerSeq + 1 /\ \A d \in Callers : ~Pending(d)

Sent(c) == txs' = [txs EXCEPT ![c] =
                     Append(@, [seq |-> sourceAccount[c], state |-> "pending"])]

(* A status other than PENDING is thrown; so is a lost answer, though the   *)
(* transaction may have been taken.                                         *)
SendTransaction(c) ==
    /\ step[c] = "send"
    /\ \/ /\ Accepts(sourceAccount[c]) /\ Sent(c)
          /\ \/ Goto(c, "poll") /\ UNCHANGED <<attempts, losses>>
             \/ Lose /\ Caught(c)
       \/ /\ Caught(c) /\ UNCHANGED txs
          /\ IF Accepts(sourceAccount[c]) THEN Lose ELSE UNCHANGED losses
    /\ UNCHANGED <<ledgerSeq, sourceAccount>>

Last(c) == txs[c][Len(txs[c])]

(* (A mutant that takes any transaction the network has dealt with for a   *)
(* success.)                                                                *)
Included(c) == Last(c).state # "pending"
Succeeded(c) == Last(c).state = "success"

(* SUCCESS is the hash; FAILED, a poll that is itself answered by an error, *)
(* and 30 seconds without an answer end the attempt.  The node polled may   *)
(* not have seen a transaction that was included (hence the last disjunct   *)
(* asks only that the transaction be no longer pending).                    *)
PollTransaction(c) ==
    /\ step[c] = "poll"
    /\ \/ Succeeded(c) /\ Goto(c, "hash") /\ UNCHANGED <<attempts, losses>>
       \/ Lose /\ Caught(c)
       \/ Last(c).state # "pending" /\ Caught(c) /\ UNCHANGED losses
    /\ UNCHANGED <<ledgerSeq, txs, sourceAccount>>

(* External: the ledger includes the pending transaction, which the contract*)
(* carries out or refuses, or lets it expire.                               *)
Settle(c, state) ==
    /\ Pending(c)
    /\ txs' = [txs EXCEPT ![c] = [k \in DOMAIN @ |->
                 IF @[k].state = "pending" THEN [@[k] EXCEPT !.state = state]
                                           ELSE @[k]]]
    /\ ledgerSeq' = IF state = "expired" THEN ledgerSeq ELSE ledgerSeq + 1
    /\ UNCHANGED <<step, sourceAccount, attempts, losses>>

InvokeNext ==
    \E c \in Callers :
        \/ LoadAccount(c) \/ BuildAndSimulate(c)
        \/ SendTransaction(c) \/ PollTransaction(c)
        \/ \E s \in {"success", "failed", "expired"} : Settle(c, s)

InvokeSpec == InvokeInit /\ [][InvokeNext]_invokeVars

-----------------------------------------------------------------------------
(* Properties *)

Abstract == INSTANCE Invocation WITH
    MaxApplied <- MaxRetries,
    applied <- [c \in Callers |->
                  Cardinality({k \in DOMAIN txs[c] : txs[c][k].state = "success"})],
    answer <- [c \in Callers |->
                  IF step[c] \in {"hash", "error"} THEN step[c] ELSE "none"]

(* invokeContract keeps the promise of Invocation: a caller who was given a *)
(* hash has had its operation applied, and none of the attempts given up    *)
(* before is applied afterwards.                                            *)
ImplementsInvocation == Abstract!InvocationSpec
==============================================================================
