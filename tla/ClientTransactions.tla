-------------------------- MODULE ClientTransactions --------------------------
(***************************************************************************)
(* The transactions a user sends from the browser                          *)
(* (frontend/src/services/wallet.ts, frontend/lib/stellar.ts) and what the *)
(* forms that send them say about them: placing a bet (BetForm), claiming   *)
(* winnings (ClaimWinningsPanel), settling an invoice or voting (the payer *)
(* and governance pages, which are alike) and creating a market             *)
(* (CreateMarketPage).  Each form has a status of its own; bets and claims  *)
(* also write the one in the store.                                         *)
(*                                                                         *)
(* The network is external: a transaction it takes is included, with        *)
(* success or not, or expires when its time bound has passed.  A contract   *)
(* pays a claim once.                                                       *)
(***************************************************************************)
EXTENDS Naturals, FiniteSets

CONSTANTS
    Forms,              \* of "bet", "claim", "page" and "create"
    MaxSubmissions      \* bound: submissions followed

Submissions == 1..MaxSubmissions
None == 0

VARIABLES
    wallet,       \* an address is in the session storage
    resolved,     \* the market of the claim is shown as resolved
    form,         \* each submission's form
    at,           \* where it is
    tx,           \* what the network has made of its transaction
    status,       \* each form's status, and the submission it is about
    lastTxStatus, \* that of the store
    isSubmitting, \* each form's flag
    left          \* history: the market left 'resolved' during a claim

clientVars == <<wallet, resolved, form, at, tx, status, lastTxStatus,
                isSubmitting, left>>

Idle == [state |-> "idle", of |-> None]

ClientInit ==
    /\ wallet = FALSE /\ resolved = TRUE /\ left = FALSE
    /\ form = [s \in Submissions |-> "none"]
    /\ at = [s \in Submissions |-> "none"]
    /\ tx = [s \in Submissions |-> "none"]
    /\ status = [f \in Forms |-> Idle]
    /\ lastTxStatus = Idle
    /\ isSubmitting = [f \in Forms |-> FALSE]

Waiting == {"signing", "broadcasting", "confirming"}
UsesStore(f) == f \in {"bet", "claim"}

(* The form's own status and, for a claim all along and for a bet at its    *)
(* end, the store's.                                                        *)
Say(f, state, s) == status' = [status EXCEPT ![f] = [state |-> state, of |-> s]]
Tell(f, state, s) ==
    /\ Say(f, state, s)
    /\ lastTxStatus' = IF UsesStore(f) THEN [state |-> state, of |-> s]
                                       ELSE lastTxStatus
Report(f, state, s) ==
    IF f = "claim" THEN Tell(f, state, s)
    ELSE Say(f, state, s) /\ UNCHANGED lastTxStatus

-----------------------------------------------------------------------------
(* connectWallet may be refused, which changes nothing.                     *)
ConnectWallet ==
    /\ ~wallet /\ wallet' = TRUE
    /\ UNCHANGED <<resolved, form, at, tx, status, lastTxStatus, isSubmitting, left>>

DisconnectWallet ==
    /\ wallet /\ wallet' = FALSE
    /\ UNCHANGED <<resolved, form, at, tx, status, lastTxStatus, isSubmitting, left>>

(* When a form's button can be pressed; without an address nothing is sent. *)
(* (A mutant lets a form go by what it shows alone.)                        *)
CanBet == ~isSubmitting["bet"]
CanClaim == resolved /\ ~isSubmitting["claim"] /\ status["claim"] = Idle
NotWaiting(f) == status[f].state \notin Waiting
NotSigning(f) == wallet /\ status[f].state # "signing"
CanSubmit(f) ==
    /\ wallet
    /\ CASE f = "bet"   -> CanBet
         [] f = "claim" -> CanClaim
         [] OTHER       -> NotWaiting(f)

Submit(f, s) ==
    /\ at[s] = "none" /\ \A r \in 1..s - 1 : at[r] # "none"
    /\ CanSubmit(f)
    /\ form' = [form EXCEPT ![s] = f]
    /\ at' = [at EXCEPT ![s] = "prepare"]
    /\ isSubmitting' = [isSubmitting EXCEPT ![f] = f \in {"bet", "claim"}]
    /\ Report(f, IF f = "bet" THEN "broadcasting" ELSE "signing", s)
    /\ UNCHANGED <<wallet, resolved, tx, left>>

(* The source account is loaded and the transaction simulated; then the     *)
(* wallet signs it.                                                         *)
Prepare(s) ==
    /\ at[s] = "prepare"
    /\ at' = [at EXCEPT ![s] = "sign"]
    /\ UNCHANGED <<wallet, resolved, form, tx, status, lastTxStatus, isSubmitting, left>>

Sign(s) ==
    /\ at[s] = "sign"
    /\ at' = [at EXCEPT ![s] = "send"]
    /\ IF form[s] = "claim" THEN Report("claim", "broadcasting", s)
                            ELSE UNCHANGED <<status, lastTxStatus>>
    /\ UNCHANGED <<wallet, resolved, form, tx, isSubmitting, left>>

(* sendTransaction; its answer may be lost, which ends the submission though*)
(* the network has the transaction.                                         *)
Send(s) ==
    /\ at[s] = "send"
    /\ tx' = [tx EXCEPT ![s] = "pending"]
    /\ at' = [at EXCEPT ![s] = "poll"]
    /\ IF form[s] = "claim" THEN Report("claim", "confirming", s)
                            ELSE UNCHANGED <<status, lastTxStatus>>
    /\ UNCHANGED <<wallet, resolved, form, isSubmitting, left>>

Finish(s) ==
    /\ at' = [at EXCEPT ![s] = "done"]
    /\ isSubmitting' = [isSubmitting EXCEPT ![form[s]] = FALSE]

(* getTransaction is asked again while the node knows nothing; whatever it  *)
(* says but SUCCESS is an error.  (A mutant takes any answer.)              *)
Answered(s) == tx[s] # "pending"
Confirmed(s) == tx[s] = "success"

Succeed(s) ==
    /\ at[s] = "poll" /\ Confirmed(s)
    /\ Finish(s)
    /\ Tell(form[s], "success", s)
    /\ UNCHANGED <<wallet, resolved, form, tx, left>>

(* No wallet, a simulation that fails, a signature that is refused, a       *)
(* request that fails, a transaction that did not succeed or is not known   *)
(* after the last poll.  useCreateMarket does not throw what it catches, so *)
(* its page takes the return for success.                                   *)
Thrown(f) == IF f = "create" THEN "success" ELSE "error"

Throw(s) ==
    /\ at[s] \in {"prepare", "sign", "send", "poll"}
    /\ Finish(s)
    /\ Tell(form[s], Thrown(form[s]), s)
    /\ \/ UNCHANGED tx
       \/ at[s] = "send" /\ tx' = [tx EXCEPT ![s] = "pending"]
    /\ UNCHANGED <<wallet, resolved, form, left>>

-----------------------------------------------------------------------------
(* A toast is dismissed, by the user or after six seconds.  BetForm's resets*)
(* the store only.                                                          *)
Dismiss(f) ==
    /\ status[f].state \in {"success", "error"}
    /\ IF f = "bet" THEN UNCHANGED status
                    ELSE status' = [status EXCEPT ![f] = Idle]
    /\ lastTxStatus' = IF UsesStore(f) THEN Idle ELSE lastTxStatus
    /\ UNCHANGED <<wallet, resolved, form, at, tx, isSubmitting, left>>

(* The market is polled; when it is no longer resolved (an indexer that     *)
(* replays its lock makes it so), the claim's panel is reset, whatever it is*)
(* doing.                                                                   *)
InFlight(f) == {s \in Submissions : form[s] = f /\ at[s] \notin {"none", "done"}}

MarketChanges ==
    /\ "claim" \in Forms
    /\ resolved' = ~resolved
    /\ IF resolved
       THEN /\ status' = [status EXCEPT !["claim"] = Idle]
            /\ lastTxStatus' = Idle
            /\ isSubmitting' = [isSubmitting EXCEPT !["claim"] = FALSE]
            /\ left' = (left \/ InFlight("claim") # {})
       ELSE UNCHANGED <<status, lastTxStatus, isSubmitting, left>>
    /\ UNCHANGED <<wallet, form, at, tx>>

(* External. *)
Settle(s) ==
    /\ tx[s] = "pending"
    /\ \E state \in {"success", "failed", "expired"} :
          /\ state = "success" /\ form[s] = "claim" =>
                \A r \in Submissions : form[r] = "claim" => tx[r] # "success"
          /\ tx' = [tx EXCEPT ![s] = state]
    /\ UNCHANGED <<wallet, resolved, form, at, status, lastTxStatus, isSubmitting, left>>

ClientNext ==
    \/ ConnectWallet \/ DisconnectWallet \/ MarketChanges
    \/ \E f \in Forms : Dismiss(f) \/ \E s \in Submissions : Submit(f, s)
    \/ \E s \in Submissions :
          Prepare(s) \/ Sign(s) \/ Send(s) \/ Succeed(s) \/ Throw(s) \/ Settle(s)

ClientSpec == ClientInit /\ [][ClientNext]_clientVars

-----------------------------------------------------------------------------
(* Properties *)

(* Whatever form or toast says that a transaction succeeded, the transaction*)
(* it is about has been applied: also when it was given up before, or when  *)
(* another form has written the store meanwhile.  The form that creates a   *)
(* market is left out: it says so of any outcome (see Thrown).              *)
SuccessMeansApplied ==
    /\ \A f \in Forms \ {"create"} :
          status[f].state = "success" => tx[status[f].of] = "success"
    /\ lastTxStatus.state = "success" => tx[lastTxStatus.of] = "success"

(* A form never has two transactions under way, but for a claim's panel that*)
(* was reset under a claim.                                                 *)
OneUnderWay ==
    \A f \in Forms : Cardinality(InFlight(f)) <= 1 \/ (f = "claim" /\ left)
==============================================================================
