----------------------------- MODULE ActionPages -----------------------------
(***************************************************************************)
(* Three pages of the browser that send one transaction at a time and then *)
(* change what they show without asking anybody: the payer's invoices       *)
(* (app/payer), a proposal (app/governance/[id]) and the form for a new one *)
(* (app/governance/new).  Their rows are mock data; their transactions are *)
(* not.  The page in use is chosen in the initial state.                    *)
(*                                                                         *)
(* The contracts are external: one takes a payment of an invoice once, a    *)
(* vote of an address once and an execution once, and any proposal.         *)
(***************************************************************************)
EXTENDS Naturals, FiniteSets

CONSTANTS
    Rows,           \* the invoices
    Addresses,
    MaxAttempts,    \* bound: transactions built
    MaxMoves        \* bound: changes of the wallet

Attempts == 1..MaxAttempts
None == 0
Blank == [call |-> "none", on |-> None, by |-> "none", state |-> "none"]

VARIABLES
    page,          \* "payer", "proposal" or "new"
    connected,     \* the wallet's address
    invoices,      \* each Funded, Paid or gone from the list
    selected,      \* the invoice in the dialog
    proposal,      \* its status, of the mock data or Executed
    hasVoted,
    counted,       \* the votes added to the tallies
    txStatus,
    attempts,      \* the transactions
    flight,        \* the one the page awaits
    timers,        \* the invoices that a timer will take off the list
    moves

actionVars == <<page, connected, invoices, selected, proposal, hasVoted, counted,
                txStatus, attempts, flight, timers, moves>>

Hydrated(who) ==
    [r \in Rows |-> IF who = "none" THEN "gone" ELSE "Funded"]

ActionInit ==
    /\ page \in {"payer", "proposal", "new"}
    /\ connected = "none"
    /\ invoices = Hydrated("none")
    /\ selected = None
    /\ proposal \in {"Active", "Passed"}
    /\ hasVoted = FALSE /\ counted = {}
    /\ txStatus = "idle"
    /\ attempts = [a \in Attempts |-> Blank]
    /\ flight = None /\ timers = {}
    /\ moves = 0

-----------------------------------------------------------------------------
(* A page reads the address when it renders, which it does at once here. The*)
(* effects on it fetch the mock data anew; without an address the proposal's*)
(* page keeps hasVoted.                                                     *)
Switch(who) ==
    /\ who # connected /\ moves < MaxMoves
    /\ moves' = moves + 1
    /\ connected' = who
    /\ invoices' = Hydrated(who)
    /\ proposal' = IF proposal = "Executed" THEN "Passed" ELSE proposal
    /\ counted' = {}
    /\ hasVoted' = (hasVoted /\ who = "none")
    /\ UNCHANGED <<page, selected, txStatus, attempts, flight, timers>>

Open(r) ==
    /\ page = "payer" /\ selected = None /\ invoices[r] = "Funded"
    /\ selected' = r
    /\ UNCHANGED <<page, connected, invoices, proposal, hasVoted, counted,
                   txStatus, attempts, flight, timers, moves>>

Cancel ==
    /\ page = "payer" /\ selected # None /\ connected # "none"
    /\ txStatus # "signing"
    /\ selected' = None
    /\ UNCHANGED <<page, connected, invoices, proposal, hasVoted, counted,
                   txStatus, attempts, flight, timers, moves>>

(* What the page's buttons send, when they are not disabled: an execution   *)
(* also without an address, which the wallet then refuses.  The new         *)
(* proposal's form checks its fields first.                                 *)
CanSend(call) ==
    /\ txStatus # "signing"
    /\ CASE call = "mark_paid" ->
              page = "payer" /\ connected # "none" /\ selected # None
         [] call = "vote" ->
              /\ page = "proposal" /\ connected # "none"
              /\ proposal = "Active" /\ ~hasVoted
         [] call = "execute_proposal" -> page = "proposal" /\ proposal = "Passed"
         [] call = "create_proposal" -> page = "new" /\ connected # "none"

Submit(call, a) ==
    /\ CanSend(call)
    /\ attempts[a] = Blank /\ \A b \in 1..a - 1 : attempts[b] # Blank
    /\ attempts' = [attempts EXCEPT ![a] =
          [call |-> call, on |-> IF call = "mark_paid" THEN selected ELSE None,
           by |-> connected, state |-> "building"]]
    /\ flight' = a
    /\ txStatus' = "signing"
    /\ UNCHANGED <<page, connected, invoices, selected, proposal, hasVoted,
                   counted, timers, moves>>

(* buildAndSubmit has the transaction signed and sends it.                  *)
Broadcast ==
    /\ flight # None /\ attempts[flight].state = "building"
    /\ attempts[flight].by # "none"
    /\ attempts' = [attempts EXCEPT ![flight].state = "pending"]
    /\ UNCHANGED <<page, connected, invoices, selected, proposal, hasVoted,
                   counted, txStatus, flight, timers, moves>>

(* External. *)
Accepts(a) ==
    \A b \in Attempts \ {a} :
       attempts[b].state = "applied" /\ attempts[b].call = attempts[a].call =>
          CASE attempts[a].call = "mark_paid" -> attempts[b].on # attempts[a].on
            [] attempts[a].call = "vote" -> attempts[b].by # attempts[a].by
            [] attempts[a].call = "execute_proposal" -> FALSE
            [] OTHER -> TRUE

Include(a) ==
    /\ attempts[a].state = "pending"
    /\ \E state \in {"applied", "failed"} :
          /\ state = "applied" => Accepts(a)
          /\ attempts' = [attempts EXCEPT ![a].state = state]
    /\ UNCHANGED <<page, connected, invoices, selected, proposal, hasVoted,
                   counted, txStatus, flight, timers, moves>>

(* The last status buildAndSubmit polls must be SUCCESS.  (A mutant takes  *)
(* any answer but NOT_FOUND.)                                               *)
Answered(a) == attempts[a].state \in {"applied", "failed"}
Confirmed(a) == attempts[a].state = "applied"

(* The handler goes on with the invoice it was called for, whatever is in  *)
(* the dialog by now, and with the vote, whoever is connected.              *)
Succeed ==
    LET tx == attempts[flight]
    IN /\ flight # None /\ Confirmed(flight)
       /\ flight' = None
       /\ txStatus' = "success"
       /\ IF tx.call = "mark_paid"
          THEN /\ timers' = timers \cup {tx.on}
               /\ invoices' = [invoices EXCEPT ![tx.on] =
                                  IF @ = "Funded" THEN "Paid" ELSE @]
          ELSE UNCHANGED <<invoices, timers>>
       /\ IF tx.call = "vote"
          THEN hasVoted' = TRUE /\ counted' = counted \cup {flight}
          ELSE UNCHANGED <<hasVoted, counted>>
       /\ proposal' = IF tx.call = "execute_proposal" THEN "Executed" ELSE proposal
       /\ UNCHANGED <<page, connected, selected, attempts, moves>>

(* No signature, a refusal, or no answer in time: the network may have it.  *)
Fail ==
    /\ flight # None
    /\ flight' = None
    /\ txStatus' = "error"
    /\ selected' = None
    /\ \/ UNCHANGED attempts
       \/ /\ attempts[flight].state = "building" /\ attempts[flight].by # "none"
          /\ attempts' = [attempts EXCEPT ![flight].state = "pending"]
    /\ UNCHANGED <<page, connected, invoices, proposal, hasVoted, counted, timers,
                   moves>>

(* Three seconds after a payment the dialog is closed, whatever it is about.*)
Expire(r) ==
    /\ r \in timers
    /\ timers' = timers \ {r}
    /\ selected' = None
    /\ invoices' = [invoices EXCEPT ![r] = "gone"]
    /\ UNCHANGED <<page, connected, proposal, hasVoted, counted, txStatus,
                   attempts, flight, moves>>

Dismiss ==
    /\ txStatus \in {"success", "error"}
    /\ txStatus' = "idle"
    /\ UNCHANGED <<page, connected, invoices, selected, proposal, hasVoted,
                   counted, attempts, flight, timers, moves>>

ActionNext ==
    \/ Cancel \/ Broadcast \/ Succeed \/ Fail \/ Dismiss
    \/ \E who \in Addresses \cup {"none"} : Switch(who)
    \/ \E r \in Rows : Open(r) \/ Expire(r)
    \/ \E a \in Attempts :
          \/ Include(a)
          \/ \E call \in {"mark_paid", "vote", "execute_proposal", "create_proposal"} :
                Submit(call, a)

ActionSpec == ActionInit /\ [][ActionNext]_actionVars

-----------------------------------------------------------------------------
(* Properties *)

Applied(call) ==
    {a \in Attempts : attempts[a].call = call /\ attempts[a].state = "applied"}

(* However wallets change and timers fire under a transaction: an invoice  *)
(* is shown as paid, or taken off its payer's list, only when a payment of  *)
(* it was applied; the tallies count applied votes, at most one for each    *)
(* time the page was loaded; and what is shown as executed has been.        *)
ShownIsBacked ==
    /\ \A r \in Rows :
          invoices[r] = "Paid" \/ (invoices[r] = "gone" /\ connected # "none") =>
             \E a \in Applied("mark_paid") : attempts[a].on = r
    /\ counted \subseteq Applied("vote") /\ Cardinality(counted) <= 1
    /\ hasVoted => Applied("vote") # {}
    /\ proposal = "Executed" => Applied("execute_proposal") # {}
==============================================================================
