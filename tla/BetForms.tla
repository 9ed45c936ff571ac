------------------------------- MODULE BetForms -------------------------------
(***************************************************************************)
(* The two forms a bet is placed with: BetForm, which sends it at once, and*)
(* BetPanel, which asks in a dialog first (BetConfirmModal) and speaks of   *)
(* the outcome in toasts.  The form in use is chosen in the initial state.  *)
(* What happens to a bet's transaction is ClientTransactions' subject.      *)
(***************************************************************************)
EXTENDS Naturals

CONSTANTS
    Sides,
    Stakes,      \* what is typed, in half XLM
    MaxSent      \* bound: bets sent

None == "none"
NoBet == [side |-> "nothing", amount |-> 0]

VARIABLES
    kind,         \* "form" or "panel"
    connected,    \* the wallet has an address
    open,         \* the market is shown as open
    side, amount, \* what is chosen and typed, None and 0 when nothing is
    showModal,
    dialog,       \* history: what the dialog showed when it was opened
    sending,      \* the bet under way
    txStatus,
    captured,     \* the status in the closure of the dialog's handler
    said,         \* the toast on the screen
    sent

betFormVars == <<kind, connected, open, side, amount, showModal, dialog, sending,
                 txStatus, captured, said, sent>>

FormInit ==
    /\ kind \in {"form", "panel"}
    /\ connected = FALSE /\ open = TRUE
    /\ side = None /\ amount = 0
    /\ showModal = FALSE /\ dialog = NoBet
    /\ sending = NoBet
    /\ txStatus = "idle" /\ captured = "idle" /\ said = "idle"
    /\ sent = 0

-----------------------------------------------------------------------------
(* Without a wallet, or on a market that is not open, a notice takes the   *)
(* place of the whole form; its state is kept, that of the dialog too.      *)
Rendered == connected /\ open
isSubmitting == sending # NoBet

ConnectOrNot ==
    /\ connected' = ~connected
    /\ UNCHANGED <<kind, open, side, amount, showModal, dialog, sending, txStatus,
                   captured, said, sent>>

MarketPolled ==
    /\ open' = ~open
    /\ UNCHANGED <<kind, connected, side, amount, showModal, dialog, sending,
                   txStatus, captured, said, sent>>

(* The dialog covers the fields.  BetForm disables them under a bet.        *)
CanEdit == Rendered /\ ~showModal /\ (kind = "form" => ~isSubmitting)

Choose(s) ==
    /\ CanEdit /\ side # s
    /\ side' = s
    /\ UNCHANGED <<kind, connected, open, amount, showModal, dialog, sending,
                   txStatus, captured, said, sent>>

Type(a) ==
    /\ CanEdit /\ amount # a
    /\ amount' = a
    /\ UNCHANGED <<kind, connected, open, side, showModal, dialog, sending,
                   txStatus, captured, said, sent>>

(* BetForm alone asks for an XLM at least.                                  *)
MinStake == IF kind = "form" THEN 2 ELSE 1
CanSubmit == Rendered /\ side # None /\ amount >= MinStake /\ ~isSubmitting

Send(status) ==
    /\ sent < MaxSent /\ sent' = sent + 1
    /\ sending' = [side |-> side, amount |-> amount]
    /\ txStatus' = status

PlaceBet ==
    /\ CanSubmit /\ ~showModal
    /\ IF kind = "panel"
       THEN /\ showModal' = TRUE
            /\ dialog' = [side |-> side, amount |-> amount]
            /\ UNCHANGED <<sending, txStatus, sent>>
       ELSE Send("broadcasting") /\ UNCHANGED <<showModal, dialog>>
    /\ UNCHANGED <<kind, connected, open, side, amount, captured, said>>

(* The button, a click beside the dialog, or Escape.                        *)
CancelDialog ==
    /\ Rendered /\ showModal
    /\ showModal' = FALSE
    /\ UNCHANGED <<kind, connected, open, side, amount, dialog, sending, txStatus,
                   captured, said, sent>>

(* submit of useBet returns at once when there is nothing to send, which   *)
(* the dialog cannot know: it shows fighter A and a stake of nothing.       *)
(* (A mutant sends what the dialog shows.)                                  *)
AnyBet == TRUE
HasBet == side # None /\ amount > 0

Confirm ==
    /\ Rendered /\ showModal
    /\ showModal' = FALSE
    /\ IF HasBet
       THEN Send("signing") /\ captured' = txStatus /\ UNCHANGED said
       ELSE /\ said' = IF txStatus \in {"success", "error"} THEN txStatus ELSE said
            /\ UNCHANGED <<sending, txStatus, captured, sent>>
    /\ UNCHANGED <<kind, connected, open, side, amount, dialog>>

(* The outcome.  BetForm is emptied by success.  The dialog's handler looks *)
(* at the status it was rendered with, so its toast, if any, tells what     *)
(* became of the bet before.                                                *)
Ended ==
    /\ isSubmitting
    /\ sending' = NoBet
    /\ txStatus' \in {"success", "error"}
    /\ IF kind = "form" /\ txStatus' = "success"
       THEN side' = None /\ amount' = 0
       ELSE UNCHANGED <<side, amount>>
    /\ said' = IF captured \in {"success", "error"} THEN captured ELSE said
    /\ captured' = "idle"
    /\ UNCHANGED <<kind, connected, open, showModal, dialog, sent>>

(* The status is dismissed, also by its timer: under an open dialog as well.*)
(* After a success the panel is reset.  BetForm's own status stays.         *)
Dismiss ==
    /\ Rendered /\ txStatus \in {"success", "error"} /\ kind = "panel"
    /\ txStatus' = "idle"
    /\ IF txStatus = "success" THEN side' = None /\ amount' = 0
                               ELSE UNCHANGED <<side, amount>>
    /\ UNCHANGED <<kind, connected, open, showModal, dialog, sending, captured, said,
                   sent>>

(* A toast goes after five seconds, or when it is dismissed.                *)
ToastGoes ==
    /\ said # "idle"
    /\ said' = "idle"
    /\ UNCHANGED <<kind, connected, open, side, amount, showModal, dialog, sending,
                   txStatus, captured, sent>>

FormNext ==
    \/ ConnectOrNot \/ MarketPolled \/ PlaceBet \/ CancelDialog \/ Confirm
    \/ Ended \/ Dismiss \/ ToastGoes
    \/ \E s \in Sides : Choose(s)
    \/ \E a \in Stakes : Type(a)

FormSpec == FormInit /\ [][FormNext]_betFormVars

-----------------------------------------------------------------------------
(* Properties *)

(* The panel sends no bet but the one its dialog showed when it was opened: *)
(* though the panel may have been reset under the dialog, edited while a    *)
(* bet before was under way, or hidden with the dialog open while the market*)
(* was locked.                                                              *)
SentAsConfirmed == kind = "panel" /\ isSubmitting => sending = dialog
==============================================================================
