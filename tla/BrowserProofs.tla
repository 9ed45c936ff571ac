---------------------------- MODULE BrowserProofs ----------------------------
(***************************************************************************)
(* What the parts of the browser that MCParts runs keep, for any number of *)
(* submissions, sources, wallets and amounts.  Each part has an inductive  *)
(* invariant of its own; a step of MCParts is a step of one part and leaves*)
(* the others as they are.                                                 *)
(***************************************************************************)
EXTENDS MCParts, Sequences, SumTheorems

(* An instance has a Cardinality and a sum of its own, which are the same.  *)
LEMMA SameCardinality ==
    \A S : /\ Events!Cardinality(S) = Cardinality(S)
           /\ Client!Cardinality(S) = Cardinality(S)
           /\ Actions!Cardinality(S) = Cardinality(S)
<1>1. \A S : Events!Cardinality(S) = Cardinality(S)
  BY Zenon DEF Events!Cardinality, Cardinality
<1>2. \A S : Client!Cardinality(S) = Cardinality(S)
  BY Zenon DEF Client!Cardinality, Cardinality
<1>3. \A S : Actions!Cardinality(S) = Cardinality(S)
  BY Zenon DEF Actions!Cardinality, Cardinality
<1> QED
  BY <1>1, <1>2, <1>3

LEMMA SameSum == \A f, S : Quote!SumFunctionOnSet(f, S) = SumFunctionOnSet(f, S)
  BY Zenon DEF Quote!SumFunctionOnSet, Quote!FoldFunctionOnSet, Quote!MapThenFoldSet,
               SumFunctionOnSet, FoldFunctionOnSet, MapThenFoldSet

(* To each part, a step of MCParts is one of its own or no step at all.     *)
LEMMA OneAtATime ==
    ASSUME [PartsNext]_variables
    PROVE  /\ [Events!EventNext]_eventVars
           /\ [Client!ClientNext]_clientVars
           /\ [Quote!QuoteNext]_quoteVars
           /\ [Actions!ActionNext]_actionVars
           /\ [BetForm!FormNext]_betFormVars
           /\ [Session!SessionNext]_sessionVars
<1> USE DEF PartsNext, Others, variables
<1>1. [Events!EventNext]_eventVars
  OBVIOUS
<1>2. [Client!ClientNext]_clientVars
  OBVIOUS
<1>3. [Quote!QuoteNext]_quoteVars
  OBVIOUS
<1>4. [Actions!ActionNext]_actionVars
  OBVIOUS
<1>5. [BetForm!FormNext]_betFormVars
  OBVIOUS
<1>6. [Session!SessionNext]_sessionVars
  OBVIOUS
<1> QED
  BY <1>1, <1>2, <1>3, <1>4, <1>5, <1>6

-----------------------------------------------------------------------------
(* The subscription to a contract's events *)

(* Before the end: a reconnection is pending, or one source is open, the    *)
(* one that the subscription knows, or it has given up.                     *)
OneSource ==
    \/ live = {} /\ timers = 1
    \/ live = {eventSource} /\ timers = 0
    \/ live = {} /\ timers = 0 /\ reconnectAttempts = MaxReconnectAttempts

EventInv ==
    /\ isUnsubscribed \in BOOLEAN /\ missed \in BOOLEAN
    /\ timers \in Nat
    /\ reconnectAttempts \in 0..MaxReconnectAttempts
    /\ ~missed
    /\ isUnsubscribed => live = {}
    /\ ~isUnsubscribed => OneSource

LEMMA EventInvStep ==
    ASSUME MaxReconnectAttempts \in Nat
    PROVE  EventInv /\ [Events!EventNext]_eventVars => EventInv'
<1> SUFFICES ASSUME EventInv, [Events!EventNext]_eventVars
             PROVE  EventInv'
  OBVIOUS
<1> USE DEF EventInv, OneSource
<1>1. CASE UNCHANGED eventVars
  BY <1>1 DEF eventVars
<1>2. CASE Events!Connect
  <2>1. timers > 0 /\ timers' = timers - 1
        /\ UNCHANGED <<reconnectAttempts, isUnsubscribed, missed>>
    BY <1>2 DEF Events!Connect
  <2>2. CASE isUnsubscribed
    BY <1>2, <2>1, <2>2 DEF Events!Connect, Events!Wanted
  <2>3. CASE ~isUnsubscribed
    <3>1. live = {} /\ timers = 1
      BY <2>1, <2>3
    <3>2. live' = live \cup {opened + 1} /\ eventSource' = opened + 1
      BY <1>2, <2>3 DEF Events!Connect, Events!Wanted
    <3> QED
      BY <2>1, <2>3, <3>1, <3>2
  <2> QED
    BY <2>2, <2>3
<1>3. CASE Events!Unsubscribe
  BY <1>3 DEF Events!Unsubscribe
<1>4. ASSUME NEW s \in Events!Sources, Events!Message(s)
      PROVE  EventInv'
  BY <1>4 DEF Events!Message
<1>5. ASSUME NEW s \in Events!Sources, Events!SourceError(s)
      PROVE  EventInv'
  <2>1. s \in live /\ ~isUnsubscribed /\ live = {eventSource} /\ timers = 0
    BY <1>5 DEF Events!SourceError
  <2>2. /\ live' = {} /\ UNCHANGED <<isUnsubscribed, missed>>
        /\ IF reconnectAttempts < MaxReconnectAttempts
           THEN reconnectAttempts' = reconnectAttempts + 1 /\ timers' = timers + 1
           ELSE UNCHANGED <<reconnectAttempts, timers>>
    BY <1>5, <2>1 DEF Events!SourceError
  <2> QED
    BY <2>1, <2>2
<1> QED
  BY <1>1, <1>2, <1>3, <1>4, <1>5 DEF Events!EventNext

(* Once unsubscribed, also while a reconnection is pending, no source is    *)
(* left open and no event is delivered; before, one source is open or one   *)
(* reconnection pending, unless the subscription has given up.              *)
THEOREM AlwaysSilentOnceUnsubscribed ==
    ASSUME MaxReconnectAttempts \in Nat
    PROVE  PartsSpec => []SilentOnceUnsubscribed
<1>1. PartsInit => EventInv
  <2>1. PartsInit => Events!EventInit
    BY DEF PartsInit
  <2>2. ASSUME Events!EventInit
        PROVE  EventInv
    <3>1. live = {eventSource} /\ timers = 0
      BY <2>2 DEF Events!EventInit
    <3>2. reconnectAttempts = 0 /\ isUnsubscribed = FALSE /\ missed = FALSE
      BY <2>2 DEF Events!EventInit
    <3>3. OneSource /\ timers \in Nat
      BY <3>1 DEF OneSource
    <3>4. reconnectAttempts \in 0..MaxReconnectAttempts
      BY <3>2
    <3>5. ~missed /\ missed \in BOOLEAN /\ ~isUnsubscribed /\ isUnsubscribed \in BOOLEAN
      BY <3>2
    <3> QED
      BY <3>3, <3>4, <3>5 DEF EventInv
  <2> QED
    BY <2>1, <2>2
<1>2. EventInv /\ [PartsNext]_variables => EventInv'
  BY EventInvStep, OneAtATime
<1>3. EventInv => SilentOnceUnsubscribed
  <2> SUFFICES ASSUME EventInv
               PROVE  Events!SilentOnceUnsubscribed
    BY DEF SilentOnceUnsubscribed
  <2>1. /\ Events!Cardinality({}) = 0
        /\ Events!Cardinality({eventSource}) = 1
    BY SameCardinality, FS_EmptySet, FS_Singleton
  <2>2. live = {} \/ live = {eventSource}
    BY DEF EventInv, OneSource
  <2> QED
    BY <2>1, <2>2 DEF EventInv, OneSource, Events!SilentOnceUnsubscribed
<1> QED
  BY <1>1, <1>2, <1>3, PTL DEF PartsSpec

-----------------------------------------------------------------------------
(* The wallet's session *)

(* A call that is about to write the address it has.                        *)
Writing(c) == calls[c].awaits \in {"balance", "restore"}

SessionInv ==
    /\ DOMAIN calls = 1..MaxCalls
    /\ revived \in BOOLEAN
    /\ ~revived => walletAddress = kept \/ \E c \in 1..MaxCalls : Writing(c)

LEMMA SessionInvStep ==
    ASSUME MaxCalls \in Nat \ {0}
    PROVE  SessionInv /\ [Session!SessionNext]_sessionVars => SessionInv'
<1> SUFFICES ASSUME SessionInv, [Session!SessionNext]_sessionVars
             PROVE  SessionInv'
  OBVIOUS
<1> USE DEF SessionInv, Writing
<1>1. CASE UNCHANGED sessionVars
  BY <1>1 DEF sessionVars
<1>2. ASSUME NEW call, Session!Begin(call)
      PROVE  \E c \in 1..MaxCalls :
                /\ ~Writing(c) /\ calls'[c] = call /\ DOMAIN calls' = 1..MaxCalls
                /\ \A d \in 1..MaxCalls \ {c} : calls'[d] = calls[d]
  BY <1>2 DEF Session!Begin, Session!Free
<1>3. CASE Session!Connect
  <2>1. UNCHANGED <<kept, walletAddress, revived>>
    BY <1>3 DEF Session!Connect
  <2> QED
    BY <1>2, <1>3, <2>1 DEF Session!Connect
<1>4. CASE Session!Mount
  <2>1. UNCHANGED <<kept, walletAddress, revived>>
    BY <1>4 DEF Session!Mount
  <2> QED
    BY <1>2, <1>4, <2>1 DEF Session!Mount
<1>5. CASE Session!Disconnect
  BY <1>5 DEF Session!Disconnect
<1>6. CASE Session!Reload
  <2>1. /\ walletAddress' = "none" /\ kept' = kept /\ ~revived' /\ revived' \in BOOLEAN
        /\ calls' = [c \in 1..MaxCalls |->
                       IF c = 1 /\ kept # "none"
                       THEN [awaits |-> "restore", address |-> kept] ELSE Session!Free]
    BY <1>6 DEF Session!Reload, Session!Nobody
  <2>2. kept # "none" => calls'[1].awaits = "restore" /\ 1 \in 1..MaxCalls
    BY <2>1
  <2> QED
    BY <2>1, <2>2
<1>7. ASSUME NEW c \in 1..MaxCalls, Session!Refused(c)
      PROVE  SessionInv'
  BY <1>7 DEF Session!Refused, Session!End
<1>8. ASSUME NEW c \in 1..MaxCalls, Session!Connected(c)
      PROVE  SessionInv'
  BY <1>8 DEF Session!Connected, Session!End, Session!StoredAgain
<1>9. ASSUME NEW c \in 1..MaxCalls, Session!Restored(c)
      PROVE  SessionInv'
  BY <1>9 DEF Session!Restored, Session!End
<1>10. ASSUME NEW c \in 1..MaxCalls, NEW who \in Wallets, Session!ConnectWallet(c, who)
       PROVE  SessionInv'
  <2>1. /\ calls' = [calls EXCEPT ![c] = [awaits |-> "balance", address |-> who]]
        /\ revived' = revived
    BY <1>10 DEF Session!ConnectWallet
  <2>2. calls'[c].awaits = "balance" /\ DOMAIN calls' = 1..MaxCalls
    BY <2>1
  <2> QED
    BY <2>1, <2>2
<1> QED
  BY <1>1, <1>3, <1>4, <1>5, <1>6, <1>7, <1>8, <1>9, <1>10 DEF Session!SessionNext

(* Connecting with two accounts at once, mounting and disconnecting in any  *)
(* order: when nothing is under way, the address the pages show is the one *)
(* transactions are built with, unless a restored address came late.        *)
THEOREM AlwaysShownIsUsed ==
    ASSUME MaxCalls \in Nat \ {0}
    PROVE  PartsSpec => []ShownIsUsed
<1>1. PartsInit => SessionInv
  <2>1. PartsInit => Session!SessionInit
    BY DEF PartsInit
  <2> QED
    BY <2>1 DEF Session!SessionInit, SessionInv
<1>2. SessionInv /\ [PartsNext]_variables => SessionInv'
  BY SessionInvStep, OneAtATime
<1>3. SessionInv => ShownIsUsed
  BY DEF SessionInv, Writing, ShownIsUsed, Session!ShownIsUsed, Session!Free
<1> QED
  BY <1>1, <1>2, <1>3, PTL DEF PartsSpec

-----------------------------------------------------------------------------
(* The forms that place bets *)

(* Under an open dialog nothing is edited: what it showed is what would be  *)
(* sent, unless the panel has been reset, and then nothing would be.        *)
FormInv ==
    kind = "panel" =>
        /\ showModal => side = "none" \/ dialog = [side |-> side, amount |-> amount]
        /\ sending # BetForm!NoBet => sending = dialog

LEMMA FormInvStep == FormInv /\ [BetForm!FormNext]_betFormVars => FormInv'
<1> SUFFICES ASSUME FormInv, [BetForm!FormNext]_betFormVars
             PROVE  FormInv'
  OBVIOUS
<1> USE DEF FormInv, BetForm!None
<1>1. CASE UNCHANGED betFormVars
  BY <1>1 DEF betFormVars
<1>2. CASE BetForm!ConnectOrNot \/ BetForm!MarketPolled \/ BetForm!ToastGoes
  BY <1>2 DEF BetForm!ConnectOrNot, BetForm!MarketPolled, BetForm!ToastGoes
<1>3. CASE BetForm!PlaceBet
  <2>1. kind = "panel" => /\ dialog' = [side |-> side, amount |-> amount]
                          /\ UNCHANGED <<sending, side, amount>> /\ sending = BetForm!NoBet
    BY <1>3 DEF BetForm!PlaceBet, BetForm!CanSubmit, BetForm!isSubmitting
  <2>2. kind' = kind
    BY <1>3 DEF BetForm!PlaceBet
  <2> QED
    BY <2>1, <2>2
<1>4. CASE BetForm!CancelDialog
  BY <1>4 DEF BetForm!CancelDialog
<1>5. CASE BetForm!Confirm
  BY <1>5 DEF BetForm!Confirm, BetForm!Send, BetForm!HasBet
<1>6. CASE BetForm!Ended
  BY <1>6 DEF BetForm!Ended
<1>7. CASE BetForm!Dismiss
  BY <1>7 DEF BetForm!Dismiss
<1>8. ASSUME NEW s \in Sides, BetForm!Choose(s)
      PROVE  FormInv'
  BY <1>8 DEF BetForm!Choose, BetForm!CanEdit
<1>9. ASSUME NEW a \in Stakes, BetForm!Type(a)
      PROVE  FormInv'
  BY <1>9 DEF BetForm!Type, BetForm!CanEdit
<1> QED
  BY <1>1, <1>2, <1>3, <1>4, <1>5, <1>6, <1>7, <1>8, <1>9 DEF BetForm!FormNext

(* The panel sends no bet but the one its dialog showed when it was opened, *)
(* whatever resets it, hides it or ends under the dialog.                   *)
THEOREM AlwaysSentAsConfirmed == PartsSpec => []SentAsConfirmed
<1>1. PartsInit => FormInv
  <2>1. PartsInit => BetForm!FormInit
    BY DEF PartsInit
  <2> QED
    BY <2>1 DEF BetForm!FormInit, FormInv
<1>2. FormInv /\ [PartsNext]_variables => FormInv'
  BY FormInvStep, OneAtATime
<1>3. FormInv => SentAsConfirmed
  BY DEF FormInv, SentAsConfirmed, BetForm!SentAsConfirmed, BetForm!isSubmitting
<1> QED
  BY <1>1, <1>2, <1>3, PTL DEF PartsSpec

-----------------------------------------------------------------------------
(* The transactions of the forms *)

Attempted == Client!Submissions
FormStates == {"idle", "signing", "broadcasting", "confirming", "success", "error"}
FormStatus == [state : FormStates, of : Attempted \cup {0}]

ClientTypes ==
    /\ form \in [Attempted -> Forms \cup {"none"}]
    /\ at \in [Attempted -> {"none", "prepare", "sign", "send", "poll", "done"}]
    /\ tx \in [Attempted -> {"none", "pending", "success", "failed", "expired"}]
    /\ status \in [Forms -> FormStatus]
    /\ lastTxStatus \in FormStatus
    /\ isSubmitting \in [Forms -> BOOLEAN]
    /\ left \in BOOLEAN

(* A submission is a form's, and the network sees it once it was sent.      *)
Progress ==
    \A s \in Attempted :
       /\ at[s] # "none" => form[s] \in Forms
       /\ tx[s] # "none" => at[s] \in {"poll", "done"}

(* Nothing says of a transaction that is not applied that it succeeded.     *)
Told(x, t) == x.state = "success" => x.of \in Attempted /\ t[x.of] = "success"
Truthful ==
    /\ \A f \in Forms \ {"create"} : Told(status[f], tx)
    /\ Told(lastTxStatus, tx)

(* A form that has a transaction under way shows it, and so starts no other;*)
(* a claim's panel that was reset has forgotten its own.                    *)
Flying(s, f) == form[s] = f /\ at[s] \notin {"none", "done"}
Busy(f) == IF f \in {"bet", "claim"} THEN isSubmitting[f]
           ELSE status[f].state \in {"signing", "broadcasting", "confirming"}
Alone(f) ==
    /\ \A s \in Attempted : Flying(s, f) => Busy(f)
    /\ \A r, s \in Attempted : Flying(r, f) /\ Flying(s, f) => r = s
AllAlone == \A f \in Forms : (f = "claim" /\ left) \/ Alone(f)

ClientInv == ClientTypes /\ Progress /\ Truthful /\ AllAlone

(* What the helpers that write the statuses do.                             *)
LEMMA WhatIsTold ==
    ASSUME NEW f \in Forms, NEW state \in FormStates, NEW s \in Attempted,
           ClientTypes,
           Client!Tell(f, state, s) \/ Client!Report(f, state, s)
    PROVE  /\ status' = [status EXCEPT ![f] = [state |-> state, of |-> s]]
           /\ status' \in [Forms -> FormStatus]
           /\ lastTxStatus' \in FormStatus
           /\ \/ lastTxStatus' = lastTxStatus
              \/ lastTxStatus' = [state |-> state, of |-> s] /\ f # "create"
<1>1. status' = [status EXCEPT ![f] = [state |-> state, of |-> s]]
  BY DEF Client!Tell, Client!Report, Client!Say
<1>2. \/ lastTxStatus' = lastTxStatus
      \/ lastTxStatus' = [state |-> state, of |-> s] /\ f # "create"
  BY DEF Client!Tell, Client!Report, Client!Say, Client!UsesStore
<1>3. [state |-> state, of |-> s] \in FormStatus
  BY DEF FormStatus
<1>4. status \in [Forms -> FormStatus] /\ lastTxStatus \in FormStatus
  BY DEF ClientTypes
<1> HIDE DEF FormStatus
<1>5. status' \in [Forms -> FormStatus]
  BY <1>1, <1>3, <1>4
<1>6. lastTxStatus' \in FormStatus
  BY <1>2, <1>3, <1>4
<1> QED
  BY <1>1, <1>2, <1>5, <1>6

(* What each step of a submission changes, and what it tells the user.      *)
LEMMA SubmissionSteps ==
    ASSUME ClientTypes, Progress, NEW s \in Attempted
    PROVE  /\ \A f \in Forms : Client!Submit(f, s) =>
                /\ at[s] = "none" /\ tx' = tx /\ left' = left
                /\ form' = [form EXCEPT ![s] = f]
                /\ at' = [at EXCEPT ![s] = "prepare"]
                /\ isSubmitting' = [isSubmitting EXCEPT ![f] = f \in {"bet", "claim"}]
                /\ Client!CanSubmit(f)
                /\ \E state \in {"signing", "broadcasting"} :
                      Client!Report(f, state, s)
           /\ Client!Prepare(s) =>
                /\ at[s] = "prepare" /\ at' = [at EXCEPT ![s] = "sign"]
                /\ UNCHANGED <<form, tx, status, lastTxStatus, isSubmitting, left>>
           /\ Client!Sign(s) =>
                /\ at[s] = "sign" /\ at' = [at EXCEPT ![s] = "send"]
                /\ UNCHANGED <<form, tx, isSubmitting, left>>
                /\ \/ UNCHANGED <<status, lastTxStatus>>
                   \/ form[s] = "claim" /\ Client!Report("claim", "broadcasting", s)
           /\ Client!Send(s) =>
                /\ at[s] = "send" /\ at' = [at EXCEPT ![s] = "poll"]
                /\ tx' = [tx EXCEPT ![s] = "pending"]
                /\ UNCHANGED <<form, isSubmitting, left>>
                /\ \/ UNCHANGED <<status, lastTxStatus>>
                   \/ form[s] = "claim" /\ Client!Report("claim", "confirming", s)
           /\ Client!Succeed(s) \/ Client!Throw(s) =>
                /\ at[s] \in {"prepare", "sign", "send", "poll"}
                /\ at' = [at EXCEPT ![s] = "done"]
                /\ isSubmitting' = [isSubmitting EXCEPT ![form[s]] = FALSE]
                /\ UNCHANGED <<form, left>>
                /\ form[s] \in Forms
                /\ \E state \in {"success", "error"} :
                      /\ Client!Tell(form[s], state, s)
                      /\ state = "success" /\ form[s] # "create" =>
                            tx[s] = "success" /\ tx' = tx
                /\ tx' = tx \/ (at[s] = "send" /\ tx' = [tx EXCEPT ![s] = "pending"])
<1>1. ASSUME NEW f \in Forms, Client!Submit(f, s)
      PROVE  /\ at[s] = "none" /\ tx' = tx /\ left' = left
             /\ form' = [form EXCEPT ![s] = f]
             /\ at' = [at EXCEPT ![s] = "prepare"]
             /\ isSubmitting' = [isSubmitting EXCEPT ![f] = f \in {"bet", "claim"}]
             /\ Client!CanSubmit(f)
             /\ \E state \in {"signing", "broadcasting"} : Client!Report(f, state, s)
  <2>1. CASE f = "bet"
    BY <1>1, <2>1 DEF Client!Submit
  <2>2. CASE f # "bet"
    BY <1>1, <2>2 DEF Client!Submit
  <2> QED
    BY <2>1, <2>2
<1>2. Client!Prepare(s) =>
         /\ at[s] = "prepare" /\ at' = [at EXCEPT ![s] = "sign"]
         /\ UNCHANGED <<form, tx, status, lastTxStatus, isSubmitting, left>>
  BY DEF Client!Prepare
<1>3. Client!Sign(s) =>
         /\ at[s] = "sign" /\ at' = [at EXCEPT ![s] = "send"]
         /\ UNCHANGED <<form, tx, isSubmitting, left>>
         /\ \/ UNCHANGED <<status, lastTxStatus>>
            \/ form[s] = "claim" /\ Client!Report("claim", "broadcasting", s)
  BY DEF Client!Sign
<1>4. Client!Send(s) =>
         /\ at[s] = "send" /\ at' = [at EXCEPT ![s] = "poll"]
         /\ tx' = [tx EXCEPT ![s] = "pending"]
         /\ UNCHANGED <<form, isSubmitting, left>>
         /\ \/ UNCHANGED <<status, lastTxStatus>>
            \/ form[s] = "claim" /\ Client!Report("claim", "confirming", s)
  BY DEF Client!Send
<1>5. ASSUME Client!Succeed(s) \/ Client!Throw(s)
      PROVE  /\ at[s] \in {"prepare", "sign", "send", "poll"}
             /\ at' = [at EXCEPT ![s] = "done"]
             /\ isSubmitting' = [isSubmitting EXCEPT ![form[s]] = FALSE]
             /\ UNCHANGED <<form, left>>
             /\ form[s] \in Forms
             /\ \E state \in {"success", "error"} :
                   /\ Client!Tell(form[s], state, s)
                   /\ state = "success" /\ form[s] # "create" =>
                         tx[s] = "success" /\ tx' = tx
             /\ tx' = tx \/ (at[s] = "send" /\ tx' = [tx EXCEPT ![s] = "pending"])
  <2>1. at[s] \in {"prepare", "sign", "send", "poll"}
    BY <1>5 DEF Client!Succeed, Client!Throw
  <2>2. form[s] \in Forms
    BY <2>1 DEF Progress
  <2>3. CASE Client!Succeed(s)
    BY <2>1, <2>2, <2>3 DEF Client!Succeed, Client!Finish, Client!Confirmed
  <2>4. CASE Client!Throw(s)
    <3>1. CASE form[s] = "create"
      BY <2>1, <2>2, <2>4, <3>1 DEF Client!Throw, Client!Finish, Client!Thrown
    <3>2. CASE form[s] # "create"
      BY <2>1, <2>2, <2>4, <3>2 DEF Client!Throw, Client!Finish, Client!Thrown
    <3> QED
      BY <3>1, <3>2
  <2> QED
    BY <1>5, <2>3, <2>4
<1> QED
  BY <1>1, <1>2, <1>3, <1>4, <1>5

(* A success stays told of a transaction that stays applied.                *)
Stable == \A s \in Attempted : tx[s] = "success" => tx'[s] = "success"

LEMMA TruthKept ==
    ASSUME ClientTypes, Truthful, Stable,
           NEW f \in Forms, NEW state \in FormStates, NEW s \in Attempted,
           status' = [status EXCEPT ![f] = [state |-> state, of |-> s]],
           \/ lastTxStatus' = lastTxStatus
           \/ lastTxStatus' = [state |-> state, of |-> s] /\ f # "create",
           state = "success" /\ f # "create" => tx'[s] = "success"
    PROVE  Truthful'
<1>1. ASSUME NEW x, Told(x, tx)
      PROVE  Told(x, tx')
  BY <1>1 DEF Told, Stable
<1>2. f # "create" => Told([state |-> state, of |-> s], tx')
  BY DEF Told
<1>3. Told(lastTxStatus', tx')
  BY <1>1, <1>2 DEF Truthful
<1>4. ASSUME NEW g \in Forms \ {"create"}
      PROVE  Told(status'[g], tx')
  <2>1. CASE g = f
    <3>1. status'[f] = [state |-> state, of |-> s]
      BY DEF ClientTypes
    <3> QED
      BY <1>2, <2>1, <3>1
  <2>2. CASE g # f
    <3>1. status'[g] = status[g]
      BY <2>2 DEF ClientTypes
    <3> QED
      BY <1>1, <3>1 DEF Truthful
  <2> QED
    BY <2>1, <2>2
<1> QED
  BY <1>3, <1>4 DEF Truthful

LEMMA TruthStays ==
    ASSUME ClientTypes, Truthful, Stable,
           UNCHANGED <<status, lastTxStatus>>
    PROVE  Truthful'
BY DEF Truthful, Told, Stable

(* While a submission goes on, its form is as busy as before.               *)
LEMMA AloneKept ==
    ASSUME ClientTypes, AllAlone, NEW s \in Attempted, NEW next,
           at[s] \notin {"none", "done"}, next \notin {"none", "done"},
           at' = [at EXCEPT ![s] = next],
           UNCHANGED <<form, isSubmitting, left>>,
           \A f \in Forms \ {"claim"} : status'[f] = status[f]
    PROVE  AllAlone'
<1>1. \A r \in Attempted, f \in Forms : Flying(r, f)' <=> Flying(r, f)
  BY DEF Flying, ClientTypes
<1>2. \A f \in Forms : Busy(f)' <=> Busy(f)
  BY DEF Busy, ClientTypes
<1> QED
  BY <1>1, <1>2 DEF AllAlone, Alone

LEMMA ClientInvStep == ClientInv /\ [Client!ClientNext]_clientVars => ClientInv'
<1> SUFFICES ASSUME ClientInv, [Client!ClientNext]_clientVars
             PROVE  ClientInv'
  OBVIOUS
<1> USE DEF ClientInv
<1>0. Attempted = Client!Submissions
  BY DEF Attempted
<1>1. CASE UNCHANGED clientVars
  BY <1>1 DEF clientVars, ClientTypes, Progress, Truthful, Told, AllAlone, Alone,
              Flying, Busy
<1>2. CASE Client!ConnectWallet \/ Client!DisconnectWallet
  <2>1. UNCHANGED <<form, at, tx, status, lastTxStatus, isSubmitting, left>>
    BY <1>2 DEF Client!ConnectWallet, Client!DisconnectWallet
  <2> QED
    BY <2>1 DEF ClientTypes, Progress, Truthful, Told, AllAlone, Alone, Flying, Busy
<1>3. CASE Client!MarketChanges
  <2>1. UNCHANGED <<form, at, tx>> /\ "claim" \in Forms
    BY <1>3 DEF Client!MarketChanges
  <2>2. CASE UNCHANGED <<status, lastTxStatus, isSubmitting, left>>
    BY <2>1, <2>2 DEF ClientTypes, Progress, Truthful, Told, AllAlone, Alone,
                      Flying, Busy
  <2>3. CASE ~ UNCHANGED <<status, lastTxStatus, isSubmitting, left>>
    <3>1. /\ status' = [status EXCEPT !["claim"] = Client!Idle]
          /\ lastTxStatus' = Client!Idle
          /\ isSubmitting' = [isSubmitting EXCEPT !["claim"] = FALSE]
          /\ left' = (left \/ Client!InFlight("claim") # {})
      BY <1>3, <2>3 DEF Client!MarketChanges
    <3>2. Client!Idle \in FormStatus /\ ~ Client!Idle.state = "success"
      BY DEF Client!Idle, Client!None, FormStatus, FormStates
    <3>3. ClientTypes'
      BY <2>1, <3>1, <3>2 DEF ClientTypes
    <3>4. Progress'
      BY <2>1 DEF Progress
    <3>5. Truthful'
      <4>1. \A x : Told(x, tx)' <=> Told(x, tx)
        BY <2>1 DEF Told
      <4>2. Told(Client!Idle, tx)
        BY <3>2 DEF Told
      <4>3. \A f \in Forms : status'[f] = Client!Idle \/ status'[f] = status[f]
        BY <3>1 DEF ClientTypes
      <4>4. \A f \in Forms \ {"create"} : Told(status'[f], tx')
        BY <2>1, <4>2, <4>3 DEF Truthful
      <4> QED
        BY <2>1, <3>1, <4>2, <4>4 DEF Truthful
    <3>6. AllAlone'
      <4>1. ASSUME NEW f \in Forms, f # "claim"
            PROVE  Alone(f)'
        <5>1. Alone(f)
          BY <4>1 DEF AllAlone
        <5>2. status'[f] = status[f] /\ isSubmitting'[f] = isSubmitting[f]
          BY <3>1, <4>1 DEF ClientTypes
        <5> QED
          BY <2>1, <5>1, <5>2 DEF Alone, Flying, Busy
      <4>2. left' \/ Alone("claim")'
        <5>1. CASE Client!InFlight("claim") # {}
          BY <3>1, <5>1 DEF ClientTypes
        <5>2. CASE Client!InFlight("claim") = {}
          <6>1. \A s \in Attempted : ~Flying(s, "claim")
            BY <1>0, <5>2 DEF Flying, Client!InFlight
          <6> QED
            BY <2>1, <6>1 DEF Alone, Flying
        <5> QED
          BY <5>1, <5>2
      <4> QED
        BY <4>1, <4>2 DEF AllAlone
    <3> QED
      BY <3>3, <3>4, <3>5, <3>6
  <2> QED
    BY <2>2, <2>3
<1>4. ASSUME NEW f \in Forms, Client!Dismiss(f)
      PROVE  ClientInv'
  <2>1. /\ UNCHANGED <<form, at, tx, isSubmitting, left>>
        /\ status[f].state \in {"success", "error"}
        /\ status' = status \/ (f # "bet" /\ status' = [status EXCEPT ![f] = Client!Idle])
        /\ lastTxStatus' \in {lastTxStatus, Client!Idle}
    BY <1>4 DEF Client!Dismiss
  <2>2. Client!Idle \in FormStatus /\ ~ Client!Idle.state = "success"
    BY DEF Client!Idle, Client!None, FormStatus, FormStates
  <2>3. ClientTypes'
    <3>1. status' \in [Forms -> FormStatus] /\ lastTxStatus' \in FormStatus
      BY <2>1, <2>2 DEF ClientTypes
    <3> QED
      BY <2>1, <3>1 DEF ClientTypes
  <2>4. Progress'
    BY <2>1 DEF Progress
  <2>5. Truthful'
    <3>1. Told(Client!Idle, tx)
      BY <2>2 DEF Told
    <3>2. \A g \in Forms : status'[g] = Client!Idle \/ status'[g] = status[g]
      BY <2>1 DEF ClientTypes
    <3>3. \A g \in Forms \ {"create"} : Told(status'[g], tx')
      BY <2>1, <3>1, <3>2 DEF Truthful
    <3> QED
      BY <2>1, <3>1, <3>3 DEF Truthful
  <2>6. AllAlone'
    <3>1. ASSUME NEW g \in Forms, Alone(g)
          PROVE  Alone(g)'
      <4>1. CASE g = f /\ g \notin {"bet", "claim"}
        <5>1. ~Busy(g)
          BY <2>1, <4>1 DEF Busy
        <5> QED
          BY <2>1, <3>1, <5>1 DEF Alone, Flying
      <4>2. CASE g # f
        <5>1. status'[g] = status[g]
          BY <2>1, <4>2 DEF ClientTypes
        <5> QED
          BY <2>1, <3>1, <5>1 DEF Alone, Flying, Busy
      <4>3. CASE g \in {"bet", "claim"}
        BY <2>1, <3>1, <4>3 DEF Alone, Flying, Busy
      <4> QED
        BY <4>1, <4>2, <4>3
    <3> QED
      BY <2>1, <3>1 DEF AllAlone
  <2> QED
    BY <2>3, <2>4, <2>5, <2>6
<1>5. ASSUME NEW s \in Attempted, NEW f \in Forms, Client!Submit(f, s)
      PROVE  ClientInv'
  <2>1. /\ at[s] = "none" /\ tx' = tx /\ left' = left
        /\ form' = [form EXCEPT ![s] = f]
        /\ at' = [at EXCEPT ![s] = "prepare"]
        /\ isSubmitting' = [isSubmitting EXCEPT ![f] = f \in {"bet", "claim"}]
        /\ Client!CanSubmit(f)
        /\ \E state \in {"signing", "broadcasting"} : Client!Report(f, state, s)
    BY <1>5, SubmissionSteps
  <2>2. PICK state \in {"signing", "broadcasting"} : Client!Report(f, state, s)
    BY <2>1
  <2>3. state \in FormStates /\ state # "success"
    BY DEF FormStates
  <2>4. /\ status' = [status EXCEPT ![f] = [state |-> state, of |-> s]]
        /\ status' \in [Forms -> FormStatus]
        /\ lastTxStatus' \in FormStatus
        /\ \/ lastTxStatus' = lastTxStatus
           \/ lastTxStatus' = [state |-> state, of |-> s] /\ f # "create"
    BY <2>2, <2>3, WhatIsTold
  <2>5. ClientTypes'
    BY <2>1, <2>4 DEF ClientTypes
  <2>6. Progress'
    BY <2>1 DEF Progress, ClientTypes
  <2>7. Truthful'
    <3>1. Stable
      BY <2>1 DEF Stable
    <3> QED
      BY <2>3, <2>4, <3>1, TruthKept
  <2>8. AllAlone'
    <3>1. ASSUME NEW g \in Forms, g # f, Alone(g)
          PROVE  Alone(g)'
      <4>1. \A r \in Attempted : Flying(r, g)' => Flying(r, g)
        BY <2>1, <3>1 DEF Flying, ClientTypes
      <4>2. Busy(g)' <=> Busy(g)
        BY <2>1, <2>4, <3>1 DEF Busy, ClientTypes
      <4> QED
        BY <3>1, <4>1, <4>2 DEF Alone
    <3>2. ASSUME Alone(f)
          PROVE  Alone(f)'
      <4>1. ~Busy(f)
        BY <2>1 DEF Busy, Client!CanSubmit, Client!CanBet, Client!CanClaim,
                    Client!NotWaiting, Client!Waiting
      <4>2. \A r \in Attempted : ~Flying(r, f)
        BY <3>2, <4>1 DEF Alone
      <4>3. \A r \in Attempted : Flying(r, f)' => r = s
        BY <2>1, <4>2 DEF Flying, ClientTypes
      <4>4. status'[f] = [state |-> state, of |-> s]
        BY <2>4 DEF ClientTypes
      <4>5. isSubmitting'[f] = (f \in {"bet", "claim"})
        BY <2>1 DEF ClientTypes
      <4>6. Busy(f)'
        <5>1. CASE f \in {"bet", "claim"}
          <6>1. isSubmitting'[f]
            BY <4>5, <5>1
          <6> QED
            BY <5>1, <6>1 DEF Busy
        <5>2. CASE f \notin {"bet", "claim"}
          <6>1. status'[f].state \in {"signing", "broadcasting"}
            BY <4>4
          <6> QED
            BY <5>2, <6>1 DEF Busy
        <5> QED
          BY <5>1, <5>2
      <4> QED
        BY <4>3, <4>6 DEF Alone
    <3> QED
      BY <2>1, <3>1, <3>2 DEF AllAlone
  <2> QED
    BY <2>5, <2>6, <2>7, <2>8
<1>6. ASSUME NEW s \in Attempted, Client!Prepare(s)
      PROVE  ClientInv'
  <2>1. /\ at[s] = "prepare" /\ at' = [at EXCEPT ![s] = "sign"]
        /\ UNCHANGED <<form, tx, status, lastTxStatus, isSubmitting, left>>
    BY <1>6, SubmissionSteps
  <2>2. ClientTypes'
    BY <2>1 DEF ClientTypes
  <2>3. Progress'
    BY <2>1 DEF Progress, ClientTypes
  <2>4. Truthful'
    BY <2>1, TruthStays DEF Stable
  <2>5. AllAlone'
    BY <2>1, AloneKept
  <2> QED
    BY <2>2, <2>3, <2>4, <2>5
<1>7. ASSUME NEW s \in Attempted, Client!Sign(s)
      PROVE  ClientInv'
  <2>1. /\ at[s] = "sign" /\ at' = [at EXCEPT ![s] = "send"]
        /\ UNCHANGED <<form, tx, isSubmitting, left>>
        /\ \/ UNCHANGED <<status, lastTxStatus>>
           \/ form[s] = "claim" /\ Client!Report("claim", "broadcasting", s)
    BY <1>7, SubmissionSteps
  <2>2. Progress'
    BY <2>1 DEF Progress, ClientTypes
  <2>3. Stable
    BY <2>1 DEF Stable
  <2>4. CASE UNCHANGED <<status, lastTxStatus>>
    <3>1. ClientTypes'
      BY <2>1, <2>4 DEF ClientTypes
    <3>2. Truthful'
      BY <2>3, <2>4, TruthStays
    <3>3. AllAlone'
      BY <2>1, <2>4, AloneKept
    <3> QED
      BY <2>2, <3>1, <3>2, <3>3
  <2>5. CASE form[s] = "claim" /\ Client!Report("claim", "broadcasting", s)
    <3>1. "claim" \in Forms
      BY <2>1, <2>5 DEF Progress
    <3>2. /\ status' = [status EXCEPT !["claim"] = [state |-> "broadcasting", of |-> s]]
          /\ status' \in [Forms -> FormStatus]
          /\ lastTxStatus' \in FormStatus
          /\ \/ lastTxStatus' = lastTxStatus
             \/ lastTxStatus' = [state |-> "broadcasting", of |-> s] /\ "claim" # "create"
      BY <2>5, <3>1, WhatIsTold DEF FormStates
    <3>3. ClientTypes'
      BY <2>1, <3>2 DEF ClientTypes
    <3>4. Truthful'
      BY <2>3, <3>1, <3>2, TruthKept DEF FormStates
    <3>5. \A f \in Forms \ {"claim"} : status'[f] = status[f]
      BY <3>2 DEF ClientTypes
    <3>6. AllAlone'
      BY <2>1, <3>5, AloneKept
    <3> QED
      BY <2>2, <3>3, <3>4, <3>6
  <2> QED
    BY <2>1, <2>4, <2>5
<1>8. ASSUME NEW s \in Attempted, Client!Send(s)
      PROVE  ClientInv'
  <2>1. /\ at[s] = "send" /\ at' = [at EXCEPT ![s] = "poll"]
        /\ tx' = [tx EXCEPT ![s] = "pending"]
        /\ UNCHANGED <<form, isSubmitting, left>>
        /\ \/ UNCHANGED <<status, lastTxStatus>>
           \/ form[s] = "claim" /\ Client!Report("claim", "confirming", s)
    BY <1>8, SubmissionSteps
  <2>2. Progress'
    BY <2>1 DEF Progress, ClientTypes
  <2>3. Stable
    <3>1. tx[s] = "none"
      BY <2>1 DEF Progress
    <3> QED
      BY <2>1, <3>1 DEF Stable, ClientTypes
  <2>4. CASE UNCHANGED <<status, lastTxStatus>>
    <3>1. ClientTypes'
      BY <2>1, <2>4 DEF ClientTypes
    <3>2. Truthful'
      BY <2>3, <2>4, TruthStays
    <3>3. AllAlone'
      BY <2>1, <2>4, AloneKept
    <3> QED
      BY <2>2, <3>1, <3>2, <3>3
  <2>5. CASE form[s] = "claim" /\ Client!Report("claim", "confirming", s)
    <3>1. "claim" \in Forms
      BY <2>1, <2>5 DEF Progress
    <3>2. /\ status' = [status EXCEPT !["claim"] = [state |-> "confirming", of |-> s]]
          /\ status' \in [Forms -> FormStatus]
          /\ lastTxStatus' \in FormStatus
          /\ \/ lastTxStatus' = lastTxStatus
             \/ lastTxStatus' = [state |-> "confirming", of |-> s] /\ "claim" # "create"
      BY <2>5, <3>1, WhatIsTold DEF FormStates
    <3>3. ClientTypes'
      BY <2>1, <3>2 DEF ClientTypes
    <3>4. Truthful'
      BY <2>3, <3>1, <3>2, TruthKept DEF FormStates
    <3>5. \A f \in Forms \ {"claim"} : status'[f] = status[f]
      BY <3>2 DEF ClientTypes
    <3>6. AllAlone'
      BY <2>1, <3>5, AloneKept
    <3> QED
      BY <2>2, <3>3, <3>4, <3>6
  <2> QED
    BY <2>1, <2>4, <2>5
<1>9. ASSUME NEW s \in Attempted, Client!Succeed(s) \/ Client!Throw(s)
      PROVE  ClientInv'
  <2>1. /\ at[s] \in {"prepare", "sign", "send", "poll"}
        /\ at' = [at EXCEPT ![s] = "done"]
        /\ isSubmitting' = [isSubmitting EXCEPT ![form[s]] = FALSE]
        /\ UNCHANGED <<form, left>>
        /\ form[s] \in Forms
        /\ \E state \in {"success", "error"} :
              /\ Client!Tell(form[s], state, s)
              /\ state = "success" /\ form[s] # "create" =>
                    tx[s] = "success" /\ tx' = tx
        /\ tx' = tx \/ (at[s] = "send" /\ tx' = [tx EXCEPT ![s] = "pending"])
    BY <1>9, SubmissionSteps
  <2>2. PICK state \in {"success", "error"} :
              /\ Client!Tell(form[s], state, s)
              /\ state = "success" /\ form[s] # "create" =>
                    tx[s] = "success" /\ tx' = tx
    BY <2>1
  <2>3. state \in FormStates
    BY DEF FormStates
  <2>4. /\ status' = [status EXCEPT ![form[s]] = [state |-> state, of |-> s]]
        /\ status' \in [Forms -> FormStatus]
        /\ lastTxStatus' \in FormStatus
        /\ \/ lastTxStatus' = lastTxStatus
           \/ lastTxStatus' = [state |-> state, of |-> s] /\ form[s] # "create"
    BY <2>1, <2>2, <2>3, WhatIsTold
  <2>5. ClientTypes'
    BY <2>1, <2>4 DEF ClientTypes
  <2>6. Progress'
    BY <2>1 DEF Progress, ClientTypes
  <2>7. Truthful'
    <3>1. Stable
      <4>1. at[s] = "send" => tx[s] = "none"
        BY DEF Progress
      <4> QED
        BY <2>1, <4>1 DEF Stable, ClientTypes
    <3>2. state = "success" /\ form[s] # "create" => tx'[s] = "success"
      BY <2>2
    <3> QED
      BY <2>1, <2>3, <2>4, <3>1, <3>2, TruthKept
  <2>8. AllAlone'
    <3>1. ASSUME NEW g \in Forms, Alone(g)
          PROVE  Alone(g)'
      <4>1. \A r \in Attempted : Flying(r, g)' => Flying(r, g) /\ r # s
        BY <2>1 DEF Flying, ClientTypes
      <4>2. CASE g = form[s]
        <5>1. Flying(s, g)
          BY <2>1, <4>2 DEF Flying
        <5>2. \A r \in Attempted : ~Flying(r, g)'
          BY <3>1, <4>1, <5>1 DEF Alone
        <5> QED
          BY <5>2 DEF Alone
      <4>3. CASE g # form[s]
        <5>1. Busy(g)' <=> Busy(g)
          BY <2>1, <2>4, <4>3 DEF Busy, ClientTypes
        <5> QED
          BY <3>1, <4>1, <5>1 DEF Alone
      <4> QED
        BY <4>2, <4>3
    <3> QED
      BY <2>1, <3>1 DEF AllAlone
  <2> QED
    BY <2>5, <2>6, <2>7, <2>8
<1>10. ASSUME NEW s \in Attempted, Client!Settle(s)
       PROVE  ClientInv'
  <2>1. /\ tx[s] = "pending"
        /\ UNCHANGED <<form, at, status, lastTxStatus, isSubmitting, left>>
    BY <1>10 DEF Client!Settle
  <2>2. PICK state \in {"success", "failed", "expired"} : tx' = [tx EXCEPT ![s] = state]
    BY <1>10 DEF Client!Settle
  <2>3. ClientTypes'
    BY <2>1, <2>2 DEF ClientTypes
  <2>4. Progress'
    BY <2>1, <2>2 DEF Progress, ClientTypes
  <2>5. Stable
    BY <2>1, <2>2 DEF Stable, ClientTypes
  <2>6. Truthful'
    BY <2>1, <2>5, TruthStays
  <2>7. AllAlone'
    BY <2>1 DEF AllAlone, Alone, Flying, Busy
  <2> QED
    BY <2>3, <2>4, <2>6, <2>7
<1> QED
  BY <1>0, <1>1, <1>2, <1>3, <1>4, <1>5, <1>6, <1>7, <1>8, <1>9, <1>10
     DEF Client!ClientNext

LEMMA ClientInvInit == PartsInit => ClientInv
<1> SUFFICES ASSUME Client!ClientInit
             PROVE  ClientInv
  BY DEF PartsInit
<1>1. Client!Idle \in FormStatus /\ ~ Client!Idle.state = "success"
  BY DEF Client!Idle, Client!None, FormStatus, FormStates
<1>2. ClientTypes
  BY <1>1 DEF Client!ClientInit, ClientTypes, Attempted
<1>3. Progress
  BY DEF Client!ClientInit, Progress, Attempted
<1>4. Truthful
  <2>1. Told(Client!Idle, tx)
    BY <1>1 DEF Told
  <2> QED
    BY <2>1 DEF Client!ClientInit, Truthful
<1>5. AllAlone
  <2>1. \A s \in Attempted, f \in Forms : ~Flying(s, f)
    BY DEF Client!ClientInit, Flying, Attempted
  <2> QED
    BY <2>1 DEF AllAlone, Alone
<1> QED
  BY <1>2, <1>3, <1>4, <1>5 DEF ClientInv

LEMMA ClientInvShows ==
    ClientInv => Client!SuccessMeansApplied /\ Client!OneUnderWay
<1> SUFFICES ASSUME ClientInv
             PROVE  Client!SuccessMeansApplied /\ Client!OneUnderWay
  OBVIOUS
<1>1. Client!SuccessMeansApplied
  BY DEF ClientInv, Truthful, Told, Client!SuccessMeansApplied
<1>2. ASSUME NEW f \in Forms, Alone(f)
      PROVE  Client!Cardinality(Client!InFlight(f)) <= 1
  <2>1. \A s : s \in Client!InFlight(f) <=> s \in Attempted /\ Flying(s, f)
    BY DEF Client!InFlight, Flying, Attempted
  <2>2. CASE Client!InFlight(f) = {}
    BY <2>2, SameCardinality, FS_EmptySet
  <2>3. CASE Client!InFlight(f) # {}
    <3>1. PICK s : s \in Client!InFlight(f)
      BY <2>3
    <3>2. Client!InFlight(f) = {s}
      BY <1>2, <2>1, <3>1 DEF Alone
    <3> QED
      BY <3>2, SameCardinality, FS_Singleton
  <2> QED
    BY <2>2, <2>3
<1>3. Client!OneUnderWay
  BY <1>2 DEF ClientInv, AllAlone, Client!OneUnderWay
<1> QED
  BY <1>1, <1>3

-----------------------------------------------------------------------------
(* The pages that change what they show on their own *)

Built == Actions!Attempts
Calling == {"none", "mark_paid", "vote", "execute_proposal", "create_proposal"}
BuildState == {"none", "building", "pending", "applied", "failed"}
Transactions ==
    [call : Calling, on : Bouts \cup {0}, by : Wallets \cup {"none"},
     state : BuildState]

ActionTypes ==
    /\ built \in [Built -> Transactions]
    /\ bills \in [Bouts -> {"Funded", "Paid", "gone"}]
    /\ selected \in Bouts \cup {0}
    /\ payer \in Wallets \cup {"none"}
    /\ hasVoted \in BOOLEAN

TakenIn(t, call) == {a \in Built : t[a].call = call /\ t[a].state = "applied"}
PaidIn(t, r) == \E a \in TakenIn(t, "mark_paid") : t[a].on = r

(* What is shown, and what a timer will take off the list, is backed.       *)
BillsBacked ==
    /\ \A r \in Bouts :
          bills[r] = "Paid" \/ (bills[r] = "gone" /\ payer # "none") => PaidIn(built, r)
    /\ \A r \in expiring : PaidIn(built, r)
ProposalBacked == proposal = "Executed" => TakenIn(built, "execute_proposal") # {}

(* The page awaits one transaction at a time; it has not voted while that   *)
(* is a vote.                                                               *)
FlightInv ==
    flight # 0 =>
       /\ flight \in Built /\ txStatus = "signing"
       /\ built[flight].call = "vote" => ~hasVoted

VotesBacked ==
    /\ counted \subseteq TakenIn(built, "vote")
    /\ \A a, b \in counted : a = b
    /\ counted # {} => hasVoted
    /\ hasVoted => TakenIn(built, "vote") # {}

ActionInv ==
    ActionTypes /\ BillsBacked /\ ProposalBacked /\ FlightInv /\ VotesBacked

(* What was applied stays so.                                               *)
Grows == \A a \in Built : built[a].state = "applied" => built'[a] = built[a]
SameCalls == \A a \in Built : built'[a].call = built[a].call

LEMMA StateChange ==
    ASSUME ActionTypes, NEW a \in Built, NEW state \in BuildState,
           built[a].state # "applied",
           built' = [built EXCEPT ![a].state = state]
    PROVE  built' \in [Built -> Transactions] /\ Grows /\ SameCalls
<1>1. built[a] \in Transactions
  BY DEF ActionTypes
<1>2. [built[a] EXCEPT !.state = state] \in Transactions
  BY <1>1 DEF Transactions
<1>3. [built[a] EXCEPT !.state = state].call = built[a].call
  BY <1>1 DEF Transactions
<1>4. built' = [built EXCEPT ![a] = [built[a] EXCEPT !.state = state]]
  OBVIOUS
<1> DEFINE new == [built[a] EXCEPT !.state = state]
<1>5. new \in Transactions /\ new.call = built[a].call /\ built' = [built EXCEPT ![a] = new]
  BY <1>2, <1>3, <1>4
<1> HIDE DEF new
<1> QED
  BY <1>5 DEF ActionTypes, Grows, SameCalls

(* Nothing that is backed loses what backs it.                              *)
LEMMA StillBacked ==
    ASSUME Grows
    PROVE  /\ \A call : TakenIn(built, call) \subseteq TakenIn(built', call)
           /\ \A r : PaidIn(built, r) => PaidIn(built', r)
<1>1. ASSUME NEW call, NEW a \in TakenIn(built, call)
      PROVE  a \in TakenIn(built', call) /\ built'[a] = built[a]
  BY <1>1 DEF Grows, TakenIn
<1>2. ASSUME NEW r, PaidIn(built, r)
      PROVE  PaidIn(built', r)
  BY <1>1, <1>2 DEF PaidIn
<1> QED
  BY <1>1, <1>2

LEMMA BackedKept ==
    ASSUME Grows, ActionInv,
           UNCHANGED <<bills, payer, expiring, proposal, counted, hasVoted>>
    PROVE  BillsBacked' /\ ProposalBacked' /\ VotesBacked'
<1>1. BillsBacked'
  BY StillBacked DEF ActionInv, BillsBacked
<1>2. ProposalBacked'
  BY StillBacked DEF ActionInv, ProposalBacked
<1>3. VotesBacked'
  BY StillBacked DEF ActionInv, VotesBacked
<1> QED
  BY <1>1, <1>2, <1>3

LEMMA ActionInvStep == ActionInv /\ [Actions!ActionNext]_actionVars => ActionInv'
<1> SUFFICES ASSUME ActionInv, [Actions!ActionNext]_actionVars
             PROVE  ActionInv'
  OBVIOUS
<1>0. Built = Actions!Attempts /\ 0 \notin Built
  BY DEF Built, Actions!Attempts
<1>a. ActionTypes /\ BillsBacked /\ ProposalBacked /\ FlightInv /\ VotesBacked
  BY DEF ActionInv
<1>b. built' = built => Grows /\ SameCalls
  BY DEF Grows, SameCalls
<1>1. CASE UNCHANGED actionVars
  <2>1. UNCHANGED <<payer, bills, selected, proposal, hasVoted, counted, txStatus,
                    built, flight, expiring>>
    BY <1>1 DEF actionVars
  <2>2. BillsBacked' /\ ProposalBacked' /\ VotesBacked'
    BY <1>b, <2>1, BackedKept
  <2> QED
    BY <1>a, <2>1, <2>2 DEF ActionInv, ActionTypes, FlightInv
<1>2. CASE Actions!Cancel
  <2>1. /\ UNCHANGED <<payer, bills, proposal, hasVoted, counted, txStatus,
                       built, flight, expiring>>
        /\ selected' = 0
    BY <1>2 DEF Actions!Cancel, Actions!None
  <2>2. BillsBacked' /\ ProposalBacked' /\ VotesBacked'
    BY <1>b, <2>1, BackedKept
  <2> QED
    BY <1>a, <2>1, <2>2 DEF ActionInv, ActionTypes, FlightInv
<1>3. CASE Actions!Broadcast
  <2>1. /\ UNCHANGED <<payer, bills, selected, proposal, hasVoted, counted, txStatus,
                       flight, expiring>>
        /\ flight # 0 /\ built[flight].state = "building"
        /\ built' = [built EXCEPT ![flight].state = "pending"]
    BY <1>3 DEF Actions!Broadcast, Actions!None
  <2>2. flight \in Built
    BY <1>a, <2>1 DEF FlightInv
  <2>3. built' \in [Built -> Transactions] /\ Grows /\ SameCalls
    BY <1>a, <2>1, <2>2, StateChange DEF BuildState
  <2>4. BillsBacked' /\ ProposalBacked' /\ VotesBacked'
    BY <2>1, <2>3, BackedKept
  <2>5. FlightInv'
    BY <1>a, <2>1, <2>2, <2>3 DEF FlightInv, SameCalls
  <2> QED
    BY <1>a, <2>1, <2>3, <2>4, <2>5 DEF ActionInv, ActionTypes
<1>4. CASE Actions!Fail
  <2>1. /\ UNCHANGED <<payer, bills, proposal, hasVoted, counted, expiring>>
        /\ flight # 0 /\ flight' = 0 /\ selected' = 0
        /\ \/ built' = built
           \/ /\ built[flight].state = "building"
              /\ built' = [built EXCEPT ![flight].state = "pending"]
    BY <1>4 DEF Actions!Fail, Actions!None
  <2>2. flight \in Built
    BY <1>a, <2>1 DEF FlightInv
  <2>3. built' \in [Built -> Transactions] /\ Grows
    <3>1. CASE built' = built
      BY <1>a, <1>b, <3>1 DEF ActionTypes
    <3>2. CASE /\ built[flight].state = "building"
               /\ built' = [built EXCEPT ![flight].state = "pending"]
      BY <1>a, <2>2, <3>2, StateChange DEF BuildState
    <3> QED
      BY <2>1, <3>1, <3>2
  <2>4. BillsBacked' /\ ProposalBacked' /\ VotesBacked'
    BY <2>1, <2>3, BackedKept
  <2> QED
    BY <1>a, <2>1, <2>3, <2>4 DEF ActionInv, ActionTypes, FlightInv
<1>5. CASE Actions!Dismiss
  <2>1. /\ UNCHANGED <<payer, bills, selected, proposal, hasVoted, counted,
                       built, flight, expiring>>
        /\ txStatus # "signing"
    BY <1>5 DEF Actions!Dismiss
  <2>2. BillsBacked' /\ ProposalBacked' /\ VotesBacked'
    BY <1>b, <2>1, BackedKept
  <2> QED
    BY <1>a, <2>1, <2>2 DEF ActionInv, ActionTypes, FlightInv
<1>6. ASSUME NEW who \in Wallets \cup {"none"}, Actions!Switch(who)
      PROVE  ActionInv'
  <2>1. /\ UNCHANGED <<selected, txStatus, built, flight, expiring>>
        /\ payer' = who /\ bills' = Actions!Hydrated(who)
        /\ proposal' = IF proposal = "Executed" THEN "Passed" ELSE proposal
        /\ counted' = {} /\ hasVoted' = (hasVoted /\ who = "none")
    BY <1>6 DEF Actions!Switch
  <2>2. \/ hasVoted' = hasVoted
        \/ hasVoted' \in BOOLEAN /\ ~hasVoted'
    BY <1>a, <2>1 DEF ActionTypes
  <2>3. ActionTypes'
    BY <1>a, <2>1, <2>2 DEF ActionTypes, Actions!Hydrated
  <2>4. BillsBacked'
    <3>1. CASE who = "none"
      BY <1>a, <2>1, <3>1 DEF BillsBacked, Actions!Hydrated
    <3>2. CASE who # "none"
      BY <1>a, <2>1, <3>2 DEF BillsBacked, Actions!Hydrated
    <3> QED
      BY <3>1, <3>2
  <2>5. ProposalBacked'
    BY <1>a, <2>1 DEF ProposalBacked
  <2>6. FlightInv'
    BY <1>a, <2>1, <2>2 DEF FlightInv
  <2>7. VotesBacked'
    BY <1>a, <2>1, <2>2 DEF VotesBacked
  <2> QED
    BY <2>3, <2>4, <2>5, <2>6, <2>7 DEF ActionInv
<1>7. ASSUME NEW r \in Bouts, Actions!Open(r)
      PROVE  ActionInv'
  <2>1. /\ UNCHANGED <<payer, bills, proposal, hasVoted, counted, txStatus,
                       built, flight, expiring>>
        /\ selected' = r
    BY <1>7 DEF Actions!Open
  <2>2. BillsBacked' /\ ProposalBacked' /\ VotesBacked'
    BY <1>b, <2>1, BackedKept
  <2> QED
    BY <1>a, <2>1, <2>2 DEF ActionInv, ActionTypes, FlightInv
<1>8. ASSUME NEW r \in Bouts, Actions!Expire(r)
      PROVE  ActionInv'
  <2>1. /\ UNCHANGED <<payer, proposal, hasVoted, counted, txStatus, built, flight>>
        /\ r \in expiring /\ expiring' = expiring \ {r} /\ selected' = 0
        /\ bills' = [bills EXCEPT ![r] = "gone"]
    BY <1>8 DEF Actions!Expire, Actions!None
  <2>2. ActionTypes'
    BY <1>a, <2>1 DEF ActionTypes
  <2>3. BillsBacked'
    BY <1>a, <2>1 DEF BillsBacked, ActionTypes
  <2> QED
    BY <1>a, <2>1, <2>2, <2>3 DEF ActionInv, ProposalBacked, FlightInv, VotesBacked
<1>9. ASSUME NEW a \in Built, Actions!Include(a)
      PROVE  ActionInv'
  <2>1. /\ UNCHANGED <<payer, bills, selected, proposal, hasVoted, counted, txStatus,
                       flight, expiring>>
        /\ built[a].state = "pending"
    BY <1>9 DEF Actions!Include
  <2>2. PICK state \in {"applied", "failed"} :
                built' = [built EXCEPT ![a].state = state]
    BY <1>9 DEF Actions!Include
  <2>3. built' \in [Built -> Transactions] /\ Grows /\ SameCalls
    BY <1>a, <2>1, <2>2, StateChange DEF BuildState
  <2>4. BillsBacked' /\ ProposalBacked' /\ VotesBacked'
    BY <2>1, <2>3, BackedKept
  <2>5. FlightInv'
    BY <1>a, <2>1, <2>3 DEF FlightInv, SameCalls
  <2> QED
    BY <1>a, <2>1, <2>3, <2>4, <2>5 DEF ActionInv, ActionTypes
<1>10. ASSUME NEW a \in Built,
              NEW call \in {"mark_paid", "vote", "execute_proposal", "create_proposal"},
              Actions!Submit(call, a)
       PROVE  ActionInv'
  <2> DEFINE new == [call |-> call, on |-> IF call = "mark_paid" THEN selected ELSE 0,
                     by |-> payer, state |-> "building"]
  <2>1. /\ UNCHANGED <<payer, bills, selected, proposal, hasVoted, counted, expiring>>
        /\ built[a] = Actions!Blank /\ built' = [built EXCEPT ![a] = new]
        /\ flight' = a /\ txStatus' = "signing"
    BY <1>10 DEF Actions!Submit, Actions!None
  <2>2. call = "vote" => ~hasVoted
    BY <1>10 DEF Actions!Submit, Actions!CanSend
  <2>3. new \in Transactions /\ new.call = call
    BY <1>a DEF Transactions, ActionTypes, Calling, BuildState
  <2>4. built[a].state # "applied"
    BY <2>1 DEF Actions!Blank
  <2> HIDE DEF new
  <2>5. built' \in [Built -> Transactions] /\ built'[a] = new
    BY <1>a, <2>1, <2>3 DEF ActionTypes
  <2>6. Grows
    BY <1>a, <2>1, <2>4 DEF Grows, ActionTypes
  <2>7. BillsBacked' /\ ProposalBacked' /\ VotesBacked'
    BY <2>1, <2>6, BackedKept
  <2>8. FlightInv'
    BY <2>1, <2>2, <2>3, <2>5 DEF FlightInv
  <2> QED
    BY <1>a, <2>1, <2>5, <2>7, <2>8 DEF ActionInv, ActionTypes
<1>11. CASE Actions!Succeed
  <2> DEFINE done == built[flight]
  <2>1. /\ UNCHANGED <<payer, selected, built>>
        /\ flight # 0 /\ flight' = 0 /\ done.state = "applied"
    BY <1>11 DEF Actions!Succeed, Actions!None, Actions!Confirmed
  <2>2. flight \in Built /\ (done.call = "vote" => ~hasVoted)
    BY <1>a, <2>1 DEF FlightInv
  <2>3. flight \in TakenIn(built, done.call)
    BY <2>1, <2>2 DEF TakenIn
  <2>4. BillsBacked' /\ bills' \in [Bouts -> {"Funded", "Paid", "gone"}]
    <3>1. CASE done.call = "mark_paid"
      <4>1. /\ expiring' = expiring \cup {done.on}
            /\ bills' = [bills EXCEPT ![done.on] = IF @ = "Funded" THEN "Paid" ELSE @]
        BY <1>11, <3>1 DEF Actions!Succeed
      <4>2. PaidIn(built, done.on)
        BY <2>3, <3>1 DEF PaidIn
      <4>3. bills' \in [Bouts -> {"Funded", "Paid", "gone"}]
        BY <1>a, <4>1 DEF ActionTypes
      <4>4. \A r \in Bouts : bills'[r] = bills[r] \/ r = done.on
        BY <1>a, <4>1 DEF ActionTypes
      <4> HIDE DEF done
      <4> QED
        BY <1>a, <2>1, <4>1, <4>2, <4>3, <4>4 DEF BillsBacked
    <3>2. CASE done.call # "mark_paid"
      <4>1. UNCHANGED <<bills, expiring>>
        BY <1>11, <3>2 DEF Actions!Succeed
      <4> QED
        BY <1>a, <2>1, <4>1 DEF BillsBacked, ActionTypes
    <3> QED
      BY <3>1, <3>2
  <2>5. VotesBacked' /\ hasVoted' \in BOOLEAN
    <3>1. CASE done.call = "vote"
      <4>1. hasVoted' = TRUE /\ counted' = counted \cup {flight}
        BY <1>11, <3>1 DEF Actions!Succeed
      <4>2. counted = {}
        BY <1>a, <2>2, <3>1 DEF VotesBacked
      <4>3. flight \in TakenIn(built, "vote")
        BY <2>3, <3>1
      <4> QED
        BY <2>1, <4>1, <4>2, <4>3 DEF VotesBacked
    <3>2. CASE done.call # "vote"
      <4>1. UNCHANGED <<hasVoted, counted>>
        BY <1>11, <3>2 DEF Actions!Succeed
      <4> QED
        BY <1>a, <2>1, <4>1 DEF VotesBacked, ActionTypes
    <3> QED
      BY <3>1, <3>2
  <2>6. ProposalBacked'
    <3>1. CASE done.call = "execute_proposal"
      BY <2>1, <2>3, <3>1 DEF ProposalBacked
    <3>2. CASE done.call # "execute_proposal"
      <4>1. proposal' = proposal
        BY <1>11, <3>2 DEF Actions!Succeed
      <4> QED
        BY <1>a, <2>1, <4>1 DEF ProposalBacked
    <3> QED
      BY <3>1, <3>2
  <2>7. FlightInv'
    BY <2>1 DEF FlightInv
  <2> QED
    BY <1>a, <2>1, <2>4, <2>5, <2>6, <2>7 DEF ActionInv, ActionTypes
<1> QED
  BY <1>0, <1>1, <1>2, <1>3, <1>4, <1>5, <1>6, <1>7, <1>8, <1>9, <1>10, <1>11
     DEF Actions!ActionNext

LEMMA ActionInvInit == PartsInit => ActionInv
<1> SUFFICES ASSUME Actions!ActionInit
             PROVE  ActionInv
  BY DEF PartsInit
<1>1. /\ payer = "none" /\ bills = [r \in Bouts |-> "gone"]
      /\ selected = 0 /\ proposal \in {"Active", "Passed"}
      /\ hasVoted = FALSE /\ counted = {} /\ expiring = {} /\ flight = 0
      /\ built = [a \in Built |-> Actions!Blank]
  BY DEF Actions!ActionInit, Actions!Hydrated, Actions!None, Built
<1>2. Actions!Blank \in Transactions
  BY DEF Actions!Blank, Actions!None, Transactions, Calling, BuildState
<1>3. ActionTypes
  BY <1>1, <1>2 DEF ActionTypes
<1> QED
  BY <1>1, <1>3 DEF ActionInv, BillsBacked, ProposalBacked, FlightInv, VotesBacked

LEMMA ActionInvShows == ActionInv => Actions!ShownIsBacked
<1> SUFFICES ASSUME ActionInv
             PROVE  Actions!ShownIsBacked
  OBVIOUS
<1>1. \A call : Actions!Applied(call) = TakenIn(built, call)
  BY DEF Actions!Applied, TakenIn, Built
<1>2. Cardinality(counted) <= 1
  <2>1. CASE counted = {}
    BY <2>1, FS_EmptySet
  <2>2. CASE counted # {}
    <3>1. PICK a : a \in counted
      BY <2>2
    <3>2. counted = {a}
      BY <3>1 DEF ActionInv, VotesBacked
    <3> QED
      BY <3>2, FS_Singleton
  <2> QED
    BY <2>1, <2>2
<1>3. Actions!Cardinality(counted) <= 1
  BY <1>2, SameCardinality
<1> QED
  BY <1>1, <1>3 DEF ActionInv, BillsBacked, ProposalBacked, VotesBacked, PaidIn,
                    Actions!ShownIsBacked

-----------------------------------------------------------------------------
(* What a form but the one that creates markets, or a page, says has        *)
(* succeeded has been applied, and a form has at most one transaction under *)
(* way: for any number of submissions, invoices, wallets and attempts.      *)
THEOREM AlwaysSuccessMeansApplied == PartsSpec => []SuccessMeansApplied
<1>1. PartsInit => ClientInv /\ ActionInv
  BY ClientInvInit, ActionInvInit
<1>2. ClientInv /\ ActionInv /\ [PartsNext]_variables => (ClientInv /\ ActionInv)'
  BY ClientInvStep, ActionInvStep, OneAtATime
<1>3. ClientInv /\ ActionInv => SuccessMeansApplied
  BY ClientInvShows, ActionInvShows DEF SuccessMeansApplied
<1> QED
  BY <1>1, <1>2, <1>3, PTL DEF PartsSpec

-----------------------------------------------------------------------------
(* What a bet is said to pay: the arithmetic *)

(* A floor division, without the division. *)
LEMMA DivBounds ==
    ASSUME NEW n \in Nat, NEW d \in Nat \ {0}
    PROVE  /\ n \div d \in Nat
           /\ d * (n \div d) <= n
           /\ n < d * (n \div d) + d
OBVIOUS

LEMMA Times ==
    ASSUME NEW k \in Nat, NEW x \in Int, NEW y \in Int, x <= y
    PROVE  k * x <= k * y
OBVIOUS

LEMMA Cancel ==
    ASSUME NEW k \in Nat \ {0}, NEW x \in Int, NEW y \in Int, k * x < k * y
    PROVE  x < y
<1> SUFFICES ASSUME y <= x
             PROVE  FALSE
  OBVIOUS
<1>1. k * y <= k * x
  BY Times
<1>2. k * x \in Int /\ k * y \in Int
  OBVIOUS
<1> QED
  BY <1>1, <1>2

(* The total without its fee, which is floored.                             *)
Fees == 0..10000
NetOfFee(t, f) == t - (t * f) \div 10000
NetIs(n, t, f) ==
    /\ n \in Nat /\ n <= t
    /\ t * (10000 - f) <= 10000 * n
    /\ 10000 * n <= t * (10000 - f) + 9999

LEMMA NetBounds ==
    ASSUME NEW t \in Nat, NEW f \in Fees
    PROVE  NetIs(NetOfFee(t, f), t, f)
<1> DEFINE x == t * f
           g == x \div 10000
<1>1. f \in Nat /\ f <= 10000
  BY DEF Fees
<1>2. x \in Nat /\ x <= t * 10000
  BY <1>1, Times
<1>3. NetOfFee(t, f) = t - g
  BY DEF NetOfFee
<1>4. t * (10000 - f) = 10000 * t - x
  BY <1>1
<1> HIDE DEF x
<1>5. g \in Nat /\ 10000 * g <= x /\ x < 10000 * g + 10000
  BY <1>2, DivBounds
<1> HIDE DEF g
<1>6. NetOfFee(t, f) \in Nat /\ NetOfFee(t, f) <= t
  BY <1>2, <1>3, <1>5
<1> QED
  BY <1>2, <1>3, <1>4, <1>5, <1>6 DEF NetIs

(* Stake a of a pool p, of a total t with net n: what the browser showed is *)
(* what the contract pays, or one less.                                     *)
LEMMA PreviewIsPaid ==
    ASSUME NEW a \in Nat \ {0}, NEW p \in Nat, a <= p, NEW t \in Nat,
           NEW f \in Fees
    PROVE  (a * NetOfFee(t, f)) \div p - (a * t * (10000 - f)) \div (p * 10000)
              \in {0, 1}
<1> DEFINE n == NetOfFee(t, f)
           u == t * (10000 - f)
           c == (a * n) \div p
           d == (a * u) \div (p * 10000)
<1>1. n \in Nat /\ u \in Nat /\ u <= 10000 * n /\ 10000 * n <= u + 9999
  <2>1. f \in Nat /\ f <= 10000
    BY DEF Fees
  <2>2. u \in Nat
    BY <2>1
  <2>3. NetIs(n, t, f)
    BY NetBounds
  <2> QED
    BY <2>2, <2>3 DEF NetIs
<1>2. a * t * (10000 - f) = a * u
  BY DEF Fees
<1>3. p \in Nat \ {0} /\ p * 10000 \in Nat \ {0}
  OBVIOUS
<1> HIDE DEF n, u
<1>4. a * n \in Nat /\ a * u \in Nat
  BY <1>1
<1>5. c \in Nat /\ p * c <= a * n /\ a * n < p * c + p
  BY <1>3, <1>4, DivBounds
<1>6. /\ d \in Nat /\ (p * 10000) * d <= a * u
      /\ a * u < (p * 10000) * d + p * 10000
  BY <1>3, <1>4, DivBounds
<1> HIDE DEF c, d
<1>7. a * u <= a * (10000 * n) /\ a * (10000 * n) <= a * (u + 9999)
  BY <1>1, Times
<1>a. /\ (p * 10000) * d = 10000 * (p * d) /\ a * (10000 * n) = 10000 * (a * n)
      /\ a * (u + 9999) = a * u + 9999 * a /\ p * d \in Int /\ p * c \in Int
      /\ p * (c + 1) = p * c + p /\ p * (d + 2) = p * d + 2 * p
  BY <1>1, <1>5, <1>6
<1>8. p * d < p * (c + 1)
  BY <1>3, <1>4, <1>5, <1>6, <1>7, <1>a
<1>9. p * c < p * (d + 2)
  BY <1>3, <1>4, <1>5, <1>6, <1>7, <1>a
<1>10. d < c + 1 /\ c < d + 2
  BY <1>3, <1>5, <1>6, <1>8, <1>9, Cancel
<1>11. c - d \in {0, 1}
  BY <1>5, <1>6, <1>10
<1> QED
  BY <1>2, <1>11 DEF c, d, n

(* What is shown, at most h from the fraction, is at most h from its floor, *)
(* and what is paid is that floor or one more.                              *)
LEMMA ShownIsPaid ==
    ASSUME NEW a \in Nat \ {0}, NEW p \in Nat, a <= p, NEW t \in Nat,
           NEW f \in Fees, NEW h \in Nat, NEW s \in Int,
           s * (p * 10000) - a * t * (10000 - f) \in -(h * (p * 10000))..(h * (p * 10000))
    PROVE  (a * NetOfFee(t, f)) \div p - s \in -h..(h + 1)
<1> DEFINE c == (a * NetOfFee(t, f)) \div p
           x == a * t * (10000 - f)
           y == p * 10000
           q == x \div y
<1>1. c - q \in {0, 1}
  BY PreviewIsPaid
<1>2. x \in Nat /\ y \in Nat \ {0}
  <2>1. f \in Nat /\ f <= 10000 /\ a * t \in Nat
    BY DEF Fees
  <2>2. 10000 - f \in Nat
    BY <2>1
  <2> QED
    BY <2>1, <2>2
<1>3. s * y - x >= -(h * y) /\ s * y - x <= h * y
  <2>1. s * y - x \in -(h * y)..(h * y)
    OBVIOUS
  <2> HIDE DEF x, y
  <2> QED
    BY <1>2, <2>1
<1>4. c \in Int
  <2>1. NetIs(NetOfFee(t, f), t, f)
    BY NetBounds
  <2>2. a * NetOfFee(t, f) \in Nat /\ p \in Nat \ {0}
    BY <2>1 DEF NetIs
  <2> HIDE DEF NetOfFee
  <2> QED
    BY <2>2, DivBounds
<1> HIDE DEF x, y, c
<1>5. q \in Nat /\ y * q <= x /\ x < y * q + y
  BY <1>2, DivBounds
<1> HIDE DEF q
<1>6. /\ y * s = s * y /\ y * (q + 1 + h) = y * q + y + h * y
      /\ y * (s + 1) = s * y + y /\ y * (q - h) = y * q - h * y
      /\ y * q \in Int /\ h * y \in Int /\ s * y \in Int
  BY <1>2, <1>5
<1>7. y * s < y * (q + 1 + h) /\ y * (q - h) < y * (s + 1)
  BY <1>2, <1>3, <1>5, <1>6
<1>8. s < q + 1 + h /\ q - h < s + 1
  BY <1>2, <1>5, <1>7, Cancel
<1>9. c - s >= -h /\ c - s <= h + 1
  BY <1>1, <1>4, <1>5, <1>8
<1> QED
  BY <1>4, <1>9 DEF c

(* Before the bet the backend leaves the stake out, of the pool and of the  *)
(* total: what it says is no less.                                          *)
LEMMA PreviewIsLess ==
    ASSUME NEW a \in Nat \ {0}, NEW p \in Nat \ {0}, NEW t \in Nat, p <= t,
           NEW f \in Fees
    PROVE  (a * (t + a) * (10000 - f)) \div ((p + a) * 10000)
              <= (a * NetOfFee(t, f)) \div p
<1> DEFINE n == NetOfFee(t, f)
           v == 10000 - f
           x == a * (t + a) * v
           y == (p + a) * 10000
           d == x \div y
           s == (a * n) \div p
<1>1. n \in Nat /\ v \in Nat /\ t * v <= 10000 * n
  <2>1. f \in Nat /\ f <= 10000
    BY DEF Fees
  <2>2. v \in Nat
    BY <2>1
  <2>3. NetIs(n, t, f)
    BY NetBounds
  <2> QED
    BY <2>2, <2>3 DEF NetIs
<1> HIDE DEF n, v
<1>2. x \in Nat /\ y \in Nat \ {0} /\ a * n \in Nat
  BY <1>1
<1>3. d \in Nat /\ y * d <= x
  BY <1>2, DivBounds
<1>4. s \in Nat /\ a * n < p * s + p
  BY <1>2, DivBounds
<1>5. x * p <= (a * n) * y
  <2>1. a * v \in Nat /\ a * v * a \in Nat
    BY <1>1
  <2>2. (a * v * a) * p <= (a * v * a) * t
    BY <2>1, Times
  <2>3. x * p = (a * v) * (t * p) + (a * v * a) * p
    BY <1>1
  <2>4. (a * v) * (t * p) + (a * v * a) * t = (a * (p + a)) * (t * v)
    BY <1>1
  <2>5. (a * (p + a)) * (t * v) <= (a * (p + a)) * (10000 * n)
    BY <1>1, Times
  <2>6. (a * (p + a)) * (10000 * n) = (a * n) * y
    BY <1>1
  <2>7. /\ x * p \in Int /\ (a * n) * y \in Int
        /\ (a * v) * (t * p) \in Int /\ (a * v * a) * p \in Int
        /\ (a * v * a) * t \in Int
    BY <1>1, <1>2
  <2> HIDE DEF x, y
  <2> QED
    BY <2>2, <2>3, <2>4, <2>5, <2>6, <2>7
<1> HIDE DEF x, y, d, s
<1>6. (y * p) * d < (y * p) * (s + 1)
  <2>1. p * (y * d) <= p * x
    BY <1>2, <1>3, Times
  <2>2. y * (a * n + 1) <= y * (p * s + p)
    BY <1>2, <1>4, Times
  <2>3. /\ p * (y * d) = (y * p) * d /\ p * x = x * p
        /\ y * (a * n + 1) = (a * n) * y + y
        /\ y * (p * s + p) = (y * p) * (s + 1)
    BY <1>2, <1>3, <1>4
  <2> QED
    BY <1>2, <1>3, <1>4, <1>5, <2>1, <2>2, <2>3
<1>7. y * p \in Nat \ {0}
  BY <1>2
<1>8. d < s + 1
  BY <1>3, <1>4, <1>6, <1>7, Cancel
<1> QED
  BY <1>3, <1>4, <1>8 DEF d, s, x, y, n, v

(* The odds, of which a stake's payout is a part, lose by rounding at most a*)
(* ten thousandth of the stake and one.                                     *)
LEMMA OddsAreClose ==
    ASSUME NEW a \in Nat, NEW p \in Nat \ {0}, NEW n \in Nat
    PROVE  (a * n) \div p - (a * ((n * 10000) \div p)) \div 10000
              \in 0..1 + a \div 10000
<1> DEFINE c == (a * n) \div p
           m == (n * 10000) \div p
           e == (a * m) \div 10000
           q == a \div 10000
<1>1. a * n \in Nat /\ n * 10000 \in Nat
  OBVIOUS
<1>2. c \in Nat /\ p * c <= a * n /\ a * n < p * c + p
  BY <1>1, DivBounds
<1>3. m \in Nat /\ p * m <= n * 10000 /\ n * 10000 < p * m + p
  BY <1>1, DivBounds
<1> HIDE DEF c, m
<1>4. a * m \in Nat
  BY <1>3
<1>5. e \in Nat /\ 10000 * e <= a * m /\ a * m < 10000 * e + 10000
  BY <1>4, DivBounds
<1>6. q \in Nat /\ a < 10000 * q + 10000
  BY DivBounds
<1> HIDE DEF e, q
<1>7. p * e < p * (c + 1)
  <2>1. p * (10000 * e) <= p * (a * m)
    BY <1>4, <1>5, Times
  <2>2. a * (p * m) <= a * (n * 10000)
    BY <1>3, Times
  <2>3. /\ p * (10000 * e) = 10000 * (p * e) /\ p * (a * m) = a * (p * m)
        /\ a * (n * 10000) = 10000 * (a * n) /\ p * (c + 1) = p * c + p
    BY <1>2, <1>3, <1>5
  <2>4. p * e \in Int /\ p * c \in Int /\ a * (p * m) \in Int
    BY <1>2, <1>3, <1>5
  <2> QED
    BY <1>1, <1>2, <2>1, <2>2, <2>3, <2>4
<1>8. p * (10000 * c) < p * (a * m + a + 1)
  <2>1. a * (n * 10000) <= a * (p * m + p)
    BY <1>3, Times
  <2>2. /\ p * (10000 * c) = 10000 * (p * c) /\ a * (n * 10000) = 10000 * (a * n)
        /\ a * (p * m + p) = p * (a * m + a)
        /\ p * (a * m + a + 1) = p * (a * m + a) + p
    BY <1>2, <1>3
  <2>3. p * c \in Int /\ p * (a * m + a) \in Int
    BY <1>2, <1>4
  <2> QED
    BY <1>1, <1>2, <2>1, <2>2, <2>3
<1>9. e < c + 1 /\ 10000 * c < a * m + a + 1
  BY <1>2, <1>4, <1>5, <1>7, <1>8, Cancel
<1>10. c - e >= 0 /\ c - e <= 1 + q
  BY <1>2, <1>4, <1>5, <1>6, <1>9
<1>11. c - e \in 0..1 + q
  BY <1>2, <1>5, <1>6, <1>10
<1> QED
  BY <1>11 DEF c, e, m, q

(* Odds after the fee, rounded to hundredths, hardly exceed those before.   *)
LEMMA OddsAfterFee ==
    ASSUME NEW p \in Nat \ {0}, NEW n \in Nat, NEW t \in Nat, n <= t
    PROVE  ((n * 10000) \div p + 50) \div 100 <= (t * 100) \div p + 1
<1> DEFINE m == (n * 10000) \div p
           k == (t * 100) \div p
           r == (m + 50) \div 100
<1>1. m \in Nat /\ p * m <= n * 10000
  BY DivBounds
<1>2. k \in Nat /\ t * 100 < p * k + p
  BY DivBounds
<1> HIDE DEF m, k
<1>3. r \in Nat /\ 100 * r <= m + 50
  BY <1>1, DivBounds
<1> HIDE DEF r
<1>4. p * m < p * (100 * (k + 1))
  <2>1. p * (100 * (k + 1)) = 100 * (p * k + p)
    BY <1>2
  <2>2. p * m \in Int /\ p * k \in Int
    BY <1>1, <1>2
  <2> QED
    BY <1>1, <1>2, <2>1, <2>2
<1>5. m < 100 * (k + 1)
  BY <1>1, <1>2, <1>4, Cancel
<1>6. r <= k + 1
  BY <1>1, <1>2, <1>3, <1>5
<1> QED
  BY <1>6 DEF m, k, r

-----------------------------------------------------------------------------
(* The bet that is followed *)

Sidelines == Quote!Outcomes
Whole == SumFunctionOnSet(pools, Sidelines)

(* The hook's figure for a bet of a on a side of p, all of it t; and what    *)
(* the page may show for it.                                                *)
Figure(a, t, p, f) == (a * t * (10000 - f)) \div (p * 10000)
Shown(s, a, t, p, f) ==
    /\ s \in Int
    /\ s * (p * 10000) - a * t * (10000 - f)
          \in -(Quote!MostOff * (p * 10000))..(Quote!MostOff * (p * 10000))

QuoteInv ==
    /\ feeBps \in Fees
    /\ pools \in [Sidelines -> Nat]
    /\ bet # Quote!NoBet =>
          /\ bet.side \in Sidelines
          /\ bet.amount \in Nat \ {0}
          /\ bet.amount <= pools[bet.side]
          /\ "page" \notin behind =>
                Shown(preview, bet.amount, Whole, pools[bet.side], feeBps)
          /\ "hook" \notin behind =>
                /\ projected = Figure(bet.amount, Whole, pools[bet.side], feeBps)
                /\ simulated = 0 \/ projected <= simulated

LEMMA SidelinesFinite == IsFiniteSet(Sidelines)
<1>1. Sidelines = {"fighter_a", "fighter_b"} \cup {"draw"}
  BY DEF Sidelines, Quote!Outcomes
<1>2. IsFiniteSet({"fighter_a"}) /\ IsFiniteSet({"fighter_b"}) /\ IsFiniteSet({"draw"})
  BY FS_Singleton
<1>3. {"fighter_a", "fighter_b"} = {"fighter_a"} \cup {"fighter_b"}
  OBVIOUS
<1> QED
  BY <1>1, <1>2, <1>3, FS_Union

LEMMA WholeIs ==
    ASSUME QuoteInv
    PROVE  /\ Quote!Total = Whole /\ Whole \in Nat
           /\ \A o \in Sidelines : pools[o] \in Nat /\ pools[o] <= Whole
<1>1. Quote!Total = Whole
  BY SameSum DEF Quote!Total, Quote!Sum3, Whole, Sidelines
<1>2. \A o \in Sidelines : pools[o] \in Nat
  BY DEF QuoteInv
<1>3. Whole \in Nat /\ \A o \in Sidelines : pools[o] <= Whole
  BY <1>2, SidelinesFinite, SumAtLeast DEF Whole
<1> QED
  BY <1>1, <1>2, <1>3

(* A bet joins its pool, and the whole.                                     *)
LEMMA BetJoins ==
    ASSUME QuoteInv, NEW o \in Sidelines, NEW a \in Nat,
           pools' = [pools EXCEPT ![o] = @ + a]
    PROVE  /\ pools' \in [Sidelines -> Nat]
           /\ pools'[o] = pools[o] + a
           /\ \A x \in Sidelines : pools[x] <= pools'[x]
           /\ Whole' = Whole + a
<1>1. \A x \in Sidelines : pools[x] \in Nat
  BY DEF QuoteInv
<1>2. pools' \in [Sidelines -> Nat] /\ pools'[o] = pools[o] + a
  BY <1>1 DEF QuoteInv
<1>3. \A x \in Sidelines \ {o} : pools'[x] = pools[x]
  BY DEF QuoteInv
<1>4. \A x \in Sidelines : pools[x] <= pools'[x]
  BY <1>1, <1>2, <1>3
<1>5. Whole' = Whole + a
  <2> DEFINE old == pools
             new == pools'
  <2>1. /\ \A x \in Sidelines : old[x] \in Int /\ new[x] \in Int
        /\ \A x \in Sidelines \ {o} : old[x] = new[x]
    BY <1>1, <1>2, <1>3
  <2>2. Whole = SumFunctionOnSet(old, Sidelines)
        /\ Whole' = SumFunctionOnSet(new, Sidelines)
    BY DEF Whole
  <2>3. new[o] = old[o] + a
    BY <1>2
  <2>4. SumFunctionOnSet(old, Sidelines) \in Int
    BY <2>1, SidelinesFinite, SumInt
  <2>5. old[o] \in Int
    BY <2>1
  <2> HIDE DEF old, new
  <2>6. SumFunctionOnSet(new, Sidelines)
           = SumFunctionOnSet(old, Sidelines) - old[o] + new[o]
    BY <2>1, SidelinesFinite, SumUpdate
  <2> QED
    BY <2>2, <2>3, <2>4, <2>5, <2>6
<1> QED
  BY <1>2, <1>4, <1>5

(* What is shown of the pools as they are, for a stake that then joins them.*)
LEMMA DisplayedIsShown ==
    ASSUME Grain \in Nat \ {0}, FloatError \in Nat, QuoteInv,
           NEW o \in Sidelines, NEW a \in Nat \ {0},
           NEW s, s \in Quote!Displayed(pools, o, a)
    PROVE  Shown(s, a, Whole + a, pools[o] + a, feeBps)
<1> DEFINE x == a * (Whole + a) * (10000 - feeBps)
           y == (pools[o] + a) * 10000
           g == ((x \div y) \div Grain) * Grain
           m == Quote!MostOff * y
<1>1. Quote!Sum3(pools) = Whole /\ Whole \in Nat /\ pools[o] \in Nat
  BY WholeIs DEF Quote!Total
<1>2. Quote!Numerator(pools, a) = x /\ Quote!Denominator(pools, o, a) = y
  BY <1>1 DEF Quote!Numerator, Quote!Denominator
<1>3. s \in {g, g + Grain} /\ s * y - x \in -m..m
  BY <1>2 DEF Quote!Displayed
<1>4. x \in Nat /\ y \in Nat \ {0}
  <2>1. feeBps \in Nat /\ feeBps <= 10000
    BY DEF QuoteInv, Fees
  <2>2. 10000 - feeBps \in Nat /\ a * (Whole + a) \in Nat
    BY <1>1, <2>1
  <2> QED
    BY <1>1, <2>2
<1>5. g \in Int
  <2> HIDE DEF x, y
  <2>1. x \div y \in Nat
    BY <1>4, DivBounds
  <2>2. (x \div y) \div Grain \in Nat
    BY <2>1, DivBounds
  <2> QED
    BY <2>2
<1> HIDE DEF g
<1>6. s \in Int
  BY <1>3, <1>5
<1> QED
  BY <1>3, <1>6 DEF Shown

LEMMA QuoteInvStep ==
    ASSUME Amounts \subseteq Nat \ {0}, Grain \in Nat \ {0}, FloatError \in Nat
    PROVE  QuoteInv /\ [Quote!QuoteNext]_quoteVars => QuoteInv'
<1> SUFFICES ASSUME QuoteInv, [Quote!QuoteNext]_quoteVars
             PROVE  QuoteInv'
  OBVIOUS
<1>1. ASSUME UNCHANGED <<feeBps, pools, behind, bet, simulated, projected, preview>>
      PROVE  QuoteInv'
  <2>1. Whole' = Whole
    BY <1>1 DEF Whole
  <2> QED
    BY <1>1, <2>1 DEF QuoteInv, Shown, Figure
<1>2. ASSUME NEW o \in Sidelines, Quote!Resolve(o)
      PROVE  QuoteInv'
  BY <1>1, <1>2 DEF Quote!Resolve
<1>3. ASSUME NEW o \in Sidelines, NEW a \in Amounts, Quote!OthersBet(o, a)
      PROVE  QuoteInv'
  <2>1. /\ UNCHANGED <<feeBps, bet, simulated, projected, preview>>
        /\ pools' = [pools EXCEPT ![o] = @ + a]
        /\ bet # Quote!NoBet => "page" \in behind' /\ "hook" \in behind'
    BY <1>3 DEF Quote!OthersBet
  <2>2. a \in Nat
    OBVIOUS
  <2>3. pools' \in [Sidelines -> Nat] /\ \A x \in Sidelines : pools[x] <= pools'[x]
    BY <2>1, <2>2, BetJoins
  <2>4. bet # Quote!NoBet =>
          /\ bet.side \in Sidelines /\ bet.amount \in Nat \ {0}
          /\ bet.amount <= pools'[bet.side]
    <3>1. \A x \in Sidelines : pools[x] \in Nat /\ pools'[x] \in Nat
      BY <2>3, WholeIs
    <3> QED
      BY <2>3, <3>1 DEF QuoteInv
  <2> QED
    BY <2>1, <2>3, <2>4 DEF QuoteInv
<1>4. ASSUME Quote!LoadMarket
      PROVE  QuoteInv'
  BY <1>1, <1>4 DEF Quote!LoadMarket
<1>5. ASSUME NEW o \in Sidelines, NEW a \in Amounts, Quote!Bet(o, a)
      PROVE  QuoteInv'
  <2> DEFINE p == pools[o]
             t == Whole
             heard == Quote!ApplyTradeEventToMarket
  <2>1. /\ feeBps' = feeBps
        /\ pools' = [pools EXCEPT ![o] = @ + a]
        /\ bet' = [side |-> o, amount |-> a]
        /\ preview' \in Quote!Displayed(row, o, a)
        /\ projected' = Quote!ProjectedPayout(heard, o, a)
        /\ simulated' = Quote!SimulateProjectedPayout(o, a)
        /\ "page" \notin behind' => row = pools
        /\ "hook" \notin behind' => heard = pools
    BY <1>5 DEF Quote!Bet
  <2>2. a \in Nat \ {0} /\ p \in Nat /\ t \in Nat /\ p <= t /\ feeBps \in Fees
    BY WholeIs DEF QuoteInv
  <2>3. pools' \in [Sidelines -> Nat] /\ pools'[o] = p + a /\ Whole' = t + a
    BY <2>1, <2>2, BetJoins
  <2>4. bet'.side = o /\ bet'.amount = a
    BY <2>1
  <2>5. "page" \notin behind' => Shown(preview', a, t + a, p + a, feeBps)
    BY <2>1, <2>2, DisplayedIsShown
  <2> HIDE DEF heard
  <2>6. ASSUME "hook" \notin behind'
        PROVE  projected' = Figure(a, t + a, p + a, feeBps)
    <3>1. Quote!Sum3(pools) = t
      BY WholeIs DEF Quote!Total
    <3>2. projected' = Quote!ProjectedPayout(pools, o, a)
      BY <2>1, <2>6
    <3> QED
      BY <3>1, <3>2 DEF Quote!ProjectedPayout, Quote!Numerator, Quote!Denominator, Figure
  <2>7. ASSUME "hook" \notin behind'
        PROVE  simulated' = 0 \/ projected' <= simulated'
    <3>1. CASE p = 0
      BY <2>1, <3>1 DEF Quote!SimulateProjectedPayout, Quote!Share
    <3>2. CASE p # 0
      <4>1. simulated' = (a * NetOfFee(t, feeBps)) \div p
        BY <2>1, <3>2, WholeIs DEF Quote!SimulateProjectedPayout, Quote!Share,
                                   Quote!NetPool, NetOfFee
      <4>2. p \in Nat \ {0}
        BY <2>2, <3>2
      <4> HIDE DEF p, t
      <4>3. (a * (t + a) * (10000 - feeBps)) \div ((p + a) * 10000)
               <= (a * NetOfFee(t, feeBps)) \div p
        BY <2>2, <4>2, PreviewIsLess
      <4> QED
        BY <2>6, <2>7, <4>1, <4>3 DEF Figure
    <3> QED
      BY <3>1, <3>2
  <2>8. a <= p + a
    BY <2>2
  <2>9. Shown(preview, bet.amount, Whole, pools[bet.side], feeBps)'
           <=> Shown(preview', a, t + a, p + a, feeBps)
    BY <2>1, <2>3, <2>4 DEF Shown
  <2>10. Figure(bet.amount, Whole, pools[bet.side], feeBps)' = Figure(a, t + a, p + a, feeBps)
    BY <2>1, <2>3, <2>4 DEF Figure
  <2> HIDE DEF p, t
  <2> QED
    BY <2>1, <2>2, <2>3, <2>4, <2>5, <2>6, <2>7, <2>8, <2>9, <2>10 DEF QuoteInv
<1> QED
  <2>1. CASE UNCHANGED quoteVars
    BY <1>1, <2>1 DEF quoteVars
  <2> QED
    BY <1>2, <1>3, <1>4, <1>5, <2>1 DEF Quote!QuoteNext, Sidelines

LEMMA QuoteInvInit ==
    ASSUME FeeChoices \subseteq Fees
    PROVE  PartsInit => QuoteInv
<1> SUFFICES ASSUME Quote!QuoteInit
             PROVE  QuoteInv
  BY DEF PartsInit
<1> QED
  BY DEF Quote!QuoteInit, QuoteInv, Sidelines

LEMMA QuoteInvShows ==
    ASSUME Grain \in Nat \ {0}, FloatError \in Nat
    PROVE  QuoteInv => Quote!PromiseKept
<1> SUFFICES ASSUME QuoteInv, bet # Quote!NoBet
             PROVE  /\ "hook" \notin behind => simulated = 0 \/ projected <= simulated
                    /\ \A o \in Sidelines : Quote!OddsAgree(o)
                    /\ result = bet.side =>
                          /\ "page" \notin behind =>
                                Quote!ContractPayout - preview
                                   \in -Quote!MostOff..(Quote!MostOff + 1)
                          /\ "hook" \notin behind =>
                                Quote!ContractPayout - projected \in {0, 1}
                          /\ Quote!CalculateProjectedPayout = Quote!ContractPayout
  BY DEF Quote!PromiseKept, Sidelines
<1> DEFINE a == bet.amount
           p == pools[bet.side]
           t == Whole
           n == NetOfFee(t, feeBps)
<1>1. /\ bet.side \in Sidelines /\ a \in Nat \ {0} /\ p \in Nat \ {0} /\ a <= p
      /\ feeBps \in Fees
  BY DEF QuoteInv
<1>2. Quote!Total = t /\ t \in Nat
  BY WholeIs
<1>3. Quote!NetPool = n /\ Quote!ContractPayout = (a * n) \div p
  BY <1>2 DEF Quote!NetPool, Quote!ContractPayout, NetOfFee
<1>4. Quote!CalculateProjectedPayout = Quote!ContractPayout
  <2>1. pools[bet.side] # 0
    BY <1>1
  <2> QED
    BY <1>3, <2>1 DEF Quote!CalculateProjectedPayout, Quote!Share
<1>5. "hook" \notin behind => simulated = 0 \/ projected <= simulated
  BY DEF QuoteInv
<1>6. /\ "hook" \notin behind => projected = Figure(a, t, p, feeBps)
      /\ "page" \notin behind => Shown(preview, a, t, p, feeBps)
  BY DEF QuoteInv
<1> HIDE DEF a, p, t, n
<1>7. n \in Nat /\ n <= t
  <2>1. NetIs(n, t, feeBps)
    BY <1>1, <1>2, NetBounds DEF n
  <2> QED
    BY <2>1 DEF NetIs
<1>8. "hook" \notin behind => Quote!ContractPayout - projected \in {0, 1}
  <2>1. (a * n) \div p - (a * t * (10000 - feeBps)) \div (p * 10000) \in {0, 1}
    BY <1>1, <1>2, PreviewIsPaid DEF n
  <2> QED
    BY <1>3, <1>6, <2>1 DEF Figure
<1>9. ASSUME NEW o \in Sidelines
      PROVE  Quote!OddsAgree(o)
  <2>1. ASSUME bet.side = o
        PROVE  Quote!ContractPayout - (a * Quote!MarketOdds(o)) \div 10000
                  \in 0..1 + a \div 10000
    <3>1. pools[o] = p /\ pools[o] # 0
      BY <1>1, <2>1 DEF p
    <3>2. Quote!MarketOdds(o) = (n * 10000) \div p
      BY <1>3, <3>1 DEF Quote!MarketOdds, Quote!Share
    <3>3. (a * n) \div p - (a * ((n * 10000) \div p)) \div 10000
             \in 0..1 + a \div 10000
      BY <1>1, <1>7, OddsAreClose
    <3> QED
      BY <1>3, <3>2, <3>3
  <2>2. Quote!ComputeOutcomeOdds(o) <= Quote!CalculateOdds(o) + 1
    <3>1. pools[o] \in Nat
      BY DEF QuoteInv
    <3>2. CASE pools[o] = 0
      <4>1. Quote!MarketOdds(o) = 0 /\ Quote!CalculateOdds(o) = 0
        BY <3>2 DEF Quote!MarketOdds, Quote!CalculateOdds, Quote!Share
      <4> QED
        BY <4>1 DEF Quote!ComputeOutcomeOdds
    <3>3. CASE pools[o] # 0
      <4> DEFINE q == pools[o]
      <4>1. q \in Nat \ {0}
        BY <3>1, <3>3
      <4>2. /\ Quote!MarketOdds(o) = (n * 10000) \div q
            /\ Quote!CalculateOdds(o) = (t * 100) \div q
        BY <1>2, <1>3, <3>3 DEF Quote!MarketOdds, Quote!CalculateOdds, Quote!Share
      <4> HIDE DEF q
      <4>3. ((n * 10000) \div q + 50) \div 100 <= (t * 100) \div q + 1
        BY <1>2, <1>7, <4>1, OddsAfterFee
      <4> QED
        BY <4>2, <4>3 DEF Quote!ComputeOutcomeOdds
    <3> QED
      BY <3>2, <3>3
  <2>3. a = bet.amount
    BY DEF a
  <2> QED
    BY <2>1, <2>2, <2>3 DEF Quote!OddsAgree
<1>10. "page" \notin behind =>
          Quote!ContractPayout - preview \in -Quote!MostOff..(Quote!MostOff + 1)
  <2>1. Quote!MostOff \in Nat
    <3>1. Grain \div 2 \in Nat
      BY DivBounds
    <3> QED
      BY <3>1 DEF Quote!MostOff
  <2> QED
    BY <1>1, <1>2, <1>3, <1>6, <2>1, ShownIsPaid DEF Shown, n
<1> QED
  BY <1>4, <1>5, <1>8, <1>9, <1>10

(* A winner whom nobody has followed, and whose page had the pools as they  *)
(* were, is paid what the page showed, but for half of its last decimal and *)
(* what floating point adds, and one stroop; where the hook had them, what  *)
(* it promised or one stroop more.  The backend's figures agree with the    *)
(* contract's, and its figure before a bet is not below the hook's: for any *)
(* amounts and pools, and any fee up to the whole.                          *)
THEOREM AlwaysPromiseKept ==
    ASSUME FeeChoices \subseteq Fees, Amounts \subseteq Nat \ {0},
           Grain \in Nat \ {0}, FloatError \in Nat
    PROVE  PartsSpec => []PromiseKept
<1>1. PartsInit => QuoteInv
  BY QuoteInvInit
<1>2. QuoteInv /\ [PartsNext]_variables => QuoteInv'
  BY QuoteInvStep, OneAtATime
<1>3. QuoteInv => PromiseKept
  BY QuoteInvShows DEF PromiseKept
<1> QED
  BY <1>1, <1>2, <1>3, PTL DEF PartsSpec

-----------------------------------------------------------------------------
(* The tables of bets *)

(* While a bettor's history loads its table is not there, and will begin at *)
(* its first page.                                                          *)
TableInv ==
    /\ table \in {"history", "list"}
    /\ bets \subseteq TableBets /\ tablePage \in Nat \ {0}
    /\ table = "history" /\ tableLoading /\ ~shifted => tablePage = 1
    /\ ~tableLoading /\ ~shifted => tablePage <= Tables!TotalPages(tab)

(* To the tables too, a step of MCParts is one of theirs or no step at all. *)
LEMMA TablesAlone ==
    ASSUME [PartsNext]_variables
    PROVE  [Tables!TableNext]_tableVars
BY DEF PartsNext, Others, variables

LEMMA TableBetsFinite == IsFiniteSet(TableBets)
<1>1. ASSUME NEW a, NEW b, NEW c, NEW d, NEW e
      PROVE  IsFiniteSet({a, b, c, d, e})
  <2>1. IsFiniteSet({a}) /\ IsFiniteSet({b})
    BY FS_Singleton
  <2>2. IsFiniteSet({a} \cup {b})
    BY <2>1, FS_AddElement
  <2>3. IsFiniteSet({a} \cup {b} \cup {c})
    BY <2>2, FS_AddElement
  <2>4. IsFiniteSet({a} \cup {b} \cup {c} \cup {d})
    BY <2>3, FS_AddElement
  <2>5. IsFiniteSet({a} \cup {b} \cup {c} \cup {d} \cup {e})
    BY <2>4, FS_AddElement
  <2>6. {a} \cup {b} \cup {c} \cup {d} \cup {e} = {a, b, c, d, e}
    OBVIOUS
  <2> QED
    BY <2>5, <2>6
<1> QED
  BY <1>1, Zenon DEF TableBets

LEMMA CeilingPositive ==
    ASSUME NEW n \in Nat, NEW size \in Nat \ {0}
    PROVE  (n + size - 1) \div size \in Nat
OBVIOUS

(* However many rows a table has, it has a page.                            *)
PageCount(size) ==
    LET n == (size + PageSize - 1) \div PageSize
    IN IF n = 0 THEN 1 ELSE n

LEMMA PagesPositive ==
    ASSUME NEW chosen \in SUBSET TableBets, PageSize \in Nat \ {0}
    PROVE  PageCount(Tables!Cardinality(chosen)) \in Nat \ {0}
<1> DEFINE size == Tables!Cardinality(chosen)
           n == (size + PageSize - 1) \div PageSize
<1>1. size = Cardinality(chosen)
  BY Zenon DEF Tables!Cardinality, Cardinality
<1>2. size \in Nat
  BY <1>1, TableBetsFinite, FS_Subset, FS_CardinalityType
<1> HIDE DEF size
<1>3. n \in Nat
  BY <1>2, CeilingPositive
<1>4. PageCount(size) = IF n = 0 THEN 1 ELSE n
  BY DEF PageCount
<1> HIDE DEF n
<1>5. PageCount(size) \in Nat \ {0}
  BY <1>3, <1>4
<1> QED
  BY <1>5 DEF size

LEMMA TotalPagesPositive ==
    ASSUME bets \subseteq TableBets, PageSize \in Nat \ {0}, NEW t
    PROVE  Tables!TotalPages(t) \in Nat \ {0}
<1>1. Tables!Filtered(t) \in SUBSET TableBets
  BY DEF Tables!Filtered
<1>2. Tables!TotalPages(t) = PageCount(Tables!Cardinality(Tables!Filtered(t)))
  BY DEF Tables!TotalPages, PageCount
<1> QED
  BY <1>1, <1>2, PagesPositive

LEMMA ChooseInv ==
    ASSUME TableInv, PageSize \in Nat \ {0}, NEW t, NEW s, NEW p \in Nat \ {0},
           Tables!Choose(t, s, p), ~shifted => p <= Tables!TotalPages(t)
    PROVE  TableInv'
<1>1. /\ ~tableLoading /\ tableLoading' = tableLoading /\ bets' = bets
      /\ table' = table /\ tab' = t /\ tablePage' = p
      /\ shifted' = (shifted /\ p > Tables!TotalPages(t))
  BY DEF Tables!Choose, Tables!Shown
<1>2. Tables!TotalPages(tab)' = Tables!TotalPages(t)
  BY <1>1 DEF Tables!TotalPages, Tables!Filtered
<1>3. Tables!TotalPages(t) \in Nat
  BY TotalPagesPositive DEF TableInv
<1>4. ASSUME ~shifted'
      PROVE  p <= Tables!TotalPages(t)
  <2>1. ~shifted \/ ~(p > Tables!TotalPages(t))
    BY <1>1, <1>4, Zenon
  <2> QED
    BY <2>1, <1>3
<1> QED
  BY <1>1, <1>2, <1>4 DEF TableInv

LEMMA TableInvStep ==
    ASSUME TableInv, PageSize \in Nat \ {0}, [Tables!TableNext]_tableVars
    PROVE  TableInv'
<1>1. CASE UNCHANGED tableVars
  BY <1>1 DEF TableInv, tableVars, Tables!TotalPages, Tables!Filtered
<1>2. CASE Tables!Load
  <2>1. CASE table = "history"
    BY <1>2, <2>1 DEF TableInv, Tables!Load
  <2>2. CASE table # "history"
    BY <1>2, <2>2 DEF TableInv, Tables!Load
  <2> QED
    BY <2>1, <2>2
<1>3. ASSUME NEW l \in 1..MaxLoads, NEW chosen \in SUBSET TableBets, Tables!Answer(l, chosen)
      PROVE  TableInv'
  <2>1. /\ bets' = chosen /\ ~tableLoading' /\ UNCHANGED <<table, tab, tablePage>>
        /\ shifted' = (shifted \/ table = "list" \/ ~tableLoading)
    BY <1>3 DEF Tables!Answer
  <2>2. bets' \subseteq TableBets
    BY <2>1
  <2>3. Tables!Filtered(tab)' \in SUBSET TableBets
    BY <2>2 DEF Tables!Filtered
  <2>4. Tables!TotalPages(tab)' = PageCount(Tables!Cardinality(Tables!Filtered(tab)'))
    BY DEF Tables!TotalPages, PageCount
  <2>5. Tables!TotalPages(tab)' \in Nat \ {0}
    BY <2>3, <2>4, PagesPositive
  <2>6. tablePage' \in Nat \ {0}
    BY <2>1 DEF TableInv
  <2>7. ASSUME ~shifted'
        PROVE  tablePage' = 1
    BY <2>1, <2>7 DEF TableInv
  <2>8. ~shifted' => tablePage' <= Tables!TotalPages(tab)'
    BY <2>5, <2>7
  <2> QED
    BY <2>1, <2>2, <2>6, <2>8 DEF TableInv
<1> USE DEF TableInv
<1>4. ASSUME NEW t, Tables!ClickTab(t)
      PROVE  TableInv'
  BY <1>4, ChooseInv, TotalPagesPositive DEF Tables!ClickTab, Tables!FirstPage
<1>5. ASSUME NEW by, Tables!HandleSort(by)
      PROVE  TableInv'
  BY <1>5, ChooseInv, TotalPagesPositive DEF Tables!HandleSort, Tables!FirstPage
<1>6. CASE Tables!Previous
  <2>1. Tables!TotalPages(tab) \in Nat \ {0}
    BY TotalPagesPositive
  <2>2. Tables!Choose(tab, sort, tablePage - 1) /\ tablePage # 1 /\ ~tableLoading
    BY <1>6 DEF Tables!Previous, Tables!Choose, Tables!Shown
  <2>3. tablePage - 1 \in Nat \ {0} /\ (~shifted => tablePage - 1 <= Tables!TotalPages(tab))
    BY <2>1, <2>2
  <2> QED
    BY <2>2, <2>3, ChooseInv
<1>7. CASE Tables!Following
  BY <1>7, ChooseInv, TotalPagesPositive DEF Tables!Following
<1> QED
  BY <1>1, <1>2, <1>3, <1>4, <1>5, <1>6, <1>7 DEF Tables!TableNext

(* However loads overlap and whatever they answer, the page a table is on   *)
(* is one that it has, unless an answer changed the rows under it           *)
(* (BetHistoryTable, BetList): of the safety in ListsFollowUser.            *)
THEOREM PageAlwaysInRange ==
    ASSUME PageSize \in Nat \ {0}
    PROVE  PartsSpec => []Tables!PageInRange
<1>1. PartsInit => TableInv
  <2> SUFFICES ASSUME Tables!TableInit
               PROVE  TableInv
    BY DEF PartsInit
  <2> QED
    BY DEF Tables!TableInit, TableInv
<1>2. TableInv /\ [PartsNext]_variables => TableInv'
  BY TableInvStep, TablesAlone
<1>3. TableInv => Tables!PageInRange
  BY DEF TableInv, Tables!PageInRange, Tables!Shown
<1> QED
  BY <1>1, <1>2, <1>3, PTL DEF PartsSpec

-----------------------------------------------------------------------------
(* The pages of bets *)

(* What a wallet has on record after its first k rows.                      *)
Past(s, k) == {s[i] : i \in {j \in 1..Len(s) : j > k}}

BetListType ==
    [rows : Seq(Nat), page : Nat \ {0}, of : Wallets \cup {"none"}, base : SUBSET Nat,
     mixed : BOOLEAN, broken : BOOLEAN]

BetRequestType ==
    [stage : {"asked", "read"}, page : Nat \ {0}, of : Wallets, from : BetListType,
     answer : Seq(Nat), base : SUBSET Nat]

(* What a list does not have of its base lies after its last page.          *)
Gapless(base, had, page, w) ==
    base \ Bets!ToSet(had) \subseteq Past(onRecord[w], page * BetLimit)

SoundList(l) ==
    /\ l \in BetListType
    /\ l.of # "none" /\ ~l.mixed => Gapless(l.base, l.rows, l.page, l.of)

(* A page is asked for after the list it will follow, and once it is read   *)
(* the list it will make is sound.                                          *)
SoundRequest(q) ==
    /\ q \in BetRequestType /\ SoundList(q.from)
    /\ q.page > 1 => q.page = q.from.page + 1
    /\ q.stage = "read" =>
          /\ q.page = 1 => Gapless(q.base, q.answer, 1, q.of)
          /\ q.page > 1 /\ q.of # "none" /\ q.from.of = q.of /\ ~q.from.mixed =>
                Gapless(q.from.base, q.from.rows \o q.answer, q.page, q.of)

BetPagesInv ==
    /\ bettor \in Wallets \cup {"none"}
    /\ onRecord \in [Wallets -> Seq(Nat)]
    /\ SoundList(betList)
    /\ DOMAIN pageRequests = 1..MaxLoads
    /\ \A r \in 1..MaxLoads :
          pageRequests[r] = Bets!NoRequest \/ SoundRequest(pageRequests[r])

(* To the pages of bets too, a step of MCParts is one of theirs or no step. *)
LEMMA BetPagesAlone ==
    ASSUME [PartsNext]_variables
    PROVE  [Bets!BetPageNext]_betPageVars
BY DEF PartsNext, Others, variables

LEMMA Joined ==
    ASSUME NEW a \in Seq(Nat), NEW b \in Seq(Nat)
    PROVE  /\ a \o b \in Seq(Nat) /\ Len(a \o b) = Len(a) + Len(b)
           /\ \A i \in 1..Len(a) : (a \o b)[i] = a[i]
           /\ \A i \in 1..Len(b) : (a \o b)[Len(a) + i] = b[i]
OBVIOUS

(* A row that comes in pushes others towards the end, never to the front.   *)
LEMMA InsertPushes ==
    ASSUME NEW s \in Seq(Nat), NEW place \in 1..Len(s) + 1, NEW e \in Nat, NEW k \in Nat
    PROVE  /\ Bets!InsertAt(s, place, e) \in Seq(Nat)
           /\ Past(s, k) \subseteq Past(Bets!InsertAt(s, place, e), k)
<1> DEFINE front == SubSeq(s, 1, place - 1)
           back == SubSeq(s, place, Len(s))
           most == Append(front, e)
           new == most \o back
           n == Len(s)
<1>0. n \in Nat /\ place \in 1..n + 1
  OBVIOUS
<1>1. /\ front \in Seq(Nat) /\ Len(front) = place - 1
      /\ \A i \in 1..place - 1 : front[i] = s[i]
  OBVIOUS
<1>2. /\ back \in Seq(Nat) /\ Len(back) = n - place + 1
      /\ \A i \in 1..(n - place + 1) : back[i] = s[place + i - 1]
  OBVIOUS
<1> HIDE DEF front, back, n
<1>3. /\ new \in Seq(Nat) /\ Len(new) = n + 1
      /\ \A i \in 1..place - 1 : new[i] = front[i]
      /\ \A i \in 1..(n - place + 1) : new[place + i] = back[i]
  <2>1. /\ most \in Seq(Nat) /\ Len(most) = place
        /\ \A i \in 1..place - 1 : most[i] = front[i]
    BY <1>0, <1>1
  <2> HIDE DEF most
  <2>2. /\ new \in Seq(Nat) /\ Len(new) = Len(most) + Len(back)
        /\ \A i \in 1..Len(most) : new[i] = most[i]
        /\ \A i \in 1..Len(back) : new[Len(most) + i] = back[i]
    BY <1>2, <2>1, Joined
  <2> HIDE DEF new
  <2>5. Len(new) = n + 1
    BY <1>0, <1>2, <2>1, <2>2
  <2>3. \A i \in 1..place - 1 : new[i] = most[i]
    <3>1. 1..place - 1 \subseteq 1..Len(most)
      BY <1>0, <2>1
    <3> QED
      BY <2>2, <3>1
  <2>4. \A i \in 1..(n - place + 1) : new[place + i] = back[i]
    BY <1>2, <2>1, <2>2
  <2> QED
    BY <2>1, <2>2, <2>3, <2>4, <2>5
<1>5. new = Bets!InsertAt(s, place, e)
  <2>1. most = front \o <<e>>
    BY <1>1 DEF most
  <2> QED
    BY <2>1, Zenon DEF new, front, back, Bets!InsertAt
<1> HIDE DEF new
<1>4. ASSUME NEW i \in 1..n, i > k
      PROVE  \E j \in 1..n + 1 : j > k /\ new[j] = s[i]
  <2>1. CASE i < place
    <3>1. i \in 1..place - 1 /\ i \in 1..n + 1
      BY <1>0, <2>1
    <3>2. new[i] = s[i]
      BY <1>1, <1>3, <3>1
    <3> QED
      BY <1>4, <3>1, <3>2
  <2>2. CASE i >= place
    <3> DEFINE m == i - place + 1
    <3>1. m \in 1..(n - place + 1) /\ place + m = i + 1 /\ place + m - 1 = i
      BY <1>0, <2>2
    <3> HIDE DEF m
    <3>2. new[i + 1] = s[i]
      BY <1>2, <1>3, <3>1
    <3> QED
      BY <1>0, <1>4, <3>2
  <2> QED
    <3>1. i < place \/ i >= place
      BY <1>0
    <3> QED
      BY <2>1, <2>2, <3>1
<1>6. ASSUME NEW x \in Past(s, k)
      PROVE  x \in Past(new, k)
  <2>1. PICK i \in 1..n : i > k /\ x = s[i]
    BY <1>6 DEF Past, n
  <2>2. PICK j \in 1..n + 1 : j > k /\ new[j] = s[i]
    BY <1>4, <2>1
  <2> QED
    BY <1>3, <2>1, <2>2 DEF Past
<1> QED
  BY <1>3, <1>5, <1>6

(* A page takes the rows at its place: what lies past the one before it and *)
(* is not in it lies past it.                                               *)
LEMMA PageTakes ==
    ASSUME NEW s \in Seq(Nat), NEW start \in Nat, NEW size \in Nat
    PROVE  LET last == IF start + size < Len(s) THEN start + size ELSE Len(s)
               answer == SubSeq(s, start + 1, last)
           IN  /\ answer \in Seq(Nat)
               /\ Past(s, start) \ Bets!ToSet(answer) \subseteq Past(s, start + size)
<1> DEFINE n == Len(s)
           last == IF start + size < n THEN start + size ELSE n
           answer == SubSeq(s, start + 1, last)
<1>1. n \in Nat /\ last \in Nat /\ last <= n /\ \A i \in 1..n : i > last => i > start + size
  OBVIOUS
<1> HIDE DEF last
<1>2. answer \in Seq(Nat)
  BY <1>1
<1>3. ASSUME NEW i \in 1..n, i > start, i <= last
      PROVE  s[i] \in Bets!ToSet(answer)
  <2>1. i - start \in 1..(last - start) /\ start + 1 + (i - start) - 1 = i
    BY <1>1, <1>3
  <2>2. i - start \in DOMAIN answer /\ answer[i - start] = s[i]
    BY <1>1, <2>1
  <2> QED
    BY <2>2 DEF Bets!ToSet
<1> HIDE DEF answer
<1>4. Past(s, start) \ Bets!ToSet(answer) \subseteq Past(s, start + size)
  BY <1>1, <1>3 DEF Past
<1> QED
  BY <1>2, <1>4 DEF answer, last

LEMMA ToSetJoined ==
    ASSUME NEW a \in Seq(Nat), NEW b \in Seq(Nat)
    PROVE  Bets!ToSet(a \o b) = Bets!ToSet(a) \cup Bets!ToSet(b)
<1>1. /\ a \o b \in Seq(Nat) /\ Len(a \o b) = Len(a) + Len(b)
      /\ \A i \in 1..Len(a) : (a \o b)[i] = a[i]
      /\ \A i \in 1..Len(b) : (a \o b)[Len(a) + i] = b[i]
  BY Joined
<1> DEFINE c == a \o b
           m == Len(a)
           n == Len(b)
<1>2. m \in Nat /\ n \in Nat
  OBVIOUS
<1>3. DOMAIN a = 1..m /\ DOMAIN b = 1..n /\ DOMAIN c = 1..m + n
  BY <1>1
<1>4. /\ \A i \in 1..m : c[i] = a[i]
      /\ \A i \in 1..n : c[m + i] = b[i]
  BY <1>1
<1> HIDE DEF c, m, n
<1>5. \A x \in Bets!ToSet(a) : x \in Bets!ToSet(c)
  <2> SUFFICES ASSUME NEW i \in 1..m
               PROVE  a[i] \in Bets!ToSet(c)
    BY <1>3 DEF Bets!ToSet
  <2>1. i \in 1..m + n
    BY <1>2
  <2> QED
    BY <1>3, <1>4, <2>1 DEF Bets!ToSet
<1>6. \A x \in Bets!ToSet(b) : x \in Bets!ToSet(c)
  <2> SUFFICES ASSUME NEW i \in 1..n
               PROVE  b[i] \in Bets!ToSet(c)
    BY <1>3 DEF Bets!ToSet
  <2>1. m + i \in 1..m + n
    BY <1>2
  <2> QED
    BY <1>3, <1>4, <2>1 DEF Bets!ToSet
<1>7. \A x \in Bets!ToSet(c) : x \in Bets!ToSet(a) \cup Bets!ToSet(b)
  <2> SUFFICES ASSUME NEW i \in 1..m + n
               PROVE  c[i] \in Bets!ToSet(a) \cup Bets!ToSet(b)
    BY <1>3 DEF Bets!ToSet
  <2>1. CASE i \in 1..m
    BY <1>3, <1>4, <2>1 DEF Bets!ToSet
  <2>2. CASE i \notin 1..m
    <3> DEFINE j == i - m
    <3>1. j \in 1..n /\ m + j = i
      BY <1>2, <2>2
    <3> HIDE DEF j
    <3>2. c[i] = b[j]
      BY <1>4, <3>1
    <3> QED
      BY <1>3, <3>1, <3>2 DEF Bets!ToSet
  <2> QED
    BY <2>1, <2>2
<1>8. Bets!ToSet(c) = Bets!ToSet(a) \cup Bets!ToSet(b)
  BY <1>5, <1>6, <1>7
<1> QED
  BY <1>8 DEF c

-----------------------------------------------------------------------------
(* The steps *)

LEMMA SoundNothing ==
    ASSUME NEW page \in Nat \ {0}
    PROVE  SoundList([Bets!NoList EXCEPT !.page = page])
<1>1. <<>> \in Seq(Nat) /\ {} \in SUBSET Nat
  OBVIOUS
<1> QED
  BY <1>1 DEF SoundList, BetListType, Bets!NoList

(* What is sound stays so when rows come in.                                *)
LEMMA GrowsSound ==
    ASSUME BetPagesInv, BetLimit \in Nat,
           \A w \in Wallets : \A k \in Nat : Past(onRecord[w], k) \subseteq Past(onRecord'[w], k)
    PROVE  /\ \A l : SoundList(l) => SoundList(l)'
           /\ \A q : SoundRequest(q) => SoundRequest(q)'
<1>1. \A a, b \in Nat : a * b \in Nat
  OBVIOUS
<1>2. ASSUME NEW base, NEW had, NEW page \in Nat, NEW w \in Wallets,
             Gapless(base, had, page, w)
      PROVE  Gapless(base, had, page, w)'
  <2>1. page * BetLimit \in Nat
    BY <1>1
  <2>2. Past(onRecord[w], page * BetLimit) \subseteq Past(onRecord'[w], page * BetLimit)
    BY <2>1
  <2> QED
    BY <1>2, <2>2 DEF Gapless
<1>3. ASSUME NEW l, SoundList(l)
      PROVE  SoundList(l)'
  <2>1. l \in BetListType /\ l.page \in Nat /\ (l.of # "none" => l.of \in Wallets)
    BY <1>3 DEF SoundList, BetListType
  <2> QED
    BY <1>2, <1>3, <2>1 DEF SoundList
<1>4. ASSUME NEW q, SoundRequest(q)
      PROVE  SoundRequest(q)'
  <2>1. /\ q.of \in Wallets /\ q.page \in Nat /\ 1 \in Nat
        /\ SoundList(q.from)'
    BY <1>3, <1>4 DEF SoundRequest, BetRequestType
  <2>2. Gapless(q.base, q.answer, 1, q.of) => Gapless(q.base, q.answer, 1, q.of)'
    BY <1>2, <2>1
  <2>3. Gapless(q.from.base, q.from.rows \o q.answer, q.page, q.of)
           => Gapless(q.from.base, q.from.rows \o q.answer, q.page, q.of)'
    BY <1>2, <2>1
  <2> QED
    BY <1>4, <2>1, <2>2, <2>3 DEF SoundRequest
<1> QED
  BY <1>3, <1>4

(* A call asks for a page, or ends.                                         *)
LEMMA AskedSound ==
    ASSUME NEW page \in Nat \ {0}, NEW w \in Wallets, NEW from,
           SoundList(from), page > 1 => page = from.page + 1
    PROVE  SoundRequest(Bets!Asked(page, w, from))
<1>1. /\ Bets!Asked(page, w, from).page = page /\ Bets!Asked(page, w, from).from = from
      /\ Bets!Asked(page, w, from).stage = "asked"
  BY DEF Bets!Asked, Bets!NoRequest
<1>2. <<>> \in Seq(Nat) /\ {} \in SUBSET Nat /\ from \in BetListType
  BY DEF SoundList
<1>3. Bets!Asked(page, w, from) \in BetRequestType
  BY <1>2 DEF BetRequestType, Bets!Asked, Bets!NoRequest
<1> QED
  BY <1>1, <1>3 DEF SoundRequest

LEMMA AskSound ==
    ASSUME BetPagesInv, NEW page \in Nat \ {0}, NEW w \in Wallets, NEW from,
           SoundList(from), page > 1 => page = from.page + 1,
           Bets!Ask(page, w, from), UNCHANGED onRecord,
           bettor' \in Wallets \cup {"none"}, SoundList(betList)'
    PROVE  BetPagesInv'
<1>1. PICK r \in 1..MaxLoads :
          pageRequests' = [pageRequests EXCEPT ![r] = Bets!Asked(page, w, from)]
  BY DEF Bets!Ask, Bets!Slots
<1>2. SoundRequest(Bets!Asked(page, w, from))
  BY AskedSound
<1> QED
  BY <1>1, <1>2 DEF BetPagesInv, SoundRequest, SoundList, Gapless

LEMMA EndSound ==
    ASSUME BetPagesInv, NEW r \in 1..MaxLoads, Bets!End(r),
           UNCHANGED <<onRecord, bettor>>, SoundList(betList)'
    PROVE  BetPagesInv'
BY DEF Bets!End, BetPagesInv, SoundRequest, SoundList, Gapless

LEMMA InsertSound ==
    ASSUME BetPagesInv, BetLimit \in Nat, NEW w \in Wallets,
           NEW place \in 1..Len(onRecord[w]) + 1, Bets!Insert(w, place)
    PROVE  BetPagesInv'
<1>1. /\ UNCHANGED <<bettor, betList, pageRequests>>
      /\ onRecord' = [onRecord EXCEPT ![w] = Bets!InsertAt(@, place, Len(@) + 1)]
  BY DEF Bets!Insert
<1>2. /\ onRecord \in [Wallets -> Seq(Nat)]
      /\ onRecord[w] \in Seq(Nat) /\ Len(onRecord[w]) + 1 \in Nat
  BY DEF BetPagesInv
<1> DEFINE more == Bets!InsertAt(onRecord[w], place, Len(onRecord[w]) + 1)
<1>3. /\ more \in Seq(Nat)
      /\ \A k \in Nat : Past(onRecord[w], k) \subseteq Past(more, k)
  BY <1>2, InsertPushes
<1>4. onRecord' = [onRecord EXCEPT ![w] = more]
  BY <1>1
<1> HIDE DEF more
<1>5. onRecord' \in [Wallets -> Seq(Nat)]
  BY <1>2, <1>3, <1>4
<1>6. ASSUME NEW v \in Wallets, NEW k \in Nat
      PROVE  Past(onRecord[v], k) \subseteq Past(onRecord'[v], k)
  <2>1. CASE v = w
    BY <1>2, <1>3, <1>4, <2>1
  <2>2. CASE v # w
    <3>1. onRecord'[v] = onRecord[v]
      BY <1>2, <1>4, <2>2
    <3> QED
      BY <3>1
  <2> QED
    BY <2>1, <2>2
<1>7. /\ \A l : SoundList(l) => SoundList(l)'
      /\ \A q : SoundRequest(q) => SoundRequest(q)'
  BY <1>6, GrowsSound
<1>8. SoundList(betList)'
  <2>1. SoundList(betList)
    BY DEF BetPagesInv
  <2> QED
    BY <1>1, <1>7, <2>1 DEF SoundList, Gapless
<1>9. ASSUME NEW r \in 1..MaxLoads, SoundRequest(pageRequests[r])
      PROVE  SoundRequest(pageRequests[r])'
  <2>1. SoundRequest(pageRequests[r])'
          <=> \A q : q = pageRequests[r] => SoundRequest(q)'
    BY <1>1 DEF SoundRequest, SoundList, Gapless
  <2> QED
    BY <1>7, <1>9, <2>1
<1> QED
  BY <1>1, <1>5, <1>8, <1>9 DEF BetPagesInv, Bets!NoRequest

(* An answer is the page that was asked for, of the rows as they are.       *)
LEMMA FetchSound ==
    ASSUME BetPagesInv, BetLimit \in Nat, NEW r \in 1..MaxLoads,
           Bets!FetchBetsByAddress(r)
    PROVE  BetPagesInv'
<1> DEFINE q == pageRequests[r]
           s == onRecord[q.of]
           start == (q.page - 1) * BetLimit
           last == IF start + BetLimit < Len(s) THEN start + BetLimit ELSE Len(s)
           found == SubSeq(s, start + 1, last)
           p == [q EXCEPT !.stage = "read", !.answer = found, !.base = Bets!ToSet(s)]
<1>1. /\ UNCHANGED <<bettor, onRecord, betList>>
      /\ q.stage = "asked"
      /\ pageRequests' = [pageRequests EXCEPT ![r] = p]
  BY Zenon DEF Bets!FetchBetsByAddress, Bets!Offset
<1>2. SoundRequest(q)
  BY <1>1 DEF BetPagesInv, Bets!NoRequest
<1>3. /\ q \in BetRequestType /\ q.of \in Wallets /\ s \in Seq(Nat)
      /\ q.page \in Nat \ {0} /\ SoundList(q.from)
  BY <1>2 DEF SoundRequest, BetRequestType, BetPagesInv
<1>4. start \in Nat /\ start + BetLimit = q.page * BetLimit
  <2>1. ASSUME NEW n \in Nat \ {0}
        PROVE  (n - 1) * BetLimit \in Nat /\ (n - 1) * BetLimit + BetLimit = n * BetLimit
    OBVIOUS
  <2> QED
    BY <1>3, <2>1
<1> HIDE DEF start
<1>5. /\ found \in Seq(Nat)
      /\ Past(s, start) \ Bets!ToSet(found) \subseteq Past(s, q.page * BetLimit)
  BY <1>3, <1>4, PageTakes
<1> HIDE DEF found
<1>6. Bets!ToSet(s) = Past(s, 0) /\ Bets!ToSet(s) \subseteq Nat
  <2>1. DOMAIN s = 1..Len(s) /\ {j \in 1..Len(s) : j > 0} = 1..Len(s)
    BY <1>3
  <2>2. \A i \in 1..Len(s) : s[i] \in Nat
    BY <1>3
  <2> HIDE DEF s
  <2> QED
    BY <2>1, <2>2 DEF Bets!ToSet, Past
<1>7. /\ p \in BetRequestType
      /\ p.of = q.of /\ p.page = q.page /\ p.from = q.from
      /\ p.answer = found /\ p.base = Bets!ToSet(s)
  <2>1. Bets!ToSet(s) \in SUBSET Nat
    BY <1>6
  <2> HIDE DEF q, s
  <2> QED
    BY <1>3, <1>5, <2>1 DEF BetRequestType
<1> HIDE DEF p
<1>8. ASSUME q.page = 1
      PROVE  Gapless(p.base, p.answer, 1, q.of)
  <2>1. start = 0
    BY <1>8 DEF start
  <2> QED
    BY <1>5, <1>6, <1>7, <1>8, <2>1 DEF Gapless
<1>9. ASSUME q.page > 1, q.of # "none", q.from.of = q.of, ~q.from.mixed
      PROVE  Gapless(q.from.base, q.from.rows \o found, q.page, q.of)
  <2>1. q.from.page = q.page - 1 /\ q.from.rows \in Seq(Nat)
    BY <1>2, <1>3, <1>9 DEF SoundRequest, SoundList, BetListType
  <2>2. q.from.base \ Bets!ToSet(q.from.rows) \subseteq Past(s, start)
    <3>1. q.from.of # "none" => Gapless(q.from.base, q.from.rows, q.from.page, q.from.of)
      BY <1>3, <1>9 DEF SoundList
    <3> QED
      BY <1>9, <2>1, <3>1 DEF Gapless, start
  <2>3. Bets!ToSet(q.from.rows \o found) = Bets!ToSet(q.from.rows) \cup Bets!ToSet(found)
    BY <1>5, <2>1, ToSetJoined
  <2> QED
    BY <1>5, <2>2, <2>3 DEF Gapless
<1>10. SoundRequest(p)
  BY <1>2, <1>3, <1>7, <1>8, <1>9 DEF SoundRequest
<1> QED
  BY <1>1, <1>10 DEF BetPagesInv, SoundRequest, SoundList, Gapless

(* An answer that comes makes a sound list, and so does a failed call.      *)
LEMMA AnswerSound ==
    ASSUME BetPagesInv, NEW r \in 1..MaxLoads,
           Bets!FirstPage(r) \/ Bets!NextPage(r) \/ Bets!RequestFails(r)
    PROVE  BetPagesInv'
<1> DEFINE q == pageRequests[r]
<1>1. UNCHANGED <<bettor, onRecord>> /\ Bets!End(r) /\ q # Bets!NoRequest
  BY DEF Bets!FirstPage, Bets!NextPage, Bets!RequestFails, Bets!NoRequest
<1>2. SoundRequest(q)
  BY <1>1 DEF BetPagesInv
<1>3. q \in BetRequestType /\ SoundList(q.from) /\ q.from \in BetListType
  BY <1>2 DEF SoundRequest, SoundList
<1>4. SoundList(betList')
  <2>1. CASE Bets!FirstPage(r)
    <3>1. /\ q.stage = "read" /\ q.page = 1
          /\ betList' = [rows |-> q.answer, page |-> 1, of |-> q.of, base |-> q.base,
                         mixed |-> FALSE, broken |-> FALSE]
      BY <2>1 DEF Bets!FirstPage
    <3>2. betList' \in BetListType
      BY <1>3, <3>1 DEF BetRequestType, BetListType
    <3>3. Gapless(q.base, q.answer, 1, q.of)
      BY <1>2, <3>1 DEF SoundRequest
    <3> QED
      BY <3>1, <3>2, <3>3 DEF SoundList
  <2>2. CASE Bets!NextPage(r)
    <3> DEFINE joined == q.from.rows \o q.answer
               other == q.from.mixed \/ q.from.of # q.of
    <3>1. /\ q.stage = "read" /\ q.page > 1
          /\ betList' = [q.from EXCEPT !.rows = joined, !.page = q.page, !.mixed = other]
      BY <2>2 DEF Bets!NextPage
    <3>2. joined \in Seq(Nat) /\ other \in BOOLEAN /\ q.page \in Nat \ {0}
      BY <1>3 DEF BetRequestType, BetListType
    <3>3. (q.of # "none" /\ ~other) => Gapless(q.from.base, joined, q.page, q.from.of)
      BY <1>2, <3>1 DEF SoundRequest
    <3>4. ~other => q.from.of = q.of
      OBVIOUS
    <3> HIDE DEF joined, other
    <3>5. /\ betList' \in BetListType
          /\ betList'.rows = joined /\ betList'.page = q.page /\ betList'.mixed = other
          /\ betList'.of = q.from.of /\ betList'.base = q.from.base
      BY <1>3, <3>1, <3>2 DEF BetListType
    <3> QED
      BY <3>3, <3>4, <3>5 DEF SoundList
  <2>3. CASE Bets!RequestFails(r)
    <3>1. CASE betList' = betList
      BY <3>1 DEF BetPagesInv
    <3>2. CASE betList' = [Bets!NoList EXCEPT !.of = q.of, !.broken = TRUE]
      <4>1. <<>> \in Seq(Nat) /\ {} \in SUBSET Nat /\ q.of \in Wallets
        BY <1>3 DEF BetRequestType
      <4>2. betList' = [rows |-> <<>>, page |-> 1, of |-> q.of, base |-> {},
                        mixed |-> FALSE, broken |-> TRUE]
        <5> HIDE DEF q
        <5> QED
          BY <3>2 DEF Bets!NoList
      <4>3. betList' \in BetListType /\ betList'.base = {}
        BY <4>1, <4>2 DEF BetListType
      <4> QED
        BY <4>3 DEF SoundList, Gapless
    <3> QED
      BY <2>3, <3>1, <3>2 DEF Bets!RequestFails
  <2> QED
    BY <2>1, <2>2, <2>3
<1>5. SoundList(betList)'
  BY <1>1, <1>4 DEF SoundList, Gapless
<1> QED
  BY <1>1, <1>5, EndSound

LEMMA LoadSound ==
    ASSUME BetPagesInv, NEW w \in Wallets \cup {"none"}, Bets!Load(w),
           bettor' \in Wallets \cup {"none"}, UNCHANGED onRecord
    PROVE  BetPagesInv'
<1>0. betList.page \in Nat \ {0}
  BY DEF BetPagesInv, SoundList, BetListType
<1>1. CASE w = "none"
  <2>1. betList' = [Bets!NoList EXCEPT !.page = betList.page] /\ UNCHANGED pageRequests
    BY <1>1 DEF Bets!Load
  <2>2. SoundList(betList')
    BY <1>0, <2>1, SoundNothing
  <2> QED
    BY <2>1, <2>2 DEF BetPagesInv, SoundRequest, SoundList, Gapless
<1>2. CASE w # "none"
  <2>1. Bets!Ask(1, w, Bets!NoList) /\ UNCHANGED betList /\ w \in Wallets
    BY <1>2 DEF Bets!Load
  <2>2. Bets!NoList = [Bets!NoList EXCEPT !.page = 1]
    BY DEF Bets!NoList
  <2>3. SoundList(Bets!NoList)
    BY <2>2, SoundNothing
  <2>4. SoundList(betList)'
    BY <2>1 DEF BetPagesInv, SoundList, Gapless
  <2> QED
    BY <2>1, <2>3, <2>4, AskSound
<1> QED
  BY <1>1, <1>2

LEMMA BetPagesInvStep ==
    ASSUME BetPagesInv, BetLimit \in Nat, [Bets!BetPageNext]_betPageVars
    PROVE  BetPagesInv'
<1>1. CASE UNCHANGED betPageVars
  BY <1>1 DEF betPageVars, BetPagesInv, SoundRequest, SoundList, Gapless
<1>2. CASE Bets!ClaimSuccess
  BY <1>2, LoadSound DEF Bets!ClaimSuccess, BetPagesInv
<1>3. CASE Bets!LoadNextPage
  <2>1. /\ Bets!Ask(betList.page + 1, bettor, betList)
        /\ UNCHANGED <<bettor, onRecord, betList>> /\ bettor \in Wallets
    BY <1>3 DEF Bets!LoadNextPage, BetPagesInv
  <2>2. SoundList(betList) /\ betList.page + 1 \in Nat \ {0}
    BY DEF BetPagesInv, SoundList, BetListType
  <2>3. SoundList(betList)'
    BY <2>1, <2>2 DEF SoundList, Gapless
  <2> QED
    BY <2>1, <2>2, <2>3, AskSound
<1>4. ASSUME NEW w \in Wallets \cup {"none"}, Bets!Switch(w)
      PROVE  BetPagesInv'
  BY <1>4, LoadSound DEF Bets!Switch
<1>5. ASSUME NEW w \in Wallets, NEW place \in 1..Len(onRecord[w]) + 1, Bets!Insert(w, place)
      PROVE  BetPagesInv'
  BY <1>5, InsertSound
<1>6. ASSUME NEW r \in 1..MaxLoads,
             \/ Bets!FetchBetsByAddress(r)
             \/ Bets!FirstPage(r) \/ Bets!NextPage(r) \/ Bets!RequestFails(r)
      PROVE  BetPagesInv'
  BY <1>6, FetchSound, AnswerSound
<1> QED
  BY <1>1, <1>2, <1>3, <1>4, <1>5, <1>6 DEF Bets!BetPageNext, Bets!Slots

(* However pages are asked for twice, overtaken, answered out of order and  *)
(* failed while bets are put on record, no bet that there was when a list   *)
(* was begun is skipped (usePortfolio, fetchBetsByAddress): of the safety   *)
(* in ListsFollowUser.                                                      *)
THEOREM NoBetEverSkipped ==
    ASSUME Wallets # {}, BetLimit \in Nat
    PROVE  PartsSpec => []Bets!NoBetSkipped
<1>1. PartsInit => BetPagesInv
  <2> SUFFICES ASSUME Bets!BetPageInit
               PROVE  BetPagesInv
    BY DEF PartsInit
  <2>1. bettor \in Wallets
    BY DEF Bets!BetPageInit
  <2>2. <<1, 2>> \in Seq(Nat) /\ <<>> \in Seq(Nat) /\ {} \in SUBSET Nat
    OBVIOUS
  <2>3. onRecord \in [Wallets -> Seq(Nat)]
    BY <2>2 DEF Bets!BetPageInit
  <2>4. SoundList(Bets!NoList) /\ Bets!NoList \in BetListType
    BY <2>2 DEF SoundList, BetListType, Bets!NoList
  <2> DEFINE opening == Bets!Asked(1, bettor, Bets!NoList)
  <2>6. SoundRequest(opening)
    BY <2>1, <2>4, AskedSound
  <2> HIDE DEF opening
  <2>7. /\ betList = Bets!NoList
        /\ pageRequests = [r \in 1..MaxLoads |-> IF r = 1 THEN opening ELSE Bets!NoRequest]
    BY DEF Bets!BetPageInit, Bets!Slots, opening
  <2> QED
    BY <2>1, <2>3, <2>4, <2>6, <2>7 DEF BetPagesInv
<1>2. BetPagesInv /\ [PartsNext]_variables => BetPagesInv'
  BY BetPagesInvStep, BetPagesAlone
<1>3. BetPagesInv => Bets!NoBetSkipped
  <2> SUFFICES ASSUME BetPagesInv, betList.of # "none", ~betList.mixed
               PROVE  betList.base \ Bets!ToSet(betList.rows)
                        \subseteq Bets!ToSet(SubSeq(onRecord[betList.of],
                                         betList.page * BetLimit + 1, Len(onRecord[betList.of])))
    BY DEF Bets!NoBetSkipped
  <2> DEFINE s == onRecord[betList.of]
             k == betList.page * BetLimit
             rest == SubSeq(s, k + 1, Len(s))
  <2>1. betList \in BetListType /\ betList.base \ Bets!ToSet(betList.rows) \subseteq Past(s, k)
    BY DEF BetPagesInv, SoundList, Gapless
  <2>2. s \in Seq(Nat) /\ betList.page \in Nat
    BY <2>1 DEF BetPagesInv, BetListType
  <2>3. k \in Nat
    <3>1. \A a, b \in Nat : a * b \in Nat
      OBVIOUS
    <3> QED
      BY <2>2, <3>1
  <2> HIDE DEF s, k
  <2>4. ASSUME NEW i \in 1..Len(s), i > k
        PROVE  s[i] \in Bets!ToSet(rest)
    <3>1. i - k \in 1..(Len(s) - k) /\ k + 1 + (i - k) - 1 = i
      BY <2>2, <2>3, <2>4
    <3>2. i - k \in DOMAIN rest /\ rest[i - k] = s[i]
      BY <2>2, <2>3, <3>1
    <3> QED
      BY <3>2 DEF Bets!ToSet
  <2>5. Past(s, k) \subseteq Bets!ToSet(rest)
    BY <2>4 DEF Past
  <2> QED
    BY <2>1, <2>5 DEF s, k
<1> QED
  BY <1>1, <1>2, <1>3, PTL DEF PartsSpec
==============================================================================
