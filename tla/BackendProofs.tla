---------------------------- MODULE BackendProofs ----------------------------
(***************************************************************************)
(* What the parts of the backend and the invoice indexer that MCParts runs *)
(* keep, for any number of processes, requests and faults.  Each part has  *)
(* an inductive invariant of its own; a step of MCParts is a step of one   *)
(* part and leaves the others as they are.                                 *)
(***************************************************************************)
EXTENDS MCParts, Sequences, SumTheorems

(* An instance has a Cardinality of its own, which is the same.             *)
LEMMA SameCardinality ==
    \A S : /\ Calls!Cardinality(S) = Cardinality(S)
           /\ Alerts!Cardinality(S) = Cardinality(S)
<1>1. \A S : Calls!Cardinality(S) = Cardinality(S)
  BY Zenon DEF Calls!Cardinality, Cardinality
<1>2. \A S : Alerts!Cardinality(S) = Cardinality(S)
  BY Zenon DEF Alerts!Cardinality, Cardinality
<1> QED
  BY <1>1, <1>2

(* To each part, a step of MCParts is one of its own or no step at all.     *)
LEMMA OneAtATime ==
    ASSUME [PartsNext]_variables
    PROVE  /\ [Calls!InvokeNext]_invokeVars
           /\ [Alerts!AlertNext]_alertVars
           /\ [Locks!LockNext]_lockVars
           /\ [Oracles!WhitelistNext]_whitelistVars
           /\ [Poller!PollerNext]_pollerVars
           /\ [Users!AccountNext]_accountVars
           /\ [Reads!ReadsNext]_readVars
           /\ [Feed!FeedNext]_feedVars
<1> USE DEF PartsNext, Others, variables
<1>1. [Calls!InvokeNext]_invokeVars
  OBVIOUS
<1>2. [Alerts!AlertNext]_alertVars
  OBVIOUS
<1>3. [Locks!LockNext]_lockVars
  OBVIOUS
<1>4. [Oracles!WhitelistNext]_whitelistVars
  OBVIOUS
<1>5. [Poller!PollerNext]_pollerVars
  OBVIOUS
<1>6. [Users!AccountNext]_accountVars
  OBVIOUS
<1>7. [Reads!ReadsNext]_readVars
  OBVIOUS
<1>8. [Feed!FeedNext]_feedVars
  OBVIOUS
<1> QED
  BY <1>1, <1>2, <1>3, <1>4, <1>5, <1>6, <1>7, <1>8

-----------------------------------------------------------------------------
(* invokeContract *)

States == {"pending", "success", "failed", "expired"}
Transaction == [seq : Nat, state : States]
Ends == {"hash", "error"}

InvokeTypeOK ==
    /\ ledgerSeq \in Nat
    /\ txs \in [Callers -> Seq(Transaction)]
    /\ step \in [Callers -> {"start", "build", "send", "poll"} \cup Ends]
    /\ sourceAccount \in [Callers -> Nat]
    /\ attempts \in [Callers -> Nat]

(* An attempt sends one transaction at most; what the last one has sent is  *)
(* counted while it is polled for and after it has succeeded.               *)
AttemptsCounted ==
    \A c \in Callers :
        /\ Len(txs[c]) <= attempts[c] + IF step[c] \in {"poll", "hash"} THEN 1 ELSE 0
        /\ attempts[c] <= MaxRetries
        /\ step[c] # "error" => attempts[c] < MaxRetries

(* Only the last transaction of a call may still be included: when it has   *)
(* succeeded, none may.                                                     *)
OnlyLastPending ==
    \A c \in Callers : \A k \in 1..Len(txs[c]) :
        txs[c][k].state = "pending" => k = Len(txs[c])

HashIsLast ==
    \A c \in Callers :
        /\ step[c] \in {"poll", "hash"} => Len(txs[c]) > 0
        /\ step[c] = "hash" => Calls!Last(c).state = "success"

InvokeInv == InvokeTypeOK /\ AttemptsCounted /\ OnlyLastPending /\ HashIsLast

Applied(s) == {k \in DOMAIN s : s[k].state = "success"}

LEMMA Interval ==
    ASSUME NEW n \in Nat
    PROVE  IsFiniteSet(1..n) /\ Cardinality(1..n) = n
<1>1. 1 \in Int /\ n \in Int
  OBVIOUS
<1> QED
  BY <1>1, FS_Interval

(* What a call has had applied is a number, no more than it has sent.       *)
LEMMA AppliedFinite ==
    ASSUME NEW s \in Seq(Transaction)
    PROVE  /\ IsFiniteSet(Applied(s))
           /\ Cardinality(Applied(s)) \in Nat /\ Cardinality(Applied(s)) <= Len(s)
<1>1. Applied(s) \in SUBSET (1..Len(s)) /\ Len(s) \in Nat
  BY DEF Applied
<1>2. IsFiniteSet(1..Len(s)) /\ Cardinality(1..Len(s)) = Len(s)
  BY <1>1, Interval
<1>3. IsFiniteSet(Applied(s)) /\ Cardinality(Applied(s)) <= Cardinality(1..Len(s))
  BY <1>1, <1>2, FS_Subset
<1> QED
  BY <1>2, <1>3, FS_CardinalityType

(* Sending a transaction applies nothing.                                   *)
LEMMA SendingAppliesNothing ==
    ASSUME NEW s \in Seq(Transaction), NEW n \in Nat
    PROVE  Applied(Append(s, [seq |-> n, state |-> "pending"])) = Applied(s)
  BY DEF Applied, Transaction, States

(* Settling the only pending transaction applies one more, or none.         *)
Settled(s, state) == [k \in DOMAIN s |->
                        IF s[k].state = "pending" THEN [s[k] EXCEPT !.state = state]
                                                  ELSE s[k]]

LEMMA SettledTyped ==
    ASSUME NEW s \in Seq(Transaction), NEW state \in States
    PROVE  /\ Settled(s, state) \in Seq(Transaction)
           /\ Len(Settled(s, state)) = Len(s)
           /\ \A k \in 1..Len(s) :
                 Settled(s, state)[k].state = IF s[k].state = "pending" THEN state
                                                                       ELSE s[k].state
<1>1. \A k \in 1..Len(s) : s[k] \in Transaction
  OBVIOUS
<1>2. \A k \in 1..Len(s) :
         /\ Settled(s, state)[k] \in Transaction
         /\ Settled(s, state)[k].state = IF s[k].state = "pending" THEN state
                                                                   ELSE s[k].state
  BY <1>1 DEF Settled, Transaction
<1>3. Settled(s, state) = [k \in 1..Len(s) |-> Settled(s, state)[k]]
  BY DEF Settled
<1> QED
  BY <1>2, <1>3

LEMMA SettlingAppliesOne ==
    ASSUME NEW s \in Seq(Transaction), NEW state \in {"success", "failed", "expired"},
           NEW p \in 1..Len(s), s[p].state = "pending",
           \A k \in 1..Len(s) : s[k].state = "pending" => k = Len(s)
    PROVE  /\ Cardinality(Applied(s)) < Len(s)
           /\ Cardinality(Applied(Settled(s, state))) =
                 Cardinality(Applied(s)) + IF state = "success" THEN 1 ELSE 0
<1>1. state \in States /\ p \notin Applied(s)
  BY DEF Applied, States
<1>2. Applied(Settled(s, state)) =
         IF state = "success" THEN Applied(s) \cup {p} ELSE Applied(s)
  BY <1>1, SettledTyped DEF Applied
<1>3. IsFiniteSet(Applied(s)) /\ Cardinality(Applied(s)) \in Nat
  BY AppliedFinite
<1>4. Cardinality(Applied(s) \cup {p}) = Cardinality(Applied(s)) + 1
  BY <1>1, <1>3, FS_AddElement
<1>5. Applied(s) \cup {p} \in SUBSET (1..Len(s)) /\ Len(s) \in Nat
  BY DEF Applied
<1>6. IsFiniteSet(1..Len(s)) /\ Cardinality(1..Len(s)) = Len(s)
  BY <1>5, Interval
<1>7. Cardinality(Applied(s) \cup {p}) <= Len(s)
  BY <1>5, <1>6, FS_Subset
<1> QED
  BY <1>2, <1>3, <1>4, <1>5, <1>7

LEMMA InvokeInvInit ==
    ASSUME MaxRetries \in Nat \ {0}
    PROVE  Calls!InvokeInit => InvokeInv
  BY DEF Calls!InvokeInit, InvokeInv, InvokeTypeOK, AttemptsCounted, OnlyLastPending, HashIsLast,
         Ends

(* An attempt that fails without having sent anything, or after it has been *)
(* polled for, is followed by the next or by the end.                       *)
LEMMA NextAttempt ==
    ASSUME MaxRetries \in Nat \ {0}, InvokeInv,
           NEW c \in Callers, step[c] \in {"build", "send", "poll"}, Calls!Caught(c),
           UNCHANGED <<ledgerSeq, txs>>, sourceAccount' \in [Callers -> Nat]
    PROVE  InvokeInv'
<1> USE DEF InvokeInv, InvokeTypeOK, AttemptsCounted, OnlyLastPending, HashIsLast, Ends,
            Calls!Last
<1>1. /\ attempts' = [attempts EXCEPT ![c] = attempts[c] + 1]
      /\ step' = [step EXCEPT ![c] = IF attempts[c] + 1 >= MaxRetries
                                     THEN "error" ELSE "build"]
  BY DEF Calls!Caught, Calls!Goto
<1>2. /\ attempts'[c] = attempts[c] + 1
      /\ step'[c] = IF attempts[c] + 1 >= MaxRetries THEN "error" ELSE "build"
      /\ \A d \in Callers \ {c} : attempts'[d] = attempts[d] /\ step'[d] = step[d]
  BY <1>1
<1>3. InvokeTypeOK' /\ \A d \in Callers : Len(txs[d]) \in Nat
  BY <1>1
<1>4. AttemptsCounted'
  <2>1. attempts[c] \in Nat /\ attempts[c] < MaxRetries /\ Len(txs[c]) <= attempts[c] + 1
    BY <1>3
  <2> SUFFICES ASSUME NEW d \in Callers
               PROVE  /\ Len(txs'[d]) <= attempts'[d]
                            + IF step'[d] \in {"poll", "hash"} THEN 1 ELSE 0
                      /\ attempts'[d] <= MaxRetries
                      /\ step'[d] # "error" => attempts'[d] < MaxRetries
    OBVIOUS
  <2>2. CASE d = c
    BY <1>2, <1>3, <2>1, <2>2
  <2>3. CASE d # c
    BY <1>2, <1>3, <2>3
  <2> QED
    BY <2>2, <2>3
<1>5. OnlyLastPending' /\ HashIsLast'
  BY <1>2
<1> QED
  BY <1>3, <1>4, <1>5

LEMMA InvokeInvStep ==
    ASSUME MaxRetries \in Nat \ {0}
    PROVE  InvokeInv /\ [Calls!InvokeNext]_invokeVars => InvokeInv'
<1> SUFFICES ASSUME InvokeInv, [Calls!InvokeNext]_invokeVars
             PROVE  InvokeInv'
  OBVIOUS
<1> USE DEF InvokeInv, InvokeTypeOK, AttemptsCounted, OnlyLastPending, HashIsLast, Ends,
            Calls!Last
<1>1. CASE UNCHANGED invokeVars
  BY <1>1 DEF invokeVars
<1>2. ASSUME NEW c \in Callers, Calls!LoadAccount(c)
      PROVE  InvokeInv'
  BY <1>2 DEF Calls!LoadAccount, Calls!Goto, Calls!Lose
<1>3. ASSUME NEW c \in Callers, Calls!BuildAndSimulate(c)
      PROVE  InvokeInv'
  <2>1. step[c] = "build" /\ txs' = txs /\ ledgerSeq' = ledgerSeq
        /\ sourceAccount' \in [Callers -> Nat]
    BY <1>3 DEF Calls!BuildAndSimulate
  <2>2. CASE Calls!Goto(c, "send") /\ UNCHANGED attempts
    BY <2>1, <2>2 DEF Calls!Goto
  <2>3. CASE Calls!Caught(c)
    BY <2>1, <2>3, NextAttempt
  <2> QED
    BY <1>3, <2>2, <2>3 DEF Calls!BuildAndSimulate
<1>4. ASSUME NEW c \in Callers, Calls!SendTransaction(c)
      PROVE  InvokeInv'
  <2>1. step[c] = "send" /\ txs[c] \in Seq(Transaction)
    BY <1>4 DEF Calls!SendTransaction
  <2>2. CASE Calls!Accepts(sourceAccount[c]) /\ Calls!Sent(c)
    <3> DEFINE new == [seq |-> sourceAccount[c], state |-> "pending"]
    <3>1. \A k \in 1..Len(txs[c]) : txs[c][k].state # "pending"
      BY <2>1, <2>2 DEF Calls!Accepts, Calls!Pending
    <3>2. new \in Transaction
      BY DEF Transaction, States
    <3>3. txs' = [txs EXCEPT ![c] = Append(txs[c], new)]
      BY <2>2 DEF Calls!Sent
    <3> HIDE DEF new
    <3>4. /\ Append(txs[c], new) \in Seq(Transaction)
          /\ Len(Append(txs[c], new)) = Len(txs[c]) + 1
          /\ \A k \in 1..Len(txs[c]) : Append(txs[c], new)[k] = txs[c][k]
      BY <2>1, <3>2
    <3>5. txs'[c] = Append(txs[c], new) /\ \A d \in Callers \ {c} : txs'[d] = txs[d]
      BY <3>3
    <3>6. txs' \in [Callers -> Seq(Transaction)]
      BY <3>3, <3>4
    <3>7. OnlyLastPending'
      <4> SUFFICES ASSUME NEW d \in Callers, NEW k \in 1..Len(txs'[d]),
                          txs'[d][k].state = "pending"
                   PROVE  k = Len(txs'[d])
        OBVIOUS
      <4>1. CASE d = c
        <5>1. /\ Len(txs[c]) \in Nat /\ Len(txs'[d]) = Len(txs[c]) + 1
              /\ txs'[d] = Append(txs[c], new)
          BY <2>1, <3>4, <3>5, <4>1
        <5>2. k \notin 1..Len(txs[c])
          <6>1. k \in 1..Len(txs[c]) => txs'[d][k] = txs[c][k]
            BY <3>4, <5>1
          <6> QED
            BY <3>1, <6>1
        <5> QED
          BY <5>1, <5>2
      <4>2. CASE d # c
        BY <3>5, <4>2
      <4> QED
        BY <4>1, <4>2
    <3>8. CASE Calls!Goto(c, "poll") /\ UNCHANGED <<attempts, losses>>
      BY <1>4, <2>1, <3>4, <3>5, <3>6, <3>7, <3>8 DEF Calls!SendTransaction, Calls!Goto
    <3>9. CASE Calls!Caught(c)
      BY <1>4, <2>1, <3>4, <3>5, <3>6, <3>7, <3>9
          DEF Calls!SendTransaction, Calls!Goto, Calls!Caught
    <3> QED
      BY <1>4, <2>2, <3>8, <3>9 DEF Calls!SendTransaction, Calls!Sent
  <2>3. CASE Calls!Caught(c) /\ UNCHANGED txs
    BY <1>4, <2>1, <2>3 DEF Calls!SendTransaction, Calls!Goto, Calls!Caught
  <2> QED
    BY <1>4, <2>2, <2>3 DEF Calls!SendTransaction
<1>5. ASSUME NEW c \in Callers, Calls!PollTransaction(c)
      PROVE  InvokeInv'
  <2>1. /\ step[c] = "poll" /\ txs' = txs /\ ledgerSeq' = ledgerSeq
        /\ sourceAccount' = sourceAccount
    BY <1>5 DEF Calls!PollTransaction
  <2>2. CASE Calls!Succeeded(c) /\ Calls!Goto(c, "hash") /\ UNCHANGED attempts
    BY <2>1, <2>2 DEF Calls!Succeeded, Calls!Goto
  <2>3. CASE Calls!Caught(c)
    BY <2>1, <2>3, NextAttempt
  <2> QED
    BY <1>5, <2>2, <2>3 DEF Calls!PollTransaction
<1>6. ASSUME NEW c \in Callers, NEW s \in {"success", "failed", "expired"}, Calls!Settle(c, s)
      PROVE  InvokeInv'
  <2>1. s \in States /\ txs[c] \in Seq(Transaction)
    BY DEF States
  <2>2. txs' = [txs EXCEPT ![c] = Settled(txs[c], s)]
    BY <1>6 DEF Calls!Settle, Settled
  <2>3. txs'[c] = Settled(txs[c], s) /\ \A d \in Callers \ {c} : txs'[d] = txs[d]
    BY <2>2
  <2>4. /\ Settled(txs[c], s) \in Seq(Transaction)
        /\ Len(Settled(txs[c], s)) = Len(txs[c])
        /\ \A k \in 1..Len(txs[c]) :
              Settled(txs[c], s)[k].state = IF txs[c][k].state = "pending" THEN s
                                            ELSE txs[c][k].state
    BY <2>1, SettledTyped
  <2>5. txs' \in [Callers -> Seq(Transaction)] /\ \A d \in Callers : Len(txs'[d]) = Len(txs[d])
    BY <2>2, <2>3, <2>4
  <2>6. InvokeTypeOK' /\ AttemptsCounted'
    BY <1>6, <2>5 DEF Calls!Settle
  <2>7. OnlyLastPending'
    BY <2>1, <2>3, <2>4
  <2>8. HashIsLast'
    BY <1>6, <2>1, <2>3, <2>4 DEF Calls!Settle
  <2> QED
    BY <2>6, <2>7, <2>8
<1> QED
  BY <1>1, <1>2, <1>3, <1>4, <1>5, <1>6 DEF Calls!InvokeNext
AppliedNow == [c \in Callers |-> Cardinality(Applied(txs[c]))]
AppliedSeen ==
    [c \in Callers |->
       Calls!Cardinality({k \in DOMAIN txs[c] : txs[c][k].state = "success"})]
AnswerNow == [c \in Callers |-> IF step[c] \in {"hash", "error"} THEN step[c] ELSE "none"]

(* Init maps to Init.                                                       *)
LEMMA AbstractInit == Calls!InvokeInit => Calls!Abstract!InvocationInit
<1> SUFFICES ASSUME Calls!InvokeInit
             PROVE  Calls!Abstract!InvocationInit
  OBVIOUS
<1>1. \A c \in Callers : {k \in DOMAIN txs[c] : txs[c][k].state = "success"} = {}
  <2>1. \A c \in Callers : txs[c] = <<>>
    BY DEF Calls!InvokeInit
  <2>2. DOMAIN <<>> = {}
    OBVIOUS
  <2> QED
    BY <2>1, <2>2
<1>2. \A c \in Callers :
         Calls!Cardinality({k \in DOMAIN txs[c] : txs[c][k].state = "success"}) = 0
  BY <1>1, FS_EmptySet, SameCardinality
<1>3. \A c \in Callers : (IF step[c] \in {"hash", "error"} THEN step[c] ELSE "none") = "none"
  BY DEF Calls!InvokeInit
<1> QED
  BY <1>2, <1>3 DEF Calls!Abstract!InvocationInit

(* A step that settles nothing is told to the caller, or is not seen.       *)
LEMMA AnswerStep ==
    ASSUME NEW c \in Callers, step \in [Callers -> {"start", "build", "send", "poll"} \cup Ends],
           step[c] \notin Ends, AppliedNow' = AppliedNow,
           NEW label \in {"build", "send", "poll", "hash", "error"}, Calls!Goto(c, label),
           label = "hash" => AppliedNow[c] > 0
    PROVE  \/ AnswerNow' = AnswerNow
           \/ /\ AnswerNow[c] = "none" /\ AnswerNow' = [AnswerNow EXCEPT ![c] = label]
              /\ label \in Ends
<1>1. step' = [step EXCEPT ![c] = label]
  BY DEF Calls!Goto
<1>2. step'[c] = label /\ \A d \in Callers \ {c} : step'[d] = step[d]
  BY <1>1
<1>3. AnswerNow[c] = "none"
  BY DEF AnswerNow, Ends
<1>4. CASE label \in Ends
  <2>1. AnswerNow' = [AnswerNow EXCEPT ![c] = label]
    BY <1>2, <1>4 DEF AnswerNow, Ends
  <2> QED
    BY <1>3, <1>4, <2>1
<1>5. CASE label \notin Ends
  BY <1>2, <1>5 DEF AnswerNow, Ends
<1> QED
  BY <1>4, <1>5

(* Every step is one of Invocation's, or is not seen.                       *)
LEMMA AbstractStep ==
    ASSUME MaxRetries \in Nat \ {0}, InvokeInv, [Calls!InvokeNext]_invokeVars
    PROVE  \/ UNCHANGED <<AppliedNow, AnswerNow>>
           \/ \E c \in Callers :
                 \/ /\ AnswerNow[c] # "hash" /\ AppliedNow[c] < MaxRetries
                    /\ AppliedNow' = [AppliedNow EXCEPT ![c] = @ + 1]
                    /\ UNCHANGED AnswerNow
                 \/ /\ AnswerNow[c] = "none" /\ AppliedNow[c] > 0
                    /\ AnswerNow' = [AnswerNow EXCEPT ![c] = "hash"]
                    /\ UNCHANGED AppliedNow
                 \/ /\ AnswerNow[c] = "none"
                    /\ AnswerNow' = [AnswerNow EXCEPT ![c] = "error"]
                    /\ UNCHANGED AppliedNow
<1>1. /\ txs \in [Callers -> Seq(Transaction)] /\ attempts \in [Callers -> Nat]
      /\ step \in [Callers -> {"start", "build", "send", "poll"} \cup Ends]
  BY DEF InvokeInv, InvokeTypeOK
<1>2. ASSUME txs' = txs
      PROVE  AppliedNow' = AppliedNow
  BY <1>2 DEF AppliedNow
<1>3. CASE UNCHANGED invokeVars
  BY <1>2, <1>3 DEF invokeVars, AnswerNow
<1>4. ASSUME NEW c \in Callers, Calls!LoadAccount(c)
      PROVE  AppliedNow' = AppliedNow /\ step[c] \notin Ends
             /\ \E l \in {"build", "error"} : Calls!Goto(c, l)
  BY <1>2, <1>4 DEF Calls!LoadAccount, Ends
<1>5. ASSUME NEW c \in Callers, Calls!BuildAndSimulate(c)
      PROVE  AppliedNow' = AppliedNow /\ step[c] \notin Ends
             /\ \E l \in {"send", "build", "error"} : Calls!Goto(c, l)
  BY <1>2, <1>5 DEF Calls!BuildAndSimulate, Calls!Caught, Ends
<1>6. ASSUME NEW c \in Callers, Calls!SendTransaction(c)
      PROVE  AppliedNow' = AppliedNow /\ step[c] \notin Ends
             /\ \E l \in {"poll", "build", "error"} : Calls!Goto(c, l)
  <2>1. CASE Calls!Sent(c)
    <3>1. sourceAccount[c] \in Nat /\ txs[c] \in Seq(Transaction)
      BY <1>1 DEF InvokeInv, InvokeTypeOK
    <3>2. Applied(Append(txs[c], [seq |-> sourceAccount[c], state |-> "pending"]))
             = Applied(txs[c])
      BY <3>1, SendingAppliesNothing
    <3>3. \A d \in Callers : Applied(txs'[d]) = Applied(txs[d])
      BY <1>1, <2>1, <3>2 DEF Calls!Sent
    <3> QED
      BY <1>6, <3>3 DEF Calls!SendTransaction, Calls!Caught, Ends, AppliedNow
  <2>2. CASE txs' = txs
    BY <1>2, <1>6, <2>2 DEF Calls!SendTransaction, Calls!Caught, Ends
  <2> QED
    BY <1>6, <2>1, <2>2 DEF Calls!SendTransaction
<1>7. ASSUME NEW c \in Callers, Calls!PollTransaction(c)
      PROVE  /\ AppliedNow' = AppliedNow /\ step[c] \notin Ends
             /\ \E l \in {"hash", "build", "error"} :
                   Calls!Goto(c, l) /\ (l = "hash" => AppliedNow[c] > 0)
  <2>1. ASSUME Calls!Succeeded(c)
        PROVE  AppliedNow[c] > 0
    <3>1. Len(txs[c]) \in Applied(txs[c])
      BY <1>1, <1>7, <2>1 DEF Calls!PollTransaction, Calls!Succeeded, Calls!Last,
         Applied, InvokeInv, HashIsLast
    <3>2. IsFiniteSet(Applied(txs[c])) /\ Cardinality(Applied(txs[c])) \in Nat
      BY <1>1, AppliedFinite
    <3>3. Cardinality(Applied(txs[c])) # 0
      BY <3>1, <3>2, FS_EmptySet
    <3> QED
      BY <3>2, <3>3 DEF AppliedNow
  <2> QED
    BY <1>2, <1>7, <2>1 DEF Calls!PollTransaction, Calls!Caught, Ends
<1>8. ASSUME NEW c \in Callers, NEW s \in {"success", "failed", "expired"}, Calls!Settle(c, s)
      PROVE  /\ AnswerNow' = AnswerNow
             /\ \/ AppliedNow' = AppliedNow
                \/ /\ AnswerNow[c] # "hash" /\ AppliedNow[c] < MaxRetries
                   /\ AppliedNow' = [AppliedNow EXCEPT ![c] = @ + 1]
  <2>1. PICK p \in 1..Len(txs[c]) : txs[c][p].state = "pending"
    <3>1. Calls!Pending(c)
      BY <1>8 DEF Calls!Settle
    <3>2. txs[c] \in Seq(Transaction)
      BY <1>1
    <3>3. DOMAIN txs[c] = 1..Len(txs[c])
      BY <3>2
    <3> QED
      BY <3>1, <3>3 DEF Calls!Pending
  <2>2. txs[c] \in Seq(Transaction)
        /\ \A k \in 1..Len(txs[c]) : txs[c][k].state = "pending" => k = Len(txs[c])
    BY <1>1 DEF InvokeInv, OnlyLastPending
  <2>3. /\ Cardinality(Applied(txs[c])) < Len(txs[c])
        /\ Cardinality(Applied(Settled(txs[c], s))) =
              Cardinality(Applied(txs[c])) + IF s = "success" THEN 1 ELSE 0
    BY <2>1, <2>2, SettlingAppliesOne
  <2>4. txs'[c] = Settled(txs[c], s) /\ \A d \in Callers \ {c} : txs'[d] = txs[d]
    BY <1>1, <1>8 DEF Calls!Settle, Settled
  <2>5. AppliedNow' = [AppliedNow EXCEPT ![c] = @ + IF s = "success" THEN 1 ELSE 0]
    BY <2>3, <2>4 DEF AppliedNow
  <2>6. AnswerNow' = AnswerNow
    BY <1>8 DEF Calls!Settle, AnswerNow
  <2>7. Cardinality(Applied(txs[c])) \in Nat
    BY <2>2, AppliedFinite
  <2>8. CASE s = "success"
    (* A hash was told of the last transaction, which is then not pending. *)
    <3>1. step[c] # "hash"
      BY <2>1, <2>2 DEF InvokeInv, HashIsLast, Calls!Last
    <3>2. attempts[c] \in Nat /\ Len(txs[c]) \in Nat
          /\ Len(txs[c]) <= attempts[c] + (IF step[c] \in {"poll", "hash"} THEN 1 ELSE 0)
          /\ attempts[c] <= MaxRetries /\ (step[c] # "error" => attempts[c] < MaxRetries)
      BY <1>1, <2>2 DEF InvokeInv, AttemptsCounted
    <3>3. Len(txs[c]) <= MaxRetries
      BY <3>2
    <3>4. AppliedNow[c] < MaxRetries
      BY <2>3, <2>7, <3>2, <3>3 DEF AppliedNow
    <3> QED
      BY <2>5, <2>6, <2>8, <3>1, <3>4 DEF AnswerNow
  <2>9. CASE s # "success"
    <3>1. \A d \in Callers : Cardinality(Applied(txs'[d])) = Cardinality(Applied(txs[d]))
      BY <2>3, <2>4, <2>7, <2>9
    <3>2. AppliedNow' = AppliedNow
      BY <3>1 DEF AppliedNow
    <3> QED
      BY <2>6, <3>2
  <2> QED
    BY <2>8, <2>9
<1>9. ASSUME NEW c \in Callers, AppliedNow' = AppliedNow, step[c] \notin Ends,
             NEW l \in {"build", "send", "poll", "hash", "error"}, Calls!Goto(c, l),
             l = "hash" => AppliedNow[c] > 0
      PROVE  \/ AnswerNow' = AnswerNow
             \/ /\ AnswerNow[c] = "none" /\ AppliedNow[c] > 0
                /\ AnswerNow' = [AnswerNow EXCEPT ![c] = "hash"]
             \/ /\ AnswerNow[c] = "none"
                /\ AnswerNow' = [AnswerNow EXCEPT ![c] = "error"]
  BY <1>1, <1>9, AnswerStep DEF Ends
<1> QED
  BY <1>3, <1>4, <1>5, <1>6, <1>7, <1>8, <1>9 DEF Calls!InvokeNext

(* invokeContract implements Invocation: a caller who was given a hash has  *)
(* had its operation applied, and none of the attempts given up before is   *)
(* applied afterwards, whatever transactions the other callers send with    *)
(* the same key.                                                            *)
THEOREM InvokeContractImplementsInvocation ==
    ASSUME MaxRetries \in Nat \ {0}
    PROVE  PartsSpec => ImplementsInvocation
<1>1. PartsInit => InvokeInv /\ Calls!Abstract!InvocationInit
  <2>1. PartsInit => Calls!InvokeInit
    BY DEF PartsInit
  <2> QED
    BY <2>1, InvokeInvInit, AbstractInit
<1>2. InvokeInv /\ [PartsNext]_variables => InvokeInv'
  BY InvokeInvStep, OneAtATime
<1>3. InvokeInv /\ [PartsNext]_variables
        => [Calls!Abstract!InvocationNext]_<<AppliedSeen, AnswerNow>>
  <2>1. AppliedSeen = AppliedNow
    BY SameCardinality DEF AppliedSeen, AppliedNow, Applied
  <2>2. AppliedSeen' = AppliedNow'
    BY SameCardinality DEF AppliedSeen, AppliedNow, Applied
  <2> SUFFICES ASSUME InvokeInv, [PartsNext]_variables
               PROVE  [Calls!Abstract!InvocationNext]_<<AppliedSeen, AnswerNow>>
    OBVIOUS
  <2>3. \/ UNCHANGED <<AppliedSeen, AnswerNow>>
        \/ \E c \in Callers :
              \/ /\ AnswerNow[c] # "hash" /\ AppliedSeen[c] < MaxRetries
                 /\ AppliedSeen' = [AppliedSeen EXCEPT ![c] = @ + 1]
                 /\ UNCHANGED AnswerNow
              \/ /\ AnswerNow[c] = "none" /\ AppliedSeen[c] > 0
                 /\ AnswerNow' = [AnswerNow EXCEPT ![c] = "hash"]
                 /\ UNCHANGED AppliedSeen
              \/ /\ AnswerNow[c] = "none"
                 /\ AnswerNow' = [AnswerNow EXCEPT ![c] = "error"]
                 /\ UNCHANGED AppliedSeen
    BY <2>1, <2>2, AbstractStep, OneAtATime
  <2> QED
    BY <2>3 DEF Calls!Abstract!InvocationNext, Calls!Abstract!Apply,
                Calls!Abstract!AnswerHash, Calls!Abstract!AnswerError, AppliedSeen, AnswerNow
<1> QED
  BY <1>1, <1>2, <1>3, PTL
     DEF PartsSpec, ImplementsInvocation, Calls!ImplementsInvocation,
         Calls!Abstract!InvocationSpec, AppliedSeen, AnswerNow

-----------------------------------------------------------------------------
(* The lock of the cron jobs *)

(* Identifiers are given out once: those in use are distinct, and a run     *)
(* within its TTL is the one the lock names.                                *)
LockTypeOK ==
    /\ runs \in Nat
    /\ lock \in 0..runs
    /\ identifier \in [Runners -> 0..runs]
    /\ phase \in [Runners -> {"idle", "clean", "audit", "release"}]

IdentifiersDiffer ==
    \A i, j \in Runners :
        /\ phase[i] # "idle" => identifier[i] # 0
        /\ identifier[i] # 0 /\ identifier[i] = identifier[j] => i = j

HoldsLock ==
    \A i \in Runners \ overdue : phase[i] # "idle" => lock = identifier[i]

LockInv == LockTypeOK /\ IdentifiersDiffer /\ HoldsLock

(* LockInv holds before the first run and every step keeps it.              *)
LEMMA LockInvInit == Locks!LockInit => LockInv
  BY DEF Locks!LockInit, LockInv, LockTypeOK, IdentifiersDiffer, HoldsLock

LEMMA LockInvStep == LockInv /\ [Locks!LockNext]_lockVars => LockInv'
<1> SUFFICES ASSUME LockInv, [Locks!LockNext]_lockVars
             PROVE  LockInv'
  OBVIOUS
<1> USE DEF LockInv, LockTypeOK, IdentifiersDiffer, HoldsLock
<1>1. CASE UNCHANGED lockVars
  BY <1>1 DEF lockVars
<1>2. CASE Locks!LockExpires
  BY <1>2 DEF Locks!LockExpires
<1>3. ASSUME NEW i \in Runners, Locks!AcquireLock(i)
      PROVE  LockInv'
  <2>1. /\ runs' = runs + 1 /\ lock' = runs + 1
        /\ identifier' = [identifier EXCEPT ![i] = runs + 1]
        /\ phase' = [phase EXCEPT ![i] = "clean"]
        /\ lock = 0 /\ overdue' = overdue
    BY <1>3 DEF Locks!AcquireLock
  <2>2. LockTypeOK'
    BY <2>1
  <2>3. \A j \in Runners : j # i => identifier'[j] = identifier[j]
                                    /\ identifier[j] # runs + 1
                                    /\ phase'[j] = phase[j]
    BY <2>1
  <2>4. identifier'[i] = runs + 1 /\ runs + 1 # 0
    BY <2>1
  <2>5. IdentifiersDiffer'
    BY <2>3, <2>4
  (* Nobody else is within its TTL: the lock was free. *)
  <2>6. HoldsLock'
    BY <2>1, <2>3, <2>4
  <2> QED
    BY <2>2, <2>5, <2>6
<1>4. ASSUME NEW i \in Runners, Locks!Clean(i) \/ Locks!FinishJob(i)
      PROVE  LockInv'
  BY <1>4 DEF Locks!Clean, Locks!FinishJob
<1>5. ASSUME NEW i \in Runners, Locks!ReleaseLock(i)
      PROVE  LockInv'
  <2>1. /\ runs' = runs /\ lock' = IF lock = identifier[i] THEN 0 ELSE lock
        /\ identifier' = [identifier EXCEPT ![i] = 0]
        /\ phase' = [phase EXCEPT ![i] = "idle"]
        /\ overdue' = overdue \ {i} /\ phase[i] # "idle"
    BY <1>5 DEF Locks!ReleaseLock, Locks!Retire, Locks!OwnsLock
  <2>2. LockTypeOK' /\ IdentifiersDiffer'
    BY <2>1
  (* Only its own lock is deleted, and no other run has that identifier. *)
  <2>3. ASSUME NEW j \in Runners \ overdue', phase'[j] # "idle"
        PROVE  lock' = identifier'[j]
    <3>1. j # i /\ phase[j] # "idle" /\ j \notin overdue /\ identifier'[j] = identifier[j]
      BY <2>1, <2>3
    <3>2. lock = identifier[j] /\ identifier[i] # identifier[j]
      BY <3>1, <2>1
    <3> QED
      BY <3>1, <3>2, <2>1
  <2> QED
    BY <2>2, <2>3
<1>6. ASSUME NEW i \in Runners, Locks!Abandon(i)
      PROVE  LockInv'
  <2>1. /\ runs' = runs /\ lock' = lock
        /\ identifier' = [identifier EXCEPT ![i] = 0]
        /\ phase' = [phase EXCEPT ![i] = "idle"]
        /\ overdue' = overdue \ {i}
    BY <1>6 DEF Locks!Abandon, Locks!Retire
  <2> QED
    BY <2>1
<1> QED
  BY <1>1, <1>2, <1>3, <1>4, <1>5, <1>6 DEF Locks!LockNext

(* Two runs within their TTL would both be the one the lock names.          *)
LEMMA LockInvApart == LockInv => Locks!AloneWithinTTL
  BY DEF LockInv, LockTypeOK, IdentifiersDiffer, HoldsLock, Locks!AloneWithinTTL

(* Runs of a cleanup job that are within the TTL of their lock never        *)
(* overlap, whatever the processes, their crashes and the failures of Redis.*)
THEOREM AlwaysAloneWithinTTL == PartsSpec => []AloneWithinTTL
<1>1. PartsInit => LockInv
  BY LockInvInit DEF PartsInit
<1>2. LockInv /\ [PartsNext]_variables => LockInv'
  BY LockInvStep, OneAtATime
<1>3. LockInv => AloneWithinTTL
  BY LockInvApart DEF AloneWithinTTL
<1> QED
  BY <1>1, <1>2, <1>3, PTL DEF PartsSpec

-----------------------------------------------------------------------------
(* The whitelist of oracles *)

Lists == {"old", "new", Oracles!Nothing}

WhitelistTypeOK ==
    /\ environment \in [Instances -> {"old", "new"}]
    /\ whitelist \in [list : Lists, ttl : Nat]
    /\ checking \in [Instances -> [list : Lists, next : {"idle", "read", "write"}]]
    /\ accepted \in Nat /\ oldGone \in Nat

(* The clock stands while an instance still has the old list; only such an  *)
(* instance is about to store it.                                           *)
OldHolders ==
    \A i \in Instances :
        /\ environment[i] = "old" => oldGone = 0
        /\ checking[i].list = "old" => environment[i] = "old"

(* A stored list lives; the old one no longer than Redis keeps a list from  *)
(* when it was last stored, by an instance that still had it.               *)
OldExpires ==
    whitelist.list = "old" => whitelist.ttl > 0 /\ oldGone + whitelist.ttl <= WhitelistTTL

WhitelistInv == WhitelistTypeOK /\ OldHolders /\ OldExpires /\ Oracles!RemovedOracleRefused

(* WhitelistInv holds at the start and every step keeps it.                 *)
LEMMA WhitelistInvInit ==
    ASSUME WhitelistTTL \in Nat \ {0}
    PROVE  Oracles!WhitelistInit => WhitelistInv
  BY DEF Oracles!WhitelistInit, Oracles!Idle, Oracles!Nothing, Lists, WhitelistInv,
         WhitelistTypeOK, OldHolders, OldExpires, Oracles!RemovedOracleRefused

LEMMA WhitelistInvStep ==
    ASSUME WhitelistTTL \in Nat \ {0}
    PROVE  WhitelistInv /\ [Oracles!WhitelistNext]_whitelistVars => WhitelistInv'
<1> SUFFICES ASSUME WhitelistInv, [Oracles!WhitelistNext]_whitelistVars
             PROVE  WhitelistInv'
  OBVIOUS
<1> USE DEF WhitelistInv, WhitelistTypeOK, OldHolders, OldExpires, Oracles!RemovedOracleRefused,
            Lists, Oracles!Nothing
<1>1. CASE UNCHANGED whitelistVars
  BY <1>1 DEF whitelistVars
<1>2. CASE Oracles!Flush
  BY <1>2 DEF Oracles!Flush
<1>3. CASE Oracles!Tick
  BY <1>3 DEF Oracles!Tick, Oracles!Never
<1>4. ASSUME NEW i \in Instances, Oracles!Verify(i)
      PROVE  WhitelistInv'
  BY <1>4 DEF Oracles!Verify
<1>5. ASSUME NEW i \in Instances, Oracles!ReadWhitelist(i)
      PROVE  WhitelistInv'
  BY <1>5 DEF Oracles!ReadWhitelist, Oracles!Answer, Oracles!Idle
<1>6. ASSUME NEW i \in Instances, Oracles!FallBack(i)
      PROVE  WhitelistInv'
  BY <1>6 DEF Oracles!FallBack
<1>7. ASSUME NEW i \in Instances, Oracles!WriteWhitelist(i)
      PROVE  WhitelistInv'
  BY <1>7 DEF Oracles!WriteWhitelist, Oracles!Answer, Oracles!Idle, Oracles!Expiry
<1>8. ASSUME NEW i \in Instances, Oracles!Restart(i)
      PROVE  WhitelistInv'
  BY <1>8 DEF Oracles!Restart, Oracles!Idle
<1> QED
  BY <1>1, <1>2, <1>3, <1>4, <1>5, <1>6, <1>7, <1>8 DEF Oracles!WhitelistNext

(* However often an old instance fills the shared list again after a flush: *)
(* once all have the new one, the removed oracle is let through for less    *)
(* than the time that Redis keeps a list.                                   *)
THEOREM AlwaysRemovedOracleRefused ==
    ASSUME WhitelistTTL \in Nat \ {0}
    PROVE  PartsSpec => []RemovedOracleRefused
<1>1. PartsInit => WhitelistInv
  BY WhitelistInvInit DEF PartsInit
<1>2. WhitelistInv /\ [PartsNext]_variables => WhitelistInv'
  BY WhitelistInvStep, OneAtATime
<1>3. WhitelistInv => RemovedOracleRefused
  BY DEF WhitelistInv, RemovedOracleRefused
<1> QED
  BY <1>1, <1>2, <1>3, PTL DEF PartsSpec

-----------------------------------------------------------------------------
(* The alerts of a failing oracle *)

Labelled(labels, label) == {i \in Monitors : labels[i] = label}
One(label, other) == IF label = other THEN 1 ELSE 0
At(label) == Labelled(monitoring, label)

AlertTypeOK ==
    /\ monitoring \in [Monitors -> {"idle", "read", "post", "mark", "clear"}]
    /\ alertSentKey \in BOOLEAN
    /\ alerts \in Nat /\ alertFaults \in Nat

(* While no alert is noted, each that was posted is one that its process is *)
(* about to note, or one whose process failed to.                           *)
PostedIsMarking == ~alertSentKey => alerts <= Cardinality(At("mark")) + alertFaults

(* A process that has decided to post has its place in the bound already.   *)
PostingCounted == alerts + Cardinality(At("post")) <= Cardinality(Monitors) + alertFaults

AlertInv == AlertTypeOK /\ PostedIsMarking /\ PostingCounted

(* One process that goes on changes the number of those at a label by one.  *)
LEMMA CountMove ==
    ASSUME IsFiniteSet(Monitors), NEW f, NEW g, NEW i \in Monitors, NEW label,
           \A j \in Monitors \ {i} : g[j] = f[j]
    PROVE  /\ Cardinality(Labelled(f, label)) \in Nat
           /\ Cardinality(Labelled(g, label))
                = Cardinality(Labelled(f, label)) + One(g[i], label) - One(f[i], label)
<1> DEFINE A == Labelled(f, label)
           B == Labelled(g, label)
<1>1. IsFiniteSet(A) /\ IsFiniteSet(B) /\ Cardinality(A) \in Nat /\ Cardinality(B) \in Nat
  <2>1. A \in SUBSET Monitors /\ B \in SUBSET Monitors
    BY DEF Labelled
  <2>2. IsFiniteSet(A) /\ IsFiniteSet(B)
    BY <2>1, FS_Subset
  <2> QED
    BY <2>2, FS_CardinalityType
<1> HIDE DEF A, B, One
<1>2. CASE f[i] = g[i]
  <2>1. A = B
    BY <1>2 DEF A, B, Labelled
  <2> QED
    BY <1>1, <1>2, <2>1 DEF A, B, One
<1>3. CASE f[i] # label /\ g[i] = label
  <2>1. B = A \cup {i} /\ i \notin A
    BY <1>3 DEF A, B, Labelled
  <2>2. Cardinality(B) = Cardinality(A) + 1
    BY <1>1, <2>1, FS_AddElement
  <2> QED
    BY <1>1, <1>3, <2>2 DEF A, B, One
<1>4. CASE f[i] = label /\ g[i] # label
  <2>1. B = A \ {i} /\ i \in A
    BY <1>4 DEF A, B, Labelled
  <2>2. Cardinality(B) = Cardinality(A) - 1
    BY <1>1, <2>1, FS_RemoveElement
  <2> QED
    BY <1>1, <1>4, <2>2 DEF A, B, One
<1>5. CASE f[i] # label /\ g[i] # label
  <2>1. A = B
    BY <1>5 DEF A, B, Labelled
  <2> QED
    BY <1>1, <1>5, <2>1 DEF A, B, One
<1> QED
  BY <1>1, <1>2, <1>3, <1>4, <1>5 DEF A, B, One

(* No process is both about to post and about to note.                      *)
LEMMA PostAndMark ==
    ASSUME IsFiniteSet(Monitors)
    PROVE  /\ Cardinality(At("post")) \in Nat /\ Cardinality(At("mark")) \in Nat
           /\ Cardinality(Monitors) \in Nat
           /\ Cardinality(At("post")) + Cardinality(At("mark")) <= Cardinality(Monitors)
<1>1. At("post") \in SUBSET Monitors /\ At("mark") \in SUBSET Monitors
  BY DEF At, Labelled
<1>2. IsFiniteSet(At("post")) /\ IsFiniteSet(At("mark"))
  BY <1>1, FS_Subset
<1>3. /\ Cardinality(At("post")) \in Nat /\ Cardinality(At("mark")) \in Nat
      /\ Cardinality(Monitors) \in Nat
  BY <1>2, FS_CardinalityType
<1>4. At("post") \cap At("mark") = {}
  BY DEF At, Labelled
<1>5. Cardinality(At("post") \cup At("mark")) = Cardinality(At("post")) + Cardinality(At("mark"))
  <2>1. Cardinality(At("post") \cap At("mark")) = 0
    BY <1>4, FS_EmptySet
  <2>2. Cardinality(At("post") \cup At("mark"))
           = Cardinality(At("post")) + Cardinality(At("mark"))
               - Cardinality(At("post") \cap At("mark"))
    BY <1>2, FS_Union
  <2> QED
    BY <1>3, <2>1, <2>2
<1>6. Cardinality(At("post") \cup At("mark")) <= Cardinality(Monitors)
  <2>1. At("post") \cup At("mark") \in SUBSET Monitors
    BY <1>1
  <2> QED
    BY <2>1, FS_Subset
<1> QED
  BY <1>3, <1>5, <1>6

LEMMA AlertInvInit ==
    ASSUME IsFiniteSet(Monitors)
    PROVE  Alerts!AlertInit => AlertInv
<1> SUFFICES ASSUME Alerts!AlertInit
             PROVE  AlertInv
  OBVIOUS
<1>1. /\ monitoring = [i \in Monitors |-> "idle"] /\ alertSentKey = FALSE
      /\ alerts = 0 /\ alertFaults = 0
  BY DEF Alerts!AlertInit
<1>2. AlertTypeOK
  BY <1>1 DEF AlertTypeOK
<1>3. Cardinality(At("post")) <= Cardinality(Monitors)
  BY PostAndMark
<1> QED
  BY <1>1, <1>2, <1>3, PostAndMark DEF AlertInv, PostedIsMarking, PostingCounted

(* Forgetting that an alert was sent begins the count anew with those about *)
(* to be noted.                                                             *)
LEMMA ForgetKeeps ==
    ASSUME IsFiniteSet(Monitors), AlertInv, Alerts!ForgetAlert, UNCHANGED alertFaults
    PROVE  /\ alerts' = Cardinality(At("mark")) /\ alerts' \in Nat /\ ~alertSentKey'
           /\ alerts' + Cardinality(At("post")) <= Cardinality(Monitors) + alertFaults'
<1>1. alerts' = Cardinality(At("mark")) /\ ~alertSentKey'
  BY SameCardinality DEF Alerts!ForgetAlert, At, Labelled
<1> QED
  BY <1>1, PostAndMark DEF AlertInv, AlertTypeOK

LEMMA AlertInvStep ==
    ASSUME IsFiniteSet(Monitors)
    PROVE  AlertInv /\ [Alerts!AlertNext]_alertVars => AlertInv'
<1> SUFFICES ASSUME AlertInv, [Alerts!AlertNext]_alertVars
             PROVE  AlertInv'
  OBVIOUS
<1> DEFINE P == Cardinality(At("post"))
           M == Cardinality(At("mark"))
           N == Cardinality(Monitors)
<1>1. P \in Nat /\ M \in Nat /\ N \in Nat /\ P + M <= N
  BY PostAndMark
<1>2. /\ alerts \in Nat /\ alertFaults \in Nat /\ alertSentKey \in BOOLEAN
      /\ monitoring \in [Monitors -> {"idle", "read", "post", "mark", "clear"}]
      /\ ~alertSentKey => alerts <= M + alertFaults
      /\ alerts + P <= N + alertFaults
  BY DEF AlertInv, AlertTypeOK, PostedIsMarking, PostingCounted
<1>3. ASSUME UNCHANGED monitoring
      PROVE  P' = P /\ M' = M
  BY <1>3 DEF At
<1>4. ASSUME NEW i \in Monitors,
             NEW label \in {"idle", "read", "post", "mark", "clear"}, Alerts!Goto(i, label)
      PROVE  /\ monitoring' \in [Monitors -> {"idle", "read", "post", "mark", "clear"}]
             /\ P' = P + (IF label = "post" THEN 1 ELSE 0)
                       - (IF monitoring[i] = "post" THEN 1 ELSE 0)
             /\ M' = M + (IF label = "mark" THEN 1 ELSE 0)
                       - (IF monitoring[i] = "mark" THEN 1 ELSE 0)
  <2>1. monitoring' = [monitoring EXCEPT ![i] = label]
    BY <1>4 DEF Alerts!Goto
  <2>2. monitoring'[i] = label /\ \A j \in Monitors \ {i} : monitoring'[j] = monitoring[j]
    BY <1>2, <2>1
  <2>3. P' = P + (IF label = "post" THEN 1 ELSE 0)
               - (IF monitoring[i] = "post" THEN 1 ELSE 0)
    <3>1. Cardinality(Labelled(monitoring', "post"))
            = Cardinality(Labelled(monitoring, "post"))
                + One(monitoring'[i], "post") - One(monitoring[i], "post")
      BY <2>2, CountMove
    <3> QED
      BY <2>2, <3>1 DEF At, One
  <2>4. M' = M + (IF label = "mark" THEN 1 ELSE 0)
               - (IF monitoring[i] = "mark" THEN 1 ELSE 0)
    <3>1. Cardinality(Labelled(monitoring', "mark"))
            = Cardinality(Labelled(monitoring, "mark"))
                + One(monitoring'[i], "mark") - One(monitoring[i], "mark")
      BY <2>2, CountMove
    <3> QED
      BY <2>2, <3>1 DEF At, One
  <2> QED
    BY <1>2, <2>1, <2>3, <2>4
<1> USE DEF AlertInv, AlertTypeOK, PostedIsMarking, PostingCounted
<1> HIDE DEF P, M, N
<1>5. ASSUME alerts' \in Nat, alertFaults' \in Nat, alertSentKey' \in BOOLEAN,
             monitoring' \in [Monitors -> {"idle", "read", "post", "mark", "clear"}],
             ~alertSentKey' => alerts' <= M' + alertFaults',
             alerts' + P' <= N + alertFaults'
      PROVE  AlertInv'
  BY <1>5 DEF P, M, N
<1> HIDE DEF AlertInv, AlertTypeOK, PostedIsMarking, PostingCounted
<1>6. CASE UNCHANGED alertVars
  <2>1. UNCHANGED <<monitoring, alerts, alertSentKey, alertFaults>>
    BY <1>6 DEF alertVars
  <2> QED
    BY <1>1, <1>2, <1>3, <1>5, <2>1
<1>7. CASE Alerts!FailureKeyExpires
  <2>1. UNCHANGED <<monitoring, alerts, alertSentKey, alertFaults>>
    BY <1>7 DEF Alerts!FailureKeyExpires
  <2> QED
    BY <1>1, <1>2, <1>3, <1>5, <2>1
<1>8. CASE Alerts!AlertSentExpires
  <2>1. Alerts!ForgetAlert /\ UNCHANGED <<monitoring, alertFaults>>
    BY <1>8 DEF Alerts!AlertSentExpires
  <2>2. alerts' = M /\ alertSentKey' \in BOOLEAN /\ ~alertSentKey' /\ alerts' + P <= N + alertFaults
    BY <2>1, ForgetKeeps DEF M, P, N, Alerts!ForgetAlert
  <2> QED
    BY <1>1, <1>2, <1>3, <1>5, <2>1, <2>2
<1>9. ASSUME NEW i \in Monitors, Alerts!TrackFailure(i)
      PROVE  AlertInv'
  <2>1. /\ monitoring[i] = "idle" /\ Alerts!Goto(i, "read")
        /\ UNCHANGED <<alertSentKey, alerts, alertFaults>>
    BY <1>9 DEF Alerts!TrackFailure
  <2> QED
    BY <1>1, <1>2, <1>4, <1>5, <2>1
<1>10. ASSUME NEW i \in Monitors, Alerts!ReadAlertSent(i)
       PROVE  AlertInv'
  <2>1. /\ monitoring[i] = "read"
        /\ Alerts!Goto(i, IF Alerts!ShouldSendAlert(i) THEN "post" ELSE "idle")
        /\ UNCHANGED <<alertSentKey, alerts, alertFaults>>
    BY <1>10 DEF Alerts!ReadAlertSent
  <2>2. CASE Alerts!ShouldSendAlert(i)
    <3>1. ~alertSentKey
      BY <2>2 DEF Alerts!ShouldSendAlert
    <3>2. Alerts!Goto(i, "post")
      BY <2>1, <2>2
    <3>3. P' = P + 1 /\ M' = M
          /\ monitoring' \in [Monitors -> {"idle", "read", "post", "mark", "clear"}]
      BY <1>1, <1>4, <2>1, <3>2
    <3>4. P' + M' <= N
      <4>1. (Cardinality(At("post")) + Cardinality(At("mark")) <= Cardinality(Monitors))'
        BY PostAndMark, PTL
      <4> QED
        BY <4>1 DEF P, M, N
    <3> QED
      BY <1>1, <1>2, <1>5, <2>1, <3>1, <3>3, <3>4
  <2>3. CASE ~Alerts!ShouldSendAlert(i)
    <3>1. Alerts!Goto(i, "idle")
      BY <2>1, <2>3
    <3> QED
      BY <1>1, <1>2, <1>4, <1>5, <2>1, <3>1
  <2> QED
    BY <2>2, <2>3
<1>11. ASSUME NEW i \in Monitors, Alerts!PostAlert(i)
       PROVE  AlertInv'
  <2>1. /\ monitoring[i] = "post" /\ Alerts!Goto(i, "mark")
        /\ alerts' \in {alerts, alerts + 1}
        /\ UNCHANGED <<alertSentKey, alertFaults>>
    BY <1>11 DEF Alerts!PostAlert
  <2> QED
    BY <1>1, <1>2, <1>4, <1>5, <2>1
<1>12. ASSUME NEW i \in Monitors, Alerts!MarkAlertSent(i)
       PROVE  AlertInv'
  <2>1. /\ monitoring[i] = "mark" /\ Alerts!Goto(i, "idle") /\ alertSentKey' = TRUE
        /\ UNCHANGED <<alerts, alertFaults>>
    BY <1>12 DEF Alerts!MarkAlertSent
  <2> QED
    BY <1>1, <1>2, <1>4, <1>5, <2>1
<1>13. ASSUME NEW i \in Monitors, Alerts!ClearFailures(i)
       PROVE  AlertInv'
  <2>1. /\ monitoring[i] = "idle" /\ Alerts!Goto(i, "clear")
        /\ UNCHANGED <<alertSentKey, alerts, alertFaults>>
    BY <1>13 DEF Alerts!ClearFailures
  <2> QED
    BY <1>1, <1>2, <1>4, <1>5, <2>1
<1>14. ASSUME NEW i \in Monitors, Alerts!ClearAlertSent(i)
       PROVE  AlertInv'
  <2>1. /\ monitoring[i] = "clear" /\ Alerts!Goto(i, "idle") /\ Alerts!ForgetAlert
        /\ UNCHANGED alertFaults
    BY <1>14 DEF Alerts!ClearAlertSent
  <2>2. alerts' = M /\ alertSentKey' \in BOOLEAN /\ ~alertSentKey' /\ alerts' + P <= N + alertFaults
    BY <2>1, ForgetKeeps DEF M, P, N, Alerts!ForgetAlert
  <2> QED
    BY <1>1, <1>2, <1>4, <1>5, <2>1, <2>2
<1>15. ASSUME NEW i \in Monitors, Alerts!AbandonTracking(i)
       PROVE  AlertInv'
  <2>1. /\ Alerts!Goto(i, "idle") /\ alertFaults' = alertFaults + 1
        /\ UNCHANGED <<alertSentKey, alerts>>
    BY <1>15 DEF Alerts!AbandonTracking, Alerts!AlertFault
  <2> QED
    BY <1>1, <1>2, <1>4, <1>5, <2>1
<1> QED
  BY <1>6, <1>7, <1>8, <1>9, <1>10, <1>11, <1>12, <1>13, <1>14, <1>15 DEF Alerts!AlertNext

(* However many processes share the two keys, and whatever fails or expires *)
(* between them: a series of failures costs one alert from each process at  *)
(* most, and one more for every fault.                                      *)
THEOREM AlwaysAlertsBounded ==
    ASSUME IsFiniteSet(Monitors)
    PROVE  PartsSpec => []AlertsBounded
<1>1. PartsInit => AlertInv
  BY AlertInvInit DEF PartsInit
<1>2. AlertInv /\ [PartsNext]_variables => AlertInv'
  BY AlertInvStep, OneAtATime
<1>3. AlertInv => AlertsBounded
  BY PostAndMark, SameCardinality
     DEF AlertInv, AlertTypeOK, PostingCounted, AlertsBounded, Alerts!AlertsBounded
<1> QED
  BY <1>1, <1>2, <1>3, PTL DEF PartsSpec

-----------------------------------------------------------------------------
(* The sessions that a reset of the password ends *)

(* Every version that a completed reset was to end has its tombstone, so    *)
(* that it does not matter when a session of it is signed.                  *)
EndedBlocked == ended \subseteq tombstones

LEMMA EndedBlockedStep == EndedBlocked /\ [Users!AccountNext]_accountVars => EndedBlocked'
<1> SUFFICES ASSUME EndedBlocked, [Users!AccountNext]_accountVars
             PROVE  EndedBlocked'
  OBVIOUS
<1> USE DEF EndedBlocked
<1>1. ASSUME UNCHANGED <<tombstones, ended>>
      PROVE  EndedBlocked'
  BY <1>1
<1>2. CASE UNCHANGED accountVars
  BY <1>1, <1>2 DEF accountVars
<1>3. CASE Users!Verify2FA
  BY <1>1, <1>3 DEF Users!Verify2FA
<1>4. ASSUME NEW t \in 1..MaxMailed, Users!ExpireResetToken(t)
      PROVE  EndedBlocked'
  BY <1>1, <1>4 DEF Users!ExpireResetToken
<1>5. ASSUME NEW r \in Requests,
             \/ Users!Register(r) \/ Users!Login(r) \/ Users!ForgotPassword(r)
             \/ Users!Setup2FA(r) \/ Users!Enable2FA(r) \/ Users!Disable2FA(r)
      PROVE  EndedBlocked'
  BY <1>1, <1>5 DEF Users!Register, Users!Login, Users!ForgotPassword, Users!Setup2FA,
                    Users!Enable2FA, Users!Disable2FA, Users!FindUser, Users!data
<1>6. ASSUME NEW r \in Requests,
             \/ Users!InsertUser(r) \/ Users!SignSession(r) \/ Users!DeleteResetTokens(r)
             \/ Users!InsertResetToken(r) \/ Users!LookUpToken(r) \/ Users!ConsumeToken(r)
             \/ Users!UpdatePassword(r) \/ Users!Fail(r)
      PROVE  EndedBlocked'
  BY <1>1, <1>6 DEF Users!InsertUser, Users!SignSession, Users!DeleteResetTokens,
                    Users!InsertResetToken, Users!LookUpToken, Users!ConsumeToken,
                    Users!UpdatePassword, Users!Fail, Users!data
<1>7. ASSUME NEW r \in Requests, NEW t \in 1..MaxMailed, Users!ResetPassword(r, t)
      PROVE  EndedBlocked'
  BY <1>1, <1>7 DEF Users!ResetPassword, Users!data
<1>8. ASSUME NEW r \in Requests, Users!BlockOldSession(r)
      PROVE  EndedBlocked'
  <2>1. ended' = ended /\ tombstones \subseteq tombstones'
    BY <1>8 DEF Users!BlockOldSession
  <2> QED
    BY <2>1
(* The answer comes only once every version up to the one that was read is *)
(* blocked.                                                                 *)
<1>9. ASSUME NEW r \in Requests, Users!ResetDone(r)
      PROVE  EndedBlocked'
  <2>1. /\ 0..seen[r].version \subseteq tombstones /\ tombstones' = tombstones
        /\ ended' = ended \cup 0..seen[r].version
    BY <1>9 DEF Users!ResetDone, Users!OldVersions
  <2> QED
    BY <2>1
<1>10. ASSUME NEW r \in Requests,
              Users!StoreSecret(r) \/ Users!SetEnabled(r) \/ Users!ClearSecond(r)
       PROVE  EndedBlocked'
  BY <1>1, <1>10 DEF Users!StoreSecret, Users!SetEnabled, Users!ClearSecond, Users!Update
<1> QED
  BY <1>2, <1>3, <1>4, <1>5, <1>6, <1>7, <1>8, <1>9, <1>10 DEF Users!AccountNext

(* Once a reset of the password has been answered, no session of a version *)
(* it was to end is let in, however logins and resets interleave and        *)
(* wherever one of them stops.                                              *)
THEOREM AlwaysResetEndsSessions == PartsSpec => []ResetEndsSessions
<1>1. PartsInit => EndedBlocked
  <2>1. PartsInit => Users!AccountInit
    BY DEF PartsInit
  <2> QED
    BY <2>1 DEF Users!AccountInit, EndedBlocked
<1>2. EndedBlocked /\ [PartsNext]_variables => EndedBlocked'
  BY EndedBlockedStep, OneAtATime
<1>3. EndedBlocked => ResetEndsSessions
  BY DEF EndedBlocked, ResetEndsSessions, Users!ResetEndsSessions, Users!Authenticated,
         Users!IsSessionRevoked
<1> QED
  BY <1>1, <1>2, <1>3, PTL DEF PartsSpec

-----------------------------------------------------------------------------
(* The cache of the market reads *)

AllKeys == {"market", "markets", "stats", "platform"}
TwoFacts == {"row", "bets"}
AllWriters == {"bulk", "bet", "indexer"}
Versions == UNION {[D -> Nat] : D \in SUBSET TwoFacts}
CacheEntry == [facts : Versions, excuse : {"none", "late", "refused", "left"}]
Op == [op : {"del", "scan", "notify"}, keys : SUBSET AllKeys]
ReaderState == [key : AllKeys \cup {"none"}, left : Seq(TwoFacts), got : Versions]

ReadsTypeOK ==
    /\ rowVersion \in [TwoFacts -> Nat]
    /\ cached \in [CacheKeys -> CacheEntry]
    /\ reading \in [Readers -> ReaderState]
    /\ plan \in [AllWriters -> Seq(Op)]

(* What nothing excuses is as the row is, or some writer is to delete it.   *)
StaleIsPending ==
    \A k \in CacheKeys :
        cached[k].excuse = "none" =>
            Reads!Current(k) \/ \E w \in AllWriters : Reads!Named(plan[w], k)

ReadsInv == ReadsTypeOK /\ StaleIsPending

LEMMA NothingRead == [f \in {} |-> 0] \in Versions
<1>1. [f \in {} |-> 0] \in [{} -> Nat] /\ {} \in SUBSET TwoFacts
  OBVIOUS
<1> QED
  BY <1>1 DEF Versions

LEMMA AbsentTyped ==
    /\ Reads!Absent \in CacheEntry
    /\ DOMAIN Reads!Absent.facts = {}
<1>1. Reads!Absent \in CacheEntry
  <2> HIDE DEF Versions
  <2> QED
    BY NothingRead DEF Reads!Absent, CacheEntry
<1>2. DOMAIN Reads!Absent.facts = {}
  BY DEF Reads!Absent
<1> QED
  BY <1>1, <1>2

LEMMA NotReadingTyped == Reads!NotReading \in ReaderState
<1>1. <<>> \in Seq(TwoFacts)
  OBVIOUS
<1> HIDE DEF Versions
<1> QED
  BY <1>1, NothingRead DEF Reads!NotReading, ReaderState

LEMMA ReadsInvInit == Reads!ReadsInit => ReadsInv
<1> SUFFICES ASSUME Reads!ReadsInit
             PROVE  ReadsInv
  OBVIOUS
<1>1. /\ rowVersion = [f \in TwoFacts |-> 0]
      /\ cached = [k \in CacheKeys |-> Reads!Absent]
      /\ reading = [r \in Readers |-> Reads!NotReading]
      /\ plan = [w \in AllWriters |-> <<>>]
  BY DEF Reads!ReadsInit, Reads!Facts, Reads!Writers, TwoFacts, AllWriters
<1>2. ReadsTypeOK
  <2>1. <<>> \in Seq(Op)
    OBVIOUS
  <2> HIDE DEF Reads!Absent, Reads!NotReading
  <2> QED
    BY <1>1, <2>1, AbsentTyped, NotReadingTyped DEF ReadsTypeOK
<1>3. StaleIsPending
  <2>1. \A k \in CacheKeys : cached[k] = Reads!Absent
    BY <1>1
  <2> HIDE DEF Reads!Absent
  <2> QED
    BY <2>1, AbsentTyped DEF StaleIsPending, Reads!Current
<1> QED
  BY <1>2, <1>3 DEF ReadsInv

(* A reader that goes on, or ends, changes nothing that is cached.          *)
LEMMA ReaderGoesOn ==
    ASSUME ReadsInv, NEW r \in Readers, NEW new \in ReaderState,
           reading' = [reading EXCEPT ![r] = new],
           UNCHANGED <<rowVersion, cached, plan>>
    PROVE  ReadsInv'
<1>1. ReadsTypeOK'
  <2> HIDE DEF ReaderState
  <2> QED
    BY DEF ReadsInv, ReadsTypeOK
<1>2. StaleIsPending'
  BY DEF ReadsInv, StaleIsPending, Reads!Current, Reads!Named
<1> QED
  BY <1>1, <1>2 DEF ReadsInv

(* A miss: the reader has the queries of its key ahead.                     *)
LEMMA MissKeeps ==
    ASSUME CacheKeys \subseteq AllKeys, ReadsInv,
           NEW r \in Readers, NEW k \in CacheKeys, Reads!Miss(r, k)
    PROVE  ReadsInv'
<1> DEFINE new == [Reads!NotReading EXCEPT !.key = k, !.left = Reads!Queries[k]]
<1>1. Reads!Queries[k] \in Seq(TwoFacts)
  <2>1. k \in {"market", "markets", "stats", "platform"}
    BY DEF AllKeys
  <2>2. Reads!Queries[k] \in {<<"row", "row">>, <<"bets">>, <<"row", "bets">>}
    BY <2>1 DEF Reads!Queries, Reads!GetMarkets, Reads!GetMarketById,
                Reads!GetMarketStats, Reads!GetPlatformStats
  <2>3. /\ <<"row", "row">> \in Seq(TwoFacts) /\ <<"bets">> \in Seq(TwoFacts)
        /\ <<"row", "bets">> \in Seq(TwoFacts)
    BY DEF TwoFacts
  <2> QED
    BY <2>2, <2>3
<1>2. new \in ReaderState
  <2> HIDE DEF Reads!NotReading, Versions
  <2> QED
    BY <1>1, NotReadingTyped DEF ReaderState
<1>3. /\ reading' = [reading EXCEPT ![r] = new]
      /\ UNCHANGED <<rowVersion, cached, plan>>
  BY DEF Reads!Miss
<1> HIDE DEF new
<1> QED
  BY <1>2, <1>3, ReaderGoesOn

(* What a reader has read and what it has left are of the two facts.        *)
LEMMA QueryKeeps ==
    ASSUME ReadsInv, NEW r \in Readers, Reads!Query(r)
    PROVE  ReadsInv'
<1> DEFINE f == Head(reading[r].left)
           got == reading[r].got
           all == [g \in DOMAIN got \cup {f} |-> IF g \in DOMAIN got THEN got[g] ELSE rowVersion[g]]
           new == [key |-> reading[r].key, left |-> Tail(reading[r].left), got |-> all]
<1>1. /\ reading[r].left # <<>>
      /\ reading' = [reading EXCEPT ![r].left = Tail(@), ![r].got = all]
      /\ UNCHANGED <<rowVersion, cached, plan>>
  BY DEF Reads!Query
<1>2. /\ rowVersion \in [TwoFacts -> Nat] /\ reading \in [Readers -> ReaderState]
      /\ reading[r].left \in Seq(TwoFacts) /\ got \in Versions
      /\ reading[r].key \in AllKeys \cup {"none"}
      /\ reading[r] = [key |-> reading[r].key, left |-> reading[r].left, got |-> got]
  BY DEF ReadsInv, ReadsTypeOK, ReaderState
<1>3. f \in TwoFacts /\ Tail(reading[r].left) \in Seq(TwoFacts)
  BY <1>1, <1>2
<1>4. all \in Versions
  <2>1. PICK D \in SUBSET TwoFacts : got \in [D -> Nat]
    BY <1>2 DEF Versions
  <2>2. D \cup {f} \in SUBSET TwoFacts /\ all \in [D \cup {f} -> Nat]
    BY <1>2, <1>3, <2>1
  <2> QED
    BY <2>2 DEF Versions
<1> HIDE DEF all, f
<1>5. new \in ReaderState
  <2> HIDE DEF Versions, got
  <2> QED
    BY <1>2, <1>3, <1>4 DEF ReaderState
<1>6. reading' = [reading EXCEPT ![r] = new]
  <2>1. reading \in [Readers -> [key : AllKeys \cup {"none"}, left : Seq(TwoFacts),
                                 got : Versions]]
    BY <1>2 DEF ReaderState
  <2>2. reading'[r] = [reading[r] EXCEPT !.left = Tail(reading[r].left), !.got = all]
    BY <1>1, <2>1
  <2>3. reading'[r] = new
    BY <2>1, <2>2
  <2>4. DOMAIN reading' = Readers /\ \A q \in Readers \ {r} : reading'[q] = reading[q]
    BY <1>1, <2>1
  <2>5. reading' = [q \in Readers |-> reading'[q]]
    BY <1>1, <2>1
  <2> HIDE DEF new
  <2> QED
    BY <2>1, <2>3, <2>4, <2>5
<1> HIDE DEF new
<1> QED
  BY <1>1, <1>5, <1>6, ReaderGoesOn

(* The SET stores what was read, excused unless it is the row as it is.     *)
LEMMA StoreKeeps ==
    ASSUME ReadsInv, NEW r \in Readers, Reads!StoreInCache(r)
    PROVE  ReadsInv'
<1> DEFINE got == reading[r].got
           why == IF Reads!Outdated(got) THEN "late" ELSE "none"
           new == [facts |-> got, excuse |-> why]
<1>1. /\ cached' = [cached EXCEPT ![reading[r].key] = new]
      /\ reading' = [reading EXCEPT ![r] = Reads!NotReading]
      /\ UNCHANGED <<rowVersion, plan>>
  BY DEF Reads!StoreInCache
<1>2. cached \in [CacheKeys -> CacheEntry] /\ got \in Versions
  BY DEF ReadsInv, ReadsTypeOK, ReaderState
<1>3. new.excuse = "none" => \A f \in DOMAIN got : got[f] = rowVersion[f]
  BY DEF Reads!Outdated
<1>4. new \in CacheEntry /\ new.facts = got
  <2>1. why \in {"none", "late", "refused", "left"}
    OBVIOUS
  <2> HIDE DEF got, why, Versions
  <2> QED
    BY <1>2, <2>1 DEF CacheEntry
<1> HIDE DEF new, got
<1>5. /\ cached' \in [CacheKeys -> CacheEntry]
      /\ \A k \in CacheKeys : cached'[k] = IF k = reading[r].key THEN new ELSE cached[k]
  <2> HIDE DEF CacheEntry
  <2> QED
    BY <1>1, <1>2, <1>4
<1>6. ReadsTypeOK'
  <2> HIDE DEF ReaderState, CacheEntry, Reads!NotReading
  <2> QED
    BY <1>1, <1>5, NotReadingTyped DEF ReadsInv, ReadsTypeOK
<1>7. StaleIsPending'
  <2> SUFFICES ASSUME NEW k \in CacheKeys, cached'[k].excuse = "none"
               PROVE  Reads!Current(k)' \/ \E w \in AllWriters : Reads!Named(plan[w], k)'
    BY DEF StaleIsPending
  <2>1. CASE k = reading[r].key
    BY <1>1, <1>3, <1>4, <1>5, <2>1 DEF Reads!Current
  <2>2. CASE k # reading[r].key
    <3>1. cached'[k] = cached[k]
      BY <1>5, <2>2
    <3> QED
      BY <1>1, <3>1 DEF ReadsInv, StaleIsPending, Reads!Current, Reads!Named
  <2> QED
    BY <2>1, <2>2
<1> QED
  BY <1>6, <1>7 DEF ReadsInv

(* A change by a writer that deletes work, or by one that deletes nothing:  *)
(* what is cached of it is excused, or about to be deleted.                 *)
LEMMA ChangeKeeps ==
    ASSUME ReadsInv, NEW facts \in SUBSET TwoFacts, NEW keys, Reads!Change(facts, keys),
           plan' \in [AllWriters -> Seq(Op)],
           \A k \in CacheKeys \cap keys : \E w \in AllWriters : Reads!Named(plan'[w], k),
           \A w \in AllWriters : plan'[w] = plan[w] \/ plan[w] = <<>>
    PROVE  ReadsInv'
<1>1. /\ rowVersion \in [TwoFacts -> Nat] /\ cached \in [CacheKeys -> CacheEntry]
      /\ reading \in [Readers -> ReaderState] /\ plan \in [AllWriters -> Seq(Op)]
  BY DEF ReadsInv, ReadsTypeOK
<1>2. /\ rowVersion' = [f \in TwoFacts |->
             IF f \in facts THEN rowVersion[f] + 1 ELSE rowVersion[f]]
      /\ cached' = [k \in CacheKeys |->
             IF facts \cap DOMAIN cached[k].facts # {} /\ k \notin keys
             THEN [cached[k] EXCEPT !.excuse = "left"] ELSE cached[k]]
      /\ reading' = reading
  BY DEF Reads!Change, Reads!Facts, TwoFacts
<1>3. rowVersion' \in [TwoFacts -> Nat]
  BY <1>1, <1>2
<1>4. \A k \in CacheKeys : /\ [cached[k] EXCEPT !.excuse = "left"] \in CacheEntry
                           /\ [cached[k] EXCEPT !.excuse = "left"].excuse = "left"
                           /\ cached[k].facts \in Versions
  <2> HIDE DEF Versions
  <2> QED
    BY <1>1 DEF CacheEntry
<1>5. cached' \in [CacheKeys -> CacheEntry]
  <2> HIDE DEF CacheEntry
  <2> QED
    BY <1>1, <1>2, <1>4
<1>6. ReadsTypeOK'
  BY <1>1, <1>2, <1>3, <1>5 DEF ReadsTypeOK
<1>7. StaleIsPending'
  <2> SUFFICES ASSUME NEW k \in CacheKeys, cached'[k].excuse = "none"
               PROVE  Reads!Current(k)' \/ \E w \in AllWriters : Reads!Named(plan'[w], k)
    BY DEF StaleIsPending, Reads!Named
  <2>1. cached'[k] = cached[k] /\ (facts \cap DOMAIN cached[k].facts = {} \/ k \in keys)
    BY <1>2, <1>4
  <2>2. CASE k \in keys
    BY <2>2
  <2>3. CASE facts \cap DOMAIN cached[k].facts = {}
    <3>1. CASE Reads!Current(k)
      <4>1. DOMAIN cached[k].facts \subseteq TwoFacts
        BY <1>4 DEF Versions
      <4>2. \A f \in DOMAIN cached[k].facts : rowVersion'[f] = rowVersion[f]
        BY <1>2, <2>3, <4>1
      <4> QED
        BY <2>1, <3>1, <4>2 DEF Reads!Current
    <3>2. CASE \E w \in AllWriters : Reads!Named(plan[w], k)
      <4>1. PICK w \in AllWriters : Reads!Named(plan[w], k)
        BY <3>2
      <4>2. plan[w] # <<>>
        BY <4>1 DEF Reads!Named
      <4> QED
        BY <4>1, <4>2
    <3> QED
      BY <2>1, <3>1, <3>2 DEF ReadsInv, StaleIsPending
  <2> QED
    BY <2>1, <2>2, <2>3
<1> QED
  BY <1>6, <1>7 DEF ReadsInv

(* The deletions that a writer has ahead of it name every key it covers.    *)
LEMMA DeletesKeep ==
    ASSUME ReadsInv, NEW w \in AllWriters, NEW facts \in SUBSET TwoFacts,
           NEW work \in Seq(Op), Reads!ChangeAndDelete(w, facts, work),
           \A k \in Reads!Covers[w] : Reads!Named(work, k)
    PROVE  ReadsInv'
<1>1. /\ plan[w] = <<>> /\ Reads!Change(facts, Reads!Covers[w])
      /\ plan' = [plan EXCEPT ![w] = work]
  BY DEF Reads!ChangeAndDelete
<1>2. plan \in [AllWriters -> Seq(Op)]
  BY DEF ReadsInv, ReadsTypeOK
<1>3. /\ plan' \in [AllWriters -> Seq(Op)] /\ plan'[w] = work
      /\ \A v \in AllWriters \ {w} : plan'[v] = plan[v]
  BY <1>1, <1>2
<1>4. \A v \in AllWriters : plan'[v] = plan[v] \/ plan[v] = <<>>
  BY <1>1, <1>3
<1>5. \A k \in CacheKeys \cap Reads!Covers[w] : \E v \in AllWriters : Reads!Named(plan'[v], k)
  BY <1>3
<1> QED
  BY <1>1, <1>3, <1>4, <1>5, ChangeKeeps

LEMMA NothingDeleted ==
    ASSUME ReadsInv, NEW facts \in SUBSET TwoFacts, Reads!ChangeOnly(facts)
    PROVE  ReadsInv'
<1>1. Reads!Change(facts, {}) /\ plan' = plan
  BY DEF Reads!ChangeOnly
<1>2. plan \in [AllWriters -> Seq(Op)]
  BY DEF ReadsInv, ReadsTypeOK
<1> QED
  BY <1>1, <1>2, ChangeKeeps

(* What work names, its head names or its tail.                             *)
LEMMA NamedApart ==
    ASSUME NEW work \in Seq(Op), work # <<>>, NEW k, Reads!Named(work, k)
    PROVE  \/ Head(work).op # "notify" /\ k \in Head(work).keys
           \/ Reads!Named(Tail(work), k)
<1>1. PICK n \in DOMAIN work : work[n].op # "notify" /\ k \in work[n].keys
  BY DEF Reads!Named
<1>2. /\ DOMAIN work = 1..Len(work) /\ Len(work) \in Nat \ {0} /\ Head(work) = work[1]
      /\ Tail(work) \in Seq(Op) /\ Len(Tail(work)) = Len(work) - 1
      /\ \A m \in 1..Len(Tail(work)) : Tail(work)[m] = work[m + 1]
  OBVIOUS
<1>3. CASE n = 1
  BY <1>1, <1>2, <1>3
<1>4. CASE n # 1
  <2>1. /\ n - 1 \in 1..Len(Tail(work)) /\ (n - 1) + 1 = n
        /\ DOMAIN Tail(work) = 1..Len(Tail(work))
    BY <1>1, <1>2, <1>4
  <2>2. Tail(work)[n - 1] = work[n]
    BY <1>2, <2>1
  <2> QED
    BY <1>1, <2>1, <2>2 DEF Reads!Named
<1> QED
  BY <1>3, <1>4

(* A head put before work is named, and so is what work names.              *)
LEMMA NamedJoined ==
    ASSUME NEW x \in Op, NEW work \in Seq(Op), NEW k,
           \/ x.op # "notify" /\ k \in x.keys
           \/ Reads!Named(work, k)
    PROVE  Reads!Named(<<x>> \o work, k)
<1>1. /\ <<x>> \in Seq(Op) /\ Len(<<x>>) = 1 /\ Len(work) \in Nat
      /\ <<x>> \o work \in Seq(Op) /\ Len(<<x>> \o work) = 1 + Len(work)
      /\ DOMAIN (<<x>> \o work) = 1..(1 + Len(work)) /\ DOMAIN work = 1..Len(work)
      /\ (<<x>> \o work)[1] = x
      /\ \A n \in 2..1 + Len(work) : (<<x>> \o work)[n] = work[n - 1]
  OBVIOUS
<1>2. CASE x.op # "notify" /\ k \in x.keys
  <2>1. 1 \in 1..(1 + Len(work))
    BY <1>1
  <2> QED
    BY <1>1, <1>2, <2>1 DEF Reads!Named
<1>3. CASE Reads!Named(work, k)
  <2>1. PICK n \in DOMAIN work : work[n].op # "notify" /\ k \in work[n].keys
    BY <1>3 DEF Reads!Named
  <2>2. n + 1 \in 2..1 + Len(work) /\ n + 1 \in 1..(1 + Len(work)) /\ (n + 1) - 1 = n
    BY <1>1, <2>1
  <2>3. (<<x>> \o work)[n + 1] = work[n]
    BY <1>1, <2>2
  <2> QED
    BY <1>1, <2>1, <2>2, <2>3 DEF Reads!Named
<1> QED
  BY <1>2, <1>3

(* The scan: its keys are looked up, those that are cached go on.           *)
LEMMA ScanKeeps ==
    ASSUME CacheKeys \subseteq AllKeys, ReadsInv, NEW w \in AllWriters, Reads!Scan(w)
    PROVE  ReadsInv'
<1> DEFINE s == plan[w]
           found == {k \in Head(s).keys \cap CacheKeys : cached[k] # Reads!Absent}
           x == [op |-> "del", keys |-> found]
           t == <<x>> \o Tail(s)
<1>1. /\ s # <<>> /\ plan' = [plan EXCEPT ![w] = t]
      /\ UNCHANGED <<rowVersion, cached, reading>>
  BY DEF Reads!Scan, Reads!DoNext, Reads!Delete
<1>2. plan \in [AllWriters -> Seq(Op)] /\ s \in Seq(Op) /\ ReadsTypeOK /\ StaleIsPending
  BY DEF ReadsInv, ReadsTypeOK
<1>3. x \in Op /\ x.op = "del" /\ x.keys = found
  <2>1. found \in SUBSET AllKeys
    OBVIOUS
  <2> QED
    BY <2>1 DEF Op
<1> HIDE DEF x, s
<1>4. Tail(s) \in Seq(Op) /\ t \in Seq(Op)
  BY <1>1, <1>2, <1>3
<1> HIDE DEF t
<1>5. /\ plan'[w] = t /\ \A v \in AllWriters \ {w} : plan'[v] = plan[v]
      /\ plan' \in [AllWriters -> Seq(Op)]
  BY <1>1, <1>2, <1>4
<1>6. ReadsTypeOK'
  BY <1>1, <1>2, <1>5 DEF ReadsTypeOK
<1>7. StaleIsPending'
  <2> SUFFICES ASSUME NEW k \in CacheKeys, cached[k].excuse = "none", ~Reads!Current(k)
               PROVE  \E v \in AllWriters : Reads!Named(plan'[v], k)
    BY <1>1 DEF StaleIsPending, Reads!Current, Reads!Named
  <2>1. PICK v \in AllWriters : Reads!Named(plan[v], k)
    BY <1>2 DEF StaleIsPending
  <2>2. CASE v # w
    BY <1>5, <2>1, <2>2
  <2>3. CASE v = w
    <3>1. cached[k] # Reads!Absent
      <4> HIDE DEF Reads!Absent
      <4> QED
        BY AbsentTyped DEF Reads!Current
    <3>2. \/ Head(s).op # "notify" /\ k \in Head(s).keys
          \/ Reads!Named(Tail(s), k)
      BY <1>1, <1>2, <2>1, <2>3, NamedApart DEF s
    <3>3. Reads!Named(t, k)
      BY <1>3, <1>4, <3>1, <3>2, NamedJoined DEF t
    <3> QED
      BY <1>5, <2>3, <3>3
  <2> QED
    BY <2>2, <2>3
<1> QED
  BY <1>6, <1>7 DEF ReadsInv

(* The head of w's plan is done: the keys it named are gone, or excused.    *)
LEMMA DelKeeps ==
    ASSUME ReadsInv, NEW w \in AllWriters, plan[w] # <<>>,
           plan' = [plan EXCEPT ![w] = Tail(plan[w])],
           UNCHANGED <<rowVersion, reading>>,
           cached' \in [CacheKeys -> CacheEntry],
           \A k \in CacheKeys :
              \/ /\ cached'[k] = cached[k]
                 /\ \/ k \notin Head(plan[w]).keys \/ Head(plan[w]).op = "notify"
                    \/ cached[k] = Reads!Absent
              \/ cached'[k] = Reads!Absent
              \/ cached'[k].excuse = "refused"
    PROVE  ReadsInv'
<1> DEFINE s == plan[w]
           t == Tail(s)
<1>1. plan \in [AllWriters -> Seq(Op)] /\ s \in Seq(Op) /\ ReadsTypeOK /\ StaleIsPending
  BY DEF ReadsInv, ReadsTypeOK
<1>2. t \in Seq(Op)
  BY <1>1
<1>3. /\ plan'[w] = t /\ \A v \in AllWriters \ {w} : plan'[v] = plan[v]
      /\ plan' \in [AllWriters -> Seq(Op)]
  BY <1>1, <1>2
<1>4. ReadsTypeOK'
  BY <1>1, <1>3 DEF ReadsTypeOK
<1> HIDE DEF t, s
<1>5. StaleIsPending'
  <2> SUFFICES ASSUME NEW k \in CacheKeys, cached'[k].excuse = "none", ~Reads!Current(k)'
               PROVE  \E v \in AllWriters : Reads!Named(plan'[v], k)
    BY DEF StaleIsPending, Reads!Named
  <2> HIDE DEF Reads!Absent
  <2>1. cached'[k] # Reads!Absent
    BY AbsentTyped DEF Reads!Current
  <2>2. /\ cached'[k] = cached[k] /\ cached[k] # Reads!Absent
        /\ k \notin Head(plan[w]).keys \/ Head(plan[w]).op = "notify"
    BY <2>1
  <2>3. ~Reads!Current(k)
    BY <2>2 DEF Reads!Current
  <2>4. PICK v \in AllWriters : Reads!Named(plan[v], k)
    BY <1>1, <2>2, <2>3 DEF StaleIsPending
  <2>5. CASE v # w
    BY <1>3, <2>4, <2>5
  <2>6. CASE v = w
    <3>1. Reads!Named(t, k)
      BY <1>1, <2>2, <2>4, <2>6, NamedApart DEF s, t
    <3> QED
      BY <1>3, <2>6, <3>1
  <2> QED
    BY <2>5, <2>6
<1> QED
  BY <1>4, <1>5 DEF ReadsInv

(* The deletions of each writer name the keys it covers.                    *)
LEMMA PlansCover ==
    /\ /\ Reads!InvalidateMarketCache \in Seq(Op)
       /\ \A k \in Reads!Covers["bulk"] : Reads!Named(Reads!InvalidateMarketCache, k)
    /\ /\ Reads!InvalidateMarketCache \o Reads!Notify \in Seq(Op)
       /\ \A k \in Reads!Covers["bulk"] :
             Reads!Named(Reads!InvalidateMarketCache \o Reads!Notify, k)
    /\ /\ Reads!InvalidateBet \in Seq(Op)
       /\ \A k \in Reads!Covers["bet"] : Reads!Named(Reads!InvalidateBet, k)
    /\ /\ Reads!InvalidateResolved \in Seq(Op)
       /\ \A k \in Reads!Covers["indexer"] : Reads!Named(Reads!InvalidateResolved, k)
<1> DEFINE d(keys) == [op |-> "del", keys |-> keys]
           l(keys) == [op |-> "scan", keys |-> keys]
           y == [op |-> "notify", keys |-> {}]
<1>1. /\ \A keys \in SUBSET AllKeys : d(keys) \in Op /\ l(keys) \in Op
      /\ y \in Op
      /\ {"market"} \in SUBSET AllKeys /\ {"markets"} \in SUBSET AllKeys
      /\ {"stats"} \in SUBSET AllKeys /\ {"market", "stats"} \in SUBSET AllKeys
      /\ {"platform"} \in SUBSET AllKeys
  BY DEF Op, AllKeys
<1>2. \A keys : /\ d(keys).op # "notify" /\ d(keys).keys = keys
                /\ l(keys).op # "notify" /\ l(keys).keys = keys
  OBVIOUS
<1>3. /\ Reads!InvalidateMarketCache = <<d({"market"}), l({"markets"}), d({"stats"})>>
      /\ Reads!InvalidateBet = <<l({"market", "stats"}), l({"platform"})>>
      /\ Reads!InvalidateResolved = <<l({"market", "stats"}), l({"markets"})>>
      /\ Reads!Notify = <<y>>
  BY Zenon DEF Reads!InvalidateMarketCache, Reads!InvalidateBet, Reads!InvalidateResolved,
               Reads!Notify, Reads!Delete, Reads!DeletePattern
<1>4. /\ Reads!Covers["bulk"] = {"market", "markets", "stats"}
      /\ Reads!Covers["bet"] = {"market", "stats", "platform"}
      /\ Reads!Covers["indexer"] = {"market", "stats", "markets"}
  BY DEF Reads!Covers
<1>5. /\ d({"market"}) \in Op /\ l({"markets"}) \in Op /\ d({"stats"}) \in Op
      /\ l({"market", "stats"}) \in Op /\ l({"platform"}) \in Op
  BY <1>1
<1> HIDE DEF d, l, y
<1>6. ASSUME NEW p \in Op, NEW q \in Op
      PROVE  /\ <<p, q>> \in Seq(Op)
             /\ \A k : (\/ p.op # "notify" /\ k \in p.keys
                        \/ q.op # "notify" /\ k \in q.keys) => Reads!Named(<<p, q>>, k)
  <2>1. /\ <<p, q>> \in Seq(Op) /\ DOMAIN <<p, q>> = 1..2
        /\ <<p, q>>[1] = p /\ <<p, q>>[2] = q /\ 1 \in 1..2 /\ 2 \in 1..2
    OBVIOUS
  <2> QED
    BY <2>1 DEF Reads!Named
<1>7. ASSUME NEW p \in Op, NEW q \in Op, NEW r \in Op
      PROVE  /\ <<p, q, r>> \in Seq(Op)
             /\ \A k : (\/ p.op # "notify" /\ k \in p.keys
                        \/ q.op # "notify" /\ k \in q.keys
                        \/ r.op # "notify" /\ k \in r.keys) => Reads!Named(<<p, q, r>>, k)
  <2>1. /\ <<p, q, r>> \in Seq(Op) /\ DOMAIN <<p, q, r>> = 1..3
        /\ <<p, q, r>>[1] = p /\ <<p, q, r>>[2] = q /\ <<p, q, r>>[3] = r
        /\ 1 \in 1..3 /\ 2 \in 1..3 /\ 3 \in 1..3
    OBVIOUS
  <2> QED
    BY <2>1 DEF Reads!Named
<1>8. ASSUME NEW s \in Seq(Op), NEW p \in Op
      PROVE  s \o <<p>> \in Seq(Op) /\ \A k : Reads!Named(s, k) => Reads!Named(s \o <<p>>, k)
  <2>1. /\ <<p>> \in Seq(Op) /\ Len(<<p>>) = 1 /\ Len(s) \in Nat
        /\ s \o <<p>> \in Seq(Op) /\ Len(s \o <<p>>) = Len(s) + 1
        /\ DOMAIN s = 1..Len(s) /\ DOMAIN (s \o <<p>>) = 1..(Len(s) + 1)
        /\ \A n \in 1..Len(s) : (s \o <<p>>)[n] = s[n]
    OBVIOUS
  <2>2. \A n \in DOMAIN s : n \in DOMAIN (s \o <<p>>) /\ (s \o <<p>>)[n] = s[n]
    BY <2>1
  <2> QED
    BY <2>1, <2>2 DEF Reads!Named
<1>9. /\ Reads!InvalidateMarketCache \in Seq(Op)
      /\ \A k \in Reads!Covers["bulk"] : Reads!Named(Reads!InvalidateMarketCache, k)
  BY <1>2, <1>3, <1>4, <1>5, <1>7
<1>10. /\ Reads!InvalidateMarketCache \o Reads!Notify \in Seq(Op)
       /\ \A k \in Reads!Covers["bulk"] :
             Reads!Named(Reads!InvalidateMarketCache \o Reads!Notify, k)
  BY <1>1, <1>3, <1>8, <1>9
<1>11. /\ Reads!InvalidateBet \in Seq(Op)
       /\ \A k \in Reads!Covers["bet"] : Reads!Named(Reads!InvalidateBet, k)
  BY <1>2, <1>3, <1>4, <1>5, <1>6
<1>12. /\ Reads!InvalidateResolved \in Seq(Op)
       /\ \A k \in Reads!Covers["indexer"] : Reads!Named(Reads!InvalidateResolved, k)
  BY <1>2, <1>3, <1>4, <1>5, <1>6
<1> QED
  BY <1>9, <1>10, <1>11, <1>12

(* Every step keeps what is cached of a row true, or excused, or about to   *)
(* be deleted.                                                              *)
LEMMA ReadsInvStep ==
    ASSUME CacheKeys \subseteq AllKeys
    PROVE  ReadsInv /\ [Reads!ReadsNext]_readVars => ReadsInv'
<1> SUFFICES ASSUME ReadsInv, [Reads!ReadsNext]_readVars
             PROVE  ReadsInv'
  OBVIOUS
<1>0. /\ plan \in [AllWriters -> Seq(Op)] /\ cached \in [CacheKeys -> CacheEntry]
      /\ ReadsTypeOK /\ StaleIsPending
      /\ "bulk" \in AllWriters /\ "bet" \in AllWriters /\ "indexer" \in AllWriters
      /\ {"row"} \in SUBSET TwoFacts /\ {"bets"} \in SUBSET TwoFacts
      /\ {"row", "bets"} \in SUBSET TwoFacts
  BY DEF ReadsInv, ReadsTypeOK, AllWriters, TwoFacts
<1>1. CASE UNCHANGED readVars
  BY <1>1 DEF readVars, ReadsInv, ReadsTypeOK, StaleIsPending, Reads!Current, Reads!Named
<1>2. ASSUME NEW r \in Readers, NEW k \in CacheKeys, Reads!Miss(r, k)
      PROVE  ReadsInv'
  BY <1>2, MissKeeps
<1>3. ASSUME NEW r \in Readers, Reads!Query(r)
      PROVE  ReadsInv'
  BY <1>3, QueryKeeps
<1>4. ASSUME NEW r \in Readers, Reads!StoreInCache(r)
      PROVE  ReadsInv'
  BY <1>4, StoreKeeps
<1>5. ASSUME NEW r \in Readers, Reads!ReadFails(r)
      PROVE  ReadsInv'
  <2>1. /\ reading' = [reading EXCEPT ![r] = Reads!NotReading]
        /\ UNCHANGED <<rowVersion, cached, plan>>
    BY <1>5 DEF Reads!ReadFails
  <2> QED
    BY <2>1, NotReadingTyped, ReaderGoesOn
<1>6. ASSUME NEW k \in CacheKeys, Reads!CacheExpires(k)
      PROVE  ReadsInv'
  <2>1. /\ cached' = [cached EXCEPT ![k] = Reads!Absent]
        /\ UNCHANGED <<rowVersion, reading, plan>>
    BY <1>6 DEF Reads!CacheExpires
  <2> HIDE DEF Reads!Absent, CacheEntry
  <2>2. /\ cached' \in [CacheKeys -> CacheEntry]
        /\ \A j \in CacheKeys : cached'[j] \in {cached[j], Reads!Absent}
    BY <1>0, <2>1, AbsentTyped
  <2>3. ReadsTypeOK'
    BY <1>0, <2>1, <2>2 DEF ReadsTypeOK
  <2>4. StaleIsPending'
    <3> SUFFICES ASSUME NEW j \in CacheKeys, cached'[j].excuse = "none"
                 PROVE  Reads!Current(j)' \/ \E w \in AllWriters : Reads!Named(plan[w], j)'
      BY DEF StaleIsPending
    <3>1. CASE cached'[j] = Reads!Absent
      BY <3>1, AbsentTyped DEF Reads!Current
    <3>2. CASE cached'[j] = cached[j]
      BY <1>0, <2>1, <3>2 DEF StaleIsPending, Reads!Current, Reads!Named
    <3> QED
      BY <2>2, <3>1, <3>2
  <2> QED
    BY <2>3, <2>4 DEF ReadsInv
<1>7. ASSUME Reads!BulkPauseMarkets \/ Reads!BulkCancelMarkets
      PROVE  ReadsInv'
  <2>1. PICK work \in {Reads!InvalidateMarketCache,
                       Reads!InvalidateMarketCache \o Reads!Notify} :
           Reads!ChangeAndDelete("bulk", {"row"}, work)
    BY <1>7 DEF Reads!BulkPauseMarkets, Reads!BulkCancelMarkets
  <2>2. work \in Seq(Op) /\ \A k \in Reads!Covers["bulk"] : Reads!Named(work, k)
    BY PlansCover
  <2> QED
    BY <1>0, <2>1, <2>2, DeletesKeep
<1>8. ASSUME Reads!RecordBet
      PROVE  ReadsInv'
  <2>1. Reads!ChangeAndDelete("bet", {"bets"}, Reads!InvalidateBet)
    BY <1>8 DEF Reads!RecordBet
  <2> QED
    BY <1>0, <2>1, PlansCover, DeletesKeep
<1>9. ASSUME Reads!IndexResolved
      PROVE  ReadsInv'
  <2>1. Reads!ChangeAndDelete("indexer", {"row"}, Reads!InvalidateResolved)
    BY <1>9 DEF Reads!IndexResolved
  <2> QED
    BY <1>0, <2>1, PlansCover, DeletesKeep
<1>10. ASSUME Reads!IndexBetPlaced \/ Reads!IndexStatus \/ Reads!LockOverdue
                \/ Reads!AdminMovesMarket
       PROVE  ReadsInv'
  <2>1. PICK facts \in {{"row"}, {"row", "bets"}} : Reads!ChangeOnly(facts)
    BY <1>10 DEF Reads!IndexBetPlaced, Reads!IndexStatus, Reads!LockOverdue,
                 Reads!AdminMovesMarket
  <2> QED
    BY <1>0, <2>1, NothingDeleted
<1>11. ASSUME NEW w \in AllWriters, Reads!Scan(w)
       PROVE  ReadsInv'
  BY <1>11, ScanKeeps
<1>12. ASSUME NEW w \in AllWriters, Reads!Del(w)
       PROVE  ReadsInv'
  <2>1. /\ plan[w] # <<>> /\ UNCHANGED <<rowVersion, reading>>
        /\ cached' = [k \in CacheKeys |->
                        IF k \in Head(plan[w]).keys THEN Reads!Absent ELSE cached[k]]
        /\ plan' = [plan EXCEPT ![w] = Tail(plan[w])]
    BY <1>0, <1>12 DEF Reads!Del, Reads!DoNext
  <2>2. cached' \in [CacheKeys -> CacheEntry]
    <3> HIDE DEF Reads!Absent, CacheEntry
    <3> QED
      BY <1>0, <2>1, AbsentTyped
  <2>3. \A k \in CacheKeys : \/ cached'[k] = cached[k] /\ k \notin Head(plan[w]).keys
                             \/ cached'[k] = Reads!Absent
    BY <2>1
  <2> QED
    BY <2>1, <2>2, <2>3, DelKeeps
<1>13. ASSUME NEW w \in AllWriters, Reads!DelFails(w)
       PROVE  ReadsInv'
  <2>1. /\ plan[w] # <<>> /\ UNCHANGED <<rowVersion, reading>>
        /\ cached' = [k \in CacheKeys |->
              IF k \in Head(plan[w]).keys /\ cached[k] # Reads!Absent
              THEN [cached[k] EXCEPT !.excuse = "refused"] ELSE cached[k]]
        /\ plan' = [plan EXCEPT ![w] = Tail(plan[w])]
    BY <1>0, <1>13 DEF Reads!DelFails, Reads!DoNext
  <2>2. \A k \in CacheKeys : /\ [cached[k] EXCEPT !.excuse = "refused"] \in CacheEntry
                             /\ [cached[k] EXCEPT !.excuse = "refused"].excuse = "refused"
    <3> HIDE DEF Versions
    <3> QED
      BY <1>0 DEF CacheEntry
  <2>3. cached' \in [CacheKeys -> CacheEntry]
    <3> HIDE DEF CacheEntry
    <3> QED
      BY <1>0, <2>1, <2>2
  <2>4. \A k \in CacheKeys :
           \/ cached'[k] = cached[k] /\ (k \notin Head(plan[w]).keys \/ cached[k] = Reads!Absent)
           \/ cached'[k].excuse = "refused"
    BY <2>1, <2>2
  <2> QED
    BY <2>1, <2>3, <2>4, DelKeeps
<1>14. ASSUME Reads!EnqueueNotifications
       PROVE  ReadsInv'
  <2>1. /\ plan["bulk"] # <<>> /\ Head(plan["bulk"]).op = "notify"
        /\ plan' = [plan EXCEPT !["bulk"] = Tail(plan["bulk"])]
        /\ UNCHANGED <<rowVersion, cached, reading>>
    BY <1>0, <1>14 DEF Reads!EnqueueNotifications, Reads!DoNext
  <2>2. /\ cached' \in [CacheKeys -> CacheEntry]
        /\ \A k \in CacheKeys : cached'[k] = cached[k]
    BY <1>0, <2>1
  <2> QED
    BY <1>0, <2>1, <2>2, DelKeeps
<1> QED
  BY <1>1, <1>2, <1>3, <1>4, <1>5, <1>6, <1>7, <1>8, <1>9, <1>10, <1>11, <1>12, <1>13, <1>14
     DEF Reads!ReadsNext, Reads!Writers, AllWriters

(* Only a reader that stored late, a deletion that Redis refused or a writer*)
(* that does not delete the key leaves what the row was before in the cache *)
(* beyond the deletions under way, whatever the readers, the writers and the*)
(* deletions that come between.                                             *)
THEOREM AlwaysFreshUnlessLate ==
    ASSUME CacheKeys \subseteq {"market", "markets", "stats", "platform"}
    PROVE  PartsSpec => []FreshUnlessLate
<1>0. CacheKeys \subseteq AllKeys
  BY DEF AllKeys
<1>1. PartsInit => ReadsInv
  <2>1. PartsInit => Reads!ReadsInit
    BY DEF PartsInit
  <2> QED
    BY <2>1, ReadsInvInit
<1>2. ReadsInv /\ [PartsNext]_variables => ReadsInv'
  BY <1>0, ReadsInvStep, OneAtATime
<1>3. ReadsInv => FreshUnlessLate
  BY DEF ReadsInv, StaleIsPending, FreshUnlessLate, Reads!FreshUnlessLate, Reads!Writers,
         AllWriters
<1> QED
  BY <1>1, <1>2, <1>3, PTL DEF PartsSpec

-----------------------------------------------------------------------------
(* The limiter of the activity feed *)

Ticks == 0..MaxTime
Sent(f, S) == SumFunctionOnSet(f, S)
Begin == counts.resetAt - WindowTicks

FeedTypeOK ==
    /\ time \in Ticks
    /\ counts \in [count : 0..RateCap, resetAt : Nat]
    /\ allowed \in [Ticks -> Nat]

(* The entry counts what was sent since it began, with the event that       *)
(* began it; in the window before it, less than the limit was sent up to    *)
(* there.                                                                   *)
EntryCounts ==
    /\ \A u \in Ticks : u >= counts.resetAt => allowed[u] = 0
    /\ counts.resetAt # 0 =>
          /\ Begin \in 0..time
          /\ allowed[Begin] >= 1
          /\ Sent(allowed, Begin..MaxTime) = counts.count
          /\ \A t \in 0..(Begin - 1) :
                t + WindowTicks > Begin => Sent(allowed, t..(Begin - 1)) < RateCap

(* What any window carries, in terms of sums that are the same in every     *)
(* module.                                                                  *)
Bounded ==
    \A t \in 0..(MaxTime + 1 - WindowTicks) :
        Sent(allowed, t..(t + WindowTicks - 1)) < 2 * RateCap

Admitted == subscriptions \subseteq connected \cap authenticated

FeedInv == FeedTypeOK /\ EntryCounts /\ Bounded /\ Admitted

LEMMA SameSum == \A f, S : Feed!SumFunctionOnSet(f, S) = SumFunctionOnSet(f, S)
  BY Zenon DEF Feed!SumFunctionOnSet, Feed!FoldFunctionOnSet, Feed!MapThenFoldSet,
               SumFunctionOnSet, FoldFunctionOnSet, MapThenFoldSet

(* Parts of the clock are finite, and what is sent in them is counted.      *)
LEMMA SentTyped ==
    ASSUME MaxTime \in Nat, NEW f \in [Ticks -> Nat], NEW S \in SUBSET Ticks
    PROVE  /\ IsFiniteSet(S) /\ Sent(f, S) \in Nat
           /\ \A u \in S : f[u] \in Nat /\ f[u] \in Int
<1>1. 0 \in Int /\ MaxTime \in Int
  OBVIOUS
<1>2. IsFiniteSet(0..MaxTime)
  BY <1>1, FS_Interval
<1>3. IsFiniteSet(S)
  BY <1>2, FS_Subset DEF Ticks
<1>4. \A u \in S : f[u] \in Nat /\ f[u] \in Int
  OBVIOUS
<1>5. Sent(f, S) \in Nat
  BY <1>3, <1>4, SumAtLeast DEF Sent
<1> QED
  BY <1>3, <1>4, <1>5

(* What was sent in two parts of a stretch is no more than in all of it.    *)
LEMMA SentApart ==
    ASSUME MaxTime \in Nat, NEW f \in [Ticks -> Nat],
           NEW R \in SUBSET Ticks, NEW S \in SUBSET Ticks, R \cap S = {}
    PROVE  Sent(f, R \cup S) = Sent(f, R) + Sent(f, S)
<1>1. /\ IsFiniteSet(R) /\ IsFiniteSet(S)
      /\ \A u \in R \cup S : f[u] \in Int
  BY SentTyped
<1> QED
  BY <1>1, SumUnion DEF Sent

LEMMA SentWithin ==
    ASSUME MaxTime \in Nat, NEW f \in [Ticks -> Nat],
           NEW S \in SUBSET Ticks, NEW R \in SUBSET S
    PROVE  Sent(f, R) <= Sent(f, S)
<1>1. IsFiniteSet(S) /\ \A u \in S : f[u] \in Nat
  BY SentTyped
<1> QED
  BY <1>1, SumSubset DEF Sent

LEMMA SentOne ==
    ASSUME MaxTime \in Nat, NEW f \in [Ticks -> Nat], NEW u \in Ticks
    PROVE  Sent(f, {u}) = f[u]
<1>1. /\ IsFiniteSet({u}) /\ \A x \in {u} : f[x] \in Int
      /\ {u} \in SUBSET {u} /\ u \in {u} /\ {u} \ {u} = {}
  <2>1. {u} \in SUBSET Ticks /\ {u} \in SUBSET {u} /\ u \in {u} /\ {u} \ {u} = {}
    OBVIOUS
  <2> QED
    BY <2>1, SentTyped
<1>2. SumFunctionOnSet(f, {u}) = f[u] + SumFunctionOnSet(f, {u} \ {u})
  BY <1>1, SumRemove
<1>3. SumFunctionOnSet(f, {u} \ {u}) = 0
  BY <1>1, SumEmpty
<1>4. f[u] + 0 = f[u]
  BY <1>1
<1> QED
  BY <1>2, <1>3, <1>4 DEF Sent

(* An event more at u.                                                      *)
LEMMA SentMore ==
    ASSUME MaxTime \in Nat, allowed \in [Ticks -> Nat], NEW u \in Ticks,
           NEW more, more = [allowed EXCEPT ![u] = @ + 1], NEW S \in SUBSET Ticks
    PROVE  /\ u \in S => Sent(more, S) = Sent(allowed, S) + 1
           /\ u \notin S => Sent(more, S) = Sent(allowed, S)
<1>1. /\ IsFiniteSet(S) /\ Sent(allowed, S) \in Nat
      /\ \A x \in S : allowed[x] \in Int
  BY SentTyped
<1>2. /\ \A x \in S : allowed[x] \in Int /\ more[x] \in Int
      /\ \A x \in S \ {u} : allowed[x] = more[x]
      /\ more[u] = allowed[u] + 1 /\ allowed[u] \in Int
  OBVIOUS
<1>3. ASSUME u \in S
      PROVE  Sent(more, S) = Sent(allowed, S) + 1
  <2>1. Sent(more, S) = SumFunctionOnSet(allowed, S) - allowed[u] + more[u]
    BY ONLY <1>1, <1>2, <1>3, SumUpdate DEF Sent
  <2>2. Sent(more, S) = Sent(allowed, S) - allowed[u] + (allowed[u] + 1)
    BY <1>2, <2>1 DEF Sent
  <2> QED
    BY <1>1, <1>2, <2>2
<1>4. ASSUME u \notin S
      PROVE  Sent(more, S) = Sent(allowed, S)
  <2>1. \A x \in S : allowed[x] \in Int /\ allowed[x] = more[x]
    BY <1>2, <1>4
  <2>2. SumFunctionOnSet(allowed, S) = SumFunctionOnSet(more, S)
    BY ONLY <1>1, <2>1, SumCongruence DEF Sent
  <2> QED
    BY <2>2 DEF Sent
<1> QED
  BY <1>3, <1>4

(* A window that the entry has begun in, or begins in, carries less than    *)
(* twice the limit: what was sent before the entry began is less than the   *)
(* limit, and what was sent since is no more.                               *)
LEMMA WindowBounded ==
    ASSUME MaxTime \in Nat, WindowTicks \in Nat \ {0}, RateCap \in Nat \ {0},
           NEW f \in [Ticks -> Nat], NEW b \in Ticks, NEW count \in 0..RateCap,
           Sent(f, b..MaxTime) = count,
           \A u \in 0..(b - 1) : u + WindowTicks > b => Sent(f, u..(b - 1)) < RateCap,
           NEW t \in 0..(MaxTime + 1 - WindowTicks), b < t + WindowTicks
    PROVE  Sent(f, t..(t + WindowTicks - 1)) < 2 * RateCap
<1> DEFINE last == t + WindowTicks - 1
<1>1. t \in Nat /\ last \in Nat /\ t <= last /\ last <= MaxTime
  OBVIOUS
<1>2. b \in Nat /\ b <= last /\ b <= MaxTime /\ count \in Nat /\ count <= RateCap
  BY <1>1 DEF Ticks
<1>3. /\ t..last \in SUBSET Ticks /\ b..MaxTime \in SUBSET Ticks
      /\ b..last \in SUBSET Ticks /\ b..last \in SUBSET (b..MaxTime)
  BY <1>1, <1>2 DEF Ticks
<1>4. Sent(f, b..last) \in Nat /\ Sent(f, b..last) <= RateCap /\ Sent(f, t..last) \in Nat
  <2>1. Sent(f, b..last) <= Sent(f, b..MaxTime)
    BY <1>2, <1>3, SentWithin
  <2>2. Sent(f, b..last) \in Nat /\ Sent(f, t..last) \in Nat
    BY <1>2, <1>3, SentTyped
  <2> QED
    BY <1>2, <2>1, <2>2
<1>5. CASE t >= b
  <2>1. t..last \in SUBSET (b..last)
    BY <1>1, <1>2, <1>5
  <2>2. Sent(f, t..last) <= Sent(f, b..last)
    BY <1>2, <1>3, <2>1, SentWithin
  <2> QED
    BY <1>4, <2>2
<1>6. CASE t < b
  <2>1. /\ t..last = (t..(b - 1)) \cup (b..last)
        /\ (t..(b - 1)) \cap (b..last) = {}
        /\ t..(b - 1) \in SUBSET Ticks
        /\ t \in 0..(b - 1)
    BY <1>1, <1>2, <1>6 DEF Ticks
  <2>2. Sent(f, t..last) = Sent(f, t..(b - 1)) + Sent(f, b..last)
    <3>1. Sent(f, (t..(b - 1)) \cup (b..last)) = Sent(f, t..(b - 1)) + Sent(f, b..last)
      BY <1>2, <1>3, <2>1, SentApart
    <3> QED
      BY <2>1, <3>1
  <2>3. Sent(f, t..(b - 1)) < RateCap /\ Sent(f, t..(b - 1)) \in Nat
    BY <1>2, <2>1, SentTyped
  <2> QED
    BY <1>4, <2>2, <2>3
<1> QED
  BY <1>1, <1>2, <1>5, <1>6

(* An event of an entry that goes on.                                       *)
LEMMA EntryGoesOn ==
    ASSUME MaxTime \in Nat, WindowTicks \in Nat \ {0}, RateCap \in Nat \ {0}, FeedInv,
           time < counts.resetAt, counts.count < RateCap,
           counts' = [counts EXCEPT !.count = @ + 1],
           allowed' = [allowed EXCEPT ![time] = @ + 1], time' = time
    PROVE  FeedTypeOK' /\ EntryCounts'
<1>1. /\ time \in Ticks /\ time \in Nat /\ time <= MaxTime
      /\ counts \in [count : 0..RateCap, resetAt : Nat]
      /\ allowed \in [Ticks -> Nat] /\ EntryCounts /\ counts.resetAt # 0
  BY DEF FeedInv, FeedTypeOK, Ticks
<1>2. /\ counts'.count = counts.count + 1 /\ counts'.resetAt = counts.resetAt
      /\ counts' \in [count : 0..RateCap, resetAt : Nat]
      /\ allowed' \in [Ticks -> Nat]
      /\ \A u \in Ticks : u # time => allowed'[u] = allowed[u]
      /\ allowed'[time] = allowed[time] + 1 /\ allowed[time] \in Nat
  BY <1>1
<1>3. FeedTypeOK'
  BY <1>1, <1>2 DEF FeedTypeOK
<1>4. PICK b \in Int : b = Begin
  BY <1>1 DEF Begin
<1>5. /\ Begin' = b /\ b \in 0..time /\ b \in Ticks
      /\ Sent(allowed, b..MaxTime) = counts.count /\ allowed[b] >= 1
      /\ \A t \in 0..(b - 1) : t + WindowTicks > b => Sent(allowed, t..(b - 1)) < RateCap
  BY <1>1, <1>2, <1>4 DEF EntryCounts, Begin, Ticks
<1>6. Sent(allowed', b..MaxTime) = counts.count + 1
  <2>1. b..MaxTime \in SUBSET Ticks /\ time \in b..MaxTime
    BY <1>1, <1>5 DEF Ticks
  <2> QED
    BY <1>1, <1>5, <2>1, SentMore
<1>7. \A t \in 0..(b - 1) : t + WindowTicks > b => Sent(allowed', t..(b - 1)) < RateCap
  <2> SUFFICES ASSUME NEW t \in 0..(b - 1), t + WindowTicks > b
               PROVE  Sent(allowed', t..(b - 1)) < RateCap
    OBVIOUS
  <2>1. t..(b - 1) \in SUBSET Ticks /\ time \notin t..(b - 1)
    BY <1>1, <1>5, SMTT(20) DEF Ticks
  <2>2. Sent(allowed', t..(b - 1)) = Sent(allowed, t..(b - 1))
    BY <1>1, <2>1, SentMore
  <2> QED
    BY <1>5, <2>2
<1>8. allowed'[b] >= 1
  BY <1>1, <1>2, <1>5
<1>9. \A u \in Ticks : u >= counts'.resetAt => allowed'[u] = 0
  BY <1>1, <1>2 DEF EntryCounts
<1> QED
  BY <1>2, <1>3, <1>5, <1>6, <1>7, <1>8, <1>9 DEF EntryCounts

(* An event that begins an entry.  Of the window before it, the event that  *)
(* began the entry before is not in the new entry's windows.                *)
LEMMA EntryBegins ==
    ASSUME MaxTime \in Nat, WindowTicks \in Nat \ {0}, RateCap \in Nat \ {0}, FeedInv,
           time >= counts.resetAt,
           counts' = [count |-> 1, resetAt |-> time + WindowTicks],
           allowed' = [allowed EXCEPT ![time] = @ + 1], time' = time
    PROVE  FeedTypeOK' /\ EntryCounts'
<1>1. /\ time \in Ticks /\ time \in Nat /\ time <= MaxTime
      /\ counts \in [count : 0..RateCap, resetAt : Nat]
      /\ allowed \in [Ticks -> Nat] /\ EntryCounts
      /\ \A u \in Ticks : u >= time => allowed[u] = 0
  BY DEF FeedInv, FeedTypeOK, Ticks, EntryCounts
<1>2. /\ counts'.count = 1 /\ counts'.resetAt = time + WindowTicks
      /\ counts'.resetAt # 0
      /\ counts' \in [count : 0..RateCap, resetAt : Nat]
      /\ allowed' \in [Ticks -> Nat]
      /\ \A u \in Ticks : u # time => allowed'[u] = allowed[u]
      /\ allowed'[time] = 1
  BY <1>1
<1>3. FeedTypeOK'
  BY <1>1, <1>2 DEF FeedTypeOK
<1>4. Begin' = time /\ time \in 0..time
  BY <1>1, <1>2 DEF Begin
<1>5. Sent(allowed', time..MaxTime) = 1
  <2>1. time..MaxTime \in SUBSET Ticks /\ time \in time..MaxTime
    BY <1>1 DEF Ticks
  <2>2. Sent(allowed, time..MaxTime) = 0
    <3>1. IsFiniteSet(time..MaxTime) /\ \A u \in time..MaxTime : allowed[u] = 0
      BY <1>1, <2>1, SentTyped
    <3> QED
      BY <3>1, SumZero DEF Sent
  <2>3. Sent(allowed', time..MaxTime) = Sent(allowed, time..MaxTime) + 1
    BY <1>1, <2>1, SentMore
  <2> QED
    BY <2>2, <2>3
<1>6. ASSUME NEW t \in 0..(time - 1), t + WindowTicks > time
      PROVE  Sent(allowed', t..(time - 1)) < RateCap
  <2>1. t..(time - 1) \in SUBSET Ticks /\ time \notin t..(time - 1)
    BY <1>1 DEF Ticks
  <2>2. Sent(allowed', t..(time - 1)) = Sent(allowed, t..(time - 1))
    BY <1>1, <2>1, SentMore
  <2>3. CASE counts.resetAt = 0
    <3>1. IsFiniteSet(t..(time - 1)) /\ \A u \in t..(time - 1) : allowed[u] = 0
      BY <1>1, <2>1, <2>3, SentTyped DEF EntryCounts, Ticks
    <3>2. Sent(allowed, t..(time - 1)) = 0
      BY <3>1, SumZero DEF Sent
    <3> QED
      BY <2>2, <3>2
  <2>4. CASE counts.resetAt # 0
    <3>1. /\ Begin \in Nat /\ Begin < t /\ Begin \in Ticks
          /\ allowed[Begin] >= 1 /\ allowed[Begin] \in Nat
          /\ Sent(allowed, Begin..MaxTime) = counts.count
          /\ counts.count \in Nat /\ counts.count <= RateCap
      BY SMTT(30), <1>1, <1>6, <2>4 DEF EntryCounts, Begin, Ticks
    <3>2. /\ {Begin} \in SUBSET Ticks /\ {Begin} \cap (t..(time - 1)) = {}
          /\ {Begin} \cup (t..(time - 1)) \in SUBSET (Begin..MaxTime)
          /\ Begin..MaxTime \in SUBSET Ticks
      BY <1>1, <3>1 DEF Ticks
    <3>3. Sent(allowed, {Begin} \cup (t..(time - 1)))
            = Sent(allowed, {Begin}) + Sent(allowed, t..(time - 1))
      BY <1>1, <2>1, <3>2, SentApart
    <3>4. Sent(allowed, {Begin} \cup (t..(time - 1))) <= counts.count
      BY <1>1, <3>1, <3>2, SentWithin, SMTT(20)
    <3>5. Sent(allowed, {Begin}) = allowed[Begin] /\ Sent(allowed, t..(time - 1)) \in Nat
      BY <1>1, <2>1, <3>1, SentOne, SentTyped
    <3> QED
      BY <2>2, <3>1, <3>3, <3>4, <3>5
  <2> QED
    BY <2>3, <2>4
<1>7. \A u \in Ticks : u >= counts'.resetAt => allowed'[u] = 0
  BY <1>1, <1>2 DEF Ticks
<1>8. /\ Begin' \in 0..time' /\ allowed'[Begin'] >= 1
      /\ Sent(allowed', Begin'..MaxTime) = counts'.count
      /\ \A t \in 0..(Begin' - 1) :
            t + WindowTicks > Begin' => Sent(allowed', t..(Begin' - 1)) < RateCap
  <2>1. \A t \in 0..(time - 1) :
           t + WindowTicks > time => Sent(allowed', t..(time - 1)) < RateCap
    BY <1>6
  <2>2. /\ time \in 0..time' /\ allowed'[time] >= 1
        /\ Sent(allowed', time..MaxTime) = counts'.count
    BY <1>1, <1>2, <1>5
  <2> HIDE DEF Begin, Sent
  <2> QED
    BY <1>4, <2>1, <2>2, Zenon
<1> QED
  BY <1>2, <1>3, <1>7, <1>8 DEF EntryCounts

LEMMA FeedInvInit ==
    ASSUME MaxTime \in Nat, WindowTicks \in Nat \ {0}, RateCap \in Nat \ {0}
    PROVE  Feed!FeedInit => FeedInv
<1> SUFFICES ASSUME Feed!FeedInit
             PROVE  FeedInv
  OBVIOUS
<1>1. /\ time = 0 /\ counts = [count |-> 0, resetAt |-> 0]
      /\ allowed = [t \in Ticks |-> 0] /\ subscriptions = {}
  BY DEF Feed!FeedInit, Feed!NoEntry, Ticks
<1>2. FeedTypeOK /\ EntryCounts /\ Admitted
  BY <1>1 DEF FeedTypeOK, EntryCounts, Admitted, Ticks
<1>3. Bounded
  <2> SUFFICES ASSUME NEW t \in 0..(MaxTime + 1 - WindowTicks)
               PROVE  Sent(allowed, t..(t + WindowTicks - 1)) < 2 * RateCap
    BY DEF Bounded
  <2>1. t..(t + WindowTicks - 1) \in SUBSET Ticks
    BY DEF Ticks
  <2>2. /\ IsFiniteSet(t..(t + WindowTicks - 1))
        /\ \A u \in t..(t + WindowTicks - 1) : allowed[u] = 0
    BY <1>1, <1>2, <2>1, SentTyped DEF FeedTypeOK
  <2>3. Sent(allowed, t..(t + WindowTicks - 1)) = 0
    BY <2>2, SumZero DEF Sent
  <2> QED
    BY <2>3
<1> QED
  BY <1>2, <1>3 DEF FeedInv

LEMMA PublishKeeps ==
    ASSUME MaxTime \in Nat, WindowTicks \in Nat \ {0}, RateCap \in Nat \ {0}, FeedInv,
           Feed!Publish
    PROVE  FeedInv'
<1>1. /\ time \in Ticks /\ time \in Nat /\ time <= MaxTime
      /\ counts \in [count : 0..RateCap, resetAt : Nat]
      /\ allowed \in [Ticks -> Nat]
  BY DEF FeedInv, FeedTypeOK, Ticks
<1>2. UNCHANGED <<time, connected, authenticated, subscriptions>>
  BY DEF Feed!Publish
<1>3. Admitted'
  BY <1>2 DEF FeedInv, Admitted
<1>4. CASE UNCHANGED <<counts, allowed>>
  BY <1>2, <1>3, <1>4 DEF FeedInv, FeedTypeOK, EntryCounts, Bounded, Begin
<1>5. CASE ~UNCHANGED <<counts, allowed>>
  <2>1. /\ allowed' = [allowed EXCEPT ![time] = @ + 1] /\ time' = time
        /\ FeedTypeOK' /\ EntryCounts' /\ counts'.resetAt # 0 /\ time < counts'.resetAt
    <3>1. CASE time >= counts.resetAt
      <4>1. Feed!Entry = [count |-> 0, resetAt |-> time + WindowTicks]
        BY <3>1 DEF Feed!Entry
      <4>2. Feed!Entry.count = 0
        BY <4>1
      <4>3. Feed!Allows
        BY <4>2 DEF Feed!Allows
      <4>4. /\ counts' = [Feed!Entry EXCEPT !.count = @ + 1]
            /\ allowed' = [allowed EXCEPT ![time] = @ + 1]
        BY <4>3 DEF Feed!Publish
      <4>5. counts' = [count |-> 1, resetAt |-> time + WindowTicks]
        BY <4>1, <4>4
      <4>6. FeedTypeOK' /\ EntryCounts'
        BY <1>2, <3>1, <4>4, <4>5, EntryBegins
      <4>7. counts'.resetAt = time + WindowTicks
        BY <4>5
      <4>8. counts'.resetAt # 0 /\ time < counts'.resetAt
        BY <1>1, <4>7
      <4> QED
        BY <1>2, <4>4, <4>6, <4>8
    <3>2. CASE time < counts.resetAt
      <4>1. Feed!Entry = counts
        BY <1>1, <3>2 DEF Feed!Entry
      <4>2. /\ counts.count < RateCap
            /\ counts' = [counts EXCEPT !.count = @ + 1]
            /\ allowed' = [allowed EXCEPT ![time] = @ + 1]
        BY <1>5, <4>1 DEF Feed!Publish, Feed!Allows
      <4> QED
        BY <1>1, <1>2, <3>2, <4>2, EntryGoesOn
    <3> QED
      BY <1>1, <3>1, <3>2
  <2>2. Bounded'
    <3> SUFFICES ASSUME NEW t \in 0..(MaxTime + 1 - WindowTicks)
                 PROVE  Sent(allowed', t..(t + WindowTicks - 1)) < 2 * RateCap
      BY DEF Bounded
    <3>1. CASE time \in t..(t + WindowTicks - 1)
      <4>1. PICK b \in Int : b = Begin'
        BY <2>1 DEF Begin, FeedTypeOK
      <4>2. /\ b < t + WindowTicks /\ b \in Ticks /\ counts'.count \in 0..RateCap
            /\ Sent(allowed', b..MaxTime) = counts'.count
            /\ \A u \in 0..(b - 1) : u + WindowTicks > b => Sent(allowed', u..(b - 1)) < RateCap
            /\ allowed' \in [Ticks -> Nat]
        <5>1. /\ Begin' \in 0..time' /\ Sent(allowed', Begin'..MaxTime) = counts'.count
              /\ \A u \in 0..(Begin' - 1) :
                    u + WindowTicks > Begin' => Sent(allowed', u..(Begin' - 1)) < RateCap
          BY <2>1 DEF EntryCounts
        <5>2. counts'.count \in 0..RateCap /\ allowed' \in [Ticks -> Nat]
          BY <2>1 DEF FeedTypeOK
        <5>3. b \in 0..time
          BY <2>1, <4>1, <5>1
        <5>4. b \in Ticks /\ b < t + WindowTicks
          BY <1>1, <3>1, <5>3 DEF Ticks
        <5> QED
          BY <4>1, <5>1, <5>2, <5>4
      <4> QED
        BY <2>1, <4>1, <4>2, WindowBounded
    <3>2. CASE time \notin t..(t + WindowTicks - 1)
      <4>1. t..(t + WindowTicks - 1) \in SUBSET Ticks
        BY DEF Ticks
      <4>2. Sent(allowed', t..(t + WindowTicks - 1)) = Sent(allowed, t..(t + WindowTicks - 1))
        BY <1>1, <2>1, <3>2, <4>1, SentMore
      <4> QED
        BY <4>2 DEF FeedInv, Bounded
    <3> QED
      BY <3>1, <3>2
  <2> QED
    BY <1>3, <2>1, <2>2 DEF FeedInv
<1> QED
  BY <1>4, <1>5

LEMMA FeedInvStep ==
    ASSUME MaxTime \in Nat, WindowTicks \in Nat \ {0}, RateCap \in Nat \ {0}
    PROVE  FeedInv /\ [Feed!FeedNext]_feedVars => FeedInv'
<1> SUFFICES ASSUME FeedInv, [Feed!FeedNext]_feedVars
             PROVE  FeedInv'
  OBVIOUS
<1>1. CASE Feed!Publish
  BY <1>1, PublishKeeps
<1>2. CASE Feed!Advance
  <2>1. /\ time' = time + 1 /\ time < MaxTime
        /\ UNCHANGED <<connected, authenticated, subscriptions, counts, allowed>>
    BY <1>2 DEF Feed!Advance
  <2>2. FeedTypeOK' /\ Bounded' /\ Admitted'
    BY <2>1 DEF FeedInv, FeedTypeOK, Bounded, Admitted, Ticks
  <2>3. EntryCounts'
    <3>1. time \in Nat /\ time' \in Nat /\ time <= time' /\ Begin' = Begin
      BY <2>1 DEF FeedInv, FeedTypeOK, Ticks, Begin
    <3>2. Begin \in 0..time => Begin \in 0..time'
      BY <3>1
    <3> QED
      BY <2>1, <3>1, <3>2 DEF FeedInv, EntryCounts
  <2> QED
    BY <2>2, <2>3 DEF FeedInv
<1>3. ASSUME NEW s \in Sockets,
             Feed!Connection(s) \/ Feed!HandleMessage(s) \/ Feed!RemoveSocket(s)
      PROVE  FeedInv'
  <2>1. UNCHANGED <<time, counts, allowed>> /\ Admitted'
    BY <1>3 DEF Feed!Connection, Feed!HandleMessage, Feed!RemoveSocket, FeedInv, Admitted
  <2> QED
    BY <2>1 DEF FeedInv, FeedTypeOK, EntryCounts, Bounded, Begin
<1>4. CASE UNCHANGED feedVars
  BY <1>4 DEF feedVars, FeedInv, FeedTypeOK, EntryCounts, Bounded, Admitted, Begin
<1> QED
  BY <1>1, <1>2, <1>3, <1>4 DEF Feed!FeedNext

(* However events and windows fall, any stretch of time as long as a window *)
(* carries fewer than twice the limit of events, and only open sockets that *)
(* showed a token are sent them: for every limit and every window.          *)
THEOREM AlwaysBurstBounded ==
    ASSUME MaxTime \in Nat, WindowTicks \in Nat \ {0}, RateCap \in Nat \ {0}
    PROVE  PartsSpec => []BurstBounded
<1>1. PartsInit => FeedInv
  <2>1. PartsInit => Feed!FeedInit
    BY DEF PartsInit
  <2> QED
    BY <2>1, FeedInvInit
<1>2. FeedInv /\ [PartsNext]_variables => FeedInv'
  BY FeedInvStep, OneAtATime
<1>3. FeedInv => BurstBounded
  <2> SUFFICES ASSUME FeedInv
               PROVE  BurstBounded
    OBVIOUS
  <2>1. \A W \in Feed!Windows : Sent(allowed, W) < 2 * RateCap
    BY DEF FeedInv, Bounded, Feed!Windows
  <2>2. \A W \in Feed!Windows : Feed!SumFunctionOnSet(allowed, W) < 2 * RateCap
    BY <2>1, SameSum DEF Sent
  <2> QED
    BY <2>2 DEF FeedInv, Admitted, BurstBounded, Feed!BurstBounded
<1> QED
  BY <1>1, <1>2, <1>3, PTL DEF PartsSpec

-----------------------------------------------------------------------------
(* The invoice indexer *)

RowStatuses == InvoiceStatuses \cup {"Pending", "none"}
Happenings == {Poller!Event(v, s) : v \in Invoices, s \in InvoiceStatuses \cup {"Pending"}}
Row == [status : RowStatuses, details : BOOLEAN]

(* The file names a ledger.                                                 *)
Kept(file) == file # 0 /\ file # MaxLedgers + 1

PollerTypeOK ==
    /\ ledgers \in Seq(Happenings \cup {Poller!Empty}) /\ Len(ledgers) <= MaxLedgers
    /\ invoices \in [Invoices -> Row]
    /\ since \in Nat \ {0}
    /\ cursor \in 0..Len(ledgers) /\ cursorFile \in Nat
    /\ Kept(cursorFile) => cursorFile \in 0..Len(ledgers)
    /\ mode \in {"start", "poll", "request", "process", "save"}

(* The file is never ahead of the process, which is never ahead of the page *)
(* it works on.                                                             *)
InOrder ==
    /\ mode = "start" => cursor = 0
    /\ mode # "start" /\ Kept(cursorFile) => cursorFile <= cursor
    /\ mode = "request" => cursor = 0 /\ batch[1] \in Nat \ {0}
    /\ mode = "process" =>
          /\ batch[1] \in Nat \ {0} /\ batch[2] \in 1..Len(ledgers)
          /\ batch[1] <= batch[2] + 1 /\ cursor < batch[1]
    /\ mode = "save" => cursor # 0

(* The last event of v up to p is at k.                                     *)
LastAt(v, k, p) ==
    /\ k \in since..p /\ ledgers[k] # Poller!Empty /\ ledgers[k].invoice = v
    /\ \A l \in since..p : ledgers[l] # Poller!Empty /\ ledgers[l].invoice = v => l <= k

(* The row of v says what the event at l made of it.                        *)
Says(v, l) == ledgers[l] # Poller!Empty /\ ledgers[l] = Poller!Event(v, invoices[v].status)

(* The table has been told of the events up to p: a row says what the last  *)
(* one of its invoice made of it, or a later one, and has the details that  *)
(* the first one brought.                                                   *)
Told(p) ==
    \A v \in Invoices :
        /\ \A k \in since..p : LastAt(v, k, p) /\ k \notin skipped =>
              \E l \in k..Len(ledgers) : Says(v, l)
        /\ \A l \in since..p :
              ledgers[l] = Poller!Event(v, "Pending") /\ l \notin skipped => invoices[v].details

(* Where the process stands: in its file, its cursor and its page.          *)
StandsAt(p) ==
    \/ Kept(cursorFile) /\ p = cursorFile
    \/ cursor # 0 /\ p = cursor
    \/ mode = "process" /\ p = batch[1] - 1

PollerInv == PollerTypeOK /\ InOrder /\ \A p \in Nat : StandsAt(p) => Told(p)

(* Where the process stands is a ledger that has closed.                    *)
LEMMA StandsWithin ==
    ASSUME PollerInv, NEW p \in Nat, StandsAt(p)
    PROVE  p <= Len(ledgers) /\ Told(p)
<1>1. Len(ledgers) \in Nat /\ Told(p)
  BY DEF PollerInv, PollerTypeOK
<1> QED
  BY <1>1 DEF PollerInv, PollerTypeOK, InOrder, StandsAt

(* Closing a ledger and passing over an event leave what has been told.     *)
LEMMA ToldStays ==
    ASSUME PollerInv, NEW p \in Nat, Told(p), p <= Len(ledgers),
           UNCHANGED <<invoices, since>>, skipped \subseteq skipped',
           Len(ledgers') \in Nat, Len(ledgers) <= Len(ledgers'),
           \A k \in 1..Len(ledgers) : ledgers'[k] = ledgers[k]
    PROVE  Told(p)'
<1>1. /\ since \in Nat \ {0} /\ Len(ledgers) \in Nat
      /\ \A k \in since..p : k \in 1..Len(ledgers) /\ ledgers'[k] = ledgers[k]
  BY DEF PollerInv, PollerTypeOK
<1> SUFFICES ASSUME NEW v \in Invoices
             PROVE  /\ \A k \in since..p : LastAt(v, k, p)' /\ k \notin skipped' =>
                          \E l \in k..Len(ledgers') : Says(v, l)'
                    /\ \A l \in since..p :
                          ledgers'[l] = Poller!Event(v, "Pending") /\ l \notin skipped'
                             => invoices[v].details
  BY DEF Told
<1>2. ASSUME NEW k \in since..p, LastAt(v, k, p)', k \notin skipped'
      PROVE  \E l \in k..Len(ledgers') : Says(v, l)'
  <2>1. LastAt(v, k, p)
    BY <1>1, <1>2 DEF LastAt
  <2>2. PICK l \in k..Len(ledgers) : Says(v, l)
    BY <1>2, <2>1 DEF Told
  <2>3. l \in 1..Len(ledgers) /\ l \in k..Len(ledgers')
    BY <1>1
  <2> QED
    BY <1>1, <2>2, <2>3 DEF Says
<1>3. ASSUME NEW l \in since..p, ledgers'[l] = Poller!Event(v, "Pending"), l \notin skipped'
      PROVE  invoices[v].details
  BY <1>1, <1>3 DEF Told
<1> QED
  BY <1>2, <1>3

(* An event that is processed, at j: its row says so, which is as late as   *)
(* anything told before, and j is told as well.                             *)
LEMMA ToldOneMore ==
    ASSUME PollerInv, NEW j \in 1..Len(ledgers),
           UNCHANGED <<ledgers, since, skipped>>,
           invoices' = IF ledgers[j] = Poller!Empty THEN invoices
                       ELSE [invoices EXCEPT ![ledgers[j].invoice] = Poller!Upsert(@, ledgers[j])],
           NEW p \in Nat, Told(p), p < j
    PROVE  /\ invoices' \in [Invoices -> Row]
           /\ Told(p)' /\ (p = j - 1 => Told(j)')
<1> DEFINE e == ledgers[j]
<1>1. /\ since \in Nat \ {0} /\ Len(ledgers) \in Nat /\ e \in Happenings \cup {Poller!Empty}
      /\ invoices \in [Invoices -> Row] /\ j \in Nat
  BY DEF PollerInv, PollerTypeOK
<1>2. CASE e = Poller!Empty
  <2>1. invoices' = invoices
    BY <1>2
  <2>2. Told(p)'
    BY <2>1 DEF Told, LastAt, Says
  <2>3. ASSUME p = j - 1
        PROVE  Told(j)'
    <3>1. \A v \in Invoices, k \in since..j : LastAt(v, k, j) => k \in since..p /\ LastAt(v, k, p)
      BY <1>1, <1>2, <2>3 DEF LastAt
    <3>2. \A v \in Invoices, l \in since..j :
              ledgers[l] = Poller!Event(v, "Pending") => l \in since..p
      BY <1>1, <1>2, <2>3 DEF Poller!Event, Poller!Empty
    <3> QED
      BY <2>1, <3>1, <3>2 DEF Told, LastAt, Says
  <2> QED
    BY <1>1, <2>1, <2>2, <2>3
<1>3. CASE e # Poller!Empty
  <2>1. PICK v \in Invoices, s \in InvoiceStatuses \cup {"Pending"} : e = Poller!Event(v, s)
    BY <1>1, <1>3 DEF Happenings
  <2>2. e.invoice = v /\ e.status = s
    BY <2>1 DEF Poller!Event
  <2>3. /\ invoices' = [invoices EXCEPT ![v] = Poller!Upsert(invoices[v], e)]
        /\ Poller!Upsert(invoices[v], e) =
             [status |-> s, details |-> invoices[v].details \/ s = "Pending"]
    BY <1>1, <1>3, <2>2 DEF Poller!Upsert
  <2>4. /\ invoices' \in [Invoices -> Row]
        /\ invoices'[v].status = s
        /\ invoices'[v].details <=> (invoices[v].details \/ s = "Pending")
        /\ \A w \in Invoices \ {v} : invoices'[w] = invoices[w]
    <3>1. invoices[v] \in Row /\ invoices[v].details \in BOOLEAN /\ s \in RowStatuses
      BY <1>1 DEF Row, RowStatuses
    <3>2. [status |-> s, details |-> invoices[v].details \/ s = "Pending"] \in Row
      BY <3>1 DEF Row
    <3> DEFINE new == [status |-> s, details |-> invoices[v].details \/ s = "Pending"]
    <3>3. new.status = s /\ (new.details <=> (invoices[v].details \/ s = "Pending"))
      OBVIOUS
    <3>4. new \in Row /\ invoices' = [invoices EXCEPT ![v] = new]
      BY <2>3, <3>2
    <3> HIDE DEF new
    <3>5. /\ invoices' \in [Invoices -> Row] /\ invoices'[v] = new
          /\ \A w \in Invoices \ {v} : invoices'[w] = invoices[w]
      BY <1>1, <3>4
    <3> QED
      BY <3>3, <3>5
  <2>5. ASSUME NEW q \in {p, j}, q = j => p = j - 1
        PROVE  Told(q)'
    <3> SUFFICES ASSUME NEW w \in Invoices
                 PROVE  /\ \A k \in since..q : LastAt(w, k, q) /\ k \notin skipped =>
                              \E l \in k..Len(ledgers) : Says(w, l)'
                        /\ \A l \in since..q :
                              ledgers[l] = Poller!Event(w, "Pending") /\ l \notin skipped
                                 => invoices'[w].details
      BY DEF Told, LastAt
    <3>1. ASSUME NEW k \in since..q, LastAt(w, k, q), k \notin skipped
          PROVE  \E l \in k..Len(ledgers) : Says(w, l)'
      <4>1. CASE w = v
        <5>1. Says(w, j)' /\ j \in k..Len(ledgers)
          BY <1>1, <1>3, <2>1, <2>4, <4>1 DEF Says
        <5> QED
          BY <5>1
      <4>2. CASE w # v
        <5>1. k \in since..p /\ LastAt(w, k, p)
          BY <1>1, <2>2, <2>5, <3>1, <4>2 DEF LastAt
        <5>2. invoices'[w] = invoices[w]
          BY <2>4, <4>2
        <5> QED
          BY <3>1, <5>1, <5>2 DEF Told, Says
      <4> QED
        BY <4>1, <4>2
    <3>2. ASSUME NEW l \in since..q, ledgers[l] = Poller!Event(w, "Pending"), l \notin skipped
          PROVE  invoices'[w].details
      <4>1. CASE l \in since..p
        <5>1. invoices[w].details
          BY <3>2, <4>1 DEF Told
        <5> QED
          BY <2>4, <5>1
      <4>2. CASE l \notin since..p
        <5>1. l = j
          BY <1>1, <2>5, <4>2
        <5>2. w = v /\ s = "Pending"
          BY <2>1, <3>2, <5>1 DEF Poller!Event
        <5> QED
          BY <2>4, <5>2
      <4> QED
        BY <4>1, <4>2
    <3> QED
      BY <3>1, <3>2
  <2> QED
    BY <2>4, <2>5
<1> QED
  BY <1>2, <1>3

LEMMA PollerInvInit ==
    ASSUME MaxLedgers \in Nat
    PROVE  Poller!PollerInit => PollerInv
<1> SUFFICES ASSUME Poller!PollerInit
             PROVE  PollerInv
  OBVIOUS
<1>1. /\ ledgers = <<>> /\ invoices = [v \in Invoices |-> Poller!NoRow]
      /\ cursorFile = 0 /\ mode = "start" /\ cursor = 0 /\ since = 1
  BY DEF Poller!PollerInit, Poller!None
<1>2. Poller!NoRow \in Row
  BY DEF Poller!NoRow, Row, RowStatuses
<1>3. PollerTypeOK
  <2>1. invoices \in [Invoices -> Row]
    BY <1>1, <1>2
  <2>2. <<>> \in Seq(Happenings \cup {Poller!Empty}) /\ Len(<<>>) = 0
    OBVIOUS
  <2> QED
    BY <1>1, <2>1, <2>2 DEF PollerTypeOK, Kept
<1> QED
  BY <1>1, <1>3 DEF PollerInv, InOrder, StandsAt, Kept

(* Every step keeps the file, the process and the table in order.           *)
LEMMA PollerInvStep ==
    ASSUME MaxLedgers \in Nat
    PROVE  PollerInv /\ [Poller!PollerNext]_pollerVars => PollerInv'
<1> SUFFICES ASSUME PollerInv, [Poller!PollerNext]_pollerVars
             PROVE  PollerInv'
  OBVIOUS
<1> USE DEF Kept
<1>0. /\ ledgers \in Seq(Happenings \cup {Poller!Empty}) /\ Len(ledgers) <= MaxLedgers
      /\ Len(ledgers) \in Nat
      /\ PollerTypeOK /\ InOrder
  BY DEF PollerInv, PollerTypeOK
(* A step that tells the table nothing: it stands where it stood, or where  *)
(* there is nothing to tell.                                                *)
<1>1. ASSUME PollerTypeOK', InOrder',
             UNCHANGED <<invoices, since>>, skipped \subseteq skipped',
             Len(ledgers) <= Len(ledgers'),
             \A k \in 1..Len(ledgers) : ledgers'[k] = ledgers[k],
             \A p \in Nat : StandsAt(p)' => StandsAt(p)
      PROVE  PollerInv'
  <2>1. ASSUME NEW p \in Nat, StandsAt(p)'
        PROVE  Told(p)'
    <3>1. p <= Len(ledgers) /\ Told(p)
      BY <1>1, <2>1, StandsWithin
    <3>2. Len(ledgers') \in Nat
      BY <1>1 DEF PollerTypeOK
    <3> QED
      BY <1>1, <3>1, <3>2, ToldStays
  <2> QED
    BY <1>1, <2>1 DEF PollerInv
<1>2. CASE Poller!CloseLedger
  <2>1. PICK e \in Happenings \cup {Poller!Empty} : ledgers' = Append(ledgers, e)
    <3>1. ASSUME NEW e \in {Poller!Empty}
                     \cup {Poller!Event(v, "Pending") :
                              v \in {w \in Invoices : ~Poller!Submitted(w)}}
                     \cup {Poller!Event(v, s) : v \in {w \in Invoices : Poller!Submitted(w)},
                                                s \in InvoiceStatuses}
          PROVE  e \in Happenings \cup {Poller!Empty}
      BY DEF Happenings
    <3> QED
      BY <1>2, <3>1 DEF Poller!CloseLedger
  <2>2. /\ UNCHANGED <<invoices, cursorFile, mode, cursor, batch, since, skipped>>
        /\ Len(ledgers) < MaxLedgers
    BY <1>2 DEF Poller!CloseLedger
  <2>3. /\ ledgers' \in Seq(Happenings \cup {Poller!Empty})
        /\ Len(ledgers') = Len(ledgers) + 1
        /\ \A k \in 1..Len(ledgers) : ledgers'[k] = ledgers[k]
    BY <1>0, <2>1
  <2>4. PollerTypeOK'
    BY <1>0, <2>2, <2>3 DEF PollerTypeOK
  <2>5. InOrder' /\ \A p \in Nat : StandsAt(p)' => StandsAt(p)
    BY <1>0, <2>2, <2>3 DEF InOrder, StandsAt
  <2> QED
    BY <1>0, <1>1, <2>2, <2>3, <2>4, <2>5
<1>3. CASE Poller!StartPoller
  <2>1. /\ mode = "start" /\ mode' = "poll"
        /\ cursor' = IF Kept(cursorFile) THEN cursorFile ELSE 0
        /\ UNCHANGED <<ledgers, invoices, cursorFile, batch, since, skipped>>
    BY <1>3 DEF Poller!StartPoller, Poller!GetCursor, Poller!None, Poller!Torn
  <2>2. PollerTypeOK' /\ InOrder'
    BY <1>0, <2>1 DEF PollerTypeOK, InOrder
  <2>3. \A p \in Nat : StandsAt(p)' => StandsAt(p)
    BY <2>1 DEF StandsAt
  <2> QED
    BY <1>0, <1>1, <2>1, <2>2, <2>3
<1>4. CASE Poller!GetLatestLedger \/ Poller!GetLatestLedgerFails
  <2>1. PICK from \in Nat \ {0} : batch' = <<from, 0>>
    BY <1>0, <1>4 DEF Poller!GetLatestLedger, Poller!GetLatestLedgerFails
  <2>2. /\ mode = "poll" /\ mode' = "request" /\ cursor = 0
        /\ UNCHANGED <<ledgers, invoices, cursorFile, cursor, since, skipped>>
    BY <1>4 DEF Poller!GetLatestLedger, Poller!GetLatestLedgerFails, Poller!None
  <2>3. PollerTypeOK' /\ InOrder'
    BY <1>0, <2>1, <2>2 DEF PollerTypeOK, InOrder
  <2>4. \A p \in Nat : StandsAt(p)' => StandsAt(p)
    BY <2>2 DEF StandsAt
  <2> QED
    BY <1>0, <1>1, <2>2, <2>3, <2>4
<1>5. CASE Poller!GetEvents
  <2> DEFINE from == IF cursor = 0 THEN batch[1] ELSE cursor + 1
  <2>1. /\ mode = "request" \/ (mode = "poll" /\ cursor # 0)
        /\ UNCHANGED <<ledgers, invoices, cursorFile, cursor, skipped>>
    BY <1>5 DEF Poller!GetEvents, Poller!None
  <2>2. from \in Nat \ {0} /\ (cursor # 0 => from = cursor + 1) /\ cursor < from
    BY <1>0, <2>1 DEF PollerTypeOK, InOrder
  <2>3. PICK to \in from..Len(ledgers) :
          IF Poller!Eventful(from, to)
          THEN /\ batch' = <<from, to>>
               /\ since' = IF cursor = 0 THEN from ELSE since
               /\ mode' = "process"
          ELSE mode' = "poll" /\ batch' = <<1, 0>> /\ UNCHANGED since
    BY <1>5 DEF Poller!GetEvents, Poller!None
  <2> HIDE DEF from
  <2>4. CASE Poller!Eventful(from, to)
    <3>1. /\ batch' = <<from, to>> /\ mode' = "process"
          /\ since' = IF cursor = 0 THEN from ELSE since
      BY <2>3, <2>4
    <3>2. to \in 1..Len(ledgers) /\ from <= to
      BY <1>0, <2>2
    <3>3. PollerTypeOK' /\ InOrder'
      BY <1>0, <2>1, <2>2, <3>1, <3>2 DEF PollerTypeOK, InOrder
    <3>4. CASE cursor # 0
      <4>1. since' = since
        BY <3>1, <3>4
      <4>2. \A p \in Nat : StandsAt(p)' => StandsAt(p)
        BY <1>0, <2>1, <2>2, <3>1, <3>4 DEF StandsAt, PollerTypeOK
      <4> QED
        BY <1>0, <1>1, <2>1, <3>3, <4>1, <4>2
    (* Without a cursor there is no file either: the page begins anew. *)
    <3>5. CASE cursor = 0
      <4>1. ASSUME NEW p \in Nat, StandsAt(p)'
            PROVE  p = from - 1
        <5>1. ~Kept(cursorFile)
          BY <1>0, <2>1, <3>5 DEF PollerTypeOK, InOrder
        <5> QED
          BY <2>1, <3>1, <3>5, <4>1, <5>1 DEF StandsAt
      <4>2. \A p \in Nat : p = from - 1 => Told(p)'
        <5>1. since' = from /\ \A p \in Nat : p = from - 1 => from..p = {}
          BY <2>2, <3>1, <3>5
        <5> QED
          BY <5>1 DEF Told
      <4> QED
        BY <3>3, <4>1, <4>2 DEF PollerInv
    <3> QED
      BY <3>4, <3>5
  <2>5. CASE ~Poller!Eventful(from, to)
    <3>1. mode' = "poll" /\ UNCHANGED since
      BY <2>3, <2>5
    <3>2. PollerTypeOK' /\ InOrder'
      BY <1>0, <2>1, <3>1 DEF PollerTypeOK, InOrder
    <3>3. \A p \in Nat : StandsAt(p)' => StandsAt(p)
      BY <2>1, <3>1 DEF StandsAt
    <3> QED
      BY <1>0, <1>1, <2>1, <3>1, <3>2, <3>3
  <2> QED
    BY <2>4, <2>5
<1>6. CASE Poller!ProcessEvent
  <2>1. /\ mode = "process" /\ batch[1] <= batch[2]
        /\ batch' = <<batch[1] + 1, batch[2]>>
        /\ UNCHANGED <<ledgers, cursorFile, mode, cursor, since>>
    BY <1>6 DEF Poller!ProcessEvent
  <2>2. PICK j \in 1..Len(ledgers) : j = batch[1]
    BY <1>0, <2>1 DEF InOrder
  <2>3. InOrder'
    BY <1>0, <2>1, <2>2 DEF PollerTypeOK, InOrder
  <2>4. \A p \in Nat : StandsAt(p)' => p = j \/ (StandsAt(p) /\ p < j)
    BY <1>0, <2>1, <2>2 DEF StandsAt, InOrder, PollerTypeOK
  <2>5. j - 1 \in Nat /\ StandsAt(j - 1) /\ Told(j - 1) /\ j \in Nat
    <3>1. j - 1 \in Nat /\ StandsAt(j - 1)
      BY <2>1, <2>2 DEF StandsAt
    <3> QED
      BY <3>1, StandsWithin
  <2>6. CASE /\ invoices' = IF ledgers[j] = Poller!Empty THEN invoices
                            ELSE [invoices EXCEPT
                                    ![ledgers[j].invoice] = Poller!Upsert(@, ledgers[j])]
             /\ UNCHANGED skipped
    <3>1. invoices' \in [Invoices -> Row] /\ Told(j)'
      <4>1. j - 1 < j
        BY <2>5
      <4> QED
        BY <2>1, <2>5, <2>6, <4>1, ToldOneMore
    <3>2. ASSUME NEW p \in Nat, StandsAt(p), p < j
          PROVE  Told(p)'
      BY <2>1, <2>6, <3>2, StandsWithin, ToldOneMore
    <3>3. PollerTypeOK'
      BY <1>0, <2>1, <3>1 DEF PollerTypeOK
    <3> QED
      BY <2>3, <2>4, <3>1, <3>2, <3>3 DEF PollerInv
  <2>7. CASE /\ skipped' = skipped \cup {j}
             /\ UNCHANGED invoices
    <3>1. PollerTypeOK'
      BY <1>0, <2>1, <2>7 DEF PollerTypeOK
    <3>2. ASSUME NEW p \in Nat, Told(p), p <= Len(ledgers)
          PROVE  Told(p)'
      BY <1>0, <2>1, <2>7, <3>2, ToldStays
    <3>3. Told(j)'
      <4>1. Told(j - 1)'
        BY <1>0, <2>5, <3>2
      <4>2. \A v \in Invoices, k \in since..j :
               LastAt(v, k, j) /\ k \notin skipped' => k \in since..(j - 1) /\ LastAt(v, k, j - 1)
        BY <1>0, <2>5, <2>7 DEF LastAt, PollerTypeOK
      <4>3. \A v \in Invoices, l \in since..j : l \notin skipped' => l \in since..(j - 1)
        BY <1>0, <2>5, <2>7 DEF PollerTypeOK
      <4> QED
        BY <2>1, <4>1, <4>2, <4>3 DEF Told, LastAt, Says
    <3> QED
      BY <2>3, <2>4, <3>1, <3>2, <3>3, StandsWithin DEF PollerInv
  <2> QED
    BY <1>6, <2>2, <2>6, <2>7 DEF Poller!ProcessEvent
<1>7. CASE Poller!AdvanceCursor
  <2>1. /\ mode = "process" /\ batch[1] > batch[2] /\ cursor' = batch[2] /\ mode' = "save"
        /\ UNCHANGED <<ledgers, invoices, cursorFile, batch, since, skipped>>
    BY <1>7 DEF Poller!AdvanceCursor, Poller!PageDone
  <2>2. batch[2] = batch[1] - 1 /\ batch[2] \in 1..Len(ledgers) /\ cursor <= batch[2]
    BY <1>0, <2>1 DEF InOrder, PollerTypeOK
  <2>3. PollerTypeOK' /\ InOrder'
    BY <1>0, <2>1, <2>2 DEF PollerTypeOK, InOrder
  <2>4. \A p \in Nat : StandsAt(p)' => StandsAt(p)
    BY <2>1, <2>2 DEF StandsAt
  <2> QED
    BY <1>0, <1>1, <2>1, <2>3, <2>4
<1>8. CASE Poller!SaveCursor \/ Poller!SaveCursorFails
  <2>1. /\ mode = "save" /\ mode' = "poll" /\ cursorFile' \in {cursor, cursorFile, MaxLedgers + 1}
        /\ UNCHANGED <<ledgers, invoices, cursor, since, skipped>>
    BY <1>8 DEF Poller!SaveCursor, Poller!SaveCursorFails, Poller!Torn
  <2>2. PollerTypeOK' /\ InOrder'
    BY <1>0, <2>1 DEF PollerTypeOK, InOrder
  <2>3. \A p \in Nat : StandsAt(p)' => StandsAt(p)
    BY <2>1 DEF StandsAt
  <2> QED
    BY <1>0, <1>1, <2>1, <2>2, <2>3
<1>9. CASE Poller!StopPoller
  <2>1. /\ mode' = "start" /\ cursor' = 0 /\ cursorFile' \in {cursorFile, MaxLedgers + 1}
        /\ UNCHANGED <<ledgers, invoices, since, skipped>>
    BY <1>9 DEF Poller!StopPoller, Poller!Torn, Poller!None
  <2>2. PollerTypeOK' /\ InOrder'
    BY <1>0, <2>1 DEF PollerTypeOK, InOrder
  <2>3. \A p \in Nat : StandsAt(p)' => StandsAt(p)
    BY <2>1 DEF StandsAt
  <2> QED
    BY <1>0, <1>1, <2>1, <2>2, <2>3
<1>10. CASE UNCHANGED pollerVars
  <2>1. UNCHANGED <<ledgers, invoices, cursorFile, mode, cursor, batch, since, skipped>>
    BY <1>10 DEF pollerVars
  <2>2. PollerTypeOK' /\ InOrder' /\ \A p \in Nat : StandsAt(p)' => StandsAt(p)
    BY <1>0, <2>1 DEF PollerTypeOK, InOrder, StandsAt
  <2> QED
    BY <1>0, <1>1, <2>1, <2>2
<1> QED
  BY <1>2, <1>3, <1>4, <1>5, <1>6, <1>7, <1>8, <1>9, <1>10
     DEF Poller!PollerNext, Poller!PollerStep

(* Latest is the last event there is.                                       *)
LEMMA LatestIsLast ==
    ASSUME PollerInv, NEW v \in Invoices, NEW p \in Nat, Poller!Latest(v, p) # 0
    PROVE  LastAt(v, Poller!Latest(v, p), p)
<1> DEFINE its == {k \in since..p : ledgers[k] # Poller!Empty /\ ledgers[k].invoice = v}
           dist == {p - k : k \in its}
<1>1. since \in Nat \ {0}
  BY DEF PollerInv, PollerTypeOK
<1>2. its # {} /\ Poller!Latest(v, p) = CHOOSE k \in its : \A l \in its : l <= k
  BY DEF Poller!Latest
<1>3. dist \in SUBSET Nat /\ dist # {}
  BY <1>1, <1>2
<1>4. PICK n \in dist : \A m \in dist : n <= m
  BY <1>3, LeastNat
<1>5. PICK k \in its : n = p - k
  BY <1>4
<1>6. \A l \in its : l <= k
  <2> SUFFICES ASSUME NEW l \in its
               PROVE  l <= k
    OBVIOUS
  <2>1. p - k <= p - l
    BY <1>4, <1>5
  <2> QED
    BY <1>1, <2>1
<1>7. Poller!Latest(v, p) \in its /\ \A l \in its : l <= Poller!Latest(v, p)
  <2> HIDE DEF its
  <2> QED
    BY <1>2, <1>5, <1>6
<1> QED
  BY <1>7 DEF LastAt

(* Once the process has caught up, the invoice table is what the events     *)
(* since the cursor began made of it, and the saved cursor is never ahead of*)
(* the table, wherever the process stopped, was told old events again, or   *)
(* found its file torn.                                                     *)
THEOREM AlwaysRowsCurrent ==
    ASSUME MaxLedgers \in Nat
    PROVE  PartsSpec => []RowsCurrent
<1>1. PartsInit => PollerInv
  <2>1. PartsInit => Poller!PollerInit
    BY DEF PartsInit
  <2> QED
    BY <2>1, PollerInvInit
<1>2. PollerInv /\ [PartsNext]_variables => PollerInv'
  BY PollerInvStep, OneAtATime
<1>3. PollerInv => RowsCurrent
  <2> SUFFICES ASSUME PollerInv
               PROVE  Poller!RowsCurrent /\ Poller!CursorHonest
    BY DEF RowsCurrent
  <2>0. /\ cursor \in Nat /\ cursorFile \in Nat /\ Len(ledgers) \in Nat /\ since \in Nat \ {0}
        /\ cursor <= Len(ledgers)
    BY DEF PollerInv, PollerTypeOK
  <2>1. Poller!CursorHonest
    <3> SUFFICES ASSUME cursorFile # 0, cursorFile # MaxLedgers + 1, NEW v \in Invoices,
                        Poller!Latest(v, cursorFile) # 0,
                        Poller!Latest(v, cursorFile) \notin skipped
                 PROVE  \E l \in Poller!Latest(v, cursorFile)..Len(ledgers) :
                           ledgers[l] = Poller!Event(v, invoices[v].status)
      BY DEF Poller!CursorHonest, Poller!None, Poller!Torn
    <3>1. Told(cursorFile)
      BY <2>0, StandsWithin DEF StandsAt, Kept
    <3>2. LastAt(v, Poller!Latest(v, cursorFile), cursorFile)
      BY <2>0, LatestIsLast
    <3>3. Poller!Latest(v, cursorFile) \in since..cursorFile
      BY <3>2 DEF LastAt
    <3> QED
      BY <3>1, <3>2, <3>3 DEF Told, Says
  <2>2. Poller!RowsCurrent
    <3> SUFFICES ASSUME cursor # 0, ~Poller!Eventful(cursor + 1, Len(ledgers)),
                        NEW v \in Invoices,
                        Poller!Latest(v, cursor) # 0, Poller!Latest(v, cursor) \notin skipped
                 PROVE  /\ invoices[v].status = ledgers[Poller!Latest(v, cursor)].status
                        /\ (\E l \in since..cursor :
                              ledgers[l] = Poller!Event(v, "Pending") /\ l \notin skipped)
                              => invoices[v].details
      BY DEF Poller!RowsCurrent, Poller!None
    <3>1. Told(cursor)
      BY <2>0, StandsWithin DEF StandsAt
    <3>2. LastAt(v, Poller!Latest(v, cursor), cursor)
      BY <2>0, LatestIsLast
    <3>3. PICK k \in since..cursor : k = Poller!Latest(v, cursor)
      BY <3>2 DEF LastAt
    <3>4. PICK l \in k..Len(ledgers) : Says(v, l)
      BY <3>1, <3>2, <3>3 DEF Told
    <3>5. ledgers[l].invoice = v /\ ledgers[l].status = invoices[v].status
      BY <3>4 DEF Says, Poller!Event
    (* Nothing after the cursor, and nothing of v after k. *)
    <3>6. l = k
      <4>1. l <= cursor
        BY <2>0, <3>4 DEF Poller!Eventful, Says
      <4>2. l \in since..cursor
        BY <2>0, <4>1
      <4> QED
        BY <2>0, <3>2, <3>3, <3>4, <3>5, <4>2 DEF LastAt, Says
    <3>7. \A m \in since..cursor : ledgers[m] = Poller!Event(v, "Pending") /\ m \notin skipped
                                      => invoices[v].details
      BY <3>1 DEF Told
    <3> QED
      BY <3>3, <3>5, <3>6, <3>7
  <2> QED
    BY <2>1, <2>2
<1> QED
  BY <1>1, <1>2, <1>3, PTL DEF PartsSpec
==============================================================================
