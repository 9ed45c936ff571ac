-------------------------------- MODULE Escrow --------------------------------
(***************************************************************************)
(* What a betting market promises its bettors, whatever the oracles, the   *)
(* fee and the payout formula: stakes come in only while betting is open;  *)
(* a market leaves betting once, for a verdict or for refunds, and never   *)
(* changes its mind between the two; each bettor is settled at most once,  *)
(* by a payout that what is held covers or by the amount of the stake.     *)
(*                                                                         *)
(* It holds several tokens and moves one at a time, the one it is asked to.*)
(* It does not promise that a stake comes back in the token it was made in.*)
(***************************************************************************)
EXTENDS Integers

CONSTANTS Bettors, Tokens

VARIABLES phase,   \* where the market is in its life
          stake,   \* what each bettor put in
          settled, \* who has been paid out or refunded
          paid,    \* what each bettor got back
          held     \* what the market still holds of each token

vars == <<phase, stake, settled, paid, held>>

Init ==
    /\ phase = "betting"
    /\ stake = [b \in Bettors |-> 0]
    /\ settled = [b \in Bettors |-> FALSE]
    /\ paid = [b \in Bettors |-> 0]
    /\ held = [t \in Tokens |-> 0]

Stake(b, t) ==
    /\ phase = "betting"
    /\ stake[b] = 0
    /\ stake' = [stake EXCEPT ![b] = stake'[b]]
    /\ stake'[b] >= 0
    /\ held' = [held EXCEPT ![t] = @ + stake'[b]]
    /\ UNCHANGED <<phase, settled, paid>>

Close ==
    /\ phase = "betting"
    /\ phase' = "closed"
    /\ UNCHANGED <<stake, settled, paid, held>>

Decide ==
    /\ phase = "closed"
    /\ phase' = "decided"
    /\ UNCHANGED <<stake, settled, paid, held>>

CallOff ==
    /\ phase \in {"betting", "closed"}
    /\ phase' = "refunding"
    /\ UNCHANGED <<stake, settled, paid, held>>

(* A payout; a fee may leave with it, in the same token.                    *)
PayOut(b, t) ==
    /\ phase = "decided"
    /\ ~settled[b]
    /\ settled' = [settled EXCEPT ![b] = TRUE]
    /\ paid' = [paid EXCEPT ![b] = paid'[b]]
    /\ paid'[b] >= 0
    /\ held' = [held EXCEPT ![t] = held'[t]]
    /\ held'[t] >= 0 /\ held'[t] + paid'[b] <= held[t]
    /\ UNCHANGED <<phase, stake>>

PayBack(b, t) ==
    /\ phase = "refunding"
    /\ ~settled[b]
    /\ settled' = [settled EXCEPT ![b] = TRUE]
    /\ paid' = [paid EXCEPT ![b] = stake[b]]
    /\ held[t] >= stake[b]
    /\ held' = [held EXCEPT ![t] = @ - stake[b]]
    /\ UNCHANGED <<phase, stake>>

Next ==
    \/ Close
    \/ Decide
    \/ CallOff
    \/ \E b \in Bettors, t \in Tokens :
          Stake(b, t) \/ PayOut(b, t) \/ PayBack(b, t)

Spec == Init /\ [][Next]_vars
==============================================================================
