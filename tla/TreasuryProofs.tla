---------------------------- MODULE TreasuryProofs ----------------------------
(***************************************************************************)
(* Theorems about the treasury contract, for any number of markets and     *)
(* tokens and any amounts and limits.                                      *)
(*                                                                         *)
(* IInv is inductive; the properties are among its conjuncts or follow     *)
(* from it.  Money and days are independent: MoneyStep and DaysStep prove  *)
(* the two halves of an inductive step, action by action.                  *)
(***************************************************************************)
EXTENDS Treasury, SumTheorems, FiniteSetTheorems, TLAPS

-----------------------------------------------------------------------------
(* Days. *)

(* The day of a timestamp is a natural number and never goes back. *)
LEMMA DayOf ==
    ASSUME NEW n \in Nat, NEW m \in Nat, n <= m
    PROVE  n \div DayLength \in Nat /\ n \div DayLength <= m \div DayLength
<1>1. DayLength \in Nat \ {0}
  BY TreasuryAssumption
<1>2. QED
  BY <1>1

LEMMA TodayIsADay ==
    ASSUME TypeOK
    PROVE  Today \in Days /\ Today \in Nat
<1>1. now \in Nat /\ MaxTime \in Nat /\ now <= MaxTime
  BY TreasuryAssumption DEF TypeOK
<1>2. MaxTime \div DayLength \in Nat
  BY <1>1, DayOf
<1>3. QED
  BY <1>1, <1>2, DayOf DEF Today, Days

LEMMA DrawnTodayIsNat ==
    ASSUME TypeOK
    PROVE  DrawnToday \in Nat
  BY DEF TypeOK, DrawnToday

-----------------------------------------------------------------------------
LEMMA IInvInit == Init => IInv
<1> SUFFICES ASSUME Init PROVE IInv
  OBVIOUS
<1>1. TypeOK
  BY TreasuryAssumption, AmountsAssumption DEF Init, TypeOK
<1>2. HoldingsAccounted
  <2>1. ASSUME NEW t \in Tokens
        PROVE  /\ SumFunctionOnSet(Transferred(t), Markets) = 0
               /\ SumFunctionOnSet(Reported(t), Markets) = 0
    <3>1. /\ \A m \in Markets : Transferred(t)[m] = 0
          /\ \A m \in Markets : Reported(t)[m] = 0
      BY DEF Transferred, Reported, Init
    <3>2. QED
      BY <3>1, MarketsAssumption, SumZero
  <2>2. QED
    BY <2>1 DEF HoldingsAccounted, Init
<1>3. DOMAIN daily = {} /\ drawn = 0 /\ peak = limit /\ limit \in Int
  BY AmountsAssumption DEF Init
<1>4. DailyExact /\ DayCapped
  BY <1>3 DEF DailyExact, DrawnToday, DayCapped
<1>5. RecentDays
  BY <1>1, <1>3, TodayIsADay DEF RecentDays
<1>6. QED
  BY <1>1, <1>2, <1>3, <1>4, <1>5 DEF IInv

-----------------------------------------------------------------------------
(* The part of the invariant that speaks of tokens. *)

LEMMA MoneyType ==
    ASSUME TypeOK, NEW t \in Tokens
    PROVE  /\ fees[t] \in Nat /\ held[t] \in Nat
           /\ \A m \in Markets : /\ Transferred(t)[m] \in Nat
                                 /\ Reported(t)[m] \in Nat
           /\ SumFunctionOnSet(Transferred(t), Markets) \in Nat
           /\ SumFunctionOnSet(Reported(t), Markets) \in Nat
<1>1. fees[t] \in Nat /\ held[t] \in Nat
  BY DEF TypeOK
<1>2. /\ \A m \in Markets : Transferred(t)[m] \in Nat
      /\ \A m \in Markets : Reported(t)[m] \in Nat
  BY DEF TypeOK, Transferred, Reported
<1>3. /\ SumFunctionOnSet(Transferred(t), Markets) \in Nat
      /\ SumFunctionOnSet(Reported(t), Markets) \in Nat
  BY <1>2, MarketsAssumption, SumAtLeast
<1>4. QED
  BY <1>1, <1>2, <1>3

(* One market's term raised raises the sum by just that much.               *)
LEMMA RaiseOne ==
    ASSUME NEW f, NEW g, \A k \in Markets : f[k] \in Nat,
           NEW m \in Markets, NEW c \in Nat, g[m] = f[m] + c,
           \A k \in Markets \ {m} : g[k] = f[k]
    PROVE  SumFunctionOnSet(g, Markets) = SumFunctionOnSet(f, Markets) + c
<1>1. \A k \in Markets : f[k] \in Int /\ g[k] \in Int
  OBVIOUS
<1>2. SumFunctionOnSet(g, Markets) = SumFunctionOnSet(f, Markets) - f[m] + g[m]
  BY <1>1, MarketsAssumption, SumUpdate
<1>3. SumFunctionOnSet(f, Markets) \in Int /\ f[m] \in Nat
  BY <1>1, MarketsAssumption, SumInt
<1>4. QED
  BY <1>2, <1>3

(* The equation at the heart of the accounting.                             *)
Balanced ==
    \A t \in Tokens :
        held[t] + SumFunctionOnSet(Reported(t), Markets)
          = fees[t] + SumFunctionOnSet(Transferred(t), Markets)

LEMMA BalancedSuffices ==
    ASSUME TypeOK, Balanced
    PROVE  HoldingsAccounted
  BY MoneyType DEF Balanced, HoldingsAccounted

MoneyOK ==
    /\ fees \in [Tokens -> Nat]
    /\ held \in [Tokens -> Nat]
    /\ byMarket \in [Markets -> [Tokens -> Nat]]
    /\ sent \in [Markets -> [Tokens -> Nat]]
    /\ Balanced

(* What reaches or leaves the counter and the balance alike keeps them.     *)
LEMMA BooksUntouched ==
    ASSUME TypeOK, Balanced, UNCHANGED <<byMarket, sent>>,
           \A u \in Tokens : /\ held'[u] \in Nat /\ fees'[u] \in Nat
                             /\ held'[u] - fees'[u] = held[u] - fees[u]
    PROVE  Balanced'
<1>1. ASSUME NEW u \in Tokens
      PROVE  held'[u] + SumFunctionOnSet(Reported(u)', Markets)
               = fees'[u] + SumFunctionOnSet(Transferred(u)', Markets)
  <2>1. Reported(u)' = Reported(u) /\ Transferred(u)' = Transferred(u)
    BY DEF Reported, Transferred
  <2>2. held[u] + SumFunctionOnSet(Reported(u), Markets)
          = fees[u] + SumFunctionOnSet(Transferred(u), Markets)
    BY DEF Balanced
  <2>3. QED
    BY <2>1, <2>2, MoneyType
<1>2. QED
  BY <1>1 DEF Balanced

LEMMA SendFeeStep ==
    ASSUME TypeOK, Balanced, NEW m \in Markets, NEW t \in Tokens,
           NEW a \in Nat, SendFee(m, t, a)
    PROVE  Balanced'
<1>1. ASSUME NEW u \in Tokens
      PROVE  held'[u] + SumFunctionOnSet(Reported(u)', Markets)
               = fees'[u] + SumFunctionOnSet(Transferred(u)', Markets)
  <2> DEFINE c == IF u = t THEN a ELSE 0
             f == Transferred(u)
             g == [k \in Markets |-> sent'[k][u]]
  <2>1. c \in Nat /\ held'[u] = held[u] + c /\ fees'[u] = fees[u]
    BY DEF TypeOK, SendFee, books
  <2>2. g[m] = f[m] + c /\ \A k \in Markets \ {m} : g[k] = f[k]
    BY DEF TypeOK, SendFee, Transferred
  <2>3. g = Transferred(u)' /\ Reported(u)' = Reported(u)
    BY DEF Transferred, Reported, SendFee, books
  <2>4. \A k \in Markets : f[k] \in Nat
    BY MoneyType
  <2> HIDE DEF c, f, g
  <2>5. SumFunctionOnSet(g, Markets) = SumFunctionOnSet(f, Markets) + c
    BY ONLY m \in Markets, <2>1, <2>2, <2>4, MarketsAssumption, RaiseOne
  <2>6. held[u] + SumFunctionOnSet(Reported(u), Markets)
          = fees[u] + SumFunctionOnSet(f, Markets)
    BY DEF Balanced, f
  <2>7. /\ fees[u] \in Nat /\ held[u] \in Nat
        /\ SumFunctionOnSet(f, Markets) \in Nat
        /\ SumFunctionOnSet(Reported(u), Markets) \in Nat
    BY MoneyType DEF f
  <2>8. QED
    BY <2>1, <2>3, <2>5, <2>6, <2>7
<1>2. QED
  BY <1>1 DEF Balanced

LEMMA ReceiveFeeStep ==
    ASSUME TypeOK, Balanced, NEW m \in Markets, NEW id \in Markets,
           NEW t \in Tokens, NEW a \in Nat, ReceiveFee(m, id, t, a)
    PROVE  Balanced'
<1>1. ASSUME NEW u \in Tokens
      PROVE  held'[u] + SumFunctionOnSet(Reported(u)', Markets)
               = fees'[u] + SumFunctionOnSet(Transferred(u)', Markets)
  <2> DEFINE c == IF u = t THEN a ELSE 0
             f == Reported(u)
             g == [k \in Markets |-> byMarket'[k][u]]
  <2>1. c \in Nat /\ fees'[u] = fees[u] + c /\ held'[u] = held[u]
    BY DEF TypeOK, ReceiveFee
  <2>2. g[id] = f[id] + c /\ \A k \in Markets \ {id} : g[k] = f[k]
    BY DEF TypeOK, ReceiveFee, Reported
  <2>3. g = Reported(u)' /\ Transferred(u)' = Transferred(u)
    BY DEF Transferred, Reported, ReceiveFee
  <2>4. \A k \in Markets : f[k] \in Nat
    BY MoneyType
  <2> HIDE DEF c, f, g
  <2>5. SumFunctionOnSet(g, Markets) = SumFunctionOnSet(f, Markets) + c
    BY ONLY id \in Markets, <2>1, <2>2, <2>4, MarketsAssumption, RaiseOne
  <2>6. held[u] + SumFunctionOnSet(f, Markets)
          = fees[u] + SumFunctionOnSet(Transferred(u), Markets)
    BY DEF Balanced, f
  <2>7. /\ fees[u] \in Nat /\ held[u] \in Nat
        /\ SumFunctionOnSet(f, Markets) \in Nat
        /\ SumFunctionOnSet(Transferred(u), Markets) \in Nat
    BY MoneyType DEF f
  <2>8. QED
    BY <2>1, <2>3, <2>5, <2>6, <2>7
<1>2. QED
  BY <1>1 DEF Balanced

LEMMA MoneyStep ==
    ASSUME TypeOK, HoldingsAccounted, [Next]_vars
    PROVE  MoneyOK'
<1> USE DEF books, history
<1>0. MoneyOK
  BY DEF TypeOK, MoneyOK, HoldingsAccounted, Balanced
<1>1. CASE UNCHANGED <<books, held, sent>>
  BY <1>0, <1>1 DEF MoneyOK, Balanced, Transferred, Reported
<1>2. ASSUME NEW m \in Markets, NEW t \in Tokens, NEW a \in FeeAmounts,
             DepositFees(m, t, a)
      PROVE  MoneyOK'
  <2>1. a \in Nat
    BY AmountsAssumption
  <2>2. /\ fees' \in [Tokens -> Nat] /\ held' \in [Tokens -> Nat]
        /\ UNCHANGED <<byMarket, sent>>
    BY <1>0, <1>2, <2>1 DEF MoneyOK, DepositFees
  <2>3. Balanced'
    <3>1. ASSUME NEW u \in Tokens
          PROVE  held'[u] - fees'[u] = held[u] - fees[u]
      BY <1>0, <1>2, <2>1 DEF MoneyOK, DepositFees
    <3>2. QED
      BY <1>0, <2>2, <3>1, BooksUntouched DEF MoneyOK
  <2>4. QED
    BY <1>0, <2>2, <2>3 DEF MoneyOK
<1>3. ASSUME NEW m \in Markets, NEW t \in Tokens, NEW a \in FeeAmounts,
             SendFee(m, t, a)
      PROVE  MoneyOK'
  <2>1. a \in Nat
    BY AmountsAssumption
  <2>2. /\ held' \in [Tokens -> Nat]
        /\ sent' \in [Markets -> [Tokens -> Nat]]
        /\ UNCHANGED <<fees, byMarket>>
    BY <1>0, <1>3, <2>1 DEF MoneyOK, SendFee
  <2>3. Balanced'
    BY <1>0, <1>3, <2>1, SendFeeStep DEF MoneyOK
  <2>4. QED
    BY <1>0, <2>2, <2>3 DEF MoneyOK
<1>4. ASSUME NEW m \in Markets, NEW id \in Markets, NEW t \in Tokens,
             NEW a \in FeeAmounts, ReceiveFee(m, id, t, a)
      PROVE  MoneyOK'
  <2>1. a \in Nat
    BY AmountsAssumption
  <2>2. /\ fees' \in [Tokens -> Nat]
        /\ byMarket' \in [Markets -> [Tokens -> Nat]]
        /\ UNCHANGED <<held, sent>>
    BY <1>0, <1>4, <2>1 DEF MoneyOK, ReceiveFee
  <2>3. Balanced'
    BY <1>0, <1>4, <2>1, ReceiveFeeStep DEF MoneyOK
  <2>4. QED
    BY <1>0, <2>2, <2>3 DEF MoneyOK
<1>5. ASSUME NEW t \in Tokens, NEW a \in DrawAmounts, WithdrawFees(t, a)
      PROVE  MoneyOK'
  <2>1. a \in Nat /\ a <= fees[t] /\ a <= held[t]
    BY <1>5, AmountsAssumption, TreasuryAssumption DEF WithdrawFees, MayDraw
  <2>2. /\ fees' \in [Tokens -> Nat] /\ held' \in [Tokens -> Nat]
        /\ UNCHANGED <<byMarket, sent>>
    BY <1>0, <1>5, <2>1 DEF MoneyOK, WithdrawFees
  <2>3. Balanced'
    <3>1. ASSUME NEW u \in Tokens
          PROVE  held'[u] - fees'[u] = held[u] - fees[u]
      BY <1>0, <1>5, <2>1 DEF MoneyOK, WithdrawFees
    <3>2. QED
      BY <1>0, <2>2, <3>1, BooksUntouched DEF MoneyOK
  <2>4. QED
    BY <1>0, <2>2, <2>3 DEF MoneyOK
<1>6. ASSUME NEW t \in Tokens, EmergencyDrain(t)
      PROVE  MoneyOK'
  <2>1. fees[t] \in Nat /\ held[t] \in Nat /\ fees[t] <= held[t]
    BY <1>0, <1>6 DEF MoneyOK, EmergencyDrain
  <2>2. /\ fees' \in [Tokens -> Nat] /\ held' \in [Tokens -> Nat]
        /\ UNCHANGED <<byMarket, sent>>
    BY <1>0, <1>6, <2>1 DEF MoneyOK, EmergencyDrain
  <2>3. Balanced'
    <3>1. ASSUME NEW u \in Tokens
          PROVE  held'[u] - fees'[u] = held[u] - fees[u]
      BY <1>0, <1>6, <2>1 DEF MoneyOK, EmergencyDrain
    <3>2. QED
      BY <1>0, <2>2, <3>1, BooksUntouched DEF MoneyOK
  <2>4. QED
    BY <1>0, <2>2, <2>3 DEF MoneyOK
<1>7. QED
  BY <1>1, <1>2, <1>3, <1>4, <1>5, <1>6
     DEF Next, vars, ApproveMarket, RevokeMarket, UpdateWithdrawalLimit, Tick

-----------------------------------------------------------------------------
(* The part of the invariant that speaks of days. *)

DaysOK ==
    /\ limit \in Int
    /\ now \in 0..MaxTime
    /\ drawn \in Nat
    /\ peak \in Int
    /\ DOMAIN daily \subseteq Days
    /\ \A d \in DOMAIN daily : daily[d] \in Nat
    /\ DailyExact
    /\ DayCapped
    /\ RecentDays
    /\ limit <= peak

LEMMA WithdrawDays ==
    ASSUME TypeOK, DaysOK, NEW t \in Tokens, NEW a \in DrawAmounts,
           WithdrawFees(t, a)
    PROVE  DaysOK'
<1> USE DEF history
<1> DEFINE added == [d \in DOMAIN daily \cup {Today} |->
                       IF d = Today THEN DrawnToday + a ELSE daily[d]]
<1>1. /\ a \in Nat /\ DrawnToday + a <= limit * 5
      /\ daily' = Prune(added) /\ drawn' = drawn + a
      /\ UNCHANGED <<limit, now, peak>>
  BY AmountsAssumption, TreasuryAssumption DEF WithdrawFees, MayDraw
<1>2. Today \in Days /\ Today \in Nat /\ Today' = Today
  BY <1>1, TodayIsADay DEF Today
<1>3. DrawnToday \in Nat /\ DrawnToday = drawn
  BY DrawnTodayIsNat DEF DaysOK, DailyExact
<1>4. /\ DOMAIN daily' = {k \in DOMAIN daily \cup {Today} : Keeps(k)}
      /\ \A k \in DOMAIN daily' : daily'[k] = added[k]
  BY <1>1 DEF Prune, Restrict
<1>5. Today \in DOMAIN daily' /\ daily'[Today] = DrawnToday + a
  <2>1. Keeps(Today)
    BY <1>2 DEF Keeps
  <2>2. Today \in DOMAIN daily'
    BY <1>4, <2>1
  <2>3. QED
    BY <1>4, <2>2
<1>6. DailyExact'
  BY <1>1, <1>2, <1>3, <1>5 DEF DailyExact, DrawnToday
<1>7. DayCapped'
  BY <1>1, <1>3 DEF DaysOK, DayCapped
<1>8. DOMAIN daily' \subseteq Days
  BY <1>2, <1>4 DEF DaysOK
<1>9. RecentDays'
  <2>1. ASSUME NEW k \in DOMAIN daily' PROVE k \in {Today - 1, Today}
    <3>1. k \in Int /\ k <= Today
      <4>1. PICK d \in Days : d <= Today /\ DOMAIN daily \subseteq {d - 1, d}
        BY DEF DaysOK, RecentDays
      <4>2. d \in Int
        BY DEF Days
      <4>3. QED
        BY <1>2, <1>4, <4>1, <4>2
    <3>2. ~ (k + 1 < Today)
      BY <1>4 DEF Keeps
    <3>3. QED
      BY <1>2, <3>1, <3>2
  <2>2. QED
    BY <1>2, <2>1 DEF RecentDays, Days
<1>10. ASSUME NEW k \in DOMAIN daily' PROVE daily'[k] \in Nat
  BY <1>1, <1>3, <1>4 DEF DaysOK
<1>11. limit' \in Int /\ now' \in 0..MaxTime /\ peak' \in Int /\ limit' <= peak'
  BY <1>1 DEF DaysOK
<1>12. drawn' \in Nat
  BY <1>1, <1>3
<1>13. \A k \in DOMAIN daily' : daily'[k] \in Nat
  BY <1>10
<1> HIDE DEF added
<1>14. (DOMAIN daily \subseteq Days)'
  BY <1>8 DEF Days
<1>15. QED
  BY <1>6, <1>7, <1>9, <1>11, <1>12, <1>13, <1>14 DEF DaysOK

LEMMA TickDays ==
    ASSUME TypeOK, DaysOK, Tick
    PROVE  DaysOK'
<1> USE DEF history
<1>1. now \in Nat /\ now' = now + 1 /\ now' \in 0..MaxTime /\ MaxTime \in Nat
  BY TreasuryAssumption DEF DaysOK, Tick
<1>2. Today \in Nat /\ Today' \in Nat /\ Today <= Today'
  BY <1>1, DayOf DEF Today
<1>3. UNCHANGED <<daily, limit>>
  BY DEF Tick
<1>4. RecentDays'
  BY <1>2, <1>3 DEF DaysOK, RecentDays, Days
<1>5. CASE Today' = Today
  <2>1. UNCHANGED history
    BY <1>5 DEF Tick, Today
  <2>2. QED
    BY <1>1, <1>3, <1>4, <1>5, <2>1
       DEF DaysOK, DailyExact, DrawnToday, DayCapped, Days
<1>6. CASE Today' # Today
  <2>1. drawn' = 0 /\ peak' = limit
    BY <1>6 DEF Tick, Today
  <2>2. Today' \notin DOMAIN daily
    <3>1. PICK d \in Days : d <= Today /\ DOMAIN daily \subseteq {d - 1, d}
      BY DEF DaysOK, RecentDays
    <3>2. QED
      BY <1>2, <1>6, <3>1 DEF Days
  <2>3. DailyExact' /\ DayCapped'
    BY <1>3, <2>1, <2>2 DEF DailyExact, DrawnToday, DayCapped
  <2>4. QED
    BY <1>1, <1>3, <1>4, <2>1, <2>3 DEF DaysOK, Days
<1>7. QED
  BY <1>5, <1>6

LEMMA DaysStep ==
    ASSUME TypeOK, DaysOK, [Next]_vars
    PROVE  DaysOK'
<1> USE DEF history
<1>1. CASE UNCHANGED <<limit, daily, now, history>>
  BY <1>1
     DEF DaysOK, DailyExact, DrawnToday, DayCapped, RecentDays, Today, Days
<1>2. ASSUME NEW l \in Limits, UpdateWithdrawalLimit(l)
      PROVE  DaysOK'
  <2>1. /\ l \in Int /\ limit' = l /\ peak' = (IF l > peak THEN l ELSE peak)
        /\ UNCHANGED <<daily, now, drawn>>
    BY <1>2, AmountsAssumption DEF UpdateWithdrawalLimit
  <2>2. QED
    BY <2>1
       DEF DaysOK, DailyExact, DrawnToday, DayCapped, RecentDays, Today, Days
<1>3. QED
  BY <1>1, <1>2, WithdrawDays, TickDays
     DEF Next, vars, ApproveMarket, RevokeMarket, DepositFees, SendFee,
         ReceiveFee, EmergencyDrain

-----------------------------------------------------------------------------
(* Who is approved is nobody's concern but its own. *)
LEMMA ApprovedStep ==
    ASSUME TypeOK, [Next]_vars
    PROVE  approved' \subseteq Markets
  BY ZenonT(30) DEF TypeOK, Next, vars, ApproveMarket, RevokeMarket, DepositFees, SendFee,
         ReceiveFee, WithdrawFees, UpdateWithdrawalLimit, EmergencyDrain, Tick

LEMMA IInvStep == IInv /\ [Next]_vars => IInv'
<1> SUFFICES ASSUME IInv, [Next]_vars PROVE IInv'
  OBVIOUS
<1>1. TypeOK /\ HoldingsAccounted
  BY DEF IInv
<1>2. DaysOK
  BY DEF IInv, TypeOK, DaysOK
<1>3. MoneyOK'
  BY <1>1, MoneyStep
<1>4. DaysOK'
  BY <1>1, <1>2, DaysStep
<1>5. (approved \subseteq Markets)'
  BY <1>1, ApprovedStep
<1>6. TypeOK'
  BY <1>3, <1>4, <1>5 DEF MoneyOK, DaysOK, TypeOK, Days
<1>7. HoldingsAccounted'
  <2>1. Balanced'
    BY <1>3 DEF MoneyOK
  <2>2. QED
    BY <1>6, <2>1, BalancedSuffices, PTL
<1>8. QED
  BY <1>4, <1>6, <1>7 DEF DaysOK, IInv

-----------------------------------------------------------------------------
(* IInv holds in every reachable state. *)
THEOREM TreasuryInductive == Spec => []IInv
<1>1. Init => IInv
  BY IInvInit
<1>2. IInv /\ [Next]_vars => IInv'
  BY IInvStep
<1>3. QED
  BY <1>1, <1>2, PTL DEF Spec

(* TypeOK is an invariant: no count and no balance is ever negative.        *)
THEOREM TreasuryTypeCorrect == Spec => []TypeOK
<1>1. IInv => TypeOK
  BY DEF IInv
<1>2. QED
  BY <1>1, TreasuryInductive, PTL

(* The treasury's books balance (deposit_fees, receive_fee, withdraw_fees,  *)
(* emergency_drain): counter and holdings differ by what was reported and   *)
(* not transferred, or transferred and not reported, and by nothing else.   *)
THEOREM HoldingsAlwaysAccounted == Spec => []HoldingsAccounted
<1>1. IInv => HoldingsAccounted
  BY DEF IInv
<1>2. QED
  BY <1>1, TreasuryInductive, PTL

(* Pruning DAILY_WITHDRAWN never loses what was withdrawn today.            *)
THEOREM DailyAlwaysExact == Spec => []DailyExact
<1>1. IInv => DailyExact
  BY DEF IInv
<1>2. QED
  BY <1>1, TreasuryInductive, PTL

(* withdraw_fees never pays out more on one day than five times the highest *)
(* limit in force that day, however update_withdrawal_limit is called.      *)
THEOREM DayAlwaysCapped == Spec => []DayCapped
<1>1. IInv => DayCapped
  BY DEF IInv
<1>2. QED
  BY <1>1, TreasuryInductive, PTL

(* DAILY_WITHDRAWN never has more than two entries.                         *)
THEOREM DailyMapAlwaysSmall == Spec => []DailyMapSmall
<1>1. IInv => DailyMapSmall
  <2> SUFFICES ASSUME IInv PROVE DailyMapSmall
    OBVIOUS
  <2>1. PICK d \in Days : DOMAIN daily \subseteq {d - 1, d}
    BY DEF IInv, RecentDays
  <2>2. IsFiniteSet({d - 1, d}) /\ Cardinality({d - 1, d}) = 2
    <3>1. IsFiniteSet({d}) /\ Cardinality({d}) = 1
      BY FS_Singleton
    <3>2. {d - 1, d} = {d} \cup {d - 1} /\ d - 1 \notin {d}
      BY DEF Days
    <3>3. QED
      BY <3>1, <3>2, FS_AddElement
  <2>3. /\ Cardinality(DOMAIN daily) \in Nat
        /\ Cardinality(DOMAIN daily) <= Cardinality({d - 1, d})
    BY <2>1, <2>2, FS_Subset, FS_CardinalityType
  <2>4. QED
    BY <2>2, <2>3 DEF DailyMapSmall
<1>2. QED
  BY <1>1, TreasuryInductive, PTL
==============================================================================
