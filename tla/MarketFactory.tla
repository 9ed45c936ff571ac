---------------------------- MODULE MarketFactory ----------------------------
(***************************************************************************)
(* The factory contract (contracts/market_factory/src/lib.rs): who         *)
(* administers the platform, which oracles it trusts, which markets exist  *)
(* and which of them are listed as open.                                   *)
(*                                                                         *)
(* The markets themselves are Market.tla; here a market is its status,     *)
(* which the factory reads through get_state and which moves on its own,   *)
(* and the configuration it was initialized with.  A market's address is   *)
(* derived from its id (the deployer's salt), so the id stands for both.   *)
(***************************************************************************)
EXTENDS Integers, Sequences, SequencesExt, FiniteSets, TLC

CONSTANTS
    Admins,     \* addresses that may come to administer the factory
    Oracles,    \* addresses that may be whitelisted
    Wasms,      \* hashes of market code
    BetLimits,  \* values of min_bet_amount and max_bet tried
    Fees,       \* values of fee_bps tried
    Schedules,  \* values of scheduled_at tried
    MaxMarkets, \* bound: no market is created beyond this number
    FactoryTime     \* bound: the ledger clock stops here

NoOne == "no one"  \* PENDING_ADMIN not set
NoWasm == "zero"   \* the zero hash
NoFee == -1        \* create_market's fee_bps: None

ASSUME FactoryInputs ==
    /\ NoOne \notin Admins
    /\ NoWasm \notin Wasms
    /\ BetLimits \subseteq Int
    /\ Fees \subseteq Nat
    /\ Schedules \subseteq Nat
    /\ MaxMarkets \in Nat
    /\ FactoryTime \in Nat

VARIABLES
    admin, pendingAdmin, \* ADMIN, PENDING_ADMIN
    oracles,             \* ORACLE_WHITELIST
    paused,              \* PAUSED
    wasm,                \* MARKET_WASM_HASH
    openMarkets,         \* OPEN_MARKETS
    markets,             \* MARKET_MAP: id i is the (i+1)-th market created
    clock,               \* ledger timestamp
    proposer,            \* history: who made the pending nomination
    upgradedTo           \* history: what upgrade_all_markets last reported done

roles == <<admin, pendingAdmin, proposer>>
factoryVars == <<roles, oracles, paused, wasm, openMarkets, markets, clock, upgradedTo>>

(* MARKET_COUNT *)
count == Len(markets)
MarketIds == 0..(count - 1)
MarketAt(id) == markets[id + 1]

Statuses == {"Open", "Locked", "Resolved", "Cancelled", "Disputed"}

(* How Market.tla's actions move a status. *)
StatusMoves ==
    {<<"Open", "Locked">>, <<"Open", "Cancelled">>, <<"Locked", "Resolved">>,
     <<"Locked", "Cancelled">>, <<"Resolved", "Disputed">>,
     <<"Disputed", "Resolved">>}

AtMost(a, b) == IF a <= b THEN a ELSE b

(* list_market_ids: a page of the open list. *)
ListMarketIds(offset, limit) ==
    SubSeq(openMarkets, offset + 1,
           AtMost(offset + AtMost(limit, 100), Len(openMarkets)))

(* list_markets: from an id on, every market with its status.               *)
ListMarkets(offset, limit) ==
    [k \in 1..AtMost(AtMost(limit, 100), IF offset < count THEN count - offset
                                                          ELSE 0) |->
        <<offset + k - 1, MarketAt(offset + k - 1).status>>]

-----------------------------------------------------------------------------
(* initialize *)
FactoryInit ==
    /\ admin \in Admins
    /\ pendingAdmin = NoOne /\ proposer = NoOne
    /\ \E o \in Oracles : oracles = {o}
    /\ paused = FALSE
    /\ wasm = NoWasm
    /\ openMarkets = <<>>
    /\ markets = <<>>
    /\ clock = 0
    /\ upgradedTo = NoWasm

UpdateMarketWasm(w) ==
    /\ wasm' = w
    /\ UNCHANGED <<roles, oracles, paused, openMarkets, markets, clock, upgradedTo>>

(* The checks of create_market on the bet limits, and the fee in force: the *)
(* override when there is one, else the configured fee, and only the one in *)
(* force is checked.                                                        *)
LimitsAccepted(min, max) == min # 0 /\ max >= min

FeeInForce(configured, override) ==
    IF override # NoFee THEN override ELSE configured

FeeAccepted(configured, override) == FeeInForce(configured, override) <= 1000

(* Tracking a market as open.                                               *)
ListAsOpen(id) == Append(openMarkets, id)

CreateMarket(scheduledAt, min, max, configured, override) ==
    /\ ~paused
    /\ scheduledAt > clock
    /\ LimitsAccepted(min, max)
    /\ FeeAccepted(configured, override)
    /\ wasm # NoWasm
    /\ count < MaxMarkets
    /\ markets' = Append(markets,
                         [status |-> "Open", code |-> wasm,
                          scheduledAt |-> scheduledAt, min |-> min, max |-> max,
                          fee |-> FeeInForce(configured, override)])
    /\ openMarkets' = ListAsOpen(count)
    /\ UNCHANGED <<roles, oracles, paused, wasm, clock, upgradedTo>>

(* Whoever calls remove_open_market: the admin, at least, may.  (The mutant *)
(* forgets to ask the market for its status.)                               *)
RemovableAny(id) == id \in MarketIds
Removable(id) == id \in MarketIds /\ MarketAt(id).status # "Open"

(* The list as the loop of remove_open_market copies it.                    *)
Without(id) ==
    LET updated[k \in 0..Len(openMarkets)] ==
            IF k = 0 THEN <<>>
            ELSE IF openMarkets[k] = id THEN updated[k - 1]
            ELSE Append(updated[k - 1], openMarkets[k])
    IN  updated[Len(openMarkets)]

RemoveOpenMarket(id) ==
    /\ Removable(id)
    /\ openMarkets' = Without(id)
    /\ UNCHANGED <<roles, oracles, paused, wasm, markets, clock, upgradedTo>>

AddOracle(o) ==
    /\ oracles' = oracles \cup {o}
    /\ UNCHANGED <<roles, paused, wasm, openMarkets, markets, clock, upgradedTo>>

RemoveOracle(o) ==
    /\ o \in oracles
    /\ oracles' = oracles \ {o}
    /\ UNCHANGED <<roles, paused, wasm, openMarkets, markets, clock, upgradedTo>>

ProposeAdmin(a) ==
    /\ pendingAdmin' = a
    /\ proposer' = admin
    /\ UNCHANGED <<admin, oracles, paused, wasm, openMarkets, markets, clock,
                   upgradedTo>>

(* What accept_admin leaves in PENDING_ADMIN (and a mutant that leaves it). *)
PendingKept == <<pendingAdmin, proposer>>
PendingCleared == <<NoOne, NoOne>>

AcceptAdmin ==
    /\ pendingAdmin # NoOne
    /\ admin' = pendingAdmin
    /\ pendingAdmin' = PendingCleared[1]
    /\ proposer' = PendingCleared[2]
    /\ UNCHANGED <<oracles, paused, wasm, openMarkets, markets, clock, upgradedTo>>

PauseFactory ==
    /\ paused' = TRUE
    /\ UNCHANGED <<roles, oracles, wasm, openMarkets, markets, clock, upgradedTo>>

UnpauseFactory ==
    /\ paused' = FALSE
    /\ UNCHANGED <<roles, oracles, wasm, openMarkets, markets, clock, upgradedTo>>

(* upgrade_all_markets passes its own admin on to Market::upgrade, which    *)
(* accepts the factory's address only.  No admin is the factory, so one     *)
(* listed market makes the whole call fail.                                 *)
UpgradeAllMarkets(w) ==
    /\ openMarkets = <<>>
    /\ upgradedTo' = w
    /\ UNCHANGED <<roles, oracles, paused, wasm, openMarkets, markets, clock>>

(* A market is locked, resolved, cancelled or disputed. *)
MarketMoves(id, st) ==
    /\ <<MarketAt(id).status, st>> \in StatusMoves
    /\ markets' = [markets EXCEPT ![id + 1].status = st]
    /\ UNCHANGED <<roles, oracles, paused, wasm, openMarkets, clock, upgradedTo>>

FactoryTick ==
    /\ clock < FactoryTime
    /\ clock' = clock + 1
    /\ UNCHANGED <<roles, oracles, paused, wasm, openMarkets, markets, upgradedTo>>

FactoryNext ==
    \/ \E w \in Wasms : UpdateMarketWasm(w) \/ UpgradeAllMarkets(w)
    \/ \E s \in Schedules, min, max \in BetLimits, f \in Fees,
          override \in Fees \cup {NoFee} : CreateMarket(s, min, max, f, override)
    \/ \E id \in MarketIds : RemoveOpenMarket(id)
    \/ \E id \in MarketIds, st \in Statuses : MarketMoves(id, st)
    \/ \E o \in Oracles : AddOracle(o) \/ RemoveOracle(o)
    \/ \E a \in Admins : ProposeAdmin(a)
    \/ AcceptAdmin
    \/ PauseFactory
    \/ UnpauseFactory
    \/ FactoryTick

FactorySpec == FactoryInit /\ [][FactoryNext]_factoryVars

-----------------------------------------------------------------------------
(* Properties *)

MarketRecord ==
    [status : Statuses, code : Wasms, scheduledAt : Schedules,
     min : BetLimits, max : BetLimits, fee : Fees]

(* Every variable holds a value of its kind: in particular markets only run *)
(* code the admin has set, and the open list names only existing markets.   *)
FactoryTypeOK ==
    /\ admin \in Admins
    /\ pendingAdmin \in Admins \cup {NoOne}
    /\ proposer \in Admins \cup {NoOne}
    /\ oracles \in SUBSET Oracles
    /\ paused \in BOOLEAN
    /\ wasm \in Wasms \cup {NoWasm}
    /\ markets \in Seq(MarketRecord)
    /\ openMarkets \in Seq(MarketIds)
    /\ clock \in Nat
    /\ upgradedTo \in Wasms \cup {NoWasm}

(* No open market drops off the list, however removals and status changes   *)
(* interleave, and none is listed twice: the list is kept by the factory,   *)
(* the statuses by the markets (create_market, remove_open_market).         *)
OpenMarketsListed ==
    /\ \A id \in MarketIds :
          MarketAt(id).status = "Open" => \E k \in DOMAIN openMarkets :
                                             openMarkets[k] = id
    /\ \A j, k \in DOMAIN openMarkets : openMarkets[j] = openMarkets[k] => j = k

(* Every market runs on limits and a fee that Market.tla assumes, whichever *)
(* of the two fees of create_market was used.                               *)
MarketsWellConfigured ==
    \A id \in MarketIds :
        /\ MarketAt(id).min # 0
        /\ MarketAt(id).min <= MarketAt(id).max
        /\ MarketAt(id).fee <= 1000

(* The pending nomination is always the current administrator's: one made   *)
(* by a former administrator does not survive the handover (accept_admin    *)
(* clears PENDING_ADMIN, propose_admin overwrites it).                      *)
NominationIsCurrent == pendingAdmin # NoOne => proposer = admin

(* Paging loses nothing: the pages of list_markets, of any size that is     *)
(* granted, put end to end, are all the markets in order, and those of      *)
(* list_market_ids the open list.                                           *)
Pages(list(_, _), size) ==
    FlattenSeq([k \in 1..(MaxMarkets + 1) |-> list((k - 1) * size, size)])

PagesCover ==
    \A size \in 1..AtMost(MaxMarkets + 1, 100) :
        /\ Pages(ListMarketIds, size) = openMarkets
        /\ Pages(ListMarkets, size) =
             [i \in 1..count |-> <<i - 1, markets[i].status>>]

(* Every open market is on the open list, once, and the pages of the list   *)
(* and of the markets miss none and repeat none: of create_market, the      *)
(* cleanup of the list, list_markets and list_market_ids together.  What    *)
(* list_market_ids pages is the open list, though its comment says          *)
(* "Returns a paginated list of all market IDs" (lib.rs:244): a market that *)
(* has been locked or decided is on none of its pages once it is removed.   *)
ListsSound == FactoryTypeOK /\ OpenMarketsListed /\ PagesCover

(* "Upgrades all existing market contracts to a new WASM implementation"    *)
(* (lib.rs:526): when upgrade_all_markets succeeds, all of them run it.     *)
AllUpgraded ==
    [][upgradedTo' # upgradedTo =>
          \A i \in DOMAIN markets' : markets'[i].code = upgradedTo']_factoryVars

-----------------------------------------------------------------------------
(* For TLC: addresses and code hashes are interchangeable. *)
FactorySymmetry ==
    Permutations(Admins) \cup Permutations(Oracles) \cup Permutations(Wasms)
==============================================================================
