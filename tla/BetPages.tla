------------------------------- MODULE BetPages -------------------------------
(***************************************************************************)
(* A bettor's bets, page by page: load and loadNextPage of                 *)
(* frontend/src/hooks/usePortfolio.ts, over fetchBetsByAddress of the       *)
(* backend's BetService.ts, which cuts pages by LIMIT and OFFSET out of a   *)
(* table that grows meanwhile.  A call of the hook works with the address, *)
(* the list and the page of the render it was made in; what comes of it    *)
(* replaces the list, whatever has been shown since.                       *)
(*                                                                         *)
(* Two bets of a bettor never have the same placed_at: an account has one  *)
(* transaction in a ledger.                                                 *)
(***************************************************************************)
EXTENDS Naturals, SequencesExt, Functions

CONSTANTS
    Wallets,
    Limit,          \* rows to a page
    MaxPages,       \* bound: pages asked for
    MaxBetRows,     \* bound: bets on record, of all wallets
    MaxRequests,    \* bound: calls under way
    MaxMoves        \* bound: changes of wallet, claims

VARIABLES
    address,    \* the connected wallet, or "none"
    placed,     \* bets: the rows of each wallet, newest first
    list,       \* bets and page of the hook; whose, and which rows there
                \* were when its first page was read
    requests,   \* calls under way
    moves

betPageVars == <<address, placed, list, requests, moves>>

Slots == 1..MaxRequests
NoList == [rows |-> <<>>, page |-> 1, of |-> "none", base |-> {}, mixed |-> FALSE,
           broken |-> FALSE]
NoRequest == [stage |-> "free", page |-> 0, of |-> "none", from |-> NoList,
              answer |-> <<>>, base |-> {}]

Asked(page, w, from) ==
    [NoRequest EXCEPT !.stage = "asked", !.page = page, !.of = w, !.from = from]

(* The page is opened with a wallet connected, which has bets on record:    *)
(* the effect has run load.                                                 *)
BetPageInit ==
    /\ address = CHOOSE w \in Wallets : TRUE
    /\ placed = [w \in Wallets |-> <<1, 2>>]
    /\ list = NoList
    /\ requests = [r \in Slots |-> IF r = 1 THEN Asked(1, address, NoList) ELSE NoRequest]
    /\ moves = 0

Ask(page, w, from) ==
    \E r \in Slots :
       /\ requests[r] = NoRequest /\ \A q \in 1..r - 1 : requests[q] # NoRequest
       /\ requests' = [requests EXCEPT ![r] = Asked(page, w, from)]

End(r) == requests' = [requests EXCEPT ![r] = NoRequest]

-----------------------------------------------------------------------------
(* load, in the effect that follows a change of wallet, and after a claim.  *)
(* Without a wallet the list is emptied, but the page stays.                *)
Load(w) ==
    IF w = "none" THEN /\ list' = [NoList EXCEPT !.page = list.page]
                       /\ UNCHANGED requests
                  ELSE Ask(1, w, NoList) /\ UNCHANGED list

Switch(w) ==
    /\ moves < MaxMoves /\ w # address
    /\ moves' = moves + 1
    /\ address' = w
    /\ Load(w)
    /\ UNCHANGED placed

ClaimSuccess ==
    /\ moves < MaxMoves /\ address # "none"
    /\ moves' = moves + 1
    /\ Load(address)
    /\ UNCHANGED <<address, placed>>

LoadNextPage ==
    /\ address # "none" /\ list.page < MaxPages
    /\ Ask(list.page + 1, address, list)
    /\ UNCHANGED <<address, placed, list, moves>>

(* fetchBetsByAddress: a page of the rows as they are.  (A mutant counts the*)
(* pages from one.)                                                         *)
OffsetFromOne(page) == IF page = 1 THEN 0 ELSE page * Limit
Offset(page) == (page - 1) * Limit

FetchBetsByAddress(r) ==
    /\ requests[r].stage = "asked"
    /\ LET found == placed[requests[r].of]
           start == Offset(requests[r].page)
       IN  requests' = [requests EXCEPT
              ![r].stage = "read",
              ![r].answer = SubSeq(found, start + 1,
                               IF start + Limit < Len(found) THEN start + Limit
                                                             ELSE Len(found)),
              ![r].base = ToSet(found)]
    /\ UNCHANGED <<address, placed, list, moves>>

(* The answer of a first page is the list; that of a later one follows the  *)
(* list it was asked with, which another wallet's may have become.          *)
FirstPage(r) ==
    /\ requests[r].stage = "read" /\ requests[r].page = 1
    /\ list' = [rows |-> requests[r].answer, page |-> 1, of |-> requests[r].of,
                base |-> requests[r].base, mixed |-> FALSE, broken |-> FALSE]
    /\ End(r)
    /\ UNCHANGED <<address, placed, moves>>

NextPage(r) ==
    /\ requests[r].stage = "read" /\ requests[r].page > 1 /\ ~requests[r].from.broken
    /\ list' = [requests[r].from EXCEPT
                  !.rows = @ \o requests[r].answer,
                  !.page = requests[r].page,
                  !.mixed = @ \/ requests[r].from.of # requests[r].of]
    /\ End(r)
    /\ UNCHANGED <<address, placed, moves>>

(* A request that fails leaves the list as it is.  fetch does not fail for  *)
(* an answer with an error status: it has no bets, which makes the list of a*)
(* first page undefined, and adding to that, or adding that, throws.        *)
RequestFails(r) ==
    /\ requests[r] # NoRequest
    /\ \/ UNCHANGED list
       \/ /\ requests[r].page = 1
          /\ list' = [NoList EXCEPT !.of = requests[r].of, !.broken = TRUE]
    /\ End(r)
    /\ UNCHANGED <<address, placed, moves>>

(* The indexer: a bet newer than all on record or, in a backfill, an older. *)
Insert(w, at) ==
    /\ SumFunction([v \in Wallets |-> Len(placed[v])]) < MaxBetRows
    /\ placed' = [placed EXCEPT ![w] = InsertAt(@, at, Len(@) + 1)]
    /\ UNCHANGED <<address, list, requests, moves>>

BetPageNext ==
    \/ ClaimSuccess \/ LoadNextPage
    \/ \E w \in Wallets \cup {"none"} : Switch(w)
    \/ \E w \in Wallets : \E at \in 1..Len(placed[w]) + 1 : Insert(w, at)
    \/ \E r \in Slots :
          FetchBetsByAddress(r) \/ FirstPage(r) \/ NextPage(r) \/ RequestFails(r)

BetPageSpec == BetPageInit /\ [][BetPageNext]_betPageVars

-----------------------------------------------------------------------------
(* Properties *)

(* However pages are asked for twice, overtaken and answered while bets are *)
(* added: no bet that there was when a list's first page was read is        *)
(* skipped; what the list does not have lies beyond its last page.  Only a  *)
(* page appended to another wallet's list, as a change of wallet under a    *)
(* call or a failed load allow, leaves a gap.                               *)
NoBetSkipped ==
    list.of # "none" /\ ~list.mixed =>
        list.base \ ToSet(list.rows) \subseteq
           ToSet(SubSeq(placed[list.of], list.page * Limit + 1, Len(placed[list.of])))
==============================================================================
