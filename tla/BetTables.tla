------------------------------- MODULE BetTables -------------------------------
(***************************************************************************)
(* The two tables of bets: a bettor's history on the portfolio page        *)
(* (BetHistoryTable) and a market's recent bets (BetList), with what their *)
(* pages load into them.  The table in use is chosen in the initial state. *)
(* Loads may overlap and are answered in any order; the first answer ends  *)
(* the notice that something is loading.                                    *)
(***************************************************************************)
EXTENDS Naturals, FiniteSets

CONSTANTS
    Bets,       \* records with fields id, claimed and payout
    PageSize,
    MaxLoads    \* bound: loads under way

VARIABLES
    table,      \* "history" or "list"
    bets,
    loading,    \* the loads under way
    isLoading,
    tab, sort, page,
    shifted     \* history: an answer changed the table under its page

tableVars == <<table, bets, loading, isLoading, tab, sort, page, shifted>>

(* A payout of "none" is null, "zero" not above zero.                       *)
GetBetStatus(bet) ==
    CASE bet.claimed -> "Claimed"
      [] ~bet.claimed /\ bet.payout = "none" -> "Active"
      [] ~bet.claimed /\ bet.payout = "zero" -> "Lost"
      [] ~bet.claimed /\ bet.payout = "some" -> "Pending Claim"

(* A tab shows a status; that of the won bets shows the claimed ones.       *)
Tabs == {"All", "Active", "Won", "Lost", "Pending Claim"}
Filtered(t) ==
    {bet \in bets : \/ t = "All" \/ table = "list"
                    \/ GetBetStatus(bet) = IF t = "Won" THEN "Claimed" ELSE t}

(* At least one, of PageSize rows each.                                     *)
TotalPages(t) ==
    LET n == (Cardinality(Filtered(t)) + PageSize - 1) \div PageSize
    IN IF n = 0 THEN 1 ELSE n

Rows == Filtered(tab)
Latest == [by |-> "placed_at", dir |-> "desc"]

TableInit ==
    /\ table \in {"history", "list"}
    /\ bets = {} /\ loading = {1} /\ isLoading = TRUE
    /\ tab = "All" /\ sort = Latest /\ page = 1
    /\ shifted = FALSE

-----------------------------------------------------------------------------
(* The portfolio is loaded for an address and after a claim, the market's  *)
(* bets when its status changes.  While it loads the portfolio page shows a *)
(* notice in place of its table, which starts anew; the list keeps its page.*)
Load ==
    /\ \E l \in 1..MaxLoads : l \notin loading /\ loading' = loading \cup {l}
    /\ isLoading' = TRUE
    /\ IF table = "history"
       THEN tab' = "All" /\ sort' = Latest /\ page' = 1 /\ shifted' = FALSE
       ELSE UNCHANGED <<tab, sort, page, shifted>>
    /\ UNCHANGED <<table, bets>>

(* A load that fails leaves the rows as they are.                           *)
Answer(l, rows) ==
    /\ l \in loading
    /\ loading' = loading \ {l}
    /\ isLoading' = FALSE
    /\ bets' = rows
    /\ shifted' = (shifted \/ table = "list" \/ ~isLoading)
    /\ UNCHANGED <<table, tab, sort, page>>

(* What the user does with the table that is shown.                         *)
Shown == ~isLoading /\ bets # {}
Choose(t, s, p) ==
    /\ Shown
    /\ tab' = t /\ sort' = s /\ page' = p
    /\ shifted' = (shifted /\ p > TotalPages(t))
    /\ UNCHANGED <<table, bets, loading, isLoading>>

(* A tab, or another order, begins at the first page.  (A mutant stays.)    *)
SamePage == page
FirstPage == 1

ClickTab(t) == table = "history" /\ Choose(t, sort, FirstPage)

HandleSort(by) ==
    /\ table = "history"
    /\ Choose(tab,
              [by |-> by,
               dir |-> IF sort.by = by /\ sort.dir = "desc" THEN "asc" ELSE "desc"],
              FirstPage)

Previous ==
    /\ TotalPages(tab) > 1 /\ page # 1
    /\ Choose(tab, sort, page - 1)

Following ==
    /\ TotalPages(tab) > 1 /\ page # TotalPages(tab)
    /\ Choose(tab, sort,
              IF page + 1 < TotalPages(tab) THEN page + 1 ELSE TotalPages(tab))

TableNext ==
    \/ Load \/ Previous \/ Following
    \/ \E t \in Tabs : ClickTab(t)
    \/ \E by \in {"placed_at", "amount_xlm"} : HandleSort(by)
    \/ \E l \in 1..MaxLoads, rows \in SUBSET Bets : Answer(l, rows)

TableSpec == TableInit /\ [][TableNext]_tableVars

-----------------------------------------------------------------------------
(* Properties *)

(* The table shows an empty page of rows it has only when an answer changed*)
(* them under its page: for a bettor's history that takes two loads that    *)
(* overlap.                                                                 *)
PageInRange == Shown /\ ~shifted => page <= TotalPages(tab)
==============================================================================
