---------------------------- MODULE PortfolioTable ----------------------------
(* The pages of InvestorPortfolioTable.tsx: the investor turns pages and      *)
(* changes the filters while the page around the table refreshes its list.    *)
(* A change of state or props shows only when React commits a render, the     *)
(* buttons act on the render they belong to, and the effect that brings a     *)
(* page back into range runs after the commit.  Which invoices are listed,    *)
(* and in which order, makes no difference to the pages: a list is its length *)
(* and the number of its invoices that match the filters.                     *)
EXTENDS Integers

CONSTANTS MaxListed,   \* bound: invoices in the portfolio
          PAGE_SIZE,
          MaxPage      \* bound: the last page `Next' is pressed on

ASSUME TableAssumption == MaxListed \in Nat /\ PAGE_SIZE \in Nat \ {0} /\ MaxPage \in Nat

VARIABLES
    listed,      \* invoices.length, as passed in
    matching,    \* filteredInvoices.length
    page,        \* the state, with every setPage applied
    committed,   \* the render on the screen: its invoices, page and pageCount
    effectRan    \* the dependencies the effect last ran with

tableVars == <<listed, matching, page, committed, effectRan>>

PageCount(n) == IF n = 0 THEN 1 ELSE (n + PAGE_SIZE - 1) \div PAGE_SIZE

Render == [listed |-> listed, page |-> page, pageCount |-> PageCount(matching)]

DependsOnCount(r) == <<r.pageCount>>

(* The dependency array of the effect.                                        *)
Dependencies(r) == <<r.page, r.pageCount>>

EffectPending == effectRan # Dependencies(committed)

TableInit ==
    /\ listed \in 0 .. MaxListed
    /\ matching = listed
    /\ page = 1
    /\ committed = Render
    /\ effectRan = <<>>

(* The parent passes another list, of which the filters let some through.     *)
RefreshInvoices ==
    /\ listed' \in 0 .. MaxListed
    /\ matching' \in 0 .. listed'
    /\ UNCHANGED <<page, committed, effectRan>>

(* React runs the effects of a render before it starts another.               *)
CommitRender ==
    /\ ~EffectPending
    /\ committed # Render
    /\ committed' = Render
    /\ UNCHANGED <<listed, matching, page, effectRan>>

SnapToLastPage ==
    /\ EffectPending
    /\ effectRan' = Dependencies(committed)
    /\ page' = IF committed.page > committed.pageCount THEN committed.pageCount ELSE page
    /\ UNCHANGED <<listed, matching, committed>>

(* The status or the token filter changes.  An empty portfolio has no         *)
(* controls.                                                                  *)
SelectFilter ==
    /\ committed.listed > 0
    /\ matching' \in 0 .. listed
    /\ page' = 1
    /\ UNCHANGED <<listed, committed, effectRan>>

(* handlePageChange(page - 1) and handlePageChange(page + 1), with the page   *)
(* of the render the button belongs to.                                       *)
PreviousPage ==
    /\ committed.listed > 0
    /\ committed.page # 1
    /\ page' = committed.page - 1
    /\ UNCHANGED <<listed, matching, committed, effectRan>>

NextPage ==
    /\ committed.listed > 0
    /\ committed.page # committed.pageCount
    /\ committed.page <= MaxPage
    /\ page' = committed.page + 1
    /\ UNCHANGED <<listed, matching, committed, effectRan>>

TableNext ==
    \/ RefreshInvoices \/ CommitRender \/ SnapToLastPage
    \/ SelectFilter \/ PreviousPage \/ NextPage

TableTypeOK ==
    /\ listed \in 0 .. MaxListed /\ matching \in 0 .. listed
    /\ page \in Nat \ {0}
    /\ committed \in [listed : Nat, page : Nat \ {0}, pageCount : Nat \ {0}]

-----------------------------------------------------------------------------
(* slice((page - 1) * PAGE_SIZE, page * PAGE_SIZE) of the matching invoices.  *)
PageInvoices == {k \in 1 .. matching : (page - 1) * PAGE_SIZE < k /\ k <= page * PAGE_SIZE}

(* Once React has nothing left to render and no effect to run, the investor   *)
(* is on a page there is, and sees rows if any invoice matches -- whatever    *)
(* was refreshed, filtered or clicked between a commit and its effect, or     *)
(* between the effect and the next commit, when the screen still shows a page *)
(* beyond the last ("so focus isn't stranded on a now-empty page",            *)
(* InvestorPortfolioTable.tsx:153-155).                                       *)
NoStrandedPage ==
    ~EffectPending /\ committed = Render =>
        /\ page \in 1 .. PageCount(matching)
        /\ matching > 0 => PageInvoices # {}
=============================================================================
