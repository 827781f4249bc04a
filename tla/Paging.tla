------------------------------- MODULE Paging -------------------------------
(***************************************************************************)
(* Pages of a query: what page_number and limit_per_page select.           *)
(***************************************************************************)
EXTENDS OracleStore

CONSTANTS
  PAGE_DEFAULT,  \* entries of a page when none are asked for (5)
  PAGE_MAX       \* cap of the entries of a page (200)

ASSUME PagingAssumption ==
  /\ PAGE_DEFAULT \in Nat \ {0}
  /\ PAGE_MAX \in Nat \ {0}

\* Mutant: pages counted from zero.
paginatorFromZero(number, limit) ==
  LET size == IF limit > 0 THEN Lesser(limit, PAGE_MAX) ELSE PAGE_DEFAULT
  IN [limit |-> size, skip |-> number * size]

\* An absent parameter is 0 here: neither is greater than 0.
paginatorNumber(number, limit) ==
  LET size == IF limit > 0 THEN Lesser(limit, PAGE_MAX) ELSE PAGE_DEFAULT
  IN [limit |-> size, skip |-> IF number > 0 THEN (number - 1) * size ELSE 0]

\* sort({id: -1}).skip(s).limit(n) of documents with these ids.
Newest(S, pager) ==
  {r \in S : LET above == Cardinality({q \in S : q > r})
             IN above >= pager.skip /\ above < pager.skip + pager.limit}

\* find without a sort: any page of that size.
findReports(r, pager) ==
  {S \in SUBSET ReportsOf(r) :
     LET rest == IF countExecutorReports(r) > pager.skip
                 THEN countExecutorReports(r) - pager.skip ELSE 0
     IN Cardinality(S) = Lesser(rest, pager.limit)}
=============================================================================
