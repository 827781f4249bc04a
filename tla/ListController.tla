--------------------------- MODULE ListController ---------------------------
(***************************************************************************)
(* The paginated lists: the reports of a request (/report/reports), all    *)
(* reports of an executor (/executor/:executor) and those of its finished  *)
(* requests (/executor/finished/:executor).  A page of the executor lists  *)
(* takes two database calls, and a reader takes several pages, while       *)
(* handlers insert reports and the interval service trims and submits.     *)
(* The reader asks for page after page until one is empty.                 *)
(***************************************************************************)
EXTENDS Paging

CONSTANTS
  Reader,        \* the executor whose reports are listed
  limitPerPage   \* limit_per_page of the reader, 0 for none

ASSUME ListAssumption ==
  /\ Reader \in Executors
  /\ limitPerPage \in Nat

VARIABLES
  list,      \* the endpoint that is read, "none" before the walk
  lpc,       \* the database call a page is at, or the end of the walk
  page,      \* page_number
  ids,       \* requestIds, or the count, of the first of the two calls
  seen,      \* requests whose report was on a page
  due,       \* requests whose report was on the list when the walk began
  trimmed    \* whether a report of the reader was deleted since

listVars == <<list, lpc, page, ids, seen, due, trimmed>>

ListInit ==
  /\ list = "none"
  /\ lpc = "first"
  /\ page = 1
  /\ ids = {}
  /\ seen = {}
  /\ due = {}
  /\ trimmed = FALSE

-----------------------------------------------------------------------------
RequestsOf(e) == {x.requestId : x \in {y \in executorCollection : y.executor = e}}

\* Mutant: the requests are not filtered.
AllOf(S) == S

\* The second call of findFinishedExecutorReports: submitted: true, $in ids.
Finished(S) == {r \in S : IsSubmitted(r)}

-----------------------------------------------------------------------------
StartWalk ==
  /\ list = "none"
  /\ \/ list' = "all" /\ due' = RequestsOf(Reader)
     \/ list' = "finished" /\ due' = Finished(RequestsOf(Reader))
  /\ UNCHANGED <<lpc, page, ids, seen, trimmed, storeVars>>

\* countDocuments, or the find of all reports of the executor.
FirstQuery ==
  /\ list # "none"
  /\ lpc = "first"
  /\ ids' = RequestsOf(Reader)
  /\ lpc' = "second"
  /\ UNCHANGED <<list, page, seen, due, trimmed, storeVars>>

SecondQuery ==
  /\ list # "none"
  /\ lpc = "second"
  /\ LET pager == paginatorNumber(page, limitPerPage)
         data == Newest(IF list = "all" THEN RequestsOf(Reader) ELSE Finished(ids), pager)
     IN /\ seen' = seen \cup data
        /\ lpc' = IF data = {} THEN "end" ELSE "first"
        /\ page' = IF data = {} THEN page ELSE page + 1
  /\ ids' = {}
  /\ UNCHANGED <<list, due, trimmed, storeVars>>

ListStep == StartWalk \/ FirstQuery \/ SecondQuery

\* What the other processes' steps mean for the walk.
ListObserves ==
  /\ trimmed' = (trimmed \/ (list # "none" /\ lpc # "end"
                             /\ RequestsOf(Reader) \ RequestsOf(Reader)' # {}))
  /\ UNCHANGED <<list, lpc, page, ids, seen, due>>

-----------------------------------------------------------------------------
(* Properties *)

\* A walk through the pages returns every report that was listed when it
\* began: requests that come or finish meanwhile only push older ones to
\* later pages.  The exception is a report of this executor that is trimmed
\* during the walk: the later pages move up and the walk skips an entry.
WalkComplete == lpc = "end" /\ ~trimmed => due \subseteq seen

\* A walk through finished requests never shows one that is still open.
OnlyFinishedShown == list = "finished" => \A r \in seen : IsSubmitted(r)
=============================================================================
