------------------------------ MODULE RestCalls ------------------------------
(***************************************************************************)
(* The other calls of CoinbaseRestClient: the lists, read page after page  *)
(* under the exchange's cursor, the getters of one value, and the commands *)
(* on portfolios, conversions and futures.  Each sends a request, waits    *)
(* for the answer, and turns every failure into the default value of its   *)
(* type.  Data is the number of the page it came from.  The module has no  *)
(* specification of its own: RestClient composes it with the orders.       *)
(***************************************************************************)
EXTENDS Integers, Sequences

CONSTANT MaxPages  \* bound: pages the exchange has for a list

ASSUME PagesAssumption == MaxPages \in Nat \ {0}

\* Lists with a cursor; "fills" goes by the cursor alone, the others by has_next
\* first.
Paged == {"accounts", "orders", "fills"}

\* Lists that come in one answer; a getter of one value is read the same way.
Whole == {"list", "getter"}

\* Commands that return what the answer holds, its field "success", or TRUE for
\* every answer with a good status.
Commands == {"value", "flag", "status"}

VARIABLES
  call,     \* the kind of call, "none" between calls
  step,     \* "idle", "asked", "returned"
  asked,    \* the page last asked for
  total,    \* the pages the exchange has
  done,     \* the exchange has carried the command out
  pages,    \* what is returned: pages in order; <<>> is the default value, or
            \* false
  bare,     \* pages that came without their list
  failure   \* "none", "error", "bare", "thrown"

callVars == <<call, step, asked, total, done, pages, bare, failure>>

CallInit ==
  /\ call = "none"
  /\ step = "idle"
  /\ asked = 0
  /\ total = 0
  /\ done = FALSE
  /\ pages = <<>>
  /\ bare = {}
  /\ failure = "none"

-----------------------------------------------------------------------------

Ask(c, n) ==
  /\ step = "idle"
  /\ c \notin Paged => n = 1
  /\ step' = "asked"
  /\ call' = c
  /\ asked' = 1
  /\ total' = n
  /\ UNCHANGED <<done, pages, bare, failure>>

\* get_best_bid_ask without a product asks nothing.
AskNothing ==
  /\ step = "idle"
  /\ step' = "returned"
  /\ call' = "getter"
  /\ UNCHANGED <<asked, total, done, pages, bare, failure>>

\* Mistake: the query goes out with the cursor it came in with.
NextPageStale == asked

\* The page asked for under the cursor of the page just read.
NextPage == asked + 1

\* Mistake: the cursor is followed once.
MoreOnce == call \in Paged /\ asked = 1 /\ asked < total

More == call \in Paged /\ asked < total

Collected == Append(pages, asked)

\* Mistake: a good status is taken for success.
SucceededByStatus(carried_out) == TRUE

\* "success" is read from the answer; the other commands do not look.
Succeeded(carried_out) == call = "flag" => carried_out

\* An answer with a good status and the text expected.  The exchange says truly
\* what it has done.
Answer(carried_out) ==
  /\ step = "asked"
  /\ IF call \in Commands THEN call # "flag" => carried_out ELSE ~carried_out
  /\ done' = carried_out
  /\ pages' = IF Succeeded(carried_out) THEN Collected ELSE <<>>
  /\ IF More
     THEN /\ asked' = NextPage
          /\ UNCHANGED step
     ELSE /\ step' = "returned"
          /\ UNCHANGED asked
  /\ UNCHANGED <<call, total, bare, failure>>

\* The text does not parse, the field looked for is missing from a first or only
\* answer, or a page ends with a null cursor: the exception is caught outside
\* the list.
Thrown(carried_out) ==
  /\ step = "asked"
  /\ call # "status"
  /\ carried_out => call \in Commands
  /\ step' = "returned"
  /\ done' = carried_out
  /\ pages' = <<>>
  /\ failure' = "thrown"
  /\ UNCHANGED <<call, asked, total, bare>>

\* A page that lacks its list, what leads on to the next page (has_next, or the
\* cursor of fills) or both.  A later page without its list adds nothing, and
\* what it says of the next page is followed all the same.
IncompletePage(listed, cursored) ==
  /\ step = "asked"
  /\ call \in Paged
  /\ ~(listed /\ cursored)
  /\ asked = 1 => listed
  /\ pages' = IF listed THEN Collected ELSE pages
  /\ bare' = IF listed THEN bare ELSE bare \cup {asked}
  /\ IF cursored /\ More
     THEN /\ asked' = NextPage
          /\ UNCHANGED step
     ELSE /\ step' = "returned"
          /\ UNCHANGED asked
  /\ failure' = "bare"
  /\ UNCHANGED <<call, total, done>>

\* Mistake: the request is sent again after an error.
AfterError == "asked"

Stopped == "returned"

\* A bad status, or no answer at all: what was collected is returned.
Error(carried_out) ==
  /\ step = "asked"
  /\ carried_out => call \in Commands
  /\ step' = Stopped
  /\ done' = carried_out
  /\ failure' = "error"
  /\ UNCHANGED <<call, asked, total, pages, bare>>

\* The caller is done with the value.
Drop ==
  /\ step = "returned"
  /\ step' = "idle"
  /\ call' = "none"
  /\ asked' = 0
  /\ total' = 0
  /\ done' = FALSE
  /\ pages' = <<>>
  /\ bare' = {}
  /\ failure' = "none"

Reply ==
  \/ \E carried_out \in BOOLEAN : Answer(carried_out) \/ Thrown(carried_out) \/ Error(carried_out)
  \/ \E listed, cursored \in BOOLEAN : IncompletePage(listed, cursored)

-----------------------------------------------------------------------------
(* Properties.                                                             *)

Through(n) == [i \in 1..n |-> i]

\* A list never has a page twice or out of order, and the only pages missing
\* before the one it ends with are those that came without their list: the
\* cursor is passed on unchanged and the pages are appended, however the
\* exchange's answers end.
OnlyBarePagesMissing ==
  call \in Paged =>
    /\ \A i, j \in DOMAIN pages : i < j => pages[i] < pages[j]
    /\ \E n \in 0..total : {pages[i] : i \in DOMAIN pages} = (1..n) \ bare

\* A list lacks pages only after a failure: with every answer good, every page
\* is in it.
WholeUnlessFailed ==
  step = "returned" /\ call \in Paged /\ failure = "none" => pages = Through(total)

\* A command reported done has been carried out; one reported failed may have
\* been carried out as well.
CommandsAreTrue ==
  step = "returned" /\ call \in Commands /\ pages # <<>> => done

\* Every call whose requests are all answered returns, whatever the answers: an
\* error ends it and no request is repeated.
CallEnds == step = "asked" ~> step = "returned"

=============================================================================
