----------------------------- MODULE Dashboard -----------------------------
(***************************************************************************)
(* The page of internal/proxy/dashboard.go with what it talks to: the       *)
(* proxy's store in front of every request, and the API behind it (modules   *)
(* Catalogue and ClusterStatus).                                             *)
(*                                                                          *)
(* The functions of the page run one at a time but give way at every await,  *)
(* so calls overlap: a call is a request on its way from the page through    *)
(* the proxy to the API and back, with what its function remembers.          *)
(*                                                                          *)
(* The proxy (module Proxy) keys its store by URL, whatever the method.  The  *)
(* API sets no Cache-Control, so every 2xx response is kept for the default   *)
(* TTL; here an entry may expire at any moment and does so some day.         *)
(***************************************************************************)
EXTENDS Catalogue, ClusterStatus

CONSTANTS Call,      \* the calls that can be under way together
          None,
          Panels,    \* what the page is used for: panels that share no URL
          Edits,     \* the products and prices that the user types
          GridSize,  \* the pageSize that the page asks for, 50
          MaxCalls   \* bound on calls that the user starts

ASSUME DashboardAssumption ==
  Id # {} /\ Edits \subseteq [id : Id, price : Price] /\ GridSize \in Int

VARIABLES
  panel,    \* the part of the page that is used
  calls, store,
  grid,     \* the product grid: what it shows, its rows and the total above it
  fetchId,  \* the input of the Fetch tab
  shown,    \* its result: the ids in the product and in the debug line
  debugBox, \* the id in the result of the debug card
  view,     \* the cluster panel
  ack,      \* history: how the update last reported as done was answered
  made      \* how many calls the user has started

pvars == <<calls, store, grid, fetchId, shown, debugBox, view, ack, made>>
dvars == <<panel, pvars, cvars, nvars>>

Idle == [pc |-> "idle", fn |-> None, id |-> None, price |-> None, resp |-> None,
         part |-> None, got |-> None, stored |-> FALSE, applied |-> FALSE]

Functions == {"loadProducts", "fetchProduct", "fetchDebug", "updatePrice", "addProduct",
              "debugKey", "refreshCluster"}

\* RequestURI.  fetchProduct and debugKey escape the key of the debug endpoint
\* differently.
URL(c) ==
  CASE c.fn = "loadProducts"                    -> <<"/products?pageSize=50">>
    [] c.fn = "addProduct"                      -> <<"/products">>
    [] c.fn \in {"fetchProduct", "updatePrice"} -> <<"/products/", c.id>>
    [] c.fn = "fetchDebug"                      -> <<"/cache/debug/product:", c.id>>
    [] c.fn = "debugKey"                        -> <<"/cache/debug/product%3A", c.id>>
    [] c.fn = "refreshCluster"                  -> <<"/cluster/status">>

URLs == {URL([fn |-> fn, id |-> id]) : fn \in Functions, id \in Id}

\* An error of the API is JSON, one of the proxy is plain text: r.json() throws.
Ok(data)   == [status |-> "ok", data |-> data]
ErrorJSON  == [status |-> "error", data |-> None]
PlainError == [status |-> "plain", data |-> None]

DashboardInit ==
  /\ CatalogueInit /\ ClusterInit
  /\ panel \in Panels /\ (panel # "cluster" => up = Node)
  /\ calls = [c \in Call |-> Idle] /\ store = [u \in URLs |-> None]
  /\ grid = [shows |-> "loading", rows |-> [i \in {} |-> 0], total |-> 0]
  /\ fetchId = None /\ shown = [product |-> None, debug |-> None] /\ debugBox = None
  /\ view = [shows |-> "loading", status |-> None] /\ ack = None /\ made = 0

-----------------------------------------------------------------------------
(* Calls. *)

Free == {c \in Call : calls[c] = Idle}
NewCall(fn, id, price) ==
  [Idle EXCEPT !.pc = "proxy", !.fn = fn, !.id = id, !.price = price]

\* The user starts a call (bound: MaxCalls).
UserCall(fn, id, price) ==
  /\ panel = "products" /\ Free # {} /\ made < MaxCalls
  /\ calls' = [calls EXCEPT ![CHOOSE c \in Free : TRUE] = NewCall(fn, id, price)]
  /\ made' = made + 1
  /\ UNCHANGED <<panel, store, grid, shown, debugBox, view, ack>> /\ UNCHANGED <<cvars, nvars>>

\* Opening the page and the Products tab.
ShowTab == UserCall("loadProducts", None, None) /\ UNCHANGED fetchId

\* Typing an id and Fetch, or Inspect on a card.
Fetch(id) == UserCall("fetchProduct", id, None) /\ fetchId' = id

\* Save, on a card of the grid.
SavePrice(id, price) ==
  id \in DOMAIN grid.rows /\ UserCall("updatePrice", id, price) /\ UNCHANGED fetchId

AddProduct(id, price) == UserCall("addProduct", id, price) /\ UNCHANGED fetchId

DebugKey(id) == UserCall("debugKey", id, None) /\ UNCHANGED fetchId

\* Mutant: the next poll is set up at the end of the try block.
Poll_UnlessFailed ==
  /\ panel = "cluster" /\ Free # {} /\ view.shows # "unreachable"
  /\ calls' = [calls EXCEPT ![CHOOSE c \in Free : TRUE] = NewCall("refreshCluster", None, None)]
  /\ UNCHANGED <<panel, store, grid, fetchId, shown, debugBox, view, ack, made>>
  /\ UNCHANGED <<cvars, nvars>>

\* setInterval(refreshCluster, 2000): polls overlap when one takes longer.
Poll ==
  /\ panel = "cluster" /\ Free # {}
  /\ calls' = [calls EXCEPT ![CHOOSE c \in Free : TRUE] = NewCall("refreshCluster", None, None)]
  /\ UNCHANGED <<panel, store, grid, fetchId, shown, debugBox, view, ack, made>>
  /\ UNCHANGED <<cvars, nvars>>

-----------------------------------------------------------------------------
(* The proxy. *)

At(c, pc, fns) == calls[c].pc = pc /\ calls[c].fn \in fns

Becomes(c, call) == calls' = [calls EXCEPT ![c] = call]

\* Lookup in the store: the method does not matter.
ProxyLookup(c) ==
  /\ calls[c].pc = "proxy"
  /\ LET found == store[URL(calls[c])]
     IN  Becomes(c, IF found # None
                    THEN [calls[c] EXCEPT !.pc = "answered", !.resp = found, !.stored = TRUE]
                    ELSE [calls[c] EXCEPT !.pc = "api"])
  /\ UNCHANGED <<store, rows, written, faults>>

\* The API cannot be reached, or its response gets lost: the store again, or 503.
ForwardFails(c) ==
  /\ calls[c].pc \in {"api", "select", "reply"} /\ Fault
  /\ LET found == store[URL(calls[c])]
     IN  Becomes(c, [calls[c] EXCEPT !.pc = "answered", !.part = None, !.stored = found # None,
                                     !.resp = IF found # None THEN found ELSE PlainError])
  /\ UNCHANGED <<store, rows, written>>

\* A 2xx response is stored, any response is passed on.
Receive(c) ==
  /\ calls[c].pc = "reply"
  /\ Becomes(c, [calls[c] EXCEPT !.pc = "answered"])
  /\ store' = IF calls[c].resp.status = "ok"
              THEN [store EXCEPT ![URL(calls[c])] = calls[c].resp] ELSE store
  /\ UNCHANGED <<rows, written, faults>>

Expire(u) ==
  /\ store[u] # None /\ store' = [store EXCEPT ![u] = None]
  /\ UNCHANGED <<calls, rows, written, faults>>

-----------------------------------------------------------------------------
(* The API. *)

Replies(c, resp) == Becomes(c, [calls[c] EXCEPT !.pc = "reply", !.resp = resp, !.part = None])

\* The service behind the endpoint is unavailable: 503 of the API.
ApiFails(c) ==
  /\ calls[c].pc \in {"api", "select"} /\ Fault
  /\ calls[c].fn \in {"loadProducts", "fetchProduct", "updatePrice", "addProduct"}
  /\ Replies(c, ErrorJSON) /\ UNCHANGED <<store, rows, written>>

\* Handler.GetProduct and DebugHandler.CacheDebug
ApiGet(c) ==
  /\ At(c, "api", {"fetchProduct", "fetchDebug", "debugKey"})
  /\ Replies(c, IF calls[c].fn = "fetchProduct" /\ calls[c].id \notin DOMAIN rows
                THEN ErrorJSON ELSE Ok(calls[c].id))
  /\ UNCHANGED <<store, rows, written, faults>>

\* The rows of the page that the grid asks for: the handler's page is 1.
FirstPage == Selections(ClampSize(GridSize), OffsetOf(1, ClampSize(GridSize)))

Prices(S) == [i \in S |-> rows[i].price]

\* Mutant: the products are selected first and counted afterwards.
ApiList_SelectFirst(c) ==
  /\ \/ /\ At(c, "api", {"loadProducts"})
        /\ \E S \in FirstPage : Becomes(c, [calls[c] EXCEPT !.pc = "select", !.part = Prices(S)])
     \/ /\ At(c, "select", {"loadProducts"})
        /\ Replies(c, Ok([rows |-> calls[c].part, total |-> Cardinality(DOMAIN rows)]))
  /\ UNCHANGED <<store, rows, written, faults>>

\* Handler.ListProducts: SELECT COUNT(*), then the SELECT of one page.
ApiList(c) ==
  /\ \/ /\ At(c, "api", {"loadProducts"})
        /\ Becomes(c, [calls[c] EXCEPT !.pc = "select", !.part = Cardinality(DOMAIN rows)])
     \/ /\ At(c, "select", {"loadProducts"})
        /\ \E S \in FirstPage : Replies(c, Ok([rows |-> Prices(S), total |-> calls[c].part]))
  /\ UNCHANGED <<store, rows, written, faults>>

Applied(c) ==
  Becomes(c, [calls[c] EXCEPT !.pc = "reply", !.resp = Ok(calls[c].id), !.applied = TRUE])

\* Handler.UpdateProduct; a product that has a card is in the table.
ApiUpdate(c) ==
  /\ At(c, "api", {"updatePrice"})
  /\ Update(calls[c].id, calls[c].price) /\ Applied(c)
  /\ UNCHANGED <<store, faults>>

\* Handler.CreateProduct
ApiCreate(c) ==
  /\ At(c, "api", {"addProduct"})
  /\ \/ Insert(calls[c].id, calls[c].price) /\ Applied(c)
     \/ calls[c].id \in DOMAIN rows /\ Replies(c, ErrorJSON) /\ UNCHANGED <<rows, written>>
  /\ UNCHANGED <<store, faults>>

\* DebugHandler.ClusterStatus: one node, or the response after the last one.
ApiStatus(c) ==
  /\ At(c, "api", {"refreshCluster"})
  /\ LET p == IF calls[c].part = None THEN NoProbe ELSE calls[c].part
     IN  IF p.todo = {}
         THEN /\ Replies(c, Ok([healthy |-> p.healthy, coordinator |-> p.coordinator]))
              /\ UNCHANGED faults
         ELSE \E n \in p.todo, answers \in BOOLEAN :
                Answers(n, answers) /\ Becomes(c, [calls[c] EXCEPT !.part = fetchNodeHealth(p, n, answers)])
  /\ UNCHANGED <<store, rows, written>>

-----------------------------------------------------------------------------
(* The page, after the await of each function. *)

Answered(c, fn) == At(c, "answered", {fn})

Has(c, status) == calls[c].resp.status = status

\* An error has no products in it, and neither has the page of an empty table.
LoadDone(c) ==
  /\ Answered(c, "loadProducts") /\ Becomes(c, Idle)
  /\ LET none == [i \in {} |-> 0]
         data == calls[c].resp.data IN
     grid' = CASE Has(c, "plain") -> [grid EXCEPT !.shows = "failed", !.rows = none]
               [] Has(c, "error") -> [shows |-> "empty", rows |-> none, total |-> 0]
               [] OTHER -> [shows |-> IF DOMAIN data.rows = {} THEN "empty" ELSE "products",
                            rows |-> data.rows, total |-> data.total]
  /\ UNCHANGED <<shown, debugBox, view, ack>>

\* Mutant: the second request is for the id that is in the input by then.
FetchDone_ReadsInput(c) ==
  /\ Answered(c, "fetchProduct")
  /\ Becomes(c, IF Has(c, "plain") THEN Idle
                ELSE [NewCall("fetchDebug", fetchId, None) EXCEPT !.got = calls[c].resp.data])
  /\ UNCHANGED <<grid, shown, debugBox, view, ack>>

\* fetchProduct, between its two requests; an exception ends it.
FetchDone(c) ==
  /\ Answered(c, "fetchProduct")
  /\ Becomes(c, IF Has(c, "plain") THEN Idle
                ELSE [NewCall("fetchDebug", calls[c].id, None) EXCEPT !.got = calls[c].resp.data])
  /\ UNCHANGED <<grid, shown, debugBox, view, ack>>

FetchShow(c) ==
  /\ Answered(c, "fetchDebug") /\ Becomes(c, Idle)
  /\ shown' = [product |-> calls[c].got, debug |-> calls[c].resp.data]
  /\ UNCHANGED <<grid, debugBox, view, ack>>

Acknowledged(c) == [stored |-> calls[c].stored, applied |-> calls[c].applied]

\* After the toast toggleEdit throws if the grid has lost the card meanwhile;
\* otherwise the list is loaded again and the debug card is asked for the key.
UpdateOk(c) ==
  /\ ack' = Acknowledged(c)
  /\ IF calls[c].id \notin DOMAIN grid.rows THEN Becomes(c, Idle)
     ELSE \E d \in Free :
            calls' = [calls EXCEPT ![c] = NewCall("debugKey", calls[c].id, None),
                                   ![d] = NewCall("loadProducts", None, None)]

\* Mutant: r.ok is not looked at.
UpdateDone_AnyStatus(c) ==
  /\ Answered(c, "updatePrice")
  /\ IF Has(c, "plain") THEN Becomes(c, Idle) /\ UNCHANGED ack ELSE UpdateOk(c)
  /\ UNCHANGED <<grid, shown, debugBox, view>>

UpdateDone(c) ==
  /\ Answered(c, "updatePrice")
  /\ IF Has(c, "ok") THEN UpdateOk(c) ELSE Becomes(c, Idle) /\ UNCHANGED ack
  /\ UNCHANGED <<grid, shown, debugBox, view>>

AddDone(c) ==
  /\ Answered(c, "addProduct") /\ Becomes(c, Idle)
  /\ ack' = IF Has(c, "ok") THEN Acknowledged(c) ELSE ack
  /\ UNCHANGED <<grid, shown, debugBox, view>>

DebugDone(c) ==
  /\ Answered(c, "debugKey") /\ Becomes(c, Idle)
  /\ debugBox' = calls[c].resp.data
  /\ UNCHANGED <<grid, shown, view, ack>>

RefreshDone(c) ==
  /\ Answered(c, "refreshCluster") /\ Becomes(c, Idle)
  /\ view' = IF Has(c, "plain") THEN [view EXCEPT !.shows = "unreachable"]
             ELSE [shows |-> "nodes", status |-> calls[c].resp.data]
  /\ UNCHANGED <<grid, shown, debugBox, ack>>

-----------------------------------------------------------------------------
Page(c) ==
  /\ LoadDone(c) \/ FetchDone(c) \/ FetchShow(c) \/ UpdateDone(c) \/ AddDone(c) \/ DebugDone(c)
     \/ RefreshDone(c)
  /\ UNCHANGED <<panel, store, fetchId, made>> /\ UNCHANGED <<cvars, nvars>>

Server(c) ==
  /\ ProxyLookup(c) \/ Receive(c) \/ ApiGet(c) \/ ApiList(c) \/ ApiUpdate(c) \/ ApiCreate(c)
     \/ ApiStatus(c)
  /\ UNCHANGED <<panel, grid, fetchId, shown, debugBox, view, ack, made, walk, up, claims>>

Failure(c) ==
  /\ ForwardFails(c) \/ ApiFails(c)
  /\ UNCHANGED <<panel, grid, fetchId, shown, debugBox, view, ack, made, walk, up, claims>>

Expires ==
  /\ \E u \in URLs : Expire(u)
  /\ UNCHANGED <<panel, grid, fetchId, shown, debugBox, view, ack, made, walk, up, claims>>

User ==
  \/ ShowTab
  \/ \E e \in Edits : Fetch(e.id) \/ DebugKey(e.id) \/ SavePrice(e.id, e.price) \/ AddProduct(e.id, e.price)

Others ==
  \/ panel = "cluster" /\ ClusterStep /\ UNCHANGED <<panel, pvars, cvars>>
  \/ panel = "paging" /\ CatalogueNext /\ UNCHANGED <<panel, pvars, nvars>>

DashboardNext ==
  \/ User \/ Poll \/ Expires \/ Others
  \/ \E c \in Call : Page(c) \/ Server(c) \/ Failure(c)

\* The interval timer goes on, requests are answered, entries expire.
DashboardSpec ==
  /\ DashboardInit /\ [][DashboardNext]_dvars
  /\ WF_dvars(Poll) /\ WF_dvars(Expires)
  /\ \A c \in Call : WF_dvars(Page(c) \/ Server(c))

-----------------------------------------------------------------------------
(* Properties. *)

\* fetchProduct: the product and the routing information that it renders
\* together are of the same id, whatever is typed, fetched or stored between its
\* two requests.
OneProductShown ==
  shown.product # None /\ shown.debug # None => shown.product = shown.debug

\* updatePrice and addProduct: when the page reports success, the database has
\* taken the change from this very call, or else the proxy answered it from its
\* store.  No lost response, error or overlap of calls is another way.
AppliedOrStored ==
  ack # None => ack.applied \/ ack.stored

\* loadProducts: a grid that has room for more products shows at least as many
\* as the total above it promises (the count is an earlier query and products are
\* not deleted), also when an older response comes last or out of the store; and
\* no grid has more than the page size.  Beyond that size the total is ahead.
TotalNotAhead ==
  grid.shows = "products" =>
    LET cards == Cardinality(DOMAIN grid.rows)
    IN  cards =< ClampSize(GridSize) /\ (cards < ClampSize(GridSize) => grid.total =< cards)

\* refreshCluster: once nothing changes any more, the panel shows for good which
\* nodes answer and a coordinator that claims to be it, however polls overtake
\* one another and whatever the proxy had stored.
ViewCatchesUp ==
  panel = "cluster" =>
    <>[](/\ view.shows = "nodes" /\ view.status.healthy = up \cap Addressed
         /\ IF claims \cap Addressed = {} THEN view.status.coordinator = NoNode
            ELSE view.status.coordinator \in claims \cap Addressed)

-----------------------------------------------------------------------------
(* What comments and documents say, and the code does not do. *)

\* CONTEXT.md: the dashboard "allows a developer to [...] add a product, and
\* update a product's price": what it reports as done is in the database.
ReportedIsDone ==
  ack # None => ack.applied

\* dashboard.go: "No products found. Add one!" is shown only when there are none.
EmptyMeansNone ==
  grid.shows = "empty" => DOMAIN rows = {}
=============================================================================
