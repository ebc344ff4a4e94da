----------------------------- MODULE Catalogue -----------------------------
(***************************************************************************)
(* The product table of internal/db/postgres.go and the handlers of        *)
(* internal/api/handler.go over it: start-up migration, CreateProduct,      *)
(* UpdateProduct, and ListProducts with the client that walks its pages.    *)
(* What the API's own cache does to GET /products/{id} is module CacheAside. *)
(*                                                                          *)
(* ListProducts runs two queries, COUNT and SELECT, without a transaction   *)
(* around them, and orders by created_at only: among rows of the same       *)
(* created_at each query may choose an order of its own.  created_at is     *)
(* NOW(), the start of the inserting transaction, so a row may become       *)
(* visible below one that is already there.                                 *)
(***************************************************************************)
EXTENDS Integers, FiniteSets

CONSTANTS Id, Price,
          Seeds,        \* the products that migrate inserts
          SeedPrice, SeedTime,
          Stamp,        \* values of created_at of products created later
          PageSizes,    \* values of ?pageSize that the client walks with
          MaxPageSize   \* 100

ASSUME CatalogueAssumption ==
  /\ Seeds \subseteq Id /\ IsFiniteSet(Id) /\ SeedPrice \in Price
  /\ SeedTime \in Nat /\ Stamp \subseteq Nat
  /\ PageSizes \subseteq Int /\ MaxPageSize \in Nat \ {0}

VARIABLES
  rows,     \* the products table: id -> [price, created]
  written,  \* history: the price last written to each product
  walk      \* the client that walks the pages

cvars == <<rows, written, walk>>

Row == [price : Price, created : {SeedTime} \cup Stamp]

NoWalk == [pc |-> "idle", size |-> 1, page |-> 0, seen |-> {}, owed |-> {}]

-----------------------------------------------------------------------------
(* db.New, CreateProduct and UpdateProduct: each is one statement. *)

With(r, id, row) == [i \in DOMAIN r \cup {id} |-> IF i = id THEN row ELSE r[i]]

SeedRow == [price |-> SeedPrice, created |-> SeedTime]

\* Mutant: ON CONFLICT (id) DO UPDATE.
migrate_Overwrites(r) ==
  [i \in DOMAIN r \cup Seeds |-> IF i \in Seeds THEN SeedRow ELSE r[i]]

\* ON CONFLICT (id) DO NOTHING
migrate(r) ==
  [i \in DOMAIN r \cup Seeds |-> IF i \in DOMAIN r THEN r[i] ELSE SeedRow]

Insert(id, price) ==
  /\ id \notin DOMAIN rows
  /\ \E t \in Stamp : rows' = With(rows, id, [price |-> price, created |-> t])
  /\ written' = With(written, id, price)

Update(id, price) ==
  /\ id \in DOMAIN rows
  /\ rows' = [rows EXCEPT ![id].price = price]
  /\ written' = [written EXCEPT ![id] = price]

\* The API process starts again.
Restart == rows' = migrate(rows) /\ UNCHANGED <<written, walk>>

CatalogueInit ==
  /\ rows = migrate([i \in {} |-> SeedRow]) /\ written = [i \in Seeds |-> SeedPrice]
  /\ walk = NoWalk

-----------------------------------------------------------------------------
(* Handler.ListProducts *)

\* The limits that the handler puts on ?pageSize.
ClampSize(size) == IF size < 1 THEN 1 ELSE IF size > MaxPageSize THEN MaxPageSize ELSE size

\* Mutant: page 1 starts at offset pageSize.
OffsetOf_PageTimesSize(page, size) == page * size

OffsetOf(page, size) == (page - 1) * size

\* The ids that ORDER BY created_at DESC LIMIT size OFFSET off may select: those
\* of the positions after off, in an order that the query chooses among ties.
Selections(size, off) ==
  LET Above(i)  == Cardinality({j \in DOMAIN rows : rows[j].created > rows[i].created})
      Tied(i)   == {j \in DOMAIN rows : rows[j].created = rows[i].created}
      \* the positions that the ties of i take up inside the page
      Inside(i) == Cardinality((Above(i) + 1)..(Above(i) + Cardinality(Tied(i)))
                                 \cap (off + 1)..(off + size))
  IN  {S \in SUBSET (DOMAIN rows) :
         \A i \in DOMAIN rows : Cardinality(S \cap Tied(i)) = Inside(i)}

-----------------------------------------------------------------------------
(* The client (external) asks for page after page until one is not full.  The *)
(* total that the handler counts in another query first, and requests that fail *)
(* and are made again, do not change what it sees.                              *)

\* owed is history: what was in the table when the walk began.
WalkStart(size) ==
  /\ walk = NoWalk
  /\ walk' = [pc |-> "select", size |-> ClampSize(size), page |-> 1, seen |-> {},
              owed |-> DOMAIN rows]
  /\ UNCHANGED <<rows, written>>

\* The products of one page.
ListPage ==
  /\ walk.pc = "select"
  /\ \E S \in Selections(walk.size, OffsetOf(walk.page, walk.size)) :
       walk' = IF Cardinality(S) < walk.size
               THEN [walk EXCEPT !.seen = @ \cup S, !.pc = "done"]
               ELSE [walk EXCEPT !.seen = @ \cup S, !.page = @ + 1]
  /\ UNCHANGED <<rows, written>>

WalkEnd == walk.pc = "done" /\ walk' = NoWalk /\ UNCHANGED <<rows, written>>

CatalogueNext ==
  \/ \E id \in Id, price \in Price : (Insert(id, price) \/ Update(id, price)) /\ UNCHANGED walk
  \/ Restart
  \/ \E size \in PageSizes : WalkStart(size)
  \/ ListPage \/ WalkEnd

-----------------------------------------------------------------------------
Unique(id) == \A j \in DOMAIN rows \ {id} : rows[j].created # rows[id].created

\* handler.go: a client that walks the pages of ListProducts sees every product
\* that was there when it began and that shares its created_at with no other,
\* although rows are inserted above, between and below the pages as it walks.
NothingSkipped ==
  walk.pc = "done" => \A id \in walk.owed : Unique(id) => id \in walk.seen

\* postgres.go: "ON CONFLICT DO NOTHING makes this idempotent - safe to run on
\* every startup": a restart brings back no old price, of a seed product either,
\* and loses no product.
WrittenIsKept ==
  /\ DOMAIN rows = DOMAIN written
  /\ \A id \in DOMAIN rows : rows[id].price = written[id]

-----------------------------------------------------------------------------
(* What comments say, and the code does not do. *)

\* handler.go: page is a "1-indexed page number" of the listing: all the pages
\* together list every product.  The seeds share their created_at.
PagesCoverAll ==
  walk.pc = "done" => walk.owed \subseteq walk.seen
=============================================================================
