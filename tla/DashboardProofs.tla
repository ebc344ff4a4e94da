--------------------------- MODULE DashboardProofs ---------------------------
(****************************************************************************)
(* Proofs about Dashboard with the Catalogue behind it, for every number of *)
(* products, prices, page sizes and calls under way, and every set of       *)
(* panels: what the page shows and reports, and what ListProducts and the   *)
(* migration promise.                                                       *)
(*                                                                          *)
(* The table (CatalogueInv). created_at never changes and rows are not      *)
(* deleted, so the rows above a product only grow in number. While a walk   *)
(* goes on, a product that it owes has been seen or still lies at or behind *)
(* the offset of the next page (WalkOK). A page holds every row of a        *)
(* created_at of its own whose position is inside the page (UniqueOnPage),  *)
(* and a page that is not full ends behind the last row (FullPage); both    *)
(* come from counting the rows of a page (PageOfTop, one group of ties      *)
(* after the other).                                                        *)
(*                                                                          *)
(* The page (DashboardInv). A response is either an error or fits the call  *)
(* that it answers (RespOK). The store can hand a response to another call  *)
(* only under the same URL, and functions that share a URL expect the same  *)
(* of it (StoreOK, SameURL). The count of a listing is not above the number *)
(* of products when its second query runs, because no product goes          *)
(* (CountGrows).                                                            *)
(****************************************************************************)
EXTENDS Dashboard, FiniteSetTheorems, WellFoundedInduction, TLAPS

-----------------------------------------------------------------------------
(* The table. *)

\* Rows have their types, the seeds stay, and prices are those last written.
TableOK ==
  /\ rows \in [DOMAIN rows -> Row] /\ Seeds \subseteq DOMAIN rows /\ DOMAIN rows \subseteq Id
  /\ written \in [DOMAIN rows -> Price]
  /\ \A id \in DOMAIN rows : rows[id].price = written[id]

\* How the table may change: rows appear, and keep their created_at.
TableGrows ==
  /\ DOMAIN rows \subseteq DOMAIN rows'
  /\ \A id \in DOMAIN rows : rows'[id].created = rows[id].created

\* The rows that ORDER BY created_at DESC puts before that of id.
Above(id) == {j \in DOMAIN rows : rows[j].created > rows[id].created}

\* A product that is owed was seen, or does not come before the next page.
WalkOK ==
  /\ walk = [pc |-> walk.pc, size |-> walk.size, page |-> walk.page, seen |-> walk.seen,
             owed |-> walk.owed]
  /\ walk.pc \in {"idle", "select", "done"}
  /\ walk.size \in Nat \ {0} /\ walk.page \in Nat /\ walk.owed \subseteq DOMAIN rows
  /\ walk.pc = "select" =>
       /\ walk.page # 0
       /\ \A id \in walk.owed : Unique(id) =>
            id \in walk.seen \/ Cardinality(Above(id)) >= OffsetOf(walk.page, walk.size)
  /\ NothingSkipped

\* The inductive invariant of the table and the walk.
CatalogueInv == TableOK /\ WalkOK

\* The rows that come before created_at t.
Before(t) == {j \in DOMAIN rows : rows[j].created > t}

\* The table is finite, and created_at is a number.
LEMMA TableFacts ==
  ASSUME TableOK
  PROVE  /\ IsFiniteSet(DOMAIN rows)
         /\ \A T \in SUBSET DOMAIN rows : IsFiniteSet(T) /\ Cardinality(T) \in Nat
         /\ \A i \in DOMAIN rows : rows[i].created \in Nat /\ rows[i].price \in Price
<1>1. IsFiniteSet(DOMAIN rows)
  BY CatalogueAssumption, FS_Subset DEF TableOK
<1>2. \A T \in SUBSET DOMAIN rows : IsFiniteSet(T) /\ Cardinality(T) \in Nat
  BY <1>1, FS_Subset, FS_CardinalityType
<1>3. \A i \in DOMAIN rows : rows[i].created \in Nat /\ rows[i].price \in Price
  BY CatalogueAssumption DEF TableOK, Row
<1> QED  BY <1>1, <1>2, <1>3

\* A set of natural numbers that is not empty has a least element.
LEMMA LeastExists ==
  ASSUME NEW S \in SUBSET Nat, S # {}
  PROVE  \E x \in S : \A y \in S : x =< y
<1> DEFINE R == {ss \in Nat \X Nat : ss[1] < ss[2]}
<1>1. IsWellFoundedOn(R, Nat)
  BY NatLessThanWellFounded DEF OpToRel
<1>2. \A a, b \in Nat : a < b => <<a, b>> \in R
  OBVIOUS
<1> HIDE DEF R
<1>3. PICK x \in S : \A y \in S : ~(<<y, x>> \in R)
  BY <1>1, WFMin, Zenon
<1>4. ASSUME NEW y \in S PROVE x =< y
  <2>1. x \in Nat /\ y \in Nat
    OBVIOUS
  <2>2. ~(y < x)
    BY <1>2, <1>3, <2>1, Zenon
  <2> QED  BY <2>1, <2>2
<1> QED  BY <1>4

\* The size of a union of two sets that share nothing.
LEMMA DisjointUnion ==
  ASSUME NEW P, NEW Q, IsFiniteSet(P), IsFiniteSet(Q), P \cap Q = {}
  PROVE  /\ Cardinality(P) \in Nat /\ Cardinality(Q) \in Nat
         /\ Cardinality(P \cup Q) = Cardinality(P) + Cardinality(Q)
<1>1. Cardinality(P) \in Nat /\ Cardinality(Q) \in Nat
  BY FS_CardinalityType
<1>2. Cardinality(P \cup Q) = Cardinality(P) + Cardinality(Q) - Cardinality(P \cap Q)
  BY FS_Union
<1>3. Cardinality(P \cap Q) = 0
  BY FS_EmptySet
<1> HIDE DEF Cardinality
<1> QED  BY <1>1, <1>2, <1>3

\* Cutting an interval of positions in two.
LEMMA CutPositions ==
  ASSUME NEW m \in Nat, NEW n \in Nat, NEW pos, IsFiniteSet(pos)
  PROVE  Cardinality((1..(m + n)) \cap pos)
           = Cardinality((1..m) \cap pos) + Cardinality(((m + 1)..(m + n)) \cap pos)
<1> DEFINE A == (1..(m + n)) \cap pos
           P == (1..m) \cap pos
           Q == ((m + 1)..(m + n)) \cap pos
<1>1. IsFiniteSet(P) /\ IsFiniteSet(Q)
  BY FS_Subset
<1>2. A = P \cup Q /\ P \cap Q = {}
  OBVIOUS
<1> HIDE DEF A, P, Q
<1>3. Cardinality(A) = Cardinality(P) + Cardinality(Q)
  BY <1>1, <1>2, DisjointUnion
<1> QED  BY <1>3 DEF A, P, Q

\* ListProducts: of the rows that come before any t, a page holds as many as
\* there are positions of theirs inside the page, whatever order the query
\* chooses among ties.  By induction on their number: the last group of ties
\* among them is added to those before it.
LEMMA PageOfTop ==
  ASSUME TableOK, NEW size \in Nat, NEW off \in Nat, NEW S \in Selections(size, off), NEW t \in Int
  PROVE  Cardinality(S \cap Before(t))
           = Cardinality((1..Cardinality(Before(t))) \cap ((off + 1)..(off + size)))
<1> DEFINE pos     == (off + 1)..(off + size)
           Good(u) == Cardinality(S \cap Before(u)) = Cardinality((1..Cardinality(Before(u))) \cap pos)
           Bad     == {u \in Int : ~Good(u)}
           Sizes   == {Cardinality(Before(u)) : u \in Bad}
<1>1. S \subseteq DOMAIN rows
  BY DEF Selections
<1>2. \A u \in Int : Before(u) \subseteq DOMAIN rows
  BY DEF Before
<1>3. SUFFICES ASSUME Bad # {} PROVE FALSE
  BY Zenon
<1>4. Sizes \in SUBSET Nat /\ Sizes # {}
  BY <1>2, <1>3, TableFacts, Zenon
<1>5. PICK n \in Sizes : \A m \in Sizes : n =< m
  BY <1>4, LeastExists, Zenon
<1>6. PICK u \in Bad : n = Cardinality(Before(u))
  BY Zenon
<1>7. CASE Before(u) = {}
  <2>1. Cardinality(Before(u)) = 0 /\ S \cap Before(u) = {}
    BY <1>7, FS_EmptySet
  <2>2. 1..Cardinality(Before(u)) = {}
    BY <2>1
  <2>3. (1..Cardinality(Before(u))) \cap pos = {}
    BY <2>2
  <2> QED  BY <1>6, <2>1, <2>3
<1>8. CASE Before(u) # {}
  <2> DEFINE C == {rows[j].created : j \in Before(u)}
  <2>1. C \in SUBSET Nat /\ C # {}
    BY <1>2, <1>8, TableFacts
  <2>2. PICK x \in C : \A y \in C : x =< y
    BY <2>1, LeastExists, Zenon
  <2>3. PICK i \in Before(u) : rows[i].created = x
    OBVIOUS
  <2>4. x \in Nat /\ i \in DOMAIN rows /\ x > u
    BY <1>2, <2>1, <2>3, SMTT(30) DEF Before
  <2> DEFINE Tied == {j \in DOMAIN rows : rows[j].created = rows[i].created}
  <2>5. Before(u) = Before(x) \cup Tied /\ Before(x) \cap Tied = {}
    <3>1. ASSUME NEW j \in DOMAIN rows
          PROVE  rows[j].created > u <=> rows[j].created > x \/ rows[j].created = x
      <4>1. rows[j].created \in Nat
        BY TableFacts
      <4>2. rows[j].created > u => x =< rows[j].created
        BY <2>2 DEF Before
      <4> QED  BY <1>6, <2>4, <4>1, <4>2
    <3> QED  BY <2>3, <2>4, <3>1, TableFacts DEF Before
  <2>6. Before(x) \subseteq DOMAIN rows /\ Tied \subseteq DOMAIN rows /\ Tied # {}
    BY <2>4 DEF Before
  <2>7. Cardinality(S \cap Tied)
          = Cardinality(((Cardinality(Before(x)) + 1)..(Cardinality(Before(x)) + Cardinality(Tied))) \cap pos)
    BY <2>3, <2>4, Zenon DEF Selections, Before
  <2> HIDE DEF Tied
  <2>8. /\ IsFiniteSet(Before(x)) /\ IsFiniteSet(Tied)
        /\ Cardinality(Before(x)) \in Nat /\ Cardinality(Tied) \in Nat /\ Cardinality(Tied) # 0
    BY <2>6, TableFacts, FS_EmptySet
  <2>9. Cardinality(Before(u)) = Cardinality(Before(x)) + Cardinality(Tied)
    BY <2>5, <2>8, DisjointUnion
  <2>10. x \notin Bad
    <3>1. ASSUME x \in Bad PROVE FALSE
      <4>1. Cardinality(Before(x)) \in Sizes
        BY <3>1, Zenon
      <4>2. n =< Cardinality(Before(x))
        BY <1>5, <4>1, Zenon
      <4> HIDE DEF Sizes
      <4> QED  BY <1>6, <2>8, <2>9, <4>2
    <3> QED  BY <3>1
  <2>11. Cardinality(S \cap Before(x)) = Cardinality((1..Cardinality(Before(x))) \cap pos)
    <3>1. x \in Int
      BY <2>4
    <3> QED  BY <2>10, <3>1
  <2>12. Cardinality(S \cap Before(u)) = Cardinality(S \cap Before(x)) + Cardinality(S \cap Tied)
    <3> DEFINE P == S \cap Before(x)
               Q == S \cap Tied
    <3>1. S \cap Before(u) = P \cup Q /\ P \cap Q = {}
      BY <2>5
    <3>2. IsFiniteSet(P) /\ IsFiniteSet(Q)
      BY <2>8, FS_Subset, SMTT(30)
    <3> HIDE DEF P, Q
    <3>3. Cardinality(P \cup Q) = Cardinality(P) + Cardinality(Q)
      BY <3>1, <3>2, DisjointUnion, SMTT(30)
    <3> QED  BY <3>1, <3>3, Zenon DEF P, Q
  <2>13. Cardinality((1..Cardinality(Before(u))) \cap pos)
           = Cardinality((1..Cardinality(Before(x))) \cap pos) + Cardinality(S \cap Tied)
    <3> DEFINE m == Cardinality(Before(x))
               n2 == Cardinality(Tied)
    <3>1. m \in Nat /\ n2 \in Nat /\ IsFiniteSet(pos)
      BY <2>8, FS_Interval
    <3> HIDE DEF m, n2, pos
    <3>2. Cardinality((1..(m + n2)) \cap pos)
            = Cardinality((1..m) \cap pos) + Cardinality(((m + 1)..(m + n2)) \cap pos)
      BY <3>1, CutPositions
    <3> QED  BY <2>7, <2>9, <3>2 DEF m, n2
  <2>14. Good(u)
    BY <2>11, <2>12, <2>13
  <2> QED  BY <1>6, <2>14
<1> QED  BY <1>7, <1>8

\* A page that some row comes after is full.
LEMMA FullPage ==
  ASSUME TableOK, NEW size \in Nat, NEW off \in Nat, NEW S \in Selections(size, off),
         NEW id \in DOMAIN rows, Cardinality(Above(id)) >= off + size
  PROVE  ~(Cardinality(S) < size)
<1> DEFINE t == rows[id].created
<1>1. t \in Int /\ Before(t) = Above(id)
  BY TableFacts DEF Before, Above
<1>2. Cardinality(Above(id)) \in Nat
  BY TableFacts DEF Above
<1>3. (1..Cardinality(Above(id))) \cap ((off + 1)..(off + size)) = (off + 1)..(off + size)
  BY <1>2
<1>4. Cardinality((off + 1)..(off + size)) = size
  BY FS_Interval
<1>5. Cardinality(S \cap Before(t)) = size
  BY <1>1, <1>3, <1>4, PageOfTop
<1>6. IsFiniteSet(S) /\ Cardinality(S) \in Nat
  BY TableFacts DEF Selections
<1>7. Cardinality(S \cap Before(t)) =< Cardinality(S)
  BY <1>6, FS_Subset
<1> QED  BY <1>5, <1>6, <1>7

\* The first page is full, or has every row.
LEMMA FirstPageFills ==
  ASSUME TableOK, NEW size \in Nat, NEW S \in Selections(size, 0)
  PROVE  /\ IsFiniteSet(S) /\ Cardinality(S) \in Nat /\ Cardinality(S) =< size
         /\ Cardinality(S) < size => Cardinality(S) = Cardinality(DOMAIN rows)
<1> DEFINE n == Cardinality(DOMAIN rows)
           m == IF n < size THEN n ELSE size
<1>1. S \subseteq DOMAIN rows /\ IsFiniteSet(S) /\ Cardinality(S) \in Nat /\ n \in Nat
  BY TableFacts DEF Selections
<1>2. Before(-1) = DOMAIN rows
  <2>1. ASSUME NEW j \in DOMAIN rows PROVE rows[j].created > -1
    <3>1. rows[j].created \in Nat
      BY TableFacts, Zenon
    <3> QED  BY <3>1
  <2> QED  BY <2>1, Zenon DEF Before
<1>3. S \cap Before(-1) = S
  BY <1>1, <1>2
<1>4. Cardinality(S) = Cardinality((1..n) \cap ((0 + 1)..(0 + size)))
  <2>1. Cardinality(S \cap Before(-1))
          = Cardinality((1..Cardinality(Before(-1))) \cap ((0 + 1)..(0 + size)))
    BY PageOfTop
  <2> QED  BY <1>2, <1>3, <2>1, Zenon
<1> HIDE DEF n
<1>5. (1..n) \cap ((0 + 1)..(0 + size)) = 1..m /\ m \in Nat
  BY <1>1
<1> HIDE DEF m
<1>6. Cardinality(1..m) = m
  BY <1>5, FS_Interval
<1>7. Cardinality(S) = m
  BY <1>4, <1>5, <1>6, Zenon
<1> QED  BY <1>1, <1>7 DEF n, m

\* A row of a created_at of its own is in the page that its position is in.
LEMMA UniqueOnPage ==
  ASSUME TableOK, NEW size \in Nat, NEW off \in Nat, NEW S \in Selections(size, off),
         NEW id \in DOMAIN rows, Unique(id),
         Cardinality(Above(id)) >= off, Cardinality(Above(id)) < off + size
  PROVE  id \in S
<1> DEFINE Tied == {j \in DOMAIN rows : rows[j].created = rows[id].created}
           a    == Cardinality(Above(id))
<1>1. Tied = {id}
  BY DEF Unique
<1>2. a \in Nat
  BY TableFacts DEF Above
<1>3. Cardinality(S \cap Tied)
        = Cardinality(((a + 1)..(a + Cardinality(Tied))) \cap ((off + 1)..(off + size)))
  BY Zenon DEF Selections, Above
<1> HIDE DEF Tied, a
<1>4. Cardinality(Tied) = 1
  BY <1>1, FS_Singleton
<1>5. ((a + 1)..(a + 1)) \cap ((off + 1)..(off + size)) = {a + 1}
  BY <1>2 DEF a
<1>6. Cardinality(S \cap {id}) = 1
  BY <1>1, <1>3, <1>4, <1>5, FS_Singleton, Zenon
<1>7. S \cap {id} # {}
  BY <1>6, FS_EmptySet
<1> QED  BY <1>7


\* CreateProduct.
LEMMA InsertKeepsTable ==
  ASSUME TableOK, NEW id \in Id, NEW price \in Price, Insert(id, price)
  PROVE  TableOK' /\ TableGrows
<1>1. PICK t \in Stamp : rows' = With(rows, id, [price |-> price, created |-> t])
  BY DEF Insert
<1> DEFINE row == [price |-> price, created |-> t]
<1>2. row \in Row /\ row.price = price
  BY DEF Row
<1> HIDE DEF row
<1>3. rows' = With(rows, id, row) /\ written' = With(written, id, price) /\ id \notin DOMAIN rows
  BY <1>1 DEF Insert, row
<1>4. DOMAIN rows' = DOMAIN rows \cup {id} /\ rows'[id] = row
      /\ \A i \in DOMAIN rows : rows'[i] = rows[i]
  BY <1>3 DEF With
<1>5. DOMAIN written' = DOMAIN rows' /\ written'[id] = price
      /\ \A i \in DOMAIN rows : written'[i] = written[i]
  BY <1>3, <1>4 DEF With, TableOK
<1>6. rows' \in [DOMAIN rows' -> Row] /\ written' \in [DOMAIN rows' -> Price]
  BY <1>2, <1>3, <1>4, <1>5 DEF With, TableOK
<1>7. \A i \in DOMAIN rows' : rows'[i].price = written'[i]
  BY <1>2, <1>4, <1>5 DEF TableOK
<1>8. TableOK'
  BY <1>4, <1>6, <1>7 DEF TableOK
<1> QED  BY <1>4, <1>8 DEF TableGrows

\* UpdateProduct.
LEMMA UpdateKeepsTable ==
  ASSUME TableOK, NEW id, NEW price \in Price, Update(id, price)
  PROVE  TableOK' /\ TableGrows
<1>1. id \in DOMAIN rows /\ rows[id] \in Row
  BY DEF Update, TableOK
<1> DEFINE row == [rows[id] EXCEPT !.price = price]
<1>2. row \in Row /\ row.price = price /\ row.created = rows[id].created
  BY <1>1 DEF Row
<1>3. rows' = [rows EXCEPT ![id] = row] /\ written' = [written EXCEPT ![id] = price]
  BY DEF Update
<1> HIDE DEF row
<1>4. DOMAIN rows' = DOMAIN rows /\ rows'[id] = row
      /\ \A i \in DOMAIN rows : i # id => rows'[i] = rows[i]
  BY <1>1, <1>3
<1>5. written' \in [DOMAIN rows -> Price] /\ written'[id] = price
      /\ \A i \in DOMAIN rows : i # id => written'[i] = written[i]
  BY <1>1, <1>3 DEF TableOK
<1>6. rows' \in [DOMAIN rows -> Row]
  BY <1>1, <1>2, <1>3 DEF TableOK
<1>7. \A i \in DOMAIN rows : rows'[i].price = written'[i] /\ rows'[i].created = rows[i].created
  BY <1>2, <1>4, <1>5 DEF TableOK
<1> QED  BY <1>4, <1>5, <1>6, <1>7 DEF TableOK, TableGrows

\* migrate, when the API starts again: the seeds are still there.
LEMMA RestartKeepsTable ==
  ASSUME TableOK, Restart
  PROVE  rows' = rows /\ written' = written
<1>1. rows' = [i \in DOMAIN rows |-> rows[i]] /\ written' = written
  BY DEF Restart, migrate, TableOK
<1>2. rows = [i \in DOMAIN rows |-> rows[i]]
  BY DEF TableOK
<1> QED  BY <1>1, <1>2

\* A walk is not disturbed by rows that appear: positions only grow, and a row
\* that shares its created_at with none did not share it before.
LEMMA GrowthKeepsWalk ==
  ASSUME TableOK, WalkOK, TableOK', TableGrows, walk' = walk
  PROVE  WalkOK'
<1>1. ASSUME NEW id \in DOMAIN rows, Unique(id)'
      PROVE  Unique(id)
  BY <1>1 DEF Unique, TableGrows
<1>2. ASSUME NEW id \in DOMAIN rows
      PROVE  /\ Cardinality(Above(id)) \in Nat /\ Cardinality(Above(id)') \in Nat
             /\ Cardinality(Above(id)) =< Cardinality(Above(id)')
  <2>1. Above(id) \subseteq Above(id)' /\ Above(id)' \subseteq DOMAIN rows'
    BY DEF Above, TableGrows
  <2>2. IsFiniteSet(DOMAIN rows')
    BY CatalogueAssumption, FS_Subset DEF TableOK
  <2>3. IsFiniteSet(Above(id)')
    BY <2>1, <2>2, FS_Subset
  <2> QED  BY <2>1, <2>3, FS_Subset, FS_CardinalityType
<1>3. walk.owed \subseteq DOMAIN rows'
  BY DEF WalkOK, TableGrows
<1>4. ASSUME walk.pc = "select", NEW id \in walk.owed, Unique(id)', id \notin walk.seen
      PROVE  Cardinality(Above(id)') >= OffsetOf(walk.page, walk.size)
  <2>1. Cardinality(Above(id)) >= OffsetOf(walk.page, walk.size)
    BY <1>1, <1>4 DEF WalkOK
  <2>2. OffsetOf(walk.page, walk.size) \in Int
    BY DEF WalkOK, OffsetOf
  <2> QED  BY <1>2, <1>4, <2>1, <2>2 DEF WalkOK
<1>5. NothingSkipped'
  BY <1>1 DEF NothingSkipped, WalkOK
<1>6. OffsetOf(walk.page, walk.size)' = OffsetOf(walk.page, walk.size)
  BY DEF OffsetOf
<1> QED  BY <1>3, <1>4, <1>5, <1>6 DEF WalkOK

\* A step that leaves the table alone leaves what is said of it.
LEMMA SameTable ==
  ASSUME TableOK, UNCHANGED <<rows, written>>
  PROVE  TableOK' /\ TableGrows
BY DEF TableOK, TableGrows

\* The first page is asked for: nothing is above position zero.
LEMMA WalkStartKeeps ==
  ASSUME CatalogueInv, NEW size \in PageSizes, WalkStart(size)
  PROVE  CatalogueInv'
<1>1. TableOK'
  BY SameTable DEF CatalogueInv, WalkStart
<1>2. ClampSize(size) \in Nat \ {0}
  BY CatalogueAssumption DEF ClampSize
<1>3. walk' = [pc |-> "select", size |-> ClampSize(size), page |-> 1, seen |-> {},
               owed |-> DOMAIN rows] /\ rows' = rows
  BY DEF WalkStart
<1>4. OffsetOf(1, ClampSize(size)) = 0
  BY <1>2 DEF OffsetOf
<1>5. \A id \in DOMAIN rows : Cardinality(Above(id)) >= 0
  BY TableFacts DEF CatalogueInv, Above
<1>6. \A id \in DOMAIN rows : Cardinality(Above(id)') >= OffsetOf(walk.page, walk.size)'
  BY <1>3, <1>4, <1>5 DEF Above
<1>7. NothingSkipped'
  BY <1>3 DEF NothingSkipped
<1> QED  BY <1>1, <1>2, <1>3, <1>6, <1>7 DEF CatalogueInv, WalkOK

\* A page: a row that is owed is on it, or comes after it, and then it is full.
LEMMA ListPageKeeps ==
  ASSUME CatalogueInv, ListPage
  PROVE  CatalogueInv'
<1> DEFINE off == OffsetOf(walk.page, walk.size)
<1>0. /\ TableOK /\ TableOK' /\ rows' = rows /\ walk.pc = "select"
      /\ walk.size \in Nat \ {0} /\ walk.page \in Nat \ {0} /\ walk.owed \subseteq DOMAIN rows
  BY SameTable DEF CatalogueInv, ListPage, WalkOK
<1>1. off \in Nat
  BY <1>0 DEF OffsetOf
<1>2. OffsetOf(walk.page + 1, walk.size) = off + walk.size
  <2>1. \A p, n \in Int : ((p + 1) - 1) * n = ((p - 1) * n) + n
    OBVIOUS
  <2>2. walk.page \in Int /\ walk.size \in Int
    BY <1>0
  <2> QED  BY <2>1, <2>2, Zenon DEF OffsetOf
<1> HIDE DEF off
<1>3. PICK S \in Selections(walk.size, off) :
        walk' = IF Cardinality(S) < walk.size
                THEN [walk EXCEPT !.seen = @ \cup S, !.pc = "done"]
                ELSE [walk EXCEPT !.seen = @ \cup S, !.page = @ + 1]
  BY Zenon DEF ListPage, off
<1>4. ASSUME NEW id \in walk.owed, Unique(id)
      PROVE  id \in walk.seen \cup S \/ Cardinality(Above(id)) >= off + walk.size
  <2>1. id \in walk.seen \/ Cardinality(Above(id)) >= off
    BY <1>0, <1>4 DEF CatalogueInv, WalkOK, off
  <2>2. Cardinality(Above(id)) \in Nat
    BY <1>0, TableFacts DEF Above
  <2>3. CASE id \notin walk.seen /\ Cardinality(Above(id)) < off + walk.size
    BY <1>0, <1>1, <1>4, <2>1, <2>3, UniqueOnPage
  <2> QED  BY <1>0, <1>1, <2>2, <2>3
<1>5. walk = [pc |-> walk.pc, size |-> walk.size, page |-> walk.page, seen |-> walk.seen,
              owed |-> walk.owed]
  BY DEF CatalogueInv, WalkOK
<1>6. \A id : Unique(id)' = Unique(id) /\ Above(id)' = Above(id)
  BY <1>0 DEF Unique, Above
<1>7. CASE Cardinality(S) < walk.size
  <2>1. walk' = [pc |-> "done", size |-> walk.size, page |-> walk.page, seen |-> walk.seen \cup S,
                 owed |-> walk.owed]
    BY <1>3, <1>5, <1>7, Zenon
  <2>2. ASSUME NEW id \in walk.owed, Unique(id) PROVE id \in walk.seen \cup S
    BY <1>0, <1>1, <1>4, <1>7, <2>2, FullPage
  <2>3. NothingSkipped'
    BY <1>6, <2>1, <2>2 DEF NothingSkipped
  <2> QED  BY <1>0, <2>1, <2>3 DEF CatalogueInv, WalkOK
<1>8. CASE ~(Cardinality(S) < walk.size)
  <2>1. walk' = [pc |-> "select", size |-> walk.size, page |-> walk.page + 1,
                 seen |-> walk.seen \cup S, owed |-> walk.owed]
    BY <1>0, <1>3, <1>5, <1>8, Zenon
  <2>2. \A id \in walk'.owed : Unique(id)' =>
          id \in walk'.seen \/ Cardinality(Above(id)') >= OffsetOf(walk.page, walk.size)'
    BY <1>2, <1>4, <1>6, <2>1 DEF OffsetOf
  <2>3. NothingSkipped'
    BY <2>1 DEF NothingSkipped
  <2> QED  BY <1>0, <2>1, <2>2, <2>3 DEF CatalogueInv, WalkOK
<1> QED  BY <1>7, <1>8

\* Every step of the catalogue keeps CatalogueInv, and the table only grows.
LEMMA CatalogueStep ==
  ASSUME CatalogueInv, CatalogueNext
  PROVE  CatalogueInv' /\ TableGrows
<1>1. ASSUME NEW id \in Id, NEW price \in Price, Insert(id, price) \/ Update(id, price), UNCHANGED walk
      PROVE  CatalogueInv' /\ TableGrows
  <2>1. TableOK' /\ TableGrows
    BY <1>1, InsertKeepsTable, UpdateKeepsTable DEF CatalogueInv
  <2> QED  BY <1>1, <2>1, GrowthKeepsWalk DEF CatalogueInv
<1>2. CASE Restart
  <2>1. UNCHANGED <<rows, written, walk>>
    BY <1>2, RestartKeepsTable DEF CatalogueInv, Restart
  <2> QED  BY <2>1, SameTable, GrowthKeepsWalk DEF CatalogueInv
<1>3. ASSUME NEW size \in PageSizes, WalkStart(size) PROVE CatalogueInv' /\ TableGrows
  BY <1>3, WalkStartKeeps, SameTable DEF CatalogueInv, WalkStart
<1>4. CASE ListPage
  BY <1>4, ListPageKeeps, SameTable, Zenon DEF CatalogueInv, ListPage
<1>5. CASE WalkEnd
  <2>1. walk' = NoWalk /\ UNCHANGED <<rows, written>>
    BY <1>5 DEF WalkEnd
  <2>2. TableOK' /\ TableGrows
    BY <2>1, SameTable DEF CatalogueInv
  <2>3. WalkOK'
    BY <2>1 DEF NoWalk, WalkOK, NothingSkipped
  <2> QED  BY <2>2, <2>3 DEF CatalogueInv
<1> QED  BY <1>1, <1>2, <1>3, <1>4, <1>5 DEF CatalogueNext

\* The catalogue starts with the seeds, and no walk.
LEMMA CatalogueInitOK == CatalogueInit => CatalogueInv
<1> SUFFICES ASSUME CatalogueInit PROVE CatalogueInv  OBVIOUS
<1>1. rows = [i \in Seeds |-> SeedRow] /\ written = [i \in Seeds |-> SeedPrice]
  BY DEF CatalogueInit, migrate
<1>2. SeedRow \in Row /\ SeedRow.price = SeedPrice
  BY CatalogueAssumption DEF SeedRow, Row
<1>3. TableOK
  BY <1>1, <1>2, CatalogueAssumption DEF TableOK
<1>4. WalkOK
  BY DEF CatalogueInit, NoWalk, WalkOK, NothingSkipped
<1> QED  BY <1>3, <1>4 DEF CatalogueInv

-----------------------------------------------------------------------------
(* Calls. *)

\* What SELECT COUNT(*) returns.
Count == Cardinality(DOMAIN rows)

\* The functions of the page that ask for a product.
IdFunctions == {"fetchProduct", "fetchDebug", "updatePrice", "addProduct", "debugKey"}

\* The size of the grid.
Full == ClampSize(GridSize)

\* A listing that is not full promises no more products than it has.
ListOK(d) ==
  /\ Cardinality(DOMAIN d.rows) =< Full
  /\ Cardinality(DOMAIN d.rows) < Full => d.total =< Cardinality(DOMAIN d.rows)

\* What a response holds that the function may take for its own.
Fits(fn, id, d) ==
  /\ fn \in {"fetchProduct", "updatePrice", "fetchDebug", "debugKey"} => d = id
  /\ fn = "loadProducts" => ListOK(d)

\* Whichever function stored it, what the store has for a URL fits every
\* function that asks for that URL.
StoreOK ==
  /\ DOMAIN store = URLs
  /\ \A fn \in Functions, id \in Id \cup {None} :
       URL([fn |-> fn, id |-> id]) \in URLs /\ store[URL([fn |-> fn, id |-> id])] # None =>
         /\ store[URL([fn |-> fn, id |-> id])].status = "ok"
         /\ Fits(fn, id, store[URL([fn |-> fn, id |-> id])].data)

\* The response of a call; success of a change means applied, or from the store.
RespOK(x) ==
  /\ x.resp.status \in {"ok", "error", "plain"}
  /\ x.resp.status # "ok" => x.resp.data = None
  /\ x.resp.status = "ok" =>
       /\ Fits(x.fn, x.id, x.resp.data)
       /\ x.fn \in {"updatePrice", "addProduct"} => x.applied \/ x.stored

\* What a call asks for, with what its function remembers.
Asks(x) ==
  /\ x.fn \in Functions /\ x.id \in Id \cup {None}
  /\ x.fn \in IdFunctions => x.id \in Id
  /\ x.fn \in {"updatePrice", "addProduct"} => x.price \in Price
  /\ x.fn = "fetchDebug" => x.got \in {x.id, None}

\* A call under way, when the table has n products.
Busy(x, n) ==
  /\ x.pc \in {"proxy", "api", "select", "reply", "answered"} /\ Asks(x)
  /\ x.pc = "select" => x.fn = "loadProducts" /\ x.part \in Nat /\ x.part =< n
  /\ x.pc \in {"reply", "answered"} => RespOK(x)

\* A slot for a call is free or has a call under way.
CallOK(x, n) == DOMAIN x = DOMAIN Idle /\ (x = Idle \/ Busy(x, n))

CallsOK == DOMAIN calls = Call /\ \A c \in Call : CallOK(calls[c], Count)

\* What the page shows is what the properties say.
PageOK ==
  /\ DOMAIN grid = {"shows", "rows", "total"}
  /\ OneProductShown /\ AppliedOrStored /\ TotalNotAhead

\* The inductive invariant.
DashboardInv == CatalogueInv /\ StoreOK /\ CallsOK /\ PageOK

\* The grid asks for page 1, at offset 0.
LEMMA FirstPageFacts == Full \in Nat /\ FirstPage = Selections(Full, 0)
<1>1. Full \in Nat
  BY CatalogueAssumption, DashboardAssumption DEF Full, ClampSize
<1>2. OffsetOf(1, Full) = 0
  BY <1>1 DEF OffsetOf
<1> QED  BY <1>1, <1>2, Zenon DEF FirstPage, Full

\* A call that has just been made.
LEMMA NewCallOK ==
  ASSUME NEW fn \in Functions, NEW id \in Id \cup {None}, NEW price, NEW n,
         fn \in IdFunctions => id \in Id,
         fn \in {"updatePrice", "addProduct"} => price \in Price
  PROVE  /\ CallOK(NewCall(fn, id, price), n)
         /\ \A g \in {id, None} : CallOK([NewCall(fn, id, price) EXCEPT !.got = g], n)
<1> DEFINE x == NewCall(fn, id, price)
<1>1. /\ DOMAIN x = DOMAIN Idle /\ x.pc = "proxy" /\ x.fn = fn /\ x.id = id /\ x.price = price
      /\ x.got = None
  BY DEF NewCall, Idle
<1>2. ASSUME NEW g \in {id, None}
      PROVE  LET y == [x EXCEPT !.got = g]
             IN  /\ DOMAIN y = DOMAIN Idle /\ y.pc = "proxy" /\ y.fn = fn /\ y.id = id
                 /\ y.price = price /\ y.got = g
  BY DEF NewCall, Idle
<1> HIDE DEF x
<1>3. CallOK(x, n)
  BY <1>1 DEF CallOK, Busy, Asks
<1>4. ASSUME NEW g \in {id, None} PROVE CallOK([x EXCEPT !.got = g], n)
  <2> DEFINE y == [x EXCEPT !.got = g]
  <2>1. /\ DOMAIN y = DOMAIN Idle /\ y.pc = "proxy" /\ y.fn = fn /\ y.id = id
        /\ y.price = price /\ y.got \in {id, None}
    BY <1>2
  <2> HIDE DEF y
  <2>2. CallOK(y, n)
    BY <2>1 DEF CallOK, Busy, Asks
  <2> QED  BY <2>2 DEF y
<1> QED  BY <1>3, <1>4 DEF x

\* Two functions with the same URL take the same responses.
LEMMA SameURL ==
  ASSUME NEW f \in Functions, NEW g \in Functions, NEW i, NEW j, NEW d,
         URL([fn |-> f, id |-> i]) = URL([fn |-> g, id |-> j]), Fits(f, i, d)
  PROVE  Fits(g, j, d)
<1> DEFINE x == [fn |-> f, id |-> i]
           y == [fn |-> g, id |-> j]
<1>1. x.fn = f /\ x.id = i /\ y.fn = g /\ y.id = j
  OBVIOUS
<1>2. URL(x) = URL(y)
  OBVIOUS
<1> HIDE DEF x, y
<1>3. CASE f = "loadProducts"
  BY <1>1, <1>2, <1>3 DEF URL, Functions, Fits
<1>4. CASE f = "addProduct"
  BY <1>1, <1>2, <1>4 DEF URL, Functions, Fits
<1>5. CASE f \in {"fetchProduct", "updatePrice"}
  BY <1>1, <1>2, <1>5 DEF URL, Functions, Fits
<1>6. CASE f = "fetchDebug"
  BY <1>1, <1>2, <1>6 DEF URL, Functions, Fits
<1>7. CASE f = "debugKey"
  BY <1>1, <1>2, <1>7 DEF URL, Functions, Fits
<1>8. CASE f = "refreshCluster"
  BY <1>1, <1>2, <1>8 DEF URL, Functions, Fits
<1> QED  BY <1>3, <1>4, <1>5, <1>6, <1>7, <1>8 DEF Functions

\* The URL of a call is a key of the store, and what is there fits the call.
LEMMA StoreFits ==
  ASSUME StoreOK, NEW x, Asks(x)
  PROVE  /\ URL(x) \in URLs /\ URL(x) = URL([fn |-> x.fn, id |-> x.id])
         /\ store[URL(x)] # None =>
              store[URL(x)].status = "ok" /\ Fits(x.fn, x.id, store[URL(x)].data)
<1> DEFINE y == [fn |-> x.fn, id |-> x.id]
<1>1. URL(x) = URL(y)
  BY Zenon DEF URL
<1>2. URL(x) \in URLs
  <2>1. CASE x.fn \in IdFunctions
    BY <1>1, <2>1 DEF Asks, URLs
  <2>2. CASE x.fn \notin IdFunctions
    <3>1. PICK id \in Id : TRUE
      BY DashboardAssumption
    <3>2. URL(x) = URL([fn |-> x.fn, id |-> id])
      BY <2>2 DEF URL, Asks, Functions, IdFunctions
    <3> QED  BY <3>2 DEF Asks, URLs
  <2> QED  BY <2>1, <2>2
<1> QED  BY <1>1, <1>2 DEF StoreOK, Asks
\* The table has as many rows as before, or more.
LEMMA CountGrows ==
  ASSUME TableOK, TableOK', TableGrows
  PROVE  Count \in Nat /\ Count' \in Nat /\ Count =< Count'
<1>1. IsFiniteSet(DOMAIN rows')
  BY CatalogueAssumption, FS_Subset DEF TableOK
<1> QED  BY <1>1, FS_Subset, FS_CardinalityType DEF Count, TableGrows

\* A call that is under way.
LEMMA UnderWay ==
  ASSUME CallsOK, NEW c \in Call, calls[c].pc # "idle"
  PROVE  DOMAIN calls[c] = DOMAIN Idle /\ calls[c] # Idle /\ Busy(calls[c], Count)
BY DEF CallsOK, CallOK, Idle

\* A call goes on, for the function it was made by.
LEMMA Continues ==
  ASSUME NEW x, NEW y, NEW n, Asks(x), DOMAIN y = DOMAIN Idle,
         y.fn = x.fn, y.id = x.id, y.price = x.price, y.got = x.got,
         y.pc \in {"api", "select", "reply", "answered"},
         y.pc = "select" => y.fn = "loadProducts" /\ y.part \in Nat /\ y.part =< n,
         y.pc \in {"reply", "answered"} => RespOK(y)
  PROVE  CallOK(y, n)
BY DEF CallOK, Busy, Asks

\* What one call does leaves the others as they were.
LEMMA OneCall ==
  ASSUME CallsOK, NEW c \in Call, NEW y, Becomes(c, y), CallOK(y, Count'),
         Count \in Nat, Count' \in Nat, Count =< Count'
  PROVE  CallsOK'
<1>1. DOMAIN calls' = Call /\ calls'[c] = y /\ \A d \in Call : d # c => calls'[d] = calls[d]
  BY SMTT(30) DEF Becomes, CallsOK
<1>2. ASSUME NEW d \in Call, d # c PROVE CallOK(calls'[d], Count')
  <2>1. CallOK(calls[d], Count) /\ calls'[d] = calls[d]
    BY <1>1, <1>2 DEF CallsOK
  <2>2. \A p \in Nat : p =< Count => p =< Count'
    OBVIOUS
  <2> QED  BY <2>1, <2>2 DEF CallOK, Busy
<1> QED  BY <1>1, <1>2 DEF CallsOK

\* The common case: the table is not touched.
LEMMA OneCallOnly ==
  ASSUME CatalogueInv, CallsOK, NEW c \in Call, NEW y, Becomes(c, y), CallOK(y, Count),
         UNCHANGED <<rows, written, walk>>
  PROVE  CatalogueInv' /\ CallsOK'
<1>1. TableOK' /\ TableGrows /\ WalkOK'
  BY SameTable, GrowthKeepsWalk DEF CatalogueInv
<1>2. Count' = Count /\ Count \in Nat
  BY <1>1, CountGrows DEF Count, CatalogueInv
<1>3. CallsOK'
  BY <1>2, OneCall
<1> QED  BY <1>1, <1>3 DEF CatalogueInv

-----------------------------------------------------------------------------
(* The proxy and the API. *)

\* The proxy looks the URL up.
LEMMA LookupKeeps ==
  ASSUME DashboardInv, NEW c \in Call, ProxyLookup(c), UNCHANGED walk
  PROVE  CatalogueInv' /\ StoreOK' /\ CallsOK'
<1> DEFINE x == calls[c]
           found == store[URL(x)]
           y == IF found # None
                THEN [x EXCEPT !.pc = "answered", !.resp = found, !.stored = TRUE]
                ELSE [x EXCEPT !.pc = "api"]
<1>1. DOMAIN x = DOMAIN Idle /\ Asks(x)
  BY UnderWay DEF ProxyLookup, DashboardInv, Busy
<1>2. Becomes(c, y) /\ UNCHANGED <<store, rows, written, walk>>
  BY DEF ProxyLookup
<1>3. found # None => found.status = "ok" /\ Fits(x.fn, x.id, found.data)
  BY <1>1, StoreFits, Zenon DEF DashboardInv
<1>4. /\ DOMAIN y = DOMAIN Idle /\ y.fn = x.fn /\ y.id = x.id /\ y.price = x.price /\ y.got = x.got
      /\ y.pc = IF found # None THEN "answered" ELSE "api"
      /\ found # None => y.resp = found /\ y.stored = TRUE
  BY <1>1, SMTT(30) DEF Idle
<1> HIDE DEF x, found, y
<1>5. CallOK(y, Count)
  <2>1. y.pc = "answered" => RespOK(y)
    BY <1>3, <1>4, SMTT(30) DEF RespOK
  <2> QED  BY <1>1, <1>4, <2>1, Continues
<1>6. StoreOK'
  BY <1>2 DEF DashboardInv, StoreOK
<1> QED  BY <1>2, <1>5, <1>6, OneCallOnly DEF DashboardInv

\* The request or the response is lost on the way.
LEMMA ForwardFailsKeeps ==
  ASSUME DashboardInv, NEW c \in Call, ForwardFails(c), UNCHANGED walk
  PROVE  CatalogueInv' /\ StoreOK' /\ CallsOK'
<1> DEFINE x == calls[c]
           found == store[URL(x)]
           y == [x EXCEPT !.pc = "answered", !.part = None, !.stored = found # None,
                          !.resp = IF found # None THEN found ELSE PlainError]
<1>1. DOMAIN x = DOMAIN Idle /\ Asks(x)
  BY UnderWay DEF ForwardFails, DashboardInv, Busy
<1>2. Becomes(c, y) /\ UNCHANGED <<store, rows, written, walk>>
  BY DEF ForwardFails
<1>3. found # None => found.status = "ok" /\ Fits(x.fn, x.id, found.data)
  BY <1>1, StoreFits, Zenon DEF DashboardInv
<1>4. /\ DOMAIN y = DOMAIN Idle /\ y.fn = x.fn /\ y.id = x.id /\ y.price = x.price /\ y.got = x.got
      /\ y.pc = "answered" /\ y.stored = (found # None)
      /\ y.resp = IF found # None THEN found ELSE PlainError
  BY <1>1, SMTT(30) DEF Idle
<1> HIDE DEF x, found, y
<1>5. CallOK(y, Count)
  <2>1. RespOK(y)
    <3>1. CASE found # None
      <4>1. y.resp = found /\ y.stored
        BY <1>4, <3>1, Zenon
      <4> QED  BY <1>3, <1>4, <3>1, <4>1 DEF RespOK
    <3>2. CASE found = None
      <4>1. y.resp.status = "plain" /\ y.resp.data = None
        BY <1>4, <3>2 DEF PlainError
      <4> QED  BY <4>1 DEF RespOK
    <3> QED  BY <3>1, <3>2
  <2> QED  BY <1>1, <1>4, <2>1, Continues
<1>6. StoreOK'
  BY <1>2 DEF DashboardInv, StoreOK
<1> QED  BY <1>2, <1>5, <1>6, OneCallOnly DEF DashboardInv

\* The proxy keeps a 2xx response, under the URL alone.
LEMMA ReceiveKeeps ==
  ASSUME DashboardInv, NEW c \in Call, Receive(c), UNCHANGED walk
  PROVE  CatalogueInv' /\ StoreOK' /\ CallsOK'
<1> DEFINE x == calls[c]
           u == URL(x)
           y == [x EXCEPT !.pc = "answered"]
<1>1. DOMAIN x = DOMAIN Idle /\ Asks(x) /\ RespOK(x)
  BY UnderWay DEF Receive, DashboardInv, Busy
<1>2. /\ Becomes(c, y) /\ UNCHANGED <<rows, written, walk>>
      /\ store' = IF x.resp.status = "ok" THEN [store EXCEPT ![u] = x.resp] ELSE store
  BY DEF Receive
<1>3. u \in URLs /\ u = URL([fn |-> x.fn, id |-> x.id])
  BY <1>1, StoreFits, Zenon DEF DashboardInv
<1>4. /\ DOMAIN y = DOMAIN Idle /\ y.fn = x.fn /\ y.id = x.id /\ y.price = x.price /\ y.got = x.got
      /\ y.pc = "answered" /\ y.resp = x.resp /\ y.stored = x.stored /\ y.applied = x.applied
  BY <1>1 DEF Idle
<1> HIDE DEF x, u, y
<1>5. CallOK(y, Count)
  <2>1. RespOK(y)
    BY <1>1, <1>4 DEF RespOK
  <2> QED  BY <1>1, <1>4, <2>1, Continues, Zenon
<1>6. StoreOK'
  <2>1. CASE x.resp.status # "ok"
    BY <1>2, <2>1, Zenon DEF DashboardInv, StoreOK
  <2>2. CASE x.resp.status = "ok"
    <3>1. Fits(x.fn, x.id, x.resp.data) /\ x.fn \in Functions
      BY <1>1, <2>2, SMTT(30) DEF RespOK, Asks
    <3>2. DOMAIN store' = URLs /\ store'[u] = x.resp /\ \A v \in URLs : v # u => store'[v] = store[v]
      BY <1>2, <1>3, <2>2, Zenon DEF DashboardInv, StoreOK
    <3>3. ASSUME NEW fn \in Functions, NEW id \in Id \cup {None}, NEW v \in URLs,
                 v = URL([fn |-> fn, id |-> id]), store'[v] # None
          PROVE  store'[v].status = "ok" /\ Fits(fn, id, store'[v].data)
      <4>1. CASE v = u
        <5>1. Fits(fn, id, x.resp.data)
          BY <1>3, <3>1, <3>3, <4>1, SameURL, Zenon
        <5> QED  BY <2>2, <3>2, <4>1, <5>1
      <4>2. CASE v # u
        BY <3>2, <3>3, <4>2, SMTT(30) DEF DashboardInv, StoreOK
      <4> QED  BY <4>1, <4>2, SMTT(30)
    <3> QED  BY <3>2, <3>3, Zenon DEF StoreOK
  <2> QED  BY <2>1, <2>2
<1> QED  BY <1>2, <1>5, <1>6, OneCallOnly DEF DashboardInv

\* The API answers without a change of the table: an error, or data that fits.
LEMMA RepliesKeeps ==
  ASSUME DashboardInv, NEW c \in Call, calls[c].pc # "idle", NEW resp, Replies(c, resp),
         UNCHANGED <<store, rows, written, walk>>,
         \/ resp = ErrorJSON
         \/ /\ \E d : resp = Ok(d) /\ Fits(calls[c].fn, calls[c].id, d)
            /\ calls[c].fn \notin {"updatePrice", "addProduct"}
  PROVE  CatalogueInv' /\ StoreOK' /\ CallsOK'
<1> DEFINE x == calls[c]
           y == [x EXCEPT !.pc = "reply", !.resp = resp, !.part = None]
<1>1. DOMAIN x = DOMAIN Idle /\ Asks(x)
  BY UnderWay, Zenon DEF DashboardInv, Busy
<1>2. Becomes(c, y)
  BY DEF Replies
<1>3. /\ DOMAIN y = DOMAIN Idle /\ y.fn = x.fn /\ y.id = x.id /\ y.price = x.price /\ y.got = x.got
      /\ y.pc = "reply" /\ y.resp = resp
  BY <1>1 DEF Idle
<1>4. \/ resp = ErrorJSON
      \/ /\ \E d : resp = Ok(d) /\ Fits(x.fn, x.id, d)
         /\ x.fn \notin {"updatePrice", "addProduct"}
  BY Zenon
<1> HIDE DEF x, y
<1>5. CallOK(y, Count)
  <2>1. RespOK(y)
    <3>1. CASE resp = ErrorJSON
      BY <1>3, <3>1, SMTT(30) DEF RespOK, ErrorJSON
    <3>2. CASE resp # ErrorJSON
      <4>1. PICK d : resp = Ok(d) /\ Fits(x.fn, x.id, d)
        BY <1>4, <3>2, Zenon
      <4>2. resp.status = "ok" /\ resp.data = d
        BY <4>1, Zenon DEF Ok
      <4> QED  BY <1>3, <1>4, <3>2, <4>1, <4>2, Zenon DEF RespOK
    <3> QED  BY <3>1, <3>2, Zenon
  <2> QED  BY <1>1, <1>3, <2>1, Continues, Zenon
<1>6. StoreOK'
  BY Zenon DEF DashboardInv, StoreOK
<1> QED  BY <1>2, <1>5, <1>6, OneCallOnly, Zenon DEF DashboardInv
\* The API: an error, the handlers that read, and ListProducts.
LEMMA ApiReadKeeps ==
  ASSUME DashboardInv, NEW c \in Call, UNCHANGED walk,
         ApiFails(c) \/ ApiGet(c) \/ ApiList(c) \/ ApiStatus(c)
  PROVE  CatalogueInv' /\ StoreOK' /\ CallsOK'
<1> DEFINE x == calls[c]
<1>0. /\ x.pc # "idle" /\ UNCHANGED <<store, rows, written, walk>>
      /\ DOMAIN x = DOMAIN Idle /\ Busy(x, Count) /\ Asks(x)
  <2>1. x.pc # "idle" /\ UNCHANGED <<store, rows, written, walk>>
    BY SMTT(30) DEF ApiFails, ApiGet, ApiList, ApiStatus, At
  <2> QED  BY <2>1, UnderWay, Zenon DEF DashboardInv, Busy
<1>1. CASE ApiFails(c)
  <2>1. Replies(c, ErrorJSON)
    BY <1>1, Zenon DEF ApiFails
  <2> QED  BY <1>0, <2>1, RepliesKeeps, Zenon
<1>2. CASE ApiGet(c)
  <2>1. Replies(c, ErrorJSON) \/ Replies(c, Ok(x.id))
    BY <1>2, Zenon DEF ApiGet
  <2>2. x.fn \in {"fetchProduct", "fetchDebug", "debugKey"}
    BY <1>2, Zenon DEF ApiGet, At
  <2>3. Fits(x.fn, x.id, x.id) /\ x.fn \notin {"updatePrice", "addProduct"}
    BY <2>2 DEF Fits
  <2> QED  BY <1>0, <2>1, <2>3, RepliesKeeps, Zenon
<1>3. CASE ApiList(c)
  <2>1. x.fn = "loadProducts"
    BY <1>3 DEF ApiList, At
  <2>2. IsFiniteSet(DOMAIN rows) /\ Count \in Nat
    BY TableFacts DEF DashboardInv, CatalogueInv, Count
  <2>3. CASE Becomes(c, [x EXCEPT !.pc = "select", !.part = Count])
    <3> DEFINE y == [x EXCEPT !.pc = "select", !.part = Count]
    <3>1. /\ DOMAIN y = DOMAIN Idle /\ y.fn = x.fn /\ y.id = x.id /\ y.price = x.price /\ y.got = x.got
          /\ y.pc = "select" /\ y.part = Count
      BY <1>0 DEF Idle
    <3>2. Becomes(c, y)
      BY <2>3
    <3> HIDE DEF y
    <3>3. CallOK(y, Count)
      <4>1. y.fn = "loadProducts" /\ y.part \in Nat /\ y.part =< Count
        BY <2>1, <2>2, <3>1, SMTT(30)
      <4>2. y.pc \in {"api", "select", "reply", "answered"} /\ y.pc \notin {"reply", "answered"}
        BY <3>1
      <4> HIDE DEF x
      <4> QED  BY <1>0, <3>1, <4>1, <4>2, Continues, Zenon
    <3>4. StoreOK'
      BY <1>0, Zenon DEF DashboardInv, StoreOK
    <3> QED  BY <1>0, <3>2, <3>3, <3>4, OneCallOnly, Zenon DEF DashboardInv
  <2>4. ASSUME NEW S \in FirstPage, x.pc = "select",
               Replies(c, Ok([rows |-> Prices(S), total |-> x.part]))
        PROVE  CatalogueInv' /\ StoreOK' /\ CallsOK'
    <3> DEFINE d == [rows |-> Prices(S), total |-> x.part]
    <3>1. d.total = x.part /\ DOMAIN d.rows = S
      BY SMTT(30) DEF Prices
    <3>2. x.part \in Nat /\ x.part =< Count
      BY <1>0, <2>4, Zenon DEF Busy
    <3>3. Replies(c, Ok(d))
      BY <2>4, SMTT(30)
    <3> HIDE DEF d
    <3>4. Full \in Nat /\ S \in Selections(Full, 0)
      BY FirstPageFacts DEF FirstPage
    <3>5. Cardinality(S) \in Nat /\ Cardinality(S) =< Full /\ (Cardinality(S) < Full => Cardinality(S) = Count)
      BY <3>4, FirstPageFills DEF DashboardInv, CatalogueInv, Count
    <3>6. Fits(x.fn, x.id, d)
      <4>1. Cardinality(DOMAIN d.rows) = Cardinality(S)
        BY <3>1, Zenon
      <4>2. ListOK(d)
        BY <3>1, <3>2, <3>4, <3>5, <4>1 DEF ListOK
      <4> QED  BY <2>1, <4>2, Zenon DEF Fits
    <3>7. x.fn \notin {"updatePrice", "addProduct"}
      BY <2>1
    <3> QED  BY <1>0, <3>3, <3>6, <3>7, RepliesKeeps, Zenon
  <2> QED  BY <1>3, <2>3, <2>4 DEF ApiList, At, Count
<1>4. CASE ApiStatus(c)
  <2>1. x.fn = "refreshCluster" /\ x.pc = "api"
    BY <1>4 DEF ApiStatus, At
  <2>2. ASSUME NEW d, Replies(c, Ok(d)) PROVE CatalogueInv' /\ StoreOK' /\ CallsOK'
    <3>1. Fits(x.fn, x.id, d) /\ x.fn \notin {"updatePrice", "addProduct"}
      BY <2>1 DEF Fits
    <3> QED  BY <1>0, <2>2, <3>1, RepliesKeeps, Zenon
  <2>3. ASSUME NEW p, Becomes(c, [x EXCEPT !.part = p]) PROVE CatalogueInv' /\ StoreOK' /\ CallsOK'
    <3> DEFINE y == [x EXCEPT !.part = p]
    <3>1. /\ DOMAIN y = DOMAIN Idle /\ y.fn = x.fn /\ y.id = x.id /\ y.price = x.price /\ y.got = x.got
          /\ y.pc = "api"
      BY <1>0, <2>1 DEF Idle
    <3>2. Becomes(c, y)
      BY <2>3, SMTT(30)
    <3> HIDE DEF y
    <3>3. CallOK(y, Count)
      BY <1>0, <3>1, Continues, Zenon
    <3>4. StoreOK'
      BY <1>0, Zenon DEF DashboardInv, StoreOK
    <3> QED  BY <1>0, <3>2, <3>3, <3>4, OneCallOnly, Zenon DEF DashboardInv
  <2>4. (\E d : Replies(c, Ok(d))) \/ (\E p : Becomes(c, [x EXCEPT !.part = p]))
    BY <1>4, Zenon DEF ApiStatus
  <2> QED  BY <2>2, <2>3, <2>4, Zenon
<1> QED  BY <1>1, <1>2, <1>3, <1>4, SMTT(30)

\* The handlers that write.
LEMMA ApiWriteKeeps ==
  ASSUME DashboardInv, NEW c \in Call, UNCHANGED walk, ApiUpdate(c) \/ ApiCreate(c)
  PROVE  CatalogueInv' /\ StoreOK' /\ CallsOK'
<1> DEFINE x == calls[c]
           y == [x EXCEPT !.pc = "reply", !.resp = Ok(x.id), !.applied = TRUE]
<1>0. /\ x.pc # "idle" /\ store' = store /\ x.fn \in {"updatePrice", "addProduct"}
      /\ DOMAIN x = DOMAIN Idle /\ Asks(x)
  <2>1. x.pc # "idle" /\ store' = store /\ x.fn \in {"updatePrice", "addProduct"}
    BY Zenon DEF ApiUpdate, ApiCreate, At
  <2> QED  BY <2>1, UnderWay, Zenon DEF DashboardInv, Busy
<1>1. CASE ApiCreate(c) /\ Replies(c, ErrorJSON) /\ UNCHANGED <<rows, written>>
  BY <1>0, <1>1, RepliesKeeps, Zenon
<1>2. CASE (Update(x.id, x.price) \/ Insert(x.id, x.price)) /\ Becomes(c, y)
  <2>1. x.id \in Id /\ x.price \in Price
    BY <1>0, Zenon DEF Asks, IdFunctions
  <2>2. TableOK' /\ TableGrows
    BY <1>2, <2>1, InsertKeepsTable, UpdateKeepsTable DEF DashboardInv, CatalogueInv
  <2>3. CatalogueInv'
    BY <2>2, GrowthKeepsWalk DEF DashboardInv, CatalogueInv
  <2>4. Count \in Nat /\ Count' \in Nat /\ Count =< Count'
    BY <2>2, CountGrows DEF DashboardInv, CatalogueInv
  <2>5. /\ DOMAIN y = DOMAIN Idle /\ y.fn = x.fn /\ y.id = x.id /\ y.price = x.price /\ y.got = x.got
        /\ y.pc = "reply" /\ y.resp = Ok(x.id) /\ y.applied = TRUE
    BY <1>0 DEF Idle
  <2>6. Becomes(c, y)
    BY <1>2
  <2> HIDE DEF x, y
  <2>7. RespOK(y)
    <3>1. y.resp.status = "ok" /\ y.resp.data = x.id
      BY <2>5, SMTT(30) DEF Ok
    <3> QED  BY <1>0, <2>5, <3>1, Zenon DEF RespOK, Fits
  <2>8. CallOK(y, Count')
    BY <1>0, <2>5, <2>7, Continues, Zenon
  <2>9. CallsOK'
    BY <2>4, <2>6, <2>8, OneCall DEF DashboardInv
  <2>10. StoreOK'
    BY <1>0, Zenon DEF DashboardInv, StoreOK
  <2> QED  BY <2>3, <2>9, <2>10, SMTT(30)
<1> QED  BY <1>1, <1>2, SMTT(30) DEF ApiUpdate, ApiCreate, Applied
-----------------------------------------------------------------------------
(* The page. *)

\* A call is over.
LEMMA IdleOK == \A n : CallOK(Idle, n)
BY DEF CallOK

\* An answer that the page has got.
LEMMA AnsweredFacts ==
  ASSUME DashboardInv, NEW c \in Call, NEW fn, Answered(c, fn)
  PROVE  /\ calls[c].fn = fn /\ calls[c] # Idle /\ Asks(calls[c]) /\ RespOK(calls[c])
  <1>1. calls[c].pc = "answered" /\ calls[c].fn = fn
    BY SMTT(30) DEF Answered, At
  <1> QED  BY <1>1, UnderWay, Zenon DEF DashboardInv, Busy

\* loadProducts fills the grid from one response.
LEMMA LoadDoneKeeps ==
  ASSUME DashboardInv, NEW c \in Call, LoadDone(c)
  PROVE  PageOK'
<1> DEFINE r == calls[c].resp
<1>1. Fits("loadProducts", calls[c].id, r.data) \/ r.status \in {"error", "plain"}
  BY AnsweredFacts, SMTT(30) DEF LoadDone, RespOK
<1>2. r.status \in {"ok", "error", "plain"}
  BY AnsweredFacts DEF LoadDone, RespOK
<1>3. UNCHANGED <<shown, ack>>
  BY DEF LoadDone
<1>4. DOMAIN grid' = {"shows", "rows", "total"} /\ TotalNotAhead'
  <2>1. CASE r.status = "plain"
    <3>1. grid' = [grid EXCEPT !.shows = "failed", !.rows = [i \in {} |-> 0]]
      BY <2>1 DEF LoadDone, Has
    <3>2. DOMAIN grid' = {"shows", "rows", "total"} /\ grid'.shows = "failed"
      BY <3>1 DEF DashboardInv, PageOK
    <3> QED  BY <3>2 DEF TotalNotAhead
  <2>2. CASE r.status = "error"
    <3>1. grid' = [shows |-> "empty", rows |-> [i \in {} |-> 0], total |-> 0]
      BY <2>2 DEF LoadDone, Has
    <3> QED  BY <3>1, Zenon DEF TotalNotAhead
  <2>3. CASE r.status = "ok"
    <3>1. grid' = [shows |-> IF DOMAIN r.data.rows = {} THEN "empty" ELSE "products",
                   rows |-> r.data.rows, total |-> r.data.total]
      BY <2>3 DEF LoadDone, Has
    <3>2. ListOK(r.data)
      BY <1>1, <2>3, Zenon DEF Fits
    <3> HIDE DEF r
    <3>3. grid'.total = r.data.total /\ grid'.rows = r.data.rows
      BY <3>1
    <3> QED  BY <3>1, <3>2, <3>3, Zenon DEF TotalNotAhead, ListOK, Full
  <2> QED  BY <1>2, <2>1, <2>2, <2>3, Zenon
<1>5. OneProductShown' /\ AppliedOrStored'
  BY <1>3, Zenon DEF DashboardInv, PageOK, OneProductShown, AppliedOrStored
<1> QED  BY <1>4, <1>5, SMTT(30) DEF PageOK

\* fetchProduct renders what its two requests got.
LEMMA FetchShowKeeps ==
  ASSUME DashboardInv, NEW c \in Call, FetchShow(c)
  PROVE  PageOK'
<1>1. /\ calls[c].got \in {calls[c].id, None}
      /\ calls[c].resp.data \in {calls[c].id, None}
  BY AnsweredFacts, Zenon DEF FetchShow, RespOK, Asks, Fits
<1>2. shown' = [product |-> calls[c].got, debug |-> calls[c].resp.data] /\ UNCHANGED <<grid, ack>>
  BY DEF FetchShow
<1>3. shown'.product = calls[c].got /\ shown'.debug = calls[c].resp.data
  BY <1>2
<1>4. OneProductShown'
  BY <1>1, <1>3, Zenon DEF OneProductShown
<1>5. AppliedOrStored' /\ TotalNotAhead' /\ DOMAIN grid' = DOMAIN grid
  BY <1>2, Zenon DEF DashboardInv, PageOK, AppliedOrStored, TotalNotAhead
<1> QED  BY <1>4, <1>5, SMTT(30) DEF DashboardInv, PageOK

\* updatePrice and addProduct report.
LEMMA ReportKeeps ==
  ASSUME DashboardInv, NEW c \in Call, UpdateDone(c) \/ AddDone(c)
  PROVE  PageOK'
<1>1. UNCHANGED <<grid, shown>>
  BY SMTT(30) DEF UpdateDone, AddDone
<1>2. AppliedOrStored'
  <2>1. ack' = ack \/ (Has(c, "ok") /\ ack' = Acknowledged(c))
    BY Zenon DEF UpdateDone, UpdateOk, AddDone
  <2>2. CASE ack' = ack
    BY <2>2 DEF DashboardInv, PageOK, AppliedOrStored
  <2>3. CASE Has(c, "ok") /\ ack' = Acknowledged(c)
    <3>1. calls[c].applied \/ calls[c].stored
      BY <2>3, AnsweredFacts, Zenon DEF Has, RespOK, UpdateDone, AddDone
    <3>2. ack'.applied = calls[c].applied /\ ack'.stored = calls[c].stored
      BY <2>3 DEF Acknowledged
    <3> QED  BY <3>1, <3>2, Zenon DEF AppliedOrStored
  <2> QED  BY <2>1, <2>2, <2>3
<1>3. OneProductShown' /\ TotalNotAhead' /\ DOMAIN grid' = DOMAIN grid
  BY <1>1, Zenon DEF DashboardInv, PageOK, OneProductShown, TotalNotAhead
<1> QED  BY <1>2, <1>3, SMTT(30) DEF DashboardInv, PageOK

\* What a function does with an answer: its call ends or another one starts.
LEMMA PageCallsKeep ==
  ASSUME DashboardInv, NEW c \in Call,
         \/ LoadDone(c) \/ FetchDone(c) \/ FetchShow(c) \/ UpdateDone(c) \/ AddDone(c)
         \/ DebugDone(c) \/ RefreshDone(c),
         UNCHANGED <<store, rows, written, walk>>
  PROVE  CatalogueInv' /\ StoreOK' /\ CallsOK'
<1> DEFINE Goal == CatalogueInv' /\ CallsOK'
<1>1. StoreOK'
  BY Zenon DEF DashboardInv, StoreOK
<1>2. ASSUME NEW y, Becomes(c, y), CallOK(y, Count) PROVE Goal
  BY <1>2, OneCallOnly, SMTT(30) DEF DashboardInv
<1>3. ASSUME Becomes(c, Idle) PROVE Goal
  BY <1>2, <1>3, IdleOK
<1>4. ASSUME FetchDone(c), ~Becomes(c, Idle) PROVE Goal
  <2> DEFINE y == [NewCall("fetchDebug", calls[c].id, None) EXCEPT !.got = calls[c].resp.data]
  <2>1. calls[c].fn = "fetchProduct" /\ Asks(calls[c]) /\ RespOK(calls[c])
    BY <1>4, AnsweredFacts DEF FetchDone
  <2>2. calls[c].id \in Id /\ calls[c].resp.data \in {calls[c].id, None}
    BY <2>1, Zenon DEF RespOK, Asks, Fits, IdFunctions
  <2>3. CallOK(y, Count)
    BY <2>2, NewCallOK, Zenon DEF Functions, IdFunctions
  <2>4. Becomes(c, y)
    BY <1>4, SMTT(30) DEF FetchDone
  <2> QED  BY <1>2, <2>3, <2>4
<1>5. ASSUME UpdateDone(c), ~Becomes(c, Idle) PROVE Goal
  <2>1. calls[c].fn = "updatePrice" /\ calls[c] # Idle /\ calls[c].id \in Id
    BY <1>5, AnsweredFacts, Zenon DEF UpdateDone, Asks, IdFunctions
  <2> DEFINE y == NewCall("debugKey", calls[c].id, None)
             z == NewCall("loadProducts", None, None)
  <2>2. PICK d \in Free : calls' = [calls EXCEPT ![c] = y, ![d] = z]
    BY <1>5, Zenon DEF UpdateDone, UpdateOk
  <2>3. d \in Call /\ d # c
    BY <2>1, <2>2 DEF Free
  <2>4. CallOK(y, Count) /\ CallOK(z, Count)
    BY <2>1, NewCallOK, Zenon DEF Functions, IdFunctions
  <2> HIDE DEF y, z
  <2>5. /\ DOMAIN calls' = Call /\ calls'[c] = y /\ calls'[d] = z
        /\ \A e \in Call \ {c, d} : calls'[e] = calls[e]
    BY <2>2, <2>3, SMTT(30) DEF DashboardInv, CallsOK
  <2>6. Count' = Count
    BY DEF Count
  <2>7. CallsOK'
    BY <2>4, <2>5, <2>6, Zenon DEF DashboardInv, CallsOK
  <2>8. CatalogueInv'
    BY SameTable, GrowthKeepsWalk, SMTT(30) DEF DashboardInv, CatalogueInv
  <2> QED  BY <2>7, <2>8
<1>6. Becomes(c, Idle) \/ FetchDone(c) \/ UpdateDone(c)
  BY SMTT(30) DEF LoadDone, FetchShow, AddDone, DebugDone, RefreshDone
<1> HIDE DEF Goal
<1>7. Goal
  BY <1>3, <1>4, <1>5, <1>6
<1> QED  BY <1>1, <1>7, SMTT(30) DEF Goal

\* Every function of the page keeps DashboardInv.
LEMMA PageKeeps ==
  ASSUME DashboardInv, NEW c \in Call, Page(c)
  PROVE  DashboardInv'
<1>1. UNCHANGED <<store, rows, written, walk>>
  BY SMTT(30) DEF Page, cvars
<1>2. PageOK'
  <2>1. CASE LoadDone(c) \/ FetchShow(c) \/ UpdateDone(c) \/ AddDone(c)
    BY <2>1, LoadDoneKeeps, FetchShowKeeps, ReportKeeps
  <2>2. CASE FetchDone(c) \/ DebugDone(c) \/ RefreshDone(c)
    <3>1. UNCHANGED <<grid, shown, ack>>
      BY <2>2 DEF FetchDone, DebugDone, RefreshDone
    <3> QED  BY <3>1, Zenon DEF DashboardInv, PageOK, OneProductShown, AppliedOrStored, TotalNotAhead
  <2> QED  BY <2>1, <2>2, SMTT(30) DEF Page
<1>3. CatalogueInv' /\ StoreOK' /\ CallsOK'
  <2>1. \/ LoadDone(c) \/ FetchDone(c) \/ FetchShow(c) \/ UpdateDone(c) \/ AddDone(c)
        \/ DebugDone(c) \/ RefreshDone(c)
    BY SMTT(30) DEF Page
  <2> QED  BY <1>1, <2>1, PageCallsKeep, Zenon
<1> QED  BY <1>2, <1>3, SMTT(30) DEF DashboardInv

-----------------------------------------------------------------------------
\* A call is started.
LEMMA StartsCall ==
  ASSUME DashboardInv, NEW fn \in Functions, NEW id \in Id \cup {None}, NEW price,
         fn \in IdFunctions => id \in Id,
         fn \in {"updatePrice", "addProduct"} => price \in Price,
         Free # {}, Becomes(CHOOSE c \in Free : TRUE, NewCall(fn, id, price)),
         UNCHANGED <<store, grid, shown, ack, rows, written, walk>>
  PROVE  DashboardInv'
<1> DEFINE c == CHOOSE d \in Free : TRUE
           y == NewCall(fn, id, price)
<1>1. c \in Call /\ Becomes(c, y)
  BY Zenon DEF Free
<1>2. CallOK(y, Count)
  BY NewCallOK, Zenon
<1> HIDE DEF c, y
<1>3. CatalogueInv' /\ CallsOK'
  BY <1>1, <1>2, OneCallOnly, Zenon DEF DashboardInv
<1>4. StoreOK'
  BY Zenon DEF DashboardInv, StoreOK
<1>5. PageOK'
  BY Zenon DEF DashboardInv, PageOK, OneProductShown, AppliedOrStored, TotalNotAhead
<1> QED  BY <1>3, <1>4, <1>5 DEF DashboardInv

\* The user, and the timer.
LEMMA StartKeeps ==
  ASSUME DashboardInv, User \/ Poll
  PROVE  DashboardInv'
<1>1. ASSUME NEW fn \in Functions, NEW id \in Id \cup {None}, NEW price, UserCall(fn, id, price),
             fn \in IdFunctions => id \in Id,
             fn \in {"updatePrice", "addProduct"} => price \in Price
      PROVE  DashboardInv'
  <2>1. /\ Free # {} /\ Becomes(CHOOSE c \in Free : TRUE, NewCall(fn, id, price))
        /\ UNCHANGED <<store, grid, shown, ack, rows, written, walk>>
    BY <1>1, Zenon DEF UserCall, Becomes, cvars
  <2> QED  BY <1>1, <2>1, StartsCall, Zenon
<1>2. CASE Poll
  <2>1. /\ Free # {} /\ Becomes(CHOOSE c \in Free : TRUE, NewCall("refreshCluster", None, None))
        /\ UNCHANGED <<store, grid, shown, ack, rows, written, walk>>
    BY <1>2, Zenon DEF Poll, Becomes, cvars
  <2> QED  BY <2>1, StartsCall, Zenon DEF Functions, IdFunctions
<1>3. CASE ShowTab
  BY <1>1, <1>3, SMTT(30) DEF ShowTab, Functions, IdFunctions
<1>4. ASSUME NEW e \in Edits,
             Fetch(e.id) \/ DebugKey(e.id) \/ SavePrice(e.id, e.price) \/ AddProduct(e.id, e.price)
      PROVE  DashboardInv'
  <2>1. e.id \in Id /\ e.price \in Price
    BY DashboardAssumption
  <2>2. CASE Fetch(e.id)
    BY <1>1, <2>1, <2>2, Zenon DEF Fetch, Functions, IdFunctions
  <2>3. CASE DebugKey(e.id)
    BY <1>1, <2>1, <2>3, Zenon DEF DebugKey, Functions, IdFunctions
  <2>4. CASE SavePrice(e.id, e.price)
    BY <1>1, <2>1, <2>4, Zenon DEF SavePrice, Functions, IdFunctions
  <2>5. CASE AddProduct(e.id, e.price)
    BY <1>1, <2>1, <2>5 DEF AddProduct, Functions, IdFunctions
  <2> QED  BY <1>4, <2>2, <2>3, <2>4, <2>5
<1> QED  BY <1>2, <1>3, <1>4 DEF User

\* An entry of the store expires.
LEMMA ExpiresKeeps ==
  ASSUME DashboardInv, Expires
  PROVE  DashboardInv'
<1>1. PICK u \in URLs : store' = [store EXCEPT ![u] = None] /\ UNCHANGED <<calls, rows, written>>
  BY Zenon DEF Expires, Expire
<1>2. UNCHANGED <<grid, shown, ack, walk>>
  BY SMTT(30) DEF Expires
<1>3. StoreOK'
  BY <1>1, Zenon DEF DashboardInv, StoreOK
<1>4. CatalogueInv'
  BY <1>1, <1>2, SameTable, GrowthKeepsWalk, SMTT(30) DEF DashboardInv, CatalogueInv
<1>5. CallsOK' /\ PageOK'
  BY <1>1, <1>2, Zenon DEF DashboardInv, CallsOK, Count, PageOK, OneProductShown, AppliedOrStored, TotalNotAhead
<1> QED  BY <1>3, <1>4, <1>5 DEF DashboardInv

\* The steps of the catalogue and of the cluster that do not go through the page.
LEMMA OthersKeep ==
  ASSUME DashboardInv, Others
  PROVE  DashboardInv'
<1>1. UNCHANGED pvars
  BY SMTT(30) DEF Others
<1>2. CatalogueInv' /\ TableGrows
  <2>1. CASE UNCHANGED cvars
    BY <2>1, SameTable, GrowthKeepsWalk DEF DashboardInv, CatalogueInv, cvars
  <2>2. CASE CatalogueNext
    BY <2>2, CatalogueStep, SMTT(30) DEF DashboardInv
  <2> QED  BY <2>1, <2>2, SMTT(30) DEF Others
<1>3. Count \in Nat /\ Count' \in Nat /\ Count =< Count'
  BY <1>2, CountGrows, SMTT(30) DEF DashboardInv, CatalogueInv
<1>4. CallsOK'
  <2>1. \A p \in Nat : p =< Count => p =< Count'
    BY <1>3
  <2> QED  BY <1>1, <2>1, Zenon DEF DashboardInv, CallsOK, CallOK, Busy, pvars
<1>5. StoreOK' /\ PageOK'
  BY <1>1, Zenon DEF DashboardInv, StoreOK, PageOK, OneProductShown, AppliedOrStored, TotalNotAhead, pvars
<1> QED  BY <1>2, <1>4, <1>5 DEF DashboardInv

\* The proxy and the API leave the page alone.
LEMMA ServerKeeps ==
  ASSUME DashboardInv, NEW c \in Call, Server(c) \/ Failure(c)
  PROVE  DashboardInv'
<1>1. UNCHANGED <<grid, shown, ack, walk>>
  BY Zenon DEF Server, Failure
<1>2. PageOK'
  BY <1>1, Zenon DEF DashboardInv, PageOK, OneProductShown, AppliedOrStored, TotalNotAhead
<1>3. CatalogueInv' /\ StoreOK' /\ CallsOK'
  <2>1. CASE ProxyLookup(c)
    BY <1>1, <2>1, LookupKeeps, SMTT(30)
  <2>2. CASE ForwardFails(c)
    BY <1>1, <2>2, ForwardFailsKeeps
  <2>3. CASE Receive(c)
    BY <1>1, <2>3, ReceiveKeeps
  <2>4. CASE ApiFails(c) \/ ApiGet(c) \/ ApiList(c) \/ ApiStatus(c)
    BY <1>1, <2>4, ApiReadKeeps
  <2>5. CASE ApiUpdate(c) \/ ApiCreate(c)
    BY <1>1, <2>5, ApiWriteKeeps
  <2> QED  BY <2>1, <2>2, <2>3, <2>4, <2>5, Zenon DEF Server, Failure
<1> QED  BY <1>2, <1>3 DEF DashboardInv

\* The page opens on an empty store.
LEMMA DashboardInitOK == DashboardInit => DashboardInv
<1> SUFFICES ASSUME DashboardInit PROVE DashboardInv  OBVIOUS
<1>1. CatalogueInv
  BY CatalogueInitOK, SMTT(30) DEF DashboardInit
<1>2. StoreOK
  BY SMTT(30) DEF DashboardInit, StoreOK
<1>3. CallsOK
  BY IdleOK, SMTT(30) DEF DashboardInit, CallsOK
<1>4. PageOK
  BY Zenon DEF DashboardInit, PageOK, OneProductShown, AppliedOrStored, TotalNotAhead
<1> QED  BY <1>1, <1>2, <1>3, <1>4 DEF DashboardInv

\* Every step keeps DashboardInv.
LEMMA DashboardStep == DashboardInv /\ [DashboardNext]_dvars => DashboardInv'
<1> SUFFICES ASSUME DashboardInv, [DashboardNext]_dvars PROVE DashboardInv'  BY SMTT(30)
<1>1. CASE User \/ Poll
  BY <1>1, StartKeeps, SMTT(30)
<1>2. CASE Expires
  BY <1>2, ExpiresKeeps
<1>3. CASE Others
  BY <1>3, OthersKeep, SMTT(30)
<1>4. ASSUME NEW c \in Call, Page(c) \/ Server(c) \/ Failure(c) PROVE DashboardInv'
  BY <1>4, PageKeeps, ServerKeeps
<1>5. CASE UNCHANGED dvars
  <2>1. CatalogueInv'
    BY <1>5, SameTable, GrowthKeepsWalk, Zenon DEF DashboardInv, CatalogueInv, dvars, cvars
  <2> QED  BY <1>5, <2>1, Zenon DEF DashboardInv, StoreOK, CallsOK, Count, PageOK, OneProductShown,
                           AppliedOrStored, TotalNotAhead, dvars, pvars, cvars
<1> QED  BY <1>1, <1>2, <1>3, <1>4, <1>5 DEF DashboardNext

\* DashboardInv holds in every reachable state.
LEMMA DashboardAlways == DashboardSpec => []DashboardInv
BY DashboardInitOK, DashboardStep, PTL DEF DashboardSpec

\* fetchProduct renders the product and the routing information of one id.
THEOREM OneProductHolds == DashboardSpec => []OneProductShown
<1>1. DashboardInv => OneProductShown
  BY DEF DashboardInv, PageOK
<1> QED  BY <1>1, DashboardAlways, PTL

\* A change that is reported as done was applied by this call, or the proxy
\* answered the call from its store.
THEOREM AppliedOrStoredHolds == DashboardSpec => []AppliedOrStored
<1>1. DashboardInv => AppliedOrStored
  BY DEF DashboardInv, PageOK
<1> QED  BY <1>1, DashboardAlways, PTL

\* The total above the grid never promises more products than the grid shows.
THEOREM TotalNotAheadHolds == DashboardSpec => []TotalNotAhead
<1>1. DashboardInv => TotalNotAhead
  BY DEF DashboardInv, PageOK
<1> QED  BY <1>1, DashboardAlways, PTL

\* A walk over the pages of ListProducts skips no product of a created_at of
\* its own, for every page size and whatever is inserted meanwhile.
THEOREM NothingSkippedHolds == DashboardSpec => []NothingSkipped
<1>1. DashboardInv => NothingSkipped
  BY Zenon DEF DashboardInv, CatalogueInv, WalkOK
<1> QED  BY <1>1, DashboardAlways, PTL

\* Restarts bring back no old price and lose no product.
THEOREM WrittenIsKeptHolds == DashboardSpec => []WrittenIsKept
<1>1. DashboardInv => WrittenIsKept
  BY SMTT(30) DEF DashboardInv, CatalogueInv, TableOK, WrittenIsKept
<1> QED  BY <1>1, DashboardAlways, PTL
=============================================================================
