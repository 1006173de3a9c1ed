--------------------------- MODULE ListingsProofs ---------------------------
(***************************************************************************)
(* Theorems about Listings, for any invoices, writers, page sizes and      *)
(* bounds.                                                                 *)
(***************************************************************************)
EXTENDS Listings, FiniteSetTheorems, TLAPS

-----------------------------------------------------------------------------
(* What a page is: the start of a finite, strictly ordered set.            *)

StrictlyOrders(R, S) ==
    /\ \A x \in S : <<x, x>> \notin R
    /\ \A x, y, z \in S : <<x, y>> \in R /\ <<y, z>> \in R => <<x, z>> \in R

(* A finite set has a last element: its elements that come after it form a *)
(* smallest such set.                                                      *)
LEMMA HasLast ==
    ASSUME NEW S, IsFiniteSet(S), S # {}, NEW R, StrictlyOrders(R, S)
    PROVE  \E x \in S : \A y \in S : <<x, y>> \notin R
<1> DEFINE Later(x) == {y \in S : <<x, y>> \in R}
           T == {Later(x) : x \in S}
<1>1. T \subseteq FiniteSubsetsOf(S) /\ T # {}
  <2>1. FiniteSubsetsOf(S) = SUBSET S
    BY FS_FiniteSubsetsOfFinite
  <2>2. T \subseteq SUBSET S
    OBVIOUS
  <2>3. T # {}
    <3>1. PICK x \in S : TRUE
      OBVIOUS
    <3>2. Later(x) \in T
      OBVIOUS
    <3> QED BY <3>2
  <2> HIDE DEF T
  <2> QED BY <2>1, <2>2, <2>3
<1>2. PICK U \in T : \A V \in T : <<V, U>> \notin StrictSubsetOrdering(S)
  <2> HIDE DEF T
  <2>1. IsWellFoundedOn(StrictSubsetOrdering(S), FiniteSubsetsOf(S))
    BY FS_StrictSubsetOrderingWellFounded
  <2>2. \E U \in T : \A V \in T : ~ (<<V, U>> \in StrictSubsetOrdering(S))
    BY <1>1, <2>1, WFMin, Zenon
  <2> QED BY <2>2
<1>3. PICK x \in S : U = Later(x)
  OBVIOUS
<1>4. ASSUME NEW y \in S, <<x, y>> \in R
      PROVE  FALSE
  <2>1. Later(y) \subseteq Later(x) /\ Later(y) # Later(x)
    <3>1. y \in Later(x) /\ y \notin Later(y)
      BY <1>4 DEF StrictlyOrders
    <3>2. Later(y) \subseteq Later(x)
      BY <1>4 DEF StrictlyOrders
    <3> QED BY <3>1, <3>2
  <2>2. Later(y) \in T /\ Later(y) \in SUBSET S /\ Later(x) \in SUBSET S
    OBVIOUS
  <2> HIDE DEF Later, T
  <2> QED BY <1>2, <1>3, <2>1, <2>2 DEF StrictSubsetOrdering
<1> QED BY <1>4

Segment(S, R, n) == {x \in S : Cardinality({y \in S : <<y, x>> \in R}) < n}

(* The first n of a set: what comes before one of them is among them, they *)
(* are all where there are no more than n, and there is one where n is not *)
(* zero.                                                                   *)
LEMMA SegmentMeaning ==
    ASSUME NEW S, IsFiniteSet(S), NEW R, StrictlyOrders(R, S), NEW n \in Nat \ {0}
    PROVE  /\ \A x \in Segment(S, R, n), y \in S : <<y, x>> \in R => y \in Segment(S, R, n)
           /\ Cardinality(S) <= n => Segment(S, R, n) = S
           /\ S # {} => Segment(S, R, n) # {}
<1> DEFINE Earlier(x) == {y \in S : <<y, x>> \in R}
<1>0. \A x \in S : /\ IsFiniteSet(Earlier(x))
                   /\ Cardinality(Earlier(x)) \in Nat
                   /\ Cardinality(S) \in Nat
  BY FS_Subset, FS_CardinalityType
<1>1. ASSUME NEW x \in Segment(S, R, n), NEW y \in S, <<y, x>> \in R
      PROVE  y \in Segment(S, R, n)
  <2>1. x \in S /\ Cardinality(Earlier(x)) < n
    BY DEF Segment
  <2>2. Earlier(y) \subseteq Earlier(x)
    BY <1>1, <2>1 DEF StrictlyOrders
  <2>3. Cardinality(Earlier(y)) <= Cardinality(Earlier(x))
    <3> HIDE DEF Earlier
    <3> QED BY <1>0, <2>1, <2>2, FS_Subset
  <2>4. Cardinality(Earlier(y)) < n
    <3> HIDE DEF Earlier
    <3> QED BY <1>0, <2>1, <2>3
  <2> QED BY <2>4 DEF Segment
<1>2. ASSUME Cardinality(S) <= n, NEW x \in S
      PROVE  x \in Segment(S, R, n)
  <2>1. Earlier(x) \subseteq S /\ Earlier(x) # S
    BY DEF StrictlyOrders
  <2>2. Cardinality(Earlier(x)) < n
    <3> HIDE DEF Earlier
    <3>1. Cardinality(Earlier(x)) <= Cardinality(S) /\ Cardinality(S) # Cardinality(Earlier(x))
      BY <2>1, FS_Subset
    <3> QED BY <1>0, <1>2, <3>1
  <2> QED BY <2>2 DEF Segment
<1>3. ASSUME S # {}
      PROVE  Segment(S, R, n) # {}
  <2> DEFINE Q == {p \in S \X S : <<p[2], p[1]>> \in R}
  <2>1. \A x, y \in S : <<x, y>> \in Q <=> <<y, x>> \in R
    OBVIOUS
  <2>2. StrictlyOrders(Q, S)
    <3> HIDE DEF Q
    <3> QED BY <2>1, Zenon DEF StrictlyOrders
  <2>3. PICK x \in S : \A y \in S : <<x, y>> \notin Q
    <3> HIDE DEF Q
    <3> QED BY <1>3, <2>2, HasLast
  <2>4. Earlier(x) = {}
    BY <2>1, <2>3
  <2>5. Cardinality(Earlier(x)) = 0
    BY <2>4, FS_EmptySet
  <2> QED BY <2>5 DEF Segment
<1> QED BY <1>1, <1>2, <1>3 DEF Segment

-----------------------------------------------------------------------------
(* The pages of the log and of the reservations are such segments.         *)

LEMMA LogPage ==
    ASSUME ListingTypeOK, NEW limit \in Limits, NEW found \in SUBSET events, found # {}
    PROVE  LET page == FirstIds(found, limit)
               last == CHOOSE e \in page : \A d \in page : d <= e
           IN  /\ page \subseteq found
               /\ last \in page
               /\ \A e \in found : e <= last => e \in page
<1> DEFINE R == {p \in found \X found : p[1] < p[2]}
           page == FirstIds(found, limit)
<1>0. found \subseteq Nat /\ limit \in Nat \ {0}
  BY ListingAssumption DEF ListingTypeOK
<1>1. IsFiniteSet(found)
  <2>1. IsFiniteSet(1..(nextId - 1))
    BY FS_Interval DEF ListingTypeOK
  <2> QED BY <2>1, FS_Subset DEF ListingTypeOK
<1>2. \A d, e \in found : <<d, e>> \in R <=> d < e
  OBVIOUS
<1>3. StrictlyOrders(R, found)
  <2> HIDE DEF R
  <2> QED BY <1>0, <1>2 DEF StrictlyOrders
<1>4. page = Segment(found, R, limit)
  <2>1. \A e \in found : {d \in found : d < e} = {d \in found : <<d, e>> \in R}
    BY <1>2
  <2> HIDE DEF R
  <2> QED BY <2>1 DEF FirstIds, Segment
<1> HIDE DEF R
<1>5. /\ page \subseteq found /\ page # {}
      /\ \A e \in page, d \in found : d < e => d \in page
  <2>1. /\ \A e \in Segment(found, R, limit), d \in found :
              <<d, e>> \in R => d \in Segment(found, R, limit)
        /\ Segment(found, R, limit) # {}
    BY <1>0, <1>1, <1>3, SegmentMeaning
  <2>2. page \subseteq found
    BY DEF FirstIds
  <2> HIDE DEF page
  <2> QED BY <1>2, <1>4, <2>1, <2>2
<1>6. IsFiniteSet(page) /\ StrictlyOrders(R, page)
  <2> HIDE DEF page
  <2> QED BY <1>1, <1>3, <1>5, FS_Subset DEF StrictlyOrders
<1>7. PICK last \in page : \A d \in page : <<last, d>> \notin R
  <2> HIDE DEF page
  <2> QED BY <1>5, <1>6, HasLast
<1>8. ASSUME NEW d \in page
      PROVE  d <= last
  <2> HIDE DEF page
  <2>1. d \in found /\ last \in found /\ d \in Nat /\ last \in Nat
    BY <1>0, <1>5
  <2>2. ~ (last < d)
    BY <1>2, <1>7, <2>1
  <2> QED BY <2>1, <2>2
<1> DEFINE max == CHOOSE e \in page : \A d \in page : d <= e
<1>9. max \in page
  <2> HIDE DEF page
  <2> QED BY <1>8
<1>10. \A e \in found : e <= max => e \in page
  <2> HIDE DEF page, max
  <2> QED BY <1>0, <1>5, <1>9
<1> QED BY <1>5, <1>9, <1>10

(* The order of the listing is strict and total. *)
LEMMA BeforeIsOrder ==
    ASSUME ListingTypeOK
    PROVE  /\ \A i \in Invoices : Position(i) \in [at : Nat, invoice : Nat]
           /\ \A i, j \in Invoices :
                 ~Before(Position(i), Position(j)) => i = j \/ Before(Position(j), Position(i))
           /\ \A p, q, r \in [at : Int, invoice : Int] :
                 /\ ~Before(p, p)
                 /\ Before(p, q) /\ Before(q, r) => Before(p, r)
                 /\ Before(p, q) => ~Before(q, p)
<1>1. \A i \in Invoices : i \in Nat /\ rows[i].at \in Nat
  BY ListingAssumption DEF ListingTypeOK
<1> QED BY <1>1 DEF Position, Before

LEMMA RowsPage ==
    ASSUME ListingTypeOK, NEW limit \in Limits, NEW found \in SUBSET Invoices
    PROVE  LET page == FirstRows(found, limit)
               last == LastRow(page)
           IN  /\ page \subseteq found
               /\ Cardinality(found) <= limit => page = found
               /\ Cardinality(found) > limit =>
                     /\ last \in page
                     /\ \A i \in page : ~Before(Position(last), Position(i))
                     /\ \A i \in found :
                           ~Before(Position(last), Position(i)) => i \in page
<1> DEFINE R == {p \in found \X found : Before(Position(p[1]), Position(p[2]))}
           page == FirstRows(found, limit)
<1>0. /\ limit \in Nat \ {0}
      /\ IsFiniteSet(found)
      /\ \A i \in found : Position(i) \in [at : Int, invoice : Int]
  <2>1. IsFiniteSet(found)
    BY ListingAssumption, FS_Subset
  <2>2. \A i \in Invoices : Position(i) \in [at : Nat, invoice : Nat]
    BY BeforeIsOrder
  <2>3. [at : Nat, invoice : Nat] \subseteq [at : Int, invoice : Int]
    OBVIOUS
  <2> QED BY <2>1, <2>2, <2>3, ListingAssumption
<1>1. \A i, j \in found : <<i, j>> \in R <=> Before(Position(i), Position(j))
  OBVIOUS
<1>2. StrictlyOrders(R, found)
  <2> HIDE DEF R
  <2>1. ASSUME NEW i \in found
        PROVE  <<i, i>> \notin R
    BY <1>0, <1>1, BeforeIsOrder
  <2>2. ASSUME NEW i \in found, NEW j \in found, NEW k \in found,
               <<i, j>> \in R, <<j, k>> \in R
        PROVE  <<i, k>> \in R
    BY <1>0, <1>1, <2>2, BeforeIsOrder
  <2> QED BY <2>1, <2>2 DEF StrictlyOrders
<1>3. page = Segment(found, R, limit)
  <2>1. \A i \in found : {j \in found : Before(Position(j), Position(i))}
                             = {j \in found : <<j, i>> \in R}
    BY <1>1
  <2> HIDE DEF R
  <2> QED BY <2>1 DEF FirstRows, Segment
<1> HIDE DEF R
<1>4. /\ page \subseteq found
      /\ Cardinality(found) <= limit => page = found
      /\ found # {} => page # {}
      /\ \A i \in page, j \in found : <<j, i>> \in R => j \in page
  <2>1. /\ \A i \in Segment(found, R, limit), j \in found :
              <<j, i>> \in R => j \in Segment(found, R, limit)
        /\ Cardinality(found) <= limit => Segment(found, R, limit) = found
        /\ found # {} => Segment(found, R, limit) # {}
    BY <1>0, <1>2, SegmentMeaning
  <2>2. page \subseteq found
    BY DEF FirstRows
  <2> HIDE DEF page
  <2> QED BY <1>3, <2>1, <2>2
<1>5. ASSUME Cardinality(found) > limit
      PROVE  /\ LastRow(page) \in page
             /\ \A i \in page : ~Before(Position(LastRow(page)), Position(i))
             /\ \A i \in found :
                   ~Before(Position(LastRow(page)), Position(i)) => i \in page
  <2> HIDE DEF page
  <2>1. found # {}
    BY <1>0, <1>5, FS_EmptySet
  <2>2. IsFiniteSet(page) /\ StrictlyOrders(R, page) /\ page # {}
    BY <1>0, <1>2, <1>4, <2>1, FS_Subset DEF StrictlyOrders
  <2>3. PICK i \in page : \A j \in page : <<i, j>> \notin R
    BY <2>2, HasLast
  <2>4. \A j \in page : ~Before(Position(i), Position(j))
    BY <1>1, <1>4, <2>3
  <2>5. /\ LastRow(page) \in page
        /\ \A j \in page : ~Before(Position(LastRow(page)), Position(j))
    BY <2>4, Zenon DEF LastRow
  <2>6. ASSUME NEW j \in found, ~Before(Position(LastRow(page)), Position(j))
        PROVE  j \in page
    <3>1. j = LastRow(page) \/ Before(Position(j), Position(LastRow(page)))
      BY <1>4, <2>5, <2>6, BeforeIsOrder
    <3> QED BY <1>1, <1>4, <2>5, <3>1
  <2> QED BY <2>5, <2>6
<1> QED BY <1>4, <1>5

-----------------------------------------------------------------------------

(* Every write is a flush of rows that are there to be inserted or         *)
(* released, with at least one event.                                      *)
LEMMA WriteFlushes ==
    ASSUME ListingTypeOK, NEW w \in Writers, Write(w)
    PROVE  \E inserted \in SUBSET With("NONE"), released \in SUBSET With("ACTIVE"),
              at \in Nat, n \in Nat \ {0} : Flush(w, inserted, released, at, n)
<1> DEFINE Goal == \E inserted \in SUBSET With("NONE"), released \in SUBSET With("ACTIVE"),
                      at \in Nat, n \in Nat \ {0} : Flush(w, inserted, released, at, n)
<1>0. now \in Nat /\ 1 \in Nat \ {0}
  BY DEF ListingTypeOK
<1>1. CASE ReserveInvoice(w)
  <2>1. PICK i \in With("NONE") : Flush(w, {i}, {}, now, 1)
    BY <1>1 DEF ReserveInvoice
  <2> QED BY <1>0, <2>1, Zenon
<1>2. CASE ReleaseReservation(w)
  <2>1. PICK i \in With("ACTIVE") : Flush(w, {}, {i}, now, 1)
    BY <1>2 DEF ReleaseReservation
  <2> QED BY <1>0, <2>1, Zenon
<1>3. CASE ApplySnapshot(w)
  <2>1. PICK inserted \in SUBSET With("NONE"), released \in SUBSET With("ACTIVE"),
             asOf \in 0..MaxTime :
                Flush(w, inserted, released, asOf,
                      Cardinality(inserted) + Cardinality(released) + 1)
    BY <1>3 DEF ApplySnapshot
  <2>2. inserted \subseteq Invoices /\ released \subseteq Invoices
    BY DEF With
  <2>3. Cardinality(inserted) \in Nat /\ Cardinality(released) \in Nat
    BY <2>2, ListingAssumption, FS_Subset, FS_CardinalityType
  <2>4. Cardinality(inserted) + Cardinality(released) + 1 \in Nat \ {0}
    BY <2>3
  <2>5. asOf \in Nat
    BY ListingAssumption
  <2> QED BY <2>1, <2>4, <2>5, Zenon
<1> QED BY <1>1, <1>2, <1>3 DEF Write

(* A walk up to this cursor has listed rows behind it only, and all of     *)
(* them that match, the late ones excepted.                                *)
Covered(filter, cursor, listed, late) ==
    /\ \A i \in Invoices : listed[i] > 0 =>
          rows[i].status # "NONE" /\ ~Before(cursor, Position(i))
    /\ \A i \in Matching(filter) :
          ~Before(cursor, Position(i)) => listed[i] > 0 \/ i \in late

(* A page takes such a walk on, or ends it with every row it was about.    *)
LEMMA PageStep ==
    ASSUME ListingTypeOK, NEW filter \in Filters, NEW limit \in Limits, NEW late,
           NEW cursor \in [at : Int, invoice : Int], NEW listed \in [Invoices -> Nat],
           \A i \in Invoices : listed[i] <= 1,
           Covered(filter, cursor, listed, late),
           ListPage(filter, cursor, listed, limit)
    PROVE  /\ walk' \in [open : BOOLEAN, filter : Filters,
                         after : [at : Int, invoice : Int], listed : [Invoices -> Nat]]
           /\ walk'.open <=> walk'.after # Start
           /\ walk'.filter = filter
           /\ \A i \in Invoices : walk'.listed[i] <= 1
           /\ walk'.open => Covered(filter, walk'.after, walk'.listed, late)
           /\ ~walk'.open => \A i \in Matching(filter) : walk'.listed[i] > 0 \/ i \in late
<1> DEFINE found == Found(filter, cursor)
           page  == FirstRows(found, limit)
           last  == LastRow(page)
           more  == Cardinality(found) > limit
           after == IF more THEN Position(last) ELSE Start
           count == [i \in Invoices |-> IF i \in page THEN listed[i] + 1 ELSE listed[i]]
<1>1. walk' = [open |-> more, filter |-> filter, after |-> after, listed |-> count]
  BY DEF ListPage
<1>2. /\ found \subseteq Invoices
      /\ \A i \in Matching(filter) : i \in found <=> Before(cursor, Position(i))
      /\ \A i \in found : i \in Matching(filter)
      /\ \A i \in Matching(filter) : i \in Invoices /\ rows[i].status # "NONE"
  BY DEF Found, Matching, Statuses, Filters
<1>3. /\ page \subseteq found
      /\ ~more => page = found
      /\ more => /\ last \in page
                 /\ \A i \in page : ~Before(Position(last), Position(i))
                 /\ \A i \in found : ~Before(Position(last), Position(i)) => i \in page
  <2> HIDE DEF found
  <2>1. IsFiniteSet(found)
    BY <1>2, ListingAssumption, FS_Subset
  <2>2. Cardinality(found) \in Nat /\ limit \in Nat
    BY <2>1, FS_CardinalityType, ListingAssumption
  <2>3. ~more => Cardinality(found) <= limit
    BY <2>2
  <2> QED BY <1>2, <2>3, RowsPage, Zenon
<1> HIDE DEF found, page, last, more
<1>4. \A i \in Invoices : i \in page => listed[i] = 0
  BY <1>2, <1>3 DEF Covered
<1>5. count \in [Invoices -> Nat] /\ \A i \in Invoices :
          count[i] <= 1 /\ (count[i] > 0 <=> listed[i] > 0 \/ i \in page)
  BY <1>4
<1>6. \A i \in Invoices : Position(i) \in [at : Nat, invoice : Nat] /\ Position(i) # Start
  BY BeforeIsOrder DEF Start
<1>7. /\ after \in [at : Int, invoice : Int]
      /\ more => after # Start
      /\ ~more => after = Start
  BY <1>2, <1>3, <1>6 DEF Start
<1>8. ASSUME more
      PROVE  Covered(filter, after, count, late)
  <2>0. /\ after = Position(last) /\ last \in Invoices
        /\ Before(cursor, after)
        /\ cursor \in [at : Int, invoice : Int] /\ after \in [at : Int, invoice : Int]
    BY <1>2, <1>3, <1>7, <1>8
  <2> HIDE DEF after, count
  <2>1. ASSUME NEW i \in Invoices, count[i] > 0
        PROVE  rows[i].status # "NONE" /\ ~Before(after, Position(i))
    <3>1. CASE i \in page
      BY <1>2, <1>3, <1>8, <2>0, <3>1
    <3>2. CASE listed[i] > 0
      <4>1. rows[i].status # "NONE" /\ ~Before(cursor, Position(i))
        BY <3>2 DEF Covered
      <4>2. Position(i) \in [at : Int, invoice : Int]
        BY <1>6
      <4>3. Before(after, Position(i)) => Before(cursor, Position(i))
        BY <2>0, <4>2, BeforeIsOrder
      <4> QED BY <4>1, <4>3
    <3> QED BY <1>5, <2>1, <3>1, <3>2
  <2>2. ASSUME NEW i \in Matching(filter), ~Before(after, Position(i))
        PROVE  count[i] > 0 \/ i \in late
    <3>1. CASE i \in found
      BY <1>2, <1>3, <1>5, <1>8, <2>0, <2>2, <3>1
    <3>2. CASE i \notin found
      BY <1>2, <1>5, <3>2 DEF Covered
    <3> QED BY <3>1, <3>2
  <2> QED BY <2>1, <2>2 DEF Covered
<1>9. ASSUME ~more, NEW i \in Matching(filter)
      PROVE  count[i] > 0 \/ i \in late
  BY <1>2, <1>3, <1>5, <1>9 DEF Covered
<1> HIDE DEF count, after
<1>10. more \in BOOLEAN
  BY DEF more
<1> QED BY <1>1, <1>5, <1>7, <1>8, <1>9, <1>10 DEF Covered

LEMMA NewWalkIsCovered ==
    ASSUME ListingTypeOK, NEW filter
    PROVE  Covered(filter, Start, Unlisted, {})
<1>1. \A i \in Invoices : Before(Start, Position(i)) /\ Unlisted[i] = 0
  <2>1. \A i \in Invoices : Position(i).at \in Nat
    BY BeforeIsOrder
  <2> QED BY <2>1 DEF Before, Start, Unlisted
<1>2. Matching(filter) \subseteq Invoices
  BY DEF Matching
<1> QED BY <1>1, <1>2 DEF Covered

-----------------------------------------------------------------------------
(* One writer at a time has flushed, rows that are there to be inserted or *)
(* released, and its ids are ahead of every committed one.  A walk has     *)
(* come as far as its cursor says.                                         *)

StagedInOrder ==
    \A w \in Writers :
        /\ staged[w] # Nothing => lock = w
        /\ staged[w].inserted \subseteq With("NONE")
        /\ staged[w].released \subseteq With("ACTIVE")
        /\ \A id \in staged[w].ids, e \in events : e < id

WalkInOrder ==
    walk.open => Covered(walk.filter, walk.after, walk.listed, behind)

ListingInv ==
    ListingTypeOK /\ StagedInOrder /\ EventsAreNeverSkipped
        /\ WalksListRowsOnce /\ WalkInOrder

MissesOnlyLateRows ==
    WalkEnds => \A i \in Matching(walk'.filter) : walk'.listed[i] > 0 \/ i \in behind'

LEMMA FlushStep ==
    ASSUME ListingInv, NEW w \in Writers,
           NEW inserted \in SUBSET With("NONE"), NEW released \in SUBSET With("ACTIVE"),
           NEW at \in Nat, NEW n \in Nat \ {0}, Flush(w, inserted, released, at, n)
    PROVE  ListingInv'
<1> DEFINE new == [inserted |-> inserted, released |-> released, at |-> at,
                   ids |-> nextId..(nextId + n - 1)]
<1>1. /\ staged' = [staged EXCEPT ![w] = new] /\ lock' = w /\ lock = Nobody
      /\ nextId' = nextId + n /\ nextId \in Nat \ {0} /\ nextId' \in Nat \ {0}
      /\ UNCHANGED <<rows, events, now, tail, walk, behind>>
  BY DEF Flush, ListingInv, ListingTypeOK
<1>2. /\ new.inserted = inserted /\ new.released = released /\ new.at = at
      /\ \A id \in new.ids : id >= nextId /\ id \in 1..(nextId' - 1)
  BY <1>1
<1>3. \A v \in Writers : staged[v] = Nothing
  BY <1>1, ListingAssumption DEF ListingInv, StagedInOrder
<1>4. \A v \in Writers \ {w} : staged'[v] = Nothing
  BY <1>1, <1>3 DEF ListingInv, ListingTypeOK
<1>5. staged'[w] = new
  BY <1>1 DEF ListingInv, ListingTypeOK
<1>6. new \in [inserted : SUBSET Invoices, released : SUBSET Invoices,
              at : Nat, ids : SUBSET (1..(nextId' - 1))]
  BY <1>1, <1>2 DEF With
<1>7. Nothing \in [inserted : SUBSET Invoices, released : SUBSET Invoices,
                  at : Nat, ids : SUBSET (1..(nextId' - 1))]
  BY DEF Nothing
<1> HIDE DEF new
<1>8. ListingTypeOK'
  <2>1. staged' \in [Writers -> [inserted : SUBSET Invoices, released : SUBSET Invoices,
                                at : Nat, ids : SUBSET (1..(nextId' - 1))]]
    BY <1>1, <1>3, <1>6, <1>7 DEF ListingInv, ListingTypeOK
  <2>2. events \subseteq 1..(nextId' - 1)
    BY <1>1 DEF ListingInv, ListingTypeOK
  <2> QED BY <1>1, <2>1, <2>2 DEF ListingInv, ListingTypeOK
<1>9. StagedInOrder'
  <2>1. With("NONE")' = With("NONE") /\ With("ACTIVE")' = With("ACTIVE")
    BY <1>1 DEF With
  <2>2. \A id \in new.ids, e \in events : e < id
    BY <1>1, <1>2 DEF ListingInv, ListingTypeOK
  <2> QED BY <1>1, <1>2, <1>4, <1>5, <2>1, <2>2 DEF StagedInOrder, Nothing
<1>10. EventsAreNeverSkipped' /\ WalksListRowsOnce' /\ WalkInOrder'
  BY <1>1 DEF ListingInv, EventsAreNeverSkipped, WalksListRowsOnce, WalkInOrder,
              Covered, Matching, Position
<1> QED BY <1>8, <1>9, <1>10 DEF ListingInv

(* Clearing a writer's flush leaves nobody's, for it had the lock.         *)
LEMMA Cleared ==
    ASSUME ListingTypeOK, StagedInOrder, NEW w \in Writers, staged[w] # Nothing,
           staged' = [staged EXCEPT ![w] = Nothing]
    PROVE  \A v \in Writers : staged'[v] = Nothing
<1>1. \A v \in Writers \ {w} : staged[v] = Nothing
  BY DEF StagedInOrder
<1> QED BY <1>1 DEF ListingTypeOK

LEMMA CommitStep ==
    ASSUME ListingInv, NEW w \in Writers, Commit(w)
    PROVE  ListingInv'
<1> DEFINE done == staged[w]
<1>1. /\ done # Nothing
      /\ rows' = [i \in Invoices |->
              CASE i \in done.inserted -> [status |-> "ACTIVE", at |-> done.at]
                [] i \in done.released -> [rows[i] EXCEPT !.status = "RELEASED"]
                [] OTHER               -> rows[i]]
      /\ events' = events \cup done.ids
      /\ staged' = [staged EXCEPT ![w] = Nothing]
      /\ lock' = Nobody
      /\ UNCHANGED <<nextId, now, tail, walk>>
      /\ behind' = IF walk.open
                   THEN behind \cup {i \in Matching(walk.filter)' \ Matching(walk.filter) :
                          ~Before(walk.after, Position(i)')}
                   ELSE behind
  BY DEF Commit
<1>2. /\ done \in [inserted : SUBSET Invoices, released : SUBSET Invoices,
                   at : Nat, ids : SUBSET (1..(nextId - 1))]
      /\ done.inserted \subseteq With("NONE") /\ done.released \subseteq With("ACTIVE")
      /\ \A id \in done.ids, e \in events : e < id
  BY DEF ListingInv, ListingTypeOK, StagedInOrder
<1> HIDE DEF done
<1>3. \A v \in Writers : staged'[v] = Nothing
  BY <1>1, Cleared DEF ListingInv, done
<1>4. ASSUME NEW i \in Invoices
      PROVE  /\ rows'[i] \in [status : {"NONE", "ACTIVE", "RELEASED"}, at : Nat]
             /\ rows[i].status # "NONE" => /\ rows'[i].status # "NONE"
                                           /\ rows'[i].at = rows[i].at
  <2>1. rows[i] \in [status : {"NONE", "ACTIVE", "RELEASED"}, at : Nat]
    BY DEF ListingInv, ListingTypeOK
  <2>2. CASE i \in done.inserted
    BY <1>1, <1>2, <2>2 DEF With
  <2>3. CASE i \notin done.inserted /\ i \in done.released
    BY <1>1, <2>1, <2>3
  <2>4. CASE i \notin done.inserted /\ i \notin done.released
    BY <1>1, <2>1, <2>4
  <2> QED BY <2>2, <2>3, <2>4
<1>5. ListingTypeOK'
  <2>1. rows' \in [Invoices -> [status : {"NONE", "ACTIVE", "RELEASED"}, at : Nat]]
    BY <1>1, <1>4
  <2>2. events' \subseteq 1..(nextId' - 1) /\ tail'.after \in {0} \cup events'
        /\ tail' \in [after : {0} \cup events', listed : SUBSET events']
    BY <1>1, <1>2 DEF ListingInv, ListingTypeOK
  <2>3. staged' \in [Writers -> [inserted : SUBSET Invoices, released : SUBSET Invoices,
                                at : Nat, ids : SUBSET (1..(nextId - 1))]]
    BY <1>1, <1>3 DEF ListingInv, ListingTypeOK, Nothing
  <2>4. behind' \subseteq Invoices
    BY <1>1 DEF ListingInv, ListingTypeOK, Matching
  <2> QED BY <1>1, <2>1, <2>2, <2>3, <2>4 DEF ListingInv, ListingTypeOK
<1>6. StagedInOrder'
  BY <1>3 DEF StagedInOrder, Nothing
<1>7. EventsAreNeverSkipped'
  <2>0. /\ tail.after = 0 \/ tail.after \in events
        /\ events \subseteq Nat /\ done.ids \subseteq Nat \ {0}
    BY <1>2 DEF ListingInv, ListingTypeOK
  <2>1. ASSUME NEW id \in done.ids
        PROVE  id > tail.after
    <3>1. CASE tail.after = 0
      BY <2>0, <3>1
    <3>2. CASE tail.after \in events
      BY <1>2, <2>0, <3>2
    <3> QED BY <2>0, <3>1, <3>2
  <2> QED BY <1>1, <1>2, <2>1 DEF ListingInv, ListingTypeOK, EventsAreNeverSkipped
<1>8. WalksListRowsOnce'
  BY <1>1 DEF ListingInv, WalksListRowsOnce
<1>9. WalkInOrder'
  <2> SUFFICES ASSUME walk.open
               PROVE  Covered(walk.filter, walk.after, walk.listed, behind)'
    BY <1>1 DEF WalkInOrder
  <2>1. Covered(walk.filter, walk.after, walk.listed, behind)
    BY DEF ListingInv, WalkInOrder
  <2>2. \A i \in Invoices : rows[i].status # "NONE" => Position(i)' = Position(i)
    BY <1>4 DEF Position
  <2>3. ASSUME NEW i \in Invoices, walk.listed[i] > 0
        PROVE  rows'[i].status # "NONE" /\ ~Before(walk.after, Position(i)')
    BY <1>4, <2>1, <2>2, <2>3 DEF Covered
  <2>4. ASSUME NEW i \in Matching(walk.filter)', ~Before(walk.after, Position(i)')
        PROVE  walk.listed[i] > 0 \/ i \in behind'
    <3>1. CASE i \in Matching(walk.filter)
      <4>1. i \in Invoices /\ rows[i].status # "NONE"
        BY <3>1 DEF Matching, Statuses, Filters, ListingInv, ListingTypeOK
      <4> QED BY <1>1, <2>1, <2>2, <2>4, <3>1, <4>1 DEF Covered
    <3>2. CASE i \notin Matching(walk.filter)
      BY <1>1, <2>4, <3>2
    <3> QED BY <3>1, <3>2
  <2> QED BY <1>1, <2>3, <2>4 DEF Covered
<1> QED BY <1>5, <1>6, <1>7, <1>8, <1>9 DEF ListingInv

LEMMA RollbackStep ==
    ASSUME ListingInv, NEW w \in Writers, Rollback(w)
    PROVE  ListingInv'
<1>1. /\ staged[w] # Nothing /\ staged' = [staged EXCEPT ![w] = Nothing]
      /\ lock' = Nobody
      /\ UNCHANGED <<rows, logVars, now, tail, walk, behind>>
  BY DEF Rollback
<1>2. \A v \in Writers : staged'[v] = Nothing
  BY <1>1, Cleared DEF ListingInv
<1>3. ListingTypeOK' /\ StagedInOrder'
  BY <1>1, <1>2 DEF ListingInv, ListingTypeOK, StagedInOrder, Nothing, logVars
<1>4. EventsAreNeverSkipped' /\ WalksListRowsOnce' /\ WalkInOrder'
  BY <1>1 DEF ListingInv, EventsAreNeverSkipped, WalksListRowsOnce, WalkInOrder,
              Covered, Matching, Position, logVars
<1> QED BY <1>3, <1>4 DEF ListingInv

LEMMA TailStep ==
    ASSUME ListingInv, NEW limit \in Limits, findByProgram(limit)
    PROVE  ListingInv'
<1> DEFINE found == {e \in events : e > tail.after}
           page  == FirstIds(found, limit)
           last  == CHOOSE e \in page : \A d \in page : d <= e
<1>1. /\ found # {}
      /\ tail' = [after |-> last, listed |-> tail.listed \cup page]
      /\ UNCHANGED <<rows, logVars, lock, staged, now, walk, behind>>
  BY DEF findByProgram
<1>2. page \subseteq found /\ last \in page /\ \A e \in found : e <= last => e \in page
  BY <1>1, LogPage DEF ListingInv
<1>3. found \subseteq events /\ \A e \in events : e \in found <=> e > tail.after
  OBVIOUS
<1> HIDE DEF found, page, last
<1>4. ListingTypeOK'
  BY <1>1, <1>2, <1>3 DEF ListingInv, ListingTypeOK, logVars
<1>5. EventsAreNeverSkipped'
  <2>1. /\ events' = events /\ tail'.after = last
        /\ tail'.listed = tail.listed \cup page
    BY <1>1 DEF logVars
  <2>2. /\ events \subseteq Nat /\ EventsAreNeverSkipped
        /\ tail.after = 0 \/ tail.after \in events
    BY DEF ListingInv, ListingTypeOK
  <2>3. tail.after \in Nat
    <3>1. CASE tail.after = 0
      BY <3>1
    <3>2. CASE tail.after \in events
      BY <2>2, <3>2
    <3> QED BY <2>2, <3>1, <3>2
  <2>4. ASSUME NEW e \in events, e <= last
        PROVE  e \in tail'.listed
    <3>1. CASE e \in found
      BY <1>2, <2>1, <2>4, <3>1
    <3>2. CASE e <= tail.after
      BY <2>1, <2>2, <3>2 DEF EventsAreNeverSkipped
    <3>3. e \in Nat
      BY <2>2
    <3> QED BY <1>3, <2>3, <3>1, <3>2, <3>3
  <2> QED BY <2>1, <2>4 DEF EventsAreNeverSkipped
<1>6. StagedInOrder' /\ WalksListRowsOnce' /\ WalkInOrder'
  BY <1>1 DEF ListingInv, StagedInOrder, With, WalksListRowsOnce, WalkInOrder,
              Covered, Matching, Position, logVars
<1> QED BY <1>4, <1>5, <1>6 DEF ListingInv

LEMMA WalkStep ==
    ASSUME ListingInv, NEW limit \in Limits,
           \/ \E filter \in Filters : listByProgram(filter, limit)
           \/ listByProgramAfter(limit)
    PROVE  ListingInv' /\ MissesOnlyLateRows
<1>1. \E filter \in Filters, cursor \in [at : Int, invoice : Int],
        listed \in [Invoices -> Nat] :
          /\ \A i \in Invoices : listed[i] <= 1
          /\ Covered(filter, cursor, listed, behind')
          /\ ListPage(filter, cursor, listed, limit)
  <2>1. CASE \E filter \in Filters : listByProgram(filter, limit)
    <3>1. PICK filter \in Filters : listByProgram(filter, limit)
      BY <2>1
    <3>2. behind' = {} /\ ListPage(filter, Start, Unlisted, limit)
      BY <3>1 DEF listByProgram
    <3>3. /\ Start \in [at : Int, invoice : Int] /\ Unlisted \in [Invoices -> Nat]
          /\ \A i \in Invoices : Unlisted[i] <= 1
      BY DEF Start, Unlisted
    <3>4. Covered(filter, Start, Unlisted, behind')
      BY <3>2, NewWalkIsCovered DEF ListingInv
    <3> QED BY <3>2, <3>3, <3>4, Zenon
  <2>2. CASE listByProgramAfter(limit)
    <3>1. walk.open /\ behind' = behind /\ ListPage(walk.filter, walk.after, walk.listed, limit)
      BY <2>2 DEF listByProgramAfter
    <3>2. /\ walk.filter \in Filters /\ walk.after \in [at : Int, invoice : Int]
          /\ walk.listed \in [Invoices -> Nat]
          /\ \A i \in Invoices : walk.listed[i] <= 1
      BY DEF ListingInv, ListingTypeOK, WalksListRowsOnce
    <3>3. Covered(walk.filter, walk.after, walk.listed, behind')
      BY <3>1 DEF ListingInv, WalkInOrder
    <3> QED BY <3>1, <3>2, <3>3, Zenon
  <2> QED BY <2>1, <2>2
<1>2. PICK filter \in Filters, cursor \in [at : Int, invoice : Int],
           listed \in [Invoices -> Nat] :
          /\ \A i \in Invoices : listed[i] <= 1
          /\ Covered(filter, cursor, listed, behind')
          /\ ListPage(filter, cursor, listed, limit)
  BY <1>1
<1>3. /\ UNCHANGED <<rows, logVars, lock, staged, now, tail>>
      /\ behind' \in {{}, behind}
  BY DEF listByProgram, listByProgramAfter
<1>4. /\ walk' \in [open : BOOLEAN, filter : Filters,
                    after : [at : Int, invoice : Int], listed : [Invoices -> Nat]]
      /\ walk'.open <=> walk'.after # Start
      /\ walk'.filter = filter
      /\ \A i \in Invoices : walk'.listed[i] <= 1
      /\ walk'.open => Covered(filter, walk'.after, walk'.listed, behind')
      /\ ~walk'.open => \A i \in Matching(filter) : walk'.listed[i] > 0 \/ i \in behind'
  BY <1>2, PageStep DEF ListingInv
<1>5. ListingTypeOK'
  BY <1>3, <1>4 DEF ListingInv, ListingTypeOK, logVars
<1>6. StagedInOrder' /\ EventsAreNeverSkipped'
  BY <1>3 DEF ListingInv, StagedInOrder, With, EventsAreNeverSkipped, logVars
<1>7. WalksListRowsOnce' /\ WalkInOrder'
  BY <1>3, <1>4 DEF WalksListRowsOnce, WalkInOrder, Covered, Matching, Position
<1>8. MissesOnlyLateRows
  BY <1>4 DEF MissesOnlyLateRows, WalkEnds
<1> QED BY <1>5, <1>6, <1>7, <1>8 DEF ListingInv

LEMMA ListingStep ==
    ASSUME ListingInv, [Next]_vars
    PROVE  ListingInv' /\ [MissesOnlyLateRows]_vars
<1>1. ASSUME NEW w \in Writers, Write(w)
      PROVE  ListingInv' /\ walk' = walk
  <2>1. PICK inserted \in SUBSET With("NONE"), released \in SUBSET With("ACTIVE"),
             at \in Nat, n \in Nat \ {0} : Flush(w, inserted, released, at, n)
    BY <1>1, WriteFlushes DEF ListingInv
  <2>2. ListingInv'
    BY <2>1, FlushStep
  <2> QED BY <2>1, <2>2 DEF Flush
<1>2. ASSUME NEW w \in Writers, Commit(w) \/ Rollback(w)
      PROVE  ListingInv' /\ walk' = walk
  BY <1>2, CommitStep, RollbackStep DEF Commit, Rollback
<1>3. ASSUME NEW limit \in Limits, findByProgram(limit)
      PROVE  ListingInv' /\ walk' = walk
  BY <1>3, TailStep DEF findByProgram
<1>4. ASSUME NEW limit \in Limits,
             \/ \E filter \in Filters : listByProgram(filter, limit)
             \/ listByProgramAfter(limit)
      PROVE  ListingInv' /\ MissesOnlyLateRows
  BY <1>4, WalkStep
<1>5. ASSUME UNCHANGED <<rows, logVars, lock, staged, tail, walk, behind>>,
             now' \in {now, now + 1}
      PROVE  ListingInv' /\ walk' = walk
  <2>1. ListingTypeOK'
    BY <1>5 DEF ListingInv, ListingTypeOK, logVars
  <2>2. /\ StagedInOrder' /\ EventsAreNeverSkipped'
        /\ WalksListRowsOnce' /\ WalkInOrder'
    BY <1>5 DEF ListingInv, StagedInOrder, With, EventsAreNeverSkipped,
                WalksListRowsOnce, WalkInOrder, Covered, Matching, Position, logVars
  <2> QED BY <1>5, <2>1, <2>2 DEF ListingInv
<1>6. walk' = walk => MissesOnlyLateRows
  BY DEF MissesOnlyLateRows, WalkEnds
<1>7. CASE Tick
  BY <1>5, <1>6, <1>7 DEF Tick
<1>8. CASE UNCHANGED vars
  BY <1>5, <1>8 DEF vars
<1> QED BY <1>1, <1>2, <1>3, <1>4, <1>6, <1>7, <1>8 DEF Next

LEMMA ListingInvariant == Spec => []ListingInv
<1>1. Init => ListingInv
  <2> SUFFICES ASSUME Init
               PROVE  ListingInv
    OBVIOUS
  <2>1. ListingTypeOK
    BY DEF Init, ListingTypeOK, Nothing, Unlisted, Filters, Start
  <2>2. StagedInOrder /\ EventsAreNeverSkipped /\ WalksListRowsOnce /\ WalkInOrder
    BY DEF Init, StagedInOrder, Nothing, EventsAreNeverSkipped, WalksListRowsOnce,
           Unlisted, WalkInOrder
  <2> QED BY <2>1, <2>2 DEF ListingInv
<1>2. ListingInv /\ [Next]_vars => ListingInv'
  BY ListingStep
<1> QED BY <1>1, <1>2, PTL DEF Spec

(* The rows, the log and the cursors have their types; a cursor is handed  *)
(* out exactly while there is more to list.                                *)
THEOREM ListingTypeCorrect == Spec => []ListingTypeOK
<1>1. ListingInv => ListingTypeOK
  BY DEF ListingInv
<1> QED BY <1>1, ListingInvariant, PTL

(* A client that tails the audit log by id misses no event: the program's  *)
(* lock orders the ids of the sequence and the commits alike               *)
(* (MikroOrmCapacityEventLog.append and findByProgram).                    *)
THEOREM NoEventIsSkipped == Spec => []EventsAreNeverSkipped
<1>1. ListingInv => EventsAreNeverSkipped
  BY DEF ListingInv
<1> QED BY <1>1, ListingInvariant, PTL

(* A walk over the reservations lists no row twice, whatever is written    *)
(* meanwhile (MikroOrmReservationRepository.listByProgram).                *)
THEOREM NoRowIsListedTwice == Spec => []WalksListRowsOnce
<1>1. ListingInv => WalksListRowsOnce
  BY DEF ListingInv
<1> QED BY <1>1, ListingInvariant, PTL

(* A walk that ends has listed every row it was about, but for rows that   *)
(* came to match during the walk and behind its cursor.                    *)
THEOREM OnlyLateRowsAreMissed == Spec => WalksMissOnlyLateRows
<1>1. ListingInv /\ [Next]_vars => [MissesOnlyLateRows]_vars
  BY ListingStep
<1> QED BY <1>1, ListingInvariant, PTL
        DEF Spec, WalksMissOnlyLateRows, MissesOnlyLateRows

=============================================================================
