---------------------------- MODULE BrowserProofs ----------------------------
(***************************************************************************)
(* What the administrator's page shows of a folder is what the store has   *)
(* of it, for every number of items, folders and requests, every size of a *)
(* page and every order of the answers; and the types of all components.   *)
(***************************************************************************)
EXTENDS PartProofs, StreamProofs, ServiceProofs

(***************************************************************************)
(* A finite set that an order compares has an enumeration in that order:   *)
(* the place of an element is the number of those before it, and one.      *)
(***************************************************************************)
LEMMA Enumerated ==
  ASSUME NEW X, IsFiniteSet(X), NEW order \in SUBSET (X \X X),
         \A x \in X : <<x, x>> \notin order,
         \A x, y \in X : x # y => <<x, y>> \in order \/ <<y, x>> \in order,
         \A x, y, z \in X :
           <<x, y>> \in order /\ <<y, z>> \in order => <<x, z>> \in order
  PROVE  \E s \in [1 .. Cardinality(X) -> X] :
           /\ \A x \in X : \E n \in 1 .. Cardinality(X) : s[n] = x
           /\ \A m, n \in 1 .. Cardinality(X) :
                m < n => <<s[m], s[n]>> \in order
<1> DEFINE size == Cardinality(X)
           First(x) == {y \in X : <<y, x>> \in order}
           place == [x \in X |-> Cardinality(First(x)) + 1]
           s == [n \in 1 .. size |-> CHOOSE x \in X : place[x] = n]
<1>1. size \in Nat
  BY FS_CardinalityType
<1>2. ASSUME NEW x \in X
      PROVE  /\ IsFiniteSet(First(x)) /\ Cardinality(First(x)) \in Nat
             /\ Cardinality(First(x)) < size
  <2>1. First(x) \in SUBSET (X \ {x})
    OBVIOUS
  <2>2. IsFiniteSet(X \ {x}) /\ Cardinality(X \ {x}) = size - 1
    BY FS_RemoveElement
  <2>3. IsFiniteSet(First(x)) /\ Cardinality(First(x)) <= size - 1
    <3> HIDE DEF First
    <3>. QED BY <2>1, <2>2, FS_Subset
  <2>4. Cardinality(First(x)) \in Nat
    BY <2>3, FS_CardinalityType
  <2>. QED BY <1>1, <2>3, <2>4
<1>3. place \in [X -> 1 .. size]
  <2> HIDE DEF First, size
  <2>. QED BY <1>1, <1>2
<1>4. ASSUME NEW x \in X, NEW y \in X, <<x, y>> \in order
      PROVE  place[x] < place[y]
  <2>1. First(x) \in SUBSET First(y)
    BY <1>4
  <2>2. First(x) # First(y)
    BY <1>4
  <2>3. place[x] = Cardinality(First(x)) + 1
        /\ place[y] = Cardinality(First(y)) + 1
    OBVIOUS
  <2> HIDE DEF First, place
  <2>4. Cardinality(First(x)) # Cardinality(First(y))
    BY <1>2, <2>1, <2>2, FS_Subset
  <2>5. Cardinality(First(x)) <= Cardinality(First(y))
    BY <1>2, <2>1, FS_Subset
  <2>. QED BY <1>2, <2>3, <2>4, <2>5
<1>5. place \in Injection(X, 1 .. size)
  <2>1. ASSUME NEW x \in X, NEW y \in X, x # y PROVE place[x] # place[y]
    <3> HIDE DEF place
    <3>1. place[x] \in Int /\ place[y] \in Int
      BY <1>1, <1>3
    <3>2. place[x] < place[y] \/ place[y] < place[x]
      BY <1>4, <2>1
    <3>. QED BY <3>1, <3>2
  <2>. QED BY <1>3, <2>1 DEF Injection, IsInjective
<1>6. place \in Surjection(X, 1 .. size)
  <2>1. IsFiniteSet(1 .. size) /\ Cardinality(1 .. size) = size
    BY <1>1, FS_Interval
  <2> HIDE DEF place
  <2>. QED BY <1>5, <2>1, FS_Injection
<1>7. ASSUME NEW n \in 1 .. size PROVE s[n] \in X /\ place[s[n]] = n
  <2>1. \E x \in X : place[x] = n
    BY <1>6 DEF Surjection
  <2> HIDE DEF place
  <2>. QED BY <2>1
<1>8. s \in [1 .. size -> X]
  BY <1>7
<1> HIDE DEF s, place
<1>9. ASSUME NEW x \in X PROVE \E n \in 1 .. size : s[n] = x
  <2>1. place[x] \in 1 .. size
    BY <1>3
  <2>2. s[place[x]] \in X /\ place[s[place[x]]] = place[x]
    BY <1>7, <2>1
  <2>3. s[place[x]] = x
    BY <1>5, <2>2 DEF Injection, IsInjective
  <2>. QED BY <2>1, <2>3
<1>10. ASSUME NEW m \in 1 .. size, NEW n \in 1 .. size, m < n
       PROVE  <<s[m], s[n]>> \in order
  <2>1. /\ s[m] \in X /\ place[s[m]] = m
        /\ s[n] \in X /\ place[s[n]] = n
    BY <1>7
  <2>2. s[m] # s[n] /\ <<s[n], s[m]>> \notin order
    BY <1>1, <1>4, <1>10, <2>1
  <2>. QED BY <2>1, <2>2
<1>. QED BY <1>8, <1>9, <1>10

-----------------------------------------------------------------------------
(***************************************************************************)
(* The order of the query.                                                 *)
(***************************************************************************)
Sorts == [rank : 0 .. 2, name : Nat, id : Nat]

LEMMA AfterIsOrder ==
  /\ \A k \in Sorts : ~B!After(k, k)
  /\ \A k, l \in Sorts : k # l => B!After(k, l) \/ B!After(l, k)
  /\ \A k, l, m \in Sorts :
       B!After(k, l) /\ B!After(l, m) => B!After(k, m)
<1>1. ASSUME NEW k \in Sorts PROVE ~B!After(k, k)
  BY <1>1 DEF Sorts, B!After
<1>2. ASSUME NEW k \in Sorts, NEW l \in Sorts, k # l
      PROVE  B!After(k, l) \/ B!After(l, k)
  BY <1>2 DEF Sorts, B!After
<1>3. ASSUME NEW k \in Sorts, NEW l \in Sorts, NEW m \in Sorts,
             B!After(k, l), B!After(l, m)
      PROVE  B!After(k, m)
  BY <1>3 DEF Sorts, B!After
<1>. QED BY <1>1, <1>2, <1>3

\* Rows with the types of the model.
RowType == [stored : BOOLEAN, parents : Seq(Folders), name : Names \cup {0},
            since : 0 .. MaxClock]

LEMMA NumbersAreNat ==
  Items \cup {0} \subseteq Nat /\ Names \cup {0} \subseteq Nat
<1>1. Items \subseteq Nat /\ Names \subseteq Nat
  BY BrowserBounds
<1>2. \A X : X \subseteq Nat => X \cup {0} \subseteq Nat
  OBVIOUS
<1>. QED BY <1>1, <1>2, Zenon

LEMMA KeySorts ==
  ASSUME bRow \in [Items -> RowType], NEW i \in Items
  PROVE  /\ B!Key(i) \in Sorts /\ B!Key(i) \in B!Cursor
         /\ B!Key(i).rank < 2 /\ B!Key(i).id = i
         /\ B!After(B!Key(i), B!Start) /\ ~B!After(B!Key(i), B!End)
<1>1. bRow[i] \in RowType
  OBVIOUS
<1>2. bRow[i].name \in Names \cup {0}
  BY <1>1 DEF RowType
<1>3. bRow[i].name \in Nat
  BY <1>2, NumbersAreNat
<1>4. i \in Nat \ {0}
  BY BrowserBounds
<1>. QED BY <1>2, <1>3, <1>4 DEF B!Key, Sorts, B!Cursor, B!After, B!Start, B!End

LEMMA CursorSorts ==
  ASSUME NEW k \in B!Cursor PROVE k \in Sorts
<1>1. k.rank \in 0 .. 2 /\ k.name \in Names \cup {0} /\ k.id \in Items \cup {0}
  BY DEF B!Cursor
<1>2. k.name \in Nat /\ k.id \in Nat
  BY <1>1, NumbersAreNat
<1>3. k = [rank |-> k.rank, name |-> k.name, id |-> k.id]
  BY DEF B!Cursor
<1>. QED BY <1>1, <1>2, <1>3 DEF Sorts

LEMMA BeforeIsOrder ==
  ASSUME bRow \in [Items -> RowType]
  PROVE  /\ \A i \in Items : ~B!Before(i, i)
         /\ \A i, j \in Items :
              i # j => B!Before(i, j) \/ B!Before(j, i)
         /\ \A i, j, k \in Items :
              B!Before(i, j) /\ B!Before(j, k) => B!Before(i, k)
<1>1. \A i \in Items : B!Key(i) \in Sorts /\ B!Key(i).id = i
  BY KeySorts
<1>. QED BY <1>1, AfterIsOrder DEF B!Before

LEMMA SizeIsCardinality == \A X : B!Cardinality(X) = Cardinality(X)
BY DEF B!Cardinality, Cardinality

\* The rows of a query are all items that were found, in the query's order.
LEMMA RowsInOrder ==
  ASSUME bRow \in [Items -> RowType], NEW found \in SUBSET Items
  PROVE  LET rows == B!Ordered(found, B!Before)
         IN /\ B!Cardinality(found) \in Nat
            /\ rows \in [1 .. B!Cardinality(found) -> found]
            /\ \A i \in found : \E n \in 1 .. B!Cardinality(found) : rows[n] = i
            /\ \A m, n \in 1 .. B!Cardinality(found) :
                 m < n => B!Before(rows[m], rows[n])
<1> DEFINE order == {p \in found \X found : B!Before(p[1], p[2])}
           Sorted(s) ==
             /\ \A i \in found : \E n \in 1 .. B!Cardinality(found) : s[n] = i
             /\ \A m, n \in 1 .. B!Cardinality(found) :
                  m < n => B!Before(s[m], s[n])
           rows == CHOOSE s \in [1 .. B!Cardinality(found) -> found] : Sorted(s)
<1>1. IsFiniteSet(found) /\ B!Cardinality(found) \in Nat
  BY BrowserBounds, FS_Subset, FS_CardinalityType, SizeIsCardinality
<1>2. \A x, y \in found : <<x, y>> \in order <=> B!Before(x, y)
  OBVIOUS
<1>3. /\ order \in SUBSET (found \X found)
      /\ \A x \in found : <<x, x>> \notin order
      /\ \A x, y \in found :
           x # y => <<x, y>> \in order \/ <<y, x>> \in order
      /\ \A x, y, z \in found :
           <<x, y>> \in order /\ <<y, z>> \in order => <<x, z>> \in order
  <2>1. order \in SUBSET (found \X found)
    OBVIOUS
  <2> HIDE DEF order
  <2>. QED BY <1>2, <2>1, BeforeIsOrder
<1> HIDE DEF order
<1>4. \E s \in [1 .. B!Cardinality(found) -> found] :
        /\ \A x \in found : \E n \in 1 .. B!Cardinality(found) : s[n] = x
        /\ \A m, n \in 1 .. B!Cardinality(found) :
             m < n => <<s[m], s[n]>> \in order
  BY <1>1, <1>3, Enumerated, SizeIsCardinality
<1>5. \E s \in [1 .. B!Cardinality(found) -> found] : Sorted(s)
  BY <1>2, <1>4
<1>6. rows \in [1 .. B!Cardinality(found) -> found] /\ Sorted(rows)
  <2> HIDE DEF Sorted
  <2>. QED BY <1>5
<1>7. B!Ordered(found, B!Before) = rows
  BY DEF B!Ordered
<1>. QED BY <1>1, <1>6, <1>7

\* Places of a sequence are listed from the first to the last.
LEMMA PlacesInOrder ==
  ASSUME NEW size \in Nat, NEW places \in SUBSET (1 .. size)
  PROVE  LET list == B!Ordered(places, LAMBDA m, n : m < n)
         IN /\ B!Cardinality(places) \in Nat
            /\ list \in [1 .. B!Cardinality(places) -> places]
            /\ \A p \in places :
                 \E n \in 1 .. B!Cardinality(places) : list[n] = p
            /\ \A m, n \in 1 .. B!Cardinality(places) :
                 m < n => list[m] < list[n]
<1> DEFINE order == {p \in places \X places : p[1] < p[2]}
           Sorted(s) ==
             /\ \A p \in places : \E n \in 1 .. B!Cardinality(places) : s[n] = p
             /\ \A m, n \in 1 .. B!Cardinality(places) : m < n => s[m] < s[n]
           list ==
             CHOOSE s \in [1 .. B!Cardinality(places) -> places] : Sorted(s)
<1>1. IsFiniteSet(places) /\ B!Cardinality(places) \in Nat
  <2>1. IsFiniteSet(1 .. size)
    BY FS_Interval
  <2>. QED BY <2>1, FS_Subset, FS_CardinalityType, SizeIsCardinality
<1>2. \A x, y \in places : <<x, y>> \in order <=> x < y
  OBVIOUS
<1>3. /\ order \in SUBSET (places \X places)
      /\ \A x \in places : <<x, x>> \notin order
      /\ \A x, y \in places :
           x # y => <<x, y>> \in order \/ <<y, x>> \in order
      /\ \A x, y, z \in places :
           <<x, y>> \in order /\ <<y, z>> \in order => <<x, z>> \in order
  <2>1. order \in SUBSET (places \X places)
    OBVIOUS
  <2> HIDE DEF order
  <2>. QED BY <1>2, <2>1
<1> HIDE DEF order
<1>4. \E s \in [1 .. B!Cardinality(places) -> places] :
        /\ \A x \in places : \E n \in 1 .. B!Cardinality(places) : s[n] = x
        /\ \A m, n \in 1 .. B!Cardinality(places) :
             m < n => <<s[m], s[n]>> \in order
  BY <1>1, <1>3, Enumerated, SizeIsCardinality
<1>5. \E s \in [1 .. B!Cardinality(places) -> places] : Sorted(s)
  BY <1>2, <1>4
<1>6. list \in [1 .. B!Cardinality(places) -> places] /\ Sorted(list)
  <2> HIDE DEF Sorted
  <2>. QED BY <1>5
<1>7. B!Ordered(places, LAMBDA m, n : m < n) = list
  BY DEF B!Ordered
<1>. QED BY <1>1, <1>6, <1>7

-----------------------------------------------------------------------------
(***************************************************************************)
(* Rows that were read with the cursor from at the time given: those the   *)
(* worker has not touched since are all that lie in the folder after from  *)
(* and not after the next cursor, in the query's order.                    *)
(***************************************************************************)
Untouched(i, at) == bRow[i].since <= at

Segment(items, from, next, at, coll, parents) ==
  /\ \A m, n \in DOMAIN items : m < n =>
       /\ items[m].id # items[n].id
       /\ Untouched(items[m].id, at) /\ Untouched(items[n].id, at) =>
            B!Before(items[m].id, items[n].id)
  /\ \A i \in Items : Untouched(i, at) =>
       ((\E n \in DOMAIN items : items[n].id = i)
          <=> /\ B!Lies(i, coll, parents)
              /\ B!After(B!Key(i), from) /\ ~B!After(B!Key(i), next))

\* A rule was changed and the page does not know of it.
RuleChanged == \E c \in bCalls : c.kind \in {"exclude", "restore"} /\ c.served

Marked(items) ==
  \A n \in DOMAIN items : items[n].by = B!EffectiveExclusion(items[n].id)

\* Marks read at a time are right until something happens.
MarkedSince(items, at) == at = bClock /\ ~RuleChanged => Marked(items)

(***************************************************************************)
(* A page is asked for from its start or from where the list that is shown *)
(* ends, and never both; what was answered is a segment from there on.     *)
(***************************************************************************)
Asked(c) ==
  /\ c.kind \in {"exclude", "restore"} => c.fresh /\ c.target \in B!Targets
  /\ c.kind = "items" => c.cursor = B!Start
  /\ c.kind = "items" /\ c.fresh => bPage.cursor = B!End
  /\ c.kind = "more" /\ c.fresh =>
       c.cursor = bPage.cursor /\ c.cursor # B!End

\* Only the latest request of a kind is waited for.
OneFresh ==
  \A c, d \in bCalls :
    c.kind \in {"items", "more"} /\ d.kind = c.kind /\ c.fresh /\ d.fresh
      => d = c

Read(c) ==
  c.kind \in {"items", "more"} /\ c.fresh /\ c.served =>
    /\ Segment(c.answer.items, c.cursor, c.answer.cursor, c.answer.at,
               c.coll, c.parents)
    /\ MarkedSince(c.answer.items, c.answer.at)
    /\ c.kind = "more" => bPage.since <= c.answer.at
    /\ c.answer.cursor # B!End => B!After(c.answer.cursor, c.cursor)

PageShows ==
  bPage.items # <<>> \/ bPage.cursor # B!End =>
    Segment(bPage.items, B!Start, bPage.cursor, bPage.since, bPage.coll,
            bPage.parents)

TimesPast ==
  /\ \A i \in Items : bRow[i].since <= bClock
  /\ bPage.since <= bClock
  /\ \A c \in bCalls : c.answer.at <= bClock

BrowserInv ==
  /\ B!TypeOK /\ TimesPast /\ OneFresh
  /\ PageShows /\ MarkedSince(bPage.items, bPage.since)
  /\ \A c \in bCalls : Asked(c) /\ Read(c)

-----------------------------------------------------------------------------
(***************************************************************************)
(* What a query returns.                                                   *)
(***************************************************************************)
LEMMA RowsTyped ==
  ASSUME B!TypeOK
  PROVE  /\ bRow \in [Items -> RowType] /\ bRules \subseteq B!Targets
         /\ bListed \subseteq Shelves /\ bSyncing \in BOOLEAN
         /\ bClock \in 0 .. MaxClock /\ bClock \in Nat
<1>1. bClock \in 0 .. MaxClock /\ MaxClock \in Nat
  BY BrowserBounds DEF B!TypeOK
<1>. QED BY <1>1 DEF B!TypeOK, RowType

LEMMA ExclusionTyped ==
  ASSUME bRules \subseteq B!Targets, NEW i
  PROVE  B!EffectiveExclusion(i) \in B!Targets \cup {B!NoRule}
<1> DEFINE above == bRow[i].parents
           last == B!Last(above)
<1>1. B!EffectiveExclusion(i) =
        IF i \in bRules THEN i
        ELSE IF above # <<>> /\ bRow[last].stored /\ last \in bRules THEN last
        ELSE IF Whole \in bRules THEN Whole ELSE B!NoRule
  BY DEF B!EffectiveExclusion
<1> HIDE DEF above, last
<1>. QED BY <1>1

LEMMA RowsRead ==
  ASSUME B!TypeOK, TimesPast, NEW c
  PROVE  LET a == B!ListSourceItems(c)
         IN /\ a \in B!Answer /\ a.at = bClock /\ Marked(a.items)
            /\ Segment(a.items, c.cursor, a.cursor, bClock, c.coll, c.parents)
            /\ a.cursor # B!End => B!After(a.cursor, c.cursor)
<1> DEFINE found == {i \in Items : /\ B!Lies(i, c.coll, c.parents)
                                   /\ B!After(B!Key(i), c.cursor)}
           rows == B!Ordered(found, B!Before)
           all == B!Cardinality(found)
           more == all > Limit
           size == IF more THEN Limit ELSE all
           items == [n \in 1 .. size |->
                       [id |-> rows[n], by |-> B!EffectiveExclusion(rows[n])]]
           next == IF more THEN B!Key(rows[Limit]) ELSE B!End
           a == B!ListSourceItems(c)
<1>1. a = [items |-> items, cursor |-> next, at |-> bClock, listed |-> {},
           syncing |-> FALSE]
  <2>1. a = [B!Nothing EXCEPT !.items = items, !.cursor = next, !.at = bClock]
    BY DEF B!ListSourceItems
  <2> HIDE DEF a, items, next
  <2>. QED BY <2>1 DEF B!Nothing
<1>2. /\ bRow \in [Items -> RowType] /\ bRules \subseteq B!Targets
      /\ bClock \in 0 .. MaxClock
  BY RowsTyped
<1>3. found \in SUBSET Items
  OBVIOUS
<1> HIDE DEF a
<1>4. \A i \in Items : i \in found <=> /\ B!Lies(i, c.coll, c.parents)
                                       /\ B!After(B!Key(i), c.cursor)
  OBVIOUS
<1> HIDE DEF found
<1>5. /\ all \in Nat /\ rows \in [1 .. all -> found]
      /\ \A i \in found : \E n \in 1 .. all : rows[n] = i
      /\ \A m, n \in 1 .. all : m < n => B!Before(rows[m], rows[n])
  BY <1>2, <1>3, RowsInOrder
<1> HIDE DEF rows, all
<1>6. /\ size \in Nat /\ size <= all /\ Limit \in Nat \ {0}
      /\ more => size = Limit /\ Limit \in 1 .. all
      /\ ~more => size = all
  BY <1>5, BrowserBounds
<1> HIDE DEF more, size
<1>7. \A n \in 1 .. size : n \in 1 .. all /\ rows[n] \in found
                           /\ rows[n] \in Items
  BY <1>3, <1>5, <1>6
<1>8. /\ DOMAIN items = 1 .. size
      /\ \A n \in 1 .. size :
           /\ items[n].id = rows[n]
           /\ items[n].by = B!EffectiveExclusion(rows[n])
  OBVIOUS
<1>9. items \in Seq(B!Shown)
  <2>1. \A n \in 1 .. size :
          [id |-> rows[n], by |-> B!EffectiveExclusion(rows[n])] \in B!Shown
    BY <1>2, <1>7, ExclusionTyped DEF B!Shown
  <2>. QED BY <1>6, <2>1
<1> HIDE DEF items
<1>10. Marked(items)
  BY <1>8 DEF Marked
<1>11. next \in B!Cursor
  <2>1. CASE more
    BY <1>2, <1>6, <1>7, <2>1, KeySorts DEF next
  <2>2. CASE ~more
    BY <2>2 DEF next, B!End, B!Cursor
  <2>. QED BY <2>1, <2>2
<1>12. next # B!End => B!After(next, c.cursor)
  <2>1. CASE more
    BY <1>3, <1>4, <1>6, <1>7, <2>1 DEF next
  <2>. QED BY <2>1 DEF next
<1>13. ASSUME NEW m \in 1 .. size, NEW n \in 1 .. size, m < n
       PROVE  items[m].id # items[n].id /\ B!Before(items[m].id, items[n].id)
  BY <1>2, <1>5, <1>7, <1>8, <1>13, BeforeIsOrder
<1>14. ASSUME NEW i \in Items
       PROVE  (\E n \in 1 .. size : rows[n] = i)
                <=> i \in found /\ ~B!After(B!Key(i), next)
  <2>1. CASE ~more
    <3>1. ~B!After(B!Key(i), next)
      BY <1>2, <2>1, KeySorts DEF next
    <3>. QED BY <1>5, <1>6, <1>7, <2>1, <3>1
  <2>2. CASE more
    <3>1. next = B!Key(rows[Limit]) /\ size = Limit /\ rows[Limit] \in Items
          /\ Limit \in 1 .. all
      BY <1>6, <1>7, <2>2 DEF next
    <3>2. B!After(B!Key(i), next) <=> B!Before(rows[Limit], i)
      BY <3>1 DEF B!Before
    <3>3. ASSUME NEW n \in 1 .. size, rows[n] = i
          PROVE  i \in found /\ ~B!Before(rows[Limit], i)
      <4>1. n = Limit \/ B!Before(i, rows[Limit])
        BY <1>5, <1>6, <1>7, <3>1, <3>3
      <4>. QED BY <1>2, <1>7, <3>1, <3>3, <4>1, BeforeIsOrder
    <3>4. ASSUME i \in found, ~B!Before(rows[Limit], i)
          PROVE  \E n \in 1 .. size : rows[n] = i
      <4>1. PICK n \in 1 .. all : rows[n] = i
        BY <1>5, <3>4
      <4>2. ~(Limit < n)
        BY <1>5, <3>1, <3>4, <4>1
      <4>. QED BY <1>5, <1>6, <3>1, <4>1, <4>2
    <3>. QED BY <3>2, <3>3, <3>4
  <2>. QED BY <2>1, <2>2
<1>15. Segment(items, c.cursor, next, bClock, c.coll, c.parents)
  BY <1>4, <1>8, <1>13, <1>14 DEF Segment
<1>16. a \in B!Answer
  BY <1>1, <1>2, <1>9, <1>11 DEF B!Answer
<1> HIDE DEF next
<1>17. a.items = items /\ a.cursor = next /\ a.at = bClock
  BY <1>1
<1>. QED BY <1>10, <1>12, <1>15, <1>16, <1>17 DEF a

-----------------------------------------------------------------------------
(***************************************************************************)
(* What stays.                                                             *)
(***************************************************************************)
PageType == [coll : Shelves \cup {NoShelf}, listed : SUBSET Shelves,
             parents : Seq(Folders), items : Seq(B!Shown),
             cursor : B!Cursor, loadingMore : BOOLEAN, active : BOOLEAN,
             since : 0 .. MaxClock]

LEMMA PageTyped ==
  ASSUME B!TypeOK
  PROVE  bPage \in PageType /\ \A c \in bCalls : c \in B!Call
BY DEF B!TypeOK, PageType

LEMMA StoreKept ==
  ASSUME B!TypeOK, UNCHANGED B!store, bPage' \in PageType,
         \A c \in bCalls' : c \in B!Call
  PROVE  B!TypeOK'
BY DEF B!TypeOK, B!store, PageType

\* Rows that are written later are no longer untouched.
LEMMA SegmentKept ==
  ASSUME NEW items, NEW from, NEW next, NEW at, NEW coll, NEW parents,
         Segment(items, from, next, at, coll, parents),
         items \in Seq(B!Shown),
         \A i \in Items : bRow'[i] = bRow[i] \/ ~(bRow'[i].since <= at)
  PROVE  Segment(items, from, next, at, coll, parents)'
<1>1. \A i \in Items : Untouched(i, at)' => Untouched(i, at)
                                            /\ bRow'[i] = bRow[i]
  BY DEF Untouched
<1>2. \A i \in Items : bRow'[i] = bRow[i] =>
        /\ B!Key(i)' = B!Key(i)
        /\ B!Lies(i, coll, parents)' = B!Lies(i, coll, parents)
  BY DEF B!Key, B!Lies
<1>3. \A k, l : B!After(k, l)' = B!After(k, l)
  BY DEF B!After
<1>4. \A i, j \in Items : bRow'[i] = bRow[i] /\ bRow'[j] = bRow[j] =>
        B!Before(i, j)' = B!Before(i, j)
  BY <1>2, <1>3 DEF B!Before, B!Key, B!After
<1>5. \A n \in DOMAIN items : items[n].id \in Items
  <2>1. \A n \in DOMAIN items : items[n] \in B!Shown
    OBVIOUS
  <2>. QED BY <2>1 DEF B!Shown
<1>6. ASSUME NEW m \in DOMAIN items, NEW n \in DOMAIN items, m < n
      PROVE  /\ items[m].id # items[n].id
             /\ Untouched(items[m].id, at)' /\ Untouched(items[n].id, at)' =>
                  B!Before(items[m].id, items[n].id)'
  BY <1>1, <1>4, <1>5, <1>6 DEF Segment
<1>7. ASSUME NEW i \in Items, Untouched(i, at)'
      PROVE  (\E n \in DOMAIN items : items[n].id = i)
               <=> /\ B!Lies(i, coll, parents)'
                   /\ B!After(B!Key(i), from)' /\ ~B!After(B!Key(i), next)'
  <2>1. Untouched(i, at) /\ bRow'[i] = bRow[i]
    BY <1>1, <1>7
  <2>2. /\ B!Lies(i, coll, parents)' = B!Lies(i, coll, parents)
        /\ B!After(B!Key(i), from)' = B!After(B!Key(i), from)
        /\ B!After(B!Key(i), next)' = B!After(B!Key(i), next)
    BY <2>1 DEF B!Key, B!Lies, B!After
  <2>. QED BY <2>1, <2>2 DEF Segment
<1>. QED BY <1>6, <1>7 DEF Segment

LEMMA MarksKept ==
  ASSUME UNCHANGED <<bRow, bRules>>, NEW items, Marked(items)
  PROVE  Marked(items)'
<1>1. ASSUME NEW i
      PROVE  B!EffectiveExclusion(i)' = B!EffectiveExclusion(i)
  BY DEF B!EffectiveExclusion
<1>. QED BY <1>1 DEF Marked

\* How what happens elsewhere bears on marks that were read.
Elsewhere ==
  \/ UNCHANGED <<bRow, bRules, bClock>> /\ (RuleChanged => RuleChanged')
  \/ bClock' = bClock + 1
  \/ bClock' = bClock /\ RuleChanged'

LEMMA MarkedSinceKept ==
  ASSUME Elsewhere, bClock \in Nat, NEW items, NEW at, at <= bClock, at \in Nat,
         MarkedSince(items, at)
  PROVE  MarkedSince(items, at)'
<1>1. CASE UNCHANGED <<bRow, bRules, bClock>> /\ (RuleChanged => RuleChanged')
  BY <1>1, MarksKept DEF MarkedSince
<1>2. CASE bClock' = bClock + 1
  <2>1. at # bClock'
    BY <1>2
  <2>. QED BY <2>1 DEF MarkedSince
<1>3. CASE bClock' = bClock /\ RuleChanged'
  BY <1>3 DEF MarkedSince
<1>. QED BY <1>1, <1>2, <1>3 DEF Elsewhere

(***************************************************************************)
(* The page shows what it showed, and what is under way was under way      *)
(* before or holds as it is.                                               *)
(***************************************************************************)
LEMMA BrowserFrame ==
  ASSUME BrowserInv, B!TypeOK', OneFresh', Elsewhere,
         \A i \in Items : /\ bRow'[i] = bRow[i] \/ bRow'[i].since > bClock
                          /\ bRow'[i].since <= bClock',
         /\ bPage'.items = bPage.items /\ bPage'.cursor = bPage.cursor
         /\ bPage'.since = bPage.since /\ bPage'.coll = bPage.coll
         /\ bPage'.parents = bPage.parents,
         \A c \in bCalls' :
           \/ c \in bCalls
           \/ Asked(c)' /\ Read(c)' /\ c.answer.at <= bClock'
  PROVE  BrowserInv'
<1>1. bClock \in Nat /\ bClock' \in Nat /\ bClock <= bClock'
  <2>1. bClock \in Nat /\ (B!TypeOK => bClock \in 0 .. MaxClock)
    BY RowsTyped DEF BrowserInv
  <2>. QED BY <2>1 DEF Elsewhere
<1>2. bPage \in PageType /\ \A c \in bCalls : c \in B!Call
  BY PageTyped DEF BrowserInv
<1>3. /\ bPage.since \in Nat /\ bPage.since <= bClock
      /\ bPage.items \in Seq(B!Shown)
  BY <1>2 DEF PageType, BrowserInv, TimesPast
<1>4. ASSUME NEW c \in bCalls
      PROVE  /\ c.answer.at \in Nat /\ c.answer.at <= bClock
             /\ c.answer.items \in Seq(B!Shown)
  BY <1>2 DEF B!Call, B!Answer, BrowserInv, TimesPast
<1>5. \A at \in Nat : at <= bClock =>
        \A i \in Items : bRow'[i] = bRow[i] \/ ~(bRow'[i].since <= at)
  <2>1. ASSUME NEW i \in Items PROVE bRow'[i].since \in Nat
    <3>1. bRow' \in [Items -> RowType]
      BY DEF B!TypeOK, RowType
    <3>. QED BY <3>1, BrowserBounds DEF RowType
  <2>. QED BY <1>1, <2>1
<1>6. TimesPast'
  <2>1. ASSUME NEW c \in bCalls' PROVE c.answer.at <= bClock'
    BY <1>1, <1>4
  <2>2. bPage'.since <= bClock'
    BY <1>1, <1>3
  <2>. QED BY <2>1, <2>2 DEF TimesPast
<1>7. \A items, from, next, at, coll, parents :
        /\ Segment(items, from, next, at, coll, parents)
        /\ items \in Seq(B!Shown) /\ at \in Nat /\ at <= bClock
        => Segment(items, from, next, at, coll, parents)'
  BY <1>5, SegmentKept
<1>8. \A items, at : at \in Nat /\ at <= bClock /\ MarkedSince(items, at)
                      => MarkedSince(items, at)'
  BY <1>1, MarkedSinceKept
<1>9. PageShows'
  BY <1>3, <1>7 DEF BrowserInv, PageShows, B!End, B!Start
<1>10. MarkedSince(bPage.items, bPage.since)'
  BY <1>3, <1>8 DEF BrowserInv
<1>11. ASSUME NEW c \in bCalls PROVE Asked(c)'
  BY <1>11 DEF Asked, BrowserInv, B!End, B!Start
<1>12. ASSUME NEW c \in bCalls PROVE Read(c)'
  <2>1. Read(c)
    BY <1>12 DEF BrowserInv
  <2>. QED BY <1>4, <1>7, <1>8, <2>1 DEF Read, B!After, B!End
<1>. QED BY <1>6, <1>9, <1>10, <1>11, <1>12 DEF BrowserInv

-----------------------------------------------------------------------------
(***************************************************************************)
(* A new collection, folder or revision: the list is emptied, what was     *)
(* asked of it is outdated and it is asked for from its start.             *)
(***************************************************************************)
LEMMA CursorsTyped ==
  /\ B!Start \in B!Cursor /\ B!End \in B!Cursor /\ B!Start # B!End
  /\ B!Nothing \in B!Answer /\ B!Nothing.at = 0
<1>1. 0 \in 0 .. MaxClock
  BY BrowserBounds
<1>2. <<>> \in Seq(B!Shown)
  OBVIOUS
<1>3. B!Start \in B!Cursor /\ B!End \in B!Cursor /\ B!Start # B!End
  BY DEF B!Start, B!End, B!Cursor
<1>. QED BY <1>1, <1>2, <1>3 DEF B!Nothing, B!Answer

LEMMA CallTyped ==
  ASSUME NEW kind \in {"status", "items", "more", "exclude", "restore"},
         NEW p, p.coll \in Shelves \cup {NoShelf}, p.parents \in Seq(Folders),
         NEW cursor \in B!Cursor, NEW target \in B!Targets \cup {B!NoRule}
  PROVE  LET c == B!NewCall(kind, p, cursor, target)
         IN /\ c \in B!Call /\ c.kind = kind /\ c.cursor = cursor
            /\ c.target = target /\ c.fresh /\ ~c.served /\ c.answer.at = 0
BY CursorsTyped DEF B!NewCall, B!Call

LEMMA StatusCallTyped ==
  /\ B!StatusCall \in B!Call /\ B!StatusCall.kind = "status"
  /\ B!StatusCall.answer.at = 0
<1>1. /\ B!EmptyPage.coll \in Shelves \cup {NoShelf}
      /\ B!EmptyPage.parents \in Seq(Folders)
  BY DEF B!EmptyPage
<1>2. B!NoRule \in B!Targets \cup {B!NoRule}
  OBVIOUS
<1>. QED BY <1>1, <1>2, CallTyped, CursorsTyped DEF B!StatusCall

\* A call of C is one of those under way, perhaps outdated, or the request
\* for the status.
FromCalls(C) ==
  \A c \in C :
    \/ c \in bCalls
    \/ c.kind = "status" /\ c \in B!Call /\ c.answer.at <= bClock

LEMMA SupersededCalls ==
  ASSUME NEW C, \A c \in C : c \in B!Call, NEW kinds,
         NEW c \in B!Superseded(C, kinds)
  PROVE  \E d \in C :
           /\ c \in B!Call /\ c.kind = d.kind /\ c.answer = d.answer
           /\ c.cursor = d.cursor /\ c.served = d.served
           /\ d.kind \notin kinds => c = d
           /\ d.kind \in kinds => ~c.fresh
<1>1. PICK d \in C :
        c = IF d.kind \in kinds THEN [d EXCEPT !.fresh = FALSE] ELSE d
  BY DEF B!Superseded
<1>2. d \in B!Call
  OBVIOUS
<1>3. CASE d.kind \in kinds
  <2>1. c = [d EXCEPT !.fresh = FALSE]
    BY <1>1, <1>3
  <2>. QED BY <1>2, <1>3, <2>1 DEF B!Call
<1>. QED BY <1>1, <1>2, <1>3

LEMMA LoadStep ==
  ASSUME BrowserInv, UNCHANGED B!store, NEW p \in PageType,
         NEW C, FromCalls(C), B!LoadItems(p, C)
  PROVE  BrowserInv'
<1>1. /\ bPage' \in PageType /\ bPage'.items = <<>>
      /\ bPage'.cursor = B!End /\ bPage'.since = 0
  <2>1. bPage' = [p EXCEPT !.items = <<>>, !.cursor = B!End,
                           !.loadingMore = FALSE, !.since = 0]
    BY DEF B!LoadItems
  <2>2. 0 \in 0 .. MaxClock /\ <<>> \in Seq(B!Shown)
    BY BrowserBounds
  <2>. QED BY <2>1, <2>2, CursorsTyped DEF PageType
<1>2. \A c \in bCalls : c \in B!Call
  BY PageTyped DEF BrowserInv
<1>3. \A c \in C : c \in B!Call
  BY <1>2 DEF FromCalls
<1>4. bClock' = bClock /\ bClock \in Nat /\ bRow' = bRow
  BY RowsTyped DEF BrowserInv, B!store
<1>5. ASSUME NEW c \in bCalls'
      PROVE  c \in B!Call /\ Asked(c)' /\ Read(c)' /\ c.answer.at <= bClock
  <2>1. CASE c \in B!Superseded(C, {"items", "more"})
    <3>1. PICK d \in C :
           /\ c \in B!Call /\ c.kind = d.kind /\ c.answer = d.answer
           /\ c.cursor = d.cursor /\ c.served = d.served
           /\ d.kind \notin {"items", "more"} => c = d
           /\ d.kind \in {"items", "more"} => ~c.fresh
      BY <1>3, <2>1, SupersededCalls
    <3>2. CASE d \in bCalls
      <4>1. Asked(d) /\ d.answer.at <= bClock
        BY <3>2 DEF BrowserInv, TimesPast
      <4>. QED BY <3>1, <4>1 DEF Asked, Read, B!Start
    <3>3. CASE d.kind = "status" /\ d.answer.at <= bClock
      BY <3>1, <3>3 DEF Asked, Read
    <3>. QED BY <3>2, <3>3 DEF FromCalls
  <2>2. CASE c = B!NewCall("items", p, B!Start, B!NoRule)
    <3>1. p.coll \in Shelves \cup {NoShelf} /\ p.parents \in Seq(Folders)
      BY DEF PageType
    <3>2. /\ c \in B!Call /\ c.kind = "items" /\ c.cursor = B!Start
          /\ ~c.served /\ c.answer.at = 0
      BY <2>2, <3>1, CallTyped, CursorsTyped
    <3>. QED BY <1>1, <1>4, <3>2 DEF Asked, Read, B!Start, B!End
  <2>. QED BY <2>1, <2>2 DEF B!LoadItems
<1>6. B!TypeOK'
  BY <1>1, <1>5, StoreKept DEF BrowserInv
<1>7. TimesPast'
  BY <1>1, <1>4, <1>5 DEF BrowserInv, TimesPast
<1>9. OneFresh'
  <2>1. ASSUME NEW c \in B!Superseded(C, {"items", "more"}),
               c.kind \in {"items", "more"}
        PROVE  ~c.fresh
    BY <1>3, <2>1, SupersededCalls
  <2>2. \A c \in bCalls' : \/ c \in B!Superseded(C, {"items", "more"})
                            \/ c = B!NewCall("items", p, B!Start, B!NoRule)
    BY DEF B!LoadItems
  <2>. QED BY <2>1, <2>2 DEF OneFresh
<1>8. PageShows' /\ MarkedSince(bPage.items, bPage.since)'
  BY <1>1 DEF PageShows, MarkedSince, Marked, B!End
<1>. QED BY <1>5, <1>6, <1>7, <1>8, <1>9 DEF BrowserInv

LEMMA RefreshStep ==
  ASSUME BrowserInv, UNCHANGED B!store, NEW C \in SUBSET bCalls,
         B!RefreshDetails(C)
  PROVE  BrowserInv'
<1> DEFINE D == B!Superseded(C, {"status"}) \cup {B!StatusCall}
<1>1. \A c \in bCalls : c \in B!Call
  BY PageTyped DEF BrowserInv
<1>2. bClock \in Nat
  BY RowsTyped DEF BrowserInv
<1>3. ASSUME NEW c \in D
      PROVE  \/ c \in bCalls
             \/ c.kind = "status" /\ c \in B!Call /\ c.answer.at <= bClock
  <2>1. CASE c \in B!Superseded(C, {"status"})
    <3>1. PICK d \in C :
           /\ c \in B!Call /\ c.kind = d.kind /\ c.answer = d.answer
           /\ d.kind \notin {"status"} => c = d
      BY <1>1, <2>1, SupersededCalls
    <3>. QED BY <3>1 DEF BrowserInv, TimesPast
  <2>2. CASE c = B!StatusCall
    BY <1>2, <2>2, StatusCallTyped
  <2>. QED BY <2>1, <2>2
<1>4. FromCalls(D)
  BY <1>3 DEF FromCalls
<1>5. B!LoadItems(bPage, D)
  BY DEF B!RefreshDetails
<1> HIDE DEF D
<1>. QED BY <1>4, <1>5, LoadStep, PageTyped DEF BrowserInv

-----------------------------------------------------------------------------
(* The steps of the page *)

LEMMA SelectCollectionStep ==
  ASSUME BrowserInv, NEW coll \in Shelves \cup {NoShelf},
         B!SelectCollection(coll)
  PROVE  BrowserInv'
<1> DEFINE p == [bPage EXCEPT !.coll = coll, !.parents = <<>>]
<1>1. p \in PageType
  <2>1. <<>> \in Seq(Folders)
    OBVIOUS
  <2>. QED BY <2>1, PageTyped DEF BrowserInv, PageType
<1>2. FromCalls(bCalls)
  BY DEF FromCalls
<1>3. B!LoadItems(p, bCalls) /\ UNCHANGED B!store
  BY DEF B!SelectCollection
<1> HIDE DEF p
<1>. QED BY <1>1, <1>2, <1>3, LoadStep

LEMMA OpenFolderStep ==
  ASSUME BrowserInv, NEW n, B!OpenFolder(n)
  PROVE  BrowserInv'
<1> DEFINE f == bPage.items[n].id
           p == [bPage EXCEPT !.parents = Append(@, f)]
<1>1. p \in PageType
  <2>1. f \in Folders
    BY DEF B!OpenFolder
  <2> HIDE DEF f
  <2>2. bPage \in PageType
    BY PageTyped DEF BrowserInv
  <2>3. Append(bPage.parents, f) \in Seq(Folders)
    BY <2>1, <2>2 DEF PageType
  <2>. QED BY <2>2, <2>3 DEF PageType
<1>2. FromCalls(bCalls)
  BY DEF FromCalls
<1>3. B!LoadItems(p, bCalls) /\ UNCHANGED B!store
  BY DEF B!OpenFolder
<1> HIDE DEF p
<1>. QED BY <1>1, <1>2, <1>3, LoadStep

LEMMA BackStep ==
  ASSUME BrowserInv, B!Back
  PROVE  BrowserInv'
<1> DEFINE p == [bPage EXCEPT !.parents = B!Front(@)]
<1>1. p \in PageType
  <2>1. bPage \in PageType
    BY PageTyped DEF BrowserInv
  <2>2. bPage.parents \in Seq(Folders) /\ bPage.parents # <<>>
    BY <2>1 DEF PageType, B!Back
  <2>3. B!Front(bPage.parents) \in Seq(Folders)
    BY <2>2 DEF B!Front
  <2>. QED BY <2>1, <2>3 DEF PageType
<1>2. FromCalls(bCalls)
  BY DEF FromCalls
<1>3. B!LoadItems(p, bCalls) /\ UNCHANGED B!store
  BY DEF B!Back
<1> HIDE DEF p
<1>. QED BY <1>1, <1>2, <1>3, LoadStep

\* A step that leaves the store alone and what the page shows: the calls that
\* were not under way hold as they are, and no answered change is forgotten.
LEMMA PageKept ==
  ASSUME BrowserInv, UNCHANGED B!store, bPage' \in PageType,
         /\ bPage'.items = bPage.items /\ bPage'.cursor = bPage.cursor
         /\ bPage'.since = bPage.since /\ bPage'.coll = bPage.coll
         /\ bPage'.parents = bPage.parents,
         OneFresh', RuleChanged => RuleChanged',
         \A c \in bCalls' :
           \/ c \in bCalls
           \/ c \in B!Call /\ Asked(c)' /\ Read(c)' /\ c.answer.at <= bClock
  PROVE  BrowserInv'
<1>1. UNCHANGED <<bRow, bRules, bListed, bSyncing, bClock>>
  BY DEF B!store
<1>2. \A c \in bCalls : c \in B!Call
  BY PageTyped DEF BrowserInv
<1>3. B!TypeOK'
  BY <1>2, StoreKept DEF BrowserInv
<1>4. Elsewhere
  BY <1>1 DEF Elsewhere
<1>5. \A i \in Items : bRow'[i] = bRow[i] /\ bRow'[i].since <= bClock'
  BY <1>1 DEF BrowserInv, TimesPast
<1>. QED BY <1>1, <1>3, <1>4, <1>5, BrowserFrame

\* Outdated requests for more, and a new one.
LEMMA LoadMoreStep ==
  ASSUME BrowserInv, B!LoadMore
  PROVE  BrowserInv'
<1> DEFINE new == B!NewCall("more", bPage, bPage.cursor, B!NoRule)
<1>1. bPage \in PageType /\ \A c \in bCalls : c \in B!Call
  BY PageTyped DEF BrowserInv
<1>2. /\ bPage' = [bPage EXCEPT !.loadingMore = TRUE]
      /\ bCalls' = B!Superseded(bCalls, {"more"}) \cup {new}
      /\ UNCHANGED B!store /\ bPage.cursor # B!End
  BY DEF B!LoadMore
<1>3. /\ bPage' \in PageType
      /\ bPage'.items = bPage.items /\ bPage'.cursor = bPage.cursor
      /\ bPage'.since = bPage.since /\ bPage'.coll = bPage.coll
      /\ bPage'.parents = bPage.parents
  BY <1>1, <1>2 DEF PageType
<1>4. bClock \in Nat
  BY RowsTyped DEF BrowserInv
<1>5. /\ new \in B!Call /\ new.kind = "more" /\ new.cursor = bPage.cursor
      /\ ~new.served /\ new.answer.at = 0
  <2>1. /\ bPage.coll \in Shelves \cup {NoShelf}
        /\ bPage.parents \in Seq(Folders) /\ bPage.cursor \in B!Cursor
    BY <1>1 DEF PageType
  <2>. QED BY <2>1, CallTyped
<1> HIDE DEF new
<1>6. ASSUME NEW c \in bCalls'
      PROVE  \/ c \in bCalls
             \/ c \in B!Call /\ Asked(c)' /\ Read(c)' /\ c.answer.at <= bClock
  <2>1. CASE c \in B!Superseded(bCalls, {"more"})
    <3>1. PICK d \in bCalls :
           /\ c \in B!Call /\ c.kind = d.kind /\ c.answer = d.answer
           /\ c.cursor = d.cursor /\ c.served = d.served
           /\ d.kind \notin {"more"} => c = d
           /\ d.kind \in {"more"} => ~c.fresh
      BY <1>1, <2>1, SupersededCalls
    <3>. QED BY <3>1 DEF Asked, Read, BrowserInv, TimesPast
  <2>2. CASE c = new
    BY <1>2, <1>3, <1>4, <1>5, <2>2 DEF Asked, Read, B!End
  <2>. QED BY <1>2, <2>1, <2>2
<1>7. RuleChanged => RuleChanged'
  <2>1. ASSUME NEW c \in bCalls, c.kind \in {"exclude", "restore"}, c.served
        PROVE  c \in B!Superseded(bCalls, {"more"})
    BY <2>1 DEF B!Superseded
  <2>. QED BY <1>2, <2>1 DEF RuleChanged
<1>8. OneFresh'
  <2>1. ASSUME NEW c \in B!Superseded(bCalls, {"more"})
        PROVE  IF c.kind = "more" THEN ~c.fresh ELSE c \in bCalls
    BY <1>1, <2>1, SupersededCalls
  <2>. QED BY <1>2, <1>5, <2>1 DEF OneFresh, BrowserInv
<1>. QED BY <1>2, <1>3, <1>6, <1>7, <1>8, PageKept

LEMMA AskStep ==
  ASSUME BrowserInv, NEW kind \in {"exclude", "restore"},
         NEW target \in B!Targets, B!Ask(kind, target)
  PROVE  BrowserInv'
<1> DEFINE new == B!NewCall(kind, B!EmptyPage, B!Start, target)
<1>1. bCalls' = bCalls \cup {new} /\ UNCHANGED <<B!store, bPage>>
  BY DEF B!Ask
<1>2. /\ new \in B!Call /\ new.kind = kind /\ new.target = target
      /\ new.fresh /\ new.answer.at = 0
  <2>1. /\ B!EmptyPage.coll \in Shelves \cup {NoShelf}
        /\ B!EmptyPage.parents \in Seq(Folders)
    BY DEF B!EmptyPage
  <2>. QED BY <2>1, CallTyped, CursorsTyped
<1> HIDE DEF new
<1>3. bClock \in Nat /\ bPage \in PageType
  BY RowsTyped, PageTyped DEF BrowserInv
<1>4. Asked(new)' /\ Read(new)' /\ new.answer.at <= bClock
  BY <1>2, <1>3 DEF Asked, Read
<1>5. RuleChanged => RuleChanged'
  BY <1>1 DEF RuleChanged
<1>6. OneFresh'
  BY <1>1, <1>2 DEF OneFresh, BrowserInv
<1>. QED BY <1>1, <1>2, <1>3, <1>4, <1>5, <1>6, PageKept

LEMMA ItemAsked ==
  ASSUME BrowserInv, NEW n \in DOMAIN bPage.items
  PROVE  bPage.items[n].id \in B!Targets
<1>1. bPage.items \in Seq(B!Shown)
  BY PageTyped DEF BrowserInv, PageType
<1>2. bPage.items[n] \in B!Shown
  BY <1>1
<1>. QED BY <1>2 DEF B!Shown, B!Targets

-----------------------------------------------------------------------------
(* The answers *)

\* A request that is answered is under way with its answer; the others stay.
AnswersWith(c, a) == [c EXCEPT !.served = TRUE, !.answer = a]

LEMMA AnswerTyped ==
  ASSUME NEW c \in B!Call, NEW a \in B!Answer
  PROVE  /\ AnswersWith(c, a) \in B!Call /\ AnswersWith(c, a).served
         /\ AnswersWith(c, a).answer = a
         /\ AnswersWith(c, a).kind = c.kind
         /\ AnswersWith(c, a).fresh = c.fresh
         /\ AnswersWith(c, a).target = c.target
         /\ AnswersWith(c, a).coll = c.coll
         /\ AnswersWith(c, a).parents = c.parents
         /\ AnswersWith(c, a).cursor = c.cursor
BY DEF AnswersWith, B!Call

LEMMA AnswerStep ==
  ASSUME BrowserInv, NEW c \in bCalls, NEW a \in B!Answer,
         ~c.served, c.kind \in B!Reads, B!Answered(c, a),
         UNCHANGED <<B!store, bPage>>, a.at <= bClock,
         c.kind \in {"items", "more"} =>
           /\ a.at = bClock /\ Marked(a.items)
           /\ Segment(a.items, c.cursor, a.cursor, a.at, c.coll, c.parents)
           /\ a.cursor # B!End => B!After(a.cursor, c.cursor)
  PROVE  BrowserInv'
<1> DEFINE new == AnswersWith(c, a)
<1>1. bCalls' = (bCalls \ {c}) \cup {new}
  BY DEF B!Answered, AnswersWith
<1>2. UNCHANGED <<bRow, bRules, bClock, bPage>>
  BY DEF B!store
<1>3. bClock \in Nat /\ bPage \in PageType /\ c \in B!Call
  BY RowsTyped, PageTyped DEF BrowserInv
<1>4. /\ new \in B!Call /\ new.served /\ new.answer = a
      /\ new.kind = c.kind /\ new.fresh = c.fresh /\ new.coll = c.coll
      /\ new.parents = c.parents /\ new.cursor = c.cursor
  BY <1>3, AnswerTyped
<1> HIDE DEF new
<1>5. c.kind \notin {"exclude", "restore"}
  BY DEF B!Reads
<1>6. Asked(c) /\ bPage.since <= bClock
  BY DEF BrowserInv, TimesPast
<1>7. Asked(new)'
  BY <1>2, <1>4, <1>5, <1>6 DEF Asked, B!Start, B!End
<1>8. ASSUME c.kind \in {"items", "more"}
      PROVE  /\ Marked(a.items)'
             /\ Segment(a.items, c.cursor, a.cursor, a.at, c.coll, c.parents)'
             /\ a.cursor # B!End => B!After(a.cursor, c.cursor)
             /\ a.at = bClock
  <2>1. a.items \in Seq(B!Shown)
    BY DEF B!Answer
  <2>2. Marked(a.items)'
    BY <1>2, <1>8, MarksKept
  <2>3. \A i \in Items : bRow'[i] = bRow[i]
    BY <1>2
  <2>4. Segment(a.items, c.cursor, a.cursor, a.at, c.coll, c.parents)'
    BY <1>8, <2>1, <2>3, SegmentKept
  <2>. QED BY <1>8, <2>2, <2>4
<1>9. Read(new)'
  <2>1. CASE new.kind \in {"items", "more"}
    BY <1>2, <1>4, <1>6, <1>8, <2>1 DEF Read, MarkedSince, B!After, B!End
  <2>. QED BY <2>1 DEF Read
<1>10. RuleChanged => RuleChanged'
  BY <1>1, <1>5 DEF RuleChanged
<1>11. \A d \in bCalls' : (d \in bCalls /\ d # c) \/ d = new
  BY <1>1
<1>12. OneFresh'
  BY <1>4, <1>11 DEF OneFresh, BrowserInv
<1>. QED BY <1>2, <1>3, <1>4, <1>7, <1>9, <1>10, <1>11, <1>12, PageKept

LEMMA ServeStatusStep ==
  ASSUME BrowserInv, NEW c \in bCalls, B!ServeStatus(c)
  PROVE  BrowserInv'
<1> DEFINE a == [B!Nothing EXCEPT !.listed = bListed, !.syncing = bSyncing]
<1>1. /\ B!Answered(c, a) /\ UNCHANGED <<B!store, bPage>>
      /\ ~c.served /\ c.kind = "status"
  BY DEF B!ServeStatus
<1>2. a \in B!Answer /\ a.at = 0
  BY CursorsTyped, RowsTyped DEF BrowserInv, B!Nothing, B!Answer
<1>3. bClock \in Nat
  BY RowsTyped DEF BrowserInv
<1> HIDE DEF a
<1>. QED BY <1>1, <1>2, <1>3, AnswerStep DEF B!Reads

LEMMA ServeItemsStep ==
  ASSUME BrowserInv, NEW c \in bCalls, B!ServeItems(c)
  PROVE  BrowserInv'
<1> DEFINE a == B!ListSourceItems(c)
<1>1. /\ B!Answered(c, a) /\ UNCHANGED <<B!store, bPage>>
      /\ ~c.served /\ c.kind \in {"items", "more"}
  BY DEF B!ServeItems
<1>2. /\ a \in B!Answer /\ a.at = bClock /\ Marked(a.items)
      /\ Segment(a.items, c.cursor, a.cursor, bClock, c.coll, c.parents)
      /\ a.cursor # B!End => B!After(a.cursor, c.cursor)
  BY RowsRead DEF BrowserInv
<1>3. bClock \in Nat
  BY RowsTyped DEF BrowserInv
<1> HIDE DEF a
<1>. QED BY <1>1, <1>2, <1>3, AnswerStep DEF B!Reads

\* A rule is changed: what is shown may be wrong until the page knows.
LEMMA ChangeStep ==
  ASSUME BrowserInv, NEW c \in bCalls, NEW rules, ~c.served,
         c.kind \in {"exclude", "restore"}, rules \subseteq B!Targets,
         bRules' = rules, B!Answered(c, B!Nothing),
         UNCHANGED <<bRow, bListed, bSyncing, bClock, bPage>>
  PROVE  BrowserInv'
<1> DEFINE new == AnswersWith(c, B!Nothing)
<1>1. bCalls' = (bCalls \ {c}) \cup {new}
  BY DEF B!Answered, AnswersWith
<1>2. /\ bClock \in Nat /\ bPage \in PageType
      /\ \A d \in bCalls : d \in B!Call
  BY RowsTyped, PageTyped DEF BrowserInv
<1>3. /\ new \in B!Call /\ new.served /\ new.answer.at = 0
      /\ new.kind = c.kind /\ new.fresh = c.fresh
      /\ new.target = c.target
  BY <1>2, AnswerTyped, CursorsTyped
<1> HIDE DEF new
<1>4. Asked(c)
  BY DEF BrowserInv
<1>5. Asked(new)' /\ Read(new)' /\ new.answer.at <= bClock'
  BY <1>2, <1>3, <1>4 DEF Asked, Read
<1>6. Elsewhere
  BY <1>1, <1>3 DEF Elsewhere, RuleChanged
<1>7. B!TypeOK'
  BY <1>1, <1>2, <1>3 DEF BrowserInv, B!TypeOK
<1>8. \A d \in bCalls' : d \in bCalls \/ d = new
  BY <1>1
<1>9. \A i \in Items : bRow'[i] = bRow[i] /\ bRow'[i].since <= bClock'
  BY DEF BrowserInv, TimesPast
<1>10. OneFresh'
  BY <1>3, <1>8 DEF OneFresh, BrowserInv
<1>. QED BY <1>5, <1>6, <1>7, <1>8, <1>9, <1>10, BrowserFrame

LEMMA ServeChangeStep ==
  ASSUME BrowserInv, NEW c \in bCalls, B!ServeExclude(c) \/ B!ServeRestore(c)
  PROVE  BrowserInv'
<1>1. bRules \subseteq B!Targets /\ Asked(c)
  BY RowsTyped DEF BrowserInv
<1>2. CASE B!ServeExclude(c)
  <2>1. bRules \cup {c.target} \subseteq B!Targets
    BY <1>1, <1>2 DEF Asked, B!ServeExclude
  <2>. QED BY <1>2, <2>1, ChangeStep DEF B!ServeExclude
<1>3. CASE B!ServeRestore(c)
  <2>1. bRules \ {c.target} \subseteq B!Targets
    BY <1>1
  <2>. QED BY <1>3, <2>1, ChangeStep DEF B!ServeRestore
<1>. QED BY <1>2, <1>3

LEMMA FailStep ==
  ASSUME BrowserInv, NEW c \in bCalls, B!Fail(c)
  PROVE  BrowserInv'
<1> DEFINE loading == bPage.loadingMore /\ ~(c.kind = "more" /\ B!Current(c))
<1>1. /\ bCalls' = bCalls \ {c}
      /\ bPage' = [bPage EXCEPT !.loadingMore = loading]
      /\ UNCHANGED <<bRow, bRules, bListed, bSyncing>>
      /\ \/ c.served /\ c.kind \notin B!Reads
            /\ bClock < MaxClock /\ bClock' = bClock + 1
         \/ ~(c.served /\ c.kind \notin B!Reads) /\ bClock' = bClock
  BY DEF B!Fail
<1>2. /\ bClock \in 0 .. MaxClock /\ bClock \in Nat /\ bPage \in PageType
      /\ \A d \in bCalls : d \in B!Call
  BY RowsTyped, PageTyped DEF BrowserInv
<1>3. loading \in BOOLEAN
  BY <1>2 DEF PageType
<1> HIDE DEF loading
<1>4. /\ bPage' \in PageType
      /\ bPage'.items = bPage.items /\ bPage'.cursor = bPage.cursor
      /\ bPage'.since = bPage.since /\ bPage'.coll = bPage.coll
      /\ bPage'.parents = bPage.parents
  BY <1>1, <1>2, <1>3 DEF PageType
<1>5. bClock' \in 0 .. MaxClock /\ bClock' >= bClock
  BY <1>1, <1>2, BrowserBounds
<1>6. B!TypeOK'
  BY <1>1, <1>2, <1>4, <1>5 DEF BrowserInv, B!TypeOK, PageType
<1>7. Elsewhere
  BY <1>1 DEF Elsewhere, RuleChanged, B!Reads
<1>8. \A i \in Items : bRow'[i] = bRow[i] /\ bRow'[i].since <= bClock'
  <2>1. \A i \in Items : bRow'[i] = bRow[i] /\ bRow[i].since <= bClock
    BY <1>1 DEF BrowserInv, TimesPast
  <2>2. \A i \in Items : bRow[i].since \in Int
    BY BrowserBounds DEF BrowserInv, B!TypeOK
  <2>. QED BY <1>2, <1>5, <2>1, <2>2
<1>9. OneFresh'
  BY <1>1 DEF OneFresh, BrowserInv
<1>. QED BY <1>1, <1>4, <1>6, <1>7, <1>8, <1>9, BrowserFrame

\* The latest status tells the collections; an outdated one is dropped.
LEMMA DeliverStatusStep ==
  ASSUME BrowserInv, NEW c \in bCalls, B!DeliverStatus(c)
  PROVE  BrowserInv'
<1> DEFINE p == [bPage EXCEPT !.listed = c.answer.listed,
                              !.active = c.answer.syncing]
<1>1. c \in B!Call /\ bPage \in PageType
  BY PageTyped DEF BrowserInv
<1>2. c.answer.listed \subseteq Shelves /\ c.answer.syncing \in BOOLEAN
  BY <1>1 DEF B!Call, B!Answer
<1>3. /\ p \in PageType /\ p.items = bPage.items /\ p.cursor = bPage.cursor
      /\ p.since = bPage.since /\ p.coll = bPage.coll
      /\ p.parents = bPage.parents
  BY <1>1, <1>2 DEF PageType
<1>4. /\ UNCHANGED B!store /\ c.kind = "status"
      /\ \/ bCalls' = bCalls \ {c} /\ (bPage' = bPage \/ bPage' = p)
         \/ \E first \in Shelves \cup {NoShelf} :
              B!LoadItems([p EXCEPT !.coll = first, !.parents = <<>>],
                          bCalls \ {c})
  BY <1>2 DEF B!DeliverStatus
<1> HIDE DEF p
<1>5. CASE bCalls' = bCalls \ {c} /\ (bPage' = bPage \/ bPage' = p)
  <2>1. RuleChanged => RuleChanged'
    BY <1>4, <1>5 DEF RuleChanged
  <2>2. OneFresh'
    BY <1>5 DEF OneFresh, BrowserInv
  <2>. QED BY <1>1, <1>3, <1>4, <1>5, <2>1, <2>2, PageKept
<1>6. ASSUME NEW first \in Shelves \cup {NoShelf},
             B!LoadItems([p EXCEPT !.coll = first, !.parents = <<>>],
                         bCalls \ {c})
      PROVE  BrowserInv'
  <2> DEFINE q == [p EXCEPT !.coll = first, !.parents = <<>>]
  <2>1. q \in PageType
    <3>1. <<>> \in Seq(Folders)
      OBVIOUS
    <3>. QED BY <1>3, <3>1 DEF PageType
  <2>2. FromCalls(bCalls \ {c})
    BY DEF FromCalls
  <2>3. B!LoadItems(q, bCalls \ {c})
    BY <1>6
  <2> HIDE DEF q
  <2>. QED BY <1>4, <2>1, <2>2, <2>3, LoadStep
<1>. QED BY <1>4, <1>5, <1>6

\* What is dropped is neither shown nor marked.
LEMMA Dropped ==
  ASSUME BrowserInv, NEW c \in bCalls, c.kind \in {"items", "more"},
         bCalls' = bCalls \ {c}, bPage' = bPage, UNCHANGED B!store
  PROVE  BrowserInv'
<1>1. RuleChanged => RuleChanged'
  BY DEF RuleChanged
<1>2. OneFresh'
  BY DEF OneFresh, BrowserInv
<1>. QED BY <1>1, <1>2, PageTyped, PageKept DEF BrowserInv

\* The list is replaced, or goes on: the answer is what was read from the
\* cursor of the call on.
LEMMA DeliveredStep ==
  ASSUME BrowserInv, NEW c \in bCalls, c.kind \in {"items", "more"},
         c.fresh, c.served, bCalls' = bCalls \ {c}, UNCHANGED B!store,
         bPage' \in PageType, bPage'.cursor = c.answer.cursor,
         bPage'.since <= c.answer.at,
         Segment(bPage'.items, B!Start, c.answer.cursor, bPage'.since,
                 bPage'.coll, bPage'.parents),
         MarkedSince(bPage'.items, bPage'.since)
  PROVE  BrowserInv'
<1>1. /\ UNCHANGED <<bRow, bRules, bClock>> /\ bClock \in Nat
      /\ \A d \in bCalls : d \in B!Call
  BY RowsTyped, PageTyped DEF BrowserInv, B!store
<1>2. B!TypeOK'
  BY <1>1, StoreKept DEF BrowserInv
<1>3. RuleChanged => RuleChanged'
  BY DEF RuleChanged
<1>4. bPage'.items \in Seq(B!Shown) /\ bPage'.since \in Nat
  BY DEF PageType
<1>5. c.answer.at <= bClock /\ c.answer.at \in Nat
  BY <1>1 DEF BrowserInv, TimesPast, B!Call, B!Answer
<1>6. bPage'.since <= bClock
  BY <1>1, <1>4, <1>5
<1>7. TimesPast'
  BY <1>1, <1>6 DEF BrowserInv, TimesPast
<1>8. \A items, from, next, at, coll, parents :
        Segment(items, from, next, at, coll, parents)
        /\ items \in Seq(B!Shown)
        => Segment(items, from, next, at, coll, parents)'
  BY <1>1, SegmentKept
<1>9. \A items, at : at \in Nat /\ at <= bClock /\ MarkedSince(items, at)
                      => MarkedSince(items, at)'
  BY <1>1, <1>3, MarkedSinceKept DEF Elsewhere
<1>10. PageShows'
  BY <1>4, <1>8 DEF PageShows, B!Start
<1>11. MarkedSince(bPage.items, bPage.since)'
  BY <1>4, <1>6, <1>9
<1>12. ASSUME NEW d \in bCalls'
       PROVE  /\ d.kind \in {"items", "more"} => ~d.fresh
              /\ d.kind = "items" => d.cursor = B!Start
              /\ d.kind \in {"exclude", "restore"} =>
                   d.fresh /\ d.target \in B!Targets
  <2>1. d \in bCalls /\ d # c /\ Asked(d) /\ Asked(c)
    BY <1>12 DEF BrowserInv
  <2>2. d.kind = c.kind => ~d.fresh
    BY <2>1 DEF OneFresh, BrowserInv
  <2>. QED BY <2>1, <2>2 DEF Asked
<1>13. ASSUME NEW d \in bCalls' PROVE Asked(d)' /\ Read(d)'
  BY <1>12 DEF Asked, Read, B!Start
<1>14. OneFresh'
  BY <1>12 DEF OneFresh
<1>. QED BY <1>2, <1>7, <1>10, <1>11, <1>13, <1>14 DEF BrowserInv

-----------------------------------------------------------------------------
(***************************************************************************)
(* The list goes on.                                                       *)
(***************************************************************************)
ShownIds == {bPage.items[n].id : n \in DOMAIN bPage.items}

\* What is appended: the items that are not shown yet, in their order.
LEMMA UnknownRows ==
  ASSUME NEW items \in Seq(B!Shown)
  PROVE  LET new == B!Unknown(items)
         IN /\ new \in Seq(B!Shown)
            /\ \A n \in DOMAIN new : new[n].id \notin ShownIds
            /\ \A k \in DOMAIN items : items[k].id \notin ShownIds =>
                 \E n \in DOMAIN new : new[n] = items[k]
            /\ \A n \in DOMAIN new : \E k \in DOMAIN items : new[n] = items[k]
            /\ \A m, n \in DOMAIN new : m < n =>
                 \E j, k \in DOMAIN items :
                   j < k /\ new[m] = items[j] /\ new[n] = items[k]
<1> DEFINE places == {n \in DOMAIN items : items[n].id \notin ShownIds}
           list == B!Ordered(places, LAMBDA m, n : m < n)
           size == B!Cardinality(places)
           new == [n \in 1 .. size |-> items[list[n]]]
<1>1. B!Unknown(items) = new
  BY DEF B!Unknown, ShownIds
<1>2. places \in SUBSET (1 .. Len(items)) /\ Len(items) \in Nat
  OBVIOUS
<1>3. \A k : k \in places <=> k \in DOMAIN items /\ items[k].id \notin ShownIds
  OBVIOUS
<1> HIDE DEF places
<1>4. /\ size \in Nat /\ list \in [1 .. size -> places]
      /\ \A p \in places : \E n \in 1 .. size : list[n] = p
      /\ \A m, n \in 1 .. size : m < n => list[m] < list[n]
  BY <1>2, PlacesInOrder
<1> HIDE DEF list, size
<1>5. \A n \in 1 .. size : list[n] \in places /\ list[n] \in DOMAIN items
  BY <1>3, <1>4
<1>6. /\ DOMAIN new = 1 .. size
      /\ \A n \in 1 .. size : new[n] = items[list[n]]
  OBVIOUS
<1>7. new \in Seq(B!Shown)
  <2>1. \A n \in 1 .. size : items[list[n]] \in B!Shown
    BY <1>5
  <2>. QED BY <1>4, <2>1
<1> HIDE DEF new
<1>8. \A n \in DOMAIN new : new[n].id \notin ShownIds
  BY <1>3, <1>5, <1>6
<1>9. \A k \in DOMAIN items : items[k].id \notin ShownIds =>
        \E n \in DOMAIN new : new[n] = items[k]
  BY <1>3, <1>4, <1>6
<1>10. ASSUME NEW m \in DOMAIN new, NEW n \in DOMAIN new, m < n
       PROVE  \E j, k \in DOMAIN items :
                j < k /\ new[m] = items[j] /\ new[n] = items[k]
  BY <1>4, <1>5, <1>6, <1>10
<1>11. \A n \in DOMAIN new : \E k \in DOMAIN items : new[n] = items[k]
  BY <1>5, <1>6
<1>. QED BY <1>1, <1>7, <1>8, <1>9, <1>10, <1>11

LEMMA SegmentsJoin ==
  ASSUME bRow \in [Items -> RowType], NEW s \in Seq(B!Shown),
         ShownIds = {s[n].id : n \in DOMAIN s},
         NEW items \in Seq(B!Shown), NEW cur \in B!Cursor,
         NEW next \in B!Cursor, NEW since \in Nat, NEW at \in Nat,
         NEW coll, NEW parents, since <= at,
         next # B!End => B!After(next, cur),
         Segment(s, B!Start, cur, since, coll, parents),
         Segment(items, cur, next, at, coll, parents)
  PROVE  Segment(s \o B!Unknown(items), B!Start, next, since, coll, parents)
<1> DEFINE new == B!Unknown(items)
           all == s \o new
<1>1. /\ new \in Seq(B!Shown)
      /\ \A n \in DOMAIN new : new[n].id \notin ShownIds
      /\ \A k \in DOMAIN items : items[k].id \notin ShownIds =>
           \E n \in DOMAIN new : new[n] = items[k]
      /\ \A n \in DOMAIN new : \E k \in DOMAIN items : new[n] = items[k]
      /\ \A m, n \in DOMAIN new : m < n =>
           \E j, k \in DOMAIN items :
             j < k /\ new[m] = items[j] /\ new[n] = items[k]
  BY UnknownRows
<1> HIDE DEF new
<1>2. /\ DOMAIN all = 1 .. Len(s) + Len(new)
      /\ \A n \in 1 .. Len(s) : all[n] = s[n]
      /\ \A n \in 1 .. Len(new) : all[Len(s) + n] = new[n]
      /\ Len(s) \in Nat /\ DOMAIN s = 1 .. Len(s)
      /\ Len(new) \in Nat /\ DOMAIN new = 1 .. Len(new)
  BY <1>1
<1>3. ASSUME NEW n \in DOMAIN all
      PROVE  \/ n \in DOMAIN s /\ all[n] = s[n]
             \/ /\ n > Len(s) /\ n - Len(s) \in DOMAIN new
                /\ all[n] = new[n - Len(s)]
  <2>1. CASE n <= Len(s)
    BY <1>2, <2>1
  <2>2. CASE n > Len(s)
    <3>1. n - Len(s) \in 1 .. Len(new) /\ Len(s) + (n - Len(s)) = n
      BY <1>2, <2>2
    <3>. QED BY <1>2, <2>2, <3>1
  <2>. QED BY <1>2, <2>1, <2>2
<1> HIDE DEF all
<1>4. \A n \in DOMAIN s : s[n].id \in Items /\ s[n].id \in ShownIds
  <2>1. \A n \in DOMAIN s : s[n] \in B!Shown
    OBVIOUS
  <2>. QED BY <2>1 DEF B!Shown
<1>5. \A k \in DOMAIN items : items[k].id \in Items
  <2>1. \A n \in DOMAIN items : items[n] \in B!Shown
    OBVIOUS
  <2>. QED BY <2>1 DEF B!Shown
<1>6. \A i \in Items : Untouched(i, since) => Untouched(i, at)
  <2>1. \A i \in Items : bRow[i].since \in Nat
    BY BrowserBounds DEF RowType
  <2>. QED BY <2>1 DEF Untouched
<1>7. \A i \in Items : B!Key(i) \in Sorts /\ B!After(B!Key(i), B!Start)
                       /\ ~B!After(B!Key(i), B!End)
  BY KeySorts
<1>8. cur \in Sorts /\ next \in Sorts
  BY CursorSorts
<1>9. ASSUME NEW i \in Items, NEW j \in Items,
             ~B!After(B!Key(i), cur), B!After(B!Key(j), cur)
      PROVE  B!Before(i, j)
  <2>1. B!Key(i) = cur \/ B!After(cur, B!Key(i))
    BY <1>7, <1>8, <1>9, AfterIsOrder
  <2>. QED BY <1>7, <1>8, <1>9, <2>1, AfterIsOrder DEF B!Before
<1>10. ASSUME NEW i \in Items, ~B!After(B!Key(i), cur)
       PROVE  ~B!After(B!Key(i), next)
  BY <1>7, <1>8, <1>10, AfterIsOrder
<1>11. ASSUME NEW i \in Items, Untouched(i, since)
       PROVE  /\ i \in ShownIds <=> /\ B!Lies(i, coll, parents)
                                 /\ ~B!After(B!Key(i), cur)
              /\ (\E k \in DOMAIN items : items[k].id = i)
                   <=> /\ B!Lies(i, coll, parents)
                       /\ B!After(B!Key(i), cur) /\ ~B!After(B!Key(i), next)
  <2>1. i \in ShownIds <=> \E n \in DOMAIN s : s[n].id = i
    OBVIOUS
  <2>. QED BY <1>6, <1>7, <1>11, <2>1 DEF Segment
<1>12. ASSUME NEW m \in DOMAIN new, NEW n \in DOMAIN new, m < n
       PROVE  /\ new[m].id # new[n].id
              /\ Untouched(new[m].id, since) /\ Untouched(new[n].id, since)
                   => B!Before(new[m].id, new[n].id)
  <2>1. PICK j \in DOMAIN items, k \in DOMAIN items :
          j < k /\ new[m] = items[j] /\ new[n] = items[k]
    BY <1>1, <1>12
  <2>. QED BY <1>5, <1>6, <2>1 DEF Segment
<1>13. ASSUME NEW m \in DOMAIN all, NEW n \in DOMAIN all, m < n
       PROVE  /\ all[m].id # all[n].id
              /\ Untouched(all[m].id, since) /\ Untouched(all[n].id, since)
                   => B!Before(all[m].id, all[n].id)
  <2>1. CASE n \in DOMAIN s /\ all[n] = s[n]
    <3>1. m \in DOMAIN s /\ all[m] = s[m]
      BY <1>2, <1>3, <1>13, <2>1
    <3>. QED BY <1>13, <2>1, <3>1 DEF Segment
  <2>2. CASE n > Len(s) /\ n - Len(s) \in DOMAIN new
             /\ all[n] = new[n - Len(s)]
    <3>1. CASE m \in DOMAIN s /\ all[m] = s[m]
      <4>1. PICK k \in DOMAIN items : new[n - Len(s)] = items[k]
        BY <1>1, <2>2
      <4>2. all[m].id # all[n].id
        BY <1>1, <1>4, <2>2, <3>1
      <4>3. ASSUME Untouched(all[m].id, since), Untouched(all[n].id, since)
            PROVE  B!Before(all[m].id, all[n].id)
        <5>1. all[m].id \in Items /\ all[m].id \in ShownIds
              /\ all[n].id = items[k].id /\ all[n].id \in Items
          BY <1>4, <1>5, <2>2, <3>1, <4>1
        <5>. QED BY <1>9, <1>11, <4>3, <5>1
      <4>. QED BY <4>2, <4>3
    <3>2. CASE m > Len(s) /\ m - Len(s) \in DOMAIN new
               /\ all[m] = new[m - Len(s)]
      <4>1. m - Len(s) < n - Len(s)
        BY <1>2, <1>13
      <4>. QED BY <1>12, <2>2, <3>2, <4>1
    <3>. QED BY <1>3, <3>1, <3>2
  <2>. QED BY <1>3, <2>1, <2>2
<1>14. ASSUME NEW i \in Items, Untouched(i, since)
       PROVE  (\E n \in DOMAIN all : all[n].id = i)
                <=> /\ B!Lies(i, coll, parents)
                    /\ B!After(B!Key(i), B!Start) /\ ~B!After(B!Key(i), next)
  <2>1. ASSUME NEW n \in DOMAIN all, all[n].id = i
        PROVE  B!Lies(i, coll, parents) /\ ~B!After(B!Key(i), next)
    <3>1. CASE n \in DOMAIN s /\ all[n] = s[n]
      BY <1>4, <1>10, <1>11, <1>14, <2>1, <3>1
    <3>2. CASE n - Len(s) \in DOMAIN new /\ all[n] = new[n - Len(s)]
      BY <1>1, <1>11, <1>14, <2>1, <3>2
    <3>. QED BY <1>3, <3>1, <3>2
  <2>2. ASSUME B!Lies(i, coll, parents), ~B!After(B!Key(i), next)
        PROVE  \E n \in DOMAIN all : all[n].id = i
    <3>1. CASE i \in ShownIds
      <4>1. PICK n \in DOMAIN s : s[n].id = i
        BY <3>1
      <4>. QED BY <1>2, <4>1
    <3>2. CASE i \notin ShownIds
      <4>1. PICK k \in DOMAIN items : items[k].id = i
        BY <1>11, <1>14, <2>2, <3>2
      <4>2. PICK n \in DOMAIN new : new[n] = items[k]
        BY <1>1, <3>2, <4>1
      <4>3. Len(s) + n \in DOMAIN all /\ all[Len(s) + n] = new[n]
        BY <1>2, <4>2
      <4>. QED BY <4>1, <4>2, <4>3
    <3>. QED BY <3>1, <3>2
  <2>. QED BY <1>7, <2>1, <2>2
<1>15. Segment(all, B!Start, next, since, coll, parents)
  BY <1>13, <1>14 DEF Segment
<1>. QED BY <1>15 DEF all, new

LEMMA MarksJoin ==
  ASSUME NEW s \in Seq(B!Shown), NEW items \in Seq(B!Shown), Marked(s),
         Marked(items)
  PROVE  Marked(s \o B!Unknown(items))
<1> DEFINE new == B!Unknown(items)
           all == s \o new
<1>1. /\ new \in Seq(B!Shown)
      /\ \A n \in DOMAIN new : \E k \in DOMAIN items : new[n] = items[k]
  BY UnknownRows
<1> HIDE DEF new
<1>2. \A n \in DOMAIN all :
        \/ n \in DOMAIN s /\ all[n] = s[n]
        \/ n - Len(s) \in DOMAIN new /\ all[n] = new[n - Len(s)]
  BY <1>1
<1> HIDE DEF all
<1>3. \A n \in DOMAIN all : all[n].by = B!EffectiveExclusion(all[n].id)
  BY <1>1, <1>2 DEF Marked
<1>4. Marked(all)
  BY <1>3 DEF Marked
<1>. QED BY <1>4 DEF all, new

LEMMA DeliverItemsStep ==
  ASSUME BrowserInv, NEW c \in bCalls, B!DeliverItems(c)
  PROVE  BrowserInv'
<1>1. c \in B!Call /\ bPage \in PageType
  BY PageTyped DEF BrowserInv
<1>2. /\ c.answer.items \in Seq(B!Shown) /\ c.answer.cursor \in B!Cursor
      /\ c.answer.at \in 0 .. MaxClock /\ c.answer.at \in Nat
  BY <1>1, BrowserBounds DEF B!Call, B!Answer
<1>3. /\ c.served /\ c.kind = "items" /\ bCalls' = bCalls \ {c}
      /\ UNCHANGED B!store
  BY DEF B!DeliverItems
<1>4. CASE B!Current(c)
  <2>1. bPage' = [bPage EXCEPT !.items = c.answer.items,
                               !.cursor = c.answer.cursor,
                               !.since = c.answer.at]
    BY <1>4 DEF B!DeliverItems
  <2>2. /\ bPage' \in PageType /\ bPage'.items = c.answer.items
        /\ bPage'.cursor = c.answer.cursor /\ bPage'.since = c.answer.at
        /\ bPage'.coll = bPage.coll /\ bPage'.parents = bPage.parents
    BY <1>1, <1>2, <2>1 DEF PageType
  <2>3. c.fresh /\ c.coll = bPage.coll /\ c.parents = bPage.parents
    BY <1>4 DEF B!Current
  <2>4. /\ Segment(c.answer.items, B!Start, c.answer.cursor, c.answer.at,
                   bPage.coll, bPage.parents)
        /\ MarkedSince(c.answer.items, c.answer.at)
    BY <1>3, <2>3 DEF BrowserInv, Asked, Read
  <2>5. bPage'.since <= c.answer.at
    BY <1>2, <2>2
  <2>. QED BY <1>3, <2>2, <2>3, <2>4, <2>5, DeliveredStep
<1>5. CASE ~B!Current(c)
  <2>1. bPage' = bPage
    BY <1>5 DEF B!DeliverItems
  <2>. QED BY <1>3, <2>1, Dropped
<1>. QED BY <1>4, <1>5

LEMMA DeliverMoreStep ==
  ASSUME BrowserInv, NEW c \in bCalls, B!DeliverMore(c)
  PROVE  BrowserInv'
<1>1. c \in B!Call /\ bPage \in PageType
  BY PageTyped DEF BrowserInv
<1>2. /\ c.answer.items \in Seq(B!Shown) /\ c.answer.cursor \in B!Cursor
      /\ c.answer.at \in Nat
      /\ bPage.items \in Seq(B!Shown) /\ bPage.cursor \in B!Cursor
      /\ bPage.since \in Nat
  BY <1>1, BrowserBounds DEF B!Call, B!Answer, PageType
<1>3. /\ c.served /\ c.kind = "more" /\ bCalls' = bCalls \ {c}
      /\ UNCHANGED B!store
  BY DEF B!DeliverMore
<1>4. CASE B!Current(c)
  <2> DEFINE shown == bPage.items \o B!Unknown(c.answer.items)
  <2>1. bPage' = [bPage EXCEPT !.items = shown,
                               !.cursor = c.answer.cursor,
                               !.loadingMore = FALSE]
    BY <1>4 DEF B!DeliverMore
  <2>2. shown \in Seq(B!Shown)
    <3>1. B!Unknown(c.answer.items) \in Seq(B!Shown)
      BY <1>2, UnknownRows
    <3> DEFINE new == B!Unknown(c.answer.items)
    <3> HIDE DEF new
    <3>2. bPage.items \o new \in Seq(B!Shown)
      BY <1>2, <3>1 DEF new
    <3>. QED BY <3>2 DEF new
  <2>3. c.fresh /\ c.coll = bPage.coll /\ c.parents = bPage.parents
    BY <1>4 DEF B!Current
  <2>4. /\ c.cursor = bPage.cursor /\ bPage.cursor # B!End
        /\ Segment(c.answer.items, bPage.cursor, c.answer.cursor,
                   c.answer.at, bPage.coll, bPage.parents)
        /\ MarkedSince(c.answer.items, c.answer.at)
        /\ bPage.since <= c.answer.at
        /\ c.answer.cursor # B!End => B!After(c.answer.cursor, bPage.cursor)
    BY <1>3, <2>3 DEF BrowserInv, Asked, Read
  <2>5. Segment(bPage.items, B!Start, bPage.cursor, bPage.since, bPage.coll,
                bPage.parents)
    BY <2>4 DEF BrowserInv, PageShows
  <2>6. Segment(shown, B!Start, c.answer.cursor, bPage.since, bPage.coll,
                bPage.parents)
    <3>1. bRow \in [Items -> RowType]
      BY RowsTyped DEF BrowserInv
    <3>2. ShownIds = {bPage.items[n].id : n \in DOMAIN bPage.items}
      BY DEF ShownIds
    <3>. QED BY <1>2, <2>4, <2>5, <3>1, <3>2, SegmentsJoin
  <2>7. MarkedSince(shown, bPage.since)
    <3>1. ASSUME bPage.since = bClock, ~RuleChanged PROVE Marked(shown)
      <4>1. c.answer.at = bClock
        BY <1>2, <2>4, <3>1 DEF BrowserInv, TimesPast
      <4>2. Marked(bPage.items) /\ Marked(c.answer.items)
        BY <2>4, <3>1, <4>1 DEF BrowserInv, MarkedSince
      <4>. QED BY <1>2, <4>2, MarksJoin
    <3>. QED BY <3>1 DEF MarkedSince
  <2> HIDE DEF shown
  <2>8. /\ bPage' \in PageType /\ bPage'.items = shown
        /\ bPage'.cursor = c.answer.cursor /\ bPage'.since = bPage.since
        /\ bPage'.coll = bPage.coll /\ bPage'.parents = bPage.parents
    BY <1>1, <1>2, <2>1, <2>2 DEF PageType
  <2>. QED BY <1>3, <2>3, <2>4, <2>6, <2>7, <2>8, DeliveredStep
<1>5. CASE ~B!Current(c)
  <2>1. bPage' = bPage
    BY <1>5 DEF B!DeliverMore
  <2>. QED BY <1>3, <2>1, Dropped
<1>. QED BY <1>4, <1>5

-----------------------------------------------------------------------------
(* What happens without the page *)

LEMMA StoredTyped ==
  ASSUME NEW i, NEW at \in 0 .. MaxClock, NEW r \in B!Stored(i, at)
  PROVE  r \in RowType /\ r.since = at
<1>1. PICK above \in (IF i \in Folders THEN {<<>>}
                      ELSE {<<>>} \cup {<<f>> : f \in Folders}), n \in Names :
        r = [stored |-> TRUE, parents |-> above, name |-> n, since |-> at]
  BY DEF B!Stored
<1>2. above \in Seq(Folders)
  <2>1. above = <<>> \/ \E f \in Folders : above = <<f>>
    BY <1>1
  <2>2. <<>> \in Seq(Folders)
    OBVIOUS
  <2>3. \A f \in Folders : <<f>> \in Seq(Folders)
    OBVIOUS
  <2>. QED BY <2>1, <2>2, <2>3
<1>3. n \in Names \cup {0}
  OBVIOUS
<1> HIDE DEF RowType
<1>4. [stored |-> TRUE, parents |-> above, name |-> n, since |-> at] \in RowType
  BY <1>2, <1>3 DEF RowType
<1>. QED BY <1>1, <1>4

LEMMA ReconcileStep ==
  ASSUME BrowserInv, NEW i \in Items, B!Reconcile(i)
  PROVE  BrowserInv'
<1>1. /\ bRow \in [Items -> RowType] /\ bClock \in 0 .. MaxClock
      /\ bClock \in Nat /\ MaxClock \in Nat
  BY RowsTyped, BrowserBounds DEF BrowserInv
<1>2. /\ bClock < MaxClock /\ bClock' = bClock + 1
      /\ UNCHANGED <<bRules, bListed, bSyncing, bPage, bCalls>>
  BY DEF B!Reconcile
<1>3. bClock' \in 0 .. MaxClock
  BY <1>1, <1>2
<1>4. PICK r \in B!Stored(i, bClock') : bRow' = [bRow EXCEPT ![i] = r]
  BY DEF B!Reconcile
<1>5. r \in RowType /\ r.since = bClock'
  BY <1>3, StoredTyped
<1>6. B!TypeOK'
  <2>1. bRow' \in [Items -> RowType]
    BY <1>1, <1>4, <1>5
  <2>. QED BY <1>2, <1>3, <2>1 DEF BrowserInv, B!TypeOK, RowType
<1>7. ASSUME NEW j \in Items
      PROVE  /\ bRow'[j] = bRow[j] \/ bRow'[j].since > bClock
             /\ bRow'[j].since <= bClock'
  <2>1. CASE j = i
    <3>1. bRow'[j].since = bClock + 1
      BY <1>1, <1>2, <1>4, <1>5, <2>1
    <3>. QED BY <1>1, <1>2, <3>1
  <2>2. CASE j # i
    <3>1. bRow'[j] = bRow[j]
      BY <1>1, <1>4, <2>2
    <3>2. bRow[j].since <= bClock
      BY DEF BrowserInv, TimesPast
    <3>3. bRow[j].since \in Nat
      BY <1>1 DEF RowType
    <3>. QED BY <1>1, <1>2, <3>1, <3>2, <3>3
  <2>. QED BY <2>1, <2>2
<1>8. Elsewhere
  BY <1>2 DEF Elsewhere
<1>9. OneFresh'
  BY <1>2 DEF OneFresh, BrowserInv
<1>. QED BY <1>2, <1>6, <1>7, <1>8, <1>9, BrowserFrame

\* The synchronization ends, or a collection is deregistered.
LEMMA UnaskedStep ==
  ASSUME BrowserInv,
         B!SyncEnds \/ \E coll \in Shelves : B!Deregister(coll)
  PROVE  BrowserInv'
<1>1. bClock \in 0 .. MaxClock /\ bClock \in Nat /\ MaxClock \in Nat
  BY RowsTyped, BrowserBounds DEF BrowserInv
<1>2. /\ UNCHANGED <<bRow, bRules, bPage, bCalls>>
      /\ \/ bClock' = bClock
         \/ bClock < MaxClock /\ bClock' = bClock + 1
      /\ bListed' \subseteq bListed /\ bSyncing' \in {bSyncing, FALSE}
  BY DEF B!SyncEnds, B!Deregister
<1>3. bClock' \in 0 .. MaxClock /\ bClock' >= bClock
  BY <1>1, <1>2
<1>4. B!TypeOK'
  BY <1>2, <1>3 DEF BrowserInv, B!TypeOK
<1>5. Elsewhere
  BY <1>2 DEF Elsewhere, RuleChanged
<1>6. OneFresh'
  BY <1>2 DEF OneFresh, BrowserInv
<1>7. \A i \in Items : bRow'[i] = bRow[i] /\ bRow'[i].since <= bClock'
  <2>1. \A i \in Items : bRow[i].since <= bClock /\ bRow[i].since \in Int
    BY <1>1 DEF BrowserInv, TimesPast, B!TypeOK
  <2>. QED BY <1>1, <1>2, <1>3, <2>1
<1>. QED BY <1>2, <1>4, <1>5, <1>6, <1>7, BrowserFrame

-----------------------------------------------------------------------------
LEMMA BrowserStarts ==
  ASSUME B!Init
  PROVE  BrowserInv
<1>1. 0 \in 0 .. MaxClock /\ MaxClock \in Nat
  BY BrowserBounds
<1>2. ASSUME NEW i \in Items PROVE bRow[i] \in RowType /\ bRow[i].since = 0
  <2>1. CASE bRow[i] = B!NotStored
    BY <1>1, <2>1 DEF B!NotStored, RowType
  <2>2. CASE bRow[i] \in B!Stored(i, 0)
    BY <1>1, <2>2, StoredTyped
  <2>. QED BY <2>1, <2>2 DEF B!Init
<1>3. bRow \in [Items -> RowType]
  BY <1>2 DEF B!Init
<1>4. bPage \in PageType /\ bPage.items = <<>> /\ bPage.cursor = B!End
      /\ bPage.since = 0
  <2>1. bPage = B!EmptyPage /\ <<>> \in Seq(B!Shown) /\ <<>> \in Seq(Folders)
    BY DEF B!Init
  <2>. QED BY <1>1, <2>1, CursorsTyped DEF B!EmptyPage, PageType
<1>5. bCalls = {B!StatusCall} /\ bClock = 0
  BY DEF B!Init
<1>6. bRules \subseteq B!Targets /\ bListed \subseteq Shelves
      /\ bSyncing \in BOOLEAN
  BY DEF B!Init, B!Targets
<1>7. B!TypeOK
  BY <1>1, <1>3, <1>4, <1>5, <1>6, StatusCallTyped
     DEF B!TypeOK, RowType, PageType
<1>8. TimesPast
  BY <1>2, <1>4, <1>5, StatusCallTyped DEF TimesPast
<1>9. PageShows /\ MarkedSince(bPage.items, bPage.since)
  BY <1>4 DEF PageShows, MarkedSince, Marked
<1>10. \A c \in bCalls : Asked(c) /\ Read(c)
  BY <1>5, StatusCallTyped DEF Asked, Read
<1>11. OneFresh
  BY <1>5 DEF OneFresh
<1>. QED BY <1>7, <1>8, <1>9, <1>10, <1>11 DEF BrowserInv

LEMMA BrowserStep ==
  ASSUME BrowserInv, [B!Next]_browser
  PROVE  BrowserInv'
<1>1. ASSUME NEW coll \in Shelves \cup {NoShelf}, B!SelectCollection(coll)
      PROVE  BrowserInv'
  BY <1>1, SelectCollectionStep
<1>2. ASSUME NEW n \in DOMAIN bPage.items,
             B!OpenFolder(n) \/ B!ExcludeItem(n) \/ B!RestoreExclusion(n)
      PROVE  BrowserInv'
  <2>1. bPage.items[n].id \in B!Targets
    BY ItemAsked
  <2>2. CASE B!OpenFolder(n)
    BY <2>2, OpenFolderStep
  <2>3. CASE B!ExcludeItem(n) \/ B!RestoreExclusion(n)
    BY <2>1, <2>3, AskStep DEF B!ExcludeItem, B!RestoreExclusion
  <2>. QED BY <1>2, <2>2, <2>3
<1>3. CASE B!Back
  BY <1>3, BackStep
<1>4. CASE B!Timer
  BY <1>4, RefreshStep DEF B!Timer
<1>5. CASE B!LoadMore
  BY <1>5, LoadMoreStep
<1>6. ASSUME NEW c \in bCalls,
             \/ B!ServeStatus(c) \/ B!ServeItems(c)
             \/ B!ServeExclude(c) \/ B!ServeRestore(c) \/ B!Fail(c)
             \/ B!DeliverStatus(c) \/ B!DeliverItems(c)
             \/ B!DeliverMore(c) \/ B!DeliverChange(c)
      PROVE  BrowserInv'
  <2>1. CASE B!DeliverChange(c)
    <3>1. bCalls \ {c} \in SUBSET bCalls
      OBVIOUS
    <3>. QED BY <2>1, <3>1, RefreshStep DEF B!DeliverChange
  <2>. QED BY <1>6, <2>1, ServeStatusStep, ServeItemsStep, ServeChangeStep,
              FailStep, DeliverStatusStep, DeliverItemsStep, DeliverMoreStep
<1>7. ASSUME NEW i \in Items, B!Reconcile(i) PROVE BrowserInv'
  BY <1>7, ReconcileStep
<1>8. CASE B!SyncEnds \/ \E coll \in Shelves : B!Deregister(coll)
  BY <1>8, UnaskedStep
<1>9. CASE UNCHANGED browser
  <2>1. UNCHANGED <<bRow, bRules, bListed, bSyncing, bClock, bPage, bCalls>>
    BY <1>9 DEF browser
  <2>2. RuleChanged => RuleChanged'
    BY <2>1 DEF RuleChanged
  <2>3. OneFresh'
    BY <2>1 DEF OneFresh, BrowserInv
  <2>. QED BY <2>1, <2>2, <2>3, PageTyped, PageKept DEF BrowserInv, B!store
<1>. QED BY <1>1, <1>2, <1>3, <1>4, <1>5, <1>6, <1>7, <1>8, <1>9 DEF B!Next

\* The browser is in a state of its invariant whenever it runs.
BrowserHolds == part = "browser" => BrowserInv

(***************************************************************************)
(* The inductive invariant of the item browser: the list that is shown is  *)
(* one segment of the query's order from its start, each answer under way  *)
(* is the segment that follows the cursor it was asked with, only the      *)
(* latest request of a kind is waited for, and never one for the start and *)
(* one for more.                                                           *)
(***************************************************************************)
THEOREM BrowserInvariant == Spec => []BrowserHolds
<1>1. Init => BrowserHolds
  BY BrowserStarts DEF Init, BrowserInit, BrowserHolds
<1>2. BrowserHolds /\ [Next]_vars => BrowserHolds'
  <2> SUFFICES ASSUME BrowserHolds, [Next]_vars PROVE BrowserHolds'
    OBVIOUS
  <2>1. part' = part /\ (part = "browser" => [B!Next]_browser)
    BY DEF Next, vars
  <2>. QED BY <2>1, BrowserStep DEF BrowserHolds
<1>. QED BY <1>1, <1>2, PTL DEF Spec

(***************************************************************************)
(* The page never shows an item twice or out of order, shows every item of *)
(* the open folder up to its cursor and none of another folder, as far as  *)
(* the worker left them alone, and marks them as the rules in force do,    *)
(* for every folder, page size and order of the answers.                   *)
(***************************************************************************)
THEOREM BrowserShowsStore == Spec => []ShownAsStored
<1>1. BrowserHolds => ShownAsStored
  <2> SUFFICES ASSUME BrowserInv PROVE B!ShownAsStored
    BY DEF BrowserHolds, ShownAsStored
  <2>1. bRow \in [Items -> RowType]
    BY RowsTyped DEF BrowserInv
  <2>2. \A i \in Items : B!After(B!Key(i), B!Start)
    BY <2>1, KeySorts
  <2>3. B!ShownIsListing
    <3> SUFFICES ASSUME bPage.items # <<>> PROVE B!ShownIsListing
      BY DEF B!ShownIsListing
    <3>1. Segment(bPage.items, B!Start, bPage.cursor, bPage.since, bPage.coll,
                  bPage.parents)
      BY DEF BrowserInv, PageShows
    <3>. QED BY <2>2, <3>1 DEF B!ShownIsListing, Segment, Untouched
  <2>4. B!MarksAreRules
    <3> SUFFICES ASSUME bPage.since = bClock,
                        \A c \in bCalls : c.kind = "status" \/ ~c.fresh
                 PROVE  Marked(bPage.items)
      BY DEF B!MarksAreRules, Marked
    <3>1. ~RuleChanged
      BY DEF RuleChanged, BrowserInv, Asked
    <3>. QED BY <3>1 DEF BrowserInv, MarkedSince
  <2>. QED BY <2>3, <2>4 DEF B!ShownAsStored
<1>. QED BY <1>1, BrowserInvariant, PTL

-----------------------------------------------------------------------------
(***************************************************************************)
(* The components that are extended take their own steps and no others.    *)
(***************************************************************************)
LEMMA OwnSteps ==
  ASSUME [Next]_vars
  PROVE  /\ part' = part
         /\ [McpNext]_mcpVars /\ [ChatNext]_chatVars
         /\ [KeyNext]_keyVars /\ [AgentNext]_agentVars
<1>1. CASE Next
  BY <1>1 DEF Next
<1>2. CASE UNCHANGED vars
  BY <1>2 DEF vars
<1>. QED BY <1>1, <1>2

(***************************************************************************)
(* The variables of every component have their types, whichever component  *)
(* runs: each handler of the web process, of the gateway, of the workers'  *)
(* maintenance and of the browser's pages leaves the rows, the requests    *)
(* and the pages it writes well formed.                                    *)
(***************************************************************************)
THEOREM TypesCorrect == Spec => []TypeOK
<1>1. Init => /\ part \in Parts
              /\ McpInit /\ ChatInit /\ KeyInit /\ AgentInit
  BY DEF Init
<1>2. part \in Parts /\ [Next]_vars => (part \in Parts)'
  BY OwnSteps
<1>3. Spec => McpSpec /\ ChatSpec /\ KeySpec /\ AgentSpec /\ [](part \in Parts)
  BY <1>1, <1>2, OwnSteps, PTL DEF Spec, McpSpec, ChatSpec, KeySpec, AgentSpec
<1>4. ASSUME part \in Parts, McpTypeOK, ChatTypeOK, KeyTypeOK, AgentTypeOK,
             StreamHolds, SessionsHold, SettingsHold, SemanticHolds,
             FilesHold, BrowserHolds, RelocationHolds, UpkeepHolds
      PROVE  TypeOK
  <2>1. /\ part = "stream" => R!TypeOK
        /\ part = "sessions" => A!TypeOK
        /\ part = "settings" => F!TypeOK
        /\ part = "semantic" => S!TypeOK
        /\ part = "migrations" => M!TypeOK
        /\ part = "browser" => B!TypeOK
        /\ part = "relocation" => U!TypeOK
        /\ part = "upkeep" => K!TypeOK
    BY <1>4 DEF StreamHolds, StreamInv, SessionsHold, SessionsInv,
                SettingsHold, SettingsInv, SemanticHolds, SemanticInv,
                FilesHold, FilesInv, BrowserHolds, BrowserInv,
                RelocationHolds, RelocationInv, UpkeepHolds, UpkeepInv
  <2>. QED BY <1>4, <2>1, PartsKnown DEF TypeOK
<1>5. ChatInv => ChatTypeOK
  BY DEF ChatInv
<1>. QED BY <1>3, <1>4, <1>5, ResponsesRelease, ChatConsistent, PageTells,
            GrantKept, StreamInvariant, SessionsInvariant, SettingsInvariant,
            SemanticInvariant, FilesInvariant, BrowserInvariant,
            RelocationInvariant, UpkeepInvariant, PTL
=============================================================================
