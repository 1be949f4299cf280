----------------------------- MODULE PagesProofs -----------------------------
(***************************************************************************)
(* Every row that stays in its place is shown exactly once, for every      *)
(* table, every page size and any number of writes between two pages.      *)
(***************************************************************************)
EXTENDS Pages, FiniteSetTheorems, TLAPS

(* The place where a cursor of row a stands orders rows as the query does. *)
LEMMA AfterAsSorted ==
  ASSUME TypeOK, NEW a \in Ids, NEW b \in Ids
  PROVE  After(PlaceOf(a), PlaceOf(b)) <=> SortsBefore(a, b)
BY PagesAssumption DEF After, PlaceOf, SortsBefore, TypeOK, NoTime

LEMMA SortIsTotal ==
  ASSUME TypeOK, NEW a \in Ids, NEW b \in Ids, a # b
  PROVE  SortsBefore(a, b) <=> ~ SortsBefore(b, a)
BY PagesAssumption DEF SortsBefore, TypeOK, NoTime

LEMMA SortIsStrict ==
  ASSUME TypeOK, NEW a \in Ids
  PROVE  ~ SortsBefore(a, a)
BY PagesAssumption DEF SortsBefore, TypeOK

LEMMA AfterIsTransitive ==
  ASSUME NEW c \in Place, NEW d \in Place, NEW e \in Place,
         After(c, d), After(d, e)
  PROVE  After(c, e)
BY DEF After, Place, NoTime

LEMMA PlaceType ==
  ASSUME TypeOK, NEW r \in Ids
  PROVE  PlaceOf(r) \in Place
BY PagesAssumption DEF PlaceOf, Place, TypeOK

(* A query's LIMIT: what is left out comes later, and if rows are left out *)
(* the limit was reached.                                                  *)
LEMMA PrefixSize ==
  ASSUME NEW rows \in SUBSET Ids, NEW n \in Nat, NEW p \in Prefixes(rows, n)
  PROVE  /\ p \subseteq rows /\ IsFiniteSet(p)
         /\ Cardinality(p) \in Nat /\ Cardinality(p) <= n
         /\ p # rows => Cardinality(p) = n
         /\ \A a \in p, b \in rows \ p : SortsBefore(a, b)
<1>1. p \subseteq rows BY DEF Prefixes
<1>2. IsFiniteSet(p) BY <1>1, PagesAssumption, FS_Subset
<1>3. Cardinality(p) \in Nat BY <1>2, FS_CardinalityType
<1>. QED BY <1>1, <1>2, <1>3 DEF Prefixes

LEMMA AheadOfIds == Ahead \in SUBSET Ids
BY DEF Ahead

-----------------------------------------------------------------------------
(* One page: what is fetched, what is shown of it, and the next cursor. *)
LEMMA PageIsPrefix ==
  ASSUME TypeOK, NEW n \in Limits, NEW fetched \in Prefixes(Ahead, n + 1),
         NEW page \in Prefixes(fetched, n)
  PROVE  /\ page \subseteq Ahead
         /\ Cardinality(fetched) \in Nat
         /\ Cardinality(fetched) <= n => page = Ahead
         /\ Cardinality(fetched) > n => \E r \in fetched : r \notin page
         /\ \A a \in page, b \in Ahead \ page : SortsBefore(a, b)
<1>1. n \in Nat /\ n + 1 \in Nat BY PagesAssumption
<1>2. /\ fetched \subseteq Ahead /\ IsFiniteSet(fetched)
      /\ Cardinality(fetched) \in Nat
      /\ fetched # Ahead => Cardinality(fetched) = n + 1
      /\ \A a \in fetched, b \in Ahead \ fetched : SortsBefore(a, b)
  BY <1>1, AheadOfIds, PrefixSize
<1>3. fetched \in SUBSET Ids BY <1>2, AheadOfIds
<1>4. /\ page \subseteq fetched /\ IsFiniteSet(page)
      /\ Cardinality(page) \in Nat /\ Cardinality(page) <= n
      /\ page # fetched => Cardinality(page) = n
      /\ \A a \in page, b \in fetched \ page : SortsBefore(a, b)
  BY <1>1, <1>3, PrefixSize
<1>5. page # fetched => Cardinality(page) < Cardinality(fetched)
  BY <1>2, <1>4, FS_Subset
<1>6. Cardinality(fetched) <= n => page = Ahead
  BY <1>1, <1>2, <1>4, <1>5
<1>7. Cardinality(fetched) > n => \E r \in fetched : r \notin page
  <2>1. (\A r \in fetched : r \in page) => page = fetched BY <1>4
  <2>2. page = fetched => Cardinality(fetched) <= n BY <1>4
  <2>. QED BY <1>1, <1>2, <2>1, <2>2
<1>. QED BY <1>2, <1>4, <1>6, <1>7

LEMMA NextCursorCases ==
  ASSUME NEW n, NEW fetched, NEW page, NextCursor(fetched, page, n)
  PROVE  \/ /\ ~ (Cardinality(fetched) > n)
            /\ walk' = "end" /\ cursor' = NoPlace
         \/ /\ Cardinality(fetched) > n
            /\ walk' = "between"
            /\ \E last \in page : /\ \A r \in page \ {last} : SortsBefore(r, last)
                                  /\ cursor' = PlaceOf(last)
BY DEF NextCursor

LEMMA GetPageKeepsTypes ==
  ASSUME TypeOK, NEW n \in Limits, GetPage(n)
  PROVE  TypeOK'
<1>1. PICK fetched \in Prefixes(Ahead, n + 1) : \E page \in Prefixes(fetched, n) :
        /\ NextCursor(fetched, page, n)
        /\ shown' = [r \in Ids |-> IF r \in page THEN shown[r] + 1 ELSE shown[r]]
  BY DEF GetPage
<1>0. PICK page \in Prefixes(fetched, n) :
        /\ NextCursor(fetched, page, n)
        /\ shown' = [r \in Ids |-> IF r \in page THEN shown[r] + 1 ELSE shown[r]]
  BY <1>1
<1>2. page \subseteq Ids BY PageIsPrefix, AheadOfIds
<1>3. walk' \in {"start", "between", "end"} /\ cursor' \in Place
  BY <1>0, <1>2, NextCursorCases, PlaceType, PagesAssumption
     DEF NoPlace, Place, NoTime
<1>4. shown' \in [Ids -> Nat] BY <1>0 DEF TypeOK
<1>. QED BY <1>3, <1>4 DEF GetPage, TypeOK, table

(* Types hold throughout, and an undated row has always cleared: no        *)
(* payment is on the list before it has settled or failed.                 *)
THEOREM PagesTypes == Spec => []TypeOK
<1>1. Init => TypeOK
  BY PagesAssumption DEF Init, TypeOK, NoPlace, Place, NoTime, Status
<1>2. TypeOK /\ [Next]_vars => TypeOK'
  <2>. SUFFICES ASSUME TypeOK, [Next]_vars PROVE TypeOK'
    OBVIOUS
  <2>1. CASE StartOver
    BY <2>1 DEF StartOver, TypeOK, table, NoPlace, Place, NoTime
  <2>2. CASE Truncate
    BY <2>2 DEF Truncate, Write, TypeOK, NoTime, Status
  <2>3. ASSUME NEW n \in Limits, GetPage(n) PROVE TypeOK'
    BY <2>3, GetPageKeepsTypes
  <2>4. ASSUME NEW t \in 1..MaxTime, SetClock(t) PROVE TypeOK'
    BY <2>4, PagesAssumption DEF SetClock, TypeOK, table
  <2>5. ASSUME NEW r \in Ids, Dishonour(r) PROVE TypeOK'
    BY <2>5 DEF Dishonour, Write, TypeOK, NoTime, Status, Closed
  <2>6. ASSUME NEW r \in Ids, Clear(r) PROVE TypeOK'
    BY <2>6 DEF Clear, Write, TypeOK, NoTime, Status
  <2>7. ASSUME NEW r \in Ids, WriteOff(r) PROVE TypeOK'
    BY <2>7 DEF WriteOff, Write, TypeOK, NoTime, Status, Closed
  <2>8. ASSUME NEW dates \in [Ids -> 0..MaxTime], Backdate(dates) PROVE TypeOK'
    BY <2>8, PagesAssumption DEF Backdate, Write, TypeOK, NoTime
  <2>9. CASE UNCHANGED vars
    BY <2>9 DEF vars, table, TypeOK
  <2>. QED
    BY <2>1, <2>2, <2>3, <2>4, <2>5, <2>6, <2>7, <2>8, <2>9 DEF Next
<1>. QED BY <1>1, <1>2, PTL DEF Spec

-----------------------------------------------------------------------------
(* A page shows what the cursor it gives has then passed, and no more. *)
LEMMA PageShowsWhatItPasses ==
  ASSUME TypeOK, NEW n \in Limits, NEW fetched \in Prefixes(Ahead, n + 1),
         NEW page \in Prefixes(fetched, n), NextCursor(fetched, page, n),
         UNCHANGED failedAt, NEW r \in Ahead
  PROVE  r \in page <=> Passed(r)'
<1>1. r \in Ids /\ page \subseteq Ids BY PageIsPrefix, AheadOfIds
<1>2. CASE Cardinality(fetched) <= n
  <2>1. page = Ahead BY <1>2, PageIsPrefix
  <2>2. walk' = "end" BY <1>2, NextCursorCases, PageIsPrefix, PagesAssumption
  <2>. QED BY <2>1, <2>2 DEF Passed
<1>3. CASE Cardinality(fetched) > n
  <2>1. walk' = "between" BY <1>3, NextCursorCases
  <2>2. PICK last \in page : /\ \A q \in page \ {last} : SortsBefore(q, last)
                             /\ cursor' = PlaceOf(last)
    BY <1>3, NextCursorCases
  <2>3. Passed(r)' <=> ~ SortsBefore(last, r)
    BY <1>1, <2>1, <2>2, AfterAsSorted DEF Passed, PlaceOf, After
  <2>4. r \in page => ~ SortsBefore(last, r)
    BY <1>1, <2>2, SortIsTotal, SortIsStrict
  <2>5. r \notin page => SortsBefore(last, r) BY <2>2, PageIsPrefix
  <2>. QED BY <2>3, <2>4, <2>5
<1>4. Cardinality(fetched) <= n \/ Cardinality(fetched) > n
  BY PageIsPrefix, PagesAssumption
<1>. QED BY <1>2, <1>3, <1>4

(* What the walk had passed it has still passed after the next page. *)
LEMMA PassedStaysPassed ==
  ASSUME TypeOK, NEW n \in Limits, NEW fetched \in Prefixes(Ahead, n + 1),
         NEW page \in Prefixes(fetched, n), NextCursor(fetched, page, n),
         UNCHANGED failedAt, NEW r \in Ids, walk # "end", Passed(r)
  PROVE  Passed(r)'
<1>1. walk = "between" /\ ~ After(cursor, PlaceOf(r)) BY DEF Passed
<1>2. CASE walk' = "end" BY <1>2 DEF Passed
<1>3. CASE walk' # "end"
  <2>1. PICK last \in page : walk' = "between" /\ cursor' = PlaceOf(last)
    BY <1>3, NextCursorCases
  <2>2. last \in Ids /\ After(cursor, PlaceOf(last))
    BY <1>1, PageIsPrefix DEF Ahead
  <2>3. ~ After(PlaceOf(last), PlaceOf(r))
    BY <1>1, <2>2, AfterIsTransitive, PlaceType DEF TypeOK
  <2>. QED BY <2>1, <2>3 DEF Passed, PlaceOf, After
<1>. QED BY <1>2, <1>3

LEMMA GetPageKeepsUntouchedOnce ==
  ASSUME TypeOK, UntouchedOnce, NEW n \in Limits, GetPage(n)
  PROVE  UntouchedOnce'
<1>1. PICK fetched \in Prefixes(Ahead, n + 1) : \E page \in Prefixes(fetched, n) :
        /\ NextCursor(fetched, page, n)
        /\ shown' = [r \in Ids |-> IF r \in page THEN shown[r] + 1 ELSE shown[r]]
  BY DEF GetPage
<1>0. PICK page \in Prefixes(fetched, n) :
        /\ NextCursor(fetched, page, n)
        /\ shown' = [r \in Ids |-> IF r \in page THEN shown[r] + 1 ELSE shown[r]]
  BY <1>1
<1>2. /\ walk # "end"
      /\ UNCHANGED <<present, failedAt, status, wanted, touched>>
  BY DEF GetPage, table
<1>. SUFFICES ASSUME NEW r \in Ids \ touched
              PROVE  shown'[r] = IF Matches(r) /\ Passed(r)' THEN 1 ELSE 0
  BY <1>2 DEF UntouchedOnce, Matches
<1>3. shown'[r] = IF r \in page THEN shown[r] + 1 ELSE shown[r] BY <1>0
<1>4. shown[r] = IF Matches(r) /\ Passed(r) THEN 1 ELSE 0 BY DEF UntouchedOnce
<1>5. CASE r \in Ahead
  <2>1. Matches(r) /\ ~ Passed(r) BY <1>2, <1>5 DEF Ahead, Passed
  <2>2. r \in page <=> Passed(r)' BY <1>0, <1>2, <1>5, PageShowsWhatItPasses
  <2>. QED BY <1>3, <1>4, <2>1, <2>2
<1>6. CASE r \notin Ahead
  <2>1. r \notin page BY <1>6, PageIsPrefix
  <2>2. Matches(r) => Passed(r) BY <1>2, <1>6 DEF Ahead, Passed, TypeOK
  <2>3. Matches(r) => Passed(r)' BY <1>0, <1>2, <2>2, PassedStaysPassed
  <2>. QED BY <1>3, <1>4, <2>1, <2>2, <2>3
<1>. QED BY <1>5, <1>6

LEMMA WriteKeepsUntouchedOnce ==
  ASSUME UntouchedOnce, Write
  PROVE  UntouchedOnce'
<1>1. UNCHANGED <<walk, cursor, shown>> BY DEF Write
<1>2. ASSUME NEW r \in Ids \ touched'
      PROVE  /\ r \in Ids \ touched
             /\ Matches(r)' <=> Matches(r)
             /\ Passed(r)' <=> Passed(r)
  <2>1. r \in Ids \ touched /\ Standing(r)' = Standing(r) BY DEF Write
  <2>2. (Matches(r)' <=> Matches(r)) /\ failedAt'[r] = failedAt[r]
    BY <2>1 DEF Standing, Matches
  <2>. QED BY <1>1, <2>1, <2>2 DEF Passed, PlaceOf
<1>. QED BY <1>1, <1>2 DEF UntouchedOnce

(* Whatever is written between two pages, a walk shows every row that is   *)
(* not itself moved once when it has passed its place, and not before: the *)
(* keyset cursor of list_payments skips nothing and repeats nothing.       *)
THEOREM PagesShowUntouchedOnce == Spec => []UntouchedOnce
<1>1. Init => UntouchedOnce BY DEF Init, UntouchedOnce, Passed
<1>2. TypeOK /\ UntouchedOnce /\ [Next]_vars => UntouchedOnce'
  <2>. SUFFICES ASSUME TypeOK, UntouchedOnce, [Next]_vars PROVE UntouchedOnce'
    OBVIOUS
  <2>1. CASE StartOver BY <2>1 DEF StartOver, UntouchedOnce, Passed
  <2>2. CASE \E n \in Limits : GetPage(n) BY <2>2, GetPageKeepsUntouchedOnce
  <2>3. CASE Write BY <2>3, WriteKeepsUntouchedOnce
  <2>4. CASE UNCHANGED <<table, wanted, walk, cursor, shown, touched>>
    BY <2>4 DEF table, UntouchedOnce, Passed, Matches, PlaceOf
  <2>. QED
    BY <2>1, <2>2, <2>3, <2>4
       DEF Next, Truncate, SetClock, Dishonour, Clear, WriteOff, Backdate, vars
<1>. QED BY <1>1, <1>2, PagesTypes, PTL DEF Spec

(* A next_cursor always has a row beyond it in the table it was made from, *)
(* and it lies beyond the cursor that was asked with: the walk descends.   *)
THEOREM PagesLeadOn == Spec => NextPageIsAhead
<1>. DEFINE Step ==
       shown' # shown /\ walk' = "between" =>
         /\ \E r \in Ids : Matches(r) /\ After(cursor', PlaceOf(r))
         /\ walk = "between" => After(cursor, cursor')
<1>1. TypeOK /\ [Next]_vars => [Step]_vars
  <2>. SUFFICES ASSUME TypeOK, Next, shown' # shown, walk' = "between"
                PROVE  /\ \E r \in Ids : Matches(r) /\ After(cursor', PlaceOf(r))
                       /\ walk = "between" => After(cursor, cursor')
    OBVIOUS
  <2>1. PICK n \in Limits : GetPage(n)
    BY DEF Next, StartOver, Truncate, SetClock, Dishonour, Clear, WriteOff,
           Backdate, Write
  <2>2. PICK fetched \in Prefixes(Ahead, n + 1) :
          \E page \in Prefixes(fetched, n) : NextCursor(fetched, page, n)
    BY <2>1 DEF GetPage
  <2>0. PICK page \in Prefixes(fetched, n) : NextCursor(fetched, page, n)
    BY <2>2
  <2>3. /\ Cardinality(fetched) > n
        /\ \E last \in page : cursor' = PlaceOf(last)
    BY <2>0, NextCursorCases
  <2>4. PICK last \in page : cursor' = PlaceOf(last) BY <2>3
  <2>5. PICK r \in fetched : r \notin page BY <2>3, PageIsPrefix
  <2>6. last \in Ahead /\ r \in Ahead /\ SortsBefore(last, r)
    BY <2>4, <2>5, PageIsPrefix DEF Prefixes
  <2>7. Matches(r) /\ After(cursor', PlaceOf(r))
    BY <2>4, <2>6, AfterAsSorted DEF Ahead
  <2>8. walk = "between" => After(cursor, cursor')
    BY <2>4, <2>6 DEF Ahead
  <2>. QED BY <2>6, <2>7, <2>8 DEF Ahead
<1>. QED BY <1>1, PagesTypes, PTL DEF Spec, NextPageIsAhead
=============================================================================
