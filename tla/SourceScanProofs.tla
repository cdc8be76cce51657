-------------------------- MODULE SourceScanProofs --------------------------
(***************************************************************************)
(* Theorems about SourceScan, for any scanners, records, page limit, edits *)
(* and faults: types, that the vault holds what the cursor's listing held, *)
(* that tombstones are made of absent records only, and that what is       *)
(* marked published was applied to the inbox, but for the records that a   *)
(* batch overtook on their way.                                            *)
(***************************************************************************)
EXTENDS SourceScan, FiniteSetTheorems, TLAPS

\* The row is live and says what the listing says.
Holds(row, text) == row # Nothing /\ ~row.tombstoned /\ row.text = text

\* The part of the cursor's listing that the pages so far have covered is
\* stored as listed, and marked seen while the generation is open.
Stored ==
    cursor # NoCursor =>
        \A r \in Listed(cursor.sig) :
            ~cursor.reconciling \/ Position(r, cursor.sig) <= cursor.index =>
                Holds(vault[r], cursor.sig[r]) /\ (cursor.reconciling => vault[r].seen)

\* The row still says what the change says.
Current(c) ==
    /\ vault[c.record] # Nothing
    /\ c.text = vault[c.record].text
    /\ c.tombstone = (vault[c.record].tombstoned \/ vault[c.record].text \in Done)

\* Changes that were read and are not yet marked say what their rows say, but
\* for the overtaken ones.
Carried ==
    \A s \in Scanners : Publishing(s) =>
        \A c \in runs[s].pending : c.record \notin overtaken => Current(c)

\* Before the mark, the inbox says what is about to be called published.
ReadyToMark ==
    \A s \in Scanners : runs[s].pc = "mark" =>
        \A c \in runs[s].pending :
            c.record \notin overtaken => Agrees(inbox[c.record], vault[c.record])

IInv == TypeOK /\ Stored /\ Carried /\ ReadyToMark /\ PublishedMeansApplied

-----------------------------------------------------------------------------
(* Positions and pages *)

LEMMA ListedIsFinite ==
  ASSUME NEW list \in Listings, NEW r \in Records
  PROVE  /\ IsFiniteSet(Listed(list)) /\ IsFiniteSet({q \in Listed(list) : q <= r})
         /\ Cardinality(Listed(list)) \in Nat
         /\ Cardinality(Listed(list)) <= NumRecords
         /\ Position(r, list) \in Nat
         /\ Position(r, list) <= Cardinality(Listed(list))
<1>1. /\ IsFiniteSet(Records) /\ Cardinality(Records) = NumRecords
  <2>1. 1 \in Int /\ NumRecords \in Int /\ NumRecords > 0
    BY ScanAssumption
  <2>2. Cardinality(Records) = IF 1 > NumRecords THEN 0 ELSE NumRecords - 1 + 1
    BY <2>1, FS_Interval DEF Records
  <2> QED
    BY <2>1, <2>2, FS_Interval DEF Records
<1>2. Listed(list) \subseteq Records
  BY DEF Listed
<1>3. IsFiniteSet(Listed(list)) /\ Cardinality(Listed(list)) <= NumRecords
  BY <1>1, <1>2, FS_Subset
<1>4. {q \in Listed(list) : q <= r} \subseteq Listed(list)
  OBVIOUS
<1>5. /\ IsFiniteSet({q \in Listed(list) : q <= r})
      /\ Position(r, list) <= Cardinality(Listed(list))
  BY <1>3, <1>4, FS_Subset DEF Position
<1> QED
  BY <1>3, <1>5, FS_CardinalityType DEF Position

\* Records are listed in the order of their numbers, from position 1.
LEMMA PositionsGrow ==
  ASSUME NEW list \in Listings, NEW q \in Listed(list), NEW r \in Listed(list), q < r
  PROVE  Position(q, list) < Position(r, list)
<1> DEFINE Low == {x \in Listed(list) : x <= q}
           High == {x \in Listed(list) : x <= r}
<1>1. q \in Records /\ r \in Records /\ Records \subseteq Nat
  BY DEF Listed, Records
<1>2. IsFiniteSet(Low) /\ IsFiniteSet(High)
  BY <1>1, ListedIsFinite
<1>3. Low \subseteq High
  <2>1. \A x \in Listed(list) : x \in Nat
    BY <1>1 DEF Listed
  <2>2. q \in Nat /\ r \in Nat /\ q < r
    BY <1>1
  <2>3. ASSUME NEW x \in Listed(list), x <= q PROVE x <= r
    <3>1. x \in Nat
      BY <2>1
    <3> QED
      BY <2>2, <2>3, <3>1
  <2> QED
    BY <2>3
<1>4. r \in High /\ r \notin Low
  BY <1>1
<1>5. Cardinality(Low) <= Cardinality(High) /\ Cardinality(Low) # Cardinality(High)
  BY <1>2, <1>3, <1>4, FS_Subset
<1>6. Cardinality(Low) \in Nat /\ Cardinality(High) \in Nat
  BY <1>2, FS_CardinalityType
<1> QED
  BY <1>5, <1>6 DEF Position

LEMMA ReconcilingType ==
  ASSUME NEW c \in Cursors
  PROVE  c.reconciling \in BOOLEAN
<1>1. CASE c = NoCursor
  BY <1>1 DEF NoCursor
<1>2. CASE c \in [sig: Listings, index: 0..NumRecords, reconciling: BOOLEAN]
  BY <1>2
<1> QED
  BY <1>1, <1>2 DEF Cursors

LEMMA OffsetType ==
  ASSUME NEW seen \in Cursors, NEW list
  PROVE  Offset(seen, list) \in Nat
  BY ScanAssumption DEF Offset, Cursors, NoCursor

\* A page holds no more than Limit records.
LEMMA PageFits ==
  ASSUME NEW seen \in Cursors, NEW list \in Listings
  PROVE  /\ Page(seen, list) \subseteq Records
         /\ Cardinality(Page(seen, list)) \in Nat
         /\ Cardinality(Page(seen, list)) <= Limit
<1> DEFINE P == Page(seen, list)
           n == Offset(seen, list)
           f == [r \in P |-> Position(r, list)]
<1>1. P \subseteq Listed(list) /\ Listed(list) \subseteq Records
  BY DEF Page, Listed
<1>2. n \in Nat /\ Limit \in Nat
  BY OffsetType, ScanAssumption
<1>3. f \in [P -> n + 1 .. n + Limit]
  BY DEF Page
<1>4. ASSUME NEW q \in P, NEW r \in P, f[q] = f[r] PROVE q = r
  <2>1. q \in Listed(list) /\ r \in Listed(list) /\ q \in Nat /\ r \in Nat
    BY <1>1 DEF Records
  <2>2. Position(q, list) = Position(r, list) /\ Position(q, list) \in Nat
    BY <1>1, <1>4, ListedIsFinite
  <2> QED
    BY <2>1, <2>2, PositionsGrow
<1>5. f \in Injection(P, n + 1 .. n + Limit)
  BY <1>3, <1>4 DEF Injection, IsInjective
<1>6. /\ IsFiniteSet(n + 1 .. n + Limit)
      /\ Cardinality(n + 1 .. n + Limit) = Limit
  <2>1. n + 1 \in Int /\ n + Limit \in Int
    BY <1>2
  <2>2. Cardinality(n + 1 .. n + Limit) = IF n + 1 > n + Limit THEN 0 ELSE (n + Limit) - (n + 1) + 1
    BY <2>1, FS_Interval
  <2> QED
    BY <1>2, <2>1, <2>2, FS_Interval, ScanAssumption
<1>7. IsFiniteSet(P) /\ Cardinality(P) <= Limit
  BY <1>5, <1>6, FS_Injection
<1> QED
  BY <1>1, <1>7, FS_CardinalityType

\* The next cursor points behind the page, and not behind the listing.
LEMMA NextCursorType ==
  ASSUME NEW seen \in Cursors, NEW list \in Listings
  PROVE  /\ NextCursor(seen, list) \in Cursors
         /\ NextCursor(seen, list) # NoCursor
         /\ NextCursor(seen, list).sig = list
         /\ NextCursor(seen, list).reconciling = More(seen, list)
         /\ More(seen, list) =>
               NextCursor(seen, list).index <= Offset(seen, list) + Limit
<1>1. /\ Offset(seen, list) \in Nat /\ Limit \in Nat /\ NumRecords \in Nat
      /\ Cardinality(Page(seen, list)) \in Nat
      /\ Cardinality(Page(seen, list)) <= Limit
      /\ 1 \in Records
  BY OffsetType, PageFits, ScanAssumption DEF Records
<1>2. /\ Cardinality(Listed(list)) \in Nat
      /\ Cardinality(Listed(list)) <= NumRecords
  BY <1>1, ListedIsFinite
<1>3. NextCursor(seen, list).index \in 0..NumRecords
  BY <1>1, <1>2 DEF NextCursor, More
<1>4. NextCursor(seen, list).sig # NoCursor.sig
  BY NothingApart DEF NextCursor, NoCursor
<1>5. More(seen, list) \in BOOLEAN
  BY DEF More
<1> QED
  BY <1>1, <1>3, <1>4, <1>5 DEF NextCursor, Cursors

-----------------------------------------------------------------------------
(* What a batch does to the rows *)

LEMMA UpsertedRow ==
  ASSUME NEW old \in Row \cup {Nothing}, NEW text \in Texts, NEW complete \in BOOLEAN,
         NEW row, row = Upserted(old, text, complete)
  PROVE  /\ row \in Row /\ row # Nothing
         /\ row.text = text /\ ~row.tombstoned /\ row.seen = ~complete
         /\ row.published => /\ old # Nothing /\ old.published
                             /\ old.text = text /\ ~old.tombstoned
<1>1. Upserted(old, text, complete) \in Row
  <2>1. (/\ old # Nothing /\ old.published
         /\ old.text = text /\ ~old.tombstoned) \in BOOLEAN
    BY DEF Row
  <2> QED
    BY <2>1 DEF Upserted, Row
<1> QED
  BY <1>1, NothingApart DEF Upserted

LEMMA KeptRow ==
  ASSUME NEW row \in Row, NEW complete \in BOOLEAN, active \in BOOLEAN,
         NEW kept, kept = Kept(row, complete)
  PROVE  /\ kept \in Row /\ kept # Nothing
         /\ kept.text = row.text
         /\ kept.tombstoned = (row.tombstoned \/ Tombstoned(row, complete))
         /\ kept.published => row.published /\ ~Tombstoned(row, complete)
         /\ kept.seen = (active /\ row.seen /\ ~complete)
<1>1. row # Nothing
  BY NothingApart
<1>2. CASE Tombstoned(row, complete)
  <2>1. Kept(row, complete) =
          [row EXCEPT !.tombstoned = TRUE, !.published = FALSE, !.seen = FALSE]
    BY <1>1, <1>2 DEF Kept
  <2>2. [row EXCEPT !.tombstoned = TRUE, !.published = FALSE, !.seen = FALSE] \in Row
    BY DEF Row
  <2>3. complete
    BY <1>2 DEF Tombstoned
  <2> QED
    BY <1>2, <2>1, <2>2, <2>3, NothingApart DEF Row
<1>3. CASE ~Tombstoned(row, complete)
  <2>1. Kept(row, complete) = [row EXCEPT !.seen = active /\ row.seen /\ ~complete]
    BY <1>1, <1>3 DEF Kept
  <2>2. (active /\ row.seen /\ ~complete) \in BOOLEAN
    BY DEF Row
  <2>3. [row EXCEPT !.seen = active /\ row.seen /\ ~complete] \in Row
    BY <2>2 DEF Row
  <2> QED
    BY <1>3, <2>1, <2>3, NothingApart DEF Row
<1> QED
  BY <1>2, <1>3

LEMMA PositionPositive ==
  ASSUME NEW list \in Listings, NEW r \in Listed(list)
  PROVE  Position(r, list) >= 1
<1>1. r \in Records /\ r \in Nat
  BY DEF Listed, Records
<1>2. {q \in Listed(list) : q <= r} # {}
  BY <1>1
<1>3. /\ IsFiniteSet({q \in Listed(list) : q <= r})
      /\ Position(r, list) \in Nat
  BY <1>1, ListedIsFinite
<1>4. Position(r, list) # 0
  BY <1>2, <1>3, FS_EmptySet DEF Position
<1> QED
  BY <1>3, <1>4

\* A listed record that comes before the page is stored as listed, and seen in
\* the open generation: the listing is the one of the pages before.
LEMMA BeforePage ==
  ASSUME TypeOK, Stored, NEW list \in Listings, NEW r \in Listed(list),
         r \notin Page(cursor, list),
         Position(r, list) <= Offset(cursor, list) + Limit
  PROVE  Holds(vault[r], list[r]) /\ active /\ vault[r].seen
<1>1. r \in Records /\ cursor \in Cursors /\ Limit \in Nat
  BY ScanAssumption DEF Listed, TypeOK
<1>2. Position(r, list) \in Nat /\ Offset(cursor, list) \in Nat
  BY <1>1, ListedIsFinite, OffsetType
<1>3. ~(Position(r, list) >= Offset(cursor, list) + 1)
  BY <1>1, <1>2 DEF Page
<1>4. Position(r, list) <= Offset(cursor, list)
  BY <1>2, <1>3
<1>5. Offset(cursor, list) >= 1
  BY <1>2, <1>4, PositionPositive
<1>6. Continuing(cursor, list)
  BY <1>5 DEF Offset
<1>7. cursor.reconciling /\ cursor.sig = list /\ Position(r, list) <= cursor.index
  BY <1>4, <1>6 DEF Offset, Continuing
<1>8. cursor # NoCursor
  BY <1>7 DEF NoCursor
<1> QED
  BY <1>7, <1>8 DEF Stored, TypeOK

\* Every listed record is before the page, on it, or on a page to come.
LEMMA LastPage ==
  ASSUME TypeOK, NEW list \in Listings, NEW r \in Listed(list), ~More(cursor, list)
  PROVE  Position(r, list) <= Offset(cursor, list) + Limit
<1>1. r \in Records /\ cursor \in Cursors /\ Limit \in Nat
  BY ScanAssumption DEF Listed, TypeOK
<1>2. /\ Position(r, list) \in Nat /\ Offset(cursor, list) \in Nat
      /\ Cardinality(Listed(list)) \in Nat
      /\ Position(r, list) <= Cardinality(Listed(list))
  BY <1>1, ListedIsFinite, OffsetType
<1> QED
  BY <1>1, <1>2 DEF More

Stores(list, full) ==
    ~Unchanged(cursor, list, full) /\ StoreBatch(cursor, list, full)

\* A row on the page, a record without a row, and a row that is not on the page.
OnPage(r, list) ==
    /\ r \in Page(cursor, list) /\ r \in Listed(list)
    /\ Holds(vault'[r], list[r]) /\ vault'[r] \in Row
    /\ More(cursor, list) => vault'[r].seen
    /\ vault'[r].published => /\ vault[r] \in Row /\ vault[r].published
                              /\ vault[r].text = list[r] /\ ~vault[r].tombstoned

NoRow(r, list) == r \notin Page(cursor, list) /\ vault[r] = Nothing /\ vault'[r] = Nothing

OffPage(r, list) ==
    /\ r \notin Page(cursor, list) /\ vault[r] \in Row /\ vault'[r] \in Row
    /\ vault'[r].text = vault[r].text
    /\ vault'[r].tombstoned \/ ~vault[r].tombstoned
    /\ vault'[r].tombstoned /\ ~vault[r].tombstoned =>
          /\ ~More(cursor, list) /\ ~(active /\ vault[r].seen)
          /\ ~vault'[r].published
    /\ vault'[r].published => vault[r].published
    /\ active /\ vault[r].seen /\ More(cursor, list) => vault'[r].seen

LEMMA BatchRow ==
  ASSUME TypeOK, NEW list \in Listings, NEW full \in BOOLEAN, Stores(list, full),
         NEW r \in Records
  PROVE  OnPage(r, list) \/ NoRow(r, list) \/ OffPage(r, list)
<1> DEFINE complete == ~More(cursor, list)
<1>1. active \in BOOLEAN /\ vault[r] \in Row \cup {Nothing}
  <2>1. cursor \in Cursors /\ active = cursor.reconciling
    BY DEF TypeOK
  <2>2. cursor.reconciling \in BOOLEAN
    BY <2>1, ReconcilingType
  <2>3. active \in BOOLEAN
    BY <2>1, <2>2, Zenon
  <2>4. vault \in [Records -> Row \cup {Nothing}]
    BY DEF TypeOK
  <2> QED
    BY <2>3, <2>4
<1>2. complete \in BOOLEAN /\ (complete <=> ~More(cursor, list))
  BY DEF More
<1>3. vault'[r] = IF r \in Page(cursor, list) THEN Upserted(vault[r], list[r], complete)
                                              ELSE Kept(vault[r], complete)
  <2>1. vault' = [q \in Records |->
                     IF q \in Page(cursor, list) THEN Upserted(vault[q], list[q], complete)
                     ELSE Kept(vault[q], complete)]
    BY Zenon DEF Stores, StoreBatch
  <2> HIDE DEF complete
  <2> QED
    BY <2>1, Zenon
<1> HIDE DEF complete
<1>4. CASE r \in Page(cursor, list)
  <2>1. r \in Listed(list) /\ list[r] \in Texts
    BY <1>4 DEF Page, Listed, Listings
  <2>2. vault'[r] = Upserted(vault[r], list[r], complete)
    BY <1>3, <1>4
  <2>3. /\ vault'[r] \in Row /\ vault'[r] # Nothing
        /\ vault'[r].text = list[r] /\ ~vault'[r].tombstoned
        /\ vault'[r].seen = ~complete
        /\ vault'[r].published => /\ vault[r] # Nothing /\ vault[r].published
                                  /\ vault[r].text = list[r] /\ ~vault[r].tombstoned
    <3>1. \A old \in Row \cup {Nothing}, text \in Texts, c \in BOOLEAN : \A row :
              row = Upserted(old, text, c) =>
                  /\ row \in Row /\ row # Nothing
                  /\ row.text = text /\ ~row.tombstoned /\ row.seen = ~c
                  /\ row.published => /\ old # Nothing /\ old.published
                                      /\ old.text = text /\ ~old.tombstoned
      BY UpsertedRow, Zenon
    <3> QED
      BY <1>1, <1>2, <2>1, <2>2, <3>1
  <2> QED
    BY <1>1, <1>2, <1>4, <2>1, <2>3 DEF OnPage, Holds
<1>5. CASE r \notin Page(cursor, list) /\ vault[r] = Nothing
  BY <1>3, <1>5 DEF Kept, NoRow
<1>6. CASE r \notin Page(cursor, list) /\ vault[r] # Nothing
  <2>1. vault'[r] = Kept(vault[r], complete) /\ vault[r] \in Row
    BY <1>1, <1>3, <1>6
  <2>2. /\ vault'[r] \in Row
        /\ vault'[r].text = vault[r].text
        /\ vault'[r].tombstoned = (vault[r].tombstoned \/ Tombstoned(vault[r], complete))
        /\ vault'[r].published => vault[r].published /\ ~Tombstoned(vault[r], complete)
        /\ vault'[r].seen = (active /\ vault[r].seen /\ ~complete)
    <3>1. PICK kept : kept = vault'[r]
      OBVIOUS
    <3>2. vault[r] \in Row /\ complete \in BOOLEAN /\ active \in BOOLEAN
      BY <1>1, <1>2, <2>1
    <3>3. kept = Kept(vault[r], complete)
      BY <2>1, <3>1
    <3> HIDE DEF complete
    <3>4. /\ kept \in Row
          /\ kept.text = vault[r].text
          /\ kept.tombstoned = (vault[r].tombstoned \/ Tombstoned(vault[r], complete))
          /\ kept.published => vault[r].published /\ ~Tombstoned(vault[r], complete)
          /\ kept.seen = (active /\ vault[r].seen /\ ~complete)
      BY <3>2, <3>3, KeptRow, Zenon
    <3> QED
      BY <3>1, <3>4
  <2>3. Tombstoned(vault[r], complete) => complete /\ ~(active /\ vault[r].seen)
    BY DEF Tombstoned
  <2>4. /\ vault[r].tombstoned \in BOOLEAN /\ vault'[r].tombstoned \in BOOLEAN
        /\ vault'[r].seen \in BOOLEAN
    BY <2>1, <2>2 DEF Row
  <2>5. vault'[r].tombstoned \/ ~vault[r].tombstoned
    BY <2>2
  <2>6. vault'[r].tombstoned /\ ~vault[r].tombstoned =>
          /\ ~More(cursor, list) /\ ~(active /\ vault[r].seen)
          /\ ~vault'[r].published
    BY <1>2, <2>2, <2>3
  <2>7. active /\ vault[r].seen /\ More(cursor, list) => vault'[r].seen
    BY <1>2, <2>2
  <2> QED
    BY <1>6, <2>1, <2>2, <2>5, <2>6, <2>7 DEF OffPage
<1> QED
  BY <1>4, <1>5, <1>6

LEMMA BatchStore ==
  ASSUME TypeOK, NEW list \in Listings, NEW full \in BOOLEAN, Stores(list, full)
  PROVE  /\ cursor' = NextCursor(cursor, list) /\ active' = More(cursor, list)
         /\ cursor' \in Cursors /\ cursor' # NoCursor /\ cursor'.sig = list
         /\ cursor'.reconciling = More(cursor, list)
         /\ More(cursor, list) => cursor'.index <= Offset(cursor, list) + Limit
         /\ vault' \in [Records -> Row \cup {Nothing}]
<1>1. cursor' = NextCursor(cursor, list) /\ cursor \in Cursors
  BY DEF Stores, StoreBatch, TypeOK
<1>2. active' = ~(~More(cursor, list))
  BY DEF Stores, StoreBatch
<1>3. More(cursor, list) \in BOOLEAN
  BY DEF More
<1>4. active' = More(cursor, list)
  BY <1>2, <1>3
<1>5. vault' = [r \in Records |-> vault'[r]]
  BY DEF Stores, StoreBatch
<1>6. \A r \in Records : vault'[r] \in Row \cup {Nothing}
  BY BatchRow DEF OnPage, NoRow, OffPage
<1> QED
  BY <1>1, <1>4, <1>5, <1>6, NextCursorType

\* A row that becomes a tombstone is not among the last listing's.
LEMMA BatchTombstones ==
  ASSUME TypeOK, Stored, NEW list \in Listings, NEW full \in BOOLEAN,
         Stores(list, full), NEW r \in Records, vault[r] # Nothing,
         ~vault[r].tombstoned, vault'[r].tombstoned
  PROVE  cursor'.sig[r] = Nothing /\ ~cursor'.reconciling
<1>1. OffPage(r, list)
  BY BatchRow DEF OnPage, NoRow, Holds
<1>2. ~More(cursor, list) /\ ~(active /\ vault[r].seen) /\ r \notin Page(cursor, list)
  BY <1>1 DEF OffPage
<1>3. r \notin Listed(list)
  BY <1>2, BeforePage, LastPage
<1> QED
  BY <1>2, <1>3, BatchStore DEF Listed

LEMMA BatchStored ==
  ASSUME TypeOK, Stored, NEW list \in Listings, NEW full \in BOOLEAN,
         Stores(list, full)
  PROVE  Stored'
<1>1. /\ cursor' \in Cursors /\ cursor'.sig = list
      /\ cursor'.reconciling = More(cursor, list)
      /\ More(cursor, list) => cursor'.index <= Offset(cursor, list) + Limit
  BY BatchStore
<1>2. ASSUME NEW r \in Listed(list),
             ~More(cursor, list) \/ Position(r, list) <= cursor'.index
      PROVE  /\ Holds(vault'[r], list[r])
             /\ More(cursor, list) => vault'[r].seen
  <2>1. r \in Records /\ cursor \in Cursors
    BY DEF Listed, TypeOK
  <2>2. Position(r, list) <= Offset(cursor, list) + Limit
    <3>1. CASE ~More(cursor, list)
      BY <3>1, LastPage
    <3>2. CASE More(cursor, list)
      <4>1. /\ Position(r, list) \in Nat /\ Offset(cursor, list) \in Nat /\ Limit \in Nat
        BY <2>1, ListedIsFinite, OffsetType, ScanAssumption
      <4>2. cursor'.index \in Nat
        BY <1>1, ScanAssumption DEF Cursors, NoCursor
      <4>3. Position(r, list) <= cursor'.index /\ cursor'.index <= Offset(cursor, list) + Limit
        BY <1>1, <1>2, <3>2
      <4> QED
        BY <4>1, <4>2, <4>3
    <3> QED
      BY <3>1, <3>2
  <2>3. CASE r \in Page(cursor, list)
    BY <2>1, <2>3, BatchRow DEF OnPage, NoRow, OffPage
  <2>4. CASE r \notin Page(cursor, list)
    <3>1. Holds(vault[r], list[r]) /\ active /\ vault[r].seen
      BY <2>2, <2>4, BeforePage
    <3>2. OffPage(r, list)
      BY <2>1, <2>4, <3>1, BatchRow DEF OnPage, NoRow, Holds
    <3>3. vault'[r] # Nothing
      BY <3>2, NothingApart DEF OffPage
    <3> QED
      BY <3>1, <3>2, <3>3 DEF Holds, OffPage
  <2> QED
    BY <2>3, <2>4
<1> QED
  BY <1>1, <1>2 DEF Stored

\* What a batch leaves published, it leaves as it was.
LEMMA BatchPublished ==
  ASSUME TypeOK, NEW list \in Listings, NEW full \in BOOLEAN, Stores(list, full),
         NEW r \in Records, vault'[r] # Nothing, vault'[r].published
  PROVE  /\ vault[r] # Nothing /\ vault[r].published
         /\ vault'[r].text = vault[r].text
         /\ vault'[r].tombstoned = vault[r].tombstoned
<1>1. CASE OnPage(r, list)
  BY <1>1, NothingApart DEF OnPage, Holds, Row
<1>2. CASE OffPage(r, list)
  BY <1>2, NothingApart DEF OffPage, Row
<1> QED
  BY <1>1, <1>2, BatchRow DEF NoRow

-----------------------------------------------------------------------------
(* Types *)

LEMMA RunTypes ==
  /\ NoCursor \in Cursors /\ Idle \in Run /\ Idle.pc = "idle"
  /\ [Idle EXCEPT !.pc = "pending"] \in Run
  /\ \A full \in BOOLEAN, c \in Cursors :
         [Idle EXCEPT !.pc = "scan", !.full = full, !.cursor = c] \in Run
  /\ \A P \in SUBSET Change : [Idle EXCEPT !.pc = "apply", !.pending = P] \in Run
<1>1. NoCursor \in Cursors /\ [r \in Records |-> Nothing] \in Listings
  BY DEF Cursors, Listings
<1>2. Idle \in Run
  BY <1>1 DEF Idle, Run
<1> QED
  BY <1>1, <1>2 DEF Idle, Run

\* What is pending is a set of changes that say what their rows say.
LEMMA PendingIsCurrent ==
  ASSUME TypeOK
  PROVE  PendingChanges \subseteq Change /\ \A c \in PendingChanges : Current(c)
<1>1. SUFFICES ASSUME NEW r \in Records, vault[r] # Nothing, NEW c,
                      c = [record |-> r, text |-> vault[r].text,
                           tombstone |-> vault[r].tombstoned \/ vault[r].text \in Done]
               PROVE  c \in Change /\ Current(c)
  BY DEF PendingChanges
<1>2. vault[r] \in Row
  BY <1>1 DEF TypeOK
<1>3. /\ vault[r].text \in Texts
      /\ (vault[r].tombstoned \/ vault[r].text \in Done) \in BOOLEAN
  BY <1>2 DEF Row
<1>4. c \in Change
  BY <1>1, <1>3 DEF Change
<1> QED
  BY <1>1, <1>4 DEF Current

LEMMA AppliedAgrees ==
  ASSUME NEW event \in Event \cup {Nothing}, NEW c \in Change, Current(c),
         NEW after, after = Applied(event, c)
  PROVE  after \in Event \cup {Nothing} /\ Agrees(after, vault[c.record])
<1>1. c.text \in Texts /\ c.tombstone \in BOOLEAN
  BY DEF Change
<1>2. CASE ~c.tombstone
  <2>1. after = [text |-> c.text, shown |-> TRUE]
    BY <1>2 DEF Applied
  <2>2. after \in Event
    BY <1>1, <2>1 DEF Event
  <2>3. ~(vault[c.record].tombstoned \/ vault[c.record].text \in Done)
    BY <1>2 DEF Current
  <2> QED
    BY <2>1, <2>2, <2>3 DEF Agrees, Current
<1>3. CASE c.tombstone
  <2>1. after \in Event \cup {Nothing} /\ (after = Nothing \/ ~after.shown)
    BY <1>3 DEF Applied, Event
  <2>2. vault[c.record].tombstoned \/ vault[c.record].text \in Done
    BY <1>3 DEF Current
  <2> QED
    BY <2>1, <2>2 DEF Agrees
<1> QED
  BY <1>1, <1>2, <1>3

-----------------------------------------------------------------------------
(* The steps *)

LEMMA InitInv == Init => IInv
<1> SUFFICES ASSUME Init PROVE IInv
  OBVIOUS
<1>1. TypeOK
  <2>1. listing \in Listings
    BY ScanAssumption DEF Init, Listings, Records, Texts
  <2>2. cursor \in Cursors /\ active = cursor.reconciling /\ active \in BOOLEAN
    BY RunTypes DEF Init, NoCursor
  <2>3. 0 \in 0..MaxEdits /\ 0 \in 0..MaxFull /\ 0 \in 0..MaxFaults
    BY ScanAssumption
  <2>4. runs \in [Scanners -> Run]
    BY RunTypes DEF Init
  <2>5. /\ vault \in [Records -> Row \cup {Nothing}]
        /\ inbox \in [Records -> Event \cup {Nothing}]
        /\ overtaken \subseteq Records
    BY DEF Init
  <2> QED
    BY <2>1, <2>2, <2>3, <2>4, <2>5 DEF TypeOK, Init
<1>2. Stored /\ PublishedMeansApplied
  BY DEF Stored, PublishedMeansApplied, Init
<1>3. \A s \in Scanners : runs[s].pc = "idle"
  BY RunTypes DEF Init
<1>4. Carried /\ ReadyToMark
  BY <1>3 DEF Carried, ReadyToMark, Publishing
<1> QED
  BY <1>1, <1>2, <1>4 DEF IInv

\* A step of one run that touches neither store keeps what the rows promise.
LEMMA QuietStep ==
  ASSUME IInv, TypeOK', UNCHANGED <<cursor, active, vault, inbox, overtaken>>,
         NEW s \in Scanners, NEW m, runs' = [runs EXCEPT ![s] = m],
         m.pc # "mark", m.pc = "apply" => \A c \in m.pending : Current(c)
  PROVE  IInv'
<1>1. \A q \in Scanners : runs'[q] = IF q = s THEN m ELSE runs[q]
  BY DEF IInv, TypeOK
<1>2. \A c : Current(c)' = Current(c)
  BY DEF Current
<1>3. Carried'
  <2> SUFFICES ASSUME NEW q \in Scanners, Publishing(q)', NEW c \in runs'[q].pending,
                      c.record \notin overtaken
               PROVE  Current(c)
    BY <1>2 DEF Carried
  <2>1. CASE q = s
    BY <1>1, <2>1 DEF Publishing
  <2>2. CASE q # s
    BY <1>1, <2>2 DEF Publishing, IInv, Carried
  <2> QED
    BY <2>1, <2>2
<1>4. ReadyToMark'
  BY <1>1 DEF ReadyToMark, IInv, Agrees
<1>5. Stored'
  BY DEF Stored, IInv, Holds
<1>6. PublishedMeansApplied'
  BY DEF PublishedMeansApplied, IInv, Agrees
<1> QED
  BY <1>3, <1>4, <1>5, <1>6 DEF IInv

LEMMA EditStep == IInv /\ Edit => IInv'
<1> SUFFICES ASSUME IInv, Edit PROVE IInv'
  OBVIOUS
<1>1. UNCHANGED <<cursor, active, vault, inbox, runs, overtaken, fulls, faults>>
  BY DEF Edit, store
<1>2. TypeOK'
  <2>1. listing' \in Listings
    BY DEF Edit, IInv, TypeOK, Listings
  <2>2. edits' \in 0..MaxEdits
    BY ScanAssumption DEF Edit, IInv, TypeOK
  <2> QED
    BY <1>1, <2>1, <2>2 DEF IInv, TypeOK
<1>3. Stored' /\ PublishedMeansApplied'
  BY <1>1 DEF IInv, Stored, Holds, PublishedMeansApplied, Agrees
<1>4. Carried'
  BY <1>1 DEF IInv, Carried, Publishing, Current
<1>5. ReadyToMark'
  BY <1>1 DEF IInv, ReadyToMark, Agrees
<1> QED
  BY <1>2, <1>3, <1>4, <1>5 DEF IInv

LEMMA ReadCursorStep == \A s \in Scanners : IInv /\ ReadCursor(s) => IInv'
<1> SUFFICES ASSUME NEW s \in Scanners, IInv, ReadCursor(s) PROVE IInv'
  OBVIOUS
<1>1. PICK full \in BOOLEAN :
         /\ full => fulls < MaxFull
         /\ fulls' = IF full THEN fulls + 1 ELSE fulls
         /\ runs' = [runs EXCEPT ![s] = [Idle EXCEPT !.pc = "scan", !.full = full, !.cursor = cursor]]
  BY DEF ReadCursor
<1> DEFINE m == [Idle EXCEPT !.pc = "scan", !.full = full, !.cursor = cursor]
<1>2. m \in Run /\ m.pc = "scan"
  BY RunTypes DEF IInv, TypeOK, Idle
<1>3. UNCHANGED <<listing, cursor, active, vault, inbox, overtaken, edits, faults>>
  BY DEF ReadCursor, store
<1>4. TypeOK'
  <2>1. fulls' \in 0..MaxFull
    BY <1>1, ScanAssumption DEF IInv, TypeOK
  <2>2. runs' \in [Scanners -> Run]
    BY <1>1, <1>2 DEF IInv, TypeOK
  <2> QED
    BY <1>3, <2>1, <2>2 DEF IInv, TypeOK
<1> HIDE DEF m
<1> QED
  BY <1>1, <1>2, <1>3, <1>4, QuietStep DEF m

LEMMA ScanStep == \A s \in Scanners : IInv /\ Scan(s) => IInv'
<1> SUFFICES ASSUME NEW s \in Scanners, IInv, Scan(s) PROVE IInv'
  OBVIOUS
<1> DEFINE m == [runs[s] EXCEPT !.pc = "commit", !.listing = listing]
<1>1. runs[s] \in Run /\ listing \in Listings
  BY DEF IInv, TypeOK
<1>2. m \in Run /\ m.pc = "commit"
  BY <1>1 DEF Run
<1>3. UNCHANGED <<listing, cursor, active, vault, inbox, overtaken, edits, fulls, faults>>
  BY DEF Scan, store
<1>4. runs' = [runs EXCEPT ![s] = m]
  BY DEF Scan, IInv, TypeOK
<1>5. TypeOK'
  BY <1>2, <1>3, <1>4 DEF IInv, TypeOK
<1> HIDE DEF m
<1> QED
  BY <1>2, <1>3, <1>4, <1>5, QuietStep

LEMMA ConflictStep == \A s \in Scanners : IInv /\ Conflict(s) => IInv'
<1> SUFFICES ASSUME NEW s \in Scanners, IInv, Conflict(s) PROVE IInv'
  OBVIOUS
<1> DEFINE m == IF runs[s].retried THEN Idle
                ELSE [runs[s] EXCEPT !.pc = "scan", !.cursor = cursor, !.retried = TRUE]
<1>1. runs[s] \in Run /\ cursor \in Cursors
  BY DEF IInv, TypeOK
<1>2. m \in Run /\ m.pc \in {"idle", "scan"}
  BY <1>1, RunTypes DEF Run
<1>3. UNCHANGED <<listing, cursor, active, vault, inbox, overtaken, edits, fulls, faults>>
  BY DEF Conflict, store
<1>4. runs' = [runs EXCEPT ![s] = m]
  BY DEF Conflict
<1>5. TypeOK'
  BY <1>2, <1>3, <1>4 DEF IInv, TypeOK
<1> HIDE DEF m
<1> QED
  BY <1>2, <1>3, <1>4, <1>5, QuietStep

LEMMA ReadPendingStep == \A s \in Scanners : IInv /\ ReadPending(s) => IInv'
<1> SUFFICES ASSUME NEW s \in Scanners, IInv, ReadPending(s) PROVE IInv'
  OBVIOUS
<1> DEFINE m == IF PendingChanges = {} THEN Idle
                ELSE [Idle EXCEPT !.pc = "apply", !.pending = PendingChanges]
<1>1. PendingChanges \in SUBSET Change /\ \A c \in PendingChanges : Current(c)
  BY PendingIsCurrent DEF IInv
<1>2. m \in Run /\ m.pc # "mark" /\ (m.pc = "apply" => \A c \in m.pending : Current(c))
  <2>1. CASE PendingChanges = {}
    BY <2>1, RunTypes
  <2>2. CASE PendingChanges # {}
    <3>1. m = [Idle EXCEPT !.pc = "apply", !.pending = PendingChanges]
      BY <2>2
    <3>2. m.pc = "apply" /\ m.pending = PendingChanges
      BY <3>1 DEF Idle
    <3> QED
      BY <1>1, <3>1, <3>2, RunTypes
  <2> QED
    BY <2>1, <2>2
<1>3. UNCHANGED <<listing, cursor, active, vault, inbox, overtaken, edits, fulls, faults>>
  BY DEF ReadPending, store
<1>4. runs' = [runs EXCEPT ![s] = m]
  BY DEF ReadPending
<1>5. TypeOK'
  BY <1>2, <1>3, <1>4 DEF IInv, TypeOK
<1> HIDE DEF m
<1> QED
  BY <1>2, <1>3, <1>4, <1>5, QuietStep

LEMMA FailStep == \A s \in Scanners : IInv /\ Fail(s) => IInv'
<1> SUFFICES ASSUME NEW s \in Scanners, IInv, Fail(s) PROVE IInv'
  OBVIOUS
<1>1. UNCHANGED <<listing, cursor, active, vault, inbox, overtaken, edits, fulls>>
  BY DEF Fail, store
<1>2. runs' = [runs EXCEPT ![s] = Idle]
  BY DEF Fail
<1>3. faults' \in 0..MaxFaults
  BY ScanAssumption DEF Fail, IInv, TypeOK
<1>4. TypeOK'
  BY <1>1, <1>2, <1>3, RunTypes DEF IInv, TypeOK
<1> QED
  BY <1>1, <1>2, <1>4, RunTypes, QuietStep

\* What a batch changes under a publication is overtaken, what it leaves alone the
\* publishing run still carries; the committing run itself has nothing read yet.
LEMMA CommitStep == \A s \in Scanners : IInv /\ Commit(s) => IInv'
<1> SUFFICES ASSUME NEW s \in Scanners, IInv, Commit(s) PROVE IInv'
  OBVIOUS
<1> DEFINE m == [Idle EXCEPT !.pc = "pending"]
           list == runs[s].listing
           full == runs[s].full
<1>1. /\ runs[s] \in Run /\ list \in Listings /\ full \in BOOLEAN
      /\ runs[s].cursor = cursor
  BY DEF IInv, TypeOK, Run, Commit, SameCursor
<1>2. m \in Run /\ m.pc = "pending"
  BY RunTypes DEF Idle
<1>3. /\ runs' = [runs EXCEPT ![s] = m]
      /\ UNCHANGED <<listing, inbox, edits, fulls, faults>>
      /\ StoreBatch(cursor, list, full)
      /\ overtaken' = {r \in Records : Overtaking(r)}
  BY <1>1 DEF Commit
<1>4. runs' \in [Scanners -> Run]
  BY <1>2, <1>3 DEF IInv, TypeOK
<1>5. ASSUME NEW q \in Scanners, Publishing(q)'
      PROVE  q # s /\ runs'[q] = runs[q] /\ Publishing(q)
  BY <1>2, <1>3, <1>5 DEF Publishing, IInv, TypeOK
<1> HIDE DEF m, list, full
<1>6. TypeOK' /\ Stored'
  <2>1. CASE Unchanged(cursor, list, full)
    <3>1. UNCHANGED <<cursor, active, vault>>
      BY <1>3, <2>1 DEF StoreBatch, store
    <3>2. TypeOK'
      BY <1>3, <1>4, <3>1 DEF IInv, TypeOK
    <3> QED
      BY <3>1, <3>2 DEF IInv, Stored, Holds
  <2>2. CASE ~Unchanged(cursor, list, full)
    <3>1. Stores(list, full) /\ TypeOK /\ Stored
      BY <1>3, <2>2 DEF Stores, IInv
    <3> QED
      BY <1>1, <1>3, <1>4, <3>1, BatchStore, BatchStored DEF TypeOK
  <2> QED
    BY <2>1, <2>2
<1>7. ASSUME NEW r \in Records
      PROVE  /\ vault[r] # Nothing => vault'[r] # Nothing
             /\ vault'[r] # Nothing /\ vault'[r].published =>
                    /\ vault[r] # Nothing /\ vault[r].published
                    /\ vault'[r].text = vault[r].text
                    /\ vault'[r].tombstoned = vault[r].tombstoned
  <2>1. CASE Unchanged(cursor, list, full)
    BY <1>3, <2>1 DEF StoreBatch, store
  <2>2. CASE ~Unchanged(cursor, list, full)
    <3>1. Stores(list, full) /\ TypeOK
      BY <1>3, <2>2 DEF Stores, IInv
    <3>2. OnPage(r, list) \/ NoRow(r, list) \/ OffPage(r, list)
      BY <1>1, <3>1, BatchRow
    <3>3. vault[r] # Nothing => vault'[r] # Nothing
      BY <3>2, NothingApart DEF OnPage, NoRow, OffPage
    <3> QED
      BY <1>1, <3>1, <3>3, BatchPublished
  <2> QED
    BY <2>1, <2>2
<1>8. ASSUME NEW q \in Scanners, Publishing(q)', NEW c \in runs'[q].pending,
             c.record \notin overtaken'
      PROVE  /\ Publishing(q) /\ c \in runs[q].pending
             /\ c.record \in Records /\ c.record \notin overtaken
             /\ vault'[c.record].text = vault[c.record].text
             /\ vault'[c.record].tombstoned = vault[c.record].tombstoned
  <2>1. Publishing(q) /\ c \in runs[q].pending
    BY <1>5, <1>8
  <2>2. c.record \in Records
    BY <2>1 DEF IInv, TypeOK, Run, Change
  <2>3. UnderWay(c.record)
    BY <2>1 DEF UnderWay
  <2>4. c.record \notin overtaken /\ Says(vault'[c.record]) = Says(vault[c.record])
    BY <1>3, <1>8, <2>2, <2>3 DEF Overtaking
  <2> QED
    BY <2>1, <2>2, <2>4 DEF Says
<1>9. Carried'
  <2> SUFFICES ASSUME NEW q \in Scanners, Publishing(q)', NEW c \in runs'[q].pending,
                      c.record \notin overtaken'
               PROVE  Current(c)'
    BY DEF Carried
  <2>1. Current(c)
    BY <1>8 DEF IInv, Carried
  <2> QED
    BY <1>7, <1>8, <2>1 DEF Current
<1>10. ReadyToMark'
  <2> SUFFICES ASSUME NEW q \in Scanners, runs'[q].pc = "mark", NEW c \in runs'[q].pending,
                      c.record \notin overtaken'
               PROVE  Agrees(inbox'[c.record], vault'[c.record])
    BY DEF ReadyToMark
  <2>1. Publishing(q)'
    BY DEF Publishing
  <2>2. runs[q].pc = "mark" /\ c \in runs[q].pending
    BY <1>5, <2>1
  <2>3. Agrees(inbox[c.record], vault[c.record])
    BY <1>8, <2>1, <2>2 DEF IInv, ReadyToMark
  <2> QED
    BY <1>3, <1>8, <2>1, <2>3 DEF Agrees
<1>11. PublishedMeansApplied'
  <2> SUFFICES ASSUME NEW r \in Records, r \notin overtaken',
                      vault'[r] # Nothing, vault'[r].published
               PROVE  Agrees(inbox'[r], vault'[r])
    BY DEF PublishedMeansApplied
  <2>1. r \notin overtaken
    BY <1>3 DEF Overtaking
  <2>2. Agrees(inbox[r], vault[r])
    BY <1>7, <2>1 DEF IInv, PublishedMeansApplied
  <2> QED
    BY <1>3, <1>7, <2>2 DEF Agrees
<1> QED
  BY <1>6, <1>9, <1>10, <1>11 DEF IInv

LEMMA ApplyStep == \A s \in Scanners : IInv /\ ApplyChanges(s) => IInv'
<1> SUFFICES ASSUME NEW s \in Scanners, IInv, ApplyChanges(s) PROVE IInv'
  OBVIOUS
<1> DEFINE Touched(r) == \E c \in runs[s].pending : c.record = r
           Chosen(r) == CHOOSE c \in runs[s].pending : c.record = r
<1>1. /\ runs[s] \in Run /\ runs[s].pc = "apply" /\ runs[s].pending \subseteq Change
      /\ inbox \in [Records -> Event \cup {Nothing}]
  BY DEF IInv, TypeOK, Run, ApplyChanges
<1>2. UNCHANGED <<listing, cursor, active, vault, overtaken, edits, fulls, faults>>
  BY DEF ApplyChanges, store
<1>3. /\ runs' \in [Scanners -> Run]
      /\ runs'[s].pc = "mark"
      /\ \A q \in Scanners : runs'[q].pending = runs[q].pending
      /\ \A q \in Scanners : q # s => runs'[q].pc = runs[q].pc
  BY <1>1 DEF ApplyChanges, IInv, TypeOK, Run
<1>4. inbox' = [r \in Records |-> IF Touched(r) THEN Applied(inbox[r], Chosen(r)) ELSE inbox[r]]
  BY DEF ApplyChanges
<1>5. ASSUME NEW r \in Records, Touched(r)
      PROVE  Chosen(r) \in runs[s].pending /\ Chosen(r) \in Change /\ Chosen(r).record = r
  BY <1>1, <1>5
<1>6. \A r \in Records : inbox'[r] = IF Touched(r) THEN Applied(inbox[r], Chosen(r)) ELSE inbox[r]
  BY <1>4
<1> HIDE DEF Touched, Chosen
<1>7. ASSUME NEW r \in Records, NEW c \in Change, c.record = r
      PROVE  Applied(inbox[r], c) \in Event \cup {Nothing}
  BY <1>1, <1>7 DEF Applied, Event, Change
<1>8. TypeOK'
  <2>1. inbox' \in [Records -> Event \cup {Nothing}]
    BY <1>1, <1>4, <1>5, <1>7
  <2> QED
    BY <1>2, <1>3, <2>1 DEF IInv, TypeOK
<1>9. ASSUME NEW r \in Records, r \notin overtaken, Touched(r)
      PROVE  Agrees(inbox'[r], vault[r])
  <2>1. Current(Chosen(r))
    BY <1>1, <1>5, <1>9 DEF IInv, Carried, Publishing
  <2>2. inbox'[r] = Applied(inbox[r], Chosen(r)) /\ inbox[r] \in Event \cup {Nothing}
    BY <1>1, <1>6, <1>9
  <2> QED
    BY <1>5, <1>9, <2>1, <2>2, AppliedAgrees
<1>10. ASSUME NEW r \in Records, ~Touched(r) PROVE inbox'[r] = inbox[r]
  BY <1>6, <1>10
<1>11. Stored'
  BY <1>2 DEF Stored, IInv, Holds
<1>12. \A c : Current(c)' = Current(c)
  BY <1>2 DEF Current
<1>13. Carried'
  <2>1. ASSUME NEW q \in Scanners, runs'[q].pc \in {"apply", "mark"},
               NEW c \in runs'[q].pending, c.record \notin overtaken
        PROVE  Current(c)
    <3>1. runs[q].pc \in {"apply", "mark"} /\ c \in runs[q].pending
      BY <1>1, <1>3, <2>1
    <3> QED
      BY <2>1, <3>1 DEF IInv, Carried, Publishing
  <2>2. ASSUME NEW q \in Scanners, Publishing(q)', NEW c \in runs'[q].pending,
               c.record \notin overtaken'
        PROVE  Current(c)'
    BY <1>2, <1>12, <2>1, <2>2 DEF Publishing
  <2> QED
    BY <2>2 DEF Carried
<1>14. ReadyToMark'
  <2>1. ASSUME NEW q \in Scanners, runs'[q].pc = "mark", NEW c \in runs'[q].pending,
               c.record \notin overtaken
        PROVE  Agrees(inbox'[c.record], vault[c.record])
    <3>1. c \in runs[q].pending
      BY <1>3, <2>1
    <3>2. c.record \in Records
      BY <3>1 DEF IInv, TypeOK, Run, Change
    <3>3. CASE Touched(c.record)
      BY <1>9, <2>1, <3>2, <3>3
    <3>4. CASE ~Touched(c.record)
      <4>1. q # s
        BY <3>1, <3>4 DEF Touched
      <4>2. runs[q].pc = "mark"
        BY <1>3, <2>1, <4>1
      <4>3. Agrees(inbox[c.record], vault[c.record])
        BY <2>1, <3>1, <4>2 DEF IInv, ReadyToMark
      <4>4. inbox'[c.record] = inbox[c.record]
        BY <1>10, <2>1, <3>2, <3>4
      <4> QED
        BY <4>3, <4>4
    <3> QED
      BY <3>3, <3>4
  <2>2. ASSUME NEW q \in Scanners, runs'[q].pc = "mark", NEW c \in runs'[q].pending,
               c.record \notin overtaken'
        PROVE  Agrees(inbox[c.record], vault[c.record])'
    BY <1>2, <2>1, <2>2 DEF Agrees
  <2> QED
    BY <2>2 DEF ReadyToMark
<1>15. PublishedMeansApplied'
  <2> SUFFICES ASSUME NEW r \in Records, r \notin overtaken,
                      vault[r] # Nothing, vault[r].published
               PROVE  Agrees(inbox'[r], vault[r])
    BY <1>2 DEF PublishedMeansApplied, Agrees
  <2> QED
    BY <1>9, <1>10 DEF IInv, PublishedMeansApplied
<1> QED
  BY <1>8, <1>11, <1>13, <1>14, <1>15 DEF IInv

LEMMA MarkStep == \A s \in Scanners : IInv /\ MarkPublished(s) => IInv'
<1> SUFFICES ASSUME NEW s \in Scanners, IInv, MarkPublished(s) PROVE IInv'
  OBVIOUS
<1>1. UNCHANGED <<listing, cursor, active, inbox, overtaken, edits, fulls, faults>>
  BY DEF MarkPublished
<1>2. runs[s].pc = "mark" /\ runs' = [runs EXCEPT ![s] = Idle]
  BY DEF MarkPublished
<1>3. vault \in [Records -> Row \cup {Nothing}]
  BY DEF IInv, TypeOK
<1>4. ASSUME NEW r \in Records
      PROVE  /\ vault'[r] \in Row \cup {Nothing}
             /\ (vault'[r] = Nothing) = (vault[r] = Nothing)
             /\ vault[r] # Nothing =>
                    /\ vault'[r].text = vault[r].text
                    /\ vault'[r].tombstoned = vault[r].tombstoned
                    /\ vault'[r].seen = vault[r].seen
             /\ vault[r] # Nothing /\ vault'[r].published =>
                    vault[r].published \/ r \in Marked(runs[s].pending)
  <2>1. vault'[r] = IF r \in Marked(runs[s].pending) /\ vault[r] # Nothing
                    THEN [vault[r] EXCEPT !.published = TRUE] ELSE vault[r]
    BY DEF MarkPublished
  <2>2. CASE r \in Marked(runs[s].pending) /\ vault[r] # Nothing
    <3>1. vault'[r] = [vault[r] EXCEPT !.published = TRUE] /\ vault[r] \in Row
      BY <1>3, <2>1, <2>2
    <3>2. vault'[r] \in Row
      BY <3>1 DEF Row
    <3> QED
      BY <2>2, <3>1, <3>2, NothingApart DEF Row
  <2>3. CASE ~(r \in Marked(runs[s].pending) /\ vault[r] # Nothing)
    BY <1>3, <2>1, <2>3
  <2> QED
    BY <2>2, <2>3
<1>5. TypeOK'
  <2>1. vault' = [r \in Records |-> vault'[r]]
    BY DEF MarkPublished
  <2>2. vault' \in [Records -> Row \cup {Nothing}]
    BY <1>4, <2>1
  <2> QED
    BY <1>1, <1>2, <2>2, RunTypes DEF IInv, TypeOK
<1>6. \A r \in Records : vault[r] # Nothing =>
        \A event : Agrees(event, vault'[r]) = Agrees(event, vault[r])
  BY <1>4 DEF Agrees
<1>7. Stored'
  BY <1>1, <1>4 DEF IInv, Stored, Holds, Listed
<1>8. \A q \in Scanners : runs'[q] = IF q = s THEN Idle ELSE runs[q]
  BY <1>2 DEF IInv, TypeOK
<1>9. Carried'
  <2> SUFFICES ASSUME NEW q \in Scanners, q # s, Publishing(q), NEW c \in runs[q].pending,
                      c.record \notin overtaken
               PROVE  Current(c)'
    BY <1>1, <1>8, RunTypes DEF Carried, Publishing
  <2>1. c.record \in Records /\ Current(c)
    BY DEF IInv, TypeOK, Run, Change, Carried
  <2> QED
    BY <1>4, <2>1 DEF Current
<1>10. ReadyToMark'
  <2> SUFFICES ASSUME NEW q \in Scanners, q # s, runs[q].pc = "mark",
                      NEW c \in runs[q].pending, c.record \notin overtaken
               PROVE  Agrees(inbox[c.record], vault'[c.record])
    BY <1>1, <1>8, RunTypes DEF ReadyToMark, Agrees
  <2>1. c.record \in Records /\ Current(c) /\ Agrees(inbox[c.record], vault[c.record])
    BY DEF IInv, TypeOK, Run, Change, Carried, ReadyToMark, Publishing
  <2> QED
    BY <1>6, <2>1 DEF Current
<1>11. PublishedMeansApplied'
  <2> SUFFICES ASSUME NEW r \in Records, r \notin overtaken,
                      vault[r] # Nothing, vault'[r].published
               PROVE  Agrees(inbox[r], vault[r])
    BY <1>1, <1>4, <1>6 DEF PublishedMeansApplied, Agrees
  <2>1. CASE vault[r].published
    BY <2>1 DEF IInv, PublishedMeansApplied
  <2>2. CASE r \in Marked(runs[s].pending)
    BY <1>2, <2>2 DEF IInv, ReadyToMark, Marked
  <2> QED
    BY <1>4, <2>1, <2>2
<1> QED
  BY <1>5, <1>7, <1>9, <1>10, <1>11 DEF IInv

-----------------------------------------------------------------------------
(* Theorems *)

\* Every step keeps the types, what the vault holds of the cursor's listing, that
\* changes on their way to the inbox say what their rows say and that marked rows
\* were applied, for every record that no batch has overtaken on its way.
THEOREM InvariantHolds == Spec => []IInv
<1>1. Init => IInv
  BY InitInv
<1>2. IInv /\ [Next]_vars => IInv'
  <2> SUFFICES ASSUME IInv, [Next]_vars PROVE IInv'
    OBVIOUS
  <2>1. CASE Edit
    BY <2>1, EditStep
  <2>2. ASSUME NEW s \in Scanners, Step(s) PROVE IInv'
    BY <2>2, ReadCursorStep, ScanStep, CommitStep, ConflictStep, ReadPendingStep,
       ApplyStep, MarkStep DEF Step
  <2>3. ASSUME NEW s \in Scanners, Fail(s) PROVE IInv'
    BY <2>3, FailStep
  <2>4. CASE UNCHANGED vars
    BY <2>4 DEF vars, store, IInv, TypeOK, Stored, Holds, Carried, Publishing, Current,
                ReadyToMark, PublishedMeansApplied, Agrees
  <2> QED
    BY <2>1, <2>2, <2>3, <2>4 DEF Next
<1> QED
  BY <1>1, <1>2, PTL DEF Spec

\* Every variable has its type, and a reconciliation generation is open in the
\* database exactly while the stored cursor says so.
THEOREM TypeCorrect == Spec => []TypeOK
<1>1. IInv => TypeOK
  BY DEF IInv
<1> QED
  BY <1>1, InvariantHolds, PTL

\* When no reconciliation is under way, the vault holds every record of the
\* listing the cursor was made from, live and with its text: an unchanged listing
\* may be skipped.
THEOREM ReconciledStored == Spec => []ReconciledIsStored
<1>1. IInv => ReconciledIsStored
  BY DEF IInv, Stored, Holds, ReconciledIsStored
<1> QED
  BY <1>1, InvariantHolds, PTL

\* A row that is marked published is what the inbox says, whichever runs failed or
\* were killed on the way, for every record but those a batch has overtaken: changed
\* while another run carried what they said before, and not again since.
THEOREM PublishedApplied == Spec => []PublishedMeansApplied
<1>1. IInv => PublishedMeansApplied
  BY DEF IInv
<1> QED
  BY <1>1, InvariantHolds, PTL

\* No row is made a tombstone but by a batch that closes a generation with a
\* listing its record is absent from.
THEOREM TombstonesAbsent == Spec => TombstonesOnlyAbsent
<1>1. ASSUME IInv, [Next]_vars, NEW r \in Records,
             vault[r] # Nothing, ~vault[r].tombstoned, vault'[r].tombstoned
      PROVE  cursor'.sig[r] = Nothing /\ ~cursor'.reconciling
  <2>1. ASSUME NEW s \in Scanners, Commit(s)
        PROVE  cursor'.sig[r] = Nothing /\ ~cursor'.reconciling
    <3> DEFINE list == runs[s].listing
               full == runs[s].full
    <3>1. /\ list \in Listings /\ full \in BOOLEAN /\ TypeOK /\ Stored
          /\ StoreBatch(cursor, list, full)
      BY <1>1, <2>1 DEF IInv, TypeOK, Run, Commit, SameCursor
    <3> HIDE DEF list, full
    <3>2. Stores(list, full)
      BY <1>1, <3>1 DEF Stores, StoreBatch, store
    <3> QED
      BY <1>1, <3>1, <3>2, BatchTombstones
  <2>2. ASSUME NEW s \in Scanners, MarkPublished(s)
        PROVE  FALSE
    <3>1. vault'[r] = IF r \in Marked(runs[s].pending) /\ vault[r] # Nothing
                      THEN [vault[r] EXCEPT !.published = TRUE] ELSE vault[r]
      BY <2>2 DEF MarkPublished
    <3>2. vault[r] \in Row
      BY <1>1 DEF IInv, TypeOK
    <3> QED
      BY <1>1, <3>1, <3>2 DEF Row
  <2>3. vault' = vault \/ \E s \in Scanners : Commit(s) \/ MarkPublished(s)
    BY <1>1 DEF Next, Step, Edit, ReadCursor, Scan, Conflict, ReadPending, ApplyChanges, Fail,
                vars, store
  <2> QED
    BY <1>1, <2>1, <2>2, <2>3
<1>2. IInv /\ [Next]_vars =>
        [\A r \in Records : vault[r] # Nothing /\ ~vault[r].tombstoned /\ vault'[r].tombstoned
             => cursor'.sig[r] = Nothing /\ ~cursor'.reconciling]_vars
  BY <1>1
<1> QED
  BY <1>2, InvariantHolds, PTL DEF Spec, TombstonesOnlyAbsent
=============================================================================
