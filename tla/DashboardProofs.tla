----------------------------- MODULE DashboardProofs -----------------------------
(***************************************************************************)
(* The lighter panels of the workspace, for every number of items, keys,   *)
(* tabs, sign-ins and sessions: a step of one panel leaves the others, so  *)
(* that the invariant of each is proved by itself.                         *)
(***************************************************************************)
EXTENDS Dashboard, FiniteSetTheorems, TLAPS

--------------------------------------------------------------------------------
(* HistoryPage *)

HistoryRecord ==
  [filter : Filters, items : SUBSET HistoryItems, more : BOOLEAN, selected : ItemOrNone,
   detail : ItemOrNone, loading : BOOLEAN, detailLoading : BOOLEAN, error : BOOLEAN]

\* A detail of another item than the selected one gives way, unless an error or an empty
\* selection hides both.
MixedGivesWay ==
  \/ history.detail \in {NoItem, history.selected}
  \/ DetailToCome \/ history.error \/ history.selected = NoItem

\* Once a selection has taken effect, only the selected item is being opened.
HistoryInv ==
  /\ HistoryTypeOK
  /\ effectDue => listing = "over"
  /\ effectDue \/ opening \subseteq {history.selected} \ {NoItem}
  /\ MixedGivesWay

\* Nothing is selected at first.
LEMMA HistoryInitInv == HistoryInit => HistoryInv
  <1> SUFFICES ASSUME HistoryInit PROVE HistoryInv
    OBVIOUS
  <1>1. history \in HistoryRecord /\ history.detail = NoItem
    BY HistoryAssumption DEF HistoryInit, HistoryRecord, ItemOrNone
  <1>2. older \in [OlderIds -> Filters \cup {NoFilter}]
    BY DEF HistoryInit, NoFilter
  <1> QED
    BY <1>1, <1>2 DEF HistoryInit, HistoryInv, HistoryTypeOK, HistoryRecord, MixedGivesWay

\* A selection that takes effect at once leaves no other detail to come.
LEMMA SelectionInv ==
  ASSUME HistoryInv, history' \in HistoryRecord, opening' = Opening(history'.selected),
         effectDue' = FALSE, listing' \in {"typing", "sent", "over"}, older' = older
  PROVE  HistoryInv'
  <1>1. opening' = {history'.selected} \ {NoItem}
    BY DEF Opening
  <1> QED
    BY <1>1 DEF HistoryInv, HistoryTypeOK, HistoryRecord, MixedGivesWay, DetailToCome, ItemOrNone

\* A step that selects nothing else and opens nothing.
LEMMA SelectionStays ==
  ASSUME HistoryInv, history' \in HistoryRecord, history'.selected = history.selected,
         history.error => history'.error,
         \/ history'.detail = history.detail /\ opening' = opening
         \/ history'.detail \in {NoItem, history.selected} \/ effectDue \/ history'.error,
         opening' \subseteq opening, effectDue' = effectDue,
         listing' \in {"typing", "sent", "over"}, effectDue => listing' = "over",
         older' \in [OlderIds -> Filters \cup {NoFilter}]
  PROVE  HistoryInv'
  BY DEF HistoryInv, HistoryTypeOK, HistoryRecord, MixedGivesWay, DetailToCome

\* Every step of the history page.
LEMMA HistoryNextInv == HistoryInv /\ [HistoryNext]_historyVars => HistoryInv'
  <1> SUFFICES ASSUME HistoryInv, [HistoryNext]_historyVars PROVE HistoryInv'
    OBVIOUS
  <1> USE HistoryAssumption
  <1>0. /\ history \in HistoryRecord /\ effectDue \in BOOLEAN
        /\ listing \in {"typing", "sent", "over"} /\ opening \subseteq HistoryItems
        /\ older \in [OlderIds -> Filters \cup {NoFilter}]
        /\ effectDue => listing = "over"
        /\ effectDue \/ opening \subseteq {history.selected} \ {NoItem}
        /\ NoItem \in ItemOrNone /\ HistoryItems \subseteq ItemOrNone
    BY DEF HistoryInv, HistoryTypeOK, HistoryRecord, ItemOrNone
  <1>1. CASE UNCHANGED historyVars
    BY <1>0, <1>1, SelectionStays DEF historyVars, HistoryRecord
  <1>2. ASSUME NEW filter \in Filters, ChangeFilter(filter)
        PROVE  HistoryInv'
    BY <1>0, <1>2, SelectionStays DEF ChangeFilter, HistoryRecord
  <1>3. CASE TypingEnds
    BY <1>0, <1>3, SelectionStays DEF TypingEnds, HistoryRecord
  <1>4. CASE HistoryFails
    BY <1>0, <1>4, SelectionStays DEF HistoryFails, HistoryRecord
  <1>5. ASSUME NEW found \in SUBSET HistoryItems, NEW first \in ItemOrNone,
               LandHistory(found, first)
        PROVE  HistoryInv'
    <2>1. PICK more \in BOOLEAN :
            history' = [history EXCEPT !.items = found, !.more = more, !.loading = FALSE,
                                       !.selected = first, !.detail = NoItem,
                                       !.detailLoading = TRUE]
      BY <1>5 DEF LandHistory
    <2>2. /\ listing' = "over" /\ UNCHANGED <<opening, older>>
          /\ effectDue' = ({history.selected, first} # {NoItem})
      BY <1>5 DEF LandHistory
    <2>3. /\ history' \in HistoryRecord
          /\ history'.selected = first /\ history'.detail = NoItem
      BY <1>0, <2>1 DEF HistoryRecord
    <2>4. effectDue' \/ opening' \subseteq {history'.selected} \ {NoItem}
      <3>1. CASE effectDue'
        BY <3>1
      <3>2. CASE ~ effectDue'
        <4>1. history.selected = NoItem /\ first = NoItem /\ ~ effectDue
          BY <1>0, <1>5, <2>2, <3>2 DEF LandHistory
        <4> QED
          BY <1>0, <2>2, <4>1
      <3> QED
        BY <3>1, <3>2
    <2> QED
      BY <1>0, <2>2, <2>3, <2>4 DEF HistoryInv, HistoryTypeOK, HistoryRecord, MixedGivesWay
  <1>6. ASSUME NEW item \in HistoryItems, SelectItem(item)
        PROVE  HistoryInv'
    <2>1. CASE item = history.selected
      <3>1. /\ history' = [history EXCEPT !.detail = NoItem, !.detailLoading = TRUE]
            /\ UNCHANGED <<opening, listing, effectDue, older>>
        BY <1>6, <2>1 DEF SelectItem
      <3>2. /\ history' \in HistoryRecord /\ history'.error = history.error
            /\ history'.selected = history.selected /\ history'.detail = NoItem
        BY <1>0, <3>1 DEF HistoryRecord
      <3> QED
        BY <1>0, <3>1, <3>2, SelectionStays
    <2>2. CASE item # history.selected
      <3> DEFINE hidden == AbortedDetailLoading(TRUE)
      <3>1. hidden \in BOOLEAN /\ item \in ItemOrNone
        BY DEF AbortedDetailLoading, ItemOrNone
      <3>2. /\ history' = [history EXCEPT !.selected = item, !.detail = NoItem,
                                          !.detailLoading = hidden]
            /\ opening' = Opening(item) /\ UNCHANGED <<listing, effectDue, older>>
            /\ ~ effectDue
        BY <1>6, <2>2 DEF SelectItem
      <3> HIDE DEF hidden
      <3>3. history' \in HistoryRecord /\ history'.selected = item
        BY <1>0, <3>1, <3>2 DEF HistoryRecord
      <3> QED
        BY <1>0, <3>2, <3>3, SelectionInv
    <2> QED
      BY <2>1, <2>2
  <1>7. ASSUME NEW item \in HistoryItems, LandDetail(item)
        PROVE  HistoryInv'
    <2>1. /\ history' = [history EXCEPT !.detail = item, !.detailLoading = FALSE]
          /\ opening' = opening \ {item} /\ item \in opening
          /\ UNCHANGED <<listing, effectDue, older>>
      BY <1>7 DEF LandDetail
    <2>2. /\ history' \in HistoryRecord /\ history'.error = history.error
          /\ history'.selected = history.selected /\ history'.detail = item
      BY <1>0, <2>1 DEF HistoryRecord
    <2>3. effectDue \/ item = history.selected
      BY <1>0, <2>1
    <2> QED
      BY <1>0, <2>1, <2>2, <2>3, SelectionStays
  <1>8. ASSUME NEW item \in HistoryItems, DetailFails(item)
        PROVE  HistoryInv'
    BY <1>0, <1>8, SelectionStays DEF DetailFails, HistoryRecord
  <1>9. ASSUME NEW n \in OlderIds, LoadOlder(n) \/ OlderFails(n)
        PROVE  HistoryInv'
    BY <1>0, <1>9, SelectionStays DEF LoadOlder, OlderFails, HistoryRecord
  <1>10. ASSUME NEW n \in OlderIds, NEW found \in SUBSET HistoryItems, LandOlder(n, found)
         PROVE  HistoryInv'
    <2>1. PICK more \in BOOLEAN :
            history' = [history EXCEPT !.items = @ \cup found, !.more = more]
      BY <1>10 DEF LandOlder
    <2> QED
      BY <1>0, <1>10, <2>1, SelectionStays DEF LandOlder, HistoryRecord
  <1>11. CASE SelectionTakesEffect
    <2> DEFINE hidden == AbortedDetailLoading(history.detailLoading)
    <2>1. hidden \in BOOLEAN
      BY <1>0 DEF AbortedDetailLoading, HistoryRecord
    <2>2. /\ history' = [history EXCEPT !.detailLoading = hidden] /\ effectDue' = FALSE
          /\ opening' = Opening(history.selected) /\ UNCHANGED <<listing, older>>
      BY <1>11 DEF SelectionTakesEffect
    <2> HIDE DEF hidden
    <2>3. history' \in HistoryRecord /\ history'.selected = history.selected
      BY <1>0, <2>1, <2>2 DEF HistoryRecord
    <2> QED
      BY <1>0, <2>2, <2>3, SelectionInv
  <1> QED
    BY <1>1, <1>2, <1>3, <1>4, <1>5, <1>6, <1>7, <1>8, <1>9, <1>10, <1>11 DEF HistoryNext

--------------------------------------------------------------------------------
(* MigrationInbox *)

\* The natural numbers are well-ordered.
LEMMA LeastNatural ==
  ASSUME NEW S \in SUBSET Nat, S # {}
  PROVE  \E n \in S : \A m \in S : n <= m
  <1> DEFINE less == {pair \in Nat \X Nat : pair[1] < pair[2]}
  <1>1. IsWellFoundedOn(less, Nat)
    BY NatLessThanWellFounded DEF OpToRel
  <1>2. \A m, n \in Nat : m < n => <<m, n>> \in less
    OBVIOUS
  <1> HIDE DEF less
  <1>3. PICK n \in S : \A m \in S : ~ (<<m, n>> \in less)
    BY <1>1, WFMin
  <1>4. ASSUME NEW m \in S PROVE n <= m
    <2>1. m \in Nat /\ n \in Nat /\ ~ (<<m, n>> \in less)
      BY <1>3
    <2> QED
      BY <2>1, <1>2
  <1> QED
    BY <1>4

\* A bounded set has a largest key.
LEMMA LargestKey ==
  ASSUME NEW S \in SUBSET RowKeys, S # {}
  PROVE  \E k \in S : \A j \in S : j <= k
  <1> DEFINE T == {MaxKey - k : k \in S}
  <1>0. \A k \in S : MaxKey - k \in Nat
    BY InboxAssumption DEF RowKeys
  <1>1. T \in SUBSET Nat /\ T # {}
    BY <1>0
  <1>2. PICK n \in T : \A m \in T : n <= m
    BY <1>1, LeastNatural
  <1>3. PICK k \in S : n = MaxKey - k
    BY <1>2
  <1>4. ASSUME NEW j \in S PROVE j <= k
    <2>1. MaxKey - j \in T
      OBVIOUS
    <2>2. n <= MaxKey - j
      BY <1>2, <2>1
    <2> QED
      BY <1>3, <2>2, InboxAssumption DEF RowKeys
  <1> QED
    BY <1>4

\* The rows that are left are finitely many, as are those above one of them.
LEMMA FiniteKeys ==
  ASSUME NEW S \in SUBSET RowKeys
  PROVE  /\ IsFiniteSet(S) /\ Cardinality(S) \in Nat
         /\ \A T \in SUBSET S :
              /\ Cardinality(T) \in Nat /\ Cardinality(T) <= Cardinality(S)
              /\ Cardinality(T) = Cardinality(S) => T = S
  <1>1. IsFiniteSet(RowKeys)
    BY InboxAssumption, FS_Interval DEF RowKeys
  <1>2. IsFiniteSet(S)
    BY <1>1, FS_Subset
  <1>3. ASSUME NEW T \in SUBSET S
        PROVE  /\ Cardinality(T) \in Nat /\ Cardinality(T) <= Cardinality(S)
               /\ Cardinality(T) = Cardinality(S) => T = S
    <2>1. /\ IsFiniteSet(T) /\ Cardinality(T) <= Cardinality(S)
          /\ Cardinality(T) = Cardinality(S) => T = S
      BY <1>2, FS_Subset
    <2> QED
      BY <2>1, FS_CardinalityType
  <1> QED
    BY <1>2, <1>3, FS_CardinalityType

\* A page: the largest of the rows that are left, all of them if they fit, and never
\* empty if they do not.
LEMMA PageOf ==
  ASSUME NEW S \in SUBSET RowKeys
  PROVE  /\ Largest(PageSize, S) \subseteq S
         /\ \A k \in S \ Largest(PageSize, S) : \A p \in Largest(PageSize, S) : k < p
         /\ Cardinality(S) <= PageSize => Largest(PageSize, S) = S
         /\ Cardinality(S) > PageSize => Largest(PageSize, S) # {}
  <1> DEFINE above(k) == {j \in S : j > k}
             P == Largest(PageSize, S)
  <1>1. \A k \in S : k \in P <=> Cardinality(above(k)) < PageSize
    BY DEF Largest
  <1>2. P \subseteq S
    BY DEF Largest
  <1> HIDE DEF P
  <1>3. PageSize \in Nat /\ PageSize > 0 /\ S \subseteq Nat
    BY InboxAssumption DEF RowKeys
  <1>4. ASSUME NEW k \in S \ P, NEW p \in P
        PROVE  k < p
    <2> SUFFICES ASSUME p <= k PROVE FALSE
      BY <1>2, <1>3
    <2>1. above(k) \in SUBSET above(p) /\ above(p) \in SUBSET RowKeys
      <3>1. p \in Nat /\ k \in Nat /\ \A j \in S : j \in Nat /\ (j > k => j > p)
        BY <1>2, <1>3
      <3> QED
        BY <3>1
    <2>2. Cardinality(above(k)) <= Cardinality(above(p))
      BY <2>1, FiniteKeys
    <2>3. Cardinality(above(k)) \in Nat /\ Cardinality(above(p)) \in Nat
      BY <2>1, FiniteKeys
    <2>4. Cardinality(above(p)) < PageSize /\ ~ (Cardinality(above(k)) < PageSize)
      BY <1>1, <1>2
    <2> HIDE DEF above
    <2> QED
      BY <1>3, <2>2, <2>3, <2>4
  <1>5. ASSUME Cardinality(S) <= PageSize PROVE P = S
    <2>1. ASSUME NEW k \in S PROVE k \in P
      <3>1. above(k) \in SUBSET S /\ above(k) # S
        BY <1>3
      <3>2. Cardinality(above(k)) < Cardinality(S)
        BY <3>1, FiniteKeys
      <3>3. Cardinality(above(k)) \in Nat /\ Cardinality(S) \in Nat
        BY <3>1, FiniteKeys
      <3>4. Cardinality(above(k)) < PageSize
        BY <1>3, <1>5, <3>2, <3>3
      <3> QED
        BY <1>1, <3>4
    <2> QED
      BY <1>2, <2>1
  <1>6. ASSUME Cardinality(S) > PageSize PROVE P # {}
    <2>1. S # {}
      BY <1>3, <1>6, FS_EmptySet
    <2>2. PICK k \in S : \A j \in S : j <= k
      BY <2>1, LargestKey
    <2>3. above(k) = {}
      <3>1. k \in Nat /\ \A j \in S : j \in Nat /\ ~ (j > k)
        BY <1>3, <2>2
      <3> QED
        BY <3>1
    <2>4. Cardinality(above(k)) = 0
      BY <2>3, FS_EmptySet
    <2> QED
      BY <1>1, <1>3, <2>2, <2>4
  <1> QED
    BY <1>2, <1>4, <1>5, <1>6 DEF P

\* What a read finds below a cursor, and where its own cursor is: the rows that the page
\* leaves out are below the new cursor, and the page is not.
LEMMA NextPage ==
  ASSUME rows \subseteq RowKeys, NEW cursor \in RowKeys \cup {NoCursor}
  PROVE  /\ Page(cursor) \in SUBSET RowKeys /\ NextCursor(cursor) \in RowKeys \cup {NoCursor}
         /\ \A k \in Page(cursor) : cursor # NoCursor => k < cursor
         /\ NextCursor(cursor) # NoCursor =>
              /\ NextCursor(cursor) \in Page(cursor)
              /\ \A k \in Page(cursor) : NextCursor(cursor) <= k
         /\ \A k \in rows : cursor = NoCursor \/ k < cursor =>
              \/ k \in Page(cursor)
              \/ NextCursor(cursor) # NoCursor /\ k < NextCursor(cursor)
  <1> DEFINE S == Below(cursor)
             P == Page(cursor)
  <1>1. /\ S \in SUBSET RowKeys
        /\ \A k \in rows : cursor = NoCursor \/ k < cursor => k \in S
        /\ cursor # NoCursor => \A k \in S : k < cursor
    BY DEF Below
  <1>2. /\ P \subseteq S /\ \A k \in S \ P : \A p \in P : k < p
        /\ Cardinality(S) <= PageSize => P = S
        /\ Cardinality(S) > PageSize => P # {}
    BY <1>1, PageOf DEF Page
  <1>3. Cardinality(S) \in Nat /\ PageSize \in Nat
    BY <1>1, FiniteKeys, InboxAssumption
  <1>4. CASE Cardinality(S) <= PageSize
    <2>1. NextCursor(cursor) = NoCursor
      BY <1>3, <1>4 DEF NextCursor
    <2> HIDE DEF S, P
    <2>2. P = S
      BY <1>2, <1>4
    <2> QED
      BY <1>1, <2>1, <2>2 DEF P
  <1>5. CASE Cardinality(S) > PageSize
    <2>1. NextCursor(cursor) = Last(P)
      BY <1>5 DEF NextCursor
    <2> HIDE DEF S, P
    <2>2. P # {} /\ P \in SUBSET Nat
      BY <1>1, <1>2, <1>5 DEF RowKeys
    <2>3. Last(P) \in P /\ \A j \in P : Last(P) <= j
      BY <2>2, LeastNatural DEF Last
    <2>4. Last(P) \in RowKeys /\ Last(P) # NoCursor
      <3>1. Last(P) \in RowKeys
        BY <1>1, <1>2, <2>3
      <3>2. 0 \notin RowKeys
        BY DEF RowKeys
      <3> QED
        BY <3>1, <3>2 DEF NoCursor
    <2> QED
      BY <1>1, <1>2, <2>1, <2>3, <2>4 DEF P
  <1> QED
    BY <1>3, <1>4, <1>5

\* The first page is read into an empty list, a later one below a cursor; the rows that
\* are listed are at or above the cursor.
InboxInv ==
  /\ InboxTypeOK
  /\ inboxGet = "first" => inbox.pages = <<>> /\ inbox.cursor = NoCursor /\ opened = {}
  /\ inboxGet = "more" => inbox.cursor # NoCursor
  /\ inbox.cursor # NoCursor =>
       \A i \in 1 .. Len(inbox.pages) : \A k \in inbox.pages[i] : inbox.cursor <= k
  /\ InboxListsEverything

\* The list is empty at first.
LEMMA InboxInitInv == InboxInit => InboxInv
  BY DEF InboxInit, InboxInv, InboxTypeOK, InboxListsEverything, Listed, NoCursor

\* A step that lists nothing more.
LEMMA ListStays ==
  ASSUME InboxInv, rows \subseteq rows', rows' \subseteq RowKeys, opened' = opened,
         inbox' \in [pages : Seq(SUBSET RowKeys), cursor : RowKeys \cup {NoCursor},
                     loading : BOOLEAN, loadingMore : BOOLEAN, error : BOOLEAN],
         inbox'.pages = inbox.pages, inbox'.cursor = inbox.cursor,
         inboxGet' \in {inboxGet, "none", "more"},
         inboxGet' = "more" => inbox.cursor # NoCursor
  PROVE  InboxInv'
  BY DEF InboxInv, InboxTypeOK, InboxListsEverything, Listed

\* A page is appended: its rows are below the cursor it was read at, and so below all
\* that are listed, and what it leaves out is below the next cursor.
LEMMA PageAppended ==
  ASSUME InboxInv, rows' = rows, inboxGet' = "none", NEW seen,
         inbox.cursor = NoCursor => inbox.pages = <<>>,
         opened \subseteq rows, seen \subseteq rows, opened' = seen,
         \A k \in seen : \/ k \in Listed
                         \/ inbox.cursor = NoCursor \/ k < inbox.cursor,
         inbox' \in [pages : Seq(SUBSET RowKeys), cursor : RowKeys \cup {NoCursor},
                     loading : BOOLEAN, loadingMore : BOOLEAN, error : BOOLEAN],
         inbox'.pages = Append(inbox.pages, Page(inbox.cursor)),
         inbox'.cursor = NextCursor(inbox.cursor)
  PROVE  InboxInv'
  <1> DEFINE c == inbox.cursor
             d == NextCursor(c)
             P == Page(c)
             n == Len(inbox.pages)
             old == inbox.pages
             new == inbox'.pages
  <1>1. /\ rows \subseteq RowKeys /\ c \in RowKeys \cup {NoCursor}
        /\ old \in Seq(SUBSET RowKeys) /\ n \in Nat
        /\ \A i \in 1 .. n : old[i] \in SUBSET RowKeys
    BY DEF InboxInv, InboxTypeOK
  <1>2. /\ P \in SUBSET RowKeys /\ d \in RowKeys \cup {NoCursor}
        /\ c # NoCursor => \A k \in P : k < c
        /\ d # NoCursor => d \in P /\ \A k \in P : d <= k
        /\ \A k \in rows : c = NoCursor \/ k < c =>
              k \in P \/ (d # NoCursor /\ k < d)
    BY <1>1, NextPage
  <1>3. /\ Len(new) = n + 1 /\ new[n + 1] = P
        /\ \A i \in 1 .. n : new[i] = old[i]
    BY <1>1, <1>2
  <1>4. /\ c # NoCursor => \A i \in 1 .. n : \A k \in old[i] : c <= k
        /\ c = NoCursor => n = 0
        /\ \A i, j \in 1 .. n : i < j => \A k \in old[i], l \in old[j] : k > l
    BY DEF InboxInv, InboxListsEverything
  <1>5. RowKeys \subseteq Nat
    BY DEF RowKeys
  <1>6. d # NoCursor => \A i \in 1 .. n : \A k \in old[i] : d <= k
    <2> SUFFICES ASSUME d # NoCursor, NEW i \in 1 .. n, NEW k \in old[i] PROVE d <= k
      OBVIOUS
    <2>1. c # NoCursor
      BY <1>1, <1>4
    <2>2. d < c /\ c <= k
      BY <1>2, <1>4, <2>1
    <2>3. d \in Nat /\ c \in Nat /\ k \in Nat
      BY <1>1, <1>2, <1>5, <2>1
    <2> QED
      BY <2>2, <2>3
  <1>7. \A i \in 1 .. n : \A k \in old[i], l \in P : k > l
    <2> SUFFICES ASSUME NEW i \in 1 .. n, NEW k \in old[i], NEW l \in P PROVE k > l
      OBVIOUS
    <2>1. c # NoCursor
      BY <1>1, <1>4
    <2>2. l < c /\ c <= k
      BY <1>2, <1>4, <2>1
    <2>3. l \in Nat /\ c \in Nat /\ k \in Nat
      BY <1>1, <1>2, <1>5, <2>1
    <2> QED
      BY <2>2, <2>3
  <1>8. inbox'.cursor = d /\ inbox'.pages = new
    OBVIOUS
  <1>9. Listed' = Listed \cup P
    <2>1. Listed = UNION {old[i] : i \in 1 .. n}
      BY DEF Listed
    <2>2. Listed' = UNION {new[i] : i \in 1 .. Len(new)}
      BY DEF Listed
    <2> HIDE DEF P, n, old, new
    <2>3. \A k : k \in Listed' <=> k \in Listed \cup P
      BY <1>1, <1>3, <2>1, <2>2
    <2> QED
      BY <2>3
  <1>10. \A k \in seen : k \in Listed' \/ (d # NoCursor /\ k < d)
    BY <1>2, <1>9
  <1> HIDE DEF c, d, P, n, old, new
  <1>11. InboxListsEverything'
    <2>1. \A i, j \in 1 .. n + 1 : i < j => \A k \in new[i], l \in new[j] : k > l
      <3> SUFFICES ASSUME NEW i \in 1 .. n + 1, NEW j \in 1 .. n + 1, i < j,
                          NEW k \in new[i], NEW l \in new[j]
                   PROVE  k > l
        OBVIOUS
      <3>1. i \in 1 .. n /\ (j \in 1 .. n \/ j = n + 1)
        BY <1>1
      <3>2. CASE j \in 1 .. n
        <4>1. k \in old[i] /\ l \in old[j]
          BY <1>3, <3>1, <3>2
        <4> QED
          BY <1>4, <3>1, <3>2, <4>1
      <3>3. CASE j = n + 1
        <4>1. k \in old[i] /\ l \in P
          BY <1>3, <3>1, <3>3
        <4> QED
          BY <1>7, <3>1, <4>1
      <3> QED
        BY <3>1, <3>2, <3>3
    <2>2. opened' = seen
      OBVIOUS
    <2> QED
      BY <1>3, <1>8, <1>10, <2>1, <2>2, SMTT(30) DEF InboxListsEverything
  <1>12. d # NoCursor => \A i \in 1 .. n + 1 : \A k \in new[i] : d <= k
    BY <1>1, <1>2, <1>3, <1>6
  <1> QED
    BY <1>3, <1>8, <1>11, <1>12 DEF InboxInv, InboxTypeOK

\* Every step of the inbox, and every migration that is created meanwhile.
LEMMA InboxNextInv == InboxInv /\ [InboxNext]_inboxVars => InboxInv'
  <1> SUFFICES ASSUME InboxInv, [InboxNext]_inboxVars PROVE InboxInv'
    OBVIOUS
  <1>0. /\ rows \subseteq RowKeys /\ opened \subseteq rows
        /\ inbox \in [pages : Seq(SUBSET RowKeys), cursor : RowKeys \cup {NoCursor},
                      loading : BOOLEAN, loadingMore : BOOLEAN, error : BOOLEAN]
        /\ inboxGet \in {"none", "first", "more"}
        /\ inboxGet = "more" => inbox.cursor # NoCursor
    BY DEF InboxInv, InboxTypeOK
  <1>1. CASE UNCHANGED inboxVars
    BY <1>0, <1>1, ListStays DEF inboxVars
  <1>2. ASSUME NEW k \in RowKeys, RowCommits(k) PROVE InboxInv'
    BY <1>0, <1>2, ListStays DEF RowCommits
  <1>3. CASE FirstPageFails
    BY <1>0, <1>3, ListStays DEF FirstPageFails
  <1>4. CASE LoadMore
    BY <1>0, <1>4, ListStays DEF LoadMore
  <1>5. CASE MoreFails
    BY <1>0, <1>5, ListStays DEF MoreFails
  <1>6. ASSUME NEW cursor \in RowKeys \cup {NoCursor}
        PROVE  /\ Page(cursor) \in SUBSET RowKeys
               /\ NextCursor(cursor) \in RowKeys \cup {NoCursor}
    BY <1>0, NextPage
  <1>7. CASE LandFirstPage
    <2>1. inbox.pages = <<>> /\ inbox.cursor = NoCursor
      BY <1>7 DEF LandFirstPage, InboxInv
    <2>2. /\ inbox' = [inbox EXCEPT !.pages = <<Page(NoCursor)>>,
                                    !.cursor = NextCursor(NoCursor), !.loading = FALSE]
          /\ opened' = rows /\ rows' = rows /\ inboxGet' = "none"
      BY <1>7 DEF LandFirstPage
    <2>3. Append(inbox.pages, Page(inbox.cursor)) = <<Page(NoCursor)>>
      BY <2>1
    <2>4. /\ inbox' \in [pages : Seq(SUBSET RowKeys), cursor : RowKeys \cup {NoCursor},
                         loading : BOOLEAN, loadingMore : BOOLEAN, error : BOOLEAN]
          /\ inbox'.pages = <<Page(NoCursor)>> /\ inbox'.cursor = NextCursor(NoCursor)
      <3>1. Page(NoCursor) \in SUBSET RowKeys /\ NextCursor(NoCursor) \in RowKeys \cup {NoCursor}
        BY <1>6
      <3>2. <<Page(NoCursor)>> \in Seq(SUBSET RowKeys)
        BY <3>1
      <3> QED
        BY <1>0, <2>2, <3>1, <3>2
    <2> QED
      BY <1>0, <2>1, <2>2, <2>3, <2>4, PageAppended
  <1>8. CASE LandMore
    <2> DEFINE P == Page(inbox.cursor)
               d == NextCursor(inbox.cursor)
    <2>1. /\ inbox' = [inbox EXCEPT !.pages = Append(inbox.pages, P), !.cursor = d,
                                    !.loadingMore = FALSE]
          /\ opened' = opened /\ rows' = rows /\ inboxGet' = "none"
          /\ inbox.cursor # NoCursor
      BY <1>8, <1>0 DEF LandMore
    <2>2. P \in SUBSET RowKeys /\ d \in RowKeys \cup {NoCursor}
      BY <1>0, <1>6
    <2>3. \A k \in opened : k \in Listed \/ k < inbox.cursor
      BY DEF InboxInv, InboxListsEverything
    <2> HIDE DEF P, d
    <2>4. Append(inbox.pages, P) \in Seq(SUBSET RowKeys)
      BY <1>0, <2>2
    <2>5. /\ inbox' \in [pages : Seq(SUBSET RowKeys), cursor : RowKeys \cup {NoCursor},
                         loading : BOOLEAN, loadingMore : BOOLEAN, error : BOOLEAN]
          /\ inbox'.pages = Append(inbox.pages, P) /\ inbox'.cursor = d
      BY <1>0, <2>1, <2>2, <2>4
    <2> QED
      BY <1>0, <2>1, <2>3, <2>5, PageAppended DEF P, d
  <1> QED
    BY <1>1, <1>2, <1>3, <1>4, <1>5, <1>7, <1>8 DEF InboxNext

--------------------------------------------------------------------------------
(* SignIn *)

TabType ==
  [at : {"page", "leaving", "github", "complete", "error"}, place : Places,
   login : 0 .. MaxLogins, session : SessionOrNone, user : SessionOrNone, loaded : BOOLEAN]

\* A tab on a page holds nothing of a sign-in; any other holds a login state that was
\* made for the page it shall reach and, once it has a ticket, a session of that state
\* with a ticket to that page.
SafeTabs ==
  {tab \in TabType :
     /\ tab.at \in {"page", "leaving"} => tab.session = 0
     /\ tab.at \notin {"page", "leaving"} => /\ tab.login # 0
                                            /\ logins[tab.login].state # "absent"
                                            /\ logins[tab.login].redirect = tab.place
     /\ tab.at = "complete" => tab.session # 0
     /\ tab.session # 0 => /\ sessions[tab.session].login = tab.login
                           /\ tickets[tab.session].redirect = tab.place
                           /\ tab.login # 0}

\* A callback has taken its state; the session it opened is of that state.
CallbacksAreSafe ==
  \A l \in LoginIds :
    LET c == callbacks[l]
    IN  /\ c.step = "none" => c = NoCallback
        /\ c.step # "none" => logins[l].state = "gone"
        /\ c.step = "opened" => c.session # 0 /\ sessions[c.session].login = l

\* A login state opens a session only once: while it is open, or its callback has not
\* opened one, there is none.
SessionsAreSafe ==
  /\ \A s \in SessionIds : sessions[s].state = "absent" => sessions[s].login = 0
  /\ \A s \in SessionIds : sessions[s].login # 0 =>
       /\ logins[sessions[s].login].state = "gone"
       /\ callbacks[sessions[s].login].step # "taken"
  /\ \A r, s \in SessionIds :
       sessions[r].login = sessions[s].login /\ sessions[r].login # 0 => r = s

SignInInv ==
  /\ SignInTypeOK
  /\ tabs \in [Tabs -> SafeTabs]
  /\ CallbacksAreSafe
  /\ SessionsAreSafe

\* The values of the tables.
LEMMA SignInRows ==
  ASSUME SignInInv
  PROVE  /\ logins \in [LoginIds -> [state : RowStates, redirect : Places]]
         /\ sessions \in [SessionIds -> [state : RowStates, login : 0 .. MaxLogins]]
         /\ tickets \in [SessionIds -> [state : RowStates, redirect : Places]]
         /\ cookie \in SessionOrNone
         /\ callbacks \in [LoginIds -> [step : {"none", "taken", "opened"},
                                        session : SessionOrNone]]
         /\ \A l \in 0 .. MaxLogins : l # 0 => l \in LoginIds
         /\ \A s \in SessionOrNone : s # 0 => s \in SessionIds
         /\ SessionIds \subseteq SessionOrNone /\ 0 \in SessionOrNone
         /\ 0 \notin SessionIds
         /\ LoginIds \subseteq 0 .. MaxLogins /\ 0 \in 0 .. MaxLogins /\ 0 \notin LoginIds
  BY SignInAssumption DEF SignInInv, SignInTypeOK, LoginIds, SessionIds, SessionOrNone

\* A tab that shows a page.
LEMMA PageTab ==
  ASSUME NEW place \in Places
  PROVE  At(place) \in SafeTabs
  <1>1. At(place) \in TabType
    BY SignInAssumption DEF At, TabType, SessionOrNone
  <1> QED
    BY <1>1 DEF At, SafeTabs

\* What a tab holds stays true while login states and sessions keep what they were made
\* with, and tickets lead where their session's sign-in began.
LEMMA TabsStand ==
  ASSUME SignInInv,
         \A l \in LoginIds : logins[l].state # "absent" =>
           logins'[l].state # "absent" /\ logins'[l].redirect = logins[l].redirect,
         \A s \in SessionIds : sessions[s].login # 0 =>
           /\ sessions'[s].login = sessions[s].login
           /\ tickets'[s].redirect \in
                {tickets[s].redirect, logins[sessions[s].login].redirect}
  PROVE  \A tab \in SafeTabs : tab \in SafeTabs'
  <1> SUFFICES ASSUME NEW tab \in SafeTabs PROVE tab \in SafeTabs'
    OBVIOUS
  <1>1. tab \in TabType /\ tab.login \in 0 .. MaxLogins /\ tab.session \in SessionOrNone
    BY DEF SafeTabs, TabType
  <1> DEFINE signingIn == tab.at \notin {"page", "leaving"}
  <1>2. signingIn => /\ tab.login \in LoginIds
                     /\ logins[tab.login].state # "absent"
                     /\ logins[tab.login].redirect = tab.place
    BY <1>1, SignInRows DEF SafeTabs
  <1>3. tab.session # 0 => /\ tab.session \in SessionIds /\ signingIn
                           /\ sessions[tab.session].login = tab.login
                           /\ tickets[tab.session].redirect = tab.place
                           /\ tab.login # 0
    BY <1>1, SignInRows DEF SafeTabs
  <1>4. signingIn => /\ logins'[tab.login].state # "absent"
                     /\ logins'[tab.login].redirect = tab.place
    BY <1>2
  <1>5. tab.session # 0 => /\ sessions'[tab.session].login = tab.login
                           /\ tickets'[tab.session].redirect = tab.place
    BY <1>2, <1>3
  <1> QED
    BY <1>1, <1>2, <1>3, <1>4, <1>5 DEF SafeTabs

\* The step of a tab, and rows that end: they are redeemed, signed out or expire.
LEMMA RowsEnd ==
  ASSUME SignInInv, SignInTypeOK',
         \A l \in LoginIds : /\ logins'[l].redirect = logins[l].redirect
                             /\ logins'[l].state = logins[l].state
                                \/ (logins[l].state = "open" /\ logins'[l].state = "gone"),
         \A s \in SessionIds : /\ sessions'[s].login = sessions[s].login
                               /\ sessions'[s].state \in {sessions[s].state, "gone"}
                               /\ tickets'[s].redirect = tickets[s].redirect,
         callbacks' = callbacks, tabs' \in [Tabs -> SafeTabs]
  PROVE  SignInInv'
  <1> USE SignInRows
  <1>1. tabs' \in [Tabs -> SafeTabs']
    <2>1. \A tab \in SafeTabs : tab \in SafeTabs'
      BY TabsStand
    <2> QED
      BY <2>1
  <1>2. CallbacksAreSafe'
    <2> SUFFICES ASSUME NEW l \in LoginIds
                 PROVE  LET c == callbacks'[l]
                        IN  /\ c.step = "none" => c = NoCallback
                            /\ c.step # "none" => logins'[l].state = "gone"
                            /\ c.step = "opened" => /\ c.session # 0
                                                    /\ sessions'[c.session].login = l
      BY DEF CallbacksAreSafe
    <2>1. callbacks[l].session # 0 => callbacks[l].session \in SessionIds
      OBVIOUS
    <2> QED
      BY <2>1 DEF SignInInv, CallbacksAreSafe
  <1>3. SessionsAreSafe'
    <2>1. \A s \in SessionIds : /\ sessions'[s].login = sessions[s].login
                                /\ sessions'[s].state = "absent"
                                     => sessions[s].state = "absent"
      OBVIOUS
    <2>2. \A s \in SessionIds : sessions[s].login # 0 => sessions[s].login \in LoginIds
      OBVIOUS
    <2> QED
      BY <2>1, <2>2 DEF SignInInv, SessionsAreSafe
  <1> QED
    BY <1>1, <1>2, <1>3 DEF SignInInv

\* Tabs have their type when they are safe.
LEMMA SafeTabsType ==
  ASSUME NEW f \in [Tabs -> SafeTabs]
  PROVE  f \in [Tabs -> TabType]
  BY DEF SafeTabs

\* The tabs move and nothing else does, but for the cookie.
LEMMA TabMoves ==
  ASSUME SignInInv, UNCHANGED <<logins, sessions, tickets, callbacks>>,
         cookie' \in SessionOrNone, tabs' \in [Tabs -> SafeTabs]
  PROVE  SignInInv'
  <1>1. tabs' \in [Tabs -> TabType]
    BY SafeTabsType
  <1>2. SignInTypeOK'
    BY <1>1 DEF SignInInv, SignInTypeOK, TabType
  <1> QED
    BY <1>2, RowsEnd

\* No tab is on a page at first.
LEMMA SignInInitInv == SignInInit => SignInInv
  <1> SUFFICES ASSUME SignInInit PROVE SignInInv
    OBVIOUS
  <1> USE SignInAssumption
  <1>1. tabs \in [Tabs -> SafeTabs]
    BY PageTab DEF SignInInit, Places
  <1>2. tabs \in [Tabs -> TabType]
    BY <1>1, SafeTabsType
  <1>3. SignInTypeOK
    BY <1>2 DEF SignInInit, SignInTypeOK, TabType, RowStates, Places, NoCallback,
                SessionOrNone
  <1>4. CallbacksAreSafe
    BY DEF SignInInit, CallbacksAreSafe, NoCallback
  <1>5. SessionsAreSafe
    BY DEF SignInInit, SessionsAreSafe
  <1> QED
    BY <1>1, <1>3, <1>4, <1>5 DEF SignInInv

\* Reading who is signed in, following a link, giving up on a sign-in and trying again.
LEMMA TabStepInv ==
  ASSUME SignInInv, NEW t \in Tabs,
         \/ \E delivered \in BOOLEAN : LandUser(t, delivered)
         \/ \E place \in Places : Navigate(t, place)
         \/ Abandon(t) \/ Retry(t)
  PROVE  SignInInv'
  <1>1. tabs \in [Tabs -> SafeTabs] /\ tabs[t] \in SafeTabs /\ tabs[t] \in TabType
    BY DEF SignInInv, SafeTabs
  <1>2. CASE \E delivered \in BOOLEAN : LandUser(t, delivered)
    <2>1. PICK delivered \in BOOLEAN : LandUser(t, delivered)
      BY <1>2
    <2> DEFINE user == IF delivered THEN SessionOf(cookie) ELSE 0
               new == [tabs[t] EXCEPT !.user = user, !.loaded = TRUE]
    <2>2. user \in SessionOrNone
      BY SignInRows DEF SessionOf
    <2>3. /\ tabs' = [tabs EXCEPT ![t] = new]
          /\ UNCHANGED <<logins, sessions, tickets, cookie, callbacks>>
      BY <1>1, <2>1 DEF LandUser
    <2> HIDE DEF user
    <2>4. /\ new \in TabType /\ new.at = tabs[t].at /\ new.place = tabs[t].place
          /\ new.login = tabs[t].login /\ new.session = tabs[t].session
      BY <1>1, <2>2 DEF TabType
    <2> HIDE DEF new
    <2>5. new \in SafeTabs
      BY <1>1, <2>4 DEF SafeTabs
    <2> QED
      BY <1>1, <2>3, <2>5, SignInRows, TabMoves
  <1>3. CASE \E place \in Places : Navigate(t, place)
    BY <1>1, <1>3, PageTab, SignInRows, TabMoves DEF Navigate
  <1>4. CASE Abandon(t) \/ Retry(t)
    <2>1. PICK at \in {"error", "github", "complete"} :
            /\ tabs' = [tabs EXCEPT ![t].at = at]
            /\ tabs[t].at \notin {"page", "leaving"} /\ at = "complete" => tabs[t].session # 0
            /\ UNCHANGED <<logins, sessions, tickets, cookie, callbacks>>
      <3>1. CASE Abandon(t)
        BY <3>1 DEF Abandon
      <3>2. CASE Retry(t)
        BY <3>2 DEF Retry
      <3> QED
        BY <1>4, <3>1, <3>2
    <2> DEFINE new == [tabs[t] EXCEPT !.at = at]
    <2>2. tabs[t].at \notin {"page", "leaving"}
      BY <1>4 DEF Abandon, Retry
    <2>3. /\ new \in TabType /\ new.at = at /\ new.place = tabs[t].place
          /\ new.login = tabs[t].login /\ new.session = tabs[t].session
      BY <1>1 DEF TabType
    <2>4. tabs' = [tabs EXCEPT ![t] = new]
      BY <2>1
    <2> HIDE DEF new
    <2>5. new \in SafeTabs
      BY <1>1, <2>1, <2>2, <2>3 DEF SafeTabs
    <2> QED
      BY <1>1, <2>1, <2>4, <2>5, SignInRows, TabMoves
  <1> QED
    BY <1>2, <1>3, <1>4

\* Signing out, and rows that expire.
LEMMA RowsEndInv ==
  ASSUME SignInInv,
         \/ \E t \in Tabs, delivered \in BOOLEAN :
              SignOut(t, delivered) \/ SignedOut(t, delivered)
         \/ \E l \in LoginIds : LoginExpires(l)
         \/ \E s \in SessionIds : TicketExpires(s) \/ SessionExpires(s)
  PROVE  SignInInv'
  <1> USE SignInRows
  <1>1. tabs \in [Tabs -> SafeTabs] /\ "gone" \in RowStates /\ "/" \in Places
    BY DEF SignInInv, RowStates, Places
  <1>2. CASE \E t \in Tabs, delivered \in BOOLEAN :
                SignOut(t, delivered) \/ SignedOut(t, delivered)
    <2>1. PICK t \in Tabs, delivered \in BOOLEAN :
            SignOut(t, delivered) \/ SignedOut(t, delivered)
      BY <1>2
    <2>2. UNCHANGED <<logins, tickets, callbacks>>
      BY <2>1 DEF SignOut, SignedOut
    <2>3. tabs' \in [Tabs -> SafeTabs]
      <3>1. CASE tabs' = [tabs EXCEPT ![t] = At("/")]
        BY <1>1, <3>1, PageTab
      <3>2. CASE tabs' = [tabs EXCEPT ![t].at = "leaving"] /\ tabs[t].at = "page"
        <4> DEFINE new == [tabs[t] EXCEPT !.at = "leaving"]
        <4>1. tabs[t] \in SafeTabs /\ tabs[t] \in TabType
          BY <1>1 DEF SafeTabs
        <4>2. /\ new \in TabType /\ new.at = "leaving" /\ new.place = tabs[t].place
              /\ new.login = tabs[t].login /\ new.session = tabs[t].session
          BY <4>1 DEF TabType
        <4>3. tabs' = [tabs EXCEPT ![t] = new]
          BY <3>2
        <4> HIDE DEF new
        <4>4. new \in SafeTabs
          BY <3>2, <4>1, <4>2 DEF SafeTabs
        <4> QED
          BY <1>1, <4>3, <4>4
      <3> QED
        BY <2>1, <3>1, <3>2 DEF SignOut, SignedOut
    <2>4. /\ cookie' \in SessionOrNone
          /\ sessions' \in [SessionIds -> [state : RowStates, login : 0 .. MaxLogins]]
          /\ \A s \in SessionIds : /\ sessions'[s].login = sessions[s].login
                                   /\ sessions'[s].state \in {sessions[s].state, "gone"}
      <3>1. CASE UNCHANGED sessions
        BY <2>1, <3>1 DEF SignOut, SignedOut
      <3>2. CASE ~ UNCHANGED sessions
        <4>1. /\ sessions' = [sessions EXCEPT ![cookie].state = "gone"]
              /\ cookie' = cookie /\ cookie \in SessionIds
          BY <2>1, <3>2 DEF SignOut, SignedOut
        <4> QED
          BY <1>1, <4>1
      <3> QED
        BY <3>1, <3>2
    <2>5. SignInTypeOK'
      BY <2>2, <2>3, <2>4, SafeTabsType DEF SignInInv, SignInTypeOK, TabType
    <2> QED
      BY <2>2, <2>3, <2>4, <2>5, RowsEnd
  <1>3. CASE \E l \in LoginIds : LoginExpires(l)
    <2>1. PICK l \in LoginIds : LoginExpires(l)
      BY <1>3
    <2>2. /\ logins' \in [LoginIds -> [state : RowStates, redirect : Places]]
          /\ \A k \in LoginIds : /\ logins'[k].redirect = logins[k].redirect
                                 /\ logins'[k].state = logins[k].state
                                    \/ (logins[k].state = "open" /\ logins'[k].state = "gone")
      BY <1>1, <2>1 DEF LoginExpires
    <2>3. SignInTypeOK'
      BY <2>1, <2>2 DEF SignInInv, SignInTypeOK, LoginExpires
    <2> QED
      BY <1>1, <2>1, <2>2, <2>3, RowsEnd DEF LoginExpires
  <1>4. CASE \E s \in SessionIds : TicketExpires(s) \/ SessionExpires(s)
    <2>1. PICK s \in SessionIds : TicketExpires(s) \/ SessionExpires(s)
      BY <1>4
    <2>2. /\ tickets' \in [SessionIds -> [state : RowStates, redirect : Places]]
          /\ sessions' \in [SessionIds -> [state : RowStates, login : 0 .. MaxLogins]]
          /\ \A r \in SessionIds : /\ tickets'[r].redirect = tickets[r].redirect
                                   /\ sessions'[r].login = sessions[r].login
                                   /\ sessions'[r].state \in {sessions[r].state, "gone"}
          /\ UNCHANGED <<logins, cookie, tabs, callbacks>>
      <3>1. CASE TicketExpires(s)
        BY <1>1, <3>1 DEF TicketExpires
      <3>2. CASE SessionExpires(s)
        BY <1>1, <3>2 DEF SessionExpires
      <3> QED
        BY <2>1, <3>1, <3>2
    <2>3. SignInTypeOK'
      BY <2>2 DEF SignInInv, SignInTypeOK
    <2> QED
      BY <1>1, <2>2, <2>3, RowsEnd
  <1> QED
    BY <1>2, <1>3, <1>4

\* The ticket is redeemed, once, and leads to the page the sign-in was begun for.
LEMMA CompleteInv ==
  ASSUME SignInInv, NEW t \in Tabs, NEW delivered \in BOOLEAN, Complete(t, delivered)
  PROVE  SignInInv'
  <1> DEFINE s == tabs[t].session
             failed == [tabs[t] EXCEPT !.at = "error"]
  <1> USE SignInRows
  <1>1. /\ tabs \in [Tabs -> SafeTabs] /\ tabs[t] \in SafeTabs /\ tabs[t] \in TabType
        /\ s \in SessionIds /\ tabs[t].at = "complete"
        /\ tickets[s].redirect \in Places
    <2>1. /\ tabs \in [Tabs -> SafeTabs] /\ tabs[t] \in SafeTabs /\ tabs[t] \in TabType
          /\ tabs[t].at = "complete"
      BY DEF Complete, SignInInv, SafeTabs
    <2>2. s \in SessionIds
      BY <2>1 DEF SafeTabs, TabType
    <2> QED
      BY <2>1, <2>2
  <1>2. failed \in SafeTabs
    <2>1. /\ failed \in TabType /\ failed.at = "error" /\ failed.place = tabs[t].place
          /\ failed.login = tabs[t].login /\ failed.session = s
      BY <1>1 DEF TabType
    <2> HIDE DEF failed
    <2> QED
      BY <1>1, <2>1 DEF SafeTabs
  <1>3. /\ tabs' \in {[tabs EXCEPT ![t] = failed],
                      [tabs EXCEPT ![t] = At(tickets[s].redirect)]}
        /\ cookie' \in {cookie, s}
        /\ tickets' \in {tickets, [tickets EXCEPT ![s].state = "gone"]}
        /\ UNCHANGED <<logins, sessions, callbacks>>
    BY <1>1 DEF Complete
  <1> HIDE DEF s, failed
  <1>4. tabs' \in [Tabs -> SafeTabs]
    BY <1>1, <1>2, <1>3, PageTab
  <1>5. /\ tickets' \in [SessionIds -> [state : RowStates, redirect : Places]]
        /\ \A r \in SessionIds : tickets'[r].redirect = tickets[r].redirect
    <2>1. "gone" \in RowStates
      BY DEF RowStates
    <2>2. CASE tickets' = tickets
      BY <2>2
    <2>3. CASE tickets' = [tickets EXCEPT ![s].state = "gone"]
      BY <1>1, <2>1, <2>3
    <2> QED
      BY <1>3, <2>2, <2>3
  <1>6. SignInTypeOK'
    BY <1>1, <1>3, <1>4, <1>5, SafeTabsType DEF SignInInv, SignInTypeOK, TabType
  <1> QED
    BY <1>3, <1>4, <1>5, <1>6, RowsEnd

\* The tabs that wait for a callback when it is answered.
LEMMA AnsweredTabs ==
  ASSUME SignInInv, NEW l \in LoginIds, NEW s \in SessionOrNone,
         NEW at \in {"error", "complete"}, at = "complete" => s # 0,
         s # 0 => /\ sessions[s].login = l
                  /\ tickets'[s].redirect = logins[l].redirect,
         \A k \in LoginIds : logins[k].state # "absent" =>
           logins'[k].state # "absent" /\ logins'[k].redirect = logins[k].redirect,
         UNCHANGED sessions,
         \A r \in SessionIds \ {s} : tickets'[r] = tickets[r]
  PROVE  TabsAfter(l, at, s) \in [Tabs -> SafeTabs']
  <1> USE SignInRows
  <1>1. s # 0 => s \in SessionIds
    OBVIOUS
  <1>2. \A tab \in SafeTabs : tab \in SafeTabs'
    <2>1. \A r \in SessionIds : sessions[r].login # 0 =>
             tickets'[r].redirect \in
               {tickets[r].redirect, logins[sessions[r].login].redirect}
      OBVIOUS
    <2> QED
      BY <2>1, TabsStand
  <1>3. ASSUME NEW tab \in SafeTabs, tab.at = "github", tab.login = l
        PROVE  [tab EXCEPT !.at = at, !.session = s] \in SafeTabs'
    <2> DEFINE new == [tab EXCEPT !.at = at, !.session = s]
    <2>1. tab \in TabType /\ logins[l].state # "absent" /\ logins[l].redirect = tab.place
      BY <1>3 DEF SafeTabs
    <2>2. /\ new \in TabType /\ new.at = at /\ new.place = tab.place /\ new.login = l
          /\ new.session = s
      BY <1>3, <2>1 DEF TabType
    <2> HIDE DEF new
    <2>3. logins'[l].state # "absent" /\ logins'[l].redirect = tab.place /\ l # 0
      BY <2>1
    <2>4. s # 0 => sessions'[s].login = l /\ tickets'[s].redirect = tab.place
      BY <2>1
    <2>5. new \in SafeTabs'
      BY <2>2, <2>3, <2>4 DEF SafeTabs
    <2> QED
      BY <2>5 DEF new
  <1>4. tabs \in [Tabs -> SafeTabs]
    BY DEF SignInInv
  <1>5. ASSUME NEW t \in Tabs
        PROVE  (IF Waits(t, l) THEN [tabs[t] EXCEPT !.at = at, !.session = s]
                ELSE tabs[t]) \in SafeTabs'
    BY <1>2, <1>3, <1>4 DEF Waits
  <1> QED
    BY <1>5 DEF TabsAfter

\* A callback takes its login state, or finds it gone.
LEMMA CallbackTakesInv ==
  ASSUME SignInInv, NEW t \in Tabs, CallbackTakes(t)
  PROVE  SignInInv'
  <1> DEFINE l == tabs[t].login
  <1> USE SignInRows
  <1>1. /\ tabs \in [Tabs -> SafeTabs] /\ l \in LoginIds
        /\ UNCHANGED <<sessions, tickets, cookie>> /\ callbacks[l].step = "none"
    <2>1. /\ tabs \in [Tabs -> SafeTabs] /\ tabs[t] \in SafeTabs /\ tabs[t].at = "github"
          /\ UNCHANGED <<sessions, tickets, cookie>> /\ callbacks[l].step = "none"
      BY DEF CallbackTakes, SignInInv
    <2>2. l \in LoginIds
      BY <2>1 DEF SafeTabs, TabType
    <2> QED
      BY <2>1, <2>2
  <1>2. CASE logins[l].state # "open"
    <2>1. tabs' = TabsAfter(l, "error", 0) /\ UNCHANGED <<logins, callbacks>>
      BY <1>2 DEF CallbackTakes
    <2>2. SafeTabs' = SafeTabs
      BY <1>1, <2>1 DEF SafeTabs
    <2>3. TabsAfter(l, "error", 0) \in [Tabs -> SafeTabs']
      BY <1>1, <2>1, AnsweredTabs
    <2> QED
      BY <1>1, <2>1, <2>2, <2>3, TabMoves
  <1>3. CASE logins[l].state = "open"
    <2>1. /\ logins' = [logins EXCEPT ![l].state = "gone"] /\ tabs' = tabs
          /\ callbacks' = [callbacks EXCEPT ![l].step = "taken"]
      BY <1>3 DEF CallbackTakes, Taken
    <2> HIDE DEF l
    <2>2. /\ logins' \in [LoginIds -> [state : RowStates, redirect : Places]]
          /\ logins'[l].state = "gone" /\ logins'[l].redirect = logins[l].redirect
          /\ \A k \in LoginIds \ {l} : logins'[k] = logins[k]
      BY <1>1, <2>1 DEF RowStates
    <2>3. /\ callbacks' \in [LoginIds -> [step : {"none", "taken", "opened"},
                                          session : SessionOrNone]]
          /\ callbacks'[l].step = "taken"
          /\ \A k \in LoginIds \ {l} : callbacks'[k] = callbacks[k]
      BY <1>1, <2>1
    <2>4. SignInTypeOK'
      BY <1>1, <2>1, <2>2, <2>3 DEF SignInInv, SignInTypeOK
    <2>5. tabs' \in [Tabs -> SafeTabs']
      <3>1. \A tab \in SafeTabs : tab \in SafeTabs'
        <4>1. \A k \in LoginIds : logins[k].state # "absent" =>
                logins'[k].state # "absent" /\ logins'[k].redirect = logins[k].redirect
          BY <2>2
        <4> QED
          BY <1>1, <4>1, TabsStand
      <3> QED
        BY <1>1, <2>1, <3>1
    <2>6. CallbacksAreSafe'
      BY <1>1, <2>2, <2>3 DEF SignInInv, CallbacksAreSafe
    <2>7. SessionsAreSafe'
      <3>1. \A s \in SessionIds : sessions[s].login # 0 =>
              /\ sessions[s].login \in LoginIds /\ sessions[s].login # l
              /\ logins[sessions[s].login].state = "gone"
              /\ callbacks[sessions[s].login].step # "taken"
        BY <1>3 DEF SignInInv, SessionsAreSafe, l
      <3> QED
        BY <1>1, <2>2, <2>3, <3>1 DEF SignInInv, SessionsAreSafe
    <2> QED
      BY <2>4, <2>5, <2>6, <2>7 DEF SignInInv
  <1> QED
    BY <1>2, <1>3

\* A session is opened for the state that the callback took, which has none yet.
LEMMA CallbackOpensInv ==
  ASSUME SignInInv, NEW l \in LoginIds, NEW s \in SessionIds, CallbackOpens(l, s)
  PROVE  SignInInv'
  <1> USE SignInRows
  <1>1. /\ callbacks[l].step = "taken" /\ sessions[s].state = "absent"
        /\ sessions' = [sessions EXCEPT ![s] = [state |-> "open", login |-> l]]
        /\ callbacks' = [callbacks EXCEPT ![l] = [step |-> "opened", session |-> s]]
        /\ UNCHANGED <<logins, tickets, cookie, tabs>>
    BY DEF CallbackOpens
  <1>2. /\ sessions[s].login = 0 /\ logins[l].state = "gone"
        /\ \A r \in SessionIds : sessions[r].login # l
    BY <1>1 DEF SignInInv, SessionsAreSafe, CallbacksAreSafe
  <1>3. /\ sessions' \in [SessionIds -> [state : RowStates, login : 0 .. MaxLogins]]
        /\ sessions'[s].state = "open" /\ sessions'[s].login = l
        /\ \A r \in SessionIds \ {s} : sessions'[r] = sessions[r]
    BY <1>1 DEF RowStates
  <1>4. /\ callbacks' \in [LoginIds -> [step : {"none", "taken", "opened"},
                                        session : SessionOrNone]]
        /\ callbacks'[l].step = "opened" /\ callbacks'[l].session = s
        /\ \A k \in LoginIds \ {l} : callbacks'[k] = callbacks[k]
    BY <1>1
  <1>5. SignInTypeOK'
    BY <1>1, <1>3, <1>4 DEF SignInInv, SignInTypeOK
  <1>6. tabs' \in [Tabs -> SafeTabs']
    <2>1. \A r \in SessionIds : sessions[r].login # 0 =>
            /\ sessions'[r].login = sessions[r].login
            /\ tickets'[r].redirect = tickets[r].redirect
      BY <1>1, <1>2, <1>3
    <2>2. \A tab \in SafeTabs : tab \in SafeTabs'
      BY <1>1, <2>1, TabsStand
    <2> QED
      BY <1>1, <2>2 DEF SignInInv
  <1>7. CallbacksAreSafe'
    <2> SUFFICES ASSUME NEW k \in LoginIds
                 PROVE  LET c == callbacks'[k]
                        IN  /\ c.step = "none" => c = NoCallback
                            /\ c.step # "none" => logins'[k].state = "gone"
                            /\ c.step = "opened" => /\ c.session # 0
                                                    /\ sessions'[c.session].login = k
      BY DEF CallbacksAreSafe
    <2>1. CASE k = l
      BY <1>1, <1>2, <1>3, <1>4, <2>1
    <2>2. CASE k # l
      <3>1. callbacks'[k] = callbacks[k] /\ callbacks[k].session \in SessionOrNone
        BY <1>4, <2>2
      <3>2. /\ callbacks[k].step = "none" => callbacks[k] = NoCallback
            /\ callbacks[k].step # "none" => logins[k].state = "gone"
            /\ callbacks[k].step = "opened" => /\ callbacks[k].session # 0
                                               /\ sessions[callbacks[k].session].login = k
        BY DEF SignInInv, CallbacksAreSafe
      <3>3. callbacks[k].step = "opened" =>
              callbacks[k].session \in SessionIds /\ callbacks[k].session # s
        BY <1>2, <3>1, <3>2
      <3> QED
        BY <1>1, <1>3, <3>1, <3>2, <3>3
    <2> QED
      BY <2>1, <2>2
  <1>8. SessionsAreSafe'
    BY <1>1, <1>2, <1>3, <1>4 DEF SignInInv, SessionsAreSafe
  <1> QED
    BY <1>5, <1>6, <1>7, <1>8 DEF SignInInv

\* A callback that ends, whatever it did, never takes its state again.
LEMMA CallbackEnds ==
  ASSUME SignInInv, NEW l \in LoginIds, callbacks[l].step # "none",
         callbacks' = [callbacks EXCEPT ![l] = NoCallback],
         UNCHANGED <<logins, sessions, cookie>>,
         tickets' \in [SessionIds -> [state : RowStates, redirect : Places]],
         tabs' \in [Tabs -> SafeTabs']
  PROVE  SignInInv'
  <1> USE SignInRows
  <1>1. /\ callbacks' \in [LoginIds -> [step : {"none", "taken", "opened"},
                                        session : SessionOrNone]]
        /\ callbacks'[l] = NoCallback /\ callbacks'[l].step = "none"
        /\ \A k \in LoginIds \ {l} : callbacks'[k] = callbacks[k]
    BY DEF NoCallback
  <1>2. SignInTypeOK'
    <2>1. tabs' \in [Tabs -> TabType]
      BY DEF SafeTabs
    <2> QED
      BY <1>1, <2>1 DEF SignInInv, SignInTypeOK, TabType
  <1>3. CallbacksAreSafe'
    BY <1>1 DEF SignInInv, CallbacksAreSafe
  <1>4. SessionsAreSafe'
    BY <1>1 DEF SignInInv, SessionsAreSafe
  <1> QED
    BY <1>2, <1>3, <1>4 DEF SignInInv

\* A callback fails between any two of its transactions.
LEMMA CallbackFailsInv ==
  ASSUME SignInInv, NEW l \in LoginIds, CallbackFails(l)
  PROVE  SignInInv'
  <1> USE SignInRows
  <1>1. /\ callbacks[l].step # "none" /\ tabs' = TabsAfter(l, "error", 0)
        /\ callbacks' = [callbacks EXCEPT ![l] = NoCallback]
        /\ UNCHANGED <<logins, sessions, tickets, cookie>>
    BY DEF CallbackFails
  <1>2. tabs' \in [Tabs -> SafeTabs']
    BY <1>1, AnsweredTabs
  <1> QED
    BY <1>1, <1>2, CallbackEnds

\* The ticket of the session is stored for the page its sign-in was begun for.
LEMMA CallbackIssuesInv ==
  ASSUME SignInInv, NEW l \in LoginIds, CallbackIssues(l)
  PROVE  SignInInv'
  <1> DEFINE s == callbacks[l].session
  <1> USE SignInRows
  <1>1. /\ callbacks[l].step = "opened" /\ tabs' = TabsAfter(l, "complete", s)
        /\ callbacks' = [callbacks EXCEPT ![l] = NoCallback]
        /\ tickets' = [tickets EXCEPT
                         ![s] = [state |-> "open", redirect |-> logins[l].redirect]]
        /\ UNCHANGED <<logins, sessions, cookie>>
    BY DEF CallbackIssues, Destination
  <1>2. s \in SessionIds /\ s # 0 /\ sessions[s].login = l
    BY <1>1 DEF SignInInv, CallbacksAreSafe
  <1> HIDE DEF s
  <1>3. /\ tickets' \in [SessionIds -> [state : RowStates, redirect : Places]]
        /\ tickets'[s].redirect = logins[l].redirect
        /\ \A r \in SessionIds \ {s} : tickets'[r] = tickets[r]
    BY <1>1, <1>2 DEF RowStates
  <1>4. tabs' \in [Tabs -> SafeTabs']
    BY <1>1, <1>2, <1>3, AnsweredTabs
  <1> QED
    BY <1>1, <1>3, <1>4, CallbackEnds

\* A sign-in begins: the state is new, and made for the page that the link names.
LEMMA LoginInv ==
  ASSUME SignInInv, NEW t \in Tabs, NEW l \in LoginIds, NEW page \in Pages,
         Login(t, l, page)
  PROVE  SignInInv'
  <1> DEFINE new == [At(page) EXCEPT !.at = "github", !.login = l]
  <1> USE SignInRows
  <1>1. /\ logins[l].state = "absent" /\ page \in Places
        /\ logins' = [logins EXCEPT ![l] = [state |-> "open", redirect |-> page]]
        /\ tabs' = [tabs EXCEPT ![t] = new]
        /\ UNCHANGED <<sessions, tickets, cookie, callbacks>>
    BY DEF Login, Places
  <1>2. /\ new \in TabType /\ new.at = "github" /\ new.place = page /\ new.login = l
        /\ new.session = 0
    BY <1>1 DEF At, TabType
  <1> HIDE DEF new
  <1>3. /\ logins' \in [LoginIds -> [state : RowStates, redirect : Places]]
        /\ logins'[l].state = "open" /\ logins'[l].redirect = page
        /\ \A k \in LoginIds \ {l} : logins'[k] = logins[k]
    BY <1>1 DEF RowStates
  <1>4. \A tab \in SafeTabs : tab \in SafeTabs'
    <2>1. \A k \in LoginIds : logins[k].state # "absent" =>
            logins'[k].state # "absent" /\ logins'[k].redirect = logins[k].redirect
      BY <1>1, <1>3
    <2> QED
      BY <1>1, <2>1, TabsStand
  <1>5. new \in SafeTabs'
    BY <1>2, <1>3 DEF SafeTabs
  <1>6. tabs' \in [Tabs -> SafeTabs']
    BY <1>1, <1>4, <1>5 DEF SignInInv
  <1>7. SignInTypeOK'
    <2>1. tabs' \in [Tabs -> TabType]
      BY <1>6 DEF SafeTabs
    <2> QED
      BY <1>1, <1>3, <2>1 DEF SignInInv, SignInTypeOK, TabType
  <1>8. CallbacksAreSafe'
    BY <1>1, <1>3 DEF SignInInv, CallbacksAreSafe
  <1>9. SessionsAreSafe'
    BY <1>1, <1>3 DEF SignInInv, SessionsAreSafe
  <1> QED
    BY <1>6, <1>7, <1>8, <1>9 DEF SignInInv

\* Every step of the tabs and of the server.
LEMMA SignInNextInv == SignInInv /\ [SignInNext]_signInVars => SignInInv'
  <1> SUFFICES ASSUME SignInInv, [SignInNext]_signInVars PROVE SignInInv'
    OBVIOUS
  <1>1. CASE UNCHANGED signInVars
    BY <1>1, SignInRows, TabMoves DEF signInVars, SignInInv
  <1>2. CASE SignInNext
    BY <1>2, TabStepInv, RowsEndInv, CompleteInv, LoginInv, CallbackTakesInv,
       CallbackOpensInv, CallbackFailsInv, CallbackIssuesInv DEF SignInNext
  <1> QED
    BY <1>1, <1>2

--------------------------------------------------------------------------------
(* The panels together *)

DashboardInv ==
  panel \in Panels /\ HistoryInv /\ InboxInv /\ SignInInv

\* A step of one panel leaves the others.
THEOREM PanelsKeepTheirInvariants == DashboardSpec => []DashboardInv
  <1>1. DashboardInit => DashboardInv
    BY HistoryInitInv, InboxInitInv, SignInInitInv
       DEF DashboardInit, DashboardInv
  <1>2. DashboardInv /\ [DashboardNext]_dashboardVars => DashboardInv'
    <2> SUFFICES ASSUME DashboardInv, [DashboardNext]_dashboardVars PROVE DashboardInv'
      OBVIOUS
    <2>1. /\ panel' = panel /\ [HistoryNext]_historyVars
          /\ [InboxNext]_inboxVars /\ [SignInNext]_signInVars
      BY DEF DashboardNext, HistoryPanel, InboxPanel, LoginPanel, dashboardVars
    <2> QED
      BY <2>1, HistoryNextInv, InboxNextInv, SignInNextInv DEF DashboardInv
  <1> QED
    BY <1>1, <1>2, PTL DEF DashboardSpec

\* The hooks, the rows and the requests of the panels have their types.
THEOREM DashboardTypeCorrect == DashboardSpec => []DashboardTypeOK
  <1>1. DashboardInv => DashboardTypeOK
    BY DEF DashboardInv, HistoryInv, InboxInv, SignInInv, DashboardTypeOK
  <1> QED
    BY <1>1, PanelsKeepTheirInvariants, PTL

\* Whatever is selected, filtered or loaded, the content on screen is of the record in
\* the heading, or gives way to it.
THEOREM DetailsAreNotMixed == DashboardSpec => []DetailIsOfSelected
  <1>1. DashboardInv => DetailIsOfSelected
    BY DEF DashboardInv, HistoryInv, MixedGivesWay, DetailIsOfSelected, ShowsRecord
  <1> QED
    BY <1>1, PanelsKeepTheirInvariants, PTL

\* However many migrations are created meanwhile, and in whatever order they commit, the
\* keyset pages list each once, in order, and skip none.
THEOREM PagesListEverything == DashboardSpec => []InboxListsEverything
  <1>1. DashboardInv => InboxListsEverything
    BY DEF DashboardInv, InboxInv
  <1> QED
    BY <1>1, PanelsKeepTheirInvariants, PTL

\* However sign-ins overlap, fail and are repeated, each opens at most one session, and
\* its ticket is of the tab's own sign-in.
THEOREM SignInsAreKeptApart == DashboardSpec => []SignInsDoNotMix
  <1>1. DashboardInv => SignInsDoNotMix
    <2> SUFFICES ASSUME SignInInv PROVE SignInsDoNotMix
      BY DEF DashboardInv
    <2>1. \A t \in Tabs : tabs[t] \in SafeTabs
      BY DEF SignInInv
    <2>2. \A t \in Tabs : LET s == tabs[t].session
                          IN  s # 0 => /\ sessions[s].login = tabs[t].login
                                       /\ tickets[s].redirect = tabs[t].place
      BY <2>1 DEF SafeTabs
    <2> QED
      BY <2>2 DEF SignInInv, SessionsAreSafe, SignInsDoNotMix
  <1> QED
    BY <1>1, PanelsKeepTheirInvariants, PTL

================================================================================
