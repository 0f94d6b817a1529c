------------------------------- MODULE HistoryPage -------------------------------
(***************************************************************************)
(* The intelligence history (IntelligenceHistory.tsx,                      *)
(* lib/intelligenceHistory.ts).  The list follows the filters (kind,       *)
(* search, repository) after a pause for typing, the detail follows the    *)
(* selected item, and both effects abort the request of the one before;    *)
(* "Load older activity" aborts nothing.  What intelligence_history finds  *)
(* is any part of what matches the filters: items come, go and change      *)
(* places as they are updated.                                             *)
(***************************************************************************)
EXTENDS Naturals

CONSTANTS
  HistoryItems, NoItem,
  Filters,              \* sets of items that a choice of the filters matches
  MaxOlder              \* bound: requests for older items under way

ASSUME HistoryAssumption ==
  /\ NoItem \notin HistoryItems
  /\ Filters \subseteq SUBSET HistoryItems /\ HistoryItems \in Filters
  /\ MaxOlder \in Nat

VARIABLES
  history,     \* the state hooks of the page
  listing,     \* the effect of the filters: typing, its GET under way, or over
  opening,     \* the items whose detail is under way
  effectDue,   \* is the effect of a selection still to run
  older        \* the filters of each "Load older activity" under way

historyVars == <<history, listing, opening, effectDue, older>>

ItemOrNone == HistoryItems \cup {NoItem}
OlderIds == 1 .. MaxOlder
NoFilter == {NoItem}

HistoryInit ==
  /\ history = [filter |-> HistoryItems, items |-> {}, more |-> FALSE, selected |-> NoItem,
                detail |-> NoItem, loading |-> TRUE, detailLoading |-> FALSE, error |-> FALSE]
  /\ listing = "typing"
  /\ opening = {}
  /\ effectDue = FALSE
  /\ older = [n \in OlderIds |-> NoFilter]

--------------------------------------------------------------------------------

\* Another tab, repository or text: the effect of the old filters is cleaned up, and a
\* GET of theirs that is aborted ends the loading.  Like every event of the user, it
\* flushes the effect that is due, if any.
ChangeFilter(filter) ==
  /\ ~ effectDue
  /\ filter # history.filter
  /\ history' = [history EXCEPT !.filter = filter, !.loading = (listing # "sent")]
  /\ listing' = "typing"
  /\ UNCHANGED <<opening, effectDue, older>>

\* 180 milliseconds without another change.
TypingEnds ==
  /\ listing = "typing"
  /\ listing' = "sent"
  /\ UNCHANGED <<history, opening, effectDue, older>>

\* Mutation: the detail of the item before is not aborted.
Opening_Unaborted(item) == opening \cup ({item} \ {NoItem})

\* The effect of a selection aborts the last GET and sends another, unless there is
\* nothing to open.
Opening(item) == {item} \ {NoItem}

\* The finally of a GET that is aborted clears detailLoading.
AbortedDetailLoading(loading) == loading /\ opening = {}

\* The first page: the selected item stays selected if it is there (a new object, opened
\* again), and the first one is selected otherwise.  The callback of a fetch only sets the
\* state: it is rendered later, and the effect of the selection runs after that.
SelectedAmong(found, first) ==
  IF history.selected \in found THEN first = history.selected
  ELSE IF found = {} THEN first = NoItem ELSE first \in found

LandHistory(found, first) ==
  /\ listing = "sent"
  /\ found \subseteq history.filter
  /\ SelectedAmong(found, first)
  /\ listing' = "over"
  /\ effectDue' = ({history.selected, first} # {NoItem})
  /\ \E more \in BOOLEAN :
       history' = [history EXCEPT !.items = found, !.more = more, !.loading = FALSE,
                                  !.selected = first, !.detail = NoItem,
                                  !.detailLoading = TRUE]
  /\ UNCHANGED <<opening, older>>

\* The effect of the selection that came with the list.
SelectionTakesEffect ==
  /\ effectDue
  /\ effectDue' = FALSE
  /\ history' = [history EXCEPT !.detailLoading = AbortedDetailLoading(@)]
  /\ opening' = Opening(history.selected)
  /\ UNCHANGED <<listing, older>>

\* An error stays on the page.
HistoryFails ==
  /\ listing = "sent"
  /\ listing' = "over"
  /\ history' = [history EXCEPT !.loading = FALSE, !.error = TRUE]
  /\ UNCHANGED <<opening, effectDue, older>>

CanClick == ~ history.error /\ ~ history.loading

\* selectItem.  What a click sets is rendered and takes effect at once.  The item that is
\* selected already is the same object: its detail is cleared and nothing opens it again.
SelectItem(item) ==
  /\ CanClick /\ item \in history.items /\ ~ effectDue
  /\ IF item = history.selected
     THEN /\ history' = [history EXCEPT !.detail = NoItem, !.detailLoading = TRUE]
          /\ UNCHANGED opening
     ELSE /\ history' = [history EXCEPT !.selected = item, !.detail = NoItem,
                                        !.detailLoading = AbortedDetailLoading(TRUE)]
          /\ opening' = Opening(item)
  /\ UNCHANGED <<listing, effectDue, older>>

\* The answer is shown, whatever has been selected since without taking effect.
LandDetail(item) ==
  /\ item \in opening
  /\ history' = [history EXCEPT !.detail = item, !.detailLoading = FALSE]
  /\ opening' = opening \ {item}
  /\ UNCHANGED <<listing, effectDue, older>>

DetailFails(item) ==
  /\ item \in opening
  /\ history' = [history EXCEPT !.detailLoading = FALSE, !.error = TRUE]
  /\ opening' = opening \ {item}
  /\ UNCHANGED <<listing, effectDue, older>>

\* loadMore, which nothing disables while it is under way.
LoadOlder(n) ==
  /\ CanClick /\ history.more
  /\ older[n] = NoFilter
  /\ older' = [older EXCEPT ![n] = history.filter]
  /\ UNCHANGED <<history, listing, opening, effectDue>>

\* The items it finds are appended to those of whatever filters are set by then.  An
\* error is not caught, and leaves the page as it is.
LandOlder(n, found) ==
  /\ older[n] # NoFilter
  /\ found \subseteq older[n]
  /\ older' = [older EXCEPT ![n] = NoFilter]
  /\ \E more \in BOOLEAN :
       history' = [history EXCEPT !.items = @ \cup found, !.more = more]
  /\ UNCHANGED <<listing, opening, effectDue>>

OlderFails(n) ==
  /\ older[n] # NoFilter
  /\ older' = [older EXCEPT ![n] = NoFilter]
  /\ UNCHANGED <<history, listing, opening, effectDue>>

HistoryNext ==
  \/ \E filter \in Filters : ChangeFilter(filter)
  \/ TypingEnds \/ HistoryFails \/ SelectionTakesEffect
  \/ \E found \in SUBSET HistoryItems, first \in ItemOrNone : LandHistory(found, first)
  \/ \E item \in HistoryItems : SelectItem(item) \/ LandDetail(item) \/ DetailFails(item)
  \/ \E n \in OlderIds : LoadOlder(n) \/ OlderFails(n)
  \/ \E n \in OlderIds, found \in SUBSET HistoryItems : LandOlder(n, found)

HistorySpec == HistoryInit /\ [][HistoryNext]_historyVars

--------------------------------------------------------------------------------
(* Properties *)

HistoryTypeOK ==
  /\ history \in [filter : Filters, items : SUBSET HistoryItems, more : BOOLEAN,
                  selected : ItemOrNone, detail : ItemOrNone, loading : BOOLEAN,
                  detailLoading : BOOLEAN, error : BOOLEAN]
  /\ listing \in {"typing", "sent", "over"}
  /\ opening \subseteq HistoryItems
  /\ effectDue \in BOOLEAN
  /\ older \in [OlderIds -> Filters \cup {NoFilter}]

\* The heading, the scope and the cost of a record are taken from the selected item and
\* its content from the detail, which comes later.
ShowsRecord ==
  /\ ~ history.error /\ history.selected # NoItem
  /\ ~ history.detailLoading /\ history.detail # NoItem

\* The detail of the selected item is still to come.
DetailToCome == effectDue \/ history.selected \in opening

\* Whatever is selected, filtered or loaded meanwhile, the page shows the heading of one
\* record over the content of another only until the right content arrives: between a
\* list that changes the selection and the effect that aborts the old detail, this one
\* may land.  Nothing leaves the two mixed for good.
DetailIsOfSelected == ShowsRecord => history.detail = history.selected \/ DetailToCome

================================================================================
