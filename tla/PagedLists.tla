----------------------------- MODULE PagedLists -----------------------------
(***************************************************************************)
(* The paged lists that merge one user's rows: AnalysisHistoryView for the *)
(* user and the recent activities of AdminUserDetailView.  Both load the   *)
(* newest rows of every table, merge what the rows show, sort it newest    *)
(* first and cut one page out.  HistoryPages adds what happens meanwhile   *)
(* and a client that reads page after page.                                *)
(*                                                                         *)
(* What happened to the user is a timeline: a position is a creation time  *)
(* (or minted_at), so later rows are newer and no two are equally new.     *)
(***************************************************************************)
EXTENDS Naturals, Sequences, FiniteSets, Functions

CONSTANTS
    PageSizes,  \* the page sizes clients ask for
    MaxPage,    \* MAX_HISTORY_PAGE
    MaxEvents,  \* bound on the length of the timeline
    MaxTaken    \* bound on the verdicts taken back under a walking client

ASSUME PagesAssumption ==
    /\ PageSizes \subseteq Nat \ {0}
    /\ MaxPage \in Nat \ {0}
    /\ MaxEvents \in Nat /\ MaxTaken \in Nat

VARIABLES
    timeline,   \* contents, verification logs, ballots and mints, oldest first
    voted,      \* contents whose review vote ended "Approved"
    hidden,     \* voted contents and mints whose record an overtaken save took back
    walk,       \* a client reading the history page by page
    known,      \* the items there were when it asked for the first page
    seen,       \* the items it was given
    taken       \* history: how many verdicts were taken back meanwhile

Kind  == {"content", "verification", "ballot", "mint"}
Row   == [kind : Kind, content : 0..MaxEvents]
Item  == [row : 1..MaxEvents, part : {"own", "review"}]

Rows(kind) == {i \in 1..Len(timeline) : timeline[i].kind = kind}

\* What Content.blockchain says now: votes that are "Approved", mints of kind "content".
approved == voted \ hidden
mints    == Rows("mint") \ hidden

-----------------------------------------------------------------------------
(* Sorting and cutting                                                     *)

\* The sort key is the row's time; _serialize_content lists the result of a
\* vote before the content itself, and the sort keeps equal keys in order.
Newer(x, y) == \/ x.row > y.row
               \/ x.row = y.row /\ x.part = "review" /\ y.part = "own"

Above(x, items) == {y \in items : Newer(y, x)}

\* sorted(items, key=sort_key, reverse=True): the n-th has n-1 above it.
NewestFirst(items) ==
    [n \in 1..Cardinality(items) |->
        CHOOSE x \in items : Cardinality(Above(x, items)) = n - 1]

Lesser(a, b) == IF a < b THEN a ELSE b

Slice(list, page, size) ==
    LET from == (page - 1) * size IN
    [n \in 1..(Lesser(page * size, Len(list)) - from) |-> list[from + n]]

\* order_by("-created_at")[:limit]
NewestRows(kind, limit) ==
    {i \in Rows(kind) : Cardinality({j \in Rows(kind) : j > i}) < limit}

-----------------------------------------------------------------------------
(* The history of a user                                                   *)

\* _serialize_content, _serialize_verification: an approved content also shows
\* the result of its vote.
ItemsOf(rows) == [row : rows, part : {"own"}] \cup [row : rows \cap approved, part : {"review"}]

History == ItemsOf(Rows("content") \cup Rows("verification"))

\* A plausible slip: one page's worth of rows is loaded whatever the page.
HistoryPage_OnePage(page, size) ==
    LET p == Lesser(page, MaxPage) IN
    Slice(NewestFirst(ItemsOf(NewestRows("content", size) \cup NewestRows("verification", size))),
          p, size)

\* A plausible slip: oldest rows are loaded when the order is left to the merge.
HistoryPage_Unordered(page, size) ==
    LET p     == Lesser(page, MaxPage)
        limit == p * size
        Oldest(kind) == {i \in Rows(kind) : Cardinality({j \in Rows(kind) : j < i}) < limit}
    IN  Slice(NewestFirst(ItemsOf(Oldest("content") \cup Oldest("verification"))), p, size)

\* AnalysisHistoryView.get
HistoryPage(page, size) ==
    LET p     == Lesser(page, MaxPage)
        limit == p * size
    IN  Slice(NewestFirst(ItemsOf(NewestRows("content", limit) \cup NewestRows("verification", limit))),
              p, size)

-----------------------------------------------------------------------------
(* The recent activities of a user                                         *)

\* _serialize_user_detail: activity_total_count, activity_total_pages
ActivityCount ==
    Cardinality(Rows("content")) + Cardinality(approved)
        + Cardinality(Rows("verification")) + Cardinality(Rows("ballot"))

ActivityPages(size) ==
    IF ActivityCount = 0 THEN 1 ELSE (ActivityCount + size - 1) \div size

\* Contents with their mints, verification logs and ballots.
Activities(limit) ==
    LET contents == NewestRows("content", limit) IN
    contents \cup {m \in mints : timeline[m].content \in contents}
        \cup NewestRows("verification", limit) \cup NewestRows("ballot", limit)

\* Each row is an activity of its own.
Listed(rows) == NewestFirst([row : rows, part : {"own"}])

ActivityPage(page, size) ==
    LET p == Lesser(page, ActivityPages(size)) IN
    Slice(Listed(Activities(p * size)), p, size)

-----------------------------------------------------------------------------
(* Loading only the newest rows of each table loses nothing.  Every page   *)
(* of the history is the one cut from the whole history, vote results      *)
(* included; a page of the activities is the one cut from all of them,     *)
(* unless a content was minted that is too old for the page's own query    *)
(* (mints, which activity_total_count does not count, fill no page).       *)
PagesExact ==
    LET history    == NewestFirst(History)
        activities == Listed((1..Len(timeline)) \ (Rows("mint") \cap hidden)) IN
    /\ \A size \in PageSizes, page \in 1..MaxPage :
         HistoryPage(page, size) = Slice(history, page, size)
    /\ \A size \in PageSizes : \A page \in 1..ActivityPages(size) :
         (\A m \in mints : timeline[m].content \in NewestRows("content", page * size))
             => ActivityPage(page, size) = Slice(activities, page, size)

(* A client that walks through the pages while rows are added and votes    *)
(* end may be given an item twice.  Of the items that were there when it   *)
(* began it misses none, or at most one for each verdict that an overtaken *)
(* synchronization took back meanwhile: the items behind a result that     *)
(* disappears move one place forward.                                      *)
NothingSkipped == walk.at = "done" => Cardinality(known \ seen) <= taken
=============================================================================
