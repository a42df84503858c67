---------------------------- MODULE HistoryPages ----------------------------
(***************************************************************************)
(* The lists of PagedLists while rows keep being added and votes end, and  *)
(* a client that reads its history page after page; pages are not tied to  *)
(* each other.                                                             *)
(***************************************************************************)
EXTENDS PagedLists

rows   == <<timeline, voted, hidden>>
client == <<walk, known, seen>>
vars   == <<rows, client, taken>>

TypeOK ==
    /\ timeline \in Seq(Row) /\ Len(timeline) <= MaxEvents
    /\ voted \subseteq Rows("content") /\ hidden \subseteq voted \cup Rows("mint")
    /\ \A m \in Rows("mint") : timeline[m].content \in Rows("content") /\ timeline[m].content < m
    /\ \A m, n \in Rows("mint") : timeline[m].content = timeline[n].content => m = n
    /\ walk \in [at : {"idle", "walking", "done"}, page : 1..(MaxPage + 1), size : PageSizes]
    /\ known \subseteq Item /\ seen \subseteq Item
    /\ taken \in 0..MaxTaken

Init ==
    /\ timeline = <<>>
    /\ voted = {} /\ hidden = {}
    /\ walk \in [at : {"idle"}, page : {1}, size : PageSizes]
    /\ known = {} /\ seen = {} /\ taken = 0

-----------------------------------------------------------------------------
(* What happens to the user                                                *)

Happens(kind, content) ==
    /\ Len(timeline) < MaxEvents
    /\ timeline' = Append(timeline, [kind |-> kind, content |-> content])
    /\ UNCHANGED <<voted, client, taken>>

RegisterContent == Happens("content", 0) /\ UNCHANGED hidden
VerifyFile      == Happens("verification", 0) /\ UNCHANGED hidden
CastBallot      == Happens("ballot", 0) /\ UNCHANGED hidden

MintsOf(i) == {m \in Rows("mint") : timeline[m].content = i}

\* A content, allowed at once or by its vote, is minted at most once; the mint
\* saves the vote it had loaded.
Mint(i) ==
    /\ i \in Rows("content") /\ MintsOf(i) = {}
    /\ Happens("mint", i)
    /\ hidden' = hidden \ {i}

\* The review vote of a content ends in its favour, before it is minted.
Approve(i) ==
    /\ i \in Rows("content") \ voted /\ MintsOf(i) = {}
    /\ voted' = voted \cup {i}
    /\ UNCHANGED <<timeline, hidden, client, taken>>

\* A synchronization or a check of the mint saves the whole blockchain JSON it
\* built from the row it had loaded, whatever was saved since: the vote may be
\* "Pending" again, the mint forgotten, or both be restored.
SaveOvertaken(i) ==
    /\ i \in voted
    /\ \E back \in {{}, MintsOf(i), MintsOf(i) \cup {i}} :
         hidden' = (hidden \ (MintsOf(i) \cup {i})) \cup back
    /\ IF walk.at = "walking" /\ i \in hidden' \ hidden
       THEN taken < MaxTaken /\ taken' = taken + 1
       ELSE UNCHANGED taken
    /\ UNCHANGED <<timeline, voted, client>>

(* A client reads page after page until one is not full.                   *)

OpenHistory ==
    /\ walk.at = "idle"
    /\ walk' = [walk EXCEPT !.at = "walking"]
    /\ known' = History
    /\ UNCHANGED <<rows, seen, taken>>

ReadPage ==
    LET items == HistoryPage(walk.page, walk.size) IN
    /\ walk.at = "walking"
    /\ seen' = seen \cup Range(items)
    /\ walk' = [walk EXCEPT !.at   = IF Len(items) < walk.size THEN "done" ELSE "walking",
                            !.page = Lesser(walk.page + 1, MaxPage + 1)]
    /\ UNCHANGED <<rows, known, taken>>

Event ==
    \/ RegisterContent \/ VerifyFile \/ CastBallot
    \/ \E i \in 1..Len(timeline) : Mint(i) \/ Approve(i) \/ SaveOvertaken(i)

Next == Event \/ OpenHistory \/ ReadPage

Spec == Init /\ [][Next]_vars
=============================================================================
