--------------------------- MODULE MCHistoryPages ---------------------------
(* A small instance of HistoryPages.                                       *)
EXTENDS HistoryPages

\* Ballots and mints are in no history: they are explored apart from the client,
\* and nothing happens once it is done.
Apart ==
    /\ walk'.at # "idle" => \A i \in 1..Len(timeline') : timeline'[i].kind \notin {"ballot", "mint"}
    /\ walk.at = "done" => UNCHANGED rows
=============================================================================
