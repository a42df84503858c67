------------------------------ MODULE Accounts ------------------------------
(***************************************************************************)
(* What the views about an account's unique columns share: the accounts    *)
(* and the web server's threads, each of which serves one request at a     *)
(* time, for whichever view it is.                                         *)
(***************************************************************************)
CONSTANTS
    Users,
    Handlers,   \* web server threads
    None        \* no value in a column, an idle handler's user
=============================================================================
