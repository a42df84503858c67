\* Two accounts, two mailboxes and two persons on two threads.
CONSTANTS
    MaxAccounts = 2
    Mailboxes = {m1, m2}
    Providers = {p1, p2}
    Subs = {s1, s2}
    Handlers = {h1, h2}
    None = None
SPECIFICATION Spec
ACTION_CONSTRAINT Few
INVARIANTS VerifiedWasProved AddressOwned LoginLinks
SYMMETRY Symmetry
CHECK_DEADLOCK FALSE
