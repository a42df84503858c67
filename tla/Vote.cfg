\* Two threads, one voter, two wallets; two result mails at most.
SPECIFICATION Spec
CONSTANTS
    Handlers = {h1, h2}
    Users = {u1}
    Wallets = {w1, w2}
    MaxMails = 2
    None = None
SYMMETRY SymmetricWallets
ACTION_CONSTRAINTS MailOrWallets
INVARIANTS VerdictFromChain ChainAccounted BallotsLogged
PROPERTIES VerdictKept NftRecordKept MailOnce
