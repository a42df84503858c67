# VeriMarka, modelled and verified

TLA+ models of the VeriMarka backend (Django REST API, Celery workers, PostgreSQL,
Redis, S3, an external AI module and an external blockchain module), the TLC runs that
check them on small instances, and the proofs, checked by TLAPS, of what holds for every
instance. Paths below are relative to the repository unless they end in `.tla` or `.cfg`.

The backend has almost no transactions: `ATOMIC_REQUESTS` is off, and apart from the
watermark claim and the social login every query and every `save()` commits on its own.
What the system promises therefore depends on the order in which requests, tasks,
messages, crashes and calls of the chain interleave. That is what the models are about;
they abstract files, names, messages and scores to what the control flow tells apart.

## 1. The system

### Components, their state and how they interact

| Component | State | Operations | Talks to |
| --- | --- | --- | --- |
| Registration (`contents/api/views/content.py`, `contents/api/services/registration.py`, `analysis/tasks.py`) | `Content`, `AIJob` rows; a message on the `ai` queue | upload (reuse a job in flight or create a content and a job), the task (progress, AI call, result or failure) | S3, broker, AI module; watermarking and voting read the decision |
| Watermarking (`contents/watermark_service.py`) | the claim in `Content.watermark`, `AIJob` | request, claim under `select_for_update`, embed, index, give back | broker, AI module; minting needs its result |
| Review vote and NFT (`contents/blockchain_service.py`) | `Content.decision`, `Content.blockchain` (one JSON), `VoteParticipationLog`; on the chain a token, ballots, an NFT | start, synchronize (owner, voter, chain webhook), cast, finalize, mail, mint, repair | chain, mail server |
| Verification (`contents/verification_service.py`) | `AIJob`, `VerificationHistoryLog` | upload, the task (detect, look the token up, search, log, finish) | broker, AI module, chain |
| Job polling and stream (`analysis/api/views/jobs.py`) | the generator's deadline and last event | poll, server-sent events | reads `AIJob` |
| Wallet linking (`wallets/`) | `WalletLink`, `WalletConnectionChallenge` | challenge, verify, unlink | voting and minting read the link |
| Phone verification (`accounts/api/views_sms.py`) | `SmsVerification`, `User.phone` | send a code, verify, withdraw | SMS provider |
| Roles, status, withdrawal (`accounts/api/views_admin.py`, `serializers.py`, `views_me.py`) | flags of `User` | administrators' patch, withdrawal | every view's permissions |
| Paged histories (`logs/api/views/history.py`, `accounts/api/views_admin.py`) | none of their own | merge, sort and cut pages out of four tables | reads contents, logs, ballots, mints |
| E-mail verification (`accounts/api/views_email.py`, `services/email_verification_store.py`) | three Redis keys: code, failures, messages of the day | send a code, verify | Redis, SES; writes the address of the account |
| E-mail ownership and social login (`views_email.py`, `views_oauth.py`, `serializers.py`) | `User.email`, `email_verified`, `SocialAccount` | sign up, verify, change, log in, withdraw | Google, Kakao, Apple |
| Sessions and tokens, guard call, admin lists, uploads and storage, serializers, infrastructure, deployment; the empty apps `reviews` and `tokens` | none, or a library's | — | not modelled, see section 7 |

The interactions that matter:

- A view commits its rows and **then** publishes a message; the worker acknowledges it
  as the task starts, so a task that dies is not run again, while a message that waits
  too long unacknowledged in a prefetch buffer is delivered a second time.
- View and task write the **same `AIJob` row**, field by field (`update_fields`).
- Three components write the **same `Content` row**: registration and watermarking
  their own columns, voting and minting the whole `blockchain` JSON rebuilt from a row
  loaded seconds earlier, before the chain was asked.
- Chain and database have no common transaction: every mint, vote and ballot can be on
  the chain without its record.
- Everywhere else two requests meet only in what the database enforces: unique columns
  (phone, wallet address, a provider's identity), or nothing: no column of an e-mail
  address is unique.
- The keys of an e-mail code live in Redis, apart from the account row, each with a
  lifetime of its own; commands come in pairs that are not atomic.

### What is hard, and what makes each component correct

| Component | Hard behaviour | Correct when |
| --- | --- | --- |
| Registration | racing uploads, death of sender or worker, second delivery | job and content never contradict each other; jobs follow one lifecycle; a forgotten job is always somebody's death |
| Watermarking | several jobs for one content, a claim without expiry | one embedder at a time; the claim tells the truth; success means a usable watermark |
| Vote and NFT | overtaken synchronizations, lost records, double mails | the decision is the chain's verdict; chain facts are recorded or their loss is explained; verdicts and NFT records stay |
| Verification | log before result, token registered meanwhile, second delivery | history and job agree; "verified" only with a token |
| Stream | the job moves between read and event; cuts and timeouts | the client never sees a job go back or a result change; streams end and show it |
| Wallets | overlapping challenges and verifications | an address has one account that signed; a challenge is spent once |
| Phone | overlapping codes and answers, withdrawal meanwhile | one account per number, counted failures, a bound on the codes of a day |
| E-mail codes | pairs of commands parted by other requests, expiry or a crash | the newest code can be answered, guesses are bounded, a code verifies once |
| E-mail ownership | addresses are checked in one way and written in another | a verified address was proved; who holds one together with somebody else got it in a named way; logins find their account |
| Accounts | stale checks and stale rows | an active administrator remains; rights come only from patches that grant them |
| Histories | rows added and verdicts taken back between pages, several sort keys | a page is the page of the whole list; nothing is skipped, but one item for a verdict taken back |

`PROJECT.json` lists the hazards one by one at the line where each bites, with the
properties that cover it.

## 2. The modules

| Module | Models | Remarks |
| --- | --- | --- |
| `AIJobs` | the `AIJob` row and the effect of each task helper's save | used by all job modules |
| `AIJobLifecycle` | **abstract specification**: a job is created, runs once, never goes back, ends once | what clients rely on |
| `RegisterJobs` | register view, broker, `run_register_analysis_job` | implements `AIJobLifecycle` |
| `WatermarkJobs` | watermark view, broker, `run_watermark_job`, `apply_watermark` | implements `AIJobLifecycle` |
| `VerifyJobs` | verify view, broker, `run_verify_job`, the verification workflows | implements `AIJobLifecycle` |
| `JobView` | the payload, the order payloads may come in, `NeverBack` | what any way of asking promises |
| `JobStream` | stream and poll **over** `AIJobLifecycle` | composes with the three above through it |
| `ReviewVote` | vote, decision, mint and chain of one content | |
| `Accounts` | the accounts and threads that the wallet and the phone views share | |
| `WalletRows` | the wallet tables and what must hold of their rows | |
| `WalletLinks`, `PhoneVerification`, `AdminAccounts` | the account views, query by query | `WalletLinks` extends `WalletRows` by its views |
| `EmailCodes` | the e-mail code views, Redis command by Redis command | one account: every key carries its id |
| `EmailOwnership` | every writer of an account's address, and social login, query by query | takes a right answer (`SaveUser` of `EmailCodes`) as a request that starts at `Verify` |
| `PagedLists` | the two merged, paged lists as functions of a timeline, and what must hold of them | |
| `HistoryPages` | the timeline growing, verdicts given and taken back, and a client walking the pages | extends `PagedLists` |
| `MC*` | symmetry sets and the bounds that relate two variables | |
| `*_proofs` | theorems and lemmas | the three job modules repeat the few facts about rows they need; `RegisterJobs_proofs` ends with the stream over its jobs; `UniqueColumns_proofs` is about `PhoneVerification` and, through an instance, `WalletLinks`; `AdminViews_proofs` about `AdminAccounts` and, in the same way, `HistoryPages` |

### How state and actions correspond to the code

**Processes.** A web request is a handler (`pc`/`at`) that goes through its view, one
action for every query, save or external call, with what it loaded kept in a record
(`seen`, `snap`, `req`); a Celery worker is a record `worker[w]` with its place in the
task, the job and what the task carries. Between any two actions anything else may
happen. `Abort`, `CutShort` and `Die` end a request or task at any place and take none
of its later steps.

**RegisterJobs.** `Post` … `SaveTaskId` follow `ContentRegisterView.post`: the lookup of
the newest non-failed content (`newer` is the order of `updated_at`, moved by every
save), of its job, the creates, the upload, the publication and the saving of the task
id. A request creates at most one content and one job, so rows carry the identity of
the request. `copies` are the messages nobody has started; `TakeMessage` acknowledges
one. `MarkRunning` … `FailJob` follow `run_register_analysis_job`; `FailContent` and
`FailJob` are the two saves of the `except` clause. An exception the task does not catch
is a `Die`: the effect is the same.

**WatermarkJobs.** `stage` is what `Content.watermark` means to the code: `processing`
is the claim, `applied` has a usable output, `bare` claims to be applied but has no
output. `Claim` is the locked transaction. `SourceMissing` is the failure between claim
and `try`, the one failure that leaves the claim behind. `Withdraw` is the `except`
clause reached after the result was stored. `Redecide` and `Reanalyse` are the writes
other components make to this row.

**ReviewVote.** `ledger` abstracts the JSON, `snap[h]` is the copy a handler loaded, and
every `Save` writes it back **whole**. `stale` is a history variable: handlers whose row
somebody else saved since they loaded it. `dropped` and `unlogged` record when a fact on
the chain lost its record, and which action did it. The contract (one token per hash,
one ballot per wallet while open, one finalization) lies outside the repository and is
modelled from how the service uses it. A transaction that was mined may be reported as
an error. Contents start under REVIEW; a content that is allowed at once reaches the same
`Mint` code without a vote.

**VerifyJobs.** One task with the reports of the image and the document workflow;
`Detect` may overlook a watermark; `registered` grows while the task runs; `CreateLog`
precedes `Finish` as in the code.

**JobStream.** `Check`, `Read`, `Send`, `Sleep` are the loop of `event_stream`. Time is
`left`, used up by `Sleep` and by any `Delay`. The job moves as `AIJobLifecycle` says,
i.e. the module assumes single delivery.

**WalletLinks, PhoneVerification, AdminAccounts.** Each action is one query. Unique
columns are guards of the save (`Link`, `SaveUser`); nothing else protects it. History
variables (`shared`, `overlapped`, `unmarked`, `late`, `stale`, `events`) record which
overlap or failure happened, so that the properties can say exactly what is still
guaranteed without it.

**EmailCodes.** Codes are numbered, so a code is told from a later one for the same
address; an answer is right or wrong for the code the request has read, and only a code
that was mailed can be answered right. `codeLeft` and `failsLeft` are remaining
lifetimes; a failure counter is `Forever` there between `INCR` and `EXPIRE`, and stays
so if the request dies in between. `Tick` ages all keys at once, `Midnight` changes the
date in the third key. `alone`, `overlapped`, `loose` and `uncounted` record which code
met an overlap or a crash.

**EmailOwnership.** An address is a mailbox in a spelling: requests lower theirs, logins
store the provider's. A login is one transaction: it shows nothing before its last
action and is undone when the pair of provider and identity is taken (`Link`,
`CreateSocial`); a known identity goes through `LoginKnown` and `MoveAddress`, which
asks nobody. `how` records which check gave an account its address, `overtaken` which
handler's check was outdated when it wrote.

**PagedLists, HistoryPages.** `timeline` is everything that happened, oldest first; a
position stands for the creation time or `minted_at`, so no two are equal. `HistoryPage`
and `ActivityPage` are the two views as functions: newest rows of each table up to a
limit, merged, sorted, cut. Sorting is `NewestFirst`: the n-th item is the one with n-1
`Newer` items, where the result of a vote is newer than its content, because the code
lists it first and the sort is stable. `voted` are the contents whose vote ended in their
favour, `hidden` the votes and mints that `Content.blockchain` does not show at the
moment, because an overtaken synchronization saved the record it had loaded before
(`SaveOvertaken`; the vote model has the interleavings that lead there). `known` and
`seen` are what there was when the client began and what it was given, `taken` counts the
verdicts taken back while it walked.

Definitions with an underscore (`Claim_Unlocked`, `Save_WholeRow`, …) are not part of
any specification. Each is a plausible mistake in the operation it is named after; with
it in place the property named in `PROJECT.json` (`mutants`) fails, which shows that
the property depends on the code being as it is.

## 3. The runs

All are bounded by their constants alone, plus the named `ACTION_CONSTRAINTS` of the MC
modules, which only cut actions no fairness condition names.

| Run | Instance | Shows |
| --- | --- | --- |
| `register` | 2 uploads of one file (image or document), or 1 upload delivered twice; 2 workers | `OneExecutor`, `OutcomeAgreement`, `AbandonedOnlyByDeath`, `ImplementsLifecycle`, `AnsweredJobEnds` |
| `register_double_click` | 2 uploads of one document | **violation** of `OneJobInFlightPerFile`, section 5 |
| `watermark` | 2 requests for one content, or 1 delivered twice; 1 repeated analysis; 2 workers | `ClaimAccounted`, `OneEmbedder`, `SuccessMeansApplied`, `AppliedKept`, `ImplementsLifecycle`, `ClaimEnds` |
| `vote` | 2 threads, 1 voter, 2 wallets, 2 mails | `VerdictFromChain`, `ChainAccounted`, `BallotsLogged`, `VerdictKept`, `NftRecordKept`, `MailOnce` |
| `verify` | an image with and a document without a watermark, or the image delivered twice; 2 workers | `HistoryAgreement`, `VerifiedIsRegistered`, `ImplementsLifecycle`, `AnsweredVerificationEnds` |
| `stream` | 3 rounds, 2 reports | `NeverBack`, `StreamEnds`, `ResultShown` |
| `wallet` | 2 users, 2 addresses, 2 threads, 3 challenges | `LinkOwned`, `SpentOnce` |
| `phone` | 2 users, 1 number, 2 threads, 3 codes, 1 a day, 2 failures | `PhoneOwned`, `FailsCounted`, `SendBound` |
| `email_codes` | 1 account, 1 address, 2 threads, 4 codes, 2 a day, 2 failures, keys that live 2 ticks | `CodeKept`, `TriesBound`, `UsedOnce` |
| `email_owner` | 2 accounts, 2 mailboxes in 2 spellings, 2 persons, 2 providers, 2 threads | `VerifiedWasProved`, `AddressOwned`, `LoginLinks` |
| `admin` | 2 accounts in any roles, 2 threads | `LastAdminKept`, `WithdrawnInactive`, `RightsGranted` |
| `history` | every timeline of 4 events, pages of 1 and 2, a walking client, one verdict taken back under it | `PagesExact`, `NothingSkipped` |

**Why the bounds are enough.** Jobs interact only through the rows they share: two
requests of one file or content exhibit every pairwise race, two workers every overlap
of executions, and a third would repeat one of them. This
is more than an argument: all safety properties are proved for any number (section 4),
so the runs are there to keep model and proofs honest and to check liveness. `RedeliveredAlone` explores a second delivery for an upload that is alone,
since the second delivery races with the first and with nothing else; `SameFile` leaves
out pairs of uploads that share no row. In the vote two threads suffice for an overtaken
one; `MailOrWallets` explores a change of wallets and the result mail separately. In the
account models two threads, two users and one contested value are the race; `SendBound`
is stated with the number of threads in it, and so is `TriesBound`. `ThirdChallenge`, `Codes` and `WrongAnswers`
keep the third row and the second day to the scenarios that need them. Limits of the
code (3 codes a day, 5 failures, 100 pages, ten minutes) are parameters and are set to
the smallest values that have a middle: what matters is reaching and passing them. `Answers` (e-mail codes) explores a third and
fourth code and the next day where nobody answers, and a second code where few answers
were given; two codes suffice for one that is delayed into the life of another. `Few`
(ownership) explores a second mailbox, a withdrawal, and two persons with other
spellings or providers one at a time: each is a way of its own in which two accounts
meet over an address. `Apart` (histories) leaves ballots and mints, which no history
shows, to the timelines on which no client walks; one verdict taken back reaches the
bound of `NothingSkipped`; that each further one costs at most one item more is proved.

**Deadlock** is not checked (`CHECK_DEADLOCK FALSE`) where everything may have been
served: requests are finite in number and the system then rests. `Vote.cfg` checks it:
a thread is always free to start again.

**Fairness.** `RegisterJobs`, `WatermarkJobs` and `VerifyJobs` assume weak fairness of
each started request and started task (code that runs, runs on until it ends or dies;
`Die` and `Abort` stay possible and unfair) and of taking a waiting message by *some*
worker: the worker service is restarted by the deployment
(`docker-compose.prod.yml:44-45`, `restart: unless-stopped`) and polls its queue.
Nobody is assumed to post, deliver twice, die or not die. `JobStream` assumes that a
generator that is being consumed goes on; a connection that is not is `Disconnect`.
Liveness is therefore always "it ends, or somebody died", which is what the code
guarantees: nothing retries a job.

## 4. What is proved

Every safety and action property of the runs, for every set of requests, files, contents,
workers, handlers, users, numbers, addresses and wallets, and every value of the limits, under the module's named assumption on its
constants (distinct "none" values, sub-ranges). The handlers are assumed finite in the
two modules that count them, `PhoneVerification` and `EmailCodes`: the server has a
fixed number of threads.

| Module | Theorems |
| --- | --- |
| `RegisterJobs_proofs` | `TypeCorrect`, `SingleExecution`, `MessagesNameRows`, `OutcomesAgree`, `NoJobForgotten`, `LifecycleImplemented` (refinement), `ClientNeverBack` (about `JobStream`), `WatchedNeverBack` (the stream composed with registration) |
| `WatermarkJobs_proofs` | `TypeCorrect`, `SingleEmbedder`, `ClaimsAccounted`, `SuccessDelivers`, `MessagesNameRows`, `AppliedStays`, `LifecycleImplemented` (refinement) |
| `ReviewVote_proofs` | `TypeCorrect`, `VerdictIsTheChains`, `NothingForgotten`, `LogsTellBallots`, `VerdictStays`, `NftRecordStays`, `NoSecondMail` |
| `VerifyJobs_proofs` | `TypeCorrect`, `HistoryAgrees`, `VerifiedHasToken`, `LifecycleImplemented` (refinement) |
| `UniqueColumns_proofs` | about `PhoneVerification`: `TypeCorrect`, `PhonesOwned`, `FailuresCounted`, `SendsBounded`; about `WalletLinks`: `LinksOwned`, `ChallengesSpentOnce` |
| `EmailCodes_proofs` | `TypeCorrect`, `NewestCodeKept`, `TriesBounded`, `CodesUsedOnce` |
| `AdminViews_proofs` | about `AdminAccounts`: `TypeCorrect`, `AdminKept`, `WithdrawnStayInactive`, `RightsAreGranted`; about `HistoryPages`: `ListsTypeCorrect`, `PagesAreExact`, `NoItemSkipped` |
| `EmailOwnership_proofs` | `TypeCorrect`, `VerifiedProved`, `AddressesOwned`, `LinksFound` |

**Registration.** The safety properties say what an observer sees; they are not
inductive, because what keeps the rows consistent is where the request and the task
stand. `IInv` is `TypeOK` and, for each job, `SenderInv` (nothing touches the rows before
the message is published), `WaitingInv` (a waiting message finds the rows as created),
`TaskInv` (one executor, no message left, and the rows `TaskRows` at each place of the
task, progress included), and the observable parts. A step concerns one job: `Frame`
shows that every job whose row, content, message and executor did not move keeps its
invariant, and one lemma per group of actions treats the job that moved. The refinement
then follows step by step: each action is `Create`, `Start`, `Advance`, `Succeed`,
`Fail` or a stutter of `AIJobLifecycle`, and `TaskRows` supplies the bounds that make
the progress monotone.

**Verification.** The argument is that of registration, with the history instead of a
content: `TaskRows` says that a task delivered once has its entry exactly between
`CreateLog` and `Finish`, and `Reached` bounds the progress at each place, so that the
reports of both workflows rise (`ReportsRise`). What two deliveries may leave is counted
by `BudgetInv`: each waiting message, each task that has not written yet and each entry
takes one of two places. `VerifiedInv` follows "verified" from the chain to the task,
the entry and the result.

**Watermarking.** `OneEmbedder` is not inductive: a second worker is kept out of an
embedding by `processing` and out of the index update that follows it by `applied`.
`ClaimInv` says which of the two a worker at each place relies on, that nobody works on
a content whose claim was left behind, and that whoever is about to report success, or
did, left a usable watermark. It is stated for contents that were not analysed again,
which is why the properties exempt `rerun`.

Its refinement needs what `ClaimInv` does not mention: the progress of a job and how
often it is run. `RunInv` adds, for each job whose message was delivered once, `OnceInv`
(one message or one executor, never both) and `RunRows`, the row at each place of the
task; with them every step of the view and the task is one of `AIJobLifecycle` or a
stutter.

**Stream.** What a client sees is ordered by `Upto`. `StreamInv` says that three rows
are in that order: what was shown last, the row read and about to be sent, and the
stored job. The job moves between any two of these; `LifecycleRises` says that every
move of `AIJobLifecycle` goes up. `ClientNeverBack` is therefore a theorem about any job
that keeps the lifecycle, and `WatchedNeverBack` draws the conclusion for a real one:
`WatchSpec` lets a client stream and poll the job of any one request while requests,
workers and the broker of `RegisterJobs` go on, `WatchImplements` maps each of its steps
to a step of `JobStream` (whose `Delete` it does not use, since no view deletes a job),
and as long as that job's message is not delivered a second time the client never sees
it go back.

**Vote.** `Held(h)` states that what a handler knows of the chain is still true (tokens
appear once, verdicts are final) and that a handler which was not overtaken holds the
row as it is; `Stored` relates the JSON to the chain. With them a save can write only
the chain's verdict, overtaken or not, and a handler that is not overtaken cannot take
anything back. `BallotInv` follows a ballot from the request to the log.

**E-mail ownership.** Each request checks in one query and writes in another, so the
properties need what is true in between. `HeldInv` says that what a request works with
belongs to it (its account exists, its sub has no link of its own); `FoundInv` says that
what it found (no holder of the address, no verified holder, no link to the provider)
still holds unless it was overtaken. Every write of an address is one operator, `Write`,
under the condition `Checked` that its kind of request has looked at: `WriteStep` treats
all of them at once, `QuietStep` the steps that write none.

**Phone.** `Base` says that a request works on a row of its own user and number, and
that one which may still write the number of a withdrawn account has been noticed;
`PhonesOwned` follows. For the failures, `CountInv`: a code no two wrong answers
overlapped on has at most one thread between its load and its save, and that thread
loaded the count as it is stored. For the sends, `SendInv` counts a thread that has
passed the limit and not yet created its row as a code already there: at most all
threads but one can be there when the limit is reached. The bound is on the rows: the
view deletes the row of a message that was reported unsent, so a message delivered all
the same is not counted, and the limit in the code does not count it either.

**Wallets.** `ChallengeInv`: a request works on a challenge issued to its own user for
its own address. `SpentInv`: a challenge outside `shared` is with one request at most,
has made no link while that request is before its save, and once it made one it is
marked used or about to be. The two theorems state the properties of `WalletRows` for
the views of `WalletLinks`, which the module instantiates beside `PhoneVerification`
because the same threads serve the same accounts there.

**E-mail codes.** The argument has two layers. `Base` holds of every code: a key holds
the newest code written to it, `Load` bounds the failures stored together with the
threads about to count one, and requests that overlap have marked their code. About a
code sent by a request that met nobody, `SentInv` follows it from `SETEX` to the mail,
`AloneInv` says that until it is done it is stored and open, and `TriesInv` that its
failures outlive it: while it lives each comparison is counted, and afterwards only the
threads that had read it can still compare, which is where the number of threads in
`TriesBound` comes from. `UseInv` follows a code from its use to its deletion.

**Administrators.** `LastAdminKept` is not inductive, because what a patch checked may
have become false when it saves. `HandlerInv` says what is still true: unless it was
marked `stale`, its target is not the only active administrator or the patch takes
nothing away. Withdrawals that happen while a patch is at work are in `late`, and
`WithdrawnInactive` needs no more. Whoever is a superuser was one when a patch loaded the
row (`was`), so that a save which takes the staff flag takes both. What a
save adds and takes (`Gained`, `Lost`) gives `RightsGranted`.

**Histories.** `PagesExact` is a fact about sorted lists that holds in every well-typed
state. The place of an item is its `Rank`, the number of items above it. Ranks differ
from item to item and are less than the number of items, so every place is taken, by the
pigeonhole principle (`RankTaken`), and `NewestFirst` is the list it should be
(`ListAt`). Everything above an item of rank less than a limit has a smaller rank, so
leaving out items of higher ranks changes neither its rank nor the first places
(`SamePrefix`, `SameSlice`). And a row whose item is among the first `page * size` has
fewer than `page * size` newer rows in its own table, since each of them shows an item
above it (`NewestEnough`): the query has loaded it. In the activities the mints are the
exception, and the premise of `PagesExact` supplies what the query does not.
`NothingSkipped` is not inductive; `WalkInv` bounds by `taken` the items the client will
not be given any more (`Missed`): those taken out of the history before it got them, and
those not given to it whose rank lies before its next page. Steps that add items only let
ranks grow (`RankGrows`), so no item slips to a page that was read. A verdict taken back
removes one item and moves those behind it one place forward (`RankDrops`). If the item
lay on a page to come, the client misses it and no other; if it lay on one already read,
exactly one item can cross from the next page to the last one read, the one whose rank is
the border (`MissedOne`). A page that is not full shows that no rank lies behind it
(`PageHolds`), also where pages after `MaxPage` repeat the last one.

`TypeOK` is the base of each of these inductions.

Stays with TLC: all liveness (`AnsweredJobEnds`, `ClaimEnds`,
`AnsweredVerificationEnds`, `StreamEnds`, `ResultShown`), since fairness and `ENABLED`
are out of the prover's reach.

## 5. Where the code and its documents disagree

- **Double click.** `README.md:83` promises that a repeated upload of a file in progress
  returns the existing job. The lookup and the create are separate queries
  (`content.py:109`): two uploads that overlap both find nothing and create two contents
  and two jobs (`register_double_click`). Sequential repetition works as promised.
- **Recent activities.** `test_admin_security.py:181-187` expects the total to count the
  activities and the pages to list them newest first. The total
  (`views_admin.py:350-358`) counts approved votes where the list shows mints, so a
  content that was allowed at once and minted has an activity on no page; and contents are chosen by their creation (line 366) where the
  list is sorted by the mint, so the mint of an older content is missing from the first
  page. The conjunct of `PagesExact`
  about them states when the pages are right.
- **The last administrator.** `views_admin.py:135` refuses to change the last active
  administrator, but `WithdrawView` does not ask, so the last one can withdraw; two patches that are both counted before either is saved end there too.
  `LastAdminKept` states that these are the only two ways.

Also noted, without a run: `README.md:73` says that a source already watermarked or
minted is recorded as `BLOCK`; the view has no such rule, and
`test_register.py:406,458` test that it has none. And `README.md:19` lists login by
e-mail; sign-up stores the nickname as the user name (`serializers.py:288`), nicknames
admit no `@`, and the login looks the address up as a user name (line 307), so an account
that signed up does not log in by its address.

Beyond disagreements, the exceptions inside the properties are what a maintainer should
know: a dead worker leaves its job "running" for good, and the register view goes on
answering with it (`lost`); a claim outlives its worker (`stuck`); an overtaken
synchronization can bring a decided content back to review or replace the record of its
NFT (`stale`, `dropped`), and a client that is reading the history just then misses an
item (`taken`); overlapping requests create one code too many per thread. A login overwrites its
account's address without asking who else holds it and keeps the verified flag
(`moved`); a `PATCH` that sends back the address it had loaded keeps the flag of the one
saved meanwhile (`stale`); a verified address stays with its other, unverified holders,
and the oldest of them is the account a later social login is linked to.

## 6. Plan

Done: the job lifecycle and its three implementations, the stream over it, the vote, and
the account views above, with proofs of all their safety and action properties. Next, in this order:

1. A composition of registration, watermarking and vote on one content, replacing
   `Redecide`, `Reanalyse` and `Watermark` by the actions they stand for.
2. `WatchedNeverBack` for the jobs of watermarking and verification, whose refinements
   are proved.
3. The rows of an account together: phone, wallet and address of one user, and what a
   withdrawal takes from each.

## 7. What is not modelled, and why

- The AI module, S3, the mail and SMS providers and the contract: external; each call is
  a choice among its possible answers and failures. Wrong answers of the AI module are
  outside the models.
- Validation of uploads, previews, presigned URLs, serializers, logging, middleware,
  health, settings, Terraform and nginx: no state, or formatting and I/O.
- Login, refresh and logout: their state (blacklist, rotation) belongs to simplejwt.
  Permissions appear as guards.
- `reviews` and `tokens` are empty apps.
- Read-only views other than the two merged lists; `PublicRecentActivityView` is a single
  newest-first query.
- Deletion of rows in the Django admin site, except of a job under a stream.
- Equal creation times in the histories; clock skew between servers.
- The two queries behind a page of the history (`history.py:53` and `:60`) are one step. A
  row added between them only pushes items back, and a verdict taken back after the first
  query is one taken back after the page, so the walk misses no more than is counted.
- A worker's prefetch order: any waiting message may be taken next.
