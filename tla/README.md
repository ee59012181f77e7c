# Shadow Vault: a verification project

Shadow Vault is a file-sharing service: a user uploads a file, the server
encrypts it (AES-256-GCM, a key per file, wrapped with a master key), and hands
out a link that can expire, be limited to a number of downloads, be revoked,
or destroy the file when it is first read.  This directory holds TLA+ models of
that program, TLC configurations that check them on small instances, and
theorems about them that TLAPS checks for every value of the constants.

Paths below are relative to the repository.

## 1. Inventory

| Component | State | Operations | What is hard |
|---|---|---|---|
| FileService (`backend/src/services/FileService.ts`, routes `files.ts`, `share.ts`) | tables `files`, `encrypted_keys`, `share_links`; one file per upload on the volume | upload, download by token, delete, revoke, burn, secure delete; listings | every operation is a dozen awaits on two stores without a common transaction; limits checked on rows read earlier; failures swallowed half way |
| Expiry worker (`backend/src/workers/expiry.ts`) | none of its own: a batch in memory | every 5 minutes: burn up to 100 expired files | a second process on the same tables and the same disk; its runs may overlap; SIGTERM kills it in mid-burn |
| AuditService (`services/AuditService.ts`) | table `audit_logs` | recordEvent (never throws), two paginated queries | events may be lost, but must not lie |
| AuthService (`services/AuthService.ts`, `middleware/authenticate.ts`) | tables `users`, `sessions`; the tokens that clients hold | register, login, logout, refresh, verify | rotation is read, check, write, insert with no transaction |
| API client (`frontend/src/lib/api.ts`) | `isRefreshing`, `failedQueue` | send the cookies, refresh on 401, replay queued requests | callbacks that wait for a promise only another callback settles |
| Auth state and guards (`AuthContext.tsx`, `ProtectedRoute.tsx`, `PublicRoute.tsx`) | the query for the user, the router, the path to return to | load on start, login, logout, redirect | answers, pushes and redirects in any order; a 10 s timeout against a late answer |
| Share page (`app/share/[token]/page.tsx`) | page state | download, ask for a password, show why not | the errors arrive as Blobs, too |
| Dashboard and file pages (`app/dashboard/page.tsx`, `hooks/useFiles.ts`) | query cache | optimistic delete and revoke, rollback, refetch | mutations that overlap |
| Upload page (`app/upload/page.tsx`) | form, progress, abort timer | upload, cancel after 30 s, retry | the server completes what the client gave up |
| Tables of the admin panel and the audit log (`app/admin/page.tsx`, `app/audit/page.tsx`, routes `admin.ts`, `audit.ts`) | filter, page and tab; a query per page and filter; the deletion dialog | turn pages, filter, retry, delete | rows are added under a cache of pages; a dialog that stays live during a deletion |
| Rate limiters (`middleware/rateLimiter.ts`) | a counter per key and window | count, refuse | boundaries of a window |
| Filename sanitising, validation (`utils/sanitizeFilename.ts`, `validation/index.ts`) | none | pure functions | edge cases of their inputs |
| EncryptionService | none | encrypt, decrypt, wrap, unwrap, hash | Node's crypto; only what it decides matters here |
| Bootstrap, health, errors, logging, configuration | none | start-up, formatting | left out |
| Deployment (`docker-compose.yml`, nginx, `seed-admin.sh`) | containers, volumes | start, restart | two processes, restarted independently |

How they interact.  The API process and the expiry worker share Postgres and the
upload volume and nothing else: no lock, no message.  Inside the API, requests
interleave at every `await`.  Browser tabs share the cookies; each has its own
copy of `api.ts`.  The API and a browser meet only through requests, whose
answers may be late or lost.

What makes each part correct, and what is hard to test in it, is in the
`hazards` of `PROJECT.json`, each at its line.  In short:

- *Files*: nothing that was destroyed comes back; a live file stays readable; no
  plaintext of a one-time file leaves before the file is destroyed; a download is
  answered only through an open link; the audit trail claims nothing that did not
  happen; an expired file is destroyed in the end.
- *Sessions*: accounts are distinct; a session ends only by its own tokens; spent
  tokens are refused; only administrators pass the admin guard.
- *API client*: no request waits for a refresh that nobody makes; one refresh per
  tab; every request settles.
- *Pages*: once all is settled the dashboard shows what the server has, whatever
  was changed optimistically, rolled back or fetched meanwhile; the details of a deleted
  file are gone; the upload form sends what it shows, and sends a file twice only
  after an error; a logout sticks, a login takes effect, a guard decides; nobody is
  stranded at an empty page of a table.
- *Rate limiters*: a bound on what passes in any stretch of `windowMs`.

## 2. Modules

| Module | Models | Proofs |
|---|---|---|
| `ShareLink` | what a share link promises, with no database, disk or worker | |
| `FileVault` | FileService, the audit writes, the expiry worker; implements `ShareLink` | `FileVault_proofs` (types and effects of steps), `FileVaultSafety_proofs` (safety), `FileVaultLink_proofs` (refinement) |
| `Overlap` | `FileVault`, remembering how many downloads and destructions were under way at once | `FileVaultLink_proofs` |
| `TokenServer` | what the backend and the browsers agree on about tokens, with no database, cookie, tab or queue | |
| `Sessions` | AuthService, the auth routes, `authenticate` and `adminMiddleware`; implements `TokenServer` | `Sessions_proofs` |
| `RefreshOverlap` | `Sessions`, remembering which tokens were brought by several requests at once and which login each token comes from | `Sessions_proofs` |
| `ApiClient` | the axios instance of `api.ts` in several tabs, with the server as what it answers; implements `TokenServer` | `ApiClient_proofs` |
| `Resends` | `ApiClient`, remembering how often each request was made | `ApiClient_proofs` |
| `Browser` | what the pages share: bounds, and a query of the react-query cache | |
| `FilePages` | dashboard and details page over one cache, and their routes | `MCPages_proofs` |
| `UploadForm` | the upload page | `UploadForm_proofs` (invariant), `MCPages_proofs` |
| `AuthPages` | AuthContext, the guards, login, register, settings, Navbar | `AuthPages_proofs` (invariant), `MCPages_proofs` |
| `Tables` | the paginated tables and the routes behind them | `MCPages_proofs` |
| `AdminFiles` | the admin's file table, with deletions | `MCPages_proofs` |
| `SharePage` | the recipient's page, and the rate limiter before it | `MCPages_proofs` |
| `MCPages` | a tab opened at one of these pages | `MCPages_proofs` (the theorems) |
| `MCFileVault`, `MCOverlap`, `MCSessions`, `MCRefreshOverlap`, `MCApiClient`, `MCResends` | option sets, symmetry, the tabs of requests | |

Definitions marked *Mutant* are not part of the specifications: each is a
plausible mistake in the definition that follows it, kept to show that a property
notices it.

### FileVault

One file has one link (`uploadFile` creates exactly one), so both are named by the
file.  `row`, `opts`, `key`, `revoked`, `count` are the columns that decide
anything; `log` counts the audit events of each file; `blob` is what lies at the
file's path.  `expired` stands for the clock: `Lapse(f)` may happen at any time
after the upload.

A request or a worker run is a process with a `pc`.  Each `await` on the
database or the disk ends a step; what lies between two awaits is one action,
with the guards in the code's order.  A `$transaction` is one step, and runs at
READ COMMITTED.  Correspondence:

- upload: `WriteCiphertext`, `InsertRecords`, `UploadFails`;
- download: `ReadLink`, `ReadFile`, `ReadKeys` (a `findUnique` with `include` is one
  query per table), `Admit`/`Refuse` (the checks, in their order, are `Verdict`),
  `ReadCiphertext`/`CannotDecrypt`, `CountDownload`, `LogDownload`, then the burn of
  a one-time file, then `Respond`;
- burn and delete: `BurnLookup`/`RequestDelete`, `Stat`, `Wipe`, `Unlink` (secureDelete),
  `CommitDestruction`; failures: `LookupFails`, `SecureDeleteFails` (swallowed), `CommitFails`;
- revoke: `RequestRevoke`, `Revoke`, `LogRevoke`; failure: `RevokeFails`;
- any other query of a download: `DownloadFails`;
- worker: `StartRun` (a query for a batch; one that is rejected is a tick that starts no run),
  `NextExpired`, `EndRun`, `LogExpire`;
- `ApiCrash` and `WorkerCrash` stop all processes of a container in mid-step.

Left out: the bytes (overwriting passes are "wiped"; "cipher" is what decrypts),
uploads of no bytes (a truncated file and an empty ciphertext would be the same),
the event FAIL_ATTEMPT of an unknown token (it names no file), listings.
Authorization is a role: owner, admin or stranger.

### Overlap

The specification of `FileVault` with two history variables, which no action reads.  For each file
they hold the largest number there ever was of downloads between the two racing lines of
`downloadFile`, the read of `downloadCount` and its increment (`Downloading`), and of burns and deletions
between the look at `isDeleted` and the transaction (`Destroying`).  The races themselves are
findings 1 and 2; what `Overlap` states is how much damage they can do.

### Sessions

A session row, its `jti` and its token pair are named after the request that
issued them.  Each action is one query of `register`, `login`, `refreshTokens` or
`logout` and the code up to the next.  A request may bring any token pair that was
ever handed out: a second tab, a retry, a slow request.  The clock is left out: any
request may find its token expired.  `Promote` is `seed-admin.sh`.  Unique columns are
a guard of the insert, which answers 500 when they are violated.  A request whose
first query fails leaves what a refused one leaves.

### RefreshOverlap

The specification of `Sessions` with three history variables: `contended`, of each token the most
refreshes that held it at once (had found its session valid and had not revoked it yet, `Holding`);
`overlapped`, the tokens that two requests held at once, refreshes or logouts; `origin`, the
registration or login that a token descends from.  A login is `Orderly` while none of its tokens is
in `overlapped`.

### TokenServer

Three sets stand for all that either side knows: the tokens that may yet be obtained, those with a
good session, and what each refresh has been promised an exchange for.  `Sessions` implements
it with a mapping in which a rotation happens at the update that revokes the old
session: a refresh between the update and the insert counts as live (`Live`), since nobody can hold its
tokens yet.  `ApiClient` implements it with the tokens that a browser may come with from
before.  So the two models, which are checked apart, are held to one account of what a
refresh does.

### ApiClient

Each tab has `isRefreshing` and its part of `failedQueue`; a request is where its
promise is (`at`), and the `POST /auth/refresh` made for it is `call`.  The handler of a 401 is
`Enqueue`, `Lead` or `GiveUp`; the end of the awaited refresh is `RefreshSucceeds`,
`RefreshFails` or, when the refresh itself is answered with a 401, `RefreshRefused`: the
refresh is made through `api`, so its 401 enters the same interceptor, which queues it
behind itself.  A request that is made, for the first time or again, goes out in a step of its own (`Send`), with
what the cookies, which all tabs share, are then; the cookies of a refresh's answer reach
the browser (`TakeCookies`) before the promise is fulfilled, and another tab may change them at any point
between.  The server is abstracted from `Sessions`: a refresh reads the session
(`ReadSession`) and replaces it (`Rotate`) in two steps.  `Unload` is the redirect to `/login`
or a reload; the refresh of a page that is gone may still be answered (`Forget`).  `Resends` adds a
count of how often a request was sent, and the cookies its refresh was made with.

### Browser

A query of the cache is a record: its data, whether they count as valid, whether it shows an
error, and the fetch under way with its answer, if the server has given one.  The operators are
the library's calls that the pages make or cause: `Mount` (useQuery), `Invalidate`,
`Cancel`, `SetData`, `Fail` (which tries a second time, `retry: 1` in `app/providers.tsx`).  The
library is not in the repository, so these definitions are external: they model
the behaviour of the version that `package-lock.json` pins.  Two of its habits matter.  An
invalidation starts a fetch anew, except the *first* fetch of a query, which goes on
and may bring data older than the invalidation: `late` and `dated` keep track of that.
And a query that nobody observes is only marked.

### FilePages

`stored` is the server, `list` and `details` the cache, `jobs` the mutations in the order of
their start.  `MutateRow` is `handleDelete` or `handleRevoke` of the dashboard with `onMutate`
(cancel, remember, write); `RowFails` is `onError` and `onSettled`, `RowSucceeds`
`onSettled`.  `MutateFile`, `FileSucceeds`, `FileFails` are the details page's, which
is not optimistic, and goes to the dashboard after a deletion.  A useMutation tracks the last
mutation its component started (`Tracks`), and an unmounted component is told nothing, which is
what `since` is for.  `AnswerDelete`, `AnswerRevoke`, `AnswerList`, `AnswerDetails` are
the routes; `Lose` loses a request or its answer; `Lapse` is the clock or the worker.

### UploadForm

The form's values, the preset on display (`option`), what the page knows of each
upload (`attempt`) and what the server made of it (`reply`): the two part when the page gives up
after 30 seconds (`GiveUp`).  `Edit`, `ChooseExpiry`, `TypeExpiry`, `ToggleAlone`/`ToggleOnce`,
`TypeMax` are the form's handlers, `Valid` the zod schema and the file checks.

### AuthPages

A guard is `Target`: where the page on display sends its user.  Its effect is part of
each action that renders (`Effects`); the navigation it starts ends in `Navigate`, and a later one
takes its place.  `Succeed` and `EndLogout` are AuthContext's login and logout after
their awaits; `TimerFires` is ProtectedRoute's 10 s; a fetch that is `stuck` is one that
the API client never settles (finding 4), and `hung` says that this tab has one.  A request that needs
the session works (`Works`) or hangs (`Hangs`): without a session, or, in a tab that already hangs, when its access
token has expired, as its 401 then waits for a refresh that is never answered.  The settings page asks with a hook of its own
(`hook`), without a timer.

### Tables and AdminFiles

`Tables` has one table at a time (`view`), in which every page of every filter is a query.
`Answer` is the route: rows and total are two reads, and an entry may come between.
`CanNext`, `CanPrevious`, the empty state without buttons, and `Apply` (which goes to page 1) are
the page's.  `AdminFiles` is the file tab with its dialog: `Confirm` does not close
it, `Succeed` invalidates twice, as the code does.

### SharePage

The page's phases against what `GET /share/:token` answers.  `ErrorCode` is `getApiError`
applied to a Blob: it finds no code.  That makes `HandlePasswordSubmit` unreachable in this code
(finding 6).  Before the route stands the limiter, a fixed window that opens with the first
request after the last one ended; `granted` is history, for the property.

### MCPages

Each page has a state of its own, and a tab is opened at one of them (`open`); the
variables of the others keep their initial values.  The pages share no state that the
properties are about, except the cache, which `FilePages` shares between its two.  Composing them
this way checks all of them in one run, with the same bounds.

## 3. Runs

| Run | Bounds | Shows |
|---|---|---|
| `download_races` | one file, two downloads, a delete, a revocation and a worker, four kinds of upload with limits 0, 1 and none, no faults, symmetric | every interleaving keeps the link's promise (`KeepsLinkPromise`, the refinement of `ShareLink`), counts every answer, destroys a one-time file first, and misses the limit, and idempotence, by no more than what overlapped |
| `destruction_faults` | a download, a delete, a revocation and a worker on one file, one fault anywhere, fair | records, disk and audit trail agree, nothing is undone, and every request is answered |
| `expiry_worker` | two files, batches of one, a download and a worker, two faults, fair | every expired file is destroyed |
| `session_races` | two registrations, a login, two refreshes, a logout and a call, two addresses and names, one fault, symmetric | the safety of accounts and sessions; a token has no more successors than refreshes held it at once; without overlap one session per login, and none after a logout; `Sessions` implements `TokenServer` |
| `client_refresh` | a call and a login in one tab, a call in another, one fault, fair | no queue without a refresh under way (possibly one that hangs); a queue shares the outcome of the refresh; requests settle unless a refresh is refused; a request is made again with other cookies than were refused, and at most once more than its tab made refreshes; `ApiClient` implements `TokenServer` |
| `browser_pages` | two files, one of them opened, two mutations, two uploads, one login, tables of up to three rows in pages of two, a limiter of 2 per 3 ticks over 6 ticks, one fault, fair | nine invariants and two liveness properties of the pages |
| `limit_race` | two downloads | violation: the limit is exceeded |
| `burn_race` | a download and the worker | violation: two BURN events for one file |
| `refresh_race` | two refreshes | violation: one refresh token used twice |
| `refused_refresh` | one call | violation: a refused refresh hangs the tab |
| `signed_out_login` | one login, no fault, fair | violation: a tab opened without a session never comes to know who logs in |
| `password_prompt` | a link behind a password | violation: the share page never asks for it |

Why these bounds are enough to be worth it.  Files are independent of each other in
all but the worker's batch, so races are run on one file, and the batch with
two files and `Batch = 1`, where a run cannot take all.  Two of a kind (downloads,
refreshes, registrations) is what each race takes; a download, a delete and
a worker together destroy one file three times over, which leaves overlapping runs of the worker to the
theorems.  With two of a kind the bounds on overlap tell one
request from two at once, and two refreshes make a chain of tokens that a logout with an old one has to reach;
that the bounds grow with the number of requests at once is what the theorems add.  Faults: one fault hits every
step of every interleaving; two are used where a second may hit the repair of the first.
On the pages two
mutations are what an overtaken rollback takes, of two files or of one, from two pages; with two
attempts an upload is given up and repeated while the server completes it; a table of three rows
has a full first page, a second one, a filter with a row and one without, and grows while it is
read; two limiter windows are side by side within six ticks.
The theorems below do not have these bounds.

`CHECK_DEADLOCK FALSE` everywhere: requests are made once, so a behaviour ends when
all are answered.  Symmetry is used in `session_races` and `download_races` (and `refresh_race`), which
check no liveness.  Where a component has a specification with history variables (`Overlap`, `RefreshOverlap`,
`Resends`), one run of that specification checks the component's own properties as well.  Some properties
are proved and no longer run, to leave the runs to those that say more: `LimitHoldsUncontended` (the limit
without overlap; `OverrunBounded` has it with overlap), `RevokedForGood`, `PresetIsSent`, `LastPageIsLast`, `LinkStays`, and the type
invariants of all modules but `FileVault`.

### Fairness

`expiry_worker` and `destruction_faults` assume weak fairness of each process's step (an await settles: the
database client, the disk and Express do not block for good) and of `StartRun` (cron
fires every five minutes, Docker restarts the worker with `restart: unless-stopped`).
`faults` is finite: a disk that fails for ever keeps its files.  `client_refresh` and
`refused_refresh` assume weak fairness of each request's step (the proxy ends a request
that the server does not, and a settled promise runs its handlers) and that a tab that was
sent to `/login` gets there.  `browser_pages` and `signed_out_login` assume
that GET /auth/me is answered unless it hangs (`AnswerMe`, `ReceiveMe`), that the router's navigations
end, that timers fire and that the handler of an answered login runs: nothing of the other pages, whose
properties are safety.  No fairness is assumed of users, expiries or faults.

## 4. Findings

1. **The download limit can be exceeded** (`limit_race`).  The count is read early
   and incremented late, with no condition.  What does hold, and is proved:
   `LimitHoldsUncontended`, and `OverrunBounded`: with at most k downloads of the file under way at
   once, at most k - 1 more are counted than the limit allows.
2. **Burning is not idempotent** (`burn_race`).  Two burns pass the `isDeleted` check
   together, and both record BURN.  Harmless to the data (`NeverUndone`), not to the trail.  What does
   hold is `DestructionsBounded`: no more events than destructions that were under way at once.
3. **A refresh token can be used twice** (`refresh_race`).  What does hold is
   `ReplayRefused`: it is refused once a request that brought it has been answered;
   `SuccessorsBounded`: it is good for as many sessions as refreshes held it at once; and,
   for a login whose tokens never overlapped, `OneSessionPerLogin` and `LogoutEndsTheLogin`.  A
   logout that overlaps a refresh may leave the new session alive.
4. **A refused refresh hangs the tab** (`refused_refresh`).  With the session ended, the first
   401 leads to a refresh whose own 401 waits behind itself; the redirect to `/login`
   never happens and every later 401 waits too.  What does hold is `SettlesOrHangs`:
   this is the only way for a request not to settle.  Nor is there a storm of repeats
   (`ResendsBounded`), although a queued request is made again without `_retry`.
5. **A login in a tab that was opened without a session has no effect** (`signed_out_login`).  The tab's first
   GET /auth/me is one that hangs (finding 4), and invalidating a first fetch does not start it anew: the
   session is there, but the tab never asks who its user is, and ProtectedRoute sends him back to
   `/login` after 10 s, until the page is loaded anew.  What does hold is `KnownTabLogsIn`: a
   tab that has had an answer about its user, one that has logged out among them, comes to know who
   logs in.
6. **The share page never asks for a password** (`password_prompt`).  The download is requested as
   a Blob, the error comes as one, and no error code is found in it: every refusal is UNKNOWN_ERROR,
   and offers a retry.  A file behind a password cannot be downloaded from the page.

One more disagreement is recorded here only, since a single path shows it: a rotation copies the `isAdmin` claim of
the old token (AuthService.ts:264, `StartRefresh`), so a promotion does not reach a session that keeps
refreshing, although TECHNICAL_REPORT.md:638 says that the flag is "refreshed on token rotation".

## 5. Theorems

All theorems hold for every value of the constants that satisfies the module's
assumption (`VaultAssumption`, `SessionsAssumption`, `ApiClientAssumption`, `BrowserAssumption`,
`PagesAssumption`): kinds of requests
are disjoint, sentinels are not members, bounds are natural numbers, downloads are
finitely many.  Where requests are counted, there are finitely many of them, too
(`OverlapAssumption`, `RefreshOverlapAssumption`, `ResendsAssumption`).  They are listed in `PROJECT.json`.

*FileVault.*  `TypeInv` adds to `TypeOK` that a process at work is at work on an uploaded
file; without it `on[p]` could be no file.  Each safety theorem then has a
strengthening of its own.  `WipedInv` says that a process that has passed Wipe has
wiped, which carries `DeletedMeansWiped` over the steps between the disk and
the transaction.  `IntactInv` adds that a written ciphertext waits for its row.
`OneTimeInv` adds that a download about to respond has gone through the burn.  `CountedInv` counts the downloads
past `CountDownload` and not only the answered ones.  `AuditInv` adds that a worker about to record EXPIRE has seen
its file destroyed.  `GrantInv` is the key of the refinement: a download that arrived when
its link was closed has read, or will read, the reason, because every reason is
permanent.  With it each step of `FileVault` is a step of `ShareLink` or a stutter
(`LinkPromiseKept`).

*Overlap.*  Both bounds come from counting those who *may still* do damage together with those who have done it.
A download contends for the limit while it holds a count below it (`Contends`).  `OverrunInv` says that
once the limit is reached the count and the contenders together stay below the limit plus the most downloads
there ever were at once: an increment moves one unit from the contenders to the count, and a download that
arrives later reads that the limit is reached and does not contend.  `Remembered` says that the history holds at least what
is under way now.  `DestructionsInv` is the same argument with a sharper end: the first transaction
sets `isDeleted`, after which nobody joins the destructions under way, so events and
destructions under way together never exceed what `contested` remembers.

*Sessions.*  `IInv` adds to the properties that a row exists before its tokens are
used (`Order`, `InUse`), that a refresh past its revocation names a revoked session (`Spent`),
that a revoked session has somebody to answer for it (`Reasons`), and that a claim is never
more than the database says (`Claims`); the last needs that nobody is ever demoted.

*RefreshOverlap.*  `HoldersInv` bounds, beside the successors of a token, the refreshes that hold it or have
spent it without a successor yet (`Holders`): they only grow while the session is live, and then all of
them hold it at once, which `contended` remembers.  For logins, `Origins` says that a token's origin has
a session, and does not change once the token is in use.  `OrderlyInv` has four parts, none of which
is inductive alone: of an orderly login one token at most is live, counting the one about to be
inserted (`SingleSession`); a token that is held is that one (`HolderMeansLive`); one request at most holds
it (`SingleHolder`); after a logout there is neither (`LoggedOut`).  The proof goes by the three steps that
disturb it, an insert of a new login, an acceptance, a revocation; every other step is `Quiet`.

*TokenServer.*  Each action of `Sessions` and of `ApiClient` is mapped to `Grant`, `Accept`, `Exchange`, `End` or a
stutter (`TokenStep`, and the lemmas before it).  `ApiClient` needs one more fact than `IInv`, that a refresh the
server has found good carries tokens (`Carries`).  `NoTokenComesBack` draws a
consequence from `TokenServer` alone and has it for the browsers through the refinement.

*ApiClient.*  `IInv` says that failedQueue is the queued requests, unmarked, of
tabs that refresh (`Queue`); that a tab refreshes exactly while one of its requests leads, and
a leader is marked and has a refresh (`Leaders`).  The action property `QueueSharesTheOutcome` follows
from it step by step.  For `Resends`, `SendsInv` counts the refreshes that are *over* (`Done`) and not
those begun: a request is made again only when a refresh of its tab succeeds, which adds one to
`Done` in the same step, so the bound never lags.

That a request is made again with other cookies than were refused (`RetriedWithNewTokens`) is proved with `TriedInv`:
tokens that have not been delivered (`Undelivered`) are nowhere, in the cookies or on the way
(`Unworn`), so no token gets into the cookies twice, whichever tab puts it there; and from the moment the answer of
the refresh has set them, the cookies differ from those it was made with (`Replaced`).

*The pages.*  All is proved of the composition `MCPages`, in which a page's step leaves the variables of
the others alone, and may use up a fault.  Each page has an invariant of its own, and `EveryInv` is all
of them with `TypeOK`.

*FilePages.*  Four parts: `StoredInv` (what was
confirmed deleted is deleted), `JobsInv` (a deletion that was answered is deleted), `ListInv` and
`DetailsInv`.  They rest on three predicates of a query, stated for every set of true data, with a lemma
for each operator of the cache: `Whole` (its type), `Brings` (an answer under way that will count as
fresh is true) and `Fresh` (what is shown as settled is true).  While a mutation of the dashboard is
under way (`Rolling`) the list need not be `Fresh`, as it holds an optimistic change or may get back
one; the invalidation that the last of them leaves behind makes it so again.  That is why
`onSettled` must invalidate after an error too: the mutant `RowFailsQuietly` drops it.

*UploadForm.*  `UploadInv` adds that at most one upload is waited for, and none beside a link on display
(`Waiting`), that attempts are used in their order (`Order`), and that a file in the form that is no
longer fresh belongs to the last attempt, which is waited for or failed (`Unsent`).

*AuthPages.*  `AccountInv` adds that no answer on its way brings a user after a confirmed
logout (`NoUserOnTheWay`), that a router at rest at a form has no known user (`SentOn`: some
effect has sent him on), and that the settings page's hook is at work only there (`HookAtSettings`).

*Tables.*  `PagedInv`: a page is in the cache, on its way, or on display only if it has rows or is the
first; it lasts because entries only grow.  The lemma on ceiling division says that a page before the
last leaves rows for the next.

*AdminFiles.*  `PanelInv`: once a deletion is confirmed, every table that counts as settled tells of it.

*SharePage.*  `Windows`: the window under way began with the first request it let pass, and a request let
pass `max` requests before that one was so `windowMs` earlier.  `BurstBound` follows: 2 max - 1.

Only model-checked: the liveness properties `ExpiredEventuallyDestroyed`, `RequestsAnswered`,
`SettlesOrHangs`, `GuardDecides` and `KnownTabLogsIn`.  `ResendsBounded` and `WaitsForARefresh` are
what of `SettlesOrHangs` is safety, and they are proved.  TLAPS proves neither liveness under fairness
nor ENABLED, nor what a recursive definition computes for all data; nothing here is recursive.

What the properties leave out on purpose, because the code or the library does not promise it: data of a
*first* fetch that a deletion overtakes (`dated`); a total that was counted before the rows were read.

## 6. Not modelled, and what is left

- `sanitizeFilename`: a pure conversion of characters, whose result only names the download; the
  models name files by themselves.
- EncryptionService beyond what it decides: the algorithms are Node's.
- One composition of `Sessions` and `ApiClient`: they are checked apart, and meet in `TokenServer`, which
  both implement.
- Text and layout: toasts, progress, copying, searching and sorting of rows, the profile on the settings
  page, the attempt counter of the share page.
- Start-up, logging, health checks, request ids and configuration: no state that an operation reads.
- The proxy, beyond the messages it may lose.
