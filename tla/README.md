# Specifications of armadietto

TLA+ models of [armadietto](../src/README.md), a server for the remoteStorage
protocol: the modules, the TLC runs that check them on small instances and the
theorems about them that TLAPS proves for every instance.

## The system

The repository holds two servers that share no store.

* The **monolithic server** (`lib/armadietto.js`, `lib/controllers/`) dispatches
  by hand to controllers and keeps everything of a user in a directory of the
  file system through `lib/stores/file_tree.js`.
* The **modular server** (`lib/appFactory.js`, `lib/routes/`) is an Express
  application. Documents are blobs of an S3 bucket per user, through
  `lib/routes/S3_store_router.js`; users, invitations and passkeys are blobs too.

Both are single Node processes, so code between two `await`s runs alone;
everything else interleaves: the handlers of concurrent requests share the disk
or the bucket, and nothing else (one lock file per user, in the file-tree store
only). Nothing is transactional. A crash, a failed write or a timer can come
between any two writes.

### Inventory

| Part | State | Operations | Correct when | Module |
|---|---|---|---|---|
| File-tree documents (`stores/file_tree.js`, `stores/core.js`, `controllers/storage.js`) | a file per document, `.~meta` per folder (ETag, an entry per child), a lock file per user | GET/HEAD of a document, GET of a folder, PUT, DELETE, `_lock`, `_unlock` | one writer at a time; index and disk agree between writes; conditions respected; readers get what was current | `FileTree` |
| What a document store promises | versions and contents of documents | put, delete, get, refuse, fail | — (it is the specification) | `DocumentStore` |
| File-tree accounts (`createUser` ... `permissions`, `checkToken`) | `auth.json`: password and OAuth sessions | signup, OAuth grant, revocation, token check | a token opens what it was granted and no more; no change lost when none overlapped | `AuthFile` |
| S3 documents (`routes/S3_store_router.js`) | a blob per document, a cache blob per folder listing | GET of a folder, PUT, DELETE | caches are true; If-Match respected | `S3Store` |
| S3 users and admin blobs (`createUser` ... `updateUser`) | a bucket and a record per user, invitations, contacts | create, read, update | one creator per name; records keep every change | `Accounts` |
| S3 pausing (in `S3_store_router.js`) | count of pauses, latest promise, length of the next, timers | `pauseS3Requests`, `s3send`, `rejectIfBusy`, `reduceS3PauseBecauseOfSuccess` | the store opens again; what is admitted is answered, and at once; pauses do not pile up | `S3Pause` |
| Invitations, login, account page and user records (`routes/admin.js`, `login.js`, `account.js`, `oauth.js`) | a session per browser: a user, challenges | redeem or cancel an invite, register a passkey, log in and out, grant | a challenge belongs to a user who exists; a confirmed passkey stays | `Accounts` |
| OAuth and logins in one session (`routes/oauth.js`, `login.js`, `util/updateSessionPrivileges.js`) and storage middleware (`routes/storage_common.js`) | a session: the OAuth request, challenges, user, privileges; tokens that apps hold | open a page, allow, log in and out; a storage request | a token is what the user saw; privileges are the user's own | `OAuth` |
| Rate limiting | points per address (a library) | consume, reward, penalty | — | not modelled |
| WebFinger, static pages, views, browser scripts, start-up, logging | none or configuration | — | — | not modelled |

The parts meet as follows. A storage request of the monolithic server runs
`checkToken` (AuthFile's `AccessAllowed`) and then a store operation (FileTree).
The two use the same lock file through `revokeAccess` and `put`/`delete`, but
different data files, so each module has the lock to itself and steals it under
the same assumption. In the modular server `storage_common.js` checks the JWT
before S3Store's operations (OAuth's `Status`); no state is shared with the account
records. The routes call each other only through the session and the records:
Accounts has the records with one tab per browser, OAuth the session with several.
S3Pause stands beside S3Store and Accounts: every S3 command of theirs passes
`s3send`, and may end in any of the ways S3Pause distinguishes.

### What is hard

The list with lines is in `PROJECT.json` under `hazards`. In short: readers
without a lock beside a writer that truncates and refills files; an index that is
a second copy of the directory tree, updated file by file (in parallel in `put`,
bottom-up in `delete`); a lock that times out, is stolen when stale and is left
behind by an exception; reads of `auth.json` whose write-back happens later and
without the lock; folder caches in S3 dropped at the same time as the document is
written; conditions checked on a listing and applied later; `PutObject` requests
that outlive their time-out; a handler that answers twice and ends the process;
user records that are copied into sessions and written back whole, requests later;
a session that handlers of several tabs load, change and save each in its own copy;
a scope that three pieces of code read in three ways; pauses that overlap, each
with a timer of its own, while one counter and one promise stand for them all.

## Modules

### FileTree

One user's storage in the file-tree store. A path is a sequence of names.

| Variable | In the code |
|---|---|
| `locked` | the user's lock file exists (`_lock`, `_unlock`, package `lockfile`) |
| `dirs`, `file` | directories; files of documents: `NoFile`, `Torn` (truncated), or a value |
| `meta[f]` | `.~meta` of folder f as `readMeta` returns it: missing or torn is `{ items: {} }` |
| `now` | `Date.now()`, from which `put` and `delete` take ETags |
| `pc`, `req`, `buf`, `todo`, `open`, `ans`, `tries` | a handler's place and locals: metadata objects in memory, folders above still to be updated, metadata files it has truncated, its answer, the attempts of a GET |
| `writes`, `crashes` | bounds |

Each action goes from one `await` to the next. `writeFile` is two actions,
truncation and filling, because readers, errors and crashes come in between
(`PutOpen`/`PutFill` for documents, `OpenOwn`/`FillOwn` and
`OpenAbove`/`FillAbove` for metadata). `put` updates the folders above in any
order, as `Promise.all` may; `delete` from below, skipping folders that keep
items (`SkipAbove`). `PutFails`, `DeleteFails`, `AboveFails` and
`PutMkdirThrows` are the catch blocks and the one exception that misses them.
`GetMeta`, `GetContent`, `GetAnswer`, `GetRetry` and `GetGivesUp` are
`_lockfree_get`, `_etagMatchOrThrow` and the loop around them. The item of a 304 is
the folder's metadata, for a document too, so its ETag is the folder's.

`DocumentStore` says what clients may rely on: every PUT and DELETE takes effect
at one instant, on the versions of that instant, respecting the condition and the
separation of documents and folders; before it the content is written in place, once
nothing can refuse the change any more (`Begin`, `Write`). A GET or HEAD answers the
version of one instant, with its content unless the document is being written then
(`BeingWritten`), which is when a reader can meet half a file, or with a 304 exactly if the
client names that version; a 304's ETag is left open. Only a 404 may be wrong, and
only while the client of a write under the same folder waits for its answer
(`Unsettled`): the folder's metadata file is being rewritten (`ft_get_absent`).
`FileTreeStore` maps FileTree to it. The instant of a change is `OpenOwn`, the truncation
of the folder's own metadata: from then until it is filled the truth is in the writer's
memory (`CommittedVersion`). The instant of a read is its last comparison of the folder's ETag.

### S3Store

One user's bucket. An ETag is a hash of the content, so it stands for it; a
listing is a set of documents below the folder with their ETags, and the empty
set where there is no cache blob. Each S3 request takes effect at one instant
between its sending and its answer; requests sent together (`tasks`) take effect
in any order, a `DeleteObjects` request one key at a time. `PutTimesOut` keeps the
request in `late` after the handler gave up on it. `TaskFails`,
`HeadsAbandoned` and `Crash` are failures. `PutConflict` is not one: the 409 that
`putBlob`'s 412 leads to has no `return`, the handler throws twice, and no handler of
unhandled rejections is registered, so the process restarts.

`Shown` translates the prefix query and the cut of keys: a sibling whose name
begins with the folder's name appears in it. `Beyond` says which names are such
pairs; it is empty in the runs, whose properties compare a cache with the
documents below the folder.

### S3Pause

| Variable | In the code |
|---|---|
| `numS3Pauses`, `s3PausePrms`, `s3PauseMs` | the variables of these names; a promise is the pause whose timer resolves it, or `Resolved` |
| `timers` | pauses whose timers have not fired |
| `pc`, `op`, `nth`, `awaits` | a request or call: what it does, which of its commands it is at, the promise that this `s3send` awaits |

`Admit` is a request that `rejectIfBusy` lets through, up to its first `s3send`; `Call`
an account or admin-blob method, of which three look at the count and the others do
not. A command ends in `NextCommand`, `Succeed` (which shortens the next pause),
`SlowDown` (which starts a pause) or `End`; `EndPause` is a timer. Timers fire in any
order, since the length of a pause shrinks with successes. `StreamBreaks` is a
download that breaks off: `router.get` returns the pipeline's promise unawaited, its
rejection is nobody's, and the process starts again. Commands sent together count as one.

### AuthFile

One user's `auth.json` as `readAuth` returns it (null when missing or torn).
`createUser`, `authorize` and `revokeAccess` are a read (`RegisterRead`,
`GrantRead`, `RevokeRead`), a truncation (`Open`) and a fill (`Fill`). `account` is
what the requests that took effect add up to, `issued` what each token was
generated for, `disturbed` whether two changes overlapped or one failed; the three
are history and no action's guard reads `account` or `disturbed`.
`Covers` is `checkToken`'s loop over `core.parents`.

### Accounts

The users of the modular server and the sessions of browsers.

| Variable | In the code |
|---|---|
| `invites`, `contacts` | the admin blobs `invites/<token>.yaml` and `contactUrls/<contact>.yaml` |
| `account[n]` | n's bucket (`none`, `bucket` without a record, `user`) and the record in it |
| `owner[p]` | the user for whom an authenticator made passkey p, its `userHandle` |
| `session[b]` | `req.session`: `user`, `isUserSynthetic`, the three challenges |
| `page[b]` | the token in the address of the invite's page that b shows |
| `pc`, `op`, `buf` | a handler's place and the user in its memory |
| `confirmed`, `outdated`, `raced` | history, in no guard: passkeys answered with 201, browsers with a copy that a write made out of date, users written from such a copy |

An action is one S3 request with the code up to the next: `Accept`,
`AcceptExpired`, `AcceptContact`, `AcceptUser` are `loadAdmin`; `Options`,
`CheckBucket`, `CreateBucket`, `CreateRecord` are `getRegistrationOptions` and
`createUser`; `VerifyRegistration`, `Login` and `Oauth` end in `UpdateUser`. The
authenticator is free to fail. A record's copy goes stale between `AcceptUser` and
`UpdateUser` of a registration, which are different requests, and between
`VerifyPasskey` and `UpdateUser` of a login, which are one.
A passkey's use (its counter and date) is not told apart.

### OAuth

One browser with several tabs, so one session; browsers share none.

| Variable | In the code |
|---|---|
| `store`, `live`, `cookie` | the session store of `express-session`, and the id that the browser sends |
| `pc`, `op`, `serial` | a handler's place, what its request presents, and the random values made for it: a challenge, a session id |
| `sid`, `sess` | `req.session`: its id and the handler's copy of it |
| `page` | what a tab shows, with the challenge in it |
| `tokens` | the JWTs that apps were sent; the server keeps none |
| `allowed`, `valid` | history, in no guard: pages on which the user pressed Allow; the challenge of the last page, until something ends it |

`Accept` loads the session, `EndAndSave` saves the copy as the response ends, so
the handlers of two tabs overwrite each other. `ShowPage` is `GET /oauth/:username`,
`NotVerified`, `UpdateFails`, `Regenerate` and `Sign` are `POST /oauth`; `LoginPage`,
`Login`, `LoggedIn`, `LoginFails`, `Logout` are `login.js`, at `/account/` and
`/admin/`. What `POST /oauth` does in its `finally` block is after the session was
saved and is lost with the copy. `Status` is `storage_common.js` as a function of
token, request and age; `Shown`, `Granted` and `Covers` are the three readings of
a scope: `parseScope` for the page, `POST /oauth` for the token, `checkToken`.
Methods other than GET and PUT are checked as one of these is.

### MC modules and proof modules

`MCFileTree`, `MCS3Store`, `MCAuthFile`, `MCAccounts`, `MCOAuth` give names, documents,
scopes and symmetry; S3Pause needs none.
`FileTree_proofs`, `FileTreeIndex_proofs`, `FileTreeStore_proofs`, `S3Store_proofs`,
`AuthFile_proofs`, `Accounts_proofs`, `OAuth_proofs` and `S3Pause_proofs` hold the
theorems. Definitions commented "Mutant of" are no part of a model: each is a
plausible slip in one definition, under which the named property fails.

## Runs

| Run | Question |
|---|---|
| `ft_writers` | Are two writers of overlapping paths serialised, and is the index exact between them? |
| `ft_faults` | What survives I/O errors, a crash and stolen locks? |
| `ft_readers` | Are answers current without a lock, with the content that belongs to them, and does every request end? |
| `s3_store` | Are caches and answers true when nothing disturbed a listing, and does If-Match hold with failures? |
| `auth_file` | Is `auth.json` the account, and does a token open what it was granted? |
| `accounts` | Is a user created once, does a challenge belong to a user, and when is a passkey lost? |
| `oauth` | Does a token give what a page showed, with two tabs, logins and faults in between, and does the session keep its privileges straight? |
| `s3_pause` | Do overlapping pauses end, does everything admitted get its answer, and at once? |
| `ft_put_lost`, `ft_get_absent` | disagreements of the file-tree store with notes and comments |
| `s3_stale_listing` | the same for the S3 store |
| `accounts_passkey_lost` | the same for user records |

**Properties of FileTree.** `MutualExclusion`: one writer between `_lock` and
`_unlock`. `IndexMatchesDisk`: between writes, a document is listed exactly if
its file is there. `FoldersListed`: a folder is listed exactly if a document
is left below it, the point of `delete`'s upward loop. `DocXorFolder`: a path is
never both, although `put` skips its test for folders named like the document; `mkdirp`'s
failure makes up for it. `TaggedPutIsStored`: a PUT answered with an ETag is on
disk under it in every folder above. `ConditionalWrite`: nothing is overwritten or
unlinked but the version named. `AnswerIsCurrent`: a GET is answered 304, under the
folder's ETag, exactly if the client names the version that is current when it answers, and
200 under that version's ETag. `Answered`: every request ends. `ImplementsStore`: the refinement.

What these do not say: `MutualExclusion` is about the handler that holds the lock, and
when one of a put's parallel writes failed, the others go on without it (`AboveFails`) beside
the next holder. They may spoil the index, as may a crash between two writes:
`IndexMatchesDisk` and `FoldersListed` are stated without I/O errors and crashes, and no
property bounds that damage. `AnswerIsCurrent` holds all the same, of the index as it is.

**Properties of S3Store.** `UndisturbedCache`: if no listing ran beside a write
and nothing failed, each cache equals the documents below it, whatever the
writers did to each other. `ConditionalPut`: a PUT with If-Match replaces the
version it names or nothing, also when S3 executes it after the handler gave it up
(`LatePut`). `ListedExactly`: while no listing ran beside a write, every answer
to a GET of a folder is exact, from a cache blob, put together from keys and caches of
subfolders, without content types, or a refusal; a document and a folder that two PUTs gave
one name at once are shown as the folder. `UndisturbedCache` and `ListedExactly` are silent
once a listing overlapped a write or anything failed: caches may then be wrong for
good, and `s3_stale_listing` shows one way.

**Properties of AuthFile.** `UndisturbedAuth`: the file is the account unless
changes overlapped or one failed; of what is lost then it says nothing. `AccessAsGranted`: a token never opens more than it was
generated for even when they did, and exactly what it is granted when they did not.

**Properties of Accounts.** `OneCreator`: of the browsers that pick a name at once
one writes its record, and only a fault leaves a bucket without one.
`ChallengeHasAccount`: the user a registration challenge belongs to exists, through
pages that clear, replace or keep the session. `ConfirmedPasskeys`: a confirmed
passkey is in the record unless the record was written from an outdated copy;
`accounts_passkey_lost` shows that such writes do lose one. A login or a grant that
overlaps a registration is such a write too.

**Properties of OAuth.** `GrantedAsShown`: a token is for app, user and scopes of one
page that the user allowed, although every page and login of the session writes the same
`oauthParams`. `AccessAsShown`: beyond public documents, the storage lets a request through
only for the token's user, origin and term (and `maxAge`), and only in a module that an
allowed page mentions; and exactly where that page said so, the name as it was asked,
unless an odd scope is about the path. The odd scopes (`Odd`) are those on which the
three readings disagree: names that lose characters, levels such as `rwx`, a name asked for
twice, and `public`. Without the exception the property is false. `PrivilegesEarned`: a
session has the privileges of the user verified last, and administers only after an
administrator's login. `PageStaysValid`: the last page can still be answered
unless its session ended or requests overlapped, whoever logs in meanwhile.

**Properties of S3Pause.** `AdmittedAtOnce`: when the count is 0 the latest promise is
resolved, so a request that is let in never begins by waiting. `PausesBounded`: pauses
running are no more than requests that ended since the first. `Reopens`: however they
overlap, the store opens again. `Answered`: what was admitted, and every call, ends.

### Bounds

* Two clients: a race here is between two handlers; a third adds queueing for the
  lock, which `MutexCorrect` covers for every number.
* Documents `a`, `a/b`, `a/a`, `a/b/a`: a document in the place of a folder, siblings,
  two levels above a document (parallel parents, a chain that empties), and a
  document named like the folder above, which `put` tests less.
* `MaxWrites` 4 without readers: create, remove, create again below or above, and one
  more beside it. 2 with readers or faults, where every interleaving of
  a reader with both halves of each write is what matters. `MaxTries` 1: a retry happens and
  then gives up.
* One value suffices for the writers of FileTree, since versions are told apart by
  ETag; `ft_readers` has two, so that content can belong to another version than the ETag
  beside it. Two in S3Store, where the ETag is the content.
* `ft_readers` and `ft_faults` let both clients write, read documents and list folders, so
  a read meets a write, another read or nothing; HEAD, which is a GET less one step, is
  in `ft_faults` only.
* S3Store: three requests, one fault, `c/a` and `c/a/b`: a writer beside another
  and a listing before or after, or one that caches a level below.
* AuthFile: four requests (register, two grants, a check or revocation), two
  tokens, one fault; a permission of a folder, of a folder in it and of everything;
  a document, a folder and a public document.

* Accounts: two browsers, users and invites, one contact (so that invites meet in its
  blob), two passkeys, one fault, seven requests: six are two browsers that open,
  answer and confirm an invite each, and one more is a login or another page between.

* OAuth: two tabs, apps and users (one with storage, one who administers), four requests
  and one fault: two pages and their two answers, or a page, a login in between
  and the answer. One set of scopes: three plain ones, a name that loses its dash, one asked
  for twice and `public:rwx`; paths with a segment too few, too many, and in public.
  Tokens for `*` and apps that ask for different scopes in one session are left to
  `AccessCorrect` and `GrantedCorrect`, which hold for all.
* S3Pause: three requests, so that two pauses overlap while a third request waits for
  either, and one call; lengths 20 to 30 with the code's rounding; two commands per request.

`CHECK_DEADLOCK FALSE` is set where the bound on requests ends a behaviour: a
server without requests has nothing to do.

### Assumptions

* **Stale locks.** An operation ends before its lock is `lock_stale_after_ms` old,
  so only a lock whose owner is gone is stolen (`LockIsStale`).
* **Time passes** between two stamps (`DistinctStamps`). Two versions of one
  millisecond have one ETag, and nothing that depends on ETags can hold.
* **Fairness**, in FileTree for `Answered`: weak fairness of each handler's steps.
  Node runs every callback that is due, the file system answers, and the timers of lock
  and retry expire. No fairness is assumed of requests, crashes, errors or of which
  handler gets the lock. In S3Pause, for `Reopens` and `Answered`: weak fairness of each
  timer, of a handler whose promise is resolved, and of the answer to a command: S3's
  or, when S3 is silent, the client library's time-out.
* S3 requests are atomic and read what was written (S3 has been strongly consistent
  since 2020; the code does not check for it). `CreateBucket` of a bucket that exists
  is an error, as the code expects.
* **Pages.** A browser shows one page of the server and waits for its answers before
  it sends the next request; the page of an invite for an existing user sends that
  user's name, as `assets/register.mjs` does. An authenticator makes no passkey twice.
  In OAuth these pages are tabs of one browser, each of which waits for its answer.
* **Sessions.** `express-session` loads a copy of the session for each request and saves it when
  the response ends; random challenges and ids do not repeat.

## Theorems

TLAPS proves these for every value of the constants that satisfies the modules'
assumptions; bounds such as `MaxWrites` are arbitrary.

| Theorem | Says |
|---|---|
| `FileTree_proofs!TypeCorrect` | `TypeOK`, with errors and crashes |
| `FileTree_proofs!MutexCorrect` | `MutualExclusion`, with errors, crashes, stolen locks |
| `FileTree_proofs!AnswerCorrect` | `AnswerIsCurrent` (statuses, ETags and listings of GETs), with errors, crashes and stolen locks, if no two stamps are equal (`0 \notin ClockSteps`) |
| `FileTreeIndex_proofs!IndexCorrect` | `IndexMatchesDisk`, without errors and crashes |
| `FileTreeIndex_proofs!ConditionalWriteCorrect` | `ConditionalWrite`, without errors, with crashes |
| `FileTreeIndex_proofs!TaggedPutCorrect` | `TaggedPutIsStored`, without errors, with crashes |
| `FileTreeIndex_proofs!FoldersCorrect` | `FoldersListed`, without errors and crashes |
| `FileTreeIndex_proofs!DocXorFolderCorrect` | `DocXorFolder`, without errors and crashes |
| `FileTreeStore_proofs!RefinementCorrect` | `ImplementsStore`, readers included (but for a 304's ETag), under `Faultless`: no errors, crashes or equal stamps |
| `S3Store_proofs!ConditionalPutCorrect` | `ConditionalPut`, with every failure and late `PutObject` |
| `S3Store_proofs!TypeCorrect` | `TypeOK`, with every failure, if no name begins with another |
| `S3Store_proofs!CacheCorrect` | `UndisturbedCache`, under the same condition on names |
| `S3Store_proofs!ListedCorrect` | `ListedExactly`, likewise |
| `AuthFile_proofs!TypeCorrect` | `TypeOK` |
| `AuthFile_proofs!AuthCorrect` | `UndisturbedAuth` |
| `AuthFile_proofs!AccessCorrect` | `AccessAsGranted` |
| `Accounts_proofs!TypeCorrect` | `TypeOK` |
| `Accounts_proofs!CreatorCorrect` | `OneCreator`, with failures and crashes |
| `Accounts_proofs!ChallengeCorrect` | `ChallengeHasAccount`, likewise |
| `Accounts_proofs!ConfirmedCorrect` | `ConfirmedPasskeys`, likewise |
| `OAuth_proofs!TypeCorrect` | `TypeOK` |
| `OAuth_proofs!GrantedCorrect` | `GrantedAsShown`, for any tabs, apps, users and scopes |
| `OAuth_proofs!AccessCorrect` | `AccessAsShown`, for any names, levels, scopes and paths |
| `OAuth_proofs!PrivilegesCorrect` | `PrivilegesEarned` |
| `OAuth_proofs!PageCorrect` | `PageStaysValid` |
| `S3Pause_proofs!TypeCorrect` | `TypeOK`, so that `s3PauseMs` keeps its bounds, whatever they are |
| `S3Pause_proofs!AdmittedCorrect` | `AdmittedAtOnce` |
| `S3Pause_proofs!PausesCorrect` | `PausesBounded` |

The arguments:

* **Types** need to know which request is served at which place (`ServesOK`):
  a handler in `delete`'s code serves a document's path, so the folder it indexes exists.
* **MutexCorrect.** `MutexInv` adds that a critical handler implies a lock
  file. The lock file may exist without an owner (exception, crash) but not the reverse;
  taking needs no file, stealing no owner. A put whose parallel task failed leaves the
  critical section before it unlocks ("detached").
* **IndexCorrect.** The property speaks of quiet states and is not inductive. `Parts`
  follows each folder's metadata to where it is, on disk or in the memory of the
  handler that truncated the file, and exempts the one document being written from
  when its file changes until its metadata file is truncated; mutual exclusion makes
  it one. A folder above is rewritten with a new entry for a subfolder only,
  so entries of documents survive.
* **ConditionalWriteCorrect, TaggedPutCorrect.** `Writers`: while one handler is in
  the critical section all others are outside it and have nothing pending, so what
  it read from its folder's metadata is there when it writes, and the folders above that
  it has rewritten carry its stamp when it answers. I/O errors are excluded since a
  put that failed goes on writing with no lock; crashes only lose the handler.
* **FoldersCorrect, DocXorFolderCorrect.** `DirsOK`: a file stands in directories and is
  none, and a folder with an ETag is a directory. `ListInv` says that an entry of a folder
  is there exactly if a document is left below it, but for the entries that the
  one writing handler has yet to write or clear (`Pending`), which for a delete are all
  still there. `EmptyFolder`: a folder whose deeper entries are settled is empty exactly
  if no document is below it, so what `delete` reads tells it when to stop.
* **RefinementCorrect.** A request is committed by `OpenOwn`, which truncates its folder's
  metadata file to take the new entry; `CommitOK` says what that will commit, and every other
  step of a writer is a `Call`, `Begin`, `Write`, `Forget`, `Fail` or `Refuse` of DocumentStore
  or shows nothing there. That a 409 is deserved needs `Lists` (put finds a folder's entry only if
  a document is below it, `IsDirClashes`). That a commit makes no name both document and
  folder, which put does not test completely, needs `DirsOK` (`OwnCommits`).
  For the readers, `ReaderOK`: what a reader holds as a document's content is that of the
  version it had read, as long as the folder's ETag is the one it read (`TagsOK` keeps a
  folder from getting an ETag back) and no writer has opened the document; so the
  comparison at the end makes both true at once. `Truncated`: a metadata file that a
  handler has truncated shows no ETag, so whoever found one read what is committed; and
  that handler's client has no answer yet, which is what excuses a wrong 404.
* **AnswerCorrect.** `get` holds no lock, so the argument is about stamps: `TagsOK` says
  that two handlers amid their writes have different stamps, that a folder which a
  handler is still to write does not have its stamp yet, and that no reader holds that stamp
  (`ToWriteOK`, `ReadOK`). So a folder never gets an ETag back with other metadata, and the
  second reading of the ETag suffices. It holds for the detached tasks of a failed
  put as well. If two stamps may fall in one millisecond the property is false.
* **ConditionalPutCorrect.** The condition was tested against a listing that may be
  stale when `PutObject` runs. `RememberInv`: the listed ETag, which is sent
  along, is the version named, for as long as the request is under way, and after
  the handler gave it up (`LateRemembers`).
* **CacheCorrect, ListedCorrect.** `CalmInv`, while undisturbed: a cache that is wrong is about to be
  dropped by a writer (`CachesOK`); a writer whose change is still to come has cleared
  each cache above its document or is about to (`ClearsAbove`), so the change makes no
  cache wrong that stays; a lister runs without writers, so all caches it finds are
  exact, and `ListingExact` shows that what it puts together from keys and caches then
  is exact as well (`ItemsExact`). A document on a folder's path is shown once, by the topmost
  cache above it or by itself (`TopCache`). The hypothesis `NoSiblings`: where a
  name continues another, listings show foreign items (`Shown`) and the property is false.
* **AuthCorrect.** While undisturbed, at most one handler is changing the record, its
  buffer is the account plus its request, and the file is the account, or torn while
  that handler fills it.
* **AccessCorrect.** `TokenInv`: every record, in the file, in memory and in
  `account`, gives each token either nothing or exactly what it was generated for.
  `CoversIsOpens` shows that `checkToken`'s list of parent folders is the set of folders
  that contain the path, `/public/` included.

* **Accounts.** The record is in S3, in sessions and in handlers. `Places` says what a
  handler holds at each place, `SessionOK` that a session's user exists unless it is
  made up from an invite, `Fresh` that a copy which is not out of date has
  every passkey of the record, `Registers` that a registration adds only passkeys
  made for that user. `Compose` reduces each step to its own browser: another
  browser is disturbed only by a write of the user it holds, and then it is outdated. A
  record written over a bucket loses nothing since only users have passkeys.

* **OAuth.** A challenge is a request's, so no two pages have the same
  (`Agree`, `Unused`, `Serials`), wherever the session, a handler's copy or a tab holds
  them; a credential that verifies was then given on the page whose parameters the
  session has (`CredentialOK`). `AccessCorrect` adds `CoversOf` (what `checkToken` asks for
  is a module that the path is in) and `PlainScopes`: of a scope that is not odd the page
  shows what the token has, of a name asked for twice the last mention (`LastOf`). `EarnedInv` and the invariant of `PageCorrect` follow every copy.
* **S3Pause.** The count is the number of timers (`Counted`), and whoever holds a
  promise that is not resolved holds that of a timer (`Held`): so at 0 all are resolved.
  A pause is started by a request that ends, and none is admitted until the count is
  0, which bounds the pauses by the idle handlers.

**Only model-checked:** `Answered` and `Reopens`, as liveness is out of the prover's
reach; the violations.

## Disagreements found

Each is a run that ends in a counterexample; the quoted lines are in
`PROJECT.json`.

1. `ft_put_lost`: a PUT answers 200 and stores nothing. `delete` leaves empty
   directories; a later PUT of a document of that name passes every test, `writeFile`
   fails with EISDIR, and the catch block's result reads as success.
2. `ft_get_absent`: a GET of a stored document answers 404 while a sibling's
   PUT has the folder's metadata file truncated.
3. `s3_stale_listing`: a listing that overlaps a PUT stores the listing from before
   it as the cache after the PUT dropped it; it stays until the next write.
4. `accounts_passkey_lost`: a passkey that was confirmed to one browser is gone
   after another browser redeemed an invite of the same user.

Others were read in the code and have no run, most because one request shows them:

* `delete`'s "update all parents" (`file_tree.js:333`) stops at the first folder that
  keeps items, and the ETags above it do not change.
* A DELETE with If-Match in S3 compares with a listing and deletes whatever is there
  then (`S3_store_router.js:618`).
* A listing of `foo/` in S3 shows part of the name of `foo.txt`, as the prefix it asks
  for lacks the slash (`S3_store_router.js:246`).
* "Kills the challenge for this session" (`oauth.js:138`): the session was saved when the
  response ended, so challenge and parameters stay in it.
* Tokens are refused after 30 days (`maxAge`, `storage_common.js:19`), while the page offers
  grants of up to 366 (`views/auth-passkey.html:36`).
* `jwtErrors` (`storage_common.js:116`) names another scope than `checkToken`
  asks for: it takes the second segment for the first.
* The page shows a scope such as `my-docs`, and the token opens `mydocs`. For `docs:rwx` it
  shows no level, and the token may write. Of a module asked for twice it shows the last
  level, and the token has both. `public` is shown as a module, and the token opens
  `/public/public/`. `AccessAsShown` excepts these scopes.
* The 304 of a document carries the folder's ETag (`file_tree.js:211-213`,
  `controllers/storage.js:63-66`), which a sibling's write changes, where
  `spec/armadietto/storage_spec.js:243-250` expects the item's and `notes/protocol.md:123`
  "the current one for `GET`"; sent back as If-Match it is refused.
* "S3 requests that start pausing afterward will wait longer"
  (`S3_store_router.js:119`), and the comment on Retry-After at line 1233: after
  successes a later pause is shorter than an earlier one that still runs.
* SlowDown starts no pause when it answers a GET's listing (its inner catch,
  `S3_store_router.js:215`), the `DeleteObjects` of a PUT, or a call of another route.
* A request under way when the user logs out saves the session again
  (`login.js:100`).

## Not modelled

* Headers, content types (in S3Store, whether a listing must ask for one is a free
  choice), ranges, quotas, result pages of listings, logging, HTML.
* `.~meta` above the storage root, which `put` writes and no GET reads.
* GET of a document in S3: one S3 request.
* Of accounts: usage counters, requests for invites, `bootstrap`, the lists
  of users, and `deleteUser`, which nothing in the server calls (S3Pause has its
  commands, not what they delete).
* Rate limiting: the points are kept by `rate-limiter-flexible`, whose arithmetic of
  bursts is not in the repository; the code only consumes and gives back.
* Requests of an app without a parameter, redirection to HTTPS.
* Password hashing, JWT and WebAuthn verification: libraries, external to the models.
* The parts marked "not modelled" above, and browser code but for the authorization page.

## Plan

1. FileTree, DocumentStore, FileTreeStore: done. Left: what DocumentStore could still
   promise of writes that crash between the file and its metadata.
2. S3Store: done but for conditions other than `is` in a run.
3. AuthFile: done.
4. Accounts: done. Left: an abstract specification (a map of users to sets of
   passkeys) that it implements while nothing raced.
5. OAuth: done. Left: several browsers of one user that share the record, which composes
   it with Accounts.
6. S3Pause: done. Left: to compose it with S3Store, whose commands may wait for a pause
   while other handlers change the bucket.
7. `deleteUser`: passes over a bucket that its user's clients still write to
   (`S3_store_router.js:1050`).
