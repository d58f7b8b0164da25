# The Biergarten App: formal models

TLA+ models of the parts of this repository whose correctness depends on
interleavings, failures and the order of steps, TLC configurations that check
them on small instances, and TLAPS proofs that hold for every value of the
constants.  `PROJECT.json` lists the runs, the theorems, the hazards, and for
each definition the source lines it models.

## 1. The system

The repository holds a seed pipeline, a web API with its seeder, a web
frontend, a results viewer, and an archived Next.js application.

| Part | Where | State | Operations | Talks to |
|---|---|---|---|---|
| Seed pipeline (C++) | `src/tooling/pipeline` | sampled cities, generated records, export transaction | `Run`: initialize, sample, enrich, users, breweries, finalize | exporter, generators, enrichment, logger |
| Bounded channel | `includes/concurrency` | queue, closed flag, waiters | `Send`, `Receive`, `Close` | main thread, log thread |
| Logging | `src/main.cc`, `services/logging` | the channel, the log thread | `Log`, `LogDispatcher::Run`, `shutdown` | the channel, spdlog |
| SQLite export | `services/sqlite` | connection, cached transaction flag, city cache, five prepared statements | `Initialize`, `ProcessRecord` (user, brewery), `Finalize`, destructor | the SQLite engine |
| Generators | `data_generation` | the LLM context's memory; the prompt and attempt of a call | `GenerateUser`, `GenerateBrewery` with retries | llama.cpp, OpenAI |
| Enrichment, geocoding | `services/enrichment`, `services/address` | a response cache | look up | HTTP |
| Web API: accounts (.NET) | `src/web/backend`, `Features.Users` | accounts, credentials, verifications, profiles, follows | MediatR handlers over Identity and Dapper repositories | SQL Server, SMTP |
| Web API: content (.NET) | `Features.Breweries`, `Features.PhotoUpload`, `UserProfileRepository` | posts with a row version, locations, photos, avatar periods | create, read, update, delete; upload, replace an avatar | SQL Server, S3 |
| Database seeder (.NET) | `Database.Seed` | ids registered so far (in memory) | replays the SQLite file through the API's commands | SQLite file, handlers |
| Frontend: session | `src/web/frontend`, `auth.server.ts` and the auth and account routes | a signed cookie | login, register, logout, settings, rename, delete | API, browser |
| Frontend: brewery directory | `features/breweries` | the breweries shown, offset, fetcher | load page after page | API |
| Archive: community (Next.js) | `src/archive/next-js-web-app` | posts, comments, likes, images, follows; like buttons over SWR | API routes over Prisma | PostgreSQL, Cloudinary |
| Archive: accounts (Next.js) | the same, `controllers/users` | accounts, sealed session cookies, mailed tokens | register, login, confirm, reset, edit, delete | PostgreSQL, mail |
| Results viewer, other pages | `pipeline-results-viewer`, the rest of both web clients | rendering | | API, SQLite file |

What is hard in each part, and what makes it correct:

- **Bounded channel.**  Condition variables with `notify_one`, several senders
  and receivers, spurious wakeups, a close that races with blocked callers.
  Correct means: no lost wakeup, capacity respected, first in first out per
  sender, every item accepted or dropped exactly once, nothing left behind
  after exhaustion, close releases everybody.
- **Logging.**  The channel and both ends are locals of `main`; every exit
  path goes through `Close` and `join`.  Correct means: what was logged is
  written, in order, before main returns; main is held back, not the memory;
  the process ends.
- **SQLite export and orchestrator.**  Three inserts per record, a transaction
  whose state is cached in a flag, city ids cached in a map, statements that
  stay un-reset after an error, per-record errors that are swallowed, a crash
  at any point.  Correct means: the file holds nothing or the whole batch, a
  run that reports success is complete, an address is in its own city.
- **Generators.**  A retry loop whose prompt changes, around an inference that
  may throw anywhere and leaves its tokens in a context that outlives the call;
  prompt and answer share one window.  Correct means: a record is a valid answer
  of its own call, given in a clean context, and the window is never overrun.
- **Web API accounts.**  Requests read, modify and write an account in separate
  statements; an account, its credential, verification and profile are written
  by separate transactions.  Correct means: every account has a name, an
  e-mail and a working password at every moment, a replaced password and a
  deleted account stay gone, a profile is missing only after a failure that
  the caller was told of, and a new e-mail is verified only after it was
  confirmed.
- **Web API content.**  An object store and a table written one after the
  other; avatar periods that replacements at once must not overlap, on a clock
  that may be set back; optimistic concurrency by a row version that guards
  one of two tables.  Correct means: nothing refers to what is gone, no
  replacement is refused by the database, and no edit overwrites what its
  author has not seen.
- **Seeder.**  Many commands without a record of progress; runs die, are
  started again and overlap, while strangers register.  Correct means: nothing
  is seeded twice, exit code 0 means the whole file, and a run fails for a
  reason only.
- **Frontend session.**  A cookie computed from the request's cookie and stored
  when the answer arrives.  Correct means: one account's tokens, id and name,
  and the name of the account as it is.
- **Brewery directory.**  Offset pages over a list that changes, and a loader
  driven by an observer.  Correct means: repeats and misses only because of
  changes, and the last page is reached.
- **Archive.**  Chains of Prisma statements with no transaction around them,
  cascades, no unique key on likes, SWR answers overtaking clicks, account
  cookies and tokens that carry an id only.  Correct means: no dangling
  reference, only owners change rows (with one exception, see Observations), names
  stay unique, only a mailed token verifies, a deleted account stays deleted, a
  button at rest tells the truth.

## 2. Modules

| Module | Models | State and actions against the code |
|---|---|---|
| `FifoChannel` | what `BoundedChannel<T>` promises | a buffer and the set of calls in progress; one action per way a call ends |
| `BoundedChannel` | `bounded_channel.h`, `.tcc` | `queue`, `closed` are the members; `pc` says who competes for the mutex and who sleeps in a condition variable.  All code between taking and releasing the mutex is one action |
| `LogPipeline` | `main.cc`, `log_producer.cc`, `log_dispatcher.cc` | extends `BoundedChannel`; `app` is where `main` is, `writer` where the log thread is, `held` the local `entry` of `Run` |
| `SqliteExport` | `services/sqlite/*` and the engine it drives | `handle`, `txOpen`, `cache` are members; `stuck` the statements not reset; `engineTx`, `db`, `disk` belong to the engine.  One action is one call into SQLite with the C++ around it |
| `SeedRun` | `BiergartenPipelineOrchestrator::Run` | extends `SqliteExport`; `phase` and `next` are the program counter and loop position |
| `Accounts` | the writing handlers of `Features.Users`, `DapperUserStore`, `UserFollowRepository` | `account`, `credential`, `verified`, `profile`, `follows` are tables; `pc` is a request's next SQL statement or its answer, `user` the `ApplicationUser` in its memory.  One action is one statement, or a transaction's statements up to its commit |
| `Generation` | `GenerateUser` and `GenerateBrewery` of the llama and the OpenAI generator, `InferFormatted`, `CallChatCompletionsApi` | `memory` is the context's, `n_ctx` and `n_batch` its sizes; `stage`, `attempt`, `prompt`, `raw` the call's place and locals.  One action is one `llama_decode` or one request, with the code up to it |
| `AtomicExport` | what one run promises about its file | batch, file, sealed, result |
| `Content` | the handlers of breweries, photos and avatars, and the deletion of a user they interact with | `post`, `location`, `photos`, `avatars` are tables, `version` the last ROWVERSION, `objects` the bucket, `lock` the row locks; a request's `base` is what its client has read.  One action is one statement |
| `SeedReplay` | `Database.Seed`, with the location commands it calls | `account` ... `post` are the API's tables, `at` a run's next statement and loop index, `userIds` its list.  One action is one statement, or one transaction of a command |
| `WebSession` | the routes and `auth.server.ts` that read or write the session cookie | `cookie` is the browser's; a request carries the cookie it was sent with (`session`) and the one it answers with (`sets`).  Sending, serving, arriving and losing are actions |
| `BreweryDirectory` | `brewery-directory.tsx`, its loader and the list query of the API | `shown`, `offset`, `hasMore`, `fetch` are the component's state and fetcher, `rows` and `born` the table, `visible` and `notice` the IntersectionObserver |
| `NextStore` | `schema.prisma` | the rows and their foreign keys, cascades and RESTRICT; one action is one Prisma statement |
| `NextCommunity` | the archive's writing API routes | extends `NextStore`; `req` is how far each request's handler chain is.  One action is one statement with the code up to the next `await` |
| `NextLikeButton` | the three like buttons and SWR's cache | extends `NextCommunity`; a tab shows one post; `shown` and `failed` are SWR's data and error, `loading` the button's state, `fetch` the status request in flight |
| `NextAccounts` | the archive's account and session routes | `account`, `mail`, `cookie`; one action is one Prisma statement or one mail |
| `ChannelProofs`, `PipelineProofs`, `AccountsProofs`, `ContentProofs`, `SeedReplayProofs`, `WebFrontendProofs`, `NextCommunityProofs`, `NextAccountsProofs` | | theorems; `ChannelProofs` is about `BoundedChannel` and `LogPipeline`, `PipelineProofs` about `SeedRun` and `Generation`, `WebFrontendProofs` about `WebSession` and `BreweryDirectory`, `NextCommunityProofs` about `NextLikeButton` with all below it |
| `MC*` | | constants for TLC |

Operators called "Slip" in a comment are plausible mistakes (a forgotten
notification, a missing reset).  No specification uses them: each is there to
be put in the place of the definition below it, to confirm that a property
notices.

Composition: `LogPipeline` runs the real `BoundedChannel` with its two threads
confined to the loops around `Send` and `Receive`; `SeedRun` calls the real
`SqliteExport`; `BoundedChannel` is shown to implement `FifoChannel`, `SeedRun`
to implement `AtomicExport` until the first engine error.  `NextLikeButton`
runs browser tabs against the real routes of `NextCommunity`, which run on
`NextStore`.  `SeedReplay` reads files such as `SeedRun` writes (a user or a
brewery may lack its address) and calls the commands whose insides are in
`Accounts` and `Content`.

### Modelling decisions

- *Mutex.*  Every access to the channel's state is under `mutex_`, so a
  critical section is atomic; what interleaves is who gets the mutex.  A woken
  thread must win the mutex again and re-check its predicate, and another
  thread may be faster.
- *Items* are pairs of sender and call number: enough to tell lost, doubled and
  overtaken items apart.
- *Rows.*  Tables use `AUTOINCREMENT` and nothing is deleted, so a table is a
  sequence and a row id a position in it; a rollback also rolls
  `sqlite_sequence` back.
- *Engine errors.*  A constraint violation undoes its statement only.  A full
  disk, an I/O error or no memory during one of these single-row inserts makes
  SQLite give the whole transaction up and return to autocommit.  The exporter
  does not look (`sqlite3_get_autocommit` is never called), so its flag and
  its cache survive: `InsertFaults`.
- *A statement that failed is not reset* (`StepStatement` throws before
  `ResetStatement`), so its next `Bind` fails: `BindFails`.  Binding text also
  frees the buffer a second time on that path (`sqlite_statement_helpers.cc`
  line 57, after SQLite has called the destructor); the process goes on and
  throws or is aborted, and both are in the model.
- *COMMIT* may fail for any reason; then `RollbackAndCloseNoThrow` runs.
- *Emails* are unique by `BuildEmail`, so the `UNIQUE` of `users` cannot fail.
  Two curated cities that differ only in languages or in the ISO 3166-1 code
  would collide in the `UNIQUE` of `cities`; the shipped `locations.json` has
  none, the loader does not exclude it, and the city `twin` of the runs is one.
- *Generators, enrichment and geocoding* succeed or fail freely in `SeedRun`.
- *Generation.*  Text is counted in tokens, and a context's memory is how many it
  holds and of which attempts.  Whether an answer is valid is free: the grammar
  allows braces in no reasoning and nothing after the object, but an answer cut
  off by the limit may be whole or not.  A decode may fail after part of its
  batch.  Loading the model comes before the first call and ends the program
  when it fails.
- *Accounts: statements and isolation.*  The connections use SQL Server's
  default, READ COMMITTED, and no handler compares a row version.  A statement
  is atomic.  A transaction of two statements that other requests can get in
  between is two actions with `seen`, what its first statement has touched: the
  `UPDATE` that revokes credentials meets every one committed before it began
  and perhaps one committed while it waits for locks; the `DELETE` of follows
  misses those inserted after it, and then the foreign key refuses the
  account's deletion, as it does for posts, comments and photos.
- *Identity* (`UserManager`) is outside the repository and is modelled from how
  the handlers use it and what the store is asked: two queries for a free name
  and e-mail before every write, the confirmation dropped by `SetEmailAsync`,
  the current password compared before `SetPasswordHashAsync`.  It runs both
  queries even when the first has found the name taken; the model stops there,
  since the answer is the same.
- *Failures of a request.*  Before any statement a request may end with an
  exception (`Fails`) and its open transaction rolls back.  A commit that takes
  effect but whose acknowledgement is lost is not modelled.
- *Data of an account.*  Names, e-mails and hashes are model values; the birth
  date and the real names are left out, so `UpdateProfile` is a request that
  rewrites the row with what it read.  A request that sets a password sets
  a hash of its own, since every hash has a fresh salt.

- *Content: locks.*  Under READ COMMITTED a row that a transaction has written
  is locked until it ends; one it has merely read is not, and only `lock` knows
  the difference.  `SaveAvatarAsync` takes its lock with a hint before it reads
  the open period.  An upload stores the object first and the row second.  The
  database clock may stand still between two statements or be set back.
- *Seeder.*  A registration's checks and its insert are one step, since the
  unique keys make them look like one, and a taken e-mail is a taken name,
  since both come from the same user.  The rows of the file come in the same
  order in every run: the reader's queries have no `ORDER BY`, but the file is
  the same in every image.  The dictionaries that the seeder keeps of
  countries, provinces and cities only save queries, because nothing deletes
  those rows.  No account it has made is deleted meanwhile: nobody knows the
  random password.  A file need not be loadable: the pipeline's mock generator
  has 18 user names, and SQLite's `UNIQUE` of cities has four columns against
  two in the API.
- *Frontend session.*  The API behind it is reduced to what the cookie copies:
  which accounts there are and their names.  It reads an account and writes the
  whole row back in two statements, username included, for a rename and for
  every other setting alike (`FindsUser`, `UpdateAsync`).  An answer may arrive
  late, out of order or never.  A call of the API that breaks off is over, done
  or not, when the route hears of it.
- *Brewery directory.*  `ORDER BY CreatedAt` leaves breweries of one instant in
  any order, chosen again by each query.  An answer and its rendering are one
  step, because React renders before the observer reports.
- *Archive.*  A Prisma statement is a transaction of PostgreSQL, a request is
  none. Every foreign key cascades, except the two of `UserFollow` and the one
  from a brewery to its location, which refuse (`RESTRICT`). Files in the image
  store are fresh names. A brewery's PUT passes its body to Prisma as it is (see
  Observations). `UpdateBrewery` lets it change the brewery's columns, name
  another poster or a free location, delete any of the rows that hang on the
  brewery, with what hangs on them, and rewrite them or the brewery's location,
  or be refused. Bodies that create rows, move them to another post or poster or
  reach further than one relation are left out. The SWR cache keeps the newest
  fetch and drops an answer that a mutation has overtaken; a status fetch may
  fail for any reason, which leaves the data as it was beside an error; focus,
  reconnection and the retry after an error join a fetch that is in flight.
- *Archive accounts.*  Passwords are kept as how often they were hashed; a
  token holds an id, and the address it was mailed to is remembered for the
  properties only.

## 3. Runs

| Run | Instance | States | Shows |
|---|---|---|---|
| `channel` | 3 senders, 2 receivers, capacity 2, 2 sends each | 44 926 | `TypeOK`, `NoLostWakeup`, `FifoPerSender`, `ExhaustedIsFinal`, `ImplementsFifoChannel`, `CloseReleases` |
| `log` | capacity 2, 5 entries | 257 | `NothingLostOnTheWay`, `CleanExit`, `InFlightBounded`, `EveryEntryIsWritten`, `Terminates` |
| `pipeline` | a run: 3 cities of which two collide, 3 records per kind, up to 2 engine errors; or a generator: windows of 1, 2, 3, 4 and 7 tokens, batches of 3, prompts of up to 5, answers of 2 and 3, 3 records | 434 050 | `AllOrNothing`, `SuccessIsComplete`, `CachesAreRight`, `ImplementsAtomicExport`, `DecodeFits`, `HearsOnlyItself`, `FirstValidAnswer` |
| `seed_misfiled` | 2 cities, 2 records, 1 engine error | stops at a counterexample | `AddressIsInItsCity` is violated |
| `accounts` | 3 ids, 2 names, 2 e-mails, 2 requests of any kind, symmetry | 65 998 | `AccountsAreWhole`, `ProfileMissingOnlyOnFailure`, `PasswordIsReplaced`, `DeletedIsGone` |
| `accounts_reconfirm` | 2 ids, 2 names, 2 e-mails, 2 requests | stops at a counterexample | `NewEmailIsReconfirmed` is violated |
| `content` | 2 users, 1 post id, 2 names, 1 place, 2 requests at once and 4 in all, 2 clock values, symmetry | 3 039 353 | `ContentIsLinked`, `ReplacementsSucceed`, `NoLostUpdate` |
| `seed_replay` | 3 runs, 24 files, 2 strangers, symmetry | 16 888 | `NothingTwice`, `SuccessIsWholeFile`, `FailsForAReason` |
| `web_session` | 2 ids, 3 names, 2 browsers, 2 requests at once and 5 in all, symmetry | 1 003 860 | `CookieCoherent`, `CookieTellsTruth` |
| `web_directory` | pages of 2, 4 breweries in all that come and go | 199 086 | `RepeatsAreNewcomers`, `MissesAreDeletions`, `ReachesTheEnd` |
| `next_community` | 2 users, 9 seeded rows, three of them likes, 2 requests, uploads of 2 files, 2 tabs, 4 units of work, symmetry | 212 953 | `NoDangling`, `LikesBounded`, `ButtonTellsTruth`, `OnlyOwnersChange` |
| `next_accounts` | 3 ids, 2 names, 2 e-mails, 2 browsers, 2 requests at once and 4 in all, symmetry | 568 987 | `NamesAreUnique`, `VerifiedByMail`, `DeletedStaysDeleted` |

In `pipeline` a behaviour begins with a run of the orchestrator at rest and a
generator at rest, and then moves one of the two: the orchestrator sees no more
of a generator than a record or a failure, so nothing is lost by keeping them
apart.

Bounds. Two slots with three senders let two threads wait for one slot and one
overtake; two receivers sleep beside each other. Five entries over two slots
fill the channel, with one entry in the writer's hand and one in main's. Three
records per kind allow a known city, a new one and a colliding one in every
order, and a statement stuck at each of the five tables; two engine errors put
one before and one after the first loss of the transaction. Two names and
e-mails let two accounts exist and compete for them, and the third id lets one
be deleted and another registered; two requests meet in every interleaving of
their statements. In `content` four requests are two readers and two writers of
one post, or two uploads beside a deletion, and two clock values give equal,
rising and falling times. The 24 files of `seed_replay` are four lists of users
(two users, two of one name, one without an address, none), three lists of
cities (two of one name, the same city twice, two provinces of one name), with
or without an orphan brewery; three runs are two that overlap and one that comes
later. In `web_session` five requests create both accounts and still leave
overlapping renames, a settings request beside them, and a logout. Pages of two
of up to four breweries have a full, a part-full and an empty last page, and
breweries that are deleted and created in between push others in and pull others
out. In `next_community` one seeded row of each kind hangs on the next, so one
deletion cascades through three levels, beside a second request, and a user
starts with more likes of one post than requests could give him. One tab shows
the beer and one the brewery, to the user who did not post it. A foreign request
is two of the four units of work, opening a tab, a click and a revalidation are
one each: two requests meet, or a tab is opened and clicked beside one request,
or it is clicked and fetches three times. In `pipeline` the windows are too
small to use, smaller than the answer's limit, just enough and ample; prompts
are cut by the batch and by the window; and three records put two failed calls
before a third. The theorems cover any number where there are theorems.

The bounds that the code does not have are `MaxSends`, `MaxRecords`,
`MaxFaults`, `MaxRequests`, `MaxTime`, `MaxStrangers`, `MaxBorn`, `MaxWork`,
`MaxPromptTokens`, `MaxAsked` and `MaxFiles` (five in the middleware, two here);
`PageSize` is 2 where the page asks for 12, and the sizes of `pipeline` are
small where the code has 8192 (`n_ctx`), 5000 (a batch), 2800 and 1200 (answers).

Fairness.  `BoundedChannel!Fairness` is weak fairness of each thread that is
inside `Send` or `Receive`: the scheduler runs runnable threads, and the mutex
serves its waiters.  A thread that sleeps is not runnable, so a lost wakeup is
not repaired by fairness.  Nobody is obliged to call, to close or to wake up
spuriously.  `LogSpec` adds weak fairness of the log thread's loop, of a `Send`
main is in, and of the straight line of `shutdown` once main has left the try
block.  Main's own work is not fair: it may be at an inference for ever, so
`EveryEntryIsWritten` has no shutdown to lean on, and `Terminates` begins where
main leaves the try block.
`DirectorySpec` has weak fairness of the page's opening, of the
observer's callback, of the server's query and of the answer's arrival, each of
which the browser or the server does once asked; nobody is obliged to scroll,
to create or to delete, and an answer may be an error instead.  The other
specifications have no fairness and no liveness: `Run` is sequential, and the
deadlock check shows that it gets stuck nowhere; a request takes a bounded
number of statements and waits for nothing but the database; a call of a
generator takes at most three attempts, which `FirstValidAnswer` says.

Deadlock is checked in `channel`, `pipeline` and `accounts`, and in
`seed_misfiled` and `accounts_reconfirm`.  In the others the system does stop:
the process ends (`log`), every run has ended (`seed_replay`), or the bound on
requests or changes is reached and everything is answered.

### Findings

`seed_misfiled`: after an engine error inside the address insert of city
*c1*'s user, SQLite has undone the whole transaction, *c1*'s row with it, but
`city_cache_` still maps *c1* to row 1.  The next city *c2* gets row 1.  The
brewery of *c1* is then filed under row 1, which is *c2*, and since the
connection is back in autocommit mode the wrong row is durable.  The comment of
`ResolveCityId` promises the row id for its city.  `Finalize` then fails
("no transaction is active") and `Run` returns false, so `SuccessIsComplete`
still holds, but the file is left with rows in it; `AllOrNothing` and
`ImplementsAtomicExport` therefore speak of a run up to its first engine error.

`accounts_reconfirm`: `UpdateAsync` writes the account row and its verification
row in separate statements. `ConfirmUser` finds the account with its old e-mail,
rewrites the row and sees no verification. Before it inserts one, `UpdateEmail`
stores the new e-mail and deletes the verification, which does not exist yet.
Then `ConfirmUser` inserts it: the new e-mail is verified and nobody has
confirmed it. The comment of `UpdateEmailHandler` says that "the user must
re-confirm the new address".

### Observations

Met while modelling; no document of the repository says otherwise, unless one is
named, so no run is expected to fail on them.  The models contain them wherever
they touch modelled state.

- *Seeder.*  `docs/web/database.md` (lines 123 to 128) says that cities are
  created on demand and that `Photo` has no seed data; the seeder loads all
  cities before the breweries and uploads an avatar for every user.
- *Generators.*  The comment of `kMaxAttempts` in both files of the OpenAI
  generator (`generate_brewery.cc` lines 38 and 39, `generate_user.cc` lines 19
  and 20) says that its retries "only cover transient failures" or placeholder
  text.  `CallChatCompletionsApi` throws on a transient failure, and no loop
  catches: the call ends at its first attempt, and the city is skipped.  Only
  the second half of the comment is so.  A window not above the limit of the
  answer (2800 tokens) leaves the prompt one token, and the answer is generated
  all the same.  A prompt that is too long loses its end, where the question is.
  A batch is capped at 5000 tokens, which caps the prompt in any window.
- *Accounts.*  `ConfirmUserHandler` (line 37) does not look at the result of
  `UpdateAsync`: a confirmation that Identity refuses is answered as a success.
  `AuthController.cs` (lines 132 and 152) promises "409 Conflict if it is already
  taken" (an e-mail address: "already in use"), and the comments of
  `UpdateUsernameHandler` and `UpdateEmailHandler` a `ConflictException`.  Two
  changes that both pass Identity's checks meet at the unique key instead:
  `DapperUserStore.UpdateAsync` does not catch the `SqlException` as `CreateAsync`
  does, and `GlobalException.cs` (line 74) makes it a 503.  `UpdatesRow` goes to
  `error` there.  No property is about answers, so no run shows it.
- *Content.*  GET reads a post and its location in two looks; the answer of an
  update may show another writer's later version; DELETE ignores the row
  version; an upload whose row fails leaves its object behind.
- *Session.*  Overlapping renames leave the name of the answer that arrives
  last, and a late rename brings back a session that has logged out.  A change
  of e-mail, profile or password, or a confirmation, that has read the account
  before another browser's rename and writes it after (`DapperUserStore.cs`
  lines 157 to 173) restores the old name: the rename was answered as a success,
  and the cookie of the browser that renamed shows a name the account does not
  have.  `CookieTellsTruth` counts that browser as unsure.
  `refreshTokens` is never called.
- *Directory.*  Breweries of one instant may swap places between two queries,
  so the two properties about pages assume distinct creation times.
- *Archive, community.*  Likes have no unique key, so a user can like twice. The
  status route of a style's likes is `styles/[postId]/like/is-liked`, but its
  handler reads `query.id`, which is undefined, and Prisma drops an undefined
  filter: it finds a like of any style, and a user who likes one style is shown
  every style as liked. The hook says that it tells whether the user "has liked
  the beer style". The other kinds of buttons read the name their route has, and
  `ButtonTellsTruth` is about them. The PUT of a brewery has no
  `validateRequest` (`pages/api/breweries/[postId]/index.ts:20`, unlike that of
  a beer), and its body becomes Prisma's `data`
  (`services/posts/brewery-post/index.ts:227`). The page's own form sends id,
  name, description and date; but by the types of Prisma the owner of a brewery
  can delete or rewrite the comments, images and beers of others on it, delete
  their likes, or make somebody else its poster, so that the owner a request has
  checked need not be the owner when it writes. `OnlyOwnersChange` excepts both,
  and holds of every other route. `sendBreweryPostLikeRequest.ts` never looks at
  `response.ok`, so the button takes an error for success and fetches again. No
  button reads the hook's `error`: after a status fetch has failed the button
  can be clicked and shows the old status until SWR's retry or the next focus,
  hence `~failed` in `Quiet`. The lists of followers and followed both select
  the follower. Deleting a brewery leaves its location; anyone may add images to
  any post; files are stored before the form is validated; a follow, or a
  brewery at a location the user posted, keeps an account from being deleted.
  `useBreweryMapPagePosts` divides `(count as string, 10)`, which is 10, by the
  page size, so the map never asks for more than the pages of ten breweries.
- *Archive, accounts.*  An edit hashes the password twice, so the new one does
  not work; the confirmation mail leaves before the name is checked and the
  row written; the cookie is set although a registration answers with an
  error; a confirmation beside an edit of the address leaves the new address
  verified, since the token names the account only.

## 4. Proofs

Each proof module has an inductive invariant `IInv` (or a property that is
inductive by itself), a lemma for each action or group of actions, and one
theorem per property.  The assumptions are those the modules name, and TLC
evaluates them in every run.

**`ChannelProofs`**, for any finite disjoint sets of senders and receivers, any
positive capacity and any number of calls (`ChannelAssumption`):

- `TypeCorrect`: `TypeOK` is inductive as it stands.
- `NoWakeupIsLost`: `NoLostWakeup` is inductive with `TypeOK`.  The argument is
  a count.  While a receiver sleeps, queued items never outnumber the receivers
  on their way to the mutex: an enqueue adds one item and wakes one sleeper, a
  dequeue removes one item and one ready receiver, and the last receiver to
  fall asleep has seen an empty queue.  The same holds for senders and free
  slots.  The lemmas count the two sets of threads before and after each step.
- `ExhaustionIsFinal`: a closed channel never accepts again.
- `NothingLost`: `FifoPerSender`, with `Accounted` as the strengthening:
  every call that has returned left its item in exactly one place.
- `Refinement`: every step of `BoundedChannel` is a step of `FifoChannel` or a
  stutter, under `queue` for `buf`, `closed` for `shut`, `sent` for `calls`, and the
  threads that are not idle for `pending`.
- `UsesTheChannel`: the pipeline's steps are steps of `BoundedChannel`, so
  the theorems above hold of it.
- `LogIsConveyed`: `NothingLostOnTheWay` is inductive.  It says that what was
  logged is what was written, held and queued, in this order, and adds where
  the two threads must be once the channel is closed or the log thread has
  stopped; without these main could return, or the writer stop, with
  something in the queue.  `ExitIsClean` and `BackpressureHolds` follow.

**`PipelineProofs`**, for any curated cities, any number of records and of engine
errors (`ExportAssumption`).  `IInv` adds to the types: while the engine's
transaction lives, the tables are exactly what the calls so far wrote, with the
addresses in the order of their owners and at most one half-written record, the
caches are right, and nothing but the statement for cities can be stuck
(`Alive`); before the first engine error the transaction is open from
`Initialize` to `Finalize` (`Whole`).  A successful `Finalize` needs `COMMIT`,
which needs the transaction, so `SuccessMeansComplete`; `CachesStayRight` and
`RunIsAllOrNothing` are parts of `IInv`; and `RunIsAtomic` shows each step to be
one of `AtomicExport`, a stutter, or after an engine error.

The same module is about the generators, for any window, batch, prompts and
number of records.  `WindowHolds` rests on `RoomIsLeft`: beside what the context
remembers there is room for the batch to be decoded and for every token still
to be sampled.  `BudgetsShareTheWindow` is the arithmetic behind it: the two
budgets that the code clamps separately add up to the window at most.
`ContextHolds` is inductive with the types: whatever an earlier attempt left in
the memory, the next one clears it before its first token.  `AnswersHold` adds
`AttemptsCounted`: the attempts before the current one, and no others, have been
refused.

**`AccountsProofs`**, for any sets of ids, names, e-mails and requests
(`AccountsAssumption` only keeps `None` and the original hash apart from the
rest):

- `AccountsTypeCorrect`: `AccountsTypeOK` is inductive.  Besides types it says
  which statements each kind of request passes through and that a request
  past its first statement holds the user it was asked about; `StepTyped` goes
  through the actions, and `OwnSteps` says that nobody moves another's request.
- `AccountsStayWhole`: `AccountsAreWhole` is inductive with it.  Only the
  writing actions matter; each keeps what the foreign and unique keys enforce,
  and a rotation that is committed leaves its own hash active.
- `ProfilesAreMade` and `DeletionIsFinal` are inductive with the types: only
  `InsertsAccount` makes an account, with an id never used before.
- `OldPasswordIsGone` needs two more facts.  `HashesAreFresh`: a hash that its
  request has yet to store is in no table and in no other request's memory.
  `RotationInv`: when a rotation begins, the old password is either among the
  rows its `UPDATE` meets or already revoked.  So the rotation revokes it, and
  nothing can insert it again.

**`ContentProofs`**, for any users, posts, names, places and requests.  `IInv`
says of each request that an open transaction holds the lock of its row
(`HoldsPost`, `HoldsProfile`), that what an upload has stored so far is there
(`HasStored`), and that a post which still has the version a client has read
says what the client has read (`KnowsPost`).  The last is the heart of
`UpdatesHold`: the version belongs to the post alone, but a location changes
only in a transaction that has given its post a new version and holds its lock,
so the version vouches for both tables.  `ReplacementsHold` follows from the
lock: the start of a new period is later than that of the one it closes.
`PeriodsHold` adds that no two periods of a profile overlap.

**`SeedReplayProofs`**, for any files that `FilesAssumption` describes, any number
of runs and strangers.  `IInv` says how far each run is in its own rows: the
first *n* users registered and portrayed, cities located, breweries posted.
For `NothingIsTwice` the thread is the name of the first user: a run that has any
account has that one, names are unique, and a run that posts has accounts; so
only one run posts, in order.  `FailuresHaveReasons` has an invariant of its own
about a run that is not killed, has a loadable file, and meets nobody: it
finds only rows that an earlier entry of its own file has made, and does not
fail.

**`WebFrontendProofs`**, for any accounts, browsers and requests.  Coherence is
carried through every cookie and answer under way (`AllCoherent`).  For
`TruthHolds`, `Sure` says of a browser that is not `unsure`: it has one request
at most, its cookie is true, or the answer under way brings one that is, and
what the API has read of an account for that request is still so, which is why
a settings request of its own cannot undo a rename.

And for any pages, breweries and changes of the directory, as long as creation
times are distinct: `DirectoryRepeatsAreNewcomers` and
`DirectoryMissesAreDeletions`. The two need one invariant, `Ledger`, which holds
two balances: the offset exceeds the number of distinct breweries loaded by no
more than the creations since the page opened, and neither do the rows that the
list has passed; and the rows passed but never loaded, together with the offset,
exceed the rows passed by no more than the deletions. A page that ends among
rows already passed adds repeats, one that ends beyond them adds rows and
perhaps misses, and both lemmas count what it adds. Distinct times make the list
a total order, so that a page is a block of rows whose last one has as many rows
above it as the offset says. Where the argument needs induction over naturals,
`LeastNatural` (a non-empty set of naturals has a least element, from `WFMin`)
takes the place of the library's theorem, whose parameter is an operator.

**`NextCommunityProofs`**, for any users, seeded rows (`SeedIsSound`), slots and
tabs; the like buttons take part, since the specification is `UISpec`.
`NothingDangles` and `OwnersHold` rest on `Hanging` (what hangs on a row is of a
kind that may, so a cascade is at most three levels deep), `Aimed` (a row that a
request names is of the kind its route expects, and once its owner has been
checked he stays the owner, or it is a brewery that was edited), `Becomes` (a
row that an update leaves keeps its id and its kind and what it hangs on, and
its poster, except an edited brewery) and `Keeps` (a request's files are there,
and in no row while it may still remove them). `LikesHold` counts likes and the
requests about to add one (`Adding`) together: unless all of a user's likes of a
post are of the seeding, the two are no more than the slots. A request joins
`Adding` only when it has found no like, and then only requests count; when it
writes, the sum stays. `ButtonHolds` is about tabs at rest. `Awaited` says that
a tab which is not in doubt waits for every toggle there is of its own like;
`Converging` says that the button shows the truth or nothing yet, or its last
fetch has failed, or a fetch in flight has read the truth, has failed or has yet
to read, or an answer is under way that will start one. What else could change
the truth, a toggle from another page, the PUT of a brewery or a lost answer,
puts the tab in doubt, or takes its post or its user away.

**`NextAccountsProofs`**, for any ids, names, addresses, browsers and requests.
Each step is first shown to create, rewrite or remove one row, or to leave the
tables alone (`TableStep`), and to add only the mails it says (`MailStep`); the
three theorems follow from these.  `Creates` and `Rewrites` carry the unique
keys of the database, which is where two controllers that both found a name free
meet.

Only model-checked: liveness (`CloseReleases`, the progress half of
`ImplementsFifoChannel`, `EveryEntryIsWritten`, `Terminates`, `ReachesTheEnd`),
since fairness and ENABLED are outside what the prover handles.  Every other
property of a run that passes has a theorem.  The type invariants
except `TypeOK` are proved only, as parts of the inductive invariants.

## 5. What is left

Possible extensions, in order: the biography and the comment forms of the
archive in its request model; its read-only lists as instances of
`BreweryDirectory`; the refinement of `AtomicExport` by both ends, so that the
seeder's input is the pipeline's output by construction.

## Not modelled

- *Wikipedia enrichment, geocoding.*  Their outcomes are free inputs of
  `SeedRun`.  Inside they run in one thread and keep nothing from one call to
  the next, except the extract cache, which keeps a missing page for the run but
  not a malformed answer.
- *Mock generator.*  It picks from fixed lists by a hash and keeps nothing.
- *Curated data, prompts, options, HTTP client, xeger.*  Values in, values out.
- *API host, migrations, e-mails, beers, location queries.*  Wiring, scripts,
  templates and queries of one statement.  The commands that create locations
  are called by the seeder and modelled there.
- *Other pages of the frontend.*  Rendering, themes, toasts, form steps.  The
  account page never resets `handledToast`, so after a second update of the same
  kind its sections stay open and are not remounted; the registration form's
  next button can be hit twice.
- *Archive.*  The biography (one `UPDATE`) and the services that no route uses;
  its pages, comment forms and lists, which render read-only routes page by page
  as `BreweryDirectory` does.  Several of those lists have no `orderBy`.
- *Results viewer.*  Reads the SQLite file.

The map names a small share of the TypeScript and JavaScript lines, because
most of them are rendering, stories, validation schemas and seed data
(`canadianCities.ts` alone has over ten thousand lines); what keeps state is
mapped.  C++, C# and Prisma lines are mapped as well.
