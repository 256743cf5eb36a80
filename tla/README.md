# Verification of the portfolio API server

TLA+ models of the TypeScript server in `src/` (Express, Knex on MySQL, BullMQ
on Redis, node-cron, local file storage), the TLC configurations that check
them on small instances, and TLAPS proofs of what matters most for every size.
Paths below are relative to the repository's `src/` directory.

## 1. The system

| Component | State it keeps | Operations | Talks to |
|---|---|---|---|
| Posts API and slugs (`services/PostService`, `SlugService`, `models/Post`, `Slug`, `http/controllers/PostController`, `policies`) | tables `posts`, `slugs` | create (one transaction over both tables), list, show by id or slug, update, delete | MySQL, event dispatcher |
| Accounts and tokens (`services/AuthService`, `models/User`, `PersonalAccessToken`, `http/middleware/auth`, `console/commands/UserCommand`) | tables `users`, `personal_access_tokens` | register, login, logout, the auth middleware, `artisan user create` | MySQL, event dispatcher |
| Events and notifications (`events`, `listeners`, `notifications`) | listener lists, deliveries in memory | dispatch in order, notify on two channels | queue dispatcher |
| Queue and worker (`queue`, `jobs`, `worker.ts`, `mail`) | BullMQ queue in Redis | enqueue, process, retry, shut down | Redis, SMTP |
| Scheduler (`schedule`, `scheduler.ts`, `console/artisan.ts`) | registered cron tasks, the process-wide connection pool | start, tick, stop | artisan commands, queue |
| Storage (`storage`, `http/middleware/upload`, `UploadController`) | files under a root directory | put, get, exists, delete; `url` makes a string | file system |
| HTTP frame (`app/Server`, `routes`, `http/middleware`, `exceptions`) | fields on each request object | pass a request through the middlewares of its route, map errors to answers | all of the above |
| Seeder and factories (`database/seeders`, `database/factories`) | how far a run has come | `artisan db seed`: empty all tables, fill them again | MySQL, `PostService` |
| Migrations, other console commands | none | make the tables, print information | MySQL |

Every HTTP request is an asynchronous function of one Node.js process: between
two `await`s any other request, of this or another process, may run.  Each SQL
statement is atomic; only `PostService.create` groups statements in a
transaction.

### Hard behaviours, and what makes each component correct

* **Posts and slugs.**  `SlugService.generateSlug` looks for a free slug in a
  REPEATABLE READ snapshot, the INSERTs are checked against what is committed by
  then, and rivals wait for each other on unique keys.  Update and delete read
  the post, check its owner and write in separate statements that name only the
  id.  Correct means: a slug names one post for ever, both tables agree, only
  the owner writes, and an answer or event tells the truth about what is stored.
* **Accounts and tokens.**  Register and login write and read back in several
  statements without a transaction; the middleware judges a token row that may
  be revoked, expired or removed before the request is served, and writes that
  row afterwards.  Correct means: a token belongs to an account whose
  credentials were given, an address names one account, and a token that was
  closed opens nothing for a request that arrives later.
* **Events and notifications.**  One awaited listener after the other; an error
  stops the loop although rows are committed.  Correct means: a dispatch that
  returned has queued every job it stands for, and they are queued in order.  What
  the memory channel keeps is lost with the process; nothing is promised of it.
* **Queue and workers.**  A job may be taken again while its first worker is
  still busy with it; an accepted mail may be reported as failed.  Correct
  means: at least one delivery before "completed", bounded repetition, no job
  left locked by an orderly exit, and every job settles.
* **Scheduler.**  Overlapping runs share a queue connection and a database pool
  with each other and with shutdown.  Correct means: no part of an unfinished
  schedule runs, a tick makes at most one job, a signal ends the process, and
  a command fails only if something is wrong.
* **Storage.**  A directory and then a file are written, in place and chunk by
  chunk.  Correct means: what an upload has published is read whole, and any other
  file is what one put wrote unless puts overlapped or failed.
* **Listing.**  The total and the page are two reads, and a client's pages are
  read at different times.  Correct means: every post is on one page of a table that
  stands still, and only named races repeat a post or leave one out.

* **HTTP frame.**  What a controller reads was left on the request object by
  middlewares that another file names, and the types are asserted.  Correct means:
  a controller that is reached finds what it reads, the answer tells no more than
  the gates before it allow, a refused request has changed nothing, and every
  request is answered, whatever other requests do meanwhile.
* **Seeder.**  It deletes and inserts in separate statements while the server goes
  on, and creates its posts all at once.  Correct means: it tears posts from their
  slugs in one moment only and the next run repairs that, a run that reports
  success is whole, and neither it nor the requests wait for ever.

`PROJECT.json` lists these hazards line by line with the properties that cover
each of them, or why none does.

## 2. Modules

| Module | What it is |
|---|---|
| `SlugRegistry` | abstract: slugs are issued once; a post may be retired, its slug is never issued again |
| `Posts` | the posts API, one action per SQL statement |
| `PostsProofs` | theorems about `Posts`, and that it implements `SlugRegistry` |
| `Sessions` | abstract: a token is issued once, to one holder, and opens nothing after it is closed |
| `Auth` | accounts, tokens, middleware and `artisan user create`, one action per SQL statement |
| `AuthProofs` | theorems about `Auth`, and that it implements `Sessions` |
| `Delivery` | abstract: an accepted job is delivered at least once and done, or given up |
| `JobQueue` | the BullMQ queue and the worker processes |
| `Notifications` | extends `JobQueue`: from a dispatched event through listeners and channels to jobs |
| `NotificationsProofs` | theorems about `JobQueue` and `Notifications`, and that they implement `Delivery` |
| `Schedule` | operators: the chains of calls that define tasks, and the minutes they name |
| `Scheduler` | extends `Schedule`: the scheduler process, its runs and its shutdown |
| `SchedulerProofs` | theorems about `Scheduler` |
| `Storage`, `StorageProofs` | a local disk under concurrent uploads, puts, gets and deletions; theorems about it |
| `Listing`, `ListingProofs` | the pages of the post listing while posts come and go; theorems about them |
| `Http`, `HttpProofs` | the path of requests through the middlewares of their routes; theorems about it |
| `Seeding` | extends `Posts`: the development seeder beside a server in use |
| `SeedingProofs` | theorems about `Seeding`, on top of those of `PostsProofs` |
| `MCPosts`, `MCAuth`, `MCNotifications`, `MCScheduler`, `MCStorage`, `MCSeeding` | small instances for TLC |

Operators whose comment begins with "Variant" are deliberately wrong versions of
the definition that follows them.  No specification uses them; they serve to
confirm that each property notices the mistake it is there for.

### State and actions

**Posts.**  `posts` and `slugs` are the committed tables, indexed by post id; the
id that a request's INSERT will receive is named after the request, so that a row
can be traced to it.  `Legacy` are rows older than the `slugs` migration, which
have no mirror and possibly no owner.  Uncommitted rows are not in the tables:
they are the requests with `pc` in `persistSlug` or `commit`, and an INSERT
waits while such a rival has the same slug (`PostSlugLocked`,
`MirrorSlugLocked`).  The loop of `generateSlug` is one step, because all its
lookups read one snapshot; `seen` remembers which posts that snapshot showed.
Slugs are sequences of words, so that "title a, suffix 1" and "title a-1" meet,
as they do in the code, and `MaxWords` is the width of the column.

| Action | Code |
|---|---|
| `GenerateSlug`, `InsertPost`, `PersistSlug`, `Commit` | `PostService.create`, `generateSlug`, `Post.create`, `persistSlug`, `db.transaction` |
| `StartUpdate`, `UpdateRow`, `Reload` | `bindRouteModel` and `PostPolicy`, then the UPDATE and the SELECT of `Post.update` |
| `StartDelete`, `DeleteRow`, `Show` | the same binding, then `Post.delete`; `PostController.show` |
| `Announce`, `AnnounceFails` | `events.dispatch` and the answer |
| `StatementFails`, `CommitUnacknowledged`, `DeleteUnacknowledged`, `Crash` | `Handler.normalize` for a failed statement; a lost acknowledgement; the end of the process |

**Auth.**  `users` and `tokens` are the tables, `expired` the tokens whose
`expires_at` has passed (only a seeder sets one), `admitted` records who was let
past the middleware and with which token.  Passwords are values; `Trim` is what
`collectField` does to them and `Digest` the hash.  A removed row is `Gone` and
not `Absent`, because ids are not used again.

| Action | Code |
|---|---|
| `StartRegister`, `StartCommand`, `InsertUser`, `LoadUser` | `AuthService.register`, `runUserCreateCommand`, `User.create` |
| `StartLogin`, `InsertToken`, `LoadToken`, `Announce`, `AnnounceFails` | `AuthService.login`, `PersonalAccessToken.create`, the event and the answer |
| `Arrive`, `FindToken`, `FindUser`, `MarkUsed`, `Visit`, `Logout` | `middleware/auth.ts` statement by statement, then any protected route, or `AuthService.logout` |
| `Expire`, `RemoveUser` | time; the deletions of the seeder with `ON DELETE CASCADE` |
| `StatementFails`, `LogoutUnacknowledged`, `ServerCrash`, `CommandKilled` | failures of MySQL and of either process |

**JobQueue and Notifications.**  `job` is what Redis knows of each job: state,
attempts, stalls and the lock.  `running` is what each worker process is doing,
which may disagree with Redis once a lock is lost: `Report` then changes
nothing.  `sent` counts what the transport accepted.  `Take`, `Promote`,
`Recover` and the lock are BullMQ's, `Handle` and `HandlerThrows` are
`JobRegistry.handle` with `SendMailJob` or `QueuedEventListenerJob` behind it,
`Shutdown`, `Exit` and `Restart` are `worker.ts`.  In `Notifications`, `at` is the
listener that `EventDispatcher.dispatch` has come to and `channel` the channel of
`Notifier.send`; `Mail` and `QueueListener` perform `Dispatch` of `JobQueue` in the
same step, `DispatchError` leaves open whether the job was stored.  A process takes
no stalled job again that it is itself still busy with (`Take`): so it is with one job
at a time, the default of `QUEUE_WORKER_CONCURRENCY` and the instance checked; a process
that runs several jobs at once could take its own stalled job, which is not modelled.

**Scheduler.**  `chain` holds the calls that define each task; `Throws`, `Missing` and
`Refused` are the three ways in which a definition can be wrong, and they show at
three moments: while `defineSchedule` runs (`Define`), when `schedule.tasks()` is called,
and when node-cron validates an expression (`Start`).  `Due` evaluates the expression
that the last frequency of the chain has left; `Named` says the same of a minute
without an expression, in the words of `docs/scheduled-commands.md`.  Of the expressions
given to `.cron` itself those of the form "n h * * d" are covered, the form that document
uses, with values in range and out of it.  `ticks` counts the ticks of each task.  `now` is the
clock, which `Tick` moves to a later instant, where any of the due tasks tick.
`runs` counts the runs of each task at each stage (due, working, destroying), since
runs may overlap; `queue` and `pool` are the two connections they share.  `Stop`,
`CloseQueue`, `Exit` follow `runScheduler` and `NodeCronScheduler`; `QueryDatabase` and
`DestroyPool` are a `db` command and its `finally`, `DispatchJob` and `CallBack` the
other kinds of run.

**Storage.**  `files` maps locations to files and `data` says who wrote each chunk of
a file; a file that was deleted or opened before it was deleted lives on in the
`call` of whoever has it open.  Paths are sequences of segments; `Normal`,
`Admissible` and `Location` are `normalizePath` and `absolutePath`.  `Upload` and `Put`
are followed by `MakeDirectory`, `Open`, `Write` and `Close` (`LocalDisk.put`), `Get` by
`ReadChunk` and `EndOfFile`; `Exists` is one step, and `Reject` is the exception that a path
outside the root meets (`exists` answers "absent" for it).  Uploads have a directory, which
puts and deletions may use, remove from or be in the way of; only the random name of an
upload is its own (`NamesAreRandom`).  `torn` is history: the files that an overlapping or
failed put has written, of which the code promises nothing more.

**Listing.**  A post is a number, its place in the order of the listing.  `Count` and
`Read` are the two statements of `Post.paginate`; a client asks for page after page up
to the `last_page` it is told.  `Create` and `Delete` stand for all other requests; what
they do beyond the table is in `Posts`.

**Http.**  `rest` is the list of middlewares a request has still to pass, `Stack` what
it starts with: those of the server, of the router and of the route, as
`AuthRoutes`, `PostRoutes`, `ApiRoutes` and `ServerRoutes` register them.  `has`, `user` and
`bound` are the fields of the request object.  `Passes` is `next()`, `Rejects` is
`next(error)` with `Handler.render` behind it.  One action is one middleware; the outcome
of what it awaits (a token, a row, a parsed body, a file) is chosen.  A controller
changes something or not and answers; how the services do it is in `Posts`, `Auth`
and `Storage`.  Errors of the body parsers and of multer other than its size limit
are answered 500, since `Handler.normalize` looks at no status of theirs.  What
`express.static` answers by itself (200, 206, 301, 304) is one outcome, its errors
another.

**Seeding.**  The tables, requests and failures are those of `Posts`, lost acknowledgements
and failing listeners included; a crash of the server (`ServerCrash`) ends its requests but
not the seeder, which is a process of its own.  `account` is table
`users`, so that the foreign key of a post and its cascade can be told.  `seed`, `step`,
`inserted` and `outcome` are the run of the seeder.  Its DELETEs wait for rows of open
transactions (`OpenPostRows`, `OpenSlugRows`); `InsertUser` meets an address that was
registered meanwhile; `CreateSeedPost` is `postFactory.create`, which goes through the
statements of `PostService.create`; `CreationsEnd` is `Promise.all`.  A run that is killed takes the creations that had
not begun with it (`Unfinished`).  Access tokens are left out here: requests were authenticated before.

| Action | Code |
|---|---|
| `StartSeed`, `DeletePosts`, `DeleteSlugs`, `DeleteUsers`, `InsertUser`, `InsertToken` | `artisan db seed`, `seed` of `001_development.ts` statement by statement, `userFactory`, `accessTokenFactory` |
| `CreateSeedPost`, `CreationsEnd` | `postFactory.create`, `Promise.all` |
| `Register`, `Serve`, `CheckedInsert` | `AuthService.register`; the statements of `Posts`; the foreign key `posts.user_id` |
| `SeederFails`, `SeederKilled`, `ServerCrash` | a failed statement; the operator's interrupt; the end of the server's process |

## 3. Runs

| Run | Instance | What it shows |
|---|---|---|
| `posts` | 3 requests, 2 users, 2 titles that compete for "a-1", 1 legacy post, all failures | stored slugs fit their columns, slugs unique and mirrored, true answers and events, owners only, 409 only when overtaken, refinement of `SlugRegistry` |
| `posts_update_gone` | 2 requests | *violation*: an update answered 200 that changed nothing |
| `posts_long_title` | 2 requests, slug as wide as its column | *violation*: the second post of a long title is a server error |
| `auth` | 3 requests and a seeded user with a token, 1 address, 2 passwords, all failures | types, tokens earned, one account per address, true answers, logout final, dead tokens open nothing, refinement of `Sessions` |
| `auth_trimmed_password` | 2 requests | *violation*: the password that was entered does not open the account |
| `notifications` | 1 event, a mailing and a queued listener, 2 workers, 2 attempts, 1 stall, 3 interruptions | lock holders work, counted retries, dispatch complete and in order, refinement of `Delivery`, every dispatched job settles |
| `scheduler` | one task of each kind, defined by one of two or three chains, 5 instants in 2 months, 3 ticks of each task, 1 failure | nothing of an unfinished schedule runs, a task ticks only in minutes its last frequency names, one job of a task for a tick of that task, a signal ends the process |
| `scheduler_pool` | the default schedule | *violation*: the status command breaks its own later runs |
| `storage` | 3 callers, 6 paths, contents of 1 or 2 chunks, all failures | nothing outside the root and no name both file and directory, uploads stored and read whole, untorn files whole |
| `listing` | 4 posts, pages of 1 to 3, first page 1 to 3 | a quiet listing is exact, repetition only after a creation, omission only after a race, meta data fit the page |
| `http` | 2 requests to any 2 of 18 routes, 2 users, 1 post | controllers have what they read, answers follow the gates, refused requests changed nothing, every request is answered |
| `seeding` | 2 runs of the seeder with 1 user each and 2 and 1 posts, 1 web request, 1 user who registers a seeded address, all failures | torn slugs only between two statements of the seeder, a complete seed is whole, requests and seeder end |

The type invariant of `Auth`, which says that digests and never plain tokens are stored,
is among the properties of its run; in the other modules `TypeOK` documents the types and
no run repeats it.

### Bounds

* Requests are served once.  Three posts requests are a creator with a rival and
  somebody who deletes, or an owner, a second owner and a deletion: every pair of
  statements that race, with a third request that changes what both have read.
  In `auth`, three requests are two that race for an address and one that logs in
  between, or a login, a logout and a visit with the token of the first; the seeded
  user may have the address already, or lose it.
* `Suffixes` 0..3 always contains a free number: when a create looks, the two other
  requests and the legacy post hold at most three slugs of its base.  `MaxWords` is 2 so that a slug with a
  suffix fits; in `posts_long_title` it is 1, so that it does not.
* `MaxInterruptions` counts crashes, lost locks, shutdowns and handler errors
  together.  Three of them exhaust the two attempts with a crash to spare, or the
  one stall twice.
* One event is enough: events share nothing but the workers, and its two jobs
  already compete for those.  The mailing listener comes first, as in
  `registerEventListeners`, so that the order of listeners matters.
* `MaxTicks` 3 gives every task three runs, overlapping or not.  The
  instants are three times of a Saturday, a midnight and the 31st of the next month:
  each chain of the instance is due at one of them and not at another.  The chains
  contain each way to be wrong once.
* Two requests show each gate of `Http` the changes of another request: a logout
  or a deletion between any two of its middlewares.
* In `seeding`, the three creations with one title race for three slugs, two of them
  in one `Promise.all`; two runs show that the second repairs what the first has
  torn.  `Suffixes` 0..2 leaves each creation a free slug.
* Three callers of the disk are two writers and a reader, or two writers and a
  deletion.  The six paths are two names of one file, a path through that file, the
  uploads' directory and a file in it, and one that leaves the root at second sight.  Two chunks let a short content meet the tail of a long one.
* Four posts in pages of one to three give an empty table, pages that are just full
  and last pages that are not, and two creations or deletions at any point.
* Symmetry is used where only safety is checked, over requests, users, addresses
  or callers, which no definition tells apart; the liveness runs have none.
* All runs switch off the deadlock check: requests are served once, jobs are
  dispatched once and ticks are bounded, so that each system really stops.

### Fairness

* `Seeding`: the server takes a next step of some request in flight when there is one that
  can, and the seeder one of its own until it fails or is killed.  No single request or
  creation needs to be fair, since none goes on for ever.  Node.js runs every continuation, MySQL answers
  every statement with a result or an error and grants a lock once it is free.  A
  request that was not received need never come, and nobody need start the seeder.
* `Http`: a request goes on to its next middleware: the client sends its body or its
  connection breaks, and what a middleware awaits ends, with a result or an error.
* `JobQueue`: handlers return or throw, delays pass, the stalled check runs while
  some worker is up, and a process that is down is restarted.  Nothing is
  assumed of errors, crashes, lost locks and shutdowns except that their number is
  bounded.  An action that must happen is fair on its own, for each worker and
  job.
* `Scheduler`: the process goes on with its own shutdown.  Runs, ticks and signals
  are not fair: a run may hang for ever.
* A call to Redis or MySQL that is awaited ends.  With `maxRetriesPerRequest: null`
  (`src/config/queue.ts`) that assumes that an outage of Redis ends.

### What the violations show

* `posts_update_gone`: `PostController.update` answers `post ?? boundPost`.  If
  another request deletes the post between the binding and the UPDATE, the client
  gets 200 and a post that does not exist, where `docs/routing.md` promises 404.
* `posts_long_title`: `generateSlug` appends its suffix to a slug that may already
  have the 255 characters of its column.  `tests/feature/posts.test.ts` expects a
  suffixed slug for a repeated title; the code answers 500.
* `auth_trimmed_password`: `artisan user create` trims the password it stores and
  tells the operator to log in with "the password you entered", which login does
  not trim.
* `scheduler_pool`: `artisan db status`, the only task of the default schedule,
  destroys the pool of the process it runs in, which is the scheduler's.  Its next
  run fails although the database is well.

## 4. Proofs

Every invariant and every step property that a run checks is also a theorem, for any
number of requests, users, titles, jobs, workers, tasks, files, posts and runs of the
seeder, and any set of failures.  So are the three refinements.  The only assumptions are
those of the modules (`PostsAssumption`, `AuthAssumption`, ...): that the special
values (`NoRow`, `Absent`, ...) are not rows or ids, that `Base`, `Trim` and `Digest` are
functions, that ids are not used twice, that bounds are numbers, and `NamesAreRandom` of
`Storage`, that no admissible path of a put, get, exists or deletion is the file of an upload.
The code allows such a path; nothing but the random UUID in the name keeps callers from it,
and a caller who was told the URL and deletes the file is thereby excluded.  Every run
evaluates the assumptions of its module.

Each proof has the same plan: an invariant that is inductive (`SlugInv`, `IInv`,
`SeedingInv`), TLC having confirmed it on the instance of the run; `Init` implies it, every action
keeps it, it implies the property.

**`PostsProofs`.**  `SlugNamesOnePost` is not inductive: it says nothing of rows
that are not committed yet.  `SlugInv` adds what makes it so:

* `Unstored`: the id of a request that has not committed has no row in either table;
* `Reserved`: no stored post has the slug of a request between its INSERT and its
  COMMIT, no two such requests hold the same one, and after the second INSERT no
  row of `slugs` has it.  This is what the wait for a unique key gives, and why the
  stale snapshot of `generateSlug` does no harm;
* `LegacyUnmirrored` and `MirrorAgrees`, which say in which tables a slug is, so that
  the two unique indexes together cover both, and `Unique`, which says
  `SlugNamesOnePost` for the one slug that this leaves to each post.

`RequestInv` adds what each request knows (`UnderWay`) and what its answer claims
(`Answered`): the binding of a writer (`Bound`), and whether its event follows a
write (`Written`).  From `IInv == SlugInv /\ RequestInv` follow the answers, the
events, the finality of deletion and, for a step, that only owners write.  Owners
matter because a row's owner never changes: the check on a row that was read
earlier is still true of the row that is written.  `SeenInv` relates the snapshot
to the tables for `ConflictOnlyWhenOvertaken`.  `PostsImplementRegistry` maps a
COMMIT to the registry's issue and a DELETE to its retirement; every other step
stutters.

**`AuthProofs`.**  `IInv` consists of

* `Typing`: `TypeOK` and `Shape`, what a request asks for at each step;
* `Rows`: which request may have stored which row (`UserRows`, `TokenRows`);
* `Earned`: `TokensWereEarned`, that the user of a token exists (the foreign key
  and its cascade), and that the account a login is about to issue a token for is
  still the one that was verified, or gone.  This is why it does no harm to verify
  a password against an old row: digests are never updated and ids never reused;
* `EmailNamesOneUser` and `AccountAnswersAreTrue` as they stand;
* `Bearers`: a token that was dead when its request arrived is still dead, and that
  request is at the door or turned away; with `LogoutIsFinal` and
  `DeadTokenOpensNothing`.

A step is first summed up by what it does to users (`UserStep`), to tokens
(`TokenStep`), to what a request carries (`RequestStep`) and to where a request
stands (`FlowStep`); each part of the invariant is then proved from the summaries
it needs.  `AuthImplementsSessions` maps the INSERT of a token to its issue, the
read in the middleware to an admission, and logout, expiry or the removal of a
user to the closing of a set of tokens.

**`NotificationsProofs`.**  `LockHolderWorks` is inductive with the types; the count of
mails is not, since a worker that lost its lock still sends.  `QueueInv` adds

* `Counted`: a job that is not given up has an attempt and a stall left, one that was has
  used up exactly one of the two;
* `Budget`: the mails sent and the workers that may still send one are together no more
  than the times the job was taken.  `RetriesAreCounted` follows;
* `Runners`: what a worker has handled was sent, so `completed` means delivered.

`EventInv` says that a dispatch has passed exactly the listeners whose jobs exist
(`Passed`) and all of them when it returns (`Returned`); it speaks of jobs, not of what the
memory channel keeps.  `QueueImplementsDelivery` maps the state
of a job and `sent` to the abstract status; a report of a worker without its lock
stutters.

**`SchedulerProofs`.**  `Counted` weighs, for each task, its jobs, its failures and its runs in
every stage against its own ticks: a run that moves on takes its share along.  `Unfinished` says that
a definition that throws never opens a queue, and that a missing frequency leaves no
ticks.  `TicksComeWhenNamed` goes through the chains call by call: whatever the last
frequency is, the expression it leaves and the minute it names agree.

**`StorageProofs`.**  Three arguments:

* paths: what `normalize` makes of any path has its dots, if any, in front, so a path that passes
  the check stays below the root (`PlacesBelowRoot`), and by `NamesAreRandom` an upload shares its
  place with no put (`PlacesDiffer`).  The walk over the segments is a recursive function; what is proved
  of it goes by the smallest counterexample, because induction theorems with an operator
  parameter are out of the provers' reach;
* names: no name is a file and a directory, and every file and every open file has the place its
  caller asked for (`Names`, `Caller`);
* chunks: the file of an upload has its own writer alone and exactly the chunks written so far
  (`Uploaded`), nobody reads it before it is published (`Reading`), and a file that is not torn has
  at most one writer, whose progress is its content (`Untorn`).

**`ListingProofs`.**  The place of a post is the number of posts above it.  `RanksAreCounted` shows
that places run from 0 to the size of the table, each taken once, from the theorems about
cardinalities; `RowsAreCounted` and `LastPageIs` then give the size of every page and the last page
that is not empty.  The invariant says what the pages so far cover: without deletions everything above
the next page has been listed (`Covered`), without creations what has been listed stays above it
(`Above`), and without either the pages are those of the table as it stands (`Still`).

**`HttpProofs`.**  First the routes, each by calculation: which middlewares stand in front of each
place of its stack (`Gated`).  The invariant then says of a request on its way that what it has still
to pass is an end of its stack, that it has no answer and has changed nothing (`OnItsWay`), and
that each middleware behind it has left its field and what it made sure of (`Kept`).
Other requests change the tokens and the post meanwhile, so `Kept` speaks of what the request
has read, not of what is stored now.

**`SeedingProofs`.**  A statement of a request either stores a post and its slug together or leaves
the slugs alone and makes no post (`ServeIs`), so it never tears anything; `Owned` says that whatever the
DELETE of slugs has torn goes with its owner in the DELETE of users.  `Begun` keeps the creations of
one run apart from those of others, `Accounts` counts the users inserted so far, and `Mirrored` follows a
creation from its COMMIT to the report of success, past which only the next run can delete its slug.

**Only model-checked.**  Liveness needs fairness and ENABLED, which the prover does not
handle: `AllEnd`, `EveryRequestIsAnswered`, `JobsSettle`, `SignalEnds`.  The four
violations are counterexamples and stay with TLC.

## 5. What is taken as given, and what is left out

External, modelled from how the code uses it: MySQL (one atomic step per
statement, InnoDB snapshots, unique keys and foreign keys, auto-increment ids that
are not reused), the file system (open files survive their names), Redis and BullMQ (locks, delays, stalled jobs), node-cron (a tick
makes a run due, `stop` prevents later ticks), commander (an unknown command exits
the process), the signals and the exit of a Node.js process.

Not modelled: `StorageManager`'s choice of a disk by name and driver, the string that `url`
makes and the error of a disk without one; what makes a file or an input valid
(whether it is valid is chosen); the texts of answers, resources and messages;
running and rolling back migrations, which is knex's; the invented data of the
factories; console commands that print text; configuration, read once and present
as CONSTANTS; pipelines, caching and maintenance mode, which the repository only
documents.  The command `db seed` disconnects the scheduler's pool like any `db`
command; that is in `Scheduler` (`scheduler_pool`).

## 6. Plan

Done: the modules of section 2 in their order there, and the safety proofs of all of
them.  What may follow:

1. The relation of `Http` to `Posts` and `Auth`: a controller of `Http` is one step there, and many
   in the modules of its service.
2. That the unique indexes alone, without `generateSlug`, keep two posts that the seeder
   has torn from having one slug: an invariant of `Seeding` that no run checks yet.
3. The steps of the liveness arguments that need no fairness: for example that a job always
   has an attempt, a stall or an interruption less after it was taken.
