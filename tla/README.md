# Verification of the document-processing platform

The repository is a multi-tenant service that takes images of documents, runs
OCR over them in the background and shows the result. This directory holds TLA+
modules of its asynchronous core, the TLC runs that check them on small
instances, and TLAPS proofs that hold for any number of documents, workers,
requests, users and so on.

`PROJECT.json` lists components, runs, mutants, findings, hazards and theorems,
and maps each definition to the source lines it models. Paths below are
relative to the repository.

## 1. Inventory

```
browser (Next.js)                 API (NestJS)               worker (NestJS, APP_ROLE=worker)
 dashboard page  --- upload --->  DocumentsService           ProcessingProcessor
 document page   --- poll ----->    |     |      |             |     |       |
                                    v     v      v             v     v       v
                                  files  Postgres Redis/Bull -> job  files  OCR service
```

| component | source | state it keeps | operations |
|---|---|---|---|
| Upload request | `backend/src/modules/documents/documents.service.ts` `upload` | none of its own; writes file, row, job in that order | validate, save, create, add |
| Job queue | Bull 4 behind `@nestjs/bull` (external) | per job: state, `attemptsMade`, stall counter, lock | add, deliver, complete, fail, back off, expire, stall |
| Document processor | `backend/src/modules/processing/processing.processor.ts` | the job in hand; the row | find, claim, reject PDF, read, OCR, save, count, give up |
| Document lifecycle | `backend/prisma/schema.prisma`, `documents.controller.ts` | status of a row as clients read it | - |
| Document page | `frontend/app/documents/[id]/page.tsx` | document shown, error, interval | fetch, poll, leave |
| Dashboard page | `frontend/app/dashboard/page.tsx` | list shown, upload in progress, interval | fetch, poll, upload, sign out |
| Document queries | `documents.service.ts` `list`, `findOne` | none | paginate, filter, read one |
| File storage | `backend/src/storage/storage.service.ts` | files on disk | save, read, delete (never called) |
| Tenant-scoped client | `backend/src/prisma/prisma.service.ts` | none | rewrites query arguments |
| Accounts and tokens | `backend/src/modules/auth/` | tenants, users | register, login, refresh, authenticate a request |
| Client session | `frontend/lib/api.ts` | tokens and user in localStorage | set, clear, refresh, retry a request |
| OCR service | `ocr/server.js` | temporary directories, running processes | one run per request |
| Guards, rate limit, health, logging, errors, configuration, seed, forms | `backend/src/common`, `app.module.ts`, ... | throttler counters in memory, else none | per request |

What is hard here, and what makes each part correct:

* **Three stores, no transaction.** File, row and job are written one after the
  other. Correct: an accepted upload has a job, a job has a row, a row has a
  file (`UploadChain`).
* **At-least-once execution.** The handler writes the row unconditionally, while
  the queue may run a job again: after an error (attempts), after a death of the
  worker or the loss of its lock (stalls). Correct: a bounded number of runs and
  of counted retries, even though a late report takes attempts of the others back
  (`BoundedRuns`, `RetryBound`, `RunsRunOut`); a decided row stays as it is unless
  something happened that the handler cannot see (`DecisionStands`,
  `LifecycleSpec`); the row agrees with the job (`SettledIsDecided`); whatever is
  decided is complete (`DecisionIsClean`); every job and every accepted document
  gets to an end (`EveryJobSettles`, `EveryAcceptedDecided`).
* **A decision based on a number read earlier.** `isFinalAttempt` compares
  `job.attemptsMade`, read when the job was taken, with the limit, while the
  queue does its own counting afterwards. The two must agree for `FAILED` to be
  written exactly when no attempt is left. They agree until a lock is lost: the
  report of a worker without its lock is refused, but its count is stored, and the
  next run reads a number that may have gone back.
* **Polls that overtake each other.** Neither page cancels or orders its
  requests. Correct: a page stops polling only on the truth, and ends up
  showing it (`RestsOnTheTruth`, `DecisionIsShown`, `ListCatchesUp`); over the
  pipeline underneath, the user comes to see the outcome of what he uploaded
  (`OutcomeIsSeen`).
* **A session shared by tabs and requests in flight.** Whatever answers late
  acts on the session it finds. Correct: the three keys belong together, a
  request keeps its author, and no poll ends a good session (`SessionIsWhole`,
  `RequestsKeepTheirUser`, `OnlyTheUserSignsOut`).
* **Checks and what they allow are apart.** A registration checks a slug and
  inserts it later, in a transaction of two statements; a login and the check on a
  request read two rows one after the other while an administrator changes them.
  Correct: `SlugsAreSettled`, `SuspensionStopsCalls`, `SuspensionStopsLogins`,
  `TenantsAreApart`, and no slug, membership or document ever changes hands
  (`RegistrySpec`).
* **Two timers and a caller that may be gone.** A worker gives up on the OCR
  service by its own clock, the service kills tesseract by another one, and
  neither looks whether the other is still there. Correct: the service is always
  first as long as the connection holds (`AnsweredInTime`), the retries of a
  document leave no runs behind (`RunsDoNotPileUp`), every call ends
  (`EveryCallEnds`) and every temporary directory goes (`EveryDirectoryGoes`).

## 2. Modules

| module | models | built on |
|---|---|---|
| `Documents` | a row of `documents` and what each statement does to it | - |
| `JobQueue` | the queue, as its users rely on it | - |
| `Pipeline` | upload, handler, processes, timers | `Documents`, `JobQueue` |
| `DocumentLifecycle` | abstract: the statuses a client may see | implemented by `Pipeline` |
| `TenantRegistry` | abstract: slugs, members and documents of tenants | implemented by `Accounts` |
| `PipelineInvariant` | the inductive invariant of the proofs | `Pipeline` |
| `PipelineProofs`, `PipelineBoundProofs` | theorems | `PipelineInvariant`, TLAPS |
| `OcrService` | one OCR call from both ends: timers, runs, directories | what happens inside `RunOcr` of `Pipeline` |
| `DocumentPage` | the polling page | `Documents`, `DocumentLifecycle` |
| `DashboardPage` | the list and the upload form | `Documents`, `DocumentLifecycle` |
| `PipelinePage` | a document page that follows a row of the pipeline | `Pipeline`, `DocumentPage` |
| `PipelineList` | uploads from the dashboard into the pipeline, and its list | `Pipeline`, `DashboardPage` |
| `ClientSession` | tokens in localStorage, requests that renew them, tabs | - |
| `TenantScope` | the rewriting of queries by `forTenant` | - |
| `Accounts` | registration, login, the check on a request, its query | `TenantScope` |
| `OcrServiceProofs`, `DocumentPageProofs`, `DashboardPageProofs`, `ClientSessionProofs`, `AccountsProofs` | theorems | the module they are named after, TLAPS |
| `CompositionProofs` | theorems about both compositions | `PipelinePage`, `PipelineList`, the proofs of their parts |
| `MCPipeline`, `MCPipelinePage`, `MCOcrService`, `MCDocumentPage`, `MCDashboardPage`, `MCClientSession`, `MCAccounts` | small instances, symmetry and bounds for TLC | the above |

### Pipeline

A step is what happens between two awaits: one SQL statement, one Lua script of
Bull, one HTTP call.

| state | in the code |
|---|---|
| `rows[d]` | the row: `status`, whether `errorMessage` is set, `retryCount`, whether `extractedData`/`processedAt` are set |
| `stored` | files written by `LocalStorageService.save` |
| `upload[d]` | the await at which request `d` stands, or how it ended |
| `jobs[d]` | the Bull job: list it is in, `attemptsMade`, `stalledCounter`, holder of the lock |
| `pc[w]`, `run[w]`, `attempt[w]` | the handler's program counter in worker process `w`, its job, and `job.attemptsMade` as read when it was taken |
| `hit[d]` | history: which faults touched `d`. No guard reads it |

| actions | in the code |
|---|---|
| `RejectUpload`, `SaveFile`, `CreateRow`, `Enqueue` | `DocumentsService.upload` |
| `UploadFails` | any of its awaits throws, or the API dies; with or without the effect of the await |
| `Take`, `Settle` | Bull hands a job to an idle worker; the outcome of the handler is reported. Without the lock the job is not moved, but the worker's own count is stored (`SaveAttempt`) |
| `Find`, `Claim`, `RejectPdf` | lines 52-82: outside the `try`, so their failures go straight to the queue |
| `ReadFile`, `RunOcr`, `Save` | lines 85-100, inside the `try` |
| `Count`, `GiveUp` | the `catch` block: `retryCount` + 1, then `FAILED` on the last attempt, then rethrow |
| `Crash`, `Restart` | death of a worker, `restart: unless-stopped` |
| `LoseLock`, `MoveStalled`, `Promote` | lock expiry under a hung worker, Bull's stall check, the backoff timer |

A statement of the worker succeeds, throws without effect (`"db"`), or throws
after taking effect (`"ack"`, a connection that drops before the answer). The
constant `Faults` says which faults a run allows.

Abstractions worth knowing:

* The content of uploads is their outcome: accepted or refused. The controller
  accepts only images; `Pdfs` stands for rows the service can still create
  (`validateUpload` lets PDFs pass when it is called otherwise) and that the
  handler has a branch for.
* One document, one job, one request. A second upload of the same file is
  another document; nothing in the code relates the two.
* A job is moved only for the holder of its lock. The attempt is another matter:
  `Job.moveToFailed` queues `_saveAttempt`, which stores `attemptsMade` + 1 of the
  worker that reports, in one MULTI with the script that checks the lock, and a
  MULTI is not undone when its script refuses. A completion that is refused takes
  the same way, since Bull handles it as a failure. So a late report may set the
  stored number back, and the next run decides by it (`isFinalAttempt`, and Bull's
  choice between another retry and the end). Other fields such a worker writes
  (`failedReason`, the stack trace) are left out: no code reads them.
* Settled jobs are not removed: `removeOnComplete` and `removeOnFail` act after
  hours, and no code looks a job up.
* `processing.processor.ts` events (`onCompleted`, `onFailed`) only log.

### DocumentLifecycle

Per document: `NONE -> PENDING -> PROCESSING -> COMPLETED | FAILED`, where
PROCESSING may be claimed again by a retry. A document that has become *suspect*
(its worker died or lost its lock, or a write was reported as failed that was
not) may be worked on again after its decision, but never disappears or becomes
PENDING. `Pipeline` implements it with `status` and the suspects read off
`rows` and `hit`.

### OcrService

| state | in the code |
|---|---|
| `call[w]`, `age[w]` | the pending `fetch` of worker `w`: the run it waits for, `"silence"` when the connection is lost and the worker has not been told; the time on its abort timer |
| `run[r]` | the request in the service: whose it is, the await it stands at, the time spent in tesseract (`ran`) and elsewhere (`lag`). `gone` is a note that its worker died or knows that the connection is lost; no guard reads it |
| `dir[r]` | its temporary directory: none, used, being removed, or litter nobody will remove |
| `up` | the process is alive |

| actions | in the code |
|---|---|
| `Ask`, `Abort` | `runOcr` of the processor: `fetch`, `controller.abort()` |
| `Refuse`, `MakeDir`, `Proceed`, `Answer` | `POST /ocr`, one await after the other |
| `Fail` | the `catch`: a step throws, or `execFile` has killed tesseract (`Killed`) |
| `Cleans`, `Remove` | the `finally`: a removal is started, and ends without anybody waiting |
| `Die`, `Restart` | `mkdtemp` rejects outside the `try` of an async Express 4 handler: the process ends with all its runs, and Docker starts it again |
| `Leaves`, `Silence` | a worker dies or is told of a lost connection; or is not told |
| `Tick` | time: it does not pass a moment at which a timer fires, and what a run does outside tesseract takes `Lag` at most |

Both limits are parameters, with one assumption: `OcrLimit + Lag < CallLimit`
(110 s, 120 s). It is what the comments at `server.js:15` and at
`processing.processor.ts:132` need, and the mutants that make the limits equal
or drop one show that the properties fail without it. The temporary directory of
a request reuses the slot of its run only when it is gone, so `Runs` also bounds
the litter a run of TLC can see.

### DocumentPage and DashboardPage

`poll[p]` and `fetch[f]` are requests in flight: not used, asked, or carrying
the answer the API gave at some point. Answers arrive in any order. On the
document page the interval exists exactly while `doc` is set and undecided
(`Polling`); `setError` hides the document and nothing clears it. On the
dashboard the interval never stops, failures of a fetch are ignored, and one
upload at a time waits for its answer and then for a fetch of its own, which
`handleUpload` starts even when the page has been left meanwhile.

A visit to the document page starts with a link in the list (`Open`), at any time
of the document's life, and ends with `Leave` or with a 401.

Both pages are composed with `DocumentLifecycle`: the rows they read take its
steps, with the suspects it allows. `DocumentPage` lets the document become
suspect at any time; `DashboardPage` fixes the suspects as a parameter, which
covers a document that becomes suspect later, because a suspect may do all that
another document may. A row may appear on the dashboard at any time
(`RowCreated`): for the upload under way, for one whose connection was lost, or
for a colleague. A decision that is taken back is where the pages differ: the
document page has stopped polling and goes on showing it (its properties except
suspects), while the dashboard's unconditional interval corrects itself, so that
`ListCatchesUp` excepts nothing.

### PipelinePage and PipelineList

The pages on the real thing: `status` is `rows[d].status` of `Pipeline`, and the
document is suspect when `hit[d]` says so. `PipelinePage` interleaves the workers
with a page that follows one document; `PageSpec` says that the page notices
nothing of the workers but an abstract document. In `PipelineList` an upload
form sends a request of `Pipeline` (`SendUpload`), and is answered when that
request has queued its job (`Accepted`), whatever the workers have done to the
row by then; `ListSpec` says that this implements `DashboardPage`, where the
answer only needs a row.

What happens to the tokens inside `apiFetch` is not part of these modules: a
request ends with an answer, a 401 that survived the refresh, or another failure.

### ClientSession

`access`, `refresh`, `user` are the keys of localStorage, `tab[t]` says whether a
tab shows the login form or a page of the application, and `call[c]` is one run
of `apiFetch`: `sent`, after a 401 with a refresh token at hand `renew`, after
new tokens `again`, after a last 401 `failed`, with the token it sent last. A
poll that fails clears the session (`Handle`), an upload or a login only shows a
message. A copy of a token is `live` until its age is noticed; the server also
refuses requests, but not renewals, of a suspended user. The code between two
answers is one step, so `Renewed` stores its tokens whatever the storage holds
by then, and `Handle` clears whatever session is there.

That is where sessions can mix, and the code does nothing against it: a renewal in
flight across a sign-out or sign-in, or a request of one session that fails in the
next. The ghost `overlap` is true from such a moment until a sign-in with nothing
else in flight. The properties say what holds without it, and that nothing else
can break them; of a session that did meet an overlap they claim nothing, so the
hazards that consist in one (PROJECT.json) are listed without a property. `lapsed`
notes that a refresh token reached its age limit, or that a renewal with a good
one was answered with an error (`"busy"`): `tryRefresh` takes any answer but a
success as a refusal, and the 401 before it becomes the result of the request. The
rate limiter makes this possible without any failure: `JwtAuthGuard` stands before
`ThrottlerGuard`, so a 401 is never counted, while renewals are.

### Accounts and TenantScope

`reg[f]` is a registration: check of the slug, hashing, and one transaction that
inserts the tenant (`InsertTenant`), then the owner, and commits (`Commit`); both
are named `f`. Nobody sees the tenant before the commit, but the unique index holds
its slug from the insert on: another insert of it waits until the transaction has
ended, to go on after a rollback (`RegisterFails`) and be refused after a commit
(`Duplicate`). `request[q]` is a login (tenant by slug, user,
password) or an API call (user of the token, his tenant, then one query of
`DocumentsService` through `TenantScope`), one database read at a time: the
`include` of `JwtStrategy.validate` is a second SELECT. `SetStatus` is the
administrator, who works on the database directly. `sessions` holds the owners
who were ever given tokens: a refresh does not look at the database, so tokens
never run out, and only the check on each call can stop them. The ghost `seen`
collects which rows were ACTIVE at some time since a request was made.

`TenantRegistry` is what all this promises the tenants: a register of slugs that
only grows, tokens only for tenants in the register, and documents that are filed
once, under the tenant of somebody with a token. `Accounts` implements it with the
register read off `tenants` and `slug`, the members being `sessions`.

The controller's validation of inputs, the password hash and the claims of a
token other than its user are left out; a token that is expired or not signed by
the server does not reach the modelled steps.

## 3. Runs

| run | constants | faults | what it shows |
|---|---|---|---|
| `safety` | 1 image + 1 PDF, 3 workers, 3 attempts, 1 stall | all | types, `UploadChain`, `BoundedRuns`, `RetryBound`, `DecisionIsClean`, `SettledIsDecided`; the invariant `IInv` of the proofs |
| `lifecycle` | 1 image, 2 workers, 3 attempts, 1 stall | all | `LifecycleSpec`, `DecisionStands`, `RunsRunOut`, `EveryJobSettles`, `EveryAcceptedDecided` |
| `orphan_row` | 1 image, 1 worker | upload | violated: `PendingIsQueued` |
| `status_back` | same | crash | violated: `StatusMoves` |
| `exhausted` | same | db | violated: `ExhaustedIsFailed` |
| `poll_forever` | same | crash | violated: `PollEnds` |
| `ocr` | 2 workers, 2 runs, limits 2 and 4, lag 1 | all | types, `AnsweredInTime`, `RunsDoNotPileUp`, `EveryCallEnds`, `EveryDirectoryGoes` |
| `page` | `PipelinePage`: 1 image, 1 worker, 2 attempts, 1 stall, 2 polls in flight | db, ack, crash, all of the page | types, `RestsOnTheTruth`, `PageSpec`, `DecisionIsShown`, `OutcomeIsSeen` |
| `page_stuck` | 2 polls in flight | fail | violated: `UpdatesAutomatically` |
| `dashboard` | 2 documents, one of them suspect, 2 fetches in flight | all | types, `UploadIsListed`, `ListCatchesUp` |
| `session` | 2 users, 2 tabs, 2 requests in flight | all | types, `SessionIsWhole`, `RequestsKeepTheirUser`, `OnlyTheUserSignsOut` |
| `accounts` | 2 registrations, 2 slugs, 2 requests, 2 documents | all | types, `SlugsAreSettled`, `SuspensionStopsCalls`, `SuspensionStopsLogins`, `TenantsAreApart`, `RegistrySpec` |

Why the bounds are enough. `MaxAttempts = 3` and `MaxStalls = 1` are the values
the code uses. Documents share only the workers: no statement touches two rows
and no job two documents. So one document shows what the faults do to it, with
three workers because a job can be lost twice (once forgiven), and two documents
show the competition for workers. `safety` does both: a document that is alone
meets every fault; of two that compete, one meets one kind of them
(`FaultsBounded` in `MCPipeline`). Nothing else in the pipeline is cut off:
attempts, stalls and retries are bounded by the code itself, which is what
`RetryBound` and `EveryJobSettles` say. `RetryBound` allows 4 counted retries, and 5
for a document that lost a lock; the worst of the hazard is in reach of the run: the first
worker loses its lock, the second fails twice, the late report of the first sets
the count from 2 back to 1, and the second fails twice more.

In `ocr`, limits of 2 and 4 with a lag of 1 are the smallest that leave the one
moment of room the assumption asks for and let a run spend time in tesseract and
outside it. Two runs are two calls at once, or the call of a worker and what its
call before left behind.

`Polls` and `Fetches` bound only how many requests of one page are under way at a
time: two overtake each other, and the one that has arrived is free for the poll
that repairs what the overtaken one spoiled. In `page` one worker meets everything
a page can notice: rows that are claimed again, decisions that are taken back by a
worker's death or a lost answer, and documents the queue gives up; two attempts
are enough for a retry. Lost locks need two workers; that they show the page
nothing else is proved (`FollowsTheLifecycle`). In `session` two requests are
enough for two renewals at once and for a request of one session meeting another;
two tabs let one sign out while the other goes on polling. In `accounts` two
registrations race for one slug or found two tenants, and two requests cover two
tenants at once, or a login and a call. What the safety properties of all of these
say for more requests, documents and users is proved (section 5).

Deadlock is not checked, because the system rightly stops: when every request
has ended and every job has settled nothing is left to do, a page that has been
left does nothing either, and neither does a service nobody calls.

Workers, tabs, requests and the like are interchangeable, so `safety`, `session`
and `accounts`, which check no liveness, use symmetry. No run that checks
liveness does.

## 4. Fairness

* `WF(Handler(w))`: an event loop goes on and every await of the handler ends.
  The one await that could hang is the OCR call, which `runOcr` aborts by a
  timer (120 s); `EveryCallEnds` of `OcrService` shows that it does. Database and
  file calls answer or throw.
* `WF(Restart(w))`: `restart: unless-stopped` in `docker-compose.yml`.
* `WF(\E w : Take(w, d))`, `WF(MoveStalled(d))`, `WF(Promote(d))`: Bull's
  blocking fetch and its timers, which any live worker runs. A worker that is
  not blocked forever takes a waiting job; with finitely many jobs, each gets
  its turn.
* No fault and no request is ever forced. Faults may repeat as long as the
  counters of the queue let them.
* `OcrService`: time passes, both timers fire, file operations end, Docker
  restarts the service. That tesseract ends is not assumed: only `Killed` ends a
  run that hangs.
* `DocumentPage`: the interval fires, and each poll is answered and delivered, or
  fails. `PipelinePage`: the fairness of the pipeline and of the page, each over
  the steps of its own side. `DashboardPage`: the interval fires, a list that was
  read is delivered, and a request that is made again and again is answered at
  some time (strong fairness): a service that is not down for ever. Without it
  every single fetch may fail for ever and the list never changes.

## 5. Proofs

All safety properties of the passing runs are also proved, for any values of the
constants that satisfy the assumptions their modules declare: invariants, action
properties and refinements.

| module | theorem | says |
|---|---|---|
| `PipelineProofs` | `TypeCorrect` | `TypeOK`, and a worker has a job in hand exactly while in the handler |
| | `UploadsAreChained` | `Spec => []UploadChain` |
| | `DecisionsStand` | `Spec => DecisionStands` |
| | `ImplementsLifecycle` | `Spec => LifecycleSpec` |
| | `SettledJobsAreDecided` | `Spec => []SettledIsDecided` |
| `PipelineBoundProofs` | `DecisionsAreClean` | `Spec => []DecisionIsClean` |
| | `RunsAreBounded` | `Spec => []BoundedRuns` |
| | `RetriesAreBounded` | `Spec => []RetryBound` |
| | `RunsAreUsedUp` | `Spec => RunsRunOut` |
| | `SettlingDecides` | `Spec /\ EveryJobSettles => EveryAcceptedDecided` |
| | `InvariantHolds` | `Spec => []IInv` |
| `OcrServiceProofs` | `WaitsMatchRuns`, `OcrTypes` | `OcrInv`, `TypeOK` |
| | `AnswersComeInTime` | `Spec => []AnsweredInTime` |
| | `OneRunPerWorker` | `Spec => []RunsDoNotPileUp` |
| `ClientSessionProofs` | `SessionInOrder`, `SessionTypes` | `SessionInv`, `TypeOK` |
| | `SessionStaysWhole` | `Spec => []SessionIsWhole` |
| | `RequestsKeepTheirs` | `Spec => []RequestsKeepTheirUser` |
| | `SessionsLast` | `Spec => OnlyTheUserSignsOut` |
| `AccountsProofs` | `AccountsInOrder`, `AccountsTypes` | `AccountsInv`, `TypeOK` |
| | `SlugsSettle` | `Spec => []SlugsAreSettled` |
| | `CallsStop`, `LoginsStop` | `Spec => []SuspensionStopsCalls`, `Spec => []SuspensionStopsLogins` |
| | `TenantsStayApart` | `Spec => []TenantsAreApart` |
| | `ImplementsRegistry` | `Spec => RegistrySpec` |
| `DocumentPageProofs` | `PageInOrder`, `PageTypes` | `PageInv`, `TypeOK` |
| | `PageRestsOnTheTruth` | `Spec => []RestsOnTheTruth` |
| `DashboardPageProofs` | `DashboardInOrder`, `DashboardTypes` | `DashboardInv`, `TypeOK` |
| | `UploadsAreListed` | `Spec => []UploadIsListed` |
| `CompositionProofs` | `FollowsTheLifecycle` | `FollowSpec => PageSpec` |
| | `FollowTypes` | `FollowSpec => []FollowTypeOK` |
| | `FollowerRestsOnTheTruth` | `FollowSpec => []RestsOnTheTruth` |
| | `WatchesTheLifecycle` | `WatchSpec => ListSpec` |
| | `WatchedUploadsAreListed` | `WatchSpec => []UploadIsListed` |

The assumptions say that `None` is nothing else, that limits are natural numbers
(at least one attempt), that `Pdfs`, `Suspects` and `Faults` are what they say,
and for `OcrService` that the two limits leave room for the lag. `CallAssumption`,
`RequestAssumption` and `RunAssumption` say that `None` is no record.

### Pipeline

None of the properties but `DecisionIsClean` is inductive alone. `IInv` is built
in layers, each preserved with the help of the earlier ones:

1. *Typed* (`TypeOK`, `HandsInv`).
2. `ChainInv`: where a request stands says which of file, row and job exist; a
   job in a hand exists. Gives `UploadChain`.
3. `OwnerInv`: until a lock is lost, whoever runs a job owns it, and the attempt
   it read is still the queue's. This is why `isFinalAttempt` can be trusted.
4. `CalmInv`: for a document that is not suspect, an active job is held by its
   worker, a job that may still run has an undecided row, and the handler's
   position says which status the row has. Hence nobody who could write is
   around once the row is decided: `DecisionsStand` and `ImplementsLifecycle`.
5. `TruthfulInv`: with crashes only, what the handler is about to report is what
   the row says. A crash between write and report is covered because a repeated
   run claims the row again and the job is not settled in between. Gives
   `SettledJobsAreDecided`.
6. `BoundInv`: an account. Only an active job is locked (`Locked`); a job that
   stalled too often has failed (`Limited`); a run that goes on without its lock is
   paid for by a stall (`Paid`); and the failures counted, those the runs under
   way may still count and the runs left (`RunsLeft`) stay together within
   `MaxAttempts + MaxStalls * (1 + back)` (`Accounted`), where `back` is what a late
   report may take back: `GivenBack`, or 0 while no lock was lost. Nothing is said
   of the attempts stored, which may go either way. With the cardinalities of the
   library this gives `RunsAreBounded` and `RetriesAreBounded`.

`RunsAreUsedUp` gives the measure by which retries end. `RunsLeft` counts the
attempts a job has left, and for each stall not yet spent one run and `GivenBack`
more attempts, reserved for the late report that a lost lock leads to; for each run
that already goes on without its lock it keeps only the reserve. It is a natural
number, no step raises it (`LeftFalls`), and every start of a run lowers it. The
step that needs care is the late report (`LeftSettle`): it may raise
`AttemptsLeft`, by `GivenBack` at most, because it says 1 at least and a job that
still has an attempt has made `MaxAttempts - 1` at most; and that much was reserved
for this run when it lost its lock.

`SettlingDecides` is the part of liveness that needs no fairness: an accepted
request stays accepted, its job exists (`UploadChain`), a settled job is never
moved again (`SettledStay`), and what a settled job says of the row is
`SettledIsDecided`. So whatever scheduling makes every job settle also has every
accepted document decided, or excused, for good.

The proof of a layer has one lemma for each group of actions (request, handler,
timers, processes). Frame lemmas (`CalmFrame`, `TruthfulFrame`, `SoundFrame`,
`FrameLeft`, `OtherSteps`) deal with steps of other workers and documents once and
for all.

### The other parts

* `OcrInv`: while a worker has neither died nor been told of a lost connection,
  the age of its call is what its run has spent in and around tesseract, and the
  two wait for each other. A run is killed at `OcrLimit` and has `Lag` for the
  rest, so the age stays below `CallLimit` until the answer.
* `SessionInv`: without an overlap all keys, renewals and requests belong to the
  stored user (or, for requests, to one who has just signed out), and a renewal
  can fail only if a token lapsed or its user is suspended. The ghost `overlap`
  is what an inductive argument needs to stay silent about mixed sessions.
* `AccountsInv`: a slug has one tenant; a transaction under way has its slug to
  itself (`Reserved`); a registration that neither committed nor met a fault has no
  rows; a request that has passed a check saw that row ACTIVE.
  For `ImplementsRegistry` also `Known`: whoever has tokens, and whatever a request
  has seen, has a tenant that exists, and a call belongs to somebody with tokens.
  `Enter` is then one of the two ends of a transaction, `Admit` a login, `File` an
  upload; everything else, suspensions included, leaves the register alone.
* `PageInv`: of a document that is not suspect, neither the page nor a poll in
  flight holds a decision other than the row's; an open page without an answer
  or an error has a poll under way.
* `DashboardInv`: the fetch an upload waits for was asked for when its row
  existed, and rows do not disappear.

### The compositions

`ImplementsLifecycle` says that the pipeline is a set of abstract documents, and
the pages are proved over abstract documents. `CompositionProofs` puts the two
together. A step of the workers is a step of `DocumentLifecycle` on all documents;
restricted to the document of the page it is such a step again, or none
(`FollowedMoves`), and a step of the page leaves the rows alone, so the
composition implements `DocumentPage` (`FollowsTheLifecycle`) and the page's
theorems, instantiated with the pipeline's rows, carry over. On the dashboard the
suspects are all documents, so every step of the lifecycle is one the dashboard
allows (`WatchedRows`, `ListedMoves`); that its `Uploaded` finds a row when the
202 arrives is `UploadChain` (`SendingStep`).

No run holds the state space of two uploads, their workers and two lists in
flight, so `PipelineList` is proved about and not part of a run; its two sides
are checked alone by `safety` and `dashboard`.

### What is only model-checked

The liveness properties (`EveryJobSettles`, `EveryCallEnds`, `EveryDirectoryGoes`,
`DecisionIsShown`, `OutcomeIsSeen`, `ListCatchesUp`): they rest on fairness, hence
on `ENABLED`, which the prover does not handle. `EveryAcceptedDecided` is proved
from `EveryJobSettles`. That retries end could be concluded from `RunsRunOut` only
by induction over `RunsLeft`, and the theorems for that take an operator the
installed provers cannot instantiate.

## 6. What the runs found

* **A row without a job** (`orphan_row`). Between `document.create` and
  `queue.add` an error or a crash leaves a PENDING row that nothing will process;
  the schema says of PENDING "queued, not yet picked up".
* **A decided document goes back** (`status_back`). A worker that dies after
  writing COMPLETED has its job run again, and the claim writes PROCESSING.
* **Exhausted but not FAILED** (`exhausted`). Statements before the `try`, and
  those of the `catch` block, throw past the write of FAILED.
* **Polling for ever** (`poll_forever`). After two deaths the queue fails the
  job by itself; `onFailed` only logs, and the row stays undecided.
* **One failed poll is final for the user** (`page_stuck`). The error is never
  cleared, so the page does not "update automatically" any more.
* **A late report gives attempts back** (`safety`: what `RetryBound` adds for a lost
  lock). `retryCount` may reach 5 with 3 attempts, because Bull stores the count of a
  worker whose report it refuses. How far this can go is bounded (`RunsRunOut`).
* **A busy server signs users out** (`session`: the exception `lapsed` in
  `OnlyTheUserSignsOut`). A renewal that is answered 429 or 500 counts as refused,
  and the poll that wanted it clears the session.
* **A decision that is taken back stays on the screen** (`page`: the exception of
  suspects in `RestsOnTheTruth`). The document page stops polling at the first
  decision it sees; the dashboard does not.
* **One failing `mkdtemp` ends every run** (`ocr`: `Die`). The callers learn of it
  or give up, but directories in use stay for good; this is why
  `EveryDirectoryGoes` ends in "none or litter".

Seen while reading and not the subject of a run: the comment at
`dashboard/page.tsx:48` says the dashboard polls "while any document is still
processing", and its interval does not look at the documents. `ListCatchesUp`
depends on that: with the interval the comment describes it is violated.

A registration that loses the race for a slug is answered 500: the error of the
unique index is not an `HttpException`, and only the check before it throws
`ConflictException` (`Duplicate` against `CheckSlug`).

## 7. Not modelled

* **The bytes of a file.** `magicBytesMatchMime` is an outcome of `RejectUpload`.
  Its WebP branch compares the length of an 8-byte slice with 12 and so refuses
  every WebP file, although the controller accepts the type; the expression has
  no state, and one evaluation settles it.
* **Page numbers, page sizes and the status filter of `list`.** The frontend asks
  for the first 50 and reads no total. `items` and `total` come from two
  statements without a transaction; nothing reads both.
* **`expiresIn` of a token**, which no code of the repository reads. The life of a
  token itself is the step that ends it (`AccessExpires`, `RefreshExpires`).
* **The counters of the rate limiter.** They belong to the library and are lost
  with the process; what a 429 does to a client is modelled.
* **The user a page shows.** It is copied once from localStorage and decides
  nothing. After a sign-in in another tab it is the wrong one, whatever the
  page does.
* **Liveness of a session** (a suspended user's pages end at the login form): the
  state space of `ClientSession` without symmetry is out of reach for a check of
  liveness on an instance where requests meet.
* **Operations of the tenant-scoped client that no service calls**, `delete` of
  the file storage, and roles (no route asks for one): no reachable state depends
  on them.
* **Health, logging, the error envelope, configuration, the seed** and what the
  forms and pages look like: no state beyond start-up.

What would come next: `OcrService` in place of the one step `RunOcr` of `Pipeline`,
so that the calls of the workers are those of their jobs; an abstract session (one
that begins and ends) that `ClientSession` implements while nothing overlaps; and
a `list` with pages, once the frontend has some.
