# Powerline in TLA+

Powerline connects supporters of a campaign with the offices of their officials:
a FastAPI backend (Postgres, Redis, Celery), an embeddable call widget, an admin
frontend, and Twilio, which carries the calls and drives the backend through
webhooks. This directory models the parts whose correctness depends on the order
of steps taken by several actors, checks them with TLC, and proves all but one of
the safety properties they are checked for with TLAPS, for any size of the instance.

## Inventory

| component (source) | state it keeps | operations | what is hard |
|---|---|---|---|
| Call flow (`backend/app/api/v1/webhooks.py`, `services/call_state.py`) | Redis `call_session:{id}` (one JSON document), `call_sid_bind:{id}`; rows `call_sessions`, `calls` | voice-app, make-calls, dial-target, call-complete, status-callback | read-modify-write of the document without compare-and-set; Twilio retries; callbacks nobody waits for; a handler that dies between its commit and its save; keys that expire |
| Skip, call creation (`api/v1/calls.py`) | the same | skip, the tail of create_call | skip writes the document while call-complete does |
| Starting a call (`api/v1/helpers.py`, `tokens.py`) | the campaign's advisory lock, `call_sessions` | start_call_session, reserve_call_slot | the count that admits a call is changed by webhooks that take no lock; the list that is dialed is edited meanwhile |
| Refresh tokens (`services/auth.py`, `api/v1/auth.py`, `dependencies.py`) | Redis `refresh*`, `session_floor`; `users.sessions_valid_from` | sign-in, rotation, sign-out, revocation | two tabs at once; non-atomic pipelines; loss of Redis |
| Reset codes (`api/v1/auth.py`) | Redis `reset`, `reset_attempts` | reset-request, reset-confirm | the code is deleted last; guesses are counted after the comparison |
| Users (`api/v1/users.py`) | `users` | create, update, last-admin guard | the row is read before the lock |
| Rate limiter (`services/rate_limiter.py`) | Redis sorted sets | check_rate_limit | the caller's clock, the edge of the window |
| Campaigns, targets (`api/v1/campaigns.py`) | `campaigns`, `campaign_targets`, `targets`, import lock and errors | status, archive; add, import, update, reorder, remove | archive writes without the guard of update; reorder takes no advisory lock; a scan of live calls before a delete; a lock that expires under an import |
| Audio (`api/v1/audio.py`) | `audio_recordings` | upload, text version, activate | version races, one active row per slot |
| Representatives (`services/civic_service.py`, `services/civic/`, `tasks/`, `services/redis_lock.py`) | Redis cache, handles and task locks; transient target rows | lookup, handles, calls from them, daily clean-up | partial failure must not be cached; levels change between steps; a worker that outlives its lock |
| Migrations (`alembic/`) | the schema, its stamp | upgrade and downgrade, 006 to 010 | a transaction split in two; cancelled concurrent builds; writes that go on |
| Embed widget (`embed/src/`) | widget state, Device, Call, timers | init, rep lookup, start, skip, end | late answers and callbacks after destroy |
| Frontend (`frontend/src/`) | the API client's refresh queue, paged lists | request retry, load more | a queue on a refresh; pages out of order |
| Phone numbers, analytics, dashboard, blocklist, TwiML and SMS providers, startup | rows | single transactions, reads, rendering | nothing concurrent beyond a unique constraint |

How they interact: starting a call reads the list of targets or a handle, opens a
session under the ceiling and stores the call state; from then on Twilio drives
the call flow, which re-reads the targets. Removing a target looks for such calls
first, and the clean-up deletes what handles left. A password reset, a demotion
and a deactivation revoke a user's sessions. The rate limiter stands before all
of them.

What makes them correct: a session serves one call; every leg is logged once,
under the target it dialed; a callback repeated or re-sent changes nothing; every
call ends; the ceiling overshoots by a bounded amount; a token is exchanged once,
and what was ended stays ended; an administrator remains and a code is spent; a
target that a call needs stays, and orders, versions and imported ids are unique;
a partial answer is never served from the cache; the stamp tells the schema.

## Modules

| module | models |
|---|---|
| `CallFlow`, `MCCallFlow` | one call session and everything about it that runs on the server, with Twilio as environment |
| `CallFlowProofs` | theorems about CallFlow |
| `CallCeiling`, `MCCallCeiling` | the sessions of one campaign under its ceiling |
| `TokenChains` | the abstract promise of refresh tokens |
| `SessionAuth`, `MCSessionAuth`, `SessionAuthProofs` | one user's tokens and revocations; implements TokenChains |
| `TargetList`, `MCTargetList`, `TargetListProofs` | the targets of one campaign, their editors, imports and calls |
| `CampaignAudio`, `MCCampaignAudio`, `CampaignAudioProofs` | a campaign's status and one of its audio slots |
| `Accounts`, `MCAccounts`, `AccountsProofs` | roles with the last-admin guard, and one account's reset codes |
| `RateLimiter` | one bucket of the sliding window |
| `AdmissionProofs` | theorems about RateLimiter and CallCeiling |
| `RepLookup`, `MCRepLookup`, `RepLookupProofs` | representatives for one ZIP code: lookup, cache, handles, calls, clean-up |
| `Migrations`, `MCMigrations`, `MigrationsProofs` | runs of alembic over 007 to 010 |

An `MC` module adds the symmetry, the small constants and, where one is needed, the
mutants that only TLC reads. In every module a request, job or run is a record
whose `pc` names the statement it makes next, and one statement that reads or
writes shared state is one step, so that others come between any two of them.
Variables marked *history* are read by properties only.

### CallFlow

A **job** is one run of a handler. It makes one step per awaited access to Redis
or the database and holds, like the coroutine, a private copy `st` of the state
it read; `pc` names the access it makes next.

| state | code |
|---|---|
| `redis` | `call_session:{id}`: `current_target_index` (`idx`), `dialed_index`, `completed_legs` (`done`), `skip_requested`, `call_sid`, `gather_attempts` |
| `bind` | `call_sid_bind:{id}` |
| `session`, `rows`, `present` | the `call_sessions` row; its `calls` rows; the target rows that exist |
| `creating` | create_call has not returned from Twilio |
| `twilio`, `mail` | what each call does at Twilio; callbacks about it that nobody waits for |
| `clock` | which keys may expire, and in which order |
| `legs`, `asked`, `spent` | history and bounds: the dials made; the legs that were up when skip was pressed, whether a press met none (`blind`) and whether a leg ended while one was being served (`late`). No guard but a bound's reads them, except that a leg's number stands for its DialCallSid |

| steps | handler |
|---|---|
| `VoiceLoad` `VoiceClaim` `VoiceHolder` `SaveState` `VoiceAdmit` | voice-app: read, SET NX of the binding, GET of the holder and one retry, save, checks and UPDATE |
| `MakeCalls` | make-calls: read and count; `SaveState` stores |
| `DialLoad` `DialTarget` | dial-target: read, SELECT target, save `dialed_index`, answer |
| `CompleteLoad` `CompleteDedupe` `CompleteInsert` `SaveState` `CompleteFinish` | call-complete: read, dedupe, insert and commit, save, finish |
| `StatusTally` `StatusClose` | status-callback |
| `SkipLoad` `SaveState` | skip |
| `RejectUnbound`, `RedisError` | `_bound_state` refusals; `_twiml_on_error` |
| `CreateCallReturns` | create_call returned or raised |

Twilio answers, gathers, dials, hangs up, retries (`Deliver`, `TimeOut`) and posts
status callbacks in any order (`DeliverMail`). A target whose row is deleted
(`TargetDeleted`) stands for remove_target and the clean-up task. Dial and call
statuses are represented by one member of each class that the maps in the code
send to one value. The document is written whole, as in the code, so lost
updates are in the model. Sessions share neither key nor row, so one is enough.

### SessionAuth and TokenChains

`live`, `grace`, `pred`, `tomb`, `members` and `floor` are the Redis keys; every
command of a non-transactional pipeline is a step, the rotation script is one
(`Rotate`). A refresh first mints its successor (`Mint`), then rotates, and
deletes the successor when the token was not live (`Drop`). A revocation is
`Sweep` (SMEMBERS), `Erase` (DEL), `Raise` (SETEX), `Commit` (the row). Access
tokens carry only their issue time, so the floors stand for them.

TokenChains says what all this is for: sign-in opens a chain, a token is exchanged
once for the chain's next, any tokens may end, none comes back. SessionAuth
implements it with `usable` = the live tokens that belong to a chain; a minted
successor joins its chain when the script consumes its predecessor.

### CallCeiling

Requests lock, count, insert and commit, store the state and are answered;
voice-app and the closing callbacks change the statuses that are counted, without
the lock. A dying server gives the lock back, as its connection ends.

### TargetList

| state | code |
|---|---|
| `list`, `ext` | `campaign_targets` with their order; `targets` with their external id |
| `advisory`, `row` | the lock of `_lock_campaign_targets`; the open transaction that wrote the campaign's row |
| `lock`, `errorsOf` | Redis `import_lock` (owner, and whether its TTL runs low), `import_errors` |
| `state`, `reads`, `logged` | the targets in a call's state; what a call being started has read; its `calls` rows |

| steps | handler |
|---|---|
| `Lock` `NextOrder` `AddCommit` | add_target: advisory lock, MAX(order), insert and commit |
| `PickTarget` `UpdateCommit` | update_target |
| `Acquire` `Parse` `Lock` `Known` `NextOrder` `ImportWrite` `Heartbeat` `ImportCommit` `Note` `Release` | import: SET NX, the file, the lock, the known ids, the highest order, each row, the refresh, commit, errors, release |
| `ReorderRead` `ReorderFlush` `ReorderCommit` | reorder_targets: read without the lock, write, commit |
| `Unlink` `CountCalls` `Scan` `RemoveCommit` | remove_target: link, logged calls, SCAN of live states, commit |
| `BreakDeadlock` | Postgres ends one of two transactions that wait for each other |
| `StartCall` `SaveState` `LogCall` `StateExpires` | a call reads the list, stores its state, logs a leg, ends |
| `LockRunsLow` `LockExpires` `Die` | time, and a handler that dies |

### CampaignAudio

`status`, `versions`, `active` are rows; `slot` is the transaction that holds
`SELECT ... FOR UPDATE`. update_campaign is `ReadCampaign`, `UpdateStatus` (guarded
by the status it was decided on), archive_campaign is `ReadCampaign`, `Archive`
(not guarded); an upload is `NextVersion`, `Insert`, again on a conflict up to
`MaxAttempts`; activate_audio is `LoadRecording`, `CheckLive`, `LockSlot`,
`Switch`. `Switch` does what the ORM does: a version loaded as active is not
written again.

### Accounts

create_user is `Create`; update_user is `LoadUser`, `LockGuard`, `CountAdmins`,
`WriteUser`, and takes the guard only when the row it loaded was an active
administrator's. reset-request is `FindCode`, `ForgetCount`, `Issue`;
reset-confirm is `Compare`, then `Tally` (the attempt script) for a wrong guess or
`Verify`, `Reset`, `Discard` for a right one. Its revocation is `Revoke` of
SessionAuth. Codes are numbered, and `CodeExpires` drops the two Redis keys.

### RateLimiter

`Attempt(lag)` is the script with a time read `lag` seconds ago; `Tick` passes a
second and drops a key whose TTL is over. `scores` and `expiry` are Redis's.

### RepLookup

A lookup is `ReadCampaign`, `ReadCache`, `Fetch` or `Unavailable` (some or all
providers fail), `StoreCache` (only a whole answer), `IssueToken` for each handle. A
call from a handle is `FindCampaign`, `ResolveRep`, `CommitSession` (which inserts the transient target),
`SaveState`, `LogCall`. The clean-up is `AcquireLock`, `DeleteStale`,
`ReleaseLock`, with `LockExpires` and `WorkerDies`. `EditCampaign` changes
levels or status at any time; cache entries, handles and call states expire.

### Migrations

Each revision is a sequence of statements (`Up007` ... `Down010`), `Commit` where an
autocommit block ends the transaction. `LockAndBegin` waits for the advisory lock
and reads the stamp; `Execute` makes the next statement on the transaction's view;
`Kill` ends a run anywhere and leaves a cancelled build invalid; `Write` is the
application adding rows that break a rule not yet enforced.

## Runs

| run | instance | properties |
|---|---|---|
| `CallOrderly` | 2 calls, 2 handlers, 2 targets, browser session, 1 fault, 1 two-hour silence | `ServesOneCall` `OneRowPerLeg` `RowNamesDialedTarget` `NeverRedials` `CompletedLegsLogged` `CompletedMeansCalled` |
| `CallRaces` | 1 call, 2 handlers, 2 targets, 1 skip, and 1 request re-sent too early or 1 fault (`OneDisturbance`) | `TypeOK` `SkippedAsAsked` `FewRedials` |
| `CallEnds` | phone session, 1 fault, 1 deleted target, fair | `AnsweredCallEnds` `OnlyVoiceReopens` |
| `AuthSessions` | 3 tokens, 2 handlers, 2 revocations, 1 sign-out, 1 loss of Redis or of a handler | `OneUsablePerChain` `SweptStaysDead` `LogoutSticks` `RevocationReachesAll` `NoFalseAlarm` `FloorMovesForward` `TokensMoveOnce` |
| `CeilingHolds` | 4 requests, ceiling 1, fair | `SettlesWithinSlack` `EveryRequestAnswered` |
| `TargetEdits` | 2 requests of any kind, a list of 2, 1 external id, 1 call, 1 expiry of the lock, 1 death | `OrdersDistinct` `ImportsUpsert` `OwnLockKept` `NeededTargetsKept` `ErrorsOfLastImport` `LocksEndWithTransactions` |
| `AudioSlot` | 4 requests, 2 versions at the start, 3 attempts | `LastChoicePlays` `RefusedOnlyIfBeaten` `StatusMovesValidly` |
| `AccountGuards` | 2 accounts, 4 requests, 2 attempts, 2 codes | `AnAdminRemains` `TriesBounded` `CodeSpentOnceAnswered` |
| `RateWindow` | limit 2, window 4, lag up to 1, 9 seconds, 6 attempts | `NeverOverAdmits` `RefusedOnlyWhenFull` |
| `RepLookups` | 2 campaigns, 2 requests, 2 workers, 2 providers, 1 edit, 1 death, fair | `CacheServesWhole` `CallsOwnReps` `LoggedRepsKept` `StaleRepsGo` |
| `MigrationsStamp` | 2 runners, 6 runs | `StampTellsSchema` `OnlySomeGetStuck` |
| `MigrationsRerun` | the same | violated: `Rerunnable` |

What they show: the call log is exact without overlapping re-sends and skip, and
what is left of it with them, skipped legs among it; every answered call ends; tokens move once and
revocations reach what was open; the ceiling's overshoot is bounded by the
requests under way; edits of a list keep orders, ids and needed targets; the slot
plays the last choice; demotions leave an administrator; guesses are bounded;
admissions are; whole answers alone are cached; a schema is what its stamp says
unless a run was cut between two commits of one revision.

**Bounds.** Two handlers are what it takes for one read-modify-write to overtake
another; Twilio waits for one TwiML answer per call, so a third needs a further
detached callback. Two targets give a first leg, a last one, and an index
between and past them. Two calls race for one binding. One fault cuts a handler
short at any of its steps, and its retry is not bounded; one silence lets both
keys expire, in either order. Three tokens make a chain in which a token has a
predecessor and a successor. The ceiling needs one session to reach it, one that
is open, one past its count, and one refused. Two requests are every pair of
operations on a list, with a call between their steps; a target may have been
removed before, so orders have gaps. Four requests let an upload of three attempts
lose each, and let a guess overlap the issue of a code, another guess and a
confirmation; two accounts can demote one another. Six attempts fill a window of
two, empty it and fill it again. Six runs suffice for up to 010, down, and a cut
and a retry on the way. `spent` holds what is used of each bound, the constants
commented *(bound)* cap the rest; `now < MaxSweeps` bounds the revocations that
answer replays.

**Conditions in the properties.** Each is a case in which the code does otherwise,
found by the runs:

- The call log is exact as long as no request is re-sent while its first attempt
  still runs and skip is not pressed: with either, one handler's document
  overwrites another's, and `OneRowPerLeg`, `RowNamesDialedTarget`, `NeverRedials`
  and `CompletedLegsLogged` all fail. `FewRedials` bounds the damage.
  `ServesOneCall` fails only when a skip press puts back a document without a
  CallSid *and* the binding then expires; two calls can then dial the list at once,
  so `FewRedials` has the same condition. A deleted target loses its leg's row,
  since an IntegrityError is read as a repeat, so `CompletedMeansCalled` excludes
  deletions.
- `SkippedAsAsked` has two halves. `TimelySkips` says which legs are logged skipped:
  those that were up when skip was pressed, as long as every press was served
  before its leg ended (`Timely`), no request was re-sent early and no key expired.
  Served later, a press marks the target the session has come to since. Conversely
  such a leg is not logged completed unless a handler was lost, with the press or
  the marker in it. `FewSkips` bounds the rest: however late, a press skips one
  target at most, and one more for each lost handler, which leaves a marker behind
  when it dies between the commit of the row and the save.
- `RevocationReachesAll` excludes tokens enrolled between the read of the set and
  its deletion, and what they were exchanged for (`late`); `FloorMovesForward`
  overlapping revocations (`crossed`); `LogoutSticks` the predecessor's marker of a
  token that a revocation missed. `LogoutSticks` is about the token signed out of
  and those before it in its chain; a successor for which it was exchanged while the
  sign-out ran, or before, lives on.
- `OrdersDistinct` excludes reorderings that overlap each other, that name a target
  twice while the list grows, or that skip a target removed meanwhile (`crossed`);
  `ImportsUpsert` ids that an administrator typed (`typed`); `OwnLockKept` and
  `ErrorsOfLastImport` imports whose lock expired (`lapsed`) or whose errors could
  not be saved (`unsaved`); `NeededTargetsKept` calls that stored a target whose
  removal had already looked for them (`late`).
- `LastChoicePlays` excludes an activation that found its version active, so wrote
  nothing, and that another overtook (`overtaken`).
- `AnAdminRemains` excludes an update decided on a row read before its account
  became an administrator, which skips the guard (`unguarded`); `TriesBounded`
  codes whose count a second request for a code, which saw none, took away
  (`recounted`); `CodeSpentOnceAnswered` a confirmation that died before its DEL
  (`leftover`).
- `NeverOverAdmits` and `RefusedOnlyWhenFull` shift the window by the lag.
- `StampTellsSchema` excludes revisions left between two of their commits (`cut`).

**Fairness.** `CallFlow!FairSpec`: the event loop runs every job on (`Run`);
Twilio delivers what it wants answered and repeats what failed, and Gather and
Dial time out (`Gathered`, `LegEnds`). Nothing is assumed of a supporter, of the
skip button, of a late repeat, or that a call is answered. `CallCeiling!FairSpec`:
a request's statements run, and Postgres grants an advisory lock in turn, hence
strong fairness of `Lock`. `RepLookup!FairSpec`: beat ticks, a worker that began
goes on unless it dies, and Redis drops a lock past its TTL; nothing is assumed of
lookups or calls. The other modules state safety only. Deadlock is not checked:
every one of these systems may come to rest.

**Mutants.** Each property of a passing run has a mutant of the code it watches,
defined beside the original (`X_Something` before `X`, marked `bug:`).

## Disagreements with the code's own words

`MigrationsRerun` keeps one as a run. The others were found by TLC in the same
models; each is a definition beside the properties that hold, and no run states it.

1. `Migrations!Rerunnable`: "Migrations are re-runnable" (`CHANGELOG.md:213`,
   `007_audio_integrity_indexes.py:15-16`); a run of 007 cut between its two commits
   makes the next one fail on a constraint that is already there.
2. `CallFlow!NeverRedials` with a skip (`MaxSkips = 1`): skip is called harmless
   for an index already left (`calls.py:162-163`), but its write can put that
   index back. `CallFlow!LateSkipsHarmless` fails too, with nothing re-sent and no
   fault: a press that is served after the report of its leg was stored reads the
   next index and marks the next target, whose leg is then logged as skipped though
   nobody asked for that.
3. `CallFlow!EverySessionCloses`: the status callback is to close sessions "even if
   the caller drops before pressing a key" (`webhooks.py:754-756`); one that never
   reached voice-app's UPDATE has no CallSid to be found by.
4. `CallFlow!TerminalSticks`: terminal statuses are ones "that no later callback may
   move away from" (`webhooks.py:82`); two UPDATEs do not look.
5. `CallCeiling!AdmittedUnderCeiling`: the count "cannot go stale between the check
   and the insert" (`helpers.py:208-209`); voice-app changes it without the lock.
6. `CampaignAudio!ActivationsSerialize`: "two concurrent activations serialize"
   (`audio.py:180-182`); one that loaded its version before the lock, and found it
   active, leaves the slot silent if another switched it off first.
7. `Accounts!LastAdminStays`: "the last active admin cannot be removed by concurrent
   requests" (`CHANGELOG.md:24`); an update decided on a row read before its account
   became an administrator takes no lock and counts nobody (`unguarded`).
8. `SessionAuth!LogoutEndsChain`: a sign-out is to "end the refresh chain a logged-out
   token sits in" (`auth.py:261`, and the outcome at `auth.py:168`); a successor that
   the token is exchanged for before its key is deleted stays live.

## Proofs

For every value of the constants, from each module's `ConstantsOK` alone
(`BucketConstants` in RateLimiter). Every safety theorem has the shape
`Init => IInv`, `IInv /\ [Next]_vars => IInv'`, `IInv => Inv`, with one lemma per
step or group of steps.

**CallFlow.**
- `TypeCorrect`: `TypeOK` is inductive as it stands.
- `CompletedSessionsCalled`: `CloseInv` adds that with no deletion every target row
  is present, and that as long as nothing was deleted and no call is logged
  (`Fresh`) the stored document and every job's copy are still at the first target
  with no leg done (`Unworked`), no job is about to finish or close the session
  (`Unstarted`), and `session` is not completed.
- `OnlyUnguardedUpdatesReopen`: an action property, by cases on the steps that
  write `session`.
- `ServesOneCallHolds`: `OneInv` has two halves, one per condition of the property.
  While no key has expired, the binding, once set, names every CallSid found in the
  document, in a job's copy or in an admitted call (`Bound`). While no skip was
  pressed, the document itself keeps the CallSid of the one call that is served,
  whatever becomes of the binding (`Single`). `Wired` says which job serves which
  call.
- `OneRowPerLegHolds`, `RowNamesDialedTargetHolds`, `NeverRedialsHolds`,
  `CompletedLegsLoggedHolds` have the form `Spec => [](Orderly => P)`: as long as
  nothing was re-sent early, skipped or deleted, the case in which the code keeps
  these promises and `CallOrderly` checks them. Faults, retries, hangups, calls
  and expired keys stay unbounded. None of the four is inductive, nor are they
  together: `OrderInv` says that the document is in one of three shapes (`Ready`:
  the last report was taken in; `Recorded`: the next target is recorded; `Dialed`:
  it was dialed and its report is to come), that legs and rows agree with it index
  by index, and that the one request under way for the active call says which of
  them it can be and how far its handler's copy is from it. Deletions are in
  `Orderly` because of a case found here: the insert for a deleted target fails,
  the document moves on, the answer is lost, and the repeat, finding no row,
  logs the leg under the next target.
- `FewRedialsHolds`: outside `Orderly` the document no longer tells which legs were
  dialed, so `FewInv` counts what may still be dialed. Every early repeat and every
  skip pays for one round of the list when it is made. The job it leaves behind
  (`Stray`) holds that round until it stores its document or can no longer do so
  (`Counted`), and whatever it puts back leaves no more than a round. The one call
  that dials has room for what its document, or the copy its handler works from,
  still leaves (`Dialer`); a leg that rings is taken off, because its report never
  makes the same document dial it again (`After`). That only one call dials is
  `OneInv`; that the report of a hung-up call is answered to nobody is `Reported`.

**SessionAuth.** `ChainInv` says where tokens can be: markers and enrolled tokens
were issued, and a successor that was minted but not yet in its chain is held by
one handler alone. From it:
- `TokensMoveOnceHolds`: `Spec => Chains!Spec`, the refinement; `StepMaps` maps each
  step to a move, a sign-in, an end of some tokens, or a stutter.
- `OneUsablePerChainHolds`: from the abstract steps only.
- `SweptStaysDeadHolds`: a step makes a token live or marks it only if it was
  unissued or live; what a sweep deleted is neither.
- `FloorMovesForwardHolds`: `FloorInv` adds that the durable floor is the highest
  committed and that one revocation at a time is under way, unless `crossed`.
- `RevocationReachesAllHolds`, `LogoutSticksHolds`: `SessionInv` says where the
  tokens that must end can be found. A usable token is in the user's set, was
  enrolled too late (`late`), or belongs to a sign-in that died before anybody
  learnt of it (`Enrolled`); a revocation about to delete has read all the others
  (`Revokes`); markers lead from a token to its successor and back, so that a
  sign-out that follows them misses none (`TwoWays`, `SignsOut`); and what was ended
  is dead with everything that leads to it (`Over`).
- `NoFalseAlarmHolds`: `CalmInv`, as long as nothing but sign-ins, refreshes and
  deaths of handlers happens, an issued token is live or has its marker.

**CallCeiling.** `CeilingInductive`: the ceiling bounds more than the connected
sessions. `Possible` adds those that may still be connected (initiated or ringing)
and the one request past its count; once the ceiling is reached nothing enters
`Possible`, which therefore stays within `CallMaximum + waiting`. That at most one
request is past its count is what the advisory lock is for (`LockHeld`).
`SettlesWithinSlackHolds` follows. The set of sessions is assumed finite, as
Cardinality needs.

**RateLimiter.** `BucketInv`: admissions come in the order of their numbers
(`InTurn`), a score is at most the lag behind its admission (`Scored`), the key
outlives each admission's window (`Outlives`), and what trimming or the TTL dropped
is too old to count (`Remembers`). `NeverOverAdmitsHolds` and
`RefusedOnlyWhenFullHolds` compare cardinalities of sets of attempts on that.

**TargetList.** One `Inv`: `Shape` (types, links to rows that exist), `KindOK` (what
each kind of request holds at each statement), `LockInv`, `ErrorInv`, `CallsKept`,
and `Watches`: a removal about to delete a target has seen every call that needs
it, except late ones. `OwnLockKeptHolds`, `LocksEndWithTransactionsHolds`,
`NeededTargetsKeptHolds` and `ErrorsOfLastImportHolds` follow from it. A second one,
`PlaceInv`, is about orders and ids: whoever adds holds the advisory lock alone, the
highest order it read is at or above every place there is, a reordering's plan
gives different targets different places, and the ids an import knows cover the
list. With it `OrdersDistinctHolds` and `ImportsUpsertHolds`, by two lemmas: a
finite set of places has a highest one (`Greatest`), and a permutation of the
places of a list leaves them distinct (`Rearranged`).

**CampaignAudio.** `AudioInv`: versions are 1..n, and an upload's tries are at most
the versions stored since it began (`Counted`). `LastActivationPlays`,
`RefusalsBeaten`, and the action property `StatusesMove`.

**Accounts.** `GuardInv`: an update past its count holds the guard and leaves another
administrator (`SomebodyAdministers`). `CodeInv`: the count in Redis is never
behind the wrong guesses, and a used code is on its way out or left over
(`TriesBoundedHolds`, `CodeSpentOnceAnsweredHolds`).

**RepLookup.** `RepInv`: cache entries, handles and requests carry only whole answers
of the campaign they belong to (`CachedAnswersWhole`, `HandlesStayHome`).
`LoggedRepsKeptHolds` is inductive as it stands.

**Migrations.** The scripts enter the proof once, as a table: the lemmas `Reads...`
read off their statements, `Made` what each revision makes and removes, and
`ScriptsWellMade` that all eight have one statement per object of the revision
(`Alone`, `Complete`) in an order (`Timed`): concurrent builds and drops come after
the commit in between, and everything else before it only in 007 up, 010 up and
009 down (`Early`), or in 010 down, which has no such commit. `OneOwner` adds that
no object belongs to two revisions. The steps are proved for any script of that
form. `MigrationInv` says what a later run can rely on. An object is as the stamp
says unless a script of its revision is `HalfWay`, cut or running past its first
commit, and touched it there (`Settled`). The open transaction sees its script's
statements done up to the one it is at, and the rest as committed (`Progress`); a
cut script has not been stamped since (`Unstamped`). No row breaks a rule that a
constraint or a valid index enforces, committed or in the open transaction
(`RulesHold`). Of a cut early script the first object stands, and none of its runs
gets past the statement that makes it (`Blocked`): it is never stamped again, so
`cut` keeps it for good, which is what `OnlySomeGetStuckHolds` needs.
`StampTellsSchemaHolds` follows, since with nothing half-way every object is right.

**Only model-checked.** Liveness (`AnsweredCallEnds`, `EveryRequestAnswered`,
`StaleRepsGo`), which with ENABLED is out of the prover's reach, as are induction
over data and recursive operators; and `SkippedAsAsked`, which relates the whole
history of presses to the rows. Every other property of a passing run is a
theorem; `Rerunnable` is refuted by its run.

## Plan

1. *Done*: the modules above, their runs, and the theorems.
2. More of the system: a model of the widget's states, timers and late answers, and
   of the queue in the frontend's API client.

## Not modelled

The widget and the admin frontend: browser code whose state only reaches the
backend through the endpoints modelled here; their own hazards are listed. Phone
numbers, analytics, dashboard, blocklist and health: reads, and single-row
transactions. The telephony provider, TwiML and SMS: calls to Twilio and
rendering; Twilio is CallFlow's environment. Startup, configuration and the
command line run once. fetch_voice_insights writes one score per row that has
none. Creating and copying a campaign and its other fields are single inserts and
updates. Passwords, JWTs and signatures; audio, wording and the caller id a call
shows; validation of input and pagination are functions of their input. The
blocklist and the rate limits appear in CallFlow as voice-app's freedom to refuse.
