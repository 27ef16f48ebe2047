----------------------------- MODULE RepLookup ------------------------------
(***************************************************************************)
(* Representatives for one ZIP code: the lookup of api/v1/reps.py and        *)
(* services/civic_service.py with its cache and its handles, the calls that  *)
(* start from a handle (api/v1/helpers.py), and the daily clean-up of the    *)
(* target rows they leave (tasks/cleanup.py under tasks/lock.py).  Each      *)
(* request is run once, one step per access to Redis, the database or a      *)
(* provider.  The rate limits are RateLimiter's.                             *)
(***************************************************************************)
EXTENDS Naturals

CONSTANTS
  Campaigns,
  Reps,         \* the representatives the providers name for the ZIP code
  LevelOf,      \* [Reps -> levels]
  Dialable,     \* the reps whose published number is a US line
  Providers,    \* the levels of _PROVIDER_MAP
  LevelSets,    \* the values of embed_config["target_levels"]
  Requests,     \* requests (bound)
  Workers,      \* Celery workers
  MaxEdits,     \* changes of a campaign's levels or status (bound)
  MaxDeaths,    \* workers and requests that die (bound)
  Nobody

ASSUME ConstantsOK ==
  /\ Dialable \subseteq Reps
  /\ \A r \in Reps : LevelOf[r] \in Providers
  /\ Nobody \notin Workers

VARIABLES
  levels,   \* [Campaigns -> LevelSets], in embed_config
  live,     \* the campaigns with status live
  cache,    \* reps:{zip}:{campaign}:{levels}
  tokens,   \* rep_token:{token}: the campaign and the rep it stands for
  req,      \* the requests
  rows,     \* requests whose transient target row exists
  old,      \* those created more than _RETENTION_DAYS ago
  logged,   \* requests with a row in calls
  lock,     \* lock:cleanup_rep_targets
  worker,   \* where each worker is in cleanup_rep_targets
  looked,   \* history: the reps that lookups for a campaign returned
  edits, deaths

shop == <<levels, live, edits>>
lookups == <<cache, tokens, looked>>
calls == <<rows, old, logged>>
tasks == <<lock, worker>>
vars == <<shop, lookups, req, calls, tasks, deaths>>

Missing == [reps |-> {}, answered |-> {"missing"}]   \* no such key
NewRequest == [pc |-> "new", campaign |-> Nobody, levels |-> {}, reps |-> {},
               answered |-> {}, cached |-> FALSE]
At(q, pc) == req[q].pc = pc
Set(q, record) == req' = [req EXCEPT ![q] = record]
Step(q, pc) == Set(q, [req[q] EXCEPT !.pc = pc])
End(q, pc) == Set(q, [NewRequest EXCEPT !.pc = pc])
Answer(q) == End(q, "done")

Init ==
  /\ levels \in [Campaigns -> LevelSets] /\ live = Campaigns
  /\ cache = [key \in Campaigns \X LevelSets |-> Missing]
  /\ tokens = {} /\ looked = [c \in Campaigns |-> {}]
  /\ req = [q \in Requests |-> NewRequest]
  /\ rows = {} /\ old = {} /\ logged = {}
  /\ lock = Nobody /\ worker = [w \in Workers |-> "idle"]
  /\ edits = 0 /\ deaths = 0

-----------------------------------------------------------------------------
(* get_reps                                                                *)

Key(q) == <<req[q].campaign, req[q].levels>>

Cacheable_Anything(failed) == TRUE   \* bug: a partial answer is cached
Cacheable(failed) == failed = {}

ReadCampaign(q) ==
  /\ At(q, "new")
  /\ \E c \in live :
       Set(q, [NewRequest EXCEPT !.pc = "cache", !.campaign = c, !.levels = levels[c]])
  /\ UNCHANGED <<shop, lookups, calls, tasks, deaths>>

ReadCache(q) ==
  LET hit == cache[Key(q)] IN
  /\ At(q, "cache")
  /\ IF hit = Missing
     THEN Step(q, "fetch")
     ELSE Set(q, [req[q] EXCEPT !.pc = "issue", !.reps = hit.reps,
                                !.answered = hit.answered, !.cached = TRUE])
  /\ UNCHANGED <<shop, lookups, calls, tasks, deaths>>

\* router.lookup: every configured level that has a provider is asked; those in
\* `failed` raise.
Fetch(q) ==
  LET asked == req[q].levels \cap Providers IN
  /\ At(q, "fetch")
  /\ \E failed \in SUBSET asked :
       LET found == {r \in Reps : LevelOf[r] \in asked \ failed} IN
       /\ asked = {} \/ failed # asked
       /\ looked' = [looked EXCEPT ![req[q].campaign] = @ \cup found]
       /\ Set(q, [req[q] EXCEPT !.pc = IF Cacheable(failed) THEN "store" ELSE "issue",
                                !.reps = found, !.answered = asked \ failed])
  /\ UNCHANGED <<shop, cache, tokens, calls, tasks, deaths>>

\* 503: every provider failed, one has no API key, or Redis did not answer.
Unavailable(q) ==
  /\ req[q].pc \in {"cache", "fetch"}
  /\ Answer(q)
  /\ UNCHANGED <<shop, lookups, calls, tasks, deaths>>

\* A failing SET is logged and forgotten.
StoreCache(q) ==
  /\ At(q, "store")
  /\ \/ cache' = [cache EXCEPT ![Key(q)] = [reps |-> req[q].reps, answered |-> req[q].answered]]
     \/ UNCHANGED cache
  /\ Step(q, "issue")
  /\ UNCHANGED <<shop, tokens, looked, calls, tasks, deaths>>

\* issue_rep_tokens: one SET for each rep that can be dialed, and the answer.
IssueToken(q) ==
  LET todo == req[q].reps \cap Dialable IN
  /\ At(q, "issue")
  /\ \/ \E r \in todo :
          /\ tokens' = tokens \cup {[campaign |-> req[q].campaign, rep |-> r]}
          /\ IF todo = {r} THEN Answer(q) ELSE Set(q, [req[q] EXCEPT !.reps = @ \ {r}])
     \/ todo = {} /\ Answer(q) /\ UNCHANGED tokens
  /\ UNCHANGED <<shop, cache, looked, calls, tasks, deaths>>

CacheExpires ==
  /\ \E key \in DOMAIN cache :
       cache[key] # Missing /\ cache' = [cache EXCEPT ![key] = Missing]
  /\ UNCHANGED <<shop, tokens, looked, req, calls, tasks, deaths>>

TokenExpires ==
  /\ \E token \in tokens : tokens' = tokens \ {token}
  /\ UNCHANGED <<shop, cache, looked, req, calls, tasks, deaths>>

\* update_campaign
EditCampaign ==
  /\ edits < MaxEdits /\ edits' = edits + 1
  /\ \E c \in Campaigns :
       \/ UNCHANGED live /\ \E set \in LevelSets \ {levels[c]} : levels' = [levels EXCEPT ![c] = set]
       \/ UNCHANGED levels /\ live' = IF c \in live THEN live \ {c} ELSE live \cup {c}
  /\ UNCHANGED <<lookups, req, calls, tasks, deaths>>

-----------------------------------------------------------------------------
(* start_call_session with a rep_token.  The configured targets that follow  *)
(* the rep, and the call itself, are CallFlow's; the ceiling is CallCeiling's.*)

Resolves_Anywhere(token, c) == TRUE   \* bug: a handle works on every campaign
Resolves(token, c) == token.campaign = c

\* get_live_campaign_or_404
FindCampaign(q) ==
  /\ At(q, "new")
  /\ \E c \in live : Set(q, [NewRequest EXCEPT !.pc = "resolve", !.campaign = c])
  /\ UNCHANGED <<shop, lookups, calls, tasks, deaths>>

\* The GET of the handle.  One that is unknown, has expired or is of another
\* campaign is refused.
ResolveRep(q) ==
  /\ At(q, "resolve")
  /\ \/ \E token \in tokens :
          /\ Resolves(token, req[q].campaign)
          /\ Set(q, [req[q] EXCEPT !.pc = "commit", !.reps = {token.rep}])
     \/ Answer(q)
  /\ UNCHANGED <<shop, lookups, calls, tasks, deaths>>

\* The transaction that adds the target and the session, or the refusal of either.
CommitSession(q) ==
  /\ At(q, "commit")
  /\ \/ rows' = rows \cup {q} /\ Step(q, "save")
     \/ Answer(q) /\ UNCHANGED rows
  /\ UNCHANGED <<shop, lookups, old, logged, tasks, deaths>>

SaveState(q) ==
  /\ At(q, "save")
  /\ Step(q, "open")
  /\ UNCHANGED <<shop, lookups, calls, tasks, deaths>>

\* call-complete; the row needs its target.
LogCall(q) ==
  /\ At(q, "open")
  /\ logged' = logged \cup ({q} \cap rows)
  /\ UNCHANGED <<shop, lookups, req, rows, old, tasks, deaths>>

\* The call state expires, CALL_SESSION_TTL after its last use.
StateExpires(q) ==
  /\ At(q, "open")
  /\ End(q, "over")
  /\ UNCHANGED <<shop, lookups, calls, tasks, deaths>>

Die(q) ==
  /\ req[q].pc \notin {"new", "done", "open", "over"}
  /\ deaths < MaxDeaths /\ deaths' = deaths + 1
  /\ End(q, "over")
  /\ UNCHANGED <<shop, lookups, calls, tasks>>

-----------------------------------------------------------------------------
(* cleanup_rep_targets                                                     *)

\* The retention is far longer than a call state lives.
Age(q) ==
  /\ q \in rows \ old /\ At(q, "over")
  /\ old' = old \cup {q}
  /\ UNCHANGED <<shop, lookups, req, rows, logged, tasks, deaths>>

\* stale_rep_targets_query; the rows are linked to no campaign.
Stale_Logged == old           \* bug: targets of logged calls go too
Stale == old \ logged

\* A tick that finds the lock taken is skipped.
AcquireLock(w) ==
  /\ worker[w] = "idle"
  /\ lock = Nobody /\ lock' = w
  /\ worker' = [worker EXCEPT ![w] = "clean"]
  /\ UNCHANGED <<shop, lookups, req, calls, deaths>>

DeleteStale(w) ==
  /\ worker[w] = "clean"
  /\ rows' = rows \ Stale /\ old' = old \ Stale
  /\ worker' = [worker EXCEPT ![w] = "release"]
  /\ UNCHANGED <<shop, lookups, req, logged, lock, deaths>>

ReleaseLock(w) ==
  /\ worker[w] = "release"
  /\ lock' = IF lock = w THEN Nobody ELSE lock
  /\ worker' = [worker EXCEPT ![w] = "idle"]
  /\ UNCHANGED <<shop, lookups, req, calls, deaths>>

LockExpires_Never == FALSE /\ UNCHANGED vars   \* bug: the key has no TTL
LockExpires ==
  /\ lock # Nobody /\ lock' = Nobody
  /\ UNCHANGED <<shop, lookups, req, calls, worker, deaths>>

WorkerDies(w) ==
  /\ worker[w] # "idle"
  /\ deaths < MaxDeaths /\ deaths' = deaths + 1
  /\ worker' = [worker EXCEPT ![w] = "idle"]
  /\ UNCHANGED <<shop, lookups, req, calls, lock>>

-----------------------------------------------------------------------------

GetReps(q) ==
  \/ ReadCampaign(q) \/ ReadCache(q) \/ Fetch(q) \/ Unavailable(q)
  \/ StoreCache(q) \/ IssueToken(q)
StartCall(q) == FindCampaign(q) \/ ResolveRep(q) \/ CommitSession(q) \/ SaveState(q)
Cleanup(w) == DeleteStale(w) \/ ReleaseLock(w)

Next ==
  \/ EditCampaign \/ CacheExpires \/ TokenExpires \/ LockExpires
  \/ \E q \in Requests : GetReps(q) \/ StartCall(q) \/ LogCall(q) \/ StateExpires(q) \/ Die(q) \/ Age(q)
  \/ \E w \in Workers : AcquireLock(w) \/ Cleanup(w) \/ WorkerDies(w)

\* Beat ticks every day, a worker that has begun goes on, and Redis drops what is
\* past its TTL.
Fairness ==
  /\ WF_vars(\E w \in Workers : AcquireLock(w))
  /\ \A w \in Workers : WF_vars(Cleanup(w))
  /\ WF_vars(LockExpires)

Spec == Init /\ [][Next]_vars
FairSpec == Spec /\ Fairness

-----------------------------------------------------------------------------
(* Properties                                                              *)

\* What is served from the cache is the answer of every provider the campaign
\* asked for when the request came, and of no other, although its levels may have
\* changed and providers may have failed since (civic_service.py, lookup_reps).
CacheServesWhole ==
  \A q \in Requests :
    At(q, "issue") /\ req[q].cached =>
      /\ req[q].answered = req[q].levels \cap Providers
      /\ \A r \in req[q].reps : LevelOf[r] \in req[q].levels

\* A call that starts from a handle dials a rep whom a lookup returned for the
\* campaign that makes the call (civic_service.py, issue_rep_tokens).
CallsOwnReps ==
  \A q \in Requests :
    req[q].pc \in {"commit", "save", "open"} =>
      req[q].reps \subseteq looked[req[q].campaign] \cap Dialable

\* The target of a logged call outlives every clean-up, so that reports still name
\* it (cleanup.py, stale_rep_targets_query).
LoggedRepsKept == logged \subseteq rows

\* A stale target that no call was logged under is deleted in the end, although
\* workers die with the lock in their hands (cleanup.py, _LOCK_TTL).
StaleRepsGo == \A q \in Requests : q \in Stale ~> q \notin rows
=============================================================================
