-------------------------- MODULE RepLookupProofs ---------------------------
(***************************************************************************)
(* What is served from the cache is whole, and calls that start from a       *)
(* handle dial reps of their own campaign, for any campaigns, level sets,    *)
(* providers and numbers of requests.                                        *)
(***************************************************************************)
EXTENDS RepLookup, TLAPS

Pc == {"new", "cache", "fetch", "store", "issue", "resolve", "commit", "save", "open",
       "over", "done"}
Request == [pc : Pc, campaign : Campaigns \cup {Nobody}, levels : LevelSets \cup {{}},
            reps : SUBSET Reps, answered : SUBSET Providers, cached : BOOLEAN]
Entry == [reps : SUBSET Reps, answered : SUBSET Providers]
Token == [campaign : Campaigns, rep : Reps]

TypeInv ==
  /\ levels \in [Campaigns -> LevelSets] /\ live \subseteq Campaigns
  /\ cache \in [Campaigns \X LevelSets -> Entry \cup {Missing}]
  /\ tokens \subseteq Token
  /\ looked \in [Campaigns -> SUBSET Reps]
  /\ req \in [Requests -> Request]

\* An answer to the levels `asked` that is whole: every provider's, and no other's.
Whole(answer, asked) ==
  /\ answer.answered = asked \cap Providers
  /\ \A r \in answer.reps : LevelOf[r] \in asked

\* A cached entry is whole, and of reps a lookup returned for its campaign.
EntryOK(key, entry, found) ==
  entry # Missing => Whole(entry, key[2]) /\ entry.reps \subseteq found[key[1]]
TokenOK(token, found) ==
  token.rep \in found[token.campaign] \cap Dialable

\* What a request carries at each of its steps.
RequestOK(job, found) ==
  /\ job.pc \in {"cache", "fetch", "store", "issue"} =>
       job.campaign \in Campaigns /\ job.levels \in LevelSets
  /\ job.pc \in {"cache", "fetch"} => ~job.cached
  /\ job.pc \in {"store", "issue"} => job.reps \subseteq found[job.campaign]
  /\ job.pc = "store" \/ (job.pc = "issue" /\ job.cached) => Whole(job, job.levels)
  /\ job.pc = "resolve" => job.campaign \in Campaigns
  /\ job.pc \in {"commit", "save", "open"} =>
       job.campaign \in Campaigns /\ job.reps \subseteq found[job.campaign] \cap Dialable

RepInv ==
  /\ TypeInv
  /\ \A key \in Campaigns \X LevelSets : EntryOK(key, cache[key], looked)
  /\ \A token \in tokens : TokenOK(token, looked)
  /\ \A q \in Requests : RequestOK(req[q], looked)

-----------------------------------------------------------------------------

LEMMA NewRequestType == NewRequest \in Request
BY DEF NewRequest, Request, Pc

\* A request that carries nothing satisfies what is said of requests.
LEMMA NewRequestOK ==
  ASSUME NEW pc \in {"new", "done", "over"}, NEW found
  PROVE  [NewRequest EXCEPT !.pc = pc] \in Request /\ RequestOK([NewRequest EXCEPT !.pc = pc], found)
BY DEF NewRequest, Request, Pc, RequestOK

LEMMA InitRep == Init => RepInv
<1> SUFFICES ASSUME Init PROVE RepInv
  OBVIOUS
<1>1. TypeInv
  BY NewRequestType DEF Init, TypeInv
<1>2. \A key \in Campaigns \X LevelSets : EntryOK(key, cache[key], looked)
  BY DEF Init, EntryOK
<1>3. \A token \in tokens : TokenOK(token, looked)
  BY DEF Init
<1>4. \A q \in Requests : RequestOK(req[q], looked)
  BY DEF Init, NewRequest, RequestOK
<1> QED BY <1>1, <1>2, <1>3, <1>4 DEF RepInv

\* A step of a request that touches neither cache nor handles needs only the
\* request it leaves to be right.
LEMMA OneRequest ==
  ASSUME RepInv, NEW q \in Requests, NEW job \in Request, RequestOK(job, looked), Set(q, job),
         UNCHANGED <<levels, live, cache, tokens, looked>>
  PROVE  RepInv'
<1>1. TypeInv'
  BY DEF RepInv, TypeInv, Set
<1>2. \A p \in Requests : RequestOK(req[p], looked)'
  BY DEF RepInv, TypeInv, Set
<1> QED BY <1>1, <1>2 DEF RepInv

\* A step that touches no request and none of the lookups' data.
LEMMA NoRequest ==
  ASSUME RepInv, UNCHANGED <<cache, tokens, looked, req>>,
         levels' \in [Campaigns -> LevelSets], live' \subseteq Campaigns
  PROVE  RepInv'
BY DEF RepInv, TypeInv

LEMMA GetRepsStep ==
  ASSUME RepInv, NEW q \in Requests, GetReps(q)
  PROVE  RepInv'
<1> DEFINE job == req[q]
<1>0. job \in Request /\ RequestOK(job, looked)
  BY DEF RepInv, TypeInv
<1>1. CASE ReadCampaign(q)
  <2> PICK c \in live :
         Set(q, [NewRequest EXCEPT !.pc = "cache", !.campaign = c, !.levels = levels[c]])
    BY <1>1 DEF ReadCampaign
  <2> DEFINE new == [NewRequest EXCEPT !.pc = "cache", !.campaign = c, !.levels = levels[c]]
  <2>1. new \in Request /\ RequestOK(new, looked)
    BY DEF RepInv, TypeInv, NewRequest, Request, Pc, RequestOK
  <2> QED BY <1>1, <2>1, OneRequest DEF ReadCampaign, shop, lookups
<1>2. CASE ReadCache(q)
  <2> DEFINE hit == cache[Key(q)]
             served == [job EXCEPT !.pc = "issue", !.reps = hit.reps,
                                   !.answered = hit.answered, !.cached = TRUE]
             missed == [job EXCEPT !.pc = "fetch"]
  <2>0. job.campaign \in Campaigns /\ job.levels \in LevelSets /\ ~job.cached
    BY <1>0, <1>2 DEF ReadCache, At, RequestOK
  <2>1. CASE hit = Missing
    <3>1. missed \in Request /\ RequestOK(missed, looked)
      BY <1>0, <2>0 DEF Request, Pc, RequestOK
    <3> QED BY <1>2, <2>1, <3>1, OneRequest DEF ReadCache, Step, shop, lookups
  <2>2. CASE hit # Missing
    <3>1. hit \in Entry /\ Whole(hit, job.levels) /\ hit.reps \subseteq looked[job.campaign]
      BY <2>0, <2>2 DEF RepInv, TypeInv, EntryOK, Key
    <3>2. served \in Request /\ RequestOK(served, looked)
      BY <1>0, <2>0, <3>1 DEF Request, Pc, RequestOK, Whole, Entry
    <3> QED BY <1>2, <2>2, <3>2, OneRequest DEF ReadCache, shop, lookups
  <2> QED BY <2>1, <2>2
<1>3. CASE Fetch(q)
  <2> DEFINE asked == job.levels \cap Providers
             found(failed) == {r \in Reps : LevelOf[r] \in asked \ failed}
             new(failed) == [job EXCEPT !.pc = IF Cacheable(failed) THEN "store" ELSE "issue",
                                        !.reps = found(failed), !.answered = asked \ failed]
  <2>0. job.campaign \in Campaigns /\ job.levels \in LevelSets /\ ~job.cached
    BY <1>0, <1>3 DEF Fetch, At, RequestOK
  <2> PICK failed \in SUBSET asked :
         /\ looked' = [looked EXCEPT ![job.campaign] = @ \cup found(failed)]
         /\ Set(q, new(failed))
    BY <1>3 DEF Fetch
  <2>1. looked' \in [Campaigns -> SUBSET Reps] /\ \A c \in Campaigns : looked[c] \subseteq looked'[c]
    BY <2>0 DEF RepInv, TypeInv
  <2>2. new(failed) \in Request /\ new(failed).reps \subseteq looked'[job.campaign]
    BY <1>0, <2>0 DEF RepInv, TypeInv, Request, Pc
  <2>3. RequestOK(new(failed), looked')
    BY <1>0, <2>0, <2>2 DEF Request, Pc, RequestOK, Whole, Cacheable
  <2>4. TypeInv'
    BY <1>3, <2>1, <2>2 DEF Fetch, RepInv, TypeInv, Set, shop
  <2>5. \A p \in Requests : RequestOK(req[p], looked)'
    <3> SUFFICES ASSUME NEW p \in Requests, p # q PROVE RequestOK(req[p], looked)'
      BY <2>3 DEF Set, RepInv, TypeInv
    <3>1. req'[p] = req[p] /\ RequestOK(req[p], looked)
      BY DEF RepInv, TypeInv, Set
    <3> QED BY <2>1, <3>1 DEF RequestOK
  <2>6. \A key \in Campaigns \X LevelSets : EntryOK(key, cache[key], looked)'
    <3> SUFFICES ASSUME NEW key \in Campaigns \X LevelSets PROVE EntryOK(key, cache[key], looked')
      BY <1>3 DEF Fetch
    <3>1. EntryOK(key, cache[key], looked) /\ key[1] \in Campaigns
      BY DEF RepInv
    <3> QED BY <2>1, <3>1 DEF EntryOK
  <2>7. \A token \in tokens : TokenOK(token, looked')
    BY <2>1 DEF RepInv, TypeInv, TokenOK, Token
  <2> QED BY <1>3, <2>4, <2>5, <2>6, <2>7 DEF RepInv, Fetch
<1>4. CASE Unavailable(q)
  BY <1>4, NewRequestOK, OneRequest DEF Unavailable, Answer, End, shop, lookups
<1>5. CASE StoreCache(q)
  <2> DEFINE new == [job EXCEPT !.pc = "issue"]
             entry == [reps |-> job.reps, answered |-> job.answered]
  <2>0. /\ job.campaign \in Campaigns /\ job.levels \in LevelSets
        /\ Whole(job, job.levels) /\ job.reps \subseteq looked[job.campaign]
    BY <1>0, <1>5 DEF StoreCache, At, RequestOK
  <2>1. new \in Request /\ RequestOK(new, looked)
    BY <1>0, <2>0 DEF Request, Pc, RequestOK, Whole
  <2>2. CASE UNCHANGED cache
    BY <1>5, <2>1, <2>2, OneRequest DEF StoreCache, Step, shop
  <2>3. CASE cache' = [cache EXCEPT ![Key(q)] = entry]
    <3>1. entry \in Entry /\ EntryOK(Key(q), entry, looked) /\ Key(q) \in Campaigns \X LevelSets
      BY <1>0, <2>0 DEF Entry, EntryOK, Whole, Key, Request
    <3>2. TypeInv'
      BY <1>5, <2>1, <2>3, <3>1 DEF StoreCache, RepInv, TypeInv, Step, Set, shop
    <3>3. \A key \in Campaigns \X LevelSets : EntryOK(key, cache[key], looked)'
      BY <1>5, <2>3, <3>1 DEF StoreCache, RepInv, TypeInv
    <3>4. \A p \in Requests : RequestOK(req[p], looked)'
      BY <1>5, <2>1 DEF StoreCache, RepInv, TypeInv, Step, Set
    <3> QED BY <1>5, <3>2, <3>3, <3>4 DEF StoreCache, RepInv
  <2> QED BY <1>5, <2>2, <2>3 DEF StoreCache
<1>6. CASE IssueToken(q)
  <2> DEFINE kept(r) == [job EXCEPT !.reps = @ \ {r}]
             over == [NewRequest EXCEPT !.pc = "done"]
             set(r) == tokens' = tokens \cup {[campaign |-> job.campaign, rep |-> r]}
  <2>0. job.campaign \in Campaigns /\ job.reps \subseteq looked[job.campaign] /\ job.reps \subseteq Reps
    BY <1>0, <1>6 DEF IssueToken, At, RequestOK, Request
  <2>1. over \in Request /\ RequestOK(over, looked)
    BY NewRequestOK
  <2>2. CASE Answer(q) /\ UNCHANGED tokens
    BY <1>6, <2>1, <2>2, OneRequest DEF IssueToken, Answer, End, shop
  <2>3. ASSUME NEW r \in job.reps \cap Dialable, set(r), Answer(q) \/ Set(q, kept(r))
        PROVE  RepInv'
    <3>1. tokens' \subseteq Token /\ \A token \in tokens' : TokenOK(token, looked)
      BY <2>0, <2>3 DEF RepInv, TypeInv, Token, TokenOK
    <3>2. kept(r) \in Request /\ RequestOK(kept(r), looked)
      BY <1>0, <1>6 DEF IssueToken, At, Request, Pc, RequestOK, Whole
    <3>3. \E new \in Request : RequestOK(new, looked) /\ Set(q, new)
      BY <2>1, <2>3, <3>2 DEF Answer, End
    <3>4. TypeInv'
      BY <1>6, <3>1, <3>3 DEF IssueToken, RepInv, TypeInv, Set, shop
    <3>5. \A p \in Requests : RequestOK(req[p], looked)'
      BY <1>6, <3>3 DEF IssueToken, RepInv, TypeInv, Set
    <3> QED BY <1>6, <3>1, <3>4, <3>5 DEF IssueToken, RepInv
  <2> QED BY <1>6, <2>2, <2>3 DEF IssueToken
<1> QED BY <1>1, <1>2, <1>3, <1>4, <1>5, <1>6 DEF GetReps

LEMMA CallStep ==
  ASSUME RepInv, NEW q \in Requests, StartCall(q) \/ LogCall(q) \/ StateExpires(q) \/ Die(q) \/ Age(q)
  PROVE  RepInv'
<1> DEFINE job == req[q]
<1>0. job \in Request /\ RequestOK(job, looked)
  BY DEF RepInv, TypeInv
<1>1. CASE ResolveRep(q)
  <2>0. job.campaign \in Campaigns
    BY <1>0, <1>1 DEF ResolveRep, At, RequestOK
  <2>1. ASSUME NEW token \in tokens, Resolves(token, job.campaign),
               Set(q, [job EXCEPT !.pc = "commit", !.reps = {token.rep}])
        PROVE  RepInv'
    <3> DEFINE new == [job EXCEPT !.pc = "commit", !.reps = {token.rep}]
    <3>1. token \in Token /\ TokenOK(token, looked)
      BY DEF RepInv, TypeInv
    <3>2. new \in Request /\ RequestOK(new, looked)
      BY <1>0, <2>0, <2>1, <3>1 DEF Request, Pc, RequestOK, TokenOK, Token, Resolves
    <3> QED BY <1>1, <2>1, <3>2, OneRequest DEF ResolveRep, shop, lookups
  <2>2. CASE Answer(q)
    BY <1>1, <2>2, NewRequestOK, OneRequest DEF ResolveRep, Answer, End, shop, lookups
  <2> QED BY <1>1, <2>1, <2>2 DEF ResolveRep
<1>2. CASE CommitSession(q)
  <2> DEFINE new == [job EXCEPT !.pc = "save"]
  <2>1. job.pc = "commit"
    BY <1>2 DEF CommitSession, At
  <2>2. new \in Request /\ RequestOK(new, looked)
    BY <1>0, <2>1 DEF Request, Pc, RequestOK
  <2> QED BY <1>2, <2>2, NewRequestOK, OneRequest DEF CommitSession, Step, Answer, End, shop, lookups
<1>3. CASE SaveState(q)
  <2> DEFINE new == [job EXCEPT !.pc = "open"]
  <2>1. job.pc = "save"
    BY <1>3 DEF SaveState, At
  <2>2. new \in Request /\ RequestOK(new, looked)
    BY <1>0, <2>1 DEF Request, Pc, RequestOK
  <2> QED BY <1>3, <2>2, OneRequest DEF SaveState, Step, shop, lookups
<1>4. CASE LogCall(q)
  BY <1>4, NoRequest DEF LogCall, shop, lookups, RepInv, TypeInv
<1>5. CASE StateExpires(q)
  BY <1>5, NewRequestOK, OneRequest DEF StateExpires, End, shop, lookups
<1>6. CASE Die(q)
  BY <1>6, NewRequestOK, OneRequest DEF Die, End, shop, lookups
<1>7. CASE Age(q)
  BY <1>7, NoRequest DEF Age, shop, lookups, RepInv, TypeInv
<1>8. CASE FindCampaign(q)
  <2> PICK c \in live : Set(q, [NewRequest EXCEPT !.pc = "resolve", !.campaign = c])
    BY <1>8 DEF FindCampaign
  <2> DEFINE new == [NewRequest EXCEPT !.pc = "resolve", !.campaign = c]
  <2>1. new \in Request /\ RequestOK(new, looked)
    BY DEF RepInv, TypeInv, NewRequest, Request, Pc, RequestOK
  <2> QED BY <1>8, <2>1, OneRequest DEF FindCampaign, shop, lookups
<1> QED BY <1>1, <1>2, <1>3, <1>4, <1>5, <1>6, <1>7, <1>8 DEF StartCall

LEMMA RestStep ==
  ASSUME RepInv,
         \/ EditCampaign \/ CacheExpires \/ TokenExpires \/ LockExpires
         \/ \E w \in Workers : AcquireLock(w) \/ Cleanup(w) \/ WorkerDies(w)
         \/ UNCHANGED vars
  PROVE  RepInv'
<1>1. CASE EditCampaign
  <2>1. levels' \in [Campaigns -> LevelSets] /\ live' \subseteq Campaigns
    BY <1>1 DEF EditCampaign, RepInv, TypeInv
  <2> QED BY <1>1, <2>1, NoRequest DEF EditCampaign, lookups
<1>2. CASE CacheExpires
  <2>1. TypeInv'
    BY <1>2 DEF CacheExpires, RepInv, TypeInv, shop
  <2>2. \A key \in Campaigns \X LevelSets : EntryOK(key, cache[key], looked)'
    BY <1>2 DEF CacheExpires, RepInv, TypeInv, EntryOK
  <2> QED BY <1>2, <2>1, <2>2 DEF CacheExpires, RepInv
<1>3. CASE TokenExpires
  BY <1>3 DEF TokenExpires, RepInv, TypeInv, shop
<1>4. CASE LockExpires
  BY <1>4, NoRequest DEF LockExpires, shop, lookups, RepInv, TypeInv
<1>5. CASE \E w \in Workers : AcquireLock(w) \/ Cleanup(w) \/ WorkerDies(w)
  BY <1>5, NoRequest
  DEF AcquireLock, Cleanup, DeleteStale, ReleaseLock, WorkerDies, shop, lookups, RepInv, TypeInv
<1>6. CASE UNCHANGED vars
  BY <1>6, NoRequest DEF vars, shop, lookups, RepInv, TypeInv
<1> QED BY <1>1, <1>2, <1>3, <1>4, <1>5, <1>6

LEMMA RepInductive == Spec => []RepInv
<1>1. RepInv /\ [Next]_vars => RepInv'
  <2> SUFFICES ASSUME RepInv, [Next]_vars PROVE RepInv'
    OBVIOUS
  <2>1. CASE \E q \in Requests : GetReps(q)
    BY <2>1, GetRepsStep
  <2>2. CASE \E q \in Requests : StartCall(q) \/ LogCall(q) \/ StateExpires(q) \/ Die(q) \/ Age(q)
    BY <2>2, CallStep
  <2> QED BY <2>1, <2>2, RestStep DEF Next
<1> QED BY <1>1, InitRep, PTL DEF Spec

\* Whatever the cache serves is the answer of every provider the campaign asked for
\* when the request came, however its levels, the providers and other requests
\* change between its steps (civic_service.py, lookup_reps).
THEOREM CachedAnswersWhole == Spec => []CacheServesWhole
<1>1. RepInv => CacheServesWhole
  BY DEF RepInv, RequestOK, Whole, CacheServesWhole, At
<1> QED BY <1>1, RepInductive, PTL

\* A call that starts from a handle dials a dialable rep whom a lookup returned for
\* its own campaign (civic_service.py, resolve_rep_token; helpers.py,
\* resolve_rep_or_422).
THEOREM HandlesStayHome == Spec => []CallsOwnReps
<1>1. RepInv => CallsOwnReps
  BY DEF RepInv, RequestOK, CallsOwnReps
<1> QED BY <1>1, RepInductive, PTL

\* The clean-up deletes the targets of calls nobody logged, the hang-up logs a call
\* only under a target that is still there: neither order loses one (cleanup.py,
\* stale_rep_targets_query).
THEOREM LoggedRepsKeptHolds == Spec => []LoggedRepsKept
<1>1. Init => LoggedRepsKept
  BY DEF Init, LoggedRepsKept
<1>2. LoggedRepsKept /\ [Next]_vars => LoggedRepsKept'
  <2> SUFFICES ASSUME LoggedRepsKept, [Next]_vars PROVE LoggedRepsKept'
    OBVIOUS
  <2>1. CASE UNCHANGED vars \/ EditCampaign \/ CacheExpires \/ TokenExpires \/ LockExpires
    BY <2>1 DEF vars, calls, EditCampaign, CacheExpires, TokenExpires, LockExpires, LoggedRepsKept
  <2>2. ASSUME NEW q \in Requests, GetReps(q) PROVE LoggedRepsKept'
    BY <2>2 DEF GetReps, ReadCampaign, ReadCache, Fetch, Unavailable, StoreCache, IssueToken, calls,
                LoggedRepsKept
  <2>3. ASSUME NEW q \in Requests, StartCall(q) \/ LogCall(q) \/ StateExpires(q) \/ Die(q) \/ Age(q)
        PROVE  LoggedRepsKept'
    BY <2>3 DEF StartCall, FindCampaign, ResolveRep, CommitSession, SaveState, LogCall, StateExpires, Die, Age, calls,
                LoggedRepsKept
  <2>4. ASSUME NEW w \in Workers, AcquireLock(w) \/ Cleanup(w) \/ WorkerDies(w)
        PROVE  LoggedRepsKept'
    BY <2>4 DEF AcquireLock, Cleanup, DeleteStale, ReleaseLock, WorkerDies, Stale, calls, LoggedRepsKept
  <2> QED BY <2>1, <2>2, <2>3, <2>4 DEF Next
<1> QED BY <1>1, <1>2, PTL DEF Spec
=============================================================================
