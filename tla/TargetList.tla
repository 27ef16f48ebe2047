----------------------------- MODULE TargetList -----------------------------
(***************************************************************************)
(* The target list of one campaign: the target endpoints of                 *)
(* api/v1/campaigns.py, the import lock of services/redis_lock.py, and the   *)
(* calls that are started from the list meanwhile (api/v1/helpers.py).       *)
(* A request makes one step per statement that others can tell apart; what   *)
(* it writes is seen by others from its commit on, and a row it has written  *)
(* keeps other writers waiting until then.  Each request is run once.        *)
(* Targets are numbered as they are created.  A refusal that changes nothing *)
(* (404, 422) is not an action.                                              *)
(***************************************************************************)
EXTENDS Integers, Sequences, FiniteSets

CONSTANTS
  Requests,   \* requests of administrators (bound)
  Sessions,   \* calls that may be started (bound)
  ExtIds, NoExt,
  Files,      \* the CSV files: sequences of external ids, or of NoExt (bound)
  Listed,     \* length of the list at the start (bound)
  Nobody,
  MaxLapses,  \* expiries of an import lock (bound)
  MaxDeaths   \* handlers that die half-way (bound)

ASSUME ConstantsOK ==
  /\ NoExt \notin ExtIds
  /\ Nobody \notin Requests
  /\ Files \subseteq Seq(ExtIds \cup {NoExt})
  /\ {Listed, MaxLapses, MaxDeaths} \subseteq Nat

VARIABLES
  list,      \* campaign_targets: the linked targets |-> their "order"
  ext,       \* targets: the rows |-> their external_id
  minted,    \* the number of targets ever created
  advisory,  \* holder of _lock_campaign_targets
  row,       \* the open transaction that has written the campaigns row
  lock,      \* import_lock:{id}: its owner, and whether its TTL runs low
  errorsOf,  \* import_errors:{id}: the import that wrote it
  state,     \* call_session:{id}: the target_ids of each call; {} when absent
  reads,     \* what a call being started has read of the list
  logged,    \* calls: the pairs of a call and a target it logged
  req,       \* the requests
  late,      \* history: the pairs of a call and a target it was given while the
             \* target was being removed, or afterwards
  typed,     \* history: external ids set by add_target or update_target
  lapsed,    \* history: imports whose lock expired under them
  lastImport, unsaved,  \* history: the import committed last; its errors are not saved
  crossed,   \* history: a reordering met another one, or repeated an id while the
             \* list grew, or skipped a target removed meanwhile
  spent

database == <<list, ext, minted, advisory, row>>
redis == <<lock, errorsOf>>
calls == <<state, reads, logged, late>>
history == <<typed, lapsed, lastImport, unsaved, crossed>>
vars == <<database, redis, calls, req, history, spent>>

FirstStep == [import |-> "acquire", add |-> "lock", update |-> "read",
              reorder |-> "read", remove |-> "read"]
NewRequest == [kind |-> "none", pc |-> "new", tgt |-> 0, file |-> <<>>,
               known |-> <<>>, top |-> -1, ask |-> <<>>, old |-> <<>>,
               seen |-> {}, drop |-> FALSE]
At(r, pc) == req[r].pc = pc
Doing(r, kind, pc) == req[r].kind = kind /\ req[r].pc = pc
Set(r, record) == req' = [req EXCEPT ![r] = record]
Step(r, pc) == Set(r, [req[r] EXCEPT !.pc = pc])
Answer(r) == Set(r, [NewRequest EXCEPT !.pc = "done"])
Free == [by |-> Nobody, low |-> FALSE]
RangeOf(f) == {f[x] : x \in DOMAIN f}
Joined(f, g) == [x \in DOMAIN f \cup DOMAIN g |-> IF x \in DOMAIN f THEN f[x] ELSE g[x]]
Without(f, S) == [x \in DOMAIN f \ S |-> f[x]]

\* A list some targets of which may have been removed before.
Init ==
  /\ list \in {f \in [1..Listed -> 0..Listed] : \A t \in 2..Listed : f[t - 1] < f[t]}
  /\ ext \in {f \in [1..Listed -> ExtIds \cup {NoExt}] :
                \A t, u \in 1..Listed : f[t] = f[u] => t = u \/ f[t] = NoExt}
  /\ minted = Listed
  /\ advisory = Nobody /\ row = Nobody
  /\ lock = Free /\ errorsOf = Nobody
  /\ state = [s \in Sessions |-> {}] /\ reads = [s \in Sessions |-> {}]
  /\ logged = {} /\ late = {}
  /\ req = [r \in Requests |-> NewRequest]
  /\ typed = {} /\ lapsed = {} /\ lastImport = Nobody /\ unsaved = FALSE
  /\ crossed = FALSE
  /\ spent = [lapses |-> 0, deaths |-> 0]

Begin(r) ==
  /\ At(r, "new")
  /\ \E kind \in DOMAIN FirstStep :
       Set(r, [NewRequest EXCEPT !.kind = kind, !.pc = FirstStep[kind]])
  /\ UNCHANGED <<database, redis, calls, history, spent>>

Freed_SessionScoped(r) ==   \* bug: pg_advisory_lock, which outlives the transaction
  /\ row' = IF row = r THEN Nobody ELSE row
  /\ UNCHANGED advisory
\* The transaction of r ends, whatever its outcome.
Freed(r) ==
  /\ row' = IF row = r THEN Nobody ELSE row
  /\ advisory' = IF advisory = r THEN Nobody ELSE advisory

\* The request is answered with an error; an import frees its lock first.
Fail(r) ==
  /\ Freed(r)
  /\ IF req[r].kind = "import" THEN Step(r, "release") ELSE Answer(r)
  /\ UNCHANGED <<list, ext, minted>>

-----------------------------------------------------------------------------
(* Writers that add to the list: _lock_campaign_targets, _next_order         *)

Lock_Nothing(r) ==   \* bug: the transaction goes on without the lock
  /\ At(r, "lock")
  /\ Step(r, IF req[r].kind = "import" THEN "known" ELSE "top")
  /\ UNCHANGED <<database, redis, calls, history, spent>>
Lock(r) ==
  /\ At(r, "lock")
  /\ advisory = Nobody /\ advisory' = r
  /\ Step(r, IF req[r].kind = "import" THEN "known" ELSE "top")
  /\ UNCHANGED <<list, ext, minted, row, redis, calls, history, spent>>

\* A reordering under way; target_ids that name a target twice.
Pending(q) == req[q].kind = "reorder" /\ req[q].pc \in {"flush", "write"}
Repeats(ask) == Cardinality(DOMAIN ask) \in RangeOf(ask)

NextOrder(r) ==
  LET orders == RangeOf(list) IN
  /\ At(r, "top")
  /\ Set(r, [req[r] EXCEPT !.pc = "write",
       !.top = IF orders = {} THEN 0
               ELSE 1 + CHOOSE n \in orders : \A m \in orders : m <= n])
  /\ crossed' = (crossed \/ \E q \in Requests : Pending(q) /\ Repeats(req[q].ask))
  /\ UNCHANGED <<database, redis, calls, typed, lapsed, lastImport, unsaved, spent>>

AddCommit(r) ==
  /\ Doing(r, "add", "write") /\ row = Nobody
  /\ \E e \in ExtIds \cup {NoExt} :
       ext' = Joined([t \in {minted + 1} |-> e], ext) /\ typed' = typed \cup {e}
  /\ list' = Joined([t \in {minted + 1} |-> req[r].top], list)
  /\ minted' = minted + 1
  /\ Freed(r) /\ Answer(r)
  /\ UNCHANGED <<redis, calls, lapsed, lastImport, unsaved, crossed, spent>>

-----------------------------------------------------------------------------
(* update_target                                                           *)

PickTarget(r) ==
  /\ At(r, "read") /\ req[r].kind \in {"update", "remove"}
  /\ \E t \in DOMAIN list :
       Set(r, [req[r] EXCEPT !.tgt = t,
                             !.pc = IF req[r].kind = "update" THEN "write" ELSE "unlink"])
  /\ UNCHANGED <<database, redis, calls, history, spent>>

\* The rows an import has updated and not yet committed.
Updated(r) == IF Doing(r, "import", "written")
              THEN {req[r].known[e] : e \in DOMAIN req[r].known \cap RangeOf(req[r].file)}
              ELSE {}
Settled(t) == \A q \in Requests : t \notin Updated(q)

UpdateCommit(r) ==
  LET t == req[r].tgt IN
  /\ Doing(r, "update", "write") /\ row = Nobody /\ Settled(t)
  /\ IF t \in DOMAIN ext
     THEN /\ \E e \in ExtIds \cup {NoExt, ext[t]} :   \* the field set, or left alone
               /\ ext' = [ext EXCEPT ![t] = e]
               /\ typed' = IF e = ext[t] THEN typed ELSE typed \cup {e}
          /\ Answer(r)
          /\ UNCHANGED <<list, minted, advisory, row>>
     ELSE Fail(r) /\ UNCHANGED typed
  /\ UNCHANGED <<redis, calls, lapsed, lastImport, unsaved, crossed, spent>>

-----------------------------------------------------------------------------
(* import_targets, _do_import                                              *)

Acquire_Unchecked(r) ==   \* bug: SET without NX
  /\ At(r, "acquire")
  /\ lock' = [by |-> r, low |-> FALSE] /\ Step(r, "parse")
  /\ UNCHANGED <<database, errorsOf, calls, history, spent>>
Acquire(r) ==
  /\ At(r, "acquire")
  /\ IF lock = Free
     THEN lock' = [by |-> r, low |-> FALSE] /\ Step(r, "parse")
     ELSE UNCHANGED lock /\ Answer(r)
  /\ UNCHANGED <<database, errorsOf, calls, history, spent>>

\* read_upload_limited, _parse_import_csv: the rows that are valid, or a 4xx.
Parse(r) ==
  /\ At(r, "parse")
  /\ \/ \E file \in Files : Set(r, [req[r] EXCEPT !.pc = "lock", !.file = file])
     \/ Step(r, "release")
  /\ UNCHANGED <<database, redis, calls, history, spent>>

\* target_id_by_ext_id: any of the targets that share an external id.
Known(r) ==
  LET named == {t \in DOMAIN list : ext[t] # NoExt} IN
  /\ At(r, "known")
  /\ \E known \in [{ext[t] : t \in named} -> named] :
       /\ \A e \in DOMAIN known : ext[known[e]] = e
       /\ Set(r, [req[r] EXCEPT !.pc = "top", !.known = known])
  /\ UNCHANGED <<database, redis, calls, history, spent>>

\* The rows of the file that make a target of their own.
Fresh_EachRow(file, known) ==   \* bug: ids minted by this file do not join the map
  {i \in DOMAIN file : file[i] \notin DOMAIN known}
Fresh(file, known) ==
  {i \in DOMAIN file :
     \/ file[i] = NoExt
     \/ file[i] \notin DOMAIN known /\ \A j \in 1..(i - 1) : file[j] # file[i]}

\* _write_batches.  A row to be updated may be gone by now, which the ORM reports
\* or not, as the driver counts the rows of a batch or not.
ImportWrite(r) ==
  /\ Doing(r, "import", "write")
  /\ \/ /\ Step(r, "written")
        /\ UNCHANGED database
     \/ /\ \E e \in DOMAIN req[r].known \cap RangeOf(req[r].file) :
             req[r].known[e] \notin DOMAIN ext
        /\ Fail(r)
  /\ UNCHANGED <<redis, calls, history, spent>>

\* REFRESH_IF_OWNER
Refreshed(r) == IF lock.by = r THEN [lock EXCEPT !.low = FALSE] ELSE lock
\* keep_lock, after each batch: what it answers is ignored.
Heartbeat(r) ==
  /\ Doing(r, "import", "written")
  /\ lock' = Refreshed(r) /\ lock' # lock
  /\ UNCHANGED <<database, errorsOf, calls, req, history, spent>>

ImportCommit(r) ==
  LET file == req[r].file
      fresh == Fresh(file, req[r].known)
      id(i) == minted + Cardinality({j \in fresh : j <= i})
      new == {id(i) : i \in fresh}
  IN
  /\ Doing(r, "import", "written") /\ row = Nobody
  /\ ext' = Joined([t \in new |-> file[CHOOSE i \in fresh : id(i) = t]], ext)
  /\ list' = Joined([t \in new |-> req[r].top + t - minted - 1], list)
  /\ minted' = minted + Cardinality(fresh)
  /\ lastImport' = r /\ unsaved' = TRUE
  /\ Freed(r) /\ Step(r, "note")
  /\ UNCHANGED <<redis, calls, typed, lapsed, crossed, spent>>

\* import_errors, or the warning that it could not be written.
Note(r) ==
  /\ At(r, "note")
  /\ \/ errorsOf' = r /\ unsaved' = FALSE
     \/ UNCHANGED <<errorsOf, unsaved>>
  /\ Step(r, "release")
  /\ UNCHANGED <<database, lock, calls, typed, lapsed, lastImport, crossed, spent>>

Released_Anyones(r) == Free   \* bug: DEL, whoever owns it
\* RELEASE_IF_OWNER
Released(r) == IF lock.by = r THEN Free ELSE lock
Release(r) ==
  /\ At(r, "release")
  /\ lock' = Released(r)
  /\ Answer(r)
  /\ UNCHANGED <<database, errorsOf, calls, history, spent>>

-----------------------------------------------------------------------------
(* reorder_targets                                                         *)

\* The links as read without a lock, and the order asked for: each target's last
\* place in target_ids, which names exactly the targets read.
ReorderRead(r) ==
  LET n == Cardinality(DOMAIN list) IN
  /\ Doing(r, "reorder", "read")
  /\ \E ask \in [DOMAIN list -> 0..n] :
       /\ \A t, u \in DOMAIN list : ask[t] = ask[u] => t = u
       /\ Set(r, [req[r] EXCEPT !.pc = "flush", !.old = list, !.ask = ask])
       /\ crossed' = (crossed \/ \E q \in Requests :
                        \/ Pending(q)
                        \/ Repeats(ask) /\ req[q].kind \in {"import", "add"}
                                        /\ req[q].pc \in {"write", "written"})
  /\ UNCHANGED <<database, redis, calls, typed, lapsed, lastImport, unsaved, spent>>

\* The flush writes the campaigns row first.
ReorderFlush(r) ==
  /\ Doing(r, "reorder", "flush")
  /\ row = Nobody /\ row' = r
  /\ Step(r, "write")
  /\ UNCHANGED <<list, ext, minted, advisory, redis, calls, history, spent>>

\* The links whose order the ORM finds changed, which alone it writes.
Changed(r) == {t \in DOMAIN req[r].old : req[r].ask[t] # req[r].old[t]}
\* A removal that has deleted the link of t and not yet committed.
Unlinking(q, t) ==
  /\ req[q].kind = "remove" /\ req[q].tgt = t /\ t \in DOMAIN list
  /\ req[q].pc \in {"count", "scan", "write"}

\* The flush and the commit.  A link deleted since it was read fails the flush, or
\* is passed over, as the driver counts the rows of a batch or not.
ReorderCommit(r) ==
  LET changed == Changed(r) IN
  /\ Doing(r, "reorder", "write")
  /\ \A t \in changed, q \in Requests : ~Unlinking(q, t)
  /\ \/ /\ list' = [t \in DOMAIN list |-> IF t \in changed THEN req[r].ask[t] ELSE list[t]]
        /\ crossed' = (crossed \/ ~(changed \subseteq DOMAIN list))
        /\ Freed(r) /\ Answer(r)
        /\ UNCHANGED <<ext, minted>>
     \/ /\ ~(changed \subseteq DOMAIN list)
        /\ Fail(r)
        /\ UNCHANGED crossed
  /\ UNCHANGED <<redis, calls, typed, lapsed, lastImport, unsaved, spent>>

-----------------------------------------------------------------------------
(* remove_target                                                           *)

Unlink(r) ==
  /\ Doing(r, "remove", "unlink")
  /\ \A q \in Requests \ {r} : ~Unlinking(q, req[r].tgt)
  /\ Step(r, "count")
  /\ UNCHANGED <<database, redis, calls, history, spent>>

\* logged_calls, then the beginning of the SCAN: the calls alive then are found
\* by it, those that come later may be.
CountCalls(r) ==
  LET t == req[r].tgt IN
  /\ At(r, "count")
  /\ Set(r, IF \E s \in Sessions : <<s, t>> \in logged
            THEN [req[r] EXCEPT !.pc = "write"]
            ELSE [req[r] EXCEPT !.pc = "scan", !.seen = {s \in Sessions : t \in state[s]}])
  /\ UNCHANGED <<database, redis, calls, history, spent>>

Kept_Ignored(r) == {TRUE, FALSE}   \* bug: live calls are not looked at
\* in_a_live_call: a call seen may have expired before its key is read.
Kept(r) ==
  LET naming == {s \in Sessions : req[r].tgt \in state[s]} IN
  {keep \in BOOLEAN : /\ keep => req[r].seen \cup naming # {}
                      /\ ~keep => req[r].seen \cap naming = {}}
Scan(r) ==
  /\ At(r, "scan")
  /\ \E keep \in Kept(r) : Set(r, [req[r] EXCEPT !.pc = "write", !.drop = ~keep])
  /\ UNCHANGED <<database, redis, calls, history, spent>>

\* Deleting the row takes any link to it along.
RemoveCommit(r) ==
  LET t == req[r].tgt IN
  /\ Doing(r, "remove", "write") /\ row = Nobody
  /\ req[r].drop => Settled(t)
  /\ list' = Without(list, {t})
  /\ ext' = IF req[r].drop THEN Without(ext, {t}) ELSE ext
  /\ Freed(r) /\ Answer(r)
  /\ UNCHANGED <<minted, redis, calls, history, spent>>

-----------------------------------------------------------------------------
(* Calls: resolve_target_ids, save_call_state, call_complete                 *)

StartCall(s) ==
  /\ reads[s] = {} /\ state[s] = {} /\ list # <<>>
  /\ reads' = [reads EXCEPT ![s] = DOMAIN list]
  /\ UNCHANGED <<database, redis, state, logged, late, req, history, spent>>

\* A removal that no longer looks at t's calls, or has not seen this one.
BeingDropped(t) ==
  \E q \in Requests :
    req[q].kind = "remove" /\ req[q].pc \in {"scan", "write"} /\ req[q].tgt = t
SaveState(s) ==
  /\ reads[s] # {} /\ state[s] = {}
  /\ state' = [state EXCEPT ![s] = reads[s]]
  /\ late' = late \cup {<<s, t>> : t \in {u \in reads[s] :
                                            u \notin DOMAIN ext \/ BeingDropped(u)}}
  /\ UNCHANGED <<database, redis, reads, logged, req, history, spent>>

\* A leg is logged; a row that names a target gone is refused.
LogCall(s) ==
  /\ \E t \in state[s] \cap DOMAIN ext : logged' = logged \cup {<<s, t>>}
  /\ logged' # logged
  /\ UNCHANGED <<database, redis, state, reads, late, req, history, spent>>

\* Two hours after its last webhook: not while a removal runs that looked for calls
\* before a leg of this one was logged.
StateExpires(s) ==
  /\ state[s] # {}
  /\ \A q \in Requests : At(q, "scan") => <<s, req[q].tgt>> \notin logged
  /\ state' = [state EXCEPT ![s] = {}]
  /\ UNCHANGED <<database, redis, reads, logged, late, req, history, spent>>

-----------------------------------------------------------------------------
(* Time and faults                                                         *)

\* Minutes go by without a heartbeat; then the key is gone.
LockRunsLow ==
  /\ lock.by # Nobody /\ ~lock.low
  /\ spent.lapses < MaxLapses
  /\ lock' = [lock EXCEPT !.low = TRUE]
  /\ UNCHANGED <<database, errorsOf, calls, req, history, spent>>
LockExpires ==
  /\ lock.low
  /\ lock' = Free
  /\ lapsed' = lapsed \cup {lock.by}
  /\ spent' = [spent EXCEPT !.lapses = @ + 1]
  /\ UNCHANGED <<database, errorsOf, calls, req, typed, lastImport, unsaved, crossed>>

\* A deadlock is found by Postgres, which fails one of the transactions in it.
WaitsFor(r) ==
  IF Doing(r, "reorder", "write")
  THEN {q \in Requests : \E t \in Changed(r) : Unlinking(q, t)}
  ELSE {q \in Requests \ {r} :
          \/ row = q /\ At(r, "written")
          \/ row = q /\ At(r, "write") /\ req[r].kind # "import"
          \/ Doing(r, "remove", "write") /\ req[r].drop /\ req[r].tgt \in Updated(q)}
Deadlocked(S) ==
  \A r \in S : (\E q \in S : q \in WaitsFor(r)) /\ (\E q \in S : r \in WaitsFor(q))
BreakDeadlock(r) ==
  /\ \E S \in SUBSET Requests : r \in S /\ Deadlocked(S)
  /\ Fail(r)
  /\ UNCHANGED <<redis, calls, history, spent>>

Die(r) ==
  /\ req[r].pc \notin {"new", "done"}
  /\ spent.deaths < MaxDeaths /\ spent' = [spent EXCEPT !.deaths = @ + 1]
  /\ Freed(r) /\ Answer(r)
  /\ UNCHANGED <<list, ext, minted, redis, calls, history>>

-----------------------------------------------------------------------------

Run(r) ==
  \/ Lock(r) \/ NextOrder(r) \/ AddCommit(r)
  \/ PickTarget(r) \/ UpdateCommit(r)
  \/ Acquire(r) \/ Parse(r) \/ Known(r) \/ ImportWrite(r) \/ ImportCommit(r)
  \/ Note(r) \/ Release(r)
  \/ ReorderRead(r) \/ ReorderFlush(r) \/ ReorderCommit(r)
  \/ Unlink(r) \/ CountCalls(r) \/ Scan(r) \/ RemoveCommit(r)
  \/ BreakDeadlock(r)

Call(s) == StartCall(s) \/ SaveState(s) \/ LogCall(s) \/ StateExpires(s)

Next ==
  \/ \E r \in Requests : Begin(r) \/ Run(r) \/ Heartbeat(r) \/ Die(r)
  \/ \E s \in Sessions : Call(s)
  \/ LockRunsLow \/ LockExpires

Spec == Init /\ [][Next]_vars

-----------------------------------------------------------------------------
(* Properties                                                              *)

\* Two targets of a campaign never share a place in the list, whatever additions,
\* imports and removals overlap a reordering, unless two reorderings overlapped,
\* or one named a target twice while the list grew, or passed over a target that
\* was removed under it (campaigns.py, _lock_campaign_targets and reorder_targets).
OrdersDistinct ==
  crossed \/ \A t, u \in DOMAIN list : list[t] = list[u] => t = u

\* Imports alone never give a campaign two targets of one external id, even when
\* the import lock expires under a running one: only an id that an administrator
\* typed can be there twice (campaigns.py, _do_import).
ImportsUpsert ==
  \A t, u \in DOMAIN list : ext[t] = ext[u] /\ t # u => ext[t] \in typed \cup {NoExt}

\* An import whose lock did not expire owns it from the acquisition to the
\* release, whatever an import that lost it does (redis_lock.py).
OwnLockKept ==
  \A r \in Requests :
    req[r].kind = "import" /\ req[r].pc \notin {"acquire", "done"} /\ r \notin lapsed
      => lock.by = r

\* A target that a call was given before its removal looked for such calls is not
\* deleted while the call may dial it, nor once the call has logged it: call
\* history keeps resolving to a named official (campaigns.py, remove_target).
NeededTargetsKept ==
  \A s \in Sessions, t \in 1..minted :
    t \in state[s] \/ <<s, t>> \in logged => t \in DOMAIN ext \/ <<s, t>> \in late

\* The errors offered for download are those of the last import, as long as no
\* import lock expired and they could be saved (campaigns.py, _do_import).
ErrorsOfLastImport ==
  lapsed = {} /\ ~unsaved => errorsOf \in {Nobody, lastImport}

\* Nobody waits for a request that is over: the campaign's lock and its row are
\* given back by every outcome of a transaction, a death included, whereas the
\* import lock, which outlives a handler that dies, expires (campaigns.py,
\* _lock_campaign_targets).
LocksEndWithTransactions ==
  /\ advisory # Nobody => req[advisory].pc \in {"known", "top", "write", "written"}
  /\ row # Nobody => Doing(row, "reorder", "write")
=============================================================================
