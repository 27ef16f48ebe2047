----------------------------- MODULE Migrations -----------------------------
(***************************************************************************)
(* `alembic upgrade head` and `alembic downgrade -1` over revisions 007 to   *)
(* 010 (alembic/env.py, alembic/versions/): each revision is a transaction   *)
(* that an autocommit block splits in two, and its stamp belongs to the      *)
(* second part.  A run may be cut short anywhere, and the application writes *)
(* on meanwhile.  Objects that are made and dropped together are one.        *)
(***************************************************************************)
EXTENDS Integers, Sequences, FiniteSets

CONSTANTS
  Runners,   \* processes that run alembic
  MaxRuns,   \* runs started (bound)
  Nobody

ASSUME ConstantsOK == Nobody \notin Runners /\ MaxRuns \in Nat

VARIABLES
  schema,   \* committed: the objects that exist, invalid indexes included
  invalid,  \* committed: indexes whose concurrent build was cancelled
  stamp,    \* committed: alembic_version
  dups,     \* the uniqueness rules that rows in the tables break
  view,     \* the schema as the open transaction of the lock's holder sees it
  deduped,  \* the rules whose breaches that transaction has removed
  lock,     \* holder of MIGRATION_LOCK_ID
  run,      \* the runs
  runs,     \* how many were started
  cut,      \* history: <<direction, revision>>s cut between two of their commits
  stuck     \* history: a statement failed on an object that was already, or no longer, there

database == <<schema, invalid, stamp>>
vars == <<database, dups, view, deduped, lock, run, runs, cut, stuck>>

-----------------------------------------------------------------------------
(* The revisions                                                           *)

Do(kind, object) == [kind |-> kind, object |-> object]
Commit == Do("commit", "")   \* begin of autocommit_block

\* Rules that only hold where an object enforces them.
RuleOf == [slot_rules |-> "versions", ux_calls_session_dial_sid |-> "legs",
           ix_users_email_lower |-> "emails", campaigns_name_key |-> "names"]
Unique(object) == object \in DOMAIN RuleOf
Enforced(objects) == {RuleOf[o] : o \in objects \cap DOMAIN RuleOf}

Up007 == <<Do("dedupe", "versions"), Do("create", "slot_rules"),
           Do("drop", "campaigns_name_key"), Do("create", "ux_campaigns_name_active"),
           Commit, Do("build", "lookup_indexes")>>
Up008 == <<Do("dedupe", "legs"),
           Commit, Do("build", "ux_calls_session_dial_sid"),
           Do("build", "ix_call_sessions_campaign_created"),
           Do("unbuild", "ix_call_sessions_campaign_id")>>
Up009_ColumnsFirst ==   \* bug: the columns go before the index is built
  <<Do("check", "emails"), Do("drop", "unused_columns"),
    Commit, Do("build", "ix_users_email_lower")>>
Up009 == <<Do("check", "emails"),
           Commit, Do("build", "ix_users_email_lower"), Do("drop", "unused_columns")>>
Up010 == <<Do("create", "sessions_valid_from"), Commit, Do("ensure", "skipped")>>

Down007 == <<Do("check", "names"),
             Commit, Do("unbuild", "lookup_indexes"),
             Do("drop", "ux_campaigns_name_active"), Do("create", "campaigns_name_key"),
             Do("drop", "slot_rules")>>
Down008 == <<Commit, Do("build", "ix_call_sessions_campaign_id"),
             Do("unbuild", "ix_call_sessions_campaign_created"),
             Do("unbuild", "ux_calls_session_dial_sid")>>
Down009 == <<Do("create", "unused_columns"), Commit, Do("unbuild", "ix_users_email_lower")>>
Down010 == <<Do("drop", "sessions_valid_from")>>

Upgrade == [rev \in 7..10 |-> <<Up007, Up008, Up009, Up010>>[rev - 6]]
Downgrade == [rev \in 7..10 |-> <<Down007, Down008, Down009, Down010>>[rev - 6]]

\* What revision 006 leaves; what a revision's upgrade makes, and what it removes.
Schema006 == {"campaigns_name_key", "ix_call_sessions_campaign_id", "unused_columns"}
Makes(rev) == {Upgrade[rev][i].object : i \in {j \in DOMAIN Upgrade[rev] :
                 Upgrade[rev][j].kind \in {"create", "build"}}}
Removes(rev) == {Upgrade[rev][i].object : i \in {j \in DOMAIN Upgrade[rev] :
                   Upgrade[rev][j].kind \in {"drop", "unbuild"}}}
SchemaAt(rev) ==
  (Schema006 \cup UNION {Makes(r) : r \in 7..rev}) \ UNION {Removes(r) : r \in 7..rev}

-----------------------------------------------------------------------------

Idle == [pc |-> "idle", way |-> "up", rev |-> 7, next |-> 1]
Revision(r) == IF run[r].way = "up" THEN Upgrade[run[r].rev] ELSE Downgrade[run[r].rev]
Statement(r) == Revision(r)[run[r].next]
Split(r) == \E i \in 1..(run[r].next - 1) : Revision(r)[i] = Commit

\* The statement at hand, with the run holding the lock.
Doing(r, kind) ==
  /\ run[r].pc = "running" /\ run[r].next <= Len(Revision(r))
  /\ Statement(r).kind = kind
Forward(r) == run' = [run EXCEPT ![r].next = @ + 1]

\* The process ends: its transaction is rolled back, its connection closed.
Stop(r) ==
  /\ run' = [run EXCEPT ![r] = Idle]
  /\ lock' = IF lock = r THEN Nobody ELSE lock
  /\ cut' = IF Split(r) THEN cut \cup {<<run[r].way, run[r].rev>>} ELSE cut

Init ==
  /\ schema = Schema006 /\ invalid = {} /\ stamp = 6 /\ dups = {}
  /\ view = {} /\ deduped = {}
  /\ lock = Nobody /\ run = [r \in Runners |-> Idle] /\ runs = 0
  /\ cut = {} /\ stuck = FALSE

\* do_run_migrations: the runner asks for the lock; nothing is read before it has it.
Start(r) ==
  /\ run[r] = Idle /\ runs < MaxRuns /\ runs' = runs + 1
  /\ \E way \in {"up", "down"} : run' = [run EXCEPT ![r] = [@ EXCEPT !.pc = "queued", !.way = way]]
  /\ UNCHANGED <<database, dups, view, deduped, lock, cut, stuck>>

Todo(way) == IF way = "up" THEN stamp < 10 ELSE stamp > 6

\* begin_transaction of the next revision.
Enter(r, way) ==
  /\ run' = [run EXCEPT ![r] = [pc |-> "running", way |-> way, next |-> 1,
                                rev |-> IF way = "up" THEN stamp' + 1 ELSE stamp']]
  /\ view' = schema' /\ deduped' = {}

LockAndBegin(r) ==
  /\ run[r].pc = "queued"
  /\ lock = Nobody
  /\ UNCHANGED <<database, dups, runs, cut, stuck>>
  /\ IF Todo(run[r].way)
     THEN Enter(r, run[r].way) /\ lock' = r
     ELSE run' = [run EXCEPT ![r] = Idle] /\ UNCHANGED <<view, deduped, lock>>

-----------------------------------------------------------------------------
(* The statements                                                          *)

\* DEDUPE_VERSIONS and DEDUPE_ACTIVE; RENAME_PARENT_SID_LEGS and DEDUPE_CALLS.
Dedupe(r) ==
  /\ Doing(r, "dedupe") /\ Forward(r)
  /\ deduped' = deduped \cup {Statement(r).object}
  /\ UNCHANGED <<database, dups, view, lock, runs, cut, stuck>>

\* The pre-checks raise when they find collisions.
Check(r) ==
  /\ Doing(r, "check") /\ Statement(r).object \notin dups
  /\ Forward(r)
  /\ UNCHANGED <<database, dups, view, deduped, lock, runs, cut, stuck>>

Breached(object) == Unique(object) /\ RuleOf[object] \in dups \ deduped

Create(r) ==
  LET object == Statement(r).object IN
  /\ Doing(r, "create") /\ object \notin view /\ ~Breached(object)
  /\ view' = view \cup {object}
  /\ Forward(r)
  /\ UNCHANGED <<database, dups, deduped, lock, runs, cut, stuck>>

Drop(r) ==
  /\ Doing(r, "drop") /\ Statement(r).object \in view
  /\ view' = view \ {Statement(r).object}
  /\ Forward(r)
  /\ UNCHANGED <<database, dups, deduped, lock, runs, cut, stuck>>

CommitFirst(r) ==
  /\ Doing(r, "commit")
  /\ schema' = view /\ dups' = dups \ deduped /\ deduped' = {}
  /\ Forward(r)
  /\ UNCHANGED <<invalid, stamp, view, lock, runs, cut, stuck>>

\* drop_invalid_index, then CREATE INDEX CONCURRENTLY IF NOT EXISTS.
Standing_Stub(object) == object \in schema   \* bug: a stub is taken for the index
Standing(object) == object \in schema \ invalid

Build(r) ==
  LET object == Statement(r).object IN
  /\ Doing(r, "build") /\ (Standing(object) \/ ~Breached(object))
  /\ schema' = schema \cup {object} /\ view' = view \cup {object}
  /\ invalid' = IF Standing(object) THEN invalid ELSE invalid \ {object}
  /\ Forward(r)
  /\ UNCHANGED <<stamp, dups, deduped, lock, runs, cut, stuck>>

\* The build fails on a breach, or its session is cancelled: by the operator, or to
\* break the deadlock with a queued runner, whose snapshot the build waits for.
BuildCancelled(r) ==
  LET object == Statement(r).object IN
  /\ Doing(r, "build") /\ ~Standing(object)
  /\ schema' = schema \cup {object} /\ invalid' = invalid \cup {object}
  /\ Stop(r)
  /\ UNCHANGED <<stamp, dups, view, deduped, runs, stuck>>

\* DROP INDEX CONCURRENTLY IF EXISTS
Unbuild(r) ==
  LET object == Statement(r).object IN
  /\ Doing(r, "unbuild")
  /\ schema' = schema \ {object} /\ view' = view \ {object} /\ invalid' = invalid \ {object}
  /\ Forward(r)
  /\ UNCHANGED <<stamp, dups, deduped, lock, runs, cut, stuck>>

\* ADD VALUE IF NOT EXISTS
Ensure(r) ==
  /\ Doing(r, "ensure") /\ Forward(r)
  /\ UNCHANGED <<database, dups, view, deduped, lock, runs, cut, stuck>>

\* The version is written and the transaction committed; an upgrade goes on to head.
Stamp(r) ==
  LET job == run[r] IN
  /\ job.pc = "running" /\ job.next > Len(Revision(r))
  /\ schema' = view /\ dups' = dups \ deduped
  /\ stamp' = IF job.way = "up" THEN job.rev ELSE job.rev - 1
  /\ cut' = cut \ {<<job.way, job.rev>>}
  /\ IF job.way = "up" /\ stamp' < 10
     THEN Enter(r, "up") /\ UNCHANGED lock
     ELSE /\ run' = [run EXCEPT ![r] = Idle] /\ lock' = Nobody
          /\ UNCHANGED <<view, deduped>>
  /\ UNCHANGED <<invalid, runs, stuck>>

\* A statement raises; "already exists" and "does not exist" are what a later run
\* meets again.
Fail(r) ==
  LET object == Statement(r).object
      clash == \/ Doing(r, "create") /\ object \in view
               \/ Doing(r, "drop") /\ object \notin view
  IN
  /\ clash \/ (Doing(r, "create") /\ Breached(object)) \/ (Doing(r, "check") /\ object \in dups)
  /\ stuck' = (stuck \/ clash)
  /\ Stop(r)
  /\ UNCHANGED <<database, dups, view, deduped, runs>>

-----------------------------------------------------------------------------

Kill(r) ==
  /\ run[r].pc # "idle"
  /\ Stop(r)
  /\ UNCHANGED <<database, dups, view, deduped, runs, stuck>>

\* The application writes a row that breaks a rule nothing enforces.  A constraint
\* made or dropped but not committed keeps writers out.
Write(rule) ==
  /\ rule \notin Enforced(schema \ invalid) \cup (IF lock = Nobody THEN {} ELSE Enforced(view \ invalid))
  /\ dups' = dups \cup {rule} /\ deduped' = deduped \ {rule}
  /\ UNCHANGED <<database, view, lock, run, runs, cut, stuck>>

Execute(r) ==
  \/ Dedupe(r) \/ Check(r) \/ Create(r) \/ Drop(r) \/ CommitFirst(r)
  \/ Build(r) \/ BuildCancelled(r) \/ Unbuild(r) \/ Ensure(r) \/ Stamp(r) \/ Fail(r)

Next ==
  \/ \E r \in Runners : Start(r) \/ LockAndBegin(r) \/ Execute(r) \/ Kill(r)
  \/ \E object \in DOMAIN RuleOf : Write(RuleOf[object])

Spec == Init /\ [][Next]_vars

-----------------------------------------------------------------------------
(* Properties                                                              *)

\* With no revision left half-way, and nobody at work, the schema is that of the
\* version stamped, its indexes are valid and its rules hold for every row, whatever
\* runs were cut short and run again before.
StampTellsSchema ==
  cut = {} /\ lock = Nobody =>
    /\ schema = SchemaAt(stamp)
    /\ invalid = {}
    /\ dups \cap Enforced(schema) = {}

\* A run stumbles over what a cut run left only after 007 or 010 up, or 009 down,
\* was cut: the others start with nothing they cannot do again.
OnlySomeGetStuck ==
  stuck => cut \cap {<<"up", 7>>, <<"up", 10>>, <<"down", 9>>} # {}

\* "Migrations are re-runnable": no run stumbles over what a cut run left.
Rerunnable == ~stuck
=============================================================================
