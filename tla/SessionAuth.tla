---------------------------- MODULE SessionAuth -----------------------------
(***************************************************************************)
(* The sessions of one user: services/auth.py and the endpoints of           *)
(* api/v1/auth.py and users.py that call it.  Refresh tokens are Redis keys;  *)
(* a handler makes one step per command it awaits, and the commands of a      *)
(* pipeline(transaction=False) are steps of their own.  The rotation is a Lua *)
(* script, hence one step.  Access tokens carry only the time they were       *)
(* minted, so they are represented by the floors that cut them off: the       *)
(* clock ticks once for each floor.                                           *)
(***************************************************************************)
EXTENDS Naturals, FiniteSets

CONSTANTS
  Jtis,        \* the refresh tokens that may be minted (bound)
  NoJti,
  Slots,       \* handlers the server can be running at once (bound)
  MaxSweeps,   \* revocations, those that answer a replay included (bound)
  MaxLogouts,  \* sign-outs (bound)
  MaxMishaps   \* losses of Redis's data and of a handler half-way (bound)

ASSUME ConstantsOK ==
  /\ NoJti \notin Jtis
  /\ {MaxSweeps, MaxLogouts, MaxMishaps} \subseteq Nat

VARIABLES
  live,     \* refresh:{jti}
  grace,    \* refresh_grace:{jti}, the successor
  pred,     \* refresh_pred:{jti}, the predecessor
  tomb,     \* refresh_logout:{jti}
  members,  \* refresh_set
  floor,    \* session_floor; 0 when absent
  active, dbFloor,              \* users.is_active, users.sessions_valid_from
  jobs, now,
  root, handed,                 \* history: each token's chain; what clients hold
  swept, closed, ended,         \* history: tokens swept by revocations and signed out
                                \* of; chains open when a committed revocation began
  late,       \* history: tokens enrolled between a sweep's read and its delete,
              \* and the tokens they were exchanged for
  highFloor,  \* history: the highest floor committed
  crossed,    \* history: a revocation began while another was under way
  spent

keys == <<live, grace, pred, tomb, members, floor>>
user == <<active, dbFloor>>
history == <<root, handed, swept, closed, ended, late, highFloor, crossed>>
vars == <<keys, user, jobs, now, history, spent>>

NoLink == [j \in Jtis |-> NoJti]
Unminted == {j \in Jtis : root[j] = NoJti /\ j \notin live
                          /\ \A h \in Slots : jobs[h].new # j}

IdleJob == [op |-> "none", pc |-> "idle", jti |-> NoJti, new |-> NoJti,
            out |-> "none", snap |-> {}, before |-> {}, floor |-> 0]
Set(h, job) == jobs' = [jobs EXCEPT ![h] = job]
Step(h, pc) == Set(h, [jobs[h] EXCEPT !.pc = pc])
At(h, pc) == jobs[h].pc = pc
Start(op, pc, jti) ==
  \E h \in Slots : At(h, "idle") /\ Set(h, [IdleJob EXCEPT !.op = op, !.pc = pc, !.jti = jti])
Use(bound) == spent' = [spent EXCEPT ![bound] = @ + 1]

Init ==
  /\ live = {} /\ tomb = {} /\ members = {}
  /\ grace = NoLink /\ pred = NoLink
  /\ floor = 0 /\ dbFloor = 0 /\ active = TRUE
  /\ jobs = [h \in Slots |-> IdleJob]
  /\ now = 0
  /\ root = NoLink /\ handed = {}
  /\ swept = {} /\ closed = {} /\ ended = {}
  /\ late = {} /\ highFloor = 0 /\ crossed = FALSE
  /\ spent = [logouts |-> 0, flushes |-> 0, deaths |-> 0, expiries |-> 0]

-----------------------------------------------------------------------------
(* Requests                                                                *)

\* login, once the password is verified; refused for an inactive user.
Login ==
  /\ active
  /\ Start("login", "mint", NoJti)
  /\ UNCHANGED <<keys, user, now, history, spent>>

\* A client presents a token it was given; refused for an inactive user.
Refresh ==
  /\ active
  /\ \E j \in handed : Start("refresh", "mint", j)
  /\ UNCHANGED <<keys, user, now, history, spent>>

Logout ==
  /\ spent.logouts < MaxLogouts /\ Use("logouts")
  /\ \E j \in handed : Start("logout", "find", j)
  /\ UNCHANGED <<keys, user, now, history>>

\* update_user that deactivates, or changes the role of, the user; reset_confirm.
\* Which of them it is shows when it commits.
Revoke ==
  /\ Start("revoke", "sweep", NoJti)
  /\ UNCHANGED <<keys, user, now, history, spent>>

\* update_user with is_active = true ends no session.
Reactivate ==
  /\ ~active /\ active' = TRUE
  /\ UNCHANGED <<keys, dbFloor, jobs, now, history, spent>>

-----------------------------------------------------------------------------
(* issue_refresh_token, rotate_refresh_token                               *)

\* SETEX of the new token's key.  At login that registers it; in a rotation the
\* successor is a key nobody has been told of yet.
Mint(h) ==
  /\ At(h, "mint")
  /\ \E s \in Unminted :
       /\ live' = live \cup {s}
       /\ IF jobs[h].op = "login"
          THEN /\ root' = [root EXCEPT ![s] = s]
               /\ Set(h, [jobs[h] EXCEPT !.pc = "enrol", !.new = s])
          ELSE /\ UNCHANGED root
               /\ Set(h, [jobs[h] EXCEPT !.pc = "rotate", !.new = s])
  /\ UNCHANGED <<grace, pred, tomb, members, floor, user, now, handed, swept,
                 closed, ended, late, highFloor, crossed, spent>>

Sweeping == \E g \in Slots : At(g, "erase")
Enrol(h) ==
  /\ At(h, "enrol")
  /\ members' = members \cup {jobs[h].new}
  /\ late' = IF Sweeping THEN late \cup {jobs[h].new} ELSE late
  /\ Step(h, "answer")
  /\ UNCHANGED <<live, grace, pred, tomb, floor, user, now, root, handed, swept,
                 closed, ended, highFloor, crossed, spent>>

Consume_Reads(j, s) ==   \* bug: the token is read, not deleted
  /\ grace' = [grace EXCEPT ![j] = s]
  /\ pred' = [pred EXCEPT ![s] = j]
  /\ members' = members \cup {s}
  /\ UNCHANGED live
Consume_Unmarked(j, s) ==   \* bug: no markers are left
  /\ live' = live \ {j}
  /\ members' = members \cup {s}
  /\ UNCHANGED <<grace, pred>>
Consume_Unenrolled(j, s) ==   \* bug: the successor is in no set
  /\ live' = live \ {j}
  /\ grace' = [grace EXCEPT ![j] = s]
  /\ pred' = [pred EXCEPT ![s] = j]
  /\ UNCHANGED members

\* _ROTATE_LUA
Consume(j, s) ==
  /\ live' = live \ {j}
  /\ grace' = [grace EXCEPT ![j] = s]
  /\ pred' = [pred EXCEPT ![s] = j]
  /\ members' = members \cup {s}
Rotate(h) ==
  LET j == jobs[h].jti
      s == jobs[h].new
  IN
  /\ At(h, "rotate")
  /\ IF j \in live
     THEN /\ Consume(j, s)
          /\ root' = [root EXCEPT ![s] = root[j]]
          /\ late' = IF j \in late \/ Sweeping THEN late \cup {s} ELSE late
          /\ Step(h, "answer")
     ELSE /\ Set(h, [jobs[h] EXCEPT
                !.pc = "drop",
                !.out = IF j \in tomb THEN "logged_out"
                        ELSE IF grace[j] # NoJti THEN "grace" ELSE "replayed",
                !.jti = IF j \notin tomb THEN grace[j] ELSE NoJti])
          /\ UNCHANGED <<live, grace, pred, members, root, late>>
  /\ UNCHANGED <<tomb, floor, user, now, handed, swept, closed, ended,
                 highFloor, crossed, spent>>

\* DEL of the successor not used, then the answer: the recorded successor, a
\* 401, or the end of every session.
Drop(h) ==
  /\ At(h, "drop")
  /\ live' = live \ {jobs[h].new}
  /\ \/ jobs[h].out = "grace" /\ Set(h, [jobs[h] EXCEPT !.pc = "answer", !.new = jobs[h].jti])
     \/ jobs[h].out = "replayed" /\ Set(h, [jobs[h] EXCEPT !.pc = "sweep", !.new = NoJti])
     \/ jobs[h].out \notin {"grace", "replayed"} /\ Set(h, IdleJob)
  /\ UNCHANGED <<grace, pred, tomb, members, floor, user, now, history, spent>>

Hand(h) ==
  /\ At(h, "answer")
  /\ handed' = handed \cup {jobs[h].new}
  /\ Set(h, IdleJob)
  /\ UNCHANGED <<keys, user, now, root, swept, closed, ended, late, highFloor,
                 crossed, spent>>

-----------------------------------------------------------------------------
(* revoke_user_sessions                                                    *)

\* SMEMBERS; the floor is the time the answer came.
Sweep(h) ==
  /\ At(h, "sweep")
  /\ now < MaxSweeps
  /\ now' = now + 1
  /\ Set(h, [jobs[h] EXCEPT !.pc = "erase", !.snap = members, !.floor = now + 1,
                            !.before = {root[j] : j \in handed}])
  /\ crossed' = (crossed \/ \E g \in Slots \ {h} :
                            At(g, "erase") \/ At(g, "raise") \/ At(g, "commit"))
  /\ UNCHANGED <<keys, user, root, handed, swept, closed, ended, late, highFloor, spent>>

Unlinked(link, S) == [j \in Jtis |-> IF j \in S THEN NoJti ELSE link[j]]

Erase_KeepsMarkers(h) ==   \* bug: the markers of retired tokens stay
  /\ At(h, "erase")
  /\ live' = live \ jobs[h].snap
  /\ members' = {}
  /\ swept' = swept \cup jobs[h].snap
  /\ Step(h, "raise")
  /\ UNCHANGED <<grace, pred, tomb, floor, user, now, root, handed, closed, ended,
                 late, highFloor, crossed, spent>>
Erase(h) ==
  LET snap == jobs[h].snap IN
  /\ At(h, "erase")
  /\ live' = live \ snap /\ tomb' = tomb \ snap
  /\ grace' = Unlinked(grace, snap) /\ pred' = Unlinked(pred, snap)
  /\ members' = {}
  /\ swept' = swept \cup snap
  /\ Step(h, "raise")
  /\ UNCHANGED <<floor, user, now, root, handed, closed, ended, late,
                 highFloor, crossed, spent>>

Raise(h) ==
  /\ At(h, "raise")
  /\ floor' = jobs[h].floor
  /\ Step(h, "commit")
  /\ UNCHANGED <<live, grace, pred, tomb, members, user, now, history, spent>>

Commit_RedisOnly(h) ==   \* bug: the floor is written to Redis alone
  /\ At(h, "commit")
  /\ active' = (active /\ jobs[h].op # "revoke")
  /\ highFloor' = IF jobs[h].floor > highFloor THEN jobs[h].floor ELSE highFloor
  /\ ended' = ended \cup jobs[h].before
  /\ Set(h, IdleJob)
  /\ UNCHANGED <<keys, dbFloor, now, root, handed, swept, closed, late, crossed, spent>>

\* UPDATE users and the caller's commit: the row lock makes them one.
Commit(h) ==
  /\ At(h, "commit")
  /\ dbFloor' = jobs[h].floor
  /\ \/ UNCHANGED active
     \/ jobs[h].op = "revoke" /\ active' = FALSE
  /\ highFloor' = IF jobs[h].floor > highFloor THEN jobs[h].floor ELSE highFloor
  /\ ended' = ended \cup jobs[h].before
  /\ Set(h, IdleJob)
  /\ UNCHANGED <<keys, now, root, handed, swept, closed, late, crossed, spent>>

-----------------------------------------------------------------------------
(* retire_refresh_token                                                    *)

Find_Alone(h) ==   \* bug: the predecessor is not looked up
  /\ At(h, "find")
  /\ Set(h, [jobs[h] EXCEPT !.pc = "clear", !.snap = {jobs[h].jti}])
  /\ UNCHANGED <<keys, user, now, history, spent>>

Find(h) ==
  /\ At(h, "find")
  /\ Set(h, [jobs[h] EXCEPT !.pc = "clear", !.snap = {jobs[h].jti, pred[jobs[h].jti]} \ {NoJti}])
  /\ UNCHANGED <<keys, user, now, history, spent>>

Clear(h) ==
  /\ At(h, "clear")
  /\ live' = live \ {jobs[h].jti}
  /\ pred' = Unlinked(pred, {jobs[h].jti})
  /\ grace' = Unlinked(grace, jobs[h].snap)
  /\ Step(h, "forget")
  /\ UNCHANGED <<tomb, members, floor, user, now, history, spent>>

Forget(h) ==
  /\ At(h, "forget")
  /\ members' = members \ jobs[h].snap
  /\ Step(h, "bury")
  /\ UNCHANGED <<live, grace, pred, tomb, floor, user, now, history, spent>>

Bury(h) ==
  /\ At(h, "bury")
  /\ tomb' = tomb \cup jobs[h].snap
  /\ closed' = closed \cup {jobs[h].jti}
  /\ Set(h, IdleJob)
  /\ UNCHANGED <<live, grace, pred, members, floor, user, now, root, handed,
                 swept, ended, late, highFloor, crossed, spent>>

-----------------------------------------------------------------------------
(* Time and faults                                                         *)

\* REFRESH_GRACE_SECONDS after the rotation both its markers go.
GraceExpires ==
  /\ \E j \in Jtis :
       /\ grace[j] # NoJti
       /\ pred' = Unlinked(pred, {grace[j]})
       /\ grace' = Unlinked(grace, {j})
  /\ spent' = [spent EXCEPT !.expiries = 1]
  /\ UNCHANGED <<live, tomb, members, floor, user, jobs, now, history>>

\* "an evicted key or a flushed instance"
Flush ==
  /\ spent.flushes + spent.deaths < MaxMishaps /\ Use("flushes")
  /\ live' = {} /\ tomb' = {} /\ members' = {}
  /\ grace' = NoLink /\ pred' = NoLink /\ floor' = 0
  /\ UNCHANGED <<user, jobs, now, history>>

\* The handler dies, or a command of it fails: what it did to Redis stays, its
\* transaction is rolled back.
Die(h) ==
  /\ ~At(h, "idle")
  /\ spent.flushes + spent.deaths < MaxMishaps /\ Use("deaths")
  /\ Set(h, IdleJob)
  /\ UNCHANGED <<keys, user, now, history>>

-----------------------------------------------------------------------------

Run(h) ==
  \/ Mint(h) \/ Enrol(h) \/ Rotate(h) \/ Drop(h) \/ Hand(h)
  \/ Sweep(h) \/ Erase(h) \/ Raise(h) \/ Commit(h)
  \/ Find(h) \/ Clear(h) \/ Forget(h) \/ Bury(h)

Next ==
  \/ Login \/ Refresh \/ Logout \/ Revoke \/ Reactivate
  \/ \E h \in Slots : Run(h) \/ Die(h)
  \/ GraceExpires \/ Flush

Spec == Init /\ [][Next]_vars

-----------------------------------------------------------------------------
(* Correctness                                                             *)

\* The tokens that were issued and can still be exchanged.
Usable == {j \in live : root[j] # NoJti}
Chains == INSTANCE TokenChains WITH usable <- Usable
\* However refreshes, sign-outs and revocations interleave, a token is exchanged
\* once at most and never comes back to life.
TokensMoveOnce == Chains!Spec

\* Two presentations of a token never leave its chain with two live tokens.
OneUsablePerChain == Chains!OneUsablePerChain

\* What a finished revocation swept can never be exchanged again, nor answer
\* with a successor (revoke_user_sessions: "no retired jti can still hand out a
\* successor once the sessions behind it are gone").
SweptStaysDead == \A j \in swept : j \notin live /\ grace[j] = NoJti

\* A token that was signed out of is dead, and no predecessor inside its grace
\* window hands it out (retire_refresh_token: "two holes").  The exception lost
\* its way back: a predecessor that a revocation missed.
LogoutSticks ==
  \A j \in closed :
    /\ j \notin live /\ grace[j] = NoJti
    /\ \A p \in Jtis \ late : grace[p] # j

\* "End the refresh chain a logged-out token sits in" (auth.py,
\* retire_refresh_token).  Not true of the code: a successor that the token is
\* exchanged for before its key is deleted stays live.
LogoutEndsChain == \A j \in closed, k \in Usable : root[k] # root[j]

\* Tabs that refresh at the same moment are never taken for a theft: a replay is
\* only ever seen after a grace window ran out, a sign-out, a revocation, or loss.
NoFalseAlarm ==
  (\A bound \in {"expiries", "logouts", "flushes"} : spent[bound] = 0) /\ now = 0
    => \A h \in Slots : jobs[h].out # "replayed"

\* "End every session for a user": no chain that was open when a revocation began
\* has a live token once it is committed, unless a sign-in or a refresh of the chain
\* enrolled its token between the read of the set and its deletion.
RevocationReachesAll == \A j \in Usable : root[j] \in ended => j \in late

\* session_floor
Floor == IF floor > dbFloor THEN floor ELSE dbFloor

\* "an evicted or flushed key cannot bring a revoked session back": the access
\* tokens that a committed revocation cut off stay cut off, whatever Redis loses,
\* as long as revocations do not overlap.
FloorMovesForward == ~crossed => Floor >= highFloor
=============================================================================
