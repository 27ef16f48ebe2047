------------------------------ MODULE Accounts ------------------------------
(***************************************************************************)
(* The accounts of the staff: create_user and update_user of api/v1/users.py *)
(* with their guard of the last administrator, and the password reset codes  *)
(* of api/v1/auth.py, those of one account being followed.  Sessions are     *)
(* SessionAuth's.  Each request is run once, one step per command or         *)
(* statement that others can tell apart; a refusal that changes nothing ends *)
(* it.                                                                       *)
(***************************************************************************)
EXTENDS Naturals, FiniteSets

CONSTANTS
  Users,        \* accounts there may be
  Forgetful,    \* the account whose password is being reset
  Requests,     \* requests (bound)
  MaxAttempts,  \* RESET_MAX_ATTEMPTS
  MaxCodes,     \* codes issued (bound)
  Nobody

ASSUME ConstantsOK ==
  /\ Forgetful \in Users
  /\ MaxAttempts \in Nat \ {0} /\ MaxCodes \in Nat
  /\ Nobody \notin Requests

VARIABLES
  role,      \* users.role; "none" for an account not created yet
  active,    \* users.is_active: the set of active accounts
  guard,     \* holder of _lock_admin_guard
  code,      \* reset:{email}: the number of the code, 0 when absent
  attempts,  \* reset_attempts:{email}; 0 when absent
  req,       \* the requests
  issued,    \* history: the number of codes made
  sent,      \* history: the codes the account's owner has received
  wrong,     \* history: the wrong guesses answered, per code they were compared with
  resets,    \* history: the passwords set, per code
  recounted, \* history: codes whose count another request for a code took away
  leftover,  \* history: codes whose confirmation died between its commit and its DEL
  unguarded  \* history: an account was no active administrator when an update read
             \* it, and was one when the update took that from it

users == <<role, active, guard>>
codes == <<code, attempts, issued, sent, wrong, resets, recounted, leftover>>
vars == <<users, codes, req, unguarded>>

Roles == {"admin", "staff"}
NewRequest == [pc |-> "new", user |-> Forgetful, role |-> "keep", active |-> "keep",
               wasRole |-> "staff", wasActive |-> FALSE, guess |-> 0, code |-> 0]
At(r, pc) == req[r].pc = pc
Set(r, record) == req' = [req EXCEPT ![r] = record]
Step(r, pc) == Set(r, [req[r] EXCEPT !.pc = pc])
Answer(r) == Set(r, [NewRequest EXCEPT !.pc = "done"])

Admins == {u \in active : role[u] = "admin"}

Init ==
  /\ role \in [Users -> Roles \cup {"none"}] /\ active \in SUBSET Users
  /\ \A u \in Users : role[u] = "none" => u \notin active
  /\ role[Forgetful] # "none" /\ Admins # {}
  /\ guard = Nobody
  /\ code = 0 /\ attempts = 0 /\ issued = 0 /\ sent = {}
  /\ wrong = [c \in 1..MaxCodes |-> 0] /\ resets = [c \in 1..MaxCodes |-> 0]
  /\ recounted = {} /\ leftover = {}
  /\ req = [r \in Requests |-> NewRequest]
  /\ unguarded = FALSE

-----------------------------------------------------------------------------
(* create_user, update_user                                                *)

\* The unique index on the email settles which of two invitations creates it.
Create(r) ==
  /\ At(r, "new")
  /\ \E u \in Users, ro \in Roles :
       /\ role[u] = "none"
       /\ role' = [role EXCEPT ![u] = ro]
       /\ active' = active \cup {u}
  /\ Answer(r)
  /\ UNCHANGED <<guard, codes, unguarded>>

\* The request's changes, and the row they are decided on.
Losing(job) ==
  /\ job.wasRole = "admin" /\ job.wasActive
  /\ job.active = "no" \/ job.role = "staff"
LoadUser(r) ==
  /\ At(r, "new")
  /\ \E u \in Users, ro \in Roles \cup {"keep"}, a \in {"yes", "no", "keep"} :
       LET job == [NewRequest EXCEPT !.user = u, !.role = ro, !.active = a,
                                     !.wasRole = role[u], !.wasActive = u \in active]
       IN /\ role[u] # "none"
          /\ Set(r, [job EXCEPT !.pc = IF Losing(job) THEN "guard" ELSE "write"])
  /\ UNCHANGED <<users, codes, unguarded>>

LockGuard_None(r) ==   \* bug: no lock is taken
  /\ At(r, "guard")
  /\ Step(r, "count")
  /\ UNCHANGED <<users, codes, unguarded>>
LockGuard(r) ==
  /\ At(r, "guard")
  /\ guard = Nobody /\ guard' = r
  /\ Step(r, "count")
  /\ UNCHANGED <<role, active, codes, unguarded>>

\* _other_active_admins; 409 when there is none.
CountAdmins(r) ==
  /\ At(r, "count")
  /\ IF Admins \ {req[r].user} = {}
     THEN guard' = Nobody /\ Answer(r)
     ELSE Step(r, "write") /\ UNCHANGED guard
  /\ UNCHANGED <<role, active, codes, unguarded>>

\* The commit.  Only fields that differ from the row as it was read are written.
WriteUser(r) ==
  LET job == req[r]
      u == job.user
  IN
  /\ At(r, "write")
  /\ role' = IF job.role \in Roles \ {job.wasRole} THEN [role EXCEPT ![u] = job.role] ELSE role
  /\ active' = (active \cup {v \in {u} : job.active = "yes" /\ ~job.wasActive})
                 \ {v \in {u} : job.active = "no" /\ job.wasActive}
  /\ guard' = IF guard = r THEN Nobody ELSE guard
  /\ unguarded' = (unguarded \/ (~Losing(job) /\ u \in Admins /\ u \notin Admins'))
  /\ Answer(r)
  /\ UNCHANGED codes

-----------------------------------------------------------------------------
(* reset_request                                                           *)

FindCode(r) ==
  /\ At(r, "new") /\ code = 0
  /\ Step(r, "forget")
  /\ UNCHANGED <<users, codes, unguarded>>

\* The account is looked up, and the count of an earlier code is deleted.
ForgetCount(r) ==
  /\ At(r, "forget")
  /\ IF Forgetful \in active
     THEN /\ attempts' = 0
          /\ recounted' = IF code # 0 THEN recounted \cup {code} ELSE recounted
          /\ Step(r, "issue")
     ELSE Answer(r) /\ UNCHANGED <<attempts, recounted>>
  /\ UNCHANGED <<users, code, issued, sent, wrong, resets, leftover, unguarded>>

\* SETEX, and the SMS, which may not arrive.
Issue(r) ==
  /\ At(r, "issue") /\ issued < MaxCodes
  /\ code' = issued + 1 /\ issued' = issued + 1
  /\ sent' \in {sent, sent \cup {issued + 1}}
  /\ Answer(r)
  /\ UNCHANGED <<users, attempts, wrong, resets, recounted, leftover, unguarded>>

-----------------------------------------------------------------------------
(* reset_confirm                                                           *)

\* GET and the comparison; guess 0 is no code that was ever sent.
Compare(r) ==
  /\ At(r, "new") /\ code # 0
  /\ \E guess \in sent \cup {0} :
       Set(r, [NewRequest EXCEPT !.pc = IF guess = code THEN "verify" ELSE "tally",
                                 !.guess = guess, !.code = code])
  /\ UNCHANGED <<users, codes, unguarded>>

Exhausted_OneLate(n) == n > MaxAttempts   \* bug: one attempt too many
Exhausted(n) == n >= MaxAttempts
\* _RESET_ATTEMPT_LUA, and the answer.
Tally(r) ==
  /\ At(r, "tally")
  /\ IF Exhausted(attempts + 1)
     THEN code' = 0 /\ attempts' = 0
     ELSE attempts' = attempts + 1 /\ UNCHANGED code
  /\ wrong' = [wrong EXCEPT ![req[r].code] = @ + 1]
  /\ Answer(r)
  /\ UNCHANGED <<users, issued, sent, resets, recounted, leftover, unguarded>>

\* The account is looked up; the password is hashed meanwhile.
Verify(r) ==
  /\ At(r, "verify")
  /\ IF Forgetful \in active THEN Step(r, "reset") ELSE Answer(r)
  /\ UNCHANGED <<users, codes, unguarded>>

Reset_KeepsCode(r) ==   \* bug: the code is not deleted
  /\ At(r, "reset")
  /\ resets' = [resets EXCEPT ![req[r].code] = @ + 1]
  /\ Answer(r)
  /\ UNCHANGED <<users, code, attempts, issued, sent, wrong, recounted, leftover, unguarded>>
Reset(r) ==
  /\ At(r, "reset")
  /\ resets' = [resets EXCEPT ![req[r].code] = @ + 1]
  /\ Step(r, "discard")
  /\ UNCHANGED <<users, code, attempts, issued, sent, wrong, recounted, leftover, unguarded>>

\* DEL of both keys, whichever code is there by now.
Discard(r) ==
  /\ At(r, "discard")
  /\ code' = 0 /\ attempts' = 0
  /\ Answer(r)
  /\ UNCHANGED <<users, issued, sent, wrong, resets, recounted, leftover, unguarded>>

-----------------------------------------------------------------------------

\* RESET_CODE_TTL_SECONDS after it was issued; its count expires with it.
CodeExpires ==
  /\ code # 0 \/ attempts # 0
  /\ code' = 0 /\ attempts' = 0
  /\ UNCHANGED <<users, issued, sent, wrong, resets, recounted, leftover, req, unguarded>>

Die(r) ==
  /\ req[r].pc \notin {"new", "done"}
  /\ guard' = IF guard = r THEN Nobody ELSE guard
  /\ leftover' = IF At(r, "discard") THEN leftover \cup {req[r].code} ELSE leftover
  /\ Answer(r)
  /\ UNCHANGED <<role, active, code, attempts, issued, sent, wrong, resets, recounted, unguarded>>

Run(r) ==
  \/ Create(r) \/ LoadUser(r) \/ LockGuard(r) \/ CountAdmins(r) \/ WriteUser(r)
  \/ FindCode(r) \/ ForgetCount(r) \/ Issue(r)
  \/ Compare(r) \/ Tally(r) \/ Verify(r) \/ Reset(r) \/ Discard(r)

Next == CodeExpires \/ \E r \in Requests : Run(r) \/ Die(r)
Spec == Init /\ [][Next]_vars

-----------------------------------------------------------------------------
(* Properties                                                              *)

\* There is always an active administrator, however demotions, deactivations and
\* promotions interleave -- unless an update was decided on a row read before its
\* account became one, which skips the guard (users.py, update_user).
AnAdminRemains == unguarded \/ Admins # {}

\* "the last active admin cannot be removed by concurrent requests"
\* (CHANGELOG.md).  Not true of the code, where an update is `unguarded`.
LastAdminStays == Admins # {}

\* A code that can still be used has been guessed wrongly fewer than
\* RESET_MAX_ATTEMPTS times, however the guesses overlap -- unless a second request
\* for a code, which saw none, took its count away (auth.py, _RESET_ATTEMPT_LUA).
TriesBounded ==
  code # 0 /\ code \notin recounted => wrong[code] < MaxAttempts

\* A code that has set a password is gone once that confirmation is answered: only
\* one that died before its DEL, or confirmations that overlapped, use it twice
\* (auth.py, reset_confirm).
CodeSpentOnceAnswered ==
  code # 0 /\ resets[code] > 0 =>
    code \in leftover \/ \E r \in Requests : At(r, "discard") /\ req[r].code = code
=============================================================================
