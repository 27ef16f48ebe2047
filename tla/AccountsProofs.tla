--------------------------- MODULE AccountsProofs ---------------------------
(***************************************************************************)
(* The guard of the last administrator holds for any number of accounts and  *)
(* requests.                                                                 *)
(***************************************************************************)
EXTENDS Accounts, TLAPS

Job == [pc : {"new", "guard", "count", "write", "forget", "issue", "tally", "verify", "reset",
              "discard", "done"},
        user : Users, role : Roles \cup {"keep"}, active : {"yes", "no", "keep"},
        wasRole : Roles \cup {"none"}, wasActive : BOOLEAN, guess : Nat, code : Nat]

TypeInv ==
  /\ role \in [Users -> Roles \cup {"none"}] /\ active \subseteq Users
  /\ req \in [Requests -> Job]

\* A request that has passed the guard, or is being counted, holds it.
Guarded(r) == At(r, "count") \/ (At(r, "write") /\ Losing(req[r]))
Holds == \A r \in Requests : Guarded(r) => guard = r

\* One that has passed it leaves somebody when it writes.
Spares(r) == At(r, "write") /\ Losing(req[r]) => Admins \ {req[r].user} # {}

GuardInv ==
  /\ TypeInv /\ Holds
  /\ unguarded \/ (Admins # {} /\ \A r \in Requests : Spares(r))

CodesOK == code \in Nat /\ issued \in Nat /\ sent \subseteq Nat

-----------------------------------------------------------------------------

LEMMA InitGuard == Init => GuardInv /\ CodesOK
BY ConstantsOK
DEF Init, GuardInv, CodesOK, TypeInv, Holds, Guarded, Spares, At, Job, NewRequest, Admins, Roles

\* The request r goes to a step that needs no guard, and the users stay.
LEMMA Harmless ==
  ASSUME GuardInv, NEW r \in Requests, NEW job \in Job, Set(r, job),
         job.pc = "write" => ~Losing(job), job.pc # "count",
         UNCHANGED <<role, active, unguarded>>,
         guard' = guard \/ (guard = r /\ guard' = Nobody)
  PROVE  GuardInv'
<1>1. req' \in [Requests -> Job] /\ req'[r] = job /\ \A q \in Requests \ {r} : req'[q] = req[q]
  BY DEF GuardInv, TypeInv, Set
<1>2. TypeInv'
  BY <1>1 DEF GuardInv, TypeInv
<1>3. Holds'
  <2> SUFFICES ASSUME NEW q \in Requests, Guarded(q)' PROVE guard' = q
    BY DEF Holds
  <2>1. q # r
    BY <1>1 DEF Guarded, At, Losing
  <2>2. guard = q
    BY <1>1, <2>1 DEF GuardInv, Holds, Guarded, At, Losing
  <2> QED BY <2>1, <2>2
<1>4. Admins' = Admins
  BY DEF Admins
<1>5. ASSUME NEW q \in Requests, Spares(q) PROVE Spares(q)'
  BY <1>1, <1>4, <1>5 DEF Spares, At, Losing
<1> QED BY <1>2, <1>3, <1>4, <1>5 DEF GuardInv

LEMMA JobKept ==
  ASSUME GuardInv, NEW r \in Requests,
         NEW pc \in {"guard", "count", "write", "forget", "issue", "tally", "verify", "reset",
                     "discard", "done"}
  PROVE  /\ req[r] \in Job /\ [req[r] EXCEPT !.pc = pc] \in Job
         /\ [NewRequest EXCEPT !.pc = pc] \in Job
BY ConstantsOK DEF GuardInv, TypeInv, Job, NewRequest, Roles

LEMMA StepKept ==
  ASSUME GuardInv, NEW r \in Requests,
         NEW pc \in {"guard", "count", "write", "forget", "issue", "tally", "verify", "reset",
                     "discard", "done"},
         Step(r, pc)
  PROVE  /\ req' \in [Requests -> Job] /\ req'[r].pc = pc /\ req'[r].user = req[r].user
         /\ \A q \in Requests \ {r} : req'[q] = req[q]
<1> DEFINE new == [req[r] EXCEPT !.pc = pc]
<1>1. req[r] \in Job /\ new \in Job
  BY JobKept
<1>2. new.pc = pc /\ new.user = req[r].user
  BY <1>1 DEF Job
<1> HIDE DEF new
<1>3. req' = [req EXCEPT ![r] = new]
  BY DEF Step, Set, new
<1> QED BY <1>1, <1>2, <1>3 DEF GuardInv, TypeInv

\* The request r ends, and with it what it held.
LEMMA AnsweredHolds ==
  ASSUME GuardInv, NEW r \in Requests, Answer(r), role' \in [Users -> Roles \cup {"none"}],
         active' \subseteq Users, guard' = guard \/ (guard = r /\ guard' = Nobody)
  PROVE  /\ TypeInv' /\ Holds'
         /\ \A q \in Requests : Spares(q)' \/ (q # r /\ req'[q] = req[q] /\ Guarded(q))
<1>1. req' \in [Requests -> Job] /\ req'[r].pc = "done" /\ \A q \in Requests \ {r} : req'[q] = req[q]
  BY JobKept DEF Answer, Set, GuardInv, TypeInv, NewRequest
<1>2. Holds'
  <2> SUFFICES ASSUME NEW q \in Requests, Guarded(q)' PROVE guard' = q
    BY DEF Holds
  <2>1. q # r
    BY <1>1 DEF Guarded, At
  <2> QED BY <1>1, <2>1 DEF GuardInv, Holds, Guarded, At, Losing
<1>3. ASSUME NEW q \in Requests PROVE Spares(q)' \/ (q # r /\ req'[q] = req[q] /\ Guarded(q))
  BY <1>1 DEF Spares, Guarded, At, Losing
<1> QED BY <1>1, <1>2, <1>3 DEF TypeInv

\* A request ends, and no administrator is lost.
LEMMA AdminsGrow ==
  ASSUME GuardInv, NEW r \in Requests, Answer(r), role' \in [Users -> Roles \cup {"none"}],
         active' \subseteq Users, guard' = guard \/ (guard = r /\ guard' = Nobody),
         Admins \subseteq Admins', unguarded => unguarded'
  PROVE  GuardInv'
<1>1. TypeInv' /\ Holds'
  BY AnsweredHolds
<1>2. ASSUME NEW q \in Requests, Spares(q) PROVE Spares(q)'
  BY <1>2, AnsweredHolds DEF Spares, At, Losing
<1> QED BY <1>1, <1>2 DEF GuardInv

LEMMA CreateStep ==
  ASSUME GuardInv, NEW r \in Requests, Create(r)
  PROVE  GuardInv'
<1> PICK u \in Users, ro \in Roles :
       role[u] = "none" /\ role' = [role EXCEPT ![u] = ro] /\ active' = active \cup {u}
  BY DEF Create
<1>1. role' \in [Users -> Roles \cup {"none"}] /\ active' \subseteq Users
  BY DEF GuardInv, TypeInv, Roles
<1>2. Admins \subseteq Admins'
  BY DEF Admins, GuardInv, TypeInv
<1> QED BY <1>1, <1>2, AdminsGrow DEF Create, GuardInv, TypeInv

LEMMA WriteStep ==
  ASSUME GuardInv, NEW r \in Requests, WriteUser(r)
  PROVE  GuardInv'
<1> DEFINE job == req[r]
           u == job.user
<1>0. job \in Job /\ u \in Users /\ At(r, "write") /\ Answer(r)
  BY DEF GuardInv, TypeInv, WriteUser, Job
<1>1. /\ role' \in [Users -> Roles \cup {"none"}] /\ active' \subseteq Users
      /\ \A v \in Users \ {u} : role'[v] = role[v] /\ (v \in active' <=> v \in active)
  BY <1>0 DEF WriteUser, GuardInv, TypeInv
<1>2. guard' = guard \/ (guard = r /\ guard' = Nobody)
  BY DEF WriteUser
<1>3. Admins \ {u} \subseteq Admins'
  BY <1>1 DEF Admins, GuardInv, TypeInv
<1>4. CASE ~Losing(job)
  <2>1. unguarded' \/ Admins \subseteq Admins'
    BY <1>3, <1>4 DEF WriteUser
  <2>2. CASE ~unguarded'
    <3>1. ~unguarded
      BY <2>2 DEF WriteUser
    <3> QED BY <1>0, <1>1, <1>2, <2>1, <2>2, <3>1, AdminsGrow
  <2>3. CASE unguarded'
    BY <1>0, <1>1, <1>2, <2>3, AnsweredHolds DEF GuardInv
  <2> QED BY <2>2, <2>3
<1>5. CASE Losing(job)
  <2>1. guard = r
    BY <1>0, <1>5 DEF GuardInv, Holds, Guarded
  <2>2. \A q \in Requests \ {r} : ~Guarded(q)
    BY <2>1 DEF GuardInv, Holds
  <2>3. TypeInv' /\ Holds' /\ \A q \in Requests : Spares(q)'
    BY <1>0, <1>1, <1>2, <2>2, AnsweredHolds
  <2>4. unguarded \/ Admins' # {}
    BY <1>0, <1>3, <1>5 DEF GuardInv, Spares
  <2>5. unguarded => unguarded'
    BY DEF WriteUser
  <2> QED BY <2>3, <2>4, <2>5 DEF GuardInv
<1> QED BY <1>4, <1>5

LEMMA LoadStep ==
  ASSUME GuardInv, NEW r \in Requests, LoadUser(r)
  PROVE  GuardInv'
<1> PICK u \in Users, ro \in Roles \cup {"keep"}, a \in {"yes", "no", "keep"} :
       LET job == [NewRequest EXCEPT !.user = u, !.role = ro, !.active = a,
                                     !.wasRole = role[u], !.wasActive = u \in active]
       IN Set(r, [job EXCEPT !.pc = IF Losing(job) THEN "guard" ELSE "write"])
  BY DEF LoadUser
<1> DEFINE job == [NewRequest EXCEPT !.user = u, !.role = ro, !.active = a,
                                     !.wasRole = role[u], !.wasActive = u \in active]
           new == [job EXCEPT !.pc = IF Losing(job) THEN "guard" ELSE "write"]
<1>1. new \in Job
  <2>0. role[u] \in Roles \cup {"none"} /\ Forgetful \in Users
    BY ConstantsOK DEF GuardInv, TypeInv
  <2>1. job \in Job
    <3> DEFINE flag == u \in active
    <3>1. flag \in BOOLEAN
      OBVIOUS
    <3> HIDE DEF flag
    <3>2. [NewRequest EXCEPT !.user = u, !.role = ro, !.active = a, !.wasRole = role[u],
                             !.wasActive = flag] \in Job
      BY <2>0, <3>1 DEF Job, NewRequest, Roles
    <3> QED BY <3>2 DEF flag
  <2>2. [job EXCEPT !.pc = "guard"] \in Job /\ [job EXCEPT !.pc = "write"] \in Job
    BY <2>1 DEF Job
  <2> QED BY <2>2
<1>2. new.pc = "write" => ~Losing(new)
  BY DEF Losing, NewRequest
<1>3. new.pc # "count"
  BY DEF NewRequest
<1> QED BY <1>1, <1>2, <1>3, Harmless DEF LoadUser, users

LEMMA LockStep ==
  ASSUME GuardInv, NEW r \in Requests, LockGuard(r)
  PROVE  GuardInv'
<1>1. /\ req' \in [Requests -> Job] /\ req'[r].pc = "count"
      /\ \A q \in Requests \ {r} : req'[q] = req[q]
  BY StepKept DEF LockGuard
<1>2. \A q \in Requests : ~Guarded(q)
  BY ConstantsOK DEF LockGuard, GuardInv, Holds
<1>3. Holds'
  BY <1>1, <1>2 DEF Holds, Guarded, At, Losing, LockGuard
<1>4. ASSUME NEW q \in Requests PROVE Spares(q)'
  BY <1>1, <1>2 DEF Spares, Guarded, At, Losing
<1>5. Admins' = Admins /\ unguarded' = unguarded
  BY DEF LockGuard, Admins
<1> QED BY <1>1, <1>3, <1>4, <1>5 DEF GuardInv, TypeInv, LockGuard

LEMMA CountStep ==
  ASSUME GuardInv, NEW r \in Requests, CountAdmins(r)
  PROVE  GuardInv'
<1>0. guard = r
  BY DEF CountAdmins, GuardInv, Holds, Guarded
<1>1. CASE Admins \ {req[r].user} = {}
  BY <1>0, <1>1, JobKept, Harmless DEF CountAdmins, Answer, NewRequest
<1>2. CASE Admins \ {req[r].user} # {}
  <2>1. /\ req' \in [Requests -> Job] /\ req'[r].user = req[r].user
        /\ \A q \in Requests \ {r} : req'[q] = req[q]
    BY <1>2, StepKept DEF CountAdmins
  <2>2. Admins' = Admins /\ guard' = guard /\ unguarded' = unguarded
    BY <1>2 DEF CountAdmins, Admins
  <2>3. Holds'
    BY <1>0, <2>1, <2>2 DEF GuardInv, Holds, Guarded, At, Losing
  <2>4. ASSUME NEW q \in Requests, Spares(q) PROVE Spares(q)'
    BY <1>2, <2>1, <2>2, <2>4 DEF Spares, At, Losing
  <2> QED BY <2>1, <2>2, <2>3, <2>4 DEF GuardInv, TypeInv, CountAdmins
<1> QED BY <1>1, <1>2

\* The steps of the reset codes touch no user.
LEMMA CodeStep ==
  ASSUME GuardInv, CodesOK, NEW r \in Requests,
         \/ FindCode(r) \/ ForgetCount(r) \/ Issue(r)
         \/ Compare(r) \/ Tally(r) \/ Verify(r) \/ Reset(r) \/ Discard(r)
  PROVE  GuardInv'
<1>0. role' = role /\ active' = active /\ guard' = guard /\ unguarded' = unguarded
  BY DEF FindCode, ForgetCount, Issue, Compare, Tally, Verify, Reset, Discard, users
<1>1. CASE \E pc \in {"forget", "issue", "reset", "discard"} : Step(r, pc)
  <2> PICK pc \in {"forget", "issue", "reset", "discard"} : Step(r, pc)
    BY <1>1
  <2> DEFINE new == [req[r] EXCEPT !.pc = pc]
  <2>0. req[r] \in Job /\ new \in Job
    BY JobKept
  <2>1. new \in Job /\ new.pc = pc
    BY <2>0 DEF Job
  <2> QED BY <1>0, <2>1, Harmless DEF Step
<1>2. CASE Answer(r)
  BY <1>0, <1>2, JobKept, Harmless DEF Answer, NewRequest
<1>3. CASE Compare(r)
  <2> PICK guess \in sent \cup {0} :
         Set(r, [NewRequest EXCEPT !.pc = IF guess = code THEN "verify" ELSE "tally",
                                   !.guess = guess, !.code = code])
    BY <1>3 DEF Compare
  <2> DEFINE new == [NewRequest EXCEPT !.pc = IF guess = code THEN "verify" ELSE "tally",
                                       !.guess = guess, !.code = code]
  <2>1. new \in Job /\ new.pc \in {"verify", "tally"}
    <3>1. guess \in Nat /\ code \in Nat /\ Forgetful \in Users
      BY ConstantsOK DEF CodesOK
    <3>2. CASE guess = code
      BY <3>1, <3>2 DEF Job, NewRequest, Roles
    <3>3. CASE guess # code
      BY <3>1, <3>3 DEF Job, NewRequest, Roles
    <3> QED BY <3>2, <3>3
  <2> QED BY <1>0, <2>1, Harmless
<1> QED BY <1>1, <1>2, <1>3 DEF FindCode, ForgetCount, Issue, Tally, Verify, Reset, Discard

LEMMA CodesStay ==
  ASSUME CodesOK, [Next]_vars
  PROVE  CodesOK'
<1>0. CASE UNCHANGED vars
  BY <1>0 DEF CodesOK, vars, codes
<1>1. CASE CodeExpires
  BY <1>1 DEF CodesOK, CodeExpires
<1>2. ASSUME NEW r \in Requests,
             \/ Create(r) \/ LoadUser(r) \/ LockGuard(r) \/ CountAdmins(r) \/ WriteUser(r)
             \/ FindCode(r) \/ Compare(r) \/ Verify(r)
      PROVE  CodesOK'
  BY <1>2 DEF CodesOK, codes, Create, LoadUser, LockGuard, CountAdmins, WriteUser, FindCode,
              Compare, Verify
<1>3. ASSUME NEW r \in Requests, Issue(r) PROVE CodesOK'
  BY <1>3 DEF CodesOK, Issue
<1>4. ASSUME NEW r \in Requests, ForgetCount(r) \/ Tally(r) \/ Reset(r) \/ Discard(r) \/ Die(r)
      PROVE  CodesOK'
  <2>1. issued' = issued /\ sent' = sent
    BY <1>4 DEF ForgetCount, Tally, Reset, Discard, Die
  <2>2. code' = code \/ code' = 0
    BY <1>4 DEF ForgetCount, Tally, Reset, Discard, Die
  <2> QED BY <2>1, <2>2 DEF CodesOK
<1> QED BY <1>0, <1>4, <1>1, <1>2, <1>3 DEF Next, Run

LEMMA DieStep ==
  ASSUME GuardInv, NEW r \in Requests, Die(r)
  PROVE  GuardInv'
<1>1. guard' = guard \/ (guard = r /\ guard' = Nobody)
  BY DEF Die
<1> QED BY <1>1, JobKept, Harmless DEF Die, Answer, NewRequest

LEMMA GuardInductive == Spec => [](GuardInv /\ CodesOK)
<1>1. GuardInv /\ CodesOK /\ [Next]_vars => (GuardInv /\ CodesOK)'
  <2> SUFFICES ASSUME GuardInv, CodesOK, [Next]_vars PROVE GuardInv'
    BY CodesStay
  <2>1. CASE UNCHANGED vars \/ CodeExpires
    BY <2>1 DEF vars, users, CodeExpires, GuardInv, TypeInv, Holds, Guarded, Spares, Admins, At,
                Losing
  <2>2. CASE \E r \in Requests : Die(r)
    BY <2>2, DieStep
  <2>3. CASE \E r \in Requests : Run(r)
    BY <2>3, CreateStep, LoadStep, LockStep, CountStep, WriteStep, CodeStep DEF Run
  <2> QED BY <2>1, <2>2, <2>3 DEF Next
<1> QED BY <1>1, InitGuard, PTL DEF Spec

\* However demotions, deactivations, promotions and invitations interleave and
\* whichever of them die, an active administrator remains, unless an update was
\* decided on a row read before its account became one (users.py, update_user).
THEOREM SomebodyAdministers == Spec => []AnAdminRemains
<1>1. GuardInv => AnAdminRemains
  BY DEF GuardInv, AnAdminRemains
<1> QED BY <1>1, GuardInductive, PTL

-----------------------------------------------------------------------------
(* The reset codes                                                         *)

Confirming == {"tally", "verify", "reset", "discard"}

\* The count is never behind the wrong guesses at the code it is kept for, no code
\* that was not issued yet has any, and a code that was used is on its way out.
CodeInv ==
  /\ issued \in 0..MaxCodes /\ code \in 0..issued
  /\ attempts \in Nat /\ attempts < MaxAttempts
  /\ wrong \in [1..MaxCodes -> Nat] /\ resets \in [1..MaxCodes -> Nat]
  /\ \A c \in 1..MaxCodes : c > issued => wrong[c] = 0 /\ resets[c] = 0
  /\ \A r \in Requests : req[r].pc \in Confirming => req[r].code \in 1..issued
  /\ code # 0 /\ code \notin recounted => wrong[code] <= attempts
  /\ CodeSpentOnceAnswered

LEMMA InitCodes == Init => CodeInv
BY ConstantsOK DEF Init, CodeInv, Confirming, CodeSpentOnceAnswered, NewRequest

\* A request that confirms no code, or has not set its password yet, moves on.
LEMMA OthersConfirm ==
  ASSUME GuardInv, CodeInv, NEW r \in Requests, NEW job, Set(r, job), ~At(r, "discard"),
         job.pc \in Confirming => job.code \in 1..issued
  PROVE  /\ req'[r] = job
         /\ \A q \in Requests : req'[q].pc \in Confirming => req'[q].code \in 1..issued
         /\ \A q \in Requests : At(q, "discard") => req'[q] = req[q]
<1>1. req'[r] = job /\ \A q \in Requests \ {r} : req'[q] = req[q]
  BY DEF GuardInv, TypeInv, Set
<1> QED BY <1>1 DEF CodeInv, At

LEMMA CodesKept ==
  ASSUME GuardInv, CodeInv, NEW r \in Requests, NEW job, Set(r, job), ~At(r, "discard"),
         job.pc \in Confirming => job.code \in 1..issued, UNCHANGED codes
  PROVE  CodeInv'
<1>1. CodeSpentOnceAnswered'
  BY OthersConfirm DEF CodeInv, CodeSpentOnceAnswered, codes, At
<1> QED BY <1>1, OthersConfirm DEF CodeInv, codes

LEMMA AnsweredOK == [NewRequest EXCEPT !.pc = "done"].pc \notin Confirming
BY DEF NewRequest, Confirming

LEMMA UserCodes ==
  ASSUME GuardInv, CodeInv, NEW r \in Requests,
         \/ Create(r) \/ LoadUser(r) \/ LockGuard(r) \/ CountAdmins(r) \/ WriteUser(r)
         \/ FindCode(r) \/ Verify(r)
  PROVE  CodeInv'
<1>0. UNCHANGED codes /\ ~At(r, "discard")
  BY DEF Create, LoadUser, LockGuard, CountAdmins, WriteUser, FindCode, Verify, At
<1>1. CASE Answer(r)
  BY <1>0, <1>1, AnsweredOK, CodesKept DEF Answer
<1>2. CASE \E pc \in {"count", "write", "forget"} : Step(r, pc)
  <2> PICK pc \in {"count", "write", "forget"} : Step(r, pc)
    BY <1>2
  <2>1. [req[r] EXCEPT !.pc = pc].pc = pc
    BY JobKept DEF Job
  <2> QED BY <1>0, <2>1, CodesKept DEF Step, Confirming
<1>3. CASE Verify(r) /\ Step(r, "reset")
  <2>1. [req[r] EXCEPT !.pc = "reset"].pc = "reset" /\ [req[r] EXCEPT !.pc = "reset"].code = req[r].code
    BY JobKept DEF Job
  <2>2. req[r].code \in 1..issued
    BY <1>3 DEF Verify, At, CodeInv, Confirming
  <2> QED BY <1>0, <1>3, <2>1, <2>2, CodesKept DEF Step
<1>4. CASE LoadUser(r)
  <2> PICK u \in Users, ro \in Roles \cup {"keep"}, a \in {"yes", "no", "keep"},
           pc \in {"guard", "write"} :
         Set(r, [[NewRequest EXCEPT !.user = u, !.role = ro, !.active = a, !.wasRole = role[u],
                                    !.wasActive = u \in active] EXCEPT !.pc = pc])
    BY <1>4 DEF LoadUser
  <2>1. [[NewRequest EXCEPT !.user = u, !.role = ro, !.active = a, !.wasRole = role[u],
                            !.wasActive = u \in active] EXCEPT !.pc = pc].pc = pc
    BY DEF NewRequest
  <2> QED BY <1>0, <2>1, CodesKept DEF Confirming
<1> QED BY <1>1, <1>2, <1>3, <1>4 DEF Create, LockGuard, CountAdmins, WriteUser, FindCode, Verify

LEMMA CompareCodes ==
  ASSUME GuardInv, CodeInv, NEW r \in Requests, Compare(r)
  PROVE  CodeInv'
<1> PICK guess \in sent \cup {0}, pc \in {"verify", "tally"} :
       Set(r, [NewRequest EXCEPT !.pc = pc, !.guess = guess, !.code = code])
  BY DEF Compare
<1>1. [NewRequest EXCEPT !.pc = pc, !.guess = guess, !.code = code].code = code
  BY DEF NewRequest
<1>2. code \in 1..issued /\ UNCHANGED codes /\ ~At(r, "discard")
  BY DEF Compare, CodeInv, At
<1> QED BY <1>1, <1>2, CodesKept

LEMMA IssueCodes ==
  ASSUME GuardInv, CodeInv, NEW r \in Requests, ForgetCount(r) \/ Issue(r)
  PROVE  CodeInv'
<1>0. ~At(r, "discard") /\ wrong' = wrong /\ resets' = resets /\ leftover' = leftover
  BY DEF ForgetCount, Issue, At
<1>1. CASE ForgetCount(r)
  <2>1. PICK job : Set(r, job) /\ job.pc \notin Confirming
    <3>1. [req[r] EXCEPT !.pc = "issue"].pc = "issue"
      BY JobKept DEF Job
    <3> QED BY <1>1, <3>1, AnsweredOK DEF ForgetCount, Step, Answer, Confirming
  <2>2. /\ code' = code /\ issued' = issued
        /\ \/ attempts' = 0 /\ (code # 0 => code \in recounted')
           \/ attempts' = attempts /\ recounted' = recounted
    BY <1>1 DEF ForgetCount
  <2>3. /\ \A q \in Requests : req'[q].pc \in Confirming => req'[q].code \in 1..issued
        /\ \A q \in Requests : At(q, "discard") => req'[q] = req[q]
    BY <1>0, <2>1, OthersConfirm
  <2>4. CodeSpentOnceAnswered'
    BY <1>0, <2>2, <2>3 DEF CodeInv, CodeSpentOnceAnswered, At
  <2> QED BY ConstantsOK, <1>0, <2>2, <2>3, <2>4 DEF CodeInv
<1>2. CASE Issue(r)
  <2>1. /\ code' = issued + 1 /\ issued' = issued + 1 /\ issued < MaxCodes
        /\ attempts' = attempts /\ recounted' = recounted
    BY <1>2 DEF Issue
  <2>2. \A q \in Requests : req'[q].pc \in Confirming => req'[q].code \in 1..issued
    BY <1>0, <1>2, AnsweredOK, OthersConfirm DEF Issue, Answer
  <2>3. wrong[issued + 1] = 0 /\ resets[issued + 1] = 0
    BY ConstantsOK, <2>1 DEF CodeInv
  <2>4. CodeSpentOnceAnswered'
    BY <1>0, <2>1, <2>3 DEF CodeSpentOnceAnswered
  <2> QED BY ConstantsOK, <1>0, <2>1, <2>2, <2>3, <2>4 DEF CodeInv
<1> QED BY <1>1, <1>2

LEMMA TallyCodes ==
  ASSUME GuardInv, CodeInv, NEW r \in Requests, Tally(r)
  PROVE  CodeInv'
<1> DEFINE c == req[r].code
<1>1. /\ c \in 1..issued /\ ~At(r, "discard")
      /\ wrong' = [wrong EXCEPT ![c] = @ + 1]
      /\ UNCHANGED <<issued, resets, recounted, leftover>>
      /\ \/ code' = 0 /\ attempts' = 0
         \/ code' = code /\ attempts' = attempts + 1 /\ attempts' < MaxAttempts
  BY ConstantsOK DEF Tally, At, CodeInv, Confirming, Exhausted
<1>2. /\ \A q \in Requests : req'[q].pc \in Confirming => req'[q].code \in 1..issued
      /\ \A q \in Requests : At(q, "discard") => req'[q] = req[q]
  BY <1>1, AnsweredOK, OthersConfirm DEF Tally, Answer
<1> HIDE DEF c
<1>3. CodeSpentOnceAnswered'
  BY <1>1, <1>2 DEF CodeInv, CodeSpentOnceAnswered, At
<1>4. wrong' \in [1..MaxCodes -> Nat] /\ \A d \in 1..MaxCodes : d > issued => wrong'[d] = 0
  BY ConstantsOK, <1>1 DEF CodeInv
<1>5. code' # 0 /\ code' \notin recounted' => wrong'[code'] <= attempts'
  <2> SUFFICES ASSUME code' # 0, code' \notin recounted' PROVE wrong'[code'] <= attempts'
    OBVIOUS
  <2>1. code' = code /\ attempts' = attempts + 1 /\ wrong[code] <= attempts /\ code \in 1..MaxCodes
    BY ConstantsOK, <1>1 DEF CodeInv
  <2>2. wrong[code] \in Nat /\ attempts \in Nat
    BY <2>1 DEF CodeInv
  <2>3. wrong'[code] = wrong[code] \/ wrong'[code] = wrong[code] + 1
    BY <1>1, <2>1 DEF CodeInv
  <2> QED BY <2>1, <2>2, <2>3
<1>6. attempts' \in Nat /\ attempts' < MaxAttempts /\ code' \in 0..issued
  BY ConstantsOK, <1>1 DEF CodeInv
<1> QED BY <1>1, <1>2, <1>3, <1>4, <1>5, <1>6 DEF CodeInv

LEMMA ResetCodes ==
  ASSUME GuardInv, CodeInv, NEW r \in Requests, Reset(r)
  PROVE  CodeInv'
<1> DEFINE c == req[r].code
           job == [req[r] EXCEPT !.pc = "discard"]
<1>1. /\ c \in 1..issued /\ ~At(r, "discard") /\ Set(r, job)
      /\ resets' = [resets EXCEPT ![c] = @ + 1]
      /\ UNCHANGED <<code, attempts, issued, wrong, recounted, leftover>>
  BY DEF Reset, At, CodeInv, Confirming, Step
<1>2. job.pc = "discard" /\ job.code = c
  BY JobKept DEF Job
<1> HIDE DEF c, job
<1>3. /\ req'[r] = job
      /\ \A q \in Requests : req'[q].pc \in Confirming => req'[q].code \in 1..issued
      /\ \A q \in Requests : At(q, "discard") => req'[q] = req[q]
  BY <1>1, <1>2, OthersConfirm
<1>4. resets' \in [1..MaxCodes -> Nat] /\ \A d \in 1..MaxCodes \ {c} : resets'[d] = resets[d]
  <2>1. resets \in [1..MaxCodes -> Nat] /\ c \in 1..MaxCodes
    BY ConstantsOK, <1>1 DEF CodeInv
  <2>2. resets[c] + 1 \in Nat
    BY <2>1
  <2> QED BY <1>1, <2>1, <2>2
<1>5. CodeSpentOnceAnswered'
  <2>1. CASE code = c
    BY <1>1, <1>2, <1>3, <2>1 DEF CodeSpentOnceAnswered, At
  <2>2. CASE code # c
    <3>1. code # 0 => resets'[code] = resets[code]
      BY ConstantsOK, <1>4, <2>2 DEF CodeInv
    <3> QED BY <1>1, <1>3, <3>1 DEF CodeInv, CodeSpentOnceAnswered, At
  <2> QED BY <2>1, <2>2
<1>6. \A d \in 1..MaxCodes : d > issued => resets'[d] = 0
  BY ConstantsOK, <1>1, <1>4 DEF CodeInv
<1> QED BY <1>1, <1>3, <1>4, <1>5, <1>6 DEF CodeInv

\* Whoever deletes the code satisfies every promise about the one in use.
LEMMA GoneCodes ==
  ASSUME GuardInv, CodeInv, CodeExpires \/ \E r \in Requests : Discard(r)
  PROVE  CodeInv'
<1>1. code' = 0 /\ attempts' = 0 /\ UNCHANGED <<issued, wrong, resets>>
  BY DEF CodeExpires, Discard
<1>2. \A q \in Requests : req'[q].pc \in Confirming => req'[q].code \in 1..issued
  <2>1. CASE CodeExpires
    BY <2>1 DEF CodeExpires, CodeInv
  <2>2. ASSUME NEW r \in Requests, Discard(r)
        PROVE  \A q \in Requests : req'[q].pc \in Confirming => req'[q].code \in 1..issued
    BY <2>2, AnsweredOK DEF Discard, Answer, Set, GuardInv, TypeInv, CodeInv
  <2> QED BY <2>1, <2>2
<1> QED BY ConstantsOK, <1>1, <1>2 DEF CodeInv, CodeSpentOnceAnswered

LEMMA DeadCodes ==
  ASSUME GuardInv, CodeInv, NEW r \in Requests, Die(r)
  PROVE  CodeInv'
<1>1. /\ UNCHANGED <<code, attempts, issued, wrong, resets, recounted>>
      /\ leftover \subseteq leftover' /\ (At(r, "discard") => req[r].code \in leftover')
  BY DEF Die
<1>2. /\ req'[r].pc \notin Confirming
      /\ \A q \in Requests \ {r} : req'[q] = req[q]
  BY AnsweredOK DEF Die, Answer, Set, GuardInv, TypeInv
<1>3. CodeSpentOnceAnswered'
  BY <1>1, <1>2 DEF CodeInv, CodeSpentOnceAnswered, At
<1> QED BY <1>1, <1>2, <1>3 DEF CodeInv

LEMMA CodesInductive == Spec => []CodeInv
<1>1. GuardInv /\ CodeInv /\ [Next]_vars => CodeInv'
  <2> SUFFICES ASSUME GuardInv, CodeInv, [Next]_vars PROVE CodeInv'
    OBVIOUS
  <2>1. CASE UNCHANGED vars
    BY <2>1 DEF vars, codes, CodeInv, CodeSpentOnceAnswered, At
  <2>2. CASE CodeExpires \/ \E r \in Requests : Discard(r)
    BY <2>2, GoneCodes
  <2>3. CASE \E r \in Requests : Die(r)
    BY <2>3, DeadCodes
  <2>4. ASSUME NEW r \in Requests, Run(r), ~Discard(r) PROVE CodeInv'
    BY <2>4, UserCodes, CompareCodes, IssueCodes, TallyCodes, ResetCodes DEF Run
  <2> QED BY <2>1, <2>2, <2>3, <2>4 DEF Next
<1> QED BY <1>1, InitCodes, GuardInductive, PTL DEF Spec

\* However guesses, requests for codes, confirmations and expiry interleave, a code in
\* use was guessed wrongly fewer than RESET_MAX_ATTEMPTS times, unless a request that
\* saw no code took its count away (auth.py, _RESET_ATTEMPT_LUA).
THEOREM TriesBoundedHolds == Spec => []TriesBounded
<1>1. CodeInv => TriesBounded
  <2> SUFFICES ASSUME CodeInv, code # 0, code \notin recounted PROVE wrong[code] < MaxAttempts
    BY DEF TriesBounded
  <2>1. wrong[code] <= attempts /\ attempts < MaxAttempts /\ attempts \in Nat /\ code \in 1..MaxCodes
    BY ConstantsOK DEF CodeInv
  <2>2. wrong[code] \in Nat
    BY <2>1 DEF CodeInv
  <2> QED BY ConstantsOK, <2>1, <2>2
<1> QED BY <1>1, CodesInductive, PTL

\* A code that set a password outlives no answered confirmation of it, in any order of
\* confirmations, new codes and deaths (auth.py, reset_confirm).
THEOREM CodeSpentOnceAnsweredHolds == Spec => []CodeSpentOnceAnswered
<1>1. CodeInv => CodeSpentOnceAnswered
  BY DEF CodeInv
<1> QED BY <1>1, CodesInductive, PTL
=============================================================================
