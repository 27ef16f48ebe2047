------------------------- MODULE SessionAuthProofs --------------------------
(***************************************************************************)
(* The rotation implements TokenChains; what a revocation swept stays dead   *)
(* and it misses only what was enrolled meanwhile; sign-outs stick; tabs     *)
(* that refresh together raise no alarm; and the durable floor survives: for *)
(* any number of tokens, handlers, revocations, sign-outs, losses of Redis   *)
(* and deaths.                                                               *)
(***************************************************************************)
EXTENDS SessionAuth, TLAPS

Pc == {"idle", "mint", "enrol", "rotate", "drop", "answer", "sweep", "erase", "raise", "commit",
       "find", "clear", "forget", "bury"}
Job == [op : {"none", "login", "refresh", "logout", "revoke"}, pc : Pc,
        jti : Jtis \cup {NoJti}, new : Jtis \cup {NoJti},
        out : {"none", "logged_out", "grace", "replayed"},
        snap : SUBSET Jtis, before : SUBSET (Jtis \cup {NoJti}), floor : Nat]
Link == [Jtis -> Jtis \cup {NoJti}]

TypeInv ==
  /\ live \subseteq Jtis /\ grace \in Link /\ pred \in Link /\ root \in Link
  /\ jobs \in [Slots -> Job]
  /\ now \in Nat /\ floor \in Nat /\ dbFloor \in Nat /\ highFloor \in Nat

\* The tokens that some client may come to hold.
Issued == {j \in Jtis : root[j] # NoJti}

\* A handler that has minted a successor which is in no chain yet.
Holds(job) == job.pc \in {"rotate", "drop"}

\* What a handler's job carries at each of its steps, given the tokens issued.
JobOK(job, issued, alive) ==
  /\ job.pc = "mint" /\ job.op # "login" => job.jti \in issued
  /\ job.pc \in {"find", "clear"} => job.jti \in issued
  /\ Holds(job) => job.new \in Jtis \ issued
  /\ job.pc = "rotate" => job.jti \in issued /\ (job.jti \in alive => job.new \in alive)
  /\ job.pc = "drop" /\ job.out = "grace" => job.jti \in issued
  /\ job.pc \in {"enrol", "answer"} => job.new \in issued
  /\ job.pc \in {"find", "clear", "forget", "bury", "erase", "raise"} => job.snap \subseteq issued

ChainInv ==
  /\ TypeInv
  /\ handed \subseteq Issued /\ members \subseteq Issued /\ swept \subseteq Issued
  /\ \A j \in Jtis : grace[j] \in Issued \cup {NoJti}
  /\ \A j \in Jtis : pred[j] \in Issued \cup {NoJti}
  /\ \A h \in Slots : JobOK(jobs[h], Issued, live)
  /\ \A g, h \in Slots : Holds(jobs[g]) /\ Holds(jobs[h]) /\ jobs[g].new = jobs[h].new => g = h

-----------------------------------------------------------------------------
(* Chains                                                                  *)

LEMMA IdleType == IdleJob \in Job
BY DEF IdleJob, Job, Pc

LEMMA InitChain == Init => ChainInv
<1> SUFFICES ASSUME Init PROVE ChainInv
  OBVIOUS
<1>1. TypeInv
  BY IdleType DEF Init, TypeInv, Link, NoLink
<1>2. \A h \in Slots : JobOK(jobs[h], Issued, live) /\ ~Holds(jobs[h])
  BY DEF Init, IdleJob, JobOK, Holds
<1>3. \A j \in Jtis : grace[j] = NoJti /\ pred[j] = NoJti
  BY DEF Init, NoLink
<1> QED BY <1>1, <1>2, <1>3 DEF Init, ChainInv

\* A job stays as good as it was while tokens die that it does not hold.
LEMMA JobStays ==
  ASSUME ChainInv, NEW g \in Slots, NEW alive, alive \subseteq live,
         Holds(jobs[g]) => (jobs[g].new \in live => jobs[g].new \in alive)
  PROVE  JobOK(jobs[g], Issued, alive)
BY DEF ChainInv, JobOK, Holds

\* A step of one handler that puts no token in a chain.
LEMMA OneJob ==
  ASSUME ChainInv, NEW h \in Slots, NEW job \in Job, Set(h, job),
         root' = root, live' \subseteq live, JobOK(job, Issued, live'),
         Holds(job) => Holds(jobs[h]) /\ job.new = jobs[h].new,
         \A g \in Slots \ {h} : JobOK(jobs[g], Issued, live'),
         handed' \subseteq Issued, members' \subseteq Issued, swept' \subseteq Issued,
         grace' \in [Jtis -> Issued \cup {NoJti}], pred' \in [Jtis -> Issued \cup {NoJti}],
         now' \in Nat, floor' \in Nat, dbFloor' \in Nat, highFloor' \in Nat
  PROVE  ChainInv'
<1>1. Issued' = Issued
  BY DEF Issued
<1>2. jobs' \in [Slots -> Job] /\ jobs'[h] = job /\ \A g \in Slots \ {h} : jobs'[g] = jobs[g]
  BY DEF ChainInv, TypeInv, Set
<1>3. TypeInv'
  BY <1>2 DEF ChainInv, TypeInv, Link, Issued
<1>4. \A g \in Slots : JobOK(jobs'[g], Issued, live')
  BY <1>2
<1>5. ASSUME NEW f \in Slots, NEW g \in Slots, Holds(jobs'[f]), Holds(jobs'[g]),
             jobs'[f].new = jobs'[g].new
      PROVE  f = g
  BY <1>2, <1>5 DEF ChainInv
<1> QED BY <1>1, <1>3, <1>4, <1>5 DEF ChainInv, Holds

\* The parts of OneJob that most steps leave alone.
LEMMA Quiet ==
  ASSUME ChainInv
  PROVE  /\ \A g \in Slots : jobs[g] \in Job /\ JobOK(jobs[g], Issued, live)
         /\ handed \subseteq Issued /\ members \subseteq Issued /\ swept \subseteq Issued
         /\ grace \in [Jtis -> Issued \cup {NoJti}] /\ pred \in [Jtis -> Issued \cup {NoJti}]
         /\ now \in Nat /\ floor \in Nat /\ dbFloor \in Nat /\ highFloor \in Nat
         /\ live \subseteq Jtis /\ Issued \subseteq Jtis /\ root \in Link
BY DEF ChainInv, TypeInv, Link, Issued

\* Links cut off still lead to tokens issued.
LEMMA UnlinkedType ==
  ASSUME NEW link \in [Jtis -> Issued \cup {NoJti}], NEW S
  PROVE  Unlinked(link, S) \in [Jtis -> Issued \cup {NoJti}]
BY DEF Unlinked

LEMMA StartStep ==
  ASSUME ChainInv, Login \/ Refresh \/ Logout \/ Revoke
  PROVE  ChainInv'
<1>0. UNCHANGED <<keys, root, handed, swept, now, dbFloor, highFloor>>
  BY DEF Login, Refresh, Logout, Revoke, keys, user, history
<1> DEFINE Starts(op, pc, jti) ==
       \E h \in Slots : Set(h, [IdleJob EXCEPT !.op = op, !.pc = pc, !.jti = jti])
<1>1. \E op \in {"login", "refresh", "logout", "revoke"},
         pc \in {"mint", "find", "sweep"}, jti \in Jtis \cup {NoJti} :
         /\ Starts(op, pc, jti)
         /\ pc = "mint" /\ op # "login" => jti \in Issued
         /\ pc = "find" => jti \in Issued
  <2>1. CASE Login
    <3>1. Starts("login", "mint", NoJti)
      BY <2>1 DEF Login, Start
    <3> HIDE DEF Starts
    <3> QED BY <3>1
  <2>2. CASE Refresh
    <3>1. PICK j \in handed : Starts("refresh", "mint", j)
      BY <2>2 DEF Refresh, Start
    <3> HIDE DEF Starts
    <3> QED BY <3>1, Quiet
  <2>3. CASE Logout
    <3>1. PICK j \in handed : Starts("logout", "find", j)
      BY <2>3 DEF Logout, Start
    <3> HIDE DEF Starts
    <3> QED BY <3>1, Quiet
  <2>4. CASE Revoke
    <3>1. Starts("revoke", "sweep", NoJti)
      BY <2>4 DEF Revoke, Start
    <3> HIDE DEF Starts
    <3> QED BY <3>1
  <2> QED BY <2>1, <2>2, <2>3, <2>4
<1> PICK h \in Slots, op \in {"login", "refresh", "logout", "revoke"},
         pc \in {"mint", "find", "sweep"}, jti \in Jtis \cup {NoJti} :
         /\ Set(h, [IdleJob EXCEPT !.op = op, !.pc = pc, !.jti = jti])
         /\ pc = "mint" /\ op # "login" => jti \in Issued
         /\ pc = "find" => jti \in Issued
  BY <1>1
<1> DEFINE job == [IdleJob EXCEPT !.op = op, !.pc = pc, !.jti = jti]
<1>2. job \in Job /\ job.op = op /\ job.pc = pc /\ job.jti = jti /\ job.snap = {}
  BY DEF IdleJob, Job, Pc
<1> HIDE DEF job
<1>3. JobOK(job, Issued, live) /\ ~Holds(job)
  BY <1>2 DEF JobOK, Holds
<1>4. Set(h, job)
  BY DEF job
<1> QED BY <1>0, <1>2, <1>3, <1>4, Quiet, OneJob DEF keys

\* A job that goes on to another step, its data kept.
LEMMA StepJob ==
  ASSUME ChainInv, NEW h \in Slots, NEW pc \in Pc
  PROVE  LET job == [jobs[h] EXCEPT !.pc = pc]
         IN  /\ job \in Job /\ job.pc = pc
             /\ job.op = jobs[h].op /\ job.jti = jobs[h].jti /\ job.new = jobs[h].new
             /\ job.out = jobs[h].out /\ job.snap = jobs[h].snap
<1> DEFINE old == jobs[h]
<1>1. old \in Job
  BY DEF ChainInv, TypeInv
<1> HIDE DEF old
<1>2. LET job == [old EXCEPT !.pc = pc]
      IN  /\ job \in Job /\ job.pc = pc
          /\ job.op = old.op /\ job.jti = old.jti /\ job.new = old.new
          /\ job.out = old.out /\ job.snap = old.snap
  BY <1>1 DEF Job
<1> QED BY <1>2 DEF old

LEMMA MintStep ==
  ASSUME ChainInv, NEW h \in Slots, Mint(h)
  PROVE  ChainInv'
<1> PICK s \in Unminted :
       /\ live' = live \cup {s}
       /\ IF jobs[h].op = "login"
          THEN /\ root' = [root EXCEPT ![s] = s]
               /\ Set(h, [jobs[h] EXCEPT !.pc = "enrol", !.new = s])
          ELSE /\ UNCHANGED root
               /\ Set(h, [jobs[h] EXCEPT !.pc = "rotate", !.new = s])
  BY DEF Mint
<1> DEFINE old == jobs[h]
<1>0. /\ UNCHANGED <<grace, pred, members, floor, now, dbFloor, highFloor, handed, swept>>
      /\ old.pc = "mint"
  BY DEF Mint, At, user
<1>1. /\ s \in Jtis /\ s # NoJti /\ s \notin Issued /\ s \notin live
      /\ \A g \in Slots : jobs[g].new # s
  BY ConstantsOK DEF Unminted, Issued
<1>2. old \in Job /\ JobOK(old, Issued, live)
  BY Quiet
<1>3. \A pc \in {"enrol", "rotate"} :
        LET job == [old EXCEPT !.pc = pc, !.new = s]
        IN  job \in Job /\ job.pc = pc /\ job.new = s /\ job.jti = old.jti
  <2> HIDE DEF old
  <2> QED BY <1>1, <1>2 DEF Job, Pc
<1>4. CASE old.op = "login"
  <2> DEFINE job == [old EXCEPT !.pc = "enrol", !.new = s]
  <2>1. job \in Job /\ job.pc = "enrol" /\ job.new = s /\ Set(h, job) /\ root' = [root EXCEPT ![s] = s]
    BY <1>3, <1>4
  <2> HIDE DEF job
  <2>2. root' \in Link /\ Issued' = Issued \cup {s}
    BY <1>1, <2>1, Quiet DEF Issued, Link
  <2>3. jobs' \in [Slots -> Job] /\ jobs'[h] = job /\ \A g \in Slots \ {h} : jobs'[g] = jobs[g]
    BY <2>1 DEF ChainInv, TypeInv, Set
  <2>4. ASSUME NEW g \in Slots \ {h} PROVE JobOK(jobs'[g], Issued', live')
    BY <1>1, <2>2, <2>3, Quiet DEF JobOK, Holds, Job
  <2>5. JobOK(jobs'[h], Issued', live') /\ ~Holds(jobs'[h])
    BY <2>1, <2>2, <2>3 DEF JobOK, Holds
  <2>6. TypeInv'
    BY <1>0, <1>1, <2>2, <2>3 DEF ChainInv, TypeInv
  <2> QED BY <1>0, <2>2, <2>3, <2>4, <2>5, <2>6 DEF ChainInv
<1>5. CASE old.op # "login"
  <2> DEFINE job == [old EXCEPT !.pc = "rotate", !.new = s]
  <2>1. job \in Job /\ job.pc = "rotate" /\ job.new = s /\ job.jti = old.jti /\ Set(h, job) /\ root' = root
    BY <1>3, <1>5
  <2> HIDE DEF job
  <2>2. Issued' = Issued
    BY <2>1 DEF Issued
  <2>3. jobs' \in [Slots -> Job] /\ jobs'[h] = job /\ \A g \in Slots \ {h} : jobs'[g] = jobs[g]
    BY <2>1 DEF ChainInv, TypeInv, Set
  <2>4. ASSUME NEW g \in Slots \ {h} PROVE JobOK(jobs'[g], Issued', live')
    BY <1>1, <2>2, <2>3, Quiet DEF JobOK, Holds
  <2>5. JobOK(jobs'[h], Issued', live')
    BY <1>0, <1>1, <1>2, <1>5, <2>1, <2>2, <2>3 DEF JobOK, Holds
  <2>6. TypeInv'
    BY <1>0, <1>1, <2>1, <2>3 DEF ChainInv, TypeInv
  <2>7. ASSUME NEW f \in Slots, NEW g \in Slots, Holds(jobs'[f]), Holds(jobs'[g]),
               jobs'[f].new = jobs'[g].new
        PROVE  f = g
    BY <1>1, <2>1, <2>3, <2>7 DEF ChainInv
  <2> QED BY <1>0, <2>2, <2>4, <2>5, <2>6, <2>7 DEF ChainInv
<1> QED BY <1>4, <1>5

LEMMA EnrolStep ==
  ASSUME ChainInv, NEW h \in Slots, Enrol(h)
  PROVE  ChainInv'
<1> DEFINE job == [jobs[h] EXCEPT !.pc = "answer"]
<1>1. job \in Job /\ job.pc = "answer" /\ job.new = jobs[h].new
  BY StepJob DEF Pc
<1>2. Set(h, job)
  BY DEF Enrol, Step
<1> HIDE DEF job
<1>3. JobOK(job, Issued, live) /\ ~Holds(job) /\ jobs[h].new \in Issued
  BY <1>1, Quiet DEF Enrol, At, JobOK, Holds
<1>4. UNCHANGED <<live, grace, pred, root, floor, now, dbFloor, highFloor, handed, swept>>
  BY DEF Enrol, user
<1>5. members' \subseteq Issued
  BY <1>3, Quiet DEF Enrol
<1> QED BY <1>1, <1>2, <1>3, <1>4, <1>5, Quiet, OneJob

LEMMA RotateStep ==
  ASSUME ChainInv, NEW h \in Slots, Rotate(h)
  PROVE  ChainInv'
<1> DEFINE j == jobs[h].jti
           s == jobs[h].new
<1>1. /\ j \in Issued /\ s \in Jtis \ Issued /\ (j \in live => s \in live)
      /\ jobs[h].pc = "rotate"
  BY Quiet DEF Rotate, At, JobOK, Holds
<1>2. UNCHANGED <<floor, now, dbFloor, highFloor, handed, swept>>
  BY DEF Rotate, user
<1>3. CASE j \in live
  <2> DEFINE job == [jobs[h] EXCEPT !.pc = "answer"]
  <2>1. job \in Job /\ job.pc = "answer" /\ job.new = s
    BY StepJob DEF Pc
  <2>2. Set(h, job)
    BY <1>3 DEF Rotate, Step
  <2> HIDE DEF job
  <2>3. jobs' \in [Slots -> Job] /\ jobs'[h] = job /\ \A g \in Slots \ {h} : jobs'[g] = jobs[g]
    BY <2>1, <2>2 DEF ChainInv, TypeInv, Set
  <2>4. /\ live' = live \ {j}
        /\ grace' = [grace EXCEPT ![j] = s] /\ pred' = [pred EXCEPT ![s] = j]
        /\ members' = members \cup {s} /\ root' = [root EXCEPT ![s] = root[j]]
    BY <1>3 DEF Rotate, Consume
  <2> HIDE DEF j, s
  <2>5. root' \in Link /\ Issued' = Issued \cup {s}
    BY <1>1, <2>4, Quiet DEF Issued, Link
  <2>6. ASSUME NEW g \in Slots \ {h} PROVE Holds(jobs[g]) => jobs[g].new # s
    BY <1>1 DEF ChainInv, Holds, s
  <2>7. ASSUME NEW g \in Slots \ {h} PROVE JobOK(jobs'[g], Issued', live')
    BY <1>1, <2>3, <2>4, <2>5, <2>6, Quiet DEF JobOK, Holds
  <2>8. JobOK(jobs'[h], Issued', live') /\ ~Holds(jobs'[h])
    BY <2>1, <2>3, <2>5 DEF JobOK, Holds
  <2>9. /\ grace' \in [Jtis -> Issued' \cup {NoJti}] /\ pred' \in [Jtis -> Issued' \cup {NoJti}]
        /\ handed' \subseteq Issued' /\ members' \subseteq Issued' /\ swept' \subseteq Issued'
    BY <1>1, <1>2, <2>4, <2>5, Quiet
  <2>10. TypeInv'
    BY <1>1, <1>2, <2>3, <2>4, <2>5, <2>9, Quiet DEF TypeInv, Link, Issued
  <2>11. ASSUME NEW f \in Slots, NEW g \in Slots, Holds(jobs'[f]), Holds(jobs'[g]),
                jobs'[f].new = jobs'[g].new
         PROVE  f = g
    BY <2>3, <2>8, <2>11 DEF ChainInv
  <2> QED BY <2>7, <2>8, <2>9, <2>10, <2>11 DEF ChainInv
<1>4. CASE j \notin live
  <2> PICK out \in {"logged_out", "grace", "replayed"}, jti \in Issued \cup {NoJti} :
        /\ Set(h, [jobs[h] EXCEPT !.pc = "drop", !.out = out, !.jti = jti])
        /\ out = "grace" => jti \in Issued
    <3>1. grace[j] \in Issued \cup {NoJti}
      BY <1>1, Quiet
    <3>2. Set(h, [jobs[h] EXCEPT !.pc = "drop",
                !.out = IF j \in tomb THEN "logged_out"
                        ELSE IF grace[j] # NoJti THEN "grace" ELSE "replayed",
                !.jti = IF j \notin tomb THEN grace[j] ELSE NoJti])
      BY <1>4 DEF Rotate
    <3> HIDE DEF j
    <3>3. CASE j \in tomb
      BY <3>2, <3>3
    <3>4. CASE j \notin tomb /\ grace[j] # NoJti
      BY <3>1, <3>2, <3>4
    <3>5. CASE j \notin tomb /\ grace[j] = NoJti
      BY <3>1, <3>2, <3>5
    <3> QED BY <3>3, <3>4, <3>5
  <2> DEFINE old == jobs[h]
             job == [jobs[h] EXCEPT !.pc = "drop", !.out = out, !.jti = jti]
  <2>1. job \in Job /\ job.pc = "drop" /\ job.out = out /\ job.jti = jti /\ job.new = s
    <3>1. old \in Job
      BY Quiet
    <3>2. LET new == [old EXCEPT !.pc = "drop", !.out = out, !.jti = jti]
          IN  new \in Job /\ new.pc = "drop" /\ new.out = out /\ new.jti = jti /\ new.new = old.new
      <4> HIDE DEF old
      <4> QED BY <3>1, Quiet DEF Job, Pc
    <3> QED BY <3>2
  <2>2. Set(h, job)
    OBVIOUS
  <2> HIDE DEF job
  <2>3. UNCHANGED <<live, grace, pred, members, root>>
    BY <1>4 DEF Rotate
  <2>4. JobOK(job, Issued, live) /\ Holds(jobs[h])
    BY <1>1, <2>1 DEF JobOK, Holds
  <2> QED BY <1>2, <2>1, <2>2, <2>3, <2>4, Quiet, OneJob
<1> QED BY <1>3, <1>4

LEMMA DropStep ==
  ASSUME ChainInv, NEW h \in Slots, Drop(h)
  PROVE  ChainInv'
<1> DEFINE old == jobs[h]
<1>1. old \in Job /\ JobOK(old, Issued, live) /\ old.pc = "drop"
  BY Quiet DEF Drop, At
<1>2. PICK job \in Job : Set(h, job) /\ JobOK(job, Issued, live') /\ ~Holds(job)
  <2>1. CASE old.out = "grace"
    <3>1. Set(h, [old EXCEPT !.pc = "answer", !.new = old.jti])
      BY <2>1 DEF Drop
    <3> HIDE DEF old
    <3> DEFINE job == [old EXCEPT !.pc = "answer", !.new = old.jti]
    <3>2. job \in Job /\ job.pc = "answer" /\ job.new = old.jti
      BY <1>1 DEF Job, Pc
    <3> HIDE DEF job
    <3>3. JobOK(job, Issued, live') /\ ~Holds(job)
      BY <1>1, <2>1, <3>2 DEF JobOK, Holds
    <3> QED BY <3>1, <3>2, <3>3 DEF job
  <2>2. CASE old.out = "replayed"
    <3>1. Set(h, [old EXCEPT !.pc = "sweep", !.new = NoJti])
      BY <2>2 DEF Drop
    <3> HIDE DEF old
    <3> DEFINE job == [old EXCEPT !.pc = "sweep", !.new = NoJti]
    <3>2. job \in Job /\ job.pc = "sweep"
      BY <1>1 DEF Job, Pc
    <3> HIDE DEF job
    <3>3. JobOK(job, Issued, live') /\ ~Holds(job)
      BY <3>2 DEF JobOK, Holds
    <3> QED BY <3>1, <3>2, <3>3 DEF job
  <2>3. CASE old.out \notin {"grace", "replayed"}
    <3>1. Set(h, IdleJob)
      BY <2>3 DEF Drop
    <3>2. JobOK(IdleJob, Issued, live') /\ ~Holds(IdleJob)
      BY DEF JobOK, Holds, IdleJob
    <3> QED BY <3>1, <3>2, IdleType
  <2> QED BY <2>1, <2>2, <2>3
<1>3. live' = live \ {old.new} /\ UNCHANGED <<grace, pred, members, root, floor, now, dbFloor, highFloor, handed, swept>>
  BY DEF Drop, user, history
<1>4. ASSUME NEW g \in Slots \ {h} PROVE JobOK(jobs[g], Issued, live')
  <2>1. Holds(jobs[g]) => jobs[g].new # old.new
    BY <1>1 DEF ChainInv, Holds
  <2> QED BY <1>3, <2>1, JobStays
<1> HIDE DEF old
<1> QED BY <1>2, <1>3, <1>4, Quiet, OneJob

\* A step of one handler that kills tokens already issued, or none.
LEMMA KillIssued ==
  ASSUME ChainInv, NEW h \in Slots, NEW job \in Job, Set(h, job),
         root' = root, live' \subseteq live, live \ live' \subseteq Issued,
         JobOK(job, Issued, live'), ~Holds(job),
         handed' \subseteq Issued, members' \subseteq Issued, swept' \subseteq Issued,
         grace' \in [Jtis -> Issued \cup {NoJti}], pred' \in [Jtis -> Issued \cup {NoJti}],
         now' \in Nat, floor' \in Nat, dbFloor' \in Nat, highFloor' \in Nat
  PROVE  ChainInv'
<1>1. ASSUME NEW g \in Slots PROVE JobOK(jobs[g], Issued, live')
  <2>1. Holds(jobs[g]) => jobs[g].new \notin Issued
    BY DEF ChainInv, JobOK
  <2> QED BY <2>1, JobStays
<1> QED BY <1>1, OneJob

LEMMA IdleOK == \A issued, alive : JobOK(IdleJob, issued, alive) /\ ~Holds(IdleJob)
BY DEF JobOK, Holds, IdleJob

LEMMA HandStep ==
  ASSUME ChainInv, NEW h \in Slots, Hand(h)
  PROVE  ChainInv'
<1>1. jobs[h].new \in Issued
  BY Quiet DEF Hand, At, JobOK
<1>2. handed' \subseteq Issued /\ Set(h, IdleJob)
  BY <1>1, Quiet DEF Hand
<1>3. UNCHANGED <<live, grace, pred, members, floor, root, now, dbFloor, highFloor, swept>>
  BY DEF Hand, user, keys
<1> QED BY <1>2, <1>3, Quiet, IdleOK, IdleType, KillIssued

LEMMA SweepStep ==
  ASSUME ChainInv, NEW h \in Slots, Sweep(h)
  PROVE  ChainInv'
<1> DEFINE old == jobs[h]
           roots == {root[j] : j \in handed}
           time == now + 1
           job == [old EXCEPT !.pc = "erase", !.snap = members, !.floor = time, !.before = roots]
<1>1. Set(h, job) /\ now' = time
  BY DEF Sweep
<1>2. old \in Job /\ members \subseteq Issued /\ Issued \subseteq Jtis /\ time \in Nat
      /\ roots \subseteq Jtis \cup {NoJti}
  BY Quiet DEF Link
<1>3. UNCHANGED <<live, grace, pred, members, floor, root, dbFloor, highFloor, handed, swept>>
  BY DEF Sweep, user, keys
<1> HIDE DEF old, roots, time
<1>4. job \in Job /\ job.pc = "erase" /\ job.snap = members
  BY <1>2 DEF Job, Pc
<1> HIDE DEF job
<1>5. JobOK(job, Issued, live) /\ ~Holds(job)
  BY <1>2, <1>4 DEF JobOK, Holds
<1> QED BY <1>1, <1>2, <1>3, <1>4, <1>5, Quiet, KillIssued

LEMMA EraseStep ==
  ASSUME ChainInv, NEW h \in Slots, Erase(h)
  PROVE  ChainInv'
<1> DEFINE snap == jobs[h].snap
           job == [jobs[h] EXCEPT !.pc = "raise"]
<1>1. job \in Job /\ job.pc = "raise" /\ job.snap = snap
  BY StepJob DEF Pc
<1>2. Set(h, job) /\ snap \subseteq Issued
  BY Quiet DEF Erase, Step, At, JobOK
<1>3. /\ live' = live \ snap /\ members' = {} /\ swept' = swept \cup snap
      /\ grace' = Unlinked(grace, snap) /\ pred' = Unlinked(pred, snap)
      /\ UNCHANGED <<root, floor, now, dbFloor, highFloor, handed>>
  BY DEF Erase, user
<1> HIDE DEF job, snap
<1>4. JobOK(job, Issued, live') /\ ~Holds(job)
  BY <1>1, <1>2 DEF JobOK, Holds
<1>5. grace' \in [Jtis -> Issued \cup {NoJti}] /\ pred' \in [Jtis -> Issued \cup {NoJti}]
  BY <1>3, Quiet, UnlinkedType
<1> QED BY <1>1, <1>2, <1>3, <1>4, <1>5, Quiet, KillIssued

LEMMA RaiseStep ==
  ASSUME ChainInv, NEW h \in Slots, Raise(h)
  PROVE  ChainInv'
<1> DEFINE job == [jobs[h] EXCEPT !.pc = "commit"]
<1>1. job \in Job /\ job.pc = "commit"
  BY StepJob DEF Pc
<1>2. Set(h, job) /\ floor' \in Nat
  BY Quiet DEF Raise, Step, Job
<1>3. UNCHANGED <<live, grace, pred, members, root, now, dbFloor, highFloor, handed, swept>>
  BY DEF Raise, user, history
<1> HIDE DEF job
<1>4. JobOK(job, Issued, live) /\ ~Holds(job)
  BY <1>1 DEF JobOK, Holds
<1> QED BY <1>1, <1>2, <1>3, <1>4, Quiet, KillIssued

LEMMA CommitStep ==
  ASSUME ChainInv, NEW h \in Slots, Commit(h)
  PROVE  ChainInv'
<1>1. jobs[h].floor \in Nat
  BY Quiet DEF Job
<1>2. dbFloor' \in Nat /\ highFloor' \in Nat /\ Set(h, IdleJob)
  BY <1>1, Quiet DEF Commit
<1>3. UNCHANGED <<live, grace, pred, members, floor, root, now, handed, swept>>
  BY DEF Commit, keys
<1> QED BY <1>2, <1>3, Quiet, IdleOK, IdleType, KillIssued

LEMMA FindStep ==
  ASSUME ChainInv, NEW h \in Slots, Find(h)
  PROVE  ChainInv'
<1> DEFINE old == jobs[h]
           snap == {old.jti, pred[old.jti]} \ {NoJti}
           job == [old EXCEPT !.pc = "clear", !.snap = snap]
<1>1. Set(h, job)
  BY DEF Find
<1>2. old \in Job /\ old.jti \in Issued /\ pred[old.jti] \in Issued \cup {NoJti}
  BY Quiet DEF Find, At, JobOK
<1>3. snap \subseteq Issued
  BY <1>2
<1> HIDE DEF old, snap
<1>4. job \in Job /\ job.pc = "clear" /\ job.snap = snap /\ job.jti = old.jti
  BY <1>2, <1>3, Quiet DEF Job, Pc
<1> HIDE DEF job
<1>5. JobOK(job, Issued, live) /\ ~Holds(job)
  BY <1>2, <1>3, <1>4 DEF JobOK, Holds
<1>6. UNCHANGED <<live, grace, pred, members, floor, root, now, dbFloor, highFloor, handed, swept>>
  BY DEF Find, user, keys, history
<1> QED BY <1>1, <1>4, <1>5, <1>6, Quiet, KillIssued

LEMMA ClearStep ==
  ASSUME ChainInv, NEW h \in Slots, Clear(h)
  PROVE  ChainInv'
<1> DEFINE old == jobs[h]
           job == [jobs[h] EXCEPT !.pc = "forget"]
<1>1. job \in Job /\ job.pc = "forget" /\ job.snap = old.snap
  BY StepJob DEF Pc
<1>2. Set(h, job) /\ old.jti \in Issued /\ old.snap \subseteq Issued
  BY Quiet DEF Clear, Step, At, JobOK
<1>3. /\ live' = live \ {old.jti}
      /\ grace' = Unlinked(grace, old.snap) /\ pred' = Unlinked(pred, {old.jti})
      /\ UNCHANGED <<members, root, floor, now, dbFloor, highFloor, handed, swept>>
  BY DEF Clear, user, history
<1> HIDE DEF job, old
<1>4. JobOK(job, Issued, live') /\ ~Holds(job)
  BY <1>1, <1>2 DEF JobOK, Holds
<1>5. grace' \in [Jtis -> Issued \cup {NoJti}] /\ pred' \in [Jtis -> Issued \cup {NoJti}]
  BY <1>3, Quiet, UnlinkedType
<1> QED BY <1>1, <1>2, <1>3, <1>4, <1>5, Quiet, KillIssued

LEMMA ForgetStep ==
  ASSUME ChainInv, NEW h \in Slots, Forget(h)
  PROVE  ChainInv'
<1> DEFINE job == [jobs[h] EXCEPT !.pc = "bury"]
<1>1. job \in Job /\ job.pc = "bury" /\ job.snap = jobs[h].snap
  BY StepJob DEF Pc
<1>2. Set(h, job) /\ jobs[h].snap \subseteq Issued
  BY Quiet DEF Forget, Step, At, JobOK
<1>3. members' \subseteq members /\ UNCHANGED <<live, grace, pred, root, floor, now, dbFloor, highFloor, handed, swept>>
  BY DEF Forget, user, history
<1> HIDE DEF job
<1>4. JobOK(job, Issued, live) /\ ~Holds(job)
  BY <1>1, <1>2 DEF JobOK, Holds
<1> QED BY <1>1, <1>2, <1>3, <1>4, Quiet, KillIssued

LEMMA BuryStep ==
  ASSUME ChainInv, NEW h \in Slots, Bury(h) \/ Die(h)
  PROVE  ChainInv'
<1>1. /\ UNCHANGED <<live, grace, pred, members, floor, root, now, dbFloor, highFloor, handed, swept>>
      /\ Set(h, IdleJob)
  BY DEF Bury, Die, user, keys, history
<1> QED BY <1>1, Quiet, IdleOK, IdleType, KillIssued

\* Steps of no handler: a grace window runs out, Redis is lost, a user comes back.
LEMMA WorldStep ==
  ASSUME ChainInv, GraceExpires \/ Flush \/ Reactivate \/ UNCHANGED vars
  PROVE  ChainInv'
<1>1. UNCHANGED <<jobs, root, now, handed, swept, dbFloor, highFloor>>
  BY DEF GraceExpires, Flush, Reactivate, vars, user, history
<1>2. /\ live' \subseteq live /\ members' \subseteq members /\ floor' \in Nat
      /\ live' = live \/ live' = {}
  BY Quiet DEF GraceExpires, Flush, Reactivate, vars, keys
<1>3. grace' \in [Jtis -> Issued \cup {NoJti}] /\ pred' \in [Jtis -> Issued \cup {NoJti}]
  <2>1. CASE GraceExpires
    BY <2>1, Quiet, UnlinkedType DEF GraceExpires
  <2>2. CASE Flush
    BY <2>2, Quiet DEF Flush, NoLink
  <2>3. CASE Reactivate \/ UNCHANGED vars
    BY <2>3, Quiet DEF Reactivate, vars, keys
  <2> QED BY <2>1, <2>2, <2>3
<1>4. Issued' = Issued
  BY <1>1 DEF Issued
<1>5. ASSUME NEW g \in Slots PROVE JobOK(jobs[g], Issued, live')
  BY <1>2, Quiet DEF JobOK, Holds
<1>6. TypeInv'
  BY <1>1, <1>2, <1>3 DEF ChainInv, TypeInv, Link, Issued
<1> QED BY <1>1, <1>2, <1>3, <1>4, <1>5, <1>6 DEF ChainInv, Holds

LEMMA ChainStep ==
  ASSUME ChainInv, [Next]_vars
  PROVE  ChainInv'
<1>1. CASE Login \/ Refresh \/ Logout \/ Revoke
  BY <1>1, StartStep
<1>2. CASE \E h \in Slots : Run(h) \/ Die(h)
  BY <1>2, MintStep, EnrolStep, RotateStep, DropStep, HandStep, SweepStep, EraseStep, RaiseStep,
     CommitStep, FindStep, ClearStep, ForgetStep, BuryStep DEF Run
<1>3. CASE Reactivate \/ GraceExpires \/ Flush \/ UNCHANGED vars
  BY <1>3, WorldStep
<1> QED BY <1>1, <1>2, <1>3 DEF Next

\* Spec => []ChainInv
LEMMA ChainsKept == Spec => []ChainInv
<1>1. ChainInv /\ [Next]_vars => ChainInv'
  BY ChainStep
<1> QED BY InitChain, <1>1, PTL DEF Spec

-----------------------------------------------------------------------------
(* What a step makes of a handler's job                                    *)

Others(h) == \A g \in Slots \ {h} : jobs'[g] = jobs[g]

\* The steps of handler h, with what each leaves in its job.
LEMMA JobAfter ==
  ASSUME ChainInv, NEW h \in Slots
  PROVE  /\ Mint(h) => \E s \in Unminted :
              /\ Others(h) /\ live' = live \cup {s} /\ jobs[h].pc = "mint"
              /\ jobs'[h].new = s /\ jobs'[h].jti = jobs[h].jti /\ jobs'[h].out = jobs[h].out
              /\ \/ /\ jobs[h].op = "login" /\ jobs'[h].pc = "enrol"
                    /\ root' = [root EXCEPT ![s] = s]
                 \/ /\ jobs[h].op # "login" /\ jobs'[h].pc = "rotate" /\ root' = root
         /\ Enrol(h) => /\ Others(h) /\ jobs[h].pc = "enrol" /\ jobs'[h].pc = "answer"
                        /\ jobs'[h].new = jobs[h].new /\ jobs'[h].out = jobs[h].out
         /\ Rotate(h) /\ jobs[h].jti \in live =>
              /\ Others(h) /\ jobs[h].pc = "rotate" /\ jobs'[h].pc = "answer"
              /\ jobs'[h].new = jobs[h].new /\ jobs'[h].out = jobs[h].out
         /\ Rotate(h) /\ jobs[h].jti \notin live =>
              /\ Others(h) /\ jobs[h].pc = "rotate" /\ jobs'[h].pc = "drop"
              /\ jobs'[h].new = jobs[h].new
              /\ \/ jobs'[h].jti = NoJti /\ jobs'[h].out = "logged_out" /\ jobs[h].jti \in tomb
                 \/ /\ jobs'[h].jti = grace[jobs[h].jti] /\ jobs[h].jti \notin tomb
                    /\ jobs'[h].out = IF grace[jobs[h].jti] # NoJti THEN "grace" ELSE "replayed"
         /\ Drop(h) =>
              /\ Others(h) /\ jobs[h].pc = "drop"
              /\ \/ /\ jobs[h].out = "grace" /\ jobs'[h].pc = "answer" /\ jobs'[h].new = jobs[h].jti
                    /\ jobs'[h].out = "grace"
                 \/ jobs[h].out = "replayed" /\ jobs'[h].pc = "sweep" /\ jobs'[h].out = "replayed"
                 \/ jobs'[h] = IdleJob
         /\ Hand(h) \/ Commit(h) \/ Bury(h) \/ Die(h) => Others(h) /\ jobs'[h] = IdleJob
         /\ Sweep(h) => /\ Others(h) /\ jobs[h].pc = "sweep" /\ jobs'[h].pc = "erase"
                        /\ jobs'[h].snap = members /\ jobs'[h].out = jobs[h].out
                        /\ jobs'[h].before = {root[j] : j \in handed}
         /\ Erase(h) => /\ Others(h) /\ jobs[h].pc = "erase" /\ jobs'[h].pc = "raise"
                        /\ jobs'[h].before = jobs[h].before /\ jobs'[h].out = jobs[h].out
         /\ Raise(h) => /\ Others(h) /\ jobs[h].pc = "raise" /\ jobs'[h].pc = "commit"
                        /\ jobs'[h].before = jobs[h].before /\ jobs'[h].out = jobs[h].out
         /\ Find(h) => /\ Others(h) /\ jobs[h].pc = "find" /\ jobs'[h].pc = "clear"
                       /\ jobs'[h].jti = jobs[h].jti /\ jobs'[h].out = jobs[h].out
                       /\ jobs'[h].snap = {jobs[h].jti, pred[jobs[h].jti]} \ {NoJti}
         /\ Clear(h) => /\ Others(h) /\ jobs[h].pc = "clear" /\ jobs'[h].pc = "forget"
                        /\ jobs'[h].jti = jobs[h].jti /\ jobs'[h].snap = jobs[h].snap
                        /\ jobs'[h].out = jobs[h].out
         /\ Forget(h) => /\ Others(h) /\ jobs[h].pc = "forget" /\ jobs'[h].pc = "bury"
                         /\ jobs'[h].jti = jobs[h].jti /\ jobs'[h].snap = jobs[h].snap
                         /\ jobs'[h].out = jobs[h].out
<1> DEFINE old == jobs[h]
<1>1. jobs \in [Slots -> Job] /\ old \in Job
  BY Quiet DEF ChainInv, TypeInv
<1>2. ASSUME NEW job, Set(h, job)
      PROVE  jobs'[h] = job /\ Others(h)
  BY <1>1, <1>2 DEF Set, Others
<1>3. Mint(h) => \E s \in Unminted :
        /\ Others(h) /\ live' = live \cup {s} /\ old.pc = "mint"
        /\ jobs'[h].new = s /\ jobs'[h].jti = old.jti /\ jobs'[h].out = old.out
        /\ \/ /\ old.op = "login" /\ jobs'[h].pc = "enrol"
              /\ root' = [root EXCEPT ![s] = s]
           \/ /\ old.op # "login" /\ jobs'[h].pc = "rotate" /\ root' = root
  <2> SUFFICES ASSUME Mint(h)
               PROVE  \E s \in Unminted :
        /\ Others(h) /\ live' = live \cup {s} /\ old.pc = "mint"
        /\ jobs'[h].new = s /\ jobs'[h].jti = old.jti /\ jobs'[h].out = old.out
        /\ \/ /\ old.op = "login" /\ jobs'[h].pc = "enrol"
              /\ root' = [root EXCEPT ![s] = s]
           \/ /\ old.op # "login" /\ jobs'[h].pc = "rotate" /\ root' = root
    OBVIOUS
  <2>1. PICK s \in Unminted, pc \in {"enrol", "rotate"} :
         /\ live' = live \cup {s} /\ Set(h, [old EXCEPT !.pc = pc, !.new = s])
         /\ IF pc = "enrol" THEN old.op = "login" /\ root' = [root EXCEPT ![s] = s]
                            ELSE old.op # "login" /\ root' = root
    BY DEF Mint
  <2>2. old.pc = "mint"
    BY DEF Mint, At
  <2> DEFINE job == [old EXCEPT !.pc = pc, !.new = s]
  <2>3. Set(h, job)
    BY <2>1
  <2> HIDE DEF old
  <2>4. job.pc = pc /\ job.jti = old.jti /\ job.new = s /\ job.out = old.out
    BY <1>1 DEF Job
  <2> HIDE DEF job
  <2> QED BY <1>2, <2>1, <2>2, <2>3, <2>4
<1>4. Enrol(h) =>
        /\ Others(h) /\ old.pc = "enrol"
        /\ jobs'[h].pc = "answer" /\ jobs'[h].new = old.new /\ jobs'[h].out = old.out
  <2> SUFFICES ASSUME Enrol(h)
               PROVE  Others(h) /\ old.pc = "enrol" /\ jobs'[h].pc = "answer" /\ jobs'[h].new = old.new /\ jobs'[h].out = old.out
    OBVIOUS
  <2> DEFINE job == [old EXCEPT !.pc = "answer"]
  <2>1. Set(h, job) /\ old.pc = "enrol"
    BY DEF Enrol, At, Step
  <2> HIDE DEF old
  <2>2. job.pc = "answer" /\ job.new = old.new /\ job.out = old.out
    BY <1>1 DEF Job
  <2> HIDE DEF job
  <2> QED BY <1>2, <2>1, <2>2
<1>5. Rotate(h) /\ old.jti \in live =>
        /\ Others(h) /\ old.pc = "rotate"
        /\ jobs'[h].pc = "answer" /\ jobs'[h].new = old.new /\ jobs'[h].out = old.out
  <2> SUFFICES ASSUME Rotate(h) /\ old.jti \in live
               PROVE  Others(h) /\ old.pc = "rotate" /\ jobs'[h].pc = "answer" /\ jobs'[h].new = old.new /\ jobs'[h].out = old.out
    OBVIOUS
  <2> DEFINE job == [old EXCEPT !.pc = "answer"]
  <2>1. Set(h, job) /\ old.pc = "rotate"
    BY DEF Rotate, At, Step
  <2> HIDE DEF old
  <2>2. job.pc = "answer" /\ job.new = old.new /\ job.out = old.out
    BY <1>1 DEF Job
  <2> HIDE DEF job
  <2> QED BY <1>2, <2>1, <2>2
<1>6. Rotate(h) /\ old.jti \notin live =>
        /\ Others(h) /\ old.pc = "rotate" /\ jobs'[h].pc = "drop" /\ jobs'[h].new = old.new
        /\ \/ jobs'[h].jti = NoJti /\ jobs'[h].out = "logged_out" /\ old.jti \in tomb
           \/ /\ jobs'[h].jti = grace[old.jti] /\ old.jti \notin tomb
              /\ jobs'[h].out = IF grace[old.jti] # NoJti THEN "grace" ELSE "replayed"
  <2> SUFFICES ASSUME Rotate(h), old.jti \notin live
               PROVE
        /\ Others(h) /\ old.pc = "rotate" /\ jobs'[h].pc = "drop" /\ jobs'[h].new = old.new
        /\ \/ jobs'[h].jti = NoJti /\ jobs'[h].out = "logged_out" /\ old.jti \in tomb
           \/ /\ jobs'[h].jti = grace[old.jti] /\ old.jti \notin tomb
              /\ jobs'[h].out = IF grace[old.jti] # NoJti THEN "grace" ELSE "replayed"
    OBVIOUS
  <2> DEFINE out == IF old.jti \in tomb THEN "logged_out"
                    ELSE IF grace[old.jti] # NoJti THEN "grace" ELSE "replayed"
             jti == IF old.jti \notin tomb THEN grace[old.jti] ELSE NoJti
             job == [old EXCEPT !.pc = "drop", !.out = out, !.jti = jti]
  <2>1. Set(h, job) /\ old.pc = "rotate"
    BY DEF Rotate, At
  <2>2. \/ jti = NoJti /\ out = "logged_out" /\ old.jti \in tomb
        \/ /\ jti = grace[old.jti] /\ old.jti \notin tomb
           /\ out = IF grace[old.jti] # NoJti THEN "grace" ELSE "replayed"
    OBVIOUS
  <2> HIDE DEF old, out, jti
  <2>3. job.pc = "drop" /\ job.jti = jti /\ job.new = old.new /\ job.out = out
    BY <1>1 DEF Job
  <2> HIDE DEF job
  <2> QED BY <1>2, <2>1, <2>2, <2>3
<1>7. Drop(h) =>
        /\ Others(h) /\ old.pc = "drop"
        /\ \/ /\ old.out = "grace" /\ jobs'[h].pc = "answer" /\ jobs'[h].new = old.jti
              /\ jobs'[h].out = "grace"
           \/ old.out = "replayed" /\ jobs'[h].pc = "sweep" /\ jobs'[h].out = "replayed"
           \/ jobs'[h] = IdleJob
  <2> SUFFICES ASSUME Drop(h)
               PROVE
        /\ Others(h) /\ old.pc = "drop"
        /\ \/ /\ old.out = "grace" /\ jobs'[h].pc = "answer" /\ jobs'[h].new = old.jti
              /\ jobs'[h].out = "grace"
           \/ old.out = "replayed" /\ jobs'[h].pc = "sweep" /\ jobs'[h].out = "replayed"
           \/ jobs'[h] = IdleJob
    OBVIOUS
  <2> DEFINE answer == [old EXCEPT !.pc = "answer", !.new = old.jti]
             revoke == [old EXCEPT !.pc = "sweep", !.new = NoJti]
  <2>1. /\ old.pc = "drop"
        /\ \/ old.out = "grace" /\ Set(h, answer)
           \/ old.out = "replayed" /\ Set(h, revoke)
           \/ Set(h, IdleJob)
    BY DEF Drop, At
  <2> HIDE DEF old
  <2>2. answer.pc = "answer" /\ answer.new = old.jti /\ answer.out = old.out
    BY <1>1 DEF Job
  <2>3. revoke.pc = "sweep" /\ revoke.out = old.out
    BY <1>1 DEF Job
  <2> HIDE DEF answer, revoke
  <2> QED BY <1>2, <2>1, <2>2, <2>3
<1>8. Hand(h) \/ Commit(h) \/ Bury(h) \/ Die(h) => Others(h) /\ jobs'[h] = IdleJob
  BY <1>2 DEF Hand, Commit, Bury, Die
<1>9. Sweep(h) =>
        /\ Others(h) /\ old.pc = "sweep"
        /\ jobs'[h].pc = "erase" /\ jobs'[h].snap = members /\ jobs'[h].out = old.out
        /\ jobs'[h].before = {root[j] : j \in handed}
  <2> SUFFICES ASSUME Sweep(h)
               PROVE  /\ Others(h) /\ old.pc = "sweep"
                      /\ jobs'[h].pc = "erase" /\ jobs'[h].snap = members
                      /\ jobs'[h].out = old.out /\ jobs'[h].before = {root[j] : j \in handed}
    OBVIOUS
  <2> DEFINE roots == {root[j] : j \in handed}
             time == now + 1
             job == [old EXCEPT !.pc = "erase", !.snap = members, !.floor = time, !.before = roots]
  <2>1. Set(h, job) /\ old.pc = "sweep"
    BY DEF Sweep, At
  <2> HIDE DEF old, time
  <2>2. job.pc = "erase" /\ job.snap = members /\ job.out = old.out /\ job.before = roots
    <3> HIDE DEF roots
    <3> QED BY <1>1 DEF Job
  <2> HIDE DEF job
  <2> QED BY <1>2, <2>1, <2>2
<1>10. Erase(h) =>
        /\ Others(h) /\ old.pc = "erase"
        /\ jobs'[h].pc = "raise" /\ jobs'[h].before = old.before /\ jobs'[h].out = old.out
  <2> SUFFICES ASSUME Erase(h)
               PROVE  Others(h) /\ old.pc = "erase" /\ jobs'[h].pc = "raise" /\ jobs'[h].before = old.before /\ jobs'[h].out = old.out
    OBVIOUS
  <2> DEFINE job == [old EXCEPT !.pc = "raise"]
  <2>1. Set(h, job) /\ old.pc = "erase"
    BY DEF Erase, At, Step
  <2> HIDE DEF old
  <2>2. job.pc = "raise" /\ job.before = old.before /\ job.out = old.out
    BY <1>1 DEF Job
  <2> HIDE DEF job
  <2> QED BY <1>2, <2>1, <2>2
<1>11. Raise(h) =>
        /\ Others(h) /\ old.pc = "raise"
        /\ jobs'[h].pc = "commit" /\ jobs'[h].before = old.before /\ jobs'[h].out = old.out
  <2> SUFFICES ASSUME Raise(h)
               PROVE  Others(h) /\ old.pc = "raise" /\ jobs'[h].pc = "commit" /\ jobs'[h].before = old.before /\ jobs'[h].out = old.out
    OBVIOUS
  <2> DEFINE job == [old EXCEPT !.pc = "commit"]
  <2>1. Set(h, job) /\ old.pc = "raise"
    BY DEF Raise, At, Step
  <2> HIDE DEF old
  <2>2. job.pc = "commit" /\ job.before = old.before /\ job.out = old.out
    BY <1>1 DEF Job
  <2> HIDE DEF job
  <2> QED BY <1>2, <2>1, <2>2
<1>12. Find(h) =>
        /\ Others(h) /\ old.pc = "find"
        /\ jobs'[h].pc = "clear" /\ jobs'[h].jti = old.jti /\ jobs'[h].out = old.out
        /\ jobs'[h].snap = {old.jti, pred[old.jti]} \ {NoJti}
  <2> SUFFICES ASSUME Find(h)
               PROVE  /\ Others(h) /\ old.pc = "find"
                      /\ jobs'[h].pc = "clear" /\ jobs'[h].jti = old.jti
                      /\ jobs'[h].out = old.out /\ jobs'[h].snap = {old.jti, pred[old.jti]} \ {NoJti}
    OBVIOUS
  <2> DEFINE snap == {old.jti, pred[old.jti]} \ {NoJti}
             job == [old EXCEPT !.pc = "clear", !.snap = snap]
  <2>1. Set(h, job) /\ old.pc = "find"
    BY DEF Find, At
  <2> HIDE DEF old
  <2>2. job.pc = "clear" /\ job.jti = old.jti /\ job.snap = snap /\ job.out = old.out
    <3> HIDE DEF snap
    <3> QED BY <1>1 DEF Job
  <2> HIDE DEF job
  <2> QED BY <1>2, <2>1, <2>2
<1>13. Clear(h) =>
        /\ Others(h) /\ old.pc = "clear"
        /\ jobs'[h].pc = "forget" /\ jobs'[h].jti = old.jti /\ jobs'[h].snap = old.snap /\ jobs'[h].out = old.out
  <2> SUFFICES ASSUME Clear(h)
               PROVE  Others(h) /\ old.pc = "clear" /\ jobs'[h].pc = "forget" /\ jobs'[h].jti = old.jti /\ jobs'[h].snap = old.snap /\ jobs'[h].out = old.out
    OBVIOUS
  <2> DEFINE job == [old EXCEPT !.pc = "forget"]
  <2>1. Set(h, job) /\ old.pc = "clear"
    BY DEF Clear, At, Step
  <2> HIDE DEF old
  <2>2. job.pc = "forget" /\ job.jti = old.jti /\ job.snap = old.snap /\ job.out = old.out
    BY <1>1 DEF Job
  <2> HIDE DEF job
  <2> QED BY <1>2, <2>1, <2>2
<1>14. Forget(h) =>
        /\ Others(h) /\ old.pc = "forget"
        /\ jobs'[h].pc = "bury" /\ jobs'[h].jti = old.jti /\ jobs'[h].snap = old.snap /\ jobs'[h].out = old.out
  <2> SUFFICES ASSUME Forget(h)
               PROVE  Others(h) /\ old.pc = "forget" /\ jobs'[h].pc = "bury" /\ jobs'[h].jti = old.jti /\ jobs'[h].snap = old.snap /\ jobs'[h].out = old.out
    OBVIOUS
  <2> DEFINE job == [old EXCEPT !.pc = "bury"]
  <2>1. Set(h, job) /\ old.pc = "forget"
    BY DEF Forget, At, Step
  <2> HIDE DEF old
  <2>2. job.pc = "bury" /\ job.jti = old.jti /\ job.snap = old.snap /\ job.out = old.out
    BY <1>1 DEF Job
  <2> HIDE DEF job
  <2> QED BY <1>2, <2>1, <2>2
<1> QED BY <1>3, <1>4, <1>5, <1>6, <1>7, <1>8, <1>9, <1>10, <1>11, <1>12, <1>13, <1>14 DEF old

-----------------------------------------------------------------------------
(* Refinement                                                              *)

\* A step that issues nothing ends, for the chains, the tokens it deletes.
LEMMA EndStep ==
  ASSUME ChainInv, root' = root, live' \subseteq live
  PROVE  Chains!Next
<1>1. live \ live' \in SUBSET Jtis
  BY Quiet
<1>2. Chains!End(live \ live')
  BY DEF Chains!End, Usable
<1> QED BY <1>1, <1>2 DEF Chains!Next

LEMMA StepMaps ==
  ASSUME ChainInv, [Next]_vars
  PROVE  Chains!Next
<1>1. ASSUME NEW h \in Slots, Mint(h)
      PROVE  Chains!Next
  <2> PICK s \in Unminted :
         /\ live' = live \cup {s}
         /\ IF jobs[h].op = "login" THEN root' = [root EXCEPT ![s] = s] ELSE root' = root
    BY <1>1 DEF Mint
  <2>1. s \in Jtis /\ s # NoJti /\ root[s] = NoJti
    BY ConstantsOK DEF Unminted
  <2>2. CASE jobs[h].op = "login"
    <3>1. Usable' = Usable \cup {s}
      BY <2>1, <2>2, Quiet DEF Usable, Link
    <3> QED BY <2>1, <2>2, <3>1 DEF Chains!Open, Chains!Fresh, Chains!Next
  <2>3. CASE jobs[h].op # "login"
    <3>1. Usable' = Usable \ {}
      BY <2>1, <2>3, Quiet DEF Usable, Link
    <3>2. Chains!End({})
      BY <2>3, <3>1 DEF Chains!End
    <3> QED BY <3>2 DEF Chains!Next
  <2> QED BY <2>2, <2>3
<1>2. ASSUME NEW h \in Slots, Rotate(h)
      PROVE  Chains!Next
  <2> DEFINE j == jobs[h].jti
             s == jobs[h].new
  <2>1. CASE j \in live
    <3>1. j \in Issued /\ s \in Jtis \ Issued /\ s \in live
      BY <1>2, <2>1, Quiet DEF Rotate, At, JobOK, Holds
    <3>2. live' = live \ {j} /\ root' = [root EXCEPT ![s] = root[j]]
      BY <1>2, <2>1 DEF Rotate, Consume
    <3> HIDE DEF j, s
    <3>3. j \in Usable /\ root[s] = NoJti /\ Usable' = (Usable \ {j}) \cup {s}
      BY <2>1, <3>1, <3>2, Quiet DEF Usable, Link, Issued
    <3> QED BY <3>1, <3>2, <3>3 DEF Chains!Exchange, Chains!Fresh, Chains!Next, Issued
  <2>2. CASE j \notin live
    <3>1. root' = root /\ live' = live
      BY <1>2, <2>2 DEF Rotate
    <3> QED BY <3>1, EndStep
  <2> QED BY <2>1, <2>2
<1>3. CASE Login \/ Refresh \/ Logout \/ Revoke \/ Reactivate \/ GraceExpires \/ Flush \/ UNCHANGED vars
  <2>1. root' = root
    BY <1>3 DEF Login, Refresh, Logout, Revoke, Reactivate, GraceExpires, Flush, vars, history
  <2>2. live' \subseteq live
    BY <1>3 DEF Login, Refresh, Logout, Revoke, Reactivate, GraceExpires, Flush, vars, keys
  <2> QED BY <2>1, <2>2, EndStep
<1>4. ASSUME NEW h \in Slots,
             \/ Enrol(h) \/ Drop(h) \/ Hand(h) \/ Sweep(h) \/ Erase(h) \/ Raise(h) \/ Commit(h)
             \/ Find(h) \/ Clear(h) \/ Forget(h) \/ Bury(h) \/ Die(h)
      PROVE  Chains!Next
  <2>1. root' = root
    BY <1>4 DEF Enrol, Drop, Hand, Sweep, Erase, Raise, Commit, Find, Clear, Forget, Bury, Die, history
  <2>2. live' \subseteq live
    BY <1>4 DEF Enrol, Drop, Hand, Sweep, Erase, Raise, Commit, Find, Clear, Forget, Bury, Die, keys
  <2> QED BY <2>1, <2>2, EndStep
<1> QED BY <1>1, <1>2, <1>3, <1>4 DEF Next, Run

\* The steps of rotate_refresh_token, issue_refresh_token, revoke_user_sessions and
\* retire_refresh_token, in every order, with every fault, are those of token chains.
THEOREM TokensMoveOnceHolds == Spec => TokensMoveOnce
<1>1. Init => Chains!Init
  BY DEF Init, Chains!Init, Usable, NoLink
<1>2. ChainInv /\ [Next]_vars => [Chains!Next]_(Chains!vars)
  BY StepMaps
<1> QED BY <1>1, <1>2, ChainsKept, PTL DEF Spec, TokensMoveOnce, Chains!Spec

-----------------------------------------------------------------------------
(* What follows for chains                                                 *)

\* A chain's first token is in it, and a chain has one usable token at most.
OneChain ==
  /\ Chains!OneUsablePerChain
  /\ \A k \in Jtis : root[k] # NoJti => root[root[k]] # NoJti

LEMMA OneChainStep ==
  ASSUME ChainInv, OneChain, Chains!Next
  PROVE  OneChain'
<1>0. root \in [Jtis -> Jtis \cup {NoJti}] /\ Usable \subseteq Jtis /\ NoJti \notin Jtis
      /\ \A k \in Usable : root[k] # NoJti
  BY ConstantsOK, Quiet DEF Usable, Link
<1>1. ASSUME NEW j \in Jtis, Chains!Open(j) PROVE OneChain'
  <2>1. root[j] = NoJti /\ root' = [root EXCEPT ![j] = j] /\ Usable' = Usable \cup {j}
    BY <1>1 DEF Chains!Open, Chains!Fresh
  <2>2. \A k \in Jtis : root[k] # j
    BY <1>0, <2>1 DEF OneChain
  <2> QED BY <1>0, <2>1, <2>2 DEF OneChain, Chains!OneUsablePerChain
<1>2. ASSUME NEW j \in Jtis, NEW s \in Jtis, Chains!Exchange(j, s) PROVE OneChain'
  <2>1. /\ j \in Usable /\ root[s] = NoJti /\ root' = [root EXCEPT ![s] = root[j]]
        /\ Usable' = (Usable \ {j}) \cup {s}
    BY <1>2 DEF Chains!Exchange, Chains!Fresh
  <2>2. \A k \in Jtis : root[k] # s
    BY <1>0, <2>1 DEF OneChain
  <2> QED BY <1>0, <2>1, <2>2 DEF OneChain, Chains!OneUsablePerChain
<1>3. ASSUME NEW S \in SUBSET Jtis, Chains!End(S) PROVE OneChain'
  BY <1>3 DEF Chains!End, OneChain, Chains!OneUsablePerChain
<1> QED BY <1>1, <1>2, <1>3 DEF Chains!Next

\* Two presentations of a token never leave its chain with two live tokens.
THEOREM OneUsablePerChainHolds == Spec => []OneUsablePerChain
<1>1. Init => OneChain
  BY DEF Init, OneChain, Chains!OneUsablePerChain, Usable, NoLink
<1>2. ChainInv /\ OneChain /\ [Next]_vars => OneChain'
  BY StepMaps, OneChainStep
<1>3. OneChain => OneUsablePerChain
  BY DEF OneChain, OneUsablePerChain
<1> QED BY <1>1, <1>2, <1>3, ChainsKept, PTL DEF Spec

-----------------------------------------------------------------------------
(* What a revocation swept                                                 *)

LEMMA SweptStep ==
  ASSUME ChainInv, SweptStaysDead, [Next]_vars
  PROVE  SweptStaysDead'
<1>1. ASSUME NEW h \in Slots, Mint(h) PROVE SweptStaysDead'
  <2>1. PICK s \in Unminted : live' = live \cup {s}
    BY <1>1 DEF Mint
  <2>2. s \notin Issued /\ swept' = swept /\ grace' = grace
    BY <1>1 DEF Unminted, Issued, Mint
  <2> QED BY <2>1, <2>2, Quiet DEF SweptStaysDead
<1>2. ASSUME NEW h \in Slots, Rotate(h) PROVE SweptStaysDead'
  <2>1. swept' = swept /\ swept \subseteq Jtis
    BY <1>2, Quiet DEF Rotate
  <2>2. CASE jobs[h].jti \in live
    <3>1. live' = live \ {jobs[h].jti} /\ grace' = [grace EXCEPT ![jobs[h].jti] = jobs[h].new]
      BY <1>2, <2>2 DEF Rotate, Consume
    <3> QED BY <2>1, <2>2, <3>1, Quiet DEF SweptStaysDead
  <2>3. CASE jobs[h].jti \notin live
    <3>1. live' = live /\ grace' = grace
      BY <1>2, <2>3 DEF Rotate
    <3> QED BY <2>1, <3>1 DEF SweptStaysDead
  <2> QED BY <2>2, <2>3
<1>3. ASSUME NEW h \in Slots, Erase(h) PROVE SweptStaysDead'
  <2>1. /\ live' = live \ jobs[h].snap /\ swept' = swept \cup jobs[h].snap
        /\ grace' = Unlinked(grace, jobs[h].snap) /\ jobs[h].snap \subseteq Jtis
    BY <1>3, Quiet DEF Erase, Job
  <2> QED BY <2>1, Quiet DEF SweptStaysDead, Unlinked
<1>4. ASSUME NEW h \in Slots, Clear(h) PROVE SweptStaysDead'
  <2>1. /\ live' = live \ {jobs[h].jti} /\ swept' = swept
        /\ grace' = Unlinked(grace, jobs[h].snap)
    BY <1>4 DEF Clear, history
  <2> QED BY <2>1, Quiet DEF SweptStaysDead, Unlinked
<1>5. ASSUME NEW h \in Slots,
             \/ Enrol(h) \/ Drop(h) \/ Hand(h) \/ Sweep(h) \/ Raise(h) \/ Commit(h)
             \/ Find(h) \/ Forget(h) \/ Bury(h) \/ Die(h)
      PROVE  SweptStaysDead'
  <2>1. swept' = swept
    BY <1>5 DEF Enrol, Drop, Hand, Sweep, Raise, Commit, Find, Forget, Bury, Die, history
  <2>2. live' \subseteq live /\ grace' = grace
    BY <1>5 DEF Enrol, Drop, Hand, Sweep, Raise, Commit, Find, Forget, Bury, Die, keys
  <2> QED BY <2>1, <2>2 DEF SweptStaysDead
<1>6. CASE Flush \/ GraceExpires
  <2>1. swept' = swept /\ live' \subseteq live
    BY <1>6 DEF Flush, GraceExpires, history
  <2>2. \A j \in Jtis : grace[j] = NoJti => grace'[j] = NoJti
    BY <1>6 DEF Flush, GraceExpires, NoLink, Unlinked
  <2> QED BY <2>1, <2>2, Quiet DEF SweptStaysDead
<1>7. CASE Login \/ Refresh \/ Logout \/ Revoke \/ Reactivate \/ UNCHANGED vars
  BY <1>7 DEF Login, Refresh, Logout, Revoke, Reactivate, vars, keys, history, SweptStaysDead
<1> QED BY <1>1, <1>2, <1>3, <1>4, <1>5, <1>6, <1>7 DEF Next, Run

\* What a revocation deleted neither comes back nor answers with a successor, though
\* a rotation or a sign-out of the same token was under way.
THEOREM SweptStaysDeadHolds == Spec => []SweptStaysDead
<1>1. Init => SweptStaysDead
  BY DEF Init, SweptStaysDead
<1>2. ChainInv /\ SweptStaysDead /\ [Next]_vars => SweptStaysDead'
  BY SweptStep
<1> QED BY <1>1, <1>2, ChainsKept, PTL DEF Spec

-----------------------------------------------------------------------------
(* The durable floor                                                       *)

Revoking(job) == job.pc \in {"erase", "raise", "commit"}

\* While revocations take turns, the durable floor is the highest committed, and
\* the one under way will commit no lower a floor.
FloorInv ==
  ~crossed =>
    /\ dbFloor = highFloor /\ highFloor <= now
    /\ \A h \in Slots : Revoking(jobs[h]) => highFloor <= jobs[h].floor /\ jobs[h].floor <= now
    /\ \A g, h \in Slots : Revoking(jobs[g]) /\ Revoking(jobs[h]) => g = h

\* A step of one handler that neither begins a revocation nor ends one.
LEMMA SameFloors ==
  ASSUME ChainInv, FloorInv, NEW h \in Slots, NEW job, Set(h, job),
         Revoking(job) => Revoking(jobs[h]) /\ job.floor = jobs[h].floor,
         UNCHANGED <<crossed, dbFloor, highFloor, now>>
  PROVE  FloorInv'
<1>1. jobs'[h] = job /\ \A g \in Slots \ {h} : jobs'[g] = jobs[g]
  BY DEF ChainInv, TypeInv, Set
<1>2. \A g \in Slots : Revoking(jobs'[g]) => Revoking(jobs[g]) /\ jobs'[g].floor = jobs[g].floor
  BY <1>1
<1> QED BY <1>2 DEF FloorInv, Revoking

\* The same of a step of a handler that revokes nothing when it is done.
LEMMA NotRevoking ==
  ASSUME ChainInv, FloorInv, NEW h \in Slots, NEW job, Set(h, job), ~Revoking(job),
         UNCHANGED <<crossed, dbFloor, highFloor, now>>
  PROVE  FloorInv'
BY SameFloors

LEMMA StepFloor ==
  ASSUME ChainInv, NEW h \in Slots, NEW pc \in Pc
  PROVE  [jobs[h] EXCEPT !.pc = pc].pc = pc /\ [jobs[h] EXCEPT !.pc = pc].floor = jobs[h].floor
<1> DEFINE old == jobs[h]
<1>1. old \in Job
  BY Quiet
<1> HIDE DEF old
<1>2. [old EXCEPT !.pc = pc].pc = pc /\ [old EXCEPT !.pc = pc].floor = old.floor
  BY <1>1 DEF Job
<1> QED BY <1>2 DEF old

LEMMA FloorStep ==
  ASSUME ChainInv, FloorInv, [Next]_vars
  PROVE  FloorInv'
<1>1. CASE Login \/ Refresh \/ Logout \/ Revoke
  <2>1. UNCHANGED <<crossed, dbFloor, highFloor, now>>
    BY <1>1 DEF Login, Refresh, Logout, Revoke, user, history
  <2>2. PICK op \in {"login", "refresh", "logout", "revoke"}, pc \in {"mint", "find", "sweep"},
             jti \in Jtis \cup {NoJti} : Start(op, pc, jti)
    BY <1>1, Quiet DEF Login, Refresh, Logout, Revoke
  <2>3. PICK h \in Slots : Set(h, [IdleJob EXCEPT !.op = op, !.pc = pc, !.jti = jti])
    BY <2>2 DEF Start
  <2>4. ~Revoking([IdleJob EXCEPT !.op = op, !.pc = pc, !.jti = jti])
    BY DEF Revoking, IdleJob
  <2> QED BY <2>1, <2>3, <2>4, NotRevoking
<1>2. ASSUME NEW h \in Slots,
             Mint(h) \/ Enrol(h) \/ Rotate(h) \/ Drop(h) \/ Hand(h) \/ Find(h) \/ Clear(h)
             \/ Forget(h) \/ Bury(h) \/ Die(h)
      PROVE  FloorInv'
  <2>1. UNCHANGED <<crossed, dbFloor, highFloor, now>>
    BY <1>2 DEF Mint, Enrol, Rotate, Drop, Hand, Find, Clear, Forget, Bury, Die, user, history
  <2>2. Others(h) /\ jobs'[h].pc \notin {"erase", "raise", "commit"}
    <3>1. IdleJob.pc = "idle"
      BY DEF IdleJob
    <3>2. CASE Mint(h)
      BY <3>2, JobAfter
    <3>3. CASE Enrol(h) \/ Rotate(h) \/ Drop(h)
      BY <3>1, <3>3, JobAfter
    <3>4. CASE Hand(h) \/ Find(h) \/ Clear(h) \/ Forget(h) \/ Bury(h) \/ Die(h)
      BY <3>1, <3>4, JobAfter
    <3> QED BY <1>2, <3>2, <3>3, <3>4
  <2> QED BY <2>1, <2>2 DEF FloorInv, Revoking, Others
<1>3. ASSUME NEW h \in Slots, Sweep(h) PROVE FloorInv'
  <2> DEFINE old == jobs[h]
             roots == {root[j] : j \in handed}
             time == now + 1
             job == [old EXCEPT !.pc = "erase", !.snap = members, !.floor = time, !.before = roots]
  <2>1. /\ Set(h, job) /\ now' = time /\ UNCHANGED <<dbFloor, highFloor>>
        /\ ~crossed' => ~crossed /\ \A g \in Slots \ {h} : ~Revoking(jobs[g])
    BY <1>3 DEF Sweep, user, Revoking, At
  <2>2. old \in Job /\ jobs \in [Slots -> Job]
    BY Quiet DEF ChainInv, TypeInv
  <2> HIDE DEF old, roots, time
  <2>3. job.pc = "erase" /\ job.floor = time
    BY <2>2 DEF Job
  <2> HIDE DEF job
  <2>4. jobs'[h] = job /\ \A g \in Slots \ {h} : jobs'[g] = jobs[g]
    BY <2>1, <2>2 DEF Set
  <2>5. now \in Nat /\ highFloor \in Nat /\ time = now + 1
    BY Quiet DEF time
  <2>6. ~crossed => highFloor <= time /\ time <= time
    BY <2>5 DEF FloorInv
  <2> QED BY <2>1, <2>3, <2>4, <2>6 DEF FloorInv
<1>4. ASSUME NEW h \in Slots, Erase(h) \/ Raise(h) PROVE FloorInv'
  <2>1. UNCHANGED <<crossed, dbFloor, highFloor, now>>
    BY <1>4 DEF Erase, Raise, user, history
  <2>2. PICK pc \in {"raise", "commit"} : Set(h, [jobs[h] EXCEPT !.pc = pc])
    BY <1>4 DEF Erase, Raise, Step
  <2>3. Revoking(jobs[h])
    BY <1>4 DEF Erase, Raise, At, Revoking
  <2>4. [jobs[h] EXCEPT !.pc = pc].floor = jobs[h].floor
    BY StepFloor DEF Pc
  <2> QED BY <2>1, <2>2, <2>3, <2>4, SameFloors
<1>5. ASSUME NEW h \in Slots, Commit(h) PROVE FloorInv'
  <2>1. /\ Set(h, IdleJob) /\ dbFloor' = jobs[h].floor /\ UNCHANGED <<crossed, now>>
        /\ highFloor' = IF jobs[h].floor > highFloor THEN jobs[h].floor ELSE highFloor
        /\ Revoking(jobs[h])
    BY <1>5 DEF Commit, At, Revoking
  <2>2. jobs[h].floor \in Nat /\ highFloor \in Nat /\ now \in Nat
    BY Quiet DEF Job
  <2>3. ~crossed => highFloor' = jobs[h].floor /\ highFloor' <= now
    BY <2>1, <2>2 DEF FloorInv
  <2>4. jobs'[h] = IdleJob /\ \A g \in Slots \ {h} : jobs'[g] = jobs[g]
    BY <2>1 DEF ChainInv, TypeInv, Set
  <2>5. ~crossed => \A g \in Slots : ~Revoking(jobs'[g])
    BY <2>1, <2>4 DEF FloorInv, Revoking, IdleJob
  <2> QED BY <2>1, <2>3, <2>5 DEF FloorInv
<1>6. CASE Reactivate \/ GraceExpires \/ Flush \/ UNCHANGED vars
  BY <1>6 DEF Reactivate, GraceExpires, Flush, vars, user, history, FloorInv
<1> QED BY <1>1, <1>2, <1>3, <1>4, <1>5, <1>6 DEF Next, Run

\* The access tokens a committed revocation cut off stay cut off whatever Redis
\* loses, as long as revocations do not overlap.
THEOREM FloorMovesForwardHolds == Spec => []FloorMovesForward
<1>1. Init => FloorInv
  BY DEF Init, FloorInv, IdleJob, Revoking
<1>2. ChainInv /\ FloorInv /\ [Next]_vars => FloorInv'
  BY FloorStep
<1>3. ChainInv /\ FloorInv => FloorMovesForward
  BY Quiet DEF FloorInv, FloorMovesForward, Floor
<1> QED BY <1>1, <1>2, <1>3, ChainsKept, PTL DEF Spec

-----------------------------------------------------------------------------
(* The sets that reach a user's tokens                                     *)

\* A token that a client or a handler has been told of.
Shown(j) ==
  \/ j \in handed
  \/ \E k \in Jtis : grace[k] = j
  \/ \E h \in Slots : \/ jobs[h].pc \in {"mint", "rotate", "drop"} /\ jobs[h].jti = j
                      \/ jobs[h].pc = "answer" /\ jobs[h].new = j

\* A sign-in whose handler died, or has not come to enrol it.
Unknown(j) == ~Shown(j) /\ root[j] = j /\ \A k \in Jtis : root[k] = j => k = j

\* A usable token is where a revocation will find it, unless it was enrolled while
\* one was reading, or nobody knows it.
Enrolled == \A j \in Usable : j \in members \cup late \/ Unknown(j)

\* A token with a marker was exchanged.
Retired == \A j \in Jtis :
  /\ pred[j] # NoJti => pred[j] \notin live
  /\ grace[j] # NoJti => j \in Issued \ live

\* The markers of a rotation lead from one token to the other and back, and a
\* token that leads to a successor is enrolled.
TwoWays ==
  /\ \A j, k \in Jtis : grace[j] # NoJti /\ grace[j] = grace[k] => j = k
  /\ \A p \in Jtis \ late : grace[p] # NoJti => pred[grace[p]] = p /\ p \in members

\* What a revocation is yet to delete.
Revokes(job) ==
  /\ job.pc = "erase" =>
       /\ members \ job.snap \subseteq late
       /\ \A j \in Usable : root[j] \in job.before => j \in job.snap \cup late
  /\ job.pc \in {"raise", "commit"} => \A j \in Usable : root[j] \in job.before => j \in late
  /\ job.pc \in {"erase", "raise", "commit"} => job.before \subseteq Issued

\* A token that leads to j, but for those enrolled too late.
Leads(p, j) == p \in Jtis \ late /\ grace[p] = j

\* How far a sign-out has come.
SignsOut(job) ==
  /\ job.pc = "clear" => /\ job.jti \in job.snap /\ job.snap \cap live \subseteq {job.jti}
                         /\ \A p \in Jtis : Leads(p, job.jti) => p \in job.snap
  /\ job.pc \in {"forget", "bury"} =>
       /\ job.jti \in job.snap /\ job.jti \notin live /\ grace[job.jti] = NoJti
       /\ \A p \in Jtis : ~Leads(p, job.jti)
  /\ job.pc = "forget" => job.snap \cap live = {} /\ \A p \in job.snap : grace[p] = NoJti

\* What was signed out of, or revoked, is over.
Over ==
  /\ closed \subseteq Issued /\ ended \subseteq Issued
  /\ \A j \in Usable : root[j] \in ended => j \in late
  /\ \A j \in closed : j \notin live /\ grace[j] = NoJti /\ \A p \in Jtis : ~Leads(p, j)

SessionInv ==
  /\ \A j \in Jtis : Shown(j) => j \in Issued
  /\ Enrolled /\ Retired /\ TwoWays /\ Over
  /\ \A h \in Slots : Revokes(jobs[h]) /\ SignsOut(jobs[h])
  /\ \A k \in Jtis : root[k] # NoJti => root[root[k]] # NoJti

LEMMA InitSession == Init => SessionInv
<1> SUFFICES ASSUME Init PROVE SessionInv
  OBVIOUS
<1>1. \A h \in Slots : jobs[h].pc = "idle"
  BY DEF Init, IdleJob
<1>2. Enrolled /\ Retired /\ TwoWays /\ Over
  BY DEF Init, NoLink, Enrolled, Retired, TwoWays, Over, Usable
<1>3. \A h \in Slots : Revokes(jobs[h]) /\ SignsOut(jobs[h])
  BY <1>1 DEF Revokes, SignsOut
<1>4. \A j \in Jtis : ~Shown(j)
  BY <1>1, ConstantsOK DEF Init, NoLink, Shown
<1> QED BY <1>2, <1>3, <1>4 DEF SessionInv, Init, NoLink

\* The parts of SessionInv at one token or one job.
LEMMA SessionParts ==
  ASSUME ChainInv, SessionInv
  PROVE  /\ \A g \in Slots : Revokes(jobs[g]) /\ SignsOut(jobs[g])
         /\ \A j \in Issued : j # NoJti
         /\ Usable = live \cap Issued
<1>1. NoJti \notin Jtis /\ live \subseteq Jtis
  BY ConstantsOK, Quiet
<1>2. \A j \in Issued : j # NoJti
  BY <1>1 DEF Issued
<1>3. Usable = live \cap Issued
  BY <1>1 DEF Issued, Usable
<1> QED BY <1>2, <1>3 DEF SessionInv

\* A step of one handler that leaves alone the tokens in chains and their markers.
LEMMA SameKeys ==
  ASSUME ChainInv, ChainInv', SessionInv, NEW h \in Slots, Others(h),
         UNCHANGED <<root, grace, pred, members, late>>,
         live' \cap Issued = live \cap Issued,
         \A j \in handed' : Shown(j),
         jobs'[h].pc \in {"mint", "rotate", "drop"} =>
           jobs'[h].jti = NoJti \/ Shown(jobs'[h].jti),
         jobs'[h].pc = "answer" => Shown(jobs'[h].new),
         Revokes(jobs'[h]), SignsOut(jobs'[h]),
         closed' \subseteq Issued, ended' \subseteq Issued,
         \A j \in Usable : root[j] \in ended' => j \in late,
         \A j \in closed' : j \notin live /\ grace[j] = NoJti /\ \A p \in Jtis : ~Leads(p, j)
  PROVE  SessionInv'
<1>1. Issued' = Issued /\ Usable' = Usable
  <2>1. Issued' = Issued
    BY DEF Issued
  <2>2. live' \subseteq Jtis
    BY DEF ChainInv, TypeInv
  <2>3. Usable' = live' \cap Issued'
    BY <2>2 DEF Issued, Usable
  <2> QED BY <2>1, <2>3, SessionParts
<1>2. ASSUME NEW j \in Jtis, Shown(j)' PROVE Shown(j)
  BY <1>2, ConstantsOK DEF Shown, Others
<1>3. Enrolled'
  BY <1>1, <1>2, SessionParts DEF Enrolled, Unknown, SessionInv, Issued
<1>4. Retired' /\ TwoWays'
  BY <1>1, Quiet DEF Retired, TwoWays, SessionInv
<1>5. Over'
  BY <1>1 DEF Over, Leads
<1>6. \A g \in Slots : Revokes(jobs[g]) /\ SignsOut(jobs[g])
  BY SessionParts
<1>7. ASSUME NEW g \in Slots
      PROVE  Revokes(jobs[g])' /\ SignsOut(jobs[g])'
  <2>1. Revokes(jobs'[g]) /\ SignsOut(jobs'[g])
    BY <1>6 DEF Others
  <2>2. jobs'[g].pc \in {"clear", "forget", "bury"} => jobs'[g].snap \subseteq Issued
    BY <1>1 DEF ChainInv, JobOK
  <2>3. Revokes(jobs[g])'
    BY <1>1, <2>1 DEF Revokes
  <2>4. SignsOut(jobs[g])'
    BY <2>1, <2>2 DEF SignsOut, Leads
  <2> QED BY <2>3, <2>4
<1> QED BY <1>1, <1>2, <1>3, <1>4, <1>5, <1>7 DEF SessionInv

\* What SameKeys asks of the history when a step leaves it alone.
LEMMA OverKept ==
  ASSUME SessionInv
  PROVE  /\ closed \subseteq Issued /\ ended \subseteq Issued
         /\ \A j \in Usable : root[j] \in ended => j \in late
         /\ \A j \in closed : j \notin live /\ grace[j] = NoJti /\ \A p \in Jtis : ~Leads(p, j)
BY DEF SessionInv, Over

LEMMA StartSession ==
  ASSUME ChainInv, ChainInv', SessionInv, Login \/ Refresh \/ Logout \/ Revoke
  PROVE  SessionInv'
<1>1. UNCHANGED <<root, grace, pred, members, late, live, handed, closed, ended>>
  BY DEF Login, Refresh, Logout, Revoke, keys, history
<1>2. PICK h \in Slots, op \in {"login", "refresh", "logout", "revoke"},
           pc \in {"mint", "find", "sweep"}, jti \in handed \cup {NoJti} :
        Set(h, [IdleJob EXCEPT !.op = op, !.pc = pc, !.jti = jti])
  <2>1. PICK op \in {"login", "refresh", "logout", "revoke"}, pc \in {"mint", "find", "sweep"},
             jti \in handed \cup {NoJti} : Start(op, pc, jti)
    BY DEF Login, Refresh, Logout, Revoke
  <2> QED BY <2>1 DEF Start
<1> DEFINE job == [IdleJob EXCEPT !.op = op, !.pc = pc, !.jti = jti]
<1>3. job.pc = pc /\ job.jti = jti
  BY DEF IdleJob
<1>4. jobs'[h] = job /\ Others(h)
  BY <1>2 DEF ChainInv, TypeInv, Set, Others
<1> HIDE DEF job
<1>5. Revokes(jobs'[h]) /\ SignsOut(jobs'[h])
  BY <1>3, <1>4 DEF Revokes, SignsOut
<1>6. \A j \in handed : Shown(j)
  BY DEF Shown
<1> QED BY <1>1, <1>3, <1>4, <1>5, <1>6, SameKeys, OverKept

\* Jobs whose step neither revokes nor signs out.
LEMMA NoDuty ==
  ASSUME NEW job, job.pc \notin {"erase", "raise", "commit", "clear", "forget", "bury"}
  PROVE  Revokes(job) /\ SignsOut(job)
BY DEF Revokes, SignsOut

LEMMA LoseSession ==
  ASSUME ChainInv, ChainInv', SessionInv, NEW h \in Slots, Rotate(h), jobs[h].jti \notin live
  PROVE  SessionInv'
<1>1. /\ UNCHANGED <<root, grace, pred, members, late, live, handed, closed, ended>>
      /\ jobs[h].pc = "rotate"
  BY DEF Rotate, At
<1>2. /\ Others(h) /\ jobs'[h].pc = "drop"
      /\ jobs'[h].jti = NoJti \/ jobs'[h].jti = grace[jobs[h].jti]
  BY JobAfter
<1>3. jobs[h].jti \in Jtis
  BY <1>1, Quiet DEF JobOK, Issued
<1>4. jobs'[h].jti = NoJti \/ Shown(jobs'[h].jti)
  BY <1>2, <1>3 DEF Shown
<1>5. \A j \in handed : Shown(j)
  BY DEF Shown
<1>6. Revokes(jobs'[h]) /\ SignsOut(jobs'[h])
  BY <1>2, NoDuty
<1> QED BY <1>1, <1>2, <1>4, <1>5, <1>6, SameKeys, OverKept

LEMMA DropSession ==
  ASSUME ChainInv, ChainInv', SessionInv, NEW h \in Slots, Drop(h)
  PROVE  SessionInv'
<1>1. /\ UNCHANGED <<root, grace, pred, members, late, handed, closed, ended>>
      /\ live' = live \ {jobs[h].new} /\ jobs[h].pc = "drop"
  BY DEF Drop, At, history
<1>2. jobs[h].new \notin Issued
  BY <1>1, Quiet DEF JobOK, Holds
<1>3. /\ Others(h)
      /\ \/ jobs'[h].pc = "answer" /\ jobs'[h].new = jobs[h].jti
         \/ jobs'[h].pc \in {"sweep", "idle"}
  BY JobAfter DEF IdleJob
<1>4. jobs'[h].pc = "answer" => Shown(jobs'[h].new)
  BY <1>1, <1>3 DEF Shown
<1>5. \A j \in handed : Shown(j)
  BY DEF Shown
<1>6. Revokes(jobs'[h]) /\ SignsOut(jobs'[h])
  BY <1>3, NoDuty
<1> QED BY <1>1, <1>2, <1>3, <1>4, <1>5, <1>6, SameKeys, OverKept

\* A handler that is done, one way or the other.
LEMMA DoneSession ==
  ASSUME ChainInv, ChainInv', SessionInv, NEW h \in Slots,
         Hand(h) \/ Commit(h) \/ Bury(h) \/ Die(h)
  PROVE  SessionInv'
<1>1. UNCHANGED <<root, grace, pred, members, late, live>>
  BY DEF Hand, Commit, Bury, Die, keys, history
<1>2. Others(h) /\ jobs'[h].pc = "idle"
  BY JobAfter DEF IdleJob
<1>3. Revokes(jobs'[h]) /\ SignsOut(jobs'[h])
  BY <1>2, NoDuty
<1>4. Revokes(jobs[h]) /\ SignsOut(jobs[h]) /\ JobOK(jobs[h], Issued, live)
  BY SessionParts, Quiet
<1>5. \A j \in handed' : Shown(j)
  <2>1. \A j \in handed : Shown(j)
    BY DEF Shown
  <2>2. CASE Hand(h)
    <3>1. handed' = handed \cup {jobs[h].new} /\ jobs[h].pc = "answer"
      BY <2>2 DEF Hand, At
    <3> QED BY <2>1, <3>1 DEF Shown
  <2>3. CASE Commit(h) \/ Bury(h) \/ Die(h)
    <3>1. handed' = handed
      BY <2>3 DEF Commit, Bury, Die, history
    <3> QED BY <2>1, <3>1
  <2> QED BY <2>2, <2>3
<1>6. /\ ended' \subseteq Issued
      /\ \A j \in Usable : root[j] \in ended' => j \in late
  <2>1. CASE Commit(h)
    <3>1. ended' = ended \cup jobs[h].before /\ jobs[h].pc = "commit"
      BY <2>1 DEF Commit, At
    <3> QED BY <1>4, <3>1, OverKept DEF Revokes
  <2>2. CASE Hand(h) \/ Bury(h) \/ Die(h)
    <3>1. ended' = ended
      BY <2>2 DEF Hand, Bury, Die, history
    <3> QED BY <3>1, OverKept
  <2> QED BY <2>1, <2>2
<1>7. /\ closed' \subseteq Issued
      /\ \A j \in closed' : j \notin live /\ grace[j] = NoJti /\ \A p \in Jtis : ~Leads(p, j)
  <2>1. CASE Bury(h)
    <3>1. closed' = closed \cup {jobs[h].jti} /\ jobs[h].pc = "bury"
      BY <2>1 DEF Bury, At
    <3> QED BY <1>4, <3>1, OverKept DEF SignsOut, JobOK
  <2>2. CASE Hand(h) \/ Commit(h) \/ Die(h)
    <3>1. closed' = closed
      BY <2>2 DEF Hand, Commit, Die, history
    <3> QED BY <3>1, OverKept
  <2> QED BY <2>1, <2>2
<1> QED BY <1>1, <1>2, <1>3, <1>5, <1>6, <1>7, SameKeys

LEMMA SweepSession ==
  ASSUME ChainInv, ChainInv', SessionInv, NEW h \in Slots, Sweep(h)
  PROVE  SessionInv'
<1>1. UNCHANGED <<root, grace, pred, members, late, live, handed, closed, ended>>
  BY DEF Sweep, keys
<1>2. /\ Others(h) /\ jobs'[h].pc = "erase" /\ jobs'[h].snap = members
      /\ jobs'[h].before = {root[j] : j \in handed}
  BY JobAfter
<1>3. \A j \in handed : Shown(j) /\ root[j] \in Jtis /\ root[root[j]] # NoJti
  BY Quiet DEF Shown, SessionInv, Issued, Link
<1>4. jobs'[h].before \subseteq Issued
  BY <1>2, <1>3 DEF Issued
<1>5. ASSUME NEW j \in Usable, root[j] \in jobs'[h].before, j \notin members \cup late PROVE FALSE
  <2>1. Unknown(j)
    BY <1>5 DEF SessionInv, Enrolled
  <2>2. PICK k \in handed : root[k] = j
    BY <1>2, <1>5, <2>1 DEF Unknown
  <2>3. k = j
    BY <2>1, <2>2, Quiet DEF Unknown, Issued
  <2> QED BY <1>3, <2>1, <2>2, <2>3 DEF Unknown
<1>6. Revokes(jobs'[h]) /\ SignsOut(jobs'[h])
  BY <1>2, <1>4, <1>5 DEF Revokes, SignsOut
<1> QED BY <1>1, <1>2, <1>3, <1>6, SameKeys, OverKept

LEMMA RaiseSession ==
  ASSUME ChainInv, ChainInv', SessionInv, NEW h \in Slots, Raise(h)
  PROVE  SessionInv'
<1>1. UNCHANGED <<root, grace, pred, members, late, live, handed, closed, ended>>
  BY DEF Raise, history
<1>2. /\ Others(h) /\ jobs[h].pc = "raise" /\ jobs'[h].pc = "commit"
      /\ jobs'[h].before = jobs[h].before
  BY JobAfter
<1>3. Revokes(jobs'[h]) /\ SignsOut(jobs'[h])
  BY <1>2, SessionParts DEF Revokes, SignsOut
<1>4. \A j \in handed : Shown(j)
  BY DEF Shown
<1> QED BY <1>1, <1>2, <1>3, <1>4, SameKeys, OverKept

LEMMA FindSession ==
  ASSUME ChainInv, ChainInv', SessionInv, NEW h \in Slots, Find(h)
  PROVE  SessionInv'
<1>1. UNCHANGED <<root, grace, pred, members, late, live, handed, closed, ended>>
  BY DEF Find, keys, history
<1>2. /\ Others(h) /\ jobs[h].pc = "find" /\ jobs'[h].pc = "clear" /\ jobs'[h].jti = jobs[h].jti
      /\ jobs'[h].snap = {jobs[h].jti, pred[jobs[h].jti]} \ {NoJti}
  BY JobAfter
<1> DEFINE j == jobs[h].jti
<1>3. j \in Issued /\ j \in Jtis /\ j # NoJti
  BY <1>2, Quiet, SessionParts DEF JobOK
<1>4. pred[j] # NoJti => pred[j] \notin live
  BY <1>3 DEF SessionInv, Retired
<1>5. ASSUME NEW p \in Jtis, Leads(p, j) PROVE p \in jobs'[h].snap
  BY <1>2, <1>3, <1>5, ConstantsOK DEF SessionInv, TwoWays, Leads
<1>6. Revokes(jobs'[h]) /\ SignsOut(jobs'[h])
  BY <1>2, <1>3, <1>4, <1>5 DEF Revokes, SignsOut
<1>7. \A k \in handed : Shown(k)
  BY DEF Shown
<1> QED BY <1>1, <1>2, <1>6, <1>7, SameKeys, OverKept

LEMMA MintSession ==
  ASSUME ChainInv, ChainInv', SessionInv, NEW h \in Slots, Mint(h)
  PROVE  SessionInv'
<1>0. UNCHANGED <<grace, pred, members, late, handed, closed, ended>>
  BY DEF Mint
<1>1. PICK s \in Unminted :
         /\ Others(h) /\ live' = live \cup {s} /\ jobs[h].pc = "mint"
         /\ jobs'[h].new = s /\ jobs'[h].jti = jobs[h].jti
         /\ \/ jobs'[h].pc = "enrol" /\ root' = [root EXCEPT ![s] = s]
            \/ jobs'[h].pc = "rotate" /\ root' = root
  BY JobAfter
<1>2. s \in Jtis /\ s \notin Issued /\ s \notin live /\ s # NoJti /\ root[s] = NoJti
  BY ConstantsOK DEF Unminted, Issued
<1>3. Revokes(jobs'[h]) /\ SignsOut(jobs'[h])
  BY <1>1, NoDuty
<1>4. CASE root' = root
  <2>1. jobs'[h].pc \in {"mint", "rotate", "drop"} => jobs'[h].jti = NoJti \/ Shown(jobs'[h].jti)
    BY <1>1 DEF Shown
  <2>2. \A j \in handed : Shown(j)
    BY DEF Shown
  <2>3. jobs'[h].pc = "rotate"
    BY <1>1, <1>2, <1>4, Quiet DEF Link
  <2> QED BY <1>0, <1>1, <1>2, <1>3, <1>4, <2>1, <2>2, <2>3, SameKeys, OverKept
<1>5. CASE jobs'[h].pc = "enrol" /\ root' = [root EXCEPT ![s] = s]
  <2>1. /\ Issued' = Issued \cup {s} /\ Usable' = Usable \cup {s} /\ root'[s] = s
        /\ \A j \in Jtis \ {s} : root'[j] = root[j]
    BY <1>1, <1>2, <1>5, Quiet DEF Issued, Usable, Link
  <2>2. \A j \in Jtis : root[j] # s /\ grace[j] # s /\ pred[j] # s
    BY <1>2, Quiet DEF SessionInv, Issued, Link
  <2>3. ~Shown(s)
    BY <1>2 DEF SessionInv
  <2>4. ASSUME NEW j \in Jtis, Shown(j)' PROVE Shown(j)
    BY <1>0, <1>1, <1>5, <2>4 DEF Shown, Others
  <2>9. Usable \subseteq Jtis \ {s} /\ Usable \subseteq Issued
    BY <1>2, Quiet, SessionParts
  <2>5. Enrolled'
    <3>1. ASSUME NEW j \in Usable PROVE j \in (members \cup late)' \/ Unknown(j)'
      <4>1. CASE j \in members \cup late
        BY <1>0, <4>1
      <4>2. CASE Unknown(j)
        BY <1>2, <2>1, <2>4, <2>9, <4>2 DEF Unknown
      <4> QED BY <4>1, <4>2 DEF SessionInv, Enrolled
    <3>2. Unknown(s)'
      BY <1>2, <2>1, <2>2, <2>3, <2>4 DEF Unknown
    <3> QED BY <2>1, <3>1, <3>2 DEF Enrolled
  <2>6. Retired' /\ TwoWays'
    <3>1. Retired'
      BY <1>0, <1>1, <1>2, <2>1, <2>2 DEF SessionInv, Retired
    <3>2. TwoWays'
      BY <1>0 DEF SessionInv, TwoWays
    <3> QED BY <3>1, <3>2
  <2>7. Over'
    <3>1. \A j \in Usable' : root'[j] \in ended => j \in late
      BY <1>2, <2>1, <2>9, OverKept
    <3>2. \A j \in closed : j \notin live'
      BY <1>1, <1>2, OverKept
    <3> QED BY <1>0, <2>1, <3>1, <3>2, OverKept DEF Over, Leads
  <2>8. ASSUME NEW g \in Slots PROVE Revokes(jobs[g])' /\ SignsOut(jobs[g])'
    <3>1. Revokes(jobs'[g]) /\ SignsOut(jobs'[g])
      BY <1>1, <1>3, SessionParts DEF Others
    <3>2. jobs'[g].pc \in {"clear", "forget", "bury"} => jobs'[g].snap \subseteq Issued
      BY <1>1, <1>5, Quiet DEF JobOK, Others
    <3>3. Revokes(jobs[g])'
      <4>1. jobs'[g].pc \in {"erase", "raise", "commit"} => root'[s] \notin jobs'[g].before
        BY <1>2, <2>1, <3>1 DEF Revokes
      <4> QED BY <1>0, <2>1, <2>9, <3>1, <4>1 DEF Revokes
    <3>4. SignsOut(jobs[g])'
      BY <1>0, <1>1, <1>2, <3>1, <3>2 DEF SignsOut, Leads
    <3> QED BY <3>3, <3>4
  <2> QED BY <1>2, <2>1, <2>4, <2>5, <2>6, <2>7, <2>8, Quiet DEF SessionInv, Link, Issued
<1> QED BY <1>1, <1>4, <1>5

LEMMA EnrolSession ==
  ASSUME ChainInv, ChainInv', SessionInv, NEW h \in Slots, Enrol(h)
  PROVE  SessionInv'
<1> DEFINE s == jobs[h].new
<1>1. /\ UNCHANGED <<root, live, grace, pred, handed, closed, ended>>
      /\ members' = members \cup {s}
      /\ late' = IF Sweeping THEN late \cup {s} ELSE late
  BY DEF Enrol
<1>2. /\ Others(h) /\ jobs[h].pc = "enrol" /\ jobs'[h].pc = "answer" /\ jobs'[h].new = s
  BY JobAfter
<1>3. s \in Issued
  BY <1>2, Quiet DEF JobOK
<1>4. Issued' = Issued /\ Usable' = Usable
  BY <1>1 DEF Issued, Usable
<1>5. ASSUME NEW j \in Jtis \ {s}, Shown(j)' PROVE Shown(j)
  BY <1>1, <1>2, <1>5 DEF Shown, Others
<1>6. Enrolled'
  BY <1>1, <1>4, <1>5, SessionParts, Quiet DEF SessionInv, Enrolled, Unknown
<1>7. Retired' /\ TwoWays'
  BY <1>1, <1>4 DEF SessionInv, Retired, TwoWays
<1>8. Over'
  BY <1>1, <1>4 DEF SessionInv, Over, Leads
<1>9. ASSUME NEW g \in Slots PROVE Revokes(jobs[g])' /\ SignsOut(jobs[g])'
  <2>1. Revokes(jobs'[g]) /\ SignsOut(jobs'[g])
    BY <1>2, SessionParts, NoDuty DEF Others
  <2>2. jobs'[g].pc = "erase" => s \in late'
    BY <1>1, <1>2 DEF Sweeping, At, Others
  <2>3. Revokes(jobs[g])'
    BY <1>1, <1>4, <2>1, <2>2 DEF Revokes
  <2>4. SignsOut(jobs[g])'
    BY <1>1, <2>1 DEF SignsOut, Leads
  <2> QED BY <2>3, <2>4
<1> QED BY <1>1, <1>3, <1>4, <1>5, <1>6, <1>7, <1>8, <1>9 DEF SessionInv

LEMMA WinSession ==
  ASSUME ChainInv, ChainInv', SessionInv, NEW h \in Slots, Rotate(h), jobs[h].jti \in live
  PROVE  SessionInv'
<1> DEFINE j == jobs[h].jti
           s == jobs[h].new
<1>1. /\ live' = live \ {j} /\ members' = members \cup {s}
      /\ grace' = [grace EXCEPT ![j] = s] /\ pred' = [pred EXCEPT ![s] = j]
      /\ root' = [root EXCEPT ![s] = root[j]]
      /\ late' = IF j \in late \/ Sweeping THEN late \cup {s} ELSE late
      /\ UNCHANGED <<handed, closed, ended>>
  BY DEF Rotate, Consume
<1>2. /\ Others(h) /\ jobs[h].pc = "rotate" /\ jobs'[h].pc = "answer" /\ jobs'[h].new = s
  BY JobAfter
<1>3. /\ j \in Issued /\ j \in Jtis /\ s \in Jtis /\ s \notin Issued /\ s \in live
      /\ s # j /\ s # NoJti /\ j # NoJti /\ root[s] = NoJti
  BY <1>2, Quiet, ConstantsOK DEF JobOK, Holds, Issued
<1> HIDE DEF j, s
<1>4. /\ Issued' = Issued \cup {s} /\ Usable' = (Usable \ {j}) \cup {s} /\ j \in Usable
      /\ root'[s] = root[j] /\ \A k \in Jtis \ {s} : root'[k] = root[k]
      /\ grace'[j] = s /\ \A k \in Jtis \ {j} : grace'[k] = grace[k]
      /\ pred'[s] = j /\ \A k \in Jtis \ {s} : pred'[k] = pred[k]
  BY <1>1, <1>3, Quiet DEF Issued, Usable, Link, j
<1>5. \A k \in Jtis : root[k] # s /\ grace[k] # s /\ pred[k] # s
  BY <1>3, Quiet DEF SessionInv, Issued, Link
<1>6. Shown(j)
  BY <1>2 DEF Shown, j
<1>7. j \in members \cup late
  BY <1>4, <1>6 DEF SessionInv, Enrolled, Unknown
<1>8. ASSUME NEW k \in Jtis \ {s}, Shown(k)' PROVE Shown(k)
  BY <1>1, <1>2, <1>4, <1>8 DEF Shown, Others
<1>9. Enrolled'
  <2>1. ASSUME NEW k \in Usable \ {j}, Unknown(k) PROVE Unknown(k)'
    <3>1. root[j] # k
      BY <1>3, <2>1 DEF Unknown
    <3> QED BY <1>3, <1>4, <1>8, <2>1, <3>1, SessionParts, Quiet DEF Unknown
  <2> QED BY <1>1, <1>4, <2>1 DEF SessionInv, Enrolled
<1>10. Retired'
  BY <1>1, <1>3, <1>4, <1>5 DEF SessionInv, Retired
<1>11. TwoWays'
  <2>1. ASSUME NEW k \in Jtis, NEW l \in Jtis, grace'[k] # NoJti, grace'[k] = grace'[l] PROVE k = l
    BY <1>4, <1>5, <2>1 DEF SessionInv, TwoWays
  <2>2. ASSUME NEW p \in Jtis, p \notin late', grace'[p] # NoJti
        PROVE  pred'[grace'[p]] = p /\ p \in members'
    <3>1. CASE p = j
      BY <1>1, <1>3, <1>4, <1>7, <2>2, <3>1
    <3>2. CASE p # j
      <4>1. grace'[p] = grace[p] /\ p \notin late /\ grace[p] \in Jtis /\ grace[p] # s
        BY <1>1, <1>4, <1>5, <2>2, <3>2, Quiet
      <4> QED BY <1>1, <1>4, <2>2, <4>1 DEF SessionInv, TwoWays
    <3> QED BY <3>1, <3>2
  <2> QED BY <2>1, <2>2 DEF TwoWays
<1>12. Over'
  <2>1. root[j] \in ended => s \in late'
    BY <1>1, <1>4 DEF SessionInv, Over
  <2>2. \A k \in Usable' : root'[k] \in ended' => k \in late'
    BY <1>1, <1>4, <2>1, SessionParts, Quiet DEF SessionInv, Over
  <2>3. ASSUME NEW k \in closed PROVE k \notin live' /\ grace'[k] = NoJti /\ \A p \in Jtis : ~Leads(p, k)'
    BY <1>1, <1>3, <1>4, Quiet DEF SessionInv, Over, Leads, j
  <2> QED BY <1>1, <1>4, <2>2, <2>3 DEF SessionInv, Over
<1>13. ASSUME NEW g \in Slots PROVE Revokes(jobs[g])' /\ SignsOut(jobs[g])'
  <2>1. Revokes(jobs'[g]) /\ SignsOut(jobs'[g])
    BY <1>2, SessionParts, NoDuty DEF Others
  <2>2. jobs'[g].pc = "erase" => s \in late'
    BY <1>1, <1>2 DEF Sweeping, At, Others
  <2>3. Revokes(jobs[g])'
    <3>1. \A k \in Usable' \ {s} : k \in Usable /\ root'[k] = root[k]
      BY <1>4, SessionParts, Quiet
    <3>2. jobs'[g].pc \in {"raise", "commit"} /\ root[j] \in jobs'[g].before => s \in late'
      BY <1>1, <1>4, <2>1 DEF Revokes
    <3> QED BY <1>1, <1>4, <2>1, <2>2, <3>1, <3>2 DEF Revokes
  <2>4. jobs'[g].pc \in {"clear", "forget", "bury"} => jobs'[g].snap \subseteq Issued /\ jobs'[g].snap \subseteq Jtis
    BY <1>2, Quiet DEF JobOK, Others, Issued
  <2>5. SignsOut(jobs[g])'
    BY <1>1, <1>3, <1>4, <2>1, <2>4 DEF SignsOut, Leads, j
  <2> QED BY <2>3, <2>5
<1> QED BY <1>3, <1>4, <1>5, <1>8, <1>9, <1>10, <1>11, <1>12, <1>13, Quiet DEF SessionInv, Link, Issued

LEMMA EraseSession ==
  ASSUME ChainInv, ChainInv', SessionInv, NEW h \in Slots, Erase(h)
  PROVE  SessionInv'
<1> DEFINE snap == jobs[h].snap
<1>1. /\ live' = live \ snap /\ members' = {}
      /\ grace' = Unlinked(grace, snap) /\ pred' = Unlinked(pred, snap)
      /\ UNCHANGED <<root, handed, late, closed, ended>>
  BY DEF Erase
<1>2. /\ Others(h) /\ jobs[h].pc = "erase" /\ jobs'[h].pc = "raise"
      /\ jobs'[h].before = jobs[h].before
  BY JobAfter
<1>3. Revokes(jobs[h]) /\ snap \subseteq Issued /\ Issued \subseteq Jtis
  BY <1>2, SessionParts, Quiet DEF JobOK
<1>4. members \ snap \subseteq late
  BY <1>2, <1>3 DEF Revokes
<1> HIDE DEF snap
<1>5. Issued' = Issued /\ Usable' = Usable \ snap
  BY <1>1 DEF Issued, Usable
<1>6. \A j \in Jtis : /\ grace'[j] = IF j \in snap THEN NoJti ELSE grace[j]
                      /\ pred'[j] = IF j \in snap THEN NoJti ELSE pred[j]
  BY <1>1 DEF Unlinked
<1>7. ASSUME NEW p \in Jtis \ late PROVE grace'[p] = NoJti
  BY <1>4, <1>6 DEF SessionInv, TwoWays
<1>8. ASSUME NEW j \in Jtis, Shown(j)' PROVE Shown(j)
  <2>1. ASSUME NEW k \in Jtis, grace'[k] = j PROVE grace[k] = j
    BY <1>6, <1>8, <2>1, ConstantsOK
  <2> QED BY <1>1, <1>2, <1>8, <2>1 DEF Shown, Others
<1>9. Enrolled'
  <2>1. \A j \in Jtis : Unknown(j) => Unknown(j)'
    BY <1>1, <1>8 DEF Unknown
  <2> QED BY <1>1, <1>3, <1>4, <1>5, <2>1, SessionParts DEF SessionInv, Enrolled
<1>10. Retired'
  BY <1>1, <1>5, <1>6 DEF SessionInv, Retired
<1>11. TwoWays'
  BY <1>1, <1>6, <1>7 DEF SessionInv, TwoWays
<1>12. Over'
  BY <1>1, <1>3, <1>5, <1>6, <1>7, ConstantsOK DEF SessionInv, Over, Leads
<1>13. ASSUME NEW g \in Slots PROVE Revokes(jobs[g])' /\ SignsOut(jobs[g])'
  <2>1. CASE g = h
    <3>1. \A j \in Usable : root[j] \in jobs[h].before => j \in snap \cup late
      BY <1>2, <1>3 DEF Revokes, snap
    <3>2. jobs[h].before \subseteq Issued
      BY <1>2, <1>3 DEF Revokes
    <3>3. Revokes(jobs[h])'
      BY <1>1, <1>2, <1>5, <3>1, <3>2 DEF Revokes
    <3>4. SignsOut(jobs[h])'
      BY <1>2 DEF SignsOut
    <3> QED BY <2>1, <3>3, <3>4
  <2>2. CASE g # h
    <3>1. jobs'[g] = jobs[g] /\ Revokes(jobs[g]) /\ SignsOut(jobs[g]) /\ JobOK(jobs[g], Issued, live)
      BY <1>2, <2>2, SessionParts, Quiet DEF Others
    <3>2. Revokes(jobs[g])'
      BY <1>1, <1>5, <3>1 DEF Revokes
    <3>3. jobs[g].pc \in {"clear", "forget", "bury"} => jobs[g].snap \subseteq Jtis
      BY <1>3, <3>1 DEF JobOK
    <3>4. \A p, j \in Jtis : ~Leads(p, j)'
      BY <1>1, <1>7, ConstantsOK DEF Leads
    <3>5. SignsOut(jobs[g])'
      BY <1>1, <1>6, <3>1, <3>3, <3>4 DEF SignsOut
    <3> QED BY <3>2, <3>5
  <2> QED BY <2>1, <2>2
<1> QED BY <1>1, <1>5, <1>8, <1>9, <1>10, <1>11, <1>12, <1>13 DEF SessionInv

LEMMA ClearSession ==
  ASSUME ChainInv, ChainInv', SessionInv, NEW h \in Slots, Clear(h)
  PROVE  SessionInv'
<1> DEFINE j == jobs[h].jti
           snap == jobs[h].snap
<1>1. /\ live' = live \ {j} /\ grace' = Unlinked(grace, snap) /\ pred' = Unlinked(pred, {j})
      /\ UNCHANGED <<members, root, handed, late, closed, ended>>
  BY DEF Clear, history
<1>2. /\ Others(h) /\ jobs[h].pc = "clear" /\ jobs'[h].pc = "forget"
      /\ jobs'[h].jti = j /\ jobs'[h].snap = snap
  BY JobAfter
<1>3. SignsOut(jobs[h]) /\ snap \subseteq Issued /\ j \in Issued /\ Issued \subseteq Jtis
  BY <1>2, SessionParts, Quiet DEF JobOK
<1>4. /\ j \in snap /\ snap \cap live \subseteq {j}
      /\ \A p \in Jtis : Leads(p, j) => p \in snap
  BY <1>2, <1>3 DEF SignsOut
<1> HIDE DEF j, snap
<1>5. Issued' = Issued /\ Usable' = Usable \ {j} /\ Usable \subseteq Jtis
  BY <1>1, Quiet DEF Issued, Usable
<1>6. \A k \in Jtis : /\ grace'[k] = IF k \in snap THEN NoJti ELSE grace[k]
                      /\ pred'[k] = IF k = j THEN NoJti ELSE pred[k]
  BY <1>1 DEF Unlinked
<1>7. \A k \in Jtis, p \in Jtis : Leads(p, k)' => Leads(p, k)
  BY <1>1, <1>6, ConstantsOK DEF Leads
<1>8. ASSUME NEW k \in Jtis, Shown(k)' PROVE Shown(k)
  <2>1. ASSUME NEW l \in Jtis, grace'[l] = k PROVE grace[l] = k
    BY <1>6, <1>8, <2>1, ConstantsOK
  <2> QED BY <1>1, <1>2, <1>8, <2>1 DEF Shown, Others
<1>9. Enrolled'
  BY <1>1, <1>5, <1>8 DEF SessionInv, Enrolled, Unknown
<1>10. Retired'
  BY <1>1, <1>5, <1>6 DEF SessionInv, Retired
<1>11. TwoWays'
  <2>1. ASSUME NEW p \in Jtis \ late, grace'[p] # NoJti PROVE pred'[grace'[p]] = p /\ p \in members
    <3>1. p \notin snap /\ grace'[p] = grace[p] /\ grace[p] # NoJti /\ grace[p] \in Jtis
      BY <1>6, <2>1, Quiet
    <3>2. grace[p] # j
      BY <1>4, <3>1 DEF Leads
    <3> QED BY <1>6, <3>1, <3>2 DEF SessionInv, TwoWays
  <2>2. ASSUME NEW k \in Jtis, NEW l \in Jtis, grace'[k] # NoJti, grace'[k] = grace'[l] PROVE k = l
    BY <1>6, <2>2 DEF SessionInv, TwoWays
  <2> QED BY <1>1, <2>1, <2>2 DEF TwoWays
<1>12. Over'
  BY <1>1, <1>3, <1>5, <1>6, <1>7 DEF SessionInv, Over
<1>13. ASSUME NEW g \in Slots PROVE Revokes(jobs[g])' /\ SignsOut(jobs[g])'
  <2>1. CASE g = h
    <3>1. Revokes(jobs[h])'
      BY <1>2 DEF Revokes
    <3>2. \A p \in Jtis : p \in late \/ grace'[p] # j
      BY <1>3, <1>4, <1>6, SessionParts DEF Leads
    <3>3. grace'[j] = NoJti /\ \A p \in snap : grace'[p] = NoJti
      BY <1>3, <1>4, <1>6
    <3>4. SignsOut(jobs[h])'
      BY <1>1, <1>2, <1>4, <3>2, <3>3 DEF SignsOut, Leads
    <3> QED BY <2>1, <3>1, <3>4
  <2>2. CASE g # h
    <3>1. jobs'[g] = jobs[g] /\ Revokes(jobs[g]) /\ SignsOut(jobs[g]) /\ JobOK(jobs[g], Issued, live)
      BY <1>2, <2>2, SessionParts, Quiet DEF Others
    <3>2. Revokes(jobs[g])'
      BY <1>1, <1>5, <3>1 DEF Revokes
    <3>3. jobs[g].pc \in {"clear", "forget", "bury"} => jobs[g].snap \subseteq Jtis
      BY <1>3, <3>1 DEF JobOK
    <3>4. jobs[g].pc \in {"clear", "forget", "bury"} => jobs[g].jti \in Jtis
      BY <3>1, <3>3 DEF SignsOut
    <3>5. SignsOut(jobs[g])'
      BY <1>1, <1>6, <1>7, <3>1, <3>3, <3>4 DEF SignsOut
    <3> QED BY <3>2, <3>5
  <2> QED BY <2>1, <2>2
<1> QED BY <1>1, <1>5, <1>8, <1>9, <1>10, <1>11, <1>12, <1>13 DEF SessionInv

LEMMA ForgetSession ==
  ASSUME ChainInv, ChainInv', SessionInv, NEW h \in Slots, Forget(h)
  PROVE  SessionInv'
<1> DEFINE snap == jobs[h].snap
<1>1. members' = members \ snap /\ UNCHANGED <<live, grace, pred, root, handed, late, closed, ended>>
  BY DEF Forget, history
<1>2. /\ Others(h) /\ jobs[h].pc = "forget" /\ jobs'[h].pc = "bury"
      /\ jobs'[h].jti = jobs[h].jti /\ jobs'[h].snap = snap
  BY JobAfter
<1>3. SignsOut(jobs[h]) /\ snap \subseteq Issued
  BY <1>2, SessionParts, Quiet DEF JobOK
<1>4. snap \cap live = {} /\ \A p \in snap : grace[p] = NoJti
  BY <1>2, <1>3 DEF SignsOut
<1> HIDE DEF snap
<1>5. Issued' = Issued /\ Usable' = Usable
  BY <1>1 DEF Issued, Usable
<1>6. ASSUME NEW k \in Jtis, Shown(k)' PROVE Shown(k)
  BY <1>1, <1>2, <1>6 DEF Shown, Others
<1>7. Enrolled'
  <2>1. \A k \in Jtis : Unknown(k) => Unknown(k)'
    BY <1>1, <1>6 DEF Unknown
  <2>2. Usable \cap snap = {} /\ Usable \subseteq Jtis
    BY <1>4, Quiet DEF Usable
  <2> QED BY <1>1, <1>5, <2>1, <2>2 DEF SessionInv, Enrolled
<1>8. Retired' /\ TwoWays' /\ Over'
  BY <1>1, <1>4, <1>5 DEF SessionInv, Retired, TwoWays, Over, Leads
<1>9. ASSUME NEW g \in Slots PROVE Revokes(jobs[g])' /\ SignsOut(jobs[g])'
  <2>1. Revokes(jobs'[g]) /\ SignsOut(jobs'[g])
    <3>1. Revokes(jobs'[h]) /\ SignsOut(jobs'[h])
      BY <1>2, <1>3 DEF Revokes, SignsOut, snap
    <3> QED BY <1>2, <3>1, SessionParts DEF Others
  <2>2. Revokes(jobs[g])'
    BY <1>1, <1>5, <2>1 DEF Revokes
  <2>3. SignsOut(jobs[g])'
    BY <1>1, <2>1 DEF SignsOut, Leads
  <2> QED BY <2>2, <2>3
<1> QED BY <1>1, <1>5, <1>6, <1>7, <1>8, <1>9 DEF SessionInv

\* A marker runs out, Redis is lost, a user comes back.
LEMMA WorldSession ==
  ASSUME ChainInv, ChainInv', SessionInv, GraceExpires \/ Flush \/ Reactivate \/ UNCHANGED vars
  PROVE  SessionInv'
<1>1. UNCHANGED <<jobs, root, handed, late, closed, ended>>
  BY DEF GraceExpires, Flush, Reactivate, vars, history
<1>2. /\ (live' = live /\ members' = members) \/ (live' = {} /\ members' = {})
      /\ \A k \in Jtis : /\ grace'[k] \in {grace[k], NoJti} /\ pred'[k] \in {pred[k], NoJti}
      /\ \A p \in Jtis \ late : grace'[p] # NoJti =>
           members' = members /\ pred'[grace[p]] = pred[grace[p]]
  <2>1. CASE GraceExpires
    <3>1. PICK j \in Jtis : /\ grace[j] # NoJti /\ pred' = Unlinked(pred, {grace[j]})
                            /\ grace' = Unlinked(grace, {j}) /\ live' = live /\ members' = members
      BY <2>1 DEF GraceExpires
    <3>2. \A k \in Jtis : /\ grace'[k] = IF k = j THEN NoJti ELSE grace[k]
                          /\ pred'[k] = IF k = grace[j] THEN NoJti ELSE pred[k]
      BY <3>1 DEF Unlinked
    <3>3. ASSUME NEW p \in Jtis, grace'[p] # NoJti PROVE pred'[grace[p]] = pred[grace[p]]
      <4>1. p # j /\ grace[p] # NoJti /\ grace[p] \in Jtis
        BY <3>2, <3>3, Quiet
      <4>2. grace[p] # grace[j]
        BY <3>1, <4>1 DEF SessionInv, TwoWays
      <4> QED BY <3>2, <4>1, <4>2
    <3> QED BY <3>1, <3>2, <3>3
  <2>2. CASE Flush
    <3>1. live' = {} /\ members' = {} /\ \A k \in Jtis : grace'[k] = NoJti /\ pred'[k] = NoJti
      BY <2>2 DEF Flush, NoLink
    <3> QED BY <3>1
  <2>3. CASE Reactivate \/ UNCHANGED vars
    <3>1. UNCHANGED <<live, grace, pred, members>>
      BY <2>3 DEF Reactivate, vars, keys
    <3> QED BY <3>1
  <2> QED BY <2>1, <2>2, <2>3
<1>3. Issued' = Issued /\ Usable' \subseteq Usable /\ Usable \subseteq Jtis
      /\ (Usable' # {} => members' = members /\ live' = live)
  BY <1>1, <1>2, Quiet DEF Issued, Usable
<1>4. \A k \in Jtis, p \in Jtis : Leads(p, k)' => Leads(p, k)
  BY <1>1, <1>2, ConstantsOK DEF Leads
<1>5. ASSUME NEW k \in Jtis, Shown(k)' PROVE Shown(k)
  <2>1. ASSUME NEW l \in Jtis, grace'[l] = k PROVE grace[l] = k
    BY <1>2, <1>5, <2>1, ConstantsOK
  <2> QED BY <1>1, <1>5, <2>1 DEF Shown
<1>6. Enrolled'
  BY <1>1, <1>3, <1>5 DEF SessionInv, Enrolled, Unknown
<1>7. Retired'
  BY <1>2, <1>3 DEF SessionInv, Retired
<1>8. TwoWays'
  <2>1. \A k, l \in Jtis : grace'[k] # NoJti /\ grace'[k] = grace'[l] => k = l
    BY <1>2 DEF SessionInv, TwoWays
  <2>2. ASSUME NEW p \in Jtis \ late, grace'[p] # NoJti PROVE pred'[grace'[p]] = p /\ p \in members'
    BY <1>2, <2>2 DEF SessionInv, TwoWays
  <2> QED BY <1>1, <2>1, <2>2 DEF TwoWays
<1>9. Over'
  <2>1. closed \subseteq Jtis
    BY Quiet, OverKept
  <2> QED BY <1>1, <1>2, <1>3, <1>4, <2>1, OverKept DEF Over
<1>10. ASSUME NEW g \in Slots PROVE Revokes(jobs[g])' /\ SignsOut(jobs[g])'
  <2>1. Revokes(jobs[g]) /\ SignsOut(jobs[g]) /\ JobOK(jobs[g], Issued, live)
    BY SessionParts, Quiet
  <2>2. Revokes(jobs[g])'
    BY <1>1, <1>2, <1>3, <2>1 DEF Revokes
  <2>3. jobs[g].pc \in {"clear", "forget", "bury"} => jobs[g].snap \subseteq Jtis /\ jobs[g].jti \in Jtis
    BY <2>1, Quiet DEF JobOK, SignsOut
  <2>4. SignsOut(jobs[g])'
    BY <1>1, <1>2, <1>4, <2>1, <2>3 DEF SignsOut
  <2> QED BY <2>2, <2>4
<1> QED BY <1>1, <1>3, <1>5, <1>6, <1>7, <1>8, <1>9, <1>10 DEF SessionInv

\* Spec => []SessionInv
LEMMA SessionsKept == Spec => [](ChainInv /\ SessionInv)
<1>1. ChainInv /\ SessionInv /\ [Next]_vars => ChainInv' /\ SessionInv'
  <2> SUFFICES ASSUME ChainInv, SessionInv, [Next]_vars PROVE ChainInv' /\ SessionInv'
    OBVIOUS
  <2>1. ChainInv'
    BY ChainStep
  <2>2. CASE Login \/ Refresh \/ Logout \/ Revoke
    BY <2>1, <2>2, StartSession
  <2>3. ASSUME NEW h \in Slots, Run(h) \/ Die(h) PROVE SessionInv'
    BY <2>1, <2>3, MintSession, EnrolSession, LoseSession, WinSession, DropSession, DoneSession,
       SweepSession, EraseSession, RaiseSession, FindSession, ClearSession, ForgetSession DEF Run
  <2>4. CASE GraceExpires \/ Flush \/ Reactivate \/ UNCHANGED vars
    BY <2>1, <2>4, WorldSession
  <2> QED BY <2>1, <2>2, <2>3, <2>4 DEF Next
<1> QED BY InitChain, InitSession, <1>1, PTL DEF Spec

\* However sign-ins and refreshes of a chain interleave with a revocation's read and
\* delete, a committed revocation leaves a live token only to what was enrolled between.
THEOREM RevocationReachesAllHolds == Spec => []RevocationReachesAll
<1>1. SessionInv => RevocationReachesAll
  BY DEF SessionInv, Over, RevocationReachesAll
<1> QED BY <1>1, SessionsKept, PTL

\* A token that was signed out of stays dead, and no predecessor hands it out that a
\* revocation could have reached.
THEOREM LogoutSticksHolds == Spec => []LogoutSticks
<1>1. SessionInv => LogoutSticks
  BY DEF SessionInv, Over, LogoutSticks, Leads
<1> QED BY <1>1, SessionsKept, PTL

-----------------------------------------------------------------------------
(* Tabs that refresh at the same moment                                    *)

Spent == [logouts : Nat, flushes : Nat, deaths : Nat, expiries : Nat]

\* Nothing has happened yet but sign-ins, refreshes and deaths of handlers.
Calm == spent.expiries = 0 /\ spent.logouts = 0 /\ spent.flushes = 0 /\ now = 0

\* Until something else happens a token issued can be exchanged or leads to its
\* successor, so that none looks replayed.
CalmInv ==
  /\ spent \in Spent
  /\ \A h \in Slots :
       /\ jobs[h].pc \in {"erase", "raise", "commit"} => now # 0
       /\ jobs[h].pc \in {"find", "clear", "forget", "bury"} => spent.logouts # 0
       /\ Calm => jobs[h].out # "replayed"
  /\ Calm => \A j \in Issued : j \in live \/ grace[j] # NoJti

\* No step makes up for what happened.
CalmBefore ==
  /\ spent' \in Spent
  /\ Calm' => Calm
  /\ spent'.logouts = 0 => spent.logouts = 0
  /\ now' = 0 => now = 0

LEMMA CalmSoFar ==
  ASSUME ChainInv, CalmInv, [Next]_vars
  PROVE  CalmBefore
<1> USE DEF CalmBefore
<1>1. spent \in Spent /\ now \in Nat
  BY Quiet DEF CalmInv
<1>2. CASE UNCHANGED <<spent, now>>
  BY <1>1, <1>2 DEF Calm
<1>3. CASE now' = now /\ \E bound \in {"logouts", "flushes", "deaths"} : Use(bound)
  <2>1. PICK bound \in {"logouts", "flushes", "deaths"} : spent' = [spent EXCEPT ![bound] = @ + 1]
    BY <1>3 DEF Use
  <2>2. /\ spent' \in Spent /\ spent'.expiries = spent.expiries
        /\ spent'.logouts \in {spent.logouts, spent.logouts + 1}
        /\ spent'.flushes \in {spent.flushes, spent.flushes + 1}
    BY <1>1, <2>1 DEF Spent
  <2> QED BY <1>1, <1>3, <2>2 DEF Spent, Calm
<1>4. CASE spent' = spent /\ now' = now + 1
  BY <1>1, <1>4 DEF Spent, Calm
<1>5. CASE spent' = [spent EXCEPT !.expiries = 1] /\ now' = now
  BY <1>1, <1>5 DEF Spent, Calm
<1>6. CASE Login \/ Refresh \/ Revoke \/ Reactivate \/ UNCHANGED vars
  BY <1>2, <1>6 DEF Login, Refresh, Revoke, Reactivate, vars
<1>7. CASE Logout \/ Flush \/ GraceExpires
  BY <1>3, <1>5, <1>7 DEF Logout, Flush, GraceExpires
<1>8. ASSUME NEW h \in Slots, Run(h) \/ Die(h)
      PROVE  \/ UNCHANGED <<spent, now>>
             \/ now' = now /\ Use("deaths")
             \/ spent' = spent /\ now' = now + 1
  <2>1. CASE Mint(h) \/ Enrol(h) \/ Rotate(h) \/ Drop(h) \/ Hand(h)
    BY <2>1 DEF Mint, Enrol, Rotate, Drop, Hand
  <2>2. CASE Sweep(h) \/ Die(h)
    BY <2>2 DEF Sweep, Die
  <2>3. CASE Erase(h) \/ Raise(h) \/ Commit(h) \/ Find(h) \/ Clear(h) \/ Forget(h) \/ Bury(h)
    BY <2>3 DEF Erase, Raise, Commit, Find, Clear, Forget, Bury
  <2> QED BY <1>8, <2>1, <2>2, <2>3 DEF Run
<1> QED BY <1>2, <1>3, <1>4, <1>6, <1>7, <1>8 DEF Next

\* A step of one handler that spends and revokes nothing.
LEMMA CalmJob ==
  ASSUME ChainInv, CalmInv, CalmBefore, NEW h \in Slots, Others(h),
         jobs'[h].pc \in {"erase", "raise", "commit"} => now' # 0,
         jobs'[h].pc \in {"find", "clear", "forget", "bury"} => spent'.logouts # 0,
         Calm' => jobs'[h].out # "replayed",
         Calm' => \A j \in Issued' : j \in live' \/ grace'[j] # NoJti
  PROVE  CalmInv'
BY DEF CalmInv, Others, CalmBefore

LEMMA CalmStep ==
  ASSUME ChainInv, CalmInv, [Next]_vars
  PROVE  CalmInv'
<1>0. CalmBefore
  BY CalmSoFar
<1>1. CASE Login \/ Refresh \/ Logout \/ Revoke
  <2>1. PICK h \in Slots, op \in {"login", "refresh", "logout", "revoke"},
             pc \in {"mint", "find", "sweep"}, jti \in handed \cup {NoJti} :
          /\ Set(h, [IdleJob EXCEPT !.op = op, !.pc = pc, !.jti = jti])
          /\ pc = "find" => Use("logouts")
    <3>1. PICK op \in {"login", "refresh", "logout", "revoke"}, pc \in {"mint", "find", "sweep"},
               jti \in handed \cup {NoJti} : Start(op, pc, jti) /\ (pc = "find" => Use("logouts"))
      BY <1>1 DEF Login, Refresh, Logout, Revoke
    <3> QED BY <3>1 DEF Start
  <2> DEFINE job == [IdleJob EXCEPT !.op = op, !.pc = pc, !.jti = jti]
  <2>2. job.pc = pc /\ job.out = "none"
    BY DEF IdleJob
  <2>3. jobs'[h] = job /\ Others(h)
    BY <2>1 DEF ChainInv, TypeInv, Set, Others
  <2> HIDE DEF job
  <2>4. pc = "find" => spent'.logouts # 0
    BY <2>1 DEF Use, CalmInv, Spent
  <2>5. UNCHANGED <<root, live, grace>>
    BY <1>1 DEF Login, Refresh, Logout, Revoke, keys, history
  <2>6. Calm' => \A j \in Issued' : j \in live' \/ grace'[j] # NoJti
    BY <2>5, <1>0 DEF CalmInv, Issued, CalmBefore
  <2> QED BY <2>2, <2>3, <2>4, <2>6, <1>0, CalmJob
<1>2. ASSUME NEW h \in Slots, Mint(h) PROVE CalmInv'
  <2>1. PICK s \in Unminted :
         /\ Others(h) /\ live' = live \cup {s} /\ jobs'[h].out = jobs[h].out
         /\ jobs'[h].pc \in {"enrol", "rotate"}
         /\ root' = [root EXCEPT ![s] = s] \/ root' = root
    BY <1>2, JobAfter
  <2>2. grace' = grace /\ Issued' \subseteq Issued \cup {s}
    BY <1>2, <2>1, Quiet DEF Mint, Issued, Link
  <2>3. Calm' => \A j \in Issued' : j \in live' \/ grace'[j] # NoJti
    BY <2>1, <2>2, <1>0 DEF CalmInv, CalmBefore
  <2> QED BY <2>1, <2>3, <1>0, CalmJob DEF CalmInv, CalmBefore
<1>3. ASSUME NEW h \in Slots, Rotate(h) PROVE CalmInv'
  <2> DEFINE j == jobs[h].jti
             s == jobs[h].new
  <2>1. j \in Issued /\ (j \in live => s \in live) /\ s \in Jtis /\ s \notin Issued
        /\ Issued \subseteq Jtis
    BY <1>3, Quiet DEF Rotate, At, JobOK, Holds
  <2>2. CASE j \in live
    <3>1. /\ live' = live \ {j} /\ grace' = [grace EXCEPT ![j] = s]
          /\ root' = [root EXCEPT ![s] = root[j]]
      BY <1>3, <2>2 DEF Rotate, Consume
    <3>2. Others(h) /\ jobs'[h].pc = "answer" /\ jobs'[h].out = jobs[h].out
      BY <1>3, <2>2, JobAfter
    <3> HIDE DEF j, s
    <3>3. Issued' = Issued \cup {s}
      BY <2>1, <3>1, Quiet DEF Issued, Link
    <3>4. \A k \in Jtis : grace'[k] = IF k = j THEN s ELSE grace[k]
      BY <2>1, <3>1, Quiet
    <3>5. Calm' => \A k \in Issued' : k \in live' \/ grace'[k] # NoJti
      BY <2>1, <2>2, <3>1, <3>3, <3>4, <1>0, ConstantsOK DEF CalmInv, CalmBefore
    <3> QED BY <3>2, <3>5, <1>0, CalmJob DEF CalmInv, CalmBefore
  <2>3. CASE j \notin live
    <3>1. UNCHANGED <<live, grace, root>>
      BY <1>3, <2>3 DEF Rotate
    <3>2. /\ Others(h) /\ jobs'[h].pc = "drop"
          /\ jobs'[h].out = "replayed" => grace[j] = NoJti
      BY <1>3, <2>3, JobAfter
    <3> HIDE DEF j, s
    <3>3. Calm' => grace[j] # NoJti
      BY <2>1, <2>3, <1>0 DEF CalmInv, CalmBefore
    <3>4. Calm' => \A k \in Issued' : k \in live' \/ grace'[k] # NoJti
      BY <3>1, <1>0 DEF CalmInv, Issued, CalmBefore
    <3> QED BY <3>2, <3>3, <3>4, <1>0, CalmJob
  <2> QED BY <2>2, <2>3
<1>4. ASSUME NEW h \in Slots, Enrol(h) \/ Drop(h) \/ Hand(h) \/ Commit(h) \/ Bury(h) \/ Die(h)
      PROVE  CalmInv'
  <2>1. UNCHANGED <<root, grace>> /\ (live' = live \/ (jobs[h].pc = "drop" /\ live' = live \ {jobs[h].new}))
    BY <1>4 DEF Enrol, Drop, Hand, Commit, Bury, Die, At, keys, history
  <2>2. live \cap Issued \subseteq live' /\ Issued' = Issued
    BY <2>1, Quiet DEF JobOK, Holds, Issued
  <2>3. Others(h) /\ jobs'[h].pc \in {"idle", "answer", "sweep"}
        /\ (jobs'[h].out = "replayed" => jobs[h].out = "replayed")
    <3>1. IdleJob.pc = "idle" /\ IdleJob.out = "none"
      BY DEF IdleJob
    <3>2. CASE Enrol(h)
      BY <3>2, JobAfter
    <3>3. CASE Drop(h)
      BY <3>1, <3>3, JobAfter
    <3>4. CASE Hand(h) \/ Commit(h) \/ Bury(h) \/ Die(h)
      BY <3>1, <3>4, JobAfter
    <3> QED BY <1>4, <3>2, <3>3, <3>4
  <2>4. Calm' => \A j \in Issued' : j \in live' \/ grace'[j] # NoJti
    BY <2>1, <2>2, <1>0 DEF CalmInv, CalmBefore
  <2> QED BY <2>3, <2>4, <1>0, CalmJob DEF CalmInv, CalmBefore
<1>5. ASSUME NEW h \in Slots, Sweep(h) PROVE CalmInv'
  <2>1. Others(h) /\ jobs'[h].pc = "erase" /\ now' = now + 1
    BY <1>5, JobAfter DEF Sweep
  <2>2. now' # 0
    BY <2>1, Quiet
  <2> QED BY <2>1, <2>2, <1>0, CalmJob DEF Calm
<1>6. ASSUME NEW h \in Slots, Erase(h) \/ Raise(h) PROVE CalmInv'
  <2>1. Others(h) /\ jobs[h].pc \in {"erase", "raise"} /\ jobs'[h].pc \in {"raise", "commit"}
    BY <1>6, JobAfter
  <2>2. now # 0 /\ now' = now
    BY <1>6, <2>1 DEF CalmInv, Erase, Raise
  <2> QED BY <2>1, <2>2, <1>0, CalmJob DEF Calm
<1>7. ASSUME NEW h \in Slots, Find(h) \/ Clear(h) \/ Forget(h) PROVE CalmInv'
  <2>1. /\ Others(h) /\ jobs[h].pc \in {"find", "clear", "forget"}
        /\ jobs'[h].pc \in {"clear", "forget", "bury"}
    BY <1>7, JobAfter
  <2>2. spent.logouts # 0 /\ spent' = spent
    BY <1>7, <2>1 DEF CalmInv, Find, Clear, Forget
  <2> QED BY <2>1, <2>2, <1>0, CalmJob DEF Calm
<1>8. CASE GraceExpires \/ Flush
  <2>1. ~Calm'
    BY <1>8 DEF GraceExpires, Flush, Use, CalmInv, Spent, Calm
  <2>2. jobs' = jobs
    BY <1>8 DEF GraceExpires, Flush
  <2> QED BY <2>1, <2>2, <1>0 DEF CalmInv, CalmBefore
<1>9. CASE Reactivate \/ UNCHANGED vars
  <2>1. UNCHANGED <<jobs, root, live, grace>>
    BY <1>9 DEF Reactivate, vars, keys, history
  <2> QED BY <2>1, <1>0 DEF CalmInv, Issued, CalmBefore
<1> QED BY <1>1, <1>2, <1>3, <1>4, <1>5, <1>6, <1>7, <1>8, <1>9 DEF Next, Run

\* Tabs that refresh at the same moment are never taken for a theft: rotate_refresh_token
\* finds the marker of whichever of them came first.
THEOREM NoFalseAlarmHolds == Spec => []NoFalseAlarm
<1>1. Init => CalmInv
  <2> SUFFICES ASSUME Init PROVE CalmInv
    OBVIOUS
  <2>1. spent \in Spent /\ Issued = {}
    BY DEF Init, Spent, Issued, NoLink
  <2>2. \A h \in Slots : jobs[h].pc = "idle" /\ jobs[h].out = "none"
    BY DEF Init, IdleJob
  <2> QED BY <2>1, <2>2 DEF CalmInv
<1>2. ChainInv /\ CalmInv /\ [Next]_vars => CalmInv'
  BY CalmStep
<1>3. CalmInv => NoFalseAlarm
  <2>1. (\A bound \in {"expiries", "logouts", "flushes"} : spent[bound] = 0) /\ now = 0 => Calm
    BY DEF Calm
  <2> QED BY <2>1 DEF CalmInv, NoFalseAlarm
<1> QED BY <1>1, <1>2, <1>3, ChainsKept, PTL DEF Spec
=============================================================================
