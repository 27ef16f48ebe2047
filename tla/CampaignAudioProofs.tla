------------------------ MODULE CampaignAudioProofs -------------------------
(***************************************************************************)
(* What CampaignAudio promises of a slot's versions and of a campaign's      *)
(* status holds for any number of requests and attempts.                     *)
(***************************************************************************)
EXTENDS CampaignAudio, FiniteSetTheorems, TLAPS

Pc == {"new", "update", "archive", "insert", "retry", "check", "lock", "switch",
       "done", "conflict", "refused", "dead"}
Job == [pc : Pc, version : Nat, wasActive : BOOLEAN, seen : Statuses, tries : Nat,
        before : SUBSET Nat]

Count == Cardinality(versions)

TypeInv ==
  /\ status \in Statuses
  /\ Count \in Nat /\ versions = 1..Count
  /\ req \in [Requests -> Job]

\* An upload that found b versions, with n there now: every attempt that failed
\* lost a version to another upload.
Counted(job, n) ==
  job.pc \in {"insert", "retry", "refused"} =>
    \E b \in 0..n :
      /\ job.before = 1..b
      /\ job.pc = "insert" => job.version \in 1..(n + 1) /\ job.tries < job.version - b
      /\ job.pc # "insert" => job.tries <= n - b
      /\ job.pc = "refused" => job.tries >= MaxAttempts
Activating(job, n) == job.pc \in {"check", "lock", "switch"} => job.version \in 1..n
JobOK(job, n) ==
  /\ job.pc = "new" => job.tries = 0
  /\ Counted(job, n) /\ Activating(job, n)

AudioInv ==
  /\ TypeInv
  /\ \A r \in Requests : JobOK(req[r], Count)
  /\ \A r \in Requests : At(r, "archive") => status # "draft"
  /\ LastChoicePlays

-----------------------------------------------------------------------------

\* VALID_TRANSITIONS, entry by entry.
LEMMA Transitions ==
  /\ Statuses = {"draft", "paused", "live", "archived"}
  /\ ValidTransitions["draft"] = {"paused", "live"}
  /\ ValidTransitions["paused"] = {"live", "archived"}
  /\ ValidTransitions["live"] = {"paused", "archived"}
  /\ ValidTransitions["archived"] = {}
BY DEF Statuses, ValidTransitions

LEMMA Moves ==
  ASSUME NEW old \in Statuses, NEW new \in ValidTransitions[old]
  PROVE  new \in Statuses /\ new # "draft"
BY Transitions

LEMMA NewestOf ==
  ASSUME NEW n \in Nat
  PROVE  Newest(1..n) = n
<1>1. CASE n = 0
  BY <1>1 DEF Newest
<1>2. CASE n # 0
  <2>1. n \in 1..n /\ \A w \in 1..n : w <= n
    BY <1>2
  <2>2. \A v \in 1..n : (\A w \in 1..n : w <= v) => v = n
    BY <2>1
  <2>3. 1..n # {}
    BY <2>1
  <2> QED BY <2>1, <2>2, <2>3 DEF Newest
<1> QED BY <1>1, <1>2

LEMMA IntervalSize ==
  ASSUME NEW n \in Nat
  PROVE  Cardinality(1..n) = n
BY FS_Interval

LEMMA NewJob ==
  ASSUME NEW n \in Nat
  PROVE  NewRequest \in Job /\ JobOK(NewRequest, n)
BY Transitions DEF NewRequest, Job, Pc, JobOK, Counted, Activating

LEMMA InitAudio == Init => AudioInv
<1> SUFFICES ASSUME Init PROVE AudioInv
  OBVIOUS
<1>1. versions = 1..Recorded /\ Recorded \in Nat /\ Count = Recorded
  BY ConstantsOK, IntervalSize DEF Init, Count
<1>2. TypeInv
  BY <1>1, NewJob, Transitions DEF Init, TypeInv
<1>3. \A r \in Requests : JobOK(req[r], Count)
  BY <1>1, NewJob DEF Init
<1>4. \A r \in Requests : ~At(r, "archive")
  BY DEF Init, At, NewRequest
<1>5. LastChoicePlays
  <2>1. CASE active = {}
    BY <2>1 DEF Init, LastChoicePlays, Newest
  <2>2. ASSUME NEW v \in 1..Recorded, active = {v} PROVE LastChoicePlays
    <3>1. Newest({v}) = v
      BY <1>1 DEF Newest
    <3> QED BY <1>1, <2>2, <3>1 DEF Init, LastChoicePlays
  <2> QED BY <2>1, <2>2 DEF Init
<1> QED BY <1>2, <1>3, <1>4, <1>5 DEF AudioInv

-----------------------------------------------------------------------------

\* What a request may count on is not taken from it by others.
LEMMA Grows ==
  ASSUME NEW n \in Nat, NEW m \in Nat, n <= m, NEW job \in Job, JobOK(job, n)
  PROVE  JobOK(job, m)
<1>1. Activating(job, m)
  BY DEF JobOK, Activating, Job
<1>2. Counted(job, m)
  <2> SUFFICES ASSUME job.pc \in {"insert", "retry", "refused"} PROVE Counted(job, m)
    BY DEF Counted
  <2> PICK b \in 0..n :
        /\ job.before = 1..b
        /\ job.pc = "insert" => job.version \in 1..(n + 1) /\ job.tries < job.version - b
        /\ job.pc # "insert" => job.tries <= n - b
        /\ job.pc = "refused" => job.tries >= MaxAttempts
    BY DEF JobOK, Counted
  <2>1. /\ b \in 0..m
        /\ job.pc = "insert" => job.version \in 1..(m + 1)
        /\ job.pc # "insert" => job.tries <= m - b
    BY DEF Job
  <2> QED BY <2>1 DEF Counted
<1> QED BY <1>1, <1>2 DEF JobOK

\* A step of one request to a job that is right, versions having only been added.
LEMMA OneJob ==
  ASSUME AudioInv, NEW r \in Requests, NEW job \in Job, Set(r, job), JobOK(job, Count'),
         Count' \in Nat, Count <= Count', versions' = 1..Count',
         status' \in Statuses, status # "draft" => status' # "draft",
         job.pc = "archive" => status' # "draft", LastChoicePlays'
  PROVE  AudioInv'
<1>1. /\ req' \in [Requests -> Job] /\ req'[r] = job
      /\ \A q \in Requests \ {r} : req'[q] = req[q]
  BY DEF AudioInv, TypeInv, Set
<1>2. TypeInv'
  BY <1>1 DEF TypeInv
<1>3. ASSUME NEW q \in Requests PROVE JobOK(req'[q], Count')
  <2>1. CASE q = r
    BY <1>1, <2>1
  <2>2. CASE q # r
    <3>1. req[q] \in Job /\ JobOK(req[q], Count) /\ Count \in Nat
      BY DEF AudioInv, TypeInv
    <3> QED BY <1>1, <2>2, <3>1, Grows
  <2> QED BY <2>1, <2>2
<1>4. ASSUME NEW q \in Requests, At(q, "archive")' PROVE status' # "draft"
  BY <1>1, <1>4 DEF AudioInv, At
<1>5. \A q \in Requests : JobOK(req[q], Count)'
  BY <1>3
<1> QED BY <1>2, <1>4, <1>5 DEF AudioInv

\* The same when nothing but the request changes.
LEMMA OnlyJob ==
  ASSUME AudioInv, NEW r \in Requests, NEW job \in Job, Set(r, job), JobOK(job, Count),
         job.pc = "archive" => status # "draft",
         UNCHANGED <<status, versions, active, chosen, overtaken>>
  PROVE  AudioInv'
<1>1. Count' = Count
  BY DEF Count
<1>2. LastChoicePlays'
  BY DEF AudioInv, LastChoicePlays
<1> QED BY <1>1, <1>2, OneJob DEF AudioInv, TypeInv

\* A request goes to its end, or on with what it knows.
LEMMA EndJob ==
  ASSUME AudioInv, NEW r \in Requests,
         NEW pc \in {"update", "archive", "lock", "switch", "done", "conflict", "dead"},
         pc \in {"lock", "switch"} => req[r].pc \in {"check", "lock"}
  PROVE  [req[r] EXCEPT !.pc = pc] \in Job /\ JobOK([req[r] EXCEPT !.pc = pc], Count)
         /\ [req[r] EXCEPT !.pc = pc].pc = pc
<1> DEFINE job == req[r]
           new == [job EXCEPT !.pc = pc]
<1>1. job \in Job /\ JobOK(job, Count)
  BY DEF AudioInv, TypeInv
<1>2. new \in Job /\ new.pc = pc /\ new.version = job.version
  BY <1>1 DEF Job, Pc
<1>3. Activating(new, Count)
  BY <1>1, <1>2 DEF JobOK, Activating
<1>4. Counted(new, Count) /\ new.pc # "new"
  BY <1>2 DEF Counted
<1> QED BY <1>2, <1>3, <1>4 DEF JobOK

LEMMA StatusStep ==
  ASSUME AudioInv, NEW r \in Requests, ReadCampaign(r) \/ UpdateStatus(r) \/ Archive(r)
  PROVE  AudioInv'
<1>0. Count \in Nat /\ versions = 1..Count /\ status \in Statuses
  BY DEF AudioInv, TypeInv
<1>1. CASE ReadCampaign(r)
  <2> PICK next \in {"update", "archive"} :
         /\ next = "archive" => "archived" \in ValidTransitions[status]
         /\ Set(r, [NewRequest EXCEPT !.pc = next, !.seen = status])
    BY <1>1 DEF ReadCampaign
  <2> DEFINE new == [NewRequest EXCEPT !.pc = next, !.seen = status]
  <2>1. new \in Job /\ JobOK(new, Count) /\ new.pc = next
    BY <1>0, Transitions DEF NewRequest, Job, Pc, JobOK, Counted, Activating
  <2>2. next = "archive" => status # "draft"
    BY Transitions
  <2> QED BY <1>1, <2>1, <2>2, OnlyJob DEF ReadCampaign
<1>2. CASE UpdateStatus(r)
  <2> DEFINE pc == IF Unmoved(r) THEN "done" ELSE "conflict"
             new == [req[r] EXCEPT !.pc = pc]
  <2>1. new \in Job /\ JobOK(new, Count) /\ new.pc = pc
    BY EndJob
  <2>2. status' \in Statuses /\ (status # "draft" => status' # "draft")
    BY <1>0, <1>2, Moves DEF UpdateStatus, Unmoved
  <2>3. Count' = Count /\ versions' = versions /\ LastChoicePlays'
    BY <1>2 DEF UpdateStatus, Count, AudioInv, LastChoicePlays
  <2>4. Set(r, new)
    BY <1>2 DEF UpdateStatus, End
  <2>5. new.pc # "archive"
    BY <2>1
  <2> HIDE DEF new
  <2> QED BY <1>0, <2>1, <2>2, <2>3, <2>4, <2>5, OneJob
<1>3. CASE Archive(r)
  <2>1. [req[r] EXCEPT !.pc = "done"] \in Job /\ JobOK([req[r] EXCEPT !.pc = "done"], Count)
        /\ [req[r] EXCEPT !.pc = "done"].pc = "done"
    BY EndJob
  <2>2. status' \in Statuses /\ status' # "draft"
    BY <1>3, Transitions DEF Archive
  <2>3. Count' = Count /\ versions' = versions /\ LastChoicePlays'
    BY <1>3 DEF Archive, Count, AudioInv, LastChoicePlays
  <2> QED BY <1>0, <1>3, <2>1, <2>2, <2>3, OneJob DEF Archive, End
<1> QED BY <1>1, <1>2, <1>3

LEMMA NextVersionStep ==
  ASSUME AudioInv, NEW r \in Requests, NextVersion(r)
  PROVE  AudioInv'
<1> DEFINE job == req[r]
           n == Count
           before == IF At(r, "new") THEN versions ELSE job.before
           new == [job EXCEPT !.pc = "insert", !.version = n + 1, !.before = before]
<1>0. n \in Nat /\ versions = 1..n /\ job \in Job /\ JobOK(job, n)
  BY DEF AudioInv, TypeInv
<1>1. Newest(versions) = n /\ Set(r, new)
  BY <1>0, NewestOf DEF NextVersion
<1>6. before \in SUBSET Nat
  BY <1>0 DEF Job
<1> HIDE DEF before
<1>2. /\ new \in Job /\ new.pc = "insert" /\ new.version = n + 1 /\ new.tries = job.tries
      /\ new.before = before
  <2> HIDE DEF job, n
  <2>1. n + 1 \in Nat /\ "insert" \in Pc
    BY <1>0 DEF Pc
  <2> QED BY <1>0, <1>6, <2>1 DEF Job
<1> USE DEF before
<1> HIDE DEF new
<1>3. \E b \in 0..n : new.before = 1..b /\ new.tries <= n - b
  <2>1. CASE At(r, "new")
    <3>1. new.before = 1..n /\ new.tries = 0
      BY <1>0, <1>2, <2>1 DEF At, JobOK
    <3> QED BY <1>0, <3>1
  <2>2. CASE ~At(r, "new")
    BY <1>0, <1>2, <2>2 DEF NextVersion, At, JobOK, Counted
  <2> QED BY <2>1, <2>2
<1>4. Counted(new, n)
  <2> PICK b \in 0..n : new.before = 1..b /\ new.tries <= n - b
    BY <1>3
  <2>1. new.version \in 1..(n + 1) /\ new.tries < new.version - b
    BY <1>0, <1>2 DEF Job
  <2> QED BY <1>2, <2>1 DEF Counted
<1>5. JobOK(new, n)
  BY <1>2, <1>4 DEF JobOK, Activating
<1> QED BY <1>1, <1>2, <1>5, OnlyJob DEF NextVersion

LEMMA InsertStep ==
  ASSUME AudioInv, NEW r \in Requests, Insert(r)
  PROVE  AudioInv'
<1> DEFINE job == req[r]
           n == Count
           v == job.version
<1>0. n \in Nat /\ versions = 1..n /\ job \in Job /\ JobOK(job, n) /\ job.pc = "insert"
  BY DEF AudioInv, TypeInv, Insert, At
<1>1. PICK b \in 0..n : job.before = 1..b /\ v \in 1..(n + 1) /\ job.tries < v - b
  BY <1>0 DEF JobOK, Counted
<1>2. status' = status /\ active' = active /\ LastChoicePlays'
  BY DEF Insert, AudioInv, LastChoicePlays
<1>3. CASE v \in versions
  <2> DEFINE pc == IF job.tries + 1 = MaxAttempts THEN "refused" ELSE "retry"
             new == [job EXCEPT !.tries = @ + 1, !.pc = pc]
  <2>1. Set(r, new)
    BY <1>3 DEF Insert
  <2>2. /\ new \in Job /\ new.pc \in {"refused", "retry"} /\ new.tries = job.tries + 1
        /\ new.before = job.before /\ (new.pc = "refused" => job.tries + 1 = MaxAttempts)
    <3>1. pc \in Pc /\ pc \in {"refused", "retry"} /\ (pc = "refused" => job.tries + 1 = MaxAttempts)
      BY DEF Pc
    <3> DEFINE tries == job.tries + 1
    <3>2. tries \in Nat
      BY <1>0 DEF Job
    <3>3. new = [job EXCEPT !.tries = tries, !.pc = pc]
      OBVIOUS
    <3> HIDE DEF new, job, pc, tries
    <3>4. new \in Job /\ new.pc = pc /\ new.tries = tries /\ new.before = job.before
      BY <1>0, <3>1, <3>2, <3>3 DEF Job
    <3> QED BY <3>1, <3>4 DEF tries
  <2> HIDE DEF new
  <2>3. job.tries \in Nat /\ v \in 1..n
    BY <1>0, <1>3 DEF Job
  <2>4. new.tries <= n - b /\ (new.pc = "refused" => new.tries >= MaxAttempts)
    <3> HIDE DEF n, v, job
    <3> QED BY <1>0, <1>1, <2>2, <2>3, ConstantsOK
  <2>5. JobOK(new, n)
    BY <1>1, <2>2, <2>4 DEF JobOK, Counted, Activating
  <2> QED BY <1>3, <2>1, <2>2, <2>5, OnlyJob DEF Insert
<1>4. CASE v \notin versions
  <2>1. v = n + 1
    <3> HIDE DEF n, v
    <3> QED BY <1>0, <1>1, <1>4
  <2>8. versions' = 1..(n + 1)
    <3>1. versions' = versions \cup {v}
      BY <1>4 DEF Insert
    <3> HIDE DEF n, v
    <3> QED BY <1>0, <2>1, <3>1
  <2>2. Count' = n + 1
    BY <1>0, <2>8, IntervalSize DEF Count
  <2>3. [job EXCEPT !.pc = "done"] \in Job /\ JobOK([job EXCEPT !.pc = "done"], n)
        /\ [job EXCEPT !.pc = "done"].pc = "done"
    BY EndJob
  <2>4. JobOK([job EXCEPT !.pc = "done"], n + 1)
    <3>1. n + 1 \in Nat /\ n <= n + 1
      BY <1>0
    <3> QED BY <1>0, <2>3, <3>1, Grows
  <2>5. Set(r, [job EXCEPT !.pc = "done"])
    BY <1>4 DEF Insert, End
  <2>6. Count' \in Nat /\ Count <= Count' /\ versions' = 1..Count'
    BY <1>0, <2>2, <2>8
  <2>7. status' \in Statuses
    BY <1>2 DEF AudioInv, TypeInv
  <2> QED BY <1>2, <2>2, <2>3, <2>4, <2>5, <2>6, <2>7, OneJob
<1> QED BY <1>3, <1>4

LEMMA ActivateStep ==
  ASSUME AudioInv, NEW r \in Requests, LoadRecording(r) \/ CheckLive(r) \/ LockSlot(r) \/ Switch(r)
  PROVE  AudioInv'
<1> DEFINE job == req[r]
           n == Count
<1>0. n \in Nat /\ versions = 1..n /\ job \in Job /\ JobOK(job, n) /\ status \in Statuses
  BY DEF AudioInv, TypeInv
<1>1. CASE LoadRecording(r)
  <2> PICK v \in versions :
         Set(r, [NewRequest EXCEPT !.pc = "check", !.version = v, !.wasActive = v \in active])
    BY <1>1 DEF LoadRecording
  <2> DEFINE flag == v \in active
             new == [NewRequest EXCEPT !.pc = "check", !.version = v, !.wasActive = flag]
  <2>1. flag \in BOOLEAN
    OBVIOUS
  <2> HIDE DEF flag
  <2>7. v \in Nat /\ "draft" \in Statuses
    BY <1>0, Transitions
  <2>2. new \in Job /\ new.pc = "check" /\ new.version = v
    BY <2>1, <2>7 DEF NewRequest, Job, Pc
  <2>3. Set(r, new)
    BY DEF flag
  <2> HIDE DEF new
  <2>4. JobOK(new, n)
    BY <1>0, <2>2 DEF JobOK, Counted, Activating
  <2> QED BY <1>1, <2>2, <2>3, <2>4, OnlyJob DEF LoadRecording
<1>2. CASE CheckLive(r)
  <2> DEFINE pc == IF status = "live" THEN "conflict" ELSE "lock"
             new == [job EXCEPT !.pc = pc]
  <2>1. job.pc = "check" /\ Set(r, new)
    BY <1>2 DEF CheckLive, At, End
  <2>2. new \in Job /\ JobOK(new, n) /\ new.pc = pc
    BY <2>1, EndJob
  <2> HIDE DEF new
  <2> QED BY <1>2, <2>1, <2>2, OnlyJob DEF CheckLive
<1>3. CASE LockSlot(r)
  <2> DEFINE new == [job EXCEPT !.pc = "switch"]
  <2>1. job.pc = "lock" /\ Set(r, new)
    BY <1>3 DEF LockSlot, At, End
  <2>2. new \in Job /\ JobOK(new, n) /\ new.pc = "switch"
    BY <2>1, EndJob
  <2> HIDE DEF new
  <2> QED BY <1>3, <2>1, <2>2, OnlyJob DEF LockSlot
<1>4. CASE Switch(r)
  <2> DEFINE new == [job EXCEPT !.pc = "done"]
             v == job.version
  <2>1. Set(r, new) /\ job.pc = "switch"
    BY <1>4 DEF Switch, At, End
  <2>2. new \in Job /\ JobOK(new, n) /\ new.pc = "done"
    BY EndJob
  <2> HIDE DEF new
  <2>3. v # 0
    BY <1>0, <2>1 DEF JobOK, Activating
  <2>4. overtaken' \/ active' = {v}
    BY <1>4 DEF Switch, Others
  <2>5. LastChoicePlays'
    BY <1>4, <2>3, <2>4 DEF Switch, LastChoicePlays
  <2>6. Count' = n /\ versions' = versions /\ status' = status
    BY <1>4 DEF Switch, Count
  <2> QED BY <1>0, <2>1, <2>2, <2>5, <2>6, OneJob
<1> QED BY <1>1, <1>2, <1>3, <1>4

LEMMA DieStep ==
  ASSUME AudioInv, NEW r \in Requests, Die(r)
  PROVE  AudioInv'
BY EndJob, OnlyJob DEF Die, End

LEMMA AudioInductive == Spec => []AudioInv
<1>1. AudioInv /\ [Next]_vars => AudioInv'
  <2> SUFFICES ASSUME AudioInv, [Next]_vars PROVE AudioInv'
    OBVIOUS
  <2>1. CASE UNCHANGED vars
    BY <2>1 DEF vars, AudioInv, TypeInv, Count, At, LastChoicePlays
  <2>2. CASE \E r \in Requests : Run(r)
    BY <2>2, StatusStep, NextVersionStep, InsertStep, ActivateStep DEF Run
  <2> QED BY <2>1, <2>2, DieStep DEF Next
<1> QED BY <1>1, InitAudio, PTL DEF Spec

\* Activations of any number of versions leave the one committed last, but for the
\* case that an activation found its version active and lost it meanwhile
\* (audio.py, activate_audio).
THEOREM LastActivationPlays == Spec => []LastChoicePlays
<1>1. AudioInv => LastChoicePlays
  BY DEF AudioInv
<1> QED BY <1>1, AudioInductive, PTL

\* Every attempt of an upload that is told to try again lost its version to another
\* upload, so MaxAttempts of those were stored meanwhile (audio.py,
\* _insert_versioned).
THEOREM RefusalsBeaten == Spec => []RefusedOnlyIfBeaten
<1>1. AudioInv => RefusedOnlyIfBeaten
  <2> SUFFICES ASSUME AudioInv, NEW r \in Requests, At(r, "refused")
               PROVE  Cardinality(versions \ req[r].before) >= MaxAttempts
    BY DEF RefusedOnlyIfBeaten
  <2>1. Count \in Nat /\ versions = 1..Count /\ req[r] \in Job
    BY DEF AudioInv, TypeInv
  <2>2. PICK b \in 0..Count : /\ req[r].before = 1..b
                              /\ req[r].tries <= Count - b /\ req[r].tries >= MaxAttempts
    BY DEF AudioInv, JobOK, Counted, At
  <2>3. versions \ req[r].before = (b + 1)..Count
    BY <2>1, <2>2
  <2>4. b + 1 \in Int /\ Count \in Int
    BY <2>1
  <2>5. Cardinality((b + 1)..Count) = IF b + 1 > Count THEN 0 ELSE Count - (b + 1) + 1
    BY <2>4, FS_Interval
  <2>6. req[r].tries \in Nat /\ Count - b >= MaxAttempts
    BY <2>1, <2>2, ConstantsOK DEF Job
  <2>7. Cardinality((b + 1)..Count) >= MaxAttempts
    BY <2>2, <2>4, <2>5, <2>6, ConstantsOK
  <2> QED BY <2>3, <2>7
<1> QED BY <1>1, AudioInductive, PTL

\* A campaign's status only moves along VALID_TRANSITIONS, or to archived from a
\* status that allows it, although archive_campaign does not look again: what no
\* longer is a draft never becomes one (campaigns.py, archive_campaign).
THEOREM StatusesMove == Spec => StatusMovesValidly
<1>1. AudioInv /\ [Next]_vars => [status' # status => status' \in ValidTransitions[status]]_status
  <2> SUFFICES ASSUME AudioInv, [Next]_vars, status' # status
               PROVE  status' \in ValidTransitions[status]
    OBVIOUS
  <2>1. status \in Statuses
    BY DEF AudioInv, TypeInv
  <2>2. PICK r \in Requests : Run(r) \/ Die(r)
    BY DEF Next, vars
  <2>3. CASE UpdateStatus(r)
    BY <2>3 DEF UpdateStatus, Unmoved
  <2>4. CASE Archive(r)
    BY <2>1, <2>4, Transitions DEF Archive, AudioInv
  <2> QED BY <2>2, <2>3, <2>4
          DEF Run, Die, ReadCampaign, NextVersion, Insert, LoadRecording, CheckLive, LockSlot, Switch
<1> QED BY <1>1, AudioInductive, PTL DEF Spec, StatusMovesValidly
=============================================================================
