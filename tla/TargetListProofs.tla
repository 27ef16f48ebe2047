-------------------------- MODULE TargetListProofs --------------------------
(***************************************************************************)
(* The locks of the target list, the errors of its last import, the targets   *)
(* that calls need, the places of the list and the external ids of its        *)
(* targets, for any number of requests, calls and targets.                    *)
(***************************************************************************)
EXTENDS TargetList, FiniteSetTheorems, TLAPS

Fields == DOMAIN NewRequest
Kinds == DOMAIN FirstStep

Shape ==
  /\ DOMAIN req = Requests /\ req = [r \in Requests |-> req[r]]
  /\ \A r \in Requests : DOMAIN req[r] = Fields /\ req[r].drop \in BOOLEAN
  /\ lock \in [by : Requests \cup {Nobody}, low : BOOLEAN]
  /\ DOMAIN state = Sessions /\ DOMAIN reads = Sessions

\* Which kind of request can be where.
KindOK(job) ==
  /\ job.pc \in {"acquire", "parse", "written", "note", "release"} => job.kind = "import"
  /\ job.pc \in {"lock", "known", "top"} => job.kind \in {"import", "add"}
  /\ job.pc \in {"unlink", "count", "scan"} => job.kind = "remove"
  /\ job.drop => job.kind = "remove" /\ job.pc = "write"

\* A request that can hold the campaign's lock, and one that can hold its row.
Adds(job) == job.kind \in {"import", "add"} /\ job.pc \in {"known", "top", "write", "written"}
Reorders(job) == job.kind = "reorder" /\ job.pc = "write"
LockInv ==
  /\ advisory # Nobody => advisory \in Requests /\ Adds(req[advisory])
  /\ row # Nobody => row \in Requests /\ Reorders(req[row])

Imports(job) == job.kind = "import" /\ job.pc \notin {"acquire", "done"}

ErrorInv ==
  lapsed = {} =>
    /\ \A r \in Requests : At(r, "note") => lastImport = r
    /\ ~unsaved => errorsOf \in {Nobody, lastImport}

Needs(s, t) == t \in state[s] \/ <<s, t>> \in logged
CallsKept == \A s \in Sessions : \A t : Needs(s, t) => t \in DOMAIN ext \/ <<s, t>> \in late

\* A removal has seen every call that needs its target, but those that came while
\* it looked; one that will delete the row has found none.
Watches(job) ==
  \A s \in Sessions :
    /\ job.pc = "scan" =>
         /\ job.tgt \in state[s] => s \in job.seen \/ <<s, job.tgt>> \in late
         /\ <<s, job.tgt>> \in logged =>
              <<s, job.tgt>> \in late \/ (s \in job.seen /\ job.tgt \in state[s])
    /\ job.drop => (Needs(s, job.tgt) => <<s, job.tgt>> \in late)

Inv ==
  /\ Shape /\ LockInv /\ OwnLockKept /\ ErrorInv /\ CallsKept
  /\ \A r \in Requests : KindOK(req[r]) /\ Watches(req[r])

-----------------------------------------------------------------------------
(* The start                                                               *)

LEMMA FieldsAre ==
  Fields = {"kind", "pc", "tgt", "file", "known", "top", "ask", "old", "seen", "drop"}
BY DEF Fields, NewRequest

LEMMA InitInv == Init => Inv
<1> SUFFICES ASSUME Init PROVE Inv
  OBVIOUS
<1>1. Shape
  BY DEF Init, Shape, Fields, NewRequest, Free
<1>2. LockInv /\ OwnLockKept /\ ErrorInv
  BY DEF Init, LockInv, OwnLockKept, ErrorInv, NewRequest, At
<1>3. CallsKept
  BY DEF Init, CallsKept, Needs
<1>4. \A r \in Requests : KindOK(req[r]) /\ Watches(req[r])
  BY DEF Init, KindOK, Watches, NewRequest
<1> QED BY <1>1, <1>2, <1>3, <1>4 DEF Inv

-----------------------------------------------------------------------------
(* Steps of a request                                                      *)

LEMMA SetShape ==
  ASSUME Shape, NEW r \in Requests, NEW job, Set(r, job), DOMAIN job = Fields, job.drop \in BOOLEAN,
         lock' \in [by : Requests \cup {Nobody}, low : BOOLEAN], UNCHANGED <<state, reads>>
  PROVE  /\ Shape'
         /\ req'[r] = job /\ \A q \in Requests \ {r} : req'[q] = req[q]
BY DEF Shape, Set

\* What a step leaves of the locks when it hands none to another request.
LEMMA LocksKept ==
  ASSUME Inv, NEW r \in Requests, NEW job, req'[r] = job, \A q \in Requests \ {r} : req'[q] = req[q],
         advisory' \in {advisory, Nobody, r}, advisory' = r => Adds(job),
         row' \in {row, Nobody, r}, row' = r => Reorders(job)
  PROVE  LockInv'
BY ConstantsOK DEF Inv, LockInv

\* A step of one request that leaves the import lock and the calls alone, deletes no
\* row, and does not begin to look for calls.
LEMMA Moved ==
  ASSUME Inv, NEW r \in Requests, NEW job, Set(r, job), DOMAIN job = Fields, job.drop = FALSE,
         KindOK(job),
         advisory' \in {advisory, Nobody, r}, advisory' = r => Adds(job),
         row' \in {row, Nobody, r}, row' = r => Reorders(job),
         Imports(job) => Imports(req[r]),
         job.pc \notin {"note", "scan"}, DOMAIN ext \subseteq DOMAIN ext',
         UNCHANGED <<redis, calls, lapsed, lastImport, unsaved>>
  PROVE  Inv'
<1>0. UNCHANGED <<lock, errorsOf, state, reads, logged, late>>
  BY DEF redis, calls
<1>1. Shape' /\ req'[r] = job /\ \A q \in Requests \ {r} : req'[q] = req[q]
  BY <1>0, SetShape DEF Inv, Shape
<1>2. LockInv'
  BY <1>1, LocksKept
<1>3. OwnLockKept'
  BY <1>0, <1>1 DEF Inv, OwnLockKept, Imports
<1>4. ErrorInv'
  BY <1>0, <1>1 DEF Inv, ErrorInv, At
<1>5. CallsKept'
  BY <1>0 DEF Inv, CallsKept, Needs
<1>6. \A q \in Requests : KindOK(req'[q]) /\ Watches(req[q])'
  BY <1>0, <1>1 DEF Inv, Watches, Needs
<1> QED BY <1>1, <1>2, <1>3, <1>4, <1>5, <1>6 DEF Inv

\* A request's record once its step, and some of its data, have changed.
LEMMA JobIs ==
  ASSUME Inv, NEW r \in Requests, NEW pc
  PROVE  /\ DOMAIN req[r] = Fields /\ req[r].drop \in BOOLEAN /\ KindOK(req[r]) /\ Watches(req[r])
         /\ LET job == [req[r] EXCEPT !.pc = pc]
            IN  /\ DOMAIN job = Fields /\ job.pc = pc /\ job.kind = req[r].kind
                /\ job.drop = req[r].drop /\ job.tgt = req[r].tgt /\ job.seen = req[r].seen
BY FieldsAre DEF Inv, Shape

LEMMA DoneIs ==
  LET job == [NewRequest EXCEPT !.pc = "done"]
  IN  DOMAIN job = Fields /\ job.pc = "done" /\ job.kind = "none" /\ job.drop = FALSE
BY DEF NewRequest, Fields

LEMMA AnswerStep ==
  ASSUME Inv, NEW r \in Requests, Answer(r),
         advisory' \in {advisory, Nobody}, advisory' # r \/ r = Nobody,
         row' \in {row, Nobody}, row' # r \/ r = Nobody,
         DOMAIN ext \subseteq DOMAIN ext', UNCHANGED <<redis, calls, lapsed, lastImport, unsaved>>
  PROVE  Inv'
<1> DEFINE job == [NewRequest EXCEPT !.pc = "done"]
<1>1. DOMAIN job = Fields /\ job.pc = "done" /\ job.kind = "none" /\ job.drop = FALSE
  BY DoneIs
<1>2. Set(r, job) /\ r # Nobody
  BY ConstantsOK DEF Answer
<1> HIDE DEF job
<1>3. KindOK(job) /\ ~Imports(job)
  BY <1>1 DEF KindOK, Imports
<1> QED BY <1>1, <1>2, <1>3, Moved

\* Freed takes both locks from the request it is for.
LEMMA FreedIs ==
  ASSUME NEW r \in Requests, Freed(r)
  PROVE  /\ advisory' \in {advisory, Nobody} /\ advisory' # r
         /\ row' \in {row, Nobody} /\ row' # r
BY ConstantsOK DEF Freed

LEMMA FailStep ==
  ASSUME Inv, NEW r \in Requests, Fail(r), ~At(r, "acquire"), ~At(r, "done"),
         UNCHANGED <<redis, calls, lapsed, lastImport, unsaved>>
  PROVE  Inv'
<1>0. ext' = ext
  BY DEF Fail
<1>1. CASE req[r].kind = "import"
  <2> DEFINE job == [req[r] EXCEPT !.pc = "release"]
  <2>1. DOMAIN job = Fields /\ job.pc = "release" /\ job.kind = "import" /\ job.drop = req[r].drop
    BY <1>1, JobIs
  <2>2. req[r].drop = FALSE
    BY <1>1, JobIs DEF KindOK
  <2>3. Set(r, job) /\ Imports(req[r])
    BY <1>1 DEF Fail, Step, Imports, At
  <2> HIDE DEF job
  <2>4. KindOK(job)
    BY <2>1, <2>2 DEF KindOK
  <2> QED BY <1>0, <2>1, <2>2, <2>3, <2>4, FreedIs, Moved DEF Fail
<1>2. CASE req[r].kind # "import"
  BY <1>0, <1>2, FreedIs, AnswerStep DEF Fail
<1> QED BY <1>1, <1>2

\* A request goes on to another step, its data kept.
LEMMA GoesOn ==
  ASSUME Inv, NEW r \in Requests, NEW pc, Step(r, pc), ~req[r].drop,
         ~At(r, "acquire"), ~At(r, "done"), pc \notin {"note", "scan"},
         LET job == [req[r] EXCEPT !.pc = pc] IN
           /\ KindOK(job)
           /\ advisory' = r => Adds(job)
           /\ row' = r => Reorders(job),
         advisory' \in {advisory, Nobody, r}, row' \in {row, Nobody, r},
         ext' = ext, UNCHANGED <<redis, calls, lapsed, lastImport, unsaved>>
  PROVE  Inv'
<1> DEFINE job == [req[r] EXCEPT !.pc = pc]
<1>1. DOMAIN job = Fields /\ job.pc = pc /\ job.kind = req[r].kind /\ job.drop = FALSE
  BY JobIs
<1>2. Set(r, job) /\ KindOK(job) /\ (advisory' = r => Adds(job)) /\ (row' = r => Reorders(job))
  BY DEF Step
<1> HIDE DEF job
<1>3. Imports(job) => Imports(req[r])
  BY <1>1 DEF Imports, At
<1> QED BY <1>1, <1>2, <1>3, Moved

-----------------------------------------------------------------------------
(* The handlers                                                            *)

LEMMA BeginStep ==
  ASSUME Inv, NEW r \in Requests, Begin(r)
  PROVE  Inv'
<1> PICK kind \in Kinds : Set(r, [NewRequest EXCEPT !.kind = kind, !.pc = FirstStep[kind]])
  BY DEF Begin, Kinds
<1> DEFINE first == FirstStep[kind]
           job == [NewRequest EXCEPT !.kind = kind, !.pc = first]
<1>1. /\ first \in {"acquire", "lock", "read"} /\ (first = "acquire" => kind = "import")
      /\ (first = "lock" => kind = "add") /\ (kind = "import" => first = "acquire")
  BY DEF FirstStep, Kinds
<1> HIDE DEF first
<1>2. DOMAIN job = Fields /\ job.kind = kind /\ job.pc = first /\ job.drop = FALSE
  BY DEF NewRequest, Fields
<1>3. Set(r, job)
  BY DEF first
<1> HIDE DEF job
<1>4. KindOK(job) /\ ~Imports(job)
  BY <1>1, <1>2 DEF KindOK, Imports
<1>5. advisory' = advisory /\ row' = row /\ advisory # r /\ row # r
  BY ConstantsOK DEF Begin, database, Inv, LockInv, Adds, Reorders, At
<1>6. UNCHANGED <<ext, redis, calls, lapsed, lastImport, unsaved>>
  BY DEF Begin, database, history
<1> QED BY <1>1, <1>2, <1>3, <1>4, <1>5, <1>6, Moved

\* Neither lock is held by a request at another step than those that hold it.
LEMMA HoldsNone ==
  ASSUME Inv, NEW r \in Requests
  PROVE  /\ ~Adds(req[r]) => advisory # r
         /\ ~Reorders(req[r]) => row # r
         /\ r # Nobody
BY ConstantsOK DEF Inv, LockInv

LEMMA AddStep ==
  ASSUME Inv, NEW r \in Requests, Lock(r) \/ NextOrder(r) \/ AddCommit(r)
  PROVE  Inv'
<1>0. KindOK(req[r]) /\ req[r].drop \in BOOLEAN
  BY JobIs
<1>1. CASE Lock(r)
  <2>0. PICK pc \in {"known", "top"} : Step(r, pc)
    BY <1>1 DEF Lock
  <2> DEFINE job == [req[r] EXCEPT !.pc = pc]
  <2>1. job.pc = pc /\ job.kind = req[r].kind /\ job.drop = req[r].drop
    BY JobIs
  <2>2. req[r].kind \in {"import", "add"} /\ ~req[r].drop /\ ~Reorders(req[r])
    BY <1>0, <1>1 DEF Lock, At, KindOK, Reorders
  <2>3. KindOK(job) /\ Adds(job)
    BY <2>1, <2>2 DEF KindOK, Adds
  <2> HIDE DEF job
  <2>4. row' # r
    BY <1>1, <2>2, HoldsNone DEF Lock
  <2>5. /\ advisory' = r /\ row' = row /\ ext' = ext
        /\ UNCHANGED <<redis, calls, lapsed, lastImport, unsaved>>
        /\ ~At(r, "acquire") /\ ~At(r, "done")
    BY <1>1 DEF Lock, history, At
  <2> QED BY <2>0, <2>2, <2>3, <2>4, <2>5, GoesOn DEF job
<1>2. CASE NextOrder(r)
  <2> DEFINE orders == RangeOf(list)
             top == IF orders = {} THEN 0
                    ELSE 1 + CHOOSE n \in orders : \A m \in orders : m <= n
             job == [req[r] EXCEPT !.pc = "write", !.top = top]
  <2>1. Set(r, job)
    BY <1>2 DEF NextOrder
  <2> HIDE DEF top
  <2>2. DOMAIN job = Fields /\ job.pc = "write" /\ job.kind = req[r].kind /\ job.drop = req[r].drop
    BY JobIs, FieldsAre
  <2> HIDE DEF job
  <2>3. req[r].kind \in {"import", "add"} /\ ~req[r].drop /\ ~Reorders(req[r]) /\ req[r].pc = "top"
    BY <1>0, <1>2 DEF NextOrder, At, KindOK, Reorders
  <2>4. KindOK(job) /\ Adds(job) /\ (Imports(job) => Imports(req[r])) /\ job.drop = FALSE
    BY <2>2, <2>3 DEF KindOK, Adds, Imports
  <2>5. UNCHANGED <<advisory, row, ext, redis, calls, lapsed, lastImport, unsaved>>
    BY <1>2 DEF NextOrder, database
  <2> QED BY <2>1, <2>2, <2>3, <2>4, <2>5, HoldsNone, Moved
<1>3. CASE AddCommit(r)
  <2>1. PICK f : ext' = Joined(f, ext)
    BY <1>3 DEF AddCommit
  <2>2. DOMAIN ext \subseteq DOMAIN ext'
    BY <2>1 DEF Joined
  <2>3. UNCHANGED <<redis, calls, lapsed, lastImport, unsaved>> /\ Freed(r) /\ Answer(r)
    BY <1>3 DEF AddCommit
  <2> QED BY <2>2, <2>3, FreedIs, AnswerStep
<1> QED BY <1>1, <1>2, <1>3

LEMMA UpdateStep ==
  ASSUME Inv, NEW r \in Requests, PickTarget(r) \/ UpdateCommit(r)
  PROVE  Inv'
<1>0. KindOK(req[r]) /\ req[r].drop \in BOOLEAN
  BY JobIs
<1>1. CASE PickTarget(r)
  <2>1. PICK t \in DOMAIN list, pc \in {"write", "unlink"} :
          /\ Set(r, [req[r] EXCEPT !.tgt = t, !.pc = pc])
          /\ pc = "unlink" => req[r].kind = "remove"
    <3>1. CASE req[r].kind = "update"
      BY <1>1, <3>1 DEF PickTarget
    <3>2. CASE req[r].kind = "remove"
      BY <1>1, <3>2 DEF PickTarget
    <3> QED BY <1>1, <3>1, <3>2 DEF PickTarget
  <2> DEFINE job == [req[r] EXCEPT !.tgt = t, !.pc = pc]
  <2>2. DOMAIN job = Fields /\ job.pc = pc /\ job.kind = req[r].kind /\ job.drop = req[r].drop
    BY JobIs, FieldsAre
  <2>3. Set(r, job)
    BY <2>1
  <2> HIDE DEF job
  <2>4. req[r].kind \in {"update", "remove"} /\ ~req[r].drop /\ req[r].pc = "read"
    BY <1>0, <1>1 DEF PickTarget, At, KindOK
  <2>5. KindOK(job) /\ ~Imports(job) /\ job.drop = FALSE
    BY <2>1, <2>2, <2>4 DEF KindOK, Imports
  <2>6. UNCHANGED <<advisory, row, ext, redis, calls, lapsed, lastImport, unsaved>>
    BY <1>1 DEF PickTarget, database, history
  <2>7. advisory # r /\ row # r
    BY <2>4, HoldsNone DEF Adds, Reorders
  <2> QED BY <2>1, <2>2, <2>3, <2>5, <2>6, <2>7, Moved
<1>2. CASE UpdateCommit(r)
  <2>1. req[r].kind = "update" /\ row = Nobody /\ req[r].pc = "write"
    BY <1>2 DEF UpdateCommit, Doing
  <2>2. UNCHANGED <<redis, calls, lapsed, lastImport, unsaved>>
    BY <1>2 DEF UpdateCommit
  <2>3. CASE req[r].tgt \in DOMAIN ext
    <3>1. Answer(r) /\ advisory' = advisory /\ row' = row /\ DOMAIN ext' = DOMAIN ext
      BY <1>2, <2>3 DEF UpdateCommit
    <3>2. advisory # r /\ row # r
      BY <2>1, HoldsNone DEF Adds, Reorders
    <3> QED BY <2>2, <3>1, <3>2, AnswerStep
  <2>4. CASE req[r].tgt \notin DOMAIN ext
    BY <1>2, <2>1, <2>2, <2>4, FailStep DEF UpdateCommit, At
  <2> QED BY <2>3, <2>4
<1> QED BY <1>1, <1>2

\* A step of one request that changes the import lock, the errors or the history of
\* imports, and neither the calls nor, but by adding rows, the targets.
LEMMA ImportMoved ==
  ASSUME Inv, NEW r \in Requests, NEW job, Set(r, job), DOMAIN job = Fields, job.drop = FALSE,
         KindOK(job), job.pc # "scan", DOMAIN ext \subseteq DOMAIN ext',
         advisory' \in {advisory, Nobody}, row' \in {row, Nobody},
         advisory' = r => Adds(job), row' = r => Reorders(job),
         lock' \in [by : Requests \cup {Nobody}, low : BOOLEAN],
         lock'.by = lock.by \/ lock.by \in {r, Nobody},
         Imports(job) => r \in lapsed \/ lock'.by = r,
         ErrorInv', lapsed' = lapsed, UNCHANGED calls
  PROVE  Inv'
<1>0. UNCHANGED <<state, reads, logged, late>>
  BY DEF calls
<1>1. Shape' /\ req'[r] = job /\ \A q \in Requests \ {r} : req'[q] = req[q]
  BY <1>0, SetShape DEF Inv
<1>2. LockInv'
  BY <1>1, LocksKept
<1>3. OwnLockKept'
  BY ConstantsOK, <1>1 DEF Inv, OwnLockKept, Imports
<1>4. CallsKept'
  BY <1>0 DEF Inv, CallsKept, Needs
<1>5. \A q \in Requests : KindOK(req'[q]) /\ Watches(req[q])'
  BY <1>0, <1>1 DEF Inv, Watches, Needs
<1> QED BY <1>1, <1>2, <1>3, <1>4, <1>5 DEF Inv

\* The import that holds the lock, when none expired, is the only one.
LEMMA OneImport ==
  ASSUME Inv, NEW r \in Requests, Imports(req[r]), lapsed = {}
  PROVE  lock.by = r /\ \A q \in Requests : Imports(req[q]) => q = r
BY DEF Inv, OwnLockKept, Imports

\* What an import's handler is like at the steps named.
LEMMA AtImport ==
  ASSUME Inv, NEW r \in Requests, NEW pc \in {"acquire", "parse", "written", "note", "release"}, At(r, pc)
  PROVE  /\ req[r].kind = "import" /\ ~req[r].drop /\ (pc # "acquire" => Imports(req[r]))
         /\ ~Reorders(req[r]) /\ (pc # "written" => ~Adds(req[r]))
         /\ pc # "acquire" => r \in lapsed \/ lock.by = r
<1>1. KindOK(req[r]) /\ req[r].drop \in BOOLEAN
  BY JobIs
<1>2. req[r].kind = "import" /\ ~req[r].drop /\ (pc # "acquire" => Imports(req[r]))
  BY <1>1 DEF KindOK, At, Imports
<1> QED BY <1>2 DEF Reorders, Adds, At, Inv, OwnLockKept, Imports

LEMMA AcquireStep ==
  ASSUME Inv, NEW r \in Requests, Acquire(r)
  PROVE  Inv'
<1>0. /\ req[r].kind = "import" /\ ~req[r].drop /\ advisory # r /\ row # r /\ r # Nobody
  BY AtImport, HoldsNone DEF Acquire
<1>1. UNCHANGED <<advisory, row, ext, errorsOf, calls, lapsed, lastImport, unsaved>>
  BY DEF Acquire, database, history
<1>2. CASE lock = Free
  <2> DEFINE job == [req[r] EXCEPT !.pc = "parse"]
  <2>1. DOMAIN job = Fields /\ job.pc = "parse" /\ job.kind = "import" /\ job.drop = req[r].drop
    BY <1>0, JobIs
  <2>2. Set(r, job) /\ lock' = [by |-> r, low |-> FALSE]
    BY <1>2 DEF Acquire, Step
  <2> HIDE DEF job
  <2>3. KindOK(job) /\ job.drop = FALSE
    BY <1>0, <2>1, JobIs DEF KindOK
  <2>4. lock.by = Nobody /\ lock'.by = r /\ lock' \in [by : Requests \cup {Nobody}, low : BOOLEAN]
    BY <1>2, <2>2 DEF Free
  <2>5. ErrorInv'
    <3>1. \A q \in Requests : At(q, "note")' => At(q, "note")
      BY <2>1, <2>2 DEF Set, At, Inv, Shape
    <3> QED BY <1>1, <3>1 DEF Inv, ErrorInv
  <2> QED BY <1>0, <1>1, <2>1, <2>2, <2>3, <2>4, <2>5, ImportMoved
<1>3. CASE lock # Free
  BY <1>0, <1>1, <1>3, AnswerStep DEF Acquire, redis
<1> QED BY <1>2, <1>3

LEMMA ReadFileStep ==
  ASSUME Inv, NEW r \in Requests, Parse(r) \/ Known(r)
  PROVE  Inv'
<1>0. KindOK(req[r]) /\ req[r].drop \in BOOLEAN
  BY JobIs
<1>1. UNCHANGED <<advisory, row, ext, redis, calls, lapsed, lastImport, unsaved>>
  BY DEF Parse, Known, database, history
<1>2. CASE Parse(r)
  <2>0. /\ req[r].kind = "import" /\ ~req[r].drop /\ Imports(req[r]) /\ advisory # r /\ row # r
    BY <1>2, AtImport, HoldsNone DEF Parse
  <2>1. CASE Step(r, "release")
    <3> DEFINE job == [req[r] EXCEPT !.pc = "release"]
    <3>1. DOMAIN job = Fields /\ job.pc = "release" /\ job.kind = "import" /\ job.drop = req[r].drop
      BY <2>0, JobIs
    <3>2. Set(r, job)
      BY <2>1 DEF Step
    <3> HIDE DEF job
    <3>3. KindOK(job) /\ job.drop = FALSE
      BY <1>0, <2>0, <3>1 DEF KindOK
    <3> QED BY <1>1, <2>0, <3>1, <3>2, <3>3, Moved
  <2>2. CASE \E file \in Files : Set(r, [req[r] EXCEPT !.pc = "lock", !.file = file])
    <3> PICK file \in Files : Set(r, [req[r] EXCEPT !.pc = "lock", !.file = file])
      BY <2>2
    <3> DEFINE job == [req[r] EXCEPT !.pc = "lock", !.file = file]
    <3>1. DOMAIN job = Fields /\ job.pc = "lock" /\ job.kind = "import" /\ job.drop = req[r].drop
      BY <2>0, JobIs, FieldsAre
    <3>2. Set(r, job)
      OBVIOUS
    <3> HIDE DEF job
    <3>3. KindOK(job) /\ job.drop = FALSE
      BY <1>0, <2>0, <3>1 DEF KindOK
    <3> QED BY <1>1, <2>0, <3>1, <3>2, <3>3, Moved
  <2> QED BY <1>2, <2>1, <2>2 DEF Parse
<1>3. CASE Known(r)
  <2> PICK known : Set(r, [req[r] EXCEPT !.pc = "top", !.known = known])
    BY <1>3 DEF Known
  <2> DEFINE job == [req[r] EXCEPT !.pc = "top", !.known = known]
  <2>1. DOMAIN job = Fields /\ job.pc = "top" /\ job.kind = req[r].kind /\ job.drop = req[r].drop
    BY JobIs, FieldsAre
  <2>2. Set(r, job)
    OBVIOUS
  <2> HIDE DEF job
  <2>3. req[r].kind \in {"import", "add"} /\ ~req[r].drop /\ req[r].pc = "known" /\ row # r
    BY <1>0, <1>3, HoldsNone DEF Known, At, KindOK, Reorders
  <2>4. KindOK(job) /\ job.drop = FALSE /\ Adds(job) /\ (Imports(job) => Imports(req[r]))
    BY <1>0, <2>1, <2>3 DEF KindOK, Adds, Imports
  <2> QED BY <1>1, <2>1, <2>2, <2>3, <2>4, Moved
<1> QED BY <1>2, <1>3

LEMMA ImportWriteStep ==
  ASSUME Inv, NEW r \in Requests, ImportWrite(r)
  PROVE  Inv'
<1>0. req[r].kind = "import" /\ req[r].pc = "write" /\ row # r /\ KindOK(req[r]) /\ req[r].drop \in BOOLEAN
  BY JobIs, HoldsNone DEF ImportWrite, Doing, Reorders
<1>1. UNCHANGED <<redis, calls, lapsed, lastImport, unsaved>>
  BY DEF ImportWrite, history
<1>2. CASE Step(r, "written") /\ UNCHANGED database
  <2> DEFINE job == [req[r] EXCEPT !.pc = "written"]
  <2>1. DOMAIN job = Fields /\ job.pc = "written" /\ job.kind = "import" /\ job.drop = req[r].drop
    BY <1>0, JobIs
  <2>2. Set(r, job)
    BY <1>2 DEF Step
  <2> HIDE DEF job
  <2>3. KindOK(job) /\ job.drop = FALSE /\ Adds(job) /\ Imports(req[r])
    BY <1>0, <2>1 DEF KindOK, Adds, Imports
  <2>4. UNCHANGED <<advisory, row, ext>>
    BY <1>2 DEF database
  <2> QED BY <1>0, <1>1, <2>1, <2>2, <2>3, <2>4, Moved
<1>3. CASE Fail(r)
  BY <1>0, <1>1, <1>3, FailStep DEF At
<1> QED BY <1>2, <1>3 DEF ImportWrite

LEMMA HeartbeatStep ==
  ASSUME Inv, NEW r \in Requests, Heartbeat(r)
  PROVE  Inv'
<1>1. lock'.by = lock.by /\ lock' \in [by : Requests \cup {Nobody}, low : BOOLEAN]
  BY DEF Heartbeat, Refreshed, Inv, Shape
<1>2. UNCHANGED <<advisory, row, ext, errorsOf, state, reads, logged, late, req, lapsed, lastImport, unsaved>>
  BY DEF Heartbeat, database, calls, history
<1> QED BY <1>1, <1>2
  DEF Inv, Shape, LockInv, OwnLockKept, ErrorInv, At, CallsKept, Needs, Watches

LEMMA ImportCommitStep ==
  ASSUME Inv, NEW r \in Requests, ImportCommit(r)
  PROVE  Inv'
<1>0. /\ req[r].kind = "import" /\ ~req[r].drop /\ Imports(req[r]) /\ (r \in lapsed \/ lock.by = r)
      /\ KindOK(req[r]) /\ req[r].drop \in BOOLEAN
  BY AtImport, JobIs DEF ImportCommit, Doing, At
<1>1. /\ lastImport' = r /\ unsaved' = TRUE /\ UNCHANGED <<lock, errorsOf, calls, lapsed>>
      /\ Freed(r) /\ Step(r, "note")
  BY DEF ImportCommit, redis
<1>2. DOMAIN ext \subseteq DOMAIN ext'
  <2>1. PICK f : ext' = Joined(f, ext)
    BY DEF ImportCommit
  <2> QED BY <2>1 DEF Joined
<1> DEFINE job == [req[r] EXCEPT !.pc = "note"]
<1>3. DOMAIN job = Fields /\ job.pc = "note" /\ job.kind = "import" /\ job.drop = req[r].drop
  BY <1>0, JobIs
<1>4. Set(r, job)
  BY <1>1 DEF Step
<1> HIDE DEF job
<1>5. KindOK(job) /\ job.drop = FALSE
  BY <1>0, <1>3 DEF KindOK
<1>6. ErrorInv'
  <2>1. ASSUME lapsed = {}, NEW q \in Requests, At(q, "note")' PROVE q = r
    <3>1. CASE q # r
      <4>1. At(q, "note") /\ Imports(req[q])
        BY <1>4, <2>1, <3>1, AtImport DEF Set, At, Inv, Shape
      <4> QED BY <1>0, <2>1, <4>1, OneImport
    <3> QED BY <3>1
  <2> QED BY <1>1, <2>1 DEF ErrorInv
<1>7. lock \in [by : Requests \cup {Nobody}, low : BOOLEAN]
  BY DEF Inv, Shape
<1> QED BY <1>0, <1>1, <1>2, <1>3, <1>4, <1>5, <1>6, <1>7, FreedIs, ImportMoved

LEMMA NoteStep ==
  ASSUME Inv, NEW r \in Requests, Note(r)
  PROVE  Inv'
<1>0. /\ req[r].kind = "import" /\ ~req[r].drop /\ Imports(req[r]) /\ (r \in lapsed \/ lock.by = r)
      /\ advisory # r /\ row # r /\ req[r].drop \in BOOLEAN /\ At(r, "note")
  BY AtImport, HoldsNone, JobIs DEF Note
<1>1. /\ UNCHANGED <<advisory, row, ext, lock, calls, lapsed, lastImport>> /\ Step(r, "release")
      /\ (errorsOf' = r /\ ~unsaved') \/ (errorsOf' = errorsOf /\ unsaved' = unsaved)
  BY DEF Note, database
<1> DEFINE job == [req[r] EXCEPT !.pc = "release"]
<1>2. DOMAIN job = Fields /\ job.pc = "release" /\ job.kind = "import" /\ job.drop = req[r].drop
  BY <1>0, JobIs
<1>3. Set(r, job)
  BY <1>1 DEF Step
<1> HIDE DEF job
<1>4. KindOK(job) /\ job.drop = FALSE
  BY <1>0, <1>2 DEF KindOK
<1>5. ErrorInv'
  <2>1. \A q \in Requests : At(q, "note")' => At(q, "note")
    BY <1>2, <1>3 DEF Set, At, Inv, Shape
  <2>2. lapsed = {} => lastImport = r
    BY <1>0 DEF Inv, ErrorInv
  <2> QED BY <1>1, <2>1, <2>2 DEF Inv, ErrorInv
<1>6. lock \in [by : Requests \cup {Nobody}, low : BOOLEAN]
  BY DEF Inv, Shape
<1> QED BY <1>0, <1>1, <1>2, <1>3, <1>4, <1>5, <1>6, ImportMoved

LEMMA ReleaseStep ==
  ASSUME Inv, NEW r \in Requests, Release(r)
  PROVE  Inv'
<1>0. advisory # r /\ row # r
  BY AtImport, HoldsNone DEF Release
<1>1. /\ UNCHANGED <<advisory, row, ext, errorsOf, calls, lapsed, lastImport, unsaved>>
      /\ lock' = (IF lock.by = r THEN Free ELSE lock)
  BY DEF Release, Released, database, history
<1> DEFINE job == [NewRequest EXCEPT !.pc = "done"]
<1>2. DOMAIN job = Fields /\ job.pc = "done" /\ job.kind = "none" /\ job.drop = FALSE
  BY DoneIs
<1>3. Set(r, job)
  BY DEF Release, Answer
<1> HIDE DEF job
<1>4. KindOK(job) /\ ~Imports(job)
  BY <1>2 DEF KindOK, Imports
<1>5. ErrorInv'
  <2>1. \A q \in Requests : At(q, "note")' => At(q, "note")
    BY <1>2, <1>3 DEF Set, At, Inv, Shape
  <2> QED BY <1>1, <2>1 DEF Inv, ErrorInv
<1>6. /\ lock' \in [by : Requests \cup {Nobody}, low : BOOLEAN]
      /\ lock'.by = lock.by \/ lock.by = r
  BY <1>1 DEF Inv, Shape, Free
<1> QED BY <1>0, <1>1, <1>2, <1>3, <1>4, <1>5, <1>6, ImportMoved

LEMMA ReorderStep ==
  ASSUME Inv, NEW r \in Requests, ReorderRead(r) \/ ReorderFlush(r) \/ ReorderCommit(r)
  PROVE  Inv'
<1>0. /\ req[r].kind = "reorder" /\ KindOK(req[r]) /\ req[r].drop \in BOOLEAN
      /\ UNCHANGED <<redis, calls, lapsed, lastImport, unsaved>>
  BY JobIs DEF ReorderRead, ReorderFlush, ReorderCommit, Doing, history
<1>1. CASE ReorderRead(r)
  <2> PICK ask : Set(r, [req[r] EXCEPT !.pc = "flush", !.old = list, !.ask = ask])
    BY <1>1 DEF ReorderRead
  <2> DEFINE job == [req[r] EXCEPT !.pc = "flush", !.old = list, !.ask = ask]
  <2>1. DOMAIN job = Fields /\ job.pc = "flush" /\ job.kind = "reorder" /\ job.drop = req[r].drop
    BY <1>0, JobIs, FieldsAre
  <2>2. Set(r, job)
    OBVIOUS
  <2> HIDE DEF job
  <2>3. KindOK(job) /\ job.drop = FALSE /\ ~Imports(job)
    BY <1>0, <2>1 DEF KindOK, Imports
  <2>4. UNCHANGED <<advisory, row, ext>> /\ advisory # r /\ row # r
    BY <1>0, <1>1, HoldsNone DEF ReorderRead, Doing, Adds, Reorders, database
  <2> QED BY <1>0, <2>1, <2>2, <2>3, <2>4, Moved
<1>2. CASE ReorderFlush(r)
  <2> DEFINE job == [req[r] EXCEPT !.pc = "write"]
  <2>1. DOMAIN job = Fields /\ job.pc = "write" /\ job.kind = "reorder" /\ job.drop = req[r].drop
    BY <1>0, JobIs
  <2>2. Set(r, job)
    BY <1>2 DEF ReorderFlush, Step
  <2> HIDE DEF job
  <2>3. KindOK(job) /\ job.drop = FALSE /\ ~Imports(job) /\ Reorders(job)
    BY <1>0, <2>1 DEF KindOK, Imports, Reorders
  <2>4. UNCHANGED <<advisory, ext>> /\ row' = r /\ advisory # r
    BY <1>0, <1>2, HoldsNone DEF ReorderFlush, Adds
  <2> QED BY <1>0, <2>1, <2>2, <2>3, <2>4, Moved
<1>3. CASE ReorderCommit(r)
  <2>1. CASE Fail(r)
    BY <1>0, <1>3, <2>1, FailStep DEF ReorderCommit, Doing, At
  <2>2. CASE Freed(r) /\ Answer(r) /\ UNCHANGED ext
    BY <1>0, <2>2, FreedIs, AnswerStep
  <2> QED BY <1>3, <2>1, <2>2 DEF ReorderCommit
<1> QED BY <1>1, <1>2, <1>3

\* A removal moves on without touching the locks, and begins or ends its looking for
\* calls in a state that justifies it.
LEMMA RemoveMoved ==
  ASSUME Inv, NEW r \in Requests, NEW job, Set(r, job), DOMAIN job = Fields, job.drop \in BOOLEAN,
         KindOK(job), job.kind = "remove", req[r].kind = "remove", Watches(job),
         job.pc # "note", UNCHANGED <<database, redis, calls, history>>
  PROVE  Inv'
<1>0. /\ UNCHANGED <<ext, advisory, row, lock, errorsOf, state, reads, logged, late, lapsed,
                     lastImport, unsaved>>
      /\ advisory # r /\ row # r
  BY HoldsNone DEF database, redis, calls, history, Adds, Reorders
<1>1. Shape' /\ req'[r] = job /\ \A q \in Requests \ {r} : req'[q] = req[q]
  BY <1>0, SetShape DEF Inv, Shape
<1>2. LockInv' /\ OwnLockKept' /\ ErrorInv'
  BY <1>0, <1>1 DEF Inv, LockInv, OwnLockKept, ErrorInv, At
<1>3. CallsKept' /\ \A q \in Requests : KindOK(req'[q]) /\ Watches(req[q])'
  BY <1>0, <1>1 DEF Inv, CallsKept, Needs, Watches
<1> QED BY <1>1, <1>2, <1>3 DEF Inv

LEMMA RemoveStep ==
  ASSUME Inv, NEW r \in Requests, Unlink(r) \/ CountCalls(r) \/ Scan(r)
  PROVE  Inv'
<1>0. /\ req[r].kind = "remove" /\ KindOK(req[r]) /\ req[r].drop = FALSE
      /\ UNCHANGED <<database, redis, calls, history>>
  BY JobIs DEF Unlink, CountCalls, Scan, Doing, At, KindOK
<1>1. ASSUME NEW pc \in {"count", "write"}, Step(r, pc)
      PROVE  Inv'
  <2> DEFINE job == [req[r] EXCEPT !.pc = pc]
  <2>1. DOMAIN job = Fields /\ job.pc = pc /\ job.kind = "remove" /\ job.drop = FALSE
    BY <1>0, JobIs
  <2>2. Set(r, job)
    BY <1>1 DEF Step
  <2> HIDE DEF job
  <2>3. KindOK(job) /\ Watches(job)
    BY <2>1 DEF KindOK, Watches
  <2> QED BY <1>0, <2>1, <2>2, <2>3, RemoveMoved
<1>2. CASE Unlink(r)
  BY <1>1, <1>2 DEF Unlink
<1>3. CASE CountCalls(r)
  <2> DEFINE t == req[r].tgt
             seen == {s \in Sessions : t \in state[s]}
             job == [req[r] EXCEPT !.pc = "scan", !.seen = seen]
  <2>1. CASE \E s \in Sessions : <<s, t>> \in logged
    BY <1>1, <1>3, <2>1 DEF CountCalls, Step
  <2>2. CASE \A s \in Sessions : <<s, t>> \notin logged
    <3>1. Set(r, job)
      BY <1>3, <2>2 DEF CountCalls
    <3> HIDE DEF seen
    <3>2. /\ DOMAIN job = Fields /\ job.pc = "scan" /\ job.kind = "remove" /\ job.drop = FALSE
          /\ job.tgt = t /\ job.seen = seen
      BY <1>0, JobIs, FieldsAre
    <3> HIDE DEF job
    <3>3. KindOK(job) /\ Watches(job)
      BY <2>2, <3>2 DEF KindOK, Watches, seen
    <3> QED BY <1>0, <3>1, <3>2, <3>3, RemoveMoved
  <2> QED BY <2>1, <2>2
<1>4. CASE Scan(r)
  <2> DEFINE t == req[r].tgt
             naming == {s \in Sessions : t \in state[s]}
  <2>1. PICK keep \in BOOLEAN :
          /\ ~keep => req[r].seen \cap naming = {}
          /\ Set(r, [req[r] EXCEPT !.pc = "write", !.drop = ~keep])
    BY <1>4 DEF Scan, Kept
  <2>2. PICK drop \in BOOLEAN :
          /\ drop => req[r].seen \cap naming = {}
          /\ Set(r, [req[r] EXCEPT !.pc = "write", !.drop = drop])
    <3> DEFINE gone == ~keep
    <3>1. gone \in BOOLEAN /\ (gone => req[r].seen \cap naming = {})
      BY <2>1
    <3>2. Set(r, [req[r] EXCEPT !.pc = "write", !.drop = gone])
      BY <2>1
    <3> HIDE DEF gone
    <3> QED BY <3>1, <3>2
  <2> DEFINE job == [req[r] EXCEPT !.pc = "write", !.drop = drop]
  <2>3. /\ DOMAIN job = Fields /\ job.pc = "write" /\ job.kind = "remove" /\ job.drop = drop
        /\ job.tgt = t
    BY <1>0, JobIs, FieldsAre
  <2>4. Set(r, job)
    BY <2>2
  <2> HIDE DEF job
  <2>5. drop => \A s \in Sessions : Needs(s, t) => <<s, t>> \in late
    <3>1. \A s \in Sessions :
            /\ t \in state[s] => s \in req[r].seen \/ <<s, t>> \in late
            /\ <<s, t>> \in logged => <<s, t>> \in late \/ (s \in req[r].seen /\ t \in state[s])
      BY <1>4, JobIs DEF Scan, At, Watches
    <3> QED BY <2>2, <3>1 DEF Needs
  <2>6. KindOK(job) /\ Watches(job)
    BY <2>3, <2>5 DEF KindOK, Watches
  <2> QED BY <1>0, <2>3, <2>4, <2>6, RemoveMoved
<1> QED BY <1>2, <1>3, <1>4

LEMMA RemoveCommitStep ==
  ASSUME Inv, NEW r \in Requests, RemoveCommit(r)
  PROVE  Inv'
<1> DEFINE t == req[r].tgt
           job == [NewRequest EXCEPT !.pc = "done"]
<1>0. /\ Freed(r) /\ Set(r, job)
      /\ ext' = IF req[r].drop THEN Without(ext, {t}) ELSE ext
      /\ UNCHANGED <<lock, errorsOf, state, reads, logged, late, lapsed, lastImport, unsaved>>
  BY DEF RemoveCommit, Answer, redis, calls, history
<1>1. DOMAIN job = Fields /\ job.pc = "done" /\ job.kind = "none" /\ job.drop = FALSE
  BY DoneIs
<1> HIDE DEF job
<1>2. KindOK(job) /\ Watches(job) /\ ~Imports(job)
  BY <1>1 DEF KindOK, Watches, Imports
<1>3. Shape' /\ req'[r] = job /\ \A q \in Requests \ {r} : req'[q] = req[q]
  BY <1>0, <1>1, SetShape DEF Inv, Shape
<1>4. LockInv'
  BY <1>0, <1>3, FreedIs, LocksKept
<1>5. OwnLockKept' /\ ErrorInv'
  BY <1>0, <1>1, <1>3 DEF Inv, OwnLockKept, ErrorInv, At
<1>6. CallsKept'
  <2>1. CASE req[r].drop
    <3>1. \A s \in Sessions : Needs(s, t) => <<s, t>> \in late
      BY <2>1 DEF Inv, Watches
    <3>2. DOMAIN ext' = DOMAIN ext \ {t}
      BY <1>0, <2>1 DEF Without
    <3> QED BY <1>0, <3>1, <3>2 DEF Inv, CallsKept, Needs
  <2>2. CASE ~req[r].drop
    BY <1>0, <2>2 DEF Inv, CallsKept, Needs
  <2> QED BY <2>1, <2>2
<1>7. \A q \in Requests : KindOK(req'[q]) /\ Watches(req[q])'
  BY <1>0, <1>2, <1>3 DEF Inv, Watches, Needs
<1> QED BY <1>3, <1>4, <1>5, <1>6, <1>7 DEF Inv

\* Nothing that is over, or has not begun, waits for a lock.
LEMMA BreakStep ==
  ASSUME Inv, NEW r \in Requests, BreakDeadlock(r) \/ Die(r)
  PROVE  Inv'
<1>0. UNCHANGED <<redis, calls, lapsed, lastImport, unsaved>>
  BY DEF BreakDeadlock, Die, history
<1>1. CASE Die(r)
  <2>1. Freed(r) /\ Answer(r) /\ ext' = ext
    BY <1>1 DEF Die
  <2> QED BY <1>0, <2>1, FreedIs, AnswerStep
<1>2. CASE BreakDeadlock(r)
  <2>1. Fail(r)
    BY <1>2 DEF BreakDeadlock
  <2>2. ~At(r, "acquire") /\ ~At(r, "done")
    <3>1. PICK S \in SUBSET Requests : r \in S /\ Deadlocked(S)
      BY <1>2 DEF BreakDeadlock
    <3>2. \E q \in S : r \in WaitsFor(q)
      BY <3>1 DEF Deadlocked
    <3>3. PICK q \in Requests :
            \/ \E t : Unlinking(r, t)
            \/ row = r
            \/ req[q].tgt \in Updated(r)
      BY <3>1, <3>2 DEF WaitsFor
    <3>4. row = r => req[r].pc = "write"
      BY HoldsNone DEF Reorders
    <3> QED BY <3>3, <3>4 DEF Unlinking, Updated, Doing, At
  <2> QED BY <1>0, <2>1, <2>2, FailStep
<1> QED BY <1>1, <1>2

-----------------------------------------------------------------------------
(* Calls and time                                                          *)

\* What calls do leaves the requests and the locks alone.
LEMMA CallsMoved ==
  ASSUME Inv, UNCHANGED <<ext, advisory, row, lock, errorsOf, req, lapsed, lastImport, unsaved>>,
         DOMAIN state' = Sessions, DOMAIN reads' = Sessions,
         CallsKept', \A r \in Requests : Watches(req[r])'
  PROVE  Inv'
BY DEF Inv, Shape, LockInv, OwnLockKept, ErrorInv, At

LEMMA CallStep ==
  ASSUME Inv, NEW s \in Sessions, Call(s)
  PROVE  Inv'
<1>0. UNCHANGED <<ext, advisory, row, lock, errorsOf, req, lapsed, lastImport, unsaved>>
  BY DEF Call, StartCall, SaveState, LogCall, StateExpires, database, redis, history
<1>1. DOMAIN state = Sessions /\ DOMAIN reads = Sessions
  BY DEF Inv, Shape
<1>2. CASE StartCall(s)
  <2>1. UNCHANGED <<state, logged, late>> /\ DOMAIN reads' = Sessions
    BY <1>1, <1>2 DEF StartCall
  <2> QED BY <1>0, <1>1, <2>1, CallsMoved DEF Inv, CallsKept, Watches, Needs
<1>3. CASE SaveState(s)
  <2> DEFINE new == {<<s, t>> : t \in {u \in reads[s] : u \notin DOMAIN ext \/ BeingDropped(u)}}
  <2>1. /\ DOMAIN state' = Sessions /\ state'[s] = reads[s]
        /\ \A z \in Sessions \ {s} : state'[z] = state[z]
        /\ state[s] = {} /\ reads' = reads /\ logged' = logged /\ late' = late \cup new
    BY <1>1, <1>3 DEF SaveState
  <2>2. \A t : t \in reads[s] /\ (t \notin DOMAIN ext \/ BeingDropped(t)) => <<s, t>> \in late'
    BY <2>1
  <2>3. late \subseteq late'
    BY <2>1
  <2> HIDE DEF new
  <2>4. CallsKept'
    <3> SUFFICES ASSUME NEW z \in Sessions, NEW t, Needs(z, t)' PROVE t \in DOMAIN ext \/ <<z, t>> \in late'
      BY <1>0 DEF CallsKept
    <3>1. CASE Needs(z, t)
      BY <2>3, <3>1 DEF Inv, CallsKept
    <3>2. CASE ~Needs(z, t)
      BY <2>1, <2>2, <3>2 DEF Needs
    <3> QED BY <3>1, <3>2
  <2>5. ASSUME NEW r \in Requests PROVE Watches(req[r])'
    <3> DEFINE t == req[r].tgt
    <3>1. req[r].pc = "scan" \/ req[r].drop => BeingDropped(t)
      BY JobIs DEF BeingDropped, KindOK
    <3>2. ASSUME NEW z \in Sessions, t \in state'[z], req[r].pc = "scan" \/ req[r].drop
          PROVE  t \in state[z] \/ <<z, t>> \in late'
      BY <2>1, <2>2, <3>1, <3>2
    <3>3. ASSUME NEW z \in Sessions, t \in state[z] PROVE t \in state'[z]
      BY <2>1, <3>3
    <3>4. Watches(req[r])
      BY JobIs
    <3> QED BY <1>0, <2>1, <2>3, <3>2, <3>3, <3>4 DEF Watches, Needs
  <2> QED BY <1>0, <1>1, <2>1, <2>4, <2>5, CallsMoved
<1>4. CASE LogCall(s)
  <2>1. PICK t \in state[s] \cap DOMAIN ext : logged' = logged \cup {<<s, t>>}
    BY <1>4 DEF LogCall
  <2>2. UNCHANGED <<state, reads, late>>
    BY <1>4 DEF LogCall
  <2>3. CallsKept'
    BY <1>0, <2>1, <2>2 DEF Inv, CallsKept, Needs
  <2>4. ASSUME NEW r \in Requests PROVE Watches(req[r])'
    BY <1>0, <2>1, <2>2, JobIs DEF Watches, Needs
  <2> QED BY <1>0, <1>1, <2>2, <2>3, <2>4, CallsMoved
<1>5. CASE StateExpires(s)
  <2>1. /\ DOMAIN state' = Sessions /\ state'[s] = {}
        /\ \A z \in Sessions \ {s} : state'[z] = state[z]
        /\ UNCHANGED <<reads, logged, late>>
        /\ \A q \in Requests : req[q].pc = "scan" => <<s, req[q].tgt>> \notin logged
    BY <1>1, <1>5 DEF StateExpires, At
  <2>2. CallsKept'
    BY <1>0, <2>1 DEF Inv, CallsKept, Needs
  <2>3. ASSUME NEW r \in Requests PROVE Watches(req[r])'
    <3>1. Watches(req[r])
      BY JobIs
    <3> QED BY <1>0, <2>1, <3>1 DEF Watches, Needs
  <2> QED BY <1>0, <1>1, <2>1, <2>2, <2>3, CallsMoved
<1> QED BY <1>2, <1>3, <1>4, <1>5 DEF Call

LEMMA LapseStep ==
  ASSUME Inv, LockRunsLow \/ LockExpires \/ UNCHANGED vars
  PROVE  Inv'
<1>1. UNCHANGED <<ext, advisory, row, errorsOf, req, state, reads, logged, late, lastImport, unsaved>>
  BY DEF LockRunsLow, LockExpires, vars, database, redis, calls, history
<1>2. CASE LockRunsLow \/ UNCHANGED vars
  <2>1. lapsed' = lapsed /\ lock'.by = lock.by /\ lock' \in [by : Requests \cup {Nobody}, low : BOOLEAN]
    BY <1>2 DEF LockRunsLow, vars, redis, history, Inv, Shape
  <2> QED BY <1>1, <2>1
      DEF Inv, Shape, LockInv, OwnLockKept, ErrorInv, At, CallsKept, Needs, Watches
<1>3. CASE LockExpires
  <2>1. lapsed' = lapsed \cup {lock.by} /\ lock' = Free
    BY <1>3 DEF LockExpires
  <2>2. Shape'
    BY <1>1, <2>1 DEF Inv, Shape, Free
  <2>3. OwnLockKept' /\ ErrorInv'
    BY <1>1, <2>1 DEF Inv, OwnLockKept, ErrorInv, At
  <2> QED BY <1>1, <2>2, <2>3 DEF Inv, LockInv, CallsKept, Needs, Watches
<1> QED BY <1>2, <1>3

LEMMA ListInductive == Spec => []Inv
<1>1. Inv /\ [Next]_vars => Inv'
  <2> SUFFICES ASSUME Inv, [Next]_vars PROVE Inv'
    OBVIOUS
  <2>1. ASSUME NEW r \in Requests, Begin(r) \/ Run(r) \/ Heartbeat(r) \/ Die(r) PROVE Inv'
    <3>1. CASE Begin(r) \/ Heartbeat(r) \/ Die(r)
      BY <3>1, BeginStep, HeartbeatStep, BreakStep
    <3>2. CASE Run(r)
      BY <3>2, AddStep, UpdateStep, AcquireStep, ReadFileStep, ImportWriteStep, ImportCommitStep,
         NoteStep, ReleaseStep, ReorderStep, RemoveStep, RemoveCommitStep, BreakStep DEF Run
    <3> QED BY <2>1, <3>1, <3>2
  <2>2. CASE \E s \in Sessions : Call(s)
    BY <2>2, CallStep
  <2> QED BY <2>1, <2>2, LapseStep DEF Next
<1> QED BY <1>1, InitInv, PTL DEF Spec

-----------------------------------------------------------------------------
(* Places in the list                                                      *)

\* Who waits to write a place of its own, and who to rewrite the places it has read.
Places(job) == job.kind \in {"import", "add"} /\ job.pc \in {"write", "written"}
Reordering(job) == job.kind = "reorder" /\ job.pc \in {"flush", "write"}
Moves(job) == {t \in DOMAIN job.old : job.ask[t] # job.old[t]}
Injective(f) == \A t, u \in DOMAIN f : f[t] = f[u] => t = u

\* No place of the list exceeds the number of targets ever created.
Numbered ==
  /\ minted \in Nat
  /\ list \in [DOMAIN list -> 0..minted]
  /\ DOMAIN list \subseteq DOMAIN ext /\ DOMAIN ext \subseteq 1..minted

\* What a request knows of the list.
PlanOK(job) ==
  LET D == DOMAIN job.old IN
  /\ D \subseteq 1..minted
  /\ job.old \in [D -> 0..minted]
  /\ job.ask \in [D -> 0..Cardinality(D)] /\ Injective(job.ask)
KnownOK(job) == \A t \in DOMAIN list : ext[t] \in DOMAIN job.known \cup typed \cup {NoExt}
PlacesOK(job) ==
  /\ Places(job) => job.top \in 0..(minted + 1)
  /\ Reordering(job) => PlanOK(job)
  /\ job.kind = "import" =>
       /\ job.pc \in {"lock", "known", "top", "write", "written"} => job.file \in Files
       /\ job.pc \in {"top", "write", "written"} => KnownOK(job)

\* New places are greater than those of the list, and than those a reordering moves
\* its targets to; the list is as a reordering has read it, but for the targets that
\* have come or gone since.
PlacesAbove(job) == \A t \in DOMAIN list : list[t] < job.top
ReadStands(job) ==
  /\ Injective(job.old)
  /\ \A t \in DOMAIN job.old \cap DOMAIN list : list[t] = job.old[t]
NewAbove(job) ==
  Moves(job) \subseteq DOMAIN list =>
    \A u \in Moves(job) :
      /\ \A t \in DOMAIN list \ DOMAIN job.old : job.ask[u] < list[t]
      /\ \A q \in Requests : Places(req[q]) => job.ask[u] < req[q].top
Distinct ==
  /\ Injective(list)
  /\ \A r \in Requests :
       /\ Places(req[r]) => PlacesAbove(req[r])
       /\ Reordering(req[r]) =>
            /\ ReadStands(req[r]) /\ NewAbove(req[r])
            /\ \A q \in Requests : Reordering(req[q]) => q = r

PlaceInv ==
  /\ Numbered
  /\ \A r \in Requests : Adds(req[r]) => advisory = r
  /\ \A r \in Requests : PlacesOK(req[r])
  /\ ImportsUpsert
  /\ crossed \/ Distinct

-----------------------------------------------------------------------------
(* Numbers                                                                 *)

\* A finite set of numbers that is not empty has a greatest one.
LEMMA Greatest ==
  ASSUME NEW S \in SUBSET Nat, IsFiniteSet(S), S # {}
  PROVE  \E n \in S : \A m \in S : m <= n
<1> DEFINE From(x) == {y \in S : y > x}
           UpSets == {U \in SUBSET S : U # {} /\ \A x \in U : From(x) \subseteq U}
           R == StrictSubsetOrdering(S)
<1>1. IsWellFoundedOn(R, SUBSET S)
  BY FS_StrictSubsetOrderingWellFounded, FS_FiniteSubsetsOfFinite
<1>2. UpSets \subseteq SUBSET S /\ S \in UpSets
  OBVIOUS
<1>3. PICK U \in UpSets : \A V \in UpSets : ~ (<<V, U>> \in R)
  <2> HIDE DEF R, UpSets
  <2> QED BY <1>1, <1>2, WFMin
<1>4. PICK n \in U : n \in S
  OBVIOUS
<1>5. ASSUME NEW m \in S, m > n PROVE FALSE
  <2>1. m \in From(n) /\ n \notin From(n) /\ From(n) \subseteq U
    BY <1>4, <1>5
  <2>2. \A x \in From(n) : From(x) \subseteq From(n)
    <3> SUFFICES ASSUME NEW x \in From(n), NEW y \in From(x) PROVE y \in S /\ y > n
      OBVIOUS
    <3>1. x \in S /\ x > n /\ y \in S /\ y > x /\ n \in S
      BY <1>4
    <3>2. \A i \in S : i \in Nat
      OBVIOUS
    <3> QED BY <3>1, <3>2
  <2>3. From(n) \in UpSets
    BY <2>1, <2>2
  <2>4. <<From(n), U>> \in R
    BY <1>4, <2>1 DEF StrictSubsetOrdering
  <2> QED BY <1>3, <2>3, <2>4
<1> QED BY <1>4, <1>5

\* As many places as there are different ones below a bound.
LEMMA Below ==
  ASSUME NEW D, NEW top \in Nat, NEW f \in [D -> 0..(top - 1)], Injective(f)
  PROVE  IsFiniteSet(D) /\ Cardinality(D) <= top
<1>1. f \in Injection(D, 0..(top - 1))
  BY DEF Injective, Injection, IsInjective
<1>2. IsFiniteSet(0..(top - 1)) /\ Cardinality(0..(top - 1)) = top
  BY FS_Interval
<1> QED BY <1>1, <1>2, FS_Injection

\* Targets rearranged in the places 0 to n - 1, some of which stay where they were:
\* those that move end where one that moves was, or below it.
LEMMA Rearranged ==
  ASSUME NEW D, IsFiniteSet(D), NEW n \in Nat, Cardinality(D) = n, NEW top \in Nat,
         NEW ask \in [D -> 0..(n - 1)], Injective(ask),
         NEW old \in [D -> Nat], Injective(old),
         \A v \in D : ask[v] # old[v] => old[v] < top,
         NEW u \in D, ask[u] # old[u]
  PROVE  ask[u] < top
<1> SUFFICES ASSUME ~(ask[u] < top) PROVE FALSE
  OBVIOUS
<1>1. old \in [D -> 0..(n - 1)]
  <2> SUFFICES ASSUME NEW v \in D PROVE old[v] \in 0..(n - 1)
    OBVIOUS
  <2>1. CASE ask[v] = old[v]
    BY <2>1
  <2>2. CASE ask[v] # old[v]
    BY <2>2
  <2> QED BY <2>1, <2>2
<1>2. old \in Injection(D, 0..(n - 1))
  BY <1>1 DEF Injective, Injection, IsInjective
<1>3. IsFiniteSet(0..(n - 1)) /\ Cardinality(0..(n - 1)) = n
  BY FS_Interval
<1>4. old \in Surjection(D, 0..(n - 1))
  BY <1>2, <1>3, FS_Injection
<1>5. PICK w \in D : old[w] = ask[u]
  BY <1>4 DEF Surjection
<1> QED BY <1>5 DEF Injective

-----------------------------------------------------------------------------
(* The steps                                                               *)

LEMMA InitPlaces == Init => PlaceInv
<1> SUFFICES ASSUME Init PROVE PlaceInv
  OBVIOUS
<1>1. /\ Listed \in Nat /\ minted = Listed /\ list \in [1..Listed -> 0..Listed]
      /\ ext \in [1..Listed -> ExtIds \cup {NoExt}]
  BY ConstantsOK DEF Init
<1>2. \A r \in Requests : req[r].kind = "none" /\ req[r].pc = "new"
  BY DEF Init, NewRequest
<1>3. Numbered
  BY <1>1 DEF Numbered
<1>4. \A r \in Requests : ~Adds(req[r]) /\ PlacesOK(req[r]) /\ ~Places(req[r]) /\ ~Reordering(req[r])
  BY <1>2 DEF Adds, PlacesOK, Places, Reordering
<1>5. ImportsUpsert
  BY DEF Init, ImportsUpsert
<1>6. Injective(list)
  <2>1. \A t \in 2..Listed : list[t - 1] < list[t]
    BY DEF Init
  <2>2. ASSUME NEW t \in 1..Listed, NEW u \in 1..Listed, t < u PROVE list[t] < list[u]
    <3> SUFFICES ASSUME ~(list[t] < list[u]) PROVE FALSE
      OBVIOUS
    <3> DEFINE S == {k \in t..(u - 1) : ~(list[k] < list[u])}
    <3>1. S \in SUBSET Nat /\ t \in S
      BY <2>2
    <3>2. IsFiniteSet(S)
      <4>1. IsFiniteSet(t..(u - 1))
        BY <1>1, FS_Interval
      <4> QED BY <4>1, FS_Subset
    <3>3. PICK k \in S : \A m \in S : m <= k
      BY <3>1, <3>2, Greatest
    <3>4. k \in t..(u - 1) /\ ~(list[k] < list[u])
      BY <3>3
    <3>5. k \in Nat /\ k + 1 \in 2..Listed /\ k \in 1..Listed /\ k + 1 <= u /\ (k + 1) - 1 = k
      BY <1>1, <2>2, <3>4
    <3>6. list[k] < list[k + 1] /\ {list[k], list[k + 1], list[u]} \subseteq Int
      BY <1>1, <2>1, <2>2, <3>5
    <3>7. CASE k + 1 = u
      BY <3>4, <3>6, <3>7
    <3>8. CASE k + 1 # u
      <4>1. k + 1 \in t..(u - 1)
        BY <1>1, <2>2, <3>4, <3>5, <3>8
      <4>2. ~(list[k + 1] < list[u])
        BY <3>4, <3>6
      <4>3. k + 1 <= k
        BY <3>3, <4>1, <4>2
      <4> QED BY <3>5, <4>3
    <3> QED BY <3>7, <3>8
  <2> QED BY <1>1, <2>2 DEF Injective
<1> QED BY <1>3, <1>4, <1>5, <1>6 DEF PlaceInv, Distinct

\* A step of one request that gives nobody a place and nobody another place, and
\* types the external ids it sets.
LEMMA PlacesKept ==
  ASSUME PlaceInv, NEW r \in Requests, NEW job,
         req'[r] = job, \A q \in Requests \ {r} : req'[q] = req[q],
         Adds(job) => advisory' = r, advisory' = advisory \/ advisory \in {r, Nobody},
         PlacesOK(job),
         Places(job) => Places(req[r]) /\ job.top = req[r].top,
         Reordering(job) => Reordering(req[r]) /\ job.old = req[r].old /\ job.ask = req[r].ask,
         list' = [t \in DOMAIN list' |-> list[t]], DOMAIN list' \subseteq DOMAIN list,
         DOMAIN list' \subseteq DOMAIN ext', DOMAIN ext' \subseteq DOMAIN ext,
         typed \subseteq typed',
         \A t \in DOMAIN list' : ext'[t] = ext[t] \/ ext'[t] \in typed' \cup {NoExt},
         minted' = minted, crossed' = crossed
  PROVE  PlaceInv'
<1>1. Numbered'
  BY DEF PlaceInv, Numbered
<1>2. \A q \in Requests : Adds(req'[q]) => advisory' = q
  BY ConstantsOK DEF PlaceInv
<1>3. ASSUME NEW q \in Requests PROVE PlacesOK(req[q])'
  <2>1. PlacesOK(req'[q])
    BY DEF PlaceInv
  <2> QED BY <2>1 DEF PlacesOK, PlanOK, KnownOK
<1>4. ImportsUpsert'
  BY DEF PlaceInv, ImportsUpsert
<1>5. ASSUME Distinct PROVE Distinct'
  <2>1. \A q \in Requests : Places(req'[q]) => Places(req[q]) /\ req'[q].top = req[q].top
    OBVIOUS
  <2>2. \A q \in Requests : Reordering(req'[q]) =>
          Reordering(req[q]) /\ req'[q].old = req[q].old /\ req'[q].ask = req[q].ask
    OBVIOUS
  <2>3. Injective(list')
    BY <1>5 DEF Distinct, Injective
  <2>4. ASSUME NEW q \in Requests, Places(req'[q]) PROVE PlacesAbove(req[q])'
    BY <1>5, <2>1, <2>4 DEF Distinct, PlacesAbove
  <2>5. ASSUME NEW q \in Requests, Reordering(req'[q])
        PROVE  /\ ReadStands(req[q])' /\ NewAbove(req[q])'
               /\ \A p \in Requests : Reordering(req'[p]) => p = q
    <3>1. /\ ReadStands(req[q]) /\ NewAbove(req[q])
          /\ \A p \in Requests : Reordering(req[p]) => p = q
      BY <1>5, <2>2, <2>5 DEF Distinct
    <3>2. ReadStands(req[q])'
      BY <2>2, <2>5, <3>1 DEF ReadStands
    <3>3. Moves(req'[q]) = Moves(req[q])
      BY <2>2, <2>5 DEF Moves
    <3>4. NewAbove(req[q])'
      BY <2>1, <2>2, <2>5, <3>1, <3>3 DEF NewAbove
    <3> QED BY <2>2, <3>1, <3>2, <3>4
  <2> QED BY <2>3, <2>4, <2>5 DEF Distinct
<1> QED BY <1>1, <1>2, <1>3, <1>4, <1>5 DEF PlaceInv

\* What PlaceInv depends on.
LEMMA PlacesAlone ==
  ASSUME PlaceInv, UNCHANGED <<list, ext, minted, advisory, req, typed, crossed>>
  PROVE  PlaceInv'
BY DEF PlaceInv, Numbered, PlacesOK, PlanOK, KnownOK, ImportsUpsert, Distinct, PlacesAbove,
       ReadStands, NewAbove

\* A request that is over, and one that only goes on.
LEMMA Over ==
  ASSUME NEW job, job.pc \in {"done", "release", "note"}
  PROVE  ~Adds(job) /\ ~Places(job) /\ ~Reordering(job) /\ PlacesOK(job)
BY DEF Adds, Places, Reordering, PlacesOK

LEMMA FreedPlaces ==
  ASSUME NEW r \in Requests, Freed(r)
  PROVE  advisory' = advisory \/ advisory \in {r, Nobody}
BY DEF Freed

\* The steps of a request that end it: an answer, or an error.
LEMMA EndedPlaces ==
  ASSUME Inv, PlaceInv, NEW r \in Requests, Answer(r) \/ Step(r, "release") \/ Step(r, "note"),
         advisory' = advisory \/ advisory \in {r, Nobody},
         list' = [t \in DOMAIN list' |-> list[t]], DOMAIN list' \subseteq DOMAIN list,
         DOMAIN list' \subseteq DOMAIN ext', DOMAIN ext' \subseteq DOMAIN ext,
         typed \subseteq typed',
         \A t \in DOMAIN list' : ext'[t] = ext[t] \/ ext'[t] \in typed' \cup {NoExt},
         minted' = minted, crossed' = crossed
  PROVE  PlaceInv'
<1>1. PICK job : Set(r, job) /\ job.pc \in {"done", "release", "note"}
  <2>1. CASE Answer(r)
    BY <2>1, DoneIs DEF Answer
  <2>2. ASSUME NEW pc \in {"release", "note"}, Step(r, pc)
        PROVE  \E job : Set(r, job) /\ job.pc \in {"done", "release", "note"}
    <3> DEFINE job == [req[r] EXCEPT !.pc = pc]
    <3>1. job.pc = pc
      BY JobIs
    <3>2. Set(r, job)
      BY <2>2 DEF Step
    <3> HIDE DEF job
    <3> QED BY <3>1, <3>2
  <2> QED BY <2>1, <2>2
<1>2. req'[r] = job /\ \A q \in Requests \ {r} : req'[q] = req[q]
  BY <1>1 DEF Set, Inv, Shape
<1>3. ~Adds(job) /\ ~Places(job) /\ ~Reordering(job) /\ PlacesOK(job)
  BY <1>1, Over
<1> QED BY <1>2, <1>3, PlacesKept

\* A step of one request that changes no target.
LEMMA PlacesStay ==
  ASSUME Inv, PlaceInv, NEW r \in Requests, NEW job, Set(r, job),
         Adds(job) => advisory' = r, advisory' = advisory \/ advisory \in {r, Nobody},
         PlacesOK(job),
         Places(job) => Places(req[r]) /\ job.top = req[r].top,
         Reordering(job) => Reordering(req[r]) /\ job.old = req[r].old /\ job.ask = req[r].ask,
         UNCHANGED <<list, ext, minted, typed, crossed>>
  PROVE  PlaceInv'
<1>1. req'[r] = job /\ \A q \in Requests \ {r} : req'[q] = req[q]
  BY DEF Set, Inv, Shape
<1>2. list = [t \in DOMAIN list |-> list[t]] /\ DOMAIN list \subseteq DOMAIN ext
  BY DEF PlaceInv, Numbered
<1> QED BY <1>1, <1>2, PlacesKept

\* One that only an update or a removal makes.
LEMMA OthersStay ==
  ASSUME Inv, PlaceInv, NEW r \in Requests, NEW job, Set(r, job), job.kind \notin {"import", "add", "reorder"},
         UNCHANGED <<list, ext, minted, advisory, typed, crossed>>
  PROVE  PlaceInv'
<1>1. ~Adds(job) /\ ~Places(job) /\ ~Reordering(job) /\ PlacesOK(job)
  BY DEF Adds, Places, Reordering, PlacesOK
<1> QED BY <1>1, PlacesStay

LEMMA FailedPlaces ==
  ASSUME Inv, PlaceInv, NEW r \in Requests, Fail(r), UNCHANGED <<typed, crossed>>
  PROVE  PlaceInv'
<1>1. UNCHANGED <<list, ext, minted>> /\ (Answer(r) \/ Step(r, "release"))
  BY DEF Fail
<1>2. advisory' = advisory \/ advisory \in {r, Nobody}
  BY FreedPlaces DEF Fail
<1>3. list = [t \in DOMAIN list |-> list[t]] /\ DOMAIN list \subseteq DOMAIN ext
  BY DEF PlaceInv, Numbered
<1> QED BY <1>1, <1>2, <1>3, EndedPlaces

\* The data a request keeps when it goes on.
LEMMA KeptData ==
  ASSUME Inv, NEW r \in Requests, NEW pc
  PROVE  LET job == [req[r] EXCEPT !.pc = pc]
         IN  /\ job.pc = pc /\ job.kind = req[r].kind /\ job.top = req[r].top
             /\ job.old = req[r].old /\ job.ask = req[r].ask
             /\ job.file = req[r].file /\ job.known = req[r].known
BY FieldsAre DEF Inv, Shape

LEMMA BeginPlaces ==
  ASSUME Inv, PlaceInv, NEW r \in Requests, Begin(r)
  PROVE  PlaceInv'
<1> PICK kind \in Kinds : Set(r, [NewRequest EXCEPT !.kind = kind, !.pc = FirstStep[kind]])
  BY DEF Begin, Kinds
<1> DEFINE first == FirstStep[kind]
           job == [NewRequest EXCEPT !.kind = kind, !.pc = first]
<1>1. first \in {"acquire", "lock", "read"} /\ (kind = "import" => first = "acquire")
  BY DEF FirstStep, Kinds
<1> HIDE DEF first
<1>2. job.kind = kind /\ job.pc = first
  BY DEF NewRequest
<1>3. Set(r, job)
  BY DEF first
<1> HIDE DEF job
<1>4. ~Adds(job) /\ ~Places(job) /\ ~Reordering(job) /\ PlacesOK(job)
  BY <1>1, <1>2 DEF Adds, Places, Reordering, PlacesOK
<1>5. UNCHANGED <<list, ext, minted, advisory, typed, crossed>>
  BY DEF Begin, database, history
<1> QED BY <1>3, <1>4, <1>5, PlacesStay

LEMMA LockPlaces ==
  ASSUME Inv, PlaceInv, NEW r \in Requests, Lock(r)
  PROVE  PlaceInv'
<1> DEFINE pc == IF req[r].kind = "import" THEN "known" ELSE "top"
           job == [req[r] EXCEPT !.pc = pc]
<1>1. Set(r, job) /\ advisory = Nobody /\ advisory' = r
  BY DEF Lock, Step
<1>2. UNCHANGED <<list, ext, minted, typed, crossed>>
  BY DEF Lock, history
<1>3. job.pc = pc /\ job.kind = req[r].kind /\ job.file = req[r].file
  BY KeptData
<1> HIDE DEF job
<1>4. req[r].kind = "import" => req[r].file \in Files
  BY DEF Lock, At, PlaceInv, PlacesOK
<1>5. PlacesOK(job) /\ ~Places(job) /\ ~Reordering(job)
  BY <1>3, <1>4 DEF PlacesOK, Places, Reordering
<1> QED BY <1>1, <1>2, <1>5, PlacesStay

LEMMA KnownPlaces ==
  ASSUME Inv, PlaceInv, NEW r \in Requests, Known(r)
  PROVE  PlaceInv'
<1> DEFINE named == {t \in DOMAIN list : ext[t] # NoExt}
<1>1. PICK known \in [{ext[t] : t \in named} -> named] :
        Set(r, [req[r] EXCEPT !.pc = "top", !.known = known])
  BY DEF Known
<1> DEFINE job == [req[r] EXCEPT !.pc = "top", !.known = known]
<1>2. job.pc = "top" /\ job.kind = req[r].kind /\ job.file = req[r].file /\ job.known = known
  BY FieldsAre DEF Inv, Shape
<1>3. Set(r, job)
  BY <1>1
<1> HIDE DEF job
<1>4. Adds(req[r])
  <2>1. KindOK(req[r])
    BY JobIs
  <2> QED BY <2>1 DEF Known, At, KindOK, Adds
<1>5. advisory = r
  BY <1>4 DEF PlaceInv
<1>6. UNCHANGED <<list, ext, minted, advisory, typed, crossed>>
  BY DEF Known, database, history
<1>7. KnownOK(job)
  BY <1>1, <1>2 DEF KnownOK
<1>8. req[r].kind = "import" => req[r].file \in Files
  BY DEF Known, At, PlaceInv, PlacesOK
<1>9. PlacesOK(job) /\ ~Places(job) /\ ~Reordering(job)
  BY <1>2, <1>7, <1>8 DEF PlacesOK, Places, Reordering
<1> QED BY <1>3, <1>5, <1>6, <1>9, PlacesStay

LEMMA ImportPlaces ==
  ASSUME Inv, PlaceInv, NEW r \in Requests, Acquire(r) \/ Parse(r) \/ ImportWrite(r) \/ Note(r) \/ Release(r)
  PROVE  PlaceInv'
<1>0. UNCHANGED <<typed, crossed>>
  BY DEF Acquire, Parse, ImportWrite, Note, Release, history
<1>1. list = [t \in DOMAIN list |-> list[t]] /\ DOMAIN list \subseteq DOMAIN ext
  BY DEF PlaceInv, Numbered
<1>2. CASE UNCHANGED database /\ (Answer(r) \/ Step(r, "release"))
  <2>1. UNCHANGED <<list, ext, minted, advisory>>
    BY <1>2 DEF database
  <2> QED BY <1>0, <1>1, <1>2, <2>1, EndedPlaces
<1>3. CASE Acquire(r) /\ Step(r, "parse")
  <2> DEFINE job == [req[r] EXCEPT !.pc = "parse"]
  <2>1. job.pc = "parse" /\ Set(r, job)
    BY <1>3, KeptData DEF Step
  <2> HIDE DEF job
  <2>2. ~Adds(job) /\ ~Places(job) /\ ~Reordering(job) /\ PlacesOK(job)
    BY <2>1 DEF Adds, Places, Reordering, PlacesOK
  <2>3. UNCHANGED <<list, ext, minted, advisory>>
    BY <1>3 DEF Acquire, database
  <2> QED BY <1>0, <2>1, <2>2, <2>3, PlacesStay
<1>4. CASE Parse(r) /\ \E file \in Files : Set(r, [req[r] EXCEPT !.pc = "lock", !.file = file])
  <2>1. PICK file \in Files : Set(r, [req[r] EXCEPT !.pc = "lock", !.file = file])
    BY <1>4
  <2> DEFINE job == [req[r] EXCEPT !.pc = "lock", !.file = file]
  <2>2. job.pc = "lock" /\ job.file = file
    BY FieldsAre DEF Inv, Shape
  <2>3. Set(r, job)
    BY <2>1
  <2> HIDE DEF job
  <2>4. ~Adds(job) /\ ~Places(job) /\ ~Reordering(job) /\ PlacesOK(job)
    BY <2>2 DEF Adds, Places, Reordering, PlacesOK
  <2>5. UNCHANGED <<list, ext, minted, advisory>>
    BY <1>4 DEF Parse, database
  <2> QED BY <1>0, <2>3, <2>4, <2>5, PlacesStay
<1>5. CASE ImportWrite(r) /\ Step(r, "written") /\ UNCHANGED database
  <2> DEFINE job == [req[r] EXCEPT !.pc = "written"]
  <2>1. /\ job.pc = "written" /\ job.kind = req[r].kind /\ job.top = req[r].top
        /\ job.file = req[r].file /\ job.known = req[r].known
    BY KeptData
  <2>2. Set(r, job)
    BY <1>5 DEF Step
  <2> HIDE DEF job
  <2>3. req[r].kind = "import" /\ req[r].pc = "write"
    BY <1>5 DEF ImportWrite, Doing
  <2>4. Places(req[r]) /\ Adds(req[r]) /\ PlacesOK(req[r]) /\ advisory = r
    BY <2>3 DEF Places, Adds, PlaceInv
  <2>5. PlacesOK(job) /\ ~Reordering(job)
    BY <2>1, <2>3, <2>4 DEF PlacesOK, KnownOK, Places, Reordering
  <2>6. UNCHANGED <<list, ext, minted, advisory>>
    BY <1>5 DEF database
  <2> QED BY <1>0, <2>1, <2>2, <2>4, <2>5, <2>6, PlacesStay
<1>6. CASE ImportWrite(r) /\ Fail(r)
  BY <1>0, <1>6, FailedPlaces
<1>7. CASE Acquire(r) \/ Release(r)
  BY <1>2, <1>3, <1>7 DEF Acquire, Release
<1>8. CASE Parse(r) \/ Note(r)
  BY <1>2, <1>4, <1>8 DEF Parse, Note
<1>9. CASE ImportWrite(r)
  BY <1>5, <1>6, <1>9 DEF ImportWrite
<1> QED BY <1>7, <1>8, <1>9

LEMMA UpdatePlaces ==
  ASSUME Inv, PlaceInv, NEW r \in Requests, UpdateCommit(r)
  PROVE  PlaceInv'
<1> DEFINE t == req[r].tgt
<1>0. crossed' = crossed
  BY DEF UpdateCommit
<1>1. CASE t \in DOMAIN ext
  <2>1. PICK e : /\ ext' = [ext EXCEPT ![t] = e]
                 /\ typed' = IF e = ext[t] THEN typed ELSE typed \cup {e}
    BY <1>1 DEF UpdateCommit
  <2>2. Answer(r) /\ UNCHANGED <<list, minted, advisory>>
    BY <1>1 DEF UpdateCommit
  <2>3. list = [v \in DOMAIN list |-> list[v]] /\ DOMAIN list \subseteq DOMAIN ext
    BY DEF PlaceInv, Numbered
  <2>4. DOMAIN ext' = DOMAIN ext /\ typed \subseteq typed'
    BY <2>1
  <2>5. \A v \in DOMAIN list : ext'[v] = ext[v] \/ ext'[v] \in typed'
    BY <2>1, <2>3
  <2> HIDE DEF t
  <2> QED BY <1>0, <2>2, <2>3, <2>4, <2>5, EndedPlaces
<1>2. CASE t \notin DOMAIN ext
  BY <1>0, <1>2, FailedPlaces DEF UpdateCommit
<1> QED BY <1>1, <1>2

LEMMA RemovePlaces ==
  ASSUME Inv, PlaceInv, NEW r \in Requests,
         PickTarget(r) \/ Unlink(r) \/ CountCalls(r) \/ Scan(r) \/ RemoveCommit(r)
  PROVE  PlaceInv'
<1>0. KindOK(req[r]) /\ UNCHANGED <<typed, crossed>>
  BY JobIs DEF PickTarget, Unlink, CountCalls, Scan, RemoveCommit, history
<1>1. ASSUME NEW job, Set(r, job), job.kind = req[r].kind, ~RemoveCommit(r) PROVE PlaceInv'
  <2>1. job.kind \notin {"import", "add", "reorder"}
    BY <1>0, <1>1 DEF PickTarget, Unlink, CountCalls, Scan, Doing, At, KindOK
  <2>2. UNCHANGED <<list, ext, minted, advisory>>
    BY <1>1 DEF PickTarget, Unlink, CountCalls, Scan, database
  <2> QED BY <1>0, <1>1, <2>1, <2>2, OthersStay
<1>2. CASE ~RemoveCommit(r)
  <2>1. \E job : Set(r, job) /\ job.kind = req[r].kind
    <3>1. \A pc, tgt, seen, drop :
            /\ [req[r] EXCEPT !.pc = pc].kind = req[r].kind
            /\ [req[r] EXCEPT !.tgt = tgt, !.pc = pc].kind = req[r].kind
            /\ [req[r] EXCEPT !.pc = pc, !.seen = seen].kind = req[r].kind
            /\ [req[r] EXCEPT !.pc = pc, !.drop = drop].kind = req[r].kind
      BY FieldsAre DEF Inv, Shape
    <3>2. CASE PickTarget(r)
      BY <3>1, <3>2 DEF PickTarget
    <3>3. CASE Unlink(r)
      BY <3>1, <3>3 DEF Unlink, Step
    <3>4. CASE CountCalls(r)
      <4> DEFINE seen == {s \in Sessions : req[r].tgt \in state[s]}
                 job == IF \E s \in Sessions : <<s, req[r].tgt>> \in logged
                        THEN [req[r] EXCEPT !.pc = "write"]
                        ELSE [req[r] EXCEPT !.pc = "scan", !.seen = seen]
      <4>1. Set(r, job)
        BY <3>4 DEF CountCalls
      <4>2. job.kind = req[r].kind
        BY <3>1
      <4> HIDE DEF job
      <4> QED BY <4>1, <4>2
    <3>5. CASE Scan(r)
      <4>1. PICK keep \in BOOLEAN : Set(r, [req[r] EXCEPT !.pc = "write", !.drop = ~keep])
        BY <3>5 DEF Scan, Kept
      <4> DEFINE drop == ~keep
                 job == [req[r] EXCEPT !.pc = "write", !.drop = drop]
      <4>2. Set(r, job)
        BY <4>1
      <4> HIDE DEF drop
      <4>3. job.kind = req[r].kind
        BY <3>1
      <4> HIDE DEF job
      <4> QED BY <4>2, <4>3
    <3> QED BY <1>2, <3>2, <3>3, <3>4, <3>5
  <2> QED BY <1>1, <1>2, <2>1
<1>3. CASE RemoveCommit(r)
  <2> DEFINE t == req[r].tgt
  <2>1. /\ list' = Without(list, {t}) /\ ext' = IF req[r].drop THEN Without(ext, {t}) ELSE ext
        /\ Freed(r) /\ Answer(r) /\ minted' = minted
    BY <1>3 DEF RemoveCommit
  <2>2. DOMAIN list \subseteq DOMAIN ext
    BY DEF PlaceInv, Numbered
  <2>3. /\ DOMAIN list' = DOMAIN list \ {t} /\ list' = [v \in DOMAIN list' |-> list[v]]
        /\ DOMAIN list' \subseteq DOMAIN ext' /\ DOMAIN ext' \subseteq DOMAIN ext
        /\ \A v \in DOMAIN list' : ext'[v] = ext[v]
    BY <2>1, <2>2 DEF Without
  <2> HIDE DEF t
  <2> QED BY <1>0, <2>1, <2>3, FreedPlaces, EndedPlaces
<1> QED BY <1>2, <1>3

LEMMA BreakPlaces ==
  ASSUME Inv, PlaceInv, NEW r \in Requests, BreakDeadlock(r) \/ Die(r)
  PROVE  PlaceInv'
<1>0. UNCHANGED <<typed, crossed>>
  BY DEF BreakDeadlock, Die, history
<1>1. CASE BreakDeadlock(r)
  BY <1>0, <1>1, FailedPlaces DEF BreakDeadlock
<1>2. CASE Die(r)
  <2>1. Freed(r) /\ Answer(r) /\ UNCHANGED <<list, ext, minted>>
    BY <1>2 DEF Die
  <2>2. list = [t \in DOMAIN list |-> list[t]] /\ DOMAIN list \subseteq DOMAIN ext
    BY DEF PlaceInv, Numbered
  <2> QED BY <1>0, <2>1, <2>2, FreedPlaces, EndedPlaces
<1> QED BY <1>1, <1>2

\* The holder of the campaign's lock is the only one who adds.
LEMMA OneAdds ==
  ASSUME PlaceInv, NEW r \in Requests, Adds(req[r])
  PROVE  advisory = r /\ \A q \in Requests : Adds(req[q]) => q = r
BY DEF PlaceInv

LEMMA PlacesAdd ==
  ASSUME NEW job, Places(job)
  PROVE  Adds(job) /\ ~Reordering(job)
BY DEF Places, Adds, Reordering

LEMMA PlanIs ==
  ASSUME PlaceInv, NEW r \in Requests, Reordering(req[r])
  PROVE  LET D == DOMAIN req[r].old
             n == Cardinality(D)
         IN  /\ minted \in Nat /\ D \subseteq 1..minted /\ IsFiniteSet(D) /\ n \in 0..minted
             /\ req[r].old \in [D -> 0..minted] /\ req[r].ask \in [D -> 0..n]
             /\ Injective(req[r].ask)
             /\ ~Repeats(req[r].ask) => req[r].ask \in [D -> 0..(n - 1)]
<1> DEFINE D == DOMAIN req[r].old
           n == Cardinality(D)
<1>1. PlanOK(req[r]) /\ minted \in Nat
  BY DEF PlaceInv, PlacesOK, Numbered
<1>2. IsFiniteSet(1..minted) /\ Cardinality(1..minted) = minted
  BY <1>1, FS_Interval
<1>3. IsFiniteSet(D) /\ n <= minted /\ n \in Nat
  BY <1>1, <1>2, FS_Subset, FS_CardinalityType DEF PlanOK
<1>4. req[r].ask \in [D -> 0..n]
  BY <1>1 DEF PlanOK
<1>5. ~Repeats(req[r].ask) => \A t \in D : req[r].ask[t] # n
  BY <1>4 DEF Repeats, RangeOf
<1>6. ~Repeats(req[r].ask) => req[r].ask \in [D -> 0..(n - 1)]
  BY <1>3, <1>4, <1>5
<1> QED BY <1>1, <1>3, <1>4, <1>6 DEF PlanOK

\* _next_order answers a place that is greater than all of the list.
LEMMA NextPlace ==
  ASSUME PlaceInv
  PROVE  LET orders == RangeOf(list)
             top == IF orders = {} THEN 0
                    ELSE 1 + CHOOSE n \in orders : \A m \in orders : m <= n
         IN  top \in 0..(minted + 1) /\ \A t \in DOMAIN list : list[t] < top
<1> DEFINE orders == RangeOf(list)
<1>1. minted \in Nat /\ orders \subseteq 0..minted /\ \A t \in DOMAIN list : list[t] \in orders
  BY DEF PlaceInv, Numbered, RangeOf
<1>2. IsFiniteSet(orders)
  <2>1. IsFiniteSet(0..minted)
    BY <1>1, FS_Interval
  <2> QED BY <1>1, <2>1, FS_Subset
<1> HIDE DEF orders
<1>3. orders # {} => \E n \in orders : \A m \in orders : m <= n
  BY <1>1, <1>2, Greatest
<1> QED BY <1>1, <1>3 DEF orders

LEMMA NextOrderPlaces ==
  ASSUME Inv, PlaceInv, NEW r \in Requests, NextOrder(r)
  PROVE  PlaceInv'
<1> DEFINE orders == RangeOf(list)
           top == IF orders = {} THEN 0
                  ELSE 1 + CHOOSE n \in orders : \A m \in orders : m <= n
           job == [req[r] EXCEPT !.pc = "write", !.top = top]
<1>1. top \in 0..(minted + 1) /\ \A t \in DOMAIN list : list[t] < top
  BY NextPlace
<1>2. Set(r, job)
  BY DEF NextOrder
<1> HIDE DEF top
<1>3. /\ job.pc = "write" /\ job.kind = req[r].kind /\ job.file = req[r].file
      /\ job.known = req[r].known /\ job.top = top
  BY FieldsAre DEF Inv, Shape
<1> HIDE DEF job
<1>4. req'[r] = job /\ \A q \in Requests \ {r} : req'[q] = req[q]
  BY <1>2 DEF Set, Inv, Shape
<1>5. /\ UNCHANGED <<list, ext, minted, advisory, typed>>
      /\ crossed' = (crossed \/ \E q \in Requests : Pending(q) /\ Repeats(req[q].ask))
  BY DEF NextOrder, database
<1>6. Adds(req[r]) /\ req[r].pc = "top" /\ job.kind \in {"import", "add"}
  <2>1. KindOK(req[r])
    BY JobIs
  <2> QED BY <1>3, <2>1 DEF NextOrder, At, KindOK, Adds
<1>7. advisory = r /\ \A q \in Requests : Adds(req[q]) => q = r
  BY <1>6, OneAdds
<1>8. PlacesOK(job) /\ ~Reordering(job)
  <2>1. PlacesOK(req[r])
    BY DEF PlaceInv
  <2> QED BY <1>1, <1>3, <1>6, <2>1 DEF PlacesOK, KnownOK, Reordering
<1>9. \A q \in Requests : PlacesOK(req[q])'
  <2> SUFFICES ASSUME NEW q \in Requests PROVE PlacesOK(req[q])'
    OBVIOUS
  <2>1. PlacesOK(req'[q])
    BY <1>4, <1>8 DEF PlaceInv
  <2> QED BY <1>5, <2>1 DEF PlacesOK, PlanOK, KnownOK
<1>10. ASSUME ~crossed' PROVE Distinct'
  <2>1. Distinct /\ \A q \in Requests : Reordering(req[q]) => ~Repeats(req[q].ask)
    BY <1>5, <1>10 DEF PlaceInv, Pending, Reordering
  <2>2. \A q \in Requests : Places(req'[q]) => q = r
    BY <1>4, <1>7, PlacesAdd
  <2>3. \A q \in Requests : Reordering(req'[q]) => Reordering(req[q]) /\ req'[q] = req[q] /\ q # r
    BY <1>4, <1>8
  <2>4. ASSUME NEW q \in Requests, Places(req'[q]) PROVE PlacesAbove(req[q])'
    BY <1>1, <1>3, <1>4, <1>5, <2>2, <2>4 DEF PlacesAbove
  <2>5. ASSUME NEW q \in Requests, Reordering(req'[q])
        PROVE  /\ ReadStands(req[q])' /\ NewAbove(req[q])'
               /\ \A p \in Requests : Reordering(req'[p]) => p = q
    <3>1. /\ ReadStands(req[q]) /\ NewAbove(req[q]) /\ Reordering(req[q])
          /\ \A p \in Requests : Reordering(req[p]) => p = q
      BY <2>1, <2>3, <2>5 DEF Distinct
    <3>2. ReadStands(req[q])' /\ \A p \in Requests : Reordering(req'[p]) => p = q
      BY <1>5, <2>3, <2>5, <3>1 DEF ReadStands
    <3>3. ASSUME Moves(req[q]) \subseteq DOMAIN list, NEW u \in Moves(req[q]) PROVE req[q].ask[u] < top
      <4> DEFINE D == DOMAIN req[q].old
                 n == Cardinality(D)
                 ask == req[q].ask
                 old == req[q].old
      <4>1. /\ IsFiniteSet(D) /\ n \in Nat /\ old \in [D -> Nat]
            /\ ask \in [D -> 0..(n - 1)] /\ Injective(ask)
        BY <2>1, <3>1, PlanIs
      <4>2. Injective(old) /\ \A v \in D : ask[v] # old[v] => old[v] < top
        BY <1>1, <3>1, <3>3 DEF ReadStands, Moves
      <4>3. u \in D /\ ask[u] # old[u] /\ top \in Nat
        BY <1>1, <3>3 DEF Moves, PlaceInv, Numbered
      <4> HIDE DEF D, n, ask, old
      <4>4. ask[u] < top
        BY <4>1, <4>2, <4>3, Rearranged DEF n
      <4> QED BY <4>4 DEF ask
    <3>4. Moves(req'[q]) = Moves(req[q])
      BY <2>3, <2>5
    <3>5. NewAbove(req[q])'
      BY <1>3, <1>4, <1>5, <2>2, <2>3, <2>5, <3>1, <3>3, <3>4 DEF NewAbove
    <3> QED BY <3>2, <3>5
  <2>6. Injective(list')
    BY <1>5, <2>1 DEF Distinct
  <2> QED BY <2>4, <2>5, <2>6 DEF Distinct
<1>11. Numbered' /\ ImportsUpsert' /\ \A q \in Requests : Adds(req'[q]) => advisory' = q
  BY <1>4, <1>5, <1>7 DEF PlaceInv, Numbered, ImportsUpsert
<1> QED BY <1>9, <1>10, <1>11 DEF PlaceInv

\* A commit that links new targets, numbered from minted + 1 on, in places from the
\* request's own on.
LEMMA PlacesGrow ==
  ASSUME Inv, PlaceInv, NEW r \in Requests, NEW job, Set(r, job), job.pc \in {"done", "note"},
         Places(req[r]), advisory' \in {advisory, Nobody},
         minted' \in Nat, minted <= minted', NEW new \in SUBSET ((minted + 1)..minted'),
         list' = [t \in new \cup DOMAIN list |-> IF t \in new THEN req[r].top + t - minted - 1
                                                  ELSE list[t]],
         DOMAIN ext' = new \cup DOMAIN ext, ImportsUpsert', crossed' = crossed
  PROVE  PlaceInv'
<1>1. req'[r] = job /\ \A q \in Requests \ {r} : req'[q] = req[q]
  BY DEF Set, Inv, Shape
<1>2. ~Adds(job) /\ ~Places(job) /\ ~Reordering(job) /\ PlacesOK(job)
  BY Over
<1>3. \A q \in Requests : Adds(req[q]) => q = r
  BY PlacesAdd, OneAdds
<1>4. \A q \in Requests : ~Adds(req'[q]) /\ ~Places(req'[q])
  BY <1>1, <1>2, <1>3, PlacesAdd
<1>5. minted \in Nat /\ list \in [DOMAIN list -> 0..minted] /\ DOMAIN list \subseteq 1..minted
      /\ DOMAIN list \subseteq DOMAIN ext /\ DOMAIN ext \subseteq 1..minted
  BY DEF PlaceInv, Numbered
<1>6. req[r].top \in 0..(minted + 1)
  BY DEF PlaceInv, PlacesOK
<1>7. \A t \in new : t \notin 1..minted /\ t \in 1..minted'
  BY <1>5
<1>8. /\ DOMAIN list' = new \cup DOMAIN list
      /\ \A t \in DOMAIN list : list'[t] = list[t]
      /\ \A t \in new : list'[t] = req[r].top + t - minted - 1
  BY <1>5, <1>7
<1>9. \A t \in new : req[r].top <= list'[t] /\ list'[t] \in 0..minted'
  BY <1>5, <1>6, <1>8
<1>10. Numbered'
  <2>1. \A t \in DOMAIN list' : list'[t] \in 0..minted'
    BY <1>5, <1>8, <1>9
  <2>2. list' = [t \in DOMAIN list' |-> list'[t]]
    BY <1>8
  <2>3. DOMAIN list' \subseteq DOMAIN ext' /\ DOMAIN ext' \subseteq 1..minted'
    BY <1>5, <1>7, <1>8
  <2> QED BY <2>1, <2>2, <2>3 DEF Numbered
<1>11. ASSUME NEW q \in Requests PROVE PlacesOK(req[q])'
  <2>1. ~(req'[q].kind = "import" /\ req'[q].pc \in {"top", "write", "written"})
    BY <1>4 DEF Adds
  <2>2. PlacesOK(req'[q]) /\ ~Places(req'[q])
    BY <1>1, <1>2, <1>4 DEF PlaceInv
  <2> QED BY <1>5, <2>1, <2>2 DEF PlacesOK, PlanOK, Places
<1>12. ASSUME Distinct PROVE Distinct'
  <2>1. Injective(list) /\ PlacesAbove(req[r])
    BY <1>12 DEF Distinct
  <2>2. Injective(list')
    <3> SUFFICES ASSUME NEW t \in DOMAIN list', NEW u \in DOMAIN list', list'[t] = list'[u] PROVE t = u
      BY DEF Injective
    <3>1. CASE t \in new /\ u \in new
      BY <1>5, <1>6, <1>8, <3>1
    <3>2. CASE t \notin new /\ u \notin new
      BY <1>8, <2>1, <3>2 DEF Injective
    <3>3. ASSUME NEW v \in new, NEW w \in DOMAIN list PROVE list'[w] < list'[v]
      BY <1>5, <1>6, <1>8, <1>9, <2>1 DEF PlacesAbove
    <3>4. \A v \in new, w \in DOMAIN list : list'[v] # list'[w]
      BY <1>5, <1>8, <1>9, <3>3
    <3> QED BY <1>8, <3>1, <3>2, <3>4
  <2>3. ASSUME NEW q \in Requests, Reordering(req'[q])
        PROVE  /\ ReadStands(req[q])' /\ NewAbove(req[q])'
               /\ \A p \in Requests : Reordering(req'[p]) => p = q
    <3>1. Reordering(req[q]) /\ req'[q] = req[q]
      BY <1>1, <1>2, <2>3
    <3>2. /\ ReadStands(req[q]) /\ NewAbove(req[q])
          /\ \A p \in Requests : Reordering(req[p]) => p = q
      BY <1>12, <3>1 DEF Distinct
    <3>3. \A p \in Requests : Reordering(req'[p]) => p = q
      BY <1>1, <1>2, <3>2
    <3> DEFINE D == DOMAIN req[q].old
    <3>4. D \subseteq 1..minted /\ req[q].ask \in [D -> Int]
      BY <3>1, PlanIs
    <3>5. D \cap DOMAIN list' = D \cap DOMAIN list
      BY <1>7, <1>8, <3>4
    <3>6. ReadStands(req[q])'
      BY <1>8, <3>1, <3>2, <3>5 DEF ReadStands
    <3>7. ASSUME Moves(req[q]) \subseteq DOMAIN list', NEW u \in Moves(req[q]),
                 NEW t \in DOMAIN list' \ D
          PROVE  req[q].ask[u] < list'[t]
      <4>1. u \in D /\ Moves(req[q]) \subseteq DOMAIN list
        BY <3>5, <3>7 DEF Moves
      <4>2. req[q].ask[u] < req[r].top
        BY <3>2, <4>1 DEF NewAbove
      <4>3. CASE t \in new
        BY <1>5, <1>6, <1>9, <3>4, <4>1, <4>2, <4>3
      <4>4. CASE t \notin new
        BY <1>8, <3>2, <3>7, <4>1, <4>4 DEF NewAbove
      <4> QED BY <4>3, <4>4
    <3>8. NewAbove(req[q])'
      <4>1. Moves(req'[q]) = Moves(req[q]) /\ DOMAIN req'[q].old = D /\ req'[q].ask = req[q].ask
        BY <3>1
      <4> QED BY <1>4, <3>7, <4>1 DEF NewAbove
    <3> QED BY <3>3, <3>6, <3>8
  <2> QED BY <1>4, <2>2, <2>3 DEF Distinct
<1> QED BY <1>4, <1>10, <1>11, <1>12 DEF PlaceInv

LEMMA AddPlaces ==
  ASSUME Inv, PlaceInv, NEW r \in Requests, AddCommit(r)
  PROVE  PlaceInv'
<1> DEFINE new == {minted + 1}
           job == [NewRequest EXCEPT !.pc = "done"]
<1>1. PICK e : ext' = Joined([t \in {minted + 1} |-> e], ext) /\ typed' = typed \cup {e}
  BY DEF AddCommit
<1>2. /\ list' = Joined([t \in new |-> req[r].top], list) /\ minted' = minted + 1
      /\ Freed(r) /\ Set(r, job) /\ crossed' = crossed
  BY DEF AddCommit, Answer
<1>3. job.pc = "done"
  BY DoneIs
<1> HIDE DEF job
<1>4. Places(req[r])
  BY DEF AddCommit, Doing, Places
<1>5. minted \in Nat /\ DOMAIN list \subseteq DOMAIN ext /\ DOMAIN ext \subseteq 1..minted
      /\ req[r].top \in 0..(minted + 1)
  BY <1>4 DEF PlaceInv, Numbered, PlacesOK
<1>6. list' = [t \in new \cup DOMAIN list |-> IF t \in new THEN req[r].top + t - minted - 1
                                               ELSE list[t]]
  BY <1>2, <1>5 DEF Joined
<1>7. /\ DOMAIN ext' = new \cup DOMAIN ext /\ ext'[minted + 1] = e
      /\ \A t \in DOMAIN list : ext'[t] = ext[t]
  BY <1>1, <1>5 DEF Joined
<1>8. ImportsUpsert'
  BY <1>1, <1>6, <1>7 DEF PlaceInv, ImportsUpsert
<1>9. advisory' \in {advisory, Nobody}
  BY <1>2, FreedIs
<1>10. minted' \in Nat /\ minted <= minted' /\ new \in SUBSET ((minted + 1)..minted')
  BY <1>2, <1>5
<1> HIDE DEF new
<1> QED BY <1>2, <1>3, <1>4, <1>6, <1>7, <1>8, <1>9, <1>10, PlacesGrow

LEMMA ImportCommitPlaces ==
  ASSUME Inv, PlaceInv, NEW r \in Requests, ImportCommit(r)
  PROVE  PlaceInv'
<1> DEFINE file == req[r].file
           known == req[r].known
           fresh == Fresh(file, known)
           upto(i) == Cardinality({j \in fresh : j <= i})
           id(i) == minted + upto(i)
           new == {id(i) : i \in fresh}
           row0(t) == CHOOSE i \in fresh : id(i) = t
           job == [req[r] EXCEPT !.pc = "note"]
<1>1. /\ ext' = Joined([t \in new |-> file[row0(t)]], ext)
      /\ list' = Joined([t \in new |-> req[r].top + t - minted - 1], list)
      /\ minted' = minted + Cardinality(fresh)
      /\ Freed(r) /\ Set(r, job) /\ UNCHANGED <<typed, crossed>>
  BY DEF ImportCommit, Step
<1>2. job.pc = "note"
  BY KeptData
<1> HIDE DEF job
<1>3. req[r].kind = "import" /\ req[r].pc = "written"
  BY DEF ImportCommit, Doing
<1>4. Places(req[r]) /\ file \in Files /\ KnownOK(req[r])
  BY <1>3 DEF Places, PlaceInv, PlacesOK
<1>5. minted \in Nat /\ DOMAIN list \subseteq DOMAIN ext /\ DOMAIN ext \subseteq 1..minted
      /\ req[r].top \in 0..(minted + 1)
  BY <1>4 DEF PlaceInv, Numbered, PlacesOK
<1>6. Len(file) \in Nat /\ DOMAIN file = 1..Len(file)
  <2>1. file \in Seq(ExtIds \cup {NoExt})
    BY <1>4, ConstantsOK
  <2> HIDE DEF file
  <2> QED BY <2>1
<1>7. fresh \subseteq DOMAIN file /\ IsFiniteSet(fresh) /\ Cardinality(fresh) \in Nat
  <2>1. fresh \subseteq 1..Len(file) /\ IsFiniteSet(1..Len(file))
    BY <1>6, FS_Interval DEF Fresh
  <2> QED BY <1>6, <2>1, FS_Subset, FS_CardinalityType
<1>8. ASSUME NEW i \in fresh PROVE upto(i) \in 1..Cardinality(fresh)
  <2> DEFINE S == {j \in fresh : j <= i}
  <2>1. i \in S /\ S \in SUBSET fresh
    BY <1>6, <1>7
  <2> HIDE DEF S, fresh
  <2>2. IsFiniteSet(S) /\ Cardinality(S) <= Cardinality(fresh) /\ Cardinality(S) \in Nat
    BY <1>7, <2>1, FS_Subset, FS_CardinalityType
  <2>3. Cardinality(S) # 0
    BY <2>1, <2>2, FS_EmptySet
  <2> QED BY <1>7, <2>2, <2>3 DEF S
<1>9. minted' \in Nat /\ minted <= minted' /\ new \in SUBSET ((minted + 1)..minted')
  <2> HIDE DEF upto, fresh
  <2> QED BY <1>1, <1>5, <1>7, <1>8
<1>10. \A t \in new : row0(t) \in fresh /\ id(row0(t)) = t
  <2> HIDE DEF upto, fresh
  <2> QED OBVIOUS
<1> HIDE DEF id, row0
<1>11. new \cap DOMAIN ext = {}
  <2> HIDE DEF new
  <2> QED BY <1>5, <1>9
<1>12. /\ list' = [t \in new \cup DOMAIN list |-> IF t \in new THEN req[r].top + t - minted - 1
                                                   ELSE list[t]]
       /\ DOMAIN ext' = new \cup DOMAIN ext
       /\ \A t \in DOMAIN list : ext'[t] = ext[t]
       /\ \A t \in new : ext'[t] = file[row0(t)]
  <2> HIDE DEF new
  <2> QED BY <1>1, <1>5, <1>11 DEF Joined
<1>13. ASSUME NEW t \in new, ext'[t] # NoExt
       PROVE  /\ ext'[t] \notin DOMAIN known
              /\ \A u \in new : ext'[u] = ext'[t] => u = t
  <2>1. \A u \in new : row0(u) \in 1..Len(file)
    BY <1>6, <1>7, <1>10
  <2>2. file[row0(t)] \notin DOMAIN known /\ \A j \in 1..(row0(t) - 1) : file[j] # file[row0(t)]
    BY <1>10, <1>12, <1>13 DEF Fresh
  <2>3. ASSUME NEW u \in new, ext'[u] = ext'[t] PROVE u = t
    <3>1. /\ file[row0(u)] = file[row0(t)] /\ file[row0(u)] # NoExt
          /\ \A j \in 1..(row0(u) - 1) : file[j] # file[row0(u)]
      BY <1>10, <1>12, <1>13, <2>3 DEF Fresh
    <3>2. row0(u) = row0(t)
      <4> DEFINE i == row0(u)
                 k == row0(t)
      <4>1. i \in 1..Len(file) /\ k \in 1..Len(file) /\ i \notin 1..(k - 1) /\ k \notin 1..(i - 1)
        BY <2>1, <2>2, <3>1
      <4> HIDE DEF i, k
      <4>2. i = k
        BY <1>6, <4>1
      <4> QED BY <4>2 DEF i, k
    <3> QED BY <1>10, <3>2
  <2> QED BY <1>12, <2>2, <2>3
<1>14. ImportsUpsert'
  <2> SUFFICES ASSUME NEW t \in DOMAIN list', NEW u \in DOMAIN list', ext'[t] = ext'[u], t # u,
                      ext'[t] # NoExt
               PROVE  ext'[t] \in typed
    BY <1>1 DEF ImportsUpsert
  <2>1. DOMAIN list' = new \cup DOMAIN list
    BY <1>12
  <2> HIDE DEF new
  <2>2. ~(t \in new /\ u \in new)
    BY <1>13
  <2>3. CASE t \in DOMAIN list /\ u \in DOMAIN list
    BY <1>12, <2>3 DEF PlaceInv, ImportsUpsert
  <2>4. \A v \in DOMAIN list : ext'[v] = ext'[t] => ext'[t] \in DOMAIN known \cup typed
    BY <1>4, <1>12 DEF KnownOK
  <2>5. CASE t \in new /\ u \in DOMAIN list
    BY <1>13, <2>4, <2>5
  <2>6. CASE u \in new /\ t \in DOMAIN list
    BY <1>13, <2>4, <2>6
  <2> QED BY <2>1, <2>2, <2>3, <2>5, <2>6
<1>15. advisory' \in {advisory, Nobody}
  BY <1>1, FreedIs
<1> HIDE DEF new
<1> QED BY <1>1, <1>2, <1>4, <1>9, <1>12, <1>14, <1>15, PlacesGrow

LEMMA ReorderReadPlaces ==
  ASSUME Inv, PlaceInv, NEW r \in Requests, ReorderRead(r)
  PROVE  PlaceInv'
<1> DEFINE D == DOMAIN list
           n == Cardinality(D)
<1>0. minted \in Nat /\ D \subseteq 1..minted /\ list \in [D -> 0..minted] /\ IsFiniteSet(D) /\ n \in Nat
  <2>1. minted \in Nat /\ D \subseteq 1..minted /\ list \in [D -> 0..minted]
    BY DEF PlaceInv, Numbered
  <2> HIDE DEF D
  <2>2. IsFiniteSet(1..minted)
    BY <2>1, FS_Interval
  <2> QED BY <2>1, <2>2, FS_Subset, FS_CardinalityType
<1>1. PICK ask \in [D -> 0..n] :
        /\ \A t, u \in D : ask[t] = ask[u] => t = u
        /\ Set(r, [req[r] EXCEPT !.pc = "flush", !.old = list, !.ask = ask])
        /\ crossed' = (crossed \/ \E q \in Requests :
                         \/ Pending(q)
                         \/ Repeats(ask) /\ req[q].kind \in {"import", "add"}
                                         /\ req[q].pc \in {"write", "written"})
  BY DEF ReorderRead
<1> DEFINE job == [req[r] EXCEPT !.pc = "flush", !.old = list, !.ask = ask]
<1>2. job.pc = "flush" /\ job.kind = req[r].kind /\ job.old = list /\ job.ask = ask
  BY FieldsAre DEF Inv, Shape
<1>3. Set(r, job)
  BY <1>1
<1> HIDE DEF job
<1>4. req'[r] = job /\ \A q \in Requests \ {r} : req'[q] = req[q]
  BY <1>3 DEF Set, Inv, Shape
<1>5. UNCHANGED <<list, ext, minted, advisory, typed>>
  BY DEF ReorderRead, database
<1>6. job.kind = "reorder" /\ ~Adds(job) /\ ~Places(job)
  BY <1>2 DEF ReorderRead, Doing, Adds, Places
<1>7. PlacesOK(job)
  <2>1. PlanOK(job)
    BY <1>0, <1>1, <1>2 DEF PlanOK, Injective
  <2> QED BY <1>6, <2>1 DEF PlacesOK
<1>8. \A q \in Requests : PlacesOK(req[q])'
  <2> SUFFICES ASSUME NEW q \in Requests PROVE PlacesOK(req[q])'
    OBVIOUS
  <2>1. PlacesOK(req'[q])
    BY <1>4, <1>7 DEF PlaceInv
  <2> QED BY <1>5, <2>1 DEF PlacesOK, PlanOK, KnownOK
<1>9. ASSUME ~crossed' PROVE Distinct'
  <2>1. /\ Distinct /\ \A q \in Requests : ~Reordering(req[q])
        /\ \A q \in Requests : Places(req[q]) => ~Repeats(ask)
    BY <1>1, <1>9 DEF PlaceInv, Pending, Reordering, Places
  <2>2. \A q \in Requests : Reordering(req'[q]) => q = r
    BY <1>4, <2>1
  <2>3. \A q \in Requests : Places(req'[q]) => q # r /\ Places(req[q]) /\ req'[q] = req[q]
    BY <1>4, <1>6
  <2>4. \A q \in Requests : Places(req'[q]) => PlacesAbove(req[q])'
    BY <1>5, <2>1, <2>3 DEF Distinct, PlacesAbove
  <2>5. Injective(list)
    BY <2>1 DEF Distinct
  <2>6. ReadStands(req[r])'
    BY <1>2, <1>4, <1>5, <2>5 DEF ReadStands
  <2>7. ASSUME NEW u \in D, NEW q \in Requests, Places(req'[q]) PROVE ask[u] < req'[q].top
    <3> DEFINE top == req[q].top
    <3>1. Places(req[q]) /\ req'[q].top = top /\ ~Repeats(ask)
      BY <2>1, <2>3, <2>7
    <3>2. top \in Nat
      BY <1>0, <3>1 DEF PlaceInv, PlacesOK
    <3>3. \A t \in D : list[t] < top
      BY <2>1, <3>1 DEF Distinct, PlacesAbove
    <3>4. ask[u] # n
      BY <3>1 DEF Repeats, RangeOf
    <3> HIDE DEF D, top
    <3>5. list \in [D -> 0..(top - 1)]
      BY <1>0, <3>2, <3>3
    <3>6. n <= top
      BY <2>5, <3>2, <3>5, Below
    <3>7. ask[u] \in 0..n
      OBVIOUS
    <3> HIDE DEF n
    <3> QED BY <1>0, <3>1, <3>2, <3>4, <3>6, <3>7
  <2>8. NewAbove(req[r])'
    <3>1. DOMAIN list' \ DOMAIN req'[r].old = {} /\ Moves(req'[r]) \subseteq D
      BY <1>2, <1>4, <1>5 DEF Moves
    <3> QED BY <1>2, <1>4, <2>7, <3>1 DEF NewAbove
  <2> QED BY <1>5, <2>2, <2>4, <2>5, <2>6, <2>8 DEF Distinct
<1>10. Numbered' /\ ImportsUpsert' /\ \A q \in Requests : Adds(req'[q]) => advisory' = q
  BY <1>4, <1>5, <1>6 DEF PlaceInv, Numbered, ImportsUpsert
<1> QED BY <1>8, <1>9, <1>10 DEF PlaceInv

LEMMA ReorderFlushPlaces ==
  ASSUME Inv, PlaceInv, NEW r \in Requests, ReorderFlush(r)
  PROVE  PlaceInv'
<1> DEFINE job == [req[r] EXCEPT !.pc = "write"]
<1>1. /\ job.pc = "write" /\ job.kind = req[r].kind /\ job.old = req[r].old /\ job.ask = req[r].ask
  BY KeptData
<1>2. Set(r, job) /\ req[r].kind = "reorder" /\ req[r].pc = "flush"
  BY DEF ReorderFlush, Step, Doing
<1> HIDE DEF job
<1>3. Reordering(req[r]) /\ PlanOK(req[r])
  BY <1>2 DEF Reordering, PlaceInv, PlacesOK
<1>4. PlacesOK(job) /\ ~Adds(job) /\ ~Places(job)
  BY <1>1, <1>2, <1>3 DEF PlacesOK, PlanOK, Adds, Places
<1>5. UNCHANGED <<list, ext, minted, advisory, typed, crossed>>
  BY DEF ReorderFlush, history
<1> QED BY <1>1, <1>2, <1>3, <1>4, <1>5, PlacesStay

LEMMA ReorderCommitPlaces ==
  ASSUME Inv, PlaceInv, NEW r \in Requests, ReorderCommit(r)
  PROVE  PlaceInv'
<1> DEFINE moves == Moves(req[r])
           ask == req[r].ask
           job == [NewRequest EXCEPT !.pc = "done"]
<1>1. CASE Fail(r) /\ crossed' = crossed
  <2>1. typed' = typed
    BY DEF ReorderCommit
  <2> QED BY <1>1, <2>1, FailedPlaces
<1>2. CASE /\ list' = [t \in DOMAIN list |-> IF t \in moves THEN ask[t] ELSE list[t]]
           /\ crossed' = (crossed \/ ~(moves \subseteq DOMAIN list))
           /\ Freed(r) /\ Answer(r) /\ UNCHANGED <<ext, minted>>
  <2>1. Reordering(req[r]) /\ typed' = typed
    BY DEF ReorderCommit, Doing, Reordering
  <2>2. Set(r, job) /\ job.pc = "done"
    BY <1>2, DoneIs DEF Answer
  <2> HIDE DEF job
  <2>3. ~Adds(job) /\ ~Places(job) /\ ~Reordering(job) /\ PlacesOK(job)
    BY <2>2, Over
  <2>4. req'[r] = job /\ \A q \in Requests \ {r} : req'[q] = req[q]
    BY <2>2 DEF Set, Inv, Shape
  <2>5. /\ minted \in Nat /\ list \in [DOMAIN list -> 0..minted]
        /\ ask \in [DOMAIN req[r].old -> 0..minted] /\ Injective(ask)
        /\ moves \subseteq DOMAIN req[r].old
    <3> DEFINE E == DOMAIN req[r].old
               n == Cardinality(E)
    <3>1. minted \in Nat /\ n \in 0..minted /\ ask \in [E -> 0..n] /\ Injective(ask)
      BY <2>1, PlanIs
    <3> HIDE DEF n
    <3> QED BY <3>1 DEF PlaceInv, Numbered, Moves
  <2>6. DOMAIN list' = DOMAIN list /\ list' \in [DOMAIN list -> 0..minted]
    BY <1>2, <2>5
  <2>7. Numbered' /\ ImportsUpsert'
    BY <1>2, <2>1, <2>6 DEF PlaceInv, Numbered, ImportsUpsert
  <2>8. \A q \in Requests : Adds(req'[q]) => advisory' = q
    BY <1>2, <2>3, <2>4, FreedPlaces, ConstantsOK DEF PlaceInv
  <2>9. ASSUME NEW q \in Requests PROVE PlacesOK(req[q])'
    <3>1. PlacesOK(req'[q])
      BY <2>3, <2>4 DEF PlaceInv
    <3> QED BY <1>2, <2>1, <2>6, <3>1 DEF PlacesOK, PlanOK, KnownOK
  <2>10. ASSUME ~crossed' PROVE Distinct'
    <3>1. Distinct /\ moves \subseteq DOMAIN list
      BY <1>2, <2>10 DEF PlaceInv
    <3>2. /\ ReadStands(req[r]) /\ NewAbove(req[r])
          /\ \A q \in Requests : Reordering(req[q]) => q = r
      BY <2>1, <3>1 DEF Distinct
    <3>3. \A q \in Requests : ~Reordering(req'[q])
      BY <2>3, <2>4, <3>2
    <3>4. \A q \in Requests : Places(req'[q]) => Places(req[q]) /\ req'[q].top = req[q].top
      BY <2>3, <2>4
    <3>5. \A t \in moves : list'[t] = ask[t]
      BY <1>2, <3>1
    <3>6. \A t \in DOMAIN list \ moves : list'[t] = list[t]
      BY <1>2
    <3>7. ASSUME NEW q \in Requests, Places(req'[q]) PROVE PlacesAbove(req[q])'
      <4>1. \A t \in DOMAIN list : list[t] < req[q].top
        BY <3>1, <3>4, <3>7 DEF Distinct, PlacesAbove
      <4>2. \A t \in moves : ask[t] < req[q].top
        BY <3>1, <3>2, <3>4, <3>7 DEF NewAbove
      <4> QED BY <2>6, <3>4, <3>5, <3>6, <3>7, <4>1, <4>2 DEF PlacesAbove
    <3>8. ASSUME NEW t \in moves, NEW u \in DOMAIN list \ moves PROVE list'[t] # list'[u]
      <4>1. CASE u \in DOMAIN req[r].old
        <5>1. list[u] = req[r].old[u] /\ ask[u] = req[r].old[u]
          BY <3>2, <3>8, <4>1 DEF ReadStands, Moves
        <5>2. ask[t] # ask[u]
          BY <2>5, <3>8, <4>1 DEF Injective
        <5> QED BY <3>5, <3>6, <5>1, <5>2
      <4>2. CASE u \notin DOMAIN req[r].old
        <5>1. ask[t] < list[u]
          BY <3>1, <3>2, <4>2 DEF NewAbove
        <5>2. ask[t] \in Int /\ list[u] \in Int
          BY <2>5
        <5> QED BY <3>5, <3>6, <5>1, <5>2
      <4> QED BY <4>1, <4>2
    <3>9. Injective(list')
      <4> SUFFICES ASSUME NEW t \in DOMAIN list, NEW u \in DOMAIN list, list'[t] = list'[u] PROVE t = u
        BY <2>6 DEF Injective
      <4>1. CASE t \in moves /\ u \in moves
        BY <2>5, <3>5, <4>1 DEF Injective
      <4>2. CASE t \notin moves /\ u \notin moves
        BY <3>1, <3>6, <4>2 DEF Distinct, Injective
      <4> QED BY <3>8, <4>1, <4>2
    <3> QED BY <3>3, <3>7, <3>9 DEF Distinct
  <2> QED BY <2>7, <2>8, <2>9, <2>10 DEF PlaceInv
<1>3. Changed(r) = moves
  BY DEF Changed, Moves
<1> QED BY <1>1, <1>2, <1>3 DEF ReorderCommit

LEMMA PlacesInductive == Spec => []PlaceInv
<1>1. Inv /\ PlaceInv /\ [Next]_vars => PlaceInv'
  <2> SUFFICES ASSUME Inv, PlaceInv, [Next]_vars PROVE PlaceInv'
    OBVIOUS
  <2>1. ASSUME NEW r \in Requests, Begin(r) \/ Run(r) \/ Heartbeat(r) \/ Die(r) PROVE PlaceInv'
    <3>1. CASE Heartbeat(r)
      <4>1. UNCHANGED <<list, ext, minted, advisory, req, typed, crossed>>
        BY <3>1 DEF Heartbeat, database, history
      <4> QED BY <4>1, PlacesAlone
    <3>2. CASE Run(r)
      BY <3>2, LockPlaces, NextOrderPlaces, AddPlaces, UpdatePlaces, ImportPlaces, KnownPlaces,
         ImportCommitPlaces, ReorderReadPlaces, ReorderFlushPlaces, ReorderCommitPlaces,
         RemovePlaces, BreakPlaces DEF Run
    <3> QED BY <2>1, <3>1, <3>2, BeginPlaces, BreakPlaces
  <2>2. CASE (\E s \in Sessions : Call(s)) \/ LockRunsLow \/ LockExpires \/ UNCHANGED vars
    <3>1. UNCHANGED <<list, ext, minted, advisory, req, typed, crossed>>
      BY <2>2 DEF Call, StartCall, SaveState, LogCall, StateExpires, LockRunsLow, LockExpires,
                  vars, database, history
    <3> QED BY <3>1, PlacesAlone
  <2> QED BY <2>1, <2>2 DEF Next
<1> QED BY <1>1, InitPlaces, ListInductive, PTL DEF Spec
-----------------------------------------------------------------------------
(* Theorems                                                                *)

\* No import is robbed of its lock by one that lost its own: whatever the order of
\* heartbeats, expiries and releases, an import whose lock did not expire owns it
\* (redis_lock.py, RELEASE_IF_OWNER and REFRESH_IF_OWNER).
THEOREM OwnLockKeptHolds == Spec => []OwnLockKept
<1>1. Inv => OwnLockKept
  BY DEF Inv
<1> QED BY <1>1, ListInductive, PTL

\* No outcome of a transaction leaves others waiting for it: the campaign's lock and
\* its row are only held by requests that are still on their way to the commit
\* (campaigns.py, _lock_campaign_targets).
THEOREM LocksEndWithTransactionsHolds == Spec => []LocksEndWithTransactions
<1>1. Inv => LocksEndWithTransactions
  BY DEF Inv, LockInv, LocksEndWithTransactions, Adds, Reorders, Doing
<1> QED BY <1>1, ListInductive, PTL

\* A target that a call was given before its removal looked for such calls outlives
\* the call, and for ever once the call has logged it, whatever else is changed in
\* the list meanwhile (campaigns.py, remove_target and in_a_live_call).
THEOREM NeededTargetsKeptHolds == Spec => []NeededTargetsKept
<1>1. Inv => NeededTargetsKept
  BY DEF Inv, CallsKept, Needs, NeededTargetsKept
<1> QED BY <1>1, ListInductive, PTL

\* The errors kept for download are never those of an earlier import than the last
\* one, unless a lock expired or they could not be saved (campaigns.py, _do_import).
THEOREM ErrorsOfLastImportHolds == Spec => []ErrorsOfLastImport
<1>1. Inv => ErrorsOfLastImport
  BY DEF Inv, ErrorInv, ErrorsOfLastImport
<1> QED BY <1>1, ListInductive, PTL

\* Whatever additions, imports, removals and deaths overlap a reordering, two targets
\* never share a place in the list, unless two reorderings overlapped, or one named a
\* target twice while the list grew, or passed over a target that was removed under it
\* (campaigns.py, _next_order, _lock_campaign_targets and reorder_targets).
THEOREM OrdersDistinctHolds == Spec => []OrdersDistinct
<1>1. PlaceInv => OrdersDistinct
  BY DEF PlaceInv, Distinct, Injective, OrdersDistinct
<1> QED BY <1>1, PlacesInductive, PTL

\* Imports never give a campaign two targets of one external id, even when the import
\* lock expires under a running one, since the lock of the transaction keeps the next
\* from reading before the commit: an id that is there twice was typed by an
\* administrator (campaigns.py, _do_import).
THEOREM ImportsUpsertHolds == Spec => []ImportsUpsert
<1>1. PlaceInv => ImportsUpsert
  BY DEF PlaceInv
<1> QED BY <1>1, PlacesInductive, PTL
=============================================================================
