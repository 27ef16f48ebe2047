--------------------------- MODULE CallFlowProofs ---------------------------
(***************************************************************************)
(* The safety properties of CallFlow, for any number of calls, jobs,        *)
(* targets, faults and late requests:                                        *)
(*   1  type correctness;                                                    *)
(*   2  how a session reaches, and leaves, a terminal status (CloseInv);     *)
(*   3  a session serves one call (OneInv);                                  *)
(*   4  the document, the rows and the dials keep step (OrderInv);           *)
(*   5  the dials of a session are bounded (FewInv).                         *)
(***************************************************************************)
EXTENDS CallFlow, FiniteSetTheorems, SequenceTheorems, TLAPS

USE DEF None

-----------------------------------------------------------------------------
(* 1. Type correctness: one lemma for each operator that builds a job, a     *)
(* request or a line at Twilio, then one for each family of actions.         *)

Clock == [aged: SUBSET {"state", "bind"}, stateLast: BOOLEAN]
Line == [phase: {"new", "webhook", "gather", "dialing", "ended"},
         req: Request, slot: Slots \cup {NoSlot}]
Verb == {"none", "hangup", "goodbye", "gather", "redirect", "dial", "finish"}
Presses == [legs: SUBSET Nat, blind: BOOLEAN, late: BOOLEAN]

\* A new or idle job is a job.
LEMMA NewJobType ==
  ASSUME NEW pc \in {"idle", "load", "tally", "close"}, NEW req \in Request,
         NEW c \in Calls \cup {NoCall}
  PROVE  NewJob(pc, req, c) \in Job
BY DEF NewJob, Job, FreshState, State

\* Every request the environment builds is a request.
LEMMA ReqType ==
  /\ Req("voice", "") \in Request /\ Req("dial", "") \in Request
  /\ Req("skip", "") \in Request
  /\ Req("make", "digits") \in Request /\ Req("make", "silence") \in Request
  /\ Req("status", "in-progress") \in Request
  /\ Req("status", "completed") \in Request /\ Req("status", "no-answer") \in Request
  /\ \A leg \in Nat : /\ LegReq("completed", leg, TRUE) \in Request
                      /\ LegReports(leg) \subseteq Request
BY DEF Req, LegReq, LegReports, Request, Requests, SessionStatusOf, CallStatusOf

\* The two status maps are total on what Twilio reports, and land in the
\* statuses of a row and of a session.
LEMMA StatusOfType ==
  /\ \A r \in Request : r.kind = "complete" => CallStatusOf[r.out] \in RowStatus
  /\ \A r \in Request : r.kind = "status" => SessionStatusOf[r.out] \in SessionStatus
BY DEF Request, Requests, CallStatusOf, SessionStatusOf, RowStatus, SessionStatus, Terminal

\* Answering and storing keep a job a job.
LEMMA SavingType ==
  ASSUME NEW job \in Job, NEW st \in State,
         NEW verb \in Verb
  PROVE  Saving(job, st, verb) \in Job /\ Answer(job, verb) \in Job
BY DEF Saving, Answer, Job, Verb

\* The end of call-complete leaves a job, whatever it was told.
LEMMA SettleType ==
  ASSUME NEW job \in Job, NEW st \in State, NEW dup \in BOOLEAN,
         NEW popped \in Nat \cup {None}
  PROVE  Settle(job, st, dup, popped) \in Job
<1> DEFINE next == IF Advances(st, dup) THEN st.idx + 1 ELSE st.idx
           verb == IF next <= LegIndex(st) THEN "goodbye"
                   ELSE IF next < NumTargets THEN "redirect" ELSE "finish"
<1>1. next \in Nat /\ verb \in {"goodbye", "redirect", "finish"}
  BY DEF State
<1>2. [st EXCEPT !.idx = next, !.done = @ \cup {st.idx}] \in State
  BY <1>1 DEF State
<1>3. [job EXCEPT !.pc = "finish", !.ans = verb] \in Job
  BY <1>1 DEF Job
<1> HIDE DEF next, verb
<1>. QED
  BY <1>1, <1>2, <1>3, SavingType DEF Settle, next, verb, Verb

\* So does its first half, on either branch.
LEMMA SortedType ==
  ASSUME NEW job \in Job, NEW st \in State, NEW dup \in BOOLEAN
  PROVE  Sorted(job, st, dup) \in Job
<1>1. [st EXCEPT !.skip = None] \in State /\ st.skip \in Nat \cup {None}
  BY DEF State
<1>2. [job EXCEPT !.pc = "insert", !.st = [st EXCEPT !.skip = None],
                  !.popped = st.skip] \in Job
  BY <1>1 DEF Job
<1>3. Settle(job, st, TRUE, None) \in Job
  BY SettleType
<1>4. Settle(job, [st EXCEPT !.skip = None], FALSE, st.skip) \in Job
  BY <1>1, SettleType
<1>. QED
  BY <1>2, <1>3, <1>4 DEF Sorted

\* The initial state is well typed.
LEMMA InitType == Init => TypeOK
<1> SUFFICES ASSUME Init PROVE TypeOK
  OBVIOUS
<1>1. IdleJob \in Job /\ Req("voice", "") \in Request
  BY ReqType, NewJobType DEF IdleJob
<1>2. FreshState \in State
  BY DEF FreshState, State
<1>3. legs \in Seq([call: Calls, index: Nat])
  BY EmptySeq DEF Init
<1>4. jobs \in [Slots -> Job] /\ mail \in [Calls -> SUBSET Request]
  BY <1>1 DEF Init
<1>5. twilio \in [Calls -> [phase: {"new", "webhook", "gather", "dialing", "ended"},
                            req: Request, slot: Slots \cup {NoSlot}]]
  BY <1>1 DEF Init
<1>6. session \in [status: SessionStatus, sid: Calls \cup {NoCall}]
      /\ rows \subseteq Row /\ creating \in BOOLEAN
  BY ConstantsOK DEF Init, SessionStatus
<1>7. /\ clock \in [aged: SUBSET {"state", "bind"}, stateLast: BOOLEAN]
      /\ spent \in [faults: Nat, late: Nat, skips: Nat, deletes: Nat, lulls: Nat]
  BY DEF Init
<1>. QED
  BY <1>2, <1>3, <1>4, <1>5, <1>6, <1>7 DEF Init, TypeOK

\* Replacing one job by a job keeps the table of jobs.
LEMMA SetType ==
  ASSUME NEW h \in Slots, NEW job \in Job, jobs \in [Slots -> Job], Set(h, job)
  PROVE  jobs' \in [Slots -> Job]
BY DEF Set

\* Taking one key out of the aged ones keeps the clock a clock.
LEMMA ClockType ==
  ASSUME TypeOK
  PROVE  /\ clock \in Clock
         /\ \A key, last : last \in BOOLEAN =>
              [aged |-> clock.aged \ {key}, stateLast |-> last] \in Clock
<1>1. clock \in Clock
  BY DEF TypeOK, Clock
<1>2. ASSUME NEW key PROVE clock.aged \ {key} \in SUBSET {"state", "bind"}
  BY <1>1 DEF Clock
<1>. QED
  BY <1>1, <1>2, Zenon DEF Clock

\* Moving a line to a phase nobody answers keeps the lines.
LEMMA PhaseType ==
  ASSUME TypeOK, NEW c \in Calls, NEW phase \in {"ended", "gather"},
         twilio' = [twilio EXCEPT ![c].phase = phase, ![c].slot = NoSlot]
  PROVE  twilio' \in [Calls -> Line]
<1>1. twilio \in [Calls -> Line] /\ twilio[c] \in Line
  BY DEF TypeOK, Line
<1>2. [twilio[c] EXCEPT !.phase = phase, !.slot = NoSlot] \in Line
  BY <1>1 DEF Line
<1>3. twilio' = [twilio EXCEPT ![c] = [twilio[c] EXCEPT !.phase = phase, !.slot = NoSlot]]
  BY <1>1
<1>. QED
  BY <1>1, <1>2, <1>3

\* Ending a call, fetching TwiML and posting a callback are well typed.
LEMMA TwilioType ==
  ASSUME TypeOK, NEW c \in Calls, NEW req \in Request
  PROVE  /\ Ended(c) => twilio' \in [Calls -> Line]
         /\ Fetch(c, req) => twilio' \in [Calls -> Line]
         /\ Post(c, req) => mail' \in [Calls -> SUBSET Request]
<1>1. twilio \in [Calls -> Line] /\ mail \in [Calls -> SUBSET Request]
  BY DEF TypeOK, Line
<1>2. Ended(c) => twilio' \in [Calls -> Line]
  BY PhaseType DEF Ended
<1>3. [phase |-> "webhook", req |-> req, slot |-> NoSlot] \in Line
  BY DEF Line
<1>4. Fetch(c, req) => twilio' \in [Calls -> Line]
  BY <1>1, <1>3 DEF Fetch
<1>5. Post(c, req) => mail' \in [Calls -> SUBSET Request]
  BY <1>1 DEF Post
<1>. QED
  BY <1>2, <1>4, <1>5

\* A step of a job keeps TypeOK.
LEMMA RunType ==
  ASSUME TypeOK, NEW h \in Slots, Run(h)
  PROVE  TypeOK'
<1> DEFINE job == jobs[h]
<1>0. job \in Job /\ job.call \in Calls \cup {NoCall} /\ job.st \in State
      /\ job.req \in Request /\ job.to \in Nat /\ job.popped \in Nat \cup {None}
  BY DEF TypeOK, Job
<1>1. CASE RejectUnbound(h)
  <2>1. Answer(job, "hangup") \in Job
    BY <1>0 DEF Answer, Job
  <2>. QED
    BY <1>1, <2>1, SetType DEF RejectUnbound, TypeOK, server
<1>2. CASE VoiceApp(h)
  <2>1. CASE VoiceLoad(h)
    <3>1. redis \in State
      BY <2>1 DEF VoiceLoad, Loads, Readable, TypeOK
    <3>2. [job EXCEPT !.pc = "claim", !.st = redis] \in Job
      BY <1>0, <3>1 DEF Job
    <3>. QED
      BY <2>1, <3>2, SetType DEF VoiceLoad, Loads, TypeOK, server
  <2> DEFINE claimed == Claimed(job)
  <2>0. claimed \in Job
    <3>1. [job.st EXCEPT !.sid = job.call] \in State
      BY <1>0 DEF State
    <3>. QED
      BY <1>0, <3>1, SavingType DEF Claimed, Verb
  <2>2. CASE VoiceClaim(h)
    <3>1. [job EXCEPT !.pc = "holder"] \in Job
      BY <1>0 DEF Job
    <3>2. jobs' \in [Slots -> Job]
      BY <2>2, <2>0, <3>1, SetType DEF VoiceClaim, TypeOK
    <3>3. clock' \in Clock
      <4>1. clock' = clock \/ clock' = [aged |-> clock.aged \ {"bind"}, stateLast |-> FALSE]
        BY <2>2 DEF VoiceClaim
      <4>. QED
        BY <4>1, ClockType, Zenon
    <3>4. bind' \in Calls \cup {NoCall}
      <4>1. bind' = bind \/ bind' = job.call
        BY <2>2 DEF VoiceClaim
      <4>. QED
        BY <4>1, <1>0 DEF TypeOK
    <3>. QED
      BY <2>2, <3>2, <3>3, <3>4 DEF VoiceClaim, TypeOK, Quiet, Clock
  <2>3. CASE VoiceHolder(h)
    <3>1. [job EXCEPT !.pc = "claim", !.retried = TRUE] \in Job
      BY <1>0 DEF Job
    <3>2. Answer(job, "hangup") \in Job
      BY <1>0, SavingType DEF Verb, FreshState, State
    <3>3. jobs' \in [Slots -> Job]
      BY <2>3, <2>0, <3>1, <3>2, SetType DEF VoiceHolder, TypeOK
    <3>. QED
      BY <2>3, <3>3 DEF VoiceHolder, TypeOK, Quiet, server
  <2>4. CASE VoiceAdmit(h)
    <3>1. \A verb \in Verb : Answer(job, verb) \in Job
      BY <1>0 DEF Answer, Job, Verb
    <3>2. jobs' \in [Slots -> Job]
      BY <2>4, <3>1, SetType DEF VoiceAdmit, TypeOK, Verb
    <3>. QED
      BY <2>4, <1>0, <3>2 DEF VoiceAdmit, TypeOK, Quiet, SessionStatus
  <2>. QED
    BY <1>2, <2>1, <2>2, <2>3, <2>4 DEF VoiceApp
<1>3. CASE MakeCalls(h)
  <2>1. redis \in State
    BY <1>3 DEF MakeCalls, Loads, Readable, TypeOK
  <2>2. [redis EXCEPT !.attempts = redis.attempts + 1] \in State
    BY <2>1 DEF State
  <2>3. \A verb \in Verb :
           /\ Answer(job, verb) \in Job
           /\ Saving(job, [redis EXCEPT !.attempts = redis.attempts + 1], verb) \in Job
    BY <1>0, <2>2, SavingType
  <2>4. jobs' \in [Slots -> Job]
    BY <1>3, <2>3, SetType DEF MakeCalls, TypeOK, Verb
  <2>. QED
    BY <1>3, <2>4 DEF MakeCalls, Loads, TypeOK, server
<1>4. CASE DialLoad(h)
  <2>1. redis \in State
    BY <1>4 DEF DialLoad, Loads, Readable, TypeOK
  <2>2. [job EXCEPT !.pc = "target", !.st = redis] \in Job
        /\ Answer(job, "goodbye") \in Job
    BY <1>0, <2>1 DEF Job, Answer
  <2>3. jobs' \in [Slots -> Job]
    BY <1>4, <2>2, SetType DEF DialLoad, TypeOK
  <2>. QED
    BY <1>4, <2>3 DEF DialLoad, Loads, TypeOK, server
<1>5. CASE DialTarget(h)
  <2> DEFINE dial == [job EXCEPT !.to = job.st.idx]
  <2>1. job.st.idx \in Nat
    BY <1>0 DEF State
  <2>2. dial \in Job
    BY <1>0, <2>1 DEF Job
  <2>3. [job.st EXCEPT !.idx = job.st.idx + 1] \in State
        /\ [job.st EXCEPT !.dialed = job.st.idx] \in State
    BY <1>0, <2>1 DEF State
  <2> HIDE DEF dial
  <2>4. \A verb \in Verb :
           /\ Saving(job, [job.st EXCEPT !.idx = job.st.idx + 1], verb) \in Job
           /\ Saving(dial, [job.st EXCEPT !.dialed = job.st.idx], verb) \in Job
           /\ Answer(dial, verb) \in Job
    BY <1>0, <2>2, <2>3, SavingType
  <2>5. jobs' \in [Slots -> Job]
    BY <1>5, <2>4, SetType DEF DialTarget, Dialing, TypeOK, dial, Verb
  <2>. QED
    BY <1>5, <2>5 DEF DialTarget, TypeOK, server, Quiet
<1>6. CASE CallComplete(h)
  <2>1. CASE CompleteLoad(h)
    <3>1. redis \in State
      BY <2>1 DEF CompleteLoad, Loads, Readable, TypeOK
    <3>2. Sorted(job, redis, SeenInState(redis)) \in Job
      BY <1>0, <3>1, SortedType DEF SeenInState
    <3>3. [job EXCEPT !.pc = "dedupe", !.st = redis] \in Job
      BY <1>0, <3>1 DEF Job
    <3>4. jobs' \in [Slots -> Job]
      BY <2>1, <3>2, <3>3, SetType DEF CompleteLoad, TypeOK
    <3>. QED
      BY <2>1, <3>4 DEF CompleteLoad, Loads, TypeOK, server
  <2>2. CASE CompleteDedupe(h)
    <3>1. Sorted(job, job.st, Logged(LegSid(job, job.st.idx))) \in Job
      BY <1>0, SortedType DEF Logged
    <3>. QED
      BY <2>2, <3>1, SetType DEF CompleteDedupe, TypeOK, server, Quiet
  <2>3. CASE CompleteInsert(h)
    <3>1. \A dup \in BOOLEAN : Settle(job, job.st, dup, job.popped) \in Job
      BY <1>0, SettleType
    <3>2. jobs' \in [Slots -> Job]
      BY <2>3, <3>1, SetType DEF CompleteInsert, TypeOK, Logged
    <3>3. job.st.idx \in Nat /\ job.req.leg \in Nat
      BY <1>0 DEF State, Request, Requests
    <3>4. LegSid(job, job.st.idx) \in (Calls \cup {NoCall}) \X Nat \X (Nat \cup {None})
      BY <1>0, <3>3 DEF LegSid, Request, Requests
    <3>5. CallStatusOf[job.req.out] \in RowStatus
      BY <1>0, <2>3, StatusOfType DEF CompleteInsert, At
    <3>6. RowOf(job) \in Row
      BY <3>3, <3>4, <3>5 DEF RowOf, Row, RowStatus
    <3>. QED
      BY <2>3, <3>2, <3>6 DEF CompleteInsert, TypeOK, Quiet
  <2>4. CASE CompleteFinish(h)
    <3>1. Answer(job, "goodbye") \in Job
      BY <1>0 DEF Answer, Job
    <3>. QED
      BY <2>4, <3>1, SetType DEF CompleteFinish, TypeOK, Quiet, SessionStatus, Terminal
  <2>. QED
    BY <1>6, <2>1, <2>2, <2>3, <2>4 DEF CallComplete
<1>7. CASE StatusTally(h)
  <2>1. \A pc \in {"close", "abandon"} : [job EXCEPT !.pc = pc] \in Job
    BY <1>0 DEF Job
  <2>. QED
    BY <1>7, <2>1, SetType DEF StatusTally, TypeOK, server, Quiet
<1>8. CASE StatusClose(h)
  <2>1. IdleJob \in Job
    BY ReqType, NewJobType DEF IdleJob
  <2>2. jobs' \in [Slots -> Job]
    BY <1>8, <2>1, SetType DEF StatusClose, TypeOK
  <2>3. session' \in [status: SessionStatus, sid: Calls \cup {NoCall}]
    <3>1. job.req.kind = "status"
      BY <1>8 DEF StatusClose, At
    <3>2. SessionStatusOf[job.req.out] \in SessionStatus /\ "failed" \in SessionStatus
      BY <1>0, <3>1, StatusOfType DEF SessionStatus, Terminal
    <3>. QED
      BY <1>8, <3>2 DEF StatusClose, TypeOK
  <2>. QED
    BY <1>8, <2>2, <2>3 DEF StatusClose, TypeOK, Quiet
<1>9. CASE SkipLoad(h)
  <2>1. redis \in State /\ redis.idx \in Nat
    BY <1>9 DEF SkipLoad, Loads, Readable, TypeOK, State
  <2>2. [redis EXCEPT !.skip = redis.idx] \in State
    BY <2>1 DEF State
  <2>3. Saving(job, [redis EXCEPT !.skip = redis.idx], "none") \in Job
    BY <1>0, <2>2, SavingType DEF Verb
  <2>4. jobs' \in [Slots -> Job]
    BY <1>9, <2>3, SetType DEF SkipLoad, TypeOK
  <2>. QED
    BY <1>9, <2>4 DEF SkipLoad, Loads, TypeOK, server
<1>10. CASE SaveState(h)
  <2>1. IdleJob \in Job
    BY ReqType, NewJobType DEF IdleJob
  <2>2. \A pc \in {"admit", "finish", "reply"} : [job EXCEPT !.pc = pc] \in Job
    BY <1>0 DEF Job
  <2>3. jobs' \in [Slots -> Job]
    BY <1>10, <2>1, <2>2, SetType DEF SaveState, TypeOK
  <2>4. clock' \in Clock
    <3>1. clock' = [aged |-> clock.aged \ {"state"}, stateLast |-> TRUE]
      BY <1>10 DEF SaveState
    <3>. QED
      BY <3>1, ClockType, Zenon
  <2>. QED
    BY <1>10, <1>0, <2>3, <2>4 DEF SaveState, TypeOK, Quiet, Clock
<1>11. CASE Discard(h)
  <2>1. IdleJob \in Job
    BY ReqType, NewJobType DEF IdleJob
  <2>. QED
    BY <1>11, <2>1, SetType DEF Discard, TypeOK, server
<1>12. CASE Reply(h)
  <2>1. IdleJob \in Job
    BY ReqType, NewJobType DEF IdleJob
  <2>2. PICK c \in Calls :
          /\ Set(h, IdleJob)
          /\ UNCHANGED <<server, clock, asked, spent>>
          /\ \/ /\ Ended(c) /\ Post(c, Req("status", "completed"))
                /\ UNCHANGED legs
             \/ /\ twilio' = [twilio EXCEPT ![c].phase = "gather", ![c].slot = NoSlot]
                /\ UNCHANGED <<mail, legs>>
             \/ /\ Fetch(c, Req("dial", ""))
                /\ UNCHANGED <<mail, legs>>
             \/ /\ twilio' = [twilio EXCEPT ![c] =
                                [phase |-> "dialing", slot |-> NoSlot,
                                 req |-> LegReq("completed", Len(legs) + 1, TRUE)]]
                /\ legs' = Append(legs, [call |-> c, index |-> jobs[h].to])
                /\ UNCHANGED mail
    BY <1>12, Zenon DEF Reply
  <2>3. jobs' \in [Slots -> Job]
    BY <2>1, <2>2, SetType DEF TypeOK
  <2>4. legs' \in Seq([call: Calls, index: Nat])
    <3>1. jobs[h].to \in Nat
      BY <1>0
    <3>2. legs' = legs \/ legs' = Append(legs, [call |-> c, index |-> jobs[h].to])
      BY <2>2, Zenon
    <3>3. legs \in Seq([call: Calls, index: Nat])
      BY DEF TypeOK
    <3> DEFINE leg == [call |-> c, index |-> jobs[h].to]
    <3>4. leg \in [call: Calls, index: Nat]
      BY <3>1
    <3> HIDE DEF leg
    <3>5. Append(legs, leg) \in Seq([call: Calls, index: Nat])
      BY <3>3, <3>4, AppendProperties
    <3>. QED
      BY <3>2, <3>3, <3>5 DEF leg
  <2>5. twilio' \in [Calls -> Line]
    <3>1. twilio \in [Calls -> Line] /\ Len(legs) + 1 \in Nat
      BY LenProperties DEF TypeOK, Line
    <3>2. CASE twilio' = [twilio EXCEPT ![c].phase = "gather", ![c].slot = NoSlot]
      <4>1. "gather" \in {"ended", "gather"}
        OBVIOUS
      <4>. QED
        BY <3>2, <4>1, PhaseType, Zenon
    <3>3. CASE twilio' = [twilio EXCEPT ![c] =
                            [phase |-> "dialing", slot |-> NoSlot,
                             req |-> LegReq("completed", Len(legs) + 1, TRUE)]]
      <4>1. [phase |-> "dialing", slot |-> NoSlot,
             req |-> LegReq("completed", Len(legs) + 1, TRUE)] \in Line
        BY <3>1, ReqType DEF Line
      <4>. QED
        BY <3>1, <3>3, <4>1
    <3>. QED
      BY <2>2, <3>2, <3>3, TwilioType, ReqType
  <2>6. mail' \in [Calls -> SUBSET Request]
    <3>1. mail' = mail \/ Post(c, Req("status", "completed"))
      BY <2>2, Zenon
    <3>. QED
      BY <3>1, TwilioType, ReqType DEF TypeOK
  <2>. QED
    BY <2>2, <2>3, <2>4, <2>5, <2>6 DEF TypeOK, server, Line
<1>. QED
  BY <1>1, <1>2, <1>3, <1>4, <1>5, <1>6, <1>7, <1>8, <1>9, <1>10, <1>11, <1>12
  DEF Run

\* Using up a bound keeps the counters natural.
LEMMA UseType ==
  ASSUME TypeOK, NEW b \in {"faults", "late", "skips", "deletes", "lulls"}, Use(b)
  PROVE  spent' \in [faults: Nat, late: Nat, skips: Nat, deletes: Nat, lulls: Nat]
BY DEF TypeOK, Use

\* A fault of a job keeps TypeOK.
LEMMA FaultType ==
  ASSUME TypeOK, NEW h \in Slots, Lose(h) \/ RedisError(h)
  PROVE  TypeOK'
<1>1. IdleJob \in Job /\ jobs[h] \in Job
  BY ReqType, NewJobType DEF IdleJob, TypeOK
<1>2. CASE Lose(h)
  <2>1. spent' \in [faults: Nat, late: Nat, skips: Nat, deletes: Nat, lulls: Nat]
    BY <1>2, UseType DEF Lose
  <2>2. jobs' \in [Slots -> Job]
    BY <1>1, <1>2, SetType DEF Lose, TypeOK
  <2>3. twilio' \in [Calls -> Line]
    <3>1. \A c \in Calls : twilio[c] \in Line /\ [twilio[c] EXCEPT !.slot = NoSlot] \in Line
      BY DEF TypeOK, Line
    <3>. QED
      BY <1>2, <3>1 DEF Lose
  <2>4. mail' \in [Calls -> SUBSET Request]
    <3>1. jobs[h].req \in Request
      BY <1>1 DEF Job
    <3>2. CASE jobs[h].req.kind = "status"
      <4>1. Post(jobs[h].call, jobs[h].req)
        BY <1>2, <3>2 DEF Lose
      <4>2. mail \in [Calls -> SUBSET Request]
        BY DEF TypeOK
      <4>. QED
        BY <3>1, <4>1, <4>2 DEF Post
    <3>3. CASE jobs[h].req.kind # "status"
      BY <1>2, <3>3 DEF Lose, TypeOK
    <3>. QED
      BY <3>2, <3>3
  <2>. QED
    BY <1>2, <2>1, <2>2, <2>3, <2>4 DEF Lose, TypeOK, server, Line
<1>3. CASE RedisError(h)
  <2>1. spent' \in [faults: Nat, late: Nat, skips: Nat, deletes: Nat, lulls: Nat]
    BY <1>3, UseType DEF RedisError
  <2>2. Answer(jobs[h], "hangup") \in Job
    BY <1>1 DEF Answer, Job
  <2>. QED
    BY <1>3, <2>1, <2>2, SetType DEF RedisError, TypeOK, server
<1>. QED
  BY <1>2, <1>3

\* What is remembered of the presses of skip stays a history of presses.
LEMMA PressesType ==
  ASSUME TypeOK
  PROVE  /\ Lapses => asked' \in Presses
         /\ PressSkip => asked' \in Presses
<1>1. asked \in Presses /\ asked.legs \in SUBSET Nat
      /\ asked.blind \in BOOLEAN /\ asked.late \in BOOLEAN
  BY DEF TypeOK, Presses
<1>2. OnLine \in SUBSET Nat
  <2>1. twilio \in [Calls -> Line]
    BY DEF TypeOK, Line
  <2>2. \A c \in Calls : twilio[c].req.leg \in Nat
    BY <2>1 DEF Line, Request, Requests
  <2>. QED
    BY <2>2 DEF OnLine
<1>3. ASSUME NEW l \in SUBSET Nat, NEW b \in BOOLEAN, NEW t \in BOOLEAN
      PROVE  /\ [asked EXCEPT !.late = t] \in Presses
             /\ [asked EXCEPT !.legs = l, !.blind = b] \in Presses
  BY <1>1 DEF Presses
<1>4. (asked.late \/ Skipping) \in BOOLEAN /\ (asked.blind \/ OnLine = {}) \in BOOLEAN
      /\ asked.legs \cup OnLine \in SUBSET Nat
  BY <1>1, <1>2 DEF Skipping
<1>. QED
  BY <1>3, <1>4 DEF Lapses, PressSkip

\* A step of Twilio keeps TypeOK.
LEMMA DialogType ==
  ASSUME TypeOK, NEW c \in Calls, Twilio(c)
  PROVE  TypeOK'
<1>1. /\ twilio \in [Calls -> Line] /\ mail \in [Calls -> SUBSET Request]
      /\ jobs \in [Slots -> Job]
      /\ twilio[c] \in Line /\ twilio[c].req \in Request /\ twilio[c].req.leg \in Nat
  BY DEF TypeOK, Line, Request, Requests
<1>2. CASE AnswerCall(c)
  <2>1. twilio' \in [Calls -> Line] /\ mail' \in [Calls -> SUBSET Request]
    BY <1>2, TwilioType, ReqType DEF AnswerCall
  <2>. QED
    BY <1>2, <2>1 DEF AnswerCall, TypeOK, server, Line
<1>3. CASE NoAnswer(c)
  <2>1. twilio' \in [Calls -> Line] /\ mail' \in [Calls -> SUBSET Request]
    BY <1>3, TwilioType, ReqType DEF NoAnswer
  <2>. QED
    BY <1>3, <2>1 DEF NoAnswer, TypeOK, server, Line
<1>4. CASE Gathered(c)
  <2>1. twilio' \in [Calls -> Line]
    BY <1>4, TwilioType, ReqType DEF Gathered
  <2>. QED
    BY <1>4, <2>1 DEF Gathered, TypeOK, server, Line
<1>5. CASE LegEnds(c)
  <2>1. twilio' \in [Calls -> Line]
    BY <1>1, <1>5, TwilioType, ReqType DEF LegEnds
  <2>. QED
    BY <1>5, <2>1, PressesType DEF LegEnds, TypeOK, server, Line, Presses
<1>6. CASE HangUp(c)
  <2>1. twilio' \in [Calls -> Line]
    BY <1>6, TwilioType, ReqType DEF HangUp
  <2>2. mail' \in [Calls -> SUBSET Request]
    <3>1. CASE twilio[c].phase = "dialing"
      <4>1. {Req("status", "completed"),
             LegReq("completed", twilio[c].req.leg, TRUE)} \subseteq Request
        BY <1>1, ReqType
      <4>2. mail' = [mail EXCEPT ![c] = @ \cup
                       {Req("status", "completed"),
                        LegReq("completed", twilio[c].req.leg, TRUE)}]
        BY <1>6, <3>1 DEF HangUp
      <4>. QED
        BY <1>1, <4>1, <4>2
    <3>2. CASE twilio[c].phase # "dialing"
      BY <1>6, <3>2, TwilioType, ReqType DEF HangUp
    <3>. QED
      BY <3>1, <3>2
  <2>3. asked' \in Presses
    BY <1>6, PressesType DEF HangUp, TypeOK, Presses
  <2>. QED
    BY <1>6, <2>1, <2>2, <2>3 DEF HangUp, TypeOK, server, Line, Presses
<1>7. CASE Deliver(c)
  <2>1. PICK h \in Slots : /\ Set(h, NewJob("load", twilio[c].req, c))
                           /\ twilio' = [twilio EXCEPT ![c].slot = h]
    BY <1>7 DEF Deliver
  <2>2. jobs' \in [Slots -> Job]
    BY <1>1, <2>1, NewJobType, SetType
  <2>3. twilio' \in [Calls -> Line]
    <3>1. [twilio[c] EXCEPT !.slot = h] \in Line
      BY <1>1 DEF Line
    <3>. QED
      BY <1>1, <2>1, <3>1
  <2>. QED
    BY <1>7, <2>2, <2>3 DEF Deliver, TypeOK, server, Line
<1>8. CASE TimeOut(c)
  <2>1. spent' \in [faults: Nat, late: Nat, skips: Nat, deletes: Nat, lulls: Nat]
    BY <1>8, UseType DEF TimeOut
  <2>2. twilio' \in [Calls -> Line]
    <3>1. [twilio[c] EXCEPT !.slot = NoSlot] \in Line
      BY <1>1 DEF Line
    <3>. QED
      BY <1>1, <1>8, <3>1 DEF TimeOut
  <2>. QED
    BY <1>8, <2>1, <2>2 DEF TimeOut, TypeOK, server, Line
<1>9. CASE DeliverMail(c)
  <2>1. PICK m \in mail[c], h \in Slots :
          /\ Set(h, NewJob(IF m.kind # "status" THEN "load"
                           ELSE IF m.out = "completed" THEN "tally" ELSE "close", m, c))
          /\ \/ mail' = [mail EXCEPT ![c] = @ \ {m}] /\ UNCHANGED spent
             \/ Use("late") /\ UNCHANGED mail
    BY <1>9, Zenon DEF DeliverMail
  <2>2. jobs' \in [Slots -> Job]
    <3>1. m \in Request
      BY <1>1
    <3>2. \A pc \in {"load", "tally", "close"} : NewJob(pc, m, c) \in Job
      BY <3>1, NewJobType
    <3>. QED
      BY <1>1, <2>1, <3>2, SetType
  <2>3. mail' \in [Calls -> SUBSET Request]
    BY <1>1, <2>1
  <2>4. spent' \in [faults: Nat, late: Nat, skips: Nat, deletes: Nat, lulls: Nat]
    BY <2>1, UseType DEF TypeOK
  <2>. QED
    BY <1>9, <2>2, <2>3, <2>4 DEF DeliverMail, TypeOK, server
<1>. QED
  BY <1>2, <1>3, <1>4, <1>5, <1>6, <1>7, <1>8, <1>9 DEF Twilio

\* Everything else keeps TypeOK.
LEMMA OutsideType ==
  ASSUME TypeOK, CreateCallReturns \/ PressSkip \/ TargetDeleted \/ Lull \/ Expire
  PROVE  TypeOK'
<1>1. CASE CreateCallReturns
  BY <1>1 DEF CreateCallReturns, TypeOK, Quiet, SessionStatus, Terminal
<1>2. CASE PressSkip
  <2>1. spent' \in [faults: Nat, late: Nat, skips: Nat, deletes: Nat, lulls: Nat]
    BY <1>2, UseType DEF PressSkip
  <2>2. NewJob("load", Req("skip", ""), NoCall) \in Job
    BY ReqType, NewJobType
  <2>3. jobs' \in [Slots -> Job]
    BY <1>2, <2>2, SetType DEF PressSkip, TypeOK
  <2>. QED
    BY <1>2, <2>1, <2>3, PressesType DEF PressSkip, TypeOK, server, Presses
<1>3. CASE TargetDeleted
  <2>1. spent' \in [faults: Nat, late: Nat, skips: Nat, deletes: Nat, lulls: Nat]
    BY <1>3, UseType DEF TargetDeleted
  <2>2. \A r \in rows, i \in present :
           [r EXCEPT !.target = IF @ = i THEN None ELSE @] \in Row
    <3>1. ASSUME NEW r \in Row, NEW t \in Nat \cup {None}
          PROVE  [r EXCEPT !.target = t] \in Row
      BY DEF Row
    <3>2. \A r \in rows : r \in Row /\ r.target \in Nat \cup {None}
      BY DEF TypeOK, Row
    <3>. QED
      BY <3>1, <3>2
  <2>3. present' \subseteq 0 .. NumTargets - 1 /\ rows' \subseteq Row
    BY <1>3, <2>2 DEF TargetDeleted, TypeOK
  <2>. QED
    BY <1>3, <2>1, <2>3 DEF TargetDeleted, TypeOK
<1>4. CASE Lull
  <2>1. spent' \in [faults: Nat, late: Nat, skips: Nat, deletes: Nat, lulls: Nat]
    BY <1>4, UseType DEF Lull
  <2>2. clock' \in Clock
    BY <1>4, ClockType DEF Lull, Clock
  <2>. QED
    BY <1>4, <2>1, <2>2 DEF Lull, TypeOK, server, Clock
<1>5. CASE Expire
  BY <1>5 DEF Expire, TypeOK, Quiet
<1>. QED
  BY <1>1, <1>2, <1>3, <1>4, <1>5

\* TypeOK holds for every number of targets, calls and jobs: no handler of
\* webhooks.py, however its steps interleave, stores a document, a row or a
\* status outside its type.
THEOREM TypeCorrect == Spec => []TypeOK
<1>1. TypeOK /\ [Next]_vars => TypeOK'
  <2> SUFFICES ASSUME TypeOK, [Next]_vars PROVE TypeOK'
    OBVIOUS
  <2>1. CASE UNCHANGED vars
    BY <2>1 DEF vars, TypeOK
  <2>2. ASSUME NEW h \in Slots, Run(h) \/ Lose(h) \/ RedisError(h)
        PROVE  TypeOK'
    BY <2>2, RunType, FaultType
  <2>3. ASSUME NEW c \in Calls, Twilio(c) PROVE TypeOK'
    BY <2>3, DialogType
  <2>4. CASE CreateCallReturns \/ PressSkip \/ TargetDeleted \/ Lull \/ Expire
    BY <2>4, OutsideType
  <2>. QED
    BY <2>1, <2>2, <2>3, <2>4 DEF Next
<1>. QED
  BY InitType, <1>1, PTL DEF Spec

-----------------------------------------------------------------------------
(* 2. How a session may reach, and leave, a terminal status.                 *)
(* CompletedMeansCalled: as long as no Call row is written and no target is  *)
(* deleted, the stored state and every copy of it stay at the first target,  *)
(* nothing is on its way to the closing UPDATE of call_complete, and         *)
(* status_callback has nothing to close the session as completed with.       *)

Fresh == rows = {} /\ spent.deletes = 0
Unworked(st) == st.idx = 0 /\ st.dialed \in {None, 0} /\ st.done = {}
Unstarted(job) ==
  /\ Unworked(job.st)
  /\ job.pc # "finish" /\ job.ans # "finish"
  /\ job.pc = "close" => job.req.out # "completed"

CloseInv ==
  /\ spent.deletes = 0 => present = 0 .. NumTargets - 1
  /\ Fresh => /\ redis # NoState => Unworked(redis)
              /\ \A h \in Slots : Unstarted(jobs[h])
              /\ session.status # "completed"

\* A job replaced by an unstarted one keeps CloseInv.
LEMMA SetUnstarted ==
  ASSUME TypeOK, CloseInv, NEW h \in Slots, NEW job \in Job, Set(h, job),
         Fresh => Unstarted(job),
         UNCHANGED <<redis, rows, present>>, spent'.deletes = spent.deletes,
         session'.status # "completed" \/ UNCHANGED session
  PROVE  CloseInv'
<1>1. Fresh => \A g \in Slots : Unstarted(jobs'[g])
  BY DEF TypeOK, CloseInv, Set
<1>2. Fresh' => Fresh
  BY DEF Fresh
<1>. QED
  BY <1>1, <1>2 DEF CloseInv, Unworked

\* What is known of any job.
LEMMA JobFacts ==
  ASSUME TypeOK, CloseInv, NEW h \in Slots
  PROVE  /\ jobs[h] \in Job /\ jobs[h].st \in State
         /\ jobs[h].call \in Calls \cup {NoCall}
         /\ Fresh => Unstarted(jobs[h]) /\ Unworked(jobs[h].st)
BY DEF TypeOK, Job, CloseInv, Unstarted

\* An answer other than finish starts nothing.
LEMMA AnswerUnstarted ==
  ASSUME NEW job \in Job, NEW verb \in Verb
  PROVE  /\ Answer(job, verb) \in Job
         /\ Unstarted(job) /\ verb # "finish" => Unstarted(Answer(job, verb))
BY DEF Answer, Job, Unstarted, Unworked, Verb

\* Nor does storing an unworked document.
LEMMA SavingUnstarted ==
  ASSUME NEW job \in Job, NEW st \in State, NEW verb \in Verb
  PROVE  /\ Saving(job, st, verb) \in Job
         /\ Unstarted(job) /\ Unworked(st) /\ verb # "finish"
              => Unstarted(Saving(job, st, verb))
BY DEF Saving, Job, Unstarted, Unworked, Verb

\* Nor does moving on to any step but the closing ones.
LEMMA StepUnstarted ==
  ASSUME NEW job \in Job,
         NEW pc \in {"claim", "holder", "admit", "target", "dedupe", "insert",
                     "abandon", "reply"}
  PROVE  /\ [job EXCEPT !.pc = pc] \in Job
         /\ Unstarted(job) => Unstarted([job EXCEPT !.pc = pc])
         /\ \A st \in State :
              /\ [job EXCEPT !.pc = pc, !.st = st] \in Job
              /\ Unstarted(job) /\ Unworked(st)
                   => Unstarted([job EXCEPT !.pc = pc, !.st = st])
<1>1. [job EXCEPT !.pc = pc] \in Job
  BY DEF Job
<1>2. Unstarted(job) => Unstarted([job EXCEPT !.pc = pc])
  BY DEF Job, Unstarted
<1>3. ASSUME NEW st \in State
      PROVE  /\ [job EXCEPT !.pc = pc, !.st = st] \in Job
             /\ Unstarted(job) /\ Unworked(st)
                  => Unstarted([job EXCEPT !.pc = pc, !.st = st])
  <2>1. [job EXCEPT !.pc = pc, !.st = st] \in Job
    BY DEF Job
  <2>. QED
    BY <2>1 DEF Job, Unstarted
<1>. QED
  BY <1>1, <1>2, <1>3

\* voice-app keeps CloseInv.
LEMMA VoiceUnstarted ==
  ASSUME TypeOK, CloseInv, NEW h \in Slots, VoiceApp(h)
  PROVE  CloseInv'
<1> DEFINE job == jobs[h]
<1>1. /\ job \in Job /\ job.st \in State /\ job.call \in Calls \cup {NoCall}
      /\ Fresh => Unstarted(job) /\ Unworked(job.st)
  BY JobFacts
<1>2. Claimed(job) \in Job /\ (Fresh => Unstarted(Claimed(job)))
  <2> DEFINE bound == [job.st EXCEPT !.sid = job.call]
  <2>1. bound \in State /\ (Unworked(job.st) => Unworked(bound))
    BY <1>1 DEF State, Unworked
  <2>2. "none" \in Verb /\ Claimed(job) = Saving(job, bound, "none")
    BY DEF Claimed, Verb
  <2> HIDE DEF bound
  <2>. QED
    BY <1>1, <2>1, <2>2, SavingUnstarted
<1>3. CASE VoiceLoad(h)
  <2>1. redis \in State /\ (Fresh => Unworked(redis))
    BY <1>3 DEF VoiceLoad, Loads, Readable, TypeOK, CloseInv
  <2>2. UNCHANGED <<redis, rows, present, session, spent>>
        /\ Set(h, [job EXCEPT !.pc = "claim", !.st = redis])
    BY <1>3 DEF VoiceLoad, Loads, server
  <2>. QED
    BY <1>1, <2>1, <2>2, StepUnstarted, SetUnstarted
<1>4. CASE VoiceClaim(h)
  <2>1. UNCHANGED <<redis, rows, present, session, spent>>
        /\ (Set(h, Claimed(job)) \/ Set(h, [job EXCEPT !.pc = "holder"]))
    BY <1>4 DEF VoiceClaim, Quiet
  <2>. QED
    BY <1>1, <1>2, <2>1, StepUnstarted, SetUnstarted
<1>5. CASE VoiceHolder(h)
  <2>1. UNCHANGED <<redis, rows, present, session, spent>>
        /\ \/ Set(h, Claimed(job)) \/ Set(h, Answer(job, "hangup"))
           \/ Set(h, [job EXCEPT !.pc = "claim", !.retried = TRUE])
    BY <1>5 DEF VoiceHolder, Quiet, server
  <2>2. /\ [job EXCEPT !.pc = "claim", !.retried = TRUE] \in Job
        /\ Fresh => Unstarted([job EXCEPT !.pc = "claim", !.retried = TRUE])
    BY <1>1 DEF Job, Unstarted
  <2>3. "hangup" \in Verb
    BY DEF Verb
  <2>4. Answer(job, "hangup") \in Job /\ (Fresh => Unstarted(Answer(job, "hangup")))
    BY <1>1, <2>3, AnswerUnstarted
  <2>. QED
    BY <1>2, <2>1, <2>2, <2>4, SetUnstarted
<1>6. CASE VoiceAdmit(h)
  <2>1. /\ UNCHANGED <<redis, rows, present, spent>>
        /\ session'.status # "completed" \/ UNCHANGED session
        /\ \E verb \in Verb : verb # "finish" /\ Set(h, Answer(job, verb))
    BY <1>6 DEF VoiceAdmit, Quiet, Verb
  <2>. QED
    BY <1>1, <2>1, AnswerUnstarted, SetUnstarted
<1>. QED
  BY <1>3, <1>4, <1>5, <1>6 DEF VoiceApp

\* make-calls and dial-target keep CloseInv: the first target is there, so it
\* is dialed and not passed over.
LEMMA DialUnstarted ==
  ASSUME TypeOK, CloseInv, NEW h \in Slots, MakeCalls(h) \/ DialLoad(h) \/ DialTarget(h)
  PROVE  CloseInv'
<1> DEFINE job == jobs[h]
<1>1. /\ job \in Job /\ job.st \in State
      /\ Fresh => Unstarted(job) /\ Unworked(job.st)
  BY JobFacts
<1>2. CASE MakeCalls(h)
  <2> DEFINE counted == [redis EXCEPT !.attempts = redis.attempts + 1]
  <2>1. redis \in State /\ (Fresh => Unworked(redis))
        /\ UNCHANGED <<redis, rows, present, session, spent>>
    BY <1>2 DEF MakeCalls, Loads, Readable, TypeOK, CloseInv, server
  <2>2. counted \in State /\ (Fresh => Unworked(counted))
    BY <2>1 DEF State, Unworked
  <2>3. \E verb \in Verb : verb # "finish" /\
          (Set(h, Answer(job, verb)) \/ Set(h, Saving(job, counted, verb)))
    BY <1>2 DEF MakeCalls, Verb
  <2> HIDE DEF counted
  <2>. QED
    BY <1>1, <2>1, <2>2, <2>3, AnswerUnstarted, SavingUnstarted, SetUnstarted
<1>3. CASE DialLoad(h)
  <2>1. redis \in State /\ (Fresh => Unworked(redis))
        /\ UNCHANGED <<redis, rows, present, session, spent>>
    BY <1>3 DEF DialLoad, Loads, Readable, TypeOK, CloseInv, server
  <2>2. "goodbye" \in Verb /\ "goodbye" # "finish"
    BY DEF Verb
  <2>3. \/ Set(h, Answer(job, "goodbye"))
        \/ Set(h, [job EXCEPT !.pc = "target", !.st = redis])
    BY <1>3 DEF DialLoad
  <2>. QED
    BY <1>1, <2>1, <2>2, <2>3, AnswerUnstarted, StepUnstarted, SetUnstarted
<1>4. CASE DialTarget(h)
  <2> DEFINE dial == [job EXCEPT !.to = job.st.idx]
             over == [job.st EXCEPT !.idx = job.st.idx + 1]
             dialed == [job.st EXCEPT !.dialed = job.st.idx]
  <2>1. UNCHANGED <<redis, rows, present, session, spent>>
    BY <1>4 DEF DialTarget, Quiet, server
  <2>2. job.st.idx \in Nat /\ over \in State /\ dialed \in State
        /\ (Fresh => Unworked(dialed))
    BY <1>1 DEF State, Unworked
  <2>3. dial \in Job /\ (Fresh => Unstarted(dial))
    BY <1>1, <2>2 DEF Job, Unstarted
  <2>4. Fresh => job.st.idx \in present
    BY <1>1, ConstantsOK DEF Fresh, CloseInv, Unworked
  <2>5. \/ ~Fresh /\ \E verb \in Verb : Set(h, Saving(job, over, verb))
        \/ Set(h, Saving(dial, dialed, "dial")) \/ Set(h, Answer(dial, "dial"))
    BY <1>4, <2>4 DEF DialTarget, Dialing, Verb
  <2>6. "dial" \in Verb /\ "dial" # "finish"
    BY DEF Verb
  <2> HIDE DEF dial, over, dialed
  <2>. QED
    BY <1>1, <2>1, <2>2, <2>3, <2>5, <2>6, SavingUnstarted, AnswerUnstarted, SetUnstarted
<1>. QED
  BY <1>2, <1>3, <1>4

\* With nothing logged and nothing done, a leg's first report is no repeat and
\* goes to the INSERT.
LEMMA SortedUnstarted ==
  ASSUME NEW job \in Job, NEW st \in State, Unstarted(job), Unworked(st)
  PROVE  Unstarted(Sorted(job, st, FALSE))
<1> DEFINE popped == [st EXCEPT !.skip = None]
<1>1. popped \in State /\ Unworked(popped)
  BY DEF State, Unworked
<1>2. Sorted(job, st, FALSE) =
        [job EXCEPT !.pc = "insert", !.st = popped, !.popped = st.skip]
  <2>1. st.idx < NumTargets
    BY ConstantsOK DEF Unworked
  <2>. QED
    BY <2>1 DEF Sorted
<1>3. [job EXCEPT !.pc = "insert", !.st = popped, !.popped = st.skip] \in Job
  BY <1>1 DEF Job, State
<1> HIDE DEF popped
<1>. QED
  BY <1>1, <1>2, <1>3 DEF Job, Unstarted

\* call-complete keeps CloseInv: it reaches its closing UPDATE only past an
\* INSERT.
LEMMA CompleteUnstarted ==
  ASSUME TypeOK, CloseInv, NEW h \in Slots, CallComplete(h)
  PROVE  CloseInv'
<1> DEFINE job == jobs[h]
<1>1. /\ job \in Job /\ job.st \in State /\ job.popped \in Nat \cup {None}
      /\ Fresh => Unstarted(job) /\ Unworked(job.st)
  BY JobFacts DEF Job
<1>2. CASE CompleteLoad(h)
  <2>1. redis \in State /\ (Fresh => Unworked(redis))
        /\ UNCHANGED <<redis, rows, present, session, spent>>
    BY <1>2 DEF CompleteLoad, Loads, Readable, TypeOK, CloseInv, server
  <2>2. SeenInState(redis) \in BOOLEAN /\ (Fresh => SeenInState(redis) = FALSE)
    BY <2>1 DEF SeenInState, Unworked
  <2>3. Sorted(job, redis, SeenInState(redis)) \in Job
        /\ (Fresh => Unstarted(Sorted(job, redis, SeenInState(redis))))
    BY <1>1, <2>1, <2>2, SortedType, SortedUnstarted
  <2>4. \/ Set(h, [job EXCEPT !.pc = "dedupe", !.st = redis])
        \/ Set(h, Sorted(job, redis, SeenInState(redis)))
    BY <1>2 DEF CompleteLoad
  <2>. QED
    BY <1>1, <2>1, <2>3, <2>4, StepUnstarted, SetUnstarted
<1>3. CASE CompleteDedupe(h)
  <2> DEFINE dup == Logged(LegSid(job, job.st.idx))
  <2>1. dup \in BOOLEAN /\ (Fresh => dup = FALSE)
    BY DEF Logged, Fresh
  <2>2. /\ Set(h, Sorted(job, job.st, dup))
        /\ UNCHANGED <<redis, rows, present, session, spent>>
    BY <1>3 DEF CompleteDedupe, Quiet, server
  <2> HIDE DEF dup
  <2>3. Sorted(job, job.st, dup) \in Job
        /\ (Fresh => Unstarted(Sorted(job, job.st, dup)))
    BY <1>1, <2>1, SortedType, SortedUnstarted
  <2>. QED
    BY <2>2, <2>3, SetUnstarted
<1>4. CASE CompleteInsert(h)
  <2> DEFINE dup == Logged(LegSid(job, job.st.idx)) \/ job.st.idx \notin present
  <2>1. Fresh => ~dup
    BY <1>1, ConstantsOK DEF Fresh, Logged, CloseInv, Unworked
  <2>2. rows' = (IF dup THEN rows ELSE rows \cup {RowOf(job)})
        /\ UNCHANGED <<present, spent>>
    BY <1>4 DEF CompleteInsert, Quiet
  <2>3. ~Fresh'
    BY <2>1, <2>2 DEF Fresh
  <2>. QED
    BY <2>2, <2>3 DEF CloseInv
<1>5. CASE CompleteFinish(h)
  <2>1. ~Fresh
    BY <1>1, <1>5 DEF CompleteFinish, At, Unstarted
  <2>2. UNCHANGED <<rows, present, spent>>
    BY <1>5 DEF CompleteFinish, Quiet
  <2>. QED
    BY <2>1, <2>2 DEF Fresh, CloseInv
<1>. QED
  BY <1>2, <1>3, <1>4, <1>5 DEF CallComplete

\* status-callback keeps CloseInv: it closes a session as completed only past a
\* tally that saw a row.
LEMMA StatusUnstarted ==
  ASSUME TypeOK, CloseInv, NEW h \in Slots, StatusTally(h) \/ StatusClose(h)
  PROVE  CloseInv'
<1> DEFINE job == jobs[h]
<1>1. job \in Job /\ job.req \in Request /\ (Fresh => Unstarted(job))
  BY JobFacts DEF Job
<1>2. IdleJob \in Job /\ Unstarted(IdleJob)
  BY ReqType, NewJobType DEF IdleJob, NewJob, FreshState, Unstarted, Unworked
<1>3. CASE StatusTally(h)
  <2>1. UNCHANGED <<redis, rows, present, session, spent>>
    BY <1>3 DEF StatusTally, Quiet, server
  <2>2. \/ Set(h, [job EXCEPT !.pc = "abandon"])
        \/ ~Fresh /\ Set(h, [job EXCEPT !.pc = "close"])
    BY <1>3 DEF StatusTally, Fresh
  <2>3. [job EXCEPT !.pc = "close"] \in Job
    BY <1>1 DEF Job
  <2>. QED
    BY <1>1, <2>1, <2>2, <2>3, StepUnstarted, SetUnstarted
<1>4. CASE StatusClose(h)
  <2>1. Set(h, IdleJob) /\ UNCHANGED <<redis, rows, present, spent>>
    BY <1>4 DEF StatusClose, Quiet
  <2>2. Fresh => session'.status # "completed"
    <3>1. Fresh /\ job.pc = "close" => SessionStatusOf[job.req.out] # "completed"
      <4>1. job.req.kind = "status"
        BY <1>4 DEF StatusClose, At
      <4>. QED
        BY <1>1, <4>1 DEF Unstarted, Request, Requests, SessionStatusOf
    <3>2. Fresh => session.status # "completed"
      BY DEF CloseInv
    <3>3. \/ session' = session
          \/ /\ job.pc = "abandon"
             /\ session' = [session EXCEPT !.status = "failed"]
          \/ /\ job.pc = "close"
             /\ session' = [session EXCEPT !.status = SessionStatusOf[job.req.out]]
      BY <1>4 DEF StatusClose, At
    <3>. QED
      BY <3>1, <3>2, <3>3 DEF TypeOK
  <2>3. Fresh' => Fresh
    BY <2>1 DEF Fresh
  <2>4. \A g \in Slots : Unstarted(jobs[g]) => Unstarted(jobs'[g])
    BY <1>2, <2>1 DEF TypeOK, Set
  <2>. QED
    BY <2>1, <2>2, <2>3, <2>4 DEF CloseInv
<1>. QED
  BY <1>3, <1>4

\* Every step of a job keeps CloseInv.
LEMMA RunUnstarted ==
  ASSUME TypeOK, CloseInv, NEW h \in Slots, Run(h)
  PROVE  CloseInv'
<1> DEFINE job == jobs[h]
<1>1. /\ job \in Job /\ job.st \in State
      /\ Fresh => Unstarted(job) /\ Unworked(job.st)
  BY JobFacts
<1>2. IdleJob \in Job /\ Unstarted(IdleJob)
  BY ReqType, NewJobType DEF IdleJob, NewJob, FreshState, Unstarted, Unworked
<1>3. CASE RejectUnbound(h)
  <2>1. /\ UNCHANGED <<redis, rows, present, session, spent>>
        /\ Set(h, Answer(job, "hangup")) /\ "hangup" \in Verb /\ "hangup" # "finish"
    BY <1>3 DEF RejectUnbound, server, Verb
  <2>. QED
    BY <1>1, <2>1, AnswerUnstarted, SetUnstarted
<1>4. CASE Discard(h) \/ Reply(h)
  <2>1. Set(h, IdleJob) /\ UNCHANGED <<redis, rows, present, session, spent>>
    BY <1>4 DEF Discard, Reply, server
  <2>. QED
    BY <1>2, <2>1, SetUnstarted
<1>5. CASE SkipLoad(h)
  <2> DEFINE marked == [redis EXCEPT !.skip = redis.idx]
  <2>1. redis \in State /\ (Fresh => Unworked(redis))
        /\ UNCHANGED <<redis, rows, present, session, spent>>
    BY <1>5 DEF SkipLoad, Loads, Readable, TypeOK, CloseInv, server
  <2>2. marked \in State /\ (Fresh => Unworked(marked))
    BY <2>1 DEF State, Unworked
  <2>3. Set(h, Saving(job, marked, "none")) /\ "none" \in Verb /\ "none" # "finish"
    BY <1>5 DEF SkipLoad, Verb
  <2> HIDE DEF marked
  <2>. QED
    BY <1>1, <2>1, <2>2, <2>3, SavingUnstarted, SetUnstarted
<1>6. CASE SaveState(h)
  <2>1. redis' = job.st /\ UNCHANGED <<rows, present, session, spent>>
    BY <1>6 DEF SaveState, Quiet
  <2>2. \/ Set(h, IdleJob)
        \/ \E pc \in {"admit", "reply"} : Set(h, [job EXCEPT !.pc = pc])
        \/ job.ans = "finish"
    BY <1>6 DEF SaveState
  <2>3. Fresh' => Fresh
    BY <2>1 DEF Fresh
  <2>4. Fresh => \E to \in Job : Unstarted(to) /\ Set(h, to)
    BY <1>1, <1>2, <2>2, StepUnstarted DEF Unstarted
  <2>5. Fresh => \A g \in Slots : Unstarted(jobs'[g])
    BY <2>4 DEF TypeOK, CloseInv, Set
  <2>. QED
    BY <1>1, <2>1, <2>3, <2>5 DEF CloseInv
<1>. QED
  BY <1>3, <1>4, <1>5, <1>6, VoiceUnstarted, DialUnstarted, CompleteUnstarted,
     StatusUnstarted DEF Run

\* So does everything outside the server.
LEMMA OutsideUnstarted ==
  ASSUME TypeOK, CloseInv,
         \/ \E h \in Slots : Lose(h) \/ RedisError(h)
         \/ \E c \in Calls : Twilio(c)
         \/ CreateCallReturns \/ PressSkip \/ TargetDeleted \/ Lull \/ Expire
  PROVE  CloseInv'
<1>1. \A pc \in {"idle", "load", "tally", "close"}, req \in Request, c \in Calls \cup {NoCall} :
        /\ NewJob(pc, req, c) \in Job
        /\ pc = "close" => req.out # "completed"
        => Unstarted(NewJob(pc, req, c))
  BY NewJobType DEF NewJob, FreshState, Unstarted, Unworked
<1>2. \A b \in {"faults", "late", "skips", "lulls"} : Use(b) => spent'.deletes = spent.deletes
  BY DEF Use, TypeOK
<1>3. ASSUME NEW h \in Slots, Lose(h) PROVE CloseInv'
  <2>1. IdleJob \in Job /\ Unstarted(IdleJob)
    BY ReqType, NewJobType DEF IdleJob, NewJob, FreshState, Unstarted, Unworked
  <2>2. Set(h, IdleJob) /\ UNCHANGED <<redis, rows, present, session>>
        /\ spent'.deletes = spent.deletes
    BY <1>2, <1>3 DEF Lose, server
  <2>. QED
    BY <2>1, <2>2, SetUnstarted
<1>4. ASSUME NEW h \in Slots, RedisError(h) PROVE CloseInv'
  <2>1. /\ UNCHANGED <<redis, rows, present, session>>
        /\ spent'.deletes = spent.deletes
        /\ Set(h, Answer(jobs[h], "hangup")) /\ "hangup" \in Verb /\ "hangup" # "finish"
    BY <1>2, <1>4 DEF RedisError, server, Verb
  <2>. QED
    BY <2>1, JobFacts, AnswerUnstarted, SetUnstarted
<1>5. ASSUME NEW c \in Calls, Deliver(c) \/ DeliverMail(c) PROVE CloseInv'
  <2>1. twilio[c].req \in Request /\ mail[c] \subseteq Request
    BY DEF TypeOK
  <2>2. UNCHANGED <<redis, rows, present, session>> /\ spent'.deletes = spent.deletes
    BY <1>2, <1>5 DEF Deliver, DeliverMail, server
  <2>3. \E h \in Slots, pc \in {"load", "tally", "close"}, req \in Request :
           /\ pc = "close" => req.out # "completed"
           /\ Set(h, NewJob(pc, req, c))
    <3>1. CASE Deliver(c)
      BY <2>1, <3>1 DEF Deliver
    <3>2. CASE DeliverMail(c)
      BY <2>1, <3>2 DEF DeliverMail
    <3>. QED
      BY <1>5, <3>1, <3>2
  <2>4. \E h \in Slots, job \in Job : Unstarted(job) /\ Set(h, job)
    BY <1>1, <2>3, NewJobType
  <2>. QED
    BY <2>2, <2>4, SetUnstarted
<1>6. ASSUME NEW c \in Calls, Twilio(c), ~Deliver(c), ~DeliverMail(c) PROVE CloseInv'
  <2>1. UNCHANGED <<redis, rows, present, session, jobs>>
        /\ spent'.deletes = spent.deletes
    BY <1>2, <1>6 DEF Twilio, AnswerCall, NoAnswer, Gathered, LegEnds, HangUp,
                      TimeOut, server
  <2>. QED
    BY <2>1 DEF CloseInv, Fresh
<1>7. ASSUME PressSkip PROVE CloseInv'
  <2>1. /\ UNCHANGED <<redis, rows, present, session>>
        /\ spent'.deletes = spent.deletes
        /\ \E h \in Slots : Set(h, NewJob("load", Req("skip", ""), NoCall))
    BY <1>2, <1>7 DEF PressSkip, server
  <2>2. /\ NewJob("load", Req("skip", ""), NoCall) \in Job
        /\ Unstarted(NewJob("load", Req("skip", ""), NoCall))
    BY ReqType, NewJobType DEF NewJob, FreshState, Unstarted, Unworked
  <2>. QED
    BY <2>1, <2>2, SetUnstarted
<1>8. ASSUME TargetDeleted PROVE CloseInv'
  <2>1. spent'.deletes > 0
    BY <1>8 DEF TargetDeleted, Use, TypeOK
  <2>. QED
    BY <2>1 DEF CloseInv, Fresh
<1>9. ASSUME CreateCallReturns PROVE CloseInv'
  BY <1>9 DEF CreateCallReturns, Quiet, CloseInv, Fresh, TypeOK
<1>10. ASSUME Lull \/ Expire PROVE CloseInv'
  <2>1. /\ UNCHANGED <<rows, present, session, jobs>>
        /\ spent'.deletes = spent.deletes
        /\ redis' = redis \/ redis' = NoState
    BY <1>2, <1>10 DEF Lull, Expire, Quiet, server
  <2>. QED
    BY <2>1 DEF CloseInv, Fresh
<1>. QED
  BY <1>3, <1>4, <1>5, <1>6, <1>7, <1>8, <1>9, <1>10

(* For every campaign length, every number of calls and jobs and every loss,  *)
(* repeat or delay: a session is completed only if a leg of it was logged     *)
(* (call_complete's closing UPDATE, _session_has_calls in status_callback).   *)
THEOREM CompletedSessionsCalled == Spec => []CompletedMeansCalled
<1>1. Init => CloseInv
  <2> SUFFICES ASSUME Init PROVE CloseInv
    OBVIOUS
  <2>1. Unstarted(IdleJob) /\ \A h \in Slots : jobs[h] = IdleJob
    BY DEF Init, IdleJob, NewJob, FreshState, Unstarted, Unworked
  <2>2. Unworked(redis) /\ session.status # "completed"
    BY DEF Init, FreshState, Unworked
  <2>. QED
    BY <2>1, <2>2 DEF Init, CloseInv
<1>2. TypeOK /\ CloseInv /\ [Next]_vars => CloseInv'
  <2> SUFFICES ASSUME TypeOK, CloseInv, [Next]_vars PROVE CloseInv'
    OBVIOUS
  <2>1. CASE UNCHANGED vars
    BY <2>1 DEF vars, CloseInv, Fresh
  <2>2. CASE Next
    BY <2>2, RunUnstarted, OutsideUnstarted DEF Next
  <2>. QED
    BY <2>1, <2>2
<1>3. CloseInv => CompletedMeansCalled
  BY DEF CloseInv, Fresh, CompletedMeansCalled
<1>. QED
  BY <1>1, <1>2, <1>3, TypeCorrect, PTL DEF Spec

(* The closing UPDATEs of call_complete and status_callback respect           *)
(* _TERMINAL_SESSION_STATUSES: only voice_app and create_call, which do not    *)
(* look, ever change a terminal status.                                       *)
THEOREM OnlyUnguardedUpdatesReopen == Spec => OnlyVoiceReopens
<1> DEFINE A == (session.status \in Terminal /\ session'.status # session.status)
                  => \/ \E h \in Slots : VoiceAdmit(h)
                     \/ CreateCallReturns
<1>1. TypeOK /\ [Next]_vars => [A]_vars
  <2> SUFFICES ASSUME TypeOK, [Next]_vars, session.status \in Terminal,
                      session'.status # session.status,
                      ~CreateCallReturns, \A h \in Slots : ~VoiceAdmit(h)
               PROVE  FALSE
    OBVIOUS
  <2>1. CASE UNCHANGED vars
    BY <2>1 DEF vars
  <2>2. ASSUME NEW h \in Slots, CompleteFinish(h) \/ StatusClose(h)
        PROVE  FALSE
    BY <2>2 DEF CompleteFinish, StatusClose, TypeOK
  <2>3. ASSUME NEW h \in Slots, Run(h), ~CompleteFinish(h), ~StatusClose(h)
        PROVE  FALSE
    BY <2>3 DEF Run, VoiceApp, CallComplete, RejectUnbound, VoiceLoad, VoiceClaim,
                VoiceHolder, MakeCalls, DialLoad, DialTarget, CompleteLoad,
                CompleteDedupe, CompleteInsert, StatusTally, SkipLoad, SaveState,
                Discard, Reply, Loads, Quiet, server
  <2>4. ASSUME NEW h \in Slots, Lose(h) \/ RedisError(h) PROVE FALSE
    BY <2>4 DEF Lose, RedisError, server
  <2>5. ASSUME NEW c \in Calls, Twilio(c) PROVE FALSE
    BY <2>5 DEF Twilio, AnswerCall, NoAnswer, Gathered, LegEnds, HangUp, Deliver,
                TimeOut, DeliverMail, server
  <2>6. CASE PressSkip \/ TargetDeleted \/ Lull \/ Expire
    BY <2>6 DEF PressSkip, TargetDeleted, Lull, Expire, server
  <2>. QED
    BY <2>1, <2>2, <2>3, <2>4, <2>5, <2>6 DEF Next
<1>. QED
  BY <1>1, TypeCorrect, PTL DEF Spec, OnlyVoiceReopens

-----------------------------------------------------------------------------
(* 3. A session serves one call.  While no key has expired the binding names *)
(* it.  Once keys expire the binding may go first, but then the CallSid in   *)
(* the stored document, which only a skip can undo, keeps the others out;    *)
(* and a call that still asks for the claim never outlives the binding that  *)
(* refused it.                                                               *)

\* How each Twilio call stands to the session: not answered yet, being let in
\* by voice-app, or in.
New == {c \in Calls : twilio[c].phase = "new"}
Ringing ==
  {c \in Calls : \/ twilio[c].phase = "webhook" /\ twilio[c].req.kind = "voice"
                 \/ \E h \in Slots : jobs[h].req.kind = "voice" /\ jobs[h].call = c}
Inside(c) ==
  \/ twilio[c].phase \in {"gather", "dialing"}
  \/ twilio[c].phase = "webhook" /\ twilio[c].req.kind # "voice"
  \/ \E m \in mail[c] : m.kind = "complete"

\* A job that was let in; one that has the claim and is about to store it; one
\* that still asks for it; one whose document will be, or may be, stored.
Admitted(job) ==
  \/ job.req.kind \in {"make", "dial", "complete"}
  \/ /\ job.req.kind = "voice"
     /\ job.pc = "admit" \/ (job.pc = "reply" /\ job.ans # "hangup")
Storing(job) == job.req.kind = "voice" /\ job.pc = "save"
Asking(job) == job.req.kind = "voice" /\ job.pc \in {"claim", "holder"}
Carries(job) == job.pc \in {"save", "target", "dedupe", "insert"}
In == {c \in Calls : Inside(c) \/ \E h \in Slots : Admitted(jobs[h]) /\ jobs[h].call = c}

\* Jobs, requests and callbacks are what their kind says, and a job that Twilio
\* waits for is the one that serves the request it sent.
Wired ==
  /\ \A h \in Slots :
       /\ jobs[h].req.kind # "skip" => ~Idle(h) /\ jobs[h].call \in Calls
       /\ Carries(jobs[h]) =>
            jobs[h].req.kind = "skip" \/ Storing(jobs[h]) \/ Admitted(jobs[h])
  /\ \A c \in Calls :
       /\ twilio[c].req.kind \in {"voice", "make", "dial", "complete"}
       /\ twilio[c].slot # NoSlot => /\ twilio[c].phase = "webhook"
                                     /\ jobs[twilio[c].slot].call = c
                                     /\ jobs[twilio[c].slot].req = twilio[c].req
       /\ \A m \in mail[c] : m.kind \in {"status", "complete"}

\* Only o has left a trace.
Only(o) ==
  /\ redis # NoState => redis.sid \in {NoCall, o}
  /\ session.sid \in {NoCall, o}
  /\ \A k \in DOMAIN legs : legs[k].call = o
  /\ In \subseteq {o}
  /\ \A h \in Slots : /\ Storing(jobs[h]) => jobs[h].call = o
                      /\ Carries(jobs[h]) => jobs[h].st.sid \in {NoCall, o}

\* As long as no key expires, the binding says who that is.
Bound == spent.lulls = 0 => clock.aged = {} /\ Only(bind)

\* Keys do expire, but nothing overwrites the CallSid of the stored state: then
\* the state itself keeps others out once a call is in, and the binding, which
\* outlives every job, does until then.
Entered == session.sid # NoCall \/ DOMAIN legs # {} \/ In # {}
Secure(o) == bind = o /\ "bind" \notin clock.aged
Open == ~Entered /\ (redis # NoState => redis.sid = NoCall)
Sole(o) ==
  /\ bind \in {NoCall, o}
  /\ Only(o)
  /\ Entered => (redis # NoState => redis.sid = o)
  /\ \A h \in Slots :
       /\ Storing(jobs[h]) => Secure(o)
       /\ Carries(jobs[h]) => jobs[h].st.sid = o
       /\ Asking(jobs[h]) => jobs[h].call = o \/ Secure(o) \/ Open

\* A call whose binding comes to its end has had its answer from voice-app.
Past ==
  /\ Ringing \cap New = {}
  /\ bind # NoCall => bind \notin New /\ ("bind" \in clock.aged => bind \notin Ringing)

Single ==
  spent.skips = 0 =>
    /\ \A h \in Slots : jobs[h].req.kind = "skip" => Idle(h)
    /\ Past
    /\ \E o \in Calls \cup {NoCall} : Sole(o)

OneInv == Wired /\ Bound /\ Single

\* From here on, what one job's move to another job may do to OneInv.
Follows(h, to) ==
  LET job == jobs[h] IN
  /\ to.req = job.req /\ to.call = job.call /\ to.pc # "idle" /\ ~Idle(h)
  /\ Admitted(to) => Admitted(job)
  /\ Storing(to) => Storing(job) \/ (bind = job.call /\ to.st.sid = job.call)
  /\ Asking(to) =>
       Asking(job) \/ (redis # NoState /\ redis.sid \in {NoCall, job.call})
  /\ Carries(to) =>
       /\ job.req.kind = "skip" \/ Storing(to) \/ Admitted(to)
       /\ \/ Carries(job) /\ to.st.sid = job.st.sid
          \/ Storing(to) /\ to.st.sid = job.call
          \/ redis # NoState /\ to.st.sid = redis.sid
             /\ (job.req.kind = "skip" \/ Admitted(job))

\* Putting a job in a slot leaves the others where they are.
LEMMA Others ==
  ASSUME TypeOK, NEW h \in Slots, NEW to, Set(h, to)
  PROVE  jobs'[h] = to /\ \A g \in Slots : g # h => jobs'[g] = jobs[g]
BY DEF TypeOK, Set

\* A dial is some call's, at an index of the list.
LEMMA LegType ==
  ASSUME TypeOK, NEW k \in DOMAIN legs
  PROVE  legs[k].call \in Calls /\ legs[k].index \in Nat
<1>1. legs \in Seq([call: Calls, index: Nat])
  BY DEF TypeOK
<1>2. DOMAIN legs = 1..Len(legs)
  BY <1>1, LenProperties
<1>3. legs[k] \in [call: Calls, index: Nat]
  BY <1>1, <1>2, ElementOfSeq
<1> QED
  BY <1>3

\* Steps that touch neither key: who is in, and who may come in, does not grow,
\* and each job moves as Follows allows or ends.
LEMMA WorldStep ==
  ASSUME TypeOK, OneInv, Wired',
         redis' = redis, bind' = bind, clock' = clock,
         session'.sid = session.sid \/ session'.sid \in In,
         spent'.skips = 0 => spent.skips = 0,
         spent'.lulls = 0 => spent.lulls = 0,
         In' \subseteq In,
         \A k \in DOMAIN legs' :
            legs'[k].call \in In \/ \E j \in DOMAIN legs : legs'[k].call = legs[j].call,
         New' \subseteq New, Ringing' \subseteq Ringing \cup New,
         spent'.skips = 0 => Ringing' \cap New' = {},
         \A g \in Slots : \/ jobs'[g] = jobs[g]
                          \/ jobs'[g].pc = "idle"
                          \/ Follows(g, jobs'[g])
                          \/ /\ jobs'[g].pc \in {"load", "tally", "close"}
                             /\ jobs'[g].req.kind = "skip" => spent'.skips # 0
  PROVE  OneInv'
<1>1. \A g \in Slots :
        LET job == jobs[g]  to == jobs'[g] IN
        /\ Storing(to) => \/ Storing(job) /\ to.call = job.call
                          \/ bind = to.call /\ to.call \in Ringing /\ to.call \in Calls
        /\ Asking(to) => \/ Asking(job) /\ to.call = job.call
                         \/ redis # NoState /\ redis.sid \in {NoCall, to.call}
        /\ Carries(to) => \/ Carries(job) /\ to.st.sid = job.st.sid
                          \/ Storing(to) /\ to.st.sid = to.call
                          \/ redis # NoState /\ to.st.sid = redis.sid /\ job.req.kind = "skip"
                             /\ ~Idle(g)
                          \/ redis # NoState /\ to.st.sid = redis.sid /\ In # {}
  <2> SUFFICES ASSUME NEW g \in Slots
               PROVE  LET job == jobs[g]  to == jobs'[g] IN
        /\ Storing(to) => \/ Storing(job) /\ to.call = job.call
                          \/ bind = to.call /\ to.call \in Ringing /\ to.call \in Calls
        /\ Asking(to) => \/ Asking(job) /\ to.call = job.call
                         \/ redis # NoState /\ redis.sid \in {NoCall, to.call}
        /\ Carries(to) => \/ Carries(job) /\ to.st.sid = job.st.sid
                          \/ Storing(to) /\ to.st.sid = to.call
                          \/ redis # NoState /\ to.st.sid = redis.sid /\ job.req.kind = "skip"
                             /\ ~Idle(g)
                          \/ redis # NoState /\ to.st.sid = redis.sid /\ In # {}
    OBVIOUS
  <2>1. CASE jobs'[g] = jobs[g]
    BY <2>1
  <2>2. CASE jobs'[g].pc \in {"idle", "load", "tally", "close"}
    BY <2>2 DEF Storing, Asking, Carries
  <2>3. CASE Follows(g, jobs'[g])
    <3>1. jobs[g].req.kind # "skip" => jobs[g].call \in Calls
      BY DEF OneInv, Wired, Idle
    <3>2. Storing(jobs'[g]) => jobs[g].call \in Ringing
      BY <2>3, <3>1 DEF Follows, Storing, Ringing
    <3>3. Storing(jobs'[g]) => jobs[g].call \in Calls
      BY <2>3, <3>1 DEF Follows, Storing
    <3>4. Admitted(jobs[g]) => In # {}
      BY <3>1 DEF In, Admitted
    <3> QED
      BY <2>3, <3>2, <3>3, <3>4 DEF Follows
  <2> QED
    BY <2>1, <2>2, <2>3
<1>2. ASSUME NEW o, Only(o)
      PROVE  /\ redis # NoState => redis.sid \in {NoCall, o}
             /\ session'.sid \in {NoCall, o}
             /\ \A k \in DOMAIN legs' : legs'[k].call = o
             /\ In' \subseteq {o}
  BY <1>2 DEF Only
<1>3. Bound'
  <2> SUFFICES ASSUME spent'.lulls = 0
               PROVE  clock.aged = {} /\ Only(bind)'
    BY DEF Bound
  <2>1. clock.aged = {} /\ Only(bind)
    BY DEF OneInv, Bound
  <2>2. \A g \in Slots : /\ Storing(jobs'[g]) => jobs'[g].call = bind
                         /\ Carries(jobs'[g]) => jobs'[g].st.sid \in {NoCall, bind}
    BY <1>1, <2>1 DEF Only
  <2> QED
    BY <1>2, <2>1, <2>2 DEF Only
<1>4. Single'
  <2> SUFFICES ASSUME spent'.skips = 0
               PROVE  /\ \A h \in Slots : jobs'[h].req.kind = "skip" => jobs'[h].pc = "idle"
                      /\ Past'
                      /\ \E o \in Calls \cup {NoCall} : Sole(o)'
    BY DEF Single, Idle
  <2>1. /\ \A h \in Slots : jobs[h].req.kind = "skip" => Idle(h)
        /\ Past
    BY DEF OneInv, Single
  <2>2. PICK o \in Calls \cup {NoCall} : Sole(o)
    BY DEF OneInv, Single
  <2>3. \A h \in Slots : jobs'[h].req.kind = "skip" => jobs'[h].pc = "idle"
    BY <2>1 DEF Follows, Idle
  <2>4. Past'
    BY <2>1 DEF Past
  <2>5. Entered' => Entered
    BY DEF Entered
  <2>6. o = NoCall => ~Entered
    <3> SUFFICES ASSUME Only(NoCall) PROVE ~Entered
      BY <2>2 DEF Sole
    <3>1. In = {} /\ session.sid = NoCall
      BY ConstantsOK DEF Only, In
    <3>2. \A k \in DOMAIN legs : legs[k].call # NoCall
      BY LegType, ConstantsOK
    <3> QED
      BY <3>1, <3>2 DEF Only, Entered
  <2>7. (Entered => (redis # NoState => redis.sid = o)) /\ bind \in {NoCall, o} /\ Only(o)
    BY <2>2 DEF Sole
  <2>8. Secure(o)' = Secure(o)
    BY DEF Secure
  <2>9. \A g \in Slots :
          /\ Storing(jobs'[g]) => Secure(o) /\ jobs'[g].call = o
          /\ Carries(jobs'[g]) => jobs'[g].st.sid = o
          /\ Asking(jobs'[g]) => jobs'[g].call = o \/ Secure(o) \/ Open'
    <3> SUFFICES ASSUME NEW g \in Slots
                 PROVE  /\ Storing(jobs'[g]) => Secure(o) /\ jobs'[g].call = o
                        /\ Carries(jobs'[g]) => jobs'[g].st.sid = o
                        /\ Asking(jobs'[g]) => jobs'[g].call = o \/ Secure(o) \/ Open'
      OBVIOUS
    <3>1. /\ Storing(jobs[g]) => Secure(o) /\ jobs[g].call = o
          /\ Carries(jobs[g]) => jobs[g].st.sid = o
          /\ Asking(jobs[g]) => jobs[g].call = o \/ Secure(o) \/ Open
      BY <2>2 DEF Sole, Only
    <3>2. Storing(jobs'[g]) => Secure(o) /\ jobs'[g].call = o
      BY <1>1, <2>1, <2>7, <3>1, ConstantsOK DEF Secure, Past
    <3>3. Carries(jobs'[g]) => jobs'[g].st.sid = o
      BY <1>1, <2>1, <2>7, <3>1, <3>2 DEF Entered
    <3>4. Open => Open'
      BY <2>5 DEF Open
    <3>5. redis # NoState /\ redis.sid \in {NoCall, jobs'[g].call}
            => jobs'[g].call = o \/ Open'
      BY <2>5, <2>6, <2>7 DEF Open, Only
    <3>6. Asking(jobs'[g]) => jobs'[g].call = o \/ Secure(o) \/ Open'
      BY <1>1, <3>1, <3>4, <3>5
    <3> QED
      BY <3>2, <3>3, <3>6
  <2>10. Only(o)'
    BY <1>2, <2>7, <2>9 DEF Only
  <2>11. Sole(o)'
    BY <2>5, <2>7, <2>8, <2>9, <2>10 DEF Sole
  <2> QED
    BY <2>3, <2>4, <2>11
<1> QED
  BY <1>3, <1>4 DEF OneInv

\* A job of the server moves on.
LEMMA JobStep ==
  ASSUME TypeOK, OneInv, NEW h \in Slots, NEW to, Set(h, to), Follows(h, to),
         UNCHANGED <<redis, bind, clock, twilio, mail, legs>>,
         session'.sid = session.sid \/ session'.sid \in In,
         spent'.skips = spent.skips, spent'.lulls = spent.lulls
  PROVE  OneInv'
<1>1. jobs'[h] = to /\ \A g \in Slots : g # h => jobs'[g] = jobs[g]
  BY Others
<1>2. \A g \in Slots : /\ jobs'[g].req = jobs[g].req /\ jobs'[g].call = jobs[g].call
                       /\ Admitted(jobs'[g]) => Admitted(jobs[g])
  BY <1>1 DEF Follows
<1>3. In' \subseteq In
  <2>1. \A c \in Calls : Inside(c)' = Inside(c)
    BY DEF Inside
  <2> QED
    BY <1>2, <2>1 DEF In
<1>4. New' = New /\ Ringing' = Ringing
  BY <1>2 DEF New, Ringing
<1>5. Wired'
  <2>1. \A g \in Slots :
          /\ jobs'[g].req.kind # "skip" => jobs'[g].pc # "idle" /\ jobs'[g].call \in Calls
          /\ Carries(jobs'[g]) =>
               jobs'[g].req.kind = "skip" \/ Storing(jobs'[g]) \/ Admitted(jobs'[g])
    BY <1>1 DEF OneInv, Wired, Follows, Idle
  <2>2. \A c \in Calls : twilio[c].slot # NoSlot => twilio[c].slot \in Slots
    BY DEF TypeOK
  <2> QED
    BY <1>2, <2>1, <2>2 DEF OneInv, Wired, Idle
<1>6. spent.skips = 0 => Ringing \cap New = {}
  BY DEF OneInv, Single, Past
<1>7. \A g \in Slots : jobs'[g] = jobs[g] \/ Follows(g, jobs'[g])
  BY <1>1
<1> QED
  BY <1>3, <1>4, <1>5, <1>6, <1>7, WorldStep

\* A job that nobody waits for ends.
LEMMA JobEnds ==
  ASSUME TypeOK, OneInv, NEW h \in Slots, Set(h, IdleJob), ~Awaited(h),
         UNCHANGED <<redis, bind, clock, twilio, mail, legs>>,
         session'.sid = session.sid,
         spent'.skips = spent.skips, spent'.lulls = spent.lulls
  PROVE  OneInv'
<1>1. jobs'[h] = IdleJob /\ \A g \in Slots : g # h => jobs'[g] = jobs[g]
  BY Others
<1>2. /\ IdleJob.pc = "idle" /\ IdleJob.req.kind = "skip"
      /\ ~Admitted(IdleJob) /\ ~Carries(IdleJob)
  BY DEF IdleJob, NewJob, Req, Admitted, Carries
<1>3. In' \subseteq In
  <2>1. \A c \in Calls : Inside(c)' = Inside(c)
    BY DEF Inside
  <2>2. \A g \in Slots : Admitted(jobs'[g]) => Admitted(jobs[g]) /\ jobs'[g] = jobs[g]
    BY <1>1, <1>2
  <2> QED
    BY <2>1, <2>2 DEF In
<1>4. New' = New /\ Ringing' \subseteq Ringing
  <2>1. \A g \in Slots : jobs'[g].req.kind = "voice" => jobs'[g] = jobs[g]
    BY <1>1, <1>2
  <2> QED
    BY <2>1 DEF New, Ringing
<1>5. Wired'
  <2>1. \A g \in Slots :
          /\ jobs'[g].req.kind # "skip" => jobs'[g].pc # "idle" /\ jobs'[g].call \in Calls
          /\ Carries(jobs'[g]) =>
               jobs'[g].req.kind = "skip" \/ Storing(jobs'[g]) \/ Admitted(jobs'[g])
    BY <1>1, <1>2 DEF OneInv, Wired, Idle
  <2>2. \A c \in Calls : twilio[c].slot # NoSlot =>
          twilio[c].slot \in Slots /\ twilio[c].slot # h
    BY DEF TypeOK, Awaited
  <2> QED
    BY <1>1, <2>1, <2>2 DEF OneInv, Wired, Idle
<1>6. spent.skips = 0 => Ringing \cap New = {}
  BY DEF OneInv, Single, Past
<1>7. \A g \in Slots : jobs'[g] = jobs[g] \/ jobs'[g].pc = "idle"
  BY <1>1, <1>2
<1> QED
  BY <1>3, <1>4, <1>5, <1>6, <1>7, WorldStep

\* Answers stay within what Follows allows.
LEMMA AnswerFollows ==
  ASSUME TypeOK, NEW h \in Slots, ~Idle(h), NEW verb \in Verb,
         verb = "hangup" \/ Admitted(jobs[h])
  PROVE  Follows(h, Answer(jobs[h], verb))
<1>1. jobs[h] \in Job
  BY DEF TypeOK
<1> QED
  BY <1>1 DEF Follows, Answer, Job, Admitted, Storing, Asking, Carries

\* So does storing a document read by a job that is in.
LEMMA SavingFollows ==
  ASSUME TypeOK, NEW h \in Slots, ~Idle(h), NEW verb \in Verb, NEW st \in State,
         jobs[h].req.kind \in {"make", "dial", "complete", "skip"},
         \/ Carries(jobs[h]) /\ st.sid = jobs[h].st.sid
         \/ redis # NoState /\ st.sid = redis.sid
  PROVE  Follows(h, Saving(jobs[h], st, verb))
<1>1. jobs[h] \in Job
  BY DEF TypeOK
<1> QED
  BY <1>1 DEF Follows, Saving, Job, Admitted, Storing, Asking, Carries

\* The head of every handler, voice-app apart: a job in the session follows.
LEMMA LoadFollows ==
  ASSUME TypeOK, NEW h \in Slots, ~Idle(h), redis \in State,
         NEW st \in State, st.sid = redis.sid, redis # NoState,
         NEW pc \in {"target", "dedupe"},
         jobs[h].req.kind \in {"make", "dial", "complete"}
  PROVE  Follows(h, [jobs[h] EXCEPT !.pc = pc, !.st = st])
<1>1. jobs[h] \in Job
  BY DEF TypeOK
<1> QED
  BY <1>1 DEF Follows, Job, Admitted, Storing, Asking, Carries

\* call-complete passes on the CallSid of the document it read.
LEMMA SettleFollows ==
  ASSUME TypeOK, NEW h \in Slots, ~Idle(h), jobs[h].req.kind = "complete",
         NEW st \in State, NEW dup \in BOOLEAN, NEW popped \in Nat \cup {None},
         \/ Carries(jobs[h]) /\ st.sid = jobs[h].st.sid
         \/ redis # NoState /\ st.sid = redis.sid
  PROVE  Follows(h, Settle(jobs[h], st, dup, popped))
<1> DEFINE job == jobs[h]
           next == IF Advances(st, dup) THEN st.idx + 1 ELSE st.idx
           verb == IF next <= LegIndex(st) THEN "goodbye"
                   ELSE IF next < NumTargets THEN "redirect" ELSE "finish"
           moved == [st EXCEPT !.idx = next, !.done = @ \cup {st.idx}]
<1>0. next \in Nat /\ job \in Job
  BY DEF State, TypeOK
<1>1. verb \in Verb
  BY DEF Verb
<1> HIDE DEF next
<1>2. moved \in State /\ moved.sid = st.sid
  BY <1>0 DEF State
<1>3. Follows(h, [job EXCEPT !.pc = "finish", !.ans = verb])
  BY <1>0, <1>1 DEF Follows, Job, Admitted, Storing, Asking, Carries
<1>4. Settle(job, st, dup, popped) \in {Saving(job, moved, verb),
         Saving(job, st, verb), [job EXCEPT !.pc = "finish", !.ans = verb],
         Answer(job, verb)}
  BY DEF Settle, next
<1> HIDE DEF verb, moved
<1>5. Follows(h, Saving(job, moved, verb)) /\ Follows(h, Saving(job, st, verb))
  BY <1>1, <1>2, SavingFollows
<1>6. Follows(h, Answer(job, verb))
  BY <1>1, AnswerFollows DEF Admitted
<1> QED
  BY <1>3, <1>4, <1>5, <1>6

\* A callback sorted as first or repeat moves on as Follows allows.
LEMMA SortedFollows ==
  ASSUME TypeOK, NEW h \in Slots, ~Idle(h), jobs[h].req.kind = "complete",
         NEW st \in State, NEW dup \in BOOLEAN,
         \/ Carries(jobs[h]) /\ st.sid = jobs[h].st.sid
         \/ redis # NoState /\ st.sid = redis.sid
  PROVE  Follows(h, Sorted(jobs[h], st, dup))
<1> DEFINE job == jobs[h]
           popped == [st EXCEPT !.skip = None]
<1>1. popped \in State /\ popped.sid = st.sid /\ st.skip \in Nat \cup {None} /\ job \in Job
  BY DEF State, TypeOK
<1>2. Follows(h, Settle(job, st, TRUE, None))
  BY SettleFollows
<1>3. Follows(h, Settle(job, popped, FALSE, st.skip))
  <2> HIDE DEF popped
  <2> QED
    BY <1>1, SettleFollows
<1>4. Follows(h, [job EXCEPT !.pc = "insert", !.st = popped, !.popped = st.skip])
  <2> HIDE DEF popped
  <2> QED
    BY <1>1 DEF Follows, Job, Admitted, Storing, Asking, Carries
<1> QED
  BY <1>2, <1>3, <1>4 DEF Sorted

\* SET NX on a free binding: nobody is in but the call that claims it, or, if
\* nobody is in at all, this call is now the one.
LEMMA ClaimOne ==
  ASSUME TypeOK, OneInv, NEW h \in Slots, VoiceClaim(h), bind = NoCall
  PROVE  OneInv'
<1> DEFINE job == jobs[h]
           to == Claimed(job)
<1>0. PICK d : d = job.call
  OBVIOUS
<1>1. /\ bind' = d /\ clock' = [aged |-> clock.aged \ {"bind"}, stateLast |-> FALSE]
      /\ Set(h, to) /\ job.req.kind = "voice" /\ job.pc = "claim" /\ job \in Job
      /\ redis' = redis /\ session' = session /\ twilio' = twilio /\ mail' = mail
      /\ legs' = legs /\ spent' = spent
  BY <1>0 DEF VoiceClaim, At, Quiet, TypeOK
<1>2. d \in Calls /\ d # NoCall
  BY <1>0, <1>1, ConstantsOK DEF OneInv, Wired, Idle
<1>3. /\ to.req = job.req /\ to.call = d /\ to.pc = "save" /\ to.st.sid = d
      /\ ~Admitted(to) /\ Storing(to) /\ ~Asking(to)
  BY <1>0, <1>1 DEF Claimed, Saving, Job, State, Admitted, Storing, Asking
<1> HIDE DEF to
<1>4. jobs'[h] = to /\ \A g \in Slots : g # h => jobs'[g] = jobs[g]
  BY <1>1, Others
<1>5. /\ \A c \in Calls : Inside(c)' = Inside(c)
      /\ \A g \in Slots : /\ jobs'[g].req = jobs[g].req /\ jobs'[g].call = jobs[g].call
                          /\ Admitted(jobs'[g]) = Admitted(jobs[g])
  <2>1. ~Admitted(job)
    BY <1>1 DEF Admitted
  <2>2. Admitted(jobs'[h]) = Admitted(jobs[h])
    BY <1>3, <1>4, <2>1 DEF Admitted
  <2>3. \A g \in Slots : /\ jobs'[g].req = jobs[g].req /\ jobs'[g].call = jobs[g].call
                          /\ Admitted(jobs'[g]) = Admitted(jobs[g])
    BY <1>0, <1>3, <1>4, <2>2
  <2> QED
    BY <1>1, <2>3 DEF Inside
<1>6. In' = In /\ New' = New /\ Ringing' = Ringing
  BY <1>1, <1>5 DEF In, New, Ringing
<1>7. Wired'
  <2>1. \A g \in Slots :
          /\ jobs'[g].req.kind # "skip" => jobs'[g].pc # "idle" /\ jobs'[g].call \in Calls
          /\ Carries(jobs'[g]) =>
               jobs'[g].req.kind = "skip" \/ Storing(jobs'[g]) \/ Admitted(jobs'[g])
    BY <1>2, <1>3, <1>4 DEF OneInv, Wired, Idle
  <2>2. \A c \in Calls : twilio[c].slot # NoSlot => twilio[c].slot \in Slots
    BY DEF TypeOK
  <2> QED
    BY <1>1, <1>5, <2>1, <2>2 DEF OneInv, Wired, Idle
<1>8. ASSUME Only(NoCall) PROVE Only(d)' /\ ~Entered /\ (redis # NoState => redis.sid = NoCall)
  <2>1. In = {} /\ session.sid = NoCall /\ (redis # NoState => redis.sid = NoCall)
    BY <1>8, ConstantsOK DEF Only, In
  <2>2. DOMAIN legs = {}
    BY <1>8, LegType, ConstantsOK DEF Only
  <2>3. \A g \in Slots : g # h => ~Storing(jobs'[g]) /\
             (Carries(jobs'[g]) => jobs'[g].st.sid = NoCall)
    <3>1. \A g \in Slots : ~Storing(jobs[g])
      BY <1>8, ConstantsOK DEF Only, Storing, OneInv, Wired
    <3> QED
      BY <1>4, <1>8, <3>1 DEF Only
  <2>4. Only(d)'
    BY <1>1, <1>3, <1>4, <1>6, <2>1, <2>2, <2>3 DEF Only
  <2> QED
    BY <2>1, <2>2, <2>4 DEF Entered
<1>9. Bound'
  <2> SUFFICES ASSUME spent.lulls = 0 PROVE clock'.aged = {} /\ Only(d)'
    BY <1>1 DEF Bound
  <2>1. clock.aged = {} /\ Only(NoCall)
    BY DEF OneInv, Bound
  <2> QED
    BY <1>1, <1>8, <2>1
<1>10. Single'
  <2> SUFFICES ASSUME spent.skips = 0
               PROVE  /\ \A g \in Slots : jobs'[g].req.kind = "skip" => jobs'[g].pc = "idle"
                      /\ Past'
                      /\ \E o \in Calls \cup {NoCall} : Sole(o)'
    BY <1>1 DEF Single, Idle
  <2>1. /\ \A g \in Slots : jobs[g].req.kind = "skip" => jobs[g].pc = "idle"
        /\ Past
    BY DEF OneInv, Single, Idle
  <2>2. PICK o \in Calls \cup {NoCall} : Sole(o)
    BY DEF OneInv, Single
  <2>3. \A g \in Slots : jobs'[g].req.kind = "skip" => jobs'[g].pc = "idle"
    BY <1>1, <1>3, <1>4, <2>1
  <2>4. d \in Ringing
    BY <1>0, <1>1, <1>2 DEF Ringing
  <2>5. Past'
    BY <1>1, <1>6, <2>1, <2>4 DEF Past
  <2>6. Secure(d)'
    BY <1>1 DEF Secure
  <2>7. \A g \in Slots : ~Storing(jobs[g])
    <3> SUFFICES ASSUME NEW g \in Slots, Storing(jobs[g]) PROVE FALSE
      OBVIOUS
    <3>1. jobs[g].call = o /\ bind = o
      BY <2>2 DEF Sole, Only, Secure
    <3>2. jobs[g].call \in Calls
      BY DEF Storing, OneInv, Wired
    <3> QED
      BY <3>1, <3>2, ConstantsOK
  <2>8. \A g \in Slots : Storing(jobs'[g]) => g = h
    BY <1>4, <2>7
  <2>9. CASE o = d
    <3>1. Entered' = Entered
      BY <1>1, <1>6 DEF Entered
    <3>2. Only(d)'
      <4>1. \A g \in Slots : /\ Storing(jobs'[g]) => jobs'[g].call = d
                             /\ Carries(jobs'[g]) => jobs'[g].st.sid \in {NoCall, d}
        BY <1>3, <1>4, <2>2, <2>9 DEF Sole, Only
      <4> QED
        BY <1>1, <1>6, <2>2, <2>9, <4>1 DEF Sole, Only
    <3>3. \A g \in Slots : Carries(jobs'[g]) => jobs'[g].st.sid = d
      BY <1>3, <1>4, <2>2, <2>9 DEF Sole
    <3>4. Sole(d)'
      <4>1. bind' = d /\ (Entered' => (redis' # NoState => redis'.sid = d))
        BY <1>1, <2>2, <2>9, <3>1 DEF Sole
      <4> QED
        BY <2>6, <3>2, <3>3, <4>1 DEF Sole
    <3> QED
      BY <1>2, <2>3, <2>5, <3>4
  <2>10. CASE o # d
    <3>1. o = NoCall \/ (Open /\ ~Secure(o))
      <4>1. o # NoCall => ~Secure(o)
        BY DEF Secure
      <4>2. d = o \/ Secure(o) \/ Open
        BY <1>0, <1>1, <2>2 DEF Sole, Asking
      <4> QED
        BY <2>10, <4>1, <4>2
    <3>2. Open
      <4>1. o = NoCall => Open
        BY <1>8, <2>2 DEF Sole, Open
      <4> QED
        BY <3>1, <4>1
    <3>3. Entered' = Entered
      BY <1>1, <1>6 DEF Entered
    <3>4. \A g \in Slots : Carries(jobs'[g]) => g = h
      <4> SUFFICES ASSUME NEW g \in Slots, g # h, Carries(jobs[g]) PROVE FALSE
        BY <1>4
      <4>1. jobs[g].req.kind = "skip" \/ Storing(jobs[g]) \/ Admitted(jobs[g])
        BY DEF OneInv, Wired, Idle
      <4>2. jobs[g].req.kind # "skip"
        BY <2>1 DEF Carries
      <4>3. jobs[g].call \in Calls
        BY <4>2 DEF OneInv, Wired, Idle
      <4> QED
        BY <2>7, <3>2, <4>1, <4>2, <4>3 DEF Open, Entered, In
    <3>5. Only(d)'
      <4>1. In = {} /\ session.sid = NoCall /\ DOMAIN legs = {}
            /\ (redis # NoState => redis.sid = NoCall)
        BY <3>2 DEF Open, Entered
      <4>2. \A g \in Slots : /\ Storing(jobs'[g]) => jobs'[g].call = d
                             /\ Carries(jobs'[g]) => jobs'[g].st.sid \in {NoCall, d}
        BY <1>3, <1>4, <2>8, <3>4
      <4> QED
        BY <1>1, <1>6, <4>1, <4>2 DEF Only
    <3>6. \A g \in Slots : Carries(jobs'[g]) => jobs'[g].st.sid = d
      BY <1>3, <1>4, <3>4
    <3>7. Sole(d)'
      <4>1. bind' = d /\ ~Entered'
        BY <1>1, <3>2, <3>3 DEF Open
      <4> QED
        BY <2>6, <3>5, <3>6, <4>1 DEF Sole
    <3> QED
      BY <1>2, <2>3, <2>5, <3>7
  <2> QED
    BY <2>3, <2>5, <2>9, <2>10
<1> QED
  BY <1>7, <1>9, <1>10 DEF OneInv

\* save_call_state: the document stored is one that only the call let in, or
\* about to be, has touched.
LEMMA SaveOne ==
  ASSUME TypeOK, OneInv, NEW h \in Slots, SaveState(h)
  PROVE  OneInv'
<1> DEFINE job == jobs[h]
<1>1. /\ redis' = job.st /\ clock'.aged = clock.aged \ {"state"}
      /\ job.pc = "save" /\ job \in Job
      /\ bind' = bind /\ session' = session /\ twilio' = twilio /\ mail' = mail
      /\ legs' = legs /\ spent' = spent
  BY DEF SaveState, Quiet, TypeOK
<1>2. PICK to : /\ Set(h, to)
                /\ \/ to = IdleJob /\ job.req.kind = "skip"
                   \/ /\ to.req = job.req /\ to.call = job.call
                      /\ to.pc \in {"admit", "finish", "reply"}
                      /\ to.pc = "admit" <=> job.req.kind = "voice"
  <2>1. \A pc \in {"admit", "finish", "reply"} :
           LET to == [job EXCEPT !.pc = pc] IN
           to.req = job.req /\ to.call = job.call /\ to.pc = pc
    BY <1>1 DEF Job
  <2>2. \/ Set(h, IdleJob) /\ job.req.kind = "skip"
        \/ Set(h, [job EXCEPT !.pc = "admit"]) /\ job.req.kind = "voice"
        \/ Set(h, [job EXCEPT !.pc = "finish"]) /\ job.req.kind # "voice"
        \/ Set(h, [job EXCEPT !.pc = "reply"]) /\ job.req.kind # "voice"
    BY DEF SaveState
  <2>3. ASSUME NEW pc \in {"admit", "finish", "reply"}, Set(h, [job EXCEPT !.pc = pc]),
               pc = "admit" <=> job.req.kind = "voice"
        PROVE  \E to : /\ Set(h, to)
                       /\ to.req = job.req /\ to.call = job.call
                       /\ to.pc \in {"admit", "finish", "reply"}
                       /\ to.pc = "admit" <=> job.req.kind = "voice"
    BY <2>1, <2>3
  <2>4. CASE Set(h, IdleJob) /\ job.req.kind = "skip"
    BY <2>4
  <2>5. CASE Set(h, [job EXCEPT !.pc = "admit"]) /\ job.req.kind = "voice"
    BY <2>3, <2>5
  <2>6. CASE Set(h, [job EXCEPT !.pc = "finish"]) /\ job.req.kind # "voice"
    BY <2>3, <2>6
  <2>7. CASE Set(h, [job EXCEPT !.pc = "reply"]) /\ job.req.kind # "voice"
    BY <2>3, <2>7
  <2> QED
    BY <2>2, <2>4, <2>5, <2>6, <2>7
<1>3. jobs'[h] = to /\ \A g \in Slots : g # h => jobs'[g] = jobs[g]
  BY <1>2, Others
<1>4. /\ IdleJob.pc = "idle" /\ IdleJob.req.kind = "skip"
      /\ ~Admitted(IdleJob) /\ ~Carries(IdleJob)
  BY DEF IdleJob, NewJob, Req, Admitted, Carries
<1>5. /\ ~Carries(to) /\ ~Storing(to) /\ ~Asking(to)
      /\ Admitted(to) => to.call = job.call /\ (Admitted(job) \/ Storing(job))
      /\ to.req.kind = job.req.kind
      /\ to.req.kind = "skip" => to.pc = "idle" \/ job.req = to.req
      /\ to.req.kind # "skip" => to.pc # "idle" /\ to.call = job.call /\ to.req = job.req
  BY <1>1, <1>2, <1>4 DEF Carries, Storing, Asking, Admitted
<1>6. /\ New' = New /\ Ringing' \subseteq Ringing
      /\ \A c \in Calls : Inside(c)' = Inside(c)
  <2>1. \A g \in Slots : jobs'[g].req.kind = "voice" =>
           jobs[g].req.kind = "voice" /\ jobs'[g].call = jobs[g].call
    BY <1>3, <1>5
  <2> QED
    BY <1>1, <2>1 DEF New, Ringing, Inside
<1>7. Wired'
  <2>1. \A g \in Slots :
          /\ jobs'[g].req.kind # "skip" => jobs'[g].pc # "idle" /\ jobs'[g].call \in Calls
          /\ Carries(jobs'[g]) =>
               jobs'[g].req.kind = "skip" \/ Storing(jobs'[g]) \/ Admitted(jobs'[g])
    BY <1>3, <1>5 DEF OneInv, Wired, Idle
  <2>2. ASSUME NEW c \in Calls, twilio[c].slot # NoSlot
        PROVE  /\ jobs'[twilio[c].slot].call = c
               /\ jobs'[twilio[c].slot].req = twilio[c].req
    <3>1. twilio[c].slot \in Slots
      BY <2>2 DEF TypeOK
    <3>2. /\ jobs[twilio[c].slot].call = c /\ jobs[twilio[c].slot].req = twilio[c].req
          /\ twilio[c].req.kind # "skip"
      BY <2>2 DEF OneInv, Wired
    <3> QED
      BY <1>3, <1>5, <3>1, <3>2
  <2>3. \A c \in Calls : /\ twilio[c].req.kind \in {"voice", "make", "dial", "complete"}
                         /\ twilio[c].slot # NoSlot => twilio[c].phase = "webhook"
                         /\ \A m \in mail[c] : m.kind \in {"status", "complete"}
    BY DEF OneInv, Wired
  <2> QED
    BY <1>1, <2>1, <2>2, <2>3 DEF Wired, Idle
<1>8. In' \subseteq In \cup {c \in Calls : c = job.call /\ Storing(job)}
  <2>1. \A g \in Slots : Admitted(jobs'[g]) =>
           /\ jobs'[g].call = jobs[g].call
           /\ Admitted(jobs[g]) \/ (g = h /\ Storing(jobs[g]))
    BY <1>3, <1>5
  <2> QED
    BY <1>6, <2>1 DEF In
<1>9. ASSUME NEW o, Only(o) PROVE Only(o)'
  <2>1. In' \subseteq {o}
    BY <1>8, <1>9 DEF Only
  <2>2. redis'.sid \in {NoCall, o}
    BY <1>1, <1>9 DEF Only, Carries
  <2>3. \A g \in Slots : /\ Storing(jobs'[g]) => jobs'[g].call = o
                         /\ Carries(jobs'[g]) => jobs'[g].st.sid \in {NoCall, o}
    BY <1>3, <1>5, <1>9 DEF Only
  <2> QED
    BY <1>1, <1>9, <2>1, <2>2, <2>3 DEF Only
<1>10. Bound'
  BY <1>1, <1>9 DEF OneInv, Bound
<1>11. Single'
  <2> SUFFICES ASSUME spent.skips = 0
               PROVE  /\ \A g \in Slots : jobs'[g].req.kind = "skip" => jobs'[g].pc = "idle"
                      /\ Past'
                      /\ \E o \in Calls \cup {NoCall} : Sole(o)'
    BY <1>1 DEF Single, Idle
  <2>1. /\ \A g \in Slots : jobs[g].req.kind = "skip" => jobs[g].pc = "idle"
        /\ Past
    BY DEF OneInv, Single, Idle
  <2>2. PICK o \in Calls \cup {NoCall} : Sole(o)
    BY DEF OneInv, Single
  <2>3. job.req.kind # "skip"
    BY <1>1, <2>1
  <2>4. \A g \in Slots : jobs'[g].req.kind = "skip" => jobs'[g].pc = "idle"
    BY <1>3, <1>5, <2>1, <2>3
  <2>5. Past'
    BY <1>1, <1>6, <2>1 DEF Past
  <2>6. redis'.sid = o
    BY <1>1, <2>2 DEF Sole, Carries
  <2>7. Secure(o) => Secure(o)'
    BY <1>1 DEF Secure
  <2>8. Secure(o) \/ ~Open
    <3>1. Storing(job) \/ Admitted(job)
      BY <1>1, <2>3 DEF OneInv, Wired, Carries
    <3>2. CASE Storing(job)
      BY <2>2, <3>2 DEF Sole
    <3>3. CASE Admitted(job)
      <4>1. job.call \in Calls
        BY <2>3 DEF OneInv, Wired
      <4> QED
        BY <3>3, <4>1 DEF Open, Entered, In
    <3> QED
      BY <3>1, <3>2, <3>3
  <2>9. \A g \in Slots : /\ Storing(jobs'[g]) => Secure(o)'
                         /\ Carries(jobs'[g]) => jobs'[g].st.sid = o
                         /\ Asking(jobs'[g]) => jobs'[g].call = o \/ Secure(o)'
    BY <1>3, <1>5, <2>2, <2>7, <2>8 DEF Sole
  <2>10. Only(o)' /\ bind' \in {NoCall, o}
    BY <1>1, <1>9, <2>2 DEF Sole
  <2>11. Sole(o)'
    BY <2>6, <2>9, <2>10 DEF Sole
  <2> QED
    BY <2>4, <2>5, <2>11
<1> QED
  BY <1>7, <1>10, <1>11 DEF OneInv

\* Every step of a job that Twilio does not see.
LEMMA WorkOne ==
  ASSUME TypeOK, OneInv, NEW h \in Slots, Run(h), ~Reply(h)
  PROVE  OneInv'
<1> DEFINE job == jobs[h]
<1>0. job \in Job /\ job.st \in State /\ job.req \in Request
  BY DEF TypeOK, Job
<1>1. CASE RejectUnbound(h)
  <2>1. ~Idle(h) /\ "hangup" \in Verb
    BY <1>1 DEF RejectUnbound, Idle, Verb
  <2> QED
    BY <1>1, <2>1, AnswerFollows, JobStep DEF RejectUnbound, server
<1>2. CASE VoiceLoad(h)
  <2>1. Follows(h, [job EXCEPT !.pc = "claim", !.st = redis])
    BY <1>0, <1>2 DEF VoiceLoad, Loads, At, Readable, Idle, Follows, Job,
                      Admitted, Storing, Asking, Carries
  <2> QED
    BY <1>2, <2>1, JobStep DEF VoiceLoad, Loads, server
<1>3. CASE VoiceClaim(h)
  <2>1. CASE bind = NoCall
    BY <1>3, <2>1, ClaimOne
  <2>2. CASE bind # NoCall
    <3>1. Follows(h, [job EXCEPT !.pc = "holder"])
      BY <1>0, <1>3 DEF VoiceClaim, At, Idle, Follows, Job, Admitted, Storing, Asking, Carries
    <3> QED
      BY <1>3, <2>2, <3>1, JobStep DEF VoiceClaim, Quiet
  <2> QED
    BY <2>1, <2>2
<1>4. CASE VoiceHolder(h)
  <2>1. bind = job.call => Follows(h, Claimed(job))
    BY <1>0, <1>4 DEF VoiceHolder, At, Idle, Claimed, Saving, Follows, Job, State,
                      Admitted, Storing, Asking, Carries
  <2>2. Follows(h, [job EXCEPT !.pc = "claim", !.retried = TRUE])
    BY <1>0, <1>4 DEF VoiceHolder, At, Idle, Follows, Job, Admitted, Storing, Asking, Carries
  <2>3. Follows(h, Answer(job, "hangup"))
    BY <1>4, AnswerFollows DEF VoiceHolder, At, Idle, Verb
  <2>4. \E to : Set(h, to) /\ Follows(h, to)
    BY <1>4, <2>1, <2>2, <2>3 DEF VoiceHolder
  <2> QED
    BY <1>4, <2>4, JobStep DEF VoiceHolder, server, Quiet
<1>5. CASE VoiceAdmit(h)
  <2>1. job.req.kind = "voice" /\ job.pc = "admit"
    BY <1>5 DEF VoiceAdmit, At
  <2>2. Admitted(job) /\ ~Idle(h) /\ job.call \in In
    BY <2>1 DEF Admitted, Idle, In, OneInv, Wired
  <2>3. \E verb \in Verb : Set(h, Answer(job, verb))
    BY <1>5 DEF VoiceAdmit, Verb
  <2>4. session'.sid = session.sid \/ session'.sid \in In
    BY <1>5, <2>2 DEF VoiceAdmit
  <2>5. UNCHANGED <<redis, bind, clock, twilio, mail, legs, spent>>
    BY <1>5 DEF VoiceAdmit, Quiet
  <2>6. \E to : Set(h, to) /\ Follows(h, to)
    BY <2>2, <2>3, AnswerFollows
  <2> QED
    BY <2>4, <2>5, <2>6, JobStep
<1>6. CASE MakeCalls(h)
  <2> DEFINE counted == [redis EXCEPT !.attempts = redis.attempts + 1]
  <2>1. redis \in State /\ redis # NoState /\ job.req.kind = "make" /\ ~Idle(h)
    BY <1>6 DEF MakeCalls, Loads, At, Readable, TypeOK, Idle
  <2>2. counted \in State /\ counted.sid = redis.sid
    BY <2>1 DEF State
  <2>3. \E verb \in Verb : Set(h, Answer(job, verb)) \/ Set(h, Saving(job, counted, verb))
    BY <1>6 DEF MakeCalls, Verb
  <2> HIDE DEF counted
  <2>4. \A verb \in Verb : Follows(h, Answer(job, verb)) /\ Follows(h, Saving(job, counted, verb))
    BY <2>1, <2>2, AnswerFollows, SavingFollows DEF Admitted
  <2>5. \E to : Set(h, to) /\ Follows(h, to)
    BY <2>3, <2>4
  <2> QED
    BY <1>6, <2>5, JobStep DEF MakeCalls, Loads, server
<1>7. CASE DialLoad(h)
  <2>1. redis \in State /\ redis # NoState /\ job.req.kind = "dial" /\ ~Idle(h)
    BY <1>7 DEF DialLoad, Loads, At, Readable, TypeOK, Idle
  <2>2. Follows(h, [job EXCEPT !.pc = "target", !.st = redis])
    BY <2>1, LoadFollows
  <2>3. Follows(h, Answer(job, "goodbye"))
    BY <2>1, AnswerFollows DEF Admitted, Verb
  <2>4. \E to : Set(h, to) /\ Follows(h, to)
    BY <1>7, <2>2, <2>3 DEF DialLoad
  <2> QED
    BY <1>7, <2>4, JobStep DEF DialLoad, Loads, server
<1>8. CASE DialTarget(h)
  <2> DEFINE dial == [job EXCEPT !.to = job.st.idx]
             over == [job.st EXCEPT !.idx = job.st.idx + 1]
             dialed == [job.st EXCEPT !.dialed = job.st.idx]
  <2>1. job.req.kind = "dial" /\ job.pc = "target" /\ ~Idle(h) /\ job.st.idx \in Nat
    BY <1>0, <1>8 DEF DialTarget, At, Idle, State
  <2>2. /\ over \in State /\ over.sid = job.st.sid
        /\ dialed \in State /\ dialed.sid = job.st.sid
    BY <1>0, <2>1 DEF State
  <2>3. \A verb \in Verb : Follows(h, Saving(job, over, verb))
    <3> HIDE DEF over
    <3> QED
      BY <2>1, <2>2, SavingFollows DEF Carries
  <2>4. Follows(h, Dialing(job))
    <3>1. Follows(h, Answer(dial, "dial"))
      BY <1>0, <2>1 DEF Answer, Follows, Job, Admitted, Storing, Asking, Carries
    <3>2. Follows(h, Saving(dial, dialed, "dial"))
      <4> HIDE DEF dialed
      <4> QED
        BY <1>0, <2>1, <2>2 DEF Saving, Follows, Job, Admitted, Storing, Asking, Carries
    <3> QED
      BY <3>1, <3>2 DEF Dialing
  <2>5. Set(h, Dialing(job)) \/ \E verb \in Verb : Set(h, Saving(job, over, verb))
    BY <1>8 DEF DialTarget, Verb
  <2>6. \E to : Set(h, to) /\ Follows(h, to)
    BY <2>3, <2>4, <2>5
  <2> QED
    BY <1>8, <2>6, JobStep DEF DialTarget, Quiet, server
<1>9. CASE CompleteLoad(h)
  <2>1. redis \in State /\ redis # NoState /\ job.req.kind = "complete" /\ ~Idle(h)
        /\ SeenInState(redis) \in BOOLEAN
    BY <1>9 DEF CompleteLoad, Loads, At, Readable, TypeOK, Idle, SeenInState
  <2>2. Follows(h, [job EXCEPT !.pc = "dedupe", !.st = redis])
    BY <2>1, LoadFollows
  <2>3. Follows(h, Sorted(job, redis, SeenInState(redis)))
    BY <2>1, SortedFollows
  <2>4. \E to : Set(h, to) /\ Follows(h, to)
    BY <1>9, <2>2, <2>3 DEF CompleteLoad
  <2> QED
    BY <1>9, <2>4, JobStep DEF CompleteLoad, Loads, server
<1>10. CASE CompleteDedupe(h)
  <2> DEFINE dup == Logged(LegSid(job, job.st.idx))
  <2>1. job.req.kind = "complete" /\ job.pc = "dedupe" /\ ~Idle(h) /\ dup \in BOOLEAN
    BY <1>10 DEF CompleteDedupe, At, Idle, Logged
  <2>2. Set(h, Sorted(job, job.st, dup))
    BY <1>10 DEF CompleteDedupe
  <2> HIDE DEF dup
  <2>3. Follows(h, Sorted(job, job.st, dup))
    BY <1>0, <2>1, SortedFollows DEF Carries
  <2> QED
    BY <1>10, <2>2, <2>3, JobStep DEF CompleteDedupe, Quiet, server
<1>11. CASE CompleteInsert(h)
  <2> DEFINE dup == Logged(LegSid(job, job.st.idx)) \/ job.st.idx \notin present
  <2>1. job.req.kind = "complete" /\ job.pc = "insert" /\ ~Idle(h) /\ dup \in BOOLEAN
        /\ job.popped \in Nat \cup {None}
    BY <1>0, <1>11 DEF CompleteInsert, At, Idle, Logged, Job
  <2>2. Set(h, Settle(job, job.st, dup, job.popped))
    BY <1>11 DEF CompleteInsert
  <2> HIDE DEF dup
  <2>3. Follows(h, Settle(job, job.st, dup, job.popped))
    BY <1>0, <2>1, SettleFollows DEF Carries
  <2> QED
    BY <1>11, <2>2, <2>3, JobStep DEF CompleteInsert, Quiet
<1>12. CASE CompleteFinish(h)
  <2>1. job.req.kind = "complete" /\ job.pc = "finish" /\ ~Idle(h) /\ "goodbye" \in Verb
    BY <1>12 DEF CompleteFinish, At, Idle, Verb
  <2>2. Follows(h, Answer(job, "goodbye"))
    BY <2>1, AnswerFollows DEF Admitted
  <2>3. Set(h, Answer(job, "goodbye")) /\ session'.sid = session.sid
    BY <1>12 DEF CompleteFinish, TypeOK
  <2> QED
    BY <1>12, <2>2, <2>3, JobStep DEF CompleteFinish, Quiet
<1>13. CASE StatusTally(h)
  <2>1. \A pc \in {"close", "abandon"} : Follows(h, [job EXCEPT !.pc = pc])
    BY <1>0, <1>13 DEF StatusTally, At, Idle, Follows, Job, Admitted, Storing, Asking, Carries
  <2>2. \E to : Set(h, to) /\ Follows(h, to)
    BY <1>13, <2>1 DEF StatusTally
  <2> QED
    BY <1>13, <2>2, JobStep DEF StatusTally, Quiet, server
<1>14. CASE StatusClose(h)
  <2>1. job.req.kind = "status"
    BY <1>14 DEF StatusClose, At
  <2>2. ~Awaited(h)
    BY <2>1, ConstantsOK DEF Awaited, OneInv, Wired
  <2>3. Set(h, IdleJob) /\ session'.sid = session.sid
    BY <1>14 DEF StatusClose, TypeOK
  <2> QED
    BY <1>14, <2>2, <2>3, JobEnds DEF StatusClose, Quiet
<1>15. CASE SkipLoad(h)
  <2> DEFINE marked == [redis EXCEPT !.skip = redis.idx]
  <2>1. redis \in State /\ redis # NoState /\ job.req.kind = "skip" /\ ~Idle(h)
        /\ "none" \in Verb
    BY <1>15 DEF SkipLoad, Loads, At, Readable, TypeOK, Idle, Verb
  <2>2. marked \in State /\ marked.sid = redis.sid
    BY <2>1 DEF State
  <2>3. Set(h, Saving(job, marked, "none"))
    BY <1>15 DEF SkipLoad
  <2> HIDE DEF marked
  <2>4. Follows(h, Saving(job, marked, "none"))
    BY <2>1, <2>2, SavingFollows
  <2> QED
    BY <1>15, <2>3, <2>4, JobStep DEF SkipLoad, Loads, server
<1>16. CASE SaveState(h)
  BY <1>16, SaveOne
<1>17. CASE Discard(h)
  BY <1>17, JobEnds DEF Discard, server
<1> QED
  BY <1>1, <1>2, <1>3, <1>4, <1>5, <1>6, <1>7, <1>8, <1>9, <1>10, <1>11, <1>12,
     <1>13, <1>14, <1>15, <1>16, <1>17 DEF Run, VoiceApp, CallComplete

\* A job that Twilio waits for serves the call it waits on, and no other waits.
LEMMA AwaitedIs ==
  ASSUME TypeOK, OneInv, NEW h \in Slots, NEW c \in Calls, twilio[c].slot = h
  PROVE  /\ jobs[h].call = c /\ jobs[h].req = twilio[c].req /\ twilio[c].phase = "webhook"
         /\ jobs[h].req.kind \in {"voice", "make", "dial", "complete"}
         /\ \A x \in Calls : x # c => twilio[x].slot # h
<1>1. h # NoSlot
  BY ConstantsOK
<1> QED
  BY <1>1 DEF OneInv, Wired

\* What Twilio does with an answer.
LEMMA ReplyOne ==
  ASSUME TypeOK, OneInv, NEW h \in Slots, Reply(h)
  PROVE  OneInv'
<1> DEFINE ans == jobs[h].ans
<1>1. PICK c \in Calls :
        /\ jobs[h].pc = "reply" /\ twilio[c].slot = h
        /\ Set(h, IdleJob)
        /\ UNCHANGED <<server, clock, asked, spent>>
        /\ \/ /\ ans \in {"hangup", "goodbye"}
              /\ Ended(c) /\ Post(c, Req("status", "completed"))
              /\ UNCHANGED legs
           \/ /\ ans = "gather"
              /\ twilio' = [twilio EXCEPT ![c].phase = "gather", ![c].slot = NoSlot]
              /\ UNCHANGED <<mail, legs>>
           \/ /\ ans = "redirect"
              /\ Fetch(c, Req("dial", ""))
              /\ UNCHANGED <<mail, legs>>
           \/ /\ ans = "dial"
              /\ twilio' = [twilio EXCEPT ![c] =
                              [phase |-> "dialing", slot |-> NoSlot,
                               req |-> LegReq("completed", Len(legs) + 1, TRUE)]]
              /\ legs' = Append(legs, [call |-> c, index |-> jobs[h].to])
              /\ UNCHANGED mail
  BY Zenon DEF Reply
<1>2. /\ jobs[h].call = c /\ jobs[h].req = twilio[c].req /\ twilio[c].phase = "webhook"
      /\ jobs[h].req.kind \in {"voice", "make", "dial", "complete"}
      /\ \A x \in Calls : x # c => twilio[x].slot # h
  BY <1>1, AwaitedIs
<1>3. ans # "hangup" => Admitted(jobs[h]) /\ c \in In
  BY <1>1, <1>2 DEF Admitted, In
<1>4. jobs'[h] = IdleJob /\ \A g \in Slots : g # h => jobs'[g] = jobs[g]
  BY <1>1, Others
<1>5. /\ IdleJob.pc = "idle" /\ IdleJob.req.kind = "skip"
      /\ ~Admitted(IdleJob) /\ ~Carries(IdleJob)
  BY DEF IdleJob, NewJob, Req, Admitted, Carries
<1>6. \A x \in Calls : x # c => twilio'[x] = twilio[x] /\ mail'[x] = mail[x]
  BY <1>1 DEF TypeOK, Ended, Post, Fetch
<1>7. /\ twilio'[c].slot = NoSlot
      /\ twilio'[c].req.kind \in {"voice", "make", "dial", "complete"}
      /\ \/ ans \in {"hangup", "goodbye"} /\ twilio'[c].phase = "ended"
         \/ /\ ans \notin {"hangup", "goodbye"}
            /\ \/ twilio'[c].phase \in {"gather", "dialing"}
               \/ twilio'[c].phase = "webhook" /\ twilio'[c].req.kind = "dial"
  <2>0. twilio \in [Calls -> Line] /\ twilio[c] \in Line /\ twilio[c].req = jobs[h].req
    BY <1>2 DEF TypeOK, Line
  <2>1. CASE ans \in {"hangup", "goodbye"}
    <3>1. Ended(c)
      BY <1>1, <2>1
    <3> QED
      BY <1>2, <2>0, <2>1, <3>1 DEF Ended, Line
  <2>2. CASE ans = "gather"
    <3>1. twilio' = [twilio EXCEPT ![c].phase = "gather", ![c].slot = NoSlot]
      BY <1>1, <2>2
    <3> QED
      BY <1>2, <2>0, <2>2, <3>1 DEF Line
  <2>3. CASE ans = "redirect"
    <3>1. Fetch(c, Req("dial", ""))
      BY <1>1, <2>3
    <3> QED
      BY <2>0, <2>3, <3>1 DEF Fetch, Req
  <2>4. CASE ans = "dial"
    <3>1. twilio' = [twilio EXCEPT ![c] =
                      [phase |-> "dialing", slot |-> NoSlot,
                       req |-> LegReq("completed", Len(legs) + 1, TRUE)]]
      BY <1>1, <2>4
    <3> QED
      BY <2>0, <2>4, <3>1 DEF LegReq
  <2> QED
    BY <1>1, <2>1, <2>2, <2>3, <2>4
<1>8. \A m \in mail'[c] : m \in mail[c] \/ m.kind = "status"
  <2>1. mail' = mail \/ Post(c, Req("status", "completed"))
    BY <1>1
  <2>2. mail \in [Calls -> SUBSET Request] /\ Req("status", "completed").kind = "status"
    BY DEF TypeOK, Req
  <2> QED
    BY <2>1, <2>2 DEF Post
<1>9. In' \subseteq In
  <2>1. \A g \in Slots : Admitted(jobs'[g]) => Admitted(jobs[g]) /\ jobs'[g] = jobs[g]
    BY <1>4, <1>5
  <2>2. \A x \in Calls : x # c => Inside(x)' = Inside(x)
    BY <1>6 DEF Inside
  <2>3. Inside(c)' => c \in In
    BY <1>3, <1>7, <1>8 DEF Inside, In
  <2> QED
    BY <2>1, <2>2, <2>3 DEF In
<1>10. New' \subseteq New
  BY <1>6, <1>7 DEF New
<1>11. Ringing' \subseteq Ringing
  <2>1. \A g \in Slots : jobs'[g].req.kind = "voice" => jobs'[g] = jobs[g]
    BY <1>4, <1>5
  <2> QED
    BY <1>6, <1>7, <2>1 DEF Ringing
<1>12. Wired'
  <2>1. \A g \in Slots :
          /\ jobs'[g].req.kind # "skip" => jobs'[g].pc # "idle" /\ jobs'[g].call \in Calls
          /\ Carries(jobs'[g]) =>
               jobs'[g].req.kind = "skip" \/ Storing(jobs'[g]) \/ Admitted(jobs'[g])
    BY <1>4, <1>5 DEF OneInv, Wired, Idle
  <2>2. ASSUME NEW x \in Calls, x # c
        PROVE  /\ twilio'[x].req.kind \in {"voice", "make", "dial", "complete"}
               /\ twilio'[x].slot # NoSlot => /\ twilio'[x].phase = "webhook"
                                             /\ jobs'[twilio'[x].slot].call = x
                                             /\ jobs'[twilio'[x].slot].req = twilio'[x].req
               /\ \A m \in mail'[x] : m.kind \in {"status", "complete"}
    <3>1. twilio[x].slot # h /\ (twilio[x].slot # NoSlot => twilio[x].slot \in Slots)
      BY <1>2, <2>2 DEF TypeOK
    <3> QED
      BY <1>4, <1>6, <2>2, <3>1 DEF OneInv, Wired
  <2>3. \A m \in mail'[c] : m.kind \in {"status", "complete"}
    BY <1>8 DEF OneInv, Wired
  <2> QED
    BY <1>7, <2>1, <2>2, <2>3 DEF Wired, Idle
<1>13. \A k \in DOMAIN legs' :
         legs'[k].call \in In \/ \E j \in DOMAIN legs : legs'[k].call = legs[j].call
  <2>1. CASE legs' = legs
    BY <2>1
  <2>2. CASE legs' # legs
    <3> DEFINE leg == [call |-> c, index |-> jobs[h].to]
    <3>1. legs' = Append(legs, leg) /\ c \in In
      BY <1>1, <1>3, <2>2
    <3>2. legs \in Seq([call: Calls, index: Nat]) /\ leg \in [call: Calls, index: Nat]
      BY DEF TypeOK, Job
    <3>3. leg.call = c
      OBVIOUS
    <3> HIDE DEF leg
    <3>4. DOMAIN legs' = 1..Len(legs) + 1 /\ DOMAIN legs = 1..Len(legs) /\ Len(legs) \in Nat
      BY <3>1, <3>2, AppendProperties, LenProperties
    <3>5. \A k \in 1..Len(legs) : legs'[k] = legs[k]
      BY <3>1, <3>2, AppendProperties
    <3>6. legs'[Len(legs) + 1] = leg
      BY <3>1, <3>2, AppendProperties
    <3> QED
      BY <3>1, <3>3, <3>4, <3>5, <3>6
  <2> QED
    BY <2>1, <2>2
<1>14. spent.skips = 0 => Ringing \cap New = {}
  BY DEF OneInv, Single, Past
<1>15. \A g \in Slots : jobs'[g] = jobs[g] \/ jobs'[g].pc = "idle"
  BY <1>4, <1>5
<1>16. redis' = redis /\ bind' = bind /\ clock' = clock /\ session' = session /\ spent' = spent
  BY <1>1 DEF server
<1> QED
  BY <1>9, <1>10, <1>11, <1>12, <1>13, <1>14, <1>15, <1>16, WorldStep

\* A job that is lost, or cut short by Redis.
LEMMA FaultOne ==
  ASSUME TypeOK, OneInv, NEW h \in Slots, Lose(h) \/ RedisError(h)
  PROVE  OneInv'
<1>1. CASE RedisError(h)
  <2>1. ~Idle(h) /\ "hangup" \in Verb
    BY <1>1 DEF RedisError, Idle, Verb
  <2>2. Follows(h, Answer(jobs[h], "hangup")) /\ Set(h, Answer(jobs[h], "hangup"))
    BY <1>1, <2>1, AnswerFollows DEF RedisError
  <2>3. spent'.skips = spent.skips /\ spent'.lulls = spent.lulls
    BY <1>1 DEF RedisError, Use, TypeOK
  <2> QED
    BY <1>1, <2>2, <2>3, JobStep DEF RedisError, server
<1>2. CASE Lose(h)
  <2>1. jobs'[h] = IdleJob /\ \A g \in Slots : g # h => jobs'[g] = jobs[g]
    BY <1>2, Others DEF Lose
  <2>2. /\ IdleJob.pc = "idle" /\ IdleJob.req.kind = "skip"
        /\ ~Admitted(IdleJob) /\ ~Carries(IdleJob)
    BY DEF IdleJob, NewJob, Req, Admitted, Carries
  <2>3. \A c \in Calls : /\ twilio'[c].phase = twilio[c].phase
                         /\ twilio'[c].req = twilio[c].req
                         /\ twilio'[c].slot = IF twilio[c].slot = h THEN NoSlot
                                              ELSE twilio[c].slot
    BY <1>2 DEF Lose, TypeOK
  <2>4. \A c \in Calls : \A m \in mail'[c] : m \in mail[c] \/ m.kind = "status"
    <3>1. mail \in [Calls -> SUBSET Request]
      BY DEF TypeOK
    <3>2. CASE jobs[h].req.kind = "status"
      BY <1>2, <3>1, <3>2 DEF Lose, Post
    <3>3. CASE jobs[h].req.kind # "status"
      BY <1>2, <3>3 DEF Lose
    <3> QED
      BY <3>2, <3>3
  <2>5. In' \subseteq In
    <3>1. \A g \in Slots : Admitted(jobs'[g]) => Admitted(jobs[g]) /\ jobs'[g] = jobs[g]
      BY <2>1, <2>2
    <3>2. \A x \in Calls : Inside(x)' => Inside(x)
      BY <2>3, <2>4 DEF Inside
    <3> QED
      BY <3>1, <3>2 DEF In
  <2>6. New' = New /\ Ringing' \subseteq Ringing
    <3>1. \A g \in Slots : jobs'[g].req.kind = "voice" => jobs'[g] = jobs[g]
      BY <2>1, <2>2
    <3> QED
      BY <2>3, <3>1 DEF New, Ringing
  <2>7. Wired'
    <3>1. \A g \in Slots :
            /\ jobs'[g].req.kind # "skip" => jobs'[g].pc # "idle" /\ jobs'[g].call \in Calls
            /\ Carries(jobs'[g]) =>
                 jobs'[g].req.kind = "skip" \/ Storing(jobs'[g]) \/ Admitted(jobs'[g])
      BY <2>1, <2>2 DEF OneInv, Wired, Idle
    <3>2. ASSUME NEW x \in Calls
          PROVE  /\ twilio'[x].req.kind \in {"voice", "make", "dial", "complete"}
                 /\ twilio'[x].slot # NoSlot => /\ twilio'[x].phase = "webhook"
                                               /\ jobs'[twilio'[x].slot].call = x
                                               /\ jobs'[twilio'[x].slot].req = twilio'[x].req
                 /\ \A m \in mail'[x] : m.kind \in {"status", "complete"}
      <4>1. twilio[x].slot # NoSlot => twilio[x].slot \in Slots
        BY DEF TypeOK
      <4> QED
        BY <2>1, <2>3, <2>4, <4>1 DEF OneInv, Wired
    <3> QED
      BY <3>1, <3>2 DEF Wired, Idle
  <2>8. spent.skips = 0 => Ringing \cap New = {}
    BY DEF OneInv, Single, Past
  <2>9. \A g \in Slots : jobs'[g] = jobs[g] \/ jobs'[g].pc = "idle"
    BY <2>1, <2>2
  <2>10. spent'.skips = spent.skips /\ spent'.lulls = spent.lulls
    BY <1>2 DEF Lose, Use, TypeOK
  <2>11. redis' = redis /\ bind' = bind /\ clock' = clock /\ session' = session /\ legs' = legs
    BY <1>2 DEF Lose, server
  <2> QED
    BY <2>5, <2>6, <2>7, <2>8, <2>9, <2>10, <2>11, WorldStep
<1> QED
  BY <1>1, <1>2

\* Twilio's own moves: a line that changes, callbacks posted, no job started.
LEMMA LineOne ==
  ASSUME TypeOK, OneInv, NEW c \in Calls,
         jobs' = jobs, UNCHANGED <<server, clock, legs>>,
         spent'.skips = spent.skips, spent'.lulls = spent.lulls,
         \A x \in Calls : x # c => twilio'[x] = twilio[x] /\ mail'[x] = mail[x],
         twilio'[c].req.kind \in {"voice", "make", "dial", "complete"},
         twilio'[c].slot = NoSlot,
         twilio'[c].phase = "new" => twilio[c].phase = "new",
         /\ twilio'[c].phase = "webhook" /\ twilio'[c].req.kind = "voice"
         => \/ twilio[c].phase = "webhook" /\ twilio[c].req.kind = "voice"
            \/ twilio[c].phase = "new",
         Inside(c)' => Inside(c),
         \A m \in mail'[c] : m.kind \in {"status", "complete"}
  PROVE  OneInv'
<1>1. In' \subseteq In
  <2>1. \A x \in Calls : Inside(x)' => Inside(x)
    BY DEF Inside
  <2> QED
    BY <2>1 DEF In
<1>2. New' \subseteq New
  BY DEF New
<1>3. Ringing' \subseteq Ringing \cup New
  BY DEF Ringing, New
<1>4. spent.skips = 0 => Ringing' \cap New' = {}
  <2> SUFFICES ASSUME spent.skips = 0, NEW x \in Calls, x \in Ringing', x \in New'
               PROVE  FALSE
    BY DEF New, Ringing
  <2>1. Ringing \cap New = {}
    BY DEF OneInv, Single, Past
  <2>2. x \in Ringing
    BY DEF Ringing, New
  <2> QED
    BY <1>2, <2>1, <2>2
<1>5. Wired'
  <2>1. ASSUME NEW x \in Calls
        PROVE  /\ twilio'[x].req.kind \in {"voice", "make", "dial", "complete"}
               /\ twilio'[x].slot # NoSlot => /\ twilio'[x].phase = "webhook"
                                             /\ jobs'[twilio'[x].slot].call = x
                                             /\ jobs'[twilio'[x].slot].req = twilio'[x].req
               /\ \A m \in mail'[x] : m.kind \in {"status", "complete"}
    BY DEF OneInv, Wired
  <2>2. \A h \in Slots :
         /\ jobs'[h].req.kind # "skip" => jobs'[h].pc # "idle" /\ jobs'[h].call \in Calls
         /\ Carries(jobs'[h]) =>
              jobs'[h].req.kind = "skip" \/ Storing(jobs'[h]) \/ Admitted(jobs'[h])
    BY DEF OneInv, Wired, Idle
  <2> QED
    BY <2>1, <2>2 DEF Wired, Idle
<1>6. redis' = redis /\ bind' = bind /\ clock' = clock /\ session' = session /\ legs' = legs
  BY DEF server
<1> QED
  BY <1>1, <1>2, <1>3, <1>4, <1>5, <1>6, WorldStep

\* A job started for a request of a call.
LEMMA StartOne ==
  ASSUME TypeOK, OneInv, NEW c \in Calls, NEW h \in Slots, Idle(h),
         NEW req \in Request, NEW pc \in {"load", "tally", "close"},
         Set(h, NewJob(pc, req, c)),
         UNCHANGED <<server, clock, legs>>,
         spent'.skips = spent.skips, spent'.lulls = spent.lulls,
         req.kind \in {"voice", "make", "dial", "complete", "status"},
         req.kind \in {"make", "dial", "complete"} => Inside(c),
         req.kind = "voice" => twilio[c].phase = "webhook" /\ twilio[c].req.kind = "voice",
         \A x \in Calls : /\ twilio'[x].phase = twilio[x].phase
                          /\ twilio'[x].req = twilio[x].req
                          /\ mail'[x] \subseteq mail[x]
                          /\ \/ twilio'[x].slot = twilio[x].slot
                             \/ x = c /\ twilio[x].phase = "webhook" /\ req = twilio[x].req
                                /\ twilio'[x].slot = h
  PROVE  OneInv'
<1> DEFINE to == NewJob(pc, req, c)
<1>1. jobs'[h] = to /\ \A g \in Slots : g # h => jobs'[g] = jobs[g]
  BY Others
<1>2. /\ to.pc = pc /\ to.req = req /\ to.call = c /\ ~Carries(to)
      /\ Admitted(to) => Inside(c)
  BY DEF NewJob, Admitted, Carries
<1> HIDE DEF to
<1>3. In' \subseteq In
  <2>1. \A x \in Calls : Inside(x)' => Inside(x)
    BY DEF Inside
  <2> QED
    BY <1>1, <1>2, <2>1 DEF In
<1>4. New' = New /\ Ringing' \subseteq Ringing
  <2>1. \A g \in Slots : jobs'[g].req.kind = "voice" =>
          \/ jobs'[g] = jobs[g]
          \/ jobs'[g].call = c /\ twilio[c].phase = "webhook" /\ twilio[c].req.kind = "voice"
    BY <1>1, <1>2
  <2> QED
    BY <2>1 DEF New, Ringing
<1>5. Wired'
  <2>1. \A g \in Slots :
         /\ jobs'[g].req.kind # "skip" => jobs'[g].pc # "idle" /\ jobs'[g].call \in Calls
         /\ Carries(jobs'[g]) =>
              jobs'[g].req.kind = "skip" \/ Storing(jobs'[g]) \/ Admitted(jobs'[g])
    BY <1>1, <1>2 DEF OneInv, Wired, Idle
  <2>2. ASSUME NEW x \in Calls
        PROVE  /\ twilio'[x].req.kind \in {"voice", "make", "dial", "complete"}
               /\ twilio'[x].slot # NoSlot => /\ twilio'[x].phase = "webhook"
                                             /\ jobs'[twilio'[x].slot].call = x
                                             /\ jobs'[twilio'[x].slot].req = twilio'[x].req
               /\ \A m \in mail'[x] : m.kind \in {"status", "complete"}
    <3>1. twilio[x].slot # h
      <4> SUFFICES ASSUME twilio[x].slot = h PROVE FALSE
        OBVIOUS
      <4>1. jobs[h].req.kind \in {"voice", "make", "dial", "complete"}
        BY AwaitedIs
      <4> QED
        BY <4>1 DEF OneInv, Wired
    <3>2. twilio[x].slot # NoSlot => twilio[x].slot \in Slots
      BY DEF TypeOK
    <3> QED
      BY <1>1, <1>2, <3>1, <3>2 DEF OneInv, Wired
  <2> QED
    BY <2>1, <2>2 DEF Wired, Idle
<1>6. spent.skips = 0 => Ringing \cap New = {}
  BY DEF OneInv, Single, Past
<1>7. \A g \in Slots : \/ jobs'[g] = jobs[g]
                       \/ /\ jobs'[g].pc \in {"load", "tally", "close"}
                          /\ jobs'[g].req.kind # "skip"
  BY <1>1, <1>2
<1>8. redis' = redis /\ bind' = bind /\ clock' = clock /\ session' = session /\ legs' = legs
  BY DEF server
<1> QED
  BY <1>3, <1>4, <1>5, <1>6, <1>7, <1>8, WorldStep

\* Every step of Twilio about one call.
LEMMA TwilioOne ==
  ASSUME TypeOK, OneInv, NEW c \in Calls, Twilio(c)
  PROVE  OneInv'
<1>0. /\ twilio \in [Calls -> Line] /\ twilio[c] \in Line
      /\ mail \in [Calls -> SUBSET Request]
      /\ twilio[c].req.kind \in {"voice", "make", "dial", "complete"}
      /\ \A m \in mail[c] : m.kind \in {"status", "complete"}
  BY DEF TypeOK, Line, OneInv, Wired
<1>1. CASE AnswerCall(c)
  <2>1. /\ Fetch(c, Req("voice", "")) /\ Post(c, Req("status", "in-progress"))
        /\ twilio[c].phase = "new"
        /\ UNCHANGED <<server, jobs, clock, legs, spent>>
    BY <1>1 DEF AnswerCall
  <2>2. /\ \A x \in Calls : x # c => twilio'[x] = twilio[x]
        /\ twilio'[c].phase = "webhook" /\ twilio'[c].req.kind = "voice"
        /\ twilio'[c].slot = NoSlot
    BY <1>0, <2>1 DEF Fetch, Req
  <2>4. /\ \A x \in Calls : x # c => mail'[x] = mail[x]
        /\ \A m \in mail'[c] : m \in mail[c] \/ m.kind = "status"
    <3>1. Req("status", "in-progress").kind = "status"
      BY DEF Req
    <3> QED
      BY <1>0, <2>1, <3>1 DEF Post
  <2>3. Inside(c)' => Inside(c)
    BY <2>2, <2>4 DEF Inside
  <2> QED
    BY <1>0, <2>1, <2>2, <2>3, <2>4, LineOne
<1>2. CASE NoAnswer(c)
  <2>1. /\ Ended(c) /\ Post(c, Req("status", "no-answer"))
        /\ UNCHANGED <<server, jobs, clock, legs, spent>>
    BY <1>2 DEF NoAnswer
  <2>2. /\ \A x \in Calls : x # c => twilio'[x] = twilio[x] /\ mail'[x] = mail[x]
        /\ twilio'[c].phase = "ended" /\ twilio'[c].req = twilio[c].req
        /\ twilio'[c].slot = NoSlot
        /\ \A m \in mail'[c] : m \in mail[c] \/ m.kind = "status"
    BY <1>0, <2>1 DEF Ended, Post, Req, Line
  <2>3. Inside(c)' => Inside(c)
    BY <2>2 DEF Inside
  <2> QED
    BY <1>0, <2>1, <2>2, <2>3, LineOne
<1>3. CASE Gathered(c)
  <2>1. PICK out \in {"digits", "silence"} :
          /\ Fetch(c, Req("make", out)) /\ twilio[c].phase = "gather"
          /\ UNCHANGED <<server, jobs, mail, clock, legs, spent>>
    BY <1>3 DEF Gathered
  <2>2. /\ \A x \in Calls : x # c => twilio'[x] = twilio[x] /\ mail'[x] = mail[x]
        /\ twilio'[c].phase = "webhook" /\ twilio'[c].req.kind = "make"
        /\ twilio'[c].slot = NoSlot
    BY <1>0, <2>1 DEF Fetch, Req
  <2>3. Inside(c)' => Inside(c)
    BY <2>1 DEF Inside
  <2> QED
    BY <1>0, <2>1, <2>2, <2>3, LineOne
<1>4. CASE LegEnds(c)
  <2>1. PICK report \in LegReports(twilio[c].req.leg) :
          /\ Fetch(c, report) /\ twilio[c].phase = "dialing"
          /\ UNCHANGED <<server, jobs, mail, clock, legs, spent>>
    BY <1>4 DEF LegEnds
  <2>2. /\ \A x \in Calls : x # c => twilio'[x] = twilio[x] /\ mail'[x] = mail[x]
        /\ twilio'[c].phase = "webhook" /\ twilio'[c].req.kind = "complete"
        /\ twilio'[c].slot = NoSlot
    BY <1>0, <2>1 DEF Fetch, LegReports, LegReq
  <2>3. Inside(c)' => Inside(c)
    BY <2>1 DEF Inside
  <2> QED
    BY <1>0, <2>1, <2>2, <2>3, LineOne
<1>5. CASE HangUp(c)
  <2>1. /\ Ended(c) /\ UNCHANGED <<server, jobs, clock, legs, spent>>
        /\ \/ twilio[c].phase = "dialing"
              /\ mail' = [mail EXCEPT ![c] = @ \cup
                   {Req("status", "completed"), LegReq("completed", twilio[c].req.leg, TRUE)}]
           \/ Post(c, Req("status", "completed"))
    BY <1>5 DEF HangUp
  <2>2. /\ \A x \in Calls : x # c => twilio'[x] = twilio[x] /\ mail'[x] = mail[x]
        /\ twilio'[c].phase = "ended" /\ twilio'[c].req = twilio[c].req
        /\ twilio'[c].slot = NoSlot
    BY <1>0, <2>1 DEF Ended, Post, Line
  <2>3. \A m \in mail'[c] : \/ m \in mail[c] \/ m.kind = "status"
                            \/ m.kind = "complete" /\ twilio[c].phase = "dialing"
    BY <1>0, <2>1 DEF Post, Req, LegReq
  <2>4. Inside(c)' => Inside(c)
    BY <2>2, <2>3 DEF Inside
  <2> QED
    BY <1>0, <2>1, <2>2, <2>3, <2>4, LineOne
<1>6. CASE Deliver(c)
  <2>1. PICK h \in Slots :
          /\ Idle(h) /\ Set(h, NewJob("load", twilio[c].req, c))
          /\ twilio' = [twilio EXCEPT ![c].slot = h]
          /\ twilio[c].phase = "webhook"
          /\ UNCHANGED <<server, mail, clock, legs, spent>>
    BY <1>6 DEF Deliver
  <2>2. twilio[c].req \in Request
    BY <1>0 DEF Line
  <2>3. \A x \in Calls : /\ twilio'[x].phase = twilio[x].phase
                         /\ twilio'[x].req = twilio[x].req
                         /\ mail'[x] \subseteq mail[x]
                         /\ \/ twilio'[x].slot = twilio[x].slot
                            \/ x = c /\ twilio'[x].slot = h
    BY <1>0, <2>1 DEF Line
  <2>4. twilio[c].req.kind # "voice" => Inside(c)
    BY <2>1 DEF Inside
  <2> QED
    BY <1>0, <2>1, <2>2, <2>3, <2>4, StartOne
<1>7. CASE TimeOut(c)
  <2>1. /\ twilio' = [twilio EXCEPT ![c].slot = NoSlot]
        /\ UNCHANGED <<server, jobs, mail, clock, legs>>
        /\ spent'.skips = spent.skips /\ spent'.lulls = spent.lulls
    BY <1>7 DEF TimeOut, Use, TypeOK
  <2>2. /\ \A x \in Calls : x # c => twilio'[x] = twilio[x] /\ mail'[x] = mail[x]
        /\ twilio'[c].phase = twilio[c].phase /\ twilio'[c].req = twilio[c].req
        /\ twilio'[c].slot = NoSlot /\ mail' = mail
    BY <1>0, <2>1 DEF Line
  <2>3. Inside(c)' => Inside(c)
    BY <2>2 DEF Inside
  <2> QED
    BY <1>0, <2>1, <2>2, <2>3, LineOne
<1>8. CASE DeliverMail(c)
  <2>1. PICK m \in mail[c], h \in Slots :
          /\ Idle(h)
          /\ Set(h, NewJob(IF m.kind # "status" THEN "load"
                           ELSE IF m.out = "completed" THEN "tally" ELSE "close", m, c))
          /\ \/ mail' = [mail EXCEPT ![c] = @ \ {m}] /\ UNCHANGED spent
             \/ Use("late") /\ UNCHANGED mail
    BY <1>8, Zenon DEF DeliverMail
  <2>2. UNCHANGED <<server, twilio, clock, legs>>
    BY <1>8 DEF DeliverMail
  <2>3. spent'.skips = spent.skips /\ spent'.lulls = spent.lulls
    BY <2>1 DEF Use, TypeOK
  <2>4. m \in Request /\ m.kind \in {"status", "complete"}
    BY <1>0
  <2>5. m.kind = "complete" => Inside(c)
    BY DEF Inside
  <2>6. \A x \in Calls : mail'[x] \subseteq mail[x]
    BY <1>0, <2>1
  <2>7. PICK pc \in {"load", "tally", "close"} : Set(h, NewJob(pc, m, c))
    BY <2>1
  <2> QED
    BY <2>1, <2>2, <2>3, <2>4, <2>5, <2>6, <2>7, StartOne
<1> QED
  BY <1>1, <1>2, <1>3, <1>4, <1>5, <1>6, <1>7, <1>8 DEF Twilio

\* The rest of the world: the skip button, a deletion, the clock.
LEMMA OutsideOne ==
  ASSUME TypeOK, OneInv,
         CreateCallReturns \/ PressSkip \/ TargetDeleted \/ Lull \/ Expire
  PROVE  OneInv'
<1>0. spent \in [faults: Nat, late: Nat, skips: Nat, deletes: Nat, lulls: Nat]
  BY DEF TypeOK
<1>1. CASE CreateCallReturns \/ TargetDeleted
  <2>1. /\ UNCHANGED <<redis, bind, clock, legs, jobs, twilio, mail>>
        /\ session'.sid = session.sid
        /\ spent'.skips = spent.skips /\ spent'.lulls = spent.lulls
    BY <1>0, <1>1 DEF CreateCallReturns, TargetDeleted, Quiet, Use, TypeOK
  <2>2. In' = In /\ New' = New /\ Ringing' = Ringing
    BY <2>1 DEF In, New, Ringing, Inside
  <2>3. spent.skips = 0 => Ringing \cap New = {}
    BY DEF OneInv, Single, Past
  <2>4. Wired'
    BY <2>1 DEF OneInv, Wired, Idle, Carries, Storing, Admitted
  <2> QED
    BY <2>1, <2>2, <2>3, <2>4, WorldStep
<1>2. CASE PressSkip
  <2>1. PICK h \in Slots : Idle(h) /\ Set(h, NewJob("load", Req("skip", ""), NoCall))
    BY <1>2 DEF PressSkip
  <2>7. Use("skips") /\ UNCHANGED <<redis, bind, session, clock, legs, twilio, mail>>
    BY <1>2 DEF PressSkip, server
  <2>2. /\ UNCHANGED <<redis, bind, session, clock, legs, twilio, mail>>
        /\ spent'.skips # 0 /\ spent'.lulls = spent.lulls
    BY <1>0, <2>7 DEF Use
  <2> DEFINE to == NewJob("load", Req("skip", ""), NoCall)
  <2>3. jobs'[h] = to /\ \A g \in Slots : g # h => jobs'[g] = jobs[g]
    BY <2>1, Others
  <2>4. to.pc = "load" /\ to.req.kind = "skip" /\ ~Carries(to) /\ ~Admitted(to) /\ ~Storing(to)
    BY DEF NewJob, Req, Carries, Admitted, Storing
  <2> HIDE DEF to
  <2>5. Wired'
    <3>1. \A g \in Slots :
           /\ jobs'[g].req.kind # "skip" => jobs'[g].pc # "idle" /\ jobs'[g].call \in Calls
           /\ Carries(jobs'[g]) =>
                jobs'[g].req.kind = "skip" \/ Storing(jobs'[g]) \/ Admitted(jobs'[g])
      BY <2>3, <2>4 DEF OneInv, Wired, Idle
    <3>2. \A x \in Calls : twilio[x].slot # h
                           /\ (twilio[x].slot # NoSlot => twilio[x].slot \in Slots)
      <4> SUFFICES ASSUME NEW x \in Calls PROVE twilio[x].slot # h
        BY DEF TypeOK
      <4>1. jobs[h].req.kind = "skip"
        BY <2>1 DEF OneInv, Wired
      <4> QED
        BY <4>1, AwaitedIs
    <3> QED
      BY <2>2, <2>3, <3>1, <3>2 DEF OneInv, Wired, Idle
  <2>6. Bound'
    <3> SUFFICES ASSUME spent.lulls = 0 PROVE clock.aged = {} /\ Only(bind)'
      BY <2>2 DEF Bound
    <3>1. clock.aged = {} /\ Only(bind)
      BY DEF OneInv, Bound
    <3>2. In' \subseteq In
      BY <2>2, <2>3, <2>4 DEF In, Inside
    <3>3. \A g \in Slots : /\ Storing(jobs'[g]) => jobs'[g].call = bind
                           /\ Carries(jobs'[g]) => jobs'[g].st.sid \in {NoCall, bind}
      BY <2>3, <2>4, <3>1 DEF Only
    <3> QED
      BY <2>2, <3>1, <3>2, <3>3 DEF Only
  <2> QED
    BY <2>2, <2>5, <2>6 DEF OneInv, Single
<1>3. CASE Lull
  <2>1. /\ \A h \in Slots : Idle(h)
        /\ \A c \in Calls : twilio[c].phase # "webhook"
        /\ UNCHANGED <<redis, bind, session, jobs, twilio, mail, legs>>
        /\ spent'.lulls # 0 /\ spent'.skips = spent.skips
    BY <1>0, <1>3 DEF Lull, Use, server
  <2>2. Wired'
    BY <2>1 DEF OneInv, Wired, Idle, Carries, Storing, Admitted
  <2>3. Bound'
    BY <2>1 DEF Bound
  <2>4. \A h \in Slots : /\ jobs[h].req.kind = "skip" /\ jobs[h].pc = "idle"
                         /\ ~Storing(jobs[h]) /\ ~Asking(jobs[h]) /\ ~Carries(jobs[h])
    BY <2>1 DEF OneInv, Wired, Idle, Storing, Asking, Carries
  <2>5. Ringing' = {} /\ New' = New /\ In' = In /\ Entered' = Entered
    BY <2>1, <2>4 DEF Ringing, New, In, Inside, Entered
  <2>6. Single'
    <3> SUFFICES ASSUME spent.skips = 0
                 PROVE  /\ \A h \in Slots : jobs'[h].req.kind = "skip" => jobs'[h].pc = "idle"
                        /\ Past'
                        /\ \E o \in Calls \cup {NoCall} : Sole(o)'
      BY <2>1 DEF Single, Idle
    <3>1. Past'
      BY <2>1, <2>5 DEF OneInv, Single, Past
    <3>2. PICK o \in Calls \cup {NoCall} : Sole(o)
      BY DEF OneInv, Single
    <3>3. Only(o)'
      BY <2>1, <2>4, <2>5, <3>2 DEF Sole, Only
    <3>4. Sole(o)'
      BY <2>1, <2>4, <2>5, <3>2, <3>3 DEF Sole
    <3> QED
      BY <2>1, <2>4, <3>1, <3>4
  <2> QED
    BY <2>2, <2>3, <2>6 DEF OneInv
<1>4. CASE Expire
  <2>1. /\ UNCHANGED <<session, jobs, clock, twilio, mail, legs, spent>>
        /\ clock.aged # {}
        /\ \/ "bind" \in clock.aged /\ bind' = NoCall /\ redis' = redis
           \/ redis' = NoState /\ bind' = bind
    BY <1>4 DEF Expire, Quiet
  <2>2. Wired'
    BY <2>1 DEF OneInv, Wired, Idle, Carries, Storing, Admitted
  <2>3. Bound'
    BY <2>1 DEF OneInv, Bound
  <2>4. Ringing' = Ringing /\ New' = New /\ In' = In /\ Entered' = Entered
    BY <2>1 DEF Ringing, New, In, Inside, Entered
  <2>5. Single'
    <3> SUFFICES ASSUME spent.skips = 0
                 PROVE  /\ \A h \in Slots : jobs'[h].req.kind = "skip" => jobs'[h].pc = "idle"
                        /\ Past'
                        /\ \E o \in Calls \cup {NoCall} : Sole(o)'
      BY <2>1 DEF Single, Idle
    <3>1. Past'
      BY <2>1, <2>4 DEF OneInv, Single, Past
    <3>2. PICK o \in Calls \cup {NoCall} : Sole(o)
      BY DEF OneInv, Single
    <3>3. Only(o)'
      BY <2>1, <2>4, <3>2 DEF Sole, Only
    <3>4. Open => Open'
      BY <2>1, <2>4 DEF Open
    <3>5. Secure(o) => Secure(o)'
      BY <2>1 DEF Secure
    <3>6. Sole(o)'
      <4>1. bind' \in {NoCall, o} /\ (Entered' => (redis' # NoState => redis'.sid = o))
        BY <2>1, <2>4, <3>2 DEF Sole
      <4>2. \A h \in Slots : /\ Storing(jobs'[h]) => Secure(o)'
                             /\ Carries(jobs'[h]) => jobs'[h].st.sid = o
                             /\ Asking(jobs'[h]) => jobs'[h].call = o \/ Secure(o)' \/ Open'
        BY <2>1, <3>2, <3>4, <3>5 DEF Sole
      <4> QED
        BY <3>3, <4>1, <4>2 DEF Sole
    <3> QED
      BY <2>1, <3>1, <3>6 DEF OneInv, Single, Idle
  <2> QED
    BY <2>2, <2>3, <2>5 DEF OneInv
<1> QED
  BY <1>1, <1>2, <1>3, <1>4

\* In the beginning nobody has left a trace.
LEMMA OneStarts == Init => OneInv
<1> SUFFICES ASSUME Init PROVE OneInv
  OBVIOUS
<1>1. /\ redis.sid = NoCall /\ session.sid = NoCall /\ bind = NoCall /\ clock.aged = {}
      /\ legs = <<>>
      /\ \A h \in Slots : jobs[h] = IdleJob
      /\ \A c \in Calls : /\ twilio[c].phase = "new" /\ twilio[c].slot = NoSlot
                          /\ twilio[c].req.kind = "voice" /\ mail[c] = {}
  BY DEF Init, FreshState, Req
<1>2. /\ IdleJob.pc = "idle" /\ IdleJob.req.kind = "skip"
      /\ ~Admitted(IdleJob) /\ ~Carries(IdleJob) /\ ~Storing(IdleJob) /\ ~Asking(IdleJob)
  BY DEF IdleJob, NewJob, Req, Admitted, Carries, Storing, Asking
<1>3. Wired
  BY <1>1, <1>2 DEF Wired
<1>4. In = {} /\ Ringing = {}
  BY <1>1, <1>2 DEF In, Inside, Ringing
<1>5. Only(NoCall)
  BY <1>1, <1>2, <1>4 DEF Only
<1>6. Sole(NoCall) /\ Past
  BY <1>1, <1>2, <1>4, <1>5 DEF Sole, Past
<1> QED
  BY <1>1, <1>2, <1>3, <1>5, <1>6 DEF OneInv, Bound, Single, Idle

\* The invariant behind ServesOneCall: the claim, the check at the head of each
\* handler and the order of expiry never let a second call in.
THEOREM OneInductive == Spec => []OneInv
<1>1. TypeOK /\ OneInv /\ [Next]_vars => OneInv'
  <2> SUFFICES ASSUME TypeOK, OneInv, [Next]_vars PROVE OneInv'
    OBVIOUS
  <2>1. CASE UNCHANGED vars
    <3>1. /\ UNCHANGED <<redis, bind, session, jobs, twilio, mail, clock, legs, spent>>
      BY <2>1 DEF vars
    <3>2. In' = In /\ New' = New /\ Ringing' = Ringing
      BY <3>1 DEF In, New, Ringing, Inside
    <3>3. spent.skips = 0 => Ringing \cap New = {}
      BY DEF OneInv, Single, Past
    <3>4. Wired'
      BY <3>1 DEF OneInv, Wired, Idle, Carries, Storing, Admitted
    <3> QED
      BY <3>1, <3>2, <3>3, <3>4, WorldStep
  <2>2. ASSUME NEW h \in Slots, Run(h) \/ Lose(h) \/ RedisError(h)
        PROVE  OneInv'
    BY <2>2, WorkOne, ReplyOne, FaultOne
  <2>3. ASSUME NEW c \in Calls, Twilio(c) PROVE OneInv'
    BY <2>3, TwilioOne
  <2>4. CASE CreateCallReturns \/ PressSkip \/ TargetDeleted \/ Lull \/ Expire
    BY <2>4, OutsideOne
  <2> QED
    BY <2>1, <2>2, <2>3, <2>4 DEF Next
<1> QED
  BY OneStarts, <1>1, TypeCorrect, PTL DEF Spec

\* A session id serves one Twilio call, however many race for it, as long as
\* keys do not expire under it or no skip overwrites its owner: what the claim
\* (SET NX), the check at the head of every handler and the order in which the
\* two keys expire achieve together.
THEOREM ServesOneCallHolds == Spec => []ServesOneCall
<1>1. TypeOK /\ OneInv => ServesOneCall
  <2> SUFFICES ASSUME TypeOK, OneInv, spent.skips = 0 \/ spent.lulls = 0
               PROVE  \A c, d \in Served : c = d
    BY DEF ServesOneCall
  <2>1. PICK o : Only(o)
    BY DEF OneInv, Bound, Single, Sole
  <2>2. Served \subseteq {o}
    BY <2>1 DEF Only, Served
  <2> QED
    BY <2>2
<1> QED
  BY OneInductive, TypeCorrect, <1>1, PTL

-----------------------------------------------------------------------------
(* 4. The document, the rows and the dials keep step, in a session in which  *)
(* Twilio re-sends no request whose first attempt still runs, no skip is     *)
(* pressed and no target deleted.  The last report taken in, the next target *)
(* recorded, the target dialed: the document has a shape for each, and the   *)
(* one request of the one active call says which of them it can be.          *)

\* The three shapes of the state document once Len(legs) targets were dialed:
\* the last report was taken in; the next target is recorded as well; the last
\* target was dialed and its report is still to come.  Its predecessors are logged.
LoggedTo(k) == \A j \in 1..k : \E r \in rows : r.leg = j
Ready(st) == /\ st.idx = Len(legs) /\ st.dialed = Len(legs) - 1
             /\ st.done = 0 .. Len(legs) - 1 /\ LoggedTo(Len(legs))
Recorded(st) == /\ st.idx = Len(legs) /\ st.dialed = Len(legs)
                /\ st.done = 0 .. Len(legs) - 1 /\ LoggedTo(Len(legs))
Dialed(st) == /\ legs # <<>> /\ st.idx = Len(legs) - 1 /\ st.dialed = Len(legs) - 1
              /\ st.done = 0 .. Len(legs) - 2 /\ LoggedTo(Len(legs) - 1)
Stored(st) == redis # NoState => redis.idx = st.idx /\ redis.dialed = st.dialed

\* What is so while a request of call c waits for its answer.
Undialed(c) == \A k \in DOMAIN legs : legs[k].call # c
Due(req, c) ==
  /\ req.kind \in {"voice", "make"} => Undialed(c)
  /\ req.kind = "dial" => (redis # NoState => Ready(redis) \/ Recorded(redis))
  /\ req.kind = "complete" =>
       /\ legs # <<>> /\ req.leg = Len(legs)
       /\ redis # NoState => Dialed(redis) \/ Ready(redis)
       /\ \A r \in rows : r.leg = req.leg =>
            r.sid = IF req.child THEN <<c, req.leg, None>> ELSE <<c, 0, req.leg - 1>>

\* What a job that serves such a request carries and answers.
VoiceDoing(job) ==
  /\ job.pc \in {"claim", "holder", "save"} => Unworked(job.st)
  /\ job.ans \in {"none", "hangup", "redirect", "gather"}
MakeDoing(job) ==
  /\ job.pc = "save" => Unworked(job.st)
  /\ job.ans \in {"none", "hangup", "redirect", "gather", "goodbye"}
DialDoing(job) ==
  /\ job.pc = "target" =>
       /\ job.st.idx < NumTargets
       /\ Ready(job.st) \/ Recorded(job.st)
       /\ Stored(job.st)
  /\ job.pc = "save" => Recorded(job.st) /\ job.ans = "dial"
  /\ job.pc = "reply" /\ job.ans = "dial" => (redis # NoState => Recorded(redis))
  /\ job.ans = "dial" => job.to = Len(legs) /\ job.to < NumTargets
  /\ job.ans \in {"none", "hangup", "goodbye", "dial"}
CompleteDoing(job) ==
  /\ job.pc = "dedupe" => /\ job.req.child /\ Stored(job.st)
                          /\ Dialed(job.st) \/ Ready(job.st)
  /\ job.pc = "insert" => Dialed(job.st)
  /\ job.pc = "save" => Ready(job.st)
  /\ job.pc = "reply" /\ job.ans = "redirect" => (redis # NoState => Ready(redis))
  /\ job.ans \in {"none", "hangup", "goodbye", "redirect", "finish"}
Doing(job) ==
  /\ Due(job.req, job.call)
  /\ job.req.kind = "voice" => VoiceDoing(job)
  /\ job.req.kind = "make" => MakeDoing(job)
  /\ job.req.kind = "dial" => DialDoing(job)
  /\ job.req.kind = "complete" => CompleteDoing(job)

\* One request of a call is served at a time, and none while a leg rings.
Serves(h, c) ==
  jobs[h].req.kind \in {"voice", "make", "dial", "complete"} /\ jobs[h].call = c
Reports(c) == {m \in mail[c] : m.kind = "complete"}
Alone(c) ==
  /\ \A h \in Slots : Serves(h, c) =>
       /\ twilio[c].slot = h \/ twilio[c].phase = "ended"
       /\ Reports(c) = {}
       /\ \A g \in Slots : Serves(g, c) => g = h
  /\ Reports(c) # {} => twilio[c].phase = "ended"
  /\ \A m, l \in Reports(c) : m = l
Waits(c) ==
  /\ twilio[c].phase \in {"new", "gather"} => Undialed(c)
  /\ twilio[c].phase = "webhook" => Due(twilio[c].req, c)
  /\ twilio[c].phase = "dialing" =>
       /\ legs # <<>> /\ twilio[c].req.leg = Len(legs)
       /\ redis # NoState => Dialed(redis)
       /\ \A r \in rows : r.leg # Len(legs)
  /\ \A m \in Reports(c) : Due(m, c)

RowsOrderly ==
  \A r \in rows : /\ r.leg \in DOMAIN legs /\ r.target = r.leg - 1
                  /\ \/ r.sid[2] = r.leg /\ r.sid[3] = None
                     \/ r.sid[2] = 0 /\ r.sid[3] = r.leg - 1
                  /\ \A q \in rows : q.leg = r.leg => q = r
Numbered == /\ \A k \in DOMAIN legs : legs[k].index = k - 1
            /\ Len(legs) <= NumTargets
            /\ present = 0 .. NumTargets - 1
Orderly == spent.late = 0 /\ spent.skips = 0 /\ spent.deletes = 0
OrderInv ==
  /\ Numbered /\ RowsOrderly
  /\ redis # NoState => Ready(redis) \/ Recorded(redis) \/ Dialed(redis)
  /\ \A h \in Slots : Doing(jobs[h])
  /\ \A c \in Calls : Alone(c) /\ Waits(c)

\* When no skip is pressed, the calls inside, and the one about to be stored as
\* the session's, are one; nobody else has dialed.
LEMMA OneActive ==
  ASSUME OneInv, Orderly, NEW c \in Calls,
         c \in In \/ \E h \in Slots : Storing(jobs[h]) /\ jobs[h].call = c
  PROVE  /\ In \subseteq {c}
         /\ Undialed(c) => DOMAIN legs = {}
<1>1. PICK o \in Calls \cup {NoCall} : Sole(o)
  BY DEF OneInv, Single, Orderly
<1>2. c = o
  BY <1>1 DEF Sole, Only
<1> QED
  BY <1>1, <1>2 DEF Sole, Only, Undialed

\* A sequence without positions is empty.
LEMMA NoLegs ==
  ASSUME TypeOK
  PROVE  /\ Len(legs) \in Nat /\ DOMAIN legs = 1..Len(legs)
         /\ DOMAIN legs = {} <=> legs = <<>>
         /\ Len(legs) = 0 <=> legs = <<>>
<1>1. legs \in Seq([call: Calls, index: Nat])
  BY DEF TypeOK
<1> QED
  BY <1>1, LenProperties, EmptySeq

\* Before the first dial the document is as it was stored first, but perhaps for
\* the target it records; and such a document has one of the three shapes.
LEMMA FirstShape ==
  ASSUME TypeOK, OrderInv, legs = <<>>, NEW CONSTANT st, Unworked(st)
  PROVE  /\ Ready(st) \/ Recorded(st)
         /\ redis # NoState => Unworked(redis)
<1>0. Len(legs) = 0
  BY NoLegs
<1>1. Len(legs) = 0 /\ Len(legs) - 1 = -1 /\ 0 .. Len(legs) - 1 = {}
  BY <1>0
<1>2. LoggedTo(Len(legs))
  BY <1>0 DEF LoggedTo
<1>3. Ready(st) \/ Recorded(st)
  <2>1. st.idx = Len(legs) /\ st.done = 0 .. Len(legs) - 1
    BY <1>1 DEF Unworked
  <2>2. st.dialed = Len(legs) - 1 \/ st.dialed = Len(legs)
    BY <1>1 DEF Unworked
  <2> QED
    BY <1>2, <2>1, <2>2 DEF Ready, Recorded
<1>4. redis # NoState => Ready(redis) \/ Recorded(redis)
  BY DEF OrderInv, Dialed
<1>5. redis # NoState => Unworked(redis)
  <2>1. redis # NoState => /\ redis.idx = 0 /\ redis.done = {}
                          /\ redis.dialed \in {-1, 0}
    BY <1>1, <1>4 DEF Ready, Recorded
  <2> QED
    BY <2>1 DEF Unworked
<1> QED
  BY <1>3, <1>5

\* A change that leaves the documents, the rows and the dials alone leaves what
\* jobs and lines rely on.
LEMMA DueKept ==
  ASSUME NEW CONSTANT req, NEW CONSTANT c, UNCHANGED <<redis, rows, legs>>
  PROVE  Due(req, c) => Due(req, c)'
BY DEF Due, Undialed, Ready, Recorded, Dialed, LoggedTo

\* The same for what a job carries and answers.
LEMMA DoingKept ==
  ASSUME NEW CONSTANT job, UNCHANGED <<redis, rows, legs>>
  PROVE  Doing(job) => Doing(job)'
<1>1. Due(job.req, job.call) => Due(job.req, job.call)'
  BY DueKept
<1>2. VoiceDoing(job) => VoiceDoing(job)'
  BY DEF VoiceDoing, Unworked
<1>3. MakeDoing(job) => MakeDoing(job)'
  BY DEF MakeDoing, Unworked
<1>6. DialDoing(job) => DialDoing(job)'
  BY DEF DialDoing, Ready, Recorded, LoggedTo, Stored
<1>7. CompleteDoing(job) => CompleteDoing(job)'
  BY DEF CompleteDoing, Ready, Dialed, LoggedTo, Stored
<1> QED
  BY <1>1, <1>2, <1>3, <1>6, <1>7 DEF Doing

\* The same for what a call at Twilio waits for.
LEMMA WaitsKept ==
  ASSUME NEW CONSTANT c, UNCHANGED <<redis, rows, legs>>,
         twilio'[c].phase = twilio[c].phase, twilio'[c].req = twilio[c].req,
         Reports(c)' = Reports(c)
  PROVE  Waits(c) => Waits(c)'
<1> SUFFICES ASSUME Waits(c) PROVE Waits(c)'
  OBVIOUS
<1>1. Undialed(c)' = Undialed(c)
  BY DEF Undialed
<1>2. \A req : Due(req, c) => Due(req, c)'
  BY DueKept
<1>3. redis # NoState => (Dialed(redis) => Dialed(redis)')
  BY DEF Dialed, LoggedTo
<1>4. PICK r : r = twilio[c].req
  OBVIOUS
<1>5. Due(r, c) => Due(r, c)'
  BY <1>2
<1>6. twilio[c].phase = "webhook" => Due(twilio[c].req, c)'
  BY <1>4, <1>5 DEF Waits
<1>7. \A m \in Reports(c)' : Due(m, c)'
  BY <1>2 DEF Waits
<1> QED
  BY <1>1, <1>3, <1>6, <1>7 DEF Waits

\* A job moves on, or ends, and touches nothing the orderly course rests on.
LEMMA JobOrder ==
  ASSUME TypeOK, OrderInv, NEW h \in Slots, NEW to, Set(h, to),
         to.req.kind \in {"skip", "status"}
           \/ (to.req = jobs[h].req /\ to.call = jobs[h].call),
         Doing(to)',
         UNCHANGED <<redis, rows, present, legs, twilio, mail>>
  PROVE  OrderInv'
<1>1. jobs'[h] = to /\ \A g \in Slots : g # h => jobs'[g] = jobs[g]
  BY Others
<1>2. \A g \in Slots, c \in Calls : Serves(g, c)' => Serves(g, c)
  BY <1>1 DEF Serves
<1>3. \A c \in Calls : Reports(c)' = Reports(c)
  BY DEF Reports
<1>4. \A c \in Calls : Alone(c)'
  BY <1>2, <1>3 DEF OrderInv, Alone
<1>5. \A c \in Calls : Waits(c)'
  BY <1>3, WaitsKept DEF OrderInv
<1>6. \A g \in Slots : Doing(jobs[g])'
  <2> SUFFICES ASSUME NEW g \in Slots PROVE Doing(jobs[g])'
    OBVIOUS
  <2>1. CASE g = h
    BY <1>1, <2>1
  <2>2. CASE g # h
    <3>1. PICK job : job = jobs[g]
      OBVIOUS
    <3>2. Doing(job)'
      BY <3>1, DoingKept DEF OrderInv
    <3>3. jobs'[g] = job
      BY <1>1, <2>2, <3>1
    <3> QED
      BY <3>2, <3>3
  <2> QED
    BY <2>1, <2>2
<1>7. Numbered' /\ RowsOrderly'
  BY DEF OrderInv, Numbered, RowsOrderly
<1>8. redis' # NoState => Ready(redis)' \/ Recorded(redis)' \/ Dialed(redis)'
  BY DEF OrderInv, Ready, Recorded, Dialed, LoggedTo
<1> QED
  BY <1>4, <1>5, <1>6, <1>7, <1>8 DEF OrderInv

\* What another call's request or job relies on does not involve the document.
LEMMA OthersKept ==
  ASSUME NEW CONSTANT job, NEW CONSTANT req, NEW CONSTANT c, UNCHANGED legs
  PROVE  /\ Due(req, c) /\ req.kind \notin {"dial", "complete"} => Due(req, c)'
         /\ Doing(job) /\ job.req.kind \notin {"dial", "complete"} => Doing(job)'
<1>1. Due(req, c) /\ req.kind \notin {"dial", "complete"} => Due(req, c)'
  BY DEF Due, Undialed
<1>2. Due(job.req, job.call) /\ job.req.kind \notin {"dial", "complete"}
        => Due(job.req, job.call)'
  BY DEF Due, Undialed
<1>3. VoiceDoing(job) => VoiceDoing(job)'
  BY DEF VoiceDoing, Unworked
<1>4. MakeDoing(job) => MakeDoing(job)'
  BY DEF MakeDoing, Unworked
<1> QED
  BY <1>1, <1>2, <1>3, <1>4 DEF Doing

\* The job of the one active call stores the document or inserts a row.
LEMMA StoreOrder ==
  ASSUME TypeOK, OneInv, OrderInv, Orderly, NEW h \in Slots, NEW to, Set(h, to),
         jobs[h].req.kind \in {"voice", "make", "dial", "complete"},
         to.req = jobs[h].req, to.call = jobs[h].call,
         Storing(jobs[h]) \/ Admitted(jobs[h]),
         UNCHANGED <<legs, twilio, mail>>,
         Numbered', RowsOrderly',
         redis' # NoState => Ready(redis)' \/ Recorded(redis)' \/ Dialed(redis)',
         Doing(to)'
  PROVE  OrderInv'
<1> DEFINE c == jobs[h].call
<1>1. jobs'[h] = to /\ \A g \in Slots : g # h => jobs'[g] = jobs[g]
  BY Others
<1>2. \A g \in Slots, d \in Calls : Serves(g, d)' = Serves(g, d)
  BY <1>1 DEF Serves
<1>3. \A d \in Calls : Reports(d)' = Reports(d)
  BY DEF Reports
<1>4. \A d \in Calls : Alone(d)'
  BY <1>2, <1>3 DEF OrderInv, Alone
<1>5. c \in Calls /\ Serves(h, c)
  BY DEF OneInv, Wired, Serves
<1>6. In \subseteq {c}
  <2>1. c \in In \/ \E g \in Slots : Storing(jobs[g]) /\ jobs[g].call = c
    BY <1>5 DEF In
  <2> QED
    BY <1>5, <2>1, OneActive
<1>7. \A g \in Slots : g # h => Doing(jobs[g])'
  <2> SUFFICES ASSUME NEW g \in Slots, g # h PROVE Doing(jobs[g])'
    OBVIOUS
  <2>1. jobs[g].req.kind \notin {"dial", "complete"}
    <3> SUFFICES ASSUME jobs[g].req.kind \in {"dial", "complete"} PROVE FALSE
      OBVIOUS
    <3>1. jobs[g].call \in In
      BY DEF In, Admitted, OneInv, Wired
    <3>2. Serves(g, c)
      BY <1>6, <3>1 DEF Serves
    <3> QED
      BY <1>5, <3>2 DEF OrderInv, Alone
  <2>2. PICK job : job = jobs[g]
    OBVIOUS
  <2>3. Doing(job)'
    BY <2>1, <2>2, OthersKept DEF OrderInv
  <2>4. jobs'[g] = job
    BY <1>1, <2>2
  <2> QED
    BY <2>3, <2>4
<1>8. Doing(jobs[h])'
  BY <1>1
<1>9. \A d \in Calls : Waits(d)'
  <2> SUFFICES ASSUME NEW d \in Calls PROVE Waits(d)'
    OBVIOUS
  <2>1. Waits(d)
    BY DEF OrderInv
  <2>2. Undialed(d)' = Undialed(d) /\ twilio'[d] = twilio[d]
    BY DEF Undialed
  <2>3. PICK req : req = twilio[d].req
    OBVIOUS
  <2>4. CASE d # c
    <3>1. ~Inside(d)
      BY <1>6, <2>4 DEF In
    <3>2. /\ twilio[d].phase # "dialing" /\ Reports(d) = {}
          /\ twilio[d].phase = "webhook" => req.kind = "voice"
      BY <2>3, <3>1 DEF Inside, Reports
    <3>3. twilio[d].phase = "webhook" => Due(req, d)'
      BY <2>1, <2>3, <3>2, OthersKept DEF Waits
    <3> QED
      BY <1>3, <2>1, <2>2, <2>3, <3>2, <3>3 DEF Waits
  <2>5. CASE d = c
    <3>1. Reports(d) = {} /\ (twilio[d].slot = h \/ twilio[d].phase = "ended")
      BY <1>5, <2>5 DEF OrderInv, Alone
    <3>2. CASE twilio[d].phase = "ended"
      BY <1>3, <2>2, <3>1, <3>2 DEF Waits
    <3>3. CASE twilio[d].slot = h
      <4>1. twilio[d].phase = "webhook" /\ jobs[h].req = req
        BY <2>3, <3>3, ConstantsOK DEF OneInv, Wired
      <4>2. Due(to.req, to.call)'
        BY DEF Doing
      <4>3. PICK r, e : r = to.req /\ e = to.call
        OBVIOUS
      <4>4. Due(r, e)'
        BY <4>2, <4>3
      <4>5. r = req /\ e = d
        BY <2>5, <4>1, <4>3
      <4> QED
        BY <1>3, <2>2, <2>3, <3>1, <4>1, <4>4, <4>5 DEF Waits
    <3> QED
      BY <3>1, <3>2, <3>3
  <2> QED
    BY <2>4, <2>5
<1> QED
  BY <1>4, <1>7, <1>8, <1>9 DEF OrderInv

\* The job of a call is answered, and the call moves on without dialing.
LEMMA AnsweredOrder ==
  ASSUME TypeOK, OneInv, OrderInv, NEW h \in Slots, Set(h, IdleJob),
         NEW c \in Calls, twilio[c].slot = h,
         UNCHANGED <<redis, rows, present, legs>>,
         \A d \in Calls : d # c => twilio'[d] = twilio[d],
         \A d \in Calls : Reports(d)' = Reports(d),
         twilio'[c].phase # "dialing",
         twilio'[c].phase \in {"new", "gather"} => Undialed(c),
         NEW req, twilio'[c].req = req,
         twilio'[c].phase = "webhook" => Due(req, c)
  PROVE  OrderInv'
<1>1. jobs'[h] = IdleJob /\ \A g \in Slots : g # h => jobs'[g] = jobs[g]
  BY Others
<1>2. IdleJob.req.kind = "skip"
  BY DEF IdleJob, NewJob, Req
<1>3. twilio[c].phase = "webhook" /\ jobs[h].call = c
      /\ jobs[h].req.kind \in {"voice", "make", "dial", "complete"}
  BY ConstantsOK DEF OneInv, Wired
<1>4. Serves(h, c)
  BY <1>3 DEF Serves
<1>5. Reports(c) = {} /\ \A g \in Slots : Serves(g, c) => g = h
  BY <1>4 DEF OrderInv, Alone
<1>6. \A g \in Slots, d \in Calls : Serves(g, d)' => Serves(g, d) /\ g # h
  BY <1>1, <1>2 DEF Serves
<1>7. \A d \in Calls : Alone(d)'
  <2> SUFFICES ASSUME NEW d \in Calls PROVE Alone(d)'
    OBVIOUS
  <2>1. Alone(d)
    BY DEF OrderInv
  <2>2. CASE d = c
    BY <1>5, <1>6, <2>2 DEF Alone
  <2>3. CASE d # c
    BY <1>6, <2>1, <2>3 DEF Alone
  <2> QED
    BY <2>2, <2>3
<1>8. \A d \in Calls : Waits(d)'
  <2> SUFFICES ASSUME NEW d \in Calls PROVE Waits(d)'
    OBVIOUS
  <2>1. CASE d # c
    BY <2>1, WaitsKept DEF OrderInv
  <2>2. CASE d = c
    <3>1. Due(req, c) => Due(req, c)'
      BY DueKept
    <3>2. Undialed(c)' = Undialed(c)
      BY DEF Undialed
    <3>3. Reports(c)' = {}
      BY <1>5
    <3> QED
      BY <2>2, <3>1, <3>2, <3>3 DEF Waits
  <2> QED
    BY <2>1, <2>2
<1>9. \A g \in Slots : Doing(jobs[g])'
  <2> SUFFICES ASSUME NEW g \in Slots PROVE Doing(jobs[g])'
    OBVIOUS
  <2>1. CASE g = h
    BY <1>1, <1>2, <2>1 DEF Doing, Due
  <2>2. CASE g # h
    <3>1. PICK job : job = jobs[g]
      OBVIOUS
    <3>2. Doing(job)'
      BY <3>1, DoingKept DEF OrderInv
    <3>3. jobs'[g] = job
      BY <1>1, <2>2, <3>1
    <3> QED
      BY <3>2, <3>3
  <2> QED
    BY <2>1, <2>2
<1>10. Numbered' /\ RowsOrderly'
  BY DEF OrderInv, Numbered, RowsOrderly
<1>11. redis' # NoState => Ready(redis)' \/ Recorded(redis)' \/ Dialed(redis)'
  BY DEF OrderInv, Ready, Recorded, Dialed, LoggedTo
<1> QED
  BY <1>7, <1>8, <1>9, <1>10, <1>11 DEF OrderInv

\* The job of the one active call is answered with its next dial.
LEMMA DialOrder ==
  ASSUME TypeOK, OneInv, OrderInv, Orderly, NEW h \in Slots, Set(h, IdleJob),
         NEW c \in Calls, twilio[c].slot = h, jobs[h].req.kind = "dial",
         jobs[h].pc = "reply", jobs[h].ans = "dial",
         UNCHANGED <<redis, rows, present, mail>>,
         legs' = Append(legs, [call |-> c, index |-> jobs[h].to]),
         \A d \in Calls : d # c => twilio'[d] = twilio[d],
         twilio'[c].phase = "dialing", twilio'[c].req.leg = Len(legs) + 1
  PROVE  OrderInv'
<1>1. jobs'[h] = IdleJob /\ \A g \in Slots : g # h => jobs'[g] = jobs[g]
  BY Others
<1>2. IdleJob.req.kind = "skip"
  BY DEF IdleJob, NewJob, Req
<1>3. twilio[c].phase = "webhook" /\ jobs[h].call = c
  BY ConstantsOK DEF OneInv, Wired
<1>4. Serves(h, c)
  BY <1>3 DEF Serves
<1>5. Reports(c) = {} /\ \A g \in Slots : Serves(g, c) => g = h
  BY <1>4 DEF OrderInv, Alone
<1>6. \A g \in Slots, d \in Calls : Serves(g, d)' => Serves(g, d) /\ g # h
  BY <1>1, <1>2 DEF Serves
<1>7. \A d \in Calls : Reports(d)' = Reports(d)
  BY DEF Reports
<1>8. \A d \in Calls : Alone(d)'
  <2> SUFFICES ASSUME NEW d \in Calls PROVE Alone(d)'
    OBVIOUS
  <2>1. Alone(d)
    BY DEF OrderInv
  <2>2. CASE d = c
    BY <1>5, <1>6, <1>7, <2>2 DEF Alone
  <2>3. CASE d # c
    BY <1>6, <1>7, <2>1, <2>3 DEF Alone
  <2> QED
    BY <2>2, <2>3
<1>9. In \subseteq {c}
  <2>1. c \in In
    BY <1>3 DEF In, Admitted
  <2> QED
    BY <2>1, OneActive
<1>10. jobs[h].to = Len(legs) /\ jobs[h].to < NumTargets /\ (redis # NoState => Recorded(redis))
  BY DEF OrderInv, Doing, DialDoing
<1>11. /\ legs \in Seq([call: Calls, index: Nat]) /\ Len(legs) \in Nat
       /\ DOMAIN legs = 1..Len(legs)
  BY NoLegs DEF TypeOK
<1>12. [call |-> c, index |-> jobs[h].to] \in [call: Calls, index: Nat]
  BY <1>10, <1>11
<1>13. /\ Len(legs') = Len(legs) + 1 /\ DOMAIN legs' = 1..Len(legs) + 1
       /\ \A k \in 1..Len(legs) : legs'[k] = legs[k]
       /\ legs'[Len(legs) + 1] = [call |-> c, index |-> jobs[h].to]
       /\ legs' # <<>>
  <2>1. legs' \in Seq([call: Calls, index: Nat]) /\ Len(legs') = Len(legs) + 1
        /\ \A k \in 1..Len(legs) + 1 : legs'[k] = IF k <= Len(legs) THEN legs[k]
                                        ELSE [call |-> c, index |-> jobs[h].to]
    BY <1>11, <1>12, AppendProperties
  <2>2. DOMAIN legs' = 1..Len(legs')
    BY <2>1, LenProperties
  <2>3. legs' # <<>>
    BY <1>11, <2>1, EmptySeq
  <2> QED
    BY <1>11, <2>1, <2>2, <2>3
<1>14. \A d \in Calls : d # c => Undialed(d)' = Undialed(d)
  BY <1>11, <1>13 DEF Undialed
<1>15. redis' # NoState => Dialed(redis)'
  <2> SUFFICES ASSUME redis # NoState PROVE Dialed(redis)'
    OBVIOUS
  <2>1. Recorded(redis)
    BY <1>10
  <2>2. Len(legs') - 1 = Len(legs) /\ Len(legs') - 2 = Len(legs) - 1
    BY <1>11, <1>13
  <2>3. LoggedTo(Len(legs) - 1)'
    BY <2>1, <2>2 DEF Recorded, LoggedTo
  <2> QED
    BY <1>13, <2>1, <2>2, <2>3 DEF Recorded, Dialed
<1>16. Numbered'
  <2>1. \A k \in 1..Len(legs) + 1 : k \in 1..Len(legs) \/ k = Len(legs) + 1
    BY <1>11
  <2>2. \A k \in DOMAIN legs' : legs'[k].index = k - 1
    BY <1>10, <1>11, <1>13, <2>1 DEF OrderInv, Numbered
  <2>3. Len(legs') <= NumTargets
    BY <1>10, <1>11, <1>13, ConstantsOK
  <2> QED
    BY <2>2, <2>3 DEF OrderInv, Numbered
<1>17. RowsOrderly'
  BY <1>11, <1>13 DEF OrderInv, RowsOrderly
<1>18. \A g \in Slots : Doing(jobs[g])'
  <2> SUFFICES ASSUME NEW g \in Slots PROVE Doing(jobs[g])'
    OBVIOUS
  <2>1. CASE g = h
    BY <1>1, <1>2, <2>1 DEF Doing, Due
  <2>2. CASE g # h
    <3>1. PICK job : job = jobs[g]
      OBVIOUS
    <3>2. jobs'[g] = job
      BY <1>1, <2>2, <3>1
    <3>3. Doing(job)
      BY <3>1 DEF OrderInv
    <3>4. CASE job.req.kind \in {"voice", "make"}
      <4>1. job.call \in Calls /\ job.call # c
        BY <1>5, <2>2, <3>1, <3>4 DEF OneInv, Wired, Serves
      <4>2. Undialed(job.call)'
        BY <1>14, <3>3, <3>4, <4>1 DEF Doing, Due
      <4>3. Due(job.req, job.call)'
        BY <3>4, <4>2 DEF Due
      <4>4. (VoiceDoing(job) => VoiceDoing(job)') /\ (MakeDoing(job) => MakeDoing(job)')
        BY DEF VoiceDoing, MakeDoing, Unworked
      <4>5. Doing(job)'
        BY <3>3, <3>4, <4>3, <4>4 DEF Doing
      <4> QED
        BY <3>2, <4>5
    <3>5. CASE job.req.kind \in {"dial", "complete"}
      <4>1. job.call \in In
        BY <3>1, <3>5 DEF In, Admitted, OneInv, Wired
      <4>2. Serves(g, c)
        BY <1>9, <3>1, <3>5, <4>1 DEF Serves
      <4> QED
        BY <1>5, <2>2, <4>2
    <3>6. CASE job.req.kind \notin {"voice", "make", "dial", "complete"}
      <4>1. Doing(job)'
        BY <3>6 DEF Doing, Due
      <4> QED
        BY <3>2, <4>1
    <3> QED
      BY <3>4, <3>5, <3>6
  <2> QED
    BY <2>1, <2>2
<1>19. \A d \in Calls : Waits(d)'
  <2> SUFFICES ASSUME NEW d \in Calls PROVE Waits(d)'
    OBVIOUS
  <2>1. CASE d # c
    <3>1. ~Inside(d)
      BY <1>9, <2>1 DEF In
    <3>2. PICK req : req = twilio[d].req
      OBVIOUS
    <3>3. /\ twilio[d].phase # "dialing" /\ Reports(d) = {}
          /\ twilio[d].phase = "webhook" => req.kind = "voice"
      BY <3>1, <3>2 DEF Inside, Reports
    <3>4. twilio[d].phase = "webhook" => Undialed(d)'
      BY <1>14, <2>1, <3>2, <3>3 DEF OrderInv, Waits, Due
    <3>5. twilio[d].phase = "webhook" => Due(req, d)'
      BY <3>3, <3>4 DEF Due
    <3>6. twilio[d].phase \in {"new", "gather"} => Undialed(d)'
      BY <1>14, <2>1 DEF OrderInv, Waits
    <3>7. twilio'[d] = twilio[d] /\ Reports(d)' = {}
      BY <1>7, <2>1, <3>3
    <3> QED
      BY <3>2, <3>3, <3>5, <3>6, <3>7 DEF Waits
  <2>2. CASE d = c
    <3>1. \A r \in rows : r.leg # Len(legs')
      BY <1>11, <1>13 DEF OrderInv, RowsOrderly
    <3> QED
      BY <1>5, <1>7, <1>13, <1>15, <2>2, <3>1 DEF Waits
  <2> QED
    BY <2>1, <2>2
<1> QED
  BY <1>8, <1>15, <1>16, <1>17, <1>18, <1>19 DEF OrderInv

\* Twilio moves one call on.
LEMMA LineOrder ==
  ASSUME TypeOK, OrderInv, NEW c \in Calls,
         UNCHANGED <<redis, rows, present, legs, jobs>>,
         \A d \in Calls : d # c => twilio'[d] = twilio[d] /\ mail'[d] = mail[d],
         Alone(c)', Waits(c)'
  PROVE  OrderInv'
<1>1. \A d \in Calls : d # c => Reports(d)' = Reports(d)
  BY DEF Reports
<1>2. \A g \in Slots, d \in Calls : Serves(g, d)' = Serves(g, d)
  BY DEF Serves
<1>3. \A d \in Calls : Alone(d)'
  <2> SUFFICES ASSUME NEW d \in Calls, d # c PROVE Alone(d)'
    OBVIOUS
  <2> QED
    BY <1>1, <1>2 DEF OrderInv, Alone
<1>4. \A d \in Calls : Waits(d)'
  <2> SUFFICES ASSUME NEW d \in Calls, d # c PROVE Waits(d)'
    OBVIOUS
  <2> QED
    BY <1>1, WaitsKept DEF OrderInv
<1>5. \A g \in Slots : Doing(jobs[g])'
  <2> SUFFICES ASSUME NEW g \in Slots PROVE Doing(jobs[g])'
    OBVIOUS
  <2>1. PICK job : job = jobs[g]
    OBVIOUS
  <2>2. Doing(job)' /\ jobs'[g] = job
    BY <2>1, DoingKept DEF OrderInv
  <2> QED
    BY <2>2
<1>6. Numbered' /\ RowsOrderly'
  BY DEF OrderInv, Numbered, RowsOrderly
<1>7. redis' # NoState => Ready(redis)' \/ Recorded(redis)' \/ Dialed(redis)'
  BY DEF OrderInv, Ready, Recorded, Dialed, LoggedTo
<1> QED
  BY <1>3, <1>4, <1>5, <1>6, <1>7 DEF OrderInv

\* A call that has no handler and no answer coming has no job.
LEMMA NoneServes ==
  ASSUME TypeOK, OneInv, OrderInv, NEW c \in Calls, NEW h \in Slots,
         \/ twilio[c].phase \in {"new", "gather", "dialing"}
         \/ twilio[c].phase = "webhook" /\ twilio[c].slot = NoSlot
         \/ Reports(c) # {}
  PROVE  ~Serves(h, c)
<1>1. twilio[c].slot # NoSlot => twilio[c].phase = "webhook"
  BY DEF OneInv, Wired
<1> QED
  BY <1>1, ConstantsOK DEF OrderInv, Alone

\* An answered or finished phone call, a keypad, a leg that ends, a hangup.
LEMMA PhaseOrder ==
  ASSUME TypeOK, OneInv, OrderInv, NEW c \in Calls,
         AnswerCall(c) \/ NoAnswer(c) \/ Gathered(c) \/ LegEnds(c) \/ HangUp(c)
  PROVE  OrderInv'
<1>0. /\ twilio \in [Calls -> Line] /\ twilio[c] \in Line
      /\ mail \in [Calls -> SUBSET Request]
  BY DEF TypeOK, Line
<1>1. Waits(c) /\ Alone(c)
  BY DEF OrderInv
<1>2. \A h \in Slots : Serves(h, c)' = Serves(h, c)
  BY DEF Serves, AnswerCall, NoAnswer, Gathered, LegEnds, HangUp
<1>3. twilio[c].phase # "webhook" => \A h \in Slots : ~Serves(h, c)
  BY NoneServes DEF HangUp, AnswerCall, NoAnswer, Gathered, LegEnds
<1>4. twilio[c].phase # "ended" => Reports(c) = {}
  BY <1>1 DEF Alone
<1>5. CASE AnswerCall(c)
  <2>1. /\ Fetch(c, Req("voice", "")) /\ Post(c, Req("status", "in-progress"))
        /\ twilio[c].phase = "new"
        /\ UNCHANGED <<redis, rows, present, legs, jobs>>
    BY <1>5 DEF AnswerCall, server
  <2>2. /\ \A x \in Calls : x # c => twilio'[x] = twilio[x]
        /\ twilio'[c].phase = "webhook" /\ twilio'[c].req.kind = "voice"
    BY <1>0, <2>1 DEF Fetch, Req
  <2>3. (\A x \in Calls : x # c => mail'[x] = mail[x]) /\ Reports(c)' = Reports(c)
    <3>1. Req("status", "in-progress").kind = "status"
      BY DEF Req
    <3> QED
      BY <1>0, <2>1, <3>1 DEF Post, Reports
  <2>4. Undialed(c)'
    BY <1>1, <2>1 DEF Waits, Undialed
  <2>5. Waits(c)'
    BY <1>4, <2>1, <2>2, <2>3, <2>4 DEF Waits, Due
  <2>6. Alone(c)'
    BY <1>2, <1>3, <1>4, <2>1, <2>3 DEF Alone
  <2> QED
    BY <2>1, <2>2, <2>3, <2>5, <2>6, LineOrder
<1>6. CASE NoAnswer(c)
  <2>1. /\ Ended(c) /\ Post(c, Req("status", "no-answer")) /\ twilio[c].phase = "new"
        /\ UNCHANGED <<redis, rows, present, legs, jobs>>
    BY <1>6 DEF NoAnswer, server
  <2>2. /\ \A x \in Calls : x # c => twilio'[x] = twilio[x]
        /\ twilio'[c].phase = "ended"
    BY <1>0, <2>1 DEF Ended, Line
  <2>3. (\A x \in Calls : x # c => mail'[x] = mail[x]) /\ Reports(c)' = Reports(c)
    <3>1. Req("status", "no-answer").kind = "status"
      BY DEF Req
    <3> QED
      BY <1>0, <2>1, <3>1 DEF Post, Reports
  <2>5. Waits(c)'
    BY <1>4, <2>1, <2>2, <2>3 DEF Waits
  <2>6. Alone(c)'
    BY <1>2, <1>3, <1>4, <2>1, <2>3 DEF Alone
  <2> QED
    BY <2>1, <2>2, <2>3, <2>5, <2>6, LineOrder
<1>7. CASE Gathered(c)
  <2>1. PICK out \in {"digits", "silence"} :
          /\ Fetch(c, Req("make", out)) /\ twilio[c].phase = "gather" /\ mail' = mail
          /\ UNCHANGED <<redis, rows, present, legs, jobs>>
    BY <1>7 DEF Gathered, server
  <2>2. /\ \A x \in Calls : x # c => twilio'[x] = twilio[x]
        /\ twilio'[c].phase = "webhook" /\ twilio'[c].req.kind = "make"
    BY <1>0, <2>1 DEF Fetch, Req
  <2>3. Reports(c)' = Reports(c)
    BY <2>1 DEF Reports
  <2>4. Undialed(c)'
    BY <1>1, <2>1 DEF Waits, Undialed
  <2>5. Waits(c)'
    BY <1>4, <2>1, <2>2, <2>3, <2>4 DEF Waits, Due
  <2>6. Alone(c)'
    BY <1>2, <1>3, <1>4, <2>1, <2>3 DEF Alone
  <2> QED
    BY <2>1, <2>2, <2>3, <2>5, <2>6, LineOrder
<1>8. CASE LegEnds(c)
  <2>1. PICK report \in LegReports(twilio[c].req.leg) :
          /\ Fetch(c, report) /\ twilio[c].phase = "dialing" /\ mail' = mail
          /\ UNCHANGED <<redis, rows, present, legs, jobs>>
    BY <1>8 DEF LegEnds, server
  <2>2. /\ \A x \in Calls : x # c => twilio'[x] = twilio[x]
        /\ twilio'[c].phase = "webhook" /\ twilio'[c].req.kind = "complete"
        /\ twilio'[c].req.leg = twilio[c].req.leg
    BY <1>0, <2>1 DEF Fetch, LegReports, LegReq
  <2>3. Reports(c)' = Reports(c)
    BY <2>1 DEF Reports
  <2>4. /\ legs # <<>> /\ twilio[c].req.leg = Len(legs)
        /\ redis # NoState => Dialed(redis)
        /\ \A r \in rows : r.leg # Len(legs)
    BY <1>1, <2>1 DEF Waits
  <2>5. redis' # NoState => Dialed(redis)'
    BY <2>1, <2>4 DEF Dialed, LoggedTo
  <2>6. PICK req : req = twilio'[c].req
    OBVIOUS
  <2>7. Due(req, c)'
    BY <2>1, <2>2, <2>4, <2>5, <2>6 DEF Due
  <2>8. Waits(c)'
    BY <1>4, <2>1, <2>2, <2>3, <2>6, <2>7 DEF Waits
  <2>9. Alone(c)'
    BY <1>2, <1>3, <1>4, <2>1, <2>3 DEF Alone
  <2> QED
    BY <2>1, <2>2, <2>8, <2>9, LineOrder
<1>9. CASE HangUp(c)
  <2>1. /\ Ended(c) /\ UNCHANGED <<redis, rows, present, legs, jobs>>
        /\ twilio[c].phase \in {"webhook", "gather", "dialing"}
        /\ \/ twilio[c].phase = "dialing"
              /\ mail' = [mail EXCEPT ![c] = @ \cup
                   {Req("status", "completed"), LegReq("completed", twilio[c].req.leg, TRUE)}]
           \/ twilio[c].phase # "dialing" /\ Post(c, Req("status", "completed"))
    BY <1>9 DEF HangUp, server
  <2>2. /\ \A x \in Calls : x # c => twilio'[x] = twilio[x]
        /\ twilio'[c].phase = "ended"
    BY <1>0, <2>1 DEF Ended, Line
  <2>3. /\ Req("status", "completed").kind = "status"
        /\ LegReq("completed", twilio[c].req.leg, TRUE).kind = "complete"
        /\ LegReq("completed", twilio[c].req.leg, TRUE).leg = twilio[c].req.leg
    BY DEF Req, LegReq
  <2>4. Reports(c) = {}
    BY <1>4, <2>1
  <2>5. CASE twilio[c].phase # "dialing"
    <3>1. (\A x \in Calls : x # c => mail'[x] = mail[x]) /\ Reports(c)' = {}
      BY <1>0, <2>1, <2>3, <2>4, <2>5 DEF Post, Reports
    <3>2. Waits(c)'
      BY <2>2, <3>1 DEF Waits
    <3>3. Alone(c)'
      BY <1>1, <1>2, <2>2, <3>1 DEF Alone
    <3> QED
      BY <2>1, <2>2, <3>1, <3>2, <3>3, LineOrder
  <2>6. CASE twilio[c].phase = "dialing"
    <3>1. PICK report : report = LegReq("completed", twilio[c].req.leg, TRUE)
      OBVIOUS
    <3>2. (\A x \in Calls : x # c => mail'[x] = mail[x]) /\ Reports(c)' = {report}
      BY <1>0, <2>1, <2>3, <2>4, <2>6, <3>1 DEF Reports
    <3>3. /\ legs # <<>> /\ twilio[c].req.leg = Len(legs)
          /\ redis # NoState => Dialed(redis)
          /\ \A r \in rows : r.leg # Len(legs)
      BY <1>1, <2>6 DEF Waits
    <3>4. Due(report, c)
      BY <2>3, <3>1, <3>3 DEF Due
    <3>5. Due(report, c)'
      BY <2>1, <3>4, DueKept
    <3>6. Waits(c)'
      BY <2>2, <3>2, <3>5 DEF Waits
    <3>7. Alone(c)'
      BY <1>2, <1>3, <2>2, <2>6, <3>2 DEF Alone
    <3> QED
      BY <2>1, <2>2, <3>2, <3>6, <3>7, LineOrder
  <2> QED
    BY <2>5, <2>6
<1> QED
  BY <1>5, <1>6, <1>7, <1>8, <1>9

\* A job starts on the request its call waits with, on a callback, or on nothing
\* that the orderly course rests on.
LEMMA StartOrder ==
  ASSUME TypeOK, OneInv, OrderInv, NEW c \in Calls, NEW h \in Slots, Idle(h),
         NEW req \in Request, NEW pc \in {"load", "tally", "close"},
         Set(h, NewJob(pc, req, c)), Due(req, c),
         pc # "load" => req.kind = "status",
         UNCHANGED <<redis, rows, present, legs>>,
         \A d \in Calls : /\ twilio'[d].phase = twilio[d].phase
                          /\ twilio'[d].req = twilio[d].req
                          /\ d # c => twilio'[d] = twilio[d] /\ mail'[d] = mail[d],
         Reports(c)' \subseteq Reports(c),
         req.kind \in {"voice", "make", "dial", "complete"} =>
           /\ \A g \in Slots : ~Serves(g, c)
           /\ Reports(c)' = {}
           /\ twilio'[c].slot = h \/ twilio'[c].phase = "ended",
         twilio'[c].slot # twilio[c].slot => \A g \in Slots : ~Serves(g, c)
  PROVE  OrderInv'
<1> DEFINE to == NewJob(pc, req, c)
<1>1. jobs'[h] = to /\ \A g \in Slots : g # h => jobs'[g] = jobs[g]
  BY Others
<1>2. to.pc = pc /\ to.req = req /\ to.call = c /\ to.ans = "none"
  BY DEF NewJob
<1> HIDE DEF to
<1>3. PICK new : new = to
  OBVIOUS
<1>4. \A d \in Calls : d # c => Reports(d)' = Reports(d)
  BY DEF Reports
<1>5. \A g \in Slots, d \in Calls :
        Serves(g, d)' => \/ g # h /\ Serves(g, d)
                         \/ /\ g = h /\ d = c
                            /\ req.kind \in {"voice", "make", "dial", "complete"}
  BY <1>1, <1>2 DEF Serves
<1>6. \A d \in Calls : Alone(d)'
  <2> SUFFICES ASSUME NEW d \in Calls PROVE Alone(d)'
    OBVIOUS
  <2>1. Alone(d)
    BY DEF OrderInv
  <2>2. CASE d # c
    BY <1>4, <1>5, <2>1, <2>2 DEF Alone
  <2>3. CASE d = c /\ req.kind \in {"voice", "make", "dial", "complete"}
    BY <1>5, <2>3 DEF Alone
  <2>4. CASE d = c /\ req.kind \notin {"voice", "make", "dial", "complete"}
    <3>1. \A g \in Slots : Serves(g, c)' => Serves(g, c) /\ twilio'[c].slot = twilio[c].slot
      BY <1>5, <2>4
    <3> QED
      BY <2>1, <2>4, <3>1 DEF Alone
  <2> QED
    BY <2>2, <2>3, <2>4
<1>7. \A d \in Calls : Waits(d)'
  <2> SUFFICES ASSUME NEW d \in Calls PROVE Waits(d)'
    OBVIOUS
  <2>1. CASE d # c
    BY <1>4, <2>1, WaitsKept DEF OrderInv
  <2>2. CASE d = c
    <3>1. Waits(c)
      BY DEF OrderInv
    <3>2. Undialed(c)' = Undialed(c)
      BY DEF Undialed
    <3>3. PICK r : r = twilio[c].req
      OBVIOUS
    <3>4. twilio[c].phase = "webhook" => Due(r, c)'
      BY <3>1, <3>3, DueKept DEF Waits
    <3>5. redis # NoState => (Dialed(redis) => Dialed(redis)')
      BY DEF Dialed, LoggedTo
    <3>6. \A m \in Reports(c)' : Due(m, c)'
      BY <3>1, DueKept DEF Waits
    <3> QED
      BY <2>2, <3>1, <3>2, <3>3, <3>4, <3>5, <3>6 DEF Waits
  <2> QED
    BY <2>1, <2>2
<1>8. \A g \in Slots : Doing(jobs[g])'
  <2> SUFFICES ASSUME NEW g \in Slots PROVE Doing(jobs[g])'
    OBVIOUS
  <2>1. CASE g = h
    <3>1. Due(new.req, new.call)'
      <4>1. Due(req, c)'
        BY DueKept
      <4> QED
        BY <1>2, <1>3, <4>1
    <3>2. /\ new.pc \in {"load", "tally", "close"} /\ new.ans = "none"
      BY <1>2, <1>3
    <3>3. Doing(new)'
      BY <3>1, <3>2 DEF Doing, VoiceDoing, MakeDoing, DialDoing, CompleteDoing
    <3>4. jobs'[g] = new
      BY <1>1, <1>3, <2>1
    <3> QED
      BY <3>3, <3>4
  <2>2. CASE g # h
    <3>1. PICK job : job = jobs[g]
      OBVIOUS
    <3>2. Doing(job)' /\ jobs'[g] = job
      BY <1>1, <2>2, <3>1, DoingKept DEF OrderInv
    <3> QED
      BY <3>2
  <2> QED
    BY <2>1, <2>2
<1>9. Numbered' /\ RowsOrderly'
  BY DEF OrderInv, Numbered, RowsOrderly
<1>10. redis' # NoState => Ready(redis)' \/ Recorded(redis)' \/ Dialed(redis)'
  BY DEF OrderInv, Ready, Recorded, Dialed, LoggedTo
<1> QED
  BY <1>6, <1>7, <1>8, <1>9, <1>10 DEF OrderInv

\* Twilio's requests, re-sent only once the first attempt is gone.
LEMMA DeliverOrder ==
  ASSUME TypeOK, OneInv, OrderInv, Orderly', NEW c \in Calls,
         Deliver(c) \/ TimeOut(c) \/ DeliverMail(c)
  PROVE  OrderInv'
<1>0. /\ twilio \in [Calls -> Line] /\ twilio[c] \in Line
      /\ mail \in [Calls -> SUBSET Request]
      /\ twilio[c].req.kind \in {"voice", "make", "dial", "complete"}
      /\ \A m \in mail[c] : m.kind \in {"status", "complete"}
  BY DEF TypeOK, Line, OneInv, Wired
<1>1. Waits(c) /\ Alone(c)
  BY DEF OrderInv
<1>2. ~Use("late")
  <2>1. spent \in [faults: Nat, late: Nat, skips: Nat, deletes: Nat, lulls: Nat]
    BY DEF TypeOK
  <2> QED
    BY <2>1 DEF Use, Orderly
<1>3. CASE Deliver(c)
  <2>1. PICK h \in Slots :
          /\ Idle(h) /\ Set(h, NewJob("load", twilio[c].req, c))
          /\ twilio' = [twilio EXCEPT ![c].slot = h]
          /\ twilio[c].phase = "webhook" /\ twilio[c].slot = NoSlot
          /\ UNCHANGED <<redis, rows, present, legs, mail>>
    BY <1>3 DEF Deliver, server
  <2>2. twilio[c].req \in Request /\ Due(twilio[c].req, c)
    BY <1>0, <1>1, <2>1 DEF Line, Waits
  <2>3. Reports(c) = {}
    BY <1>1, <2>1 DEF Alone
  <2>4. \A g \in Slots : ~Serves(g, c)
    BY <2>1, NoneServes
  <2>5. Reports(c)' = {}
    BY <2>1, <2>3 DEF Reports
  <2>6. \A d \in Calls : /\ twilio'[d].phase = twilio[d].phase
                         /\ twilio'[d].req = twilio[d].req
                         /\ d # c => twilio'[d] = twilio[d] /\ mail'[d] = mail[d]
    BY <1>0, <2>1 DEF Line
  <2>7. twilio'[c].slot = h
    BY <1>0, <2>1 DEF Line
  <2>8. PICK req \in Request : req = twilio[c].req
    BY <2>2
  <2>9. Set(h, NewJob("load", req, c)) /\ Due(req, c)
    BY <2>1, <2>2, <2>8
  <2> QED
    BY <2>1, <2>4, <2>5, <2>6, <2>7, <2>8, <2>9, StartOrder
<1>4. CASE TimeOut(c)
  BY <1>2, <1>4 DEF TimeOut
<1>5. CASE DeliverMail(c)
  <2>1. PICK m \in mail[c], h \in Slots :
          /\ Idle(h)
          /\ Set(h, NewJob(IF m.kind # "status" THEN "load"
                           ELSE IF m.out = "completed" THEN "tally" ELSE "close", m, c))
          /\ mail' = [mail EXCEPT ![c] = @ \ {m}]
    BY <1>2, <1>5, Zenon DEF DeliverMail
  <2>2. UNCHANGED <<redis, rows, present, legs, twilio>>
    BY <1>5 DEF DeliverMail, server
  <2>3. m \in Request /\ m.kind \in {"status", "complete"}
    BY <1>0
  <2>4. PICK pc \in {"load", "tally", "close"} :
          /\ Set(h, NewJob(pc, m, c))
          /\ pc # "load" => m.kind = "status"
    BY <2>1
  <2>5. Due(m, c)
    <3>1. CASE m.kind = "status"
      BY <3>1 DEF Due
    <3>2. CASE m.kind = "complete"
      BY <1>1, <3>2 DEF Waits, Reports
    <3> QED
      BY <2>3, <3>1, <3>2
  <2>6. Reports(c)' = Reports(c) \ {m} /\ \A d \in Calls : d # c => mail'[d] = mail[d]
    BY <1>0, <2>1 DEF Reports
  <2>7. m.kind = "complete" => /\ \A g \in Slots : ~Serves(g, c)
                               /\ Reports(c)' = {}
                               /\ twilio'[c].phase = "ended"
    <3> SUFFICES ASSUME m.kind = "complete" PROVE /\ \A g \in Slots : ~Serves(g, c)
                                                  /\ Reports(c)' = {}
                                                  /\ twilio'[c].phase = "ended"
      OBVIOUS
    <3>1. m \in Reports(c)
      BY DEF Reports
    <3>2. Reports(c) = {m}
      BY <1>1, <3>1 DEF Alone
    <3> QED
      BY <1>1, <2>2, <2>6, <3>2, NoneServes DEF Alone
  <2> QED
    BY <2>1, <2>2, <2>3, <2>4, <2>5, <2>6, <2>7, StartOrder
<1> QED
  BY <1>3, <1>4, <1>5

\* A job dies, or is cut short by Redis.
LEMMA FaultOrder ==
  ASSUME TypeOK, OneInv, OrderInv, NEW h \in Slots, Lose(h) \/ RedisError(h)
  PROVE  OrderInv'
<1>1. CASE RedisError(h)
  <2>1. /\ Set(h, Answer(jobs[h], "hangup"))
        /\ UNCHANGED <<redis, rows, present, legs, twilio, mail>>
    BY <1>1 DEF RedisError, server
  <2>2. PICK job, to : job = jobs[h] /\ to = Answer(jobs[h], "hangup")
    OBVIOUS
  <2>3. job \in Job /\ Doing(job)'
    BY <2>1, <2>2, DoingKept DEF OrderInv, TypeOK
  <2>4. to.pc = "reply" /\ to.ans = "hangup" /\ to.req = job.req /\ to.call = job.call
    BY <2>2, <2>3 DEF Answer, Job
  <2>5. Doing(to)'
    BY <2>3, <2>4 DEF Doing, VoiceDoing, MakeDoing, DialDoing, CompleteDoing
  <2>6. Set(h, to) /\ to.req = jobs[h].req /\ to.call = jobs[h].call
    BY <2>1, <2>2, <2>4
  <2> QED
    BY <2>1, <2>5, <2>6, JobOrder
<1>2. CASE Lose(h)
  <2>0. /\ twilio \in [Calls -> Line] /\ mail \in [Calls -> SUBSET Request]
    BY DEF TypeOK, Line
  <2>1. /\ Set(h, IdleJob) /\ UNCHANGED <<redis, rows, present, legs>>
        /\ twilio' = [c \in Calls |-> IF twilio[c].slot = h
                                      THEN [twilio[c] EXCEPT !.slot = NoSlot] ELSE twilio[c]]
        /\ \/ jobs[h].req.kind = "status" /\ Post(jobs[h].call, jobs[h].req)
           \/ UNCHANGED mail
    BY <1>2 DEF Lose, server
  <2>2. jobs'[h] = IdleJob /\ \A g \in Slots : g # h => jobs'[g] = jobs[g]
    BY <2>1, Others
  <2>3. IdleJob.req.kind = "skip"
    BY DEF IdleJob, NewJob, Req
  <2>4. \A c \in Calls : /\ twilio'[c].phase = twilio[c].phase
                         /\ twilio'[c].req = twilio[c].req
                         /\ twilio[c].slot # h => twilio'[c].slot = twilio[c].slot
    BY <2>0, <2>1 DEF Line
  <2>5. \A c \in Calls : Reports(c)' = Reports(c)
    BY <2>0, <2>1 DEF Post, Reports
  <2>6. \A g \in Slots, c \in Calls : Serves(g, c)' => g # h /\ Serves(g, c)
    BY <2>2, <2>3 DEF Serves
  <2>7. \A c \in Calls : Alone(c)'
    BY <2>4, <2>5, <2>6 DEF OrderInv, Alone
  <2>8. \A c \in Calls : Waits(c)'
    BY <2>1, <2>4, <2>5, WaitsKept DEF OrderInv
  <2>9. \A g \in Slots : Doing(jobs[g])'
    <3> SUFFICES ASSUME NEW g \in Slots PROVE Doing(jobs[g])'
      OBVIOUS
    <3>1. CASE g = h
      BY <2>2, <2>3, <3>1 DEF Doing, Due
    <3>2. CASE g # h
      <4>1. PICK job : job = jobs[g]
        OBVIOUS
      <4>2. Doing(job)' /\ jobs'[g] = job
        BY <2>1, <2>2, <3>2, <4>1, DoingKept DEF OrderInv
      <4> QED
        BY <4>2
    <3> QED
      BY <3>1, <3>2
  <2>10. Numbered' /\ RowsOrderly'
    BY <2>1 DEF OrderInv, Numbered, RowsOrderly
  <2>11. redis' # NoState => Ready(redis)' \/ Recorded(redis)' \/ Dialed(redis)'
    BY <2>1 DEF OrderInv, Ready, Recorded, Dialed, LoggedTo
  <2> QED
    BY <2>7, <2>8, <2>9, <2>10, <2>11 DEF OrderInv
<1> QED
  BY <1>1, <1>2

\* A job moves on, or ends, and what it relies on is so already.
LEMMA MoveOrder ==
  ASSUME TypeOK, OrderInv, NEW h \in Slots, NEW to, Set(h, to),
         to.req.kind \in {"skip", "status"}
           \/ (to.req = jobs[h].req /\ to.call = jobs[h].call),
         Doing(to),
         UNCHANGED <<redis, rows, present, legs, twilio, mail>>
  PROVE  OrderInv'
<1>1. Doing(to)'
  BY DoingKept
<1> QED
  BY <1>1, JobOrder

\* A hangup asks nothing.
LEMMA AnswerDoing ==
  ASSUME NEW job \in Job, Doing(job), NEW verb \in {"hangup", "goodbye"},
         job.req.kind = "voice" => verb = "hangup"
  PROVE  LET to == Answer(job, verb) IN
         to.req = job.req /\ to.call = job.call /\ Doing(to)
<1> DEFINE to == Answer(job, verb)
<1>1. to.req = job.req /\ to.call = job.call /\ to.pc = "reply" /\ to.ans = verb
  BY DEF Answer, Job
<1> HIDE DEF to
<1>2. Doing(to)
  BY <1>1 DEF Doing, VoiceDoing, MakeDoing, DialDoing, CompleteDoing
<1> QED
  BY <1>1, <1>2 DEF to

\* A job let in by a call that has not dialed finds the document as it was.
LEMMA UndialedShape ==
  ASSUME TypeOK, OneInv, OrderInv, Orderly, NEW h \in Slots, Undialed(jobs[h].call),
         ~Idle(h),
         \/ jobs[h].req.kind = "make"
         \/ Storing(jobs[h])
         \/ jobs[h].req.kind = "voice" /\ Readable(h)
  PROVE  legs = <<>>
<1>1. PICK o \in Calls \cup {NoCall} : Sole(o)
  BY DEF OneInv, Single, Orderly
<1>2. SUFFICES ASSUME DOMAIN legs # {} PROVE FALSE
  BY NoLegs
<1>3. PICK k \in DOMAIN legs : legs[k].call = o
  BY <1>1, <1>2 DEF Sole, Only
<1>4. o # NoCall
  BY <1>3, LegType, ConstantsOK
<1>5. jobs[h].req.kind # "skip"
  BY DEF Storing
<1>6. jobs[h].call \in Calls
  BY <1>5 DEF OneInv, Wired
<1>7. jobs[h].call = o
  <2>1. CASE jobs[h].req.kind = "make"
    <3>1. jobs[h].call \in In
      BY <1>6, <2>1 DEF In, Admitted
    <3> QED
      BY <1>1, <3>1 DEF Sole, Only
  <2>2. CASE Storing(jobs[h])
    BY <1>1, <2>2 DEF Sole, Only
  <2>3. CASE jobs[h].req.kind = "voice" /\ Readable(h)
    <3>1. redis # NoState /\ redis.sid \in {NoCall, jobs[h].call}
      BY <2>3 DEF Readable
    <3>2. redis.sid = o
      BY <1>1, <1>2, <3>1 DEF Sole, Entered
    <3> QED
      BY <1>4, <3>1, <3>2
  <2> QED
    BY <2>1, <2>2, <2>3
<1> QED
  BY <1>3, <1>7 DEF Undialed

\* voice-app up to the SET, and after it.
LEMMA VoiceOrder ==
  ASSUME TypeOK, OneInv, OrderInv, Orderly, NEW h \in Slots, VoiceApp(h)
  PROVE  OrderInv'
<1> DEFINE job == jobs[h]
<1>1. job \in Job /\ Doing(job) /\ job.st \in State
  BY DEF TypeOK, OrderInv, Job
<1>2. UNCHANGED <<redis, rows, present, legs, twilio, mail>>
  BY DEF VoiceApp, VoiceLoad, VoiceClaim, VoiceHolder, VoiceAdmit, Loads, Quiet, server
<1>3. job.req.kind = "voice"
  BY DEF VoiceApp, VoiceLoad, VoiceClaim, VoiceHolder, VoiceAdmit, Loads, At
<1>4. SUFFICES ASSUME NEW to, Set(h, to), to.req = job.req, to.call = job.call,
                      \/ VoiceDoing(to)
                      \/ to = Answer(job, "hangup")
               PROVE  OrderInv'
  <2>1. CASE VoiceLoad(h)
    <3>1. Set(h, [job EXCEPT !.pc = "claim", !.st = redis]) /\ redis # NoState
          /\ job.pc = "load" /\ Readable(h)
      BY <2>1 DEF VoiceLoad, Loads, At, Readable
    <3>2. Unworked(redis)
      <4>1. Undialed(job.call)
        BY <1>1, <1>3 DEF Doing, Due
      <4>2. legs = <<>>
        BY <1>3, <3>1, <4>1, UndialedShape DEF Idle
      <4>3. Unworked(FreshState)
        BY DEF Unworked, FreshState
      <4> QED
        BY <3>1, <4>2, <4>3, FirstShape
    <3>3. VoiceDoing([job EXCEPT !.pc = "claim", !.st = redis])
      BY <1>1, <1>3, <3>2 DEF VoiceDoing, Doing, Job
    <3>4. /\ [job EXCEPT !.pc = "claim", !.st = redis].req = job.req
          /\ [job EXCEPT !.pc = "claim", !.st = redis].call = job.call
      BY <1>1 DEF Job
    <3> HIDE DEF job
    <3> QED
      BY <1>4, <3>1, <3>3, <3>4
  <2>2. CASE (VoiceClaim(h) \/ VoiceHolder(h)) /\ Set(h, Claimed(job))
    <3>1. job.pc \in {"claim", "holder"}
      BY <2>2 DEF VoiceClaim, VoiceHolder, At
    <3>2. Unworked([job.st EXCEPT !.sid = job.call])
      BY <1>1, <1>3, <3>1 DEF Doing, VoiceDoing, Unworked, State
    <3>3. /\ Claimed(job).req = job.req /\ Claimed(job).call = job.call
          /\ Claimed(job).st = [job.st EXCEPT !.sid = job.call]
          /\ Claimed(job).ans = "none"
      BY <1>1 DEF Claimed, Saving, Job
    <3>4. VoiceDoing(Claimed(job))
      BY <3>2, <3>3 DEF VoiceDoing
    <3> QED
      BY <1>4, <2>2, <3>3, <3>4
  <2>3. CASE VoiceClaim(h) /\ Set(h, [job EXCEPT !.pc = "holder"])
    <3>1. job.pc = "claim"
      BY <2>3 DEF VoiceClaim, At
    <3>2. VoiceDoing([job EXCEPT !.pc = "holder"])
      BY <1>1, <1>3, <3>1 DEF Doing, VoiceDoing, Job
    <3>3. /\ [job EXCEPT !.pc = "holder"].req = job.req
          /\ [job EXCEPT !.pc = "holder"].call = job.call
      BY <1>1 DEF Job
    <3> HIDE DEF job
    <3> QED
      BY <1>4, <2>3, <3>2, <3>3
  <2>4. CASE VoiceHolder(h) /\ Set(h, [job EXCEPT !.pc = "claim", !.retried = TRUE])
    <3>1. job.pc = "holder"
      BY <2>4 DEF VoiceHolder, At
    <3>2. VoiceDoing([job EXCEPT !.pc = "claim", !.retried = TRUE])
      BY <1>1, <1>3, <3>1 DEF Doing, VoiceDoing, Job
    <3>3. /\ [job EXCEPT !.pc = "claim", !.retried = TRUE].req = job.req
          /\ [job EXCEPT !.pc = "claim", !.retried = TRUE].call = job.call
      BY <1>1 DEF Job
    <3> HIDE DEF job
    <3> QED
      BY <1>4, <2>4, <3>2, <3>3
  <2>5. CASE (VoiceHolder(h) \/ VoiceAdmit(h)) /\ Set(h, Answer(job, "hangup"))
    <3>1. Answer(job, "hangup").req = job.req /\ Answer(job, "hangup").call = job.call
      BY <1>1 DEF Answer, Job
    <3> HIDE DEF job
    <3> QED
      BY <1>4, <2>5, <3>1
  <2>6. CASE VoiceAdmit(h) /\ Set(h, Answer(job, IF Webrtc THEN "redirect" ELSE "gather"))
    <3> DEFINE to == Answer(job, IF Webrtc THEN "redirect" ELSE "gather")
    <3>1. to.req = job.req /\ to.call = job.call /\ to.pc = "reply"
          /\ to.ans \in {"redirect", "gather"}
      BY <1>1 DEF Answer, Job
    <3>2. VoiceDoing(to)
      BY <3>1 DEF VoiceDoing
    <3>3. Set(h, to)
      BY <2>6
    <3> HIDE DEF to, job
    <3> QED
      BY <1>4, <3>1, <3>2, <3>3
  <2> QED
    BY <2>1, <2>2, <2>3, <2>4, <2>5, <2>6 DEF VoiceApp, VoiceClaim, VoiceHolder, VoiceAdmit
<1>5. Doing(to)
  <2>1. CASE VoiceDoing(to)
    BY <1>1, <1>3, <1>4, <2>1 DEF Doing
  <2>2. CASE to = Answer(job, "hangup")
    BY <1>1, <2>2, AnswerDoing
  <2> QED
    BY <1>4, <2>1, <2>2
<1> QED
  BY <1>2, <1>4, <1>5, MoveOrder

\* make-calls
LEMMA MakeOrder ==
  ASSUME TypeOK, OneInv, OrderInv, Orderly, NEW h \in Slots, MakeCalls(h)
  PROVE  OrderInv'
<1>0. PICK job : job = jobs[h]
  OBVIOUS
<1>1. job \in Job /\ Doing(job) /\ job.pc = "load" /\ job.req.kind = "make"
      /\ redis # NoState /\ redis \in State
      /\ UNCHANGED <<redis, rows, present, legs, twilio, mail>>
  BY <1>0 DEF MakeCalls, Loads, Readable, At, server, TypeOK, OrderInv
<1>2. PICK verb \in {"redirect", "gather", "goodbye"} :
        \/ Set(h, Answer(job, "redirect"))
        \/ Set(h, Saving(job, [redis EXCEPT !.attempts = redis.attempts + 1], verb))
  BY <1>0 DEF MakeCalls
<1>3. Unworked(redis)
  <2>1. legs = <<>>
    BY <1>0, <1>1, UndialedShape DEF Idle, Doing, Due
  <2>2. Unworked(FreshState)
    BY DEF Unworked, FreshState
  <2> QED
    BY <1>1, <2>1, <2>2, FirstShape
<1>4. CASE Set(h, Answer(job, "redirect"))
  <2>1. PICK to : to = Answer(job, "redirect")
    OBVIOUS
  <2>2. to.req = job.req /\ to.call = job.call /\ to.pc = "reply" /\ to.ans = "redirect"
    BY <1>1, <2>1 DEF Answer, Job
  <2>3. Doing(to)
    BY <1>1, <2>2 DEF Doing, MakeDoing
  <2> QED
    BY <1>0, <1>1, <1>4, <2>1, <2>2, <2>3, MoveOrder
<1>5. CASE Set(h, Saving(job, [redis EXCEPT !.attempts = redis.attempts + 1], verb))
  <2>1. PICK st : st = [redis EXCEPT !.attempts = redis.attempts + 1]
    OBVIOUS
  <2>2. Unworked(st)
    BY <1>1, <1>3, <2>1 DEF Unworked, State
  <2>3. PICK to : to = Saving(job, st, verb)
    OBVIOUS
  <2>4. to.req = job.req /\ to.call = job.call /\ to.st = st /\ to.ans = verb
    BY <1>1, <2>3 DEF Saving, Job
  <2>5. Doing(to)
    BY <1>1, <2>2, <2>4 DEF Doing, MakeDoing
  <2> QED
    BY <1>0, <1>1, <1>5, <2>1, <2>3, <2>4, <2>5, MoveOrder
<1> QED
  BY <1>2, <1>4, <1>5

\* dial-target
LEMMA DialTargetOrder ==
  ASSUME TypeOK, OneInv, OrderInv, Orderly, NEW h \in Slots, DialLoad(h) \/ DialTarget(h)
  PROVE  OrderInv'
<1>0. PICK job : job = jobs[h]
  OBVIOUS
<1>1. job \in Job /\ Doing(job) /\ job.req.kind = "dial"
      /\ UNCHANGED <<redis, rows, present, legs, twilio, mail>>
  BY <1>0 DEF DialLoad, DialTarget, Loads, At, Quiet, server, TypeOK, OrderInv
<1>2. Len(legs) \in Nat /\ NumTargets \in Nat
  BY NoLegs, ConstantsOK
<1>3. SUFFICES ASSUME NEW to, Set(h, to), to.req = job.req, to.call = job.call, Doing(to)
               PROVE  OrderInv'
  <2>1. CASE DialLoad(h)
    <3>1. redis # NoState /\ redis \in State /\ (Ready(redis) \/ Recorded(redis))
      BY <1>0, <1>1, <2>1 DEF DialLoad, Loads, Readable, TypeOK, Doing, Due
    <3>2. CASE redis.idx >= NumTargets
      <4>1. Set(h, Answer(job, "goodbye"))
        BY <1>0, <2>1, <3>2 DEF DialLoad
      <4> QED
        BY <1>1, <1>3, <4>1, AnswerDoing
    <3>3. CASE ~(redis.idx >= NumTargets)
      <4>1. PICK to : to = [job EXCEPT !.pc = "target", !.st = redis]
        OBVIOUS
      <4>2. Set(h, to)
        BY <1>0, <2>1, <3>3, <4>1 DEF DialLoad
      <4>3. /\ to.req = job.req /\ to.call = job.call /\ to.pc = "target" /\ to.st = redis
            /\ to.ans = job.ans /\ to.to = job.to
        BY <1>1, <4>1 DEF Job
      <4>4. redis.idx < NumTargets /\ Stored(redis)
        BY <1>2, <3>1, <3>3 DEF State, Stored
      <4>5. DialDoing(to)
        BY <1>1, <3>1, <4>3, <4>4 DEF Doing, DialDoing
      <4>6. Doing(to)
        BY <1>1, <4>3, <4>5 DEF Doing
      <4> QED
        BY <1>3, <4>2, <4>3, <4>6
    <3> QED
      BY <3>2, <3>3
  <2>2. CASE DialTarget(h)
    <3>1. /\ job.pc = "target" /\ job.st \in State
          /\ job.st.idx < NumTargets /\ Stored(job.st)
          /\ Ready(job.st) \/ Recorded(job.st)
      BY <1>0, <1>1, <2>2 DEF DialTarget, At, Doing, DialDoing, Job
    <3>2. job.st.idx = Len(legs)
      BY <3>1 DEF Ready, Recorded
    <3>3. job.st.idx \in present
      BY <1>2, <3>1, <3>2 DEF OrderInv, Numbered
    <3>4. Set(h, Dialing(job))
      BY <1>0, <2>2, <3>3 DEF DialTarget
    <3>5. PICK to : to = Dialing(job)
      OBVIOUS
    <3>6. CASE job.st.dialed = job.st.idx
      <4>1. /\ to.req = job.req /\ to.call = job.call /\ to.pc = "reply"
            /\ to.ans = "dial" /\ to.to = job.st.idx
        BY <1>1, <3>5, <3>6 DEF Dialing, Answer, Job
      <4>2. redis # NoState => Recorded(redis)
        <5> SUFFICES ASSUME redis # NoState PROVE Recorded(redis)
          OBVIOUS
        <5>1. redis.dialed = Len(legs) /\ (Ready(redis) \/ Recorded(redis))
          BY <1>1, <3>1, <3>2, <3>6 DEF Stored, Doing, Due
        <5> QED
          BY <1>2, <5>1 DEF Ready
      <4>3. Doing(to)
        BY <1>1, <3>1, <3>2, <4>1, <4>2 DEF Doing, DialDoing
      <4> QED
        BY <1>3, <3>4, <3>5, <4>1, <4>3
    <3>7. CASE job.st.dialed # job.st.idx
      <4>1. PICK st : st = [job.st EXCEPT !.dialed = job.st.idx]
        OBVIOUS
      <4>2. /\ to.req = job.req /\ to.call = job.call /\ to.pc = "save" /\ to.st = st
            /\ to.ans = "dial" /\ to.to = job.st.idx
        BY <1>1, <3>5, <3>7, <4>1 DEF Dialing, Saving, Job
      <4>3. st.idx = job.st.idx /\ st.dialed = job.st.idx /\ st.done = job.st.done
        BY <3>1, <4>1 DEF State
      <4>4. Recorded(st)
        BY <3>1, <3>2, <4>3 DEF Ready, Recorded
      <4>5. Doing(to)
        BY <1>1, <3>1, <3>2, <4>2, <4>4 DEF Doing, DialDoing
      <4> QED
        BY <1>3, <3>4, <3>5, <4>2, <4>5
    <3> QED
      BY <3>6, <3>7
  <2> QED
    BY <2>1, <2>2
<1> QED
  BY <1>0, <1>1, <1>3, MoveOrder

\* The report of the last target dialed always advances the list by one.
LEMMA SettleDialed ==
  ASSUME TypeOK, NEW job \in Job, NEW st \in State, Dialed(st),
         NEW dup \in BOOLEAN, NEW popped \in Nat \cup {None}
  PROVE  \E verb \in {"redirect", "finish"} :
           Settle(job, st, dup, popped) =
             Saving(job, [st EXCEPT !.idx = Len(legs), !.done = 0 .. Len(legs) - 1], verb)
<1>0. PICK n \in Nat : n = Len(legs) /\ n # 0
  BY NoLegs DEF Dialed
<1>1. st.idx = n - 1 /\ st.dialed = n - 1 /\ st.done = 0 .. n - 2 /\ st.idx \in Nat
  BY <1>0 DEF Dialed
<1>2. Advances(st, dup) /\ LegIndex(st) = n - 1
  BY <1>0, <1>1 DEF Advances, LegIndex
<1>3. st.idx + 1 = n /\ ~(n <= n - 1)
  BY <1>0, <1>1
<1>4. (0 .. n - 2) \cup {n - 1} = 0 .. n - 1
  BY <1>0
<1>5. st.done \cup {st.idx} = 0 .. n - 1
  BY <1>1, <1>4
<1>6. [st EXCEPT !.idx = n, !.done = @ \cup {st.idx}]
        = [st EXCEPT !.idx = Len(legs), !.done = 0 .. Len(legs) - 1]
  BY <1>0, <1>5
<1>7. Settle(job, st, dup, popped) =
        Saving(job, [st EXCEPT !.idx = n, !.done = @ \cup {st.idx}],
               IF n < NumTargets THEN "redirect" ELSE "finish")
  BY <1>2, <1>3 DEF Settle
<1> QED
  BY <1>6, <1>7

\* A repeat found once the list has advanced changes nothing and goes on as the
\* first report did.
LEMMA SettleReady ==
  ASSUME TypeOK, NEW job \in Job, NEW st \in State, Ready(st), legs # <<>>
  PROVE  Settle(job, st, TRUE, None) \in {[job EXCEPT !.pc = "finish", !.ans = "finish"],
                                           Answer(job, "redirect")}
<1>0. PICK n \in Nat : n = Len(legs) /\ n # 0
  BY NoLegs
<1>1. st.idx = n /\ st.dialed = n - 1
  BY <1>0 DEF Ready
<1>2. ~Advances(st, TRUE) /\ LegIndex(st) = n - 1
  BY <1>0, <1>1 DEF Advances, LegIndex
<1>3. ~(n <= n - 1)
  BY <1>0
<1> QED
  BY <1>1, <1>2, <1>3 DEF Settle

\* A callback sorted as first or repeat, by the state or by the rows, goes on as
\* the orderly course needs.
LEMMA SortedOrder ==
  ASSUME TypeOK, OrderInv, NEW job \in Job, Doing(job), job.req.kind = "complete",
         NEW st \in State, Dialed(st) \/ Ready(st), NEW dup \in BOOLEAN,
         Ready(st) => dup /\ (redis # NoState => Ready(redis)),
         dup /\ Dialed(st) => LoggedTo(Len(legs))
  PROVE  LET to == Sorted(job, st, dup) IN
         to.req = job.req /\ to.call = job.call /\ Doing(to)
<1>0. PICK to : to = Sorted(job, st, dup)
  OBVIOUS
<1>1. legs # <<>> /\ Due(job.req, job.call)
  BY DEF Doing, Due
<1>2. CASE Ready(st)
  <2>1. to = Settle(job, st, TRUE, None)
    BY <1>0, <1>2 DEF Sorted
  <2>2. to \in {[job EXCEPT !.pc = "finish", !.ans = "finish"], Answer(job, "redirect")}
    BY <1>1, <1>2, <2>1, SettleReady
  <2>3. /\ to.req = job.req /\ to.call = job.call
        /\ to.pc \in {"finish", "reply"} /\ to.ans \in {"redirect", "finish"}
    BY <2>2 DEF Answer, Job
  <2>4. CompleteDoing(to)
    BY <1>2, <2>3 DEF CompleteDoing
  <2> QED
    BY <1>0, <1>1, <2>3, <2>4 DEF Doing
<1>3. CASE Dialed(st) /\ dup
  <2>1. to = Settle(job, st, TRUE, None)
    BY <1>0, <1>3 DEF Sorted
  <2>2. PICK verb \in {"redirect", "finish"} :
          to = Saving(job, [st EXCEPT !.idx = Len(legs), !.done = 0 .. Len(legs) - 1], verb)
    BY <1>3, <2>1, SettleDialed
  <2>3. PICK new : new = [st EXCEPT !.idx = Len(legs), !.done = 0 .. Len(legs) - 1]
    OBVIOUS
  <2>4. Ready(new)
    BY <1>3, <2>3 DEF State, Dialed, Ready
  <2>5. to.req = job.req /\ to.call = job.call /\ to.pc = "save" /\ to.ans = verb /\ to.st = new
    BY <2>2, <2>3 DEF Saving, Job
  <2>6. CompleteDoing(to)
    BY <2>4, <2>5 DEF CompleteDoing
  <2> QED
    BY <1>0, <1>1, <2>5, <2>6 DEF Doing
<1>4. CASE Dialed(st) /\ ~dup
  <2>1. PICK n \in Nat : n = Len(legs) /\ n # 0 /\ n <= NumTargets
    BY <1>4, NoLegs DEF Dialed, OrderInv, Numbered
  <2>2. st.idx < NumTargets
    BY <1>4, <2>1, ConstantsOK DEF Dialed
  <2>3. PICK new : new = [st EXCEPT !.skip = None]
    OBVIOUS
  <2>4. to = [job EXCEPT !.pc = "insert", !.st = new, !.popped = st.skip]
    BY <1>0, <1>4, <2>2, <2>3 DEF Sorted
  <2>5. Dialed(new)
    BY <1>4, <2>3 DEF State, Dialed
  <2>6. to.req = job.req /\ to.call = job.call /\ to.pc = "insert" /\ to.st = new
        /\ to.ans = job.ans
    BY <2>4 DEF Job
  <2>7. CompleteDoing(to)
    BY <2>5, <2>6 DEF Doing, CompleteDoing
  <2> QED
    BY <1>0, <1>1, <2>6, <2>7 DEF Doing
<1> QED
  BY <1>2, <1>3, <1>4

\* The key of a leg's row is never the key of another leg's.
LEMMA LoggedLeg ==
  ASSUME TypeOK, OrderInv, NEW job \in Job, Doing(job), job.req.kind = "complete",
         NEW idx \in Nat, job.req.child \/ idx = Len(legs) - 1
  PROVE  /\ Logged(LegSid(job, idx)) <=> \E r \in rows : r.leg = Len(legs)
         /\ \A r \in rows : r.leg = Len(legs) => r.sid = LegSid(job, idx)
<1>1. PICK n \in Nat : n = Len(legs) /\ n # 0 /\ job.req.leg = n
  BY NoLegs DEF Doing, Due
<1>2. LegSid(job, idx) = IF job.req.child THEN <<job.call, n, None>>
                                          ELSE <<job.call, 0, n - 1>>
  BY <1>1 DEF LegSid
<1>3. \A r \in rows : r.leg = n => r.sid = LegSid(job, idx)
  BY <1>1, <1>2 DEF Doing, Due
<1>4. \A r \in rows : r.sid = LegSid(job, idx) => r.leg = n
  <2> SUFFICES ASSUME NEW r \in rows, r.sid = LegSid(job, idx) PROVE r.leg = n
    OBVIOUS
  <2>1. r.leg \in 1..Len(legs)
    BY NoLegs DEF OrderInv, RowsOrderly
  <2>2. \/ r.sid[2] = r.leg /\ r.sid[3] = None
        \/ r.sid[2] = 0 /\ r.sid[3] = r.leg - 1
    BY DEF OrderInv, RowsOrderly
  <2>3. \/ r.sid[2] = n
        \/ r.sid[2] = 0 /\ r.sid[3] = n - 1
    BY <1>2
  <2> QED
    BY <1>1, <1>2, <2>1, <2>2, <2>3
<1> QED
  BY <1>1, <1>3, <1>4 DEF Logged

\* call-complete, but for the INSERT
LEMMA CompleteOrder ==
  ASSUME TypeOK, OneInv, OrderInv, Orderly, NEW h \in Slots,
         CompleteLoad(h) \/ CompleteDedupe(h) \/ CompleteFinish(h)
  PROVE  OrderInv'
<1>0. PICK job : job = jobs[h]
  OBVIOUS
<1>1. job \in Job /\ Doing(job) /\ job.req.kind = "complete" /\ job.st \in State
      /\ UNCHANGED <<redis, rows, present, legs, twilio, mail>>
  BY <1>0 DEF CompleteLoad, CompleteDedupe, CompleteFinish, Loads, At, Quiet, server,
       TypeOK, OrderInv, Job
<1>2. SUFFICES ASSUME NEW to, Set(h, to), to.req = job.req, to.call = job.call, Doing(to)
               PROVE  OrderInv'
  <2>0. PICK n \in Nat : n = Len(legs) /\ n # 0 /\ legs # <<>>
    BY <1>1, NoLegs DEF Doing, Due
  <2>1. CASE CompleteLoad(h)
    <3>1. redis # NoState /\ redis \in State /\ (Dialed(redis) \/ Ready(redis))
      BY <1>0, <1>1, <2>1 DEF CompleteLoad, Loads, Readable, TypeOK, Doing, Due
    <3>2. CASE job.req.child
      <4>1. PICK to : to = [job EXCEPT !.pc = "dedupe", !.st = redis]
        OBVIOUS
      <4>2. Set(h, to)
        BY <1>0, <2>1, <3>2, <4>1 DEF CompleteLoad
      <4>3. /\ to.req = job.req /\ to.call = job.call /\ to.pc = "dedupe" /\ to.st = redis
            /\ to.ans = job.ans
        BY <1>1, <4>1 DEF Job
      <4>4. CompleteDoing(to)
        BY <1>1, <3>1, <3>2, <4>3 DEF Doing, CompleteDoing, Stored
      <4>5. Doing(to)
        BY <1>1, <4>3, <4>4 DEF Doing
      <4> QED
        BY <1>2, <4>2, <4>3, <4>5
    <3>3. CASE ~job.req.child
      <4>1. PICK dup : dup = SeenInState(redis)
        OBVIOUS
      <4>2. Set(h, Sorted(job, redis, dup)) /\ dup \in BOOLEAN
        BY <1>0, <2>1, <3>3, <4>1 DEF CompleteLoad, SeenInState
      <4>5. Ready(redis) => SeenInState(redis)
        BY <2>0 DEF Ready, SeenInState
      <4>6. Dialed(redis) => ~SeenInState(redis)
        BY <2>0 DEF Dialed, SeenInState
      <4>3. Ready(redis) => dup
        BY <4>1, <4>5
      <4>4. Dialed(redis) => ~dup
        BY <4>1, <4>6
      <4> QED
        BY <1>1, <1>2, <3>1, <4>2, <4>3, <4>4, SortedOrder
    <3> QED
      BY <3>2, <3>3
  <2>2. CASE CompleteDedupe(h)
    <3>1. PICK dup : dup = Logged(LegSid(job, job.st.idx))
      OBVIOUS
    <3>2. Set(h, Sorted(job, job.st, dup)) /\ dup \in BOOLEAN /\ job.pc = "dedupe"
      BY <1>0, <2>2, <3>1 DEF CompleteDedupe, At, Logged
    <3>3. job.req.child /\ Stored(job.st) /\ (Dialed(job.st) \/ Ready(job.st))
      BY <1>1, <3>2 DEF Doing, CompleteDoing
    <3>4. dup <=> \E r \in rows : r.leg = n
      <4>1. job.st.idx \in Nat
        BY <1>1 DEF State
      <4> QED
        BY <1>1, <2>0, <3>1, <3>3, <4>1, LoggedLeg
    <3>5. Ready(job.st) => dup
      BY <2>0, <3>4 DEF Ready, LoggedTo
    <3>6. Ready(job.st) => (redis # NoState => Ready(redis))
      <4> SUFFICES ASSUME Ready(job.st), redis # NoState PROVE Ready(redis)
        OBVIOUS
      <4>1. redis.idx = n
        BY <2>0, <3>3 DEF Stored, Ready
      <4>2. Dialed(redis) \/ Ready(redis)
        BY <1>1 DEF Doing, Due
      <4> QED
        BY <2>0, <4>1, <4>2 DEF Dialed
    <3>7. dup /\ Dialed(job.st) => LoggedTo(Len(legs))
      <4> SUFFICES ASSUME dup, Dialed(job.st), NEW j \in 1..n
                   PROVE  \E r \in rows : r.leg = j
        BY <2>0 DEF LoggedTo
      <4>1. j = n \/ j \in 1..n - 1
        BY <2>0
      <4> QED
        BY <2>0, <3>4, <4>1 DEF Dialed, LoggedTo
    <3> QED
      BY <1>1, <1>2, <3>2, <3>3, <3>5, <3>6, <3>7, SortedOrder
  <2>3. CASE CompleteFinish(h)
    <3>1. Set(h, Answer(job, "goodbye"))
      BY <1>0, <2>3 DEF CompleteFinish
    <3> QED
      BY <1>1, <1>2, <3>1, AnswerDoing
  <2> QED
    BY <2>1, <2>2, <2>3
<1> QED
  BY <1>0, <1>1, <1>2, MoveOrder

\* The row of the last target dialed is inserted, unless it is there already,
\* and the list advances.
LEMMA InsertOrder ==
  ASSUME TypeOK, OneInv, OrderInv, Orderly, NEW h \in Slots, CompleteInsert(h)
  PROVE  OrderInv'
<1>0. PICK job, st : job = jobs[h] /\ st = job.st
  OBVIOUS
<1>1. /\ job \in Job /\ Doing(job) /\ job.req.kind = "complete" /\ st \in State
      /\ job.pc = "insert" /\ job.popped \in Nat \cup {None}
      /\ UNCHANGED <<redis, present, legs, twilio, mail>>
  BY <1>0 DEF CompleteInsert, At, Quiet, server, TypeOK, OrderInv, Job
<1>2. Dialed(st) /\ Due(job.req, job.call)
  BY <1>0, <1>1 DEF Doing, CompleteDoing
<1>3. PICK n \in Nat : n = Len(legs) /\ n # 0 /\ n <= NumTargets /\ job.req.leg = n
                       /\ st.idx = n - 1 /\ st.idx \in Nat
  BY <1>1, <1>2, NoLegs DEF Dialed, Due, OrderInv, Numbered, State
<1>4. st.idx \in present
  BY <1>3, ConstantsOK DEF OrderInv, Numbered
<1>5. PICK sid : sid = LegSid(job, st.idx)
  OBVIOUS
<1>6. /\ Logged(sid) <=> \E r \in rows : r.leg = n
      /\ \A r \in rows : r.leg = n => r.sid = sid
  BY <1>1, <1>3, <1>5, LoggedLeg
<1>7. sid = IF job.req.child THEN <<job.call, n, None>> ELSE <<job.call, 0, n - 1>>
  BY <1>3, <1>5 DEF LegSid
<1>8. PICK row : row = RowOf(job)
  OBVIOUS
<1>9. row.sid = sid /\ row.leg = n /\ row.target = n - 1
  BY <1>0, <1>3, <1>5, <1>8 DEF RowOf
<1>10. rows' = IF Logged(sid) THEN rows ELSE rows \cup {row}
  BY <1>0, <1>4, <1>5, <1>8 DEF CompleteInsert
<1>11. /\ rows \subseteq rows' /\ \E r \in rows' : r.leg = n
       /\ \A r \in rows' : r \in rows \/ (r = row /\ ~Logged(sid))
  BY <1>6, <1>9, <1>10
<1>12. RowsOrderly'
  <2> SUFFICES ASSUME NEW r \in rows'
               PROVE  /\ r.leg \in DOMAIN legs /\ r.target = r.leg - 1
                      /\ \/ r.sid[2] = r.leg /\ r.sid[3] = None
                         \/ r.sid[2] = 0 /\ r.sid[3] = r.leg - 1
                      /\ \A q \in rows' : q.leg = r.leg => q = r
    BY <1>1 DEF RowsOrderly
  <2>1. CASE r \in rows
    <3>1. \A q \in rows' : q.leg = r.leg => q = r
      BY <1>6, <1>9, <1>11, <2>1 DEF OrderInv, RowsOrderly
    <3> QED
      BY <2>1, <3>1 DEF OrderInv, RowsOrderly
  <2>2. CASE r = row /\ ~Logged(sid)
    <3>1. \A q \in rows' : q.leg = r.leg => q = r
      BY <1>6, <1>9, <1>11, <2>2
    <3>2. n \in DOMAIN legs
      BY <1>3, NoLegs
    <3>3. \/ r.sid[2] = n /\ r.sid[3] = None
          \/ r.sid[2] = 0 /\ r.sid[3] = n - 1
      BY <1>7, <1>9, <2>2
    <3> QED
      BY <1>9, <2>2, <3>1, <3>2, <3>3
  <2> QED
    BY <1>11, <2>1, <2>2
<1>13. Numbered'
  BY <1>1 DEF OrderInv, Numbered
<1>14. LoggedTo(n)' /\ \A k \in Nat : LoggedTo(k) => LoggedTo(k)'
  <2>1. \A k \in Nat : LoggedTo(k) => LoggedTo(k)'
    BY <1>11 DEF LoggedTo
  <2>2. LoggedTo(n - 1)
    BY <1>2, <1>3 DEF Dialed
  <2>3. \A j \in 1..n : j = n \/ j \in 1..n - 1
    BY <1>3
  <2>4. LoggedTo(n)'
    BY <1>11, <2>2, <2>3 DEF LoggedTo
  <2> QED
    BY <2>1, <2>4
<1>15. n - 1 \in Nat /\ n = Len(legs)
  BY <1>3
<1>16. /\ redis' # NoState => Ready(redis)' \/ Recorded(redis)' \/ Dialed(redis)'
       /\ redis' # NoState => Dialed(redis)' \/ Ready(redis)'
  <2>1. redis # NoState => Dialed(redis) \/ Ready(redis)
    BY <1>1, <1>2 DEF Due
  <2> QED
    BY <1>1, <1>14, <1>15, <2>1 DEF Dialed, Ready
<1>17. Due(job.req, job.call)'
  <2>1. \A r \in rows' : r.leg = n => r.sid = sid
    BY <1>6, <1>9, <1>11
  <2>2. job.req.leg = n /\ job.req.kind = "complete" /\ legs' # <<>> /\ Len(legs') = n
    BY <1>1, <1>2, <1>3 DEF Dialed
  <2> QED
    BY <1>7, <1>16, <2>1, <2>2 DEF Due
<1>24. PICK dup : dup = (Logged(LegSid(job, st.idx)) \/ st.idx \notin present)
  OBVIOUS
<1>25. dup \in BOOLEAN /\ Set(h, Settle(job, st, dup, job.popped))
  <2>1. dup \in BOOLEAN
    BY <1>24
  <2>2. Set(h, Settle(job, st, dup, job.popped))
    BY <1>0, <1>24, Zenon DEF CompleteInsert
  <2> QED
    BY <2>1, <2>2
<1>26. PICK new : new = [st EXCEPT !.idx = Len(legs), !.done = 0 .. Len(legs) - 1]
  OBVIOUS
<1>18. PICK verb \in {"redirect", "finish"} : Set(h, Saving(job, new, verb))
  BY <1>1, <1>2, <1>25, <1>26, SettleDialed
<1>19. PICK to : to = Saving(job, new, verb)
  OBVIOUS
<1>20. /\ to.req = job.req /\ to.call = job.call /\ to.pc = "save"
       /\ to.ans = verb /\ to.st = new
  BY <1>1, <1>19 DEF Saving, Job
<1>21. Ready(new)'
  BY <1>1, <1>2, <1>3, <1>14, <1>26 DEF State, Dialed, Ready
<1>22. Doing(to)'
  BY <1>1, <1>17, <1>20, <1>21 DEF Doing, CompleteDoing
<1>23. /\ Set(h, to) /\ to.req = jobs[h].req /\ to.call = jobs[h].call
       /\ jobs[h].req.kind = "complete" /\ Admitted(jobs[h])
  BY <1>0, <1>1, <1>18, <1>19, <1>20 DEF Admitted
<1> QED
  BY <1>1, <1>12, <1>13, <1>16, <1>22, <1>23, StoreOrder

\* The SET of the whole document.
LEMMA SaveOrder ==
  ASSUME TypeOK, OneInv, OrderInv, Orderly, NEW h \in Slots, SaveState(h)
  PROVE  OrderInv'
<1>0. PICK job, st : job = jobs[h] /\ st = job.st
  OBVIOUS
<1>1. /\ job \in Job /\ Doing(job) /\ st \in State /\ job.pc = "save"
      /\ redis' = st /\ UNCHANGED <<rows, present, legs, twilio, mail>>
  BY <1>0 DEF SaveState, Quiet, TypeOK, OrderInv, Job
<1>2. job.req.kind \in {"voice", "make", "dial", "complete"}
  <2>1. job.req.kind # "skip"
    BY <1>0, <1>1 DEF OneInv, Single, Orderly, Idle
  <2>2. Carries(job)
    BY <1>1 DEF Carries
  <2> QED
    BY <1>0, <2>1, <2>2 DEF OneInv, Wired, Storing, Admitted
<1>3. PICK to : to = [job EXCEPT !.pc = IF job.req.kind = "voice" THEN "admit"
                        ELSE IF job.ans = "finish" THEN "finish" ELSE "reply"]
  OBVIOUS
<1>4. /\ Set(h, to) /\ to.req = job.req /\ to.call = job.call /\ to.ans = job.ans
      /\ to.to = job.to
      /\ to.pc = IF job.req.kind = "voice" THEN "admit"
                 ELSE IF job.ans = "finish" THEN "finish" ELSE "reply"
  BY <1>0, <1>1, <1>2, <1>3 DEF SaveState, Job
<1>5. Storing(jobs[h]) \/ Admitted(jobs[h])
  BY <1>0, <1>1, <1>2 DEF Storing, Admitted
<1>6. Numbered' /\ RowsOrderly'
  BY <1>1 DEF OrderInv, Numbered, RowsOrderly
<1>7. /\ Ready(redis)' <=> Ready(st)
      /\ Recorded(redis)' <=> Recorded(st)
  BY <1>1 DEF Ready, Recorded, LoggedTo
<1>8. job.req.kind \in {"voice", "make"} =>
        /\ Undialed(job.call) /\ legs = <<>> /\ (Ready(st) \/ Recorded(st))
  <2> SUFFICES ASSUME job.req.kind \in {"voice", "make"}
               PROVE  /\ Undialed(job.call) /\ legs = <<>> /\ (Ready(st) \/ Recorded(st))
    OBVIOUS
  <2>1. Undialed(job.call) /\ Unworked(st)
    BY <1>0, <1>1 DEF Doing, Due, VoiceDoing, MakeDoing
  <2>2. legs = <<>>
    BY <1>0, <1>1, <2>1, UndialedShape DEF Idle, Storing
  <2> QED
    BY <2>1, <2>2, FirstShape
<1>9. job.req.kind = "dial" => Recorded(st) /\ job.ans = "dial"
  BY <1>0, <1>1 DEF Doing, DialDoing
<1>10. job.req.kind = "complete" => Ready(st)
  BY <1>0, <1>1 DEF Doing, CompleteDoing
<1>11. redis' # NoState => Ready(redis)' \/ Recorded(redis)' \/ Dialed(redis)'
  BY <1>2, <1>7, <1>8, <1>9, <1>10
<1>12. Due(to.req, to.call)'
  <2>1. job.req.kind \in {"voice", "make"} => Undialed(job.call)'
    BY <1>1, <1>8 DEF Undialed
  <2>2. Due(job.req, job.call)'
    BY <1>1, <1>7, <1>9, <1>10, <2>1 DEF Doing, Due
  <2> QED
    BY <1>4, <2>2
<1>13. Doing(to)'
  <2>1. job.req.kind = "voice" => VoiceDoing(to)'
    BY <1>1, <1>4 DEF Doing, VoiceDoing
  <2>2. job.req.kind = "make" => MakeDoing(to)'
    BY <1>1, <1>4 DEF Doing, MakeDoing
  <2>3. job.req.kind = "dial" => DialDoing(to)'
    BY <1>1, <1>4, <1>7, <1>9 DEF Doing, DialDoing
  <2>4. job.req.kind = "complete" => CompleteDoing(to)'
    BY <1>1, <1>4, <1>7, <1>10 DEF Doing, CompleteDoing
  <2> QED
    BY <1>4, <1>12, <2>1, <2>2, <2>3, <2>4 DEF Doing
<1>14. /\ to.req = jobs[h].req /\ to.call = jobs[h].call
       /\ jobs[h].req.kind \in {"voice", "make", "dial", "complete"}
  BY <1>0, <1>2, <1>4
<1> QED
  BY <1>1, <1>4, <1>5, <1>6, <1>11, <1>13, <1>14, StoreOrder

\* An answer reaches Twilio.
LEMMA ReplyOrder ==
  ASSUME TypeOK, OneInv, OrderInv, Orderly, NEW h \in Slots, Reply(h)
  PROVE  OrderInv'
<1>0. /\ twilio \in [Calls -> Line] /\ mail \in [Calls -> SUBSET Request]
  BY DEF TypeOK, Line
<1>1. PICK c \in Calls :
        /\ jobs[h].pc = "reply" /\ twilio[c].slot = h /\ Set(h, IdleJob)
        /\ UNCHANGED <<redis, rows, present>>
        /\ \/ /\ jobs[h].ans \in {"hangup", "goodbye"}
              /\ Ended(c) /\ Post(c, Req("status", "completed")) /\ UNCHANGED legs
           \/ /\ jobs[h].ans = "gather" /\ UNCHANGED <<mail, legs>>
              /\ twilio' = [twilio EXCEPT ![c].phase = "gather", ![c].slot = NoSlot]
           \/ /\ jobs[h].ans = "redirect" /\ UNCHANGED <<mail, legs>>
              /\ Fetch(c, Req("dial", ""))
           \/ /\ jobs[h].ans = "dial" /\ UNCHANGED mail
              /\ twilio' = [twilio EXCEPT ![c] =
                              [phase |-> "dialing", slot |-> NoSlot,
                               req |-> LegReq("completed", Len(legs) + 1, TRUE)]]
              /\ legs' = Append(legs, [call |-> c, index |-> jobs[h].to])
  BY DEF Reply, server
<1>2. PICK job : job = jobs[h]
  OBVIOUS
<1>3. /\ twilio[c].phase = "webhook" /\ job.call = c /\ job.req = twilio[c].req
      /\ job.req.kind \in {"voice", "make", "dial", "complete"}
  BY <1>1, <1>2, ConstantsOK DEF OneInv, Wired
<1>4. Doing(job)
  BY <1>2 DEF OrderInv
<1>5. CASE jobs[h].ans \in {"hangup", "goodbye"}
  <2>1. Ended(c) /\ Post(c, Req("status", "completed")) /\ UNCHANGED legs
    BY <1>1, <1>5
  <2>2. /\ \A d \in Calls : d # c => twilio'[d] = twilio[d]
        /\ twilio'[c].phase = "ended"
    BY <1>0, <2>1 DEF Ended, Line
  <2>3. \A d \in Calls : Reports(d)' = Reports(d)
    <3>1. Req("status", "completed").kind = "status"
      BY DEF Req
    <3> QED
      BY <1>0, <2>1, <3>1 DEF Post, Reports
  <2>4. PICK req : twilio'[c].req = req
    OBVIOUS
  <2> QED
    BY <1>1, <2>1, <2>2, <2>3, <2>4, AnsweredOrder
<1>6. CASE jobs[h].ans = "gather"
  <2>1. /\ twilio' = [twilio EXCEPT ![c].phase = "gather", ![c].slot = NoSlot]
        /\ UNCHANGED <<mail, legs>>
    BY <1>1, <1>6
  <2>2. /\ \A d \in Calls : d # c => twilio'[d] = twilio[d]
        /\ twilio'[c].phase = "gather"
    BY <1>0, <2>1 DEF Line
  <2>3. \A d \in Calls : Reports(d)' = Reports(d)
    BY <2>1 DEF Reports
  <2>4. Undialed(c)
    BY <1>2, <1>3, <1>4, <1>6 DEF Doing, Due, DialDoing, CompleteDoing
  <2>5. PICK req : twilio'[c].req = req
    OBVIOUS
  <2> QED
    BY <1>1, <2>1, <2>2, <2>3, <2>4, <2>5, AnsweredOrder
<1>7. CASE jobs[h].ans = "redirect"
  <2>1. Fetch(c, Req("dial", "")) /\ UNCHANGED <<mail, legs>>
    BY <1>1, <1>7
  <2>2. PICK req : req = Req("dial", "")
    OBVIOUS
  <2>3. /\ \A d \in Calls : d # c => twilio'[d] = twilio[d]
        /\ twilio'[c].phase = "webhook" /\ twilio'[c].req = req
    BY <1>0, <2>1, <2>2 DEF Fetch
  <2>4. \A d \in Calls : Reports(d)' = Reports(d)
    BY <2>1 DEF Reports
  <2>5. redis # NoState => Ready(redis) \/ Recorded(redis)
    <3>1. CASE job.req.kind \in {"voice", "make"}
      <4>1. Undialed(c)
        BY <1>3, <1>4, <3>1 DEF Doing, Due
      <4>2. CASE c \in In
        <5>1. legs = <<>>
          BY <4>1, <4>2, OneActive, NoLegs
        <5> QED
          BY <5>1 DEF OrderInv, Dialed
      <4>3. CASE c \notin In
        <5>1. ~Admitted(job)
          BY <1>2, <1>3, <4>3 DEF In
        <5> QED
          BY <1>1, <1>2, <1>7, <3>1, <5>1 DEF Admitted
      <4> QED
        BY <4>2, <4>3
    <3>2. CASE job.req.kind = "dial"
      BY <1>4, <3>2 DEF Doing, Due
    <3>3. CASE job.req.kind = "complete"
      BY <1>1, <1>2, <1>4, <1>7, <3>3 DEF Doing, CompleteDoing
    <3> QED
      BY <1>3, <3>1, <3>2, <3>3
  <2>6. Due(req, c)
    BY <2>2, <2>5 DEF Due, Req
  <2> QED
    BY <1>1, <2>1, <2>3, <2>4, <2>6, AnsweredOrder
<1>8. CASE jobs[h].ans = "dial"
  <2>1. /\ twilio' = [twilio EXCEPT ![c] =
                        [phase |-> "dialing", slot |-> NoSlot,
                         req |-> LegReq("completed", Len(legs) + 1, TRUE)]]
        /\ legs' = Append(legs, [call |-> c, index |-> jobs[h].to]) /\ UNCHANGED mail
    BY <1>1, <1>8
  <2>2. /\ \A d \in Calls : d # c => twilio'[d] = twilio[d]
        /\ twilio'[c].phase = "dialing" /\ twilio'[c].req.leg = Len(legs) + 1
    BY <1>0, <2>1 DEF LegReq
  <2>3. jobs[h].req.kind = "dial"
    BY <1>2, <1>3, <1>4, <1>8 DEF Doing, VoiceDoing, MakeDoing, CompleteDoing
  <2> QED
    BY <1>1, <1>8, <2>1, <2>2, <2>3, DialOrder
<1> QED
  BY <1>1, <1>5, <1>6, <1>7, <1>8

\* An orderly session was orderly all along.
LEMMA OrderlyBefore ==
  ASSUME TypeOK, [Next]_vars, Orderly'
  PROVE  Orderly
<1>0. spent \in [faults: Nat, late: Nat, skips: Nat, deletes: Nat, lulls: Nat]
  BY DEF TypeOK
<1>1. SUFFICES spent' = spent \/ \E b \in {"faults", "late", "skips", "deletes", "lulls"} : Use(b)
  <2>1. CASE spent' = spent
    BY <2>1 DEF Orderly
  <2>2. ASSUME NEW b \in {"faults", "late", "skips", "deletes", "lulls"}, Use(b)
        PROVE  Orderly
    BY <1>0, <2>2 DEF Orderly, Use
  <2> QED
    BY <1>1, <2>1, <2>2
<1>2. CASE UNCHANGED vars
  BY <1>2 DEF vars
<1>3. ASSUME NEW h \in Slots, Run(h) PROVE spent' = spent
  BY <1>3 DEF Run, RejectUnbound, VoiceApp, VoiceLoad, VoiceClaim, VoiceHolder, VoiceAdmit,
    MakeCalls, DialLoad, DialTarget, CallComplete, CompleteLoad, CompleteDedupe,
    CompleteInsert, CompleteFinish, StatusTally, StatusClose, SkipLoad, SaveState,
    Discard, Reply, Loads, Quiet
<1>4. ASSUME NEW h \in Slots, Lose(h) \/ RedisError(h) PROVE Use("faults")
  BY <1>4 DEF Lose, RedisError
<1>5. ASSUME NEW c \in Calls, Twilio(c) PROVE spent' = spent \/ Use("late")
  BY <1>5 DEF Twilio, AnswerCall, NoAnswer, Gathered, LegEnds, HangUp, Deliver, TimeOut,
    DeliverMail
<1>6. CASE CreateCallReturns \/ PressSkip \/ TargetDeleted \/ Lull \/ Expire
  BY <1>6 DEF CreateCallReturns, PressSkip, TargetDeleted, Lull, Expire, Quiet
<1> QED
  BY <1>2, <1>3, <1>4, <1>5, <1>6 DEF Next

\* Every step of a job.
LEMMA RunOrder ==
  ASSUME TypeOK, OneInv, OrderInv, Orderly, NEW h \in Slots, Run(h)
  PROVE  OrderInv'
<1>0. PICK job : job = jobs[h]
  OBVIOUS
<1>1. job \in Job /\ Doing(job)
  BY <1>0 DEF TypeOK, OrderInv
<1>2. CASE RejectUnbound(h)
  <2>1. Set(h, Answer(job, "hangup")) /\ UNCHANGED <<redis, rows, present, legs, twilio, mail>>
    BY <1>0, <1>2 DEF RejectUnbound, server
  <2>2. PICK to : to = Answer(job, "hangup")
    OBVIOUS
  <2>3. to.req = job.req /\ to.call = job.call /\ Doing(to)
    BY <1>1, <2>2, AnswerDoing
  <2> QED
    BY <1>0, <2>1, <2>2, <2>3, MoveOrder
<1>3. CASE StatusTally(h) \/ StatusClose(h) \/ Discard(h)
  <2>0. UNCHANGED <<redis, rows, present, legs, twilio, mail>>
    BY <1>3 DEF StatusTally, StatusClose, Discard, Quiet, server
  <2>1. \/ Set(h, IdleJob)
        \/ /\ job.req.kind = "status"
           /\ \E pc \in {"close", "abandon"} : Set(h, [job EXCEPT !.pc = pc])
    <3>1. CASE StatusTally(h)
      <4>1. PICK pc \in {"close", "abandon"} :
              pc = IF session.sid = jobs[h].call /\ rows # {} THEN "close" ELSE "abandon"
        OBVIOUS
      <4>2. Set(h, [job EXCEPT !.pc = pc]) /\ job.req.kind = "status"
        BY <1>0, <3>1, <4>1 DEF StatusTally, At
      <4> QED
        BY <4>2
    <3>2. CASE StatusClose(h) \/ Discard(h)
      BY <3>2 DEF StatusClose, Discard
    <3> QED
      BY <1>3, <3>1, <3>2
  <2>2. PICK to : Set(h, to) /\ to.req.kind \in {"skip", "status"}
    <3>1. CASE Set(h, IdleJob)
      <4>1. IdleJob.req.kind = "skip"
        BY DEF IdleJob, NewJob, Req
      <4> QED
        BY <3>1, <4>1
    <3>2. ASSUME NEW pc \in {"close", "abandon"}, Set(h, [job EXCEPT !.pc = pc]),
                 job.req.kind = "status"
          PROVE  \E to : Set(h, to) /\ to.req.kind \in {"skip", "status"}
      <4>1. [job EXCEPT !.pc = pc].req = job.req
        BY <1>1 DEF Job
      <4> QED
        BY <3>2, <4>1
    <3> QED
      BY <2>1, <3>1, <3>2
  <2>3. Doing(to)
    BY <2>2 DEF Doing, Due
  <2> QED
    BY <2>0, <2>2, <2>3, MoveOrder
<1>4. ~SkipLoad(h)
  BY DEF SkipLoad, Loads, At, OneInv, Single, Orderly, Idle
<1> QED
  BY <1>2, <1>3, <1>4, VoiceOrder, MakeOrder, DialTargetOrder, CompleteOrder, InsertOrder,
     SaveOrder, ReplyOrder
  DEF Run, CallComplete

\* The tail of create_call, and time; nothing is pressed or deleted.
LEMMA OutsideOrder ==
  ASSUME TypeOK, OneInv, OrderInv, Orderly',
         CreateCallReturns \/ PressSkip \/ TargetDeleted \/ Lull \/ Expire
  PROVE  OrderInv'
<1>0. spent \in [faults: Nat, late: Nat, skips: Nat, deletes: Nat, lulls: Nat]
  BY DEF TypeOK
<1>1. ~Use("skips") /\ ~Use("deletes")
  BY <1>0 DEF Use, Orderly
<1>2. UNCHANGED <<rows, present, legs, twilio, mail, jobs>> /\ (redis' = redis \/ redis' = NoState)
  BY <1>1 DEF CreateCallReturns, PressSkip, TargetDeleted, Lull, Expire, Quiet, server
<1>3. \A g \in Slots, c \in Calls : Serves(g, c)' = Serves(g, c)
  BY <1>2 DEF Serves
<1>4. \A c \in Calls : Reports(c)' = Reports(c)
  BY <1>2 DEF Reports
<1>5. \A c \in Calls : Alone(c)'
  BY <1>2, <1>3, <1>4 DEF OrderInv, Alone
<1>6. ASSUME NEW CONSTANT req, NEW CONSTANT c, Due(req, c) PROVE Due(req, c)'
  <2>1. CASE redis' = redis
    BY <1>2, <1>6, <2>1, DueKept
  <2>2. CASE redis' = NoState
    BY <1>2, <1>6, <2>2 DEF Due, Undialed
  <2> QED
    BY <1>2, <2>1, <2>2
<1>7. ASSUME NEW CONSTANT job, Doing(job) PROVE Doing(job)'
  <2>1. CASE redis' = redis
    BY <1>2, <1>7, <2>1, DoingKept
  <2>2. CASE redis' = NoState
    <3>1. Due(job.req, job.call)'
      BY <1>6, <1>7 DEF Doing
    <3>2. VoiceDoing(job) => VoiceDoing(job)'
      BY DEF VoiceDoing, Unworked
    <3>3. MakeDoing(job) => MakeDoing(job)'
      BY DEF MakeDoing, Unworked
    <3>4. DialDoing(job) => DialDoing(job)'
      BY <1>2, <2>2 DEF DialDoing, Ready, Recorded, LoggedTo, Stored
    <3>5. CompleteDoing(job) => CompleteDoing(job)'
      BY <1>2, <2>2 DEF CompleteDoing, Ready, Dialed, LoggedTo, Stored
    <3> QED
      BY <1>7, <3>1, <3>2, <3>3, <3>4, <3>5 DEF Doing
  <2> QED
    BY <1>2, <2>1, <2>2
<1>8. \A g \in Slots : Doing(jobs[g])'
  <2> SUFFICES ASSUME NEW g \in Slots PROVE Doing(jobs[g])'
    OBVIOUS
  <2>1. PICK job : job = jobs[g]
    OBVIOUS
  <2>2. Doing(job)' /\ jobs'[g] = job
    BY <1>2, <1>7, <2>1 DEF OrderInv
  <2> QED
    BY <2>2
<1>9. \A c \in Calls : Waits(c)'
  <2> SUFFICES ASSUME NEW c \in Calls PROVE Waits(c)'
    OBVIOUS
  <2>1. Waits(c)
    BY DEF OrderInv
  <2>2. CASE redis' = redis
    BY <1>2, <1>4, <2>1, <2>2, WaitsKept
  <2>3. CASE redis' = NoState
    <3>1. PICK r : r = twilio[c].req
      OBVIOUS
    <3>2. twilio[c].phase = "webhook" => Due(r, c)'
      BY <1>6, <2>1, <3>1 DEF Waits
    <3>3. \A m \in Reports(c) : Due(m, c)'
      BY <1>6, <2>1 DEF Waits
    <3>4. Undialed(c)' = Undialed(c)
      BY <1>2 DEF Undialed
    <3> QED
      BY <1>2, <1>4, <2>1, <2>3, <3>1, <3>2, <3>3, <3>4 DEF Waits
  <2> QED
    BY <1>2, <2>2, <2>3
<1>10. Numbered' /\ RowsOrderly'
  BY <1>2 DEF OrderInv, Numbered, RowsOrderly
<1>11. redis' # NoState => Ready(redis)' \/ Recorded(redis)' \/ Dialed(redis)'
  BY <1>2 DEF OrderInv, Ready, Recorded, Dialed, LoggedTo
<1> QED
  BY <1>5, <1>8, <1>9, <1>10, <1>11 DEF OrderInv

\* In the beginning nothing was dialed and nothing logged.
LEMMA OrderStarts == Init => OrderInv
<1> SUFFICES ASSUME Init PROVE OrderInv
  OBVIOUS
<1>0. TypeOK
  BY InitType
<1>1. /\ redis = FreshState /\ rows = {} /\ present = 0 .. NumTargets - 1 /\ legs = <<>>
      /\ \A h \in Slots : jobs[h] = IdleJob
      /\ \A c \in Calls : twilio[c].phase = "new" /\ mail[c] = {}
  BY DEF Init
<1>2. IdleJob.req.kind = "skip"
  BY DEF IdleJob, NewJob, Req
<1>3. Len(legs) = 0 /\ DOMAIN legs = {}
  BY <1>0, <1>1, NoLegs
<1>4. Numbered /\ RowsOrderly
  BY <1>1, <1>3, ConstantsOK DEF Numbered, RowsOrderly
<1>5. Ready(redis)
  <2>1. Len(legs) - 1 = -1 /\ 0 .. Len(legs) - 1 = {} /\ LoggedTo(Len(legs))
    BY <1>3 DEF LoggedTo
  <2> QED
    BY <1>1, <1>3, <2>1 DEF Ready, FreshState
<1>6. \A h \in Slots : Doing(jobs[h])
  BY <1>1, <1>2 DEF Doing, Due
<1>7. \A c \in Calls : Reports(c) = {} /\ \A h \in Slots : ~Serves(h, c)
  BY <1>1, <1>2 DEF Reports, Serves
<1>8. \A c \in Calls : Alone(c) /\ Waits(c)
  BY <1>1, <1>3, <1>7 DEF Alone, Waits, Undialed
<1> QED
  BY <1>4, <1>5, <1>6, <1>8 DEF OrderInv

\* As long as Twilio re-sends nothing whose first attempt still runs, no skip is
\* pressed and no target deleted, the document, the rows, the dials and the jobs
\* keep step -- through hangups, lost jobs, Redis errors, expired keys and any
\* number of calls that try to get in.
THEOREM OrderInductive == Spec => [](Orderly => OrderInv)
<1>1. TypeOK /\ OneInv /\ (Orderly => OrderInv) /\ [Next]_vars => (Orderly => OrderInv)'
  <2> SUFFICES ASSUME TypeOK, OneInv, Orderly => OrderInv, [Next]_vars, Orderly'
               PROVE  OrderInv'
    OBVIOUS
  <2>0. Orderly /\ OrderInv
    BY OrderlyBefore
  <2>1. CASE UNCHANGED vars
    <3>1. CASE Slots = {}
      <4>1. \A c \in Calls : Reports(c)' = Reports(c) /\ Alone(c)'
        BY <2>0, <2>1, <3>1 DEF vars, OrderInv, Reports, Alone
      <4>2. \A c \in Calls : Waits(c)'
        BY <2>0, <2>1, <4>1, WaitsKept DEF vars, OrderInv
      <4>3. Numbered' /\ RowsOrderly'
        BY <2>0, <2>1 DEF vars, OrderInv, Numbered, RowsOrderly
      <4>4. redis' # NoState => Ready(redis)' \/ Recorded(redis)' \/ Dialed(redis)'
        BY <2>0, <2>1 DEF vars, OrderInv, Ready, Recorded, Dialed, LoggedTo
      <4> QED
        BY <3>1, <4>1, <4>2, <4>3, <4>4 DEF OrderInv
    <3>2. ASSUME NEW h \in Slots PROVE OrderInv'
      <4>1. PICK job : job = jobs[h]
        OBVIOUS
      <4>2. Set(h, job)
        BY <2>1, <4>1 DEF vars, Set, TypeOK
      <4>3. UNCHANGED <<redis, rows, present, legs, twilio, mail>>
        BY <2>1 DEF vars
      <4>4. Doing(job)
        BY <2>0, <4>1 DEF OrderInv
      <4> QED
        BY <2>0, <4>1, <4>2, <4>3, <4>4, MoveOrder
    <3> QED
      BY <3>1, <3>2
  <2>2. ASSUME NEW h \in Slots, Run(h) \/ Lose(h) \/ RedisError(h)
        PROVE  OrderInv'
    BY <2>0, <2>2, RunOrder, FaultOrder
  <2>3. ASSUME NEW c \in Calls, Twilio(c) PROVE OrderInv'
    BY <2>0, <2>3, PhaseOrder, DeliverOrder DEF Twilio
  <2>4. CASE CreateCallReturns \/ PressSkip \/ TargetDeleted \/ Lull \/ Expire
    BY <2>0, <2>4, OutsideOrder
  <2> QED
    BY <2>1, <2>2, <2>3, <2>4 DEF Next
<1>2. Init => (Orderly => OrderInv)
  BY OrderStarts
<1> QED
  BY <1>1, <1>2, TypeCorrect, OneInductive, PTL DEF Spec

\* A leg is logged at most once, whichever of its callbacks, retries and keys
\* gets there (call_complete: "a repeat never writes a second Call row").
THEOREM OneRowPerLegHolds == Spec => [](Orderly => OneRowPerLeg)
<1>1. (Orderly => OrderInv) => (Orderly => OneRowPerLeg)
  BY DEF OrderInv, RowsOrderly, OneRowPerLeg
<1> QED
  BY <1>1, OrderInductive, PTL

\* A row names the target its leg really dialed, although call-complete takes it
\* from the document and not from what Twilio reports.
THEOREM RowNamesDialedTargetHolds == Spec => [](Orderly => RowNamesDialedTarget)
<1>1. (Orderly => OrderInv) => (Orderly => RowNamesDialedTarget)
  BY DEF OrderInv, RowsOrderly, Numbered, RowNamesDialedTarget
<1> QED
  BY <1>1, OrderInductive, PTL

\* No target is dialed a second time: a lost answer, a retry or a repeat of
\* call-complete never sends the supporter back in the list.
THEOREM NeverRedialsHolds == Spec => [](Orderly => NeverRedials)
<1>1. TypeOK /\ (Orderly => OrderInv) => (Orderly => NeverRedials)
  <2> SUFFICES ASSUME TypeOK, OrderInv, NEW j \in DOMAIN legs, NEW k \in DOMAIN legs,
                      legs[j].index = legs[k].index
               PROVE  j = k
    BY DEF NeverRedials
  <2>1. j \in Nat /\ k \in Nat
    BY NoLegs
  <2>2. legs[j].index = j - 1 /\ legs[k].index = k - 1
    BY DEF OrderInv, Numbered
  <2>3. j - 1 = k - 1
    BY <2>2
  <2> QED
    BY <2>1, <2>3
<1> QED
  BY <1>1, OrderInductive, TypeCorrect, PTL

\* A leg the document counts as completed has its row: the row is committed
\* before the advanced index is stored, and a job that dies between is repeated.
THEOREM CompletedLegsLoggedHolds == Spec => [](Orderly => CompletedLegsLogged)
<1>1. TypeOK /\ (Orderly => OrderInv) => (Orderly => CompletedLegsLogged)
  <2> SUFFICES ASSUME TypeOK, OrderInv, redis # NoState, NEW i \in redis.done
               PROVE  i \in {legs[r.leg].index : r \in rows}
    BY DEF CompletedLegsLogged
  <2>1. PICK n \in Nat : n = Len(legs) /\ DOMAIN legs = 1..n
    BY NoLegs
  <2>2. i \in Nat /\ i + 1 \in 1..n /\ \E r \in rows : r.leg = i + 1
    <3>1. CASE Ready(redis) \/ Recorded(redis)
      <4>1. i \in 0 .. n - 1 /\ LoggedTo(n)
        BY <2>1, <3>1 DEF Ready, Recorded
      <4>2. i \in Nat /\ i + 1 \in 1..n
        BY <4>1
      <4> QED
        BY <4>1, <4>2 DEF LoggedTo
    <3>2. CASE Dialed(redis)
      <4>1. i \in 0 .. n - 2 /\ LoggedTo(n - 1)
        BY <2>1, <3>2 DEF Dialed
      <4>2. i \in Nat /\ i + 1 \in 1..n - 1 /\ i + 1 \in 1..n
        BY <4>1
      <4> QED
        BY <4>1, <4>2 DEF LoggedTo
    <3> QED
      BY <3>1, <3>2 DEF OrderInv
  <2>3. legs[i + 1].index = i
    BY <2>1, <2>2 DEF OrderInv, Numbered
  <2> QED
    BY <2>2, <2>3
<1> QED
  BY <1>1, OrderInductive, TypeCorrect, PTL
-----------------------------------------------------------------------------
(* 5. How many targets a session dials.  Whatever a stale document puts back  *)
(* costs one round of the list, since each repeat and each skip stores one.   *)
(* The call in the session may dial as many more targets as what it works     *)
(* from leaves; nothing else dials.                                           *)

\* A job that may still store a document although nobody waits for it: the first
\* attempt of a request that was re-sent, or a skip.
Unsaved(job) ==
  job.pc \in {"load", "claim", "holder", "save", "target", "dedupe", "insert"}
Stray(h) ==
  /\ Unsaved(jobs[h])
  /\ \/ jobs[h].req.kind = "skip"
     \/ /\ twilio[jobs[h].call].phase # "ended"
        /\ twilio[jobs[h].call].slot # h
Strays == {h \in Slots : Stray(h)}

\* The rounds that were paid for, the last by those that have stored nothing yet;
\* n more dials fit in them.
Rounds == 1 + spent.late + spent.skips - Cardinality(Strays)
Fits(n) == Len(legs) + n <= NumTargets * Rounds

\* The dials that a document leaves, and those it leaves once the leg that rings
\* is reported: the report of a leg it does not show as dialed dials no more,
\* unless an earlier one was.
Left(st) == NumTargets - st.idx
After(st) == IF st.dialed # None /\ st.dialed < st.idx THEN Left(st) ELSE Left(st) - 1

\* Room for what may follow a request to dial, and one that reports a leg; and for
\* what the job that serves it may do.
DialReady == redis # NoState => Fits(Left(redis))
DialRoom(job) ==
  /\ job.pc = "target" =>
       /\ job.st.idx < NumTargets /\ Fits(Left(job.st))
       /\ redis # NoState => redis = job.st \/ Fits(NumTargets)
  /\ job.pc = "save" =>
       /\ Fits(Left(job.st))
       /\ job.ans = "dial" => job.st.idx < NumTargets /\ job.st.dialed = job.st.idx
  /\ job.pc = "reply" /\ job.ans = "dial" =>
       Fits(1) /\ (redis # NoState => Fits(1 + After(redis)))
  /\ job.ans \in {"none", "hangup", "goodbye", "redirect", "dial"}
ReportReady == redis # NoState => Fits(After(redis))
ReportRoom(job) ==
  /\ job.pc \in {"dedupe", "insert"} =>
       /\ Fits(After(job.st))
       /\ redis # NoState => redis.idx = job.st.idx \/ Fits(NumTargets)
  /\ job.pc = "save" =>
       Fits(IF job.ans = "redirect" THEN Left(job.st) ELSE After(job.st))
  /\ job.pc = "reply" /\ job.ans = "redirect" => DialReady
  /\ job.ans \in {"none", "hangup", "goodbye", "redirect", "finish"}

\* The call that dials.
Dialer(c) ==
  LET line == twilio[c] IN
  /\ Fits(0)
  /\ line.phase \in {"webhook", "dialing", "ended"}
  /\ line.phase = "webhook" => line.req.kind \in {"dial", "complete"}
  /\ line.phase = "webhook" /\ line.req.kind = "dial" =>
       DialReady /\ (line.slot # NoSlot => DialRoom(jobs[line.slot]))
  /\ line.phase = "webhook" /\ line.req.kind = "complete" =>
       ReportReady /\ (line.slot # NoSlot => ReportRoom(jobs[line.slot]))
  /\ line.phase = "dialing" => ReportReady

Counted == IsFiniteSet(Strays) /\ Cardinality(Strays) <= spent.late + spent.skips
\* A report that nobody waits for is of a call that is over.
Reported ==
  \A c \in Calls : \A m \in mail[c] : m.kind = "complete" => twilio[c].phase = "ended"
OneCall == spent.skips = 0 \/ spent.lulls = 0
FewInv == Counted /\ Reported /\ (OneCall /\ legs # <<>> => Dialer(legs[1].call))

\* More rounds, more room.
LEMMA RoundsLeft ==
  ASSUME NEW S, IsFiniteSet(S), NEW l \in Nat, NEW s \in Nat, Cardinality(S) <= l + s
  PROVE  /\ 1 + l + s - Cardinality(S) \in Nat \ {0}
         /\ NumTargets * (1 + l + s - Cardinality(S)) \in Nat
<1>1. 1 + l + s - Cardinality(S) \in Nat \ {0}
  BY FS_CardinalityType
<1> QED
  BY <1>1, ConstantsOK

LEMMA RoundsType ==
  ASSUME TypeOK, Counted
  PROVE  Rounds \in Nat \ {0} /\ NumTargets * Rounds \in Nat /\ Len(legs) \in Nat
<1>1. spent.late \in Nat /\ spent.skips \in Nat
  BY DEF TypeOK
<1>2. Rounds \in Nat \ {0} /\ NumTargets * Rounds \in Nat
  BY <1>1, RoundsLeft DEF Counted, Rounds
<1>3. Len(legs) \in Nat
  BY LenProperties DEF TypeOK
<1> QED
  BY <1>2, <1>3

LEMMA RoundsNext ==
  ASSUME TypeOK', Counted'
  PROVE  Rounds' \in Nat \ {0} /\ NumTargets * Rounds' \in Nat
<1>1. spent'.late \in Nat /\ spent'.skips \in Nat
  BY DEF TypeOK
<1> QED
  BY <1>1, RoundsLeft DEF Counted, Rounds

\* Strays that go make room; one that comes is paid for.
LEMMA FewerStrays ==
  ASSUME TypeOK, TypeOK', Counted, Strays' \subseteq Strays,
         spent'.late + spent'.skips >= spent.late + spent.skips
  PROVE  Counted' /\ Rounds' >= Rounds
<1>1. /\ IsFiniteSet(Strays') /\ Cardinality(Strays') <= Cardinality(Strays)
      /\ Cardinality(Strays') \in Nat /\ Cardinality(Strays) \in Nat
  BY FS_Subset, FS_CardinalityType DEF Counted
<1>2. /\ spent.late \in Nat /\ spent.skips \in Nat
      /\ spent'.late \in Nat /\ spent'.skips \in Nat
  BY DEF TypeOK
<1> QED
  BY <1>1, <1>2 DEF Counted, Rounds

LEMMA StrayGoes ==
  ASSUME TypeOK, TypeOK', Counted, NEW h \in Strays, Strays' \subseteq Strays \ {h},
         spent' = spent
  PROVE  Counted' /\ Rounds' >= Rounds + 1
<1>1. /\ IsFiniteSet(Strays \ {h}) /\ Cardinality(Strays \ {h}) = Cardinality(Strays) - 1
      /\ Cardinality(Strays) \in Nat
  BY FS_RemoveElement, FS_CardinalityType DEF Counted
<1>2. /\ IsFiniteSet(Strays') /\ Cardinality(Strays') <= Cardinality(Strays \ {h})
      /\ Cardinality(Strays') \in Nat
  BY <1>1, FS_Subset, FS_CardinalityType
<1>3. spent.late \in Nat /\ spent.skips \in Nat
  BY DEF TypeOK
<1> QED
  BY <1>1, <1>2, <1>3 DEF Counted, Rounds

LEMMA StrayComes ==
  ASSUME TypeOK, TypeOK', Counted, NEW h, Strays' \subseteq Strays \cup {h},
         spent'.late + spent'.skips = spent.late + spent.skips + 1
  PROVE  Counted' /\ Rounds' >= Rounds
<1>1. /\ IsFiniteSet(Strays \cup {h})
      /\ Cardinality(Strays \cup {h}) <= Cardinality(Strays) + 1
      /\ Cardinality(Strays) \in Nat
  BY FS_AddElement, FS_CardinalityType DEF Counted
<1>2. /\ IsFiniteSet(Strays') /\ Cardinality(Strays') <= Cardinality(Strays \cup {h})
      /\ Cardinality(Strays') \in Nat /\ Cardinality(Strays \cup {h}) \in Nat
  BY <1>1, FS_Subset, FS_CardinalityType
<1>3. /\ spent.late \in Nat /\ spent.skips \in Nat
      /\ spent'.late \in Nat /\ spent'.skips \in Nat
  BY DEF TypeOK
<1> QED
  BY <1>1, <1>2, <1>3 DEF Counted, Rounds

LEMMA RoundsGrow ==
  ASSUME TypeOK, TypeOK', Counted, Counted', Rounds' >= Rounds
  PROVE  NumTargets * Rounds' >= NumTargets * Rounds
<1>1. Rounds \in Nat /\ Rounds' \in Nat
  BY RoundsType, RoundsNext
<1>2. \A k, a, b \in Nat : a >= b => k * a >= k * b
  OBVIOUS
<1> QED
  BY <1>1, <1>2, ConstantsOK

LEMMA FitsKept ==
  ASSUME TypeOK, TypeOK', Counted, Counted', Rounds' >= Rounds, Len(legs') = Len(legs)
  PROVE  \A n \in Int : Fits(n) => Fits(n)'
<1>1. /\ Rounds \in Nat /\ Rounds' \in Nat /\ Len(legs) \in Nat
      /\ NumTargets * Rounds \in Nat /\ NumTargets * Rounds' \in Nat
  <2>1. Rounds \in Nat /\ Len(legs) \in Nat /\ NumTargets * Rounds \in Nat
    BY RoundsType
  <2>2. Rounds' \in Nat /\ NumTargets * Rounds' \in Nat
    BY RoundsNext
  <2> QED
    BY <2>1, <2>2
<1>2. NumTargets * Rounds' >= NumTargets * Rounds
  BY RoundsGrow
<1> QED
  BY <1>1, <1>2 DEF Fits

LEMMA FitsMore ==
  ASSUME TypeOK, TypeOK', Counted, Counted', Rounds' >= Rounds + 1,
         Len(legs') = Len(legs), Fits(0)
  PROVE  \A n \in Int : n <= NumTargets => Fits(n)'
<1>1. Rounds \in Nat /\ Len(legs) \in Nat /\ NumTargets * Rounds \in Nat
  BY RoundsType
<1>2. Rounds' \in Nat /\ NumTargets * Rounds' \in Nat
  BY RoundsNext
<1>3. NumTargets * Rounds' >= NumTargets * Rounds + NumTargets
  <2>1. \A k, a, b \in Nat : a >= b + 1 => k * a >= k * b + k
    OBVIOUS
  <2> QED
    BY <1>1, <1>2, <2>1, ConstantsOK
<1>4. Len(legs) <= NumTargets * Rounds
  BY <1>1 DEF Fits
<1> SUFFICES ASSUME NEW n \in Int, n <= NumTargets
             PROVE  Len(legs') + n <= NumTargets * Rounds'
  BY DEF Fits
<1>5. \A l, m, p, q, k \in Int : q >= p + k /\ l <= p /\ m <= k => l + m <= q
  OBVIOUS
<1>6. /\ NumTargets \in Int /\ Len(legs) \in Int /\ Len(legs') = Len(legs)
      /\ NumTargets * Rounds \in Int /\ NumTargets * Rounds' \in Int
  BY <1>1, <1>2, ConstantsOK
<1> QED
  BY <1>3, <1>4, <1>5, <1>6, Zenon

\* The first round is never used up before the first dial.
LEMMA FirstFitsNext ==
  ASSUME TypeOK', Counted', Len(legs') = 1
  PROVE  \A n \in Int : n <= NumTargets - 1 => Fits(n)'
<1>1. Rounds' \in Nat \ {0} /\ NumTargets * Rounds' \in Nat
  BY RoundsNext
<1>2. NumTargets * Rounds' >= NumTargets
  <2>1. \A k, a \in Nat : a >= 1 => k * a >= k
    OBVIOUS
  <2>2. Rounds' \in Nat /\ Rounds' >= 1 /\ NumTargets \in Nat
    BY <1>1, ConstantsOK
  <2> QED
    BY <2>1, <2>2
<1> SUFFICES ASSUME NEW n \in Int, n <= NumTargets - 1
             PROVE  Len(legs') + n <= NumTargets * Rounds'
  BY DEF Fits
<1>3. \A m, q, k \in Int : q >= k /\ m <= k - 1 => 1 + m <= q
  OBVIOUS
<1>4. NumTargets \in Int /\ NumTargets * Rounds' \in Int
  BY <1>1, ConstantsOK
<1> QED
  BY <1>2, <1>3, <1>4, Zenon

\* What a document leaves.
LEMMA Leaves ==
  ASSUME NEW st \in State
  PROVE  /\ Left(st) \in Int /\ Left(st) <= NumTargets
         /\ After(st) \in Int /\ After(st) <= Left(st) /\ After(st) <= NumTargets - 1
         /\ Left(st) - 1 <= After(st)
<1>1. st.idx \in Nat /\ st.dialed \in Nat \cup {None}
  BY DEF State
<1>2. NumTargets \in Nat
  BY ConstantsOK
<1>3. CASE st.dialed # None /\ st.dialed < st.idx
  BY <1>1, <1>2, <1>3 DEF Left, After
<1>4. CASE ~(st.dialed # None /\ st.dialed < st.idx)
  <2>1. After(st) = Left(st) - 1
    BY <1>4 DEF After
  <2> QED
    BY <1>1, <1>2, <2>1 DEF Left
<1> QED
  BY <1>3, <1>4

\* Less fits where more did.
LEMMA FitsLess ==
  ASSUME TypeOK, Counted, NEW m \in Int, NEW n \in Int, Fits(m), n <= m
  PROVE  Fits(n)
BY RoundsType DEF Fits

-----------------------------------------------------------------------------
\* Room does not go as long as the document stays and no target is dialed.
LEMMA ReadyKept ==
  ASSUME TypeOK, \A n \in Int : Fits(n) => Fits(n)', redis' = redis
  PROVE  (DialReady => DialReady') /\ (ReportReady => ReportReady')
<1>1. redis # NoState => redis \in State
  BY DEF TypeOK
<1>2. redis # NoState => Left(redis) \in Int /\ After(redis) \in Int
  BY <1>1, Leaves
<1> QED
  BY <1>2 DEF DialReady, ReportReady, Left, After

LEMMA RoomKept ==
  ASSUME TypeOK, \A n \in Int : Fits(n) => Fits(n)', redis' = redis, NEW job \in Job
  PROVE  (DialRoom(job) => DialRoom(job)') /\ (ReportRoom(job) => ReportRoom(job)')
<1>1. job.st \in State
  BY DEF Job
<1>2. redis # NoState => redis \in State
  BY DEF TypeOK
<1>3. redis # NoState => 1 + After(redis) \in Int
  BY <1>2, Leaves
<1>4. Left(job.st) \in Int /\ After(job.st) \in Int /\ NumTargets \in Int
  BY <1>1, Leaves, ConstantsOK
<1>5. DialReady => DialReady'
  BY ReadyKept
<1>6. /\ Fits(Left(job.st)) => Fits(Left(job.st))'
      /\ Fits(After(job.st)) => Fits(After(job.st))'
      /\ Fits(NumTargets) => Fits(NumTargets)'
      /\ Fits(1) => Fits(1)'
  BY <1>4 DEF After, Left
<1>7. redis # NoState => (Fits(1 + After(redis)) => Fits(1 + After(redis))')
  BY <1>3 DEF After, Left
<1> QED
  BY <1>5, <1>6, <1>7 DEF DialRoom, ReportRoom

\* The call that dials keeps its room while its line stays and the job that
\* serves it has the room it needs.
LEMMA DialerKept ==
  ASSUME TypeOK, TypeOK', Counted, Counted', Rounds' >= Rounds,
         redis' = redis, Len(legs') = Len(legs), NEW c \in Calls, twilio'[c] = twilio[c],
         NEW s, s = twilio[c].slot,
         s # NoSlot => /\ twilio[c].req.kind = "dial" /\ DialReady /\ DialRoom(jobs[s])
                            => DialRoom(jobs'[s])
                       /\ twilio[c].req.kind = "complete" /\ ReportReady /\ ReportRoom(jobs[s])
                            => ReportRoom(jobs'[s])
  PROVE  Dialer(c) => Dialer(c)'
<1> SUFFICES ASSUME Dialer(c) PROVE Dialer(c)'
  OBVIOUS
<1> DEFINE line == twilio[c]
<1>1. \A n \in Int : Fits(n) => Fits(n)'
  BY FitsKept
<1>2. Fits(0)' /\ line.phase \in {"webhook", "dialing", "ended"}
  BY <1>1 DEF Dialer
<1>3. s # NoSlot => s \in Slots /\ jobs'[s] \in Job
  BY DEF TypeOK
<1>4. (DialReady => DialReady') /\ (ReportReady => ReportReady')
  BY <1>1, ReadyKept
<1>6. \A job \in Job : /\ DialRoom(job) => DialRoom(job)'
                       /\ ReportRoom(job) => ReportRoom(job)'
  BY <1>1, RoomKept
<1>7. s # NoSlot => /\ DialRoom(jobs'[s]) => DialRoom(jobs[s])'
                    /\ ReportRoom(jobs'[s]) => ReportRoom(jobs[s])'
  BY <1>3, <1>6
<1>8. /\ twilio[c]' = twilio[c]
      /\ line.phase = "webhook" => line.req.kind \in {"dial", "complete"}
  BY DEF Dialer
<1>9. line.phase = "webhook" /\ line.req.kind = "dial" =>
        DialReady' /\ (s # NoSlot => DialRoom(jobs[s])')
  BY <1>4, <1>7 DEF Dialer
<1>10. /\ line.phase = "webhook" /\ line.req.kind = "complete" =>
            ReportReady' /\ (s # NoSlot => ReportRoom(jobs[s])')
       /\ line.phase = "dialing" => ReportReady'
  BY <1>4, <1>7 DEF Dialer
<1> QED
  BY <1>2, <1>8, <1>9, <1>10 DEF Dialer

-----------------------------------------------------------------------------
\* The steps of a job that stores nothing and is not answered.

\* Whoever dialed is the one call that may be in the session.
LEMMA DialerIs ==
  ASSUME TypeOK, OneInv, OneCall, legs # <<>>
  PROVE  /\ legs[1].call \in Calls
         /\ \A k \in DOMAIN legs : legs[k].call = legs[1].call
         /\ In \subseteq {legs[1].call}
         /\ \A h \in Slots : Storing(jobs[h]) => jobs[h].call = legs[1].call
<1>1. PICK o : Only(o)
  BY DEF OneInv, Bound, Single, Sole, OneCall
<1>2. 1 \in DOMAIN legs
  BY NoLegs
<1>3. legs[1].call = o
  BY <1>1, <1>2 DEF Only
<1> QED
  BY <1>1, <1>2, <1>3, LegType DEF Only

LEMMA JobFew ==
  ASSUME TypeOK, TypeOK', OneInv, FewInv, NEW h \in Slots, NEW to, Set(h, to),
         UNCHANGED <<redis, twilio, mail, legs>>, UNCHANGED spent.skips, UNCHANGED spent.lulls,
         spent'.late = spent.late,
         Unsaved(to) => /\ Unsaved(jobs[h])
                        /\ to.req = jobs[h].req /\ to.call = jobs[h].call,
         jobs[h].req.kind = "dial" /\ DialReady /\ DialRoom(jobs[h]) => DialRoom(to),
         jobs[h].req.kind = "complete" /\ ReportReady /\ ReportRoom(jobs[h]) => ReportRoom(to)
  PROVE  FewInv'
<1>1. jobs'[h] = to /\ \A g \in Slots : g # h => jobs'[g] = jobs[g]
  BY Others
<1>2. Strays' \subseteq Strays
  <2> SUFFICES ASSUME NEW g \in Slots, Stray(g)' PROVE Stray(g)
    BY DEF Strays
  <2>1. CASE g = h
    BY <1>1, <2>1 DEF Stray
  <2>2. CASE g # h
    BY <1>1, <2>2 DEF Stray
  <2> QED
    BY <2>1, <2>2
<1>3. Counted' /\ Rounds' >= Rounds
  BY <1>2, FewerStrays DEF FewInv, TypeOK
<1>4. Reported'
  BY DEF FewInv, Reported
<1>5. ASSUME OneCall', legs' # <<>> PROVE Dialer(legs[1].call)'
  <2>1. OneCall /\ legs # <<>> /\ Dialer(legs[1].call)
    BY <1>5 DEF FewInv, OneCall
  <2>2. PICK c \in Calls : c = legs[1].call
    BY <2>1, DialerIs
  <2>3. PICK s : s = twilio[c].slot
    OBVIOUS
  <2>4. s # NoSlot => s \in Slots /\ jobs[s].req = twilio[c].req
    BY <2>2, <2>3 DEF OneInv, Wired, TypeOK
  <2>5. s # NoSlot =>
          /\ twilio[c].req.kind = "dial" /\ DialReady /\ DialRoom(jobs[s]) => DialRoom(jobs'[s])
          /\ twilio[c].req.kind = "complete" /\ ReportReady /\ ReportRoom(jobs[s])
               => ReportRoom(jobs'[s])
    BY <1>1, <2>4
  <2>6. redis' = redis /\ Len(legs') = Len(legs) /\ twilio'[c] = twilio[c]
    OBVIOUS
  <2>7. Dialer(c) => Dialer(c)'
    BY <1>3, <2>3, <2>5, <2>6, DialerKept DEF FewInv
  <2>8. legs'[1].call = c
    BY <2>2
  <2>9. Dialer(c)'
    BY <2>1, <2>2, <2>7
  <2> QED
    BY <2>8, <2>9
<1> QED
  BY <1>3, <1>4, <1>5 DEF FewInv

\* Answers that dial nothing, and jobs that are done, need no room.
LEMMA AnswerRoom ==
  ASSUME NEW job \in Job, NEW verb \in {"hangup", "goodbye"}
  PROVE  DialRoom(Answer(job, verb)) /\ ReportRoom(Answer(job, verb))
<1>1. Answer(job, verb).pc = "reply" /\ Answer(job, verb).ans = verb
  BY DEF Answer, Job
<1> QED
  BY <1>1 DEF DialRoom, ReportRoom

LEMMA IdleRoom == DialRoom(IdleJob) /\ ReportRoom(IdleJob)
<1>1. IdleJob.pc = "idle" /\ IdleJob.ans = "none"
  BY DEF IdleJob, NewJob
<1> QED
  BY <1>1 DEF DialRoom, ReportRoom

\* dial-target dials what its document still leaves, or passes over a target.
LEMMA DialFits ==
  ASSUME TypeOK, Counted, NEW job \in Job, job.pc = "target", DialRoom(job)
  PROVE  /\ DialRoom(Dialing(job))
         /\ \A verb \in {"redirect", "goodbye"} :
              DialRoom(Saving(job, [job.st EXCEPT !.idx = job.st.idx + 1], verb))
<1> DEFINE st == job.st
           passed == [st EXCEPT !.idx = st.idx + 1]
           recorded == [st EXCEPT !.dialed = st.idx]
           dial == [job EXCEPT !.to = st.idx]
<1>1. /\ st \in State /\ st.idx \in Nat /\ st.idx < NumTargets /\ Fits(Left(st))
      /\ redis # NoState => redis = st \/ Fits(NumTargets)
  BY DEF DialRoom, Job, State
<1>2. redis # NoState => redis \in State
  BY DEF TypeOK
<1>3. /\ Left(st) \in Int /\ 1 <= Left(st) /\ 1 \in Int /\ NumTargets \in Int
      /\ redis # NoState => /\ 1 + After(redis) \in Int
                            /\ 1 + After(redis) <= NumTargets
  <2>1. redis # NoState => After(redis) \in Int /\ After(redis) <= NumTargets - 1
    BY <1>2, Leaves
  <2> QED
    BY <1>1, <2>1, ConstantsOK DEF Left
<1>4. ASSUME NEW verb \in {"redirect", "goodbye"} PROVE DialRoom(Saving(job, passed, verb))
  <2>1. /\ Saving(job, passed, verb).pc = "save" /\ Saving(job, passed, verb).ans = verb
        /\ Saving(job, passed, verb).st = passed
    BY DEF Saving, Job
  <2>2. Left(passed) \in Int /\ Left(passed) <= Left(st)
    BY <1>1, ConstantsOK DEF State, Left
  <2>3. Fits(Left(passed))
    BY <1>1, <1>3, <2>2, FitsLess
  <2> HIDE DEF passed, st
  <2> QED
    BY <2>1, <2>3 DEF DialRoom
<1>5. ASSUME st.dialed = st.idx PROVE DialRoom(Dialing(job))
  <2>1. Dialing(job) = Answer(dial, "dial")
    BY <1>5 DEF Dialing
  <2>2. Answer(dial, "dial").pc = "reply" /\ Answer(dial, "dial").ans = "dial"
    BY DEF Answer, Job
  <2>3. Fits(1)
    BY <1>1, <1>3, FitsLess
  <2>4. ASSUME redis # NoState PROVE Fits(1 + After(redis))
    <3>1. CASE Fits(NumTargets)
      BY <1>3, <2>4, <3>1, FitsLess
    <3>2. CASE redis = st
      <4>1. After(st) = Left(st) - 1
        BY <1>1, <1>5 DEF After
      <4>2. 1 + After(redis) = Left(st)
        BY <1>3, <3>2, <4>1
      <4> QED
        BY <1>1, <4>2
    <3> QED
      BY <1>1, <2>4, <3>1, <3>2
  <2> HIDE DEF dial, st
  <2> QED
    BY <2>1, <2>2, <2>3, <2>4 DEF DialRoom
<1>6. ASSUME st.dialed # st.idx PROVE DialRoom(Dialing(job))
  <2>1. Dialing(job) = Saving(dial, recorded, "dial")
    BY <1>6 DEF Dialing
  <2>2. /\ Saving(dial, recorded, "dial").pc = "save"
        /\ Saving(dial, recorded, "dial").ans = "dial"
        /\ Saving(dial, recorded, "dial").st = recorded
    BY DEF Saving, Job
  <2>3. recorded.idx = st.idx /\ recorded.dialed = st.idx /\ Left(recorded) = Left(st)
    BY <1>1 DEF State, Left
  <2> HIDE DEF dial, recorded, st
  <2> QED
    BY <1>1, <2>1, <2>2, <2>3 DEF DialRoom
<1> QED
  BY <1>4, <1>5, <1>6

\* call-complete goes on to dial only what its document leaves after the report.
LEMMA SettleFits ==
  ASSUME TypeOK, Counted, NEW job \in Job, NEW st \in State, NEW dup \in BOOLEAN,
         NEW popped \in Nat \cup {None}, Fits(After(st)),
         redis # NoState => redis.idx = st.idx \/ Fits(NumTargets)
  PROVE  ReportRoom(Settle(job, st, dup, popped))
<1> DEFINE next == IF Advances(st, dup) THEN st.idx + 1 ELSE st.idx
           verb == IF next <= LegIndex(st) THEN "goodbye"
                   ELSE IF next < NumTargets THEN "redirect" ELSE "finish"
           moved == [st EXCEPT !.idx = next, !.done = @ \cup {st.idx}]
<1>1. st.idx \in Nat /\ st.dialed \in Nat \cup {None}
  BY DEF State
<1>2. /\ Left(st) \in Int /\ After(st) \in Int /\ Left(st) - 1 <= After(st)
      /\ NumTargets \in Int /\ After(st) <= Left(st)
  BY Leaves, ConstantsOK
<1>3. verb \in {"goodbye", "redirect", "finish"}
  OBVIOUS
<1>4. CASE Advances(st, dup)
  <2>1. moved \in State /\ Left(moved) = Left(st) - 1
    <3>1. next = st.idx + 1 /\ next \in Nat
      BY <1>1, <1>4
    <3> HIDE DEF next
    <3>2. moved \in State /\ moved.idx = next
      BY <1>1, <3>1 DEF State
    <3> QED
      BY <1>1, <3>1, <3>2, ConstantsOK DEF Left
  <2>2. Settle(job, st, dup, popped) = Saving(job, moved, verb)
    BY <1>4 DEF Settle
  <2>3. /\ Saving(job, moved, verb).pc = "save" /\ Saving(job, moved, verb).ans = verb
        /\ Saving(job, moved, verb).st = moved
    BY DEF Saving, Job
  <2> HIDE DEF moved, verb
  <2>4. Fits(Left(moved))
    BY <1>2, <2>1, FitsLess
  <2>5. After(moved) \in Int /\ After(moved) <= Left(moved) /\ Left(moved) \in Int
    BY <2>1, Leaves
  <2>6. Fits(After(moved))
    BY <2>4, <2>5, FitsLess
  <2> QED
    BY <1>3, <2>2, <2>3, <2>4, <2>6 DEF ReportRoom
<1>5. CASE ~Advances(st, dup)
  <2>1. verb = "redirect" => After(st) = Left(st)
    BY <1>1, <1>5 DEF LegIndex, After
  <2>2. Settle(job, st, dup, popped) \in
          {Saving(job, st, verb), [job EXCEPT !.pc = "finish", !.ans = verb],
           Answer(job, verb)}
    BY <1>5 DEF Settle
  <2> HIDE DEF verb
  <2>3. ReportRoom(Saving(job, st, verb))
    <3>1. /\ Saving(job, st, verb).pc = "save" /\ Saving(job, st, verb).ans = verb
          /\ Saving(job, st, verb).st = st
      BY DEF Saving, Job
    <3> QED
      BY <1>3, <2>1, <3>1 DEF ReportRoom
  <2>4. ReportRoom([job EXCEPT !.pc = "finish", !.ans = verb])
    BY <1>3 DEF ReportRoom, Job
  <2>5. ReportRoom(Answer(job, verb))
    <3>1. Answer(job, verb).pc = "reply" /\ Answer(job, verb).ans = verb
      BY DEF Answer, Job
    <3>2. ASSUME verb = "redirect", redis # NoState PROVE Fits(Left(redis))
      <4>1. redis \in State
        BY <3>2 DEF TypeOK
      <4>2. CASE redis.idx = st.idx
        BY <2>1, <3>2, <4>2 DEF Left
      <4>3. CASE Fits(NumTargets)
        BY <1>2, <4>1, <4>3, Leaves, FitsLess
      <4> QED
        BY <3>2, <4>2, <4>3
    <3> QED
      BY <1>3, <3>1, <3>2 DEF ReportRoom, DialReady
  <2> QED
    BY <2>2, <2>3, <2>4, <2>5
<1> QED
  BY <1>4, <1>5

LEMMA SortedFits ==
  ASSUME TypeOK, Counted, NEW job \in Job, NEW st \in State, NEW dup \in BOOLEAN,
         Fits(After(st)), redis # NoState => redis.idx = st.idx \/ Fits(NumTargets),
         job.ans \in {"none", "hangup", "goodbye", "redirect", "finish"}
  PROVE  ReportRoom(Sorted(job, st, dup))
<1> DEFINE popped == [st EXCEPT !.skip = None]
           to == [job EXCEPT !.pc = "insert", !.st = popped, !.popped = st.skip]
<1>1. /\ popped \in State /\ popped.idx = st.idx /\ st.skip \in Nat \cup {None}
      /\ After(popped) = After(st)
  BY DEF State, After, Left
<1>2. to.pc = "insert" /\ to.st = popped /\ to.ans = job.ans
  BY DEF Job
<1>3. ReportRoom(Settle(job, st, TRUE, None))
  BY SettleFits
<1>4. Sorted(job, st, dup) \in {Settle(job, st, TRUE, None), to,
                               Settle(job, popped, FALSE, st.skip)}
  BY DEF Sorted
<1> HIDE DEF popped, to
<1>5. ReportRoom(Settle(job, popped, FALSE, st.skip))
  BY <1>1, SettleFits
<1>6. ReportRoom(to)
  BY <1>1, <1>2 DEF ReportRoom
<1> QED
  BY <1>3, <1>4, <1>5, <1>6

LEMMA SettleAsks ==
  ASSUME NEW job \in Job, NEW st, NEW dup \in BOOLEAN, NEW popped
  PROVE  /\ Settle(job, st, dup, popped).req = job.req
         /\ Settle(job, st, dup, popped).call = job.call
BY DEF Settle, Saving, Answer, Job

LEMMA SortedAsks ==
  ASSUME NEW job \in Job, NEW st, NEW dup \in BOOLEAN
  PROVE  Sorted(job, st, dup).req = job.req /\ Sorted(job, st, dup).call = job.call
<1> DEFINE popped == [st EXCEPT !.skip = None]
           to == [job EXCEPT !.pc = "insert", !.st = popped, !.popped = st.skip]
<1>1. to.req = job.req /\ to.call = job.call
  BY DEF Job
<1>2. Sorted(job, st, dup) \in {Settle(job, st, TRUE, None), to,
                               Settle(job, popped, FALSE, st.skip)}
  BY DEF Sorted
<1> HIDE DEF to, popped
<1>3. /\ Settle(job, st, TRUE, None).req = job.req
      /\ Settle(job, st, TRUE, None).call = job.call
  BY SettleAsks
<1>4. /\ Settle(job, popped, FALSE, st.skip).req = job.req
      /\ Settle(job, popped, FALSE, st.skip).call = job.call
  BY SettleAsks
<1> QED
  BY <1>1, <1>2, <1>3, <1>4

\* The steps of the handlers, but for the save and the answer.
LEMMA HandlerFew ==
  ASSUME TypeOK, TypeOK', OneInv, FewInv, NEW h \in Slots, Run(h),
         ~SaveState(h), ~Reply(h)
  PROVE  FewInv'
<1> DEFINE job == jobs[h]
<1>0. job \in Job /\ job.st \in State
  BY DEF TypeOK, Job
<1>1. ASSUME NEW to, Set(h, to), redis' = redis, Quiet \/ UNCHANGED <<twilio, mail, legs, spent>>,
             Unsaved(to) => Unsaved(job) /\ to.req = job.req /\ to.call = job.call,
             job.req.kind = "dial" /\ DialReady /\ DialRoom(job) => DialRoom(to),
             job.req.kind = "complete" /\ ReportReady /\ ReportRoom(job) => ReportRoom(to)
      PROVE  FewInv'
  BY <1>1, JobFew DEF Quiet
<1>2. \A verb \in {"hangup", "goodbye"} :
        /\ ~Unsaved(Answer(job, verb))
        /\ DialRoom(Answer(job, verb)) /\ ReportRoom(Answer(job, verb))
  BY <1>0, AnswerRoom DEF Unsaved, Answer, Job
<1>3. ~Unsaved(IdleJob) /\ DialRoom(IdleJob) /\ ReportRoom(IdleJob)
  BY IdleRoom DEF Unsaved, IdleJob, NewJob
<1>4. Counted
  BY DEF FewInv
<1>5. CASE RejectUnbound(h)
  <2>1. Set(h, Answer(job, "hangup")) /\ redis' = redis
    BY <1>5 DEF RejectUnbound, server
  <2> QED
    BY <1>1, <1>2, <1>5, <2>1 DEF RejectUnbound
<1>6. CASE VoiceApp(h) \/ MakeCalls(h)
  <2>1. job.req.kind \in {"voice", "make"} /\ redis' = redis
    BY <1>6 DEF VoiceApp, VoiceLoad, VoiceClaim, VoiceHolder, VoiceAdmit, MakeCalls,
                Loads, At, server
  <2>2. UNCHANGED <<twilio, mail, legs, spent>>
    BY <1>6 DEF VoiceApp, VoiceLoad, VoiceClaim, VoiceHolder, VoiceAdmit, MakeCalls,
                Loads, Quiet
  <2>3. \A st, verb : /\ Saving(job, st, verb).req = job.req
                      /\ Saving(job, st, verb).call = job.call
    BY <1>0 DEF Saving, Job
  <2>4. \A verb : ~Unsaved(Answer(job, verb))
    BY <1>0 DEF Answer, Unsaved, Job
  <2>5. PICK to : /\ Set(h, to)
                  /\ Unsaved(to) => /\ Unsaved(job)
                                    /\ to.req = job.req /\ to.call = job.call
    <3>1. CASE VoiceAdmit(h)
      <4>1. PICK verb : Set(h, Answer(job, verb))
        BY <3>1 DEF VoiceAdmit
      <4> QED
        BY <2>4, <4>1
    <3>2. CASE ~VoiceAdmit(h)
      <4>1. Unsaved(job)
        BY <1>6, <3>2 DEF VoiceApp, VoiceLoad, VoiceClaim, VoiceHolder, MakeCalls, Loads,
                          At, Unsaved
      <4>2. CASE VoiceLoad(h)
        <5> DEFINE to == [job EXCEPT !.pc = "claim", !.st = redis]
        <5>1. Set(h, to) /\ to.req = job.req /\ to.call = job.call
          BY <1>0, <4>2 DEF VoiceLoad, Job
        <5> HIDE DEF to
        <5> QED
          BY <4>1, <5>1
      <4>3. CASE VoiceClaim(h)
        <5> DEFINE lost == [job EXCEPT !.pc = "holder"]
        <5>1. PICK to \in {Claimed(job), lost} : Set(h, to)
          BY <4>3 DEF VoiceClaim
        <5>2. lost.req = job.req /\ lost.call = job.call
          BY <1>0 DEF Job
        <5>3. Claimed(job).req = job.req /\ Claimed(job).call = job.call
          BY <2>3 DEF Claimed
        <5> HIDE DEF lost
        <5> QED
          BY <4>1, <5>1, <5>2, <5>3
      <4>4. CASE VoiceHolder(h)
        <5> DEFINE again == [job EXCEPT !.pc = "claim", !.retried = TRUE]
        <5>1. PICK to \in {Claimed(job), again, Answer(job, "hangup")} : Set(h, to)
          BY <4>4 DEF VoiceHolder
        <5>2. again.req = job.req /\ again.call = job.call
          BY <1>0 DEF Job
        <5>3. Claimed(job).req = job.req /\ Claimed(job).call = job.call
          BY <2>3 DEF Claimed
        <5> HIDE DEF again
        <5> QED
          BY <2>4, <4>1, <5>1, <5>2, <5>3
      <4>5. CASE MakeCalls(h)
        <5>1. CASE job.req.out = "digits"
          <6>1. Set(h, Answer(job, "redirect"))
            BY <4>5, <5>1 DEF MakeCalls
          <6> QED
            BY <2>4, <6>1
        <5>2. CASE job.req.out # "digits"
          <6> DEFINE attempts == redis.attempts + 1
                     st == [redis EXCEPT !.attempts = attempts]
                     verb == IF attempts < MaxGatherAttempts THEN "gather" ELSE "goodbye"
          <6>1. Set(h, Saving(job, st, verb))
            BY <4>5, <5>2 DEF MakeCalls
          <6> HIDE DEF st, verb
          <6> QED
            BY <2>3, <4>1, <6>1
        <5> QED
          BY <5>1, <5>2
      <4> QED
        BY <1>6, <3>2, <4>2, <4>3, <4>4, <4>5 DEF VoiceApp
    <3> QED
      BY <3>1, <3>2
  <2> QED
    BY <1>1, <2>1, <2>2, <2>5
<1>7. CASE DialLoad(h)
  <2> DEFINE to == [job EXCEPT !.pc = "target", !.st = redis]
  <2>1. /\ job.req.kind = "dial" /\ redis' = redis /\ redis # NoState /\ redis \in State
        /\ job.pc = "load" /\ UNCHANGED <<twilio, mail, legs, spent>>
    BY <1>7 DEF DialLoad, Loads, At, Readable, server, TypeOK
  <2>2. CASE redis.idx >= NumTargets
    <3>1. Set(h, Answer(job, "goodbye"))
      BY <1>7, <2>2 DEF DialLoad
    <3> QED
      BY <1>1, <1>2, <2>1, <3>1
  <2>3. CASE ~(redis.idx >= NumTargets)
    <3>1. Set(h, to)
      BY <1>7, <2>3 DEF DialLoad
    <3>2. to.pc = "target" /\ to.st = redis /\ to.ans = job.ans
          /\ to.req = job.req /\ to.call = job.call
      BY <1>0 DEF Job
    <3>3. redis.idx < NumTargets
      BY <2>1, <2>3, ConstantsOK DEF State
    <3> HIDE DEF to
    <3>4. DialReady /\ DialRoom(job) => DialRoom(to)
      BY <2>1, <3>2, <3>3 DEF DialReady, DialRoom
    <3>5. Unsaved(job)
      BY <2>1 DEF Unsaved
    <3> QED
      BY <1>1, <2>1, <3>1, <3>2, <3>4, <3>5
  <2> QED
    BY <2>2, <2>3
<1>8. CASE DialTarget(h)
  <2> DEFINE passed == [job.st EXCEPT !.idx = job.st.idx + 1]
             verb == IF job.st.idx + 1 < NumTargets THEN "redirect" ELSE "goodbye"
             to == IF job.st.idx \in present THEN Dialing(job) ELSE Saving(job, passed, verb)
  <2>1. /\ job.req.kind = "dial" /\ redis' = redis /\ job.pc = "target"
        /\ UNCHANGED <<twilio, mail, legs, spent>> /\ Set(h, to)
    BY <1>8 DEF DialTarget, At, server, Quiet
  <2>2. verb \in {"redirect", "goodbye"}
    OBVIOUS
  <2>3. /\ Dialing(job).req = job.req /\ Dialing(job).call = job.call
        /\ Saving(job, passed, verb).req = job.req /\ Saving(job, passed, verb).call = job.call
    BY <1>0 DEF Dialing, Saving, Answer, Job
  <2>4. DialRoom(job) => DialRoom(Dialing(job)) /\ DialRoom(Saving(job, passed, verb))
    BY <1>0, <1>4, <2>1, <2>2, DialFits
  <2>5. Unsaved(job)
    BY <2>1 DEF Unsaved
  <2>6. to \in {Dialing(job), Saving(job, passed, verb)}
    OBVIOUS
  <2> HIDE DEF passed, verb, to
  <2> QED
    BY <1>1, <2>1, <2>3, <2>4, <2>5, <2>6
<1>9. CASE CompleteLoad(h)
  <2> DEFINE dedupe == [job EXCEPT !.pc = "dedupe", !.st = redis]
             sorted == Sorted(job, redis, SeenInState(redis))
  <2>1. /\ job.req.kind = "complete" /\ redis' = redis /\ redis # NoState /\ redis \in State
        /\ job.pc = "load" /\ UNCHANGED <<twilio, mail, legs, spent>>
        /\ SeenInState(redis) \in BOOLEAN
    BY <1>9 DEF CompleteLoad, Loads, At, Readable, server, TypeOK, SeenInState
  <2>2. PICK to \in {dedupe, sorted} : Set(h, to)
    BY <1>9 DEF CompleteLoad
  <2>3. dedupe.pc = "dedupe" /\ dedupe.st = redis /\ dedupe.ans = job.ans
        /\ dedupe.req = job.req /\ dedupe.call = job.call
    BY <1>0 DEF Job
  <2>4. sorted.req = job.req /\ sorted.call = job.call
    BY <1>0, <2>1, SortedAsks
  <2> HIDE DEF dedupe
  <2>5. ASSUME ReportReady, ReportRoom(job) PROVE ReportRoom(to)
    <3>1. Fits(After(redis)) /\ job.ans \in {"none", "hangup", "goodbye", "redirect", "finish"}
      BY <2>1, <2>5 DEF ReportReady, ReportRoom
    <3>2. ReportRoom(dedupe)
      BY <2>3, <3>1 DEF ReportRoom
    <3>3. ReportRoom(sorted)
      BY <1>0, <1>4, <2>1, <3>1, SortedFits
    <3> QED
      BY <2>2, <3>2, <3>3
  <2>6. Unsaved(job)
    BY <2>1 DEF Unsaved
  <2> HIDE DEF sorted
  <2> QED
    BY <1>1, <2>1, <2>2, <2>3, <2>4, <2>5, <2>6
<1>10. CASE CompleteDedupe(h)
  <2> DEFINE dup == Logged(LegSid(job, job.st.idx))
             to == Sorted(job, job.st, dup)
  <2>1. /\ job.req.kind = "complete" /\ redis' = redis /\ job.pc = "dedupe"
        /\ UNCHANGED <<twilio, mail, legs, spent>> /\ Set(h, to) /\ dup \in BOOLEAN
    BY <1>10 DEF CompleteDedupe, At, server, Quiet, Logged
  <2> HIDE DEF dup
  <2>2. to.req = job.req /\ to.call = job.call
    BY <1>0, <2>1, SortedAsks
  <2>3. ReportRoom(job) => ReportRoom(to)
    <3> SUFFICES ASSUME ReportRoom(job) PROVE ReportRoom(to)
      OBVIOUS
    <3>1. /\ Fits(After(job.st))
          /\ redis # NoState => redis.idx = job.st.idx \/ Fits(NumTargets)
          /\ job.ans \in {"none", "hangup", "goodbye", "redirect", "finish"}
      BY <2>1 DEF ReportRoom
    <3> QED
      BY <1>0, <1>4, <2>1, <3>1, SortedFits
  <2>4. Unsaved(job)
    BY <2>1 DEF Unsaved
  <2> HIDE DEF to
  <2> QED
    BY <1>1, <2>1, <2>2, <2>3, <2>4
<1>11. CASE CompleteInsert(h)
  <2> DEFINE dup == Logged(LegSid(job, job.st.idx)) \/ job.st.idx \notin present
             to == Settle(job, job.st, dup, job.popped)
  <2>1. /\ job.req.kind = "complete" /\ redis' = redis /\ job.pc = "insert"
        /\ UNCHANGED <<twilio, mail, legs, spent>> /\ Set(h, to) /\ dup \in BOOLEAN
        /\ job.popped \in Nat \cup {None}
    BY <1>0, <1>11 DEF CompleteInsert, At, Quiet, Logged, Job
  <2> HIDE DEF dup
  <2>2. to.req = job.req /\ to.call = job.call
    BY <1>0, <2>1, SettleAsks
  <2>3. ReportRoom(job) => ReportRoom(to)
    <3> SUFFICES ASSUME ReportRoom(job) PROVE ReportRoom(to)
      OBVIOUS
    <3>1. /\ Fits(After(job.st))
          /\ redis # NoState => redis.idx = job.st.idx \/ Fits(NumTargets)
      BY <2>1 DEF ReportRoom
    <3> QED
      BY <1>0, <1>4, <2>1, <3>1, SettleFits
  <2>4. Unsaved(job)
    BY <2>1 DEF Unsaved
  <2> HIDE DEF to
  <2> QED
    BY <1>1, <2>1, <2>2, <2>3, <2>4
<1>12. CASE CompleteFinish(h)
  <2>1. Set(h, Answer(job, "goodbye")) /\ redis' = redis /\ Quiet
    BY <1>12 DEF CompleteFinish
  <2> QED
    BY <1>1, <1>2, <2>1
<1>13. CASE StatusTally(h) \/ StatusClose(h)
  <2>1. job.req.kind = "status" /\ redis' = redis /\ Quiet
    BY <1>13 DEF StatusTally, StatusClose, At, server
  <2>2. \A pc \in {"close", "abandon"} : ~Unsaved([job EXCEPT !.pc = pc])
    BY <1>0 DEF Unsaved, Job
  <2>3. PICK to : Set(h, to) /\ ~Unsaved(to)
    BY <1>3, <1>13, <2>2 DEF StatusTally, StatusClose
  <2> QED
    BY <1>1, <2>1, <2>3
<1>14. CASE SkipLoad(h)
  <2> DEFINE st == [redis EXCEPT !.skip = redis.idx]
  <2>1. /\ job.req.kind = "skip" /\ redis' = redis /\ job.pc = "load"
        /\ UNCHANGED <<twilio, mail, legs, spent>> /\ Set(h, Saving(job, st, "none"))
    BY <1>14 DEF SkipLoad, Loads, At, server
  <2> HIDE DEF st
  <2>2. Saving(job, st, "none").req = job.req /\ Saving(job, st, "none").call = job.call
    BY <1>0 DEF Saving, Job
  <2>3. Unsaved(job)
    BY <2>1 DEF Unsaved
  <2> QED
    BY <1>1, <2>1, <2>2, <2>3
<1>15. CASE Discard(h)
  <2>1. Set(h, IdleJob) /\ redis' = redis /\ UNCHANGED <<twilio, mail, legs, spent>>
    BY <1>15 DEF Discard, server
  <2> QED
    BY <1>1, <1>3, <2>1
<1> QED
  BY <1>5, <1>6, <1>7, <1>8, <1>9, <1>10, <1>11, <1>12, <1>13, <1>14, <1>15
     DEF Run, CallComplete

-----------------------------------------------------------------------------
\* A stray that stores its document has paid for a round, whatever it puts back.
LEMMA RoundRoom ==
  ASSUME TypeOK', \A n \in Int : n <= NumTargets => Fits(n)', NEW job \in Job
  PROVE  /\ DialReady' /\ ReportReady'
         /\ DialRoom(job) => DialRoom(job)'
         /\ ReportRoom(job) => ReportRoom(job)'
<1>1. job.st \in State
  BY DEF Job
<1>2. redis' # NoState => redis' \in State
  BY DEF TypeOK
<1>3. redis' # NoState => /\ Left(redis') \in Int /\ Left(redis') <= NumTargets
                          /\ After(redis') \in Int /\ After(redis') <= NumTargets
                          /\ 1 + After(redis') \in Int /\ 1 + After(redis') <= NumTargets
  <2>1. redis' # NoState => /\ Left(redis') \in Int /\ Left(redis') <= NumTargets
                            /\ After(redis') \in Int /\ After(redis') <= NumTargets - 1
    BY <1>2, Leaves
  <2> QED
    BY <2>1, ConstantsOK
<1>4. /\ Left(job.st) \in Int /\ Left(job.st) <= NumTargets
      /\ After(job.st) \in Int /\ After(job.st) <= NumTargets
      /\ NumTargets \in Int /\ 1 <= NumTargets /\ 1 \in Int
  <2>1. /\ Left(job.st) \in Int /\ Left(job.st) <= NumTargets
        /\ After(job.st) \in Int /\ After(job.st) <= NumTargets - 1
    BY <1>1, Leaves
  <2> QED
    BY <2>1, ConstantsOK
<1>5. DialReady' /\ ReportReady'
  BY <1>3 DEF DialReady, ReportReady, Left, After
<1>6. redis' # NoState => Fits(1 + After(redis))'
  BY <1>3 DEF After, Left
<1>7. Fits(Left(job.st))' /\ Fits(After(job.st))' /\ Fits(NumTargets)' /\ Fits(1)'
  BY <1>4 DEF After, Left
<1> QED
  BY <1>5, <1>6, <1>7 DEF DialRoom, ReportRoom

LEMMA SaveFew ==
  ASSUME TypeOK, TypeOK', OneInv, FewInv, NEW h \in Slots, SaveState(h)
  PROVE  FewInv'
<1> DEFINE job == jobs[h]
           to == IF job.req.kind = "skip" THEN IdleJob
                 ELSE [job EXCEPT !.pc =
                        IF job.req.kind = "voice" THEN "admit"
                        ELSE IF job.ans = "finish" THEN "finish" ELSE "reply"]
<1>0. PICK st : st = job.st
  OBVIOUS
<1>1. job \in Job /\ st \in State /\ job.pc = "save"
  BY <1>0 DEF TypeOK, Job, SaveState
<1>2. /\ redis' = st /\ twilio' = twilio /\ mail' = mail /\ legs' = legs /\ spent' = spent
      /\ jobs'[h] = to /\ \A g \in Slots : g # h => jobs'[g] = jobs[g]
  <2>1. Set(h, to)
    BY DEF SaveState
  <2> HIDE DEF to
  <2>2. jobs'[h] = to /\ \A g \in Slots : g # h => jobs'[g] = jobs[g]
    BY <2>1, Others
  <2> QED
    BY <1>0, <2>2 DEF SaveState, Quiet
<1>3. ~Unsaved(to)
  BY <1>1 DEF Unsaved, IdleJob, NewJob, Job
<1>4. Strays' \subseteq Strays \ {h}
  <2> HIDE DEF to
  <2> SUFFICES ASSUME NEW g \in Slots, Stray(g)' PROVE g # h /\ Stray(g)
    BY DEF Strays
  <2>1. g # h
    BY <1>2, <1>3 DEF Stray
  <2> QED
    BY <1>2, <2>1 DEF Stray
<1>5. Counted' /\ Rounds' >= Rounds
  BY <1>2, <1>4, FewerStrays DEF FewInv, TypeOK
<1>6. Reported'
  BY <1>2 DEF FewInv, Reported
<1>7. Len(legs') = Len(legs)
  BY <1>2
<1>8. ASSUME OneCall', legs' # <<>> PROVE Dialer(legs[1].call)'
  <2>1. OneCall /\ legs # <<>> /\ Dialer(legs[1].call)
    BY <1>2, <1>8 DEF FewInv, OneCall
  <2>2. PICK c \in Calls : c = legs[1].call
    BY <2>1, DialerIs
  <2>3. PICK s : s = twilio[c].slot
    OBVIOUS
  <2>4. s # NoSlot => /\ s \in Slots /\ jobs[s].req = twilio[c].req /\ jobs[s].call = c
                      /\ twilio[c].phase = "webhook"
    BY <2>2, <2>3 DEF OneInv, Wired, TypeOK
  <2>5. Dialer(c)
    BY <2>1, <2>2
  <2>6. Counted
    BY DEF FewInv
  <2>7. ASSUME Stray(h) PROVE Dialer(c)'
    <3>1. Rounds' >= Rounds + 1
      BY <1>2, <1>4, <2>6, <2>7, StrayGoes DEF Strays
    <3>2. Fits(0)
      BY <2>5 DEF Dialer
    <3>3. \A n \in Int : n <= NumTargets => Fits(n)'
      BY <1>5, <1>7, <2>6, <3>1, <3>2, FitsMore
    <3>4. \A m \in Job : /\ DialReady' /\ ReportReady'
                         /\ DialRoom(m) => DialRoom(m)'
                         /\ ReportRoom(m) => ReportRoom(m)'
      BY <3>3, RoundRoom
    <3>5. s # h
      <4> SUFFICES ASSUME s = h PROVE FALSE
        OBVIOUS
      <4>1. job.req.kind # "skip"
        BY <2>2, <2>4, ConstantsOK DEF OneInv, Wired
      <4> QED
        BY <2>3, <2>4, <2>7, <4>1, ConstantsOK DEF Stray
    <3>6. s # NoSlot => jobs'[s] = jobs[s] /\ jobs[s] \in Job
      BY <1>2, <2>4, <3>5 DEF TypeOK
    <3>7. s # NoSlot => /\ DialRoom(jobs[s]) => DialRoom(jobs[s])'
                        /\ ReportRoom(jobs[s]) => ReportRoom(jobs[s])'
      BY <3>4, <3>6
    <3>8. Fits(0)' /\ DialReady' /\ ReportReady'
      BY <1>1, <3>3, <3>4, ConstantsOK
    <3> QED
      BY <1>2, <2>3, <2>5, <3>7, <3>8 DEF Dialer
  <2>8. ASSUME ~Stray(h) PROVE Dialer(c)'
    <3>1. job.req.kind # "skip" /\ (twilio[job.call].phase = "ended" \/ twilio[job.call].slot = h)
      BY <1>1, <2>8 DEF Stray, Unsaved
    <3>2. job.call = c
      <4>1. job.call \in Calls /\ (Storing(job) \/ Admitted(job))
        BY <1>1, <3>1 DEF OneInv, Wired, Carries
      <4>2. CASE Storing(job)
        BY <2>1, <2>2, <4>2, DialerIs
      <4>3. CASE Admitted(job)
        <5>1. job.call \in In
          BY <4>1, <4>3 DEF In
        <5> QED
          BY <2>1, <2>2, <5>1, DialerIs
      <4> QED
        BY <4>1, <4>2, <4>3
    <3>3. \A n \in Int : Fits(n) => Fits(n)'
      BY <1>5, <1>7, <2>6, FitsKept
    <3>4. Fits(0)'
      BY <2>5, <3>3 DEF Dialer
    <3>5. CASE twilio[c].phase = "ended"
      BY <1>2, <3>4, <3>5 DEF Dialer
    <3>6. CASE twilio[c].slot = h
      <4>1. /\ s = h /\ s # NoSlot /\ job.req = twilio[c].req /\ twilio[c].phase = "webhook"
            /\ job.req.kind \in {"dial", "complete"}
        BY <2>3, <2>4, <2>5, <3>6, ConstantsOK DEF Dialer
      <4>2. /\ Left(st) \in Int /\ After(st) \in Int /\ After(st) <= Left(st)
            /\ NumTargets \in Int
        BY <1>1, Leaves, ConstantsOK
      <4>3. CASE job.req.kind = "dial"
        <5>1. DialRoom(job)
          BY <2>3, <2>5, <4>1, <4>3 DEF Dialer
        <5>2. /\ Fits(Left(st)) /\ job.ans \in {"none", "hangup", "goodbye", "redirect", "dial"}
              /\ job.ans = "dial" => st.idx < NumTargets /\ st.dialed = st.idx
          BY <1>0, <1>1, <5>1 DEF DialRoom
        <5>3. to.pc = "reply" /\ to.ans = job.ans
          BY <1>1, <4>3, <5>2 DEF Job
        <5>4. Fits(Left(st))'
          BY <3>3, <4>2, <5>2 DEF Left
        <5>5. DialReady'
          BY <1>2, <5>4 DEF DialReady, Left
        <5>6. job.ans = "dial" => Fits(1)' /\ Fits(1 + After(st))'
          <6> SUFFICES ASSUME job.ans = "dial" PROVE Fits(1)' /\ Fits(1 + After(st))'
            OBVIOUS
          <6>1. st.idx \in Nat
            BY <1>1 DEF State
          <6>2. 1 + After(st) = Left(st) /\ 1 <= Left(st)
            BY <4>2, <5>2, <6>1 DEF After, Left
          <6>3. Fits(1)
            BY <2>6, <4>2, <5>2, <6>2, FitsLess
          <6>4. Fits(1)'
            BY <3>3, <6>3
          <6> QED
            BY <5>4, <6>2, <6>4 DEF After, Left
        <5> HIDE DEF to
        <5>7. DialRoom(jobs[h])'
          BY <1>2, <5>2, <5>3, <5>6 DEF DialRoom, After, Left
        <5> QED
          BY <1>2, <2>3, <3>4, <4>1, <4>3, <5>5, <5>7 DEF Dialer
      <4>4. CASE job.req.kind = "complete"
        <5>1. ReportRoom(job)
          BY <2>3, <2>5, <4>1, <4>4 DEF Dialer
        <5>2. /\ Fits(IF job.ans = "redirect" THEN Left(st) ELSE After(st))
              /\ job.ans \in {"none", "hangup", "goodbye", "redirect", "finish"}
          BY <1>0, <1>1, <5>1 DEF ReportRoom
        <5>3. to.pc \in {"reply", "finish"} /\ to.ans = job.ans
          BY <1>1, <4>4, <5>2 DEF Job
        <5>4. Fits(After(st))
          BY <2>6, <4>2, <5>2, FitsLess
        <5>5. Fits(After(st))' /\ (job.ans = "redirect" => Fits(Left(st))')
          BY <3>3, <4>2, <5>2, <5>4 DEF After, Left
        <5>6. ReportReady' /\ (job.ans = "redirect" => DialReady')
          BY <1>2, <5>5 DEF ReportReady, DialReady, After, Left
        <5> HIDE DEF to
        <5>7. ReportRoom(jobs[h])'
          BY <1>2, <5>2, <5>3, <5>6 DEF ReportRoom
        <5> QED
          BY <1>2, <2>3, <3>4, <4>1, <4>4, <5>6, <5>7 DEF Dialer
      <4> QED
        BY <4>1, <4>3, <4>4
    <3> QED
      BY <3>1, <3>2, <3>5, <3>6
  <2>9. Dialer(c)'
    BY <2>7, <2>8
  <2> QED
    BY <1>2, <2>2, <2>9
<1> QED
  BY <1>5, <1>6, <1>8 DEF FewInv

\* Steps that leave the document and the dials alone: the strays do not grow
\* beyond what is paid for, and the line of the call that dials keeps its room.
LEMMA LineFew ==
  ASSUME TypeOK, TypeOK', OneInv, FewInv, Counted', Rounds' >= Rounds, Reported',
         OneCall' => OneCall, redis' = redis, legs' = legs,
         \A c \in Calls :
           \/ twilio'[c] = twilio[c]
              /\ (twilio[c].slot # NoSlot => jobs'[twilio[c].slot] = jobs[twilio[c].slot])
           \/ twilio[c].phase \in {"new", "gather"}
           \/ twilio'[c].phase = "ended"
           \/ /\ twilio[c].phase = "webhook" /\ twilio'[c].phase = "webhook"
              /\ twilio'[c].req = twilio[c].req
              /\ \/ twilio'[c].slot = NoSlot
                 \/ jobs'[twilio'[c].slot].pc = "load" /\ jobs'[twilio'[c].slot].ans = "none"
                 \/ /\ twilio'[c].slot = twilio[c].slot
                    /\ jobs'[twilio[c].slot] = Answer(jobs[twilio[c].slot], "hangup")
           \/ /\ twilio[c].phase = "dialing" /\ twilio'[c].phase = "webhook"
              /\ twilio'[c].req.kind = "complete" /\ twilio'[c].slot = NoSlot
  PROVE  FewInv'
<1> SUFFICES ASSUME OneCall, legs # <<>> PROVE Dialer(legs[1].call)'
  BY DEF FewInv
<1>1. PICK c \in Calls : c = legs[1].call
  BY DialerIs
<1>2. Counted /\ Dialer(c)
  BY <1>1 DEF FewInv
<1>3. \A n \in Int : Fits(n) => Fits(n)'
  BY <1>2, FitsKept
<1>4. /\ Fits(0)' /\ (DialReady => DialReady') /\ (ReportReady => ReportReady')
  BY <1>2, <1>3, ReadyKept DEF Dialer
<1>5. CASE /\ twilio'[c] = twilio[c]
           /\ twilio[c].slot # NoSlot => jobs'[twilio[c].slot] = jobs[twilio[c].slot]
  <2>1. PICK s : s = twilio[c].slot
    OBVIOUS
  <2>2. s # NoSlot => jobs'[s] = jobs[s]
    BY <1>5, <2>1
  <2>3. Dialer(c)'
    BY <1>2, <1>5, <2>1, <2>2, DialerKept
  <2> QED
    BY <1>1, <2>3
<1>6. CASE twilio'[c].phase = "ended"
  <2>1. Dialer(c)'
    BY <1>4, <1>6 DEF Dialer
  <2> QED
    BY <1>1, <2>1
<1>7. CASE /\ twilio[c].phase = "webhook" /\ twilio'[c].phase = "webhook"
           /\ twilio'[c].req = twilio[c].req
           /\ \/ twilio'[c].slot = NoSlot
              \/ jobs'[twilio'[c].slot].pc = "load" /\ jobs'[twilio'[c].slot].ans = "none"
              \/ /\ twilio'[c].slot = twilio[c].slot
                 /\ jobs'[twilio[c].slot] = Answer(jobs[twilio[c].slot], "hangup")
  <2>1. PICK s : s = twilio'[c].slot
    OBVIOUS
  <2>2. s # NoSlot => DialRoom(jobs[s])' /\ ReportRoom(jobs[s])'
    <3> SUFFICES ASSUME s # NoSlot PROVE DialRoom(jobs[s])' /\ ReportRoom(jobs[s])'
      OBVIOUS
    <3>1. CASE jobs'[s].pc = "load" /\ jobs'[s].ans = "none"
      BY <3>1 DEF DialRoom, ReportRoom
    <3>2. CASE s = twilio[c].slot /\ jobs'[s] = Answer(jobs[s], "hangup")
      <4>1. jobs[s] \in Job
        BY <3>2 DEF TypeOK
      <4>2. jobs'[s].pc = "reply" /\ jobs'[s].ans = "hangup"
        BY <3>2, <4>1 DEF Answer, Job
      <4> QED
        BY <4>2 DEF DialRoom, ReportRoom
    <3> QED
      BY <1>7, <2>1, <3>1, <3>2
  <2>3. /\ twilio[c].req.kind \in {"dial", "complete"}
        /\ twilio[c].req.kind = "dial" => DialReady'
        /\ twilio[c].req.kind = "complete" => ReportReady'
    BY <1>2, <1>4, <1>7 DEF Dialer
  <2>4. Dialer(c)'
    BY <1>4, <1>7, <2>1, <2>2, <2>3 DEF Dialer
  <2> QED
    BY <1>1, <2>4
<1>8. CASE /\ twilio[c].phase = "dialing" /\ twilio'[c].phase = "webhook"
           /\ twilio'[c].req.kind = "complete" /\ twilio'[c].slot = NoSlot
  <2>1. ReportReady'
    BY <1>2, <1>4, <1>8 DEF Dialer
  <2>2. Dialer(c)'
    BY <1>4, <1>8, <2>1 DEF Dialer
  <2> QED
    BY <1>1, <2>2
<1>9. twilio[c].phase \notin {"new", "gather"}
  BY <1>2 DEF Dialer
<1> QED
  BY <1>5, <1>6, <1>7, <1>8, <1>9

\* What Twilio does with an answer: one more dial, and one less to come.
LEMMA ReplyFew ==
  ASSUME TypeOK, TypeOK', OneInv, OneInv', FewInv, NEW h \in Slots, Reply(h)
  PROVE  FewInv'
<1> DEFINE ans == jobs[h].ans
<1>1. PICK c \in Calls :
        /\ jobs[h].pc = "reply" /\ twilio[c].slot = h
        /\ Set(h, IdleJob)
        /\ UNCHANGED <<server, clock, asked, spent>>
        /\ \/ /\ ans \in {"hangup", "goodbye"}
              /\ Ended(c) /\ Post(c, Req("status", "completed"))
              /\ UNCHANGED legs
           \/ /\ ans = "gather"
              /\ twilio' = [twilio EXCEPT ![c].phase = "gather", ![c].slot = NoSlot]
              /\ UNCHANGED <<mail, legs>>
           \/ /\ ans = "redirect"
              /\ Fetch(c, Req("dial", ""))
              /\ UNCHANGED <<mail, legs>>
           \/ /\ ans = "dial"
              /\ twilio' = [twilio EXCEPT ![c] =
                              [phase |-> "dialing", slot |-> NoSlot,
                               req |-> LegReq("completed", Len(legs) + 1, TRUE)]]
              /\ legs' = Append(legs, [call |-> c, index |-> jobs[h].to])
              /\ UNCHANGED mail
  BY DEF Reply
<1>2. /\ redis' = redis /\ spent' = spent /\ h # NoSlot
      /\ jobs'[h] = IdleJob /\ \A g \in Slots : g # h => jobs'[g] = jobs[g]
  BY <1>1, Others, ConstantsOK DEF server
<1>3. /\ jobs[h].call = c /\ jobs[h].req = twilio[c].req /\ twilio[c].phase = "webhook"
      /\ \A x \in Calls : x # c => twilio[x].slot # h
  BY <1>1, AwaitedIs
<1>4. /\ \A x \in Calls : x # c => twilio'[x] = twilio[x]
      /\ twilio'[c].slot = NoSlot
      /\ ans \in {"hangup", "goodbye"} => twilio'[c].phase = "ended"
      /\ ans = "gather" => twilio'[c].phase = "gather"
      /\ ans = "redirect" => twilio'[c].phase = "webhook" /\ twilio'[c].req.kind = "dial"
      /\ ans = "dial" => twilio'[c].phase = "dialing"
      /\ ans \in {"hangup", "goodbye", "gather", "redirect", "dial"}
  <2>1. /\ DOMAIN twilio = Calls
        /\ twilio[c] \in [phase: {"new", "webhook", "gather", "dialing", "ended"},
                          req: Request, slot: Slots \cup {NoSlot}]
    BY DEF TypeOK
  <2>2. CASE ans \in {"hangup", "goodbye"} /\ Ended(c)
    BY <2>1, <2>2 DEF Ended
  <2>3. CASE /\ ans = "gather"
             /\ twilio' = [twilio EXCEPT ![c].phase = "gather", ![c].slot = NoSlot]
    BY <2>1, <2>3
  <2>4. CASE ans = "redirect" /\ Fetch(c, Req("dial", ""))
    BY <2>1, <2>4 DEF Fetch, Req
  <2>5. CASE /\ ans = "dial"
             /\ twilio' = [twilio EXCEPT ![c] =
                             [phase |-> "dialing", slot |-> NoSlot,
                              req |-> LegReq("completed", Len(legs) + 1, TRUE)]]
    BY <2>1, <2>5
  <2> QED
    BY <1>1, <2>2, <2>3, <2>4, <2>5
<1>5. ans # "dial" => legs' = legs
  BY <1>1
<1>6. Strays' \subseteq Strays
  <2> SUFFICES ASSUME NEW g \in Slots, Stray(g)' PROVE Stray(g)
    BY DEF Strays
  <2>1. g # h
    <3>1. ~Unsaved(IdleJob)
      BY DEF Unsaved, IdleJob, NewJob
    <3> QED
      BY <1>2, <3>1 DEF Stray
  <2>2. jobs'[g] = jobs[g] /\ Unsaved(jobs[g])
    BY <1>2, <2>1 DEF Stray
  <2>3. CASE jobs[g].req.kind = "skip"
    BY <2>2, <2>3 DEF Stray
  <2>4. CASE jobs[g].req.kind # "skip"
    <3>1. jobs[g].call \in Calls
      BY <2>4 DEF OneInv, Wired
    <3>2. twilio'[jobs[g].call].phase # "ended" /\ twilio'[jobs[g].call].slot # g
      BY <2>2, <2>4 DEF Stray
    <3>3. twilio[jobs[g].call].phase # "ended" /\ twilio[jobs[g].call].slot # g
      BY <1>1, <1>3, <1>4, <2>1, <3>1, <3>2
    <3> QED
      BY <2>2, <3>3 DEF Stray
  <2> QED
    BY <2>3, <2>4
<1>7. Counted /\ Counted' /\ Rounds' >= Rounds
  BY <1>2, <1>6, FewerStrays DEF FewInv, TypeOK
<1>8. Reported'
  <2> SUFFICES ASSUME NEW x \in Calls, NEW m \in mail'[x], m.kind = "complete"
               PROVE  twilio'[x].phase = "ended"
    BY DEF Reported
  <2>1. m \in mail[x]
    <3>1. Req("status", "completed").kind = "status" /\ DOMAIN mail = Calls
      BY DEF Req, TypeOK
    <3>2. CASE Post(c, Req("status", "completed"))
      BY <3>1, <3>2 DEF Post
    <3>3. CASE mail' = mail
      BY <3>3
    <3> QED
      BY <1>1, <3>2, <3>3
  <2>2. twilio[x].phase = "ended"
    BY <2>1 DEF FewInv, Reported
  <2> QED
    BY <1>3, <1>4, <2>2
<1>9. ASSUME OneCall, legs # <<>>, ans # "dial" PROVE Dialer(legs[1].call)'
  <2>1. PICK o \in Calls : o = legs[1].call
    BY <1>9, DialerIs
  <2>2. Dialer(o)
    BY <1>9, <2>1 DEF FewInv
  <2>3. \A n \in Int : Fits(n) => Fits(n)'
    BY <1>5, <1>7, <1>9, FitsKept
  <2>4. CASE o # c
    <3>1. PICK s : s = twilio[o].slot
      OBVIOUS
    <3>2. s # NoSlot => jobs'[s] = jobs[s]
      BY <1>2, <1>3, <2>4, <3>1 DEF TypeOK
    <3>3. Dialer(o)'
      BY <1>2, <1>4, <1>5, <1>7, <1>9, <2>2, <2>4, <3>1, <3>2, DialerKept
    <3> QED
      BY <1>5, <1>9, <2>1, <3>3
  <2>5. CASE o = c
    <3>1. Fits(0)'
      BY <2>2, <2>3 DEF Dialer
    <3>2. /\ twilio[c].req.kind = "dial" => DialReady /\ DialRoom(jobs[h])
          /\ twilio[c].req.kind = "complete" => ReportRoom(jobs[h])
          /\ twilio[c].req.kind \in {"dial", "complete"}
      BY <1>1, <1>2, <1>3, <2>2, <2>5 DEF Dialer
    <3>3. ans = "redirect" => DialReady
      BY <1>1, <3>2 DEF ReportRoom
    <3>4. ans # "gather"
      BY <3>2 DEF DialRoom, ReportRoom
    <3>5. DialReady => DialReady'
      BY <1>2, <2>3, ReadyKept
    <3>6. Dialer(o)'
      BY <1>4, <1>9, <2>5, <3>1, <3>3, <3>4, <3>5 DEF Dialer
    <3> QED
      BY <1>5, <1>9, <2>1, <3>6
  <2> QED
    BY <2>4, <2>5
<1>10. ASSUME OneCall, ans = "dial" PROVE Dialer(legs[1].call)'
  <2>1. legs' = Append(legs, [call |-> c, index |-> jobs[h].to])
    BY <1>1, <1>10
  <2>2. /\ Len(legs') = Len(legs) + 1 /\ legs'[Len(legs) + 1].call = c
        /\ Len(legs) \in Nat /\ legs' # <<>>
        /\ \A k \in 1..Len(legs) : legs'[k] = legs[k]
    <3>1. legs \in Seq([call: Calls, index: Nat])
      BY DEF TypeOK
    <3> QED
      BY <2>1, <3>1
  <2>3. redis # NoState => redis \in State
    BY DEF TypeOK
  <2>4. redis # NoState => After(redis) \in Int /\ After(redis) <= NumTargets - 1
    BY <2>3, Leaves
  <2>5. Fits(0)' /\ ReportReady'
    <3>1. CASE legs = <<>>
      <4>1. \A n \in Int : n <= NumTargets - 1 => Fits(n)'
        <5>1. Len(legs') = 1
          BY <2>2, <3>1
        <5> QED
          BY <1>7, <5>1, FirstFitsNext
      <4>2. Fits(0)'
        BY <4>1, ConstantsOK
      <4>3. redis # NoState => Fits(After(redis))'
        BY <1>2, <2>4, <4>1 DEF After, Left
      <4> QED
        BY <1>2, <4>2, <4>3 DEF ReportReady, After, Left
    <3>2. CASE legs # <<>>
      <4>1. PICK o \in Calls : o = legs[1].call /\ o = c
        <5>1. 1 \in DOMAIN legs /\ DOMAIN legs = 1..Len(legs)
          BY <3>2, NoLegs
        <5>2. PICK o : \A k \in DOMAIN legs' : legs'[k].call = o
          BY <1>2, <1>10 DEF OneInv, Bound, Single, Sole, Only, OneCall
        <5>3. 1 \in DOMAIN legs' /\ Len(legs) + 1 \in DOMAIN legs'
          BY <2>2, NoLegs, <5>1, LenProperties DEF TypeOK
        <5>4. legs[1].call = c
          BY <2>2, <5>1, <5>2, <5>3
        <5> QED
          BY <5>4
      <4>2. Dialer(c)
        BY <1>10, <3>2, <4>1 DEF FewInv
      <4>3. DialRoom(jobs[h])
        BY <1>1, <1>2, <1>3, <1>10, <4>2 DEF Dialer, ReportRoom
      <4>4. Fits(1) /\ (redis # NoState => Fits(1 + After(redis)))
        BY <1>1, <1>10, <4>3 DEF DialRoom
      <4>5. \A n \in Int : Fits(1 + n) => Fits(n)'
        <5>1. NumTargets * Rounds' >= NumTargets * Rounds
          BY <1>7, RoundsGrow
        <5>2. NumTargets * Rounds' \in Nat /\ NumTargets * Rounds \in Nat
          BY <1>7, RoundsType, RoundsNext
        <5> QED
          BY <2>2, <5>1, <5>2 DEF Fits
      <4>6. Fits(0)'
        BY <4>4, <4>5
      <4>7. redis # NoState => Fits(After(redis))'
        BY <1>2, <2>4, <4>4, <4>5 DEF After, Left
      <4> QED
        BY <1>2, <4>6, <4>7 DEF ReportReady, After, Left
    <3> QED
      BY <3>1, <3>2
  <2>6. Dialer(c)'
    BY <1>4, <1>10, <2>5 DEF Dialer
  <2>7. legs'[1].call = c
    <3>1. CASE legs = <<>>
      BY <2>2, <3>1
    <3>2. CASE legs # <<>>
      <4>1. 1 \in DOMAIN legs /\ DOMAIN legs = 1..Len(legs)
        BY <3>2, NoLegs
      <4>2. PICK o : \A k \in DOMAIN legs' : legs'[k].call = o
        BY <1>2, <1>10 DEF OneInv, Bound, Single, Sole, Only, OneCall
      <4>3. 1 \in DOMAIN legs' /\ Len(legs) + 1 \in DOMAIN legs'
        BY <2>2, <4>1, LenProperties DEF TypeOK
      <4> QED
        BY <2>2, <4>2, <4>3
    <3> QED
      BY <3>1, <3>2
  <2> QED
    BY <2>6, <2>7
<1>11. OneCall' => OneCall
  BY <1>2 DEF OneCall
<1> QED
  BY <1>5, <1>7, <1>8, <1>9, <1>10, <1>11 DEF FewInv
-----------------------------------------------------------------------------
\* The steps of Twilio and of the world outside.

LEMMA StraysStay ==
  ASSUME OneInv, NEW X,
         \A g \in Slots \ X : Unsaved(jobs'[g]) =>
           /\ jobs'[g] = jobs[g]
           /\ \A x \in Calls :
                /\ x = jobs[g].call
                /\ twilio'[x].phase # "ended" /\ twilio'[x].slot # g
                => twilio[x].phase # "ended" /\ twilio[x].slot # g
  PROVE  Strays' \subseteq Strays \cup X
<1> SUFFICES ASSUME NEW g \in Slots \ X, Stray(g)' PROVE Stray(g)
  BY DEF Strays
<1>1. Unsaved(jobs'[g])
  BY DEF Stray
<1>2. jobs'[g] = jobs[g]
  BY <1>1
<1>3. CASE jobs[g].req.kind = "skip"
  BY <1>1, <1>2, <1>3 DEF Stray
<1>4. CASE jobs[g].req.kind # "skip"
  <2>1. PICK x \in Calls : x = jobs[g].call
    BY <1>4 DEF OneInv, Wired
  <2>2. twilio'[x].phase # "ended" /\ twilio'[x].slot # g
    BY <1>2, <1>4, <2>1 DEF Stray
  <2>3. twilio[x].phase # "ended" /\ twilio[x].slot # g
    BY <1>1, <2>1, <2>2
  <2> QED
    BY <1>1, <1>2, <2>1, <2>3 DEF Stray
<1> QED
  BY <1>3, <1>4

\* A line moves on, callbacks are posted, no job starts or ends.
LEMMA MoveFew ==
  ASSUME TypeOK, TypeOK', OneInv, FewInv, NEW c \in Calls,
         jobs' = jobs, UNCHANGED <<redis, legs, spent>>,
         \A x \in Calls : x # c => twilio'[x] = twilio[x] /\ mail'[x] = mail[x],
         twilio[c].slot = NoSlot \/ twilio'[c].phase = "ended",
         twilio[c].phase # "ended",
         \/ twilio[c].phase \in {"new", "gather"}
         \/ twilio'[c].phase = "ended"
         \/ /\ twilio[c].phase = "dialing" /\ twilio'[c].phase = "webhook"
            /\ twilio'[c].req.kind = "complete" /\ twilio'[c].slot = NoSlot,
         \A m \in mail'[c] : m \in mail[c] \/ m.kind = "status" \/ twilio'[c].phase = "ended"
  PROVE  FewInv'
<1>1. Strays' \subseteq Strays
  <2>1. \A g \in Slots : g # NoSlot
    BY ConstantsOK
  <2>2. Strays' \subseteq Strays \cup {}
    BY <2>1, StraysStay
  <2> QED
    BY <2>2
<1>2. Counted' /\ Rounds' >= Rounds
  BY <1>1, FewerStrays DEF FewInv, TypeOK
<1>3. Reported'
  BY DEF FewInv, Reported
<1>4. OneCall' => OneCall
  BY DEF OneCall
<1> QED
  BY <1>2, <1>3, <1>4, LineFew

\* A slot that is free is one nobody waits for.
LEMMA SlotBusy ==
  ASSUME TypeOK, OneInv, NEW h \in Slots, Idle(h), NEW x \in Calls
  PROVE  twilio[x].slot # h
<1> SUFFICES ASSUME twilio[x].slot = h PROVE FALSE
  OBVIOUS
<1>1. jobs[h].req.kind \in {"voice", "make", "dial", "complete"}
  BY AwaitedIs
<1> QED
  BY <1>1 DEF OneInv, Wired

\* A request is sent, or sent again.
LEMMA DeliverFew ==
  ASSUME TypeOK, TypeOK', OneInv, FewInv, NEW c \in Calls, Deliver(c)
  PROVE  FewInv'
<1>1. PICK h \in Slots : /\ Idle(h)
                         /\ Set(h, NewJob("load", twilio[c].req, c))
                         /\ twilio' = [twilio EXCEPT ![c].slot = h]
  BY DEF Deliver
<1> DEFINE to == NewJob("load", twilio[c].req, c)
<1>2. jobs'[h] = to /\ \A g \in Slots : g # h => jobs'[g] = jobs[g]
  BY <1>1, Others
<1>3. /\ to.pc = "load" /\ to.ans = "none" /\ to.call = c /\ to.req = twilio[c].req
      /\ to.req.kind # "skip"
  BY DEF NewJob, OneInv, Wired
<1> HIDE DEF to
<1>4. /\ \A x \in Calls : x # c => twilio'[x] = twilio[x]
      /\ twilio'[c].phase = twilio[c].phase /\ twilio'[c].req = twilio[c].req
      /\ twilio'[c].slot = h
      /\ twilio[c].phase = "webhook" /\ twilio[c].slot = NoSlot /\ h # NoSlot
      /\ redis' = redis /\ mail' = mail /\ legs' = legs /\ spent' = spent
  BY <1>1, ConstantsOK DEF Deliver, TypeOK, server
<1>5. \A x \in Calls : twilio[x].slot # h
  BY <1>1, SlotBusy
<1>6. Strays' \subseteq Strays
  <2>1. ~Stray(h)'
    BY <1>2, <1>3, <1>4 DEF Stray
  <2>2. \A g \in Slots : g # NoSlot
    BY ConstantsOK
  <2>3. Strays' \subseteq Strays \cup {h}
    BY <1>2, <1>4, <2>2, StraysStay
  <2> QED
    BY <2>1, <2>3 DEF Strays
<1>7. Counted' /\ Rounds' >= Rounds
  BY <1>4, <1>6, FewerStrays DEF FewInv, TypeOK
<1>8. Reported' /\ (OneCall' => OneCall)
  BY <1>4 DEF FewInv, Reported, OneCall
<1>9. ASSUME NEW x \in Calls, x # c
      PROVE  /\ twilio'[x] = twilio[x]
             /\ twilio[x].slot # NoSlot => jobs'[twilio[x].slot] = jobs[twilio[x].slot]
  BY <1>2, <1>4, <1>5, <1>9 DEF TypeOK
<1>10. jobs'[twilio'[c].slot].pc = "load" /\ jobs'[twilio'[c].slot].ans = "none"
  BY <1>2, <1>3, <1>4
<1> QED
  BY <1>4, <1>7, <1>8, <1>9, <1>10, LineFew


\* A request that is given up leaves a stray; it is paid for.
LEMMA TimeOutFew ==
  ASSUME TypeOK, TypeOK', OneInv, FewInv, NEW c \in Calls, TimeOut(c)
  PROVE  FewInv'
<1>1. /\ twilio' = [twilio EXCEPT ![c].slot = NoSlot] /\ Use("late")
      /\ twilio[c].phase = "webhook" /\ twilio[c].slot # NoSlot
      /\ redis' = redis /\ mail' = mail /\ legs' = legs /\ jobs' = jobs
  BY DEF TimeOut, server
<1>2. /\ spent'.late = spent.late + 1 /\ spent'.skips = spent.skips
      /\ spent'.lulls = spent.lulls
      /\ spent'.late + spent'.skips = spent.late + spent.skips + 1
  <2>1. spent.late \in Nat /\ spent.skips \in Nat
    BY DEF TypeOK
  <2>2. /\ spent'.late = spent.late + 1 /\ spent'.skips = spent.skips
        /\ spent'.lulls = spent.lulls
    BY <1>1 DEF Use, TypeOK
  <2> QED
    BY <2>1, <2>2
<1>3. /\ \A x \in Calls : x # c => twilio'[x] = twilio[x]
      /\ twilio'[c].phase = twilio[c].phase /\ twilio'[c].req = twilio[c].req
      /\ twilio'[c].slot = NoSlot
  BY <1>1 DEF TypeOK
<1>4. PICK h \in Slots : twilio[c].slot = h
  BY <1>1 DEF TypeOK
<1>5. Strays' \subseteq Strays \cup {h}
  BY <1>1, <1>3, <1>4, StraysStay
<1>6. Counted' /\ Rounds' >= Rounds
  BY <1>2, <1>5, StrayComes DEF FewInv
<1>7. Reported' /\ (OneCall' => OneCall)
  BY <1>1, <1>2, <1>3 DEF FewInv, Reported, OneCall
<1> QED
  BY <1>1, <1>3, <1>6, <1>7, LineFew

\* A callback: what it may still store belongs to a call that is over.
LEMMA MailFew ==
  ASSUME TypeOK, TypeOK', OneInv, FewInv, NEW c \in Calls, DeliverMail(c)
  PROVE  FewInv'
<1>1. PICK m \in mail[c], h \in Slots :
        /\ Idle(h)
        /\ Set(h, NewJob(IF m.kind # "status" THEN "load"
                         ELSE IF m.out = "completed" THEN "tally" ELSE "close", m, c))
        /\ \/ mail' = [mail EXCEPT ![c] = @ \ {m}] /\ UNCHANGED spent
           \/ Use("late") /\ UNCHANGED mail
  BY DEF DeliverMail
<1> DEFINE pc == IF m.kind # "status" THEN "load"
                 ELSE IF m.out = "completed" THEN "tally" ELSE "close"
           to == NewJob(pc, m, c)
<1>2. jobs'[h] = to /\ \A g \in Slots : g # h => jobs'[g] = jobs[g]
  BY <1>1, Others
<1>3. to.pc = pc /\ to.req = m /\ to.call = c /\ m.kind \in {"status", "complete"}
  BY DEF NewJob, OneInv, Wired
<1>4. Unsaved(to) => twilio[c].phase = "ended" /\ m.kind # "skip"
  BY <1>3 DEF Unsaved, FewInv, Reported
<1> HIDE DEF to, pc
<1>5. redis' = redis /\ legs' = legs /\ twilio' = twilio
  BY DEF DeliverMail, server
<1>6. Strays' \subseteq Strays
  <2>1. ~Stray(h)'
    BY <1>2, <1>3, <1>4, <1>5 DEF Stray
  <2>2. Strays' \subseteq Strays \cup {h}
    BY <1>2, <1>5, StraysStay
  <2> QED
    BY <2>1, <2>2 DEF Strays
<1>7. spent'.late + spent'.skips >= spent.late + spent.skips /\ (OneCall' => OneCall)
  <2>1. spent.late \in Nat /\ spent.skips \in Nat
    BY DEF TypeOK
  <2>2. CASE Use("late")
    <3>0. spent \in [faults: Nat, late: Nat, skips: Nat, deletes: Nat, lulls: Nat]
      BY DEF TypeOK
    <3>1. spent'.late = spent.late + 1 /\ spent'.skips = spent.skips
          /\ spent'.lulls = spent.lulls
      BY <2>2, <3>0 DEF Use
    <3> QED
      BY <2>1, <3>1 DEF OneCall
  <2>3. CASE spent' = spent
    BY <2>1, <2>3 DEF OneCall
  <2> QED
    BY <1>1, <2>2, <2>3
<1>8. Counted' /\ Rounds' >= Rounds
  BY <1>6, <1>7, FewerStrays DEF FewInv
<1>9. Reported'
  <2>0. mail \in [Calls -> SUBSET Request]
    BY DEF TypeOK
  <2>1. \A x \in Calls : mail'[x] \subseteq mail[x]
    BY <1>1, <2>0
  <2> QED
    BY <1>5, <2>1 DEF FewInv, Reported
<1>10. ASSUME NEW x \in Calls
       PROVE  twilio[x].slot # NoSlot => jobs'[twilio[x].slot] = jobs[twilio[x].slot]
  <2>1. twilio[x].slot # h
    BY <1>1, SlotBusy
  <2> QED
    BY <1>2, <2>1 DEF TypeOK
<1> QED
  BY <1>5, <1>7, <1>8, <1>9, <1>10, LineFew

\* Every step of Twilio about one call.
LEMMA TwilioFew ==
  ASSUME TypeOK, TypeOK', OneInv, FewInv, NEW c \in Calls, Twilio(c)
  PROVE  FewInv'
<1>0. /\ DOMAIN twilio = Calls /\ DOMAIN mail = Calls
      /\ twilio[c] \in [phase: {"new", "webhook", "gather", "dialing", "ended"},
                        req: Request, slot: Slots \cup {NoSlot}]
      /\ twilio[c].slot # NoSlot => twilio[c].phase = "webhook"
  BY DEF TypeOK, OneInv, Wired
<1>1. \A out : Req("status", out).kind = "status"
  BY DEF Req
<1>2. CASE AnswerCall(c)
  <2>1. /\ twilio[c].phase = "new" /\ Fetch(c, Req("voice", ""))
        /\ Post(c, Req("status", "in-progress"))
        /\ jobs' = jobs /\ UNCHANGED <<redis, legs, spent>>
    BY <1>2 DEF AnswerCall, server
  <2>2. /\ \A x \in Calls : x # c => twilio'[x] = twilio[x] /\ mail'[x] = mail[x]
        /\ \A m \in mail'[c] : m \in mail[c] \/ m.kind = "status"
    BY <1>0, <1>1, <2>1 DEF Fetch, Post
  <2> QED
    BY <1>0, <2>1, <2>2, MoveFew
<1>3. CASE NoAnswer(c)
  <2>1. /\ twilio[c].phase = "new" /\ Ended(c) /\ Post(c, Req("status", "no-answer"))
        /\ jobs' = jobs /\ UNCHANGED <<redis, legs, spent>>
    BY <1>3 DEF NoAnswer, server
  <2>2. /\ \A x \in Calls : x # c => twilio'[x] = twilio[x] /\ mail'[x] = mail[x]
        /\ \A m \in mail'[c] : m \in mail[c] \/ m.kind = "status"
        /\ twilio'[c].phase = "ended"
    BY <1>0, <1>1, <2>1 DEF Ended, Post
  <2> QED
    BY <1>0, <2>1, <2>2, MoveFew
<1>4. CASE Gathered(c)
  <2>1. PICK out : Fetch(c, Req("make", out))
    BY <1>4 DEF Gathered
  <2>2. /\ twilio[c].phase = "gather" /\ jobs' = jobs /\ mail' = mail
        /\ UNCHANGED <<redis, legs, spent>>
    BY <1>4 DEF Gathered, server
  <2>3. \A x \in Calls : x # c => twilio'[x] = twilio[x]
    BY <1>0, <2>1 DEF Fetch
  <2> QED
    BY <1>0, <2>2, <2>3, MoveFew
<1>5. CASE LegEnds(c)
  <2>1. PICK report \in LegReports(twilio[c].req.leg) : Fetch(c, report)
    BY <1>5 DEF LegEnds
  <2>2. /\ twilio[c].phase = "dialing" /\ jobs' = jobs /\ mail' = mail
        /\ UNCHANGED <<redis, legs, spent>>
    BY <1>5 DEF LegEnds, server
  <2>3. report.kind = "complete"
    BY <2>1 DEF LegReports, LegReq
  <2>4. /\ \A x \in Calls : x # c => twilio'[x] = twilio[x]
        /\ twilio'[c].phase = "webhook" /\ twilio'[c].req.kind = "complete"
        /\ twilio'[c].slot = NoSlot
    BY <1>0, <2>1, <2>3 DEF Fetch
  <2> QED
    BY <1>0, <2>2, <2>4, MoveFew
<1>6. CASE HangUp(c)
  <2>1. /\ twilio[c].phase \in {"webhook", "gather", "dialing"} /\ Ended(c)
        /\ jobs' = jobs /\ UNCHANGED <<redis, legs, spent>>
    BY <1>6 DEF HangUp, server
  <2>2. /\ \A x \in Calls : x # c => twilio'[x] = twilio[x]
        /\ twilio'[c].phase = "ended"
    BY <1>0, <2>1 DEF Ended
  <2>3. \A x \in Calls : x # c => mail'[x] = mail[x]
    BY <1>0, <1>6 DEF HangUp, Post
  <2> QED
    BY <1>0, <2>1, <2>2, <2>3, MoveFew
<1> QED
  BY <1>2, <1>3, <1>4, <1>5, <1>6, DeliverFew, TimeOutFew, MailFew DEF Twilio

\* A job that is lost, or cut short, stores nothing any more.
LEMMA FaultFew ==
  ASSUME TypeOK, TypeOK', OneInv, FewInv, NEW h \in Slots, Lose(h) \/ RedisError(h)
  PROVE  FewInv'
<1>1. /\ redis' = redis /\ legs' = legs /\ Use("faults")
      /\ h # NoSlot /\ \A g \in Slots : g # NoSlot
  BY ConstantsOK DEF Lose, RedisError, server
<1>2. /\ spent'.late = spent.late /\ spent'.skips = spent.skips
      /\ spent'.lulls = spent.lulls
  BY <1>1 DEF Use, TypeOK
<1>3. OneCall' => OneCall
  BY <1>2 DEF OneCall
<1>4. CASE Lose(h)
  <2>1. jobs'[h] = IdleJob /\ \A g \in Slots : g # h => jobs'[g] = jobs[g]
    BY <1>4, Others DEF Lose
  <2>2. ~Unsaved(IdleJob)
    BY DEF Unsaved, IdleJob, NewJob
  <2>3. \A x \in Calls : /\ twilio'[x].phase = twilio[x].phase
                         /\ twilio'[x].req = twilio[x].req
                         /\ twilio[x].slot # h => twilio'[x] = twilio[x]
                         /\ twilio[x].slot = h => twilio'[x].slot = NoSlot
    BY <1>4 DEF Lose, TypeOK
  <2>4. \A x \in Calls : \A m \in mail'[x] : m \in mail[x] \/ m.kind = "status"
    <3>1. DOMAIN mail = Calls
      BY DEF TypeOK
    <3>2. CASE jobs[h].req.kind = "status" /\ Post(jobs[h].call, jobs[h].req)
      BY <3>1, <3>2 DEF Post
    <3>3. CASE mail' = mail
      BY <3>3
    <3> QED
      BY <1>4, <3>2, <3>3 DEF Lose
  <2>5. Strays' \subseteq Strays
    <3>1. Strays' \subseteq Strays \cup {}
      BY <2>1, <2>2, <2>3, StraysStay
    <3> QED
      BY <3>1
  <2>6. Counted' /\ Rounds' >= Rounds
    BY <1>2, <2>5, FewerStrays DEF FewInv, TypeOK
  <2>7. Reported'
    BY <2>3, <2>4 DEF FewInv, Reported
  <2>8. ASSUME NEW x \in Calls, twilio[x].slot # h
        PROVE  /\ twilio'[x] = twilio[x]
               /\ twilio[x].slot # NoSlot => jobs'[twilio[x].slot] = jobs[twilio[x].slot]
    BY <2>1, <2>3, <2>8 DEF TypeOK
  <2>9. ASSUME NEW x \in Calls, twilio[x].slot = h
        PROVE  /\ twilio[x].phase = "webhook" /\ twilio'[x].phase = "webhook"
               /\ twilio'[x].req = twilio[x].req /\ twilio'[x].slot = NoSlot
    BY <1>1, <2>3, <2>9 DEF OneInv, Wired
  <2> QED
    BY <1>1, <1>3, <2>6, <2>7, <2>8, <2>9, LineFew
<1>5. CASE RedisError(h)
  <2>1. PICK cut : cut = Answer(jobs[h], "hangup")
    OBVIOUS
  <2>2. jobs'[h] = cut /\ \A g \in Slots : g # h => jobs'[g] = jobs[g]
    BY <1>5, <2>1, Others DEF RedisError
  <2>3. ~Unsaved(cut) /\ twilio' = twilio /\ mail' = mail
    BY <1>5, <2>1 DEF RedisError, Unsaved, Answer, TypeOK, Job
  <2>4. Strays' \subseteq Strays
    <3>1. Strays' \subseteq Strays \cup {}
      BY <2>2, <2>3, StraysStay
    <3> QED
      BY <3>1
  <2>5. Counted' /\ Rounds' >= Rounds
    BY <1>2, <2>4, FewerStrays DEF FewInv, TypeOK
  <2>6. Reported'
    BY <2>3 DEF FewInv, Reported
  <2>7. ASSUME NEW x \in Calls, twilio[x].slot # h
        PROVE  twilio[x].slot # NoSlot => jobs'[twilio[x].slot] = jobs[twilio[x].slot]
    BY <2>2, <2>7 DEF TypeOK
  <2>8. ASSUME NEW x \in Calls, twilio[x].slot = h
        PROVE  /\ twilio[x].phase = "webhook" /\ twilio'[x] = twilio[x]
               /\ jobs'[twilio[x].slot] = Answer(jobs[twilio[x].slot], "hangup")
    BY <1>1, <2>1, <2>2, <2>3, <2>8 DEF OneInv, Wired
  <2> QED
    BY <1>1, <1>3, <2>3, <2>5, <2>6, <2>7, <2>8, LineFew
<1> QED
  BY <1>4, <1>5

\* A press of skip is a stray to come, and paid for; keys that expire leave no
\* document to dial from.
LEMMA OutsideFew ==
  ASSUME TypeOK, TypeOK', OneInv, FewInv,
         CreateCallReturns \/ PressSkip \/ TargetDeleted \/ Lull \/ Expire
  PROVE  FewInv'
<1>0. /\ spent \in [faults: Nat, late: Nat, skips: Nat, deletes: Nat, lulls: Nat]
      /\ spent.late \in Nat /\ spent.skips \in Nat /\ spent.lulls \in Nat
  BY DEF TypeOK
<1>1. CASE PressSkip
  <2>1. PICK h \in Slots : Idle(h) /\ Set(h, NewJob("load", Req("skip", ""), NoCall))
    BY <1>1 DEF PressSkip
  <2>2. /\ redis' = redis /\ legs' = legs /\ twilio' = twilio /\ mail' = mail
        /\ Use("skips")
    BY <1>1 DEF PressSkip, server
  <2>3. /\ spent'.late = spent.late /\ spent'.skips = spent.skips + 1
        /\ spent'.lulls = spent.lulls
    BY <1>0, <2>2 DEF Use
  <2>4. spent'.late + spent'.skips = spent.late + spent.skips + 1 /\ (OneCall' => OneCall)
    BY <1>0, <2>3 DEF OneCall
  <2>5. \A g \in Slots : g # h => jobs'[g] = jobs[g]
    BY <2>1, Others
  <2>6. Strays' \subseteq Strays \cup {h}
    BY <2>2, <2>5, StraysStay
  <2>7. Counted' /\ Rounds' >= Rounds
    BY <2>4, <2>6, StrayComes DEF FewInv
  <2>8. Reported'
    BY <2>2 DEF FewInv, Reported
  <2>9. ASSUME NEW x \in Calls
        PROVE  twilio[x].slot # NoSlot => jobs'[twilio[x].slot] = jobs[twilio[x].slot]
    <3>1. twilio[x].slot # h
      BY <2>1, SlotBusy
    <3> QED
      BY <2>5, <3>1 DEF TypeOK
  <2> QED
    BY <2>2, <2>4, <2>7, <2>8, <2>9, LineFew
<1>2. CASE CreateCallReturns \/ TargetDeleted \/ Lull \/ Expire
  <2>1. /\ jobs' = jobs /\ twilio' = twilio /\ mail' = mail /\ legs' = legs
        /\ redis' = redis \/ redis' = NoState
    BY <1>2 DEF CreateCallReturns, TargetDeleted, Lull, Expire, Quiet, server
  <2>2. /\ spent'.late = spent.late /\ spent'.skips = spent.skips
        /\ spent'.lulls >= spent.lulls /\ spent'.lulls \in Nat
    BY <1>0, <1>2 DEF CreateCallReturns, TargetDeleted, Lull, Expire, Quiet, Use
  <2>3. OneCall' => OneCall
    BY <1>0, <2>2 DEF OneCall
  <2>4. Strays' \subseteq Strays
    <3>1. Strays' \subseteq Strays \cup {}
      BY <2>1, StraysStay
    <3> QED
      BY <3>1
  <2>5. Counted /\ Counted' /\ Rounds' >= Rounds
    BY <1>0, <2>2, <2>4, FewerStrays DEF FewInv
  <2>6. Reported'
    BY <2>1 DEF FewInv, Reported
  <2>7. CASE redis' = redis
    BY <2>1, <2>3, <2>5, <2>6, <2>7, LineFew
  <2>8. CASE redis' = NoState
    <3> SUFFICES ASSUME OneCall, legs # <<>> PROVE Dialer(legs[1].call)'
      BY <2>1, <2>3, <2>5, <2>6 DEF FewInv
    <3>1. PICK c \in Calls : c = legs[1].call
      BY DialerIs
    <3>2. Dialer(c)
      BY <3>1 DEF FewInv
    <3>3. \A n \in Int : Fits(n) => Fits(n)'
      BY <2>1, <2>5, FitsKept
    <3>4. DialReady' /\ ReportReady' /\ Fits(0)'
      BY <2>8, <3>2, <3>3 DEF DialReady, ReportReady, Dialer
    <3>5. PICK s : s = twilio[c].slot
      OBVIOUS
    <3>6. ASSUME NEW job \in Job
          PROVE  /\ DialRoom(job) => DialRoom(job)'
                 /\ ReportRoom(job) => ReportRoom(job)'
      <4>1. Left(job.st) \in Int /\ After(job.st) \in Int
        BY Leaves DEF Job
      <4>2. /\ Fits(Left(job.st)) => Fits(Left(job.st))'
            /\ Fits(After(job.st)) => Fits(After(job.st))'
            /\ Fits(1) => Fits(1)'
        BY <3>3, <4>1 DEF After, Left
      <4> QED
        BY <2>8, <3>4, <4>2 DEF DialRoom, ReportRoom
    <3>7. s # NoSlot => /\ DialRoom(jobs[s]) => DialRoom(jobs[s])'
                        /\ ReportRoom(jobs[s]) => ReportRoom(jobs[s])'
      <4>1. s # NoSlot => jobs[s] \in Job
        BY <3>5 DEF TypeOK
      <4> QED
        BY <2>1, <3>6, <4>1
    <3>8. Dialer(c)'
      BY <2>1, <3>2, <3>4, <3>5, <3>7 DEF Dialer
    <3> QED
      BY <2>1, <3>1, <3>8
  <2> QED
    BY <2>1, <2>7, <2>8
<1> QED
  BY <1>1, <1>2

LEMMA FewStarts == Init => FewInv
<1> SUFFICES ASSUME Init PROVE FewInv
  OBVIOUS
<1>1. Strays = {}
  <2>1. \A h \in Slots : ~Unsaved(jobs[h])
    BY DEF Init, Unsaved, IdleJob, NewJob
  <2> QED
    BY <2>1 DEF Strays, Stray
<1>2. Counted
  <2>1. IsFiniteSet(Strays) /\ Cardinality(Strays) = 0
    BY <1>1, FS_EmptySet
  <2>2. spent.late = 0 /\ spent.skips = 0
    BY DEF Init
  <2> QED
    BY <2>1, <2>2 DEF Counted
<1> QED
  BY <1>2 DEF Init, FewInv, Reported

\* The invariant behind FewRedials: a repeat whose first attempt still runs, and a
\* skip, hold a round of the list from the moment they are made, and give it up when
\* they store; the call that dials has the room for what it works from.
THEOREM FewInductive == Spec => []FewInv
<1>1. TypeOK /\ TypeOK' /\ OneInv /\ OneInv' /\ FewInv /\ [Next]_vars => FewInv'
  <2> SUFFICES ASSUME TypeOK, TypeOK', OneInv, OneInv', FewInv, [Next]_vars
               PROVE  FewInv'
    OBVIOUS
  <2>1. CASE UNCHANGED vars
    <3>1. UNCHANGED <<redis, jobs, twilio, mail, legs, spent>>
      BY <2>1 DEF vars
    <3>2. Strays' \subseteq Strays
      BY <3>1 DEF Strays, Stray
    <3>3. Counted' /\ Rounds' >= Rounds
      BY <3>1, <3>2, FewerStrays DEF FewInv, TypeOK
    <3>4. Reported' /\ (OneCall' => OneCall)
      BY <3>1 DEF FewInv, Reported, OneCall
    <3> QED
      BY <3>1, <3>3, <3>4, LineFew
  <2>2. ASSUME NEW h \in Slots, Run(h) PROVE FewInv'
    BY <2>2, HandlerFew, SaveFew, ReplyFew
  <2>3. ASSUME NEW h \in Slots, Lose(h) \/ RedisError(h) PROVE FewInv'
    BY <2>3, FaultFew
  <2>4. ASSUME NEW c \in Calls, Twilio(c) PROVE FewInv'
    BY <2>4, TwilioFew
  <2>5. CASE CreateCallReturns \/ PressSkip \/ TargetDeleted \/ Lull \/ Expire
    BY <2>5, OutsideFew
  <2> QED
    BY <2>1, <2>2, <2>3, <2>4, <2>5 DEF Next
<1> QED
  BY FewStarts, <1>1, TypeCorrect, OneInductive, PTL DEF Spec

\* The supporter is never kept dialing: each repeat of a request whose first attempt
\* still runs, and each press of skip, can put back an older document once, and so
\* costs at most one more round of the list.
THEOREM FewRedialsHolds == Spec => []FewRedials
<1>1. TypeOK /\ FewInv => FewRedials
  <2> SUFFICES ASSUME TypeOK, FewInv, OneCall
               PROVE  Len(legs) <= NumTargets * (1 + spent.late + spent.skips)
    BY DEF FewRedials, OneCall
  <2>1. /\ Rounds \in Nat /\ NumTargets * Rounds \in Nat /\ Len(legs) \in Nat
        /\ NumTargets \in Nat /\ spent.late \in Nat /\ spent.skips \in Nat
    BY RoundsType, ConstantsOK DEF FewInv, TypeOK
  <2>2. Rounds <= 1 + spent.late + spent.skips
    <3>1. Cardinality(Strays) \in Nat
      BY FS_CardinalityType DEF FewInv, Counted
    <3> QED
      BY <2>1, <3>1 DEF Rounds
  <2>3. NumTargets * Rounds <= NumTargets * (1 + spent.late + spent.skips)
    <3>1. \A k, a, b \in Nat : a <= b => k * a <= k * b
      OBVIOUS
    <3>2. 1 + spent.late + spent.skips \in Nat
      BY <2>1
    <3> QED
      BY <2>1, <2>2, <3>1, <3>2
  <2>4. Len(legs) <= NumTargets * Rounds
    <3>1. CASE legs = <<>>
      BY <2>1, <3>1
    <3>2. CASE legs # <<>>
      <4>1. Fits(0)
        BY <3>2 DEF FewInv, Dialer
      <4> QED
        BY <2>1, <4>1 DEF Fits
    <3> QED
      BY <3>1, <3>2
  <2>5. NumTargets * (1 + spent.late + spent.skips) \in Nat
    BY <2>1
  <2>6. \A l, m, n \in Nat : l <= m /\ m <= n => l <= n
    OBVIOUS
  <2> QED
    BY <2>1, <2>3, <2>4, <2>5, <2>6, Zenon
<1> QED
  BY FewInductive, TypeCorrect, <1>1, PTL
=============================================================================
