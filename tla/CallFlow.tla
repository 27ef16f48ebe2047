------------------------------ MODULE CallFlow ------------------------------
(***************************************************************************)
(* One call session of the backend, from the moment its state is stored    *)
(* until every webhook about it has been answered: the Twilio webhook       *)
(* handlers of api/v1/webhooks.py, the skip endpoint and the tail of        *)
(* create_call, run as concurrent jobs over                                 *)
(*   redis    the key call_session:{id}, one JSON document read and written *)
(*            whole, with no compare-and-set;                               *)
(*   bind     the key call_sid_bind:{id};                                   *)
(*   session  the call_sessions row;   rows   its calls rows;               *)
(*   present  the target rows (by index in the session's list) that exist.  *)
(* A job makes one step per access to Redis or the database, so the steps   *)
(* of two jobs interleave at every await.  Twilio is the environment: it    *)
(* fetches TwiML, retries, dials, and posts status callbacks in any order.  *)
(* Sessions share no key and no row, so one session is the whole story; the *)
(* ceiling they share is the subject of CallCeiling.                        *)
(***************************************************************************)
EXTENDS Integers, Sequences, FiniteSets

CONSTANTS
  Calls,       \* parent CallSids that may reach this session
  Matching,    \* those whose From / To fits the session's identity or number
  NoCall,      \* no CallSid
  NoState,     \* the call_session key is absent
  NumTargets,  \* len(target_ids)
  Webrtc,      \* connection_type = "webrtc" rather than "outbound_phone"
  Slots,       \* jobs the server can be running at once (bound)
  NoSlot,
  MaxFaults,   \* jobs lost, or cut short by a Redis error (bound)
  MaxLate,     \* requests re-sent while the first attempt still runs (bound)
  MaxSkips,    \* presses of the skip button (bound)
  MaxDeletes,  \* target rows deleted during the session (bound)
  MaxLulls     \* two-hour silences, after which keys expire (bound)

ASSUME ConstantsOK ==
  /\ Matching \subseteq Calls
  /\ NoCall \notin Calls
  /\ NoSlot \notin Slots
  /\ NumTargets \in Nat \ {0}
  /\ Webrtc \in BOOLEAN
  /\ {MaxFaults, MaxLate, MaxSkips, MaxDeletes, MaxLulls} \subseteq Nat

VARIABLES redis, bind, session, rows, present, creating,
          jobs,            \* the handlers running now
          twilio, mail,    \* each call at Twilio; its detached callbacks
          clock,           \* which keys are about to expire
          legs, asked,     \* history: the dials made, the presses of skip
          spent            \* how much of each bound is used

server == <<redis, bind, session, rows, present, creating>>
vars == <<redis, bind, session, rows, present, creating, jobs, twilio, mail,
          clock, legs, asked, spent>>

None == -1
MaxGatherAttempts == 2
Terminal == {"completed", "failed"}
SessionStatus == {"initiated", "in_progress"} \cup Terminal

\* CALL_STATUS_TO_SESSION_STATUS and DIAL_STATUS_TO_CALL_STATUS, on one
\* representative of each class of statuses that the map sends to one value.
SessionStatusOf == [s \in {"in-progress", "completed", "no-answer"} |->
                      CASE s = "in-progress" -> "in_progress"
                        [] s = "completed" -> "completed"
                        [] OTHER -> "failed"]
CallStatusOf_Raw == [s \in {"completed", "no-answer"} |-> s]   \* bug: not mapped
CallStatusOf == [s \in {"completed", "no-answer"} |->
                   IF s = "completed" THEN "completed" ELSE "no_answer"]
RowStatus == {"completed", "no_answer", "skipped"}
\* A calls row; "leg" is history: the dial that the inserting callback reported.
Row == [sid: (Calls \cup {NoCall}) \X Nat \X (Nat \cup {None}),
        target: Nat \cup {None}, leg: Nat, status: RowStatus]

State == [idx: Nat, dialed: Nat \cup {None}, done: SUBSET Nat,
          skip: Nat \cup {None}, sid: Calls \cup {NoCall}, attempts: Nat]
FreshState == [idx |-> 0, dialed |-> None, done |-> {}, skip |-> None,
               sid |-> NoCall, attempts |-> 0]

\* What Twilio (or the widget, for skip) can ask: a webhook, the keypad or the
\* status it reports, and for a leg its dial and whether it had a child call.
Requests(kinds, outs) == [kind: kinds, out: outs, leg: Nat, child: BOOLEAN]
Request == Requests({"voice", "dial", "skip"}, {""})
           \cup Requests({"make"}, {"digits", "silence"})
           \cup Requests({"status"}, DOMAIN SessionStatusOf)
           \cup Requests({"complete"}, DOMAIN CallStatusOf)
Req(kind, out) == [kind |-> kind, out |-> out, leg |-> 0, child |-> FALSE]
LegReq(out, leg, child) ==
  [kind |-> "complete", out |-> out, leg |-> leg, child |-> child]

Job == [pc: {"idle", "load", "claim", "holder", "save", "admit", "target",
             "dedupe", "insert", "finish", "tally", "close", "abandon", "reply"},
        req: Request, call: Calls \cup {NoCall}, st: State,
        popped: Nat \cup {None}, retried: BOOLEAN,
        ans: {"none", "hangup", "goodbye", "gather", "redirect", "dial", "finish"},
        to: Nat]
NewJob(pc, req, c) ==
  [pc |-> pc, req |-> req, call |-> c, st |-> FreshState, popped |-> None,
   retried |-> FALSE, ans |-> "none", to |-> 0]
IdleJob == NewJob("idle", Req("skip", ""), NoCall)
Idle(h) == jobs[h].pc = "idle"
At(h, kind, pc) == jobs[h].req.kind = kind /\ jobs[h].pc = pc

Set(h, job) == jobs' = [jobs EXCEPT ![h] = job]
Answer(job, verb) == [job EXCEPT !.pc = "reply", !.ans = verb]
\* Store the document, then give the answer.
Saving(job, st, verb) == [job EXCEPT !.pc = "save", !.st = st, !.ans = verb]

LegSid_ParentOnly(job, idx) == \* bug: every leg without a child has one key
  IF job.req.child THEN <<job.call, job.req.leg, None>> ELSE <<job.call, 0, None>>
LegSid(job, idx) == \* dial_call_sid or f"{parent_call_sid}:{idx}"
  IF job.req.child THEN <<job.call, job.req.leg, None>> ELSE <<job.call, 0, idx>>
Logged(sid) == \E r \in rows : r.sid = sid

Init ==
  /\ redis = FreshState
  /\ bind = NoCall
  /\ session = [status |-> "initiated", sid |-> NoCall]
  /\ rows = {}
  /\ present = 0 .. NumTargets - 1
  /\ creating = ~Webrtc
  /\ jobs = [h \in Slots |-> IdleJob]
  /\ twilio = [c \in Calls |->
                 [phase |-> "new", req |-> Req("voice", ""), slot |-> NoSlot]]
  /\ mail = [c \in Calls |-> {}]
  /\ clock = [aged |-> {}, stateLast |-> TRUE]
  /\ legs = <<>>
  /\ asked = [legs |-> {}, blind |-> FALSE, late |-> FALSE]
  /\ spent = [faults |-> 0, late |-> 0, skips |-> 0, deletes |-> 0, lulls |-> 0]

-----------------------------------------------------------------------------
(* _bound_state, at the head of every TwiML handler and of skip.           *)

Readable_Unbound(h) == redis # NoState   \* bug: any call may read the state
Readable(h) ==
  /\ redis # NoState
  /\ \/ jobs[h].req.kind = "skip"
     \/ redis.sid \in {NoCall, jobs[h].call}
Admissible(h) == jobs[h].req.kind = "voice" => jobs[h].call \in Matching

RejectUnbound(h) ==
  /\ jobs[h].pc = "load"
  /\ ~(Readable(h) /\ Admissible(h))
  /\ Set(h, Answer(jobs[h], "hangup"))
  /\ UNCHANGED <<server, twilio, mail, clock, legs, asked, spent>>

Loads(h, kind) ==
  /\ At(h, kind, "load")
  /\ Readable(h) /\ Admissible(h)
  /\ UNCHANGED <<server, twilio, mail, clock, legs, spent>>

Quiet == UNCHANGED <<twilio, mail, legs, asked, spent>>

\* save_call_state: SET of the whole document.
SaveState(h) ==
  /\ jobs[h].pc = "save"
  /\ redis' = jobs[h].st
  /\ clock' = [aged |-> clock.aged \ {"state"}, stateLast |-> TRUE]
  /\ Set(h, IF jobs[h].req.kind = "skip" THEN IdleJob
            ELSE [jobs[h] EXCEPT !.pc =
                    IF jobs[h].req.kind = "voice" THEN "admit"
                    ELSE IF jobs[h].ans = "finish" THEN "finish" ELSE "reply"])
  /\ UNCHANGED <<bind, session, rows, present, creating>> /\ Quiet

-----------------------------------------------------------------------------
(* voice-app                                                               *)

VoiceLoad(h) ==
  /\ Loads(h, "voice")
  /\ Set(h, [jobs[h] EXCEPT !.pc = "claim", !.st = redis])
  /\ UNCHANGED asked

Claimed(job) == Saving(job, [job.st EXCEPT !.sid = job.call], "none")

\* SET call_sid_bind NX
VoiceClaim(h) ==
  /\ At(h, "voice", "claim")
  /\ \/ /\ bind = NoCall
        /\ bind' = jobs[h].call
        /\ clock' = [aged |-> clock.aged \ {"bind"}, stateLast |-> FALSE]
        /\ Set(h, Claimed(jobs[h]))
     \/ /\ bind # NoCall
        /\ Set(h, [jobs[h] EXCEPT !.pc = "holder"])
        /\ UNCHANGED <<bind, clock>>
  /\ UNCHANGED <<redis, session, rows, present, creating>> /\ Quiet

\* GET call_sid_bind after a lost SET NX; an expired holder is retried once.
VoiceHolder(h) ==
  LET job == jobs[h] IN
  /\ At(h, "voice", "holder")
  /\ \/ /\ bind = job.call
        /\ Set(h, Claimed(job))
     \/ /\ bind = NoCall /\ ~job.retried
        /\ Set(h, [job EXCEPT !.pc = "claim", !.retried = TRUE])
     \/ /\ bind # job.call
        /\ bind = NoCall => job.retried
        /\ Set(h, Answer(job, "hangup"))
  /\ UNCHANGED <<server, clock>> /\ Quiet

\* The campaign, rate-limit and blocklist checks may refuse; otherwise the
\* session row takes the CallSid and in_progress, whatever it held.
VoiceAdmit(h) ==
  /\ At(h, "voice", "admit")
  /\ \/ /\ Set(h, Answer(jobs[h], "hangup"))
        /\ UNCHANGED session
     \/ /\ session' = [status |-> "in_progress", sid |-> jobs[h].call]
        /\ Set(h, Answer(jobs[h], IF Webrtc THEN "redirect" ELSE "gather"))
  /\ UNCHANGED <<redis, bind, rows, present, creating, clock>> /\ Quiet

-----------------------------------------------------------------------------
(* make-calls                                                              *)

MakeCalls_Uncounted(h) ==   \* bug: the attempt is not counted
  /\ Loads(h, "make")
  /\ IF jobs[h].req.out = "digits"
     THEN Set(h, Answer(jobs[h], "redirect"))
     ELSE Set(h, Saving(jobs[h], redis, IF redis.attempts + 1 < MaxGatherAttempts
                                        THEN "gather" ELSE "goodbye"))
  /\ UNCHANGED asked
MakeCalls(h) ==
  /\ Loads(h, "make")
  /\ IF jobs[h].req.out = "digits"
     THEN Set(h, Answer(jobs[h], "redirect"))
     ELSE LET attempts == redis.attempts + 1 IN
          Set(h, Saving(jobs[h], [redis EXCEPT !.attempts = attempts],
                        IF attempts < MaxGatherAttempts THEN "gather"
                                                        ELSE "goodbye"))
  /\ UNCHANGED asked

-----------------------------------------------------------------------------
(* dial-target                                                             *)

DialLoad(h) ==
  /\ Loads(h, "dial")
  /\ Set(h, IF redis.idx >= NumTargets
            THEN Answer(jobs[h], "goodbye")
            ELSE [jobs[h] EXCEPT !.pc = "target", !.st = redis])
  /\ UNCHANGED asked

\* Dial, recording the index first unless a retry finds it recorded.
Dialing_Unrecorded(job) ==   \* bug: dialed_index stays None
  Answer([job EXCEPT !.to = job.st.idx], "dial")
Dialing(job) ==
  LET dial == [job EXCEPT !.to = job.st.idx] IN
  IF job.st.dialed = job.st.idx THEN Answer(dial, "dial")
  ELSE Saving(dial, [job.st EXCEPT !.dialed = job.st.idx], "dial")

\* A target whose row disappeared is passed over.
DialTarget(h) ==
  LET job == jobs[h]
      next == job.st.idx + 1
  IN
  /\ At(h, "dial", "target")
  /\ Set(h, IF job.st.idx \in present THEN Dialing(job)
            ELSE Saving(job, [job.st EXCEPT !.idx = next],
                        IF next < NumTargets THEN "redirect" ELSE "goodbye"))
  /\ UNCHANGED <<server, clock>> /\ Quiet

-----------------------------------------------------------------------------
(* call-complete                                                           *)

\* A repeat recognised from the state alone, when there is no DialCallSid.
SeenInState_DoneOnly(st) == st.idx \in st.done   \* bug: dialed_index ignored
SeenInState(st) == st.idx \in st.done \/ st.dialed \notin {None, st.idx}
LegIndex(st) == IF st.dialed # None THEN st.dialed ELSE st.idx
Advances(st, dup) == ~dup \/ (st.dialed = st.idx /\ st.idx \notin st.done)

\* What is left once it is known whether the callback is a repeat: advance the
\* index (or store the popped marker), and choose the answer.
Settle_Loops(job, st, dup, popped) ==   \* bug: a repeat neither advances nor stops
  LET next == IF dup THEN st.idx ELSE st.idx + 1
      verb == IF next < NumTargets THEN "redirect" ELSE "finish"
  IN Saving(job, [st EXCEPT !.idx = next, !.done = @ \cup (st.idx .. next - 1)], verb)
Settle_Forgets(job, st, dup, popped) ==   \* bug: the advanced index is not stored
  LET advance == Advances(st, dup)
      verb == IF ~advance THEN "goodbye"
              ELSE IF st.idx + 1 < NumTargets THEN "redirect" ELSE "finish"
  IN Saving(job, [st EXCEPT !.done = @ \cup {st.idx}], verb)
Settle(job, st, dup, popped) ==
  LET advance == Advances(st, dup)
      next == IF advance THEN st.idx + 1 ELSE st.idx
      verb == IF next <= LegIndex(st) THEN "goodbye"
              ELSE IF next < NumTargets THEN "redirect" ELSE "finish"
  IN IF advance
     THEN Saving(job, [st EXCEPT !.idx = next, !.done = @ \cup {st.idx}], verb)
     ELSE IF popped # None THEN Saving(job, st, verb)
     ELSE IF verb = "finish" THEN [job EXCEPT !.pc = "finish", !.ans = verb]
     ELSE Answer(job, verb)

\* A first report pops the skip marker; a leg with a target is inserted next.
Sorted(job, st, dup) ==
  IF dup THEN Settle(job, st, TRUE, None)
  ELSE LET popped == [st EXCEPT !.skip = None] IN
       IF st.idx < NumTargets
       THEN [job EXCEPT !.pc = "insert", !.st = popped, !.popped = st.skip]
       ELSE Settle(job, popped, FALSE, st.skip)

CompleteLoad(h) ==
  /\ Loads(h, "complete")
  /\ Set(h, IF jobs[h].req.child
            THEN [jobs[h] EXCEPT !.pc = "dedupe", !.st = redis]
            ELSE Sorted(jobs[h], redis, SeenInState(redis)))
  /\ UNCHANGED asked

\* SELECT of the DialCallSid among the session's rows
CompleteDedupe(h) ==
  LET job == jobs[h] IN
  /\ At(h, "complete", "dedupe")
  /\ Set(h, Sorted(job, job.st, Logged(LegSid(job, job.st.idx))))
  /\ UNCHANGED <<server, clock>> /\ Quiet

RowOf_AnyMarker(job) ==   \* bug: a marker for another target counts
  [sid |-> LegSid(job, job.st.idx), target |-> job.st.idx, leg |-> job.req.leg,
   status |-> IF job.popped # None THEN "skipped" ELSE CallStatusOf[job.req.out]]
RowOf(job) ==
  LET status == CallStatusOf[job.req.out] IN
  [sid |-> LegSid(job, job.st.idx), target |-> job.st.idx, leg |-> job.req.leg,
   status |-> IF job.popped = job.st.idx /\ status = "completed"
              THEN "skipped" ELSE status]

\* INSERT and commit.  An IntegrityError -- the unique index on the leg SID, or
\* the foreign key of a target deleted meanwhile -- is read as a repeat.
CompleteInsert(h) ==
  LET job == jobs[h]
      dup == Logged(LegSid(job, job.st.idx)) \/ job.st.idx \notin present
  IN
  /\ At(h, "complete", "insert")
  /\ rows' = IF dup THEN rows ELSE rows \cup {RowOf(job)}
  /\ Set(h, Settle(job, job.st, dup, job.popped))
  /\ UNCHANGED <<redis, bind, session, present, creating, clock>> /\ Quiet

\* All targets done: UPDATE the session unless it is already terminal.
CompleteFinish_Unguarded(h) ==   \* bug: no check that the session is still open
  /\ At(h, "complete", "finish")
  /\ session' = [session EXCEPT !.status = "completed"]
  /\ Set(h, Answer(jobs[h], "goodbye"))
  /\ UNCHANGED <<redis, bind, rows, present, creating, clock>> /\ Quiet
CompleteFinish(h) ==
  /\ At(h, "complete", "finish")
  /\ session' = [session EXCEPT !.status = IF @ \in Terminal THEN @ ELSE "completed"]
  /\ Set(h, Answer(jobs[h], "goodbye"))
  /\ UNCHANGED <<redis, bind, rows, present, creating, clock>> /\ Quiet

-----------------------------------------------------------------------------
(* status-callback, the skip endpoint, the tail of create_call             *)

\* _session_has_calls: without a Call row a completed call was abandoned.
StatusTally_Trusting(h) ==   \* bug: Twilio's "completed" is taken for work done
  /\ At(h, "status", "tally")
  /\ Set(h, [jobs[h] EXCEPT !.pc = IF session.sid = jobs[h].call THEN "close"
                                                               ELSE "abandon"])
  /\ UNCHANGED <<server, clock>> /\ Quiet
StatusTally(h) ==
  LET worked == session.sid = jobs[h].call /\ rows # {} IN
  /\ At(h, "status", "tally")
  /\ Set(h, [jobs[h] EXCEPT !.pc = IF worked THEN "close" ELSE "abandon"])
  /\ UNCHANGED <<server, clock>> /\ Quiet

StatusClose(h) ==
  LET job == jobs[h]
      status == IF job.pc = "abandon" THEN "failed" ELSE SessionStatusOf[job.req.out]
  IN
  /\ At(h, "status", "close") \/ At(h, "status", "abandon")
  /\ session' = IF session.sid = job.call /\ session.status \notin Terminal
                THEN [session EXCEPT !.status = status] ELSE session
  /\ Set(h, IdleJob)
  /\ UNCHANGED <<redis, bind, rows, present, creating, clock>> /\ Quiet

SkipLoad(h) ==
  /\ Loads(h, "skip")
  /\ Set(h, Saving(jobs[h], [redis EXCEPT !.skip = redis.idx], "none"))
  /\ UNCHANGED asked

\* provider.create_call returned, or raised: then the session is failed.
CreateCallReturns ==
  /\ creating
  /\ creating' = FALSE
  /\ \/ UNCHANGED session
     \/ session' = [session EXCEPT !.status = "failed"]
  /\ UNCHANGED <<redis, bind, rows, present, jobs, clock>> /\ Quiet

-----------------------------------------------------------------------------
(* Answers, and what Twilio does with them                                 *)

Ended(c) == twilio' = [twilio EXCEPT ![c].phase = "ended", ![c].slot = NoSlot]
Fetch(c, req) ==
  twilio' = [twilio EXCEPT ![c] = [phase |-> "webhook", req |-> req, slot |-> NoSlot]]
Post(c, req) == mail' = [mail EXCEPT ![c] = @ \cup {req}]
Awaited(h) == \E c \in Calls : twilio[c].slot = h

\* The job ends; nobody waits for what it says.
Discard(h) ==
  /\ jobs[h].pc = "reply"
  /\ ~Awaited(h)
  /\ Set(h, IdleJob)
  /\ UNCHANGED <<server, twilio, mail, clock, legs, asked, spent>>

Reply(h) ==
  LET ans == jobs[h].ans IN
  \E c \in Calls :
    /\ jobs[h].pc = "reply"
    /\ twilio[c].slot = h
    /\ \/ /\ ans \in {"hangup", "goodbye"}
          /\ Ended(c) /\ Post(c, Req("status", "completed"))
          /\ UNCHANGED legs
       \/ /\ ans = "gather"
          /\ twilio' = [twilio EXCEPT ![c].phase = "gather", ![c].slot = NoSlot]
          /\ UNCHANGED <<mail, legs>>
       \/ /\ ans = "redirect"
          /\ Fetch(c, Req("dial", ""))
          /\ UNCHANGED <<mail, legs>>
       \/ /\ ans = "dial"
          /\ twilio' = [twilio EXCEPT ![c] =
                          [phase |-> "dialing", slot |-> NoSlot,
                           req |-> LegReq("completed", Len(legs) + 1, TRUE)]]
          /\ legs' = Append(legs, [call |-> c, index |-> jobs[h].to])
          /\ UNCHANGED mail
    /\ Set(h, IdleJob)
    /\ UNCHANGED <<server, clock, asked, spent>>

AnswerCall(c) ==
  /\ twilio[c].phase = "new"
  /\ Fetch(c, Req("voice", ""))
  /\ Post(c, Req("status", "in-progress"))
  /\ UNCHANGED <<server, jobs, clock, legs, asked, spent>>

NoAnswer(c) ==
  /\ twilio[c].phase = "new" /\ ~Webrtc
  /\ Ended(c) /\ Post(c, Req("status", "no-answer"))
  /\ UNCHANGED <<server, jobs, clock, legs, asked, spent>>

Gathered(c) ==
  /\ twilio[c].phase = "gather"
  /\ \E out \in {"digits", "silence"} : Fetch(c, Req("make", out))
  /\ UNCHANGED <<server, jobs, mail, clock, legs, asked, spent>>

\* A leg Twilio made no child call for has failed and has no DialCallSid.
LegReports(leg) ==
  {LegReq("completed", leg, TRUE), LegReq("no-answer", leg, TRUE),
   LegReq("no-answer", leg, FALSE)}

\* History: a press whose POST is still being served comes too late for its leg.
Skipping == \E h \in Slots : jobs[h].req.kind = "skip" /\ jobs[h].pc \in {"load", "save"}
Lapses == asked' = [asked EXCEPT !.late = @ \/ Skipping]

LegEnds(c) ==
  /\ twilio[c].phase = "dialing"
  /\ \E report \in LegReports(twilio[c].req.leg) : Fetch(c, report)
  /\ Lapses
  /\ UNCHANGED <<server, jobs, mail, clock, legs, spent>>

\* The supporter hangs up; a leg that was up is reported, nobody waiting.
HangUp(c) ==
  /\ twilio[c].phase \in {"webhook", "gather", "dialing"}
  /\ Ended(c)
  /\ LET done == Req("status", "completed") IN
     IF twilio[c].phase = "dialing"
     THEN /\ mail' = [mail EXCEPT ![c] = @ \cup
                        {done, LegReq("completed", twilio[c].req.leg, TRUE)}]
          /\ Lapses
     ELSE Post(c, done) /\ UNCHANGED asked
  /\ UNCHANGED <<server, jobs, clock, legs, spent>>

Use(bound) == spent' = [spent EXCEPT ![bound] = @ + 1]

\* Twilio sends, or sends again, the request it wants answered.
Deliver(c) ==
  /\ twilio[c].phase = "webhook" /\ twilio[c].slot = NoSlot
  /\ \E h \in Slots :
       /\ Idle(h)
       /\ Set(h, NewJob("load", twilio[c].req, c))
       /\ twilio' = [twilio EXCEPT ![c].slot = h]
  /\ UNCHANGED <<server, mail, clock, legs, asked, spent>>

\* The answer is late: Twilio will send the request again while the first job runs.
TimeOut(c) ==
  /\ twilio[c].phase = "webhook" /\ twilio[c].slot # NoSlot
  /\ spent.late < MaxLate /\ Use("late")
  /\ twilio' = [twilio EXCEPT ![c].slot = NoSlot]
  /\ UNCHANGED <<server, jobs, mail, clock, legs, asked>>

\* A detached callback arrives, or (within MaxLate) arrives and will again.
DeliverMail(c) ==
  /\ \E m \in mail[c], h \in Slots :
       /\ Idle(h)
       /\ Set(h, NewJob(IF m.kind # "status" THEN "load"
                        ELSE IF m.out = "completed" THEN "tally" ELSE "close", m, c))
       /\ \/ /\ mail' = [mail EXCEPT ![c] = @ \ {m}]
             /\ UNCHANGED spent
          \/ /\ spent.late < MaxLate /\ Use("late")
             /\ UNCHANGED mail
  /\ UNCHANGED <<server, twilio, clock, legs, asked>>

\* The supporter presses skip on whoever is on the line, if anybody is.
OnLine == {twilio[c].req.leg : c \in {d \in Calls : twilio[d].phase = "dialing"}}
PressSkip ==
  /\ spent.skips < MaxSkips /\ Use("skips")
  /\ \E h \in Slots : Idle(h) /\ Set(h, NewJob("load", Req("skip", ""), NoCall))
  /\ asked' = [asked EXCEPT !.legs = @ \cup OnLine, !.blind = @ \/ OnLine = {}]
  /\ UNCHANGED <<server, twilio, mail, clock, legs>>

-----------------------------------------------------------------------------
(* Faults                                                                  *)

\* The job dies unanswered.  Twilio still wants an answer it waits for, and sends a
\* status callback again; the leg report of a call hung up is not sent again.
Lose(h) ==
  LET job == jobs[h] IN
  /\ ~Idle(h)
  /\ spent.faults < MaxFaults /\ Use("faults")
  /\ Set(h, IdleJob)
  /\ twilio' = [c \in Calls |-> IF twilio[c].slot = h
                                THEN [twilio[c] EXCEPT !.slot = NoSlot] ELSE twilio[c]]
  /\ IF job.req.kind = "status"
     THEN Post(job.call, job.req) ELSE UNCHANGED mail
  /\ UNCHANGED <<server, clock, legs, asked>>

\* _twiml_on_error: a RedisError is answered with a hangup.
RedisError(h) ==
  /\ jobs[h].pc \in {"load", "claim", "holder", "save"}
  /\ spent.faults < MaxFaults /\ Use("faults")
  /\ Set(h, Answer(jobs[h], "hangup"))
  /\ UNCHANGED <<server, twilio, mail, clock, legs, asked>>

\* The row goes; the calls rows keep a null target (ON DELETE SET NULL).
TargetDeleted ==
  /\ spent.deletes < MaxDeletes /\ Use("deletes")
  /\ \E i \in present :
       /\ present' = present \ {i}
       /\ rows' = {[r EXCEPT !.target = IF @ = i THEN None ELSE @] : r \in rows}
  /\ UNCHANGED <<redis, bind, session, creating, jobs, twilio, mail, clock, legs, asked>>

\* CALL_SESSION_TTL is two hours; a job lasts seconds and Twilio waits for TwiML
\* no longer, so keys come to their end only across a silence of both.
Lull ==
  /\ \A h \in Slots : Idle(h)
  /\ \A c \in Calls : twilio[c].phase # "webhook"
  /\ spent.lulls < MaxLulls /\ Use("lulls")
  /\ clock' = [clock EXCEPT !.aged = {"state", "bind"}]
  /\ UNCHANGED <<server, jobs, twilio, mail, legs, asked>>

\* The keys live equally long: the one written first goes first.
Expire ==
  /\ \/ /\ "bind" \in clock.aged /\ bind # NoCall
        /\ clock.stateLast \/ redis = NoState
        /\ bind' = NoCall /\ UNCHANGED redis
     \/ /\ "state" \in clock.aged /\ redis # NoState
        /\ ~clock.stateLast \/ bind = NoCall
        /\ redis' = NoState /\ UNCHANGED bind
  /\ UNCHANGED <<session, rows, present, creating, jobs, clock>> /\ Quiet

-----------------------------------------------------------------------------

VoiceApp(h) == VoiceLoad(h) \/ VoiceClaim(h) \/ VoiceHolder(h) \/ VoiceAdmit(h)
CallComplete(h) ==
  CompleteLoad(h) \/ CompleteDedupe(h) \/ CompleteInsert(h) \/ CompleteFinish(h)

Run(h) ==
  \/ RejectUnbound(h) \/ VoiceApp(h) \/ MakeCalls(h)
  \/ DialLoad(h) \/ DialTarget(h) \/ CallComplete(h)
  \/ StatusTally(h) \/ StatusClose(h) \/ SkipLoad(h)
  \/ SaveState(h) \/ Discard(h) \/ Reply(h)

Twilio(c) ==
  \/ AnswerCall(c) \/ NoAnswer(c) \/ Gathered(c) \/ LegEnds(c) \/ HangUp(c)
  \/ Deliver(c) \/ TimeOut(c) \/ DeliverMail(c)

Next ==
  \/ \E h \in Slots : Run(h) \/ Lose(h) \/ RedisError(h)
  \/ \E c \in Calls : Twilio(c)
  \/ CreateCallReturns \/ PressSkip \/ TargetDeleted \/ Lull \/ Expire

Spec == Init /\ [][Next]_vars

\* The event loop runs every handler on; Twilio sends what it wants answered,
\* gives up on a silent keypad and a ringing target (Gather and Dial time out).
Fairness ==
  /\ \A h \in Slots : WF_vars(Run(h))
  /\ \A c \in Calls : WF_vars(Deliver(c)) /\ WF_vars(Gathered(c))
                      /\ WF_vars(LegEnds(c)) /\ WF_vars(DeliverMail(c))
FairSpec == Spec /\ Fairness
-----------------------------------------------------------------------------
(* Correctness                                                             *)

\* Every variable holds a value of its type.
TypeOK ==
  /\ redis \in State \cup {NoState}
  /\ bind \in Calls \cup {NoCall}
  /\ session \in [status: SessionStatus, sid: Calls \cup {NoCall}]
  /\ rows \subseteq Row
  /\ present \subseteq 0 .. NumTargets - 1
  /\ creating \in BOOLEAN
  /\ jobs \in [Slots -> Job]
  /\ twilio \in [Calls -> [phase: {"new", "webhook", "gather", "dialing", "ended"},
                           req: Request, slot: Slots \cup {NoSlot}]]
  /\ mail \in [Calls -> SUBSET Request]
  /\ clock \in [aged: SUBSET {"state", "bind"}, stateLast: BOOLEAN]
  /\ legs \in Seq([call: Calls, index: Nat])
  /\ asked \in [legs: SUBSET Nat, blind: BOOLEAN, late: BOOLEAN]
  /\ spent \in [faults: Nat, late: Nat, skips: Nat, deletes: Nat, lulls: Nat]

\* The calls that were let into the session: those that had a target dialed for
\* them, that have the session row, or that own the stored state.
Served == {legs[k].call : k \in DOMAIN legs} \cup
          ({session.sid, IF redis = NoState THEN NoCall ELSE redis.sid} \ {NoCall})

\* A session id serves one Twilio call, whichever of the racing calls claims it
\* first: _claim_call_sid and _bound_state together, across expired keys.
ServesOneCall ==
  (spent.skips = 0 \/ spent.lulls = 0) => \A c, d \in Served : c = d

\* A leg is logged at most once, under whichever key (call_complete: "a repeat
\* never writes a second Call row").
OneRowPerLeg == \A r, q \in rows : r.leg = q.leg => r = q

\* A row names the target its leg really dialed.
RowNamesDialedTarget ==
  \A r \in rows : r.target \in {legs[r.leg].index, None}

\* No target is dialed a second time in a session.
NeverRedials ==
  \A j, k \in DOMAIN legs : legs[j].index = legs[k].index => j = k

\* A late repeat or a skip press that overwrites the state with an older one
\* costs at most one more round of the list: the supporter is never kept dialing.
\* Two calls may dial the list at once where one session can serve two.
FewRedials ==
  (spent.skips = 0 \/ spent.lulls = 0) =>
    Len(legs) <= NumTargets * (1 + spent.late + spent.skips)

\* A leg the state counts as completed has its row.
CompletedLegsLogged ==
  redis # NoState => redis.done \subseteq {legs[r.leg].index : r \in rows}

\* Every press found a leg up, and was served before that leg ended: the widget
\* offers skip while a target is on the line, and hangs the leg up afterwards.
Timely == ~asked.blind /\ ~asked.late
Skipped == {r \in rows : r.status = "skipped"}

\* Then the leg that is logged skipped is one the supporter asked to skip, not the
\* target the session has come to since; and it is not logged completed instead,
\* unless the press or the marker was lost (call_complete and request_skip).
TimelySkips ==
  Timely /\ spent.late = 0 /\ spent.lulls = 0 =>
    /\ \A r \in Skipped : r.leg \in asked.legs
    /\ spent.faults = 0 => \A r \in rows : r.leg \in asked.legs => r.status # "completed"

\* However late, a press skips one target at most (one more for a marker that a
\* lost handler left behind: the row was committed, the document was not stored).
FewSkips ==
  spent.late = 0 /\ spent.lulls = 0 => Cardinality(Skipped) <= spent.skips + spent.faults

\* What one press of skip may do, in time and late.
SkippedAsAsked == TimelySkips /\ FewSkips

\* "A signal for an index the flow has already left is therefore harmless"
\* (calls.py, request_skip).  Not true of the code: a press served after the report
\* of its leg was stored marks the next target.
LateSkipsHarmless == ~asked.blind => \A r \in Skipped : r.leg \in asked.legs

\* A completed session logged a call ("only Call rows prove work happened"),
\* unless a target's row went away under it.
CompletedMeansCalled ==
  spent.deletes = 0 /\ session.status = "completed" => rows # {}

\* "CallSession statuses that no later callback may move away from" (webhooks.py,
\* _TERMINAL_SESSION_STATUSES).  Not true of the code: the UPDATEs of voice-app and
\* of a raising create_call do not look at the status they replace.
TerminalSticks ==
  [][session.status \in Terminal => session'.status = session.status]_session

\* Only voice-app and a raising create_call move a session out of a terminal
\* status; the skip, status and leg callbacks never do.
OnlyVoiceReopens ==
  [][(session.status \in Terminal /\ session'.status # session.status)
       => \/ \E h \in Slots : VoiceAdmit(h)
          \/ CreateCallReturns]_vars

\* Nothing about the call is under way or still to arrive.
Quiescent == /\ \A h \in Slots : Idle(h)
             /\ \A c \in Calls : twilio[c].phase = "ended" /\ mail[c] = {}
             /\ ~creating

\* Once all is over the session has reached a terminal status.  Not true of the
\* code: a call that never reached voice-app's UPDATE has left no CallSid for
\* status-callback to find the session by.
EverySessionCloses == Quiescent => session.status \in Terminal

\* Every call that was answered ends: no webhook chain goes round for ever.
AnsweredCallEnds ==
  \A c \in Calls : twilio[c].phase # "new" ~> twilio[c].phase = "ended"
=============================================================================
