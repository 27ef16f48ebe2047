---------------------------- MODULE CallCeiling -----------------------------
(***************************************************************************)
(* The lifetime call ceiling that the sessions of one campaign share:       *)
(* reserve_call_slot and start_call_session of api/v1/helpers.py, as         *)
(* create_call and create_voice_token run them, against the writes of the    *)
(* webhooks that change which sessions count.  CallFlow shows one session in  *)
(* full; here a session is its status.                                       *)
(***************************************************************************)
EXTENDS Naturals, FiniteSets

CONSTANTS
  Sessions,     \* the requests to start a call, and the session each opens
  NoSession,
  CallMaximum   \* campaign.call_maximum

ASSUME ConstantsOK ==
  /\ IsFiniteSet(Sessions) /\ NoSession \notin Sessions
  /\ CallMaximum \in Nat \ {0}

VARIABLES
  request,   \* how far each request is
  lock,      \* the request that holds the campaign's advisory lock
  status,    \* call_sessions.status; "none" before the insert
  ringing,   \* sessions whose voice-app request is still to come
  waiting    \* history: how many could still connect when the ceiling was reached

vars == <<request, lock, status, ringing, waiting>>

Connected == {s \in Sessions : status[s] \in {"in_progress", "completed"}}
Reached == Cardinality(Connected) >= CallMaximum

Init ==
  /\ request = [s \in Sessions |-> "new"]
  /\ lock = NoSession
  /\ status = [s \in Sessions |-> "none"]
  /\ ringing = {}
  /\ waiting = 0

Goto(s, stage) == request' = [request EXCEPT ![s] = stage]
At(s, stage) == request[s] = stage

\* pg_advisory_xact_lock
Lock_Shared(s) ==   \* bug: the lock does not exclude
  /\ At(s, "new")
  /\ Goto(s, "count")
  /\ UNCHANGED <<lock, status, ringing, waiting>>
Lock(s) ==
  /\ At(s, "new") /\ lock = NoSession
  /\ lock' = s
  /\ Goto(s, "count")
  /\ UNCHANGED <<status, ringing, waiting>>

\* SELECT count; a refusal ends the transaction, and with it the lock.
Count_KeepsLock(s) ==   \* bug: the refusal leaves the transaction open
  /\ At(s, "count")
  /\ Goto(s, IF Reached THEN "refused" ELSE "insert")
  /\ UNCHANGED <<lock, status, ringing, waiting>>
Count(s) ==
  /\ At(s, "count")
  /\ IF Reached
     THEN Goto(s, "refused") /\ lock' = NoSession
     ELSE Goto(s, "insert") /\ UNCHANGED lock
  /\ UNCHANGED <<status, ringing, waiting>>

\* INSERT of the session and commit
Insert(s) ==
  /\ At(s, "insert")
  /\ status' = [status EXCEPT ![s] = "initiated"]
  /\ lock' = NoSession
  /\ Goto(s, "save")
  /\ UNCHANGED <<ringing, waiting>>

\* save_call_state; then Twilio is asked to call, or the browser does.
Ring(s) ==
  /\ At(s, "save")
  /\ ringing' = ringing \cup {s}
  /\ Goto(s, "ringing")
  /\ UNCHANGED <<lock, status, waiting>>

\* The request is answered; a failed create_call fails the session, though
\* Twilio may have placed the call.
Answer(s) ==
  /\ At(s, "ringing")
  /\ Goto(s, "answered")
  /\ \/ UNCHANGED status
     \/ status' = [status EXCEPT ![s] = "failed"]
  /\ UNCHANGED <<lock, ringing, waiting>>

\* The server, or its database connection, dies: what is not committed is gone.
Die(s) ==
  /\ request[s] \in {"count", "insert", "save", "ringing"}
  /\ Goto(s, "dead")
  /\ lock' = IF lock = s THEN NoSession ELSE lock
  /\ UNCHANGED <<status, ringing, waiting>>

\* voice-app: the UPDATE asks for no status and takes no lock.  History: the
\* sessions that may follow when this one reaches the ceiling are those open or
\* ringing, and one request already past its count.
Connect(s) ==
  /\ s \in ringing
  /\ ringing' = ringing \ {s}
  /\ status' = [status EXCEPT ![s] = "in_progress"]
  /\ waiting' = IF ~Reached /\ Cardinality(Connected \cup {s}) >= CallMaximum
                THEN 1 + Cardinality({t \in Sessions \ {s} :
                       status[t] = "initiated" \/ t \in ringing})
                ELSE waiting
  /\ UNCHANGED <<request, lock>>

\* call-complete and status-callback end a session that is under way.
Finish(s) ==
  /\ status[s] = "in_progress"
  /\ \E end \in {"completed", "failed"} : status' = [status EXCEPT ![s] = end]
  /\ UNCHANGED <<request, lock, ringing, waiting>>

Start(s) == Lock(s) \/ Count(s) \/ Insert(s) \/ Ring(s) \/ Answer(s)
Next == \E s \in Sessions : Start(s) \/ Die(s) \/ Connect(s) \/ Finish(s)
Spec == Init /\ [][Next]_vars

\* The server runs the statements of a request; Postgres grants the lock to
\* those queued for it in turn.  No session ever has to connect or to finish.
FairSpec == Spec /\ \A s \in Sessions : SF_vars(Lock(s)) /\ WF_vars(Start(s))

-----------------------------------------------------------------------------

\* "the campaign settles at up to call_maximum + N calls": while the ceiling is
\* reached, no more sessions connect than could when it was, and one more.
SettlesWithinSlack ==
  Reached => Cardinality(Connected) <= CallMaximum + waiting

\* "the count a caller admits itself on cannot go stale between the check and
\* the insert": no session is opened once the ceiling is reached.  Not true of the
\* code: voice-app's UPDATE changes the count and takes no lock.
AdmittedUnderCeiling ==
  [][\A s \in Sessions : status[s] = "none" /\ status'[s] = "initiated" => ~Reached]_vars

\* Nobody waits for ever on the ceiling's lock: each request is answered.
EveryRequestAnswered ==
  \A s \in Sessions : <>(request[s] \in {"answered", "refused", "dead"})
=============================================================================
