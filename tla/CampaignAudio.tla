--------------------------- MODULE CampaignAudio ----------------------------
(***************************************************************************)
(* One campaign's status and the recordings of one of its audio slots:       *)
(* update_campaign and archive_campaign of api/v1/campaigns.py, api/v1/       *)
(* audio.py and the tables of models/audio.py.  A recording is known by its  *)
(* version.  Each request is run once, one step per statement others can     *)
(* tell apart; a refusal that changes nothing ends it.                       *)
(***************************************************************************)
EXTENDS Naturals, FiniteSets

CONSTANTS
  Requests,     \* requests of administrators (bound)
  MaxAttempts,  \* _MAX_VERSION_ATTEMPTS
  Recorded,     \* versions in the slot at the start (bound)
  Nobody

ASSUME ConstantsOK ==
  /\ MaxAttempts \in Nat \ {0}
  /\ Recorded \in Nat
  /\ Nobody \notin Requests

VARIABLES
  status,     \* campaigns.status
  versions,   \* audio_recordings of the slot, by version
  active,     \* those with is_active
  slot,       \* the transaction that holds the slot's rows
  req,        \* the requests
  chosen,     \* history: the version activated last, 0 for none
  overtaken   \* history: an activation found its version active, and another
              \* activation was committed before its own

vars == <<status, versions, active, slot, req, chosen, overtaken>>

ValidTransitions == [draft |-> {"paused", "live"}, paused |-> {"live", "archived"},
                     live |-> {"paused", "archived"}, archived |-> {}]
Statuses == DOMAIN ValidTransitions

NewRequest == [pc |-> "new", version |-> 0, wasActive |-> FALSE, seen |-> "draft",
               tries |-> 0, before |-> {}]
At(r, pc) == req[r].pc = pc
Set(r, record) == req' = [req EXCEPT ![r] = record]
End(r, pc) == Set(r, [req[r] EXCEPT !.pc = pc])
Newest(S) == IF S = {} THEN 0 ELSE CHOOSE v \in S : \A w \in S : w <= v

Init ==
  /\ status = "draft"
  /\ versions = 1..Recorded
  /\ active \in {{}} \cup {{v} : v \in 1..Recorded}
  /\ slot = Nobody
  /\ req = [r \in Requests |-> NewRequest]
  /\ chosen = Newest(active) /\ overtaken = FALSE

-----------------------------------------------------------------------------
(* update_campaign, archive_campaign                                       *)

ReadCampaign(r) ==
  /\ At(r, "new")
  /\ \E next \in {"update", "archive"} :
       /\ next = "archive" => "archived" \in ValidTransitions[status]
       /\ Set(r, [NewRequest EXCEPT !.pc = next, !.seen = status])
  /\ UNCHANGED <<status, versions, active, slot, chosen, overtaken>>

Unmoved_Trusting(r) == TRUE   \* bug: UPDATE without the status it was decided on
Unmoved(r) == status = req[r].seen
UpdateStatus(r) ==
  /\ At(r, "update")
  /\ IF Unmoved(r) THEN status' \in ValidTransitions[req[r].seen] ELSE UNCHANGED status
  /\ End(r, IF Unmoved(r) THEN "done" ELSE "conflict")
  /\ UNCHANGED <<versions, active, slot, chosen, overtaken>>

\* Written whatever the status has become.
Archive(r) ==
  /\ At(r, "archive")
  /\ status' = "archived"
  /\ End(r, "done")
  /\ UNCHANGED <<versions, active, slot, chosen, overtaken>>

-----------------------------------------------------------------------------
(* upload_audio, create_audio: _next_version, _insert_versioned              *)

\* The caller has settled the campaign and stored the file.
NextVersion_Counted(r) ==   \* bug: the version is not read again for a retry
  /\ At(r, "new") \/ At(r, "retry")
  /\ Set(r, [req[r] EXCEPT !.pc = "insert",
                           !.version = IF At(r, "new") THEN Newest(versions) + 1 ELSE @,
                           !.before = IF At(r, "new") THEN versions ELSE @])
  /\ UNCHANGED <<status, versions, active, slot, chosen, overtaken>>
NextVersion(r) ==
  /\ At(r, "new") \/ At(r, "retry")
  /\ Set(r, [req[r] EXCEPT !.pc = "insert", !.version = Newest(versions) + 1,
                           !.before = IF At(r, "new") THEN versions ELSE @])
  /\ UNCHANGED <<status, versions, active, slot, chosen, overtaken>>

\* The commit; the unique constraint refuses a version that is taken.
Insert(r) ==
  LET v == req[r].version IN
  /\ At(r, "insert")
  /\ IF v \in versions
     THEN /\ Set(r, [req[r] EXCEPT !.tries = @ + 1,
                        !.pc = IF req[r].tries + 1 = MaxAttempts THEN "refused" ELSE "retry"])
          /\ UNCHANGED versions
     ELSE /\ versions' = versions \cup {v}
          /\ End(r, "done")
  /\ UNCHANGED <<status, active, slot, chosen, overtaken>>

-----------------------------------------------------------------------------
(* activate_audio                                                          *)

LoadRecording(r) ==
  /\ At(r, "new")
  /\ \E v \in versions :
       Set(r, [NewRequest EXCEPT !.pc = "check", !.version = v, !.wasActive = v \in active])
  /\ UNCHANGED <<status, versions, active, slot, chosen, overtaken>>

CheckLive(r) ==
  /\ At(r, "check")
  /\ End(r, IF status = "live" THEN "conflict" ELSE "lock")
  /\ UNCHANGED <<status, versions, active, slot, chosen, overtaken>>

\* SELECT ... FOR UPDATE of the slot, held until the commit.
LockSlot(r) ==
  /\ At(r, "lock")
  /\ slot = Nobody /\ slot' = r
  /\ End(r, "switch")
  /\ UNCHANGED <<status, versions, active, chosen, overtaken>>

Others_Cleared(r) == {}    \* bug: the version itself is switched off with the others
\* What the UPDATE of the other versions leaves.
Others(r) == active \cap {req[r].version}
\* is_active = True is written only if the row was loaded with it false.
Switch(r) ==
  LET v == req[r].version IN
  /\ At(r, "switch")
  /\ active' = IF req[r].wasActive THEN Others(r) ELSE Others(r) \cup {v}
  /\ overtaken' = (overtaken \/ (req[r].wasActive /\ v \notin active))
  /\ chosen' = v
  /\ slot' = Nobody
  /\ End(r, "done")
  /\ UNCHANGED <<status, versions>>

-----------------------------------------------------------------------------

Run(r) ==
  \/ ReadCampaign(r) \/ UpdateStatus(r) \/ Archive(r)
  \/ NextVersion(r) \/ Insert(r)
  \/ LoadRecording(r) \/ CheckLive(r) \/ LockSlot(r) \/ Switch(r)

\* The request dies: its transaction is rolled back.
Die(r) ==
  /\ req[r].pc \notin {"new", "done", "conflict", "refused", "dead"}
  /\ slot' = IF slot = r THEN Nobody ELSE slot
  /\ End(r, "dead")
  /\ UNCHANGED <<status, versions, active, chosen, overtaken>>

Next == \E r \in Requests : Run(r) \/ Die(r)
Spec == Init /\ [][Next]_vars

-----------------------------------------------------------------------------
(* Properties                                                              *)

TypeOK ==
  /\ status \in Statuses
  /\ active \subseteq versions /\ Cardinality(active) <= 1
  /\ versions = 1..Cardinality(versions)
  /\ slot \in Requests \cup {Nobody}
  /\ chosen \in versions \cup {0} /\ overtaken \in BOOLEAN

\* The slot plays the version whose activation was committed last: activations
\* of two versions leave one of them, whatever their order -- unless one of them
\* found its version active, and so wrote nothing, and the other had just switched
\* it off (audio.py, activate_audio).
LastChoicePlays ==
  overtaken \/ active = {chosen} \ {0}

\* "two concurrent activations serialize": a slot with an active version always
\* has one (audio.py, activate_audio).  Not true of the code: an activation that
\* found its version active writes nothing, though another has switched it off.
ActivationsSerialize == active = {} => chosen = 0

\* Every change of status is one of VALID_TRANSITIONS from the status it replaces,
\* although archive_campaign writes without looking at it again.
StatusMovesValidly ==
  [][status' # status => status' \in ValidTransitions[status]]_status

\* An upload is told to try again only after as many others as it made attempts
\* were stored meanwhile (audio.py, _insert_versioned).
RefusedOnlyIfBeaten ==
  \A r \in Requests :
    At(r, "refused") => Cardinality(versions \ req[r].before) >= MaxAttempts
=============================================================================
