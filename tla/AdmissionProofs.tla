-------------------------- MODULE AdmissionProofs ---------------------------
(***************************************************************************)
(* Proofs about what lets calls in: the rate limiter at the door and the     *)
(* campaign's ceiling behind it (RateLimiter, CallCeiling).  How much one    *)
(* bucket admits and refuses, for every limit, window, lag and number of     *)
(* attempts; and how far a campaign may pass its ceiling, for any number of  *)
(* sessions and any ceiling.                                                 *)
(***************************************************************************)
EXTENDS CallCeiling, RateLimiter, FiniteSetTheorems, TLAPS

-----------------------------------------------------------------------------
(* The bucket: the inductive invariant                                     *)

\* The numbers of the attempts, the times and the scores.
Counted ==
  /\ clock \in Nat /\ tries \in Nat /\ expiry \in Nat
  /\ DOMAIN admitted \subseteq 1..tries
  /\ DOMAIN refused \subseteq 1..tries
  /\ DOMAIN scores \subseteq DOMAIN admitted
  /\ \A n \in DOMAIN admitted : admitted[n] \in 0..clock

\* A score is the time of the admission, less the lag of the server that took it.
Scored ==
  \A n \in DOMAIN scores : scores[n] \in (admitted[n] - MaxLag)..admitted[n]

\* Attempts are admitted in the order of their numbers.
InTurn ==
  \A m, n \in DOMAIN admitted : m <= n => admitted[m] <= admitted[n]

\* The key outlives the window of every admission.
Outlives ==
  \A n \in DOMAIN admitted : expiry >= admitted[n] + Window

\* What the set has forgotten is too old to count.
Remembers ==
  \A n \in DOMAIN admitted :
    admitted[n] > clock - (Window - MaxLag) => n \in DOMAIN scores

BucketInv ==
  Counted /\ Scored /\ InTurn /\ Outlives /\ Remembers /\
  NeverOverAdmits /\ RefusedOnlyWhenFull

-----------------------------------------------------------------------------
(* The bucket: lemmas                                                      *)

LEMMA TrimmedIs ==
  ASSUME NEW now
  PROVE  /\ DOMAIN Trimmed(now) = {n \in DOMAIN scores : scores[n] > now - Window}
         /\ \A n \in DOMAIN Trimmed(now) : Trimmed(now)[n] = scores[n]
BY DEF Trimmed

LEMMA LimitIs == EffectiveLimit \in Nat \ {0}
BY BucketConstants DEF EffectiveLimit

\* Finitely many attempts have been made.
LEMMA Finitely ==
  ASSUME NEW k \in Nat, NEW S, S \subseteq 1..k
  PROVE  IsFiniteSet(S) /\ Cardinality(S) \in Nat
<1>1. IsFiniteSet(1..k)
  BY FS_Interval
<1>2. IsFiniteSet(S)
  BY <1>1, FS_Subset
<1> QED
  BY <1>2, FS_CardinalityType

-----------------------------------------------------------------------------
(* The bucket: the steps                                                   *)

LEMMA BucketStarts == BucketInit => BucketInv
<1> SUFFICES ASSUME BucketInit PROVE BucketInv
  OBVIOUS
<1> DOMAIN admitted = {} /\ DOMAIN refused = {} /\ DOMAIN scores = {}
  BY DEF BucketInit
<1> QED
  BY DEF BucketInit, BucketInv, Counted, Scored, InTurn, Outlives, Remembers,
         NeverOverAdmits, RefusedOnlyWhenFull

LEMMA TickStep ==
  ASSUME BucketInv, Tick
  PROVE  BucketInv'
<1> USE BucketConstants DEF BucketInv
<1>1. /\ clock' = clock + 1 /\ expiry' = expiry /\ tries' = tries
      /\ admitted' = admitted /\ refused' = refused
  BY DEF Tick
<1>2. \/ scores' = scores
      \/ clock + 1 >= expiry /\ DOMAIN scores' = {}
  <2>1. CASE scores # <<>> /\ clock + 1 >= expiry
    <3>1. scores' = <<>>
      BY <2>1 DEF Tick
    <3> QED
      BY <2>1, <3>1
  <2>2. CASE ~(scores # <<>> /\ clock + 1 >= expiry)
    BY <2>2 DEF Tick
  <2> QED
    BY <2>1, <2>2
<1>3. Counted'
  BY <1>1, <1>2 DEF Counted
<1>4. Scored'
  BY <1>1, <1>2 DEF Scored
<1>5. (InTurn /\ Outlives)'
  BY <1>1 DEF InTurn, Outlives
<1>6. Remembers'
  <2> SUFFICES ASSUME NEW n \in DOMAIN admitted',
                      admitted'[n] > clock' - (Window - MaxLag)
               PROVE  n \in DOMAIN scores'
    BY DEF Remembers
  <2>1. /\ n \in DOMAIN admitted /\ admitted[n] \in Nat
        /\ clock \in Nat /\ expiry \in Nat
        /\ admitted[n] > clock + 1 - (Window - MaxLag)
    BY <1>1 DEF Counted
  <2>2. n \in DOMAIN scores
    BY <2>1 DEF Remembers
  <2>3. expiry > clock + 1
    BY <2>1 DEF Outlives
  <2> QED
    BY <1>2, <2>1, <2>2, <2>3
<1>7. (NeverOverAdmits /\ RefusedOnlyWhenFull)'
  BY <1>1 DEF NeverOverAdmits, RefusedOnlyWhenFull, Recent
<1> QED
  BY <1>3, <1>4, <1>5, <1>6, <1>7

LEMMA AttemptStep ==
  ASSUME BucketInv, NEW lag \in 0..MaxLag, Attempt(lag)
  PROVE  BucketInv'
<1> USE BucketConstants
<1> DEFINE now == clock - lag
           kept == Trimmed(now)
           me == tries + 1
<1>1. clock \in Nat /\ tries \in Nat /\ expiry \in Nat /\ lag \in Nat /\ now \in Int
  BY DEF BucketInv, Counted
<1>2. tries' = me /\ clock' = clock
  BY DEF Attempt
<1>3. me \notin DOMAIN admitted /\ me \notin DOMAIN refused /\ me \notin DOMAIN scores
  BY <1>1 DEF BucketInv, Counted
<1>4. /\ DOMAIN kept \subseteq DOMAIN scores
      /\ \A n \in DOMAIN kept : kept[n] = scores[n]
  BY TrimmedIs
<1>5. \A n \in DOMAIN admitted :
        admitted[n] > clock - (Window - MaxLag) => n \in DOMAIN kept
  <2> SUFFICES ASSUME NEW n \in DOMAIN admitted,
                      admitted[n] > clock - (Window - MaxLag)
               PROVE  n \in DOMAIN kept
    OBVIOUS
  <2>1. n \in DOMAIN scores /\ admitted[n] \in Nat
    BY DEF BucketInv, Remembers, Counted
  <2>2. scores[n] \in Int /\ scores[n] >= admitted[n] - MaxLag
    BY <2>1 DEF BucketInv, Scored
  <2>3. scores[n] > now - Window
    BY <1>1, <2>1, <2>2
  <2> QED
    BY <2>1, <2>3, TrimmedIs
<1>6. \A n \in DOMAIN kept : admitted[n] > clock - (Window + MaxLag)
  <2> SUFFICES ASSUME NEW n \in DOMAIN kept
               PROVE  admitted[n] > clock - (Window + MaxLag)
    OBVIOUS
  <2>1. n \in DOMAIN scores /\ scores[n] > now - Window
    BY TrimmedIs
  <2>2. n \in DOMAIN admitted /\ admitted[n] \in Nat
    BY <2>1 DEF BucketInv, Counted
  <2>3. scores[n] \in Int /\ scores[n] <= admitted[n]
    BY <2>1, <2>2 DEF BucketInv, Scored
  <2> QED
    BY <1>1, <2>1, <2>2, <2>3
<1>7. IsFiniteSet(DOMAIN kept) /\ Cardinality(DOMAIN kept) \in Nat
  BY <1>1, <1>4, Finitely DEF BucketInv, Counted
<1>8. CASE Cardinality(DOMAIN kept) >= EffectiveLimit
  <2>1. /\ scores' = kept /\ refused' = Extended(refused, me, clock)
        /\ expiry' = expiry /\ admitted' = admitted
    BY <1>8 DEF Attempt, Kept
  <2>2. /\ DOMAIN refused' = DOMAIN refused \cup {me}
        /\ refused'[me] = clock
        /\ \A m \in DOMAIN refused : refused'[m] = refused[m]
    BY <1>3, <2>1 DEF Extended
  <2> HIDE DEF kept
  <2>3. Counted'
    BY <1>1, <1>2, <1>4, <2>1, <2>2 DEF BucketInv, Counted
  <2>4. Scored'
    BY <1>4, <2>1 DEF BucketInv, Scored
  <2>5. (InTurn /\ Outlives)'
    BY <2>1 DEF BucketInv, InTurn, Outlives
  <2>6. Remembers'
    BY <1>2, <1>5, <2>1 DEF Remembers
  <2>7. NeverOverAdmits'
    BY <2>1 DEF BucketInv, NeverOverAdmits, Recent
  <2>8. RefusedOnlyWhenFull'
    <3> SUFFICES ASSUME NEW m \in DOMAIN refused'
                 PROVE  Cardinality(Recent(m, refused'[m], Window + MaxLag)) >= EffectiveLimit
      BY <2>1 DEF RefusedOnlyWhenFull, Recent
    <3>1. CASE m \in DOMAIN refused
      BY <2>2, <3>1 DEF BucketInv, RefusedOnlyWhenFull
    <3>2. CASE m = me
      <4> DEFINE recent == Recent(me, clock, Window + MaxLag)
      <4>1. DOMAIN kept \subseteq recent
        <5> SUFFICES ASSUME NEW n \in DOMAIN kept PROVE n \in recent
          OBVIOUS
        <5>1. n \in DOMAIN admitted /\ n \in 1..tries
          BY <1>4 DEF BucketInv, Counted
        <5> QED
          BY <1>1, <1>6, <5>1 DEF Recent
      <4>2. IsFiniteSet(recent)
        <5>1. recent \subseteq 1..tries
          BY DEF Recent, BucketInv, Counted
        <5> QED
          BY <1>1, <5>1, Finitely
      <4>3. Cardinality(DOMAIN kept) <= Cardinality(recent) /\ Cardinality(recent) \in Nat
        BY <4>1, <4>2, FS_Subset, FS_CardinalityType
      <4>4. Cardinality(recent) >= EffectiveLimit
        BY <1>7, <1>8, <4>3, LimitIs
      <4> QED
        BY <2>2, <3>2, <4>4
    <3> QED
      BY <2>2, <3>1, <3>2
  <2> QED
    BY <2>3, <2>4, <2>5, <2>6, <2>7, <2>8 DEF BucketInv
<1>9. CASE ~(Cardinality(DOMAIN kept) >= EffectiveLimit)
  <2>1. /\ scores' = Extended(kept, me, now)
        /\ admitted' = Extended(admitted, me, clock)
        /\ expiry' = clock + Window
        /\ refused' = refused
    BY <1>9 DEF Attempt
  <2>2. /\ DOMAIN scores' = DOMAIN kept \cup {me}
        /\ scores'[me] = now
        /\ \A n \in DOMAIN kept : n # me => scores'[n] = kept[n]
    BY <2>1 DEF Extended
  <2>3. /\ DOMAIN admitted' = DOMAIN admitted \cup {me}
        /\ admitted'[me] = clock
        /\ \A n \in DOMAIN admitted : n # me => admitted'[n] = admitted[n]
    BY <2>1 DEF Extended
  <2>4. \A n \in DOMAIN admitted : /\ n # me /\ n \in Nat /\ n <= tries
                                   /\ admitted[n] \in Nat /\ admitted[n] <= clock
                                   /\ admitted'[n] = admitted[n]
    BY <1>1, <1>3, <2>3 DEF BucketInv, Counted
  <2> HIDE DEF kept
  <2>5. Counted'
    <3>1. DOMAIN admitted' \subseteq 1..me /\ DOMAIN refused' \subseteq 1..me
      BY <1>1, <2>1, <2>3 DEF BucketInv, Counted
    <3>2. DOMAIN scores' \subseteq DOMAIN admitted'
      BY <1>4, <2>2, <2>3 DEF BucketInv, Counted
    <3>3. \A n \in DOMAIN admitted' : admitted'[n] \in 0..clock
      BY <1>1, <2>3, <2>4
    <3> QED
      BY <1>1, <1>2, <2>1, <3>1, <3>2, <3>3 DEF Counted
  <2>6. Scored'
    <3> SUFFICES ASSUME NEW n \in DOMAIN scores'
                 PROVE  scores'[n] \in (admitted'[n] - MaxLag)..admitted'[n]
      BY DEF Scored
    <3>1. CASE n = me
      BY <1>1, <2>2, <2>3, <3>1
    <3>2. CASE n \in DOMAIN kept /\ n # me
      <4>1. n \in DOMAIN scores /\ n \in DOMAIN admitted
        BY <1>4, <3>2 DEF BucketInv, Counted
      <4>2. scores'[n] = scores[n] /\ admitted'[n] = admitted[n]
        BY <1>4, <2>2, <2>4, <3>2, <4>1
      <4> QED
        BY <4>1, <4>2 DEF BucketInv, Scored
    <3> QED
      BY <2>2, <3>1, <3>2
  <2>7. InTurn'
    <3> SUFFICES ASSUME NEW m \in DOMAIN admitted', NEW n \in DOMAIN admitted', m <= n
                 PROVE  admitted'[m] <= admitted'[n]
      BY DEF InTurn
    <3>1. CASE n = me
      BY <1>1, <2>3, <2>4, <3>1
    <3>2. CASE n # me
      <4>1. n \in DOMAIN admitted
        BY <2>3, <3>2
      <4>2. m \in DOMAIN admitted
        BY <1>1, <2>3, <2>4, <4>1
      <4> QED
        BY <2>4, <4>1, <4>2 DEF BucketInv, InTurn
    <3> QED
      BY <3>1, <3>2
  <2>8. Outlives'
    <3> SUFFICES ASSUME NEW n \in DOMAIN admitted'
                 PROVE  expiry' >= admitted'[n] + Window
      BY DEF Outlives
    <3> QED
      BY <1>1, <2>1, <2>3, <2>4
  <2>9. Remembers'
    <3> SUFFICES ASSUME NEW n \in DOMAIN admitted',
                        admitted'[n] > clock - (Window - MaxLag)
                 PROVE  n \in DOMAIN scores'
      BY <1>2 DEF Remembers
    <3> QED
      BY <1>5, <2>2, <2>3, <2>4
  <2>10. NeverOverAdmits'
    <3> SUFFICES ASSUME NEW m \in DOMAIN admitted'
                 PROVE  Cardinality(Recent(m, admitted[m], Window - MaxLag)') <= EffectiveLimit
      BY DEF NeverOverAdmits, EffectiveLimit
    <3>1. CASE m \in DOMAIN admitted
      <4>1. Recent(m, admitted[m], Window - MaxLag)' = Recent(m, admitted[m], Window - MaxLag)
        BY <1>1, <2>3, <2>4, <3>1 DEF Recent
      <4> QED
        BY <3>1, <4>1 DEF BucketInv, NeverOverAdmits
    <3>2. CASE m = me
      <4> DEFINE recent == Recent(m, admitted[m], Window - MaxLag)'
      <4>1. recent \subseteq DOMAIN kept \cup {me}
        <5> SUFFICES ASSUME NEW n \in recent, n # me PROVE n \in DOMAIN kept
          OBVIOUS
        <5>1. n \in DOMAIN admitted /\ admitted'[n] > clock - (Window - MaxLag)
          BY <2>3, <3>2 DEF Recent
        <5> QED
          BY <1>5, <2>4, <5>1
      <4>2. /\ IsFiniteSet(DOMAIN kept \cup {me})
            /\ Cardinality(DOMAIN kept \cup {me}) <= Cardinality(DOMAIN kept) + 1
            /\ Cardinality(DOMAIN kept \cup {me}) \in Nat
        <5>1. /\ IsFiniteSet(DOMAIN kept \cup {me})
              /\ \/ Cardinality(DOMAIN kept \cup {me}) = Cardinality(DOMAIN kept)
                 \/ Cardinality(DOMAIN kept \cup {me}) = Cardinality(DOMAIN kept) + 1
          BY <1>7, FS_AddElement, Zenon
        <5> QED
          BY <1>7, <5>1
      <4>3. /\ Cardinality(recent) <= Cardinality(DOMAIN kept \cup {me})
            /\ Cardinality(recent) \in Nat
        BY <4>1, <4>2, FS_Subset, FS_CardinalityType
      <4> QED
        BY <1>7, <1>9, <4>2, <4>3, LimitIs
    <3> QED
      BY <2>3, <3>1, <3>2
  <2>11. RefusedOnlyWhenFull'
    <3> SUFFICES ASSUME NEW m \in DOMAIN refused
                 PROVE  Cardinality(Recent(m, refused[m], Window + MaxLag)') >= EffectiveLimit
      BY <2>1 DEF RefusedOnlyWhenFull, EffectiveLimit
    <3>1. Recent(m, refused[m], Window + MaxLag)' = Recent(m, refused[m], Window + MaxLag)
      <4>1. m \in Nat /\ m <= tries
        BY <1>1 DEF BucketInv, Counted
      <4> QED
        BY <1>1, <2>1, <2>3, <2>4, <4>1 DEF Recent
    <3> QED
      BY <3>1 DEF BucketInv, RefusedOnlyWhenFull
  <2> QED
    BY <2>5, <2>6, <2>7, <2>8, <2>9, <2>10, <2>11 DEF BucketInv
<1> QED
  BY <1>8, <1>9

\* The set holds every admission recent enough to count, with a score at most
\* MaxLag behind it, and both bounds hold, whatever key or score is dropped.
THEOREM BucketInductive == BucketSpec => []BucketInv
<1>1. BucketInv /\ [BucketNext]_bucket => BucketInv'
  <2> SUFFICES ASSUME BucketInv, [BucketNext]_bucket PROVE BucketInv'
    OBVIOUS
  <2>1. CASE Tick
    BY <2>1, TickStep
  <2>2. CASE \E lag \in 0..MaxLag : Attempt(lag)
    BY <2>2, AttemptStep
  <2>3. CASE UNCHANGED bucket
    BY <2>3 DEF bucket, BucketInv, Counted, Scored, InTurn, Outlives, Remembers,
                NeverOverAdmits, RefusedOnlyWhenFull, Recent
  <2> QED
    BY <2>1, <2>2, <2>3 DEF BucketNext
<1> QED
  BY BucketStarts, <1>1, PTL DEF BucketSpec

\* However far the servers' clocks lag (by MaxLag at the most), and however the
\* attempts fall, no Window - MaxLag seconds see more admissions than the limit.
THEOREM NeverOverAdmitsHolds == BucketSpec => []NeverOverAdmits
<1>1. BucketInv => NeverOverAdmits
  BY DEF BucketInv
<1> QED
  BY BucketInductive, <1>1, PTL

\* A refusal has the limit's worth of admissions within Window + MaxLag seconds
\* behind it: what is refused never counts against the next attempt.
THEOREM RefusedOnlyWhenFullHolds == BucketSpec => []RefusedOnlyWhenFull
<1>1. BucketInv => RefusedOnlyWhenFull
  BY DEF BucketInv
<1> QED
  BY BucketInductive, <1>1, PTL

-----------------------------------------------------------------------------
(* The ceiling: the inductive invariant                                    *)

Stages == {"new", "count", "insert", "save", "ringing", "answered", "refused", "dead"}
Statuses == {"none", "initiated", "in_progress", "completed", "failed"}

\* What each variable holds.
TypeOK ==
  /\ request \in [Sessions -> Stages]
  /\ lock \in Sessions \cup {NoSession}
  /\ status \in [Sessions -> Statuses]
  /\ ringing \subseteq Sessions
  /\ waiting \in Nat

\* Who counts or inserts holds the lock; so at most one request is past its count.
LockHeld == \A s \in Sessions : request[s] \in {"count", "insert"} => lock = s

\* A session does not ring, and has not been connected, before its state is saved.
NotYet ==
  \A s \in Sessions :
    /\ request[s] \in {"new", "count", "insert", "save"} => s \notin ringing
    /\ request[s] = "save" => status[s] = "initiated"

\* The sessions that are, or may still be, connected.
Open == {s \in Sessions : status[s] = "initiated" \/ s \in ringing}
Admitted == {s \in Sessions : request[s] = "insert"}
Possible == Connected \cup Open \cup Admitted

\* Once the ceiling is reached, nothing enters Possible.
Bounded == Reached => Cardinality(Possible) <= CallMaximum + waiting

CeilingInv == TypeOK /\ LockHeld /\ NotYet /\ Bounded

-----------------------------------------------------------------------------
(* The ceiling: lemmas                                                     *)

LEMMA Counts ==
  ASSUME NEW S, S \subseteq Sessions
  PROVE  IsFiniteSet(S) /\ Cardinality(S) \in Nat
<1>1. IsFiniteSet(S)
  BY ConstantsOK, FS_Subset
<1> QED
  BY <1>1, FS_CardinalityType

LEMMA CountsLess ==
  ASSUME NEW S, NEW T, S \subseteq T, T \subseteq Sessions
  PROVE  Cardinality(S) <= Cardinality(T)
<1>1. IsFiniteSet(T)
  BY Counts
<1> QED
  BY <1>1, FS_Subset

\* A step that connects nobody, opens nobody and admits nobody keeps the bound.
LEMMA Shrinks ==
  ASSUME TypeOK, Bounded, waiting' = waiting,
         Connected' \subseteq Connected, Possible' \subseteq Possible
  PROVE  Bounded'
<1>1. Connected \subseteq Sessions /\ Possible \subseteq Sessions
  BY DEF Connected, Possible, Open, Admitted
<1>2. /\ Cardinality(Connected') <= Cardinality(Connected)
      /\ Cardinality(Possible') <= Cardinality(Possible)
  BY <1>1, CountsLess
<1>3. /\ Cardinality(Connected) \in Nat /\ Cardinality(Possible) \in Nat
      /\ Cardinality(Connected') \in Nat /\ Cardinality(Possible') \in Nat
  <2>1. Connected' \subseteq Sessions /\ Possible' \subseteq Sessions
    BY <1>1
  <2> QED
    BY <1>1, <2>1, Counts
<1> QED
  BY <1>2, <1>3, ConstantsOK DEF TypeOK, Bounded, Reached

-----------------------------------------------------------------------------
(* The ceiling: the steps                                                  *)

LEMMA CeilingStarts == Init => CeilingInv
<1> SUFFICES ASSUME Init PROVE CeilingInv
  OBVIOUS
<1>1. TypeOK /\ LockHeld /\ NotYet
  BY DEF Init, TypeOK, Stages, Statuses, LockHeld, NotYet
<1>2. Connected = {}
  BY DEF Init, Connected
<1>3. ~Reached
  BY <1>2, FS_EmptySet, ConstantsOK DEF Reached
<1> QED
  BY <1>1, <1>3 DEF CeilingInv, Bounded

\* The parts of the invariant that are not about the count.
LEMMA OrderStep ==
  ASSUME TypeOK, LockHeld, NotYet, Next
  PROVE  TypeOK' /\ LockHeld' /\ NotYet'
<1>1. PICK s \in Sessions : Start(s) \/ Die(s) \/ Connect(s) \/ Finish(s)
  BY DEF Next
<1>2. CASE Lock(s)
  BY <1>2, ConstantsOK DEF Lock, At, Goto, TypeOK, Stages, LockHeld, NotYet
<1>3. CASE Count(s)
  BY <1>3, ConstantsOK DEF Count, At, Goto, TypeOK, Stages, LockHeld, NotYet
<1>4. CASE Insert(s)
  BY <1>4, ConstantsOK DEF Insert, At, Goto, TypeOK, Stages, Statuses, LockHeld, NotYet
<1>5. CASE Ring(s)
  BY <1>5 DEF Ring, At, Goto, TypeOK, Stages, LockHeld, NotYet
<1>6. CASE Answer(s)
  BY <1>6 DEF Answer, At, Goto, TypeOK, Stages, Statuses, LockHeld, NotYet
<1>7. CASE Die(s)
  BY <1>7, ConstantsOK DEF Die, Goto, TypeOK, Stages, LockHeld, NotYet
<1>8. CASE Connect(s)
  <2>1. /\ s \in ringing /\ ringing' = ringing \ {s}
        /\ status' = [status EXCEPT ![s] = "in_progress"]
        /\ request' = request /\ lock' = lock
    BY <1>8 DEF Connect
  <2>2. waiting' \in Nat
    <3>1. {t \in Sessions \ {s} : status[t] = "initiated" \/ t \in ringing} \subseteq Sessions
      OBVIOUS
    <3>2. Cardinality({t \in Sessions \ {s} : status[t] = "initiated" \/ t \in ringing}) \in Nat
      BY <3>1, Counts
    <3> QED
      BY <1>8, <3>2 DEF Connect, TypeOK
  <2> QED
    BY <2>1, <2>2 DEF TypeOK, Statuses, LockHeld, NotYet
<1>9. CASE Finish(s)
  BY <1>9 DEF Finish, TypeOK, Statuses, LockHeld, NotYet
<1> QED
  BY <1>1, <1>2, <1>3, <1>4, <1>5, <1>6, <1>7, <1>8, <1>9 DEF Start

\* The connection that reaches the ceiling: besides the call_maximum connected,
\* those open and at most one request past its count may still connect.
LEMMA Reaches ==
  ASSUME TypeOK, LockHeld, NEW s \in Sessions, Connect(s), ~Reached
  PROVE  Bounded'
<1> SUFFICES ASSUME Reached'
             PROVE  Cardinality(Possible') <= CallMaximum + waiting'
  BY DEF Bounded
<1> DEFINE rest == {t \in Sessions \ {s} : status[t] = "initiated" \/ t \in ringing}
<1>1. /\ ringing' = ringing \ {s} /\ request' = request
      /\ status' = [status EXCEPT ![s] = "in_progress"]
  BY DEF Connect
<1>2. Connected' = Connected \cup {s}
  BY <1>1 DEF Connected, TypeOK
<1>3. Connected \subseteq Sessions /\ rest \subseteq Sessions /\ Admitted \subseteq Sessions
  BY DEF Connected, Admitted
<1>4. /\ Cardinality(Connected) \in Nat /\ Cardinality(rest) \in Nat
      /\ IsFiniteSet(Connected) /\ IsFiniteSet(rest)
  BY <1>3, Counts
<1>5. Cardinality(Connected) < CallMaximum
  BY <1>4, ConstantsOK DEF Reached
<1>6. waiting' = 1 + Cardinality(rest)
  BY <1>2 DEF Connect, Reached
<1>7. /\ Cardinality(Connected \cup {s}) <= CallMaximum
      /\ Cardinality(Connected \cup {s}) \in Nat
      /\ IsFiniteSet(Connected \cup {s})
  <2>1. /\ IsFiniteSet(Connected \cup {s})
        /\ \/ Cardinality(Connected \cup {s}) = Cardinality(Connected)
           \/ Cardinality(Connected \cup {s}) = Cardinality(Connected) + 1
    BY <1>4, FS_AddElement, Zenon
  <2> QED
    BY <1>4, <1>5, <2>1, ConstantsOK
<1>8. PICK w : Admitted \subseteq {w}
  <2>1. \A t, u \in Admitted : t = u
    BY DEF Admitted, LockHeld
  <2> QED
    BY <2>1
<1>9. Possible' \subseteq ((Connected \cup {s}) \cup rest) \cup {w}
  <2>1. Open' \subseteq rest
    BY <1>1 DEF Open, TypeOK
  <2>2. Admitted' = Admitted
    BY <1>1 DEF Admitted
  <2> QED
    BY <1>2, <1>8, <2>1, <2>2 DEF Possible
<1>10. /\ IsFiniteSet((Connected \cup {s}) \cup rest)
       /\ Cardinality((Connected \cup {s}) \cup rest) \in Nat
       /\ Cardinality((Connected \cup {s}) \cup rest) <= CallMaximum + Cardinality(rest)
  <2>1. /\ IsFiniteSet((Connected \cup {s}) \cup rest)
        /\ Cardinality((Connected \cup {s}) \cup rest)
             = Cardinality(Connected \cup {s}) + Cardinality(rest)
                 - Cardinality((Connected \cup {s}) \cap rest)
    BY <1>4, <1>7, FS_Union
  <2>2. Cardinality((Connected \cup {s}) \cap rest) \in Nat
    BY <1>3, Counts
  <2>3. Cardinality((Connected \cup {s}) \cup rest) \in Nat
    BY <2>1, FS_CardinalityType
  <2> QED
    BY <1>4, <1>7, <2>1, <2>2, <2>3, ConstantsOK
<1>11. Cardinality(Possible') <= Cardinality(((Connected \cup {s}) \cup rest) \cup {w})
       /\ Cardinality(Possible') \in Nat
       /\ Cardinality(((Connected \cup {s}) \cup rest) \cup {w})
            <= CallMaximum + Cardinality(rest) + 1
       /\ Cardinality(((Connected \cup {s}) \cup rest) \cup {w}) \in Nat
  <2> DEFINE all == (Connected \cup {s}) \cup rest
  <2>1. /\ IsFiniteSet(all \cup {w})
        /\ \/ Cardinality(all \cup {w}) = Cardinality(all)
           \/ Cardinality(all \cup {w}) = Cardinality(all) + 1
    BY <1>10, FS_AddElement, Zenon
  <2>2. IsFiniteSet(Possible') /\ Cardinality(Possible') <= Cardinality(all \cup {w})
    BY <1>9, <2>1, FS_Subset
  <2>3. Cardinality(Possible') \in Nat
    BY <2>2, FS_CardinalityType
  <2> HIDE DEF all
  <2>4. Cardinality(all \cup {w}) <= CallMaximum + Cardinality(rest) + 1
        /\ Cardinality(all \cup {w}) \in Nat
    BY <1>4, <1>10, <2>1, ConstantsOK DEF all
  <2> QED
    BY <2>2, <2>3, <2>4 DEF all
<1> HIDE DEF rest
<1> QED
  BY <1>4, <1>6, <1>11, ConstantsOK

LEMMA CountStep ==
  ASSUME CeilingInv, Next
  PROVE  Bounded'
<1> USE DEF CeilingInv
<1>1. PICK s \in Sessions : Start(s) \/ Die(s) \/ Connect(s) \/ Finish(s)
  BY DEF Next
<1>2. CASE Lock(s)
  <2>1. Connected' = Connected /\ Possible' \subseteq Possible /\ waiting' = waiting
    BY <1>2 DEF Lock, At, Goto, TypeOK, Connected, Possible, Open, Admitted
  <2> QED
    BY <2>1, Shrinks
<1>3. CASE Count(s)
  <2>1. Connected' = Connected /\ waiting' = waiting
    BY <1>3 DEF Count, Connected
  <2>2. CASE Reached
    <3>1. Possible' \subseteq Possible
      BY <1>3, <2>2 DEF Count, At, Goto, TypeOK, Connected, Possible, Open, Admitted
    <3> QED
      BY <2>1, <3>1, Shrinks
  <2>3. CASE ~Reached
    BY <2>1, <2>3 DEF Bounded, Reached
  <2> QED
    BY <2>2, <2>3
<1>4. CASE Insert(s)
  <2>1. waiting' = waiting
    BY <1>4 DEF Insert
  <2>2. Connected' \subseteq Connected
    BY <1>4 DEF Insert, TypeOK, Connected
  <2>3. Possible' \subseteq Possible
    BY <1>4 DEF Insert, At, Goto, TypeOK, Connected, Possible, Open, Admitted
  <2> QED
    BY <2>1, <2>2, <2>3, Shrinks
<1>5. CASE Ring(s)
  <2>1. Connected' = Connected /\ waiting' = waiting
    BY <1>5 DEF Ring, Connected
  <2>2. Possible' \subseteq Possible
    BY <1>5 DEF Ring, At, Goto, TypeOK, NotYet, Connected, Possible, Open, Admitted
  <2> QED
    BY <2>1, <2>2, Shrinks
<1>6. CASE Answer(s)
  <2>1. waiting' = waiting
    BY <1>6 DEF Answer
  <2>2. Connected' \subseteq Connected
    BY <1>6 DEF Answer, TypeOK, Connected
  <2>3. Possible' \subseteq Possible
    BY <1>6 DEF Answer, At, Goto, TypeOK, Connected, Possible, Open, Admitted
  <2> QED
    BY <2>1, <2>2, <2>3, Shrinks
<1>7. CASE Die(s)
  <2>1. Connected' = Connected /\ Possible' \subseteq Possible /\ waiting' = waiting
    BY <1>7 DEF Die, Goto, TypeOK, Connected, Possible, Open, Admitted
  <2> QED
    BY <2>1, Shrinks
<1>8. CASE Connect(s)
  <2>1. CASE ~Reached
    BY <1>8, <2>1, Reaches
  <2>2. CASE Reached
    <3>1. waiting' = waiting
      BY <1>8, <2>2 DEF Connect
    <3>2. Connected' = Connected \cup {s}
      BY <1>8 DEF Connect, TypeOK, Connected
    <3>3. Possible' \subseteq Possible
      BY <1>8 DEF Connect, TypeOK, Connected, Possible, Open, Admitted
    <3>4. Possible \subseteq Sessions
      BY DEF Possible, Connected, Open, Admitted
    <3>5. /\ Cardinality(Possible') <= Cardinality(Possible)
          /\ Cardinality(Possible') \in Nat /\ Cardinality(Possible) \in Nat
      <4>1. Possible' \subseteq Sessions
        BY <3>3, <3>4
      <4> QED
        BY <3>3, <3>4, <4>1, Counts, CountsLess
    <3> QED
      BY <2>2, <3>1, <3>5, ConstantsOK DEF Bounded, TypeOK
  <2> QED
    BY <2>1, <2>2
<1>9. CASE Finish(s)
  <2>1. waiting' = waiting
    BY <1>9 DEF Finish
  <2>2. Connected' \subseteq Connected
    BY <1>9 DEF Finish, TypeOK, Connected
  <2>3. Possible' \subseteq Possible
    BY <1>9 DEF Finish, TypeOK, Connected, Possible, Open, Admitted
  <2> QED
    BY <2>1, <2>2, <2>3, Shrinks
<1> QED
  BY <1>1, <1>2, <1>3, <1>4, <1>5, <1>6, <1>7, <1>8, <1>9 DEF Start

\* Whatever requests, deaths and callbacks come, the sessions that are or may yet
\* be connected stay within the ceiling and the requests it found under way.
THEOREM CeilingInductive == Spec => []CeilingInv
<1>1. CeilingInv /\ [Next]_vars => CeilingInv'
  <2> SUFFICES ASSUME CeilingInv, [Next]_vars PROVE CeilingInv'
    OBVIOUS
  <2>1. CASE Next
    BY <2>1, OrderStep, CountStep DEF CeilingInv
  <2>2. CASE UNCHANGED vars
    BY <2>2 DEF vars, CeilingInv, TypeOK, LockHeld, NotYet, Bounded, Reached,
                Connected, Possible, Open, Admitted
  <2> QED
    BY <2>1, <2>2
<1> QED
  BY CeilingStarts, <1>1, PTL DEF Spec

\* However many requests start at once, a campaign settles at its ceiling and
\* those that were already on their way when it was reached, and never above.
THEOREM SettlesWithinSlackHolds == Spec => []SettlesWithinSlack
<1>1. CeilingInv => SettlesWithinSlack
  <2> SUFFICES ASSUME CeilingInv, Reached
               PROVE  Cardinality(Connected) <= CallMaximum + waiting
    BY DEF SettlesWithinSlack
  <2>1. Connected \subseteq Possible /\ Possible \subseteq Sessions
    BY DEF Possible, Connected, Open, Admitted
  <2>2. /\ Cardinality(Connected) <= Cardinality(Possible)
        /\ Cardinality(Connected) \in Nat /\ Cardinality(Possible) \in Nat
    <3>1. Connected \subseteq Sessions
      BY <2>1
    <3> QED
      BY <2>1, <3>1, Counts, CountsLess
  <2> QED
    BY <2>2, ConstantsOK DEF CeilingInv, Bounded, TypeOK
<1> QED
  BY CeilingInductive, <1>1, PTL
=============================================================================
