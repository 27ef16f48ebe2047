---------------------------- MODULE RateLimiter -----------------------------
(***************************************************************************)
(* One bucket of the sliding-window limiter, services/rate_limiter.py.  The  *)
(* script runs in Redis, one attempt at a time; the time it is given was     *)
(* read by a server some time before, on a clock of its own, so it may lag   *)
(* behind.  `clock` is Redis's.                                              *)
(***************************************************************************)
EXTENDS Integers, FiniteSets

CONSTANTS
  Limit,    \* the limit asked for; 0 or less for none
  Default,  \* settings.DEFAULT_RATE_LIMIT
  Window,   \* window_seconds
  MaxLag,   \* how far a server's time may be behind Redis's
  MaxTime,  \* end of time (bound)
  MaxTries  \* attempts (bound)

ASSUME BucketConstants ==
  /\ Limit \in Int
  /\ {Default, Window} \subseteq Nat \ {0}
  /\ {MaxLag, MaxTime, MaxTries} \subseteq Nat

VARIABLES
  clock,
  scores,     \* the sorted set: members |-> their scores
  expiry,     \* when Redis drops the key
  tries,      \* attempts made; the last one's number is its member
  admitted,   \* history: the attempts admitted |-> when
  refused     \* history: the attempts refused |-> when

bucket == <<clock, scores, expiry, tries, admitted, refused>>

Extended(f, x, v) == [y \in DOMAIN f \cup {x} |-> IF y = x THEN v ELSE f[y]]

EffectiveLimit == IF Limit > 0 THEN Limit ELSE Default

BucketInit ==
  /\ clock = 0
  /\ scores = <<>> /\ expiry = 0
  /\ tries = 0 /\ admitted = <<>> /\ refused = <<>>

\* ZREMRANGEBYSCORE
Trimmed_Half(now) ==   \* bug: half the window is forgotten
  [m \in {n \in DOMAIN scores : scores[n] > now - Window \div 2} |-> scores[m]]
Trimmed(now) == [m \in {n \in DOMAIN scores : scores[n] > now - Window} |-> scores[m]]

\* What a refusal leaves in the set.
Kept_Recorded(now, kept) ==   \* bug: the attempt is recorded before it is judged
  Extended(kept, tries + 1, now)
Kept(now, kept) == kept

\* check_rate_limit: the time is taken, then _ADMIT_LUA runs.
Attempt(lag) ==
  LET now == clock - lag
      kept == Trimmed(now)
      me == tries + 1
  IN
  /\ tries < MaxTries
  /\ tries' = me
  /\ IF Cardinality(DOMAIN kept) >= EffectiveLimit
     THEN /\ scores' = Kept(now, kept)
          /\ refused' = Extended(refused, me, clock)
          /\ UNCHANGED <<expiry, admitted>>
     ELSE /\ scores' = Extended(kept, me, now)
          /\ expiry' = clock + Window
          /\ admitted' = Extended(admitted, me, clock)
          /\ UNCHANGED refused
  /\ UNCHANGED clock

\* A second passes; the key's time may be up.
Tick ==
  /\ clock < MaxTime
  /\ clock' = clock + 1
  /\ scores' = IF scores # <<>> /\ clock + 1 >= expiry THEN <<>> ELSE scores
  /\ UNCHANGED <<expiry, tries, admitted, refused>>

BucketNext == Tick \/ \E lag \in 0..MaxLag : Attempt(lag)
BucketSpec == BucketInit /\ [][BucketNext]_bucket

-----------------------------------------------------------------------------
(* Properties                                                              *)

\* The attempts admitted up to the m-th within the last `span` seconds at time t.
Recent(m, t, span) == {n \in DOMAIN admitted : n <= m /\ admitted[n] > t - span}

\* No span of Window - MaxLag seconds sees more admissions than the limit, however
\* the servers' clocks and the delays on the way to Redis differ (rate_limiter.py).
NeverOverAdmits ==
  \A m \in DOMAIN admitted :
    Cardinality(Recent(m, admitted[m], Window - MaxLag)) <= EffectiveLimit

\* An attempt is refused only if the limit was admitted within the last
\* Window + MaxLag seconds: refusals do not prolong one another (rate_limiter.py,
\* "without recording the attempt").
RefusedOnlyWhenFull ==
  \A m \in DOMAIN refused :
    Cardinality(Recent(m, refused[m], Window + MaxLag)) >= EffectiveLimit
=============================================================================
