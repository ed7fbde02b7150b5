------------------------------ MODULE RateLimit ------------------------------
(***************************************************************************)
(* The limiter in front of /v1 (crates/lulan-api/src/rate_limit.rs): one     *)
(* sorted set in Redis per caller and bucket, read and changed by one script *)
(* with the clock of the replica that runs it.  A request while Redis is     *)
(* away passes uncounted.                                                   *)
(***************************************************************************)
EXTENDS Integers, FiniteSets

CONSTANTS Callers,     \* credentials as sent, or addresses
          Limit,       \* per bucket: LULAN_RATE_LIMIT_READS, LULAN_RATE_LIMIT
          Window,      \* WINDOW_SECS
          Ahead,       \* per replica: how far its clock is ahead of Redis'
          Skew,        \* how far the clocks of two replicas are apart at most
          MaxClock,    \* bound: the clock
          MaxRefused   \* bound: requests refused, per set

Buckets  == DOMAIN Limit
Doors    == DOMAIN Ahead
Sets     == Callers \X Buckets

ASSUME RateLimitAssumption ==
  /\ \A b \in Buckets : Limit[b] \in Nat
  /\ \A r \in Doors : Ahead[r] \in Int
  /\ Skew \in Nat /\ \A r, q \in Doors : Ahead[r] - Ahead[q] <= Skew
  /\ Window \in Nat \ {0} /\ MaxClock \in Nat /\ MaxRefused \in Nat

\* A member of a sorted set: its score, and as history the number of the request
\* and when it was admitted by the clock of Redis.
Members == [n : Nat, score : Int, at : Nat]

VARIABLES clock,       \* Redis' clock
          scores,      \* the sorted sets
          gone,        \* when a set expires
          admitted,    \* history: all members there ever were
          refused      \* history: how many requests were answered 429

limiter_vars == <<clock, scores, gone, admitted, refused>>

LimiterTypeOK ==
  /\ clock \in 0..MaxClock
  /\ scores \in [Sets -> SUBSET Members]
  /\ gone \in [Sets -> Nat]
  /\ admitted \in [Sets -> SUBSET Members]
  /\ refused \in [Sets -> 0..MaxRefused]

LimiterInit ==
  /\ clock = 0
  /\ scores = [s \in Sets |-> {}]
  /\ gone = [s \in Sets |-> 0]
  /\ admitted = [s \in Sets |-> {}]
  /\ refused = [s \in Sets |-> 0]

-----------------------------------------------------------------------------
\* Members with a score later than t.
After(members, t) == {x \in members : x.score > t}

FullLate(kept, limit) == Cardinality(kept) > limit   \* mutant: count > limit

\* mutant: the request itself counted before it is added
FullEarly(kept, limit) == Cardinality(kept) + 1 >= limit

\* count >= limit
Full(kept, limit) == Cardinality(kept) >= limit

\* The script, with the clock of replica r: ZREMRANGEBYSCORE, ZCARD, ZADD,
\* PEXPIRE.
LimiterRequest(c, b, r) ==
  LET s    == <<c, b>>
      now  == clock + Ahead[r]
      kept == After(scores[s], now - Window)
      new  == [n |-> Cardinality(admitted[s]) + 1, score |-> now, at |-> clock]
  IN  /\ IF Full(kept, Limit[b])
         THEN /\ refused[s] < MaxRefused
              /\ scores' = [scores EXCEPT ![s] = kept]
              /\ refused' = [refused EXCEPT ![s] = @ + 1]
              /\ UNCHANGED <<gone, admitted>>
         ELSE /\ scores' = [scores EXCEPT ![s] = kept \cup {new}]
              /\ gone' = [gone EXCEPT ![s] = clock + Window]
              /\ admitted' = [admitted EXCEPT ![s] = @ \cup {new}]
              /\ UNCHANGED refused
      /\ UNCHANGED clock

\* Time passes; Redis drops the sets that have expired.
LimiterTick ==
  /\ clock < MaxClock
  /\ clock' = clock + 1
  /\ scores' = [s \in Sets |-> IF gone[s] <= clock + 1 THEN {} ELSE scores[s]]
  /\ UNCHANGED <<gone, admitted, refused>>

LimiterNext ==
  \/ \E c \in Callers, b \in Buckets, r \in Doors : LimiterRequest(c, b, r)
  \/ LimiterTick

LimiterSpec == LimiterInit /\ [][LimiterNext]_limiter_vars

-----------------------------------------------------------------------------
(* Properties *)

\* How many requests were admitted later than t.
Since(s, t) == Cardinality({x \in admitted[s] : x.at > t})

\* Whatever replicas a caller reaches, no more than the limit of a bucket is
\* admitted within a window that is shorter by what their clocks differ; and a
\* request is refused only if its caller has had all of that bucket, whatever it did
\* with the other, within a window longer by as much (rate_limit.rs:37, 142).
BudgetsHold ==
  [][\A c \in Callers, b \in Buckets :
       LET s == <<c, b>>
       IN  /\ admitted'[s] # admitted[s] => Since(s, clock - (Window - Skew)) < Limit[b]
           /\ refused'[s] # refused[s] => Since(s, clock - (Window + Skew)) >= Limit[b]
    ]_limiter_vars
=============================================================================
