---------------------------- MODULE RateLimiter ----------------------------
(***************************************************************************)
(* The sliding-window rate limit of add_rate_limiting                      *)
(* (src/smgp/integration/api_auth.py).  The middleware does not await      *)
(* between reading a bucket and writing it, so the event loop runs that    *)
(* part of it as one step.                                                 *)
(*                                                                         *)
(* A bucket is a list of timestamps.  Two requests may read the same clock *)
(* value, so a timestamp is identified by the number of its request: the   *)
(* bucket is the set of the numbers, and passed gives the time of each.    *)
(***************************************************************************)
EXTENDS Integers, Sequences, FiniteSets

CONSTANTS
    Client,      \* client addresses, "unknown" among them
    Max,         \* max_requests
    Window,      \* window_seconds
    MaxClock     \* bound: the last value of the clock

ASSUME LimitAssumption ==
    /\ Max \in Nat /\ Window \in Nat /\ MaxClock \in Nat

VARIABLES
    clock,    \* time.monotonic()
    buckets,  \* _buckets
    passed    \* the times of the requests handed to call_next, in order

limiterVars == <<clock, buckets, passed>>

LimiterInit ==
    /\ clock = 0
    /\ buckets = [c \in Client |-> {}]
    /\ passed = [c \in Client |-> <<>>]

Advance ==
    /\ clock < MaxClock
    /\ clock' = clock + 1
    /\ UNCHANGED <<buckets, passed>>

(* Mutant: a timestamp stays one tick too long.                            *)
RecentInclusive(c) ==
    {i \in buckets[c] : clock - passed[c][i] <= Window}

(* Mutant: a timestamp leaves one tick too early.                          *)
RecentEarly(c) ==
    {i \in buckets[c] : clock - passed[c][i] < Window - 1}

(* The timestamps of c inside the window.                                  *)
Recent(c) == {i \in buckets[c] : clock - passed[c][i] < Window}

Limited(c) == Cardinality(Recent(c)) >= Max

(* Status 429: the eviction is kept, the request leaves no timestamp.      *)
Reject(c) ==
    /\ Limited(c)
    /\ buckets' = [buckets EXCEPT ![c] = Recent(c)]
    /\ UNCHANGED <<clock, passed>>

Pass(c) ==
    /\ ~Limited(c)
    /\ passed' = [passed EXCEPT ![c] = Append(@, clock)]
    /\ buckets' = [buckets EXCEPT ![c] = Recent(c) \cup {Len(passed[c]) + 1}]
    /\ UNCHANGED clock

LimiterNext ==
    \/ Advance
    \/ \E c \in Client : Reject(c) \/ Pass(c)

LimiterSpec == LimiterInit /\ [][LimiterNext]_limiterVars
-----------------------------------------------------------------------------
LimiterTypeOK ==
    /\ clock \in Nat
    /\ passed \in [Client -> Seq(Nat)]
    /\ buckets \in [Client -> SUBSET Nat]

(* However the requests of a client fall, no span of the window's length   *)
(* holds more than Max that were passed on: the request Max places after   *)
(* another comes at least a window later.                                  *)
WindowBound ==
    \A c \in Client : \A i \in 1..Len(passed[c]) :
        i + Max <= Len(passed[c]) =>
            passed[c][i + Max] - passed[c][i] >= Window

(* A bucket holds Max timestamps at most, however long the server runs.    *)
BucketBound == \A c \in Client : Cardinality(buckets[c]) <= Max

(* A client would be turned away if and only if Max of its own requests    *)
(* were passed on less than a window ago: what the bucket has dropped never*)
(* matters.                                                                *)
RejectJustified ==
    \A c \in Client :
        Limited(c) <=> Cardinality({i \in 1..Len(passed[c]) :
                                      clock - passed[c][i] < Window}) >= Max
-----------------------------------------------------------------------------
(* The inductive invariant: the times are in order, and what a bucket lacks*)
(* is outside the window.                                                  *)
OrderedInv ==
    \A c \in Client : \A i \in 1..Len(passed[c]) :
        /\ passed[c][i] <= clock
        /\ \A j \in i..Len(passed[c]) : passed[c][i] <= passed[c][j]

BucketInv ==
    \A c \in Client :
        /\ buckets[c] \subseteq 1..Len(passed[c])
        /\ \A i \in (1..Len(passed[c])) \ buckets[c] :
              clock - passed[c][i] >= Window

LimiterInv ==
    LimiterTypeOK /\ OrderedInv /\ BucketInv /\ WindowBound /\ BucketBound
=============================================================================
