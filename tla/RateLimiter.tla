----------------------------- MODULE RateLimiter -----------------------------
(***************************************************************************)
(* RateLimiter (src/server/http_server.cpp): one token bucket per client   *)
(* address.  allow() looks for a limit without a lock, and then holds mtx_ *)
(* from the clock reading to the decision: two steps, between which time   *)
(* passes and set_limits() and other calls run.  The unlocked read gets    *)
(* the rate before or after a concurrent set_limits().                     *)
(* Time is in milliseconds, the unit the refill is computed in.            *)
(***************************************************************************)
EXTENDS Integers

CONSTANTS
    Clients,  \* the addresses
    Rates,    \* the values of max_requests_per_sec, 0: no limit
    Bursts,   \* the values of burst, 0: as large as the rate
    TopRate,  \* an upper bound of Rates
    Callers,  \* the most calls of allow() for a client at a time
    Pauses,   \* how far the clock may advance at once, in ms
    Horizon,  \* bound: the clock stops there
    MaxGrants \* bound: requests granted to a client

ASSUME ConstantsAssumption ==
    /\ Rates \subseteq Nat /\ Bursts \subseteq Nat /\ Pauses \subseteq Nat \ {0}
    /\ TopRate \in Nat /\ \A r \in Rates : r <= TopRate
    /\ Callers \in Nat /\ Horizon \in Nat /\ MaxGrants \in Nat

VARIABLES
    now,
    max_rps_, burst_,
    buckets_, \* per client: tokens, max_tokens (0: not initialised) and last_refill
    calling,  \* per client: calls of allow() that have found a limit, before the lock
    since,    \* history: when the client's bucket was filled first
    granted,  \* history: requests granted from the bucket
    stretch,  \* history: a stretch of time under the present limits, and what was
              \* granted in it
    served,   \* history: when a request of the client was last granted
    refused   \* history: whether the last step refused a request under a limit, and
              \* for how long its client had gone without

vars == <<now, max_rps_, burst_, buckets_, calling, since, granted, stretch, served, refused>>

NoRefusal == [pause |-> 0, was |-> FALSE]

\* Observe every client from time t on.
Observed(t) == [c \in Clients |-> [from |-> t, granted |-> 0]]

TypeOK ==
    /\ now \in Nat
    /\ max_rps_ \in Rates /\ burst_ \in Bursts
    /\ buckets_ \in [Clients -> [tokens : Nat, max_tokens : Nat, last_refill : Nat]]
    /\ calling \in [Clients -> 0..Callers]
    /\ since \in [Clients -> Nat]
    /\ granted \in [Clients -> Nat]
    /\ stretch \in [Clients -> [from : Nat, granted : Nat]]
    /\ served \in [Clients -> Nat]
    /\ refused \in [pause : Nat, was : BOOLEAN]

Init ==
    /\ now = 0
    /\ max_rps_ \in Rates /\ burst_ \in Bursts
    /\ buckets_ = [c \in Clients |-> [tokens |-> 0, max_tokens |-> 0, last_refill |-> 0]]
    /\ calling = [c \in Clients |-> 0]
    /\ since = [c \in Clients |-> 0]
    /\ granted = [c \in Clients |-> 0]
    /\ stretch = Observed(0)
    /\ served = [c \in Clients |-> 0]
    /\ refused = NoRefusal

-----------------------------------------------------------------------------

SetLimits(r, b) ==
    /\ max_rps_' = r /\ burst_' = b
    /\ stretch' = Observed(now)
    /\ refused' = NoRefusal
    /\ UNCHANGED <<now, buckets_, calling, since, granted, served>>

\* Time passes; any moment may begin a stretch.
Tick(ms) ==
    /\ now + ms <= Horizon
    /\ now' = now + ms
    /\ stretch' \in {stretch, Observed(now + ms)}
    /\ refused' = NoRefusal
    /\ UNCHANGED <<max_rps_, burst_, buckets_, calling, since, granted, served>>

\* The bucket of a client that is seen for the first time is full.
Fresh(c) == buckets_[c].max_tokens = 0
Capacity == IF burst_ > 0 THEN burst_ ELSE max_rps_
Bucket(c) ==
    IF Fresh(c) THEN [tokens |-> Capacity, max_tokens |-> Capacity, last_refill |-> now]
                ELSE buckets_[c]

\* Mutant: the refill is rounded up.
RefilledRoundedUp(b) ==
    LET refill == ((now - b.last_refill) * max_rps_ + 999) \div 1000
        sum == b.tokens + refill
    IN  IF refill > 0
        THEN [b EXCEPT !.tokens = IF sum < b.max_tokens THEN sum ELSE b.max_tokens,
                       !.last_refill = now]
        ELSE b

\* Mutant: an idle client saves up without limit.
RefilledUncapped(b) ==
    LET refill == ((now - b.last_refill) * max_rps_) \div 1000
    IN  IF refill > 0 THEN [b EXCEPT !.tokens = b.tokens + refill, !.last_refill = now]
                      ELSE b

\* Mutant: the clock of the bucket moves on although nothing was refilled.
RefilledEager(b) ==
    LET refill == ((now - b.last_refill) * max_rps_) \div 1000
        sum == b.tokens + refill
    IN  [b EXCEPT !.tokens = IF sum < b.max_tokens THEN sum ELSE b.max_tokens,
                  !.last_refill = now]

\* Whole tokens only; the time of a fraction of a token is forgotten once a whole
\* one has been refilled.
Refilled(b) ==
    LET refill == ((now - b.last_refill) * max_rps_) \div 1000
        sum == b.tokens + refill
    IN  IF refill > 0
        THEN [b EXCEPT !.tokens = IF sum < b.max_tokens THEN sum ELSE b.max_tokens,
                       !.last_refill = now]
        ELSE b

\* allow() decides on a bucket: grants on its last token, refuses without one.
Grant(c, b) ==
    /\ b.tokens > 0
    /\ buckets_' = [buckets_ EXCEPT ![c] = [b EXCEPT !.tokens = b.tokens - 1]]
    /\ granted' = [granted EXCEPT ![c] = granted[c] + 1]
    /\ stretch' = [stretch EXCEPT ![c].granted = @ + 1]
    /\ served' = [served EXCEPT ![c] = now]
    /\ refused' = NoRefusal

Refuse(c, b) ==
    /\ b.tokens = 0
    /\ buckets_' = [buckets_ EXCEPT ![c] = b]
    /\ refused' = [pause |-> now - served[c], was |-> max_rps_ > 0]
    /\ UNCHANGED <<granted, stretch, served>>

\* allow() returns at once without a limit, ...
Enter(c) ==
    /\ max_rps_ > 0
    /\ calling[c] < Callers
    /\ calling' = [calling EXCEPT ![c] = calling[c] + 1]
    /\ refused' = NoRefusal
    /\ UNCHANGED <<now, max_rps_, burst_, buckets_, since, granted, stretch, served>>

\* ... and takes the lock otherwise, when the limit may have been lifted again.
Allow(c) ==
    /\ calling[c] > 0
    /\ granted[c] < MaxGrants
    /\ LET b == Refilled(Bucket(c)) IN Grant(c, b) \/ Refuse(c, b)
    /\ calling' = [calling EXCEPT ![c] = calling[c] - 1]
    /\ since' = [since EXCEPT ![c] = IF Fresh(c) THEN now ELSE since[c]]
    /\ UNCHANGED <<now, max_rps_, burst_>>

Next ==
    \/ \E r \in Rates, b \in Bursts : SetLimits(r, b)
    \/ \E ms \in Pauses : Tick(ms)
    \/ \E c \in Clients : Enter(c) \/ Allow(c)

Spec == Init /\ [][Next]_vars

-----------------------------------------------------------------------------
(* Properties.                                                             *)

\* From the first fill of its bucket on, a client gets at most the burst of that
\* moment plus what the highest rate refills in the time since, although the
\* refill is rounded on every call and the limits change under the bucket.
RateBound ==
    \A c \in Clients :
        1000 * granted[c] <= 1000 * buckets_[c].max_tokens + TopRate * (now - since[c])

\* In any stretch of time without a change of the limits, wherever it begins, a
\* client gets at most its burst plus what the rate refills in that time; at one
\* instant never more than its burst, however long it was idle.  What was left
\* over of a token before the stretch is no extra: a bucket whose clock stands
\* back has granted since it was full.
StretchBound ==
    \A c \in Clients :
        1000 * stretch[c].granted <= 1000 * buckets_[c].max_tokens
                                       + max_rps_ * (now - stretch[c].from)

\* While there is a limit no client is refused for a second on end, however often
\* it asks: a call that refills nothing because of the rounding does not restart
\* the bucket's clock.
NeverStarved == refused.was => refused.pause < 1000

=============================================================================
