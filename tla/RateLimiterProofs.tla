-------------------------- MODULE RateLimiterProofs --------------------------
(***************************************************************************)
(* The bounds of RateLimiter for every set of limits, pauses and clients.  *)
(*                                                                         *)
(* RateBound is not inductive: a bucket full of tokens could be granted at *)
(* once.  Account charges the tokens still in the bucket as well, against  *)
(* the time up to last_refill only, because the time after it has not been *)
(* turned into tokens yet.  A refill rounds down, so it never credits more *)
(* than the time it uses up.  For StretchBound the same account is kept    *)
(* from the stretch's first grant on, at the rate in force.  The bucket's  *)
(* clock may then stand before the stretch, by less than a token; that     *)
(* token is missing in the bucket, which is full only until its next grant.*)
(***************************************************************************)
EXTENDS RateLimiter, TLAPS

\* A bucket in use was filled, refilled and last granted from in this order: a
\* token has been granted whenever the bucket's clock moved.
Clocks ==
    \A c \in Clients :
        /\ since[c] <= buckets_[c].last_refill
        /\ buckets_[c].last_refill <= now /\ served[c] <= now
        /\ buckets_[c].max_tokens > 0 => buckets_[c].last_refill <= served[c]

\* Tokens granted and tokens left are paid for by the capacity and by the time
\* up to the last refill.
Account ==
    \A c \in Clients :
        1000 * (granted[c] + buckets_[c].tokens)
            <= 1000 * buckets_[c].max_tokens + TopRate * (buckets_[c].last_refill - since[c])

\* A bucket in use is not full.  Tokens granted in the stretch and tokens left are
\* paid for by the capacity and by the time from the stretch's beginning to the
\* last refill, which counts against them when it was before.
Stretches ==
    \A c \in Clients :
        /\ buckets_[c].max_tokens > 0 => buckets_[c].tokens < buckets_[c].max_tokens
        /\ stretch[c].from <= now
        /\ stretch[c].granted > 0 =>
             1000 * (stretch[c].granted + buckets_[c].tokens)
                 <= 1000 * buckets_[c].max_tokens
                      + max_rps_ * (buckets_[c].last_refill - stretch[c].from)

\* A bucket that has not been set up has granted nothing.
Unused ==
    \A c \in Clients :
        buckets_[c].max_tokens = 0 =>
            granted[c] = 0 /\ stretch[c].granted = 0 /\ buckets_[c].tokens = 0

IInv == TypeOK /\ Clocks /\ Account /\ Stretches /\ Unused /\ NeverStarved

-----------------------------------------------------------------------------
(* Arithmetic of the refill.                                               *)

\* A product of naturals is a natural.
LEMMA Product ==
    ASSUME NEW d \in Nat, NEW r \in Nat
    PROVE  d * r \in Nat
  OBVIOUS

\* A lower rate refills no more than a higher one.
LEMMA Monotone ==
    ASSUME NEW d \in Nat, NEW r \in Nat, NEW t \in Nat, r <= t
    PROVE  d * r <= t * d
<1>1. PICK k \in Nat : t = r + k
  <2>1. t - r \in Nat /\ t = r + (t - r)
    OBVIOUS
  <2>2. QED  BY <2>1
<1>2. t * d = d * r + d * k
  BY <1>1
<1>3. d * k \in Nat /\ d * r \in Nat
  BY <1>1, Product
<1>4. QED  BY <1>2, <1>3

\* The time up to the last refill and the time after it add up.
LEMMA Distribute ==
    ASSUME NEW t \in Nat, NEW s \in Nat, NEW l \in Nat, NEW n \in Nat, s <= l, l <= n
    PROVE  /\ t * (l - s) + t * (n - l) = t * (n - s)
           /\ t * (l - s) <= t * (n - s)
           /\ t * (l - s) \in Nat /\ t * (n - s) \in Nat
<1>1. l - s \in Nat /\ n - l \in Nat /\ n - s \in Nat
  OBVIOUS
<1>2. t * (l - s) + t * (n - l) = t * (n - s)
  OBVIOUS
<1>3. t * (l - s) \in Nat /\ t * (n - l) \in Nat /\ t * (n - s) \in Nat
  BY <1>1, Product
<1>4. QED  BY <1>2, <1>3

\* The same for a stretch that may begin after the last refill.
LEMMA Split ==
    ASSUME NEW r \in Nat, NEW f \in Int, NEW l \in Int, NEW n \in Int, l <= n
    PROVE  /\ r * (l - f) + (n - l) * r = r * (n - f)
           /\ r * (l - f) \in Int /\ (n - l) * r \in Nat /\ r * (n - f) \in Int
<1>1. n - l \in Nat /\ l - f \in Int /\ n - f \in Int
  OBVIOUS
<1>2. r * (l - f) + (n - l) * r = r * (n - f)
  OBVIOUS
<1>3. QED  BY <1>1, <1>2, Product

\* The refill for d milliseconds at rate r is rounded down.
LEMMA Rounding ==
    ASSUME NEW d \in Nat, NEW r \in Nat
    PROVE  /\ (d * r) \div 1000 \in Nat
           /\ 1000 * ((d * r) \div 1000) <= d * r
           /\ (d * r) \div 1000 = 0 => d * r < 1000
           /\ d * r < 1000 => (d * r) \div 1000 = 0
<1>1. d * r \in Nat
  BY Product
<1>2. \A x \in Nat : /\ x \div 1000 \in Nat /\ 1000 * (x \div 1000) <= x
                     /\ x \div 1000 = 0 => x < 1000
                     /\ x < 1000 => x \div 1000 = 0
  OBVIOUS
<1>3. QED  BY <1>1, <1>2

-----------------------------------------------------------------------------
(* What allow() decides on.                                                *)

BucketType == [tokens : Nat, max_tokens : Nat, last_refill : Nat]
Start(c) == IF Fresh(c) THEN now ELSE since[c]

\* What bucket b owes the stretch w.
Charged(b, w) ==
    1000 * (w.granted + b.tokens) <= 1000 * b.max_tokens + max_rps_ * (b.last_refill - w.from)

\* The limits in force are naturals, and the rate is at most TopRate.
LEMMA ConstantTypes ==
    ASSUME TypeOK
    PROVE  /\ max_rps_ \in Nat /\ burst_ \in Nat /\ TopRate \in Nat
           /\ max_rps_ <= TopRate
  BY ConstantsAssumption DEF TypeOK

\* The bucket after its set-up, before its refill.
LEMMA BucketFacts ==
    ASSUME IInv, NEW c \in Clients
    PROVE  /\ Bucket(c) \in BucketType
           /\ Bucket(c).max_tokens = 0 => max_rps_ = 0 /\ granted[c] = 0 /\ stretch[c].granted = 0
           /\ Bucket(c).tokens <= Bucket(c).max_tokens
           /\ Start(c) \in Nat /\ Start(c) <= Bucket(c).last_refill
           /\ Bucket(c).last_refill <= now
           /\ Bucket(c).last_refill <= served[c] \/ Bucket(c).tokens > 0 \/ Bucket(c).max_tokens = 0
           /\ 1000 * (granted[c] + Bucket(c).tokens)
                 <= 1000 * Bucket(c).max_tokens
                      + TopRate * (Bucket(c).last_refill - Start(c))
           /\ Bucket(c).tokens < Bucket(c).max_tokens \/ Bucket(c).last_refill = now
           /\ stretch[c].granted > 0 => Charged(Bucket(c), stretch[c])
<1>1. TypeOK /\ now \in Nat /\ max_rps_ \in Nat /\ burst_ \in Nat /\ TopRate \in Nat
  BY ConstantTypes DEF IInv, TypeOK
<1>2. CASE Fresh(c)
  <2>1. Capacity \in Nat /\ (Capacity = 0 => max_rps_ = 0)
    BY <1>1 DEF Capacity
  <2>2. /\ Bucket(c) = [tokens |-> Capacity, max_tokens |-> Capacity, last_refill |-> now]
        /\ Start(c) = now
    BY <1>2 DEF Bucket, Start
  <2>3. granted[c] = 0 /\ stretch[c].granted = 0
    BY <1>2 DEF IInv, Unused, Fresh
  <2>4. TopRate * (now - now) = 0
    BY <1>1
  <2>5. QED  BY <1>1, <2>1, <2>2, <2>3, <2>4 DEF BucketType
<1>3. CASE ~Fresh(c)
  <2>1. Bucket(c) = buckets_[c] /\ Start(c) = since[c]
    BY <1>3 DEF Bucket, Start
  <2>2. buckets_[c] \in BucketType /\ since[c] \in Nat
    BY <1>1 DEF TypeOK, BucketType
  <2>3. buckets_[c].max_tokens > 0
    BY <1>3, <2>2 DEF Fresh, BucketType
  <2>4. served[c] \in Nat
    BY <1>1 DEF TypeOK
  <2>5. stretch[c].granted > 0 => Charged(buckets_[c], stretch[c])
    BY DEF IInv, Stretches, Charged
  <2>6. buckets_[c].tokens \in Nat /\ buckets_[c].max_tokens \in Nat
    BY <2>2 DEF BucketType
  <2>7. buckets_[c].tokens < buckets_[c].max_tokens
    BY <2>3 DEF IInv, Stretches
  <2>8. QED
    BY <1>1, <2>1, <2>2, <2>3, <2>4, <2>5, <2>6, <2>7 DEF IInv, Clocks, Account
<1>4. QED  BY <1>2, <1>3

\* The bucket allow() takes a token from.
LEMMA RefilledFacts ==
    ASSUME IInv, NEW c \in Clients, NEW b, b = Refilled(Bucket(c))
    PROVE  /\ b \in BucketType
           /\ b.max_tokens = 0 => max_rps_ = 0 /\ granted[c] = 0 /\ stretch[c].granted = 0
           /\ b.tokens <= b.max_tokens
           /\ Start(c) \in Nat /\ Start(c) <= b.last_refill /\ b.last_refill <= now
           /\ b.last_refill <= served[c] \/ b.tokens > 0 \/ b.max_tokens = 0
           /\ 1000 * (granted[c] + b.tokens)
                 <= 1000 * b.max_tokens + TopRate * (b.last_refill - Start(c))
           /\ 1000 > (now - b.last_refill) * max_rps_
           /\ Charged(b, stretch[c])
<1> DEFINE a == Bucket(c)
           d == now - a.last_refill
           refill == (d * max_rps_) \div 1000
           sum == a.tokens + refill
           least == IF sum < a.max_tokens THEN sum ELSE a.max_tokens
<1>1. /\ now \in Nat /\ max_rps_ \in Nat /\ TopRate \in Nat /\ max_rps_ <= TopRate
      /\ granted[c] \in Nat /\ served[c] \in Nat
      /\ stretch[c].granted \in Nat /\ stretch[c].from \in Nat /\ stretch[c].from <= now
  BY ConstantTypes DEF IInv, TypeOK, Stretches
<1>2. /\ a \in BucketType /\ a.tokens <= a.max_tokens
      /\ a.max_tokens = 0 => max_rps_ = 0 /\ granted[c] = 0 /\ stretch[c].granted = 0
      /\ Start(c) \in Nat /\ Start(c) <= a.last_refill /\ a.last_refill <= now
      /\ a.last_refill <= served[c] \/ a.tokens > 0 \/ a.max_tokens = 0
      /\ 1000 * (granted[c] + a.tokens)
            <= 1000 * a.max_tokens + TopRate * (a.last_refill - Start(c))
      /\ a.tokens < a.max_tokens \/ a.last_refill = now
      /\ stretch[c].granted > 0 => Charged(a, stretch[c])
  BY BucketFacts
<1>3. /\ a.tokens \in Nat /\ a.max_tokens \in Nat /\ a.last_refill \in Nat /\ d \in Nat
      /\ Start(c) \in Nat /\ Start(c) <= a.last_refill /\ a.last_refill <= now
  <2>1. a \in BucketType /\ a.last_refill <= now
    BY BucketFacts
  <2>2. Start(c) \in Nat /\ Start(c) <= a.last_refill
    BY BucketFacts
  <2>3. a.tokens \in Nat /\ a.max_tokens \in Nat /\ a.last_refill \in Nat
    <3> HIDE DEF a
    <3> QED  BY <2>1 DEF BucketType
  <2>4. d \in Nat
    BY <1>1, <2>1, <2>3
  <2>5. QED  BY <2>1, <2>2, <2>3, <2>4
<1>4. /\ refill \in Nat /\ 1000 * refill <= d * max_rps_
      /\ refill = 0 => d * max_rps_ < 1000
      /\ d * max_rps_ < 1000 => refill = 0
      /\ max_rps_ = 0 => refill = 0
  <2> HIDE DEF d
  <2>1. max_rps_ = 0 => d * max_rps_ = 0
    BY <1>3
  <2>2. QED  BY <1>1, <1>3, <2>1, Rounding
<1>5. b = IF refill > 0 THEN [a EXCEPT !.tokens = least, !.last_refill = now] ELSE a
  BY DEF Refilled
<1> DEFINE w == stretch[c]
<1>6. CASE refill > 0
  <2>1. b = [a EXCEPT !.tokens = least, !.last_refill = now]
    BY <1>5, <1>6
  <2>2. least \in Nat /\ least > 0 /\ a.max_tokens > 0 /\ least <= a.max_tokens /\ least <= a.tokens + refill
    <3> HIDE DEF a, refill
    <3> QED  BY <1>2, <1>3, <1>4, <1>6
  <2>3. /\ b \in BucketType /\ b.tokens = least /\ b.last_refill = now
        /\ b.max_tokens = a.max_tokens
    <3> HIDE DEF a, least
    <3>1. a = [tokens |-> a.tokens, max_tokens |-> a.max_tokens,
               last_refill |-> a.last_refill]
      BY <1>2 DEF BucketType
    <3>2. b = [tokens |-> least, max_tokens |-> a.max_tokens, last_refill |-> now]
      BY <2>1, <3>1
    <3>3. QED  BY <1>1, <1>3, <2>2, <3>2 DEF BucketType
  <2>4. Charged(b, w)
    <3>1. /\ max_rps_ * (a.last_refill - w.from) + d * max_rps_ = max_rps_ * (now - w.from)
          /\ max_rps_ * (a.last_refill - w.from) \in Int /\ d * max_rps_ \in Nat
          /\ max_rps_ * (now - w.from) \in Int
      BY <1>1, <1>3, Split
    <3>2. now - w.from \in Nat
      BY <1>1
    <3>3. max_rps_ * (now - w.from) \in Nat
      BY <1>1, <3>2, Product
    <3> HIDE DEF d, refill, least, w
    <3>4. CASE w.granted = 0
      BY <1>3, <2>2, <2>3, <3>3, <3>4 DEF Charged
    <3>5. CASE w.granted > 0
      <4>1. 1000 * (w.granted + a.tokens) <= 1000 * a.max_tokens + max_rps_ * (a.last_refill - w.from)
        BY <1>2, <3>5 DEF Charged, w
      <4>2. 1000 * (w.granted + least) <= 1000 * (w.granted + a.tokens) + 1000 * refill
        BY <1>1, <1>3, <1>4, <2>2 DEF w
      <4>3. 1000 * (w.granted + least) <= 1000 * a.max_tokens + max_rps_ * (now - w.from)
        BY <1>1, <1>3, <1>4, <2>2, <3>1, <4>1, <4>2 DEF w
      <4>4. QED  BY <2>3, <4>3 DEF Charged
    <3>6. QED  BY <1>1, <3>4, <3>5 DEF w
  <2>5. d * max_rps_ <= TopRate * d /\ d * max_rps_ \in Nat
    BY <1>1, <1>3, Monotone, Product
  <2>6. /\ TopRate * (a.last_refill - Start(c)) + TopRate * d = TopRate * (now - Start(c))
        /\ TopRate * (a.last_refill - Start(c)) \in Nat
        /\ TopRate * (now - Start(c)) \in Nat
    BY <1>1, <1>3, Distribute
  <2>7. TopRate * d \in Nat
    BY <1>1, <1>3, Product
  <2>8. 1000 * (granted[c] + least) <= 1000 * (granted[c] + a.tokens) + 1000 * refill
    BY <1>1, <1>3, <1>4, <2>2
  <2>9. 1000 * (granted[c] + least) <= 1000 * a.max_tokens + TopRate * (now - Start(c))
    <3> HIDE DEF d, refill, least
    <3> QED  BY <1>1, <1>2, <1>3, <1>4, <2>2, <2>5, <2>6, <2>7, <2>8
  <2>10. (now - now) * max_rps_ = 0
    BY <1>1
  <2>11. QED
    <3> HIDE DEF d, refill, least
    <3> QED  BY <1>1, <1>2, <1>3, <2>2, <2>3, <2>4, <2>9, <2>10
<1>7. CASE ~(refill > 0)
  <2>1. b = a /\ d * max_rps_ < 1000
    BY <1>4, <1>5, <1>7
  <2>2. (now - b.last_refill) * max_rps_ \in Nat
    BY <1>1, <1>3, <2>1, Product
  <2>3. Charged(a, w)
    <3>1. /\ max_rps_ * (a.last_refill - w.from) + d * max_rps_ = max_rps_ * (now - w.from)
          /\ max_rps_ * (a.last_refill - w.from) \in Int /\ d * max_rps_ \in Nat
      BY <1>1, <1>3, Split
    <3>2. now - w.from \in Nat
      BY <1>1
    <3>3. max_rps_ * (now - w.from) \in Nat
      BY <1>1, <3>2, Product
    <3>4. a.last_refill = now => d * max_rps_ = 0
      BY <1>1
    <3> HIDE DEF d, refill, w
    <3>5. CASE w.granted = 0
      BY <1>2, <1>3, <2>1, <3>1, <3>3, <3>4, <3>5 DEF Charged
    <3>6. QED  BY <1>1, <1>2, <3>5 DEF w
  <2>4. QED  BY <1>2, <2>1, <2>2, <2>3
<1>8. QED  BY <1>6, <1>7

-----------------------------------------------------------------------------
(* IInv is inductive.                                                      *)

\* IInv holds before the first request.
LEMMA InitIInv == Init => IInv
<1> SUFFICES ASSUME Init PROVE IInv
  OBVIOUS
<1>1. TypeOK
  BY ConstantsAssumption DEF Init, TypeOK, NoRefusal, Observed
<1>2. TopRate * (0 - 0) = 0
  BY ConstantsAssumption
<1>3. Clocks /\ Account /\ Stretches /\ Unused /\ NeverStarved
  BY <1>2 DEF Init, Clocks, Account, Stretches, Unused, NeverStarved, NoRefusal, Observed
<1>4. QED  BY <1>1, <1>3 DEF IInv

\* One client's part of the invariant, with the values it is about.
Good(b, s, g, w, v, t, r) ==
    /\ s <= b.last_refill /\ b.last_refill <= t /\ v <= t
    /\ b.max_tokens > 0 => b.last_refill <= v
    /\ 1000 * (g + b.tokens) <= 1000 * b.max_tokens + TopRate * (b.last_refill - s)
    /\ b.max_tokens > 0 => b.tokens < b.max_tokens
    /\ w.from <= t
    /\ w.granted > 0 =>
         1000 * (w.granted + b.tokens) <= 1000 * b.max_tokens + r * (b.last_refill - w.from)
    /\ b.max_tokens = 0 => g = 0 /\ w.granted = 0 /\ b.tokens = 0

\* The invariant speaks of each client by itself, ...
LEMMA PerClient ==
    (Clocks /\ Account /\ Stretches /\ Unused)
      <=> \A c \in Clients : Good(buckets_[c], since[c], granted[c], stretch[c], served[c],
                                  now, max_rps_)
  BY DEF Good, Clocks, Account, Stretches, Unused

\* ... and so it does after a step.
LEMMA PerClientNext ==
    (Clocks' /\ Account' /\ Stretches' /\ Unused')
      <=> \A c \in Clients : Good(buckets_'[c], since'[c], granted'[c], stretch'[c],
                                  served'[c], now', max_rps_')
  BY DEF Good, Clocks, Account, Stretches, Unused

\* allow() preserves IInv, whether it grants or refuses.
LEMMA AllowKeeps ==
    ASSUME IInv, NEW c \in Clients, Allow(c)
    PROVE  IInv'
<1> DEFINE b == Refilled(Bucket(c))
           g == granted[c]
           s == Start(c)
           w == stretch[c]
<1>1. /\ TypeOK /\ now \in Nat /\ max_rps_ \in Nat /\ TopRate \in Nat
      /\ g \in Nat /\ served[c] \in Nat /\ served[c] <= now
      /\ w \in [from : Nat, granted : Nat] /\ w.granted \in Nat /\ w.from \in Nat /\ w.from <= now
  BY ConstantTypes DEF IInv, TypeOK, Allow, Clocks, Stretches
<1>2. /\ b \in BucketType /\ b.tokens <= b.max_tokens
      /\ b.max_tokens = 0 => max_rps_ = 0 /\ g = 0 /\ w.granted = 0
      /\ s \in Nat /\ s <= b.last_refill /\ b.last_refill <= now
      /\ b.last_refill <= served[c] \/ b.tokens > 0 \/ b.max_tokens = 0
      /\ 1000 * (g + b.tokens) <= 1000 * b.max_tokens + TopRate * (b.last_refill - s)
      /\ 1000 > (now - b.last_refill) * max_rps_
      /\ Charged(b, w)
  BY <1>1, RefilledFacts
<1>3. /\ b.tokens \in Nat /\ b.max_tokens \in Nat /\ b.last_refill \in Nat
      /\ b = [tokens |-> b.tokens, max_tokens |-> b.max_tokens, last_refill |-> b.last_refill]
  <2> HIDE DEF b
  <2> QED  BY <1>2 DEF BucketType
<1>4. /\ now' = now /\ max_rps_' = max_rps_ /\ burst_' = burst_
      /\ since' = [since EXCEPT ![c] = s]
      /\ calling' \in [Clients -> 0..Callers]
      /\ Grant(c, b) \/ Refuse(c, b)
  BY <1>1, ConstantsAssumption DEF Allow, Start, TypeOK
<1>5. TopRate * (b.last_refill - s) \in Nat
  <2>1. s \in Nat /\ s <= b.last_refill
    BY <1>2
  <2>2. b.last_refill - s \in Nat
    BY <1>3, <2>1
  <2>3. QED  BY <1>1, <2>2, Product
<1>6. \A e \in Clients : Good(buckets_[e], since[e], granted[e], stretch[e], served[e],
                              now, max_rps_)
  BY PerClient DEF IInv
<1> HIDE DEF b, s, w
<1>7. CASE Grant(c, b)
  <2> DEFINE b1 == [b EXCEPT !.tokens = b.tokens - 1]
             w1 == [w EXCEPT !.granted = @ + 1]
  <2>1. /\ buckets_' = [buckets_ EXCEPT ![c] = b1]
        /\ granted' = [granted EXCEPT ![c] = g + 1]
        /\ stretch' = [stretch EXCEPT ![c] = w1]
        /\ served' = [served EXCEPT ![c] = now]
        /\ refused' = NoRefusal /\ b.tokens > 0
    BY <1>7 DEF Grant, w
  <2>2. b1 = [tokens |-> b.tokens - 1, max_tokens |-> b.max_tokens,
              last_refill |-> b.last_refill]
    BY <1>3
  <2>3. b1 \in BucketType
    BY <1>3, <2>1, <2>2 DEF BucketType
  <2>4. /\ w1 \in [from : Nat, granted : Nat] /\ w1.granted = w.granted + 1 /\ w1.from = w.from
    BY <1>1
  <2> HIDE DEF b1, w1
  <2>5. TypeOK'
    BY <1>1, <1>2, <1>4, <2>1, <2>3, <2>4 DEF TypeOK, BucketType, NoRefusal
  <2>6. Good(b1, s, g + 1, w1, now, now, max_rps_)
    <3>1. /\ b1.tokens = b.tokens - 1 /\ b1.max_tokens = b.max_tokens /\ b1.last_refill = b.last_refill
      BY <2>2
    <3>2. 1000 * (w1.granted + b1.tokens) <= 1000 * b1.max_tokens + max_rps_ * (b1.last_refill - w1.from)
      <4>1. w1.granted + b1.tokens = w.granted + b.tokens
        BY <1>1, <1>3, <2>4, <3>1
      <4>2. QED  BY <1>2, <2>4, <3>1, <4>1 DEF Charged
    <3>3. 1000 * ((g + 1) + b1.tokens) <= 1000 * b1.max_tokens + TopRate * (b1.last_refill - s)
      BY <1>1, <1>2, <1>3, <1>5, <3>1
    <3>4. QED  BY <1>1, <1>2, <1>3, <2>1, <2>4, <3>1, <3>2, <3>3 DEF Good
  <2>7. ASSUME NEW e \in Clients
        PROVE  Good(buckets_'[e], since'[e], granted'[e], stretch'[e], served'[e], now', max_rps_')
    <3>1. CASE e = c
      BY <1>1, <1>4, <2>1, <2>6, <3>1 DEF TypeOK, w
    <3>2. CASE e # c
      BY <1>1, <1>4, <1>6, <2>1, <3>2 DEF TypeOK
    <3>3. QED  BY <3>1, <3>2
  <2>8. NeverStarved'
    BY <2>1 DEF NeverStarved, NoRefusal
  <2>9. QED  BY <2>5, <2>7, <2>8, PerClientNext DEF IInv
<1>8. CASE Refuse(c, b)
  <2>1. /\ buckets_' = [buckets_ EXCEPT ![c] = b] /\ b.tokens = 0
        /\ granted' = granted /\ stretch' = stretch /\ served' = served
        /\ refused' = [pause |-> now - served[c], was |-> max_rps_ > 0]
    BY <1>8 DEF Refuse
  <2>2. b.max_tokens > 0 => b.last_refill <= served[c]
    BY <1>2, <1>3, <2>1
  <2>3. now - served[c] \in Nat /\ (max_rps_ > 0 => now - served[c] < 1000)
    <3> SUFFICES ASSUME max_rps_ > 0 PROVE now - served[c] < 1000
      BY <1>1
    <3>1. now - b.last_refill \in Nat
      BY <1>1, <1>2, <1>3
    <3>2. \A d \in Nat, r \in Nat : r > 0 /\ d * r < 1000 => d < 1000
      OBVIOUS
    <3>3. (now - b.last_refill) * max_rps_ < 1000
      <4>1. (now - b.last_refill) * max_rps_ \in Nat
        BY <1>1, <3>1, Product
      <4>2. QED  BY <1>2, <4>1
    <3>4. now - b.last_refill < 1000
      BY <1>1, <3>1, <3>2, <3>3
    <3>5. QED  BY <1>1, <1>2, <1>3, <2>2, <3>4
  <2>4. TypeOK'
    <3>1. (max_rps_ > 0) \in BOOLEAN
      BY <1>1
    <3>0. refused' \in [pause : Nat, was : BOOLEAN]
      <4> DEFINE p == now - served[c]
                 q == max_rps_ > 0
      <4>1. refused' = [pause |-> p, was |-> q] /\ p \in Nat /\ q \in BOOLEAN
        BY <2>1, <2>3, <3>1, ZenonT(30)
      <4> HIDE DEF p, q
      <4>2. QED  BY <4>1
    <3>2. buckets_' \in [Clients -> BucketType] /\ since' \in [Clients -> Nat]
      <4>1. buckets_ \in [Clients -> BucketType] /\ since \in [Clients -> Nat]
        BY <1>1 DEF TypeOK, BucketType
      <4>2. b \in BucketType /\ s \in Nat
        BY <1>2
      <4>3. buckets_' = [buckets_ EXCEPT ![c] = b] /\ since' = [since EXCEPT ![c] = s]
        BY <1>4, <2>1
      <4>4. QED  BY <4>1, <4>2, <4>3
    <3>3. QED  BY <1>1, <1>4, <2>1, <3>0, <3>2 DEF TypeOK, BucketType
  <2>5. Good(b, s, g, w, served[c], now, max_rps_)
    BY <1>1, <1>2, <1>3, <1>5, <2>1, <2>2 DEF Good, Charged
  <2>6. ASSUME NEW e \in Clients
        PROVE  Good(buckets_'[e], since'[e], granted'[e], stretch'[e], served'[e], now', max_rps_')
    <3>1. CASE e = c
      BY <1>1, <1>4, <2>1, <2>5, <3>1 DEF TypeOK, w
    <3>2. CASE e # c
      BY <1>1, <1>4, <1>6, <2>1, <3>2 DEF TypeOK
    <3>3. QED  BY <3>1, <3>2
  <2>7. NeverStarved'
    BY <2>1, <2>3, ZenonT(30) DEF NeverStarved
  <2>8. QED  BY <2>4, <2>6, <2>7, PerClientNext DEF IInv
<1>9. QED  BY <1>4, <1>7, <1>8

\* Every step preserves IInv.
LEMMA StepIInv == IInv /\ [Next]_vars => IInv'
<1> SUFFICES ASSUME IInv, [Next]_vars PROVE IInv'
  OBVIOUS
<1>1. TypeOK
  BY DEF IInv
<1>2. ASSUME NEW r \in Rates, NEW b \in Bursts, SetLimits(r, b) PROVE IInv'
  <2>1. TypeOK'
    BY <1>1, <1>2 DEF SetLimits, TypeOK, NoRefusal, Observed
  <2>2. Clocks' /\ Account' /\ Stretches' /\ Unused' /\ NeverStarved'
    BY <1>1, <1>2 DEF IInv, SetLimits, TypeOK, Clocks, Account, Stretches, Unused, NeverStarved,
                      NoRefusal, Observed
  <2>3. QED  BY <2>1, <2>2 DEF IInv
<1>3. ASSUME NEW ms \in Pauses, Tick(ms) PROVE IInv'
  <2>1. ms \in Nat /\ now \in Nat
    BY <1>1, ConstantsAssumption DEF TypeOK
  <2>2. TypeOK'
    BY <1>1, <1>3, <2>1 DEF Tick, TypeOK, NoRefusal, Observed
  <2>3. Clocks'
    BY <1>1, <1>3, <2>1 DEF IInv, Tick, TypeOK, Clocks
  <2>4. Account' /\ Unused' /\ NeverStarved'
    BY <1>3 DEF IInv, Tick, Account, Unused, NeverStarved, NoRefusal, Observed
  <2>5. Stretches'
    BY <1>1, <1>3, <2>1 DEF IInv, Tick, Stretches, TypeOK, Observed
  <2>6. QED  BY <2>2, <2>3, <2>4, <2>5 DEF IInv
<1>4. ASSUME NEW c \in Clients, Enter(c) PROVE IInv'
  <2>1. TypeOK'
    BY <1>1, <1>4, ConstantsAssumption DEF Enter, TypeOK, NoRefusal
  <2>2. Clocks' /\ Account' /\ Stretches' /\ Unused' /\ NeverStarved'
    BY <1>4 DEF IInv, Enter, Clocks, Account, Stretches, Unused, NeverStarved, NoRefusal
  <2>3. QED  BY <2>1, <2>2 DEF IInv
<1>5. ASSUME NEW c \in Clients, Allow(c) PROVE IInv'
  BY <1>5, AllowKeeps
<1>6. CASE UNCHANGED vars
  BY <1>6 DEF vars, IInv, TypeOK, Clocks, Account, Stretches, Unused, NeverStarved
<1>7. QED  BY <1>2, <1>3, <1>4, <1>5, <1>6 DEF Next

-----------------------------------------------------------------------------

\* IInv holds in every reachable state.
LEMMA IInvAlways == Spec => []IInv
<1>1. QED  BY InitIInv, StepIInv, PTL DEF Spec

\* IInv implies the bounds a client of allow() relies on.
LEMMA IInvBounds == IInv => RateBound /\ StretchBound
<1> SUFFICES ASSUME IInv, NEW c \in Clients
             PROVE  /\ 1000 * granted[c]
                         <= 1000 * buckets_[c].max_tokens + TopRate * (now - since[c])
                    /\ 1000 * stretch[c].granted
                         <= 1000 * buckets_[c].max_tokens + max_rps_ * (now - stretch[c].from)
  BY DEF RateBound, StretchBound
<1>1. /\ TypeOK /\ now \in Nat /\ TopRate \in Nat /\ since[c] \in Nat /\ granted[c] \in Nat
      /\ served[c] \in Nat /\ buckets_[c] \in BucketType /\ max_rps_ \in Nat
      /\ stretch[c].granted \in Nat /\ stretch[c].from \in Nat
  BY ConstantTypes DEF IInv, TypeOK, BucketType
<1>2. /\ buckets_[c].tokens \in Nat /\ buckets_[c].max_tokens \in Nat
      /\ buckets_[c].last_refill \in Nat
  BY <1>1 DEF BucketType
<1>3. /\ since[c] <= buckets_[c].last_refill /\ buckets_[c].last_refill <= now
  BY <1>1, <1>2 DEF IInv, Clocks
<1>4. /\ TopRate * (buckets_[c].last_refill - since[c]) <= TopRate * (now - since[c])
      /\ TopRate * (buckets_[c].last_refill - since[c]) \in Nat
      /\ TopRate * (now - since[c]) \in Nat
  BY <1>1, <1>2, <1>3, Distribute
<1>5. 1000 * (granted[c] + buckets_[c].tokens)
         <= 1000 * buckets_[c].max_tokens + TopRate * (buckets_[c].last_refill - since[c])
  BY DEF IInv, Account
<1>6. 1000 * stretch[c].granted
        <= 1000 * buckets_[c].max_tokens + max_rps_ * (now - stretch[c].from)
  <2> DEFINE w == stretch[c]  b == buckets_[c]
  <2>1. w.from <= now /\ now - w.from \in Nat
    BY <1>1 DEF IInv, Stretches
  <2>2. max_rps_ * (now - w.from) \in Nat
    BY <1>1, <2>1, Product
  <2>3. CASE w.granted = 0
    BY <1>2, <2>2, <2>3
  <2>4. CASE w.granted > 0
    <3>1. 1000 * (w.granted + b.tokens) <= 1000 * b.max_tokens + max_rps_ * (b.last_refill - w.from)
      BY <2>4 DEF IInv, Stretches
    <3>2. /\ max_rps_ * (b.last_refill - w.from) + (now - b.last_refill) * max_rps_ = max_rps_ * (now - w.from)
          /\ max_rps_ * (b.last_refill - w.from) \in Int /\ (now - b.last_refill) * max_rps_ \in Nat
      BY <1>1, <1>2, <1>3, Split
    <3> HIDE DEF w, b
    <3>3. QED  BY <1>1, <1>2, <2>2, <3>1, <3>2 DEF w, b
  <2>5. QED  BY <1>1, <2>3, <2>4
<1>7. QED  BY <1>1, <1>2, <1>4, <1>5, <1>6

\* allow(): from the first fill of its bucket to now a client gets at most the
\* burst of that moment plus what the highest rate refills in that time, however
\* the limits change.
THEOREM RateBounded == Spec => []RateBound
<1>1. QED  BY IInvAlways, IInvBounds, PTL

\* allow(): in any stretch of time in which the limits stay as they are a client
\* gets at most its burst plus what the rate refills in that time.
THEOREM StretchBounded == Spec => []StretchBound
<1>1. QED  BY IInvAlways, IInvBounds, PTL

\* allow(): while there is a limit no client is refused for a second on end.
THEOREM NobodyStarves == Spec => []NeverStarved
<1>1. IInv => NeverStarved
  BY DEF IInv
<1>2. QED  BY <1>1, IInvAlways, PTL

=============================================================================
