---------------------------- MODULE RateLimitProofs ----------------------------
(***************************************************************************)
(* The rate limiter for every setting, any number of clients and requests, *)
(* and any window.                                                         *)
(*                                                                         *)
(* WindowBound is not inductive: it forgets what is left in the bucket.    *)
(* FlowInv balances, client by client, what was admitted and what is left  *)
(* against what flowed in until the bucket was last looked at; a client    *)
(* without a bucket has a full one waiting.  RetryAfterHonest rests on     *)
(* PromiseInv: a pending promise was made when the bucket was last         *)
(* touched.                                                                *)
(***************************************************************************)
EXTENDS RateLimit, FiniteSetTheorems, SequenceTheorems, TLAPS

(* The dict has every client once, and no bucket is from the future.       *)
DictInv ==
  /\ \A i, j \in 1..Len(order) : order[i] = order[j] => i = j
  /\ \A c \in Known : buckets[c].last <= now

(* The part of the window before t.                                        *)
Since(t) == IF t >= from THEN t - from ELSE 0

(* What a client has in its bucket, or would find there, and as of when.   *)
Holds(c) == IF c \in Known THEN buckets[c].tokens ELSE Full
AsOf(c) == IF c \in Known THEN buckets[c].last ELSE now

(* What was admitted and is left has been there or has flowed in.          *)
WithinFlow(used, left, evictions, r, time) ==
  used * Cost + left <= (1 + evictions) * Full + r * time

FlowInv ==
  \A c \in Clients :
    /\ WithinFlow(admitted[c], Holds(c), lost[c], rate, Since(AsOf(c)))
    /\ AsOf(c) < from => admitted[c] = 0

(* A promise counts from the last look into the bucket, which a client     *)
(* that comes back without one does not need.                              *)
PromiseInv ==
  \A c \in Known :
    promised[c] # None => promised[c] = buckets[c].last + RetryAfter

TypeInv == TypeOK /\ DictInv

(* The inductive invariant.                                                *)
IInv == TypeInv /\ FlowInv /\ PromiseInv
-----------------------------------------------------------------------------
(* The arithmetic of buckets, free of the state.                           *)
LEMMA FullBucket == Full \in Nat /\ Full >= Cost /\ Cost \in Nat \ {0}
<1>1. Capacity \in Nat /\ Cost \in Nat /\ Capacity >= 1 /\ Cost >= 1
  BY LimiterConstants
<1> QED BY <1>1 DEF Full

(* Time passes, or tokens overflow.                                        *)
LEMMA FlowWaits ==
  ASSUME NEW u \in Nat, NEW x \in Nat, NEW y \in Nat, NEW e \in Nat,
         NEW r \in Nat, NEW s \in Nat, NEW t \in Nat,
         WithinFlow(u, x, e, r, s), y <= x, s <= t
  PROVE  WithinFlow(u, y, e, r, t)
<1>1. u * Cost \in Int /\ (1 + e) * Full \in Int /\ r * s \in Int /\ r * t \in Int
  BY FullBucket
<1>2. r * s <= r * t
  OBVIOUS
<1> HIDE DEF Full
<1> QED BY <1>1, <1>2 DEF WithinFlow

(* The bucket is brought up to date.                                       *)
LEMMA FlowRefills ==
  ASSUME NEW u \in Nat, NEW x \in Nat, NEW y \in Nat, NEW e \in Nat,
         NEW r \in Nat, NEW s \in Nat, NEW d \in Nat,
         WithinFlow(u, x, e, r, s), y <= x + d * r
  PROVE  WithinFlow(u, y, e, r, s + d)
<1>1. /\ u * Cost \in Int /\ (1 + e) * Full \in Int
      /\ r * s \in Int /\ d * r \in Int /\ r * (s + d) = r * s + d * r
  BY FullBucket
<1> QED BY <1>1 DEF WithinFlow

(* A token is spent on a request.                                          *)
LEMMA FlowSpends ==
  ASSUME NEW u \in Nat, NEW x \in Nat, NEW e \in Nat,
         NEW r \in Nat, NEW s \in Nat, WithinFlow(u, x, e, r, s)
  PROVE  WithinFlow(u + 1, x - Cost, e, r, s)
<1>1. /\ u * Cost \in Int /\ (1 + e) * Full \in Int /\ r * s \in Int
      /\ Cost \in Int /\ (u + 1) * Cost = u * Cost + Cost
  BY FullBucket
<1> QED BY <1>1 DEF WithinFlow

(* The bucket makes room for another.                                      *)
LEMMA FlowEvicts ==
  ASSUME NEW u \in Nat, NEW x \in Nat, NEW e \in Nat,
         NEW r \in Nat, NEW s \in Nat, WithinFlow(u, x, e, r, s)
  PROVE  WithinFlow(u, Full, e + 1, r, s)
<1>1. /\ u * Cost \in Int /\ (1 + e) * Full \in Int /\ r * s \in Int
      /\ Full \in Int /\ (1 + (e + 1)) * Full = (1 + e) * Full + Full
  BY FullBucket
<1> QED BY <1>1 DEF WithinFlow

(* Nothing admitted yet: any bucket will do.                               *)
LEMMA FlowStarts ==
  ASSUME NEW x \in Nat, NEW e \in Nat, NEW r \in Nat, NEW s \in Nat, x <= Full
  PROVE  WithinFlow(0, x, e, r, s)
<1>1. /\ 0 * Cost = 0 /\ e * Full \in Nat /\ r * s \in Nat /\ Full \in Nat
      /\ (1 + e) * Full = Full + e * Full
  BY FullBucket
<1> QED BY <1>1 DEF WithinFlow

(* Who waits as long as it was told, and the slack, can pay for a token:   *)
(* p is what flows in during a second, q the whole seconds of a token.     *)
LEMMA Products ==
  ASSUME NEW s \in Nat, NEW r \in Nat, NEW q \in Nat, NEW p \in Nat, p = r * s
  PROVE  /\ (s * 1 + 0) * r = p
         /\ (s * q + 0) * r = p * q
         /\ (s * q + s) * r = p * q + p
<1>1. p = s * r /\ s * q \in Nat
  OBVIOUS
<1>2. (s * q) * r = (s * r) * q
  OBVIOUS
<1>3. (s * q + s) * r = (s * q) * r + s * r
  BY <1>1
<1> QED BY <1>1, <1>2, <1>3

LEMMA WaitingPays ==
  ASSUME NEW r \in Nat \ {0}, rate = r, r * Second * 100 >= Cost
  PROVE  (RetryAfter + Slack) * r >= Cost
<1>1. Second \in Nat /\ Second >= 1 /\ Cost \in Nat /\ Cost >= 1
  BY LimiterConstants
<1>2. PICK p \in Nat : p = r * Second
  BY <1>1
<1>3. p >= 1
  BY <1>1, <1>2
<1>4. PICK q \in Nat : q = Cost \div p
  BY <1>1, <1>3
<1>5. PICK m \in Nat : m = Cost % p
  BY <1>1, <1>3
<1>6. Cost = p * q + m /\ m < p
  BY <1>1, <1>3, <1>4, <1>5
<1>7. RetryAfter = Second * (IF q < 1 THEN 1 ELSE q)
  <2>1. ~(p * 100 < Cost)
    BY <1>1, <1>2
  <2> QED BY <1>1, <1>2, <1>4, <2>1 DEF RetryAfter
<1>8. Slack = IF p >= Cost \/ m = 0 THEN 0 ELSE Second
  BY <1>2, <1>5 DEF Slack
<1>9. CASE q < 1
  <2>1. q = 0 /\ p * q = 0 /\ m = Cost
    BY <1>6, <1>9
  <2>2. p >= Cost \/ p < Cost
    BY <1>1
  <2> QED BY <1>1, <1>2, <1>6, <1>7, <1>8, <1>9, <2>1, <2>2, Products
<1>10. CASE q >= 1
  <2>1. RetryAfter = Second * q
    BY <1>7, <1>10
  <2>2. p * q >= p
    BY <1>10
  <2>3. CASE p >= Cost \/ m = 0
    <3>1. Slack = 0
      BY <1>8, <2>3
    <3>2. (RetryAfter + Slack) * r = p * q
      BY <1>1, <1>2, <2>1, <3>1, Products
    <3>3. p * q >= Cost
      BY <1>1, <1>6, <2>2, <2>3
    <3> QED BY <3>2, <3>3
  <2>4. CASE ~(p >= Cost \/ m = 0)
    <3>1. Slack = Second
      BY <1>8, <2>4
    <3>2. (RetryAfter + Slack) * r = p * q + p
      BY <1>1, <1>2, <2>1, <3>1, Products
    <3>3. p * q + p >= Cost
      BY <1>1, <1>6
    <3> QED BY <3>2, <3>3
  <2> QED BY <2>3, <2>4
<1> QED BY <1>9, <1>10
-----------------------------------------------------------------------------
(* A sequence without repetition is as long as its range is large.         *)
LEMMA LengthIsCardinality ==
  ASSUME NEW S, NEW s \in Seq(S),
         \A i, j \in 1..Len(s) : s[i] = s[j] => i = j
  PROVE  Cardinality(Range(s)) = Len(s)
<1>1. Len(s) \in Nat /\ DOMAIN s = 1..Len(s) /\ s \in [1..Len(s) -> S]
  BY LenProperties
<1>2. s \in [1..Len(s) -> Range(s)]
  BY <1>1 DEF Range
<1>3. s \in Injection(1..Len(s), Range(s))
  BY <1>1, <1>2 DEF Injection, IsInjective
<1>4. s \in Surjection(1..Len(s), Range(s))
  BY <1>1, <1>2 DEF Surjection, Range
<1>5. ExistsBijection(1..Len(s), Range(s))
  BY <1>3, <1>4 DEF ExistsBijection, Bijection
<1> QED BY <1>1, <1>5, FS_CountingElements

(* What is kept of the dict when one more client comes.                    *)
LEMMA KeptClients ==
  ASSUME TypeInv
  PROVE  /\ Kept \in Seq(Clients) /\ Range(Kept) \subseteq Known
         /\ Len(Kept) < MaxBuckets
         /\ \A i, j \in 1..Len(Kept) : Kept[i] = Kept[j] => i = j
<1>1. /\ order \in Seq(Clients) /\ Range(order) = Known
      /\ Len(order) <= MaxBuckets /\ MaxBuckets \in Nat \ {0}
      /\ Len(order) \in Nat
      /\ \A i, j \in 1..Len(order) : order[i] = order[j] => i = j
  BY LimiterConstants DEF TypeInv, TypeOK, DictInv
<1>2. CASE Len(order) < MaxBuckets
  BY <1>1, <1>2 DEF Kept
<1>3. CASE Len(order) >= MaxBuckets
  <2>1. order # <<>> /\ Kept = Tail(order)
    BY <1>1, <1>3, EmptySeq DEF Kept
  <2>2. /\ Kept \in Seq(Clients) /\ Len(Kept) = Len(order) - 1
        /\ \A i \in 1..Len(Kept) : Kept[i] = order[i + 1]
    BY <1>1, <2>1, HeadTailProperties
  <2>3. Range(Kept) \subseteq Known
    <3>1. Range(Kept) = {Kept[i] : i \in 1..Len(Kept)}
          /\ Range(order) = {order[i] : i \in 1..Len(order)}
      BY <1>1, <2>2, RangeEquality
    <3>2. \A i \in 1..Len(Kept) : i + 1 \in 1..Len(order)
      BY <1>1, <2>2
    <3> QED BY <1>1, <2>2, <3>1, <3>2
  <2>4. \A i, j \in 1..Len(Kept) : Kept[i] = Kept[j] => i = j
    BY <1>1, <2>2
  <2> QED BY <1>1, <1>3, <2>2, <2>3, <2>4
<1> QED BY <1>1, <1>2, <1>3

(* The dict in which c finds its bucket: everybody else in it was there.   *)
LEMMA BucketFound ==
  ASSUME TypeInv, NEW c \in Clients
  PROVE  LET found == BucketFor(c) IN
         /\ DOMAIN found.of \subseteq Known \union {c} /\ c \in DOMAIN found.of
         /\ c \in Known => DOMAIN found.of = Known
         /\ \A d \in Known \ {c} : d \in DOMAIN found.of <=> d \notin found.evicted
         /\ \A d \in DOMAIN found.of \ {c} : found.of[d] = buckets[d]
         /\ found.of \in [DOMAIN found.of -> Bucket]
         /\ found.of[c] = IF c \in Known THEN buckets[c]
                          ELSE [tokens |-> Full, last |-> now]
         /\ c \notin found.evicted
         /\ found.evicted \subseteq Known
<1>1. /\ buckets \in [Known -> Bucket] /\ Range(order) = Known
      /\ now \in 0..MaxTime /\ Known \subseteq Clients
  BY DEF TypeInv, TypeOK
<1>2. CASE c \in Known
  BY <1>1, <1>2 DEF BucketFor
<1>3. CASE c \notin Known
  <2> DEFINE of == [d \in Range(Kept) \union {c} |->
                      IF d = c THEN [tokens |-> Full, last |-> now]
                      ELSE buckets[d]]
  <2>1. /\ BucketFor(c).of = of
        /\ BucketFor(c).evicted = Range(order) \ Range(Kept)
    BY <1>3 DEF BucketFor
  <2>2. Range(Kept) \subseteq Known
    BY KeptClients
  <2>3. [tokens |-> Full, last |-> now] \in Bucket
    BY <1>1, FullBucket DEF Bucket
  <2>4. of \in [DOMAIN of -> Bucket]
    BY <1>1, <2>2, <2>3
  <2>5. /\ DOMAIN of = Range(Kept) \union {c}
        /\ \A d \in DOMAIN of \ {c} : of[d] = buckets[d]
        /\ of[c] = [tokens |-> Full, last |-> now]
    OBVIOUS
  <2> HIDE DEF of
  <2> QED BY <1>1, <1>3, <2>1, <2>2, <2>4, <2>5
<1> QED BY <1>2, <1>3

(* What a bucket is brought up to.                                         *)
LEMMA RefilledBounds ==
  ASSUME TypeInv, NEW b \in Bucket, b.last <= now
  PROVE  /\ Refilled(b) \in 0..Full /\ now - b.last \in Nat
         /\ Refilled(b) <= b.tokens + (now - b.last) * rate
         /\ Refilled(b) = Full \/ Refilled(b) = b.tokens + (now - b.last) * rate
<1>1. /\ b.tokens \in Nat /\ b.tokens <= Full /\ now - b.last \in Nat
      /\ rate \in Nat /\ Full \in Nat
  BY FullBucket, LimiterConstants DEF TypeInv, TypeOK, Bucket
<1>2. (now - b.last) * rate \in Nat
  BY <1>1
<1> QED BY <1>1, <1>2 DEF Refilled
-----------------------------------------------------------------------------
(* What c finds when it takes a token, and what take leaves of the rest.   *)
Found(c) == Refilled(BucketFor(c).of[c])

LEMMA Taken ==
  ASSUME TypeInv, NEW c \in Clients, Take(c), UNCHANGED <<now, rate, from>>
  PROVE  /\ c \in Known' /\ Known' \subseteq Known \union {c}
         /\ Found(c) \in 0..Full
         /\ buckets'[c] = [tokens |-> Left(Found(c)), last |-> now]
         /\ Left(Found(c)) \in 0..Full
         /\ \A d \in Known' \ {c} : buckets'[d] = buckets[d]
         /\ \A d \in Clients : promised'[d] =
              IF d # c THEN promised[d]
              ELSE IF Found(c) >= Cost THEN None ELSE now + RetryAfter
         /\ \A d \in Clients : admitted'[d] =
              IF d = c /\ Found(c) >= Cost THEN admitted[d] + InWindow ELSE admitted[d]
         /\ \A d \in Clients : lost'[d] =
              IF d \in Known \ Known' THEN lost[d] + InWindow ELSE lost[d]
         /\ buckets' \in [Known' -> Bucket]
<1> DEFINE found == BucketFor(c)
<1>0. /\ admitted \in [Clients -> Nat] /\ promised \in [Clients -> Nat \union {None}]
      /\ now \in 0..MaxTime /\ MaxTime \in Nat
  BY LimiterConstants DEF TypeInv, TypeOK
<1>1. /\ DOMAIN found.of \subseteq Known \union {c} /\ c \in DOMAIN found.of
      /\ c \in Known => DOMAIN found.of = Known
      /\ \A d \in Known \ {c} : d \in DOMAIN found.of <=> d \notin found.evicted
      /\ \A d \in DOMAIN found.of \ {c} : found.of[d] = buckets[d]
      /\ found.of \in [DOMAIN found.of -> Bucket]
      /\ c \notin found.evicted /\ found.evicted \subseteq Known
  BY BucketFound
<1>2. found.of[c] \in Bucket /\ found.of[c].last <= now
  BY <1>0, <1>1, BucketFound DEF TypeInv, DictInv
<1>3. Found(c) \in 0..Full
  BY <1>2, RefilledBounds DEF Found
<1>4. Left(Found(c)) \in 0..Full
  BY <1>3, FullBucket DEF Left
<1> DEFINE new == [tokens |-> Left(Found(c)), last |-> now]
<1>5. new \in Bucket
  BY <1>0, <1>4 DEF Bucket
<1>6. /\ buckets' = [found.of EXCEPT ![c] = new]
      /\ admitted' = IF Found(c) >= Cost THEN [admitted EXCEPT ![c] = @ + InWindow]
                     ELSE admitted
      /\ promised' = [promised EXCEPT ![c] =
                        IF Found(c) >= Cost THEN None ELSE now + RetryAfter]
      /\ lost' = [d \in Clients |->
                    IF d \in found.evicted THEN lost[d] + InWindow ELSE lost[d]]
  BY DEF Take, Found
<1> HIDE DEF found, new
<1>7. /\ Known' = DOMAIN found.of /\ buckets'[c] = new
      /\ \A d \in Known' \ {c} : buckets'[d] = buckets[d]
      /\ buckets' \in [Known' -> Bucket]
  BY <1>1, <1>5, <1>6 DEF Known
<1>8. \A d \in Clients : d \in found.evicted <=> d \in Known \ Known'
  BY <1>1, <1>7
<1>9. \A d \in Clients : lost'[d] =
        IF d \in Known \ Known' THEN lost[d] + InWindow ELSE lost[d]
  BY <1>6, <1>8
<1>10. \A d \in Clients : admitted'[d] =
         IF d = c /\ Found(c) >= Cost THEN admitted[d] + InWindow ELSE admitted[d]
  BY <1>0, <1>6
<1>11. \A d \in Clients : promised'[d] =
         IF d # c THEN promised[d]
         ELSE IF Found(c) >= Cost THEN None ELSE now + RetryAfter
  BY <1>0, <1>6
<1> QED BY <1>1, <1>3, <1>4, <1>7, <1>9, <1>10, <1>11 DEF new

LEMMA RetryAfterType == rate \in Rates => RetryAfter \in Nat
<1> SUFFICES ASSUME rate \in Rates PROVE RetryAfter \in Nat
  OBVIOUS
<1>1. rate \in Nat /\ rate >= 1 /\ Second \in Nat /\ Second >= 1 /\ Cost \in Nat
  BY LimiterConstants
<1>2. rate * Second \in Nat /\ rate * Second >= 1
  BY <1>1
<1>3. Cost \div (rate * Second) \in Nat
  BY <1>1, <1>2
<1>4. PICK q \in Nat : q = Cost \div (rate * Second)
  BY <1>3
<1>5. RetryAfter = Second * 100 \/ RetryAfter = Second * q \/ RetryAfter = Second * 1
  BY <1>4 DEF RetryAfter
<1> QED BY <1>1, <1>4, <1>5
-----------------------------------------------------------------------------
LEMMA InitInv == Init => IInv
<1> SUFFICES ASSUME Init PROVE IInv
  OBVIOUS
<1> USE LimiterConstants, FullBucket DEF Init
<1>1. Known = {} /\ Range(order) = {} /\ Len(order) = 0
  BY DEF Range, Known
<1>2. TypeOK
  <2>1. Cardinality(Known) = 0
    BY <1>1, FS_EmptySet
  <2>2. order \in Seq(Clients)
    OBVIOUS
  <2> QED BY <1>1, <2>1, <2>2 DEF TypeOK, None
<1>3. DictInv /\ PromiseInv
  BY <1>1 DEF DictInv, PromiseInv
<1>4. FlowInv
  <2>1. now \in Nat /\ from \in Nat /\ rate \in Nat
    BY <1>2 DEF TypeOK
  <2>2. Since(now) \in Nat
    BY <2>1 DEF Since
  <2>3. WithinFlow(0, Full, 0, rate, Since(now))
    BY <2>1, <2>2, FlowStarts
  <2> QED BY <1>1, <2>3 DEF FlowInv, Holds, AsOf
<1> QED BY <1>2, <1>3, <1>4 DEF IInv, TypeInv

(* Type correctness, and the dict.                                         *)
LEMMA TypeStep == TypeInv /\ [Next]_vars => TypeInv'
<1> SUFFICES ASSUME TypeInv, [Next]_vars PROVE TypeInv'
  OBVIOUS
<1> USE LimiterConstants
<1>1. CASE Tick
  <2>1. now' \in 0..MaxTime /\ now <= now'
    BY <1>1 DEF Tick, TypeInv, TypeOK
  <2>2. \A c \in Known : buckets[c].last \in 0..MaxTime
    BY DEF TypeInv, TypeOK, Bucket
  <2>3. TypeOK'
    BY <1>1, <2>1 DEF Tick, TypeInv, TypeOK, Known
  <2>4. \A c \in Known : buckets[c].last <= now'
    <3>1. now \in Nat /\ now' = now + 1 /\ MaxTime \in Nat
      BY <1>1 DEF Tick, TypeInv, TypeOK
    <3> QED BY <2>2, <3>1 DEF TypeInv, DictInv
  <2> QED BY <1>1, <2>3, <2>4 DEF Tick, TypeInv, DictInv, Known
<1>2. ASSUME NEW c \in Clients, Request(c) PROVE TypeInv'
  <2>1. Take(c) /\ UNCHANGED <<now, rate, from>>
        /\ requests' = requests + 1 /\ requests < MaxRequests
    BY <1>2 DEF Request
  <2>2. /\ c \in Known' /\ Known' \subseteq Clients
        /\ buckets' \in [Known' -> Bucket]
        /\ \A d \in Known' \ {c} : d \in Known /\ buckets'[d] = buckets[d]
        /\ buckets'[c].last = now
    <3>1. /\ c \in Known' /\ Known' \subseteq Known \union {c}
          /\ \A d \in Known' \ {c} : buckets'[d] = buckets[d]
          /\ buckets' \in [Known' -> Bucket]
          /\ buckets'[c] = [tokens |-> Left(Found(c)), last |-> now]
      BY <2>1, Taken
    <3>2. Known \subseteq Clients
      BY DEF TypeInv, TypeOK
    <3> QED BY <3>1, <3>2
  <2>3. /\ admitted \in [Clients -> Nat] /\ lost \in [Clients -> Nat]
        /\ promised \in [Clients -> Nat \union {None}] /\ InWindow \in {0, 1}
        /\ now \in Nat /\ RetryAfter \in Nat
    BY RetryAfterType DEF TypeInv, TypeOK, InWindow
  <2>4. /\ admitted' \in [Clients -> Nat] /\ lost' \in [Clients -> Nat]
    BY <2>1, <2>3 DEF Take
  <2>5. promised' \in [Clients -> Nat \union {None}]
    BY <2>1, <2>3 DEF Take
  <2>6. /\ order' \in Seq(Clients) /\ Range(order') = Known'
        /\ Len(order') <= MaxBuckets
        /\ \A i, j \in 1..Len(order') : order'[i] = order'[j] => i = j
    <3>1. order' = BucketFor(c).order
          /\ DOMAIN buckets' = DOMAIN BucketFor(c).of
      BY <2>1 DEF Take
    <3>2. CASE c \in Known
      <4>1. order' = order /\ DOMAIN buckets' = Known
        BY <3>1, <3>2 DEF Known, BucketFor
      <4> QED BY <4>1 DEF Known, TypeInv, TypeOK, DictInv
    <3>3. CASE c \notin Known
      <4>1. order' = Append(Kept, c) /\ DOMAIN buckets' = Range(Kept) \union {c}
        BY <3>1, <3>3 DEF BucketFor
      <4>2. /\ Kept \in Seq(Clients) /\ Range(Kept) \subseteq Known
            /\ Len(Kept) < MaxBuckets /\ Len(Kept) \in Nat
            /\ \A i, j \in 1..Len(Kept) : Kept[i] = Kept[j] => i = j
        BY KeptClients, LenProperties
      <4>3. /\ order' \in Seq(Clients) /\ Len(order') = Len(Kept) + 1
            /\ \A i \in 1..Len(Kept) : order'[i] = Kept[i]
            /\ order'[Len(Kept) + 1] = c
        BY <4>1, <4>2, AppendProperties
      <4>4. Range(Kept) = {Kept[i] : i \in 1..Len(Kept)}
            /\ Range(order') = {order'[i] : i \in 1..Len(order')}
        BY <4>2, <4>3, RangeEquality
      <4>5. \A i \in 1..Len(Kept) : Kept[i] # c
        BY <3>3, <4>2, <4>4
      <4>6. Range(order') = Range(Kept) \union {c}
        BY <4>2, <4>3, <4>4
      <4>7. \A i, j \in 1..Len(order') : order'[i] = order'[j] => i = j
        BY <4>2, <4>3, <4>5
      <4>8. Len(order') <= MaxBuckets
        BY <4>2, <4>3
      <4> QED BY <4>1, <4>3, <4>6, <4>7, <4>8 DEF Known
    <3> QED BY <3>2, <3>3
  <2>7. Len(order') = Cardinality(Known')
    BY <2>6, LengthIsCardinality
  <2>8. requests' \in 0..MaxRequests
    BY <2>1 DEF TypeInv, TypeOK
  <2>9. DictInv'
    <3>1. \A d \in Known' : buckets'[d].last <= now
      <4>1. \A d \in Known : buckets[d].last <= now
        BY DEF DictInv, TypeInv
      <4>2. now <= now
        BY <2>3
      <4> QED BY <2>2, <4>1, <4>2
    <3> QED BY <2>1, <2>6, <3>1 DEF DictInv
  <2> QED
    BY <2>1, <2>2, <2>4, <2>5, <2>6, <2>7, <2>8, <2>9 DEF TypeInv, TypeOK, Bucket
<1>3. CASE UNCHANGED vars
  BY <1>3 DEF Known, vars, TypeInv, TypeOK, DictInv, Bucket
<1> QED BY <1>1, <1>2, <1>3 DEF Next
-----------------------------------------------------------------------------
LEMMA Balances ==
  ASSUME TypeInv, NEW d \in Clients
  PROVE  /\ admitted[d] \in Nat /\ lost[d] \in Nat
         /\ rate \in Nat /\ from \in Nat /\ now \in Nat
         /\ Holds(d) \in Nat /\ Holds(d) <= Full
         /\ AsOf(d) \in Nat /\ AsOf(d) <= now
         /\ Since(AsOf(d)) \in Nat /\ Since(now) \in Nat
         /\ Since(AsOf(d)) <= Since(now)
<1>1. /\ admitted[d] \in Nat /\ lost[d] \in Nat
      /\ rate \in Nat /\ from \in Nat /\ now \in Nat
  BY LimiterConstants DEF TypeInv, TypeOK
<1>2. d \in Known => /\ buckets[d].tokens \in 0..Full
                     /\ buckets[d].last \in Nat /\ buckets[d].last <= now
  BY DEF TypeInv, TypeOK, DictInv, Bucket
<1>3. /\ Holds(d) \in Nat /\ Holds(d) <= Full
      /\ AsOf(d) \in Nat /\ AsOf(d) <= now
  BY <1>1, <1>2, FullBucket DEF Holds, AsOf
<1> QED BY <1>1, <1>3 DEF Since

(* The bucket a request finds keeps the balance.                           *)
LEMMA FlowFound ==
  ASSUME TypeInv, FlowInv, NEW c \in Clients
  PROVE  WithinFlow(admitted[c], Found(c), lost[c], rate, Since(now))
<1>1. /\ WithinFlow(admitted[c], Holds(c), lost[c], rate, Since(AsOf(c)))
      /\ AsOf(c) < from => admitted[c] = 0
  BY DEF FlowInv
<1>2. CASE c \in Known
  <2> DEFINE b == buckets[c]
  <2>1. b \in Bucket /\ b.last <= now
    BY <1>2 DEF TypeInv, TypeOK, DictInv
  <2>2. /\ Found(c) = Refilled(b) /\ Holds(c) = b.tokens /\ AsOf(c) = b.last
    BY <1>2 DEF Found, BucketFor, Holds, AsOf
  <2> HIDE DEF b
  <2>3. /\ Found(c) \in Nat /\ Found(c) <= Full /\ now - b.last \in Nat
        /\ Found(c) <= b.tokens + (now - b.last) * rate
    BY <2>1, <2>2, RefilledBounds, FullBucket
  <2>4. CASE b.last < from
    BY <1>1, <2>2, <2>3, <2>4, Balances, FlowStarts
  <2>5. CASE b.last >= from
    <3>1. Since(now) = Since(b.last) + (now - b.last)
      BY <2>1, <2>2, <2>5, Balances DEF Since
    <3>2. PICK past \in Nat : past = now - b.last
      BY <2>3
    <3>3. b.tokens \in Nat /\ Since(b.last) \in Nat
      BY <2>2, Balances
    <3>4. WithinFlow(admitted[c], b.tokens, lost[c], rate, Since(b.last))
      BY <1>1, <2>2
    <3>5. WithinFlow(admitted[c], Found(c), lost[c], rate, Since(b.last) + past)
      BY <2>3, <3>2, <3>3, <3>4, Balances, FlowRefills
    <3> QED BY <3>1, <3>2, <3>5
  <2> QED BY <2>2, <2>4, <2>5, Balances
<1>3. CASE c \notin Known
  <2>1. Holds(c) = Full /\ AsOf(c) = now
    BY <1>3 DEF Holds, AsOf
  <2>2. BucketFor(c).of[c] = [tokens |-> Full, last |-> now]
    BY <1>3, BucketFound
  <2>3. [tokens |-> Full, last |-> now] \in Bucket /\ now <= now
    BY FullBucket, LimiterConstants DEF TypeInv, TypeOK, Bucket
  <2>4. Found(c) \in Nat /\ Found(c) <= Full
    BY <2>2, <2>3, RefilledBounds, FullBucket DEF Found
  <2> QED BY <1>1, <2>1, <2>4, Balances, FlowWaits
<1> QED BY <1>2, <1>3

LEMMA FlowStep == TypeInv /\ FlowInv /\ [Next]_vars => FlowInv'
<1> SUFFICES ASSUME TypeInv, FlowInv, [Next]_vars, NEW d \in Clients
             PROVE  /\ WithinFlow(admitted'[d], Holds(d)', lost'[d], rate',
                                  Since(AsOf(d))')
                    /\ AsOf(d)' < from' => admitted'[d] = 0
  BY DEF FlowInv
<1>1. /\ WithinFlow(admitted[d], Holds(d), lost[d], rate, Since(AsOf(d)))
      /\ AsOf(d) < from => admitted[d] = 0
  BY DEF FlowInv
<1>2. CASE Tick
  <2>1. /\ admitted' = admitted /\ lost' = lost /\ rate' = rate /\ from' = from
        /\ buckets' = buckets /\ now' = now + 1
    BY <1>2 DEF Tick
  <2>2. /\ Holds(d)' = Holds(d)
        /\ AsOf(d)' = AsOf(d) \/ AsOf(d)' = AsOf(d) + 1
    BY <2>1 DEF Holds, AsOf, Known
  <2>3. PICK t \in Nat : AsOf(d)' = t /\ AsOf(d) <= t
    BY <2>2, Balances
  <2>4. Since(AsOf(d))' = Since(t)
    BY <2>1, <2>3 DEF Since
  <2>5. /\ Since(t) \in Nat /\ Since(AsOf(d)) <= Since(t)
        /\ t < from => AsOf(d) < from
    BY <2>3, Balances DEF Since
  <2>6. WithinFlow(admitted[d], Holds(d), lost[d], rate, Since(t))
    <3>1. Holds(d) <= Holds(d)
      BY Balances
    <3> QED BY <1>1, <2>5, <3>1, Balances, FlowWaits
  <2> QED BY <1>1, <2>1, <2>2, <2>3, <2>4, <2>5, <2>6, Balances
<1>3. ASSUME NEW c \in Clients, Request(c)
      PROVE  /\ WithinFlow(admitted'[d], Holds(d)', lost'[d], rate',
                           Since(AsOf(d))')
             /\ AsOf(d)' < from' => admitted'[d] = 0
  <2>1. Take(c) /\ UNCHANGED <<now, rate, from>>
    BY <1>3 DEF Request
  <2>2. /\ c \in Known' /\ Known' \subseteq Known \union {c}
        /\ Found(c) \in 0..Full /\ Left(Found(c)) \in 0..Full
        /\ buckets'[c] = [tokens |-> Left(Found(c)), last |-> now]
        /\ d \in Known' \ {c} => buckets'[d] = buckets[d]
        /\ admitted'[d] = IF d = c /\ Found(c) >= Cost
                          THEN admitted[d] + InWindow ELSE admitted[d]
        /\ lost'[d] = IF d \in Known \ Known' THEN lost[d] + InWindow ELSE lost[d]
    BY <2>1, Taken
  <2>3. CASE d = c
    <3>1. /\ Holds(d)' = Left(Found(c)) /\ AsOf(d)' = now /\ lost'[d] = lost[d]
          /\ Since(AsOf(d))' = Since(now) /\ rate' = rate /\ from' = from
      BY <2>1, <2>2, <2>3 DEF Holds, AsOf, Since
    <3>2. WithinFlow(admitted[d], Found(c), lost[d], rate, Since(now))
      BY <2>3, FlowFound
    <3>3. now < from => admitted[d] = 0
      BY <1>1, Balances
    <3>4. CASE Found(c) < Cost
      <4>1. Left(Found(c)) = Found(c) /\ admitted'[d] = admitted[d]
        BY <2>2, <3>4, FullBucket DEF Left
      <4> QED BY <3>1, <3>2, <3>3, <4>1
    <3>5. CASE Found(c) >= Cost /\ now >= from
      <4>1. Left(Found(c)) = Found(c) - Cost /\ admitted'[d] = admitted[d] + 1
        BY <2>2, <2>3, <3>5 DEF Left, InWindow
      <4>2. WithinFlow(admitted[d] + 1, Found(c) - Cost, lost[d], rate, Since(now))
        <5>1. Found(c) \in Nat
          BY <2>2, FullBucket
        <5> QED BY <3>2, <5>1, Balances, FlowSpends
      <4> QED BY <3>1, <3>5, <4>1, <4>2, Balances
    <3>6. CASE Found(c) >= Cost /\ now < from
      <4>1. admitted'[d] = 0
        BY <2>2, <2>3, <3>3, <3>6, Balances DEF InWindow
      <4>2. WithinFlow(0, Left(Found(c)), lost[d], rate, Since(now))
        BY <2>2, Balances, FlowStarts, FullBucket
      <4> QED BY <3>1, <4>1, <4>2
    <3> QED BY <2>2, <3>4, <3>5, <3>6, Balances, FullBucket
  <2>4. CASE d # c /\ d \in Known \ Known'
    <3>1. /\ Holds(d)' = Full /\ AsOf(d)' = now /\ admitted'[d] = admitted[d]
          /\ Since(AsOf(d))' = Since(now) /\ rate' = rate /\ from' = from
          /\ lost'[d] = lost[d] + InWindow
      BY <2>1, <2>2, <2>4 DEF Holds, AsOf, Since
    <3>2. now < from => admitted[d] = 0
      BY <1>1, Balances
    <3>3. CASE now >= from
      <4>1. WithinFlow(admitted[d], Full, lost[d] + 1, rate, Since(AsOf(d)))
        BY <1>1, Balances, FlowEvicts
      <4>2. WithinFlow(admitted[d], Full, lost[d] + 1, rate, Since(now))
        <5>1. Full \in Nat /\ Full <= Full /\ lost[d] + 1 \in Nat
          BY Balances, FullBucket
        <5> QED BY <4>1, <5>1, Balances, FlowWaits
      <4> QED BY <3>1, <3>3, <4>2, Balances DEF InWindow
    <3>4. CASE now < from
      <4>1. lost'[d] = lost[d] /\ admitted[d] = 0
        BY <3>1, <3>2, <3>4, Balances DEF InWindow
      <4>2. WithinFlow(0, Full, lost[d], rate, Since(now))
        BY Balances, FlowStarts, FullBucket
      <4> QED BY <3>1, <4>1, <4>2
    <3> QED BY <3>3, <3>4, Balances
  <2>5. CASE d # c /\ d \notin Known \ Known'
    <3>1. d \in Known <=> d \in Known'
      BY <2>2, <2>5
    <3>2. /\ Holds(d)' = Holds(d) /\ AsOf(d)' = AsOf(d)
          /\ admitted'[d] = admitted[d] /\ lost'[d] = lost[d]
      BY <2>1, <2>2, <2>5, <3>1 DEF Holds, AsOf
    <3> QED BY <1>1, <2>1, <3>2 DEF Since
  <2> QED BY <2>3, <2>4, <2>5
<1>4. CASE UNCHANGED vars
  BY <1>1, <1>4 DEF vars, Holds, AsOf, Since, Known
<1> QED BY <1>2, <1>3, <1>4 DEF Next
-----------------------------------------------------------------------------
LEMMA PromiseStep == TypeInv /\ PromiseInv /\ [Next]_vars => PromiseInv'
<1> SUFFICES ASSUME TypeInv, PromiseInv, [Next]_vars,
                    NEW d \in Known', promised'[d] # None
             PROVE  promised'[d] = buckets'[d].last + RetryAfter'
  BY DEF PromiseInv, Known
<1>1. rate' = rate
  BY DEF Next, Tick, Request, vars
<1>2. RetryAfter' = RetryAfter
  BY <1>1 DEF RetryAfter
<1>3. CASE Tick \/ UNCHANGED vars
  <2>1. buckets' = buckets /\ promised' = promised
    BY <1>3 DEF Tick, vars
  <2> QED BY <1>2, <2>1 DEF PromiseInv, Known
<1>4. ASSUME NEW c \in Clients, Request(c)
      PROVE  promised'[d] = buckets'[d].last + RetryAfter'
  <2>1. Take(c) /\ UNCHANGED <<now, rate, from>>
    BY <1>4 DEF Request
  <2>2. d \in Clients /\ (d # c => d \in Known)
    <3>1. Known' \subseteq Known \union {c} /\ Known \subseteq Clients
      BY <2>1, Taken DEF TypeInv, TypeOK
    <3> QED BY <3>1
  <2>3. /\ buckets'[c] = [tokens |-> Left(Found(c)), last |-> now]
        /\ d # c => buckets'[d] = buckets[d]
        /\ promised'[d] = IF d # c THEN promised[d]
                          ELSE IF Found(c) >= Cost THEN None ELSE now + RetryAfter
    BY <2>1, <2>2, Taken
  <2> QED BY <1>2, <2>2, <2>3 DEF PromiseInv
<1> QED BY <1>3, <1>4 DEF Next

LEMMA Invariance == Spec => []IInv
<1>1. Init => IInv
  BY InitInv
<1>2. IInv /\ [Next]_vars => IInv'
  BY TypeStep, FlowStep, PromiseStep DEF IInv
<1> QED BY <1>1, <1>2, PTL DEF Spec

(* The variables keep their types, the dict of buckets and its order agree *)
(* and never outgrow _max_buckets (_bucket_for).                           *)
THEOREM TypeCorrect == Spec => []TypeOK
<1>1. IInv => TypeOK
  BY DEF IInv, TypeInv
<1> QED BY <1>1, Invariance, PTL

(* In no interval is a client admitted more than one burst, what the       *)
(* settings let flow in, and a burst for every eviction, whatever the      *)
(* settings, the clients and their requests (TokenBucket.take).            *)
THEOREM WindowIsBounded == Spec => []WindowBound
<1>1. IInv => WindowBound
  <2> SUFFICES ASSUME IInv, now >= from, NEW c \in Clients
               PROVE  admitted[c] * Cost
                        <= (1 + lost[c]) * Full + rate * (now - from)
    BY DEF WindowBound
  <2>1. TypeInv /\ WithinFlow(admitted[c], Holds(c), lost[c], rate, Since(AsOf(c)))
    BY DEF IInv, FlowInv
  <2>2. WithinFlow(admitted[c], 0, lost[c], rate, Since(now))
    <3>1. 0 \in Nat /\ 0 <= Holds(c)
      BY <2>1, Balances
    <3> QED BY <2>1, <3>1, Balances, FlowWaits
  <2>3. Since(now) = now - from
    BY DEF Since
  <2>4. admitted[c] * Cost \in Nat
    BY <2>1, Balances, FullBucket
  <2> QED BY <2>2, <2>3, <2>4 DEF WithinFlow
<1> QED BY <1>1, Invariance, PTL

(* A client that waits as long as its 429 says, with the slack of the      *)
(* header's rounding, is not refused again, whatever the other clients do, *)
(* for all settings that refill a token in a hundred seconds               *)
(* (RateLimitMiddleware.dispatch).                                         *)
THEOREM RetryAfterIsHonest == Spec => RetryAfterHonest
<1>1. IInv /\ [Next]_vars =>
        [\A c \in Clients :
           /\ promised[c] # None /\ promised'[c] # None
           /\ promised[c] # promised'[c]
           /\ rate * Second * 100 >= Cost
           => now < promised[c] + Slack]_vars
  <2> SUFFICES ASSUME IInv, [Next]_vars, NEW c \in Clients,
                      promised[c] # None, promised'[c] # None,
                      promised[c] # promised'[c], rate * Second * 100 >= Cost
               PROVE  now < promised[c] + Slack
    OBVIOUS
  <2>1. TypeInv /\ PromiseInv
    BY DEF IInv
  <2>2. PICK d \in Clients : Request(d)
    BY DEF Next, Tick, vars
  <2>3. Take(d) /\ UNCHANGED <<now, rate, from>>
    BY <2>2 DEF Request
  <2>4. c = d /\ ~(Found(c) >= Cost)
    BY <2>1, <2>3, Taken
  <2>5. c \in Known
    <3>1. SUFFICES ASSUME c \notin Known PROVE FALSE
      OBVIOUS
    <3>2. BucketFor(c).of[c] = [tokens |-> Full, last |-> now]
      BY <2>1, <3>1, BucketFound
    <3>3. [tokens |-> Full, last |-> now] \in Bucket /\ now \in Nat
      BY <2>1, FullBucket, LimiterConstants DEF TypeInv, TypeOK, Bucket
    <3>4. (now - now) * rate = 0
      BY <2>1, <3>3, Balances
    <3>5. Found(c) = Full
      BY <3>2, <3>3, <3>4, FullBucket DEF Found, Refilled
    <3> QED BY <2>4, <3>5, FullBucket
  <2> DEFINE b == buckets[c]
  <2>6. b \in Bucket /\ b.last <= now
    BY <2>1, <2>5 DEF TypeInv, TypeOK, DictInv
  <2>7. Found(c) = Refilled(b) /\ promised[c] = b.last + RetryAfter
    BY <2>1, <2>5 DEF Found, BucketFor, PromiseInv
  <2>8. b.last \in Nat /\ b.tokens \in Nat /\ now \in Nat
    BY <2>1, <2>5, Balances DEF Holds, AsOf
  <2>9. PICK r \in Nat \ {0} : rate = r
    BY <2>1, LimiterConstants DEF TypeInv, TypeOK
  <2>10. PICK wait \in Nat : RetryAfter + Slack = wait
    <3>1. RetryAfter \in Nat
      BY <2>1, RetryAfterType DEF TypeInv, TypeOK
    <3>2. Slack \in Nat
      BY LimiterConstants DEF Slack
    <3> QED BY <3>1, <3>2
  <2>11. wait * r >= Cost
    BY <2>9, <2>10, WaitingPays
  <2> HIDE DEF b
  <2>12. SUFFICES ASSUME now - b.last >= wait PROVE FALSE
    <3>1. RetryAfter \in Nat /\ Slack \in Nat
      BY <2>1, RetryAfterType, LimiterConstants DEF TypeInv, TypeOK, Slack
    <3> QED BY <2>7, <2>8, <2>10, <3>1
  <2>13. PICK past \in Nat : past = now - b.last
    BY <2>8, <2>12
  <2>14. past * r >= wait * r
    BY <2>12, <2>13
  <2>15. Refilled(b) = Full \/ Refilled(b) = b.tokens + past * r
    BY <2>1, <2>6, <2>9, <2>13, RefilledBounds
  <2>16. Refilled(b) >= Cost
    <3>1. past * r \in Nat /\ wait * r \in Nat
      OBVIOUS
    <3> QED BY <2>8, <2>11, <2>14, <2>15, <3>1, FullBucket
  <2> QED BY <2>4, <2>7, <2>16
<1> QED BY <1>1, Invariance, PTL DEF Spec, RetryAfterHonest
=============================================================================
