------------------------------ MODULE RateLimit ------------------------------
(***************************************************************************)
(* The HTTP rate limiter (security/rate_limit.py): one TokenBucket per     *)
(* client address, in a dict bounded by _max_buckets whose oldest entry    *)
(* makes room for a new client.  dispatch awaits nothing before its        *)
(* verdict, so a request is one step.                                      *)
(*                                                                         *)
(* Tokens are counted in units, Cost of them to a token, and time in       *)
(* ticks, Second of them to a second, so that a bucket can hold a part of  *)
(* a token.  The setting requests_per_minute is a rate of units per tick.  *)
(***************************************************************************)
EXTENDS Integers, Sequences, SequencesExt, FiniteSets

CONSTANTS
  Clients,      \* client addresses
  Capacity,     \* rate_limit_burst, in tokens
  Cost,         \* units of a token
  Second,       \* ticks of a second
  Rates,        \* the rates the service may be configured with
  MaxBuckets,   \* _max_buckets
  MaxTime,      \* bound on the clock
  MaxRequests   \* bound on the requests

ASSUME LimiterConstants ==
  /\ {Capacity, Cost, Second, MaxBuckets} \subseteq Nat \ {0}
  /\ Rates \subseteq Nat \ {0}
  /\ MaxTime \in Nat /\ MaxRequests \in Nat

VARIABLES
  now,       \* time.monotonic()
  rate,      \* refill: units per tick
  buckets,   \* buckets[c]: tokens left at the time last, for c with a bucket
  order      \* the clients with a bucket, in the order of the dict

(* History, read by properties only.  The window is any interval that      *)
(* begins at from.                                                         *)
VARIABLES
  requests,  \* requests so far
  from,      \* begin of the window
  admitted,  \* admitted[c]: requests of c admitted in the window
  lost,      \* lost[c]: buckets c lost to other clients in the window
  promised   \* promised[c]: when c's last 429 told it to come back, None if it
              \* has been admitted since

vars == <<now, rate, buckets, order, requests, from, admitted, lost, promised>>

Full == Capacity * Cost
Bucket == [tokens : 0..Full, last : 0..MaxTime]
Known == DOMAIN buckets

(* No promise is pending.                                                  *)
None == -1

Init ==
  /\ now = 0 /\ rate \in Rates
  /\ buckets = [c \in {} |-> 0] /\ order = <<>>
  /\ requests = 0 /\ from \in 0..MaxTime
  /\ admitted = [c \in Clients |-> 0]
  /\ lost = [c \in Clients |-> 0]
  /\ promised = [c \in Clients |-> None]
-----------------------------------------------------------------------------
InWindow == IF now >= from THEN 1 ELSE 0

(* A slip: the time that passed is credited without the cap.               *)
RefilledUncapped(b) == b.tokens + (now - b.last) * rate

(* TokenBucket.take, before it looks whether there is a token.             *)
Refilled(b) ==
  LET sum == b.tokens + (now - b.last) * rate
  IN  IF sum < Full THEN sum ELSE Full

(* A slip: the dict is never looked at.                                    *)
KeptAll == order

(* The clients whose buckets stay when one more comes.                     *)
Kept == IF Len(order) >= MaxBuckets THEN Tail(order) ELSE order

(* _bucket_for: the new dict and the client that lost its bucket, if any.  *)
BucketFor(c) ==
  IF c \in Known
    THEN [of |-> buckets, order |-> order, evicted |-> {}]
    ELSE [of |-> [d \in Range(Kept) \union {c} |->
                    IF d = c THEN [tokens |-> Full, last |-> now]
                    ELSE buckets[d]],
          order |-> Append(Kept, c),
          evicted |-> Range(order) \ Range(Kept)]

(* max(1, int(1.0 / max(refill, 0.01))), in ticks.                         *)
RetryAfter ==
  LET perSecond == rate * Second
      seconds == IF perSecond * 100 < Cost THEN 100 ELSE Cost \div perSecond
  IN  Second * (IF seconds < 1 THEN 1 ELSE seconds)

(* A slip: a refused request is charged too.                               *)
LeftAnyway(tokens) == tokens - Cost

Left(tokens) == IF tokens >= Cost THEN tokens - Cost ELSE tokens

(* take: the bucket is brought up to date whether or not it has a token.   *)
Take(c) ==
  LET found == BucketFor(c)
      tokens == Refilled(found.of[c])
      ok == tokens >= Cost
  IN  /\ buckets' = [found.of EXCEPT ![c] =
                      [tokens |-> Left(tokens), last |-> now]]
      /\ order' = found.order
      /\ admitted' = IF ok THEN [admitted EXCEPT ![c] = @ + InWindow]
                     ELSE admitted
      /\ promised' = [promised EXCEPT ![c] =
                        IF ok THEN None ELSE now + RetryAfter]
      /\ lost' = [d \in Clients |->
                    IF d \in found.evicted THEN lost[d] + InWindow ELSE lost[d]]

Request(c) ==
  /\ requests < MaxRequests
  /\ requests' = requests + 1
  /\ Take(c)
  /\ UNCHANGED <<now, rate, from>>

Tick ==
  /\ now < MaxTime
  /\ now' = now + 1
  /\ UNCHANGED <<rate, buckets, order, requests, from, admitted, lost, promised>>

Next == Tick \/ \E c \in Clients : Request(c)

Spec == Init /\ [][Next]_vars
-----------------------------------------------------------------------------
TypeOK ==
  /\ now \in 0..MaxTime /\ rate \in Rates
  /\ buckets \in [Known -> Bucket] /\ Known \subseteq Clients
  /\ order \in Seq(Clients) /\ Range(order) = Known
  /\ Len(order) = Cardinality(Known) /\ Len(order) <= MaxBuckets
  /\ requests \in 0..MaxRequests /\ from \in 0..MaxTime
  /\ admitted \in [Clients -> Nat] /\ lost \in [Clients -> Nat]
  /\ promised \in [Clients -> Nat \union {None}]

(* In no interval is a client admitted more than a burst and what the      *)
(* settings let flow in meanwhile, plus one burst for every time its       *)
(* bucket made room for another client's (TokenBucket.take, _bucket_for):  *)
(* the limit holds however requests bunch up, except by eviction.          *)
WindowBound ==
  now >= from =>
    \A c \in Clients :
      admitted[c] * Cost <= (1 + lost[c]) * Full + rate * (now - from)

(* How much later than the header says a client is served: the header      *)
(* rounds down to whole seconds.                                           *)
Slack ==
  LET perSecond == rate * Second
  IN  IF perSecond >= Cost \/ Cost % perSecond = 0 THEN 0 ELSE Second

(* A client that waits as long as its 429 says (and a second more, if the  *)
(* time of a token is no whole number of seconds) is not refused again,    *)
(* whatever the other clients do and even if it lost its bucket            *)
(* (RateLimitMiddleware.dispatch).  The clamp of the header makes this     *)
(* false for less than a token in a hundred seconds.                       *)
RetryAfterHonest ==
  [][\A c \in Clients :
       /\ promised[c] # None /\ promised'[c] # None
       /\ promised[c] # promised'[c]
       /\ rate * Second * 100 >= Cost
       => now < promised[c] + Slack]_vars
=============================================================================
