--------------------------- MODULE EventStreamProofs ---------------------------
(***************************************************************************)
(* What an observer is sent, for any number of publishers, observers and   *)
(* events, any queue size and any limit of the query.                      *)
(*                                                                         *)
(* Every step leaves an observer's Stream as it is, appends the event that *)
(* is put, puts the rows of the query in front, or drops the event whose   *)
(* send raised (StreamStep).  NothingMissed is strengthened to the         *)
(* subscribers whose query is still to come (MissInv); FirstHeardInOrder   *)
(* needs to know that a publisher that still has to put an event has not   *)
(* committed a later one (PublisherInv), and that an event is put into a   *)
(* queue once (OnceInv).                                                   *)
(***************************************************************************)
EXTENDS EventStream, FiniteSets, FiniteSetTheorems, SequenceTheorems,
        WellFoundedInduction, TLAPS

NoRepeat(s) == \A i, j \in 1..Len(s) : s[i] = s[j] => i = j

(* The last event of a publisher is the one it emits, and the queues it    *)
(* still has to serve are different ones.                                  *)
PublisherInv ==
  \A p \in Publishers :
    /\ todo[p] = <<>> <=> emitting[p] # "publish"
    /\ NoRepeat(todo[p])
    /\ emitting[p] # "no" =>
         /\ event[p] \in 1..Len(log) /\ log[event[p]] = p
         /\ \A f \in 1..Len(log) : f > event[p] => log[f] # p

HandlerInv ==
  /\ IsFiniteSet(subs)
  /\ \A o \in Observers :
       /\ handler[o] \in {"none", "query"} => sent[o] = <<>> /\ replay[o] = <<>>
       /\ handler[o] # "live" => holding[o] = <<>>
       /\ handler[o] \in {"live", "over"} => replay[o] = <<>>
       /\ handler[o] \in {"query", "replay", "live"} => o \in subs
       /\ joined[o] <= Len(log)

TypeInv == TypeOK /\ PublisherInv /\ HandlerInv
-----------------------------------------------------------------------------
(* Sequences.                                                              *)
LEMMA TailOf ==
  ASSUME NEW S, NEW s \in Seq(S), s # <<>>
  PROVE  /\ Len(s) \in Nat \ {0} /\ Head(s) = s[1] /\ Head(s) \in S
         /\ Tail(s) \in Seq(S) /\ Len(Tail(s)) = Len(s) - 1
         /\ \A i \in 1..Len(Tail(s)) : Tail(s)[i] = s[i + 1]
<1>1. Len(s) \in Nat \ {0}
  BY EmptySeq
<1>2. Head(s) = s[1]
  OBVIOUS
<1> QED BY <1>1, <1>2, HeadTailProperties

LEMMA TailContains ==
  ASSUME NEW S, NEW s \in Seq(S), s # <<>>, NEW e
  PROVE  Contains(s, e) <=> e = Head(s) \/ Contains(Tail(s), e)
<1>1. /\ Len(s) \in Nat \ {0} /\ Head(s) = s[1] /\ Len(Tail(s)) = Len(s) - 1
      /\ \A i \in 1..Len(Tail(s)) : Tail(s)[i] = s[i + 1]
  BY TailOf
<1>2. ASSUME Contains(s, e) PROVE e = Head(s) \/ Contains(Tail(s), e)
  <2>1. PICK i \in 1..Len(s) : s[i] = e
    BY <1>2 DEF Contains
  <2>2. i # 1 => i - 1 \in 1..Len(Tail(s)) /\ Tail(s)[i - 1] = s[i]
    BY <1>1
  <2> QED BY <1>1, <2>1, <2>2 DEF Contains
<1>3. ASSUME Contains(Tail(s), e) PROVE Contains(s, e)
  <2>1. PICK i \in 1..Len(Tail(s)) : Tail(s)[i] = e
    BY <1>3 DEF Contains
  <2>2. i + 1 \in 1..Len(s) /\ s[i + 1] = e
    BY <1>1, <2>1
  <2> QED BY <2>2 DEF Contains
<1>4. Contains(s, Head(s))
  <2>1. 1 \in 1..Len(s)
    BY <1>1
  <2> QED BY <1>1, <2>1 DEF Contains
<1> QED BY <1>2, <1>3, <1>4

LEMMA AppendContains ==
  ASSUME NEW S, NEW s \in Seq(S), NEW e \in S, NEW f
  PROVE  Contains(Append(s, e), f) <=> Contains(s, f) \/ f = e
<1>1. /\ Len(s) \in Nat /\ Len(Append(s, e)) = Len(s) + 1
      /\ \A i \in 1..Len(s) : Append(s, e)[i] = s[i]
      /\ Append(s, e)[Len(s) + 1] = e
  BY LenProperties, AppendProperties
<1>2. Contains(s, f) => Contains(Append(s, e), f)
  BY <1>1 DEF Contains
<1>3. Len(s) + 1 \in 1..Len(Append(s, e))
  BY <1>1
<1>4. Contains(Append(s, e), e)
  BY <1>1, <1>3 DEF Contains
<1>5. ASSUME Contains(Append(s, e), f), f # e PROVE Contains(s, f)
  <2>1. PICK i \in 1..Len(Append(s, e)) : Append(s, e)[i] = f
    BY <1>5 DEF Contains
  <2>2. i \in 1..Len(s)
    BY <1>1, <1>5, <2>1
  <2> QED BY <1>1, <2>1, <2>2 DEF Contains
<1> QED BY <1>2, <1>4, <1>5

LEMMA ConcatContains ==
  ASSUME NEW S, NEW s \in Seq(S), NEW t \in Seq(S), NEW e
  PROVE  Contains(s \o t, e) <=> Contains(s, e) \/ Contains(t, e)
<1>1. /\ Len(s) \in Nat /\ Len(t) \in Nat /\ Len(s \o t) = Len(s) + Len(t)
      /\ \A i \in 1 .. Len(s) + Len(t) : (s \o t)[i] =
           IF i <= Len(s) THEN s[i] ELSE t[i - Len(s)]
  BY LenProperties, ConcatProperties
<1>2. ASSUME Contains(s, e) PROVE Contains(s \o t, e)
  <2>1. PICK i \in 1..Len(s) : s[i] = e
    BY <1>2 DEF Contains
  <2>2. i \in 1..Len(s \o t) /\ (s \o t)[i] = e
    BY <1>1, <2>1
  <2> QED BY <2>2 DEF Contains
<1>3. ASSUME Contains(t, e) PROVE Contains(s \o t, e)
  <2>1. PICK i \in 1..Len(t) : t[i] = e
    BY <1>3 DEF Contains
  <2>2. Len(s) + i \in 1..Len(s \o t) /\ (s \o t)[Len(s) + i] = e
    BY <1>1, <2>1
  <2> QED BY <2>2 DEF Contains
<1>4. ASSUME Contains(s \o t, e) PROVE Contains(s, e) \/ Contains(t, e)
  <2>1. PICK i \in 1..Len(s \o t) : (s \o t)[i] = e
    BY <1>4 DEF Contains
  <2>2. CASE i <= Len(s)
    BY <1>1, <2>1, <2>2 DEF Contains
  <2>3. CASE i > Len(s)
    <3>1. i - Len(s) \in 1..Len(t) /\ t[i - Len(s)] = e
      BY <1>1, <2>1, <2>3
    <3> QED BY <3>1 DEF Contains
  <2> QED BY <1>1, <2>2, <2>3
<1> QED BY <1>2, <1>3, <1>4

LEMMA EmptyContains == \A e : ~Contains(<<>>, e)
<1>1. Len(<<>>) = 0
  OBVIOUS
<1> QED BY <1>1 DEF Contains

(* The head of t moves to the end of s.                                    *)
LEMMA HeadMoves ==
  ASSUME NEW S, NEW s \in Seq(S), NEW t \in Seq(S), t # <<>>
  PROVE  Append(s, Head(t)) \o Tail(t) = s \o t
<1>1. Head(t) \in S /\ Tail(t) \in Seq(S)
  BY TailOf
<1>2. Append(s, Head(t)) = s \o <<Head(t)>> /\ <<Head(t)>> \in Seq(S)
  BY <1>1, AppendIsConcat
<1>3. (s \o <<Head(t)>>) \o Tail(t) = s \o (<<Head(t)>> \o Tail(t))
  BY <1>1, <1>2, ConcatAssociative
<1>4. <<Head(t)>> \o Tail(t) = t
  <2>1. SubSeq(t, 1, Len(t)) = <<t[1]>> \o SubSeq(t, 2, Len(t))
    <3>1. 1 \in 1..Len(t) /\ Len(t) \in 1..Len(t) /\ 1 + 1 = 2
      BY TailOf
    <3> QED BY <3>1, SubSeqRecursiveFirst
  <2>2. SubSeq(t, 1, Len(t)) = t /\ SubSeq(t, 2, Len(t)) = Tail(t)
    BY SubSeqFull, TailIsSubSeq
  <2> QED BY <2>1, <2>2, TailOf
<1> QED BY <1>2, <1>3, <1>4

LEMMA AppendMoves ==
  ASSUME NEW S, NEW s \in Seq(S), NEW t \in Seq(S), NEW e \in S
  PROVE  s \o Append(t, e) = Append(s \o t, e)
<1>1. <<e>> \in Seq(S) /\ s \o t \in Seq(S)
  BY ConcatProperties
<1>2. Append(t, e) = t \o <<e>> /\ Append(s \o t, e) = (s \o t) \o <<e>>
  BY <1>1, AppendIsConcat
<1> QED BY <1>1, <1>2, ConcatAssociative
-----------------------------------------------------------------------------
(* publish puts the event into the queue of every subscriber, once.        *)
LEMMA Orders ==
  ASSUME TypeInv, NEW order \in SetToSeqs(subs)
  PROVE  /\ order \in Seq(Observers) /\ NoRepeat(order)
         /\ \A o \in subs : Contains(order, o)
<1> DEFINE n == Cardinality(subs)
<1>1. n \in Nat /\ IsFiniteSet(subs) /\ subs \subseteq Observers
  BY FS_CardinalityType DEF TypeInv, TypeOK, HandlerInv
<1>2. /\ order \in [1..n -> subs]
      /\ \A i, j \in 1..n : i # j => order[i] # order[j]
  BY DEF SetToSeqs
<1>3. order \in Injection(1..n, subs)
  BY <1>2 DEF Injection, IsInjective
<1>4. order \in Surjection(1..n, subs)
  <2>1. Cardinality(1..n) = n
    BY <1>1, FS_Interval
  <2> QED BY <1>1, <1>3, <2>1, FS_Injection
<1> HIDE DEF n
<1>5. order \in Seq(Observers) /\ Len(order) = n
  BY <1>1, <1>2
<1>6. \A o \in subs : \E i \in 1..n : order[i] = o
  BY <1>4 DEF Surjection
<1> QED BY <1>2, <1>5, <1>6 DEF NoRepeat, Contains

LEMMA GoesOn ==
  ASSUME TypeInv, NEW p \in Publishers, emitting[p] # "no",
         NEW rest \in Seq(Observers), NoRepeat(rest), GoOn(p, rest), log' = log
  PROVE  /\ todo' \in [Publishers -> Seq(Observers)]
         /\ emitting' \in [Publishers -> {"no", "commit", "publish"}]
         /\ event' \in [Publishers -> Events \union {0}]
         /\ PublisherInv'
<1>1. /\ todo \in [Publishers -> Seq(Observers)]
      /\ emitting \in [Publishers -> {"no", "commit", "publish"}]
      /\ event \in [Publishers -> Events \union {0}]
  BY DEF TypeInv, TypeOK
<1>2. /\ todo' \in [Publishers -> Seq(Observers)]
      /\ emitting' \in [Publishers -> {"no", "commit", "publish"}]
      /\ event' \in [Publishers -> Events \union {0}]
  BY <1>1 DEF GoOn
<1>3. /\ todo'[p] = rest
      /\ emitting'[p] = IF rest = <<>> THEN "no" ELSE "publish"
      /\ event'[p] = IF rest = <<>> THEN 0 ELSE event[p]
      /\ \A q \in Publishers \ {p} :
           todo'[q] = todo[q] /\ emitting'[q] = emitting[q] /\ event'[q] = event[q]
  BY <1>1 DEF GoOn
<1>4. PublisherInv'
  <2> SUFFICES ASSUME NEW q \in Publishers
               PROVE  /\ todo'[q] = <<>> <=> emitting'[q] # "publish"
                      /\ NoRepeat(todo'[q])
                      /\ emitting'[q] # "no" =>
                           /\ event'[q] \in 1..Len(log) /\ log[event'[q]] = q
                           /\ \A f \in 1..Len(log) : f > event'[q] => log[f] # q
    BY DEF PublisherInv, NoRepeat
  <2>1. CASE q = p
    BY <1>3, <2>1 DEF TypeInv, PublisherInv
  <2>2. CASE q # p
    BY <1>3, <2>2 DEF TypeInv, PublisherInv
  <2> QED BY <2>1, <2>2
<1> QED BY <1>2, <1>4

LEMMA CommitStep ==
  ASSUME TypeInv, NEW p \in Publishers, CommitEvent(p)
  PROVE  /\ TypeInv'
         /\ log' \in Seq(Publishers) /\ Len(log') = Len(log) + 1 /\ Len(log) \in Nat
         /\ \A e \in 1..Len(log) : log'[e] = log[e]
         /\ log'[Len(log) + 1] = p /\ event'[p] = Len(log) + 1
         /\ emitting[p] = "no" /\ emitting'[p] = "commit"
         /\ \A q \in Publishers \ {p} :
              event'[q] = event[q] /\ emitting'[q] = emitting[q]
<1>1. /\ log \in Seq(Publishers) /\ Len(log) \in Nat
      /\ emitting \in [Publishers -> {"no", "commit", "publish"}]
      /\ event \in [Publishers -> Events \union {0}]
      /\ MaxEvents \in Nat /\ Len(log) < MaxEvents
  BY EventBounds, LenProperties DEF TypeInv, TypeOK, CommitEvent
<1>2. /\ log' = Append(log, p) /\ emitting[p] = "no"
      /\ event' = [event EXCEPT ![p] = Len(log) + 1]
      /\ emitting' = [emitting EXCEPT ![p] = "commit"]
      /\ UNCHANGED <<todo, subs, queue, observerVars>>
  BY DEF CommitEvent
<1>3. /\ log' \in Seq(Publishers) /\ Len(log') = Len(log) + 1
      /\ \A e \in 1..Len(log) : log'[e] = log[e]
      /\ log'[Len(log) + 1] = p
  BY <1>1, <1>2, AppendProperties
<1>4. /\ event'[p] = Len(log) + 1 /\ emitting'[p] = "commit"
      /\ \A q \in Publishers \ {p} :
           event'[q] = event[q] /\ emitting'[q] = emitting[q]
  BY <1>1, <1>2
<1>5. Len(log') \in 1..MaxEvents
  BY <1>1, <1>3
<1>6. /\ emitting' \in [Publishers -> {"no", "commit", "publish"}]
      /\ event' \in [Publishers -> Events \union {0}]
  <2>1. Len(log) + 1 \in Events
    BY <1>1 DEF Events
  <2> QED BY <1>1, <1>2, <2>1
<1>7. TypeOK'
  BY <1>2, <1>3, <1>5, <1>6 DEF TypeInv, TypeOK, observerVars
<1>8. PublisherInv'
  <2> SUFFICES ASSUME NEW q \in Publishers
               PROVE  /\ todo'[q] = <<>> <=> emitting'[q] # "publish"
                      /\ NoRepeat(todo'[q])
                      /\ emitting'[q] # "no" =>
                           /\ event'[q] \in 1..Len(log') /\ log'[event'[q]] = q
                           /\ \A f \in 1..Len(log') : f > event'[q] => log'[f] # q
    BY DEF PublisherInv, NoRepeat
  <2>1. todo'[q] = todo[q] /\ NoRepeat(todo[q])
        /\ (todo[q] = <<>> <=> emitting[q] # "publish")
    BY <1>2 DEF TypeInv, PublisherInv
  <2>2. CASE q = p
    <3>1. \A f \in 1..Len(log') : ~(f > event'[p])
      BY <1>1, <1>3, <1>4
    <3>2. event'[p] \in 1..Len(log')
      BY <1>1, <1>3, <1>4
    <3> QED BY <1>2, <1>3, <1>4, <2>1, <2>2, <3>1, <3>2
  <2>3. CASE q # p
    <3>1. emitting'[q] = emitting[q] /\ event'[q] = event[q]
      BY <1>4, <2>3
    <3>2. SUFFICES ASSUME emitting[q] # "no"
                   PROVE  /\ event[q] \in 1..Len(log') /\ log'[event[q]] = q
                          /\ \A f \in 1..Len(log') : f > event[q] => log'[f] # q
      BY <2>1, <3>1
    <3>3. /\ event[q] \in 1..Len(log) /\ log[event[q]] = q
          /\ \A f \in 1..Len(log) : f > event[q] => log[f] # q
      BY <3>2 DEF TypeInv, PublisherInv
    <3>4. \A f \in 1..Len(log') : f \in 1..Len(log) \/ f = Len(log) + 1
      BY <1>1, <1>3
    <3>5. event[q] \in 1..Len(log')
      BY <1>1, <1>3, <3>3
    <3> QED BY <1>3, <2>3, <3>3, <3>4, <3>5
  <2> QED BY <2>2, <2>3
<1>9. HandlerInv'
  <2>1. \A o \in Observers : joined'[o] <= Len(log')
    <3>1. joined' = joined /\ joined \in [Observers -> 0..MaxEvents]
      BY <1>2 DEF TypeInv, TypeOK, observerVars
    <3> QED BY <1>1, <1>3, <3>1 DEF TypeInv, HandlerInv
  <2> QED BY <1>2, <2>1 DEF TypeInv, HandlerInv, observerVars
<1> QED BY <1>1, <1>2, <1>3, <1>4, <1>7, <1>8, <1>9 DEF TypeInv

LEMMA StartStep ==
  ASSUME TypeInv, NEW p \in Publishers, StartPublish(p)
  PROVE  TypeInv'
<1>1. PICK order \in SetToSeqs(subs) : GoOn(p, order)
  BY DEF StartPublish
<1>2. emitting[p] # "no" /\ UNCHANGED <<log, subs, queue, observerVars>>
  BY DEF StartPublish
<1>3. order \in Seq(Observers) /\ NoRepeat(order)
  BY Orders
<1>4. /\ todo' \in [Publishers -> Seq(Observers)]
      /\ emitting' \in [Publishers -> {"no", "commit", "publish"}]
      /\ event' \in [Publishers -> Events \union {0}]
      /\ PublisherInv'
  BY <1>1, <1>2, <1>3, GoesOn
<1>5. TypeOK'
  BY <1>2, <1>4 DEF TypeInv, TypeOK, observerVars
<1>6. HandlerInv'
  BY <1>2 DEF TypeInv, HandlerInv, observerVars
<1> QED BY <1>4, <1>5, <1>6 DEF TypeInv

LEMMA PutStep ==
  ASSUME TypeInv, NEW p \in Publishers, Put(p)
  PROVE  /\ TypeInv'
         /\ todo[p] # <<>> /\ todo[p] \in Seq(Observers)
         /\ Head(todo[p]) \in Observers
         /\ event[p] \in Events /\ emitting[p] = "publish"
         /\ queue'[Head(todo[p])] = Append(queue[Head(todo[p])], event[p])
         /\ \A o \in Observers \ {Head(todo[p])} : queue'[o] = queue[o]
<1> DEFINE o == Head(todo[p])
<1>1. /\ todo[p] # <<>> /\ NoRepeat(todo[p]) /\ todo[p] \in Seq(Observers)
      /\ emitting[p] # "no"
      /\ queue \in [Observers -> Seq(Events)]
      /\ \A q \in Observers : Len(queue[q]) <= QueueSize
      /\ event[p] \in 1..Len(log) /\ Len(log) <= MaxEvents /\ Len(log) \in Nat
      /\ emitting[p] = "publish" /\ MaxEvents \in Nat /\ QueueSize \in Nat
  BY EventBounds, LenProperties DEF Put, TypeInv, TypeOK, PublisherInv
<1>2. o \in Observers /\ event[p] \in Events
  BY <1>1, TailOf DEF Events
<1>3. /\ queue' = [queue EXCEPT ![o] = Append(@, event[p])]
      /\ Len(queue[o]) < QueueSize /\ GoOn(p, Tail(todo[p]))
      /\ UNCHANGED <<log, subs, observerVars>>
  BY DEF Put
<1> HIDE DEF o
<1>4. /\ queue'[o] = Append(queue[o], event[p])
      /\ \A q \in Observers \ {o} : queue'[q] = queue[q]
      /\ queue' \in [Observers -> Seq(Events)]
  <2>1. Append(queue[o], event[p]) \in Seq(Events)
    BY <1>1, <1>2, AppendProperties
  <2> QED BY <1>1, <1>2, <1>3, <2>1
<1>5. \A q \in Observers : Len(queue'[q]) <= QueueSize
  <2>1. Len(queue'[o]) = Len(queue[o]) + 1 /\ Len(queue[o]) \in Nat
    BY <1>1, <1>2, <1>4, AppendProperties, LenProperties
  <2>2. Len(queue'[o]) <= QueueSize
    BY <1>1, <1>3, <2>1
  <2> QED BY <1>1, <1>4, <2>2
<1>6. NoRepeat(Tail(todo[p])) /\ Tail(todo[p]) \in Seq(Observers)
  <2>1. /\ Len(todo[p]) \in Nat \ {0} /\ Tail(todo[p]) \in Seq(Observers)
        /\ Len(Tail(todo[p])) = Len(todo[p]) - 1
        /\ \A i \in 1..Len(Tail(todo[p])) : Tail(todo[p])[i] = todo[p][i + 1]
    BY <1>1, TailOf
  <2> QED BY <1>1, <2>1 DEF NoRepeat
<1>7. /\ todo' \in [Publishers -> Seq(Observers)]
      /\ emitting' \in [Publishers -> {"no", "commit", "publish"}]
      /\ event' \in [Publishers -> Events \union {0}]
      /\ PublisherInv'
  BY <1>1, <1>3, <1>6, GoesOn
<1>8. TypeOK'
  BY <1>3, <1>4, <1>5, <1>7 DEF TypeInv, TypeOK, observerVars
<1>9. HandlerInv'
  BY <1>3 DEF TypeInv, HandlerInv, observerVars
<1> QED BY <1>1, <1>2, <1>4, <1>7, <1>8, <1>9 DEF TypeInv, o

(* The rows that list_events returns.                                      *)
Rows == [e \in 1..(IF Len(log) < ReplayLimit THEN Len(log) ELSE ReplayLimit) |-> e]

LEMMA RowsType ==
  ASSUME TypeInv
  PROVE  /\ Rows \in Seq(Events) /\ Len(Rows) \in Nat
         /\ Len(Rows) = IF Len(log) < ReplayLimit THEN Len(log) ELSE ReplayLimit
         /\ \A i \in 1..Len(Rows) : Rows[i] = i
<1> DEFINE n == IF Len(log) < ReplayLimit THEN Len(log) ELSE ReplayLimit
<1>1. /\ Len(log) \in Nat /\ Len(log) <= MaxEvents
      /\ MaxEvents \in Nat /\ ReplayLimit \in Nat
  BY EventBounds, LenProperties DEF TypeInv, TypeOK
<1>2. n \in Nat /\ n <= MaxEvents
  BY <1>1
<1>3. Rows = [e \in 1..n |-> e]
  BY DEF Rows
<1> HIDE DEF n
<1>4. Rows \in [1..n -> Events]
  BY <1>1, <1>2, <1>3 DEF Events
<1>5. Rows \in Seq(Events) /\ Len(Rows) = n
  BY <1>2, <1>4
<1> QED BY <1>2, <1>3, <1>5 DEF n

LEMMA HoldingType ==
  ASSUME NEW h \in {<<>>} \union {<<e>> : e \in Events}
  PROVE  h \in Seq(Events)
<1>1. \A e \in Events : <<e>> \in Seq(Events)
  OBVIOUS
<1>2. <<>> \in Seq(Events)
  OBVIOUS
<1> QED BY <1>1, <1>2

LEMMA HandlerTypes ==
  ASSUME TypeInv, NEW o \in Observers,
         Subscribe(o) \/ HandlerStep(o) \/ Disconnect(o)
  PROVE  TypeInv'
<1>1. /\ handler \in [Observers -> Handlers] /\ replay \in [Observers -> Seq(Events)]
      /\ holding \in [Observers -> {<<>>} \union {<<e>> : e \in Events}]
      /\ open \in [Observers -> BOOLEAN] /\ sent \in [Observers -> Seq(Events)]
      /\ joined \in [Observers -> 0..MaxEvents]
      /\ queue \in [Observers -> Seq(Events)]
      /\ \A q \in Observers : Len(queue[q]) <= QueueSize
      /\ subs \subseteq Observers
  BY DEF TypeInv, TypeOK
<1>2. UNCHANGED publisherVars
  BY DEF Subscribe, HandlerStep, ReadRows, SendRow, EndReplay, Take, Forward,
         Disconnect
<1>3. SUFFICES
        /\ subs' \subseteq Observers /\ queue' \in [Observers -> Seq(Events)]
        /\ \A q \in Observers : Len(queue'[q]) <= QueueSize
        /\ handler' \in [Observers -> Handlers] /\ replay' \in [Observers -> Seq(Events)]
        /\ holding' \in [Observers -> {<<>>} \union {<<e>> : e \in Events}]
        /\ open' \in [Observers -> BOOLEAN] /\ sent' \in [Observers -> Seq(Events)]
        /\ joined' \in [Observers -> 0..MaxEvents]
        /\ HandlerInv'
  BY <1>2 DEF TypeInv, TypeOK, PublisherInv, NoRepeat, publisherVars
<1>4. CASE Subscribe(o)
  <2>1. /\ handler[o] = "none" /\ handler' = [handler EXCEPT ![o] = "query"]
        /\ subs' = subs \union {o} /\ joined' = [joined EXCEPT ![o] = Len(log)]
        /\ UNCHANGED <<publisherVars, queue, replay, holding, open, sent>>
    BY <1>4 DEF Subscribe
  <2>2. Len(log) \in 0..MaxEvents /\ Len(log) <= Len(log)
    BY EventBounds, LenProperties DEF TypeInv, TypeOK
  <2>3. IsFiniteSet(subs')
    BY <2>1, FS_AddElement DEF TypeInv, HandlerInv
  <2>4. log' = log
    BY <2>1 DEF publisherVars
  <2>5. HandlerInv'
    BY <1>1, <2>1, <2>2, <2>3, <2>4 DEF TypeInv, HandlerInv
  <2> QED BY <1>1, <2>1, <2>2, <2>5 DEF Handlers
<1>5. CASE ReadRows(o)
  <2>1. /\ handler[o] = "query" /\ handler' = [handler EXCEPT ![o] = "replay"]
        /\ replay' = [replay EXCEPT ![o] = Rows] /\ log' = log
        /\ UNCHANGED <<subs, queue, holding, open, sent, joined>>
    BY <1>5 DEF ReadRows, Rows, publisherVars
  <2>2. HandlerInv'
    BY <1>1, <2>1 DEF TypeInv, HandlerInv
  <2> QED BY <1>1, <2>1, <2>2, RowsType DEF Handlers
<1>6. CASE SendRow(o)
  <2>1. /\ handler[o] = "replay" /\ replay[o] # <<>> /\ log' = log
        /\ UNCHANGED <<subs, queue, holding, open, joined>>
    BY <1>6 DEF SendRow, publisherVars
  <2>2. Head(replay[o]) \in Events /\ Tail(replay[o]) \in Seq(Events)
    BY <1>1, <2>1, TailOf
  <2>3. CASE /\ sent' = [sent EXCEPT ![o] = Append(@, Head(replay[o]))]
             /\ replay' = [replay EXCEPT ![o] = Tail(@)]
             /\ UNCHANGED handler
    <3>1. Append(sent[o], Head(replay[o])) \in Seq(Events)
      BY <1>1, <2>2, AppendProperties
    <3>2. HandlerInv'
      BY <1>1, <2>1, <2>3 DEF TypeInv, HandlerInv
    <3> QED BY <1>1, <2>1, <2>2, <2>3, <3>1, <3>2
  <2>4. CASE handler' = [handler EXCEPT ![o] = "broken"] /\ UNCHANGED <<sent, replay>>
    <3>1. HandlerInv'
      BY <1>1, <2>1, <2>4 DEF TypeInv, HandlerInv
    <3> QED BY <1>1, <2>1, <2>4, <3>1 DEF Handlers
  <2> QED BY <1>6, <2>3, <2>4 DEF SendRow
<1>7. CASE EndReplay(o)
  <2>1. /\ handler[o] = "replay" /\ replay[o] = <<>> /\ log' = log
        /\ handler' = [handler EXCEPT ![o] = "live"]
        /\ UNCHANGED <<subs, queue, replay, holding, open, sent, joined>>
    BY <1>7 DEF EndReplay, publisherVars
  <2>2. HandlerInv'
    BY <1>1, <2>1 DEF TypeInv, HandlerInv
  <2> QED BY <1>1, <2>1, <2>2 DEF Handlers
<1>8. CASE Take(o)
  <2>1. /\ handler[o] = "live" /\ queue[o] # <<>> /\ log' = log
        /\ holding' = [holding EXCEPT ![o] = <<Head(queue[o])>>]
        /\ queue' = [queue EXCEPT ![o] = Tail(@)]
        /\ UNCHANGED <<subs, handler, replay, open, sent, joined>>
    BY <1>8 DEF Take, publisherVars
  <2>2. /\ Head(queue[o]) \in Events /\ Tail(queue[o]) \in Seq(Events)
        /\ Len(Tail(queue[o])) = Len(queue[o]) - 1 /\ Len(queue[o]) \in Nat
    BY <1>1, <2>1, TailOf
  <2>3. Len(queue'[o]) <= QueueSize
    BY <1>1, <2>1, <2>2, EventBounds
  <2>4. HandlerInv'
    BY <1>1, <2>1 DEF TypeInv, HandlerInv
  <2> QED BY <1>1, <2>1, <2>2, <2>3, <2>4
<1>9. CASE Forward(o)
  <2>1. /\ handler[o] = "live" /\ holding[o] # <<>> /\ log' = log
        /\ holding' = [holding EXCEPT ![o] = <<>>]
        /\ UNCHANGED <<queue, replay, open, joined>>
    BY <1>9 DEF Forward, publisherVars
  <2>2. CASE sent' = [sent EXCEPT ![o] = @ \o holding[o]] /\ UNCHANGED <<handler, subs>>
    <3>1. holding[o] \in Seq(Events)
      BY <1>1, HoldingType
    <3>2. sent[o] \o holding[o] \in Seq(Events)
      BY <1>1, <3>1, ConcatProperties
    <3>3. HandlerInv'
      BY <1>1, <2>1, <2>2 DEF TypeInv, HandlerInv
    <3> QED BY <1>1, <2>1, <2>2, <3>2, <3>3
  <2>3. CASE /\ handler' = [handler EXCEPT ![o] = "over"]
             /\ subs' = subs \ {o} /\ UNCHANGED sent
    <3>1. IsFiniteSet(subs')
      BY <2>3, FS_RemoveElement DEF TypeInv, HandlerInv
    <3>2. HandlerInv'
      BY <1>1, <2>1, <2>3, <3>1 DEF TypeInv, HandlerInv
    <3> QED BY <1>1, <2>1, <2>3, <3>2 DEF Handlers
  <2> QED BY <1>9, <2>2, <2>3 DEF Forward
<1>10. CASE Disconnect(o)
  <2>1. /\ open' = [open EXCEPT ![o] = FALSE] /\ log' = log
        /\ UNCHANGED <<subs, queue, handler, replay, holding, sent, joined>>
    BY <1>10 DEF Disconnect, publisherVars
  <2>2. HandlerInv'
    BY <2>1 DEF TypeInv, HandlerInv
  <2>3. open' \in [Observers -> BOOLEAN]
    BY <1>1, <2>1
  <2> QED BY <1>1, <2>1, <2>2, <2>3
<1> QED BY <1>4, <1>5, <1>6, <1>7, <1>8, <1>9, <1>10 DEF HandlerStep

LEMMA TypeStep == TypeInv /\ [Next]_vars => TypeInv'
<1> SUFFICES ASSUME TypeInv, [Next]_vars PROVE TypeInv'
  OBVIOUS
<1>1. CASE UNCHANGED vars
  BY <1>1 DEF vars, publisherVars, observerVars, TypeInv, TypeOK, PublisherInv,
              HandlerInv, NoRepeat
<1>2. ASSUME NEW p \in Publishers, CommitEvent(p) PROVE TypeInv'
  BY <1>2, CommitStep
<1>3. ASSUME NEW p \in Publishers, PublisherStep(p) PROVE TypeInv'
  BY <1>3, StartStep, PutStep DEF PublisherStep
<1> QED BY <1>1, <1>2, <1>3, HandlerTypes DEF Next
-----------------------------------------------------------------------------
(* What a step does to what an observer hears.                             *)
Same(q) ==
  /\ sent'[q] = sent[q] /\ replay'[q] = replay[q]
  /\ holding'[q] = holding[q] /\ queue'[q] = queue[q]

Joins(q) == ReadRows(q) /\ Stream(q)' = Rows \o Stream(q)

Gets(q, p) ==
  /\ Put(p) /\ q = Head(todo[p])
  /\ event[p] \in Events /\ Stream(q)' = Append(Stream(q), event[p])

Loses(q) ==
  /\ Forward(q) /\ ~open[q]
  /\ sent[q] \in Seq(Events) /\ queue[q] \in Seq(Events)
  /\ \E h \in Events :
       /\ holding[q] = <<h>>
       /\ Stream(q) = Append(sent[q], h) \o queue[q]
       /\ Stream(q)' = sent[q] \o queue[q]

LEMMA StreamTypes ==
  ASSUME TypeInv, NEW q \in Observers
  PROVE  /\ sent[q] \in Seq(Events) /\ replay[q] \in Seq(Events)
         /\ holding[q] \in Seq(Events) /\ queue[q] \in Seq(Events)
         /\ sent[q] \o replay[q] \in Seq(Events)
         /\ sent[q] \o replay[q] \o holding[q] \in Seq(Events)
         /\ Stream(q) \in Seq(Events)
<1>1. /\ sent[q] \in Seq(Events) /\ replay[q] \in Seq(Events)
      /\ holding[q] \in Seq(Events) /\ queue[q] \in Seq(Events)
  BY HoldingType DEF TypeInv, TypeOK
<1>2. sent[q] \o replay[q] \in Seq(Events)
  BY <1>1, ConcatProperties
<1>3. sent[q] \o replay[q] \o holding[q] \in Seq(Events)
  BY <1>1, <1>2, ConcatProperties
<1>4. Stream(q) \in Seq(Events)
  BY <1>1, <1>3, ConcatProperties DEF Stream
<1> QED BY <1>1, <1>2, <1>3, <1>4

(* Sending a row moves it from the replay to what was sent.                *)
LEMMA RowIsSent ==
  ASSUME TypeInv, NEW o \in Observers, SendRow(o)
  PROVE  Stream(o)' = Stream(o)
<1>1. replay[o] # <<>> /\ UNCHANGED <<queue, holding>>
  BY DEF SendRow
<1>2. /\ sent \in [Observers -> Seq(Events)]
      /\ replay \in [Observers -> Seq(Events)]
  BY DEF TypeInv, TypeOK
<1>3. CASE /\ sent' = [sent EXCEPT ![o] = Append(@, Head(replay[o]))]
           /\ replay' = [replay EXCEPT ![o] = Tail(@)]
  <2>1. sent'[o] = Append(sent[o], Head(replay[o])) /\ replay'[o] = Tail(replay[o])
    BY <1>2, <1>3
  <2>2. sent'[o] \o replay'[o] = sent[o] \o replay[o]
    BY <1>1, <2>1, HeadMoves, StreamTypes
  <2> QED BY <1>1, <2>2 DEF Stream
<1>4. CASE UNCHANGED <<sent, replay>>
  BY <1>1, <1>4 DEF Stream
<1> QED BY <1>3, <1>4 DEF SendRow

(* Taking from the queue moves an event into the handler's hands.          *)
LEMMA EventIsTaken ==
  ASSUME TypeInv, NEW o \in Observers, Take(o)
  PROVE  Stream(o)' = Stream(o)
<1> DEFINE s == sent[o] \o replay[o]
<1>1. /\ holding[o] = <<>> /\ queue[o] # <<>> /\ UNCHANGED <<sent, replay>>
      /\ holding' = [holding EXCEPT ![o] = <<Head(queue[o])>>]
      /\ queue' = [queue EXCEPT ![o] = Tail(@)]
  BY DEF Take
<1>2. /\ queue \in [Observers -> Seq(Events)]
      /\ holding \in [Observers -> {<<>>} \union {<<e>> : e \in Events}]
      /\ s \in Seq(Events) /\ queue[o] \in Seq(Events)
  BY StreamTypes DEF TypeInv, TypeOK
<1>3. Stream(o) = (s \o <<>>) \o queue[o]
  BY <1>1 DEF Stream
<1>4. Stream(o)' = (s \o <<Head(queue[o])>>) \o Tail(queue[o])
  BY <1>1, <1>2 DEF Stream
<1> HIDE DEF s
<1>5. s \o <<>> = s
  BY <1>2, ConcatEmptySeq
<1>6. Head(queue[o]) \in Events
  BY <1>1, <1>2, TailOf
<1>7. s \o <<Head(queue[o])>> = Append(s, Head(queue[o]))
  BY <1>2, <1>6, AppendIsConcat
<1> QED BY <1>1, <1>2, <1>3, <1>4, <1>5, <1>7, HeadMoves

(* Forwarding sends what is held, or loses it.                             *)
LEMMA EventIsForwarded ==
  ASSUME TypeInv, NEW o \in Observers, Forward(o)
  PROVE  Stream(o)' = Stream(o) \/ Loses(o)
<1>1. /\ handler[o] = "live" /\ holding[o] # <<>> /\ replay[o] = <<>>
      /\ holding' = [holding EXCEPT ![o] = <<>>]
      /\ UNCHANGED <<queue, replay>>
  BY DEF Forward, TypeInv, HandlerInv
<1>2. /\ sent \in [Observers -> Seq(Events)] /\ sent[o] \in Seq(Events)
      /\ holding \in [Observers -> {<<>>} \union {<<e>> : e \in Events}]
      /\ holding[o] \in Seq(Events) /\ queue[o] \in Seq(Events)
  BY StreamTypes DEF TypeInv, TypeOK
<1>3. Stream(o) = (sent[o] \o holding[o]) \o queue[o]
  BY <1>1, <1>2, ConcatEmptySeq DEF Stream
<1>4. holding'[o] = <<>> /\ replay'[o] = <<>> /\ queue'[o] = queue[o]
  BY <1>1, <1>2
<1>5. CASE sent' = [sent EXCEPT ![o] = @ \o holding[o]]
  <2>1. sent'[o] = sent[o] \o holding[o] /\ sent'[o] \in Seq(Events)
    BY <1>2, <1>5, ConcatProperties
  <2>2. Stream(o)' = sent'[o] \o queue[o]
    BY <1>4, <2>1, ConcatEmptySeq DEF Stream
  <2> QED BY <1>3, <2>1, <2>2
<1>6. CASE ~open[o] /\ UNCHANGED sent
  <2>1. PICK h \in Events : holding[o] = <<h>>
    BY <1>1, <1>2
  <2>2. sent[o] \o <<h>> = Append(sent[o], h)
    BY <1>2, AppendIsConcat
  <2>3. Stream(o)' = sent[o] \o queue[o]
    BY <1>2, <1>4, <1>6, ConcatEmptySeq DEF Stream
  <2> QED BY <1>2, <1>3, <1>6, <2>1, <2>2, <2>3 DEF Loses
<1> QED BY <1>5, <1>6 DEF Forward

LEMMA RowsAreRead ==
  ASSUME TypeInv, NEW o \in Observers, ReadRows(o)
  PROVE  Joins(o)
<1>1. /\ handler[o] = "query" /\ UNCHANGED <<queue, holding, sent>>
      /\ replay' = [replay EXCEPT ![o] = Rows]
  BY DEF ReadRows, Rows
<1>2. /\ sent[o] = <<>> /\ replay[o] = <<>> /\ holding[o] = <<>>
      /\ replay \in [Observers -> Seq(Events)] /\ queue[o] \in Seq(Events)
  BY <1>1, StreamTypes DEF TypeInv, TypeOK, HandlerInv
<1>3. replay'[o] = Rows /\ Rows \in Seq(Events) /\ <<>> \in Seq(Events)
  BY <1>1, <1>2, RowsType
<1>4. Stream(o) = queue[o]
  BY <1>2, <1>3, ConcatEmptySeq DEF Stream
<1>5. Stream(o)' = Rows \o queue[o]
  BY <1>1, <1>2, <1>3, ConcatEmptySeq DEF Stream
<1> QED BY <1>4, <1>5 DEF Joins

LEMMA EventIsPut ==
  ASSUME TypeInv, NEW p \in Publishers, Put(p), NEW q \in Observers
  PROVE  Same(q) \/ Gets(q, p)
<1>1. UNCHANGED <<sent, replay, holding>>
  BY DEF Put, observerVars
<1>2. /\ event[p] \in Events
      /\ queue'[Head(todo[p])] = Append(queue[Head(todo[p])], event[p])
      /\ \A o \in Observers \ {Head(todo[p])} : queue'[o] = queue[o]
  BY PutStep
<1>3. CASE q = Head(todo[p])
  <2> DEFINE s == sent[q] \o replay[q] \o holding[q]
  <2>1. s \in Seq(Events) /\ queue[q] \in Seq(Events)
    BY StreamTypes
  <2>2. Stream(q) = s \o queue[q] /\ Stream(q)' = s \o Append(queue[q], event[p])
    BY <1>1, <1>2, <1>3 DEF Stream
  <2> HIDE DEF s
  <2>3. Stream(q)' = Append(Stream(q), event[p])
    BY <1>2, <2>1, <2>2, AppendMoves
  <2> QED BY <1>2, <1>3, <2>3 DEF Gets
<1>4. CASE q # Head(todo[p])
  BY <1>1, <1>2, <1>4 DEF Same
<1> QED BY <1>3, <1>4

LEMMA StreamStep ==
  ASSUME TypeInv, [Next]_vars, NEW q \in Observers
  PROVE  \/ Stream(q)' = Stream(q)
         \/ Joins(q)
         \/ \E p \in Publishers : Gets(q, p)
         \/ Loses(q)
<1>1. Same(q) => Stream(q)' = Stream(q)
  BY DEF Same, Stream
<1>2. ASSUME NEW p \in Publishers, CommitEvent(p) \/ StartPublish(p) PROVE Same(q)
  BY <1>2 DEF CommitEvent, StartPublish, observerVars, Same
<1>3. ASSUME NEW p \in Publishers, Put(p) PROVE Same(q) \/ Gets(q, p)
  BY <1>3, EventIsPut
<1>4. ASSUME NEW o \in Observers, Subscribe(o) \/ EndReplay(o) \/ Disconnect(o)
      PROVE  Same(q)
  BY <1>4 DEF Subscribe, EndReplay, Disconnect, Same
<1>5. ASSUME NEW o \in Observers,
             ReadRows(o) \/ SendRow(o) \/ Take(o) \/ Forward(o)
      PROVE  Stream(q)' = Stream(q) \/ Joins(q) \/ Loses(q)
  <2>1. CASE o = q
    BY <1>5, <2>1, RowsAreRead, RowIsSent, EventIsTaken, EventIsForwarded
  <2>2. CASE o # q
    <3>1. /\ sent \in [Observers -> Seq(Events)] /\ replay \in [Observers -> Seq(Events)]
          /\ queue \in [Observers -> Seq(Events)]
          /\ holding \in [Observers -> {<<>>} \union {<<e>> : e \in Events}]
      BY DEF TypeInv, TypeOK
    <3>2. Same(q)
      BY <1>5, <2>2, <3>1 DEF ReadRows, SendRow, Take, Forward, Same
    <3> QED BY <1>1, <3>2
  <2> QED BY <2>1, <2>2
<1>6. UNCHANGED vars => Same(q)
  BY DEF vars, observerVars, Same
<1> QED
  BY <1>1, <1>2, <1>3, <1>4, <1>5, <1>6 DEF Next, PublisherStep, HandlerStep
-----------------------------------------------------------------------------
(* Nothing is missed: an event committed since the subscription is in the  *)
(* stream or on its way into it, also before the query is read; one from   *)
(* before it is in the rows, up to the limit.                              *)
MissInv ==
  \A o \in Observers : \A e \in 1..Len(log) :
    /\ handler[o] \in {"query", "replay", "live"} /\ e > joined[o]
         => Contains(Stream(o), e) \/ OnItsWay(e, o)
    /\ handler[o] \in {"replay", "live"} /\ e <= joined[o] /\ e <= ReplayLimit
         => Contains(Stream(o), e)

LEMMA HandlerMoves ==
  ASSUME TypeInv, [Next]_vars, NEW o \in Observers
  PROVE  /\ handler'[o] \in {"query", "replay", "live"} =>
              \/ /\ handler[o] \in {"query", "replay", "live"}
                 /\ joined'[o] = joined[o]
              \/ /\ handler'[o] = "query" /\ joined'[o] = Len(log) /\ log' = log
         /\ handler'[o] \in {"replay", "live"} =>
              handler[o] \in {"replay", "live"} \/ ReadRows(o)
         /\ Loses(o) => handler'[o] = "over"
         /\ log' = log \/ \E p \in Publishers : CommitEvent(p)
<1> USE DEF publisherVars, observerVars
<1>1. handler \in [Observers -> Handlers] /\ joined \in [Observers -> 0..MaxEvents]
  BY DEF TypeInv, TypeOK
<1>2. log' = log \/ \E p \in Publishers : CommitEvent(p)
  BY DEF Next, PublisherStep, StartPublish, Put, Subscribe, HandlerStep, ReadRows,
         SendRow, EndReplay, Take, Forward, Disconnect, vars
<1>3. Loses(o) => handler'[o] = "over"
  BY <1>1 DEF Loses, Forward
<1>4. ASSUME NEW p \in Publishers, CommitEvent(p) \/ PublisherStep(p)
      PROVE  UNCHANGED <<handler, joined>>
  BY <1>4 DEF CommitEvent, PublisherStep, StartPublish, Put
<1>5. ASSUME NEW q \in Observers, Subscribe(q) \/ HandlerStep(q) \/ Disconnect(q),
             q # o
      PROVE  handler'[o] = handler[o] /\ joined'[o] = joined[o]
  BY <1>1, <1>5 DEF Subscribe, HandlerStep, ReadRows, SendRow, EndReplay, Take,
                    Forward, Disconnect
<1>6. CASE Subscribe(o)
  BY <1>1, <1>2, <1>3, <1>6 DEF Subscribe
<1>7. CASE HandlerStep(o) \/ Disconnect(o)
  <2>1. joined'[o] = joined[o]
    BY <1>7 DEF HandlerStep, ReadRows, SendRow, EndReplay, Take, Forward, Disconnect
  <2>2. \/ handler'[o] = handler[o]
        \/ handler'[o] \in {"broken", "over"}
        \/ handler[o] = "query" /\ ReadRows(o)
        \/ handler[o] = "replay"
    BY <1>1, <1>7 DEF HandlerStep, ReadRows, SendRow, EndReplay, Take, Forward,
                      Disconnect
  <2> QED BY <1>2, <1>3, <2>1, <2>2
<1>8. CASE UNCHANGED vars
  BY <1>2, <1>3, <1>8 DEF vars
<1> QED BY <1>2, <1>3, <1>4, <1>5, <1>6, <1>7, <1>8 DEF Next

(* An event on its way stays so until it is put.                           *)
LEMMA WayStep ==
  ASSUME TypeInv, [Next]_vars, NEW o \in subs, NEW e, OnItsWay(e, o)
  PROVE  OnItsWay(e, o)' \/ \E p \in Publishers : Gets(o, p) /\ event[p] = e
<1>1. /\ emitting \in [Publishers -> {"no", "commit", "publish"}]
      /\ event \in [Publishers -> Events \union {0}]
      /\ todo \in [Publishers -> Seq(Observers)]
      /\ o \in Observers
  BY DEF TypeInv, TypeOK
<1>2. PICK p \in Publishers :
        /\ event[p] = e
        /\ emitting[p] = "commit" \/ (emitting[p] = "publish" /\ Contains(todo[p], o))
  BY DEF OnItsWay
<1>3. ASSUME event'[p] = event[p], emitting'[p] = emitting[p], todo'[p] = todo[p]
      PROVE  OnItsWay(e, o)'
  BY <1>2, <1>3 DEF OnItsWay
<1>4. ASSUME NEW q \in Publishers, CommitEvent(q) PROVE OnItsWay(e, o)'
  <2>1. q # p
    BY <1>2, <1>4 DEF CommitEvent
  <2> QED BY <1>1, <1>3, <1>4, <2>1 DEF CommitEvent
<1>5. ASSUME NEW q \in Publishers, NEW rest \in Seq(Observers), GoOn(q, rest),
             q # p \/ Contains(rest, o)
      PROVE  OnItsWay(e, o)'
  <2>1. CASE q # p
    BY <1>1, <1>3, <1>5, <2>1 DEF GoOn
  <2>2. CASE q = p
    <3>1. Contains(rest, o) /\ rest # <<>>
      BY <1>5, <2>2, EmptyContains
    <3>2. todo'[p] = rest /\ emitting'[p] = "publish" /\ event'[p] = event[p]
      BY <1>1, <1>5, <2>2, <3>1 DEF GoOn
    <3> QED BY <1>2, <3>1, <3>2 DEF OnItsWay
  <2> QED BY <2>1, <2>2
<1>6. ASSUME NEW q \in Publishers, StartPublish(q) PROVE OnItsWay(e, o)'
  <2>1. PICK order \in SetToSeqs(subs) : GoOn(q, order)
    BY <1>6 DEF StartPublish
  <2> QED BY <1>5, <2>1, Orders
<1>7. ASSUME NEW q \in Publishers, Put(q)
      PROVE  OnItsWay(e, o)' \/ (Gets(o, q) /\ event[q] = e)
  <2>1. /\ todo[q] # <<>> /\ todo[q] \in Seq(Observers) /\ emitting[q] = "publish"
        /\ GoOn(q, Tail(todo[q])) /\ Tail(todo[q]) \in Seq(Observers)
    <3>1. todo[q] # <<>> /\ todo[q] \in Seq(Observers) /\ emitting[q] = "publish"
      BY <1>7, PutStep
    <3> QED BY <1>7, <3>1, TailOf DEF Put
  <2>2. CASE q # p
    BY <1>5, <2>1, <2>2
  <2>3. CASE q = p
    <3>1. Contains(todo[p], o)
      BY <1>2, <2>1, <2>3
    <3>2. o = Head(todo[p]) \/ Contains(Tail(todo[p]), o)
      BY <2>1, <2>3, <3>1, TailContains
    <3>3. CASE o = Head(todo[p])
      <4>1. event[p] \in Events /\ queue'[o] = Append(queue[o], event[p])
        BY <1>7, <2>3, <3>3, PutStep
      <4>2. Same(o) => queue'[o] = queue[o]
        BY DEF Same
      <4>3. queue[o] # Append(queue[o], event[p])
        <5>1. queue[o] \in Seq(Events)
          BY <1>1, StreamTypes
        <5>2. Len(queue[o]) \in Nat /\ Len(Append(queue[o], event[p])) = Len(queue[o]) + 1
          BY <4>1, <5>1, LenProperties, AppendProperties
        <5> QED BY <5>2
      <4> QED BY <1>1, <1>2, <1>7, <2>3, <4>1, <4>2, <4>3, EventIsPut
    <3> QED BY <1>5, <2>1, <2>3, <3>2, <3>3
  <2> QED BY <2>2, <2>3
<1>8. ASSUME NEW q \in Observers, Subscribe(q) \/ HandlerStep(q) \/ Disconnect(q)
      PROVE  OnItsWay(e, o)'
  <2>1. UNCHANGED publisherVars
    BY <1>8 DEF Subscribe, HandlerStep, ReadRows, SendRow, EndReplay, Take, Forward,
                Disconnect
  <2> QED BY <1>3, <2>1 DEF publisherVars
<1>9. CASE UNCHANGED vars
  BY <1>3, <1>9 DEF vars, publisherVars
<1> QED BY <1>4, <1>6, <1>7, <1>8, <1>9 DEF Next, PublisherStep

(* What is heard stays heard, unless the handler ends.                     *)
LEMMA HeardStep ==
  ASSUME TypeInv, [Next]_vars, NEW o \in Observers, NEW e
  PROVE  /\ Contains(Stream(o), e) => Contains(Stream(o)', e) \/ Loses(o)
         /\ \A p \in Publishers : Gets(o, p) => Contains(Stream(o)', event[p])
         /\ Joins(o) /\ e \in 1..Len(Rows) => Contains(Stream(o)', e)
<1>1. Stream(o) \in Seq(Events)
  BY StreamTypes
<1>2. ASSUME NEW p \in Publishers, Gets(o, p), NEW f
      PROVE  Contains(Stream(o)', f) <=> Contains(Stream(o), f) \/ f = event[p]
  <2>1. event[p] \in Events /\ Stream(o)' = Append(Stream(o), event[p])
    BY <1>2 DEF Gets
  <2>2. Contains(Append(Stream(o), event[p]), f)
          <=> Contains(Stream(o), f) \/ f = event[p]
    BY <1>1, <2>1, AppendContains
  <2> QED BY <2>1, <2>2
<1>3. ASSUME Joins(o)
      PROVE  Contains(Stream(o)', e) <=> Contains(Rows, e) \/ Contains(Stream(o), e)
  BY <1>1, <1>3, RowsType, ConcatContains DEF Joins
<1>4. e \in 1..Len(Rows) => Contains(Rows, e)
  BY RowsType DEF Contains
<1> QED BY <1>2, <1>3, <1>4, StreamStep

LEMMA MissStep == TypeInv /\ MissInv /\ [Next]_vars => MissInv'
<1> SUFFICES ASSUME TypeInv, MissInv, [Next]_vars, NEW o \in Observers,
                    NEW e \in 1..Len(log')
             PROVE  /\ handler'[o] \in {"query", "replay", "live"} /\ e > joined'[o]
                         => Contains(Stream(o)', e) \/ OnItsWay(e, o)'
                    /\ handler'[o] \in {"replay", "live"} /\ e <= joined'[o]
                         /\ e <= ReplayLimit => Contains(Stream(o)', e)
  BY DEF MissInv
<1>1. /\ Len(log) \in Nat /\ joined[o] \in Nat /\ joined[o] <= Len(log)
      /\ ReplayLimit \in Nat
      /\ handler[o] \in {"query", "replay", "live"} => o \in subs
  BY LenProperties, EventBounds DEF TypeInv, TypeOK, HandlerInv
<1>2. /\ handler'[o] \in {"query", "replay", "live"} => ~Loses(o)
      /\ Contains(Stream(o), e) => Contains(Stream(o)', e) \/ Loses(o)
      /\ \A p \in Publishers : Gets(o, p) => Contains(Stream(o)', event[p])
  BY HandlerMoves, HeardStep
<1>3. \/ e \in 1..Len(log)
      \/ \E p \in Publishers : event'[p] = e /\ emitting'[p] = "commit"
  <2>1. CASE log' = log
    BY <2>1
  <2>2. ASSUME NEW p \in Publishers, CommitEvent(p)
        PROVE  e \in 1..Len(log) \/ (event'[p] = e /\ emitting'[p] = "commit")
    <3>1. Len(log') = Len(log) + 1 /\ event'[p] = Len(log) + 1 /\ emitting'[p] = "commit"
      BY <2>2, CommitStep
    <3> QED BY <1>1, <3>1
  <2> QED BY <2>1, <2>2, HandlerMoves
<1>4. ASSUME handler'[o] \in {"query", "replay", "live"}, e > joined'[o]
      PROVE  Contains(Stream(o)', e) \/ OnItsWay(e, o)'
  <2>1. CASE e \in 1..Len(log)
    <3>1. handler[o] \in {"query", "replay", "live"} /\ joined'[o] = joined[o]
      BY <1>1, <1>4, <2>1, HandlerMoves
    <3>2. Contains(Stream(o), e) \/ OnItsWay(e, o)
      BY <1>4, <2>1, <3>1 DEF MissInv
    <3> QED BY <1>1, <1>2, <1>4, <3>1, <3>2, WayStep
  <2>2. CASE \E p \in Publishers : event'[p] = e /\ emitting'[p] = "commit"
    BY <2>2 DEF OnItsWay
  <2> QED BY <1>3, <2>1, <2>2
<1>5. ASSUME handler'[o] \in {"replay", "live"}, e <= joined'[o], e <= ReplayLimit
      PROVE  Contains(Stream(o)', e)
  <2>1. joined'[o] = joined[o] /\ e \in 1..Len(log)
    <3>1. joined'[o] = joined[o]
      BY <1>5, HandlerMoves
    <3> QED BY <1>1, <1>5, <3>1
  <2>2. CASE handler[o] \in {"replay", "live"}
    <3>1. Contains(Stream(o), e)
      BY <1>5, <2>1, <2>2 DEF MissInv
    <3> QED BY <1>2, <1>5, <3>1
  <2>3. CASE ReadRows(o)
    <3>1. Joins(o) /\ e \in 1..Len(Rows)
      BY <1>1, <1>5, <2>1, <2>3, RowsAreRead, RowsType
    <3> QED BY <3>1, HeardStep
  <2> QED BY <1>5, <2>2, <2>3, HandlerMoves
<1> QED BY <1>4, <1>5
-----------------------------------------------------------------------------
(* The events that were published to o and not yet forwarded.              *)
Live(o) == holding[o] \o queue[o]

(* p still has to put its event into o's queue.                            *)
Owes(p, o) == emitting[p] = "commit" \/ Contains(todo[p], o)

(* An event is put into a queue once, and streams hold committed events.   *)
OnceInv ==
  \A o \in Observers :
    /\ NoRepeat(Live(o))
    /\ \A p \in Publishers : Owes(p, o) => ~Contains(Live(o), event[p])

KnownInv ==
  \A o \in Observers : \A e \in Events : Contains(Stream(o), e) => e \in 1..Len(log)

(* Nobody hears of an event before an earlier one of the same publisher    *)
(* that it hears of at all.                                                *)
InOrder(s) ==
  \A i, j \in 1..Len(s) :
    s[i] < s[j] /\ log[s[i]] = log[s[j]] => \E k \in 1..(j - 1) : s[k] = s[i]

OrderInv == \A o \in Observers : InOrder(Stream(o))

(* The inductive invariant.                                                *)
IInv == TypeInv /\ MissInv /\ KnownInv /\ OnceInv /\ OrderInv
-----------------------------------------------------------------------------
LEMMA Elements ==
  ASSUME NEW S, NEW s \in Seq(S), NEW e
  PROVE  /\ Contains(s, e) => e \in S
         /\ \A i \in 1..Len(s) : Contains(s, s[i]) /\ s[i] \in S
<1>1. \A i \in 1..Len(s) : s[i] \in S
  BY ElementOfSeq
<1> QED BY <1>1 DEF Contains

LEMMA KnownStep == TypeInv /\ KnownInv /\ [Next]_vars => KnownInv'
<1> SUFFICES ASSUME TypeInv, KnownInv, [Next]_vars, NEW o \in Observers,
                    NEW e \in Events, Contains(Stream(o)', e)
             PROVE  e \in 1..Len(log')
  BY DEF KnownInv, Events
<1>1. Len(log) \in Nat /\ ReplayLimit \in Nat
  BY LenProperties, EventBounds DEF TypeInv, TypeOK
<1>2. 1..Len(log) \subseteq 1..Len(log')
  <2>1. CASE log' = log
    BY <2>1
  <2>2. ASSUME NEW p \in Publishers, CommitEvent(p) PROVE 1..Len(log) \subseteq 1..Len(log')
    <3>1. Len(log') = Len(log) + 1
      BY <2>2, CommitStep
    <3> QED BY <1>1, <3>1
  <2> QED BY <2>1, <2>2, HandlerMoves
<1>3. Stream(o) \in Seq(Events)
  BY StreamTypes
<1>4. Contains(Stream(o), e) => e \in 1..Len(log)
  BY DEF KnownInv
<1>5. CASE Stream(o)' = Stream(o)
  BY <1>2, <1>4, <1>5
<1>6. CASE Joins(o)
  <2>1. Contains(Rows, e) \/ Contains(Stream(o), e)
    BY <1>3, <1>6, RowsType, ConcatContains DEF Joins
  <2>2. Contains(Rows, e) => e \in 1..Len(log)
    BY <1>1, RowsType DEF Contains
  <2> QED BY <1>2, <1>4, <2>1, <2>2
<1>7. ASSUME NEW p \in Publishers, Gets(o, p) PROVE e \in 1..Len(log')
  <2>1. event[p] \in Events /\ Stream(o)' = Append(Stream(o), event[p]) /\ Put(p)
    BY <1>7 DEF Gets
  <2>2. Contains(Append(Stream(o), event[p]), e)
          <=> Contains(Stream(o), e) \/ e = event[p]
    BY <1>3, <2>1, AppendContains
  <2>3. event[p] \in 1..Len(log)
    <3>1. emitting[p] # "no"
      BY <2>1, PutStep
    <3> QED BY <3>1 DEF TypeInv, PublisherInv
  <2> QED BY <1>2, <1>4, <2>1, <2>2, <2>3
<1>8. CASE Loses(o)
  <2>1. PICK h \in Events :
          /\ sent[o] \in Seq(Events) /\ queue[o] \in Seq(Events)
          /\ Stream(o) = Append(sent[o], h) \o queue[o]
          /\ Stream(o)' = sent[o] \o queue[o]
    BY <1>8 DEF Loses
  <2>2. Append(sent[o], h) \in Seq(Events)
    BY <2>1, AppendProperties
  <2>3. Contains(sent[o], e) \/ Contains(queue[o], e)
    BY <2>1, ConcatContains
  <2>4. Contains(Append(sent[o], h), e) \/ Contains(queue[o], e)
    BY <2>1, <2>3, AppendContains
  <2>5. Contains(Append(sent[o], h) \o queue[o], e)
    BY <2>1, <2>2, <2>4, ConcatContains
  <2> QED BY <1>2, <1>4, <2>1, <2>5
<1> QED BY <1>5, <1>6, <1>7, <1>8, StreamStep
-----------------------------------------------------------------------------
(* What a step does to the events o has not been forwarded yet.            *)
LEMMA LiveTypes ==
  ASSUME TypeInv, NEW o \in Observers
  PROVE  Live(o) \in Seq(Events) /\ holding[o] \in Seq(Events) /\ queue[o] \in Seq(Events)
  BY StreamTypes, ConcatProperties DEF Live

LEMMA LiveStep ==
  ASSUME TypeInv, [Next]_vars, NEW o \in Observers
  PROVE  \/ Live(o)' = Live(o)
         \/ \E p \in Publishers : Gets(o, p) /\ Live(o)' = Append(Live(o), event[p])
         \/ Forward(o) /\ Live(o) # <<>> /\ Live(o)' = Tail(Live(o))
<1>1. Same(o) => Live(o)' = Live(o)
  BY DEF Same, Live
<1>2. /\ queue \in [Observers -> Seq(Events)] /\ queue[o] \in Seq(Events)
      /\ holding \in [Observers -> {<<>>} \union {<<e>> : e \in Events}]
      /\ handler \in [Observers -> Handlers]
      /\ sent \in [Observers -> Seq(Events)] /\ replay \in [Observers -> Seq(Events)]
      /\ <<>> \in Seq(Events)
  BY StreamTypes DEF TypeInv, TypeOK
<1>3. ASSUME NEW p \in Publishers, CommitEvent(p) \/ StartPublish(p) PROVE Same(o)
  BY <1>3 DEF CommitEvent, StartPublish, observerVars, Same
<1>4. ASSUME NEW p \in Publishers, Put(p)
      PROVE  Same(o) \/ (Gets(o, p) /\ Live(o)' = Append(Live(o), event[p]))
  <2>1. /\ event[p] \in Events /\ UNCHANGED holding
        /\ o = Head(todo[p]) => queue'[o] = Append(queue[o], event[p])
    BY <1>4, PutStep DEF Put, observerVars
  <2>2. CASE Gets(o, p)
    <3>1. Live(o)' = holding[o] \o Append(queue[o], event[p])
      BY <2>1, <2>2 DEF Live, Gets
    <3>2. /\ holding[o] \in Seq(Events) /\ queue[o] \in Seq(Events)
          /\ event[p] \in Events
      BY <2>1, LiveTypes
    <3>3. \A s, t \in Seq(Events), e \in Events :
            s \o Append(t, e) = Append(s \o t, e)
      BY AppendMoves
    <3>4. holding[o] \o Append(queue[o], event[p])
            = Append(holding[o] \o queue[o], event[p])
      BY <3>2, <3>3
    <3> QED BY <2>2, <3>1, <3>4 DEF Live
  <2> QED BY <1>4, <2>2, EventIsPut
<1>5. ASSUME NEW q \in Observers,
             Subscribe(q) \/ EndReplay(q) \/ Disconnect(q) \/ ReadRows(q) \/ SendRow(q)
      PROVE  Live(o)' = Live(o)
  BY <1>5 DEF Subscribe, EndReplay, Disconnect, ReadRows, SendRow, Live
<1>6. ASSUME NEW q \in Observers, Take(q) \/ Forward(q), q # o PROVE Live(o)' = Live(o)
  BY <1>2, <1>6 DEF Take, Forward, Live
<1>7. CASE Take(o)
  <2>1. holding[o] = <<>> /\ queue[o] # <<>>
        /\ holding'[o] = <<Head(queue[o])>> /\ queue'[o] = Tail(queue[o])
    BY <1>2, <1>7 DEF Take
  <2>2. Head(queue[o]) \in Events
    BY <1>2, <2>1, TailOf
  <2>3. Append(<<>>, Head(queue[o])) = <<>> \o <<Head(queue[o])>>
        /\ <<Head(queue[o])>> \in Seq(Events)
    BY <1>2, <2>2, AppendIsConcat
  <2>4. <<>> \o <<Head(queue[o])>> = <<Head(queue[o])>>
    BY <2>3, ConcatEmptySeq
  <2>5. <<Head(queue[o])>> \o Tail(queue[o]) = <<>> \o queue[o]
    BY <1>2, <2>1, <2>3, <2>4, HeadMoves
  <2> QED BY <2>1, <2>5 DEF Live
<1>8. CASE Forward(o)
  <2>1. holding[o] # <<>> /\ holding'[o] = <<>> /\ queue' = queue
    BY <1>2, <1>8 DEF Forward
  <2>2. PICK h \in Events : holding[o] = <<h>>
    BY <1>2, <2>1
  <2>3. Live(o)' = queue[o]
    BY <1>2, <2>1, ConcatEmptySeq DEF Live
  <2>4. <<h>> \in Seq(Events) /\ Len(<<h>>) = 1
    BY <2>2
  <2>5. /\ Live(o) \in Seq(Events) /\ Len(Live(o)) = 1 + Len(queue[o])
        /\ Len(queue[o]) \in Nat
        /\ \A i \in 1..(1 + Len(queue[o])) :
             Live(o)[i] = IF i <= 1 THEN <<h>>[i] ELSE queue[o][i - 1]
    BY <1>2, <2>2, <2>4, ConcatProperties, LenProperties DEF Live
  <2>6. Live(o) # <<>>
    BY <2>5
  <2>7. /\ Tail(Live(o)) \in Seq(Events) /\ Len(Tail(Live(o))) = Len(queue[o])
        /\ \A i \in 1..Len(queue[o]) : Tail(Live(o))[i] = Live(o)[i + 1]
    <3>1. /\ Tail(Live(o)) \in Seq(Events) /\ Len(Tail(Live(o))) = Len(Live(o)) - 1
          /\ \A i \in 1..Len(Tail(Live(o))) : Tail(Live(o))[i] = Live(o)[i + 1]
      BY <2>5, <2>6, TailOf
    <3>2. Len(Live(o)) - 1 = Len(queue[o])
      BY <2>5
    <3> QED BY <3>1, <3>2
  <2>8. \A i \in 1..Len(queue[o]) : Tail(Live(o))[i] = queue[o][i]
    BY <2>5, <2>7
  <2>9. Tail(Live(o)) = queue[o]
    BY <1>2, <2>7, <2>8, SeqEqual
  <2> QED BY <1>8, <2>3, <2>6, <2>9
<1>9. UNCHANGED vars => Same(o)
  BY DEF vars, observerVars, Same
<1> QED
  BY <1>1, <1>3, <1>4, <1>5, <1>6, <1>7, <1>8, <1>9
     DEF Next, PublisherStep, HandlerStep

LEMMA NoRepeatAppend ==
  ASSUME NEW S, NEW s \in Seq(S), NEW e \in S, NoRepeat(s), ~Contains(s, e)
  PROVE  NoRepeat(Append(s, e))
<1>1. /\ Len(s) \in Nat /\ Len(Append(s, e)) = Len(s) + 1
      /\ \A i \in 1..Len(s) : Append(s, e)[i] = s[i]
      /\ Append(s, e)[Len(s) + 1] = e
  BY LenProperties, AppendProperties
<1>2. \A i \in 1..Len(s) : s[i] # e
  BY DEF Contains
<1> QED BY <1>1, <1>2 DEF NoRepeat

LEMMA NoRepeatTail ==
  ASSUME NEW S, NEW s \in Seq(S), s # <<>>, NoRepeat(s)
  PROVE  NoRepeat(Tail(s)) /\ ~Contains(Tail(s), Head(s))
<1>1. /\ Len(s) \in Nat \ {0} /\ Head(s) = s[1] /\ Len(Tail(s)) = Len(s) - 1
      /\ \A i \in 1..Len(Tail(s)) : Tail(s)[i] = s[i + 1]
  BY TailOf
<1>2. NoRepeat(Tail(s))
  BY <1>1 DEF NoRepeat
<1>3. \A i \in 1..Len(Tail(s)) : Tail(s)[i] # Head(s)
  BY <1>1 DEF NoRepeat
<1> QED BY <1>2, <1>3 DEF Contains

(* Who owes an event after a step owed it before, or has just committed.   *)
LEMMA OwesStep ==
  ASSUME TypeInv, [Next]_vars, NEW o \in Observers, NEW p \in Publishers, Owes(p, o)'
  PROVE  \/ CommitEvent(p)
         \/ /\ Owes(p, o) /\ event'[p] = event[p] /\ ~Gets(o, p)
            /\ emitting[p] # "no"
<1>1. /\ emitting \in [Publishers -> {"no", "commit", "publish"}]
      /\ event \in [Publishers -> Events \union {0}]
      /\ todo \in [Publishers -> Seq(Observers)]
  BY DEF TypeInv, TypeOK
<1>2. /\ \A q \in Publishers : todo[q] = <<>> <=> emitting[q] # "publish"
      /\ \A q \in Publishers : NoRepeat(todo[q])
  BY DEF TypeInv, PublisherInv
<1>3. Owes(p, o) => emitting[p] # "no"
  BY <1>1, <1>2, EmptyContains DEF Owes
<1>4. Gets(o, p) => Put(p) /\ o = Head(todo[p])
  BY DEF Gets
<1>5. ASSUME NEW q \in Publishers, CommitEvent(q), q # p
      PROVE  Owes(p, o) /\ event'[p] = event[p]
  BY <1>1, <1>5 DEF CommitEvent, Owes
<1>6. ASSUME NEW q \in Publishers, NEW rest \in Seq(Observers), GoOn(q, rest),
             emitting[q] # "no"
      PROVE  /\ p # q => Owes(p, o) /\ event'[p] = event[p]
             /\ p = q => Contains(rest, o) /\ event'[p] = event[p]
  <2>1. CASE p # q
    BY <1>1, <1>6, <2>1 DEF GoOn, Owes
  <2>2. CASE p = q
    <3>1. /\ todo'[p] = rest /\ emitting'[p] # "commit"
          /\ event'[p] = IF rest = <<>> THEN 0 ELSE event[p]
      BY <1>1, <1>6, <2>2 DEF GoOn
    <3>2. Contains(rest, o)
      BY <3>1 DEF Owes
    <3> QED BY <2>2, <3>1, <3>2, EmptyContains
  <2> QED BY <2>1, <2>2
<1>7. ASSUME NEW q \in Publishers, StartPublish(q)
      PROVE  Owes(p, o) /\ event'[p] = event[p]
  <2>1. PICK order \in SetToSeqs(subs) : GoOn(q, order)
    BY <1>7 DEF StartPublish
  <2>2. emitting[q] = "commit" /\ order \in Seq(Observers)
    BY <1>7, Orders DEF StartPublish
  <2> QED BY <1>6, <2>1, <2>2 DEF Owes
<1>8. ASSUME NEW q \in Publishers, Put(q)
      PROVE  Owes(p, o) /\ event'[p] = event[p] /\ (p = q => o # Head(todo[p]))
  <2>1. /\ todo[q] # <<>> /\ todo[q] \in Seq(Observers) /\ emitting[q] = "publish"
    BY <1>8, PutStep
  <2>2. GoOn(q, Tail(todo[q])) /\ Tail(todo[q]) \in Seq(Observers)
    BY <1>8, <2>1, TailOf DEF Put
  <2>3. ~Contains(Tail(todo[q]), Head(todo[q]))
    BY <1>2, <2>1, NoRepeatTail
  <2>4. p = q => Contains(Tail(todo[p]), o) /\ event'[p] = event[p]
    BY <1>6, <2>1, <2>2
  <2>5. p = q => Contains(todo[p], o)
    BY <2>1, <2>4, TailContains
  <2>6. p # q => Owes(p, o) /\ event'[p] = event[p]
    BY <1>6, <2>1, <2>2
  <2> QED BY <2>3, <2>4, <2>5, <2>6 DEF Owes
<1>9. ASSUME NEW q \in Observers, Subscribe(q) \/ HandlerStep(q) \/ Disconnect(q)
      PROVE  UNCHANGED publisherVars
  BY <1>9 DEF Subscribe, HandlerStep, ReadRows, SendRow, EndReplay, Take, Forward,
              Disconnect
<1>10. UNCHANGED publisherVars => Owes(p, o) /\ event'[p] = event[p]
  BY DEF publisherVars, Owes
<1>11. Gets(o, p) => UNCHANGED <<replay, sent>> /\ o = Head(todo[p]) /\ Put(p)
  BY DEF Gets, Put, observerVars
<1>12. ASSUME Put(p) PROVE o # Head(todo[p])
  BY <1>8, <1>12
<1>13. ~Gets(o, p)
  BY <1>4, <1>12
<1>14. UNCHANGED vars => UNCHANGED publisherVars
  BY DEF vars
<1> QED
  BY <1>3, <1>5, <1>7, <1>8, <1>9, <1>10, <1>13, <1>14 DEF Next, PublisherStep

LEMMA OnceStep ==
  TypeInv /\ KnownInv /\ OnceInv /\ [Next]_vars => OnceInv'
<1> SUFFICES ASSUME TypeInv, KnownInv, OnceInv, [Next]_vars, NEW o \in Observers
             PROVE  /\ NoRepeat(Live(o)')
                    /\ \A p \in Publishers :
                         Owes(p, o)' => ~Contains(Live(o)', event'[p])
  BY DEF OnceInv, NoRepeat, Contains
<1>1. /\ Live(o) \in Seq(Events) /\ NoRepeat(Live(o))
      /\ \A p \in Publishers : Owes(p, o) => ~Contains(Live(o), event[p])
  BY LiveTypes DEF OnceInv
<1>2. ASSUME NEW p \in Publishers, CommitEvent(p)
      PROVE  Live(o)' = Live(o) /\ ~Contains(Live(o)', event'[p])
  <2>1. Live(o)' = Live(o)
    BY <1>2 DEF CommitEvent, observerVars, Live
  <2>2. event'[p] = Len(log) + 1 /\ Len(log) \in Nat
    BY <1>2, CommitStep
  <2>3. ASSUME NEW e, Contains(Live(o), e) PROVE e \in 1..Len(log)
    <3>1. holding[o] \in Seq(Events) /\ queue[o] \in Seq(Events) /\ e \in Events
      BY <1>1, <2>3, LiveTypes, Elements
    <3>2. Contains(holding[o], e) \/ Contains(queue[o], e)
      BY <2>3, <3>1, ConcatContains DEF Live
    <3> DEFINE s == sent[o] \o replay[o]
    <3>3. s \in Seq(Events) /\ s \o holding[o] \in Seq(Events)
      BY StreamTypes
    <3>4. Stream(o) = (s \o holding[o]) \o queue[o]
      BY DEF Stream
    <3> HIDE DEF s
    <3>5. Contains(holding[o], e) => Contains(s \o holding[o], e)
      BY <3>1, <3>3, ConcatContains
    <3>6. Contains((s \o holding[o]) \o queue[o], e)
      BY <3>1, <3>2, <3>3, <3>5, ConcatContains
    <3> QED BY <3>1, <3>4, <3>6 DEF KnownInv
  <2>4. ~(Len(log) + 1 \in 1..Len(log))
    BY <2>2
  <2> QED BY <2>1, <2>2, <2>3, <2>4
<1>3. ASSUME NEW p \in Publishers, Owes(p, o)' PROVE ~Contains(Live(o)', event'[p])
  <2>1. CASE CommitEvent(p)
    BY <1>2, <2>1
  <2>2. CASE Owes(p, o) /\ event'[p] = event[p] /\ ~Gets(o, p) /\ emitting[p] # "no"
    <3>1. ~Contains(Live(o), event[p])
      BY <1>1, <2>2
    <3>2. CASE Live(o)' = Live(o)
      BY <2>2, <3>1, <3>2
    <3>3. ASSUME NEW q \in Publishers, Gets(o, q), Live(o)' = Append(Live(o), event[q])
          PROVE  ~Contains(Live(o)', event'[p])
      <4>1. event[q] \in Events /\ emitting[q] # "no" /\ p # q
        BY <2>2, <3>3, PutStep DEF Gets
      <4>2. log[event[q]] = q /\ log[event[p]] = p
        BY <2>2, <4>1 DEF TypeInv, PublisherInv
      <4>3. Contains(Append(Live(o), event[q]), event[p])
              <=> Contains(Live(o), event[p]) \/ event[p] = event[q]
        BY <1>1, <4>1, AppendContains
      <4> QED BY <2>2, <3>1, <3>3, <4>1, <4>2, <4>3
    <3>4. CASE Live(o) # <<>> /\ Live(o)' = Tail(Live(o))
      BY <1>1, <2>2, <3>1, <3>4, TailContains
    <3> QED BY <3>2, <3>3, <3>4, LiveStep
  <2> QED BY <1>3, <2>1, <2>2, OwesStep
<1>4. NoRepeat(Live(o)')
  <2>1. ASSUME NEW q \in Publishers, Gets(o, q), Live(o)' = Append(Live(o), event[q])
        PROVE  NoRepeat(Live(o)')
    <3>1. /\ event[q] \in Events /\ todo[q] # <<>> /\ todo[q] \in Seq(Observers)
          /\ o = Head(todo[q])
      BY <2>1, PutStep DEF Gets
    <3>2. Contains(todo[q], o)
      BY <3>1, TailContains
    <3>3. ~Contains(Live(o), event[q])
      BY <1>1, <3>2 DEF Owes
    <3> QED BY <1>1, <2>1, <3>1, <3>3, NoRepeatAppend
  <2>2. CASE Live(o) # <<>> /\ Live(o)' = Tail(Live(o))
    BY <1>1, <2>2, NoRepeatTail
  <2> QED BY <1>1, <2>1, <2>2, LiveStep
<1> QED BY <1>3, <1>4
-----------------------------------------------------------------------------
LEMMA ConcatAt ==
  ASSUME NEW S, NEW s \in Seq(S), NEW t \in Seq(S)
  PROVE  /\ Len(s \o t) = Len(s) + Len(t)
         /\ \A i \in 1..Len(s) : (s \o t)[i] = s[i]
         /\ \A i \in 1..Len(t) : (s \o t)[Len(s) + i] = t[i]
<1>1. /\ Len(s) \in Nat /\ Len(t) \in Nat /\ Len(s \o t) = Len(s) + Len(t)
      /\ \A i \in 1 .. Len(s) + Len(t) : (s \o t)[i] =
           IF i <= Len(s) THEN s[i] ELSE t[i - Len(s)]
  BY LenProperties, ConcatProperties
<1>2. ASSUME NEW i \in 1..Len(t) PROVE (s \o t)[Len(s) + i] = t[i]
  <2>1. /\ Len(s) + i \in 1 .. Len(s) + Len(t) /\ ~(Len(s) + i <= Len(s))
        /\ (Len(s) + i) - Len(s) = i
    BY <1>1
  <2> QED BY <1>1, <2>1
<1> QED BY <1>1, <1>2

(* What keeps a stream in order.                                           *)
LEMMA OrderGrows ==
  ASSUME TypeInv, [Next]_vars, NEW s \in Seq(Events), InOrder(s),
         \A e \in Events : Contains(s, e) => e \in 1..Len(log)
  PROVE  \A i, j \in 1..Len(s) :
           s[i] < s[j] /\ log'[s[i]] = log'[s[j]] => \E k \in 1..(j - 1) : s[k] = s[i]
<1>1. \A i \in 1..Len(s) : s[i] \in 1..Len(log)
  BY Elements
<1>2. \A e \in 1..Len(log) : log'[e] = log[e]
  <2>1. ASSUME NEW p \in Publishers, CommitEvent(p)
        PROVE  \A e \in 1..Len(log) : log'[e] = log[e]
    BY <2>1, CommitStep
  <2>2. log' = log \/ \E p \in Publishers : CommitEvent(p)
    <3>1. \A o \in Observers : log' = log \/ \E p \in Publishers : CommitEvent(p)
      BY HandlerMoves
    <3>2. CASE Observers = {}
      BY <3>2 DEF Next, PublisherStep, StartPublish, Put, vars, publisherVars
    <3> QED BY <3>1, <3>2
  <2> QED BY <2>1, <2>2
<1> QED BY <1>1, <1>2 DEF InOrder

LEMMA OrderAppends ==
  ASSUME NEW s \in Seq(Events), NEW e \in Events, InOrder(s),
         \A f \in Events : Contains(s, f) /\ e < f => log[f] # log[e]
  PROVE  InOrder(Append(s, e))
<1> DEFINE t == Append(s, e)
<1>1. /\ Len(s) \in Nat /\ Len(t) = Len(s) + 1
      /\ \A i \in 1..Len(s) : t[i] = s[i]
      /\ t[Len(s) + 1] = e
  BY LenProperties, AppendProperties
<1>2. e \in Nat /\ ~(e < e)
  BY EventBounds DEF Events
<1>3. \A i \in 1..Len(s) : s[i] \in Events /\ Contains(s, s[i])
  BY Elements
<1> HIDE DEF t
<1> SUFFICES ASSUME NEW i \in 1..Len(t), NEW j \in 1..Len(t),
                    t[i] < t[j], log[t[i]] = log[t[j]]
             PROVE  \E k \in 1..(j - 1) : t[k] = t[i]
  BY DEF InOrder, t
<1>4. CASE i = Len(s) + 1
  <2>1. j \in 1..Len(s)
    BY <1>1, <1>4, <1>2
  <2> QED BY <1>1, <1>3, <1>4, <2>1
<1>5. CASE i \in 1..Len(s) /\ j = Len(s) + 1
  <2>1. i \in 1..(j - 1)
    BY <1>1, <1>5
  <2> QED BY <2>1
<1>6. CASE i \in 1..Len(s) /\ j \in 1..Len(s)
  <2>1. PICK k \in 1..(j - 1) : s[k] = s[i]
    BY <1>1, <1>6 DEF InOrder
  <2>2. k \in 1..Len(s)
    BY <1>1, <1>6
  <2> QED BY <1>1, <1>6, <2>1, <2>2
<1> QED BY <1>1, <1>4, <1>5, <1>6

(* The rows come first, and in the order of the table.                     *)
LEMMA OrderJoins ==
  ASSUME TypeInv, NEW s \in Seq(Events), InOrder(s)
  PROVE  InOrder(Rows \o s)
<1> DEFINE t == Rows \o s
           n == Len(Rows)
<1>1. /\ n \in Nat /\ Len(s) \in Nat /\ Len(t) = n + Len(s)
      /\ \A i \in 1..(n + Len(s)) : t[i] = IF i <= n THEN Rows[i] ELSE s[i - n]
      /\ \A i \in 1..n : Rows[i] = i
  BY RowsType, LenProperties, ConcatProperties
<1> HIDE DEF t, n
<1>2. \A i \in 1..n : i \in 1..Len(t) /\ t[i] = i
  BY <1>1
<1>3. \A i \in 1..Len(s) : s[i] \in Nat /\ s[i] >= 1
  <2>1. \A i \in 1..Len(s) : s[i] \in Events
    BY Elements
  <2> QED BY <2>1, EventBounds DEF Events
<1> SUFFICES ASSUME NEW i \in 1..Len(t), NEW j \in 1..Len(t),
                    t[i] < t[j], log[t[i]] = log[t[j]]
             PROVE  \E k \in 1..(j - 1) : t[k] = t[i]
  BY DEF InOrder, t
<1>4. t[i] \in Nat /\ t[i] >= 1
  BY <1>1, <1>3
<1>5. CASE j <= n
  <2>1. t[j] = j /\ t[i] \in 1..(j - 1) /\ t[i] \in 1..n
    BY <1>1, <1>2, <1>4, <1>5
  <2>2. t[t[i]] = t[i]
    BY <1>2, <2>1
  <2> QED BY <2>1, <2>2
<1>6. CASE j > n /\ t[i] <= n
  <2>1. t[i] \in 1..n /\ t[i] \in 1..(j - 1)
    BY <1>1, <1>4, <1>6
  <2>2. t[t[i]] = t[i]
    BY <1>2, <2>1
  <2> QED BY <2>1, <2>2
<1>7. CASE j > n /\ t[i] > n
  <2>1. i > n
    BY <1>1, <1>2, <1>7
  <2>2. /\ i - n \in 1..Len(s) /\ j - n \in 1..Len(s)
        /\ t[i] = s[i - n] /\ t[j] = s[j - n]
    BY <1>1, <1>7, <2>1
  <2>3. PICK k \in 1..((j - n) - 1) : s[k] = s[i - n]
    BY <2>2 DEF InOrder
  <2>4. /\ k + n \in 1..(j - 1) /\ k + n \in 1..(n + Len(s)) /\ k + n > n
        /\ (k + n) - n = k
    BY <1>1, <1>7, <2>2, <2>3
  <2>5. t[k + n] = s[k]
    BY <1>1, <2>4
  <2> QED BY <2>2, <2>3, <2>4, <2>5
<1> QED BY <1>1, <1>4, <1>5, <1>6, <1>7

(* An event that does not come again is dropped.                           *)
LEMMA OrderDrops ==
  ASSUME NEW s \in Seq(Events), NEW t \in Seq(Events), NEW h \in Events,
         InOrder(Append(s, h) \o t), ~Contains(t, h)
  PROVE  InOrder(s \o t)
<1> DEFINE u == Append(s, h) \o t
           v == s \o t
           n == Len(s)
           m == Len(t)
<1>1. n \in Nat /\ m \in Nat
  BY LenProperties
<1>2. /\ Append(s, h) \in Seq(Events) /\ Len(Append(s, h)) = n + 1
      /\ \A i \in 1..n : Append(s, h)[i] = s[i]
      /\ Append(s, h)[n + 1] = h
  BY AppendProperties
<1>3. /\ Len(u) = (n + 1) + m
      /\ \A i \in 1..(n + 1) : u[i] = Append(s, h)[i]
      /\ \A i \in 1..m : u[(n + 1) + i] = t[i]
  BY <1>2, ConcatAt
<1>4. /\ Len(v) = n + m
      /\ \A i \in 1..n : v[i] = s[i]
      /\ \A i \in 1..m : v[n + i] = t[i]
  BY ConcatAt
<1>5. u[n + 1] = h /\ \A i \in 1..n : u[i] = s[i]
  <2>1. n + 1 \in 1..(n + 1) /\ \A i \in 1..n : i \in 1..(n + 1)
    BY <1>1
  <2> QED BY <1>2, <1>3, <2>1
<1>6. \A a, b \in 1..((n + 1) + m) : u[a] < u[b] /\ log[u[a]] = log[u[b]] =>
         \E k \in 1..(b - 1) : u[k] = u[a]
  BY <1>3 DEF InOrder
<1> HIDE DEF u, v, n, m
<1>7. \A i \in 1..n : u[i] = v[i]
  BY <1>4, <1>5
<1>8. \A i \in 1..(n + m) : i > n => u[i + 1] = v[i]
  <2> SUFFICES ASSUME NEW i \in 1..(n + m), i > n PROVE u[i + 1] = v[i]
    OBVIOUS
  <2>1. PICK d \in 1..m : i = n + d
    <3>1. i - n \in 1..m /\ i = n + (i - n)
      BY <1>1
    <3> QED BY <3>1
  <2>2. i + 1 = (n + 1) + d
    BY <1>1, <2>1
  <2> QED BY <1>3, <1>4, <2>1, <2>2
<1>9. u[n + 1] = h
  BY <1>5
<1>10. \A i \in 1..(n + m) : i > n => v[i] # h
  <2>1. \A i \in 1..(n + m) : i > n => \E d \in 1..m : v[i] = t[d]
    <3> SUFFICES ASSUME NEW i \in 1..(n + m), i > n
                 PROVE  \E d \in 1..m : v[i] = t[d]
      OBVIOUS
    <3>1. i - n \in 1..m /\ i = n + (i - n)
      BY <1>1
    <3> QED BY <1>4, <3>1
  <2>2. \A i \in 1..m : t[i] # h
    BY DEF Contains, m
  <2> QED BY <2>1, <2>2
<1> SUFFICES ASSUME NEW i \in 1..(n + m), NEW j \in 1..(n + m),
                    v[i] < v[j], log[v[i]] = log[v[j]]
             PROVE  \E k \in 1..(j - 1) : v[k] = v[i]
  BY <1>4 DEF InOrder, v
<1>11. PICK a \in 1..((n + 1) + m) : u[a] = v[i] /\ (a = i \/ a = i + 1)
  BY <1>1, <1>7, <1>8
<1>12. PICK b \in 1..((n + 1) + m) :
         u[b] = v[j] /\ ((b = j /\ j <= n) \/ (b = j + 1 /\ j > n))
  BY <1>1, <1>7, <1>8
<1>13. PICK k \in 1..(b - 1) : u[k] = v[i]
  BY <1>11, <1>12, <1>6
<1>14. CASE k <= n
  <2>1. k \in 1..n /\ k \in 1..(j - 1)
    BY <1>1, <1>12, <1>13, <1>14
  <2> QED BY <1>7, <1>13, <2>1
<1>15. CASE k = n + 1
  <2>1. v[i] = h /\ j > n
    BY <1>1, <1>9, <1>12, <1>13, <1>15
  <2>2. i <= n
    BY <1>1, <1>10, <2>1
  <2>3. i \in 1..(j - 1)
    BY <1>1, <2>1, <2>2
  <2> QED BY <2>3
<1>16. CASE k > n + 1
  <2>1. k - 1 \in 1..(j - 1) /\ k - 1 \in 1..(n + m) /\ k - 1 > n /\ (k - 1) + 1 = k
    BY <1>1, <1>12, <1>13, <1>16
  <2>2. v[k - 1] = u[k]
    BY <1>8, <2>1
  <2> QED BY <1>13, <2>1, <2>2
<1> QED BY <1>1, <1>13, <1>14, <1>15, <1>16

LEMMA OrderStep ==
  TypeInv /\ KnownInv /\ OnceInv /\ OrderInv /\ [Next]_vars => OrderInv'
<1> SUFFICES ASSUME TypeInv, KnownInv, OnceInv, OrderInv, [Next]_vars,
                    NEW o \in Observers
             PROVE  InOrder(Stream(o))'
  BY DEF OrderInv
<1>1. /\ Stream(o) \in Seq(Events) /\ InOrder(Stream(o))
      /\ \A e \in Events : Contains(Stream(o), e) => e \in 1..Len(log)
  BY StreamTypes DEF OrderInv, KnownInv
<1>2. CASE Stream(o)' = Stream(o)
  <2>1. \A i, j \in 1..Len(Stream(o)) :
          Stream(o)[i] < Stream(o)[j] /\ log'[Stream(o)[i]] = log'[Stream(o)[j]] =>
            \E k \in 1..(j - 1) : Stream(o)[k] = Stream(o)[i]
    BY <1>1, OrderGrows
  <2> QED BY <1>2, <2>1 DEF InOrder
<1>3. CASE Joins(o)
  <2>1. log' = log /\ Stream(o)' = Rows \o Stream(o)
    BY <1>3 DEF Joins, ReadRows, publisherVars
  <2> DEFINE t == Rows \o Stream(o)
  <2>2. InOrder(t)
    BY <1>1, OrderJoins
  <2>3. Stream(o)' = t
    BY <2>1
  <2> HIDE DEF t
  <2> QED BY <2>1, <2>2, <2>3 DEF InOrder
<1>4. ASSUME NEW p \in Publishers, Gets(o, p) PROVE InOrder(Stream(o))'
  <2>1. /\ event[p] \in Events /\ Stream(o)' = Append(Stream(o), event[p])
        /\ emitting[p] # "no" /\ log' = log
    BY <1>4, PutStep DEF Gets, Put
  <2>2. /\ log[event[p]] = p
        /\ \A f \in 1..Len(log) : f > event[p] => log[f] # p
    BY <2>1 DEF TypeInv, PublisherInv
  <2>3. \A f \in Events : Contains(Stream(o), f) /\ event[p] < f => log[f] # log[event[p]]
    <3>1. \A f \in Events : event[p] < f <=> f > event[p]
      BY <2>1, EventBounds DEF Events
    <3> QED BY <1>1, <2>2, <3>1
  <2>4. InOrder(Append(Stream(o), event[p]))
    BY <1>1, <2>1, <2>3, OrderAppends
  <2> QED BY <2>1, <2>4 DEF InOrder
<1>5. CASE Loses(o)
  <2>1. PICK h \in Events :
          /\ holding[o] = <<h>>
          /\ Stream(o) = Append(sent[o], h) \o queue[o]
          /\ Stream(o)' = sent[o] \o queue[o]
    BY <1>5 DEF Loses
  <2>2. sent[o] \in Seq(Events) /\ queue[o] \in Seq(Events) /\ log' = log
    BY <1>5 DEF Loses, Forward, publisherVars
  <2>3. ~Contains(queue[o], h)
    <3> SUFFICES ASSUME NEW i \in 1..Len(queue[o]), queue[o][i] = h
                 PROVE  FALSE
      BY DEF Contains
    <3>1. /\ NoRepeat(<<h>> \o queue[o]) /\ <<h>> \in Seq(Events)
          /\ Len(<<h>>) = 1 /\ <<h>>[1] = h
      BY <2>1 DEF OnceInv, Live
    <3>2. /\ Len(<<h>> \o queue[o]) = 1 + Len(queue[o])
          /\ (<<h>> \o queue[o])[1] = h
          /\ (<<h>> \o queue[o])[1 + i] = h
      BY <2>2, <3>1, ConcatAt
    <3>3. /\ 1 \in 1..(1 + Len(queue[o])) /\ 1 + i \in 1..(1 + Len(queue[o]))
          /\ 1 # 1 + i
      BY <2>2, LenProperties
    <3> QED BY <3>1, <3>2, <3>3 DEF NoRepeat
  <2> DEFINE t == sent[o] \o queue[o]
  <2>4. InOrder(t)
    BY <1>1, <2>1, <2>2, <2>3, OrderDrops
  <2>5. Stream(o)' = t
    BY <2>1
  <2> HIDE DEF t
  <2> QED BY <2>2, <2>4, <2>5 DEF InOrder
<1> QED BY <1>2, <1>3, <1>4, <1>5, StreamStep
-----------------------------------------------------------------------------
LEMMA InitInv == Init => IInv
<1> SUFFICES ASSUME Init PROVE IInv
  OBVIOUS
<1>1. /\ <<>> \in Seq(Publishers) /\ <<>> \in Seq(Observers) /\ <<>> \in Seq(Events)
      /\ Len(<<>>) = 0 /\ 0 <= MaxEvents /\ 0 <= QueueSize /\ 0 \in 0..MaxEvents
  BY EventBounds
<1>2. TypeOK
  BY <1>1 DEF Init, TypeOK, Handlers
<1>3. PublisherInv
  BY DEF Init, PublisherInv, NoRepeat
<1>4. HandlerInv
  BY <1>1, FS_EmptySet DEF Init, HandlerInv
<1>5. \A o \in Observers : Stream(o) = <<>> /\ Live(o) = <<>>
  <2>1. <<>> \o <<>> = <<>>
    OBVIOUS
  <2> QED BY <2>1 DEF Init, Stream, Live
<1>6. MissInv /\ KnownInv
  BY <1>1, <1>5, EmptyContains DEF Init, MissInv, KnownInv
<1>7. OnceInv /\ OrderInv
  BY <1>1, <1>5, EmptyContains DEF OnceInv, OrderInv, NoRepeat, InOrder
<1> QED BY <1>2, <1>3, <1>4, <1>6, <1>7 DEF IInv, TypeInv

LEMMA Invariance == Spec => []IInv
<1>1. IInv /\ [Next]_vars => IInv'
  BY TypeStep, MissStep, KnownStep, OnceStep, OrderStep DEF IInv
<1> QED BY InitInv, <1>1, PTL DEF Spec

LEMMA FirstAtExists ==
  ASSUME NEW s \in Seq(Events), NEW e \in Events, Contains(s, e)
  PROVE  /\ FirstAt(s, e) \in 1..Len(s) /\ s[FirstAt(s, e)] = e
         /\ \A j \in 1..(FirstAt(s, e) - 1) : s[j] # e
<1> DEFINE At == {i \in 1..Len(s) : s[i] = e}
<1>1. Len(s) \in Nat
  BY LenProperties
<1>2. At # {} /\ At \subseteq Nat
  BY <1>1 DEF Contains
<1>3. PICK i \in At : \A j \in At : ~(<<j, i>> \in OpToRel(<, Nat))
  BY <1>2, NatLessThanWellFounded, WFMin
<1>4. \A j \in 1..(i - 1) : s[j] # e
  <2> SUFFICES ASSUME NEW j \in 1..(i - 1), s[j] = e PROVE FALSE
    OBVIOUS
  <2>1. i \in 1..Len(s)
    OBVIOUS
  <2>2. j \in At /\ j < i /\ j \in Nat /\ i \in Nat
    BY <1>1, <2>1
  <2> QED BY <1>3, <2>2 DEF OpToRel
<1> QED BY <1>3, <1>4 DEF FirstAt

(* The types: in particular no queue outgrows its maxsize, and the events  *)
(* in queues, replays and sent frames are events that the task can have    *)
(* (EventBus.publish, websocket.task_events_ws).                           *)
THEOREM TypeCorrect == Spec => []TypeOK
<1>1. IInv => TypeOK
  BY DEF IInv, TypeInv
<1> QED BY Invariance, <1>1, PTL

(* An observer whose replay has been read misses no event, except rows     *)
(* beyond the limit of the query that are older than its subscription:     *)
(* because the handler subscribes before it queries, every event is either *)
(* committed by then and in the rows, or put into the queue                *)
(* (websocket.task_events_ws, TaskService.emit).                           *)
THEOREM NothingIsMissed == Spec => []NothingMissed
<1>1. ASSUME IInv PROVE NothingMissed
  <2> SUFFICES ASSUME NEW o \in Observers, handler[o] \in {"replay", "live"},
                      NEW e \in 1..Len(log)
               PROVE  \/ Contains(Stream(o), e)
                      \/ OnItsWay(e, o)
                      \/ ReplayLimit < e /\ e <= joined[o]
    BY DEF NothingMissed
  <2>1. joined[o] \in Nat /\ Len(log) \in Nat /\ ReplayLimit \in Nat
    BY <1>1, LenProperties, EventBounds DEF IInv, TypeInv, TypeOK
  <2>2. /\ e > joined[o] => Contains(Stream(o), e) \/ OnItsWay(e, o)
        /\ e <= joined[o] /\ e <= ReplayLimit => Contains(Stream(o), e)
    BY <1>1 DEF IInv, MissInv
  <2> QED BY <2>1, <2>2
<1> QED BY Invariance, <1>1, PTL

(* An observer first hears of the events of one job in the order the job   *)
(* emitted them, whatever the interleaving of its replay with the commits  *)
(* and puts of all jobs (TaskService.emit, EventBus.publish,               *)
(* websocket.task_events_ws).                                              *)
THEOREM HeardInOrder == Spec => []FirstHeardInOrder
<1>1. ASSUME IInv PROVE FirstHeardInOrder
  <2> SUFFICES ASSUME NEW o \in Observers,
                      NEW e \in 1..Len(log), NEW f \in 1..Len(log),
                      e < f, log[e] = log[f],
                      Contains(Stream(o), e), Contains(Stream(o), f)
               PROVE  FirstAt(Stream(o), e) < FirstAt(Stream(o), f)
    BY DEF FirstHeardInOrder
  <2> DEFINE s == Stream(o)
             a == FirstAt(s, e)
             b == FirstAt(s, f)
  <2>1. s \in Seq(Events) /\ Len(s) \in Nat /\ InOrder(s)
    BY <1>1, StreamTypes, LenProperties DEF IInv, OrderInv
  <2>2. e \in Events /\ f \in Events
    BY <2>1, Elements
  <2>3. /\ a \in 1..Len(s) /\ s[a] = e /\ \A j \in 1..(a - 1) : s[j] # e
        /\ b \in 1..Len(s) /\ s[b] = f
    BY <2>1, <2>2, FirstAtExists
  <2> HIDE DEF s, a, b
  <2>4. PICK k \in 1..(b - 1) : s[k] = e
    <3>1. s[a] < s[b] /\ log[s[a]] = log[s[b]]
      BY <2>3
    <3> QED BY <2>3, <3>1, <2>1 DEF InOrder
  <2>5. a < b
    BY <2>1, <2>3, <2>4
  <2> QED BY <2>5 DEF a, b, s
<1> QED BY Invariance, <1>1, PTL
=============================================================================
