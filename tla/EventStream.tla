----------------------------- MODULE EventStream -----------------------------
(***************************************************************************)
(* How one task's events reach the observers: TaskService.emit commits an  *)
(* event row and then publishes it on the in-process EventBus              *)
(* (services/tasks.py); api/websocket.py subscribes, replays the committed *)
(* rows and then forwards what the bus delivers.                           *)
(*                                                                         *)
(* Publishers are the jobs and requests that emit for the task; each       *)
(* emission awaits the commit, and then one put per queue of the           *)
(* subscribers there were when it began to publish.  An observer that goes *)
(* away is noticed by the next send, which raises.                         *)
(***************************************************************************)
EXTENDS Naturals, Sequences, SequencesExt

CONSTANTS
  Publishers,
  Observers,    \* WebSocket connections
  QueueSize,    \* maxsize of a subscriber's queue
  ReplayLimit,  \* limit of list_events
  MaxEvents     \* bound on the events of the task

ASSUME EventBounds ==
  QueueSize \in Nat \ {0} /\ ReplayLimit \in Nat /\ MaxEvents \in Nat

VARIABLES
  log,        \* log[e]: the publisher of the e-th event row
  emitting,   \* emitting[p]: "no", "commit" or "publish"
  event,      \* event[p]: the event p is emitting
  todo,       \* todo[p]: queues p still has to put it into
  subs,       \* subscribers of the bus
  queue,      \* queue[o]: o's queue
  handler,    \* handler[o]: where o's WebSocket handler is
  replay,     \* replay[o]: rows still to be replayed
  holding,    \* holding[o]: the event taken from the queue, <<>> if none
  open        \* open[o]: o's connection is open

(* History, read by properties only.                                       *)
VARIABLES
  sent,       \* sent[o]: events sent to o
  joined      \* joined[o]: number of rows when o subscribed

publisherVars == <<log, emitting, event, todo>>
observerVars == <<handler, replay, holding, open, sent, joined>>
vars == <<publisherVars, subs, queue, observerVars>>

Events == 1..MaxEvents
Handlers == {"none", "query", "replay", "live", "over", "broken"}

Init ==
  /\ log = <<>>
  /\ emitting = [p \in Publishers |-> "no"]
  /\ event = [p \in Publishers |-> 0]
  /\ todo = [p \in Publishers |-> <<>>]
  /\ subs = {}
  /\ queue = [o \in Observers |-> <<>>]
  /\ handler = [o \in Observers |-> "none"]
  /\ replay = [o \in Observers |-> <<>>]
  /\ holding = [o \in Observers |-> <<>>]
  /\ open = [o \in Observers |-> TRUE]
  /\ sent = [o \in Observers |-> <<>>]
  /\ joined = [o \in Observers |-> 0]
-----------------------------------------------------------------------------
(* emit: the event row is committed ...                                    *)
CommitEvent(p) ==
  /\ emitting[p] = "no" /\ Len(log) < MaxEvents
  /\ log' = Append(log, p)
  /\ event' = [event EXCEPT ![p] = Len(log) + 1]
  /\ emitting' = [emitting EXCEPT ![p] = "commit"]
  /\ UNCHANGED <<todo, subs, queue, observerVars>>

(* What is left of p's emission: the queues in rest.                       *)
GoOn(p, rest) ==
  /\ todo' = [todo EXCEPT ![p] = rest]
  /\ emitting' = [emitting EXCEPT ![p] = IF rest = <<>> THEN "no" ELSE "publish"]
  /\ event' = [event EXCEPT ![p] = IF rest = <<>> THEN 0 ELSE @]

(* ... refreshed, and published to the subscribers of that moment, in the  *)
(* order the set happens to have.                                          *)
StartPublish(p) ==
  /\ emitting[p] = "commit"
  /\ \E order \in SetToSeqs(subs) : GoOn(p, order)
  /\ UNCHANGED <<log, subs, queue, observerVars>>

(* A slip: put_nowait without looking whether there is room.               *)
PutAnyway(p) ==
  /\ emitting[p] = "publish"
  /\ queue' = [queue EXCEPT ![Head(todo[p])] = Append(@, event[p])]
  /\ GoOn(p, Tail(todo[p]))
  /\ UNCHANGED <<log, subs, observerVars>>

(* One put; it blocks while the queue is full.                             *)
Put(p) ==
  /\ emitting[p] = "publish"
  /\ LET o == Head(todo[p]) IN
       /\ Len(queue[o]) < QueueSize
       /\ queue' = [queue EXCEPT ![o] = Append(@, event[p])]
  /\ GoOn(p, Tail(todo[p]))
  /\ UNCHANGED <<log, subs, observerVars>>
-----------------------------------------------------------------------------
(* The handler subscribes before it reads the rows.                        *)
Subscribe(o) ==
  /\ handler[o] = "none"
  /\ handler' = [handler EXCEPT ![o] = "query"]
  /\ subs' = subs \union {o}
  /\ joined' = [joined EXCEPT ![o] = Len(log)]
  /\ UNCHANGED <<publisherVars, queue, replay, holding, open, sent>>

(* A slip: the newest rows first, as list_all returns tasks.               *)
ReadRowsNewestFirst(o) ==
  /\ handler[o] = "query"
  /\ handler' = [handler EXCEPT ![o] = "replay"]
  /\ replay' = [replay EXCEPT ![o] =
                  [i \in 1..(IF Len(log) < ReplayLimit THEN Len(log)
                             ELSE ReplayLimit) |-> Len(log) + 1 - i]]
  /\ UNCHANGED <<publisherVars, subs, queue, holding, open, sent, joined>>

(* list_events: the oldest rows, up to the limit.                          *)
ReadRows(o) ==
  /\ handler[o] = "query"
  /\ handler' = [handler EXCEPT ![o] = "replay"]
  /\ replay' = [replay EXCEPT ![o] =
                  [e \in 1..(IF Len(log) < ReplayLimit THEN Len(log)
                             ELSE ReplayLimit) |-> e]]
  /\ UNCHANGED <<publisherVars, subs, queue, holding, open, sent, joined>>

(* A slip: a send that raises is tried again.                              *)
SendRowRetries(o) ==
  /\ handler[o] = "replay" /\ replay[o] # <<>> /\ open[o]
  /\ sent' = [sent EXCEPT ![o] = Append(@, Head(replay[o]))]
  /\ replay' = [replay EXCEPT ![o] = Tail(@)]
  /\ UNCHANGED <<publisherVars, subs, queue, handler, holding, open, joined>>

(* The replay is outside of the try: if a send raises the queue stays      *)
(* subscribed and nobody reads it.                                         *)
SendRow(o) ==
  /\ handler[o] = "replay" /\ replay[o] # <<>>
  /\ \/ /\ open[o]
        /\ sent' = [sent EXCEPT ![o] = Append(@, Head(replay[o]))]
        /\ replay' = [replay EXCEPT ![o] = Tail(@)]
        /\ UNCHANGED handler
     \/ /\ ~open[o]
        /\ handler' = [handler EXCEPT ![o] = "broken"]
        /\ UNCHANGED <<sent, replay>>
  /\ UNCHANGED <<publisherVars, subs, queue, holding, open, joined>>

(* A slip: what came during the replay is dropped as a duplicate of it.    *)
EndReplayDrains(o) ==
  /\ handler[o] = "replay" /\ replay[o] = <<>>
  /\ handler' = [handler EXCEPT ![o] = "live"]
  /\ queue' = [queue EXCEPT ![o] = <<>>]
  /\ UNCHANGED <<publisherVars, subs, replay, holding, open, sent, joined>>

EndReplay(o) ==
  /\ handler[o] = "replay" /\ replay[o] = <<>>
  /\ handler' = [handler EXCEPT ![o] = "live"]
  /\ UNCHANGED <<publisherVars, subs, queue, replay, holding, open, sent, joined>>

Take(o) ==
  /\ handler[o] = "live" /\ holding[o] = <<>> /\ queue[o] # <<>>
  /\ holding' = [holding EXCEPT ![o] = <<Head(queue[o])>>]
  /\ queue' = [queue EXCEPT ![o] = Tail(@)]
  /\ UNCHANGED <<publisherVars, subs, handler, replay, open, sent, joined>>

(* A send that raises ends the loop, and the queue is unsubscribed.        *)
Forward(o) ==
  /\ handler[o] = "live" /\ holding[o] # <<>>
  /\ holding' = [holding EXCEPT ![o] = <<>>]
  /\ \/ /\ open[o]
        /\ sent' = [sent EXCEPT ![o] = @ \o holding[o]]
        /\ UNCHANGED <<handler, subs>>
     \/ /\ ~open[o]
        /\ handler' = [handler EXCEPT ![o] = "over"]
        /\ subs' = subs \ {o}
        /\ UNCHANGED sent
  /\ UNCHANGED <<publisherVars, queue, replay, open, joined>>

(* The observer goes away.                                                 *)
Disconnect(o) ==
  /\ handler[o] \in {"query", "replay", "live"} /\ open[o]
  /\ open' = [open EXCEPT ![o] = FALSE]
  /\ UNCHANGED <<publisherVars, subs, queue, handler, replay, holding, sent,
                 joined>>

PublisherStep(p) == StartPublish(p) \/ Put(p)

HandlerStep(o) ==
  ReadRows(o) \/ SendRow(o) \/ EndReplay(o) \/ Take(o) \/ Forward(o)

Next ==
  \/ \E p \in Publishers : CommitEvent(p) \/ PublisherStep(p)
  \/ \E o \in Observers : Subscribe(o) \/ HandlerStep(o) \/ Disconnect(o)

Spec == Init /\ [][Next]_vars

(* The event loop runs every task that is ready.  Nothing makes a job emit *)
(* or an observer come or go.                                              *)
FairSpec ==
  /\ Spec
  /\ \A p \in Publishers : WF_vars(PublisherStep(p))
  /\ \A o \in Observers : WF_vars(HandlerStep(o))
-----------------------------------------------------------------------------
TypeOK ==
  /\ log \in Seq(Publishers) /\ Len(log) <= MaxEvents
  /\ emitting \in [Publishers -> {"no", "commit", "publish"}]
  /\ event \in [Publishers -> Events \union {0}]
  /\ todo \in [Publishers -> Seq(Observers)]
  /\ subs \subseteq Observers
  /\ queue \in [Observers -> Seq(Events)]
  /\ \A o \in Observers : Len(queue[o]) <= QueueSize
  /\ handler \in [Observers -> Handlers]
  /\ replay \in [Observers -> Seq(Events)]
  /\ holding \in [Observers -> {<<>>} \union {<<e>> : e \in Events}]
  /\ open \in [Observers -> BOOLEAN]
  /\ sent \in [Observers -> Seq(Events)]
  /\ joined \in [Observers -> 0..MaxEvents]

(* All that o has been sent or still will be, in this order.               *)
Stream(o) == sent[o] \o replay[o] \o holding[o] \o queue[o]

OnItsWay(e, o) ==
  \E p \in Publishers :
    /\ event[p] = e
    /\ emitting[p] = "commit" \/ (emitting[p] = "publish" /\ Contains(todo[p], o))

(* An observer whose replay has been read misses no event, however its     *)
(* subscription, the query, commits and publications interleave; except    *)
(* the rows beyond the limit of the query that are older than its          *)
(* subscription (websocket.task_events_ws, TaskService.emit).              *)
NothingMissed ==
  \A o \in Observers : handler[o] \in {"replay", "live"} /\ open[o] =>
    \A e \in 1..Len(log) :
      \/ Contains(Stream(o), e)
      \/ OnItsWay(e, o)
      \/ ReplayLimit < e /\ e <= joined[o]

FirstAt(s, e) == CHOOSE i \in 1..Len(s) : s[i] = e /\ \A j \in 1..(i - 1) : s[j] # e

(* An observer first hears of the events of one job in the order the job   *)
(* emitted them, also across the seam of replay and live events and with   *)
(* other jobs' events in between (a terminal event never comes before the  *)
(* job's start).                                                           *)
FirstHeardInOrder ==
  \A o \in Observers : LET s == Stream(o) IN
    \A e, f \in 1..Len(log) :
      /\ e < f /\ log[e] = log[f] /\ Contains(s, e) /\ Contains(s, f)
      => FirstAt(s, e) < FirstAt(s, f)

(* The handler of o has ended and will take nothing from its queue.        *)
Dead(o) == handler[o] \in {"over", "broken"}

(* An emission ends, so observers do not hold up the jobs they observe: a  *)
(* slow one only delays, and only the full queue of one that went away can *)
(* block, either because its replay broke off and it is still subscribed   *)
(* or because two publishers were waiting on it when it unsubscribed       *)
(* (EventBus.publish).                                                     *)
EmissionEnds ==
  \A p \in Publishers :
    emitting[p] # "no"
      ~> \/ emitting[p] = "no"
         \/ \E o \in Observers : Dead(o) /\ Len(queue[o]) = QueueSize
=============================================================================
