------------------------------ MODULE LiveView ------------------------------
(***************************************************************************)
(* The dashboard's view of the task list: web/events.py, the routes of     *)
(* web/api.py it reads, and the connection logic of frontend App.vue.      *)
(*                                                                         *)
(* The page asks for the list once, then opens an event stream; when the   *)
(* stream breaks it waits, asks for the list again and opens a new one.    *)
(* A new stream starts empty, so what was published between the answer     *)
(* and the subscription is only seen with a later publication.  A list is  *)
(* abstracted to its version, an answer or event to the version it holds.  *)
(***************************************************************************)
EXTENDS Naturals, Sequences, FiniteSets

CONSTANTS
  None,        \* no version, no stream
  Other,       \* an event that holds no list: health, notification
  Streams,     \* EventSource objects
  QueueSize,   \* capacity of a subscriber's queue, 32 in the code
  MaxOthers,   \* bound: other events between two lists while App Server answers
  MaxChanges,  \* bound: versions of the list
  MaxFaults    \* bound: broken streams, failed requests, losses of App Server

ASSUME QueueAssumption == QueueSize \in Nat \ {0} /\ MaxOthers < QueueSize
ASSUME ViewBoundsAssumption == {MaxOthers, MaxChanges, MaxFaults} \subseteq Nat

Versions == 0 .. MaxChanges

ASSUME NoVersionAssumption == None # Other /\ {None, Other} \cap Versions = {} /\ None \notin Streams

VARIABLES
  now,        \* version of the server's list
  unsaid,     \* the handler that changed the list has yet to publish it
  reachable,  \* App Server answers, so that every refresh publishes the list
  others,     \* other events since the last list, at most QueueSize
  queue,      \* _subscribers: [Streams -> their queue]
  latest,     \* history: [Streams -> last list published to it and not read]
  stream,     \* [Streams -> none, opening, open, broken or closed]
  current,    \* eventSource
  timer,      \* reconnectTimer is set
  fetch,      \* the list asked for: [load, again -> where it is and the answer]
  post,       \* watchTask and the like wait for their answer
  shown,      \* tasks: the version, None at first
  patched,    \* the answer of a post was merged into it since
  mounted,
  faults

server == <<now, unsaid, reachable, others>>
page == <<current, timer, fetch, post, shown, patched, mounted>>
bvars == <<server, queue, latest, stream, page, faults>>

(* A request for the list: none, asked, failed, or answered with a list. *)
NoFetch == [at |-> "none", list |-> None]
Asked == [at |-> "asked", list |-> None]
Failed == [at |-> "failed", list |-> None]
Answered(f) == fetch[f] \notin {NoFetch, Asked}

BInit ==
  /\ now = 0 /\ unsaid = FALSE /\ reachable = TRUE /\ others = 0
  /\ queue = [s \in Streams |-> <<>>]
  /\ latest = [s \in Streams |-> None]
  /\ stream = [s \in Streams |-> "none"]
  /\ current = None
  /\ timer = FALSE
  /\ fetch = [load |-> Asked, again |-> NoFetch]
  /\ post = FALSE
  /\ shown = None /\ patched = FALSE
  /\ mounted = TRUE
  /\ faults = 0

Fault == faults < MaxFaults /\ faults' = faults + 1

----------------------------------------------------------------------------
(* The server.  publish never waits: the oldest event of a full queue goes. *)

(* Fault: a full queue takes nothing. *)
PutIfRoom(events, e) == IF Len(events) = QueueSize THEN events ELSE Append(events, e)

Put(events, e) == Append(IF Len(events) = QueueSize THEN Tail(events) ELSE events, e)

Broadcast(e) ==
  queue' = [s \in Streams |-> IF stream[s] = "open" THEN Put(queue[s], e) ELSE <<>>]

(* Any handler: a merge, a watch, a manual completion. *)
Change ==
  /\ now < MaxChanges /\ ~unsaid
  /\ now' = now + 1
  /\ unsaid' = TRUE
  /\ UNCHANGED <<reachable, others, queue, latest, stream, page, faults>>

(* At the end of a handler that changed something, and of every refresh.   *)
PublishTasks ==
  /\ unsaid \/ reachable
  /\ Broadcast(now)
  /\ latest' = [s \in Streams |-> IF stream[s] = "open" THEN now ELSE None]
  /\ unsaid' = FALSE
  /\ others' = 0
  /\ UNCHANGED <<now, reachable, stream, page, faults>>

PublishOther ==
  /\ reachable => others < MaxOthers
  /\ Broadcast(Other)
  /\ others' = IF others = QueueSize THEN others ELSE others + 1
  /\ UNCHANGED <<now, unsaid, reachable, latest, stream, page, faults>>

Reach ==
  /\ IF reachable THEN Fault ELSE UNCHANGED faults
  /\ reachable' = ~reachable
  /\ UNCHANGED <<now, unsaid, others, queue, latest, stream, page>>

(* A request for the list is answered with the list of that moment. *)
Answer ==
  /\ \E f \in DOMAIN fetch :
       /\ fetch[f] = Asked
       /\ \/ fetch' = [fetch EXCEPT ![f] = [at |-> "answered", list |-> now]] /\ UNCHANGED faults
          \/ fetch' = [fetch EXCEPT ![f] = Failed] /\ Fault
  /\ UNCHANGED <<server, queue, latest, stream, current, timer, post, shown, patched, mounted>>

Subscribe ==
  /\ \E s \in Streams :
       /\ stream[s] = "opening"
       /\ stream' = [stream EXCEPT ![s] = "open"]
  /\ UNCHANGED <<server, queue, latest, page, faults>>

(* The connection goes; what is in the queue or on the way is lost. *)
Break ==
  /\ \E s \in Streams :
       /\ stream[s] \in {"opening", "open"}
       /\ stream' = [stream EXCEPT ![s] = "broken"]
       /\ queue' = [queue EXCEPT ![s] = <<>>]
       /\ latest' = [latest EXCEPT ![s] = None]
  /\ Fault
  /\ UNCHANGED <<server, page>>

----------------------------------------------------------------------------
(* The page. *)

Show(version) == shown' = version /\ patched' = FALSE

(* Fault: a page that is gone connects all the same. *)
ConnectUnguarded ==
  \E s \in Streams :
    /\ stream[s] = "none"
    /\ stream' = [stream EXCEPT ![s] = "opening"]
    /\ current' = s

ConnectEvents ==
  IF mounted
  THEN \E s \in Streams :
         /\ stream[s] = "none"
         /\ stream' = [stream EXCEPT ![s] = "opening"]
         /\ current' = s
  ELSE UNCHANGED <<stream, current>>

ScheduleReconnect == timer' = (timer \/ mounted)

CloseCurrent ==
  /\ stream' = [s \in Streams |-> IF s = current THEN "none" ELSE stream[s]]
  /\ queue' = [s \in Streams |-> IF s = current THEN <<>> ELSE queue[s]]
  /\ latest' = [s \in Streams |-> IF s = current THEN None ELSE latest[s]]

(* A failed load shows its error and goes on to the stream all the same. *)
LoadInitial ==
  /\ Answered("load")
  /\ IF fetch.load = Failed THEN UNCHANGED <<shown, patched>> ELSE Show(fetch.load.list)
  /\ ConnectEvents
  /\ fetch' = [fetch EXCEPT !.load = NoFetch]
  /\ UNCHANGED <<server, queue, latest, timer, post, mounted, faults>>

TimerFires ==
  /\ timer
  /\ timer' = FALSE
  /\ fetch' = [fetch EXCEPT !.again = Asked]
  /\ UNCHANGED <<server, queue, latest, stream, current, post, shown, patched, mounted, faults>>

(* Fault: a failed request is not tried again. *)
ReconnectOnce ==
  /\ Answered("again")
  /\ IF fetch.again = Failed
     THEN UNCHANGED <<stream, current, timer, shown, patched>>
     ELSE Show(fetch.again.list) /\ ConnectEvents /\ UNCHANGED timer
  /\ fetch' = [fetch EXCEPT !.again = NoFetch]
  /\ UNCHANGED <<server, queue, latest, post, mounted, faults>>

(* The timer's callback after its request. *)
Reconnect ==
  /\ Answered("again")
  /\ IF fetch.again = Failed
     THEN ScheduleReconnect /\ UNCHANGED <<stream, current, shown, patched>>
     ELSE Show(fetch.again.list) /\ ConnectEvents /\ UNCHANGED timer
  /\ fetch' = [fetch EXCEPT !.again = NoFetch]
  /\ UNCHANGED <<server, queue, latest, post, mounted, faults>>

(* onerror closes eventSource, which is the stream that broke. *)
OnError ==
  /\ \E s \in Streams : stream[s] = "broken"
  /\ CloseCurrent
  /\ current' = None
  /\ ScheduleReconnect
  /\ UNCHANGED <<server, fetch, post, shown, patched, mounted, faults>>

(* The health of the sources, or an event the page does not listen to. *)
OnOther ==
  \E s \in Streams :
    /\ queue[s] # <<>> /\ Head(queue[s]) = Other
    /\ queue' = [queue EXCEPT ![s] = Tail(@)]
    /\ UNCHANGED <<server, latest, stream, page, faults>>

OnTasks ==
  \E s \in Streams :
    /\ queue[s] # <<>> /\ Head(queue[s]) # Other
    /\ Show(Head(queue[s]))
    /\ queue' = [queue EXCEPT ![s] = Tail(@)]
    /\ latest' = [latest EXCEPT ![s] =
         IF \E i \in DOMAIN Tail(queue[s]) : Tail(queue[s])[i] # Other THEN @ ELSE None]
    /\ UNCHANGED <<server, stream, current, timer, fetch, post, mounted, faults>>

(* The user changes a task: the server has changed and published it when   *)
(* the answer comes, and more may have happened since.                     *)
Click ==
  /\ mounted /\ ~post /\ shown # None
  /\ now < MaxChanges /\ ~unsaid
  /\ post' = TRUE
  /\ now' = now + 1
  /\ unsaid' = TRUE
  /\ UNCHANGED <<reachable, others, queue, latest, stream, current, timer, fetch, shown, patched,
                 mounted, faults>>

ReplaceTask ==
  /\ post /\ ~unsaid
  /\ post' = FALSE
  /\ patched' = TRUE
  /\ UNCHANGED <<server, queue, latest, stream, current, timer, fetch, shown, mounted, faults>>

Unmount ==
  /\ mounted
  /\ mounted' = FALSE
  /\ CloseCurrent
  /\ timer' = FALSE
  /\ UNCHANGED <<server, current, fetch, post, shown, patched, faults>>

BNext ==
  \/ Change \/ PublishTasks \/ PublishOther \/ Reach \/ Answer \/ Subscribe \/ Break
  \/ LoadInitial \/ TimerFires \/ Reconnect \/ OnError \/ OnOther \/ OnTasks \/ Click \/ ReplaceTask
  \/ Unmount

(* Requests are answered, timers fire, handlers run and, while App Server  *)
(* answers, the refresh loop publishes.  That the page reads lists again   *)
(* and again is strong fairness: refreshes are seconds apart and a queue   *)
(* holds the events of many, so a page that reads at all reads one of them. *)
BSpec ==
  /\ BInit /\ [][BNext]_bvars
  /\ WF_bvars(PublishTasks) /\ WF_bvars(Answer) /\ WF_bvars(Subscribe)
  /\ WF_bvars(LoadInitial) /\ WF_bvars(TimerFires) /\ WF_bvars(Reconnect) /\ WF_bvars(OnError)
  /\ WF_bvars(OnOther) /\ WF_bvars(ReplaceTask) /\ SF_bvars(OnTasks)

----------------------------------------------------------------------------
(* The page never holds two ways to news at once, an open stream, a timer  *)
(* for the next one or a request that leads to it, and none once it is     *)
(* unmounted, however answers, errors and unmounting overtake each other   *)
(* (App.vue:348-394, 527-542).                                             *)
OneConnection ==
  LET live == {s \in Streams : stream[s] # "none"}
      asking == {f \in DOMAIN fetch : fetch[f] # NoFetch}
      ways == Cardinality(live) + Cardinality(asking) + (IF timer THEN 1 ELSE 0)
  IN IF mounted THEN ways = 1 ELSE live = {} /\ ~timer

(* A list that was published to a stream and not read yet is in its queue  *)
(* unless as many later events as the queue holds have pushed it out: a    *)
(* slow page misses old lists, not the last one (events.py:30-41).         *)
NewestIsQueued ==
  \A s \in Streams :
    latest[s] # None =>
      others = QueueSize \/ \E i \in DOMAIN queue[s] : queue[s][i] = latest[s]

(* A page that stays open sees the server's list in the end, whatever was  *)
(* lost, missed between an answer and the subscription, or patched by a    *)
(* late answer, if App Server answers from some time on (App.vue:378-394,  *)
(* runtime.py:249, 688-699).                                               *)
Converges == <>[](mounted /\ reachable) => <>[](shown = now /\ ~patched)
=============================================================================
