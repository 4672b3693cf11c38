---------------------------- MODULE LiveViewProofs --------------------------
(***************************************************************************)
(* Proofs about LiveView for any number of streams, any capacity of the    *)
(* queues and any bounds.                                                  *)
(***************************************************************************)
EXTENDS LiveView, FiniteSetTheorems, SequenceTheorems, TLAPS

StreamStates == {"none", "opening", "open", "broken"}
Fetches == [at : {"none", "asked", "failed", "answered"}, list : Versions \cup {None}]

ViewTypes ==
  /\ stream \in [Streams -> StreamStates]
  /\ fetch \in [load : Fetches, again : Fetches]
  /\ timer \in BOOLEAN
  /\ mounted \in BOOLEAN
  /\ now \in Versions

----------------------------------------------------------------------------
(* One connection. *)

NoStream == \A s \in Streams : stream[s] = "none"
OneStream ==
  /\ current \in Streams
  /\ stream[current] # "none"
  /\ \A s \in Streams \ {current} : stream[s] = "none"
NothingAsked == fetch.load = NoFetch /\ fetch.again = NoFetch
OneAsked ==
  \/ fetch.load # NoFetch /\ fetch.again = NoFetch
  \/ fetch.load = NoFetch /\ fetch.again # NoFetch

(* The inductive invariant: a page that is there waits for its timer, for  *)
(* one request or for the stream it knows of.                              *)
OneWay ==
  IF mounted
  THEN \/ timer /\ NoStream /\ NothingAsked
       \/ ~timer /\ NoStream /\ OneAsked
       \/ ~timer /\ OneStream /\ NothingAsked
  ELSE NoStream /\ ~timer

(* One way is one connection. *)
LEMMA OneWayIsOne == ViewTypes /\ OneWay => OneConnection
<1> DEFINE live == {s \in Streams : stream[s] # "none"}
           asking == {f \in DOMAIN fetch : fetch[f] # NoFetch}
<1> SUFFICES ASSUME ViewTypes, OneWay
             PROVE  IF mounted
                    THEN Cardinality(live) + Cardinality(asking) + (IF timer THEN 1 ELSE 0) = 1
                    ELSE live = {} /\ ~timer
  BY DEF OneConnection
<1>1. DOMAIN fetch = {"load", "again"}
  BY DEF ViewTypes
<1>2. NoStream => live = {}
  BY DEF NoStream
<1>3. OneStream => live = {current}
  BY DEF OneStream
<1>4. NothingAsked => asking = {}
  BY <1>1 DEF NothingAsked
<1>5. OneAsked => asking = {"load"} \/ asking = {"again"}
  BY <1>1 DEF OneAsked
<1>6. Cardinality({}) = 0 /\ \A x : Cardinality({x}) = 1
  BY FS_EmptySet, FS_Singleton
<1> HIDE DEF live, asking
<1>7. CASE mounted
  <2>1. CASE timer /\ NoStream /\ NothingAsked
    BY <1>2, <1>4, <1>6, <1>7, <2>1
  <2>2. CASE ~timer /\ NoStream /\ OneAsked
    <3>1. Cardinality(live) = 0
      BY <1>2, <1>6, <2>2
    <3>2. Cardinality(asking) = 1
      BY <1>5, <1>6, <2>2
    <3> QED
      BY <1>7, <2>2, <3>1, <3>2
  <2>3. CASE ~timer /\ OneStream /\ NothingAsked
    BY <1>3, <1>4, <1>6, <1>7, <2>3
  <2> QED
    BY <1>7, <2>1, <2>2, <2>3 DEF OneWay
<1>8. CASE ~mounted
  BY <1>2, <1>8 DEF OneWay
<1> QED
  BY <1>7, <1>8

(* The answers are fetches. *)
LEMMA FetchValues ==
  /\ NoFetch \in Fetches /\ Asked \in Fetches /\ Failed \in Fetches
  /\ NoFetch # Asked /\ NoFetch # Failed /\ Asked # Failed
  /\ \A v \in Versions : /\ [at |-> "answered", list |-> v] \in Fetches
                         /\ [at |-> "answered", list |-> v] # NoFetch
BY DEF NoFetch, Asked, Failed, Fetches

(* At the start the page has asked for the list. *)
LEMMA ViewInit == BInit => ViewTypes /\ OneWay
<1> SUFFICES ASSUME BInit PROVE ViewTypes /\ OneWay
  OBVIOUS
<1>1. ViewTypes
  <2>1. fetch \in [load : Fetches, again : Fetches]
    BY FetchValues DEF BInit
  <2>2. now \in Versions
    BY ViewBoundsAssumption DEF BInit, Versions
  <2>3. stream \in [Streams -> StreamStates] /\ timer \in BOOLEAN /\ mounted \in BOOLEAN
    BY DEF BInit, StreamStates
  <2> QED
    BY <2>1, <2>2, <2>3 DEF ViewTypes
<1>2. ~timer /\ NoStream
  BY DEF BInit, NoStream
<1>3. OneAsked
  BY FetchValues DEF BInit, OneAsked
<1> QED
  BY <1>1, <1>2, <1>3 DEF OneWay

(* Every step keeps one way to news. *)
LEMMA ViewNext == ViewTypes /\ OneWay /\ [BNext]_bvars => ViewTypes' /\ OneWay'
<1> SUFFICES ASSUME ViewTypes, OneWay, [BNext]_bvars PROVE ViewTypes' /\ OneWay'
  OBVIOUS
<1> USE DEF NoStream, OneStream, NothingAsked, OneAsked
<1>1. CASE PublishTasks \/ PublishOther \/ Reach \/ OnOther \/ OnTasks \/ ReplaceTask \/ UNCHANGED bvars
  <2>1. UNCHANGED <<stream, fetch, timer, mounted, now, current>>
    BY <1>1 DEF PublishTasks, PublishOther, Reach, OnOther, OnTasks, ReplaceTask, bvars, page, server
  <2> QED
    BY <2>1 DEF ViewTypes, OneWay
<1>2. CASE Change \/ Click
  <2>1. UNCHANGED <<stream, fetch, timer, mounted, current>> /\ now' \in Versions
    BY <1>2, ViewBoundsAssumption DEF Change, Click, page, ViewTypes, Versions
  <2> QED
    BY <2>1 DEF ViewTypes, OneWay
<1>3. CASE Answer
  <2>1. PICK f \in DOMAIN fetch, r \in Fetches \ {NoFetch} :
          fetch[f] = Asked /\ fetch' = [fetch EXCEPT ![f] = r]
    BY <1>3, FetchValues DEF Answer, ViewTypes
  <2>2. UNCHANGED <<stream, timer, mounted, current, now>>
    BY <1>3 DEF Answer, server
  <2>3. f \in {"load", "again"}
    BY DEF ViewTypes
  <2>4. ViewTypes'
    BY <2>1, <2>2, <2>3 DEF ViewTypes
  <2>5. /\ (fetch'.load = NoFetch) = (fetch.load = NoFetch)
        /\ (fetch'.again = NoFetch) = (fetch.again = NoFetch)
    BY <2>1, <2>3, FetchValues DEF ViewTypes
  <2> QED
    BY <2>2, <2>4, <2>5 DEF OneWay
<1>4. CASE Subscribe \/ Break
  <2>1. PICK s \in Streams, next \in StreamStates \ {"none"} :
          stream[s] # "none" /\ stream' = [stream EXCEPT ![s] = next]
    BY <1>4 DEF Subscribe, Break, StreamStates
  <2>2. UNCHANGED <<fetch, timer, mounted, current, now>>
    BY <1>4 DEF Subscribe, Break, server, page
  <2> QED
    BY <2>1, <2>2 DEF ViewTypes, OneWay
<1>5. CASE LoadInitial
  <2>1. fetch.load # NoFetch /\ fetch' = [fetch EXCEPT !.load = NoFetch]
    BY <1>5 DEF LoadInitial, Answered
  <2>2. ConnectEvents /\ UNCHANGED <<timer, mounted, now>>
    BY <1>5 DEF LoadInitial, server
  <2>3. fetch' \in [load : Fetches, again : Fetches] /\ fetch'.load = NoFetch /\ fetch'.again = fetch.again
    BY <2>1, FetchValues DEF ViewTypes
  <2>4. CASE mounted
    <3>1. ~timer /\ NoStream /\ fetch.again = NoFetch
      BY <2>1, <2>4 DEF OneWay
    <3> QED
      BY <2>2, <2>3, <2>4, <3>1 DEF ConnectEvents, ViewTypes, OneWay, StreamStates
  <2>5. CASE ~mounted
    BY <2>2, <2>3, <2>5 DEF ConnectEvents, ViewTypes, OneWay
  <2> QED
    BY <2>4, <2>5
<1>6. CASE TimerFires
  <2>1. timer /\ timer' = FALSE /\ fetch' = [fetch EXCEPT !.again = Asked]
        /\ UNCHANGED <<stream, mounted, current, now>>
    BY <1>6 DEF TimerFires, server
  <2>2. fetch' \in [load : Fetches, again : Fetches] /\ fetch'.load = fetch.load /\ fetch'.again = Asked
    BY <2>1, FetchValues DEF ViewTypes
  <2> QED
    <3>1. mounted /\ NoStream /\ NothingAsked
      BY <2>1 DEF OneWay
    <3>2. OneAsked' /\ NoStream' /\ mounted' /\ ~timer'
      BY <2>1, <2>2, <3>1, FetchValues
    <3> QED
      BY <2>1, <2>2, <3>2 DEF ViewTypes, OneWay
<1>7. CASE Reconnect
  <2>1. fetch.again # NoFetch /\ fetch' = [fetch EXCEPT !.again = NoFetch]
    BY <1>7 DEF Reconnect, Answered
  <2>2. UNCHANGED <<mounted, now>>
    BY <1>7 DEF Reconnect, server
  <2>3. \/ ScheduleReconnect /\ UNCHANGED <<stream, current>>
        \/ ConnectEvents /\ UNCHANGED timer
    BY <1>7 DEF Reconnect
  <2>4. fetch' \in [load : Fetches, again : Fetches] /\ fetch'.again = NoFetch /\ fetch'.load = fetch.load
    BY <2>1, FetchValues DEF ViewTypes
  <2>5. CASE mounted
    <3>1. ~timer /\ NoStream /\ fetch.load = NoFetch
      BY <2>1, <2>5 DEF OneWay
    <3>2. CASE ScheduleReconnect /\ UNCHANGED <<stream, current>>
      BY <2>2, <2>4, <2>5, <3>1, <3>2 DEF ScheduleReconnect, ViewTypes, OneWay
    <3>3. CASE ConnectEvents /\ UNCHANGED timer
      BY <2>2, <2>4, <2>5, <3>1, <3>3 DEF ConnectEvents, ViewTypes, OneWay, StreamStates
    <3> QED
      BY <2>3, <3>2, <3>3
  <2>6. CASE ~mounted
    BY <2>2, <2>3, <2>4, <2>6 DEF ScheduleReconnect, ConnectEvents, ViewTypes, OneWay
  <2> QED
    BY <2>5, <2>6
<1>8. CASE OnError
  <2>1. CloseCurrent /\ ScheduleReconnect /\ UNCHANGED <<fetch, mounted, now>>
    BY <1>8 DEF OnError, server
  <2>2. PICK s \in Streams : stream[s] = "broken"
    BY <1>8 DEF OnError
  <2>3. mounted /\ OneStream /\ NothingAsked
    BY <2>2 DEF OneWay
  <2> QED
    BY <2>1, <2>3 DEF CloseCurrent, ScheduleReconnect, ViewTypes, OneWay, StreamStates
<1>9. CASE Unmount
  BY <1>9 DEF Unmount, CloseCurrent, ViewTypes, OneWay, server, StreamStates
<1> QED
  BY <1>1, <1>2, <1>3, <1>4, <1>5, <1>6, <1>7, <1>8, <1>9 DEF BNext

(* The page never has two ways to news, for any number of streams, and     *)
(* none once it is unmounted (App.vue:348-394, 527-542).                   *)
THEOREM OneConnectionHolds == BSpec => []OneConnection
<1>1. BSpec => [](ViewTypes /\ OneWay)
  BY ViewInit, ViewNext, PTL DEF BSpec
<1> QED
  BY <1>1, OneWayIsOne, PTL

----------------------------------------------------------------------------
(* The newest list. *)

Events == Versions \cup {Other}

QueueTypes ==
  /\ others \in 0 .. QueueSize
  /\ now \in Versions
  /\ stream \in [Streams -> StreamStates]
  /\ queue \in [Streams -> Seq(Events)]
  /\ latest \in [Streams -> Versions \cup {None}]
  /\ \A s \in Streams : Len(queue[s]) <= QueueSize

(* The list is at position i, everything after it is no list, and there    *)
(* are not more of these than n.                                           *)
IsNewestAt(events, i, list, n) ==
  /\ i \in 1 .. Len(events)
  /\ events[i] = list
  /\ \A j \in i + 1 .. Len(events) : events[j] = Other
  /\ Len(events) - i <= n

(* The inductive invariant.  Fewer later events than the queue holds have  *)
(* not pushed the list out.                                                *)
NewestHas(s) ==
  latest[s] # None =>
    /\ stream[s] = "open"
    /\ others < QueueSize => \E i \in Nat : IsNewestAt(queue[s], i, latest[s], others)

QueueInv == QueueTypes /\ \A s \in Streams : NewestHas(s)

(* The invariant says that the newest list is queued. *)
LEMMA QueueInvSuffices == QueueInv => NewestIsQueued
<1> SUFFICES ASSUME QueueInv, NEW s \in Streams, latest[s] # None, others # QueueSize
             PROVE  \E i \in DOMAIN queue[s] : queue[s][i] = latest[s]
  BY DEF NewestIsQueued
<1>1. others < QueueSize
  BY QueueAssumption DEF QueueInv, QueueTypes
<1>2. PICK i \in Nat : IsNewestAt(queue[s], i, latest[s], others)
  BY <1>1 DEF QueueInv, NewestHas
<1>3. queue[s] \in Seq(Events)
  BY DEF QueueInv, QueueTypes
<1> QED
  BY <1>2, <1>3 DEF IsNewestAt

(* At the start no stream is open. *)
LEMMA QueueInit == BInit => QueueInv
BY QueueAssumption, ViewBoundsAssumption
   DEF BInit, QueueInv, QueueTypes, NewestHas, Versions, Events, StreamStates

(* A full queue loses its first event and no other.                        *)
LEMMA PutLast ==
  ASSUME NEW events \in Seq(Events), NEW e \in Events, Len(events) <= QueueSize
  PROVE  /\ Put(events, e) \in Seq(Events)
         /\ Len(Put(events, e)) <= QueueSize
         /\ IF Len(events) = QueueSize
            THEN /\ Len(Put(events, e)) = Len(events)
                 /\ \A i \in 1 .. Len(events) - 1 : Put(events, e)[i] = events[i + 1]
            ELSE /\ Len(Put(events, e)) = Len(events) + 1
                 /\ \A i \in 1 .. Len(events) : Put(events, e)[i] = events[i]
         /\ Len(Put(events, e)) # 0
         /\ Put(events, e)[Len(Put(events, e))] = e
<1> USE QueueAssumption
<1>1. CASE Len(events) = QueueSize
  <2>1. events # <<>>
    BY <1>1
  <2>2. /\ Tail(events) \in Seq(Events)
        /\ Len(Tail(events)) = Len(events) - 1
        /\ \A i \in 1 .. Len(events) - 1 : Tail(events)[i] = events[i + 1]
    BY <2>1, HeadTailProperties
  <2>3. Put(events, e) = Append(Tail(events), e)
    BY <1>1 DEF Put
  <2> QED
    BY <1>1, <2>2, <2>3, AppendProperties
<1>2. CASE Len(events) # QueueSize
  <2>1. Put(events, e) = Append(events, e)
    BY <1>2 DEF Put
  <2> QED
    BY <1>2, <2>1, AppendProperties
<1> QED
  BY <1>1, <1>2

(* One more event that is no list.                                         *)
LEMMA PutOther ==
  ASSUME NEW events \in Seq(Events), Len(events) <= QueueSize,
         NEW list, NEW n \in Nat, n + 1 < QueueSize,
         NEW i \in Nat, IsNewestAt(events, i, list, n)
  PROVE  \E k \in Nat : IsNewestAt(Put(events, Other), k, list, n + 1)
<1> DEFINE after == Put(events, Other)
<1>1. Other \in Events
  BY DEF Events
<1>2. after \in Seq(Events)
  BY <1>1, PutLast
<1>3. /\ Len(after) # 0
      /\ after[Len(after)] = Other
      /\ IF Len(events) = QueueSize
         THEN /\ Len(after) = Len(events)
              /\ \A j \in 1 .. Len(events) - 1 : after[j] = events[j + 1]
         ELSE /\ Len(after) = Len(events) + 1
              /\ \A j \in 1 .. Len(events) : after[j] = events[j]
  BY <1>1, PutLast
<1>4. Len(after) \in Nat /\ Len(events) \in Nat
  BY <1>2
<1> HIDE DEF after
<1>5. CASE Len(events) = QueueSize
  <2>1. i - 1 \in 1 .. Len(events) - 1
    BY <1>5, QueueAssumption DEF IsNewestAt
  <2>2. IsNewestAt(after, i - 1, list, n + 1)
    <3>1. Len(after) = Len(events) /\ \A j \in 1 .. Len(events) - 1 : after[j] = events[j + 1]
      BY <1>5, <1>3
    <3>2. after[i - 1] = list
      BY <2>1, <3>1 DEF IsNewestAt
    <3>3. ASSUME NEW j \in (i - 1) + 1 .. Len(after) PROVE after[j] = Other
      <4>1. CASE j = Len(after)
        BY <1>3, <4>1
      <4>2. CASE j # Len(after)
        <5>1. j \in 1 .. Len(events) - 1 /\ j + 1 \in i + 1 .. Len(events)
          BY <1>4, <2>1, <3>1, <4>2
        <5> QED
          BY <3>1, <5>1 DEF IsNewestAt
      <4> QED
        BY <4>1, <4>2
    <3> QED
      BY <1>4, <2>1, <3>1, <3>2, <3>3 DEF IsNewestAt
  <2> QED
    BY <2>1, <2>2 DEF after
<1>6. CASE Len(events) # QueueSize
  <2>1. IsNewestAt(after, i, list, n + 1)
    <3>1. Len(after) = Len(events) + 1 /\ \A j \in 1 .. Len(events) : after[j] = events[j]
      BY <1>6, <1>3
    <3>2. i \in 1 .. Len(events) /\ after[i] = list
      BY <3>1 DEF IsNewestAt
    <3>3. ASSUME NEW j \in i + 1 .. Len(after) PROVE after[j] = Other
      <4>1. CASE j = Len(after)
        BY <1>3, <4>1
      <4>2. CASE j # Len(after)
        <5>1. j \in 1 .. Len(events) /\ j \in i + 1 .. Len(events)
          BY <1>4, <3>1, <3>2, <4>2
        <5> QED
          BY <3>1, <5>1 DEF IsNewestAt
      <4> QED
        BY <4>1, <4>2
    <3> QED
      BY <1>4, <3>1, <3>2, <3>3 DEF IsNewestAt
  <2> QED
    BY <2>1 DEF after
<1> QED
  BY <1>5, <1>6

(* An event that is read and is not the newest list.                       *)
LEMMA ReadEarlier ==
  ASSUME NEW events \in Seq(Events), events # <<>>,
         NEW list, NEW n \in Nat, NEW i \in Nat, IsNewestAt(events, i, list, n), i # 1
  PROVE  \E k \in Nat : IsNewestAt(Tail(events), k, list, n)
<1>1. /\ Len(Tail(events)) = Len(events) - 1
      /\ \A j \in 1 .. Len(events) - 1 : Tail(events)[j] = events[j + 1]
  BY HeadTailProperties
<1>2. i - 1 \in Nat /\ IsNewestAt(Tail(events), i - 1, list, n)
  BY <1>1 DEF IsNewestAt
<1> QED
  BY <1>2

(* Every step keeps the newest list of every stream. *)
LEMMA QueueNext == QueueInv /\ [BNext]_bvars => QueueInv'
<1> SUFFICES ASSUME QueueInv, [BNext]_bvars PROVE QueueInv'
  OBVIOUS
<1> USE DEF QueueInv
<1>1. CASE PublishTasks
  <2>1. /\ queue' = [s \in Streams |-> IF stream[s] = "open" THEN Put(queue[s], now) ELSE <<>>]
        /\ latest' = [s \in Streams |-> IF stream[s] = "open" THEN now ELSE None]
        /\ others' = 0 /\ UNCHANGED <<now, stream>>
    BY <1>1 DEF PublishTasks, Broadcast
  <2>2. now \in Events
    BY DEF QueueTypes, Events
  <2>3. \A s \in Streams : queue[s] \in Seq(Events) /\ Len(queue[s]) <= QueueSize
    BY DEF QueueTypes
  <2>4. QueueTypes'
    <3>1. \A s \in Streams : queue'[s] \in Seq(Events) /\ Len(queue'[s]) <= QueueSize
      BY <2>1, <2>2, <2>3, PutLast, QueueAssumption
    <3> QED
      BY <2>1, <3>1, QueueAssumption DEF QueueTypes
  <2>5. ASSUME NEW s \in Streams PROVE NewestHas(s)'
    <3> SUFFICES ASSUME stream[s] = "open"
                 PROVE  \E i \in Nat : IsNewestAt(queue'[s], i, now, 0)
      BY <2>1 DEF NewestHas
    <3>1. /\ queue'[s] \in Seq(Events) /\ Len(queue'[s]) # 0
          /\ queue'[s][Len(queue'[s])] = now
      BY <2>1, <2>2, <2>3, PutLast
    <3>2. Len(queue'[s]) \in Nat /\ IsNewestAt(queue'[s], Len(queue'[s]), now, 0)
      BY <3>1 DEF IsNewestAt
    <3> QED
      BY <3>2
  <2> QED
    BY <2>4, <2>5
<1>2. CASE PublishOther
  <2>1. /\ queue' = [s \in Streams |-> IF stream[s] = "open" THEN Put(queue[s], Other) ELSE <<>>]
        /\ others' = IF others = QueueSize THEN others ELSE others + 1
        /\ UNCHANGED <<latest, now, stream>>
    BY <1>2 DEF PublishOther, Broadcast
  <2>2. Other \in Events
    BY DEF Events
  <2>3. \A s \in Streams : queue[s] \in Seq(Events) /\ Len(queue[s]) <= QueueSize
    BY DEF QueueTypes
  <2>4. QueueTypes'
    <3>1. \A s \in Streams : queue'[s] \in Seq(Events) /\ Len(queue'[s]) <= QueueSize
      BY <2>1, <2>2, <2>3, PutLast, QueueAssumption
    <3> QED
      BY <2>1, <3>1, QueueAssumption DEF QueueTypes
  <2>5. ASSUME NEW s \in Streams PROVE NewestHas(s)'
    <3> SUFFICES ASSUME latest[s] # None, others' < QueueSize
                 PROVE  \E i \in Nat : IsNewestAt(queue'[s], i, latest[s], others')
      BY <2>1 DEF NewestHas
    <3>1. others \in Nat /\ others' = others + 1 /\ others + 1 < QueueSize
      BY <2>1, QueueAssumption DEF QueueTypes
    <3>2. PICK i \in Nat : IsNewestAt(queue[s], i, latest[s], others)
      BY <3>1, QueueAssumption DEF NewestHas
    <3>3. queue'[s] = Put(queue[s], Other)
      BY <2>1 DEF NewestHas
    <3> QED
      BY <2>3, <3>1, <3>2, <3>3, PutOther
  <2> QED
    BY <2>4, <2>5
<1>3. CASE OnOther \/ OnTasks
  <2>1. PICK s \in Streams :
          /\ queue[s] # <<>>
          /\ queue' = [queue EXCEPT ![s] = Tail(@)]
          /\ \/ Head(queue[s]) = Other /\ latest' = latest
             \/ /\ Head(queue[s]) # Other
                /\ latest' = [latest EXCEPT ![s] =
                     IF \E i \in DOMAIN Tail(queue[s]) : Tail(queue[s])[i] # Other
                     THEN @ ELSE None]
    BY <1>3 DEF OnOther, OnTasks
  <2>2. UNCHANGED <<now, others, stream>>
    BY <1>3 DEF OnOther, OnTasks, server
  <2>3. queue[s] \in Seq(Events) /\ Len(queue[s]) <= QueueSize
    BY DEF QueueTypes
  <2>4. /\ Tail(queue[s]) \in Seq(Events) /\ Len(Tail(queue[s])) = Len(queue[s]) - 1
        /\ \A j \in 1 .. Len(queue[s]) - 1 : Tail(queue[s])[j] = queue[s][j + 1]
        /\ Head(queue[s]) = queue[s][1]
    BY <2>1, <2>3, HeadTailProperties
  <2>5. latest' \in [Streams -> Versions \cup {None}] /\ latest'[s] \in {latest[s], None}
        /\ \A t \in Streams \ {s} : latest'[t] = latest[t]
    BY <2>1 DEF QueueTypes
  <2>6. QueueTypes'
    <3>1. queue' \in [Streams -> Seq(Events)]
      BY <2>1, <2>4 DEF QueueTypes
    <3>2. \A t \in Streams : Len(queue'[t]) <= QueueSize
      BY <2>1, <2>3, <2>4, QueueAssumption DEF QueueTypes
    <3> QED
      BY <2>2, <2>5, <3>1, <3>2 DEF QueueTypes
  <2>7. NewestHas(s)'
    <3> SUFFICES ASSUME latest'[s] # None
                 PROVE  /\ stream[s] = "open"
                        /\ others < QueueSize =>
                             \E i \in Nat : IsNewestAt(Tail(queue[s]), i, latest[s], others)
      BY <2>1, <2>2, <2>5 DEF NewestHas, QueueTypes
    <3>1. latest[s] # None
      BY <2>5
    <3>2. stream[s] = "open"
      BY <3>1 DEF NewestHas
    <3>3. ASSUME others < QueueSize
          PROVE  \E i \in Nat : IsNewestAt(Tail(queue[s]), i, latest[s], others)
      <4>1. PICK i \in Nat : IsNewestAt(queue[s], i, latest[s], others)
        BY <3>1, <3>3 DEF NewestHas
      <4>2. i # 1
        <5>1. CASE Head(queue[s]) = Other
          BY <2>4, <3>1, <4>1, <5>1, NoVersionAssumption DEF IsNewestAt, QueueTypes
        <5>2. CASE Head(queue[s]) # Other
          <6>1. \E j \in DOMAIN Tail(queue[s]) : Tail(queue[s])[j] # Other
            BY <2>1, <5>2 DEF QueueTypes
          <6>2. PICK j \in 1 .. Len(queue[s]) - 1 : queue[s][j + 1] # Other
            BY <2>3, <2>4, <6>1
          <6> QED
            BY <2>3, <4>1, <6>2 DEF IsNewestAt
        <5> QED
          BY <5>1, <5>2
      <4>3. others \in Nat
        BY DEF QueueTypes
      <4> QED
        BY <2>1, <2>3, <4>1, <4>2, <4>3, ReadEarlier
    <3> QED
      BY <3>2, <3>3
  <2>8. \A t \in Streams \ {s} : NewestHas(t)'
    BY <2>1, <2>2, <2>5 DEF NewestHas, QueueTypes
  <2> QED
    BY <2>6, <2>7, <2>8
<1>4. CASE Break \/ OnError \/ Unmount
  <2>1. PICK S \in SUBSET Streams, next \in {"none", "broken"} :
          /\ stream' = [t \in Streams |-> IF t \in S THEN next ELSE stream[t]]
          /\ queue' = [t \in Streams |-> IF t \in S THEN <<>> ELSE queue[t]]
          /\ latest' = [t \in Streams |-> IF t \in S THEN None ELSE latest[t]]
    <3>1. CASE Break
      <4>1. PICK s \in Streams :
              /\ stream' = [stream EXCEPT ![s] = "broken"]
              /\ queue' = [queue EXCEPT ![s] = <<>>]
              /\ latest' = [latest EXCEPT ![s] = None]
        BY <3>1 DEF Break
      <4> WITNESS {s} \in SUBSET Streams, "broken" \in {"none", "broken"}
      <4> QED
        BY <4>1 DEF QueueTypes
    <3>2. CASE OnError \/ Unmount
      <4> WITNESS {t \in Streams : t = current} \in SUBSET Streams, "none" \in {"none", "broken"}
      <4> QED
        BY <3>2 DEF OnError, Unmount, CloseCurrent, QueueTypes
    <3> QED
      BY <1>4, <3>1, <3>2
  <2>2. UNCHANGED <<now, others>>
    BY <1>4 DEF Break, OnError, Unmount, server
  <2>3. <<>> \in Seq(Events) /\ Len(<<>>) = 0
    OBVIOUS
  <2>4. QueueTypes'
    BY <2>1, <2>2, <2>3, QueueAssumption DEF QueueTypes, StreamStates
  <2>5. ASSUME NEW t \in Streams PROVE NewestHas(t)'
    BY <2>1, <2>2 DEF NewestHas
  <2> QED
    BY <2>4, <2>5
<1>5. CASE Subscribe \/ LoadInitial \/ Reconnect
  <2>1. UNCHANGED <<queue, latest, now, others>>
    BY <1>5 DEF Subscribe, LoadInitial, Reconnect, server
  <2>2. \/ stream' = stream
        \/ \E s \in Streams : /\ stream[s] # "open"
                             /\ stream' \in {[stream EXCEPT ![s] = "open"], [stream EXCEPT ![s] = "opening"]}
    BY <1>5 DEF Subscribe, LoadInitial, Reconnect, ConnectEvents
  <2>3. stream' \in [Streams -> StreamStates]
        /\ \A s \in Streams : stream[s] = "open" => stream'[s] = "open"
    BY <2>2 DEF QueueTypes, StreamStates
  <2> QED
    BY <2>1, <2>3 DEF QueueTypes, NewestHas
<1>6. CASE Change \/ Click
  <2>1. UNCHANGED <<queue, latest, stream, others>> /\ now' \in Versions
    BY <1>6, ViewBoundsAssumption DEF Change, Click, QueueTypes, Versions
  <2> QED
    BY <2>1 DEF QueueTypes, NewestHas
<1>7. CASE Reach \/ Answer \/ TimerFires \/ ReplaceTask \/ UNCHANGED bvars
  <2>1. UNCHANGED <<queue, latest, stream, others, now>>
    BY <1>7 DEF Reach, Answer, TimerFires, ReplaceTask, bvars, server
  <2> QED
    BY <2>1 DEF QueueTypes, NewestHas
<1> QED
  BY <1>1, <1>2, <1>3, <1>4, <1>5, <1>6, <1>7 DEF BNext

(* Whatever the capacity of a queue and however many events, the newest    *)
(* list is in it unless as many events as it holds have come since         *)
(* (events.py:30-41).                                                      *)
THEOREM NewestStaysQueued == BSpec => []NewestIsQueued
<1>1. BSpec => []QueueInv
  BY QueueInit, QueueNext, PTL DEF BSpec
<1> QED
  BY <1>1, QueueInvSuffices, PTL
=============================================================================
