--------------------------- MODULE AppServerClient ---------------------------
(***************************************************************************)
(* JSON-RPC with an App Server child process (codex_adapter/client.py).    *)
(*                                                                         *)
(* A call writes its request and waits for a future kept under its id; one *)
(* reader task per child resolves the futures and queues notifications.    *)
(* The refresh loop starts a new child whenever the client is not          *)
(* connected.  An action is what a task runs between two awaits; the       *)
(* children themselves are external: they answer late or never, tell, ask  *)
(* and die at any time.                                                    *)
(***************************************************************************)
EXTENDS Naturals, Sequences

CONSTANTS
  None,       \* nothing: no call, no result
  Callers,    \* tasks that make requests, one at a time each
  Starter,    \* the caller that reconnects
  QueueSize,  \* capacity of the notification queue
  MaxSpawns,  \* bound: children started
  MaxIds,     \* bound: requests made
  MaxNotes,   \* bound: notifications told
  MaxAsks,    \* bound: requests the children make themselves
  MaxLines    \* bound: lines in the pipe from a child

ASSUME CallersAssumption == Starter \in Callers
ASSUME ClientBoundsAssumption ==
  /\ QueueSize \in Nat \ {0}
  /\ {MaxSpawns, MaxIds, MaxNotes, MaxAsks, MaxLines} \subseteq Nat

Children == 1 .. MaxSpawns
Ids == 1 .. MaxIds

(* What a child writes, and what a caller waits for.  A future holds an    *)
(* answer, nothing (the message had no result) or an error, and "from" the *)
(* child whose line resolved it, if a line did.                            *)
Lines == [kind : {"answer", "refusal", "ask"}, id : Ids] \cup [kind : {"note"}, id : 1 .. MaxNotes]
Calls ==
  [kind : {"handshake", "request"}, child : Children, id : Ids,
   future : {"pending", "answer", "nothing", "error"}, from : Children \cup {None}]
  \cup {[kind |-> "spawn"]}

ASSUME NoneAssumption == None \notin Nat /\ None \notin Calls

VARIABLES
  child,        \* external: [Children -> none, running, dead or exited (noticed)]
  inbox,        \* external: ids of the requests a child has yet to answer
  out,          \* the lines a child has written and the reader has not read
  told,         \* external: notifications told so far
  asked,        \* external: requests the children have made
  current,      \* _process: the child in use, or None
  reader,       \* [Children -> none, reading or done]
  call,         \* what each caller waits for, or None
  nextId,       \* _next_id
  initialized,  \* _initialized
  stopping,     \* _stopping
  queue,        \* _notifications
  newest,       \* history: the last notification a reader took, or None
  up            \* the service runs

external == <<child, inbox, out, told, asked>>
connection == <<current, reader, initialized, stopping>>
cvars == <<external, connection, call, nextId, queue, newest, up>>

(* The children started so far. *)
Spawned == {g \in Children : child[g] # "none"}

CInit ==
  /\ child = [g \in Children |-> "none"]
  /\ inbox = [g \in Children |-> {}]
  /\ out = [g \in Children |-> <<>>]
  /\ told = 0
  /\ asked = 0
  /\ current = None
  /\ reader = [g \in Children |-> "none"]
  /\ call = [c \in Callers |-> None]
  /\ nextId = 1
  /\ initialized = FALSE
  /\ stopping = FALSE
  /\ queue = <<>>
  /\ newest = None
  /\ up = TRUE

----------------------------------------------------------------------------
(* The children.                                                           *)

Write(g, kind, id) ==
  /\ child[g] = "running"
  /\ Len(out[g]) < MaxLines
  /\ out' = [out EXCEPT ![g] = Append(@, [kind |-> kind, id |-> id])]

Answer(g, id) ==
  /\ id \in inbox[g]
  /\ inbox' = [inbox EXCEPT ![g] = @ \ {id}]
  /\ Write(g, "answer", id) \/ Write(g, "refusal", id)
  /\ UNCHANGED <<child, told, asked, connection, call, nextId, queue, newest, up>>

Tell(g) ==
  /\ told < MaxNotes
  /\ told' = told + 1
  /\ Write(g, "note", told')
  /\ UNCHANGED <<child, inbox, asked, connection, call, nextId, queue, newest, up>>

(* A request of the server's own, under an id of its own counting.         *)
Ask(g, id) ==
  /\ asked < MaxAsks
  /\ asked' = asked + 1
  /\ Write(g, "ask", id)
  /\ UNCHANGED <<child, inbox, told, connection, call, nextId, queue, newest, up>>

(* A child dies; the event loop notices it later, before or after the end  *)
(* of its output.                                                          *)
Die(g) ==
  /\ child[g] = "running"
  /\ child' = [child EXCEPT ![g] = "dead"]
  /\ UNCHANGED <<inbox, out, told, asked, connection, call, nextId, queue, newest, up>>

NoticeExit(g) ==
  /\ child[g] = "dead"
  /\ child' = [child EXCEPT ![g] = "exited"]
  /\ UNCHANGED <<inbox, out, told, asked, connection, call, nextId, queue, newest, up>>

----------------------------------------------------------------------------
(* The callers.                                                            *)

Connected ==
  /\ current # None
  /\ child[current] # "exited"
  /\ initialized

Waiting(c) == call[c] # None /\ call[c].kind # "spawn"
Unresolved(c) == Waiting(c) /\ call[c].future = "pending"

(* A call whose future is kept in _pending. *)
Pending(kind, g) ==
  [kind |-> kind, child |-> g, id |-> nextId, future |-> "pending", from |-> None]

(* Fault: a child that still runs is taken for a connection. *)
BeginStartIfExited(c) ==
  /\ up
  /\ c = Starter
  /\ call[c] = None
  /\ current # None => child[current] = "exited"
  /\ Spawned # Children
  /\ stopping' = FALSE
  /\ initialized' = FALSE
  /\ call' = [call EXCEPT ![c] = [kind |-> "spawn"]]
  /\ UNCHANGED <<external, current, reader, nextId, queue, newest, up>>

(* start() does nothing when the client is connected. *)
BeginStart(c) ==
  /\ up
  /\ c = Starter
  /\ call[c] = None
  /\ ~ Connected
  /\ Spawned # Children
  /\ stopping' = FALSE
  /\ initialized' = FALSE
  /\ call' = [call EXCEPT ![c] = [kind |-> "spawn"]]
  /\ UNCHANGED <<external, current, reader, nextId, queue, newest, up>>

(* Fault: every child counts its requests from 1. *)
SpawnCountsAnew(c) ==
  /\ call[c] # None /\ call[c].kind = "spawn"
  /\ \E g \in Children :
       /\ child[g] = "none"
       /\ \A h \in Children : h < g => child[h] # "none"
       /\ child' = [child EXCEPT ![g] = "running"]
       /\ reader' = [reader EXCEPT ![g] = "reading"]
       /\ inbox' = [inbox EXCEPT ![g] = {1}]
       /\ current' = g
       /\ call' = [call EXCEPT ![c] = [Pending("handshake", g) EXCEPT !.id = 1]]
  /\ nextId' = 2
  /\ UNCHANGED <<out, told, asked, initialized, stopping, queue, newest, up>>

(* The child runs: its reader starts and "initialize" is written.          *)
Spawn(c) ==
  /\ call[c] # None /\ call[c].kind = "spawn"
  /\ nextId \in Ids
  /\ \E g \in Children :
       /\ child[g] = "none"
       /\ \A h \in Children : h < g => child[h] # "none"
       /\ child' = [child EXCEPT ![g] = "running"]
       /\ reader' = [reader EXCEPT ![g] = "reading"]
       /\ inbox' = [inbox EXCEPT ![g] = {nextId}]
       /\ current' = g
       /\ call' = [call EXCEPT ![c] = Pending("handshake", g)]
  /\ nextId' = nextId + 1
  /\ UNCHANGED <<out, told, asked, initialized, stopping, queue, newest, up>>

(* The command cannot be executed. *)
SpawnFails(c) ==
  /\ call[c] # None /\ call[c].kind = "spawn"
  /\ call' = [call EXCEPT ![c] = None]
  /\ UNCHANGED <<external, connection, nextId, queue, newest, up>>

(* What is written to a dead child is lost or refused. *)
Request(c) ==
  /\ up
  /\ call[c] = None
  /\ Connected
  /\ nextId \in Ids
  /\ nextId' = nextId + 1
  /\ \/ /\ inbox' = [inbox EXCEPT ![current] = @ \cup {nextId}]
        /\ call' = [call EXCEPT ![c] = Pending("request", current)]
     \/ child[current] = "dead" /\ UNCHANGED <<inbox, call>>
  /\ UNCHANGED <<child, out, told, asked, connection, queue, newest, up>>

(* The caller goes on once its future is resolved.  A handshake is over    *)
(* when the notification "initialized" could be written as well.           *)
Resume(c) ==
  /\ Waiting(c)
  /\ ~ Unresolved(c)
  /\ call' = [call EXCEPT ![c] = None]
  /\ IF call[c].kind = "handshake" /\ call[c].future # "error"
     THEN \/ child[current] # "exited" /\ initialized' = TRUE
          \/ child[current] # "running" /\ UNCHANGED initialized
     ELSE UNCHANGED initialized
  /\ UNCHANGED <<external, current, reader, stopping, nextId, queue, newest, up>>

(* The timeout may also win against an answer just read.  It covers the    *)
(* wait for the answer only: that a child which reads nothing holds up the *)
(* write before it (client.py:174) is left out.                            *)
Timeout(c) ==
  /\ Waiting(c)
  /\ call' = [call EXCEPT ![c] = None]
  /\ UNCHANGED <<external, connection, nextId, queue, newest, up>>

----------------------------------------------------------------------------
(* The readers.                                                            *)

(* What a line with an integer id makes of a future: an object "error" is  *)
(* raised, a request of the server's own has no "result".                  *)
Outcome(line) ==
  [answer |-> "answer", refusal |-> "error", ask |-> "nothing"][line.kind]

(* A line with an integer id resolves the future kept under that id, any   *)
(* other message is queued; a full queue drops its oldest entry.           *)
Resolve(g, line) ==
  [c \in Callers |->
     IF Unresolved(c) /\ call[c].id = line.id
     THEN [call[c] EXCEPT !.future = Outcome(line), !.from = g]
     ELSE call[c]]

(* Fault: a full queue drops what comes in. *)
PublishDropsNew(n) == IF Len(queue) = QueueSize THEN queue ELSE Append(queue, n)

(* Fault: a full queue grows. *)
PublishGrows(n) == Append(queue, n)

Publish(n) == Append(IF Len(queue) = QueueSize THEN Tail(queue) ELSE queue, n)

ReadLine(g) ==
  /\ reader[g] = "reading"
  /\ out[g] # <<>>
  /\ out' = [out EXCEPT ![g] = Tail(@)]
  /\ LET line == Head(out[g]) IN
     IF line.kind = "note"
     THEN /\ queue' = Publish(line.id)
          /\ newest' = line.id
          /\ UNCHANGED call
     ELSE /\ call' = Resolve(g, line)
          /\ UNCHANGED <<queue, newest>>
  /\ UNCHANGED <<child, inbox, told, asked, connection, nextId, up>>

(* Fault: the calls are left to their timeouts. *)
FailNobody == call

FailPending ==
  [c \in Callers |->
     IF Unresolved(c) THEN [call[c] EXCEPT !.future = "error"] ELSE call[c]]

(* The output ends, or a line is too long to be read.  Callers resolved    *)
(* before have been scheduled earlier and have gone on.                    *)
EndRead(g) ==
  /\ reader[g] = "reading"
  /\ out[g] = <<>>
  /\ \A c \in Callers : Waiting(c) => Unresolved(c)
  /\ reader' = [reader EXCEPT ![g] = "done"]
  /\ IF stopping
     THEN UNCHANGED <<initialized, call>>
     ELSE initialized' = FALSE /\ call' = FailPending
  /\ UNCHANGED <<external, current, stopping, nextId, queue, newest, up>>

Consume ==
  /\ up
  /\ queue # <<>>
  /\ queue' = Tail(queue)
  /\ UNCHANGED <<external, connection, call, nextId, newest, up>>

----------------------------------------------------------------------------
(* The end of the service: the loops are cancelled, then stop() closes the *)
(* input of its child, waits, terminates it if need be and cancels its     *)
(* reader.                                                                 *)

Stop ==
  /\ up
  /\ up' = FALSE
  /\ call' = [c \in Callers |-> None]
  /\ initialized' = FALSE
  /\ stopping' = (current # None)
  /\ UNCHANGED <<external, current, reader, nextId, queue, newest>>

FinishStop ==
  /\ ~ up
  /\ current # None
  /\ reader' = [reader EXCEPT ![current] = "done"]
  /\ current' = None
  /\ UNCHANGED <<external, initialized, stopping, call, nextId, queue, newest, up>>

----------------------------------------------------------------------------

CNext ==
  \/ \E g \in Children :
       \/ \E id \in Ids : Answer(g, id) \/ Ask(g, id)
       \/ Tell(g) \/ Die(g) \/ NoticeExit(g)
       \/ ReadLine(g) \/ EndRead(g)
  \/ \E c \in Callers :
       \/ BeginStart(c) \/ Spawn(c) \/ SpawnFails(c)
       \/ Request(c) \/ Resume(c) \/ Timeout(c)
  \/ Consume
  \/ Stop
  \/ FinishStop

ClientSpec == CInit /\ [][CNext]_cvars

(* The refresh loop comes back after each pause, futures and timers wake   *)
(* their tasks, and the command can be executed again and again.           *)
ClientFairSpec ==
  /\ ClientSpec
  /\ WF_cvars(BeginStart(Starter))
  /\ SF_cvars(Spawn(Starter))
  /\ \A c \in Callers : WF_cvars(Resume(c) \/ Timeout(c))

----------------------------------------------------------------------------
(* Properties                                                              *)

ClientTypeOK ==
  /\ child \in [Children -> {"none", "running", "dead", "exited"}]
  /\ inbox \in [Children -> SUBSET Ids]
  /\ out \in [Children -> Seq(Lines)]
  /\ told \in 0 .. MaxNotes
  /\ asked \in 0 .. MaxAsks
  /\ current \in Children \cup {None}
  /\ reader \in [Children -> {"none", "reading", "done"}]
  /\ call \in [Callers -> Calls \cup {None}]
  /\ nextId \in 1 .. MaxIds + 1
  /\ initialized \in BOOLEAN
  /\ stopping \in BOOLEAN
  /\ queue \in Seq(1 .. MaxNotes) /\ Len(queue) <= QueueSize
  /\ newest \in 1 .. MaxNotes \cup {None}
  /\ up \in BOOLEAN

(* An answer or a refusal is for the request it resolves: it comes from    *)
(* the child the request was written to, never from a previous one, and    *)
(* never from a call that timed out (_resolve_response, _next_id).  A      *)
(* request of the server's own under the number of a call is the           *)
(* exception: client.py:194-195 takes it for a response, and the call,     *)
(* even that of a handshake, is over with nothing for an answer.           *)
AnswersItsRequest ==
  \A c \in Callers :
    Waiting(c) /\ call[c].from # None /\ call[c].future # "nothing" =>
      call[c].from = call[c].child

(* A call that waits has the reader of its own child: when a connection    *)
(* breaks its calls fail at once and are not left to time out              *)
(* (_fail_pending in _read_stdout).                                        *)
WaitingIsServed ==
  \A c \in Callers : Unresolved(c) => reader[call[c].child] = "reading"

(* However slow the consumer, the latest notification is not the one that  *)
(* is dropped (_publish_notification).                                     *)
NewestIsKept == queue # <<>> => queue[Len(queue)] = newest

(* The refresh loop "is in charge of reconnecting" (runtime.py:133):       *)
(* whatever broke, it connects or tries another child, as long as the loop *)
(* itself goes on, which it does after every exception of a refresh.       *)
Reconnects ==
  \A n \in 0 .. MaxSpawns :
    (up /\ ~ Connected /\ Spawned = 1 .. n)
      ~> (~ up \/ Connected \/ Spawned # 1 .. n \/ n = MaxSpawns \/ nextId > MaxIds)
=============================================================================
