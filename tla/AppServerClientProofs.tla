------------------------ MODULE AppServerClientProofs ------------------------
(***************************************************************************)
(* The invariants of AppServerClient for any callers, any number of        *)
(* children, requests and notifications, and any size of the queue.        *)
(***************************************************************************)
EXTENDS AppServerClient, SequenceTheorems, TLAPS

(* A child is to answer request i, or has and it is not read yet. *)
Owes(g, i) ==
  \/ i \in inbox[g]
  \/ \E n \in 1 .. Len(out[g]) : out[g][n].kind \in {"answer", "refusal"} /\ out[g][n].id = i

(* Ids are never given twice, so what a child owes was asked of it.        *)
IdInv ==
  /\ \A g \in Children, i \in Ids : Owes(g, i) => i < nextId
  /\ \A c \in Callers : Waiting(c) => call[c].id < nextId
  /\ \A c \in Callers, g \in Children :
       Waiting(c) /\ Owes(g, call[c].id) => call[c].child = g

(* A live connection is read; so is that of every call that has not been   *)
(* told otherwise.  Only the starter shakes hands, with the child in use.  *)
ServedInv ==
  /\ up => ~ stopping
  /\ ~ up => ~ initialized /\ \A c \in Callers : call[c] = None
  /\ initialized => current # None /\ reader[current] = "reading"
  /\ \A c \in Callers : call[c] # None /\ call[c].kind # "request" => c = Starter
  /\ \A c \in Callers : Waiting(c) /\ call[c].kind = "handshake" => call[c].child = current
  /\ \A c \in Callers : Waiting(c) /\ call[c].future # "error" => reader[call[c].child] = "reading"

CInv == ClientTypeOK /\ IdInv /\ ServedInv /\ AnswersItsRequest

----------------------------------------------------------------------------
(* Types.                                                                  *)

(* What the constants are. *)
LEMMA ConstantsAreNumbers ==
  /\ QueueSize \in Nat \ {0}
  /\ MaxSpawns \in Nat /\ MaxIds \in Nat /\ MaxNotes \in Nat /\ MaxAsks \in Nat
  /\ None \notin Nat /\ None \notin Children /\ None \notin Calls
  /\ Starter \in Callers
BY CallersAssumption, ClientBoundsAssumption, NoneAssumption DEF Children

(* A call that waits is a record with a future. *)
LEMMA WaitingCall ==
  ASSUME ClientTypeOK, NEW c \in Callers, Waiting(c)
  PROVE  call[c] \in [kind : {"handshake", "request"}, child : Children, id : Ids,
                      future : {"pending", "answer", "nothing", "error"},
                      from : Children \cup {None}]
BY DEF ClientTypeOK, Calls, Waiting

(* A future that is resolved keeps its call. *)
LEMMA ResolvedCall ==
  ASSUME ClientTypeOK, NEW c \in Callers, Waiting(c),
         NEW f \in {"answer", "nothing", "error"}, NEW g \in Children \cup {None}
  PROVE  [call[c] EXCEPT !.future = f, !.from = g] \in Calls
BY WaitingCall DEF Calls

(* Publishing keeps the queue within its size. *)
LEMMA PublishBounds ==
  ASSUME ClientTypeOK, NEW n \in 1 .. MaxNotes
  PROVE  /\ Publish(n) \in Seq(1 .. MaxNotes)
         /\ Len(Publish(n)) \in 1 .. QueueSize
         /\ Publish(n)[Len(Publish(n))] = n
<1> DEFINE rest == IF Len(queue) = QueueSize THEN Tail(queue) ELSE queue
<1>1. queue \in Seq(1 .. MaxNotes) /\ Len(queue) <= QueueSize /\ QueueSize \in Nat \ {0}
  BY ConstantsAreNumbers DEF ClientTypeOK
<1>2. rest \in Seq(1 .. MaxNotes) /\ Len(rest) < QueueSize
  <2>1. CASE Len(queue) = QueueSize
    <3>1. queue # <<>>
      BY <1>1, <2>1
    <3> QED BY <1>1, <2>1, <3>1
  <2>2. CASE Len(queue) # QueueSize
    BY <1>1, <2>2
  <2> QED BY <2>1, <2>2
<1> HIDE DEF rest
<1>3. /\ Append(rest, n) \in Seq(1 .. MaxNotes)
      /\ Len(Append(rest, n)) \in 1 .. QueueSize
      /\ Append(rest, n)[Len(Append(rest, n))] = n
  BY <1>1, <1>2
<1> QED BY <1>3 DEF Publish, rest

(* Every step keeps the types. *)
LEMMA TypeStep ==
  ASSUME ClientTypeOK, [CNext]_cvars
  PROVE  ClientTypeOK'
<1> USE ConstantsAreNumbers DEF external, connection
<1>1. ASSUME NEW g \in Children, NEW id \in Ids, Answer(g, id)
      PROVE  ClientTypeOK'
  <2>1. \E kind \in {"answer", "refusal"} :
          out' = [out EXCEPT ![g] = Append(@, [kind |-> kind, id |-> id])]
    BY <1>1 DEF Answer, Write
  <2>2. out' \in [Children -> Seq(Lines)]
    BY <2>1 DEF ClientTypeOK, Lines
  <2> QED BY <1>1, <2>2 DEF ClientTypeOK, Answer
<1>2. ASSUME NEW g \in Children, NEW id \in Ids, Ask(g, id)
      PROVE  ClientTypeOK'
  BY <1>2 DEF ClientTypeOK, Ask, Write, Lines
<1>3. ASSUME NEW g \in Children, Tell(g)
      PROVE  ClientTypeOK'
  BY <1>3 DEF ClientTypeOK, Tell, Write, Lines
<1>4. ASSUME NEW g \in Children, Die(g) \/ NoticeExit(g)
      PROVE  ClientTypeOK'
  BY <1>4 DEF ClientTypeOK, Die, NoticeExit
<1>5. ASSUME NEW g \in Children, ReadLine(g)
      PROVE  ClientTypeOK'
  <2> DEFINE line == Head(out[g])
  <2>1. line \in Lines /\ out' \in [Children -> Seq(Lines)]
    BY <1>5 DEF ReadLine, ClientTypeOK
  <2>2. CASE line.kind = "note"
    <3>1. line.id \in 1 .. MaxNotes
      BY <2>1, <2>2 DEF Lines
    <3>2. queue' = Publish(line.id) /\ newest' = line.id /\ UNCHANGED call
      BY <1>5, <2>2 DEF ReadLine
    <3>3. queue' \in Seq(1 .. MaxNotes) /\ Len(queue') <= QueueSize
      <4>1. /\ Publish(line.id) \in Seq(1 .. MaxNotes)
            /\ Len(Publish(line.id)) \in 1 .. QueueSize
        BY <3>1, PublishBounds
      <4> HIDE DEF line
      <4> QED BY <3>2, <4>1
    <3> QED BY <1>5, <2>1, <3>1, <3>2, <3>3 DEF ReadLine, ClientTypeOK
  <2>3. CASE line.kind # "note"
    <3>1. call' = Resolve(g, line) /\ UNCHANGED <<queue, newest>>
      BY <1>5, <2>3 DEF ReadLine
    <3>2. Outcome(line) \in {"answer", "nothing", "error"}
      BY <2>1, <2>3 DEF Lines, Outcome
    <3>3. Resolve(g, line) \in [Callers -> Calls \cup {None}]
      BY <3>2, ResolvedCall DEF Resolve, Unresolved, ClientTypeOK
    <3> QED BY <1>5, <2>1, <3>1, <3>3 DEF ReadLine, ClientTypeOK
  <2> QED BY <2>2, <2>3
<1>6. ASSUME NEW g \in Children, EndRead(g)
      PROVE  ClientTypeOK'
  <2>1. FailPending \in [Callers -> Calls \cup {None}]
    BY WaitingCall DEF FailPending, Unresolved, ClientTypeOK, Calls
  <2> QED BY <1>6, <2>1 DEF ClientTypeOK, EndRead
<1>7. ASSUME NEW c \in Callers, BeginStart(c) \/ SpawnFails(c)
      PROVE  ClientTypeOK'
  BY <1>7 DEF ClientTypeOK, BeginStart, SpawnFails, Calls
<1>8. ASSUME NEW c \in Callers, Spawn(c)
      PROVE  ClientTypeOK'
  BY <1>8 DEF ClientTypeOK, Spawn, Pending, Calls, Ids
<1>9. ASSUME NEW c \in Callers, Request(c)
      PROVE  ClientTypeOK'
  <2>1. current \in Children /\ nextId \in Ids /\ nextId' \in 1 .. MaxIds + 1
    BY <1>9 DEF Request, Connected, ClientTypeOK, Ids
  <2>2. Pending("request", current) \in Calls
    BY <2>1 DEF Pending, Calls
  <2>3. CASE UNCHANGED <<inbox, call>>
    BY <1>9, <2>1, <2>3 DEF ClientTypeOK, Request
  <2>4. CASE /\ inbox' = [inbox EXCEPT ![current] = @ \cup {nextId}]
             /\ call' = [call EXCEPT ![c] = Pending("request", current)]
    <3>1. inbox' \in [Children -> SUBSET Ids]
      BY <2>1, <2>4 DEF ClientTypeOK
    <3>2. call' \in [Callers -> Calls \cup {None}]
      BY <2>2, <2>4 DEF ClientTypeOK
    <3> QED BY <1>9, <2>1, <3>1, <3>2 DEF ClientTypeOK, Request
  <2> QED BY <1>9, <2>3, <2>4 DEF Request
<1>10. ASSUME NEW c \in Callers, Resume(c) \/ Timeout(c)
       PROVE  ClientTypeOK'
  BY <1>10 DEF ClientTypeOK, Resume, Timeout
<1>11. ASSUME Consume
       PROVE  ClientTypeOK'
  BY <1>11 DEF ClientTypeOK, Consume
<1>12. ASSUME Stop \/ FinishStop
       PROVE  ClientTypeOK'
  BY <1>12 DEF ClientTypeOK, Stop, FinishStop
<1>13. CASE UNCHANGED cvars
  BY <1>13 DEF ClientTypeOK, cvars
<1> QED
  BY <1>1, <1>2, <1>3, <1>4, <1>5, <1>6, <1>7, <1>8, <1>9, <1>10, <1>11, <1>12, <1>13
  DEF CNext

----------------------------------------------------------------------------
(* Ids.                                                                    *)

(* A reply that is written was owed, one that is read is owed no more, and *)
(* nothing else a child does makes it owe.                                 *)
LEMMA WriteOwes ==
  ASSUME ClientTypeOK, NEW g \in Children, NEW kind, NEW id, Write(g, kind, id),
         kind \in {"answer", "refusal"} => id \in inbox[g],
         \A h \in Children : inbox'[h] \subseteq inbox[h]
  PROVE  \A h \in Children, i \in Ids : Owes(h, i)' => Owes(h, i)
<1> SUFFICES ASSUME NEW h \in Children, NEW i \in Ids, Owes(h, i)'
             PROVE  Owes(h, i)
  OBVIOUS
<1> DEFINE line == [kind |-> kind, id |-> id]
<1>1. out[g] \in Seq(Lines) /\ out' = [out EXCEPT ![g] = Append(@, line)]
  BY DEF Write, ClientTypeOK
<1>2. CASE i \in inbox'[h]
  BY <1>2 DEF Owes
<1>3. CASE i \notin inbox'[h]
  <2>1. PICK n \in 1 .. Len(out'[h]) :
          out'[h][n].kind \in {"answer", "refusal"} /\ out'[h][n].id = i
    BY <1>3 DEF Owes
  <2>2. CASE h # g
    <3>1. out'[h] = out[h]
      BY <1>1, <2>2 DEF ClientTypeOK
    <3> QED BY <2>1, <3>1 DEF Owes
  <2>3. CASE h = g
    <3>1. out'[g] = Append(out[g], line)
      BY <1>1 DEF ClientTypeOK
    <3>2. CASE n = Len(out[g]) + 1
      <4>1. out'[g][n] = line
        BY <1>1, <3>1, <3>2
      <4> QED BY <2>1, <2>3, <4>1 DEF Owes
    <3>3. CASE n # Len(out[g]) + 1
      <4>1. n \in 1 .. Len(out[g]) /\ out'[g][n] = out[g][n]
        BY <1>1, <2>1, <2>3, <3>1, <3>3
      <4> QED BY <2>1, <2>3, <4>1 DEF Owes
    <3> QED BY <3>2, <3>3
  <2> QED BY <2>2, <2>3
<1> QED BY <1>2, <1>3

(* Reading makes no child owe more. *)
LEMMA ReadOwes ==
  ASSUME ClientTypeOK, NEW g \in Children, ReadLine(g)
  PROVE  \A h \in Children, i \in Ids : Owes(h, i)' => Owes(h, i)
<1> SUFFICES ASSUME NEW h \in Children, NEW i \in Ids, Owes(h, i)'
             PROVE  Owes(h, i)
  OBVIOUS
<1>1. out[g] \in Seq(Lines) /\ out[g] # <<>> /\ out' = [out EXCEPT ![g] = Tail(@)] /\ inbox' = inbox
  BY DEF ReadLine, ClientTypeOK
<1>2. CASE i \in inbox[h]
  BY <1>2 DEF Owes
<1>3. CASE i \notin inbox[h]
  <2>1. PICK n \in 1 .. Len(out'[h]) :
          out'[h][n].kind \in {"answer", "refusal"} /\ out'[h][n].id = i
    BY <1>1, <1>3 DEF Owes
  <2>2. CASE h # g
    BY <1>1, <2>1, <2>2 DEF Owes, ClientTypeOK
  <2>3. CASE h = g
    <3>1. out'[g] = Tail(out[g])
      BY <1>1 DEF ClientTypeOK
    <3>2. Len(Tail(out[g])) = Len(out[g]) - 1 /\ Len(out[g]) \in Nat
      BY <1>1
    <3>3. n + 1 \in 1 .. Len(out[g])
      BY <2>1, <2>3, <3>1, <3>2
    <3>4. out'[g][n] = out[g][n + 1]
      BY <1>1, <2>1, <2>3, <3>1, <3>2, HeadTailProperties
    <3> QED BY <2>1, <2>3, <3>3, <3>4 DEF Owes
  <2> QED BY <2>2, <2>3
<1> QED BY <1>2, <1>3

(* A step after which no child owes more, no id was given and no call is   *)
(* new keeps what is known of ids.                                         *)
LEMMA IdKept ==
  ASSUME ClientTypeOK, ClientTypeOK', IdInv, nextId' = nextId,
         \A h \in Children, i \in Ids : Owes(h, i)' => Owes(h, i),
         \A c \in Callers : Waiting(c)' =>
           /\ Waiting(c)
           /\ call'[c].id = call[c].id
           /\ call'[c].child = call[c].child
  PROVE  IdInv'
<1>1. \A c \in Callers : Waiting(c) => call[c].id \in Ids
  BY WaitingCall
<1> QED BY <1>1 DEF IdInv

(* A step that asks child g under a new id. *)
LEMMA IdAsked ==
  ASSUME ClientTypeOK, ClientTypeOK', IdInv, NEW c \in Callers, NEW g \in Children,
         nextId \in Ids, nextId' = nextId + 1, out' = out,
         \A h \in Children : h # g => inbox'[h] = inbox[h],
         inbox'[g] \subseteq inbox[g] \cup {nextId},
         \A d \in Callers : d # c => call'[d] = call[d],
         call'[c] = Pending("handshake", g) \/ call'[c] = Pending("request", g)
  PROVE  IdInv'
<1>1. \A h \in Children, i \in Ids : Owes(h, i)' => Owes(h, i) \/ (h = g /\ i = nextId)
  BY DEF Owes
<1>2. Waiting(c)' /\ call'[c].id = nextId /\ call'[c].child = g
  <2>1. call'[c] # None
    BY ConstantsAreNumbers DEF Pending, Calls, Ids
  <2> QED BY <2>1 DEF Pending, Waiting
<1>3. \A d \in Callers : d # c => (Waiting(d)' <=> Waiting(d))
  BY DEF Waiting
<1>4. \A d \in Callers : Waiting(d) => call[d].id \in Ids
  BY WaitingCall
<1>5. nextId \in Nat
  BY DEF ClientTypeOK
<1>6. \A h \in Children, i \in Ids : Owes(h, i)' => i < nextId'
  BY <1>1, <1>5 DEF IdInv, Ids
<1>7. \A d \in Callers : Waiting(d)' => call'[d].id < nextId'
  BY <1>2, <1>3, <1>4, <1>5 DEF IdInv, Ids
<1>8. ASSUME NEW d \in Callers, NEW h \in Children, (Waiting(d) /\ Owes(h, call[d].id))'
      PROVE  (call[d].child = h)'
  <2>1. CASE d = c
    <3>1. \A i \in Ids : i = nextId /\ Owes(h, i)' => h = g
      BY <1>1, <1>5 DEF IdInv
    <3>2. \E i \in Ids : i = nextId /\ Owes(h, i)'
      BY <1>2, <1>8, <2>1 DEF Owes
    <3> QED BY <1>2, <2>1, <3>1, <3>2
  <2>2. CASE d # c
    <3>1. Waiting(d) /\ call'[d] = call[d] /\ call[d].id \in Ids /\ call[d].id < nextId
      BY <1>3, <1>4, <1>8, <2>2 DEF IdInv
    <3>2. call[d].id # nextId
      BY <1>5, <3>1 DEF Ids
    <3>3. \E i \in Ids : i = call[d].id /\ Owes(h, i)'
      BY <1>8, <3>1 DEF Owes
    <3>4. Owes(h, call[d].id)
      BY <1>1, <3>2, <3>3
    <3> QED BY <3>1, <3>4 DEF IdInv
  <2> QED BY <2>1, <2>2
<1> QED BY <1>6, <1>7, <1>8 DEF IdInv

(* Every step keeps what is known of ids. *)
LEMMA IdStep ==
  ASSUME ClientTypeOK, ClientTypeOK', IdInv, [CNext]_cvars
  PROVE  IdInv'
<1> USE DEF external, connection
<1> DEFINE Kept ==
      /\ nextId' = nextId
      /\ \A h \in Children, i \in Ids : Owes(h, i)' => Owes(h, i)
      /\ \A c \in Callers : Waiting(c)' =>
           /\ Waiting(c)
           /\ call'[c].id = call[c].id
           /\ call'[c].child = call[c].child
<1>0. Kept => IdInv'
  BY IdKept
<1>a. UNCHANGED <<inbox, out>> => \A h \in Children, i \in Ids : Owes(h, i)' => Owes(h, i)
  BY DEF Owes
<1>b. UNCHANGED call => \A c \in Callers : Waiting(c)' => Waiting(c) /\ call'[c] = call[c]
  BY DEF Waiting
<1>1. ASSUME NEW g \in Children, NEW id \in Ids, Answer(g, id)
      PROVE  IdInv'
  <2>1. \A h \in Children, i \in Ids : Owes(h, i)' => Owes(h, i)
    <3>1. \E kind \in {"answer", "refusal"} : Write(g, kind, id)
      BY <1>1 DEF Answer
    <3>2. id \in inbox[g] /\ \A h \in Children : inbox'[h] \subseteq inbox[h]
      BY <1>1 DEF Answer, ClientTypeOK
    <3> QED BY <3>1, <3>2, WriteOwes
  <2> QED BY <1>0, <1>1, <1>b, <2>1 DEF Answer
<1>2. ASSUME NEW g \in Children, NEW id \in Ids, Ask(g, id)
      PROVE  IdInv'
  <2>1. \A h \in Children, i \in Ids : Owes(h, i)' => Owes(h, i)
    <3>1. Write(g, "ask", id) /\ inbox' = inbox
      BY <1>2 DEF Ask
    <3> QED BY <3>1, WriteOwes
  <2> QED BY <1>0, <1>2, <1>b, <2>1 DEF Ask
<1>3. ASSUME NEW g \in Children, Tell(g)
      PROVE  IdInv'
  <2>1. \A h \in Children, i \in Ids : Owes(h, i)' => Owes(h, i)
    <3>1. Write(g, "note", told') /\ inbox' = inbox
      BY <1>3 DEF Tell
    <3> QED BY <3>1, WriteOwes
  <2> QED BY <1>0, <1>3, <1>b, <2>1 DEF Tell
<1>4. ASSUME NEW g \in Children, ReadLine(g)
      PROVE  IdInv'
  <2>1. \A h \in Children, i \in Ids : Owes(h, i)' => Owes(h, i)
    BY <1>4, ReadOwes
  <2>2. call' = Resolve(g, Head(out[g])) \/ call' = call
    BY <1>4 DEF ReadLine
  <2>3. ASSUME NEW c \in Callers, Waiting(c)'
        PROVE  Waiting(c) /\ call'[c].id = call[c].id /\ call'[c].child = call[c].child
    <3>1. CASE call'[c] = call[c]
      BY <2>3, <3>1 DEF Waiting
    <3>2. CASE call'[c] # call[c]
      <4>1. PICK f, by : call'[c] = [call[c] EXCEPT !.future = f, !.from = by] /\ Waiting(c)
        BY <2>2, <3>2 DEF Resolve, Unresolved
      <4> QED BY <4>1, WaitingCall
    <3> QED BY <3>1, <3>2
  <2> QED BY <1>0, <1>4, <2>1, <2>3 DEF ReadLine
<1>5. ASSUME NEW g \in Children, EndRead(g)
      PROVE  IdInv'
  <2>1. call' = FailPending \/ call' = call
    BY <1>5 DEF EndRead
  <2>2. ASSUME NEW c \in Callers, Waiting(c)'
        PROVE  Waiting(c) /\ call'[c].id = call[c].id /\ call'[c].child = call[c].child
    <3>1. CASE call'[c] = call[c]
      BY <2>2, <3>1 DEF Waiting
    <3>2. CASE call'[c] # call[c]
      <4>1. call'[c] = [call[c] EXCEPT !.future = "error"] /\ Waiting(c)
        BY <2>1, <3>2 DEF FailPending, Unresolved
      <4> QED BY <4>1, WaitingCall
    <3> QED BY <3>1, <3>2
  <2> QED BY <1>0, <1>5, <1>a, <2>2 DEF EndRead
<1>6. ASSUME NEW c \in Callers, BeginStart(c) \/ SpawnFails(c) \/ Resume(c) \/ Timeout(c)
      PROVE  IdInv'
  <2>1. /\ UNCHANGED <<inbox, out, nextId>>
        /\ \/ call' = [call EXCEPT ![c] = None]
           \/ call' = [call EXCEPT ![c] = [kind |-> "spawn"]]
    BY <1>6 DEF BeginStart, SpawnFails, Resume, Timeout
  <2>2. \A d \in Callers : Waiting(d)' => Waiting(d) /\ call'[d] = call[d]
    BY <2>1 DEF Waiting, ClientTypeOK
  <2> QED BY <1>0, <1>a, <2>1, <2>2
<1>7. ASSUME NEW c \in Callers, Spawn(c)
      PROVE  IdInv'
  <2>1. PICK g \in Children :
          /\ inbox' = [inbox EXCEPT ![g] = {nextId}]
          /\ call' = [call EXCEPT ![c] = Pending("handshake", g)]
    BY <1>7 DEF Spawn
  <2>2. nextId \in Ids /\ nextId' = nextId + 1 /\ out' = out
    BY <1>7 DEF Spawn
  <2>3. /\ \A h \in Children : h # g => inbox'[h] = inbox[h]
        /\ inbox'[g] \subseteq inbox[g] \cup {nextId}
        /\ \A d \in Callers : d # c => call'[d] = call[d]
        /\ call'[c] = Pending("handshake", g)
    BY <2>1 DEF ClientTypeOK
  <2> QED BY <2>2, <2>3, IdAsked
<1>8. ASSUME NEW c \in Callers, Request(c)
      PROVE  IdInv'
  <2>1. current \in Children /\ nextId \in Ids /\ nextId' = nextId + 1 /\ out' = out
    BY <1>8 DEF Request, Connected, ClientTypeOK
  <2>2. CASE UNCHANGED <<inbox, call>>
    <3>1. \A d \in Callers : Waiting(d)' <=> Waiting(d)
      BY <2>2 DEF Waiting
    <3>2. \A h \in Children, i \in Ids : Owes(h, i)' <=> Owes(h, i)
      BY <2>1, <2>2 DEF Owes
    <3>3. nextId \in Nat /\ \A d \in Callers : Waiting(d) => call[d].id \in Ids
      BY <2>1, WaitingCall DEF Ids
    <3>4. \A h \in Children, i \in Ids : Owes(h, i)' => i < nextId'
      BY <2>1, <3>2, <3>3 DEF IdInv, Ids
    <3>5. \A d \in Callers : Waiting(d)' => call'[d].id < nextId'
      BY <2>1, <2>2, <3>1, <3>3 DEF IdInv, Ids
    <3>6. \A d \in Callers, h \in Children :
            (Waiting(d) /\ Owes(h, call[d].id) => call[d].child = h)'
      BY <2>1, <2>2, <3>1 DEF IdInv, Owes
    <3> QED BY <3>4, <3>5, <3>6 DEF IdInv
  <2>3. CASE /\ inbox' = [inbox EXCEPT ![current] = @ \cup {nextId}]
             /\ call' = [call EXCEPT ![c] = Pending("request", current)]
    <3>1. /\ \A h \in Children : h # current => inbox'[h] = inbox[h]
          /\ inbox'[current] \subseteq inbox[current] \cup {nextId}
          /\ \A d \in Callers : d # c => call'[d] = call[d]
          /\ call'[c] = Pending("request", current)
      BY <2>1, <2>3 DEF ClientTypeOK
    <3> QED BY <2>1, <3>1, IdAsked
  <2> QED BY <1>8, <2>2, <2>3 DEF Request
<1>9. ASSUME Stop
      PROVE  IdInv'
  <2>1. \A d \in Callers : ~ Waiting(d)'
    BY <1>9 DEF Stop, Waiting
  <2> QED BY <1>0, <1>9, <1>a, <2>1 DEF Stop
<1>10. CASE FinishStop \/ Consume \/ UNCHANGED cvars
  BY <1>0, <1>10, <1>a, <1>b DEF FinishStop, Consume, cvars
<1>11. ASSUME NEW g \in Children, Die(g) \/ NoticeExit(g)
       PROVE  IdInv'
  BY <1>0, <1>11, <1>a, <1>b DEF Die, NoticeExit
<1> QED
  BY <1>1, <1>2, <1>3, <1>4, <1>5, <1>6, <1>7, <1>8, <1>9, <1>10, <1>11 DEF CNext

----------------------------------------------------------------------------
(* Answers.                                                                *)

(* An answer or a refusal belongs to the call it resolves, since only one  *)
(* child owes it.                                                          *)
LEMMA AnswerStep ==
  ASSUME ClientTypeOK, IdInv, AnswersItsRequest, [CNext]_cvars
  PROVE  AnswersItsRequest'
<1> USE DEF external, connection
<1>1. SUFFICES ASSUME NEW c \in Callers,
                      (Waiting(c) /\ call[c].from # None /\ call[c].future # "nothing")',
                      call'[c] # call[c]
               PROVE  call'[c].from = call'[c].child
  BY DEF AnswersItsRequest, Waiting
<1>2. ASSUME NEW g \in Children, ReadLine(g)
      PROVE  call'[c].from = call'[c].child
  <2> DEFINE line == Head(out[g])
  <2>1. out[g] \in Seq(Lines) /\ out[g] # <<>> /\ line \in Lines
    BY <1>2 DEF ReadLine, ClientTypeOK
  <2>2. /\ Waiting(c) /\ call[c].id = line.id /\ line.kind # "note"
        /\ call'[c] = [call[c] EXCEPT !.future = Outcome(line), !.from = g]
    BY <1>1, <1>2 DEF ReadLine, Resolve, Unresolved
  <2>3. /\ call'[c].future = Outcome(line)
        /\ call'[c].from = g
        /\ call'[c].child = call[c].child
    BY <2>2, WaitingCall
  <2>4. line.kind \in {"answer", "refusal"}
    BY <1>1, <2>1, <2>2, <2>3 DEF Outcome, Lines
  <2>5. Owes(g, call[c].id)
    <3>1. 1 \in 1 .. Len(out[g]) /\ line = out[g][1]
      BY <2>1
    <3> QED BY <2>2, <2>4, <3>1 DEF Owes
  <2>6. call[c].child = g
    BY <2>2, <2>5 DEF IdInv
  <2> QED BY <2>3, <2>6
<1>3. ASSUME NEW g \in Children, EndRead(g)
      PROVE  call'[c].from = call'[c].child
  <2>1. Unresolved(c) /\ call'[c] = [call[c] EXCEPT !.future = "error"]
    BY <1>1, <1>3 DEF EndRead, FailPending
  <2>2. /\ Waiting(c) /\ call[c].future = "pending"
        /\ call'[c].from = call[c].from /\ call'[c].child = call[c].child
    BY <2>1, WaitingCall DEF Unresolved
  <2> QED BY <1>1, <2>2 DEF AnswersItsRequest
<1>4. ASSUME NEW d \in Callers,
             BeginStart(d) \/ SpawnFails(d) \/ Resume(d) \/ Timeout(d)
      PROVE  call'[c].from = call'[c].child
  BY <1>1, <1>4 DEF BeginStart, SpawnFails, Resume, Timeout, Waiting, ClientTypeOK
<1>5. ASSUME NEW d \in Callers, Spawn(d)
      PROVE  call'[c].from = call'[c].child
  BY <1>1, <1>5 DEF Spawn, Pending, ClientTypeOK
<1>6. ASSUME NEW d \in Callers, Request(d)
      PROVE  call'[c].from = call'[c].child
  BY <1>1, <1>6 DEF Request, Pending, ClientTypeOK
<1>7. CASE Stop
  BY <1>1, <1>7 DEF Stop, Waiting
<1>8. CASE UNCHANGED call
  BY <1>1, <1>8
<1> QED
  BY <1>2, <1>3, <1>4, <1>5, <1>6, <1>7, <1>8
  DEF CNext, cvars, Answer, Ask, Tell, Die, NoticeExit, Consume, FinishStop

----------------------------------------------------------------------------
(* Connections.                                                            *)

(* Every step keeps a live connection read, and the calls on it.           *)
LEMMA ServedStep ==
  ASSUME ClientTypeOK, ClientTypeOK', ServedInv, [CNext]_cvars
  PROVE  ServedInv'
<1> USE DEF external, connection
<1>1. ASSUME UNCHANGED <<connection, call, up>>
      PROVE  ServedInv'
  BY <1>1 DEF ServedInv, Waiting
<1>2. ASSUME NEW g \in Children, ReadLine(g)
      PROVE  ServedInv'
  <2>1. ASSUME NEW c \in Callers, call'[c] # call[c]
        PROVE  /\ Unresolved(c)
               /\ call'[c].kind = call[c].kind /\ call'[c].child = call[c].child
    <3>1. call' = Resolve(g, Head(out[g])) \/ call' = call
      BY <1>2 DEF ReadLine
    <3>2. PICK f, by : call'[c] = [call[c] EXCEPT !.future = f, !.from = by]
      BY <2>1, <3>1 DEF Resolve
    <3>3. Unresolved(c)
      BY <2>1, <3>1 DEF Resolve
    <3> QED BY <3>2, <3>3, WaitingCall DEF Unresolved
  <2>2. \A c \in Callers : Waiting(c)' => Waiting(c)
    BY <2>1 DEF Waiting, Unresolved
  <2>3. UNCHANGED <<connection, up>>
    BY <1>2 DEF ReadLine
  <2> QED BY <2>1, <2>2, <2>3 DEF ServedInv, Unresolved, Waiting
<1>3. ASSUME NEW g \in Children, EndRead(g)
      PROVE  ServedInv'
  <2>1. CASE stopping
    BY <1>3, <2>1 DEF EndRead, ServedInv, Waiting
  <2>2. CASE ~ stopping
    <3>1. /\ initialized' = FALSE
          /\ UNCHANGED <<current, stopping, up>>
          /\ \A c \in Callers :
               IF Waiting(c) THEN call'[c] = [call[c] EXCEPT !.future = "error"]
                             ELSE call'[c] = call[c]
      BY <1>3, <2>2 DEF EndRead, FailPending, Unresolved
    <3>2. \A c \in Callers : Waiting(c) =>
            /\ call'[c].future = "error"
            /\ call'[c].kind = call[c].kind /\ call'[c].child = call[c].child
      BY <3>1, WaitingCall
    <3>3. \A c \in Callers : Waiting(c)' => Waiting(c)
      BY <3>1 DEF Waiting
    <3>4. (up' => ~ stopping') /\ initialized' = FALSE
      BY <3>1 DEF ServedInv
    <3>5. ~ up' => \A c \in Callers : call'[c] = None
      BY <3>1 DEF ServedInv, Waiting
    <3>6. \A c \in Callers : call'[c] # None /\ call'[c].kind # "request" => c = Starter
      BY <3>1, <3>2 DEF ServedInv, Waiting
    <3>7. \A c \in Callers : Waiting(c)' =>
            /\ call'[c].kind = "handshake" => call'[c].child = current'
            /\ call'[c].future = "error"
      BY <3>1, <3>2, <3>3 DEF ServedInv
    <3> QED BY <3>4, <3>5, <3>6, <3>7 DEF ServedInv
  <2> QED BY <2>1, <2>2
<1>4. ASSUME NEW c \in Callers, BeginStart(c)
      PROVE  ServedInv'
  BY <1>4 DEF BeginStart, ServedInv, Waiting, ClientTypeOK
<1>5. ASSUME NEW c \in Callers, Spawn(c)
      PROVE  ServedInv'
  <2>1. PICK g \in Children :
          /\ child[g] = "none"
          /\ reader' = [reader EXCEPT ![g] = "reading"]
          /\ current' = g
          /\ call' = [call EXCEPT ![c] = Pending("handshake", g)]
    BY <1>5 DEF Spawn
  <2>2. c = Starter /\ up /\ ~ stopping
    BY <1>5 DEF Spawn, ServedInv, ClientTypeOK
  <2>3. UNCHANGED <<initialized, stopping, up>>
    BY <1>5 DEF Spawn
  <2>4. \A h \in Children : reader'[h] = IF h = g THEN "reading" ELSE reader[h]
    BY <2>1 DEF ClientTypeOK
  <2>5. call'[c] = Pending("handshake", g) /\ \A d \in Callers : d # c => call'[d] = call[d]
    BY <2>1 DEF ClientTypeOK
  <2>6. current' \in Children /\ current' # None /\ reader'[current'] = "reading"
    BY <2>1, <2>4, ConstantsAreNumbers
  <2>7. ASSUME NEW d \in Callers, Waiting(d)', call'[d].future # "error"
        PROVE  reader'[call'[d].child] = "reading"
    <3>1. CASE d = c
      BY <2>4, <2>5, <3>1 DEF Pending
    <3>2. CASE d # c
      BY <2>4, <2>5, <2>7, <3>2, WaitingCall DEF ServedInv, Waiting
    <3> QED BY <3>1, <3>2
  <2>8. ASSUME NEW d \in Callers, call'[d] # None, call'[d].kind # "request"
        PROVE  d = Starter /\ call'[d].child = current'
    <3>1. d = Starter
      BY <2>2, <2>5, <2>8 DEF ServedInv
    <3> QED BY <2>1, <2>2, <2>5, <3>1 DEF Pending
  <2> QED BY <2>2, <2>3, <2>6, <2>7, <2>8 DEF ServedInv, Waiting
<1>6. ASSUME NEW c \in Callers, Request(c)
      PROVE  ServedInv'
  <2>1. CASE UNCHANGED call
    BY <1>1, <1>6, <2>1 DEF Request
  <2>2. CASE call' = [call EXCEPT ![c] = Pending("request", current)]
    <3>1. up /\ initialized /\ current # None /\ UNCHANGED <<connection, up>>
      BY <1>6 DEF Request, Connected
    <3>2. call'[c] = Pending("request", current) /\ \A d \in Callers : d # c => call'[d] = call[d]
      BY <2>2 DEF ClientTypeOK
    <3>3. \A d \in Callers : d # c => (Waiting(d)' <=> Waiting(d))
      BY <3>2 DEF Waiting
    <3> QED BY <3>1, <3>2, <3>3 DEF ServedInv, Pending
  <2> QED BY <1>6, <2>1, <2>2 DEF Request
<1>7. ASSUME NEW c \in Callers, Resume(c)
      PROVE  ServedInv'
  <2>1. Waiting(c) /\ UNCHANGED <<current, reader, stopping, up>> /\ up
    BY <1>7 DEF Resume, ServedInv, Waiting
  <2>2. call'[c] = None /\ \A d \in Callers : d # c => call'[d] = call[d]
    BY <1>7 DEF Resume, ClientTypeOK
  <2>3. initialized' =>
          initialized \/ (call[c].kind = "handshake" /\ call[c].future # "error")
    BY <1>7 DEF Resume
  <2>4. initialized' => current # None /\ reader[current] = "reading"
    BY <2>1, <2>3, WaitingCall, ConstantsAreNumbers DEF ServedInv
  <2> QED BY <2>1, <2>2, <2>4 DEF ServedInv, Waiting
<1>8. ASSUME NEW c \in Callers, SpawnFails(c) \/ Timeout(c)
      PROVE  ServedInv'
  <2>1. call'[c] = None /\ \A d \in Callers : d # c => call'[d] = call[d]
    BY <1>8 DEF SpawnFails, Timeout, ClientTypeOK
  <2>2. UNCHANGED <<connection, up>>
    BY <1>8 DEF SpawnFails, Timeout
  <2> QED BY <2>1, <2>2 DEF ServedInv, Waiting
<1>9. CASE Stop
  BY <1>9 DEF Stop, ServedInv, Waiting
<1>10. CASE FinishStop
  BY <1>10 DEF FinishStop, ServedInv, Waiting
<1> QED
  BY <1>1, <1>2, <1>3, <1>4, <1>5, <1>6, <1>7, <1>8, <1>9, <1>10
  DEF CNext, cvars, Answer, Ask, Tell, Die, NoticeExit, Consume

----------------------------------------------------------------------------
(* The queue.                                                              *)

(* A reader puts what it read last, and the consumer takes from the front. *)
LEMMA NewestStep ==
  ASSUME ClientTypeOK, NewestIsKept, [CNext]_cvars
  PROVE  NewestIsKept'
<1> USE DEF external, connection
<1>1. CASE UNCHANGED <<queue, newest>>
  BY <1>1 DEF NewestIsKept
<1>2. ASSUME NEW g \in Children, ReadLine(g), ~ UNCHANGED <<queue, newest>>
      PROVE  NewestIsKept'
  <2> DEFINE line == Head(out[g])
  <2>1. line.kind = "note" /\ queue' = Publish(line.id) /\ newest' = line.id
    BY <1>2 DEF ReadLine
  <2>2. line.id \in 1 .. MaxNotes
    <3>1. line \in Lines
      BY <1>2 DEF ReadLine, ClientTypeOK
    <3> QED BY <2>1, <3>1 DEF Lines
  <2>3. Publish(line.id)[Len(Publish(line.id))] = line.id
    BY <2>2, PublishBounds
  <2> HIDE DEF line
  <2> QED BY <2>1, <2>3 DEF NewestIsKept
<1>3. CASE Consume
  <2>1. queue \in Seq(1 .. MaxNotes) /\ queue # <<>> /\ queue' = Tail(queue) /\ newest' = newest
    BY <1>3 DEF Consume, ClientTypeOK
  <2>2. CASE queue' = <<>>
    BY <2>2 DEF NewestIsKept
  <2>3. CASE queue' # <<>>
    <3>1. /\ Len(queue') = Len(queue) - 1 /\ Len(queue') \in 1 .. Len(queue')
          /\ Len(queue) \in Nat
      BY <2>1, <2>3, HeadTailProperties, EmptySeq
    <3>2. queue'[Len(queue')] = queue[Len(queue)]
      BY <2>1, <3>1, HeadTailProperties
    <3> QED BY <2>1, <3>2 DEF NewestIsKept
  <2> QED BY <2>2, <2>3
<1> QED
  BY <1>1, <1>2, <1>3
  DEF CNext, cvars, Answer, Ask, Tell, Die, NoticeExit, EndRead, BeginStart, Spawn,
      SpawnFails, Request, Resume, Timeout, Stop, FinishStop

----------------------------------------------------------------------------
(* The theorems.                                                           *)

(* The client as it is created. *)
LEMMA ClientInit ==
  ASSUME CInit
  PROVE  CInv /\ NewestIsKept
<1> USE ConstantsAreNumbers DEF CInit
<1>1. ClientTypeOK
  <2>1. /\ told \in 0 .. MaxNotes /\ asked \in 0 .. MaxAsks /\ nextId \in 1 .. MaxIds + 1
        /\ Len(queue) <= QueueSize
    OBVIOUS
  <2>2. queue \in Seq(1 .. MaxNotes) /\ <<>> \in Seq(Lines)
    OBVIOUS
  <2> QED BY <2>1, <2>2 DEF ClientTypeOK
<1>2. \A c \in Callers : call[c] = None /\ ~ Waiting(c)
  BY DEF Waiting
<1>3. IdInv
  BY <1>2 DEF IdInv, Owes
<1>4. ServedInv /\ AnswersItsRequest /\ NewestIsKept
  BY <1>2 DEF ServedInv, AnswersItsRequest, NewestIsKept
<1> QED BY <1>1, <1>3, <1>4 DEF CInv

(* The inductive invariant holds in every behaviour of the client. *)
LEMMA ClientInvariance == ClientSpec => [](CInv /\ NewestIsKept)
<1>1. CInit => CInv /\ NewestIsKept
  BY ClientInit
<1>2. CInv /\ NewestIsKept /\ [CNext]_cvars => (CInv /\ NewestIsKept)'
  <2> SUFFICES ASSUME CInv, NewestIsKept, [CNext]_cvars
               PROVE  (CInv /\ NewestIsKept)'
    OBVIOUS
  <2>1. ClientTypeOK'
    BY TypeStep DEF CInv
  <2>2. IdInv'
    BY <2>1, IdStep DEF CInv
  <2>3. ServedInv'
    BY <2>1, ServedStep DEF CInv
  <2>4. AnswersItsRequest'
    BY AnswerStep DEF CInv
  <2>5. NewestIsKept'
    BY NewestStep DEF CInv
  <2> QED BY <2>1, <2>2, <2>3, <2>4, <2>5 DEF CInv
<1> QED BY <1>1, <1>2, PTL DEF ClientSpec

(* The variables keep their types; in particular the queue of              *)
(* notifications never holds more than its capacity                        *)
(* (_publish_notification).                                                *)
THEOREM ClientTypeCorrect == ClientSpec => []ClientTypeOK
<1>1. CInv => ClientTypeOK
  BY DEF CInv
<1> QED BY <1>1, ClientInvariance, PTL

(* However many children are started and however late they answer, no      *)
(* call gets the answer to another (_next_id, _resolve_response).          *)
THEOREM AnswersMatch == ClientSpec => []AnswersItsRequest
<1>1. CInv => AnswersItsRequest
  BY DEF CInv
<1> QED BY <1>1, ClientInvariance, PTL

(* No call waits on a child nobody reads any more (_read_stdout,           *)
(* _fail_pending, stop).                                                   *)
THEOREM CallsAreServed == ClientSpec => []WaitingIsServed
<1>1. CInv => WaitingIsServed
  BY DEF CInv, ServedInv, WaitingIsServed, Unresolved
<1> QED BY <1>1, ClientInvariance, PTL

(* Whatever the size of the queue, the newest notification is in it until  *)
(* it is consumed (_publish_notification).                                 *)
THEOREM NewestStays == ClientSpec => []NewestIsKept
BY ClientInvariance, PTL
=============================================================================
