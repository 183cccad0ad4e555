---------------------------- MODULE ListendProofs ----------------------------
(***************************************************************************)
(* listend, for any consumers, messages, prefetch and faults: no sample is *)
(* acknowledged that was not appended, no answer hits another channel's    *)
(* delivery, and none is left without somebody to answer it.               *)
(***************************************************************************)
EXTENDS Listend, TLAPS

\* The session of s is not bound yet: nothing of its channel is under way.
Fresh(s) == tpc[s] \in {"outer", "bind", "declare"}

\* The thread of s is in its consume loop.
Looping(s) == tpc[s] \in {"loop", "wait", "consume", "stopped"}

Delivery(x) == [tag |-> x.tag, msg |-> x.msg]

\* The item the archive worker has in hand.
Hand == IF work.pc \in {"append", "answer", "check"} THEN {work.item} ELSE {}

\* Every item the archive worker has: queued, in the reorder heap or in hand.
WorkItems == {wq[n] : n \in 1..Len(wq)} \cup held \cup Hand

\* The item came with the channel its session has now.
Current(i) == i.ackGen = gen[i.sess]

Archived(m) == \E n \in 1..Len(archive) : archive[n] = m

\* A channel that is gone, or not used yet, has nothing outstanding; conn is the
\* latest connection from Connect to Unbind.
LinkOK == \A s \in Consumers :
  /\ ~alive[s] => unacked[s] = {}
  /\ Fresh(s) => unacked[s] = {} /\ inbox[s] = << >>
  /\ tpc[s] \in {"outer", "unbind"} => conn[s] = 0
  /\ tpc[s] \notin {"outer", "unbind"} => conn[s] = opened[s] /\ opened[s] # 0

\* Outstanding deliveries of a channel have tags of their own, all given out before.
TagsOK == \A s \in Consumers :
  /\ \A d \in unacked[s] : d.tag < nextTag[s]
  /\ \A d, e \in unacked[s] : d.tag = e.tag => d = e

\* What the client library has still to call back is outstanding.
InboxOK == \A s \in Consumers : alive[s] =>
  \A n \in 1..Len(inbox[s]) : inbox[s][n] \in unacked[s]

\* No item is from a later generation; one of the present generation is outstanding.
ItemsOK == \A i \in WorkItems :
  /\ i.ackGen <= gen[i.sess]
  /\ Current(i) => ~Fresh(i.sess)
  /\ Current(i) /\ alive[i.sess] => Delivery(i) \in unacked[i.sess]

\* The channel noted with an item is the one it came on, or none once the session
\* has been unbound; an ack is only meant for what is in the archive.
HandOK ==
  /\ work.pc \in {"append", "check"} /\ Current(work.item) =>
       \/ work.chan = opened[work.item.sess]
       \/ work.chan = 0 /\ tpc[work.item.sess] = "unbind"
  /\ work.pc \in {"answer", "check"} /\ work.op = "ack" => Archived(work.item.msg)

\* A scheduled answer belongs to the latest connection and generation.
AnswersOK == \A s \in Consumers : \A cb \in callbacks[s] : cb.op # "teardown" =>
  /\ ~Fresh(s) /\ cb.gen = gen[s] /\ cb.conn = opened[s]
  /\ alive[s] => Delivery(cb) \in unacked[s]
  /\ cb.op = "ack" => Archived(cb.msg)

\* Nobody else holds a delivery: by its tag, one place in the inbox ...
InboxAlone == \A s \in Consumers : alive[s] => \A n \in 1..Len(inbox[s]) :
  /\ \A m \in 1..Len(inbox[s]) : inbox[s][m].tag = inbox[s][n].tag => m = n
  /\ \A i \in WorkItems : i.sess = s /\ Current(i) => i.tag # inbox[s][n].tag
  /\ \A cb \in callbacks[s] : cb.op # "teardown" => cb.tag # inbox[s][n].tag

\* ... one scheduled answer ...
AnswersAlone == \A s \in Consumers : alive[s] => \A cb \in callbacks[s] : cb.op # "teardown" =>
  /\ \A cc \in callbacks[s] : cc.op # "teardown" /\ cc.tag = cb.tag => cc = cb
  /\ \A i \in WorkItems : i.sess = s /\ Current(i) => i.tag # cb.tag

\* Two items of one delivery.
Same(i, j) == i.sess = j.sess /\ i.tag = j.tag /\ Current(i) /\ Current(j) /\ alive[i.sess]

\* ... one item of the archive worker.
ItemsAlone ==
  /\ \A m, n \in 1..Len(wq) : Same(wq[m], wq[n]) => m = n
  /\ \A m \in 1..Len(wq) : \A i \in held \cup Hand : ~Same(wq[m], i)
  /\ \A i, j \in held : Same(i, j) => i = j
  /\ \A i \in held, j \in Hand : ~Same(i, j)

\* A requested reconnect is on its way to the connection that is in use.
TeardownOK == \A s \in Consumers : alive[s] /\ Looping(s) /\ recon[s] =>
  \E cb \in callbacks[s] : cb.op = "teardown"

\* Somebody will answer delivery d of s: it waits in the inbox, an item of its
\* generation is with the archive worker, or its answer is scheduled.
Somewhere(s, d) ==
  \/ \E n \in 1..Len(inbox[s]) : inbox[s][n] = d
  \/ \E i \in WorkItems : i.sess = s /\ Current(i) /\ i.tag = d.tag /\ i.msg = d.msg
  \/ \E cb \in callbacks[s] : cb.op # "teardown" /\ cb.tag = d.tag /\ cb.msg = d.msg

Watched(s) == alive[s] /\ Looping(s) /\ ~recon[s]

\* Until a reconnect is requested every outstanding delivery is in somebody's hands.
NoneStranded == \A s \in Consumers : Watched(s) => \A d \in unacked[s] : Somewhere(s, d)

IInv == /\ TypeOK /\ LinkOK /\ TagsOK /\ InboxOK /\ ItemsOK /\ HandOK /\ AnswersOK
        /\ InboxAlone /\ AnswersAlone /\ ItemsAlone /\ TeardownOK /\ NoneStranded
        /\ AckedArchived

-----------------------------------------------------------------------------
(* Types *)

Places == {"outer", "bind", "declare", "loop", "wait", "consume", "stopped", "finally",
           "unbind"}
Answers == [op : {"ack", "nack"}, conn : Nat, gen : Nat, tag : Nat \ {0}, msg : Messages]

\* The flags, apart from everything that counts or collects.
Flags == /\ alive \in [Consumers -> BOOLEAN] /\ recon \in [Consumers -> BOOLEAN]
         /\ pause \in BOOLEAN /\ dbFull \in BOOLEAN
BrokerType == /\ ready \subseteq Messages /\ acked \subseteq Messages
              /\ unacked \in [Consumers -> SUBSET Deliveries]
              /\ nextTag \in [Consumers -> Nat \ {0}]
SessionType == /\ opened \in [Consumers -> Nat] /\ conn \in [Consumers -> Nat]
               /\ gen \in [Consumers -> Nat] /\ tpc \in [Consumers -> Places]
               /\ faults \in Nat
LinkType == /\ inbox \in [Consumers -> Seq(Deliveries)]
            /\ callbacks \in [Consumers -> SUBSET Callbacks]
WorkerType == /\ wq \in Seq(Items) /\ held \subseteq Items /\ work \in WorkStates
              /\ archive \in Seq(Messages)

\* The type invariant, by the provers' needs: flags apart from numbers and sets.
LEMMA TypeParts == TypeOK <=> Flags /\ BrokerType /\ SessionType /\ LinkType /\ WorkerType
BY Zenon DEF TypeOK, Flags, BrokerType, SessionType, LinkType, WorkerType, Places

\* What each kind of work carries.
LEMMA WorkFields ==
  ASSUME work \in WorkStates
  PROVE  /\ work.pc \in {"idle", "drain", "append", "answer", "check"}
         /\ work = Idle <=> work.pc = "idle"
         /\ work.pc \in {"append", "answer", "check"} =>
              work.item \in Items /\ "item" \in DOMAIN work
         /\ work.pc \in {"append", "check"} => work.chan \in Nat
         /\ work.pc \in {"answer", "check"} => work.op \in {"ack", "nack"}
BY DEF WorkStates, Idle

\* What a callback carries.
LEMMA CallbackFields ==
  ASSUME NEW cb \in Callbacks
  PROVE  /\ cb.op \in {"teardown", "ack", "nack"}
         /\ cb.op = "teardown" => cb = [op |-> "teardown"]
         /\ cb.op # "teardown" => cb \in Answers
BY DEF Callbacks, Answers

\* The initial state is well typed.
LEMMA InitTypes == Init => TypeOK
<1> SUFFICES ASSUME Init PROVE TypeOK
  OBVIOUS
<1> USE ListendAssumption DEF Init
<1>1. Flags
  BY Zenon DEF Flags
<1>2. BrokerType /\ SessionType /\ LinkType
  BY DEF BrokerType, SessionType, LinkType, Places
<1>3. WorkerType
  BY DEF WorkerType, WorkStates
<1> QED
  BY <1>1, <1>2, <1>3, TypeParts, Zenon

\* Every step keeps the flags.
LEMMA FlagsStep == TypeOK /\ [Next]_vars => Flags'
<1> SUFFICES ASSUME TypeOK, [Next]_vars PROVE Flags'
  OBVIOUS
<1>0. Flags
  BY TypeParts, Zenon
<1> USE <1>0 DEF Flags, linkVars, sessionVars, dbVars
<1>1. ASSUME NEW s \in Consumers, Connect(s) PROVE Flags'
  BY <1>1, Zenon DEF Connect
<1>2. ASSUME NEW s \in Consumers, Bind(s) PROVE Flags'
  BY <1>2, Zenon DEF Bind, BindRest
<1>3. ASSUME NEW s \in Consumers, EnterConsume(s) PROVE Flags'
  BY <1>3, Zenon DEF EnterConsume
<1>4. ASSUME NEW s \in Consumers, ResumeAfterPause(s) PROVE Flags'
  BY <1>4, Zenon DEF ResumeAfterPause
<1>5. ASSUME NEW s \in Consumers, NoticeLoss(s) PROVE Flags'
  BY <1>5, Zenon DEF NoticeLoss
<1>6. ASSUME NEW s \in Consumers, AfterConsume(s) PROVE Flags'
  BY <1>6, Zenon DEF AfterConsume
<1>7. ASSUME NEW s \in Consumers, Unbind(s) PROVE Flags'
  BY <1>7, Zenon DEF Unbind
<1>8. ASSUME NEW s \in Consumers, CloseConnection(s) PROVE Flags'
  BY <1>8, Zenon DEF CloseConnection, BindRest, ChannelGone
<1>9. ASSUME NEW s \in Consumers, OnMessagePause(s) PROVE Flags'
  BY <1>9, Zenon DEF OnMessagePause
<1>10. ASSUME NEW s \in Consumers, OnMessageDispatch(s) PROVE Flags'
  BY <1>10, Zenon DEF OnMessageDispatch
<1>11. ASSUME NEW s \in Consumers, RunCallback(s) PROVE Flags'
  BY <1>11, Zenon DEF RunCallback, RunAnswer, RunTeardown, ChannelGone
<1>12. ASSUME NEW s \in Consumers, Deliver(s) PROVE Flags'
  BY <1>12, Zenon DEF Deliver
<1>13. ASSUME NEW s \in Consumers, ConnectionLost(s) PROVE Flags'
  BY <1>13, Zenon DEF ConnectionLost, ChannelGone
<1>14. ASSUME NEW s \in Consumers, OnMessageFails(s) PROVE Flags'
  BY <1>14, Zenon DEF OnMessageFails
<1>15. ASSUME WorkerGet PROVE Flags'
  BY <1>15, Zenon DEF WorkerGet
<1>16. ASSUME HoldExpires PROVE Flags'
  BY <1>16, Zenon DEF HoldExpires
<1>17. ASSUME DrainPop PROVE Flags'
  BY <1>17, Zenon DEF DrainPop
<1>18. ASSUME AppendSample PROVE Flags'
  BY <1>18, Zenon DEF AppendSample
<1>19. ASSUME ReadConnection PROVE Flags'
  BY <1>19, Zenon DEF ReadConnection
<1>20. ASSUME ScheduleAnswer PROVE Flags'
  BY <1>20, Zenon DEF ScheduleAnswer, RequestReconnect
<1>21. ASSUME AppendFails PROVE Flags'
  BY <1>21, Zenon DEF AppendFails, RequestReconnect
<1>22. ASSUME DbFills PROVE Flags'
  BY <1>22, Zenon DEF DbFills
<1>23. ASSUME DbDrains PROVE Flags'
  BY <1>23, Zenon DEF DbDrains
<1>24. ASSUME Crash PROVE Flags'
  BY <1>24, Zenon DEF Crash
<1>25. CASE UNCHANGED vars
  BY <1>25, Zenon DEF vars
<1> QED
  BY <1>1, <1>2, <1>3, <1>4, <1>5, <1>6, <1>7, <1>8, <1>9, <1>10, <1>11, <1>12, <1>13, <1>14,
     <1>15, <1>16, <1>17, <1>18, <1>19, <1>20, <1>21, <1>22, <1>23, <1>24, <1>25,
     Zenon DEF Next, Consume, Worker

\* Messages of deliveries.
LEMMA MessagesType == ASSUME NEW ds \in SUBSET Deliveries PROVE MessagesOf(ds) \subseteq Messages
BY DEF MessagesOf, Deliveries

\* What a delivery carries.
LEMMA DeliveryFields ==
  ASSUME NEW d \in Deliveries
  PROVE  d.tag \in Nat \ {0} /\ d.msg \in Messages /\ Delivery(d) = d
BY DEF Deliveries, Delivery

\* The teardown is a callback.
LEMMA TeardownType == [op |-> "teardown"] \in Callbacks
BY DEF Callbacks

\* What an item carries.
LEMMA ItemFields ==
  ASSUME NEW i \in Items
  PROVE  /\ i.sess \in Consumers /\ i.tag \in Nat \ {0} /\ i.msg \in Messages
         /\ i.ackGen \in Nat
BY DEF Items

\* What a queue or an inbox holds has the type of its elements.
LEMMA QueueFacts ==
  ASSUME NEW T, NEW q \in Seq(T)
  PROVE  /\ Len(q) \in Nat /\ (q = << >> <=> Len(q) = 0)
         /\ \A n \in 1..Len(q) : q[n] \in T
         /\ \A x \in T : /\ Append(q, x) \in Seq(T) /\ Len(Append(q, x)) = Len(q) + 1
                         /\ \A n \in 1..Len(q) : Append(q, x)[n] = q[n]
                         /\ Append(q, x)[Len(q) + 1] = x
         /\ q # << >> => /\ Head(q) \in T /\ Head(q) = q[1] /\ Len(q) >= 1
                         /\ Tail(q) \in Seq(T) /\ Len(Tail(q)) = Len(q) - 1
                         /\ \A n \in 1..Len(q) - 1 : Tail(q)[n] = q[n + 1]
OBVIOUS

\* Every step keeps the types of the broker's queue and deliveries.
LEMMA BrokerTypeStep == TypeOK /\ [Next]_vars => BrokerType'
<1> SUFFICES ASSUME TypeOK, [Next]_vars PROVE BrokerType'
  OBVIOUS
<1>0. BrokerType /\ SessionType /\ LinkType /\ WorkerType
  BY TypeParts, Zenon
<1> USE <1>0 DEF BrokerType, brokerVars
<1>1. ASSUME NEW s \in Consumers, Connect(s) PROVE BrokerType'
  BY <1>1 DEF Connect
<1>2. ASSUME NEW s \in Consumers, Bind(s) PROVE BrokerType'
  BY <1>2 DEF Bind
<1>3. ASSUME NEW s \in Consumers, EnterConsume(s) PROVE BrokerType'
  BY <1>3 DEF EnterConsume
<1>4. ASSUME NEW s \in Consumers, ResumeAfterPause(s) PROVE BrokerType'
  BY <1>4 DEF ResumeAfterPause
<1>5. ASSUME NEW s \in Consumers, NoticeLoss(s) PROVE BrokerType'
  BY <1>5 DEF NoticeLoss
<1>6. ASSUME NEW s \in Consumers, AfterConsume(s) PROVE BrokerType'
  BY <1>6 DEF AfterConsume
<1>7. ASSUME NEW s \in Consumers, Unbind(s) PROVE BrokerType'
  BY <1>7 DEF Unbind
<1>8. ASSUME NEW s \in Consumers, CloseConnection(s) PROVE BrokerType'
  BY <1>8, MessagesType DEF CloseConnection, ChannelGone
<1>9. ASSUME NEW s \in Consumers, OnMessagePause(s) PROVE BrokerType'
  BY <1>9, MessagesType DEF OnMessagePause
<1>10. ASSUME NEW s \in Consumers, OnMessageDispatch(s) PROVE BrokerType'
  BY <1>10 DEF OnMessageDispatch
<1>11. ASSUME NEW s \in Consumers, RunCallback(s) PROVE BrokerType'
  BY <1>11, MessagesType DEF RunCallback, RunAnswer, RunTeardown, ChannelGone
<1>12. ASSUME NEW s \in Consumers, Deliver(s) PROVE BrokerType'
  BY <1>12 DEF Deliver, Deliveries
<1>13. ASSUME NEW s \in Consumers, ConnectionLost(s) PROVE BrokerType'
  BY <1>13, MessagesType DEF ConnectionLost, ChannelGone
<1>14. ASSUME NEW s \in Consumers, OnMessageFails(s) PROVE BrokerType'
  <2>1. inbox[s] \in Seq(Deliveries) /\ inbox[s] # << >>
    BY <1>14 DEF OnMessageFails, LinkType
  <2>2. Head(inbox[s]).msg \in Messages
    BY <2>1, QueueFacts, DeliveryFields
  <2> QED
    BY <1>14, <2>2 DEF OnMessageFails
<1>15. ASSUME WorkerGet PROVE BrokerType'
  BY <1>15 DEF WorkerGet
<1>16. ASSUME HoldExpires PROVE BrokerType'
  BY <1>16 DEF HoldExpires
<1>17. ASSUME DrainPop PROVE BrokerType'
  BY <1>17 DEF DrainPop
<1>18. ASSUME AppendSample PROVE BrokerType'
  BY <1>18 DEF AppendSample
<1>19. ASSUME ReadConnection PROVE BrokerType'
  BY <1>19 DEF ReadConnection
<1>20. ASSUME ScheduleAnswer PROVE BrokerType'
  BY <1>20 DEF ScheduleAnswer
<1>21. ASSUME AppendFails PROVE BrokerType'
  BY <1>21 DEF AppendFails
<1>22. ASSUME DbFills PROVE BrokerType'
  BY <1>22 DEF DbFills
<1>23. ASSUME DbDrains PROVE BrokerType'
  BY <1>23 DEF DbDrains
<1>24. ASSUME Crash PROVE BrokerType'
  BY <1>24, MessagesType DEF Crash
<1>25. CASE UNCHANGED vars
  BY <1>25 DEF vars
<1> QED
  BY <1>1, <1>2, <1>3, <1>4, <1>5, <1>6, <1>7, <1>8, <1>9, <1>10, <1>11, <1>12, <1>13, <1>14,
     <1>15, <1>16, <1>17, <1>18, <1>19, <1>20, <1>21, <1>22, <1>23, <1>24, <1>25,
     Zenon DEF Next, Consume, Worker

\* ... of the sessions and their threads,
LEMMA SessionTypeStep == TypeOK /\ [Next]_vars => SessionType'
<1> SUFFICES ASSUME TypeOK, [Next]_vars PROVE SessionType'
  OBVIOUS
<1>0. BrokerType /\ SessionType /\ LinkType /\ WorkerType
  BY TypeParts, Zenon
<1> USE <1>0 DEF SessionType, sessionVars, linkVars
<1>1. ASSUME NEW s \in Consumers, Connect(s) PROVE SessionType'
  BY <1>1 DEF Connect, At, Places
<1>2. ASSUME NEW s \in Consumers, Bind(s) PROVE SessionType'
  BY <1>2 DEF Bind, At, Places, BindRest
<1>3. ASSUME NEW s \in Consumers, EnterConsume(s) PROVE SessionType'
  BY <1>3 DEF EnterConsume, At, Places
<1>4. ASSUME NEW s \in Consumers, ResumeAfterPause(s) PROVE SessionType'
  BY <1>4 DEF ResumeAfterPause, At, Places
<1>5. ASSUME NEW s \in Consumers, NoticeLoss(s) PROVE SessionType'
  BY <1>5 DEF NoticeLoss, At, Places
<1>6. ASSUME NEW s \in Consumers, AfterConsume(s) PROVE SessionType'
  BY <1>6 DEF AfterConsume, At, Places
<1>7. ASSUME NEW s \in Consumers, Unbind(s) PROVE SessionType'
  BY <1>7 DEF Unbind, At, Places
<1>8. ASSUME NEW s \in Consumers, CloseConnection(s) PROVE SessionType'
  BY <1>8 DEF CloseConnection, At, Places, BindRest
<1>9. ASSUME NEW s \in Consumers, OnMessagePause(s) PROVE SessionType'
  BY <1>9 DEF OnMessagePause, At, Places
<1>10. ASSUME NEW s \in Consumers, OnMessageDispatch(s) PROVE SessionType'
  BY <1>10 DEF OnMessageDispatch, At, Places
<1>11. ASSUME NEW s \in Consumers, RunCallback(s) PROVE SessionType'
  BY <1>11 DEF RunCallback, RunAnswer, RunTeardown, Stopped, Places
<1>12. ASSUME NEW s \in Consumers, Deliver(s) PROVE SessionType'
  BY <1>12 DEF Deliver, At, Places
<1>13. ASSUME NEW s \in Consumers, ConnectionLost(s) PROVE SessionType'
  BY <1>13 DEF ConnectionLost, Fault
<1>14. ASSUME NEW s \in Consumers, OnMessageFails(s) PROVE SessionType'
  <2>1. tpc' = tpc \/ tpc' = [tpc EXCEPT ![s] = "stopped"]
    BY <1>14, Zenon DEF OnMessageFails
  <2>2. faults' = faults + 1 /\ UNCHANGED <<opened, conn, gen>>
    BY <1>14, Zenon DEF OnMessageFails, Fault
  <2> QED
    BY <2>1, <2>2 DEF Places
<1>15. ASSUME WorkerGet PROVE SessionType'
  BY <1>15 DEF WorkerGet
<1>16. ASSUME HoldExpires PROVE SessionType'
  BY <1>16 DEF HoldExpires
<1>17. ASSUME DrainPop PROVE SessionType'
  BY <1>17 DEF DrainPop
<1>18. ASSUME AppendSample PROVE SessionType'
  BY <1>18 DEF AppendSample
<1>19. ASSUME ReadConnection PROVE SessionType'
  BY <1>19 DEF ReadConnection
<1>20. ASSUME ScheduleAnswer PROVE SessionType'
  BY <1>20 DEF ScheduleAnswer
<1>21. ASSUME AppendFails PROVE SessionType'
  BY <1>21 DEF AppendFails, Fault
<1>22. ASSUME DbFills PROVE SessionType'
  BY <1>22 DEF DbFills, Fault
<1>23. ASSUME DbDrains PROVE SessionType'
  BY <1>23 DEF DbDrains
<1>24. ASSUME Crash PROVE SessionType'
  BY <1>24 DEF Crash, Fault, Places
<1>25. CASE UNCHANGED vars
  BY <1>25 DEF vars
<1> QED
  BY <1>1, <1>2, <1>3, <1>4, <1>5, <1>6, <1>7, <1>8, <1>9, <1>10, <1>11, <1>12, <1>13, <1>14,
     <1>15, <1>16, <1>17, <1>18, <1>19, <1>20, <1>21, <1>22, <1>23, <1>24, <1>25,
     Zenon DEF Next, Consume, Worker

\* ... of inboxes and scheduled callbacks,
LEMMA LinkTypeStep == TypeOK /\ [Next]_vars => LinkType'
<1> SUFFICES ASSUME TypeOK, [Next]_vars PROVE LinkType'
  OBVIOUS
<1>0. BrokerType /\ SessionType /\ LinkType /\ WorkerType
  BY TypeParts, Zenon
<1> USE <1>0 DEF LinkType, linkVars
<1>1. ASSUME NEW s \in Consumers, Connect(s) PROVE LinkType'
  BY <1>1 DEF Connect
<1>2. ASSUME NEW s \in Consumers, Bind(s) PROVE LinkType'
  BY <1>2 DEF Bind
<1>3. ASSUME NEW s \in Consumers, EnterConsume(s) PROVE LinkType'
  BY <1>3 DEF EnterConsume
<1>4. ASSUME NEW s \in Consumers, ResumeAfterPause(s) PROVE LinkType'
  BY <1>4 DEF ResumeAfterPause
<1>5. ASSUME NEW s \in Consumers, NoticeLoss(s) PROVE LinkType'
  BY <1>5 DEF NoticeLoss
<1>6. ASSUME NEW s \in Consumers, AfterConsume(s) PROVE LinkType'
  BY <1>6 DEF AfterConsume
<1>7. ASSUME NEW s \in Consumers, Unbind(s) PROVE LinkType'
  BY <1>7 DEF Unbind
<1>8. ASSUME NEW s \in Consumers, CloseConnection(s) PROVE LinkType'
  BY <1>8 DEF CloseConnection
<1>9. ASSUME NEW s \in Consumers, OnMessagePause(s) PROVE LinkType'
  BY <1>9 DEF OnMessagePause
<1>10. ASSUME NEW s \in Consumers, OnMessageDispatch(s) PROVE LinkType'
  BY <1>10, QueueFacts DEF OnMessageDispatch
<1>11. ASSUME NEW s \in Consumers, RunCallback(s) PROVE LinkType'
  BY <1>11 DEF RunCallback
<1>12. ASSUME NEW s \in Consumers, Deliver(s) PROVE LinkType'
  <2>1. PICK m \in ready : inbox' = [inbox EXCEPT ![s] = Append(@, [tag |-> nextTag[s],
             msg |-> m])]
    BY <1>12 DEF Deliver
  <2>2. [tag |-> nextTag[s], msg |-> m] \in Deliveries
    BY DEF BrokerType, Deliveries
  <2> QED
    BY <1>12, <2>1, <2>2 DEF Deliver
<1>13. ASSUME NEW s \in Consumers, ConnectionLost(s) PROVE LinkType'
  BY <1>13 DEF ConnectionLost
<1>14. ASSUME NEW s \in Consumers, OnMessageFails(s) PROVE LinkType'
  BY <1>14, QueueFacts DEF OnMessageFails
<1>15. ASSUME WorkerGet PROVE LinkType'
  BY <1>15 DEF WorkerGet
<1>16. ASSUME HoldExpires PROVE LinkType'
  BY <1>16 DEF HoldExpires
<1>17. ASSUME DrainPop PROVE LinkType'
  BY <1>17 DEF DrainPop
<1>18. ASSUME AppendSample PROVE LinkType'
  BY <1>18 DEF AppendSample
<1>19. ASSUME ReadConnection PROVE LinkType'
  BY <1>19 DEF ReadConnection
<1>20. ASSUME ScheduleAnswer PROVE LinkType'
  <2>1. work.item \in Items /\ work.op \in {"ack", "nack"} /\ work.chan \in Nat
    BY <1>20, WorkFields DEF ScheduleAnswer, WorkerType
  <2>2. work.item.sess \in Consumers
    BY <2>1, ItemFields
  <2>3. [op |-> work.op, conn |-> work.chan, gen |-> gen[work.item.sess], tag |-> work.item.tag,
         msg |-> work.item.msg] \in Callbacks
    BY <2>1, <2>2, ItemFields DEF Callbacks, SessionType
  <2>4. \/ callbacks' = callbacks
        \/ \E cb \in Callbacks :
             callbacks' = [callbacks EXCEPT ![work.item.sess] = @ \cup {cb}]
    BY <1>20, <2>3, TeardownType DEF ScheduleAnswer, RequestReconnect
  <2> QED
    BY <1>20, <2>4 DEF ScheduleAnswer
<1>21. ASSUME AppendFails PROVE LinkType'
  <2>1. \/ callbacks' = callbacks
        \/ \E cb \in Callbacks :
             callbacks' = [callbacks EXCEPT ![work.item.sess] = @ \cup {cb}]
    BY <1>21, TeardownType DEF AppendFails, RequestReconnect
  <2> QED
    BY <1>21, <2>1 DEF AppendFails
<1>22. ASSUME DbFills PROVE LinkType'
  BY <1>22 DEF DbFills
<1>23. ASSUME DbDrains PROVE LinkType'
  BY <1>23 DEF DbDrains
<1>24. ASSUME Crash PROVE LinkType'
  BY <1>24 DEF Crash
<1>25. CASE UNCHANGED vars
  BY <1>25 DEF vars
<1> QED
  BY <1>1, <1>2, <1>3, <1>4, <1>5, <1>6, <1>7, <1>8, <1>9, <1>10, <1>11, <1>12, <1>13, <1>14,
     <1>15, <1>16, <1>17, <1>18, <1>19, <1>20, <1>21, <1>22, <1>23, <1>24, <1>25,
     Zenon DEF Next, Consume, Worker

\* ... and of the archive worker.
LEMMA WorkerTypeStep == TypeOK /\ [Next]_vars => WorkerType'
<1> SUFFICES ASSUME TypeOK, [Next]_vars PROVE WorkerType'
  OBVIOUS
<1>0. BrokerType /\ SessionType /\ LinkType /\ WorkerType
  BY TypeParts, Zenon
<1> USE <1>0 DEF WorkerType, workerVars
<1>1. ASSUME NEW s \in Consumers, Connect(s) PROVE WorkerType'
  BY <1>1 DEF Connect
<1>2. ASSUME NEW s \in Consumers, Bind(s) PROVE WorkerType'
  BY <1>2 DEF Bind
<1>3. ASSUME NEW s \in Consumers, EnterConsume(s) PROVE WorkerType'
  BY <1>3 DEF EnterConsume
<1>4. ASSUME NEW s \in Consumers, ResumeAfterPause(s) PROVE WorkerType'
  BY <1>4 DEF ResumeAfterPause
<1>5. ASSUME NEW s \in Consumers, NoticeLoss(s) PROVE WorkerType'
  BY <1>5 DEF NoticeLoss
<1>6. ASSUME NEW s \in Consumers, AfterConsume(s) PROVE WorkerType'
  BY <1>6 DEF AfterConsume
<1>7. ASSUME NEW s \in Consumers, Unbind(s) PROVE WorkerType'
  BY <1>7 DEF Unbind
<1>8. ASSUME NEW s \in Consumers, CloseConnection(s) PROVE WorkerType'
  BY <1>8 DEF CloseConnection
<1>9. ASSUME NEW s \in Consumers, OnMessagePause(s) PROVE WorkerType'
  BY <1>9 DEF OnMessagePause
<1>10. ASSUME NEW s \in Consumers, OnMessageDispatch(s) PROVE WorkerType'
  BY <1>10, QueueFacts, DeliveryFields DEF OnMessageDispatch, LinkType, SessionType, Items
<1>11. ASSUME NEW s \in Consumers, RunCallback(s) PROVE WorkerType'
  BY <1>11 DEF RunCallback
<1>12. ASSUME NEW s \in Consumers, Deliver(s) PROVE WorkerType'
  BY <1>12 DEF Deliver
<1>13. ASSUME NEW s \in Consumers, ConnectionLost(s) PROVE WorkerType'
  BY <1>13 DEF ConnectionLost
<1>14. ASSUME NEW s \in Consumers, OnMessageFails(s) PROVE WorkerType'
  BY <1>14 DEF OnMessageFails
<1>15. ASSUME WorkerGet PROVE WorkerType'
  BY <1>15, QueueFacts, ItemFields DEF WorkerGet, SessionType, WorkStates
<1>16. ASSUME HoldExpires PROVE WorkerType'
  BY <1>16 DEF HoldExpires, WorkStates
<1>17. ASSUME DrainPop PROVE WorkerType'
  BY <1>17, ItemFields DEF DrainPop, SessionType, WorkStates
<1>18. ASSUME AppendSample PROVE WorkerType'
  BY <1>18, WorkFields, ItemFields DEF AppendSample, WorkStates
<1>19. ASSUME ReadConnection PROVE WorkerType'
  BY <1>19, WorkFields, ItemFields DEF ReadConnection, SessionType, WorkStates
<1>20. ASSUME ScheduleAnswer PROVE WorkerType'
  BY <1>20 DEF ScheduleAnswer, NextWork, WorkStates
<1>21. ASSUME AppendFails PROVE WorkerType'
  BY <1>21, WorkFields DEF AppendFails, NextWork, WorkStates
<1>22. ASSUME DbFills PROVE WorkerType'
  BY <1>22 DEF DbFills
<1>23. ASSUME DbDrains PROVE WorkerType'
  BY <1>23 DEF DbDrains
<1>24. ASSUME Crash PROVE WorkerType'
  BY <1>24 DEF Crash, WorkStates
<1>25. CASE UNCHANGED vars
  BY <1>25 DEF vars
<1> QED
  BY <1>1, <1>2, <1>3, <1>4, <1>5, <1>6, <1>7, <1>8, <1>9, <1>10, <1>11, <1>12, <1>13, <1>14,
     <1>15, <1>16, <1>17, <1>18, <1>19, <1>20, <1>21, <1>22, <1>23, <1>24, <1>25,
     Zenon DEF Next, Consume, Worker

\* Every step keeps the types.
LEMMA TypesStep == TypeOK /\ [Next]_vars => TypeOK'
<1> SUFFICES ASSUME TypeOK, [Next]_vars PROVE TypeOK'
  OBVIOUS
<1>1. Flags' /\ BrokerType' /\ SessionType' /\ LinkType' /\ WorkerType'
  BY FlagsStep, BrokerTypeStep, SessionTypeStep, LinkTypeStep, WorkerTypeStep, Zenon
<1> QED
  BY <1>1, Zenon DEF TypeOK, Flags, BrokerType, SessionType, LinkType, WorkerType, Places

-----------------------------------------------------------------------------
(* The items of the archive worker *)

\* Items are well typed.
LEMMA WorkItemsType == TypeOK => WorkItems \subseteq Items
<1> SUFFICES ASSUME TypeOK PROVE WorkItems \subseteq Items
  OBVIOUS
<1>1. WorkerType
  BY TypeParts, Zenon
<1>2. Hand \subseteq Items
  BY <1>1, WorkFields DEF Hand, WorkerType
<1> QED
  BY <1>1, <1>2 DEF WorkItems, WorkerType

\* A step outside the worker moves no item.
LEMMA SameItems == UNCHANGED workerVars => WorkItems' = WorkItems /\ Hand' = Hand
BY DEF workerVars, WorkItems, Hand

\* Dispatch adds one item.
LEMMA DispatchedItems ==
  ASSUME TypeOK, NEW s \in Consumers, OnMessageDispatch(s)
  PROVE  /\ inbox[s] # << >> /\ Head(inbox[s]) \in Deliveries
         /\ WorkItems' = WorkItems \cup {[sess |-> s, tag |-> Head(inbox[s]).tag,
                                          msg |-> Head(inbox[s]).msg, ackGen |-> gen[s]]}
<1>0. WorkerType /\ LinkType /\ SessionType
  BY TypeParts, Zenon
<1>1. inbox[s] # << >> /\ Head(inbox[s]) \in Deliveries
  BY <1>0, QueueFacts DEF OnMessageDispatch, LinkType
<1> DEFINE new == [sess |-> s, tag |-> Head(inbox[s]).tag, msg |-> Head(inbox[s]).msg,
                   ackGen |-> gen[s]]
<1>2. new \in Items
  BY <1>0, <1>1, DeliveryFields DEF Items, SessionType
<1>3. wq \in Seq(Items) /\ wq' = Append(wq, new) /\ held' = held /\ Hand' = Hand
  BY <1>0 DEF WorkerType, OnMessageDispatch, Hand
<1> HIDE DEF new
<1>4. {wq'[n] : n \in 1..Len(wq')} = {wq[n] : n \in 1..Len(wq)} \cup {new}
  BY <1>2, <1>3
<1> QED
  BY <1>1, <1>3, <1>4 DEF WorkItems, new

\* The worker's own steps only move items.
LEMMA MovedItems ==
  ASSUME TypeOK, WorkerGet \/ HoldExpires \/ DrainPop \/ AppendSample \/ ReadConnection
  PROVE  WorkItems' = WorkItems
<1>0. WorkerType
  BY TypeParts, Zenon
<1>1. CASE WorkerGet
  <2>1. wq \in Seq(Items) /\ wq # << >> /\ wq' = Tail(wq) /\ Hand = {}
    BY <1>0, <1>1 DEF WorkerType, WorkerGet, Hand, Idle
  <2>2. {wq[n] : n \in 1..Len(wq)} = {wq'[n] : n \in 1..Len(wq')} \cup {Head(wq)}
    BY <2>1
  <2>3. held' \cup Hand' = held \cup {Head(wq)}
    BY <1>1 DEF WorkerGet, Hand, Idle
  <2> QED
    BY <2>1, <2>2, <2>3 DEF WorkItems
<1>2. CASE HoldExpires
  BY <1>2 DEF HoldExpires, WorkItems, Hand, Idle
<1>3. CASE DrainPop
  BY <1>3 DEF DrainPop, WorkItems, Hand
<1>4. CASE AppendSample
  BY <1>4 DEF AppendSample, WorkItems, Hand
<1>5. CASE ReadConnection
  BY <1>5 DEF ReadConnection, WorkItems, Hand
<1> QED
  BY <1>1, <1>2, <1>3, <1>4, <1>5

\* An answer takes the item out of hand.
LEMMA DroppedItem ==
  ASSUME TypeOK, ScheduleAnswer \/ AppendFails
  PROVE  /\ work.item \in WorkItems /\ work.item \in Items
         /\ wq' = wq /\ held' = held /\ Hand' \subseteq Hand /\ Hand = {work.item}
         /\ WorkItems' \subseteq WorkItems /\ WorkItems \subseteq WorkItems' \cup {work.item}
<1>0. WorkerType
  BY TypeParts, Zenon
<1>1. Hand = {work.item} /\ work.item \in Items
  BY <1>0, WorkFields DEF ScheduleAnswer, AppendFails, WorkerType, Hand
<1>2. wq' = wq /\ held' = held /\ Hand' \subseteq Hand
  BY <1>1 DEF ScheduleAnswer, AppendFails, Hand, NextWork, Idle
<1> QED
  BY <1>1, <1>2 DEF WorkItems

\* A crash forgets every item.
LEMMA NoItems == Crash => WorkItems' = {} /\ Hand' = {}
BY DEF Crash, WorkItems, Hand, Idle

-----------------------------------------------------------------------------
(* Shapes of steps *)

\* A callback that has gone stale, or a teardown a bind has overtaken, does nothing.
Ignored(s, cb) == /\ IF cb.op = "teardown" THEN ~recon[s] ELSE CallbackStale(s, cb)
                  /\ UNCHANGED <<ready, unacked, acked, recon, alive, tpc>>

\* The broker takes the answer for the delivery with its tag.
Answered(s, cb) ==
  LET named == {d \in unacked[s] : d.tag = cb.tag} IN
  /\ cb.op # "teardown" /\ ~CallbackStale(s, cb)
  /\ unacked' = [unacked EXCEPT ![s] = @ \ named]
  /\ acked' = IF cb.op = "ack" THEN acked \cup MessagesOf(named) ELSE acked
  /\ UNCHANGED <<recon, alive, tpc>>

\* The channel is closed.
Broken(s) == /\ alive' = [alive EXCEPT ![s] = FALSE]
             /\ unacked' = [unacked EXCEPT ![s] = {}]
             /\ acked' = acked
             /\ recon' \in {recon, [recon EXCEPT ![s] = TRUE]}
             /\ tpc' = [tpc EXCEPT ![s] = IF @ = "consume" THEN "stopped" ELSE @]

\* What running a callback does.
LEMMA CallbackRuns ==
  ASSUME NEW s \in Consumers, RunCallback(s)
  PROVE  \E cb \in callbacks[s] : /\ callbacks' = [callbacks EXCEPT ![s] = @ \ {cb}]
                                  /\ Ignored(s, cb) \/ Answered(s, cb) \/ Broken(s)
<1>1. PICK cb \in callbacks[s] :
        /\ callbacks' = [callbacks EXCEPT ![s] = @ \ {cb}]
        /\ IF cb.op = "teardown" THEN RunTeardown(s) ELSE RunAnswer(s, cb)
  BY Zenon DEF RunCallback
<1>2. CASE cb.op = "teardown"
  BY <1>1, <1>2 DEF RunTeardown, Ignored, Broken, ChannelGone, Stopped
<1>3. CASE cb.op # "teardown"
  <2>1. RunAnswer(s, cb)
    BY <1>1, <1>3
  <2>2. Ignored(s, cb) \/ Answered(s, cb) \/ Broken(s)
    BY <1>3, <2>1, Zenon DEF RunAnswer, Ignored, Answered, Broken, ChannelGone, Stopped
  <2> QED
    BY <1>1, <2>2
<1> QED
  BY <1>2, <1>3

\* Calling back the first delivery of an inbox leaves the rest in place.
LEMMA InboxTail ==
  ASSUME LinkType, NEW s \in Consumers, inbox[s] # << >>, inbox' = [inbox EXCEPT ![s] = Tail(@)]
  PROVE  /\ inbox[s][1] = Head(inbox[s]) /\ 1 \in 1..Len(inbox[s])
         /\ \A u \in Consumers : u # s => inbox'[u] = inbox[u]
         /\ \A n \in 1..Len(inbox'[s]) :
              n \in Nat /\ n + 1 \in 1..Len(inbox[s]) /\ inbox'[s][n] = inbox[s][n + 1]
         /\ \A n \in 1..Len(inbox[s]) :
              n # 1 => n - 1 \in 1..Len(inbox'[s]) /\ inbox'[s][n - 1] = inbox[s][n]
<1>1. inbox[s] \in Seq(Deliveries) /\ inbox'[s] = Tail(inbox[s])
  BY DEF LinkType
<1> QED
  BY <1>1 DEF LinkType

\* The archive file only grows.
LEMMA ArchiveGrows ==
  ASSUME TypeOK, [Next]_vars
  PROVE  \A m : Archived(m) => Archived(m)'
<1>1. archive \in Seq(Messages)
  BY TypeParts, Zenon DEF WorkerType
<1>2. CASE AppendSample
  <2>1. work.item.msg \in Messages
    BY <1>2, TypeParts, WorkFields, ItemFields DEF AppendSample, WorkerType
  <2> QED
    BY <1>1, <1>2, <2>1 DEF AppendSample, Archived
<1>3. CASE archive' = archive
  BY <1>3 DEF Archived
<1>4. AppendSample \/ archive' = archive
  BY Zenon DEF Next, vars, workerVars, Consume, Worker, Connect, Bind, EnterConsume,
     ResumeAfterPause,
        NoticeLoss, AfterConsume, Unbind, CloseConnection, OnMessagePause, OnMessageDispatch,
        RunCallback, Deliver, ConnectionLost, OnMessageFails, WorkerGet, HoldExpires, DrainPop,
        ReadConnection, ScheduleAnswer, AppendFails, DbFills, DbDrains, Crash
<1> QED
  BY <1>2, <1>3, <1>4

\* A requested reconnect adds nothing but a teardown.
LEMMA ReconnectAsks ==
  ASSUME TypeOK, NEW s \in Consumers, RequestReconnect(s)
  PROVE  \A u \in Consumers : /\ callbacks[u] \subseteq callbacks'[u]
                              /\ \A cb \in callbacks'[u] : cb \in callbacks[u]
                                 \/ cb.op = "teardown"
<1>1. callbacks \in [Consumers -> SUBSET Callbacks]
  BY TypeParts, Zenon DEF LinkType
<1> DEFINE td == [op |-> "teardown"]
<1>2. td.op = "teardown"
  OBVIOUS
<1>3. callbacks' = callbacks \/ callbacks' = [callbacks EXCEPT ![s] = @ \cup {td}]
  BY DEF RequestReconnect
<1> HIDE DEF td
<1> QED
  BY <1>1, <1>2, <1>3

-----------------------------------------------------------------------------
(* One step and each part of the invariant *)

\* Closing, losing and unbinding a connection clear what the next one must not see.
LEMMA LinkOKStep == IInv /\ [Next]_vars => LinkOK'
<1> SUFFICES ASSUME IInv, [Next]_vars PROVE LinkOK'
  OBVIOUS
<1>0. TypeOK /\ BrokerType /\ SessionType /\ LinkType /\ WorkerType /\ Flags /\ LinkOK
  BY TypeParts, Zenon DEF IInv
<1> USE <1>0 DEF LinkOK, Fresh, Flags, brokerVars, sessionVars, linkVars, BrokerType,
        SessionType, LinkType, Places
<1>1. ASSUME NEW s \in Consumers, Connect(s) PROVE LinkOK'
  BY <1>1 DEF Connect, At
<1>2. ASSUME NEW s \in Consumers, Bind(s) PROVE LinkOK'
  BY <1>2 DEF Bind, BindRest, At
<1>3. ASSUME NEW s \in Consumers, EnterConsume(s) PROVE LinkOK'
  BY <1>3 DEF EnterConsume, At
<1>4. ASSUME NEW s \in Consumers, ResumeAfterPause(s) PROVE LinkOK'
  BY <1>4 DEF ResumeAfterPause, At
<1>5. ASSUME NEW s \in Consumers, NoticeLoss(s) PROVE LinkOK'
  BY <1>5 DEF NoticeLoss, At
<1>6. ASSUME NEW s \in Consumers, AfterConsume(s) PROVE LinkOK'
  BY <1>6 DEF AfterConsume, At
<1>7. ASSUME NEW s \in Consumers, Unbind(s) PROVE LinkOK'
  BY <1>7 DEF Unbind, At
<1>8. ASSUME NEW s \in Consumers, CloseConnection(s) PROVE LinkOK'
  BY <1>8 DEF CloseConnection, BindRest, ChannelGone, At
<1>9. ASSUME NEW s \in Consumers, OnMessagePause(s) PROVE LinkOK'
  BY <1>9 DEF OnMessagePause, At
<1>10. ASSUME NEW s \in Consumers, OnMessageDispatch(s) PROVE LinkOK'
  BY <1>10 DEF OnMessageDispatch
<1>11. ASSUME NEW s \in Consumers, RunCallback(s) PROVE LinkOK'
  <2>1. PICK cb \in callbacks[s] : /\ callbacks' = [callbacks EXCEPT ![s] = @ \ {cb}]
                                   /\ Ignored(s, cb) \/ Answered(s, cb) \/ Broken(s)
    BY <1>11, CallbackRuns
  <2>2. CASE Ignored(s, cb)
    BY <1>11, <2>1, <2>2 DEF RunCallback, Ignored
  <2>3. CASE Answered(s, cb)
    BY <1>11, <2>1, <2>3 DEF RunCallback, Answered
  <2>4. CASE Broken(s)
    BY <1>11, <2>1, <2>4 DEF RunCallback, Broken
  <2> QED
    BY <2>1, <2>2, <2>3, <2>4
<1>12. ASSUME NEW s \in Consumers, Deliver(s) PROVE LinkOK'
  BY <1>12 DEF Deliver
<1>13. ASSUME NEW s \in Consumers, ConnectionLost(s) PROVE LinkOK'
  BY <1>13 DEF ConnectionLost, ChannelGone
<1>14. ASSUME NEW s \in Consumers, OnMessageFails(s) PROVE LinkOK'
  BY <1>14 DEF OnMessageFails
<1>15. ASSUME WorkerGet PROVE LinkOK'
  BY <1>15 DEF WorkerGet
<1>16. ASSUME HoldExpires PROVE LinkOK'
  BY <1>16 DEF HoldExpires
<1>17. ASSUME DrainPop PROVE LinkOK'
  BY <1>17 DEF DrainPop
<1>18. ASSUME AppendSample PROVE LinkOK'
  BY <1>18 DEF AppendSample
<1>19. ASSUME ReadConnection PROVE LinkOK'
  BY <1>19 DEF ReadConnection
<1>20. ASSUME ScheduleAnswer PROVE LinkOK'
  BY <1>20 DEF ScheduleAnswer, RequestReconnect, NextWork
<1>21. ASSUME AppendFails PROVE LinkOK'
  BY <1>21 DEF AppendFails, RequestReconnect, NextWork
<1>22. ASSUME DbFills PROVE LinkOK'
  BY <1>22 DEF DbFills
<1>23. ASSUME DbDrains PROVE LinkOK'
  BY <1>23 DEF DbDrains
<1>24. ASSUME Crash PROVE LinkOK'
  BY <1>24 DEF Crash
<1>25. CASE UNCHANGED vars
  BY <1>25 DEF vars, workerVars
<1> QED
  BY <1>1, <1>2, <1>3, <1>4, <1>5, <1>6, <1>7, <1>8, <1>9, <1>10, <1>11, <1>12, <1>13, <1>14,
     <1>15, <1>16, <1>17, <1>18, <1>19, <1>20, <1>21, <1>22, <1>23, <1>24, <1>25,
     Zenon DEF Next, Consume, Worker

\* A new delivery takes a tag of its own; a new channel starts with none outstanding.
LEMMA TagsOKStep == IInv /\ [Next]_vars => TagsOK'
<1> SUFFICES ASSUME IInv, [Next]_vars PROVE TagsOK'
  OBVIOUS
<1>0. TypeOK /\ BrokerType /\ SessionType /\ LinkType /\ WorkerType /\ Flags /\ TagsOK /\ LinkOK
  BY TypeParts, Zenon DEF IInv
<1> USE <1>0 DEF TagsOK, LinkOK, brokerVars, BrokerType, Fresh
<1>1. ASSUME NEW s \in Consumers, Connect(s) PROVE TagsOK'
  BY <1>1 DEF Connect, At
<1>2. ASSUME NEW s \in Consumers, Bind(s) PROVE TagsOK'
  BY <1>2 DEF Bind, BindRest, At
<1>3. ASSUME NEW s \in Consumers, EnterConsume(s) PROVE TagsOK'
  BY <1>3 DEF EnterConsume, At
<1>4. ASSUME NEW s \in Consumers, ResumeAfterPause(s) PROVE TagsOK'
  BY <1>4 DEF ResumeAfterPause, At
<1>5. ASSUME NEW s \in Consumers, NoticeLoss(s) PROVE TagsOK'
  BY <1>5 DEF NoticeLoss, At
<1>6. ASSUME NEW s \in Consumers, AfterConsume(s) PROVE TagsOK'
  BY <1>6 DEF AfterConsume, At
<1>7. ASSUME NEW s \in Consumers, Unbind(s) PROVE TagsOK'
  BY <1>7 DEF Unbind, At
<1>8. ASSUME NEW s \in Consumers, CloseConnection(s) PROVE TagsOK'
  BY <1>8 DEF CloseConnection, BindRest, ChannelGone, At
<1>9. ASSUME NEW s \in Consumers, OnMessagePause(s) PROVE TagsOK'
  BY <1>9 DEF OnMessagePause, At
<1>10. ASSUME NEW s \in Consumers, OnMessageDispatch(s) PROVE TagsOK'
  BY <1>10 DEF OnMessageDispatch
<1>11. ASSUME NEW s \in Consumers, RunCallback(s) PROVE TagsOK'
  <2>1. PICK cb \in callbacks[s] : /\ callbacks' = [callbacks EXCEPT ![s] = @ \ {cb}]
                                   /\ Ignored(s, cb) \/ Answered(s, cb) \/ Broken(s)
    BY <1>11, CallbackRuns
  <2>2. CASE Ignored(s, cb)
    BY <1>11, <2>1, <2>2 DEF RunCallback, Ignored
  <2>3. CASE Answered(s, cb)
    BY <1>11, <2>1, <2>3 DEF RunCallback, Answered
  <2>4. CASE Broken(s)
    BY <1>11, <2>1, <2>4 DEF RunCallback, Broken
  <2> QED
    BY <2>1, <2>2, <2>3, <2>4
<1>12. ASSUME NEW s \in Consumers, Deliver(s) PROVE TagsOK'
  BY <1>12, DeliveryFields DEF Deliver, SessionType
<1>13. ASSUME NEW s \in Consumers, ConnectionLost(s) PROVE TagsOK'
  BY <1>13 DEF ConnectionLost, ChannelGone
<1>14. ASSUME NEW s \in Consumers, OnMessageFails(s) PROVE TagsOK'
  BY <1>14 DEF OnMessageFails
<1>15. ASSUME WorkerGet PROVE TagsOK'
  BY <1>15 DEF WorkerGet
<1>16. ASSUME HoldExpires PROVE TagsOK'
  BY <1>16 DEF HoldExpires
<1>17. ASSUME DrainPop PROVE TagsOK'
  BY <1>17 DEF DrainPop
<1>18. ASSUME AppendSample PROVE TagsOK'
  BY <1>18 DEF AppendSample
<1>19. ASSUME ReadConnection PROVE TagsOK'
  BY <1>19 DEF ReadConnection
<1>20. ASSUME ScheduleAnswer PROVE TagsOK'
  BY <1>20 DEF ScheduleAnswer, RequestReconnect, NextWork
<1>21. ASSUME AppendFails PROVE TagsOK'
  BY <1>21 DEF AppendFails, RequestReconnect, NextWork
<1>22. ASSUME DbFills PROVE TagsOK'
  BY <1>22 DEF DbFills
<1>23. ASSUME DbDrains PROVE TagsOK'
  BY <1>23 DEF DbDrains
<1>24. ASSUME Crash PROVE TagsOK'
  BY <1>24 DEF Crash
<1>25. CASE UNCHANGED vars
  BY <1>25 DEF vars, workerVars
<1> QED
  BY <1>1, <1>2, <1>3, <1>4, <1>5, <1>6, <1>7, <1>8, <1>9, <1>10, <1>11, <1>12, <1>13, <1>14,
     <1>15, <1>16, <1>17, <1>18, <1>19, <1>20, <1>21, <1>22, <1>23, <1>24, <1>25,
     Zenon DEF Next, Consume, Worker

\* An answer never takes a delivery from under the inbox.
LEMMA InboxOKStep == IInv /\ [Next]_vars => InboxOK'
<1> SUFFICES ASSUME IInv, [Next]_vars PROVE InboxOK'
  OBVIOUS
<1>0. TypeOK /\ BrokerType /\ SessionType /\ LinkType /\ WorkerType /\ Flags /\ InboxOK
      /\ LinkOK /\ InboxAlone
  BY TypeParts, Zenon DEF IInv
<1> USE <1>0 DEF InboxOK, LinkOK, InboxAlone, Flags, brokerVars, linkVars, BrokerType, LinkType,
        Fresh
<1>1. ASSUME NEW s \in Consumers, Connect(s) PROVE InboxOK'
  BY <1>1 DEF Connect, At
<1>2. ASSUME NEW s \in Consumers, Bind(s) PROVE InboxOK'
  BY <1>2 DEF Bind, BindRest, At
<1>3. ASSUME NEW s \in Consumers, EnterConsume(s) PROVE InboxOK'
  BY <1>3 DEF EnterConsume, At
<1>4. ASSUME NEW s \in Consumers, ResumeAfterPause(s) PROVE InboxOK'
  BY <1>4 DEF ResumeAfterPause, At
<1>5. ASSUME NEW s \in Consumers, NoticeLoss(s) PROVE InboxOK'
  BY <1>5 DEF NoticeLoss, At
<1>6. ASSUME NEW s \in Consumers, AfterConsume(s) PROVE InboxOK'
  BY <1>6 DEF AfterConsume, At
<1>7. ASSUME NEW s \in Consumers, Unbind(s) PROVE InboxOK'
  BY <1>7 DEF Unbind, At
<1>8. ASSUME NEW s \in Consumers, CloseConnection(s) PROVE InboxOK'
  BY <1>8 DEF CloseConnection, BindRest, ChannelGone, At
<1>9. ASSUME NEW s \in Consumers, OnMessagePause(s) PROVE InboxOK'
  BY <1>9, QueueFacts DEF OnMessagePause, At
<1>10. ASSUME NEW s \in Consumers, OnMessageDispatch(s) PROVE InboxOK'
  BY <1>10, QueueFacts DEF OnMessageDispatch
<1>11. ASSUME NEW s \in Consumers, RunCallback(s) PROVE InboxOK'
  <2>1. PICK cb \in callbacks[s] : /\ callbacks' = [callbacks EXCEPT ![s] = @ \ {cb}]
                                   /\ Ignored(s, cb) \/ Answered(s, cb) \/ Broken(s)
    BY <1>11, CallbackRuns
  <2>2. CASE Ignored(s, cb)
    BY <1>11, <2>1, <2>2 DEF RunCallback, Ignored
  <2>3. CASE Answered(s, cb)
    BY <1>11, <2>1, <2>3 DEF RunCallback, Answered
  <2>4. CASE Broken(s)
    BY <1>11, <2>1, <2>4 DEF RunCallback, Broken
  <2> QED
    BY <2>1, <2>2, <2>3, <2>4
<1>12. ASSUME NEW s \in Consumers, Deliver(s) PROVE InboxOK'
  BY <1>12, QueueFacts DEF Deliver
<1>13. ASSUME NEW s \in Consumers, ConnectionLost(s) PROVE InboxOK'
  BY <1>13 DEF ConnectionLost, ChannelGone
<1>14. ASSUME NEW s \in Consumers, OnMessageFails(s) PROVE InboxOK'
  <2>1. inbox[s] # << >> /\ inbox' = [inbox EXCEPT ![s] = Tail(@)] /\ alive' = alive
    BY <1>14 DEF OnMessageFails
  <2>2. \A d \in unacked[s] : d # Head(inbox[s]) => d \in unacked'[s]
    BY <1>14 DEF OnMessageFails
  <2>3. \A u \in Consumers : u # s => unacked'[u] = unacked[u] /\ inbox'[u] = inbox[u]
    BY <1>14, <2>1, InboxTail DEF OnMessageFails
  <2>4. alive[s] => \A n \in 1..Len(inbox'[s]) : inbox'[s][n] \in unacked'[s]
    <3> SUFFICES ASSUME alive[s], NEW n \in 1..Len(inbox'[s]) PROVE inbox'[s][n] \in unacked'[s]
      OBVIOUS
    <3>1. n \in Nat /\ n + 1 \in 1..Len(inbox[s]) /\ inbox'[s][n] = inbox[s][n + 1]
      BY <2>1, InboxTail
    <3>2. inbox[s][1] = Head(inbox[s]) /\ 1 \in 1..Len(inbox[s])
      BY <2>1, InboxTail
    <3>3. inbox[s][n + 1].tag # inbox[s][1].tag /\ inbox[s][n + 1] \in unacked[s]
      BY <3>1, <3>2
    <3> QED
      BY <2>2, <3>1, <3>2, <3>3
  <2> QED
    BY <2>1, <2>3, <2>4
<1>15. ASSUME WorkerGet PROVE InboxOK'
  BY <1>15 DEF WorkerGet
<1>16. ASSUME HoldExpires PROVE InboxOK'
  BY <1>16 DEF HoldExpires
<1>17. ASSUME DrainPop PROVE InboxOK'
  BY <1>17 DEF DrainPop
<1>18. ASSUME AppendSample PROVE InboxOK'
  BY <1>18 DEF AppendSample
<1>19. ASSUME ReadConnection PROVE InboxOK'
  BY <1>19 DEF ReadConnection
<1>20. ASSUME ScheduleAnswer PROVE InboxOK'
  BY <1>20 DEF ScheduleAnswer, RequestReconnect, NextWork
<1>21. ASSUME AppendFails PROVE InboxOK'
  BY <1>21 DEF AppendFails, RequestReconnect, NextWork
<1>22. ASSUME DbFills PROVE InboxOK'
  BY <1>22 DEF DbFills
<1>23. ASSUME DbDrains PROVE InboxOK'
  BY <1>23 DEF DbDrains
<1>24. ASSUME Crash PROVE InboxOK'
  BY <1>24 DEF Crash
<1>25. CASE UNCHANGED vars
  BY <1>25 DEF vars, workerVars
<1> QED
  BY <1>1, <1>2, <1>3, <1>4, <1>5, <1>6, <1>7, <1>8, <1>9, <1>10, <1>11, <1>12, <1>13, <1>14,
     <1>15, <1>16, <1>17, <1>18, <1>19, <1>20, <1>21, <1>22, <1>23, <1>24, <1>25,
     Zenon DEF Next, Consume, Worker

\* An item of the present generation stays outstanding until it is answered.
LEMMA ItemsOKStep == IInv /\ [Next]_vars => ItemsOK'
<1> SUFFICES ASSUME IInv, [Next]_vars PROVE ItemsOK'
  OBVIOUS
<1>0. TypeOK /\ BrokerType /\ SessionType /\ LinkType /\ WorkerType /\ Flags /\ ItemsOK
      /\ LinkOK /\ InboxOK /\ InboxAlone /\ AnswersAlone
  BY TypeParts, Zenon DEF IInv
<1> USE <1>0 DEF ItemsOK, LinkOK, InboxOK, InboxAlone, AnswersAlone, Current, Fresh, Flags,
        brokerVars, sessionVars, linkVars, BrokerType, SessionType
<1>1. ASSUME NEW s \in Consumers, Connect(s) PROVE ItemsOK'
  BY <1>1, SameItems, WorkItemsType, ItemFields DEF Connect, At, workerVars
<1>2. ASSUME NEW s \in Consumers, Bind(s) PROVE ItemsOK'
  BY <1>2, SameItems, WorkItemsType, ItemFields DEF Bind, BindRest, At, workerVars
<1>3. ASSUME NEW s \in Consumers, EnterConsume(s) PROVE ItemsOK'
  BY <1>3, SameItems, WorkItemsType, ItemFields DEF EnterConsume, At, workerVars
<1>4. ASSUME NEW s \in Consumers, ResumeAfterPause(s) PROVE ItemsOK'
  BY <1>4, SameItems, WorkItemsType, ItemFields DEF ResumeAfterPause, At, workerVars
<1>5. ASSUME NEW s \in Consumers, NoticeLoss(s) PROVE ItemsOK'
  BY <1>5, SameItems, WorkItemsType, ItemFields DEF NoticeLoss, At, workerVars
<1>6. ASSUME NEW s \in Consumers, AfterConsume(s) PROVE ItemsOK'
  BY <1>6, SameItems, WorkItemsType, ItemFields DEF AfterConsume, At, workerVars
<1>7. ASSUME NEW s \in Consumers, Unbind(s) PROVE ItemsOK'
  BY <1>7, SameItems, WorkItemsType, ItemFields DEF Unbind, At, workerVars
<1>8. ASSUME NEW s \in Consumers, CloseConnection(s) PROVE ItemsOK'
  BY <1>8, SameItems, WorkItemsType, ItemFields DEF CloseConnection, BindRest, ChannelGone, At,
     workerVars
<1>9. ASSUME NEW s \in Consumers, OnMessagePause(s) PROVE ItemsOK'
  <2>1. WorkItems' = WorkItems /\ UNCHANGED <<alive, gen>>
    BY <1>9, SameItems DEF OnMessagePause, workerVars
  <2>2. \A i \in WorkItems : i.sess = s /\ Current(i) /\ alive[s] =>
        Delivery(i) \notin SeqSet(inbox[s])
    BY DEF SeqSet, Delivery
  <2>3. \A u \in Consumers : \A d \in unacked[u] :
          (u = s => d \notin SeqSet(inbox[s])) => d \in unacked'[u]
    BY <1>9 DEF OnMessagePause
  <2> QED
    BY <1>9, <2>1, <2>2, <2>3, WorkItemsType, ItemFields DEF OnMessagePause, At
<1>10. ASSUME NEW s \in Consumers, OnMessageDispatch(s) PROVE ItemsOK'
  <2> DEFINE new == [sess |-> s, tag |-> Head(inbox[s]).tag, msg |-> Head(inbox[s]).msg,
                     ackGen |-> gen[s]]
  <2>1. WorkItems' = WorkItems \cup {new} /\ UNCHANGED <<alive, gen, unacked, tpc>>
    BY <1>10, DispatchedItems DEF OnMessageDispatch
  <2>2. Delivery(new) = Head(inbox[s]) /\ new.sess = s /\ new.ackGen = gen[s]
    BY <1>10, DispatchedItems, DeliveryFields DEF Delivery
  <2>3. alive[s] => Head(inbox[s]) \in unacked[s]
    BY <1>10, QueueFacts DEF OnMessageDispatch, LinkType
  <2>4. tpc[s] = "consume"
    BY <1>10 DEF OnMessageDispatch
  <2> HIDE DEF new
  <2> QED
    BY <2>1, <2>2, <2>3, <2>4, WorkItemsType, ItemFields
<1>11. ASSUME NEW s \in Consumers, RunCallback(s) PROVE ItemsOK'
  <2>1. PICK cb \in callbacks[s] : /\ callbacks' = [callbacks EXCEPT ![s] = @ \ {cb}]
                                   /\ Ignored(s, cb) \/ Answered(s, cb) \/ Broken(s)
    BY <1>11, CallbackRuns
  <2>2. WorkItems' = WorkItems /\ gen' = gen
    BY <1>11, SameItems DEF RunCallback, workerVars
  <2>3. CASE Ignored(s, cb)
    BY <2>2, <2>3, WorkItemsType, ItemFields DEF Ignored
  <2>4. CASE Answered(s, cb)
    <3>1. \A i \in WorkItems : i.sess = s /\ Current(i) /\ alive[s] => Delivery(i).tag # cb.tag
      BY <2>4 DEF Answered, Delivery
    <3>2. \A u \in Consumers : \A d \in unacked[u] : (u = s => d.tag # cb.tag) =>
          d \in unacked'[u]
      BY <2>4 DEF Answered
    <3>3. UNCHANGED <<alive, tpc>>
      BY <2>4 DEF Answered
    <3> QED
      BY <2>2, <3>1, <3>2, <3>3, WorkItemsType, ItemFields
  <2>5. CASE Broken(s)
    BY <2>2, <2>5, WorkItemsType, ItemFields DEF Broken
  <2> QED
    BY <2>1, <2>3, <2>4, <2>5
<1>12. ASSUME NEW s \in Consumers, Deliver(s) PROVE ItemsOK'
  BY <1>12, SameItems, WorkItemsType, ItemFields DEF Deliver, workerVars
<1>13. ASSUME NEW s \in Consumers, ConnectionLost(s) PROVE ItemsOK'
  BY <1>13, SameItems, WorkItemsType, ItemFields DEF ConnectionLost, ChannelGone, workerVars
<1>14. ASSUME NEW s \in Consumers, OnMessageFails(s) PROVE ItemsOK'
  <2>1. WorkItems' = WorkItems /\ UNCHANGED <<alive, gen>>
    BY <1>14, SameItems DEF OnMessageFails, workerVars
  <2>2. \A i \in WorkItems : i.sess = s /\ Current(i) /\ alive[s] => Delivery(i) # Head(inbox[s])
    BY <1>14, QueueFacts DEF OnMessageFails, LinkType, Delivery
  <2>3. \A u \in Consumers : \A d \in unacked[u] : (u = s => d # Head(inbox[s])) =>
        d \in unacked'[u]
    BY <1>14 DEF OnMessageFails
  <2>4. \A u \in Consumers : Fresh(u)' => Fresh(u)
    BY <1>14 DEF OnMessageFails
  <2> HIDE DEF Fresh
  <2> QED
    BY <2>1, <2>2, <2>3, <2>4, WorkItemsType, ItemFields
<1>15. ASSUME WorkerGet PROVE ItemsOK'
  BY <1>15, MovedItems DEF WorkerGet
<1>16. ASSUME HoldExpires PROVE ItemsOK'
  BY <1>16, MovedItems DEF HoldExpires
<1>17. ASSUME DrainPop PROVE ItemsOK'
  BY <1>17, MovedItems DEF DrainPop
<1>18. ASSUME AppendSample PROVE ItemsOK'
  BY <1>18, MovedItems DEF AppendSample
<1>19. ASSUME ReadConnection PROVE ItemsOK'
  BY <1>19, MovedItems DEF ReadConnection
<1>20. ASSUME ScheduleAnswer PROVE ItemsOK'
  BY <1>20, DroppedItem DEF ScheduleAnswer, RequestReconnect, NextWork
<1>21. ASSUME AppendFails PROVE ItemsOK'
  BY <1>21, DroppedItem DEF AppendFails, RequestReconnect, NextWork
<1>22. ASSUME DbFills PROVE ItemsOK'
  BY <1>22, SameItems, WorkItemsType, ItemFields DEF DbFills, workerVars
<1>23. ASSUME DbDrains PROVE ItemsOK'
  BY <1>23, SameItems, WorkItemsType, ItemFields DEF DbDrains, workerVars
<1>24. ASSUME Crash PROVE ItemsOK'
  BY <1>24, NoItems DEF Crash
<1>25. CASE UNCHANGED vars
  BY <1>25, SameItems DEF vars, workerVars
<1> QED
  BY <1>1, <1>2, <1>3, <1>4, <1>5, <1>6, <1>7, <1>8, <1>9, <1>10, <1>11, <1>12, <1>13, <1>14,
     <1>15, <1>16, <1>17, <1>18, <1>19, <1>20, <1>21, <1>22, <1>23, <1>24, <1>25,
     Zenon DEF Next, Consume, Worker

\* The channel noted with an item stays the one it came on.
LEMMA HandOKStep == IInv /\ [Next]_vars => HandOK'
<1> SUFFICES ASSUME IInv, [Next]_vars PROVE HandOK'
  OBVIOUS
<1>0. TypeOK /\ BrokerType /\ SessionType /\ LinkType /\ WorkerType /\ Flags /\ HandOK
      /\ LinkOK /\ ItemsOK
  BY TypeParts, Zenon DEF IInv
<1>00. work.pc \in {"append", "answer", "check"} => work.item \in WorkItems
       /\ work.item.sess \in Consumers
  BY <1>0, WorkFields, ItemFields DEF WorkItems, Hand, WorkerType
<1>01. \A i \in WorkItems : Current(i) =>
        \/ conn[i.sess] = opened[i.sess]
        \/ conn[i.sess] = 0 /\ tpc[i.sess] = "unbind"
  BY <1>0, WorkItemsType, ItemFields DEF LinkOK, ItemsOK, Fresh
<1> USE <1>0, <1>00 DEF HandOK, LinkOK, ItemsOK, Current, Fresh, Archived, sessionVars,
        linkVars, SessionType, workerVars
<1>1. ASSUME NEW s \in Consumers, Connect(s) PROVE HandOK'
  BY <1>1 DEF Connect, At
<1>2. ASSUME NEW s \in Consumers, Bind(s) PROVE HandOK'
  BY <1>2 DEF Bind, BindRest, At
<1>3. ASSUME NEW s \in Consumers, EnterConsume(s) PROVE HandOK'
  BY <1>3 DEF EnterConsume, At
<1>4. ASSUME NEW s \in Consumers, ResumeAfterPause(s) PROVE HandOK'
  BY <1>4 DEF ResumeAfterPause, At
<1>5. ASSUME NEW s \in Consumers, NoticeLoss(s) PROVE HandOK'
  BY <1>5 DEF NoticeLoss, At
<1>6. ASSUME NEW s \in Consumers, AfterConsume(s) PROVE HandOK'
  BY <1>6 DEF AfterConsume, At
<1>7. ASSUME NEW s \in Consumers, Unbind(s) PROVE HandOK'
  BY <1>7 DEF Unbind, At
<1>8. ASSUME NEW s \in Consumers, CloseConnection(s) PROVE HandOK'
  BY <1>8 DEF CloseConnection, BindRest, ChannelGone, At
<1>9. ASSUME NEW s \in Consumers, OnMessagePause(s) PROVE HandOK'
  BY <1>9 DEF OnMessagePause, At
<1>10. ASSUME NEW s \in Consumers, OnMessageDispatch(s) PROVE HandOK'
  BY <1>10 DEF OnMessageDispatch
<1>11. ASSUME NEW s \in Consumers, RunCallback(s) PROVE HandOK'
  <2>1. PICK cb \in callbacks[s] : /\ callbacks' = [callbacks EXCEPT ![s] = @ \ {cb}]
                                   /\ Ignored(s, cb) \/ Answered(s, cb) \/ Broken(s)
    BY <1>11, CallbackRuns
  <2>2. CASE Ignored(s, cb)
    BY <1>11, <2>1, <2>2 DEF RunCallback, Ignored
  <2>3. CASE Answered(s, cb)
    BY <1>11, <2>1, <2>3 DEF RunCallback, Answered
  <2>4. CASE Broken(s)
    BY <1>11, <2>1, <2>4 DEF RunCallback, Broken
  <2> QED
    BY <2>1, <2>2, <2>3, <2>4
<1>12. ASSUME NEW s \in Consumers, Deliver(s) PROVE HandOK'
  BY <1>12 DEF Deliver
<1>13. ASSUME NEW s \in Consumers, ConnectionLost(s) PROVE HandOK'
  BY <1>13 DEF ConnectionLost, ChannelGone
<1>14. ASSUME NEW s \in Consumers, OnMessageFails(s) PROVE HandOK'
  BY <1>14 DEF OnMessageFails
<1>15. ASSUME WorkerGet PROVE HandOK'
  <2>1. wq \in Seq(Items) /\ wq # << >>
    BY <1>15 DEF WorkerGet, WorkerType
  <2>2. Head(wq) \in WorkItems
    BY <2>1 DEF WorkItems
  <2>3. \/ work' = [pc |-> "append", item |-> Head(wq), chan |-> conn[Head(wq).sess]]
        \/ work' = Idle
        \/ work' = [pc |-> "drain"]
    BY <1>15 DEF WorkerGet
  <2> QED
    BY <1>15, <1>01, <2>2, <2>3 DEF WorkerGet, Idle
<1>16. ASSUME HoldExpires PROVE HandOK'
  BY <1>16 DEF HoldExpires
<1>17. ASSUME DrainPop PROVE HandOK'
  <2>1. PICK i \in held : work' = [pc |-> "append", item |-> i, chan |-> conn[i.sess]]
    BY <1>17 DEF DrainPop
  <2>2. i \in WorkItems
    BY DEF WorkItems
  <2> QED
    BY <1>17, <1>01, <2>1, <2>2 DEF DrainPop
<1>18. ASSUME AppendSample PROVE HandOK'
  <2>1. work.item \in Items /\ work.item.msg \in Messages /\ archive \in Seq(Messages)
    BY <1>18, WorkFields, ItemFields DEF AppendSample, WorkerType
  <2>2. archive' = Append(archive, work.item.msg) /\ work' = [pc |-> "answer",
        item |-> work.item, op |-> "ack"]
    BY <1>18 DEF AppendSample
  <2>3. Archived(work.item.msg)'
    <3>1. archive'[Len(archive) + 1] = work.item.msg /\ Len(archive') = Len(archive) + 1
          /\ Len(archive) \in Nat
      BY <2>1, <2>2
    <3>2. work'.item = work.item
      BY <2>2
    <3>3. Len(archive) + 1 \in 1..Len(archive')
      BY <3>1
    <3>4. \E n \in 1..Len(archive') : archive'[n] = work'.item.msg
      BY <3>1, <3>2, <3>3
    <3> QED
      BY <3>4
  <2> QED
    BY <2>2, <2>3
<1>19. ASSUME ReadConnection PROVE HandOK'
  BY <1>19 DEF ReadConnection
<1>20. ASSUME ScheduleAnswer PROVE HandOK'
  BY <1>20 DEF ScheduleAnswer, RequestReconnect, NextWork, Idle
<1>21. ASSUME AppendFails PROVE HandOK'
  BY <1>21 DEF AppendFails, RequestReconnect, NextWork, Idle
<1>22. ASSUME DbFills PROVE HandOK'
  BY <1>22 DEF DbFills
<1>23. ASSUME DbDrains PROVE HandOK'
  BY <1>23 DEF DbDrains
<1>24. ASSUME Crash PROVE HandOK'
  BY <1>24 DEF Crash, Idle
<1>25. CASE UNCHANGED vars
  BY <1>25, SameItems DEF vars, workerVars
<1> QED
  BY <1>1, <1>2, <1>3, <1>4, <1>5, <1>6, <1>7, <1>8, <1>9, <1>10, <1>11, <1>12, <1>13, <1>14,
     <1>15, <1>16, <1>17, <1>18, <1>19, <1>20, <1>21, <1>22, <1>23, <1>24, <1>25,
     Zenon DEF Next, Consume, Worker

\* An answer is scheduled for an outstanding delivery and an ack for an archived one.
LEMMA AnswersOKStep == IInv /\ [Next]_vars => AnswersOK'
<1> SUFFICES ASSUME IInv, [Next]_vars PROVE AnswersOK'
  OBVIOUS
<1>0. TypeOK /\ BrokerType /\ SessionType /\ LinkType /\ WorkerType /\ Flags /\ AnswersOK
      /\ LinkOK
  BY TypeParts, Zenon DEF IInv
<1>00. \A m : Archived(m) => Archived(m)'
  BY <1>0, ArchiveGrows
<1> USE <1>0, <1>00 DEF AnswersOK, LinkOK, Fresh, Flags, brokerVars, sessionVars, linkVars,
        BrokerType, SessionType, LinkType
<1>1. ASSUME NEW s \in Consumers, Connect(s) PROVE AnswersOK'
  BY <1>1 DEF Connect, At
<1>2. ASSUME NEW s \in Consumers, Bind(s) PROVE AnswersOK'
  BY <1>2 DEF Bind, BindRest, At
<1>3. ASSUME NEW s \in Consumers, EnterConsume(s) PROVE AnswersOK'
  BY <1>3 DEF EnterConsume, At
<1>4. ASSUME NEW s \in Consumers, ResumeAfterPause(s) PROVE AnswersOK'
  BY <1>4 DEF ResumeAfterPause, At
<1>5. ASSUME NEW s \in Consumers, NoticeLoss(s) PROVE AnswersOK'
  BY <1>5 DEF NoticeLoss, At
<1>6. ASSUME NEW s \in Consumers, AfterConsume(s) PROVE AnswersOK'
  BY <1>6 DEF AfterConsume, At
<1>7. ASSUME NEW s \in Consumers, Unbind(s) PROVE AnswersOK'
  BY <1>7 DEF Unbind, At
<1>8. ASSUME NEW s \in Consumers, CloseConnection(s) PROVE AnswersOK'
  BY <1>8 DEF CloseConnection, BindRest, ChannelGone, At
<1>9. ASSUME NEW s \in Consumers, OnMessagePause(s) PROVE AnswersOK'
  <2>1. InboxAlone /\ UNCHANGED <<alive, gen, opened, callbacks>>
    BY <1>9 DEF OnMessagePause, IInv
  <2>2. \A cb \in callbacks[s] : cb.op # "teardown" /\ alive[s] =>
        Delivery(cb) \notin SeqSet(inbox[s])
    BY <2>1 DEF InboxAlone, SeqSet, Delivery
  <2>3. \A u \in Consumers : \A d \in unacked[u] :
          (u = s => d \notin SeqSet(inbox[s])) => d \in unacked'[u]
    BY <1>9 DEF OnMessagePause
  <2> QED
    BY <1>9, <2>1, <2>2, <2>3 DEF OnMessagePause, At
<1>10. ASSUME NEW s \in Consumers, OnMessageDispatch(s) PROVE AnswersOK'
  BY <1>10 DEF OnMessageDispatch
<1>11. ASSUME NEW s \in Consumers, RunCallback(s) PROVE AnswersOK'
  <2>1. PICK cb \in callbacks[s] : /\ callbacks' = [callbacks EXCEPT ![s] = @ \ {cb}]
                                   /\ Ignored(s, cb) \/ Answered(s, cb) \/ Broken(s)
    BY <1>11, CallbackRuns
  <2>2. gen' = gen /\ opened' = opened
    BY <1>11 DEF RunCallback
  <2>3. CASE Ignored(s, cb)
    BY <2>1, <2>2, <2>3 DEF Ignored
  <2>4. CASE Answered(s, cb)
    <3>1. \A cc \in callbacks[s] : cc.op # "teardown" /\ cc # cb /\ alive[s] =>
          Delivery(cc).tag # cb.tag
      BY <2>4 DEF Answered, Delivery, IInv, AnswersAlone
    <3>2. \A u \in Consumers : \A d \in unacked[u] : (u = s => d.tag # cb.tag) =>
          d \in unacked'[u]
      BY <2>4 DEF Answered
    <3>3. UNCHANGED <<alive, tpc>>
      BY <2>4 DEF Answered
    <3> QED
      BY <2>1, <2>2, <3>1, <3>2, <3>3
  <2>5. CASE Broken(s)
    BY <2>1, <2>2, <2>5 DEF Broken
  <2> QED
    BY <2>1, <2>3, <2>4, <2>5
<1>12. ASSUME NEW s \in Consumers, Deliver(s) PROVE AnswersOK'
  BY <1>12 DEF Deliver
<1>13. ASSUME NEW s \in Consumers, ConnectionLost(s) PROVE AnswersOK'
  BY <1>13 DEF ConnectionLost, ChannelGone
<1>14. ASSUME NEW s \in Consumers, OnMessageFails(s) PROVE AnswersOK'
  <2>1. InboxAlone /\ UNCHANGED <<alive, gen, opened, callbacks>>
    BY <1>14 DEF OnMessageFails, IInv
  <2>2. \A cb \in callbacks[s] : cb.op # "teardown" /\ alive[s] => Delivery(cb) # Head(inbox[s])
    BY <1>14, <2>1, QueueFacts DEF OnMessageFails, LinkType, InboxAlone, Delivery
  <2>3. \A u \in Consumers : \A d \in unacked[u] : (u = s => d # Head(inbox[s])) =>
        d \in unacked'[u]
    BY <1>14 DEF OnMessageFails
  <2>4. \A u \in Consumers : Fresh(u)' => Fresh(u)
    BY <1>14 DEF OnMessageFails
  <2> HIDE DEF Fresh
  <2> QED
    BY <2>1, <2>2, <2>3, <2>4
<1>15. ASSUME WorkerGet PROVE AnswersOK'
  BY <1>15 DEF WorkerGet
<1>16. ASSUME HoldExpires PROVE AnswersOK'
  BY <1>16 DEF HoldExpires
<1>17. ASSUME DrainPop PROVE AnswersOK'
  BY <1>17 DEF DrainPop
<1>18. ASSUME AppendSample PROVE AnswersOK'
  BY <1>18 DEF AppendSample
<1>19. ASSUME ReadConnection PROVE AnswersOK'
  BY <1>19 DEF ReadConnection
<1>20. ASSUME ScheduleAnswer PROVE AnswersOK'
  <2> DEFINE i == work.item
  <2>1. i \in WorkItems /\ i \in Items /\ work.op \in {"ack", "nack"}
    BY <1>20, DroppedItem, WorkFields DEF ScheduleAnswer, WorkerType
  <2>2. i.sess \in Consumers
    BY <2>1, ItemFields
  <2> DEFINE answer == [op |-> work.op, conn |-> work.chan, gen |-> gen[i.sess], tag |-> i.tag,
             msg |-> i.msg]
  <2>3. UNCHANGED <<alive, gen, opened, unacked, tpc>>
    BY <1>20 DEF ScheduleAnswer
  <2>4. CASE /\ ~OtherGeneration(i) /\ ChannelOpen(i.sess, work.chan)
             /\ callbacks' = [callbacks EXCEPT ![i.sess] = @ \cup {answer}]
    <3>1. Current(i) /\ answer.gen = gen[i.sess] /\ answer.conn = opened[i.sess]
          /\ Delivery(answer) = Delivery(i)
      BY <2>4 DEF OtherGeneration, Current, ChannelOpen, Delivery
    <3>2. ~Fresh(i.sess) /\ (alive[i.sess] => Delivery(answer) \in unacked[i.sess])
      BY <2>1, <3>1 DEF IInv, ItemsOK
    <3>3. answer.op = "ack" => Archived(answer.msg)
      BY <1>20 DEF IInv, HandOK, ScheduleAnswer
    <3> HIDE DEF answer
    <3> QED
      BY <2>2, <2>3, <2>4, <3>1, <3>2, <3>3
  <2>5. CASE callbacks' = callbacks \/ RequestReconnect(i.sess)
    BY <2>2, <2>3, <2>5, ReconnectAsks
  <2> QED
    BY <1>20, <2>4, <2>5 DEF ScheduleAnswer
<1>21. ASSUME AppendFails PROVE AnswersOK'
  <2>1. UNCHANGED <<alive, gen, opened, unacked, tpc>>
    BY <1>21 DEF AppendFails
  <2>2. callbacks' = callbacks \/ RequestReconnect(work.item.sess)
    BY <1>21 DEF AppendFails
  <2>3. work.item.sess \in Consumers
    BY <1>21, DroppedItem, ItemFields
  <2> QED
    BY <2>1, <2>2, <2>3, ReconnectAsks
<1>22. ASSUME DbFills PROVE AnswersOK'
  BY <1>22 DEF DbFills
<1>23. ASSUME DbDrains PROVE AnswersOK'
  BY <1>23 DEF DbDrains
<1>24. ASSUME Crash PROVE AnswersOK'
  BY <1>24 DEF Crash
<1>25. CASE UNCHANGED vars
  BY <1>25, SameItems DEF vars, workerVars
<1> QED
  BY <1>1, <1>2, <1>3, <1>4, <1>5, <1>6, <1>7, <1>8, <1>9, <1>10, <1>11, <1>12, <1>13, <1>14,
     <1>15, <1>16, <1>17, <1>18, <1>19, <1>20, <1>21, <1>22, <1>23, <1>24, <1>25,
     Zenon DEF Next, Consume, Worker

\* Tag and message of a delivery.
LEMMA DeliveryTag == \A x : Delivery(x).tag = x.tag /\ Delivery(x).msg = x.msg
BY DEF Delivery

\* The next tag of a channel is nobody's yet.
LEMMA NewTag ==
  ASSUME IInv, NEW s \in Consumers, alive[s]
  PROVE  /\ \A n \in 1..Len(inbox[s]) : inbox[s][n].tag # nextTag[s]
         /\ \A i \in WorkItems : i.sess = s /\ Current(i) => i.tag # nextTag[s]
         /\ \A cb \in callbacks[s] : cb.op # "teardown" => cb.tag # nextTag[s]
<1>0. TypeOK /\ TagsOK /\ InboxOK /\ ItemsOK /\ AnswersOK
  BY Zenon DEF IInv
<1>1. \A e \in unacked[s] : e.tag # nextTag[s]
  <2>1. BrokerType
    BY <1>0, TypeParts, Zenon
  <2>2. \A e \in unacked[s] : e.tag \in Nat /\ e.tag < nextTag[s]
    BY <1>0, <2>1, DeliveryFields DEF TagsOK, BrokerType
  <2>3. nextTag[s] \in Nat
    BY <2>1 DEF BrokerType
  <2> QED
    BY <2>2, <2>3
<1>2. \A n \in 1..Len(inbox[s]) : inbox[s][n] \in unacked[s]
  BY <1>0, Zenon DEF InboxOK
<1>3. \A i \in WorkItems : i.sess = s /\ Current(i) => Delivery(i) \in unacked[s]
  BY <1>0, Zenon DEF ItemsOK
<1>4. \A cb \in callbacks[s] : cb.op # "teardown" => Delivery(cb) \in unacked[s]
  BY <1>0, Zenon DEF AnswersOK
<1> QED
  BY <1>1, <1>2, <1>3, <1>4, DeliveryTag

\* Each delivery has one holder: the inbox,
LEMMA InboxAloneStep == IInv /\ [Next]_vars => InboxAlone'
<1> SUFFICES ASSUME IInv, [Next]_vars PROVE InboxAlone'
  OBVIOUS
<1>0. TypeOK /\ BrokerType /\ SessionType /\ LinkType /\ WorkerType /\ Flags /\ InboxAlone
      /\ LinkOK
  BY TypeParts, Zenon DEF IInv
<1> USE <1>0 DEF InboxAlone, LinkOK, Current, Fresh, Flags, brokerVars, sessionVars, linkVars,
        LinkType, SessionType
<1>1. ASSUME NEW s \in Consumers, Connect(s) PROVE InboxAlone'
  BY <1>1, SameItems, WorkItemsType, ItemFields DEF Connect, At, workerVars
<1>2. ASSUME NEW s \in Consumers, Bind(s) PROVE InboxAlone'
  BY <1>2, SameItems, WorkItemsType, ItemFields DEF Bind, BindRest, At, workerVars
<1>3. ASSUME NEW s \in Consumers, EnterConsume(s) PROVE InboxAlone'
  BY <1>3, SameItems, WorkItemsType, ItemFields DEF EnterConsume, At, workerVars
<1>4. ASSUME NEW s \in Consumers, ResumeAfterPause(s) PROVE InboxAlone'
  BY <1>4, SameItems, WorkItemsType, ItemFields DEF ResumeAfterPause, At, workerVars
<1>5. ASSUME NEW s \in Consumers, NoticeLoss(s) PROVE InboxAlone'
  BY <1>5, SameItems, WorkItemsType, ItemFields DEF NoticeLoss, At, workerVars
<1>6. ASSUME NEW s \in Consumers, AfterConsume(s) PROVE InboxAlone'
  BY <1>6, SameItems, WorkItemsType, ItemFields DEF AfterConsume, At, workerVars
<1>7. ASSUME NEW s \in Consumers, Unbind(s) PROVE InboxAlone'
  BY <1>7, SameItems, WorkItemsType, ItemFields DEF Unbind, At, workerVars
<1>8. ASSUME NEW s \in Consumers, CloseConnection(s) PROVE InboxAlone'
  BY <1>8, SameItems, WorkItemsType, ItemFields DEF CloseConnection, BindRest, ChannelGone, At,
     workerVars
<1>9. ASSUME NEW s \in Consumers, OnMessagePause(s) PROVE InboxAlone'
  BY <1>9, SameItems, WorkItemsType, ItemFields DEF OnMessagePause, At, workerVars
<1>10. ASSUME NEW s \in Consumers, OnMessageDispatch(s) PROVE InboxAlone'
  <2> DEFINE new == [sess |-> s, tag |-> Head(inbox[s]).tag, msg |-> Head(inbox[s]).msg,
                     ackGen |-> gen[s]]
  <2>1. WorkItems' = WorkItems \cup {new} /\ UNCHANGED <<alive, gen, callbacks>>
    BY <1>10, DispatchedItems DEF OnMessageDispatch
  <2>2. inbox[s] # << >> /\ inbox' = [inbox EXCEPT ![s] = Tail(@)]
    BY <1>10 DEF OnMessageDispatch
  <2>3. new.sess = s /\ new.tag = inbox[s][1].tag
    BY <2>2, InboxTail
  <2> HIDE DEF new
  <2> SUFFICES ASSUME NEW u \in Consumers, alive[u], NEW n \in 1..Len(inbox'[u])
               PROVE  /\ \A m \in 1..Len(inbox'[u]) :
                           inbox'[u][m].tag = inbox'[u][n].tag => m = n
                      /\ \A i \in WorkItems' : i.sess = u /\ Current(i)'
                                                => i.tag # inbox'[u][n].tag
                      /\ \A cb \in callbacks[u] : cb.op # "teardown"
                                                 => cb.tag # inbox'[u][n].tag
    BY <2>1
  <2>4. CASE u # s
    <3>1. inbox'[u] = inbox[u]
      BY <2>2, <2>4
    <3>. QED BY <2>1, <2>3, <2>4, <3>1
  <2>5. CASE u = s
    <3>1. /\ n \in Nat /\ n + 1 \in 1..Len(inbox[s]) /\ 1 \in 1..Len(inbox[s])
          /\ inbox'[s][n] = inbox[s][n + 1]
      BY <2>2, <2>5, InboxTail
    <3>2. \A m \in 1..Len(inbox'[s]) : inbox'[s][m].tag = inbox'[s][n].tag => m = n
      <4> SUFFICES ASSUME NEW m \in 1..Len(inbox'[s]), inbox'[s][m].tag = inbox'[s][n].tag
                   PROVE  m = n
        OBVIOUS
      <4>1. m \in Nat /\ m + 1 \in 1..Len(inbox[s]) /\ inbox'[s][m] = inbox[s][m + 1]
        BY <2>2, InboxTail
      <4>2. m + 1 = n + 1
        BY <2>5, <3>1, <4>1
      <4>. QED BY <3>1, <4>1, <4>2
    <3>3. new.tag # inbox'[s][n].tag
      BY <2>3, <2>5, <3>1
    <3>. QED BY <2>1, <2>5, <3>1, <3>2, <3>3
  <2> QED
    BY <2>4, <2>5
<1>11. ASSUME NEW s \in Consumers, RunCallback(s) PROVE InboxAlone'
  <2>1. PICK cb \in callbacks[s] : /\ callbacks' = [callbacks EXCEPT ![s] = @ \ {cb}]
                                   /\ Ignored(s, cb) \/ Answered(s, cb) \/ Broken(s)
    BY <1>11, CallbackRuns
  <2>2. WorkItems' = WorkItems /\ gen' = gen /\ inbox' = inbox
    BY <1>11, SameItems DEF RunCallback, workerVars
  <2>3. \A u \in Consumers : alive'[u] => alive[u]
    BY <2>1 DEF Ignored, Answered, Broken
  <2> QED
    BY <2>1, <2>2, <2>3
<1>12. ASSUME NEW s \in Consumers, Deliver(s) PROVE InboxAlone'
  <2>1. PICK m \in ready : /\ inbox' = [inbox EXCEPT ![s] = Append(@, [tag |-> nextTag[s],
                              msg |-> m])]
    BY <1>12 DEF Deliver
  <2> DEFINE d == [tag |-> nextTag[s], msg |-> m]
  <2>2. d \in Deliveries /\ d.tag = nextTag[s]
    BY DEF BrokerType, Deliveries
  <2> HIDE DEF d
  <2>3. /\ WorkItems' = WorkItems /\ UNCHANGED <<alive, gen, callbacks>>
        /\ \A u \in Consumers : u # s => inbox'[u] = inbox[u]
        /\ inbox'[s] = Append(inbox[s], d) /\ inbox[s] \in Seq(Deliveries)
    BY <1>12, <2>1, SameItems DEF Deliver, workerVars, d
  <2>4. /\ Len(inbox'[s]) = Len(inbox[s]) + 1 /\ Len(inbox[s]) \in Nat
        /\ \A n \in 1..Len(inbox[s]) : inbox'[s][n] = inbox[s][n]
        /\ inbox'[s][Len(inbox[s]) + 1] = d
    BY <2>2, <2>3, QueueFacts
  <2>6. alive[s] => /\ \A n \in 1..Len(inbox[s]) : inbox[s][n].tag # d.tag
                    /\ \A i \in WorkItems : i.sess = s /\ Current(i) => i.tag # d.tag
                    /\ \A cb \in callbacks[s] : cb.op # "teardown" => cb.tag # d.tag
    BY <2>2, NewTag
  <2> SUFFICES ASSUME NEW u \in Consumers, alive'[u], NEW n \in 1..Len(inbox'[u])
               PROVE  /\ \A m2 \in 1..Len(inbox'[u]) : inbox'[u][m2].tag = inbox'[u][n].tag =>
                         m2 = n
                      /\ \A i \in WorkItems' : i.sess = u /\ Current(i)' =>
                         i.tag # inbox'[u][n].tag
                      /\ \A cb \in callbacks'[u] : cb.op # "teardown" => cb.tag # inbox'[u][n].tag
    OBVIOUS
  <2>9. CASE u # s
    BY <2>3, <2>9
  <2>10. CASE u = s /\ n = Len(inbox[s]) + 1
    <3>1. inbox'[u][n] = d /\ alive[s]
      BY <2>3, <2>4, <2>10
    <3>2. ASSUME NEW k \in 1..Len(inbox'[u]), inbox'[u][k].tag = d.tag PROVE k = n
      <4>1. k # n => k \in 1..Len(inbox[s]) /\ inbox'[u][k] = inbox[s][k]
        BY <2>4, <2>10
      <4> QED
        BY <2>6, <3>1, <3>2, <4>1
    <3> QED
      BY <2>3, <2>6, <2>10, <3>1, <3>2
  <2>11. CASE u = s /\ n # Len(inbox[s]) + 1
    <3>1. n \in 1..Len(inbox[s]) /\ inbox'[u][n] = inbox[s][n] /\ alive[s]
      BY <2>3, <2>4, <2>11
    <3>2. ASSUME NEW k \in 1..Len(inbox'[u]), inbox'[u][k].tag = inbox[s][n].tag PROVE k = n
      <4>1. CASE k \in 1..Len(inbox[s]) /\ inbox'[u][k] = inbox[s][k]
        BY <3>1, <3>2, <4>1
      <4>2. CASE inbox'[u][k] = d
        BY <2>6, <3>1, <3>2, <4>2
      <4> QED
        BY <2>4, <2>11, <4>1, <4>2
    <3> QED
      BY <2>3, <2>11, <3>1, <3>2
  <2> QED
    BY <2>9, <2>10, <2>11
<1>13. ASSUME NEW s \in Consumers, ConnectionLost(s) PROVE InboxAlone'
  BY <1>13, SameItems, WorkItemsType, ItemFields DEF ConnectionLost, ChannelGone, workerVars
<1>14. ASSUME NEW s \in Consumers, OnMessageFails(s) PROVE InboxAlone'
  <2>1. inbox[s] # << >> /\ inbox' = [inbox EXCEPT ![s] = Tail(@)] /\ UNCHANGED <<alive, gen,
        callbacks>>
    BY <1>14 DEF OnMessageFails
  <2>2. WorkItems' = WorkItems
    BY <1>14, SameItems DEF OnMessageFails, workerVars
  <2> SUFFICES ASSUME NEW u \in Consumers, alive'[u], NEW n \in 1..Len(inbox'[u])
               PROVE  /\ \A m \in 1..Len(inbox'[u]) : inbox'[u][m].tag = inbox'[u][n].tag => m = n
                      /\ \A i \in WorkItems' : i.sess = u /\ Current(i)' =>
                         i.tag # inbox'[u][n].tag
                      /\ \A cb \in callbacks'[u] : cb.op # "teardown" => cb.tag # inbox'[u][n].tag
    OBVIOUS
  <2>3. CASE u # s
    BY <2>1, <2>2, <2>3, InboxTail
  <2>4. CASE u = s
    <3>1. n \in Nat /\ n + 1 \in 1..Len(inbox[s]) /\ inbox'[s][n] = inbox[s][n + 1]
      BY <2>1, <2>4, InboxTail
    <3>2. \A m \in 1..Len(inbox'[u]) : m \in Nat /\ m + 1 \in 1..Len(inbox[s])
          /\ inbox'[s][m] = inbox[s][m + 1]
      BY <2>1, <2>4, InboxTail
    <3> QED
      BY <2>1, <2>2, <2>4, <3>1, <3>2
  <2> QED
    BY <2>3, <2>4
<1>15. ASSUME WorkerGet PROVE InboxAlone'
  BY <1>15, MovedItems, WorkItemsType, ItemFields DEF WorkerGet
<1>16. ASSUME HoldExpires PROVE InboxAlone'
  BY <1>16, MovedItems, WorkItemsType, ItemFields DEF HoldExpires
<1>17. ASSUME DrainPop PROVE InboxAlone'
  BY <1>17, MovedItems, WorkItemsType, ItemFields DEF DrainPop
<1>18. ASSUME AppendSample PROVE InboxAlone'
  BY <1>18, MovedItems, WorkItemsType, ItemFields DEF AppendSample
<1>19. ASSUME ReadConnection PROVE InboxAlone'
  BY <1>19, MovedItems, WorkItemsType, ItemFields DEF ReadConnection
<1>20. ASSUME ScheduleAnswer PROVE InboxAlone'
  <2> DEFINE i == work.item
  <2>1. i \in WorkItems /\ i \in Items /\ WorkItems' \subseteq WorkItems
    BY <1>20, DroppedItem
  <2>2. i.sess \in Consumers
    BY <2>1, ItemFields
  <2> DEFINE answer == [op |-> work.op, conn |-> work.chan, gen |-> gen[i.sess], tag |-> i.tag,
             msg |-> i.msg]
  <2>3. UNCHANGED <<alive, gen, inbox>>
    BY <1>20 DEF ScheduleAnswer
  <2>4. CASE /\ ~OtherGeneration(i)
             /\ callbacks' = [callbacks EXCEPT ![i.sess] = @ \cup {answer}]
    <3>1. Current(i) /\ answer.tag = i.tag
      BY <2>4 DEF OtherGeneration, Current
    <3> HIDE DEF answer
    <3> QED
      BY <2>1, <2>2, <2>3, <2>4, <3>1
  <2>5. CASE callbacks' = callbacks \/ RequestReconnect(i.sess)
    BY <2>1, <2>2, <2>3, <2>5, ReconnectAsks
  <2> QED
    BY <1>20, <2>4, <2>5 DEF ScheduleAnswer
<1>21. ASSUME AppendFails PROVE InboxAlone'
  <2>1. UNCHANGED <<alive, gen, inbox>>
    BY <1>21 DEF AppendFails
  <2>2. callbacks' = callbacks \/ RequestReconnect(work.item.sess)
    BY <1>21 DEF AppendFails
  <2>3. work.item.sess \in Consumers /\ WorkItems' \subseteq WorkItems
    BY <1>21, DroppedItem, ItemFields
  <2> QED
    BY <2>1, <2>2, <2>3, ReconnectAsks
<1>22. ASSUME DbFills PROVE InboxAlone'
  BY <1>22, SameItems, WorkItemsType, ItemFields DEF DbFills, workerVars
<1>23. ASSUME DbDrains PROVE InboxAlone'
  BY <1>23, SameItems, WorkItemsType, ItemFields DEF DbDrains, workerVars
<1>24. ASSUME Crash PROVE InboxAlone'
  BY <1>24 DEF Crash
<1>25. CASE UNCHANGED vars
  BY <1>25, SameItems DEF vars, workerVars
<1> QED
  BY <1>1, <1>2, <1>3, <1>4, <1>5, <1>6, <1>7, <1>8, <1>9, <1>10, <1>11, <1>12, <1>13, <1>14,
     <1>15, <1>16, <1>17, <1>18, <1>19, <1>20, <1>21, <1>22, <1>23, <1>24, <1>25,
     Zenon DEF Next, Consume, Worker

\* ... a scheduled answer,
LEMMA AnswersAloneStep == IInv /\ [Next]_vars => AnswersAlone'
<1> SUFFICES ASSUME IInv, [Next]_vars PROVE AnswersAlone'
  OBVIOUS
<1>0. TypeOK /\ BrokerType /\ SessionType /\ LinkType /\ WorkerType /\ Flags /\ AnswersAlone
      /\ LinkOK
  BY TypeParts, Zenon DEF IInv
<1> USE <1>0 DEF AnswersAlone, LinkOK, Current, Fresh, Flags, brokerVars, sessionVars, linkVars,
        LinkType, SessionType
<1>1. ASSUME NEW s \in Consumers, Connect(s) PROVE AnswersAlone'
  <2>1. AnswersOK
    BY Zenon DEF IInv
  <2>2. \A cb \in callbacks[s] : cb.op = "teardown"
    BY <1>1, <2>1 DEF AnswersOK, Connect, At
  <2> QED
    BY <1>1, <2>2, SameItems DEF Connect, workerVars
<1>2. ASSUME NEW s \in Consumers, Bind(s) PROVE AnswersAlone'
  <2>1. AnswersOK
    BY Zenon DEF IInv
  <2>2. \A cb \in callbacks[s] : cb.op = "teardown"
    BY <1>2, <2>1 DEF AnswersOK, Bind, At
  <2>3. UNCHANGED <<callbacks, alive>> /\ WorkItems' = WorkItems
        /\ \A u \in Consumers : u # s => gen'[u] = gen[u]
    BY <1>2, SameItems DEF Bind, BindRest, workerVars
  <2> QED
    BY <2>2, <2>3
<1>3. ASSUME NEW s \in Consumers, EnterConsume(s) PROVE AnswersAlone'
  BY <1>3, SameItems, WorkItemsType, ItemFields DEF EnterConsume, At, workerVars
<1>4. ASSUME NEW s \in Consumers, ResumeAfterPause(s) PROVE AnswersAlone'
  BY <1>4, SameItems, WorkItemsType, ItemFields DEF ResumeAfterPause, At, workerVars
<1>5. ASSUME NEW s \in Consumers, NoticeLoss(s) PROVE AnswersAlone'
  BY <1>5, SameItems, WorkItemsType, ItemFields DEF NoticeLoss, At, workerVars
<1>6. ASSUME NEW s \in Consumers, AfterConsume(s) PROVE AnswersAlone'
  BY <1>6, SameItems, WorkItemsType, ItemFields DEF AfterConsume, At, workerVars
<1>7. ASSUME NEW s \in Consumers, Unbind(s) PROVE AnswersAlone'
  BY <1>7, SameItems, WorkItemsType, ItemFields DEF Unbind, At, workerVars
<1>8. ASSUME NEW s \in Consumers, CloseConnection(s) PROVE AnswersAlone'
  BY <1>8, SameItems, WorkItemsType, ItemFields DEF CloseConnection, BindRest, ChannelGone, At,
     workerVars
<1>9. ASSUME NEW s \in Consumers, OnMessagePause(s) PROVE AnswersAlone'
  BY <1>9, SameItems, WorkItemsType, ItemFields DEF OnMessagePause, At, workerVars
<1>10. ASSUME NEW s \in Consumers, OnMessageDispatch(s) PROVE AnswersAlone'
  <2> DEFINE new == [sess |-> s, tag |-> Head(inbox[s]).tag, msg |-> Head(inbox[s]).msg,
                     ackGen |-> gen[s]]
  <2>1. WorkItems' = WorkItems \cup {new} /\ UNCHANGED <<alive, gen, callbacks>>
    BY <1>10, DispatchedItems DEF OnMessageDispatch
  <2>2. inbox[s] # << >> /\ inbox' = [inbox EXCEPT ![s] = Tail(@)]
    BY <1>10 DEF OnMessageDispatch
  <2>3. new.sess = s /\ new.tag = inbox[s][1].tag /\ 1 \in 1..Len(inbox[s])
    BY <2>2, InboxTail
  <2>4. alive[s] => \A cb \in callbacks[s] : cb.op # "teardown" => cb.tag # inbox[s][1].tag
    BY <2>3 DEF IInv, InboxAlone
  <2> HIDE DEF new
  <2> QED
    BY <2>1, <2>3, <2>4
<1>11. ASSUME NEW s \in Consumers, RunCallback(s) PROVE AnswersAlone'
  <2>1. PICK cb \in callbacks[s] : /\ callbacks' = [callbacks EXCEPT ![s] = @ \ {cb}]
                                   /\ Ignored(s, cb) \/ Answered(s, cb) \/ Broken(s)
    BY <1>11, CallbackRuns
  <2>2. WorkItems' = WorkItems /\ gen' = gen
    BY <1>11, SameItems DEF RunCallback, workerVars
  <2>3. \A u \in Consumers : alive'[u] => alive[u]
    BY <2>1 DEF Ignored, Answered, Broken
  <2> QED
    BY <2>1, <2>2, <2>3
<1>12. ASSUME NEW s \in Consumers, Deliver(s) PROVE AnswersAlone'
  BY <1>12, SameItems, WorkItemsType, ItemFields DEF Deliver, workerVars
<1>13. ASSUME NEW s \in Consumers, ConnectionLost(s) PROVE AnswersAlone'
  BY <1>13, SameItems, WorkItemsType, ItemFields DEF ConnectionLost, ChannelGone, workerVars
<1>14. ASSUME NEW s \in Consumers, OnMessageFails(s) PROVE AnswersAlone'
  BY <1>14, SameItems, WorkItemsType, ItemFields DEF OnMessageFails, workerVars
<1>15. ASSUME WorkerGet PROVE AnswersAlone'
  BY <1>15, MovedItems, WorkItemsType, ItemFields DEF WorkerGet
<1>16. ASSUME HoldExpires PROVE AnswersAlone'
  BY <1>16, MovedItems, WorkItemsType, ItemFields DEF HoldExpires
<1>17. ASSUME DrainPop PROVE AnswersAlone'
  BY <1>17, MovedItems, WorkItemsType, ItemFields DEF DrainPop
<1>18. ASSUME AppendSample PROVE AnswersAlone'
  BY <1>18, MovedItems, WorkItemsType, ItemFields DEF AppendSample
<1>19. ASSUME ReadConnection PROVE AnswersAlone'
  BY <1>19, MovedItems, WorkItemsType, ItemFields DEF ReadConnection
<1>20. ASSUME ScheduleAnswer PROVE AnswersAlone'
  <2> DEFINE i == work.item
  <2>1. i \in WorkItems /\ i \in Items /\ WorkItems' \subseteq WorkItems
    BY <1>20, DroppedItem
  <2>2. i.sess \in Consumers
    BY <2>1, ItemFields
  <2> DEFINE answer == [op |-> work.op, conn |-> work.chan, gen |-> gen[i.sess], tag |-> i.tag,
             msg |-> i.msg]
  <2>3. UNCHANGED <<alive, gen>>
    BY <1>20 DEF ScheduleAnswer
  <2>4. CASE /\ ~OtherGeneration(i)
             /\ callbacks' = [callbacks EXCEPT ![i.sess] = @ \cup {answer}]
    <3>1. Current(i) /\ answer.tag = i.tag
      BY <2>4 DEF OtherGeneration, Current
    <3>2. \A j \in WorkItems' : j.sess = i.sess /\ Current(j) /\ alive[i.sess] => j.tag # i.tag
      <4>1. ItemsAlone
        BY Zenon DEF IInv
      <4>2. Hand' = {} /\ Hand = {i} /\ wq' = wq /\ held' = held
        BY <1>20, DroppedItem DEF ScheduleAnswer, Hand, NextWork, Idle
      <4>3. \A j \in WorkItems' : j \in held \/ \E n \in 1..Len(wq) : j = wq[n]
        BY <4>2 DEF WorkItems
      <4>4. \A j \in WorkItems' : ~Same(j, i)
        <5> SUFFICES ASSUME NEW j \in WorkItems' PROVE ~Same(j, i)
          OBVIOUS
        <5>1. i \in Hand /\ i \in held \cup Hand
          BY <4>2
        <5>2. CASE j \in held
          BY <4>1, <5>1, <5>2, Zenon DEF ItemsAlone
        <5>3. CASE \E n \in 1..Len(wq) : j = wq[n]
          BY <4>1, <5>1, <5>3, Zenon DEF ItemsAlone
        <5> QED
          BY <4>3, <5>2, <5>3
      <4> QED
        BY <3>1, <4>4 DEF Same
    <3>3. alive[i.sess] => \A cb \in callbacks[i.sess] : cb.op # "teardown" => cb.tag # answer.tag
      BY <2>1, <2>2, <3>1
    <3> HIDE DEF answer
    <3> SUFFICES ASSUME NEW u \in Consumers, alive[u], NEW cb \in callbacks'[u],
                 cb.op # "teardown"
                 PROVE  /\ \A cc \in callbacks'[u] : cc.op # "teardown" /\ cc.tag = cb.tag =>
                           cc = cb
                        /\ \A j \in WorkItems' : j.sess = u /\ Current(j) => j.tag # cb.tag
      BY <2>3
    <3>4. CASE u # i.sess
      BY <2>1, <2>2, <2>4, <3>4
    <3>5. CASE u = i.sess /\ cb = answer
      BY <2>2, <2>4, <3>1, <3>2, <3>3, <3>5
    <3>6. CASE u = i.sess /\ cb \in callbacks[u]
      BY <2>1, <2>2, <2>4, <3>3, <3>6
    <3> QED
      BY <2>2, <2>4, <3>4, <3>5, <3>6
  <2>5. CASE callbacks' = callbacks \/ RequestReconnect(i.sess)
    BY <2>1, <2>2, <2>3, <2>5, ReconnectAsks
  <2> QED
    BY <1>20, <2>4, <2>5 DEF ScheduleAnswer
<1>21. ASSUME AppendFails PROVE AnswersAlone'
  <2>1. UNCHANGED <<alive, gen>>
    BY <1>21 DEF AppendFails
  <2>2. callbacks' = callbacks \/ RequestReconnect(work.item.sess)
    BY <1>21 DEF AppendFails
  <2>3. work.item.sess \in Consumers /\ WorkItems' \subseteq WorkItems
    BY <1>21, DroppedItem, ItemFields
  <2> QED
    BY <2>1, <2>2, <2>3, ReconnectAsks
<1>22. ASSUME DbFills PROVE AnswersAlone'
  BY <1>22, SameItems, WorkItemsType, ItemFields DEF DbFills, workerVars
<1>23. ASSUME DbDrains PROVE AnswersAlone'
  BY <1>23, SameItems, WorkItemsType, ItemFields DEF DbDrains, workerVars
<1>24. ASSUME Crash PROVE AnswersAlone'
  BY <1>24 DEF Crash
<1>25. CASE UNCHANGED vars
  BY <1>25, SameItems DEF vars, workerVars
<1> QED
  BY <1>1, <1>2, <1>3, <1>4, <1>5, <1>6, <1>7, <1>8, <1>9, <1>10, <1>11, <1>12, <1>13, <1>14,
     <1>15, <1>16, <1>17, <1>18, <1>19, <1>20, <1>21, <1>22, <1>23, <1>24, <1>25,
     Zenon DEF Next, Consume, Worker

\* No old item comes to life with a new channel.
NoRevival == \A i \in WorkItems : Current(i)' /\ alive'[i.sess] => Current(i) /\ alive[i.sess]

\* Items that stay where they are stay apart.
LEMMA StillApart == ASSUME ItemsAlone, NoRevival, UNCHANGED workerVars PROVE ItemsAlone'
<1>1. \A i, j \in WorkItems : Same(i, j)' => Same(i, j)
  BY DEF NoRevival, Same
<1>2. wq' = wq /\ held' = held /\ Hand' = Hand
  BY DEF workerVars, Hand
<1>3. (\A n \in 1..Len(wq) : wq[n] \in WorkItems) /\ held \subseteq WorkItems
      /\ Hand \subseteq WorkItems
  BY DEF WorkItems
<1> QED
  BY <1>1, <1>2, <1>3 DEF ItemsAlone

\* ... or one item of the archive worker.
LEMMA ItemsAloneStep == IInv /\ [Next]_vars => ItemsAlone'
<1> SUFFICES ASSUME IInv, [Next]_vars PROVE ItemsAlone'
  OBVIOUS
<1>0. TypeOK /\ BrokerType /\ SessionType /\ LinkType /\ WorkerType /\ Flags /\ ItemsAlone
  BY TypeParts, Zenon DEF IInv
<1> USE <1>0 DEF Flags, sessionVars, linkVars, SessionType
<1>1. ASSUME NEW s \in Consumers, Connect(s) PROVE ItemsAlone'
  <2>1. NoRevival
    <3>1. ItemsOK
      BY Zenon DEF IInv
    <3> QED
      BY <1>1, <3>1, WorkItemsType, ItemFields DEF ItemsOK, NoRevival, Current, Fresh, Connect, At
  <2> QED
    BY <1>1, <2>1, StillApart DEF Connect, workerVars
<1>2. ASSUME NEW s \in Consumers, Bind(s) PROVE ItemsAlone'
  <2>1. NoRevival
    <3>1. ItemsOK
      BY Zenon DEF IInv
    <3> QED
      BY <1>2, <3>1, WorkItemsType, ItemFields DEF ItemsOK, NoRevival, Current, Bind, BindRest
  <2> QED
    BY <1>2, <2>1, StillApart DEF Bind, workerVars
<1>3. ASSUME NEW s \in Consumers, EnterConsume(s) PROVE ItemsAlone'
  <2>1. NoRevival
    BY <1>3, WorkItemsType, ItemFields DEF NoRevival, Current, EnterConsume
  <2> QED
    BY <1>3, <2>1, StillApart DEF EnterConsume, workerVars
<1>4. ASSUME NEW s \in Consumers, ResumeAfterPause(s) PROVE ItemsAlone'
  <2>1. NoRevival
    BY <1>4, WorkItemsType, ItemFields DEF NoRevival, Current, ResumeAfterPause
  <2> QED
    BY <1>4, <2>1, StillApart DEF ResumeAfterPause, workerVars
<1>5. ASSUME NEW s \in Consumers, NoticeLoss(s) PROVE ItemsAlone'
  <2>1. NoRevival
    BY <1>5, WorkItemsType, ItemFields DEF NoRevival, Current, NoticeLoss
  <2> QED
    BY <1>5, <2>1, StillApart DEF NoticeLoss, workerVars
<1>6. ASSUME NEW s \in Consumers, AfterConsume(s) PROVE ItemsAlone'
  <2>1. NoRevival
    BY <1>6, WorkItemsType, ItemFields DEF NoRevival, Current, AfterConsume
  <2> QED
    BY <1>6, <2>1, StillApart DEF AfterConsume, workerVars
<1>7. ASSUME NEW s \in Consumers, Unbind(s) PROVE ItemsAlone'
  <2>1. NoRevival
    BY <1>7, WorkItemsType, ItemFields DEF NoRevival, Current, Unbind
  <2> QED
    BY <1>7, <2>1, StillApart DEF Unbind, workerVars
<1>8. ASSUME NEW s \in Consumers, CloseConnection(s) PROVE ItemsAlone'
  <2>1. NoRevival
    BY <1>8, WorkItemsType, ItemFields DEF NoRevival, Current, CloseConnection, BindRest,
       ChannelGone
  <2> QED
    BY <1>8, <2>1, StillApart DEF CloseConnection, workerVars
<1>9. ASSUME NEW s \in Consumers, OnMessagePause(s) PROVE ItemsAlone'
  <2>1. NoRevival
    BY <1>9, WorkItemsType, ItemFields DEF NoRevival, Current, OnMessagePause
  <2> QED
    BY <1>9, <2>1, StillApart DEF OnMessagePause, workerVars
<1>10. ASSUME NEW s \in Consumers, OnMessageDispatch(s) PROVE ItemsAlone'
  <2> DEFINE new == [sess |-> s, tag |-> Head(inbox[s]).tag, msg |-> Head(inbox[s]).msg,
                     ackGen |-> gen[s]]
  <2>1. /\ inbox[s] # << >> /\ inbox[s] \in Seq(Deliveries) /\ wq \in Seq(Items)
        /\ wq' = Append(wq, new) /\ UNCHANGED <<gen, alive, held>> /\ Hand' = Hand
    BY <1>10 DEF OnMessageDispatch, LinkType, WorkerType, Hand
  <2>2. new.sess = s /\ new.tag = inbox[s][1].tag /\ 1 \in 1..Len(inbox[s]) /\ new \in Items
    BY <2>1, DeliveryFields DEF Items
  <2> HIDE DEF new
  <2>3. \A i \in WorkItems : ~Same(new, i) /\ ~Same(i, new)
    BY <2>2 DEF IInv, InboxAlone, Same
  <2>4. (\A n \in 1..Len(wq) : wq[n] \in WorkItems) /\ held \cup Hand \subseteq WorkItems
    BY DEF WorkItems
  <2>5. \A x, y : Same(x, y)' <=> Same(x, y)
    BY <2>1 DEF Same, Current
  <2>6. /\ Len(wq') = Len(wq) + 1 /\ Len(wq) \in Nat /\ wq'[Len(wq) + 1] = new
        /\ \A n \in 1..Len(wq) : wq'[n] = wq[n]
    BY <2>1, <2>2
  <2>7. \A n \in 1..Len(wq') : n = Len(wq) + 1 \/ n \in 1..Len(wq)
    BY <2>6
  <2>8. \A m, n \in 1..Len(wq') : Same(wq'[m], wq'[n]) => m = n
    BY <2>3, <2>4, <2>6, <2>7 DEF ItemsAlone
  <2>9. \A m \in 1..Len(wq') : \A i \in held \cup Hand : ~Same(wq'[m], i)
    BY <2>3, <2>4, <2>6, <2>7 DEF ItemsAlone
  <2> QED
    BY <2>1, <2>5, <2>8, <2>9 DEF ItemsAlone
<1>11. ASSUME NEW s \in Consumers, RunCallback(s) PROVE ItemsAlone'
  <2>1. \A u \in Consumers : alive'[u] => alive[u]
    BY <1>11, CallbackRuns DEF Ignored, Answered, Broken
  <2>2. NoRevival
    BY <1>11, <2>1, WorkItemsType, ItemFields DEF NoRevival, Current, RunCallback
  <2> QED
    BY <1>11, <2>2, StillApart DEF RunCallback, workerVars
<1>12. ASSUME NEW s \in Consumers, Deliver(s) PROVE ItemsAlone'
  <2>1. NoRevival
    BY <1>12, WorkItemsType, ItemFields DEF NoRevival, Current, Deliver
  <2> QED
    BY <1>12, <2>1, StillApart DEF Deliver, workerVars
<1>13. ASSUME NEW s \in Consumers, ConnectionLost(s) PROVE ItemsAlone'
  <2>1. NoRevival
    BY <1>13, WorkItemsType, ItemFields DEF NoRevival, Current, ConnectionLost, ChannelGone
  <2> QED
    BY <1>13, <2>1, StillApart DEF ConnectionLost, workerVars
<1>14. ASSUME NEW s \in Consumers, OnMessageFails(s) PROVE ItemsAlone'
  <2>1. NoRevival
    BY <1>14, WorkItemsType, ItemFields DEF NoRevival, Current, OnMessageFails
  <2> QED
    BY <1>14, <2>1, StillApart DEF OnMessageFails, workerVars
<1>15. ASSUME WorkerGet PROVE ItemsAlone'
  <2>1. wq \in Seq(Items) /\ wq # << >> /\ wq' = Tail(wq) /\ UNCHANGED <<gen, alive>>
    BY <1>15 DEF WorkerGet, WorkerType
  <2>2. \/ held' = held /\ Hand' = {wq[1]}
        \/ held' = held \cup {wq[1]} /\ Hand' = {}
    BY <1>15, <2>1 DEF WorkerGet, Hand, Idle
  <2>3. \A x, y : Same(x, y)' <=> Same(x, y)
    BY <2>1 DEF Same, Current
  <2>4. \A n \in 1..Len(wq') : n \in Nat /\ n + 1 \in 1..Len(wq) /\ wq'[n] = wq[n + 1]
        /\ n + 1 # 1
    BY <2>1
  <2>5. 1 \in 1..Len(wq)
    BY <2>1
  <2>6. \A n \in 1..Len(wq') : \A i \in held \cup {wq[1]} : ~Same(wq'[n], i)
    BY <2>4, <2>5 DEF ItemsAlone
  <2>7. \A i \in held : ~Same(i, wq[1]) /\ ~Same(wq[1], i)
    BY <2>5 DEF ItemsAlone, Same
  <2>8. \A m, n \in 1..Len(wq') : Same(wq'[m], wq'[n]) => m = n
    <3>1. SUFFICES ASSUME NEW m \in 1..Len(wq'), NEW n \in 1..Len(wq'), Same(wq'[m], wq'[n])
                   PROVE  m = n
      OBVIOUS
    <3>2. /\ m \in Nat /\ m + 1 \in 1..Len(wq) /\ wq'[m] = wq[m + 1]
          /\ n \in Nat /\ n + 1 \in 1..Len(wq) /\ wq'[n] = wq[n + 1]
      BY <2>4
    <3>3. Same(wq[m + 1], wq[n + 1])
      BY <3>1, <3>2, Zenon
    <3>4. m + 1 = n + 1
      BY <3>2, <3>3, Zenon DEF ItemsAlone
    <3> QED
      BY <3>2, <3>4
  <2>9. CASE held' = held /\ Hand' = {wq[1]}
    BY <2>3, <2>6, <2>7, <2>8, <2>9 DEF ItemsAlone
  <2>10. CASE held' = held \cup {wq[1]} /\ Hand' = {}
    <3>1. \A i, j \in held' : Same(i, j) => i = j
      BY <2>7, <2>10 DEF ItemsAlone
    <3> QED
      BY <2>3, <2>6, <2>8, <2>10, <3>1 DEF ItemsAlone
  <2> QED
    BY <2>2, <2>9, <2>10
<1>16. ASSUME HoldExpires PROVE ItemsAlone'
  <2>1. UNCHANGED <<wq, held, gen, alive>> /\ Hand' = {}
    BY <1>16 DEF HoldExpires, Hand
  <2> QED
    BY <2>1 DEF ItemsAlone, Same, Current
<1>17. ASSUME DrainPop PROVE ItemsAlone'
  <2>1. PICK i \in held : /\ held' = held \ {i}
                          /\ work' = [pc |-> "append", item |-> i, chan |-> conn[i.sess]]
    BY <1>17 DEF DrainPop
  <2>2. UNCHANGED <<wq, gen, alive>> /\ Hand' = {i}
    BY <1>17, <2>1 DEF DrainPop, Hand
  <2>3. \A x, y : Same(x, y)' <=> Same(x, y)
    BY <2>2 DEF Same, Current
  <2> QED
    BY <2>1, <2>2, <2>3 DEF ItemsAlone
<1>18. ASSUME AppendSample PROVE ItemsAlone'
  <2>1. UNCHANGED <<wq, held, gen, alive>> /\ Hand' = Hand
    BY <1>18 DEF AppendSample, Hand
  <2> QED
    BY <2>1 DEF ItemsAlone, Same, Current
<1>19. ASSUME ReadConnection PROVE ItemsAlone'
  <2>1. UNCHANGED <<wq, held, gen, alive>> /\ Hand' = Hand
    BY <1>19 DEF ReadConnection, Hand
  <2> QED
    BY <2>1 DEF ItemsAlone, Same, Current
<1>20. ASSUME ScheduleAnswer PROVE ItemsAlone'
  <2>1. UNCHANGED <<wq, held, gen, alive>> /\ Hand' \subseteq Hand
    BY <1>20, DroppedItem DEF ScheduleAnswer
  <2> QED
    BY <2>1 DEF ItemsAlone, Same, Current
<1>21. ASSUME AppendFails PROVE ItemsAlone'
  <2>1. UNCHANGED <<wq, held, gen, alive>> /\ Hand' \subseteq Hand
    BY <1>21, DroppedItem DEF AppendFails
  <2> QED
    BY <2>1 DEF ItemsAlone, Same, Current
<1>22. ASSUME DbFills PROVE ItemsAlone'
  <2>1. NoRevival
    BY <1>22, WorkItemsType, ItemFields DEF NoRevival, Current, DbFills
  <2> QED
    BY <1>22, <2>1, StillApart DEF DbFills, workerVars
<1>23. ASSUME DbDrains PROVE ItemsAlone'
  <2>1. NoRevival
    BY <1>23, WorkItemsType, ItemFields DEF NoRevival, Current, DbDrains
  <2> QED
    BY <1>23, <2>1, StillApart DEF DbDrains, workerVars
<1>24. ASSUME Crash PROVE ItemsAlone'
  BY <1>24, NoItems DEF ItemsAlone, Crash
<1>25. CASE UNCHANGED vars
  <2>1. NoRevival
    BY <1>25 DEF NoRevival, Current, vars
  <2> QED
    BY <1>25, <2>1, StillApart DEF vars
<1> QED
  BY <1>1, <1>2, <1>3, <1>4, <1>5, <1>6, <1>7, <1>8, <1>9, <1>10, <1>11, <1>12, <1>13, <1>14,
     <1>15, <1>16, <1>17, <1>18, <1>19, <1>20, <1>21, <1>22, <1>23, <1>24, <1>25,
     Zenon DEF Next, Consume, Worker

\* The first request for a reconnect of a connection in use reaches that connection.
LEMMA ReconnectAsked ==
  ASSUME IInv, NEW s \in Consumers, RequestReconnect(s), alive[s], Looping(s), ~recon[s]
  PROVE  \E cb \in callbacks'[s] : cb.op = "teardown"
<1>0. LinkOK /\ LinkType
  BY TypeParts, Zenon DEF IInv
<1>1. conn[s] = opened[s] /\ conn[s] # 0
  BY <1>0 DEF LinkOK, Looping
<1> DEFINE td == [op |-> "teardown"]
<1>2. callbacks' = [callbacks EXCEPT ![s] = @ \cup {td}]
  BY <1>1 DEF RequestReconnect, ChannelOpen
<1>3. td.op = "teardown"
  OBVIOUS
<1> HIDE DEF td
<1> QED
  BY <1>0, <1>2, <1>3 DEF LinkType

\* A reconnect request that is pending has its teardown scheduled.
LEMMA TeardownOKStep == IInv /\ [Next]_vars => TeardownOK'
<1> SUFFICES ASSUME IInv, [Next]_vars PROVE TeardownOK'
  OBVIOUS
<1>0. TypeOK /\ BrokerType /\ SessionType /\ LinkType /\ WorkerType /\ Flags /\ TeardownOK
  BY TypeParts, Zenon DEF IInv
<1> USE <1>0 DEF TeardownOK, Flags, Looping, linkVars, sessionVars, SessionType, LinkType
<1>1. ASSUME NEW s \in Consumers, Connect(s) PROVE TeardownOK'
  BY <1>1 DEF Connect, At
<1>2. ASSUME NEW s \in Consumers, Bind(s) PROVE TeardownOK'
  BY <1>2 DEF Bind, BindRest, At
<1>3. ASSUME NEW s \in Consumers, EnterConsume(s) PROVE TeardownOK'
  BY <1>3 DEF EnterConsume, At
<1>4. ASSUME NEW s \in Consumers, ResumeAfterPause(s) PROVE TeardownOK'
  BY <1>4 DEF ResumeAfterPause, At
<1>5. ASSUME NEW s \in Consumers, NoticeLoss(s) PROVE TeardownOK'
  BY <1>5 DEF NoticeLoss, At
<1>6. ASSUME NEW s \in Consumers, AfterConsume(s) PROVE TeardownOK'
  BY <1>6 DEF AfterConsume, At
<1>7. ASSUME NEW s \in Consumers, Unbind(s) PROVE TeardownOK'
  BY <1>7 DEF Unbind, At
<1>8. ASSUME NEW s \in Consumers, CloseConnection(s) PROVE TeardownOK'
  BY <1>8 DEF CloseConnection, BindRest, ChannelGone, At
<1>9. ASSUME NEW s \in Consumers, OnMessagePause(s) PROVE TeardownOK'
  BY <1>9 DEF OnMessagePause, At
<1>10. ASSUME NEW s \in Consumers, OnMessageDispatch(s) PROVE TeardownOK'
  BY <1>10 DEF OnMessageDispatch
<1>11. ASSUME NEW s \in Consumers, RunCallback(s) PROVE TeardownOK'
  <2>1. PICK cb \in callbacks[s] : /\ callbacks' = [callbacks EXCEPT ![s] = @ \ {cb}]
                                   /\ Ignored(s, cb) \/ Answered(s, cb) \/ Broken(s)
    BY <1>11, CallbackRuns
  <2>2. CASE Ignored(s, cb)
    BY <2>1, <2>2 DEF Ignored
  <2>3. CASE Answered(s, cb)
    BY <2>1, <2>3 DEF Answered
  <2>4. CASE Broken(s)
    BY <2>1, <2>4 DEF Broken
  <2> QED
    BY <2>1, <2>2, <2>3, <2>4
<1>12. ASSUME NEW s \in Consumers, Deliver(s) PROVE TeardownOK'
  BY <1>12 DEF Deliver
<1>13. ASSUME NEW s \in Consumers, ConnectionLost(s) PROVE TeardownOK'
  BY <1>13 DEF ConnectionLost, ChannelGone
<1>14. ASSUME NEW s \in Consumers, OnMessageFails(s) PROVE TeardownOK'
  <2>1. UNCHANGED <<alive, callbacks>> /\ (alive[s] => UNCHANGED <<recon, tpc>>)
    BY <1>14 DEF OnMessageFails
  <2>2. \A u \in Consumers : u # s => recon'[u] = recon[u] /\ tpc'[u] = tpc[u]
    BY <1>14 DEF OnMessageFails
  <2> QED
    BY <2>1, <2>2
<1>15. ASSUME WorkerGet PROVE TeardownOK'
  BY <1>15 DEF WorkerGet
<1>16. ASSUME HoldExpires PROVE TeardownOK'
  BY <1>16 DEF HoldExpires
<1>17. ASSUME DrainPop PROVE TeardownOK'
  BY <1>17 DEF DrainPop
<1>18. ASSUME AppendSample PROVE TeardownOK'
  BY <1>18 DEF AppendSample
<1>19. ASSUME ReadConnection PROVE TeardownOK'
  BY <1>19 DEF ReadConnection
<1>20. ASSUME ScheduleAnswer PROVE TeardownOK'
  <2>1. work.item.sess \in Consumers
    BY <1>20, DroppedItem, ItemFields
  <2>2. UNCHANGED <<alive, tpc, conn, opened>>
    BY <1>20 DEF ScheduleAnswer
  <2>3. CASE RequestReconnect(work.item.sess)
    <3>1. alive[work.item.sess] /\ Looping(work.item.sess) /\ ~recon[work.item.sess] =>
            \E cb \in callbacks'[work.item.sess] : cb.op = "teardown"
      BY <2>1, <2>3, ReconnectAsked
    <3>2. \A u \in Consumers : callbacks[u] \subseteq callbacks'[u] /\ (u # work.item.sess =>
          recon'[u] = recon[u])
      BY <2>1, <2>3, ReconnectAsks DEF RequestReconnect
    <3> QED
      BY <2>1, <2>2, <3>1, <3>2
  <2>4. CASE recon' = recon /\ \A u \in Consumers : callbacks[u] \subseteq callbacks'[u]
    BY <2>2, <2>4
  <2> QED
    BY <1>20, <2>1, <2>3, <2>4 DEF ScheduleAnswer
<1>21. ASSUME AppendFails PROVE TeardownOK'
  <2>1. work.item.sess \in Consumers
    BY <1>21, DroppedItem, ItemFields
  <2>2. UNCHANGED <<alive, tpc, conn, opened>>
    BY <1>21 DEF AppendFails
  <2>3. CASE RequestReconnect(work.item.sess)
    <3>1. alive[work.item.sess] /\ Looping(work.item.sess) /\ ~recon[work.item.sess] =>
            \E cb \in callbacks'[work.item.sess] : cb.op = "teardown"
      BY <2>1, <2>3, ReconnectAsked
    <3>2. \A u \in Consumers : callbacks[u] \subseteq callbacks'[u] /\ (u # work.item.sess =>
          recon'[u] = recon[u])
      BY <2>1, <2>3, ReconnectAsks DEF RequestReconnect
    <3> QED
      BY <2>1, <2>2, <3>1, <3>2
  <2>4. CASE recon' = recon /\ \A u \in Consumers : callbacks[u] \subseteq callbacks'[u]
    BY <2>2, <2>4
  <2> QED
    BY <1>21, <2>1, <2>3, <2>4 DEF AppendFails
<1>22. ASSUME DbFills PROVE TeardownOK'
  BY <1>22 DEF DbFills
<1>23. ASSUME DbDrains PROVE TeardownOK'
  BY <1>23 DEF DbDrains
<1>24. ASSUME Crash PROVE TeardownOK'
  BY <1>24 DEF Crash
<1>25. CASE UNCHANGED vars
  BY <1>25 DEF vars, workerVars
<1> QED
  BY <1>1, <1>2, <1>3, <1>4, <1>5, <1>6, <1>7, <1>8, <1>9, <1>10, <1>11, <1>12, <1>13, <1>14,
     <1>15, <1>16, <1>17, <1>18, <1>19, <1>20, <1>21, <1>22, <1>23, <1>24, <1>25,
     Zenon DEF Next, Consume, Worker

\* The archive as a set.
LEMMA AckedMeans == AckedArchived <=> \A m \in acked : Archived(m)
BY DEF AckedArchived, Archived, SeqSet

\* Only an answer acknowledges, and only what is archived.
LEMMA AckedStep == IInv /\ [Next]_vars => AckedArchived'
<1> SUFFICES ASSUME IInv, [Next]_vars PROVE \A m \in acked' : Archived(m)'
  BY DEF AckedArchived, Archived, SeqSet
<1>0. TypeOK /\ LinkOK /\ TagsOK /\ AnswersOK /\ BrokerType
  BY TypeParts, Zenon DEF IInv
<1>1. \A m \in acked : Archived(m)
  BY AckedMeans, Zenon DEF IInv
<1>2. \A m : Archived(m) => Archived(m)'
  BY <1>0, ArchiveGrows
<1>3. CASE acked' = acked
  BY <1>1, <1>2, <1>3
<1>4. ASSUME NEW s \in Consumers, RunCallback(s) PROVE \A m \in acked' : Archived(m)
  <2>1. PICK cb \in callbacks[s] : Ignored(s, cb) \/ Answered(s, cb) \/ Broken(s)
    BY <1>4, CallbackRuns
  <2>2. CASE Answered(s, cb)
    <3>1. ASSUME NEW d \in unacked[s], d.tag = cb.tag, cb.op = "ack" PROVE Archived(d.msg)
      <4>1. alive[s]
        BY <1>0, <3>1 DEF LinkOK
      <4>2. Delivery(cb) \in unacked[s] /\ Archived(cb.msg)
        BY <1>0, <2>2, <3>1, <4>1 DEF AnswersOK, Answered
      <4>3. d = Delivery(cb)
        BY <1>0, <3>1, <4>2, DeliveryTag DEF TagsOK
      <4> QED
        BY <4>2, <4>3, DeliveryTag
    <3> QED
      BY <1>1, <2>2, <3>1 DEF Answered, MessagesOf
  <2>3. CASE Ignored(s, cb) \/ Broken(s)
    BY <1>1, <2>3 DEF Ignored, Broken
  <2> QED
    BY <2>1, <2>2, <2>3
<1>5. acked' = acked \/ \E s \in Consumers : RunCallback(s)
  BY Zenon DEF Next, vars, brokerVars, Consume, Worker, Connect, Bind, EnterConsume,
     ResumeAfterPause,
        NoticeLoss, AfterConsume, Unbind, CloseConnection, OnMessagePause, OnMessageDispatch,
        Deliver, ConnectionLost, OnMessageFails, WorkerGet, HoldExpires, DrainPop, AppendSample,
        ReadConnection, ScheduleAnswer, AppendFails, DbFills, DbDrains, Crash
<1> QED
  BY <1>2, <1>3, <1>4, <1>5

\* A step that leaves a channel's deliveries in the hands they are in.
Untouched(s) == /\ Watched(s)' => Watched(s)
                /\ unacked'[s] \subseteq unacked[s] /\ gen'[s] = gen[s]
                /\ inbox'[s] = inbox[s] /\ callbacks[s] \subseteq callbacks'[s]
                /\ \A i \in WorkItems : i.sess = s => i \in WorkItems'

\* Hands that are not touched keep the delivery.
LEMMA StillSomewhere ==
  ASSUME NEW s \in Consumers, NEW d, Somewhere(s, d),
         \A i \in WorkItems : i.sess = s => i \in WorkItems',
         inbox'[s] = inbox[s], gen'[s] = gen[s], callbacks[s] \subseteq callbacks'[s]
  PROVE  Somewhere(s, d)'
<1>1. CASE \E n \in 1..Len(inbox[s]) : inbox[s][n] = d
  BY <1>1 DEF Somewhere
<1>2. CASE \E i \in WorkItems : i.sess = s /\ Current(i) /\ i.tag = d.tag /\ i.msg = d.msg
  BY <1>2 DEF Somewhere, Current
<1>3. CASE \E cb \in callbacks[s] : cb.op # "teardown" /\ cb.tag = d.tag /\ cb.msg = d.msg
  BY <1>3 DEF Somewhere
<1> QED
  BY <1>1, <1>2, <1>3 DEF Somewhere

\* A step that touches no delivery strands none.
LEMMA StrandedFrame ==
  ASSUME NoneStranded, \A s \in Consumers : ~Watched(s)' \/ Untouched(s)
  PROVE  NoneStranded'
<1> SUFFICES ASSUME NEW s \in Consumers, Watched(s)', NEW d \in unacked'[s] PROVE Somewhere(s, d)'
  BY Zenon DEF NoneStranded
<1>1. Untouched(s)
  BY Zenon
<1>2. Watched(s) /\ d \in unacked[s]
  BY <1>1 DEF Untouched
<1>3. Somewhere(s, d)
  BY <1>2, Zenon DEF NoneStranded
<1> QED
  BY <1>1, <1>3, StillSomewhere DEF Untouched

\* A step on the deliveries of one channel need only account for those.
LEMMA StrandedBut ==
  ASSUME NoneStranded, NEW s \in Consumers,
         \A u \in Consumers : u # s => ~Watched(u)' \/ Untouched(u),
         Watched(s)' => \A d \in unacked'[s] : Somewhere(s, d)'
  PROVE  NoneStranded'
<1> SUFFICES ASSUME NEW u \in Consumers, Watched(u)', NEW d \in unacked'[u] PROVE Somewhere(u, d)'
  BY Zenon DEF NoneStranded
<1>1. CASE u = s
  BY <1>1
<1>2. CASE u # s
  <2>1. Untouched(u)
    BY <1>2, Zenon
  <2>2. Watched(u) /\ d \in unacked[u]
    BY <2>1 DEF Untouched
  <2>3. Somewhere(u, d)
    BY <2>2, Zenon DEF NoneStranded
  <2> QED
    BY <2>1, <2>3, StillSomewhere DEF Untouched
<1> QED
  BY <1>1, <1>2

\* Whoever lets go of a delivery has answered it, passed it on or asked for a reconnect.
LEMMA NoneStrandedStep == IInv /\ [Next]_vars => NoneStranded'
<1> SUFFICES ASSUME IInv, [Next]_vars PROVE NoneStranded'
  OBVIOUS
<1>0. TypeOK /\ BrokerType /\ SessionType /\ LinkType /\ WorkerType /\ Flags /\ NoneStranded
  BY TypeParts, Zenon DEF IInv
<1> USE <1>0 DEF Flags, brokerVars, sessionVars, linkVars, BrokerType, SessionType, LinkType
<1>1. ASSUME NEW s \in Consumers, Connect(s) PROVE NoneStranded'
  <2>1. \A u \in Consumers : ~Watched(u)' \/ Untouched(u)
    BY <1>1, SameItems DEF Untouched, Watched, Looping, Connect, At, workerVars
  <2> QED
    BY <2>1, StrandedFrame
<1>2. ASSUME NEW s \in Consumers, Bind(s) PROVE NoneStranded'
  <2>1. \A u \in Consumers : u # s => ~Watched(u)' \/ Untouched(u)
    BY <1>2, SameItems DEF Untouched, Watched, Looping, Bind, BindRest, At, workerVars
  <2>2. unacked'[s] = {}
    <3>1. LinkOK
      BY Zenon DEF IInv
    <3> QED
      BY <1>2, <3>1 DEF LinkOK, Fresh, Bind, At
  <2> QED
    BY <2>1, <2>2, StrandedBut
<1>3. ASSUME NEW s \in Consumers, EnterConsume(s) PROVE NoneStranded'
  <2>1. \A u \in Consumers : ~Watched(u)' \/ Untouched(u)
    BY <1>3, SameItems DEF Untouched, Watched, Looping, EnterConsume, At, workerVars
  <2> QED
    BY <2>1, StrandedFrame
<1>4. ASSUME NEW s \in Consumers, ResumeAfterPause(s) PROVE NoneStranded'
  <2>1. \A u \in Consumers : ~Watched(u)' \/ Untouched(u)
    BY <1>4, SameItems DEF Untouched, Watched, Looping, ResumeAfterPause, At, workerVars
  <2> QED
    BY <2>1, StrandedFrame
<1>5. ASSUME NEW s \in Consumers, NoticeLoss(s) PROVE NoneStranded'
  <2>1. \A u \in Consumers : ~Watched(u)' \/ Untouched(u)
    BY <1>5, SameItems DEF Untouched, Watched, Looping, NoticeLoss, At, workerVars
  <2> QED
    BY <2>1, StrandedFrame
<1>6. ASSUME NEW s \in Consumers, AfterConsume(s) PROVE NoneStranded'
  <2>1. \A u \in Consumers : ~Watched(u)' \/ Untouched(u)
    BY <1>6, SameItems DEF Untouched, Watched, Looping, AfterConsume, At, workerVars
  <2> QED
    BY <2>1, StrandedFrame
<1>7. ASSUME NEW s \in Consumers, Unbind(s) PROVE NoneStranded'
  <2>1. \A u \in Consumers : ~Watched(u)' \/ Untouched(u)
    BY <1>7, SameItems DEF Untouched, Watched, Looping, Unbind, At, workerVars
  <2> QED
    BY <2>1, StrandedFrame
<1>8. ASSUME NEW s \in Consumers, CloseConnection(s) PROVE NoneStranded'
  <2>1. \A u \in Consumers : ~Watched(u)' \/ Untouched(u)
    BY <1>8, SameItems DEF Untouched, Watched, Looping, CloseConnection, BindRest, ChannelGone,
       At, workerVars
  <2> QED
    BY <2>1, StrandedFrame
<1>9. ASSUME NEW s \in Consumers, OnMessagePause(s) PROVE NoneStranded'
  <2>1. \A u \in Consumers : u # s => ~Watched(u)' \/ Untouched(u)
    BY <1>9, SameItems DEF Untouched, Watched, Looping, OnMessagePause, At, workerVars
  <2>2. Watched(s)' => Watched(s)
    BY <1>9 DEF OnMessagePause, Watched, Looping, At
  <2>3. ASSUME Watched(s), NEW d \in unacked'[s] PROVE Somewhere(s, d)'
    <3>1. d \in unacked[s] /\ ~\E n \in 1..Len(inbox[s]) : inbox[s][n] = d
      BY <1>9, <2>3 DEF OnMessagePause, SeqSet
    <3>2. Somewhere(s, d)
      BY <2>3, <3>1, Zenon DEF NoneStranded
    <3>3. UNCHANGED <<gen, callbacks>> /\ WorkItems' = WorkItems
      BY <1>9, SameItems DEF OnMessagePause, workerVars
    <3> QED
      BY <3>1, <3>2, <3>3 DEF Somewhere, Current
  <2> QED
    BY <2>1, <2>2, <2>3, StrandedBut
<1>10. ASSUME NEW s \in Consumers, OnMessageDispatch(s) PROVE NoneStranded'
  <2> DEFINE new == [sess |-> s, tag |-> Head(inbox[s]).tag, msg |-> Head(inbox[s]).msg,
                     ackGen |-> gen[s]]
  <2>1. WorkItems' = WorkItems \cup {new} /\ UNCHANGED <<alive, recon, tpc, gen, callbacks,
        unacked>>
    BY <1>10, DispatchedItems DEF OnMessageDispatch
  <2>2. inbox[s] # << >> /\ inbox' = [inbox EXCEPT ![s] = Tail(@)]
    BY <1>10 DEF OnMessageDispatch
  <2>3. new.sess = s /\ new.tag = inbox[s][1].tag /\ new.msg = inbox[s][1].msg
        /\ new.ackGen = gen[s]
    BY <2>2, InboxTail
  <2> HIDE DEF new
  <2>4. \A u \in Consumers : u # s => ~Watched(u)' \/ Untouched(u)
    BY <2>1, <2>2, InboxTail DEF Untouched, Watched, Looping
  <2>5. Watched(s)' => Watched(s)
    BY <2>1 DEF Watched, Looping
  <2>6. ASSUME Watched(s), NEW d \in unacked'[s] PROVE Somewhere(s, d)'
    <3>1. Somewhere(s, d)
      BY <2>1, <2>6, Zenon DEF NoneStranded
    <3>2. CASE \E n \in 1..Len(inbox[s]) : n # 1 /\ inbox[s][n] = d
      <4>1. PICK n \in 1..Len(inbox[s]) : n # 1 /\ inbox[s][n] = d
        BY <3>2
      <4>2. n - 1 \in 1..Len(inbox'[s]) /\ inbox'[s][n - 1] = d
        BY <2>2, <4>1, InboxTail
      <4> QED
        BY <4>2 DEF Somewhere
    <3>3. CASE inbox[s][1] = d
      BY <2>1, <2>3, <3>3 DEF Somewhere, Current
    <3>4. CASE ~\E n \in 1..Len(inbox[s]) : inbox[s][n] = d
      BY <2>1, <3>1, <3>4 DEF Somewhere, Current
    <3> QED
      BY <3>2, <3>3, <3>4
  <2> QED
    BY <2>4, <2>5, <2>6, StrandedBut
<1>11. ASSUME NEW s \in Consumers, RunCallback(s) PROVE NoneStranded'
  <2>1. PICK cb \in callbacks[s] : /\ callbacks' = [callbacks EXCEPT ![s] = @ \ {cb}]
                                   /\ Ignored(s, cb) \/ Answered(s, cb) \/ Broken(s)
    BY <1>11, CallbackRuns
  <2>2. WorkItems' = WorkItems /\ UNCHANGED <<gen, inbox>>
    BY <1>11, SameItems DEF RunCallback, workerVars
  <2>3. \A u \in Consumers : u # s => ~Watched(u)' \/ Untouched(u)
    BY <2>1, <2>2 DEF Ignored, Answered, Broken, Untouched, Watched, Looping
  <2>4. ASSUME NEW d, Somewhere(s, d), cb.op = "teardown" \/ d.tag # cb.tag PROVE Somewhere(s, d)'
    BY <2>1, <2>2, <2>4 DEF Somewhere, Current
  <2>5. CASE Ignored(s, cb)
    <3>1. Watched(s)' => Watched(s) /\ unacked'[s] = unacked[s]
      BY <2>5 DEF Ignored, Watched, Looping
    <3>2. Watched(s) => cb.op = "teardown"
      <4>1. AnswersOK /\ LinkOK
        BY Zenon DEF IInv
      <4> QED
        BY <2>5, <4>1 DEF Ignored, CallbackStale, AnswersOK, LinkOK, Watched, Looping
    <3>3. Watched(s) => \A d \in unacked[s] : Somewhere(s, d)
      BY Zenon DEF NoneStranded
    <3> QED
      BY <2>3, <2>4, <3>1, <3>2, <3>3, StrandedBut
  <2>6. CASE Answered(s, cb)
    <3>1. Watched(s)' => Watched(s)
      BY <2>6 DEF Answered, Watched, Looping
    <3>2. \A d \in unacked'[s] : d \in unacked[s] /\ d.tag # cb.tag
      BY <2>6 DEF Answered
    <3>3. Watched(s) => \A d \in unacked[s] : Somewhere(s, d)
      BY Zenon DEF NoneStranded
    <3> QED
      BY <2>3, <2>4, <3>1, <3>2, <3>3, StrandedBut
  <2>7. CASE Broken(s)
    BY <2>3, <2>7, StrandedBut DEF Broken, Watched
  <2> QED
    BY <2>1, <2>5, <2>6, <2>7
<1>12. ASSUME NEW s \in Consumers, Deliver(s) PROVE NoneStranded'
  <2>1. \A u \in Consumers : u # s => ~Watched(u)' \/ Untouched(u)
    BY <1>12, SameItems DEF Untouched, Watched, Looping, Deliver, workerVars
  <2>2. PICK m \in ready : /\ inbox' = [inbox EXCEPT ![s] = Append(@, [tag |-> nextTag[s],
                              msg |-> m])]
                           /\ unacked' = [unacked EXCEPT ![s] = @ \cup {[tag |-> nextTag[s],
                              msg |-> m]}]
    BY <1>12 DEF Deliver
  <2> DEFINE e == [tag |-> nextTag[s], msg |-> m]
  <2>3. e \in Deliveries
    BY DEF BrokerType, Deliveries
  <2>4. /\ WorkItems' = WorkItems /\ UNCHANGED <<alive, recon, tpc, gen, callbacks>>
        /\ inbox'[s] = Append(inbox[s], e) /\ inbox[s] \in Seq(Deliveries)
           /\ unacked'[s] = unacked[s] \cup {e}
    BY <1>12, <2>2, SameItems DEF Deliver, workerVars
  <2> HIDE DEF e
  <2>5. /\ \A n \in 1..Len(inbox[s]) : n \in 1..Len(inbox'[s]) /\ inbox'[s][n] = inbox[s][n]
        /\ \E n \in 1..Len(inbox'[s]) : inbox'[s][n] = e
    <3>1. /\ Len(inbox'[s]) = Len(inbox[s]) + 1 /\ Len(inbox[s]) \in Nat
          /\ \A n \in 1..Len(inbox[s]) : inbox'[s][n] = inbox[s][n]
          /\ inbox'[s][Len(inbox[s]) + 1] = e
      BY <2>3, <2>4, QueueFacts
    <3>2. /\ Len(inbox[s]) + 1 \in 1..Len(inbox'[s])
          /\ \A n \in 1..Len(inbox[s]) : n \in 1..Len(inbox'[s])
      BY <3>1
    <3>3. \E n \in 1..Len(inbox'[s]) : inbox'[s][n] = e
      BY <3>1, <3>2, Zenon
    <3> QED
      BY <3>1, <3>2, <3>3
  <2>6. Watched(s)' => Watched(s)
    BY <2>4 DEF Watched, Looping
  <2>7. ASSUME Watched(s), NEW d \in unacked'[s] PROVE Somewhere(s, d)'
    <3>1. CASE d = e
      BY <2>5, <3>1 DEF Somewhere
    <3>2. CASE d \in unacked[s]
      <4>1. Somewhere(s, d)
        BY <2>7, <3>2, Zenon DEF NoneStranded
      <4>2. CASE \E n \in 1..Len(inbox[s]) : inbox[s][n] = d
        BY <2>5, <4>2 DEF Somewhere
      <4>3. CASE ~\E n \in 1..Len(inbox[s]) : inbox[s][n] = d
        BY <2>4, <4>1, <4>3 DEF Somewhere, Current
      <4> QED
        BY <4>2, <4>3
    <3> QED
      BY <2>4, <3>1, <3>2
  <2> QED
    BY <2>1, <2>6, <2>7, StrandedBut
<1>13. ASSUME NEW s \in Consumers, ConnectionLost(s) PROVE NoneStranded'
  <2>1. \A u \in Consumers : ~Watched(u)' \/ Untouched(u)
    BY <1>13, SameItems DEF Untouched, Watched, Looping, ConnectionLost, ChannelGone, workerVars
  <2> QED
    BY <2>1, StrandedFrame
<1>14. ASSUME NEW s \in Consumers, OnMessageFails(s) PROVE NoneStranded'
  <2>1. /\ inbox[s] # << >> /\ inbox' = [inbox EXCEPT ![s] = Tail(@)]
        /\ UNCHANGED <<alive, gen, callbacks>> /\ WorkItems' = WorkItems
    BY <1>14, SameItems DEF OnMessageFails, workerVars
  <2>2. \A u \in Consumers : u # s => unacked'[u] = unacked[u] /\ tpc'[u] = tpc[u]
        /\ recon'[u] = recon[u]
    BY <1>14 DEF OnMessageFails
  <2>3. \A u \in Consumers : u # s => ~Watched(u)' \/ Untouched(u)
    BY <2>1, <2>2, InboxTail DEF Untouched, Watched, Looping
  <2>4. alive[s] => UNCHANGED <<tpc, recon>> /\ unacked'[s] = unacked[s] \ {Head(inbox[s])}
    BY <1>14 DEF OnMessageFails
  <2>5. Watched(s)' => Watched(s) /\ alive[s]
    BY <2>1, <2>4 DEF Watched, Looping
  <2>6. ASSUME Watched(s), alive[s], NEW d \in unacked'[s] PROVE Somewhere(s, d)'
    <3>1. d \in unacked[s] /\ d # inbox[s][1]
      BY <2>1, <2>4, <2>6, InboxTail
    <3>2. Somewhere(s, d)
      BY <2>6, <3>1, Zenon DEF NoneStranded
    <3>3. CASE \E n \in 1..Len(inbox[s]) : n # 1 /\ inbox[s][n] = d
      <4>1. PICK n \in 1..Len(inbox[s]) : n # 1 /\ inbox[s][n] = d
        BY <3>3
      <4>2. n - 1 \in 1..Len(inbox'[s]) /\ inbox'[s][n - 1] = d
        BY <2>1, <4>1, InboxTail
      <4> QED
        BY <4>2 DEF Somewhere
    <3>4. CASE ~\E n \in 1..Len(inbox[s]) : inbox[s][n] = d
      BY <2>1, <3>2, <3>4 DEF Somewhere, Current
    <3> QED
      BY <3>1, <3>3, <3>4
  <2> QED
    BY <2>3, <2>5, <2>6, StrandedBut
<1>15. ASSUME WorkerGet PROVE NoneStranded'
  <2>1. \A u \in Consumers : ~Watched(u)' \/ Untouched(u)
    BY <1>15, MovedItems DEF Untouched, Watched, Looping, WorkerGet, workerVars
  <2> QED
    BY <2>1, StrandedFrame
<1>16. ASSUME HoldExpires PROVE NoneStranded'
  <2>1. \A u \in Consumers : ~Watched(u)' \/ Untouched(u)
    BY <1>16, MovedItems DEF Untouched, Watched, Looping, HoldExpires, workerVars
  <2> QED
    BY <2>1, StrandedFrame
<1>17. ASSUME DrainPop PROVE NoneStranded'
  <2>1. \A u \in Consumers : ~Watched(u)' \/ Untouched(u)
    BY <1>17, MovedItems DEF Untouched, Watched, Looping, DrainPop, workerVars
  <2> QED
    BY <2>1, StrandedFrame
<1>18. ASSUME AppendSample PROVE NoneStranded'
  <2>1. \A u \in Consumers : ~Watched(u)' \/ Untouched(u)
    BY <1>18, MovedItems DEF Untouched, Watched, Looping, AppendSample, workerVars
  <2> QED
    BY <2>1, StrandedFrame
<1>19. ASSUME ReadConnection PROVE NoneStranded'
  <2>1. \A u \in Consumers : ~Watched(u)' \/ Untouched(u)
    BY <1>19, MovedItems DEF Untouched, Watched, Looping, ReadConnection, workerVars
  <2> QED
    BY <2>1, StrandedFrame
<1>20. ASSUME ScheduleAnswer PROVE NoneStranded'
  <2>0. PICK i \in Items : i = work.item
    BY <1>20, DroppedItem
  <2>00. PICK s \in Consumers : s = i.sess
    BY ItemFields
  <2> DEFINE answer == [op |-> work.op, conn |-> work.chan, gen |-> gen[s], tag |-> i.tag,
             msg |-> i.msg]
  <2>1. i.sess = s /\ WorkItems \subseteq WorkItems' \cup {i} /\ UNCHANGED <<inbox, gen,
        unacked, alive, tpc>>
    BY <1>20, <2>0, <2>00, DroppedItem DEF ScheduleAnswer
  <2>2. s \in Consumers
    OBVIOUS
  <2>3. \/ ~Current(i) /\ UNCHANGED <<recon, callbacks>>
        \/ work.chan = 0 /\ UNCHANGED <<recon, callbacks>>
        \/ RequestReconnect(s)
        \/ recon' = recon /\ callbacks' = [callbacks EXCEPT ![s] = @ \cup {answer}]
    BY <1>20, <2>0, <2>00 DEF ScheduleAnswer, OtherGeneration, Current
  <2>4. \A u \in Consumers : callbacks[u] \subseteq callbacks'[u] /\ (u # s =>
        recon'[u] = recon[u])
    <3>1. CASE RequestReconnect(s)
      BY <2>2, <3>1, ReconnectAsks DEF RequestReconnect
    <3> QED
      BY <2>2, <2>3, <3>1
  <2>5. \A u \in Consumers : u # s => ~Watched(u)' \/ Untouched(u)
    BY <2>1, <2>4 DEF Untouched, Watched, Looping
  <2>6. Watched(s)' => Watched(s) /\ ~RequestReconnect(s)
    BY <2>1, <2>2, <2>3 DEF Watched, Looping, RequestReconnect
  <2>7. Watched(s) /\ Current(i) => work.chan # 0
    <3>1. HandOK /\ LinkOK
      BY Zenon DEF IInv
    <3> QED
      BY <1>20, <2>0, <2>00, <3>1 DEF ScheduleAnswer, HandOK, LinkOK, Watched, Looping
  <2>8. answer.op # "teardown" /\ answer.tag = i.tag /\ answer.msg = i.msg
    BY <1>20, WorkFields DEF ScheduleAnswer, WorkerType
  <2> HIDE DEF answer
  <2>9. ASSUME Watched(s), ~RequestReconnect(s), NEW d \in unacked'[s] PROVE Somewhere(s, d)'
    <3>1. Somewhere(s, d)
      BY <2>1, <2>2, <2>9, Zenon DEF NoneStranded
    <3>2. CASE Current(i) /\ d.tag = i.tag /\ d.msg = i.msg
      BY <2>2, <2>3, <2>7, <2>8, <2>9, <3>2 DEF Somewhere
    <3>3. CASE ~(Current(i) /\ d.tag = i.tag /\ d.msg = i.msg)
      BY <2>1, <2>2, <2>4, <3>1, <3>3 DEF Somewhere, Current
    <3> QED
      BY <3>2, <3>3
  <2> QED
    BY <2>2, <2>5, <2>6, <2>9, StrandedBut
<1>21. ASSUME AppendFails PROVE NoneStranded'
  <2>0. PICK s \in Consumers : s = work.item.sess
    BY <1>21, DroppedItem, ItemFields
  <2>1. /\ work.item \in Items /\ WorkItems \subseteq WorkItems' \cup {work.item}
        /\ UNCHANGED <<inbox, gen, unacked, alive, tpc>>
    BY <1>21, DroppedItem DEF AppendFails
  <2>2. s \in Consumers
    OBVIOUS
  <2>3. CASE RequestReconnect(s)
    <3>1. \A u \in Consumers : callbacks[u] \subseteq callbacks'[u] /\ (u # s =>
          recon'[u] = recon[u])
      BY <2>2, <2>3, ReconnectAsks DEF RequestReconnect
    <3>2. \A u \in Consumers : u # s => ~Watched(u)' \/ Untouched(u)
      BY <2>0, <2>1, <3>1 DEF Untouched, Watched, Looping
    <3>3. ~Watched(s)'
      BY <2>2, <2>3 DEF RequestReconnect, Watched
    <3> QED
      BY <2>2, <3>2, <3>3, StrandedBut
  <2>4. CASE work' = [pc |-> "answer", item |-> work.item, op |-> "nack"] /\ UNCHANGED <<recon,
             callbacks>>
    <3>1. WorkItems' = WorkItems
      BY <1>21, <2>4 DEF AppendFails, WorkItems, Hand
    <3>2. \A u \in Consumers : ~Watched(u)' \/ Untouched(u)
      BY <2>1, <2>4, <3>1 DEF Untouched, Watched, Looping
    <3> QED
      BY <3>2, StrandedFrame
  <2> QED
    BY <1>21, <2>0, <2>3, <2>4 DEF AppendFails
<1>22. ASSUME DbFills PROVE NoneStranded'
  <2>1. \A u \in Consumers : ~Watched(u)' \/ Untouched(u)
    BY <1>22, SameItems DEF Untouched, Watched, Looping, DbFills, workerVars
  <2> QED
    BY <2>1, StrandedFrame
<1>23. ASSUME DbDrains PROVE NoneStranded'
  <2>1. \A u \in Consumers : ~Watched(u)' \/ Untouched(u)
    BY <1>23, SameItems DEF Untouched, Watched, Looping, DbDrains, workerVars
  <2> QED
    BY <2>1, StrandedFrame
<1>24. ASSUME Crash PROVE NoneStranded'
  <2>1. \A u \in Consumers : ~Watched(u)' \/ Untouched(u)
    BY <1>24, NoItems DEF Untouched, Watched, Looping, Crash, workerVars
  <2> QED
    BY <2>1, StrandedFrame
<1>25. CASE UNCHANGED vars
  <2>1. \A u \in Consumers : ~Watched(u)' \/ Untouched(u)
    BY <1>25, SameItems DEF Untouched, Watched, Looping, vars, workerVars
  <2> QED
    BY <2>1, StrandedFrame
<1> QED
  BY <1>1, <1>2, <1>3, <1>4, <1>5, <1>6, <1>7, <1>8, <1>9, <1>10, <1>11, <1>12, <1>13, <1>14,
     <1>15, <1>16, <1>17, <1>18, <1>19, <1>20, <1>21, <1>22, <1>23, <1>24, <1>25,
     Zenon DEF Next, Consume, Worker

-----------------------------------------------------------------------------
(* The theorems *)

\* Before anything is delivered the invariant holds.
LEMMA InitHolds == Init => IInv
<1> SUFFICES ASSUME Init PROVE IInv
  OBVIOUS
<1>1. TypeOK
  BY InitTypes
<1>2. WorkItems = {} /\ Hand = {}
  BY DEF Init, WorkItems, Hand, Idle
<1>3. LinkOK /\ TagsOK /\ InboxOK /\ AnswersOK /\ InboxAlone /\ AnswersAlone
  BY DEF Init, LinkOK, TagsOK, InboxOK, AnswersOK, InboxAlone, AnswersAlone, Fresh
<1>4. ItemsOK /\ HandOK /\ ItemsAlone
  BY <1>2 DEF Init, ItemsOK, HandOK, ItemsAlone, Idle
<1>5. TeardownOK /\ NoneStranded /\ AckedArchived
  BY DEF Init, TeardownOK, NoneStranded, Watched, AckedArchived
<1> QED
  BY <1>1, <1>3, <1>4, <1>5 DEF IInv

\* One step of a consumer, the worker, the broker or the environment keeps it.
LEMMA StepHolds == IInv /\ [Next]_vars => IInv'
<1> SUFFICES ASSUME IInv, [Next]_vars PROVE IInv'
  OBVIOUS
<1>1. TypeOK'
  BY TypesStep DEF IInv
<1>2. LinkOK' /\ TagsOK' /\ InboxOK' /\ ItemsOK' /\ HandOK' /\ AnswersOK'
  BY LinkOKStep, TagsOKStep, InboxOKStep, ItemsOKStep, HandOKStep, AnswersOKStep
<1>3. InboxAlone' /\ AnswersAlone' /\ ItemsAlone'
  BY InboxAloneStep, AnswersAloneStep, ItemsAloneStep
<1>4. TeardownOK' /\ NoneStranded' /\ AckedArchived'
  BY TeardownOKStep, NoneStrandedStep, AckedStep
<1> QED
  BY <1>1, <1>2, <1>3, <1>4 DEF IInv

\* The inductive invariant of the consumers, the archive worker and the broker.
THEOREM ListendInductive == Spec => []IInv
<1>1. Init => IInv
  BY InitHolds
<1>2. IInv /\ [Next]_vars => IInv'
  BY StepHolds
<1> QED
  BY <1>1, <1>2, PTL DEF Spec

\* Every variable keeps its type.
THEOREM ListendTypes == Spec => []TypeOK
<1>1. IInv => TypeOK
  BY DEF IInv
<1> QED
  BY <1>1, ListendInductive, PTL

\* No sample is acknowledged to the broker that is not in the archive file.
THEOREM AckedIsArchived == Spec => []AckedArchived
<1>1. IInv => AckedArchived
  BY DEF IInv
<1> QED
  BY <1>1, ListendInductive, PTL

\* A scheduled answer that is not stale names the very delivery it was meant for.
THEOREM AnswersMatch == Spec => []AnswersMatchDelivery
<1>1. IInv => AnswersMatchDelivery
  BY DEF IInv, AnswersOK, AnswersMatchDelivery, Delivery
<1> QED
  BY <1>1, ListendInductive, PTL

\* No delivery is left outstanding on a connection in use with nobody to answer it.
THEOREM NothingStranded == Spec => []NoStrandedDelivery
<1>1. ASSUME IInv, NEW s \in Consumers, alive[s], tpc[s] \in {"consume", "wait"},
             NEW d \in unacked[s]
      PROVE  InHand(s, d) \/ [op |-> "teardown"] \in callbacks[s]
  <2>0. LinkType /\ WorkerType /\ TeardownOK /\ NoneStranded
    BY <1>1, TypeParts, Zenon DEF IInv
  <2>1. Looping(s)
    BY <1>1 DEF Looping
  <2>2. CASE recon[s]
    <3>1. PICK cb \in callbacks[s] : cb.op = "teardown"
      BY <1>1, <2>0, <2>1, <2>2 DEF TeardownOK
    <3>2. cb \in Callbacks
      BY <2>0 DEF LinkType
    <3> QED
      BY <3>1, <3>2, CallbackFields
  <2>3. CASE ~recon[s]
    <3>1. Somewhere(s, d)
      BY <1>1, <2>0, <2>1, <2>3, Zenon DEF NoneStranded, Watched
    <3>2. CASE \E n \in 1..Len(inbox[s]) : inbox[s][n] = d
      BY <3>2 DEF InHand, SeqSet
    <3>3. CASE \E i \in WorkItems : i.sess = s /\ Current(i) /\ i.tag = d.tag /\ i.msg = d.msg
      <4>1. WorkItems \subseteq SeqSet(wq) \cup held \cup
              (IF "item" \in DOMAIN work THEN {work.item} ELSE {})
        BY <2>0, WorkFields DEF WorkItems, SeqSet, Hand, WorkerType
      <4> QED
        BY <3>3, <4>1 DEF InHand
    <3>4. CASE \E cb \in callbacks[s] : cb.op # "teardown" /\ cb.tag = d.tag /\ cb.msg = d.msg
      BY <3>4 DEF InHand
    <3> QED
      BY <3>1, <3>2, <3>3, <3>4 DEF Somewhere
  <2> QED
    BY <2>2, <2>3
<1>2. IInv => NoStrandedDelivery
  BY <1>1 DEF NoStrandedDelivery
<1> QED
  BY <1>2, ListendInductive, PTL
=============================================================================
