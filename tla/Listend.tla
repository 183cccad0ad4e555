------------------------------ MODULE Listend ------------------------------
(***************************************************************************)
(* listend: competing AMQP consumer threads, each with its own connection, *)
(* and a host-affine archive worker that appends samples to the host's     *)
(* `current' file and answers the broker through the consumer's thread     *)
(* (hpcperfstats/listend.py, multi-consumer production path).              *)
(*                                                                         *)
(* An archive worker serves its hosts independently, so one worker and one *)
(* host stand for all.  A message is its publish number and carries that   *)
(* number as its sample second.  Connections of a session are numbered;    *)
(* channel and connection live and die together.  The broker is external:  *)
(* it delivers the oldest ready message, keeps it with its channel's       *)
(* delivery tag until it is acked or nacked, and makes it ready again when *)
(* the channel goes away.                                                  *)
(***************************************************************************)
EXTENDS Integers, Sequences, FiniteSets

CONSTANTS
  Consumers,   \* consumer threads, one _AmqpConsumeSession each
  Messages,    \* published messages
  Prefetch,    \* basic_qos prefetch_count of one channel
  MaxFaults    \* bound: lost connections, failed appends, crashes, full DB queues

ASSUME ListendAssumption == /\ IsFiniteSet(Consumers) /\ Consumers # {}
                            /\ Messages \subseteq Nat /\ IsFiniteSet(Messages)
                            /\ Prefetch \in Nat \ {0}
                            /\ MaxFaults \in Nat

VARIABLES
  ready,      \* broker: messages waiting in the queue
  unacked,    \* broker: outstanding deliveries of each open channel
  nextTag,    \* broker: next delivery tag of each channel
  acked,      \* broker: messages acknowledged and forgotten
  opened,     \* connections each consumer has opened so far
  alive,      \* the latest of them is still open
  conn,       \* session.connection (and channel), 0 for None
  gen,        \* session.generation
  recon,      \* session.reconnect_requested
  tpc,        \* consumer thread: where in _amqp_consumer_main
  inbox,      \* deliveries the client library holds for on_message
  callbacks,  \* add_callback_threadsafe queue of the latest connection
  pause,      \* _db_backpressure_pause (one flag for the process)
  dbFull,     \* the live DB pool asks to pause
  wq,         \* the archive worker's queue of _ArchiveWorkItem
  held,       \* its reorder heap
  work,       \* the item in hand and how far it got
  archive,    \* samples appended to `current'
  faults

brokerVars == <<ready, unacked, nextTag, acked>>
sessionVars == <<conn, gen, recon>>
linkVars == <<opened, alive, inbox, callbacks>>
dbVars == <<pause, dbFull>>
workerVars == <<wq, held, work, archive>>
vars == <<brokerVars, sessionVars, linkVars, tpc, dbVars, workerVars, faults>>

Idle == [pc |-> "idle"]

Init ==
  /\ ready = Messages /\ acked = {}
  /\ unacked = [s \in Consumers |-> {}]
  /\ nextTag = [s \in Consumers |-> 1]
  /\ opened = [s \in Consumers |-> 0] /\ alive = [s \in Consumers |-> FALSE]
  /\ conn = [s \in Consumers |-> 0] /\ gen = [s \in Consumers |-> 0]
  /\ recon = [s \in Consumers |-> FALSE]
  /\ tpc = [s \in Consumers |-> "outer"]
  /\ inbox = [s \in Consumers |-> << >>] /\ callbacks = [s \in Consumers |-> {}]
  /\ pause = FALSE /\ dbFull = FALSE
  /\ wq = << >> /\ held = {} /\ work = Idle /\ archive = << >>
  /\ faults = 0

Fault == faults < MaxFaults /\ faults' = faults + 1

At(s, from, to) == tpc[s] = from /\ tpc' = [tpc EXCEPT ![s] = to]
SeqSet(q) == {q[n] : n \in 1..Len(q)}
MessagesOf(ds) == {d.msg : d \in ds}

-----------------------------------------------------------------------------
(* Broker and network *)

\* The channel is gone: its deliveries are ready again, nothing more is called back.
ChannelGone(s) ==
  /\ alive' = [alive EXCEPT ![s] = FALSE]
  /\ ready' = ready \cup MessagesOf(unacked[s])
  /\ unacked' = [unacked EXCEPT ![s] = {}]

Deliver(s) ==
  /\ tpc[s] = "consume" /\ alive[s]
  /\ Cardinality(unacked[s]) < Prefetch
  /\ \E m \in ready :
       LET d == [tag |-> nextTag[s], msg |-> m] IN
       /\ \A k \in ready : m <= k
       /\ ready' = ready \ {m}
       /\ unacked' = [unacked EXCEPT ![s] = @ \cup {d}]
       /\ inbox' = [inbox EXCEPT ![s] = Append(@, d)]
  /\ nextTag' = [nextTag EXCEPT ![s] = @ + 1]
  /\ UNCHANGED <<acked, sessionVars, opened, alive, callbacks, tpc, dbVars, workerVars,
                 faults>>

ConnectionLost(s) ==
  /\ Fault
  /\ alive[s]
  /\ ChannelGone(s)
  /\ UNCHANGED <<nextTag, acked, sessionVars, opened, inbox, callbacks, tpc, dbVars,
                 workerVars>>

-----------------------------------------------------------------------------
(* _amqp_consumer_main: connect, bind, consume, tear down, again *)

\* BlockingConnection and the first assignments of session.bind.
Connect(s) ==
  /\ At(s, "outer", "bind")
  /\ opened' = [opened EXCEPT ![s] = @ + 1]
  /\ alive' = [alive EXCEPT ![s] = TRUE]
  /\ nextTag' = [nextTag EXCEPT ![s] = 1]
  /\ conn' = [conn EXCEPT ![s] = opened[s] + 1]
  /\ UNCHANGED <<ready, unacked, acked, gen, recon, inbox, callbacks, dbVars,
                 workerVars, faults>>

\* Mutant: bind counts down.
BindRest_Down(s) ==
  /\ gen' = [gen EXCEPT ![s] = @ - 1]
  /\ recon' = [recon EXCEPT ![s] = FALSE]

\* The last assignments of session.bind.
BindRest(s) ==
  /\ gen' = [gen EXCEPT ![s] = @ + 1]
  /\ recon' = [recon EXCEPT ![s] = FALSE]

\* The session is bound before and after the queue is declared.
Bind(s) ==
  /\ At(s, "bind", "declare") \/ At(s, "declare", "loop")
  /\ BindRest(s)
  /\ UNCHANGED <<brokerVars, conn, linkVars, dbVars, workerVars, faults>>

\* Top of the inner loop: wait while paused, else basic_consume, start_consuming.
EnterConsume(s) ==
  /\ At(s, "loop", IF pause THEN "wait" ELSE IF alive[s] THEN "consume" ELSE "finally")
  /\ UNCHANGED <<brokerVars, sessionVars, linkVars, dbVars, workerVars, faults>>

\* Mutant: the waiting consumer leaves it to somebody else to lift the pause.
ResumeAfterPause_Waits(s) ==
  /\ \/ ~alive[s] /\ At(s, "wait", "finally")
     \/ alive[s] /\ ~pause /\ At(s, "wait", "consume")
  /\ UNCHANGED <<pause, brokerVars, sessionVars, linkVars, dbFull, workerVars, faults>>

\* _wait_for_db_backpressure_resume returns.
ResumeAfterPause(s) ==
  /\ \/ ~alive[s] /\ At(s, "wait", "finally") /\ UNCHANGED pause
     \/ alive[s] /\ ~pause /\ At(s, "wait", "consume") /\ UNCHANGED pause
     \/ alive[s] /\ pause /\ ~dbFull /\ At(s, "wait", "consume") /\ pause' = FALSE
  /\ UNCHANGED <<brokerVars, sessionVars, linkVars, dbFull, workerVars, faults>>

\* start_consuming raises on a dead connection.
NoticeLoss(s) ==
  /\ ~alive[s]
  /\ At(s, "consume", "finally")
  /\ UNCHANGED <<brokerVars, sessionVars, linkVars, dbVars, workerVars, faults>>

\* start_consuming returned: only a pause keeps the connection.
AfterConsume(s) ==
  /\ At(s, "stopped", IF pause THEN "loop" ELSE "finally")
  /\ recon' = IF pause THEN recon ELSE [recon EXCEPT ![s] = FALSE]
  /\ UNCHANGED <<brokerVars, conn, gen, linkVars, dbVars, workerVars, faults>>

\* finally: session.bind(None, None), field by field, then close.
Unbind(s) ==
  /\ At(s, "finally", "unbind")
  /\ conn' = [conn EXCEPT ![s] = 0]
  /\ UNCHANGED <<brokerVars, gen, recon, linkVars, dbVars, workerVars, faults>>

CloseConnection(s) ==
  /\ At(s, "unbind", "outer")
  /\ BindRest(s)
  /\ ChannelGone(s)
  /\ inbox' = [inbox EXCEPT ![s] = << >>]
  /\ callbacks' = [callbacks EXCEPT ![s] = {}]
  /\ UNCHANGED <<nextTag, acked, conn, opened, dbVars, workerVars, faults>>

-----------------------------------------------------------------------------
(* on_message *)

\* Mutant: the paused message is not given back.
OnMessagePause_NoNack(s) ==
  /\ inbox[s] # << >> /\ dbFull
  /\ At(s, "consume", "stopped")
  /\ pause' = TRUE
  /\ inbox' = [inbox EXCEPT ![s] = << >>]
  /\ UNCHANGED <<brokerVars, sessionVars, opened, alive, callbacks, dbFull, workerVars,
                 faults>>

\* Pause mode, DB queues full: nack with requeue and stop_consuming, which hands
\* everything not yet called back to the broker.
OnMessagePause(s) ==
  /\ inbox[s] # << >> /\ dbFull
  /\ At(s, "consume", "stopped")
  /\ pause' = TRUE
  /\ LET back == SeqSet(inbox[s]) \cap unacked[s] IN
       /\ ready' = ready \cup MessagesOf(back)
       /\ unacked' = [unacked EXCEPT ![s] = @ \ back]
  /\ inbox' = [inbox EXCEPT ![s] = << >>]
  /\ UNCHANGED <<nextTag, acked, sessionVars, opened, alive, callbacks, dbFull,
                 workerVars, faults>>

\* _dispatch_to_archive_pool: the item remembers the generation it came with.
OnMessageDispatch(s) ==
  /\ tpc[s] = "consume" /\ inbox[s] # << >> /\ ~dbFull
  /\ wq' = Append(wq, [sess |-> s, tag |-> Head(inbox[s]).tag,
                       msg |-> Head(inbox[s]).msg, ackGen |-> gen[s]])
  /\ inbox' = [inbox EXCEPT ![s] = Tail(@)]
  /\ UNCHANGED <<brokerVars, sessionVars, opened, alive, callbacks, tpc, dbVars, held,
                 work, archive, faults>>

\* An unreadable payload, or a failing dispatch: nack with requeue, or leave a dead
\* channel to the reconnect.
OnMessageFails(s) ==
  /\ Fault
  /\ tpc[s] = "consume" /\ inbox[s] # << >> /\ ~dbFull
  /\ inbox' = [inbox EXCEPT ![s] = Tail(@)]
  /\ IF alive[s]
       THEN /\ ready' = ready \cup {Head(inbox[s]).msg}
            /\ unacked' = [unacked EXCEPT ![s] = @ \ {Head(inbox[s])}]
            /\ UNCHANGED <<recon, tpc>>
       ELSE /\ recon' = [recon EXCEPT ![s] = TRUE]
            /\ tpc' = IF recon[s] THEN tpc ELSE [tpc EXCEPT ![s] = "stopped"]
            /\ UNCHANGED <<ready, unacked>>
  /\ UNCHANGED <<nextTag, acked, conn, gen, opened, alive, callbacks, dbVars, workerVars>>

-----------------------------------------------------------------------------
(* Callbacks on the connection's own thread *)

\* _consume_amqp_callback_stale.
CallbackStale(s, cb) == gen[s] # cb.gen \/ recon[s] \/ conn[s] # cb.conn

\* The thread leaves start_consuming; a pause wait notices the closed connection.
Stopped(s) == tpc' = [tpc EXCEPT ![s] = IF @ = "consume" THEN "stopped" ELSE @]

\* _ack / _nack: the broker only knows the tag.  An unknown tag (406) or a closed
\* channel requests a reconnect, which closes at once on this thread.
RunAnswer(s, cb) ==
  LET named == {d \in unacked[s] : d.tag = cb.tag} IN
  \/ CallbackStale(s, cb) /\ UNCHANGED <<ready, unacked, acked, recon, alive, tpc>>
  \/ /\ ~CallbackStale(s, cb) /\ named # {}
     /\ unacked' = [unacked EXCEPT ![s] = @ \ named]
     /\ ready' = IF cb.op = "nack" THEN ready \cup MessagesOf(named) ELSE ready
     /\ acked' = IF cb.op = "ack" THEN acked \cup MessagesOf(named) ELSE acked
     /\ UNCHANGED <<recon, alive, tpc>>
  \/ /\ ~CallbackStale(s, cb) /\ named = {}
     /\ ChannelGone(s)
     /\ recon' = [recon EXCEPT ![s] = TRUE]
     /\ Stopped(s)
     /\ UNCHANGED acked

\* _teardown: close unless a bind has cleared the request meanwhile.
RunTeardown(s) ==
  IF recon[s] THEN ChannelGone(s) /\ Stopped(s) /\ UNCHANGED <<acked, recon>>
              ELSE UNCHANGED <<ready, unacked, acked, recon, alive, tpc>>

RunCallback(s) ==
  /\ tpc[s] \in {"consume", "wait"}
  /\ \E cb \in callbacks[s] :
       /\ callbacks' = [callbacks EXCEPT ![s] = @ \ {cb}]
       /\ IF cb.op = "teardown" THEN RunTeardown(s) ELSE RunAnswer(s, cb)
  /\ UNCHANGED <<nextTag, conn, gen, opened, inbox, dbVars, workerVars, faults>>

-----------------------------------------------------------------------------
(* The archive worker *)

\* What follows the item in hand: a drain goes on until the heap is empty.
NextWork == IF held = {} THEN Idle ELSE [pc |-> "drain"]

\* queue.get: one consumer appends at once; several hold the item until a second
\* one arrives or the hold time is over.
WorkerGet ==
  /\ work = Idle /\ wq # << >>
  /\ wq' = Tail(wq)
  /\ IF Cardinality(Consumers) <= 1
       THEN /\ work' = [pc |-> "append", item |-> Head(wq), chan |-> conn[Head(wq).sess]]
            /\ UNCHANGED held
       ELSE /\ held' = held \cup {Head(wq)}
            /\ \/ work' = [pc |-> "drain"]
               \/ Cardinality(held') < 2 /\ work' = Idle
  /\ UNCHANGED <<brokerVars, sessionVars, linkVars, tpc, dbVars, archive, faults>>

\* queue.get timed out and the oldest held sample has waited long enough.
HoldExpires ==
  /\ work = Idle /\ wq = << >> /\ held # {}
  /\ work' = [pc |-> "drain"]
  /\ UNCHANGED <<brokerVars, sessionVars, linkVars, tpc, dbVars, wq, held, archive, faults>>

\* heappop by sample second; _archive_and_submit_then_ack notes the channel.
DrainPop ==
  /\ work.pc = "drain"
  /\ \E i \in held :
       /\ \A k \in held : i.msg <= k.msg
       /\ held' = held \ {i}
       /\ work' = [pc |-> "append", item |-> i, chan |-> conn[i.sess]]
  /\ UNCHANGED <<brokerVars, sessionVars, linkVars, tpc, dbVars, wq, archive, faults>>

ChannelOpen(s, c) == c = opened[s] /\ alive[s]

AppendSample ==
  /\ work.pc = "append"
  /\ archive' = Append(archive, work.item.msg)
  /\ work' = [pc |-> "answer", item |-> work.item, op |-> "ack"]
  /\ UNCHANGED <<brokerVars, sessionVars, linkVars, tpc, dbVars, wq, held, faults>>

\* _request_amqp_full_reconnect from the worker: set the flag once and schedule the
\* teardown on whatever connection the session has now.  (The reconnect backoff is
\* seconds long: no bind falls between the caller's check and this.)
RequestReconnect(s) ==
  /\ recon' = [recon EXCEPT ![s] = TRUE]
  /\ callbacks' = IF ~recon[s] /\ conn[s] # 0 /\ ChannelOpen(s, conn[s])
       THEN [callbacks EXCEPT ![s] = @ \cup {[op |-> "teardown"]}] ELSE callbacks

\* Mutant: a failed append is acknowledged like a good one.
AppendFails_Acks ==
  /\ Fault
  /\ work.pc = "append"
  /\ work' = [pc |-> "answer", item |-> work.item, op |-> "ack"]
  /\ UNCHANGED <<brokerVars, sessionVars, linkVars, tpc, dbVars, wq, held, archive>>

\* The append raises: nack, or ask for a reconnect when the channel noted before
\* the append is dead by now.
AppendFails ==
  /\ Fault
  /\ work.pc = "append"
  /\ IF work.chan # 0 /\ ~ChannelOpen(work.item.sess, work.chan)
       THEN RequestReconnect(work.item.sess) /\ work' = NextWork
       ELSE /\ work' = [pc |-> "answer", item |-> work.item, op |-> "nack"]
            /\ UNCHANGED <<recon, callbacks>>
  /\ UNCHANGED <<brokerVars, conn, gen, opened, alive, inbox, tpc, dbVars, wq, held,
                 archive>>

\* _consume_amqp_for_threadsafe_op reads session.connection first ...
ReadConnection ==
  /\ work.pc = "answer"
  /\ work' = [pc |-> "check", item |-> work.item, op |-> work.op,
              chan |-> conn[work.item.sess]]
  /\ UNCHANGED <<brokerVars, sessionVars, linkVars, tpc, dbVars, wq, held, archive, faults>>

\* Mutant and original: the item's delivery belongs to another generation.
OtherGeneration_Never(i) == FALSE
OtherGeneration(i) == gen[i.sess] # i.ackGen

\* ... then generation and reconnect flag, and decides: forget the answer, ask for
\* a reconnect, or schedule the answer on that connection's thread.
ScheduleAnswer ==
  LET i == work.item
      s == i.sess
      known == ~OtherGeneration(i) /\ work.chan # 0
      usable == ~recon[s] /\ ChannelOpen(s, work.chan)
      answer == [op |-> work.op, conn |-> work.chan, gen |-> gen[s], tag |-> i.tag,
                 msg |-> i.msg]
  IN
  /\ work.pc = "check"
  /\ \/ ~known /\ UNCHANGED <<recon, callbacks>>
     \/ known /\ ~usable /\ RequestReconnect(s)
     \/ /\ known /\ usable /\ UNCHANGED recon
        /\ callbacks' = [callbacks EXCEPT ![s] = @ \cup {answer}]
  /\ work' = NextWork
  /\ UNCHANGED <<brokerVars, conn, gen, opened, alive, inbox, tpc, dbVars, wq, held,
                 archive, faults>>

-----------------------------------------------------------------------------
(* Environment: the live DB pool's watermarks, and a crash of the process *)

DbFills ==
  /\ Fault
  /\ ~dbFull /\ dbFull' = TRUE
  /\ UNCHANGED <<brokerVars, sessionVars, linkVars, tpc, pause, workerVars>>

DbDrains ==
  /\ dbFull /\ dbFull' = FALSE
  /\ UNCHANGED <<brokerVars, sessionVars, linkVars, tpc, pause, workerVars, faults>>

Crash ==
  /\ Fault
  /\ ready' = ready \cup UNION {MessagesOf(unacked[s]) : s \in Consumers}
  /\ unacked' = [s \in Consumers |-> {}]
  /\ alive' = [s \in Consumers |-> FALSE]
  /\ conn' = [s \in Consumers |-> 0] /\ gen' = [s \in Consumers |-> 0]
  /\ recon' = [s \in Consumers |-> FALSE]
  /\ tpc' = [s \in Consumers |-> "outer"]
  /\ inbox' = [s \in Consumers |-> << >>] /\ callbacks' = [s \in Consumers |-> {}]
  /\ pause' = FALSE /\ dbFull' = FALSE
  /\ wq' = << >> /\ held' = {} /\ work' = Idle
  /\ UNCHANGED <<nextTag, acked, opened, archive>>

Consume(s) == \/ Connect(s) \/ Bind(s) \/ EnterConsume(s) \/ ResumeAfterPause(s)
              \/ NoticeLoss(s) \/ AfterConsume(s) \/ Unbind(s) \/ CloseConnection(s)
              \/ OnMessagePause(s) \/ OnMessageDispatch(s) \/ RunCallback(s)

Worker == \/ WorkerGet \/ HoldExpires \/ DrainPop \/ AppendSample \/ ReadConnection
          \/ ScheduleAnswer

Next == \/ \E s \in Consumers : Consume(s) \/ Deliver(s) \/ ConnectionLost(s)
        \/ \E s \in Consumers : OnMessageFails(s)
        \/ Worker
        \/ AppendFails
        \/ DbFills \/ DbDrains
        \/ Crash

Spec == Init /\ [][Next]_vars

\* Fairness: consumer and archive threads keep running, each callback that is
\* queued on a live connection is run, the broker delivers, the DB queues drain.
Fairness == /\ \A s \in Consumers : /\ WF_vars(Consume(s))
                                    /\ WF_vars(RunCallback(s))
                                    /\ WF_vars(OnMessageDispatch(s))
                                    /\ WF_vars(Deliver(s))
            /\ WF_vars(Worker)
            /\ WF_vars(DbDrains)

FairSpec == Spec /\ Fairness

-----------------------------------------------------------------------------
(* Properties *)

Deliveries == [tag : Nat \ {0}, msg : Messages]
Items == [sess : Consumers, tag : Nat \ {0}, msg : Messages, ackGen : Nat]
Callbacks == [op : {"teardown"}]
  \cup [op : {"ack", "nack"}, conn : Nat, gen : Nat, tag : Nat \ {0}, msg : Messages]
WorkStates == {Idle, [pc |-> "drain"]}
  \cup [pc : {"append"}, item : Items, chan : Nat]
  \cup [pc : {"answer"}, item : Items, op : {"ack", "nack"}]
  \cup [pc : {"check"}, item : Items, op : {"ack", "nack"}, chan : Nat]

\* The type of every variable of the consumers, the archive worker and the broker.
TypeOK ==
  /\ ready \subseteq Messages /\ acked \subseteq Messages
  /\ unacked \in [Consumers -> SUBSET Deliveries]
  /\ nextTag \in [Consumers -> Nat \ {0}]
  /\ opened \in [Consumers -> Nat] /\ alive \in [Consumers -> BOOLEAN]
  /\ conn \in [Consumers -> Nat] /\ gen \in [Consumers -> Nat]
  /\ recon \in [Consumers -> BOOLEAN]
  /\ tpc \in [Consumers -> {"outer", "bind", "declare", "loop", "wait", "consume",
                            "stopped", "finally", "unbind"}]
  /\ inbox \in [Consumers -> Seq(Deliveries)]
  /\ callbacks \in [Consumers -> SUBSET Callbacks]
  /\ pause \in BOOLEAN /\ dbFull \in BOOLEAN
  /\ wq \in Seq(Items) /\ held \subseteq Items /\ work \in WorkStates
  /\ archive \in Seq(Messages)
  /\ faults \in Nat

\* A message the broker has forgotten is in the archive file: no lost connection,
\* stale tag, failed append or crash acknowledges a sample that was not appended.
AckedArchived == acked \subseteq SeqSet(archive)

\* An answer that will reach the broker names the delivery it was meant for on the
\* channel it came from: leftover tags never hit the next channel.
AnswersMatchDelivery ==
  \A s \in Consumers : \A cb \in callbacks[s] :
    cb.op # "teardown" /\ ~CallbackStale(s, cb) /\ alive[s]
      => [tag |-> cb.tag, msg |-> cb.msg] \in unacked[s]

InHand(s, d) ==
  \/ d \in SeqSet(inbox[s])
  \/ \E i \in SeqSet(wq) \cup held \cup (IF "item" \in DOMAIN work THEN {work.item} ELSE {}) :
       i.sess = s /\ i.tag = d.tag /\ i.msg = d.msg
  \/ \E cb \in callbacks[s] : cb.op # "teardown" /\ cb.tag = d.tag /\ cb.msg = d.msg

\* A delivery outstanding on a connection that stays in use is in somebody's hands:
\* it never occupies a prefetch slot with nobody left to answer it.
NoStrandedDelivery ==
  \A s \in Consumers : alive[s] /\ tpc[s] \in {"consume", "wait"} =>
    \A d \in unacked[s] : InHand(s, d) \/ [op |-> "teardown"] \in callbacks[s]

\* Every published message is eventually acknowledged.
EverythingAcked == <>(acked = Messages)
=============================================================================
