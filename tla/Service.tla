-------------------------------- MODULE Service --------------------------------
(***************************************************************************)
(* The web application in one process: the first gate of ReviewGate beside *)
(* the webhook receiver (api/webhooks.py), behind the write key            *)
(* (api/write_key.py), on one database with one write lock.                *)
(*                                                                         *)
(* A decision runs on a thread of starlette's pool; the event loop starts  *)
(* it and runs the end of its connection dependency.  A delivery is an     *)
(* async handler: its INSERT runs on the event loop itself, and while it   *)
(* waits for the write lock nothing else that needs the loop can happen.   *)
(***************************************************************************)
EXTENDS ReviewGate

CONSTANTS
  Delivery,     \* the webhook deliveries the provider makes, and makes again
  Event,        \* the event ids
  EventOf,      \* EventOf[d]: the id in its header, or "none"
  Supported,    \* the deliveries whose body names a supported event type
  Signed,       \* the deliveries whose signature verifies
  WriteKey      \* whether PRECEDENT_WRITE_KEY is set

ASSUME ServiceAssumption ==
  /\ EventOf \in [Delivery -> Event \union {"none"}]
  /\ Supported \subseteq Delivery
  /\ Signed \subseteq Delivery
  /\ WriteKey \in BOOLEAN
  /\ "none" \notin Event
  /\ "free" \notin Delivery

VARIABLES
  events,       \* events[e]: the signature flag of the committed row of e, or "none"
  hook,         \* hook[d]: where the delivery stands
  writer,       \* the delivery that holds the write lock, or "free"
  loop,         \* the delivery whose INSERT blocks the event loop, or "free"
  acked,        \* the deliveries the provider has had a 200 for
  unlocked,     \* the operators whose browser holds the key
  crashed       \* whether the process has died

gate == vars
hooks == <<events, hook, writer, loop, acked>>
allvars == <<vars, hooks, unlocked, crashed>>

Stages == {"away", "received", "blocked", "open"}
Storable(d) == EventOf[d] # "none" /\ d \in Supported

ServiceTypeOK ==
  /\ TypeOK
  /\ events \in [Event -> {"none", "signed", "unsigned"}]
  /\ hook \in [Delivery -> Stages]
  /\ writer \in Delivery \union {"free"}
  /\ loop \in Delivery \union {"free"}
  /\ acked \subseteq Delivery
  /\ unlocked \subseteq Req
  /\ crashed \in BOOLEAN

ServiceInit ==
  /\ Init
  /\ events = [e \in Event |-> "none"]
  /\ hook = [d \in Delivery |-> "away"]
  /\ writer = "free"
  /\ loop = "free"
  /\ acked = {}
  /\ unlocked = {}
  /\ crashed = FALSE

----------------------------------------------------------------------------
(* The first gate, as the process runs it *)

\* The loop passes a request on to the pool, when its browser holds the key or none is set.
\* A request without it is answered 403 and reaches no handler.
OpenRequest(q) ==
  /\ loop = "free"
  /\ ~WriteKey \/ q \in unlocked
  /\ \E route \in Routes, action \in HumanActions : Open(q, route, action)
  /\ UNCHANGED <<hooks, unlocked, crashed>>

\* A step of the handler on its thread, which needs neither the loop nor the write lock, or
\* has it.
RunOnThread(q) ==
  /\ CannotDeposit(q) \/ Deposit(q) \/ DepositFails(q) \/ AuthoringRaises(q) \/ LockTimeout(q)
  /\ UNCHANGED <<hooks, unlocked, crashed>>

\* A step that takes the write lock: no delivery may hold it.
TakeLock(q) ==
  /\ writer = "free"
  /\ RecordAction(q) \/ RecordRejection(q) \/ ApiRecord(q)
  /\ UNCHANGED <<hooks, unlocked, crashed>>

\* The loop runs the end of get_connection for an API decision.
EndApiRequest(q) ==
  /\ loop = "free"
  /\ ApiCommit(q)
  /\ UNCHANGED <<hooks, unlocked, crashed>>

\* /unlock exchanges the key for a cookie; without a configured key it does nothing.
Unlock(q) ==
  /\ loop = "free"
  /\ WriteKey
  /\ q \notin unlocked
  /\ unlocked' = unlocked \union {q}
  /\ UNCHANGED <<gate, hooks, crashed>>

----------------------------------------------------------------------------
(* The webhook receiver *)

At(d, stage) == hook' = [hook EXCEPT ![d] = stage]

\* The provider delivers, again after anything but a 2xx, and again when it likes.
Deliver(d) ==
  /\ loop = "free"
  /\ hook[d] = "away"
  /\ At(d, "received")
  /\ UNCHANGED <<gate, events, writer, loop, acked, unlocked, crashed>>

\* Nothing to store: no event id, or no supported type, and the delivery is acked; or an
\* event type that no set can look up, whose TypeError is not the ValueError the handler
\* expects, and the answer is a 500.
Dismiss(d) ==
  /\ loop = "free"
  /\ hook[d] = "received"
  /\ ~Storable(d)
  /\ At(d, "away")
  /\ \/ acked' = acked \union {d}
     \/ EventOf[d] # "none" /\ UNCHANGED acked
  /\ UNCHANGED <<gate, events, writer, loop, unlocked, crashed>>

\* insert_if_new has the write lock, which INSERT OR IGNORE takes for a known id too; the
\* handler returns, and the 200 goes out with the transaction open.
Insert(d) ==
  /\ lock = "free"
  /\ writer = "free"
  /\ writer' = d
  /\ At(d, "open")
  /\ acked' = acked \union {d}
  /\ loop' = "free"
  /\ UNCHANGED <<gate, events, unlocked, crashed>>

\* The lock is free at once.
Record(d) ==
  /\ loop = "free"
  /\ hook[d] = "received"
  /\ Storable(d)
  /\ Insert(d)

\* Another writer has it: SQLite sleeps and tries again, on the event loop.
Block(d) ==
  /\ loop = "free"
  /\ hook[d] = "received"
  /\ Storable(d)
  /\ lock # "free" \/ writer # "free"
  /\ At(d, "blocked")
  /\ loop' = d
  /\ UNCHANGED <<gate, events, writer, acked, unlocked, crashed>>

\* The lock came free in time.
Unblock(d) ==
  /\ loop = d
  /\ Insert(d)

\* Mutated forms: no busy timeout; one connection for the process, whose rollback undoes an
\* open decision too.
InsertWaits(d) == FALSE

InsertTimeoutRollsBackAll(d) ==
  /\ loop = d
  /\ lock # "free" \/ writer # "free"
  /\ loop' = "free"
  /\ At(d, "away")
  /\ lock' = "free"
  /\ UNCHANGED <<durable, pc, act, answer, events, writer, acked, unlocked, crashed>>

\* "database is locked" past the busy timeout: the loop goes on, the delivery gets a 500.
InsertTimeout(d) ==
  /\ loop = d
  /\ lock # "free" \/ writer # "free"
  /\ loop' = "free"
  /\ At(d, "away")
  /\ UNCHANGED <<gate, events, writer, acked, unlocked, crashed>>

\* A mutated form: INSERT OR REPLACE.
CommitReplacing(d) ==
  /\ loop = "free"
  /\ hook[d] = "open"
  /\ events' = [events EXCEPT ![EventOf[d]] = IF d \in Signed THEN "signed" ELSE "unsigned"]
  /\ writer' = "free"
  /\ At(d, "away")
  /\ UNCHANGED <<gate, loop, acked, unlocked, crashed>>

\* The loop runs the end of get_connection: the first copy of an event is the one kept.
CommitDelivery(d) ==
  /\ loop = "free"
  /\ hook[d] = "open"
  /\ events' = IF events[EventOf[d]] = "none"
               THEN [events EXCEPT ![EventOf[d]] = IF d \in Signed THEN "signed" ELSE "unsigned"]
               ELSE events
  /\ writer' = "free"
  /\ At(d, "away")
  /\ UNCHANGED <<gate, loop, acked, unlocked, crashed>>

\* The process dies once, and is started again: what was open is rolled back, and the
\* deliveries it was working on come again when they got no 200.
Die ==
  /\ ~crashed
  /\ crashed' = TRUE
  /\ \/ Crash
     \/ UNCHANGED gate /\ \A q \in Req : pc[q] \notin Working \union Holding
  /\ hook' = [d \in Delivery |-> "away"]
  /\ writer' = "free"
  /\ loop' = "free"
  /\ UNCHANGED <<events, acked, unlocked>>

----------------------------------------------------------------------------
Decide(q) == RunOnThread(q) \/ TakeLock(q) \/ EndApiRequest(q)

Receive(d) ==
  Dismiss(d) \/ Record(d) \/ Block(d) \/ Unblock(d) \/ InsertTimeout(d) \/ CommitDelivery(d)

ServiceNext ==
  \/ Die
  \/ \E q \in Req : OpenRequest(q) \/ Decide(q) \/ Unlock(q)
  \/ \E d \in Delivery : Deliver(d) \/ Receive(d)

\* The pool's threads run, and what waits for the event loop is served first come first
\* served: a callback that is ready again and again is run.  The provider delivers again
\* what it has no 200 for.
Redeliver(d) == d \notin acked /\ Deliver(d)

ServiceFairness ==
  /\ \A q \in Req : SF_allvars(Decide(q))
  /\ \A d \in Delivery : SF_allvars(Redeliver(d) \/ Receive(d))

ServiceSpec == ServiceInit /\ [][ServiceNext]_allvars

FairServiceSpec == ServiceSpec /\ ServiceFairness

----------------------------------------------------------------------------
(* Properties *)

\* The receiver and the key change nothing about the first gate: the process implements
\* ReviewGate's specification, whatever deliveries it interleaves.
GateSpec == Spec

\* A row of webhook_events never changes: a redelivery, an overlapping duplicate or a copy
\* with another signature leaves what the first copy wrote (insert_if_new).
FirstCopyStands ==
  [][\A e \in Event : events[e] # "none" => events'[e] = events[e]]_allvars

\* Every delivery that can be stored is stored in the end, though its INSERT may block the
\* loop that would free the lock it waits for; only a crash can lose one (the receiver's
\* docstring: it acks "once the delivery is durably recorded").
DeliveriesAreRecorded ==
  \A d \in Delivery : Storable(d) => <>(events[EventOf[d]] # "none" \/ crashed)

----------------------------------------------------------------------------
(* A statement of the repository that the code does not keep *)

\* api/webhooks.py: "Always acks with 200 once the delivery is durably recorded".  The 200
\* goes out before the commit: a delivery that is over and was acked may not be there.
AckedIsRecorded ==
  \A d \in Delivery :
    Storable(d) /\ d \in acked /\ hook[d] = "away" => events[EventOf[d]] # "none"
=============================================================================
