# Verification of the order saga

TLA+ models of this repository: an order placed through a BFF and an API gateway
is carried out by three services (orders, inventory, payments), each with its own
PostgreSQL schema, that exchange events through transactional outboxes and Kafka.
The models are checked with TLC on small instances, and what matters most is proved
with TLAPS for every number of orders, users, keys, items and amounts.

Paths below are relative to the root of the repository.

## The system

```
browser -> bff -> api-gateway -> order-service --outbox--> inventory.events --> inventory-service
                                  ^    ^    \--outbox--> payment.events ----> payment-service
                                  |    +------------- inventory.events <--outbox-- inventory-service
                                  +------------------ payment.events <----outbox-- payment-service
```

| component | state it keeps | operations | talks to |
|---|---|---|---|
| order intake: `apps/order-service` `createOrder` | `orders.orders`, `orders.outbox`, the unique index on (user, key) | look up the key; insert order and first command in one transaction; answer 202, 200, 409 or an error | clients (HTTP), its outbox |
| saga orchestrator: `handleSagaEvent` | `orders.orders.status`, `orders.processed_events` | react to InventoryReserved, InventoryRejected, PaymentSucceeded, PaymentFailed | both topics, its outbox |
| inventory-service: `handleInventoryCommand` | `inventory_items`, `reservations`, `processed_events` | reserve, reject, release | `inventory.events`, its outbox |
| payment-service: `handlePaymentCommand` | `payment_attempts`, `processed_events` | approve or decline, up to a limit of 10000 | `payment.events`, its outbox |
| outbox publishers, one per service | `published_at` of each row, the batches in flight | every interval: read 25 unpublished rows, send each, mark each | its schema, Kafka |
| messaging: `packages/messaging` | producer, consumer groups | publish; consume with a filter on the routing key | Kafka |
| transactions and schema: `packages/database`, `infra/postgres/init` | | BEGIN, COMMIT, ROLLBACK; keys and indexes | PostgreSQL |
| BFF sessions and Auth0 tokens: `apps/bff`, `packages/auth` | `identity.sessions` with rotating refresh tokens | login, callback, ensureFreshSession, refresh, logout | Auth0, PostgreSQL |
| request path: gateway services and `packages/resilience` | circuit breakers | forward an order; time out; open | HTTP |
| RBAC: `apps/api-gateway` authz, `apps/bff` admin, `scripts/seed.ts` | `identity.users`, `user_group` | login, assign a user to a group, seed; check a privilege | PostgreSQL |
| configuration, logging, health, compose | none at run time | | |

### What is hard, and what makes each component correct

- **Order intake.** `createOrder` awaits a lookup and then a transaction; another
  request with the same key may run in between, the answer to COMMIT may be lost,
  and a client retries. Correct: one order per user and key, every 202 and 200 names
  that order and has its payload, a 409 is only given for another payload, and the
  order and the command that starts its saga exist together.
- **Saga.** Events arrive from two topics, late, repeatedly, and in an order nobody
  chose; the UPDATEs of `orders.status` carry no condition on the old status; two
  orders compete for the last pieces; the compensation of a failed payment is an
  event of its own. Correct: each step happens once, statuses only move forward,
  a verdict says what has really become of stock and money, stock is conserved, and
  every order gets a verdict in the end.
- **Outbox publishers.** `setInterval` starts a batch while the last one is still
  sending, a send may fail in the middle of a batch, the process may stop between
  sending and marking, `created_at` is the start of a transaction, not its
  commit, and the one producer of a process is kept even if it could not connect.
  Correct: a marked row is in its topic, and every row gets there as long as there is a producer.
- **Messaging.** A message whose handler fails at the head of a partition, a member that
  has lost the partition and is still in its handler, a group that joins after the first
  publication. Correct: from the first committed offset on no message is skipped, first effects
  are in order, all are handled; and a message lost before it harms no order but its own.
- **Transactions.** Statements of two transactions interleave; row locks and the
  primary keys are what makes each handler atomic. Correct: the effect is that of one step.
- **Sessions.** Two requests refresh one rotating token; the provider rotates it
  and the UPDATE fails; logout stops half-way or overlaps a refresh. Correct: the session
  has the newest token, or one request failed with it in hand; a logout is final.
- **Request path.** The breaker gives up after 4 s on a fetch that may run for 5 s:
  the client sees an error for an order that is created a moment later, and retries.
  Correct: whatever it is told names the one order, and it is told something in the end.
- **RBAC.** An assignment is two statements in one service, read by another between them or
  before them. Correct: an answered assignment is effective, and each order is authorised.

## Modules

| module | models | how |
|---|---|---|
| `Tables` | a table, INSERT or replace, `markEventProcessed` | a table is a function from keys to rows |
| `SagaEvents` | event envelopes, `orderCreateSchema`, the amounts a `NUMERIC(12,2)` column keeps | an event has the id of its outbox row, a type (routing key and eventType go together), an order and what its handler reads of the payload |
| `OrderService` | `createOrder`, `createOrderWithOutbox`, `findOrderByIdempotency`, `handleSagaEvent` | a request is a process: `Lookup` up to the first await, then `InsertOrder`, `InsertRefused` or `Abort`. One action per event type for the orchestrator |
| `InventoryService` | `handleInventoryCommand` | `HandleReserve`, `HandleReject`, `HandleRelease` |
| `PaymentService` | `handlePaymentCommand` | one action |
| `OrderSaga` | the three services with outboxes and Kafka between them | `bus` is the set of events that have reached a topic; one publisher and one consumer action per service |
| `OrderSagaInv` | | the inductive invariant of `OrderSaga` |
| `SagaDelivery` | `getProducer` and `consumeTopics` as far as orders wait for them | extends `OrderSaga`: `stuck` is the set of services whose producer promise is rejected, which send nothing until a restart; `missed` the events a group without an offset began behind. The fairness and the liveness of the saga |
| `OrderLifecycle` | what the saga promises for one order | status, hold and charge of each order, with no service, event or message |
| `OutboxRelay` | `startOutboxPublisher`, `publishOutboxBatch`, `getPendingOutboxBatch`, `markOutboxPublished`, `publishEvent`, `getProducer`, of any one service | a batch is a process: `Start` (the SELECT), then `Send` and `Mark` for each row, or a failure of either; `todo` is what it has read and not sent, `sent` the row between the two awaits. `producer` is the promise `getProducer` keeps: `Connect` and `ConnectFails` settle it for the life of the process. `Begin` and `Commit` are the transactions that write rows |
| `EventBus` | what the outbox promises: a written event is delivered, and no other | written, delivered |
| `InventoryTransactions` | the transactions of `handleInventoryCommand`, `withTransaction`, `markEventProcessed` | extends `InventoryService` with the open transaction of each consumer process: one action per statement, with the locks it waits for and takes; COMMIT makes the effect visible. Its refinement of the one-step handlers is the identity on the tables |
| `ConsumerGroup` | `consumeTopics`, the consumers of the three services | one partition and the members of a group: where each is, whether it is in its handler, the committed offset, the owner |
| `BffSessions` | `requireSession`, `ensureFreshSession`, `callbackController`, `refreshController`, `logoutController`, the sessions repository | a request is a process that stands at one of its awaits (`Waits`); `current` is the refresh token Auth0 accepts, numbered in the order of issue |
| `AccessControl` | `createUserSession` and `upsertUserGroupMembership` (users), `getUserAuthorizations`, `assignGroupMembershipController`, `scripts/seed.ts`, the groups and privileges of `001_init.sql` | an assignment is a process: check, upsert, insert; either statement may take effect and the assignment fail |
| `CircuitBreaker` | `createCircuitBreaker`, with what it uses of opossum | operators on the state of a breaker |
| `RequestPath` | `createOrderController` and `proxyToGateway` of the BFF; `authorize`, `requirePrivilege`, `createOrderController` and `forward` of the gateway | composes `OrderService`, `AccessControl` and two breakers; an attempt is an HTTP request, with what BFF and gateway know of it |
| `MCOrderIntake`, `MCOrderSaga`, `MCSagaDelivery`, `MCOutboxRelay`, `MCInventoryTransactions`, `MCConsumerGroup`, `MCBffSessions`, `MCRequestPath` | | instances for TLC |
| `OrderServiceProofs`, `OrderSagaProofs`, `OutboxRelayProofs`, `InventoryTransactionsProofs`, `ConsumerGroupProofs`, `BffSessionsProofs`, `RequestPathProofs` | | theorems |

Variables are the tables: `orders`, `orderOutbox`, `orderProcessed`, `items`,
`reservations`, `invOutbox`, `invProcessed`, `attempts`, `payOutbox`, `payProcessed`.
`requests` holds what the code keeps on the stack of `createOrder` (and, once it is
answered, what it answered). `bus` is Kafka. The operators whose comment begins with
"mutant" are variants of a definition, as a plausible slip would have it; nothing uses
them but mutation tests of the properties.

### Abstractions

- A handler's transaction is one step. The insert into `processed_events` makes two
  deliveries of one event exclude each other, and FOR UPDATE and UPDATE lock the rows
  two orders share; `InventoryTransactions` shows it for the inventory service, the one where
  transactions contend. For the other two it is assumed: that `createOrderWithOutbox`, `handleSagaEvent` and
  `handlePaymentCommand` write their rows and their event together rests on `withTransaction` and PostgreSQL,
  and `OrderIffAnnounced` shows no more of it than that both are in that transaction. A transaction that rolls back, and a crash anywhere outside a COMMIT, leaves no trace
  and is a stuttering step. (In `createOrder` it ends the request: `Abort`.)
- UUIDs never collide: an order's id is unique to its request and an event's id is the place
  of its row in its outbox.
- SHA-256 is injective: comparing hashes is comparing payloads. `Normalise` is what the
  code does before it hashes and stores (the currency in upper case). All stored rows have
  a hash: only rows older than `002_idempotency.sql` do not.
- Amounts are positive multiples of a unit, of which `Cent` make a cent. Bodies and events carry them as they are;
  the rows have `Stored(amount)`, rounded to cents as `NUMERIC(12,2)` does, while `payment.service.ts:18` compares
  the amount of the message with the limit: 10000.004 is declined, and both its rows say 10000.00. An amount with
  more than ten digits before the point is refused by the INSERT of the order, which is `Abort`.
- Kafka keeps every event that was sent, so a consumer may meet it at any time and any
  number of times; all orders of delivery are covered, those that partitions exclude too.
  In `OrderSaga` nothing need ever be delivered, so that its safety covers what groups miss. That a group without
  a committed offset begins at the end of the log, each time anew (`fromBeginning: false`), is in `SagaDelivery`: any event
  that has not been handled may be passed by, and is then owed to nobody.
- Marking rows as published is left out of `OrderSaga`: sending a row again leaves the set
  as it is. `OrderSaga` is built on what `EventBus` promises (an outbox row is a written
  event, `Publish` delivers it), and `OutboxRelay` implements `EventBus`.
- In `OutboxRelay` the messages of one producer form one log; the events `Cause` relates go to
  the same topic with the same key, so their order in the log is their order in the partition.
  A crash ends with the start of the next process, which connects anew.
  `created` has the rows in the order of BEGIN, which is what `DEFAULT NOW()` records; a
  transaction that rolls back is one that never takes `Commit`.
- In `InventoryTransactions` a statement sees what is committed (READ COMMITTED), and an UPDATE's
  new value is computed from a row that stays locked until COMMIT, so it is written down there. SELECT ... FOR UPDATE
  locks the row it finds, and nothing for an unknown sku. The
  environment is the saga's: one command of each type per order (`EachStepOnce`), a release only while
  the order holds a reservation. Two *different* release events of one order could both find it RESERVED,
  since that SELECT takes no lock; the saga sends only one.
- `ConsumerGroup` models kafkajs by its contract: a message is resolved when `eachMessage` returns, thrown
  errors deliver it again, offsets are committed some time after they were resolved and only by the owner.
  A group without an offset begins at the end of the log *each time* a member joins, so messages before
  the first commit can be lost, not only those before the first join; properties speak of the
  offsets from `origin`, where the first member that committed had begun.
- In `BffSessions` whether a token is near its expiry is a flag that time sets (`Age`) and a refresh clears.
  Auth0 accepts each refresh token once (`README.md`, "Refresh Token Rotation"), may answer a reuse by revoking the whole
  session, and its answer may be lost. A statement that took effect may still end in an error; a login whose INSERT did leaves a
  row whose cookie nobody has. A request that fails is over; the browser may send another. The user row is `AccessControl`'s.
- In `RequestPath` a breaker's error rate is nondeterministic, a rejected call changes nothing the client
  could see but the status, and an attempt that gave up goes on in the hops it has reached. The
  requests a client sends again carry the same body and key. Rate limits and malformed requests are left out.
- In `RequestPath` a failed assignment counts as a fault, like a call that was given up.
- In `AccessControl` email addresses are left out: an upsert refused for its email leaves no trace.
- `Batches` bounds how many batches run at one time (the code has no such bound) and
  `MaxFaults` how often an await fails or the process stops.

## Runs

| run | instance | states | shows |
|---|---|---|---|
| `intake` (`OrderIntake.cfg`) | 3 requests, 2 users, 2 keys, 3 bodies (the same payload in two spellings, and another) | 9009 | `OneOrderPerKey`, `AnswersNameTheOrder`, `ConflictIsReal`, `OrderIffAnnounced` for every interleaving of lookups, inserts, errors and lost answers |
| `intake_race` (`OrderIntakeRace.cfg`) | the same | stops at the violation | `RepeatIsReplayed` is violated, see Findings |
| `saga` (`OrderSaga.cfg`) | 2 requests, 1 user, 2 keys, 2 pieces of one item, an unknown item, 5 bodies, limit 8, a cent is 4 | 19951 | `SagaIInv` (types and the invariant of the proofs), `EachStepOnce`, `StockConserved`, `ReservedMatchesReservations`, `NothingLeftBehind`, `VerdictMatchesEffects`, `EffectsMatchOrder`, `StatusMovesForward`, and that the saga implements `OrderLifecycle` (`ImplementsLifecycle`) |
| `saga_live` (`SagaDelivery.cfg`) | 2 orders, 3 bodies, one rejected producer at a time, one event passed by, no symmetry | 188225 | `EveryOrderSettles`, `FailedOrderLetsGo` under `DeliverySpec` |
| `relay` (`OutboxRelay.cfg`) | 3 rows, 2 batches, limit 2, 1 fault | 27120 | `RelayInv` (types and the invariant of the proofs, `OnlyCommittedIsSent` in it), `MarkedIsInLog`, `PublishedStaysQuiet`, and that the publisher implements `EventBus` (`ImplementsBus`) |
| `relay_live` (`OutboxRelayLive.cfg`) | the same with 2 faults, without symmetry | 211419 | `EveryRowIsMarked` under `FairSpec` |
| `relay_stuck` (`OutboxRelayStuck.cfg`) | the same with 1 fault, without symmetry | stops at the violation | `CommittedReachesKafka` is violated, see Findings |
| `relay_order` (`OutboxRelayOrder.cfg`) | the same | stops at the violation | `OrderKept` is violated, see Findings |
| `sessions` (`BffSessions.cfg`) | 1 session, 4 requests | 219570 | `SessionsInv`, `NewestTokenIsKept`, `TokensMoveForward`, `LogoutIsFinal` |
| `inventory_tx` (`InventoryTransactions.cfg`) | 3 orders for 3 pieces of one item, 1 of an unknown item, 1 release, 2 consumers, 1 rollback | 35654 | `TransactionsInv`, `ReadsStayTrue`, that the transactions implement the handlers (`ImplementsAtomic`), `EverySentIsHandled`, no deadlock |
| `consumer` (`ConsumerGroup.cfg`) | 2 members, 4 messages of 2 routing keys, 3 faults | 214464 | `GroupInv`, `NoSkip`, `StaysOrdered`, `EveryMessageIsHandled` |
| `request_path` (`RequestPath.cfg`) | 2 clients, 1 user and key, 2 spellings of the body, up to 5 attempts, 1 seed and 1 assignment, 1 fault | 225513 | `PathInv`, `SuccessNamesTheOrder`, `OrdersAreAuthorised`, `GrantIsEffective`, `EveryIntentIsSettled` |

`SessionsInv`, `TransactionsInv`, `GroupInv` and `PathInv` are the types and the invariant of the proofs in one.

**Why these bounds are enough.** A property of intake relates two requests to one order: a
third request is the retry after a race, a second user checks that keys are per user, and
three bodies give a true repeat, a repeat in another spelling and a conflict. In the saga
the five bodies (one or two pieces, paid or not, and an unknown item) give each order
every path, and two orders compete for two pieces, so that one may be rejected, or be
served only after the other's compensation. Amounts of 7, 8 and 9 are all stored as the limit of 8, two cents;
the first two are approved and the third is declined (`numeric_edge`). No counter needs a bound: a request runs once, and all else
is finite because each order takes each step once. For the publisher, three rows are one more
than a batch holds, so that a row may have to wait for the next batch; a row may commit after a
younger one has been published; two batches overlap and share rows; and one fault may hit any await
of either, or all at once. The liveness run has two faults, so that a rejected `connect()` can be followed by the crash
that makes up for it. In `SagaDelivery` one service at a time has no producer (three stuck ones only wait for the
same restart) and one event is passed by, so that the loss of one order meets the saga of the other. Each batch sends a row at most once before it is marked, so the log is finite.

In a session, the login takes one request and three more overlap: two refreshes of one token and a logout,
or a refresh, its successor and a late loser. Sessions share nothing, so one is enough. Two consumers are
what a lost update or a deadlock needs, and three orders for one item whose wants add up to more than the stock make the
outcome depend on who comes first and who has let go. For the consumer group, three faults let a member
fail, lose the partition to the other, and get it back, over four messages of which some are another service's.
On the request path, two clients race under one key; each attempt that does not end in an answer is spent
by the fault, or by an insert that a rival won, so that five attempts never run out, and a user who is not in
any group yet is turned away until the seed script or an administrator's assignment takes effect.

`CHECK_DEADLOCK FALSE` in all configurations but `inventory_tx`: when no client asks for anything more and all
events are handled the system rightly stops. In `inventory_tx` a command may always be delivered once
more to an idle consumer, so that a state without a step is one where all consumers wait for each other.

**Symmetry** permutes order ids with keys, users and keys in the safety runs, and requests in `sessions`; their
properties quantify over these sets only. The liveness runs use none.

**Fairness.** In `SagaDelivery`: weak fairness of each publisher *while its producer is not rejected*, since `setInterval`
calls it for as long as its process lives, and of each consumer handling some event it has not passed by, since kafkajs
retries the same message until the handler returns. A pending action of these kinds stays enabled until it is taken or
the producer is rejected, so that weak fairness suffices. Nothing promises a restart: a rejected producer may stay
(`Restart` has no fairness), and both properties are conditional on `ProducersRecover`, that it does not, and
on `Lost`, that no event of the order itself was passed by. Without either condition TLC refutes them.
In `OutboxRelay`: weak fairness of starting some batch (the timer), of `Connect`, and of the send and the mark of
each batch (an await ends, one way or another; a send throws if the producer is rejected); faults end because there
are `MaxFaults` at most, which is the assumption that Kafka and the database become reachable again and that no row is
refused for good. Again nothing promises a `Crash`, and `EveryRowIsMarked` is conditional on `ProducerRecovers`.
There, clients and requests get no fairness: a request that never inserts owes nobody anything.

In `InventoryTransactions`: strong fairness of each consumer's next statement, because PostgreSQL hands a lock to
those who wait in turn, and of the delivery of a command that has not been handled, because Kafka delivers
it until its handler has come through. In `ConsumerGroup`: weak fairness of giving an unowned partition to some
member, and of the work of its owner; nothing is assumed of commits. In `RequestPath`: weak fairness of each hop
(it answers or its caller gives up, which is a fault), of both reset timers, and strong fairness of a client's
next attempt, which an open breaker or a rival's trial interrupts; that clients do retry is what
`docs/ARCHITECTURE.md` ("a client retries the same POST request") expects. Faults are bounded in all three.

## Findings

`README.md:121` says "The same user and same idempotency key will return the original order
instead of creating a duplicate." Two concurrent requests with the same user, key and
payload can both find no order; the second INSERT is refused by the unique index, and since
`createOrder` handles no error of `createOrderWithOutbox`
(`apps/order-service/src/services/order.service.ts:45`), that client gets an error and not the
original order. No duplicate is created, and a later retry gets the order. Run
`intake_race` shows the interleaving.

`packages/messaging/src/index.ts:67` says of the message key "We partition by orderId when
possible so all events for one order stay ordered." The timer does not wait for the last batch
(`apps/order-service/src/services/outbox.service.ts:14`): a slow batch that has read the first command of
an order may send it once more after another batch has sent the compensation of the same order, to the
same partition. Only `processed_events` keeps the inventory service from reserving again, which
is what `SagaStepsOnce` shows for all orders of delivery. Run `relay_order` shows the interleaving.

`README.md:49` says of the outbox "best for making sure a DB commit and a Kafka publish do not drift apart."
`getProducer` (`packages/messaging/src/index.ts:35-49`) keeps the promise of its first `producer.connect()`, also when
it is rejected. If Kafka cannot be reached when a service sends its first event, every later `publishEvent` throws: the
timer goes on, each batch ends at its first row, and committed events stay in the outbox although Kafka can be reached
again, until the process is restarted. Run `relay_stuck` shows it with one fault, under the fairness of the timer.

## Theorems

All of these hold for every value of the constants under the assumptions the modules name:

- `UpperAssumption` (upper-casing a currency is a function and idempotent) and `UpperCodeAssumption`;
- `CentAssumption` (a cent is a positive number of units), and that the limit is a number of whole cents (`LimitAssumption`);
- `BodiesAssumption` (bodies pass `orderCreateSchema`), `StockAssumption` (the seeded rows);
- `CauseAssumption` and `BoundsAssumption` (the limit of a batch is positive) of the publisher;
- `CommandsAssumption` of the inventory transactions: the saga sends an order one command of each type, which
  is `EachStepOnce`, itself proved of the saga;
- `GroupAssumption` (a service handles some of the routing keys) and `PathAssumption` (clients are subjects).

| theorem | module | establishes |
|---|---|---|
| `IntakeOneOrder`, `IntakeAnswers`, `IntakeConflicts` | `OrderServiceProofs` | the promises of order creation, alone |
| `SagaTypeCorrect`, `SagaInvariant`, `SagaInductive` | `OrderSagaProofs` | `Spec => []SagaTypeOK`, `Spec => []SagaInv`, and both in one |
| `SagaStepsOnce`, `SagaEffectsMatch`, `SagaVerdicts`, `SagaStock`, `SagaReserved`, `SagaLeavesNothing`, `SagaStatusForward` | `OrderSagaProofs` | the safety properties of the run `saga` |
| `SagaIntake`, `SagaAnnounced` | `OrderSagaProofs` | the promises of order creation while the saga runs |
| `SagaImplementsLifecycle` | `OrderSagaProofs` | `Spec => Lifecycle!Spec` |
| `RelayInvariant`, `RelayLosesNothing`, `RelayStaysQuiet` | `OutboxRelayProofs` | the safety of the publisher, for any number of rows, batches and faults |
| `RelayImplementsBus` | `OutboxRelayProofs` | `Spec => Bus!Spec` |
| `TransactionsInvariant`, `TransactionsReadTruth` | `InventoryTransactionsProofs` | what a transaction has read is still true when it writes, for any number of consumers, commands and rollbacks |
| `TransactionsImplementAtomic` | `InventoryTransactionsProofs` | `Spec => ImplementsAtomic`: each transaction is one step of its handler |
| `GroupInvariant`, `GroupSkipsNothing`, `GroupStaysOrdered` | `ConsumerGroupProofs` | the safety of a consumer group, for any number of members, messages and faults |
| `SessionsInvariant`, `SessionsKeepNewest`, `SessionsMoveForward`, `SessionsLogoutFinal` | `BffSessionsProofs` | the safety of sessions, for any number of sessions and requests |
| `PathInvariant`, `PathSuccess`, `PathAuthorised`, `PathGrants` | `RequestPathProofs` | the safety of the request path and of access control, for any number of users, attempts, assignments and faults |
| `PathImplementsIntake` | `RequestPathProofs` | `Spec => IntakeSpec`: retries and given-up calls make order-service do nothing but take in orders |

**Order creation.** The three promises are not inductive by themselves. `IntakeInv` adds
that an order belongs to a request past its insert (its id is not inserted again), that
stored currencies are upper case (so equal hashes mean equal payloads), and that a request
that is inserting still names itself. An insert changes no existing order, so that what an answer said
stays true.

**The saga.** `EachStepOnce` needs to know why an event cannot be written twice: its cause
was handled once, and there was only one cause. `SagaInv` says so for the whole chain:

- `OutboxShape`: an event has the id of its place and each service writes its own types,
  hence no id is used twice or shared between services;
- `ProcessedWasSent`: what is marked as processed was in Kafka, and is of a type the service consumes;
- `CausalChain`: an event of each type exists if and only if its cause has been handled;
- `StatusTellsProgress`, `EffectsTellProgress`: status, reservation and attempt are functions of
  which events exist and which have been handled, so the UPDATEs without condition
  overwrite only what they should;
- `EventsMatchOrder`, `EffectsMatchOrder`: sku, quantity, amount and currency are copied
  faithfully through the events, the rows have the amount rounded to cents (`Stored`), and the attempt is decided by the unrounded one.

Each handler step is proved in two parts: that the new row (if any) is the only event of its
step, and that the other orders see nothing. The verdicts, the forward statuses and the
refinement then follow from `SagaInv` with one case per action; stock conservation has an
inductive argument of its own on `items`.

A sum of quantities is stated as the cardinality of a set of pieces (`PiecesHeld`, `PiecesOrdered`): the pairs
of an order and a number up to its quantity. So no induction over the orders is needed. A reservation
adds a block of pieces that was not there, since `CausalChain` excludes a second one, and a
release takes its own block away (`PiecesAdd`, from the library's facts on unions and products). That the set is
finite is part of the induction, for `Cardinality` says nothing of others. `SettledOrder` shows that once all
events are handled exactly the CONFIRMED orders hold stock, hence the two sets of pieces are the same.

**The publisher.** That what is marked is in the topic needs to be known of the row between the two
awaits of each batch (`sent[b] \subseteq InLog`), and that only committed rows are sent, of what
batches hold (`todo[b] \subseteq committed`), however stale it is by then: committed rows stay committed.

**The inventory transactions.** `LocksTaken` says which locks a transaction has at each statement and
`LocksExclude` that nobody else has them; then a SELECT ... FOR UPDATE stays true until COMMIT. The SELECT of a release takes
no lock. It stays true by `ReleaseIsDue`: only the release itself takes away the reservation it was sent for, and
`MarkedIsNew` makes it the only transaction for its event. With what was read still true, the COMMIT is the step of
`HandleReserve`, `HandleReject` or `HandleRelease`, and every other statement leaves the tables alone.

**The consumer group.** A member has handled what it wants from where it began (`ReadsInOrder`), and the offset of
the group came from such a member (`CommittedWasRead`). That is enough for `NoSkip`. For `StaysOrdered` while there is no offset yet,
`LatestBeganLast` is needed: each join begins at the end of the log at that time, so that the owner is the member that began last and
all effects from its start on are in order, whatever the members before it still do.

**Sessions.** `TokenChain`: a session has at most one request between its exchange and its UPDATE, its token is the successor of
the stored one, and no other request has a newer one than the row. Auth0 itself sees to that, since it accepts only the newest
token and nobody else has it. `OneLogin` says that the row of a session comes from one callback, which may have ended in an
error after its INSERT. Then an UPDATE always stores
the successor of what it replaces; and `revoked_at`, which no statement clears, keeps later requests out.

**The request path.** `RequestsWereForwarded` ties each request of order-service to the attempt that caused it, and to a check
of the gateway; `SuccessIsAnswered` ties each success, at both hops, to an answer of order-service. With `IntakeInv`, reused with
its step lemmas, they give `SuccessNamesTheOrder`. That the check still stands when the order is inserted, however late, is
`PrivilegesGrow`: nothing in this code takes a group away. `AssignmentsTakeEffect` and `MembershipsWereAssigned` say that
an answered assignment has its membership, and that each membership was written by an assignment, answered or failed after
its INSERT; `IdsAreDistinct`, that no user gets those of another.

**Only model-checked.** The liveness properties (`EveryOrderSettles`, `FailedOrderLetsGo`, `EveryRowIsMarked`,
`EverySentIsHandled`, `EveryMessageIsHandled`, `EveryIntentIsSettled`), out of TLAPS's reach, and
the absence of deadlocks in `inventory_tx`. Every invariant and every action property that a run checks is proved.

## Not modelled, and the plan

What the plan of this project has left are theorems that join the components:

1. Stock is conserved at the granularity of statements, by `TransactionsImplementAtomic` and the argument of `SagaStock`.
2. What `NoSkip` and `MarkedIsInLog` together say of an event: written, and handled or still ahead of every offset.

Not modelled, and why:

- Configuration parsing, logging, health endpoints, container files: no state that changes at run time.
- Rate limits: counters of a library per route and time window; a refused request never reaches a handler.
- `listOrders`, the report endpoints and the session view: they only read.
- The statements of the order and payment transactions: both insert their event id first, which excludes a second
  delivery, and then write rows of one order, which no transaction for another order touches.
- Cookie signing, PKCE, nonces and the encryption of tokens: taken to be correct. Login without callback keeps nothing
  but a cookie.
- What kafkajs, opossum, Auth0 and PostgreSQL do inside: modelled by how the code uses them, as listed above.
