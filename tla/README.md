# Verification of polyglot-ticketing

TLA+ models of the ticketing system's core: the reservation, update, projection and payment
of tickets across three Go services, each with its own PostgreSQL database, coordinated by
Temporal workflows and gRPC calls.  Two further models follow a browser's request from the
gateway to its workflow or query and the result back, and its session from sign-up to
sign-out.  TLC checks small instances; TLAPS proves the safety properties of every module
and all refinements for every instance.

## 1. Inventory

| Component | State | Operations | What makes it correct |
|---|---|---|---|
| **Orders**, `apps/orders/internal/{order,reservation}` | rows `orders` (status, buyer, ticket, `expires_at`) and the projection `tickets` | `ReserveTicket`, `StartPayment`, `ResolvePayment`, `ExpireCreatedOrder`, `CancelByIDAndUser`, `EnsureTicketProjection`; workflows `create-order`, `expire-order`, `cancel-order`, `resolve-payment` | one open or completed order per ticket; an answered order holds the ticket's claim; every open order ends; checkout is ended only by payment |
| **Tickets**, `apps/tickets/internal/{ticket,creation}` | rows `tickets` (content, version, `reserved_by_order_id`) and `ticket_update_operations` | `Create`, `UpdateWithIdempotency`, `ReserveForOrder`, `ReleaseOrderReservation`; workflows `create-ticket`, `ticket-updates` | an update takes effect once; versions are gapless; Orders sees every version in order; a claim is not taken over or cleared by another order |
| **Payments**, `apps/payments/internal/{payment,creation}` | rows `payments` (status, mock outcome, lease) and an order snapshot | `CreatePayment`, workflow `create-payment`, settlement worker (`ClaimNextPending`, `MarkResolved`) | one payment per order; its result is the order's; every checkout ends |
| **Request path**: coordinators and gRPC servers of the three services, **API gateway** `apps/api-gateway` (NestJS) | requests in progress; run IDs at Temporal | session guard, validation, start or join a run, wait 60 seconds, six tables of errors | a refusal keeps its meaning; an open run is never reported as decided; its handler keeps its worker; a key names one creation; the right code decides whether a workflow retries |
| **Identity**, `apps/identity` (NestJS, better-auth), and the gateway's `identity` routes | users and sessions, in the library's database; the cookies of browsers | sign-up with mail, email verification, sign-in, current user, sign-out | sessions stay with their browser; sign-out is final; an outage is not "not authenticated" |
| Processes of the Go services, `cmd/*/main.go` | calls and workflows in progress | start, SIGTERM, graceful stop | accepted calls are answered; no shutdown waits for ever |
| proto, migrations, compose files, make, k6 | none | build and deployment | none modelled |

Interaction: the gateway calls Tickets, Orders and Payments.  Tickets pushes each ticket
version to Orders (`EnsureTicketProjection`).  Orders claims and releases tickets at Tickets.
Payments starts and resolves payments at Orders.  Each of these calls is an activity that
Temporal retries, or a poll that the settlement worker repeats.  No transaction spans two
databases.

Hard behaviours: an activity that took effect but whose result was lost and which is
executed again; two workflows about the same order or ticket interleaved at every activity;
a claim and a row in different databases; two clocks for one deadline; a long-lived update
workflow that forgets at continue-as-new; leases and worker crashes; services that stop while
they wait for each other; answers that cross in a browser.  `PROJECT.json` lists
each of them at its line.

## 2. Modules

| Module | Contents |
|---|---|
| `Activities` | What the workflows of all services share: attempts of an activity whose result may be lost |
| `TicketSale` | Abstract specification: a ticket is held for at most one order, a hold is sold or dropped, for good |
| `OrderReservation` | Orders' rows, Tickets' claims and the four reservation workflows; implements `TicketSale` |
| `OrderReservationProofs` | Its theorems, checked by TLAPS |
| `TicketHistory` | Abstract specification: a ticket's contents follow each other, each edit enters once, the market shows them in order and leaves none out |
| `TicketUpdates` | One ticket's creation, updates, ledger and projection; implements `TicketHistory` |
| `TicketUpdatesProofs` | Its theorems, checked by TLAPS |
| `OrderPayment` | Abstract specification: an order in checkout gets one payment, decided once; order and payment end by the decision |
| `PaymentSettlement` | Payments on top of `OrderReservation`, which it extends; replaces the part of its environment that stood for Payments; implements `OrderPayment` |
| `PaymentSettlementProofs` | Its theorems, checked by TLAPS |
| `Checkout` | `TicketUpdates` and `PaymentSettlement` composed (it extends both), with the price of an order |
| `CheckoutProofs` | Its theorems, checked by TLAPS |
| `GatewayErrors` | What the gateway makes of gRPC errors |
| `ClientRequests` | Gateway handler, gRPC server, coordinator and Temporal run of a command, or a query, with every table of errors on the way, while services are stopped and started |
| `ClientRequestsProofs` | Its theorems, checked by TLAPS |
| `Sessions` | Users, sessions and cookies: Identity's operations and the gateway's auth routes and guard |
| `SessionsProofs` | Its theorems, checked by TLAPS |
| `MC*` | Model values and symmetry for TLC |

`PaymentSettlement` and `Checkout` extend their parts instead of instantiating them, so that
their proofs can extend those of the parts and cite their theorems, which tlapm cannot do
through an `INSTANCE`.  The specifications of the parts are therefore named for them:
`OrdersInit`, `OrdersNext`, `OrdersSpec`, `ordersVars`, and likewise `Updates...` and
`Payments...`; `Init`, `Next` and `Spec` are those of `Checkout`, `ClientRequests` and
`Sessions`.

### How state and actions correspond to the code

A workflow is a step variable per workflow ID (`create`, `expire`, `cancel`, `resolve`,
`checkout`, ...); an action is the execution of its next activity: the whole transaction or
remote call with its effect, its error paths and the workflow's reaction to the result.
Results come back with `acked = TRUE`.  With `acked = FALSE` the activity took effect and the
result was lost (worker crash, timeout, broken connection): the workflow stays where it is
and the activity runs again.  An attempt that had no effect is no step.  An error the code
makes non-retryable ends the workflow.

Abstractions, all deliberate:

* An attempt's effect happens before the next attempt starts; an attempt that Temporal has
  given up on and that writes afterwards is not modelled.
* Where a repository method updates and, if nothing matched, reads the row for its answer,
  the two statements are one step.  A change between the two could only make the answer
  newer.
* Callers wait 60 seconds at most.  The timeout does not touch the workflow, so it is no
  step; the repetition of the call is an ordinary new request.
* `expires_at` is a flag, `overdue`, that becomes true at some time; `TimerFires` is the same
  moment on Temporal's clock.  `DbClockLags` lets the timer fire before the flag is set, as it
  may in every passing run.
* A cancel request that finds `cancel-order/<o>` open joins it and shares its result,
  whatever user it is for; this is no step, like every other join.
* In `TicketUpdates` a title and price are named by the key that set them; orders are reduced
  to whether one claims the ticket; the server's answer to a key that the current run has
  already seen is no step.
* `FinishUpdate` includes continue-as-new: handler and main routine run in the same workflow
  task, so nothing comes between the last update and the end of the run.
* In `OrderReservation` resolutions are requested only for orders that have entered
  checkout.  `PaymentSettlement` does not assume this: `UsesOrdersAsAssumed` checks it.
* Payments' copy of the order row is written only in the transaction that writes its payment;
  its price is modelled in `Checkout`, its status is determined by the payment.  Only buyers
  request payments: for anyone else `StartPayment` finds no order and the workflow fails
  without effect.
* `Checkout` extends both specifications, on one ticket.  Either side has its view of what
  they share, `reserved` of the claim and `projected` of the projection, and `Views` sets
  both with the step that changes what is seen: they are no state of the code, which has one
  row for each.  A price is named by the version that set it.  `Reserve`, `Release` and
  `EnsureTicketProjection`, which stood for the other side, occur as the other side's steps;
  `TicketsAreUsedAsAssumed` and `PaymentsAreUsedAsAssumed` say that they are what was assumed.
* In `ClientRequests` a request's `stage` is how far its handlers have come, and a run is named
  by the request that started it; `step` counts its two activities.  All requests concern
  one user, one ticket and one order.  What an activity or query finds in a database is a
  choice among the errors that its repository can return there; the other modules say when
  it returns which.  An attempt that fails with a retried error changes nothing here and is
  no step.  Content, which validation rule a bad input breaks, the rows of a query, the end
  of a run by anything but an application error (cancellation from outside, history
  retention) are left out.
* A service's `process` is up, draining after SIGTERM (new calls are refused, those in progress
  and its worker go on) or stopped.  An activity needs its worker, and the service it calls
  to be up.  The worker is no process of its own: `Exit` is the end of `main`, where it is stopped after
  `GracefulStop`.  A crash is `LoseServer`: its process is taken to be back at once.
* `FailToRead` is a coordinator that cannot read its run before the 60 seconds are over
  (Temporal answers with an error of its own, or the result cannot be decoded).  Creations hand
  the error on, which ends as 500 (coordinator.go:79); all others report `ErrUnavailable`.
* `paid` is the row in Payments' database, which `FindPayment` looks for.  It is there with the run's
  completion, or earlier by an attempt of `PersistPayment` whose result was lost
  (`LosePersistResult`).
* In `Sessions` a browser has one cookie and up to two requests under way, each of which carries
  the cookie of when it was sent and sets or clears the cookie of when its answer arrives.
  `row` is a session's row with the place of its expiry: `live` (where the cookie's is),
  `renewed` (later), `late` (the cookie's has passed), `gone`.  better-auth is known by how
  this code calls and configures it: each call succeeds, refuses, or throws, and where its own
  handling of a failing database or of a known email decides, both outcomes are allowed.
  `SessionExpires` ends a session that was never renewed and its cookie in one step: the browser's
  clock and the database's are taken to be one, as are their moments of looking.
* Wording is left out everywhere; input validation is accepted or refused.

## 3. Runs

Every pass run checks safety over all interleavings or liveness under the stated fairness.
`CHECK_DEADLOCK FALSE` everywhere: orders, keys and tickets are finite and the system may
come to rest when all are used up.

| Run | Instance | Shows |
|---|---|---|
| `reservation_safety` | 1 ticket, 2 users, 2 orders, one by each, both outcomes, lost results | one blocking order; claims leave only canceled orders; checkout ends by resolution; `ReservationInv`, the proofs' inductive invariant, which contains the type invariant and `AcknowledgedOrderHoldsClaim`; refinement of `TicketSale` |
| `reservation_progress` | 1 user, 2 orders, failure only, lost results, repeated requests | an answered order, joined by a repeated request or not, holds the claim; an answered order leaves `Created` and a canceled one frees its ticket, each but for one state that its property names |
| `updates_safety` | 4 keys (one foreign), runs of 2 updates, lost results, claims, early edits | ledger and projection stay one history (`TicketHistory`; `UpdatesInv` is the proofs' inductive invariant), answers are true of Orders, a version gets lost in one known way only; updates are answered and creation completes but for the two exceptions the properties name |
| `settlement_safety` | 1 order, 2 workers, both outcomes, lost results, crashes with reconfiguration | Payments and Orders agree and implement `OrderPayment`; no resolution is refused; Orders is used as assumed; `SettlementInv`, the proofs' inductive invariant |
| `settlement_progress` | 1 order, 1 worker | once faults stop, checkout ends and the payment settles |
| `checkout_safety` | 1 ticket, 1 order, 2 keys, lost results, early edits; no settlement worker | an answered order freezes its ticket; quotes are current up to edits under way; the recorded price is final; Orders uses Tickets as `TicketUpdates` assumes; `CheckoutInv`, the proofs' inductive invariant, those of the parts included |
| `request_answers` | 2 requests, all commands and queries, runs that may never end, Tickets and Orders stopped and started | a status agrees with the run or query behind it, and is no success or refusal while the run is open; requests with one key share a creation; only refusals end runs; no process exits under a waiting handler; `RequestsInv`, the proofs' inductive invariant; every request is answered, every shutdown ends |
| `sessions_safety` | 1 user, 2 browsers, 2 sessions, 2 requests at a time | sessions stay with their browser and verified user (`SessionsInv` is the proofs' inductive invariant); sign-out is final for its session; no cookie outlives its session unsaid; 401 is never an outage; a refused sign-in made no session |

Bounds.  Tickets do not interact (every guard and effect concerns one ticket and its orders),
so one is enough.  Two orders give every pairwise conflict: an order and its canceled
predecessor, two buyers (`reservation_safety`), one buyer twice (`reservation_progress`, where
a second `create-order` may join the first one's order).  Both at once, with both outcomes, are
too many states for a short run; what one run leaves out of the safety properties of the other
is proved (section 4).  Two updates per run let a run end with others queued and
replay keys of an earlier run; the code's 100 differs only in how long this takes.
Payments of different orders share only a worker, which holds none of them for good.
Two requests are enough for the request path: a property of it relates a request to one run or
to one other request with the same ID, and two stopping services wait for each other by one
request each.  Sessions of different users meet only in a browser, whose cookie names one of
them whoever it belongs to; two sessions and two requests give every crossing of two answers.
`Checkout` leaves out the settlement workers, which read no price: an order in checkout stays
there, and with one order nothing waits for its end.
No counter is bounded artificially: versions are bounded by the number of keys.

Fairness.  Weak fairness of each workflow's next step with its result delivered: Temporal
persists accepted workflows and both retry policies have no attempt limit.
`DeadlinePasses` is fair because time passes, the settlement worker because it polls
for ever, leases because they are times.  No request of a user is fair.  For settlement,
`Faultless` further assumes that calls stop failing and processes stop restarting at some
time; without it a poll might fail at every attempt.
For `request_answers` the handlers are fair, their 60-second timeouts included, and so is the
exit of a process with no calls left; the runs are not: an activity may be retried for ever.

### Where code and documents disagree

Each of these is a run that expects a violation of one property, stating what a document or
comment says; `PROJECT.json` quotes the passage.

| Run | What happens |
|---|---|
| `lost_deadline` | `ReserveOrder` takes effect, its result is lost; the retry returns the order with `Created = false`, so no expiry workflow is started |
| `unclaimed_sale` | an order is inserted while its canceled predecessor still holds the claim; the claim is refused, the workflow fails, the row stays `Created`; it can be paid and completed without a claim |
| `lost_version` | an update's persist result is lost, an order claims the ticket, the retry is refused: nobody projects the version and later updates wait for it with the mutex held |
| `open_update` | an update goes on and its caller is told 500, not 503: the Tickets server has no case for `ErrUnavailable` of an update (apps/tickets/internal/grpc/server.go:87), though the error asks for a retry with the same key (ticket.go:13) |

The same models show more, for which no run is kept:

* A creation whose run cannot be read is told 500 though the run may be open
  (creation/coordinator.go:79), so `OpenRunAnswers503` is false of creations too.  What holds of
  all commands is `OpenRunIsUndecided`, which allows the 500 to creations and updates.  A
  malformed ticket ID in an update also ends as 500.
* An empty `Idempotency-Key` is a key for creations, shared by all requests of the user that
  send one (apps/tickets/internal/ticket/service.go:105-112, creation/coordinator.go:39-41);
  tickets.integration-spec.ts:711-720 expects 400.
* A canceled order may keep its ticket.  A second `create-order` of the same buyer joins the
  order and claims the ticket after that order was canceled and released; it starts no expiry,
  so nobody is left to release the claim (workflow.go:52-57; SPEC.md:100-102).  After a lost
  result a workflow joins its own order with the same effect.  `CanceledOrderFreesTicket`
  excepts orders that a workflow has joined.
* An order may outlive its deadline.  If the timer fires while the database's `NOW()` is short of
  `expires_at` (postgres_repository.go:139 of Orders), there is nothing to cancel, which is no
  error, and the expiry workflow is over; the order stays `Created`, while SPEC.md:100-101 says
  that it changes to `Canceled`.  `AnsweredOrderMeetsDeadline` excepts an expiry that was over
  before the deadline.
* A `create-order` workflow may never end.  When a row was inserted by an attempt with a lost result and
  canceled since, and nothing else blocks the ticket, every retry violates the primary key
  (postgres_repository.go:103 of Orders).  No property says that it ends.
* `CreatedOrderHasDeadline` also fails without lost results: after a refused claim as in
  `unclaimed_sale`, and after an expiry that is over too early.
* With `EarlyEdits` an edit projected before the creation makes the creation fail on a
  projection conflict instead of completing (docs/ticket-creation.md:33-35);
  `CreationCompletes` makes the exception.
* A key whose version Orders has moved past, sent again after the update workflow continued as
  new, gets its old version from the ledger and is refused as a projection conflict
  (projection.go:44), though projection.go:17 calls retrying an applied version safe and
  SPEC.md:91-93 makes the ledger the record across runs.
* Within one run Temporal repeats an update's first answer to its key, whether a success, though
  a claim made since forbids even a prior successful key (SPEC.md:87-89), or a refusal,
  though the claim is gone.  `AnswerIsProjected` shows that such a success is still true.
* `StartPayment`'s "Replays after checkout started return the same AwaitingPayment snapshot"
  (postgres_repository.go:183-186 of Orders) is false of the price: it is read from the
  projection each time, and an edit persisted before the claim may be projected between two
  replays.  Payments keeps the first price it records (`RecordedPriceIsFinal`).  An order
  whose create workflow has not yet claimed the ticket can be found and paid by its buyer, and
  then its quote may be older than any number of edits; `QuoteIsCurrent` speaks of answered
  orders.
* The answer of a sign-out clears whatever cookie the browser has by then, also that of a
  sign-in answered in between (auth.controller.ts:69): the browser has lost a session that
  lives on, which `SignedOutSessionStaysAway`, about the session signed out, does not deny.  The
  same holds for two sign-ins, and for a sign-in whose expiry cannot be read
  (identity.service.ts:105): its session is made and nobody holds it.
* An account whose verification mail was not sent can neither be verified nor signed up again
  (auth.factory.ts:27-36, no route sends the mail again).
* A payment request that looks for a payment before it exists and reaches Orders after
  settlement is refused (`StartOrderPayment` with a payment present), though service.go:29-30
  wants the payment returned.
* An overdue `Created` order blocks, by intention of `findBlockingOrder` and a Go test;
  orders.integration-spec.ts:197 expects the opposite.

* A cookie keeps the expiry it was given at sign-in (auth.controller.ts:43), though checks of the
  session may renew it: the browser drops the cookie of a session that goes on.
  `CookieIsNotStale` is about the opposite.
* A command goes on with the user that the guard has read, though the session may have ended
  since; `AdmittedUserSignedInHere` says who that user was.

TLC finds each of the two exceptions of `reservation_progress` when it is taken out.
The passing runs exclude nothing that their modules can do but what their bounds above leave out;
the lagging clock is in all of them.  The violations `lost_deadline` and `unclaimed_sale` are
found without it.

## 4. Proofs

Each module of theorems extends the module it is about, and those about its parts.  Everything below holds for all values
of the constants that satisfy the named assumptions: any numbers of users, orders, keys,
workers, browsers and requests, and every setting of the switches.  One hypothesis is
stated in the two theorems that need it, and only there: `UpdatesPerRun > 1` (the code's is
100, update_workflow.go).

| Assumption | Says |
|---|---|
| `OutcomesAssumption` | outcomes are among `Succeeded` and `Failed` |
| `SwitchAssumption`, `LostAcksAssumption`, `EditsAssumption` | switches are Boolean |
| `TicketAssumption` | `Checkout` has the one ticket that `TicketUpdates` is about |
| `RunAssumption`, `KeysAssumption` | a run has at least one update; foreign keys are keys |
| `CommandsAssumption`, `StoppingAssumption`, `RequestsAssumption` | commands and services are those of the module; requests are numbered |
| `NullAssumption`, `WorkersAssumption`, `AbsenceAssumption`, `SessionsNullAssumption` | `NULL` is none of the values it stands beside |

### Reservation (`OrderReservationProofs`)

* `TypeCorrect`, `ReservationInvariant`: `OrdersSpec => []OrdersTypeOK`,
  `OrdersSpec => []ReservationInv`;
* `OneBlockingOrder`: `OrdersSpec => []AtMostOneBlocking`;
* `AnsweredOrderClaimed`: `OrdersSpec => []AcknowledgedOrderHoldsClaim`;
* `ClaimSafety`, `CheckoutSafety`: the two action properties;
* `Refinement`: `OrdersSpec => Sale!Spec`, the implementation of `TicketSale`.

The argument.  `AcknowledgedOrderHoldsClaim` is not inductive: a release could clear the claim
of an answered order unless releasing workflows concern canceled orders (`ReleaseInv`),
terminal statuses are final, a claim belongs to an existing order for that ticket
(`ClaimInv`), requests have a ticket and rows have a request for a ticket that is projected
(`RowsInv`), and `create-order` goes on with an order for the ticket it was asked for
(`JoinedInv`).  `ReservationInv` is the conjunction.  `NextReservation` proves one case per
action (`StepCases` lists them).  The action properties and the refinement follow from the
invariant by looking at who writes `claim` (`ClaimStep`), `status` (`StatusStep`) and the rows
(`RowStep`, `SaleStep`).

### Payments (`PaymentSettlementProofs`)

* `SettlementInvariant`: `PaymentsSpec => []SettlementInv`;
* `DatabasesAgree`: `PaymentsSpec => []PaymentAgreesWithOrder`;
* `SettlementNeverRefused`: `PaymentsSpec => []ResolutionIsAsAsked`;
* `OrdersUse`: `PaymentsSpec => OrdersSpec`, and from it `OrdersKeepsItsPromises`: what the
  theorems above say of Orders holds of Orders with Payments;
* `PaymentRefinement`: `PaymentsSpec => Paying!Spec`, the implementation of `OrderPayment`.

The argument.  Payment and order agree because an order in checkout is ended by nothing but a
resolution (`CheckoutLeft`, from `CheckoutSafety`'s lemmas) and every resolution under way is
about the outcome that Payments chose (`ResolutionInv`).  That needs an outcome to be chosen
for a recorded payment only and kept (`DecisionInv`), whatever configuration the worker
restarts with; that each worker's job is the payment's outcome, and one that is marking has an
order that ended by it (`JobsInv`), though its lease may have passed on; and that a payment
is recorded of an order in checkout (`EntryInv`).  A step of the
composition is then a step of `OrderReservation` (`OrdersPart`), since its `RequestResolution`
asks for an order past `Created`, which `DecisionInv` supplies.

### Ticket updates (`TicketUpdatesProofs`)

* `HistoryInvariant`, `UpdatesInvariant`: `UpdatesSpec => []HistoryInv`,
  `UpdatesSpec => []UpdatesInv`;
* `AnswersProjected`: `UpdatesSpec => []AnswerIsProjected`;
* `MissingVersionsKnown`: `UpdatesSpec => []MissingVersionIsKnown`, if `UpdatesPerRun > 1`;
* `HistoryRefinement`: `UpdatesSpec => History!Spec`, the implementation of `TicketHistory`.

The argument.  That the ledger is a history (`LedgerIsHistory`) needs only that a version is made
by a key that has none (`LedgerStep`).  That the projection is a point of it
(`ProjectionIsHistory`) needs also that a handler projects the version its own key made,
whatever it was replayed in, and that nothing is under way before the ticket exists
(`HandlersInv`); `HistoryInv` is the conjunction.  The projection then only grows
(`ProjectionGrows`), so what was answered stays true.  For the refinement, the content of a
version is the key that the ledger gives it, the only one (`ContentIsAuthor`), and keeps being
(`ContentOfLater`); so a step that makes a version appends (`EditStep`), and one that projects
shows the content at its place (`ShowStep`).

A missing version is harder.  That no version is lost but by a refused retry is not inductive:
the mutex must keep a second handler out while one has a version in hand (`MutexInv`), nothing
may be refused before the first projection (`FirstInv`), and every version that Orders lacks,
not only the next, must be such a handler's or a refused one's (`NextInv`).  And a refused
update is remembered as refused only by the run that refused it.  A run ends after
`UpdatesPerRun` successes, so it must be excluded that it ends behind the dropped version:
success needs a version that Orders gets, of which there are no new ones, so it could only be
repetitions of old keys, and `RunInv` shows that those Orders still accepts are too few.  In a run
of one update a single repetition would do, and the property is false there; hence the
hypothesis.  `FlightInv` is the conjunction.

### Checkout (`CheckoutProofs`)

* `CheckoutInvariant`: `Spec => []CheckoutInv`;
* `PaymentsAreUsedAsAssumed`, `TicketsUse`: `Spec => PaymentsSpec`, `Spec => UpdatesSpec`, and
  from them `ServicesKeepTheirPromises`: the safety properties and the three abstract
  specifications of the parts hold in the composition;
* `PricesAreFinal`: `Spec => RecordedPriceIsFinal`;
* `OrdersFreezeTickets`: `Spec => AnsweredOrderFreezesTicket`;
* `QuotesAreCurrent`: `Spec => QuoteIsCurrent`, if `UpdatesPerRun > 1`.

The argument.  Each side assumes something that only the other's invariant gives it, so both
are proved at once (`StepCheckout`).  A projection by Tickets is, to Orders,
`EnsureTicketProjection` if it is the first and nothing otherwise (`PaymentsPart`): it never
goes back to none, since `ProjectionGrows` while `HistoryInv` holds.  A claim or release by
Orders is, to Tickets, `Reserve` or `Release` (`UpdatesPart`): after the step the claim belongs
to an order for the ticket (`ClaimInv`) and so to a ticket with a projection (`RowsInv`),
which such a step has not made itself.  Both sides see what there is (`ViewsInv`).

Then an answered order holds the claim, Tickets sees it, and every action that makes a version
is refused while it does: `FrozenStep`.  The price is there before the payment (`PricesInv`)
and an insertion keeps an old one.  A version between the quoted and the ticket's own is one
that Orders lacks, so `NextInv` tells its handler (`QuoteStep`).

### Request path (`ClientRequestsProofs`)

* `RequestsInvariant`: `Spec => []RequestsInv`;
* `OpenRunsAreUndecided`, `KeysNameOneCreation`, `AnswersTellOutcome`, `RefusalsAloneEndRuns`,
  `WaitersHaveWorkers`: the five safety properties of `request_answers`.

The argument.  A handler waits only for a run of its own operation (`HandlersInv`, `RunsInv`),
and the run that Temporal has under an ID is of that operation and, for a creation, stays
(`CurrentInv`): so two requests with one key have joined one run.  A payment found was persisted by a run
that had come to it (`PaidInv`).  `AnswersInv` says of every
answer where its status comes from: a run that completed, a run that failed with the status
that the tables make of its failure, a query, or a step on the way that decides nothing; of a
run that is open this leaves 503 and, of creations and updates, 500.
Each kind of step has a lemma (`...Keeps`).  What remains are the tables.
`RefusalKeepsMeaning` follows every error of a repository through activity, workflow,
coordinator, server and gateway and shows that it arrives with the status that is documented
for it; `ErrorsFound` and `ActivityTables` show that none of the retried errors is among those
that end a run.  `WaitersHaveWorkers` is inductive with the types alone: a handler is accepted
by a process that is up (`Serving`), and `Exit` waits for those there are.

### Sessions (`SessionsProofs`)

* `SessionsInvariant`: `Spec => []SessionsInv`;
* `AdmissionSafety`: `Spec => []AdmittedUserSignedInHere`;
* `SignOutIsFinal`: `Spec => []SignedOutSessionStaysAway`;
* `CookiesDieWithSessions`, `NotAuthenticatedIsTrue`, `SignInsTellSession`: the action properties
  `CookieIsNotStale`, `UnauthenticatedIsTrue` and `SignInTellsSession`.

The argument.  `SignedOutSessionStaysAway` is not inductive: the cookie of a signed-out session
might be set again by its own sign-in, still under way, or stay with another browser.  The
first is excluded because a session whose sign-in has not set its cookie is named by nobody
else (`FreshInv`), the second because only the browser that signed in ever names a session,
in its cookie (`CookieInv`) or its requests (`HeldInv`).  `RowsInv` makes each session one
verified user's.  `AnswerInv` and `AdvanceInv` treat the steps that set no cookie and make no
session; each other action has a lemma.  A stale cookie could only come from a session deleted
under it (`RowStep` lists who ends sessions) by a request of another browser, which `HeldInv`
excludes.  The other two action properties are about who gives which status: `HandleTells`
goes through the tables of errors, `AnswerStep` through the actions.

### Only model-checked

Liveness, since fairness and `ENABLED` are outside the prover's reach:
`AnsweredOrderMeetsDeadline`, `CanceledOrderFreesTicket`,
`UpdateIsAnswered`, `CreationCompletes`, `CheckoutEnds`, `PaymentSettles`,
`RequestIsAnswered` and `ShutdownEnds`.  The abstract specifications that are implemented are
safety specifications.  What the violated properties of section 3 say is false, and TLC shows it.

## 5. Not modelled

* What better-auth does inside its calls: password checks, tokens, its tables.  `Sessions`
  allows every outcome that Identity handles.
* The rows that queries return, and the content of messages.
* A process that fails to start, and a gRPC server that stops while its process lives
  (`main.go` logs it and waits for a signal): to its clients both are services that take no
  calls, as a draining one is.  The shutdown of the gateway and of Identity is NestJS's own.
* `PostgresRepository.Update` of Tickets: only tests call it.
* Retention of workflow histories (seven days), after which keys of creations are forgotten.
* Build, migrations, compose files, load tests: no behaviour of their own.

## 6. Plan

1. Done: the models, `OrderReservation` with `TicketSale`, `TicketUpdates` with `TicketHistory`,
   `PaymentSettlement` with `OrderPayment`, `Checkout`, `ClientRequests` and `Sessions`.
2. Done: proofs of every safety property that a run checks, and of all three refinements.
3. Next: what the proofs do not say yet.
   * `OrderPayment` within `Checkout`: the price as a part of the abstract payment.
   * `TicketSale` and `TicketHistory` joined in one abstract specification of a sale at a
     price, with `Checkout` shown to implement it.
   * The safety halves of the liveness properties: that a workflow which is not finished
     always has a step that changes something, as invariants instead of `ENABLED`.
