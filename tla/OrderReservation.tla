--------------------------- MODULE OrderReservation ---------------------------
(***************************************************************************)
(* The reservation of tickets: the rows of the Orders database, the claim  *)
(* that the Tickets database keeps on each ticket, and the four Temporal   *)
(* workflows of the Orders service that change them                        *)
(* (apps/orders/internal/reservation/workflow.go):                         *)
(*                                                                         *)
(*   create-order/<o>         insert or find the order, claim the ticket,  *)
(*                            start the expiry child                       *)
(*   expire-order/<o>         sleep to the deadline, cancel, release       *)
(*   cancel-order/<o>         cancel, release                              *)
(*   resolve-payment/<o>/<oc> complete, or cancel and release              *)
(*                                                                         *)
(* A workflow step is the execution of one activity: a database            *)
(* transaction or a call of the Tickets service.  Temporal retries an      *)
(* activity until an attempt's result comes back, so an activity may take  *)
(* effect several times before its workflow moves on; such an attempt is   *)
(* the activity with acked = FALSE.                                        *)
(***************************************************************************)
EXTENDS Activities

CONSTANTS
  Tickets,         \* ticket IDs
  Users,           \* user IDs
  Orders,          \* order IDs: ReserveTicket draws a fresh one per request
  Outcomes,        \* the outcomes that Payments' processor is configured to give
  DbClockLags,     \* may the Orders database's clock be behind Temporal's?
  RepeatRequests   \* may a buyer request a ticket again?

ASSUME NullAssumption == NULL \notin Tickets \cup Users \cup Orders \cup Outcomes
ASSUME OutcomesAssumption == Outcomes \subseteq {"Succeeded", "Failed"}
ASSUME SwitchAssumption == {DbClockLags, RepeatRequests} \subseteq BOOLEAN

Statuses == {"None", "Created", "AwaitingPayment", "Complete", "Canceled"}
Blocking == {"Created", "AwaitingPayment", "Complete"}

VARIABLES
  projected,  \* tickets with a row in the Orders database
  \* The rows of the Orders database:
  status,     \* order -> its status, "None" while there is no row
  buyer,      \* order -> the user it is for
  wanted,     \* order -> the ticket it is for
  overdue,    \* order -> is expires_at <= NOW() in the Orders database?
  \* The rows of the Tickets database:
  claim,      \* ticket -> reserved_by_order_id
  \* The workflows:
  create,     \* order -> step of create-order/<o>
  joined,     \* order -> the order that create-order/<o>'s ReserveOrder returned
  fresh,      \* order -> the Created flag that it returned
  expire,     \* order -> step of expire-order/<o>
  cancel,     \* order -> step of cancel-order/<o>
  canceler,   \* order -> the user that cancel-order/<o> runs for, NULL when idle
  resolve     \* <<order, outcome>> -> step of resolve-payment/<o>/<oc>

rows  == <<status, buyer, wanted, overdue>>
flows == <<create, joined, fresh, expire, cancel, canceler, resolve>>
ordersVars == <<projected, rows, claim, flows>>

OrdersTypeOK ==
  /\ projected \subseteq Tickets
  /\ status \in [Orders -> Statuses]
  /\ buyer \in [Orders -> Users \cup {NULL}]
  /\ wanted \in [Orders -> Tickets \cup {NULL}]
  /\ overdue \in [Orders -> BOOLEAN]
  /\ claim \in [Tickets -> Orders \cup {NULL}]
  /\ create \in [Orders -> {"idle", "reserve", "claim", "startExpiry", "done", "failed"}]
  /\ joined \in [Orders -> Orders \cup {NULL}]
  /\ fresh \in [Orders -> BOOLEAN]
  /\ expire \in [Orders -> {"none", "sleeping", "expiring", "releasing", "done"}]
  /\ cancel \in [Orders -> {"idle", "canceling", "releasing"}]
  /\ canceler \in [Orders -> Users \cup {NULL}]
  /\ resolve \in [Orders \X Outcomes -> {"idle", "resolving", "releasing"}]

OrdersInit ==
  /\ projected = {}
  /\ status = [o \in Orders |-> "None"]
  /\ buyer = [o \in Orders |-> NULL]
  /\ wanted = [o \in Orders |-> NULL]
  /\ overdue = [o \in Orders |-> FALSE]
  /\ claim = [t \in Tickets |-> NULL]
  /\ create = [o \in Orders |-> "idle"]
  /\ joined = [o \in Orders |-> NULL]
  /\ fresh = [o \in Orders |-> FALSE]
  /\ expire = [o \in Orders |-> "none"]
  /\ cancel = [o \in Orders |-> "idle"]
  /\ canceler = [o \in Orders |-> NULL]
  /\ resolve = [r \in Orders \X Outcomes |-> "idle"]

(***************************************************************************)
(* The Tickets service creates a ticket and its creation workflow projects *)
(* it to Orders.  (TicketUpdates models this in detail.)                   *)
(***************************************************************************)
EnsureTicketProjection(t) ==
  /\ t \notin projected
  /\ projected' = projected \cup {t}
  /\ UNCHANGED <<rows, claim, flows>>

(***************************************************************************)
(* create-order/<o>                                                        *)
(***************************************************************************)
\* POST /orders: the coordinator draws a fresh order ID and starts the workflow.
RequestOrder(o, u, t) ==
  /\ create[o] = "idle"
  /\ RepeatRequests \/ \A p \in Orders : <<buyer[p], wanted[p]>> # <<u, t>>
  /\ create' = [create EXCEPT ![o] = "reserve"]
  /\ buyer' = [buyer EXCEPT ![o] = u]
  /\ wanted' = [wanted EXCEPT ![o] = t]
  /\ UNCHANGED <<projected, status, overdue, claim, joined, fresh, expire, cancel,
                 canceler, resolve>>

\* Mutant: an overdue order no longer blocks.
BlockingOrdersUnexpired(t) ==
  {o \in Orders : wanted[o] = t /\ status[o] \in Blocking /\ ~(status[o] = "Created" /\ overdue[o])}

\* The orders findBlockingOrder may return for ticket t: a Complete one first.
BlockingOrders(t) ==
  LET live     == {o \in Orders : wanted[o] = t /\ status[o] \in Blocking}
      complete == {o \in live : status[o] = "Complete"}
  IN  IF complete # {} THEN complete ELSE live

\* The ticket has no projection, or its blocking order is another user's or Complete.
RefuseOrder(o) ==
  /\ \/ wanted[o] \notin projected
     \/ \E b \in BlockingOrders(wanted[o]) : buyer[b] # buyer[o] \/ status[b] = "Complete"
  /\ create' = [create EXCEPT ![o] = "failed"]
  /\ UNCHANGED <<status, joined, fresh>>

\* The buyer already has an open order for the ticket: it is returned, with Created false.
JoinOrder(o) ==
  /\ wanted[o] \in projected
  /\ \E b \in BlockingOrders(wanted[o]) :
       /\ buyer[b] = buyer[o] /\ status[b] # "Complete"
       /\ joined' = [joined EXCEPT ![o] = b]
  /\ fresh' = [fresh EXCEPT ![o] = FALSE]
  /\ create' = [create EXCEPT ![o] = "claim"]
  /\ UNCHANGED status

\* Mutant: the projection is not looked at.
InsertUnprojectedOrder(o, acked) ==
  /\ BlockingOrders(wanted[o]) = {}
  /\ status[o] = "None"
  /\ status' = [status EXCEPT ![o] = "Created"]
  /\ acked
  /\ create' = [create EXCEPT ![o] = "claim"]
  /\ joined' = [joined EXCEPT ![o] = o]
  /\ fresh' = [fresh EXCEPT ![o] = TRUE]

\* Nothing blocks the ticket.  When the row o is already there (inserted by an
\* earlier attempt, canceled since) the INSERT violates the primary key and the
\* activity is retried without effect: no step.
InsertOrder(o, acked) ==
  /\ wanted[o] \in projected
  /\ BlockingOrders(wanted[o]) = {}
  /\ status[o] = "None"
  /\ status' = [status EXCEPT ![o] = "Created"]
  /\ \/ /\ acked
        /\ create' = [create EXCEPT ![o] = "claim"]
        /\ joined' = [joined EXCEPT ![o] = o]
        /\ fresh' = [fresh EXCEPT ![o] = TRUE]
     \/ ~acked /\ UNCHANGED <<create, joined, fresh>>

ReserveOrder(o, acked) ==
  /\ create[o] = "reserve"
  /\ \/ InsertOrder(o, acked)
     \/ acked /\ (RefuseOrder(o) \/ JoinOrder(o))
  /\ UNCHANGED <<projected, buyer, wanted, overdue, claim, expire, cancel, canceler, resolve>>

\* Mutant: the claim of another order is overwritten.
ReserveForOrderTakingOver(t, o) == claim' = [claim EXCEPT ![t] = o]

\* Tickets' ReserveForOrder: claim the ticket when it is free or already this order's.
ReserveForOrder(t, o) ==
  /\ claim[t] \in {NULL, o}
  /\ claim' = [claim EXCEPT ![t] = o]

\* A refused claim fails the workflow; the order's row stays as it is.
ClaimTicket(o, acked) ==
  /\ create[o] = "claim"
  /\ \/ /\ ReserveForOrder(wanted[o], joined[o])
        /\ create' = IF ~acked THEN create
                     ELSE [create EXCEPT ![o] = IF fresh[o] THEN "startExpiry" ELSE "done"]
     \/ /\ acked
        /\ claim[wanted[o]] \notin {NULL, joined[o]}
        /\ create' = [create EXCEPT ![o] = "failed"]
        /\ UNCHANGED claim
  /\ UNCHANGED <<projected, rows, joined, fresh, expire, cancel, canceler, resolve>>

\* The workflow returns when its abandoned child expire-order/<o> has started.
StartExpiry(o) ==
  /\ create[o] = "startExpiry"
  /\ expire' = [expire EXCEPT ![joined[o]] = "sleeping"]
  /\ create' = [create EXCEPT ![o] = "done"]
  /\ UNCHANGED <<projected, rows, claim, joined, fresh, cancel, canceler, resolve>>

(***************************************************************************)
(* The release of a claim, shared by the three workflows that cancel.      *)
(***************************************************************************)
ReleaseTicketOfAnyOrder(o) == claim' = [claim EXCEPT ![wanted[o]] = NULL]  \* Mutant

ReleaseTicket(o) ==
  claim' = [t \in Tickets |-> IF t = wanted[o] /\ claim[t] = o THEN NULL ELSE claim[t]]

(***************************************************************************)
(* expire-order/<o>                                                        *)
(***************************************************************************)
\* expires_at is reached on the Orders database's clock.
DeadlinePasses(o) ==
  /\ status[o] # "None"
  /\ ~overdue[o]
  /\ overdue' = [overdue EXCEPT ![o] = TRUE]
  /\ UNCHANGED <<projected, status, buyer, wanted, claim, flows>>

\* The workflow's timer fires at expires_at on Temporal's clock.
TimerFires(o) ==
  /\ expire[o] = "sleeping"
  /\ overdue[o] \/ DbClockLags
  /\ expire' = [expire EXCEPT ![o] = "expiring"]
  /\ UNCHANGED <<projected, rows, claim, create, joined, fresh, cancel, canceler, resolve>>

\* ExpireCreatedOrder cancels an overdue Created order; a canceled one is to be released.
ExpirableEarly(o) == status[o] = "Created" /\ ~overdue[o]  \* Mutant
Expirable(o) == status[o] = "Created" /\ overdue[o]
ShouldReleaseOwnCancellation(o) == Expirable(o)  \* Mutant
ShouldRelease(o) == Expirable(o) \/ status[o] = "Canceled"

ExpireOrder(o, acked) ==
  /\ expire[o] = "expiring"
  /\ status' = IF Expirable(o) THEN [status EXCEPT ![o] = "Canceled"] ELSE status
  /\ expire' = IF ~acked THEN expire
               ELSE [expire EXCEPT ![o] = IF ShouldRelease(o) THEN "releasing" ELSE "done"]
  /\ UNCHANGED <<projected, buyer, wanted, overdue, claim, create, joined, fresh, cancel,
                 canceler, resolve>>

ReleaseExpired(o, acked) ==
  /\ expire[o] = "releasing"
  /\ ReleaseTicket(o)
  /\ expire' = IF acked THEN [expire EXCEPT ![o] = "done"] ELSE expire
  /\ UNCHANGED <<projected, rows, create, joined, fresh, cancel, canceler, resolve>>

(***************************************************************************)
(* cancel-order/<o>.  The workflow ID carries no user: a request that      *)
(* finds a run open waits for that run's result, which is no step.         *)
(***************************************************************************)
RequestCancel(o, u) ==
  /\ cancel[o] = "idle"
  /\ status[o] # "None"
  /\ cancel' = [cancel EXCEPT ![o] = "canceling"]
  /\ canceler' = [canceler EXCEPT ![o] = u]
  /\ UNCHANGED <<projected, rows, claim, create, joined, fresh, expire, resolve>>

\* CancelByIDAndUser: only the buyer's Created order is canceled; when it was
\* canceled before, the workflow goes on to the release all the same.
CancelableInCheckout(o) ==  \* Mutant
  canceler[o] = buyer[o] /\ status[o] \in {"Created", "AwaitingPayment", "Canceled"}
Cancelable(o) == canceler[o] = buyer[o] /\ status[o] \in {"Created", "Canceled"}

CancelOrder(o, acked) ==
  /\ cancel[o] = "canceling"
  /\ status' = IF Cancelable(o) THEN [status EXCEPT ![o] = "Canceled"] ELSE status
  /\ cancel' = IF ~acked THEN cancel
               ELSE [cancel EXCEPT ![o] = IF Cancelable(o) THEN "releasing" ELSE "idle"]
  /\ canceler' = IF acked /\ ~Cancelable(o) THEN [canceler EXCEPT ![o] = NULL] ELSE canceler
  /\ UNCHANGED <<projected, buyer, wanted, overdue, claim, create, joined, fresh, expire,
                 resolve>>

ReleaseCanceled(o, acked) ==
  /\ cancel[o] = "releasing"
  /\ ReleaseTicket(o)
  /\ cancel' = IF acked THEN [cancel EXCEPT ![o] = "idle"] ELSE cancel
  /\ canceler' = IF acked THEN [canceler EXCEPT ![o] = NULL] ELSE canceler
  /\ UNCHANGED <<projected, rows, create, joined, fresh, expire, resolve>>

(***************************************************************************)
(* Payments' calls of Orders.                                              *)
(***************************************************************************)
\* StartPayment: the buyer's Created order enters checkout.  Neither its deadline
\* nor the claim on its ticket is looked at; a repeated call changes nothing.
StartPayment(o, u) ==
  /\ status[o] = "Created"
  /\ buyer[o] = u
  /\ status' = [status EXCEPT ![o] = "AwaitingPayment"]
  /\ UNCHANGED <<projected, buyer, wanted, overdue, claim, flows>>

\* ResolvePayment starts resolve-payment/<o>/<oc>, or joins the run that is open.
\* Payments asks for it only once StartPayment has succeeded.
RequestResolution(o, oc) ==
  /\ resolve[<<o, oc>>] = "idle"
  /\ status[o] \notin {"None", "Created"}
  /\ resolve' = [resolve EXCEPT ![<<o, oc>>] = "resolving"]
  /\ UNCHANGED <<projected, rows, claim, create, joined, fresh, expire, cancel, canceler>>

Resolved(oc) == IF oc = "Succeeded" THEN "Complete" ELSE "Canceled"

\* The first outcome settles an AwaitingPayment order; the same one is accepted
\* again; any other resolution fails its workflow.
AcceptedAlways(o, oc) == status[o] # "None"  \* Mutant
Accepted(o, oc) == status[o] \in {"AwaitingPayment", Resolved(oc)}

ResolvePayment(o, oc, acked) ==
  /\ resolve[<<o, oc>>] = "resolving"
  /\ status' = IF Accepted(o, oc) THEN [status EXCEPT ![o] = Resolved(oc)] ELSE status
  /\ resolve' = IF ~acked THEN resolve
                ELSE [resolve EXCEPT ![<<o, oc>>] =
                        IF Accepted(o, oc) /\ oc = "Failed" THEN "releasing" ELSE "idle"]
  /\ UNCHANGED <<projected, buyer, wanted, overdue, claim, create, joined, fresh, expire,
                 cancel, canceler>>

ReleaseFailed(o, oc, acked) ==
  /\ resolve[<<o, oc>>] = "releasing"
  /\ ReleaseTicket(o)
  /\ resolve' = IF acked THEN [resolve EXCEPT ![<<o, oc>>] = "idle"] ELSE resolve
  /\ UNCHANGED <<projected, rows, create, joined, fresh, expire, cancel, canceler>>

-------------------------------------------------------------------------------
\* Requests and time: nothing obliges a user to make a request.
Environment ==
  \/ \E t \in Tickets : EnsureTicketProjection(t)
  \/ \E o \in Orders, u \in Users, t \in Tickets : RequestOrder(o, u, t)
  \/ \E o \in Orders, u \in Users : RequestCancel(o, u) \/ StartPayment(o, u)
  \/ \E o \in Orders, oc \in Outcomes : RequestResolution(o, oc)

\* One attempt of the next activity of one of order o's workflows.
Activity(o, acked) ==
  \/ ReserveOrder(o, acked)   \/ ClaimTicket(o, acked)
  \/ ExpireOrder(o, acked)    \/ ReleaseExpired(o, acked)
  \/ CancelOrder(o, acked)    \/ ReleaseCanceled(o, acked)
  \/ \E oc \in Outcomes : ResolvePayment(o, oc, acked) \/ ReleaseFailed(o, oc, acked)

OrdersNext ==
  \/ Environment
  \/ \E o \in Orders : StartExpiry(o) \/ DeadlinePasses(o) \/ TimerFires(o)
  \/ \E o \in Orders, acked \in Attempts : Activity(o, acked)

OrdersSpec == OrdersInit /\ [][OrdersNext]_ordersVars

\* Time passes and Temporal runs every open workflow: each activity is retried
\* until one attempt's result comes back.  A workflow has one step at a time.
CreateStep(o) == ReserveOrder(o, TRUE) \/ ClaimTicket(o, TRUE) \/ StartExpiry(o)
ExpireStep(o) == TimerFires(o) \/ ExpireOrder(o, TRUE) \/ ReleaseExpired(o, TRUE)
CancelStep(o) == CancelOrder(o, TRUE) \/ ReleaseCanceled(o, TRUE)
ResolveStep(o, oc) == ResolvePayment(o, oc, TRUE) \/ ReleaseFailed(o, oc, TRUE)

OrdersFairness ==
  \A o \in Orders :
    /\ WF_ordersVars(DeadlinePasses(o))
    /\ WF_ordersVars(CreateStep(o))
    /\ WF_ordersVars(ExpireStep(o))
    /\ WF_ordersVars(CancelStep(o))
    /\ \A oc \in Outcomes : WF_ordersVars(ResolveStep(o, oc))

FairOrdersSpec == OrdersSpec /\ OrdersFairness

-------------------------------------------------------------------------------
(***************************************************************************)
(* Properties.                                                             *)
(***************************************************************************)
\* A ticket has at most one open or completed order, whoever asks for it and
\* however ReserveTicket's transactions, cancellations and retries interleave.
AtMostOneBlocking ==
  \A o, p \in Orders :
    wanted[o] = wanted[p] /\ {status[o], status[p]} \subseteq Blocking => o = p

\* CreateOrderWorkflow answers only when the ticket can no longer be edited: the
\* order it returned keeps the claim from then on, until the order is Canceled.
AcknowledgedOrderHoldsClaim ==
  \A o \in Orders :
    create[o] \in {"startExpiry", "done"} /\ status[joined[o]] # "Canceled"
      => claim[wanted[o]] = joined[o]

\* The inductive invariant behind AtMostOneBlocking and AcknowledgedOrderHoldsClaim:
\* a row and a claim belong to a request that was made, for a ticket that Orders has ...
RowsInv ==
  \A o \in Orders :
    /\ create[o] # "idle" => wanted[o] \in Tickets
    /\ status[o] # "None" => create[o] # "idle" /\ wanted[o] \in projected
ClaimInv ==
  \A t \in Tickets : claim[t] \in Orders => status[claim[t]] # "None" /\ wanted[claim[t]] = t
\* ... create-order goes on with an existing order for the ticket it was asked for ...
JoinedInv ==
  \A o \in Orders : create[o] \in {"claim", "startExpiry", "done"} =>
    joined[o] \in Orders /\ status[joined[o]] # "None" /\ wanted[joined[o]] = wanted[o]
\* ... and a workflow releases the claim of a Canceled order only.
ReleaseInv ==
  \A o \in Orders :
    /\ expire[o] = "releasing" => status[o] = "Canceled"
    /\ cancel[o] = "releasing" => status[o] = "Canceled"
    /\ \A oc \in Outcomes : resolve[<<o, oc>>] = "releasing" => status[o] = "Canceled"
ReservationInv ==
  /\ OrdersTypeOK
  /\ RowsInv
  /\ ClaimInv
  /\ JoinedInv
  /\ ReleaseInv
  /\ AtMostOneBlocking
  /\ AcknowledgedOrderHoldsClaim

\* A claim leaves an order only by the order's own release, after the order was
\* Canceled: ReserveForOrder never takes it over, a late or repeated
\* ReleaseOrderReservation never clears a newer claim.
ClaimLeavesOnlyCanceledOrder ==
  [][\A t \in Tickets : claim[t] \in Orders /\ claim'[t] # claim[t]
       => status[claim[t]] = "Canceled" /\ claim'[t] = NULL]_ordersVars

\* From checkout an order moves only by a resolution that Payments asked for:
\* neither its deadline nor its buyer cancels it while it is being paid.
CheckoutEndsByResolution ==
  [][\A o \in Orders : status[o] = "AwaitingPayment" /\ status'[o] # status[o]
       => \E oc \in Outcomes :
              resolve[<<o, oc>>] = "resolving" /\ status'[o] = Resolved(oc)]_ordersVars

\* The Orders database implements the sale of tickets.
Rows(statuses) == {<<wanted[o], o>> : o \in {p \in Orders : status[p] \in statuses}}
Sale == INSTANCE TicketSale WITH
          held    <- Rows({"Created", "AwaitingPayment"}),
          sold    <- Rows({"Complete"}),
          dropped <- Rows({"Canceled"})
ImplementsTicketSale == Sale!Spec

\* Every order that was answered as created leaves Created by itself, whatever the user
\* does, and though results get lost: the deadline is enforced, unless Temporal's clock
\* is so far ahead that the expiry is over before the deadline passes in the database.
AnsweredOrderMeetsDeadline ==
  \A o \in Orders :
    (create[o] = "done" /\ fresh[o] /\ expire[o] # "done")
      ~> (status[o] # "Created" \/ (expire[o] = "done" /\ ~overdue[o]))

\* A ticket claimed for an order that was Canceled becomes free of it, whoever canceled it
\* and though results get lost, unless a create-order workflow has joined the order: that
\* one may claim the ticket when the order is canceled and released, and starts no expiry.
CanceledOrderFreesTicket ==
  \A o \in Orders, t \in Tickets :
    (claim[t] = o /\ status[o] = "Canceled")
      ~> (claim[t] # o \/ \E p \in Orders : joined[p] = o /\ ~fresh[p])

(***************************************************************************)
(* Statements of the repository's documents and tests that the code does   *)
(* not live up to; each is checked by a run of its own.                    *)
(***************************************************************************)
\* "A child workflow tracks the 15-minute Created deadline": a Created order
\* whose create-order workflow is over has an expire-order workflow under way.
CreatedOrderHasDeadline ==
  \A o \in Orders :
    status[o] = "Created" /\ create[o] \in {"done", "failed"}
      => expire[o] \in {"sleeping", "expiring"}

\* "Complete orders retain their claim": a Complete order whose create-order workflow
\* is over holds the claim on its ticket.
CompleteOrderHoldsClaim ==
  \A o \in Orders :
    status[o] = "Complete" /\ create[o] \in {"done", "failed"} => claim[wanted[o]] = o
===============================================================================
