--------------------------- MODULE PaymentSettlement ---------------------------
(***************************************************************************)
(* The Payments service on top of the Orders service: the payments of its  *)
(* database, the Temporal workflow that creates them, and the workers that *)
(* settle them (apps/payments/internal):                                   *)
(*                                                                         *)
(*   create-payment/<o>/<user>  StartPayment at Orders, then persist       *)
(*   settlement worker          lease a pending payment with the mock      *)
(*                              outcome, have Orders resolve the order,    *)
(*                              record the result                          *)
(*                                                                         *)
(* Orders is OrderReservation: what its Environment did there on Payments' *)
(* behalf (StartPayment, RequestResolution) is done here by the service.   *)
(* Only an order's buyer gets past StartPayment and FindByOrderAndUser, so *)
(* payments are requested by buyers, and one workflow per order is enough. *)
(* Payments' copy of the order row is written in the transactions that     *)
(* write its payment and always has the status that goes with it.          *)
(***************************************************************************)
EXTENDS OrderReservation

CONSTANT Workers  \* instances of the settlement worker, one per service process

ASSUME WorkersAssumption == NULL \notin Workers

VARIABLES
  \* The Payments database:
  payment,    \* order -> status of its payment, "None" while there is none
  outcome,    \* order -> mock_outcome, NULL until it is first leased
  leased,     \* order -> is settlement_lease_expires_at later than NOW()?
  \* The service:
  checked,    \* order -> has a CreatePayment call seen no payment and gone on?
  checkout,   \* order -> step of create-payment
  settle,     \* worker -> step of settleOne
  job,        \* worker -> the <<order, outcome>> it is settling
  configured  \* worker -> its PAYMENT_PROCESSOR_OUTCOME

payments == <<payment, outcome, leased>>
workers == <<settle, job, configured>>
paymentsVars == <<ordersVars, payments, checked, checkout, workers>>

Jobs == Orders \X Outcomes
Idle == <<NULL, NULL>>

PaymentsTypeOK ==
  /\ OrdersTypeOK
  /\ payment \in [Orders -> {"None", "Pending"} \cup Outcomes]
  /\ outcome \in [Orders -> Outcomes \cup {NULL}]
  /\ leased \in [Orders -> BOOLEAN]
  /\ checked \in [Orders -> BOOLEAN]
  /\ checkout \in [Orders -> {"idle", "start", "persist"}]
  /\ settle \in [Workers -> {"idle", "calling", "waiting", "marking"}]
  /\ job \in [Workers -> Jobs \cup {Idle}]
  /\ configured \in [Workers -> Outcomes]

PaymentsInit ==
  /\ OrdersInit
  /\ payment = [o \in Orders |-> "None"]
  /\ outcome = [o \in Orders |-> NULL]
  /\ leased = [o \in Orders |-> FALSE]
  /\ checked = [o \in Orders |-> FALSE]
  /\ checkout = [o \in Orders |-> "idle"]
  /\ settle = [w \in Workers |-> "idle"]
  /\ job = [w \in Workers |-> Idle]
  /\ configured \in [Workers -> Outcomes]

(***************************************************************************)
(* create-payment/<o>/<user>                                               *)
(***************************************************************************)
\* POST /payments: CreatePayment looks for a payment first (and answers with it: no
\* step) and then goes on to the coordinator.
CreatePayment(o) ==
  /\ payment[o] = "None"
  /\ status[o] # "None"
  /\ ~checked[o]
  /\ checked' = [checked EXCEPT ![o] = TRUE]
  /\ UNCHANGED <<ordersVars, payments, checkout, workers>>

\* Mutant: the payment is persisted before Orders is asked.
StartCheckoutPersisting(o) ==
  /\ checked[o]
  /\ checkout[o] = "idle"
  /\ checkout' = [checkout EXCEPT ![o] = "persist"]
  /\ checked' = [checked EXCEPT ![o] = FALSE]
  /\ UNCHANGED <<ordersVars, payments, workers>>

\* Workflow IDs are reused once a run has closed.  A call that finds a run open
\* waits for that run's result.
StartCheckout(o) ==
  /\ checked[o]
  /\ checkout[o] = "idle"
  /\ checkout' = [checkout EXCEPT ![o] = "start"]
  /\ checked' = [checked EXCEPT ![o] = FALSE]
  /\ UNCHANGED <<ordersVars, payments, workers>>

\* Orders' StartPayment succeeds on a Created order and again on an AwaitingPayment
\* one; it refuses any other, which ends the run.
StartOrderPayment(o, acked) ==
  /\ checkout[o] = "start"
  /\ \/ /\ StartPayment(o, buyer[o])
        /\ checkout' = IF acked THEN [checkout EXCEPT ![o] = "persist"] ELSE checkout
     \/ /\ status[o] = "AwaitingPayment" /\ acked
        /\ checkout' = [checkout EXCEPT ![o] = "persist"]
        /\ UNCHANGED ordersVars
     \/ /\ status[o] \in {"Complete", "Canceled"} /\ acked
        /\ checkout' = [checkout EXCEPT ![o] = "idle"]
        /\ UNCHANGED ordersVars
  /\ UNCHANGED <<payments, checked, workers>>

\* Create: at most one payment per order; a replay finds it and changes nothing.
PersistPayment(o, acked) ==
  /\ checkout[o] = "persist"
  /\ payment' = IF payment[o] = "None" THEN [payment EXCEPT ![o] = "Pending"] ELSE payment
  /\ checkout' = IF acked THEN [checkout EXCEPT ![o] = "idle"] ELSE checkout
  /\ UNCHANGED <<ordersVars, outcome, leased, checked, workers>>

(***************************************************************************)
(* The settlement worker                                                   *)
(***************************************************************************)
ClaimableWhileUnchosen(o) == payment[o] = "Pending" /\ outcome[o] = NULL  \* Mutant
Claimable(o) == payment[o] = "Pending" /\ ~leased[o]

ChosenOutcomeAnew(w, o) == configured[w]  \* Mutant: no COALESCE
ChosenOutcomeUnset(w, o) == outcome[o]     \* Mutant: nothing to COALESCE with
ChosenOutcome(w, o) == IF outcome[o] = NULL THEN configured[w] ELSE outcome[o]

\* Which claimable payment has the smallest (random) ID is left open.
ClaimNextPending(w, o) ==
  /\ settle[w] = "idle"
  /\ Claimable(o)
  /\ outcome' = [outcome EXCEPT ![o] = ChosenOutcome(w, o)]
  /\ leased' = [leased EXCEPT ![o] = TRUE]
  /\ job' = [job EXCEPT ![w] = <<o, ChosenOutcome(w, o)>>]
  /\ settle' = [settle EXCEPT ![w] = "calling"]
  /\ UNCHANGED <<ordersVars, payment, checked, checkout, configured>>

\* The lease runs out, whatever its worker is doing.
LeaseExpires(o) ==
  /\ leased[o]
  /\ leased' = [leased EXCEPT ![o] = FALSE]
  /\ UNCHANGED <<ordersVars, payment, outcome, checked, checkout, workers>>

\* Mutant: the result is recorded without waiting for the answer.
CallResolvePaymentBlindly(w) ==
  /\ settle[w] = "calling"
  /\ settle' = [settle EXCEPT ![w] = "marking"]
  /\ UNCHANGED <<ordersVars, payments, checked, checkout, job, configured>>

\* Orders' ResolvePayment starts the resolution workflow or joins the open run.
CallResolvePayment(w) ==
  /\ settle[w] = "calling"
  /\ settle' = [settle EXCEPT ![w] = "waiting"]
  /\ resolve' = [resolve EXCEPT ![job[w]] = IF @ = "idle" THEN "resolving" ELSE @]
  /\ UNCHANGED <<projected, status, buyer, wanted, overdue, claim, create, joined, fresh,
                 expire, cancel, canceler, payments, checked, checkout, job, configured>>

\* The run has closed: it resolved the order as asked, or it failed.  Which of the
\* two, the order's status still tells: a run fails on a Created order, or on one that
\* has ended otherwise for good.
ReceiveResolution(w) ==
  /\ settle[w] = "waiting"
  /\ resolve[job[w]] = "idle"
  /\ LET resolved == status[job[w][1]] = Resolved(job[w][2]) IN
       /\ settle' = [settle EXCEPT ![w] = IF resolved THEN "marking" ELSE "idle"]
       /\ job' = IF resolved THEN job ELSE [job EXCEPT ![w] = Idle]
  /\ UNCHANGED <<ordersVars, payments, checked, checkout, configured>>

\* MarkResolved: only a payment that is still Pending and has this outcome.
Markable(o, oc) == payment[o] = "Pending" /\ outcome[o] = oc

MarkResolved(w) ==
  LET o  == job[w][1]
      oc == job[w][2]
  IN  /\ settle[w] = "marking"
      /\ IF Markable(o, oc)
         THEN /\ payment' = [payment EXCEPT ![o] = oc]
              /\ leased' = [leased EXCEPT ![o] = FALSE]
         ELSE UNCHANGED <<payment, leased>>
      /\ settle' = [settle EXCEPT ![w] = "idle"]
      /\ job' = [job EXCEPT ![w] = Idle]
      /\ UNCHANGED <<ordersVars, outcome, checked, checkout, configured>>

\* The call fails or takes longer than its timeout, or the transaction fails:
\* settleOne returns and leaves the payment to a later lease.
GiveUp(w) ==
  /\ settle[w] # "idle"
  /\ settle' = [settle EXCEPT ![w] = "idle"]
  /\ job' = [job EXCEPT ![w] = Idle]
  /\ UNCHANGED <<ordersVars, payments, checked, checkout, configured>>

\* The process restarts, perhaps configured with another outcome.
Restart(w) ==
  /\ settle' = [settle EXCEPT ![w] = "idle"]
  /\ job' = [job EXCEPT ![w] = Idle]
  /\ \E oc \in Outcomes : configured' = [configured EXCEPT ![w] = oc]
  /\ UNCHANGED <<ordersVars, payments, checked, checkout>>

-------------------------------------------------------------------------------
\* The steps of Orders that are not Payments' doing.
OrdersStep ==
  /\ \/ \E t \in Tickets : EnsureTicketProjection(t)
     \/ \E o \in Orders, u \in Users, t \in Tickets : RequestOrder(o, u, t)
     \/ \E o \in Orders, u \in Users : RequestCancel(o, u)
     \/ \E o \in Orders : \/ StartExpiry(o)
                          \/ DeadlinePasses(o)
                          \/ TimerFires(o)
     \/ \E o \in Orders, acked \in Attempts : Activity(o, acked)
  /\ UNCHANGED <<payments, checked, checkout, workers>>

\* The steps of the settlement workers, and the time that they depend on.
Settlement ==
  \/ \E o \in Orders : LeaseExpires(o)
  \/ \E w \in Workers :
       \/ \E o \in Orders : ClaimNextPending(w, o)
       \/ CallResolvePayment(w) \/ ReceiveResolution(w) \/ MarkResolved(w)
       \/ GiveUp(w) \/ Restart(w)

PaymentsNext ==
  \/ OrdersStep
  \/ Settlement
  \/ \E o \in Orders : CreatePayment(o) \/ StartCheckout(o)
  \/ \E o \in Orders, acked \in Attempts :
       StartOrderPayment(o, acked) \/ PersistPayment(o, acked)

PaymentsSpec == PaymentsInit /\ [][PaymentsNext]_paymentsVars

\* Temporal runs the workflows, leases run out, and every worker polls for ever.
PaymentsFairness ==
  /\ \A o \in Orders :
       /\ WF_paymentsVars(StartOrderPayment(o, TRUE))
       /\ WF_paymentsVars(PersistPayment(o, TRUE))
       /\ WF_paymentsVars(LeaseExpires(o))
       /\ \A oc \in Outcomes : WF_paymentsVars(OrdersStep /\ ResolveStep(o, oc))
  /\ \A w \in Workers :
       /\ WF_paymentsVars(\E o \in Orders : ClaimNextPending(w, o))
       /\ WF_paymentsVars(CallResolvePayment(w) \/ ReceiveResolution(w) \/ MarkResolved(w))

FairPaymentsSpec == PaymentsSpec /\ PaymentsFairness

-------------------------------------------------------------------------------
(***************************************************************************)
(* Properties.                                                             *)
(***************************************************************************)
\* The two databases agree: a payment is only recorded for an order in checkout, and
\* its recorded result is the one that Orders has, whichever worker recorded it,
\* however late, and whatever it was configured with.
PaymentAgreesWithOrder ==
  \A o \in Orders :
    /\ payment[o] = "Pending" => status[o] \in {"AwaitingPayment", "Complete", "Canceled"}
    /\ payment[o] \in Outcomes => status[o] = Resolved(payment[o])

\* Orders never refuses a settlement (the branch that logs a conflicting status):
\* all leases of a payment ask for one outcome, and nothing else ends its order.
ResolutionIsAsAsked ==
  \A w \in Workers :
    settle[w] = "waiting" /\ resolve[job[w]] = "idle"
      => status[job[w][1]] = Resolved(job[w][2])

\* The inductive invariant behind the two: an order's buyer is known; Orders has let an
\* order into checkout before its payment is persisted, and the order does not leave
\* checkout before it has a payment ...
EntryInv ==
  \A o \in Orders :
    /\ create[o] # "idle" => buyer[o] \in Users
    /\ checkout[o] = "persist" /\ payment[o] = "None" => status[o] = "AwaitingPayment"
\* ... an outcome is chosen for a payment only, the order ends by nothing else, and the
\* payment is settled after that, by the same outcome ...
DecisionInv ==
  \A o \in Orders :
    /\ outcome[o] # NULL => payment[o] # "None"
    /\ payment[o] # "None" =>
         \/ status[o] = "AwaitingPayment"
         \/ outcome[o] # NULL /\ status[o] = Resolved(outcome[o])
    /\ payment[o] \in Outcomes =>
         payment[o] = outcome[o] /\ status[o] = Resolved(outcome[o])
\* ... and every worker, and every resolution at Orders, is about that outcome.
ResolutionInv ==
  \A o \in Orders, oc \in Outcomes : resolve[<<o, oc>>] # "idle" => outcome[o] = oc
JobsInv ==
  \A w \in Workers :
    /\ settle[w] # "idle" => job[w] \in Jobs /\ outcome[job[w][1]] = job[w][2]
    /\ settle[w] = "marking" => status[job[w][1]] = Resolved(job[w][2])
SettlementInv ==
  /\ PaymentsTypeOK
  /\ ReservationInv
  /\ EntryInv
  /\ DecisionInv
  /\ ResolutionInv
  /\ JobsInv
  /\ ResolutionIsAsAsked

\* Payments uses Orders as OrderReservation assumes of its environment: it starts a
\* payment for the buyer and asks for a resolution only once that has succeeded.
UsesOrdersAsAssumed == OrdersSpec

\* Orders and Payments together implement the payment of an order.  (An order that
\* is canceled with no payment never was in checkout.)
EndedBy(o) ==
  CASE status[o] = "AwaitingPayment" -> "checkout"
    [] status[o] = "Complete" -> "Succeeded"
    [] status[o] = "Canceled" /\ payment[o] # "None" -> "Failed"
    [] OTHER -> "outside"
Due(o) == IF payment[o] \in Outcomes THEN payment[o] ELSE IF payment[o] = "Pending" THEN "due" ELSE "none"
Paying == INSTANCE OrderPayment WITH
            order    <- [o \in Orders |-> EndedBy(o)],
            due      <- [o \in Orders |-> Due(o)],
            decision <- outcome
ImplementsOrderPayment == Paying!Spec

\* Once calls fail and processes restart no more, every order in checkout ends.
Faultless == <>[][\A w \in Workers : ~GiveUp(w) /\ ~Restart(w)]_paymentsVars
CheckoutEnds ==
  Faultless => \A o \in Orders :
                 status[o] = "AwaitingPayment" ~> status[o] \in {"Complete", "Canceled"}

\* ... and so does every payment, with the result of its order.
PaymentSettles ==
  Faultless => \A o \in Orders : payment[o] = "Pending" ~> payment[o] \in Outcomes
===============================================================================
