------------------------------ MODULE OrderPayment ------------------------------
(***************************************************************************)
(* What the payment of an order promises, with nothing said of databases,  *)
(* workers or retries: an order that enters checkout gets one payment, the *)
(* payment processor decides it once, the order ends by that decision, and *)
(* only then the payment is settled, by the same decision.                 *)
(* PaymentSettlement implements this specification.                        *)
(***************************************************************************)
CONSTANTS
  Orders,    \* order IDs
  Outcomes,  \* what the processor can decide
  NULL       \* not decided

VARIABLES
  order,     \* order -> "outside" checkout, in "checkout", or ended by an outcome
  due,       \* order -> its payment: "none", "due", or settled with an outcome
  decision   \* order -> the processor's

vars == <<order, due, decision>>

Init ==
  /\ order = [o \in Orders |-> "outside"]
  /\ due = [o \in Orders |-> "none"]
  /\ decision = [o \in Orders |-> NULL]

Begin(o) ==
  /\ order[o] = "outside"
  /\ order' = [order EXCEPT ![o] = "checkout"]
  /\ UNCHANGED <<due, decision>>

Record(o) ==
  /\ order[o] = "checkout" /\ due[o] = "none"
  /\ due' = [due EXCEPT ![o] = "due"]
  /\ UNCHANGED <<order, decision>>

Decide(o, oc) ==
  /\ due[o] = "due" /\ decision[o] = NULL
  /\ decision' = [decision EXCEPT ![o] = oc]
  /\ UNCHANGED <<order, due>>

End(o) ==
  /\ order[o] = "checkout" /\ decision[o] # NULL
  /\ order' = [order EXCEPT ![o] = decision[o]]
  /\ UNCHANGED <<due, decision>>

Settle(o) ==
  /\ due[o] = "due" /\ order[o] = decision[o]
  /\ due' = [due EXCEPT ![o] = decision[o]]
  /\ UNCHANGED <<order, decision>>

Next ==
  \E o \in Orders :
    \/ Begin(o) \/ Record(o) \/ End(o) \/ Settle(o)
    \/ \E oc \in Outcomes : Decide(o, oc)

Spec == Init /\ [][Next]_vars
===============================================================================
