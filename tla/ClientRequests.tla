---------------------------- MODULE ClientRequests ----------------------------
(***************************************************************************)
(* The way of a browser's command through the system and of its result     *)
(* back: gateway (session guard, error filter), gRPC server, coordinator,  *)
(* Temporal run, activities, and the servers that activities call.  Each   *)
(* layer has its own table of errors; the property of interest is what the *)
(* status that arrives in the browser says of the run in Temporal.  A      *)
(* query takes the same way as far as the server and its repository.       *)
(*                                                                         *)
(* All commands concern one user, one ticket and one order.  What an       *)
(* activity finds in the databases is a choice among the errors its        *)
(* repository can return there: OrderReservation and TicketUpdates say     *)
(* when it returns which.                                                  *)
(***************************************************************************)
EXTENDS Naturals, Sequences, GatewayErrors

CONSTANTS
  Requests,  \* HTTP requests, numbered as they come; a retry is one of its own
  Commands,  \* the commands and queries that are sent
  Stopping,  \* services that may be shut down
  NULL       \* absent

AllCommands == {"CreateTicket", "UpdateTicket", "CreateOrder", "CancelOrder", "CreatePayment"}
Queries == {"GetTicket", "ListTickets", "GetOrder", "ListOrders"}

Services == {"Tickets", "Orders", "Payments"}

ASSUME CommandsAssumption == Commands \subseteq AllCommands \cup Queries
ASSUME StoppingAssumption == Stopping \subseteq Services

\* The types of the non-retryable application errors.
FailureTypes ==
  {"InvalidProjection", "TicketUpdateForbidden", "TicketUpdateReserved", "TicketUpdateNotFound",
   "InvalidTicketUpdate", "ProjectedTicketNotFound", "TicketAlreadyReserved",
   "InvalidTicketReservation",
   "OrderNotFound", "OrderNotCancelable", "OrderNotPayable"}

ASSUME RequestsAssumption == Requests \subseteq Nat
ASSUME NullAssumption == NULL \notin Requests /\ NULL \notin FailureTypes

VARIABLES
  call,      \* request -> what it asks for
  stage,     \* request -> how far its handler is
  answer,    \* request -> HTTP status, NULL before the answer
  joined,    \* request -> the run it waits or waited for, named by the request that started it
  step,      \* run -> its next activity, 0 before it starts, 3 when it has completed
  failure,   \* run -> the type of the application error it failed with
  cause,     \* run -> the repository's error behind that; query -> behind its refusal
  paid,      \* is there a row in the Payments database?
  current,   \* operation -> the latest run under its workflow or update ID
  process    \* service -> "up", "draining" after SIGTERM, or "stopped"

http == <<call, stage, answer, joined>>
runs == <<step, failure, cause, paid>>
vars == <<http, runs, current, process>>

-------------------------------------------------------------------------------
TicketEdits == {"CreateTicket", "UpdateTicket"}

\* The routes of tickets ask no session.
Unguarded == {"GetTicket", "ListTickets"}

\* GetTicket looks at the ID in the database only, lists have no input.
Unvalidated == Unguarded \cup {"ListOrders"}

\* Only tickets take an idempotency key.  An invalid call is one that validation
\* refuses: too long a key, an empty title, an ID that is no UUID (but for the
\* ticket ID of an update, at which only PersistTicketUpdate looks).
Calls ==
  [command : Commands \cap TicketEdits, key : {"none", "empty", "given"}, valid : {TRUE}]
  \cup [command : Commands \cap TicketEdits, key : {"none"}, valid : {FALSE}]
  \cup [command : Commands \ (TicketEdits \cup Unvalidated), key : {"none"}, valid : BOOLEAN]
  \cup [command : Commands \cap Unvalidated, key : {"none"}, valid : {TRUE}]

\* Mutant: a projection ahead of its turn is a conflict.
EnsureTicketProjectionRefusing(e) ==
  Lookup([ProjectionConflict |-> "ALREADY_EXISTS", ProjectionOutOfOrder |-> "ALREADY_EXISTS"],
         e, "UNAVAILABLE")

\* What each server makes of its service's errors: first those that activities
\* call, then those that the gateway calls.
EnsureTicketProjectionCode(e) == Lookup([ProjectionConflict |-> "ALREADY_EXISTS"], e, "UNAVAILABLE")
ReserveTicketForOrderCode(e) ==
  Lookup([NotFound |-> "NOT_FOUND", Reserved |-> "ALREADY_EXISTS"], e, "UNAVAILABLE")
ReleaseTicketReservationCode(e) == Lookup([NotFound |-> "NOT_FOUND"], e, "UNAVAILABLE")
StartPaymentCode(e) ==
  Lookup([OrderNotFound |-> "NOT_FOUND", OrderNotPayable |-> "ALREADY_EXISTS"], e, "INTERNAL")

CreateTicketCode(e) == Lookup([Unavailable |-> "UNAVAILABLE"], e, "INTERNAL")
UpdateTicketCode(e) ==
  Lookup([Forbidden |-> "PERMISSION_DENIED", Reserved |-> "PERMISSION_DENIED",
          NotFound |-> "NOT_FOUND"], e, "INTERNAL")
CreateOrderCode(e) ==
  Lookup([NotFound |-> "NOT_FOUND", Reserved |-> "ALREADY_EXISTS",
          Unavailable |-> "UNAVAILABLE"], e, "INTERNAL")

\* Mutant: the server has no case for ErrUnavailable.
CancelOrderCodeDefinite(e) ==
  Lookup([OrderNotFound |-> "NOT_FOUND", OrderNotCancelable |-> "ALREADY_EXISTS"], e, "INTERNAL")

CancelOrderCode(e) ==
  Lookup([OrderNotFound |-> "NOT_FOUND", OrderNotCancelable |-> "ALREADY_EXISTS",
          Unavailable |-> "UNAVAILABLE"], e, "INTERNAL")
CreatePaymentCode(e) ==
  Lookup([OrderNotFound |-> "NOT_FOUND", OrderNotPayable |-> "ALREADY_EXISTS",
          Unavailable |-> "UNAVAILABLE"], e, "INTERNAL")
GetTicketCode(e) == Lookup([NotFound |-> "NOT_FOUND"], e, "INTERNAL")
ListTicketsCode(e) == "INTERNAL"
GetOrderCode(e) == Lookup([OrderNotFound |-> "NOT_FOUND"], e, "INTERNAL")
ListOrdersCode(e) == "INTERNAL"

ServerCode(command, e) ==
  CASE command = "CreateTicket" -> CreateTicketCode(e)
    [] command = "UpdateTicket" -> UpdateTicketCode(e)
    [] command = "CreateOrder" -> CreateOrderCode(e)
    [] command = "CancelOrder" -> CancelOrderCode(e)
    [] command = "CreatePayment" -> CreatePaymentCode(e)
    [] command = "GetTicket" -> GetTicketCode(e)
    [] command = "ListTickets" -> ListTicketsCode(e)
    [] command = "GetOrder" -> GetOrderCode(e)
    [] command = "ListOrders" -> ListOrdersCode(e)

\* What each coordinator makes of the application error that a run ended with.
CreateTicketError(type) == Lookup([InvalidProjection |-> "Permanent"], type, "Unavailable")
UpdateTicketError(type) ==
  Lookup([TicketUpdateForbidden |-> "Forbidden", TicketUpdateReserved |-> "Reserved",
          TicketUpdateNotFound |-> "NotFound", InvalidTicketUpdate |-> "Permanent",
          InvalidProjection |-> "Permanent"], type, "Unavailable")
reservationWorkflowError(type) ==
  Lookup([ProjectedTicketNotFound |-> "NotFound", TicketAlreadyReserved |-> "Reserved",
          OrderNotFound |-> "OrderNotFound", OrderNotCancelable |-> "OrderNotCancelable",
          OrderNotPayable |-> "OrderNotPayable"], type, "Unavailable")
createPaymentWorkflowError(type) ==
  Lookup([OrderNotFound |-> "OrderNotFound", OrderNotPayable |-> "OrderNotPayable"], type, "Unavailable")

CoordinatorError(command, type) ==
  CASE command = "CreateTicket" -> CreateTicketError(type)
    [] command = "UpdateTicket" -> UpdateTicketError(type)
    [] command \in {"CreateOrder", "CancelOrder"} -> reservationWorkflowError(type)
    [] command = "CreatePayment" -> createPaymentWorkflowError(type)

-------------------------------------------------------------------------------
\* The workflows: two activities each.
Workflow ==
  [CreateTicket  |-> <<"PersistTicket", "ProjectTicketToOrders">>,
   UpdateTicket  |-> <<"PersistTicketUpdate", "ProjectTicketToOrders">>,
   CreateOrder   |-> <<"ReserveOrder", "ClaimTicket">>,
   CancelOrder   |-> <<"CancelOrder", "ReleaseTicket">>,
   CreatePayment |-> <<"StartOrderPayment", "PersistPayment">>]

\* What can go wrong in an activity or query, or in the database behind it.  "Transient" is
\* any error that is not the repository's own.  Errors that no reachable row can
\* cause are left out: a ticket is never deleted, new IDs do not collide.
RepositoryErrors(activity) ==
  {"Transient"} \cup
  Lookup([PersistTicketUpdate   |-> {"Forbidden", "Reserved", "NotFound", "MalformedID"},
          ProjectTicketToOrders |-> {"ProjectionConflict", "ProjectionOutOfOrder"},
          ReserveOrder          |-> {"NotFound", "Reserved"},
          ClaimTicket           |-> {"Reserved"},
          CancelOrder           |-> {"OrderNotFound", "OrderNotCancelable"},
          StartOrderPayment     |-> {"OrderNotFound", "OrderNotPayable"},
          GetTicket             |-> {"NotFound", "MalformedID"},
          GetOrder              |-> {"OrderNotFound"}], activity, {})

\* The type of the non-retryable error an activity reports, or NULL if it reports
\* one that Temporal retries.
ProjectTicketFailure(code) == Lookup([ALREADY_EXISTS |-> "InvalidProjection"], code, NULL)

\* Mutant: two types exchanged.
reservationRPCErrorSwapped(code) ==
  Lookup([NOT_FOUND |-> "TicketAlreadyReserved", ALREADY_EXISTS |-> "ProjectedTicketNotFound",
          INVALID_ARGUMENT |-> "InvalidTicketReservation"], code, NULL)

reservationRPCError(code) ==
  Lookup([NOT_FOUND |-> "ProjectedTicketNotFound", ALREADY_EXISTS |-> "TicketAlreadyReserved",
          INVALID_ARGUMENT |-> "InvalidTicketReservation"], code, NULL)
mapOrdersError(code) ==
  Lookup([NOT_FOUND |-> "OrderNotFound", ALREADY_EXISTS |-> "OrderNotPayable"], code, NULL)
PersistTicketUpdateFailure(e) ==
  Lookup([Forbidden |-> "TicketUpdateForbidden", Reserved |-> "TicketUpdateReserved",
          NotFound |-> "TicketUpdateNotFound", MalformedID |-> "InvalidTicketUpdate"], e, NULL)
ReserveOrderFailure(e) ==
  Lookup([NotFound |-> "ProjectedTicketNotFound", Reserved |-> "TicketAlreadyReserved"], e, NULL)
CancelOrderFailure(e) ==
  Lookup([OrderNotFound |-> "OrderNotFound", OrderNotCancelable |-> "OrderNotCancelable"], e, NULL)

ActivityFailure(activity, e) ==
  CASE activity = "PersistTicketUpdate" -> PersistTicketUpdateFailure(e)
    [] activity = "ProjectTicketToOrders" -> ProjectTicketFailure(EnsureTicketProjectionCode(e))
    [] activity = "ReserveOrder" -> ReserveOrderFailure(e)
    [] activity = "ClaimTicket" -> reservationRPCError(ReserveTicketForOrderCode(e))
    [] activity = "CancelOrder" -> CancelOrderFailure(e)
    [] activity = "ReleaseTicket" -> reservationRPCError(ReleaseTicketReservationCode(e))
    [] activity = "StartOrderPayment" -> mapOrdersError(StartPaymentCode(e))
    [] OTHER -> NULL

-------------------------------------------------------------------------------
Command(r) == call[r].command
Completed(s) == step[s] = 3
Ended(s) == Completed(s) \/ failure[s] # NULL

\* The service that a request is for; its worker runs the workflow.
Service(command) ==
  CASE command \in {"CreateTicket", "UpdateTicket", "GetTicket", "ListTickets"} -> "Tickets"
    [] command \in {"CreateOrder", "CancelOrder", "GetOrder", "ListOrders"} -> "Orders"
    [] command = "CreatePayment" -> "Payments"

\* The service that an activity calls.
Callee(activity) ==
  Lookup([ProjectTicketToOrders |-> "Orders", ClaimTicket |-> "Tickets",
          ReleaseTicket |-> "Tickets", StartOrderPayment |-> "Orders"], activity, NULL)

Serving(r) == process[Service(Command(r))] = "up"

\* The operation a request belongs to by its workflow ID or update ID; NULL if the
\* coordinator makes up a new ID for every request.
Operation(r) ==
  IF Command(r) = "CreateOrder" \/ (Command(r) = "CreateTicket" /\ call[r].key = "none")
  THEN NULL ELSE <<Command(r), call[r].key>>
Operations ==
  {<<"CreateTicket", "empty">>, <<"CreateTicket", "given">>, <<"UpdateTicket", "given">>,
   <<"CancelOrder", "none">>, <<"CreatePayment", "none">>}

\* Validation in the gateway's pipe, in the servers' interceptors and services.
Valid(c) == c.valid /\ (c.command = "UpdateTicket" => c.key = "given")

Init ==
  /\ call = [r \in Requests |-> NULL]
  /\ stage = [r \in Requests |-> "idle"]
  /\ answer = [r \in Requests |-> NULL]
  /\ joined = [r \in Requests |-> NULL]
  /\ step = [r \in Requests |-> 0]
  /\ failure = [r \in Requests |-> NULL]
  /\ cause = [r \in Requests |-> NULL]
  /\ paid = FALSE
  /\ current = [o \in Operations |-> NULL]
  /\ process = [v \in Services |-> "up"]

Advance(r, from, to) == stage[r] = from /\ stage' = [stage EXCEPT ![r] = to]

AnswerWith(r, status) ==
  /\ stage' = [stage EXCEPT ![r] = "answered"]
  /\ answer' = [answer EXCEPT ![r] = status]

\* The server answers with an error of its service.
ErrorStatus(command, e) == throwGatewayGrpcError(ServerCode(command, e), TRUE)
AnswerError(r, e) == AnswerWith(r, ErrorStatus(Command(r), e))

Receive(r, c) ==
  /\ \A q \in Requests : q < r => call[q] # NULL
  /\ Advance(r, "idle", IF c.command \in Unguarded THEN "authenticated" ELSE "received")
  /\ call' = [call EXCEPT ![r] = c]
  /\ UNCHANGED <<answer, joined, runs, current, process>>

\* SessionAuthGuard asks Identity for the current user.
Authenticate(r) ==
  /\ Advance(r, "received", "authenticated")
  /\ UNCHANGED <<call, answer, joined, runs, current, process>>

DenySession(r, code, structured) ==
  /\ stage[r] = "received"
  /\ AnswerWith(r, throwGatewayGrpcError(code, structured))
  /\ UNCHANGED <<call, joined, runs, current, process>>

RefuseInput(r) ==
  /\ stage[r] = "authenticated" /\ ~Valid(call[r])
  /\ AnswerWith(r, throwGatewayGrpcError("INVALID_ARGUMENT", TRUE))
  /\ UNCHANGED <<call, joined, runs, current, process>>

\* Payments first looks for the payment of an earlier request.
FindPayment(r) ==
  /\ stage[r] = "authenticated" /\ Valid(call[r]) /\ Serving(r)
  /\ Command(r) = "CreatePayment" /\ paid
  /\ AnswerWith(r, 200)
  /\ UNCHANGED <<call, joined, runs, current, process>>

FailToFindPayment(r) ==
  /\ stage[r] = "authenticated" /\ Valid(call[r]) /\ Serving(r)
  /\ Command(r) = "CreatePayment"
  /\ AnswerError(r, "Transient")
  /\ UNCHANGED <<call, joined, runs, current, process>>

\* Queries read the database of their service and are done.
AnswerQuery(r) ==
  /\ stage[r] = "authenticated" /\ Valid(call[r]) /\ Serving(r)
  /\ Command(r) \in Queries
  /\ AnswerWith(r, 200)
  /\ UNCHANGED <<call, joined, runs, current, process>>

FailQuery(r, e) ==
  /\ stage[r] = "authenticated" /\ Valid(call[r]) /\ Serving(r)
  /\ Command(r) \in Queries /\ e \in RepositoryErrors(Command(r))
  /\ AnswerError(r, e)
  /\ cause' = [cause EXCEPT ![r] = e]
  /\ UNCHANGED <<call, joined, step, failure, paid, current, process>>

\* A service that is stopping or gone takes no new calls.
FailToConnect(r) ==
  /\ stage[r] = "authenticated" /\ ~Serving(r)
  /\ AnswerWith(r, throwGatewayGrpcError("UNAVAILABLE", FALSE))
  /\ UNCHANGED <<call, joined, runs, current, process>>

Accept(r) ==
  /\ Advance(r, "authenticated", "accepted")
  /\ Command(r) \notin Queries /\ Serving(r)
  /\ Valid(call[r]) /\ (Command(r) = "CreatePayment" => ~paid)
  /\ UNCHANGED <<call, answer, joined, runs, current, process>>

-------------------------------------------------------------------------------
\* Temporal's answer to the coordinator.  An open run under the ID is joined.
\* A closed creation of a ticket is joined too (REJECT_DUPLICATE); a closed update
\* as long as the workflow that served it has not continued as new.
Joinable(r) ==
  /\ Operation(r) # NULL /\ current[Operation(r)] # NULL
  /\ Ended(current[Operation(r)]) => Command(r) \in {"CreateTicket", "UpdateTicket"}

\* Mutant: without REJECT_DUPLICATE a closed creation is run again.
StartableAgain(r) ==
  Operation(r) # NULL /\ current[Operation(r)] # NULL => Ended(current[Operation(r)])

Startable(r) ==
  Operation(r) # NULL /\ current[Operation(r)] # NULL
    => Ended(current[Operation(r)]) /\ Command(r) # "CreateTicket"

JoinRun(r) ==
  /\ Advance(r, "accepted", "waiting")
  /\ Joinable(r)
  /\ joined' = [joined EXCEPT ![r] = current[Operation(r)]]
  /\ UNCHANGED <<call, answer, runs, current, process>>

StartRun(r) ==
  /\ Advance(r, "accepted", "waiting")
  /\ Startable(r)
  /\ joined' = [joined EXCEPT ![r] = r]
  /\ step' = [step EXCEPT ![r] = 1]
  /\ current' = IF Operation(r) = NULL THEN current ELSE [current EXCEPT ![Operation(r)] = r]
  /\ UNCHANGED <<call, answer, failure, cause, paid, process>>

\* Temporal cannot be reached.
FailToStart(r) ==
  /\ stage[r] = "accepted"
  /\ AnswerError(r, "Unavailable")
  /\ UNCHANGED <<call, joined, runs, current, process>>

\* Mutant: the coordinator waits for the run's end, however long that takes.
TimeOutAfterRun(r) ==
  /\ stage[r] = "waiting" /\ Ended(joined[r])
  /\ AnswerError(r, "Unavailable")
  /\ UNCHANGED <<call, joined, runs, current, process>>

\* The caller's 60 seconds are over; the run goes on.
TimeOut(r) ==
  /\ stage[r] = "waiting"
  /\ AnswerError(r, "Unavailable")
  /\ UNCHANGED <<call, joined, runs, current, process>>

\* What each coordinator makes of a run that it cannot read though the 60 seconds are
\* not over: Temporal's answer is an error other than Unavailable, or the result cannot
\* be decoded.  Create hands such an error on.
ReadError(command) == IF command = "CreateTicket" THEN "Permanent" ELSE "Unavailable"

FailToRead(r) ==
  /\ stage[r] = "waiting"
  /\ AnswerError(r, ReadError(Command(r)))
  /\ UNCHANGED <<call, joined, runs, current, process>>

\* Creating an order or a payment answers 200 if it existed before.
SuccessStatuses(command) ==
  CASE command = "CreateTicket" -> {201}
    [] command \in {"UpdateTicket", "CancelOrder"} -> {200}
    [] command \in {"CreateOrder", "CreatePayment"} -> {200, 201}

Succeed(r, status) ==
  /\ stage[r] = "waiting" /\ Completed(joined[r])
  /\ status \in SuccessStatuses(Command(r))
  /\ AnswerWith(r, status)
  /\ UNCHANGED <<call, joined, runs, current, process>>

Fail(r) ==
  /\ stage[r] = "waiting" /\ failure[joined[r]] # NULL
  /\ AnswerError(r, CoordinatorError(Command(r), failure[joined[r]]))
  /\ UNCHANGED <<call, joined, runs, current, process>>

\* The server dies, or the connection to it breaks.
LoseServer(r) ==
  /\ stage[r] \in {"authenticated", "accepted", "waiting"}
  /\ AnswerWith(r, throwGatewayGrpcError("UNAVAILABLE", FALSE))
  /\ UNCHANGED <<call, joined, runs, current, process>>

\* The run's next activity succeeds, or fails for good.  One that Temporal will
\* retry changes nothing here: the worker is gone, or the service it calls takes no
\* calls, or any other transient failure.
Activity(s) == Workflow[Command(s)][step[s]]

Executable(s) ==
  /\ step[s] \in {1, 2} /\ ~Ended(s)
  /\ process[Service(Command(s))] # "stopped"
  /\ Callee(Activity(s)) # NULL => process[Callee(Activity(s))] = "up"

CompleteActivity(s) ==
  /\ Executable(s)
  /\ step' = [step EXCEPT ![s] = @ + 1]
  /\ paid' = (paid \/ Activity(s) = "PersistPayment")
  /\ UNCHANGED <<http, failure, cause, current, process>>

\* PersistPayment takes effect and its result is lost: the payment can be found while
\* the run goes on.
LosePersistResult(s) ==
  /\ Executable(s) /\ Activity(s) = "PersistPayment"
  /\ paid' = TRUE
  /\ UNCHANGED <<http, step, failure, cause, current, process>>

FailActivity(s, e) ==
  /\ Executable(s)
  /\ e \in RepositoryErrors(Activity(s)) /\ ActivityFailure(Activity(s), e) # NULL
  /\ failure' = [failure EXCEPT ![s] = ActivityFailure(Activity(s), e)]
  /\ cause' = [cause EXCEPT ![s] = e]
  /\ UNCHANGED <<http, step, paid, current, process>>

\* main of each service.  After SIGTERM GracefulStop refuses new calls and waits for
\* those in progress; only then are the worker and the connections closed.
Terminate(v) ==
  /\ v \in Stopping /\ process[v] = "up"
  /\ process' = [process EXCEPT ![v] = "draining"]
  /\ UNCHANGED <<http, runs, current>>

\* Mutant: main does not wait for its handlers.
ExitAtOnce(v) ==
  /\ process[v] = "draining"
  /\ process' = [process EXCEPT ![v] = "stopped"]
  /\ UNCHANGED <<http, runs, current>>

\* Mutant: main also waits for the workflows that its worker runs.
ExitAfterRuns(v) ==
  /\ process[v] = "draining"
  /\ \A s \in Requests : step[s] > 0 /\ Service(Command(s)) = v => Ended(s)
  /\ process' = [process EXCEPT ![v] = "stopped"]
  /\ UNCHANGED <<http, runs, current>>

Exit(v) ==
  /\ process[v] = "draining"
  /\ \A r \in Requests : stage[r] \in {"accepted", "waiting"} => Service(Command(r)) # v
  /\ process' = [process EXCEPT ![v] = "stopped"]
  /\ UNCHANGED <<http, runs, current>>

Start(v) ==
  /\ process[v] = "stopped"
  /\ process' = [process EXCEPT ![v] = "up"]
  /\ UNCHANGED <<http, runs, current>>

Errors ==
  UNION ({RepositoryErrors(Workflow[c][n]) : c \in AllCommands, n \in {1, 2}}
           \cup {RepositoryErrors(q) : q \in Queries})

\* The HTTP statuses that browsers see.
Statuses == {200, 201, 400, 401, 403, 404, 409, 500, 503}

ASSUME AbsenceAssumption == NULL \notin Errors /\ NULL \notin Operations /\ NULL \notin Statuses

\* The steps that a request's handlers take by themselves.
Handle(r) ==
  \/ Authenticate(r) \/ DenySession(r, "UNAUTHENTICATED", TRUE)
  \/ RefuseInput(r) \/ FindPayment(r) \/ FailToFindPayment(r) \/ Accept(r)
  \/ AnswerQuery(r) \/ FailToConnect(r)
  \/ JoinRun(r) \/ StartRun(r) \/ FailToStart(r)
  \/ \E status \in {200, 201} : Succeed(r, status)
  \/ Fail(r) \/ TimeOut(r)

Next ==
  \/ \E r \in Requests :
       \/ \E c \in Calls : Receive(r, c)
       \/ Handle(r)
       \/ DenySession(r, "INTERNAL", TRUE) \/ DenySession(r, "UNAVAILABLE", FALSE)
       \/ FailToRead(r) \/ LoseServer(r)
       \/ CompleteActivity(r) \/ LosePersistResult(r)
       \/ \E e \in Errors : FailActivity(r, e) \/ FailQuery(r, e)
  \/ \E v \in Services : Terminate(v) \/ Exit(v) \/ Start(v)

Spec == Init /\ [][Next]_vars

\* Handlers run, the 60 seconds pass, and a process with nothing left to do exits.
\* Nothing is assumed of the runs: their activities may be retried for ever.
FairSpec ==
  /\ Spec
  /\ \A r \in Requests : WF_vars(Handle(r))
  /\ \A v \in Stopping : WF_vars(Exit(v))

-------------------------------------------------------------------------------
TypeOK ==
  /\ call \in [Requests -> Calls \cup {NULL}]
  /\ stage \in [Requests -> {"idle", "received", "authenticated", "accepted", "waiting", "answered"}]
  /\ answer \in [Requests -> Statuses \cup {NULL}]
  /\ joined \in [Requests -> Requests \cup {NULL}]
  /\ step \in [Requests -> 0 .. 3]
  /\ failure \in [Requests -> FailureTypes \cup {NULL}]
  /\ cause \in [Requests -> Errors \cup {NULL}]
  /\ paid \in BOOLEAN
  /\ current \in [Operations -> Requests \cup {NULL}]
  /\ process \in [Services -> {"up", "draining", "stopped"}]

-------------------------------------------------------------------------------
Answered(r) == answer[r] # NULL

\* While the run that a request started or joined goes on, the browser is told that
\* the service is unavailable, or, of a ticket, that something went wrong, and never
\* that the command has succeeded or is refused.  The 500s are UpdateTicket's, which has no
\* case for ErrUnavailable, and those of a creation whose run could not be read.
OpenRunIsUndecided ==
  \A r \in Requests :
    Answered(r) /\ joined[r] # NULL /\ ~Ended(joined[r])
      => answer[r] = 503 \/ (Command(r) \in TicketEdits /\ answer[r] = 500)

\* "Retries with that user and key return the original result": all requests with
\* one key get the same ticket.  Those that are told a result are told that one, and
\* none that there is a ticket already.
KeyNamesOneCreation ==
  \A q, r \in Requests :
    joined[q] # NULL /\ joined[r] # NULL /\ Operation(q) = Operation(r)
    /\ Command(r) = "CreateTicket" /\ Operation(r) # NULL
      => /\ joined[q] = joined[r]
         /\ {answer[q], answer[r]} \subseteq {NULL, 201, 500, 503}

\* A process that is asked to stop lets go of its worker and its connections only when
\* no handler waits for a run of theirs: GracefulStop comes before the deferred Stop.
HandlersHaveWorkers ==
  \A r \in Requests :
    stage[r] \in {"accepted", "waiting"} => process[Service(Command(r))] # "stopped"

\* The status that the browser is due for an error of a repository.
StatusOfCause(command, e) ==
  CASE e \in {"NotFound", "OrderNotFound"} -> 404
    [] e \in {"OrderNotCancelable", "OrderNotPayable"} -> 409
    [] e = "Reserved" -> IF command = "UpdateTicket" THEN 403 ELSE 409
    [] e = "Forbidden" -> 403
    [] OTHER -> 500

\* The run, or query, behind an answer.
Behind(r) == IF Command(r) \in Queries THEN r ELSE joined[r]

\* The browser is told a success only of a run that completed or a query that did not
\* fail, and a refusal only of one that failed, with the status for what the repository
\* had found: through up to six tables of errors, a refusal keeps its meaning.
AnswerTellsOutcome ==
  \A r \in Requests :
    /\ answer[r] \in {200, 201} =>
         \/ Command(r) \in Queries /\ cause[r] = NULL
         \/ joined[r] = NULL /\ Command(r) = "CreatePayment" /\ paid
         \/ joined[r] # NULL /\ Completed(joined[r])
    /\ answer[r] \in {403, 404, 409} =>
         /\ Behind(r) # NULL /\ cause[Behind(r)] # NULL
         /\ answer[r] = StatusOfCause(Command(r), cause[Behind(r)])

\* "Activities retry transient failures indefinitely": no run fails because a
\* database or a server was unavailable, or a projection came too early.
OnlyRefusalsEndRuns ==
  \A s \in Requests : failure[s] # NULL => cause[s] \notin {"Transient", "ProjectionOutOfOrder"}

\* The inductive invariant behind these: only the handler of an accepted command waits
\* for a run ...
HandlersInv ==
  \A r \in Requests :
    /\ stage[r] # "idle" => call[r] \in Calls
    /\ answer[r] # NULL => stage[r] = "answered"
    /\ stage[r] = "accepted" \/ joined[r] # NULL => Valid(call[r]) /\ Command(r) \in AllCommands
    /\ stage[r] = "waiting" => joined[r] # NULL
    /\ joined[r] # NULL => stage[r] \in {"waiting", "answered"}
    /\ cause[r] # NULL => stage[r] \in {"waiting", "answered"}
\* ... a run serves the request that started it and others of its operation only, and
\* it fails by what its activity's repository refused ...
RunsInv ==
  \A r, s \in Requests :
    /\ step[r] > 0 => joined[r] = r
    /\ joined[r] = s =>
         step[s] > 0 /\ (s # r => Operation(r) # NULL /\ Operation(s) = Operation(r))
    /\ failure[r] # NULL =>
         /\ step[r] \in {1, 2} /\ cause[r] \in RepositoryErrors(Activity(r))
         /\ failure[r] = ActivityFailure(Activity(r), cause[r])
\* ... the run that Temporal has under an ID is one of that operation, and a ticket's
\* creation remains the one under its ID ...
CurrentInv ==
  \A o \in Operations, s \in Requests :
    /\ current[o] = s => step[s] > 0 /\ Operation(s) = o
    /\ joined[s] # NULL /\ Command(s) = "CreateTicket" /\ Operation(s) = o
         => current[o] = joined[s]
\* ... a payment is there because a run has come to persist it ...
PaidInv == paid => \E s \in Requests : Command(s) = "CreatePayment" /\ step[s] \in {2, 3}
\* ... and the browser is told what the run came to, or that it is not known.
StatusOfFailure(command, type) == ErrorStatus(command, CoordinatorError(command, type))
ToldOfRun(r) ==
  \/ answer[r] = 503
  \/ Command(r) \in TicketEdits /\ answer[r] = 500
  \/ Completed(joined[r]) /\ answer[r] \in SuccessStatuses(Command(r))
  \/ /\ failure[joined[r]] # NULL
     /\ answer[r] = StatusOfFailure(Command(r), failure[joined[r]])
ToldWithoutRun(r) ==
  \/ answer[r] \in {400, 401, 500, 503}
  \/ answer[r] = 200 /\ Command(r) = "CreatePayment" /\ paid
  \/ /\ Command(r) \in Queries
     /\ IF cause[r] = NULL THEN answer[r] = 200 ELSE answer[r] = StatusOfCause(Command(r), cause[r])
AnswersInv ==
  \A r \in Requests :
    answer[r] # NULL => IF joined[r] = NULL THEN ToldWithoutRun(r) ELSE ToldOfRun(r)
RequestsInv ==
  /\ TypeOK
  /\ HandlersInv
  /\ RunsInv
  /\ CurrentInv
  /\ PaidInv
  /\ AnswersInv

\* "A request waits up to 60 seconds": every request is answered, whether its run
\* ends or not.  (There are finitely many, so there comes a time for all of them.)
RequestIsAnswered == []<>(\A r \in Requests : call[r] # NULL => stage[r] = "answered")

\* A shutdown comes to its end, though the services may wait for each other: Orders for
\* a handler whose run claims a ticket at Tickets, Tickets for one whose run projects
\* a ticket to Orders, and both have stopped to take calls.
ShutdownEnds == \A v \in Stopping : process[v] = "draining" ~> process[v] = "stopped"

(***************************************************************************)
(* Statements of the repository's documents and tests that the code does   *)
(* not live up to; each is checked by a run of its own.                    *)
(***************************************************************************)
\* "503 means the durable operation may still be running and should be retried with the
\* same key": while the run goes on the browser is told 503.
OpenRunAnswers503 ==
  \A r \in Requests :
    Answered(r) /\ joined[r] # NULL /\ ~Ended(joined[r]) => answer[r] = 503
===============================================================================
