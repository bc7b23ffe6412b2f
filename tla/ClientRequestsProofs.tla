-------------------------- MODULE ClientRequestsProofs --------------------------
(***************************************************************************)
(* Proofs about ClientRequests, for any requests and commands and whatever *)
(* services are shut down.                                                 *)
(***************************************************************************)
EXTENDS ClientRequests, TLAPS

-------------------------------------------------------------------------------
\* Lemmas about the tables of errors.

\* Whatever the error, the browser is answered with one of these.
LEMMA ErrorStatuses ==
  ASSUME NEW command \in AllCommands \cup Queries, NEW e
  PROVE  ErrorStatus(command, e) \in {403, 404, 409, 500, 503}
<1>1. ServerCode(command, e) \in
        {"PERMISSION_DENIED", "NOT_FOUND", "ALREADY_EXISTS", "INTERNAL", "UNAVAILABLE"}
  BY DEF AllCommands, Queries, ServerCode, CreateTicketCode, UpdateTicketCode, CreateOrderCode,
     CancelOrderCode, CreatePaymentCode, GetTicketCode, ListTicketsCode, GetOrderCode,
     ListOrdersCode, Lookup
<1>2. QED
  BY <1>1 DEF ErrorStatus, throwGatewayGrpcError, httpStatusFromGrpcCode, Lookup

\* An unknown outcome is a 503, but for updates.
LEMMA UnavailableStatus ==
  ASSUME NEW command \in AllCommands
  PROVE  /\ ErrorStatus(command, "Unavailable") = IF command = "UpdateTicket" THEN 500 ELSE 503
         /\ ErrorStatus(command, "Transient") = 500
<1>1. /\ ServerCode(command, "Unavailable") = IF command = "UpdateTicket" THEN "INTERNAL" ELSE "UNAVAILABLE"
      /\ ServerCode(command, "Transient") = "INTERNAL"
  BY DEF AllCommands, ServerCode, CreateTicketCode, UpdateTicketCode, CreateOrderCode,
     CancelOrderCode, CreatePaymentCode, Lookup
<1>2. QED
  BY <1>1 DEF ErrorStatus, throwGatewayGrpcError, httpStatusFromGrpcCode, Lookup

\* What an activity or a query can find, spelt out.
LEMMA ErrorsFound ==
  /\ RepositoryErrors("PersistTicketUpdate") =
       {"Transient", "Forbidden", "Reserved", "NotFound", "MalformedID"}
  /\ RepositoryErrors("ProjectTicketToOrders") =
       {"Transient", "ProjectionConflict", "ProjectionOutOfOrder"}
  /\ RepositoryErrors("ReserveOrder") = {"Transient", "NotFound", "Reserved"}
  /\ RepositoryErrors("ClaimTicket") = {"Transient", "Reserved"}
  /\ RepositoryErrors("CancelOrder") = {"Transient", "OrderNotFound", "OrderNotCancelable"}
  /\ RepositoryErrors("StartOrderPayment") = {"Transient", "OrderNotFound", "OrderNotPayable"}
  /\ \A a \in {"PersistTicket", "ReleaseTicket", "PersistPayment", "ListTickets", "ListOrders"} :
       RepositoryErrors(a) = {"Transient"}
  /\ RepositoryErrors("GetTicket") = {"Transient", "NotFound", "MalformedID"}
  /\ RepositoryErrors("GetOrder") = {"Transient", "OrderNotFound"}
BY DEF RepositoryErrors, Lookup

\* A query's error arrives with its meaning.
LEMMA QueryTables ==
  ASSUME NEW command \in Queries, NEW e \in RepositoryErrors(command)
  PROVE  ErrorStatus(command, e) = StatusOfCause(command, e)
<1>1. ServerCode(command, e) = CASE e \in {"NotFound", "OrderNotFound"} -> "NOT_FOUND"
                                 [] OTHER -> "INTERNAL"
  BY ErrorsFound DEF Queries, ServerCode, GetTicketCode, ListTicketsCode, GetOrderCode,
     ListOrdersCode, Lookup
<1>2. StatusOfCause(command, e) = CASE e \in {"NotFound", "OrderNotFound"} -> 404
                                    [] OTHER -> 500
  BY ErrorsFound DEF Queries, StatusOfCause
<1>3. QED
  BY <1>1, <1>2 DEF ErrorStatus, throwGatewayGrpcError, httpStatusFromGrpcCode, Lookup

\* The activities that can fail for good, with what they find, report and mean.
LEMMA ActivityTables ==
  ASSUME NEW e
  PROVE  /\ e \in RepositoryErrors("PersistTicketUpdate") =>
              ActivityFailure("PersistTicketUpdate", e) =
                CASE e = "Forbidden" -> "TicketUpdateForbidden"
                  [] e = "Reserved" -> "TicketUpdateReserved"
                  [] e = "NotFound" -> "TicketUpdateNotFound"
                  [] e = "MalformedID" -> "InvalidTicketUpdate"
                  [] OTHER -> NULL
         /\ e \in RepositoryErrors("ProjectTicketToOrders") =>
              ActivityFailure("ProjectTicketToOrders", e) =
                CASE e = "ProjectionConflict" -> "InvalidProjection"
                  [] OTHER -> NULL
         /\ e \in RepositoryErrors("ReserveOrder") =>
              ActivityFailure("ReserveOrder", e) =
                CASE e = "NotFound" -> "ProjectedTicketNotFound"
                  [] e = "Reserved" -> "TicketAlreadyReserved"
                  [] OTHER -> NULL
         /\ e \in RepositoryErrors("ClaimTicket") =>
              ActivityFailure("ClaimTicket", e) =
                CASE e = "Reserved" -> "TicketAlreadyReserved"
                  [] OTHER -> NULL
         /\ e \in RepositoryErrors("CancelOrder") =>
              ActivityFailure("CancelOrder", e) =
                CASE e = "OrderNotFound" -> "OrderNotFound"
                  [] e = "OrderNotCancelable" -> "OrderNotCancelable"
                  [] OTHER -> NULL
         /\ e \in RepositoryErrors("StartOrderPayment") =>
              ActivityFailure("StartOrderPayment", e) =
                CASE e = "OrderNotFound" -> "OrderNotFound"
                  [] e = "OrderNotPayable" -> "OrderNotPayable"
                  [] OTHER -> NULL
         /\ \A a \in {"PersistTicket", "ReleaseTicket", "PersistPayment"} :
              e \in RepositoryErrors(a) => ActivityFailure(a, e) = NULL
BY ErrorsFound
   DEF ActivityFailure, PersistTicketUpdateFailure, ProjectTicketFailure, EnsureTicketProjectionCode,
       ReserveOrderFailure, reservationRPCError, ReserveTicketForOrderCode,
       ReleaseTicketReservationCode, CancelOrderFailure, mapOrdersError, StartPaymentCode, Lookup

\* The statuses of the errors that coordinators report.
LEMMA CoordinatorStatuses ==
  /\ ErrorStatus("UpdateTicket", "Forbidden") = 403
  /\ ErrorStatus("UpdateTicket", "Reserved") = 403
  /\ ErrorStatus("UpdateTicket", "NotFound") = 404
  /\ ErrorStatus("UpdateTicket", "Permanent") = 500
  /\ ErrorStatus("CreateTicket", "Permanent") = 500
  /\ ErrorStatus("CreateOrder", "NotFound") = 404
  /\ ErrorStatus("CreateOrder", "Reserved") = 409
  /\ ErrorStatus("CancelOrder", "OrderNotFound") = 404
  /\ ErrorStatus("CancelOrder", "OrderNotCancelable") = 409
  /\ ErrorStatus("CreatePayment", "OrderNotFound") = 404
  /\ ErrorStatus("CreatePayment", "OrderNotPayable") = 409
BY DEF ErrorStatus, throwGatewayGrpcError, httpStatusFromGrpcCode, Lookup, ServerCode,
   CreateTicketCode, UpdateTicketCode, CreateOrderCode, CancelOrderCode, CreatePaymentCode

\* The two activities of every workflow.
LEMMA Activities ==
  /\ Workflow["CreateTicket"][1] = "PersistTicket"
  /\ Workflow["CreateTicket"][2] = "ProjectTicketToOrders"
  /\ Workflow["UpdateTicket"][1] = "PersistTicketUpdate"
  /\ Workflow["UpdateTicket"][2] = "ProjectTicketToOrders"
  /\ Workflow["CreateOrder"][1] = "ReserveOrder"
  /\ Workflow["CreateOrder"][2] = "ClaimTicket"
  /\ Workflow["CancelOrder"][1] = "CancelOrder"
  /\ Workflow["CancelOrder"][2] = "ReleaseTicket"
  /\ Workflow["CreatePayment"][1] = "StartOrderPayment"
  /\ Workflow["CreatePayment"][2] = "PersistPayment"
BY DEF Workflow

\* Through all the tables a refusal keeps its meaning: an activity fails for good on what
\* its repository refused, and what the browser is told of it is what was refused, or
\* nothing definite.
LEMMA RefusalKeepsMeaning ==
  ASSUME NEW command \in AllCommands, NEW n \in {1, 2},
         NEW e \in RepositoryErrors(Workflow[command][n]),
         ActivityFailure(Workflow[command][n], e) # NULL
  PROVE  /\ ActivityFailure(Workflow[command][n], e) \in FailureTypes
         /\ e \notin {"Transient", "ProjectionOutOfOrder"}
         /\ StatusOfFailure(command, ActivityFailure(Workflow[command][n], e))
              \in {StatusOfCause(command, e), 500}
<1> DEFINE f == ActivityFailure(Workflow[command][n], e)
<1> USE Activities, ErrorsFound, CoordinatorStatuses DEF FailureTypes, StatusOfCause, StatusOfFailure
<1>1. CASE command = "CreateTicket"
  <2>1. f = "InvalidProjection" /\ e = "ProjectionConflict"
    BY <1>1, ActivityTables
  <2>2. CoordinatorError(command, f) = "Permanent"
    BY <1>1, <2>1 DEF CoordinatorError, CreateTicketError, Lookup
  <2>3. QED
    BY <1>1, <2>1, <2>2
<1>2. CASE command = "UpdateTicket"
  <2>1. \/ e = "Forbidden" /\ f = "TicketUpdateForbidden"
        \/ e = "Reserved" /\ f = "TicketUpdateReserved"
        \/ e = "NotFound" /\ f = "TicketUpdateNotFound"
        \/ e = "MalformedID" /\ f = "InvalidTicketUpdate"
        \/ e = "ProjectionConflict" /\ f = "InvalidProjection"
    BY <1>2, ActivityTables
  <2>2. CoordinatorError(command, f) = CASE e \in {"Forbidden", "Reserved", "NotFound"} -> e
                                         [] OTHER -> "Permanent"
    BY <1>2, <2>1 DEF CoordinatorError, UpdateTicketError, Lookup
  <2>3. QED
    BY <1>2, <2>1, <2>2
<1>3. CASE command = "CreateOrder"
  <2>1. \/ e = "NotFound" /\ f = "ProjectedTicketNotFound"
        \/ e = "Reserved" /\ f = "TicketAlreadyReserved"
    BY <1>3, ActivityTables
  <2>2. CoordinatorError(command, f) = e
    BY <1>3, <2>1 DEF CoordinatorError, reservationWorkflowError, Lookup
  <2>3. QED
    BY <1>3, <2>1, <2>2
<1>4. CASE command = "CancelOrder"
  <2>1. e = f /\ e \in {"OrderNotFound", "OrderNotCancelable"}
    BY <1>4, ActivityTables
  <2>2. CoordinatorError(command, f) = e
    BY <1>4, <2>1 DEF CoordinatorError, reservationWorkflowError, Lookup
  <2>3. QED
    BY <1>4, <2>1, <2>2
<1>5. CASE command = "CreatePayment"
  <2>1. e = f /\ e \in {"OrderNotFound", "OrderNotPayable"}
    BY <1>5, ActivityTables
  <2>2. CoordinatorError(command, f) = e
    BY <1>5, <2>1 DEF CoordinatorError, createPaymentWorkflowError, Lookup
  <2>3. QED
    BY <1>5, <2>1, <2>2
<1>6. QED
  BY <1>1, <1>2, <1>3, <1>4, <1>5 DEF AllCommands

-------------------------------------------------------------------------------
\* Lemmas about calls and their operations.
LEMMA CallType ==
  ASSUME NEW c \in Calls
  PROVE  /\ c.command \in AllCommands \cup Queries
         /\ c.key \in {"none", "empty", "given"}
         /\ c.command \notin TicketEdits => c.key = "none"
BY CommandsAssumption DEF Calls, AllCommands, Queries, TicketEdits

\* An accepted command has an operation, unless the coordinator makes up an ID.
LEMMA OperationType ==
  ASSUME NEW r \in Requests, call[r] \in Calls, Valid(call[r]), Command(r) \in AllCommands,
         Operation(r) # NULL
  PROVE  Operation(r) \in Operations /\ Operation(r)[1] = Command(r)
<1>1. /\ call[r].key \in {"none", "empty", "given"}
      /\ call[r].command \notin {"CreateTicket", "UpdateTicket"} => call[r].key = "none"
  BY CallType DEF TicketEdits
<1>2. Operation(r) = <<Command(r), call[r].key>>
  BY DEF Operation
<1>3. Command(r) # "CreateOrder"
  BY DEF Operation
<1>4. Command(r) = "CreateTicket" => call[r].key # "none"
  BY DEF Operation
<1>5. QED
  BY <1>1, <1>2, <1>3, <1>4 DEF Operations, AllCommands, Valid, Command

\* A request that waits or has waited for a run asked for what the run does.
LEMMA SameCommand ==
  ASSUME RequestsInv, NEW r \in Requests, joined[r] # NULL
  PROVE  /\ joined[r] \in Requests /\ joined[joined[r]] = joined[r]
         /\ Command(joined[r]) = Command(r)
         /\ Command(r) \in AllCommands
<1> DEFINE s == joined[r]
<1>1. /\ s \in Requests /\ s # NULL /\ step[s] > 0 /\ joined[s] = s
      /\ Command(r) \in AllCommands /\ Valid(call[r]) /\ call[r] \in Calls
      /\ s # r => Operation(r) # NULL /\ Operation(s) = Operation(r)
  BY DEF RequestsInv, TypeOK, RunsInv, HandlersInv
<1>2. Command(s) \in AllCommands /\ Valid(call[s]) /\ call[s] \in Calls
  BY <1>1 DEF RequestsInv, HandlersInv
<1>3. ASSUME s # r PROVE Command(s) = Command(r)
  BY <1>1, <1>2, <1>3, OperationType
<1>4. QED
  BY <1>1, <1>3

\* The activity of a run that has started is one of its workflow's.
LEMMA RunsCommand ==
  ASSUME RequestsInv, NEW s \in Requests, step[s] > 0
  PROVE  /\ joined[s] = s /\ s # NULL /\ call[s] \in Calls /\ Command(s) \in AllCommands
         /\ stage[s] \in {"waiting", "answered"}
BY NullAssumption DEF RequestsInv, TypeOK, RunsInv, HandlersInv

\* A call keeps its operation and a run its activity.
LEMMA SameCalls ==
  ASSUME NEW q, call'[q] = call[q]
  PROVE  /\ Command(q)' = Command(q) /\ Operation(q)' = Operation(q)
         /\ step'[q] = step[q] => Activity(q)' = Activity(q)
BY DEF Command, Operation, Activity

-------------------------------------------------------------------------------
Refusals == {400, 401, 500, 503}

\* Every answer that tells what the invariant asks for keeps it.
LEMMA AnswerKeeps ==
  ASSUME RequestsInv, NEW r \in Requests, NEW st \in Statuses, AnswerWith(r, st),
         stage[r] \in {"received", "authenticated", "accepted", "waiting"},
         UNCHANGED <<call, joined, step, failure, paid, current, process>>,
         \/ UNCHANGED cause
         \/ stage[r] = "authenticated" /\ \E e \in Errors : cause' = [cause EXCEPT ![r] = e],
         IF joined[r] = NULL THEN ToldWithoutRun(r)' ELSE ToldOfRun(r)'
  PROVE  RequestsInv'
<1> USE DEF RequestsInv
<1>1. /\ TypeOK
      /\ stage' = [stage EXCEPT ![r] = "answered"]
      /\ answer' = [answer EXCEPT ![r] = st]
  BY DEF AnswerWith
<1>2. /\ cause' \in [Requests -> Errors \cup {NULL}]
      /\ \A q \in Requests : q # r => cause'[q] = cause[q]
  BY DEF TypeOK
<1>3. failure[r] # NULL => UNCHANGED cause
  BY NullAssumption DEF TypeOK, HandlersInv, RunsInv
<1>4. TypeOK'
  <2>1. stage' \in [Requests -> {"idle", "received", "authenticated", "accepted", "waiting", "answered"}]
    BY <1>1 DEF TypeOK
  <2>2. answer' \in [Requests -> Statuses \cup {NULL}]
    BY <1>1 DEF TypeOK
  <2>3. QED
    BY <1>1, <1>2, <2>1, <2>2 DEF TypeOK
<1>5. HandlersInv'
  BY <1>1, <1>2 DEF TypeOK, HandlersInv, Command
<1>6. RunsInv' /\ CurrentInv'
  BY <1>1, <1>2, <1>3 DEF RunsInv, CurrentInv, Operation, Command, Activity
<1>9. PaidInv'
  BY <1>1 DEF PaidInv, Command
<1>7. ASSUME NEW q \in Requests, answer'[q] # NULL
      PROVE  IF joined'[q] = NULL THEN ToldWithoutRun(q)' ELSE ToldOfRun(q)'
  <2>1. CASE q = r
    BY <1>1, <2>1
  <2>2. CASE q # r
    <3>1. answer'[q] = answer[q] /\ cause'[q] = cause[q]
      BY <1>1, <1>2, <2>2 DEF TypeOK
    <3>2. IF joined[q] = NULL THEN ToldWithoutRun(q) ELSE ToldOfRun(q)
      BY <1>7, <3>1 DEF AnswersInv
    <3>3. QED
      BY <3>1, <3>2 DEF ToldWithoutRun, ToldOfRun, Completed, Command
  <2>3. QED
    BY <2>1, <2>2
<1>8. QED
  BY <1>4, <1>5, <1>6, <1>7, <1>9 DEF AnswersInv

\* The answers of handlers that do not wait for a run.
LEMMA EarlyAnswerKeeps ==
  ASSUME RequestsInv, NEW r \in Requests,
         \/ DenySession(r, "UNAUTHENTICATED", TRUE) \/ DenySession(r, "INTERNAL", TRUE)
         \/ DenySession(r, "UNAVAILABLE", FALSE)
         \/ RefuseInput(r) \/ FindPayment(r) \/ FailToFindPayment(r) \/ AnswerQuery(r)
         \/ (\E e \in Errors : FailQuery(r, e)) \/ FailToConnect(r) \/ FailToStart(r)
  PROVE  RequestsInv'
<1>0. TypeOK /\ HandlersInv
  BY DEF RequestsInv
<1>1. /\ stage[r] \in {"received", "authenticated", "accepted"}
      /\ UNCHANGED <<call, joined, step, failure, paid, current, process>>
  BY Zenon DEF DenySession, RefuseInput, FindPayment, FailToFindPayment, AnswerQuery, FailQuery,
     FailToConnect, FailToStart, runs
<1>2. /\ joined[r] = NULL /\ joined'[r] = NULL
      /\ stage[r] = "authenticated" => cause[r] = NULL
  BY <1>0, <1>1 DEF HandlersInv
<1>3. call[r] \in Calls /\ (stage[r] = "accepted" => Command(r) \in AllCommands)
  BY <1>0, <1>1 DEF HandlersInv
<1>4. /\ throwGatewayGrpcError("UNAUTHENTICATED", TRUE) \in Refusals
      /\ throwGatewayGrpcError("INTERNAL", TRUE) \in Refusals
      /\ throwGatewayGrpcError("INVALID_ARGUMENT", TRUE) \in Refusals
      /\ throwGatewayGrpcError("UNAVAILABLE", FALSE) \in Refusals
  BY DEF Refusals, throwGatewayGrpcError, httpStatusFromGrpcCode, Lookup
<1>5. ASSUME NEW st \in Refusals, AnswerWith(r, st), UNCHANGED cause
      PROVE  RequestsInv'
  <2>1. answer'[r] = st
    BY <1>0, <1>5 DEF AnswerWith, TypeOK
  <2>2. ToldWithoutRun(r)'
    BY <1>5, <2>1 DEF ToldWithoutRun, Refusals
  <2>3. st \in Statuses
    BY DEF Statuses, Refusals
  <2>4. QED
    BY <1>1, <1>2, <1>5, <2>2, <2>3, AnswerKeeps
<1>6. CASE \/ DenySession(r, "UNAUTHENTICATED", TRUE) \/ DenySession(r, "INTERNAL", TRUE)
           \/ DenySession(r, "UNAVAILABLE", FALSE) \/ RefuseInput(r) \/ FailToConnect(r)
  <2>1. \/ AnswerWith(r, throwGatewayGrpcError("UNAUTHENTICATED", TRUE))
        \/ AnswerWith(r, throwGatewayGrpcError("INTERNAL", TRUE))
        \/ AnswerWith(r, throwGatewayGrpcError("INVALID_ARGUMENT", TRUE))
        \/ AnswerWith(r, throwGatewayGrpcError("UNAVAILABLE", FALSE))
    BY <1>6, Zenon DEF DenySession, RefuseInput, FailToConnect
  <2>2. UNCHANGED cause
    BY <1>6, Zenon DEF DenySession, RefuseInput, FailToConnect, runs
  <2>3. QED
    BY <1>4, <1>5, <2>1, <2>2, Zenon
<1>7. CASE FailToFindPayment(r)
  <2>1. ErrorStatus(Command(r), "Transient") \in Refusals
    BY <1>7, UnavailableStatus DEF FailToFindPayment, AllCommands, Refusals
  <2>2. QED
    BY <1>5, <1>7, <2>1, Zenon DEF FailToFindPayment, AnswerError, runs
<1>8. CASE FailToStart(r)
  <2>1. ErrorStatus(Command(r), "Unavailable") \in Refusals
    BY <1>3, <1>8, UnavailableStatus DEF FailToStart, Refusals
  <2>2. QED
    BY <1>5, <1>8, <2>1, Zenon DEF FailToStart, AnswerError, runs
<1>9. CASE FindPayment(r)
  <2>1. AnswerWith(r, 200) /\ answer'[r] = 200 /\ UNCHANGED cause
    BY <1>0, <1>9 DEF FindPayment, AnswerWith, TypeOK, runs
  <2>2. ToldWithoutRun(r)'
    BY <1>1, <1>9, <2>1 DEF ToldWithoutRun, FindPayment, Command
  <2>3. 200 \in Statuses
    BY DEF Statuses
  <2>4. QED
    BY <1>1, <1>2, <2>1, <2>2, <2>3, AnswerKeeps
<1>10. CASE AnswerQuery(r)
  <2>1. AnswerWith(r, 200) /\ answer'[r] = 200 /\ UNCHANGED cause
    BY <1>0, <1>10 DEF AnswerQuery, AnswerWith, TypeOK, runs
  <2>2. ToldWithoutRun(r)'
    BY <1>1, <1>2, <1>10, <2>1 DEF ToldWithoutRun, AnswerQuery, Command
  <2>3. 200 \in Statuses
    BY DEF Statuses
  <2>4. QED
    BY <1>1, <1>2, <2>1, <2>2, <2>3, AnswerKeeps
<1>11. CASE \E e \in Errors : FailQuery(r, e)
  <2>1. PICK e \in Errors : FailQuery(r, e)
    BY <1>11
  <2> DEFINE st == ErrorStatus(Command(r), e)
  <2>2. Command(r) \in Queries /\ e \in RepositoryErrors(Command(r)) /\ stage[r] = "authenticated"
    BY <2>1 DEF FailQuery
  <2>3. st = StatusOfCause(Command(r), e) /\ st \in Statuses
    BY <2>2, QueryTables, ErrorStatuses DEF Statuses
  <2>4. AnswerWith(r, st) /\ cause' = [cause EXCEPT ![r] = e]
    BY <2>1 DEF FailQuery, AnswerError
  <2>5. answer'[r] = st /\ cause'[r] = e /\ e # NULL
    BY <1>0, <2>4, AbsenceAssumption DEF AnswerWith, TypeOK
  <2>6. Command(r)' = Command(r)
    BY <1>1 DEF Command
  <2>7. ToldWithoutRun(r)'
    BY <2>2, <2>3, <2>5, <2>6 DEF ToldWithoutRun
  <2>8. QED
    BY <1>1, <1>2, <2>2, <2>3, <2>4, <2>7, AnswerKeeps
<1>12. QED
  BY <1>6, <1>7, <1>8, <1>9, <1>10, <1>11

\* The answers of handlers that wait for a run, and of those whose server is lost.
LEMMA LateAnswerKeeps ==
  ASSUME RequestsInv, NEW r \in Requests,
         \/ LoseServer(r) \/ TimeOut(r) \/ FailToRead(r) \/ Fail(r) \/ \E st \in {200, 201} : Succeed(r, st)
  PROVE  RequestsInv'
<1>1. /\ stage[r] \in {"authenticated", "accepted", "waiting"}
      /\ UNCHANGED <<call, joined, step, failure, cause, paid, current, process>>
  BY Zenon DEF LoseServer, TimeOut, FailToRead, Fail, Succeed, runs
<1>2. TypeOK /\ HandlersInv
  BY DEF RequestsInv
<1>3. /\ stage[r] = "waiting" => joined[r] # NULL /\ Command(r) \in AllCommands
      /\ Command(r)' = Command(r)
      /\ Completed(joined[r])' = Completed(joined[r])
  BY <1>1, <1>2 DEF HandlersInv, Command, Completed
<1>4. ASSUME NEW st \in Statuses, AnswerWith(r, st),
             IF joined[r] = NULL THEN st \in Refusals
             ELSE \/ st = 503
                  \/ Command(r) \in TicketEdits /\ st = 500
                  \/ Completed(joined[r]) /\ st \in SuccessStatuses(Command(r))
                  \/ /\ failure[joined[r]] # NULL
                     /\ st = StatusOfFailure(Command(r), failure[joined[r]])
      PROVE  RequestsInv'
  <2>1. answer'[r] = st
    BY <1>2, <1>4 DEF AnswerWith, TypeOK
  <2>2. IF joined[r] = NULL THEN ToldWithoutRun(r)' ELSE ToldOfRun(r)'
    BY <1>1, <1>3, <1>4, <2>1 DEF ToldWithoutRun, ToldOfRun, Refusals
  <2>3. QED
    BY <1>1, <1>4, <2>2, AnswerKeeps
<1>5. CASE LoseServer(r)
  <2>1. throwGatewayGrpcError("UNAVAILABLE", FALSE) = 503
    BY DEF throwGatewayGrpcError
  <2>2. AnswerWith(r, 503)
    BY <1>5, <2>1, Zenon DEF LoseServer
  <2>3. QED
    BY <1>4, <2>2 DEF Statuses, Refusals
<1>6. ASSUME stage[r] = "waiting", AnswerError(r, "Unavailable")
      PROVE  RequestsInv'
  <2>1. stage[r] = "waiting" /\ AnswerError(r, "Unavailable")
    BY <1>6
  <2>2. CASE Command(r) = "UpdateTicket"
    <3>1. ErrorStatus(Command(r), "Unavailable") = 500
      BY <1>3, <2>1, <2>2, UnavailableStatus
    <3>2. AnswerWith(r, 500)
      BY <2>1, <3>1, Zenon DEF AnswerError
    <3>3. QED
      BY <1>3, <1>4, <2>1, <2>2, <3>2 DEF Statuses, TicketEdits
  <2>3. CASE Command(r) # "UpdateTicket"
    <3>1. ErrorStatus(Command(r), "Unavailable") = 503
      BY <1>3, <2>1, <2>3, UnavailableStatus
    <3>2. AnswerWith(r, 503)
      BY <2>1, <3>1, Zenon DEF AnswerError
    <3>3. QED
      BY <1>3, <1>4, <2>1, <3>2 DEF Statuses
  <2>4. QED
    BY <2>2, <2>3
<1>7. CASE Fail(r)
  <2> DEFINE st == StatusOfFailure(Command(r), failure[joined[r]])
  <2>1. /\ stage[r] = "waiting" /\ failure[joined[r]] # NULL
        /\ AnswerWith(r, st)
    BY <1>7, Zenon DEF Fail, AnswerError, StatusOfFailure
  <2>2. st \in Statuses
    BY <1>3, <2>1, ErrorStatuses DEF Statuses, StatusOfFailure
  <2> HIDE DEF st
  <2>3. st = StatusOfFailure(Command(r), failure[joined[r]])
    BY DEF st
  <2>4. QED
    BY <1>3, <1>4, <2>1, <2>2, <2>3
<1>8. CASE \E st \in {200, 201} : Succeed(r, st)
  <2>1. PICK st \in {200, 201} : Succeed(r, st)
    BY <1>8
  <2>2. /\ stage[r] = "waiting" /\ Completed(joined[r])
        /\ st \in SuccessStatuses(Command(r)) /\ AnswerWith(r, st)
    BY <2>1, Zenon DEF Succeed
  <2>3. st \in Statuses
    BY DEF Statuses
  <2>4. QED
    BY <1>3, <1>4, <2>2, <2>3
<1>9. CASE TimeOut(r)
  BY <1>6, <1>9, Zenon DEF TimeOut
<1>10. CASE FailToRead(r)
  <2>1. stage[r] = "waiting" /\ AnswerError(r, ReadError(Command(r)))
    BY <1>10, Zenon DEF FailToRead
  <2>2. CASE Command(r) = "CreateTicket"
    <3>1. ErrorStatus(Command(r), ReadError(Command(r))) = 500
      BY <2>2, CoordinatorStatuses DEF ReadError
    <3>2. AnswerWith(r, 500)
      BY <2>1, <3>1, Zenon DEF AnswerError
    <3>3. QED
      BY <1>3, <1>4, <2>1, <2>2, <3>2 DEF Statuses, TicketEdits
  <2>3. CASE Command(r) # "CreateTicket"
    <3>1. ReadError(Command(r)) = "Unavailable"
      BY <2>3 DEF ReadError
    <3>2. QED
      BY <1>6, <2>1, <3>1, Zenon
  <2>4. QED
    BY <2>2, <2>3
<1>11. QED
  BY <1>5, <1>7, <1>8, <1>9, <1>10

-------------------------------------------------------------------------------
\* A new request is nobody's run.
LEMMA ReceiveKeeps ==
  ASSUME RequestsInv, NEW r \in Requests, NEW c \in Calls, Receive(r, c)
  PROVE  RequestsInv'
<1> USE DEF RequestsInv
<1>1. /\ stage[r] = "idle" /\ call' = [call EXCEPT ![r] = c]
      /\ \E st \in {"received", "authenticated"} : stage' = [stage EXCEPT ![r] = st]
      /\ UNCHANGED <<answer, joined, step, failure, cause, paid, current, process>>
  BY DEF Receive, Advance, runs
<1>2. /\ answer[r] = NULL /\ joined[r] = NULL /\ step[r] = 0
      /\ \A q \in Requests : joined[q] # r
      /\ \A o \in Operations : current[o] # r
  BY <1>1, NullAssumption DEF TypeOK, HandlersInv, RunsInv, CurrentInv
<1>3. \A q \in Requests : q # r => call'[q] = call[q] /\ stage'[q] = stage[q]
  BY <1>1 DEF TypeOK
<1>4. TypeOK'
  BY <1>1 DEF TypeOK
<1>5. HandlersInv'
  BY <1>1, <1>2, <1>3 DEF TypeOK, HandlersInv, Command
<1>11. /\ failure[r] = NULL
      /\ \A q \in Requests : q # r => /\ Operation(q)' = Operation(q) /\ Command(q)' = Command(q)
                                      /\ Activity(q)' = Activity(q)
  BY <1>1, <1>2, <1>3, SameCalls DEF TypeOK, RunsInv
<1>6. RunsInv'
  BY <1>1, <1>2, <1>3, <1>11, NullAssumption DEF TypeOK, RunsInv
<1>7. CurrentInv'
  BY <1>1, <1>2, <1>3, <1>11, NullAssumption DEF TypeOK, CurrentInv
<1>8. PaidInv'
  BY <1>1, <1>2, <1>3 DEF PaidInv, Command
<1>9. AnswersInv'
  BY <1>1, <1>2, <1>3 DEF TypeOK, AnswersInv, ToldWithoutRun, ToldOfRun, Completed, Command
<1>10. QED
  BY <1>4, <1>5, <1>6, <1>7, <1>8, <1>9

\* A handler goes on.
LEMMA AdvanceKeeps ==
  ASSUME RequestsInv, NEW r \in Requests, Authenticate(r) \/ Accept(r)
  PROVE  RequestsInv'
<1> USE DEF RequestsInv
<1>1. /\ stage[r] \in {"received", "authenticated"}
      /\ \/ stage' = [stage EXCEPT ![r] = "authenticated"]
         \/ /\ stage' = [stage EXCEPT ![r] = "accepted"]
            /\ Valid(call[r]) /\ Command(r) \notin Queries
      /\ UNCHANGED <<call, answer, joined, step, failure, cause, paid, current, process>>
  BY DEF Authenticate, Accept, Advance, runs
<1>2. TypeOK'
  BY <1>1 DEF TypeOK
<1>3. HandlersInv'
  BY <1>1, CallType DEF TypeOK, HandlersInv, Command
<1>4. RunsInv' /\ CurrentInv' /\ PaidInv'
  BY <1>1 DEF RunsInv, CurrentInv, PaidInv, Operation, Command, Activity
<1>5. AnswersInv'
  BY <1>1 DEF AnswersInv, ToldWithoutRun, ToldOfRun, Completed, Command
<1>6. QED
  BY <1>2, <1>3, <1>4, <1>5

\* A request joins the run of its operation ...
LEMMA JoinKeeps ==
  ASSUME RequestsInv, NEW r \in Requests, JoinRun(r)
  PROVE  RequestsInv'
<1> USE DEF RequestsInv
<1>1. /\ stage[r] = "accepted" /\ stage' = [stage EXCEPT ![r] = "waiting"]
      /\ joined' = [joined EXCEPT ![r] = current[Operation(r)]]
      /\ Operation(r) # NULL /\ current[Operation(r)] # NULL
      /\ UNCHANGED <<call, answer, step, failure, cause, paid, current, process>>
  BY DEF JoinRun, Joinable, Advance, runs
<1>2. /\ call[r] \in Calls /\ Valid(call[r]) /\ Command(r) \in AllCommands
      /\ answer[r] = NULL /\ joined[r] = NULL /\ step[r] = 0
  BY <1>1, NullAssumption DEF TypeOK, HandlersInv, RunsInv
<1>3. Operation(r) \in Operations
  BY <1>1, <1>2, OperationType
<1>4. PICK s \in Requests : /\ s = current[Operation(r)] /\ s # NULL
                            /\ step[s] > 0 /\ Operation(s) = Operation(r)
  BY <1>1, <1>3 DEF TypeOK, CurrentInv
<1>5. joined' = [joined EXCEPT ![r] = s] /\ joined[s] = s /\ s # r
  BY <1>1, <1>2, <1>4 DEF RunsInv
<1>6. TypeOK'
  BY <1>1, <1>5 DEF TypeOK
<1>7. HandlersInv'
  BY <1>1, <1>2, <1>4, <1>5 DEF TypeOK, HandlersInv, Command
<1>0. \A q : /\ Operation(q)' = Operation(q) /\ Command(q)' = Command(q)
             /\ Activity(q)' = Activity(q)
  BY <1>1, SameCalls
<1>8. RunsInv'
  BY <1>0, <1>1, <1>2, <1>4, <1>5 DEF TypeOK, RunsInv
<1>9. CurrentInv'
  BY <1>0, <1>1, <1>4, <1>5 DEF TypeOK, CurrentInv
<1>10. AnswersInv'
  BY <1>1, <1>2, <1>5
     DEF TypeOK, AnswersInv, ToldWithoutRun, ToldOfRun, Completed, Command
<1>11. PaidInv'
  BY <1>0, <1>1 DEF PaidInv
<1>12. QED
  BY <1>6, <1>7, <1>8, <1>9, <1>10, <1>11

\* ... or starts one, for a ticket's creation only where there has been none.
LEMMA StartKeeps ==
  ASSUME RequestsInv, NEW r \in Requests, StartRun(r)
  PROVE  RequestsInv'
<1> USE DEF RequestsInv
<1>1. /\ stage[r] = "accepted" /\ stage' = [stage EXCEPT ![r] = "waiting"]
      /\ joined' = [joined EXCEPT ![r] = r] /\ step' = [step EXCEPT ![r] = 1]
      /\ UNCHANGED <<call, answer, failure, cause, paid, process>>
  BY DEF StartRun, Advance
<1>2. /\ call[r] \in Calls /\ Valid(call[r]) /\ Command(r) \in AllCommands
      /\ answer[r] = NULL /\ joined[r] = NULL /\ step[r] = 0 /\ failure[r] = NULL
      /\ \A q \in Requests : joined[q] # r
      /\ \A o \in Operations : current[o] # r
  BY <1>1, NullAssumption DEF TypeOK, HandlersInv, RunsInv, CurrentInv
<1>3. /\ Operation(r) = NULL => UNCHANGED current
      /\ Operation(r) # NULL =>
           /\ Operation(r) \in Operations /\ current' = [current EXCEPT ![Operation(r)] = r]
           /\ Command(r) = "CreateTicket" => current[Operation(r)] = NULL
  BY <1>2, OperationType DEF StartRun, Startable
<1>4. TypeOK'
  BY <1>1, <1>3 DEF TypeOK
<1>5. HandlersInv'
  BY <1>1, <1>2 DEF TypeOK, HandlersInv, Command
<1>11. \A q : /\ Operation(q)' = Operation(q) /\ Command(q)' = Command(q)
              /\ step'[q] = step[q] => Activity(q)' = Activity(q)
  BY <1>1, SameCalls
<1>12. /\ r # NULL /\ step'[r] > 0 /\ joined'[r] = r
       /\ \A q \in Requests : q # r => step'[q] = step[q] /\ joined'[q] = joined[q]
  BY <1>1, NullAssumption DEF TypeOK
<1>6. RunsInv'
  <2>1. ASSUME NEW q \in Requests, NEW s \in Requests, joined'[q] = s
        PROVE  step'[s] > 0 /\ (s # q => Operation(q) # NULL /\ Operation(s) = Operation(q))
    BY <1>12, <1>2, <2>1 DEF RunsInv
  <2>2. ASSUME NEW q \in Requests
        PROVE  step'[q] > 0 => joined'[q] = q
    BY <1>12 DEF RunsInv
  <2>3. ASSUME NEW q \in Requests, failure'[q] # NULL
        PROVE  /\ step'[q] \in {1, 2} /\ cause'[q] \in RepositoryErrors(Activity(q)')
               /\ failure'[q] = ActivityFailure(Activity(q)', cause'[q])
    <3>1. q # r /\ failure[q] # NULL /\ failure'[q] = failure[q] /\ cause'[q] = cause[q]
      BY <1>1, <1>2, <2>3
    <3>2. Activity(q)' = Activity(q) /\ step'[q] = step[q]
      BY <1>11, <1>12, <3>1
    <3>3. /\ step[q] \in {1, 2} /\ cause[q] \in RepositoryErrors(Activity(q))
          /\ failure[q] = ActivityFailure(Activity(q), cause[q])
      BY <3>1 DEF RunsInv
    <3>4. QED
      BY <3>1, <3>2, <3>3
  <2>4. \A q : Operation(q)' = Operation(q)
    BY <1>11
  <2>5. QED
    BY <2>1, <2>2, <2>3, <2>4 DEF RunsInv
<1>7. CurrentInv'
  <2>1. ASSUME NEW o \in Operations, NEW s \in Requests, current'[o] = s
        PROVE  step'[s] > 0 /\ Operation(s) = o
    <3>1. CASE s = r
      BY <1>1, <1>2, <1>3, <2>1, <3>1 DEF TypeOK
    <3>2. CASE s # r
      BY <1>1, <1>3, <2>1, <3>2 DEF TypeOK, CurrentInv
    <3>3. QED
      BY <3>1, <3>2
  <2>2. ASSUME NEW o \in Operations, NEW q \in Requests, joined'[q] # NULL,
               Command(q) = "CreateTicket", Operation(q) = o
        PROVE  current'[o] = joined'[q]
    <3>0. o # NULL
      BY AbsenceAssumption
    <3>1. CASE q = r
      BY <1>1, <1>3, <2>2, <3>0, <3>1 DEF TypeOK
    <3>2. CASE q # r
      <4>1. joined'[q] = joined[q] /\ joined[q] # NULL /\ current[o] = joined[q]
        BY <1>1, <2>2, <3>2 DEF TypeOK, CurrentInv
      <4>2. Operation(r) = o => Command(r) = "CreateTicket"
        BY <1>2, <2>2, <3>0, <4>1, OperationType DEF HandlersInv
      <4>3. Operation(r) # o
        BY <1>3, <3>0, <4>1, <4>2
      <4>4. QED
        BY <1>3, <4>1, <4>3 DEF TypeOK
    <3>3. QED
      BY <3>1, <3>2
  <2>3. \A q : Operation(q)' = Operation(q) /\ Command(q)' = Command(q)
    BY <1>11
  <2>4. QED
    BY <2>1, <2>2, <2>3 DEF CurrentInv
<1>8. PaidInv'
  BY <1>1, <1>2, <1>11, <1>12 DEF PaidInv
<1>9. AnswersInv'
  BY <1>1, <1>2 DEF TypeOK, AnswersInv, ToldWithoutRun, ToldOfRun, Completed, Command
<1>10. QED
  BY <1>4, <1>5, <1>6, <1>7, <1>8, <1>9

-------------------------------------------------------------------------------
\* Only a payment's run persists a payment, as its second activity.
LEMMA PaymentsActivity ==
  ASSUME RequestsInv, NEW r \in Requests, step[r] \in {1, 2}, Activity(r) = "PersistPayment"
  PROVE  Command(r) = "CreatePayment" /\ step[r] = 2
<1>1. Command(r) \in AllCommands
  BY RunsCommand
<1>2. QED
  BY <1>1, Activities DEF AllCommands, Activity

\* An activity is done: what was told of the run before remains true.
LEMMA CompleteKeeps ==
  ASSUME RequestsInv, NEW r \in Requests, CompleteActivity(r)
  PROVE  RequestsInv'
<1> USE DEF RequestsInv
<1>1. /\ step[r] \in {1, 2} /\ failure[r] = NULL
      /\ step' = [step EXCEPT ![r] = step[r] + 1]
      /\ paid' = (paid \/ Activity(r) = "PersistPayment")
      /\ UNCHANGED <<call, stage, answer, joined, failure, cause, current, process>>
  BY DEF CompleteActivity, Executable, Ended, http
<1>2. \A q : Operation(q)' = Operation(q) /\ Command(q)' = Command(q)
  BY <1>1, SameCalls
<1>3. /\ step'[r] \in {2, 3}
      /\ \A q \in Requests : q # r => step'[q] = step[q] /\ Activity(q)' = Activity(q)
  BY <1>1, SameCalls DEF TypeOK
<1>4. TypeOK'
  <2>1. paid' \in BOOLEAN
    BY <1>1
  <2>2. QED
    BY <1>1, <2>1 DEF TypeOK
<1>5. HandlersInv'
  BY <1>1, <1>2 DEF HandlersInv
<1>6. RunsInv'
  <2>1. ASSUME NEW q \in Requests, NEW s \in Requests, joined[q] = s
        PROVE  step'[s] > 0 /\ (s # q => Operation(q) # NULL /\ Operation(s) = Operation(q))
    BY <1>3, <2>1 DEF RunsInv
  <2>2. ASSUME NEW q \in Requests
        PROVE  step'[q] > 0 => joined[q] = q
    BY <1>1, <1>3 DEF RunsInv
  <2>3. ASSUME NEW q \in Requests, failure[q] # NULL
        PROVE  /\ step'[q] \in {1, 2} /\ cause[q] \in RepositoryErrors(Activity(q)')
               /\ failure[q] = ActivityFailure(Activity(q)', cause[q])
    BY <1>1, <1>3, <2>3 DEF RunsInv
  <2>4. QED
    BY <1>1, <1>2, <2>1, <2>2, <2>3 DEF RunsInv
<1>7. CurrentInv'
  BY <1>1, <1>2, <1>3 DEF CurrentInv
<1>8. \A q \in Requests : Completed(q) => Completed(q)'
  BY <1>1, <1>3 DEF Completed
<1>9. PaidInv'
  <2>1. CASE paid
    BY <1>2, <1>3, <2>1 DEF PaidInv
  <2>2. CASE paid' /\ ~paid
    <3>1. Command(r) = "CreatePayment"
      BY <1>1, <2>2, PaymentsActivity
    <3>2. QED
      BY <1>2, <1>3, <3>1 DEF PaidInv
  <2>3. QED
    BY <2>1, <2>2 DEF PaidInv
<1>12. paid => paid'
  BY <1>1, Zenon
<1>10. AnswersInv'
  <2>1. ASSUME NEW q \in Requests, answer[q] # NULL, joined[q] = NULL
        PROVE  ToldWithoutRun(q)'
    BY <1>1, <1>2, <1>12, <2>1 DEF AnswersInv, ToldWithoutRun
  <2>2. ASSUME NEW q \in Requests, answer[q] # NULL, joined[q] # NULL
        PROVE  ToldOfRun(q)'
    <3>1. PICK s \in Requests : joined[q] = s /\ joined'[q] = s
      BY <1>1, <2>2 DEF TypeOK
    <3>2. ToldOfRun(q)
      BY <2>2 DEF AnswersInv
    <3>3. Completed(s) => Completed(s)'
      BY <1>8
    <3>4. QED
      BY <1>1, <1>2, <3>1, <3>2, <3>3 DEF ToldOfRun, Completed
  <2>3. QED
    BY <1>1, <2>1, <2>2 DEF AnswersInv
<1>11. QED
  BY <1>4, <1>5, <1>6, <1>7, <1>9, <1>10

\* A payment is persisted whose result is lost: there is a payment from then on.
LEMMA LostResultKeeps ==
  ASSUME RequestsInv, NEW r \in Requests, LosePersistResult(r)
  PROVE  RequestsInv'
<1> USE DEF RequestsInv
<1>1. /\ step[r] \in {1, 2} /\ Activity(r) = "PersistPayment" /\ paid' = TRUE
      /\ UNCHANGED <<call, stage, answer, joined, step, failure, cause, current, process>>
  BY DEF LosePersistResult, Executable, http
<1>2. \A q : /\ Operation(q)' = Operation(q) /\ Command(q)' = Command(q)
             /\ Activity(q)' = Activity(q) /\ Completed(q)' = Completed(q)
  BY <1>1, SameCalls DEF Completed
<1>3. TypeOK'
  BY <1>1 DEF TypeOK
<1>4. HandlersInv' /\ RunsInv' /\ CurrentInv'
  BY <1>1, <1>2 DEF HandlersInv, RunsInv, CurrentInv
<1>5. PaidInv'
  <2>1. Command(r) = "CreatePayment" /\ step[r] = 2
    BY <1>1, PaymentsActivity
  <2>2. QED
    BY <1>1, <1>2, <2>1 DEF PaidInv
<1>6. ASSUME NEW q \in Requests
      PROVE  /\ ToldWithoutRun(q) => ToldWithoutRun(q)'
             /\ ToldOfRun(q) => ToldOfRun(q)'
  BY <1>1, <1>2 DEF ToldWithoutRun, ToldOfRun, Completed
<1>7. AnswersInv'
  BY <1>1, <1>6 DEF AnswersInv
<1>8. QED
  BY <1>3, <1>4, <1>5, <1>7

\* An activity fails for good: nothing definite had been told of the run.
LEMMA FailureKeeps ==
  ASSUME RequestsInv, NEW r \in Requests, NEW e \in Errors, FailActivity(r, e)
  PROVE  RequestsInv'
<1> USE DEF RequestsInv
<1> DEFINE f == ActivityFailure(Activity(r), e)
<1>1. /\ step[r] \in {1, 2} /\ failure[r] = NULL
      /\ e \in RepositoryErrors(Activity(r)) /\ f # NULL
      /\ failure' = [failure EXCEPT ![r] = f] /\ cause' = [cause EXCEPT ![r] = e]
      /\ UNCHANGED <<call, stage, answer, joined, step, paid, current, process>>
  BY DEF FailActivity, Executable, Ended, http
<1>2. \A q : /\ Operation(q)' = Operation(q) /\ Command(q)' = Command(q)
             /\ Activity(q)' = Activity(q)
  BY <1>1, SameCalls
<1>3. /\ joined[r] = r /\ r # NULL /\ Command(r) \in AllCommands
      /\ stage[r] \in {"waiting", "answered"}
  BY <1>1, RunsCommand
<1>4. f \in FailureTypes
  BY <1>1, <1>3, RefusalKeepsMeaning DEF Activity
<1> HIDE DEF f
<1>5. /\ failure'[r] = f /\ cause'[r] = e
      /\ \A q \in Requests : q # r => failure'[q] = failure[q] /\ cause'[q] = cause[q]
  BY <1>1 DEF TypeOK
<1>6. TypeOK'
  BY <1>1, <1>4 DEF TypeOK
<1>7. HandlersInv'
  BY <1>1, <1>2, <1>3, <1>5 DEF HandlersInv
<1>8. RunsInv'
  <2>1. ASSUME NEW q \in Requests, failure'[q] # NULL
        PROVE  /\ step[q] \in {1, 2} /\ cause'[q] \in RepositoryErrors(Activity(q))
               /\ failure'[q] = ActivityFailure(Activity(q), cause'[q])
    <3>1. CASE q = r
      BY <1>1, <1>5, <3>1 DEF f
    <3>2. CASE q # r
      BY <1>5, <2>1, <3>2 DEF RunsInv
    <3>3. QED
      BY <3>1, <3>2
  <2>2. QED
    BY <1>1, <1>2, <2>1 DEF RunsInv
<1>9. CurrentInv' /\ PaidInv'
  BY <1>1, <1>2 DEF CurrentInv, PaidInv
<1>10. \A q : Completed(q)' = Completed(q)
  BY <1>1 DEF Completed
<1>11. AnswersInv'
  <2>1. ASSUME NEW q \in Requests, answer[q] # NULL, joined[q] = NULL
        PROVE  ToldWithoutRun(q)'
    <3>1. q # r
      BY <1>3, <2>1
    <3>2. QED
      BY <1>1, <1>2, <1>5, <2>1, <3>1 DEF AnswersInv, ToldWithoutRun
  <2>2. ASSUME NEW q \in Requests, answer[q] # NULL, joined[q] # NULL
        PROVE  ToldOfRun(q)'
    <3>1. PICK s \in Requests : joined[q] = s /\ joined'[q] = s
      BY <1>1, <2>2 DEF TypeOK
    <3>2. ToldOfRun(q)
      BY <2>2 DEF AnswersInv
    <3>3. failure[s] # NULL => failure'[s] = failure[s]
      BY <1>1, <1>5
    <3>4. QED
      BY <1>1, <1>2, <3>1, <3>2, <3>3 DEF ToldOfRun, Completed
  <2>3. QED
    BY <1>1, <2>1, <2>2 DEF AnswersInv
<1>12. QED
  BY <1>6, <1>7, <1>8, <1>9, <1>11

\* What happens to the services' processes touches no request.
LEMMA ProcessKeeps ==
  ASSUME RequestsInv,
         \/ UNCHANGED vars
         \/ \E v \in Services : Terminate(v) \/ Exit(v) \/ Start(v)
  PROVE  RequestsInv'
<1> USE DEF RequestsInv
<1>1. /\ UNCHANGED <<call, stage, answer, joined, step, failure, cause, paid, current>>
      /\ process \in [Services -> {"up", "draining", "stopped"}]
           => process' \in [Services -> {"up", "draining", "stopped"}]
  BY DEF Terminate, Exit, Start, vars, http, runs
<1>2. TypeOK'
  BY <1>1 DEF TypeOK
<1>3. \A q : /\ Operation(q)' = Operation(q) /\ Command(q)' = Command(q)
             /\ Activity(q)' = Activity(q) /\ Completed(q)' = Completed(q)
  BY <1>1, SameCalls DEF Completed
<1>4. HandlersInv' /\ RunsInv' /\ CurrentInv' /\ PaidInv'
  BY <1>1, <1>3 DEF HandlersInv, RunsInv, CurrentInv, PaidInv
<1>6. ASSUME NEW q \in Requests
      PROVE  /\ ToldWithoutRun(q)' = ToldWithoutRun(q)
             /\ ToldOfRun(q)' = ToldOfRun(q)
  BY <1>1 DEF ToldWithoutRun, ToldOfRun, Completed, Command
<1>7. AnswersInv'
  BY <1>1, <1>6 DEF AnswersInv
<1>8. QED
  BY <1>2, <1>4, <1>7

-------------------------------------------------------------------------------
\* The invariant at the start ...
LEMMA InitRequests == Init => RequestsInv
<1> SUFFICES ASSUME Init PROVE RequestsInv
  OBVIOUS
<1>1. TypeOK
  <2>1. paid \in BOOLEAN
    BY Zenon DEF Init
  <2>2. QED
    BY <2>1 DEF Init, TypeOK
<1>2. HandlersInv /\ AnswersInv
  BY NullAssumption DEF Init, HandlersInv, AnswersInv
<1>3. RunsInv
  BY NullAssumption DEF Init, RunsInv
<1>4. CurrentInv /\ PaidInv
  BY NullAssumption DEF Init, CurrentInv, PaidInv
<1>5. QED
  BY <1>1, <1>2, <1>3, <1>4 DEF RequestsInv

\* ... and after every step.
LEMMA StepRequests == RequestsInv /\ [Next]_vars => RequestsInv'
<1> SUFFICES ASSUME RequestsInv, [Next]_vars PROVE RequestsInv'
  OBVIOUS
<1>1. ASSUME NEW r \in Requests, NEW c \in Calls, Receive(r, c) PROVE RequestsInv'
  BY <1>1, ReceiveKeeps
<1>2. ASSUME NEW r \in Requests, Handle(r) PROVE RequestsInv'
  <2>1. CASE Authenticate(r) \/ Accept(r)
    BY <2>1, AdvanceKeeps
  <2>2. CASE JoinRun(r)
    BY <2>2, JoinKeeps
  <2>3. CASE StartRun(r)
    BY <2>3, StartKeeps
  <2>4. CASE \/ DenySession(r, "UNAUTHENTICATED", TRUE) \/ RefuseInput(r) \/ FindPayment(r)
             \/ FailToFindPayment(r) \/ AnswerQuery(r) \/ FailToConnect(r) \/ FailToStart(r)
    BY <2>4, EarlyAnswerKeeps, Zenon
  <2>5. CASE TimeOut(r) \/ Fail(r) \/ \E status \in {200, 201} : Succeed(r, status)
    BY <2>5, LateAnswerKeeps, Zenon
  <2>6. QED
    BY <1>2, <2>1, <2>2, <2>3, <2>4, <2>5, Zenon DEF Handle
<1>3. ASSUME NEW r \in Requests,
             DenySession(r, "INTERNAL", TRUE) \/ DenySession(r, "UNAVAILABLE", FALSE)
      PROVE  RequestsInv'
  BY <1>3, EarlyAnswerKeeps, Zenon
<1>4. ASSUME NEW r \in Requests, FailToRead(r) \/ LoseServer(r) PROVE RequestsInv'
  BY <1>4, LateAnswerKeeps, Zenon
<1>5. ASSUME NEW r \in Requests, CompleteActivity(r) PROVE RequestsInv'
  BY <1>5, CompleteKeeps
<1>10. ASSUME NEW r \in Requests, LosePersistResult(r) PROVE RequestsInv'
  BY <1>10, LostResultKeeps
<1>6. ASSUME NEW r \in Requests, NEW e \in Errors, FailActivity(r, e) PROVE RequestsInv'
  BY <1>6, FailureKeeps
<1>7. ASSUME NEW r \in Requests, NEW e \in Errors, FailQuery(r, e) PROVE RequestsInv'
  BY <1>7, EarlyAnswerKeeps, Zenon
<1>8. ASSUME UNCHANGED vars \/ \E v \in Services : Terminate(v) \/ Exit(v) \/ Start(v)
      PROVE  RequestsInv'
  BY <1>8, ProcessKeeps, Zenon
<1>9. QED
  BY <1>1, <1>2, <1>3, <1>4, <1>5, <1>6, <1>7, <1>8, <1>10, Zenon DEF Next

\* The layers stay in step: however requests, retries, timeouts, failing activities and
\* restarts of services interleave, handlers, runs and answers fit together.
THEOREM RequestsInvariant == Spec => []RequestsInv
<1>1. QED
  BY InitRequests, StepRequests, PTL DEF Spec

-------------------------------------------------------------------------------
\* While the run behind a command goes on, the browser is told neither success nor
\* refusal of it: 503, or of a ticket's creation or update 500.
THEOREM OpenRunsAreUndecided == Spec => []OpenRunIsUndecided
<1>1. RequestsInv => OpenRunIsUndecided
  <2> SUFFICES ASSUME RequestsInv, NEW r \in Requests, answer[r] # NULL, joined[r] # NULL,
                      ~Ended(joined[r])
               PROVE  answer[r] = 503 \/ (Command(r) \in TicketEdits /\ answer[r] = 500)
    BY DEF OpenRunIsUndecided, Answered
  <2>1. ToldOfRun(r)
    BY DEF RequestsInv, AnswersInv
  <2>2. QED
    BY <2>1 DEF ToldOfRun, Ended
<1>2. QED
  BY <1>1, RequestsInvariant, PTL

\* All requests with one idempotency key get one ticket; they are told that there is one,
\* or nothing definite, and never that there is one already.
THEOREM KeysNameOneCreation == Spec => []KeyNamesOneCreation
<1>1. RequestsInv => KeyNamesOneCreation
  <2> SUFFICES ASSUME RequestsInv, NEW q \in Requests, NEW r \in Requests,
                      joined[q] # NULL, joined[r] # NULL, Operation(q) = Operation(r),
                      Command(r) = "CreateTicket", Operation(r) # NULL
               PROVE  /\ joined[q] = joined[r]
                      /\ {answer[q], answer[r]} \subseteq {NULL, 201, 500, 503}
    BY DEF KeyNamesOneCreation
  <2>1. /\ call[q] \in Calls /\ Valid(call[q]) /\ Command(q) \in AllCommands
        /\ call[r] \in Calls /\ Valid(call[r]) /\ Command(r) \in AllCommands
    BY DEF RequestsInv, HandlersInv
  <2>2. Operation(r) \in Operations /\ Command(q) = "CreateTicket"
    BY <2>1, OperationType
  <2>3. joined[q] = joined[r]
    BY <2>2 DEF RequestsInv, CurrentInv
  <2>4. \A type : StatusOfFailure("CreateTicket", type) \in {500, 503}
    <3>1. \A type : CoordinatorError("CreateTicket", type) \in {"Permanent", "Unavailable"}
      BY DEF CoordinatorError, CreateTicketError, Lookup
    <3>2. ErrorStatus("CreateTicket", "Unavailable") = 503
      BY UnavailableStatus DEF AllCommands
    <3>3. QED
      BY <3>1, <3>2, CoordinatorStatuses DEF StatusOfFailure
  <2>5. ASSUME NEW p \in Requests, joined[p] # NULL, Command(p) = "CreateTicket"
        PROVE  answer[p] \in {NULL, 201, 500, 503}
    <3>1. answer[p] # NULL => ToldOfRun(p)
      BY <2>5 DEF RequestsInv, AnswersInv
    <3>2. QED
      BY <2>4, <2>5, <3>1 DEF ToldOfRun, SuccessStatuses
  <2>6. QED
    BY <2>2, <2>3, <2>5
<1>2. QED
  BY <1>1, RequestsInvariant, PTL

\* Whoever waits for a run has its worker: a handler is accepted by a process that is up
\* and a process exits only when it has no handler left.
THEOREM WaitersHaveWorkers == Spec => []HandlersHaveWorkers
<1>1. Init => HandlersHaveWorkers
  BY DEF Init, HandlersHaveWorkers
<1>2. TypeOK /\ HandlersHaveWorkers /\ [Next]_vars => HandlersHaveWorkers'
  <2> SUFFICES ASSUME TypeOK, HandlersHaveWorkers, [Next]_vars,
                      NEW q \in Requests, stage'[q] \in {"accepted", "waiting"}
               PROVE  process'[Service(Command(q)')] # "stopped"
    BY DEF HandlersHaveWorkers, Service
  <2> DEFINE Waits == stage[q] \in {"accepted", "waiting"}
             SameHandler == UNCHANGED process /\ call'[q] = call[q] /\ Waits
  <2>1. ASSUME SameHandler PROVE process'[Service(Command(q)')] # "stopped"
    BY <2>1 DEF HandlersHaveWorkers, Command
  <2>2. ASSUME NEW r \in Requests, NEW st,
               stage' = [stage EXCEPT ![r] = st], UNCHANGED <<call, process>>,
               Waits \/ st \notin {"accepted", "waiting"} \/ q # r
        PROVE  SameHandler
    BY <2>2 DEF TypeOK
  <2>3. ASSUME NEW r \in Requests, NEW c \in Calls, Receive(r, c) PROVE SameHandler
    <3>1. /\ \E st \in {"received", "authenticated"} : stage' = [stage EXCEPT ![r] = st]
          /\ call' = [call EXCEPT ![r] = c] /\ UNCHANGED process
      BY <2>3 DEF Receive, Advance
    <3>2. q # r
      BY <3>1 DEF TypeOK
    <3>3. QED
      BY <3>1, <3>2 DEF TypeOK
  <2>4. ASSUME NEW r \in Requests, Handle(r) \/ FailToRead(r) \/ LoseServer(r)
               \/ DenySession(r, "INTERNAL", TRUE) \/ DenySession(r, "UNAVAILABLE", FALSE)
               \/ \E e \in Errors : FailQuery(r, e)
        PROVE  process'[Service(Command(q)')] # "stopped"
    <3>1. CASE Accept(r)
      <4>1. UNCHANGED <<call, process>> /\ stage' = [stage EXCEPT ![r] = "accepted"] /\ Serving(r)
        BY <3>1 DEF Accept, Advance
      <4>2. CASE q = r
        BY <4>1, <4>2 DEF Serving, Command
      <4>3. CASE q # r
        BY <2>1, <2>2, <4>1, <4>3
      <4>4. QED
        BY <4>2, <4>3
    <3>2. CASE JoinRun(r) \/ StartRun(r)
      <4>1. /\ UNCHANGED <<call, process>> /\ stage[r] = "accepted"
            /\ stage' = [stage EXCEPT ![r] = "waiting"]
        BY <3>2 DEF JoinRun, StartRun, Advance
      <4>2. QED
        BY <2>1, <2>2, <4>1
    <3>3. CASE Authenticate(r)
      <4>1. UNCHANGED <<call, process>> /\ stage' = [stage EXCEPT ![r] = "authenticated"]
        BY <3>3 DEF Authenticate, Advance
      <4>2. QED
        BY <2>1, <2>2, <4>1
    <3>4. CASE ~(Accept(r) \/ JoinRun(r) \/ StartRun(r) \/ Authenticate(r))
      <4>1. UNCHANGED <<call, process>> /\ stage' = [stage EXCEPT ![r] = "answered"]
        BY <2>4, <3>4, Zenon DEF Handle, DenySession, RefuseInput, FindPayment, FailToFindPayment,
           AnswerQuery, FailToConnect, FailToStart, Succeed, Fail, FailToRead, TimeOut, LoseServer,
           FailQuery, AnswerError, AnswerWith
      <4>2. QED
        BY <2>1, <2>2, <4>1
    <3>5. QED
      BY <3>1, <3>2, <3>3, <3>4
  <2>5. ASSUME \/ \E r \in Requests : CompleteActivity(r) \/ LosePersistResult(r)
               \/ \E r \in Requests, e \in Errors : FailActivity(r, e)
               \/ UNCHANGED vars
        PROVE  SameHandler
    BY <2>5, Zenon DEF CompleteActivity, LosePersistResult, FailActivity, http, vars
  <2>6. ASSUME NEW v \in Services, Terminate(v) \/ Exit(v) \/ Start(v)
        PROVE  process'[Service(Command(q)')] # "stopped"
    <3>1. UNCHANGED <<call, stage>> /\ Waits
      BY <2>6 DEF Terminate, Exit, Start, http
    <3>2. Service(Command(q)') = Service(Command(q)) /\ process[Service(Command(q))] # "stopped"
      BY <3>1 DEF HandlersHaveWorkers, Command
    <3>3. CASE Exit(v)
      <4>1. v # Service(Command(q)) /\ process' = [process EXCEPT ![v] = "stopped"]
        BY <3>1, <3>3 DEF Exit
      <4>2. QED
        BY <3>2, <4>1 DEF TypeOK
    <3>4. CASE Terminate(v) \/ Start(v)
      <4>1. \E s \in {"up", "draining"} : process' = [process EXCEPT ![v] = s]
        BY <3>4 DEF Terminate, Start
      <4>2. QED
        BY <3>2, <4>1 DEF TypeOK
    <3>5. QED
      BY <2>6, <3>3, <3>4
  <2> HIDE DEF SameHandler
  <2>7. QED
    BY <2>1, <2>3, <2>4, <2>5, <2>6, Zenon DEF Next
<1>3. QED
  BY <1>1, <1>2, RequestsInvariant, PTL DEF Spec, RequestsInv

\* Successes are told of what succeeded and refusals of what was refused, with the status
\* that the repository's error is due.
THEOREM AnswersTellOutcome == Spec => []AnswerTellsOutcome
<1>1. RequestsInv => AnswerTellsOutcome
  <2> SUFFICES ASSUME RequestsInv, NEW r \in Requests, answer[r] # NULL
               PROVE  /\ answer[r] \in {200, 201} =>
                           \/ Command(r) \in Queries /\ cause[r] = NULL
                           \/ joined[r] = NULL /\ Command(r) = "CreatePayment" /\ paid
                           \/ joined[r] # NULL /\ Completed(joined[r])
                      /\ answer[r] \in {403, 404, 409} =>
                           /\ Behind(r) # NULL /\ cause[Behind(r)] # NULL
                           /\ answer[r] = StatusOfCause(Command(r), cause[Behind(r)])
    BY AbsenceAssumption DEF AnswerTellsOutcome, Statuses
  <2>1. CASE joined[r] = NULL
    <3>1. ToldWithoutRun(r)
      BY <2>1 DEF RequestsInv, AnswersInv
    <3>2. StatusOfCause(Command(r), cause[r]) \notin {200, 201}
      BY DEF StatusOfCause
    <3>3. QED
      BY <2>1, <3>1, <3>2, NullAssumption DEF ToldWithoutRun, Behind
  <2>2. CASE joined[r] # NULL
    <3> DEFINE s == joined[r]
    <3>1. /\ s \in Requests /\ s # NULL /\ Command(s) = Command(r)
          /\ Command(r) \in AllCommands
      BY <2>2, SameCommand
    <3>2. Command(r) \notin Queries
      BY <3>1 DEF AllCommands, Queries
    <3>3. ToldOfRun(r)
      BY <2>2 DEF RequestsInv, AnswersInv
    <3>4. ASSUME failure[s] # NULL
          PROVE  /\ cause[s] # NULL
                 /\ StatusOfFailure(Command(r), failure[s]) \in {StatusOfCause(Command(r), cause[s]), 500}
      <4>1. /\ step[s] \in {1, 2} /\ cause[s] \in RepositoryErrors(Workflow[Command(r)][step[s]])
            /\ failure[s] = ActivityFailure(Workflow[Command(r)][step[s]], cause[s])
        BY <3>1, <3>4 DEF RequestsInv, RunsInv, Activity
      <4>2. cause[s] \in Errors
        BY <3>1, <4>1 DEF Errors
      <4>3. QED
        BY <3>1, <3>4, <4>1, <4>2, RefusalKeepsMeaning, AbsenceAssumption
    <3>5. SuccessStatuses(Command(r)) \subseteq {200, 201}
      BY <3>1 DEF AllCommands, SuccessStatuses
    <3>6. StatusOfFailure(Command(r), failure[s]) \in Statuses \ {200, 201}
      BY <3>1, ErrorStatuses DEF StatusOfFailure, Statuses
    <3>7. QED
      BY <2>2, <3>1, <3>2, <3>3, <3>4, <3>5, <3>6 DEF ToldOfRun, Behind, Statuses
  <2>3. QED
    BY <2>1, <2>2
<1>2. QED
  BY <1>1, RequestsInvariant, PTL

\* No transient failure ends a run.
THEOREM RefusalsAloneEndRuns == Spec => []OnlyRefusalsEndRuns
<1>1. RequestsInv => OnlyRefusalsEndRuns
  <2> SUFFICES ASSUME RequestsInv, NEW s \in Requests, failure[s] # NULL
               PROVE  cause[s] \notin {"Transient", "ProjectionOutOfOrder"}
    BY DEF OnlyRefusalsEndRuns
  <2>1. /\ step[s] \in {1, 2} /\ cause[s] \in RepositoryErrors(Workflow[Command(s)][step[s]])
        /\ failure[s] = ActivityFailure(Workflow[Command(s)][step[s]], cause[s])
    BY DEF RequestsInv, RunsInv, Activity
  <2>2. Command(s) \in AllCommands
    BY <2>1, RunsCommand
  <2>3. QED
    BY <2>1, <2>2, RefusalKeepsMeaning
<1>2. QED
  BY <1>1, RequestsInvariant, PTL
===============================================================================
