----------------------------- MODULE GatewayErrors -----------------------------
(***************************************************************************)
(* What the API gateway makes of the gRPC errors of the services behind it *)
(* (apps/api-gateway/src/errors).                                          *)
(***************************************************************************)

\* A table with an entry for everything else.
Lookup(table, x, otherwise) == IF x \in DOMAIN table THEN table[x] ELSE otherwise

\* Mutant: a status that no handler is documented to answer.
httpStatusUnprocessable(code) ==
  Lookup([INVALID_ARGUMENT |-> 422, UNAUTHENTICATED |-> 401, PERMISSION_DENIED |-> 403,
          NOT_FOUND |-> 404, ALREADY_EXISTS |-> 409, UNAVAILABLE |-> 503], code, 500)

\* (No service on this way answers RESOURCE_EXHAUSTED, the gateway's 429.)
httpStatusFromGrpcCode(code) ==
  Lookup([INVALID_ARGUMENT |-> 400, UNAUTHENTICATED |-> 401, PERMISSION_DENIED |-> 403,
          NOT_FOUND |-> 404, ALREADY_EXISTS |-> 409, UNAVAILABLE |-> 503], code, 500)

\* The status of an error that reaches the gateway with the server's structured
\* details, and of one without them: the server was not reached or has died.
throwGatewayGrpcError(code, structured) == IF structured THEN httpStatusFromGrpcCode(code) ELSE 503
===============================================================================
