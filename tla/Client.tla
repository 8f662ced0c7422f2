-------------------------------- MODULE Client ------------------------------
(***************************************************************************)
(* The admin client (internal/pmcp/client.go, rows.go) and the sentence a  *)
(* failure becomes (provider/convert.go): what the provider makes of what  *)
(* comes back over the wire.                                               *)
(*                                                                         *)
(* Abstractions.  Of a message only the two marks that IsNotFound looks    *)
(* for, of a payload only whether the op's field is there and decodes: an  *)
(* answer does not carry the row, which is the hub's at that instant.      *)
(***************************************************************************)
EXTENDS Integers

CODE_method_not_found == -32601
CODE_invalid_params == -32602
CODE_internal_error == -32603

\* A refused connection, a reset, or 30 seconds without an answer.
Silence == [kind |-> "silence"]
Status(s) == [kind |-> "status", status |-> s]
\* 200 with a body that is no JSON-RPC, and one with neither result nor error.
Garbage == [kind |-> "garbage"]
Neither == [kind |-> "neither"]
RPCError(code, begins, ends) ==
  [kind |-> "error", code |-> code, nosuch |-> begins, here |-> ends]
Result(decodes) == [kind |-> "result", decodes |-> decodes]

\* "no such <family> in this namespace" (the hub's absent()).
Absent == RPCError(CODE_invalid_params, TRUE, TRUE)
UnknownOp == RPCError(CODE_method_not_found, FALSE, FALSE)
Invalid == RPCError(CODE_invalid_params, FALSE, FALSE)

\* An error that is no answer to the request: also "no such namespace".
Refusals ==
  {RPCError(c, b, e) : c \in {CODE_invalid_params, CODE_internal_error},
                       b \in BOOLEAN, e \in BOOLEAN} \ {Absent}

\* Answers to a request that was not executed, and to one that was.
Undelivered == {Silence, Status(404), Status(503)} \cup Refusals
Unread == {Silence, Status(504), Garbage, Neither, Result(FALSE)}

Answer ==
  Undelivered \cup Unread \cup {Status(401), Result(TRUE), Absent, UnknownOp}

-----------------------------------------------------------------------------

\* Client.Admin returns no error: the body has a result and no error.
Admin(a) == a.kind = "result"

\* call, and the ops that decode the bare result.
Decoded(a) == Admin(a) /\ a.decodes

\* Mutant: the first words alone.
NoSuchMeansNotFound(a) ==
  a.kind = "error" /\ a.code = CODE_invalid_params /\ a.nosuch

IsNotFound(a) ==
  a.kind = "error" /\ a.code = CODE_invalid_params /\ a.nosuch /\ a.here

MethodNotFound(a) == a.kind = "error" /\ a.code = CODE_method_not_found

\* hubDiag: what the operator is told to do about it.
hubDiag(a) ==
  IF MethodNotFound(a) THEN "upgrade the hub"
  ELSE IF a.kind = "status" THEN "check endpoint and token"
  ELSE "failed"

\* resolveNamespace: GET /api/whoami answers 200 with a namespace.
Resolved(a) == a = Result(TRUE)
=============================================================================
