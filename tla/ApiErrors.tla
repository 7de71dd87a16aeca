------------------------------ MODULE ApiErrors ------------------------------
(***************************************************************************)
(* What a client is told when serving an API request raises: the one place *)
(* that turns exceptions into answers (api_exception_handler), for the     *)
(* exceptions of the application, of the framework and of the database.    *)
(* Messages and field details are left out: an answer is a status and the  *)
(* machine readable code.                                                  *)
(***************************************************************************)
EXTENDS Naturals

Reply(status, code) == [status |-> status, code |-> code]

\* The subclasses of AppException bring their own answer.
AppReplies ==
    [ValidationException       |-> Reply(400, "validation_error"),
     AuthenticationException   |-> Reply(401, "authentication_failed"),
     PermissionDeniedException |-> Reply(403, "permission_denied"),
     NotFoundException         |-> Reply(404, "not_found"),
     ConflictException         |-> Reply(409, "conflict")]

\* Exceptions of the framework that the handler names.  An IntegrityError is
\* also what PROTECT and a foreign key or unique index raise.
NamedReplies ==
    [DRFValidationError     |-> Reply(400, "validation_error"),
     DjangoValidationError  |-> Reply(400, "validation_error"),
     NotFound               |-> Reply(404, "not_found"),
     Http404                |-> Reply(404, "not_found"),
     PermissionDenied       |-> Reply(403, "permission_denied"),
     AuthenticationFailed   |-> Reply(401, "authentication_failed"),
     IntegrityError         |-> Reply(409, "conflict")]

\* The status of the framework's other exceptions.
FrameworkStatus ==
    [ParseError |-> 400, NotAuthenticated |-> 401, MethodNotAllowed |-> 405,
     NotAcceptable |-> 406, UnsupportedMediaType |-> 415, Throttled |-> 429]

DefaultCode(status) ==
    CASE status = 400 -> "bad_request"
      [] status = 401 -> "authentication_failed"
      [] status = 403 -> "permission_denied"
      [] status = 404 -> "not_found"
      [] status = 405 -> "method_not_allowed"
      [] status = 406 -> "not_acceptable"
      [] status = 409 -> "conflict"
      [] status = 415 -> "unsupported_media_type"
      [] status = 429 -> "throttled"
      [] OTHER -> "error"

ServerError == Reply(500, "internal_server_error")

\* Mutant of Handled: only the framework's own ValidationError is known.
HandledWithoutDjango(exc) ==
    IF exc \in DOMAIN AppReplies THEN AppReplies[exc]
    ELSE IF exc \in DOMAIN NamedReplies \ {"DjangoValidationError"} THEN NamedReplies[exc]
    ELSE IF exc \in DOMAIN FrameworkStatus
         THEN Reply(FrameworkStatus[exc], DefaultCode(FrameworkStatus[exc]))
         ELSE ServerError

Handled(exc) ==
    IF exc \in DOMAIN AppReplies THEN AppReplies[exc]
    ELSE IF exc \in DOMAIN NamedReplies THEN NamedReplies[exc]
    ELSE IF exc \in DOMAIN FrameworkStatus
         THEN Reply(FrameworkStatus[exc], DefaultCode(FrameworkStatus[exc]))
         ELSE ServerError
=============================================================================
