------------------------------ MODULE Upstream ------------------------------
(***************************************************************************)
(* What one adapter call can end in, and how the rest of the program reads *)
(* it: the adapters' translation of httpx failures and HTTP statuses into  *)
(* the UpstreamError family, the walker's split of errors into transient   *)
(* and permanent, and the proxy's translation of what escapes the pipeline *)
(* into an HTTP error.  No state: definitions only.                        *)
(***************************************************************************)
EXTENDS Integers

CONSTANT Statuses   \* HTTP statuses an upstream answers with

ASSUME StatusesAssumption == Statuses \subseteq 200..599

NoStatus == 0       \* UpstreamError.status_code is None
NoError  == [kind |-> "none", status |-> NoStatus]

Failure(kind, status) == [kind |-> kind, status |-> status]

\* "other" stands for every exception outside the UpstreamError family: a JSON
\* body of an unexpected shape raises AttributeError, a cancelled task
\* CancelledError.  Neither walker catches those.
Errors ==
    [kind : {"timeout", "unavailable", "upstream", "other"},
     status : Statuses \cup {NoStatus}]

(***************************************************************************)
(* The adapters: one HTTP exchange ends in a transport fault or a reply.   *)
(***************************************************************************)
Faults  == {"Timeout", "Connect", "RemoteProtocol", "Request"}
Replies == [status : Statuses, body : {"chat", "undecodable", "misshapen"}]

FaultError(fault) ==
    IF fault = "Timeout" THEN Failure("timeout", NoStatus)
                         ELSE Failure("unavailable", NoStatus)

\* A 4xx/5xx and a body that is not JSON are UpstreamErrors with the status of
\* the reply; JSON of the wrong shape breaks the parser instead.
ReplyErrors(reply) ==
    CASE reply.status >= 400 \/ reply.body = "undecodable" ->
             {Failure("upstream", reply.status)}
      [] reply.status < 400 /\ reply.body = "misshapen" ->
             {Failure("other", NoStatus)}
      [] OTHER -> {}

ChatErrors ==
    {FaultError(f) : f \in Faults} \cup UNION {ReplyErrors(r) : r \in Replies}

\* While a stream is open the status is already below 400 and undecodable
\* lines are skipped, so only a fault or a misshapen chunk ends it early.
MidStreamErrors ==
    {FaultError(f) : f \in Faults} \cup {Failure("other", NoStatus)}

StreamOpenErrors ==
    {FaultError(f) : f \in Faults}
        \cup {Failure("upstream", s) : s \in {st \in Statuses : st >= 400}}

(***************************************************************************)
(* fallback._is_transient: what a retry, and then the next model, may cure *)
(***************************************************************************)
IsUpstreamError(e) == e.kind \in {"timeout", "unavailable", "upstream"}

IsTransient(e) ==
    \/ e.kind \in {"timeout", "unavailable"}
    \/ e.kind = "upstream" /\ (e.status = NoStatus \/ e.status >= 500)

(***************************************************************************)
(* proxy._translate_upstream_exception.  `exhausted' tells whether the     *)
(* walker wrapped the error in UpstreamExhaustedError; the client sees the *)
(* underlying cause either way.  "other" is not caught by the handler and  *)
(* becomes the generic 500.                                                *)
(***************************************************************************)
ClientStatus(e, exhausted) ==
    CASE e.kind = "timeout"     -> 504
      [] e.kind = "unavailable" -> 503
      [] e.kind = "upstream"    -> IF e.status \in 400..499 THEN 400 ELSE 502
      [] e.kind = "none"        -> IF exhausted THEN 502 ELSE 200
      [] OTHER                  -> 500
=============================================================================
