------------------------------ MODULE Dispatch ------------------------------
(***************************************************************************)
(* #dispatch of lib/server.js as the stream bridges see it: what a handler *)
(* does is turned into a Response, or into null after the stream was reset *)
(* through the bridge's deny callback.                                     *)
(***************************************************************************)

\* What a bridge may be handed as a Response: none of its body is sent
\* ("empty" has none, "omit" has one that HEAD or its status forbids), its body
\* is streamed ("body"), followed by trailers ("trailed"), or it is the body of
\* the request itself ("echo").
Responses == {"empty", "omit", "body", "trailed", "echo"}

\* What a handler may do: return a Response, return nothing, or be "broken":
\* throw, reject, or return something that is not a Response.
Outcomes == Responses \cup {"nothing", "broken"}

\* #finishDispatch and #handlerFailure.  A failure is answered 500 with a body.
\* A busy server answers 503 in the same way before the handler is called.
Dispatched(denied, outcome) ==
  CASE denied \/ outcome = "nothing" -> "null"
    [] ~denied /\ outcome = "broken" -> "body"
    [] OTHER                         -> outcome

\* Returning nothing refuses the request, unless deny() already did.
Refuses(denied, outcome) == ~denied /\ outcome = "nothing"

=============================================================================
