------------------------------ MODULE Exchange ------------------------------
(***************************************************************************)
(* What a bridge that serves one request on a stream of its own promises   *)
(* to the client and to the handler: at most one answer, which is whole,   *)
(* cut short by a reset, or never begun.  The bridges of HTTP/2 (H2Stream) *)
(* and HTTP/3 (H3Stream) are shown to implement it.                        *)
(***************************************************************************)

VARIABLES
  answer,  \* "none", a "response" of the handler, a "refusal" of the server's
  stage,   \* "waiting", "answering", "complete" or "reset"
  told,    \* the handler's AbortSignal is aborted
  firm     \* an aborted request gets nothing from its handler any more

vars == <<answer, stage, told, firm>>

Stages == {"waiting", "answering", "complete", "reset"}

TypeOK ==
  /\ answer \in {"none", "response", "refusal"} /\ stage \in Stages
  /\ told \in BOOLEAN /\ firm \in BOOLEAN

Init ==
  /\ answer = "none" /\ stage = "waiting" /\ told = FALSE /\ firm \in BOOLEAN

\* The handler may be told in the step that makes its answer pointless.
MayTell == told' \in {told, TRUE}

\* The handler's response is begun, or sent whole.
Respond ==
  /\ stage = "waiting" /\ (firm => ~told)
  /\ answer' = "response" /\ stage' \in {"answering", "complete"}
  /\ UNCHANGED <<told, firm>>

\* The server answers in the handler's place.
Refuse ==
  /\ stage = "waiting"
  /\ answer' = "refusal" /\ stage' = "complete"
  /\ MayTell /\ UNCHANGED firm

\* The end of the response is sent: not of one that was aborted.
Finish ==
  /\ stage = "answering" /\ (firm => ~told)
  /\ stage' = "complete"
  /\ UNCHANGED <<answer, told, firm>>

\* Either side resets the stream before the answer is whole.
Reset ==
  /\ stage \in {"waiting", "answering"}
  /\ stage' = "reset"
  /\ MayTell /\ UNCHANGED <<answer, firm>>

\* The handler is told that the request is over.
Tell ==
  /\ ~told /\ (firm => stage \in {"complete", "reset"})
  /\ told' = TRUE
  /\ UNCHANGED <<answer, stage, firm>>

Next == Respond \/ Refuse \/ Finish \/ Reset \/ Tell

Spec == Init /\ [][Next]_vars

=============================================================================
