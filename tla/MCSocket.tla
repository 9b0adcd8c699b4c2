------------------------------ MODULE MCSocket ------------------------------
(***************************************************************************)
(* The two directions of a plain socket, each checked by itself: `part'    *)
(* tells which one moves, so that their state spaces add up.               *)
(***************************************************************************)
EXTENDS Ingress, H1Framing

VARIABLE part

vars == <<ingressVars, framingVars, part>>

Init ==
  /\ part \in {"bytes", "messages"} /\ IngressInit /\ FramingInit
  /\ part = "messages" => serves = {"h1"} /\ client.match = 0 /\ ~client.tunnels

Next ==
  \/ part = "bytes" /\ IngressNext /\ UNCHANGED <<framingVars, part>>
  \/ part = "messages" /\ FramingNext /\ UNCHANGED <<ingressVars, part>>

Spec == Init /\ [][Next]_vars /\ (part = "bytes" => IngressFairness)

Line(name, value) == [name |-> name, value |-> value]

MCLines ==
  {Line("host", "a"), Line("host", ""),
   Line("content-length", <<0>>), Line("content-length", <<2>>),
   Line("content-length", <<0, 2>>), Line("content-length", <<3>>),
   Line("content-length", <<NotADigit>>),
   Line("transfer-encoding", <<"chunked">>),
   Line("transfer-encoding", <<"gzip", "chunked">>),
   Line("transfer-encoding", <<"chunked", "chunked">>),
   Line("trailer", <<"te">>), Line("connection", <<"close">>),
   Line("connection", <<"keep-alive", "host">>),
   Line("expect", <<"">>), Line("expect", <<"100-continue">>), Line("expect", <<"other">>)}

MCLengths == {<<>>, <<0>>, <<2>>, <<0, 2>>, <<1, 2>>, <<1, 3>>, <<2, 0>>, <<1, NotADigit>>}

=============================================================================
