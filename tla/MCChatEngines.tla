---------------------------- MODULE MCChatEngines ----------------------------
EXTENDS ChatEngines

(* In the node's own process, an answer streamed with tool calls beside    *)
(* one that is not streamed.                                               *)
OneMode == mode = <<"tools", "whole">>

(* llama-server is asked one thing at a time.                              *)
OneRequest == \A r, q \in Requests : r # q => "new" \in {req[r], req[q]}

(* Three inputs that fit into one pass but for the number of ids, a pass   *)
(* that is full, inputs that are empty or too long, too many inputs.       *)
Lists == {<<>>, <<1, 1, 1>>, <<2, 2>>, <<3, 1, 1>>, <<1, 0>>, <<4>>, <<1, 1, 1, 1>>}

Instance == OneMode /\ OneRequest
=============================================================================
