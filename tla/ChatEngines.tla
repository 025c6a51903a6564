---------------------------- MODULE ChatEngines ----------------------------
(***************************************************************************)
(* The engine of a node that serves a llama.cpp model: in its own process, *)
(* for chats or for text embeddings, or in llama-server.  It is chosen when*)
(* the node starts (InferenceEngine::create) and never changed.            *)
(***************************************************************************)
EXTENDS InprocEngine, EmbedEngine, ServerEngine

VARIABLE engine   \* which of the three this process runs

chatVars == <<engine, inprocVars, embedVars, serverVars>>

Modes == {"inprocess", "embed", "server"}
ChatInit == engine \in Modes /\ InprocInit /\ EmbedInit /\ ServerInit
ChatTypeOK == engine \in Modes /\ InprocTypeOK /\ EmbedTypeOK /\ ServerTypeOK

InProcess(A) == engine = "inprocess" /\ A /\ UNCHANGED <<engine, embedVars, serverVars>>
Embedding(A) == engine = "embed" /\ A /\ UNCHANGED <<engine, inprocVars, serverVars>>
Server(A) == engine = "server" /\ A /\ UNCHANGED <<engine, inprocVars, embedVars>>

ChatNext == InProcess(InprocNext) \/ Embedding(EmbedEngineNext) \/ Server(ServerNext)

(* The worker threads, the supervision of llama-server and the calls run;  *)
(* time passes while a native call hangs.  Nothing is assumed of           *)
(* llama-server, nor of who reads the streams of the in-process engine;    *)
(* what reads those of llama-server is the node's own relay.               *)
ChatFairness ==
  /\ WF_chatVars(InProcess(InprocWorker)) /\ WF_chatVars(InProcess(wedged /\ NoProgress))
  /\ WF_chatVars(Embedding(EmbedWorker)) /\ WF_chatVars(Embedding(ehung /\ EmbedAges))
  /\ WF_chatVars(Server(Supervision)) /\ WF_chatVars(Server(TakeEvent))
  /\ WF_chatVars(Server(ReadLine \/ StreamCut \/ SendEvent))
  /\ \A r \in Requests : WF_chatVars(Server(Connect(r) \/ NoAnswer(r)))

ChatSpec == ChatInit /\ [][ChatNext]_chatVars /\ ChatFairness

-----------------------------------------------------------------------------
(* A caller gets what the model gave for its request, whole and in order,  *)
(* or an error: the embeddings of its inputs, from either engine, and the  *)
(* stream of llama-server.                                                 *)
AnswersFaithful == EmbeddingsFaithful /\ ServedFaithfully

(* Every job given to an engine of this process is answered, whoever reads *)
(* its stream and however slowly, unless the worker hangs in the library...*)
EveryJobAnswered == JobsAnswered /\ EmbedsAnswered

(* ...and a worker that hangs does not stay advertised.                    *)
WedgeSeen == HangSeen /\ EmbedHangSeen
=============================================================================
