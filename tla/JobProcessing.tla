---------------------------- MODULE JobProcessing ----------------------------
(***************************************************************************)
(* One job from its dispatch to its last report (process_job and the       *)
(* execute_* functions, src/src/node.rs; src/src/image_job.rs): the clear  *)
(* part of the dispatch is checked, the sealed part opened and checked     *)
(* against it, the engine asked, and the result sealed and reported.       *)
(***************************************************************************)
EXTENDS StreamRelay, ImageCompletion

CONSTANT NoOrder   \* a reservation or a request that is missing or malformed

VARIABLES
  job,     \* the dispatch, its sealed part included
  node,    \* what this node serves
  pc,      \* where process_job is
  made,    \* what a worker made for it, in the terms of an order (history)
  result   \* what came of it: nothing yet, a blank answer or one that shows

jobVars == <<job, node, pc, made, result>>
vars == <<jobVars, relayVars, imageVars, callVars>>

Media == {"transcription", "speech", "image"}
WorkerOf == [transcription |-> "stt", speech |-> "tts", image |-> "image"]
LaneModels(type) == IF type = "image" THEN {"m1"} ELSE {"m1", "m2"}

(* What is reserved in clear, and what the client asks for under its seal. *)
(* Audio goes by its language and length; speech by its voice, the speed   *)
(* included, and length; an image by its size, seed and prompt's length.   *)
Ids == {"own", "other"}
Either == {"x", "y"}
Orders == [transcription |-> [id : Ids, model : LaneModels("transcription"), language : Either, samples : Either],
           speech |-> [id : Ids, model : LaneModels("speech"), voice : Either, bytes : Either],
           image |-> [id : Ids, model : LaneModels("image"), size : Either, seed : Either, bytes : Either]]

ASSUME NoOrderAssumption == \A type \in Media : NoOrder \notin Orders[type]

Envelopes == {"plain", "v1", "v2", "broken"}
MediaJobs(type) ==
  [type : {type}, env : Envelopes, model : LaneModels(type) \cup {"unknown"},
   binding : Orders[type] \cup {NoOrder}, request : Orders[type] \cup {NoOrder}]
InferenceJobs ==
  [type : {"inference"}, env : Envelopes, dispatch : BOOLEAN, sealed : BOOLEAN, valid : BOOLEAN,
   nonce : BOOLEAN, homura : BOOLEAN, expects : BOOLEAN, tools : BOOLEAN]
EmbeddingJobs ==
  [type : {"embedding"}, env : Envelopes, tagged : BOOLEAN, media : BOOLEAN, valid : BOOLEAN]
OtherJobs == [type : {"systemone", "unheard of"}, env : Envelopes, valid : BOOLEAN]
Jobs == (UNION {MediaJobs(type) : type \in Media}) \cup InferenceJobs \cup EmbeddingJobs \cup OtherJobs

(* What a node may be, as far as the job can tell.                         *)
Engines(type) ==
  {"none", "chat"} \cup IF type \in Media THEN {WorkerOf[type]}
                        ELSE IF type = "embedding" THEN {"embed"} ELSE {}
Nodes(type) ==
  [engine : Engines(type), model : IF type \in Media THEN LaneModels(type) ELSE {"m1"},
   streaming : IF type = "inference" THEN BOOLEAN ELSE {FALSE},
   sidecar : IF type = "systemone" THEN BOOLEAN ELSE {FALSE}]

TypeOK ==
  /\ job \in Jobs /\ node \in Nodes(job.type)
  /\ pc \in {"received", "serving", "reply", "fail", "stream", "image", "upload", "over"}
  /\ made # NoOrder => job.type \in Media /\ made \in Orders[job.type]
  /\ result \in {"none", "blank", "shown"}
  /\ RelayTypeOK /\ ImageTypeOK /\ CallsTypeOK

Init ==
  /\ job \in Jobs /\ node \in Nodes(job.type)
  /\ pc = "received" /\ made = NoOrder /\ result = "none"
  /\ RelayInit /\ CallsInit
  /\ IF job.type = "image" THEN ImageInit ELSE ImageInit /\ delay = 0

Elsewhere == UNCHANGED <<relayVars, imageVars, callVars>>

-----------------------------------------------------------------------------
(* unseal_input: media, and what calls itself media, must come in the v2   *)
(* envelope.                                                               *)
Strict == job.type \in Media \/ (job.type = "embedding" /\ job.tagged)
Opens == job.env # "broken" /\ (Strict /\ job.env # "plain" => job.env = "v2")

(* The reservation, read before anything is opened.                        *)
BindingRead == job.model # "unknown" /\ job.binding # NoOrder /\ job.env # "plain"

(* An embedding of anything but text must say so under the seal.           *)
AgreedOnMedia == job.env = "v2" /\ job.tagged

Accepted ==
  /\ job.type \in Media => BindingRead
  /\ Opens
  /\ job.type = "embedding" /\ job.media /\ job.valid => AgreedOnMedia
  /\ job.type \in Media => job.env = "v2"

(* Both this node, the orchestrator and the client want a stream.          *)
Streams ==
  job.type = "inference" /\ node.streaming /\ job.dispatch /\ job.sealed /\ job.env = "v2"

(* Each lane compares the request with what was reserved in its own way.   *)
AudioMatches ==
  /\ job.binding.id = job.request.id /\ job.binding.model = job.request.model
  /\ job.binding.samples = job.request.samples /\ job.binding.language = job.request.language
SpeechMatches ==
  /\ job.binding.id = job.request.id /\ job.binding.model = job.request.model
  /\ job.binding.voice = job.request.voice /\ job.binding.bytes = job.request.bytes
ImageMatches ==
  /\ job.binding.id = job.request.id /\ job.binding.model = job.request.model
  /\ job.binding.size = job.request.size /\ job.binding.seed = job.request.seed
  /\ job.binding.bytes = job.request.bytes

(* execute_transcription, execute_speech and image_job::execute: the right *)
(* engine, a well-formed request for this job, and the model of the job,   *)
(* which the first compares with the request's and that with the node's,   *)
(* the second with the node's alone, the third with the only one there is. *)
(* The mutant forgets the model.                                           *)
AudioWithoutModel == node.engine = "stt" /\ job.request # NoOrder /\ AudioMatches /\ job.request.id = "own"
AudioServable ==
  /\ node.engine = "stt" /\ job.request # NoOrder /\ AudioMatches /\ job.request.id = "own"
  /\ job.model = job.request.model /\ job.request.model = node.model
SpeechServable ==
  /\ node.engine = "tts" /\ job.model = node.model
  /\ job.request # NoOrder /\ job.request.id = "own" /\ SpeechMatches
ImageServable ==
  /\ node.engine = "image" /\ job.model = "m1"
  /\ job.request # NoOrder /\ job.request.id = "own" /\ ImageMatches

Servable ==
  \/ job.type = "transcription" /\ AudioServable
  \/ job.type = "speech" /\ SpeechServable
  \/ job.type = "image" /\ ImageServable
  \/ job.type = "inference" /\ node.engine # "none" /\ job.valid /\ (Streams => job.nonce)
  \/ job.type = "embedding" /\ node.engine = "embed" /\ job.valid
  \/ job.type = "systemone" /\ node.sidecar /\ job.valid

(* What the engine itself refuses: speak and generate compare the model of *)
(* the request with their own, transcribe does not.                        *)
EngineTakes == job.type \in {"speech", "image"} => job.request.model = node.model

(* A worker makes what the request asks for, but with the model it has.    *)
Make == made' = [job.request EXCEPT !.model = node.model]

(* A job that is turned away is reported failed.                           *)
ReportsFailed == pc' = "fail"

Refuse ==
  /\ pc = "received" /\ ~(Accepted /\ Servable)
  /\ ReportsFailed /\ UNCHANGED <<job, node, made, result>> /\ Elsewhere

Ask ==
  /\ pc = "received" /\ Accepted /\ Servable
  /\ IF Streams THEN pc' = "stream" /\ StartRelay
     ELSE pc' = (IF job.type = "image" THEN "image" ELSE "serving") /\ UNCHANGED relayVars
  /\ UNCHANGED <<job, node, made, result, imageVars, callVars>>

-----------------------------------------------------------------------------
(* execute_inference: what the model wrote, and its tool calls.  The       *)
(* cleaner strips what is only an envelope, a blank answer is noted for    *)
(* the engine's health, and not returned for a HOMURA model.  A call       *)
(* written as text is turned into one afterwards.                          *)
Writings == {"nothing", "envelope", "text", "call"}
Cleaned(written) == IF job.homura /\ written = "envelope" THEN "nothing" ELSE written

Infer(written, calls) ==
  LET blank == ~calls /\ Cleaned(written) = "nothing" IN
  /\ calls => job.tools
  /\ signal' = IF ~job.expects THEN signal ELSE IF blank THEN "empty" ELSE "ok"
  /\ IF blank /\ job.expects /\ job.homura THEN pc' = "fail" /\ UNCHANGED result
     ELSE pc' = "reply" /\ result' = IF blank THEN "blank" ELSE "shown"
  /\ UNCHANGED <<relay, gen, produced, channel, held, batch, carried, seq, sealed, emitted, fate, visible, cleaner>>

Serve ==
  /\ pc = "serving"
  /\ \/ /\ job.type = "inference" /\ UNCHANGED made
        /\ \E written \in Writings, calls \in BOOLEAN : Infer(written, calls)
     \/ /\ job.type \in Media /\ EngineTakes /\ Make
        /\ pc' = "reply" /\ result' = "shown" /\ UNCHANGED relayVars
     \/ /\ job.type \in {"embedding", "systemone"}
        /\ pc' = "reply" /\ result' = "shown" /\ UNCHANGED <<made, relayVars>>
     \/ pc' = "fail" /\ UNCHANGED <<made, result, relayVars>>
  /\ UNCHANGED <<job, node, imageVars, callVars>>

(* The result goes back the way the request came; if it cannot be sealed   *)
(* the job fails.  A completion that is not heard of is not repeated.      *)
SealFails ==
  /\ pc = "reply" /\ job.env # "plain"
  /\ pc' = "fail" /\ UNCHANGED <<job, node, made, result>> /\ Elsewhere

Finish ==
  /\ pc = "reply" /\ pc' = "over"
  /\ \E heard \in BOOLEAN : Report(Complete(job.env, 0, result = "shown"), heard)
  /\ UNCHANGED <<job, node, made, result, relayVars, imageVars>>

Fail ==
  /\ pc = "fail" /\ pc' = "over"
  /\ \E heard \in BOOLEAN : Report(Fails, heard)
  /\ UNCHANGED <<job, node, made, result, relayVars, imageVars>>

Image ==
  /\ \/ /\ pc = "image" /\ UNCHANGED callVars
        /\ \E done \in BOOLEAN :
             /\ GenerateImage(done)
             /\ IF done THEN EngineTakes /\ Make /\ pc' = "upload" ELSE pc' = "fail" /\ UNCHANGED made
     \/ /\ pc = "upload" /\ UNCHANGED made
        /\ \E over \in BOOLEAN : PostImage(over) /\ pc' = IF over THEN "over" ELSE "upload"
     \/ pc = "upload" /\ OutOfTime /\ pc' = "over" /\ UNCHANGED made
  /\ UNCHANGED <<job, node, result, relayVars>>

Stream ==
  /\ pc = "stream" /\ Relaying(job.homura, job.expects)
  /\ UNCHANGED <<jobVars, imageVars>>

Engine ==
  /\ pc = "stream" /\ Generate(job.tools)
  /\ UNCHANGED <<jobVars, imageVars>>

EngineEnds == pc = "stream" /\ GiveUp /\ UNCHANGED <<jobVars, imageVars>>

ProcessJob == Refuse \/ Ask \/ Serve \/ SealFails \/ Finish \/ Fail \/ Image \/ Stream

Next == ProcessJob \/ Engine \/ EngineEnds

(* The task is polled whenever it can go on: each request has a timeout,   *)
(* and the engine's calls return (Engines, ChatEngines).  The engine goes  *)
(* on sending while there is room in the channel, and is not assumed to end*)
(* while it waits for room.                                                *)
Fairness == WF_vars(ProcessJob) /\ WF_vars(Engine)

Spec == Init /\ [][Next]_vars /\ Fairness

-----------------------------------------------------------------------------
Over == pc = "over" \/ relay = "over"

(* A medium that was made is what was reserved and billed in clear: for    *)
(* this job, of the model that made it, and alike in all else the lane     *)
(* goes by; and it came under the seal.  Nothing else is given out as one, *)
(* an embedding of media included, and it goes back sealed as it came.     *)
ServedAsReserved ==
  /\ made # NoOrder => made = job.binding /\ made.id = "own" /\ made.model = job.model /\ job.env = "v2"
  /\ \A i \in DOMAIN accepted : accepted[i].post = "complete" =>
       /\ accepted[i].form = job.env
       /\ job.type \in Media => made # NoOrder
       /\ job.type = "embedding" /\ job.media => job.env = "v2" /\ job.tagged

(* After the orchestrator took an outcome it is given no other: at most    *)
(* the same image again, or, when the answer to a stream's last chunk was  *)
(* lost, an error, which cannot be told from a last chunk that was lost.   *)
OneOutcome ==
  \A i, j \in DOMAIN accepted : i < j =>
    /\ Settles(accepted[i]) =>
         \/ job.type = "image" /\ accepted[j] = accepted[i]
         \/ pc = "stream" /\ lost /\ Failing(accepted[j])
    /\ Failing(accepted[i]) => Failing(accepted[j])

(* The chunks of a stream are numbered from 0 without a gap, the last one  *)
(* included (it repeats the number of a chunk whose answer was lost), and  *)
(* none is sealed twice under one number.  A stream that is given up, for  *)
(* its client left or a chunk was not heard of, is settled with a last     *)
(* chunk ("so the generated tokens aren't free", src/src/node.rs:4372; the *)
(* older comment at 4052 has no charge).  It is billed for all the tokens  *)
(* that went on to the client, for none the engine did not send, and, of   *)
(* the text that did not, for its first piece at most.                     *)
Settlement(i) == accepted[i].post = "final" /\ accepted[i].partial
StreamAccounts ==
  /\ \A i \in DOMAIN accepted : accepted[i].post \in {"chunk", "final"} =>
       \/ accepted[i].seq = i - 1
       \/ accepted[i].post = "final" /\ lost /\ accepted[i].seq = i - 2
  /\ \A s, t \in sealed : s.seq = t.seq /\ s.final = t.final => s = t
  /\ \A i \in DOMAIN accepted : Settlement(i) =>
       /\ accepted[i].bill <= Len(fate)
       /\ \A n \in DOMAIN fate : fate[n].how = "relayed" => n <= accepted[i].bill
       /\ \A m, n \in 1 .. accepted[i].bill :
            m < n /\ fate[m].how = "undelivered" => ~fate[n].opens

(* What is noted for the engine's health agrees with what the client saw:  *)
(* a reply is noted empty only if it showed nothing, and good only if it   *)
(* showed something; a stream the client left is not noted at all; and a  *)
(* blank answer of a HOMURA model is never billed.                         *)
Showed == \E i \in DOMAIN accepted : accepted[i].post \in {"chunk", "complete"} /\ accepted[i].shows
Whole == \E i \in DOMAIN accepted : accepted[i].post = "complete" \/ (accepted[i].post = "final" /\ ~accepted[i].partial)
HealthSignalTrue ==
  /\ signal = "empty" => ~Showed
  /\ signal = "ok" /\ Whole => Showed
  /\ (\E i \in DOMAIN accepted : Settlement(i)) => signal = "none"
  /\ Whole /\ job.type = "inference" => (job.homura /\ job.expects => Showed)

(* No completion of an image can be taken after the orchestrator reaped    *)
(* the job and released what the client was to pay.                        *)
NoLateCompletion == \A t \in takenAt : t < JobTimeout

(* Every job ends, with an outcome that was taken or an answer that never  *)
(* came, and leaves no generation running.                                 *)
Reported == unheard > 0 \/ \E i \in DOMAIN accepted : accepted[i].post # "chunk"
EveryJobReported == <>[](Over /\ Reported /\ gen # "running")
=============================================================================
