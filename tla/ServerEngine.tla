---------------------------- MODULE ServerEngine ----------------------------
(***************************************************************************)
(* The engine that runs llama-server beside the node (ServerEngine,        *)
(* src/src/inference.rs): the life of that process, and the three requests *)
(* made of it over HTTP, a chat, a streamed chat and a batch of embeddings.*)
(*                                                                         *)
(* Piece n of a streamed answer is n when it is text, -n when it is part   *)
(* of a tool call.                                                         *)
(***************************************************************************)
EXTENDS Integers, Sequences, SequencesExt

CONSTANTS
  MaxRelaunches,  \* restarts of llama-server (bound of the model)
  MaxPieces,      \* pieces of a streamed answer (bound of the model)
  LineCap,        \* lines written by llama-server and not yet read (bound of the model)
  BatchSize,      \* pieces of text sent together (6)
  EventCap        \* events the stream's channel holds (64)

ASSUME ServerAssumption ==
  /\ MaxRelaunches \in Nat /\ MaxPieces \in Nat /\ LineCap \in Nat \ {0}
  /\ BatchSize \in Nat \ {0} /\ EventCap \in Nat \ {0}

VARIABLES
  llama, lane,              \* the process, and where start() or restart() is
  crashRestarts, relaunched,\* restarts counted for the swap; all restarts by kind (history)
  variant,                  \* the build of llama-server that is installed
  req, tries,               \* each request: where it is, and connections that failed
  cut,                      \* requests whose process is gone
  made, lines,              \* what llama-server streamed, and the lines not yet read
  unsent, todo,            \* text not yet sent, and the events being sent
  events, listening, taken, \* the channel, whether it is read, and what was read
  vectors                   \* the embeddings returned, each by the index of its input

process == <<llama, lane, crashRestarts, relaunched, variant>>
stream == <<made, lines, unsent, todo, events, listening, taken>>
serverVars == <<process, req, tries, cut, stream, vectors>>

Requests == {"chat", "stream", "embed"}
Over == {"ok", "err"}
Attempts == 3
End == 0
Inputs == {0, 1}
NoIndex == 9

ServerTypeOK ==
  /\ llama \in {"none", "loading", "serving", "hung", "dead"}
  /\ lane \in {"launch", "probing", "up", "down", "swap"}
  /\ crashRestarts \in 0 .. MaxRelaunches /\ relaunched \in [{"crash", "empty"} -> 0 .. MaxRelaunches]
  /\ variant \in {"vulkan", "cpu"}
  /\ req \in [Requests -> {"new", "trying", "waiting", "reading"} \cup Over] /\ tries \in [Requests -> 0 .. Attempts]
  /\ cut \subseteq Requests
  /\ made \in Seq(Int) /\ lines \in Seq(Int) /\ Len(lines) <= LineCap
  /\ unsent \in Seq(Int) /\ todo \in Seq(Seq(Int)) /\ events \in Seq(Seq(Int)) /\ Len(events) <= EventCap
  /\ listening \in BOOLEAN /\ taken \in Seq(Int) /\ vectors \in Seq(Inputs)

ServerInit ==
  /\ llama = "none" /\ lane = "launch" /\ crashRestarts = 0 /\ relaunched = [k \in {"crash", "empty"} |-> 0]
  /\ variant = "vulkan"
  /\ req = [r \in Requests |-> "new"] /\ tries = [r \in Requests |-> 0] /\ cut = {}
  /\ made = <<>> /\ lines = <<>> /\ unsent = <<>> /\ todo = <<>> /\ events = <<>>
  /\ listening = TRUE /\ taken = <<>> /\ vectors = <<>>

-----------------------------------------------------------------------------
(* The process goes, and with it the connections it had taken.             *)
Gone(how) ==
  /\ llama' = how
  /\ cut' = cut \cup {r \in Requests : req[r] \in {"waiting", "reading"}}

(* spawn_server: llama-server is spawned and asked for its health until it *)
(* answers, or until it is stopped because it did not.                     *)
LaunchServer ==
  /\ lane = "launch"
  /\ \/ llama' = "loading" /\ lane' = "probing"
     \/ llama' = "none" /\ lane' = "down"
  /\ UNCHANGED <<crashRestarts, relaunched, variant, req, tries, cut, stream, vectors>>

ProbeOk ==
  /\ lane = "probing" /\ llama \in {"serving", "hung"} /\ lane' = "up"
  /\ UNCHANGED <<llama, crashRestarts, relaunched, variant, req, tries, cut, stream, vectors>>

ProbeGivesUp ==
  /\ lane = "probing" /\ Gone("none") /\ lane' = "down"
  /\ UNCHANGED <<crashRestarts, relaunched, variant, req, tries, stream, vectors>>

(* restart_inner: the process is stopped; a restart for a crash is counted,*)
(* and the second replaces the Vulkan build by the CPU build.  A restart   *)
(* for empty answers is not counted; the mutant counts it.                 *)
CountedAlways(kindOf) == crashRestarts' = crashRestarts + 1
CountedIfCrash(kindOf) == crashRestarts' = crashRestarts + (IF kindOf = "crash" THEN 1 ELSE 0)

ServerRestart(kindOf) ==
  /\ lane \in {"up", "down"} /\ relaunched["crash"] + relaunched["empty"] < MaxRelaunches
  /\ relaunched' = [relaunched EXCEPT ![kindOf] = @ + 1]
  /\ Gone("none") /\ CountedIfCrash(kindOf)
  /\ lane' = IF crashRestarts' # crashRestarts /\ crashRestarts' = 2 /\ variant = "vulkan" THEN "swap" ELSE "launch"
  /\ UNCHANGED <<variant, req, tries, stream, vectors>>

(* The swap may fail, and the current build is launched again.             *)
SwapBuild ==
  /\ lane = "swap" /\ lane' = "launch" /\ variant' \in {variant, "cpu"}
  /\ UNCHANGED <<llama, crashRestarts, relaunched, req, tries, cut, stream, vectors>>

(* llama-server becomes ready, hangs or dies.                              *)
LlamaReady ==
  /\ llama = "loading" /\ llama' = "serving"
  /\ UNCHANGED <<lane, crashRestarts, relaunched, variant, req, tries, cut, stream, vectors>>

LlamaHangs ==
  /\ llama = "serving" /\ llama' = "hung"
  /\ UNCHANGED <<lane, crashRestarts, relaunched, variant, req, tries, cut, stream, vectors>>

LlamaDies ==
  /\ llama \in {"loading", "serving", "hung"} /\ Gone("dead")
  /\ UNCHANGED <<lane, crashRestarts, relaunched, variant, req, tries, stream, vectors>>

-----------------------------------------------------------------------------
At(r, pc) == req' = [req EXCEPT ![r] = pc]

Ask(r) ==
  /\ req[r] = "new" /\ At(r, "trying")
  /\ UNCHANGED <<process, tries, cut, stream, vectors>>

(* A connection that is refused is tried three times, for embeddings once; *)
(* one that is taken while the model loads is answered with an error.  The *)
(* mutant does not count its tries.                                        *)
Uncounted(r) == UNCHANGED tries
Tried(r) == tries' = [tries EXCEPT ![r] = @ + 1]
TriesAgain(r) == r # "embed" /\ tries[r] + 1 < Attempts

Connect(r) ==
  /\ req[r] = "trying"
  /\ \/ llama \in {"serving", "hung"} /\ At(r, "waiting") /\ UNCHANGED tries
     \/ llama = "loading" /\ At(r, "err") /\ UNCHANGED tries
     \/ /\ llama \in {"none", "dead"}
        /\ IF TriesAgain(r) THEN Tried(r) /\ UNCHANGED req
           ELSE At(r, "err") /\ UNCHANGED tries
  /\ UNCHANGED <<process, cut, stream, vectors>>

ChatAnswered ==
  /\ req["chat"] = "waiting" /\ "chat" \notin cut /\ llama = "serving"
  /\ \E o \in Over : At("chat", o)
  /\ UNCHANGED <<process, tries, cut, stream, vectors>>

(* The process that had the request is gone, and no answer comes.          *)
NoAnswer(r) ==
  /\ req[r] = "waiting" /\ r \in cut /\ At(r, "err") /\ cut' = cut \ {r}
  /\ UNCHANGED <<process, tries, stream, vectors>>

(* Of the three only the embeddings have a time limit.                     *)
EmbedTimesOut ==
  /\ req["embed"] = "waiting" /\ At("embed", "err") /\ cut' = cut \ {"embed"}
  /\ UNCHANGED <<process, tries, stream, vectors>>

(* embed: the rows of the answer are put in the order of their indexes,    *)
(* which must be those of the inputs, each once; a row without an index    *)
(* has that of its place.                                                  *)
IndexOf(rows, i) == IF rows[i] = NoIndex THEN i - 1 ELSE rows[i]
InRange(rows) == \A i \in DOMAIN rows : IndexOf(rows, i) \in Inputs
Permuted(rows) == InRange(rows) /\ \A i, k \in DOMAIN rows : i # k => IndexOf(rows, i) # IndexOf(rows, k)
Sorted(rows) ==
  CHOOSE v \in [DOMAIN rows -> Inputs] :
    /\ Range(v) = {IndexOf(rows, i) : i \in DOMAIN rows}
    /\ \A i, k \in DOMAIN rows : i < k => v[i] <= v[k]

EmbedAnswered ==
  /\ req["embed"] = "waiting" /\ "embed" \notin cut /\ llama = "serving"
  /\ \/ At("embed", "err") /\ UNCHANGED vectors
     \/ \E rows \in [1 .. 2 -> Inputs \cup {2, NoIndex}] :
          IF Permuted(rows) THEN At("embed", "ok") /\ vectors' = Sorted(rows)
          ELSE At("embed", "err") /\ UNCHANGED vectors
  /\ UNCHANGED <<process, tries, cut, stream>>

-----------------------------------------------------------------------------
(* chat_completion_stream.                                                 *)
StreamOpens ==
  /\ req["stream"] = "waiting" /\ "stream" \notin cut /\ llama = "serving"
  /\ \E pc \in {"reading", "err"} : At("stream", pc)
  /\ UNCHANGED <<process, tries, cut, stream, vectors>>

Streaming == req["stream"] = "reading" /\ "stream" \notin cut /\ llama = "serving" /\ Len(lines) < LineCap

LlamaStreams ==
  /\ Streaming /\ ~Contains(made, End)
  /\ \/ /\ Len(made) < MaxPieces
        /\ \E n \in {Len(made) + 1, -(Len(made) + 1)} : made' = Append(made, n) /\ lines' = Append(lines, n)
     \/ made' = Append(made, End) /\ lines' = Append(lines, End)
  /\ UNCHANGED <<process, req, tries, cut, unsent, todo, events, listening, taken, vectors>>

Batch == IF unsent = <<>> THEN <<>> ELSE <<unsent>>

(* A line: text, kept until there is a batch of it; a piece of a tool      *)
(* call, sent at once, after the text that precedes it; or [DONE].  Lines  *)
(* that are none of these are passed over, and are not among the lines.    *)
TextFirst(n) == todo' = Append(Batch, <<n>>) /\ unsent' = <<>>

ReadLine ==
  /\ req["stream"] = "reading" /\ todo = <<>> /\ lines # <<>>
  /\ lines' = Tail(lines)
  /\ LET n == Head(lines)
     IN  \/ n > End /\ Len(unsent) + 1 >= BatchSize /\ todo' = <<Append(unsent, n)>> /\ unsent' = <<>>
         \/ n > End /\ Len(unsent) + 1 < BatchSize /\ unsent' = Append(unsent, n) /\ UNCHANGED todo
         \/ n < End /\ TextFirst(n)
         \/ n = End /\ todo' = Append(Batch, <<End>>) /\ unsent' = <<>>
  /\ UNCHANGED <<process, req, tries, cut, made, events, listening, taken, vectors>>

(* The stream ended without [DONE], or what comes is longer than the       *)
(* buffer for it, and with it goes what it had not read.                   *)
Truncated == At("stream", "err") /\ cut' = cut \ {"stream"} /\ UNCHANGED <<todo, unsent>>

StreamCut ==
  /\ req["stream"] = "reading" /\ todo = <<>> /\ (lines = <<>> => "stream" \in cut)
  /\ Truncated
  /\ UNCHANGED <<process, tries, made, lines, events, listening, taken, vectors>>

(* An event is sent as soon as there is room; when no one listens, the     *)
(* answer is over.                                                         *)
SendEvent ==
  /\ req["stream"] = "reading" /\ todo # <<>>
  /\ \/ /\ listening /\ Len(events) < EventCap
        /\ events' = Append(events, Head(todo)) /\ todo' = Tail(todo)
        /\ IF Head(todo) = <<End>> THEN At("stream", "ok") /\ cut' = cut \ {"stream"} ELSE UNCHANGED <<req, cut>>
     \/ ~listening /\ At("stream", "ok") /\ cut' = cut \ {"stream"} /\ UNCHANGED <<events, todo>>
  /\ UNCHANGED <<process, tries, made, lines, unsent, listening, taken, vectors>>

TakeEvent ==
  /\ listening /\ events # <<>>
  /\ taken' = taken \o Head(events) /\ events' = Tail(events)
  /\ UNCHANGED <<process, req, tries, cut, made, lines, unsent, todo, listening, vectors>>

StopListening ==
  /\ listening /\ req["stream"] \in {"waiting", "reading"} /\ listening' = FALSE
  /\ UNCHANGED <<process, req, tries, cut, made, lines, unsent, todo, events, taken, vectors>>

-----------------------------------------------------------------------------
Supervision == LaunchServer \/ ProbeOk \/ ProbeGivesUp \/ SwapBuild
Calls3 == (\E r \in Requests : Connect(r) \/ NoAnswer(r)) \/ ReadLine \/ StreamCut \/ SendEvent
ServerNext ==
  \/ Supervision \/ \E k \in {"crash", "empty"} : ServerRestart(k)
  \/ LlamaReady \/ LlamaHangs \/ LlamaDies \/ ChatAnswered \/ EmbedAnswered \/ EmbedTimesOut \/ StreamOpens \/ LlamaStreams
  \/ \E r \in Requests : Ask(r)
  \/ Calls3 \/ TakeEvent \/ StopListening

-----------------------------------------------------------------------------
(* The Vulkan build is given up only after two crashes: empty answers,     *)
(* which a client can provoke, never cost a node its GPU.                  *)
SwapNeedsCrashes == [][variant' # variant => relaunched["crash"] >= 2]_serverVars

(* What llama-server answered reaches the caller: a stream delivers what it*)
(* wrote, text and tool calls in their order, and is only a success when   *)
(* delivered to its end, even when llama-server is killed meanwhile; and of*)
(* the embeddings, the one at the place of an input is the one that was    *)
(* given for that input, and no input lacks one.                           *)
ServedFaithfully ==
  /\ IsPrefix(taken, made)
  /\ req["stream"] = "ok" /\ listening => Contains(made, End) /\ (events = <<>> => taken = made)
  /\ req["embed"] = "ok" => vectors = <<0, 1>>

(* A request comes back when it cannot be connected, or when the process   *)
(* that has it is gone.                                                    *)
LostCallsReturn == \A r \in Requests : req[r] = "trying" \/ r \in cut ~> req[r] # "trying" /\ r \notin cut
=============================================================================
