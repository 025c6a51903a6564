---------------------------- MODULE EmbedEngine ----------------------------
(***************************************************************************)
(* The engine that computes text embeddings in the node's own process      *)
(* (src/src/embed.rs).  One worker thread owns the model and serves one job*)
(* at a time, a list of inputs.  It packs as many inputs as fit into one   *)
(* pass over the model, each under a sequence id of its own, and reads one *)
(* vector for each id.                                                     *)
(*                                                                         *)
(* An input is the number of its tokens.  A vector is the set of inputs    *)
(* whose tokens were in the model's cells under the id it was read for.    *)
(***************************************************************************)
EXTENDS Integers, Sequences, FiniteSets, SequencesExt

CONSTANTS
  MaxEmbeds,   \* how many jobs are given to the engine (bound of the model)
  InputLists,  \* the lists of inputs they ask for
  MaxInputs,   \* inputs of a job (4096)
  MaxSeqs,     \* inputs in a pass (256)
  Context      \* tokens in a pass (the model's limit)

ASSUME EmbedAssumption ==
  /\ MaxEmbeds \in Nat /\ MaxInputs \in Nat /\ MaxSeqs \in Nat \ {0} /\ Context \in Nat \ {0}
  /\ InputLists \subseteq Seq(Nat)

VARIABLES
  eat, ejob,           \* the worker: where, and with which job
  eup, ebusy, estale,  \* the model is loaded; in a job; no progress for WEDGE_MS
  ehung,               \* a native call has hung (history)
  eopen, queued,       \* the engine's handle still exists; the jobs in its channel
  asked,               \* per job: the inputs
  next, cells,         \* the next input to pack, and the inputs under each id
  vecs, ereply         \* the vectors so far; per job: new, none, or its outcome

embedVars == <<eat, ejob, eup, ebusy, estale, ehung, eopen, queued, asked, next, cells, vecs, ereply>>
embedHealth == <<eup, ebusy, estale, ehung>>

Embeds == 1 .. MaxEmbeds
NoEmbed == 0
Named == [job : Embeds, nth : Nat]

EmbedTypeOK ==
  /\ eat \in {"load", "recv", "begin", "tokenize", "pack", "encode", "end", "gone"}
  /\ ejob \in Embeds \cup {NoEmbed} /\ queued \in Seq(Embeds)
  /\ eup \in BOOLEAN /\ ebusy \in BOOLEAN /\ estale \in BOOLEAN /\ ehung \in BOOLEAN /\ eopen \in BOOLEAN
  /\ asked \in [Embeds -> InputLists \cup {<<>>}] /\ next \in Nat
  /\ cells \in Seq(SUBSET Named) /\ Len(cells) <= MaxSeqs
  /\ vecs \in Seq(SUBSET Named)
  /\ ereply \in [Embeds -> {"new", "none", "ok", "err"}]

EmbedInit ==
  /\ eat = "load" /\ ejob = NoEmbed /\ queued = <<>>
  /\ eup = FALSE /\ ebusy = FALSE /\ estale = FALSE /\ ehung = FALSE /\ eopen = TRUE
  /\ asked = [j \in Embeds |-> <<>>] /\ next = 1 /\ cells = <<>> /\ vecs = <<>>
  /\ ereply = [j \in Embeds |-> "new"]

(* is_healthy                                                              *)
EmbedHealthy == eup /\ ~(ebusy /\ estale)

-----------------------------------------------------------------------------
(* embed(): the list has a length the engine takes, and the worker is there.*)
GiveEmbed(j) ==
  /\ eat # "load" /\ eopen /\ ereply[j] = "new" /\ \A i \in Embeds : i < j => ereply[i] # "new"
  /\ \E list \in InputLists :
       /\ asked' = [asked EXCEPT ![j] = list]
       /\ IF list # <<>> /\ Len(list) <= MaxInputs /\ eat # "gone"
          THEN queued' = Append(queued, j) /\ ereply' = [ereply EXCEPT ![j] = "none"]
          ELSE ereply' = [ereply EXCEPT ![j] = "err"] /\ UNCHANGED queued
  /\ UNCHANGED <<eat, ejob, embedHealth, eopen, next, cells, vecs>>

DropEmbed ==
  /\ eat # "load" /\ eopen /\ eopen' = FALSE
  /\ UNCHANGED <<eat, ejob, embedHealth, queued, asked, next, cells, vecs, ereply>>

-----------------------------------------------------------------------------
(* The worker.  Of a model that is not the catalog's nothing is served.    *)
LoadEmbed ==
  /\ eat = "load" /\ ~ehung
  /\ \/ eat' = "recv" /\ eup' = TRUE
     \/ eat' = "gone" /\ UNCHANGED eup
  /\ UNCHANGED <<ejob, ebusy, estale, ehung, eopen, queued, asked, next, cells, vecs, ereply>>

(* A job is taken, also when the handle is gone: what is in the channel is *)
(* served before the worker ends.  The flag that says busy is set before   *)
(* the time of the last progress is.                                       *)
TakeEmbed ==
  /\ eat = "recv" /\ queued # <<>>
  /\ ejob' = Head(queued) /\ queued' = Tail(queued)
  /\ eat' = "begin" /\ ebusy' = TRUE /\ next' = 1 /\ vecs' = <<>>
  /\ UNCHANGED <<eup, estale, ehung, eopen, asked, cells, ereply>>

BeginEmbed ==
  /\ eat = "begin" /\ eat' = "tokenize" /\ estale' = FALSE
  /\ UNCHANGED <<ejob, eup, ebusy, ehung, eopen, queued, asked, next, cells, vecs, ereply>>

EmbedReplies(r) == ereply' = [ereply EXCEPT ![ejob] = r] /\ eat' = "end"

(* Before anything is computed every input is looked at; the dimension may *)
(* be one the model does not have.                                         *)
Tokenized == \A i \in DOMAIN asked[ejob] : asked[ejob][i] \in 1 .. Context

Tokenize ==
  /\ eat = "tokenize" /\ ~ehung
  /\ \/ EmbedReplies("err")
     \/ Tokenized /\ eat' = "pack" /\ UNCHANGED ereply
  /\ UNCHANGED <<ejob, embedHealth, eopen, queued, asked, next, cells, vecs>>

(* The inputs from "next" on that go into the next pass: as many as fit,   *)
(* and at least one.  The mutant takes one id too many.                    *)
Input(i) == [job |-> ejob, nth |-> i]
TokensOf(named) == UNION {{n} \X (1 .. asked[n.job][n.nth]) : n \in named}
Tokens(from, to) == Cardinality(TokensOf({Input(i) : i \in from .. to}))
OneSeqMore(end) ==
  /\ end \in next .. Len(asked[ejob])
  /\ \A e \in next .. end : e - next <= MaxSeqs /\ (e > next => Tokens(next, e) <= Context)
Grouped(end) ==
  /\ end \in next .. Len(asked[ejob])
  /\ \A e \in next .. end : e - next < MaxSeqs /\ (e > next => Tokens(next, e) <= Context)
GroupEnd == CHOOSE end \in DOMAIN asked[ejob] : Grouped(end) /\ ~Grouped(end + 1)

(* The cells are cleared of the pass before.  The mutant leaves them.      *)
Cell(l) == {Input(next + l - 1)}
KeepGroup(n) ==
  [l \in 1 .. n |-> Cell(l) \cup IF l \in DOMAIN cells THEN cells[l] ELSE {}]
ClearGroup(n) == [l \in 1 .. n |-> Cell(l)]

Pack ==
  /\ eat = "pack" /\ next <= Len(asked[ejob])
  /\ cells' = ClearGroup(GroupEnd - next + 1)
  /\ eat' = "encode"
  /\ UNCHANGED <<ejob, embedHealth, eopen, queued, asked, next, vecs, ereply>>

(* The pass, and a vector for each of its ids; or an error, which is the   *)
(* answer of the whole job.                                                *)
Encode ==
  /\ eat = "encode" /\ ~ehung
  /\ \/ /\ vecs' = vecs \o cells /\ next' = next + Len(cells)
        /\ eat' = "pack" /\ estale' = FALSE /\ UNCHANGED ereply
     \/ EmbedReplies("err") /\ estale' \in {estale, FALSE} /\ UNCHANGED <<vecs, next>>
  /\ UNCHANGED <<ejob, eup, ebusy, ehung, eopen, queued, asked, cells>>

EmbedOk ==
  /\ eat = "pack" /\ next > Len(asked[ejob])
  /\ EmbedReplies("ok")
  /\ UNCHANGED <<ejob, embedHealth, eopen, queued, asked, next, cells, vecs>>

EmbedEnds ==
  /\ eat = "end" /\ eat' = "recv" /\ ebusy' = FALSE
  /\ UNCHANGED <<ejob, eup, estale, ehung, eopen, queued, asked, next, cells, vecs, ereply>>

StopEmbed ==
  /\ eat = "recv" /\ queued = <<>> /\ ~eopen
  /\ eat' = "gone" /\ eup' = FALSE /\ ebusy' = FALSE
  /\ UNCHANGED <<ejob, estale, ehung, eopen, queued, asked, next, cells, vecs, ereply>>

(* A native call never returns; WEDGE_MS pass without progress.            *)
HangEmbed ==
  /\ eat \in {"load", "tokenize", "encode"} /\ ~ehung /\ ehung' = TRUE
  /\ UNCHANGED <<eat, ejob, eup, ebusy, estale, eopen, queued, asked, next, cells, vecs, ereply>>

EmbedAges ==
  /\ ~estale /\ estale' = TRUE
  /\ UNCHANGED <<eat, ejob, eup, ebusy, ehung, eopen, queued, asked, next, cells, vecs, ereply>>

EmbedWorker ==
  \/ LoadEmbed \/ TakeEmbed \/ BeginEmbed \/ Tokenize \/ Pack \/ Encode
  \/ EmbedOk \/ EmbedEnds \/ StopEmbed

EmbedEngineNext ==
  \/ \E j \in Embeds : GiveEmbed(j)
  \/ EmbedWorker \/ DropEmbed \/ HangEmbed \/ EmbedAges

-----------------------------------------------------------------------------
(* A job answered well has the vector of each of its inputs, in their order*)
(* and from nothing but that input, however they were packed; and no pass  *)
(* holds more tokens than the model takes.                                 *)
EmbeddingsFaithful ==
  /\ \A i \in DOMAIN vecs : vecs[i] = {Input(i)}
  /\ eat = "end" /\ ereply[ejob] = "ok" => Len(vecs) = Len(asked[ejob])
  /\ eat = "encode" => Cardinality(TokensOf(UNION Range(cells))) <= Context

(* Every job is answered, also when the handle is dropped while it waits,  *)
(* unless the worker hangs inside the library...                           *)
EmbedsAnswered == \A j \in Embeds : ereply[j] = "none" ~> ereply[j] # "none" \/ ehung

(* ...and then the engine is seen to be unhealthy.                         *)
EmbedHangSeen == ehung ~> ~EmbedHealthy
=============================================================================
