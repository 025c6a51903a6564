----------------------------- MODULE StreamRelay -----------------------------
(***************************************************************************)
(* A streamed answer (process_inference_stream, src/src/node.rs, and       *)
(* src/src/stream_relay.rs).  The engine puts events in a bounded channel; *)
(* the node seals them into numbered chunks and posts these one at a time, *)
(* putting text that has queued up meanwhile into one chunk.  A piece of   *)
(* text carries the number of tokens it was made of; for a HOMURA model a  *)
(* cleaner may swallow a piece, or keep it for the end.                    *)
(***************************************************************************)
EXTENDS OrchestratorCalls

CONSTANTS
  MaxEvents,    \* events of an answer (bound of the model)
  ChannelCap,   \* events the channel holds (64)
  CoalesceMax,  \* pieces in a chunk; 0 when coalescing is turned off (8 KiB)
  MaxTokens     \* tokens of a piece (FLUSH_EVERY, and more when text was kept back)

ASSUME RelayAssumption ==
  MaxEvents \in Nat /\ ChannelCap \in Nat \ {0} /\ CoalesceMax \in Nat /\ MaxTokens \in Nat

VARIABLES
  relay,           \* where the relay is
  gen, produced,   \* the engine's task, and how many events it has sent
  channel, held,   \* the channel, and an event taken from it too early
  batch, carried,  \* the pieces merged for the next chunk, and their tokens (history)
  seq, sealed,     \* the next number, and all that was sealed under a number
  emitted, fate,   \* tokens counted so far, and what became of each (history)
  visible, cleaner,\* something was shown, and the cleaner keeps some text
  signal           \* what was noted for the engine's health

relayVars == <<relay, gen, produced, channel, held, batch, carried, seq, sealed, emitted, fate, visible, cleaner, signal>>

Texts == [kind : {"text"}, vis : BOOLEAN, tokens : 0 .. MaxTokens]
Call == [kind |-> "call"]
DoneEvent == [kind |-> "done"]
Events == Texts \cup {Call, DoneEvent}

(* TextBatch: how many of its pieces came out of the cleaner, whether they *)
(* show anything, all its tokens, and those up to the first that came out. *)
Batches == [out : Nat, vis : BOOLEAN, tokens : Nat, lead : Nat]
NoBatch == [out |-> 0, vis |-> FALSE, tokens |-> 0, lead |-> 0]

(* A token either opens its piece or not, and comes out with it or not; it *)
(* was relayed, taken without an answer, not taken, or swallowed.          *)
Tokens == [opens : BOOLEAN, out : BOOLEAN]
Fates == [opens : BOOLEAN, how : {"relayed", "unheard", "undelivered", "swallowed"}]

RelayTypeOK ==
  /\ relay \in {"idle", "loop", "merge", "text", "done", "final", "settle", "broken", "reported", "over"}
  /\ gen \in {"none", "running", "ok", "err", "aborted"} /\ produced \in 0 .. MaxEvents + 1
  /\ channel \in Seq(Events) /\ Len(channel) <= ChannelCap /\ held \in Seq(Events)
  /\ batch \in Batches /\ carried \in Seq(Tokens)
  /\ seq \in Nat /\ sealed \subseteq [seq : Nat, final : BOOLEAN, nth : Nat]
  /\ emitted \in Nat /\ fate \in Seq(Fates)
  /\ visible \in BOOLEAN /\ cleaner \in BOOLEAN /\ signal \in {"none", "empty", "ok"}

RelayInit ==
  /\ relay = "idle" /\ gen = "none" /\ produced = 0 /\ channel = <<>> /\ held = <<>>
  /\ batch = NoBatch /\ carried = <<>>
  /\ seq = 0 /\ sealed = {} /\ emitted = 0 /\ fate = <<>> /\ visible = FALSE /\ cleaner = FALSE
  /\ signal = "none"

-----------------------------------------------------------------------------
(* The engine sends events, waiting for room, and ends with Done; or it    *)
(* ends without, having failed or given the stream up.                     *)
Produce(e) ==
  /\ gen = "running" /\ Len(channel) < ChannelCap
  /\ IF e = DoneEvent THEN gen' = "ok" ELSE produced < MaxEvents /\ UNCHANGED gen
  /\ channel' = Append(channel, e) /\ produced' = produced + 1
  /\ UNCHANGED <<relay, held, batch, carried, seq, sealed, emitted, fate, visible, cleaner, signal, callVars>>

GiveUp ==
  /\ gen = "running" /\ gen' \in {"ok", "err"}
  /\ UNCHANGED <<relay, produced, channel, held, batch, carried, seq, sealed, emitted, fate, visible, cleaner, signal, callVars>>

(* A tool call comes only when tools were offered.                         *)
Generate(tools) == \E e \in Events : (e = Call => tools) /\ Produce(e)

-----------------------------------------------------------------------------
(* seal_post_chunk: a chunk is sealed and signed under its number and its  *)
(* final flag, and posted.                                                 *)
Seal(final) == sealed' = sealed \cup {[seq |-> seq, final |-> final, nth |-> Cardinality(sealed)]}

(* What the node hears of a chunk: it went on to the client, the client is *)
(* gone, or nothing good.                                                  *)
Heard == {"relayed", "closed", "nothing"}
PostChunk(heard, shows) ==
  /\ Seal(FALSE)
  /\ \/ heard = "relayed" /\ Taken(Chunk(seq, shows))
     \/ heard = "closed" /\ UNCHANGED callVars
     \/ heard = "nothing" /\ (NotTaken \/ AnswerLost(Chunk(seq, shows)))

(* After a chunk: go on under the next number, or settle.                  *)
Onward(heard) ==
  IF heard = "relayed" THEN seq' = seq + 1 /\ UNCHANGED relay ELSE relay' = "settle" /\ UNCHANGED seq

Next0 == IF held # <<>> THEN Head(held) ELSE Head(channel)
HasNext == held # <<>> \/ channel # <<>>
Rest == IF held # <<>> THEN held' = <<>> /\ UNCHANGED channel ELSE channel' = Tail(channel) /\ UNCHANGED held

RelayCall ==
  /\ relay = "loop" /\ HasNext /\ Next0 = Call /\ Rest
  /\ visible' = TRUE
  /\ \E heard \in Heard :
       /\ PostChunk(heard, TRUE)
       /\ Onward(heard)
  /\ UNCHANGED <<gen, produced, batch, carried, emitted, fate, cleaner, signal>>

-----------------------------------------------------------------------------
(* coalesce_deltas, add: the tokens up to the first piece that comes out   *)
(* lead.  "out" says whether the cleaner lets this one through; the text   *)
(* of the others is kept, or dropped as envelope.                          *)
Added(b, e, out) ==
  [out |-> IF out THEN b.out + 1 ELSE b.out, vis |-> b.vis \/ (out /\ e.vis), tokens |-> b.tokens + e.tokens,
   lead |-> IF b.out = 0 THEN b.tokens + e.tokens ELSE b.lead]

Merge(homura) ==
  /\ channel # <<>> /\ Head(channel).kind = "text" /\ channel' = Tail(channel)
  /\ \E out \in BOOLEAN :
       /\ homura \/ out
       /\ batch' = Added(batch, Head(channel), out)
       /\ carried' = carried \o [i \in 1 .. Head(channel).tokens |-> [opens |-> i = 1, out |-> out]]
       /\ cleaner' = (cleaner \/ (~out /\ Head(channel).vis))
  /\ relay' = "merge"
  /\ UNCHANGED <<gen, produced, held, seq, sealed, emitted, fate, visible, signal, callVars>>

(* The first piece, and those that already wait behind it, until the chunk *)
(* is full or something else than text comes, which is held.               *)
FirstText(homura) == relay = "loop" /\ held = <<>> /\ Merge(homura)
MoreText(homura) == relay = "merge" /\ batch.out < CoalesceMax /\ Merge(homura)

MergeEnds ==
  /\ relay = "merge" /\ relay' = "text"
  /\ \/ (batch.out >= CoalesceMax \/ channel = <<>>) /\ UNCHANGED <<channel, held>>
     \/ /\ batch.out < CoalesceMax /\ channel # <<>> /\ Head(channel).kind # "text"
        /\ held' = <<Head(channel)>> /\ channel' = Tail(channel)
  /\ UNCHANGED <<gen, produced, batch, carried, seq, sealed, emitted, fate, visible, cleaner, signal, callVars>>

(* The tokens of a chunk that was not delivered: those that lead.  The     *)
(* mutant counts them all.                                                 *)
CountAll(b) == b.tokens
Counted(b) == b.lead

Fated(how) ==
  fate' = fate \o [i \in DOMAIN carried |->
                     [opens |-> carried[i].opens, how |-> IF carried[i].out THEN how ELSE "swallowed"]]
BatchEnds == batch' = NoBatch /\ carried' = <<>>

SwallowedText ==
  /\ relay = "text" /\ batch.out = 0
  /\ emitted' = emitted + batch.tokens /\ Fated("swallowed") /\ BatchEnds
  /\ relay' = "loop"
  /\ UNCHANGED <<gen, produced, channel, held, seq, sealed, visible, cleaner, signal, callVars>>

PostText ==
  /\ relay = "text" /\ batch.out # 0
  /\ visible' = (visible \/ batch.vis)
  /\ \E heard \in Heard :
       /\ PostChunk(heard, batch.vis)
       /\ IF heard = "relayed" THEN emitted' = emitted + batch.tokens /\ seq' = seq + 1 /\ relay' = "loop"
          ELSE emitted' = emitted + Counted(batch) /\ relay' = "settle" /\ UNCHANGED seq
       /\ Fated(IF heard = "relayed" THEN "relayed" ELSE IF accepted' # accepted THEN "unheard" ELSE "undelivered")
  /\ BatchEnds
  /\ UNCHANGED <<gen, produced, channel, held, cleaner, signal>>

-----------------------------------------------------------------------------
(* Done: what the cleaner kept is posted; an answer that shows nothing     *)
(* after the cleaning fails; otherwise the last chunk bears the counts.    *)
RelayDone(homura) ==
  /\ relay = "loop" /\ HasNext /\ Next0 = DoneEvent /\ Rest
  /\ relay' = IF homura THEN "done" ELSE "final"
  /\ UNCHANGED <<gen, produced, batch, carried, seq, sealed, emitted, fate, visible, cleaner, signal, callVars>>

(* The text the cleaner kept comes out, if only blanks of it, or turns out *)
(* to be envelope.                                                         *)
PostTail ==
  /\ relay = "done" /\ cleaner /\ cleaner' = FALSE
  /\ \/ \E heard \in Heard, shows \in BOOLEAN :
        /\ visible' = (visible \/ shows)
        /\ PostChunk(heard, shows)
        /\ Onward(heard)
     \/ UNCHANGED <<visible, relay, seq, sealed, callVars>>
  /\ UNCHANGED <<gen, produced, channel, held, batch, carried, emitted, fate, signal>>

BlankDone(expects) ==
  /\ relay = "done" /\ ~cleaner
  /\ IF expects /\ ~visible THEN signal' = "empty" /\ relay' = "broken" ELSE relay' = "final" /\ UNCHANGED signal
  /\ UNCHANGED <<gen, produced, channel, held, batch, carried, seq, sealed, emitted, fate, visible, cleaner, callVars>>

(* The engine's health is judged by what was shown, not by what was        *)
(* counted, as the mutant does.                                            *)
Signalled(empty, expects) == signal' = IF ~expects THEN signal ELSE IF empty THEN "empty" ELSE "ok"
ByTokens(expects) == Signalled(emitted = 0, expects)
ByText(expects) == Signalled(~visible, expects)

(* The last chunk ends the job, also when the client is gone by then, and  *)
(* the engine's task is aborted.  It bears the engine's own count of its   *)
(* tokens, not the relay's, and is left out.  When the node does not hear  *)
(* that it was taken, the stream has failed.                               *)
PostFinal(expects) ==
  /\ relay = "final" /\ Seal(TRUE)
  /\ \/ /\ Taken(Final(seq, 0, FALSE)) /\ ByText(expects)
        /\ relay' = "over" /\ gen' = "aborted"
     \/ /\ NotTaken \/ AnswerLost(Final(seq, 0, FALSE))
        /\ relay' = "broken" /\ UNCHANGED <<signal, gen>>
  /\ UNCHANGED <<produced, channel, held, batch, carried, seq, emitted, fate, visible, cleaner>>

-----------------------------------------------------------------------------
(* The client is gone: the receiver is dropped and the engine's task       *)
(* aborted, and what was relayed is billed under the next number.  The     *)
(* mutant waits for the engine, with the receiver still there.             *)
WaitForEngine == gen # "running" /\ UNCHANGED gen
AbortEngine == gen' = "aborted"

Settle ==
  /\ relay = "settle" /\ AbortEngine /\ Seal(TRUE)
  /\ Taken(Final(seq, emitted, TRUE)) \/ NotTaken \/ AnswerLost(Final(seq, emitted, TRUE))
  /\ relay' = "over" /\ channel' = <<>> /\ held' = <<>>
  /\ UNCHANGED <<produced, batch, carried, seq, emitted, fate, visible, cleaner, signal>>

(* The engine ended without Done.                                          *)
EndOfStream ==
  /\ relay = "loop" /\ ~HasNext /\ gen # "running" /\ relay' = "broken"
  /\ UNCHANGED <<gen, produced, channel, held, batch, carried, seq, sealed, emitted, fate, visible, cleaner, signal, callVars>>

(* The engine's task is waited for, and the stream reported broken, or if  *)
(* that fails the job reported failed.                                     *)
ReportBroken ==
  /\ relay = "broken" /\ gen # "running"
  /\ \/ Taken(StreamError) /\ relay' = "over"
     \/ (NotTaken \/ AnswerLost(StreamError)) /\ relay' = "reported"
  /\ UNCHANGED <<gen, produced, channel, held, batch, carried, seq, sealed, emitted, fate, visible, cleaner, signal>>

ReportFailed ==
  /\ relay = "reported" /\ relay' = "over"
  /\ Taken(Fails) \/ NotTaken \/ AnswerLost(Fails)
  /\ UNCHANGED <<gen, produced, channel, held, batch, carried, seq, sealed, emitted, fate, visible, cleaner, signal>>

Relaying(homura, expects) ==
  \/ RelayCall \/ FirstText(homura) \/ MoreText(homura) \/ MergeEnds \/ SwallowedText \/ PostText
  \/ RelayDone(homura) \/ PostTail \/ BlankDone(expects) \/ PostFinal(expects)
  \/ Settle \/ EndOfStream \/ ReportBroken \/ ReportFailed

StartRelay ==
  /\ relay' = "loop" /\ gen' = "running"
  /\ UNCHANGED <<produced, channel, held, batch, carried, seq, sealed, emitted, fate, visible, cleaner, signal>>
=============================================================================
