---------------------------- MODULE InprocEngine ----------------------------
(***************************************************************************)
(* The engine that runs the model in the node's own process                *)
(* (src/src/inprocess.rs).  One worker thread owns the model and decodes   *)
(* up to MaxSlots jobs together; each slot has its own cells of the KV     *)
(* cache.  Jobs come through an unbounded channel.  A streamed answer      *)
(* leaves through a bounded channel that the worker never waits for long,  *)
(* since it serves the other slots too.                                    *)
(*                                                                         *)
(* What a job has generated is a sequence of numbers: piece n of its       *)
(* output is n when it is text and -n when it is a tool call.              *)
(***************************************************************************)
EXTENDS Integers, Sequences, SequencesExt

CONSTANTS
  MaxJobs,     \* how many jobs are given to the engine (bound of the model)
  MaxSlots,    \* jobs decoded together (the operator's parallel slots)
  MaxNew,      \* tokens of an answer (the request's max_tokens)
  FlushEvery,  \* tokens in a piece of a stream (6)
  PipeCap,     \* pieces a stream's channel holds (64)
  PendingCap   \* undelivered text that ends a stream (1 MiB)

ASSUME InprocAssumption ==
  /\ MaxJobs \in Nat /\ MaxSlots \in Nat \ {0} /\ MaxNew \in Nat \ {0}
  /\ FlushEvery \in Nat \ {0} /\ PipeCap \in Nat \ {0} /\ PendingCap \in Nat

VARIABLES
  at, slot, phase,     \* the worker: where, at which slot, admitting or emitting
  loaded, failed,      \* the model is loaded; the backend has failed for good
  fatal,               \* whether the decode that failed did so for good
  busy, stale,         \* in an iteration; no progress for WEDGE_MS
  wedged,              \* a native call has hung (history)
  connected,           \* the engine's handle still exists
  inbox, waiting,      \* jobs in the channel, and jobs taken from it
  slots, kv,           \* the job in each slot, and the job whose cells it holds
  mode, out,           \* per job: how it is answered, and what its slot keeps
  pipe, client, got,   \* per job: its stream, who reads it, and what was read
  reply                \* per job: not given, given, or its outcome

inprocVars == <<at, slot, phase, loaded, failed, fatal, busy, stale, wedged, connected, inbox, waiting,
                slots, kv, mode, out, pipe, client, got, reply>>
health == <<loaded, failed, fatal, busy, stale, wedged, connected>>
streams == <<pipe, client, got>>

Jobs == 1 .. MaxJobs
Slots == 1 .. MaxSlots
Free == 0
Done == 0
NoOutput == [made |-> <<>>, tokens |-> 0, pending |-> <<>>, batched |-> 0, held |-> FALSE, dropped |-> FALSE]
Outputs == [made : Seq(Int), tokens : 0 .. MaxNew, pending : Seq(Int), batched : 0 .. MaxNew,
            held : BOOLEAN, dropped : BOOLEAN]

InprocTypeOK ==
  /\ at \in {"load", "recv", "admit", "decode", "failing", "emit", "call", "again", "stop", "finish",
            "lastcall", "tail", "done", "gone"}
  /\ slot \in 1 .. MaxSlots + 1 /\ phase \in {"admit", "emit"}
  /\ loaded \in BOOLEAN /\ failed \in BOOLEAN /\ fatal \in BOOLEAN /\ busy \in BOOLEAN
  /\ stale \in BOOLEAN /\ wedged \in BOOLEAN /\ connected \in BOOLEAN
  /\ inbox \in Seq(Jobs) /\ waiting \in Seq(Jobs)
  /\ slots \in [Slots -> Jobs \cup {Free}] /\ kv \in [Slots -> Jobs \cup {Free}]
  /\ mode \in [Jobs -> {"whole", "stream", "tools"}]
  /\ out \in [Jobs -> Outputs]
  /\ pipe \in [Jobs -> Seq(Seq(Int))] /\ \A j \in Jobs : Len(pipe[j]) <= PipeCap
  /\ client \in [Jobs -> {"here", "away"}] /\ got \in [Jobs -> Seq(Int)]
  /\ reply \in [Jobs -> {"new", "none", "ok", "err", "fatal"}]

InprocInit ==
  /\ at = "load" /\ slot = 1 /\ phase = "admit"
  /\ loaded = FALSE /\ failed = FALSE /\ fatal = FALSE /\ busy = FALSE /\ stale = FALSE /\ wedged = FALSE
  /\ connected = TRUE /\ inbox = <<>> /\ waiting = <<>>
  /\ slots = [s \in Slots |-> Free] /\ kv = [s \in Slots |-> Free]
  /\ mode \in [Jobs -> {"whole", "stream", "tools"}]
  /\ out = [j \in Jobs |-> NoOutput]
  /\ pipe = [j \in Jobs |-> <<>>] /\ client = [j \in Jobs |-> "here"] /\ got = [j \in Jobs |-> <<>>]
  /\ reply = [j \in Jobs |-> "new"]

(* engine_health                                                           *)
InprocHealthy == loaded /\ ~failed /\ ~(busy /\ stale)

Active == {s \in Slots : slots[s] # Free}
Current == slots[slot]
Streamed(j) == mode[j] # "whole"
thread == <<at, slot, phase>>
GoTo(pc) == at' = pc /\ UNCHANGED <<slot, phase>>
Begin(pc, p) == at' = pc /\ slot' = 1 /\ phase' = p
NextSlot == at' = phase /\ slot' = slot + 1 /\ UNCHANGED phase
Answer(js, r) == reply' = [j \in Jobs |-> IF j \in js THEN r ELSE reply[j]]

-----------------------------------------------------------------------------
(* Jobs are given in the order of their numbers, once the engine is ready. *)
Give(j) ==
  /\ at # "load" /\ connected /\ reply[j] = "new" /\ \A i \in Jobs : i < j => reply[i] # "new"
  /\ \/ at # "gone" /\ inbox' = Append(inbox, j) /\ Answer({j}, "none")
     \/ at = "gone" /\ Answer({j}, "err") /\ UNCHANGED inbox
  /\ UNCHANGED <<thread, health, waiting, slots, kv, mode, out, streams>>

(* The engine's handle is dropped: the node is shutting down.              *)
Disconnect ==
  /\ at # "load" /\ connected /\ connected' = FALSE
  /\ UNCHANGED <<thread, loaded, failed, fatal, busy, stale, wedged, inbox, waiting, slots, kv, mode, out,
                 streams, reply>>

(* Who reads the stream reads a piece, or goes away.                       *)
Read(j) ==
  /\ pipe[j] # <<>> /\ client[j] = "here"
  /\ got' = [got EXCEPT ![j] = @ \o Head(pipe[j])]
  /\ pipe' = [pipe EXCEPT ![j] = Tail(@)]
  /\ UNCHANGED <<thread, health, inbox, waiting, slots, kv, mode, out, client, reply>>

GoAway(j) ==
  /\ Streamed(j) /\ reply[j] = "none" /\ client[j] = "here"
  /\ client' = [client EXCEPT ![j] = "away"]
  /\ UNCHANGED <<thread, health, inbox, waiting, slots, kv, mode, out, pipe, got, reply>>

-----------------------------------------------------------------------------
(* The worker loads the model and makes the context, or start() fails.     *)
Load ==
  /\ at = "load" /\ ~wedged
  /\ \/ GoTo("recv") /\ loaded' = TRUE
     \/ GoTo("gone") /\ UNCHANGED loaded
  /\ UNCHANGED <<failed, fatal, busy, stale, wedged, connected, inbox, waiting, slots, kv, mode, out, streams, reply>>

(* Before an iteration: what is in the channel is taken.  The mutant calls *)
(* the worker busy only when a slot already has a job.                     *)
BusyWhenActive == busy' = (Active # {})
Busy == busy' = TRUE

Receive ==
  /\ at = "recv" /\ connected /\ (Active # {} \/ waiting # <<>> \/ inbox # <<>>)
  /\ waiting' = waiting \o inbox /\ inbox' = <<>>
  /\ Begin("admit", "admit") /\ Busy /\ stale' = FALSE
  /\ UNCHANGED <<loaded, failed, fatal, wedged, connected, slots, kv, mode, out, streams, reply>>

(* The handle is gone: every job is failed, none is billed.                *)
Teardown ==
  /\ at = "recv" /\ ~connected
  /\ Answer({j \in Jobs : reply[j] = "none"}, "err")
  /\ slots' = [s \in Slots |-> Free] /\ kv' = [s \in Slots |-> Free]
  /\ inbox' = <<>> /\ waiting' = <<>>
  /\ GoTo("gone") /\ loaded' = FALSE /\ busy' = FALSE
  /\ UNCHANGED <<failed, fatal, stale, wedged, connected, mode, out, streams>>

-----------------------------------------------------------------------------
(* What the slot does with a piece (emit).                                 *)
CanSend(j) == client[j] = "here" /\ Len(pipe[j]) < PipeCap

(* flush_stream_nonblocking: the text goes out, or is kept; too much of it,*)
(* or no one to read it, and the stream is given up.  The mutant forgets   *)
(* the text it could not send.                                             *)
Forgotten(j, o) == [o EXCEPT !.pending = <<>>]
Kept(j, o) == [o EXCEPT !.dropped = @ \/ client[j] = "away" \/ Len(o.pending) > PendingCap]
Flush(j, o) ==
  IF o.pending = <<>> THEN out' = [out EXCEPT ![j] = o] /\ UNCHANGED pipe
  ELSE IF CanSend(j)
       THEN /\ out' = [out EXCEPT ![j] = [o EXCEPT !.pending = <<>>, !.batched = 0]]
            /\ pipe' = [pipe EXCEPT ![j] = Append(@, o.pending)]
       ELSE out' = [out EXCEPT ![j] = Kept(j, o)] /\ UNCHANGED pipe

FlushIfDue(j, o) ==
  IF o.batched >= FlushEvery THEN Flush(j, o) ELSE out' = [out EXCEPT ![j] = o] /\ UNCHANGED pipe

Number(o) == Len(o.made) + 1
Counted(j, o) == [o EXCEPT !.tokens = @ + 1, !.batched = IF Streamed(j) THEN @ + 1 ELSE 0]
WithText(o) == [o EXCEPT !.made = Append(@, Number(o)), !.pending = Append(@, Number(o))]
WithCall(o) == [o EXCEPT !.made = Append(@, -Number(o)), !.held = FALSE]

(* A token: text; text held back because a tool call may begin; or the end *)
(* of a call, which is sent on its own, after the text that precedes it,   *)
(* and before the text that is due is tried once more.                     *)
EmitText(j) ==
  /\ LET o == WithText([Counted(j, out[j]) EXCEPT !.held = FALSE])
     IN  IF Streamed(j) THEN FlushIfDue(j, o)
         ELSE out' = [out EXCEPT ![j] = [o EXCEPT !.pending = <<>>]] /\ UNCHANGED pipe
  /\ GoTo("stop")

HoldBack(j) ==
  /\ mode[j] = "tools" /\ ~out[j].held
  /\ FlushIfDue(j, [Counted(j, out[j]) EXCEPT !.held = TRUE])
  /\ GoTo("stop")

EmitCall(j) ==
  /\ mode[j] = "tools" /\ out[j].held
  /\ Flush(j, WithCall(Counted(j, out[j])))
  /\ GoTo("call")

Sample(j) ==
  \/ EmitText(j) \/ HoldBack(j) \/ EmitCall(j)
  \/ out' = [out EXCEPT ![j].tokens = @ + 1] /\ GoTo("finish") /\ UNCHANGED pipe

SendCall ==
  /\ at = "call"
  /\ LET j == Current
     IN  \/ CanSend(j) /\ pipe' = [pipe EXCEPT ![j] = Append(@, <<-Len(out[j].made)>>)] /\ UNCHANGED out
         \/ ~CanSend(j) /\ out' = [out EXCEPT ![j].dropped = TRUE] /\ UNCHANGED pipe
  /\ GoTo("again")
  /\ UNCHANGED <<health, inbox, waiting, slots, kv, mode, client, got, reply>>

FlushAgain ==
  /\ at = "again" /\ FlushIfDue(Current, out[Current]) /\ GoTo("stop")
  /\ UNCHANGED <<health, inbox, waiting, slots, kv, mode, client, got, reply>>

(* Stop here: given up, long enough, or the slot's context used up.        *)
StopHere(j) == out[j].dropped \/ out[j].tokens >= MaxNew

StopOrGoOn ==
  /\ at = "stop"
  /\ IF StopHere(Current) THEN GoTo("finish") ELSE NextSlot
  /\ UNCHANGED <<health, inbox, waiting, slots, kv, mode, out, streams, reply>>

-----------------------------------------------------------------------------
(* admit, slot by slot: the prompt is rendered and prefilled, and a first  *)
(* token sampled.  The mutant leaves the cells of a failed prefill.        *)
KeepCells(s) == kv' = [kv EXCEPT ![s] = Head(waiting)]
ClearCells(s) == kv' = [kv EXCEPT ![s] = Free]

NextToAdmit == slots[slot] = Free /\ waiting # <<>>

Refuse ==
  /\ at = "admit" /\ slot <= MaxSlots /\ NextToAdmit /\ ~wedged
  /\ waiting' = Tail(waiting) /\ ClearCells(slot)
  /\ \/ Answer({Head(waiting)}, "err") /\ UNCHANGED failed
     \/ Answer({Head(waiting)}, "fatal") /\ failed' = TRUE
  /\ NextSlot /\ stale' = FALSE
  /\ UNCHANGED <<loaded, fatal, busy, wedged, connected, inbox, slots, mode, out, streams>>

Prefill ==
  /\ at = "admit" /\ slot <= MaxSlots /\ NextToAdmit /\ ~failed /\ ~wedged
  /\ waiting' = Tail(waiting)
  /\ slots' = [slots EXCEPT ![slot] = Head(waiting)]
  /\ kv' = [kv EXCEPT ![slot] = Head(waiting)]
  /\ Sample(Head(waiting)) /\ stale' = FALSE
  /\ UNCHANGED <<loaded, failed, fatal, busy, wedged, connected, inbox, mode, client, got, reply>>

PassSlot ==
  /\ at = "admit" /\ slot <= MaxSlots /\ ~NextToAdmit /\ NextSlot
  /\ UNCHANGED <<health, inbox, waiting, slots, kv, mode, out, streams, reply>>

Admitted ==
  /\ at = "admit" /\ slot > MaxSlots
  /\ GoTo("decode")
  /\ UNCHANGED <<health, inbox, waiting, slots, kv, mode, out, streams, reply>>

-----------------------------------------------------------------------------
(* One decode for all slots, and then a token for each.                    *)
Decode ==
  /\ at = "decode" /\ Active # {} /\ ~failed /\ ~wedged
  /\ Begin("emit", "emit") /\ stale' = FALSE
  /\ UNCHANGED <<loaded, failed, fatal, busy, wedged, connected, inbox, waiting, slots, kv, mode, out, streams, reply>>

(* A decode that fails takes every slot with it.  A backend that failed    *)
(* for good is marked before any job is answered, and once it failed every *)
(* later decode fails.  The mutant does not mark it.                       *)
Unmarked == failed' = failed
Marked == failed' = TRUE

DecodeFails ==
  /\ at = "decode" /\ Active # {} /\ ~wedged
  /\ \/ Marked /\ fatal' = TRUE
     \/ ~failed /\ fatal' = FALSE /\ UNCHANGED failed
  /\ Begin("failing", phase)
  /\ UNCHANGED <<loaded, busy, stale, wedged, connected, inbox, waiting, slots, kv, mode, out, streams, reply>>

AnswerFailed ==
  /\ at = "failing" /\ slot <= MaxSlots
  /\ IF Current = Free THEN UNCHANGED <<slots, kv, reply>>
     ELSE /\ kv' = [kv EXCEPT ![slot] = Free] /\ slots' = [slots EXCEPT ![slot] = Free]
          /\ Answer({Current}, IF fatal THEN "fatal" ELSE "err")
  /\ at' = "failing" /\ slot' = slot + 1 /\ UNCHANGED phase
  /\ UNCHANGED <<health, inbox, waiting, mode, out, streams>>

EmitToken ==
  /\ at = "emit" /\ slot <= MaxSlots /\ Current # Free
  /\ Sample(Current)
  /\ UNCHANGED <<health, inbox, waiting, slots, kv, mode, client, got, reply>>

EmitNothing ==
  /\ at = "emit" /\ slot <= MaxSlots /\ Current = Free /\ NextSlot
  /\ UNCHANGED <<health, inbox, waiting, slots, kv, mode, out, streams, reply>>

IterationEnds ==
  /\ \/ at \in {"emit", "failing"} /\ slot > MaxSlots
     \/ at = "decode" /\ Active = {}
  /\ Begin("recv", "admit") /\ busy' = FALSE
  /\ UNCHANGED <<loaded, failed, fatal, stale, wedged, connected, inbox, waiting, slots, kv, mode, out, streams, reply>>

-----------------------------------------------------------------------------
(* finish_ok: what the scanner held is a call, which no one misses when it *)
(* cannot be sent, or it is text after all; then the cells are cleared and *)
(* the job is answered.                                                    *)
FinishCall ==
  /\ at = "finish" /\ mode[Current] = "tools" /\ out[Current].held
  /\ Flush(Current, WithCall(out[Current])) /\ GoTo("lastcall")
  /\ UNCHANGED <<health, inbox, waiting, slots, kv, mode, client, got, reply>>

SendLastCall ==
  /\ at = "lastcall" /\ GoTo("finish")
  /\ IF CanSend(Current) THEN pipe' = [pipe EXCEPT ![Current] = Append(@, <<-Len(out[Current].made)>>)]
     ELSE UNCHANGED pipe
  /\ UNCHANGED <<health, inbox, waiting, slots, kv, mode, out, client, got, reply>>

Settled(j, r) == Answer({j}, r) /\ slots' = [slots EXCEPT ![slot] = Free] /\ NextSlot

FinishOk ==
  /\ at = "finish"
  /\ kv' = [kv EXCEPT ![slot] = Free]
  /\ LET j == Current
         o == IF out[j].held THEN WithText([out[j] EXCEPT !.held = FALSE]) ELSE out[j]
     IN  /\ out' = [out EXCEPT ![j] = o]
         /\ IF Streamed(j) /\ ~o.dropped
            THEN GoTo(IF o.pending = <<>> THEN "done" ELSE "tail") /\ UNCHANGED <<slots, reply>>
            ELSE Settled(j, "ok")
  /\ UNCHANGED <<health, inbox, waiting, mode, streams>>

(* The last text, and after it the counts.  When the channel stays full,   *)
(* or no one reads it, the stream has failed.  The mutant waits for room.  *)
SendTail ==
  /\ at = "tail" /\ CanSend(Current)
  /\ pipe' = [pipe EXCEPT ![Current] = Append(@, out[Current].pending)]
  /\ out' = [out EXCEPT ![Current].pending = <<>>]
  /\ GoTo("done")
  /\ UNCHANGED <<health, inbox, waiting, slots, kv, mode, client, got, reply>>

SendDone ==
  /\ at = "done" /\ CanSend(Current)
  /\ pipe' = [pipe EXCEPT ![Current] = Append(@, <<Done>>)]
  /\ Settled(Current, "ok")
  /\ UNCHANGED <<health, inbox, waiting, kv, mode, out, client, got>>

NoGivingUp == client[Current] = "away" /\ Settled(Current, "err")
Undelivered == Settled(Current, "err")

Undeliverable ==
  /\ at \in {"tail", "done"} /\ ~CanSend(Current)
  /\ Undelivered
  /\ UNCHANGED <<health, inbox, waiting, kv, mode, out, streams>>

-----------------------------------------------------------------------------
(* A native call never returns: loading, a prefill or a decode.            *)
InNative == at = "load" \/ (at = "admit" /\ slot <= MaxSlots /\ NextToAdmit) \/ (at = "decode" /\ Active # {})

Wedge ==
  /\ InNative /\ ~wedged /\ wedged' = TRUE
  /\ UNCHANGED <<thread, loaded, failed, fatal, busy, stale, connected, inbox, waiting, slots, kv, mode, out, streams, reply>>

(* WEDGE_MS pass without a token.                                          *)
NoProgress ==
  /\ busy /\ ~stale /\ stale' = TRUE
  /\ UNCHANGED <<thread, loaded, failed, fatal, busy, wedged, connected, inbox, waiting, slots, kv, mode, out, streams, reply>>

InprocWorker ==
  \/ Load \/ Receive \/ Teardown \/ Refuse \/ Prefill \/ PassSlot \/ Admitted
  \/ Decode \/ DecodeFails \/ AnswerFailed \/ EmitToken \/ EmitNothing \/ SendCall \/ FlushAgain \/ StopOrGoOn
  \/ IterationEnds \/ FinishCall \/ SendLastCall \/ FinishOk \/ SendTail \/ SendDone \/ Undeliverable

InprocNext ==
  \/ \E j \in Jobs : Give(j) \/ Read(j) \/ GoAway(j)
  \/ InprocWorker \/ Disconnect \/ Wedge \/ NoProgress

(* The worker runs, and time passes while it hangs.  Nothing is assumed of *)
(* who reads the streams.                                                  *)
InprocSpec ==
  /\ InprocInit /\ [][InprocNext]_inprocVars
  /\ WF_inprocVars(InprocWorker) /\ WF_inprocVars(wedged /\ NoProgress)

-----------------------------------------------------------------------------
Events(s) == SelectSeq(s, LAMBDA n : n # Done)

(* Between iterations a free slot holds no cells: the next job given that  *)
(* slot starts from an empty context.                                      *)
FreeSlotsEmpty == at = "recv" => \A s \in Slots : slots[s] = Free => kv[s] = Free

(* However slow its reader, a stream delivers the text in order and without*)
(* a gap, and the counts a client is billed by come only after all of it:  *)
(* no one is billed for text that was not delivered.                       *)
Texts(s) == {n \in Range(s) : n > Done}
Ascending(s) == \A i, k \in DOMAIN s : i < k /\ s[i] > Done /\ s[k] > Done => s[i] < s[k]
DoneAfterText ==
  \A j \in Jobs :
    /\ Ascending(got[j]) /\ Texts(got[j]) \subseteq Texts(out[j].made)
    /\ \A m \in Texts(out[j].made), n \in Texts(got[j]) : m < n => m \in Texts(got[j])
    /\ Done \in Range(got[j]) => Texts(got[j]) = Texts(out[j].made)

(* A caller that is told of a backend failed for good finds the engine     *)
(* unhealthy.                                                              *)
FatalSeenUnhealthy == (\E j \in Jobs : reply[j] = "fatal") => ~InprocHealthy

(* Every job is answered, whoever reads its stream and however slowly,     *)
(* unless the worker hangs inside the library...                           *)
JobsAnswered == \A j \in Jobs : reply[j] = "none" ~> reply[j] # "none" \/ wedged

(* ...and a worker that hangs does not stay advertised, not even when it   *)
(* hangs on the prompt of its first job.                                   *)
HangSeen == wedged ~> ~InprocHealthy

(* Text that preceded a tool call reaches the client before the call.      *)
CallsInOrder == \A j \in Jobs : IsPrefix(Events(got[j]), out[j].made)
=============================================================================
