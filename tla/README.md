# Verification of the SGL network node

This directory holds TLA+ models of `sgl-network-node` (the Rust program under
`src/src/`), the TLC configurations that check them on small instances, and
proofs for the TLA+ proof system of the facts that must hold for every size.
Every definition names in `PROJECT.json` ("map") the source lines it models.

## The system

The node is a background agent. It registers with an *orchestrator*, runs an
inference *engine*, and loops for ever: send a heartbeat, receive jobs, run
them, post the results. Everything of one process lives in `node::start`.

| component | state | operations | with whom |
|---|---|---|---|
| job admission (`maybe_spawn_job`, node.rs:601-728) | `active_jobs` (atomic u32), `inflight` (mutex set), `seen` (bounded list), `last_activity`, `completions` | offer by WebSocket, offer by REST, release at a task's end | called by two threads; read and cleared by the heartbeat loop |
| wedge watchdog (node.rs:1850-1900) | `wedge_restarts`, `last_completions` | test, restart, abandon, abort | clears `inflight`, lowers `active_jobs`, restarts the engine |
| empty-completion self-heal (node.rs:24-163, 1902-2003) | `EmptyHealth`: streak, quarantine and its age, restart count and time; one JSON file | record a reply, trip, quarantine, canary, restart | fed by job tasks; gates admission and advertising |
| health supervision, fatal backend (node.rs:165-268, 2010-2098) | `unhealthy_streak`, `restart_attempts`, `FatalBackendBudget` and its file | health check, restart, relaunch | decides what a heartbeat advertises |
| heartbeat, token rotation (node.rs:2140-2256) | the auth token in memory and in the config file | post, rotate, dispatch `pending_jobs`, sleep | WebSocket callback writes the same token |
| job processing (node.rs:2608-3905) | none shared but the above | decrypt, run, encrypt, post or fail | engine, orchestrator client |
| streaming relay (node.rs:4045-4428, stream_relay.rs, encryption.rs:423-488) | sequence number, pending deltas, running text | coalesce, seal, post, final chunk, error | engine's channel, orchestrator |
| WebSocket transport (ws.rs) | connected, back-off | connect, read job/ping/token, send heartbeat | `maybe_spawn_job` |
| server engine (inference.rs) | child process, variant, consecutive failures | start, restart, restart without swap, chat with retry | llama-server |
| in-process engine (inprocess.rs, embed.rs) | batch slots, queue, heartbeat stamp, `backend_failed` | admit, prefill, decode step, emit, finish, cancel | a native thread, channels |
| engine workers (eg2.rs, stt.rs, tts.rs, image.rs) | child, generation, readiness, one job, replay cache, restart times | start, supervise, run a job, restart, stop | Python workers over a pipe |
| image completion (image_job.rs, orchestrator.rs:885-923) | deadline, attempts | execute, complete with retries | orchestrator |
| login (node.rs:783-957) | lock file, device code | acquire, poll, store | orchestrator, another login |
| self-update, set-up (update.rs, setup.rs) | staging directory, binary, back-up | download, verify, swap, roll back | files |
| service, telemetry, tee, crypto, se_identity, toolcall, multimodal, embedding_input, config, main | little or none | pure functions, one-shot commands | |

What makes it hard: admission and release interleave over several threads and
the counter is released by two different parties; the loop holds state across
awaits (canary up to 20 s, restarts, health checks) while jobs go on arriving;
an in-process engine can only be restarted by `abort()`, so anything not on
disk is forgotten; tasks whose engine was killed go on and post something.

### What makes each component correct

- *Admission*: the counter never exceeds the capacity and never wraps; each
  counted slot has exactly one owner; an id is run once; a job turned away is
  run when it is offered again.
- *Self-heal*: restarts keep to cap and cooldown across aborts; a dead engine
  stays parked; a live one does not stay parked for ever; a streak is noticed.
- *Health*: a failed backend is relaunched, not too often; an engine that stays
  down is withdrawn and not restarted for ever.
- *Job processing*: what is served is what was reserved and priced; every job
  is reported, and after an outcome was taken no other is given; what is noted
  of the engine's health agrees with what the client saw.
- *Streaming*: chunks are numbered without gaps, in order, one final chunk; an
  interrupted stream is billed for every token that was relayed, and of the text
  that was lost for its first piece at most.
- *Workers*: one job at a time, an answer belongs to the request that waits for
  it, a replayed id is refused, and only such; every call comes back, whatever
  the worker does; an engine that cannot serve is not advertised.
- *In-process and server engine*: a request never sees the state or the answer
  of another; an answer is whole or an error; one slow reader stops nobody; a
  hang is seen.
- *Image completion*: posted until acknowledged or out of time, never after.
- *Token*: memory and file end with the newest token (not modelled).
- *Update*: after a crash at any step there is a runnable binary (not modelled).

## Modules

| module | models | composed with |
|---|---|---|
| `JobSlots` | admission, the tasks' release, the watchdog's and the self-heal's abandonment, the heartbeat loop around them | refines `JobLedger` |
| `JobLedger` | abstract: new, running, over | |
| `PersistedBudget` | the restart counter in memory and in its file, with its verdicts | used by the next two |
| `SelfHeal` | `EmptyHealth` and the loop's self-heal, with crashes | refines `RestartBudget` |
| `HealthSupervision` | the health part of a heartbeat, with aborts | refines `RestartBudget` |
| `RestartBudget` | abstract: bursts of restarts, capped and spaced | |
| `WorkerEngine` | what the four engines with a worker process share: start, supervisor, reader, calls, restart, stop | the next three extend it |
| `SttEngine`, `TtsEngine`, `ImageEngine` | where transcription, speech and images differ: replay caches, budgets, park | |
| `Engines` | the worker engine of one node, any of the four | all of the above |
| `InprocEngine` | the chat worker thread over llama.cpp | |
| `EmbedEngine` | the embedding worker thread over llama.cpp | |
| `ServerEngine` | llama-server: its life and the requests made of it | |
| `ChatEngines` | the llama.cpp engine of one node, any of the three | the last three |
| `OrchestratorCalls` | the calls that report a job, and how each is lost | the next three extend it |
| `StreamRelay` | a streamed answer on its way from the engine to the orchestrator | `OrchestratorCalls` |
| `ImageCompletion` | an image, sealed once and posted until a deadline | `OrchestratorCalls` |
| `JobProcessing` | `process_job`: one job of any type, from its arrival to its report | the last three |
| `JobSlotsProofs`, `JobLedgerProofs`, `PersistedBudgetProofs`, `SelfHealProofs`, `HealthSupervisionProofs`, `EnginesProofs`, `ChatEnginesProofs`, `JobProcessingProofs` | theorems | each extends its module |
| `MC*` | instances for TLC | |

### JobSlots

One action is one access to shared state; a stamp of `last_activity` is joined
to the step next to it. `dpc` says where each of the two dispatch paths is in
`maybe_spawn_job`, `tpc` where each spawned task is after `process_job`, `hb`
where the heartbeat loop is. The names follow the code: `Gate` (quarantine
test), `Reserve` (the `fetch_update`), `Dedup` (`check_and_insert`, with the
roll-back), `Track`, `Spawn`; `Untrack` (`still_tracked`), `ReleaseSlot`,
`CountCompletion`, `StampEnd`; `WatchWedged`, `RestartEngine`, `Abandon`,
`ReleaseAbandoned`, `Heal`, `Canary...`, `Snapshot`, `Health...`, `Posts`.
Abstracted: time (`stale` becomes true at some point after the last stamp), the
streak of empty replies (`tripped`), the budget of restarts (a canary may or
may not restart; `SelfHeal` has the rules), the contents of jobs. `Hang` is the
engine's: a request that never returns until the engine is restarted.

### SelfHeal, HealthSupervision, PersistedBudget

Times are ages that grow with `Tick` and stop being told apart once they exceed
every limit, so the models are finite without a bound on behaviour. The loop's
clock is read before the canary is awaited: `delay` counts the ticks since. The
file is replaced by a rename, so a write happens or does not; `DiskMayFail`
says whether it may fail. `Crash` may strike in every state; the next process
reads the file. An in-process engine restarts by the same relaunch.

### WorkerEngine and the four engines

The definitions follow eg2.rs; where stt.rs, tts.rs and image.rs are the same
code under other names they are used as they are, and where not (`Stt...`,
`Tts...`, `Image...`) replaced. `sup` is where the supervisor thread is,
`reader` whether the reader thread still listens, `child` what the process is,
`loop` where `start` or `restart` is, `call[c]` where a caller is between its
health test and its answer. A frame carries the call it answers, so that a late
or repeated one can be told apart. `WorkerReady`, `WorkerAnswers`,
`WorkerRepeats` and `WorkerDies` are the worker's and may do anything the
pipe allows; a hang is a worker that does none of them. A restart of the image
engine may be refused at any time, for its hourly budgets. A replay cache (`seen`) keeps each id with
the time it was put in; an id leaves it after `ReplayWindow` (a day), when the
cache is next looked at (`Unexpired`), or when the cache is full (`Room`). The
two clients of a cache differ: transcription and speech put an id in when the
call begins, the image engine when its picture was made, and holds it as
`pending` until then. `TimePasses` moves the `clock`; `begun` and `kept` record
when a call began and when its id was put in. What `speak` and `generate` refuse
for the model of the request is in `JobProcessing` (`EngineTakes`). A panic of the supervisor is
left out.

### InprocEngine, EmbedEngine, ServerEngine

`InprocEngine`: `at` and `slot` say where the worker thread is in its
iteration; `slots`, `kv` and `out` are a sequence's job, the job whose cells it
holds, and what was generated; `pipe`, `got` and `client` the stream's bounded
channel and its reader, who may be as slow as he likes or leave. Piece `n` is
text when positive and a tool call when negative. Text is flushed before a call,
and again behind it when enough tokens have gathered (`FlushAgain`); a call
that the scanner gives back only at the end is tried once and lost when there is
no room (`SendLastCall`). Each library call may fail,
fail for good, or hang (`Wedge`). `EmbedEngine`: an input is the number of its
tokens, a vector the set of inputs whose tokens were in the cells it was read
from, so that packing and clearing can be checked. `ServerEngine`: `llama` is
the process, `lane` where its start or restart is, `cut` the requests whose
process is gone; the relay that reads the stream is the node's. A stream of
llama-server may be given up with lines unread, for a line too long; lines that
are not understood are passed over and do not appear. A panic in a
worker thread aborts the process and leaves nothing to check.

### JobProcessing and its parts

`pc` follows `process_job`; a job is its type, its envelope, the binding the
orchestrator reserved, the request under the seal and what it asks for, each
from a small set; a node is what it serves. Every call to the orchestrator is
taken and heard of, refused, or taken with the answer lost (`Report`); what was
taken is `accepted`, in order.

The three media lanes check in their own ways that the request under the seal is
the one reserved: `AudioServable`, `SpeechServable`, `ImageServable` have the
conditions of `execute_transcription`, `execute_speech` and
`image_job::execute`, `...Matches` those of each `ReservationBinding`, and
`EngineTakes` what the engine itself refuses. None of the three compares all
four of job, reservation, request and node; the model, for one, goes from job to
request to node in the first, from job to node and from request to engine in the
second. What the worker then makes (`made`) is what the request asks for, with
the model the node has, and `ServedAsReserved` compares this with the
reservation. Some of the checks are redundant (there is one image model, so
those of the image's model are); without the others, the transcription's of its
model, the speech engine's own or the comparison with the reservation in any
lane, a medium is made that was not reserved.

In `StreamRelay` an event of text carries the number of tokens it was made of,
none included, and a `batch` merges the pieces that had queued up, as
`coalesce_deltas` does: all its tokens, and those that lead, up to the first
piece that came out of the cleaner. `fate` is what became of each token
(history). The HOMURA cleaner may let a piece out, keep it, or swallow it, and
`PostTail` gives back what it kept, which may show nothing. Tokens of a piece
that does not come out count as swallowed. In `ImageCompletion` times are those
the code plans with, counted
from the arrival at the node, while the orchestrator counts from the dispatch,
`MaxDelay` earlier; and a request the node gave up may still be taken,
`MaxLinger` later at most.

## Runs

| run | instance | shows |
|---|---|---|
| `JobSlots_safety` | 2 jobs, 3 tasks, 2 slots, server and in-process engine | `TypeOK`, `NoSlotLeak`, `AtMostOnce`, refinement of `JobLedger` |
| `JobSlots_liveness` | 2 jobs, 2 tasks, 1 slot | `SlotSafety`, `EveryJobRuns` |
| `JobSlots_abandoned_completes` | the same | violated: an abandoned job posts its completion |
| `JobSlots_stale_snapshot` | the same | violated: a heartbeat omits a job in flight |
| `SelfHeal_budget` | 2 restarts per window of 4, 2 apart, canaries of at most 1 | refinement of `RestartBudget`, `NeverDarkForever`, `StreakNoticed` |
| `SelfHeal_unparks` | the same | violated: one slow canary frees a dead engine |
| `SelfHeal_lost_budget` | the same, the disk may fail | violated: the budget is forgotten |
| `HealthSupervision` | the code's own counts (5, 2, 12, 3) | refinement of `RestartBudget`, `FailedBackendRelaunched`, `DownWithdrawn`, `DownNotThrashed` |
| `Engines` | each of the four engines; 2 calls (3 of the image engine, and of any until the worker's first fault), 2 request ids of which one is repeated, 1 restart, a clock up to 2 | `AnswerOwn`, `AdvertisedIsPinned`, `ReplaysAreOld`, `RefusalJustified`, `HangsParked`, `EveryCallReturns`, `MuteWithdrawn`, `StopReturns` |
| `ChatEngines` | each of the three: 2 chats in 2 slots, one streamed with tools; 2 batches of embeddings from 7 lists; a chat, a stream and a batch over llama-server with 2 restarts | `FreeSlotsEmpty`, `DoneAfterText`, `FatalSeenUnhealthy`, `AnswersFaithful`, `EveryJobAnswered`, `WedgeSeen`, `SwapNeedsCrashes`, `LostCallsReturn` |
| `Inproc_call_order` | 1 stream, 4 pieces, a channel of 1 | violated: a tool call overtakes the text before it |
| `JobProcessing` | one job of every type on every node; 3 events of up to 2 tokens and the end, a channel of 2, chunks of 2 | `ServedAsReserved`, `OneOutcome`, `StreamAccounts`, `HealthSignalTrue`, `NoLateCompletion`, `EveryJobReported` |

Why the bounds suffice. Two jobs over two transports give every duplicate: one
id on both paths at once, and two ids competing; two slots let both paths hold
one at the same time, one slot makes every second job wait. Three tasks
(`TasksBound`) allow an abandoned task to linger while two others run.
`SeenCap` equals the number of jobs in the runs that assume nothing is
forgotten; with a smaller one `AtMostOnce` does not hold (an id evicted from
the list of 1024 runs again when offered again), while `SlotSafety` is proved
for every `SeenCap`. `CounterModulus` is small so that a wrap is visible.
`MaxWedgeRestarts` is 1, so that both outcomes happen. The limits of
`SelfHeal` are the smallest that keep the code's order
`canary < cooldown < window` and `threshold > 1`. `StreakBound` leaves one more
reply than the threshold, so that the compare-exchange may fail. In
`HealthSupervision` only times are scaled.

`Engines`: the two calls are the one whose answer comes late and the one that
must not get it; the third of the image engine repeats an id after a failure.
With one frame of room (`FrameCap`, 2 in the code) a frame too many happens; one
restart (`MaxRestarts`, 3)
is made and the next refused; two time-outs (`MaxConsecutive`, 3) park. A
replay cache of one id (`ReplayCap`, 65536) forgets by count and a window of one
tick (`ReplayWindow`, a day) by time, each without the other; the clock runs to
2, so that an id is put in, forgotten and put in again. It runs until
the worker's first fault or a restart (`Undisturbed`), after which it would only
multiply the states: they do not touch the caches. Lists of more ids, of which
some are forgotten and some not, are left to the theorem.
`ChatEngines`: `PipeCap` and `PendingCap` of one make a slow reader fill the
channel and the text kept behind it; with `FlushEvery` 1 each piece is an event,
and a `BatchSize` of 2 (6) joins pieces; `MaxNew` pieces of an answer allow
text, a call and text; `MaxSeqs` 2 (256), `Context` 3 and `MaxInputs` 3 (4096)
with the lists of `MCChatEngines` meet every limit of the packing exactly and by
one too many; two restarts are what the swap needs. An `Instance` constraint
fixes who streams in `ChatEngines` and which call repeats which id in
`Engines`: what it excludes is a renaming of what it keeps, and requests over
llama-server that overlap, which share nothing there but the process.
`JobProcessing`: two events fit into the channel, fewer than there are, so
the engine waits for room; two pieces fill a chunk, and a third waits or, when it
is not text, is held; with up to two tokens a piece the lead of a chunk and its
sum differ, as do its pieces and its tokens. Only
times are scaled in the image's plan, with the order of the code's limits, and
`JobTimeout - NodeDeadline` is more than the delay of a dispatch and the time a
request may linger.

Deadlock is checked in all runs but those of the engines and of `JobProcessing`,
which end: a node whose engine does not start exits, and the calls and the job
of an instance come to an end.

Fairness. The tokio runtime polls every ready task: weak fairness of the
heartbeat loop, of a dispatch under way, of a task whose call returns. Time
passes: an activity that is not stamped becomes stale, and in the other modules
`Tick` is strongly fair (it is disabled while the canary's timeout is used up).
`EveryJobRuns` also assumes of the environment that the orchestrator answers
again and again, keeps offering the job over REST, pushes finitely often, that
a canary is some day answered, and that the process is aborted finitely often;
nothing is assumed of `Hang`. `FailedBackendRelaunched` assumes no crash.
In `Engines` the node's threads run, deadlines pass (each `recv_timeout` of the
code has one), and the output of a process that died ends; nothing is assumed of
a living worker. In `ChatEngines` the worker threads, the supervision of
llama-server and the calls run, and time passes while a native call hangs;
nothing is assumed of llama-server, of the library, nor of the readers of the
in-process engine. In `JobProcessing` the task goes on whenever it can, because
each request it makes has a time limit, and an engine sends while there is room
for it, but need not end while there is none.

## Findings

Each is a violation run.

1. *A dead engine is un-parked by one slow probe* (`SelfHeal_unparks`,
   node.rs:1987). The five-minute limit is measured from the first entry into
   quarantine although canaries that came back empty lie in between.
2. *The restart budget is lost when its file cannot be written*
   (`SelfHeal_lost_budget`, node.rs:148): the failure is ignored and the abort
   follows.
3. *An abandoned job may be completed, and billed*
   (`JobSlots_abandoned_completes`, node.rs:1889).
4. *A heartbeat may omit a job in flight* (`JobSlots_stale_snapshot`,
   node.rs:2008).
5. *A tool call can overtake the text before it* (`Inproc_call_order`,
   inprocess.rs:1058). The text is flushed without waiting; when the channel is
   full it is kept, and the call, a moment later, may find room.
Seen in the models without a run of their own: an evicted id runs again; a
dispatch that passed the quarantine gate spawns its job after the quarantine;
cooldown and window are measured from the clock read before the canary, so two
restarts can be closer by the duration of a canary (the refinement is to
`MinInterval - MaxDelay`); an in-process engine that stays down is advertised
for one heartbeat after every abort. When the answer to a chunk is lost, the
chunk that settles the stream bears the same number again (`StreamAccounts`
allows for it; stream_relay.rs:15 has the numbers contiguous from 0).
When the
answer to the last chunk is lost, an error follows an outcome that was taken and
billed (`OneOutcome` allows for it; node.rs:4405 says "NO billing" of that
path): the node cannot tell it from a chunk that was lost. A stream whose client
left is settled with a final chunk that bills what was relayed: node.rs:4372
says so, while the comment at 4051-4052 has "no final → no charge";
`StreamAccounts` states what the code does.

## Proofs

`JobSlotsProofs` (all parameters arbitrary, finite sets of jobs and tasks):

- `TypeCorrect`: `Spec => []TypeOK`.
- `SlotsSafe`: `Spec => []SlotSafety`. `SlotSafety` says that the slots owed
  are covered by the counter and the counter by the capacity. It is inductive
  together with `TypeOK` and `AbandonedIsBrief` (ids cleared are deducted in
  the next step of the loop only). `SlotBalance` is the core: each step keeps
  the difference of counter and owed slots (`Balanced`), or empties everything
  (`Cleared`, an abort), or loses an owner (`OwnerLost`: an id evicted from the
  list and offered again is put into a set that has it already) - which makes
  the counter too large, never too small.

`JobLedgerProofs` (in addition `Remembers`: `SeenCap` is at least the number of
jobs, so nothing is evicted):

- `JobsRunOnce`, `NoSlotLost`: `Spec => []AtMostOnce`, `Spec => []NoSlotLeak`.
- `NodeKeepsLedger`: `Spec => RefinesLedger`.
  All three rest on `LedgerInv`: the list has no duplicates, an id in flight is
  in it, an id between acceptance and spawn is in it, is held by one dispatcher
  and was never started, nothing is started that is not in it. `AtMostOnce`
  alone is not inductive: two dispatchers could hold the same id. `StepKinds`
  reduces the 30 actions to five effects on the ledger; `AcceptRemembers` shows
  that a list without duplicates is not full when a new id arrives;
  `RoomForOne` takes the ledger's capacity from `SlotSafety`. With a smaller
  list `AtMostOnce` is false, so the assumption is needed: for the program it
  reads "no id is offered again after 1024 others".

`SelfHealProofs` and `HealthSupervisionProofs` (any cap, window, cooldown,
threshold and canary length in the order `BudgetAssumption` states; they share
the lemmas of `PersistedBudgetProofs`):

- `SelfHealTypeCorrect`, `HealthTypeCorrect`: `Spec => []TypeOK`.
- `SelfHealKeepsBudget`, `RelaunchesKeepBudget`: if the disk does not fail,
  `Spec => RefinesBudget`, whatever the crashes. The refinement speaks of the
  real restarts, which the program cannot see after an abort; the inductive
  invariant `BudgetInv` ties them to the file:
  the file mirrors the memory (`Mirrored`); the last restart noted is at most
  `MaxDelay` older than the last real one (`NotedBefore`); within a window the
  count covers the real restarts (`Covered`); and between the note and the
  restart there is room for one more and the cooldown has passed (`Cleared`).
  The assumption on the disk is necessary: `SelfHeal_lost_budget` is the
  counterexample without it.

`EnginesProofs` (any calls, request ids, frames and limits; all four engines).
The theorems speak of `Engines`, whose engine is fixed by `kind`. `Step` is the
list of effects that a step of any of the four can have, and each invariant is
shown for `Step` once. The invariants build on each other:

- `Common`: where the supervisor, the restart and each call are agrees with who
  holds the one job (`Jobs`), a worker is advertised only after it named the
  pinned model (`Starting`, `Pinned`), and a success has its own answer.
  Theorems `AnswersAreOwn`, `OnlyPinned`, and the action property
  `AnswersAreFinal`: no answer given to a call is ever changed, by a late frame
  or by a restart.
- `Blamed` adds what was counted: an unread time-out belongs to a worker that is
  halted (`Stalled`), and no more requests timed out since the last picture than
  were counted, and that one (`Tally`). Theorem `HangsAreParked`.
- `Typed` adds the replay cache: no id is in it twice and it is never over its
  size. Theorem `TypeCorrect`.
- `Served` adds `Claims` (what is pending is what a live call claimed) and
  `Recollection`: calls, their begin and the time their ids were put in agree
  (`Filed`); what the cache holds was put in then (`Known`); what was put in is
  held, or its window is over, or as many other ids as the cache holds have been
  put in (`Recalled`); and of two calls of one id that are served, the second
  began a window later or that many others were put in (`Aged`). The step from "the id fell
  out of a full cache" to "that many others were entered" is a count of distinct
  ids (`FiniteSetTheorems`). Theorems `ReplaysAreFar`, `RefusalsAreJustified`.

`JobProcessingProofs` (any limits, any sizes of answers):

- `Frame` is `TypeOK` with: a lane changes nothing that is another's, and none asks
  its engine for what did not pass its checks (`Lanes`); a chunk under way has the
  tokens of its pieces, and up to its lead at most one piece that came out begins
  (`Counts`); an image is given up by `NodeDeadline` (`Clock`). Theorems
  `TypeCorrect` and `NeverLate`: the latter needs only that the node's deadline,
  the delay of a dispatch and the time a request may linger together are less
  than the orchestrator's timeout.
- `Streamed` adds `Numbers`: while chunks are posted the next number is how many
  were taken, and every token so far is counted and none undelivered
  (`AllCounted`); at the settlement the number may be one behind, if an answer was
  lost, and what is counted may be billed (`Billed`); each
  number is sealed for one thing only. That billing the lead is enough follows
  from `Counts`: the lead of a lost chunk ends in the first piece that came out.
  Theorem `StreamAccounted`.
- `Ruled` adds `Outcomes`, what may have been taken at each place of the program.
  Theorem `SingleOutcome`.
- `Kept` gives `ReservationKept`: what was made is what was reserved, which is shown
  lane by lane, each from its own checks (`Making`), and a completion has the
  envelope of its job and for a medium something made (`Formed`).
- `Told` (`Shows`, what was shown at each place; `Judged`, what was noted of it) and
  `Unnoted` (a stream that is settled is not noted) give `SignalTrue`.

`ChatEnginesProofs` (any numbers of jobs, slots, pieces, inputs; any lists of
inputs). `ChatInv` has a part for each engine:

- `Serving`: a job is in one queue or slot at most and has no output before it is
  seated (`Places`), one that is decoded has room for a token more (`Budget`), a
  free slot has no cells (`Cells`), and the backend is marked before any job
  hears that it failed (`FatalMarked`). Theorems `FreeSlots`, `FatalSeen`.
- `Relayed`: for each job `Flow` relates what its reader has (`got`), what is in
  the channel, what is kept behind it and what was made: the text in them ascends
  in this order (`InOrder`), it is the text made and all of it (`Whole`), and
  nothing comes after the end (`Ending`). `DoneAfterText` alone is not inductive, since it sees only what the
  reader has. Theorem `BilledForText`.
- `Embedded`: the vectors so far are those of the inputs before `next`, a pass
  holds those from there on, and their tokens fit (`Packed`). That a group of
  inputs has an end (`GroupEnds`) is a least-number argument, not an induction.
- `Beside`: what llama-server made is, without gap or overlap, what the reader
  took, the events in the channel, those being sent, the text not yet sent and the
  lines not yet read (`Carried`, by `Segments`); the vectors are in their inputs' places whatever
  the order of the rows (`InPlace`); and the GPU build is given up only when two
  crashes were counted (`Relaunches`). With `Embedded` it gives `AnswersTrue`, and
  `SwapsAreEarned`. The theorem `ChatTypeCorrect` follows from all parts.

Every safety property and every refinement that a passing run checks is stated
by a theorem. Only model-checked are the liveness properties (`EveryJobRuns`,
`NeverDarkForever`, `StreakNoticed`, `FailedBackendRelaunched`,
`DownWithdrawn`, `DownNotThrashed`, `EveryCallReturns`, `MuteWithdrawn`,
`StopReturns`, `EveryJobAnswered`, `WedgeSeen`, `LostCallsReturn`,
`EveryJobReported`): liveness under fairness is out of the prover's reach.

What the theorems assume is what the modules assume of their constants, which
TLC evaluates for each instance, and besides it `Remembers` (`JobLedgerProofs`)
and a disk that does not fail (the two `...KeepBudget`).

## Plan

The modules and runs above are complete, and every safety property they check is
proved. What is left would say more about the same modules:

1. The safety half of the liveness properties, where it has one: that no state
   of a worker engine leaves a call waiting with nobody to answer it, and that a
   job of the in-process engine that is not answered is in a queue, in a slot or
   in the thread's hand.
2. `HealthSupervision`: how many heartbeats a backend that is down may be
   advertised for, as an action property with its bound.

## Not modelled, and why

- *Token rotation and the WebSocket's reconnection* (node.rs:1749-1758,
  2216-2229, ws.rs): two tasks write the same field of one file, each from a
  copy of the configuration read at start. Which of two tokens is still good is
  decided by the orchestrator, which is not in the repository, so a model of the
  node's half has nothing to be checked against.
- *Login* (node.rs:783-957), *self-update* (update.rs), *set-up* (setup.rs),
  *service installation*: commands run once, by hand, that are sequences of file
  operations and downloads.
- *Telemetry, command line, configuration, installers*: no state that steps can
  disturb.
- *Ciphers, signatures, key storage, attestation*: pure functions on bytes or
  calls of the platform. What an envelope binds and which number a chunk is
  sealed under is modelled.
- *Grammars and texts*: the tool-call parser, chat templates, media codecs and
  the cleaner's rules; only what they hold back, let out or reject is modelled.
- *The hour of the image engine's two budgets*: a restart may be refused at any
  time, and which of the budgets refuses it is not told apart. That the flag of a
  time-out is taken down even by a refused restart (image.rs:769) is modelled;
  that the next restart is then charged as one after a crash is not.
