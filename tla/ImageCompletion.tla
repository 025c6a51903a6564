--------------------------- MODULE ImageCompletion ---------------------------
(***************************************************************************)
(* The completion of an image job (src/src/image_job.rs and the planning in*)
(* src/src/image.rs): sealed once, then posted again and again until it is *)
(* taken, refused for good, or out of time.  Times are measured from the   *)
(* moment the node received the job; the orchestrator counts from when it  *)
(* dispatched it, and takes the job back after JobTimeout.                 *)
(***************************************************************************)
EXTENDS OrchestratorCalls, FiniteSetsExt

CONSTANTS
  RequestTimeout,   \* for the generation (420 s)
  NodeDeadline,     \* after which the node gives up (480 s)
  UploadMargin,     \* the least time worth starting an attempt for (20 s)
  HttpTimeout,      \* of one attempt (60 s)
  RetryBase, RetryMax,   \* back-off between attempts (1 s, 16 s)
  JobTimeout,       \* after which the orchestrator reaps the job (600 s)
  MaxDelay,         \* of the dispatch on its way to the node (environment)
  MaxLinger         \* of an attempt given up, until it is taken (environment)

ASSUME ImageAssumption ==
  /\ {RequestTimeout, NodeDeadline, UploadMargin, HttpTimeout, MaxDelay, MaxLinger} \subseteq Nat
  /\ {RetryBase, RetryMax, JobTimeout} \subseteq Nat \ {0}
  /\ RequestTimeout + UploadMargin < NodeDeadline
  /\ NodeDeadline + MaxDelay + MaxLinger < JobTimeout

VARIABLES
  delay,     \* of the dispatch
  elapsed,   \* since the job was received
  wait,      \* before the next attempt: none before the first
  body,      \* how often the result was sealed
  takenAt    \* when completions were taken, on the orchestrator's clock (history)

imageVars == <<delay, elapsed, wait, body, takenAt>>

ImageTypeOK ==
  /\ delay \in 0 .. MaxDelay /\ elapsed \in Nat /\ wait \in 0 .. RetryMax
  /\ body \in Nat /\ takenAt \subseteq Nat

ImageInit == delay \in 0 .. MaxDelay /\ elapsed = 0 /\ wait = 0 /\ body = 0 /\ takenAt = {}

(* Generation takes its time, and its result is sealed.                    *)
GenerateImage(done) ==
  /\ \E d \in 0 .. RequestTimeout : elapsed' = d
  /\ body' = IF done THEN 1 ELSE 0
  /\ UNCHANGED <<delay, wait, takenAt>>

(* plan_completion_attempt: when the next attempt starts, whether it fits  *)
(* before the deadline, and how long it may take.  The number of the       *)
(* attempt enters through its back-off alone, which doubles up to RetryMax.*)
(* One mutant forgets that limit, one leaves the full timeout.             *)
Doubled(w) == IF w = 0 THEN RetryBase ELSE 2 * w
Backoff(w) == Min({Doubled(w), RetryMax})
StartsAt == elapsed + wait
Fits == StartsAt + UploadMargin <= NodeDeadline
FullTimeout(start) == HttpTimeout
Timeout(start) == Min({NodeDeadline - start, HttpTimeout})

(* Every attempt posts the body that was sealed before the first; the      *)
(* mutant seals it again each time.                                        *)
SealsAgain == body' = body + 1
SealedOnce == UNCHANGED body

(* One attempt: taken and heard of, or taken or not and to be tried again, *)
(* or refused for good; one that was given up may still be taken later.    *)
(* "over" says whether it was the last.                                    *)
PostImage(over) ==
  /\ Fits /\ SealedOnce /\ wait' = Backoff(wait)
  /\ \E d \in 0 .. Timeout(StartsAt) : elapsed' = StartsAt + d
  /\ LET p == Complete("v2", body', TRUE) IN
       \/ Taken(p) /\ over = TRUE /\ takenAt' = takenAt \cup {delay + elapsed'}
       \/ AnswerLost(p) /\ over = FALSE /\ \E l \in 0 .. MaxLinger : takenAt' = takenAt \cup {delay + elapsed' + l}
       \/ NotTaken /\ over \in BOOLEAN /\ UNCHANGED takenAt
  /\ UNCHANGED delay

OutOfTime == ~Fits /\ UNCHANGED <<imageVars, callVars>>
=============================================================================
