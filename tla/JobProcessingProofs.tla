------------------------- MODULE JobProcessingProofs -------------------------
(***************************************************************************)
(* Proofs about JobProcessing, and with it about StreamRelay and           *)
(* ImageCompletion, for every value of their constants.                    *)
(*                                                                         *)
(* The invariant is a conjunction: where each lane keeps its state (Lanes),*)
(* how many events there are and how the pieces of a chunk were merged     *)
(* (Counts), what the relay has posted, sealed and counted so far          *)
(* (Numbers), when an image is posted (Clock), which outcomes were taken   *)
(* (Outcomes), what was made and completed (Kept) and what was shown       *)
(* (Shows).                                                                *)
(***************************************************************************)
EXTENDS JobProcessing, SequenceTheorems, FiniteSetTheorems, TLAPS

(* Each lane is in its own part of the program, and touches only its own   *)
(* variables; whatever was asked of the engine passed every check.         *)
Untouched ==
  /\ gen = "none" /\ produced = 0 /\ channel = <<>> /\ held = <<>> /\ batch = NoBatch /\ carried = <<>>
  /\ seq = 0 /\ sealed = {} /\ emitted = 0 /\ fate = <<>> /\ visible = FALSE /\ cleaner = FALSE
Lanes ==
  /\ pc = "stream" <=> relay # "idle"
  /\ relay = "idle" => Untouched
  /\ pc \in {"serving", "reply", "stream", "image", "upload"} => Accepted /\ Servable
  /\ pc = "received" => signal = "none"
  /\ pc = "stream" => Streams
  /\ pc \in {"image", "upload"} => job.type = "image"
  /\ pc \in {"serving", "reply"} => job.type # "image"

(* The engine sends no more events than an answer has, and the merging of  *)
(* pieces knows the tokens they carry: up to the lead at most one piece    *)
(* that came out begins, and none begins behind it.                        *)
nCarried == Len(carried)
nFate == Len(fate)
Merged ==
  /\ batch.tokens = nCarried /\ batch.lead <= nCarried
  /\ batch.out = 0 => batch.lead = nCarried /\ \A n \in 1 .. nCarried : ~carried[n].out
  /\ \A m, n \in 1 .. batch.lead : m < n /\ carried[m].out => ~carried[n].opens
Counts == IsFiniteSet(sealed) /\ (gen = "running" => produced <= MaxEvents) /\ Merged

(* What may be billed of a stream, whatever was counted so far.            *)
Billed ==
  /\ emitted <= nFate
  /\ \A n \in DOMAIN fate : fate[n].how = "relayed" => n <= emitted
  /\ \A m, n \in 1 .. emitted : m < n /\ fate[m].how = "undelivered" => ~fate[n].opens

(* While chunks are posted, each is taken under the number of those before *)
(* it and every token is counted, none of them undelivered; the settlement *)
(* knows no more than that one chunk may have been taken unheard.          *)
Posting == {"loop", "merge", "text", "done", "final"}
Sending == Posting \cup {"settle"}
nAccepted == Len(accepted)
AllCounted == emitted = nFate /\ \A n \in DOMAIN fate : fate[n].how # "undelivered"
Numbers ==
  /\ Billed
  /\ relay \in Sending => \A i \in DOMAIN accepted : accepted[i].post = "chunk"
  /\ relay \in Posting =>
       /\ seq = nAccepted /\ AllCounted
       /\ \A s \in sealed : s.seq < seq /\ s.final = FALSE
  /\ relay = "settle" =>
       /\ seq = nAccepted \/ (lost /\ seq = nAccepted - 1)
       /\ \A s \in sealed : s.seq <= seq /\ s.final = FALSE
  /\ \A i \in DOMAIN accepted : Settlement(i) => accepted[i].bill = emitted
  /\ \A i \in DOMAIN accepted : accepted[i].post \in {"chunk", "final"} => pc = "stream"

(* The node gives an image up before the orchestrator does.                *)
Clock ==
  /\ elapsed <= NodeDeadline
  /\ takenAt \subseteq 0 .. NodeDeadline + MaxDelay + MaxLinger

(* Which outcomes were taken, by where the job is.                         *)
Outcomes ==
  /\ pc \in {"received", "serving", "reply", "fail", "image"} => accepted = <<>>
  /\ pc = "upload" => body = 1 /\ \A i \in DOMAIN accepted : accepted[i] = Complete("v2", 1, TRUE)
  /\ relay = "broken" =>
       \A i \in DOMAIN accepted :
         \/ accepted[i].post = "chunk"
         \/ accepted[i].post = "final" /\ lost /\ i = nAccepted
  /\ relay = "reported" => \A i \in DOMAIN accepted : Settles(accepted[i]) => lost

(* What was made is what was reserved; a medium is completed with what was *)
(* made, and anything only when it passed its checks.                      *)
Making ==
  /\ made # NoOrder => Accepted /\ made = job.binding /\ made.id = "own" /\ made.model = job.model
  /\ pc \in {"reply", "upload"} /\ job.type \in Media => made # NoOrder
Formed ==
  \A i \in DOMAIN accepted : accepted[i].post = "complete" =>
    accepted[i].form = job.env /\ Accepted /\ Servable /\ (job.type \in Media => made # NoOrder)
Kept == Making /\ Formed

(* What was shown so far, by where the job is, and how it was judged.      *)
Shows ==
  /\ Showed /\ pc = "stream" => visible
  /\ relay \in Posting /\ visible => Showed
  /\ relay \in Sending => ~Whole /\ signal = "none"
  /\ relay = "final" /\ job.homura /\ job.expects => visible
  /\ pc \in {"received", "serving", "image", "upload"} => signal = "none"
  /\ pc = "reply" =>
       /\ signal = "empty" => result = "blank"
       /\ signal = "ok" => result = "shown"
       /\ job.type = "inference" /\ job.homura /\ job.expects => result = "shown"
Judged ==
  /\ signal = "empty" => ~Showed
  /\ signal = "ok" /\ Whole => Showed
  /\ Whole /\ job.type = "inference" => (job.homura /\ job.expects => Showed)
Settled == \E i \in DOMAIN accepted : Settlement(i)
Unnoted == Settled => signal = "none"

-----------------------------------------------------------------------------
(* Facts about the operators of the model and of the library.              *)
LEMMA MinOfTwo == \A a, b \in Int : Min({a, b}) = IF a <= b THEN a ELSE b
<1> SUFFICES ASSUME NEW a \in Int, NEW b \in Int PROVE Min({a, b}) = IF a <= b THEN a ELSE b
  OBVIOUS
<1> DEFINE least == IF a <= b THEN a ELSE b
<1>1. least \in {a, b} /\ \A y \in {a, b} : least =< y
  OBVIOUS
<1>2. \A x \in {a, b} : (\A y \in {a, b} : x =< y) => x = least
  OBVIOUS
<1> QED
  BY <1>1, <1>2 DEF Min

LEMMA ReportTypes ==
  /\ Fails \in Reports /\ StreamError \in Reports
  /\ \A form \in Forms, b \in Nat, s \in BOOLEAN : Complete(form, b, s) \in Reports
  /\ \A n \in Nat, s \in BOOLEAN : Chunk(n, s) \in Reports
  /\ \A n \in Nat, b \in Nat, partial \in BOOLEAN : Final(n, b, partial) \in Reports
BY DEF Reports, Fails, StreamError, Complete, Chunk, Final

(* One request, whatever the node hears of it.                             *)
Request(p) == Taken(p) \/ NotTaken \/ AnswerLost(p)
LEMMA OneRequest ==
  ASSUME CallsTypeOK, NEW p \in Reports, Request(p)
  PROVE  /\ CallsTypeOK'
         /\ accepted' = accepted \/ accepted' = Append(accepted, p)
         /\ lost => lost'
<1>1. CallsTypeOK'
  <2>1. accepted' \in Seq(Reports) /\ unheard' \in Nat
    <3>1. accepted \in Seq(Reports) /\ Append(accepted, p) \in Seq(Reports) /\ unheard \in Nat /\ unheard + 1 \in Nat
      BY AppendProperties DEF CallsTypeOK
    <3>2. accepted' \in {accepted, Append(accepted, p)} /\ unheard' \in {unheard, unheard + 1}
      BY DEF Request, Taken, NotTaken, AnswerLost
    <3> QED
      BY <3>1, <3>2
  <2>2. lost' \in BOOLEAN
    BY Zenon DEF CallsTypeOK, Request, Taken, NotTaken, AnswerLost
  <2> QED
    BY <2>1, <2>2 DEF CallsTypeOK
<1>2. lost => lost'
  BY Zenon DEF Request, Taken, NotTaken, AnswerLost
<1> QED
  BY <1>1, <1>2 DEF Request, Taken, NotTaken, AnswerLost

-----------------------------------------------------------------------------
(* The events of a stream: types and counts.                               *)
QueueTypes ==
  /\ produced \in 0 .. MaxEvents + 1
  /\ channel \in Seq(Events) /\ Len(channel) <= ChannelCap /\ held \in Seq(Events)
  /\ batch \in Batches /\ carried \in Seq(Tokens)
  /\ emitted \in Nat /\ fate \in Seq(Fates)
Queues == QueueTypes /\ Counts

LEMMA Sizes ==
  ASSUME Queues
  PROVE  /\ nCarried \in Nat /\ nFate \in Nat /\ emitted \in Nat /\ produced \in Nat /\ MaxEvents \in Nat
         /\ DOMAIN carried = 1 .. nCarried /\ DOMAIN fate = 1 .. nFate
<1>1. nCarried \in Nat /\ nFate \in Nat /\ DOMAIN carried = 1 .. nCarried /\ DOMAIN fate = 1 .. nFate
  BY LenProperties DEF Queues, QueueTypes, nCarried, nFate
<1> QED
  BY <1>1, RelayAssumption DEF Queues, QueueTypes

LEMMA SealedFinite == IsFiniteSet(sealed) => \A final : Seal(final) => IsFiniteSet(sealed')
BY FS_AddElement DEF Seal

(* What waits is a sequence of events still, and shorter.                  *)
LEMMA TakesOne ==
  ASSUME Queues, channel # <<>>
  PROVE  Head(channel) \in Events /\ Tail(channel) \in Seq(Events) /\ Len(Tail(channel)) <= ChannelCap
<1>1. channel \in Seq(Events) /\ Len(channel) \in Nat /\ Len(channel) <= ChannelCap
  BY LenProperties DEF Queues, QueueTypes
<1>2. Head(channel) \in Events /\ Tail(channel) \in Seq(Events) /\ Len(Tail(channel)) = Len(channel) - 1
  BY <1>1, HeadTailProperties, EmptySeq
<1> QED
  BY <1>1, <1>2, RelayAssumption

LEMMA TakesNext ==
  ASSUME Queues, HasNext, Rest
  PROVE  channel' \in Seq(Events) /\ held' \in Seq(Events) /\ Len(channel') <= ChannelCap
<1>1. CASE held # <<>>
  <2>1. held' = <<>> /\ channel' = channel
    BY <1>1 DEF Rest
  <2> QED
    BY <2>1, EmptySeq DEF Queues, QueueTypes
<1>2. CASE held = <<>>
  <2>1. held' = held /\ channel' = Tail(channel) /\ channel # <<>>
    BY <1>2 DEF Rest, HasNext
  <2> QED
    BY <2>1, TakesOne DEF Queues, QueueTypes
<1> QED
  BY <1>1, <1>2

LEMMA MergedKept == ASSUME Merged, UNCHANGED <<batch, carried>> PROVE Merged'
BY DEF Merged, nCarried

LEMMA QueueProduce == ASSUME Queues, NEW e \in Events, Produce(e) PROVE Queues'
<1>1. channel' \in Seq(Events) /\ Len(channel') = Len(channel) + 1 /\ Len(channel) \in Nat
  BY AppendProperties, LenProperties DEF Produce, Queues, QueueTypes
<1>2. /\ produced' = produced + 1 /\ Len(channel) < ChannelCap
      /\ UNCHANGED <<held, batch, carried, sealed, emitted, fate>>
  BY DEF Produce
<1>3. produced <= MaxEvents /\ (gen' = "running" => produced < MaxEvents)
  BY DEF Produce, Queues, Counts
<1>4. produced' \in 0 .. MaxEvents + 1 /\ (gen' = "running" => produced' <= MaxEvents)
  BY <1>2, <1>3, Sizes
<1>5. Len(channel') <= ChannelCap
  BY <1>1, <1>2, RelayAssumption
<1>6. Merged'
  BY <1>2, MergedKept DEF Queues, Counts
<1> QED
  BY <1>1, <1>2, <1>4, <1>5, <1>6 DEF Queues, QueueTypes, Counts

(* A piece is merged: its tokens are carried behind the others.            *)
LEMMA CarriedGrows ==
  ASSUME Queues, NEW k \in Nat, NEW out \in BOOLEAN,
         carried' = carried \o [i \in 1 .. k |-> [opens |-> i = 1, out |-> out]]
  PROVE  /\ carried' \in Seq(Tokens) /\ nCarried' = nCarried + k
         /\ \A i \in 1 .. nCarried : carried'[i] = carried[i]
         /\ \A i \in 1 .. k : carried'[nCarried + i].out = out /\ (i # 1 => carried'[nCarried + i].opens = FALSE)
<1> DEFINE token(i) == [opens |-> i = 1, out |-> out]
<1> DEFINE piece == [i \in 1 .. k |-> token(i)]
<1>1. \A i \in 1 .. k : token(i) \in Tokens
  <2> SUFFICES ASSUME NEW i \in 1 .. k PROVE token(i) \in Tokens
    OBVIOUS
  <2>1. (i = 1) \in BOOLEAN
    OBVIOUS
  <2> QED
    BY <2>1, Zenon DEF Tokens
<1>2. piece \in Seq(Tokens) /\ Len(piece) = k
  <2> HIDE DEF token
  <2> QED
    BY <1>1
<1>3. \A i \in 1 .. k : piece[i].out = out /\ (i # 1 => piece[i].opens = FALSE)
  <2> SUFFICES ASSUME NEW i \in 1 .. k PROVE piece[i].out = out /\ (i # 1 => piece[i].opens = FALSE)
    OBVIOUS
  <2>1. piece[i] = [opens |-> i = 1, out |-> out]
    OBVIOUS
  <2>2. piece[i].out = out
    BY <2>1, Zenon
  <2>3. piece[i].opens = (i = 1)
    BY <2>1, Zenon
  <2> QED
    BY <2>2, <2>3, Zenon
<1> HIDE DEF piece
<1>4. carried \in Seq(Tokens) /\ Len(carried) = nCarried /\ nCarried \in Nat
  BY Sizes DEF Queues, QueueTypes, nCarried
<1>5. /\ carried \o piece \in Seq(Tokens) /\ Len(carried \o piece) = nCarried + k
      /\ \A i \in 1 .. nCarried + k : (carried \o piece)[i] = IF i <= nCarried THEN carried[i] ELSE piece[i - nCarried]
  BY <1>2, <1>4, ConcatProperties
<1>6. carried' = carried \o piece
  BY DEF piece
<1>7. \A i \in 1 .. nCarried : carried'[i] = carried[i]
  BY <1>4, <1>5, <1>6
<1>8. ASSUME NEW i \in 1 .. k PROVE carried'[nCarried + i] = piece[i]
  <2>1. PICK j \in 1 .. nCarried + k : j = nCarried + i /\ ~(j <= nCarried) /\ j - nCarried = i
    BY <1>4
  <2>2. carried'[j] = piece[j - nCarried]
    BY <1>5, <1>6, <2>1
  <2> QED
    BY <2>1, <2>2, Zenon
<1>9. carried' \in Seq(Tokens) /\ nCarried' = nCarried + k
  BY <1>5, <1>6 DEF nCarried
<1> QED
  BY <1>3, <1>7, <1>8, <1>9, Zenon

LEMMA MergeTokens ==
  ASSUME Queues, NEW e \in Texts, NEW out \in BOOLEAN, batch' = Added(batch, e, out),
         carried' = carried \o [i \in 1 .. e.tokens |-> [opens |-> i = 1, out |-> out]]
  PROVE  batch' \in Batches /\ carried' \in Seq(Tokens) /\ Merged'
<1>1. PICK k \in Nat : k = e.tokens
  BY RelayAssumption DEF Texts
<1>2. /\ carried' \in Seq(Tokens) /\ nCarried' = nCarried + k
      /\ \A i \in 1 .. nCarried : carried'[i] = carried[i]
      /\ \A i \in 1 .. k : carried'[nCarried + i].out = out /\ (i # 1 => carried'[nCarried + i].opens = FALSE)
  BY <1>1, CarriedGrows
<1>3. /\ batch.out \in Nat /\ batch.tokens \in Nat /\ batch.lead \in Nat /\ nCarried \in Nat
      /\ batch.tokens = nCarried /\ batch.lead <= nCarried
      /\ batch.out = 0 => batch.lead = nCarried /\ \A n \in 1 .. nCarried : ~carried[n].out
      /\ \A m, n \in 1 .. batch.lead : m < n /\ carried[m].out => ~carried[n].opens
  BY Sizes DEF Queues, QueueTypes, Counts, Merged, Batches
<1>4. /\ batch'.out = (IF out THEN batch.out + 1 ELSE batch.out)
      /\ batch'.tokens = nCarried + k
      /\ batch'.lead = (IF batch.out = 0 THEN nCarried + k ELSE batch.lead)
  BY <1>1, <1>3 DEF Added
<1>5. batch' \in Batches
  <2>1. (batch.vis \/ (out /\ e.vis)) \in BOOLEAN
    OBVIOUS
  <2>2. /\ (IF out THEN batch.out + 1 ELSE batch.out) \in Nat /\ batch.tokens + e.tokens \in Nat
        /\ (IF batch.out = 0 THEN batch.tokens + e.tokens ELSE batch.lead) \in Nat
    BY <1>1, <1>3
  <2> QED
    BY <2>1, <2>2, Zenon DEF Added, Batches
<1>6. \A n \in 1 .. nCarried + k : n \in 1 .. nCarried \/ \E i \in 1 .. k : n = nCarried + i
  <2>1. \A n \in 1 .. nCarried + k : n \in 1 .. nCarried \/ (n - nCarried \in 1 .. k /\ n = nCarried + (n - nCarried))
    BY <1>3
  <2> QED
    BY <2>1
<1>7. ASSUME batch'.out = 0 PROVE batch'.lead = nCarried' /\ \A n \in 1 .. nCarried' : ~carried'[n].out
  <2>1. out = FALSE /\ batch.out = 0
    BY <1>3, <1>4, <1>7
  <2>2. batch'.lead = nCarried'
    BY <1>2, <1>4, <2>1
  <2>3. ASSUME NEW n \in 1 .. nCarried' PROVE ~carried'[n].out
    <3>1. n \in 1 .. nCarried \/ \E i \in 1 .. k : n = nCarried + i
      BY <1>2, <1>6
    <3>2. CASE n \in 1 .. nCarried
      BY <1>2, <1>3, <2>1, <3>2
    <3>3. ASSUME NEW i \in 1 .. k, n = nCarried + i PROVE ~carried'[n].out
      BY <1>2, <2>1, <3>3, Zenon
    <3> QED
      BY <3>1, <3>2, <3>3
  <2> QED
    BY <2>2, <2>3
<1>8. ASSUME NEW m \in 1 .. batch'.lead, NEW n \in 1 .. batch'.lead, m < n, carried'[m].out
      PROVE  ~carried'[n].opens
  <2>1. CASE batch.out # 0
    <3>1. m \in 1 .. batch.lead /\ n \in 1 .. batch.lead /\ m \in 1 .. nCarried /\ n \in 1 .. nCarried
      BY <1>3, <1>4, <2>1
    <3>2. carried'[m] = carried[m] /\ carried'[n] = carried[n]
      BY <1>2, <3>1
    <3> QED
      BY <1>3, <1>8, <3>1, <3>2, Zenon
  <2>2. CASE batch.out = 0
    <3>1. m \in 1 .. nCarried + k /\ n \in 1 .. nCarried + k
      BY <1>4, <2>2
    <3>2. m \notin 1 .. nCarried
      <4>1. m \in 1 .. nCarried => carried'[m] = carried[m] /\ ~carried[m].out
        BY <1>2, <1>3, <2>2
      <4> QED
        BY <1>8, <4>1, Zenon
    <3>3. PICK j \in 1 .. k : n = nCarried + j /\ j # 1
      <4>1. n - nCarried \in 1 .. k /\ n = nCarried + (n - nCarried) /\ n - nCarried # 1
        BY <1>3, <1>8, <3>1, <3>2
      <4> QED
        BY <4>1
    <3>4. carried'[nCarried + j].opens = FALSE
      BY <1>2, <3>3
    <3> QED
      BY <3>3, <3>4, Zenon
  <2> QED
    BY <2>1, <2>2
<1>9. batch'.tokens = nCarried' /\ batch'.lead <= nCarried'
  BY <1>2, <1>3, <1>4
<1>10. Merged'
  BY <1>7, <1>8, <1>9 DEF Merged
<1> QED
  BY <1>2, <1>5, <1>10

LEMMA QueueMerge == ASSUME Queues, Merge(job.homura) PROVE Queues'
<1>1. /\ channel # <<>> /\ Head(channel).kind = "text" /\ channel' = Tail(channel)
      /\ UNCHANGED <<gen, produced, held, sealed, emitted, fate>>
  BY DEF Merge
<1>2. Head(channel) \in Texts /\ channel' \in Seq(Events) /\ Len(channel') <= ChannelCap
  <2>1. \A e \in Events : e.kind = "text" => e \in Texts
    BY DEF Events, Texts, Call, DoneEvent
  <2> QED
    BY <1>1, <2>1, TakesOne
<1>3. PICK out \in BOOLEAN :
        /\ batch' = Added(batch, Head(channel), out)
        /\ carried' = carried \o [i \in 1 .. Head(channel).tokens |-> [opens |-> i = 1, out |-> out]]
  BY DEF Merge
<1>4. batch' \in Batches /\ carried' \in Seq(Tokens) /\ Merged'
  BY <1>2, <1>3, MergeTokens
<1> QED
  BY <1>1, <1>2, <1>4 DEF Queues, QueueTypes, Counts

LEMMA QueueMergeEnds == ASSUME Queues, MergeEnds PROVE Queues'
<1>1. UNCHANGED <<gen, produced, batch, carried, sealed, emitted, fate>>
  BY DEF MergeEnds
<1>2. CASE UNCHANGED <<channel, held>>
  BY <1>1, <1>2, MergedKept DEF Queues, QueueTypes, Counts
<1>3. CASE channel # <<>> /\ held' = <<Head(channel)>> /\ channel' = Tail(channel)
  <2>1. held' \in Seq(Events) /\ channel' \in Seq(Events) /\ Len(channel') <= ChannelCap
    BY <1>3, TakesOne
  <2> QED
    BY <1>1, <2>1, MergedKept DEF Queues, QueueTypes, Counts
<1> QED
  BY <1>2, <1>3 DEF MergeEnds

(* The tokens of a chunk get their fate.                                   *)
Hows == {"relayed", "unheard", "undelivered", "swallowed"}
LEMMA FateGrows ==
  ASSUME Queues, NEW how \in Hows, Fated(how)
  PROVE  /\ fate' \in Seq(Fates) /\ nFate' = nFate + nCarried
         /\ \A i \in 1 .. nFate : fate'[i] = fate[i]
         /\ \A i \in 1 .. nCarried : /\ fate'[nFate + i].opens = carried[i].opens
                                     /\ fate'[nFate + i].how = IF carried[i].out THEN how ELSE "swallowed"
<1> DEFINE token(i) == [opens |-> carried[i].opens, how |-> IF carried[i].out THEN how ELSE "swallowed"]
<1> DEFINE f == [i \in DOMAIN carried |-> token(i)]
<1>1. DOMAIN carried = 1 .. nCarried /\ nCarried \in Nat /\ nFate \in Nat
  BY Sizes
<1>2. \A i \in 1 .. nCarried : token(i) \in Fates
  <2> SUFFICES ASSUME NEW i \in 1 .. nCarried PROVE token(i) \in Fates
    OBVIOUS
  <2>1. carried[i] \in Tokens
    BY <1>1, ElementOfSeq DEF Queues, QueueTypes, nCarried
  <2>2. carried[i].opens \in BOOLEAN /\ (IF carried[i].out THEN how ELSE "swallowed") \in Hows
    BY <2>1 DEF Tokens, Hows
  <2> QED
    BY <2>2, Zenon DEF Fates, Hows
<1>3. f \in Seq(Fates) /\ Len(f) = nCarried
  <2> HIDE DEF token
  <2> QED
    BY <1>1, <1>2
<1>4. \A i \in 1 .. nCarried : f[i].opens = carried[i].opens /\ f[i].how = IF carried[i].out THEN how ELSE "swallowed"
  <2> SUFFICES ASSUME NEW i \in 1 .. nCarried
               PROVE  f[i].opens = carried[i].opens /\ f[i].how = IF carried[i].out THEN how ELSE "swallowed"
    OBVIOUS
  <2> DEFINE became == IF carried[i].out THEN how ELSE "swallowed"
  <2>1. f[i] = token(i)
    BY <1>1
  <2>2. token(i) = [opens |-> carried[i].opens, how |-> became]
    OBVIOUS
  <2>3. f[i].opens = carried[i].opens /\ f[i].how = became
    <3> HIDE DEF became, f, token
    <3>1. f[i] = [opens |-> carried[i].opens, how |-> became]
      BY <2>1, <2>2
    <3>2. [opens |-> carried[i].opens, how |-> became].opens = carried[i].opens
      BY Zenon
    <3>3. [opens |-> carried[i].opens, how |-> became].how = became
      BY Zenon
    <3> QED
      BY <3>1, <3>2, <3>3, Zenon
  <2> QED
    BY <2>3
<1>5. fate' = fate \o f
  BY DEF Fated
<1> HIDE DEF f, token
<1>6. fate \in Seq(Fates) /\ Len(fate) = nFate
  BY DEF Queues, QueueTypes, nFate
<1>7. /\ fate \o f \in Seq(Fates) /\ Len(fate \o f) = nFate + nCarried
      /\ \A i \in 1 .. nFate + nCarried : (fate \o f)[i] = IF i <= nFate THEN fate[i] ELSE f[i - nFate]
  BY <1>3, <1>6, ConcatProperties
<1>8. \A i \in 1 .. nFate : fate'[i] = fate[i]
  BY <1>1, <1>5, <1>7
<1>9. ASSUME NEW i \in 1 .. nCarried PROVE fate'[nFate + i] = f[i]
  <2>1. PICK j \in 1 .. nFate + nCarried : j = nFate + i /\ ~(j <= nFate) /\ j - nFate = i
    BY <1>1
  <2>2. fate'[j] = f[j - nFate]
    BY <1>5, <1>7, <2>1
  <2> QED
    BY <2>1, <2>2, Zenon
<1>10. fate' \in Seq(Fates) /\ nFate' = nFate + nCarried
  BY <1>5, <1>7 DEF nFate
<1> QED
  BY <1>4, <1>8, <1>9, <1>10, Zenon

(* The chunk is done with: its tokens are counted.                         *)
LEMMA QueueCounted ==
  ASSUME Queues, NEW how \in Hows, Fated(how), BatchEnds,
         NEW n \in Nat, emitted' = emitted + n,
         UNCHANGED <<gen, produced, channel, held>>, IsFiniteSet(sealed')
  PROVE  Queues'
<1>1. fate' \in Seq(Fates)
  BY FateGrows
<1>2. batch' \in Batches /\ carried' \in Seq(Tokens) /\ Merged'
  <2>1. batch' = NoBatch /\ carried' = <<>>
    BY DEF BatchEnds
  <2>2. nCarried' = 0 /\ carried' \in Seq(Tokens) /\ batch'.tokens = 0 /\ batch'.lead = 0 /\ batch' \in Batches
    BY <2>1, EmptySeq DEF NoBatch, Batches, nCarried
  <2> QED
    BY <2>2 DEF Merged
<1>3. emitted' \in Nat
  BY Sizes
<1> QED
  BY <1>1, <1>2, <1>3 DEF Queues, QueueTypes, Counts

LEMMA QueueTaken ==
  ASSUME Queues, HasNext, Rest,
         UNCHANGED <<gen, produced, batch, carried, emitted, fate>>, IsFiniteSet(sealed')
  PROVE  Queues'
BY TakesNext, MergedKept DEF Queues, QueueTypes, Counts

(* The rest leaves the events alone, or lets go of those in the channel.   *)
LEMMA QueueKept ==
  ASSUME Queues, UNCHANGED <<produced, batch, carried, emitted, fate>>, IsFiniteSet(sealed'),
         UNCHANGED <<channel, held>> \/ (channel' = <<>> /\ held' = <<>>),
         gen' = "running" => produced <= MaxEvents
  PROVE  Queues'
<1>1. channel' \in Seq(Events) /\ held' \in Seq(Events) /\ Len(channel') <= ChannelCap
  <2>1. CASE UNCHANGED <<channel, held>>
    BY <2>1 DEF Queues, QueueTypes
  <2>2. CASE channel' = <<>> /\ held' = <<>>
    <3>1. <<>> \in Seq(Events) /\ Len(<<>>) = 0 /\ 0 <= ChannelCap
      BY RelayAssumption
    <3> QED
      BY <2>2, <3>1, Zenon
  <2> QED
    BY <2>1, <2>2
<1> QED
  BY <1>1, MergedKept DEF Queues, QueueTypes, Counts

LEMMA QueueRelaying ==
  ASSUME Queues, Relaying(job.homura, job.expects)
  PROVE  Queues'
<1>1. IsFiniteSet(sealed) /\ (gen = "running" => produced <= MaxEvents)
  BY DEF Queues, Counts
<1>2. (\E final : Seal(final)) \/ sealed' = sealed => IsFiniteSet(sealed')
  BY <1>1, SealedFinite
<1>3. CASE RelayCall
  BY <1>2, <1>3, QueueTaken DEF RelayCall, PostChunk
<1>4. CASE FirstText(job.homura) \/ MoreText(job.homura)
  BY <1>4, QueueMerge DEF FirstText, MoreText
<1>15. CASE MergeEnds
  BY <1>15, QueueMergeEnds
<1>5. CASE SwallowedText
  <2>1. Fated("swallowed") /\ "swallowed" \in Hows /\ BatchEnds /\ emitted' = emitted + batch.tokens
    BY <1>5 DEF SwallowedText, Hows
  <2>2. UNCHANGED <<gen, produced, channel, held>> /\ IsFiniteSet(sealed')
    BY <1>2, <1>5 DEF SwallowedText
  <2>3. batch.tokens \in Nat
    BY DEF Queues, QueueTypes, Batches
  <2> QED
    BY <2>1, <2>2, <2>3, QueueCounted
<1>6. CASE PostText
  <2>1. PICK heard \in Heard :
          /\ PostChunk(heard, batch.vis)
          /\ IF heard = "relayed" THEN emitted' = emitted + batch.tokens ELSE emitted' = emitted + Counted(batch)
          /\ Fated(IF heard = "relayed" THEN "relayed" ELSE IF accepted' # accepted THEN "unheard" ELSE "undelivered")
    BY <1>6 DEF PostText
  <2>2. PICK how \in Hows : Fated(how)
    BY <2>1 DEF Hows
  <2>3. PICK n \in Nat : emitted' = emitted + n
    BY <2>1 DEF Queues, QueueTypes, Batches, Counted
  <2>4. BatchEnds /\ UNCHANGED <<gen, produced, channel, held>> /\ IsFiniteSet(sealed')
    BY <1>2, <1>6, <2>1 DEF PostText, PostChunk
  <2> QED
    BY <2>2, <2>3, <2>4, QueueCounted
<1>7. CASE RelayDone(job.homura)
  BY <1>2, <1>7, QueueTaken DEF RelayDone
<1>8. CASE PostTail
  <2>1. (\E final : Seal(final)) \/ sealed' = sealed
    BY <1>8 DEF PostTail, PostChunk
  <2> QED
    BY <1>1, <1>2, <1>8, <2>1, QueueKept DEF PostTail
<1>9. CASE BlankDone(job.expects)
  BY <1>1, <1>2, <1>9, QueueKept DEF BlankDone
<1>10. CASE PostFinal(job.expects)
  <2>1. gen' = gen \/ gen' = "aborted"
    BY <1>10 DEF PostFinal
  <2> QED
    BY <1>1, <1>2, <1>10, <2>1, QueueKept DEF PostFinal
<1>11. CASE Settle
  BY <1>1, <1>2, <1>11, QueueKept DEF Settle, AbortEngine
<1>12. CASE EndOfStream
  BY <1>1, <1>2, <1>12, QueueKept DEF EndOfStream
<1>13. CASE ReportBroken
  BY <1>1, <1>2, <1>13, QueueKept DEF ReportBroken
<1>14. CASE ReportFailed
  BY <1>1, <1>2, <1>14, QueueKept DEF ReportFailed
<1> QED
  BY <1>3, <1>4, <1>5, <1>6, <1>7, <1>8, <1>9, <1>10, <1>11, <1>12, <1>13, <1>14, <1>15 DEF Relaying

LEMMA QueueStep == ASSUME Queues, Lanes, [Next]_vars PROVE Queues'
<1>1. IsFiniteSet(sealed) /\ (gen = "running" => produced <= MaxEvents)
  BY DEF Queues, Counts
<1>2. ASSUME UNCHANGED <<relay, gen, produced, channel, held, batch, carried, seq, sealed, emitted, fate, visible, cleaner>>
      PROVE Queues'
  BY <1>1, <1>2, QueueKept
<1>3. CASE Refuse
  BY <1>2, <1>3 DEF Refuse, Elsewhere, relayVars
<1>4. CASE Ask
  <2>1. CASE Streams
    <3>1. produced = 0 /\ MaxEvents \in Nat
      BY <1>4, RelayAssumption DEF Ask, Lanes, Untouched
    <3>2. UNCHANGED <<produced, channel, held, batch, carried, sealed, emitted, fate>>
      BY <1>4, <2>1 DEF Ask, StartRelay
    <3> QED
      BY <1>1, <3>1, <3>2, QueueKept
  <2>2. CASE ~Streams
    BY <1>2, <1>4, <2>2 DEF Ask, relayVars
  <2> QED
    BY <2>1, <2>2
<1>5. CASE Serve
  BY <1>2, <1>5 DEF Serve, Infer, relayVars
<1>6. CASE SealFails \/ Finish \/ Fail \/ Image
  BY <1>2, <1>6 DEF SealFails, Finish, Fail, Image, Elsewhere, relayVars
<1>7. CASE Stream
  BY <1>7, QueueRelaying DEF Stream
<1>8. CASE Engine
  BY <1>8, QueueProduce DEF Engine, Generate
<1>9. CASE EngineEnds
  <2>1. gen' # "running" /\ UNCHANGED <<produced, channel, held, batch, carried, sealed, emitted, fate>>
    BY <1>9 DEF EngineEnds, GiveUp
  <2> QED
    BY <1>1, <2>1, QueueKept
<1>10. CASE UNCHANGED vars
  BY <1>2, <1>10 DEF vars, relayVars
<1> QED
  BY <1>3, <1>4, <1>5, <1>6, <1>7, <1>8, <1>9, <1>10 DEF Next, ProcessJob

-----------------------------------------------------------------------------
(* The other variables of the relay, and what is told the orchestrator.    *)
Controls ==
  /\ relay \in {"idle", "loop", "merge", "text", "done", "final", "settle", "broken", "reported", "over"}
  /\ gen \in {"none", "running", "ok", "err", "aborted"}
  /\ seq \in Nat /\ sealed \subseteq [seq : Nat, final : BOOLEAN, nth : Nat]
  /\ signal \in {"none", "empty", "ok"}
Flags == visible \in BOOLEAN /\ cleaner \in BOOLEAN

LEMMA RelayTypes == RelayTypeOK /\ Counts <=> Queues /\ Controls /\ Flags
BY DEF RelayTypeOK, Queues, QueueTypes, Controls, Flags

LEMMA SealTypes ==
  ASSUME Queues, Controls, NEW final \in BOOLEAN, Seal(final)
  PROVE  sealed' \subseteq [seq : Nat, final : BOOLEAN, nth : Nat]
<1>1. Cardinality(sealed) \in Nat
  BY FS_CardinalityType DEF Queues, Counts
<1> QED
  BY <1>1 DEF Seal, Controls

LEMMA ChunkRequest ==
  ASSUME Controls, NEW heard \in Heard, NEW shows \in BOOLEAN, PostChunk(heard, shows)
  PROVE  UNCHANGED callVars \/ \E p \in Reports : Request(p)
<1>1. Chunk(seq, shows) \in Reports
  BY ReportTypes DEF Controls
<1> QED
  BY <1>1 DEF PostChunk, Request

LEMMA ControlRelaying ==
  ASSUME Queues, Controls, Relaying(job.homura, job.expects)
  PROVE  Controls' /\ (UNCHANGED callVars \/ \E p \in Reports : Request(p))
<1>1. FALSE \in BOOLEAN /\ TRUE \in BOOLEAN /\ emitted \in Nat
  BY Sizes
<1>2. ASSUME NEW heard \in Heard, NEW shows \in BOOLEAN, PostChunk(heard, shows)
      PROVE  sealed' \subseteq [seq : Nat, final : BOOLEAN, nth : Nat]
  BY <1>1, <1>2, SealTypes DEF PostChunk
<1>a. ASSUME NEW heard \in Heard, NEW shows \in BOOLEAN, PostChunk(heard, shows), Onward(heard), UNCHANGED <<gen, signal>>
      PROVE  Controls' /\ (UNCHANGED callVars \/ \E p \in Reports : Request(p))
  <2>1. seq' \in Nat /\ relay' \in {relay, "settle"}
    BY <1>a DEF Onward, Controls
  <2>2. UNCHANGED callVars \/ \E p \in Reports : Request(p)
    BY <1>1, <1>a, ChunkRequest
  <2>3. sealed' \subseteq [seq : Nat, final : BOOLEAN, nth : Nat]
    BY <1>1, <1>2, <1>a
  <2> QED
    BY <1>a, <2>1, <2>2, <2>3 DEF Controls
<1>3. CASE RelayCall
  <2>1. PICK heard \in Heard : PostChunk(heard, TRUE) /\ Onward(heard)
    BY <1>3 DEF RelayCall
  <2> QED
    BY <1>1, <1>3, <1>a, <2>1 DEF RelayCall
<1>4. CASE FirstText(job.homura) \/ MoreText(job.homura) \/ MergeEnds
  BY <1>4 DEF FirstText, MoreText, Merge, MergeEnds, Controls
<1>5. CASE SwallowedText
  BY <1>5 DEF SwallowedText, Controls
<1>6. CASE PostText
  <2>1. PICK heard \in Heard :
          /\ PostChunk(heard, batch.vis)
          /\ IF heard = "relayed" THEN seq' = seq + 1 /\ relay' = "loop" ELSE relay' = "settle" /\ UNCHANGED seq
    BY <1>6 DEF PostText
  <2>2. batch.vis \in BOOLEAN
    BY DEF Queues, QueueTypes, Batches
  <2> QED
    BY <1>2, <1>6, <2>1, <2>2, ChunkRequest DEF PostText, Controls
<1>7. CASE RelayDone(job.homura)
  BY <1>7 DEF RelayDone, Controls
<1>8. CASE PostTail
  <2>1. CASE \E heard \in Heard, shows \in BOOLEAN : PostChunk(heard, shows) /\ Onward(heard)
    <3>1. PICK heard \in Heard : \E shows \in BOOLEAN : PostChunk(heard, shows) /\ Onward(heard)
      BY <2>1
    <3>2. PICK shows \in BOOLEAN : PostChunk(heard, shows) /\ Onward(heard)
      BY <3>1
    <3> QED
      BY <1>8, <1>a, <3>2 DEF PostTail
  <2>2. CASE UNCHANGED <<visible, relay, seq, sealed, callVars>>
    BY <1>8, <2>2 DEF PostTail, Controls
  <2> QED
    BY <1>8, <2>1, <2>2 DEF PostTail
<1>9. CASE BlankDone(job.expects)
  BY <1>9 DEF BlankDone, Controls
<1>10. CASE PostFinal(job.expects)
  <2>1. Final(seq, 0, FALSE) \in Reports
    BY <1>1, ReportTypes DEF Controls
  <2>2. sealed' \subseteq [seq : Nat, final : BOOLEAN, nth : Nat]
    BY <1>1, <1>10, SealTypes DEF PostFinal
  <2> QED
    BY <1>10, <2>1, <2>2 DEF PostFinal, ByText, Signalled, Request, Controls
<1>11. CASE Settle
  <2>1. Final(seq, emitted, TRUE) \in Reports
    BY <1>1, ReportTypes DEF Controls
  <2>2. sealed' \subseteq [seq : Nat, final : BOOLEAN, nth : Nat]
    BY <1>1, <1>11, SealTypes DEF Settle
  <2> QED
    BY <1>11, <2>1, <2>2 DEF Settle, AbortEngine, Request, Controls
<1>12. CASE EndOfStream
  BY <1>12 DEF EndOfStream, Controls
<1>13. CASE ReportBroken
  BY <1>13, ReportTypes DEF ReportBroken, Request, Controls
<1>14. CASE ReportFailed
  BY <1>14, ReportTypes DEF ReportFailed, Request, Controls
<1> QED
  BY <1>3, <1>4, <1>5, <1>6, <1>7, <1>8, <1>9, <1>10, <1>11, <1>12, <1>13, <1>14 DEF Relaying

LEMMA FlagsStep == ASSUME Flags, [Next]_vars PROVE Flags'
<1>1. CASE Stream
  <2>1. CASE RelayCall \/ MergeEnds \/ SwallowedText \/ PostText
    BY <2>1, Zenon DEF Flags, RelayCall, MergeEnds, SwallowedText, PostText
  <2>4. CASE FirstText(job.homura) \/ MoreText(job.homura)
    BY <2>4, Zenon DEF Flags, FirstText, MoreText, Merge
  <2>2. CASE RelayDone(job.homura) \/ PostTail \/ BlankDone(job.expects) \/ PostFinal(job.expects)
    BY <2>2, Zenon DEF Flags, RelayDone, PostTail, BlankDone, PostFinal
  <2>3. CASE Settle \/ EndOfStream \/ ReportBroken \/ ReportFailed
    BY <2>3, Zenon DEF Flags, Settle, EndOfStream, ReportBroken, ReportFailed
  <2> QED
    BY <1>1, <2>1, <2>2, <2>3, <2>4 DEF Stream, Relaying
<1>2. CASE Engine \/ EngineEnds
  BY <1>2, Zenon DEF Flags, Engine, EngineEnds, Generate, Produce, GiveUp
<1>3. CASE Refuse \/ Ask \/ Serve
  BY <1>3, Zenon DEF Flags, Refuse, Ask, StartRelay, Serve, Infer, Elsewhere, relayVars
<1>4. CASE SealFails \/ Finish \/ Fail \/ Image
  BY <1>4, Zenon DEF Flags, SealFails, Finish, Fail, Image, Elsewhere, relayVars
<1>5. CASE UNCHANGED vars
  BY <1>5, Zenon DEF Flags, vars, relayVars
<1> QED
  BY <1>1, <1>2, <1>3, <1>4, <1>5, Zenon DEF Next, ProcessJob

-----------------------------------------------------------------------------
(* The time an image takes.                                                *)
LEMMA Times ==
  /\ RequestTimeout \in Nat /\ NodeDeadline \in Nat /\ UploadMargin \in Nat /\ HttpTimeout \in Nat
  /\ MaxDelay \in Nat /\ MaxLinger \in Nat /\ RetryBase \in Nat /\ RetryMax \in Nat /\ JobTimeout \in Nat
  /\ RequestTimeout < NodeDeadline /\ NodeDeadline + MaxDelay + MaxLinger < JobTimeout
<1>1. /\ RequestTimeout \in Nat /\ NodeDeadline \in Nat /\ UploadMargin \in Nat /\ HttpTimeout \in Nat
      /\ MaxDelay \in Nat /\ MaxLinger \in Nat /\ RetryBase \in Nat /\ RetryMax \in Nat /\ JobTimeout \in Nat
  BY ImageAssumption
<1> QED
  BY <1>1, ImageAssumption

LEMMA BackoffBound == \A w \in 0 .. RetryMax : Backoff(w) \in 0 .. RetryMax
<1> SUFFICES ASSUME NEW w \in 0 .. RetryMax PROVE Backoff(w) \in 0 .. RetryMax
  OBVIOUS
<1>1. Doubled(w) \in Nat /\ RetryMax \in Nat
  BY Times DEF Doubled
<1>2. Backoff(w) = IF Doubled(w) <= RetryMax THEN Doubled(w) ELSE RetryMax
  BY <1>1, MinOfTwo DEF Backoff
<1> QED
  BY <1>1, <1>2

(* Whatever its time-out, an attempt ends by the deadline.                 *)
LEMMA AttemptEnds ==
  ASSUME NEW start \in Nat, start + UploadMargin <= NodeDeadline, NEW d \in 0 .. Timeout(start)
  PROVE  d \in Nat /\ start + d <= NodeDeadline
<1>1. NodeDeadline - start \in Int /\ HttpTimeout \in Int
  BY Times
<1>2. Timeout(start) = IF NodeDeadline - start <= HttpTimeout THEN NodeDeadline - start ELSE HttpTimeout
  BY <1>1, MinOfTwo DEF Timeout
<1> QED
  BY <1>2, Times

LEMMA ImageStep == ASSUME ImageTypeOK, Clock, [Next]_vars PROVE ImageTypeOK' /\ Clock'
<1>1. ASSUME UNCHANGED imageVars PROVE ImageTypeOK' /\ Clock'
  BY <1>1 DEF imageVars, ImageTypeOK, Clock
<1>2. ASSUME NEW done \in BOOLEAN, GenerateImage(done) PROVE ImageTypeOK' /\ Clock'
  <2>1. PICK d \in 0 .. RequestTimeout : elapsed' = d
    BY <1>2 DEF GenerateImage
  <2>2. elapsed' \in Nat /\ elapsed' <= NodeDeadline
    BY <2>1, Times
  <2>3. body' \in Nat /\ UNCHANGED <<delay, wait, takenAt>>
    BY <1>2 DEF GenerateImage
  <2> QED
    BY <2>2, <2>3 DEF ImageTypeOK, Clock
<1>3. ASSUME NEW over \in BOOLEAN, PostImage(over) PROVE ImageTypeOK' /\ Clock'
  <2>1. PICK d \in 0 .. Timeout(StartsAt) : elapsed' = StartsAt + d
    BY <1>3 DEF PostImage
  <2>2. StartsAt \in Nat /\ StartsAt + UploadMargin <= NodeDeadline
    BY <1>3, Times DEF PostImage, Fits, StartsAt, ImageTypeOK
  <2>3. PICK e \in 0 .. NodeDeadline : elapsed' = e
    BY <2>1, <2>2, AttemptEnds, Times
  <2>4. PICK l \in 0 .. MaxLinger : takenAt' \subseteq takenAt \cup {delay + e + l}
    <3>1. 0 \in 0 .. MaxLinger /\ delay + e + 0 = delay + e
      BY <2>3, Times DEF ImageTypeOK
    <3> QED
      BY <1>3, <2>3, <3>1 DEF PostImage
  <2>5. delay + e + l \in 0 .. NodeDeadline + MaxDelay + MaxLinger
    BY Times DEF ImageTypeOK
  <2>6. takenAt' \subseteq 0 .. NodeDeadline + MaxDelay + MaxLinger
    BY <2>4, <2>5 DEF Clock
  <2>7. takenAt' \subseteq Nat
    BY <2>6, Times
  <2>8. body' = body /\ delay' = delay /\ wait' \in 0 .. RetryMax
    BY <1>3, BackoffBound DEF PostImage, SealedOnce, ImageTypeOK
  <2>9. elapsed' \in Nat /\ elapsed' <= NodeDeadline
    BY <2>3, Times
  <2> QED
    BY <2>6, <2>7, <2>8, <2>9 DEF ImageTypeOK, Clock
<1>4. CASE Image
  BY <1>1, <1>2, <1>3, <1>4 DEF Image, OutOfTime
<1>5. CASE Refuse \/ Ask \/ Serve \/ SealFails \/ Finish \/ Fail \/ Stream
  BY <1>1, <1>5 DEF Refuse, Ask, Serve, SealFails, Finish, Fail, Stream, Elsewhere
<1>6. CASE Engine \/ EngineEnds \/ UNCHANGED vars
  BY <1>1, <1>6 DEF Engine, EngineEnds, vars
<1> QED
  BY <1>4, <1>5, <1>6 DEF Next, ProcessJob

-----------------------------------------------------------------------------
(* Types.                                                                  *)
LEMMA Enveloped == job \in Jobs => job.env \in Envelopes
<1>1. ASSUME NEW type \in Media, job \in MediaJobs(type) PROVE job.env \in Envelopes
  BY <1>1 DEF MediaJobs
<1>2. job \in InferenceJobs \cup EmbeddingJobs \cup OtherJobs => job.env \in Envelopes
  BY DEF InferenceJobs, EmbeddingJobs, OtherJobs
<1>3. job \in UNION {MediaJobs(type) : type \in Media} => \E type \in Media : job \in MediaJobs(type)
  BY Zenon
<1>4. \/ job \notin Jobs
      \/ job \in UNION {MediaJobs(type) : type \in Media}
      \/ job \in InferenceJobs \cup EmbeddingJobs \cup OtherJobs
  BY Zenon DEF Jobs
<1> QED
  BY <1>1, <1>2, <1>3, <1>4, Zenon

LEMMA TypeInit == Init => TypeOK /\ Counts
<1> SUFFICES ASSUME Init PROVE TypeOK /\ Counts
  OBVIOUS
<1>1. Flags /\ lost \in BOOLEAN /\ made = NoOrder
  BY Zenon DEF Init, RelayInit, CallsInit, Flags
<1>2. Controls
  BY DEF Init, RelayInit, Controls
<1>3. /\ channel = <<>> /\ held = <<>> /\ fate = <<>> /\ batch = NoBatch /\ carried = <<>>
      /\ produced = 0 /\ emitted = 0 /\ sealed = {} /\ gen = "none"
  BY DEF Init, RelayInit
<1>4. Len(channel) = 0 /\ nCarried = 0 /\ nFate = 0
  BY <1>3, EmptySeq DEF nFate, nCarried
<1>5. QueueTypes
  <2>1. NoBatch \in Batches
    BY DEF NoBatch, Batches
  <2> QED
    BY <1>3, <1>4, <2>1, RelayAssumption, EmptySeq DEF QueueTypes
<1>6. Counts
  <2>1. batch.tokens = 0 /\ batch.lead = 0
    BY <1>3 DEF NoBatch
  <2>2. Merged
    BY <1>4, <2>1 DEF Merged
  <2> QED
    BY <1>3, <2>2, FS_EmptySet DEF Counts
<1>7. CallsTypeOK
  BY <1>1, EmptySeq DEF Init, CallsInit, CallsTypeOK
<1>8. ImageTypeOK
  BY Times DEF Init, ImageInit, ImageTypeOK
<1> QED
  BY <1>1, <1>2, <1>5, <1>6, <1>7, <1>8, RelayTypes DEF Init, TypeOK, Queues

LEMMA CallsStep == ASSUME TypeOK, Counts, Lanes, Next PROVE UNCHANGED callVars \/ \E p \in Reports : Request(p)
<1>1. Controls /\ Queues
  BY RelayTypes DEF TypeOK
<1>2. CASE Refuse \/ Ask \/ Serve \/ SealFails \/ Engine \/ EngineEnds
  BY <1>2 DEF Refuse, Ask, Serve, SealFails, Elsewhere, Engine, Generate, Produce, EngineEnds, GiveUp
<1>3. CASE Finish
  <2>1. job.env \in Forms
    BY <1>3, Enveloped DEF Finish, TypeOK, Lanes, Accepted, Opens, Envelopes, Forms
  <2>2. Complete(job.env, 0, result = "shown") \in Reports
    BY <2>1, ReportTypes
  <2> QED
    BY <1>3, <2>2 DEF Finish, Report, Request
<1>4. CASE Fail
  BY <1>4, ReportTypes DEF Fail, Report, Request
<1>5. CASE Image
  <2>1. ASSUME NEW over \in BOOLEAN, PostImage(over) PROVE \E p \in Reports : Request(p)
    <3>1. body' \in Nat
      BY <2>1 DEF PostImage, SealedOnce, TypeOK, ImageTypeOK
    <3>2. Complete("v2", body', TRUE) \in Reports
      BY <3>1, ReportTypes DEF Forms
    <3> QED
      BY <2>1, <3>2 DEF PostImage, Request
  <2> QED
    BY <1>5, <2>1 DEF Image, OutOfTime
<1>6. CASE Stream
  BY <1>1, <1>6, ControlRelaying DEF Stream
<1> QED
  BY <1>2, <1>3, <1>4, <1>5, <1>6 DEF Next, ProcessJob

LEMMA ControlStep == ASSUME Queues, Controls, [Next]_vars PROVE Controls'
<1>1. CASE Stream
  BY <1>1, ControlRelaying DEF Stream
<1>2. CASE Engine \/ EngineEnds
  BY <1>2 DEF Engine, EngineEnds, Generate, Produce, GiveUp, Controls
<1>3. CASE Ask \/ Serve
  BY <1>3 DEF Ask, StartRelay, Serve, Infer, relayVars, Controls
<1>4. CASE Refuse \/ SealFails \/ Finish \/ Fail \/ Image \/ UNCHANGED vars
  BY <1>4 DEF Refuse, SealFails, Finish, Fail, Image, Elsewhere, vars, relayVars, Controls
<1> QED
  BY <1>1, <1>2, <1>3, <1>4 DEF Next, ProcessJob

LEMMA JobStep ==
  ASSUME TypeOK, [Next]_vars
  PROVE  /\ job' = job /\ node' = node
         /\ pc' \in {"received", "serving", "reply", "fail", "stream", "image", "upload", "over"}
         /\ result' \in {"none", "blank", "shown"}
<1>1. job' = job /\ node' = node
  BY DEF Next, ProcessJob, Refuse, Ask, Serve, SealFails, Finish, Fail, Image, Stream, Engine, EngineEnds, vars, jobVars
<1>2. pc' \in {"received", "serving", "reply", "fail", "stream", "image", "upload", "over"}
  BY DEF TypeOK, Next, ProcessJob, Refuse, ReportsFailed, Ask, Serve, Infer, SealFails, Finish, Fail, Image, Stream,
         Engine, EngineEnds, vars, jobVars
<1>4. result' \in {"none", "blank", "shown"}
  BY DEF TypeOK, Next, ProcessJob, Refuse, Ask, Serve, Infer, SealFails, Finish, Fail, Image, Stream,
         Engine, EngineEnds, vars, jobVars
<1> QED
  BY <1>1, <1>2, <1>4

(* What a worker makes is an order of the lane, and the one reserved.      *)
LEMMA MediaJob == job \in Jobs /\ job.type \in Media => job \in MediaJobs(job.type)
<1> SUFFICES ASSUME job \in Jobs, job.type \in Media PROVE job \in MediaJobs(job.type)
  OBVIOUS
<1>1. job \notin InferenceJobs \cup EmbeddingJobs \cup OtherJobs
  BY DEF InferenceJobs, EmbeddingJobs, OtherJobs, Media
<1>2. job \in UNION {MediaJobs(type) : type \in Media}
  BY <1>1, Zenon DEF Jobs
<1>3. PICK type \in Media : job \in MediaJobs(type)
  BY <1>2, Zenon
<1>4. job.type = type
  BY <1>3 DEF MediaJobs
<1> QED
  BY <1>3, <1>4

AudioOrders == [id : Ids, model : LaneModels("transcription"), language : Either, samples : Either]
SpeechOrders == [id : Ids, model : LaneModels("speech"), voice : Either, bytes : Either]
ImageOrders == [id : Ids, model : LaneModels("image"), size : Either, seed : Either, bytes : Either]
LEMMA LaneOrders ==
  /\ Orders["transcription"] = AudioOrders /\ Orders["speech"] = SpeechOrders /\ Orders["image"] = ImageOrders
BY DEF Orders, AudioOrders, SpeechOrders, ImageOrders

(* The checks of the lane and of its engine leave nothing open: what is    *)
(* made agrees with the reservation in every field.                        *)
LEMMA MadeAsReserved ==
  ASSUME job \in Jobs, node \in Nodes(job.type), job.type \in Media, Accepted, Servable, EngineTakes, Make
  PROVE  /\ made' = job.binding /\ made' \in Orders[job.type] /\ made' # NoOrder
         /\ made'.id = "own" /\ made'.model = job.model
<1>1. /\ job.binding \in Orders[job.type] \cup {NoOrder} /\ job.request \in Orders[job.type] \cup {NoOrder}
      /\ job.binding # NoOrder
  BY MediaJob DEF MediaJobs, Accepted, BindingRead
<1>2. job.binding \in Orders[job.type] /\ NoOrder \notin Orders[job.type]
  BY <1>1, NoOrderAssumption
<1>3. made' = [job.request EXCEPT !.model = node.model]
  BY DEF Make
<1>4. CASE job.type = "transcription"
  <2>1. AudioServable /\ job.request # NoOrder
    BY <1>4 DEF Servable, AudioServable
  <2>2. job.request \in AudioOrders /\ job.binding \in AudioOrders
    BY <1>1, <1>2, <1>4, <2>1, LaneOrders
  <2>3. /\ node.model = job.binding.model /\ job.request.id = job.binding.id /\ job.binding.id = "own"
        /\ job.request.language = job.binding.language /\ job.request.samples = job.binding.samples
        /\ job.model = job.binding.model
    BY <2>1 DEF AudioServable, AudioMatches
  <2>4. made' = job.binding
    BY <1>3, <2>2, <2>3 DEF AudioOrders
  <2> QED
    BY <1>2, <2>3, <2>4
<1>5. CASE job.type = "speech"
  <2>1. SpeechServable /\ job.request # NoOrder /\ job.request.model = node.model
    BY <1>5 DEF Servable, SpeechServable, EngineTakes
  <2>2. job.request \in SpeechOrders /\ job.binding \in SpeechOrders
    BY <1>1, <1>2, <1>5, <2>1, LaneOrders
  <2>3. /\ node.model = job.binding.model /\ job.request.id = job.binding.id /\ job.binding.id = "own"
        /\ job.request.voice = job.binding.voice /\ job.request.bytes = job.binding.bytes
        /\ job.model = job.binding.model
    BY <2>1 DEF SpeechServable, SpeechMatches
  <2>4. made' = job.binding
    BY <1>3, <2>2, <2>3 DEF SpeechOrders
  <2> QED
    BY <1>2, <2>3, <2>4
<1>6. CASE job.type = "image"
  <2>1. ImageServable /\ job.request # NoOrder
    BY <1>6 DEF Servable, ImageServable
  <2>2. job.request \in ImageOrders /\ job.binding \in ImageOrders
    BY <1>1, <1>2, <1>6, <2>1, LaneOrders
  <2>3. /\ job.request.id = job.binding.id /\ job.binding.id = "own" /\ job.request.size = job.binding.size
        /\ job.request.seed = job.binding.seed /\ job.request.bytes = job.binding.bytes
        /\ job.model = "m1"
    BY <2>1 DEF ImageServable, ImageMatches
  <2>4. node.model = "m1" /\ job.binding.model = "m1"
    <3>1. node.model \in LaneModels("image")
      BY <1>6 DEF Nodes, Media
    <3>2. job.binding.model \in LaneModels("image")
      BY <2>2 DEF ImageOrders
    <3> QED
      BY <3>1, <3>2 DEF LaneModels
  <2>5. made' = job.binding
    BY <1>3, <2>2, <2>3, <2>4 DEF ImageOrders
  <2> QED
    BY <1>2, <2>3, <2>4, <2>5
<1> QED
  BY <1>4, <1>5, <1>6 DEF Media

LEMMA MakesReserved ==
  ASSUME TypeOK, Lanes, [Next]_vars
  PROVE  \/ made' = made
         \/ /\ pc \in {"serving", "image"} /\ job.type \in Media /\ Accepted /\ Servable
            /\ made' = job.binding /\ made' \in Orders[job.type] /\ made' # NoOrder
            /\ made'.id = "own" /\ made'.model = job.model
<1>1. ASSUME pc \in {"serving", "image"}, job.type \in Media, EngineTakes, Make
      PROVE  /\ Accepted /\ Servable /\ made' = job.binding /\ made' \in Orders[job.type] /\ made' # NoOrder
             /\ made'.id = "own" /\ made'.model = job.model
  <2>1. Accepted /\ Servable
    BY <1>1 DEF Lanes
  <2> QED
    BY <1>1, <2>1, MadeAsReserved DEF TypeOK
<1>2. CASE Serve
  <2>1. made' = made \/ (pc = "serving" /\ job.type \in Media /\ EngineTakes /\ Make)
    BY <1>2 DEF Serve
  <2> QED
    BY <1>1, <2>1
<1>3. CASE Image
  <2>1. made' = made \/ (pc = "image" /\ EngineTakes /\ Make)
    BY <1>3 DEF Image
  <2>2. pc = "image" => job.type \in Media
    BY DEF Lanes, Media
  <2> QED
    BY <1>1, <2>1, <2>2
<1>4. CASE Refuse \/ Ask \/ SealFails \/ Finish \/ Fail \/ Stream \/ Engine \/ EngineEnds \/ UNCHANGED vars
  BY <1>4 DEF Refuse, Ask, SealFails, Finish, Fail, Stream, Engine, EngineEnds, vars, jobVars
<1> QED
  BY <1>2, <1>3, <1>4 DEF Next, ProcessJob

LEMMA TypeStep == ASSUME TypeOK, Counts, Clock, Lanes, [Next]_vars PROVE TypeOK' /\ Counts' /\ Clock'
<1>1. Queues /\ Controls /\ Flags /\ ImageTypeOK /\ CallsTypeOK
  BY RelayTypes DEF TypeOK
<1>2. RelayTypeOK' /\ Counts'
  <2>1. Queues' /\ Controls' /\ Flags'
    BY <1>1, QueueStep, ControlStep, FlagsStep
  <2> QED
    BY <2>1 DEF RelayTypeOK, Queues, QueueTypes, Controls, Flags
<1>3. ImageTypeOK' /\ Clock'
  BY <1>1, ImageStep
<1>4. CallsTypeOK'
  <2>1. CASE Next
    BY <2>1, <1>1, CallsStep, OneRequest DEF callVars, CallsTypeOK
  <2>2. CASE UNCHANGED vars
    BY <1>1, <2>2 DEF vars, callVars, CallsTypeOK
  <2> QED
    BY <2>1, <2>2
<1> QED
  <2>1. job' = job
    BY JobStep
  <2>2. made' # NoOrder => job'.type \in Media /\ made' \in Orders[job'.type]
    BY <2>1, MakesReserved DEF TypeOK
  <2> QED
    BY <1>2, <1>3, <1>4, <2>2, JobStep DEF TypeOK

-----------------------------------------------------------------------------
(* Lanes.                                                                  *)
LEMMA SameJob ==
  ASSUME job' = job, node' = node
  PROVE  Accepted' = Accepted /\ Servable' = Servable /\ Streams' = Streams
<1>1. Accepted' = Accepted /\ Streams' = Streams
  BY Zenon DEF Accepted, Streams, BindingRead, Opens, Strict, AgreedOnMedia
<1>2. AudioServable' = AudioServable
  BY Zenon DEF AudioServable, AudioMatches
<1>3. SpeechServable' = SpeechServable
  BY Zenon DEF SpeechServable, SpeechMatches
<1>4. ImageServable' = ImageServable
  BY Zenon DEF ImageServable, ImageMatches
<1> QED
  BY <1>1, <1>2, <1>3, <1>4, Zenon DEF Servable

LEMMA RelayGoesOn ==
  ASSUME relay # "idle", Relaying(job.homura, job.expects) PROVE relay' # "idle"
BY DEF Relaying, RelayCall, FirstText, MoreText, Merge, MergeEnds, SwallowedText, PostText, RelayDone, PostTail, BlankDone, PostFinal,
       Settle, EndOfStream, ReportBroken, ReportFailed, Onward

LEMMA LanesStep == ASSUME TypeOK, Lanes, [Next]_vars PROVE Lanes'
<1>1. job' = job /\ node' = node /\ Accepted' = Accepted /\ Servable' = Servable /\ Streams' = Streams
  BY JobStep, SameJob
<1>2. ASSUME UNCHANGED <<relay, gen, produced, channel, held, batch, carried, seq, sealed, emitted, fate, visible, cleaner>>
      PROVE  relay' = relay /\ Untouched' = Untouched
  BY <1>2 DEF Untouched
<1>3. CASE Refuse
  BY <1>1, <1>2, <1>3 DEF Refuse, ReportsFailed, Elsewhere, relayVars, Lanes
<1>4. CASE Ask
  <2>1. Accepted /\ Servable /\ signal' = signal
    BY <1>4 DEF Ask, StartRelay, relayVars
  <2>2. CASE Streams
    BY <1>1, <1>4, <2>1, <2>2 DEF Ask, StartRelay, Lanes
  <2>3. CASE ~Streams
    BY <1>1, <1>2, <1>4, <2>1, <2>3 DEF Ask, relayVars, Lanes
  <2> QED
    BY <2>2, <2>3
<1>5. CASE Serve
  <2>1. UNCHANGED <<relay, gen, produced, channel, held, batch, carried, seq, sealed, emitted, fate, visible, cleaner>>
    BY <1>5 DEF Serve, Infer, relayVars
  <2>2. pc = "serving" /\ pc' \in {"reply", "fail"}
    BY <1>5 DEF Serve, Infer
  <2> QED
    BY <1>1, <1>2, <2>1, <2>2 DEF Lanes
<1>6. CASE SealFails \/ Finish \/ Fail
  <2>1. UNCHANGED <<relay, gen, produced, channel, held, batch, carried, seq, sealed, emitted, fate, visible, cleaner>>
    BY <1>6 DEF SealFails, Finish, Fail, Elsewhere, relayVars
  <2>2. pc \in {"reply", "fail"} /\ pc' \in {"fail", "over"}
    BY <1>6 DEF SealFails, Finish, Fail
  <2> QED
    BY <1>1, <1>2, <2>1, <2>2 DEF Lanes
<1>7. CASE Image
  <2>1. UNCHANGED <<relay, gen, produced, channel, held, batch, carried, seq, sealed, emitted, fate, visible, cleaner>>
    BY <1>7 DEF Image, relayVars
  <2>2. pc \in {"image", "upload"} /\ pc' \in {"upload", "fail", "over"}
    BY <1>7 DEF Image
  <2> QED
    BY <1>1, <1>2, <2>1, <2>2 DEF Lanes
<1>8. CASE Stream \/ Engine \/ EngineEnds
  <2>1. pc = "stream" /\ relay # "idle" /\ pc' = pc
    BY <1>8 DEF Stream, Engine, EngineEnds, jobVars, Lanes
  <2>2. relay' # "idle"
    BY <1>8, <2>1, RelayGoesOn DEF Stream, Engine, Generate, Produce, EngineEnds, GiveUp
  <2> QED
    BY <1>1, <2>1, <2>2 DEF Lanes
<1>9. CASE UNCHANGED vars
  BY <1>1, <1>2, <1>9 DEF vars, jobVars, relayVars, Lanes
<1> QED
  BY <1>3, <1>4, <1>5, <1>6, <1>7, <1>8, <1>9 DEF Next, ProcessJob

-----------------------------------------------------------------------------
(* The parts that a step keeps together, and the first theorems.           *)
Frame == TypeOK /\ Lanes /\ Counts /\ Clock

LEMMA FrameInit == Init => Frame
<1> SUFFICES ASSUME Init PROVE Frame
  OBVIOUS
<1>1. TypeOK /\ Counts
  BY TypeInit
<1>2. Lanes
  BY DEF Init, RelayInit, Lanes, Untouched
<1>3. Clock
  BY Times DEF Init, ImageInit, Clock
<1> QED
  BY <1>1, <1>2, <1>3 DEF Frame

LEMMA FrameStep == Frame /\ [Next]_vars => Frame'
BY TypeStep, LanesStep DEF Frame

LEMMA FrameHolds == Spec => []Frame
BY FrameInit, FrameStep, PTL DEF Spec

(* Every variable keeps its type and every count its bound: no more events *)
(* are sent than an answer may have, and no more wait than the channel     *)
(* holds.                                                                  *)
THEOREM TypeCorrect == Spec => []TypeOK
<1>1. Frame => TypeOK
  BY DEF Frame
<1> QED
  BY <1>1, FrameHolds, PTL

(* No completion of an image is taken after the orchestrator reaped the    *)
(* job: complete_with_retry plans every attempt to end by its deadline.    *)
THEOREM NeverLate == Spec => []NoLateCompletion
<1>1. Frame => NoLateCompletion
  <2> SUFFICES ASSUME Frame, NEW t \in takenAt PROVE t < JobTimeout
    BY DEF NoLateCompletion
  <2>1. t \in 0 .. NodeDeadline + MaxDelay + MaxLinger
    BY DEF Frame, Clock
  <2> QED
    BY <2>1, Times
<1> QED
  BY <1>1, FrameHolds, PTL

-----------------------------------------------------------------------------
(* What was taken, and one report more.                                    *)
LEMMA Taking ==
  ASSUME CallsTypeOK, NEW p \in Reports, accepted' = Append(accepted, p)
  PROVE  /\ nAccepted \in Nat /\ nAccepted' = nAccepted + 1
         /\ DOMAIN accepted = 1 .. nAccepted /\ DOMAIN accepted' = 1 .. nAccepted + 1
         /\ \A i \in DOMAIN accepted : accepted'[i] = accepted[i]
         /\ accepted'[nAccepted + 1] = p
         /\ \A i \in DOMAIN accepted' : i \in DOMAIN accepted \/ i = nAccepted + 1
         /\ \A i \in DOMAIN accepted : i \in DOMAIN accepted' /\ i < nAccepted + 1
<1>1. /\ accepted \in Seq(Reports) /\ accepted' \in Seq(Reports) /\ Len(accepted') = Len(accepted) + 1
      /\ \A i \in 1 .. Len(accepted) : accepted'[i] = accepted[i]
      /\ accepted'[Len(accepted) + 1] = p
  BY AppendProperties DEF CallsTypeOK
<1>2. DOMAIN accepted = 1 .. Len(accepted) /\ DOMAIN accepted' = 1 .. Len(accepted') /\ Len(accepted) \in Nat
  BY <1>1, LenProperties
<1>3. /\ nAccepted \in Nat /\ nAccepted' = nAccepted + 1
      /\ DOMAIN accepted = 1 .. nAccepted /\ DOMAIN accepted' = 1 .. nAccepted + 1
      /\ \A i \in 1 .. nAccepted : accepted'[i] = accepted[i]
      /\ accepted'[nAccepted + 1] = p
  BY <1>1, <1>2 DEF nAccepted
<1>4. \A i \in 1 .. nAccepted + 1 : i \in 1 .. nAccepted \/ i = nAccepted + 1
  BY <1>3
<1>5. \A i \in 1 .. nAccepted : i \in 1 .. nAccepted + 1 /\ i < nAccepted + 1
  BY <1>3
<1> QED
  BY <1>3, <1>4, <1>5

LEMMA Domain == CallsTypeOK => DOMAIN accepted = 1 .. nAccepted /\ nAccepted \in Nat
BY LenProperties DEF CallsTypeOK, nAccepted

(* A chunk more, under the next number.                                    *)
LEMMA ChunkNumbers ==
  ASSUME CallsTypeOK, Controls, Numbers, StreamAccounts, relay \in Posting,
         NEW heard \in Heard, NEW shows \in BOOLEAN, PostChunk(heard, shows),
         seq' = IF heard = "relayed" THEN seq + 1 ELSE seq
  PROVE  /\ \A i \in DOMAIN accepted' : accepted'[i].post = "chunk" /\ accepted'[i].seq = i - 1
         /\ \A s \in sealed' : s.seq <= seq /\ s.final = FALSE
         /\ \A s, t \in sealed' : s.seq = t.seq => s = t
         /\ heard = "relayed" => seq' = nAccepted'
         /\ heard # "relayed" => seq' = nAccepted' \/ (lost' /\ seq' = nAccepted' - 1)
<1>1. /\ seq = nAccepted /\ seq \in Nat
      /\ \A i \in DOMAIN accepted : accepted[i].post = "chunk"
      /\ \A s \in sealed : s.seq < seq /\ s.final = FALSE
  BY DEF Numbers, Posting, Sending, Controls
<1>2. \A i \in DOMAIN accepted : accepted[i].post = "chunk" /\ accepted[i].seq = i - 1
  BY <1>1 DEF StreamAccounts
<1>3. Chunk(seq, shows) \in Reports /\ Chunk(seq, shows).post = "chunk" /\ Chunk(seq, shows).seq = seq
  BY <1>1, ReportTypes DEF Chunk
<1>4. accepted' = accepted \/ accepted' = Append(accepted, Chunk(seq, shows))
  BY DEF PostChunk, Taken, NotTaken, AnswerLost, callVars
<1>5. \A i \in DOMAIN accepted' : accepted'[i].post = "chunk" /\ accepted'[i].seq = i - 1
  <2>1. CASE accepted' = accepted
    BY <2>1, <1>2
  <2>2. CASE accepted' = Append(accepted, Chunk(seq, shows))
    <3>1. PICK p \in Reports : p = Chunk(seq, shows) /\ p.post = "chunk" /\ p.seq = seq
      BY <1>3
    <3>2. accepted' = Append(accepted, p)
      BY <2>2, <3>1
    <3> SUFFICES ASSUME NEW i \in DOMAIN accepted'
                 PROVE  accepted'[i].post = "chunk" /\ accepted'[i].seq = i - 1
      OBVIOUS
    <3>3. CASE i \in DOMAIN accepted
      BY <1>2, <3>2, <3>3, Taking
    <3>4. CASE i = nAccepted + 1
      <4>1. accepted'[i] = p
        BY <3>2, <3>4, Taking
      <4>2. i - 1 = seq
        BY <1>1, <3>4
      <4> QED
        BY <3>1, <4>1, <4>2
    <3> QED
      BY <3>2, <3>3, <3>4, Taking
  <2> QED
    BY <1>4, <2>1, <2>2
<1>6. /\ \A s \in sealed' : s.seq <= seq /\ s.final = FALSE
      /\ \A s, t \in sealed' : s.seq = t.seq => s = t
  <2> DEFINE new == [seq |-> seq, final |-> FALSE, nth |-> Cardinality(sealed)]
  <2>1. sealed' = sealed \cup {new} /\ new.seq = seq /\ new.final = FALSE
    BY DEF PostChunk, Seal
  <2> HIDE DEF new
  <2>2. \A s, t \in sealed : s.seq = t.seq /\ s.final = t.final => s = t
    BY DEF StreamAccounts
  <2>3. \A s \in sealed : s.seq \in Nat /\ s.seq # seq /\ s.seq <= seq /\ s.final = FALSE
    <3>1. \A s \in sealed : s.seq \in Nat
      BY DEF Controls
    <3> QED
      BY <1>1, <3>1
  <2>4. \A s \in sealed' : s.seq <= seq /\ s.final = FALSE
    BY <1>1, <2>1, <2>3
  <2>5. ASSUME NEW s \in sealed', NEW t \in sealed', s.seq = t.seq PROVE s = t
    <3>1. (s \in sealed \/ s = new) /\ (t \in sealed \/ t = new)
      BY <2>1, <2>5
    <3>2. \A r \in sealed : r.seq # new.seq
      BY <2>1, <2>3
    <3>3. CASE s \in sealed /\ t \in sealed
      BY <2>2, <2>3, <2>5, <3>3, Zenon
    <3>4. CASE s = new \/ t = new
      BY <2>5, <3>1, <3>2, <3>4, Zenon
    <3> QED
      BY <3>1, <3>3, <3>4, Zenon
  <2> QED
    BY <2>4, <2>5
<1>7. heard = "relayed" => seq' = nAccepted'
  <2>1. ASSUME heard = "relayed" PROVE accepted' = Append(accepted, Chunk(seq, shows)) /\ seq' = seq + 1
    BY <2>1 DEF PostChunk, Taken
  <2>2. accepted' = Append(accepted, Chunk(seq, shows)) => nAccepted' = nAccepted + 1
    BY <1>3, Taking
  <2> QED
    BY <1>1, <2>1, <2>2
<1>8. heard # "relayed" => seq' = nAccepted' \/ (lost' /\ seq' = nAccepted' - 1)
  <2>1. CASE accepted' = accepted
    BY <1>1, <2>1 DEF nAccepted
  <2>2. CASE heard # "relayed" /\ accepted' # accepted
    <3>1. lost' = TRUE /\ accepted' = Append(accepted, Chunk(seq, shows)) /\ seq' = seq
      BY <2>2 DEF PostChunk, NotTaken, AnswerLost, callVars
    <3>2. nAccepted' = nAccepted + 1
      BY <1>3, <3>1, Taking
    <3>3. seq' = nAccepted' - 1
      BY <1>1, <3>1, <3>2
    <3> QED
      BY <3>1, <3>3
  <2> QED
    BY <2>1, <2>2
<1> QED
  BY <1>5, <1>6, <1>7, <1>8

(* Numbers and StreamAccounts, one action after the other.                 *)
Streamed == Numbers /\ StreamAccounts

LEMMA NumbersElsewhere ==
  ASSUME CallsTypeOK, Lanes, Streamed, pc # "stream", relay' = relay, UNCHANGED <<sealed, emitted, fate>>,
         UNCHANGED callVars \/ \E p \in Reports : p.post \notin {"chunk", "final"} /\ Request(p)
  PROVE  Streamed'
<1>1. \A i \in DOMAIN accepted : accepted[i].post \notin {"chunk", "final"}
  BY DEF Streamed, Numbers
<1>2. relay' \notin Sending /\ relay' # "settle" /\ relay' \notin Posting
  BY DEF Lanes, Sending, Posting
<1>3. \A i \in DOMAIN accepted' : accepted'[i].post \notin {"chunk", "final"}
  <2>1. CASE accepted' = accepted
    BY <1>1, <2>1
  <2>2. CASE accepted' # accepted
    <3>1. PICK p \in Reports : p.post \notin {"chunk", "final"} /\ accepted' = Append(accepted, p)
      BY <2>2 DEF Request, Taken, NotTaken, AnswerLost, callVars
    <3> QED
      BY <1>1, <3>1, Taking
  <2> QED
    BY <2>1, <2>2
<1>4. \A s, t \in sealed' : s.seq = t.seq /\ s.final = t.final => s = t
  BY DEF Streamed, StreamAccounts
<1>5. Billed'
  BY DEF Streamed, Numbers, Billed, nFate
<1> QED
  BY <1>2, <1>3, <1>4, <1>5 DEF Streamed, Numbers, StreamAccounts, Settlement

(* Nothing is posted or counted; the relay goes on, or ends.               *)
LEMMA NumbersKept ==
  ASSUME Streamed, pc' = pc, UNCHANGED <<seq, sealed, emitted, fate, callVars>>,
         relay' = relay \/ (relay \in Posting /\ relay' \in Posting \cup {"broken"})
  PROVE  Streamed'
<1>1. /\ UNCHANGED <<accepted, lost>> /\ nAccepted' = nAccepted /\ nFate' = nFate
  BY DEF callVars, nAccepted, nFate
<1>2. StreamAccounts'
  BY <1>1, Zenon DEF Streamed, StreamAccounts, Settlement
<1>3. Numbers'
  <2>1. Billed' /\ (AllCounted => AllCounted')
    BY <1>1 DEF Streamed, Numbers, Billed, AllCounted
  <2> QED
    BY <1>1, <2>1 DEF Streamed, Numbers, Posting, Sending, Settlement
<1> QED
  BY <1>2, <1>3 DEF Streamed

(* A chunk was posted: it remains to be said what became of its tokens.    *)
LEMMA NumbersChunk ==
  ASSUME CallsTypeOK, Controls, Streamed, pc = "stream", pc' = pc, relay \in Posting,
         NEW heard \in Heard, NEW shows \in BOOLEAN, PostChunk(heard, shows),
         seq' = IF heard = "relayed" THEN seq + 1 ELSE seq,
         relay' \in IF heard = "relayed" THEN Posting ELSE {"settle"},
         Billed', heard = "relayed" => AllCounted'
  PROVE  Streamed'
<1>1. /\ \A i \in DOMAIN accepted' : accepted'[i].post = "chunk" /\ accepted'[i].seq = i - 1
      /\ \A s \in sealed' : s.seq <= seq /\ s.final = FALSE
      /\ \A s, t \in sealed' : s.seq = t.seq => s = t
      /\ heard = "relayed" => seq' = nAccepted'
      /\ heard # "relayed" => seq' = nAccepted' \/ (lost' /\ seq' = nAccepted' - 1)
  BY ChunkNumbers DEF Streamed
<1>2. \A i \in DOMAIN accepted' : accepted'[i].post # "final" /\ ~Settlement(i)'
  BY <1>1 DEF Settlement
<1>4. StreamAccounts'
  BY <1>1, <1>2, Zenon DEF StreamAccounts
<1>3. Numbers'
  <2>1. CASE heard = "relayed"
    <3>1. \A s \in sealed' : s.seq < seq' /\ s.final = FALSE
      <4>1. seq \in Nat /\ seq' = seq + 1
        BY <2>1 DEF Controls
      <4>2. \A s \in sealed' : s.seq \in Nat
        BY <4>1 DEF Controls, PostChunk, Seal
      <4> QED
        BY <1>1, <4>1, <4>2
    <3>2. relay' \in Posting /\ relay' # "settle"
      BY <2>1 DEF Posting
    <3> QED
      BY <1>1, <1>2, <2>1, <3>1, <3>2 DEF Numbers
  <2>2. CASE heard # "relayed"
    <3>1. relay' = "settle" /\ relay' \notin Posting /\ seq' = seq
      BY <2>2 DEF Posting
    <3> QED
      BY <1>1, <1>2, <2>2, <3>1 DEF Numbers
  <2> QED
    BY <2>1, <2>2
<1> QED
  BY <1>3, <1>4 DEF Streamed

(* What the accounts ask of the bill, given the bill is what was counted.  *)
LEMMA AccountsFromBill ==
  ASSUME Billed',
         \A i \in DOMAIN accepted' :
           accepted'[i].post = "final" /\ accepted'[i].partial => accepted'[i].bill = emitted',
         \A i \in DOMAIN accepted' :
           \/ accepted'[i].post \notin {"chunk", "final"}
           \/ accepted'[i].seq = i - 1
           \/ accepted'[i].post = "final" /\ lost' /\ accepted'[i].seq = i - 2,
         \A s, t \in sealed' : s.seq = t.seq /\ s.final = t.final => s = t
  PROVE  StreamAccounts'
<1>1. ASSUME NEW i \in DOMAIN accepted', Settlement(i)'
      PROVE  /\ accepted'[i].bill <= Len(fate')
             /\ \A n \in DOMAIN fate' : fate'[n].how = "relayed" => n <= accepted'[i].bill
             /\ \A m, n \in 1 .. accepted'[i].bill :
                  m < n /\ fate'[m].how = "undelivered" => ~fate'[n].opens
  <2>1. accepted'[i].bill = emitted'
    BY <1>1 DEF Settlement
  <2> QED
    BY <2>1, Zenon DEF Billed, nFate
<1> QED
  BY <1>1, Zenon DEF StreamAccounts

(* The last chunk.                                                         *)
LEMMA NumbersFinal ==
  ASSUME CallsTypeOK, Queues, Controls, Streamed, pc = "stream", pc' = pc, relay \in {"final", "settle"},
         NEW partial \in BOOLEAN, NEW bill \in Nat, Seal(TRUE), Request(Final(seq, bill, partial)),
         partial => bill = emitted,
         UNCHANGED <<emitted, fate>>, relay' \in {"over", "broken"}
  PROVE  Streamed'
<1> DEFINE p == Final(seq, bill, partial)
<1>1. p \in Reports /\ p.post = "final" /\ p.seq = seq /\ (p.partial => p.bill = emitted)
  BY ReportTypes DEF Final, Controls
<1> HIDE DEF p
<1>2. /\ \A i \in DOMAIN accepted : accepted[i].post = "chunk"
      /\ seq = nAccepted \/ (lost /\ seq = nAccepted - 1)
      /\ \A s \in sealed : s.final = FALSE
  BY DEF Streamed, Numbers, Sending, Posting
<1>3. lost => lost'
  BY Zenon DEF Request, Taken, NotTaken, AnswerLost
<1>4. accepted' = accepted \/ accepted' = Append(accepted, p)
  BY DEF Request, Taken, NotTaken, AnswerLost, p
<1>5. ASSUME NEW i \in DOMAIN accepted'
      PROVE  \/ accepted'[i].post = "chunk" /\ accepted'[i].seq = i - 1
             \/ /\ accepted'[i].post = "final" /\ (accepted'[i].partial => accepted'[i].bill = emitted)
                /\ accepted'[i].seq = i - 1 \/ (lost' /\ accepted'[i].seq = i - 2)
  <2>1. CASE accepted' = Append(accepted, p) /\ i = nAccepted + 1
    <3>1. accepted'[i] = p
      BY <1>1, <2>1, Taking
    <3>2. nAccepted \in Nat /\ i = nAccepted + 1 /\ i - 1 = nAccepted /\ i - 2 = nAccepted - 1
      BY <2>1, Domain
    <3>3. seq = i - 1 \/ (lost /\ seq = i - 2)
      BY <1>2, <3>2
    <3> QED
      BY <1>1, <1>3, <3>1, <3>3, Zenon
  <2>2. CASE i \in DOMAIN accepted /\ accepted'[i] = accepted[i]
    <3>1. accepted[i].post = "chunk"
      BY <1>2, <2>2
    <3>2. accepted[i].seq = i - 1
      BY <2>2, <3>1 DEF Streamed, StreamAccounts
    <3> QED
      BY <2>2, <3>1, <3>2
  <2> QED
    BY <1>1, <1>4, <2>1, <2>2, Taking
<1>6. \A s, t \in sealed' : s.seq = t.seq /\ s.final = t.final => s = t
  <2> DEFINE new == [seq |-> seq, final |-> TRUE, nth |-> Cardinality(sealed)]
  <2>1. sealed' = sealed \cup {new} /\ new.final = TRUE
    BY DEF Seal
  <2> HIDE DEF new
  <2> SUFFICES ASSUME NEW s \in sealed', NEW t \in sealed', s.seq = t.seq, s.final = t.final PROVE s = t
    OBVIOUS
  <2>2. CASE s \in sealed /\ t \in sealed
    BY <2>2 DEF Streamed, StreamAccounts
  <2>3. CASE s = new /\ t = new
    BY <2>3
  <2>4. (s \in sealed /\ t \in sealed) \/ (s = new /\ t = new)
    <3>1. (s \in sealed \/ s = new) /\ (t \in sealed \/ t = new)
      BY <2>1
    <3>2. \A r \in sealed : r.final # new.final
      BY <1>2, <2>1
    <3> QED
      BY <3>1, <3>2, Zenon
  <2> QED
    BY <2>2, <2>3, <2>4
<1>7. \A i \in DOMAIN accepted' : accepted'[i].post = "final" /\ accepted'[i].partial => accepted'[i].bill = emitted'
  BY <1>5
<1>8. Billed'
  BY DEF Streamed, Numbers, Billed, nFate
<1>9. StreamAccounts'
  BY <1>5, <1>6, <1>7, <1>8, AccountsFromBill
<1>10. Numbers'
  BY <1>5, <1>7, <1>8 DEF Numbers, Sending, Posting, Settlement
<1> QED
  BY <1>9, <1>10 DEF Streamed

(* A token that has a fate had it before, or is one of the chunk's.        *)
LEMMA FateOf ==
  ASSUME Queues, NEW how \in Hows, Fated(how), NEW n \in 1 .. nFate'
  PROVE  \/ n \in 1 .. nFate /\ n \in DOMAIN fate /\ fate'[n] = fate[n]
         \/ \E i \in 1 .. nCarried :
              /\ n = nFate + i /\ fate'[n].opens = carried[i].opens
              /\ fate'[n].how = IF carried[i].out THEN how ELSE "swallowed"
<1>1. /\ nFate' = nFate + nCarried
      /\ \A i \in 1 .. nFate : fate'[i] = fate[i]
      /\ \A i \in 1 .. nCarried : /\ fate'[nFate + i].opens = carried[i].opens
                                  /\ fate'[nFate + i].how = IF carried[i].out THEN how ELSE "swallowed"
  BY FateGrows
<1>2. n \in 1 .. nFate \/ (n - nFate \in 1 .. nCarried /\ n = nFate + (n - nFate))
  BY <1>1, Sizes
<1>3. n \in 1 .. nFate \/ \E i \in 1 .. nCarried : n = nFate + i
  BY <1>2
<1>4. CASE n \in 1 .. nFate
  BY <1>1, <1>4, Sizes
<1>5. ASSUME NEW i \in 1 .. nCarried, n = nFate + i
      PROVE  /\ n = nFate + i /\ fate'[n].opens = carried[i].opens
             /\ fate'[n].how = IF carried[i].out THEN how ELSE "swallowed"
  BY <1>1, <1>5, Zenon
<1> QED
  BY <1>3, <1>4, <1>5, Zenon

LEMMA FateDomain ==
  ASSUME Queues, NEW how \in Hows, Fated(how)
  PROVE  nFate' \in Nat /\ nFate' = nFate + nCarried /\ DOMAIN fate' = 1 .. nFate'
<1>1. fate' \in Seq(Fates) /\ nFate' = nFate + nCarried
  BY FateGrows
<1> QED
  BY <1>1, LenProperties DEF nFate

(* Whatever became of the chunk: all its tokens are counted and none of    *)
(* them was undelivered.                                                   *)
LEMMA CountedAll ==
  ASSUME Queues, AllCounted, NEW how \in Hows \ {"undelivered"}, Fated(how), emitted' = emitted + batch.tokens
  PROVE  AllCounted' /\ Billed'
<1>1. emitted' = nFate' /\ nFate' \in Nat /\ DOMAIN fate' = 1 .. nFate'
  BY FateDomain, Sizes DEF AllCounted, Queues, Counts, Merged
<1>2. ASSUME NEW n \in 1 .. nFate' PROVE fate'[n].how # "undelivered"
  <2>1. \/ n \in DOMAIN fate /\ fate'[n] = fate[n]
        \/ \E i \in 1 .. nCarried : fate'[n].how = IF carried[i].out THEN how ELSE "swallowed"
    BY FateOf
  <2> QED
    BY <2>1 DEF AllCounted
<1>3. AllCounted'
  BY <1>1, <1>2 DEF AllCounted
<1>4. Billed'
  BY <1>1, <1>2 DEF Billed
<1> QED
  BY <1>3, <1>4

(* The chunk was not heard of: up to the lead, nothing begins behind a     *)
(* token that was not delivered.                                           *)
LEMMA CountedLead ==
  ASSUME Queues, AllCounted, NEW how \in {"unheard", "undelivered"}, Fated(how), emitted' = emitted + Counted(batch)
  PROVE  Billed'
<1>1. how \in Hows
  BY DEF Hows
<1>2. /\ batch.lead \in Nat /\ batch.lead <= nCarried /\ nCarried \in Nat /\ nFate \in Nat
      /\ emitted' = nFate + batch.lead /\ nFate' = nFate + nCarried
      /\ \A m, n \in 1 .. batch.lead : m < n /\ carried[m].out => ~carried[n].opens
  BY <1>1, FateDomain, Sizes DEF Counted, AllCounted, Queues, QueueTypes, Batches, Counts, Merged
<1>3. emitted' <= nFate' /\ DOMAIN fate' = 1 .. nFate'
  BY <1>1, <1>2, FateDomain
<1>4. ASSUME NEW n \in 1 .. nFate', fate'[n].how = "relayed" PROVE n <= emitted'
  <2>1. \/ n \in 1 .. nFate
        \/ \E i \in 1 .. nCarried : fate'[n].how = IF carried[i].out THEN how ELSE "swallowed"
    BY <1>1, FateOf
  <2>2. n \in 1 .. nFate
    BY <1>4, <2>1
  <2> QED
    BY <1>2, <2>2
<1>5. ASSUME NEW m \in 1 .. emitted', NEW n \in 1 .. emitted', m < n, fate'[m].how = "undelivered"
      PROVE  ~fate'[n].opens
  <2>1. m \in 1 .. nFate' /\ n \in 1 .. nFate'
    BY <1>2
  <2>2. PICK i \in 1 .. nCarried :
          m = nFate + i /\ fate'[m].how = IF carried[i].out THEN how ELSE "swallowed"
    <3>1. \/ m \in DOMAIN fate /\ fate'[m] = fate[m]
          \/ \E i \in 1 .. nCarried : m = nFate + i /\ fate'[m].how = IF carried[i].out THEN how ELSE "swallowed"
      BY <1>1, <2>1, FateOf
    <3>2. ~(m \in DOMAIN fate /\ fate'[m] = fate[m])
      BY <1>5 DEF AllCounted
    <3> QED
      BY <3>1, <3>2
  <2>3. carried[i].out
    BY <1>5, <2>2
  <2>4. n \notin 1 .. nFate
    BY <1>2, <1>5, <2>2
  <2>5. PICK j \in 1 .. nCarried : n = nFate + j /\ fate'[n].opens = carried[j].opens
    BY <1>1, <2>1, <2>4, FateOf
  <2>6. i \in 1 .. batch.lead /\ j \in 1 .. batch.lead /\ i < j
    BY <1>2, <1>5, <2>2, <2>5
  <2> QED
    BY <1>2, <2>3, <2>5, <2>6
<1> QED
  BY <1>3, <1>4, <1>5 DEF Billed

LEMMA NumbersText ==
  ASSUME CallsTypeOK, Queues, Controls, Flags, Streamed, pc = "stream", pc' = pc, PostText
  PROVE  Streamed'
<1>1. PICK heard \in Heard :
         /\ PostChunk(heard, batch.vis)
         /\ IF heard = "relayed" THEN emitted' = emitted + batch.tokens /\ seq' = seq + 1 /\ relay' = "loop"
            ELSE emitted' = emitted + Counted(batch) /\ relay' = "settle" /\ UNCHANGED seq
         /\ Fated(IF heard = "relayed" THEN "relayed" ELSE IF accepted' # accepted THEN "unheard" ELSE "undelivered")
  BY DEF PostText
<1>2. relay = "text" /\ relay \in Posting /\ batch.vis \in BOOLEAN /\ AllCounted
  BY DEF PostText, Posting, Queues, QueueTypes, Batches, Streamed, Numbers
<1>3. seq' = (IF heard = "relayed" THEN seq + 1 ELSE seq) /\ relay' \in IF heard = "relayed" THEN Posting ELSE {"settle"}
  BY <1>1 DEF Posting
<1>4. ASSUME heard = "relayed" PROVE AllCounted' /\ Billed'
  <2>1. "relayed" \in Hows \ {"undelivered"} /\ Fated("relayed") /\ emitted' = emitted + batch.tokens
    BY <1>1, <1>4 DEF Hows
  <2> QED
    BY <1>2, <2>1, CountedAll
<1>5. ASSUME heard # "relayed" PROVE Billed'
  <2>1. PICK how \in {"unheard", "undelivered"} : Fated(how)
    BY <1>1, <1>5
  <2>2. emitted' = emitted + Counted(batch)
    BY <1>1, <1>5
  <2> QED
    BY <1>2, <2>1, <2>2, CountedLead
<1> QED
  BY <1>1, <1>2, <1>3, <1>4, <1>5, NumbersChunk

LEMMA NumbersSwallowed ==
  ASSUME CallsTypeOK, Queues, Streamed, pc' = pc, SwallowedText
  PROVE  Streamed'
<1>1. /\ relay = "text" /\ relay' = "loop" /\ UNCHANGED <<seq, sealed, callVars>>
      /\ emitted' = emitted + batch.tokens /\ Fated("swallowed")
  BY DEF SwallowedText
<1>2. /\ seq = nAccepted /\ AllCounted
      /\ \A i \in DOMAIN accepted : accepted[i].post = "chunk"
      /\ \A s \in sealed : s.seq < seq /\ s.final = FALSE
  BY <1>1 DEF Streamed, Numbers, Posting, Sending
<1>3. "swallowed" \in Hows \ {"undelivered"}
  BY DEF Hows
<1>4. AllCounted' /\ Billed'
  BY <1>1, <1>2, <1>3, CountedAll
<1>5. accepted' = accepted /\ lost' = lost /\ nAccepted' = nAccepted
  BY <1>1 DEF callVars, nAccepted
<1>6. \A i \in DOMAIN accepted' : accepted'[i].post = "chunk" /\ ~Settlement(i)'
  BY <1>2, <1>5 DEF Settlement
<1>7. Numbers'
  <2>1. \A i \in DOMAIN accepted' : accepted'[i].post = "chunk" /\ pc' = "stream"
    BY <1>2, <1>5 DEF Streamed, Numbers
  <2>2. relay' # "settle" /\ relay' \in Posting
    BY <1>1 DEF Posting
  <2> QED
    BY <1>1, <1>2, <1>4, <1>5, <1>6, <2>1, <2>2 DEF Numbers
<1>8. StreamAccounts'
  <2>1. \A s, t \in sealed' : s.seq = t.seq /\ s.final = t.final => s = t
    BY <1>1 DEF Streamed, StreamAccounts
  <2>2. \A i \in DOMAIN accepted' : accepted'[i].post = "chunk" /\ accepted'[i].seq = i - 1
    BY <1>2, <1>5 DEF Streamed, StreamAccounts
  <2> QED
    BY <1>6, <2>1, <2>2, Zenon DEF StreamAccounts
<1> QED
  BY <1>7, <1>8 DEF Streamed

(* A report that is neither chunk nor last chunk ends the relay.           *)
LEMMA NumbersReported ==
  ASSUME CallsTypeOK, Streamed, pc' = pc, UNCHANGED <<sealed, emitted, fate>>,
         relay' \notin Sending, NEW p \in Reports, p.post \notin {"chunk", "final"}, Request(p)
  PROVE  Streamed'
<1>1. accepted' = accepted \/ accepted' = Append(accepted, p)
  BY DEF Request, Taken, NotTaken, AnswerLost
<1>2. lost => lost'
  BY Zenon DEF Request, Taken, NotTaken, AnswerLost
<1>3. ASSUME NEW i \in DOMAIN accepted', accepted'[i].post \in {"chunk", "final"}
      PROVE  i \in DOMAIN accepted /\ accepted'[i] = accepted[i]
  <2>1. CASE accepted' = accepted
    BY <2>1
  <2>2. CASE accepted' = Append(accepted, p)
    BY <1>3, <2>2, Taking
  <2> QED
    BY <1>1, <2>1, <2>2
<1>6. Billed'
  BY DEF Streamed, Numbers, Billed, nFate
<1>4. StreamAccounts'
  <2>1. \A s, t \in sealed' : s.seq = t.seq /\ s.final = t.final => s = t
    BY DEF Streamed, StreamAccounts
  <2>2. ASSUME NEW i \in DOMAIN accepted', accepted'[i].post \in {"chunk", "final"}
        PROVE  accepted'[i].seq = i - 1 \/ (accepted'[i].post = "final" /\ lost' /\ accepted'[i].seq = i - 2)
    <3>1. i \in DOMAIN accepted /\ accepted'[i] = accepted[i]
      BY <1>3, <2>2
    <3>2. accepted[i].seq = i - 1 \/ (accepted[i].post = "final" /\ lost /\ accepted[i].seq = i - 2)
      BY <2>2, <3>1 DEF Streamed, StreamAccounts
    <3> QED
      BY <1>2, <3>1, <3>2, Zenon
  <2>3. ASSUME NEW i \in DOMAIN accepted', accepted'[i].post = "final", accepted'[i].partial
        PROVE  accepted'[i].bill = emitted'
    BY <1>3, <2>3 DEF Streamed, Numbers, Settlement
  <2> QED
    BY <1>6, <2>1, <2>2, <2>3, AccountsFromBill
<1>5. Numbers'
  <2>1. relay' \notin Posting /\ relay' # "settle"
    BY DEF Sending, Posting
  <2>2. ASSUME NEW i \in DOMAIN accepted' PROVE Settlement(i)' => accepted'[i].bill = emitted'
    BY <1>3 DEF Streamed, Numbers, Settlement
  <2>3. ASSUME NEW i \in DOMAIN accepted' PROVE accepted'[i].post \in {"chunk", "final"} => pc' = "stream"
    BY <1>3 DEF Streamed, Numbers
  <2> QED
    BY <1>6, <2>1, <2>2, <2>3 DEF Numbers
<1> QED
  BY <1>4, <1>5 DEF Streamed

LEMMA StreamedRelaying ==
  ASSUME Frame, Streamed, Stream
  PROVE  Streamed'
<1>1. /\ CallsTypeOK /\ Queues /\ Controls /\ Flags
      /\ pc = "stream" /\ pc' = pc /\ Relaying(job.homura, job.expects)
  BY RelayTypes DEF Frame, TypeOK, Stream, jobVars
<1>2. TRUE \in BOOLEAN /\ FALSE \in BOOLEAN
  OBVIOUS
<1>3. ASSUME relay \in Posting, NEW heard \in Heard, NEW shows \in BOOLEAN, PostChunk(heard, shows), Onward(heard),
             UNCHANGED <<emitted, fate>>
      PROVE  Streamed'
  <2>1. AllCounted /\ Billed
    BY <1>3 DEF Streamed, Numbers
  <2>2. AllCounted' /\ Billed'
    BY <1>3, <2>1 DEF AllCounted, Billed, nFate
  <2>5. seq' = (IF heard = "relayed" THEN seq + 1 ELSE seq) /\ relay' \in IF heard = "relayed" THEN Posting ELSE {"settle"}
    BY <1>3 DEF Onward
  <2> QED
    BY <1>1, <1>3, <2>2, <2>5, NumbersChunk
<1>4. CASE RelayCall
  <2>1. relay \in Posting /\ UNCHANGED <<emitted, fate>>
    BY <1>4 DEF RelayCall, Posting
  <2>2. PICK heard \in Heard : PostChunk(heard, TRUE) /\ Onward(heard)
    BY <1>4 DEF RelayCall
  <2> QED
    BY <1>2, <1>3, <2>1, <2>2
<1>5. CASE PostTail
  <2>1. relay \in Posting /\ UNCHANGED <<emitted, fate>>
    BY <1>5 DEF PostTail, Posting
  <2>2. CASE UNCHANGED <<visible, relay, seq, sealed, callVars>>
    BY <1>1, <2>1, <2>2, NumbersKept
  <2>3. CASE \E heard \in Heard, shows \in BOOLEAN : PostChunk(heard, shows) /\ Onward(heard)
    <3>1. PICK heard \in Heard : \E shows \in BOOLEAN : PostChunk(heard, shows) /\ Onward(heard)
      BY <2>3
    <3>2. PICK shows \in BOOLEAN : PostChunk(heard, shows) /\ Onward(heard)
      BY <3>1
    <3> QED
      BY <1>3, <2>1, <3>2
  <2> QED
    BY <1>5, <2>2, <2>3 DEF PostTail
<1>6. CASE PostText
  BY <1>1, <1>6, NumbersText
<1>7. CASE SwallowedText
  BY <1>1, <1>7, NumbersSwallowed
<1>8. CASE FirstText(job.homura) \/ MoreText(job.homura) \/ MergeEnds \/ RelayDone(job.homura)
           \/ BlankDone(job.expects) \/ EndOfStream
  <2>1. /\ UNCHANGED <<seq, sealed, emitted, fate, callVars>>
        /\ relay \in Posting /\ relay' \in Posting \cup {"broken"}
    BY <1>8 DEF FirstText, MoreText, Merge, MergeEnds, RelayDone, BlankDone, EndOfStream, Posting
  <2> QED
    BY <1>1, <2>1, NumbersKept
<1>9. CASE PostFinal(job.expects)
  <2>1. /\ Seal(TRUE) /\ Request(Final(seq, 0, FALSE)) /\ UNCHANGED <<emitted, fate>>
        /\ relay = "final" /\ relay' \in {"over", "broken"}
    BY <1>9 DEF PostFinal, Request
  <2>2. 0 \in Nat
    OBVIOUS
  <2> QED
    BY <1>1, <1>2, <2>1, <2>2, NumbersFinal
<1>10. CASE Settle
  <2>1. /\ Seal(TRUE) /\ Request(Final(seq, emitted, TRUE)) /\ UNCHANGED <<emitted, fate>>
        /\ relay = "settle" /\ relay' \in {"over", "broken"}
    BY <1>10 DEF Settle, Request
  <2>2. emitted \in Nat
    BY <1>1, Sizes
  <2> QED
    BY <1>1, <1>2, <2>1, <2>2, NumbersFinal
<1>11. CASE ReportBroken \/ ReportFailed
  <2>1. /\ UNCHANGED <<sealed, emitted, fate>> /\ relay' \notin Sending
        /\ Request(StreamError) \/ Request(Fails)
    BY <1>11 DEF ReportBroken, ReportFailed, Request, Sending, Posting
  <2>2. /\ StreamError.post \notin {"chunk", "final"} /\ Fails.post \notin {"chunk", "final"}
        /\ StreamError \in Reports /\ Fails \in Reports
    BY ReportTypes DEF StreamError, Fails
  <2> QED
    BY <1>1, <2>1, <2>2, NumbersReported
<1> QED
  BY <1>1, <1>4, <1>5, <1>6, <1>7, <1>8, <1>9, <1>10, <1>11 DEF Relaying

LEMMA StreamedInit == Init => Streamed
<1> SUFFICES ASSUME Init PROVE Streamed
  OBVIOUS
<1>1. accepted = <<>> /\ sealed = {} /\ relay = "idle" /\ emitted = 0 /\ fate = <<>>
  BY DEF Init, RelayInit, CallsInit
<1>2. \A i \in DOMAIN accepted : FALSE
  BY <1>1
<1>3. relay \notin Sending /\ relay \notin Posting /\ relay # "settle"
  BY <1>1 DEF Sending, Posting
<1>4. Billed
  BY <1>1, EmptySeq DEF Billed, nFate
<1> QED
  BY <1>1, <1>2, <1>3, <1>4 DEF Streamed, Numbers, StreamAccounts

LEMMA StreamedStep ==
  ASSUME Frame, Streamed, Outcomes, [Next]_vars
  PROVE  Streamed'
<1>1. CallsTypeOK /\ Queues /\ Controls /\ Lanes
  BY RelayTypes DEF Frame, TypeOK
<1>2. CASE UNCHANGED <<pc, relayVars, callVars>>
  BY <1>1, <1>2, NumbersKept DEF relayVars
<1>3. CASE Stream
  BY <1>3, StreamedRelaying
<1>4. CASE Engine \/ EngineEnds
  <2>1. pc' = pc /\ UNCHANGED <<relay, seq, sealed, emitted, fate, callVars>>
    BY <1>4 DEF Engine, EngineEnds, Generate, Produce, GiveUp, jobVars
  <2> QED
    BY <2>1, NumbersKept
<1>5. CASE Ask /\ Streams
  <2>1. pc = "received" /\ accepted = <<>> /\ relay = "idle" /\ Untouched /\ accepted' = <<>>
    BY <1>1, <1>5 DEF Ask, Outcomes, Lanes, callVars
  <2>2. /\ relay' = "loop" /\ seq' = 0 /\ emitted' = 0 /\ sealed' = {} /\ fate' = <<>>
    BY <1>5, <2>1 DEF Ask, StartRelay, Untouched
  <2>3. nAccepted' = 0 /\ nFate' = 0 /\ (\A i \in DOMAIN accepted' : FALSE) /\ (\A n \in DOMAIN fate' : FALSE)
    BY <2>1, <2>2 DEF nAccepted, nFate
  <2>4. relay' # "settle" /\ AllCounted' /\ Billed'
    BY <2>2, <2>3 DEF AllCounted, Billed
  <2> QED
    BY <2>2, <2>3, <2>4 DEF Streamed, Numbers, StreamAccounts
<1>6. ASSUME pc # "stream", relay' = relay, UNCHANGED <<sealed, emitted, fate>>,
             UNCHANGED callVars \/ Request(Fails)
             \/ \E form \in Forms, b \in Nat, s \in BOOLEAN : Request(Complete(form, b, s))
      PROVE  Streamed'
  <2>1. Fails.post \notin {"chunk", "final"} /\ Fails \in Reports
    BY ReportTypes DEF Fails
  <2>2. \A form \in Forms, b \in Nat, s \in BOOLEAN :
           Complete(form, b, s).post \notin {"chunk", "final"} /\ Complete(form, b, s) \in Reports
    BY ReportTypes DEF Complete
  <2>3. UNCHANGED callVars \/ \E p \in Reports : p.post \notin {"chunk", "final"} /\ Request(p)
    BY <1>6, <2>1, <2>2
  <2> QED
    BY <1>1, <1>6, <2>3, NumbersElsewhere
<1>7. CASE Refuse \/ SealFails \/ (Ask /\ ~Streams) \/ Serve
  <2>1. pc # "stream" /\ UNCHANGED <<relay, sealed, emitted, fate, callVars>>
    BY <1>7 DEF Refuse, SealFails, Ask, Serve, Infer, Elsewhere, relayVars
  <2> QED
    BY <1>6, <2>1
<1>8. CASE Finish
  <2>1. job.env \in Forms
    BY <1>8, Enveloped DEF Finish, Frame, TypeOK, Lanes, Accepted, Opens, Envelopes, Forms
  <2>2. Request(Complete(job.env, 0, result = "shown")) /\ pc # "stream" /\ UNCHANGED <<relay, sealed, emitted, fate>>
    BY <1>8 DEF Finish, Report, Request, relayVars
  <2>3. 0 \in Nat /\ (result = "shown") \in BOOLEAN
    OBVIOUS
  <2> QED
    BY <1>6, <2>1, <2>2, <2>3
<1>9. CASE Fail
  <2>1. Request(Fails) /\ pc # "stream" /\ UNCHANGED <<relay, sealed, emitted, fate>>
    BY <1>9 DEF Fail, Report, Request, relayVars
  <2> QED
    BY <1>6, <2>1
<1>10. CASE Image
  <2>1. pc # "stream" /\ UNCHANGED <<relay, sealed, emitted, fate>>
    BY <1>10 DEF Image, relayVars
  <2>2. UNCHANGED callVars \/ Request(Complete("v2", body', TRUE))
    BY <1>10 DEF Image, PostImage, OutOfTime, Request
  <2>3. body' \in Nat /\ "v2" \in Forms /\ TRUE \in BOOLEAN
    <3>1. ImageTypeOK'
      BY FrameStep DEF Frame, TypeOK
    <3> QED
      BY <3>1 DEF ImageTypeOK, Forms
  <2> QED
    BY <1>6, <2>1, <2>2, <2>3
<1>11. CASE UNCHANGED vars
  BY <1>2, <1>11 DEF vars, jobVars
<1> QED
  BY <1>3, <1>4, <1>5, <1>7, <1>8, <1>9, <1>10, <1>11 DEF Next, ProcessJob

-----------------------------------------------------------------------------
-----------------------------------------------------------------------------
(* Outcomes, one report after the other.                                   *)
Ruled == Outcomes /\ OneOutcome

LEMMA OutcomeKept ==
  ASSUME OneOutcome, job' = job, UNCHANGED callVars, pc = "stream" => pc' = "stream"
  PROVE  OneOutcome'
BY DEF OneOutcome, callVars, Settles, Failing

(* A report that may follow all that were taken.                           *)
LEMMA OutcomeTaken ==
  ASSUME CallsTypeOK, OneOutcome, job' = job, pc = "stream" => pc' = "stream",
         NEW p \in Reports, Request(p),
         \A i \in DOMAIN accepted :
           /\ Settles(accepted[i]) =>
                (job.type = "image" /\ p = accepted[i]) \/ (pc' = "stream" /\ lost' /\ Failing(p))
           /\ Failing(accepted[i]) => Failing(p)
  PROVE  OneOutcome'
<1>1. (accepted' = accepted \/ accepted' = Append(accepted, p)) /\ (lost => lost')
  BY OneRequest
<1>2. DOMAIN accepted = 1 .. nAccepted /\ nAccepted \in Nat
  BY Domain
<1>3. SUFFICES ASSUME NEW i \in DOMAIN accepted', NEW j \in DOMAIN accepted', i < j
      PROVE  /\ Settles(accepted'[i]) =>
                  (job.type = "image" /\ accepted'[j] = accepted'[i]) \/ (pc' = "stream" /\ lost' /\ Failing(accepted'[j]))
             /\ Failing(accepted'[i]) => Failing(accepted'[j])
  BY Zenon DEF OneOutcome, Settles, Failing
<1>4. CASE i \in DOMAIN accepted /\ j \in DOMAIN accepted /\ accepted'[i] = accepted[i] /\ accepted'[j] = accepted[j]
  <2>1. /\ Settles(accepted[i]) =>
             (job.type = "image" /\ accepted[j] = accepted[i]) \/ (pc = "stream" /\ lost /\ Failing(accepted[j]))
        /\ Failing(accepted[i]) => Failing(accepted[j])
    BY <1>3, <1>4 DEF OneOutcome
  <2> QED
    BY <1>1, <1>4, <2>1, Zenon
<1>5. CASE i \in DOMAIN accepted /\ accepted'[i] = accepted[i] /\ accepted'[j] = p
  BY <1>5, Zenon
<1>6. CASE accepted' = Append(accepted, p)
  <2>1. j \in DOMAIN accepted \/ j = nAccepted + 1
    BY <1>6, Taking
  <2>2. i \in DOMAIN accepted
    <3>1. \A m \in 1 .. nAccepted + 1 : i < m => i # nAccepted + 1
      BY <1>2
    <3>2. j \in 1 .. nAccepted + 1
      BY <1>6, Taking
    <3> QED
      BY <1>3, <1>6, <3>1, <3>2, Taking
  <2> QED
    BY <1>4, <1>5, <1>6, <2>1, <2>2, Taking
<1> QED
  BY <1>1, <1>3, <1>4, <1>6

LEMMA RuledInit == Init => Ruled
<1> SUFFICES ASSUME Init PROVE Ruled
  OBVIOUS
<1>1. accepted = <<>> /\ relay = "idle" /\ pc = "received"
  BY DEF Init, RelayInit, CallsInit
<1>2. \A i \in DOMAIN accepted : FALSE
  BY <1>1
<1> QED
  BY <1>1, <1>2 DEF Ruled, Outcomes, OneOutcome

LEMMA RuledRelaying ==
  ASSUME Frame, Streamed, Ruled, Stream
  PROVE  Ruled'
<1>1. /\ CallsTypeOK /\ Controls /\ Flags /\ Queues /\ pc = "stream" /\ pc' = pc /\ job' = job
      /\ Relaying(job.homura, job.expects)
  BY RelayTypes DEF Frame, TypeOK, Stream, jobVars
<1>2. relay \in Sending => \A i \in DOMAIN accepted :
        accepted[i].post = "chunk" /\ ~Settles(accepted[i]) /\ ~Failing(accepted[i])
  BY DEF Streamed, Numbers, Settles, Failing
<1>3. ASSUME NEW p \in Reports, Request(p), relay \in Sending PROVE OneOutcome'
  BY <1>1, <1>2, <1>3, OutcomeTaken DEF Ruled
<1>4. ASSUME OneOutcome', relay' \notin {"broken", "reported"} PROVE Ruled'
  BY <1>1, <1>4 DEF Ruled, Outcomes
<1>5. CASE RelayCall \/ PostText \/ (PostTail /\ ~UNCHANGED callVars)
  <2>1. /\ relay \in Sending /\ relay' \notin {"broken", "reported"}
        /\ \E heard \in Heard, shows \in BOOLEAN : PostChunk(heard, shows)
    <3>1. batch.vis \in BOOLEAN /\ TRUE \in BOOLEAN
      BY <1>1 DEF Queues, QueueTypes, Batches
    <3> QED
      BY <1>5, <3>1 DEF RelayCall, PostText, PostTail, Onward, Sending, Posting
  <2>2. UNCHANGED callVars \/ \E p \in Reports : Request(p)
    BY <1>1, <2>1, ChunkRequest
  <2>3. OneOutcome'
    BY <1>1, <1>3, <2>1, <2>2, OutcomeKept DEF Ruled
  <2> QED
    BY <1>4, <2>1, <2>3
<1>6. CASE EndOfStream \/ BlankDone(job.expects)
  <2>1. UNCHANGED callVars /\ relay \in Sending /\ relay' \in {"broken", "final"}
    BY <1>6 DEF EndOfStream, BlankDone, Sending, Posting
  <2>2. OneOutcome'
    BY <1>1, <2>1, OutcomeKept DEF Ruled
  <2>3. \A i \in DOMAIN accepted' : accepted'[i].post = "chunk"
    BY <1>2, <2>1 DEF callVars
  <2> QED
    BY <1>1, <2>1, <2>2, <2>3 DEF Ruled, Outcomes
<1>7. CASE PostFinal(job.expects)
  <2> DEFINE p == Final(seq, 0, FALSE)
  <2>1. p \in Reports /\ p.post = "final"
    BY <1>1, ReportTypes, Sizes DEF Controls, Final
  <2>2. relay \in Sending /\ Request(p) /\ relay' \in {"over", "broken"}
        /\ (relay' = "broken" => NotTaken \/ AnswerLost(p))
    BY <1>7 DEF PostFinal, Request, Sending, Posting
  <2> HIDE DEF p
  <2>3. OneOutcome'
    BY <1>3, <2>1, <2>2
  <2>4. ASSUME relay' = "broken", NEW i \in DOMAIN accepted'
        PROVE  accepted'[i].post = "chunk" \/ (accepted'[i].post = "final" /\ lost' /\ i = nAccepted')
    <3>1. CASE accepted' = accepted
      BY <1>2, <2>2, <3>1
    <3>2. CASE accepted' = Append(accepted, p) /\ lost' = TRUE
      <4>1. i \in DOMAIN accepted => accepted'[i] = accepted[i]
        BY <1>1, <2>1, <3>2, Taking
      <4>2. i \in DOMAIN accepted \/ (i = nAccepted' /\ accepted'[i] = p)
        BY <1>1, <2>1, <3>2, Taking
      <4> QED
        BY <1>2, <2>1, <2>2, <3>2, <4>1, <4>2
    <3> QED
      BY <2>2, <2>4, <3>1, <3>2 DEF NotTaken, AnswerLost
  <2> QED
    BY <1>1, <2>2, <2>3, <2>4 DEF Ruled, Outcomes
<1>8. CASE Settle
  <2>1. Final(seq, emitted, TRUE) \in Reports
    BY <1>1, ReportTypes, Sizes DEF Controls
  <2>2. Request(Final(seq, emitted, TRUE)) /\ relay \in Sending /\ relay' = "over"
    BY <1>8 DEF Settle, Request, Sending
  <2> QED
    BY <1>3, <1>4, <2>1, <2>2
<1>9. CASE ReportBroken
  <2>1. StreamError \in Reports /\ Failing(StreamError) /\ ~Settles(StreamError)
    BY ReportTypes DEF StreamError, Failing, Settles
  <2>2. relay = "broken" /\ Request(StreamError) /\ relay' \in {"over", "reported"}
    BY <1>9 DEF ReportBroken, Request
  <2>3. \A i \in DOMAIN accepted : Settles(accepted[i]) => lost
    BY <2>2 DEF Ruled, Outcomes, Settles
  <2>4. (accepted' = accepted \/ accepted' = Append(accepted, StreamError)) /\ (lost => lost')
    BY <1>1, <2>1, <2>2, OneRequest
  <2>5. OneOutcome'
    <3>1. \A i \in DOMAIN accepted : Settles(accepted[i]) => lost' /\ pc' = "stream"
      BY <1>1, <2>3, <2>4, Zenon
    <3> QED
      BY <1>1, <2>1, <2>2, <3>1, OutcomeTaken DEF Ruled
  <2>6. ASSUME NEW i \in DOMAIN accepted', Settles(accepted'[i]) PROVE lost'
    <3>1. i \in DOMAIN accepted /\ accepted'[i] = accepted[i]
      <4>1. CASE accepted' = accepted
        BY <4>1
      <4>2. CASE accepted' = Append(accepted, StreamError)
        BY <1>1, <2>1, <2>6, <4>2, Taking
      <4> QED
        BY <2>4, <4>1, <4>2
    <3>2. Settles(accepted[i])
      BY <2>6, <3>1, Zenon
    <3> QED
      BY <2>3, <2>4, <3>1, <3>2, Zenon
  <2> QED
    BY <1>1, <2>2, <2>5, <2>6, Zenon DEF Ruled, Outcomes, Settles
<1>10. CASE ReportFailed
  <2>1. Fails \in Reports /\ Failing(Fails)
    BY ReportTypes DEF Fails, Failing
  <2>2. relay = "reported" /\ Request(Fails) /\ relay' = "over"
    BY <1>10 DEF ReportFailed, Request
  <2>3. lost => lost'
    BY <1>1, <2>1, <2>2, OneRequest
  <2>4. \A i \in DOMAIN accepted : Settles(accepted[i]) => lost' /\ pc' = "stream"
    BY <1>1, <2>2, <2>3, Zenon DEF Ruled, Outcomes
  <2>5. OneOutcome'
    BY <1>1, <2>1, <2>2, <2>4, OutcomeTaken DEF Ruled
  <2> QED
    BY <1>4, <2>2, <2>5
<1>11. CASE FirstText(job.homura) \/ MoreText(job.homura) \/ MergeEnds \/ SwallowedText \/ RelayDone(job.homura)
            \/ (PostTail /\ UNCHANGED callVars)
  <2>1. UNCHANGED callVars /\ relay' \notin {"broken", "reported"}
    BY <1>11 DEF FirstText, MoreText, Merge, MergeEnds, SwallowedText, RelayDone, PostTail, Onward
  <2>2. OneOutcome'
    BY <1>1, <2>1, OutcomeKept DEF Ruled
  <2> QED
    BY <1>4, <2>1, <2>2
<1> QED
  BY <1>1, <1>5, <1>6, <1>7, <1>8, <1>9, <1>10, <1>11 DEF Relaying

LEMMA RuledStep ==
  ASSUME Frame, Streamed, Ruled, [Next]_vars
  PROVE  Ruled'
<1>1. CallsTypeOK /\ Lanes /\ job' = job /\ OneOutcome /\ Outcomes
  BY JobStep DEF Frame, TypeOK, Ruled
<1>2. CASE Stream
  BY <1>2, RuledRelaying
<1>3. ASSUME UNCHANGED callVars, relay' \notin {"broken", "reported"}, pc = "stream" => pc' = "stream",
             pc' \in {"received", "serving", "reply", "fail", "image"} => accepted = <<>>, pc' # "upload"
      PROVE  Ruled'
  BY <1>1, <1>3, OutcomeKept DEF Ruled, Outcomes, callVars
<1>4. pc # "stream" => relay = "idle"
  BY <1>1 DEF Lanes
<1>5. CASE Engine \/ EngineEnds
  <2>1. UNCHANGED <<relay, callVars, pc>> /\ pc = "stream"
    BY <1>5 DEF Engine, EngineEnds, Generate, Produce, GiveUp, jobVars
  <2>2. nAccepted' = nAccepted
    BY <2>1 DEF callVars, nAccepted
  <2>3. OneOutcome'
    BY <1>1, <2>1, OutcomeKept
  <2> QED
    BY <1>1, <2>1, <2>2, <2>3 DEF Ruled, Outcomes, Settles, callVars
<1>6. CASE Refuse \/ Ask \/ Serve \/ SealFails
  <2>1. /\ UNCHANGED callVars /\ pc \in {"received", "serving", "reply"} /\ relay' \in {relay, "loop"}
        /\ pc' \in {"fail", "stream", "image", "serving", "reply"}
    BY <1>6 DEF Refuse, ReportsFailed, Ask, StartRelay, Serve, Infer, SealFails, Elsewhere, relayVars
  <2>2. accepted = <<>>
    BY <1>1, <2>1 DEF Outcomes
  <2> QED
    BY <1>3, <1>4, <2>1, <2>2
<1>7. ASSUME accepted = <<>>, NEW p \in Reports, Request(p), pc' = "over", pc # "stream", relay' = relay PROVE Ruled'
  <2>1. \A i \in DOMAIN accepted : FALSE
    BY <1>7
  <2>2. OneOutcome'
    BY <1>1, <1>7, <2>1, OutcomeTaken
  <2> QED
    BY <1>4, <1>7, <2>2 DEF Ruled, Outcomes
<1>8. CASE Finish
  <2>1. job.env \in Forms
    BY <1>8, Enveloped DEF Finish, Frame, TypeOK, Lanes, Accepted, Opens, Envelopes, Forms
  <2>2. Request(Complete(job.env, 0, result = "shown")) /\ pc = "reply" /\ pc' = "over" /\ relay' = relay
    BY <1>8 DEF Finish, Report, Request, relayVars
  <2>3. Complete(job.env, 0, result = "shown") \in Reports
    BY <2>1, ReportTypes
  <2>4. accepted = <<>>
    BY <1>1, <2>2 DEF Outcomes
  <2> QED
    BY <1>7, <2>2, <2>3, <2>4
<1>9. CASE Fail
  <2>1. Request(Fails) /\ pc = "fail" /\ pc' = "over" /\ relay' = relay
    BY <1>9 DEF Fail, Report, Request, relayVars
  <2>2. accepted = <<>>
    BY <1>1, <2>1 DEF Outcomes
  <2> QED
    BY <1>7, <2>1, <2>2, ReportTypes
<1>10. CASE Image
  <2>1. relay' = relay /\ relay = "idle" /\ pc \in {"image", "upload"} /\ job.type = "image"
    BY <1>1, <1>4, <1>10 DEF Image, relayVars, Lanes
  <2>2. CASE pc = "image"
    <3>1. PICK done \in BOOLEAN : GenerateImage(done) /\ pc' = IF done THEN "upload" ELSE "fail"
      BY <1>10, <2>2 DEF Image
    <3>2. accepted = <<>> /\ UNCHANGED callVars
      BY <1>1, <1>10, <2>2 DEF Image, Outcomes
    <3>3. pc' = "upload" => body' = 1
      BY <3>1 DEF GenerateImage
    <3>4. pc' \in {"upload", "fail"}
      BY <3>1
    <3>5. accepted' = <<>> /\ \A i \in DOMAIN accepted' : FALSE
      BY <3>2 DEF callVars
    <3>6. OneOutcome'
      BY <1>1, <2>2, <3>2, OutcomeKept
    <3> QED
      BY <2>1, <3>3, <3>4, <3>5, <3>6 DEF Ruled, Outcomes
  <2>3. CASE pc = "upload" /\ OutOfTime
    <3>1. UNCHANGED callVars /\ pc' \in {"over", "upload"} /\ body' = body
      BY <1>10, <2>3 DEF Image, OutOfTime, imageVars, PostImage, SealedOnce
    <3>2. OneOutcome'
      BY <1>1, <2>3, <3>1, OutcomeKept
    <3> QED
      BY <1>1, <2>1, <2>3, <3>1, <3>2 DEF Ruled, Outcomes, callVars
  <2>4. CASE pc = "upload" /\ \E over \in BOOLEAN : PostImage(over) /\ pc' = IF over THEN "over" ELSE "upload"
    <3> DEFINE p == Complete("v2", 1, TRUE)
    <3>1. body = 1 /\ \A i \in DOMAIN accepted : accepted[i] = p
      BY <1>1, <2>4 DEF Outcomes
    <3>2. body' = 1 /\ Request(p) /\ pc' \in {"over", "upload"}
      BY <2>4, <3>1 DEF PostImage, SealedOnce, Request
    <3>3. p \in Reports /\ ~Failing(p)
      BY ReportTypes DEF Forms, Failing, Complete
    <3> HIDE DEF p
    <3>4. OneOutcome'
      BY <1>1, <2>1, <2>4, <3>1, <3>2, <3>3, OutcomeTaken
    <3>5. \A i \in DOMAIN accepted' : accepted'[i] = p
      <4>1. CASE accepted' = accepted
        BY <3>1, <4>1
      <4>2. CASE accepted' = Append(accepted, p)
        BY <1>1, <3>1, <3>3, <4>2, Taking
      <4> QED
        BY <1>1, <3>2, <3>3, <4>1, <4>2, OneRequest
    <3> QED
      BY <2>1, <3>2, <3>4, <3>5 DEF Ruled, Outcomes, p
  <2> QED
    BY <1>10, <2>1, <2>2, <2>3, <2>4 DEF Image
<1>11. CASE UNCHANGED vars
  <2>1. UNCHANGED <<relay, callVars, pc, body>>
    BY <1>11 DEF vars, jobVars, relayVars, imageVars
  <2>2. nAccepted' = nAccepted /\ OneOutcome'
    BY <1>1, <2>1, OutcomeKept DEF callVars, nAccepted
  <2> QED
    BY <1>1, <2>1, <2>2 DEF Ruled, Outcomes, Settles, callVars
<1> QED
  BY <1>2, <1>5, <1>6, <1>8, <1>9, <1>10, <1>11 DEF Next, ProcessJob

(* Frame, Streamed and Ruled hold of every state that is reached.          *)
Outcome == Frame /\ Streamed /\ Ruled
LEMMA OutcomeHolds == Spec => []Outcome
<1>1. Init => Outcome
  BY FrameInit, StreamedInit, RuledInit DEF Outcome
<1>2. Outcome /\ [Next]_vars => Outcome'
  BY FrameStep, StreamedStep, RuledStep DEF Outcome, Ruled
<1> QED
  BY <1>1, <1>2, PTL DEF Spec

(* The chunks of a stream are numbered without a gap, the last may repeat  *)
(* a number only when the answer to a chunk was lost, and no two are sealed*)
(* alike; an interrupted stream is billed for every token that went on to  *)
(* the client, for none the engine did not send, and of the text that did  *)
(* not go on for one piece at most: what process_inference_stream keeps in *)
(* seq and emitted_tokens, and lead_tokens of a chunk of several pieces,   *)
(* however its requests go.                                                *)
THEOREM StreamAccounted == Spec => []StreamAccounts
<1>1. Outcome => StreamAccounts
  BY DEF Outcome, Streamed
<1> QED
  BY <1>1, OutcomeHolds, PTL

(* After an outcome was taken no other is: the paths of process_job report *)
(* once, the image's retries repeat one body, and only the loss of an      *)
(* answer lets an error follow a stream's last chunk.                      *)
THEOREM SingleOutcome == Spec => []OneOutcome
<1>1. Outcome => OneOutcome
  BY DEF Outcome, Ruled
<1> QED
  BY <1>1, OutcomeHolds, PTL

-----------------------------------------------------------------------------
(* What was made, and what is completed.                                   *)
Fit(p) == p.post = "complete" => p.form = job.env /\ Accepted /\ Servable /\ (job.type \in Media => made # NoOrder)

LEMMA FormedTaken ==
  ASSUME CallsTypeOK, Formed, job' = job, node' = node, made # NoOrder => made' # NoOrder,
         UNCHANGED callVars \/ \E p \in Reports : Fit(p) /\ Request(p)
  PROVE  Formed'
<1>1. Accepted' = Accepted /\ Servable' = Servable
  BY SameJob
<1>2. SUFFICES ASSUME NEW i \in DOMAIN accepted', accepted'[i].post = "complete"
      PROVE  accepted'[i].form = job.env /\ Accepted /\ Servable /\ (job.type \in Media => made # NoOrder)
  BY <1>1 DEF Formed
<1>3. CASE i \in DOMAIN accepted /\ accepted'[i] = accepted[i]
  BY <1>2, <1>3 DEF Formed
<1>4. CASE accepted' # accepted
  <2>1. PICK p \in Reports : Fit(p) /\ accepted' = Append(accepted, p)
    BY <1>4 DEF Request, Taken, NotTaken, AnswerLost, callVars
  <2>2. accepted'[i] = p => accepted'[i].form = job.env /\ Accepted /\ Servable /\ (job.type \in Media => made # NoOrder)
    BY <1>2, <2>1 DEF Fit
  <2> QED
    BY <1>3, <2>1, <2>2, Taking
<1> QED
  BY <1>3, <1>4

LEMMA FormedStep ==
  ASSUME Frame, Kept, Outcomes, [Next]_vars
  PROVE  Formed'
<1>1. /\ CallsTypeOK /\ Lanes /\ Controls /\ Queues /\ job' = job /\ node' = node /\ Formed /\ Making
      /\ made # NoOrder => made' # NoOrder
  BY JobStep, RelayTypes, MakesReserved DEF Frame, TypeOK, Kept
<1>2. ASSUME UNCHANGED callVars \/ Request(Fails) \/ Request(StreamError)
      PROVE  Formed'
  <2>1. /\ Fails \in Reports /\ Fails.post # "complete"
        /\ StreamError \in Reports /\ StreamError.post # "complete"
    BY ReportTypes DEF Fails, StreamError
  <2>2. Fit(Fails) /\ Fit(StreamError)
    BY <2>1 DEF Fit
  <2> QED
    BY <1>1, <1>2, <2>1, <2>2, FormedTaken
<1>3. ASSUME NEW heard \in Heard, NEW shows \in BOOLEAN, PostChunk(heard, shows)
      PROVE  Formed'
  <2>1. Chunk(seq, shows) \in Reports /\ Chunk(seq, shows).post # "complete"
    BY <1>1, ReportTypes DEF Controls, Chunk
  <2>2. UNCHANGED callVars \/ Request(Chunk(seq, shows))
    BY <1>3 DEF PostChunk, Request
  <2>3. Fit(Chunk(seq, shows))
    BY <2>1 DEF Fit
  <2> QED
    BY <1>1, <2>1, <2>2, <2>3, FormedTaken
<1>4. ASSUME NEW bill \in Nat, NEW partial \in BOOLEAN, Request(Final(seq, bill, partial))
      PROVE  Formed'
  <2>1. Final(seq, bill, partial) \in Reports /\ Final(seq, bill, partial).post # "complete"
    BY <1>1, ReportTypes DEF Controls, Final
  <2>2. Fit(Final(seq, bill, partial))
    BY <2>1 DEF Fit
  <2> QED
    BY <1>1, <1>4, <2>1, <2>2, FormedTaken
<1>5. ASSUME NEW form \in Forms, NEW b \in Nat, NEW shows \in BOOLEAN, form = job.env, pc \in {"reply", "upload"},
             Request(Complete(form, b, shows))
      PROVE  Formed'
  <2>1. Complete(form, b, shows) \in Reports /\ Complete(form, b, shows).form = form
    BY ReportTypes DEF Complete
  <2>2. Accepted /\ Servable /\ (job.type \in Media => made # NoOrder)
    BY <1>1, <1>5 DEF Lanes, Making
  <2>3. Fit(Complete(form, b, shows))
    BY <1>5, <2>1, <2>2 DEF Fit
  <2> QED
    BY <1>1, <1>5, <2>1, <2>3, FormedTaken
<1>6. /\ TRUE \in BOOLEAN /\ FALSE \in BOOLEAN /\ batch.vis \in BOOLEAN /\ (result = "shown") \in BOOLEAN
      /\ 0 \in Nat /\ emitted \in Nat
  BY <1>1 DEF Queues, QueueTypes, Batches
<1>7. CASE Stream
  <2>1. CASE RelayCall \/ PostText \/ PostTail
    BY <1>2, <1>3, <1>6, <2>1 DEF RelayCall, PostText, PostTail
  <2>2. CASE PostFinal(job.expects) \/ Settle
    BY <1>4, <1>6, <2>2 DEF PostFinal, Settle, Request
  <2>3. CASE \/ FirstText(job.homura) \/ MoreText(job.homura) \/ MergeEnds \/ SwallowedText
              \/ RelayDone(job.homura)
           \/ BlankDone(job.expects) \/ EndOfStream
    BY <1>2, <2>3 DEF FirstText, MoreText, Merge, MergeEnds, SwallowedText, RelayDone, BlankDone, EndOfStream
  <2>4. CASE ReportBroken \/ ReportFailed
    BY <1>2, <2>4 DEF ReportBroken, ReportFailed, Request
  <2> QED
    BY <1>7, <2>1, <2>2, <2>3, <2>4 DEF Stream, Relaying
<1>8. CASE Refuse \/ Ask \/ Serve \/ SealFails \/ Engine \/ EngineEnds \/ UNCHANGED vars
  BY <1>2, <1>8 DEF Refuse, Ask, Serve, SealFails, Elsewhere, Engine, EngineEnds, Generate, Produce, GiveUp, vars
<1>9. CASE Finish
  <2>1. job.env \in Forms
    BY <1>9, Enveloped DEF Finish, Frame, TypeOK, Lanes, Accepted, Opens, Envelopes, Forms
  <2>2. Request(Complete(job.env, 0, result = "shown")) /\ pc = "reply"
    BY <1>9 DEF Finish, Report, Request
  <2> QED
    BY <1>5, <1>6, <2>1, <2>2
<1>10. CASE Fail
  BY <1>2, <1>10 DEF Fail, Report, Request
<1>11. CASE Image
  <2>1. UNCHANGED callVars \/ (pc = "upload" /\ Request(Complete("v2", body', TRUE)))
    BY <1>11 DEF Image, PostImage, OutOfTime, Request
  <2>2. pc = "upload" => job.env = "v2"
    BY <1>1 DEF Lanes, Accepted, Media
  <2>3. body' \in Nat /\ "v2" \in Forms
    <3>1. ImageTypeOK'
      BY FrameStep DEF Frame, TypeOK
    <3> QED
      BY <3>1 DEF ImageTypeOK, Forms
  <2> QED
    BY <1>2, <1>5, <1>6, <2>1, <2>2, <2>3
<1> QED
  BY <1>7, <1>8, <1>9, <1>10, <1>11 DEF Next, ProcessJob

(* What is made is kept, and a medium is answered only when it was made.   *)
LEMMA MakingStep == ASSUME Frame, Making, [Next]_vars PROVE Making'
<1>1. TypeOK /\ Lanes /\ job' = job /\ node' = node /\ Accepted' = Accepted
  BY JobStep, SameJob DEF Frame
<1>2. \/ made' = made
      \/ Accepted /\ made' = job.binding /\ made' # NoOrder /\ made'.id = "own" /\ made'.model = job.model
  BY <1>1, MakesReserved
<1>3. made' # NoOrder => Accepted /\ made' = job.binding /\ made'.id = "own" /\ made'.model = job.model
  BY <1>2 DEF Making
<1>4. ASSUME pc' \in {"reply", "upload"}, job.type \in Media PROVE made' # NoOrder
  <2>1. ASSUME pc \in {"serving", "image"}, EngineTakes, Make PROVE made' # NoOrder
    <3>1. Accepted /\ Servable
      BY <1>1, <2>1 DEF Lanes
    <3> QED
      BY <1>1, <1>4, <2>1, <3>1, MadeAsReserved DEF TypeOK
  <2>2. CASE Serve
    <3>1. job.type \notin {"inference", "embedding", "systemone"} /\ pc' # "fail"
      BY <1>4 DEF Media
    <3>2. EngineTakes /\ Make /\ pc = "serving"
      BY <2>2, <3>1 DEF Serve
    <3> QED
      BY <2>1, <3>2
  <2>3. CASE Image
    <3>1. (made' = made /\ pc = "upload") \/ (EngineTakes /\ Make /\ pc = "image")
      BY <1>4, <2>3 DEF Image
    <3> QED
      BY <1>4, <2>1, <3>1 DEF Making
  <2>4. CASE Refuse \/ Ask \/ SealFails \/ Finish \/ Fail
    BY <1>4, <2>4 DEF Refuse, ReportsFailed, Ask, SealFails, Finish, Fail
  <2>5. CASE Stream \/ Engine \/ EngineEnds \/ UNCHANGED vars
    <3>1. pc' = pc /\ made' = made
      BY <2>5 DEF Stream, Engine, EngineEnds, vars, jobVars
    <3> QED
      BY <1>4, <3>1 DEF Making
  <2> QED
    BY <2>2, <2>3, <2>4, <2>5 DEF Next, ProcessJob
<1> QED
  BY <1>1, <1>3, <1>4 DEF Making

(* A medium that a worker made is what was reserved in clear, part by part,*)
(* though every lane of process_job compares other parts and one engine    *)
(* takes any model; and nothing is completed unmade, or in another envelope*)
(* than the request's.                                                     *)
THEOREM ReservationKept == Spec => []ServedAsReserved
<1>1. Init => Kept
  <2> SUFFICES ASSUME Init PROVE Kept
    OBVIOUS
  <2>1. accepted = <<>> /\ made = NoOrder /\ pc = "received"
    BY DEF Init, CallsInit
  <2> QED
    BY <2>1 DEF Kept, Making, Formed
<1>2. Outcome /\ Kept /\ [Next]_vars => Kept'
  BY FormedStep, MakingStep DEF Outcome, Ruled, Kept
<1>3. Outcome /\ Kept => ServedAsReserved
  <2> SUFFICES ASSUME Outcome, Kept PROVE ServedAsReserved
    OBVIOUS
  <2>1. TypeOK /\ Making /\ Formed
    BY DEF Outcome, Frame, Kept
  <2>2. made # NoOrder =>
          made = job.binding /\ made.id = "own" /\ made.model = job.model /\ job.env = "v2"
    BY <2>1 DEF TypeOK, Making, Accepted
  <2>3. ASSUME Accepted, Servable, job.type = "embedding", job.media
        PROVE  job.env = "v2" /\ job.tagged
    BY <2>3 DEF Accepted, Servable, Media, AgreedOnMedia
  <2>4. ASSUME NEW i \in DOMAIN accepted, accepted[i].post = "complete"
        PROVE  /\ accepted[i].form = job.env
               /\ job.type \in Media => made # NoOrder
               /\ job.type = "embedding" /\ job.media => job.env = "v2" /\ job.tagged
    <3>1. accepted[i].form = job.env /\ Accepted /\ Servable /\ (job.type \in Media => made # NoOrder)
      BY <2>1, <2>4 DEF Formed
    <3> QED
      BY <2>3, <3>1, Zenon
  <2> QED
    BY <2>2, <2>4, Zenon DEF ServedAsReserved
<1> QED
  BY <1>1, <1>2, <1>3, OutcomeHolds, PTL DEF Spec

-----------------------------------------------------------------------------
(* What the client saw, after one report more.                             *)
Shown(p) == p.post \in {"chunk", "complete"} /\ p.shows
Completes(p) == p.post = "complete" \/ (p.post = "final" /\ ~p.partial)

LEMMA Seen ==
  ASSUME CallsTypeOK, NEW p \in Reports, Request(p)
  PROVE  /\ Showed => Showed'
         /\ Showed' => Showed \/ Shown(p)
         /\ Whole => Whole'
         /\ Whole' => Whole \/ Completes(p)
         /\ Whole' /\ ~Whole /\ Shown(p) => Showed'
         /\ Taken(p) /\ Shown(p) => Showed'
<1>1. CASE accepted' = accepted
  <2>1. ~Taken(p)
    <3>1. Taken(p) => nAccepted' = nAccepted + 1 /\ nAccepted \in Nat
      BY Taking DEF Taken
    <3>2. nAccepted' = nAccepted
      BY <1>1 DEF nAccepted
    <3> QED
      BY <3>1, <3>2
  <2>2. (Showed' <=> Showed) /\ (Whole' <=> Whole)
    BY <1>1, Zenon DEF Showed, Whole
  <2> QED
    BY <2>1, <2>2, Zenon
<1>2. CASE accepted' = Append(accepted, p)
  <2>1. /\ \A i \in DOMAIN accepted : i \in DOMAIN accepted' /\ accepted'[i] = accepted[i]
        /\ \A i \in DOMAIN accepted' : i \in DOMAIN accepted \/ accepted'[i] = p
        /\ nAccepted + 1 \in DOMAIN accepted' /\ accepted'[nAccepted + 1] = p
    <3>1. nAccepted + 1 \in 1 .. nAccepted + 1
      BY Domain
    <3> QED
      BY <1>2, <3>1, Taking
  <2>2. (Showed => Showed') /\ (Whole => Whole')
    BY <2>1, Zenon DEF Showed, Whole
  <2>3. Showed' => Showed \/ Shown(p)
    BY <2>1, Zenon DEF Showed, Shown
  <2>4. Whole' => Whole \/ Completes(p)
    BY <2>1, Zenon DEF Whole, Completes
  <2>5. Shown(p) => Showed'
    BY <2>1, Zenon DEF Showed, Shown
  <2> QED
    BY <2>2, <2>3, <2>4, <2>5, Zenon
<1> QED
  BY <1>1, <1>2, OneRequest

LEMMA Unseen == UNCHANGED callVars => (Showed' <=> Showed) /\ (Whole' <=> Whole)
BY Zenon DEF callVars, Showed, Whole

(* A chunk shows what it is said to show, if it is taken.                  *)
LEMMA SeenChunk ==
  ASSUME CallsTypeOK, Controls, NEW heard \in Heard, NEW shows \in BOOLEAN, PostChunk(heard, shows)
  PROVE  /\ Showed => Showed'
         /\ Showed' => Showed \/ shows
         /\ Whole' <=> Whole
         /\ heard = "relayed" /\ shows => Showed'
<1> DEFINE p == Chunk(seq, shows)
<1>1. p \in Reports /\ (Shown(p) <=> shows) /\ ~Completes(p)
  <2>1. p \in Reports /\ p.post = "chunk" /\ p.shows = shows
    BY ReportTypes DEF Controls, Chunk
  <2> HIDE DEF p
  <2>2. Shown(p) <=> shows
    BY <2>1, Zenon DEF Shown
  <2> QED
    BY <2>1, <2>2 DEF Completes
<1>2. UNCHANGED callVars \/ Request(p)
  BY DEF PostChunk, Request
<1>3. heard = "relayed" => Taken(p)
  BY DEF PostChunk
<1> HIDE DEF p
<1>4. CASE Request(p)
  BY <1>1, <1>3, <1>4, Seen, Zenon
<1>5. CASE UNCHANGED callVars /\ ~Request(p)
  <2>1. heard # "relayed"
    BY <1>3, <1>5 DEF Request
  <2> QED
    BY <1>5, <2>1, Unseen, Zenon
<1> QED
  BY <1>2, <1>4, <1>5

(* The last chunk and the reports of a failure show nothing.               *)
LEMMA SeenOther ==
  /\ \A n, b : \A partial \in BOOLEAN :
        ~Shown(Final(n, b, partial)) /\ (Completes(Final(n, b, partial)) <=> ~partial)
  /\ ~Shown(Fails) /\ ~Completes(Fails) /\ ~Shown(StreamError) /\ ~Completes(StreamError)
<1>1. ASSUME NEW n, NEW b, NEW partial \in BOOLEAN
      PROVE  ~Shown(Final(n, b, partial)) /\ (Completes(Final(n, b, partial)) <=> ~partial)
  <2> DEFINE p == Final(n, b, partial)
  <2>1. p.post = "final" /\ p.partial = partial
    BY DEF Final
  <2> HIDE DEF p
  <2>2. ~Shown(p)
    BY <2>1 DEF Shown
  <2>3. Completes(p) <=> ~partial
    <3>1. p.post # "complete"
      BY <2>1
    <3> QED
      BY <2>1, <3>1, Zenon DEF Completes
  <2> QED
    BY <2>2, <2>3 DEF p
<1>2. ~Shown(Fails) /\ ~Completes(Fails) /\ ~Shown(StreamError) /\ ~Completes(StreamError)
  BY DEF Fails, StreamError, Shown, Completes
<1> QED
  BY <1>1, <1>2

-----------------------------------------------------------------------------
(* What was shown, and what was noted, one action after the other.         *)
Told == Shows /\ Judged

(* The relay shows a chunk more.                                           *)
LEMMA ToldChunk ==
  ASSUME CallsTypeOK, Controls, Told, pc = "stream", pc' = pc, job' = job, relay \in Posting,
         NEW heard \in Heard, NEW shows \in BOOLEAN, PostChunk(heard, shows),
         visible' <=> visible \/ shows, signal' = signal,
         relay' \in IF heard = "relayed" THEN Posting \ {"final"} ELSE {"settle"}
  PROVE  Told'
<1>1. /\ Showed' => Showed \/ shows
      /\ Whole' <=> Whole
      /\ heard = "relayed" /\ shows => Showed'
      /\ Showed => Showed'
  BY SeenChunk
<1>2. /\ Showed => visible
      /\ visible => Showed
      /\ ~Whole /\ signal = "none"
  BY DEF Told, Shows, Sending
<1>3. Showed' => visible'
  BY <1>1, <1>2, Zenon
<1>4. ~Whole' /\ signal' = "none"
  BY <1>1, <1>2
<1>5. relay' \in Posting => heard = "relayed"
  BY DEF Posting
<1>6. relay' \in Posting => (visible' => Showed')
  BY <1>1, <1>2, <1>5, Zenon
<1>7. relay' # "final"
  BY DEF Posting
<1>8. Shows'
  BY <1>3, <1>4, <1>6, <1>7 DEF Shows
<1> QED
  BY <1>4, <1>8, Zenon DEF Told, Judged

(* Nothing is reported, shown or noted.                                    *)
LEMMA ToldKept ==
  ASSUME Told, UNCHANGED callVars, pc' = pc, job' = job, visible' = visible, signal' = signal, result' = result,
         \/ relay' = relay
         \/ relay \in Posting /\ relay' \in {"loop", "merge", "text", "done", "broken"}
         \/ relay \in Posting /\ relay' = "final" /\ (job.homura /\ job.expects => visible)
  PROVE  Told'
<1>1. (Showed' <=> Showed) /\ (Whole' <=> Whole)
  BY Unseen
<1>2. Judged'
  BY <1>1, Zenon DEF Told, Judged
<1>3. Shows'
  <2>1. relay' \in Posting => (relay = relay' \/ relay \in Posting)
    OBVIOUS
  <2>2. relay' \in Sending => relay \in Sending
    BY DEF Sending
  <2>3. relay' = "final" => (relay = relay' \/ (job.homura /\ job.expects => visible))
    BY DEF Posting
  <2>4. relay' \in Posting => (visible' => Showed')
    BY <1>1, <2>1, Zenon DEF Told, Shows
  <2>5. relay' \in Sending => ~Whole' /\ signal' = "none"
    BY <1>1, <2>2, Zenon DEF Told, Shows
  <2>6. relay' = "final" /\ job'.homura /\ job'.expects => visible'
    BY <2>3, Zenon DEF Told, Shows
  <2>7. Showed' /\ pc' = "stream" => visible'
    BY <1>1, Zenon DEF Told, Shows
  <2>8. pc' \in {"received", "serving", "image", "upload"} => signal' = "none"
    BY DEF Told, Shows
  <2>9. pc' = "reply" =>
          /\ signal' = "empty" => result' = "blank"
          /\ signal' = "ok" => result' = "shown"
          /\ job'.type = "inference" /\ job'.homura /\ job'.expects => result' = "shown"
    BY Zenon DEF Told, Shows
  <2> QED
    BY <2>4, <2>5, <2>6, <2>7, <2>8, <2>9, Zenon DEF Shows
<1> QED
  BY <1>2, <1>3 DEF Told

(* A report that shows nothing, after which no chunk is posted.            *)
LEMMA ToldLast ==
  ASSUME CallsTypeOK, Told, pc = "stream", pc' = pc, job' = job, visible' = visible, relay' \notin Sending,
         NEW p \in Reports, Request(p), ~Shown(p),
         signal' = signal \/ (signal' = "ok" /\ visible /\ relay \in Posting) \/ (signal' = "empty" /\ ~visible),
         Completes(p) => relay = "final"
  PROVE  Told'
<1>1. Showed => Showed'
  BY Seen
<1>2. Showed' => Showed
  BY Seen
<1>3. Whole' => Whole \/ Completes(p)
  BY Seen
<1>4. (Showed => visible) /\ (relay \in Posting /\ visible => Showed)
  BY DEF Told, Shows
<1>5. Shows'
  <2>1. relay' \notin Posting /\ relay' # "final"
    BY DEF Sending, Posting
  <2>2. Showed' => visible'
    BY <1>2, <1>4, Zenon
  <2>3. pc' \notin {"received", "serving", "image", "upload"} /\ pc' # "reply"
    OBVIOUS
  <2> QED
    BY <2>1, <2>2, <2>3, Zenon DEF Shows
<1>6. relay = "final" => relay \in Posting /\ signal = "none"
  BY DEF Told, Shows, Posting, Sending
<1>7. signal' = "empty" => ~Showed'
  <2>1. signal = "empty" => ~Showed
    BY DEF Told, Judged
  <2>2. signal' = "empty" => signal = "empty" \/ ~visible
    OBVIOUS
  <2> QED
    BY <1>2, <1>4, <2>1, <2>2, Zenon
<1>8. signal' = "ok" /\ Whole' => Showed'
  <2>1. signal = "ok" /\ Whole => Showed
    BY DEF Told, Judged
  <2>2. signal' = "ok" => (visible /\ relay \in Posting) \/ (signal = "ok" /\ relay # "final")
    BY <1>6
  <2> QED
    BY <1>1, <1>3, <1>4, <2>1, <2>2, Zenon
<1>9. Whole' /\ job'.type = "inference" => (job'.homura /\ job'.expects => Showed')
  <2>1. Whole /\ job.type = "inference" => (job.homura /\ job.expects => Showed)
    BY DEF Told, Judged
  <2>2. relay = "final" => (job.homura /\ job.expects => Showed)
    BY <1>6, Zenon DEF Told, Shows
  <2> QED
    BY <1>1, <1>3, <2>1, <2>2, Zenon
<1> QED
  BY <1>5, <1>7, <1>8, <1>9, Zenon DEF Told, Judged

LEMMA ToldRelaying ==
  ASSUME Frame, Told, Stream
  PROVE  Told'
<1>1. /\ CallsTypeOK /\ Queues /\ Controls /\ pc = "stream" /\ pc' = pc /\ job' = job /\ result' = result
      /\ Relaying(job.homura, job.expects)
  BY RelayTypes DEF Frame, TypeOK, Stream, jobVars
<1>2. TRUE \in BOOLEAN /\ FALSE \in BOOLEAN /\ batch.vis \in BOOLEAN /\ emitted \in Nat /\ 0 \in Nat
  BY <1>1, Sizes DEF Queues, QueueTypes, Batches
<1>3. ASSUME relay \in {"loop", "done"}, NEW heard \in Heard, NEW shows \in BOOLEAN, PostChunk(heard, shows),
             Onward(heard), visible' <=> visible \/ shows, signal' = signal
      PROVE  Told'
  <2>1. relay \in Posting /\ relay' \in IF heard = "relayed" THEN Posting \ {"final"} ELSE {"settle"}
    BY <1>3 DEF Onward, Posting
  <2> QED
    BY <1>1, <1>3, <2>1, ToldChunk
<1>4. CASE RelayCall
  <2>1. /\ relay = "loop" /\ visible' = TRUE /\ signal' = signal
        /\ \E heard \in Heard : PostChunk(heard, TRUE) /\ Onward(heard)
    BY <1>4 DEF RelayCall
  <2>2. visible' <=> visible \/ TRUE
    BY <2>1, Zenon
  <2> QED
    BY <1>2, <1>3, <2>1, <2>2
<1>5. CASE PostTail
  <2>1. relay = "done" /\ signal' = signal
    BY <1>5 DEF PostTail
  <2>2. ASSUME NEW heard \in Heard, NEW shows \in BOOLEAN, visible' = (visible \/ shows), PostChunk(heard, shows),
               Onward(heard)
        PROVE  Told'
    <3>1. visible' <=> visible \/ shows
      BY <2>2, Zenon
    <3> QED
      BY <1>3, <2>1, <2>2, <3>1
  <2>3. CASE UNCHANGED <<visible, relay, seq, sealed, callVars>>
    BY <1>1, <2>1, <2>3, ToldKept
  <2> QED
    BY <1>5, <2>2, <2>3 DEF PostTail
<1>6. CASE PostText
  <2>1. PICK heard \in Heard :
          PostChunk(heard, batch.vis) /\ relay' = IF heard = "relayed" THEN "loop" ELSE "settle"
    BY <1>6 DEF PostText
  <2>2. relay \in Posting /\ relay' \in IF heard = "relayed" THEN Posting \ {"final"} ELSE {"settle"}
    BY <1>6, <2>1 DEF PostText, Posting
  <2>3. visible' <=> visible \/ batch.vis
    BY <1>6, Zenon DEF PostText
  <2>4. signal' = signal
    BY <1>6 DEF PostText
  <2> QED
    BY <1>1, <1>2, <2>1, <2>2, <2>3, <2>4, ToldChunk
<1>7. CASE FirstText(job.homura) \/ MoreText(job.homura) \/ MergeEnds \/ SwallowedText \/ EndOfStream
  <2>1. /\ UNCHANGED <<visible, signal, callVars>>
        /\ relay \in Posting /\ relay' \in {"loop", "merge", "text", "done", "broken"}
    BY <1>7 DEF FirstText, MoreText, Merge, MergeEnds, SwallowedText, EndOfStream, Posting
  <2> QED
    BY <1>1, <2>1, ToldKept
<1>8. CASE RelayDone(job.homura)
  <2>1. UNCHANGED <<visible, signal, callVars>> /\ relay = "loop" /\ relay \in Posting
    BY <1>8 DEF RelayDone, Posting
  <2>2. relay' = "done" \/ (relay' = "final" /\ ~job.homura)
    BY <1>8 DEF RelayDone
  <2>3. CASE relay' = "done"
    BY <1>1, <2>1, <2>3, ToldKept
  <2>4. CASE relay' = "final" /\ ~job.homura
    BY <1>1, <2>1, <2>4, ToldKept
  <2> QED
    BY <2>2, <2>3, <2>4
<1>9. CASE BlankDone(job.expects)
  <2>1. UNCHANGED <<visible, callVars>> /\ relay = "done" /\ relay \in Posting
    BY <1>9 DEF BlankDone, Posting
  <2>2. CASE job.expects /\ ~visible
    <3>1. signal' = "empty" /\ relay' = "broken"
      BY <1>9, <2>2 DEF BlankDone
    <3>2. ~Showed /\ ~Whole
      BY <1>1, <2>1, <2>2 DEF Told, Shows, Sending
    <3>3. ~Showed' /\ ~Whole'
      BY <2>1, <3>2, Unseen, Zenon
    <3>4. relay' \notin Posting /\ relay' \notin Sending /\ relay' # "final"
      BY <3>1 DEF Posting, Sending
    <3> QED
      BY <1>1, <3>1, <3>3, <3>4 DEF Told, Shows, Judged
  <2>3. CASE ~(job.expects /\ ~visible)
    <3>1. signal' = signal /\ relay' = "final"
      BY <1>9, <2>3 DEF BlankDone
    <3>2. job.homura /\ job.expects => visible
      BY <2>3, Zenon
    <3> QED
      BY <1>1, <2>1, <3>1, <3>2, ToldKept
  <2> QED
    BY <2>2, <2>3
<1>10. CASE PostFinal(job.expects)
  <2> DEFINE p == Final(seq, 0, FALSE)
  <2>1. p \in Reports /\ ~Shown(p)
    BY <1>1, <1>2, ReportTypes, SeenOther DEF Controls
  <2>2. relay = "final" /\ relay \in Posting /\ Request(p) /\ relay' \notin Sending /\ visible' = visible
    BY <1>10 DEF PostFinal, Request, Sending, Posting
  <2>3. signal' = signal \/ (signal' = "ok" /\ visible) \/ (signal' = "empty" /\ ~visible)
    BY <1>10 DEF PostFinal, ByText, Signalled
  <2> HIDE DEF p
  <2> QED
    BY <1>1, <2>1, <2>2, <2>3, ToldLast
<1>11. CASE Settle
  <2> DEFINE p == Final(seq, emitted, TRUE)
  <2>1. p \in Reports /\ ~Shown(p) /\ ~Completes(p)
    BY <1>1, <1>2, ReportTypes, SeenOther DEF Controls
  <2>2. Request(p) /\ relay' \notin Sending /\ visible' = visible /\ signal' = signal
    BY <1>11 DEF Settle, Request, Sending, Posting
  <2> HIDE DEF p
  <2> QED
    BY <1>1, <2>1, <2>2, ToldLast
<1>12. CASE ReportBroken \/ ReportFailed
  <2>1. Request(StreamError) \/ Request(Fails)
    BY <1>12 DEF ReportBroken, ReportFailed, Request
  <2>2. relay' \notin Sending /\ visible' = visible /\ signal' = signal
    BY <1>12 DEF ReportBroken, ReportFailed, Sending, Posting
  <2> QED
    BY <1>1, <2>1, <2>2, ReportTypes, SeenOther, ToldLast
<1> QED
  BY <1>1, <1>4, <1>5, <1>6, <1>7, <1>8, <1>9, <1>10, <1>11, <1>12 DEF Relaying

(* Outside the relay, as long as nothing was taken.                        *)
LEMMA ToldNothing ==
  ASSUME accepted = <<>>, UNCHANGED callVars, relay' \in {"idle", "loop"},
         pc' \in {"serving", "image", "upload"} \/ relay' = "loop" => signal' = "none",
         pc' # "received",
         pc' = "reply" => /\ signal' = "empty" => result' = "blank"
                          /\ signal' = "ok" => result' = "shown"
                          /\ job'.type = "inference" /\ job'.homura /\ job'.expects => result' = "shown",
         relay' = "loop" => visible' = FALSE
  PROVE  Told'
<1>1. \A i \in DOMAIN accepted' : FALSE
  BY DEF callVars
<1>2. ~Showed' /\ ~Whole'
  BY <1>1, Zenon DEF Showed, Whole
<1>3. relay' # "final" /\ (relay' \in Posting \/ relay' \in Sending => relay' = "loop")
  BY DEF Posting, Sending
<1>4. relay' \in Posting => ~visible'
  BY <1>3, Zenon
<1>5. Shows'
  BY <1>2, <1>3, <1>4, Zenon DEF Shows
<1>6. Judged'
  BY <1>2, Zenon DEF Judged
<1> QED
  BY <1>5, <1>6 DEF Told

LEMMA ToldOver ==
  ASSUME relay' = "idle", pc' \in {"over", "upload"}, pc' = "upload" => signal' = "none", Judged'
  PROVE  Told'
<1>1. relay' \notin Posting /\ relay' \notin Sending /\ relay' # "final"
  BY DEF Posting, Sending
<1> QED
  BY <1>1 DEF Told, Shows

LEMMA ToldServe ==
  ASSUME Frame, Told, Outcomes, Serve
  PROVE  Told'
<1>1. /\ UNCHANGED callVars /\ relay' = relay /\ relay = "idle" /\ signal = "none" /\ accepted = <<>>
      /\ job' = job /\ relay' \in {"idle", "loop"} /\ relay' # "loop"
  BY DEF Serve, Infer, relayVars, Frame, Lanes, Told, Shows, Outcomes
<1>2. CASE pc' = "fail"
  BY <1>1, <1>2, ToldNothing
<1>3. CASE pc' = "reply" /\ job.type = "inference" /\ \E written \in Writings, calls \in BOOLEAN : Infer(written, calls)
  <2>1. PICK written \in Writings : \E calls \in BOOLEAN : Infer(written, calls)
    BY <1>3
  <2>2. PICK calls \in BOOLEAN : Infer(written, calls)
    BY <2>1
  <2> DEFINE blank == ~calls /\ Cleaned(written) = "nothing"
  <2>3. /\ signal' = IF ~job.expects THEN signal ELSE IF blank THEN "empty" ELSE "ok"
        /\ ~(blank /\ job.expects /\ job.homura) /\ result' = IF blank THEN "blank" ELSE "shown"
    BY <1>3, <2>2 DEF Infer
  <2> HIDE DEF blank
  <2>4. /\ signal' = "empty" => result' = "blank"
        /\ signal' = "ok" => result' = "shown"
        /\ job'.type = "inference" /\ job'.homura /\ job'.expects => result' = "shown"
    BY <1>1, <2>3
  <2> QED
    BY <1>1, <1>3, <2>4, ToldNothing
<1>4. CASE pc' = "reply" /\ job.type # "inference"
  <2>1. UNCHANGED signal /\ result' = "shown"
    BY <1>4 DEF Serve, relayVars
  <2> QED
    BY <1>1, <1>4, <2>1, ToldNothing
<1> QED
  BY <1>2, <1>3, <1>4 DEF Serve, Infer, Media

LEMMA ToldStep ==
  ASSUME Frame, Told, Outcomes, [Next]_vars
  PROVE  Told'
<1>1. CallsTypeOK /\ Lanes /\ job' = job /\ Shows /\ Judged
  BY JobStep DEF Frame, TypeOK, Told
<1>2. pc # "stream" => relay = "idle"
  BY <1>1 DEF Lanes
<1>3. CASE Stream
  BY <1>3, ToldRelaying
<1>4. CASE Engine \/ EngineEnds \/ UNCHANGED vars
  <2>1. UNCHANGED <<relay, visible, signal, callVars, pc, result>>
    BY <1>4 DEF Engine, EngineEnds, Generate, Produce, GiveUp, vars, jobVars, relayVars
  <2> QED
    BY <1>1, <2>1, ToldKept
<1>5. CASE Refuse \/ Ask
  <2>1. /\ pc = "received" /\ UNCHANGED callVars /\ accepted = <<>> /\ signal = "none" /\ relay = "idle"
    BY <1>1, <1>5 DEF Refuse, Ask, Elsewhere, Outcomes, Shows, Lanes
  <2>2. /\ pc' \in {"fail", "stream", "image", "serving"} /\ relay' \in {"idle", "loop"}
        /\ signal' = "none" /\ visible' = visible
    BY <1>5, <2>1 DEF Refuse, ReportsFailed, Ask, StartRelay, Elsewhere, relayVars
  <2>3. visible' = FALSE
    BY <1>1, <2>1, <2>2, Zenon DEF Lanes, Untouched
  <2> QED
    BY <2>1, <2>2, <2>3, ToldNothing
<1>6. CASE Serve
  BY <1>6, ToldServe
<1>7. CASE SealFails
  <2>1. /\ pc = "reply" /\ pc' = "fail" /\ UNCHANGED callVars /\ accepted = <<>> /\ relay' = "idle"
    BY <1>2, <1>7 DEF SealFails, Elsewhere, relayVars, Outcomes
  <2> QED
    BY <2>1, ToldNothing
<1>8. ASSUME accepted = <<>> PROVE ~Showed /\ ~Whole
  <2>1. \A i \in DOMAIN accepted : FALSE
    BY <1>8
  <2> QED
    BY <2>1, Zenon DEF Showed, Whole
<1>9. CASE Finish
  <2> DEFINE p == Complete(job.env, 0, result = "shown")
  <2>1. job.env \in Forms /\ 0 \in Nat /\ (result = "shown") \in BOOLEAN
    BY <1>9, Enveloped DEF Finish, Frame, TypeOK, Lanes, Accepted, Opens, Envelopes, Forms
  <2>2. p \in Reports /\ p.post = "complete" /\ p.shows = (result = "shown")
    BY <2>1, ReportTypes DEF Complete
  <2>3. /\ pc = "reply" /\ pc' = "over" /\ Request(p) /\ accepted = <<>> /\ signal' = signal /\ relay' = "idle"
    BY <1>2, <1>9 DEF Finish, Report, Request, relayVars, Outcomes
  <2> HIDE DEF p
  <2>4. Shown(p) <=> result = "shown"
    BY <2>2, Zenon DEF Shown
  <2>5. ~Showed /\ ~Whole
    BY <1>8, <2>3
  <2>6. (Showed' => Shown(p)) /\ (Whole' /\ Shown(p) => Showed')
    BY <1>1, <2>2, <2>3, <2>5, Seen, Zenon
  <2>7. /\ signal = "empty" => result = "blank"
        /\ signal = "ok" => result = "shown"
        /\ job.type = "inference" /\ job.homura /\ job.expects => result = "shown"
    BY <1>1, <2>3 DEF Shows
  <2>8. (signal' = "empty" => ~Showed') /\ (signal' = "ok" /\ Whole' => Showed')
    BY <2>3, <2>4, <2>6, <2>7
  <2>9. Whole' /\ job'.type = "inference" => (job'.homura /\ job'.expects => Showed')
    BY <1>1, <2>4, <2>6, <2>7, Zenon
  <2>10. Judged'
    BY <2>8, <2>9, Zenon DEF Judged
  <2> QED
    BY <2>3, <2>10, ToldOver
<1>10. CASE Fail
  <2>1. Request(Fails) /\ pc' = "over" /\ relay' = "idle" /\ accepted = <<>>
    BY <1>2, <1>10 DEF Fail, Report, Request, relayVars, Outcomes
  <2>2. ~Showed' /\ ~Whole'
    BY <1>1, <1>8, <2>1, ReportTypes, SeenOther, Seen, Zenon
  <2>3. Judged'
    BY <2>2, Zenon DEF Judged
  <2> QED
    BY <2>1, <2>3, ToldOver
<1>11. CASE Image
  <2>1. /\ pc \in {"image", "upload"} /\ relay' = "idle" /\ signal' = signal /\ signal = "none" /\ job.type = "image"
    BY <1>1, <1>2, <1>11 DEF Image, relayVars, Lanes, Shows
  <2>2. Judged'
    BY <1>1, <2>1 DEF Judged
  <2>3. CASE pc' \in {"over", "upload"}
    BY <2>1, <2>2, <2>3, ToldOver
  <2>4. CASE pc' = "fail"
    <3>1. pc = "image" /\ UNCHANGED callVars
      BY <1>11, <2>4 DEF Image
    <3>2. accepted = <<>>
      BY <3>1 DEF Outcomes
    <3> QED
      BY <2>1, <2>4, <3>1, <3>2, ToldNothing
  <2> QED
    BY <1>11, <2>3, <2>4 DEF Image
<1> QED
  BY <1>3, <1>4, <1>5, <1>6, <1>7, <1>9, <1>10, <1>11 DEF Next, ProcessJob

-----------------------------------------------------------------------------
(* A stream that the client left is not noted.                             *)
LEMMA SettledGrows ==
  ASSUME CallsTypeOK, NEW p \in Reports, Request(p), Settled'
  PROVE  Settled \/ (p.post = "final" /\ p.partial)
<1>1. PICK i \in DOMAIN accepted' : accepted'[i].post = "final" /\ accepted'[i].partial
  BY DEF Settled, Settlement
<1>2. CASE i \in DOMAIN accepted /\ accepted'[i] = accepted[i]
  BY <1>1, <1>2 DEF Settled, Settlement
<1>3. CASE accepted' = Append(accepted, p)
  BY <1>1, <1>2, <1>3, Taking
<1> QED
  BY <1>2, <1>3, OneRequest

LEMMA UnnotedStep ==
  ASSUME Frame, Streamed, Outcomes, Shows, Unnoted, [Next]_vars
  PROVE  Unnoted'
<1>1. CallsTypeOK /\ Controls /\ Queues /\ Lanes
  BY RelayTypes DEF Frame, TypeOK
<1>2. ASSUME UNCHANGED callVars, signal' = signal \/ ~Settled PROVE Unnoted'
  <2>1. Settled' => Settled
    BY <1>2 DEF Settled, Settlement, callVars
  <2> QED
    BY <1>2, <2>1 DEF Unnoted
<1>3. ASSUME NEW p \in Reports, Request(p), p.post # "final" \/ ~p.partial, signal' = signal \/ ~Settled PROVE Unnoted'
  <2>1. Settled' => Settled
    BY <1>1, <1>3, SettledGrows
  <2> QED
    BY <1>3, <2>1 DEF Unnoted
<1>4. relay \in Sending => ~Settled /\ signal = "none"
  BY DEF Streamed, Numbers, Settled, Settlement, Shows
<1>5. ASSUME NEW heard \in Heard, NEW shows \in BOOLEAN, PostChunk(heard, shows), signal' = signal PROVE Unnoted'
  <2>1. Chunk(seq, shows) \in Reports /\ Chunk(seq, shows).post # "final"
    BY <1>1, ReportTypes DEF Controls, Chunk
  <2>2. UNCHANGED callVars \/ Request(Chunk(seq, shows))
    BY <1>5 DEF PostChunk, Request
  <2> QED
    BY <1>2, <1>3, <1>5, <2>1, <2>2
<1>6. ASSUME Request(Fails) \/ Request(StreamError), signal' = signal PROVE Unnoted'
  <2>1. Fails \in Reports /\ Fails.post # "final" /\ StreamError \in Reports /\ StreamError.post # "final"
    BY ReportTypes DEF Fails, StreamError
  <2> QED
    BY <1>3, <1>6, <2>1
<1>7. CASE Stream
  <2>1. CASE RelayCall \/ PostText \/ PostTail
    <3>1. TRUE \in BOOLEAN /\ batch.vis \in BOOLEAN
      BY <1>1 DEF Queues, QueueTypes, Batches
    <3>2. signal' = signal /\ (UNCHANGED callVars \/ \E heard \in Heard, shows \in BOOLEAN : PostChunk(heard, shows))
      BY <2>1, <3>1 DEF RelayCall, PostText, PostTail
    <3> QED
      BY <1>2, <1>5, <3>2
  <2>2. CASE FirstText(job.homura) \/ MoreText(job.homura) \/ MergeEnds \/ SwallowedText
             \/ RelayDone(job.homura) \/ EndOfStream
    BY <1>2, <2>2 DEF FirstText, MoreText, Merge, MergeEnds, SwallowedText, RelayDone, EndOfStream
  <2>3. CASE BlankDone(job.expects)
    <3>1. UNCHANGED callVars /\ relay \in Sending
      BY <2>3 DEF BlankDone, Sending, Posting
    <3> QED
      BY <1>2, <1>4, <3>1
  <2>4. CASE PostFinal(job.expects)
    <3>1. Final(seq, 0, FALSE) \in Reports /\ ~Final(seq, 0, FALSE).partial
      BY <1>1, ReportTypes DEF Controls, Final
    <3>2. Request(Final(seq, 0, FALSE)) /\ relay \in Sending
      BY <2>4 DEF PostFinal, Request, Sending, Posting
    <3> QED
      BY <1>3, <1>4, <3>1, <3>2
  <2>5. CASE Settle
    BY <1>4, <2>5 DEF Settle, Sending, Unnoted
  <2>6. CASE ReportBroken \/ ReportFailed
    BY <1>6, <2>6 DEF ReportBroken, ReportFailed, Request
  <2> QED
    BY <1>7, <2>1, <2>2, <2>3, <2>4, <2>5, <2>6 DEF Stream, Relaying
<1>8. CASE Serve
  <2>1. accepted = <<>> /\ UNCHANGED callVars
    BY <1>8 DEF Serve, Outcomes
  <2>2. \A i \in DOMAIN accepted : FALSE
    BY <2>1
  <2>3. ~Settled
    BY <2>2, Zenon DEF Settled
  <2> QED
    BY <1>2, <2>1, <2>3
<1>9. CASE Refuse \/ Ask \/ SealFails \/ Engine \/ EngineEnds \/ UNCHANGED vars
  BY <1>2, <1>9 DEF Refuse, Ask, StartRelay, SealFails, Elsewhere, Engine, EngineEnds, Generate, Produce, GiveUp,
                    vars, relayVars
<1>10. CASE Finish
  <2> DEFINE p == Complete(job.env, 0, result = "shown")
  <2>1. job.env \in Forms /\ 0 \in Nat /\ (result = "shown") \in BOOLEAN
    BY <1>10, Enveloped DEF Finish, Frame, TypeOK, Lanes, Accepted, Opens, Envelopes, Forms
  <2>2. p \in Reports /\ p.post # "final"
    BY <2>1, ReportTypes DEF Complete
  <2>3. Request(p) /\ signal' = signal
    BY <1>10 DEF Finish, Report, Request, relayVars
  <2> HIDE DEF p
  <2> QED
    BY <1>3, <2>2, <2>3
<1>11. CASE Fail
  BY <1>6, <1>11 DEF Fail, Report, Request, relayVars
<1>12. CASE Image
  <2>1. body' \in Nat /\ "v2" \in Forms /\ TRUE \in BOOLEAN
    <3>1. ImageTypeOK'
      BY FrameStep DEF Frame, TypeOK
    <3> QED
      BY <3>1 DEF ImageTypeOK, Forms
  <2>2. Complete("v2", body', TRUE) \in Reports /\ Complete("v2", body', TRUE).post # "final"
    BY <2>1, ReportTypes DEF Complete
  <2>3. signal' = signal /\ (UNCHANGED callVars \/ Request(Complete("v2", body', TRUE)))
    BY <1>12 DEF Image, PostImage, OutOfTime, Request, relayVars
  <2> QED
    BY <1>2, <1>3, <2>2, <2>3
<1> QED
  BY <1>7, <1>8, <1>9, <1>10, <1>11, <1>12 DEF Next, ProcessJob

(* What execute_inference and process_inference_stream note for the        *)
(* engine's health agrees with what the client saw: a reply noted empty    *)
(* showed nothing, a good one that went out whole showed something, a      *)
(* stream the client left is not noted, and a blank answer of a HOMURA     *)
(* model is never completed.                                               *)
THEOREM SignalTrue == Spec => []HealthSignalTrue
<1>1. Init => Told /\ Unnoted
  <2> SUFFICES ASSUME Init PROVE Told /\ Unnoted
    OBVIOUS
  <2>1. accepted = <<>> /\ relay = "idle" /\ pc = "received" /\ signal = "none"
    BY DEF Init, RelayInit, CallsInit
  <2>2. \A i \in DOMAIN accepted : FALSE
    BY <2>1
  <2>3. ~Showed /\ ~Whole
    BY <2>2, Zenon DEF Showed, Whole
  <2>4. relay \notin Posting /\ relay \notin Sending
    BY <2>1 DEF Posting, Sending
  <2> QED
    BY <2>1, <2>3, <2>4 DEF Told, Shows, Judged, Unnoted
<1>2. Outcome /\ Told /\ Unnoted /\ [Next]_vars => Told' /\ Unnoted'
  BY ToldStep, UnnotedStep DEF Outcome, Ruled, Told
<1>3. Told /\ Unnoted => HealthSignalTrue
  BY Zenon DEF Told, Judged, Unnoted, Settled, HealthSignalTrue
<1> QED
  BY <1>1, <1>2, <1>3, OutcomeHolds, PTL DEF Spec
=============================================================================
