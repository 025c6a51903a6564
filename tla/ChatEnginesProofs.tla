--------------------------- MODULE ChatEnginesProofs ---------------------------
(***************************************************************************)
(* Proofs about ChatEngines, and with it about InprocEngine, EmbedEngine   *)
(* and ServerEngine, for every value of their constants.                   *)
(*                                                                         *)
(* The invariant has a part for each engine: the chat worker's queues,     *)
(* slots and cells (Serving) and what flows from it to its readers         *)
(* (Relayed), the packing of embeddings (Embedded), and what is carried    *)
(* from llama-server (Beside).                                             *)
(***************************************************************************)
EXTENDS ChatEngines, FiniteSetTheorems, SequenceTheorems, WellFoundedInduction, TLAPS

-----------------------------------------------------------------------------
(* Sequences in which nothing is twice: queues of jobs.                    *)
Distinct(s) == \A i, k \in DOMAIN s : s[i] = s[k] => i = k
Within(s, x) == \E i \in DOMAIN s : s[i] = x

LEMMA WithinEmpty == Distinct(<<>>) /\ \A x : ~Within(<<>>, x)
BY DEF Distinct, Within

LEMMA WithinTail ==
  ASSUME NEW S, NEW s \in Seq(S), s # <<>>
  PROVE  /\ Tail(s) \in Seq(S) /\ Head(s) \in S /\ Within(s, Head(s))
         /\ \A x : Within(Tail(s), x) => Within(s, x)
         /\ Distinct(s) => Distinct(Tail(s)) /\ ~Within(Tail(s), Head(s))
<1>1. /\ Len(s) \in Nat /\ Len(s) # 0 /\ Head(s) = s[1] /\ Head(s) \in S
      /\ Tail(s) \in Seq(S) /\ Len(Tail(s)) = Len(s) - 1
      /\ \A i \in 1 .. Len(Tail(s)) : Tail(s)[i] = s[i + 1]
  BY HeadTailProperties, LenProperties, EmptySeq
<1>2. DOMAIN s = 1 .. Len(s) /\ DOMAIN Tail(s) = 1 .. Len(s) - 1
  BY <1>1, LenProperties
<1>3. 1 \in DOMAIN s /\ \A i \in DOMAIN Tail(s) : i + 1 \in DOMAIN s /\ i + 1 # 1 /\ Tail(s)[i] = s[i + 1]
  BY <1>1, <1>2
<1>4. \A i, k \in DOMAIN Tail(s) : i + 1 = k + 1 => i = k
  BY <1>1, <1>2
<1>5. Within(s, Head(s)) /\ \A x : Within(Tail(s), x) => Within(s, x)
  BY <1>1, <1>3 DEF Within
<1>6. ASSUME Distinct(s) PROVE Distinct(Tail(s)) /\ ~Within(Tail(s), Head(s))
  BY <1>1, <1>3, <1>4, <1>6 DEF Distinct, Within
<1> QED
  BY <1>1, <1>5, <1>6

LEMMA WithinAppend ==
  ASSUME NEW S, NEW s \in Seq(S), NEW e \in S
  PROVE  /\ Append(s, e) \in Seq(S)
         /\ \A x : Within(Append(s, e), x) <=> Within(s, x) \/ x = e
         /\ Distinct(s) /\ ~Within(s, e) => Distinct(Append(s, e))
<1>1. /\ Len(s) \in Nat /\ Append(s, e) \in Seq(S) /\ Len(Append(s, e)) = Len(s) + 1
      /\ \A i \in 1 .. Len(s) : Append(s, e)[i] = s[i]
      /\ Append(s, e)[Len(s) + 1] = e
  BY AppendProperties, LenProperties
<1>2. DOMAIN s = 1 .. Len(s) /\ DOMAIN Append(s, e) = 1 .. Len(s) + 1
  BY <1>1, LenProperties
<1>3. /\ Len(s) + 1 \in DOMAIN Append(s, e)
      /\ \A i \in DOMAIN Append(s, e) : i \in DOMAIN s \/ i = Len(s) + 1
      /\ \A i \in DOMAIN s : i \in DOMAIN Append(s, e) /\ Append(s, e)[i] = s[i]
  BY <1>1, <1>2
<1>4. \A x : Within(Append(s, e), x) <=> Within(s, x) \/ x = e
  BY <1>1, <1>3, Zenon DEF Within
<1>5. ASSUME Distinct(s), ~Within(s, e) PROVE Distinct(Append(s, e))
  BY <1>1, <1>3, <1>5 DEF Distinct, Within
<1> QED
  BY <1>1, <1>4, <1>5

LEMMA WithinConcat ==
  ASSUME NEW S, NEW s \in Seq(S), NEW t \in Seq(S)
  PROVE  /\ s \o t \in Seq(S)
         /\ \A x : Within(s \o t, x) <=> Within(s, x) \/ Within(t, x)
         /\ Distinct(s) /\ Distinct(t) /\ (\A x : ~(Within(s, x) /\ Within(t, x))) => Distinct(s \o t)
<1> DEFINE u == s \o t
           m == Len(s)
           n == Len(t)
<1>1. /\ m \in Nat /\ n \in Nat /\ u \in Seq(S) /\ Len(u) = m + n
      /\ \A i \in 1 .. m + n : u[i] = IF i <= m THEN s[i] ELSE t[i - m]
  BY ConcatProperties, LenProperties
<1>2. DOMAIN s = 1 .. m /\ DOMAIN t = 1 .. n /\ DOMAIN u = 1 .. m + n
  BY <1>1, LenProperties
<1> HIDE DEF u, m, n
<1>3. \A i \in DOMAIN s : i \in DOMAIN u /\ u[i] = s[i]
  BY <1>1, <1>2
<1>4. \A i \in DOMAIN t : m + i \in DOMAIN u /\ u[m + i] = t[i]
  <2> SUFFICES ASSUME NEW i \in DOMAIN t PROVE m + i \in DOMAIN u /\ u[m + i] = t[i]
    OBVIOUS
  <2>1. m + i \in 1 .. m + n /\ ~(m + i <= m) /\ (m + i) - m = i
    BY <1>1, <1>2
  <2> QED
    BY <1>1, <1>2, <2>1
<1>5. \A i \in DOMAIN u : (i \in DOMAIN s /\ u[i] = s[i]) \/ (i - m \in DOMAIN t /\ u[i] = t[i - m] /\ i - m + m = i)
  BY <1>1, <1>2
<1>6. \A x : Within(u, x) <=> Within(s, x) \/ Within(t, x)
  <2>1. \A x : Within(s, x) \/ Within(t, x) => Within(u, x)
    BY <1>3, <1>4 DEF Within
  <2>2. \A x : Within(u, x) => Within(s, x) \/ Within(t, x)
    BY <1>5 DEF Within
  <2> QED
    BY <2>1, <2>2
<1>7. ASSUME Distinct(s), Distinct(t), \A x : ~(Within(s, x) /\ Within(t, x)) PROVE Distinct(u)
  <2> SUFFICES ASSUME NEW i \in DOMAIN u, NEW k \in DOMAIN u, u[i] = u[k] PROVE i = k
    BY DEF Distinct
  <2>1. ASSUME NEW a \in DOMAIN s, NEW b \in DOMAIN t PROVE s[a] # t[b]
    BY <1>7 DEF Within
  <2>2. CASE i \in DOMAIN s /\ u[i] = s[i]
    <3>1. k \in DOMAIN s /\ u[k] = s[k]
      BY <1>5, <2>1, <2>2
    <3> QED
      BY <1>7, <2>2, <3>1 DEF Distinct
  <2>3. CASE i - m \in DOMAIN t /\ u[i] = t[i - m] /\ i - m + m = i
    <3>1. k - m \in DOMAIN t /\ u[k] = t[k - m] /\ k - m + m = k
      BY <1>5, <2>1, <2>3
    <3>2. i - m = k - m
      BY <1>7, <2>3, <3>1 DEF Distinct
    <3> QED
      BY <2>3, <3>1, <3>2
  <2> QED
    BY <1>5, <2>2, <2>3
<1> QED
  BY <1>1, <1>6, <1>7 DEF u

(* A set of numbers that is not empty has a least one; so what holds of a  *)
(* number when it holds of all smaller ones holds of every number.         *)
LEMMA LeastNat ==
  ASSUME NEW T \in SUBSET Nat, T # {}
  PROVE  \E x \in T : \A y \in T : x <= y
<1>1. PICK x \in T : \A y \in T : ~(<<y, x>> \in OpToRel(<, Nat))
  BY NatLessThanWellFounded, WFMin
<1>2. \A y \in T : ~(y < x)
  BY <1>1 DEF OpToRel
<1> QED
  BY <1>2

-----------------------------------------------------------------------------
(* The engine in the node's process.  The worker has a slot's job in hand. *)
InHand == {"call", "again", "stop", "finish", "lastcall", "tail", "done"}
Queued(j) == Within(inbox, j) \/ Within(waiting, j)
Seated(j) == \E s \in Slots : slots[s] = j

(* A job is in one place: new, in one of the two queues, in one slot, or   *)
(* answered; until it has a slot nothing was generated for it.             *)
Places ==
  /\ Distinct(inbox) /\ Distinct(waiting)
  /\ \A j \in Jobs : ~(Within(inbox, j) /\ Within(waiting, j))
  /\ \A s, t \in Slots : slots[s] = slots[t] /\ slots[s] # Free => s = t
  /\ \A j \in Jobs : Seated(j) => ~Queued(j) /\ reply[j] = "none"
  /\ \A j \in Jobs : Queued(j) => reply[j] = "none"
  /\ \A j \in Jobs : Queued(j) \/ reply[j] = "new" => out[j] = NoOutput

(* A slot whose job has all its tokens is the one in hand.                 *)
Budget ==
  /\ at \in InHand => slot \in Slots /\ Current # Free
  /\ \A s \in Slots : slots[s] # Free => out[slots[s]].tokens < MaxNew \/ (at \in InHand /\ s = slot)
  /\ \A j \in Jobs : out[j].batched <= out[j].tokens

(* A free slot has no cells, and the slot of a job that is being answered  *)
(* has none any more.                                                      *)
Cells ==
  /\ \A s \in Slots : slots[s] = Free => kv[s] = Free
  /\ at \in {"tail", "done"} => kv[slot] = Free

(* The backend is marked before any job hears that it failed for good.     *)
FatalMarked == (fatal => failed) /\ ((\E j \in Jobs : reply[j] = "fatal") => failed)

Serving == InprocTypeOK /\ Places /\ Budget /\ Cells /\ FatalMarked

(* What the output of a job may become.                                    *)
Grown(o) == o \in Outputs /\ o.batched <= o.tokens

LEMMA OutputFields ==
  ASSUME NEW o \in Outputs
  PROVE  /\ o.made \in Seq(Int) /\ o.tokens \in 0 .. MaxNew /\ o.pending \in Seq(Int)
         /\ o.batched \in 0 .. MaxNew /\ o.held \in BOOLEAN /\ o.dropped \in BOOLEAN
BY DEF Outputs

LEMMA NumberIsInt ==
  ASSUME NEW o, o.made \in Seq(Int)
  PROVE  Number(o) \in Int /\ -Number(o) \in Int
BY LenProperties DEF Number

LEMMA CountedOk ==
  ASSUME InprocTypeOK, NEW j \in Jobs, out[j].tokens < MaxNew, out[j].batched <= out[j].tokens
  PROVE  Grown(Counted(j, out[j])) /\ Counted(j, out[j]).made = out[j].made
         /\ Counted(j, out[j]).pending = out[j].pending /\ Counted(j, out[j]).held = out[j].held
<1>1. out[j] \in Outputs /\ MaxNew \in Nat
  BY InprocAssumption DEF InprocTypeOK
<1>2. out[j].tokens \in 0 .. MaxNew /\ out[j].batched \in 0 .. MaxNew
  BY <1>1, OutputFields
<1>3. /\ out[j].tokens + 1 \in 0 .. MaxNew /\ out[j].batched + 1 \in 0 .. MaxNew
      /\ out[j].batched + 1 <= out[j].tokens + 1 /\ 0 <= out[j].tokens + 1 /\ 0 \in 0 .. MaxNew
  BY <1>1, <1>2
<1> DEFINE c == Counted(j, out[j])
<1>4. /\ c.tokens = out[j].tokens + 1 /\ c.batched \in {out[j].batched + 1, 0}
      /\ c = [out[j] EXCEPT !.tokens = c.tokens, !.batched = c.batched]
  BY <1>1 DEF Counted, Outputs
<1> QED
  BY <1>1, <1>3, <1>4 DEF Grown, Outputs

LEMMA WithTextOk ==
  ASSUME NEW j \in Jobs, NEW o, Grown(o)
  PROVE  Grown(WithText(o)) /\ Grown(WithCall(o))
<1>1. /\ o \in Outputs /\ Number(o) \in Int /\ -Number(o) \in Int
      /\ o.made \in Seq(Int) /\ o.pending \in Seq(Int)
  BY OutputFields, NumberIsInt DEF Grown
<1>2. Append(o.made, Number(o)) \in Seq(Int) /\ Append(o.made, -Number(o)) \in Seq(Int)
      /\ Append(o.pending, Number(o)) \in Seq(Int)
  BY <1>1, AppendProperties
<1>3. WithText(o) \in Outputs /\ WithCall(o) \in Outputs
  BY <1>1, <1>2 DEF WithText, WithCall, Outputs
<1>4. /\ WithText(o).tokens = o.tokens /\ WithText(o).batched = o.batched
      /\ WithCall(o).tokens = o.tokens /\ WithCall(o).batched = o.batched
  BY <1>1 DEF WithText, WithCall, Outputs
<1> QED
  BY <1>3, <1>4 DEF Grown

LEMMA HeldOk ==
  ASSUME NEW j \in Jobs, NEW o, Grown(o), NEW b \in BOOLEAN
  PROVE  Grown([o EXCEPT !.held = b])
BY DEF Grown, Outputs

LEMMA SentOk ==
  ASSUME NEW j \in Jobs, NEW o, Grown(o)
  PROVE  /\ Grown([o EXCEPT !.pending = <<>>]) /\ Grown([o EXCEPT !.pending = <<>>, !.batched = 0])
         /\ \A b \in BOOLEAN : Grown([o EXCEPT !.dropped = b])
<1>1. o \in Outputs /\ o.tokens \in 0 .. MaxNew /\ 0 \in 0 .. MaxNew /\ 0 <= o.tokens /\ <<>> \in Seq(Int)
  BY OutputFields, InprocAssumption DEF Grown
<1> QED
  BY <1>1 DEF Grown, Outputs

LEMMA KeptOk ==
  ASSUME InprocTypeOK, NEW j \in Jobs, NEW o, Grown(o)
  PROVE  Grown(Kept(j, o))
<1> DEFINE b == o.dropped \/ client[j] = "away" \/ Len(o.pending) > PendingCap
<1>1. o.dropped \in BOOLEAN
  BY OutputFields DEF Grown
<1>2. b \in BOOLEAN
  OBVIOUS
<1>3. Kept(j, o) = [o EXCEPT !.dropped = b]
  BY DEF Kept
<1> HIDE DEF b
<1>4. Grown([o EXCEPT !.dropped = b])
  BY <1>2, SentOk
<1> QED
  BY <1>3, <1>4

(* A piece fits into the channel when it can be sent.                      *)
Piped == pipe \in [Jobs -> Seq(Seq(Int))] /\ \A j \in Jobs : Len(pipe[j]) <= PipeCap

LEMMA PipeTakes ==
  ASSUME InprocTypeOK, NEW j \in Jobs, NEW piece \in Seq(Int), CanSend(j),
         pipe' = [pipe EXCEPT ![j] = Append(@, piece)]
  PROVE  Piped'
<1>1. pipe \in [Jobs -> Seq(Seq(Int))] /\ pipe[j] \in Seq(Seq(Int)) /\ Len(pipe[j]) \in Nat /\ Len(pipe[j]) < PipeCap
  BY LenProperties DEF InprocTypeOK, CanSend
<1>2. Append(pipe[j], piece) \in Seq(Seq(Int)) /\ Len(Append(pipe[j], piece)) = Len(pipe[j]) + 1
  BY <1>1, AppendProperties
<1>3. Len(Append(pipe[j], piece)) <= PipeCap
  BY <1>1, <1>2, InprocAssumption
<1>4. pipe' \in [Jobs -> Seq(Seq(Int))] /\ \A i \in Jobs : pipe'[i] = IF i = j THEN Append(pipe[j], piece) ELSE pipe[i]
  BY <1>1, <1>2
<1> QED
  BY <1>3, <1>4 DEF Piped, InprocTypeOK

(* The output and the stream of one job after a token.                     *)
Grows(j) == (\E o : Grown(o) /\ out' = [out EXCEPT ![j] = o]) /\ Piped'

LEMMA FlushGrows ==
  ASSUME InprocTypeOK, NEW j \in Jobs, NEW o, Grown(o), Flush(j, o)
  PROVE  Grows(j)
<1>1. Piped
  BY DEF InprocTypeOK, Piped
<1>2. CASE o.pending = <<>>
  BY <1>1, <1>2 DEF Flush, Grows, Piped
<1>3. CASE o.pending # <<>> /\ CanSend(j)
  <2>1. o.pending \in Seq(Int)
    BY OutputFields DEF Grown
  <2>2. out' = [out EXCEPT ![j] = [o EXCEPT !.pending = <<>>, !.batched = 0]]
        /\ pipe' = [pipe EXCEPT ![j] = Append(@, o.pending)]
    BY <1>3 DEF Flush
  <2>3. Piped'
    BY <1>3, <2>1, <2>2, PipeTakes
  <2> QED
    BY <2>2, <2>3, SentOk DEF Grows
<1>4. CASE o.pending # <<>> /\ ~CanSend(j)
  BY <1>1, <1>4, KeptOk DEF Flush, Grows, Piped
<1> QED
  BY <1>2, <1>3, <1>4

LEMMA DueGrows ==
  ASSUME InprocTypeOK, NEW j \in Jobs, NEW o, Grown(o), FlushIfDue(j, o)
  PROVE  Grows(j)
<1>1. CASE o.batched >= FlushEvery
  BY <1>1, FlushGrows DEF FlushIfDue
<1>2. CASE ~(o.batched >= FlushEvery)
  BY <1>2 DEF FlushIfDue, Grows, Piped, InprocTypeOK
<1> QED
  BY <1>1, <1>2

LEMMA SampleGrows ==
  ASSUME InprocTypeOK, NEW j \in Jobs, out[j].tokens < MaxNew, out[j].batched <= out[j].tokens, Sample(j)
  PROVE  Grows(j) /\ at' \in {"stop", "call", "finish"} /\ UNCHANGED <<slot, phase>>
<1> DEFINE c == Counted(j, out[j])
<1>1. Grown(c) /\ Piped
  BY CountedOk DEF InprocTypeOK, Piped
<1> HIDE DEF c
<1>2. ASSUME NEW o, Grown(o), FlushIfDue(j, o) PROVE Grows(j)
  BY <1>2, DueGrows
<1>3. CASE EmitText(j)
  <2> DEFINE o == WithText([c EXCEPT !.held = FALSE])
  <2>1. Grown(o)
    BY <1>1, HeldOk, WithTextOk
  <2>2. \/ FlushIfDue(j, o)
        \/ out' = [out EXCEPT ![j] = [o EXCEPT !.pending = <<>>]] /\ UNCHANGED pipe
    BY <1>3 DEF EmitText, c
  <2>3. at' = "stop" /\ UNCHANGED <<slot, phase>>
    BY <1>3 DEF EmitText, GoTo
  <2> HIDE DEF o
  <2>4. Grows(j)
    BY <1>1, <1>2, <2>1, <2>2, SentOk DEF Grows, Piped
  <2> QED
    BY <2>3, <2>4
<1>4. CASE HoldBack(j)
  <2>1. Grown([c EXCEPT !.held = TRUE]) /\ FlushIfDue(j, [c EXCEPT !.held = TRUE])
    BY <1>1, <1>4, HeldOk DEF HoldBack, c
  <2> QED
    BY <1>2, <1>4, <2>1 DEF HoldBack, GoTo
<1>5. CASE EmitCall(j)
  <2>1. Grown(WithCall(c)) /\ Flush(j, WithCall(c))
    BY <1>1, <1>5, WithTextOk DEF EmitCall, c
  <2> QED
    BY <1>5, <2>1, FlushGrows DEF EmitCall, GoTo
<1>6. CASE out' = [out EXCEPT ![j].tokens = @ + 1] /\ GoTo("finish") /\ UNCHANGED pipe
  <2>1. out[j] \in Outputs /\ out[j].tokens \in 0 .. MaxNew /\ out[j].batched \in 0 .. MaxNew
    BY OutputFields DEF InprocTypeOK
  <2>2. out[j].tokens + 1 \in 0 .. MaxNew /\ out[j].batched <= out[j].tokens + 1
    BY <2>1, InprocAssumption
  <2>3. Grown([out[j] EXCEPT !.tokens = @ + 1])
    BY <2>1, <2>2 DEF Grown, Outputs
  <2>4. out' = [out EXCEPT ![j] = [out[j] EXCEPT !.tokens = @ + 1]]
    BY <1>6
  <2> QED
    BY <1>1, <1>6, <2>3, <2>4 DEF Grows, Piped, GoTo
<1> QED
  BY <1>3, <1>4, <1>5, <1>6 DEF Sample

-----------------------------------------------------------------------------
(* Steps that neither move a job nor generate anything.                    *)
Queues == <<inbox, waiting>>
Rows == <<slots, kv, reply, out>>
QuietNext ==
  \/ \E j \in Jobs : Read(j) \/ GoAway(j)
  \/ Disconnect \/ Load \/ PassSlot \/ Admitted \/ Decode \/ DecodeFails \/ EmitNothing
  \/ StopOrGoOn \/ IterationEnds \/ Wedge \/ NoProgress

LEMMA QuietKeeps ==
  ASSUME Serving, UNCHANGED <<Queues, Rows>>,
         at' \in InHand => at \in InHand /\ slot' = slot,
         at' \in {"tail", "done"} => at' = at,
         at \in InHand /\ at' \notin InHand => out[Current].tokens < MaxNew,
         fatal' => failed', failed => failed'
  PROVE  Places' /\ Budget' /\ Cells' /\ FatalMarked'
<1> USE DEF Queues, Rows
<1>1. Places'
  BY DEF Serving, Places, Queued, Seated
<1>2. Budget'
  BY DEF Serving, Budget, Current
<1>3. Cells'
  BY DEF Serving, Cells, InHand
<1>4. FatalMarked'
  BY Zenon DEF Serving, FatalMarked
<1> QED
  BY <1>1, <1>2, <1>3, <1>4

LEMMA SlotMoves ==
  ASSUME InprocTypeOK
  PROVE  /\ 1 \in 1 .. MaxSlots + 1 /\ slot \in 1 .. MaxSlots + 1
         /\ slot <= MaxSlots => slot \in Slots
         /\ slot \in Slots => slot + 1 \in 1 .. MaxSlots + 1
         /\ slot \in Slots => slots[slot] \in Jobs \cup {Free} /\ slot <= MaxSlots
BY InprocAssumption DEF InprocTypeOK, Slots

LEMMA QuietTypes ==
  ASSUME Serving, QuietNext
  PROVE  InprocTypeOK'
<1> USE DEF thread, health, streams, GoTo, Begin, NextSlot
<1>1. InprocTypeOK /\ Budget
  BY DEF Serving
<1>2. ASSUME NEW j \in Jobs, Read(j) PROVE InprocTypeOK'
  <2>1. /\ pipe[j] \in Seq(Seq(Int)) /\ pipe[j] # <<>> /\ got[j] \in Seq(Int)
        /\ Head(pipe[j]) \in Seq(Int) /\ Tail(pipe[j]) \in Seq(Seq(Int))
        /\ Len(pipe[j]) \in Nat /\ Len(Tail(pipe[j])) = Len(pipe[j]) - 1
    BY <1>1, <1>2, HeadTailProperties, LenProperties DEF Read, InprocTypeOK
  <2>2. got[j] \o Head(pipe[j]) \in Seq(Int)
    BY <2>1, ConcatProperties
  <2>3. Len(Tail(pipe[j])) <= PipeCap
    BY <1>1, <2>1, InprocAssumption DEF InprocTypeOK
  <2>4. got' \in [Jobs -> Seq(Int)]
    BY <1>1, <1>2, <2>2 DEF Read, InprocTypeOK
  <2>5. pipe' \in [Jobs -> Seq(Seq(Int))] /\ \A i \in Jobs : Len(pipe'[i]) <= PipeCap
    BY <1>1, <1>2, <2>1, <2>3 DEF Read, InprocTypeOK
  <2> QED
    BY <1>1, <1>2, <2>4, <2>5 DEF Read, InprocTypeOK
<1>3. ASSUME NEW j \in Jobs, GoAway(j) PROVE InprocTypeOK'
  BY <1>1, <1>3 DEF GoAway, InprocTypeOK
<1>4. CASE Disconnect
  <2>1. /\ connected' = FALSE
        /\ UNCHANGED <<at, slot, phase, loaded, failed, fatal, busy, stale, wedged, inbox, waiting, slots,
                       kv, mode, out, pipe, got, client, reply>>
    BY <1>4 DEF Disconnect, thread, streams
  <2>2. /\ loaded' \in BOOLEAN /\ failed' \in BOOLEAN /\ fatal' \in BOOLEAN /\ busy' \in BOOLEAN
        /\ stale' \in BOOLEAN /\ wedged' \in BOOLEAN /\ connected' \in BOOLEAN
    BY <1>1, <2>1, Zenon DEF InprocTypeOK
  <2> QED
    BY <1>1, <2>1, <2>2, Zenon DEF InprocTypeOK
<1>5. CASE Load
  BY <1>1, <1>5 DEF Load, InprocTypeOK
<1>6. CASE PassSlot \/ Admitted
  BY <1>1, <1>6, SlotMoves DEF PassSlot, Admitted, InprocTypeOK
<1>7. CASE Decode
  BY <1>1, <1>7, SlotMoves DEF Decode, InprocTypeOK
<1>8. CASE DecodeFails
  BY <1>1, <1>8, SlotMoves DEF DecodeFails, Marked, InprocTypeOK
<1>9. CASE EmitNothing
  BY <1>1, <1>9, SlotMoves DEF EmitNothing, InprocTypeOK
<1>10. CASE StopOrGoOn
  BY <1>1, <1>10, SlotMoves DEF StopOrGoOn, InprocTypeOK, Budget, InHand
<1>11. CASE IterationEnds
  BY <1>1, <1>11, SlotMoves DEF IterationEnds, InprocTypeOK
<1>12. CASE Wedge
  BY <1>1, <1>12 DEF Wedge, InprocTypeOK
<1>13. CASE NoProgress
  BY <1>1, <1>13 DEF NoProgress, InprocTypeOK
<1> QED
  BY <1>2, <1>3, <1>4, <1>5, <1>6, <1>7, <1>8, <1>9, <1>10, <1>11, <1>12, <1>13 DEF QuietNext

LEMMA QuietServes ==
  ASSUME Serving, QuietNext
  PROVE  Serving'
<1> USE DEF thread, health, streams, GoTo, Begin, NextSlot, InHand, Queues, Rows
<1>1. UNCHANGED <<Queues, Rows>>
  BY DEF QuietNext, Read, GoAway, Disconnect, Load, PassSlot, Admitted, Decode, DecodeFails, EmitNothing,
         StopOrGoOn, IterationEnds, Wedge, NoProgress
<1>2. phase \in {"admit", "emit"} /\ FatalMarked
  BY DEF Serving, InprocTypeOK
<1>3. at' \in InHand => at \in InHand /\ slot' = slot
  BY <1>2 DEF QuietNext, Read, GoAway, Disconnect, Load, PassSlot, Admitted, Decode, DecodeFails, EmitNothing,
         StopOrGoOn, IterationEnds, Wedge, NoProgress
<1>4. at' \in {"tail", "done"} => at' = at
  BY <1>2 DEF QuietNext, Read, GoAway, Disconnect, Load, PassSlot, Admitted, Decode, DecodeFails, EmitNothing,
         StopOrGoOn, IterationEnds, Wedge, NoProgress
<1>5. at \in InHand /\ at' \notin InHand => StopOrGoOn
  BY <1>2 DEF QuietNext, Read, GoAway, Disconnect, Load, PassSlot, Admitted, Decode, DecodeFails, EmitNothing,
         StopOrGoOn, IterationEnds, Wedge, NoProgress
<1>6. ASSUME StopOrGoOn, at' \notin InHand PROVE out[Current].tokens < MaxNew
  <2>1. slot \in Slots /\ Current \in Jobs
    BY <1>6 DEF StopOrGoOn, Serving, Budget, InprocTypeOK, Current
  <2>2. out[Current].tokens \in Nat /\ ~(out[Current].tokens >= MaxNew)
    BY <1>6, <2>1, OutputFields DEF StopOrGoOn, StopHere, Serving, InprocTypeOK
  <2> QED
    BY <2>2, InprocAssumption
<1>7. (fatal' => failed') /\ (failed => failed')
  <2>1. \/ fatal' = fatal /\ failed' = failed
        \/ failed' = TRUE
        \/ fatal' = FALSE /\ failed' = failed
    BY DEF QuietNext, Read, GoAway, Disconnect, Load, PassSlot, Admitted, Decode, DecodeFails, EmitNothing,
           StopOrGoOn, IterationEnds, Wedge, NoProgress, Marked
  <2> QED
    BY <1>2, <2>1 DEF FatalMarked
<1>8. Places' /\ Budget' /\ Cells' /\ FatalMarked'
  BY <1>1, <1>3, <1>4, <1>5, <1>6, <1>7, QuietKeeps
<1> QED
  BY <1>8, QuietTypes DEF Serving

-----------------------------------------------------------------------------
(* Steps on the job in hand.  Its output changes and it keeps its slot...  *)
InHandNow ==
  /\ slot \in Slots /\ Current \in Jobs /\ reply[Current] = "none" /\ ~Queued(Current)
  /\ \A s \in Slots : s # slot => slots[s] # Current
OthersKeep(j) == \A i \in Jobs : i # j => out'[i] = out[i]

LEMMA InHandPlace ==
  ASSUME Serving, at \in InHand \/ (slot \in Slots /\ Current # Free)
  PROVE  InHandNow
<1>1. slot \in Slots /\ Current # Free
  BY DEF Serving, Budget
<1>2. Current \in Jobs /\ Seated(Current)
  BY <1>1 DEF Serving, InprocTypeOK, Current, Seated
<1> QED
  BY <1>1, <1>2 DEF Serving, Places, InHandNow, Current

LEMMA GrowthKeeps ==
  ASSUME Serving, InHandNow, UNCHANGED <<Queues, slots, reply>>,
         OthersKeep(Current), out'[Current].batched <= out'[Current].tokens,
         at' \in InHand /\ slot' = slot
  PROVE  Places' /\ Budget'
<1> USE DEF Queues
<1>1. Places'
  <2>1. \A j \in Jobs : Queued(j) \/ reply[j] = "new" => j # Current /\ out'[j] = out[j]
    BY DEF InHandNow, OthersKeep
  <2> QED
    BY <2>1 DEF Serving, Places, Queued, Seated
<1>2. Budget'
  <2>1. \A s \in Slots : slots[s] # Free /\ s # slot => out'[slots[s]] = out[slots[s]]
    BY DEF InHandNow, OthersKeep, Current, Serving, InprocTypeOK
  <2>2. \A s \in Slots : slots[s] # Free => out'[slots[s]].tokens < MaxNew \/ s = slot
    BY <2>1 DEF Serving, Budget
  <2>3. Current # Free
    BY DEF InHandNow, Jobs, Free
  <2> QED
    BY <2>2, <2>3 DEF InHandNow, OthersKeep, Current, Serving, Budget
<1> QED
  BY <1>1, <1>2

(* ...or it is answered and its slot is free.                              *)
LEMMA SettleKeeps ==
  ASSUME Serving, InHandNow, UNCHANGED Queues, NEW r, r # "new",
         slots' = [slots EXCEPT ![slot] = Free],
         reply' = [j \in Jobs |-> IF j = Current THEN r ELSE reply[j]],
         OthersKeep(Current), out'[Current].batched <= out'[Current].tokens,
         at' \notin InHand
  PROVE  Places' /\ Budget'
<1> USE DEF Queues
<1>1. /\ slots \in [Slots -> Jobs \cup {Free}] /\ Places /\ Budget
      /\ \A s \in Slots : slots'[s] = IF s = slot THEN Free ELSE slots[s]
      /\ Free \notin Jobs
  BY DEF Serving, InprocTypeOK, Jobs, Free
<1>2. Places'
  <2>1. \A s, t \in Slots : slots'[s] = slots'[t] /\ slots'[s] # Free => s = t
    BY <1>1 DEF Places
  <2>2. ASSUME NEW j \in Jobs, Seated(j)' PROVE ~Queued(j) /\ reply'[j] = "none"
    <3>1. Seated(j) /\ j # Current
      BY <1>1, <2>2 DEF Seated, InHandNow
    <3> QED
      BY <1>1, <3>1 DEF Places
  <2>3. \A j \in Jobs : Queued(j) => j # Current /\ reply'[j] = "none"
    BY <1>1 DEF Places, InHandNow
  <2>4. \A j \in Jobs : Queued(j) \/ reply'[j] = "new" => out'[j] = NoOutput
    BY <1>1, <2>3 DEF Places, OthersKeep
  <2>5. \A j \in Jobs : Queued(j)' <=> Queued(j)
    BY DEF Queued
  <2> QED
    BY <1>1, <2>1, <2>2, <2>3, <2>4, <2>5 DEF Places
<1>3. Budget'
  <2>1. \A s \in Slots : slots'[s] # Free => s # slot /\ slots'[s] = slots[s] /\ out'[slots[s]] = out[slots[s]]
    BY <1>1 DEF InHandNow, OthersKeep
  <2> QED
    BY <1>1, <2>1 DEF Budget, OthersKeep
<1> QED
  BY <1>2, <1>3

LEMMA GrownTypes ==
  ASSUME InprocTypeOK, NEW j \in Jobs, NEW o \in Outputs, o.batched <= o.tokens, out' = [out EXCEPT ![j] = o]
  PROVE  out' \in [Jobs -> Outputs] /\ OthersKeep(j) /\ out'[j].batched <= out'[j].tokens
BY DEF InprocTypeOK, OthersKeep

LEMMA AnswerTypes ==
  ASSUME InprocTypeOK, NEW js, NEW r \in {"none", "ok", "err", "fatal"}, Answer(js, r)
  PROVE  reply' \in [Jobs -> {"new", "none", "ok", "err", "fatal"}]
BY DEF InprocTypeOK, Answer

LEMMA EmitTokenServes ==
  ASSUME Serving, EmitToken
  PROVE  Serving'
<1> USE DEF health, Queues
<1>1. InprocTypeOK /\ InHandNow /\ at = "emit" /\ Sample(Current) /\ Current \in Jobs
  BY InHandPlace, SlotMoves DEF Serving, EmitToken, InHandNow
<1>2. out[Current].tokens < MaxNew /\ out[Current].batched <= out[Current].tokens
  BY <1>1 DEF Serving, Budget, EmitToken, Current, InHand, InHandNow
<1>3. Grows(Current) /\ at' \in {"stop", "call", "finish"} /\ UNCHANGED <<slot, phase>>
  BY <1>1, <1>2, SampleGrows
<1>4. PICK o : Grown(o) /\ out' = [out EXCEPT ![Current] = o]
  BY <1>3 DEF Grows
<1>5. out' \in [Jobs -> Outputs] /\ OthersKeep(Current) /\ out'[Current].batched <= out'[Current].tokens
  BY <1>1, <1>4, GrownTypes DEF Grown
<1>6. Places' /\ Budget'
  BY <1>1, <1>3, <1>5, GrowthKeeps DEF EmitToken, InHand
<1>7. Cells' /\ FatalMarked'
  BY <1>3 DEF EmitToken, Serving, Cells, FatalMarked
<1>8. InprocTypeOK'
  BY <1>1, <1>3, <1>5 DEF EmitToken, Grows, Piped, InprocTypeOK
<1> QED
  BY <1>6, <1>7, <1>8 DEF Serving

LEMMA SendCallServes ==
  ASSUME Serving, SendCall \/ SendLastCall
  PROVE  Serving'
<1> USE DEF health, Queues, GoTo
<1>1. InprocTypeOK /\ InHandNow /\ at \in {"call", "lastcall"} /\ Current \in Jobs /\ out[Current] \in Outputs
      /\ out[Current].batched <= out[Current].tokens
  BY InHandPlace DEF Serving, SendCall, SendLastCall, InHandNow, InHand, InprocTypeOK, Budget
<1>2. out' \in [Jobs -> Outputs] /\ OthersKeep(Current) /\ out'[Current].batched <= out'[Current].tokens /\ Piped'
  <2>1. CASE CanSend(Current) /\ pipe' = [pipe EXCEPT ![Current] = Append(@, <<-Len(out[Current].made)>>)] /\ UNCHANGED out
    <3>1. -Len(out[Current].made) \in Int
      BY <1>1, OutputFields, LenProperties
    <3>2. <<-Len(out[Current].made)>> \in Seq(Int)
      BY <3>1
    <3>3. Piped'
      BY <1>1, <2>1, <3>2, PipeTakes
    <3> QED
      BY <1>1, <2>1, <3>3 DEF OthersKeep, InprocTypeOK
  <2>2. CASE out' = [out EXCEPT ![Current].dropped = TRUE] /\ UNCHANGED pipe
    <3>1. [out[Current] EXCEPT !.dropped = TRUE] \in Outputs
          /\ [out[Current] EXCEPT !.dropped = TRUE].batched <= [out[Current] EXCEPT !.dropped = TRUE].tokens
      BY <1>1 DEF Outputs
    <3>2. out' = [out EXCEPT ![Current] = [out[Current] EXCEPT !.dropped = TRUE]]
      BY <2>2
    <3> QED
      BY <1>1, <2>2, <3>1, <3>2, GrownTypes DEF Piped, InprocTypeOK
  <2>3. CASE UNCHANGED <<out, pipe>>
    BY <1>1, <2>3 DEF OthersKeep, Piped, InprocTypeOK
  <2> QED
    BY <2>1, <2>2, <2>3 DEF SendCall, SendLastCall
<1>3. Places' /\ Budget'
  BY <1>1, <1>2, GrowthKeeps DEF SendCall, SendLastCall, InHand
<1>4. Cells' /\ FatalMarked'
  BY DEF SendCall, SendLastCall, Serving, Cells, FatalMarked
<1>5. InprocTypeOK'
  BY <1>1, <1>2 DEF SendCall, SendLastCall, Piped, InprocTypeOK
<1> QED
  BY <1>3, <1>4, <1>5 DEF Serving

(* What is due is tried again after a call, and what the scanner held is a *)
(* call after all.                                                         *)
LEMMA CallFlushesServe ==
  ASSUME Serving, FlushAgain \/ FinishCall
  PROVE  Serving'
<1> USE DEF health, Queues, GoTo
<1>1. InprocTypeOK /\ InHandNow /\ at \in {"again", "finish"} /\ Current \in Jobs /\ Grown(out[Current])
  BY InHandPlace DEF Serving, FlushAgain, FinishCall, InHandNow, InHand, InprocTypeOK, Budget, Grown
<1>2. Grows(Current)
  BY <1>1, DueGrows, WithTextOk, FlushGrows DEF FlushAgain, FinishCall
<1>3. PICK o : Grown(o) /\ out' = [out EXCEPT ![Current] = o]
  BY <1>2 DEF Grows
<1>4. out' \in [Jobs -> Outputs] /\ OthersKeep(Current) /\ out'[Current].batched <= out'[Current].tokens
  BY <1>1, <1>3, GrownTypes DEF Grown
<1>5. Places' /\ Budget'
  BY <1>1, <1>4, GrowthKeeps DEF FlushAgain, FinishCall, InHand
<1>6. Cells' /\ FatalMarked'
  BY DEF FlushAgain, FinishCall, Serving, Cells, FatalMarked
<1>7. InprocTypeOK'
  BY <1>1, <1>2, <1>4 DEF FlushAgain, FinishCall, Grows, Piped, InprocTypeOK
<1> QED
  BY <1>5, <1>6, <1>7 DEF Serving

LEMMA SendTailServes ==
  ASSUME Serving, SendTail
  PROVE  Serving'
<1> USE DEF health, Queues, GoTo
<1>1. InprocTypeOK /\ InHandNow /\ at = "tail" /\ Current \in Jobs /\ out[Current] \in Outputs
      /\ out[Current].batched <= out[Current].tokens
  BY InHandPlace DEF Serving, SendTail, InHandNow, InHand, InprocTypeOK, Budget
<1>2. Piped'
  BY <1>1, OutputFields, PipeTakes DEF SendTail
<1>3. out' \in [Jobs -> Outputs] /\ OthersKeep(Current) /\ out'[Current].batched <= out'[Current].tokens
  <2>1. [out[Current] EXCEPT !.pending = <<>>] \in Outputs
        /\ [out[Current] EXCEPT !.pending = <<>>].batched <= [out[Current] EXCEPT !.pending = <<>>].tokens
    BY <1>1, EmptySeq DEF Outputs
  <2>2. out' = [out EXCEPT ![Current] = [out[Current] EXCEPT !.pending = <<>>]]
    BY DEF SendTail
  <2> QED
    BY <1>1, <2>1, <2>2, GrownTypes
<1>4. Places' /\ Budget'
  BY <1>1, <1>3, GrowthKeeps DEF SendTail, InHand
<1>5. Cells' /\ FatalMarked'
  BY DEF SendTail, Serving, Cells, FatalMarked
<1>6. InprocTypeOK'
  BY <1>1, <1>2, <1>3 DEF SendTail, Piped, InprocTypeOK
<1> QED
  BY <1>4, <1>5, <1>6 DEF Serving

(* The answer of the job in hand, and the cells of its slot.               *)
LEMMA SettledTypes ==
  ASSUME Serving, InHandNow, NEW r \in {"none", "ok", "err", "fatal"},
         Settled(Current, r)
  PROVE  /\ slots' = [slots EXCEPT ![slot] = Free] /\ slots' \in [Slots -> Jobs \cup {Free}]
         /\ reply' = [j \in Jobs |-> IF j = Current THEN r ELSE reply[j]]
         /\ reply' \in [Jobs -> {"new", "none", "ok", "err", "fatal"}]
         /\ at' \in {"admit", "emit"} /\ slot' \in 1 .. MaxSlots + 1 /\ phase' = phase
         /\ r # "fatal" => \A j \in Jobs : reply'[j] = "fatal" => reply[j] = "fatal"
<1>1. InprocTypeOK /\ slot \in Slots
  BY DEF Serving, InHandNow
<1>2. slots' = [slots EXCEPT ![slot] = Free] /\ Answer({Current}, r) /\ at' = phase /\ slot' = slot + 1 /\ phase' = phase
  BY DEF Settled, NextSlot
<1>3. reply' = [j \in Jobs |-> IF j = Current THEN r ELSE reply[j]]
  BY <1>2 DEF Answer
<1>4. reply' \in [Jobs -> {"new", "none", "ok", "err", "fatal"}]
  BY <1>1, <1>2, AnswerTypes
<1>5. slots' \in [Slots -> Jobs \cup {Free}]
  BY <1>1, <1>2 DEF InprocTypeOK, Free
<1>6. slot' \in 1 .. MaxSlots + 1
  BY <1>1, <1>2, SlotMoves
<1> QED
  BY <1>1, <1>2, <1>3, <1>4, <1>5, <1>6 DEF InprocTypeOK

LEMMA FinishTypes ==
  ASSUME Serving, FinishOk
  PROVE  /\ out' \in [Jobs -> Outputs] /\ OthersKeep(Current) /\ out'[Current].batched <= out'[Current].tokens
         /\ kv' \in [Slots -> Jobs \cup {Free}] /\ \A s \in Slots : kv'[s] = IF s = slot THEN Free ELSE kv[s]
<1>1. InprocTypeOK /\ InHandNow /\ Current \in Jobs /\ slot \in Slots
  BY InHandPlace DEF Serving, FinishOk, InHandNow, InHand
<1>2. out[Current] \in Outputs /\ out[Current].batched <= out[Current].tokens
  BY <1>1 DEF Serving, InprocTypeOK, Budget
<1> DEFINE h == [out[Current] EXCEPT !.held = FALSE]
           o == IF out[Current].held THEN WithText(h) ELSE out[Current]
<1>3. h \in Outputs /\ h.batched = out[Current].batched /\ h.tokens = out[Current].tokens
  BY <1>2 DEF Outputs
<1>4. WithText(h) \in Outputs /\ WithText(h).batched = h.batched /\ WithText(h).tokens = h.tokens
  <2>1. Number(h) \in Int /\ h.made \in Seq(Int) /\ h.pending \in Seq(Int)
    BY <1>3, OutputFields, NumberIsInt
  <2>2. Append(h.made, Number(h)) \in Seq(Int) /\ Append(h.pending, Number(h)) \in Seq(Int)
    BY <2>1, AppendProperties
  <2> HIDE DEF h
  <2> QED
    BY <1>3, <2>2 DEF WithText, Outputs
<1>5. o \in Outputs /\ o.batched <= o.tokens
  <2> HIDE DEF h
  <2> QED
    BY <1>2, <1>3, <1>4
<1>6. out' = [out EXCEPT ![Current] = o]
  BY DEF FinishOk
<1>7. out' \in [Jobs -> Outputs] /\ OthersKeep(Current) /\ out'[Current].batched <= out'[Current].tokens
  <2> HIDE DEF o
  <2> QED
    BY <1>1, <1>5, <1>6, GrownTypes
<1>8. kv' = [kv EXCEPT ![slot] = Free] /\ kv \in [Slots -> Jobs \cup {Free}]
  BY <1>1 DEF FinishOk, InprocTypeOK
<1> QED
  BY <1>1, <1>7, <1>8 DEF Free

LEMMA FinishOkServes ==
  ASSUME Serving, FinishOk
  PROVE  Serving'
<1> USE DEF health, streams, Queues, GoTo
<1>1. InprocTypeOK /\ InHandNow /\ at = "finish" /\ Current \in Jobs
  BY InHandPlace DEF Serving, FinishOk, InHandNow, InHand
<1>2. /\ out' \in [Jobs -> Outputs] /\ OthersKeep(Current) /\ out'[Current].batched <= out'[Current].tokens
      /\ kv' \in [Slots -> Jobs \cup {Free}] /\ \A s \in Slots : kv'[s] = IF s = slot THEN Free ELSE kv[s]
  BY FinishTypes
<1>3. CASE at' \in {"done", "tail"} /\ UNCHANGED <<slot, phase, slots, reply>>
  <2>1. Places' /\ Budget'
    BY <1>1, <1>2, <1>3, GrowthKeeps DEF FinishOk, InHand
  <2>2. Cells' /\ FatalMarked'
    BY <1>1, <1>2, <1>3 DEF FinishOk, Serving, Cells, FatalMarked, InHandNow
  <2>3. InprocTypeOK'
    BY <1>1, <1>2, <1>3 DEF FinishOk, InprocTypeOK
  <2> QED
    BY <2>1, <2>2, <2>3 DEF Serving
<1>4. CASE Settled(Current, "ok")
  <2>1. /\ slots' = [slots EXCEPT ![slot] = Free] /\ slots' \in [Slots -> Jobs \cup {Free}]
        /\ reply' = [j \in Jobs |-> IF j = Current THEN "ok" ELSE reply[j]]
        /\ reply' \in [Jobs -> {"new", "none", "ok", "err", "fatal"}]
        /\ at' \in {"admit", "emit"} /\ slot' \in 1 .. MaxSlots + 1 /\ phase' = phase
        /\ \A j \in Jobs : reply'[j] = "fatal" => reply[j] = "fatal"
    BY <1>1, <1>4, SettledTypes
  <2>2. Places' /\ Budget'
    BY <1>1, <1>2, <2>1, SettleKeeps DEF FinishOk, InHand
  <2>3. Cells'
    BY <1>1, <1>2, <2>1 DEF Serving, Cells, InprocTypeOK
  <2>4. FatalMarked'
    BY <2>1 DEF FinishOk, Serving, FatalMarked
  <2>5. InprocTypeOK'
    BY <1>1, <1>2, <2>1 DEF FinishOk, InprocTypeOK
  <2> QED
    BY <2>2, <2>3, <2>4, <2>5 DEF Serving
<1> QED
  BY <1>3, <1>4 DEF FinishOk

LEMMA SettlingServes ==
  ASSUME Serving, SendDone \/ Undeliverable
  PROVE  Serving'
<1> USE DEF health, streams, Queues
<1>1. InprocTypeOK /\ InHandNow /\ at \in {"tail", "done"} /\ Current \in Jobs /\ slot \in Slots
  BY InHandPlace DEF Serving, SendDone, Undeliverable, InHandNow, InHand
<1>2. PICK r \in {"ok", "err"} : Settled(Current, r)
  BY DEF SendDone, Undeliverable, Undelivered
<1>3. /\ slots' = [slots EXCEPT ![slot] = Free] /\ slots' \in [Slots -> Jobs \cup {Free}]
      /\ reply' = [j \in Jobs |-> IF j = Current THEN r ELSE reply[j]]
      /\ reply' \in [Jobs -> {"new", "none", "ok", "err", "fatal"}]
      /\ at' \in {"admit", "emit"} /\ slot' \in 1 .. MaxSlots + 1 /\ phase' = phase
      /\ \A j \in Jobs : reply'[j] = "fatal" => reply[j] = "fatal"
  BY <1>1, <1>2, SettledTypes
<1>4. Piped'
  <2>1. CASE SendDone
    <3>1. <<Done>> \in Seq(Int)
      BY DEF Done
    <3> QED
      BY <1>1, <2>1, <3>1, PipeTakes DEF SendDone
  <2>2. CASE Undeliverable
    BY <1>1, <2>2 DEF Undeliverable, Piped, InprocTypeOK
  <2> QED
    BY <2>1, <2>2
<1>5. UNCHANGED <<health, Queues, kv, mode, out, client, got>>
  BY DEF SendDone, Undeliverable
<1>6. OthersKeep(Current) /\ out'[Current].batched <= out'[Current].tokens
  BY <1>1, <1>5 DEF OthersKeep, Serving, Budget
<1>7. Places' /\ Budget'
  BY <1>1, <1>3, <1>5, <1>6, SettleKeeps DEF InHand
<1>8. Cells'
  BY <1>1, <1>3, <1>5 DEF Serving, Cells, InprocTypeOK
<1>9. FatalMarked'
  BY <1>3, <1>5 DEF Serving, FatalMarked
<1>10. InprocTypeOK'
  BY <1>1, <1>3, <1>4, <1>5 DEF InprocTypeOK, Piped
<1> QED
  BY <1>7, <1>8, <1>9, <1>10 DEF Serving

LEMMA AnswerFailedServes ==
  ASSUME Serving, AnswerFailed
  PROVE  Serving'
<1> USE DEF health, streams, Queues
<1>1. InprocTypeOK /\ slot \in Slots /\ at = "failing" /\ at' = "failing" /\ slot' = slot + 1 /\ phase' = phase
      /\ UNCHANGED <<health, inbox, waiting, mode, out, streams>>
  BY SlotMoves DEF Serving, AnswerFailed
<1>2. slot' \in 1 .. MaxSlots + 1
  BY <1>1, SlotMoves
<1>3. CASE Current = Free
  <2>1. UNCHANGED <<slots, kv, reply>>
    BY <1>3 DEF AnswerFailed
  <2>2. Places' /\ Budget' /\ Cells' /\ FatalMarked'
    BY <1>1, <2>1, QuietKeeps DEF InHand, Rows, Serving, FatalMarked
  <2>3. InprocTypeOK'
    BY <1>1, <1>2, <2>1 DEF InprocTypeOK
  <2> QED
    BY <2>2, <2>3 DEF Serving
<1>4. CASE Current # Free
  <2>1. InHandNow /\ Current \in Jobs
    BY <1>1, <1>4, InHandPlace DEF InHandNow
  <2>2. PICK r \in {"fatal", "err"} : Answer({Current}, r) /\ (r = "fatal" => fatal)
    BY <1>4 DEF AnswerFailed
  <2>3. /\ kv' = [kv EXCEPT ![slot] = Free] /\ slots' = [slots EXCEPT ![slot] = Free]
        /\ reply' = [j \in Jobs |-> IF j = Current THEN r ELSE reply[j]]
    BY <1>4, <2>2 DEF AnswerFailed, Answer
  <2>4. reply' \in [Jobs -> {"new", "none", "ok", "err", "fatal"}]
    BY <1>1, <2>2, AnswerTypes
  <2>5. OthersKeep(Current) /\ out'[Current].batched <= out'[Current].tokens
    BY <1>1, <2>1 DEF OthersKeep, Serving, Budget
  <2>6. Places' /\ Budget'
    BY <1>1, <2>1, <2>3, <2>5, SettleKeeps DEF InHand
  <2>7. Cells'
    BY <1>1, <2>3 DEF Serving, Cells, InprocTypeOK
  <2>8. FatalMarked'
    BY <1>1, <2>2, <2>3 DEF Serving, FatalMarked
  <2>9. slots' \in [Slots -> Jobs \cup {Free}] /\ kv' \in [Slots -> Jobs \cup {Free}]
    BY <1>1, <2>3 DEF InprocTypeOK, Free
  <2>10. InprocTypeOK'
    BY <1>1, <1>2, <2>4, <2>9 DEF InprocTypeOK
  <2> QED
    BY <2>6, <2>7, <2>8, <2>10 DEF Serving
<1> QED
  BY <1>3, <1>4

(* Steps of the queues.  A job comes...                                    *)
LEMMA GiveServes ==
  ASSUME Serving, NEW j \in Jobs, Give(j)
  PROVE  Serving'
<1> USE DEF health, streams, thread, Queues
<1>1. InprocTypeOK /\ Places /\ Budget /\ Cells /\ FatalMarked /\ reply[j] = "new"
      /\ UNCHANGED <<thread, health, waiting, slots, kv, mode, out, streams>>
  BY DEF Serving, Give
<1>2. ~Queued(j) /\ ~Seated(j) /\ out[j] = NoOutput
  BY <1>1 DEF Places
<1>3. PICK r \in {"none", "err"} : Answer({j}, r) /\ inbox' = IF r = "none" THEN Append(inbox, j) ELSE inbox
  BY DEF Give
<1>4. /\ reply' \in [Jobs -> {"new", "none", "ok", "err", "fatal"}]
      /\ \A i \in Jobs : reply'[i] = IF i = j THEN r ELSE reply[i]
  BY <1>1, <1>3, AnswerTypes DEF Answer
<1>5. /\ inbox' \in Seq(Jobs) /\ Distinct(inbox')
      /\ \A x : Within(inbox', x) <=> Within(inbox, x) \/ (r = "none" /\ x = j)
  <2>1. inbox \in Seq(Jobs) /\ Distinct(inbox) /\ ~Within(inbox, j)
    BY <1>1, <1>2 DEF InprocTypeOK, Places, Queued
  <2>2. CASE r = "none"
    <3>1. inbox' = Append(inbox, j)
      BY <1>3, <2>2
    <3>2. /\ Append(inbox, j) \in Seq(Jobs) /\ Distinct(Append(inbox, j))
          /\ \A x : Within(Append(inbox, j), x) <=> Within(inbox, x) \/ x = j
      BY <2>1, WithinAppend
    <3> QED
      BY <2>2, <3>1, <3>2
  <2>3. CASE r # "none"
    BY <1>3, <2>1, <2>3
  <2> QED
    BY <2>2, <2>3
<1>6. Places'
  <2>1. \A i \in Jobs : Queued(i)' => Queued(i) \/ (i = j /\ reply'[i] = "none")
    BY <1>1, <1>4, <1>5 DEF Queued
  <2>2. \A i \in Jobs : Seated(i)' <=> Seated(i)
    BY <1>1 DEF Seated
  <2>3. \A i \in Jobs : ~(Within(inbox', i) /\ Within(waiting', i))
    BY <1>1, <1>2, <1>5 DEF Places, Queued
  <2>4. \A i \in Jobs : Seated(i)' => ~Queued(i)' /\ reply'[i] = "none"
    BY <1>1, <1>2, <1>4, <2>1, <2>2 DEF Places
  <2>5. \A i \in Jobs : Queued(i)' => reply'[i] = "none"
    BY <1>1, <1>2, <1>4, <2>1 DEF Places
  <2>6. \A i \in Jobs : Queued(i)' \/ reply'[i] = "new" => out'[i] = NoOutput
    BY <1>1, <1>2, <1>4, <2>1 DEF Places
  <2>7. Distinct(waiting') /\ \A s, t \in Slots : slots'[s] = slots'[t] /\ slots'[s] # Free => s = t
    BY <1>1 DEF Places
  <2> QED
    BY <1>5, <2>3, <2>4, <2>5, <2>6, <2>7 DEF Places
<1>7. Budget' /\ Cells'
  BY <1>1 DEF Budget, Cells, Current
<1>8. FatalMarked'
  BY <1>1, <1>3, <1>4 DEF FatalMarked
<1>9. InprocTypeOK'
  BY <1>1, <1>4, <1>5 DEF InprocTypeOK
<1> QED
  BY <1>6, <1>7, <1>8, <1>9 DEF Serving

(* ...all that came are taken...                                           *)
LEMMA ReceiveServes ==
  ASSUME Serving, Receive
  PROVE  Serving'
<1>1. InprocTypeOK /\ Places /\ Budget /\ Cells /\ FatalMarked
      /\ UNCHANGED <<loaded, failed, fatal, wedged, connected, slots, kv, mode, out, streams, reply>>
      /\ waiting' = waiting \o inbox /\ inbox' = <<>> /\ at = "recv"
      /\ at' = "admit" /\ slot' = 1 /\ phase' = "admit" /\ busy' = TRUE /\ stale' = FALSE
  BY DEF Serving, Receive, Begin, Busy
<1>2. /\ waiting' \in Seq(Jobs) /\ Distinct(waiting')
      /\ \A x : Within(waiting', x) <=> Within(waiting, x) \/ Within(inbox, x)
  <2>1. waiting \in Seq(Jobs) /\ inbox \in Seq(Jobs) /\ Distinct(waiting) /\ Distinct(inbox)
    BY <1>1 DEF InprocTypeOK, Places
  <2>2. \A x : Within(inbox, x) => x \in Jobs
    BY <2>1 DEF Within
  <2>3. \A x : ~(Within(waiting, x) /\ Within(inbox, x))
    BY <1>1, <2>2 DEF Places
  <2>4. /\ waiting \o inbox \in Seq(Jobs) /\ Distinct(waiting \o inbox)
        /\ \A x : Within(waiting \o inbox, x) <=> Within(waiting, x) \/ Within(inbox, x)
    BY <2>1, <2>3, WithinConcat
  <2> QED
    BY <1>1, <2>4
<1>3. inbox' \in Seq(Jobs) /\ Distinct(inbox') /\ \A x : ~Within(inbox', x)
  BY <1>1, WithinEmpty, EmptySeq
<1>4. Places'
  <2>1. \A j \in Jobs : (Queued(j)' <=> Queued(j)) /\ (Seated(j)' <=> Seated(j))
    BY <1>1, <1>2, <1>3 DEF Queued, Seated
  <2> QED
    BY <1>1, <1>2, <1>3, <2>1 DEF Places
<1>5. Budget'
  BY <1>1 DEF Budget, InHand
<1>6. Cells' /\ FatalMarked'
  <2>1. Cells'
    BY <1>1 DEF Cells
  <2>2. FatalMarked'
    BY <1>1, Zenon DEF FatalMarked
  <2> QED
    BY <2>1, <2>2
<1>7. InprocTypeOK'
  BY <1>1, <1>2, <1>3, SlotMoves DEF InprocTypeOK, streams
<1> QED
  BY <1>4, <1>5, <1>6, <1>7 DEF Serving

(* ...one is refused, or gets a slot, where its first token is sampled...  *)
LEMMA WaitingHead ==
  ASSUME Serving, at = "admit", slot <= MaxSlots, NextToAdmit, waiting' = Tail(waiting)
  PROVE  /\ slot \in Slots /\ waiting' \in Seq(Jobs) /\ Distinct(waiting')
         /\ Head(waiting) \in Jobs /\ Within(waiting, Head(waiting)) /\ ~Within(waiting', Head(waiting))
         /\ ~Within(inbox, Head(waiting)) /\ ~Seated(Head(waiting)) /\ reply[Head(waiting)] = "none"
         /\ out[Head(waiting)] = NoOutput
         /\ \A x : Within(waiting', x) => Within(waiting, x)
<1>1. InprocTypeOK /\ Places /\ waiting # <<>> /\ waiting \in Seq(Jobs) /\ Distinct(waiting) /\ slot \in Slots
  BY SlotMoves DEF Serving, NextToAdmit, InprocTypeOK, Places
<1>2. /\ waiting' \in Seq(Jobs) /\ Head(waiting) \in Jobs /\ Within(waiting, Head(waiting))
      /\ \A x : Within(waiting', x) => Within(waiting, x)
      /\ Distinct(waiting') /\ ~Within(waiting', Head(waiting))
  BY <1>1, WithinTail
<1> QED
  BY <1>1, <1>2 DEF Places, Queued

LEMMA RefuseServes ==
  ASSUME Serving, Refuse
  PROVE  Serving'
<1> DEFINE j == Head(waiting)
<1> USE DEF Queues
<1>1. /\ InprocTypeOK /\ Places /\ Budget /\ Cells /\ FatalMarked /\ slots[slot] = Free
      /\ UNCHANGED <<loaded, fatal, busy, wedged, connected, inbox, slots, mode, out, streams>>
      /\ kv' = [kv EXCEPT ![slot] = Free] /\ stale' = FALSE
      /\ at = "admit" /\ at' = phase /\ slot' = slot + 1 /\ phase' = phase
  BY DEF Serving, Refuse, NextToAdmit, ClearCells, NextSlot
<1>2. /\ slot \in Slots /\ waiting' \in Seq(Jobs) /\ Distinct(waiting')
      /\ j \in Jobs /\ Within(waiting, j) /\ ~Within(waiting', j)
      /\ ~Within(inbox, j) /\ ~Seated(j) /\ reply[j] = "none"
      /\ \A x : Within(waiting', x) => Within(waiting, x)
  BY WaitingHead DEF Refuse
<1>3. PICK r \in {"err", "fatal"} : Answer({j}, r) /\ failed' = (IF r = "fatal" THEN TRUE ELSE failed)
  BY DEF Refuse
<1> HIDE DEF j
<1>4. /\ reply' \in [Jobs -> {"new", "none", "ok", "err", "fatal"}]
      /\ \A i \in Jobs : reply'[i] = IF i = j THEN r ELSE reply[i]
  BY <1>1, <1>3, AnswerTypes DEF Answer
<1>5. Places'
  <2>1. \A i \in Jobs : Queued(i)' => Queued(i) /\ i # j
    BY <1>1, <1>2 DEF Queued
  <2>2. \A i \in Jobs : (Seated(i)' <=> Seated(i)) /\ (Seated(i) => i # j)
    BY <1>1, <1>2 DEF Seated
  <2>3. \A i \in Jobs : ~(Within(inbox', i) /\ Within(waiting', i))
    BY <1>1, <1>2 DEF Places
  <2>4. \A i \in Jobs : Seated(i)' => ~Queued(i)' /\ reply'[i] = "none"
    BY <1>1, <1>4, <2>1, <2>2 DEF Places
  <2>5. \A i \in Jobs : Queued(i)' => reply'[i] = "none"
    BY <1>1, <1>4, <2>1 DEF Places
  <2>6. \A i \in Jobs : Queued(i)' \/ reply'[i] = "new" => out'[i] = NoOutput
    BY <1>1, <1>3, <1>4, <2>1 DEF Places
  <2>7. Distinct(inbox') /\ \A s, t \in Slots : slots'[s] = slots'[t] /\ slots'[s] # Free => s = t
    BY <1>1 DEF Places
  <2> QED
    BY <1>2, <2>3, <2>4, <2>5, <2>6, <2>7 DEF Places
<1>6. phase \in {"admit", "emit"}
  BY <1>1 DEF InprocTypeOK
<1>7. Budget'
  BY <1>1, <1>6 DEF Budget, InHand
<1>8. Cells'
  BY <1>1, <1>2, <1>6 DEF Cells, InprocTypeOK
<1>9. FatalMarked'
  BY <1>1, <1>3, <1>4 DEF FatalMarked
<1>10. kv' \in [Slots -> Jobs \cup {Free}] /\ slot' \in 1 .. MaxSlots + 1
  BY <1>1, <1>2, SlotMoves DEF InprocTypeOK, Free
<1>11. failed' \in BOOLEAN
  BY <1>1, <1>3 DEF InprocTypeOK
<1>12. InprocTypeOK'
  BY <1>1, <1>2, <1>4, <1>6, <1>10, <1>11 DEF InprocTypeOK, streams
<1> QED
  BY <1>5, <1>7, <1>8, <1>9, <1>12 DEF Serving

LEMMA PrefillServes ==
  ASSUME Serving, Prefill
  PROVE  Serving'
<1> DEFINE j == Head(waiting)
<1>1. /\ InprocTypeOK /\ Places /\ Budget /\ Cells /\ FatalMarked /\ slots[slot] = Free
      /\ UNCHANGED <<loaded, failed, fatal, busy, wedged, connected, inbox, mode, client, got, reply>>
      /\ kv' = [kv EXCEPT ![slot] = j] /\ slots' = [slots EXCEPT ![slot] = j] /\ stale' = FALSE
      /\ at = "admit" /\ Sample(j)
  BY DEF Serving, Prefill, NextToAdmit
<1>2. /\ slot \in Slots /\ waiting' \in Seq(Jobs) /\ Distinct(waiting')
      /\ j \in Jobs /\ Within(waiting, j) /\ ~Within(waiting', j)
      /\ ~Within(inbox, j) /\ ~Seated(j) /\ reply[j] = "none" /\ out[j] = NoOutput
      /\ \A x : Within(waiting', x) => Within(waiting, x)
  BY WaitingHead DEF Prefill
<1> HIDE DEF j
<1>3. out[j].tokens < MaxNew /\ out[j].batched <= out[j].tokens
  BY <1>2, InprocAssumption DEF NoOutput
<1>4. Grows(j) /\ at' \in {"stop", "call", "finish"} /\ UNCHANGED <<slot, phase>>
  BY <1>1, <1>2, <1>3, SampleGrows
<1>5. PICK o : Grown(o) /\ out' = [out EXCEPT ![j] = o]
  BY <1>4 DEF Grows
<1>6. out' \in [Jobs -> Outputs] /\ OthersKeep(j) /\ out'[j].batched <= out'[j].tokens
  BY <1>1, <1>2, <1>5, GrownTypes DEF Grown
<1>7. /\ slots' \in [Slots -> Jobs \cup {Free}] /\ kv' \in [Slots -> Jobs \cup {Free}]
      /\ \A s \in Slots : slots'[s] = IF s = slot THEN j ELSE slots[s]
      /\ \A s \in Slots : kv'[s] = IF s = slot THEN j ELSE kv[s]
      /\ Free \notin Jobs /\ j # Free
  BY <1>1, <1>2 DEF InprocTypeOK, Jobs, Free
<1>8. \A s \in Slots : slots[s] # j
  BY <1>2 DEF Seated
<1>9. Places'
  <2>1. \A i \in Jobs : Queued(i)' => Queued(i) /\ i # j
    BY <1>1, <1>2 DEF Queued
  <2>2. \A i \in Jobs : Seated(i)' => Seated(i) \/ i = j
    BY <1>7 DEF Seated
  <2>3. \A i \in Jobs : ~(Within(inbox', i) /\ Within(waiting', i))
    BY <1>1, <1>2 DEF Places
  <2>4. \A i \in Jobs : Seated(i)' => ~Queued(i)' /\ reply'[i] = "none"
    BY <1>1, <1>2, <2>1, <2>2 DEF Places
  <2>5. \A i \in Jobs : Queued(i)' => reply'[i] = "none"
    BY <1>1, <2>1 DEF Places
  <2>6. \A i \in Jobs : Queued(i)' \/ reply'[i] = "new" => out'[i] = NoOutput
    BY <1>1, <1>2, <1>6, <2>1 DEF Places, OthersKeep
  <2>7. Distinct(inbox')
    BY <1>1 DEF Places
  <2>8. \A s, t \in Slots : slots'[s] = slots'[t] /\ slots'[s] # Free => s = t
    BY <1>1, <1>7, <1>8 DEF Places
  <2> QED
    BY <1>2, <2>3, <2>4, <2>5, <2>6, <2>7, <2>8 DEF Places
<1>10. Budget'
  <2>1. \A s \in Slots : slots'[s] # Free => s = slot \/ (slots'[s] = slots[s] /\ out'[slots[s]] = out[slots[s]])
    BY <1>1, <1>7, <1>8, <1>6 DEF OthersKeep, InprocTypeOK
  <2>2. \A s \in Slots : slots[s] # Free => out[slots[s]].tokens < MaxNew
    BY <1>1 DEF Budget, InHand
  <2>3. \A i \in Jobs : out'[i].batched <= out'[i].tokens
    BY <1>1, <1>6 DEF Budget, OthersKeep
  <2>4. Current' = j
    BY <1>2, <1>4, <1>7 DEF Current
  <2> QED
    BY <1>2, <1>4, <1>7, <2>1, <2>2, <2>3, <2>4 DEF Budget, InHand
<1>11. Cells'
  BY <1>1, <1>2, <1>4, <1>7 DEF Cells
<1>12. FatalMarked'
  BY <1>1, Zenon DEF FatalMarked
<1>13. InprocTypeOK'
  BY <1>1, <1>2, <1>4, <1>6, <1>7 DEF InprocTypeOK, Grows, Piped
<1> QED
  BY <1>9, <1>10, <1>11, <1>12, <1>13 DEF Serving

(* ...and in the end all are answered.                                     *)
LEMMA TeardownServes ==
  ASSUME Serving, Teardown
  PROVE  Serving'
<1>1. /\ InprocTypeOK /\ Places /\ Budget /\ Cells /\ FatalMarked /\ at = "recv"
      /\ UNCHANGED <<slot, phase, failed, fatal, stale, wedged, connected, mode, out, streams>>
      /\ Answer({j \in Jobs : reply[j] = "none"}, "err")
      /\ slots' = [s \in Slots |-> Free] /\ kv' = [s \in Slots |-> Free]
      /\ inbox' = <<>> /\ waiting' = <<>> /\ at' = "gone" /\ loaded' = FALSE /\ busy' = FALSE
  BY DEF Serving, Teardown, GoTo
<1>2. /\ reply' \in [Jobs -> {"new", "none", "ok", "err", "fatal"}]
      /\ \A i \in Jobs : reply'[i] = IF reply[i] = "none" THEN "err" ELSE reply[i]
  BY <1>1, AnswerTypes DEF Answer
<1>3. \A i \in Jobs : ~Queued(i)' /\ ~Seated(i)'
  BY <1>1, WithinEmpty DEF Queued, Seated, Jobs, Free
<1>4. Places'
  <2>1. \A i \in Jobs : reply'[i] = "new" => out'[i] = NoOutput
    BY <1>1, <1>2 DEF Places
  <2>2. \A i \in Jobs : ~(Within(inbox', i) /\ Within(waiting', i))
    BY <1>1, WithinEmpty
  <2>3. Distinct(inbox') /\ Distinct(waiting')
    BY <1>1, WithinEmpty
  <2>4. \A s, t \in Slots : slots'[s] = slots'[t] /\ slots'[s] # Free => s = t
    BY <1>1
  <2> QED
    BY <1>3, <2>1, <2>2, <2>3, <2>4 DEF Places
<1>5. Budget' /\ Cells'
  BY <1>1 DEF Budget, Cells, InHand
<1>6. FatalMarked'
  BY <1>1, <1>2 DEF FatalMarked
<1>7. InprocTypeOK'
  BY <1>1, <1>2, EmptySeq DEF InprocTypeOK, streams
<1> QED
  BY <1>4, <1>5, <1>6, <1>7 DEF Serving

LEMMA ServingStarts ==
  ASSUME InprocInit
  PROVE  Serving
<1>1. InprocTypeOK
  <2>1. NoOutput \in Outputs
    BY InprocAssumption, EmptySeq DEF NoOutput, Outputs
  <2>2. slot \in 1 .. MaxSlots + 1
    BY InprocAssumption DEF InprocInit
  <2>3. \A j \in Jobs : Len(pipe[j]) <= PipeCap
    BY InprocAssumption, EmptySeq DEF InprocInit
  <2>4. <<>> \in Seq(Jobs) /\ <<>> \in Seq(Int) /\ <<>> \in Seq(Seq(Int))
    BY EmptySeq
  <2> QED
    BY <2>1, <2>2, <2>3, <2>4 DEF InprocInit, InprocTypeOK, Free
<1>2. Places
  <2>1. \A j \in Jobs : ~Queued(j) /\ ~Seated(j)
    BY WithinEmpty DEF InprocInit, Queued, Seated, Jobs, Free
  <2> QED
    BY <2>1, WithinEmpty DEF InprocInit, Places
<1>3. Budget /\ Cells /\ FatalMarked
  BY DEF InprocInit, Budget, Cells, FatalMarked, InHand, NoOutput
<1> QED
  BY <1>1, <1>2, <1>3 DEF Serving

LEMMA ServingSteps ==
  ASSUME Serving, [InprocNext]_inprocVars
  PROVE  Serving'
<1>1. CASE UNCHANGED inprocVars
  BY <1>1 DEF inprocVars, Serving, InprocTypeOK, Places, Budget, Cells, FatalMarked, Queued, Seated, Current
<1>2. CASE QuietNext
  BY <1>2, QuietServes
<1>3. ASSUME NEW j \in Jobs, Give(j) PROVE Serving'
  BY <1>3, GiveServes
<1>4. CASE EmitToken \/ SendCall \/ SendLastCall \/ FlushAgain \/ FinishCall \/ SendTail
  BY <1>4, EmitTokenServes, SendCallServes, CallFlushesServe, SendTailServes
<1>5. CASE FinishOk \/ SendDone \/ Undeliverable \/ AnswerFailed
  BY <1>5, FinishOkServes, SettlingServes, AnswerFailedServes
<1>6. CASE Receive \/ Refuse \/ Prefill \/ Teardown
  BY <1>6, ReceiveServes, RefuseServes, PrefillServes, TeardownServes
<1> QED
  BY <1>1, <1>2, <1>3, <1>4, <1>5, <1>6 DEF InprocNext, InprocWorker, QuietNext

-----------------------------------------------------------------------------
(* What a sequence of pieces of output says: its texts, in the order of    *)
(* their numbers, tool calls, and that it is done.                         *)
Says(s, n) == \E i \in DOMAIN s : s[i] = n
Before(s, t) == \A x, y \in Int : x > Done /\ y > Done /\ Says(s, x) /\ Says(t, y) => x < y
IntSeq(s) == s \in Seq(Int) /\ Len(s) \in Nat /\ DOMAIN s = 1 .. Len(s) /\ \A i \in DOMAIN s : s[i] \in Int

LEMMA IntSeqs ==
  ASSUME NEW s \in Seq(Int)
  PROVE  IntSeq(s) /\ \A n : Says(s, n) => n \in Int
<1>1. Len(s) \in Nat /\ DOMAIN s = 1 .. Len(s) /\ \A i \in 1 .. Len(s) : s[i] \in Int
  BY LenProperties, ElementOfSeq
<1> QED
  BY <1>1 DEF IntSeq, Says

LEMMA SaysTexts ==
  ASSUME NEW s \in Seq(Int)
  PROVE  /\ \A n : n \in Texts(s) <=> Says(s, n) /\ n > Done
         /\ Done \in Range(s) <=> Says(s, Done)
<1>1. \A n : n \in Range(s) <=> Says(s, n)
  BY DEF Range, Says
<1> QED
  BY <1>1 DEF Texts

LEMMA SaysNil ==
  Ascending(<<>>) /\ \A n : ~Says(<<>>, n)
BY DEF Ascending, Says

LEMMA SaysAppend ==
  ASSUME NEW s \in Seq(Int), NEW e \in Int
  PROVE  /\ Append(s, e) \in Seq(Int)
         /\ \A n : Says(Append(s, e), n) <=> Says(s, n) \/ n = e
         /\ Ascending(s) /\ (\A n \in Int : n > Done /\ e > Done /\ Says(s, n) => n < e) => Ascending(Append(s, e))
<1> DEFINE u == Append(s, e)
<1>0. /\ u \in Seq(Int) /\ Len(u) = Len(s) + 1
      /\ \A i \in 1 .. Len(s) : u[i] = s[i]
      /\ u[Len(s) + 1] = e
  BY AppendProperties
<1> HIDE DEF u
<1>1. IntSeq(s) /\ IntSeq(u)
  BY <1>0, IntSeqs
<1>2. /\ Len(s) + 1 \in DOMAIN u
      /\ \A i \in DOMAIN u : i \in DOMAIN s \/ i = Len(s) + 1
      /\ \A i \in DOMAIN s : i \in DOMAIN u /\ u[i] = s[i] /\ i < Len(s) + 1 /\ s[i] \in Int
      /\ Len(s) + 1 \notin DOMAIN s
  BY <1>0, <1>1 DEF IntSeq
<1>3. \A n : Says(u, n) <=> Says(s, n) \/ n = e
  BY <1>0, <1>2, Zenon DEF Says
<1>4. ASSUME Ascending(s), \A n \in Int : n > Done /\ e > Done /\ Says(s, n) => n < e PROVE Ascending(u)
  <2> SUFFICES ASSUME NEW i \in DOMAIN u, NEW k \in DOMAIN u, i < k, u[i] > Done, u[k] > Done PROVE u[i] < u[k]
    BY DEF Ascending
  <2>1. i \in DOMAIN s
    BY <1>0, <1>1 DEF IntSeq
  <2>2. CASE k \in DOMAIN s
    BY <1>2, <1>4, <2>1, <2>2 DEF Ascending
  <2>3. CASE k = Len(s) + 1
    <3>1. u[i] = s[i] /\ u[k] = e /\ Says(s, s[i]) /\ s[i] \in Int
      BY <1>0, <1>2, <2>1, <2>3 DEF Says
    <3> QED
      BY <1>4, <3>1
  <2> QED
    BY <1>2, <2>2, <2>3
<1> QED
  BY <1>0, <1>3, <1>4 DEF u

LEMMA SaysConcat ==
  ASSUME NEW s \in Seq(Int), NEW t \in Seq(Int)
  PROVE  /\ s \o t \in Seq(Int)
         /\ \A n : Says(s \o t, n) <=> Says(s, n) \/ Says(t, n)
         /\ Ascending(s) /\ Ascending(t) /\ Before(s, t) => Ascending(s \o t)
<1> DEFINE u == s \o t
           a == Len(s)
           b == Len(t)
<1>1. /\ a \in Nat /\ b \in Nat /\ u \in Seq(Int) /\ Len(u) = a + b
      /\ \A i \in 1 .. a + b : u[i] = IF i <= a THEN s[i] ELSE t[i - a]
  BY ConcatProperties, LenProperties
<1>2. /\ DOMAIN s = 1 .. a /\ DOMAIN t = 1 .. b /\ DOMAIN u = 1 .. a + b
      /\ \A i \in DOMAIN s : s[i] \in Int
      /\ \A i \in DOMAIN t : t[i] \in Int
  BY <1>1, LenProperties, ElementOfSeq
<1> HIDE DEF u, a, b
<1>3. \A i \in DOMAIN s : i \in DOMAIN u /\ u[i] = s[i]
  BY <1>1, <1>2
<1>4. \A i \in DOMAIN t : a + i \in DOMAIN u /\ u[a + i] = t[i]
  <2> SUFFICES ASSUME NEW i \in DOMAIN t PROVE a + i \in DOMAIN u /\ u[a + i] = t[i]
    OBVIOUS
  <2>1. a + i \in 1 .. a + b /\ ~(a + i <= a) /\ (a + i) - a = i
    BY <1>1, <1>2
  <2> QED
    BY <1>1, <1>2, <2>1
<1>5. \A i \in DOMAIN u : (i \in DOMAIN s /\ u[i] = s[i]) \/ (i - a \in DOMAIN t /\ u[i] = t[i - a] /\ i > a)
  BY <1>1, <1>2
<1>6. \A n : Says(u, n) <=> Says(s, n) \/ Says(t, n)
  <2>1. \A n : Says(s, n) \/ Says(t, n) => Says(u, n)
    BY <1>3, <1>4 DEF Says
  <2>2. \A n : Says(u, n) => Says(s, n) \/ Says(t, n)
    BY <1>5 DEF Says
  <2> QED
    BY <2>1, <2>2
<1>7. ASSUME Ascending(s), Ascending(t), Before(s, t) PROVE Ascending(u)
  <2> SUFFICES ASSUME NEW i \in DOMAIN u, NEW k \in DOMAIN u, i < k, u[i] > Done, u[k] > Done PROVE u[i] < u[k]
    BY DEF Ascending
  <2>1. i \in Nat /\ k \in Nat
    BY <1>1, <1>2
  <2>2. CASE i \in DOMAIN s /\ k \in DOMAIN s
    BY <1>3, <1>7, <2>2 DEF Ascending
  <2>3. CASE i \in DOMAIN s /\ k \notin DOMAIN s
    <3>1. u[i] = s[i] /\ u[k] = t[k - a] /\ k - a \in DOMAIN t
      BY <1>3, <1>5, <2>3
    <3>2. Says(s, u[i]) /\ Says(t, u[k]) /\ u[i] \in Int /\ u[k] \in Int
      BY <1>2, <2>3, <3>1 DEF Says
    <3> QED
      BY <1>7, <3>2 DEF Before
  <2>4. CASE i \notin DOMAIN s
    <3>1. i > a /\ i - a \in DOMAIN t /\ u[i] = t[i - a]
      BY <1>5, <2>4
    <3>2. k \notin DOMAIN s
      BY <1>1, <1>2, <2>1, <3>1
    <3>3. k - a \in DOMAIN t /\ u[k] = t[k - a]
      BY <1>5, <3>2
    <3>4. i - a < k - a
      BY <1>1, <2>1
    <3> QED
      BY <1>7, <3>1, <3>3, <3>4 DEF Ascending
  <2> QED
    BY <2>2, <2>3, <2>4
<1> QED
  BY <1>1, <1>6, <1>7 DEF u

(* The pieces in a channel, when one is sent and when one is read.         *)
LEMMA PiecesAppend ==
  ASSUME NEW S, NEW p \in Seq(S), NEW e \in S, NEW u, u = Append(p, e)
  PROVE  /\ u \in Seq(S) /\ Len(u) \in DOMAIN u /\ u[Len(u)] = e /\ Len(u) \notin DOMAIN p
         /\ \A i \in DOMAIN u : i = Len(u) \/ i \in DOMAIN p
         /\ \A i \in DOMAIN p : i \in DOMAIN u /\ u[i] = p[i] /\ i < Len(u) /\ i \in Int
<1>1. /\ u \in Seq(S) /\ Len(u) = Len(p) + 1
      /\ \A i \in 1 .. Len(p) : u[i] = p[i]
      /\ u[Len(p) + 1] = e
  BY AppendProperties
<1>2. Len(p) \in Nat /\ DOMAIN p = 1 .. Len(p) /\ DOMAIN u = 1 .. Len(p) + 1
  BY <1>1, LenProperties
<1> QED
  BY <1>1, <1>2

LEMMA PiecesTail ==
  ASSUME NEW S, NEW p \in Seq(S), p # <<>>, NEW u, u = Tail(p)
  PROVE  /\ u \in Seq(S) /\ Head(p) \in S /\ Head(p) = p[1] /\ 1 \in DOMAIN p /\ Len(u) + 1 = Len(p)
         /\ \A i \in DOMAIN u : i \in Int /\ i + 1 \in DOMAIN p /\ u[i] = p[i + 1] /\ 1 < i + 1
         /\ \A i \in DOMAIN p : i = 1 \/ (i - 1 \in DOMAIN u /\ u[i - 1] = p[i])
<1>1. /\ Len(p) \in Nat /\ Len(p) # 0 /\ Head(p) = p[1] /\ Head(p) \in S
      /\ u \in Seq(S) /\ Len(u) = Len(p) - 1
      /\ \A i \in 1 .. Len(u) : u[i] = p[i + 1]
  BY HeadTailProperties, LenProperties, EmptySeq
<1>2. DOMAIN p = 1 .. Len(p) /\ DOMAIN u = 1 .. Len(p) - 1
  BY <1>1, LenProperties
<1>3. \A i \in DOMAIN p : i = 1 \/ (i - 1 \in 1 .. Len(u) /\ i - 1 + 1 = i)
  BY <1>1, <1>2
<1> QED
  BY <1>1, <1>2, <1>3

(* Along a stream, what was read, the pieces in its channel and the text   *)
(* not yet sent have the texts of what was made, in their order; nothing   *)
(* comes after it was said that the answer is done.                        *)
Told(g, p) == Says(g, Done) \/ \E i \in DOMAIN p : Says(p[i], Done)
InOrder(g, p, q) ==
  /\ Ascending(g) /\ Ascending(q) /\ Before(g, q)
  /\ \A i \in DOMAIN p : Ascending(p[i]) /\ Before(g, p[i]) /\ Before(p[i], q)
  /\ \A i, k \in DOMAIN p : i < k => Before(p[i], p[k])
Whole(g, p, q, m) ==
  \A n \in Int : n > Done => (Says(m, n) <=> Says(g, n) \/ Says(q, n) \/ \E i \in DOMAIN p : Says(p[i], n))
Numbered(q, m) == (\A n : Says(m, n) => n <= Len(m)) /\ (\A n : Says(q, n) => n > Done)
Ending(g, p, q) ==
  /\ Says(g, Done) => p = <<>>
  /\ \A i \in DOMAIN p : Says(p[i], Done) => i = Len(p)
  /\ Told(g, p) => q = <<>>
Flow(g, p, q, m) ==
  /\ g \in Seq(Int) /\ p \in Seq(Seq(Int)) /\ q \in Seq(Int) /\ m \in Seq(Int)
  /\ InOrder(g, p, q) /\ Whole(g, p, q, m) /\ Numbered(q, m) /\ Ending(g, p, q)

LEMMA FlowNil == Flow(<<>>, <<>>, <<>>, <<>>) /\ ~Told(<<>>, <<>>)
<1>1. <<>> \in Seq(Int) /\ <<>> \in Seq(Seq(Int)) /\ DOMAIN <<>> = {}
  BY EmptySeq
<1>2. Ascending(<<>>) /\ \A n : ~Says(<<>>, n)
  BY SaysNil
<1>3. InOrder(<<>>, <<>>, <<>>) /\ Whole(<<>>, <<>>, <<>>, <<>>) /\ ~Told(<<>>, <<>>)
  BY <1>1, <1>2 DEF InOrder, Whole, Told, Before
<1>4. Numbered(<<>>, <<>>) /\ Ending(<<>>, <<>>, <<>>)
  BY <1>1, <1>2, <1>3 DEF Numbered, Ending
<1> QED
  BY <1>1, <1>3, <1>4 DEF Flow

(* Text is made, and waits to be sent.                                     *)
LEMMA FlowText ==
  ASSUME NEW g, NEW p, NEW q, NEW m, Flow(g, p, q, m), ~Told(g, p), NEW e, e = Len(m) + 1
  PROVE  Flow(g, p, Append(q, e), Append(m, e))
<1> DEFINE r == Append(q, e)
           w == Append(m, e)
<1>1. /\ g \in Seq(Int) /\ p \in Seq(Seq(Int)) /\ q \in Seq(Int) /\ m \in Seq(Int)
      /\ InOrder(g, p, q) /\ Whole(g, p, q, m) /\ Numbered(q, m) /\ Ending(g, p, q)
  BY DEF Flow
<1>2. Len(m) \in Nat /\ e \in Int /\ e > Len(m) /\ e > Done
  BY <1>1, LenProperties DEF Done
<1>3. /\ r \in Seq(Int) /\ \A n : Says(r, n) <=> Says(q, n) \/ n = e
      /\ Ascending(q) /\ (\A n \in Int : n > Done /\ e > Done /\ Says(q, n) => n < e) => Ascending(r)
  BY <1>1, <1>2, SaysAppend
<1>4. w \in Seq(Int) /\ \A n : Says(w, n) <=> Says(m, n) \/ n = e
  BY <1>1, <1>2, SaysAppend
<1>5. Len(w) = Len(m) + 1
  BY <1>1, <1>2, AppendProperties
<1> HIDE DEF r, w
<1>6. \A n \in Int : n > Done /\ (Says(g, n) \/ Says(q, n) \/ \E i \in DOMAIN p : Says(p[i], n)) => n < e
  <2>1. \A n \in Int : Says(m, n) => n < e
    BY <1>1, <1>2 DEF Numbered
  <2> QED
    BY <1>1, <2>1 DEF Whole
<1>7. InOrder(g, p, r)
  <2>1. Ascending(r)
    BY <1>1, <1>3, <1>6 DEF InOrder
  <2>2. Before(g, r)
    BY <1>1, <1>3, <1>6 DEF InOrder, Before
  <2>3. \A i \in DOMAIN p : Before(p[i], r)
    BY <1>1, <1>3, <1>6 DEF InOrder, Before
  <2> QED
    BY <1>1, <2>1, <2>2, <2>3 DEF InOrder
<1>8. Whole(g, p, r, w)
  BY <1>1, <1>3, <1>4 DEF Whole
<1>9. Numbered(r, w)
  <2>1. \A n : Says(m, n) => n \in Int /\ n <= Len(m)
    BY <1>1, IntSeqs DEF Numbered
  <2>2. \A n : Says(w, n) => n <= Len(w)
    BY <1>2, <1>4, <1>5, <2>1
  <2> QED
    BY <1>1, <1>2, <1>3, <2>2 DEF Numbered
<1>10. Ending(g, p, r)
  BY <1>1 DEF Ending
<1> QED
  BY <1>1, <1>3, <1>4, <1>7, <1>8, <1>9, <1>10 DEF Flow, r, w

(* A tool call is made.                                                    *)
LEMMA FlowCall ==
  ASSUME NEW g, NEW p, NEW q, NEW m, Flow(g, p, q, m), NEW e, e = -(Len(m) + 1)
  PROVE  Flow(g, p, q, Append(m, e))
<1> DEFINE w == Append(m, e)
<1>1. /\ g \in Seq(Int) /\ p \in Seq(Seq(Int)) /\ q \in Seq(Int) /\ m \in Seq(Int)
      /\ InOrder(g, p, q) /\ Whole(g, p, q, m) /\ Numbered(q, m) /\ Ending(g, p, q)
  BY DEF Flow
<1>2. Len(m) \in Nat /\ e \in Int /\ ~(e > Done) /\ e <= Len(m) + 1
  BY <1>1, LenProperties DEF Done
<1>3. w \in Seq(Int) /\ \A n : Says(w, n) <=> Says(m, n) \/ n = e
  BY <1>1, <1>2, SaysAppend
<1>4. Len(w) = Len(m) + 1
  BY <1>1, <1>2, AppendProperties
<1> HIDE DEF w
<1>5. Whole(g, p, q, w)
  BY <1>1, <1>2, <1>3 DEF Whole
<1>6. Numbered(q, w)
  <2>1. \A n : Says(m, n) => n \in Int /\ n <= Len(m)
    BY <1>1, IntSeqs DEF Numbered
  <2>2. \A n : Says(w, n) => n <= Len(w)
    BY <1>2, <1>3, <1>4, <2>1
  <2> QED
    BY <1>1, <2>2 DEF Numbered
<1> QED
  BY <1>1, <1>3, <1>5, <1>6 DEF Flow, w

(* A piece is sent: all the text that waits...                             *)
LEMMA FlowSend ==
  ASSUME NEW g, NEW p, NEW q, NEW m, Flow(g, p, q, m), ~Told(g, p)
  PROVE  Flow(g, Append(p, q), <<>>, m) /\ ~Told(g, Append(p, q))
<1> DEFINE u == Append(p, q)
<1>1. /\ g \in Seq(Int) /\ p \in Seq(Seq(Int)) /\ q \in Seq(Int) /\ m \in Seq(Int)
      /\ InOrder(g, p, q) /\ Whole(g, p, q, m) /\ Numbered(q, m) /\ Ending(g, p, q)
  BY DEF Flow
<1>2. /\ u \in Seq(Seq(Int)) /\ Len(u) \in DOMAIN u /\ u[Len(u)] = q /\ Len(u) \notin DOMAIN p
      /\ \A i \in DOMAIN u : i = Len(u) \/ i \in DOMAIN p
      /\ \A i \in DOMAIN p : i \in DOMAIN u /\ u[i] = p[i] /\ i < Len(u) /\ i \in Int
  BY <1>1, PiecesAppend
<1>3. <<>> \in Seq(Int) /\ Ascending(<<>>) /\ \A n : ~Says(<<>>, n)
  BY EmptySeq, SaysNil
<1> HIDE DEF u
<1>4. \A i \in DOMAIN u : IF i = Len(u) THEN u[i] = q ELSE i \in DOMAIN p /\ u[i] = p[i]
  BY <1>2
<1>5. \A i, k \in DOMAIN u : i < k => i \in DOMAIN p /\ u[i] = p[i]
  <2>1. \A i \in DOMAIN u : i \in Int /\ i <= Len(u)
    BY <1>2, LenProperties
  <2> QED
    BY <1>2, <2>1
<1>6. InOrder(g, u, <<>>)
  <2>1. \A i \in DOMAIN u : Ascending(u[i]) /\ Before(g, u[i])
    BY <1>1, <1>4 DEF InOrder
  <2>2. \A i, k \in DOMAIN u : i < k => Before(u[i], u[k])
    BY <1>1, <1>4, <1>5 DEF InOrder
  <2>3. \A s : Before(s, <<>>)
    BY <1>3 DEF Before
  <2> QED
    BY <1>1, <1>3, <2>1, <2>2, <2>3 DEF InOrder
<1>7. \A n : (\E i \in DOMAIN u : Says(u[i], n)) <=> Says(q, n) \/ \E i \in DOMAIN p : Says(p[i], n)
  BY <1>2, <1>4
<1>8. Whole(g, u, <<>>, m)
  BY <1>1, <1>3, <1>7 DEF Whole
<1>9. ~Says(q, Done)
  BY <1>1 DEF Numbered, Done
<1>10. ~Told(g, u)
  BY <1>7, <1>9 DEF Told
<1>11. Numbered(<<>>, m) /\ Ending(g, u, <<>>)
  BY <1>1, <1>3, <1>10 DEF Numbered, Ending, Told
<1> QED
  BY <1>1, <1>2, <1>3, <1>6, <1>8, <1>10, <1>11 DEF Flow, u

(* ...a tool call, past the text that waits, or that the answer is done.   *)
LEMMA FlowOther ==
  ASSUME NEW g, NEW p, NEW q, NEW m, Flow(g, p, q, m), ~Told(g, p), NEW x \in Int, x <= Done,
         x = Done => q = <<>>
  PROVE  Flow(g, Append(p, <<x>>), q, m) /\ (x # Done => ~Told(g, Append(p, <<x>>)))
<1> DEFINE u == Append(p, <<x>>)
<1>1. /\ g \in Seq(Int) /\ p \in Seq(Seq(Int)) /\ q \in Seq(Int) /\ m \in Seq(Int)
      /\ InOrder(g, p, q) /\ Whole(g, p, q, m) /\ Numbered(q, m) /\ Ending(g, p, q)
  BY DEF Flow
<1>2. /\ <<x>> \in Seq(Int) /\ Ascending(<<x>>) /\ \A n : Says(<<x>>, n) <=> n = x
  <2>1. <<x>> \in Seq(Int) /\ DOMAIN <<x>> = {1} /\ <<x>>[1] = x
    OBVIOUS
  <2> QED
    BY <2>1 DEF Ascending, Says
<1>3. /\ u \in Seq(Seq(Int)) /\ Len(u) \in DOMAIN u /\ u[Len(u)] = <<x>> /\ Len(u) \notin DOMAIN p
      /\ \A i \in DOMAIN u : i = Len(u) \/ i \in DOMAIN p
      /\ \A i \in DOMAIN p : i \in DOMAIN u /\ u[i] = p[i] /\ i < Len(u) /\ i \in Int
  BY <1>1, <1>2, PiecesAppend
<1> HIDE DEF u
<1>4. \A i \in DOMAIN u : IF i = Len(u) THEN u[i] = <<x>> ELSE i \in DOMAIN p /\ u[i] = p[i]
  BY <1>3
<1>5. \A i, k \in DOMAIN u : i < k => i \in DOMAIN p /\ u[i] = p[i]
  <2>1. \A i \in DOMAIN u : i \in Int /\ i <= Len(u)
    BY <1>3, LenProperties
  <2> QED
    BY <1>3, <2>1
<1>6. \A s : Before(s, <<x>>) /\ Before(<<x>>, s)
  <2>1. ~(x > Done)
    BY DEF Done
  <2> QED
    BY <1>2, <2>1 DEF Before
<1>7. InOrder(g, u, q)
  <2>1. \A i \in DOMAIN u : Ascending(u[i]) /\ Before(g, u[i]) /\ Before(u[i], q)
    BY <1>1, <1>2, <1>4, <1>6 DEF InOrder
  <2>2. \A i, k \in DOMAIN u : i < k => Before(u[i], u[k])
    BY <1>1, <1>4, <1>5, <1>6 DEF InOrder
  <2> QED
    BY <1>1, <2>1, <2>2 DEF InOrder
<1>8. \A n : (\E i \in DOMAIN u : Says(u[i], n)) <=> n = x \/ \E i \in DOMAIN p : Says(p[i], n)
  BY <1>2, <1>3, <1>4
<1>9. Whole(g, u, q, m)
  <2>1. \A n \in Int : n > Done => n # x
    BY DEF Done
  <2> QED
    BY <1>1, <1>8, <2>1 DEF Whole
<1>10. x # Done => ~Told(g, u)
  BY <1>8 DEF Told
<1>11. Ending(g, u, q)
  <2>1. ~Says(g, Done) /\ \A i \in DOMAIN p : ~Says(p[i], Done)
    BY DEF Told
  <2>2. \A i \in DOMAIN u : Says(u[i], Done) => i = Len(u)
    BY <1>4, <2>1
  <2> QED
    BY <1>10, <2>1, <2>2 DEF Ending
<1> QED
  BY <1>1, <1>3, <1>7, <1>9, <1>10, <1>11 DEF Flow, u

(* A piece is read.                                                        *)
LEMMA FlowRead ==
  ASSUME NEW g, NEW p, NEW q, NEW m, Flow(g, p, q, m), p # <<>>
  PROVE  Flow(g \o Head(p), Tail(p), q, m) /\ (Told(g \o Head(p), Tail(p)) => Told(g, p))
<1> DEFINE u == Tail(p)
           h == Head(p)
           f == g \o h
<1>1. /\ g \in Seq(Int) /\ p \in Seq(Seq(Int)) /\ q \in Seq(Int) /\ m \in Seq(Int)
      /\ InOrder(g, p, q) /\ Whole(g, p, q, m) /\ Numbered(q, m) /\ Ending(g, p, q)
  BY DEF Flow
<1>2. /\ u \in Seq(Seq(Int)) /\ h \in Seq(Int) /\ h = p[1] /\ 1 \in DOMAIN p /\ Len(u) + 1 = Len(p)
      /\ \A i \in DOMAIN u : i \in Int /\ i + 1 \in DOMAIN p /\ u[i] = p[i + 1] /\ 1 < i + 1
      /\ \A i \in DOMAIN p : i = 1 \/ (i - 1 \in DOMAIN u /\ u[i - 1] = p[i])
  BY <1>1, PiecesTail
<1>3. /\ f \in Seq(Int) /\ \A n : Says(f, n) <=> Says(g, n) \/ Says(h, n)
      /\ Ascending(g) /\ Ascending(h) /\ Before(g, h) => Ascending(f)
  BY <1>1, <1>2, SaysConcat
<1> HIDE DEF u, h, f
<1>4. InOrder(f, u, q)
  <2>1. Ascending(f) /\ Ascending(q)
    BY <1>1, <1>2, <1>3 DEF InOrder
  <2>2. Before(f, q)
    <3>1. Before(g, q) /\ Before(h, q)
      BY <1>1, <1>2 DEF InOrder
    <3> QED
      BY <1>3, <3>1 DEF Before
  <2>3. \A i \in DOMAIN u : Ascending(u[i]) /\ Before(u[i], q)
    BY <1>1, <1>2 DEF InOrder
  <2>4. \A i \in DOMAIN u : Before(f, u[i])
    <3>1. \A i \in DOMAIN u : Before(g, u[i]) /\ Before(h, u[i])
      BY <1>1, <1>2 DEF InOrder
    <3> QED
      BY <1>3, <3>1 DEF Before
  <2>5. \A i, k \in DOMAIN u : i < k => Before(u[i], u[k])
    <3>1. \A i, k \in DOMAIN u : i < k => i + 1 < k + 1
      BY <1>2
    <3> QED
      BY <1>1, <1>2, <3>1 DEF InOrder
  <2> QED
    BY <2>1, <2>2, <2>3, <2>4, <2>5 DEF InOrder
<1>5. \A n : (\E i \in DOMAIN p : Says(p[i], n)) <=> Says(h, n) \/ \E i \in DOMAIN u : Says(u[i], n)
  BY <1>2
<1>6. Whole(f, u, q, m)
  BY <1>1, <1>3, <1>5 DEF Whole
<1>7. Told(f, u) => Told(g, p)
  BY <1>3, <1>5 DEF Told
<1>8. Ending(f, u, q)
  <2>1. ASSUME Says(f, Done) PROVE u = <<>>
    <3>1. Says(h, Done)
      BY <1>1, <1>3, <2>1 DEF Ending
    <3>2. 1 = Len(p)
      BY <1>1, <1>2, <3>1 DEF Ending
    <3>3. Len(u) \in Nat
      BY <1>2, LenProperties
    <3>4. Len(u) + 1 = 1
      BY <1>2, <3>2
    <3>5. Len(u) = 0
      BY <3>3, <3>4
    <3> QED
      BY <1>2, <3>5, EmptySeq
  <2>2. ASSUME NEW i \in DOMAIN u, Says(u[i], Done) PROVE i = Len(u)
    <3>1. i + 1 = Len(p)
      BY <1>1, <1>2, <2>2 DEF Ending
    <3> QED
      BY <1>2, <3>1, LenProperties
  <2> QED
    BY <1>1, <1>7, <2>1, <2>2 DEF Ending
<1> QED
  BY <1>1, <1>2, <1>3, <1>4, <1>6, <1>7, <1>8 DEF Flow, u, h, f

(* What such a stream delivers.                                            *)
LEMMA FlowDelivers ==
  ASSUME NEW g, NEW p, NEW q, NEW m, Flow(g, p, q, m)
  PROVE  /\ Ascending(g) /\ Texts(g) \subseteq Texts(m)
         /\ \A x \in Texts(m), y \in Texts(g) : x < y => x \in Texts(g)
         /\ Done \in Range(g) => Texts(g) = Texts(m)
<1>1. /\ g \in Seq(Int) /\ p \in Seq(Seq(Int)) /\ q \in Seq(Int) /\ m \in Seq(Int)
      /\ InOrder(g, p, q) /\ Whole(g, p, q, m) /\ Ending(g, p, q)
  BY DEF Flow
<1>2. /\ \A n : n \in Texts(g) <=> Says(g, n) /\ n > Done
      /\ \A n : n \in Texts(m) <=> Says(m, n) /\ n > Done
      /\ Done \in Range(g) <=> Says(g, Done)
      /\ \A n : Says(g, n) => n \in Int
      /\ \A n : Says(m, n) => n \in Int
  BY <1>1, SaysTexts, IntSeqs
<1>3. Texts(g) \subseteq Texts(m)
  BY <1>1, <1>2 DEF Whole
<1>4. ASSUME NEW x \in Texts(m), NEW y \in Texts(g), x < y PROVE x \in Texts(g)
  <2>1. x \in Int /\ x > Done /\ Says(m, x) /\ y \in Int /\ y > Done /\ Says(g, y) /\ ~(y < x)
    BY <1>2, <1>4
  <2>2. ~Says(q, x) /\ \A i \in DOMAIN p : ~Says(p[i], x)
    BY <1>1, <2>1 DEF InOrder, Before
  <2> QED
    BY <1>1, <1>2, <2>1, <2>2 DEF Whole
<1>5. ASSUME Done \in Range(g) PROVE Texts(g) = Texts(m)
  <2>1. p = <<>> /\ q = <<>>
    BY <1>1, <1>2, <1>5 DEF Ending, Told
  <2>2. \A n \in Int : n > Done /\ Says(m, n) => Says(g, n)
    BY <1>1, <2>1, SaysNil DEF Whole
  <2>3. Texts(m) \subseteq Texts(g)
    BY <1>2, <2>2
  <2> QED
    BY <1>3, <2>3
<1> QED
  BY <1>1, <1>3, <1>4, <1>5 DEF InOrder

(* So it is with every stream; and it is said to be done when the job was  *)
(* answered well.  An answer that is not streamed has none.                *)
FlowOf(j) == Flow(got[j], pipe[j], out[j].pending, out[j].made)
ToldOf(j) == Told(got[j], pipe[j])
Sending == {"call", "again", "lastcall", "tail", "done"}
Relayed ==
  /\ \A j \in Jobs : Streamed(j) => FlowOf(j) /\ (ToldOf(j) => reply[j] = "ok")
  /\ \A j \in Jobs : ~Streamed(j) => got[j] = <<>> /\ pipe[j] = <<>>
  /\ at \in {"call", "lastcall"} => out[Current].made # <<>>
  /\ at = "done" => out[Current].pending = <<>>
  /\ at \in Sending => Streamed(Current)

LEMMA RelayStarts ==
  ASSUME InprocInit
  PROVE  Relayed
<1>1. \A j \in Jobs : got[j] = <<>> /\ pipe[j] = <<>> /\ out[j].pending = <<>> /\ out[j].made = <<>>
  BY DEF InprocInit, NoOutput
<1>2. \A j \in Jobs : FlowOf(j) /\ ~ToldOf(j)
  BY <1>1, FlowNil DEF FlowOf, ToldOf
<1> QED
  BY <1>1, <1>2 DEF InprocInit, Relayed, Sending

LEMMA RelayDelivers ==
  ASSUME Relayed
  PROVE  DoneAfterText
<1> SUFFICES ASSUME NEW j \in Jobs
             PROVE  /\ Ascending(got[j]) /\ Texts(got[j]) \subseteq Texts(out[j].made)
                    /\ \A m \in Texts(out[j].made), n \in Texts(got[j]) : m < n => m \in Texts(got[j])
                    /\ Done \in Range(got[j]) => Texts(got[j]) = Texts(out[j].made)
  BY DEF DoneAfterText
<1>1. CASE Streamed(j)
  <2>1. Flow(got[j], pipe[j], out[j].pending, out[j].made)
    BY <1>1 DEF Relayed, FlowOf
  <2> QED
    BY <2>1, FlowDelivers
<1>2. CASE ~Streamed(j)
  <2>1. got[j] = <<>> /\ <<>> \in Seq(Int)
    BY <1>2, EmptySeq DEF Relayed
  <2>2. Ascending(<<>>) /\ \A n : ~Says(<<>>, n)
    BY SaysNil
  <2>3. Texts(<<>>) = {} /\ Done \notin Range(<<>>)
    BY <2>1, <2>2, SaysTexts
  <2> QED
    BY <2>1, <2>2, <2>3
<1> QED
  BY <1>1, <1>2

(* A step that touches at most one stream.                                 *)
Others(j) == \A i \in Jobs : i # j => out'[i] = out[i] /\ pipe'[i] = pipe[i] /\ got'[i] = got[i]
StaysOk == \A i \in Jobs : reply[i] = "ok" => reply'[i] = "ok"

LEMMA RelayOne ==
  ASSUME Relayed, NEW j \in Jobs, Others(j), StaysOk, mode' = mode,
         Streamed(j) => FlowOf(j)' /\ (ToldOf(j)' => reply'[j] = "ok"),
         ~Streamed(j) => got'[j] = <<>> /\ pipe'[j] = <<>>,
         at' \in {"call", "lastcall"} => out'[Current'].made # <<>>,
         at' = "done" => out'[Current'].pending = <<>>,
         at' \in Sending => Streamed(Current')
  PROVE  Relayed'
<1>1. \A i \in Jobs : Streamed(i)' <=> Streamed(i)
  BY DEF Streamed
<1>2. \A i \in Jobs : Streamed(i) => FlowOf(i)' /\ (ToldOf(i)' => reply'[i] = "ok")
  BY DEF Relayed, Others, StaysOk, FlowOf, ToldOf
<1>3. \A i \in Jobs : ~Streamed(i) => got'[i] = <<>> /\ pipe'[i] = <<>>
  BY DEF Relayed, Others
<1>4. at' \in Sending => Streamed(Current)'
  BY DEF Streamed
<1> QED
  BY <1>1, <1>2, <1>3, <1>4 DEF Relayed

LEMMA RelayKeeps ==
  ASSUME Relayed, UNCHANGED <<mode, out, pipe, got>>, StaysOk,
         at' \in Sending => at' = at /\ Current' = Current
  PROVE  Relayed'
<1>1. \A i \in Jobs : Streamed(i)' <=> Streamed(i)
  BY DEF Streamed
<1>2. \A i \in Jobs : Streamed(i) => FlowOf(i)' /\ (ToldOf(i)' => reply'[i] = "ok")
  BY DEF Relayed, StaysOk, FlowOf, ToldOf
<1>3. at' \in Sending => Streamed(Current)'
  BY DEF Streamed, Relayed
<1> QED
  BY <1>1, <1>2, <1>3 DEF Relayed, Sending

(* The text that waits is sent, or kept.                                   *)
Flows(j) ==
  /\ \A i \in Jobs : i # j => out'[i] = out[i] /\ pipe'[i] = pipe[i]
  /\ Flow(got[j], pipe'[j], out'[j].pending, out'[j].made) /\ ~Told(got[j], pipe'[j])

LEMMA FlushFlows ==
  ASSUME InprocTypeOK, NEW j \in Jobs, NEW o \in Outputs,
         Flow(got[j], pipe[j], o.pending, o.made), ~Told(got[j], pipe[j]), Flush(j, o)
  PROVE  Flows(j) /\ out'[j].made = o.made
<1>1. out \in [Jobs -> Outputs] /\ pipe \in [Jobs -> Seq(Seq(Int))]
  BY DEF InprocTypeOK
<1>2. CASE o.pending = <<>>
  <2>1. out' = [out EXCEPT ![j] = o] /\ pipe' = pipe
    BY <1>2 DEF Flush
  <2> QED
    BY <1>1, <2>1 DEF Flows
<1>3. CASE o.pending # <<>> /\ CanSend(j)
  <2>1. /\ out' = [out EXCEPT ![j] = [o EXCEPT !.pending = <<>>, !.batched = 0]]
        /\ pipe' = [pipe EXCEPT ![j] = Append(@, o.pending)]
    BY <1>3 DEF Flush
  <2>2. /\ out'[j].pending = <<>> /\ out'[j].made = o.made
        /\ pipe'[j] = Append(pipe[j], o.pending)
        /\ \A i \in Jobs : i # j => out'[i] = out[i] /\ pipe'[i] = pipe[i]
    BY <1>1, <2>1 DEF Outputs
  <2>3. /\ Flow(got[j], Append(pipe[j], o.pending), <<>>, o.made)
        /\ ~Told(got[j], Append(pipe[j], o.pending))
    BY FlowSend
  <2> QED
    BY <2>2, <2>3 DEF Flows
<1>4. CASE o.pending # <<>> /\ ~CanSend(j)
  <2>1. out' = [out EXCEPT ![j] = Kept(j, o)] /\ pipe' = pipe
    BY <1>4 DEF Flush
  <2>2. Kept(j, o).pending = o.pending /\ Kept(j, o).made = o.made
    BY DEF Kept, Outputs
  <2>3. /\ out'[j].pending = o.pending /\ out'[j].made = o.made
        /\ \A i \in Jobs : i # j => out'[i] = out[i] /\ pipe'[i] = pipe[i]
    BY <1>1, <2>1, <2>2
  <2> QED
    BY <2>1, <2>3 DEF Flows
<1> QED
  BY <1>2, <1>3, <1>4

(* Text or a tool call is made, and what the scanner held is one or other. *)
LEMMA MadeFields ==
  ASSUME NEW o \in Outputs, NEW b \in BOOLEAN
  PROVE  /\ WithText(o).made = Append(o.made, Number(o)) /\ WithText(o).pending = Append(o.pending, Number(o))
         /\ WithCall(o).made = Append(o.made, -Number(o)) /\ WithCall(o).pending = o.pending
         /\ [o EXCEPT !.held = b].made = o.made /\ [o EXCEPT !.held = b].pending = o.pending
         /\ [o EXCEPT !.held = b] \in Outputs
         /\ Append(o.made, -Number(o)) # <<>>
<1>1. o.made \in Seq(Int) /\ -Number(o) \in Int
  BY OutputFields, NumberIsInt
<1>2. Append(o.made, -Number(o)) # <<>>
  BY <1>1, AppendProperties
<1>3. /\ WithText(o).made = Append(o.made, Number(o)) /\ WithText(o).pending = Append(o.pending, Number(o))
      /\ WithCall(o).made = Append(o.made, -Number(o)) /\ WithCall(o).pending = o.pending
  BY DEF WithText, WithCall, Outputs
<1>4. /\ [o EXCEPT !.held = b].made = o.made /\ [o EXCEPT !.held = b].pending = o.pending
      /\ [o EXCEPT !.held = b] \in Outputs
  BY DEF Outputs
<1> QED
  BY <1>2, <1>3, <1>4

LEMMA FlowMade ==
  ASSUME NEW g, NEW p, NEW o \in Outputs, Flow(g, p, o.pending, o.made), ~Told(g, p)
  PROVE  /\ Flow(g, p, WithText(o).pending, WithText(o).made)
         /\ Flow(g, p, WithCall(o).pending, WithCall(o).made)
<1>1. Flow(g, p, Append(o.pending, Number(o)), Append(o.made, Number(o)))
  BY FlowText DEF Number
<1>2. Flow(g, p, o.pending, Append(o.made, -Number(o)))
  BY FlowCall DEF Number
<1>3. TRUE \in BOOLEAN
  OBVIOUS
<1> QED
  BY <1>1, <1>2, <1>3, MadeFields

LEMMA SampleFlows ==
  ASSUME InprocTypeOK, Relayed, NEW j \in Jobs, reply[j] = "none",
         out[j].tokens < MaxNew, out[j].batched <= out[j].tokens, Sample(j)
  PROVE  /\ \A i \in Jobs : i # j => out'[i] = out[i] /\ pipe'[i] = pipe[i]
         /\ Streamed(j) => Flows(j)
         /\ ~Streamed(j) => pipe'[j] = <<>>
         /\ at' = "call" => Streamed(j) /\ out'[j].made # <<>>
         /\ at' \notin {"again", "lastcall", "tail", "done"}
<1> DEFINE c == Counted(j, out[j])
<1>1. c \in Outputs /\ c.made = out[j].made /\ c.pending = out[j].pending
  BY CountedOk DEF Grown
<1>2. /\ Streamed(j) => Flow(got[j], pipe[j], c.pending, c.made) /\ ~Told(got[j], pipe[j])
      /\ ~Streamed(j) => pipe[j] = <<>>
      /\ out \in [Jobs -> Outputs] /\ pipe \in [Jobs -> Seq(Seq(Int))]
  BY <1>1 DEF Relayed, FlowOf, ToldOf, InprocTypeOK
<1> HIDE DEF c
<1>3. ASSUME NEW o \in Outputs, Streamed(j), Flow(got[j], pipe[j], o.pending, o.made), FlushIfDue(j, o)
      PROVE  Flows(j)
  <2>1. CASE Flush(j, o)
    BY <1>2, <1>3, <2>1, FlushFlows
  <2>2. CASE out' = [out EXCEPT ![j] = o] /\ pipe' = pipe
    BY <1>2, <1>3, <2>2 DEF Flows
  <2> QED
    BY <1>3, <2>1, <2>2 DEF FlushIfDue
<1>4. CASE EmitText(j)
  <2> DEFINE h == [c EXCEPT !.held = FALSE]
             o == WithText(h)
  <2>1. h \in Outputs /\ h.made = c.made /\ h.pending = c.pending
    BY <1>1, MadeFields
  <2>2. IF Streamed(j) THEN FlushIfDue(j, o)
        ELSE out' = [out EXCEPT ![j] = [o EXCEPT !.pending = <<>>]] /\ UNCHANGED pipe
    BY <1>4 DEF EmitText, c
  <2>3. at' = "stop"
    BY <1>4 DEF EmitText, GoTo
  <2> HIDE DEF h
  <2>4. o \in Outputs
    <3>1. Number(h) \in Int /\ h.made \in Seq(Int) /\ h.pending \in Seq(Int)
      BY <2>1, OutputFields, NumberIsInt
    <3>2. Append(h.made, Number(h)) \in Seq(Int) /\ Append(h.pending, Number(h)) \in Seq(Int)
      BY <3>1, AppendProperties
    <3> QED
      BY <2>1, <3>2 DEF WithText, Outputs
  <2>5. Streamed(j) => Flow(got[j], pipe[j], o.pending, o.made)
    BY <1>2, <2>1, FlowMade
  <2> HIDE DEF o
  <2>6. CASE Streamed(j)
    BY <1>3, <2>2, <2>3, <2>4, <2>5, <2>6 DEF Flows
  <2>7. CASE ~Streamed(j)
    BY <1>2, <2>2, <2>3, <2>7
  <2> QED
    BY <2>6, <2>7
<1>5. CASE HoldBack(j)
  <2> DEFINE h == [c EXCEPT !.held = TRUE]
  <2>1. h \in Outputs /\ h.made = c.made /\ h.pending = c.pending
    BY <1>1, MadeFields
  <2>2. Streamed(j) /\ FlushIfDue(j, h) /\ at' = "stop"
    BY <1>5 DEF HoldBack, Streamed, GoTo, c
  <2> HIDE DEF h
  <2>3. Flows(j)
    BY <1>2, <1>3, <2>1, <2>2
  <2> QED
    BY <2>2, <2>3 DEF Flows
<1>6. CASE EmitCall(j)
  <2> DEFINE o == WithCall(c)
  <2>1. o \in Outputs
    <3>1. -Number(c) \in Int /\ c.made \in Seq(Int)
      BY <1>1, OutputFields, NumberIsInt
    <3>2. Append(c.made, -Number(c)) \in Seq(Int)
      BY <3>1, AppendProperties
    <3> QED
      BY <1>1, <3>2 DEF WithCall, Outputs
  <2>2. Streamed(j) /\ Flush(j, o) /\ at' = "call"
    BY <1>6 DEF EmitCall, Streamed, GoTo, c
  <2>3. o.made # <<>>
    BY <1>1, MadeFields, TRUE \in BOOLEAN
  <2>4. Flow(got[j], pipe[j], o.pending, o.made)
    BY <1>1, <1>2, <2>2, FlowMade
  <2> HIDE DEF o
  <2>5. Flows(j) /\ out'[j].made = o.made
    BY <1>2, <2>1, <2>2, <2>4, FlushFlows
  <2> QED
    BY <2>2, <2>3, <2>5 DEF Flows
<1>7. CASE out' = [out EXCEPT ![j].tokens = @ + 1] /\ GoTo("finish") /\ UNCHANGED pipe
  <2>1. out[j] \in Outputs
    BY <1>2
  <2>2. out'[j].made = out[j].made /\ out'[j].pending = out[j].pending
    BY <1>2, <1>7, <2>1 DEF Outputs
  <2>3. pipe' = pipe /\ \A i \in Jobs : i # j => out'[i] = out[i]
    BY <1>2, <1>7
  <2> QED
    BY <1>1, <1>2, <1>7, <2>2, <2>3 DEF Flows, GoTo
<1> QED
  BY <1>4, <1>5, <1>6, <1>7 DEF Sample

(* The job in hand has not been answered, so nothing says it is done.      *)
LEMMA RelayInHand ==
  ASSUME Serving, Relayed, InHandNow
  PROVE  /\ Current \in Jobs /\ out[Current] \in Outputs
         /\ out \in [Jobs -> Outputs] /\ pipe \in [Jobs -> Seq(Seq(Int))]
         /\ Streamed(Current) => Flow(got[Current], pipe[Current], out[Current].pending, out[Current].made)
                                 /\ ~Told(got[Current], pipe[Current])
BY DEF Serving, InprocTypeOK, InHandNow, Relayed, FlowOf, ToldOf

LEMMA EmitTokenRelays ==
  ASSUME Serving, Relayed, EmitToken
  PROVE  Relayed'
<1>1. InprocTypeOK /\ InHandNow /\ Sample(Current) /\ Current \in Jobs /\ reply[Current] = "none"
      /\ UNCHANGED <<slots, mode, got, reply>>
  BY InHandPlace, SlotMoves DEF Serving, EmitToken, InHandNow
<1>2. out[Current].tokens < MaxNew /\ out[Current].batched <= out[Current].tokens
  BY <1>1 DEF Serving, Budget, EmitToken, Current, InHand, InHandNow
<1>3. UNCHANGED slot
  BY <1>1, <1>2, SampleGrows
<1>4. PICK j \in Jobs : j = Current
  BY <1>1
<1>5. /\ \A i \in Jobs : i # j => out'[i] = out[i] /\ pipe'[i] = pipe[i]
      /\ Streamed(j) => Flows(j)
      /\ ~Streamed(j) => pipe'[j] = <<>>
      /\ at' = "call" => Streamed(j) /\ out'[j].made # <<>>
      /\ at' \notin {"again", "lastcall", "tail", "done"}
  BY <1>1, <1>2, <1>4, SampleFlows
<1>6. Current' = j
  BY <1>1, <1>3, <1>4 DEF Current
<1>7. Others(j) /\ StaysOk
  BY <1>1, <1>5 DEF Others, StaysOk
<1>8. Streamed(j) => FlowOf(j)' /\ ~ToldOf(j)'
  BY <1>1, <1>5 DEF Flows, FlowOf, ToldOf
<1>9. ~Streamed(j) => got'[j] = <<>> /\ pipe'[j] = <<>>
  BY <1>1, <1>5 DEF Relayed
<1> QED
  BY <1>1, <1>5, <1>6, <1>7, <1>8, <1>9, RelayOne DEF Sending

LEMMA PrefillRelays ==
  ASSUME Serving, Relayed, Prefill
  PROVE  Relayed'
<1>1. Head(waiting) \in Jobs
  BY WaitingHead DEF Prefill
<1>2. PICK j \in Jobs : j = Head(waiting)
  BY <1>1
<1>3. /\ InprocTypeOK /\ Sample(j) /\ slots' = [slots EXCEPT ![slot] = j]
      /\ UNCHANGED <<mode, got, reply>>
  BY <1>2 DEF Serving, Prefill
<1>4. slot \in Slots /\ j \in Jobs /\ reply[j] = "none" /\ out[j] = NoOutput
  BY <1>2, WaitingHead DEF Prefill
<1>5. out[j].tokens < MaxNew /\ out[j].batched <= out[j].tokens
  BY <1>4, InprocAssumption DEF NoOutput
<1>6. UNCHANGED slot
  BY <1>3, <1>4, <1>5, SampleGrows
<1>7. /\ \A i \in Jobs : i # j => out'[i] = out[i] /\ pipe'[i] = pipe[i]
      /\ Streamed(j) => Flows(j)
      /\ ~Streamed(j) => pipe'[j] = <<>>
      /\ at' = "call" => Streamed(j) /\ out'[j].made # <<>>
      /\ at' \notin {"again", "lastcall", "tail", "done"}
  BY <1>3, <1>4, <1>5, SampleFlows
<1>8. Current' = j
  BY <1>3, <1>4, <1>6 DEF Current, InprocTypeOK
<1>9. Others(j) /\ StaysOk
  BY <1>3, <1>7 DEF Others, StaysOk
<1>10. Streamed(j) => FlowOf(j)' /\ ~ToldOf(j)'
  BY <1>3, <1>7 DEF Flows, FlowOf, ToldOf
<1>11. ~Streamed(j) => got'[j] = <<>> /\ pipe'[j] = <<>>
  BY <1>3, <1>4, <1>7 DEF Relayed
<1> QED
  BY <1>3, <1>4, <1>7, <1>8, <1>9, <1>10, <1>11, RelayOne DEF Sending

LEMMA SendCallRelays ==
  ASSUME Serving, Relayed, SendCall \/ SendLastCall
  PROVE  Relayed'
<1>1. /\ InHandNow /\ at \in {"call", "lastcall"} /\ at' \in {"again", "finish"}
      /\ UNCHANGED <<slot, slots, mode, got, reply>>
  BY InHandPlace DEF SendCall, SendLastCall, InHand, GoTo
<1>2. PICK j \in Jobs : j = Current
  BY <1>1 DEF InHandNow
<1>3. /\ j \in Jobs /\ out[j] \in Outputs /\ Streamed(j) /\ out[j].made # <<>>
      /\ out \in [Jobs -> Outputs] /\ pipe \in [Jobs -> Seq(Seq(Int))]
      /\ Flow(got[j], pipe[j], out[j].pending, out[j].made) /\ ~Told(got[j], pipe[j])
  BY <1>1, <1>2, RelayInHand DEF Relayed, Sending
<1>4. \/ pipe' = [pipe EXCEPT ![j] = Append(@, <<-Len(out[j].made)>>)] /\ UNCHANGED out
      \/ out' = [out EXCEPT ![j].dropped = TRUE] /\ UNCHANGED pipe
      \/ UNCHANGED <<out, pipe>>
  BY <1>2 DEF SendCall, SendLastCall
<1>5. \A i \in Jobs : i # j => out'[i] = out[i] /\ pipe'[i] = pipe[i]
  BY <1>3, <1>4
<1>6. Flow(got[j], pipe'[j], out'[j].pending, out'[j].made) /\ ~Told(got[j], pipe'[j])
  <2>1. CASE pipe' = [pipe EXCEPT ![j] = Append(@, <<-Len(out[j].made)>>)] /\ UNCHANGED out
    <3> DEFINE x == -Len(out[j].made)
    <3>1. Len(out[j].made) \in Nat /\ Len(out[j].made) # 0
      BY <1>3, OutputFields, LenProperties, EmptySeq
    <3>2. x \in Int /\ x <= Done /\ x # Done
      BY <3>1 DEF Done
    <3>3. pipe'[j] = Append(pipe[j], <<x>>) /\ out'[j] = out[j]
      BY <1>3, <2>1
    <3> HIDE DEF x
    <3> QED
      BY <1>3, <3>2, <3>3, FlowOther
  <2>2. CASE out' = [out EXCEPT ![j].dropped = TRUE] /\ UNCHANGED pipe
    <3>1. out'[j].pending = out[j].pending /\ out'[j].made = out[j].made
      BY <1>3, <2>2 DEF Outputs
    <3> QED
      BY <1>3, <2>2, <3>1
  <2>3. CASE UNCHANGED <<out, pipe>>
    BY <1>3, <2>3
  <2> QED
    BY <1>4, <2>1, <2>2, <2>3
<1>7. Current' = Current
  BY <1>1 DEF Current
<1>8. Others(j) /\ StaysOk /\ FlowOf(j)' /\ ~ToldOf(j)'
  BY <1>1, <1>5, <1>6 DEF Others, StaysOk, FlowOf, ToldOf
<1> QED
  BY <1>1, <1>2, <1>3, <1>7, <1>8, RelayOne DEF Sending

LEMMA FlushAgainRelays ==
  ASSUME Serving, Relayed, FlushAgain
  PROVE  Relayed'
<1>1. InHandNow /\ at = "again" /\ at' = "stop" /\ UNCHANGED <<mode, got, reply>>
  BY InHandPlace DEF FlushAgain, InHand, GoTo
<1>2. PICK j \in Jobs : j = Current
  BY <1>1 DEF InHandNow
<1>3. /\ out[j] \in Outputs /\ Streamed(j) /\ InprocTypeOK /\ FlushIfDue(j, out[j])
      /\ out \in [Jobs -> Outputs] /\ pipe \in [Jobs -> Seq(Seq(Int))]
      /\ Flow(got[j], pipe[j], out[j].pending, out[j].made) /\ ~Told(got[j], pipe[j])
  BY <1>1, <1>2, RelayInHand DEF Relayed, Sending, Serving, FlushAgain
<1>4. Flows(j)
  <2>1. CASE Flush(j, out[j])
    BY <1>3, <2>1, FlushFlows
  <2>2. CASE out' = [out EXCEPT ![j] = out[j]] /\ pipe' = pipe
    BY <1>3, <2>2 DEF Flows
  <2> QED
    BY <1>3, <2>1, <2>2 DEF FlushIfDue
<1>5. Others(j) /\ StaysOk /\ FlowOf(j)' /\ ~ToldOf(j)'
  BY <1>1, <1>4 DEF Others, StaysOk, Flows, FlowOf, ToldOf
<1> QED
  BY <1>1, <1>3, <1>5, RelayOne DEF Sending

LEMMA FinishCallRelays ==
  ASSUME Serving, Relayed, FinishCall
  PROVE  Relayed'
<1>1. InHandNow /\ at' = "lastcall" /\ UNCHANGED <<slot, slots, mode, got, reply>>
  BY InHandPlace DEF FinishCall, InHand, GoTo
<1>2. PICK j \in Jobs : j = Current
  BY <1>1 DEF InHandNow
<1> DEFINE o == WithCall(out[j])
<1>3. /\ out[j] \in Outputs /\ Streamed(j) /\ InprocTypeOK /\ Flush(j, o)
      /\ Flow(got[j], pipe[j], out[j].pending, out[j].made) /\ ~Told(got[j], pipe[j])
  BY <1>1, <1>2, RelayInHand DEF Streamed, Serving, FinishCall
<1>4. o.made # <<>>
  BY <1>3, MadeFields, TRUE \in BOOLEAN
<1>5. Flow(got[j], pipe[j], o.pending, o.made)
  BY <1>3, FlowMade
<1>6. o \in Outputs
  <2>1. -Number(out[j]) \in Int /\ out[j].made \in Seq(Int)
    BY <1>3, OutputFields, NumberIsInt
  <2>2. Append(out[j].made, -Number(out[j])) \in Seq(Int)
    BY <2>1, AppendProperties
  <2> QED
    BY <1>3, <2>2 DEF WithCall, Outputs
<1> HIDE DEF o
<1>7. Flows(j) /\ out'[j].made # <<>>
  BY <1>3, <1>4, <1>5, <1>6, FlushFlows
<1>8. Current' = j /\ Others(j) /\ StaysOk /\ FlowOf(j)' /\ ~ToldOf(j)'
  BY <1>1, <1>2, <1>7 DEF Current, Others, StaysOk, Flows, FlowOf, ToldOf
<1>9. Streamed(j)'
  BY <1>1, <1>3 DEF Streamed
<1> QED
  BY <1>1, <1>3, <1>7, <1>8, <1>9, RelayOne DEF Sending

LEMMA SendTailRelays ==
  ASSUME Serving, Relayed, SendTail
  PROVE  Relayed'
<1>1. /\ InHandNow /\ at = "tail" /\ at' = "done" /\ UNCHANGED <<slot, slots, mode, got, reply>>
      /\ Current' = Current
  BY InHandPlace DEF SendTail, InHand, GoTo, Current
<1>2. PICK j \in Jobs : j = Current
  BY <1>1 DEF InHandNow
<1>3. /\ j \in Jobs /\ out[j] \in Outputs /\ Streamed(j)
      /\ out \in [Jobs -> Outputs] /\ pipe \in [Jobs -> Seq(Seq(Int))]
      /\ Flow(got[j], pipe[j], out[j].pending, out[j].made) /\ ~Told(got[j], pipe[j])
  BY <1>1, <1>2, RelayInHand DEF Relayed, Sending
<1>4. /\ pipe' = [pipe EXCEPT ![j] = Append(@, out[j].pending)]
      /\ out' = [out EXCEPT ![j].pending = <<>>]
      /\ Current' = j
  BY <1>1, <1>2 DEF SendTail
<1>5. \A i \in Jobs : i # j => out'[i] = out[i] /\ pipe'[i] = pipe[i]
  BY <1>3, <1>4
<1>6. out'[j].pending = <<>> /\ out'[j].made = out[j].made /\ pipe'[j] = Append(pipe[j], out[j].pending)
  BY <1>3, <1>4 DEF Outputs
<1>7. Flow(got[j], pipe'[j], out'[j].pending, out'[j].made) /\ ~Told(got[j], pipe'[j])
  BY <1>3, <1>6, FlowSend
<1>8. Others(j) /\ StaysOk /\ FlowOf(j)' /\ ~ToldOf(j)'
  BY <1>1, <1>5, <1>7 DEF Others, StaysOk, FlowOf, ToldOf
<1> QED
  BY <1>1, <1>3, <1>4, <1>6, <1>8, RelayOne DEF Sending

LEMMA FinishOkRelays ==
  ASSUME Serving, Relayed, FinishOk
  PROVE  Relayed'
<1>1. InHandNow /\ at = "finish" /\ UNCHANGED <<mode, pipe, client, got>>
  BY InHandPlace DEF FinishOk, InHand, streams
<1>2. PICK j \in Jobs : j = Current
  BY <1>1 DEF InHandNow
<1>3. /\ out[j] \in Outputs /\ out \in [Jobs -> Outputs] /\ reply[j] = "none"
      /\ Streamed(j) => Flow(got[j], pipe[j], out[j].pending, out[j].made) /\ ~Told(got[j], pipe[j])
  BY <1>1, <1>2, RelayInHand DEF InHandNow
<1> DEFINE h == [out[j] EXCEPT !.held = FALSE]
           o == IF out[j].held THEN WithText(h) ELSE out[j]
<1>4. /\ out' = [out EXCEPT ![j] = o]
      /\ IF Streamed(j) /\ ~o.dropped
         THEN GoTo(IF o.pending = <<>> THEN "done" ELSE "tail") /\ UNCHANGED <<slots, reply>>
         ELSE Settled(j, "ok")
  BY <1>2 DEF FinishOk
<1>5. h \in Outputs /\ h.made = out[j].made /\ h.pending = out[j].pending
  BY <1>3, MadeFields
<1> HIDE DEF h
<1>6. Streamed(j) => Flow(got[j], pipe[j], o.pending, o.made)
  BY <1>3, <1>5, FlowMade
<1> HIDE DEF o
<1>7. out'[j] = o /\ \A i \in Jobs : i # j => out'[i] = out[i]
  BY <1>3, <1>4
<1>8. Others(j) /\ (Streamed(j) => FlowOf(j)' /\ ~ToldOf(j)')
  BY <1>1, <1>3, <1>6, <1>7 DEF Others, FlowOf, ToldOf
<1>9. ~Streamed(j) => got'[j] = <<>> /\ pipe'[j] = <<>>
  BY <1>1 DEF Relayed
<1>10. CASE Streamed(j) /\ ~o.dropped
  <2>1. /\ at' = (IF o.pending = <<>> THEN "done" ELSE "tail") /\ UNCHANGED <<slot, slots, reply>>
    BY <1>4, <1>10 DEF GoTo
  <2>2. Current' = j /\ StaysOk
    BY <1>2, <2>1 DEF Current, StaysOk
  <2> QED
    BY <1>1, <1>7, <1>8, <1>9, <1>10, <2>1, <2>2, RelayOne DEF Sending
<1>11. CASE Settled(j, "ok")
  <2>1. at' \in {"admit", "emit"} /\ StaysOk
    BY <1>11 DEF Settled, NextSlot, Answer, StaysOk, Serving, InprocTypeOK
  <2> QED
    BY <1>1, <1>8, <1>9, <2>1, RelayOne DEF Sending
<1> QED
  BY <1>4, <1>10, <1>11

LEMMA SendDoneRelays ==
  ASSUME Serving, Relayed, SendDone
  PROVE  Relayed'
<1>1. InHandNow /\ at = "done" /\ UNCHANGED <<mode, out, client, got>>
  BY InHandPlace DEF SendDone, InHand
<1>2. PICK j \in Jobs : j = Current
  BY <1>1 DEF InHandNow
<1>3. /\ pipe \in [Jobs -> Seq(Seq(Int))] /\ Streamed(j) /\ out[j].pending = <<>>
      /\ Flow(got[j], pipe[j], out[j].pending, out[j].made) /\ ~Told(got[j], pipe[j])
  BY <1>1, <1>2, RelayInHand DEF Relayed, Sending
<1>4. pipe' = [pipe EXCEPT ![j] = Append(@, <<Done>>)] /\ Settled(j, "ok")
  BY <1>2 DEF SendDone
<1>5. pipe'[j] = Append(pipe[j], <<Done>>) /\ \A i \in Jobs : i # j => pipe'[i] = pipe[i]
  BY <1>3, <1>4
<1>6. Flow(got[j], Append(pipe[j], <<Done>>), out[j].pending, out[j].made)
  <2>1. Done \in Int /\ Done <= Done
    BY DEF Done
  <2> QED
    BY <1>3, <2>1, FlowOther
<1>7. /\ at' \in {"admit", "emit"} /\ StaysOk /\ reply'[j] = "ok"
  BY <1>4 DEF Settled, NextSlot, Answer, StaysOk, Serving, InprocTypeOK
<1>8. Others(j) /\ FlowOf(j)'
  BY <1>1, <1>5, <1>6 DEF Others, FlowOf
<1> QED
  BY <1>1, <1>3, <1>7, <1>8, RelayOne DEF Sending

LEMMA ReadRelays ==
  ASSUME Serving, Relayed, NEW j \in Jobs, Read(j)
  PROVE  Relayed'
<1>1. /\ pipe[j] # <<>> /\ got' = [got EXCEPT ![j] = @ \o Head(pipe[j])] /\ pipe' = [pipe EXCEPT ![j] = Tail(@)]
      /\ UNCHANGED <<at, slot, slots, mode, out, reply>>
      /\ got \in [Jobs -> Seq(Int)] /\ pipe \in [Jobs -> Seq(Seq(Int))]
  BY DEF Read, thread, Serving, InprocTypeOK
<1>2. /\ got'[j] = got[j] \o Head(pipe[j]) /\ pipe'[j] = Tail(pipe[j])
      /\ \A i \in Jobs : i # j => got'[i] = got[i] /\ pipe'[i] = pipe[i]
  BY <1>1
<1>3. Streamed(j) /\ Flow(got[j], pipe[j], out[j].pending, out[j].made) /\ (Told(got[j], pipe[j]) => reply[j] = "ok")
  BY <1>1 DEF Relayed, FlowOf, ToldOf
<1>4. /\ Flow(got'[j], pipe'[j], out[j].pending, out[j].made)
      /\ Told(got'[j], pipe'[j]) => Told(got[j], pipe[j])
  BY <1>1, <1>2, <1>3, FlowRead
<1>5. Others(j) /\ StaysOk /\ FlowOf(j)' /\ (ToldOf(j)' => reply'[j] = "ok")
  BY <1>1, <1>2, <1>3, <1>4 DEF Others, StaysOk, FlowOf, ToldOf
<1>6. Current' = Current
  BY <1>1 DEF Current
<1>7. /\ at' \in {"call", "lastcall"} => out'[Current'].made # <<>>
      /\ at' = "done" => out'[Current'].pending = <<>>
      /\ at' \in Sending => Streamed(Current')
  BY <1>1, <1>6 DEF Relayed
<1> QED
  BY <1>1, <1>3, <1>5, <1>7, RelayOne

(* The other steps leave the streams alone, and no answer is taken back.   *)
LEMMA AsideRelays ==
  ASSUME Serving, Relayed,
         \/ \E j \in Jobs : Give(j) \/ GoAway(j)
         \/ Disconnect \/ Load \/ PassSlot \/ Admitted \/ Decode \/ DecodeFails \/ EmitNothing
         \/ StopOrGoOn \/ IterationEnds \/ Wedge \/ NoProgress
         \/ Receive \/ Teardown \/ Refuse \/ AnswerFailed \/ Undeliverable
  PROVE  Relayed'
<1> USE DEF thread, health, streams, GoTo, Begin, NextSlot
<1>1. UNCHANGED <<mode, out, pipe, got>>
  BY DEF Give, GoAway, Disconnect, Load, PassSlot, Admitted, Decode, DecodeFails, EmitNothing, StopOrGoOn,
         IterationEnds, Wedge, NoProgress, Receive, Teardown, Refuse, AnswerFailed, Undeliverable
<1>2. phase \in {"admit", "emit"}
  BY DEF Serving, InprocTypeOK
<1>3. at' \in Sending => at' = at /\ Current' = Current
  BY <1>2 DEF Give, GoAway, Disconnect, Load, PassSlot, Admitted, Decode, DecodeFails, EmitNothing, StopOrGoOn,
         IterationEnds, Wedge, NoProgress, Receive, Teardown, Refuse, AnswerFailed, Undeliverable, Undelivered, Settled,
         Sending, Current
<1>4. StaysOk
  <2>1. CASE \E j \in Jobs : Give(j)
    BY <2>1 DEF Give, Answer, StaysOk
  <2>2. CASE Teardown
    BY <2>2 DEF Teardown, Answer, StaysOk
  <2>3. CASE Refuse
    <3>1. Head(waiting) \in Jobs /\ reply[Head(waiting)] = "none"
      BY <2>3, WaitingHead DEF Refuse
    <3> QED
      BY <2>3, <3>1 DEF Refuse, Answer, StaysOk
  <2>4. CASE AnswerFailed
    <3>1. CASE Current = Free
      BY <2>4, <3>1 DEF AnswerFailed, StaysOk
    <3>2. CASE Current # Free
      <4>1. reply[Current] = "none"
        BY <2>4, <3>2, SlotMoves, InHandPlace DEF AnswerFailed, Serving, InHandNow
      <4> QED
        BY <2>4, <3>2, <4>1 DEF AnswerFailed, Answer, StaysOk
    <3> QED
      BY <3>1, <3>2
  <2>5. CASE Undeliverable
    <3>1. reply[Current] = "none"
      BY <2>5, InHandPlace DEF Undeliverable, InHand, InHandNow
    <3> QED
      BY <2>5, <3>1 DEF Undeliverable, Undelivered, Settled, Answer, StaysOk
  <2>6. CASE UNCHANGED reply
    BY <2>6 DEF StaysOk
  <2> QED
    BY <2>1, <2>2, <2>3, <2>4, <2>5, <2>6 DEF GoAway, Disconnect, Load, PassSlot, Admitted, Decode, DecodeFails,
       EmitNothing, StopOrGoOn, IterationEnds, Wedge, NoProgress, Receive
<1> QED
  BY <1>1, <1>3, <1>4, RelayKeeps

LEMMA RelaySteps ==
  ASSUME Serving, Relayed, [InprocNext]_inprocVars
  PROVE  Relayed'
<1>1. CASE UNCHANGED inprocVars
  BY <1>1, RelayKeeps DEF inprocVars, StaysOk, Current
<1>2. CASE EmitToken \/ Prefill \/ SendCall \/ SendLastCall \/ FlushAgain \/ FinishCall
  BY <1>2, EmitTokenRelays, PrefillRelays, SendCallRelays, FlushAgainRelays, FinishCallRelays
<1>3. CASE FinishOk \/ SendTail \/ SendDone
  BY <1>3, FinishOkRelays, SendTailRelays, SendDoneRelays
<1>4. CASE \E j \in Jobs : Read(j)
  BY <1>4, ReadRelays
<1>5. CASE ~(\/ EmitToken \/ Prefill \/ SendCall \/ SendLastCall \/ FlushAgain \/ FinishCall \/ FinishOk \/ SendTail \/ SendDone \/ \E j \in Jobs : Read(j))
  BY <1>1, <1>5, AsideRelays DEF InprocNext, InprocWorker
<1> QED
  BY <1>2, <1>3, <1>4, <1>5

-----------------------------------------------------------------------------
(* The engine of embeddings.  While it has a job, that job was asked for   *)
(* and is in nobody's hand; the vectors so far are those of the inputs     *)
(* before the next one, and a pass has the inputs from there on, as many   *)
(* as the model takes.                                                     *)
Working == {"begin", "tokenize", "pack", "encode", "end"}
VectorOf(j, i) == {[job |-> j, nth |-> i]}
Packed ==
  /\ \A j \in Embeds : Within(queued, j) => ereply[j] # "new"
  /\ eat \in Working => ejob \in Embeds /\ ereply[ejob] # "new"
  /\ next >= 1
  /\ \A i \in DOMAIN vecs : vecs[i] = VectorOf(ejob, i)
  /\ eat \in {"begin", "tokenize"} => vecs = <<>> /\ next = 1
  /\ eat \in {"pack", "encode"} => Len(vecs) = next - 1 /\ next <= Len(asked[ejob]) + 1
  /\ eat \in {"pack", "encode"} => Tokenized
  /\ eat = "encode" => Cardinality(TokensOf(UNION Range(cells))) <= Context
  /\ eat = "encode" => /\ Len(cells) >= 1 /\ next + Len(cells) <= Len(asked[ejob]) + 1
                       /\ \A l \in DOMAIN cells : cells[l] = VectorOf(ejob, next + l - 1)
  /\ eat = "end" /\ ereply[ejob] = "ok" => Len(vecs) = Len(asked[ejob])
Embedded == EmbedTypeOK /\ Packed

LEMMA EmbeddedStarts ==
  ASSUME EmbedInit
  PROVE  Embedded
<1>1. EmbedTypeOK
  <2>1. <<>> \in Seq(Embeds) /\ <<>> \in Seq(SUBSET Named) /\ Len(<<>>) = 0 /\ 0 <= MaxSeqs
    BY EmbedAssumption, EmptySeq
  <2>2. cells = <<>> /\ Len(cells) <= MaxSeqs
    BY <2>1 DEF EmbedInit
  <2> QED
    BY <2>1, <2>2 DEF EmbedInit, EmbedTypeOK, NoEmbed
<1>2. Packed
  BY WithinEmpty DEF EmbedInit, Packed, Working
<1> QED
  BY <1>1, <1>2 DEF Embedded

(* The lists of inputs are sequences of numbers.                           *)
LEMMA AskedLists ==
  ASSUME EmbedTypeOK, NEW j \in Embeds
  PROVE  asked[j] \in Seq(Nat) /\ Len(asked[j]) \in Nat /\ DOMAIN asked[j] = 1 .. Len(asked[j])
BY EmbedAssumption, EmptySeq, LenProperties DEF EmbedTypeOK

(* An input has as many tokens as are counted for it.                      *)
LEMMA TokensOfOne ==
  ASSUME NEW x, asked[x.job][x.nth] \in Nat
  PROVE  Cardinality(TokensOf({x})) \in 0 .. asked[x.job][x.nth]
<1> DEFINE n == asked[x.job][x.nth]
           f == [k \in 1 .. n |-> <<x, k>>]
<1>1. TokensOf({x}) = {x} \X (1 .. n)
  BY DEF TokensOf
<1>2. f \in Surjection(1 .. n, {x} \X (1 .. n))
  <2>1. f \in [1 .. n -> {x} \X (1 .. n)]
    OBVIOUS
  <2>2. \A t \in {x} \X (1 .. n) : \E k \in 1 .. n : f[k] = t
    OBVIOUS
  <2> HIDE DEF f
  <2> QED
    BY <2>1, <2>2 DEF Surjection
<1>3. ExistsSurjection(1 .. n, {x} \X (1 .. n)) /\ n \in Nat
  BY <1>2 DEF ExistsSurjection
<1> HIDE DEF n, f
<1>4. Cardinality({x} \X (1 .. n)) <= n
  BY <1>3, FS_SurjCardinalityBound
<1>5. Cardinality({x} \X (1 .. n)) \in Nat
  <2>1. IsFiniteSet({x} \X (1 .. n))
    BY <1>3, FS_NatSurjection
  <2> QED
    BY <2>1, FS_CardinalityType
<1>6. Cardinality({x} \X (1 .. n)) \in 0 .. n
  BY <1>3, <1>4, <1>5
<1> QED
  BY <1>1, <1>6 DEF n

(* A group of inputs has an end: the first is in it, and it stops at the   *)
(* last input at the latest.  It has more than one input only if they fit. *)
LEMMA GroupEnds ==
  ASSUME Embedded, eat = "pack", next <= Len(asked[ejob])
  PROVE  /\ GroupEnd \in next .. Len(asked[ejob]) /\ GroupEnd - next < MaxSeqs
         /\ Tokens(next, GroupEnd) <= Context
<1> DEFINE len == Len(asked[ejob])
           T == {e \in Nat : e >= next /\ ~Grouped(e)}
<1>1. ejob \in Embeds /\ next \in Nat /\ next >= 1 /\ len \in Nat /\ DOMAIN asked[ejob] = 1 .. len /\ next <= len
  BY AskedLists DEF Embedded, Packed, Working, EmbedTypeOK
<1>2. Grouped(next)
  <2>1. next \in next .. len /\ next .. next = {next} /\ next - next = 0 /\ ~(next > next)
    BY <1>1
  <2>2. 0 < MaxSeqs
    BY EmbedAssumption
  <2> QED
    BY <2>1, <2>2 DEF Grouped
<1>3. len + 1 \in T
  BY <1>1 DEF Grouped
<1>4. T \in SUBSET Nat
  OBVIOUS
<1>5. PICK m \in T : \A e \in T : m <= e
  BY <1>3, <1>4, LeastNat
<1>6. m \in Nat /\ m >= next /\ ~Grouped(m) /\ m <= len + 1 /\ m # next
  BY <1>2, <1>3, <1>5
<1>7. m - 1 \in Nat /\ m - 1 >= next /\ m - 1 \in 1 .. len /\ (m - 1) + 1 = m /\ ~(m <= m - 1)
  BY <1>1, <1>6
<1>8. Grouped(m - 1)
  BY <1>5, <1>7
<1>9. \E end \in DOMAIN asked[ejob] : Grouped(end) /\ ~Grouped(end + 1)
  <2>1. m - 1 \in DOMAIN asked[ejob] /\ Grouped(m - 1) /\ ~Grouped((m - 1) + 1)
    BY <1>1, <1>6, <1>7, <1>8
  <2> QED
    BY <2>1
<1>10. GroupEnd \in DOMAIN asked[ejob] /\ Grouped(GroupEnd)
  BY <1>9 DEF GroupEnd
<1>11. GroupEnd \in next .. len
  BY <1>10 DEF Grouped
<1>12. GroupEnd \in next .. GroupEnd
  BY <1>1, <1>11
<1>13. GroupEnd - next < MaxSeqs
  BY <1>10, <1>12 DEF Grouped
<1>14. ASSUME GroupEnd > next PROVE Tokens(next, GroupEnd) <= Context
  BY <1>10, <1>12, <1>14 DEF Grouped
<1>15. ASSUME GroupEnd = next PROVE Tokens(next, GroupEnd) <= Context
  <2>1. asked[ejob][next] \in 1 .. Context
    BY <1>1 DEF Embedded, Packed, Tokenized
  <2>2. {Input(i) : i \in next .. next} = {Input(next)}
    BY <1>1
  <2>3. Input(next).job = ejob /\ Input(next).nth = next
    BY DEF Input
  <2>4. Cardinality(TokensOf({Input(next)})) \in 0 .. asked[ejob][next]
    BY <2>1, <2>3, TokensOfOne
  <2>5. Cardinality(TokensOf({Input(next)})) <= Context
    BY <2>1, <2>4, EmbedAssumption
  <2>6. Tokens(next, GroupEnd) = Cardinality(TokensOf({Input(next)}))
    BY <1>15, <2>2 DEF Tokens
  <2> QED
    BY <2>5, <2>6
<1> QED
  BY <1>1, <1>11, <1>13, <1>14, <1>15

LEMMA CellNamed ==
  ASSUME ejob \in Embeds, next \in Nat, next >= 1, NEW l \in Nat, l >= 1
  PROVE  Cell(l) = VectorOf(ejob, next + l - 1) /\ Cell(l) \in SUBSET Named
BY DEF Cell, Input, VectorOf, Named

LEMMA PackEmbedded ==
  ASSUME Embedded, Pack
  PROVE  Embedded'
<1> DEFINE n == GroupEnd - next + 1
<1>1. /\ EmbedTypeOK /\ Packed /\ eat = "pack" /\ next <= Len(asked[ejob]) /\ ejob \in Embeds
      /\ next \in Nat /\ next >= 1 /\ Len(asked[ejob]) \in Nat
      /\ cells' = ClearGroup(n) /\ eat' = "encode"
      /\ UNCHANGED <<ejob, embedHealth, eopen, queued, asked, next, vecs, ereply>>
  BY AskedLists DEF Pack, Embedded, Packed, Working, EmbedTypeOK
<1>2. GroupEnd \in next .. Len(asked[ejob]) /\ GroupEnd - next < MaxSeqs /\ Tokens(next, GroupEnd) <= Context
  BY <1>1, GroupEnds
<1>3. n \in Nat /\ n >= 1 /\ next + n <= Len(asked[ejob]) + 1 /\ n <= MaxSeqs
  BY <1>1, <1>2, EmbedAssumption
<1>4. {Input(i) : i \in next .. GroupEnd} = {Input(next + l - 1) : l \in 1 .. n}
  <2>1. \A i \in next .. GroupEnd : i - next + 1 \in 1 .. n /\ next + (i - next + 1) - 1 = i
    BY <1>1, <1>2
  <2>2. \A l \in 1 .. n : next + l - 1 \in next .. GroupEnd
    BY <1>1, <1>2
  <2> HIDE DEF n
  <2> QED
    BY <2>1, <2>2
<1> HIDE DEF n
<1>5. \A l \in 1 .. n : Cell(l) = VectorOf(ejob, next + l - 1) /\ Cell(l) \in SUBSET Named
  <2> SUFFICES ASSUME NEW l \in 1 .. n PROVE Cell(l) = VectorOf(ejob, next + l - 1) /\ Cell(l) \in SUBSET Named
    OBVIOUS
  <2>1. l \in Nat /\ l >= 1
    BY <1>3
  <2> QED
    BY <1>1, <2>1, CellNamed
<1>6. cells' = [l \in 1 .. n |-> Cell(l)]
  BY <1>1 DEF ClearGroup
<1>7. cells' \in Seq(SUBSET Named) /\ Len(cells') = n /\ DOMAIN cells' = 1 .. n
  <2>1. [l \in 1 .. n |-> Cell(l)] \in [1 .. n -> SUBSET Named]
    BY <1>5
  <2> QED
    BY <1>3, <1>6, <2>1, SeqDef
<1>8. \A l \in DOMAIN cells' : cells'[l] = VectorOf(ejob, next + l - 1)
  BY <1>5, <1>6, <1>7
<1>9. EmbedTypeOK'
  BY <1>1, <1>3, <1>7 DEF EmbedTypeOK, embedHealth
<1>10. Cardinality(TokensOf(UNION Range(cells)))' <= Context
  <2>1. Range(cells') = {{Input(next + l - 1)} : l \in 1 .. n}
    BY <1>6, <1>7 DEF Range, Cell
  <2>2. UNION Range(cells') = {Input(next + l - 1) : l \in 1 .. n}
    BY <2>1
  <2>3. UNION Range(cells') = {Input(i) : i \in next .. GroupEnd}
    BY <1>4, <2>2
  <2>4. TokensOf(UNION Range(cells))' = TokensOf({Input(i) : i \in next .. GroupEnd})
    BY <1>1, <2>3 DEF TokensOf
  <2> QED
    BY <1>2, <2>4 DEF Tokens
<1>11. Tokenized'
  BY <1>1 DEF Packed, Tokenized
<1>12. Packed'
  BY <1>1, <1>3, <1>7, <1>8, <1>10, <1>11 DEF Packed, Working
<1> QED
  BY <1>9, <1>12 DEF Embedded

(* Steps that change neither the job in hand nor its vectors.              *)
EmbedQuiet ==
  \/ DropEmbed \/ LoadEmbed \/ EmbedEnds \/ StopEmbed \/ HangEmbed \/ EmbedAges \/ BeginEmbed
  \/ Tokenize \/ EmbedOk

LEMMA EmbedQuietServes ==
  ASSUME Embedded, EmbedQuiet
  PROVE  Embedded'
<1> USE DEF embedHealth
<1>1. /\ EmbedTypeOK /\ Packed
      /\ UNCHANGED <<ejob, queued, asked, next, cells, vecs>>
  BY DEF Embedded, EmbedQuiet, DropEmbed, LoadEmbed, EmbedEnds, StopEmbed, HangEmbed, EmbedAges, BeginEmbed,
         Tokenize, EmbedOk
<1>2. \/ UNCHANGED ereply
      \/ /\ eat \in {"tokenize", "pack"} /\ eat' = "end"
         /\ \E r \in {"ok", "err"} : ereply' = [ereply EXCEPT ![ejob] = r] /\ (r = "ok" => EmbedOk)
  BY DEF EmbedQuiet, DropEmbed, LoadEmbed, EmbedEnds, StopEmbed, HangEmbed, EmbedAges, BeginEmbed,
         Tokenize, EmbedOk, EmbedReplies
<1>3. ereply' \in [Embeds -> {"new", "none", "ok", "err"}] /\ \A j \in Embeds : ereply[j] # "new" => ereply'[j] # "new"
  BY <1>1, <1>2 DEF EmbedTypeOK
<1>4. EmbedTypeOK'
  <2>1. eat' \in {"load", "recv", "begin", "tokenize", "pack", "encode", "end", "gone"}
    BY <1>1 DEF EmbedTypeOK, EmbedQuiet, DropEmbed, LoadEmbed, EmbedEnds, StopEmbed, HangEmbed, EmbedAges, BeginEmbed,
         Tokenize, EmbedOk, EmbedReplies
  <2>2. eup' \in BOOLEAN
    BY <1>1 DEF EmbedTypeOK, EmbedQuiet, DropEmbed, LoadEmbed, EmbedEnds, StopEmbed, HangEmbed, EmbedAges, BeginEmbed,
         Tokenize, EmbedOk
  <2>3. ebusy' \in BOOLEAN /\ estale' \in BOOLEAN
    BY <1>1 DEF EmbedTypeOK, EmbedQuiet, DropEmbed, LoadEmbed, EmbedEnds, StopEmbed, HangEmbed, EmbedAges, BeginEmbed,
         Tokenize, EmbedOk
  <2>4. ehung' \in BOOLEAN /\ eopen' \in BOOLEAN
    BY <1>1 DEF EmbedTypeOK, EmbedQuiet, DropEmbed, LoadEmbed, EmbedEnds, StopEmbed, HangEmbed, EmbedAges, BeginEmbed,
         Tokenize, EmbedOk
  <2> QED
    BY <1>1, <1>3, <2>1, <2>2, <2>3, <2>4 DEF EmbedTypeOK
<1>5. ASSUME eat' = eat /\ UNCHANGED ereply PROVE Packed'
  BY <1>1, <1>5 DEF Packed, Tokenized, TokensOf
<1>6. ASSUME eat' \notin Working /\ UNCHANGED ereply PROVE Packed'
  BY <1>1, <1>6 DEF Packed, Working
<1>7. ASSUME BeginEmbed PROVE Packed'
  BY <1>1, <1>7 DEF Packed, Working, BeginEmbed
<1>8. ASSUME Tokenize PROVE Packed'
  <2>1. ejob \in Embeds /\ vecs = <<>> /\ next = 1 /\ Len(asked[ejob]) \in Nat /\ Len(<<>>) = 0
    BY <1>1, <1>8, AskedLists, EmptySeq DEF Packed, Working, Tokenize
  <2>2. CASE eat' = "pack" /\ UNCHANGED ereply
    <3>1. Tokenized'
      BY <1>1, <1>8, <2>2 DEF Tokenize, EmbedReplies, Tokenized
    <3> QED
      BY <1>1, <2>1, <2>2, <3>1, <1>8 DEF Packed, Working, Tokenize
  <2>3. CASE eat' = "end" /\ ereply' = [ereply EXCEPT ![ejob] = "err"]
    BY <1>1, <1>3, <2>1, <2>3, <1>8 DEF Packed, Working, Tokenize, EmbedTypeOK
  <2> QED
    BY <1>8, <2>2, <2>3 DEF Tokenize, EmbedReplies
<1>9. ASSUME EmbedOk PROVE Packed'
  <2>1. /\ ejob \in Embeds /\ Len(vecs) = next - 1 /\ next <= Len(asked[ejob]) + 1 /\ next > Len(asked[ejob])
        /\ eat' = "end" /\ ereply' = [ereply EXCEPT ![ejob] = "ok"]
    BY <1>1, <1>9 DEF Packed, Working, EmbedOk, EmbedReplies
  <2>2. Len(vecs) = Len(asked[ejob])
    BY <1>1, <2>1, AskedLists DEF EmbedTypeOK
  <2> QED
    BY <1>1, <1>3, <2>1, <2>2 DEF Packed, Working
<1>10. \/ UNCHANGED <<eat, ereply>> \/ (eat' \notin Working /\ UNCHANGED ereply)
       \/ BeginEmbed \/ Tokenize \/ EmbedOk
  BY DEF EmbedQuiet, DropEmbed, LoadEmbed, EmbedEnds, StopEmbed, HangEmbed, EmbedAges, Working
<1>11. Packed'
  BY <1>5, <1>6, <1>7, <1>8, <1>9, <1>10
<1> QED
  BY <1>4, <1>11 DEF Embedded

LEMMA GiveEmbedServes ==
  ASSUME Embedded, NEW j \in Embeds, GiveEmbed(j)
  PROVE  Embedded'
<1>1. /\ EmbedTypeOK /\ Packed /\ ereply[j] = "new"
      /\ UNCHANGED <<eat, ejob, embedHealth, eopen, next, cells, vecs>>
  BY DEF Embedded, GiveEmbed
<1>2. PICK list \in InputLists :
        /\ asked' = [asked EXCEPT ![j] = list]
        /\ \/ queued' = Append(queued, j) /\ ereply' = [ereply EXCEPT ![j] = "none"]
           \/ ereply' = [ereply EXCEPT ![j] = "err"] /\ UNCHANGED queued
  BY DEF GiveEmbed
<1>3. asked' \in [Embeds -> InputLists \cup {<<>>}] /\ ereply' \in [Embeds -> {"new", "none", "ok", "err"}]
      /\ (\A i \in Embeds : ereply[i] # "new" => ereply'[i] = ereply[i] /\ asked'[i] = asked[i])
      /\ ereply'[j] # "new" /\ \A i \in Embeds : ereply[i] # "new" => ereply'[i] # "new"
  BY <1>1, <1>2 DEF EmbedTypeOK
<1>4. queued' \in Seq(Embeds) /\ \A x : Within(queued', x) => Within(queued, x) \/ x = j
  <2>1. queued \in Seq(Embeds)
    BY <1>1 DEF EmbedTypeOK
  <2>2. Append(queued, j) \in Seq(Embeds) /\ \A x : Within(Append(queued, j), x) <=> Within(queued, x) \/ x = j
    BY <2>1, WithinAppend
  <2> QED
    BY <1>2, <2>1, <2>2
<1>5. EmbedTypeOK'
  BY <1>1, <1>3, <1>4 DEF EmbedTypeOK, embedHealth
<1>6. ASSUME eat \in {"pack", "encode"} PROVE Packed'
  <2>1. ejob \in Embeds /\ asked'[ejob] = asked[ejob] /\ UNCHANGED <<eat, ejob, next, cells>> /\ Tokenized
    BY <1>1, <1>3, <1>6 DEF Packed, Working
  <2>2. Tokenized'
    BY <2>1 DEF Tokenized
  <2>3. ASSUME eat = "encode" PROVE Cardinality(TokensOf(UNION Range(cells)))' <= Context
    <3>1. \A x \in UNION Range(cells) : x.job = ejob
      BY <1>1, <2>3 DEF Packed, Range, VectorOf
    <3>2. \A x \in UNION Range(cells) : asked'[x.job][x.nth] = asked[x.job][x.nth]
      BY <2>1, <3>1
    <3>3. TokensOf(UNION Range(cells))' = TokensOf(UNION Range(cells))
      BY <2>1, <3>2 DEF TokensOf
    <3> QED
      BY <1>1, <2>3, <3>3 DEF Packed
  <2> QED
    BY <1>1, <1>3, <1>4, <2>1, <2>2, <2>3 DEF Packed, Working
<1>7. ASSUME eat \notin {"pack", "encode"} PROVE Packed'
  BY <1>1, <1>3, <1>4, <1>7 DEF Packed, Working
<1> QED
  BY <1>5, <1>6, <1>7 DEF Embedded

LEMMA TakeEmbedServes ==
  ASSUME Embedded, TakeEmbed
  PROVE  Embedded'
<1>1. /\ EmbedTypeOK /\ Packed /\ queued # <<>> /\ queued \in Seq(Embeds)
      /\ ejob' = Head(queued) /\ queued' = Tail(queued)
      /\ eat' = "begin" /\ ebusy' = TRUE /\ next' = 1 /\ vecs' = <<>>
      /\ UNCHANGED <<eup, estale, ehung, eopen, asked, cells, ereply>>
  BY DEF Embedded, TakeEmbed, EmbedTypeOK
<1>2. queued' \in Seq(Embeds) /\ ejob' \in Embeds /\ Within(queued, ejob')
      /\ \A x : Within(queued', x) => Within(queued, x)
  BY <1>1, WithinTail
<1>3. EmbedTypeOK'
  BY <1>1, <1>2, EmptySeq DEF EmbedTypeOK
<1>4. Packed'
  BY <1>1, <1>2 DEF Packed, Working
<1> QED
  BY <1>3, <1>4 DEF Embedded

(* The vectors of a pass follow those of the passes before it.             *)
LEMMA EncodeServes ==
  ASSUME Embedded, Encode
  PROVE  Embedded'
<1>1. /\ EmbedTypeOK /\ Packed /\ eat = "encode" /\ ejob \in Embeds
      /\ vecs \in Seq(SUBSET Named) /\ cells \in Seq(SUBSET Named)
      /\ next \in Nat /\ next >= 1 /\ Len(vecs) = next - 1 /\ Len(cells) \in Nat /\ Len(cells) >= 1
      /\ next + Len(cells) <= Len(asked[ejob]) + 1 /\ Len(asked[ejob]) \in Nat
      /\ UNCHANGED <<ejob, eup, ebusy, ehung, eopen, queued, asked, cells>>
  BY AskedLists, LenProperties DEF Embedded, Packed, Working, EmbedTypeOK, Encode
<1>2. CASE /\ vecs' = vecs \o cells /\ next' = next + Len(cells)
           /\ eat' = "pack" /\ estale' = FALSE /\ UNCHANGED ereply
  <2> DEFINE m == Len(vecs)
             n == Len(cells)
  <2>1. /\ m \in Nat /\ m = next - 1 /\ vecs' \in Seq(SUBSET Named) /\ Len(vecs') = m + n
        /\ DOMAIN vecs' = 1 .. m + n /\ DOMAIN vecs = 1 .. m /\ DOMAIN cells = 1 .. n
        /\ \A i \in 1 .. m + n : vecs'[i] = IF i <= m THEN vecs[i] ELSE cells[i - m]
    <3>1. /\ vecs \o cells \in Seq(SUBSET Named) /\ Len(vecs \o cells) = m + n
          /\ \A i \in 1 .. m + n : (vecs \o cells)[i] = IF i <= m THEN vecs[i] ELSE cells[i - m]
      BY <1>1, ConcatProperties
    <3>2. DOMAIN vecs = 1 .. m /\ DOMAIN cells = 1 .. n /\ m \in Nat
      BY <1>1, LenProperties
    <3>3. DOMAIN (vecs \o cells) = 1 .. m + n
      BY <3>1, LenProperties
    <3> QED
      BY <1>1, <1>2, <3>1, <3>2, <3>3
  <2>2. \A i \in DOMAIN vecs' : vecs'[i] = VectorOf(ejob, i)
    <3> SUFFICES ASSUME NEW i \in 1 .. m + n PROVE vecs'[i] = VectorOf(ejob, i)
      BY <2>1
    <3>1. CASE i <= m
      <4>1. i \in DOMAIN vecs
        BY <1>1, <2>1, <3>1
      <4> QED
        BY <1>1, <2>1, <3>1, <4>1 DEF Packed
    <3>2. CASE ~(i <= m)
      <4>1. i - m \in DOMAIN cells /\ next + (i - m) - 1 = i
        BY <1>1, <2>1, <3>2
      <4>2. cells[i - m] = VectorOf(ejob, next + (i - m) - 1)
        BY <1>1, <4>1 DEF Packed
      <4> QED
        BY <2>1, <3>2, <4>1, <4>2
    <3> QED
      BY <3>1, <3>2
  <2>3. next' \in Nat /\ next' >= 1 /\ Len(vecs') = next' - 1 /\ next' <= Len(asked[ejob]) + 1
    BY <1>1, <1>2, <2>1
  <2>4. EmbedTypeOK'
    BY <1>1, <1>2, <2>1, <2>3 DEF EmbedTypeOK
  <2>5. Tokenized'
    BY <1>1, <1>2 DEF Packed, Tokenized
  <2>6. Packed'
    BY <1>1, <1>2, <2>2, <2>3, <2>5 DEF Packed, Working
  <2> QED
    BY <2>4, <2>6 DEF Embedded
<1>3. CASE EmbedReplies("err") /\ estale' \in {estale, FALSE} /\ UNCHANGED <<vecs, next>>
  <2>1. eat' = "end" /\ ereply' = [ereply EXCEPT ![ejob] = "err"]
    BY <1>3 DEF EmbedReplies
  <2>2. EmbedTypeOK'
    BY <1>1, <1>3, <2>1 DEF EmbedTypeOK
  <2>3. Packed'
    BY <1>1, <1>3, <2>1 DEF Packed, Working, EmbedTypeOK
  <2> QED
    BY <2>2, <2>3 DEF Embedded
<1> QED
  BY <1>2, <1>3 DEF Encode

LEMMA EmbeddedSteps ==
  ASSUME Embedded, [EmbedEngineNext]_embedVars
  PROVE  Embedded'
<1>1. CASE UNCHANGED embedVars
  BY <1>1 DEF embedVars, Embedded, EmbedTypeOK, Packed, Tokenized, TokensOf
<1>2. CASE EmbedQuiet
  BY <1>2, EmbedQuietServes
<1>3. ASSUME NEW j \in Embeds, GiveEmbed(j) PROVE Embedded'
  BY <1>3, GiveEmbedServes
<1>4. CASE TakeEmbed \/ Pack \/ Encode
  BY <1>4, TakeEmbedServes, PackEmbedded, EncodeServes
<1> QED
  BY <1>1, <1>2, <1>3, <1>4 DEF EmbedEngineNext, EmbedWorker, EmbedQuiet

-----------------------------------------------------------------------------
(* Pieces of a sequence m of numbers.  The sequence s is what m has after  *)
(* the place a, up to the place b; the sequences ss are such pieces of m,  *)
(* one behind the other.                                                   *)
Segment(s, m, a, b) ==
  /\ s \in Seq(Int) /\ a \in Nat /\ b \in Nat /\ b = a + Len(s) /\ b <= Len(m)
  /\ \A i \in 1 .. Len(s) : s[i] = m[a + i]
Marks(f, ss, m, a, b) ==
  /\ f \in [0 .. Len(ss) -> Nat] /\ f[0] = a /\ f[Len(ss)] = b
  /\ \A i \in 1 .. Len(ss) : Segment(ss[i], m, f[i - 1], f[i])
Segments(ss, m, a, b) == ss \in Seq(Seq(Int)) /\ \E f : Marks(f, ss, m, a, b)

LEMMA SegmentNil ==
  ASSUME NEW m \in Seq(Int), NEW a \in Nat, a <= Len(m)
  PROVE  Segment(<<>>, m, a, a)
<1>1. <<>> \in Seq(Int) /\ Len(<<>>) = 0
  BY EmptySeq
<1> QED
  BY <1>1 DEF Segment

LEMMA SegmentGrows ==
  ASSUME NEW m \in Seq(Int), NEW e \in Int, NEW s, NEW a, NEW b, Segment(s, m, a, b)
  PROVE  Segment(s, Append(m, e), a, b)
<1>1. /\ Len(m) \in Nat /\ Len(Append(m, e)) = Len(m) + 1
      /\ \A i \in 1 .. Len(m) : Append(m, e)[i] = m[i]
  BY AppendProperties, LenProperties
<1>2. Len(s) \in Nat /\ \A i \in 1 .. Len(s) : a + i \in 1 .. Len(m)
  BY <1>1, LenProperties DEF Segment
<1> QED
  BY <1>1, <1>2 DEF Segment

LEMMA SegmentLast ==
  ASSUME NEW m \in Seq(Int), NEW e \in Int
  PROVE  Segment(<<e>>, Append(m, e), Len(m), Len(m) + 1)
<1>1. /\ Len(m) \in Nat /\ Len(Append(m, e)) = Len(m) + 1 /\ Append(m, e)[Len(m) + 1] = e
  BY AppendProperties, LenProperties
<1>2. <<e>> \in Seq(Int) /\ Len(<<e>>) = 1 /\ <<e>>[1] = e
  OBVIOUS
<1> QED
  BY <1>1, <1>2 DEF Segment

LEMMA SegmentJoin ==
  ASSUME NEW m, NEW s, NEW t, NEW a, NEW b, NEW c, Segment(s, m, a, b), Segment(t, m, b, c)
  PROVE  Segment(s \o t, m, a, c)
<1>1. /\ s \in Seq(Int) /\ t \in Seq(Int) /\ Len(s) \in Nat /\ Len(t) \in Nat
      /\ a \in Nat /\ b = a + Len(s) /\ c = b + Len(t) /\ c \in Nat /\ c <= Len(m)
  BY LenProperties DEF Segment
<1>2. /\ s \o t \in Seq(Int) /\ Len(s \o t) = Len(s) + Len(t)
      /\ \A i \in 1 .. Len(s) + Len(t) : (s \o t)[i] = IF i <= Len(s) THEN s[i] ELSE t[i - Len(s)]
  BY <1>1, ConcatProperties
<1>3. ASSUME NEW i \in 1 .. Len(s \o t) PROVE (s \o t)[i] = m[a + i]
  <2>1. CASE i <= Len(s)
    <3>1. i \in 1 .. Len(s)
      BY <1>1, <1>2, <2>1
    <3> QED
      BY <1>2, <2>1, <3>1 DEF Segment
  <2>2. CASE ~(i <= Len(s))
    <3>1. i - Len(s) \in 1 .. Len(t) /\ b + (i - Len(s)) = a + i
      BY <1>1, <1>2, <2>2
    <3> QED
      BY <1>2, <2>2, <3>1 DEF Segment
  <2> QED
    BY <2>1, <2>2
<1>4. c = a + Len(s \o t)
  BY <1>1, <1>2
<1> QED
  BY <1>1, <1>2, <1>3, <1>4 DEF Segment

LEMMA SegmentSplit ==
  ASSUME NEW m, NEW s, NEW a, NEW b, Segment(s, m, a, b), s # <<>>
  PROVE  /\ Head(s) \in Int /\ Head(s) = m[a + 1] /\ a + 1 \in Nat /\ a + 1 <= Len(m)
         /\ Segment(<<Head(s)>>, m, a, a + 1) /\ Segment(Tail(s), m, a + 1, b)
<1>1. /\ s \in Seq(Int) /\ Len(s) \in Nat /\ Len(s) # 0 /\ a \in Nat /\ b = a + Len(s) /\ b \in Nat /\ b <= Len(m)
      /\ Head(s) = s[1] /\ Head(s) \in Int
      /\ Tail(s) \in Seq(Int) /\ Len(Tail(s)) = Len(s) - 1 /\ \A i \in 1 .. Len(Tail(s)) : Tail(s)[i] = s[i + 1]
  BY HeadTailProperties, LenProperties, EmptySeq DEF Segment
<1>2. Head(s) = m[a + 1]
  BY <1>1 DEF Segment
<1>3. \A i \in 1 .. Len(Tail(s)) : i + 1 \in 1 .. Len(s) /\ a + (i + 1) = (a + 1) + i
  BY <1>1
<1>4. \A i \in 1 .. Len(Tail(s)) : Tail(s)[i] = m[(a + 1) + i]
  BY <1>1, <1>3 DEF Segment
<1>5. b = (a + 1) + Len(Tail(s)) /\ a + 1 \in Nat
  BY <1>1
<1>6. Segment(Tail(s), m, a + 1, b)
  BY <1>1, <1>4, <1>5 DEF Segment
<1>7. a + 1 <= Len(m)
  BY <1>1
<1>8. Segment(<<Head(s)>>, m, a, a + 1)
  <2>1. <<Head(s)>> \in Seq(Int) /\ Len(<<Head(s)>>) = 1 /\ <<Head(s)>>[1] = Head(s)
    BY <1>1
  <2> QED
    BY <1>1, <1>2, <1>5, <1>7, <2>1 DEF Segment
<1> QED
  BY <1>1, <1>2, <1>5, <1>6, <1>7, <1>8

LEMMA SegmentsNil ==
  ASSUME NEW m, NEW a \in Nat
  PROVE  Segments(<<>>, m, a, a) /\ \A b : Segments(<<>>, m, a, b) => b = a
<1>1. Len(<<>>) = 0 /\ <<>> \in Seq(Seq(Int))
  BY EmptySeq
<1>2. Marks([i \in 0 .. 0 |-> a], <<>>, m, a, a)
  BY <1>1 DEF Marks
<1>3. ASSUME NEW b, Segments(<<>>, m, a, b) PROVE b = a
  BY <1>1, <1>3 DEF Segments, Marks
<1> QED
  BY <1>1, <1>2, <1>3 DEF Segments

LEMMA SegmentsGrow ==
  ASSUME NEW m \in Seq(Int), NEW e \in Int, NEW ss, NEW a, NEW b, Segments(ss, m, a, b)
  PROVE  Segments(ss, Append(m, e), a, b)
<1>1. PICK f : Marks(f, ss, m, a, b)
  BY DEF Segments
<1>2. Marks(f, ss, Append(m, e), a, b)
  BY <1>1, SegmentGrows DEF Marks
<1> QED
  BY <1>2 DEF Segments

LEMMA SegmentsPush ==
  ASSUME NEW m, NEW ss, NEW s, NEW a, NEW b, NEW c, Segments(ss, m, a, b), Segment(s, m, b, c)
  PROVE  Segments(Append(ss, s), m, a, c)
<1>1. PICK f : Marks(f, ss, m, a, b)
  BY DEF Segments
<1> DEFINE n == Len(ss)
           t == Append(ss, s)
           g == [i \in 0 .. n + 1 |-> IF i = n + 1 THEN c ELSE f[i]]
<1>2. /\ n \in Nat /\ t \in Seq(Seq(Int)) /\ Len(t) = n + 1 /\ t[n + 1] = s
      /\ \A i \in 1 .. n : t[i] = ss[i]
  BY AppendProperties, LenProperties DEF Segments, Segment
<1>3. /\ f \in [0 .. n -> Nat] /\ f[0] = a /\ f[n] = b /\ c \in Nat
      /\ \A i \in 1 .. n : Segment(ss[i], m, f[i - 1], f[i])
  BY <1>1 DEF Marks, Segment
<1> HIDE DEF n, t
<1>4. g \in [0 .. n + 1 -> Nat] /\ g[0] = a /\ g[n + 1] = c
  BY <1>2, <1>3
<1>5. ASSUME NEW i \in 1 .. n + 1 PROVE Segment(t[i], m, g[i - 1], g[i])
  <2>1. CASE i = n + 1
    <3>1. n + 1 \in 0 .. n + 1 /\ n \in 0 .. n + 1 /\ n # n + 1 /\ (n + 1) - 1 = n
      BY <1>2
    <3>2. g[i] = c /\ g[i - 1] = b
      BY <1>3, <2>1, <3>1
    <3>3. t[i] = s
      BY <1>2, <2>1
    <3> QED
      BY <3>2, <3>3
  <2>2. CASE i # n + 1
    <3>1. i \in 1 .. n /\ i - 1 \in 0 .. n + 1 /\ i \in 0 .. n + 1 /\ i - 1 # n + 1
      BY <1>2, <2>2
    <3>2. g[i] = f[i] /\ g[i - 1] = f[i - 1]
      BY <2>2, <3>1
    <3> QED
      BY <1>2, <1>3, <3>1, <3>2
  <2> QED
    BY <2>1, <2>2
<1> HIDE DEF g
<1>6. Marks(g, t, m, a, c)
  BY <1>2, <1>4, <1>5 DEF Marks
<1> QED
  BY <1>2, <1>6 DEF Segments, t

LEMMA SegmentsPop ==
  ASSUME NEW m, NEW ss, NEW a, NEW b, Segments(ss, m, a, b), ss # <<>>
  PROVE  \E c : Segment(Head(ss), m, a, c) /\ Segments(Tail(ss), m, c, b)
<1>1. PICK f : Marks(f, ss, m, a, b)
  BY DEF Segments
<1> DEFINE n == Len(Tail(ss))
           t == Tail(ss)
           g == [i \in 0 .. n |-> f[i + 1]]
<1>2. /\ n \in Nat /\ Len(ss) = n + 1 /\ t \in Seq(Seq(Int)) /\ Len(t) = n /\ Head(ss) = ss[1]
      /\ \A i \in 1 .. n : t[i] = ss[i + 1]
  BY HeadTailProperties, LenProperties, EmptySeq DEF Segments
<1>3. /\ f \in [0 .. n + 1 -> Nat] /\ f[0] = a /\ f[n + 1] = b
      /\ \A i \in 1 .. n + 1 : Segment(ss[i], m, f[i - 1], f[i])
  BY <1>1, <1>2 DEF Marks
<1> HIDE DEF n, t
<1>4. \A i \in 0 .. n : i + 1 \in 0 .. n + 1
  BY <1>2
<1>5. g \in [0 .. n -> Nat] /\ g[0] = f[1] /\ g[n] = b
  BY <1>2, <1>3, <1>4
<1>6. ASSUME NEW i \in 1 .. n PROVE Segment(t[i], m, g[i - 1], g[i])
  <2>1. i \in 0 .. n /\ i - 1 \in 0 .. n /\ (i - 1) + 1 = i /\ i + 1 \in 1 .. n + 1 /\ (i + 1) - 1 = i
    BY <1>2
  <2>2. g[i] = f[i + 1] /\ g[i - 1] = f[i]
    BY <2>1
  <2>3. Segment(ss[i + 1], m, f[(i + 1) - 1], f[i + 1])
    BY <1>3, <2>1
  <2> QED
    BY <1>2, <2>1, <2>2, <2>3
<1> HIDE DEF g
<1>7. Marks(g, t, m, f[1], b)
  BY <1>2, <1>5, <1>6 DEF Marks
<1>8. Segment(Head(ss), m, a, f[1])
  <2>1. 1 \in 1 .. n + 1 /\ 1 - 1 = 0
    BY <1>2
  <2> QED
    BY <1>2, <1>3, <2>1
<1> QED
  BY <1>2, <1>7, <1>8 DEF Segments, t

-----------------------------------------------------------------------------
(* The engine beside the node.  Restarts counted for the swap are those    *)
(* for crashes, and the swap comes after the second.                       *)
Relaunches ==
  /\ crashRestarts = relaunched["crash"]
  /\ lane = "swap" => relaunched["crash"] >= 2

(* What was read of a stream, the events in its channel, those being sent, *)
(* the text not yet sent and the lines not yet read are what llama-server  *)
(* wrote, in this order.  A success was delivered to its end.              *)
Conveyed(p, q, r) ==
  /\ Segment(taken, made, 0, Len(taken)) /\ Segments(events, made, Len(taken), p)
  /\ Segments(todo, made, p, q) /\ Segment(unsent, made, q, r) /\ Segment(lines, made, r, Len(made))
Delivered == req["stream"] = "ok" /\ listening
Ended == \A i \in 1 .. Len(made) : made[i] = End => i = Len(made)
Carried ==
  /\ Ended /\ (Delivered => Contains(made, End))
  /\ \E p, q, r : Conveyed(p, q, r) /\ (Delivered => p = Len(made))

InPlace == req["embed"] = "ok" => vectors = <<0, 1>>

Beside == ServerTypeOK /\ Relaunches /\ Carried /\ InPlace

LEMMA BesideStarts ==
  ASSUME ServerInit
  PROVE  Beside
<1>1. <<>> \in Seq(Int) /\ <<>> \in Seq(Seq(Int)) /\ <<>> \in Seq(Inputs) /\ Len(<<>>) = 0
  BY EmptySeq
<1>2. ServerTypeOK
  <2>1. Len(lines) <= LineCap /\ Len(events) <= EventCap
    BY <1>1, ServerAssumption DEF ServerInit
  <2> QED
    BY <1>1, <2>1, ServerAssumption DEF ServerInit, ServerTypeOK, Attempts
<1>3. Carried
  <2>1. Segment(<<>>, <<>>, 0, 0) /\ Segments(<<>>, <<>>, 0, 0)
    <3>1. 0 <= Len(<<>>) /\ 0 \in Nat
      BY <1>1
    <3>2. Segment(<<>>, <<>>, 0, 0)
      BY <1>1, <3>1, SegmentNil
    <3>3. Segments(<<>>, <<>>, 0, 0)
      BY <3>1, SegmentsNil
    <3> QED
      BY <3>2, <3>3
  <2>2. Conveyed(0, 0, 0)
    BY <1>1, <2>1 DEF ServerInit, Conveyed
  <2>3. ~Delivered
    BY DEF ServerInit, Delivered, Requests
  <2>4. Ended
    BY <1>1 DEF ServerInit, Ended
  <2> QED
    BY <2>2, <2>3, <2>4 DEF Carried
<1>4. Relaunches /\ InPlace
  BY DEF ServerInit, Relaunches, InPlace, Requests
<1> QED
  BY <1>2, <1>3, <1>4 DEF Beside

(* Steps of the process and of the calls leave what was streamed alone.    *)
LifeNext ==
  \/ Supervision \/ \E k \in {"crash", "empty"} : ServerRestart(k)
  \/ LlamaReady \/ LlamaHangs \/ LlamaDies
CallNext ==
  \/ ChatAnswered \/ EmbedAnswered \/ EmbedTimesOut \/ StreamOpens \/ StreamCut
  \/ \E r \in Requests : Ask(r) \/ Connect(r) \/ NoAnswer(r)
StreamNext == LlamaStreams \/ ReadLine \/ SendEvent \/ TakeEvent \/ StopListening

LEMMA ServerNextSplit ==
  ServerNext <=> LifeNext \/ CallNext \/ StreamNext
BY DEF ServerNext, LifeNext, CallNext, StreamNext, Calls3

LEMMA RestartCounts ==
  ASSUME ServerTypeOK, Relaunches, NEW k \in {"crash", "empty"}, ServerRestart(k)
  PROVE  /\ relaunched' \in [{"crash", "empty"} -> 0 .. MaxRelaunches]
         /\ crashRestarts' = relaunched'["crash"] /\ crashRestarts' \in 0 .. MaxRelaunches
         /\ lane' \in {"swap", "launch"} /\ (lane' = "swap" => relaunched'["crash"] >= 2)
<1>1. /\ relaunched["crash"] \in 0 .. MaxRelaunches /\ relaunched["empty"] \in 0 .. MaxRelaunches
      /\ relaunched \in [{"crash", "empty"} -> 0 .. MaxRelaunches]
      /\ relaunched["crash"] + relaunched["empty"] < MaxRelaunches /\ MaxRelaunches \in Nat
      /\ relaunched' = [relaunched EXCEPT ![k] = @ + 1]
      /\ crashRestarts' = crashRestarts + (IF k = "crash" THEN 1 ELSE 0)
      /\ crashRestarts = relaunched["crash"]
      /\ lane' = IF crashRestarts' # crashRestarts /\ crashRestarts' = 2 /\ variant = "vulkan" THEN "swap" ELSE "launch"
  BY ServerAssumption DEF ServerTypeOK, Relaunches, ServerRestart, CountedIfCrash
<1>2. relaunched[k] + 1 \in 0 .. MaxRelaunches
  BY <1>1
<1>3. relaunched' \in [{"crash", "empty"} -> 0 .. MaxRelaunches]
  BY <1>1, <1>2
<1>4. crashRestarts' = relaunched'["crash"]
  <2>1. CASE k = "crash"
    BY <1>1, <2>1
  <2>2. CASE k = "empty"
    BY <1>1, <2>2
  <2> QED
    BY <2>1, <2>2
<1> QED
  BY <1>1, <1>3, <1>4

LEMMA LifeTypes ==
  ASSUME Beside, LifeNext
  PROVE  ServerTypeOK' /\ Relaunches' /\ UNCHANGED <<req, tries, stream, vectors>>
<1> USE DEF stream, Gone
<1>1. ServerTypeOK /\ Relaunches
  BY DEF Beside
<1>2. CASE LaunchServer
  BY <1>1, <1>2 DEF LaunchServer, ServerTypeOK, Relaunches
<1>3. CASE ProbeOk
  BY <1>1, <1>3 DEF ProbeOk, ServerTypeOK, Relaunches
<1>4. CASE ProbeGivesUp
  BY <1>1, <1>4 DEF ProbeGivesUp, ServerTypeOK, Relaunches
<1>5. CASE SwapBuild
  BY <1>1, <1>5 DEF SwapBuild, ServerTypeOK, Relaunches
<1>6. CASE LlamaReady
  BY <1>1, <1>6 DEF LlamaReady, ServerTypeOK, Relaunches
<1>7. CASE LlamaHangs
  BY <1>1, <1>7 DEF LlamaHangs, ServerTypeOK, Relaunches
<1>8. CASE LlamaDies
  BY <1>1, <1>8 DEF LlamaDies, ServerTypeOK, Relaunches
<1>9. ASSUME NEW k \in {"crash", "empty"}, ServerRestart(k)
      PROVE  ServerTypeOK' /\ Relaunches' /\ UNCHANGED <<req, tries, stream, vectors>>
  <2>1. /\ relaunched' \in [{"crash", "empty"} -> 0 .. MaxRelaunches]
        /\ crashRestarts' = relaunched'["crash"] /\ crashRestarts' \in 0 .. MaxRelaunches
        /\ lane' \in {"swap", "launch"} /\ (lane' = "swap" => relaunched'["crash"] >= 2)
    BY <1>1, <1>9, RestartCounts
  <2> QED
    BY <1>1, <1>9, <2>1 DEF ServerRestart, ServerTypeOK, Relaunches
<1> QED
  BY <1>2, <1>3, <1>4, <1>5, <1>6, <1>7, <1>8, <1>9 DEF LifeNext, Supervision

(* Rows whose indexes are those of the inputs, each once, are put in the   *)
(* order of the inputs.                                                    *)
LEMMA SortedRows ==
  ASSUME NEW rows \in [1 .. 2 -> Inputs \cup {2, NoIndex}], Permuted(rows)
  PROVE  Sorted(rows) = <<0, 1>>
<1> DEFINE P(v) == /\ Range(v) = {IndexOf(rows, i) : i \in DOMAIN rows}
                   /\ \A i, k \in DOMAIN rows : i < k => v[i] <= v[k]
           w == [i \in 1 .. 2 |-> i - 1]
<1>1. DOMAIN rows = 1 .. 2 /\ 1 \in 1 .. 2 /\ 2 \in 1 .. 2 /\ 1 # 2 /\ \A i \in 1 .. 2 : i = 1 \/ i = 2
  OBVIOUS
<1>2. IndexOf(rows, 1) \in {0, 1} /\ IndexOf(rows, 2) \in {0, 1} /\ IndexOf(rows, 1) # IndexOf(rows, 2)
  BY <1>1 DEF Permuted, InRange, Inputs
<1>3. {IndexOf(rows, i) : i \in DOMAIN rows} = {0, 1}
  BY <1>1, <1>2
<1>4. w \in [1 .. 2 -> Inputs] /\ w[1] = 0 /\ w[2] = 1
  BY DEF Inputs
<1>5. Range(w) = {0, 1}
  <2>1. DOMAIN w = 1 .. 2
    OBVIOUS
  <2> HIDE DEF w
  <2> QED
    BY <1>1, <1>4, <2>1 DEF Range
<1>6. P(w)
  <2> HIDE DEF w
  <2> QED
    BY <1>1, <1>3, <1>4, <1>5
<1>7. Sorted(rows) = CHOOSE v \in [1 .. 2 -> Inputs] : P(v)
  BY <1>1 DEF Sorted
<1>8. Sorted(rows) \in [1 .. 2 -> Inputs] /\ P(Sorted(rows))
  <2> HIDE DEF w, P
  <2> QED
    BY <1>4, <1>6, <1>7
<1> DEFINE v == Sorted(rows)
<1> HIDE DEF v, w
<1>9. v \in [1 .. 2 -> Inputs] /\ Range(v) = {0, 1} /\ v[1] <= v[2] /\ DOMAIN v = 1 .. 2
  BY <1>1, <1>3, <1>8 DEF v
<1>10. v[1] \in {0, 1} /\ v[2] \in {0, 1}
  BY <1>9 DEF Inputs
<1>11. 0 \in Range(v) /\ 1 \in Range(v)
  BY <1>9
<1>12. v[1] = 0 /\ v[2] = 1
  BY <1>1, <1>9, <1>10, <1>11 DEF Range
<1>13. v = <<0, 1>>
  <2>1. v \in Seq(Inputs) /\ Len(v) = 2
    <3>1. v \in Seq(Inputs)
      <4>1. v \in [1 .. 2 -> Inputs] /\ 2 \in Nat
        BY <1>9
      <4>2. v \in UNION {[1 .. n -> Inputs] : n \in Nat}
        BY <4>1
      <4> QED
        BY <4>2, SeqDef
    <3>2. Len(v) \in Nat /\ DOMAIN v = 1 .. Len(v)
      BY <3>1, LenProperties
    <3>3. 2 \in 1 .. Len(v)
      BY <1>9, <3>2
    <3>4. Len(v) \in 1 .. 2
      BY <1>9, <3>2, <3>3
    <3> QED
      BY <3>1, <3>2, <3>3, <3>4
  <2>2. <<0, 1>> \in Seq(Inputs) /\ Len(<<0, 1>>) = 2 /\ <<0, 1>>[1] = 0 /\ <<0, 1>>[2] = 1
    BY DEF Inputs
  <2> QED
    BY <1>1, <1>12, <2>1, <2>2, SeqEqual
<1> QED
  BY <1>13 DEF v

LEMMA CallTypes ==
  ASSUME Beside, CallNext
  PROVE  /\ ServerTypeOK' /\ UNCHANGED <<process, stream>>
         /\ req'["stream"] = "ok" => req["stream"] = "ok"
         /\ InPlace'
<1> USE DEF stream, process, At
<1>1. ServerTypeOK /\ InPlace /\ req \in [Requests -> {"new", "trying", "waiting", "reading"} \cup Over]
      /\ tries \in [Requests -> 0 .. Attempts] /\ "stream" \in Requests /\ "embed" \in Requests /\ "chat" \in Requests
  BY DEF Beside, ServerTypeOK, Requests
<1> DEFINE Goal == /\ ServerTypeOK' /\ UNCHANGED <<process, stream>>
                   /\ req'["stream"] = "ok" => req["stream"] = "ok"
                   /\ InPlace'
<1>2. CASE ChatAnswered
  <2>1. PICK o \in Over : req' = [req EXCEPT !["chat"] = o]
    BY <1>2 DEF ChatAnswered
  <2> QED
    BY <1>1, <1>2, <2>1 DEF ChatAnswered, ServerTypeOK, InPlace
<1>3. CASE EmbedAnswered
  <2>1. UNCHANGED <<process, tries, cut, stream>>
    BY <1>3 DEF EmbedAnswered
  <2>2. CASE req' = [req EXCEPT !["embed"] = "err"] /\ UNCHANGED vectors
    BY <1>1, <2>1, <2>2 DEF ServerTypeOK, InPlace, Over
  <2>3. CASE \E rows \in [1 .. 2 -> Inputs \cup {2, NoIndex}] :
               Permuted(rows) /\ req' = [req EXCEPT !["embed"] = "ok"] /\ vectors' = Sorted(rows)
    <3>1. vectors' = <<0, 1>>
      BY <2>3, SortedRows
    <3>2. vectors' \in Seq(Inputs)
      BY <3>1 DEF Inputs
    <3> QED
      BY <1>1, <2>1, <2>3, <3>1, <3>2 DEF ServerTypeOK, InPlace, Over
  <2> QED
    BY <1>3, <2>2, <2>3 DEF EmbedAnswered
<1>4. CASE EmbedTimesOut
  BY <1>1, <1>4 DEF EmbedTimesOut, ServerTypeOK, InPlace, Over
<1>5. CASE StreamOpens
  <2>1. PICK pc \in {"reading", "err"} : req' = [req EXCEPT !["stream"] = pc]
    BY <1>5 DEF StreamOpens
  <2> QED
    BY <1>1, <1>5, <2>1 DEF StreamOpens, ServerTypeOK, InPlace, Over
<1>6. CASE StreamCut
  BY <1>1, <1>6 DEF StreamCut, Truncated, ServerTypeOK, InPlace, Over
<1>7. ASSUME NEW r \in Requests, Ask(r) PROVE Goal
  BY <1>1, <1>7 DEF Ask, ServerTypeOK, InPlace
<1>8. ASSUME NEW r \in Requests, NoAnswer(r) PROVE Goal
  BY <1>1, <1>8 DEF NoAnswer, ServerTypeOK, InPlace, Over
<1>9. ASSUME NEW r \in Requests, Connect(r) PROVE Goal
  <2>1. UNCHANGED <<process, cut, stream, vectors>>
    BY <1>9 DEF Connect
  <2>2. CASE (\E pc \in {"waiting", "err"} : req' = [req EXCEPT ![r] = pc]) /\ UNCHANGED tries
    <3>1. PICK pc \in {"waiting", "err"} : req' = [req EXCEPT ![r] = pc]
      BY <2>2
    <3> QED
      BY <1>1, <2>1, <2>2, <3>1 DEF ServerTypeOK, InPlace, Over
  <2>3. CASE Tried(r) /\ tries[r] + 1 < Attempts /\ UNCHANGED req
    <3>1. tries' \in [Requests -> 0 .. Attempts]
      BY <1>1, <2>3 DEF Tried, Attempts
    <3> QED
      BY <1>1, <2>1, <2>3, <3>1 DEF ServerTypeOK, InPlace
  <2> QED
    BY <1>9, <2>2, <2>3 DEF Connect, TriesAgain
<1> QED
  BY <1>2, <1>3, <1>4, <1>5, <1>6, <1>7, <1>8, <1>9 DEF CallNext

(* The types of what is streamed; the rest of the state is as it was.      *)
Wires ==
  /\ made \in Seq(Int) /\ lines \in Seq(Int) /\ Len(lines) <= LineCap
  /\ unsent \in Seq(Int) /\ todo \in Seq(Seq(Int)) /\ events \in Seq(Seq(Int)) /\ Len(events) <= EventCap
  /\ listening \in BOOLEAN /\ taken \in Seq(Int)

LEMMA StreamFrame ==
  ASSUME Beside, StreamNext, Wires', Carried'
  PROVE  Beside'
<1> USE DEF process, At
<1>1. ServerTypeOK /\ Relaunches /\ InPlace
  BY DEF Beside
<1>2. UNCHANGED <<process, tries, vectors>>
  BY DEF StreamNext, LlamaStreams, ReadLine, SendEvent, TakeEvent, StopListening
<1>3. /\ req' = req \/ req' = [req EXCEPT !["stream"] = "ok"]
      /\ cut' = cut \/ cut' = cut \ {"stream"}
  BY DEF StreamNext, LlamaStreams, ReadLine, SendEvent, TakeEvent, StopListening
<1>4. req' \in [Requests -> {"new", "trying", "waiting", "reading"} \cup Over] /\ cut' \subseteq Requests
      /\ req'["embed"] = req["embed"]
  <2>1. req \in [Requests -> {"new", "trying", "waiting", "reading"} \cup Over] /\ cut \subseteq Requests
    BY <1>1 DEF ServerTypeOK
  <2>2. "ok" \in Over
    BY DEF Over
  <2>3. req'["embed"] = req["embed"]
    BY <1>3, <2>1 DEF Requests
  <2>4. req' \in [Requests -> {"new", "trying", "waiting", "reading"} \cup Over]
    BY <1>3, <2>1, <2>2
  <2> QED
    BY <1>3, <2>1, <2>3, <2>4
<1>5. ServerTypeOK'
  BY <1>1, <1>2, <1>4 DEF ServerTypeOK, Wires
<1>6. Relaunches' /\ InPlace'
  BY <1>1, <1>2, <1>4 DEF Relaunches, InPlace
<1> QED
  BY <1>5, <1>6 DEF Beside

LEMMA LlamaStreamsCarries ==
  ASSUME Beside, LlamaStreams
  PROVE  Wires' /\ Carried'
<1>1. /\ Wires /\ Carried /\ ~Contains(made, End) /\ Len(lines) < LineCap /\ req["stream"] = "reading"
      /\ UNCHANGED <<req, unsent, todo, events, listening, taken>>
      /\ Len(made) \in Nat /\ Len(lines) \in Nat
  BY LenProperties DEF Beside, ServerTypeOK, Wires, LlamaStreams, Streaming
<1>2. PICK e \in Int : made' = Append(made, e) /\ lines' = Append(lines, e)
  BY <1>1 DEF LlamaStreams, End
<1>3. /\ made' \in Seq(Int) /\ Len(made') = Len(made) + 1 /\ \A i \in 1 .. Len(made) : made'[i] = made[i]
      /\ lines' \in Seq(Int) /\ Len(lines') = Len(lines) + 1
  BY <1>1, <1>2, AppendProperties DEF Wires
<1>4. Wires'
  BY <1>1, <1>3, ServerAssumption DEF Wires
<1>5. Ended'
  <2> SUFFICES ASSUME NEW i \in 1 .. Len(made'), made'[i] = End PROVE i = Len(made')
    BY DEF Ended
  <2>1. \A k \in 1 .. Len(made) : made[k] # End
    BY <1>1 DEF Contains
  <2>2. i \notin 1 .. Len(made)
    BY <1>3, <2>1
  <2> QED
    BY <1>1, <1>3, <2>2
<1>6. ~Delivered'
  BY <1>1 DEF Delivered
<1>7. PICK p, q, r : Conveyed(p, q, r)
  BY <1>1 DEF Carried
<1>8. Conveyed(p, q, r)'
  <2>1. /\ Segment(taken, Append(made, e), 0, Len(taken)) /\ Segment(unsent, Append(made, e), q, r)
        /\ Segment(lines, Append(made, e), r, Len(made))
    BY <1>1, <1>7, SegmentGrows DEF Conveyed, Wires
  <2>2. Segments(events, Append(made, e), Len(taken), p) /\ Segments(todo, Append(made, e), p, q)
    BY <1>1, <1>7, SegmentsGrow DEF Conveyed, Wires
  <2>3. Segment(<<e>>, Append(made, e), Len(made), Len(made) + 1)
    BY <1>1, SegmentLast DEF Wires
  <2>4. Segment(lines \o <<e>>, Append(made, e), r, Len(made) + 1)
    BY <2>1, <2>3, SegmentJoin
  <2>5. lines' = lines \o <<e>>
    <3>1. lines \in Seq(Int) /\ <<e>> \in Seq(Int)
      BY <1>1 DEF Wires
    <3> QED
      BY <1>2, <3>1, AppendIsConcat
  <2> QED
    BY <1>1, <1>2, <1>3, <2>1, <2>2, <2>4, <2>5 DEF Conveyed
<1> QED
  BY <1>4, <1>5, <1>6, <1>8 DEF Carried

(* A line becomes text not yet sent, or ends a batch of it.                *)
LEMMA ReadLineCarries ==
  ASSUME Beside, ReadLine
  PROVE  Wires' /\ Carried'
<1> DEFINE n == Head(lines)
<1>1. /\ Wires /\ Carried /\ req["stream"] = "reading" /\ todo = <<>> /\ lines # <<>> /\ lines' = Tail(lines)
      /\ UNCHANGED <<req, made, events, listening, taken>>
  BY DEF Beside, ServerTypeOK, Wires, ReadLine
<1>2. PICK p, q, r : Conveyed(p, q, r)
  BY <1>1 DEF Carried
<1>3. /\ Segment(taken, made, 0, Len(taken)) /\ Segments(events, made, Len(taken), p)
      /\ Segments(<<>>, made, p, q) /\ Segment(unsent, made, q, r) /\ Segment(lines, made, r, Len(made))
  BY <1>1, <1>2 DEF Conveyed
<1>4. p \in Nat /\ q = p
  <2>1. \E f : Marks(f, events, made, Len(taken), p)
    BY <1>3 DEF Segments
  <2>2. Len(events) \in Nat
    BY <1>1, LenProperties DEF Wires
  <2>3. p \in Nat
    BY <2>1, <2>2 DEF Marks
  <2> QED
    BY <1>3, <2>3, SegmentsNil
<1>5. /\ n \in Int /\ Segment(<<n>>, made, r, r + 1) /\ Segment(Tail(lines), made, r + 1, Len(made))
  BY <1>1, <1>3, SegmentSplit
<1>6. lines' \in Seq(Int) /\ Len(lines') <= LineCap
  <2>1. lines \in Seq(Int) /\ Len(lines) \in Nat /\ Tail(lines) \in Seq(Int) /\ Len(Tail(lines)) = Len(lines) - 1
    BY <1>1, HeadTailProperties, LenProperties DEF Wires
  <2> QED
    BY <1>1, <2>1, ServerAssumption DEF Wires
<1>7. Append(unsent, n) = unsent \o <<n>> /\ Append(unsent, n) \in Seq(Int)
      /\ Segment(Append(unsent, n), made, q, r + 1)
  <2>1. unsent \in Seq(Int) /\ <<n>> \in Seq(Int)
    BY <1>1, <1>5 DEF Wires
  <2>2. Append(unsent, n) = unsent \o <<n>> /\ Append(unsent, n) \in Seq(Int)
    BY <1>5, <2>1, AppendIsConcat, AppendProperties
  <2> QED
    BY <1>3, <1>5, <2>2, SegmentJoin
<1>8. Segments(<<>>, made, p, p) /\ Segment(<<>>, made, r + 1, r + 1)
  <2>1. r + 1 \in Nat /\ r + 1 <= Len(made)
    BY <1>5 DEF Segment
  <2> QED
    BY <1>1, <1>4, <2>1, SegmentsNil, SegmentNil DEF Wires
<1> HIDE DEF n
<1>9. Segments(Append(Batch, <<n>>), made, p, r + 1)
  <2>1. CASE unsent = <<>>
    <3>1. r = q
      <4>1. Len(<<>>) = 0
        BY EmptySeq
      <4> QED
        BY <1>3, <2>1, <4>1 DEF Segment
    <3>2. Segments(Append(<<>>, <<n>>), made, p, r + 1)
      BY <1>4, <1>5, <1>8, <3>1, SegmentsPush
    <3> QED
      BY <2>1, <3>2 DEF Batch
  <2>2. CASE unsent # <<>>
    <3>1. Segments(Append(<<>>, unsent), made, p, r)
      BY <1>3, <1>4, <1>8, SegmentsPush
    <3>2. Append(<<>>, unsent) = <<unsent>>
      OBVIOUS
    <3>3. Segments(Append(<<unsent>>, <<n>>), made, p, r + 1)
      BY <1>5, <3>1, <3>2, SegmentsPush
    <3> QED
      BY <2>2, <3>3 DEF Batch
  <2> QED
    BY <2>1, <2>2
<1>10. Segments(<<Append(unsent, n)>>, made, p, r + 1)
  <2>1. Segments(Append(<<>>, Append(unsent, n)), made, p, r + 1)
    BY <1>4, <1>7, <1>8, SegmentsPush
  <2>2. Append(<<>>, Append(unsent, n)) = <<Append(unsent, n)>>
    OBVIOUS
  <2> QED
    BY <2>1, <2>2
<1>11. \/ todo' \in {<<Append(unsent, n)>>, Append(Batch, <<n>>)} /\ unsent' = <<>>
       \/ todo' = <<>> /\ unsent' = Append(unsent, n)
  BY <1>1 DEF ReadLine, TextFirst, n, End
<1>12. \E b : Conveyed(p, b, r + 1)' /\ todo' \in Seq(Seq(Int)) /\ unsent' \in Seq(Int)
  <2>1. CASE todo' \in {<<Append(unsent, n)>>, Append(Batch, <<n>>)} /\ unsent' = <<>>
    <3>1. Segments(todo', made, p, r + 1)
      BY <1>9, <1>10, <2>1
    <3>2. Conveyed(p, r + 1, r + 1)'
      BY <1>1, <1>3, <1>5, <1>8, <2>1, <3>1 DEF Conveyed
    <3> QED
      BY <2>1, <3>1, <3>2, EmptySeq DEF Segments
  <2>2. CASE todo' = <<>> /\ unsent' = Append(unsent, n)
    <3>1. Conveyed(p, q, r + 1)'
      BY <1>1, <1>3, <1>5, <1>7, <2>2 DEF Conveyed
    <3> QED
      BY <1>7, <2>2, <3>1, EmptySeq
  <2> QED
    BY <1>11, <2>1, <2>2
<1>13. Wires'
  BY <1>1, <1>6, <1>12 DEF Wires
<1>14. Carried'
  BY <1>1, <1>12 DEF Carried, Delivered, Ended
<1> QED
  BY <1>13, <1>14

(* An event goes into the channel; the last one says that all were sent.   *)
LEMMA SendEventCarries ==
  ASSUME Beside, SendEvent
  PROVE  Wires' /\ Carried'
<1>1. /\ Wires /\ Carried /\ req["stream"] = "reading" /\ todo # <<>> /\ req \in [Requests -> {"new", "trying", "waiting", "reading"} \cup Over]
      /\ UNCHANGED <<made, lines, unsent, listening, taken>>
  BY DEF Beside, ServerTypeOK, Wires, SendEvent
<1>2. PICK p, q, r : Conveyed(p, q, r)
  BY <1>1 DEF Carried
<1>3. CASE ~listening /\ UNCHANGED <<events, todo>>
  <2>1. Wires' /\ ~Delivered' /\ Conveyed(p, q, r)'
    BY <1>1, <1>2, <1>3 DEF Wires, Delivered, Conveyed
  <2> QED
    BY <1>1, <2>1 DEF Carried, Ended
<1>4. CASE /\ Len(events) < EventCap /\ events' = Append(events, Head(todo)) /\ todo' = Tail(todo)
           /\ IF Head(todo) = <<End>> THEN At("stream", "ok") ELSE UNCHANGED req
  <2>1. PICK c : Segment(Head(todo), made, p, c) /\ Segments(Tail(todo), made, c, q)
    BY <1>1, <1>2, SegmentsPop DEF Conveyed
  <2>2. Segments(Append(events, Head(todo)), made, Len(taken), c)
    BY <1>2, <2>1, SegmentsPush DEF Conveyed
  <2>3. Conveyed(c, q, r)'
    BY <1>1, <1>2, <1>4, <2>1, <2>2 DEF Conveyed
  <2>4. Wires'
    <3>1. Head(todo) \in Seq(Int) /\ Tail(todo) \in Seq(Seq(Int)) /\ events \in Seq(Seq(Int)) /\ Len(events) \in Nat
      BY <1>1, HeadTailProperties, LenProperties DEF Wires
    <3>2. Append(events, Head(todo)) \in Seq(Seq(Int)) /\ Len(Append(events, Head(todo))) = Len(events) + 1
      BY <3>1, AppendProperties
    <3>3. Len(events') <= EventCap
      BY <1>4, <3>1, <3>2, ServerAssumption
    <3> QED
      BY <1>1, <1>4, <3>1, <3>2, <3>3 DEF Wires
  <2>5. ASSUME Delivered' PROVE Contains(made, End) /\ c = Len(made)
    <3>1. Head(todo) = <<End>>
      BY <1>1, <1>4, <2>5 DEF Delivered
    <3>2. Len(<<End>>) = 1 /\ <<End>>[1] = End /\ 1 \in 1 .. 1
      OBVIOUS
    <3>3. c = p + 1 /\ p \in Nat /\ c <= Len(made) /\ made[p + 1] = End
      BY <2>1, <3>1, <3>2 DEF Segment
    <3>4. Len(made) \in Nat
      BY <1>1, LenProperties DEF Wires
    <3>5. p + 1 \in 1 .. Len(made)
      BY <3>3, <3>4
    <3> QED
      BY <1>1, <3>3, <3>5 DEF Carried, Ended, Contains
  <2> QED
    BY <1>1, <2>3, <2>4, <2>5 DEF Carried, Ended
<1> QED
  BY <1>3, <1>4 DEF SendEvent

LEMMA TakeEventCarries ==
  ASSUME Beside, TakeEvent \/ StopListening
  PROVE  Wires' /\ Carried'
<1>1. Wires /\ Carried /\ UNCHANGED <<req, made, lines, unsent, todo>>
  BY DEF Beside, ServerTypeOK, Wires, TakeEvent, StopListening
<1>2. PICK p, q, r : Conveyed(p, q, r) /\ (Delivered => p = Len(made))
  BY <1>1 DEF Carried
<1>3. CASE TakeEvent
  <2>1. events # <<>> /\ taken' = taken \o Head(events) /\ events' = Tail(events) /\ UNCHANGED listening
    BY <1>3 DEF TakeEvent
  <2>2. PICK c : Segment(Head(events), made, Len(taken), c) /\ Segments(Tail(events), made, c, p)
    BY <1>2, <2>1, SegmentsPop DEF Conveyed
  <2>3. Segment(taken', made, 0, c)
    BY <1>2, <2>1, <2>2, SegmentJoin DEF Conveyed
  <2>4. c = Len(taken') /\ taken' \in Seq(Int)
    BY <2>3, LenProperties DEF Segment
  <2>5. Conveyed(p, q, r)'
    BY <1>1, <1>2, <2>1, <2>2, <2>3, <2>4 DEF Conveyed
  <2>6. Tail(events) \in Seq(Seq(Int)) /\ Len(Tail(events)) <= EventCap
    <3>1. events \in Seq(Seq(Int)) /\ Len(events) \in Nat /\ Tail(events) \in Seq(Seq(Int))
          /\ Len(Tail(events)) = Len(events) - 1
      BY <1>1, <2>1, HeadTailProperties, LenProperties DEF Wires
    <3> QED
      BY <1>1, <3>1, ServerAssumption DEF Wires
  <2>7. Wires'
    BY <1>1, <2>1, <2>4, <2>6 DEF Wires
  <2>8. Delivered' <=> Delivered
    BY <1>1, <2>1 DEF Delivered
  <2>9. made' = made
    BY <1>1
  <2> QED
    BY <1>1, <1>2, <2>5, <2>7, <2>8, <2>9 DEF Carried, Ended
<1>4. CASE StopListening
  <2>1. listening' = FALSE /\ UNCHANGED <<events, taken>>
    BY <1>4 DEF StopListening
  <2>2. Wires' /\ ~Delivered' /\ Conveyed(p, q, r)'
    BY <1>1, <1>2, <2>1 DEF Wires, Delivered, Conveyed
  <2> QED
    BY <1>1, <2>2 DEF Carried, Ended
<1> QED
  BY <1>3, <1>4

LEMMA BesideSteps ==
  ASSUME Beside, [ServerNext]_serverVars
  PROVE  Beside'
<1>1. CASE UNCHANGED serverVars
  BY <1>1 DEF serverVars, process, stream, Beside, ServerTypeOK, Relaunches, Carried, Conveyed, Delivered, Ended, InPlace
<1>2. CASE LifeNext
  <2>1. ServerTypeOK' /\ Relaunches' /\ UNCHANGED <<req, tries, stream, vectors>>
    BY <1>2, LifeTypes
  <2>2. Carried' /\ InPlace'
    BY <2>1 DEF stream, Beside, Carried, Conveyed, Delivered, Ended, InPlace
  <2> QED
    BY <2>1, <2>2 DEF Beside
<1>3. CASE CallNext
  <2>1. /\ ServerTypeOK' /\ UNCHANGED <<process, stream>>
        /\ req'["stream"] = "ok" => req["stream"] = "ok"
        /\ InPlace'
    BY <1>3, CallTypes
  <2>2. Relaunches' /\ Ended' /\ (Delivered' => Delivered) /\ Carried
    BY <2>1 DEF process, stream, Beside, Relaunches, Delivered, Ended, Carried
  <2>3. made' = made /\ \A p, q, r : Conveyed(p, q, r)' <=> Conveyed(p, q, r)
    BY <2>1 DEF stream, Conveyed
  <2>4. Carried'
    BY <2>2, <2>3 DEF Carried
  <2> QED
    BY <2>1, <2>2, <2>4 DEF Beside
<1>4. CASE StreamNext
  <2>1. Wires' /\ Carried'
    BY <1>4, LlamaStreamsCarries, ReadLineCarries, SendEventCarries, TakeEventCarries DEF StreamNext
  <2> QED
    BY <1>4, <2>1, StreamFrame
<1> QED
  BY <1>1, <1>2, <1>3, <1>4, ServerNextSplit

(* What was carried is what the caller was promised.                       *)
LEMMA SegmentIsPrefix ==
  ASSUME NEW m \in Seq(Int), NEW s, Segment(s, m, 0, Len(s))
  PROVE  IsPrefix(s, m) /\ (Len(s) = Len(m) => s = m)
<1>1. /\ s \in Seq(Int) /\ Len(s) \in Nat /\ Len(m) \in Nat /\ Len(s) <= Len(m)
      /\ \A i \in 1 .. Len(s) : s[i] = m[i] /\ i \in 1 .. Len(m) /\ m[i] \in Int /\ s[i] \in Int
  BY LenProperties, ElementOfSeq DEF Segment
<1>2. SubSeq(s, 1, Len(s)) = s
  BY <1>1, SubSeqFull
<1>3. SubSeq(m, 1, Len(s)) = s
  <2>1. /\ SubSeq(m, 1, Len(s)) \in Seq(Int)
        /\ Len(SubSeq(m, 1, Len(s))) = IF 1 <= Len(s) THEN Len(s) - 1 + 1 ELSE 0
        /\ \A i \in 1 .. Len(s) - 1 + 1 : SubSeq(m, 1, Len(s))[i] = m[1 + i - 1]
    BY <1>1, SubSeqProperties
  <2>2. Len(SubSeq(m, 1, Len(s))) = Len(s) /\ \A i \in 1 .. Len(s) : SubSeq(m, 1, Len(s))[i] = s[i]
    BY <1>1, <2>1
  <2> QED
    BY <1>1, <2>1, <2>2, SeqEqual
<1>4. Len(s) = Len(m) => s = m
  BY <1>1, SeqEqual
<1> QED
  BY <1>1, <1>2, <1>3, <1>4 DEF IsPrefix

LEMMA BesideServes ==
  ASSUME Beside
  PROVE  ServedFaithfully
<1>1. made \in Seq(Int) /\ taken \in Seq(Int)
  BY DEF Beside, ServerTypeOK
<1>2. PICK p, q, r : Conveyed(p, q, r) /\ (Delivered => p = Len(made))
  BY DEF Beside, Carried
<1>3. IsPrefix(taken, made) /\ (Len(taken) = Len(made) => taken = made)
  BY <1>1, <1>2, SegmentIsPrefix DEF Conveyed
<1>4. ASSUME Delivered, events = <<>> PROVE taken = made
  <2>1. Len(taken) \in Nat /\ Segments(<<>>, made, Len(taken), Len(made))
    BY <1>1, <1>2, <1>4, LenProperties DEF Conveyed
  <2>2. Len(made) = Len(taken)
    BY <2>1, SegmentsNil
  <2> QED
    BY <1>3, <2>2
<1> QED
  BY <1>3, <1>4 DEF Beside, Carried, InPlace, ServedFaithfully, Delivered

-----------------------------------------------------------------------------
(* The three together.  Only the engine that was chosen takes steps.       *)
ChatInv == engine \in Modes /\ Serving /\ Relayed /\ Embedded /\ Beside

LEMMA ChatStarts ==
  ChatInit => ChatInv
BY ServingStarts, RelayStarts, EmbeddedStarts, BesideStarts DEF ChatInit, ChatInv

LEMMA ChatSteps ==
  ChatInv /\ [ChatNext]_chatVars => ChatInv'
<1> SUFFICES ASSUME ChatInv, [ChatNext]_chatVars PROVE ChatInv'
  OBVIOUS
<1>1. /\ [InprocNext]_inprocVars /\ [EmbedEngineNext]_embedVars /\ [ServerNext]_serverVars
      /\ engine' = engine
  BY DEF chatVars, ChatNext, InProcess, Embedding, Server
<1>2. Serving' /\ Relayed' /\ Embedded' /\ Beside'
  BY <1>1, ServingSteps, RelaySteps, EmbeddedSteps, BesideSteps DEF ChatInv
<1> QED
  BY <1>1, <1>2 DEF ChatInv

LEMMA ChatAlways ==
  ChatSpec => []ChatInv
BY ChatStarts, ChatSteps, PTL DEF ChatSpec

(* The variables of the three engines keep their types.                    *)
THEOREM ChatTypeCorrect == ChatSpec => []ChatTypeOK
<1>1. ChatInv => ChatTypeOK
  BY DEF ChatInv, Serving, Embedded, Beside, ChatTypeOK
<1> QED
  BY <1>1, ChatAlways, PTL

(* A job of the in-process engine starts from an empty context, whatever   *)
(* became of the job that had its slot before.                             *)
THEOREM FreeSlots == ChatSpec => []FreeSlotsEmpty
<1>1. ChatInv => FreeSlotsEmpty
  BY DEF ChatInv, Serving, Cells, FreeSlotsEmpty
<1> QED
  BY <1>1, ChatAlways, PTL

(* A stream delivers its text in order and without a gap, whoever reads it *)
(* and however slowly, and the counts a client is billed by come only when *)
(* all of its text was delivered.                                          *)
THEOREM BilledForText == ChatSpec => []DoneAfterText
<1>1. ChatInv => DoneAfterText
  BY RelayDelivers DEF ChatInv
<1> QED
  BY <1>1, ChatAlways, PTL

(* Nobody is told of a backend failed for good by an engine that still says*)
(* it is healthy.                                                          *)
THEOREM FatalSeen == ChatSpec => []FatalSeenUnhealthy
<1>1. ChatInv => FatalSeenUnhealthy
  BY DEF ChatInv, Serving, FatalMarked, FatalSeenUnhealthy, InprocHealthy
<1> QED
  BY <1>1, ChatAlways, PTL

(* Embeddings are those of the inputs, in their order, however inputs are  *)
(* packed and rows come back, and no pass is given more tokens than the    *)
(* model takes; a stream of llama-server is delivered in its order, and to *)
(* its end when it is called a success.                                    *)
THEOREM AnswersTrue == ChatSpec => []AnswersFaithful
<1>1. ChatInv => AnswersFaithful
  BY BesideServes DEF ChatInv, Embedded, Packed, VectorOf, Input, AnswersFaithful, EmbeddingsFaithful
<1> QED
  BY <1>1, ChatAlways, PTL

(* The GPU build of llama-server is only given up after two crashes.       *)
THEOREM SwapsAreEarned == ChatSpec => SwapNeedsCrashes
<1>1. ChatInv /\ [ChatNext]_chatVars => [variant' # variant => relaunched["crash"] >= 2]_serverVars
  <2> SUFFICES ASSUME ChatInv, [ChatNext]_chatVars, variant' # variant PROVE relaunched["crash"] >= 2
    OBVIOUS
  <2>1. [ServerNext]_serverVars
    BY DEF chatVars, ChatNext, InProcess, Embedding, Server
  <2>2. ServerNext
    BY <2>1 DEF serverVars, process
  <2>3. Beside
    BY DEF ChatInv
  <2>4. CASE LifeNext
    <3>1. SwapBuild
      BY <2>4 DEF LifeNext, Supervision, LaunchServer, ProbeOk, ProbeGivesUp, ServerRestart, LlamaReady, LlamaHangs, LlamaDies
    <3> QED
      BY <2>3, <3>1 DEF SwapBuild, Beside, Relaunches
  <2>5. CASE CallNext
    <3>1. UNCHANGED process
      BY <2>3, <2>5, CallTypes
    <3> QED
      BY <3>1 DEF process
  <2>6. CASE StreamNext
    BY <2>6 DEF StreamNext, LlamaStreams, ReadLine, SendEvent, TakeEvent, StopListening, process
  <2> QED
    BY <2>2, <2>4, <2>5, <2>6, ServerNextSplit
<1> QED
  BY <1>1, ChatAlways, PTL DEF ChatSpec, SwapNeedsCrashes
=============================================================================
