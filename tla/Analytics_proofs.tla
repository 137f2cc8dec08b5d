------------------------- MODULE Analytics_proofs -------------------------
(***************************************************************************)
(* Theorems of Analytics, for every set of requests and every value of the *)
(* permits, the queue, the cap, the timeouts and the body.                 *)
(***************************************************************************)
EXTENDS Analytics, FiniteSetTheorems, SequenceTheorems, TLAPS

LEMMA Constants ==
  /\ IsFiniteSet(Requests)
  /\ Permits \in Nat /\ QueueSize \in Nat /\ QueueSize > 0 /\ Cap \in Nat
  /\ ChunkTimeout \in Nat /\ StreamTimeout \in Nat
  /\ ClientTimeout \in Nat /\ ClientTimeout > 0
  /\ Length \in Nat /\ Length > 0 /\ MaxChunk \in Nat /\ MaxChunk > 0
  /\ EventEnds \subseteq 1..Length
BY AnalyticsAssumption

LEMMA EventsFinite == IsFiniteSet(EventEnds)
<1>1. IsFiniteSet(1..Length)
  BY Constants, FS_Interval
<1> QED BY <1>1, Constants, FS_Subset

(* The events that are whole in some bytes: a number, which more bytes do  *)
(* not lower.                                                              *)
LEMMA UsageType ==
  ASSUME NEW bytes
  PROVE  Usage(bytes) \in 0..Cardinality(EventEnds)
<1>1. IsFiniteSet(EventEnds)
  BY EventsFinite
<1>2. {e \in EventEnds : 1..e \subseteq bytes} \subseteq EventEnds
  OBVIOUS
<1>3. /\ IsFiniteSet({e \in EventEnds : 1..e \subseteq bytes})
      /\ Cardinality({e \in EventEnds : 1..e \subseteq bytes}) <= Cardinality(EventEnds)
  BY <1>1, <1>2, FS_Subset
<1> QED BY <1>1, <1>3, FS_CardinalityType DEF Usage

LEMMA UsageMonotone ==
  ASSUME NEW B, NEW C, B \subseteq C
  PROVE  Usage(B) <= Usage(C)
<1>1. IsFiniteSet(EventEnds)
  BY EventsFinite
<1>2. IsFiniteSet({e \in EventEnds : 1..e \subseteq C})
  BY <1>1, FS_Subset
<1>3. {e \in EventEnds : 1..e \subseteq B} \subseteq {e \in EventEnds : 1..e \subseteq C}
  OBVIOUS
<1> QED BY <1>2, <1>3, FS_Subset DEF Usage

-----------------------------------------------------------------------------
(* Permits *)

Asking == {r \in Requests : phase[r] = "asking"}

PermitsOK ==
  /\ permits \in Nat
  /\ phase \in [Requests -> {"new", "asking", "streaming", "done"}]
  /\ permits + Cardinality(Asking) = Permits

LEMMA AskingFinite == IsFiniteSet(Asking) /\ Cardinality(Asking) \in Nat
<1>1. IsFiniteSet(Asking)
  BY Constants, FS_Subset DEF Asking
<1> QED BY <1>1, FS_CardinalityType

(* A handler that leaves takes itself out of those that ask.               *)
LEMMA LeaveFrees ==
  ASSUME PermitsOK, NEW r \in Requests, NEW p \in {"streaming", "done"},
         Leave(r, p), PermitBack(r)
  PROVE  PermitsOK'
<1>1. Asking' = Asking \ {r} /\ r \in Asking
  BY DEF PermitsOK, Asking, Leave
<1>2. Cardinality(Asking') = Cardinality(Asking) - 1
  BY <1>1, AskingFinite, FS_RemoveElement
<1> QED BY <1>2, AskingFinite, Constants DEF PermitsOK, Leave, PermitBack

(* So does one that arrives put itself in.                                 *)
LEMMA AdmitTakes ==
  ASSUME PermitsOK, NEW r \in Requests, Admit(r)
  PROVE  PermitsOK'
<1>1. Asking' = Asking \union {r} /\ r \notin Asking
  BY DEF PermitsOK, Asking, Admit
<1>2. Cardinality(Asking') = Cardinality(Asking) + 1
  BY <1>1, AskingFinite, FS_AddElement
<1> QED BY <1>2, AskingFinite, Constants DEF PermitsOK, Admit

(* What moves requests between the other phases changes nothing.           *)
LEMMA OthersIdle ==
  ASSUME PermitsOK, UNCHANGED permits, Asking' = Asking,
         phase' \in [Requests -> {"new", "asking", "streaming", "done"}]
  PROVE  PermitsOK'
BY DEF PermitsOK

LEMMA PermitsStep == PermitsOK /\ [Next]_vars => PermitsOK'
<1> SUFFICES ASSUME PermitsOK, [Next]_vars PROVE PermitsOK'
  OBVIOUS
<1>1. ASSUME NEW r \in Requests, Refused(r) PROVE PermitsOK'
  <2>1. Asking' = Asking
    BY <1>1 DEF PermitsOK, Asking, Refused
  <2> QED BY <1>1, <2>1, OthersIdle DEF PermitsOK, Refused
<1>2. ASSUME NEW r \in Requests, Admit(r) PROVE PermitsOK'
  BY <1>2, AdmitTakes
<1>3. ASSUME NEW r \in Requests,
             EndUnrecorded(r) \/ CancelHandler(r) \/ AnswerWhole(r) \/ AnswerStream(r)
      PROVE  PermitsOK'
  BY <1>3, LeaveFrees DEF EndUnrecorded, CancelHandler, AnswerWhole, AnswerStream
<1>4. ASSUME NEW r \in Requests, EndStream(r) PROVE PermitsOK'
  <2>1. Asking' = Asking
    BY <1>4 DEF PermitsOK, Asking, EndStream
  <2> QED BY <1>4, <2>1, OthersIdle DEF PermitsOK, EndStream
<1>5. ASSUME NEW S, NEW T, Gone(S, T) PROVE PermitsOK'
  <2>1. Asking' = {}
    BY <1>5 DEF Asking, Gone
  <2>2. Cardinality(Asking') = 0
    BY <2>1, FS_EmptySet
  <2> QED BY <1>5, <2>2, Constants DEF PermitsOK, Gone
<1>6. ASSUME UNCHANGED <<permits, phase>> PROVE PermitsOK'
  BY <1>6 DEF PermitsOK, Asking
<1> QED
  BY <1>1, <1>2, <1>3, <1>4, <1>5, <1>6
  DEF Next, vars, HandlerStep, StreamStep, WriteStep, UpstreamEnds, Disconnect, Exit, Kill,
      Chunk, HttpTimeout, Relay, SaveRow, SaveFails, NoConnection, Process, Signal, Drained, Tick

LEMMA PermitsInit == Init => PermitsOK
<1> SUFFICES ASSUME Init PROVE PermitsOK
  OBVIOUS
<1>1. Asking = {}
  BY DEF Init, Asking
<1>2. Cardinality(Asking) = 0
  BY <1>1, FS_EmptySet
<1> QED BY <1>2, Constants DEF Init, PermitsOK

-----------------------------------------------------------------------------
(* Where a request is and where its record is *)

(* No record is due before there is an answer, and that of a stream is in  *)
(* its tee.                                                                *)
StageOK ==
  /\ phase \in [Requests -> {"new", "asking", "streaming", "done"}]
  /\ stage \in [Requests -> Stages]
  /\ \A r \in Requests : phase[r] \in {"new", "asking"} => stage[r] = "none"
  /\ \A r \in Requests : phase[r] = "streaming" => stage[r] = "tee"

(* The channel holds each of the records that are queued once.             *)
QueueOK ==
  /\ queue \in Seq(Requests)
  /\ Len(queue) <= QueueSize
  /\ \A i \in 1..Len(queue) : stage[queue[i]] = "queued"
  /\ \A i, j \in 1..Len(queue) : queue[i] = queue[j] => i = j

LEMMA SendStages ==
  ASSUME NEW r \in Requests, Send(r)
  PROVE  \E s \in {"queued", "lost"} : stage' = [stage EXCEPT ![r] = s]
BY DEF Send

LEMMA StageStep == StageOK /\ QueueOK /\ [Next]_vars => StageOK'
<1> SUFFICES ASSUME StageOK, QueueOK, [Next]_vars PROVE StageOK'
  OBVIOUS
<1>1. ASSUME NEW r \in Requests,
             Refused(r) \/ Admit(r) \/ EndUnrecorded(r) \/ CancelHandler(r) \/ AnswerStream(r)
                        \/ EndStream(r)
      PROVE  StageOK'
  BY <1>1 DEF StageOK, Stages, Leave, Refused, Admit, EndUnrecorded, CancelHandler,
              AnswerStream, EndStream, pipeline
<1>2. ASSUME NEW r \in Requests, AnswerWhole(r) PROVE StageOK'
  <2>1. PICK s \in {"queued", "lost"} : stage' = [stage EXCEPT ![r] = s]
    BY <1>2, SendStages DEF AnswerWhole
  <2> QED BY <1>2, <2>1 DEF StageOK, Stages, Leave, AnswerWhole
<1>3. ASSUME NEW r \in Requests, Relay(r) PROVE StageOK'
  <2>1. PICK s \in {"queued", "lost"} : stage' = [stage EXCEPT ![r] = s]
    BY <1>3, SendStages DEF Relay
  <2> QED BY <1>3, <2>1 DEF StageOK, Stages, Relay
<1>4. ASSUME NEW r \in Requests, WriteStep(r) PROVE StageOK'
  BY <1>4 DEF StageOK, Stages, WriteStep, SaveRow, SaveFails, NoConnection
<1>5. ASSUME Process PROVE StageOK'
  <2>1. Head(queue) \in Requests /\ stage[Head(queue)] = "queued"
    BY <1>5, HeadTailProperties DEF QueueOK, Process
  <2> QED BY <1>5, <2>1 DEF StageOK, Stages, Process
<1>6. ASSUME NEW S, NEW T \in SUBSET Writing, Gone(S, T), S \subseteq T PROVE StageOK'
  BY <1>6 DEF Writing, StageOK, Stages, Gone
<1>7. ASSUME UNCHANGED <<phase, stage>> PROVE StageOK'
  BY <1>7 DEF StageOK
<1> QED
  BY <1>1, <1>2, <1>3, <1>4, <1>5, <1>6, <1>7
  DEF Next, vars, HandlerStep, StreamStep, UpstreamEnds, Disconnect, Exit, Kill,
      Chunk, HttpTimeout, Signal, Drained, Tick, pipeline

(* A message is sent for a record that is not in the channel.              *)
LEMMA SendKeepsQueue ==
  ASSUME QueueOK, StageOK, NEW r \in Requests, stage[r] # "queued", Send(r)
  PROVE  QueueOK'
<1>1. CASE Len(queue) < QueueSize
  <2> DEFINE q == Append(queue, r)
  <2>1. queue' = q /\ stage' = [stage EXCEPT ![r] = "queued"]
    BY <1>1 DEF Send
  <2>2. /\ q \in Seq(Requests) /\ Len(q) = Len(queue) + 1
        /\ \A i \in 1..Len(queue) : q[i] = queue[i]
        /\ q[Len(queue) + 1] = r
    BY AppendProperties DEF QueueOK
  <2>3. Len(queue) \in Nat
    BY DEF QueueOK
  <2>4. \A i \in 1..Len(queue) : queue[i] \in Requests /\ queue[i] # r
    BY DEF QueueOK
  <2>5. \A i \in 1..Len(q) : i \in 1..Len(queue) \/ i = Len(queue) + 1
    BY <2>2, <2>3
  <2>6. \A i \in 1..Len(q) : q[i] \in Requests /\ stage'[q[i]] = "queued"
    BY <2>1, <2>2, <2>4, <2>5 DEF QueueOK, StageOK
  <2>7. \A i, j \in 1..Len(q) : q[i] = q[j] => i = j
    BY <2>2, <2>4, <2>5 DEF QueueOK
  <2>8. Len(q) <= QueueSize
    BY <1>1, <2>2, <2>3, Constants
  <2> QED BY <2>1, <2>2, <2>6, <2>7, <2>8 DEF QueueOK
<1>2. CASE ~(Len(queue) < QueueSize)
  <2>1. queue' = queue /\ stage' = [stage EXCEPT ![r] = "lost"]
    BY <1>2 DEF Send
  <2>2. \A i \in 1..Len(queue) : queue[i] \in Requests /\ queue[i] # r
    BY DEF QueueOK
  <2> QED BY <2>1, <2>2 DEF QueueOK, StageOK
<1> QED BY <1>1, <1>2

(* A step that leaves the channel and what is queued alone.                *)
LEMMA QueueAlone ==
  ASSUME QueueOK, StageOK, UNCHANGED queue,
         \A r \in Requests : stage[r] = "queued" => stage'[r] = "queued"
  PROVE  QueueOK'
<1>1. \A i \in 1..Len(queue) : queue[i] \in Requests
  BY DEF QueueOK
<1> QED BY <1>1 DEF QueueOK

LEMMA QueueStep == QueueOK /\ StageOK /\ [Next]_vars => QueueOK'
<1> SUFFICES ASSUME QueueOK, StageOK, [Next]_vars PROVE QueueOK'
  OBVIOUS
<1>1. ASSUME NEW r \in Requests, AnswerStream(r) \/ EndStream(r) \/ WriteStep(r) PROVE QueueOK'
  <2>1. stage[r] # "queued" /\ UNCHANGED queue
    BY <1>1 DEF StageOK, Leave, AnswerStream, EndStream, WriteStep, SaveRow, SaveFails,
                NoConnection
  <2>2. \A q \in Requests \ {r} : stage'[q] = stage[q]
    BY <1>1 DEF StageOK, AnswerStream, EndStream, WriteStep, SaveRow, SaveFails, NoConnection
  <2> QED BY <2>1, <2>2, QueueAlone
<1>2. ASSUME NEW r \in Requests, AnswerWhole(r) \/ Relay(r) PROVE QueueOK'
  <2>1. stage[r] # "queued" /\ Send(r)
    BY <1>2 DEF StageOK, Leave, AnswerWhole, Relay
  <2> QED BY <2>1, SendKeepsQueue
<1>3. ASSUME Process PROVE QueueOK'
  <2>1. /\ Head(queue) \in Requests /\ Head(queue) = queue[1]
        /\ Tail(queue) \in Seq(Requests) /\ Len(Tail(queue)) = Len(queue) - 1
        /\ \A i \in 1..Len(Tail(queue)) : Tail(queue)[i] = queue[i + 1]
    BY <1>3, HeadTailProperties DEF QueueOK, Process
  <2>2. queue' = Tail(queue) /\ stage' = [stage EXCEPT ![Head(queue)] = "writing"]
    BY <1>3 DEF Process
  <2>3. Len(queue) \in Nat /\ Len(queue) > 0
    BY <1>3 DEF QueueOK, Process
  <2>4. \A i \in 1..Len(queue') : i + 1 \in 1..Len(queue) /\ i + 1 # 1 /\ queue'[i] = queue[i + 1]
    BY <2>1, <2>2, <2>3
  <2>5. \A i \in 1..Len(queue') : queue'[i] \in Requests /\ queue'[i] # Head(queue)
    BY <2>1, <2>3, <2>4 DEF QueueOK
  <2>6. \A i \in 1..Len(queue') : stage'[queue'[i]] = "queued"
    BY <2>2, <2>4, <2>5 DEF QueueOK, StageOK
  <2>7. \A i, j \in 1..Len(queue') : queue'[i] = queue'[j] => i = j
    BY <2>4 DEF QueueOK
  <2>8. Len(queue') <= QueueSize
    BY <2>1, <2>2, <2>3, Constants DEF QueueOK
  <2> QED BY <2>1, <2>2, <2>6, <2>7, <2>8 DEF QueueOK
<1>4. ASSUME NEW S, NEW T, Gone(S, T) PROVE QueueOK'
  BY <1>4, Constants DEF QueueOK, Gone
<1>5. ASSUME UNCHANGED <<stage, queue>> PROVE QueueOK'
  BY <1>5 DEF QueueOK
<1> QED
  BY <1>1, <1>2, <1>3, <1>4, <1>5
  DEF Next, vars, HandlerStep, StreamStep, UpstreamEnds, Disconnect, Exit, Kill, Refused, Admit,
      EndUnrecorded, CancelHandler, Chunk, HttpTimeout, Signal, Drained, Tick, pipeline

-----------------------------------------------------------------------------
(* The copy *)

Copies == [bytes : SUBSET (1..Length), total : 0..Length,
           truncated : BOOLEAN, timedOut : BOOLEAN]

(* A copy c of an answer of which n bytes were sent.                       *)
Prefix(c, n) ==
  /\ c.bytes = 1..c.total
  /\ c.total <= n
  /\ ~c.truncated /\ ~c.timedOut => c.total = n

(* A stream's copy has room as long as it is not marked as truncated.      *)
CopyOK ==
  /\ sent \in [Requests -> 0..Length]
  /\ copy \in [Requests -> Copies]
  /\ \A r \in Requests : Prefix(copy[r], sent[r])
  /\ \A r \in Requests : phase[r] \in {"new", "asking"} => copy[r] = NoBytes
  /\ \A r \in Requests : phase[r] = "streaming" /\ ~copy[r].truncated => copy[r].total <= Cap

LEMMA NoBytesType == NoBytes \in Copies /\ NoBytes.total = 0
BY Constants DEF NoBytes, Copies

LEMMA PushedPrefix ==
  ASSUME NEW c \in Copies, NEW s \in 0..Length, NEW n \in 1..MaxChunk, s + n <= Length,
         Prefix(c, s), ~c.timedOut, ~c.truncated => c.total <= Cap
  PROVE  /\ Pushed(c, s, n) \in Copies
         /\ Prefix(Pushed(c, s, n), s + n)
         /\ ~Pushed(c, s, n).truncated => Pushed(c, s, n).total <= Cap
<1> DEFINE d == Pushed(c, s, n)
<1>0. c.total \in 0..Length /\ c.bytes \in SUBSET (1..Length) /\ n \in Nat /\ n > 0 /\ s \in Nat
      /\ c.truncated \in BOOLEAN /\ c.timedOut \in BOOLEAN
  BY Constants DEF Copies
<1>1. CASE c.truncated
  BY <1>0, <1>1 DEF Pushed, Prefix
<1>2. CASE ~c.truncated /\ c.total + n <= Cap
  <2>1. c.total = s /\ c.bytes = 1..s
    BY <1>2 DEF Prefix
  <2>2. d = [bytes |-> c.bytes \union (s + 1)..(s + n), total |-> c.total + n,
             truncated |-> c.truncated, timedOut |-> c.timedOut]
    BY <1>2 DEF Pushed, Copies
  <2>3. c.bytes \union (s + 1)..(s + n) = 1..(s + n)
    BY <1>0, <2>1
  <2>4. d.bytes = 1..(s + n) /\ d.total = s + n /\ ~d.truncated /\ ~d.timedOut
    BY <1>2, <2>1, <2>2, <2>3
  <2>5. d \in Copies
    BY <1>0, <2>1, <2>2, <2>3, Constants DEF Copies
  <2> QED BY <1>0, <1>2, <2>1, <2>4, <2>5 DEF Prefix
<1>3. CASE ~c.truncated /\ ~(c.total + n <= Cap)
  <2>1. c.total = s /\ c.bytes = 1..s /\ s <= Cap /\ Cap < s + n
    BY <1>0, <1>3, Constants DEF Prefix
  <2>2. d = [bytes |-> c.bytes \union (s + 1)..(s + Cap - c.total), total |-> Cap,
             truncated |-> TRUE, timedOut |-> c.timedOut]
    BY <1>3 DEF Pushed, Copies
  <2>3. c.bytes \union (s + 1)..(s + Cap - c.total) = 1..Cap
    BY <1>0, <2>1, Constants
  <2>4. d.bytes = 1..Cap /\ d.total = Cap /\ d.truncated
    BY <2>2, <2>3
  <2>5. d \in Copies
    BY <1>0, <2>1, <2>2, <2>3, Constants DEF Copies
  <2> QED BY <1>0, <2>1, <2>4, <2>5, Constants DEF Prefix
<1> QED BY <1>1, <1>2, <1>3

LEMMA CopyChunk ==
  ASSUME CopyOK, NEW r \in Requests, NEW n \in 1..MaxChunk, Chunk(r, n)
  PROVE  CopyOK'
<1> DEFINE c == copy[r]
<1>1. /\ sent[r] \in 0..Length /\ sent[r] + n <= Length /\ c \in Copies /\ Prefix(c, sent[r])
      /\ ~c.truncated => c.total <= Cap
      /\ sent' = [sent EXCEPT ![r] = sent[r] + n] /\ copy' = [copy EXCEPT ![r] = Copied(r, n)]
      /\ phase' = phase /\ phase[r] = "streaming"
  BY DEF CopyOK, Chunk
<1>2. n \in Nat /\ n > 0 /\ sent[r] + n \in 0..Length
  BY <1>1, Constants
<1>3. /\ Copied(r, n) \in Copies
      /\ Prefix(Copied(r, n), sent[r] + n)
      /\ ~Copied(r, n).truncated => Copied(r, n).total <= Cap
  <2>1. CASE c.timedOut \/ TimedOut(r)
    <3>1. Copied(r, n) = [c EXCEPT !.timedOut = TRUE]
      BY <2>1 DEF Copied
    <3>2. /\ [c EXCEPT !.timedOut = TRUE] \in Copies
          /\ [c EXCEPT !.timedOut = TRUE].bytes = c.bytes
          /\ [c EXCEPT !.timedOut = TRUE].total = c.total
          /\ [c EXCEPT !.timedOut = TRUE].truncated = c.truncated
          /\ [c EXCEPT !.timedOut = TRUE].timedOut
      BY <1>1 DEF Copies
    <3>3. c.total \in Nat
      BY <1>1, Constants DEF Copies
    <3> QED BY <1>1, <1>2, <3>1, <3>2, <3>3 DEF Prefix
  <2>2. CASE ~(c.timedOut \/ TimedOut(r))
    BY <1>1, <2>2, PushedPrefix DEF Copied
  <2> QED BY <2>1, <2>2
<1> QED BY <1>1, <1>2, <1>3 DEF CopyOK

(* Steps that move requests on and leave the copies alone.                 *)
LEMMA CopyAlone ==
  ASSUME CopyOK, UNCHANGED <<sent, copy>>,
         \A r \in Requests : /\ phase'[r] \in {"new", "asking"} => phase[r] \in {"new", "asking"}
                             /\ phase'[r] = "streaming" => phase[r] \in {"asking", "streaming"}
  PROVE  CopyOK'
<1>1. \A r \in Requests : phase[r] = "asking" => copy[r].total <= Cap
  BY NoBytesType, Constants DEF CopyOK
<1> QED BY <1>1 DEF CopyOK

LEMMA CopyStep == CopyOK /\ StageOK /\ [Next]_vars => CopyOK'
<1> SUFFICES ASSUME CopyOK, StageOK, [Next]_vars PROVE CopyOK'
  OBVIOUS
<1>1. ASSUME NEW r \in Requests,
             Refused(r) \/ Admit(r) \/ EndUnrecorded(r) \/ CancelHandler(r) \/ AnswerStream(r)
                        \/ EndStream(r)
      PROVE  CopyOK'
  <2>1. UNCHANGED <<sent, copy>>
    BY <1>1 DEF Refused, Admit, EndUnrecorded, CancelHandler, AnswerStream, EndStream, stream
  <2>2. \E p \in {"asking", "streaming", "done"} :
          /\ phase' = [phase EXCEPT ![r] = p]
          /\ p = "streaming" => phase[r] = "asking"
          /\ p = "asking" => phase[r] = "new"
    BY <1>1 DEF Leave, Refused, Admit, EndUnrecorded, CancelHandler, AnswerStream, EndStream
  <2> QED BY <2>1, <2>2, CopyAlone DEF StageOK
<1>2. ASSUME NEW r \in Requests, AnswerWhole(r) PROVE CopyOK'
  <2>1. copy' = [copy EXCEPT ![r] = Whole] /\ sent' = [sent EXCEPT ![r] = Length]
        /\ phase' = [phase EXCEPT ![r] = "done"]
    BY <1>2 DEF AnswerWhole, Leave
  <2>2. Whole \in Copies /\ Prefix(Whole, Length) /\ Length \in 0..Length
    BY Constants DEF Copies, Prefix, Whole
  <2> QED BY <2>1, <2>2 DEF CopyOK, StageOK
<1>3. ASSUME NEW r \in Requests, NEW n \in 1..MaxChunk, Chunk(r, n) PROVE CopyOK'
  BY <1>3, CopyChunk
<1>4. ASSUME NEW S, NEW T, Gone(S, T) PROVE CopyOK'
  BY <1>4, CopyAlone DEF Gone, stream
<1>5. ASSUME UNCHANGED <<phase, sent, copy>> PROVE CopyOK'
  BY <1>5 DEF CopyOK
<1> QED
  BY <1>1, <1>2, <1>3, <1>4, <1>5
  DEF Next, vars, HandlerStep, StreamStep, WriteStep, UpstreamEnds, Disconnect, Exit, Kill,
      HttpTimeout, Relay, SaveRow, SaveFails, NoConnection, Process, Signal, Drained, Tick, stream

-----------------------------------------------------------------------------
(* The rows *)

RowOK ==
  /\ row \in [Requests -> {NoRow} \union 0..Cardinality(EventEnds)]
  /\ credited \in SUBSET Requests
  /\ \A r \in Requests : stage[r] = "kept" =>
       row[r] = Usage(copy[r].bytes) /\ (r \in credited <=> row[r] > 0)
  /\ \A r \in Requests : stage[r] \notin {"kept", "lost"} => r \notin credited

(* A step that writes no row: the copy of a row that is kept stays.        *)
LEMMA RowAlone ==
  ASSUME RowOK, UNCHANGED <<row, credited>>,
         \A r \in Requests : /\ stage'[r] = "kept" => stage[r] = "kept" /\ copy'[r] = copy[r]
                             /\ stage'[r] \notin {"kept", "lost"}
                                  => stage[r] \notin {"kept", "lost"}
  PROVE  RowOK'
BY DEF RowOK

LEMMA RowStep == RowOK /\ StageOK /\ QueueOK /\ CopyOK /\ [Next]_vars => RowOK'
<1> SUFFICES ASSUME RowOK, StageOK, QueueOK, CopyOK, [Next]_vars PROVE RowOK'
  OBVIOUS
<1>1. ASSUME NEW r \in Requests, AnswerWhole(r) PROVE RowOK'
  <2>1. PICK s \in {"queued", "lost"} : stage' = [stage EXCEPT ![r] = s]
    BY <1>1, SendStages DEF AnswerWhole
  <2>2. stage[r] = "none" /\ UNCHANGED <<row, credited>> /\ copy' = [copy EXCEPT ![r] = Whole]
    BY <1>1 DEF AnswerWhole, Leave, StageOK
  <2> QED BY <2>1, <2>2, RowAlone DEF StageOK, CopyOK
<1>2. ASSUME NEW r \in Requests, AnswerStream(r) \/ EndStream(r) PROVE RowOK'
  <2>1. stage[r] \in {"none", "tee"} /\ UNCHANGED <<row, credited, copy>>
    BY <1>2 DEF AnswerStream, EndStream, Leave, StageOK, stream
  <2>2. \E s \in {"tee", "relay"} : stage' = [stage EXCEPT ![r] = s]
    BY <1>2 DEF AnswerStream, EndStream
  <2> QED BY <2>1, <2>2, RowAlone DEF StageOK
<1>3. ASSUME NEW r \in Requests, NEW n \in 1..MaxChunk, Chunk(r, n) PROVE RowOK'
  <2>1. stage[r] = "tee" /\ UNCHANGED <<row, credited, stage>>
        /\ copy' = [copy EXCEPT ![r] = Copied(r, n)]
    BY <1>3 DEF Chunk, StageOK, pipeline
  <2> QED BY <2>1, RowAlone DEF CopyOK
<1>4. ASSUME NEW r \in Requests, Relay(r) PROVE RowOK'
  <2>1. PICK s \in {"queued", "lost"} : stage' = [stage EXCEPT ![r] = s]
    BY <1>4, SendStages DEF Relay
  <2>2. stage[r] = "relay" /\ UNCHANGED <<row, credited, copy>>
    BY <1>4 DEF Relay, stream
  <2> QED BY <2>1, <2>2, RowAlone DEF StageOK
<1>5. ASSUME Process PROVE RowOK'
  <2>1. Head(queue) \in Requests /\ stage[Head(queue)] = "queued"
    BY <1>5, HeadTailProperties DEF QueueOK, Process
  <2>2. stage' = [stage EXCEPT ![Head(queue)] = "writing"] /\ UNCHANGED <<row, credited, copy>>
    BY <1>5 DEF Process, stream
  <2> QED BY <2>1, <2>2, RowAlone DEF StageOK
<1>6. ASSUME NEW r \in Requests, SaveRow(r) PROVE RowOK'
  <2> DEFINE u == Usage(copy[r].bytes)
  <2>1. /\ stage[r] = "writing" /\ stage' = [stage EXCEPT ![r] = "kept"] /\ copy' = copy
        /\ row' = [row EXCEPT ![r] = u]
        /\ credited' = IF u > 0 THEN credited \union {r} ELSE credited
    BY <1>6 DEF SaveRow, Counted, Credit, stream
  <2>2. u \in 0..Cardinality(EventEnds)
    BY UsageType
  <2>3. r \notin credited
    BY <2>1 DEF RowOK
  <2> HIDE DEF u
  <2>4. row' \in [Requests -> {NoRow} \union 0..Cardinality(EventEnds)] /\ credited' \in SUBSET Requests
    BY <2>1, <2>2 DEF RowOK
  <2>5. row'[r] = u /\ stage'[r] = "kept" /\ (r \in credited' <=> u > 0)
    BY <2>1, <2>3 DEF RowOK, StageOK
  <2>6. \A q \in Requests \ {r} : /\ row'[q] = row[q] /\ stage'[q] = stage[q]
                                  /\ q \in credited' <=> q \in credited
    BY <2>1 DEF RowOK, StageOK
  <2> QED BY <2>1, <2>4, <2>5, <2>6 DEF RowOK, u
<1>7. ASSUME NEW r \in Requests, SaveFails(r) \/ NoConnection(r) PROVE RowOK'
  <2>1. /\ stage[r] = "writing" /\ stage' = [stage EXCEPT ![r] = "lost"] /\ copy' = copy /\ row' = row
        /\ credited' = credited \/ credited' = credited \union {r}
    BY <1>7 DEF SaveFails, NoConnection, Credit, stream
  <2> QED BY <2>1 DEF RowOK, StageOK
<1>8. ASSUME NEW S, NEW T \in SUBSET Writing, Gone(S, T), S \subseteq T PROVE RowOK'
  <2>1. /\ copy' = copy
        /\ row' = [r \in Requests |-> IF r \in S THEN Usage(copy[r].bytes) ELSE row[r]]
        /\ credited' = credited \union {r \in T : Usage(copy[r].bytes) > 0}
        /\ stage' = [r \in Requests |-> IF r \in S THEN "kept"
                                        ELSE IF stage[r] \in {"none", "kept"} THEN stage[r] ELSE "lost"]
    BY <1>8 DEF Gone, Counted, stream
  <2>2. \A r \in Requests : Usage(copy[r].bytes) \in 0..Cardinality(EventEnds)
    BY UsageType
  <2>3. \A r \in T : r \in Requests /\ stage[r] = "writing" /\ r \notin credited
    BY DEF Writing, RowOK
  <2>4. row' \in [Requests -> {NoRow} \union 0..Cardinality(EventEnds)] /\ credited' \in SUBSET Requests
    BY <2>1, <2>2, <2>3 DEF RowOK
  <2>5. ASSUME NEW r \in Requests, stage'[r] = "kept"
        PROVE  row'[r] = Usage(copy'[r].bytes) /\ (r \in credited' <=> row'[r] > 0)
    <3>1. CASE r \in S
      BY <1>8, <2>1, <2>3, <3>1
    <3>2. CASE r \notin S
      BY <2>1, <2>3, <2>5, <3>2 DEF RowOK
    <3> QED BY <3>1, <3>2
  <2>6. ASSUME NEW r \in Requests, stage'[r] \notin {"kept", "lost"} PROVE r \notin credited'
    BY <2>1, <2>3, <2>6 DEF RowOK
  <2> QED BY <2>4, <2>5, <2>6 DEF RowOK
<1>9. ASSUME UNCHANGED <<stage, copy, row, credited>> PROVE RowOK'
  BY <1>9, RowAlone
<1> QED
  BY <1>1, <1>2, <1>3, <1>4, <1>5, <1>6, <1>7, <1>8, <1>9
  DEF Next, vars, HandlerStep, StreamStep, WriteStep, UpstreamEnds, Disconnect, Exit, Kill,
      Refused, Admit, EndUnrecorded, CancelHandler, HttpTimeout, Signal, Drained, Tick, stream,
      pipeline

-----------------------------------------------------------------------------
(* Times, and the process *)

(* The pause since the last chunk is no longer than the stream is old.     *)
TimesOK ==
  /\ proc \in {"up", "draining", "stopping", "ended"}
  /\ age \in [Requests -> 0..ClientTimeout]
  /\ gap \in [Requests -> 0..ClientTimeout]
  /\ stalled \in [Requests -> BOOLEAN]
  /\ \A r \in Requests : gap[r] <= age[r]

LEMMA TimesStep == TimesOK /\ [Next]_vars => TimesOK'
<1> SUFFICES ASSUME TimesOK, [Next]_vars PROVE TimesOK'
  OBVIOUS
<1>1. ASSUME NEW r \in Requests, NEW n \in 1..MaxChunk, Chunk(r, n) PROVE TimesOK'
  BY <1>1, Constants DEF TimesOK, Chunk
<1>2. ASSUME NEW r \in Requests, HttpTimeout(r) PROVE TimesOK'
  BY <1>2 DEF TimesOK, HttpTimeout
<1>3. ASSUME Tick PROVE TimesOK'
  <2> DEFINE running == {r \in Requests : phase[r] = "streaming" /\ age[r] < ClientTimeout}
  <2>1. /\ proc' = proc /\ stalled' = stalled
        /\ age' = [r \in Requests |-> IF r \in running THEN age[r] + 1 ELSE age[r]]
        /\ gap' = [r \in Requests |-> IF r \in running THEN gap[r] + 1 ELSE gap[r]]
    BY <1>3 DEF Tick
  <2>2. ASSUME NEW r \in Requests
        PROVE  age'[r] \in 0..ClientTimeout /\ gap'[r] \in 0..ClientTimeout /\ gap'[r] <= age'[r]
    <3>1. age[r] \in 0..ClientTimeout /\ gap[r] \in 0..ClientTimeout /\ gap[r] <= age[r]
      BY DEF TimesOK
    <3> QED BY <2>1, <3>1, Constants
  <2> QED BY <2>1, <2>2 DEF TimesOK
<1>4. ASSUME Signal \/ Drained \/ (\E S, T : Gone(S, T)) PROVE TimesOK'
  BY <1>4 DEF TimesOK, Signal, Drained, Gone, stream
<1>5. ASSUME UNCHANGED <<proc, age, gap, stalled>> PROVE TimesOK'
  BY <1>5 DEF TimesOK
<1> QED
  BY <1>1, <1>2, <1>3, <1>4, <1>5
  DEF Next, vars, HandlerStep, StreamStep, WriteStep, UpstreamEnds, Disconnect, Exit, Kill,
      Refused, Admit, EndUnrecorded, CancelHandler, AnswerWhole, AnswerStream, EndStream, Relay,
      SaveRow, SaveFails, NoConnection, Process, stream

-----------------------------------------------------------------------------
(* The invariant *)

IInv == PermitsOK /\ StageOK /\ QueueOK /\ CopyOK /\ RowOK /\ TimesOK

LEMMA InitInv == Init => IInv
<1> SUFFICES ASSUME Init PROVE IInv
  OBVIOUS
<1>1. StageOK /\ QueueOK
  BY Constants DEF Init, StageOK, QueueOK, Stages
<1>2. CopyOK
  <2>1. /\ sent = [r \in Requests |-> 0] /\ copy = [r \in Requests |-> NoBytes]
        /\ phase = [r \in Requests |-> "new"]
    BY DEF Init
  <2>2. Prefix(NoBytes, 0)
    BY DEF Prefix, NoBytes
  <2> QED BY <2>1, <2>2, NoBytesType, Constants DEF CopyOK
<1>3. RowOK
  BY DEF Init, RowOK, NoRow
<1>4. TimesOK
  BY Constants DEF Init, TimesOK
<1> QED BY <1>1, <1>2, <1>3, <1>4, PermitsInit DEF IInv

LEMMA NextInv == IInv /\ [Next]_vars => IInv'
BY PermitsStep, StageStep, QueueStep, CopyStep, RowStep, TimesStep DEF IInv

LEMMA Invariant == Spec => []IInv
BY InitInv, NextInv, PTL DEF Spec

(* Every reachable state is well typed; in particular the channel never    *)
(* holds more than its capacity (post_processor.rs: send).                 *)
THEOREM TypeCorrect == Spec => []TypeOK
<1>1. IInv => TypeOK
  <2> SUFFICES ASSUME IInv PROVE TypeOK
    OBVIOUS
  <2>1. permits \in 0..Permits
    BY AskingFinite, Constants DEF IInv, PermitsOK
  <2> QED BY <2>1 DEF IInv, TypeOK, PermitsOK, StageOK, QueueOK, CopyOK, Copies, RowOK, TimesOK
<1> QED BY Invariant, <1>1, PTL

(* The copy is a prefix of the answer (streaming.rs: push, poll_next).     *)
THEOREM CopiesAreSound == Spec => []CopyIsPrefix
<1>1. IInv => CopyIsPrefix
  BY DEF IInv, CopyOK, Prefix, CopyIsPrefix
<1> QED BY Invariant, <1>1, PTL

(* A row counts no usage the client did not get, and all of it unless the  *)
(* copy was cut (post_processor.rs: on_summary).                           *)
THEOREM RowsAreTruthful == Spec => []RowsTruthful
<1>1. IInv => RowsTruthful
  <2> SUFFICES ASSUME IInv, NEW r \in Requests, stage[r] = "kept"
               PROVE  /\ row[r] <= Usage(1..sent[r])
                      /\ ~copy[r].truncated /\ ~copy[r].timedOut => row[r] = Usage(1..sent[r])
                      /\ row[r] > 0 <=> r \in credited
    BY DEF RowsTruthful
  <2>1. row[r] = Usage(copy[r].bytes) /\ (r \in credited <=> row[r] > 0)
    BY DEF IInv, RowOK
  <2>2. /\ copy[r].bytes = 1..copy[r].total /\ copy[r].total <= sent[r]
        /\ copy[r].total \in Nat /\ sent[r] \in Nat
        /\ ~copy[r].truncated /\ ~copy[r].timedOut => copy[r].total = sent[r]
    BY Constants DEF IInv, CopyOK, Copies, Prefix
  <2>3. copy[r].bytes \subseteq 1..sent[r]
    BY <2>2
  <2>4. Usage(copy[r].bytes) <= Usage(1..sent[r])
    BY <2>3, UsageMonotone
  <2> QED BY <2>1, <2>2, <2>4
<1> QED BY Invariant, <1>1, PTL

-----------------------------------------------------------------------------
(* Analytics implements the ledger *)

(* What the ledger sees of a record at stage s, its request in phase p.    *)
Seen(p, s) ==
  IF s = "none" \/ p = "streaming" THEN "open"
  ELSE IF s \in {"tee", "relay", "queued", "writing"} THEN "owed"
  ELSE s

LEMMA EntrySeen == Entry = [r \in Requests |-> Seen(phase[r], stage[r])]
BY DEF Entry, Seen

(* One record moves on: the ledger sees that one change, if any.           *)
LEMMA EntryMoves ==
  ASSUME NEW r \in Requests, NEW e, Seen(phase'[r], stage'[r]) = e,
         \A q \in Requests \ {r} : phase'[q] = phase[q] /\ stage'[q] = stage[q]
  PROVE  Entry' = [Entry EXCEPT ![r] = e]
<1>1. Entry' = [q \in Requests |-> Seen(phase'[q], stage'[q])]
  BY DEF Entry, Seen
<1>2. [Entry EXCEPT ![r] = e] = [q \in Requests |-> IF q = r THEN e ELSE Seen(phase[q], stage[q])]
  BY EntrySeen
<1>3. \A q \in Requests : Seen(phase'[q], stage'[q]) = IF q = r THEN e ELSE Seen(phase[q], stage[q])
  OBVIOUS
<1> QED BY <1>1, <1>2, <1>3

LEMMA EntryStays ==
  ASSUME NEW r \in Requests, Seen(phase'[r], stage'[r]) = Seen(phase[r], stage[r]),
         \A q \in Requests \ {r} : phase'[q] = phase[q] /\ stage'[q] = stage[q]
  PROVE  UNCHANGED Entry
<1>1. Entry' = [Entry EXCEPT ![r] = Seen(phase[r], stage[r])]
  BY EntryMoves
<1>2. Entry[r] = Seen(phase[r], stage[r]) /\ Entry = [q \in Requests |-> Entry[q]]
  BY EntrySeen
<1> QED BY <1>1, <1>2

(* The end of an answer makes a record due, or loses it at once.           *)
LEMMA AnswerOwes ==
  ASSUME NEW r \in Requests, Seen(phase[r], stage[r]) = "open",
         Seen(phase'[r], stage'[r]) \in {"owed", "lost"},
         \A q \in Requests \ {r} : phase'[q] = phase[q] /\ stage'[q] = stage[q]
  PROVE  Ledger!Next
<1>1. Entry[r] = "open"
  BY EntrySeen
<1>2. Entry' = [Entry EXCEPT ![r] = Seen(phase'[r], stage'[r])]
  BY EntryMoves
<1>3. Ledger!Owe(r)
  BY <1>1, <1>2 DEF Ledger!Owe
<1> QED BY <1>3 DEF Ledger!Next

(* Some records that are due are written, and others are lost, those that  *)
(* are not due yet among them.                                             *)
Fares(q, K) ==
  /\ q \in K => Seen(phase[q], stage[q]) = "owed" /\ Seen(phase'[q], stage'[q]) = "kept"
  /\ q \notin K => \/ Seen(phase'[q], stage'[q]) = Seen(phase[q], stage[q])
                   \/ /\ Seen(phase[q], stage[q]) \in {"open", "owed"}
                      /\ Seen(phase'[q], stage'[q]) = "lost"

LEMMA RecordsSettle ==
  ASSUME NEW K \in SUBSET Requests, \A q \in Requests : Fares(q, K)
  PROVE  Ledger!Next \/ UNCHANGED Entry
<1> DEFINE L == {q \in Requests \ K : Seen(phase'[q], stage'[q]) # Seen(phase[q], stage[q])}
<1>1. \A q \in Requests : Entry[q] = Seen(phase[q], stage[q])
  BY EntrySeen
<1>2. Entry' = [q \in Requests |-> Seen(phase'[q], stage'[q])]
  BY DEF Entry, Seen
<1>3. K \in SUBSET Ledger!Owed /\ L \in SUBSET (Ledger!Open \union Ledger!Owed)
  BY <1>1 DEF Ledger!Owed, Ledger!Open, Fares
<1>4. Entry' = [q \in Requests |-> IF q \in K THEN "kept" ELSE IF q \in L THEN "lost" ELSE Entry[q]]
  BY <1>1, <1>2 DEF Fares
<1>5. CASE K \union L = {}
  <2>1. Entry' = [q \in Requests |-> Entry[q]]
    BY <1>4, <1>5
  <2> QED BY <2>1, EntrySeen
<1>6. CASE K \union L # {}
  <2>1. K \intersect L = {}
    OBVIOUS
  <2> HIDE DEF L
  <2>2. Ledger!Settle(K, L)
    BY <1>3, <1>4, <1>6, <2>1 DEF Ledger!Settle
  <2> QED BY <1>3, <2>2 DEF Ledger!Next, Ledger!Settled
<1> QED BY <1>5, <1>6

(* The end of the process writes or loses all that are due.                *)
LEMMA EndSettles ==
  ASSUME StageOK, NEW S, NEW T \in SUBSET Writing, S \subseteq T, Gone(S, T)
  PROVE  Ledger!Next \/ UNCHANGED Entry
<1>1. S \in SUBSET Requests /\ \A q \in S : stage[q] = "writing" /\ phase[q] # "streaming"
  BY DEF Writing, StageOK
<1>2. ASSUME NEW q \in Requests
      PROVE  Fares(q, S)
  <2>1. /\ phase'[q] # "streaming" /\ stage[q] \in Stages
        /\ stage'[q] = IF q \in S THEN "kept"
                       ELSE IF stage[q] \in {"none", "kept"} THEN stage[q] ELSE "lost"
    BY DEF Gone, StageOK
  <2> QED BY <1>1, <2>1 DEF Fares, Seen, Stages, StageOK
<1> QED BY <1>1, <1>2, RecordsSettle

LEMMA StepRefines ==
  StageOK /\ QueueOK /\ [Next]_vars => [Ledger!Next]_Entry
<1> SUFFICES ASSUME StageOK, QueueOK, [Next]_vars PROVE Ledger!Next \/ UNCHANGED Entry
  OBVIOUS
<1>1. ASSUME NEW r \in Requests, AnswerWhole(r) PROVE Ledger!Next
  <2>1. PICK s \in {"queued", "lost"} : stage' = [stage EXCEPT ![r] = s]
    BY <1>1, SendStages DEF AnswerWhole
  <2>2. /\ stage[r] = "none" /\ stage'[r] \in {"queued", "lost"} /\ phase'[r] = "done"
        /\ \A q \in Requests \ {r} : phase'[q] = phase[q] /\ stage'[q] = stage[q]
    BY <1>1, <2>1 DEF AnswerWhole, Leave, StageOK
  <2> QED BY <2>2, AnswerOwes DEF Seen
<1>2. ASSUME NEW r \in Requests, EndStream(r) PROVE Ledger!Next
  <2>1. /\ phase[r] = "streaming" /\ stage'[r] = "relay" /\ phase'[r] = "done"
        /\ \A q \in Requests \ {r} : phase'[q] = phase[q] /\ stage'[q] = stage[q]
    BY <1>2 DEF EndStream, StageOK
  <2> QED BY <2>1, AnswerOwes DEF Seen
<1>3. ASSUME NEW r \in Requests,
             \/ Refused(r) \/ Admit(r) \/ EndUnrecorded(r) \/ CancelHandler(r) \/ AnswerStream(r)
      PROVE  UNCHANGED Entry
  <2>1. /\ phase[r] \in {"new", "asking"} /\ stage[r] = "none"
        /\ stage'[r] = "none" \/ phase'[r] = "streaming"
        /\ \A q \in Requests \ {r} : phase'[q] = phase[q] /\ stage'[q] = stage[q]
    BY <1>3 DEF Refused, Admit, EndUnrecorded, CancelHandler, AnswerStream, Leave, StageOK, pipeline
  <2> QED BY <2>1, EntryStays DEF Seen
<1>4. ASSUME NEW r \in Requests, Relay(r) PROVE Ledger!Next \/ UNCHANGED Entry
  <2>1. PICK s \in {"queued", "lost"} : stage' = [stage EXCEPT ![r] = s]
    BY <1>4, SendStages DEF Relay
  <2>2. stage[r] = "relay" /\ phase[r] # "streaming" /\ UNCHANGED phase
    BY <1>4 DEF Relay, StageOK
  <2>3. /\ Seen(phase[r], stage[r]) = "owed"
        /\ Seen(phase'[r], stage'[r]) \in {"owed", "lost"}
        /\ \A q \in Requests \ {r} : phase'[q] = phase[q] /\ stage'[q] = stage[q]
    BY <2>1, <2>2 DEF Seen, StageOK
  <2>4. CASE Seen(phase'[r], stage'[r]) = "owed"
    BY <2>3, <2>4, EntryStays
  <2>5. CASE Seen(phase'[r], stage'[r]) = "lost"
    <3>1. \A q \in Requests : Fares(q, {})
      BY <2>3, <2>5 DEF Fares
    <3> QED BY <3>1, RecordsSettle
  <2> QED BY <2>3, <2>4, <2>5
<1>5. ASSUME Process PROVE UNCHANGED Entry
  <2>1. Head(queue) \in Requests /\ stage[Head(queue)] = "queued"
    BY <1>5, HeadTailProperties DEF QueueOK, Process
  <2>2. stage' = [stage EXCEPT ![Head(queue)] = "writing"] /\ UNCHANGED phase
    BY <1>5 DEF Process
  <2>3. phase[Head(queue)] # "streaming"
    BY <2>1 DEF StageOK
  <2> QED BY <2>1, <2>2, <2>3, EntryStays DEF Seen, StageOK
<1>6. ASSUME NEW r \in Requests, WriteStep(r) PROVE Ledger!Next \/ UNCHANGED Entry
  <2> DEFINE K == IF stage'[r] = "kept" THEN {r} ELSE {}
  <2>1. PICK s \in {"kept", "lost"} : stage' = [stage EXCEPT ![r] = s]
    BY <1>6 DEF WriteStep, SaveRow, SaveFails, NoConnection
  <2>2. stage[r] = "writing" /\ phase[r] # "streaming" /\ UNCHANGED phase
    BY <1>6 DEF WriteStep, SaveRow, SaveFails, NoConnection, StageOK
  <2>3. /\ Seen(phase[r], stage[r]) = "owed"
        /\ Seen(phase'[r], stage'[r]) = stage'[r] /\ stage'[r] \in {"kept", "lost"}
        /\ \A q \in Requests \ {r} : phase'[q] = phase[q] /\ stage'[q] = stage[q]
    BY <2>1, <2>2 DEF Seen, StageOK
  <2>4. K \in SUBSET Requests /\ \A q \in Requests : Fares(q, K)
    BY <2>3 DEF Fares
  <2> QED BY <2>4, RecordsSettle
<1>7. ASSUME NEW S, NEW T \in SUBSET Writing, S \subseteq T, Gone(S, T)
      PROVE  Ledger!Next \/ UNCHANGED Entry
  BY <1>7, EndSettles
<1>8. ASSUME UNCHANGED <<phase, stage>> PROVE UNCHANGED Entry
  BY <1>8 DEF Entry
<1> QED
  BY <1>1, <1>2, <1>3, <1>4, <1>5, <1>6, <1>7, <1>8
  DEF Next, vars, HandlerStep, StreamStep, UpstreamEnds, Disconnect, Exit, Kill,
      Chunk, HttpTimeout, Signal, Drained, Tick, pipeline

(* Whatever clients, the upstream, the database and the process do, a      *)
(* request whose answer has ended has one record, which is written once or *)
(* lost once.                                                              *)
THEOREM ImplementsLedger == Spec => Ledger!Spec
<1>1. Init => Ledger!Init
  <2> SUFFICES ASSUME Init PROVE Entry = [r \in Requests |-> "open"]
    BY DEF Ledger!Init
  <2>1. \A r \in Requests : stage[r] = "none"
    BY DEF Init
  <2> QED BY <2>1, EntrySeen DEF Seen
<1>2. IInv /\ [Next]_vars => [Ledger!Next]_Entry
  BY StepRefines DEF IInv
<1> QED BY <1>1, <1>2, Invariant, PTL DEF Spec, Ledger!Spec
=============================================================================
