----------------------------- MODULE Analytics -----------------------------
(***************************************************************************)
(* From the answer of the upstream to the row of the request:              *)
(* crates/proxy/src/proxy.rs (the concurrency permit and                   *)
(* build_success_response), streaming.rs, post_processor.rs and the end of *)
(* the process (server.rs, shutdown.rs, src/main.rs).                      *)
(*                                                                         *)
(* A body is the bytes 1..Length; what matters of it is where its usage    *)
(* events end.  Attempts that fail over leave nothing behind here and are  *)
(* the subject of module Routing.                                          *)
(***************************************************************************)
EXTENDS Integers, Sequences, FiniteSets

CONSTANTS
  Requests,        \* the requests that may arrive
  Permits,         \* max_concurrent_requests
  QueueSize,       \* capacity of the post-processor's channel (1024)
  Cap,             \* ANALYTICS_MAX_BYTES
  ChunkTimeout,    \* CHUNK_TIMEOUT_MS
  StreamTimeout,   \* STREAM_TIMEOUT_MS
  ClientTimeout,   \* total timeout of the shared HTTP client
  Length,          \* bytes of a body
  MaxChunk,        \* bytes of a chunk at most
  EventEnds        \* the bytes that complete a usage event

ASSUME AnalyticsAssumption ==
  /\ IsFiniteSet(Requests)
  /\ Permits \in Nat /\ QueueSize \in Nat \ {0} /\ Cap \in Nat
  /\ ChunkTimeout \in Nat /\ StreamTimeout \in Nat
  /\ ClientTimeout \in Nat \ {0}
  /\ Length \in Nat \ {0} /\ MaxChunk \in Nat \ {0}
  /\ EventEnds \subseteq 1..Length

VARIABLES
  proc,       \* the process: up, draining, stopping, ended
  permits,    \* permits left in the semaphore
  phase,      \* phase[r]: new, asking (in the handler), streaming, done
  sent,       \* bytes of the answer handed to the client
  copy,       \* the analytics buffer of the request
  age, gap,   \* time since the tee was made, and since its last chunk
  stalled,    \* the HTTP client's timeout has fired on the stream
  stage,      \* where the record of the request is
  queue,      \* the channel of the post-processor
  row,        \* usage events counted in the row of the request
  credited    \* requests the X-factor cache was told of

vars == <<proc, permits, phase, sent, copy, age, gap, stalled, stage, queue, row, credited>>

stream == <<copy, age, gap, stalled>>
pipeline == <<stage, queue, row, credited>>

NoRow == -1
NoBytes == [bytes |-> {}, total |-> 0, truncated |-> FALSE, timedOut |-> FALSE]
Whole == [bytes |-> 1..Length, total |-> Length, truncated |-> FALSE, timedOut |-> FALSE]

(* none: no record is due; tee: in the stream; relay: the oneshot has the  *)
(* buffer; queued: in the channel; writing: with a blocking thread.        *)
Stages == {"none", "tee", "relay", "queued", "writing", "kept", "lost"}

TypeOK ==
  /\ proc \in {"up", "draining", "stopping", "ended"}
  /\ permits \in 0..Permits
  /\ phase \in [Requests -> {"new", "asking", "streaming", "done"}]
  /\ sent \in [Requests -> 0..Length]
  /\ copy \in [Requests -> [bytes : SUBSET (1..Length), total : 0..Length,
                            truncated : BOOLEAN, timedOut : BOOLEAN]]
  /\ age \in [Requests -> 0..ClientTimeout]
  /\ gap \in [Requests -> 0..ClientTimeout]
  /\ stalled \in [Requests -> BOOLEAN]
  /\ stage \in [Requests -> Stages]
  /\ queue \in Seq(Requests)
  /\ Len(queue) <= QueueSize
  /\ row \in [Requests -> {NoRow} \union 0..Cardinality(EventEnds)]
  /\ credited \in SUBSET Requests

(* extract_usage_from_buffer: the events that are whole in what was        *)
(* copied.                                                                 *)
Usage(bytes) == Cardinality({e \in EventEnds : 1..e \subseteq bytes})

-----------------------------------------------------------------------------
(* The handler *)

(* The permit is dropped with the future of the handler, however it ends.  *)
PermitBack(r) == permits' = permits + 1

Leave(r, p) ==
  /\ phase[r] = "asking"
  /\ phase' = [phase EXCEPT ![r] = p]

Refused(r) ==
  /\ proc = "up" /\ phase[r] = "new" /\ permits = 0
  /\ phase' = [phase EXCEPT ![r] = "done"]
  /\ UNCHANGED <<proc, permits, sent, stream, pipeline>>

Admit(r) ==
  /\ proc = "up" /\ phase[r] = "new" /\ permits > 0
  /\ phase' = [phase EXCEPT ![r] = "asking"]
  /\ permits' = permits - 1
  /\ UNCHANGED <<proc, sent, stream, pipeline>>

(* A path or body that is turned away, no accounts, no account that        *)
(* answers, or a thinking-block error that filtering did not cure: the     *)
(* request ends without a record.                                          *)
EndUnrecorded(r) ==
  /\ Leave(r, "done")
  /\ PermitBack(r)
  /\ UNCHANGED <<proc, sent, stream, pipeline>>

CancelHandler(r) ==
  /\ Leave(r, "done")
  /\ PermitBack(r)
  /\ UNCHANGED <<proc, sent, stream, pipeline>>

(* Fault: a message that finds the channel full is put into it all the     *)
(* same.                                                                   *)
SendUnbounded(r) ==
  /\ queue' = Append(queue, r)
  /\ stage' = [stage EXCEPT ![r] = "queued"]

(* PostProcessorHandle::send.                                              *)
Send(r) ==
  IF Len(queue) < QueueSize
  THEN queue' = Append(queue, r) /\ stage' = [stage EXCEPT ![r] = "queued"]
  ELSE queue' = queue /\ stage' = [stage EXCEPT ![r] = "lost"]

(* An answer that is read as a whole, or a 400 that is passed on.          *)
AnswerWhole(r) ==
  /\ Leave(r, "done")
  /\ PermitBack(r)
  /\ sent' = [sent EXCEPT ![r] = Length]
  /\ copy' = [copy EXCEPT ![r] = Whole]
  /\ Send(r)
  /\ UNCHANGED <<proc, age, gap, stalled, row, credited>>

(* The handler returns with the stream still to be sent: its permit is     *)
(* given back here.                                                        *)
AnswerStream(r) ==
  /\ Leave(r, "streaming")
  /\ PermitBack(r)
  /\ stage' = [stage EXCEPT ![r] = "tee"]
  /\ UNCHANGED <<proc, sent, stream, queue, row, credited>>

-----------------------------------------------------------------------------
(* The tee *)

TimedOut(r) == age[r] > StreamTimeout \/ gap[r] > ChunkTimeout

(* AnalyticsBuffer::push of the n bytes after those already sent.          *)
Pushed(c, from, n) ==
  IF c.truncated THEN c
  ELSE IF c.total + n <= Cap
  THEN [c EXCEPT !.bytes = @ \union (from + 1)..(from + n), !.total = @ + n]
  ELSE [c EXCEPT !.bytes = @ \union (from + 1)..(from + Cap - c.total),
                 !.total = Cap, !.truncated = TRUE]

(* Fault: the copy goes on after a pause.                                  *)
CopiedAfterPause(r, n) ==
  IF TimedOut(r) THEN [copy[r] EXCEPT !.timedOut = TRUE]
  ELSE Pushed(copy[r], sent[r], n)

(* TeeStream::poll_next: a timeout stops the copy for good.                *)
Copied(r, n) ==
  LET c == copy[r]
      late == c.timedOut \/ TimedOut(r) IN
  IF late THEN [c EXCEPT !.timedOut = TRUE] ELSE Pushed(c, sent[r], n)

Chunk(r, n) ==
  /\ phase[r] = "streaming" /\ ~stalled[r]
  /\ age[r] < ClientTimeout
  /\ sent[r] + n <= Length
  /\ sent' = [sent EXCEPT ![r] = @ + n]
  /\ copy' = [copy EXCEPT ![r] = Copied(r, n)]
  /\ gap' = [gap EXCEPT ![r] = 0]
  /\ UNCHANGED <<proc, permits, phase, age, stalled, pipeline>>

(* The timer of the HTTP client counts from the sending of the request, so *)
(* it may fire at any time; errors of the stream are dropped, and the      *)
(* client gets nothing more.                                               *)
HttpTimeout(r) ==
  /\ phase[r] = "streaming" /\ ~stalled[r]
  /\ stalled' = [stalled EXCEPT ![r] = TRUE]
  /\ UNCHANGED <<proc, permits, phase, sent, copy, age, gap, pipeline>>

(* The sender of the oneshot is used or dropped: with either, the buffer   *)
(* goes to the task that waits for it.                                     *)
EndStream(r) ==
  /\ phase[r] = "streaming"
  /\ phase' = [phase EXCEPT ![r] = "done"]
  /\ stage' = [stage EXCEPT ![r] = "relay"]
  /\ UNCHANGED <<proc, permits, sent, stream, queue, row, credited>>

(* Fault: only a stream that came to its end sends its buffer.             *)
DisconnectSilently(r) ==
  /\ phase[r] = "streaming"
  /\ phase' = [phase EXCEPT ![r] = "done"]
  /\ UNCHANGED <<proc, permits, sent, stream, pipeline>>

(* The body ends, at its last byte or, when the connection to the upstream *)
(* broke, before it: the error is dropped and the end is what is left.     *)
UpstreamEnds(r) == EndStream(r)

(* The client is gone: the stream is dropped, and TeeState with it.        *)
Disconnect(r) == EndStream(r)

-----------------------------------------------------------------------------
(* The post-processor *)

Relay(r) ==
  /\ stage[r] = "relay"
  /\ Send(r)
  /\ UNCHANGED <<proc, permits, phase, sent, stream, row, credited>>

Process ==
  /\ queue # <<>>
  /\ stage' = [stage EXCEPT ![Head(queue)] = "writing"]
  /\ queue' = Tail(queue)
  /\ UNCHANGED <<proc, permits, phase, sent, stream, row, credited>>

(* total_tokens is None when no usage was found: the X-factor cache is not *)
(* told then.                                                              *)
Credit(r) ==
  credited' = IF Usage(copy[r].bytes) > 0 THEN credited \union {r} ELSE credited

(* Fault: the row counts what the client got.                              *)
CountAllSent(r) == Usage(1..Length)

Counted(r) == Usage(copy[r].bytes)

SaveRow(r) ==
  /\ stage[r] = "writing"
  /\ row' = [row EXCEPT ![r] = Counted(r)]
  /\ Credit(r)
  /\ stage' = [stage EXCEPT ![r] = "kept"]
  /\ UNCHANGED <<proc, permits, phase, sent, stream, queue>>

(* The statement fails: the X-factor cache is told nevertheless.           *)
SaveFails(r) ==
  /\ stage[r] = "writing"
  /\ Credit(r)
  /\ stage' = [stage EXCEPT ![r] = "lost"]
  /\ UNCHANGED <<proc, permits, phase, sent, stream, queue, row>>

NoConnection(r) ==
  /\ stage[r] = "writing"
  /\ stage' = [stage EXCEPT ![r] = "lost"]
  /\ UNCHANGED <<proc, permits, phase, sent, stream, queue, row, credited>>

-----------------------------------------------------------------------------
(* The end of the process *)

Signal ==
  /\ proc = "up"
  /\ proc' = "draining"
  /\ UNCHANGED <<permits, phase, sent, stream, pipeline>>

(* axum's graceful shutdown waits for every response, however long.        *)
Drained ==
  /\ proc = "draining"
  /\ \A r \in Requests : phase[r] \notin {"asking", "streaming"}
  /\ proc' = "stopping"
  /\ UNCHANGED <<permits, phase, sent, stream, pipeline>>

Writing == {r \in Requests : stage[r] = "writing"}

(* What is in memory is gone; the X-factor cache was told of `told`, and   *)
(* the rows of `saved` are written before.                                 *)
Gone(saved, told) ==
  /\ proc' = "ended"
  /\ phase' = [r \in Requests |-> IF phase[r] = "new" THEN "new" ELSE "done"]
  /\ permits' = Permits
  /\ stage' = [r \in Requests |-> IF r \in saved THEN "kept"
                                   ELSE IF stage[r] \in {"none", "kept"} THEN stage[r] ELSE "lost"]
  /\ queue' = <<>>
  /\ row' = [r \in Requests |-> IF r \in saved THEN Counted(r) ELSE row[r]]
  /\ credited' = credited \union {r \in told : Usage(copy[r].bytes) > 0}
  /\ UNCHANGED <<sent, stream>>

(* main returns.  No step of the shutdown waits for the post-processor;    *)
(* the drop of the runtime waits for the blocking threads that have        *)
(* started a save, and for no others.                                      *)
Exit ==
  /\ proc = "stopping"
  /\ \E told \in SUBSET Writing : \E saved \in SUBSET told : Gone(saved, told)

Kill == proc \in {"up", "draining"} /\ Gone({}, {})

Tick ==
  /\ proc # "ended"
  /\ \E r \in Requests : phase[r] = "streaming" /\ age[r] < ClientTimeout
  /\ LET running == {r \in Requests : phase[r] = "streaming" /\ age[r] < ClientTimeout} IN
     /\ age' = [r \in Requests |-> IF r \in running THEN age[r] + 1 ELSE age[r]]
     /\ gap' = [r \in Requests |-> IF r \in running THEN gap[r] + 1 ELSE gap[r]]
  /\ UNCHANGED <<proc, permits, phase, sent, copy, stalled, pipeline>>

-----------------------------------------------------------------------------
Init ==
  /\ proc = "up"
  /\ permits = Permits
  /\ phase = [r \in Requests |-> "new"]
  /\ sent = [r \in Requests |-> 0]
  /\ copy = [r \in Requests |-> NoBytes]
  /\ age = [r \in Requests |-> 0]
  /\ gap = [r \in Requests |-> 0]
  /\ stalled = [r \in Requests |-> FALSE]
  /\ stage = [r \in Requests |-> "none"]
  /\ queue = <<>>
  /\ row = [r \in Requests |-> NoRow]
  /\ credited = {}

HandlerStep(r) ==
  Refused(r) \/ Admit(r) \/ EndUnrecorded(r) \/ CancelHandler(r)
    \/ AnswerWhole(r) \/ AnswerStream(r)

StreamStep(r) ==
  (\E n \in 1..MaxChunk : Chunk(r, n)) \/ HttpTimeout(r) \/ UpstreamEnds(r) \/ Disconnect(r)

WriteStep(r) == SaveRow(r) \/ SaveFails(r) \/ NoConnection(r)

Next ==
  \/ \E r \in Requests : HandlerStep(r) \/ StreamStep(r) \/ Relay(r) \/ WriteStep(r)
  \/ Process
  \/ Signal \/ Drained \/ Exit \/ Kill
  \/ Tick

Spec == Init /\ [][Next]_vars

(* tokio runs its tasks and its blocking threads.                          *)
Fairness ==
  /\ WF_vars(Process)
  /\ \A r \in Requests : WF_vars(Relay(r)) /\ WF_vars(WriteStep(r))

FairSpec == Spec /\ Fairness
-----------------------------------------------------------------------------
(* Properties *)

(* The tee's copy is a prefix of the answer, with no hole, as far as the   *)
(* cap and the timeouts let it go: what the parser of the copy reads is    *)
(* never spliced (streaming.rs: push, poll_next).                          *)
CopyIsPrefix ==
  \A r \in Requests :
    /\ copy[r].bytes = 1..copy[r].total
    /\ copy[r].total <= sent[r]
    /\ phase[r] = "streaming" /\ ~copy[r].truncated /\ ~copy[r].timedOut
         => copy[r].total = sent[r]

(* A row counts no usage that the client did not get, and all of it unless *)
(* the cap or a timeout cut the copy; the X-factor cache was told of       *)
(* exactly the rows with usage, but for saves that failed.                 *)
RowsTruthful ==
  \A r \in Requests : stage[r] = "kept" =>
    /\ row[r] <= Usage(1..sent[r])
    /\ ~copy[r].truncated /\ ~copy[r].timedOut => row[r] = Usage(1..sent[r])
    /\ row[r] > 0 <=> r \in credited

(* The record of a request, as the ledger sees it: none is due as long as  *)
(* the stream runs.                                                        *)
Entry ==
  [r \in Requests |->
     IF stage[r] = "none" \/ phase[r] = "streaming" THEN "open"
     ELSE IF stage[r] \in {"tee", "relay", "queued", "writing"} THEN "owed"
     ELSE stage[r]]

Ledger == INSTANCE RequestLedger WITH Items <- Requests, entry <- Entry

(* A request whose answer was read, or whose stream has ended or was       *)
(* dropped, has one record, which is written once or lost once, and not    *)
(* owed for ever (streaming.rs: poll_next, drop; post_processor.rs).       *)
LedgerKept == Ledger!FairSpec
=============================================================================
