------------------------ MODULE RecognitionConnection ------------------------
(***************************************************************************)
(* One smartspeech::grpc::recognition::connection and the gRPC worker      *)
(* thread that drives it (mrcp/grpc_client/client.cpp).                     *)
(*                                                                         *)
(* Three threads touch the object:                                         *)
(*   - the media thread calls feed();                                      *)
(*   - the event-loop thread calls writes_done() and then disable();       *)
(*   - the gRPC worker takes completed operations off the completion queue  *)
(*     and runs proceed(), which starts the next operations.               *)
(*                                                                         *)
(* The completion queue and the call live in the gRPC library and on the    *)
(* server.  They are modelled by what the code relies on: `ops' counts the  *)
(* operations started and not yet delivered to the worker, and an operation *)
(* that has completed may be the next one Next() returns.  Completion and   *)
(* Next() are one step, because nothing can observe the moment between.     *)
(*                                                                         *)
(* MaxFeeds and MaxResponses bound the feed() calls and the responses of    *)
(* the server.                                                             *)
(***************************************************************************)
EXTENDS Naturals, Sequences

CONSTANTS
    MaxFeeds,       \* calls of feed()
    MaxResponses    \* messages the server sends

ASSUME BoundsAssumption == MaxFeeds \in Nat /\ MaxResponses \in Nat

VARIABLES
    active,         \* active_ (atomic)
    writePending,   \* write_pending_, the worker's own
    writesDone,     \* writes_done_ (atomic)
    internalBuffer, \* internal_buffer_, under m_
    pc,             \* where the worker is: "next", "proceed" or "branch"
    event,          \* the tag in the worker's hand, with its ok flag
    chunk,          \* the local `chunk' of proceed()
    ops,            \* operations outstanding on the completion queue, by cause
    rpc,            \* the call as the server left it: "open", "ok" or "error"
    responses,      \* messages received and not read yet
    sent,           \* messages the server sent, bounded by MaxResponses
    fed,            \* history: every frame given to feed()
    written,        \* history: every frame given to Write()
    halfClosed,     \* history: WritesDone() was called
    results,        \* history: calls of on_result_cb_
    errors,         \* history: calls of on_error_cb_
    finishCalls,    \* history: calls of Finish()
    late            \* history: callbacks made after disable()

caller == <<active, writesDone>>
server == <<rpc, sent>>
callbacks == <<results, errors, late>>
stream == <<fed, written, halfClosed>>
vars == <<active, writePending, writesDone, internalBuffer, pc, event, chunk, ops, rpc,
          responses, sent, fed, written, halfClosed, results, errors, finishCalls, late>>

Cause == {"start_call", "write", "read", "writes_done", "finish", "alarm"}

Ended == rpc # "open"

(***************************************************************************)
(* The constructor: the members are initialised and AsyncRecognize starts   *)
(* the call.                                                                *)
(***************************************************************************)
Init ==
    /\ active = TRUE
    /\ writePending = FALSE
    /\ writesDone = FALSE
    /\ internalBuffer = <<>>
    /\ pc = "next"
    /\ event = [cause |-> "start_call", ok |-> TRUE]
    /\ chunk = <<>>
    /\ ops = [c \in Cause |-> IF c = "start_call" THEN 1 ELSE 0]
    /\ rpc = "open"
    /\ responses = 0
    /\ sent = 0
    /\ fed = <<>>
    /\ written = <<>>
    /\ halfClosed = FALSE
    /\ results = 0
    /\ errors = 0
    /\ finishCalls = 0
    /\ late = 0

-----------------------------------------------------------------------------
(* The callers: media thread and event-loop thread.                         *)

\* Mutant of Feed: the frame is inserted at the front of the buffer.
FeedAtFront ==
    /\ Len(fed) < MaxFeeds
    /\ fed' = Append(fed, Len(fed) + 1)
    /\ internalBuffer' = <<Len(fed) + 1>> \o internalBuffer
    /\ UNCHANGED <<caller, writePending, pc, event, chunk, ops, server, responses,
                   written, halfClosed, callbacks, finishCalls>>

\* feed(): the channel never returns to its idle state, so frames arrive at any time
\* of the connection's life, after writes_done() and disable() too.
Feed ==
    /\ Len(fed) < MaxFeeds
    /\ fed' = Append(fed, Len(fed) + 1)
    /\ internalBuffer' = Append(internalBuffer, Len(fed) + 1)
    /\ UNCHANGED <<caller, writePending, pc, event, chunk, ops, server, responses,
                   written, halfClosed, callbacks, finishCalls>>

WritesDone ==
    /\ ~writesDone
    /\ writesDone' = TRUE
    /\ UNCHANGED <<active, writePending, internalBuffer, pc, event, chunk, ops, server,
                   responses, stream, callbacks, finishCalls>>

\* stop_recognize() calls writes_done() first, and the worker may run in between.  A stop that
\* lost a race against the next RECOGNIZE reads that one's connection for disable() only.
Disable ==
    /\ active
    /\ active' = FALSE
    /\ UNCHANGED <<writesDone, writePending, internalBuffer, pc, event, chunk, ops, server,
                   responses, stream, callbacks, finishCalls>>

-----------------------------------------------------------------------------
(* The server and the network.                                              *)

Respond ==
    /\ ~Ended
    /\ sent < MaxResponses
    /\ sent' = sent + 1
    /\ responses' = responses + 1
    /\ UNCHANGED <<caller, writePending, internalBuffer, pc, event, chunk, ops, rpc,
                   stream, callbacks, finishCalls>>

\* The server closes the call, or the call breaks: a refused token, a lost transport.
EndCall(status) ==
    /\ ~Ended
    /\ rpc' = status
    /\ UNCHANGED <<caller, writePending, internalBuffer, pc, event, chunk, ops, sent,
                   responses, stream, callbacks, finishCalls>>

-----------------------------------------------------------------------------
(* The worker thread.                                                       *)

\* What gRPC may report of an outstanding operation.  A read that fails says that no
\* message is left, or that the call broke; a write may be accepted or be lost when the
\* call has ended; Finish reports its status once the call has ended.
Completes(c, ok) ==
    CASE c = "read"   -> IF ok THEN responses > 0
                         ELSE Ended /\ (responses = 0 \/ rpc = "error")
      [] c = "finish" -> ok /\ Ended
      [] c = "alarm"  -> ok
      [] OTHER        -> ok \/ Ended

\* Mutants of Deliver: a failed read counts as a message; the worker does not test active().
DeliverCountsFailedRead(c, ok) ==
    /\ pc = "next"
    /\ ops[c] > 0
    /\ Completes(c, ok)
    /\ ops' = [ops EXCEPT ![c] = @ - 1]
    /\ responses' = IF c = "read" THEN responses - 1 ELSE responses
    /\ pc' = IF active THEN "proceed" ELSE "next"
    /\ event' = [cause |-> c, ok |-> ok]
    /\ UNCHANGED <<caller, writePending, internalBuffer, chunk, server, stream, callbacks,
                   finishCalls>>

DeliverUnchecked(c, ok) ==
    /\ pc = "next"
    /\ ops[c] > 0
    /\ Completes(c, ok)
    /\ ops' = [ops EXCEPT ![c] = @ - 1]
    /\ responses' = IF c = "read" /\ ok THEN responses - 1 ELSE responses
    /\ pc' = "proceed"
    /\ event' = [cause |-> c, ok |-> ok]
    /\ UNCHANGED <<caller, writePending, internalBuffer, chunk, server, stream, callbacks,
                   finishCalls>>

\* An iteration of the worker's loop up to the active() test: the tag of a
\* disabled connection is deleted without looking at it.
Deliver(c, ok) ==
    /\ pc = "next"
    /\ ops[c] > 0
    /\ Completes(c, ok)
    /\ ops' = [ops EXCEPT ![c] = @ - 1]
    /\ responses' = IF c = "read" /\ ok THEN responses - 1 ELSE responses
    /\ pc' = IF active THEN "proceed" ELSE "next"
    /\ event' = [cause |-> c, ok |-> ok]
    /\ UNCHANGED <<caller, writePending, internalBuffer, chunk, server, stream, callbacks,
                   finishCalls>>

Proceeding(c) == pc = "proceed" /\ event.cause = c

Start(c) == [ops EXCEPT ![c] = @ + 1]

\* A callback counts as late when disable() has already returned.
CountLate == late' = IF active THEN late ELSE late + 1

\* proceed(finish): the status is reported when it is an error and ignored when it is OK.
ProceedFinish ==
    /\ Proceeding("finish")
    /\ \/ /\ rpc = "error"
          /\ errors' = errors + 1
          /\ CountLate
       \/ /\ rpc = "ok"
          /\ UNCHANGED <<errors, late>>
    /\ pc' = "next"
    /\ UNCHANGED <<caller, writePending, internalBuffer, event, chunk, ops, server, responses,
                   stream, results, finishCalls>>

\* Mutant of CallFinish: the failed read is started again.
FinishAndReadAgain ==
    /\ \/ Proceeding("read") /\ ~event.ok
       \/ Proceeding("writes_done")
    /\ ops' = [ops EXCEPT !["finish"] = @ + 1, !["read"] = @ + 1]
    /\ finishCalls' = finishCalls + 1
    /\ pc' = "next"
    /\ UNCHANGED <<caller, writePending, internalBuffer, event, chunk, server, responses,
                   stream, callbacks>>

\* Mutant of CallFinish: the early return comes before Finish().
ReturnWithoutFinish ==
    /\ \/ Proceeding("read") /\ ~event.ok
       \/ Proceeding("writes_done")
    /\ pc' = "next"
    /\ UNCHANGED <<caller, writePending, internalBuffer, event, chunk, ops, server, responses,
                   stream, callbacks, finishCalls>>

\* proceed(read, !ok) and proceed(writes_done) both call Finish(); nothing records that
\* the other one already did.
CallFinish ==
    /\ \/ Proceeding("read") /\ ~event.ok
       \/ Proceeding("writes_done")
    /\ ops' = Start("finish")
    /\ finishCalls' = finishCalls + 1
    /\ pc' = "next"
    /\ UNCHANGED <<caller, writePending, internalBuffer, event, chunk, server, responses,
                   stream, callbacks>>

\* Mutant of ProceedStartCall: the polling starts without waiting for the first write.
StartCallArmsAlarm ==
    /\ Proceeding("start_call")
    /\ writePending' = TRUE
    /\ ops' = [ops EXCEPT !["write"] = @ + 1, !["read"] = @ + 1, !["alarm"] = @ + 1]
    /\ pc' = "next"
    /\ UNCHANGED <<caller, internalBuffer, event, chunk, server, responses, stream, callbacks,
                   finishCalls>>

\* proceed(start_call), whatever ok says: send_initial_settings() and read().
ProceedStartCall ==
    /\ Proceeding("start_call")
    /\ writePending' = TRUE
    /\ ops' = [ops EXCEPT !["write"] = @ + 1, !["read"] = @ + 1]
    /\ pc' = "next"
    /\ UNCHANGED <<caller, internalBuffer, event, chunk, server, responses, stream, callbacks,
                   finishCalls>>

\* Mutant of TakeChunk: the buffer is copied out and not swapped.
TakeChunkCopies ==
    /\ Proceeding("write") \/ Proceeding("alarm")
    /\ LET pending == event.cause = "alarm" /\ writePending
       IN  /\ writePending' = pending
           /\ pc' = IF pending THEN "next" ELSE "branch"
           /\ chunk' = IF pending THEN chunk ELSE internalBuffer
    /\ UNCHANGED <<caller, internalBuffer, event, ops, server, responses, stream, callbacks,
                   finishCalls>>

\* proceed(write) falls through into proceed(alarm).  The buffer is swapped out under m_,
\* and writes_done_ is looked at later, in Branch.
TakeChunk ==
    /\ Proceeding("write") \/ Proceeding("alarm")
    /\ LET pending == event.cause = "alarm" /\ writePending
       IN  /\ writePending' = pending
           /\ pc' = IF pending THEN "next" ELSE "branch"
           /\ chunk' = IF pending THEN chunk ELSE internalBuffer
           /\ internalBuffer' = IF pending THEN internalBuffer ELSE <<>>
    /\ UNCHANGED <<caller, event, ops, server, responses, stream, callbacks, finishCalls>>

\* Mutant of SendAudioChunk: an answer is read per chunk.
SendChunkAndRead ==
    /\ pc = "branch"
    /\ chunk # <<>>
    /\ writePending' = TRUE
    /\ ops' = [ops EXCEPT !["write"] = @ + 1, !["read"] = @ + 1]
    /\ written' = written \o chunk
    /\ chunk' = <<>>
    /\ pc' = "next"
    /\ UNCHANGED <<caller, internalBuffer, event, server, responses, fed, halfClosed,
                   callbacks, finishCalls>>

SendAudioChunk ==
    /\ pc = "branch"
    /\ chunk # <<>>
    /\ writePending' = TRUE
    /\ ops' = Start("write")
    /\ written' = written \o chunk
    /\ chunk' = <<>>
    /\ pc' = "next"
    /\ UNCHANGED <<caller, internalBuffer, event, server, responses, fed, halfClosed,
                   callbacks, finishCalls>>

\* Mutant of SendWritesDone: the alarm is armed again afterwards.
SendWritesDoneKeepsPolling ==
    /\ pc = "branch"
    /\ chunk = <<>>
    /\ writesDone
    /\ ops' = [ops EXCEPT !["writes_done"] = @ + 1, !["alarm"] = @ + 1]
    /\ halfClosed' = TRUE
    /\ pc' = "next"
    /\ UNCHANGED <<caller, writePending, internalBuffer, event, chunk, server, responses,
                   fed, written, callbacks, finishCalls>>

SendWritesDone ==
    /\ pc = "branch"
    /\ chunk = <<>>
    /\ writesDone
    /\ ops' = Start("writes_done")
    /\ halfClosed' = TRUE
    /\ pc' = "next"
    /\ UNCHANGED <<caller, writePending, internalBuffer, event, chunk, server, responses,
                   fed, written, callbacks, finishCalls>>

\* Mutant of ArmAlarm: the polling goes on after writes_done().
ArmAlarmAlways ==
    /\ pc = "branch"
    /\ chunk = <<>>
    /\ ops' = Start("alarm")
    /\ pc' = "next"
    /\ UNCHANGED <<caller, writePending, internalBuffer, event, chunk, server, responses,
                   stream, callbacks, finishCalls>>

ArmAlarm ==
    /\ pc = "branch"
    /\ chunk = <<>>
    /\ ~writesDone
    /\ ops' = Start("alarm")
    /\ pc' = "next"
    /\ UNCHANGED <<caller, writePending, internalBuffer, event, chunk, server, responses,
                   stream, callbacks, finishCalls>>

\* Mutant of ProceedRead: the status is asked for after the first message.
ReadThenFinish ==
    /\ Proceeding("read")
    /\ event.ok
    /\ results' = results + 1
    /\ CountLate
    /\ ops' = [ops EXCEPT !["read"] = @ + 1, !["finish"] = @ + 1]
    /\ finishCalls' = finishCalls + 1
    /\ pc' = "next"
    /\ UNCHANGED <<caller, writePending, internalBuffer, event, chunk, server, responses,
                   stream, errors>>

\* proceed(read, ok): on_read() calls back into the channel, then the next read starts.
ProceedRead ==
    /\ Proceeding("read")
    /\ event.ok
    /\ results' = results + 1
    /\ CountLate
    /\ ops' = Start("read")
    /\ pc' = "next"
    /\ UNCHANGED <<caller, writePending, internalBuffer, event, chunk, server, responses,
                   stream, errors, finishCalls>>

Proceed ==
    \/ ProceedFinish
    \/ CallFinish
    \/ ProceedStartCall
    \/ TakeChunk
    \/ SendAudioChunk
    \/ SendWritesDone
    \/ ArmAlarm
    \/ ProceedRead

Next ==
    \/ Feed
    \/ WritesDone
    \/ Disable
    \/ Respond
    \/ \E status \in {"ok", "error"} : EndCall(status)
    \/ \E c \in Cause, ok \in BOOLEAN : Deliver(c, ok)
    \/ Proceed

Spec == Init /\ [][Next]_vars

(***************************************************************************)
(* Fairness.  The worker thread is scheduled (weak fairness of its own      *)
(* steps).  The completion queue is first-in first-out, so a completed      *)
(* operation cannot be overtaken forever by the alarm that re-arms itself:   *)
(* strong fairness per operation.  Only completions that depend on nobody   *)
(* else are assumed: of an ended call, and of the alarm.  The client sets   *)
(* no deadline on the call, so an open call may stall forever.              *)
(***************************************************************************)
DeliverEnded(c) == Ended /\ \E ok \in BOOLEAN : Deliver(c, ok)

FairSpec ==
    /\ Spec
    /\ WF_vars(Proceed)
    /\ SF_vars(Deliver("alarm", TRUE))
    /\ \A c \in Cause : SF_vars(DeliverEnded(c))

-----------------------------------------------------------------------------
(* Properties.                                                              *)

Frame == Nat \ {0}
FrameSeq == Seq(Frame)

TypeOK ==
    /\ active \in BOOLEAN
    /\ writePending \in BOOLEAN
    /\ writesDone \in BOOLEAN
    /\ internalBuffer \in FrameSeq
    /\ pc \in {"next", "proceed", "branch"}
    /\ event \in [cause : Cause, ok : BOOLEAN]
    /\ chunk \in FrameSeq
    /\ ops \in [Cause -> Nat]
    /\ rpc \in {"open", "ok", "error"}
    /\ responses \in Nat
    /\ sent \in Nat
    /\ fed \in FrameSeq
    /\ written \in FrameSeq
    /\ halfClosed \in BOOLEAN
    /\ results \in Nat
    /\ errors \in Nat
    /\ finishCalls \in Nat
    /\ late \in Nat

One(condition) == IF condition THEN 1 ELSE 0

InHand(c) == pc # "next" /\ event.cause = c

\* The operations of the sending direction that exist, the one in the worker's hand included.
WriteSide ==
    ops["start_call"] + ops["write"] + ops["alarm"] + ops["writes_done"]
        + One(pc = "proceed" /\ event.cause \in {"start_call", "write", "alarm", "writes_done"})
        + One(pc = "branch")

\* gRPC allows one outstanding write, and the alarm object holds one deadline: the
\* operations of the sending direction hand over to each other and never overlap, so
\* Write, WritesDone and alarm_.Set are never called while another one is outstanding.
\* The test of write_pending_ in proceed() can therefore not fail.
OneWriteSideOp ==
    /\ WriteSide <= 1
    /\ ops["write"] > 0 => writePending
    /\ Proceeding("alarm") => ~writePending

\* At most one Read is outstanding: response_ is overwritten only after on_read() used it.
OneRead ==
    ops["start_call"] + One(InHand("start_call")) + ops["read"] + One(InHand("read")) <= 1

\* No frame is lost, duplicated or reordered between feed() and Write().
AudioConserved == written \o chunk \o internalBuffer = fed

\* Once WritesDone was called nothing more is written (writing after it is an API error).
NoWriteAfterWritesDone ==
    [][halfClosed => written' = written /\ ops'["write"] <= ops["write"]
                     /\ ops'["writes_done"] <= ops["writes_done"]]_vars

\* Finish() is called a second time on the same call (a fatal API misuse) only when the
\* server ends the call in the moment between writes_done() and disable().  Unless the caller
\* asked to stop, the status is asked for only after the end of the call, when every message
\* of a call that ended well has been delivered.
FinishOnce ==
    /\ finishCalls <= 2
    /\ finishCalls = 2 => writesDone /\ halfClosed /\ Ended
    /\ (finishCalls > 0 /\ ~writesDone) => Ended /\ (rpc = "ok" => responses = 0)

\* disable() does not wait for the worker, so a callback can still come after it returned,
\* but one at most: the worker looks at active_ before every event.
OneLateCallback == late <= 1

\* The connection calls its channel back as promised: a callback that was begun is counted
\* while it is in the worker's hand.
Contract == INSTANCE RecognitionCallbacks WITH
    life <- IF active THEN "active" ELSE "disabled",
    stopping <- writesDone,
    reading <- ops["start_call"] > 0 \/ InHand("start_call") \/ ops["read"] > 0
                   \/ (InHand("read") /\ event.ok),
    results <- results + One(InHand("read") /\ event.ok),
    errors <- errors + One(InHand("finish") /\ rpc = "error")
KeepsContract == Contract!CSpec

\* The connection implements the audio stream promised to its caller.
Stream == INSTANCE AudioStream WITH closed <- halfClosed
ImplementsStream == Stream!ASpec

\* A call that fails is reported to the channel, unless the channel gave it up.
ErrorReported == (rpc = "error") ~> (errors > 0 \/ ~active)

\* After writes_done() and the end of the call no operation is left and none is started:
\* the 100 ms alarm does not keep polling, whether disable() is called or not.
Drains == (writesDone /\ Ended) ~> [](pc = "next" /\ \A c \in Cause : ops[c] = 0)
==============================================================================
