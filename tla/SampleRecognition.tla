--------------------------- MODULE SampleRecognition ---------------------------
(***************************************************************************)
(* The C++ recognition samples (recognition/v1/cpp and recognition/v2/cpp,   *)
(* which differ in the protocol version only): main() feeds a file to a      *)
(* connection, signals its end, sleeps and leaves; the gRPC worker drives    *)
(* the connection.  The MRCP plugin started as a copy of this client; here   *)
(* there is no active_ flag, every failed operation calls Finish(), and the  *)
(* connection is destroyed.                                                 *)
(*                                                                          *)
(* The server and the completion queue are modelled as in                    *)
(* RecognitionConnection.tla: `ops' counts the operations started and not    *)
(* yet delivered.                                                           *)
(***************************************************************************)
EXTENDS Naturals, Sequences

CONSTANTS
    FileChunks,     \* blocks of 1600 bytes in the audio file
    MaxResponses    \* messages the server sends

ASSUME SampleAssumption == FileChunks \in Nat /\ MaxResponses \in Nat

VARIABLES
    main,           \* main(): "feeding", "sleeping" or "left"
    writePending,   \* write_pending_
    writesDone,     \* writes_done_ (atomic)
    internalBuffer, \* internal_buffer_, under m_
    pc,             \* where the worker is: "next", "proceed" or "branch"
    event,          \* the tag in the worker's hand, with its ok flag
    chunk,          \* the local `chunk' of proceed()
    ops,            \* operations outstanding on the completion queue, by cause
    rpc,            \* the call as the server left it: "open", "ok" or "error"
    responses,      \* messages received and not read yet
    sent,           \* messages the server sent, bounded by MaxResponses
    fed,            \* history: every block given to feed()
    written,        \* history: every block given to Write()
    halfClosed,     \* history: WritesDone() was called
    printed,        \* history: messages read, reported by on_result_cb_ or skipped
    finishCalls,    \* history: calls of Finish()
    lostWrite       \* history: a Write() has failed

client == <<main, writesDone>>
server == <<rpc, sent>>
stream == <<fed, written, halfClosed>>
history == <<printed, finishCalls, lostWrite>>
vars == <<main, writePending, writesDone, internalBuffer, pc, event, chunk, ops, rpc, responses,
          sent, fed, written, halfClosed, printed, finishCalls, lostWrite>>

Cause == {"start_call", "write", "read", "writes_done", "finish", "alarm"}

Ended == rpc # "open"

Init ==
    /\ main = "feeding"
    /\ writePending = FALSE
    /\ writesDone = FALSE
    /\ internalBuffer = <<>>
    /\ pc = "next"
    /\ event = [cause |-> "start_call", ok |-> TRUE]
    /\ chunk = <<>>
    /\ ops = [c \in Cause |-> IF c = "start_call" THEN 1 ELSE 0]
    /\ rpc = "open"
    /\ responses = 0
    /\ sent = 0
    /\ fed = <<>>
    /\ written = <<>>
    /\ halfClosed = FALSE
    /\ printed = 0
    /\ finishCalls = 0
    /\ lostWrite = FALSE

-----------------------------------------------------------------------------
(* main().                                                                  *)

\* Mutant of Feed: feed() replaces what it finds in the buffer.
FeedOverwrites ==
    /\ main = "feeding"
    /\ Len(fed) < FileChunks
    /\ fed' = Append(fed, Len(fed) + 1)
    /\ internalBuffer' = <<Len(fed) + 1>>
    /\ UNCHANGED <<client, writePending, pc, event, chunk, ops, server, responses, written,
                   halfClosed, history>>

\* The next block of the file is fed.
Feed ==
    /\ main = "feeding"
    /\ Len(fed) < FileChunks
    /\ fed' = Append(fed, Len(fed) + 1)
    /\ internalBuffer' = Append(internalBuffer, Len(fed) + 1)
    /\ UNCHANGED <<client, writePending, pc, event, chunk, ops, server, responses, written,
                   halfClosed, history>>

\* The file has been read: writes_done(), and the sleep begins.
WritesDone ==
    /\ main = "feeding"
    /\ Len(fed) = FileChunks
    /\ writesDone' = TRUE
    /\ main' = "sleeping"
    /\ UNCHANGED <<writePending, internalBuffer, pc, event, chunk, ops, server, responses,
                   stream, history>>

\* The three seconds are over, however far the call has come: the connection is destroyed.
\* What the worker does with the tags of a destroyed connection is undefined; the model
\* ends here.
Leave ==
    /\ main = "sleeping"
    /\ main' = "left"
    /\ UNCHANGED <<writesDone, writePending, internalBuffer, pc, event, chunk, ops, server,
                   responses, stream, history>>

Alive == main # "left"

-----------------------------------------------------------------------------
(* The server and the network.                                              *)

Respond ==
    /\ Alive
    /\ ~Ended
    /\ sent < MaxResponses
    /\ sent' = sent + 1
    /\ responses' = responses + 1
    /\ UNCHANGED <<client, writePending, internalBuffer, pc, event, chunk, ops, rpc, stream,
                   history>>

EndCall(status) ==
    /\ Alive
    /\ ~Ended
    /\ rpc' = status
    /\ UNCHANGED <<client, writePending, internalBuffer, pc, event, chunk, ops, sent, responses,
                   stream, history>>

-----------------------------------------------------------------------------
(* The worker thread.                                                       *)

Completes(c, ok) ==
    CASE c = "read"   -> IF ok THEN responses > 0
                         ELSE Ended /\ (responses = 0 \/ rpc = "error")
      [] c = "start_call" -> ok \/ (rpc = "error" /\ sent = 0)
      [] c = "finish" -> ok /\ Ended
      [] c = "alarm"  -> ok
      [] OTHER        -> ok \/ Ended

\* Mutant of Deliver: a failed write goes unnoticed.
DeliverIgnoresFailedWrite(c, ok) ==
    /\ Alive
    /\ pc = "next"
    /\ ops[c] > 0
    /\ Completes(c, ok)
    /\ ops' = [ops EXCEPT ![c] = @ - 1]
    /\ responses' = IF c = "read" /\ ok THEN responses - 1 ELSE responses
    /\ lostWrite' = (lostWrite \/ (c = "write" /\ ~ok))
    /\ event' = [cause |-> c, ok |-> ok \/ c = "write"]
    /\ pc' = "proceed"
    /\ UNCHANGED <<client, writePending, internalBuffer, chunk, server, stream, printed,
                   finishCalls>>

\* The next tag off the completion queue goes to proceed().
Deliver(c, ok) ==
    /\ Alive
    /\ pc = "next"
    /\ ops[c] > 0
    /\ Completes(c, ok)
    /\ ops' = [ops EXCEPT ![c] = @ - 1]
    /\ responses' = IF c = "read" /\ ok THEN responses - 1 ELSE responses
    /\ lostWrite' = (lostWrite \/ (c = "write" /\ ~ok))
    /\ event' = [cause |-> c, ok |-> ok]
    /\ pc' = "proceed"
    /\ UNCHANGED <<client, writePending, internalBuffer, chunk, server, stream, printed,
                   finishCalls>>

Proceeding(c) == Alive /\ pc = "proceed" /\ event.cause = c /\ event.ok

Start(c) == [ops EXCEPT ![c] = @ + 1]

\* Mutant of CallFinish: the failed operation's case is run as well, and reads again.
FinishAndRead ==
    /\ Alive
    /\ pc = "proceed"
    /\ ~event.ok
    /\ ops' = [ops EXCEPT !["finish"] = @ + 1,
                          !["read"] = @ + (IF event.cause = "read" THEN 1 ELSE 0)]
    /\ finishCalls' = finishCalls + 1
    /\ pc' = "next"
    /\ UNCHANGED <<client, writePending, internalBuffer, event, chunk, server, responses, stream,
                   printed, lostWrite>>

\* Any operation that failed asks for the status of the call; nothing records that another
\* one already did.
CallFinish ==
    /\ Alive
    /\ pc = "proceed"
    /\ ~event.ok
    /\ ops' = Start("finish")
    /\ finishCalls' = finishCalls + 1
    /\ pc' = "next"
    /\ UNCHANGED <<client, writePending, internalBuffer, event, chunk, server, responses, stream,
                   printed, lostWrite>>

ProceedStartCall ==
    /\ Proceeding("start_call")
    /\ writePending' = TRUE
    /\ ops' = [ops EXCEPT !["write"] = @ + 1, !["read"] = @ + 1]
    /\ pc' = "next"
    /\ UNCHANGED <<client, internalBuffer, event, chunk, server, responses, stream, history>>

\* proceed(write) falls through into proceed(alarm): the buffer is swapped out under m_, and
\* writes_done_ is looked at later.
TakeChunk ==
    /\ Proceeding("write") \/ Proceeding("alarm")
    /\ LET pending == event.cause = "alarm" /\ writePending
       IN  /\ writePending' = pending
           /\ pc' = IF pending THEN "next" ELSE "branch"
           /\ chunk' = IF pending THEN chunk ELSE internalBuffer
           /\ internalBuffer' = IF pending THEN internalBuffer ELSE <<>>
    /\ UNCHANGED <<client, event, ops, server, responses, stream, history>>

SendAudioChunk ==
    /\ Alive
    /\ pc = "branch"
    /\ chunk # <<>>
    /\ writePending' = TRUE
    /\ ops' = Start("write")
    /\ written' = written \o chunk
    /\ chunk' = <<>>
    /\ pc' = "next"
    /\ UNCHANGED <<client, internalBuffer, event, server, responses, fed, halfClosed, history>>

SendWritesDone ==
    /\ Alive
    /\ pc = "branch"
    /\ chunk = <<>>
    /\ writesDone
    /\ ops' = Start("writes_done")
    /\ halfClosed' = TRUE
    /\ pc' = "next"
    /\ UNCHANGED <<client, writePending, internalBuffer, event, chunk, server, responses, fed,
                   written, history>>

ArmAlarm ==
    /\ Alive
    /\ pc = "branch"
    /\ chunk = <<>>
    /\ ~writesDone
    /\ ops' = Start("alarm")
    /\ pc' = "next"
    /\ UNCHANGED <<client, writePending, internalBuffer, event, chunk, server, responses, stream,
                   history>>

\* Mutant of ProceedRead: only one message is read.
ReadOnce ==
    /\ Proceeding("read")
    /\ printed' = printed + 1
    /\ pc' = "next"
    /\ UNCHANGED <<client, writePending, internalBuffer, event, chunk, ops, server, responses,
                   stream, finishCalls, lostWrite>>

\* on_read() prints the message (v2: when it is a transcription), and the next read starts.
ProceedRead ==
    /\ Proceeding("read")
    /\ printed' = printed + 1
    /\ ops' = Start("read")
    /\ pc' = "next"
    /\ UNCHANGED <<client, writePending, internalBuffer, event, chunk, server, responses, stream,
                   finishCalls, lostWrite>>

\* writes_done_ was set before, and the status of the call is only printed.
ProceedEnd ==
    /\ Proceeding("writes_done") \/ Proceeding("finish")
    /\ pc' = "next"
    /\ writesDone' = (writesDone \/ event.cause = "writes_done")
    /\ UNCHANGED <<main, writePending, internalBuffer, event, chunk, ops, server, responses,
                   stream, history>>

Proceed ==
    \/ CallFinish
    \/ ProceedStartCall
    \/ TakeChunk
    \/ SendAudioChunk
    \/ SendWritesDone
    \/ ArmAlarm
    \/ ProceedRead
    \/ ProceedEnd

Next ==
    \/ Feed
    \/ WritesDone
    \/ Leave
    \/ Respond
    \/ \E status \in {"ok", "error"} : EndCall(status)
    \/ \E c \in Cause, ok \in BOOLEAN : Deliver(c, ok)
    \/ Proceed

Spec == Init /\ [][Next]_vars

(***************************************************************************)
(* Fairness: main() reads on and the worker runs; the completion queue is    *)
(* first-in first-out, so an operation of an ended call, and the alarm, are  *)
(* delivered in the end.  The sleep is not assumed to be long enough for     *)
(* anything.                                                                *)
(***************************************************************************)
DeliverEnded(c) == Ended /\ \E ok \in BOOLEAN : Deliver(c, ok)

FairSpec ==
    /\ Spec
    /\ WF_vars(Feed \/ WritesDone)
    /\ WF_vars(Proceed)
    /\ SF_vars(Deliver("alarm", TRUE))
    /\ \A c \in Cause : SF_vars(DeliverEnded(c))

-----------------------------------------------------------------------------
(* Properties.                                                              *)

BlockSeq == Seq(1 .. FileChunks)

TypeOK ==
    /\ main \in {"feeding", "sleeping", "left"}
    /\ writePending \in BOOLEAN /\ writesDone \in BOOLEAN
    /\ halfClosed \in BOOLEAN /\ lostWrite \in BOOLEAN
    /\ internalBuffer \in BlockSeq /\ chunk \in BlockSeq
    /\ fed \in BlockSeq /\ written \in BlockSeq
    /\ pc \in {"next", "proceed", "branch"}
    /\ event \in [cause : Cause, ok : BOOLEAN]
    /\ ops \in [Cause -> Nat]
    /\ rpc \in {"open", "ok", "error"}
    /\ responses \in 0 .. MaxResponses
    /\ sent \in 0 .. MaxResponses
    /\ printed \in Nat
    /\ finishCalls \in Nat

One(condition) == IF condition THEN 1 ELSE 0

\* Operations of a direction, the one in the worker's hand included.
Sending ==
    ops["start_call"] + ops["write"] + ops["alarm"] + ops["writes_done"]
        + One(pc # "next" /\ event.cause \in {"start_call", "write", "alarm", "writes_done"})

Receiving ==
    ops["start_call"] + ops["read"] + One(pc # "next" /\ event.cause \in {"start_call", "read"})

\* The call is used as its API demands: Write, WritesDone and alarm_.Set are never called
\* while another of them is outstanding, nor Read while a Read is.  Only Finish() is called a
\* second time, when the sending and the receiving direction have both failed, for the two
\* failures of one ended call.
OneOpPerDirection ==
    /\ Sending <= 1 /\ Receiving <= 1
    /\ finishCalls <= 2
    /\ finishCalls = 2 => Ended /\ Sending = 0 /\ Receiving = 0

\* A connection whose write failed sends no more audio, although it goes on receiving.
NothingAfterLostWrite == [][lostWrite => written' = written /\ halfClosed' = halfClosed]_vars

\* The audio reaches the call in order, without gaps or repetitions, and nothing is
\* written after WritesDone: the connection implements the abstract stream.
Stream == INSTANCE AudioStream WITH closed <- halfClosed
ImplementsStream == Stream!ASpec

\* When the client half-closes the call, everything that was read from the file has been
\* sent (recognize.cpp: "read file and feed connection", then "signal that no more data
\* available").
AllAudioSent == halfClosed => written = fed

\* All messages of a call that ends well are printed, and no operation is left, unless
\* main() leaves first.
CallDrains ==
    (rpc = "ok") ~> (main = "left" \/ (printed = sent /\ \A c \in Cause : ops[c] = 0))
==============================================================================
