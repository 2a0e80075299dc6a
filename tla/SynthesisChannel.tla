--------------------------- MODULE SynthesisChannel ---------------------------
(***************************************************************************)
(* smartspeech::mrcp::synthesis::channel, the MRCP synthesiser of one        *)
(* session (mrcp/synthesis/channel.cpp), with its synthesis::connections     *)
(* (mrcp/grpc_client/client.cpp).                                            *)
(*                                                                          *)
(* The MRCP thread runs on_message(), on_open() and on_close(); the gRPC     *)
(* worker runs on_voice() and on_error(); the media thread asks for a frame  *)
(* every 10 ms (feel_voice_buffer() and check_synth_comlete()); the event    *)
(* loop runs the posted closures in order.  Only voice_buffer_ is locked.    *)
(*                                                                          *)
(* The n-th SPEAK is request n and its gRPC connection is connection n.       *)
(* Audio is counted in units numbered as they arrive; a frame takes           *)
(* FrameLength of them.                                                      *)
(*                                                                          *)
(* The environment is UniMRCP: a SPEAK reaches the channel when no other one  *)
(* is in progress, STOP and BARGE-IN-OCCURRED while one is, and the channel   *)
(* is closed when none is.                                                   *)
(***************************************************************************)
EXTENDS Naturals, Sequences, FiniteSets

CONSTANTS
    MaxSpeaks,      \* SPEAK requests in a session
    MaxOther,       \* requests of the other methods in a session
    MaxChunks,      \* messages of a call
    ChunkLengths,   \* their possible lengths
    FrameLength,    \* length of a media frame
    QueueBound,     \* the media thread pauses while so many closures wait
    StopAllowed     \* the client uses STOP or BARGE-IN-OCCURRED

ASSUME SynthesisAssumption ==
    /\ MaxSpeaks \in Nat /\ MaxOther \in Nat /\ MaxChunks \in Nat /\ QueueBound \in Nat
    /\ ChunkLengths \subseteq Nat \ {0}
    /\ FrameLength \in Nat \ {0}
    /\ StopAllowed \in BOOLEAN

VARIABLES
    state,              \* state_
    connection,         \* smartspeech_grpc_synthesis_connection_
    synthesisRequest,   \* synthesis_request_
    voiceBuffer,        \* voice_buffer_
    completeFlag,       \* synth_complete_flag_ (atomic)
    mrcp,               \* where the MRCP thread is
    media,              \* where the media thread is in a tick
    worker,             \* where the gRPC worker is in a callback
    loop,               \* where the event loop is in stop_synthesis()
    queue,              \* closures posted to the event loop
    active,             \* active_ of every connection
    call,               \* the operation outstanding on every call, or how it ended
    chunks,             \* messages every call has sent
    early,              \* history: SPEAKs whose call failed before process_synthesis() was over
    owner,              \* history: of every unit received, the connection it came from
    played,             \* history: the units copied into media frames
    other,              \* other requests so far, bounded by MaxOther
    delivered,          \* history: what the client was sent
    phase,              \* life of the channel
    crashed             \* the uninitialised pointer was followed

request == <<connection, synthesisRequest>>
voice == <<voiceBuffer, owner, played>>
grpc == <<active, call, chunks, early>>
vars == <<state, connection, synthesisRequest, voiceBuffer, completeFlag, mrcp, media, worker,
          loop, queue, active, call, chunks, early, owner, played, other, delivered, phase, crashed>>

Speak == 1 .. MaxSpeaks
None == 0
Garbage == MaxSpeaks + 1    \* what the uninitialised pointer may hold

Send(message, r) == [kind |-> "send", message |-> message, request |-> r]
Stop == [kind |-> "stop", message |-> "none", request |-> None]

Post(closure) == queue' = Append(queue, closure)

Final == {"complete", "error", "stopped"}

Finished(r) ==
    \E i \in DOMAIN delivered : delivered[i].request = r /\ delivered[i].message \in Final

InProgress == synthesisRequest # None /\ ~Finished(synthesisRequest)

Idle == [at |-> "next", conn |-> None]

\* The constructor leaves smartspeech_grpc_synthesis_connection_ as the memory was.
Init ==
    /\ state = "idle"
    /\ connection \in {None, Garbage}
    /\ synthesisRequest = None
    /\ voiceBuffer = <<>>
    /\ completeFlag = FALSE
    /\ mrcp = "idle"
    /\ media = "idle"
    /\ worker = Idle
    /\ loop = "next"
    /\ queue = <<>>
    /\ active = [c \in Speak |-> FALSE]
    /\ call = [c \in Speak |-> "none"]
    /\ chunks = [c \in Speak |-> 0]
    /\ early = {}
    /\ owner = <<>>
    /\ played = <<>>
    /\ other = 0
    /\ delivered = <<>>
    /\ phase = "created"
    /\ crashed = FALSE

Running == ~crashed /\ phase # "destroyed"

-----------------------------------------------------------------------------
(* The MRCP thread.                                                         *)

Ready == Running /\ phase = "open" /\ mrcp = "idle"

OnOpen ==
    /\ Running
    /\ phase = "created"
    /\ phase' = "opening"
    /\ Post(Send("opened", None))
    /\ UNCHANGED <<state, request, voice, completeFlag, mrcp, media, worker, grpc, other,
                   loop, delivered, crashed>>

\* UniMRCP detaches the media thread from a channel before it closes it.
OnClose ==
    /\ Ready
    /\ ~InProgress
    /\ media = "idle"
    /\ phase' = "closing"
    /\ Post(Send("closed", None))
    /\ UNCHANGED <<state, request, voice, completeFlag, mrcp, media, worker, grpc, other,
                   loop, delivered, crashed>>

\* Mutant of DisableConnection: the connection is not disabled.
KeepsConnection ==
    /\ UNCHANGED active
    /\ crashed' = (connection = Garbage)

\* stop_synthesis(): whatever connection is current is disabled, and then the channel is idle.
\* The event loop and, for STOP and BARGE-IN-OCCURRED, the MRCP thread run it.
DisableConnection ==
    /\ active' = [c \in Speak |-> active[c] /\ c # connection]
    /\ crashed' = (connection = Garbage)

\* SET-PARAMS, which changes nothing, and the methods on_message() does not know.
ProcessOther ==
    /\ Ready
    /\ other < MaxOther
    /\ other' = other + 1
    /\ Post(Send("response", None))
    /\ UNCHANGED <<state, request, voice, completeFlag, mrcp, media, worker, grpc, loop, delivered,
                   phase, crashed>>

\* process_synthesis(): synthesis_request_ = request ...
ProcessSynthesis ==
    /\ Ready
    /\ ~InProgress
    /\ synthesisRequest < MaxSpeaks
    /\ synthesisRequest' = synthesisRequest + 1
    /\ mrcp' = "accepted"
    /\ UNCHANGED <<state, connection, voice, completeFlag, media, worker, queue, grpc, other,
                   loop, delivered, phase, crashed>>

\* ... start_synth_connection() starts the call ...
StartConnection ==
    /\ Running
    /\ mrcp = "accepted"
    /\ active' = [active EXCEPT ![synthesisRequest] = TRUE]
    /\ call' = [call EXCEPT ![synthesisRequest] = "start_call"]
    /\ mrcp' = "calling"
    /\ UNCHANGED <<state, request, voice, completeFlag, media, worker, queue, chunks, early,
                   other, loop, delivered, phase, crashed>>

\* ... the pointer is stored ...
StoreConnection ==
    /\ Running
    /\ mrcp = "calling"
    /\ connection' = synthesisRequest
    /\ mrcp' = "stored"
    /\ UNCHANGED <<state, synthesisRequest, voice, completeFlag, media, worker, queue, grpc,
                   other, loop, delivered, phase, crashed>>

\* ... state_ = synthesis; neither voice_buffer_ nor synth_complete_flag_ is reset ...
SetSynthesis ==
    /\ Running
    /\ mrcp = "stored"
    /\ state' = "synthesis"
    /\ mrcp' = "started"
    /\ UNCHANGED <<request, voice, completeFlag, media, worker, queue, grpc, other, loop, delivered,
                   phase, crashed>>

\* ... and the IN-PROGRESS response is posted.
RespondInProgress ==
    /\ Running
    /\ mrcp = "started"
    /\ Post(Send("inprogress", synthesisRequest))
    /\ mrcp' = "idle"
    /\ UNCHANGED <<state, request, voice, completeFlag, media, worker, grpc, other, loop, delivered,
                   phase, crashed>>

\* process_stop()
ProcessStop ==
    /\ Ready
    /\ StopAllowed
    /\ InProgress
    /\ other < MaxOther
    /\ other' = other + 1
    /\ DisableConnection
    /\ mrcp' = "stopping"
    /\ UNCHANGED <<state, request, voice, completeFlag, media, worker, queue, call, chunks, early, loop,
                   delivered, phase>>

RespondStop ==
    /\ Running
    /\ mrcp = "stopping"
    /\ state' = "idle"
    /\ Post(Send("stopped", synthesisRequest))
    /\ mrcp' = "idle"
    /\ UNCHANGED <<request, voice, completeFlag, media, worker, grpc, other, loop, delivered,
                   phase, crashed>>

-----------------------------------------------------------------------------
(* The event loop.                                                          *)

RunStop ==
    /\ Running
    /\ loop = "next"
    /\ queue # <<>> /\ Head(queue).kind = "stop"
    /\ queue' = Tail(queue)
    /\ DisableConnection
    /\ loop' = "idle"
    /\ UNCHANGED <<state, request, voice, completeFlag, mrcp, media, worker, call, chunks, early, other,
                   delivered, phase>>

\* Mutant of RunIdle: the state is left as it was.
StopWithoutIdle ==
    /\ Running
    /\ loop = "idle"
    /\ loop' = "next"
    /\ UNCHANGED <<state, request, voice, completeFlag, mrcp, media, worker, queue, grpc, other,
                   delivered, phase, crashed>>

RunIdle ==
    /\ Running
    /\ loop = "idle"
    /\ state' = "idle"
    /\ loop' = "next"
    /\ UNCHANGED <<request, voice, completeFlag, mrcp, media, worker, queue, grpc, other,
                   delivered, phase, crashed>>

RunSend ==
    /\ Running
    /\ loop = "next"
    /\ queue # <<>> /\ Head(queue).kind = "send"
    /\ queue' = Tail(queue)
    /\ delivered' = Append(delivered, Head(queue))
    /\ phase' = CASE Head(queue).message = "opened" -> "open"
                  [] Head(queue).message = "closed" -> "destroyed"
                  [] OTHER -> phase
    /\ UNCHANGED <<state, request, voice, completeFlag, mrcp, media, worker, loop, grpc, other,
                   crashed>>

-----------------------------------------------------------------------------
(* The media thread: one tick per frame.                                    *)

\* feel_voice_buffer() looks at the state, then locks the buffer.
Tick ==
    /\ Running
    /\ phase = "open"
    /\ media = "idle"
    /\ Len(queue) < QueueBound
    /\ media' = IF state = "synthesis" THEN "fill" ELSE "filled"
    /\ UNCHANGED <<state, request, voice, completeFlag, mrcp, worker, queue, grpc, other,
                   loop, delivered, phase, crashed>>

\* A frame's worth of units leaves the buffer, or what there is.
Fill ==
    /\ Running
    /\ media = "fill"
    /\ LET taken == IF Len(voiceBuffer) > FrameLength THEN FrameLength ELSE Len(voiceBuffer)
       IN  /\ played' = played \o SubSeq(voiceBuffer, 1, taken)
           /\ voiceBuffer' = SubSeq(voiceBuffer, taken + 1, Len(voiceBuffer))
    /\ media' = "filled"
    /\ UNCHANGED <<state, request, completeFlag, mrcp, worker, queue, grpc, owner, other,
                   loop, delivered, phase, crashed>>

\* Mutant of CheckState: the state is not looked at.
CheckAlways ==
    /\ Running
    /\ media = "filled"
    /\ media' = "check"
    /\ UNCHANGED <<state, request, voice, completeFlag, mrcp, worker, queue, grpc, other,
                   loop, delivered, phase, crashed>>

\* check_synth_comlete() looks at the state again ...
CheckState ==
    /\ Running
    /\ media = "filled"
    /\ media' = IF state = "synthesis" THEN "check" ELSE "idle"
    /\ UNCHANGED <<state, request, voice, completeFlag, mrcp, worker, queue, grpc, other,
                   loop, delivered, phase, crashed>>

\* Mutant of CheckSynthComplete: the buffer is not looked at.
CompleteAtFlag ==
    /\ Running
    /\ media = "check"
    /\ \/ /\ completeFlag
          /\ Post(Stop)
          /\ media' = "complete"
       \/ /\ ~completeFlag
          /\ media' = "idle"
          /\ UNCHANGED queue
    /\ UNCHANGED <<state, request, voice, completeFlag, mrcp, worker, grpc, other, loop, delivered,
                   phase, crashed>>

\* ... locks the buffer, and schedules the stop when the call is over and all was played ...
CheckSynthComplete ==
    /\ Running
    /\ media = "check"
    /\ \/ /\ completeFlag /\ voiceBuffer = <<>>
          /\ Post(Stop)
          /\ media' = "complete"
       \/ /\ ~(completeFlag /\ voiceBuffer = <<>>)
          /\ media' = "idle"
          /\ UNCHANGED queue
    /\ UNCHANGED <<state, request, voice, completeFlag, mrcp, worker, grpc, other, loop, delivered,
                   phase, crashed>>

\* Mutant of SendResultEvent: a request that has its SPEAK-COMPLETE is not given another one,
\* but the stop is scheduled all the same.
CompleteOnce ==
    /\ Running
    /\ media = "complete"
    /\ queue' = IF \E i \in DOMAIN (delivered \o queue) :
                      (delivered \o queue)[i] = Send("complete", synthesisRequest)
                THEN queue ELSE Append(queue, Send("complete", synthesisRequest))
    /\ media' = "idle"
    /\ UNCHANGED <<state, request, voice, completeFlag, mrcp, worker, grpc, other, loop, delivered,
                   phase, crashed>>

\* ... and, still holding the lock, posts SPEAK-COMPLETE.  The stop is only scheduled: until
\* the event loop has run it, every further tick does the same again.
SendResultEvent ==
    /\ Running
    /\ media = "complete"
    /\ queue' = IF synthesisRequest = None THEN queue
                ELSE Append(queue, Send("complete", synthesisRequest))
    /\ media' = "idle"
    /\ UNCHANGED <<state, request, voice, completeFlag, mrcp, worker, grpc, other, loop, delivered,
                   phase, crashed>>

-----------------------------------------------------------------------------
(* The gRPC worker: synthesis::connection::proceed() and the callbacks.     *)

\* The tag of operation `from' on connection c comes out of the completion queue.  The
\* connection goes on to operation `to'; if it was disabled the tag is dropped, and the
\* connection, which never has another operation outstanding, is heard of no more.
Complete(c, from, to) ==
    /\ Running
    /\ worker = Idle
    /\ call[c] = from
    /\ call' = [call EXCEPT ![c] = IF active[c] THEN to ELSE "dropped"]

\* The callback that goes with it, if there is one.
Begin(at, c) == worker' = IF active[c] THEN [at |-> at, conn |-> c] ELSE Idle

\* process_synthesis() has made the call and is not over: connections are started before they
\* are stored, and the worker does not wait for it.
Starting == mrcp \in {"calling", "stored", "started"}

\* proceed(start_call): the first read is started, whether the call was or not.
StartCall(c) ==
    /\ Complete(c, "start_call", "read")
    /\ UNCHANGED <<state, request, voice, completeFlag, mrcp, media, worker, queue, active,
                   chunks, early, other, loop, delivered, phase, crashed>>

\* proceed(read) with a message: on_read() calls back and the next read starts.  (Nothing
\* can complete before the callback is over, so that the read may as well start here.)
Chunk(c) ==
    /\ chunks[c] < MaxChunks
    /\ Complete(c, "read", "read")
    /\ chunks' = [chunks EXCEPT ![c] = @ + 1]
    /\ Begin("voice", c)
    /\ UNCHANGED <<state, request, voice, completeFlag, mrcp, media, queue, active, early,
                   other, loop, delivered, phase, crashed>>

\* proceed(read) without one: Finish() asks for the status.
LastRead(c) ==
    /\ Complete(c, "read", "finish")
    /\ UNCHANGED <<state, request, voice, completeFlag, mrcp, media, worker, queue, active,
                   chunks, early, other, loop, delivered, phase, crashed>>

\* proceed(finish): the callback is on_voice() or on_error(), according to the status.
EndCall(c, status) ==
    /\ Complete(c, "finish", status)
    /\ Begin(status, c)
    /\ early' = IF status = "error" /\ active[c] /\ Starting /\ c = synthesisRequest
                THEN early \cup {c} ELSE early
    /\ UNCHANGED <<state, request, voice, completeFlag, mrcp, media, queue, active, chunks, other,
                   loop, delivered, phase, crashed>>

At(step) == Running /\ worker.at = step

\* on_voice() with audio takes the flag down ...
OnVoice ==
    /\ At("voice")
    /\ completeFlag' = FALSE
    /\ worker' = [worker EXCEPT !.at = "append"]
    /\ UNCHANGED <<state, request, voice, mrcp, media, queue, grpc, other, loop, delivered, phase,
                   crashed>>

\* ... and appends, when it gets the lock.
OnVoiceAppend(length) ==
    /\ At("append")
    /\ media # "complete"
    /\ owner' = owner \o [i \in 1 .. length |-> worker.conn]
    /\ voiceBuffer' = voiceBuffer \o [i \in 1 .. length |-> Len(owner) + i]
    /\ worker' = Idle
    /\ UNCHANGED <<state, request, completeFlag, mrcp, media, queue, grpc, played, other,
                   loop, delivered, phase, crashed>>

\* Mutant of OnVoiceEnd: the end of the call is not noted.
EndIgnored ==
    /\ At("ok")
    /\ worker' = Idle
    /\ UNCHANGED <<state, request, voice, completeFlag, mrcp, media, queue, grpc, other,
                   loop, delivered, phase, crashed>>

\* on_voice() at the end of the call.
OnVoiceEnd ==
    /\ At("ok")
    /\ completeFlag' = TRUE
    /\ worker' = Idle
    /\ UNCHANGED <<state, request, voice, mrcp, media, queue, grpc, other, loop, delivered, phase,
                   crashed>>

\* on_error(): the stop is scheduled, then SPEAK-COMPLETE with the error is posted.
OnError ==
    /\ At("error")
    /\ Post(Stop)
    /\ worker' = [worker EXCEPT !.at = "failed"]
    /\ UNCHANGED <<state, request, voice, completeFlag, mrcp, media, grpc, other, loop, delivered,
                   phase, crashed>>

SendErrorEvent ==
    /\ At("failed")
    /\ queue' = IF synthesisRequest = None THEN queue
                ELSE Append(queue, Send("error", synthesisRequest))
    /\ worker' = Idle
    /\ UNCHANGED <<state, request, voice, completeFlag, mrcp, media, grpc, other, loop, delivered,
                   phase, crashed>>

-----------------------------------------------------------------------------

Client ==
    \/ OnOpen
    \/ OnClose
    \/ ProcessOther
    \/ ProcessSynthesis
    \/ ProcessStop

Mrcp ==
    \/ StartConnection
    \/ StoreConnection
    \/ SetSynthesis
    \/ RespondInProgress
    \/ RespondStop

EventLoop == RunStop \/ RunIdle \/ RunSend

Media ==
    \/ Tick
    \/ Fill
    \/ CheckState
    \/ CheckSynthComplete
    \/ SendResultEvent

Advance(c) ==
    \/ StartCall(c)
    \/ LastRead(c)
    \/ \E status \in {"ok", "error"} : EndCall(c, status)

Proceed == \E c \in Speak : Chunk(c) \/ Advance(c)

Worker ==
    \/ OnVoice
    \/ \E length \in ChunkLengths : OnVoiceAppend(length)
    \/ OnVoiceEnd
    \/ OnError
    \/ SendErrorEvent

Next == Client \/ Mrcp \/ EventLoop \/ Media \/ Proceed \/ Worker

Spec == Init /\ [][Next]_vars

(***************************************************************************)
(* Fairness: every thread is scheduled, media ticks keep coming, and the     *)
(* service ends every call.                                                  *)
(***************************************************************************)
FairSpec ==
    /\ Spec
    /\ WF_vars(Mrcp)
    /\ WF_vars(EventLoop)
    /\ WF_vars(Media)
    /\ WF_vars(Worker)
    /\ \A c \in Speak : WF_vars(Advance(c))

-----------------------------------------------------------------------------
(* Properties.                                                              *)

Message == {"opened", "closed", "response", "inprogress", "none"} \cup Final
Closure == [kind : {"send", "stop"}, message : Message, request : 0 .. MaxSpeaks]

TypeOK ==
    /\ state \in {"idle", "synthesis"}
    /\ connection \in 0 .. Garbage
    /\ synthesisRequest \in 0 .. MaxSpeaks
    /\ voiceBuffer \in Seq(Nat)
    /\ completeFlag \in BOOLEAN
    /\ mrcp \in {"idle", "accepted", "calling", "stored", "started", "stopping"}
    /\ media \in {"idle", "fill", "filled", "check", "complete"}
    /\ worker \in [at : {"next", "voice", "append", "ok", "error", "failed"}, conn : 0 .. MaxSpeaks]
    /\ loop \in {"next", "idle"}
    /\ queue \in Seq(Closure)
    /\ active \in [Speak -> BOOLEAN]
    /\ call \in [Speak -> {"none", "start_call", "read", "finish", "ok", "error", "dropped"}]
    /\ chunks \in [Speak -> 0 .. MaxChunks]
    /\ early \in SUBSET Speak
    /\ owner \in Seq(Speak)
    /\ played \in Seq(Nat)
    /\ other \in 0 .. MaxOther
    /\ delivered \in Seq(Closure)
    /\ phase \in {"created", "opening", "open", "closing", "destroyed"}
    /\ crashed \in BOOLEAN

\* Everything the client was sent or will be, in order.
Posted == delivered \o queue

\* The audio the service sent is played in order, without a gap and without a repetition,
\* whichever way the callbacks, the ticks, stops and further SPEAKs fall.  What the first SPEAK
\* left behind, and the message that was being handled, come before the audio of the second one:
\* its connection was disabled, or its call was over, before the client was told its outcome.
\* (A third SPEAK's audio may be mixed with the second one's: a tick of the first SPEAK can
\* complete the second one while its call is being made, with a stop that misses it.)
AudioInOrder ==
    /\ played \o voiceBuffer = [n \in 1 .. Len(owner) |-> n]
    /\ synthesisRequest <= 2 => \A m, n \in DOMAIN owner : m < n => owner[m] <= owner[n]

\* A normal SPEAK-COMPLETE means that the service had ended the call and that all the
\* audio it sent for the request was played.
CompleteMeansPlayed ==
    \A i \in DOMAIN Posted :
        Posted[i].message = "complete" =>
            LET r == Posted[i].request
            IN  /\ call[r] = "ok"
                /\ \A n \in DOMAIN owner : owner[n] = r => n <= Len(played)

Outcomes(r) == {i \in DOMAIN Posted : Posted[i].request = r /\ Posted[i].message \in Final}

\* A stop that is left in the queue disables the connection of the next SPEAK, or makes the
\* channel idle under it, and that SPEAK is never played nor completed.  It takes a request
\* that was given two outcomes, or a stop whose outcome is just being posted: as ticks
\* complete a SPEAK again until its stop has run, no STOP of the client is needed.
SilencedByLeftoverStop ==
    \A r \in Speak :
        (synthesisRequest = r /\ mrcp = "idle" /\ ~(active[r] /\ state = "synthesis"))
            => \/ Outcomes(r) # {}
               \/ media = "complete" \/ worker.at = "failed"
               \/ \E q \in Speak : q < r /\ Cardinality(Outcomes(q)) >= 2

\* Once the first outcome of a SPEAK is delivered the channel is idle and its connection
\* disabled, so a later call can neither add audio nor complete anything in its name.  (The
\* exception is a call that failed while process_synthesis() was under way: its stop may run
\* before the connection is stored and the state set, and both are left as if it went on.)
OutcomeMeansIdle ==
    \A r \in Speak \ early : (Finished(r) /\ synthesisRequest = r)
        => ~active[r] /\ (state = "idle" \/ mrcp # "idle")

\* The pointer that the constructor leaves as the memory was is followed only by the stop of a
\* first call that fails before start_synthesis() has stored its connection: no tick, and no
\* STOP, comes to it.
NoWildPointer == crashed => 1 \in early

\* Every SPEAK comes to an outcome, or the module crashes on the way.
EverySpeakCompletes == InProgress ~> (~InProgress \/ crashed)
==============================================================================
