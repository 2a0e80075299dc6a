-------------------------- MODULE RecognitionChannel --------------------------
(***************************************************************************)
(* smartspeech::mrcp::recognition::channel, the MRCP recogniser of one       *)
(* session (mrcp/recognition/channel.cpp).                                   *)
(*                                                                          *)
(* Four threads share the object without a lock:                             *)
(*   - the MRCP thread runs on_message(), on_open() and on_close();          *)
(*   - the media thread runs on_voice() for every frame;                     *)
(*   - the gRPC worker runs on_result() and on_error();                      *)
(*   - the event loop runs, in order, the closures the others post to it.    *)
(* Each statement that reads or writes shared state is a step of its own.    *)
(*                                                                          *)
(* The n-th RECOGNIZE is request n and its gRPC connection is connection n.   *)
(* A connection is known here by its active_ and writes_done_ flags, how far *)
(* its call has come and what it reported; it calls back whenever its        *)
(* contract, RecognitionCallbacks, which RecognitionConnection implements,   *)
(* lets it, whatever the other threads are doing.                            *)
(*                                                                          *)
(* The UniMRCP server and its client are the environment: a RECOGNIZE        *)
(* reaches the channel when no other one is in progress, the channel is      *)
(* closed when none is, and is destroyed once it answered the close.         *)
(***************************************************************************)
EXTENDS Naturals, Sequences, FiniteSets

CONSTANTS
    MaxRequests,        \* RECOGNIZE requests in a session
    MaxOther,           \* requests of the other methods in a session
    MaxPartials,        \* partial results of a call
    MaxFrames,          \* audio frames of a session
    FeedThreshold,      \* frames in 1600 bytes
    StopAllowed,        \* the client uses STOP
    MaxDisturbed        \* connections of a session that call back early or twice

ASSUME ChannelAssumption ==
    /\ MaxRequests \in Nat /\ MaxOther \in Nat /\ MaxPartials \in Nat /\ MaxFrames \in Nat
    /\ FeedThreshold \in Nat \ {0}
    /\ StopAllowed \in BOOLEAN /\ MaxDisturbed \in Nat

VARIABLES
    state,              \* state_
    connection,         \* smartspeech_grpc_recognition_connection_
    recognizeRequest,   \* recognize_request_
    audioBuffer,        \* audio_buffer_: per frame, the request current when it came
    mrcp,               \* where the MRCP thread is in process_recognize()
    media,              \* where the media thread is in on_voice()
    worker,             \* where the gRPC worker is in a callback, and of what event
    loop,               \* where the event loop is in stop_recognize()
    queue,              \* closures posted to the event loop
    active,             \* active_ of every connection
    stopping,           \* writes_done_ of every connection
    call,               \* how far the call of every connection has come
    results,            \* results the worker called back with
    errors,             \* errors the worker called back with
    answered,           \* the connections whose call has sent its result with eou
    early,              \* history: connections that called back inside process_recognize()
    fed,                \* history: the frames fed to every connection
    frames,             \* frames so far, bounded by MaxFrames
    other,              \* other requests so far, bounded by MaxOther
    delivered,          \* history: what the client was sent
    phase,              \* life of the channel
    crashed             \* a pointer nobody initialised was followed

shared == <<state, connection, recognizeRequest>>
audio == <<audioBuffer, media, fed, frames>>
flags == <<active, stopping>>
service == <<call, results, errors, answered, early>>
grpc == <<flags, service>>
vars == <<state, connection, recognizeRequest, audioBuffer, mrcp, media, worker, loop, queue,
          active, stopping, call, results, errors, answered, early, fed, frames, other, delivered, phase,
          crashed>>

Request == 1 .. MaxRequests
None == 0
Garbage == MaxRequests + 1      \* what the uninitialised pointer may hold

(***************************************************************************)
(* Closures and messages.  `from' is the connection a closure was posted    *)
(* for, None when it answers the client; only properties look at it.        *)
(***************************************************************************)
Send(message, request, from) ==
    [kind |-> "send", message |-> message, request |-> request, from |-> from]
StopFor(from) ==
    [kind |-> "stop", message |-> "none", request |-> None, from |-> from]

Post(closure) == queue' = Append(queue, closure)

Final == {"complete", "error", "stopped"}

Finished(r) ==
    \E i \in DOMAIN delivered : delivered[i].request = r /\ delivered[i].message \in Final

Idle == [at |-> "next", conn |-> None, eou |-> FALSE]

\* The constructor leaves smartspeech_grpc_recognition_connection_ as the memory was.
Init ==
    /\ state = "idle"
    /\ connection \in {None, Garbage}
    /\ recognizeRequest = None
    /\ audioBuffer = <<>>
    /\ mrcp = "idle"
    /\ media = "idle"
    /\ worker = Idle
    /\ loop = "next"
    /\ queue = <<>>
    /\ active = [c \in Request |-> FALSE]
    /\ stopping = [c \in Request |-> FALSE]
    /\ call = [c \in Request |-> "none"]
    /\ results = [c \in Request |-> 0]
    /\ errors = [c \in Request |-> 0]
    /\ answered = {}
    /\ early = {}
    /\ fed = [c \in Request |-> <<>>]
    /\ frames = 0
    /\ other = 0
    /\ delivered = <<>>
    /\ phase = "created"
    /\ crashed = FALSE

Running == ~crashed /\ phase # "destroyed"

-----------------------------------------------------------------------------
(* The MRCP thread.                                                         *)

Ready == Running /\ phase = "open" /\ mrcp = "idle"

InProgress == recognizeRequest # None /\ ~Finished(recognizeRequest)

\* on_open() and on_close() only have the event loop answer.  UniMRCP detaches the media
\* thread from a channel before it closes it.
OnOpen ==
    /\ Running
    /\ phase = "created"
    /\ phase' = "opening"
    /\ Post(Send("opened", None, None))
    /\ UNCHANGED <<shared, audio, mrcp, worker, grpc, other, loop, delivered, crashed>>

OnClose ==
    /\ Ready
    /\ ~InProgress
    /\ media = "idle"
    /\ phase' = "closing"
    /\ Post(Send("closed", None, None))
    /\ UNCHANGED <<shared, audio, mrcp, worker, grpc, other, loop, delivered, crashed>>

\* SET-PARAMS, DEFINE-GRAMMAR and the methods on_message() does not know are answered at
\* once.  The parameters and the grammar they leave are not read by anything modelled here.
ProcessOther ==
    /\ Ready
    /\ other < MaxOther
    /\ other' = other + 1
    /\ Post(Send("response", None, None))
    /\ UNCHANGED <<shared, audio, mrcp, worker, grpc, loop, delivered, phase, crashed>>

\* process_recognize(), statement by statement: recognize_request_ = request ...
ProcessRecognize ==
    /\ Ready
    /\ ~InProgress
    /\ recognizeRequest < MaxRequests
    /\ recognizeRequest' = recognizeRequest + 1
    /\ mrcp' = "accepted"
    /\ UNCHANGED <<state, connection, audio, worker, queue, grpc, other, loop, delivered,
                   phase, crashed>>

\* ... start_recognition_connection() starts the call ...
StartConnection ==
    /\ Running
    /\ mrcp = "accepted"
    /\ active' = [active EXCEPT ![recognizeRequest] = TRUE]
    /\ call' = [call EXCEPT ![recognizeRequest] = "open"]
    /\ mrcp' = "calling"
    /\ UNCHANGED <<shared, audio, worker, queue, stopping, results, errors, answered, early,
                   other, loop, delivered, phase, crashed>>

\* ... the pointer is stored ...
StoreConnection ==
    /\ Running
    /\ mrcp = "calling"
    /\ connection' = recognizeRequest
    /\ mrcp' = "stored"
    /\ UNCHANGED <<state, recognizeRequest, audio, worker, queue, grpc, other, loop, delivered,
                   phase, crashed>>

\* Mutant of SetWaitingVad: only a channel that is idle begins to wait.
WaitingFromIdle ==
    /\ Running
    /\ mrcp = "stored"
    /\ state' = IF state = "idle" THEN "waiting_vad" ELSE state
    /\ mrcp' = "started"
    /\ UNCHANGED <<connection, recognizeRequest, audio, worker, queue, grpc, other, loop,
                   delivered, phase, crashed>>

\* ... state_ = waiting_vad ...
SetWaitingVad ==
    /\ Running
    /\ mrcp = "stored"
    /\ state' = "waiting_vad"
    /\ mrcp' = "started"
    /\ UNCHANGED <<connection, recognizeRequest, audio, worker, queue, grpc, other, loop,
                   delivered, phase, crashed>>

\* ... and the IN-PROGRESS response is posted.
RespondInProgress ==
    /\ Running
    /\ mrcp = "started"
    /\ Post(Send("inprogress", recognizeRequest, None))
    /\ mrcp' = "idle"
    /\ UNCHANGED <<shared, audio, worker, grpc, other, loop, delivered, phase, crashed>>

(***************************************************************************)
(* stop_recognize(): writes_done() and then disable(), each on whatever     *)
(* connection the pointer holds by then.  The event loop runs it for the     *)
(* closure shedule_stop_recognize() posted, the MRCP thread for a STOP.      *)
(***************************************************************************)
CallWritesDone == stopping' = [c \in Request |-> stopping[c] \/ c = connection]
CallDisable == active' = [c \in Request |-> active[c] /\ c # connection]

\* (UniMRCP hands a STOP on only while a RECOGNIZE is in progress.)
ProcessStop ==
    /\ Ready
    /\ StopAllowed
    /\ InProgress
    /\ other < MaxOther
    /\ other' = other + 1
    /\ CallWritesDone
    /\ mrcp' = "stopping"
    /\ UNCHANGED <<shared, audio, worker, queue, active, service, loop, delivered, phase,
                   crashed>>

\* process_stop() builds its response from `response->pool', and `response' is the variable
\* being initialised: either the wild pointer faults, or the response is built after all.
RespondStop ==
    /\ Running
    /\ mrcp = "stopping"
    /\ CallDisable
    /\ Post(Send("stopped", recognizeRequest, None))
    /\ mrcp' = "idle"
    /\ crashed' \in BOOLEAN
    /\ UNCHANGED <<shared, audio, worker, stopping, service, other, loop, delivered, phase>>

-----------------------------------------------------------------------------
(* The event loop.                                                          *)

RunStop ==
    /\ Running
    /\ loop = "next"
    /\ queue # <<>> /\ Head(queue).kind = "stop"
    /\ queue' = Tail(queue)
    /\ CallWritesDone
    /\ loop' = IF connection = None THEN "next" ELSE "disable"
    /\ crashed' = (connection = Garbage)
    /\ UNCHANGED <<shared, audio, mrcp, worker, active, service, other, delivered, phase>>

RunDisable ==
    /\ Running
    /\ loop = "disable"
    /\ CallDisable
    /\ loop' = "next"
    /\ UNCHANGED <<shared, audio, mrcp, worker, queue, stopping, service, other, delivered, phase,
                   crashed>>

\* mrcp_engine_channel_message_send(), open_respond() and close_respond(): UniMRCP
\* destroys the channel after the last.
RunSend ==
    /\ Running
    /\ loop = "next"
    /\ queue # <<>> /\ Head(queue).kind = "send"
    /\ queue' = Tail(queue)
    /\ delivered' = Append(delivered, Head(queue))
    /\ phase' = CASE Head(queue).message = "opened" -> "open"
                  [] Head(queue).message = "closed" -> "destroyed"
                  [] OTHER -> phase
    /\ UNCHANGED <<shared, audio, mrcp, worker, loop, grpc, other, crashed>>

-----------------------------------------------------------------------------
(* The media thread: on_voice().                                            *)

\* Mutant of OnVoice: frames are kept in the idle state too.
OnVoiceAlways ==
    /\ Running
    /\ phase = "open"
    /\ media = "idle"
    /\ frames < MaxFrames
    /\ frames' = frames + 1
    /\ audioBuffer' = Append(audioBuffer, recognizeRequest)
    /\ media' = "appended"
    /\ UNCHANGED <<shared, mrcp, worker, queue, grpc, fed, other, loop, delivered, phase,
                   crashed>>

\* The frame is dropped while the channel is idle and appended otherwise ...
OnVoice ==
    /\ Running
    /\ phase = "open"
    /\ media = "idle"
    /\ frames < MaxFrames
    /\ state # "idle"
    /\ frames' = frames + 1
    /\ audioBuffer' = Append(audioBuffer, recognizeRequest)
    /\ media' = "appended"
    /\ UNCHANGED <<shared, mrcp, worker, queue, grpc, fed, other, loop, delivered, phase,
                   crashed>>

\* Mutant of OnVoiceFeed: the buffer is kept.
FeedWithoutClear ==
    /\ Running
    /\ media = "appended"
    /\ media' = "idle"
    /\ IF connection # None /\ Len(audioBuffer) >= FeedThreshold
       THEN /\ fed' = [c \in Request |-> fed[c] \o (IF c = connection THEN audioBuffer ELSE <<>>)]
            /\ crashed' = (connection = Garbage)
       ELSE UNCHANGED <<fed, crashed>>
    /\ UNCHANGED <<shared, audioBuffer, frames, mrcp, worker, queue, grpc, other, loop,
                   delivered, phase>>

\* ... and once 1600 bytes have come they all go to the connection, if there is one.
OnVoiceFeed ==
    /\ Running
    /\ media = "appended"
    /\ media' = "idle"
    /\ IF connection # None /\ Len(audioBuffer) >= FeedThreshold
       THEN /\ fed' = [c \in Request |-> fed[c] \o (IF c = connection THEN audioBuffer ELSE <<>>)]
            /\ audioBuffer' = <<>>
            /\ crashed' = (connection = Garbage)
       ELSE UNCHANGED <<fed, audioBuffer, crashed>>
    /\ UNCHANGED <<shared, frames, mrcp, worker, queue, grpc, other, loop, delivered, phase>>

-----------------------------------------------------------------------------
(* The gRPC worker.  It looks at active_ and then runs one callback to the   *)
(* end before it takes the next event of any connection.                     *)

Contract(c) == INSTANCE RecognitionCallbacks WITH
    life <- IF call[c] = "none" THEN "new" ELSE IF active[c] THEN "active" ELSE "disabled",
    stopping <- stopping[c], reading <- call[c] # "ended",
    results <- results[c], errors <- errors[c]

\* The MRCP thread is inside process_recognize().
Starting == mrcp \in {"accepted", "calling", "stored", "started"}

\* The callback `at' of connection c begins.  (The events of a connection that is not active
\* are dropped, which nothing here could tell from their not coming.)
Begin(at, c, eou) ==
    /\ Running
    /\ worker = Idle
    /\ worker' = [at |-> at, conn |-> c, eou |-> eou]
    /\ early' = IF Starting THEN early \cup {c} ELSE early
    /\ UNCHANGED <<shared, audio, mrcp, queue, flags, other, loop, delivered, phase, crashed>>

\* Outcomes reported by a call: a status that follows the result may be a second one.
Reports(c) == errors[c] + (IF c \in answered THEN 1 ELSE 0)

\* The connections that called back inside process_recognize() or reported two outcomes.
Disturbed == early \cup {c \in Request : Reports(c) > 1}

\* The contract allows any number of results.  Of the service it is assumed here that it sends
\* one with eou and nothing after it, because enable_multi_utterance is off.
Result(c, eou) ==
    /\ Begin("vad", c, eou)
    /\ c \notin answered
    /\ eou \/ results[c] < MaxPartials
    /\ answered' = IF eou THEN answered \cup {c} ELSE answered
    /\ results' = [results EXCEPT ![c] = @ + 1]
    /\ UNCHANGED <<call, errors>>
    /\ Contract(c)!Result
    /\ Cardinality(Disturbed') <= MaxDisturbed

\* The call is refused or breaks, before or after its result; after writes_done() its status
\* may be reported twice, once with messages still to come.
Error(c) ==
    /\ Begin("error", c, FALSE)
    /\ errors' = [errors EXCEPT ![c] = @ + 1]
    /\ call' \in {call, [call EXCEPT ![c] = "ended"]}
    /\ UNCHANGED <<results, answered>>
    /\ Contract(c)!Error
    /\ Cardinality(Disturbed') <= MaxDisturbed

At(step) == Running /\ worker.at = step

\* on_result(): the first result of a request announces the start of input ...
OnResultVad ==
    /\ At("vad")
    /\ \/ /\ state = "waiting_vad"
          /\ Post(Send("startofinput", recognizeRequest, worker.conn))
          /\ worker' = [worker EXCEPT !.at = "recognizing"]
       \/ /\ state # "waiting_vad"
          /\ worker' = [worker EXCEPT !.at = "eou"]
          /\ UNCHANGED queue
    /\ UNCHANGED <<shared, audio, mrcp, grpc, other, loop, delivered, phase, crashed>>

\* Mutant of OnResultRecognizing: the state is left as it was.
StateNotAdvanced ==
    /\ At("recognizing")
    /\ worker' = [worker EXCEPT !.at = "eou"]
    /\ UNCHANGED <<shared, audio, mrcp, queue, grpc, other, loop, delivered, phase, crashed>>

OnResultRecognizing ==
    /\ At("recognizing")
    /\ state' = "recognizing"
    /\ worker' = [worker EXCEPT !.at = "eou"]
    /\ UNCHANGED <<connection, recognizeRequest, audio, mrcp, queue, grpc, other, loop, delivered,
                   phase, crashed>>

\* Mutant of OnResultEou: the stop is scheduled after the event.
CompleteBeforeStop ==
    /\ At("eou")
    /\ IF state = "recognizing" /\ worker.eou
       THEN queue' = queue \o <<Send("complete", recognizeRequest, worker.conn),
                                StopFor(worker.conn)>>
       ELSE UNCHANGED queue
    /\ worker' = Idle
    /\ UNCHANGED <<shared, audio, mrcp, grpc, other, loop, delivered, phase, crashed>>

\* ... and the one with eou schedules the stop of the connection ...
OnResultEou ==
    /\ At("eou")
    /\ \/ /\ state = "recognizing" /\ worker.eou
          /\ Post(StopFor(worker.conn))
          /\ worker' = [worker EXCEPT !.at = "complete"]
       \/ /\ ~(state = "recognizing" /\ worker.eou)
          /\ worker' = Idle
          /\ UNCHANGED queue
    /\ UNCHANGED <<shared, audio, mrcp, grpc, other, loop, delivered, phase, crashed>>

\* ... before it posts RECOGNITION-COMPLETE for the current request.
SendResultEvent ==
    /\ At("complete")
    /\ Post(Send("complete", recognizeRequest, worker.conn))
    /\ worker' = Idle
    /\ UNCHANGED <<shared, audio, mrcp, grpc, other, loop, delivered, phase, crashed>>

\* on_error(): the same two steps, whatever the state.
OnError ==
    /\ At("error")
    /\ Post(StopFor(worker.conn))
    /\ worker' = [worker EXCEPT !.at = "failed"]
    /\ UNCHANGED <<shared, audio, mrcp, grpc, other, loop, delivered, phase, crashed>>

SendErrorEvent ==
    /\ At("failed")
    /\ Post(Send("error", recognizeRequest, worker.conn))
    /\ worker' = Idle
    /\ UNCHANGED <<shared, audio, mrcp, grpc, other, loop, delivered, phase, crashed>>

-----------------------------------------------------------------------------

Mrcp ==
    \/ StartConnection
    \/ StoreConnection
    \/ SetWaitingVad
    \/ RespondInProgress
    \/ RespondStop

Worker ==
    \/ OnResultVad
    \/ OnResultRecognizing
    \/ OnResultEou
    \/ SendResultEvent
    \/ OnError
    \/ SendErrorEvent

EventLoop == RunStop \/ RunDisable \/ RunSend

Client ==
    \/ OnOpen
    \/ OnClose
    \/ ProcessOther
    \/ ProcessRecognize
    \/ ProcessStop

Service == \E c \in Request : Error(c) \/ \E eou \in BOOLEAN : Result(c, eou)

Next == Mrcp \/ Worker \/ EventLoop \/ Client \/ Service \/ OnVoice \/ OnVoiceFeed

Spec == Init /\ [][Next]_vars

(***************************************************************************)
(* Fairness: the threads are scheduled, and the service ends every call it   *)
(* was asked for with a result or an error.  It owes no second outcome.      *)
(***************************************************************************)
FairSpec ==
    /\ Spec
    /\ WF_vars(Mrcp)
    /\ WF_vars(Worker)
    /\ WF_vars(EventLoop)
    /\ \A c \in Request : WF_vars(Reports(c) = 0 /\ (Error(c) \/ Result(c, TRUE)))

-----------------------------------------------------------------------------
(* Properties.                                                              *)

Message == {"opened", "closed", "response", "inprogress", "startofinput"} \cup Final
Answer == [kind : {"send"}, message : Message, request : 0 .. MaxRequests, from : 0 .. MaxRequests]
Closure == Answer \cup [kind : {"stop"}, message : {"none"}, request : {None}, from : Request]

TypeOK ==
    /\ state \in {"idle", "waiting_vad", "recognizing"}
    /\ connection \in 0 .. Garbage
    /\ recognizeRequest \in 0 .. MaxRequests
    /\ audioBuffer \in Seq(0 .. MaxRequests)
    /\ mrcp \in {"idle", "accepted", "calling", "stored", "started", "stopping"}
    /\ media \in {"idle", "appended"}
    /\ worker \in [at : {"next", "vad", "recognizing", "eou", "complete", "error", "failed"},
                   conn : 0 .. MaxRequests, eou : BOOLEAN]
    /\ queue \in Seq(Closure)
    /\ loop \in {"next", "disable"}
    /\ active \in [Request -> BOOLEAN]
    /\ stopping \in [Request -> BOOLEAN]
    /\ call \in [Request -> {"none", "open", "ended"}]
    /\ results \in [Request -> 0 .. MaxPartials + 1]
    /\ errors \in [Request -> 0 .. 2]
    /\ answered \in SUBSET Request
    /\ early \in SUBSET Request
    /\ fed \in [Request -> Seq(0 .. MaxRequests)]
    /\ frames \in 0 .. MaxFrames
    /\ other \in 0 .. MaxOther
    /\ delivered \in Seq(Answer)
    /\ phase \in {"created", "opening", "open", "closing", "destroyed"}
    /\ crashed \in BOOLEAN

\* Everything the client was sent or will be, in order.
Posted == delivered \o queue

Positions(messages, r) ==
    {i \in DOMAIN Posted : Posted[i].request = r /\ Posted[i].message \in messages}

\* What disturbs request r other than a STOP: it or an earlier one was called back inside
\* process_recognize(), or an earlier call reported two outcomes.
CalmUntil(r) == \A c \in Disturbed : c > r \/ (c = r /\ c \notin early)

Calm == Disturbed = {}

\* state_ belongs to the channel and is never idle again: it is set by the MRCP thread and by the
\* gRPC worker, a request after the other.  Nevertheless the start of input of a RECOGNIZE is
\* announced once, and before its result, unless a callback came inside process_recognize()
\* or a call reported two outcomes.
AnnouncedOnce ==
    Calm => \A r \in Request :
        /\ Cardinality(Positions({"startofinput"}, r)) <= 1
        /\ \A i \in Positions({"complete"}, r) :
               \E j \in Positions({"startofinput"}, r) : j < i

\* A scheduled stop acts on the connection that is current when it runs: by then no other
\* request has taken the place of the one it was scheduled for.  So, when the client learns
\* that its request is complete, the connection can no longer call back, and when the
\* channel is destroyed no callback and no stop is left that would use it; with the same two
\* exceptions, of which either leaves a stop or a connection behind.
CompletedIsQuiet ==
    Calm =>
        /\ \A i \in DOMAIN queue : queue[i].kind = "stop" => connection = queue[i].from
        /\ \A r \in Request : Finished(r) => ~active[r] /\ worker.conn # r
        /\ phase = "destroyed" => /\ worker = Idle /\ loop = "next"
                                  /\ \A c \in Request : ~active[c]
                                  /\ \A i \in DOMAIN queue : queue[i].kind # "stop"

\* At most FeedThreshold frames from before a RECOGNIZE reach its connection, at its
\* beginning, although state_ never becomes idle again and the buffer is never cleared.
\* (All of FeedThreshold: the pointer may change between the append and the feed.)
StaleAudioBounded ==
    \A c \in Request :
        /\ Cardinality({i \in DOMAIN fed[c] : fed[c][i] < c}) <= FeedThreshold
        /\ \A i, j \in DOMAIN fed[c] : i < j => fed[c][i] <= fed[c][j]

StoppedBefore(r) ==
    \E i \in DOMAIN Posted : Posted[i].message = "stopped" /\ Posted[i].request < r

\* Events name the current request and not the one their connection was made for, and a
\* scheduled stop acts on the current connection.  Only a STOP, a second outcome of a call or a
\* callback inside process_recognize() makes it another one: until one of them happened to an
\* earlier request (or the last to r), every event that names request r comes from its
\* connection, and that connection is not silenced before r is answered, nor before it was told
\* that no more audio comes.  (A callback under way when its request is stopped, or a late
\* error, may complete the request that comes next; or the stop it scheduled reads the pointer
\* to the next connection, for both calls or for disable() alone, and nothing completes that
\* request.)
HarmIsExplained ==
    \A r \in Request : CalmUntil(r) /\ ~StoppedBefore(r) =>
        /\ \A i \in DOMAIN Posted :
               (Posted[i].request = r /\ Posted[i].from # None) => Posted[i].from = r
        /\ (call[r] # "none" /\ ~active[r]) =>
               stopping[r] /\ (Positions(Final, r) # {} \/ worker.conn = r)

\* process_stop() answers the request (README: STOP is implemented).
StopIsAnswered == crashed => \A i \in DOMAIN Posted : Posted[i].message # "stopped"

\* The connection pointer is not initialised by the constructor.  Only an event that came while
\* the first process_recognize() was still to store it has somebody follow it.
NoWildPointer == crashed => 1 \in early

\* Every RECOGNIZE is completed, unless it is disturbed (a result that comes inside
\* process_recognize() may find state_ idle and be dropped; the stop of a second outcome may
\* silence the request after), an earlier one was stopped or process_stop() has faulted.
EveryRecognizeCompletes ==
    \A r \in Request : recognizeRequest = r ~>
        Finished(r) \/ ~CalmUntil(r) \/ StoppedBefore(r) \/ crashed
==============================================================================
