# TLA+ models of salute-speech

The repository holds the UniMRCP plugins of the SaluteSpeech recognition and synthesis services
(`mrcp/`, C++) and sample clients of the gRPC API (`recognition/`, `synthesis/`, `task/`; C++,
Python, Node.js, Kotlin). The plugins are the program proper: four threads share unlocked state,
talk to a remote service over asynchronous gRPC and answer a telephony server. The models start
there. `PROJECT.json` lists components, runs, hazards and theorems in machine-readable form and
maps every definition to the lines it stands for.

## Inventory

| component | state | operations | talks to |
|---|---|---|---|
| recognition connection and worker loop, `mrcp/grpc_client/client.cpp` | `active_`, `write_pending_`, `writes_done_`, `internal_buffer_`, the tags on the completion queue | `feed`, `writes_done`, `disable`, `proceed` (start_call, write, read, writes_done, finish, alarm) | called by the channel; calls back `on_result_cb_`, `on_error_cb_`; gRPC completion queue |
| synthesis connection, same file | `active_`, one read or finish tag | constructor, `proceed` | calls back the synthesis channel |
| token resolver, `mrcp/grpc_client/token_resolver.cpp` | `token_`, `keep_`, `m_`, `cv_` | `worker_proc`, `fetch_token`, `get_token`, destructor | HTTP (libcurl); read by `authenticator` for every call |
| recognition channel, `mrcp/recognition/channel.cpp` | `state_`, connection pointer, `recognize_request_`, `audio_buffer_` | `on_message` (SET-PARAMS, DEFINE-GRAMMAR, RECOGNIZE, STOP), `on_open`, `on_close`, `on_voice`, `on_result`, `on_error`, the stop closure | UniMRCP, event loop, recognition connection |
| synthesis channel, `mrcp/synthesis/channel.cpp` | `state_`, connection pointer, `synthesis_request_`, `voice_buffer_`, `synth_complete_flag_` | `on_message` (SET-PARAMS, SPEAK, STOP, BARGE-IN-OCCURRED), `on_open`, `on_close`, `on_voice`, `on_error`, `feel_voice_buffer`, `check_synth_comlete`, the stop closure | UniMRCP, event loop, synthesis connection |
| event loop, `engine.cpp` of both plugins | a first-in first-out queue of closures | `event_loop_proceed` | runs what the channels post |
| engines, `mrcp/*/engine.cpp` | configuration, client, token resolver, event loop | open, close, destroy, create_channel | UniMRCP |
| parameter conversion, `update_mrcp_params` | `mrcp_params_` | seconds or milliseconds to `int32_t` | nobody: its result reaches no decision and is not sent at this commit |
| C++ recognition samples, `recognition/v1/cpp`, `recognition/v2/cpp` | as the recognition connection, without `active_` | `main`, `feed`, `writes_done`, `proceed` | the service |
| C++ synthesis sample, `synthesis/v1/cpp` | `finish`, the output file | `main`, `proceed` | the service |
| Python task clients, `task.py`, `recognize_async.py`, `synthesize_async.py` | the task seen last, the output file | upload, create, poll, download, cancel | the service; each other through the tasks |
| Python streaming, Node.js and Kotlin clients | none of their own | one loop over a stream | the service |
| protocols, build, packaging; UniMRCP, gRPC, libcurl | external | | |

Threads of a plugin: the **MRCP** thread runs `on_message`, `on_open` and `on_close`; the **media**
thread runs `on_voice` (recognition) or the two functions of a tick (synthesis) every 10 ms; the
**gRPC worker** runs every callback of every connection, one after the other; the **event loop** runs
the posted closures in order; the **token worker** refreshes the token.

What is hard here: callbacks of the worker against requests of the MRCP thread without a lock; a
stop that is scheduled and acts later on whatever connection is current; operations of one gRPC call
that must not overlap; a condition variable used with an unlocked lock; pointers nobody
initialises; destruction while closures or tags are left. What makes each component correct is listed
with its module below; the hazards, at their lines, are in `PROJECT.json`.

## Modules

| module | models |
|---|---|
| `AudioStream` | abstract: the audio of a call goes out in order, without gaps or repetitions, and never after the sending direction was closed |
| `RecognitionCallbacks` | abstract: when a recognition connection may call back the channel that owns it |
| `RecognitionConnection` | one recognition connection, its three callers' threads and the worker; implements `AudioStream` and `RecognitionCallbacks` |
| `RecognitionChannel` | the MRCP recogniser of a session with its event loop and one connection per request, each calling back as `RecognitionCallbacks` allows |
| `SynthesisChannel` | the MRCP synthesiser of a session with its event loop, the media tick and one connection per request |
| `TokenResolver` | worker, readers and destructor, and the life of a token |
| `Engine` | an engine from creation to destruction: event loop, client, channels and calls, composed with `TokenResolver` |
| `SampleRecognition` | the C++ recognition samples; implements `AudioStream` |
| `SampleSynthesis` | the C++ synthesis sample |
| `AsyncTask` | the three Python clients of the asynchronous API, at work on the same tasks |
| `MC*` | the instances TLC runs |
| `RecognitionConnectionProofs`, `RecognitionChannelProofs`, `SynthesisChannelProofs`, `EngineProofs` (with `TokenResolver`), `SampleRecognitionProofs`, `SampleSynthesisProofs`, `AsyncTaskProofs` | the theorems about each, for all values of the constants |
| `SequenceLemmas` | what these proofs use of sequences: prefixes, counted sequences, which kinds of element occur, how often and in which order, when one is appended or taken away |

An operator named as the mutant of another one (the comment above it says so) is a deliberately wrong
variant of that action. Nothing uses it; `PROJECT.json` says which property catches it when it
takes the place of the original.

### RecognitionConnection

`Feed`, `WritesDone` and `Disable` are the calls of the channel. `Deliver(c, ok)` is an iteration of
the worker's loop up to the `active()` test, and each branch of `proceed()` is an action; the
write/alarm branch is two actions, `TakeChunk` and one of `SendAudioChunk`, `SendWritesDone`,
`ArmAlarm`, because the callers may run between the swap of the buffer and the look at
`writes_done_`. The completion queue is a count of outstanding operations per cause; `Completes` says
what gRPC may report of each. A frame is its number.

`disable()` follows `writes_done()` in `stop_recognize()`, but the module lets it come alone: the channel
reads its connection pointer for each of the two, and a RECOGNIZE may replace it in between. Frames keep
coming after both, because the channel never returns to its idle state. Destroying the client is
not modelled here but in `Engine`.

### RecognitionChannel

Every statement of a handler that reads or writes state another thread uses is an action, in the
order of the code: `ProcessRecognize`, `StartConnection`, `StoreConnection`, `SetWaitingVad`,
`RespondInProgress`; `OnVoice`, `OnVoiceFeed`; `OnResultVad`, `OnResultRecognizing`, `OnResultEou`,
`SendResultEvent`; `OnError`, `SendErrorEvent`. `stop_recognize()` is two actions wherever it is called,
one per call through the pointer: `ProcessStop` with `CallWritesDone` and `RespondStop` with `CallDisable`
in the MRCP thread, `RunStop` and `RunDisable` in the event loop, whose other closures are `RunSend`. The n-th
RECOGNIZE is request n with connection n; a connection is its `active_` and `writes_done_` flags, how
far its call has come and what it reported. The uninitialised pointer may hold nothing or garbage. A read of a field another thread is writing
is taken to return the old or the new value (the fields are not atomic; a compiler could do worse).

UniMRCP is assumed to hand a RECOGNIZE on only when no other is in progress, a STOP only while one is,
to detach the media thread before it closes a channel and to destroy the channel when the close is
answered. `apt_task_msg_get()` is assumed to succeed.

**The contract.** The channel does not contain `RecognitionConnection`; that product is out of TLC's reach.
`RecognitionCallbacks` states once when a connection may call back: between its start and `disable()`, results
while the call has messages, one error at the end, and two once `writes_done()` was called.
`RecognitionConnection` implements it (`KeepsContract`, a refinement that is also proved), and in the channel
`Result` and `Error` are the steps of that contract: a connection calls back whenever the contract lets it,
whatever the other threads are doing, `process_recognize()` and `process_stop()` included. Two things are
narrower. The service is assumed to send one result with `eou` and none after it, because
`enable_multi_utterance` is off. And `MaxDisturbed` bounds how many connections of a session are *disturbed*:
called back inside `process_recognize()` (`early`; a call that fails locally needs no round trip, and the
worker waits for nobody) or reported two outcomes (the worker reads on behind the result with `eou`, and the
call may break before the scheduled stop has run; or `writes_done()` and the failed read each had a status
reported). It is a bound of the runs; the theorems hold for every value of it.

What a disturbed connection does is what the code does: its events may precede IN-PROGRESS; a result that
finds `state_` idle is dropped and its RECOGNIZE never completes; the stop of an early error may come before the
connection is stored, follow the uninitialised pointer, or leave the connection active; the second outcome of a
call completes a request again, or completes the next one. So *no* property promises that IN-PROGRESS comes first
or that there is one completion: neither is so. The properties are about the requests to which nothing of the
kind has happened (`Calm`, `CalmUntil(r)`), and say that nothing else goes wrong.

With `StopAllowed` a callback that is under way when its request is stopped names the next request, and what it
does to that one lasts: a completion ends the next request while its own connection stays active, and that
connection then feeds its results to the request after it, and so on. No number of events bounds this damage. The
scheduled stop can also read the pointer before a RECOGNIZE replaces it and again after it, so that the new
connection is disabled without having been half-closed, and its request never completes. `HarmIsExplained` says
exactly how far all this goes: every event that names a request comes from its own connection, and the connection
is not silenced without an outcome, unless an earlier request was stopped or a connection disturbed.

### SynthesisChannel

The same conventions. The gRPC connection is modelled here too: it has one operation outstanding at a time
(`call`: start_call, read, finish), and `StartCall`, `Chunk`, `LastRead` and `EndCall` are the branches of
its `proceed()`, with the `active()` test of the worker's loop. A media tick is `Tick`, `Fill`,
`CheckState`, `CheckSynthComplete`, `SendResultEvent`; the lock of `voice_buffer_` is held from
`CheckSynthComplete` to `SendResultEvent` (`media = "complete"`), and the other critical sections are single
actions. The connections call back at any time, also while the MRCP thread is inside `process_synthesis()` or
`process_stop()`. Audio is counted in numbered units, and a frame takes `FrameLength` of them, so that the last frame
may be short. The two statements of `stop_synthesis()` are two actions: `DisableConnection` (in
`ProcessStop` and `RunStop`) and the return to idle (in `RespondStop` and `RunIdle`), with ticks and
callbacks in between. `QueueBound` makes the media thread pause while that many closures wait; without it
ticks could fill the queue without end.

A call that fails while `process_synthesis()` is under way (`early`) is completed before IN-PROGRESS, and its stop
may run before `start_synthesis()` has stored the connection and set the state. For a first SPEAK it then follows
the pointer that the constructor leaves as the memory was; `NoWildPointer` says that nothing else ever does, no
tick and no STOP. Otherwise it misses the new connection, and the channel stays in its state with the connection
active although the client was told the outcome: the exception of `OutcomeMeansIdle`.

A tick completes a SPEAK and only schedules its stop, and `synthesis_request_` is not reset. Every further
tick that comes before the event loop has run that stop therefore posts SPEAK-COMPLETE again, under the
comment "active requests" (`mrcp/synthesis/channel.hpp:75`), and schedules one more stop. The last of them
can run when the next SPEAK has begun: it disables the new connection, or makes the channel idle under it,
and that SPEAK is neither played nor completed, without any STOP from the client. `SilencedByLeftoverStop`
says that this is the only way: whatever SPEAK is silent without an outcome, an earlier one was given two.

The first SPEAK's audio is always played before the second one's, but the audio of the second and of a third can
mix. A tick of SPEAK 1 that has seen `state_` crosses the change of request: its `send_result_event()` reads
`synthesis_request_` when SPEAK 2 is already stored there and its call is being made, and so completes SPEAK 2;
its stop runs before there is a new connection to disable. The connection made afterwards stays active, and its
messages fall among those of SPEAK 3. The second conjunct of `AudioInOrder` is therefore about sessions of at most
two SPEAKs; the first, no gap and no repetition, about all.

### TokenResolver

`worker_proc()` unlocks the mutex before its loop and then calls `cv_.wait_for()` with the unlocked
lock. That is undefined; the module follows what libstdc++ over glibc does: the wait unlocks the mutex
whoever holds it, locks it again on waking, and the lock object does not know that it owns it. So the
worker holds the mutex except while it waits, and leaves it locked when the loop ends. The mutex is a
bit; `stray` records that the wait released a lock a reader held. An answer that is not JSON throws and
ends the process.

Time is counted in seconds. `Tick` lets one pass while the worker is in a request or asleep, and only when
no step of the code could be taken instead: these take microseconds, the margin of the code is a second.
`ExpiresIn` is `expires_at - now - 1000` in `size_t` (`SignBit` stands for 2^63) and what `milliseconds()`
makes of it: the wrapped difference is negative again and the wait ends at once. `TimeUp` ends a wait;
`WakeUp` ends it spuriously. `access_token` and `expires_at` are looked for one by one, so an answer may have
either without the other (`Fetched`); without `expires_at` the worker waits the 15 seconds of a failed request,
whatever the token. `FreshToken` is about the two together: a token that came with its `expires_at` ahead is never
handed out after it, because the worker is awake, and holds the mutex, a second before; and no wait is begun on a
dead token. Of an undated token nothing can be said. A token that arrives expired is handed out all the same, and
so is the empty string that a failed request leaves in the place of a good token (`token_resolver.cpp:159`).

### Engine

`Engine` extends `TokenResolver` and runs its actions between `StartResolver` and the end of
`~token_resolver()`. The readers of the resolver are the gRPC calls: a call that starts is authenticated
by `GetMetadata()`, which asks for the token. `open()` is `OpenRefused` or `StartResolver`, `StartClient`,
`StartEventLoop`; `close()` is `StopService`; the destruction is `BeginDestroy`, `DestroyTask`,
`ShutdownClient` (after `curl_global_cleanup()`), `JoinClient`, `DestroyResolver`, `Gone`, in the order of
the body and of the members. The recognition and the synthesis engine are the same code; the map points
to both. UniMRCP is assumed to close an engine when no channel is left. If sessions could survive the
engine, their calls would ask a destroyed resolver for the token, because the client they share keeps
only a reference to it.

### SampleRecognition

`main()` feeds the blocks of the file, calls `writes_done()`, sleeps and leaves. The worker is that of
`RecognitionConnection` with three differences of the code: `active()` does not exist, every failed
operation calls `Finish()`, and `writes_done` does not. `Leave` may come at any time of the sleep.
The run of the worker on a destroyed connection is undefined and not followed.

### SampleSynthesis

The operation outstanding is completed by gRPC (`CompleteStart`, `Arrive`, `NoMore`, `CompleteFinish`)
before the worker takes its tag (`Deliver`), so that `response_` changes when a message arrives and not
when it is handled. `main()` sees the flag, closes the file, destroys the connection and joins the worker.

### AsyncTask

A creator is a run of `recognize_async.py` or `synthesize_async.py`, a tool a run of `task.py` (`--wait`,
`--cancel` or neither) with the identifier a creator printed. The polling loop is the same code in all
three. A remote call is three steps: the program asks, the service answers (`ServeUpload`, `ServeCreate`,
`ServeGet`, `ServeCancel`), the program takes note (`Created`, `StillWorking`, `Report`, `Done`,
`Cancelled`); the service works on the tasks in between (`Work`). `RpcError` is any call failing before or
after the service has acted; `Interrupt` is the user. Nothing is retried by the code: when the answer of
AsyncRecognize or AsyncSynthesize is lost, the task runs on the service and nobody knows its identifier.
That the service never changes the status of a task that has ended is assumed.

## Runs

All bounds are constants of the cfg. States are distinct states.

| run | bounds | shows |
|---|---|---|
| `RecognitionConnection` | 2 frames, 2 responses; 25 400 states | the call is used as its API demands (one operation per direction, nothing after WritesDone), audio is conserved, the second `Finish()` is confined to a stop in progress, callbacks keep the contract of `RecognitionCallbacks`; a broken call is reported; a stopped connection comes to rest and the alarm with it |
| `RecognitionChannel` | 2 requests, 1 partial result, 3 frames, threshold 2, 1 disturbed connection, no STOP; 4 460 000 states | the start of input is announced once, no request disturbs the next, nothing is left at destruction, unless a connection is disturbed; stale audio is bounded; only an early event follows the uninitialised pointer |
| `RecognitionChannelStop` | 2 requests, 1 STOP or other request, 1 disturbed connection, no audio; 629 000 states | only a request behind a STOP or a disturbed connection can get foreign events or lose its connection; every other one completes |
| `RecognitionChannelStopCrash` | 1 request with a STOP | **violated**: STOP faults |
| `SynthesisChannel` | 1 SPEAK, STOP, 2 messages of 1 or 3 units, frame 2, queue 4; 53 700 states | completion after the audio, quiet afterwards, and no wild pointer, unless the call fails while it is being started; every SPEAK comes to an outcome |
| `SynthesisChannelAny` | 2 SPEAKs, STOP, 1 message each, queue 3; 5 580 000 states | audio in order, the first SPEAK's before the second one's; a SPEAK is silenced only by a stop an earlier one left |
| `SynthesisChannelStaleFlag` | 2 SPEAKs, 2 messages, queue 1 | **violated**: the second SPEAK completes at once |
| `Engine` | 2 calls, 2 channels, tokens that live 0, 1 or 3 seconds, a retry after 2, sign bit 4; 127 000 states | mutual exclusion in the resolver unless the first wait strays, no call asks a resolver that is being destroyed or gets a token past its time, every `get_token()` and the destruction return |
| `AsyncTask` | 1 creator, 2 tools, 2 blocks up and down; 91 600 states | the reported outcome is true, the old file is given up only for a result, every program ends |
| `SampleRecognition` | 3 blocks, 2 messages; 15 200 states | API use, order, and silence after a failed write; a call that ends well is read to its end |
| `SampleSynthesis` | 4 messages; 380 states | the file holds the audio in order, nothing is destroyed in use, `main()` leaves |
| `SampleRecognitionLostTail` | 2 blocks | **violated**: the end of the file is not sent |

The type invariants of the channels, the engine, the samples and `AsyncTask` (`TypeOK`, `EngineTypeOK`) are
stated beside the properties and hold on these instances; they have no run of their own.

Why the bounds are enough: a connection's frames are only compared by order, two can be merged into one
chunk or split over two writes, and for any number of them the audio properties are proved. Two responses
and an error give a stopped connection more callbacks to make than it may. Two requests show everything one
request can do to the next; what a chain of them can do, the second answered in the place of the first and the
third fed by the second's connection, is covered by `OnlyTheseHarm`, for any number of them. One disturbed
connection is enough for every exception to be needed: TLC violates each of the properties without it. Lifetimes 0, 1 and 3 give a token that has expired, one
that lasts no longer than the margin and one that is used; a sign bit of 4 is above them all. Two tools and
a creator let one program cancel a task that another polls and a third downloads. Two units per frame with
messages of one and three give full, short and empty frames. Two calls let one be authenticated while the
other waits for the mutex or is open. Deadlock checking is off everywhere, because a session, a connection,
the resolver and the sample program end.

### Findings

1. `mrcp/recognition/channel.cpp:356`: STOP follows an indeterminate pointer (`RecognitionChannelStopCrash`).
2. `mrcp/synthesis/channel.cpp:147`: the completion flag survives from SPEAK to SPEAK
   (`SynthesisChannelStaleFlag`). In the run SPEAK 2 is completed by a tick of its own, which finds the flag of SPEAK 1
   up and the buffer empty while the call of SPEAK 2 has not got beyond its start. `QueueBound = 1` there means that
   the event loop keeps up with the ticks: with a larger bound there is a shorter way to the same violation, a second
   tick of SPEAK 1 that crosses the change of request as told under SynthesisChannel, and resetting the flag would
   not remove that one. With the bound of 1 resetting it in `start_synthesis()` makes the run pass.
3. `recognition/v2/cpp/grpc/client.cpp:85` (and v1): the end of the file can be lost (`SampleRecognitionLostTail`).

Not runs, but plain from the code or the models: SPEAK-COMPLETE is repeated until the scheduled stop has
run, and a leftover stop can silence the next SPEAK (see SynthesisChannel); a STOP can spoil the requests
after it (see RecognitionChannel); `on_read()` of the samples takes `results()[0]` of a message that may
have none (`recognition/v1/cpp/grpc/client.cpp:164`); an early failure or result can precede IN-PROGRESS, be lost,
or have its stop miss the connection, in both channels, and in the recogniser a call that breaks behind its
result completes a request twice (see RecognitionChannel and SynthesisChannel); `Finish()` may be called twice on one
call, which gRPC does not allow (`mrcp/grpc_client/client.cpp:123` and `:153`, bounded by `FinishOnce`). `main()` of the recognition samples sleeps three
seconds where its comment says "waiting recognition result" (`recognition/v2/cpp/recognize.cpp:43`), and
then destroys the connection under the worker; `Leave` of `SampleRecognition` may therefore come with the
call open.

### Fairness

Runs with a liveness property are made under `FairSpec` (`FairEngineSpec` for `Engine`), the others under
`Spec`. The module comments say what is assumed and why: threads are scheduled (weak fairness of their next
step), closures run, media ticks keep coming; a completed operation is delivered in the end, because the
completion queue is first-in first-out (strong fairness per operation, only for operations of an ended call
and for the alarm); a thread that waits for a mutex gets it when it is free again and again (strong fairness
of the lock actions); a fetch returns, because it has a limit of three seconds; time passes, while a
spurious wake-up is never owed; the programs of `AsyncTask` go on once started, and the service works on
every task. The service is assumed to end every call with a result or an error: the client sets no deadline,
and a call that ends with status OK and without `eou` would leave its RECOGNIZE in progress for ever.

## Proofs

Every safety invariant, every action property and every refinement that a passing run checks is also
proved, for every value of the constants that the assumption of its module admits: any number of
requests, messages, frames, threads that read the token or tasks. The constants are only assumed to be
numbers, or sets of them, of the right kind (`BoundsAssumption`, `ChannelAssumption`,
`SynthesisAssumption`, `ResolverAssumption`, `TaskAssumption` and so on). Two kinds of theorem need a
hypothesis, which is the one under which the run checks the property:

- In `RecognitionChannel` the theorems about every RECOGNIZE hold in a session without STOP (`~StopAllowed`);
  `UntilStopped`, `PointerIsSet` and `OnlyTheseHarm` are the forms with STOP. No theorem restricts the callbacks
  any more than the properties themselves do.
- In `SynthesisChannel` two properties are promised to the first SPEAK of a session only
  (`synthesisRequest <= 1`), because the second may inherit the flag, a stop or the audio of the first:
  TLC refutes each of them for it (the first in a run, finding 2).

The invariants that make the properties inductive, and why they are needed:

**`RecognitionConnectionProofs`.** `TypeOK` and `OneRead` are inductive as they stand.
- `WriteSideExclusive`: `WriteInv` adds that a write tag in the worker's hand still has `write_pending_`
  set and that no alarm exists, and no branch is being taken, while it is: the tags of the sending
  direction are a token handed on.
- `AudioIsConserved`: `AudioInv` adds that the local chunk is empty outside the branch.
  `NothingAfterWritesDone`: `CloseInv`, once WritesDone was called the token is gone. `StreamRefinement`
  follows from the three.
- `AtMostOneLateCallback`: a late callback leaves the worker at its `active()` test with the flag down.
- `FinishIsBounded` (`FinishOnce`): each direction can lead to one `Finish()`, the failed read of the one
  and the WritesDone of the other. `FinishInv` adds the calls made to the operations left of both
  directions, and the sum never exceeds two, nor one until the sending direction was closed.
- `ContractRefinement` (`KeepsContract`): `StatusInv` bounds the statuses reported, asked for and in
  hand by the calls of `Finish()`; a step maps to a step of `RecognitionCallbacks` where the callback
  *begins*, not where it is counted as over.

**`RecognitionChannelProofs`.** What was delivered and what waits (`Posted`) is one sequence; a step
leaves it alone, adds a closure or drops a stop, and the lemmas of `SequenceLemmas` say what that does
to "occurs", "at most once" and "comes before".
- `StaleAudio`: `Listening` (fewer than the threshold wait, and only once a connection is stored) and
  `InTime` (what waits is sorted by request).
- `PointerIsSet`, `NoWildPointers`: `Pointer` says that until the first connection is stored nobody has
  anything to do that follows the pointer, so that a fault takes the response to a STOP or an event that came
  inside the first `process_recognize()`.
- `UntilStopped`: as long as no STOP was given and no connection was disturbed, `Current` (all that is active,
  calls back or is scheduled belongs to the current request), `Orderly` and `Course` (the state of the channel
  tells what has been posted about the request), `InOrder` (what was posted, of every request) and
  `StopsFirst` (the stop stands in the queue before the outcome it was scheduled with, so that it is over when
  the client may send the next request) hold together: each of them needs the others. `StartAnnounced` and
  `QuietAfterCompletion` are its cases without STOP.
- `OnlyTheseHarm` (`HarmIsExplained`): `Unharmed(r)` is the same about the connection of a request that nothing
  before it disturbed and none before which was stopped, and says nothing once one was. A request may get a
  second outcome and stay unharmed: `Silenced(r)` only wants a stop before every outcome that waits. That
  "none before it was stopped" is a statement about `Posted`, and that nobody leaves `Disturbed`, lets it be
  carried from step to step.

**`SynthesisChannelProofs`.**
- `AudioKeepsOrder`: the first conjunct is inductive; the second needs `Succession` (a SPEAK is sent
  only when the one before has its outcome, and connections become current one after the other),
  `OwnersKnown`, `FirstOver` (the first connection calls back no more when there is a second SPEAK) and
  `OneByOne` (what a callback is about to append is of the last owner or a later one).
- `CompletedWasPlayed`, `OutcomeSilences`: `FirstCalls`, `FirstPosts` and `FirstStops` for the first SPEAK: the
  flag is up only when its call has ended, no outcome is posted while its connection can still add audio, and
  before every outcome in the queue there is a stop, or the channel is silent already; the last unless its call
  failed before it was stored (`Unstored`).
- `OnlyEarlyFailureIsWild` (`NoWildPointer`): `Wild`, the pointer is garbage only until the first connection is
  stored, and before that only the stop of an early failure is on its way (`Unstored`).
- `SilencedOnlyByLeftover` (`SilencedByLeftoverStop`) holds for any number of SPEAKs, with STOP.
  `Leftover` says that behind every stop that waits comes an outcome (`StopsAnswered`), so that a stop
  which outlives its SPEAK proves that this SPEAK was given two: one that was delivered, or the next
  SPEAK could not have been sent, and the one behind the stop.

**`EngineProofs`.** `CriticalSection` (`MutualExclusion`): `MutexInv`, the mutex is taken exactly when
the worker holds it or a reader is inside, as long as no wait released a reader's lock.
`TokenStaysFresh`: `FreshInv`, the rest of the wait is a second less than the rest of the token. These
two are theorems of `TokenResolver`; `EngineRunsResolver` shows that the engine's specification implies
the resolver's, which carries them over (`EngineTokens`). `ResolverOutlivesCalls`
(`TokenOutlivesCalls`): `LifeInv`, channels live in an open engine and the resolver's destructor runs
when no call is left.

**`SampleRecognitionProofs`.** `OneOperation`: `CountInv`, calls of `Finish()` and operations of both
directions never come to more than two. `QuietAfterLostWrite`: `OverInv`, when a write was lost nothing
of the sending direction is left that could start another. `StreamRefinement` as for the plugin.

**`SampleSynthesisProofs`.** `DestroyedUnused`: `OneOp`, one operation is outstanding or in hand until
the status was reported. `FileComplete`: `FileInv`, `response_` holds the message in flight, the file
the others, and reading stops at the end only.

**`AsyncTaskProofs`.** `ReportsAreTrue`, `EarlierFileKept`: a task exists from its creation on
(`TasksExist`), a status that ended and was answered stays true (`EndsAreTrue`), and a file under way is
a beginning of the result (`FilesAreTrue`).

Only model-checked: the liveness properties (`ErrorReported`, `Drains`, `EveryRecognizeCompletes`,
`EverySpeakCompletes`, `EveryTokenReturned`, `DestroyReturns`, `ProgramsEnd`, `MainReturns`,
`CallDrains`), for which the prover has neither fairness nor ENABLED. The properties of the three runs
that expect a violation are false.

The proof about the order of the audio corrected the property: two SPEAKs do not show that the audio of a third
can mix with that of the second, and the attempt to prove that it cannot led to the behaviour told above.

## Not modelled, and the plan

Not modelled: message texts, NLSML, SSML, voices, hints; argument parsing; the plugin entry points; the
streaming Python, Node.js and Kotlin clients, which have no state of their own; UniMRCP, gRPC and libcurl
beyond what the code relies on; memory use (disabled connections are never deleted); the moment between
the return of `AsyncRecognize` and the store of `responder_`.

Not modelled either, with reason: `update_mrcp_params` (a conversion whose result nothing at this commit
depends on), libcurl's state after `curl_global_cleanup()`, and what a gRPC worker does with a connection
that was destroyed under it.

What is left to do: the proofs for the first SPEAK could be carried to the later ones that inherit nothing
(no audio, flag or stop left when they are sent); a theorem that puts `RecognitionConnection` in the place of
the channel's connections, which their common contract `RecognitionCallbacks` prepares, needs that product as
a module; and the deadline of a call, which the client does not set, would let liveness drop its assumption
that the service ends every call.
