------------------------ MODULE RecognitionChannelProofs ------------------------
(***************************************************************************)
(* Proofs about RecognitionChannel, for sessions of any number of requests,   *)
(* results and frames.                                                       *)
(***************************************************************************)
EXTENDS RecognitionChannel, SequenceLemmas, FiniteSetTheorems

-----------------------------------------------------------------------------
(* Type correctness.                                                        *)

\* A callback is always that of a connection.
Callback == IF worker.at = "next" THEN worker = Idle ELSE worker.conn \in Request

\* A call is made once, before its connection is stored, and counts its results until the last.
Calls ==
    /\ mrcp # "idle" => recognizeRequest # None
    /\ mrcp = "calling" => call[recognizeRequest] # "none"
    /\ connection \in Request => connection <= recognizeRequest /\ call[connection] # "none"
    /\ \A c \in Request :
           /\ c > recognizeRequest \/ (c = recognizeRequest /\ mrcp = "accepted")
                  => call[c] = "none"
           /\ active[c] => call[c] # "none"
           /\ c \notin answered => results[c] <= MaxPartials
           /\ call[c] = "none" => /\ errors[c] = 0 /\ c \notin answered /\ c \notin early
                                  /\ ~stopping[c]
           /\ call[c] = "ended" => errors[c] > 0

Typed == TypeOK /\ Callback /\ Calls

\* The closures that are posted.
LEMMA ClosureTypes ==
  /\ \A message \in Message, r \in 0 .. MaxRequests, from \in 0 .. MaxRequests :
        Send(message, r, from) \in Answer
  /\ \A from \in Request : StopFor(from) \in Closure
  /\ \A closure \in Closure : closure.kind = "send" => closure \in Answer
  /\ \A answer \in Answer : answer \in Closure
BY ChannelAssumption DEF StopFor, Send, Closure, Answer, Message, Final, None

LEMMA PostTypes ==
  /\ \A closures \in Seq(Closure), closure \in Closure : Append(closures, closure) \in Seq(Closure)
  /\ \A answers \in Seq(Answer), answer \in Answer : Append(answers, answer) \in Seq(Answer)
OBVIOUS

LEMMA NextCount == \A n \in Nat : \A i \in 0 .. n : i < n => i + 1 \in 0 .. n
OBVIOUS

LEMMA TypeInit == Init => Typed
<1> SUFFICES ASSUME Init PROVE Typed
  OBVIOUS
<1>1. /\ connection \in 0 .. Garbage /\ recognizeRequest \in 0 .. MaxRequests
      /\ other \in 0 .. MaxOther /\ frames \in 0 .. MaxFrames /\ connection \notin Request
  BY ChannelAssumption DEF Init, None, Garbage, Request
<1>2. results \in [Request -> 0 .. MaxPartials + 1] /\ errors \in [Request -> 0 .. 2]
  BY ChannelAssumption DEF Init
<1>3. /\ audioBuffer \in Seq(0 .. MaxRequests) /\ fed \in [Request -> Seq(0 .. MaxRequests)]
      /\ queue \in Seq(Closure) /\ delivered \in Seq(Answer)
  BY DEF Init
<1>4. worker \in [at : {"next", "vad", "recognizing", "eou", "complete", "error", "failed"},
                  conn : 0 .. MaxRequests, eou : BOOLEAN]
  BY ChannelAssumption DEF Init, Idle, None
<1>5. Callback
  BY DEF Init, Callback, Idle
<1>6. Calls
  BY <1>1, ChannelAssumption DEF Init, Calls
<1>7. TypeOK
  BY <1>1, <1>2, <1>3, <1>4 DEF Init, TypeOK
<1> QED
  BY <1>5, <1>6, <1>7 DEF Typed

\* What the beginning of a callback does: the contract's conditions, in the channel's terms.
LEMMA CallbackBegins ==
  ASSUME Typed, NEW c \in Request
  PROVE  /\ Error(c) \/ (\E eou \in BOOLEAN : Result(c, eou)) =>
                /\ Running /\ worker = Idle /\ active[c] /\ call[c] # "none"
                /\ worker'.at \in {"vad", "error"} /\ worker'.conn = c
                /\ early' = IF Starting THEN early \cup {c} ELSE early
                /\ UNCHANGED <<state, connection, recognizeRequest, audioBuffer, media, fed, frames,
                               mrcp, queue, active, stopping, other, loop, delivered, phase,
                               crashed>>
         /\ Error(c) =>
                /\ worker' = [at |-> "error", conn |-> c, eou |-> FALSE]
                /\ errors[c] + 1 <= IF stopping[c] THEN 2 ELSE 1
                /\ errors' = [errors EXCEPT ![c] = errors[c] + 1]
                /\ call' = call \/ call' = [call EXCEPT ![c] = "ended"]
                /\ stopping[c] \/ call'[c] = "ended"
                /\ UNCHANGED <<results, answered>>
         /\ \A eou \in BOOLEAN : Result(c, eou) =>
                /\ worker' = [at |-> "vad", conn |-> c, eou |-> eou]
                /\ call[c] = "open" /\ c \notin answered
                /\ eou \/ results[c] < MaxPartials
                /\ answered' = IF eou THEN answered \cup {c} ELSE answered
                /\ results' = [results EXCEPT ![c] = results[c] + 1]
                /\ UNCHANGED <<call, errors>>
<1>1. ASSUME NEW at \in {"vad", "error"}, NEW eou \in BOOLEAN, Begin(at, c, eou)
      PROVE  /\ Running /\ worker = Idle
             /\ worker' = [at |-> at, conn |-> c, eou |-> eou]
             /\ early' = IF Starting THEN early \cup {c} ELSE early
             /\ UNCHANGED <<state, connection, recognizeRequest, audioBuffer, media, fed, frames,
                            mrcp, queue, active, stopping, other, loop, delivered, phase, crashed>>
  BY <1>1 DEF Begin, shared, audio, flags
<1>2. ASSUME Error(c)
      PROVE  /\ active[c] /\ call[c] # "none"
             /\ errors[c] + 1 <= IF stopping[c] THEN 2 ELSE 1
             /\ errors' = [errors EXCEPT ![c] = errors[c] + 1]
             /\ call' = call \/ call' = [call EXCEPT ![c] = "ended"]
             /\ stopping[c] \/ call'[c] = "ended"
             /\ UNCHANGED <<results, answered>>
  <2>1. /\ errors' = [errors EXCEPT ![c] = errors[c] + 1]
        /\ call' = call \/ call' = [call EXCEPT ![c] = "ended"]
        /\ UNCHANGED <<results, answered>>
        /\ Contract(c)!Error
    BY <1>2 DEF Error
  <2>2. /\ active[c] /\ call[c] # "none"
        /\ errors'[c] <= IF stopping[c] THEN 2 ELSE 1
        /\ stopping[c] \/ ~(call'[c] # "ended")
    BY <2>1 DEF Contract!Error
  <2>3. errors'[c] = errors[c] + 1
    BY <2>1 DEF Typed, TypeOK
  <2> QED
    BY <2>1, <2>2, <2>3
<1>3. ASSUME NEW eou \in BOOLEAN, Result(c, eou)
      PROVE  /\ active[c] /\ call[c] = "open" /\ c \notin answered
             /\ eou \/ results[c] < MaxPartials
             /\ answered' = IF eou THEN answered \cup {c} ELSE answered
             /\ results' = [results EXCEPT ![c] = results[c] + 1]
             /\ UNCHANGED <<call, errors>>
  <2>1. /\ c \notin answered
        /\ eou \/ results[c] < MaxPartials
        /\ answered' = IF eou THEN answered \cup {c} ELSE answered
        /\ results' = [results EXCEPT ![c] = results[c] + 1]
        /\ UNCHANGED <<call, errors>>
        /\ Contract(c)!Result
    BY <1>3 DEF Result
  <2>2. active[c] /\ call[c] # "none" /\ call[c] # "ended"
    BY <2>1 DEF Contract!Result
  <2>3. call[c] \in {"none", "open", "ended"}
    BY DEF Typed, TypeOK
  <2> QED
    BY <2>1, <2>2, <2>3
<1>4. Error(c) => Begin("error", c, FALSE)
  BY DEF Error
<1>5. \A eou \in BOOLEAN : Result(c, eou) => Begin("vad", c, eou)
  BY DEF Result
<1>6. ASSUME Error(c)
      PROVE  /\ Running /\ worker = Idle
             /\ worker' = [at |-> "error", conn |-> c, eou |-> FALSE]
             /\ early' = IF Starting THEN early \cup {c} ELSE early
             /\ UNCHANGED <<state, connection, recognizeRequest, audioBuffer, media, fed, frames,
                            mrcp, queue, active, stopping, other, loop, delivered, phase, crashed>>
  BY <1>1, <1>4, <1>6
<1>7. ASSUME NEW eou \in BOOLEAN, Result(c, eou)
      PROVE  /\ Running /\ worker = Idle
             /\ worker' = [at |-> "vad", conn |-> c, eou |-> eou]
             /\ early' = IF Starting THEN early \cup {c} ELSE early
             /\ UNCHANGED <<state, connection, recognizeRequest, audioBuffer, media, fed, frames,
                            mrcp, queue, active, stopping, other, loop, delivered, phase, crashed>>
  BY <1>1, <1>5, <1>7
<1> QED
  BY <1>2, <1>3, <1>6, <1>7

\* The MRCP thread and its client.
LEMMA TypeMrcp == Typed /\ (Client \/ Mrcp) => Typed'
<1> SUFFICES ASSUME Typed, Client \/ Mrcp PROVE Typed'
  OBVIOUS
<1> USE DEF Typed, TypeOK, Callback, Calls, shared, audio, flags, service, grpc
<1>q. \A message \in Message, r \in 0 .. MaxRequests :
         Append(queue, Send(message, r, None)) \in Seq(Closure)
  BY ClosureTypes, PostTypes, ChannelAssumption DEF None
<1>n. /\ None \in 0 .. MaxRequests /\ MaxRequests \in Nat /\ MaxOther \in Nat
      /\ \A c \in Request : c \in 1 .. MaxRequests
      /\ recognizeRequest # None => recognizeRequest \in Request
  BY ChannelAssumption DEF None, Request
<1>m. {"opened", "closed", "response", "inprogress", "stopped"} \in SUBSET Message
  BY DEF Message, Final
<1>1. CASE OnOpen
  BY <1>1, <1>q, <1>n, <1>m DEF OnOpen, Post
<1>2. CASE OnClose
  BY <1>2, <1>q, <1>n, <1>m DEF OnClose, Post
<1>3. CASE ProcessOther
  BY <1>3, <1>q, <1>n, <1>m, NextCount DEF ProcessOther, Post
<1>4. CASE ProcessRecognize
  <2>1. recognizeRequest' = recognizeRequest + 1 /\ recognizeRequest' \in 0 .. MaxRequests
        /\ recognizeRequest' # None
    BY <1>4, <1>n, NextCount DEF ProcessRecognize, None
  <2>2. \A c \in Request : c > recognizeRequest' \/ c = recognizeRequest' => c > recognizeRequest
    BY <2>1, <1>n
  <2>3. connection \in Request => connection <= recognizeRequest'
    BY <2>1, <1>n
  <2> QED
    BY <1>4, <2>1, <2>2, <2>3 DEF ProcessRecognize
<1>5. CASE ProcessStop
  <2>1. /\ stopping' \in [Request -> BOOLEAN]
        /\ \A c \in Request : call[c] = "none" => ~stopping'[c]
    BY <1>5 DEF ProcessStop, CallWritesDone
  <2>2. /\ mrcp' = "stopping" /\ recognizeRequest # None /\ other' = other + 1 /\ other < MaxOther
        /\ mrcp = "idle"
        /\ UNCHANGED <<state, connection, recognizeRequest, audioBuffer, media, fed, frames, worker,
                       queue, active, call, results, errors, answered, early, loop, delivered,
                       phase, crashed>>
    BY <1>5 DEF ProcessStop, InProgress, Ready
  <2>3. other' \in 0 .. MaxOther
    BY <1>n, <2>2, NextCount
  <2> QED
    BY <2>1, <2>2, <2>3
<1>6. CASE StartConnection
  <2>1. /\ recognizeRequest \in Request /\ mrcp = "accepted" /\ mrcp' = "calling"
        /\ active' = [active EXCEPT ![recognizeRequest] = TRUE]
        /\ call' = [call EXCEPT ![recognizeRequest] = "open"]
    BY <1>6, <1>n DEF StartConnection
  <2>2. TypeOK' /\ Callback'
    BY <1>6, <2>1 DEF StartConnection
  <2>3. Calls'
    BY <1>6, <2>1 DEF StartConnection
  <2> QED
    BY <2>2, <2>3
<1>7. CASE StoreConnection
  <2>1. recognizeRequest \in 0 .. Garbage
    BY <1>n DEF Garbage
  <2> QED
    BY <1>7, <1>n, <2>1 DEF StoreConnection
<1>8. CASE SetWaitingVad
  BY <1>8 DEF SetWaitingVad
<1>9. CASE RespondInProgress
  BY <1>9, <1>q, <1>m DEF RespondInProgress, Post
<1>10. CASE RespondStop
  <2>1. active' \in [Request -> BOOLEAN] /\ \A c \in Request : active'[c] => active[c]
    BY <1>10 DEF RespondStop, CallDisable
  <2> QED
    BY <1>10, <1>q, <1>m, <2>1 DEF RespondStop, Post
<1> QED
  BY <1>1, <1>2, <1>3, <1>4, <1>5, <1>6, <1>7, <1>8, <1>9, <1>10 DEF Client, Mrcp

\* The event loop.
LEMMA TypeLoop == Typed /\ EventLoop => Typed'
<1> SUFFICES ASSUME Typed, EventLoop PROVE Typed'
  OBVIOUS
<1> USE DEF Typed, TypeOK, Callback, Calls, shared, audio, flags, service, grpc
<1>1. CASE RunStop
  <2>1. queue' \in Seq(Closure)
    BY <1>1, HeadTailProperties DEF RunStop
  <2>2. /\ stopping' \in [Request -> BOOLEAN]
        /\ \A c \in Request : call[c] = "none" => ~stopping'[c]
    BY <1>1 DEF RunStop, CallWritesDone
  <2>3. /\ loop' \in {"next", "disable"} /\ crashed' \in BOOLEAN
        /\ UNCHANGED <<state, connection, recognizeRequest, audioBuffer, media, fed, frames, mrcp,
                       worker, active, call, results, errors, answered, early, other, delivered,
                       phase>>
    BY <1>1 DEF RunStop
  <2> QED
    BY <2>1, <2>2, <2>3
<1>2. CASE RunDisable
  <2>1. active' \in [Request -> BOOLEAN] /\ \A c \in Request : active'[c] => active[c]
    BY <1>2 DEF RunDisable, CallDisable
  <2> QED
    BY <1>2, <2>1 DEF RunDisable
<1>3. CASE RunSend
  <2>1. queue' \in Seq(Closure) /\ Head(queue) \in Closure /\ Head(queue).kind = "send"
    BY <1>3, HeadTailProperties DEF RunSend
  <2>2. delivered' \in Seq(Answer)
    BY <1>3, <2>1, ClosureTypes, PostTypes DEF RunSend
  <2>3. phase' \in {"created", "opening", "open", "closing", "destroyed"}
    BY <1>3 DEF RunSend
  <2> QED
    BY <1>3, <2>1, <2>2, <2>3 DEF RunSend
<1> QED
  BY <1>1, <1>2, <1>3 DEF EventLoop

\* The media thread.
LEMMA TypeMedia == Typed /\ (OnVoice \/ OnVoiceFeed) => Typed'
<1> SUFFICES ASSUME Typed, OnVoice \/ OnVoiceFeed PROVE Typed'
  OBVIOUS
<1> USE DEF Typed, TypeOK, Callback, Calls, shared, flags, service, grpc
<1>1. CASE OnVoice
  <2>1. frames' \in 0 .. MaxFrames
    BY <1>1, NextCount, ChannelAssumption DEF OnVoice
  <2> QED
    BY <1>1, <2>1 DEF OnVoice
<1>2. CASE OnVoiceFeed
  <2>1. fed' \in [Request -> Seq(0 .. MaxRequests)] /\ audioBuffer' \in Seq(0 .. MaxRequests)
        /\ crashed' \in BOOLEAN
    <3>1. CASE connection # None /\ Len(audioBuffer) >= FeedThreshold
      <4>1. ASSUME NEW c \in Request
            PROVE  fed[c] \o (IF c = connection THEN audioBuffer ELSE <<>>) \in Seq(0 .. MaxRequests)
        <5>1. /\ fed[c] \in Seq(0 .. MaxRequests)
              /\ audioBuffer \in Seq(0 .. MaxRequests) /\ <<>> \in Seq(0 .. MaxRequests)
          BY EmptySeq
        <5>2. CASE c = connection
          BY <5>1, <5>2, ConcatProperties
        <5>3. CASE c # connection
          BY <5>1, <5>3, ConcatProperties
        <5> QED
          BY <5>2, <5>3
      <4>2. /\ fed' = [c \in Request |->
                          fed[c] \o (IF c = connection THEN audioBuffer ELSE <<>>)]
            /\ audioBuffer' = <<>> /\ crashed' = (connection = Garbage)
        BY <1>2, <3>1 DEF OnVoiceFeed
      <4> QED
        BY <4>1, <4>2
    <3>2. CASE ~(connection # None /\ Len(audioBuffer) >= FeedThreshold)
      BY <1>2, <3>2 DEF OnVoiceFeed
    <3> QED
      BY <3>1, <3>2
  <2> QED
    BY <1>2, <2>1 DEF OnVoiceFeed
<1> QED
  BY <1>1, <1>2

\* The beginning of a callback.
LEMMA TypeService == Typed /\ Service => Typed'
<1> SUFFICES ASSUME Typed, NEW c \in Request, Error(c) \/ \E eou \in BOOLEAN : Result(c, eou)
             PROVE  Typed'
  BY DEF Service
<1>b. /\ worker'.at \in {"vad", "error"} /\ worker'.conn = c
      /\ active[c] /\ call[c] # "none"
      /\ early' = IF Starting THEN early \cup {c} ELSE early
      /\ UNCHANGED <<state, connection, recognizeRequest, audioBuffer, media, fed, frames, mrcp,
                     queue, active, stopping, other, loop, delivered, phase, crashed>>
  BY CallbackBegins
<1>1. CASE Error(c)
  <2>c. /\ worker' = [at |-> "error", conn |-> c, eou |-> FALSE]
        /\ errors[c] + 1 <= IF stopping[c] THEN 2 ELSE 1
        /\ errors' = [errors EXCEPT ![c] = errors[c] + 1]
        /\ call' = call \/ call' = [call EXCEPT ![c] = "ended"]
        /\ UNCHANGED <<results, answered>>
    BY <1>1, CallbackBegins
  <2>1. errors' \in [Request -> 0 .. 2]
    <3>1. errors[c] \in 0 .. 2 /\ errors[c] + 1 <= 2
      BY <2>c DEF Typed, TypeOK
    <3>2. errors[c] + 1 \in 0 .. 2
      BY <3>1
    <3> QED
      BY <2>c, <3>2 DEF Typed, TypeOK
  <2>2. /\ call' \in [Request -> {"none", "open", "ended"}]
        /\ \A d \in Request : call'[d] = call[d] \/ (call'[d] = "ended" /\ d = c)
    BY <2>c DEF Typed, TypeOK
  <2>3. worker' \in [at : {"next", "vad", "recognizing", "eou", "complete", "error", "failed"},
                     conn : 0 .. MaxRequests, eou : BOOLEAN]
    BY <2>c, ChannelAssumption DEF Request
  <2>4. TypeOK' /\ Callback'
    BY <1>b, <2>c, <2>1, <2>2, <2>3 DEF Typed, TypeOK, Callback
  <2>5. Calls'
    <3>1. c \in Nat /\ recognizeRequest \in Nat
      BY DEF Typed, TypeOK, Request
    <3>2. c <= recognizeRequest /\ ~(c = recognizeRequest /\ mrcp = "accepted")
      BY <1>b, <3>1 DEF Typed, Calls
    <3>3. \A d \in Request : d # c => errors'[d] = errors[d] /\ (d \in early' <=> d \in early)
      BY <1>b, <2>c DEF Typed, TypeOK
    <3>4. \A d \in Request : call'[d] = "none" => call[d] = "none" /\ d # c
      BY <1>b, <2>2
    <3>5. \A d \in Request : call[d] # "none" => call'[d] # "none"
      BY <1>b, <2>2
    <3>6. recognizeRequest = None \/ recognizeRequest \in Request
      BY ChannelAssumption DEF Typed, TypeOK, Request, None
    <3>7. \A d \in Request : call[d] = "none" /\ d # c => call'[d] = "none"
      BY <2>2
    <3>8. \A d \in Request : call'[d] = "ended" => errors'[d] > 0
      <4>1. errors'[c] = errors[c] + 1 /\ errors[c] \in Nat
        BY <2>c DEF Typed, TypeOK
      <4>2. \A d \in Request : d # c /\ call'[d] = "ended" => errors[d] > 0
        BY <2>2 DEF Typed, Calls
      <4> QED
        BY <3>3, <4>1, <4>2
    <3>9. \A d \in Request : call'[d] = "none" => /\ errors'[d] = 0 /\ d \notin answered'
                                                /\ d \notin early' /\ ~stopping'[d]
      BY <1>b, <2>c, <3>3, <3>4 DEF Typed, Calls
    <3> QED
      BY <1>b, <2>c, <3>1, <3>2, <3>4, <3>5, <3>6, <3>7, <3>8, <3>9 DEF Typed, Calls
  <2> QED
    BY <2>4, <2>5 DEF Typed
<1>2. ASSUME NEW eou \in BOOLEAN, Result(c, eou) PROVE Typed'
  <2>c. /\ worker' = [at |-> "vad", conn |-> c, eou |-> eou]
        /\ call[c] = "open" /\ c \notin answered
        /\ eou \/ results[c] < MaxPartials
        /\ answered' = IF eou THEN answered \cup {c} ELSE answered
        /\ results' = [results EXCEPT ![c] = results[c] + 1]
        /\ UNCHANGED <<call, errors>>
    BY <1>2, CallbackBegins
  <2>1. results[c] \in 0 .. MaxPartials + 1 /\ results[c] <= MaxPartials
    BY <2>c DEF Typed, TypeOK, Calls
  <2>2. /\ results[c] + 1 \in 0 .. MaxPartials + 1
        /\ c \notin answered' => results[c] + 1 <= MaxPartials
    BY <2>c, <2>1, ChannelAssumption
  <2>3. worker' \in [at : {"next", "vad", "recognizing", "eou", "complete", "error", "failed"},
                     conn : 0 .. MaxRequests, eou : BOOLEAN]
    BY <2>c, ChannelAssumption DEF Request
  <2>4. TypeOK' /\ Callback'
    BY <1>b, <2>c, <2>2, <2>3 DEF Typed, TypeOK, Callback
  <2>5. Calls'
    BY <1>b, <2>c, <2>2 DEF Typed, TypeOK, Calls
  <2> QED
    BY <2>4, <2>5 DEF Typed
<1> QED
  BY <1>1, <1>2

\* The callbacks.
LEMMA TypeWorker == Typed /\ Worker => Typed'
<1> SUFFICES ASSUME Typed, Worker PROVE Typed'
  OBVIOUS
<1> USE DEF Typed, TypeOK, Callback, Calls, shared, audio, flags, service, grpc, At
<1>i. Idle \in [at : {"next", "vad", "recognizing", "eou", "complete", "error", "failed"},
                conn : 0 .. MaxRequests, eou : BOOLEAN]
      /\ Idle.at = "next"
  BY ChannelAssumption DEF Idle, None
<1>c. worker.conn \in Request /\ worker.conn \in 0 .. MaxRequests
  BY DEF Worker, OnResultVad, OnResultRecognizing, OnResultEou, SendResultEvent, OnError,
         SendErrorEvent
<1>q. /\ \A message \in {"startofinput", "complete", "error"} :
           Append(queue, Send(message, recognizeRequest, worker.conn)) \in Seq(Closure)
      /\ Append(queue, StopFor(worker.conn)) \in Seq(Closure)
  <2>1. {"startofinput", "complete", "error"} \in SUBSET Message
    BY DEF Message, Final
  <2> QED
    BY <1>c, <2>1, ClosureTypes, PostTypes
<1>1. CASE OnResultVad
  BY ZenonT(30), <1>1, <1>q DEF OnResultVad, Post
<1>2. CASE OnResultRecognizing
  BY ZenonT(30), <1>2 DEF OnResultRecognizing
<1>3. CASE OnResultEou
  <2>1. CASE state = "recognizing" /\ worker.eou
    BY ZenonT(30), <1>3, <1>q, <2>1 DEF OnResultEou, Post
  <2>2. CASE ~(state = "recognizing" /\ worker.eou)
    BY <1>3, <1>i, <2>2 DEF OnResultEou
  <2> QED
    BY <2>1, <2>2
<1>4. CASE SendResultEvent
  BY <1>4, <1>q, <1>i DEF SendResultEvent, Post
<1>5. CASE OnError
  BY ZenonT(30), <1>5, <1>q DEF OnError, Post
<1>6. CASE SendErrorEvent
  BY <1>6, <1>q, <1>i DEF SendErrorEvent, Post
<1> QED
  BY <1>1, <1>2, <1>3, <1>4, <1>5, <1>6 DEF Worker

LEMMA TypeStep == Typed /\ [Next]_vars => Typed'
<1> SUFFICES ASSUME Typed, [Next]_vars PROVE Typed'
  OBVIOUS
<1>1. CASE UNCHANGED vars
  BY <1>1 DEF vars, Typed, TypeOK, Callback, Calls
<1> QED
  BY <1>1, TypeMrcp, TypeLoop, TypeMedia, TypeService, TypeWorker DEF Next

\* Every variable keeps its type.
THEOREM TypeCorrect == Spec => []TypeOK
<1>1. Typed => TypeOK
  BY DEF Typed
<1> QED
  BY <1>1, TypeInit, TypeStep, PTL DEF Spec

-----------------------------------------------------------------------------
(* What disturbs a session.                                                 *)

\* A call whose outcome a callback has.
Over(c) == c \in answered \/ call[c] = "ended"

\* A session that was disturbed stays so.
LEMMA DisturbedStays ==
  ASSUME Typed, [Next]_vars
  PROVE  /\ early \subseteq early'
         /\ Calm' => Calm
         /\ \A r \in Request : CalmUntil(r)' => CalmUntil(r)
<1>1. /\ early \subseteq early' /\ answered \subseteq answered'
      /\ \A c \in Request : errors[c] \in Nat /\ errors'[c] \in Nat /\ errors'[c] >= errors[c]
  <2>t. /\ errors \in [Request -> 0 .. 2] /\ errors' \in [Request -> 0 .. 2]
    BY TypeStep DEF Typed, TypeOK
  <2>1. CASE Service
    <3>1. PICK c \in Request : Error(c) \/ \E eou \in BOOLEAN : Result(c, eou)
      BY <2>1 DEF Service
    <3>2. /\ early \subseteq early' /\ answered \subseteq answered'
          /\ errors' = errors \/ errors' = [errors EXCEPT ![c] = errors[c] + 1]
      BY <3>1, CallbackBegins
    <3> QED
      BY <2>t, <3>2
  <2>2. CASE ~Service
    <3>1. UNCHANGED <<early, answered, errors>>
      BY <2>2 DEF Next, Client, OnOpen, OnClose, ProcessOther, ProcessRecognize, ProcessStop,
           Mrcp, StartConnection, StoreConnection, SetWaitingVad, RespondInProgress, RespondStop,
           EventLoop, RunStop, RunDisable, RunSend, OnVoice, OnVoiceFeed, Worker, OnResultVad,
           OnResultRecognizing, OnResultEou, SendResultEvent, OnError, SendErrorEvent, vars,
           grpc, service
    <3> QED
      BY <2>t, <3>1
  <2> QED
    BY <2>1, <2>2
<1>2. \A c \in Request : Reports(c) > 1 => Reports(c)' > 1
  BY <1>1 DEF Reports
<1>3. Disturbed \subseteq Disturbed'
  BY <1>1, <1>2 DEF Disturbed
<1>4. ASSUME NEW r \in Request, CalmUntil(r)' PROVE CalmUntil(r)
  BY <1>1, <1>3, <1>4 DEF CalmUntil
<1>5. Calm' => Calm
  BY <1>3 DEF Calm
<1> QED
  BY <1>1, <1>4, <1>5

\* A callback that is not early begins when process_recognize() has returned ...
LEMMA InItsTime ==
  ASSUME Typed, NEW c \in Request, Error(c) \/ \E eou \in BOOLEAN : Result(c, eou),
         c \notin early'
  PROVE  mrcp \in {"idle", "stopping"}
<1>1. early' = IF Starting THEN early \cup {c} ELSE early
  BY CallbackBegins
<1>2. ~Starting
  BY <1>1
<1> QED
  BY <1>2 DEF Starting, Typed, TypeOK

\* ... and, unless its call is disturbed, none begins when a callback has the outcome.
LEMMA OnceOver ==
  ASSUME Typed, Calm', NEW c \in Request, Error(c) \/ \E eou \in BOOLEAN : Result(c, eou)
  PROVE  ~Over(c)
<1>1. CASE Error(c)
  <2>1. errors' = [errors EXCEPT ![c] = errors[c] + 1] /\ answered' = answered
    BY <1>1, CallbackBegins
  <2>2. errors[c] \in Nat /\ errors'[c] = errors[c] + 1
    <3>1. errors \in [Request -> 0 .. 2]
      BY DEF Typed, TypeOK
    <3> QED
      BY <2>1, <3>1
  <2>3. ~(Reports(c)' > 1)
    BY DEF Calm, Disturbed
  <2>4. c \notin answered /\ errors[c] = 0
    BY <2>1, <2>2, <2>3 DEF Reports
  <2> QED
    BY <2>4 DEF Over, Typed, Calls
<1>2. ASSUME NEW eou \in BOOLEAN, Result(c, eou) PROVE ~Over(c)
  BY <1>2, CallbackBegins DEF Over
<1> QED
  BY <1>1, <1>2

-----------------------------------------------------------------------------
(* The audio.                                                               *)

\* Frames are kept only once a connection is stored, and fewer than FeedThreshold of them wait.
Listening ==
    /\ mrcp = "stored" \/ state # "idle" => connection \in Request
    /\ media = "appended" \/ worker.at = "recognizing" => state # "idle"
    /\ Len(audioBuffer) <= IF media = "idle" THEN FeedThreshold - 1 ELSE FeedThreshold

LEMMA ListeningStep == Typed /\ Listening /\ [Next]_vars => Listening'
<1> SUFFICES ASSUME Typed, Listening, [Next]_vars PROVE Listening'
  OBVIOUS
<1>t. /\ audioBuffer \in Seq(0 .. MaxRequests) /\ FeedThreshold \in Nat \ {0}
      /\ connection \in 0 .. Garbage /\ recognizeRequest \in 0 .. MaxRequests
      /\ worker \in [at : {"next", "vad", "recognizing", "eou", "complete", "error", "failed"},
                      conn : 0 .. MaxRequests, eou : BOOLEAN]
      /\ Len(audioBuffer) \in Nat
  BY ChannelAssumption DEF Typed, TypeOK
<1>1. CASE OnVoice
  <2>1. Len(audioBuffer') = Len(audioBuffer) + 1 /\ media = "idle" /\ media' = "appended"
    BY <1>1, <1>t DEF OnVoice
  <2>2. Len(audioBuffer') <= FeedThreshold
    BY <1>t, <2>1 DEF Listening
  <2>3. state # "idle" /\ UNCHANGED <<state, connection, mrcp, worker>>
    BY <1>1 DEF OnVoice, shared
  <2> QED
    BY <2>1, <2>2, <2>3 DEF Listening
<1>2. CASE OnVoiceFeed
  <2>1. media = "appended" /\ media' = "idle" /\ UNCHANGED <<state, connection, mrcp, worker>>
    BY <1>2 DEF OnVoiceFeed, shared
  <2>2. connection # None
    BY <2>1 DEF Listening, Request, None
  <2>3. Len(audioBuffer') <= FeedThreshold - 1
    <3>1. CASE Len(audioBuffer) >= FeedThreshold
      <4>1. audioBuffer' = <<>>
        BY <1>2, <2>2, <3>1 DEF OnVoiceFeed
      <4> QED
        BY <1>t, <4>1
    <3>2. CASE ~(Len(audioBuffer) >= FeedThreshold)
      <4>1. audioBuffer' = audioBuffer
        BY <1>2, <3>2 DEF OnVoiceFeed
      <4> QED
        BY <1>t, <3>2, <4>1
    <3> QED
      BY <3>1, <3>2
  <2> QED
    BY <2>1, <2>3 DEF Listening
<1>3. CASE StoreConnection
  <2>1. recognizeRequest \in Request
    BY <1>3, <1>t DEF StoreConnection, Typed, Calls, Request, None
  <2> QED
    BY <1>3, <2>1 DEF StoreConnection, audio, Listening
<1>4. CASE SetWaitingVad
  BY <1>4 DEF SetWaitingVad, audio, Listening
<1>5. CASE OnResultRecognizing
  BY <1>5 DEF OnResultRecognizing, audio, Listening, At
<1>6. CASE OnResultVad
  BY <1>6, <1>t DEF OnResultVad, audio, shared, Listening, At
<1>7. CASE UNCHANGED <<state, connection, audioBuffer, media>>
           /\ (mrcp' = mrcp \/ mrcp' # "stored")
           /\ (worker' = worker \/ worker'.at # "recognizing")
  BY <1>7 DEF Listening
<1>8. ProcessRecognize \/ ProcessStop \/ StartConnection \/ RespondInProgress \/ RespondStop
      => UNCHANGED <<state, connection, audioBuffer, media, worker>> /\ mrcp' # "stored"
  BY DEF ProcessRecognize, ProcessStop, StartConnection, RespondInProgress, RespondStop, audio,
         shared
<1>9. Service \/ OnResultEou \/ SendResultEvent \/ OnError \/ SendErrorEvent
      => UNCHANGED <<state, connection, audioBuffer, media, mrcp>> /\ worker'.at # "recognizing"
  BY <1>t DEF Service, Error, Result, Begin, OnResultEou, SendResultEvent, OnError, SendErrorEvent,
              Idle, audio, shared
<1>10. \/ UNCHANGED <<state, connection, audioBuffer, media, mrcp, worker>>
       \/ ProcessRecognize \/ ProcessStop \/ StartConnection \/ StoreConnection
       \/ SetWaitingVad \/ RespondInProgress \/ RespondStop
       \/ Service \/ OnResultVad \/ OnResultRecognizing \/ OnResultEou \/ SendResultEvent
       \/ OnError \/ SendErrorEvent \/ OnVoice \/ OnVoiceFeed
  BY DEF Next, Client, OnOpen, OnClose, ProcessOther, Mrcp, EventLoop, RunStop, RunDisable, RunSend,
         Worker, vars, audio, shared
<1> QED
  BY <1>1, <1>2, <1>3, <1>4, <1>5, <1>6, <1>7, <1>8, <1>9, <1>10

\* The buffer and what was fed are in the order of the requests; what waits is not older than
\* what was fed; and only a connection's first feed may hold frames from before its request.
Sorted(s) == \A i, j \in DOMAIN s : i < j => s[i] <= s[j]

FramesOf(c) ==
    /\ Sorted(fed[c])
    /\ \A i \in DOMAIN fed[c] :
           /\ fed[c][i] <= recognizeRequest
           /\ \A j \in DOMAIN audioBuffer : fed[c][i] <= audioBuffer[j]
           /\ fed[c][i] < c => i <= FeedThreshold
    /\ fed[c] # <<>> => c <= recognizeRequest /\ \A j \in DOMAIN audioBuffer : c <= audioBuffer[j]

InTime ==
    /\ Sorted(audioBuffer)
    /\ \A j \in DOMAIN audioBuffer : audioBuffer[j] <= recognizeRequest
    /\ \A c \in Request : FramesOf(c)

\* Sequences of numbers in order, joined.
LEMMA SortedConcat ==
  ASSUME NEW N, N \in SUBSET Nat, NEW a \in Seq(N), NEW b \in Seq(N), Sorted(a), Sorted(b),
         \A i \in DOMAIN a, j \in DOMAIN b : a[i] <= b[j]
  PROVE  Sorted(a \o b)
<1>1. /\ a \o b \in Seq(N) /\ DOMAIN (a \o b) = 1 .. Len(a) + Len(b)
      /\ Len(a) \in Nat /\ Len(b) \in Nat /\ DOMAIN a = 1 .. Len(a) /\ DOMAIN b = 1 .. Len(b)
      /\ \A i \in 1 .. Len(a) + Len(b) : (a \o b)[i] = IF i <= Len(a) THEN a[i] ELSE b[i - Len(a)]
  BY ConcatProperties
<1> SUFFICES ASSUME NEW i \in DOMAIN (a \o b), NEW j \in DOMAIN (a \o b), i < j
             PROVE  (a \o b)[i] <= (a \o b)[j]
  BY DEF Sorted
<1>2. CASE j <= Len(a)
  <2>1. i \in DOMAIN a /\ j \in DOMAIN a /\ i <= Len(a)
    BY <1>1, <1>2
  <2> QED
    BY <1>1, <1>2, <2>1 DEF Sorted
<1>3. CASE i <= Len(a) /\ ~(j <= Len(a))
  <2>1. i \in DOMAIN a /\ j - Len(a) \in DOMAIN b
    BY <1>1, <1>3
  <2> QED
    BY <1>1, <1>3, <2>1
<1>4. CASE ~(i <= Len(a))
  <2>1. i - Len(a) \in DOMAIN b /\ j - Len(a) \in DOMAIN b /\ i - Len(a) < j - Len(a)
        /\ ~(j <= Len(a))
    BY <1>1, <1>4
  <2> QED
    BY <1>1, <1>4, <2>1 DEF Sorted
<1> QED
  BY <1>2, <1>3, <1>4

LEMMA InTimeStep == Typed /\ Listening /\ InTime /\ [Next]_vars => InTime'
<1> SUFFICES ASSUME Typed, Listening, InTime, [Next]_vars PROVE InTime'
  OBVIOUS
<1> DEFINE N == 0 .. MaxRequests
<1>t. /\ audioBuffer \in Seq(N) /\ \A c \in Request : fed[c] \in Seq(N)
      /\ fed \in [Request -> Seq(N)] /\ recognizeRequest \in N /\ N \in SUBSET Nat
      /\ \A c \in Request : c \in Nat
      /\ FeedThreshold \in Nat \ {0}
  BY ChannelAssumption DEF Typed, TypeOK, Request
<1>n. \A n \in N : n \in Nat
  OBVIOUS
<1> HIDE DEF N
<1>v. /\ \A j \in DOMAIN audioBuffer : audioBuffer[j] \in Nat
      /\ \A c \in Request : \A i \in DOMAIN fed[c] : fed[c][i] \in Nat /\ i \in Nat
  <2>1. ASSUME NEW s \in Seq(N), NEW i \in DOMAIN s PROVE s[i] \in Nat /\ i \in Nat
    <3>1. i \in 1 .. Len(s)
      BY LenProperties
    <3>2. s[i] \in N
      BY <3>1, ElementOfSeq
    <3> QED
      BY <1>n, <3>1, <3>2
  <2> QED
    BY <1>t, <2>1
<1>1. CASE OnVoice
  <2>1. audioBuffer' = Append(audioBuffer, recognizeRequest) /\ UNCHANGED <<fed, recognizeRequest>>
    BY <1>1 DEF OnVoice, shared
  <2>2. \A j \in DOMAIN audioBuffer' :
           \/ j \in DOMAIN audioBuffer /\ audioBuffer'[j] = audioBuffer[j] /\ j < Len(audioBuffer) + 1
           \/ j = Len(audioBuffer) + 1 /\ audioBuffer'[j] = recognizeRequest
    BY <1>t, <2>1, AppendProperties
  <2>3. Sorted(audioBuffer')
    BY <1>t, <1>v, <2>2 DEF InTime, Sorted
  <2>4. \A j \in DOMAIN audioBuffer' : audioBuffer'[j] <= recognizeRequest'
    BY <1>t, <2>1, <2>2 DEF InTime
  <2>5. ASSUME NEW c \in Request PROVE FramesOf(c)'
    <3>1. FramesOf(c)
      BY DEF InTime
    <3>2. \A j \in DOMAIN audioBuffer' : audioBuffer'[j] = recognizeRequest
             \/ \E k \in DOMAIN audioBuffer : audioBuffer'[j] = audioBuffer[k]
      BY <2>2
    <3>3. /\ \A i \in DOMAIN fed[c], j \in DOMAIN audioBuffer' : fed[c][i] <= audioBuffer'[j]
          /\ fed[c] # <<>> => \A j \in DOMAIN audioBuffer' : c <= audioBuffer'[j]
      BY <3>1, <3>2 DEF FramesOf
    <3> QED
      BY <2>1, <3>1, <3>3 DEF FramesOf, Sorted
  <2> QED
    BY <2>3, <2>4, <2>5 DEF InTime, Sorted
<1>2. CASE ProcessRecognize
  <2>1. UNCHANGED <<audioBuffer, fed>> /\ recognizeRequest' = recognizeRequest + 1
    BY <1>2 DEF ProcessRecognize, audio
  <2>2. \A n \in Nat : n <= recognizeRequest => n <= recognizeRequest'
    BY <1>t, <2>1
  <2> QED
    BY <1>t, <1>v, <2>1, <2>2 DEF InTime, FramesOf
<1>3. CASE OnVoiceFeed /\ ~UNCHANGED <<audioBuffer, fed>>
  <2>1. /\ audioBuffer' = <<>> /\ recognizeRequest' = recognizeRequest
        /\ fed' = [c \in Request |-> fed[c] \o (IF c = connection THEN audioBuffer ELSE <<>>)]
        /\ media = "appended"
    BY <1>3 DEF OnVoiceFeed, shared
  <2>2. connection \in Request /\ connection <= recognizeRequest
    BY <2>1 DEF Listening, Typed, Calls
  <2>3. Len(audioBuffer) <= FeedThreshold
    BY <2>1 DEF Listening
  <2>4. Sorted(audioBuffer') /\ DOMAIN audioBuffer' = {}
    BY <2>1 DEF Sorted
  <2>5. ASSUME NEW c \in Request, c # connection PROVE FramesOf(c)'
    <3>1. fed'[c] = fed[c]
      <4>1. fed'[c] = fed[c] \o <<>>
        BY <2>1, <2>5
      <4> QED
        BY <1>t, <4>1, ConcatEmptySeq
    <3> QED
      BY <2>1, <2>4, <3>1 DEF InTime, FramesOf
  <2>6. ASSUME NEW c \in Request, c = connection PROVE FramesOf(c)'
    <3> DEFINE old == fed[c]
               new == old \o audioBuffer
    <3>1. fed'[c] = new /\ old \in Seq(N)
      BY <1>t, <2>1, <2>6
    <3>2. /\ new \in Seq(N) /\ DOMAIN new = 1 .. Len(old) + Len(audioBuffer)
          /\ Len(old) \in Nat /\ Len(audioBuffer) \in Nat
          /\ DOMAIN old = 1 .. Len(old) /\ DOMAIN audioBuffer = 1 .. Len(audioBuffer)
          /\ \A i \in 1 .. Len(old) + Len(audioBuffer) :
                new[i] = IF i <= Len(old) THEN old[i] ELSE audioBuffer[i - Len(old)]
      BY <1>t, <3>1, ConcatProperties
    <3>3. FramesOf(c)
      BY <2>2 DEF InTime
    <3>4. Sorted(new)
      <4>1. Sorted(old) /\ Sorted(audioBuffer)
            /\ \A i \in DOMAIN old, j \in DOMAIN audioBuffer : old[i] <= audioBuffer[j]
        <5>1. Sorted(old) /\ Sorted(audioBuffer)
          BY <3>3 DEF FramesOf, InTime
        <5>2. \A i \in DOMAIN old : \A j \in DOMAIN audioBuffer : old[i] <= audioBuffer[j]
          BY <3>3 DEF FramesOf
        <5> QED
          BY <5>1, <5>2
      <4> QED
        BY <1>t, <3>1, <4>1, SortedConcat
    <3>5. ASSUME NEW i \in DOMAIN new
          PROVE  new[i] <= recognizeRequest /\ (new[i] < c => i <= FeedThreshold)
      <4>1. CASE i <= Len(old)
        <5>1. i \in DOMAIN old /\ new[i] = old[i]
          BY <3>2, <4>1
        <5>2. old[i] <= recognizeRequest /\ (old[i] < c => i <= FeedThreshold)
          BY <3>3, <5>1 DEF FramesOf
        <5> QED
          BY <5>1, <5>2
      <4>2. CASE ~(i <= Len(old))
        <5>1. i - Len(old) \in DOMAIN audioBuffer /\ new[i] = audioBuffer[i - Len(old)]
          BY <3>2, <4>2
        <5>2. new[i] <= recognizeRequest
          BY <5>1 DEF InTime
        <5>3. CASE old = <<>>
          <6>1. new = audioBuffer
            BY <1>t, <5>3, ConcatEmptySeq
          <6>2. i <= Len(audioBuffer)
            BY <3>2, <6>1
          <6> QED
            BY <1>t, <2>3, <3>2, <5>2, <6>1, <6>2
        <5>4. CASE old # <<>>
          <6>1. c <= new[i]
            BY <3>3, <5>1, <5>4 DEF FramesOf
          <6>2. new[i] \in Nat /\ c \in Nat
            BY <1>t, <1>v, <2>2, <5>1
          <6> QED
            BY <5>2, <6>1, <6>2
        <5> QED
          BY <5>3, <5>4
      <4> QED
        BY <4>1, <4>2
    <3> HIDE DEF new, old
    <3> QED
      BY <2>1, <2>2, <2>4, <2>6, <3>1, <3>4, <3>5 DEF FramesOf, Sorted
  <2> QED
    <3>1. \A c \in Request : FramesOf(c)'
      BY <2>5, <2>6
    <3> QED
      BY <2>4, <3>1 DEF InTime
<1>4. CASE UNCHANGED <<audioBuffer, fed, recognizeRequest>>
  BY <1>4 DEF InTime, FramesOf
<1>5. \/ UNCHANGED <<audioBuffer, fed, recognizeRequest>>
      \/ OnVoice \/ ProcessRecognize \/ (OnVoiceFeed /\ recognizeRequest' = recognizeRequest)
  BY DEF Next, Client, OnOpen, OnClose, ProcessOther, ProcessStop, Mrcp, StartConnection,
         StoreConnection, SetWaitingVad, RespondInProgress, RespondStop, EventLoop, RunStop,
         RunDisable, RunSend, OnVoiceFeed, Worker, OnResultVad, OnResultRecognizing, OnResultEou,
         SendResultEvent, OnError, SendErrorEvent, Service, Error, Result, Begin, vars, audio, shared
<1> QED
  BY <1>1, <1>2, <1>3, <1>4, <1>5

\* At most FeedThreshold frames from before a RECOGNIZE reach its connection, and they come
\* first: in any session, whatever callbacks come and whenever.
THEOREM StaleAudio == Spec => []StaleAudioBounded
<1>1. Init => Listening /\ InTime
  <2> SUFFICES ASSUME Init PROVE Listening /\ InTime
    OBVIOUS
  <2>1. Listening
    BY ChannelAssumption DEF Init, Listening, Idle
  <2> QED
    BY <2>1 DEF Init, InTime, FramesOf, Sorted
<1>2. Typed /\ InTime => StaleAudioBounded
  <2> SUFFICES ASSUME Typed, InTime, NEW c \in Request
               PROVE  /\ Cardinality({i \in DOMAIN fed[c] : fed[c][i] < c}) <= FeedThreshold
                      /\ \A i, j \in DOMAIN fed[c] : i < j => fed[c][i] <= fed[c][j]
    BY DEF StaleAudioBounded
  <2> DEFINE stale == {i \in DOMAIN fed[c] : fed[c][i] < c}
  <2>1. FramesOf(c)
    BY DEF InTime
  <2>2. stale \subseteq 1 .. FeedThreshold
    <3>1. \A i \in DOMAIN fed[c] : i \in Nat \ {0}
      BY DEF Typed, TypeOK
    <3>2. \A i \in stale : i \in DOMAIN fed[c] /\ i <= FeedThreshold
      BY <2>1 DEF FramesOf
    <3> HIDE DEF stale
    <3> QED
      BY <3>1, <3>2, ChannelAssumption
  <2>3. IsFiniteSet(1 .. FeedThreshold) /\ Cardinality(1 .. FeedThreshold) = FeedThreshold
    BY FS_Interval, ChannelAssumption
  <2>4. Cardinality(stale) <= FeedThreshold
    BY <2>2, <2>3, FS_Subset
  <2> QED
    BY <2>1, <2>4 DEF FramesOf, Sorted
<1> QED
  BY <1>1, <1>2, TypeInit, TypeStep, ListeningStep, InTimeStep, PTL DEF Spec

-----------------------------------------------------------------------------
(* What is posted.                                                          *)

\* The closures of a kind.
About(messages, r) == {x \in Closure : x.request = r /\ x.message \in messages}
Of(message) == {x \in Closure : x.message = message}
Stops == {x \in Closure : x.kind = "stop"}

\* A set of answers to the client.
Answers(E) == \A x \in E : x.kind = "send"

\* Who posts what.
Posting(closure) ==
    \/ OnOpen /\ closure = Send("opened", None, None)
    \/ OnClose /\ closure = Send("closed", None, None)
    \/ ProcessOther /\ closure = Send("response", None, None)
    \/ RespondInProgress /\ closure = Send("inprogress", recognizeRequest, None)
    \/ RespondStop /\ closure = Send("stopped", recognizeRequest, None)
    \/ OnResultVad /\ state = "waiting_vad"
         /\ closure = Send("startofinput", recognizeRequest, worker.conn)
    \/ OnResultEou /\ state = "recognizing" /\ worker.eou /\ closure = StopFor(worker.conn)
    \/ SendResultEvent /\ closure = Send("complete", recognizeRequest, worker.conn)
    \/ OnError /\ closure = StopFor(worker.conn)
    \/ SendErrorEvent /\ closure = Send("error", recognizeRequest, worker.conn)

\* A step posts nothing, or a closure at the end, or the event loop takes the first.
LEMMA PostedSteps ==
  ASSUME Typed, [Next]_vars
  PROVE  \/ UNCHANGED <<queue, delivered>> /\ ~RunSend /\ ~RunStop /\ \A x : ~Posting(x)
         \/ RunStop
         \/ RunSend
         \/ \E closure \in Closure : /\ Post(closure) /\ delivered' = delivered /\ Posting(closure)
                                     /\ ~RunSend /\ ~RunStop
<1>1. worker.at # "next" => worker.conn \in Request /\ worker.conn \in 0 .. MaxRequests
  BY DEF Typed, TypeOK, Callback
<1>c. /\ \A message \in Message : Send(message, None, None) \in Closure
      /\ \A message \in Message : Send(message, recognizeRequest, None) \in Closure
      /\ \A message \in Message : worker.at # "next" =>
             Send(message, recognizeRequest, worker.conn) \in Closure
      /\ worker.at # "next" => StopFor(worker.conn) \in Closure
  BY <1>1, ClosureTypes, ChannelAssumption DEF Typed, TypeOK, None
<1>m. {"opened", "closed", "response", "inprogress", "startofinput", "stopped", "complete", "error"}
      \in SUBSET Message
  BY DEF Message, Final
<1>2. /\ OnOpen => Post(Send("opened", None, None)) /\ delivered' = delivered
      /\ OnClose => Post(Send("closed", None, None)) /\ delivered' = delivered
      /\ ProcessOther => Post(Send("response", None, None)) /\ delivered' = delivered
      /\ RespondInProgress => /\ Post(Send("inprogress", recognizeRequest, None))
                              /\ delivered' = delivered
      /\ RespondStop => Post(Send("stopped", recognizeRequest, None)) /\ delivered' = delivered
      /\ OnResultVad /\ state = "waiting_vad" =>
             /\ Post(Send("startofinput", recognizeRequest, worker.conn))
             /\ delivered' = delivered /\ worker.at # "next"
      /\ OnResultEou /\ state = "recognizing" /\ worker.eou =>
             Post(StopFor(worker.conn)) /\ delivered' = delivered /\ worker.at # "next"
      /\ SendResultEvent => /\ Post(Send("complete", recognizeRequest, worker.conn))
                            /\ delivered' = delivered /\ worker.at # "next"
      /\ OnError => Post(StopFor(worker.conn)) /\ delivered' = delivered /\ worker.at # "next"
      /\ SendErrorEvent => /\ Post(Send("error", recognizeRequest, worker.conn))
                           /\ delivered' = delivered /\ worker.at # "next"
  BY DEF OnOpen, OnClose, ProcessOther, RespondInProgress, RespondStop, OnResultVad, OnResultEou,
         SendResultEvent, OnError, SendErrorEvent, At
<1>3. \A x : Posting(x) => x \in Closure /\ Post(x) /\ delivered' = delivered
  BY <1>2, <1>c, <1>m DEF Posting
<1>4. \A x : Post(x) => Len(queue') = Len(queue) + 1
  BY DEF Post, Typed, TypeOK
<1>5. RunSend \/ RunStop => Len(queue') = Len(queue) - 1 /\ Len(queue) \in Nat
  BY HeadTailProperties DEF RunSend, RunStop, Typed, TypeOK
<1>6. \A x : Posting(x) => ~RunSend /\ ~RunStop
  BY <1>3, <1>4, <1>5
<1>7. \/ UNCHANGED <<queue, delivered>> \/ RunStop \/ RunSend \/ \E x : Posting(x)
  <2>1. OnOpen \/ OnClose \/ ProcessOther \/ RespondInProgress \/ RespondStop \/ SendResultEvent
        \/ OnError \/ SendErrorEvent \/ (OnResultVad /\ state = "waiting_vad")
        \/ (OnResultEou /\ state = "recognizing" /\ worker.eou)
        => \E x : Posting(x)
    BY DEF Posting
  <2>2. \/ UNCHANGED <<queue, delivered>> \/ RunStop \/ RunSend
        \/ OnOpen \/ OnClose \/ ProcessOther \/ RespondInProgress \/ RespondStop \/ SendResultEvent
        \/ OnError \/ SendErrorEvent \/ (OnResultVad /\ state = "waiting_vad")
        \/ (OnResultEou /\ state = "recognizing" /\ worker.eou)
    BY DEF Next, Client, ProcessRecognize, ProcessStop, Mrcp, StartConnection, StoreConnection,
           SetWaitingVad, EventLoop, RunDisable, OnVoice, OnVoiceFeed, Worker, OnResultVad,
           OnResultRecognizing, OnResultEou, Service, Error, Result, Begin, vars
  <2> QED
    BY <2>1, <2>2
<1> QED
  BY <1>3, <1>4, <1>5, <1>6, <1>7

LEMMA PostedTypes ==
  ASSUME Typed
  PROVE  /\ delivered \in Seq(Closure) /\ queue \in Seq(Closure) /\ Posted \in Seq(Closure)
         /\ \A E : Occurs(Posted, E) <=> Occurs(delivered, E) \/ Occurs(queue, E)
         /\ \A E : AtMostOnce(Posted, E) => ~(Occurs(delivered, E) /\ Occurs(queue, E))
<1>1. delivered \in Seq(Closure) /\ queue \in Seq(Closure)
  BY DEF Typed, TypeOK, Closure
<1> QED
  BY <1>1, ConcatProperties, KindsOfConcat DEF Posted

\* What a new closure changes ...
LEMMA AfterPost ==
  ASSUME Typed, NEW closure \in Closure, Post(closure), delivered' = delivered, NEW E, NEW F
  PROVE  /\ Occurs(Posted', E) <=> Occurs(Posted, E) \/ closure \in E
         /\ Occurs(queue', E) <=> Occurs(queue, E) \/ closure \in E
         /\ AtMostOnce(Posted, E) /\ ~(closure \in E /\ Occurs(Posted, E)) => AtMostOnce(Posted', E)
         /\ AtMostOnce(queue, E) /\ ~(closure \in E /\ Occurs(queue, E)) => AtMostOnce(queue', E)
         /\ Preceded(Posted, E, F) /\ ~(closure \in E /\ ~Occurs(Posted, F))
                => Preceded(Posted', E, F)
         /\ Preceded(queue, E, F) /\ ~(closure \in E /\ ~Occurs(queue, F)) => Preceded(queue', E, F)
<1>1. delivered \in Seq(Closure) /\ queue \in Seq(Closure) /\ Posted \in Seq(Closure)
  BY PostedTypes
<1>2. queue' = Append(queue, closure)
  BY DEF Post
<1>3. delivered \o Append(queue, closure) = Append(delivered \o queue, closure)
  BY <1>1, AppendToConcat
<1>4. Posted' = Append(Posted, closure)
  BY <1>2, <1>3 DEF Posted
<1> QED
  BY <1>1, <1>2, <1>4, KindsOfAppend

\* ... what delivering an answer changes ...
LEMMA AfterSend ==
  ASSUME Typed, RunSend, NEW E, NEW F
  PROVE  /\ Posted' = Posted /\ Head(queue) \in Closure
         /\ Head(queue).kind = "send"
         /\ Occurs(delivered', E) <=> Occurs(delivered, E) \/ Head(queue) \in E
         /\ Occurs(queue, E) <=> Occurs(queue', E) \/ Head(queue) \in E
         /\ AtMostOnce(queue, E) => AtMostOnce(queue', E)
         /\ Preceded(queue, E, F) /\ Head(queue) \notin F
                => Preceded(queue', E, F) /\ Head(queue) \notin E
<1>1. delivered \in Seq(Closure) /\ queue \in Seq(Closure)
  BY PostedTypes
<1>2. /\ queue # <<>> /\ queue' = Tail(queue) /\ delivered' = Append(delivered, Head(queue))
      /\ Head(queue).kind = "send"
  BY DEF RunSend
<1>3. Head(queue) \in Closure
  BY <1>1, <1>2, HeadTailProperties
<1>4. Append(delivered, Head(queue)) \o Tail(queue) = delivered \o queue
  BY <1>1, <1>2, MoveHead
<1>5. Posted' = Posted
  BY <1>2, <1>4 DEF Posted
<1>6. Occurs(delivered', E) <=> Occurs(delivered, E) \/ Head(queue) \in E
  BY <1>1, <1>2, <1>3, KindsOfAppend
<1>7. /\ Occurs(queue, E) <=> Occurs(queue', E) \/ Head(queue) \in E
      /\ AtMostOnce(queue, E) => AtMostOnce(queue', E)
      /\ Preceded(queue, E, F) /\ Head(queue) \notin F
                => Preceded(queue', E, F) /\ Head(queue) \notin E
  BY <1>1, <1>2, KindsOfTail
<1> QED
  BY <1>2, <1>3, <1>5, <1>6, <1>7

\* ... and what running a stop changes.
LEMMA AfterStop ==
  ASSUME Typed, RunStop, NEW E, NEW F
  PROVE  /\ delivered' = delivered /\ Head(queue) \in Stops
         /\ Occurs(queue, E) <=> Occurs(queue', E) \/ Head(queue) \in E
         /\ AtMostOnce(queue, E) => AtMostOnce(queue', E) /\ ~(Head(queue) \in E /\ Occurs(queue', E))
         /\ Occurs(Posted', E) => Occurs(Posted, E)
         /\ AtMostOnce(Posted, E) => AtMostOnce(Posted', E)
         /\ Answers(E) => (Occurs(Posted', E) <=> Occurs(Posted, E))
         /\ Answers(F) /\ Preceded(Posted, E, F) => Preceded(Posted', E, F)
<1>1. delivered \in Seq(Closure) /\ queue \in Seq(Closure)
  BY PostedTypes
<1>2. /\ queue # <<>> /\ queue' = Tail(queue) /\ delivered' = delivered
      /\ Head(queue).kind = "stop"
  BY DEF RunStop
<1>3. Head(queue) \in Stops
  BY <1>1, <1>2, HeadTailProperties DEF Stops
<1>4. \A G : Answers(G) => Head(queue) \notin G
  BY <1>2 DEF Answers
<1>5. /\ Occurs(queue, E) <=> Occurs(queue', E) \/ Head(queue) \in E
      /\ AtMostOnce(queue, E) => AtMostOnce(queue', E) /\ ~(Head(queue) \in E /\ Occurs(queue', E))
  BY <1>1, <1>2, KindsOfTail
<1>6. Posted = delivered \o queue /\ Posted' = delivered \o Tail(queue)
  BY <1>2 DEF Posted
<1>7. /\ Occurs(delivered \o Tail(queue), E) => Occurs(delivered \o queue, E)
      /\ Occurs(delivered \o queue, E) => Occurs(delivered \o Tail(queue), E) \/ Head(queue) \in E
      /\ AtMostOnce(delivered \o queue, E) => AtMostOnce(delivered \o Tail(queue), E)
      /\ Preceded(delivered \o queue, E, F) /\ Head(queue) \notin F
            => Preceded(delivered \o Tail(queue), E, F)
  BY <1>1, <1>2, KindsOfDrop
<1>8. /\ Occurs(Posted', E) => Occurs(Posted, E)
      /\ Occurs(Posted, E) => Occurs(Posted', E) \/ Head(queue) \in E
      /\ AtMostOnce(Posted, E) => AtMostOnce(Posted', E)
      /\ Preceded(Posted, E, F) /\ Head(queue) \notin F => Preceded(Posted', E, F)
  BY <1>6, <1>7
<1> QED
  BY <1>2, <1>3, <1>4, <1>5, <1>8

\* Which kinds are answers, and which kinds the closures that are posted are of.
LEMMA Kinds ==
  /\ \A messages, r : messages \subseteq Message => Answers(About(messages, r))
  /\ \A message \in Message : Answers(Of(message))
  /\ \A m \in Message, q, from \in 0 .. MaxRequests :
        /\ \A messages, r : Send(m, q, from) \in About(messages, r) <=> q = r /\ m \in messages
        /\ \A message : Send(m, q, from) \in Of(message) <=> m = message
        /\ Send(m, q, from) \notin Stops
  /\ \A from \in Request :
        /\ \A r : \A messages \in SUBSET Message : StopFor(from) \notin About(messages, r)
        /\ \A message \in Message : StopFor(from) \notin Of(message)
        /\ StopFor(from) \in Stops
<1>1. \A x \in Closure : \/ x.kind = "send" /\ x.message \in Message
                         \/ x.kind = "stop" /\ x.message = "none"
  BY DEF Closure, Answer
<1>2. "none" \notin Message
  BY DEF Message, Final
<1>3. /\ \A messages, r : messages \subseteq Message => Answers(About(messages, r))
      /\ \A message \in Message : Answers(Of(message))
  BY <1>1, <1>2 DEF Answers, About, Of
<1>4. ASSUME NEW m \in Message, NEW q \in 0 .. MaxRequests, NEW from \in 0 .. MaxRequests
      PROVE  /\ \A messages, r : Send(m, q, from) \in About(messages, r) <=> q = r /\ m \in messages
             /\ \A message : Send(m, q, from) \in Of(message) <=> m = message
             /\ Send(m, q, from) \notin Stops
  <2>1. Send(m, q, from) \in Closure
    BY ClosureTypes
  <2> QED
    BY <2>1 DEF About, Of, Stops, Send
<1>5. ASSUME NEW from \in Request
      PROVE  /\ \A r : \A messages \in SUBSET Message : StopFor(from) \notin About(messages, r)
             /\ \A message \in Message : StopFor(from) \notin Of(message)
             /\ StopFor(from) \in Stops
  <2>1. StopFor(from) \in Closure
    BY ClosureTypes
  <2> QED
    BY <1>2, <2>1 DEF About, Of, Stops, StopFor
<1> QED
  BY <1>3, <1>4, <1>5

\* Answers are never taken back, and new ones are posted.
LEMMA Persist ==
  ASSUME Typed, [Next]_vars, NEW E, Answers(E)
  PROVE  /\ Occurs(Posted, E) => Occurs(Posted', E)
         /\ Occurs(Posted', E) => Occurs(Posted, E) \/ \E closure \in E : Posting(closure)
         /\ Occurs(delivered, E) => Occurs(delivered', E)
         /\ Occurs(delivered', E) => Occurs(Posted, E)
<1>1. CASE UNCHANGED <<queue, delivered>>
  BY <1>1, PostedTypes DEF Posted
<1>2. CASE RunStop
  BY <1>2, AfterStop, PostedTypes
<1>3. CASE RunSend
  BY <1>3, AfterSend, PostedTypes
<1>4. ASSUME NEW closure \in Closure, Post(closure), delivered' = delivered, Posting(closure)
      PROVE  /\ Occurs(Posted, E) => Occurs(Posted', E)
             /\ Occurs(Posted', E) => Occurs(Posted, E) \/ \E c \in E : Posting(c)
             /\ Occurs(delivered, E) => Occurs(delivered', E)
             /\ Occurs(delivered', E) => Occurs(Posted, E)
  BY <1>4, AfterPost, PostedTypes
<1> QED
  BY <1>1, <1>2, <1>3, <1>4, PostedSteps

LEMMA FinishedIs == Typed => \A r : Finished(r) <=> Occurs(delivered, About(Final, r))
<1> SUFFICES ASSUME Typed PROVE \A r : Finished(r) <=> Occurs(delivered, About(Final, r))
  OBVIOUS
<1>1. delivered \in Seq(Closure)
  BY PostedTypes
<1>2. \A i \in DOMAIN delivered : delivered[i] \in Closure
  BY <1>1, ElementOfSeq
<1> QED
  BY <1>2 DEF Finished, Occurs, About

\* The requests count up.
LEMMA RequestsCount ==
  ASSUME Typed, [Next]_vars
  PROVE  /\ recognizeRequest \in 0 .. MaxRequests /\ recognizeRequest' \in 0 .. MaxRequests
         /\ IF ProcessRecognize THEN recognizeRequest' = recognizeRequest + 1
                                ELSE recognizeRequest' = recognizeRequest
<1>1. recognizeRequest \in 0 .. MaxRequests /\ recognizeRequest' \in 0 .. MaxRequests
  BY TypeStep DEF Typed, TypeOK
<1>2. ~ProcessRecognize => recognizeRequest' = recognizeRequest
  BY DEF Next, Client, OnOpen, OnClose, ProcessOther, ProcessStop, Mrcp, StartConnection,
         StoreConnection, SetWaitingVad, RespondInProgress, RespondStop, EventLoop, RunStop,
         RunDisable, RunSend, OnVoice, OnVoiceFeed, Worker, OnResultVad, OnResultRecognizing,
         OnResultEou, SendResultEvent, OnError, SendErrorEvent, Service, Error, Result, Begin, vars, shared
<1> QED
  BY <1>1, <1>2 DEF ProcessRecognize

\* What is posted about a request is posted while it is the current one.
LEMMA PostedAbout ==
  ASSUME Typed, [Next]_vars, NEW closure, Posting(closure), closure.request # None
  PROVE  /\ closure.request = recognizeRequest /\ recognizeRequest' = recognizeRequest
         /\ closure.from # None => worker.at # "next" /\ closure.from = worker.conn
         /\ \/ RespondInProgress /\ closure = Send("inprogress", recognizeRequest, None)
            \/ RespondStop /\ closure = Send("stopped", recognizeRequest, None)
            \/ OnResultVad /\ state = "waiting_vad"
                 /\ closure = Send("startofinput", recognizeRequest, worker.conn)
            \/ SendResultEvent /\ closure = Send("complete", recognizeRequest, worker.conn)
            \/ SendErrorEvent /\ closure = Send("error", recognizeRequest, worker.conn)
<1>1. \/ RespondInProgress /\ closure = Send("inprogress", recognizeRequest, None)
      \/ RespondStop /\ closure = Send("stopped", recognizeRequest, None)
      \/ OnResultVad /\ state = "waiting_vad"
           /\ closure = Send("startofinput", recognizeRequest, worker.conn)
      \/ SendResultEvent /\ closure = Send("complete", recognizeRequest, worker.conn)
      \/ SendErrorEvent /\ closure = Send("error", recognizeRequest, worker.conn)
  BY DEF Posting, Send, StopFor
<1>2. closure.request = recognizeRequest
  BY <1>1 DEF Send
<1>3. closure.from # None => worker.at # "next" /\ closure.from = worker.conn
  BY <1>1 DEF Send, OnResultVad, SendResultEvent, SendErrorEvent, At
<1>4. recognizeRequest' = recognizeRequest
  BY <1>1 DEF RespondInProgress, RespondStop, OnResultVad, SendResultEvent, SendErrorEvent, shared
<1> QED
  BY <1>1, <1>2, <1>3, <1>4

\* Nothing is posted about a request that has not come.
Named == \A r \in Request : r > recognizeRequest => ~Occurs(Posted, About(Message, r))

LEMMA NamedStep == Typed /\ Named /\ [Next]_vars => Named'
<1> SUFFICES ASSUME Typed, Named, [Next]_vars, NEW r \in Request, r > recognizeRequest',
                    Occurs(Posted', About(Message, r))
             PROVE  FALSE
  BY DEF Named
<1>1. r > recognizeRequest /\ r # None /\ r # recognizeRequest
  BY RequestsCount, ChannelAssumption DEF Request, None
<1>2. PICK closure \in About(Message, r) : Posting(closure)
  BY <1>1, Kinds, Persist DEF Named
<1>3. closure.request = r
  BY DEF About
<1> QED
  BY <1>1, <1>2, <1>3, PostedAbout

-----------------------------------------------------------------------------
(* The life of the channel.                                                 *)

\* The open is answered once, so nothing reopens a channel that is closing; and it is closed
\* while no request is in progress, after which none comes.
Phases ==
    /\ phase = "created" => ~Occurs(Posted, Of("opened"))
    /\ AtMostOnce(Posted, Of("opened"))
    /\ phase \notin {"created", "opening"} => Occurs(delivered, Of("opened"))
    /\ Occurs(queue, Of("closed")) => phase \in {"closing", "destroyed"}
    /\ phase # "open" => mrcp = "idle" /\ ~InProgress

LEMMA PhasesStep == Typed /\ Phases /\ [Next]_vars => Phases'
<1> SUFFICES ASSUME Typed, Phases, [Next]_vars PROVE Phases'
  OBVIOUS
<1> DEFINE opened == Of("opened")
           closed == Of("closed")
<1>k. Answers(opened) /\ Answers(closed) /\ \A r : Answers(About(Final, r))
  BY Kinds DEF Message
<1>o. \A x : /\ x \in opened => x.message = "opened"
             /\ x \in closed => x.message = "closed"
             /\ x \in Closure /\ x.message = "opened" => x \in opened
             /\ x \in Closure /\ x.message = "closed" => x \in closed
  BY DEF Of
<1> HIDE DEF opened, closed
<1> USE DEF Phases
<1>p. /\ phase = "created" => ~Occurs(Posted, opened)
      /\ AtMostOnce(Posted, opened)
      /\ phase \notin {"created", "opening"} => Occurs(delivered, opened)
      /\ Occurs(queue, closed) => phase \in {"closing", "destroyed"}
      /\ phase # "open" => mrcp = "idle" /\ ~InProgress
  BY DEF opened, closed
<1>e. ASSUME /\ phase' = "created" => ~Occurs(Posted', opened)
             /\ AtMostOnce(Posted', opened)
             /\ phase' \notin {"created", "opening"} => Occurs(delivered', opened)
             /\ Occurs(queue', closed) => phase' \in {"closing", "destroyed"}
             /\ phase' # "open" => mrcp' = "idle" /\ ~InProgress'
      PROVE  Phases'
  BY <1>e DEF opened, closed
<1>f. ~InProgress /\ recognizeRequest' = recognizeRequest => ~InProgress'
  <2> SUFFICES ASSUME ~InProgress, recognizeRequest' = recognizeRequest PROVE ~InProgress'
    OBVIOUS
  <2>1. Finished(recognizeRequest) => Occurs(delivered, About(Final, recognizeRequest))
    BY FinishedIs
  <2>2. Occurs(delivered', About(Final, recognizeRequest)) => Finished(recognizeRequest)'
    <3>1. Typed'
      BY TypeStep
    <3>2. (Typed => \A r : Finished(r) <=> Occurs(delivered, About(Final, r)))'
      BY FinishedIs, PTL
    <3>3. (\A r : Finished(r) <=> Occurs(delivered, About(Final, r)))'
      BY <3>1, <3>2
    <3> QED
      BY <3>3
  <2> QED
    BY <1>k, <2>1, <2>2, Persist DEF InProgress
<1>q. Occurs(delivered, opened) => ~Occurs(queue, opened)
  BY <1>p, PostedTypes
<1>1. CASE OnOpen
  <2>1. /\ phase = "created" /\ phase' = "opening" /\ delivered' = delivered
        /\ Post(Send("opened", None, None)) /\ UNCHANGED <<mrcp, recognizeRequest>>
    BY <1>1 DEF OnOpen, shared
  <2>2. Send("opened", None, None) \in Closure /\ Send("opened", None, None) \notin closed
    BY ClosureTypes, ChannelAssumption, <1>o DEF Message, None, Send
  <2>3. AtMostOnce(Posted', opened) /\ ~Occurs(queue', closed)
    BY <1>p, <2>1, <2>2, AfterPost
  <2> QED
    BY <1>e, <1>f, <1>p, <2>1, <2>3
<1>2. CASE OnClose
  <2>1. /\ phase = "open" /\ phase' = "closing" /\ delivered' = delivered /\ mrcp = "idle"
        /\ Post(Send("closed", None, None)) /\ UNCHANGED <<mrcp, recognizeRequest>> /\ ~InProgress
    BY <1>2 DEF OnClose, Ready, shared
  <2>2. Send("closed", None, None) \in Closure /\ Send("closed", None, None) \notin opened
    BY ClosureTypes, ChannelAssumption, <1>o DEF Message, None, Send
  <2>3. AtMostOnce(Posted', opened)
    BY <1>p, <2>1, <2>2, AfterPost
  <2> QED
    BY <1>e, <1>f, <1>p, <2>1, <2>3
<1>3. CASE RunSend
  <2>1. /\ phase' = CASE Head(queue).message = "opened" -> "open"
                      [] Head(queue).message = "closed" -> "destroyed"
                      [] OTHER -> phase
        /\ UNCHANGED <<mrcp, recognizeRequest>>
    BY <1>3 DEF RunSend, shared
  <2>2. /\ Posted' = Posted /\ Head(queue) \in Closure
        /\ Occurs(delivered', opened) <=> Occurs(delivered, opened) \/ Head(queue) \in opened
        /\ Occurs(queue, opened) <=> Occurs(queue', opened) \/ Head(queue) \in opened
        /\ Occurs(queue, closed) <=> Occurs(queue', closed) \/ Head(queue) \in closed
    BY <1>3, AfterSend
  <2>3. Occurs(queue, opened) => Occurs(Posted, opened)
    BY PostedTypes
  <2>4. CASE Head(queue).message = "opened"
    <3>1. phase' = "open" /\ Occurs(queue, opened) /\ Occurs(delivered', opened)
      BY <1>o, <2>1, <2>2, <2>4
    <3>2. ~Occurs(queue', closed)
      BY <1>p, <1>q, <2>2, <3>1
    <3> QED
      BY <1>e, <1>p, <2>2, <3>1, <3>2
  <2>5. CASE Head(queue).message = "closed"
    <3>1. phase' = "destroyed" /\ phase \in {"closing", "destroyed"}
      BY <1>o, <1>p, <2>1, <2>2, <2>5
    <3> QED
      BY <1>e, <1>f, <1>p, <2>1, <2>2, <3>1
  <2>6. CASE Head(queue).message \notin {"opened", "closed"}
    <3>1. phase' = phase
      BY <2>1, <2>6
    <3> QED
      BY <1>e, <1>f, <1>p, <2>1, <2>2, <3>1
  <2> QED
    BY <2>4, <2>5, <2>6
<1>4. CASE RunStop
  <2>1. UNCHANGED <<phase, mrcp, recognizeRequest>>
    BY <1>4 DEF RunStop, shared
  <2>2. /\ Occurs(Posted', opened) => Occurs(Posted, opened)
        /\ AtMostOnce(Posted', opened) /\ delivered' = delivered
        /\ Occurs(queue', closed) => Occurs(queue, closed)
    BY <1>4, <1>p, AfterStop
  <2> QED
    BY <1>e, <1>f, <1>p, <2>1, <2>2
<1>5. CASE ~OnOpen /\ ~OnClose /\ ~RunSend /\ ~RunStop
  <2>1. /\ phase' = phase /\ (mrcp' = mrcp \/ phase = "open")
        /\ phase # "open" => recognizeRequest' = recognizeRequest
    BY <1>5, <1>p
       DEF Next, Client, ProcessOther, ProcessRecognize, ProcessStop, Ready, Mrcp, StartConnection,
           StoreConnection, SetWaitingVad, RespondInProgress, RespondStop, EventLoop,
           RunDisable, OnVoice, OnVoiceFeed, Worker, OnResultVad, OnResultRecognizing,
           OnResultEou, SendResultEvent, OnError, SendErrorEvent, Service, Error, Result, Begin, vars,
           shared
  <2>2. /\ delivered' = delivered
        /\ Occurs(Posted', opened) => Occurs(Posted, opened)
        /\ AtMostOnce(Posted', opened)
        /\ Occurs(queue', closed) => Occurs(queue, closed)
    <3>1. CASE UNCHANGED <<queue, delivered>>
      BY <1>p, <3>1 DEF Posted
    <3>2. ASSUME NEW closure \in Closure, Post(closure), delivered' = delivered, Posting(closure)
          PROVE  /\ Occurs(Posted', opened) => Occurs(Posted, opened)
                 /\ AtMostOnce(Posted', opened)
                 /\ Occurs(queue', closed) => Occurs(queue, closed)
      <4>1. closure \notin opened /\ closure \notin closed
        BY <1>5, <1>o, <3>2 DEF Posting, Send, StopFor
      <4> QED
        BY <1>p, <3>2, <4>1, AfterPost
    <3> QED
      BY <1>5, <3>1, <3>2, PostedSteps
  <2> QED
    BY <1>e, <1>f, <1>p, <2>1, <2>2
<1> QED
  BY <1>1, <1>2, <1>3, <1>4, <1>5

-----------------------------------------------------------------------------
(* The pointer nobody initialised, and STOP.                                *)

\* A STOP was given to the channel.
StopCalled == mrcp = "stopping" \/ Occurs(Posted, Of("stopped"))

\* Once a STOP was given, it stays given.
LEMMA StopStays == Typed /\ [Next]_vars => (StopCalled => StopCalled')
<1> SUFFICES ASSUME Typed, [Next]_vars, StopCalled PROVE StopCalled'
  OBVIOUS
<1>1. CASE Occurs(Posted, Of("stopped"))
  BY <1>1, Kinds, Persist DEF StopCalled, Message, Final
<1>2. CASE mrcp = "stopping" /\ RespondStop
  <2>1. /\ Post(Send("stopped", recognizeRequest, None)) /\ delivered' = delivered
        /\ recognizeRequest \in 0 .. MaxRequests /\ None \in 0 .. MaxRequests
    BY <1>2, ChannelAssumption DEF RespondStop, Typed, TypeOK, None
  <2>2. /\ Send("stopped", recognizeRequest, None) \in Closure
        /\ Send("stopped", recognizeRequest, None) \in Of("stopped")
    BY SMTT(30), <2>1, ClosureTypes, Kinds DEF Message, Final, Of
  <2> QED
    BY <2>1, <2>2, AfterPost DEF StopCalled
<1>3. CASE mrcp = "stopping" /\ ~RespondStop
  <2>1. mrcp' = "stopping"
    BY <1>3 DEF Next, Client, OnOpen, OnClose, ProcessOther, ProcessRecognize, ProcessStop, Ready,
           Mrcp, StartConnection, StoreConnection, SetWaitingVad, RespondInProgress,
           EventLoop, RunStop, RunDisable, RunSend, OnVoice, OnVoiceFeed, Worker, OnResultVad,
           OnResultRecognizing, OnResultEou, SendResultEvent, OnError, SendErrorEvent, Service,
           Error, Result, Begin, vars
  <2> QED
    BY <2>1 DEF StopCalled
<1> QED
  BY <1>1, <1>2, <1>3 DEF StopCalled

\* Where STOP is not used, none is given.
LEMMA WithoutStop == ~StopAllowed => (Spec => []~StopCalled)
<1> SUFFICES ASSUME ~StopAllowed PROVE Spec => []~StopCalled
  OBVIOUS
<1>1. Init => ~StopCalled
  BY DEF Init, StopCalled, Occurs, Posted
<1>2. Typed /\ ~StopCalled /\ [Next]_vars => ~StopCalled'
  <2> SUFFICES ASSUME Typed, ~StopCalled, [Next]_vars PROVE ~StopCalled'
    OBVIOUS
  <2>1. mrcp' # "stopping" /\ ~RespondStop
    BY DEF Next, Client, OnOpen, OnClose, ProcessOther, ProcessRecognize, ProcessStop,
           Mrcp, StartConnection, StoreConnection, SetWaitingVad, RespondInProgress, RespondStop,
           EventLoop, RunStop, RunDisable, RunSend, OnVoice, OnVoiceFeed, Worker, OnResultVad,
           OnResultRecognizing, OnResultEou, SendResultEvent, OnError, SendErrorEvent, Service,
           Error, Result, Begin, vars, StopCalled
  <2>2. ASSUME Occurs(Posted', Of("stopped")) PROVE FALSE
    <3>1. PICK closure \in Of("stopped") : Posting(closure)
      BY <2>2, Kinds, Persist DEF StopCalled, Message, Final
    <3> QED
      BY <2>1, <3>1 DEF Posting, Of, Send, StopFor
  <2> QED
    BY <2>1, <2>2 DEF StopCalled
<1> QED
  BY <1>1, <1>2, TypeInit, TypeStep, PTL DEF Spec

\* Until the first request has its connection nobody has anything to do that follows the
\* pointer, and nothing but the response to a STOP faults afterwards; unless the first call
\* reports before process_recognize() has stored it.
Pointer ==
    1 \notin early =>
        /\ connection \notin Request =>
               /\ worker.at = "next" /\ ~Occurs(queue, Stops)
               /\ \/ recognizeRequest = None
                  \/ recognizeRequest = 1 /\ mrcp \in {"accepted", "calling"}
        /\ crashed => StopCalled

LEMMA PointerStep == Typed /\ Listening /\ Pointer /\ [Next]_vars => Pointer'
<1> SUFFICES ASSUME Typed, Listening, Pointer, [Next]_vars, 1 \notin early'
             PROVE  /\ connection' \notin Request =>
                          /\ worker'.at = "next" /\ ~Occurs(queue', Stops)
                          /\ \/ recognizeRequest' = None
                             \/ recognizeRequest' = 1 /\ mrcp' \in {"accepted", "calling"}
                    /\ crashed' => StopCalled'
  BY DEF Pointer
<1>u. 1 \notin early
  BY DisturbedStays
<1>t. /\ recognizeRequest \in 0 .. MaxRequests
      /\ recognizeRequest # None => recognizeRequest \in Request
      /\ mrcp # "idle" => recognizeRequest # None
      /\ \A c \in Request : c > recognizeRequest => call[c] = "none"
      /\ \A c \in Request : c \in Nat \ {0}
      /\ None = 0 /\ None \notin Request /\ Garbage \notin Request
  BY ChannelAssumption DEF Typed, TypeOK, Calls, Request, None, Garbage
<1>1. ASSUME connection' \notin Request
      PROVE  /\ worker'.at = "next" /\ ~Occurs(queue', Stops)
             /\ \/ recognizeRequest' = None
                \/ recognizeRequest' = 1 /\ mrcp' \in {"accepted", "calling"}
  <2>1. connection \notin Request
    BY <1>1, <1>t DEF Next, Client, OnOpen, OnClose, ProcessOther, ProcessRecognize, ProcessStop,
           Mrcp, StartConnection, StoreConnection, SetWaitingVad, RespondInProgress, RespondStop,
           EventLoop, RunStop, RunDisable, RunSend, OnVoice, OnVoiceFeed, Worker, OnResultVad,
           OnResultRecognizing, OnResultEou, SendResultEvent, OnError, SendErrorEvent, Service,
           Error, Result, Begin, vars, shared
  <2>2. /\ worker.at = "next" /\ ~Occurs(queue, Stops)
        /\ \/ recognizeRequest = None
           \/ recognizeRequest = 1 /\ mrcp \in {"accepted", "calling"}
    BY <1>u, <2>1 DEF Pointer
  <2>3. ~Service
    <3> SUFFICES ASSUME NEW c \in Request, Error(c) \/ \E eou \in BOOLEAN : Result(c, eou)
                 PROVE  FALSE
      BY DEF Service
    <3>1. call[c] # "none" /\ early' = IF Starting THEN early \cup {c} ELSE early
      BY CallbackBegins
    <3>2. c = 1 /\ recognizeRequest = 1
      BY <1>t, <2>2, <3>1
    <3> QED
      BY <1>t, <2>2, <3>1, <3>2 DEF Starting
  <2>4. ~Worker
    BY <2>2 DEF Worker, OnResultVad, OnResultRecognizing, OnResultEou, SendResultEvent, OnError,
                SendErrorEvent, At
  <2>5. worker' = worker
    BY <2>3, <2>4 DEF Next, Client, OnOpen, OnClose, ProcessOther, ProcessRecognize, ProcessStop,
           Mrcp, StartConnection, StoreConnection, SetWaitingVad, RespondInProgress, RespondStop,
           EventLoop, RunStop, RunDisable, RunSend, OnVoice, OnVoiceFeed, vars
  <2>6. \/ recognizeRequest' = None
        \/ recognizeRequest' = 1 /\ mrcp' \in {"accepted", "calling"}
    <3>1. CASE EventLoop \/ OnVoice \/ OnVoiceFeed \/ UNCHANGED vars
      BY <2>2, <3>1 DEF EventLoop, RunStop, RunDisable, RunSend, OnVoice, OnVoiceFeed, vars, shared
    <3>2. CASE Mrcp
      <4>1. recognizeRequest \in Request /\ mrcp \in {"accepted", "calling"}
        BY <1>t, <2>2, <3>2 DEF Mrcp, StartConnection, StoreConnection, SetWaitingVad,
                                RespondInProgress, RespondStop
      <4> QED
        BY <1>1, <2>2, <3>2, <4>1, <1>t
           DEF Mrcp, StartConnection, StoreConnection, SetWaitingVad, RespondInProgress,
               RespondStop, shared
    <3>3. CASE Client
      BY <1>t, <2>2, <3>3 DEF Client, OnOpen, OnClose, ProcessOther, ProcessRecognize, ProcessStop,
                              Ready, InProgress, shared
    <3> QED
      BY <2>3, <2>4, <3>1, <3>2, <3>3 DEF Next
  <2>7. ~Occurs(queue', Stops)
    <3>1. ~OnError /\ ~OnResultEou
      BY <2>4 DEF Worker
    <3>2. \A closure \in Closure : Posting(closure) => closure \notin Stops
      BY <3>1 DEF Posting, Stops, Send
    <3>3. Occurs(queue', Stops) =>
             Occurs(queue, Stops) \/ \E closure \in Closure : Posting(closure) /\ closure \in Stops
      BY PostedSteps, AfterSend, AfterStop, AfterPost
    <3> QED
      BY <2>2, <3>2, <3>3
  <2> QED
    BY <2>2, <2>5, <2>6, <2>7
<1>2. crashed' => StopCalled'
  <2>1. ASSUME RunStop PROVE crashed' = FALSE
    <3>1. Occurs(queue, Stops)
      BY <2>1, AfterStop
    <3> QED
      BY <1>t, <1>u, <2>1, <3>1 DEF RunStop, Pointer
  <2>2. ASSUME OnVoiceFeed PROVE crashed' = crashed \/ crashed' = FALSE
    BY <1>t, <2>2 DEF OnVoiceFeed, Listening
  <2>3. ASSUME RespondStop PROVE StopCalled
    BY <2>3 DEF RespondStop, StopCalled
  <2>4. crashed' = crashed \/ RunStop \/ OnVoiceFeed \/ RespondStop
    BY DEF Next, Client, OnOpen, OnClose, ProcessOther, ProcessRecognize, ProcessStop,
           Mrcp, StartConnection, StoreConnection, SetWaitingVad, RespondInProgress,
           EventLoop, RunDisable, RunSend, OnVoice, Worker, OnResultVad,
           OnResultRecognizing, OnResultEou, SendResultEvent, OnError, SendErrorEvent, Service,
           Error, Result, Begin, vars
  <2> QED
    BY <1>u, <2>1, <2>2, <2>3, <2>4, StopStays DEF Pointer, Typed, TypeOK
<1> QED
  BY <1>1, <1>2

\* A pointer that nobody initialised is not followed before a STOP is answered, but by an event
\* of the first call that comes inside process_recognize() ...
THEOREM PointerIsSet == Spec => [](crashed => StopCalled \/ 1 \in early)
<1>1. Init => Listening /\ Pointer
  BY ChannelAssumption DEF Init, Listening, Pointer, Idle, Occurs
<1>2. Pointer => (crashed => StopCalled \/ 1 \in early)
  BY DEF Pointer
<1> QED
  BY <1>1, <1>2, TypeInit, TypeStep, ListeningStep, PointerStep, PTL DEF Spec

\* ... so, in a session without STOP, stop_recognize() and on_voice() find the pointer null or
\* set but for that event.
THEOREM NoWildPointers == ~StopAllowed => (Spec => []NoWildPointer)
<1> SUFFICES ASSUME ~StopAllowed PROVE Spec => []NoWildPointer
  OBVIOUS
<1>1. (crashed => StopCalled \/ 1 \in early) /\ ~StopCalled => NoWildPointer
  BY DEF NoWildPointer
<1> QED
  BY <1>1, PointerIsSet, WithoutStop, PTL

-----------------------------------------------------------------------------
(* The current request, as long as no earlier one was stopped.              *)

Outcomes(r) == About(Final, r)
StopsOfOthers(r) == {x \in Stops : x.from # r}

\* process_recognize() has returned.
Begun == recognizeRequest # None /\ mrcp \in {"idle", "stopping"}

\* The worker has scheduled a stop and not yet posted the outcome that goes with it.
Pending == worker.at \in {"complete", "failed"}

\* Only the connection of the current request is active, and it is the one that is stored, that
\* calls back, that the stops were scheduled for and that they act on; and each of them belongs
\* to an outcome of this request.
Current ==
    /\ worker.at # "next" => Begun /\ worker.conn = recognizeRequest
    /\ Begun \/ mrcp \in {"stored", "started"} => connection = recognizeRequest
    /\ mrcp \in {"calling", "stored", "started"} => active[recognizeRequest]
    /\ mrcp = "stopping" \/ Occurs(Posted, About({"stopped"}, recognizeRequest))
           => recognizeRequest # None /\ stopping[recognizeRequest]
    /\ Occurs(queue, Stops) \/ loop = "disable"
           => Begun /\ (Occurs(Posted, Outcomes(recognizeRequest)) \/ Pending)
    /\ loop = "disable" => stopping[recognizeRequest]
    /\ ~Occurs(queue, StopsOfOthers(recognizeRequest))
    /\ \A c \in Request : active[c] => c = recognizeRequest

\* Nothing is left to happen to the current request.
Settled ==
    /\ worker = Idle /\ loop = "next" /\ ~Occurs(queue, Stops)
    /\ recognizeRequest \in Request => ~active[recognizeRequest]

\* Only on_result() and on_error() schedule stops.
LEMMA StopsPosted ==
  ASSUME Typed, [Next]_vars, NEW E, E \in SUBSET Stops, Occurs(queue', E)
  PROVE  \/ Occurs(queue, E)
         \/ /\ OnError \/ (OnResultEou /\ state = "recognizing" /\ worker.eou)
            /\ StopFor(worker.conn) \in E
<1>1. CASE UNCHANGED queue
  BY <1>1
<1>2. CASE RunSend
  BY <1>2, AfterSend
<1>3. CASE RunStop
  BY <1>3, AfterStop
<1>4. ASSUME NEW closure \in Closure, Post(closure), delivered' = delivered, Posting(closure)
      PROVE  \/ Occurs(queue, E)
             \/ /\ OnError \/ (OnResultEou /\ state = "recognizing" /\ worker.eou)
                /\ StopFor(worker.conn) \in E
  <2>1. Occurs(queue, E) \/ closure \in E
    BY <1>4, AfterPost
  <2>2. closure \in E => closure.kind = "stop"
    BY DEF Stops
  <2> QED
    BY <1>4, <2>1, <2>2 DEF Posting, Send
<1> QED
  BY <1>1, <1>2, <1>3, <1>4, PostedSteps

\* A new request finds nothing of the one before it.
LEMMA CurrentNext ==
  ASSUME Typed, Named, Settled, Current, ProcessRecognize
  PROVE  Current'
<1>1. /\ recognizeRequest' = recognizeRequest + 1 /\ mrcp' = "accepted"
      /\ UNCHANGED <<connection, active, stopping, worker, queue, delivered, loop>>
  BY DEF ProcessRecognize, grpc, flags
<1>2. recognizeRequest \in 0 .. MaxRequests /\ recognizeRequest < MaxRequests
  BY DEF Typed, TypeOK, ProcessRecognize
<1>3. recognizeRequest' \in Request /\ recognizeRequest' > recognizeRequest
  BY <1>1, <1>2, ChannelAssumption DEF Request
<1>4. ~Occurs(Posted, About({"stopped"}, recognizeRequest'))
  <2>1. ~Occurs(Posted, About(Message, recognizeRequest'))
    BY <1>3 DEF Named
  <2>2. About({"stopped"}, recognizeRequest') \in SUBSET About(Message, recognizeRequest')
    BY DEF About, Message, Final
  <2> QED
    BY <2>1, <2>2 DEF Occurs
<1>5. ~Occurs(queue, StopsOfOthers(recognizeRequest'))
  BY DEF Settled, Occurs, StopsOfOthers
<1>6. \A c \in Request : ~active[c]
  BY DEF Settled, Current
<1>7. Posted' = Posted
  BY <1>1 DEF Posted
<1>8. worker.at = "next" /\ loop = "next" /\ ~Occurs(queue, Stops)
  BY DEF Settled, Idle
<1> QED
  BY <1>1, <1>4, <1>5, <1>6, <1>7, <1>8 DEF Current, Begun

LEMMA CurrentStep ==
  ASSUME Typed, Current, [Next]_vars, ~ProcessRecognize, recognizeRequest \notin early'
  PROVE  Current'
<1> DEFINE r == recognizeRequest
<1>t. /\ r \in 0 .. MaxRequests /\ r' = r /\ (r # None => r \in Request)
      /\ active \in [Request -> BOOLEAN] /\ stopping \in [Request -> BOOLEAN]
      /\ \A c \in Request : c # None
  BY SMTT(30), RequestsCount, ChannelAssumption DEF Request, None, Typed, TypeOK
<1>p. /\ Occurs(Posted, Outcomes(r)) => Occurs(Posted', Outcomes(r))
      /\ Occurs(Posted', About({"stopped"}, r))
             => r # None /\ stopping[r] /\ stopping'[r]
  <2>1. Final \in SUBSET Message /\ {"stopped"} \in SUBSET Message
    BY DEF Message, Final
  <2>2. Occurs(Posted, Outcomes(r)) => Occurs(Posted', Outcomes(r))
    BY <2>1, Kinds, Persist DEF Outcomes
  <2>3. ASSUME Occurs(Posted', About({"stopped"}, r)), ~Occurs(Posted, About({"stopped"}, r))
        PROVE  RespondStop
    <3>1. PICK closure \in About({"stopped"}, r) : Posting(closure)
      BY <2>1, <2>3, Kinds, Persist
    <3> QED
      BY <3>1 DEF Posting, About, Send, StopFor
  <2>4. RespondStop => mrcp = "stopping"
    BY DEF RespondStop
  <2>5. r # None /\ stopping[r] => stopping'[r]
    BY <1>t DEF Next, Client, OnOpen, OnClose, ProcessOther, ProcessRecognize, ProcessStop, Mrcp,
                StartConnection, StoreConnection, SetWaitingVad, RespondInProgress, RespondStop,
                EventLoop, RunStop, RunDisable, RunSend, CallWritesDone, OnVoice, OnVoiceFeed,
                Worker, OnResultVad, OnResultRecognizing, OnResultEou, SendResultEvent, OnError,
                SendErrorEvent, Service, Error, Result, Begin, vars, grpc, flags
  <2> QED
    BY <2>2, <2>3, <2>4, <2>5 DEF Current
<1>s. /\ Occurs(queue', Stops) => \/ Occurs(queue, Stops)
                                  \/ worker.at # "next" /\ Pending' /\ mrcp' = mrcp
      /\ ~Occurs(queue', StopsOfOthers(r))
  <2>1. Occurs(queue', Stops) => \/ Occurs(queue, Stops) \/ OnError
                                 \/ OnResultEou /\ state = "recognizing" /\ worker.eou
    BY StopsPosted
  <2>2. StopsOfOthers(r) \in SUBSET Stops
    BY DEF StopsOfOthers
  <2>3. OnError \/ OnResultEou => worker.conn = r
    BY DEF OnError, OnResultEou, At, Current
  <2>4. StopFor(r) \notin StopsOfOthers(r)
    BY DEF StopsOfOthers, StopFor
  <2>5. OnError \/ (OnResultEou /\ state = "recognizing" /\ worker.eou)
        => worker.at # "next" /\ Pending' /\ mrcp' = mrcp
    BY DEF OnError, OnResultEou, At, Pending, Typed, TypeOK
  <2> QED
    BY <2>1, <2>2, <2>3, <2>4, <2>5, StopsPosted DEF Current
<1>e. ASSUME /\ worker'.at # "next" => Begun' /\ worker'.conn = r
             /\ Begun' \/ mrcp' \in {"stored", "started"} => connection' = r
             /\ mrcp' \in {"calling", "stored", "started"} => active'[r]
             /\ mrcp' = "stopping" \/ Occurs(Posted', About({"stopped"}, r))
                => r # None /\ stopping'[r]
             /\ Occurs(queue', Stops) \/ loop' = "disable"
                     => Begun' /\ (Occurs(Posted', Outcomes(r)) \/ Pending')
             /\ loop' = "disable" => stopping'[r]
             /\ \A c \in Request : active'[c] => c = r
      PROVE  Current'
  BY <1>e, <1>s, <1>t DEF Current
<1>h. /\ worker.at # "next" => Begun /\ worker.conn = r
      /\ Begun \/ mrcp \in {"stored", "started"} => connection = r
      /\ mrcp \in {"calling", "stored", "started"} => active[r]
      /\ mrcp = "stopping" \/ Occurs(Posted, About({"stopped"}, r))
             => r # None /\ stopping[r]
      /\ Occurs(queue, Stops) \/ loop = "disable" => Begun /\ (Occurs(Posted, Outcomes(r)) \/ Pending)
      /\ loop = "disable" => stopping[r]
      /\ \A c \in Request : active[c] => c = r
  BY DEF Current
<1>b. Begun <=> r # None /\ mrcp \in {"idle", "stopping"}
  BY DEF Begun
<1>c. Begun' <=> r # None /\ mrcp' \in {"idle", "stopping"}
  BY <1>t DEF Begun
<1>d. (Pending <=> worker.at \in {"complete", "failed"})
      /\ (Pending' <=> worker'.at \in {"complete", "failed"})
  BY DEF Pending
<1> HIDE DEF r
<1>1. CASE OnOpen \/ OnClose \/ ProcessOther \/ OnVoice \/ OnVoiceFeed \/ RunSend
  <2>1. UNCHANGED <<connection, active, stopping, worker, loop, mrcp>>
    BY <1>1 DEF OnOpen, OnClose, ProcessOther, OnVoice, OnVoiceFeed, RunSend, shared, grpc, flags
  <2> QED
    BY <1>b, <1>c, <1>d, <1>e, <1>h, <1>p, <1>s, <2>1
<1>2. CASE ProcessStop \/ StartConnection \/ StoreConnection \/ SetWaitingVad \/ RespondInProgress
  <2>1. UNCHANGED <<worker, loop>>
    BY <1>2 DEF ProcessStop, StartConnection, StoreConnection, SetWaitingVad, RespondInProgress
  <2>2. CASE ProcessStop
    <3>1. /\ mrcp = "idle" /\ mrcp' = "stopping" /\ UNCHANGED <<connection, active>>
          /\ stopping' = [c \in Request |-> stopping[c] \/ c = connection] /\ r # None
      BY <2>2 DEF ProcessStop, Ready, InProgress, CallWritesDone, shared, r
    <3>2. connection = r /\ r \in Request /\ stopping'[r] /\ Begun /\ Begun'
      BY <1>b, <1>c, <1>h, <1>t, <3>1
    <3> QED
      BY <1>d, <1>e, <1>h, <1>p, <1>s, <2>1, <3>1, <3>2
  <2>3. CASE StartConnection
    <3>1. /\ mrcp = "accepted" /\ mrcp' = "calling" /\ UNCHANGED <<connection, stopping>>
          /\ active' = [active EXCEPT ![r] = TRUE] /\ r # None
      BY <2>3 DEF StartConnection, shared, r, Typed, Calls
    <3>2. active'[r] /\ \A c \in Request : active'[c] => c = r
      BY <1>h, <1>t, <3>1
    <3> QED
      BY <1>b, <1>c, <1>d, <1>e, <1>h, <1>p, <1>s, <2>1, <3>1, <3>2
  <2>4. CASE StoreConnection \/ SetWaitingVad \/ RespondInProgress
    <3>1. /\ UNCHANGED <<active, stopping>> /\ active[r] /\ ~Begun /\ connection' = r
          /\ mrcp' \in {"stored", "started", "idle"}
      BY <1>b, <1>h, <2>4
         DEF StoreConnection, SetWaitingVad, RespondInProgress, grpc, flags, shared, r
    <3> QED
      BY <1>c, <1>e, <1>h, <1>p, <1>s, <2>1, <3>1
  <2> QED
    BY <1>2, <2>2, <2>3, <2>4
<1>3. CASE RespondStop
  <2>1. /\ mrcp = "stopping" /\ mrcp' = "idle" /\ UNCHANGED <<connection, stopping, worker, loop>>
        /\ active' = [c \in Request |-> active[c] /\ c # connection] /\ r # None
    BY <1>3 DEF RespondStop, CallDisable, shared, r, Typed, Calls
  <2>2. \A c \in Request : active'[c] => active[c]
    BY <2>1
  <2>3. stopping[r]
    BY <1>h, <2>1
  <2> QED
    BY <1>b, <1>c, <1>d, <1>e, <1>h, <1>p, <1>s, <2>1, <2>2, <2>3
<1>4. CASE RunStop
  <2>1. /\ UNCHANGED <<connection, mrcp, worker, active>>
        /\ stopping' = [c \in Request |-> stopping[c] \/ c = connection]
    BY <1>4 DEF RunStop, CallWritesDone, shared
  <2>2. Head(queue) \in Stops /\ Occurs(queue, Stops)
    BY <1>4, AfterStop
  <2>3. Begun /\ connection = r /\ r \in Request
    BY <1>b, <1>h, <1>t, <2>2
  <2>4. stopping'[r]
    BY <2>1, <2>3
  <2> QED
    BY <1>b, <1>c, <1>d, <1>e, <1>h, <1>p, <2>1, <2>2, <2>3, <2>4
<1>5. CASE RunDisable
  <2>1. /\ UNCHANGED <<connection, mrcp, worker, stopping, queue>> /\ loop = "disable" /\ loop' = "next"
        /\ active' = [c \in Request |-> active[c] /\ c # connection]
    BY <1>5 DEF RunDisable, CallDisable, shared
  <2>2. Begun /\ \A c \in Request : active'[c] => active[c]
    BY <1>h, <2>1
  <2> QED
    BY <1>b, <1>c, <1>d, <1>e, <1>h, <1>p, <2>1, <2>2
<1>6. CASE Service
  <2>1. PICK c \in Request : Error(c) \/ \E eou \in BOOLEAN : Result(c, eou)
    BY <1>6 DEF Service
  <2>2. /\ worker = Idle /\ active[c] /\ worker'.conn = c /\ worker'.at \in {"vad", "error"}
        /\ UNCHANGED <<connection, mrcp, active, stopping, queue, loop, delivered>>
    BY <2>1, CallbackBegins
  <2>3. c = r /\ r # None
    BY <1>h, <1>t, <2>2
  <2>4. mrcp \in {"idle", "stopping"}
    BY <2>1, <2>3, InItsTime DEF r
  <2>5. Begun /\ Begun' /\ worker.at = "next"
    BY <1>b, <1>c, <2>2, <2>3, <2>4 DEF Idle
  <2> QED
    BY <1>d, <1>e, <1>h, <1>p, <2>2, <2>3, <2>5
<1>7. CASE Worker
  <2>1. /\ UNCHANGED <<connection, mrcp, active, stopping, loop>> /\ worker.at # "next"
    BY <1>7 DEF Worker, OnResultVad, OnResultRecognizing, OnResultEou, SendResultEvent, OnError,
                SendErrorEvent, At, shared, grpc, flags
  <2>2. worker'.at = "next" \/ worker'.conn = worker.conn
    BY <1>7 DEF Worker, OnResultVad, OnResultRecognizing, OnResultEou, SendResultEvent, OnError,
                SendErrorEvent, Idle, Typed, TypeOK
  <2>3. Begun /\ worker.conn = r /\ r \in Request
    BY <1>b, <1>h, <1>t, <2>1
  <2>5. Pending => Occurs(Posted', Outcomes(r))
    <3>1. Pending => SendResultEvent \/ SendErrorEvent
      BY <1>7, <1>d DEF Worker, OnResultVad, OnResultRecognizing, OnResultEou, SendResultEvent,
                        OnError, SendErrorEvent, At
    <3>2. \A m \in Final : Send(m, r, worker.conn) \in Outcomes(r)
      <4>1. r \in 0 .. MaxRequests /\ worker.conn \in 0 .. MaxRequests /\ Final \in SUBSET Message
        BY <1>t, <2>3 DEF Message
      <4> QED
        BY <4>1, Kinds DEF Outcomes
    <3>3. \A m \in Final : /\ Send(m, r, worker.conn) \in Closure
                           /\ Post(Send(m, r, worker.conn)) /\ delivered' = delivered
                                => Occurs(Posted', Outcomes(r))
      BY <3>2, AfterPost DEF Outcomes, About
    <3> QED
      BY <3>1, <3>3 DEF SendResultEvent, SendErrorEvent, Final, r
  <2> QED
    BY <1>b, <1>c, <1>d, <1>e, <1>h, <1>p, <1>s, <2>1, <2>2, <2>3, <2>5
<1>8. CASE UNCHANGED vars
  BY <1>8 DEF vars, Current, Begun, Pending, Posted
<1> QED
  BY <1>1, <1>2, <1>3, <1>4, <1>5, <1>6, <1>7, <1>8 DEF Next, Mrcp, Client, EventLoop

-----------------------------------------------------------------------------
(* The requests of a session, as long as none was stopped.                  *)

Starts(r) == About({"startofinput"}, r)
Completions(r) == About({"complete"}, r)

\* The state follows the current request, and its call is over when a callback has its outcome
\* and before writes_done().
Orderly ==
    /\ mrcp = "started" => state = "waiting_vad"
    /\ Begun => state # "idle"
    /\ worker.at = "recognizing" => state = "waiting_vad"
    /\ worker.at \in {"eou", "complete"} => state = "recognizing"
    /\ worker.at \in {"complete", "error", "failed"} \/ worker.eou
           => Over(recognizeRequest)
    /\ recognizeRequest \in Request /\ stopping[recognizeRequest] => Over(recognizeRequest)

\* What the client is sent about a request.
InOrder(r) ==
    /\ AtMostOnce(Posted, Outcomes(r))
    /\ AtMostOnce(Posted, Starts(r))
    /\ Preceded(Posted, Completions(r), Starts(r))

\* How far the current request has come, by what was posted about it.
Course ==
    /\ recognizeRequest # None /\ ~Begun => ~Occurs(Posted, About(Message, recognizeRequest))
    /\ Begun =>
           /\ Occurs(Posted, Starts(recognizeRequest))
                  <=> state = "recognizing" \/ worker.at = "recognizing"
           /\ Occurs(Posted, Outcomes(recognizeRequest))
                  => worker.at = "next" /\ Over(recognizeRequest)

\* One stop at a time is under way, and it is over when the outcome it was scheduled with is
\* delivered: it stands before the outcome in the queue.
StopsFirst ==
    /\ AtMostOnce(queue, Stops)
    /\ Occurs(queue, Stops) \/ loop = "disable"
           => Pending \/ Occurs(queue, Outcomes(recognizeRequest))
    /\ Occurs(queue, Stops)
           => loop = "next" /\ Preceded(queue, Outcomes(recognizeRequest), Stops)
    /\ Begun /\ (Pending \/ Occurs(Posted, Outcomes(recognizeRequest)))
           => Occurs(queue, Stops) \/ loop = "disable" \/ ~active[recognizeRequest]

\* All of these are kinds of answers.
LEMMA AnswerKinds ==
  \A r : /\ Answers(Outcomes(r)) /\ Answers(Starts(r))
         /\ Answers(Completions(r)) /\ Answers(About(Message, r))
<1>1. /\ Final \in SUBSET Message /\ Message \in SUBSET Message
      /\ {"startofinput"} \in SUBSET Message /\ {"complete"} \in SUBSET Message
  BY DEF Message, Final
<1> QED
  BY <1>1, Kinds DEF Outcomes, Starts, Completions

\* What is posted about a request, by kind.
LEMMA Sorts ==
  \A r, x : /\ x \in Outcomes(r) => x.request = r /\ x.message \in Final
            /\ x \in Starts(r) => x.request = r /\ x.message = "startofinput"
            /\ x \in Completions(r) => x.request = r /\ x.message = "complete"
            /\ x \in Stops => x.kind = "stop"
BY DEF Outcomes, Starts, Completions, About, Stops

\* When the client knows the outcome of the current request, nothing more happens to it.
LEMMA SettledIs ==
  ASSUME Typed, Current, Course, StopsFirst, InOrder(recognizeRequest) \/ recognizeRequest = None,
         ~InProgress
  PROVE  Settled
<1>1. recognizeRequest \in 0 .. MaxRequests /\ (worker.at = "next" => worker = Idle)
      /\ loop \in {"next", "disable"} /\ None \notin Request
  BY ChannelAssumption DEF Typed, TypeOK, Callback, Request, None
<1>2. CASE recognizeRequest = None
  BY <1>1, <1>2 DEF Current, Begun, Settled
<1>3. CASE recognizeRequest # None
  <2>1. Occurs(delivered, Outcomes(recognizeRequest))
    BY <1>3, FinishedIs DEF InProgress, Outcomes
  <2>2. Occurs(Posted, Outcomes(recognizeRequest)) /\ ~Occurs(queue, Outcomes(recognizeRequest))
    BY <1>3, <2>1, PostedTypes DEF InOrder
  <2>3. Begun
    <3>1. Outcomes(recognizeRequest) \in SUBSET About(Message, recognizeRequest)
      BY DEF Outcomes, About, Message
    <3> QED
      BY <1>3, <2>2, <3>1 DEF Course, Occurs
  <2>4. worker.at = "next" /\ ~Pending
    BY <2>2, <2>3 DEF Course, Pending
  <2> QED
    BY <1>1, <2>2, <2>3, <2>4 DEF StopsFirst, Settled
<1> QED
  BY <1>2, <1>3

LEMMA OrderlyStep ==
  ASSUME Calm', Typed, Current, Orderly, Course, StopsFirst, [Next]_vars, ~ProcessStop, ~RespondStop,
         ProcessRecognize => Settled
  PROVE  Orderly'
<1>t. /\ recognizeRequest \in 0 .. MaxRequests
      /\ recognizeRequest # None => recognizeRequest \in Request
      /\ call \in [Request -> {"none", "open", "ended"}]
      /\ stopping \in [Request -> BOOLEAN]
      /\ worker \in [at : {"next", "vad", "recognizing", "eou", "complete", "error", "failed"},
                     conn : 0 .. MaxRequests, eou : BOOLEAN]
      /\ worker.at # "next" => Begun /\ worker.conn = recognizeRequest
      /\ worker.at = "next" => ~worker.eou
      /\ state \in {"idle", "waiting_vad", "recognizing"}
      /\ mrcp # "idle" => recognizeRequest # None
      /\ \A c \in Request : active[c] => c = recognizeRequest
  BY ChannelAssumption DEF Typed, TypeOK, Callback, Calls, Current, Request, None, Idle
<1> USE DEF Begun
<1>h. /\ mrcp = "started" => state = "waiting_vad"
      /\ Begun => state # "idle"
      /\ worker.at = "recognizing" => state = "waiting_vad"
      /\ worker.at \in {"eou", "complete"} => state = "recognizing"
      /\ worker.at \in {"complete", "error", "failed"} \/ worker.eou => Over(recognizeRequest)
      /\ recognizeRequest \in Request /\ stopping[recognizeRequest] => Over(recognizeRequest)
  BY DEF Orderly
<1>e. ASSUME /\ mrcp' = "started" => state' = "waiting_vad"
             /\ Begun' => state' # "idle"
             /\ worker'.at = "recognizing" => state' = "waiting_vad"
             /\ worker'.at \in {"eou", "complete"} => state' = "recognizing"
             /\ worker'.at \in {"complete", "error", "failed"} \/ worker'.eou
                    => Over(recognizeRequest)'
             /\ recognizeRequest' \in Request /\ stopping'[recognizeRequest']
                    => Over(recognizeRequest)'
      PROVE  Orderly'
  BY <1>e DEF Orderly
<1>1. CASE Service
  <2>1. PICK c \in Request : Error(c) \/ \E eou \in BOOLEAN : Result(c, eou)
    BY <1>1 DEF Service
  <2>2. /\ active[c] /\ worker = Idle
        /\ UNCHANGED <<state, recognizeRequest, mrcp, stopping>>
    BY <2>1, CallbackBegins
  <2>3. c = recognizeRequest /\ ~stopping[c]
    <3>1. c = recognizeRequest
      BY <1>t, <2>2
    <3> QED
      BY <1>h, <2>1, <3>1, OnceOver
  <2>4. CASE Error(c)
    <3>1. worker'.at = "error" /\ worker'.eou = FALSE /\ call'[c] = "ended"
      BY <2>3, <2>4, CallbackBegins
    <3>2. Over(recognizeRequest)'
      BY <2>2, <2>3, <3>1 DEF Over
    <3> QED
      BY <1>e, <1>h, <1>t, <2>2, <3>1, <3>2
  <2>5. ASSUME NEW eou \in BOOLEAN, Result(c, eou) PROVE Orderly'
    <3>1. /\ worker'.at = "vad" /\ worker'.eou = eou
          /\ answered' = IF eou THEN answered \cup {c} ELSE answered
      BY <2>5, CallbackBegins
    <3>2. eou => Over(recognizeRequest)'
      BY <2>2, <2>3, <3>1 DEF Over
    <3> QED
      BY <1>e, <1>h, <1>t, <2>2, <2>3, <3>1, <3>2
  <2> QED
    BY <2>1, <2>4, <2>5
<1>2. CASE Worker
  <2>1. UNCHANGED <<recognizeRequest, mrcp, call, answered, stopping>>
    BY <1>2 DEF Worker, OnResultVad, OnResultRecognizing, OnResultEou, SendResultEvent, OnError,
                SendErrorEvent, shared, grpc, flags, service
  <2>2. Over(recognizeRequest)' <=> Over(recognizeRequest)
    BY <2>1 DEF Over
  <2>3. /\ worker.at # "next"
        /\ worker'.eou => worker.eou
        /\ worker'.at \in {"complete", "failed"} => worker.at = "error" \/ worker.eou
        /\ worker'.at # "error"
    BY <1>2, <1>t DEF Worker, OnResultVad, OnResultRecognizing, OnResultEou, SendResultEvent, OnError,
                SendErrorEvent, At, Idle
  <2>4. /\ mrcp' = "started" => state' = "waiting_vad"
        /\ Begun' => state' # "idle"
        /\ worker'.at = "recognizing" => state' = "waiting_vad"
        /\ worker'.at \in {"eou", "complete"} => state' = "recognizing"
    BY <1>2, <1>h, <1>t, <2>1
       DEF Worker, OnResultVad, OnResultRecognizing, OnResultEou, SendResultEvent, OnError,
           SendErrorEvent, shared, At, Idle
  <2> QED
    BY <1>e, <1>h, <2>1, <2>2, <2>3, <2>4
<1>3. CASE Mrcp
  <2>1. UNCHANGED <<recognizeRequest, worker, stopping, answered>>
    BY <1>3 DEF Mrcp, StartConnection, StoreConnection, SetWaitingVad, RespondInProgress,
                RespondStop, shared, grpc, flags, service
  <2>2. CASE StartConnection \/ StoreConnection \/ SetWaitingVad
    <3>1. /\ ~Begun /\ ~Begun' /\ worker.at = "next"
          /\ mrcp' = "started" => state' = "waiting_vad"
      BY <1>t, <2>2 DEF StartConnection, StoreConnection, SetWaitingVad
    <3>2. ASSUME recognizeRequest \in Request, stopping[recognizeRequest]
          PROVE  Over(recognizeRequest)'
      <4>1. CASE StartConnection
        <5>1. call[recognizeRequest] = "none"
          BY <3>2, <4>1 DEF StartConnection, Typed, Calls
        <5> QED
          BY <3>2, <5>1 DEF Typed, Calls
      <4>2. CASE ~StartConnection
        <5>1. call' = call
          BY <2>2, <4>2 DEF StoreConnection, SetWaitingVad, grpc, service
        <5> QED
          BY <1>h, <2>1, <3>2, <5>1 DEF Over
      <4> QED
        BY <4>1, <4>2
    <3> QED
      BY <1>e, <1>t, <2>1, <3>1, <3>2
  <2>3. CASE RespondInProgress
    <3>1. UNCHANGED <<state, call>> /\ mrcp' = "idle" /\ mrcp = "started"
      BY <2>3 DEF RespondInProgress, shared, grpc, service
    <3>2. Over(recognizeRequest)' <=> Over(recognizeRequest)
      BY <2>1, <3>1 DEF Over
    <3> QED
      BY <1>e, <1>h, <1>t, <2>1, <3>1, <3>2
  <2> QED
    BY <1>3, <2>2, <2>3 DEF Mrcp
<1>4. CASE ProcessRecognize
  <2>1. /\ worker' = Idle /\ mrcp' = "accepted" /\ stopping' = stopping
        /\ recognizeRequest' = recognizeRequest + 1
    BY <1>4 DEF Settled, ProcessRecognize, grpc, flags
  <2>2. recognizeRequest' \in Request => ~stopping'[recognizeRequest']
    <3> SUFFICES ASSUME recognizeRequest' \in Request PROVE ~stopping[recognizeRequest']
      BY <2>1
    <3>1. recognizeRequest' > recognizeRequest
      BY <1>t, <2>1
    <3>2. call[recognizeRequest'] = "none"
      BY <3>1 DEF Typed, Calls
    <3> QED
      BY <3>2 DEF Typed, Calls
  <2> QED
    BY <1>e, <2>1, <2>2 DEF Idle
<1>5. CASE RunStop
  <2>1. /\ UNCHANGED <<state, recognizeRequest, worker, call, answered, mrcp>>
        /\ Occurs(queue, Stops)
    BY <1>5, AfterStop DEF RunStop, shared, grpc, service
  <2>2. Begun /\ (Occurs(Posted, Outcomes(recognizeRequest)) \/ Pending)
    BY <2>1 DEF Current
  <2>3. Over(recognizeRequest)
    BY <1>h, <2>2 DEF Course, Pending
  <2>4. Over(recognizeRequest)'
    BY <2>1, <2>3 DEF Over
  <2> QED
    BY <1>e, <1>h, <2>1, <2>4
<1>6. CASE RunDisable \/ RunSend \/ OnVoice \/ OnVoiceFeed \/ (Client /\ ~ProcessRecognize)
           \/ UNCHANGED vars
  <2>1. UNCHANGED <<state, recognizeRequest, worker, call, answered, mrcp, stopping>>
    BY <1>6 DEF RunDisable, RunSend, OnVoice, OnVoiceFeed, Client, OnOpen,
                OnClose, ProcessOther, vars, shared, grpc, flags, service
  <2>2. Over(recognizeRequest)' <=> Over(recognizeRequest)
    BY <2>1 DEF Over
  <2> QED
    BY <1>e, <1>h, <2>1, <2>2
<1> QED
  BY <1>1, <1>2, <1>3, <1>4, <1>5, <1>6 DEF Next, EventLoop

\* What the callbacks post about a request comes once, and in order.
LEMMA InOrderStep ==
  ASSUME Typed, Current, Orderly, Course, [Next]_vars, ~RespondStop,
         NEW r \in Request, InOrder(r)
  PROVE  InOrder(r)'
<1>a. /\ Answers(Outcomes(r)) /\ Answers(Starts(r)) /\ Answers(Completions(r)) /\ r # None
  BY AnswerKinds, ChannelAssumption DEF Request, None
<1>e. ASSUME /\ AtMostOnce(Posted', Outcomes(r))
             /\ AtMostOnce(Posted', Starts(r))
             /\ Preceded(Posted', Completions(r), Starts(r))
      PROVE  InOrder(r)'
  BY <1>e DEF InOrder, Outcomes, Starts, Completions, About
<1>h. /\ AtMostOnce(Posted, Outcomes(r))
      /\ AtMostOnce(Posted, Starts(r))
      /\ Preceded(Posted, Completions(r), Starts(r))
  BY DEF InOrder
<1>1. CASE UNCHANGED <<queue, delivered>>
  <2>1. Posted' = Posted
    BY <1>1 DEF Posted
  <2> QED
    BY <1>e, <1>h, <2>1
<1>2. CASE RunStop
  BY <1>2, <1>a, <1>e, <1>h, AfterStop
<1>3. CASE RunSend
  <2>1. Posted' = Posted
    BY <1>3, AfterSend
  <2> QED
    BY <1>e, <1>h, <2>1
<1>4. ASSUME NEW closure \in Closure, Post(closure), delivered' = delivered, Posting(closure)
      PROVE  InOrder(r)'
  <2> DEFINE mine == closure \in Outcomes(r) \cup Starts(r) \cup Completions(r)
  <2>1. ASSUME mine
        PROVE  /\ r = recognizeRequest /\ worker.at # "next" /\ Begun
               /\ \/ closure.message = "startofinput" /\ OnResultVad /\ state = "waiting_vad"
                  \/ closure.message = "complete" /\ SendResultEvent
                  \/ closure.message = "error" /\ SendErrorEvent
    <3>1. closure.request = r /\ closure.message # "inprogress"
      BY <2>1, Sorts DEF Final
    <3>2. /\ r = recognizeRequest
          /\ \/ RespondInProgress /\ closure = Send("inprogress", recognizeRequest, None)
             \/ OnResultVad /\ state = "waiting_vad"
                  /\ closure = Send("startofinput", recognizeRequest, worker.conn)
             \/ SendResultEvent /\ closure = Send("complete", recognizeRequest, worker.conn)
             \/ SendErrorEvent /\ closure = Send("error", recognizeRequest, worker.conn)
      BY <1>4, <1>a, <3>1, PostedAbout
    <3>3. /\ \/ closure.message = "startofinput" /\ OnResultVad /\ state = "waiting_vad"
             \/ closure.message = "complete" /\ SendResultEvent
             \/ closure.message = "error" /\ SendErrorEvent
      BY <3>1, <3>2 DEF Send
    <3>4. worker.at # "next"
      BY <3>3 DEF OnResultVad, SendResultEvent, SendErrorEvent, At
    <3> QED
      BY <3>2, <3>3, <3>4 DEF Current
  <2>2. closure \in Outcomes(r) => ~Occurs(Posted, Outcomes(r))
    BY <2>1 DEF Course
  <2>3. closure \in Starts(r) => ~Occurs(Posted, Starts(r))
    <3> SUFFICES ASSUME closure \in Starts(r) PROVE ~Occurs(Posted, Starts(r))
      OBVIOUS
    <3>1. r = recognizeRequest /\ Begun /\ OnResultVad /\ state = "waiting_vad"
      BY <2>1, Sorts
    <3>2. state # "recognizing" /\ worker.at # "recognizing"
      BY <3>1 DEF OnResultVad, At
    <3> QED
      BY <3>1, <3>2 DEF Course
  <2>4. closure \in Completions(r) => Occurs(Posted, Starts(r))
    <3> SUFFICES ASSUME closure \in Completions(r) PROVE Occurs(Posted, Starts(r))
      OBVIOUS
    <3>1. r = recognizeRequest /\ Begun /\ SendResultEvent
      BY <2>1, Sorts
    <3>2. state = "recognizing"
      BY <3>1 DEF SendResultEvent, At, Orderly
    <3> QED
      BY <3>1, <3>2 DEF Course
  <2> HIDE DEF mine
  <2> QED
    BY <1>4, <1>e, <1>h, <2>2, <2>3, <2>4, AfterPost
<1> QED
  BY <1>1, <1>2, <1>3, <1>4, PostedSteps

LEMMA CourseStep ==
  ASSUME Calm', Typed, Named, Current, Orderly, Course, [Next]_vars, ~RespondStop
  PROVE  Course'
<1>1. CASE ProcessRecognize
  <2>1. /\ recognizeRequest' \in Request /\ recognizeRequest' > recognizeRequest
        /\ UNCHANGED <<queue, delivered>> /\ mrcp' = "accepted"
    BY <1>1, ChannelAssumption DEF ProcessRecognize, Typed, TypeOK, Request
  <2>2. ~Occurs(Posted', About(Message, recognizeRequest'))
    BY <2>1 DEF Named, Posted
  <2> QED
    BY <2>1, <2>2 DEF Course, Begun
<1>2. CASE ~ProcessRecognize
  <2> DEFINE r == recognizeRequest
  <2>t. /\ r' = r /\ (r # None => r \in Request)
        /\ call \in [Request -> {"none", "open", "ended"}]
        /\ worker \in [at : {"next", "vad", "recognizing", "eou", "complete", "error", "failed"},
                       conn : 0 .. MaxRequests, eou : BOOLEAN]
        /\ worker.at # "next" => Begun /\ worker.conn = r
        /\ worker.at = "next" => worker = Idle
        /\ state \in {"idle", "waiting_vad", "recognizing"}
        /\ mrcp # "idle" => r # None
        /\ \A c \in Request : active[c] => c = r
    <3>1. r' = r /\ (r # None => r \in Request)
      BY <1>2, RequestsCount, ChannelAssumption DEF Request, None
    <3>2. /\ worker.at # "next" => Begun /\ worker.conn = r
          /\ \A c \in Request : active[c] => c = r
      BY DEF Current
    <3>3. worker.at = "next" => worker = Idle
      BY DEF Typed, Callback
    <3> QED
      BY <3>1, <3>2, <3>3 DEF Typed, TypeOK, Calls
  <2>b. /\ Begun <=> r # None /\ mrcp \in {"idle", "stopping"}
        /\ Begun' <=> r # None /\ mrcp' \in {"idle", "stopping"}
    BY <2>t DEF Begun
  <2>h. /\ r # None /\ ~Begun => ~Occurs(Posted, About(Message, r))
        /\ Begun =>
             /\ Occurs(Posted, Starts(r)) <=> state = "recognizing" \/ worker.at = "recognizing"
             /\ Occurs(Posted, Outcomes(r)) => worker.at = "next" /\ Over(r)
    BY DEF Course
  <2>e. ASSUME /\ r # None /\ ~Begun' => ~Occurs(Posted', About(Message, r))
               /\ Begun' =>
                   /\ Occurs(Posted', Starts(r))
                          <=> state' = "recognizing" \/ worker'.at = "recognizing"
                   /\ Occurs(Posted', Outcomes(r)) => worker'.at = "next" /\ Over(r)'
        PROVE  Course'
    BY <2>e, <2>t DEF Course, Over
  <2>o. /\ mrcp = "started" => state = "waiting_vad"
        /\ Begun => state # "idle"
        /\ worker.at \in {"complete", "error", "failed"} \/ worker.eou => Over(r)
    BY DEF Orderly
  <2>v. UNCHANGED <<call, answered>> => (Over(r)' <=> Over(r))
    BY <2>t DEF Over
  <2> HIDE DEF r
  \* Who posts about the request, and of which kind.
  <2>p. ASSUME NEW closure, Posting(closure), closure.request = r, r # None
        PROVE  \/ RespondInProgress /\ closure.message = "inprogress"
               \/ OnResultVad /\ state = "waiting_vad" /\ closure.message = "startofinput"
               \/ SendResultEvent /\ closure.message = "complete"
               \/ SendErrorEvent /\ closure.message = "error"
    <3>1. \/ RespondInProgress /\ closure = Send("inprogress", recognizeRequest, None)
          \/ OnResultVad /\ state = "waiting_vad"
               /\ closure = Send("startofinput", recognizeRequest, worker.conn)
          \/ SendResultEvent /\ closure = Send("complete", recognizeRequest, worker.conn)
          \/ SendErrorEvent /\ closure = Send("error", recognizeRequest, worker.conn)
      BY <2>p, PostedAbout
    <3> QED
      BY <3>1 DEF Send
  <2>1. ASSUME r # None, ~Begun' PROVE ~Begun /\ ~Occurs(Posted', About(Message, r))
    <3>1. ~Begun
      BY <1>2, <2>1, <2>b DEF Next, Client, OnOpen, OnClose, ProcessOther, ProcessStop,
           Mrcp, StartConnection, StoreConnection, SetWaitingVad, RespondInProgress, RespondStop,
           EventLoop, RunStop, RunDisable, RunSend, OnVoice, OnVoiceFeed, Worker, OnResultVad,
           OnResultRecognizing, OnResultEou, SendResultEvent, OnError, SendErrorEvent, Service,
           Error, Result, Begin, vars
    <3>2. ASSUME Occurs(Posted', About(Message, r)) PROVE FALSE
      <4>1. PICK closure \in About(Message, r) : Posting(closure)
        BY <2>1, <2>h, <3>1, <3>2, AnswerKinds, Persist
      <4>2. closure.request = r
        BY DEF About
      <4>3. RespondInProgress \/ worker.at # "next"
        BY <2>1, <2>p, <4>1, <4>2 DEF OnResultVad, SendResultEvent, SendErrorEvent, At
      <4> QED
        BY <2>1, <2>b, <2>t, <3>1, <4>3 DEF RespondInProgress
    <3> QED
      BY <3>1, <3>2
  <2>2. /\ Occurs(Posted, Starts(r)) => Occurs(Posted', Starts(r))
        /\ r # None /\ Occurs(Posted', Starts(r)) =>
               Occurs(Posted, Starts(r)) \/ (OnResultVad /\ state = "waiting_vad")
        /\ r # None /\ Occurs(Posted', Outcomes(r)) =>
               Occurs(Posted, Outcomes(r)) \/ SendResultEvent \/ SendErrorEvent
    <3>1. /\ Occurs(Posted', Starts(r)) =>
               Occurs(Posted, Starts(r)) \/ \E x \in Starts(r) : Posting(x)
          /\ Occurs(Posted', Outcomes(r)) =>
               Occurs(Posted, Outcomes(r)) \/ \E x \in Outcomes(r) : Posting(x)
          /\ Occurs(Posted, Starts(r)) => Occurs(Posted', Starts(r))
      BY AnswerKinds, Persist
    <3>2. /\ \A x \in Starts(r) : x.request = r /\ x.message = "startofinput"
          /\ \A x \in Outcomes(r) : x.request = r /\ x.message \in {"complete", "error", "stopped"}
      BY Sorts DEF Final
    <3> QED
      BY <2>p, <3>1, <3>2
  <2>3. OnResultVad /\ state = "waiting_vad" => Occurs(Posted', Starts(r))
    <3>1. r \in 0 .. MaxRequests /\ worker.conn \in 0 .. MaxRequests /\ "startofinput" \in Message
      BY ChannelAssumption DEF Message, r, Typed, TypeOK
    <3>2. /\ Send("startofinput", r, worker.conn) \in Closure
          /\ Send("startofinput", r, worker.conn) \in Starts(r)
      BY <3>1, ClosureTypes, Kinds DEF Starts
    <3>3. OnResultVad /\ state = "waiting_vad" =>
                Post(Send("startofinput", r, worker.conn)) /\ delivered' = delivered
      BY DEF OnResultVad, r
    <3> QED
      BY <3>2, <3>3, AfterPost
  <2>4. CASE RespondInProgress
    <3>1. /\ state' = state /\ worker' = worker /\ ~Begun /\ Begun' /\ mrcp = "started"
      BY <2>4, <2>b, <2>t DEF RespondInProgress, shared
    <3>2. worker.at = "next" /\ ~OnResultVad /\ ~SendResultEvent /\ ~SendErrorEvent
      BY <2>t, <3>1 DEF OnResultVad, SendResultEvent, SendErrorEvent, At
    <3>3. ~Occurs(Posted, Starts(r)) /\ ~Occurs(Posted, Outcomes(r)) /\ r # None
      <4>1. Starts(r) \in SUBSET About(Message, r) /\ Outcomes(r) \in SUBSET About(Message, r)
        BY DEF Starts, Outcomes, About, Message
      <4> QED
        BY <2>b, <2>h, <3>1, <4>1 DEF Occurs
    <3> QED
      BY <2>e, <2>o, <2>2, <2>4, <3>1, <3>2, <3>3
  <2>5. CASE Service
    <3>1. PICK c \in Request : Error(c) \/ \E eou \in BOOLEAN : Result(c, eou)
      BY <2>5 DEF Service
    <3>2. /\ worker = Idle /\ active[c] /\ worker'.at \in {"vad", "error"}
          /\ UNCHANGED <<state, mrcp>>
      BY <3>1, CallbackBegins
    <3>3. c = r /\ r # None
      BY <2>t, <3>2, ChannelAssumption DEF Request, None
    <3>4. ~Over(r)
      BY <3>1, <3>3, OnceOver
    <3>5. mrcp \in {"idle", "stopping"}
      <4>1. c \notin early'
        BY DEF Calm, Disturbed
      <4> QED
        BY <3>1, <4>1, InItsTime
    <3>6. /\ Begun /\ worker.at = "next" /\ ~OnResultVad /\ ~SendResultEvent /\ ~SendErrorEvent
      BY <2>b, <3>2, <3>3, <3>5 DEF Idle, OnResultVad, SendResultEvent, SendErrorEvent, At
    <3> QED
      BY <2>b, <2>e, <2>h, <2>2, <3>2, <3>3, <3>4, <3>6
  <2>6. CASE Worker
    <3>1. /\ UNCHANGED <<mrcp, call, answered>> /\ worker.at # "next"
      BY <2>6 DEF Worker, OnResultVad, OnResultRecognizing, OnResultEou, SendResultEvent, OnError,
                  SendErrorEvent, At, grpc, service
    <3>2. Begun /\ r # None /\ ~Occurs(Posted, Outcomes(r)) /\ (Over(r)' <=> Over(r))
      BY <2>b, <2>h, <2>t, <2>v, <3>1
    <3>3. CASE OnResultVad
      <4>1. /\ state' = state /\ worker.at = "vad" /\ ~SendResultEvent /\ ~SendErrorEvent
            /\ worker'.at = IF state = "waiting_vad" THEN "recognizing" ELSE "eou"
        BY <2>t, <3>3 DEF OnResultVad, At, shared, SendResultEvent, SendErrorEvent
      <4> QED
        BY <2>b, <2>e, <2>h, <2>o, <2>t, <2>2, <2>3, <3>1, <3>2, <3>3, <4>1
    <3>4. CASE OnResultRecognizing
      <4>1. /\ state' = "recognizing" /\ worker.at = "recognizing"
            /\ ~SendResultEvent /\ ~SendErrorEvent
        BY <2>t, <3>4 DEF OnResultRecognizing, At, SendResultEvent, SendErrorEvent
      <4> QED
        BY <2>b, <2>e, <2>h, <2>2, <3>1, <3>2, <4>1
    <3>5. CASE OnResultEou \/ OnError
      <4>1. /\ state' = state /\ worker.at \in {"eou", "error"}
            /\ worker'.at # "recognizing"
            /\ ~SendResultEvent /\ ~SendErrorEvent /\ ~OnResultVad
        BY <2>t, <3>5 DEF OnResultEou, OnError, At, shared, SendResultEvent, SendErrorEvent,
                          OnResultVad, Idle
      <4> QED
        BY <2>b, <2>e, <2>h, <2>2, <3>1, <3>2, <4>1
    <3>6. CASE SendResultEvent \/ SendErrorEvent
      <4>1. /\ state' = state /\ worker.at \in {"complete", "failed"} /\ worker'.at = "next"
            /\ ~OnResultVad
        BY <3>6 DEF SendResultEvent, SendErrorEvent, At, shared, OnResultVad, Idle
      <4> QED
        BY <2>b, <2>e, <2>h, <2>o, <2>2, <3>1, <3>2, <4>1
    <3> QED
      BY <2>6, <3>3, <3>4, <3>5, <3>6 DEF Worker
  <2>7. CASE \/ StartConnection \/ StoreConnection \/ SetWaitingVad
             \/ (Client /\ ~ProcessRecognize) \/ EventLoop \/ OnVoice \/ OnVoiceFeed
             \/ UNCHANGED vars
    <3>1. ~SendResultEvent /\ ~SendErrorEvent /\ ~(OnResultVad /\ state = "waiting_vad")
      <4>1. worker' = worker
        BY <2>7 DEF StartConnection, StoreConnection, SetWaitingVad, Client, OnOpen, OnClose,
                    ProcessOther, ProcessStop, EventLoop, RunStop, RunDisable, RunSend,
                    OnVoice, OnVoiceFeed, vars
      <4> QED
        BY <2>t, <4>1 DEF SendResultEvent, SendErrorEvent, OnResultVad, At, Idle
    <3>2. CASE StartConnection \/ StoreConnection \/ SetWaitingVad
      <4>1. ~Begun'
        BY <3>2, <2>b DEF StartConnection, StoreConnection, SetWaitingVad
      <4> QED
        BY <2>e, <2>1, <4>1
    <3>3. CASE (Client /\ ~ProcessRecognize) \/ EventLoop \/ OnVoice \/ OnVoiceFeed
               \/ UNCHANGED vars
      <4>1. /\ UNCHANGED <<state, worker, call, answered>>
            /\ mrcp' = mrcp \/ (mrcp = "idle" /\ mrcp' = "stopping")
        BY <3>3 DEF Client, OnOpen, OnClose, ProcessOther, ProcessStop, Ready, EventLoop, RunStop,
                    RunDisable, RunSend, OnVoice, OnVoiceFeed, vars, shared, grpc, service
      <4>2. Begun' => Begun /\ r # None
        BY <2>b, <4>1
      <4> QED
        BY <2>e, <2>h, <2>v, <2>1, <2>2, <3>1, <4>1, <4>2
    <3> QED
      BY <2>7, <3>2, <3>3
  <2> QED
    BY <1>2, <2>4, <2>5, <2>6, <2>7 DEF Next, Mrcp
<1> QED
  BY <1>1, <1>2

\* A stop runs before the outcome it was scheduled with is delivered.
LEMMA StopsFirstStep ==
  ASSUME Typed, Current, Course, StopsFirst, [Next]_vars,
         ~RespondStop, ProcessRecognize => Settled
  PROVE  StopsFirst'
<1>1. CASE ProcessRecognize
  <2>1. /\ UNCHANGED <<queue, loop>> /\ ~Occurs(queue, Stops) /\ loop = "next" /\ mrcp' = "accepted"
    BY <1>1 DEF ProcessRecognize, Settled
  <2> QED
    BY <2>1 DEF StopsFirst, Begun
<1>2. CASE ~ProcessRecognize
  <2> DEFINE r == recognizeRequest
  <2>t. /\ r' = r /\ (r # None => r \in Request) /\ None \notin Request
        /\ worker.at # "next" => Begun /\ worker.conn = r /\ r # None /\ r \in Request
        /\ Begun => connection = r
        /\ Occurs(queue, Stops) \/ loop = "disable" => Begun
        /\ loop \in {"next", "disable"}
        /\ active \in [Request -> BOOLEAN]
    <3>1. r' = r /\ (r # None => r \in Request) /\ None \notin Request
      BY <1>2, RequestsCount, ChannelAssumption DEF Request, None
    <3>2. /\ worker.at # "next" => Begun /\ worker.conn = r
          /\ Begun => connection = r
          /\ Occurs(queue, Stops) \/ loop = "disable" => Begun
      BY DEF Current
    <3>3. Begun => r # None
      BY DEF Begun
    <3> QED
      BY <3>1, <3>2, <3>3 DEF Typed, TypeOK
  <2>b. /\ Begun <=> r # None /\ mrcp \in {"idle", "stopping"}
        /\ Begun' <=> r # None /\ mrcp' \in {"idle", "stopping"}
        /\ Pending <=> worker.at \in {"complete", "failed"}
        /\ Pending' <=> worker'.at \in {"complete", "failed"}
    BY <2>t DEF Begun, Pending
  <2>c. /\ r # None /\ ~Begun => ~Occurs(Posted, Outcomes(r))
        /\ Begun /\ Occurs(Posted, Outcomes(r)) => worker.at = "next"
    <3>1. Outcomes(r) \in SUBSET About(Message, r)
      BY DEF Outcomes, About, Message
    <3> QED
      BY <3>1 DEF Course, Occurs
  <2>h. /\ AtMostOnce(queue, Stops)
        /\ Occurs(queue, Stops) \/ loop = "disable" => Pending \/ Occurs(queue, Outcomes(r))
        /\ Occurs(queue, Stops) => loop = "next" /\ Preceded(queue, Outcomes(r), Stops)
        /\ Begun /\ (Pending \/ Occurs(Posted, Outcomes(r)))
               => Occurs(queue, Stops) \/ loop = "disable" \/ ~active[r]
    BY DEF StopsFirst
  <2>e. ASSUME /\ AtMostOnce(queue', Stops)
               /\ Occurs(queue', Stops) \/ loop' = "disable"
                      => Pending' \/ Occurs(queue', Outcomes(r))
               /\ Occurs(queue', Stops) => loop' = "next" /\ Preceded(queue', Outcomes(r), Stops)
               /\ Begun' /\ (Pending' \/ Occurs(Posted', Outcomes(r)))
                      => Occurs(queue', Stops) \/ loop' = "disable" \/ ~active'[r]
        PROVE  StopsFirst'
    BY <2>e, <2>t DEF StopsFirst
  <2>k. Answers(Outcomes(r)) /\ \A x \in Stops : x \notin Outcomes(r)
    <3>1. Answers(Outcomes(r))
      BY AnswerKinds
    <3> QED
      BY <3>1, Sorts DEF Answers
  <2>q. Occurs(queue, Outcomes(r)) => Occurs(Posted, Outcomes(r))
    BY PostedTypes
  <2> HIDE DEF r
  <2>1. CASE RunStop
    <3>1. Occurs(queue, Stops) /\ Head(queue) \in Stops /\ ~Occurs(queue', Stops)
          /\ AtMostOnce(queue', Stops)
      BY <2>1, <2>h, AfterStop
    <3>2. Begun /\ connection = r /\ r # None
      BY <2>b, <2>t, <3>1
    <3>3. UNCHANGED <<worker, mrcp, active>> /\ loop' = "disable"
      BY <2>1, <3>2 DEF RunStop
    <3>4. Occurs(queue', Outcomes(r)) <=> Occurs(queue, Outcomes(r))
      BY <2>1, <2>k, <3>1, AfterStop
    <3> QED
      BY <2>b, <2>e, <2>h, <3>1, <3>3, <3>4
  <2>2. CASE RunSend
    <3>1. UNCHANGED <<worker, mrcp, active, loop>> /\ loop = "next"
      BY <2>2 DEF RunSend, grpc, flags
    <3>2. /\ Posted' = Posted /\ Head(queue) \notin Stops
          /\ Occurs(queue, Stops) <=> Occurs(queue', Stops)
          /\ Occurs(queue, Outcomes(r)) <=> Occurs(queue', Outcomes(r)) \/ Head(queue) \in Outcomes(r)
          /\ AtMostOnce(queue', Stops)
          /\ Preceded(queue, Outcomes(r), Stops)
                => Preceded(queue', Outcomes(r), Stops) /\ Head(queue) \notin Outcomes(r)
      <4>1. /\ Head(queue).kind = "send"
            /\ Posted' = Posted
            /\ Occurs(queue, Stops) <=> Occurs(queue', Stops) \/ Head(queue) \in Stops
            /\ AtMostOnce(queue, Stops) => AtMostOnce(queue', Stops)
        BY <2>2, AfterSend
      <4>2. Head(queue) \notin Stops
        BY <4>1 DEF Stops
      <4>3. /\ Occurs(queue, Outcomes(r)) <=>
                  Occurs(queue', Outcomes(r)) \/ Head(queue) \in Outcomes(r)
            /\ Preceded(queue, Outcomes(r), Stops)
                => Preceded(queue', Outcomes(r), Stops) /\ Head(queue) \notin Outcomes(r)
        BY <2>2, <4>2, AfterSend
      <4> QED
        BY <2>h, <4>1, <4>2, <4>3
    <3> QED
      BY <2>b, <2>e, <2>h, <3>1, <3>2
  <2>3. CASE RunDisable
    <3>1. /\ UNCHANGED <<worker, mrcp, queue, delivered>> /\ loop = "disable" /\ loop' = "next"
          /\ active' = [c \in Request |-> active[c] /\ c # connection]
      BY <2>3 DEF RunDisable, CallDisable
    <3>2. Posted' = Posted /\ connection = r /\ r \in Request
      BY <2>b, <2>t, <3>1 DEF Posted
    <3>3. ~active'[r] /\ ~Occurs(queue, Stops)
      BY <2>h, <3>1, <3>2
    <3> QED
      BY <2>b, <2>e, <2>h, <3>1, <3>3
  <2>4. CASE OnError \/ (OnResultEou /\ state = "recognizing" /\ worker.eou)
    <3>1. /\ Post(StopFor(worker.conn)) /\ delivered' = delivered /\ worker.at \in {"error", "eou"}
          /\ worker'.at \in {"complete", "failed"} /\ UNCHANGED <<loop, mrcp, active>>
      BY <2>4 DEF OnError, OnResultEou, At, grpc, flags, Typed, TypeOK
    <3>2. StopFor(worker.conn) \in Closure /\ StopFor(worker.conn) \in Stops
      BY <2>t, <3>1, ClosureTypes, Kinds
    <3>3. Begun /\ ~Pending /\ ~Occurs(queue, Outcomes(r)) /\ ~Occurs(queue, Stops) /\ loop = "next"
      BY <2>b, <2>c, <2>h, <2>q, <2>t, <3>1
    <3>4. Occurs(queue', Stops) /\ AtMostOnce(queue', Stops)
      BY <2>h, <3>1, <3>2, <3>3, AfterPost
    <3>5. Preceded(queue', Outcomes(r), Stops)
      BY <2>k, <3>1, <3>2, <3>3, AfterPost, NoneOccurs
    <3> QED
      BY <2>b, <2>e, <3>1, <3>3, <3>4, <3>5
  <2>5. CASE SendResultEvent \/ SendErrorEvent
    <3>1. PICK message \in {"complete", "error"} :
            /\ Post(Send(message, r, worker.conn)) /\ delivered' = delivered
            /\ worker.at \in {"complete", "failed"} /\ worker'.at = "next"
            /\ UNCHANGED <<loop, mrcp, active>>
      BY <2>5 DEF SendResultEvent, SendErrorEvent, At, grpc, flags, Idle, r
    <3>2. /\ Send(message, r, worker.conn) \in Closure /\ Send(message, r, worker.conn) \notin Stops
          /\ Send(message, r, worker.conn) \in Outcomes(r)
      <4>1. /\ message \in Message /\ message \in Final /\ r \in 0 .. MaxRequests
            /\ worker.conn \in 0 .. MaxRequests
        BY DEF Message, Final, r, Typed, TypeOK
      <4> QED
        BY <4>1, ClosureTypes, Kinds DEF Outcomes
    <3>3. /\ Occurs(queue', Stops) <=> Occurs(queue, Stops)
          /\ AtMostOnce(queue, Stops) => AtMostOnce(queue', Stops)
          /\ Occurs(queue', Outcomes(r))
      BY <3>1, <3>2, AfterPost
    <3>4. Occurs(queue, Stops) => Preceded(queue', Outcomes(r), Stops)
      BY <2>h, <3>1, <3>2, AfterPost
    <3> QED
      BY <2>b, <2>e, <2>h, <2>t, <3>1, <3>3, <3>4
  <2>6. CASE /\ ~RunStop /\ ~RunSend /\ ~RunDisable /\ ~SendResultEvent /\ ~SendErrorEvent
             /\ ~(OnError \/ (OnResultEou /\ state = "recognizing" /\ worker.eou))
    <3>1. /\ Pending' <=> Pending
          /\ loop' = loop
          /\ Begun' => Begun \/ RespondInProgress
          /\ Begun' => active' = active
      <4>1. CASE Service
        <5>1. /\ worker = Idle /\ worker'.at \in {"vad", "error"} /\ UNCHANGED <<mrcp, loop, active>>
          BY <4>1, CallbackBegins DEF Service
        <5> QED
          BY <2>b, <5>1 DEF Idle
      <4>2. CASE Worker
        <5>1. UNCHANGED <<mrcp, loop, active>>
          BY <4>2 DEF Worker, OnResultVad, OnResultRecognizing, OnResultEou, SendResultEvent,
                      OnError, SendErrorEvent, grpc, flags
        <5>2. ~Pending /\ ~Pending'
          BY <2>6, <2>b, <4>2 DEF Worker, OnResultVad, OnResultRecognizing, OnResultEou, At, Idle,
                                  Typed, TypeOK
        <5> QED
          BY <2>b, <5>1, <5>2
      <4>3. CASE Mrcp
        BY <2>b, <4>3 DEF Mrcp, StartConnection, StoreConnection, SetWaitingVad, RespondInProgress,
                          grpc, flags
      <4>4. CASE Client \/ OnVoice \/ OnVoiceFeed \/ UNCHANGED vars
        BY <1>2, <2>b, <4>4 DEF Client, OnOpen, OnClose, ProcessOther, ProcessStop, Ready, OnVoice,
                          OnVoiceFeed, vars, grpc, flags
      <4> QED
        BY <2>6, <4>1, <4>2, <4>3, <4>4 DEF Next, EventLoop
    <3>2. /\ Occurs(queue', Stops) <=> Occurs(queue, Stops)
          /\ Occurs(queue, Outcomes(r)) => Occurs(queue', Outcomes(r))
          /\ AtMostOnce(queue', Stops)
          /\ Occurs(queue, Stops) => Preceded(queue', Outcomes(r), Stops)
          /\ r # None /\ Occurs(Posted', Outcomes(r)) => Occurs(Posted, Outcomes(r))
      <4>1. CASE UNCHANGED <<queue, delivered>>
        BY <2>h, <4>1 DEF Posted
      <4>2. ASSUME NEW closure \in Closure, Post(closure), delivered' = delivered, Posting(closure)
            PROVE  /\ Occurs(queue', Stops) <=> Occurs(queue, Stops)
                   /\ Occurs(queue, Outcomes(r)) => Occurs(queue', Outcomes(r))
                   /\ AtMostOnce(queue', Stops)
                   /\ Occurs(queue, Stops) => Preceded(queue', Outcomes(r), Stops)
                   /\ r # None /\ Occurs(Posted', Outcomes(r)) => Occurs(Posted, Outcomes(r))
        <5>1. closure \notin Stops
          BY <2>6, <4>2 DEF Posting, Stops, Send
        <5>2. r # None => closure \notin Outcomes(r)
          <6> SUFFICES ASSUME r # None, closure \in Outcomes(r) PROVE FALSE
            OBVIOUS
          <6>1. closure.request = r /\ closure.message \in Final
            BY Sorts
          <6> QED
            BY <2>6, <4>2, <6>1, PostedAbout DEF Send, Final
        <5>3. /\ Occurs(queue', Stops) <=> Occurs(queue, Stops)
              /\ Occurs(queue, Outcomes(r)) => Occurs(queue', Outcomes(r))
              /\ AtMostOnce(queue', Stops)
              /\ r # None /\ Occurs(Posted', Outcomes(r)) => Occurs(Posted, Outcomes(r))
          BY <2>h, <4>2, <5>1, <5>2, AfterPost
        <5>4. Occurs(queue, Stops) => Preceded(queue', Outcomes(r), Stops)
          BY <2>h, <4>2, <5>1, AfterPost
        <5> QED
          BY <5>3, <5>4
      <4> QED
        BY <2>6, <4>1, <4>2, PostedSteps
    <3> QED
      BY <2>b, <2>c, <2>e, <2>h, <2>t, <3>1, <3>2 DEF RespondInProgress
  <2> QED
    BY <2>1, <2>2, <2>3, <2>4, <2>5, <2>6
<1> QED
  BY <1>1, <1>2

\* A session with no STOP in which every callback comes after process_recognize() returned and
\* no call reports two outcomes.
Undisturbed ==
    Calm /\ ~StopCalled =>
        Current /\ Orderly /\ Course /\ StopsFirst /\ \A r \in Request : InOrder(r)

LEMMA UndisturbedInit == Init => Named /\ Undisturbed
<1> SUFFICES ASSUME Init PROVE Named /\ Undisturbed
  OBVIOUS
<1>1. /\ worker = Idle /\ mrcp = "idle" /\ recognizeRequest = None /\ queue = <<>> /\ Posted = <<>>
      /\ loop = "next" /\ active = [c \in Request |-> FALSE] /\ recognizeRequest \notin Request
  BY ChannelAssumption DEF Init, Posted, None, Request
<1>2. \A E, F : ~Occurs(Posted, E) /\ ~Occurs(queue, E) /\ AtMostOnce(Posted, E)
                /\ AtMostOnce(queue, E) /\ Preceded(Posted, E, F)
  BY <1>1 DEF Occurs, AtMostOnce, Preceded
<1> QED
  BY <1>1, <1>2 DEF Named, Undisturbed, Current, Orderly, Course, StopsFirst, InOrder, Begun,
                    Pending, Idle

\* The next request comes when the one before it is settled.
LEMMA NextIsSettled ==
  ASSUME Typed, Undisturbed, Calm, ~StopCalled, ~InProgress
  PROVE  Settled
<1>1. recognizeRequest \in Request \/ recognizeRequest = None
  BY ChannelAssumption DEF Typed, TypeOK, Request, None
<1> QED
  BY <1>1, SettledIs DEF Undisturbed

LEMMA UndisturbedStep == Typed /\ Named /\ Undisturbed /\ [Next]_vars => Undisturbed'
<1> SUFFICES ASSUME Typed, Named, Undisturbed, [Next]_vars, Calm', ~StopCalled'
             PROVE  (Current /\ Orderly /\ Course /\ StopsFirst /\ \A r \in Request : InOrder(r))'
  BY DEF Undisturbed
<1>1. ~StopCalled /\ Calm
  BY StopStays, DisturbedStays
<1>2. Current /\ Orderly /\ Course /\ StopsFirst /\ \A r \in Request : InOrder(r)
  BY <1>1 DEF Undisturbed
<1>3. ~RespondStop /\ ~ProcessStop
  BY <1>1 DEF RespondStop, ProcessStop, StopCalled
<1>4. ProcessRecognize => Settled
  BY <1>1, NextIsSettled DEF ProcessRecognize
<1>5. Current'
  <2>1. recognizeRequest \notin early'
    BY DEF Calm, Disturbed
  <2> QED
    BY <1>2, <1>4, <2>1, CurrentStep, CurrentNext
<1>6. Orderly'
  BY <1>2, <1>3, <1>4, OrderlyStep
<1>7. Course'
  BY <1>2, <1>3, CourseStep
<1>8. StopsFirst'
  BY <1>2, <1>3, <1>4, StopsFirstStep
<1>9. \A r \in Request : InOrder(r)'
  BY <1>2, <1>3, InOrderStep
<1> QED
  BY <1>5, <1>6, <1>7, <1>8, <1>9

\* A set with at most one element.
LEMMA AtMostOneElement ==
  ASSUME NEW S, \A i, j \in S : i = j
  PROVE  Cardinality(S) <= 1
<1>1. CASE S = {}
  BY <1>1, FS_EmptySet
<1>2. CASE S # {}
  <2>1. PICK x \in S : TRUE
    BY <1>2
  <2>2. S = {x}
    BY <2>1
  <2> QED
    BY <2>2, FS_Singleton
<1> QED
  BY <1>1, <1>2

\* The positions of what is posted, by kind.
LEMMA PositionsAre ==
  ASSUME Typed
  PROVE  \A messages, r : Positions(messages, r) = {i \in DOMAIN Posted : Posted[i] \in About(messages, r)}
<1>1. \A i \in DOMAIN Posted : Posted[i] \in Closure
  BY PostedTypes, ElementOfSeq
<1> QED
  BY <1>1 DEF Positions, About

LEMMA StartIsAnnounced == Typed /\ Undisturbed => StopCalled \/ AnnouncedOnce
<1> SUFFICES ASSUME Typed, Undisturbed, ~StopCalled, Calm, NEW r \in Request
             PROVE  /\ Cardinality(Positions({"startofinput"}, r)) <= 1
                    /\ \A i \in Positions({"complete"}, r) :
                           \E j \in Positions({"startofinput"}, r) : j < i
  BY DEF AnnouncedOnce
<1>1. /\ AtMostOnce(Posted, About({"startofinput"}, r))
      /\ Preceded(Posted, About({"complete"}, r), About({"startofinput"}, r))
  BY DEF Undisturbed, InOrder, Completions, Starts
<1>2. \A i, j \in Positions({"startofinput"}, r) : i = j
  BY <1>1, PositionsAre DEF AtMostOnce
<1>3. \A i \in Positions({"complete"}, r) : \E j \in Positions({"startofinput"}, r) : j < i
  BY <1>1, PositionsAre DEF Preceded
<1> QED
  BY <1>2, <1>3, AtMostOneElement

LEMMA DoneIsQuiet == Typed /\ Named /\ Phases /\ Undisturbed => StopCalled \/ CompletedIsQuiet
<1> SUFFICES ASSUME Typed, Named, Phases, Undisturbed, ~StopCalled, Calm
             PROVE  /\ \A i \in DOMAIN queue : queue[i].kind = "stop" => connection = queue[i].from
                    /\ \A r \in Request : Finished(r) => ~active[r] /\ worker.conn # r
                    /\ phase = "destroyed" => /\ worker = Idle /\ loop = "next"
                                              /\ \A c \in Request : ~active[c]
                                              /\ \A i \in DOMAIN queue : queue[i].kind # "stop"
  BY DEF CompletedIsQuiet
<1>1. Current /\ Course
  BY DEF Undisturbed
<1>2. /\ recognizeRequest \in 0 .. MaxRequests /\ (worker.at = "next" => worker = Idle)
      /\ None \notin Request /\ Request = 1 .. MaxRequests /\ MaxRequests \in Nat
      /\ queue \in Seq(Closure)
  BY ChannelAssumption, PostedTypes DEF Typed, TypeOK, Callback, Request, None
<1>3. ASSUME NEW i \in DOMAIN queue, queue[i].kind = "stop"
      PROVE  connection = queue[i].from
  <2>1. queue[i] \in Stops
    BY <1>2, <1>3, ElementOfSeq DEF Stops
  <2>2. queue[i].from = recognizeRequest
    BY <1>1, <2>1 DEF Current, Occurs, StopsOfOthers
  <2>3. connection = recognizeRequest
    BY <1>1, <2>1 DEF Current, Occurs
  <2> QED
    BY <2>2, <2>3
<1>4. ASSUME NEW r \in Request, Finished(r)
      PROVE  ~active[r] /\ worker.conn # r
  <2>1. Occurs(Posted, About(Final, r))
    BY <1>4, FinishedIs, PostedTypes
  <2>2. r <= recognizeRequest
    <3>1. Occurs(Posted, About(Message, r))
      BY <2>1 DEF Occurs, About, Message
    <3> QED
      BY <1>2, <3>1 DEF Named
  <2>3. CASE r = recognizeRequest
    <3>1. Settled
      BY <1>4, <2>3, NextIsSettled DEF InProgress
    <3> QED
      BY <1>2, <2>3, <3>1 DEF Settled, Idle
  <2>4. CASE r < recognizeRequest
    <3>1. ~active[r] /\ (worker.at # "next" => worker.conn = recognizeRequest)
      BY <1>1, <1>2, <2>4 DEF Current
    <3> QED
      BY <1>2, <2>4, <3>1 DEF Idle
  <2> QED
    BY <1>2, <2>2, <2>3, <2>4
<1>5. ASSUME phase = "destroyed"
      PROVE  /\ worker = Idle /\ loop = "next"
             /\ \A c \in Request : ~active[c]
             /\ \A i \in DOMAIN queue : queue[i].kind # "stop"
  <2>1. ~InProgress
    BY <1>5 DEF Phases
  <2>2. Settled
    BY <2>1, NextIsSettled
  <2>3. \A i \in DOMAIN queue : queue[i].kind = "stop" => queue[i] \in Stops
    BY <1>2, ElementOfSeq DEF Stops
  <2> QED
    BY <1>1, <2>2, <2>3 DEF Settled, Current, Occurs
<1> QED
  BY <1>3, <1>4, <1>5

\* Until a STOP is given, the start of input of every RECOGNIZE is announced once and before its
\* result, and what is left when it is complete cannot touch the request that comes next; for
\* sessions in which no callback comes inside process_recognize() and no call reports twice.
THEOREM UntilStopped == Spec => [](StopCalled \/ (AnnouncedOnce /\ CompletedIsQuiet))
<1> DEFINE Inv == Typed /\ Named /\ Phases /\ Undisturbed
<1>1. Init => Inv
  <2>1. Init => Phases
    BY DEF Init, Phases, Occurs, AtMostOnce, Posted, InProgress
  <2> QED
    BY <2>1, TypeInit, UndisturbedInit
<1>2. Inv /\ [Next]_vars => Inv'
  BY TypeStep, NamedStep, PhasesStep, UndisturbedStep
<1>3. Inv => StopCalled \/ (AnnouncedOnce /\ CompletedIsQuiet)
  BY StartIsAnnounced, DoneIsQuiet
<1> HIDE DEF Inv
<1> QED
  BY <1>1, <1>2, <1>3, PTL DEF Spec

\* So in a session without STOP, of any number of requests and results, state_ announces each
\* start of input once ...
THEOREM StartAnnounced == ~StopAllowed => (Spec => []AnnouncedOnce)
<1> SUFFICES ASSUME ~StopAllowed PROVE Spec => []AnnouncedOnce
  OBVIOUS
<1> QED
  BY UntilStopped, WithoutStop, PTL

\* ... and a request leaves nothing behind that a later one or the destroyed channel would meet.
THEOREM QuietAfterCompletion == ~StopAllowed => (Spec => []CompletedIsQuiet)
<1> SUFFICES ASSUME ~StopAllowed PROVE Spec => []CompletedIsQuiet
  OBVIOUS
<1> QED
  BY UntilStopped, WithoutStop, PTL

-----------------------------------------------------------------------------
(* What harms a request.                                                    *)

Foreign(r) == {x \in Closure : x.request = r /\ x.from # None /\ x.from # r}

\* A stop runs before the outcome it was scheduled with is delivered, whether or not another
\* outcome follows.
Silenced(r) ==
    /\ Occurs(delivered, Outcomes(r)) => stopping[r]
    /\ stopping[r] \/ (Preceded(queue, Outcomes(r), Stops) /\ (Pending => Occurs(queue, Stops)))

\* A request that nothing before it disturbed and none before which was stopped: its events
\* are its own, its connection is silenced only with its outcome, which every request but the
\* current one has.
Unharmed(r) ==
    CalmUntil(r) /\ ~StoppedBefore(r) =>
        /\ ~Occurs(Posted, Foreign(r))
        /\ call[r] # "none" /\ ~active[r] =>
               /\ stopping[r]
               /\ Occurs(Posted, Outcomes(r)) \/ (Pending /\ worker.conn = r)
        /\ r < recognizeRequest => stopping[r] /\ Occurs(Posted, Outcomes(r))
        /\ r = recognizeRequest => Current /\ Silenced(r)

\* The requests before r that were stopped, as a kind of answer.
StopsBefore(r) == {x \in Closure : x.message = "stopped" /\ x.request < r}

LEMMA StoppedBeforeIs ==
  Typed => \A r : StoppedBefore(r) <=> Occurs(Posted, StopsBefore(r))
<1> SUFFICES ASSUME Typed PROVE \A r : StoppedBefore(r) <=> Occurs(Posted, StopsBefore(r))
  OBVIOUS
<1>1. \A i \in DOMAIN Posted : Posted[i] \in Closure
  BY PostedTypes, ElementOfSeq
<1> QED
  BY <1>1 DEF StoppedBefore, Occurs, StopsBefore

\* Once a request was stopped, it stays stopped.
LEMMA StoppedStays ==
  ASSUME Typed, [Next]_vars, NEW r, StoppedBefore(r)
  PROVE  StoppedBefore(r)'
<1>1. Occurs(Posted, StopsBefore(r))
  BY StoppedBeforeIs
<1>2. Answers(StopsBefore(r))
  <2>1. \A x \in Closure : x.kind = "stop" => x.message = "none"
    BY DEF Closure, Answer
  <2>2. \A x \in Closure : x.kind \in {"send", "stop"}
    BY DEF Closure, Answer
  <2> QED
    BY <2>1, <2>2 DEF Answers, StopsBefore
<1>3. Occurs(Posted', StopsBefore(r))
  BY <1>1, <1>2, Persist
<1> QED
  BY <1>3 DEF Occurs, StopsBefore, StoppedBefore

\* A callback that scheduled a stop goes on to post the outcome.
LEMMA PendingStep ==
  ASSUME Typed, [Next]_vars, Pending
  PROVE  (Pending' /\ worker' = worker) \/ Occurs(Posted', Outcomes(recognizeRequest))
<1>1. CASE SendResultEvent \/ SendErrorEvent
  <2>1. PICK message \in {"complete", "error"} :
          Post(Send(message, recognizeRequest, worker.conn)) /\ delivered' = delivered
    BY <1>1 DEF SendResultEvent, SendErrorEvent
  <2>2. /\ message \in Message /\ message \in Final /\ recognizeRequest \in 0 .. MaxRequests
        /\ worker.conn \in 0 .. MaxRequests
    BY DEF Message, Final, Typed, TypeOK
  <2>3. /\ Send(message, recognizeRequest, worker.conn) \in Closure
        /\ Send(message, recognizeRequest, worker.conn) \in Outcomes(recognizeRequest)
    BY <2>2, ClosureTypes, Kinds DEF Outcomes
  <2> QED
    BY <2>1, <2>3, AfterPost
<1>2. CASE ~SendResultEvent /\ ~SendErrorEvent
  <2>1. worker' = worker
    <3>1. ~Service
      <4>1. Service => worker = Idle
        BY DEF Service, Error, Result, Begin
      <4>2. Idle.at = "next"
        BY DEF Idle
      <4> QED
        BY <4>1, <4>2 DEF Pending
    <3>2. ~Worker
      BY <1>2 DEF Pending, Worker, OnResultVad, OnResultRecognizing, OnResultEou, OnError, At
    <3> QED
      BY <3>1, <3>2 DEF Next, Client, OnOpen, OnClose, ProcessOther, ProcessRecognize, ProcessStop,
           Mrcp, StartConnection, StoreConnection, SetWaitingVad, RespondInProgress, RespondStop,
           EventLoop, RunStop, RunDisable, RunSend, OnVoice, OnVoiceFeed, vars
  <2> QED
    BY <2>1 DEF Pending
<1> QED
  BY <1>1, <1>2

\* writes_done_ and the calls that were made stay so.
LEMMA StoppingStays ==
  ASSUME Typed, [Next]_vars, NEW c \in Request, stopping[c]
  PROVE  stopping'[c]
<1>1. stopping \in [Request -> BOOLEAN]
  BY DEF Typed, TypeOK
<1> QED
  BY <1>1 DEF Next, Client, OnOpen, OnClose, ProcessOther, ProcessRecognize, ProcessStop, Mrcp,
              StartConnection, StoreConnection, SetWaitingVad, RespondInProgress, RespondStop,
              EventLoop, RunStop, RunDisable, RunSend, CallWritesDone, OnVoice, OnVoiceFeed,
              Worker, OnResultVad, OnResultRecognizing, OnResultEou, SendResultEvent, OnError,
              SendErrorEvent, Service, Error, Result, Begin, vars, grpc, flags

\* If no request before the current one was stopped, a STOP that was given is about this one.
LEMMA StopIsOfCurrent ==
  ASSUME Typed, Named, StopCalled, mrcp = "idle", ~StoppedBefore(recognizeRequest)
  PROVE  Occurs(Posted, About({"stopped"}, recognizeRequest))
<1>1. PICK i \in DOMAIN Posted : Posted[i] \in Of("stopped")
  BY DEF StopCalled, Occurs
<1>2. Posted[i] \in Closure /\ Posted[i].message = "stopped"
  BY <1>1 DEF Of
<1>3. Posted[i].request \in 0 .. MaxRequests /\ recognizeRequest \in 0 .. MaxRequests
  BY <1>2, ChannelAssumption DEF Closure, Answer, None, Typed, TypeOK
<1>4. ~(Posted[i].request < recognizeRequest)
  BY <1>1, <1>2 DEF StoppedBefore
<1>5. ~(Posted[i].request > recognizeRequest)
  <2> SUFFICES ASSUME Posted[i].request > recognizeRequest PROVE FALSE
    OBVIOUS
  <2>1. Posted[i].request \in Request
    BY <1>3, ChannelAssumption DEF Request
  <2>2. Posted[i] \in About(Message, Posted[i].request)
    BY <1>2 DEF About, Message, Final
  <2> QED
    BY <2>1, <2>2 DEF Named, Occurs
<1>6. Posted[i].request = recognizeRequest
  BY <1>3, <1>4, <1>5
<1> QED
  BY <1>2, <1>6 DEF Occurs, About

LEMMA SilencedStep ==
  ASSUME Typed, Current, [Next]_vars, NEW r \in Request, r = recognizeRequest, Silenced(r),
         ~ProcessRecognize
  PROVE  Silenced(r)'
<1>k. /\ Answers(Outcomes(r)) /\ r # None
      /\ \A x \in Stops : x.kind = "stop"
      /\ \A x \in Outcomes(r) : x.request = r /\ x.message \in Final /\ x \notin Stops
  BY AnswerKinds, Sorts, ChannelAssumption DEF Answers, Request, None
<1>h. /\ Occurs(delivered, Outcomes(r)) => stopping[r]
      /\ stopping[r] \/ (Preceded(queue, Outcomes(r), Stops) /\ (Pending => Occurs(queue, Stops)))
  BY DEF Silenced
<1>e. ASSUME /\ Occurs(delivered', Outcomes(r)) => stopping'[r]
             /\ stopping'[r] \/ (Preceded(queue', Outcomes(r), Stops)
                                  /\ (Pending' => Occurs(queue', Stops)))
      PROVE  Silenced(r)'
  BY <1>e DEF Silenced, Outcomes, About
<1>1. CASE stopping'[r]
  BY <1>1, <1>e
<1>2. CASE ~stopping'[r]
  <2>1. /\ ~stopping[r] /\ ~Occurs(delivered, Outcomes(r))
        /\ Preceded(queue, Outcomes(r), Stops) /\ (Pending => Occurs(queue, Stops))
    BY <1>2, <1>h, StoppingStays
  <2>2. CASE RunStop
    <3>1. Occurs(queue, Stops)
      BY <2>2, AfterStop
    <3>2. connection = r
      BY <3>1 DEF Current
    <3>3. stopping'[r]
      BY <2>2, <3>2 DEF RunStop, CallWritesDone
    <3> QED
      BY <1>2, <3>3
  <2>3. CASE RunSend
    <3>1. /\ Head(queue).kind = "send"
          /\ Occurs(delivered', Outcomes(r)) =>
                Occurs(delivered, Outcomes(r)) \/ Head(queue) \in Outcomes(r)
          /\ Occurs(queue, Stops) => Occurs(queue', Stops) \/ Head(queue) \in Stops
      BY <2>3, AfterSend
    <3>2. Head(queue) \notin Stops
      BY <1>k, <3>1
    <3>3. Preceded(queue', Outcomes(r), Stops) /\ Head(queue) \notin Outcomes(r)
      BY <2>1, <2>3, <3>2, AfterSend
    <3>4. Pending' <=> Pending
      BY <2>3 DEF RunSend, Pending
    <3> QED
      BY <1>e, <2>1, <3>1, <3>2, <3>3, <3>4
  <2>4. CASE ~RunStop /\ ~RunSend
    <3>1. Pending' => Pending \/ OnError \/ (OnResultEou /\ state = "recognizing" /\ worker.eou)
      <4>1. CASE Service
        BY <4>1, CallbackBegins DEF Service, Pending
      <4>2. CASE Worker
        BY <4>2 DEF Worker, OnResultVad, OnResultRecognizing, OnResultEou, SendResultEvent,
                    OnError, SendErrorEvent, At, Idle, Pending, Typed, TypeOK
      <4>3. CASE ~Service /\ ~Worker
        BY <4>3 DEF Next, Client, OnOpen, OnClose, ProcessOther, ProcessRecognize, ProcessStop,
           Mrcp, StartConnection, StoreConnection, SetWaitingVad, RespondInProgress, RespondStop,
           EventLoop, RunStop, RunDisable, RunSend, OnVoice, OnVoiceFeed, vars, Pending
      <4> QED
        BY <4>1, <4>2, <4>3
    <3>2. ~(OnError \/ (OnResultEou /\ state = "recognizing" /\ worker.eou)) \/ Occurs(queue', Stops)
      <4> SUFFICES ASSUME OnError \/ (OnResultEou /\ state = "recognizing" /\ worker.eou)
                   PROVE  Occurs(queue', Stops)
        OBVIOUS
      <4>1. /\ Post(StopFor(worker.conn)) /\ delivered' = delivered /\ worker.at # "next"
        BY DEF OnError, OnResultEou, At
      <4>2. StopFor(worker.conn) \in Closure /\ StopFor(worker.conn) \in Stops
        BY <4>1, ClosureTypes, Kinds DEF Typed, Callback
      <4> QED
        BY <4>1, <4>2, AfterPost
    <3>3. /\ Occurs(queue, Stops) => Occurs(queue', Stops)
          /\ delivered' = delivered
          /\ Preceded(queue', Outcomes(r), Stops)
      <4>1. CASE UNCHANGED <<queue, delivered>>
        BY <2>1, <4>1
      <4>2. ASSUME NEW closure \in Closure, Post(closure), delivered' = delivered, Posting(closure)
            PROVE  /\ Occurs(queue, Stops) => Occurs(queue', Stops)
                   /\ Preceded(queue', Outcomes(r), Stops)
        <5>1. closure \in Outcomes(r) => Occurs(queue, Stops)
          <6> SUFFICES ASSUME closure \in Outcomes(r) PROVE Occurs(queue, Stops)
            OBVIOUS
          <6>1. closure.request = r /\ closure.message \in Final
            BY <1>k
          <6>2. RespondStop \/ SendResultEvent \/ SendErrorEvent
            BY <1>k, <4>2, <6>1, PostedAbout DEF Send, Final
          <6>3. ~RespondStop
            BY <2>1 DEF RespondStop, Current
          <6>4. Pending
            BY <6>2, <6>3 DEF SendResultEvent, SendErrorEvent, At, Pending
          <6> QED
            BY <2>1, <6>4
        <5> QED
          BY <2>1, <4>2, <5>1, AfterPost
      <4> QED
        BY <2>1, <2>4, <4>1, <4>2, PostedSteps
    <3> QED
      BY <1>e, <2>1, <3>1, <3>2, <3>3
  <2> QED
    BY <2>2, <2>3, <2>4
<1> QED
  BY <1>1, <1>2

LEMMA UnharmedStep ==
  ASSUME Typed, Named, Undisturbed, [Next]_vars,
         NEW r \in Request, Unharmed(r)
  PROVE  Unharmed(r)'
<1> SUFFICES ASSUME CalmUntil(r)', ~StoppedBefore(r)'
             PROVE  /\ ~Occurs(Posted', Foreign(r))
                    /\ call'[r] # "none" /\ ~active'[r] =>
                           /\ stopping'[r]
                           /\ Occurs(Posted', Outcomes(r)) \/ (Pending' /\ worker'.conn = r)
                    /\ r < recognizeRequest' => stopping'[r] /\ Occurs(Posted', Outcomes(r))
                    /\ r = recognizeRequest' => Current' /\ Silenced(r)'
  BY DEF Unharmed
<1>1. CalmUntil(r) /\ ~StoppedBefore(r)
  BY StoppedStays, DisturbedStays
<1>h. /\ ~Occurs(Posted, Foreign(r))
      /\ call[r] # "none" /\ ~active[r] =>
             /\ stopping[r]
             /\ Occurs(Posted, Outcomes(r)) \/ (Pending /\ worker.conn = r)
      /\ r < recognizeRequest => stopping[r] /\ Occurs(Posted, Outcomes(r))
      /\ r = recognizeRequest => Current /\ Silenced(r)
  BY <1>1 DEF Unharmed
<1>t. /\ recognizeRequest \in Nat /\ recognizeRequest' \in Nat /\ r \in Nat /\ r # None
      /\ recognizeRequest \in 0 .. MaxRequests
      /\ active \in [Request -> BOOLEAN] /\ call \in [Request -> {"none", "open", "ended"}]
      /\ active[r] => call[r] # "none"
      /\ r > recognizeRequest => call[r] = "none"
  <2>1. /\ recognizeRequest \in Nat /\ recognizeRequest' \in Nat /\ r \in Nat /\ r # None
        /\ recognizeRequest \in 0 .. MaxRequests
    BY RequestsCount, ChannelAssumption DEF Request, None
  <2>2. active \in [Request -> BOOLEAN] /\ call \in [Request -> {"none", "open", "ended"}]
    BY DEF Typed, TypeOK
  <2>3. (active[r] => call[r] # "none") /\ (r > recognizeRequest => call[r] = "none")
    BY DEF Typed, Calls
  <2> QED
    BY <2>1, <2>2, <2>3
<1>f. Foreign(r) \in SUBSET About(Message, r) /\ Answers(Foreign(r)) /\ Answers(Outcomes(r))
  <2>1. \A x \in Closure : x.request # None => x.kind = "send" /\ x.message \in Message
    BY DEF Closure, Answer
  <2> QED
    BY <1>t, <2>1, AnswerKinds DEF Foreign, About, Answers
<1>o. Occurs(Posted, Outcomes(r)) => Occurs(Posted', Outcomes(r))
  BY <1>f, Persist
<1>2. CASE ProcessRecognize
  <2>1. /\ recognizeRequest' = recognizeRequest + 1 /\ mrcp = "idle" /\ ~InProgress
        /\ UNCHANGED <<queue, delivered, call, active, stopping, worker>>
    BY <1>2 DEF ProcessRecognize, Ready, grpc, flags, service
  <2>2. Posted' = Posted /\ (Pending' <=> Pending)
    BY <2>1 DEF Posted, Pending
  <2>3. CASE r > recognizeRequest
    <3>1. call'[r] = "none" /\ ~Occurs(Posted', Foreign(r)) /\ ~(r < recognizeRequest')
      BY <1>t, <1>h, <2>1, <2>2, <2>3
    <3>2. ASSUME r = recognizeRequest' PROVE Current' /\ Silenced(r)'
      <4>1. recognizeRequest < r
        BY <2>3, <1>t
      <4>c. Calm
        <5> SUFFICES ASSUME NEW c \in Disturbed PROVE FALSE
          BY DEF Calm
        <5>1. c \in Request /\ c \in Nat /\ (c \in early \/ Reports(c) > 1)
          BY DEF Disturbed, Typed, TypeOK, Request
        <5>2. c > r \/ c = r
          BY <1>1 DEF CalmUntil
        <5>3. call[c] = "none"
          BY <1>t, <2>3, <5>1, <5>2 DEF Typed, Calls
        <5>4. errors[c] = 0 /\ c \notin answered /\ c \notin early
          BY <5>1, <5>3 DEF Typed, Calls
        <5> QED
          BY <5>1, <5>4 DEF Reports
      <4>2. ~StopCalled
        <5> SUFFICES ASSUME StopCalled PROVE FALSE
          OBVIOUS
        <5>1. ~StoppedBefore(recognizeRequest)
          <6>1. \A n : n \in 0 .. MaxRequests /\ n < recognizeRequest => n < r
            BY <1>t, <4>1
          <6>2. \A i \in DOMAIN Posted : Posted[i].request \in 0 .. MaxRequests
            <7>1. \A x \in Closure : x.request \in 0 .. MaxRequests
              BY ChannelAssumption DEF Closure, Answer, None
            <7> QED
              BY <7>1, PostedTypes, ElementOfSeq
          <6> QED
            BY <1>1, <6>1, <6>2 DEF StoppedBefore
        <5>2. PICK i \in DOMAIN Posted : Posted[i] \in About({"stopped"}, recognizeRequest)
          BY <2>1, <5>1, StopIsOfCurrent DEF Occurs
        <5> QED
          BY <1>1, <4>1, <5>2 DEF StoppedBefore, About
      <4>3. Settled /\ Current'
        BY <1>2, <2>1, <4>c, <4>2, NextIsSettled, CurrentNext DEF Undisturbed
      <4>4. ~Occurs(Posted, Outcomes(r))
        <5>1. ~Occurs(Posted, About(Message, r))
          BY <2>3 DEF Named
        <5>2. Outcomes(r) \in SUBSET About(Message, r)
          BY DEF Outcomes, About, Message
        <5> QED
          BY <5>1, <5>2 DEF Occurs
      <4>5. ~Occurs(delivered, Outcomes(r)) /\ ~Occurs(queue, Outcomes(r))
        BY <4>4, PostedTypes
      <4>6. ~Pending
        BY <4>3 DEF Settled, Pending, Idle
      <4>7. Preceded(queue, Outcomes(r), Stops)
        BY <4>5, NoneOccurs
      <4>8. Silenced(r)'
        BY <2>1, <2>2, <4>5, <4>6, <4>7 DEF Silenced, Outcomes, About
      <4> QED
        BY <4>3, <4>8
    <3> QED
      BY <3>1, <3>2
  <2>4. CASE r = recognizeRequest
    <3>1. Current /\ Finished(r) /\ Begun
      BY <1>h, <1>t, <2>1, <2>4 DEF InProgress, Begun
    <3>2. Occurs(Posted, Outcomes(r))
      BY <3>1, FinishedIs, PostedTypes DEF Outcomes
    <3>3. stopping[r]
      BY <1>h, <2>4, <3>1, FinishedIs DEF Silenced, Outcomes
    <3>4. r # recognizeRequest'
      BY <1>t, <2>1, <2>4
    <3> QED
      BY <1>h, <2>1, <2>2, <3>2, <3>3, <3>4
  <2>5. CASE r < recognizeRequest
    <3>1. r # recognizeRequest'
      BY <1>t, <2>1, <2>5
    <3> QED
      BY <1>h, <2>1, <2>2, <2>5, <3>1
  <2> QED
    BY <1>t, <2>3, <2>4, <2>5
<1>3. CASE ~ProcessRecognize
  <2>1. recognizeRequest' = recognizeRequest
    BY <1>3, RequestsCount
  <2>2. r = recognizeRequest' => Current' /\ Silenced(r)'
    <3> SUFFICES ASSUME r = recognizeRequest PROVE Current' /\ Silenced(r)'
      BY <2>1
    <3>1. r \notin early'
      <4> SUFFICES ASSUME r \in early' PROVE FALSE
        OBVIOUS
      <4>1. r \in Disturbed'
        BY DEF Disturbed
      <4> QED
        BY <1>t, <4>1 DEF CalmUntil
    <3> QED
      BY <1>3, <1>h, <3>1, CurrentStep, SilencedStep
  <2>3. ~Occurs(Posted', Foreign(r))
    <3> SUFFICES ASSUME Occurs(Posted', Foreign(r)) PROVE FALSE
      OBVIOUS
    <3>1. PICK closure \in Foreign(r) : Posting(closure)
      BY <1>f, <1>h, Persist
    <3>2. closure.request = r /\ closure.from # None /\ closure.from # r
      BY DEF Foreign
    <3>3. r = recognizeRequest /\ worker.at # "next" /\ closure.from = worker.conn
      BY <1>t, <3>1, <3>2, PostedAbout
    <3> QED
      BY <1>h, <3>2, <3>3 DEF Current
  <2>4. r < recognizeRequest' => stopping'[r] /\ Occurs(Posted', Outcomes(r))
    BY <1>h, <1>o, <2>1, StoppingStays
  <2>5. ASSUME call'[r] # "none", ~active'[r], r >= recognizeRequest
        PROVE  /\ stopping'[r]
               /\ Occurs(Posted', Outcomes(r)) \/ (Pending' /\ worker'.conn = r)
    <3>1. call[r] # "none" /\ ~StartConnection
      <4>1. ~StartConnection
        <5> SUFFICES ASSUME StartConnection PROVE FALSE
          OBVIOUS
        <5>1. /\ active' = [active EXCEPT ![recognizeRequest] = TRUE]
              /\ call' = [call EXCEPT ![recognizeRequest] = "open"]
          BY DEF StartConnection
        <5>2. CASE r = recognizeRequest
          BY <1>t, <2>5, <5>1, <5>2
        <5>3. CASE r # recognizeRequest
          BY <1>t, <2>5, <5>1, <5>3
        <5> QED
          BY <5>2, <5>3
      <4>2. CASE Service
        <5>1. PICK c \in Request : active[c] /\ \A d \in Request : d # c => call'[d] = call[d]
          <6>1. PICK c \in Request : Error(c) \/ \E eou \in BOOLEAN : Result(c, eou)
            BY <4>2 DEF Service
          <6>2. active[c] /\ (call' = call \/ call' = [call EXCEPT ![c] = "ended"])
            BY <6>1, CallbackBegins
          <6> QED
            BY <1>t, <6>2
        <5> QED
          BY <1>t, <2>5, <4>1, <5>1 DEF Typed, Calls
      <4>3. CASE ~Service
        <5>1. call' = call
          BY <4>1, <4>3 DEF Next, Client, OnOpen, OnClose, ProcessOther, ProcessRecognize,
              ProcessStop, Mrcp, StoreConnection, SetWaitingVad, RespondInProgress,
              RespondStop, EventLoop, RunStop, RunDisable, RunSend, OnVoice, OnVoiceFeed, Worker,
              OnResultVad, OnResultRecognizing, OnResultEou, SendResultEvent, OnError,
              SendErrorEvent, vars, grpc, service
        <5> QED
          BY <2>5, <4>1, <5>1
      <4> QED
        BY <4>2, <4>3
    <3>2. r = recognizeRequest /\ Current
      BY <1>h, <1>t, <2>5, <3>1
    <3>3. ASSUME stopping[r], Occurs(Posted, Outcomes(r)) \/ (Pending /\ worker.conn = r)
          PROVE  /\ stopping'[r]
                 /\ Occurs(Posted', Outcomes(r)) \/ (Pending' /\ worker'.conn = r)
      BY <1>o, <3>2, <3>3, StoppingStays, PendingStep
    <3>4. CASE ~active[r]
      BY <1>h, <3>1, <3>3, <3>4
    <3>5. CASE active[r] /\ RunDisable
      <4>1. loop = "disable"
        BY <3>5 DEF RunDisable
      <4>2. Pending => worker.conn = r
        BY <3>2 DEF Current, Pending
      <4> QED
        BY <3>2, <3>3, <4>1, <4>2 DEF Current
    <3>6. CASE active[r] /\ RespondStop
      <4>1. mrcp = "stopping" /\ Post(Send("stopped", r, None)) /\ delivered' = delivered
        BY <3>2, <3>6 DEF RespondStop
      <4>2. stopping[r]
        BY <3>2, <4>1 DEF Current
      <4>3. "stopped" \in Message /\ "stopped" \in Final /\ r \in 0 .. MaxRequests
            /\ None \in 0 .. MaxRequests
        BY <1>t, <3>2, ChannelAssumption DEF Message, Final, None
      <4>4. Send("stopped", r, None) \in Closure /\ Send("stopped", r, None) \in Outcomes(r)
        BY <4>3, ClosureTypes, Kinds DEF Outcomes
      <4> QED
        BY <4>1, <4>2, <4>4, AfterPost, StoppingStays
    <3>7. CASE active[r] /\ ~RunDisable /\ ~RespondStop
      <4>1. active' = active
        BY <3>1, <3>7 DEF Next, Client, OnOpen, OnClose, ProcessOther, ProcessRecognize,
              ProcessStop, Mrcp, StoreConnection, SetWaitingVad, RespondInProgress,
              EventLoop, RunStop, RunSend, OnVoice, OnVoiceFeed, Worker, Service, Error, Result, Begin,
              OnResultVad, OnResultRecognizing, OnResultEou, SendResultEvent, OnError,
              SendErrorEvent, vars, grpc, flags
      <4> QED
        BY <2>5, <3>7, <4>1
    <3> QED
      BY <3>4, <3>5, <3>6, <3>7
  <2>6. ASSUME call'[r] # "none", ~active'[r], r < recognizeRequest
        PROVE  /\ stopping'[r]
               /\ Occurs(Posted', Outcomes(r)) \/ (Pending' /\ worker'.conn = r)
    BY <2>1, <2>4, <2>6
  <2> QED
    BY <1>t, <2>2, <2>3, <2>4, <2>5, <2>6
<1> QED
  BY <1>2, <1>3

LEMMA UnharmedIs == Typed /\ (\A r \in Request : Unharmed(r)) => HarmIsExplained
<1> SUFFICES ASSUME Typed, \A q \in Request : Unharmed(q),
                    NEW r \in Request, CalmUntil(r), ~StoppedBefore(r)
             PROVE  /\ \A i \in DOMAIN Posted :
                          (Posted[i].request = r /\ Posted[i].from # None) => Posted[i].from = r
                    /\ (call[r] # "none" /\ ~active[r]) =>
                          stopping[r] /\ (Positions(Final, r) # {} \/ worker.conn = r)
  BY DEF HarmIsExplained
<1>1. /\ ~Occurs(Posted, Foreign(r))
      /\ call[r] # "none" /\ ~active[r] =>
             /\ stopping[r]
             /\ Occurs(Posted, Outcomes(r)) \/ (Pending /\ worker.conn = r)
  BY DEF Unharmed
<1>2. \A i \in DOMAIN Posted : Posted[i] \in Closure
  BY PostedTypes, ElementOfSeq
<1>3. Occurs(Posted, Outcomes(r)) => Positions(Final, r) # {}
  BY PositionsAre DEF Occurs, Outcomes
<1> QED
  BY <1>1, <1>2, <1>3 DEF Occurs, Foreign

\* What goes wrong between requests goes wrong by a STOP, a second outcome or a callback inside
\* process_recognize() alone: the events that name a request come from its connection, which is
\* silenced only with its outcome, for every request before which none of them happened.
THEOREM OnlyTheseHarm == Spec => []HarmIsExplained
<1> DEFINE Inv == Typed /\ Named /\ Undisturbed /\ \A r \in Request : Unharmed(r)
<1>1. Init => Inv
  <2>1. Init => \A r \in Request : Unharmed(r)
    BY ChannelAssumption DEF Init, Unharmed, Posted, Occurs, Request, None
  <2> QED
    BY <2>1, TypeInit, UndisturbedInit
<1>2. Inv /\ [Next]_vars => Inv'
  <2> SUFFICES ASSUME Inv, [Next]_vars PROVE Inv'
    OBVIOUS
  <2>1. Typed' /\ Named' /\ Undisturbed'
    BY TypeStep, NamedStep, UndisturbedStep
  <2>2. \A r \in Request : Unharmed(r)'
    BY UnharmedStep
  <2> QED
    BY <2>1, <2>2
<1>3. Inv => HarmIsExplained
  BY UnharmedIs
<1> HIDE DEF Inv
<1> QED
  BY <1>1, <1>2, <1>3, PTL DEF Spec
==============================================================================
