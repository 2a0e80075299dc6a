------------------------ MODULE SynthesisChannelProofs ------------------------
(***************************************************************************)
(* Proofs about SynthesisChannel, for sessions of any number of SPEAKs and    *)
(* calls of any number of messages of any length.                            *)
(***************************************************************************)
EXTENDS SynthesisChannel, SequenceLemmas, FiniteSetTheorems

-----------------------------------------------------------------------------
(* Type correctness.                                                        *)

\* A callback is always that of a connection.
Typed == TypeOK /\ (worker.at # "next" => worker.conn \in Speak)

\* The closures that are posted.
LEMMA ClosureTypes ==
  /\ Stop \in Closure
  /\ \A message \in Message, r \in 0 .. MaxSpeaks : Send(message, r) \in Closure
BY SynthesisAssumption DEF Stop, Send, Closure, Message, Final, None

LEMMA PostTypes ==
  \A closures \in Seq(Closure), closure \in Closure : Append(closures, closure) \in Seq(Closure)
OBVIOUS

LEMMA NextCount == \A n \in Nat : \A i \in 0 .. n : i < n => i + 1 \in 0 .. n
OBVIOUS

LEMMA TypeInit == Init => Typed
<1> SUFFICES ASSUME Init PROVE Typed
  OBVIOUS
<1>1. connection \in 0 .. Garbage /\ synthesisRequest \in 0 .. MaxSpeaks /\ other \in 0 .. MaxOther
  BY SynthesisAssumption DEF Init, None, Garbage
<1>2. chunks \in [Speak -> 0 .. MaxChunks]
  BY SynthesisAssumption DEF Init
<1>3. voiceBuffer \in Seq(Nat) /\ owner \in Seq(Speak) /\ played \in Seq(Nat)
  BY DEF Init
<1>4. queue \in Seq(Closure) /\ delivered \in Seq(Closure)
  BY DEF Init
<1>5. worker \in [at : {"next", "voice", "append", "ok", "error", "failed"}, conn : 0 .. MaxSpeaks]
  BY SynthesisAssumption DEF Init, Idle, None
<1> QED
  BY <1>1, <1>2, <1>3, <1>4, <1>5 DEF Init, Typed, TypeOK, Idle

\* The MRCP thread and its client.
LEMMA TypeMrcp == Typed /\ (Client \/ Mrcp) => Typed'
<1> SUFFICES ASSUME Typed, Client \/ Mrcp PROVE Typed'
  OBVIOUS
<1> USE DEF Typed, TypeOK, request, voice, grpc
<1>q. \A message \in Message, r \in 0 .. MaxSpeaks :
         Append(queue, Send(message, r)) \in Seq(Closure)
  BY ClosureTypes, PostTypes
<1>n. None \in 0 .. MaxSpeaks /\ MaxSpeaks \in Nat /\ MaxOther \in Nat
  BY SynthesisAssumption DEF None
<1>m. {"opened", "closed", "response", "inprogress", "stopped"} \in SUBSET Message
  BY DEF Message, Final
<1>1. CASE OnOpen
  BY <1>1, <1>q, <1>n, <1>m DEF OnOpen, Post
<1>2. CASE OnClose
  BY <1>2, <1>q, <1>n, <1>m DEF OnClose, Post
<1>3. CASE ProcessOther
  BY <1>3, <1>q, <1>n, <1>m, NextCount DEF ProcessOther, Post
<1>4. CASE ProcessSynthesis
  BY <1>4, <1>n, NextCount DEF ProcessSynthesis
<1>5. CASE ProcessStop
  <2>1. active' \in [Speak -> BOOLEAN] /\ crashed' \in BOOLEAN
    BY <1>5 DEF ProcessStop, DisableConnection
  <2> QED
    BY <1>5, <1>n, <2>1, NextCount DEF ProcessStop
<1>6. CASE StartConnection
  BY ZenonT(30), <1>6 DEF StartConnection
<1>7. CASE StoreConnection
  <2>1. synthesisRequest \in 0 .. Garbage
    BY <1>n DEF Garbage
  <2> QED
    BY <1>7, <2>1 DEF StoreConnection
<1>8. CASE SetSynthesis
  BY <1>8 DEF SetSynthesis
<1>9. CASE RespondInProgress
  BY <1>9, <1>q, <1>m DEF RespondInProgress, Post
<1>10. CASE RespondStop
  BY <1>10, <1>q, <1>m DEF RespondStop, Post
<1> QED
  BY <1>1, <1>2, <1>3, <1>4, <1>5, <1>6, <1>7, <1>8, <1>9, <1>10 DEF Client, Mrcp

\* The event loop.
LEMMA TypeLoop == Typed /\ EventLoop => Typed'
<1> SUFFICES ASSUME Typed, EventLoop PROVE Typed'
  OBVIOUS
<1> USE DEF Typed, TypeOK, request, voice, grpc
<1>1. CASE RunStop
  <2>1. queue' \in Seq(Closure)
    BY <1>1, HeadTailProperties DEF RunStop
  <2>2. active' \in [Speak -> BOOLEAN] /\ crashed' \in BOOLEAN
    BY <1>1 DEF RunStop, DisableConnection
  <2> QED
    BY <1>1, <2>1, <2>2 DEF RunStop
<1>2. CASE RunIdle
  BY <1>2 DEF RunIdle
<1>3. CASE RunSend
  <2>1. queue' \in Seq(Closure) /\ Head(queue) \in Closure
    BY <1>3, HeadTailProperties DEF RunSend
  <2>2. delivered' \in Seq(Closure)
    BY <1>3, <2>1, PostTypes DEF RunSend
  <2>3. phase' \in {"created", "opening", "open", "closing", "destroyed"}
    BY <1>3 DEF RunSend
  <2> QED
    BY <1>3, <2>1, <2>2, <2>3 DEF RunSend
<1> QED
  BY <1>1, <1>2, <1>3 DEF EventLoop

\* What a frame takes, and what it leaves.
LEMMA FillSplits ==
  ASSUME NEW taken, taken = IF Len(voiceBuffer) > FrameLength THEN FrameLength ELSE Len(voiceBuffer),
         voiceBuffer \in Seq(Nat)
  PROVE  /\ taken \in 0 .. Len(voiceBuffer)
         /\ SubSeq(voiceBuffer, 1, taken) \in Seq(Nat)
         /\ SubSeq(voiceBuffer, taken + 1, Len(voiceBuffer)) \in Seq(Nat)
         /\ voiceBuffer = SubSeq(voiceBuffer, 1, taken)
                          \o SubSeq(voiceBuffer, taken + 1, Len(voiceBuffer))
<1>1. taken \in 0 .. Len(voiceBuffer)
  BY SynthesisAssumption
<1>2. /\ SubSeq(voiceBuffer, 1, taken) \in Seq(Nat)
      /\ SubSeq(voiceBuffer, taken + 1, Len(voiceBuffer)) \in Seq(Nat)
  BY <1>1
<1>3. SubSeq(voiceBuffer, 1, taken) \o SubSeq(voiceBuffer, taken + 1, Len(voiceBuffer))
      = SubSeq(voiceBuffer, 1, Len(voiceBuffer))
  BY <1>1, SubSeqsJoin
<1>4. SubSeq(voiceBuffer, 1, Len(voiceBuffer)) = voiceBuffer
  BY SubSeqFull
<1> QED
  BY <1>1, <1>2, <1>3, <1>4

\* The media thread.
LEMMA TypeMedia == Typed /\ Media => Typed'
<1> SUFFICES ASSUME Typed, Media PROVE Typed'
  OBVIOUS
<1> USE DEF Typed, TypeOK, request, voice, grpc
<1>1. CASE Tick \/ CheckState
  BY <1>1 DEF Tick, CheckState
<1>2. CASE Fill
  <2>1. voiceBuffer' \in Seq(Nat) /\ played' \in Seq(Nat)
    BY <1>2, FillSplits, ConcatProperties DEF Fill
  <2> QED
    BY ZenonT(30), <1>2, <2>1 DEF Fill
<1>3. CASE CheckSynthComplete
  <2>1. queue' \in Seq(Closure)
    BY <1>3, ClosureTypes, PostTypes DEF CheckSynthComplete, Post
  <2>2. media' \in {"complete", "idle"}
    BY <1>3 DEF CheckSynthComplete
  <2> QED
    BY <1>3, <2>1, <2>2 DEF CheckSynthComplete
<1>4. CASE SendResultEvent
  <2>1. Append(queue, Send("complete", synthesisRequest)) \in Seq(Closure)
    BY ClosureTypes, PostTypes DEF Message, Final
  <2> QED
    BY <1>4, <2>1 DEF SendResultEvent
<1> QED
  BY <1>1, <1>2, <1>3, <1>4 DEF Media

\* A completion moves the call of one connection, and may begin a callback of it.
LEMMA TypeProceed == Typed /\ Proceed => Typed'
<1> SUFFICES ASSUME Typed, NEW c \in Speak, Chunk(c) \/ Advance(c) PROVE Typed'
  BY DEF Proceed
<1> USE DEF Typed, TypeOK, request, voice, Complete
<1>w. \A at \in {"voice", "ok", "error"} :
         Begin(at, c) => /\ worker' \in [at : {"next", "voice", "append", "ok", "error", "failed"},
                                         conn : 0 .. MaxSpeaks]
                         /\ worker'.at # "next" => worker'.conn \in Speak
  BY SynthesisAssumption DEF Begin, Idle, None, Speak
<1>1. CASE StartCall(c)
  BY <1>1 DEF StartCall
<1>2. CASE LastRead(c)
  BY <1>2 DEF LastRead
<1>3. ASSUME NEW status \in {"ok", "error"}, EndCall(c, status) PROVE Typed'
  BY <1>3, <1>w DEF EndCall
<1>4. CASE Chunk(c)
  <2>1. chunks' \in [Speak -> 0 .. MaxChunks]
    BY <1>4, NextCount, SynthesisAssumption DEF Chunk
  <2> QED
    BY <1>4, <1>w, <2>1 DEF Chunk
<1> QED
  BY <1>1, <1>2, <1>3, <1>4 DEF Advance

\* The callbacks.
LEMMA TypeWorker == Typed /\ Worker => Typed'
<1> SUFFICES ASSUME Typed, Worker PROVE Typed'
  OBVIOUS
<1> USE DEF Typed, TypeOK, request, voice, grpc, At
<1>i. Idle \in [at : {"next", "voice", "append", "ok", "error", "failed"}, conn : 0 .. MaxSpeaks]
      /\ Idle.at = "next"
  BY SynthesisAssumption DEF Idle, None
<1>1. CASE OnVoice
  BY ZenonT(30), <1>1 DEF OnVoice
<1>2. ASSUME NEW length \in ChunkLengths, OnVoiceAppend(length) PROVE Typed'
  <2>1. length \in Nat
    BY SynthesisAssumption
  <2>2. worker.conn \in Speak
    BY <1>2 DEF OnVoiceAppend
  <2>3. owner' \in Seq(Speak)
    <3>1. [i \in 1 .. length |-> worker.conn] \in Seq(Speak)
      BY <2>1, <2>2
    <3> QED
      BY <1>2, <3>1, ConcatProperties DEF OnVoiceAppend
  <2>4. voiceBuffer' \in Seq(Nat)
    <3>1. [i \in 1 .. length |-> Len(owner) + i] \in Seq(Nat)
      BY <2>1
    <3> QED
      BY <1>2, <3>1, ConcatProperties DEF OnVoiceAppend
  <2> QED
    BY <1>2, <1>i, <2>3, <2>4 DEF OnVoiceAppend
<1>3. CASE OnVoiceEnd
  BY <1>3, <1>i DEF OnVoiceEnd
<1>4. CASE OnError
  BY ZenonT(30), <1>4, ClosureTypes, PostTypes DEF OnError, Post
<1>5. CASE SendErrorEvent
  <2>1. Append(queue, Send("error", synthesisRequest)) \in Seq(Closure)
    BY ClosureTypes, PostTypes DEF Message, Final
  <2> QED
    BY <1>5, <1>i, <2>1 DEF SendErrorEvent
<1> QED
  BY <1>1, <1>2, <1>3, <1>4, <1>5 DEF Worker

LEMMA TypeStep == Typed /\ [Next]_vars => Typed'
<1> SUFFICES ASSUME Typed, [Next]_vars PROVE Typed'
  OBVIOUS
<1>1. CASE UNCHANGED vars
  BY <1>1 DEF vars, Typed, TypeOK
<1> QED
  BY <1>1, TypeMrcp, TypeLoop, TypeMedia, TypeProceed, TypeWorker DEF Next

\* Every variable keeps its type.
THEOREM TypeCorrect == Spec => []TypeOK
<1>1. Typed => TypeOK
  BY DEF Typed
<1> QED
  BY <1>1, TypeInit, TypeStep, PTL DEF Spec

-----------------------------------------------------------------------------
(* The audio.                                                               *)

\* Every unit received is in the frames or in the buffer, at its place.
UnitsKept == played \o voiceBuffer = [n \in 1 .. Len(owner) |-> n]

\* A frame takes units in their order, and a message appends the next ones.
LEMMA UnitsStep == Typed /\ UnitsKept /\ [Next]_vars => UnitsKept'
<1> SUFFICES ASSUME Typed, UnitsKept, [Next]_vars PROVE UnitsKept'
  OBVIOUS
<1>t. voiceBuffer \in Seq(Nat) /\ played \in Seq(Nat) /\ owner \in Seq(Speak)
  BY DEF Typed, TypeOK
<1>a. ASSUME NEW units \in Seq(Nat)
      PROVE  (played \o voiceBuffer) \o units = played \o (voiceBuffer \o units)
  <2>1. played \in Seq(Nat) /\ voiceBuffer \in Seq(Nat)
    BY <1>t
  <2> QED
    BY SMTT(30), <2>1, ConcatAssociative
<1>1. CASE Fill
  <2>1. PICK first \in Seq(Nat), rest \in Seq(Nat) :
            /\ voiceBuffer = first \o rest
            /\ played' = played \o first /\ voiceBuffer' = rest /\ owner' = owner
    BY <1>1, <1>t, FillSplits DEF Fill
  <2>2. (played \o first) \o rest = played \o (first \o rest)
    BY SMTT(30), <1>t, Associative
  <2> QED
    BY <2>1, <2>2 DEF UnitsKept
<1>2. ASSUME NEW length \in ChunkLengths, OnVoiceAppend(length) PROVE UnitsKept'
  <2>1. length \in Nat
    BY SynthesisAssumption
  <2>2. Len(owner') = Len(owner) + length /\ Len(owner) \in Nat
    <3>1. worker.conn \in Speak
      BY <1>2 DEF OnVoiceAppend, Typed, At
    <3>2. /\ [i \in 1 .. length |-> worker.conn] \in Seq(Speak)
          /\ Len([i \in 1 .. length |-> worker.conn]) = length
      BY <2>1, <3>1
    <3>3. PICK added \in Seq(Speak) : Len(added) = length /\ owner' = owner \o added
      BY <1>2, <3>2 DEF OnVoiceAppend
    <3>4. Len(owner \o added) = Len(owner) + Len(added)
      BY <1>t, <3>3, ConcatProperties
    <3> QED
      BY <1>t, <3>3, <3>4
  <2>3. PICK units \in Seq(Nat) :
            /\ units = [i \in 1 .. length |-> Len(owner) + i]
            /\ voiceBuffer' = voiceBuffer \o units /\ played' = played
    <3>1. [i \in 1 .. length |-> Len(owner) + i] \in Seq(Nat)
      BY <2>1, <2>2
    <3> QED
      BY <1>2, <3>1 DEF OnVoiceAppend, voice
  <2>4. (played \o voiceBuffer) \o units = played \o (voiceBuffer \o units)
    BY <1>a, <2>3
  <2>5. PICK kept \in Seq(Nat) : kept = played \o voiceBuffer
    BY <1>t, ConcatProperties
  <2>6. kept \o units = [n \in 1 .. Len(owner) + length |-> n]
    BY <2>1, <2>2, <2>3, <2>5, CountOn DEF UnitsKept
  <2> QED
    BY <2>2, <2>3, <2>4, <2>5, <2>6 DEF UnitsKept
<1>3. CASE UNCHANGED <<voiceBuffer, played, owner>>
  BY <1>3 DEF UnitsKept
<1>4. Client \/ Mrcp \/ EventLoop \/ Proceed => UNCHANGED <<voiceBuffer, played, owner>>
  BY DEF Client, OnOpen, OnClose, ProcessOther, ProcessSynthesis, ProcessStop, Mrcp,
         StartConnection, StoreConnection, SetSynthesis, RespondInProgress, RespondStop, EventLoop,
         RunStop, RunIdle, RunSend, Proceed, Chunk, Advance, StartCall, LastRead, EndCall, voice
<1>5. Media => Fill \/ UNCHANGED <<voiceBuffer, played, owner>>
  BY DEF Media, Tick, CheckState, CheckSynthComplete, SendResultEvent, voice
<1>6. Worker => \/ \E length \in ChunkLengths : OnVoiceAppend(length)
                \/ UNCHANGED <<voiceBuffer, played, owner>>
  BY DEF Worker, OnVoice, OnVoiceEnd, OnError, SendErrorEvent, voice
<1> QED
  BY <1>1, <1>2, <1>3, <1>4, <1>5, <1>6 DEF Next, vars

-----------------------------------------------------------------------------
(* The connections.                                                         *)

\* Connections become current one after the other, and a SPEAK is sent only when the one
\* before has its outcome.
Succession ==
    /\ mrcp \notin {"idle", "stopping"} => synthesisRequest # None
    /\ connection <= synthesisRequest \/ connection = Garbage
    /\ mrcp \in {"idle", "stored", "started", "stopping"} /\ synthesisRequest # None
           => connection = synthesisRequest
    /\ \A c \in Speak : active[c] => c <= synthesisRequest
    /\ \A c \in Speak : c < synthesisRequest => Finished(c)

\* No unit is of a connection that was not made yet.
OwnersKnown ==
    /\ \A n \in DOMAIN owner : owner[n] <= synthesisRequest
    /\ worker.at # "next" => worker.conn <= synthesisRequest

LEMMA SuccessionInit == Init => Succession /\ OwnersKnown /\ UnitsKept
<1> SUFFICES ASSUME Init PROVE Succession /\ OwnersKnown /\ UnitsKept
  OBVIOUS
<1>1. Succession
  BY SynthesisAssumption DEF Init, Succession, None, Garbage, Speak
<1>2. OwnersKnown
  BY DEF Init, OwnersKnown, Idle
<1>3. UnitsKept
  BY DEF Init, UnitsKept
<1> QED
  BY <1>1, <1>2, <1>3

\* What was delivered stays delivered.
LEMMA FinishedStays == Typed /\ [Next]_vars => \A r \in Speak : Finished(r) => Finished(r)'
<1> SUFFICES ASSUME Typed, [Next]_vars, NEW r \in Speak, Finished(r) PROVE Finished(r)'
  OBVIOUS
<1>1. CASE RunSend
  <2>1. /\ delivered \in Seq(Closure) /\ Head(queue) \in Closure
        /\ delivered' = Append(delivered, Head(queue))
    BY <1>1, HeadTailProperties DEF RunSend, Typed, TypeOK
  <2>2. \A i \in DOMAIN delivered : i \in DOMAIN delivered' /\ delivered'[i] = delivered[i]
    BY <2>1, AppendProperties
  <2> QED
    BY <2>2 DEF Finished
<1>2. CASE UNCHANGED delivered
  BY <1>2 DEF Finished
<1>3. RunSend \/ UNCHANGED delivered
  BY DEF Next, Client, OnOpen, OnClose, ProcessOther, ProcessSynthesis, ProcessStop, Mrcp,
         StartConnection, StoreConnection, SetSynthesis, RespondInProgress, RespondStop, EventLoop,
         RunStop, RunIdle, Proceed, Chunk, Advance, StartCall, LastRead, EndCall,
         Media, Tick, Fill, CheckState, CheckSynthComplete, SendResultEvent,
         Worker, OnVoice, OnVoiceAppend, OnVoiceEnd, OnError, SendErrorEvent, vars
<1> QED
  BY <1>1, <1>2, <1>3

\* Succession is inductive.
LEMMA SuccessionStep == Typed /\ Succession /\ [Next]_vars => Succession'
<1> SUFFICES ASSUME Typed, Succession, [Next]_vars PROVE Succession'
  OBVIOUS
<1>t. /\ MaxSpeaks \in Nat /\ synthesisRequest \in 0 .. MaxSpeaks /\ connection \in 0 .. Garbage
      /\ active \in [Speak -> BOOLEAN]
      /\ mrcp \in {"idle", "accepted", "calling", "stored", "started", "stopping"}
  BY SynthesisAssumption DEF Typed, TypeOK
<1>f. \A r \in Speak : Finished(r) => Finished(r)'
  BY FinishedStays
<1> USE DEF Succession
<1>1. CASE UNCHANGED <<mrcp, connection, synthesisRequest, active>>
  BY <1>1, <1>f
<1>2. CASE ProcessSynthesis
  <2>1. /\ synthesisRequest' = synthesisRequest + 1 /\ mrcp = "idle" /\ mrcp' = "accepted"
        /\ UNCHANGED <<connection, active>> /\ ~InProgress
    BY <1>2 DEF ProcessSynthesis, Ready, grpc
  <2>2. \A c \in Speak : c < synthesisRequest + 1 => Finished(c)
    <3>1. synthesisRequest = None \/ Finished(synthesisRequest)
      BY <2>1 DEF InProgress
    <3> QED
      BY <1>t, <3>1 DEF Speak, None
  <2>3. /\ synthesisRequest + 1 # None
        /\ connection <= synthesisRequest => connection <= synthesisRequest + 1
        /\ \A c \in Speak : active[c] => c <= synthesisRequest + 1
    BY <1>t DEF Speak, None, Garbage
  <2> QED
    BY <1>f, <2>1, <2>2, <2>3
<1>3. CASE StartConnection
  <2>1. /\ mrcp = "accepted" /\ mrcp' = "calling" /\ UNCHANGED <<connection, synthesisRequest>>
        /\ \A c \in Speak : active'[c] => active[c] \/ c = synthesisRequest
    BY <1>3, <1>t DEF StartConnection, request
  <2>2. \A c \in Speak : c = synthesisRequest => c <= synthesisRequest
    BY <1>t DEF Speak
  <2> QED
    BY <1>f, <2>1, <2>2
<1>4. CASE StoreConnection
  <2>1. /\ mrcp = "calling" /\ mrcp' = "stored" /\ connection' = synthesisRequest
        /\ UNCHANGED <<synthesisRequest, active>>
    BY <1>4 DEF StoreConnection, grpc
  <2> QED
    BY <1>f, <1>t, <2>1
<1>5. CASE SetSynthesis \/ RespondInProgress \/ RespondStop
  <2>1. /\ mrcp \in {"stored", "started", "stopping"} /\ mrcp' \in {"idle", "started"}
        /\ mrcp' = "started" => mrcp = "stored"
        /\ UNCHANGED <<synthesisRequest, active, connection>>
    BY <1>5 DEF SetSynthesis, RespondInProgress, RespondStop, request, grpc
  <2> QED
    BY <1>f, <1>t, <2>1
<1>6. CASE ProcessStop \/ RunStop
  <2>1. /\ mrcp' = mrcp \/ (mrcp = "idle" /\ mrcp' = "stopping")
        /\ UNCHANGED <<synthesisRequest, connection>>
        /\ \A c \in Speak : active'[c] => active[c]
    BY <1>6, <1>t DEF ProcessStop, RunStop, DisableConnection, Ready, request
  <2> QED
    BY <1>f, <1>t, <2>1
<1>7. \/ UNCHANGED <<mrcp, connection, synthesisRequest, active>>
      \/ ProcessSynthesis \/ StartConnection \/ StoreConnection
      \/ SetSynthesis \/ RespondInProgress \/ RespondStop \/ ProcessStop \/ RunStop
  BY DEF Next, Client, OnOpen, OnClose, ProcessOther, Mrcp, EventLoop,
         RunIdle, RunSend, Proceed, Chunk, Advance, StartCall, LastRead, EndCall, Complete,
         Media, Tick, Fill, CheckState, CheckSynthComplete, SendResultEvent,
         Worker, OnVoice, OnVoiceAppend, OnVoiceEnd, OnError, SendErrorEvent, vars, request, grpc
<1> QED
  BY <1>1, <1>2, <1>3, <1>4, <1>5, <1>6, <1>7

\* The units a message appends are those of the connection called back for.
LEMMA OwnersAppended ==
  ASSUME Typed, NEW length \in ChunkLengths, OnVoiceAppend(length)
  PROVE  /\ worker.at # "next" /\ worker'.at = "next"
         /\ owner \in Seq(Speak) /\ owner' \in Seq(Speak) /\ Len(owner) <= Len(owner')
         /\ \A n \in DOMAIN owner' : IF n <= Len(owner) THEN owner'[n] = owner[n]
                                                        ELSE owner'[n] = worker.conn
<1>1. length \in Nat /\ worker.at # "next" /\ worker.conn \in Speak /\ worker'.at = "next"
  BY SynthesisAssumption DEF OnVoiceAppend, At, Typed, Idle
<1>2. owner \in Seq(Speak)
  BY DEF Typed, TypeOK
<1>3. /\ [i \in 1 .. length |-> worker.conn] \in Seq(Speak)
      /\ Len([i \in 1 .. length |-> worker.conn]) = length
      /\ \A i \in 1 .. length : [j \in 1 .. length |-> worker.conn][i] = worker.conn
  BY <1>1
<1>4. PICK added \in Seq(Speak) : /\ Len(added) = length /\ owner' = owner \o added
                                  /\ \A i \in 1 .. length : added[i] = worker.conn
  BY <1>3 DEF OnVoiceAppend
<1>5. /\ owner \o added \in Seq(Speak) /\ Len(owner \o added) = Len(owner) + Len(added)
      /\ \A n \in 1 .. Len(owner) + Len(added) :
            (owner \o added)[n] = IF n <= Len(owner) THEN owner[n] ELSE added[n - Len(owner)]
  BY <1>2, <1>4, ConcatProperties
<1>6. Len(owner) \in Nat /\ DOMAIN (owner \o added) = 1 .. Len(owner) + length
  BY <1>2, <1>4, <1>5
<1>7. ASSUME NEW n \in 1 .. Len(owner) + length, ~(n <= Len(owner))
      PROVE  n - Len(owner) \in 1 .. length
  BY <1>1, <1>6, <1>7
<1>8. \A n \in DOMAIN (owner \o added) : IF n <= Len(owner) THEN (owner \o added)[n] = owner[n]
                                         ELSE (owner \o added)[n] = worker.conn
  BY <1>4, <1>5, <1>6, <1>7
<1>9. Len(owner) <= Len(owner \o added)
  BY <1>1, <1>4, <1>5, <1>6
<1> QED
  BY <1>1, <1>2, <1>4, <1>5, <1>8, <1>9

\* What a step may do to the callback under way and to what it appends to.
LEMMA CallbackSteps ==
  ASSUME Typed, [Next]_vars
  PROVE  \/ UNCHANGED <<worker, owner>>
         \/ worker'.at = "next" /\ owner' = owner
         \/ worker.at # "next" /\ worker'.conn = worker.conn /\ owner' = owner
         \/ \E c \in Speak : /\ active[c] /\ call[c] \in {"read", "finish"}
                             /\ worker'.conn = c /\ owner' = owner
         \/ \E length \in ChunkLengths : OnVoiceAppend(length)
<1>1. CASE Client \/ Mrcp \/ EventLoop \/ Media
  <2>1. UNCHANGED <<worker, owner>>
    BY <1>1 DEF Client, OnOpen, OnClose, ProcessOther, ProcessSynthesis, ProcessStop, Mrcp,
         StartConnection, StoreConnection, SetSynthesis, RespondInProgress, RespondStop, EventLoop,
         RunStop, RunIdle, RunSend, Media, Tick, Fill, CheckState, CheckSynthComplete,
         SendResultEvent, voice
  <2> QED
    BY <2>1
<1>2. ASSUME NEW c \in Speak, Chunk(c) \/ Advance(c)
      PROVE  \/ UNCHANGED <<worker, owner>>
             \/ worker'.at = "next" /\ owner' = owner
             \/ /\ active[c] /\ call[c] \in {"read", "finish"}
                /\ worker'.conn = c /\ owner' = owner
  BY <1>2 DEF Advance, Chunk, StartCall, LastRead, EndCall, Complete, Begin, Idle, voice
<1>3. CASE OnVoice \/ OnVoiceEnd \/ OnError \/ SendErrorEvent
  <2>1. worker.at # "next" /\ owner' = owner
    BY <1>3 DEF OnVoice, OnVoiceEnd, OnError, SendErrorEvent, At, voice
  <2>2. worker'.at = "next" \/ worker'.conn = worker.conn
    BY <1>3 DEF OnVoice, OnVoiceEnd, OnError, SendErrorEvent, Idle, Typed, TypeOK
  <2> QED
    BY <2>1, <2>2
<1>4. CASE UNCHANGED vars
  BY <1>4 DEF vars
<1> QED
  BY <1>1, <1>2, <1>3, <1>4 DEF Next, Proceed, Worker

\* OwnersKnown is inductive.
LEMMA OwnersStep == Typed /\ Succession /\ OwnersKnown /\ [Next]_vars => OwnersKnown'
<1> SUFFICES ASSUME Typed, Succession, OwnersKnown, [Next]_vars PROVE OwnersKnown'
  OBVIOUS
<1>t. synthesisRequest \in 0 .. MaxSpeaks /\ MaxSpeaks \in Nat /\ owner \in Seq(Speak)
  BY SynthesisAssumption DEF Typed, TypeOK
<1>1. synthesisRequest' \in 0 .. MaxSpeaks /\ synthesisRequest <= synthesisRequest'
  <2>1. synthesisRequest' = synthesisRequest \/ synthesisRequest' = synthesisRequest + 1
    BY DEF Next, Client, OnOpen, OnClose, ProcessOther, ProcessSynthesis, ProcessStop, Mrcp,
         StartConnection, StoreConnection, SetSynthesis, RespondInProgress, RespondStop, EventLoop,
         RunStop, RunIdle, RunSend, Proceed, Chunk, Advance, StartCall, LastRead, EndCall,
         Media, Tick, Fill, CheckState, CheckSynthComplete, SendResultEvent,
         Worker, OnVoice, OnVoiceAppend, OnVoiceEnd, OnError, SendErrorEvent, vars, request
  <2>2. synthesisRequest' \in 0 .. MaxSpeaks
    BY TypeStep DEF Typed, TypeOK
  <2> QED
    BY <1>t, <2>1, <2>2
<1>2. \A c \in Speak : c <= synthesisRequest => c <= synthesisRequest'
  BY <1>t, <1>1 DEF Speak
<1>3. \A n \in DOMAIN owner : owner[n] \in Speak /\ owner[n] <= synthesisRequest'
  BY <1>t, <1>2 DEF OwnersKnown
<1>4. CASE UNCHANGED <<worker, owner>>
  BY <1>2, <1>3, <1>4 DEF OwnersKnown, Typed
<1>5. CASE worker'.at = "next" /\ owner' = owner
  BY <1>3, <1>5 DEF OwnersKnown
<1>6. CASE worker.at # "next" /\ worker'.conn = worker.conn /\ owner' = owner
  BY <1>2, <1>3, <1>6 DEF OwnersKnown, Typed
<1>7. ASSUME NEW c \in Speak, active[c], worker'.conn = c, owner' = owner PROVE OwnersKnown'
  BY <1>2, <1>3, <1>7 DEF OwnersKnown, Succession
<1>8. ASSUME NEW length \in ChunkLengths, OnVoiceAppend(length) PROVE OwnersKnown'
  <2>1. /\ worker.at # "next" /\ worker'.at = "next"
        /\ owner \in Seq(Speak) /\ owner' \in Seq(Speak)
        /\ \A n \in DOMAIN owner' : IF n <= Len(owner) THEN owner'[n] = owner[n]
                                                       ELSE owner'[n] = worker.conn
    BY <1>8, OwnersAppended
  <2>2. \A n \in DOMAIN owner' : n <= Len(owner) => n \in DOMAIN owner
    BY <2>1
  <2>3. worker.conn <= synthesisRequest'
    BY <1>2, <2>1 DEF OwnersKnown, Typed
  <2> QED
    BY <1>3, <2>1, <2>2, <2>3 DEF OwnersKnown
<1> QED
  BY <1>4, <1>5, <1>6, <1>7, <1>8, CallbackSteps

\* The number of SPEAKs grows with ProcessSynthesis alone.
LEMMA RequestSteps ==
  ASSUME [Next]_vars
  PROVE  \/ synthesisRequest' = synthesisRequest
         \/ ProcessSynthesis /\ synthesisRequest' = synthesisRequest + 1
BY DEF Next, Client, OnOpen, OnClose, ProcessOther, ProcessSynthesis, ProcessStop, Mrcp,
       StartConnection, StoreConnection, SetSynthesis, RespondInProgress, RespondStop, EventLoop,
       RunStop, RunIdle, RunSend, Proceed, Chunk, Advance, StartCall, LastRead, EndCall,
       Media, Tick, Fill, CheckState, CheckSynthComplete, SendResultEvent,
       Worker, OnVoice, OnVoiceAppend, OnVoiceEnd, OnError, SendErrorEvent, vars, request

-----------------------------------------------------------------------------
(* The first SPEAK of a session.                                            *)

\* Its call has been made.
Called == synthesisRequest # None /\ mrcp # "accepted"

\* A connection that calls back no more, but for a callback under way.
Ended(c) == ~active[c] \/ call[c] \in {"ok", "error", "dropped"}

\* No other connection exists and nothing calls back before its call is made; a callback is that
\* of the current request; and the flag tells that its call ended, after which no callback comes.
FirstCalls ==
    /\ \A c \in Speak : c # synthesisRequest => call[c] = "none" /\ ~active[c]
    /\ mrcp # "idle" => synthesisRequest # None
    /\ ~Called => /\ worker.at = "next" /\ ~completeFlag /\ loop = "next" /\ media # "complete"
                  /\ \A c \in Speak : call[c] = "none"
    /\ worker.at \in {"voice", "append"} => call[synthesisRequest] = "read"
    /\ worker.at = "ok" => call[synthesisRequest] = "ok"
    /\ worker.at \in {"error", "failed"} => call[synthesisRequest] = "error"
    /\ completeFlag => call[synthesisRequest] = "ok" /\ worker.at = "next"
    /\ media = "complete" => completeFlag /\ voiceBuffer = <<>>
    /\ mrcp = "stopping" => ~active[synthesisRequest]

\* FirstCalls is inductive as long as there is no second SPEAK.
LEMMA FirstCallsStep ==
  ASSUME Typed, Succession, FirstCalls, [Next]_vars, RunStop => Called,
         synthesisRequest <= 1, synthesisRequest' <= 1
  PROVE  FirstCalls'
<1>t. /\ synthesisRequest \in 0 .. MaxSpeaks /\ active \in [Speak -> BOOLEAN]
      /\ call \in [Speak -> {"none", "start_call", "read", "finish", "ok", "error", "dropped"}]
      /\ completeFlag \in BOOLEAN
  BY DEF Typed, TypeOK
<1>s. synthesisRequest # None => synthesisRequest \in Speak
  BY <1>t, SynthesisAssumption DEF Speak, None
<1> USE DEF FirstCalls, Called
<1>1. CASE OnOpen \/ OnClose \/ ProcessOther
  BY <1>1 DEF OnOpen, OnClose, ProcessOther, request, voice, grpc
<1>2. CASE ProcessSynthesis
  <2>1. synthesisRequest = None /\ synthesisRequest' = 1 /\ mrcp' = "accepted"
    BY <1>2, <1>t DEF ProcessSynthesis, None
  <2>2. \A c \in Speak : c # None
    BY DEF None, Speak
  <2> QED
    BY <1>2, <2>1, <2>2 DEF ProcessSynthesis, voice, grpc, None
<1>3. CASE ProcessStop
  <2>1. /\ synthesisRequest # None /\ mrcp = "idle" /\ mrcp' = "stopping"
        /\ connection = synthesisRequest
    BY <1>3 DEF ProcessStop, Ready, InProgress, Succession
  <2>2. \A c \in Speak : active'[c] = (active[c] /\ c # synthesisRequest)
    BY <1>3, <2>1 DEF ProcessStop, DisableConnection
  <2>3. /\ UNCHANGED <<synthesisRequest, call, worker, completeFlag, loop, media, voiceBuffer>>
    BY <1>3 DEF ProcessStop, request, voice
  <2> QED
    BY <1>s, <2>1, <2>2, <2>3
<1>4. CASE StartConnection
  <2>1. /\ call' = [call EXCEPT ![synthesisRequest] = "start_call"]
        /\ active' = [active EXCEPT ![synthesisRequest] = TRUE]
        /\ mrcp = "accepted" /\ mrcp' = "calling"
        /\ UNCHANGED <<synthesisRequest, worker, completeFlag, loop, media, voiceBuffer>>
    BY <1>4 DEF StartConnection, request, voice
  <2> QED
    BY <1>t, <2>1
<1>5. CASE StoreConnection \/ SetSynthesis \/ RespondInProgress \/ RespondStop
  BY <1>5 DEF StoreConnection, SetSynthesis, RespondInProgress, RespondStop, request, voice, grpc
<1>6. CASE RunStop
  <2>1. \A c \in Speak : active'[c] => active[c]
    BY <1>6, <1>t DEF RunStop, DisableConnection
  <2>2. UNCHANGED <<synthesisRequest, call, worker, completeFlag, media, voiceBuffer, mrcp>>
    BY <1>6 DEF RunStop, request, voice
  <2> QED
    BY <1>6, <1>s, <2>1, <2>2
<1>7. CASE RunIdle \/ RunSend
  BY <1>7 DEF RunIdle, RunSend, request, voice, grpc
<1>8. CASE Tick \/ CheckState \/ CheckSynthComplete \/ SendResultEvent
  BY <1>8 DEF Tick, CheckState, CheckSynthComplete, SendResultEvent, request, voice, grpc
<1>9. CASE Fill
  BY <1>9 DEF Fill, request, grpc
<1>10. ASSUME NEW c \in Speak, StartCall(c) \/ LastRead(c) PROVE FirstCalls'
  <2>1. /\ call[c] \in {"start_call", "read"} /\ worker.at = "next"
        /\ call' = [call EXCEPT ![c] = IF active[c] THEN IF call[c] = "read" THEN "finish" ELSE "read"
                                       ELSE "dropped"]
        /\ UNCHANGED <<synthesisRequest, active, mrcp, worker, completeFlag, loop, media,
                       voiceBuffer>>
    BY <1>10, <1>t DEF StartCall, LastRead, Complete, Idle, request, voice
  <2>2. c = synthesisRequest /\ c # None
    BY <2>1 DEF None, Speak
  <2>3. ~completeFlag
    BY <2>1, <2>2
  <2> QED
    BY <1>t, <2>1, <2>2, <2>3
<1>11. ASSUME NEW c \in Speak, NEW status \in {"ok", "error"}, EndCall(c, status)
       PROVE FirstCalls'
  BY <1>11, <1>t DEF EndCall, Complete, Begin, Idle, request, voice
<1>12. ASSUME NEW c \in Speak, Chunk(c) PROVE FirstCalls'
  BY <1>12, <1>t DEF Chunk, Complete, Begin, Idle, request, voice
<1>13. CASE OnVoice
  BY <1>13, <1>t DEF OnVoice, At, request, voice, grpc, Typed, TypeOK
<1>14. ASSUME NEW length \in ChunkLengths, OnVoiceAppend(length) PROVE FirstCalls'
  <2>1. worker.at = "append" /\ worker'.at = "next" /\ ~completeFlag
    BY <1>14 DEF OnVoiceAppend, At, Idle
  <2> QED
    BY <1>14, <2>1 DEF OnVoiceAppend, request, grpc
<1>15. CASE OnVoiceEnd
  BY <1>15 DEF OnVoiceEnd, At, Idle, request, voice, grpc
<1>16. CASE OnError
  BY <1>16 DEF OnError, At, request, voice, grpc, Typed, TypeOK
<1>17. CASE SendErrorEvent
  BY <1>17 DEF SendErrorEvent, At, Idle, request, voice, grpc
<1>18. CASE UNCHANGED vars
  BY <1>18 DEF vars
<1> QED
  BY <1>1, <1>2, <1>3, <1>4, <1>5, <1>6, <1>7, <1>8, <1>9, <1>10, <1>11, <1>12, <1>13, <1>14,
     <1>15, <1>16, <1>17, <1>18
     DEF Next, Client, Mrcp, EventLoop, Media, Proceed, Advance, Worker

\* What is posted when.
Postable(closure) ==
    \/ closure.kind = "send" /\ closure.message \in {"opened", "closed", "response"}
    \/ mrcp = "started" /\ mrcp' = "idle" /\ closure = Send("inprogress", synthesisRequest)
    \/ mrcp = "stopping" /\ closure = Send("stopped", synthesisRequest)
    \/ media = "complete" /\ closure = Send("complete", synthesisRequest)
    \/ worker.at = "failed" /\ closure = Send("error", synthesisRequest)
    \/ completeFlag /\ media' = "complete" /\ closure = Stop
    \/ worker.at = "error" /\ worker'.at = "failed" /\ closure = Stop

\* A step leaves the queue alone, runs its head, or posts a closure.
LEMMA QueueSteps ==
  ASSUME Typed, [Next]_vars
  PROVE  \/ UNCHANGED <<delivered, queue>>
         \/ RunSend
         \/ RunStop
         \/ \E closure \in Closure : Post(closure) /\ Postable(closure) /\ delivered' = delivered
<1>c. /\ Stop \in Closure
      /\ \A message \in Message : Send(message, None) \in Closure
      /\ \A message \in Message : Send(message, synthesisRequest) \in Closure
  BY ClosureTypes, SynthesisAssumption DEF Typed, TypeOK, None
<1>m. {"opened", "closed", "response", "inprogress", "stopped", "complete", "error"}
      \in SUBSET Message
  BY DEF Message, Final
<1>w. [worker EXCEPT !.at = "failed"].at = "failed"
  BY DEF Typed, TypeOK
<1>1. /\ OnOpen => Post(Send("opened", None)) /\ delivered' = delivered
      /\ OnClose => Post(Send("closed", None)) /\ delivered' = delivered
      /\ ProcessOther => Post(Send("response", None)) /\ delivered' = delivered
      /\ RespondInProgress => /\ mrcp = "started" /\ mrcp' = "idle"
                              /\ Post(Send("inprogress", synthesisRequest))
                              /\ delivered' = delivered
      /\ RespondStop => /\ mrcp = "stopping" /\ Post(Send("stopped", synthesisRequest))
                        /\ delivered' = delivered
      /\ SendResultEvent => /\ queue' = queue \/ Post(Send("complete", synthesisRequest))
                            /\ media = "complete" /\ delivered' = delivered
      /\ CheckSynthComplete =>
             /\ queue' = queue \/ (completeFlag /\ media' = "complete" /\ Post(Stop))
             /\ delivered' = delivered
      /\ OnError => /\ worker.at = "error" /\ worker'.at = "failed" /\ Post(Stop)
                    /\ delivered' = delivered
      /\ SendErrorEvent => /\ queue' = queue \/ Post(Send("error", synthesisRequest))
                           /\ worker.at = "failed" /\ delivered' = delivered
  BY <1>w DEF OnOpen, OnClose, ProcessOther, RespondInProgress, RespondStop, SendResultEvent,
         CheckSynthComplete, OnError, SendErrorEvent, Post, At
<1>p. /\ \A message \in {"opened", "closed", "response"} : Postable(Send(message, None))
      /\ mrcp = "started" /\ mrcp' = "idle" => Postable(Send("inprogress", synthesisRequest))
      /\ mrcp = "stopping" => Postable(Send("stopped", synthesisRequest))
      /\ media = "complete" => Postable(Send("complete", synthesisRequest))
      /\ worker.at = "failed" => Postable(Send("error", synthesisRequest))
      /\ completeFlag /\ media' = "complete" => Postable(Stop)
      /\ worker.at = "error" /\ worker'.at = "failed" => Postable(Stop)
  BY DEF Postable, Send
<1>2. \/ UNCHANGED <<delivered, queue>> \/ RunSend \/ RunStop
      \/ OnOpen \/ OnClose \/ ProcessOther \/ RespondInProgress \/ RespondStop
      \/ SendResultEvent \/ CheckSynthComplete \/ OnError \/ SendErrorEvent
  BY DEF Next, Client, ProcessSynthesis, ProcessStop, Mrcp,
         StartConnection, StoreConnection, SetSynthesis, EventLoop,
         RunIdle, Proceed, Chunk, Advance, StartCall, LastRead, EndCall,
         Media, Tick, Fill, CheckState, Worker, OnVoice, OnVoiceAppend, OnVoiceEnd, vars
<1> QED
  BY <1>1, <1>2, <1>c, <1>m, <1>p

\* Of all that is posted and was delivered, too, a step changes nothing, or it adds a closure
\* at the end, or runs a stop.
LEMMA PostedSteps ==
  ASSUME Typed, [Next]_vars
  PROVE  /\ Posted \in Seq(Closure)
         /\ \/ Posted' = Posted
            \/ RunStop
            \/ \E closure \in Closure : /\ Post(closure) /\ Postable(closure)
                                        /\ Posted' = Append(Posted, closure)
<1>t. delivered \in Seq(Closure) /\ queue \in Seq(Closure)
  BY DEF Typed, TypeOK
<1>1. Posted \in Seq(Closure)
  BY <1>t, ConcatProperties DEF Posted
<1>2. ASSUME NEW closure \in Closure, Post(closure), delivered' = delivered
      PROVE  Posted' = Append(Posted, closure)
  <2>1. delivered \o Append(queue, closure) = Append(delivered \o queue, closure)
    BY <1>t, AppendToConcat
  <2> QED
    BY <1>2, <2>1 DEF Posted, Post
<1>3. CASE RunSend
  <2>1. Append(delivered, Head(queue)) \o Tail(queue) = delivered \o queue
    BY <1>3, <1>t, MoveHead DEF RunSend
  <2> QED
    BY <1>1, <1>3, <2>1 DEF RunSend, Posted
<1>4. CASE UNCHANGED <<delivered, queue>>
  BY <1>1, <1>4 DEF Posted
<1> QED
  BY <1>1, <1>2, <1>3, <1>4, QueueSteps

\* The stops and the outcomes: those of a request, of others than the first, and the normal ones.
StopClosures == {closure \in Closure : closure.kind = "stop"}
OutcomesOf(r) == {closure \in Closure : closure.request = r /\ closure.message \in Final}
AllOutcomes == {closure \in Closure : closure.message \in Final}
ForeignOutcomes == {closure \in Closure : closure.message \in Final /\ closure.request # 1}
Completions == {closure \in Closure : closure.message = "complete"}

\* What is posted now was posted before, or is posted by the step.
LEMMA PostedKinds ==
  ASSUME Typed, [Next]_vars, NEW E, Occurs(Posted', E)
  PROVE  Occurs(Posted, E) \/ \E closure \in E : Postable(closure)
<1>t. /\ delivered \in Seq(Closure) /\ queue \in Seq(Closure) /\ Posted \in Seq(Closure)
  BY PostedSteps DEF Typed, TypeOK
<1>1. CASE RunStop
  <2>1. queue # <<>> /\ Posted' = delivered \o Tail(queue)
    BY <1>1 DEF RunStop, Posted
  <2>2. Occurs(delivered \o queue, E)
    BY <1>t, <2>1, KindsOfDrop
  <2> QED
    BY <2>2 DEF Posted
<1>2. ASSUME NEW closure \in Closure, Postable(closure), Posted' = Append(Posted, closure)
      PROVE  Occurs(Posted, E) \/ \E added \in E : Postable(added)
  <2>1. Occurs(Posted, E) \/ closure \in E
    BY <1>t, <1>2, KindsOfAppend
  <2> QED
    BY <1>2, <2>1
<1> QED
  BY <1>1, <1>2, PostedSteps

\* The head of the queue, when it is a stop, is a stop that was posted; what is delivered, too.
LEMMA PostedParts ==
  ASSUME Typed, NEW E
  PROVE  /\ queue # <<>> /\ Head(queue) \in E => Occurs(Posted, E)
         /\ Occurs(delivered, E) \/ Occurs(queue, E) => Occurs(Posted, E)
<1>t. /\ delivered \in Seq(Closure) /\ queue \in Seq(Closure)
  BY DEF Typed, TypeOK
<1>1. queue # <<>> /\ Head(queue) \in E => Occurs(queue, E)
  BY <1>t, KindsOfTail
<1>2. Occurs(delivered, E) \/ Occurs(queue, E) => Occurs(delivered \o queue, E)
  BY <1>t, KindsOfConcat
<1> QED
  BY <1>1, <1>2 DEF Posted

LEMMA StopIsPosted ==
  ASSUME Typed, RunStop
  PROVE  Occurs(Posted, StopClosures)
<1>1. queue # <<>> /\ Head(queue).kind = "stop" /\ Head(queue) \in Closure
  BY HeadTailProperties DEF RunStop, Typed, TypeOK
<1>2. Head(queue) \in StopClosures
  BY <1>1 DEF StopClosures
<1>3. queue # <<>> /\ Head(queue) \in StopClosures => Occurs(Posted, StopClosures)
  BY PostedParts
<1> QED
  BY <1>1, <1>2, <1>3

\* What is posted for the first SPEAK: nothing before its call is made; then outcomes of it
\* alone, when its connection calls back no more, and the normal one when its audio is played.
Over == completeFlag /\ voiceBuffer = <<>>

FirstPosts ==
    /\ ~Called => ~Occurs(Posted, StopClosures) /\ ~Occurs(Posted, AllOutcomes)
    /\ ~Occurs(Posted, ForeignOutcomes)
    /\ Occurs(Posted, Completions) => Over
    /\ Occurs(Posted, AllOutcomes) => Ended(synthesisRequest)

\* A connection that calls back no more does so for ever, unless its call is only just made.
LEMMA EndedStays ==
  ASSUME Typed, [Next]_vars, NEW c \in Speak, Ended(c), ~(StartConnection /\ c = synthesisRequest)
  PROVE  Ended(c)'
<1>t. /\ active \in [Speak -> BOOLEAN]
      /\ call \in [Speak -> {"none", "start_call", "read", "finish", "ok", "error", "dropped"}]
  BY DEF Typed, TypeOK
<1>1. CASE StartConnection
  <2>1. active'[c] = active[c] /\ call'[c] = call[c]
    BY <1>t, <1>1 DEF StartConnection
  <2> QED
    BY <2>1 DEF Ended
<1>2. CASE ProcessStop \/ RunStop
  <2>1. (active'[c] => active[c]) /\ call' = call
    BY <1>t, <1>2 DEF ProcessStop, RunStop, DisableConnection
  <2> QED
    BY <2>1 DEF Ended
<1>3. ASSUME NEW d \in Speak, Chunk(d) \/ Advance(d) PROVE Ended(c)'
  <2>1. /\ active' = active /\ call[d] \in {"start_call", "read", "finish"}
        /\ \E to : call' = [call EXCEPT ![d] = IF active[d] THEN to ELSE "dropped"]
    BY <1>3 DEF Advance, Chunk, StartCall, LastRead, EndCall, Complete
  <2> QED
    BY <1>t, <2>1 DEF Ended
<1>4. CASE UNCHANGED <<active, call>>
  BY <1>4 DEF Ended
<1>5. \/ StartConnection \/ ProcessStop \/ RunStop \/ UNCHANGED <<active, call>>
      \/ \E d \in Speak : Chunk(d) \/ Advance(d)
  BY DEF Next, Client, OnOpen, OnClose, ProcessOther, ProcessSynthesis, Mrcp,
         StoreConnection, SetSynthesis, RespondInProgress, RespondStop, EventLoop,
         RunIdle, RunSend, Proceed, Media, Tick, Fill, CheckState, CheckSynthComplete,
         SendResultEvent, Worker, OnVoice, OnVoiceAppend, OnVoiceEnd, OnError, SendErrorEvent,
         vars, grpc
<1> QED
  BY <1>1, <1>2, <1>3, <1>4, <1>5

\* Once called the first request stays so, and once over it stays over.
LEMMA FirstStays ==
  ASSUME Typed, FirstCalls, [Next]_vars, synthesisRequest <= 1, synthesisRequest' <= 1
  PROVE  /\ Called => Called' /\ synthesisRequest' = synthesisRequest
         /\ Called => ~StartConnection
         /\ Over => Over'
<1>t. synthesisRequest \in 0 .. MaxSpeaks /\ voiceBuffer \in Seq(Nat)
  BY DEF Typed, TypeOK
<1>0. Called => ~StartConnection
  BY DEF Called, StartConnection
<1>1. CASE ProcessSynthesis
  <2>1. synthesisRequest = None
    BY <1>1, <1>t DEF ProcessSynthesis, None
  <2>2. UNCHANGED <<completeFlag, voiceBuffer>>
    BY <1>1 DEF ProcessSynthesis, voice
  <2> QED
    BY <1>0, <2>1, <2>2 DEF Called, Over
<1>2. CASE Fill
  <2>1. UNCHANGED <<completeFlag, synthesisRequest, mrcp>>
    BY <1>2 DEF Fill, request
  <2>2. voiceBuffer = <<>> => voiceBuffer' = <<>>
    <3> SUFFICES ASSUME voiceBuffer = <<>> PROVE voiceBuffer' = <<>>
      OBVIOUS
    <3>1. Len(voiceBuffer) = 0 /\ ~(Len(voiceBuffer) > FrameLength)
      BY SynthesisAssumption
    <3>2. voiceBuffer' = SubSeq(voiceBuffer, 0 + 1, 0)
      BY <1>2, <3>1 DEF Fill
    <3> QED
      BY <3>2, SubSeqEmpty, <1>t
  <2> QED
    BY <1>0, <2>1, <2>2 DEF Called, Over
<1>3. CASE OnVoice \/ \E length \in ChunkLengths : OnVoiceAppend(length)
  <2>1. ~completeFlag /\ UNCHANGED <<synthesisRequest, mrcp>>
    BY <1>3 DEF OnVoice, OnVoiceAppend, At, FirstCalls, request
  <2> QED
    BY <1>0, <2>1 DEF Called, Over
<1>4. CASE OnVoiceEnd
  <2>1. completeFlag' /\ UNCHANGED <<synthesisRequest, mrcp, voiceBuffer>>
    BY <1>4 DEF OnVoiceEnd, request, voice
  <2> QED
    BY <1>0, <2>1 DEF Called, Over
<1>5. CASE UNCHANGED <<completeFlag, voiceBuffer, synthesisRequest>> /\ mrcp' # "accepted"
  BY <1>0, <1>5 DEF Called, Over
<1>6. Mrcp \/ ProcessStop
      => UNCHANGED <<completeFlag, voiceBuffer, synthesisRequest>> /\ mrcp' # "accepted"
  BY DEF Mrcp, StartConnection, StoreConnection, SetSynthesis, RespondInProgress, RespondStop,
         ProcessStop, Ready, request, voice
<1>7. CASE UNCHANGED <<completeFlag, voiceBuffer, synthesisRequest, mrcp>>
  BY <1>0, <1>7 DEF Called, Over
<1>8. \/ UNCHANGED <<completeFlag, voiceBuffer, synthesisRequest, mrcp>>
      \/ ProcessSynthesis \/ Fill \/ OnVoice \/ OnVoiceEnd \/ Mrcp \/ ProcessStop
      \/ \E length \in ChunkLengths : OnVoiceAppend(length)
  BY DEF Next, Client, OnOpen, OnClose, ProcessOther, EventLoop, RunStop, RunSend,
         RunIdle, Proceed, Chunk, Advance, StartCall, LastRead, EndCall,
         Media, Tick, CheckState, CheckSynthComplete, SendResultEvent,
         Worker, OnError, SendErrorEvent, vars, request, voice
<1> QED
  BY <1>1, <1>2, <1>3, <1>4, <1>5, <1>6, <1>7, <1>8

\* FirstPosts is inductive as long as there is no second SPEAK.
LEMMA FirstPostsStep ==
  ASSUME Typed, FirstCalls, FirstPosts, [Next]_vars,
         synthesisRequest <= 1, synthesisRequest' <= 1
  PROVE  FirstPosts' /\ (RunStop => Called)
<1>t. synthesisRequest \in 0 .. MaxSpeaks /\ MaxSpeaks \in Nat
  BY SynthesisAssumption DEF Typed, TypeOK
<1>b. /\ Called => Called' /\ synthesisRequest' = synthesisRequest
      /\ Called => ~StartConnection
      /\ Over => Over'
  BY FirstStays
<1>p. /\ \A closure \in StopClosures : Postable(closure) => Called
      /\ \A closure \in AllOutcomes : Postable(closure) =>
             /\ Called /\ closure.request = synthesisRequest /\ Ended(synthesisRequest)
             /\ closure.message = "complete" => Over
  <2>1. /\ mrcp = "stopping" => Called /\ ~active[synthesisRequest]
        /\ media = "complete" => Called /\ Over /\ call[synthesisRequest] = "ok"
        /\ worker.at \in {"error", "failed"} => Called /\ call[synthesisRequest] = "error"
        /\ completeFlag => Called
    BY DEF FirstCalls, Called, Over
  <2>2. /\ \A m \in Message, r \in 0 .. MaxSpeaks :
               /\ Send(m, r).message = m /\ Send(m, r).request = r /\ Send(m, r).kind = "send"
        /\ Stop.kind = "stop" /\ Stop.message \notin Final
    BY DEF Send, Stop, Final
  <2>3. {"inprogress", "stopped", "complete", "error"} \in SUBSET Message
    BY DEF Message, Final
  <2>4. ASSUME NEW closure \in Closure, Postable(closure)
        PROVE  \/ closure.kind = "send" /\ closure.message \in {"opened", "closed", "response", "inprogress"}
               \/ mrcp = "stopping" /\ closure = Send("stopped", synthesisRequest)
               \/ media = "complete" /\ closure = Send("complete", synthesisRequest)
               \/ worker.at = "failed" /\ closure = Send("error", synthesisRequest)
               \/ (completeFlag \/ worker.at = "error") /\ closure = Stop
    BY <1>t, <2>2, <2>3, <2>4 DEF Postable
  <2>5. ASSUME NEW closure \in StopClosures, Postable(closure) PROVE Called
    <3>1. closure \in Closure /\ closure.kind = "stop"
      BY DEF StopClosures
    <3> QED
      BY <1>t, <2>1, <2>2, <2>3, <2>4, <2>5, <3>1
  <2>6. ASSUME NEW closure \in AllOutcomes, Postable(closure)
        PROVE  /\ Called /\ closure.request = synthesisRequest /\ Ended(synthesisRequest)
               /\ closure.message = "complete" => Over
    <3>1. closure \in Closure /\ closure.message \in Final
      BY DEF AllOutcomes
    <3>2. ~(closure.message \in {"opened", "closed", "response", "inprogress"})
      BY <3>1 DEF Final
    <3> QED
      BY <1>t, <2>1, <2>2, <2>3, <2>4, <2>6, <3>1, <3>2 DEF Ended
  <2> QED
    BY <2>5, <2>6
<1>1. RunStop => Called
  BY StopIsPosted DEF FirstPosts
<1>2. Occurs(Posted', StopClosures) \/ Occurs(Posted', AllOutcomes) => Called
  <2>1. Occurs(Posted', StopClosures) => Occurs(Posted, StopClosures)
                                          \/ \E closure \in StopClosures : Postable(closure)
    BY PostedKinds
  <2>2. Occurs(Posted', AllOutcomes) => Occurs(Posted, AllOutcomes)
                                         \/ \E closure \in AllOutcomes : Postable(closure)
    BY PostedKinds
  <2> QED
    BY <1>p, <2>1, <2>2 DEF FirstPosts
<1>3. ~Occurs(Posted', ForeignOutcomes)
  <2>1. Occurs(Posted', ForeignOutcomes) => Occurs(Posted, ForeignOutcomes)
                                             \/ \E closure \in ForeignOutcomes : Postable(closure)
    BY PostedKinds
  <2>2. \A closure \in ForeignOutcomes : closure \in AllOutcomes /\ closure.request # 1
    BY DEF ForeignOutcomes, AllOutcomes
  <2>3. Called => synthesisRequest = 1
    BY <1>t DEF Called, None
  <2> QED
    BY <1>p, <2>1, <2>2, <2>3 DEF FirstPosts
<1>4. Occurs(Posted', Completions) => Over'
  <2>1. Occurs(Posted', Completions) => Occurs(Posted, Completions)
                                         \/ \E closure \in Completions : Postable(closure)
    BY PostedKinds
  <2>2. \A closure \in Completions : closure \in AllOutcomes /\ closure.message = "complete"
    BY DEF Completions, AllOutcomes, Final
  <2> QED
    BY <1>b, <1>p, <2>1, <2>2 DEF FirstPosts
<1>5. Occurs(Posted', AllOutcomes) => Ended(synthesisRequest)'
  <2> SUFFICES ASSUME Occurs(Posted', AllOutcomes) PROVE Ended(synthesisRequest)'
    OBVIOUS
  <2>1. Occurs(Posted, AllOutcomes) \/ \E closure \in AllOutcomes : Postable(closure)
    BY PostedKinds
  <2>2. Called
    BY <1>2
  <2>3. Ended(synthesisRequest)
    BY <1>p, <2>1 DEF FirstPosts
  <2>4. PICK c \in Speak : c = synthesisRequest
    BY <1>t, <2>2 DEF Called, None, Speak
  <2>5. Ended(c)
    BY <2>3, <2>4
  <2>6. Ended(c)'
    BY <1>b, <2>2, <2>5, EndedStays
  <2>7. synthesisRequest' = c
    BY <1>b, <2>2, <2>4
  <2> QED
    BY <2>6, <2>7 DEF Ended
<1>6. \A E : Occurs(Posted, E)' <=> Occurs(Posted', E)
  BY DEF Occurs
<1> QED
  BY <1>1, <1>2, <1>3, <1>4, <1>5, <1>b
     DEF FirstPosts, Occurs, StopClosures, AllOutcomes, ForeignOutcomes, Completions

-----------------------------------------------------------------------------
(* The stop of the first SPEAK.                                             *)

\* The connection of the request is stored and the state set: a stop silences it.
Stored == synthesisRequest # None /\ mrcp \in {"started", "idle", "stopping"}

\* Before, nothing is on its way to stop it, unless its call has failed already.
Unstored ==
    /\ early \subseteq {synthesisRequest}
    /\ ~Stored => state = "idle" /\ media \notin {"check", "complete"}
    /\ ~Stored /\ synthesisRequest \notin early =>
           /\ loop = "next" /\ worker.at \notin {"error", "failed"}
           /\ ~Occurs(Posted, StopClosures) /\ ~Occurs(Posted, AllOutcomes)

\* The channel is idle and the connection disabled.
Silenced == state = "idle" /\ ~active[synthesisRequest]

\* A stop is at work, or before position n of the queue.
StopBefore(n) ==
    loop = "idle" \/ \E k \in DOMAIN queue : k < n /\ queue[k].kind = "stop"

\* The stop comes before the outcome: before it is posted, while it is in the queue, and when it
\* is delivered.
FirstStops ==
    /\ loop = "idle" => ~active[synthesisRequest]
    /\ media = "complete" \/ worker.at = "failed" => Silenced \/ StopBefore(Len(queue) + 1)
    /\ \A i \in DOMAIN queue : queue[i].message \in Final => Silenced \/ StopBefore(i)
    /\ (\E i \in DOMAIN delivered : delivered[i].message \in Final) => Silenced

\* The queue with one more closure, or without its head.
LEMMA QueueGrows ==
  ASSUME Typed, NEW closure \in Closure, Post(closure)
  PROVE  /\ DOMAIN queue' = 1 .. Len(queue) + 1 /\ Len(queue') = Len(queue) + 1
         /\ DOMAIN queue = 1 .. Len(queue) /\ Len(queue) \in Nat
         /\ \A i \in 1 .. Len(queue) : queue'[i] = queue[i]
         /\ queue'[Len(queue) + 1] = closure
<1>1. queue \in Seq(Closure) /\ queue' = Append(queue, closure)
  BY DEF Typed, TypeOK, Post
<1> QED
  BY <1>1, AppendProperties

LEMMA QueueShrinks ==
  ASSUME Typed, queue # <<>>, queue' = Tail(queue)
  PROVE  /\ Head(queue) = queue[1] /\ Head(queue) \in Closure /\ 1 \in DOMAIN queue
         /\ Len(queue') = Len(queue) - 1 /\ Len(queue) \in Nat
         /\ \A i \in DOMAIN queue' :
               i \in Nat /\ i + 1 \in DOMAIN queue /\ queue'[i] = queue[i + 1]
         /\ \A i \in DOMAIN queue : i \in Nat /\ (i = 1 \/ i - 1 \in DOMAIN queue')
<1>1. queue \in Seq(Closure)
  BY DEF Typed, TypeOK
<1>2. /\ Tail(queue) \in Seq(Closure) /\ Len(Tail(queue)) = Len(queue) - 1
      /\ Head(queue) = queue[1] /\ Head(queue) \in Closure /\ Len(queue) \in Nat \ {0}
      /\ \A i \in 1 .. Len(queue) - 1 : Tail(queue)[i] = queue[i + 1]
      /\ DOMAIN queue = 1 .. Len(queue) /\ DOMAIN Tail(queue) = 1 .. Len(queue) - 1
  BY <1>1, HeadTailProperties, EmptySeq
<1>3. \A n \in Nat \ {0} : /\ 1 \in 1 .. n
                           /\ \A i \in 1 .. n - 1 : i \in Nat /\ i + 1 \in 1 .. n
                           /\ \A i \in 1 .. n : i \in Nat /\ (i = 1 \/ i - 1 \in 1 .. n - 1)
  OBVIOUS
<1> QED
  BY <1>2, <1>3

\* A stop ahead stays ahead when a closure is posted.
LEMMA StopsStay ==
  ASSUME Typed, NEW closure \in Closure, Post(closure), loop' = loop
  PROVE  /\ \A i \in Nat : StopBefore(i) => StopBefore(i)'
         /\ StopBefore(Len(queue) + 1) \/ closure.kind = "stop" => StopBefore(Len(queue) + 1)'
<1>q. /\ DOMAIN queue' = 1 .. Len(queue) + 1 /\ Len(queue') = Len(queue) + 1
      /\ DOMAIN queue = 1 .. Len(queue) /\ Len(queue) \in Nat
      /\ \A i \in 1 .. Len(queue) : queue'[i] = queue[i]
      /\ queue'[Len(queue) + 1] = closure
  BY QueueGrows
<1> QED
  BY <1>q DEF StopBefore

\* The set of early failures grows with those of the current request, before it is stored.
LEMMA EarlyGrows ==
  ASSUME Typed, Succession, FirstCalls, Unstored, [Next]_vars,
         synthesisRequest <= 1, synthesisRequest' <= 1
  PROVE  /\ early \subseteq early' /\ early' \subseteq {synthesisRequest'}
         /\ Stored => Stored' /\ synthesisRequest' = synthesisRequest
         /\ ~Stored /\ Stored' => SetSynthesis
<1>t. synthesisRequest \in 0 .. MaxSpeaks /\ None \notin Speak /\ early \in SUBSET Speak
  BY DEF Typed, TypeOK, None, Speak
<1>1. CASE ProcessSynthesis
  <2>1. synthesisRequest = None /\ synthesisRequest' = 1 /\ early' = early
    BY <1>1, <1>t DEF ProcessSynthesis, None, grpc
  <2>2. early = {}
    BY <1>t, <2>1 DEF Unstored
  <2> QED
    BY <1>1, <2>1, <2>2 DEF ProcessSynthesis, Stored
<1>2. ASSUME NEW c \in Speak, NEW status \in {"ok", "error"}, EndCall(c, status)
      PROVE  /\ early \subseteq early' /\ early' \subseteq {synthesisRequest'}
             /\ UNCHANGED <<mrcp, synthesisRequest>>
  BY <1>2 DEF EndCall, Unstored, request
<1>3. CASE UNCHANGED <<early, mrcp, synthesisRequest>>
  BY <1>3 DEF Unstored, Stored
<1>4. CASE Mrcp \/ ProcessStop
  <2>1. UNCHANGED <<early, synthesisRequest>>
    BY <1>4 DEF Mrcp, StartConnection, StoreConnection, SetSynthesis, RespondInProgress,
                RespondStop, ProcessStop, request, grpc
  <2>2. /\ Stored => Stored'
        /\ ~Stored /\ Stored' => SetSynthesis
    BY <1>4, <2>1 DEF Mrcp, StartConnection, StoreConnection, SetSynthesis, RespondInProgress,
                RespondStop, ProcessStop, Ready, InProgress, Stored
  <2> QED
    BY <2>1, <2>2 DEF Unstored
<1>5. \/ ProcessSynthesis \/ Mrcp \/ ProcessStop \/ UNCHANGED <<early, mrcp, synthesisRequest>>
      \/ \E c \in Speak, status \in {"ok", "error"} : EndCall(c, status)
  BY DEF Next, Client, OnOpen, OnClose, ProcessOther, EventLoop, RunStop, RunSend, RunIdle,
         Proceed, Chunk, Advance, StartCall, LastRead, Media, Tick, Fill, CheckState,
         CheckSynthComplete, SendResultEvent, Worker, OnVoice, OnVoiceAppend, OnVoiceEnd,
         OnError, SendErrorEvent, vars, request, grpc
<1> QED
  BY <1>1, <1>2, <1>3, <1>4, <1>5 DEF Stored

\* Unstored is inductive as long as there is no second SPEAK.
LEMMA UnstoredStep ==
  ASSUME Typed, Succession, FirstCalls, Unstored, [Next]_vars,
         synthesisRequest <= 1, synthesisRequest' <= 1
  PROVE  Unstored'
<1>t. /\ synthesisRequest \in 0 .. MaxSpeaks /\ None \notin Speak
      /\ worker \in [at : {"next", "voice", "append", "ok", "error", "failed"}, conn : 0 .. MaxSpeaks]
  BY DEF Typed, TypeOK, None, Speak
<1>e. /\ early \subseteq early' /\ early' \subseteq {synthesisRequest'}
      /\ Stored => Stored' /\ synthesisRequest' = synthesisRequest
  BY EarlyGrows
<1>1. ASSUME ~Stored' PROVE state' = "idle" /\ media' \notin {"check", "complete"}
  <2>1. ~Stored /\ state = "idle" /\ media \notin {"check", "complete"}
    BY <1>1, <1>e DEF Unstored
  <2>2. ~SetSynthesis
    BY <1>1 DEF SetSynthesis, Stored, Succession, request
  <2> QED
    BY <2>1, <2>2
       DEF Next, Client, OnOpen, OnClose, ProcessOther, ProcessSynthesis, ProcessStop, Mrcp,
         StartConnection, StoreConnection, RespondInProgress, RespondStop, EventLoop,
         RunStop, RunIdle, RunSend, Proceed, Chunk, Advance, StartCall, LastRead, EndCall,
         Media, Tick, Fill, CheckState, CheckSynthComplete, SendResultEvent,
         Worker, OnVoice, OnVoiceAppend, OnVoiceEnd, OnError, SendErrorEvent, vars
<1>2. ASSUME ~Stored', synthesisRequest' \notin early'
      PROVE  /\ loop' = "next" /\ worker'.at \notin {"error", "failed"}
             /\ ~Occurs(Posted', StopClosures) /\ ~Occurs(Posted', AllOutcomes)
  <2>1. ~Stored /\ synthesisRequest \notin early
    <3>1. CASE ProcessSynthesis
      <4>1. synthesisRequest = None
        BY <3>1, <1>t DEF ProcessSynthesis, None
      <4> QED
        BY <1>2, <1>e, <1>t, <4>1 DEF Typed, TypeOK
    <3>2. ~ProcessSynthesis => synthesisRequest' = synthesisRequest
      BY DEF Next, Client, OnOpen, OnClose, ProcessOther, ProcessStop, Mrcp,
         StartConnection, StoreConnection, SetSynthesis, RespondInProgress, RespondStop, EventLoop,
         RunStop, RunIdle, RunSend, Proceed, Chunk, Advance, StartCall, LastRead, EndCall,
         Media, Tick, Fill, CheckState, CheckSynthComplete, SendResultEvent,
         Worker, OnVoice, OnVoiceAppend, OnVoiceEnd, OnError, SendErrorEvent, vars, request
    <3> QED
      BY <1>2, <1>e, <3>1, <3>2
  <2>2. /\ loop = "next" /\ worker.at \notin {"error", "failed"}
        /\ state = "idle" /\ media \notin {"check", "complete"}
        /\ ~Occurs(Posted, StopClosures) /\ ~Occurs(Posted, AllOutcomes)
    BY <2>1 DEF Unstored
  <2>3. ~RunStop
    BY <2>2, StopIsPosted
  <2>4. \A c \in Speak : EndCall(c, "error") => worker'.at = "next"
    <3> SUFFICES ASSUME NEW c \in Speak, EndCall(c, "error"), active[c] PROVE FALSE
      BY DEF EndCall, Begin, Idle
    <3>1. /\ call[c] = "finish" /\ UNCHANGED <<mrcp, synthesisRequest>>
          /\ ~(Starting /\ c = synthesisRequest)
      BY <1>2, <1>e DEF EndCall, Complete, request
    <3>2. c = synthesisRequest /\ Called
      BY <3>1 DEF FirstCalls
    <3> QED
      BY <2>1, <3>1, <3>2, <1>t DEF Called, Stored, Starting, Typed, TypeOK
  <2>5. worker'.at \notin {"error", "failed"}
    <3>1. \A c \in Speak : /\ Chunk(c) => worker'.at \in {"next", "voice"}
                           /\ EndCall(c, "ok") => worker'.at \in {"next", "ok"}
      BY DEF Chunk, EndCall, Begin, Idle
    <3>2. /\ OnVoice => worker'.at = "append"
          /\ OnVoiceEnd => worker'.at = "next"
          /\ \A length \in ChunkLengths : OnVoiceAppend(length) => worker'.at = "next"
          /\ ~OnError /\ ~SendErrorEvent
      BY <1>t, <2>2 DEF OnVoice, OnVoiceEnd, OnVoiceAppend, OnError, SendErrorEvent, At, Idle
    <3> QED
      BY <2>2, <2>4, <3>1, <3>2
         DEF Next, Client, OnOpen, OnClose, ProcessOther, ProcessSynthesis, ProcessStop, Mrcp,
         StartConnection, StoreConnection, SetSynthesis, RespondInProgress, RespondStop, EventLoop,
         RunStop, RunIdle, RunSend, Proceed, Advance, StartCall, LastRead,
         Media, Tick, Fill, CheckState, CheckSynthComplete, SendResultEvent, Worker, vars
  <2>6. loop' = "next"
    BY <2>2, <2>3
       DEF Next, Client, OnOpen, OnClose, ProcessOther, ProcessSynthesis, ProcessStop, Mrcp,
         StartConnection, StoreConnection, SetSynthesis, RespondInProgress, RespondStop, EventLoop,
         RunIdle, RunSend, Proceed, Chunk, Advance, StartCall, LastRead, EndCall,
         Media, Tick, Fill, CheckState, CheckSynthComplete, SendResultEvent,
         Worker, OnVoice, OnVoiceAppend, OnVoiceEnd, OnError, SendErrorEvent, vars
  <2>7. \A closure : Postable(closure) => closure.kind = "send" /\ closure.message \notin Final
    <3>1. mrcp # "stopping" /\ media' # "complete" /\ media # "complete"
      BY <1>1, <1>2, <2>1, <2>2 DEF Stored, FirstCalls
    <3> QED
      BY <2>2, <3>1 DEF Postable, Send, Final
  <2>8. /\ \A closure \in StopClosures : closure.kind = "stop"
        /\ \A closure \in AllOutcomes : closure.message \in Final
    BY DEF StopClosures, AllOutcomes
  <2>9. ~Occurs(Posted', StopClosures)
    <3>1. Occurs(Posted', StopClosures) => Occurs(Posted, StopClosures)
                                            \/ \E closure \in StopClosures : Postable(closure)
      BY PostedKinds
    <3>2. ASSUME NEW closure \in StopClosures PROVE ~Postable(closure)
      BY <2>7, <2>8
    <3> QED
      BY <2>2, <3>1, <3>2
  <2>10. ~Occurs(Posted', AllOutcomes)
    <3>1. Occurs(Posted', AllOutcomes) => Occurs(Posted, AllOutcomes)
                                           \/ \E closure \in AllOutcomes : Postable(closure)
      BY PostedKinds
    <3>2. ASSUME NEW closure \in AllOutcomes PROVE ~Postable(closure)
      BY <2>7, <2>8
    <3> QED
      BY <2>2, <3>1, <3>2
  <2> QED
    BY <2>5, <2>6, <2>9, <2>10
<1>3. /\ Occurs(Posted, StopClosures)' <=> Occurs(Posted', StopClosures)
      /\ Occurs(Posted, AllOutcomes)' <=> Occurs(Posted', AllOutcomes)
  BY DEF Occurs, StopClosures, AllOutcomes
<1> QED
  BY <1>1, <1>2, <1>3, <1>e DEF Unstored

\* FirstStops is inductive as long as there is no second SPEAK and the call did not fail early.
LEMMA FirstStopsStep ==
  ASSUME Typed, Succession, FirstCalls, FirstPosts, Unstored,
         synthesisRequest \notin early => FirstStops, [Next]_vars,
         synthesisRequest <= 1, synthesisRequest' <= 1, synthesisRequest' \notin early'
  PROVE  FirstStops'
<1>t. /\ synthesisRequest \in 0 .. MaxSpeaks /\ synthesisRequest' \in 0 .. MaxSpeaks
      /\ active \in [Speak -> BOOLEAN] /\ queue \in Seq(Closure) /\ delivered \in Seq(Closure)
      /\ MaxSpeaks \in Nat
  BY TypeStep, SynthesisAssumption DEF Typed, TypeOK
<1>b. /\ Stored => Stored' /\ synthesisRequest' = synthesisRequest
      /\ early \subseteq early'
      /\ ~Stored /\ Stored' => SetSynthesis
  BY EarlyGrows
<1>u. Unstored'
  BY UnstoredStep
<1>f. Stored => FirstStops
  BY <1>b
\* Before the connection is stored none of the premises holds.
<1>1. CASE ~Stored'
  <2>1. loop' # "idle" /\ media' # "complete" /\ worker'.at # "failed"
    BY <1>1, <1>u DEF Unstored
  <2>2. delivered' \in Seq(Closure) /\ queue' \in Seq(Closure)
    BY TypeStep DEF Typed, TypeOK
  <2>3. PICK d \in Seq(Closure), q \in Seq(Closure) : d = delivered' /\ q = queue'
    BY <2>2
  <2>4. ~Occurs(d \o q, AllOutcomes)
    BY <1>1, <1>u, <2>3 DEF Unstored, Occurs, AllOutcomes, Posted
  <2>5. ~Occurs(d, AllOutcomes) /\ ~Occurs(q, AllOutcomes)
    BY <2>4, KindsOfConcat
  <2>6. /\ \A i \in DOMAIN queue' : queue'[i].message \notin Final
        /\ \A i \in DOMAIN delivered' : delivered'[i].message \notin Final
    BY <2>3, <2>5 DEF Occurs, AllOutcomes
  <2> QED
    BY <2>1, <2>6 DEF FirstStops
<1>2. CASE Stored /\ Stored'
  <2>f. FirstStops
    BY <1>2, <1>f
  <2>r. synthesisRequest' = synthesisRequest /\ synthesisRequest \in Speak
    BY <1>2, <1>b, <1>t, SynthesisAssumption DEF Stored, None, Speak
  <2>a. ~active[synthesisRequest] => ~active'[synthesisRequest]
    <3>1. ProcessStop \/ RunStop \/ active' = active
      BY <1>2 DEF Stored, Next, Client, OnOpen, OnClose, ProcessOther, ProcessSynthesis, grpc,
         Mrcp, StartConnection, StoreConnection, SetSynthesis, RespondInProgress, RespondStop,
         EventLoop, RunSend, RunIdle, Proceed, Chunk, Advance, StartCall, LastRead,
         EndCall, Media, Tick, Fill, CheckState, CheckSynthComplete, SendResultEvent,
         Worker, OnVoice, OnVoiceAppend, OnVoiceEnd, OnError, SendErrorEvent, vars
    <3>2. ProcessStop \/ RunStop => \A c \in Speak : active'[c] => active[c]
      BY <1>t DEF ProcessStop, RunStop, DisableConnection
    <3> QED
      BY <2>r, <3>1, <3>2
  <2>s. Silenced => Silenced'
    <3>1. state = "idle" => state' = "idle"
      BY <1>2 DEF Stored, Next, Client, OnOpen, OnClose, ProcessOther, ProcessSynthesis, ProcessStop,
         Mrcp, StartConnection, StoreConnection, SetSynthesis, RespondInProgress, RespondStop,
         EventLoop, RunStop, RunSend, RunIdle, Proceed, Chunk, Advance, StartCall, LastRead,
         EndCall, Media, Tick, Fill, CheckState, CheckSynthComplete, SendResultEvent,
         Worker, OnVoice, OnVoiceAppend, OnVoiceEnd, OnError, SendErrorEvent, vars
    <3> QED
      BY <2>r, <2>a, <3>1 DEF Silenced
  <2>c. connection = synthesisRequest
    BY <1>2 DEF Stored, Succession
  <2>d. ProcessStop \/ RunStop => ~active'[synthesisRequest]
    BY <1>t, <2>r, <2>c DEF ProcessStop, RunStop, DisableConnection
  \* The event loop.
  <2>1. CASE RunStop
    <3>1. loop' = "idle" /\ delivered' = delivered
      BY <2>1 DEF RunStop
    <3> QED
      BY <2>f, <2>r, <2>d, <2>s, <2>1, <3>1 DEF FirstStops, StopBefore
  <2>2. CASE RunIdle
    <3>1. state' = "idle" /\ loop = "idle" /\ UNCHANGED active
      BY <2>2 DEF RunIdle, grpc
    <3>2. Silenced'
      BY <2>f, <2>r, <3>1 DEF FirstStops, Silenced
    <3> QED
      BY <2>f, <3>2 DEF FirstStops, Silenced
  <2>3. CASE RunSend
    <3>1. /\ queue # <<>> /\ queue' = Tail(queue) /\ Head(queue).kind = "send" /\ loop # "idle"
          /\ delivered' = Append(delivered, Head(queue))
          /\ UNCHANGED <<loop, mrcp, media, worker, state, active>>
      BY <2>3 DEF RunSend, grpc
    <3>q. /\ Head(queue) = queue[1] /\ Head(queue) \in Closure /\ 1 \in DOMAIN queue
          /\ Len(queue') = Len(queue) - 1 /\ Len(queue) \in Nat
          /\ \A i \in DOMAIN queue' :
                i \in Nat /\ i + 1 \in DOMAIN queue /\ queue'[i] = queue[i + 1]
          /\ \A i \in DOMAIN queue : i \in Nat /\ (i = 1 \/ i - 1 \in DOMAIN queue')
      BY <3>1, QueueShrinks
    <3>2. \A i \in Nat : StopBefore(i + 1) => StopBefore(i)'
      BY <3>1, <3>q DEF StopBefore
    <3>3. ASSUME NEW i \in DOMAIN queue', queue'[i].message \in Final
          PROVE  Silenced' \/ StopBefore(i)'
      BY <2>f, <2>s, <3>2, <3>3, <3>q DEF FirstStops
    <3>4. ASSUME media' = "complete" \/ worker'.at = "failed"
          PROVE  Silenced' \/ StopBefore(Len(queue) + 1)'
      <4>1. Silenced \/ StopBefore(Len(queue) + 1)
        BY <2>f, <3>1, <3>4 DEF FirstStops
      <4>2. PICK n \in Nat : n + 1 = Len(queue) + 1 /\ n = Len(queue)
        BY <3>q
      <4>3. StopBefore(n + 1) => StopBefore(n)'
        BY <3>2, <4>2
      <4>4. Len(queue') + 1 = n
        BY <3>q, <4>2
      <4>5. StopBefore(n)' => StopBefore(Len(queue) + 1)'
        BY <4>4
      <4> QED
        BY <2>s, <4>1, <4>2, <4>3, <4>5
    <3>5. ASSUME NEW i \in DOMAIN delivered', delivered'[i].message \in Final PROVE Silenced'
      <4>1. CASE i \in DOMAIN delivered /\ delivered'[i] = delivered[i]
        BY <2>f, <2>s, <3>5, <4>1 DEF FirstStops
      <4>2. CASE delivered'[i] = Head(queue)
        <5>1. ~StopBefore(1)
          BY <3>1, <3>q DEF StopBefore
        <5> QED
          BY <2>f, <2>s, <3>5, <3>q, <4>2, <5>1 DEF FirstStops
      <4> QED
        BY <1>t, <3>1, <3>5, <3>q, <4>1, <4>2, AppendProperties
    <3>6. loop' = "idle" => ~active'[synthesisRequest']
      BY <2>f, <2>r, <3>1 DEF FirstStops
    <3> QED
      BY <2>f, <3>3, <3>4, <3>5, <3>6 DEF FirstStops
  \* The MRCP thread.
  <2>4. CASE ProcessStop
    BY <2>f, <2>r, <2>d, <2>s, <2>4 DEF ProcessStop, FirstStops, StopBefore
  \* Whoever posts.
  <2>5. ASSUME NEW closure \in Closure, Post(closure), loop' = loop, delivered' = delivered,
               (media' = "complete" \/ worker'.at = "failed")
                   => media = "complete" \/ worker.at = "failed" \/ closure.kind = "stop",
               closure.message \in Final
                   => media = "complete" \/ worker.at = "failed" \/ Silenced'
        PROVE  FirstStops'
    <3>q. /\ DOMAIN queue' = 1 .. Len(queue) + 1 /\ Len(queue') = Len(queue) + 1
          /\ DOMAIN queue = 1 .. Len(queue) /\ Len(queue) \in Nat
          /\ \A i \in 1 .. Len(queue) : queue'[i] = queue[i]
          /\ queue'[Len(queue) + 1] = closure
      BY <2>5, QueueGrows
    <3>w. /\ \A i \in Nat : StopBefore(i) => StopBefore(i)'
          /\ StopBefore(Len(queue) + 1) \/ closure.kind = "stop" => StopBefore(Len(queue) + 1)'
      BY <2>5, StopsStay
    <3>1. loop' = "idle" => ~active'[synthesisRequest']
      BY <2>f, <2>r, <2>a, <2>5 DEF FirstStops
    <3>2. media' = "complete" \/ worker'.at = "failed" => Silenced' \/ StopBefore(Len(queue) + 1)'
      BY <2>f, <2>s, <2>5, <3>w DEF FirstStops
    <3>3. ASSUME NEW i \in DOMAIN queue', queue'[i].message \in Final
          PROVE  Silenced' \/ StopBefore(i)'
      <4>1. CASE i \in 1 .. Len(queue)
        BY <2>f, <2>s, <3>q, <3>w, <3>3, <4>1 DEF FirstStops
      <4>2. CASE i = Len(queue) + 1
        <5>1. Silenced' \/ Silenced \/ StopBefore(i)
          BY <2>f, <2>5, <3>q, <3>3, <4>2 DEF FirstStops
        <5>2. i \in Nat
          BY <3>q, <4>2
        <5> QED
          BY <2>s, <3>w, <5>1, <5>2
      <4> QED
        BY <3>q, <4>1, <4>2
    <3>4. (\E i \in DOMAIN delivered' : delivered'[i].message \in Final) => Silenced'
      BY <2>f, <2>s, <2>5 DEF FirstStops
    <3> QED
      BY <2>f, <3>1, <3>2, <3>3, <3>4 DEF FirstStops
  <2>6. CASE RespondStop
    <3>1. Silenced'
      <4>1. mrcp = "stopping" /\ state' = "idle" /\ active' = active
        BY <2>6 DEF RespondStop, grpc
      <4> QED
        BY <2>r, <4>1 DEF FirstCalls, Silenced
    <3> QED
      BY <2>f, <3>1 DEF FirstStops, Silenced
  <2>7. CASE OnOpen \/ OnClose \/ ProcessOther \/ RespondInProgress \/ (CheckSynthComplete /\ queue' # queue)
             \/ (SendResultEvent /\ queue' # queue) \/ OnError \/ SendErrorEvent
    <3>m. {"opened", "closed", "response", "inprogress", "complete", "error"} \in SUBSET Message
      BY DEF Message, Final
    <3>c. /\ Stop \in Closure /\ Stop.kind = "stop" /\ Stop.message \notin Final
          /\ \A m \in Message, r \in 0 .. MaxSpeaks :
                Send(m, r) \in Closure /\ Send(m, r).message = m
          /\ None \in 0 .. MaxSpeaks
      BY <1>t, ClosureTypes DEF Stop, Send, None, Final
    <3>1. CASE OnClose
      <4>1. Post(Send("closed", None)) /\ UNCHANGED <<loop, delivered, mrcp, media, worker>>
        BY <3>1 DEF OnClose
      <4> QED
        BY <2>5, <3>m, <3>c, <4>1 DEF Final
    <3>2. CASE ProcessOther
      <4>1. Post(Send("response", None)) /\ UNCHANGED <<loop, delivered, mrcp, media, worker>>
        BY <3>2 DEF ProcessOther
      <4> QED
        BY <2>5, <3>m, <3>c, <4>1 DEF Final
    <3>3. CASE CheckSynthComplete /\ queue' # queue
      <4>1. Post(Stop) /\ UNCHANGED <<loop, delivered, mrcp, worker>>
        BY <3>3 DEF CheckSynthComplete
      <4> QED
        BY <2>5, <3>c, <4>1
    <3>4. CASE SendResultEvent /\ queue' # queue
      <4>1. /\ Post(Send("complete", synthesisRequest)) /\ UNCHANGED <<loop, delivered, mrcp, worker>>
            /\ media = "complete" /\ media' = "idle"
        BY <3>4 DEF SendResultEvent, Post
      <4> QED
        BY <1>t, <2>5, <3>m, <3>c, <4>1
    <3>5. CASE OnError
      <4>1. Post(Stop) /\ UNCHANGED <<loop, delivered, mrcp, media>>
        BY <3>5 DEF OnError
      <4> QED
        BY <2>5, <3>c, <4>1
    <3>6. CASE SendErrorEvent
      <4>1. /\ queue' = queue \/ Post(Send("error", synthesisRequest))
            /\ UNCHANGED <<loop, delivered, mrcp, media>>
            /\ worker.at = "failed" /\ worker'.at = "next"
        BY <3>6 DEF SendErrorEvent, Post, At, Idle
      <4>2. CASE queue' = queue
        BY <2>f, <2>r, <2>a, <2>s, <4>1, <4>2 DEF FirstStops, StopBefore
      <4> QED
        BY <1>t, <2>5, <3>m, <3>c, <4>1, <4>2
    <3>7. CASE OnOpen
      <4>1. Post(Send("opened", None)) /\ UNCHANGED <<loop, delivered, mrcp, media, worker>>
        BY <3>7 DEF OnOpen
      <4> QED
        BY <2>5, <3>m, <3>c, <4>1 DEF Final
    <3>8. CASE RespondInProgress
      <4>1. /\ Post(Send("inprogress", synthesisRequest))
            /\ UNCHANGED <<loop, delivered, media, worker>>
        BY <3>8 DEF RespondInProgress
      <4>2. "inprogress" \in Message /\ "inprogress" \notin Final
        BY DEF Message, Final
      <4>3. PICK closure \in Closure : /\ closure = Send("inprogress", synthesisRequest)
                                       /\ closure.message \notin Final
        BY <1>t, <3>c, <4>2
      <4> QED
        BY <2>5, <4>1, <4>3
    <3> QED
      BY <2>7, <3>7, <3>8, <3>1, <3>2, <3>3, <3>4, <3>5, <3>6
  \* The others.
  <2>8. CASE /\ UNCHANGED <<loop, queue, delivered>>
             /\ media' = "complete" => media = "complete"
             /\ worker'.at = "failed" => worker.at = "failed"
    BY <2>f, <2>r, <2>a, <2>s, <2>8 DEF FirstStops, StopBefore
  <2>9. \/ RunStop \/ RunIdle \/ RunSend \/ ProcessStop \/ RespondStop
        \/ OnOpen \/ OnClose \/ ProcessOther \/ RespondInProgress \/ (CheckSynthComplete /\ queue' # queue)
        \/ (SendResultEvent /\ queue' # queue) \/ OnError \/ SendErrorEvent
        \/ /\ UNCHANGED <<loop, queue, delivered>>
           /\ media' = "complete" => media = "complete"
           /\ worker'.at = "failed" => worker.at = "failed"
    <3>1. CASE Client
      <4>1. ~ProcessSynthesis
        BY <1>t, <2>r DEF ProcessSynthesis
      <4> QED
        BY <3>1, <4>1 DEF Client
    <3>2. CASE Mrcp
      BY <1>2, <3>2 DEF Mrcp, StartConnection, StoreConnection, SetSynthesis, RespondInProgress,
                        Stored
    <3>3. CASE Media
      BY <3>3 DEF Media, Tick, Fill, CheckState, CheckSynthComplete, SendResultEvent, Post
    <3>4. CASE Proceed
      BY <3>4 DEF Proceed, Chunk, Advance, StartCall, LastRead, EndCall, Begin, Idle
    <3>5. CASE Worker
      <4>1. OnVoice => worker'.at = "append" /\ UNCHANGED <<loop, queue, delivered, mrcp, media>>
        BY DEF OnVoice, Typed, TypeOK
      <4>2. OnVoiceEnd => worker'.at = "next" /\ UNCHANGED <<loop, queue, delivered, mrcp, media>>
        BY DEF OnVoiceEnd, Idle
      <4>3. ASSUME NEW length \in ChunkLengths, OnVoiceAppend(length)
            PROVE  worker'.at = "next" /\ UNCHANGED <<loop, queue, delivered, mrcp, media>>
        BY <4>3 DEF OnVoiceAppend, Idle
      <4> QED
        BY <3>5, <4>1, <4>2, <4>3 DEF Worker
    <3>6. CASE UNCHANGED vars
      BY <3>6 DEF vars
    <3> QED
      BY <3>1, <3>2, <3>3, <3>4, <3>5, <3>6 DEF Next, EventLoop
  <2> QED
    BY <2>1, <2>2, <2>3, <2>4, <2>6, <2>7, <2>8, <2>9
\* The state is set: no premise held before the step, and it posts nothing.
<1>3. CASE ~Stored /\ Stored'
  <2>1. SetSynthesis
    BY <1>3, <1>b
  <2>2. /\ UNCHANGED <<loop, media, worker, queue, delivered, synthesisRequest, early>>
    BY <2>1 DEF SetSynthesis, request, grpc
  <2>3. /\ loop = "next" /\ media # "complete" /\ worker.at # "failed"
        /\ ~Occurs(Posted, AllOutcomes)
    BY <1>3, <2>2 DEF Unstored
  <2>4. ~Occurs(delivered, AllOutcomes) /\ ~Occurs(queue, AllOutcomes)
    BY <1>t, <2>3, KindsOfConcat DEF Posted
  <2>5. /\ \A i \in DOMAIN queue : queue[i].message \notin Final
        /\ \A i \in DOMAIN delivered : delivered[i].message \notin Final
    BY <1>t, <2>4 DEF Occurs, AllOutcomes
  <2> QED
    BY <2>2, <2>3, <2>5 DEF FirstStops
<1> QED
  BY <1>1, <1>2, <1>3, <1>b

-----------------------------------------------------------------------------
(* What the first SPEAK is promised.                                        *)

FirstInv == synthesisRequest <= 1 => /\ FirstCalls /\ FirstPosts /\ Unstored
                                     /\ synthesisRequest \notin early => FirstStops

LEMMA FirstInit == Init => FirstInv
<1> SUFFICES ASSUME Init PROVE FirstInv
  OBVIOUS
<1>1. FirstCalls
  BY DEF Init, FirstCalls, Idle, None
<1>2. Posted = <<>> /\ DOMAIN Posted = {}
  BY DEF Init, Posted
<1>3. FirstPosts /\ Unstored
  BY <1>2 DEF Init, FirstPosts, Unstored, Occurs, Idle
<1>4. FirstStops
  BY DEF Init, FirstStops, Idle
<1> QED
  BY <1>1, <1>3, <1>4 DEF FirstInv

LEMMA FirstStep == Typed /\ Succession /\ FirstInv /\ [Next]_vars => FirstInv'
<1> SUFFICES ASSUME Typed, Succession, FirstInv, [Next]_vars, synthesisRequest' <= 1
             PROVE  /\ (FirstCalls /\ FirstPosts /\ Unstored)'
                    /\ synthesisRequest' \notin early' => FirstStops'
  BY DEF FirstInv
<1>1. synthesisRequest' = synthesisRequest \/ synthesisRequest' = synthesisRequest + 1
  BY RequestSteps
<1>2. synthesisRequest <= 1
  BY <1>1, SynthesisAssumption DEF Typed, TypeOK
<1> QED
  BY <1>2, FirstCallsStep, FirstPostsStep, UnstoredStep, FirstStopsStep DEF FirstInv

LEMMA FirstHolds == Spec => [](Typed /\ Succession /\ UnitsKept /\ FirstInv)
BY TypeInit, TypeStep, SuccessionInit, SuccessionStep, UnitsStep, FirstInit, FirstStep, PTL DEF Spec

\* In a session that has had one SPEAK so far, SPEAK-COMPLETE is sent only when the service had
\* ended the call and all its audio was played.
THEOREM CompletedWasPlayed == Spec => [](synthesisRequest <= 1 => CompleteMeansPlayed)
<1>1. Typed /\ UnitsKept /\ FirstInv => (synthesisRequest <= 1 => CompleteMeansPlayed)
  <2> SUFFICES ASSUME Typed, UnitsKept, FirstInv, synthesisRequest <= 1,
                      NEW i \in DOMAIN Posted, Posted[i].message = "complete"
               PROVE  /\ call[Posted[i].request] = "ok"
                      /\ \A n \in DOMAIN owner : owner[n] = Posted[i].request => n <= Len(played)
    BY DEF CompleteMeansPlayed
  <2>1. FirstCalls /\ FirstPosts
    BY DEF FirstInv
  <2>2. Posted[i].request = synthesisRequest /\ Over
    <3>1. Posted[i] \in Closure
      BY ConcatProperties DEF Typed, TypeOK, Posted
    <3>2. Occurs(Posted, Completions) /\ Occurs(Posted, AllOutcomes)
      BY <3>1 DEF Occurs, Completions, AllOutcomes, Final
    <3>3. Posted[i].request = 1
      BY <2>1, <3>1 DEF FirstPosts, Occurs, ForeignOutcomes, Final
    <3>4. synthesisRequest = 1
      BY <2>1, <3>2, SynthesisAssumption DEF FirstPosts, Called, None, Typed, TypeOK
    <3> QED
      BY <2>1, <3>2, <3>3, <3>4 DEF FirstPosts
  <2>3. call[synthesisRequest] = "ok"
    BY <2>1, <2>2 DEF FirstCalls, Over
  <2>4. Len(played) = Len(owner)
    <3>1. played \in Seq(Nat) /\ owner \in Seq(Speak) /\ voiceBuffer = <<>>
      BY <2>2 DEF Typed, TypeOK, Over
    <3>2. played \o voiceBuffer = played
      BY <3>1
    <3>3. played = [n \in 1 .. Len(owner) |-> n]
      BY <3>2 DEF UnitsKept
    <3> QED
      BY <3>1, <3>3
  <2>5. \A n \in DOMAIN owner : n <= Len(owner)
    BY DEF Typed, TypeOK
  <2> QED
    BY <2>2, <2>3, <2>4, <2>5
<1> QED
  BY <1>1, FirstHolds, PTL

\* In such a session the channel is idle and the connection disabled when the client is told,
\* but for a call that fails while it is being started.
THEOREM OutcomeSilences == Spec => [](synthesisRequest <= 1 => OutcomeMeansIdle)
<1>1. FirstInv => (synthesisRequest <= 1 => OutcomeMeansIdle)
  BY DEF FirstInv, FirstStops, Silenced, OutcomeMeansIdle, Finished
<1> QED
  BY <1>1, FirstHolds, PTL

\* The constructor's pointer is left before the first connection is stored.
Wild == connection = Garbage => ~Stored /\ synthesisRequest <= 1

LEMMA WildInit == Init => Wild /\ NoWildPointer
BY SynthesisAssumption DEF Init, Wild, Stored, NoWildPointer, None

\* A stop that follows it was posted by the error of a call that was not stored yet.
LEMMA WildStep ==
  Typed /\ Succession /\ FirstInv /\ Wild /\ NoWildPointer /\ [Next]_vars => Wild' /\ NoWildPointer'
<1> SUFFICES ASSUME Typed, Succession, FirstInv, Wild, NoWildPointer, [Next]_vars
             PROVE  Wild' /\ NoWildPointer'
  OBVIOUS
<1>t. /\ MaxSpeaks \in Nat /\ synthesisRequest \in 0 .. MaxSpeaks /\ Garbage = MaxSpeaks + 1
      /\ synthesisRequest # Garbage
      /\ mrcp \in {"idle", "accepted", "calling", "stored", "started", "stopping"}
  BY SynthesisAssumption DEF Typed, TypeOK, Garbage
<1>1. Wild'
  <2> SUFFICES ASSUME connection' = Garbage PROVE ~Stored' /\ synthesisRequest' <= 1
    BY DEF Wild, Garbage
  <2>1. ~StoreConnection
    BY <1>t DEF StoreConnection
  <2>2. connection = Garbage
    BY <2>1 DEF Next, Client, OnOpen, OnClose, ProcessOther, ProcessSynthesis, ProcessStop, Mrcp,
         StartConnection, SetSynthesis, RespondInProgress, RespondStop, EventLoop,
         RunStop, RunIdle, RunSend, Proceed, Chunk, Advance, StartCall, LastRead, EndCall,
         Media, Tick, Fill, CheckState, CheckSynthComplete, SendResultEvent,
         Worker, OnVoice, OnVoiceAppend, OnVoiceEnd, OnError, SendErrorEvent, vars, request
  <2>3. ~Stored /\ synthesisRequest <= 1 /\ mrcp # "stored"
    BY <1>t, <2>2 DEF Wild, Stored, Succession
  <2>4. CASE ProcessSynthesis
    <3>1. synthesisRequest = None
      BY <2>3, <2>4 DEF ProcessSynthesis, Ready, Stored
    <3> QED
      BY <2>4, <3>1 DEF ProcessSynthesis, None, Stored
  <2>5. CASE UNCHANGED <<mrcp, synthesisRequest>>
    BY <2>3, <2>5 DEF Stored
  <2>6. ASSUME Mrcp \/ ProcessStop
        PROVE  synthesisRequest' <= 1 /\ ~Stored'
    BY <2>1, <2>3, <2>6
       DEF Mrcp, StartConnection, SetSynthesis, RespondInProgress, RespondStop, ProcessStop,
           Ready, InProgress, Stored, request, Succession
  <2>7. ProcessSynthesis \/ Mrcp \/ ProcessStop \/ UNCHANGED <<mrcp, synthesisRequest>>
    BY DEF Next, Client, OnOpen, OnClose, ProcessOther, EventLoop,
         RunStop, RunIdle, RunSend, Proceed, Chunk, Advance, StartCall, LastRead, EndCall,
         Media, Tick, Fill, CheckState, CheckSynthComplete, SendResultEvent,
         Worker, OnVoice, OnVoiceAppend, OnVoiceEnd, OnError, SendErrorEvent, vars, request
  <2> QED
    BY <2>4, <2>5, <2>6, <2>7
<1>2. NoWildPointer'
  <2> SUFFICES ASSUME crashed' PROVE 1 \in early'
    BY DEF NoWildPointer
  <2>1. early \subseteq early'
    BY DEF Next, Client, OnOpen, OnClose, ProcessOther, ProcessSynthesis, ProcessStop, Mrcp,
         StartConnection, StoreConnection, SetSynthesis, RespondInProgress, RespondStop, EventLoop,
         RunStop, RunIdle, RunSend, Proceed, Chunk, Advance, StartCall, LastRead, EndCall,
         Media, Tick, Fill, CheckState, CheckSynthComplete, SendResultEvent,
         Worker, OnVoice, OnVoiceAppend, OnVoiceEnd, OnError, SendErrorEvent, vars, grpc
  <2>2. CASE crashed
    BY <2>1, <2>2 DEF NoWildPointer
  <2>3. CASE ~crashed
    <3>1. (ProcessStop \/ RunStop) /\ connection = Garbage
      BY <2>3 DEF Next, Client, OnOpen, OnClose, ProcessOther, ProcessSynthesis, ProcessStop, Mrcp,
         StartConnection, StoreConnection, SetSynthesis, RespondInProgress, RespondStop, EventLoop,
         RunStop, RunIdle, RunSend, Proceed, Chunk, Advance, StartCall, LastRead, EndCall,
         Media, Tick, Fill, CheckState, CheckSynthComplete, SendResultEvent, DisableConnection,
         Worker, OnVoice, OnVoiceAppend, OnVoiceEnd, OnError, SendErrorEvent, vars
    <3>2. ~ProcessStop
      BY <1>t, <3>1 DEF ProcessStop, Ready, InProgress, Succession
    <3>3. /\ ~Stored /\ synthesisRequest <= 1 /\ Unstored /\ FirstPosts
          /\ Occurs(Posted, StopClosures)
      BY <3>1, <3>2, StopIsPosted DEF Wild, FirstInv
    <3>4. synthesisRequest \in early /\ synthesisRequest = 1
      BY <1>t, <3>3 DEF Unstored, FirstPosts, Called, None
    <3> QED
      BY <2>1, <3>4
  <2> QED
    BY <2>2, <2>3
<1> QED
  BY <1>1, <1>2

\* In sessions of any number of SPEAKs, the constructor's pointer is followed only by the stop of
\* a first call that failed while it was being started.
THEOREM OnlyEarlyFailureIsWild == Spec => []NoWildPointer
BY WildInit, WildStep, TypeInit, TypeStep, SuccessionInit, SuccessionStep, FirstInit, FirstStep, PTL
   DEF Spec

-----------------------------------------------------------------------------
(* The order of the audio.                                                  *)

\* The first connection calls back no more when there is a second SPEAK ...
FirstOver == synthesisRequest = 2 => Ended(1)

\* ... so that the units came connection by connection and what a callback is about to append
\* comes last.
OneByOne ==
    synthesisRequest <= 2 =>
        /\ \A m, n \in DOMAIN owner : m < n => owner[m] <= owner[n]
        /\ worker.at # "next" => \A n \in DOMAIN owner : owner[n] <= worker.conn

LEMMA OrderInit == Init => FirstOver /\ OneByOne
BY DEF Init, FirstOver, OneByOne, Idle, None

\* FirstOver holds because the first SPEAK has its outcome before there is a second one.
LEMMA FirstOverStep ==
  Typed /\ Succession /\ FirstInv /\ FirstOver /\ [Next]_vars => FirstOver'
<1> SUFFICES ASSUME Typed, Succession, FirstInv, FirstOver, [Next]_vars, synthesisRequest' = 2
             PROVE  Ended(1)'
  BY DEF FirstOver
<1>t. /\ MaxSpeaks \in Nat /\ synthesisRequest \in 0 .. MaxSpeaks
      /\ delivered \in Seq(Closure) /\ queue \in Seq(Closure)
  BY SynthesisAssumption DEF Typed, TypeOK
<1>1. 1 \in Speak
  BY <1>t, TypeStep DEF Typed, TypeOK, Speak
<1>2. CASE synthesisRequest = 2
  <2>1. ~(StartConnection /\ 1 = synthesisRequest)
    BY <1>2
  <2> QED
    BY <1>1, <1>2, <2>1, EndedStays DEF FirstOver
<1>3. CASE ProcessSynthesis /\ synthesisRequest = 1
  <2>1. Finished(1)
    BY <1>3 DEF ProcessSynthesis, InProgress, None
  <2>2. Occurs(delivered, AllOutcomes)
    <3>1. \A i \in DOMAIN delivered : delivered[i] \in Closure
      BY <1>t
    <3> QED
      BY <2>1, <3>1 DEF Finished, Occurs, AllOutcomes
  <2>3. Occurs(Posted, AllOutcomes)
    BY <2>2, PostedParts
  <2>4. Ended(1)
    BY <1>3, <2>3 DEF FirstInv, FirstPosts
  <2>5. ~StartConnection
    BY <1>3 DEF ProcessSynthesis, StartConnection, Ready
  <2> QED
    BY <1>1, <2>4, <2>5, EndedStays
<1>4. \/ synthesisRequest' = synthesisRequest
      \/ ProcessSynthesis /\ synthesisRequest' = synthesisRequest + 1
  BY Zenon, RequestSteps
<1> QED
  BY <1>2, <1>3, <1>4, <1>t

\* OneByOne is inductive: a callback that begins is that of the current connection, whose
\* units come last.
LEMMA OneByOneStep ==
  Typed /\ Succession /\ OwnersKnown /\ FirstOver /\ OneByOne /\ [Next]_vars => OneByOne'
<1> SUFFICES ASSUME Typed, Succession, OwnersKnown, FirstOver, OneByOne, [Next]_vars,
                    synthesisRequest' <= 2
             PROVE  /\ \A m, n \in DOMAIN owner' : m < n => owner'[m] <= owner'[n]
                    /\ worker'.at # "next" => \A n \in DOMAIN owner' : owner'[n] <= worker'.conn
  BY DEF OneByOne
<1>t. /\ MaxSpeaks \in Nat /\ synthesisRequest \in 0 .. MaxSpeaks /\ owner \in Seq(Speak)
  BY SynthesisAssumption DEF Typed, TypeOK
<1>s. synthesisRequest <= 2
  BY <1>t, RequestSteps
<1>o. /\ \A m, n \in DOMAIN owner : m < n => owner[m] <= owner[n]
      /\ worker.at # "next" => \A n \in DOMAIN owner : owner[n] <= worker.conn
  BY <1>s DEF OneByOne
<1>1. CASE UNCHANGED <<worker, owner>>
  BY <1>o, <1>1
<1>2. CASE worker'.at = "next" /\ owner' = owner
  BY <1>o, <1>2
<1>3. CASE worker.at # "next" /\ worker'.conn = worker.conn /\ owner' = owner
  BY <1>o, <1>3
<1>4. ASSUME NEW c \in Speak, active[c], call[c] \in {"read", "finish"}, worker'.conn = c,
             owner' = owner
      PROVE  /\ \A m, n \in DOMAIN owner' : m < n => owner'[m] <= owner'[n]
             /\ worker'.at # "next" => \A n \in DOMAIN owner' : owner'[n] <= worker'.conn
  <2>1. c <= synthesisRequest /\ c \in Nat /\ c >= 1 /\ ~Ended(c)
    BY <1>4 DEF Succession, Ended, Speak
  <2>2. c = synthesisRequest
    BY <1>t, <1>s, <2>1 DEF FirstOver
  <2> QED
    BY <1>o, <1>4, <2>2 DEF OwnersKnown
<1>5. ASSUME NEW length \in ChunkLengths, OnVoiceAppend(length)
      PROVE  /\ \A m, n \in DOMAIN owner' : m < n => owner'[m] <= owner'[n]
             /\ worker'.at # "next" => \A n \in DOMAIN owner' : owner'[n] <= worker'.conn
  <2>1. /\ worker.at # "next" /\ worker'.at = "next"
        /\ owner \in Seq(Speak) /\ owner' \in Seq(Speak)
        /\ \A n \in DOMAIN owner' : IF n <= Len(owner) THEN owner'[n] = owner[n]
                                                       ELSE owner'[n] = worker.conn
    BY <1>5, OwnersAppended
  <2>2. worker.conn \in Nat
    BY <2>1 DEF Typed, Speak
  <2>3. ASSUME NEW m \in DOMAIN owner', NEW n \in DOMAIN owner', m < n
        PROVE  owner'[m] <= owner'[n]
    <3>1. m \in Nat /\ n \in Nat /\ Len(owner) \in Nat /\ m >= 1 /\ n >= 1
          /\ DOMAIN owner = 1 .. Len(owner)
      BY <2>1
    <3>2. CASE n <= Len(owner)
      <4>1. m \in DOMAIN owner /\ n \in DOMAIN owner /\ m <= Len(owner)
        BY <2>3, <3>1, <3>2
      <4> QED
        BY <1>o, <2>1, <2>3, <3>2, <4>1
    <3>3. CASE ~(n <= Len(owner))
      <4>1. owner'[n] = worker.conn
        BY <2>1, <2>3, <3>3
      <4>2. CASE m <= Len(owner)
        <5>1. m \in DOMAIN owner /\ owner'[m] = owner[m]
          BY <2>1, <2>3, <3>1, <4>2
        <5> QED
          BY <1>o, <2>1, <4>1, <5>1
      <4>3. CASE ~(m <= Len(owner))
        <5>1. owner'[m] = worker.conn
          BY <2>1, <2>3, <4>3
        <5> QED
          BY <2>2, <4>1, <5>1
      <4> QED
        BY <4>2, <4>3
    <3> QED
      BY <3>2, <3>3
  <2> QED
    BY <2>1, <2>3
<1> QED
  BY <1>1, <1>2, <1>3, <1>4, <1>5, CallbackSteps

\* The audio the client hears is the audio the service sent, in order; and that of the first
\* SPEAK before that of the second.
THEOREM AudioKeepsOrder == Spec => []AudioInOrder
<1>1. UnitsKept /\ OneByOne => AudioInOrder
  BY DEF AudioInOrder, UnitsKept, OneByOne
<1> QED
  BY <1>1, TypeInit, TypeStep, SuccessionInit, SuccessionStep, UnitsStep, OwnersStep,
     FirstInit, FirstStep, OrderInit, FirstOverStep, OneByOneStep, PTL DEF Spec

-----------------------------------------------------------------------------
(* Why a SPEAK is silenced, in sessions of any number of SPEAKs and with STOP. *)

\* The stop is posted and its outcome is being posted.
Pending == media = "complete" \/ worker.at = "failed"

\* Before the first SPEAK nothing is under way ...
Quiet ==
    /\ state = "idle" /\ mrcp = "idle" /\ loop = "next" /\ worker.at = "next"
    /\ media \notin {"check", "complete"}
    /\ \A c \in Speak : call[c] = "none"
    /\ ~Occurs(queue, StopClosures)

\* ... an outcome that waits is that of a SPEAK so far ...
WaitingOutcomes ==
    \A i \in DOMAIN queue : queue[i].message \in Final =>
        /\ queue[i].kind = "send"
        /\ queue[i].request \in Speak /\ queue[i].request <= synthesisRequest

\* ... and after every stop that waits or is at work comes an outcome, or one is being posted.
StopsAnswered ==
    \/ Pending
    \/ /\ \A i \in DOMAIN queue : queue[i].kind = "stop" =>
              \E j \in DOMAIN queue : i < j /\ queue[j].message \in Final
       /\ loop = "idle" => \E j \in DOMAIN queue : queue[j].message \in Final

\* Something that silences the current SPEAK has happened or is going to ...
Hit ==
    \/ mrcp \in {"calling", "stored", "started", "idle"} /\ ~active[synthesisRequest]
    \/ mrcp \in {"started", "idle"} /\ state # "synthesis"

Trouble == Hit \/ Occurs(queue, StopClosures) \/ loop = "idle"

\* ... only if it has an outcome, or is about to, or an earlier one was given two.
Excuse ==
    \/ Occurs(Posted, OutcomesOf(synthesisRequest))
    \/ Pending
    \/ \E q \in Speak : q < synthesisRequest /\ ~AtMostOnce(Posted, OutcomesOf(q))

Leftover ==
    /\ synthesisRequest = None => Quiet
    /\ WaitingOutcomes
    /\ StopsAnswered
    /\ synthesisRequest \in Speak /\ Trouble => Excuse

LEMMA LeftoverInit == Init => Leftover
<1> SUFFICES ASSUME Init PROVE Leftover
  OBVIOUS
<1>1. queue = <<>> /\ DOMAIN queue = {} /\ synthesisRequest = None /\ None \notin Speak
  BY DEF Init, None, Speak
<1>2. Quiet
  BY <1>1 DEF Init, Quiet, Occurs, Idle
<1>3. WaitingOutcomes /\ StopsAnswered
  BY <1>1 DEF Init, WaitingOutcomes, StopsAnswered
<1> QED
  BY <1>1, <1>2, <1>3 DEF Leftover

\* What is being posted is posted.
LEMMA PendingEnds ==
  ASSUME Typed, [Next]_vars, Pending, ~Pending', synthesisRequest # None
  PROVE  \E message \in Final : Post(Send(message, synthesisRequest))
<1>1. \/ SendResultEvent /\ queue' = Append(queue, Send("complete", synthesisRequest))
      \/ SendErrorEvent /\ queue' = Append(queue, Send("error", synthesisRequest))
  <2>1. CASE media = "complete" /\ media' # "complete"
    <3>1. SendResultEvent
      BY <2>1 DEF Next, Client, OnOpen, OnClose, ProcessOther, ProcessSynthesis, ProcessStop, Mrcp,
         StartConnection, StoreConnection, SetSynthesis, RespondInProgress, RespondStop, EventLoop,
         RunStop, RunIdle, RunSend, Proceed, Chunk, Advance, StartCall, LastRead, EndCall,
         Media, Tick, Fill, CheckState, CheckSynthComplete,
         Worker, OnVoice, OnVoiceAppend, OnVoiceEnd, OnError, SendErrorEvent, vars
    <3> QED
      BY <3>1 DEF SendResultEvent
  <2>2. CASE worker.at = "failed" /\ worker'.at # "failed"
    <3>1. SendErrorEvent
      <4>1. ~Proceed
        BY <2>2 DEF Proceed, Chunk, Advance, StartCall, LastRead, EndCall, Complete, Idle
      <4>2. ~OnVoice /\ ~OnVoiceEnd /\ ~OnError /\ \A length \in ChunkLengths : ~OnVoiceAppend(length)
        BY <2>2 DEF OnVoice, OnVoiceEnd, OnError, OnVoiceAppend, At
      <4> QED
        BY <2>2, <4>1, <4>2
           DEF Next, Client, OnOpen, OnClose, ProcessOther, ProcessSynthesis, ProcessStop, Mrcp,
           StartConnection, StoreConnection, SetSynthesis, RespondInProgress, RespondStop,
           EventLoop, RunStop, RunIdle, RunSend, Media, Tick, Fill, CheckState,
           CheckSynthComplete, SendResultEvent, Worker, vars
    <3> QED
      BY <3>1 DEF SendErrorEvent
  <2> QED
    BY <2>1, <2>2 DEF Pending
<1> QED
  BY <1>1 DEF Post, Final

\* Nothing happens before the first SPEAK.
LEMMA QuietStep ==
  ASSUME Typed, synthesisRequest = None, Quiet, [Next]_vars, synthesisRequest' = None
  PROVE  Quiet'
<1>t. queue \in Seq(Closure) /\ None \notin Speak
  BY DEF Typed, TypeOK, None, Speak
<1>1. ASSUME NEW message \in {"opened", "closed", "response"}, Post(Send(message, None))
      PROVE  ~Occurs(queue', StopClosures)
  <2>1. Send(message, None) \in Closure
    BY ClosureTypes, SynthesisAssumption DEF Message, None
  <2>2. Send(message, None) \notin StopClosures
    BY DEF Send, StopClosures
  <2>3. queue' = Append(queue, Send(message, None))
    BY <1>1 DEF Post
  <2> QED
    BY <1>t, <2>1, <2>2, <2>3, KindsOfAppend DEF Quiet
<1>2. OnOpen \/ OnClose \/ ProcessOther => ~Occurs(queue', StopClosures)
  BY <1>1 DEF OnOpen, OnClose, ProcessOther
<1>3. RunSend => ~Occurs(queue', StopClosures)
  BY <1>t, KindsOfTail DEF RunSend, Quiet
<1>4. ~ProcessSynthesis /\ ~ProcessStop /\ ~Mrcp
  BY <1>t, SynthesisAssumption
     DEF Typed, TypeOK, ProcessSynthesis, ProcessStop, InProgress, Mrcp, StartConnection, StoreConnection,
         SetSynthesis, RespondInProgress, RespondStop, Quiet, None
<1>5. ~RunIdle /\ ~CheckSynthComplete /\ ~SendResultEvent /\ ~Worker
  BY DEF RunIdle, CheckSynthComplete, SendResultEvent, Worker, OnVoice, OnVoiceAppend, OnVoiceEnd,
         OnError, SendErrorEvent, At, Quiet
<1>6. ~Proceed
  BY DEF Proceed, Chunk, Advance, StartCall, LastRead, EndCall, Complete, Quiet
<1>7. ~RunStop
  <2>1. queue # <<>> => Occurs(queue, StopClosures) \/ Head(queue) \notin StopClosures
    BY <1>t, KindsOfTail
  <2>2. queue # <<>> => Head(queue) \in Closure
    BY <1>t, HeadTailProperties
  <2> QED
    BY <2>1, <2>2 DEF Quiet, RunStop, StopClosures
<1>8. Occurs(queue, StopClosures)' <=> Occurs(queue', StopClosures)
  BY DEF Occurs, StopClosures
<1> QED
  BY <1>2, <1>3, <1>4, <1>5, <1>6, <1>7, <1>8
     DEF Next, Client, OnOpen, OnClose, ProcessOther, EventLoop, RunSend, Media, Tick, Fill,
         CheckState, grpc, vars, Quiet

\* Outcomes are posted for the current SPEAK.
LEMMA WaitingStep ==
  ASSUME Typed, synthesisRequest = None => Quiet, WaitingOutcomes, [Next]_vars
  PROVE  WaitingOutcomes'
<1>t. /\ synthesisRequest \in 0 .. MaxSpeaks /\ synthesisRequest' \in 0 .. MaxSpeaks
      /\ synthesisRequest <= synthesisRequest' /\ MaxSpeaks \in Nat
  <2>1. synthesisRequest' = synthesisRequest \/ synthesisRequest' = synthesisRequest + 1
    BY RequestSteps
  <2>2. synthesisRequest \in 0 .. MaxSpeaks
    BY DEF Typed, TypeOK
  <2>3. synthesisRequest' \in 0 .. MaxSpeaks
    BY TypeStep DEF Typed, TypeOK
  <2> QED
    BY <2>1, <2>2, <2>3, SynthesisAssumption
<1>r. \A r \in Speak : r <= synthesisRequest => r <= synthesisRequest'
  BY <1>t DEF Speak
<1>1. CASE queue' = queue
  BY <1>1, <1>r DEF WaitingOutcomes
<1>2. CASE RunSend \/ RunStop
  <2>1. queue # <<>> /\ queue' = Tail(queue)
    BY <1>2 DEF RunSend, RunStop
  <2>2. \A i \in DOMAIN queue' : i + 1 \in DOMAIN queue /\ queue'[i] = queue[i + 1]
    BY <2>1, QueueShrinks
  <2> QED
    BY <1>r, <2>2 DEF WaitingOutcomes
<1>3. ASSUME NEW closure \in Closure, Post(closure), Postable(closure) PROVE WaitingOutcomes'
  <2>1. /\ DOMAIN queue' = 1 .. Len(queue) + 1 /\ DOMAIN queue = 1 .. Len(queue)
        /\ Len(queue) \in Nat
        /\ \A i \in 1 .. Len(queue) : queue'[i] = queue[i]
        /\ queue'[Len(queue) + 1] = closure
    BY <1>3, QueueGrows
  <2>2. ASSUME closure.message \in Final
        PROVE  /\ closure.request = synthesisRequest /\ synthesisRequest # None
               /\ closure.kind = "send"
    BY <1>3, <2>2 DEF Postable, Quiet, Send, Stop, Final
  <2>3. synthesisRequest # None => synthesisRequest \in Speak
    BY <1>t DEF Speak, None
  <2>4. closure.message \in Final => /\ closure.kind = "send"
                                     /\ closure.request \in Speak
                                     /\ closure.request <= synthesisRequest'
    BY <1>t, <2>2, <2>3
  <2> QED
    BY <1>r, <2>1, <2>4 DEF WaitingOutcomes
<1> QED
  BY <1>1, <1>2, <1>3, QueueSteps

\* A stop that is posted makes its outcome pending, and the outcome is posted behind it.
LEMMA AnsweredStep ==
  ASSUME Typed, synthesisRequest = None => Quiet, StopsAnswered, [Next]_vars
  PROVE  StopsAnswered'
<1> SUFFICES ASSUME ~Pending' PROVE StopsAnswered'
  BY DEF StopsAnswered
<1>1. CASE Pending
  <2>1. synthesisRequest # None
    BY <1>1 DEF Pending, Quiet
  <2>2. PICK message \in Final : Post(Send(message, synthesisRequest))
    BY <1>1, <2>1, PendingEnds
  <2>3. Send(message, synthesisRequest) \in Closure
    BY <2>2, ClosureTypes DEF Typed, TypeOK, Message
  <2>4. /\ DOMAIN queue' = 1 .. Len(queue) + 1 /\ DOMAIN queue = 1 .. Len(queue)
        /\ Len(queue) \in Nat
        /\ queue'[Len(queue) + 1] = Send(message, synthesisRequest)
    BY <2>2, <2>3, QueueGrows
  <2>5. Len(queue) + 1 \in DOMAIN queue' /\ queue'[Len(queue) + 1].message \in Final
        /\ queue'[Len(queue) + 1].kind = "send"
    BY <2>4 DEF Send
  <2>6. \A i \in DOMAIN queue' : i # Len(queue) + 1 => i < Len(queue) + 1
    BY <2>4
  <2> QED
    BY <2>5, <2>6 DEF StopsAnswered
<1>2. CASE ~Pending /\ queue' = queue
  <2>1. loop' = "idle" => loop = "idle"
    <3>1. ~RunStop
      <4>1. queue # <<>> => Len(Tail(queue)) = Len(queue) - 1 /\ Len(queue) \in Nat
        BY HeadTailProperties DEF Typed, TypeOK
      <4> QED
        BY <1>2, <4>1 DEF RunStop
    <3> QED
      BY <3>1 DEF Next, Client, OnOpen, OnClose, ProcessOther, ProcessSynthesis, ProcessStop, Mrcp,
         StartConnection, StoreConnection, SetSynthesis, RespondInProgress, RespondStop, EventLoop,
         RunIdle, RunSend, Proceed, Chunk, Advance, StartCall, LastRead, EndCall,
         Media, Tick, Fill, CheckState, CheckSynthComplete, SendResultEvent,
         Worker, OnVoice, OnVoiceAppend, OnVoiceEnd, OnError, SendErrorEvent, vars
  <2> QED
    BY <1>2, <2>1 DEF StopsAnswered
<1>3. CASE ~Pending /\ (RunSend \/ RunStop)
  <2>1. queue # <<>> /\ queue' = Tail(queue)
    BY <1>3 DEF RunSend, RunStop
  <2>2. /\ Head(queue) = queue[1] /\ 1 \in DOMAIN queue
        /\ \A i \in DOMAIN queue' :
              i \in Nat /\ i + 1 \in DOMAIN queue /\ queue'[i] = queue[i + 1]
        /\ \A i \in DOMAIN queue : i \in Nat /\ (i = 1 \/ i - 1 \in DOMAIN queue')
    BY <2>1, QueueShrinks
  <2>3. \A i \in DOMAIN queue : queue[i].kind = "stop" =>
            \E j \in DOMAIN queue : i < j /\ queue[j].message \in Final
    BY <1>3 DEF StopsAnswered
  <2>4. ASSUME NEW i \in DOMAIN queue, NEW j \in DOMAIN queue, i < j, queue[j].message \in Final
        PROVE  j - 1 \in DOMAIN queue' /\ queue'[j - 1].message \in Final /\ i - 1 < j - 1
    <3>1. i \in Nat /\ j \in Nat /\ j # 1
      <4>1. i \in Nat /\ j \in Nat /\ (i = 1 \/ i - 1 \in DOMAIN queue')
        BY <2>2
      <4>2. i # 1 => i - 1 \in Nat
        BY <2>2, <4>1
      <4> QED
        BY <2>4, <4>1, <4>2
    <3>2. j - 1 \in DOMAIN queue' /\ (j - 1) + 1 = j
      BY <2>2, <3>1
    <3>3. queue'[j - 1] = queue[j]
      BY <2>2, <3>2
    <3> QED
      BY <2>4, <3>1, <3>2, <3>3
  <2>5. ASSUME NEW i \in DOMAIN queue', queue'[i].kind = "stop"
        PROVE  \E j \in DOMAIN queue' : i < j /\ queue'[j].message \in Final
    <3>1. i \in Nat /\ i + 1 \in DOMAIN queue /\ queue[i + 1].kind = "stop"
      BY <2>2, <2>5
    <3>2. PICK j \in DOMAIN queue : i + 1 < j /\ queue[j].message \in Final
      BY <2>3, <3>1
    <3>3. j - 1 \in DOMAIN queue' /\ queue'[j - 1].message \in Final /\ (i + 1) - 1 < j - 1
      BY <2>4, <3>1, <3>2
    <3> QED
      BY <3>1, <3>3
  <2>6. ASSUME loop' = "idle" PROVE \E j \in DOMAIN queue' : queue'[j].message \in Final
    <3>1. Head(queue).kind = "stop"
      BY <1>3, <2>6 DEF RunSend, RunStop
    <3>2. PICK j \in DOMAIN queue : 1 < j /\ queue[j].message \in Final
      BY <2>2, <2>3, <3>1
    <3> QED
      BY <2>2, <2>4, <3>2
  <2> QED
    BY <2>5, <2>6 DEF StopsAnswered
<1>4. ASSUME NEW closure \in Closure, ~Pending, Post(closure), Postable(closure)
      PROVE  StopsAnswered'
  <2>1. /\ DOMAIN queue' = 1 .. Len(queue) + 1 /\ DOMAIN queue = 1 .. Len(queue)
        /\ Len(queue) \in Nat
        /\ \A i \in 1 .. Len(queue) : queue'[i] = queue[i]
        /\ queue'[Len(queue) + 1] = closure
    BY <1>4, QueueGrows
  <2>2. closure.kind # "stop"
    BY <1>4 DEF Postable, Pending, Stop, Send
  <2>3. /\ \A i \in DOMAIN queue' : queue'[i].kind = "stop" =>
              i \in DOMAIN queue /\ queue[i].kind = "stop"
        /\ \A i \in DOMAIN queue : i \in DOMAIN queue' /\ queue'[i] = queue[i]
    BY <2>1, <2>2
  <2>4. loop' = "idle" => loop = "idle"
    <3>1. ~RunStop
      <4>1. queue # <<>> => Len(Tail(queue)) = Len(queue) - 1 /\ Len(queue) \in Nat
        BY HeadTailProperties DEF Typed, TypeOK
      <4>2. Len(queue') = Len(queue) + 1 /\ Len(queue) \in Nat
        BY <1>4, QueueGrows
      <4> QED
        BY <4>1, <4>2 DEF RunStop
    <3> QED
      BY <3>1 DEF Next, Client, OnOpen, OnClose, ProcessOther, ProcessSynthesis, ProcessStop, Mrcp,
         StartConnection, StoreConnection, SetSynthesis, RespondInProgress, RespondStop, EventLoop,
         RunIdle, RunSend, Proceed, Chunk, Advance, StartCall, LastRead, EndCall,
         Media, Tick, Fill, CheckState, CheckSynthComplete, SendResultEvent,
         Worker, OnVoice, OnVoiceAppend, OnVoiceEnd, OnError, SendErrorEvent, vars
  <2> QED
    BY <1>4, <2>3, <2>4 DEF StopsAnswered
<1> QED
  BY <1>1, <1>2, <1>3, <1>4, QueueSteps

\* An outcome that is posted for the current SPEAK is one.
LEMMA PostsExcuse ==
  ASSUME Typed, [Next]_vars, NEW message \in Final, Post(Send(message, synthesisRequest)),
         synthesisRequest' = synthesisRequest
  PROVE  Excuse'
<1> DEFINE closure == Send(message, synthesisRequest)
<1>t. queue \in Seq(Closure) /\ synthesisRequest \in 0 .. MaxSpeaks
  BY DEF Typed, TypeOK
<1>1. closure \in Closure
  BY <1>t, ClosureTypes DEF Message
<1>2. closure \in OutcomesOf(synthesisRequest)
  BY <1>1 DEF OutcomesOf, Send
<1>3. queue' \in Seq(Closure) /\ delivered' \in Seq(Closure)
  BY TypeStep DEF Typed, TypeOK
<1>4. Occurs(queue', OutcomesOf(synthesisRequest))
  <2>1. queue' = Append(queue, closure)
    BY DEF Post
  <2> QED
    BY <1>t, <1>1, <1>2, <2>1, KindsOfAppend
<1>5. Occurs(delivered' \o queue', OutcomesOf(synthesisRequest))
  <2>1. PICK d \in Seq(Closure), q \in Seq(Closure) : d = delivered' /\ q = queue'
    BY <1>3
  <2>2. Occurs(d \o q, OutcomesOf(synthesisRequest))
    BY <1>4, <2>1, KindsOfConcat
  <2> QED
    BY <2>1, <2>2
<1>6. Occurs(Posted, OutcomesOf(synthesisRequest))'
  BY <1>5 DEF Occurs, OutcomesOf, Posted
<1> QED
  BY <1>6 DEF Excuse

\* What excuses the trouble of a SPEAK stays while it is the current one: no outcome is lost.
LEMMA ExcuseStays ==
  ASSUME Typed, WaitingOutcomes, [Next]_vars, synthesisRequest # None, Excuse,
         synthesisRequest' = synthesisRequest
  PROVE  Excuse'
<1>t. /\ delivered \in Seq(Closure) /\ queue \in Seq(Closure) /\ Posted \in Seq(Closure)
      /\ synthesisRequest \in 0 .. MaxSpeaks
  BY PostedSteps DEF Typed, TypeOK
<1>1. ASSUME NEW r
      PROVE  /\ Occurs(Posted, OutcomesOf(r)) => Occurs(Posted', OutcomesOf(r))
             /\ AtMostOnce(Posted', OutcomesOf(r)) => AtMostOnce(Posted, OutcomesOf(r))
  <2>1. CASE RunStop
    <3>1. queue # <<>> /\ Head(queue).kind = "stop" /\ Posted' = delivered \o Tail(queue)
      BY <2>1 DEF RunStop, Posted
    <3>2. Head(queue) \notin OutcomesOf(r)
      <4>1. Head(queue) = queue[1] /\ 1 \in DOMAIN queue
        BY <1>t, <3>1, HeadTailProperties, EmptySeq
      <4> QED
        BY <3>1, <4>1 DEF WaitingOutcomes, OutcomesOf
    <3>3. /\ Occurs(delivered \o queue, OutcomesOf(r))
                => Occurs(delivered \o Tail(queue), OutcomesOf(r)) \/ Head(queue) \in OutcomesOf(r)
          /\ AtMostOnce(delivered \o Tail(queue), OutcomesOf(r)) /\ Head(queue) \notin OutcomesOf(r)
                => AtMostOnce(delivered \o queue, OutcomesOf(r))
      BY <1>t, <3>1, KindsOfDrop
    <3> QED
      BY <3>1, <3>2, <3>3 DEF Posted
  <2>2. ASSUME NEW closure \in Closure, Posted' = Append(Posted, closure)
        PROVE  /\ Occurs(Posted, OutcomesOf(r)) => Occurs(Posted', OutcomesOf(r))
               /\ AtMostOnce(Posted', OutcomesOf(r)) => AtMostOnce(Posted, OutcomesOf(r))
    BY <1>t, <2>2, KindsOfAppend
  <2>3. CASE Posted' = Posted
    BY <2>3
  <2> QED
    BY <2>1, <2>2, <2>3, PostedSteps
<1>2. ASSUME NEW r
      PROVE  /\ Occurs(Posted', OutcomesOf(r)) => Occurs(Posted, OutcomesOf(r))'
             /\ AtMostOnce(Posted, OutcomesOf(r))' => AtMostOnce(Posted', OutcomesOf(r))
  BY DEF Occurs, AtMostOnce, OutcomesOf
<1>3. CASE Occurs(Posted, OutcomesOf(synthesisRequest))
  <2>1. PICK r : r = synthesisRequest
    OBVIOUS
  <2>2. Occurs(Posted, OutcomesOf(r))'
    BY <1>1, <1>2, <1>3, <2>1
  <2> QED
    BY <2>1, <2>2 DEF Excuse, Occurs, OutcomesOf
<1>4. CASE Pending
  <2>1. CASE ~Pending'
    <3>1. PICK message \in Final : Post(Send(message, synthesisRequest))
      BY <1>4, <2>1, PendingEnds
    <3> QED
      BY <3>1, PostsExcuse
  <2> QED
    BY <2>1 DEF Excuse
<1>5. ASSUME NEW q \in Speak, q < synthesisRequest, ~AtMostOnce(Posted, OutcomesOf(q))
      PROVE  Excuse'
  <2>1. ~AtMostOnce(Posted, OutcomesOf(q))'
    BY <1>1, <1>2, <1>5
  <2> QED
    BY <1>5, <2>1 DEF Excuse
<1> QED
  BY <1>3, <1>4, <1>5 DEF Excuse

\* Trouble comes from a stop that is posted, which has an outcome coming, or from an outcome.
LEMMA TroubleStep ==
  ASSUME Typed, Succession, [Next]_vars, synthesisRequest # None,
         synthesisRequest' = synthesisRequest, Trouble'
  PROVE  Trouble \/ Excuse'
<1>t. /\ synthesisRequest \in Speak /\ active \in [Speak -> BOOLEAN] /\ queue \in Seq(Closure)
      /\ state \in {"idle", "synthesis"}
  BY SynthesisAssumption DEF Typed, TypeOK, Speak, None
<1> SUFFICES ASSUME ~Trouble, ~Excuse' PROVE FALSE
  OBVIOUS
<1>1. ~Hit /\ ~Occurs(queue, StopClosures) /\ loop # "idle" /\ ~Pending'
  BY DEF Trouble, Excuse
<1>2. \A message \in Final : ~Post(Send(message, synthesisRequest))
  BY PostsExcuse
<1>3. ~RunStop
  <2>1. queue # <<>> => Head(queue) \in Closure /\ Head(queue) \notin StopClosures
    BY <1>t, <1>1, KindsOfTail, HeadTailProperties
  <2> QED
    BY <2>1 DEF RunStop, StopClosures
<1>4. ~RunIdle
  BY <1>1 DEF RunIdle
\* No stop is posted.
<1>5. ~Occurs(queue', StopClosures)
  <2>1. CASE RunSend
    <3>1. queue # <<>> /\ queue' = Tail(queue)
      BY <2>1 DEF RunSend
    <3> QED
      BY <1>t, <1>1, <3>1, KindsOfTail
  <2>2. ASSUME NEW closure \in Closure, Post(closure), Postable(closure)
        PROVE  ~Occurs(queue', StopClosures)
    <3>1. closure \notin StopClosures
      BY <1>1, <2>2 DEF Postable, Pending, StopClosures, Send
    <3>2. queue' = Append(queue, closure)
      BY <2>2 DEF Post
    <3> QED
      BY <1>t, <1>1, <3>1, <3>2, KindsOfAppend
  <2> QED
    BY <1>1, <1>3, <2>1, <2>2, QueueSteps
<1>6. ~Occurs(queue, StopClosures)'
  BY <1>5 DEF Occurs, StopClosures
<1>7. loop' # "idle"
  BY <1>1, <1>3
     DEF Next, Client, OnOpen, OnClose, ProcessOther, ProcessSynthesis, ProcessStop, Mrcp,
         StartConnection, StoreConnection, SetSynthesis, RespondInProgress, RespondStop, EventLoop,
         RunIdle, RunSend, Proceed, Chunk, Advance, StartCall, LastRead, EndCall,
         Media, Tick, Fill, CheckState, CheckSynthComplete, SendResultEvent,
         Worker, OnVoice, OnVoiceAppend, OnVoiceEnd, OnError, SendErrorEvent, vars
\* Nobody makes the channel idle, or disables the connection of the SPEAK.
<1>8. ~Hit'
  <2>1. CASE UNCHANGED <<mrcp, active, state>>
    BY <1>1, <2>1 DEF Hit
  <2>2. ~ProcessSynthesis
    BY <1>t DEF ProcessSynthesis, Speak
  <2>3. CASE ProcessStop
    BY <2>3 DEF ProcessStop, Hit
  <2>4. CASE StartConnection
    <3>1. active'[synthesisRequest] /\ mrcp' = "calling"
      BY <1>t, <2>4 DEF StartConnection
    <3> QED
      BY <3>1 DEF Hit
  <2>5. CASE StoreConnection \/ SetSynthesis \/ RespondInProgress
    <3>1. /\ active' = active
          /\ \/ mrcp = "calling" /\ mrcp' = "stored"
             \/ mrcp = "stored" /\ mrcp' = "started" /\ state' = "synthesis"
             \/ mrcp = "started" /\ mrcp' = "idle" /\ state' = state
      BY <2>5 DEF StoreConnection, SetSynthesis, RespondInProgress, grpc
    <3> QED
      BY <1>1, <3>1 DEF Hit
  <2>6. ~RespondStop
    BY <1>2 DEF RespondStop, Final
  <2>7. \/ UNCHANGED <<mrcp, active, state>>
        \/ ProcessSynthesis \/ ProcessStop \/ StartConnection \/ RespondStop
        \/ StoreConnection \/ SetSynthesis \/ RespondInProgress
    BY <1>3, <1>4
       DEF Next, Client, OnOpen, OnClose, ProcessOther, Mrcp, EventLoop,
           RunSend, Proceed, Chunk, Advance, StartCall, LastRead, EndCall,
           Media, Tick, Fill, CheckState, CheckSynthComplete, SendResultEvent,
           Worker, OnVoice, OnVoiceAppend, OnVoiceEnd, OnError, SendErrorEvent, vars, grpc
  <2> QED
    BY <2>1, <2>2, <2>3, <2>4, <2>5, <2>6, <2>7
<1> QED
  BY <1>6, <1>7, <1>8 DEF Trouble

\* Only a SPEAK that is given two outcomes leaves a stop to the next one.
LEMMA TroubleInherited ==
  ASSUME Typed, Succession, Leftover, [Next]_vars, ProcessSynthesis, Trouble'
  PROVE  Excuse'
<1>t. /\ delivered \in Seq(Closure) /\ queue \in Seq(Closure)
      /\ synthesisRequest \in 0 .. MaxSpeaks /\ MaxSpeaks \in Nat
  BY SynthesisAssumption DEF Typed, TypeOK
<1>1. /\ ~InProgress /\ synthesisRequest' = synthesisRequest + 1 /\ mrcp' = "accepted"
      /\ UNCHANGED <<delivered, queue, loop, media, worker>>
  BY DEF ProcessSynthesis
<1>2. CASE Pending
  BY <1>1, <1>2 DEF Pending, Excuse
<1>3. CASE ~Pending
  <2>1. Occurs(queue, StopClosures) \/ loop = "idle"
    <3>1. Occurs(queue, StopClosures)' => Occurs(queue, StopClosures)
      BY <1>1 DEF Occurs, StopClosures
    <3> QED
      BY <1>1, <3>1 DEF Trouble, Hit
  <2>2. PICK j \in DOMAIN queue : queue[j].message \in Final
    BY <1>3, <2>1 DEF Leftover, StopsAnswered, Occurs, StopClosures
  <2>3. PICK q \in Speak : q = queue[j].request /\ q <= synthesisRequest
    BY <2>2 DEF Leftover, WaitingOutcomes
  <2>4. Finished(q) /\ q < synthesisRequest'
    <3>1. synthesisRequest # None => Finished(synthesisRequest)
      BY <1>1 DEF InProgress
    <3>2. q < synthesisRequest \/ q = synthesisRequest
      BY <1>t, <2>3 DEF Speak
    <3>3. synthesisRequest # None
      BY <1>t, <2>3 DEF Speak, None
    <3>4. q < synthesisRequest + 1
      BY <1>t, <2>3 DEF Speak
    <3> QED
      BY <1>1, <3>1, <3>2, <3>3, <3>4 DEF Succession
  <2>5. Occurs(delivered, OutcomesOf(q))
    <3>1. \A i \in DOMAIN delivered : delivered[i] \in Closure
      BY <1>t
    <3> QED
      BY <2>4, <3>1 DEF Finished, Occurs, OutcomesOf
  <2>6. Occurs(queue, OutcomesOf(q))
    <3>1. queue[j] \in Closure
      BY <1>t, <2>2
    <3> QED
      BY <2>2, <2>3, <3>1 DEF Occurs, OutcomesOf
  <2>7. ~AtMostOnce(delivered \o queue, OutcomesOf(q))
    BY <1>t, <2>5, <2>6, KindsOfConcat
  <2>8. ~AtMostOnce(Posted, OutcomesOf(q))'
    BY <1>1, <2>7 DEF AtMostOnce, OutcomesOf, Posted
  <2> QED
    BY <2>4, <2>8 DEF Excuse
<1> QED
  BY <1>2, <1>3

LEMMA LeftoverStep == Typed /\ Succession /\ Leftover /\ [Next]_vars => Leftover'
<1> SUFFICES ASSUME Typed, Succession, Leftover, [Next]_vars PROVE Leftover'
  OBVIOUS
<1>1. WaitingOutcomes' /\ StopsAnswered'
  BY WaitingStep, AnsweredStep DEF Leftover
<1>2. CASE synthesisRequest' = synthesisRequest
  <2>1. synthesisRequest' = None => Quiet'
    BY <1>2, QuietStep DEF Leftover
  <2>2. ASSUME synthesisRequest' \in Speak, Trouble' PROVE Excuse'
    <3>1. synthesisRequest # None /\ synthesisRequest \in Speak
      BY <1>2, <2>2 DEF Speak, None
    <3>2. Trouble \/ Excuse'
      BY <1>2, <2>2, <3>1, TroubleStep
    <3>3. Trouble => Excuse
      BY <3>1 DEF Leftover
    <3>4. Excuse => Excuse'
      BY <1>2, <3>1, ExcuseStays DEF Leftover
    <3> QED
      BY <3>2, <3>3, <3>4
  <2> QED
    BY <1>1, <2>1, <2>2 DEF Leftover
<1>3. CASE ProcessSynthesis /\ synthesisRequest' = synthesisRequest + 1
  <2>1. synthesisRequest' # None
    BY <1>3 DEF None, Typed, TypeOK
  <2>2. Trouble' => Excuse'
    BY <1>3, TroubleInherited
  <2> QED
    BY <1>1, <2>1, <2>2 DEF Leftover
<1> QED
  BY <1>2, <1>3, RequestSteps

\* What is posted more than once has two outcomes.
LEMMA TwoOutcomes ==
  ASSUME NEW q, Posted \in Seq(Closure), ~AtMostOnce(Posted, OutcomesOf(q))
  PROVE  Cardinality(Outcomes(q)) >= 2
<1>1. PICK i, j \in DOMAIN Posted :
         Posted[i] \in OutcomesOf(q) /\ Posted[j] \in OutcomesOf(q) /\ i # j
  BY DEF AtMostOnce
<1>2. i \in Outcomes(q) /\ j \in Outcomes(q)
  BY <1>1 DEF Outcomes, OutcomesOf
<1>3. IsFiniteSet(Outcomes(q))
  <2>1. DOMAIN Posted = 1 .. Len(Posted) /\ Len(Posted) \in Int /\ 1 \in Int
    OBVIOUS
  <2>2. IsFiniteSet(1 .. Len(Posted))
    BY <2>1, FS_Interval
  <2>3. Outcomes(q) \in SUBSET (1 .. Len(Posted))
    BY <2>1 DEF Outcomes
  <2> QED
    BY <2>2, <2>3, FS_Subset
<1>4. /\ IsFiniteSet(Outcomes(q) \ {i})
      /\ Cardinality(Outcomes(q) \ {i}) = Cardinality(Outcomes(q)) - 1
  BY <1>2, <1>3, FS_RemoveElement
<1>5. Cardinality((Outcomes(q) \ {i}) \ {j}) = Cardinality(Outcomes(q) \ {i}) - 1
      /\ IsFiniteSet((Outcomes(q) \ {i}) \ {j})
  BY <1>1, <1>2, <1>4, FS_RemoveElement
<1>6. /\ Cardinality(Outcomes(q)) \in Nat /\ Cardinality(Outcomes(q) \ {i}) \in Nat
      /\ Cardinality((Outcomes(q) \ {i}) \ {j}) \in Nat
  BY <1>3, <1>4, <1>5, FS_CardinalityType
<1> QED
  BY <1>4, <1>5, <1>6

\* A SPEAK is never silenced but by a stop left over, which takes an earlier SPEAK that was
\* given two outcomes, or one of its own: in a session of any number of SPEAKs, with STOP.
THEOREM SilencedOnlyByLeftover == Spec => []SilencedByLeftoverStop
<1>1. Typed /\ Leftover => SilencedByLeftoverStop
  <2> SUFFICES ASSUME Typed, Leftover, NEW r \in Speak, synthesisRequest = r, mrcp = "idle",
                      ~(active[r] /\ state = "synthesis")
               PROVE  \/ Outcomes(r) # {}
                      \/ media = "complete" \/ worker.at = "failed"
                      \/ \E q \in Speak : q < r /\ Cardinality(Outcomes(q)) >= 2
    BY DEF SilencedByLeftoverStop
  <2>1. Trouble
    BY DEF Trouble, Hit
  <2>2. Excuse
    BY <2>1 DEF Leftover
  <2>3. Posted \in Seq(Closure)
    BY ConcatProperties DEF Typed, TypeOK, Posted
  <2>4. Occurs(Posted, OutcomesOf(r)) => Outcomes(r) # {}
    BY DEF Occurs, OutcomesOf, Outcomes
  <2>5. \A q \in Speak : ~AtMostOnce(Posted, OutcomesOf(q)) => Cardinality(Outcomes(q)) >= 2
    BY <2>3, TwoOutcomes
  <2> QED
    BY <2>2, <2>4, <2>5 DEF Excuse, Pending
<1> QED
  BY <1>1, TypeInit, TypeStep, SuccessionInit, SuccessionStep, LeftoverInit, LeftoverStep, PTL
     DEF Spec
==============================================================================
