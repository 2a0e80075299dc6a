--------------------- MODULE RecognitionConnectionProofs ---------------------
(***************************************************************************)
(* Proofs about RecognitionConnection, for every MaxFeeds and MaxResponses.  *)
(***************************************************************************)
EXTENDS RecognitionConnection, SequenceLemmas, SequenceTheorems, TLAPS

-----------------------------------------------------------------------------
(* Type correctness.                                                        *)

\* Every action keeps the types.
LEMMA TypeStep == TypeOK /\ [Next]_vars => TypeOK'
<1> SUFFICES ASSUME TypeOK, [Next]_vars PROVE TypeOK'
  OBVIOUS
<1> USE DEF TypeOK, FrameSeq, Frame
<1>1. CASE Feed
  BY <1>1 DEF Feed, caller, server, callbacks
<1>2. CASE WritesDone
  BY <1>2 DEF WritesDone, server, callbacks, stream
<1>3. CASE Disable
  BY <1>3 DEF Disable, server, callbacks, stream
<1>4. CASE Respond
  BY <1>4 DEF Respond, caller, callbacks, stream
<1>5. CASE \E status \in {"ok", "error"} : EndCall(status)
  BY <1>5 DEF EndCall, caller, callbacks, stream
<1>6. ASSUME NEW c \in Cause, NEW ok \in BOOLEAN, Deliver(c, ok) PROVE TypeOK'
  <2>1. ops[c] - 1 \in Nat
    BY <1>6 DEF Deliver
  <2>2. ops' \in [Cause -> Nat]
    BY <1>6, <2>1 DEF Deliver
  <2>3. responses' \in Nat
    BY <1>6 DEF Deliver, Completes
  <2>4. event' \in [cause : Cause, ok : BOOLEAN]
    BY <1>6 DEF Deliver
  <2> QED
    BY <1>6, <2>2, <2>3, <2>4 DEF Deliver, caller, server, callbacks, stream
<1>7. CASE ProceedFinish
  BY <1>7 DEF ProceedFinish, CountLate, caller, server, stream
<1>8. CASE CallFinish
  BY <1>8 DEF CallFinish, Start, Cause, caller, server, callbacks, stream
<1>9. CASE ProceedStartCall
  <2>1. /\ "write" \in Cause /\ ops["write"] + 1 \in Nat
        /\ "read" \in Cause /\ ops["read"] + 1 \in Nat
    BY DEF Cause
  <2>2. ops' \in [Cause -> Nat]
    BY <1>9, <2>1 DEF ProceedStartCall
  <2> QED
    BY <1>9, <2>2 DEF ProceedStartCall, caller, server, callbacks, stream
<1>10. CASE TakeChunk
  BY <1>10 DEF TakeChunk, caller, server, callbacks, stream
<1>11. CASE SendAudioChunk
  BY <1>11 DEF SendAudioChunk, Start, Cause, caller, server, callbacks
<1>12. CASE SendWritesDone
  BY <1>12 DEF SendWritesDone, Start, Cause, caller, server, callbacks
<1>13. CASE ArmAlarm
  BY <1>13 DEF ArmAlarm, Start, Cause, caller, server, callbacks, stream
<1>14. CASE ProceedRead
  BY <1>14 DEF ProceedRead, CountLate, Start, Cause, caller, server, stream
<1>15. CASE UNCHANGED vars
  BY <1>15 DEF vars
<1> QED
  BY <1>1, <1>2, <1>3, <1>4, <1>5, <1>6, <1>7, <1>8, <1>9, <1>10, <1>11, <1>12, <1>13,
     <1>14, <1>15 DEF Next, Proceed

\* Every variable keeps its type, whatever the callers, the server and the worker do.
THEOREM TypeCorrect == Spec => []TypeOK
<1>1. Init => TypeOK
  <2> SUFFICES ASSUME Init PROVE TypeOK
    OBVIOUS
  <2>1. ops \in [Cause -> Nat]
    BY DEF Init
  <2>2. event \in [cause : Cause, ok : BOOLEAN]
    BY DEF Init, Cause
  <2>3. <<>> \in FrameSeq
    BY DEF FrameSeq
  <2> QED
    BY <2>1, <2>2, <2>3 DEF Init, TypeOK
<1> QED
  BY <1>1, TypeStep, PTL DEF Spec

-----------------------------------------------------------------------------
(* One operation of the sending direction at a time.                        *)

\* OneWriteSideOp is not inductive: that an alarm never finds write_pending_ set needs that
\* write_pending_ is set as long as a write is outstanding or in the worker's hand, and that
\* no alarm exists and no branch is being taken while it is set.
WriteInv ==
    /\ WriteSide <= 1
    /\ ops["write"] > 0 \/ Proceeding("write") => writePending
    /\ writePending => ops["alarm"] = 0 /\ ~Proceeding("alarm") /\ pc # "branch"

\* The constructor starts one operation.
LEMMA InitialOps ==
  Init => /\ ops["start_call"] = 1 /\ ops["write"] = 0 /\ ops["alarm"] = 0
          /\ ops["writes_done"] = 0 /\ ops["read"] = 0
BY DEF Init, Cause

\* The tags of the sending direction hand over to each other.
LEMMA WriteStep == TypeOK /\ WriteInv /\ [Next]_vars => WriteInv'
<1> SUFFICES ASSUME TypeOK, WriteInv, [Next]_vars PROVE WriteInv'
  OBVIOUS
<1>t. /\ ops \in [Cause -> Nat]
      /\ event \in [cause : Cause, ok : BOOLEAN]
      /\ writePending \in BOOLEAN
      /\ pc \in {"next", "proceed", "branch"}
  BY DEF TypeOK
<1>u. /\ ops["start_call"] \in Nat /\ ops["write"] \in Nat /\ ops["alarm"] \in Nat
      /\ ops["writes_done"] \in Nat
  BY <1>t DEF Cause
<1> USE DEF WriteInv, WriteSide, Proceeding, One
<1>1. CASE \/ Feed \/ WritesDone \/ Disable \/ Respond
           \/ \E status \in {"ok", "error"} : EndCall(status)
  <2>1. UNCHANGED <<writePending, pc, event, ops>>
    BY <1>1 DEF Feed, WritesDone, Disable, Respond, EndCall
  <2> QED
    BY <2>1
<1>2. ASSUME NEW c \in Cause, NEW ok \in BOOLEAN, Deliver(c, ok) PROVE WriteInv'
  <2>1. event'.cause = c /\ pc = "next" /\ pc' \in {"next", "proceed"}
    BY <1>2 DEF Deliver
  <2>2. ops' = [ops EXCEPT ![c] = @ - 1] /\ ops[c] > 0 /\ writePending' = writePending
    BY <1>2 DEF Deliver
  <2>3. CASE c = "start_call"
    BY <2>1, <2>2, <2>3, <1>t, <1>u DEF Cause
  <2>4. CASE c = "write"
    BY <2>1, <2>2, <2>4, <1>t, <1>u DEF Cause
  <2>5. CASE c = "alarm"
    BY <2>1, <2>2, <2>5, <1>t, <1>u DEF Cause
  <2>6. CASE c = "writes_done"
    BY <2>1, <2>2, <2>6, <1>t, <1>u DEF Cause
  <2>7. CASE c \in {"read", "finish"}
    BY <2>1, <2>2, <2>7, <1>t, <1>u DEF Cause
  <2> QED
    BY <2>3, <2>4, <2>5, <2>6, <2>7 DEF Cause
<1>3. CASE ProceedFinish
  BY <1>3, <1>t, <1>u DEF ProceedFinish
<1>4. CASE CallFinish
  BY <1>4, <1>t, <1>u DEF CallFinish, Start, Cause
<1>5. CASE ProceedStartCall
  <2>1. ops'["write"] = ops["write"] + 1
    BY <1>5, <1>t DEF ProceedStartCall, Cause
  <2>2. /\ ops'["start_call"] = ops["start_call"] /\ ops'["alarm"] = ops["alarm"]
        /\ ops'["writes_done"] = ops["writes_done"]
    BY <1>5, <1>t DEF ProceedStartCall, Cause
  <2> QED
    BY <1>5, <1>u, <2>1, <2>2 DEF ProceedStartCall
<1>6. CASE TakeChunk
  <2>1. pc = "proceed" /\ ops' = ops /\ event' = event
    BY <1>6 DEF TakeChunk
  <2>2. writePending' = FALSE /\ pc' = "branch"
    BY <1>6, <2>1 DEF TakeChunk
  <2> QED
    BY <1>6, <2>1, <2>2, <1>u DEF TakeChunk
<1>7. CASE SendAudioChunk
  BY <1>7, <1>t, <1>u DEF SendAudioChunk, Start, Cause
<1>8. CASE SendWritesDone
  BY <1>8, <1>t, <1>u DEF SendWritesDone, Start, Cause
<1>9. CASE ArmAlarm
  BY <1>9, <1>t, <1>u DEF ArmAlarm, Start, Cause
<1>10. CASE ProceedRead
  BY <1>10, <1>t, <1>u DEF ProceedRead, Start, Cause
<1>11. CASE UNCHANGED vars
  BY <1>11 DEF vars
<1> QED
  BY <1>1, <1>2, <1>3, <1>4, <1>5, <1>6, <1>7, <1>8, <1>9, <1>10, <1>11 DEF Next, Proceed

\* Write, WritesDone and alarm_.Set never overlap, and the test of write_pending_ in
\* proceed() never fails.
THEOREM WriteSideExclusive == Spec => []OneWriteSideOp
<1>1. Init => WriteInv
  <2> SUFFICES ASSUME Init PROVE WriteInv
    OBVIOUS
  <2> QED
    BY InitialOps DEF Init, WriteInv, WriteSide, Proceeding, One
<1>2. TypeOK /\ WriteInv => OneWriteSideOp
  <2> SUFFICES ASSUME TypeOK, WriteInv PROVE OneWriteSideOp
    OBVIOUS
  <2> QED
    BY DEF WriteInv, OneWriteSideOp, TypeOK
<1> QED
  BY <1>1, <1>2, WriteStep, TypeCorrect, PTL DEF Spec

-----------------------------------------------------------------------------
(* The audio.                                                               *)

\* Frames are in the local `chunk' only between the swap and the branch that follows it.
AudioInv ==
    /\ AudioConserved
    /\ pc # "branch" => chunk = <<>>

\* The three places a frame can be in hold the fed audio, in order.
LEMMA AudioStep == TypeOK /\ AudioInv /\ [Next]_vars => AudioInv'
<1> SUFFICES ASSUME TypeOK, AudioInv, [Next]_vars PROVE AudioInv'
  OBVIOUS
<1>t. /\ fed \in Seq(Frame) /\ written \in Seq(Frame) /\ chunk \in Seq(Frame)
      /\ internalBuffer \in Seq(Frame)
  BY DEF TypeOK, FrameSeq
<1> USE DEF AudioInv, AudioConserved
<1>1. CASE Feed
  <2>1. Len(fed) + 1 \in Frame
    BY <1>t DEF Frame
  <2>2. written \o chunk \o Append(internalBuffer, Len(fed) + 1)
        = Append(written \o chunk \o internalBuffer, Len(fed) + 1)
    <3>1. PICK x \in Frame : x = Len(fed) + 1
      BY <2>1
    <3>2. written \o chunk \in Seq(Frame)
      BY <1>t
    <3>3. PICK front \in Seq(Frame) : front = written \o chunk
      BY <3>2
    <3>4. front \o Append(internalBuffer, x) = Append(front \o internalBuffer, x)
      BY <1>t, AppendToConcat
    <3> QED
      BY <3>1, <3>3, <3>4
  <2> QED
    BY <1>1, <2>1, <2>2 DEF Feed
<1>2. CASE TakeChunk
  <2>1. pc = "proceed" /\ chunk = <<>>
    BY <1>2 DEF TakeChunk, Proceeding
  <2>2. UNCHANGED <<written, fed>>
    BY <1>2 DEF TakeChunk, stream
  <2>3. CASE event.cause = "alarm" /\ writePending
    BY <1>2, <2>1, <2>2, <2>3 DEF TakeChunk
  <2>4. CASE ~(event.cause = "alarm" /\ writePending)
    <3>1. chunk' = internalBuffer /\ internalBuffer' = <<>> /\ pc' = "branch"
      BY <1>2, <2>4 DEF TakeChunk
    <3>2. written \o <<>> \o internalBuffer = written \o internalBuffer \o <<>>
      BY <1>t
    <3> QED
      BY <2>1, <2>2, <3>1, <3>2
  <2> QED
    BY <2>3, <2>4
<1>3. CASE SendAudioChunk
  <2>1. written \o chunk \o <<>> = written \o chunk
    BY <1>t
  <2> QED
    BY <1>3, <2>1 DEF SendAudioChunk
<1>4. CASE SendWritesDone \/ ArmAlarm
  BY <1>4 DEF SendWritesDone, ArmAlarm, stream
<1>5. CASE ProceedFinish \/ CallFinish \/ ProceedStartCall \/ ProceedRead
  BY <1>5 DEF ProceedFinish, CallFinish, ProceedStartCall, ProceedRead, Proceeding, stream
<1>6. CASE WritesDone \/ Disable \/ Respond \/ \E status \in {"ok", "error"} : EndCall(status)
  BY <1>6 DEF WritesDone, Disable, Respond, EndCall, stream
<1>7. ASSUME NEW c \in Cause, NEW ok \in BOOLEAN, Deliver(c, ok) PROVE AudioInv'
  BY <1>7 DEF Deliver, stream
<1>8. CASE UNCHANGED vars
  BY <1>8 DEF vars
<1> QED
  BY <1>1, <1>2, <1>3, <1>4, <1>5, <1>6, <1>7, <1>8 DEF Next, Proceed

\* No frame is lost, duplicated or reordered between feed() and Write().
THEOREM AudioIsConserved == Spec => []AudioConserved
<1>1. Init => AudioInv
  BY DEF Init, AudioInv, AudioConserved
<1>2. AudioInv => AudioConserved
  BY DEF AudioInv
<1> QED
  BY <1>1, <1>2, AudioStep, TypeCorrect, PTL DEF Spec

-----------------------------------------------------------------------------
(* The end of the sending direction.                                        *)

\* Once WritesDone was called the tag that could lead to another write is gone.
CloseInv ==
    halfClosed => /\ ops["start_call"] = 0 /\ ops["write"] = 0 /\ ops["alarm"] = 0
                  /\ pc # "branch"
                  /\ ~Proceeding("start_call") /\ ~Proceeding("write") /\ ~Proceeding("alarm")

\* CloseInv is inductive: WritesDone uses the one tag of the sending direction up.
LEMMA CloseStep == TypeOK /\ WriteInv /\ CloseInv /\ [Next]_vars => CloseInv'
<1> SUFFICES ASSUME TypeOK, WriteInv, CloseInv, [Next]_vars PROVE CloseInv'
  OBVIOUS
<1>t. /\ ops \in [Cause -> Nat]
      /\ event \in [cause : Cause, ok : BOOLEAN]
      /\ pc \in {"next", "proceed", "branch"}
  BY DEF TypeOK
<1>u. /\ ops["start_call"] \in Nat /\ ops["write"] \in Nat /\ ops["alarm"] \in Nat
      /\ ops["writes_done"] \in Nat
  BY <1>t DEF Cause
<1> USE DEF CloseInv, Proceeding
<1>1. CASE \/ Feed \/ WritesDone \/ Disable \/ Respond
           \/ \E status \in {"ok", "error"} : EndCall(status)
  <2>1. UNCHANGED <<halfClosed, pc, event, ops>>
    BY <1>1 DEF Feed, WritesDone, Disable, Respond, EndCall, stream
  <2> QED
    BY <2>1
<1>2. ASSUME NEW c \in Cause, NEW ok \in BOOLEAN, Deliver(c, ok) PROVE CloseInv'
  <2>1. /\ event'.cause = c /\ pc' \in {"next", "proceed"} /\ halfClosed' = halfClosed
        /\ ops' = [ops EXCEPT ![c] = @ - 1] /\ ops[c] > 0
    BY <1>2 DEF Deliver, stream
  <2>2. CASE halfClosed /\ c \in {"start_call", "write", "alarm"}
    BY <2>1, <2>2, <1>u
  <2>3. CASE halfClosed /\ c \in {"read", "writes_done", "finish"}
    BY <2>1, <2>3, <1>t DEF Cause
  <2> QED
    BY <2>1, <2>2, <2>3 DEF Cause
<1>3. CASE ProceedFinish \/ CallFinish \/ ProceedRead
  <2>1. halfClosed' = halfClosed /\ pc' = "next"
    BY <1>3 DEF ProceedFinish, CallFinish, ProceedRead, stream
  <2>2. ops' = ops \/ ops' = [ops EXCEPT !["finish"] = @ + 1] \/ ops' = [ops EXCEPT !["read"] = @ + 1]
    BY <1>3 DEF ProceedFinish, CallFinish, ProceedRead, Start
  <2>3. /\ ops'["start_call"] = ops["start_call"] /\ ops'["write"] = ops["write"]
        /\ ops'["alarm"] = ops["alarm"]
    BY <2>2, <1>t DEF Cause
  <2> QED
    BY <2>1, <2>3
<1>4. CASE ProceedStartCall \/ TakeChunk
  BY <1>4 DEF ProceedStartCall, TakeChunk, stream
<1>5. CASE SendAudioChunk \/ ArmAlarm
  BY <1>5 DEF SendAudioChunk, ArmAlarm, stream
<1>6. CASE SendWritesDone
  <2>1. ops["start_call"] = 0 /\ ops["write"] = 0 /\ ops["alarm"] = 0
    BY <1>6, <1>u DEF SendWritesDone, WriteInv, WriteSide, One
  <2>2. ops' = [ops EXCEPT !["writes_done"] = @ + 1] /\ pc' = "next"
    BY <1>6 DEF SendWritesDone, Start
  <2> QED
    BY <2>1, <2>2, <1>t DEF Cause
<1>7. CASE UNCHANGED vars
  BY <1>7 DEF vars
<1> QED
  BY <1>1, <1>2, <1>3, <1>4, <1>5, <1>6, <1>7 DEF Next, Proceed

\* Nothing is written after WritesDone, and WritesDone is called once.
THEOREM NothingAfterWritesDone == Spec => NoWriteAfterWritesDone
<1> DEFINE Quiet == halfClosed => written' = written /\ ops'["write"] <= ops["write"]
                                  /\ ops'["writes_done"] <= ops["writes_done"]
<1>1. Init => WriteInv /\ CloseInv
  <2> SUFFICES ASSUME Init PROVE WriteInv /\ CloseInv
    OBVIOUS
  <2> QED
    BY InitialOps DEF Init, WriteInv, CloseInv, WriteSide, Proceeding, One
<1>2. TypeOK /\ CloseInv /\ [Next]_vars => [Quiet]_vars
  <2> SUFFICES ASSUME TypeOK, CloseInv, halfClosed, Next
               PROVE  /\ written' = written
                      /\ ops'["write"] <= ops["write"]
                      /\ ops'["writes_done"] <= ops["writes_done"]
    BY DEF vars
  <2>1. ops["write"] \in Nat /\ ops["writes_done"] \in Nat /\ ops \in [Cause -> Nat]
    BY DEF TypeOK, Cause
  <2>2. CASE \/ Feed \/ WritesDone \/ Disable \/ Respond
             \/ \E status \in {"ok", "error"} : EndCall(status)
    <3>1. UNCHANGED <<written, ops>>
      BY <2>2 DEF Feed, WritesDone, Disable, Respond, EndCall, stream
    <3> QED
      BY <2>1, <3>1
  <2>3. ASSUME NEW c \in Cause, NEW ok \in BOOLEAN, Deliver(c, ok)
        PROVE  /\ written' = written
               /\ ops'["write"] <= ops["write"]
               /\ ops'["writes_done"] <= ops["writes_done"]
    <3>1. ops' = [ops EXCEPT ![c] = @ - 1] /\ written' = written
      BY <2>3 DEF Deliver, stream
    <3> QED
      BY <2>1, <3>1 DEF Cause
  <2>4. CASE ProceedFinish \/ CallFinish \/ ProceedRead
    <3>1. written' = written
      BY <2>4 DEF ProceedFinish, CallFinish, ProceedRead, stream
    <3>2. ops' = ops \/ ops' = [ops EXCEPT !["finish"] = @ + 1] \/ ops' = [ops EXCEPT !["read"] = @ + 1]
      BY <2>4 DEF ProceedFinish, CallFinish, ProceedRead, Start
    <3> QED
      BY <2>1, <3>1, <3>2 DEF Cause
  <2>5. CASE ProceedStartCall \/ TakeChunk \/ SendAudioChunk \/ SendWritesDone \/ ArmAlarm
    BY <2>5 DEF CloseInv, Proceeding, ProceedStartCall, TakeChunk, SendAudioChunk,
                SendWritesDone, ArmAlarm
  <2> QED
    BY <2>2, <2>3, <2>4, <2>5 DEF Next, Proceed
<1> QED
  BY <1>1, <1>2, TypeCorrect, WriteStep, CloseStep, PTL DEF Spec, NoWriteAfterWritesDone

-----------------------------------------------------------------------------
(* Refinement.                                                              *)

\* Every step of the connection is a step of the audio stream, or leaves it as it is.
THEOREM StreamRefinement == Spec => ImplementsStream
<1>1. Init => WriteInv /\ CloseInv /\ AudioInv /\ Stream!AInit
  <2> SUFFICES ASSUME Init PROVE WriteInv /\ CloseInv /\ AudioInv /\ Stream!AInit
    OBVIOUS
  <2>2. WriteInv /\ CloseInv
    BY InitialOps DEF Init, WriteInv, CloseInv, WriteSide, Proceeding, One
  <2>3. AudioInv /\ Stream!AInit
    BY DEF Init, AudioInv, AudioConserved, Stream!AInit
  <2> QED
    BY <2>2, <2>3
<1>2. TypeOK /\ CloseInv /\ AudioInv /\ [Next]_vars => [Stream!ANext]_(Stream!avars)
  <2> SUFFICES ASSUME TypeOK, CloseInv, AudioInv, [Next]_vars
               PROVE  Stream!ANext \/ UNCHANGED <<fed, written, halfClosed>>
    BY DEF Stream!avars
  <2>1. CASE Feed
    BY <2>1 DEF Feed, Stream!ANext, Stream!Feed
  <2>2. CASE SendAudioChunk
    <3>1. ~halfClosed /\ chunk # <<>>
      BY <2>2 DEF SendAudioChunk, CloseInv
    <3>2. /\ written \in Seq(Frame) /\ chunk \in Seq(Frame) /\ internalBuffer \in Seq(Frame)
          /\ fed = written \o chunk \o internalBuffer
      BY DEF TypeOK, FrameSeq, AudioInv, AudioConserved
    <3>3. \E n \in (Len(written) + 1) .. Len(fed) : written \o chunk = SubSeq(fed, 1, n)
      <4>1. written \o chunk \in Seq(Frame)
        BY <3>2
      <4>2. PICK front \in Seq(Frame) : front = written \o chunk
        BY <4>1
      <4>3. /\ Len(front) \in (Len(written) + 1) .. Len(front \o internalBuffer)
            /\ front = SubSeq(front \o internalBuffer, 1, Len(front))
        BY <3>1, <3>2, <4>2, LongerPrefix
      <4> QED
        BY <3>2, <4>2, <4>3
    <3>4. written' = written \o chunk /\ UNCHANGED <<fed, halfClosed>>
      BY <2>2 DEF SendAudioChunk
    <3> QED
      BY <3>1, <3>3, <3>4 DEF Stream!ANext, Stream!Transmit
  <2>3. CASE SendWritesDone
    BY <2>3 DEF SendWritesDone, CloseInv, Stream!ANext, Stream!Close
  <2>4. CASE \/ WritesDone \/ Disable \/ Respond
             \/ \E status \in {"ok", "error"} : EndCall(status)
             \/ \E c \in Cause, ok \in BOOLEAN : Deliver(c, ok)
    BY <2>4 DEF WritesDone, Disable, Respond, EndCall, Deliver, stream
  <2>5. CASE ProceedFinish \/ CallFinish \/ ProceedStartCall \/ TakeChunk \/ ArmAlarm \/ ProceedRead
    BY <2>5 DEF ProceedFinish, CallFinish, ProceedStartCall, TakeChunk, ArmAlarm, ProceedRead, stream
  <2>6. CASE UNCHANGED vars
    BY <2>6 DEF vars
  <2> QED
    BY <2>1, <2>2, <2>3, <2>4, <2>5, <2>6 DEF Next, Proceed
<1> QED
  BY <1>1, <1>2, TypeCorrect, WriteStep, CloseStep, AudioStep, PTL
     DEF Spec, ImplementsStream, Stream!ASpec

-----------------------------------------------------------------------------
(* The receiving direction and the callbacks.                               *)

\* response_ is never handed to gRPC while a Read is outstanding or on_read() is running.
THEOREM ReadExclusive == Spec => []OneRead
<1>1. Init => OneRead
  <2> SUFFICES ASSUME Init PROVE OneRead
    OBVIOUS
  <2> QED
    BY InitialOps DEF Init, OneRead, InHand, One
<1>2. TypeOK /\ OneRead /\ [Next]_vars => OneRead'
  <2> SUFFICES ASSUME TypeOK, OneRead, [Next]_vars PROVE OneRead'
    OBVIOUS
  <2>t. /\ ops \in [Cause -> Nat] /\ ops["start_call"] \in Nat /\ ops["read"] \in Nat
        /\ event \in [cause : Cause, ok : BOOLEAN]
        /\ pc \in {"next", "proceed", "branch"}
    BY DEF TypeOK, Cause
  <2> USE DEF OneRead, InHand, One, Proceeding
  <2>1. CASE \/ Feed \/ WritesDone \/ Disable \/ Respond \/ UNCHANGED vars
             \/ \E status \in {"ok", "error"} : EndCall(status)
    <3>1. UNCHANGED <<pc, event, ops>>
      BY <2>1 DEF Feed, WritesDone, Disable, Respond, EndCall, vars
    <3> QED
      BY <3>1
  <2>2. ASSUME NEW c \in Cause, NEW ok \in BOOLEAN, Deliver(c, ok) PROVE OneRead'
    <3>1. /\ pc = "next" /\ event'.cause = c /\ pc' \in {"next", "proceed"}
          /\ ops' = [ops EXCEPT ![c] = @ - 1] /\ ops[c] > 0
      BY <2>2 DEF Deliver
    <3>2. CASE c = "read"
      BY <2>t, <3>1, <3>2 DEF Cause
    <3>3. CASE c = "start_call"
      BY <2>t, <3>1, <3>3 DEF Cause
    <3>4. CASE c \in {"write", "writes_done", "finish", "alarm"}
      BY <2>t, <3>1, <3>4 DEF Cause
    <3> QED
      BY <3>2, <3>3, <3>4 DEF Cause
  <2>3. CASE ProceedFinish \/ TakeChunk
    <3>1. UNCHANGED <<event, ops>> /\ pc = "proceed"
      BY <2>3 DEF ProceedFinish, TakeChunk
    <3>2. pc' \in {"next", "branch"}
      BY <2>3 DEF ProceedFinish, TakeChunk
    <3> QED
      BY <2>t, <3>1, <3>2
  <2>4. CASE CallFinish
    BY <2>t, <2>4 DEF CallFinish, Start, Cause
  <2>5. CASE ProceedStartCall
    BY <2>t, <2>5 DEF ProceedStartCall, Cause
  <2>6. CASE SendAudioChunk
    BY <2>t, <2>6 DEF SendAudioChunk, Start, Cause
  <2>7. CASE SendWritesDone
    BY <2>t, <2>7 DEF SendWritesDone, Start, Cause
  <2>8. CASE ArmAlarm
    BY <2>t, <2>8 DEF ArmAlarm, Start, Cause
  <2>9. CASE ProceedRead
    BY <2>t, <2>9 DEF ProceedRead, Start, Cause
  <2> QED
    BY <2>1, <2>2, <2>3, <2>4, <2>5, <2>6, <2>7, <2>8, <2>9 DEF Next, Proceed
<1> QED
  BY <1>1, <1>2, TypeCorrect, PTL DEF Spec

\* At most one callback is made after disable() returned: the event that was being handled.
THEOREM AtMostOneLateCallback == Spec => []OneLateCallback
<1> DEFINE LateInv == late \in {0, 1} /\ (late = 1 => ~active /\ pc = "next")
<1>1. Init => LateInv
  BY DEF Init
<1>2. LateInv /\ [Next]_vars => LateInv'
  <2> SUFFICES ASSUME LateInv, [Next]_vars PROVE LateInv'
    OBVIOUS
  <2>1. CASE Feed \/ WritesDone \/ Disable \/ Respond \/ \E status \in {"ok", "error"} : EndCall(status)
    BY <2>1 DEF Feed, WritesDone, Disable, Respond, EndCall, caller, callbacks
  <2>2. ASSUME NEW c \in Cause, NEW ok \in BOOLEAN, Deliver(c, ok) PROVE LateInv'
    BY <2>2 DEF Deliver, caller, callbacks
  <2>3. CASE ProceedFinish
    BY <2>3 DEF ProceedFinish, CountLate, Proceeding, caller
  <2>4. CASE ProceedRead
    BY <2>4 DEF ProceedRead, CountLate, Proceeding, caller
  <2>5. CASE CallFinish \/ ProceedStartCall \/ TakeChunk
    BY <2>5 DEF CallFinish, ProceedStartCall, TakeChunk, Proceeding, caller, callbacks
  <2>6. CASE SendAudioChunk \/ SendWritesDone \/ ArmAlarm
    BY <2>6 DEF SendAudioChunk, SendWritesDone, ArmAlarm, caller, callbacks
  <2>7. CASE UNCHANGED vars
    BY <2>7 DEF vars
  <2> QED
    BY <2>1, <2>2, <2>3, <2>4, <2>5, <2>6, <2>7 DEF Next, Proceed
<1>3. LateInv => OneLateCallback
  BY DEF OneLateCallback
<1> QED
  BY <1>1, <1>2, <1>3, PTL DEF Spec
-----------------------------------------------------------------------------
(* The end of the call.                                                     *)

\* The operations of the receiving direction that exist; OneRead bounds it.
ReadSide == ops["start_call"] + One(InHand("start_call")) + ops["read"] + One(InHand("read"))

\* The call is over, and every message of a call that ended well was taken.
AllRead == Ended /\ (rpc = "ok" => responses = 0)

\* Each direction of the call can lead to one Finish(): the failed Read of the receiving one,
\* the WritesDone of the sending one.  FinishInv counts what is left of each.
FinishInv ==
    /\ halfClosed => writesDone
    /\ (ops["writes_done"] > 0 \/ Proceeding("writes_done")) => halfClosed
    /\ finishCalls + ReadSide + WriteSide <= 2
    /\ ~halfClosed => finishCalls + ReadSide <= 1
    /\ ~Ended => finishCalls + WriteSide <= 1
    /\ (Proceeding("read") /\ ~event.ok) => AllRead
    /\ (finishCalls > 0 /\ ~halfClosed) => AllRead

\* The two counts are naturals.
LEMMA SideTypes == TypeOK => ReadSide \in Nat /\ WriteSide \in Nat
<1> SUFFICES ASSUME TypeOK PROVE ReadSide \in Nat /\ WriteSide \in Nat
  OBVIOUS
<1>1. /\ ops["start_call"] \in Nat /\ ops["write"] \in Nat /\ ops["alarm"] \in Nat
      /\ ops["writes_done"] \in Nat /\ ops["read"] \in Nat
  BY DEF TypeOK, Cause
<1>2. \A condition \in BOOLEAN : One(condition) \in Nat
  BY DEF One
<1> QED
  BY <1>1, <1>2 DEF ReadSide, WriteSide, InHand, One

\* Taking an operation off the queue creates none in either direction.
LEMMA DeliverSides ==
  ASSUME TypeOK, NEW c \in Cause, NEW ok \in BOOLEAN, Deliver(c, ok)
  PROVE  ReadSide' <= ReadSide /\ WriteSide' <= WriteSide
<1>t. /\ ops \in [Cause -> Nat]
      /\ ops["start_call"] \in Nat /\ ops["write"] \in Nat /\ ops["alarm"] \in Nat
      /\ ops["writes_done"] \in Nat /\ ops["read"] \in Nat
  BY DEF TypeOK, Cause
<1>1. /\ pc = "next" /\ event'.cause = c /\ pc' \in {"next", "proceed"}
      /\ ops' = [ops EXCEPT ![c] = @ - 1] /\ ops[c] > 0
  BY DEF Deliver
<1> USE DEF ReadSide, WriteSide, InHand, One
<1>2. CASE c = "start_call"
  BY <1>t, <1>1, <1>2 DEF Cause
<1>3. CASE c = "read"
  BY <1>t, <1>1, <1>3 DEF Cause
<1>4. CASE c = "write"
  BY <1>t, <1>1, <1>4 DEF Cause
<1>5. CASE c = "writes_done"
  BY <1>t, <1>1, <1>5 DEF Cause
<1>6. CASE c \in {"finish", "alarm"}
  BY <1>t, <1>1, <1>6 DEF Cause
<1> QED
  BY <1>2, <1>3, <1>4, <1>5, <1>6 DEF Cause

\* A step of proceed() passes the operation on within its direction; only Finish() ends it.
LEMMA ProceedSides ==
  ASSUME TypeOK, Proceed
  PROVE  /\ ~CallFinish => ReadSide' <= ReadSide /\ WriteSide' <= WriteSide
         /\ CallFinish /\ event.cause = "read" => ReadSide' + 1 = ReadSide /\ WriteSide' = WriteSide
         /\ CallFinish /\ event.cause # "read" => ReadSide' = ReadSide /\ WriteSide' + 1 = WriteSide
<1>t. /\ ops \in [Cause -> Nat]
      /\ ops["start_call"] \in Nat /\ ops["write"] \in Nat /\ ops["alarm"] \in Nat
      /\ ops["writes_done"] \in Nat /\ ops["read"] \in Nat
      /\ event \in [cause : Cause, ok : BOOLEAN]
      /\ writePending \in BOOLEAN
  BY DEF TypeOK, Cause
<1> USE DEF ReadSide, WriteSide, InHand, One, Proceeding
<1>1. CASE ProceedFinish
  BY <1>t, <1>1 DEF ProceedFinish, CallFinish
<1>2. CASE CallFinish
  <2>1. /\ pc = "proceed" /\ pc' = "next" /\ event' = event
        /\ event.cause \in {"read", "writes_done"}
    BY <1>2 DEF CallFinish
  <2>2. /\ ops'["start_call"] = ops["start_call"] /\ ops'["write"] = ops["write"]
        /\ ops'["alarm"] = ops["alarm"] /\ ops'["writes_done"] = ops["writes_done"]
        /\ ops'["read"] = ops["read"]
    BY <1>t, <1>2 DEF CallFinish, Start, Cause
  <2> QED
    BY <1>t, <1>2, <2>1, <2>2
<1>3. CASE ProceedStartCall
  <2>1. pc = "proceed" /\ event.cause = "start_call" /\ pc' = "next" /\ event' = event
    BY <1>3 DEF ProceedStartCall
  <2>2. ops'["write"] = ops["write"] + 1 /\ ops'["read"] = ops["read"] + 1
    BY <1>3, <1>t DEF ProceedStartCall, Cause
  <2>3. /\ ops'["start_call"] = ops["start_call"] /\ ops'["alarm"] = ops["alarm"]
        /\ ops'["writes_done"] = ops["writes_done"]
    BY <1>3, <1>t DEF ProceedStartCall, Cause
  <2> QED
    BY <1>t, <2>1, <2>2, <2>3 DEF CallFinish
<1>4. CASE TakeChunk
  <2>1. /\ pc = "proceed" /\ event.cause \in {"write", "alarm"} /\ pc' \in {"next", "branch"}
        /\ event' = event /\ ops' = ops
    BY <1>4 DEF TakeChunk
  <2> QED
    BY <1>t, <2>1 DEF CallFinish
<1>5. CASE SendAudioChunk
  BY SMTT(30), <1>t, <1>5 DEF SendAudioChunk, CallFinish, Start, Cause
<1>6. CASE SendWritesDone
  BY <1>t, <1>6 DEF SendWritesDone, CallFinish, Start, Cause
<1>7. CASE ArmAlarm
  BY <1>t, <1>7 DEF ArmAlarm, CallFinish, Start, Cause
<1>8. CASE ProceedRead
  BY <1>t, <1>8 DEF ProceedRead, CallFinish, Start, Cause
<1> QED
  BY <1>1, <1>2, <1>3, <1>4, <1>5, <1>6, <1>7, <1>8 DEF Proceed

\* What the counts of FinishInv become when no operation is added, and when one of them
\* turns into a Finish().
LEMMA FewerLeft ==
  ASSUME finishCalls \in Nat, ReadSide \in Nat /\ WriteSide \in Nat,
         ReadSide' \in Nat /\ WriteSide' \in Nat,
         ReadSide' <= ReadSide /\ WriteSide' <= WriteSide
  PROVE  /\ finishCalls + ReadSide + WriteSide <= 2 => finishCalls + ReadSide' + WriteSide' <= 2
         /\ finishCalls + ReadSide <= 1 => finishCalls + ReadSide' <= 1
         /\ finishCalls + WriteSide <= 1 => finishCalls + WriteSide' <= 1
<1> DEFINE f == finishCalls
           r == ReadSide
           w == WriteSide
           r1 == ReadSide'
           w1 == WriteSide'
<1>1. f \in Nat /\ r \in Nat /\ w \in Nat /\ r1 \in Nat /\ w1 \in Nat /\ r1 <= r /\ w1 <= w
  OBVIOUS
<1> HIDE DEF f, r, w, r1, w1
<1>2. /\ f + r + w <= 2 => f + r1 + w1 <= 2
      /\ f + r <= 1 => f + r1 <= 1
      /\ f + w <= 1 => f + w1 <= 1
  BY <1>1
<1> QED
  BY <1>2 DEF f, r, w, r1, w1

LEMMA OneSpent ==
  \A f, r, w, r1, w1 \in Nat :
    /\ r1 + 1 = r /\ w1 = w => /\ f + r + w <= 2 => (f + 1) + r1 + w1 <= 2
                               /\ f + r <= 1 => (f + 1) + r1 <= 1
    /\ r1 = r /\ w1 + 1 = w => /\ f + r + w <= 2 => (f + 1) + r1 + w1 <= 2
                               /\ f + w <= 1 => (f + 1) + w1 <= 1
OBVIOUS

\* FinishInv is inductive.
LEMMA FinishStep == TypeOK /\ FinishInv /\ [Next]_vars => FinishInv'
<1> SUFFICES ASSUME TypeOK, FinishInv, [Next]_vars PROVE FinishInv'
  OBVIOUS
<1>t. /\ ops \in [Cause -> Nat]
      /\ event \in [cause : Cause, ok : BOOLEAN]
      /\ pc \in {"next", "proceed", "branch"}
      /\ finishCalls \in Nat /\ responses \in Nat
      /\ halfClosed \in BOOLEAN /\ writesDone \in BOOLEAN
      /\ rpc \in {"open", "ok", "error"}
      /\ ReadSide \in Nat /\ WriteSide \in Nat
  BY SideTypes DEF TypeOK
<1>p. TypeOK'
  BY TypeStep
<1>q. ReadSide' \in Nat /\ WriteSide' \in Nat
  <2>1. TypeOK' => (ReadSide \in Nat /\ WriteSide \in Nat)'
    BY SideTypes, PTL
  <2> QED
    BY <1>p, <2>1
<1>c. finishCalls \in Nat /\ ReadSide \in Nat /\ WriteSide \in Nat
  BY <1>t
<1> USE DEF FinishInv, AllRead, Ended
<1>1. CASE Feed \/ WritesDone \/ Disable \/ UNCHANGED vars
  <2>1. UNCHANGED <<pc, event, ops, rpc, responses, halfClosed, finishCalls>>
    BY <1>1 DEF Feed, WritesDone, Disable, vars, server, stream
  <2>2. writesDone => writesDone'
    BY <1>1 DEF Feed, WritesDone, Disable, vars, caller
  <2>3. ReadSide' = ReadSide /\ WriteSide' = WriteSide
    BY <2>1 DEF ReadSide, WriteSide, InHand, One
  <2> QED
    BY <2>1, <2>2, <2>3 DEF Proceeding
<1>2. CASE Respond \/ \E status \in {"ok", "error"} : EndCall(status)
  <2>1. UNCHANGED <<pc, event, ops, writesDone, halfClosed, finishCalls>> /\ ~Ended
    BY <1>2 DEF Respond, EndCall, caller, stream
  <2>3. ReadSide' = ReadSide /\ WriteSide' = WriteSide
    BY <2>1 DEF ReadSide, WriteSide, InHand, One
  <2>4. Respond => rpc' = rpc
    BY DEF Respond
  <2> QED
    BY <1>t, <2>1, <2>3, <2>4 DEF Proceeding
<1>3. ASSUME NEW c \in Cause, NEW ok \in BOOLEAN, Deliver(c, ok) PROVE FinishInv'
  <2>1. ReadSide' <= ReadSide /\ WriteSide' <= WriteSide
    BY <1>3, DeliverSides
  <2>2. /\ UNCHANGED <<rpc, writesDone, halfClosed, finishCalls>>
        /\ pc = "next" /\ event' = [cause |-> c, ok |-> ok]
        /\ ops' = [ops EXCEPT ![c] = @ - 1] /\ ops[c] > 0
        /\ Completes(c, ok)
        /\ responses' = IF c = "read" /\ ok THEN responses - 1 ELSE responses
    BY <1>3 DEF Deliver, caller, server, stream
  <2>3. (ops'["writes_done"] > 0 \/ Proceeding("writes_done")') => ops["writes_done"] > 0
    BY <1>t, <2>2 DEF Proceeding, Cause
  <2>4. (Proceeding("read") /\ ~event.ok)' => AllRead'
    BY <1>t, <2>2 DEF Proceeding, Completes
  <2>5. AllRead => AllRead'
    BY <1>t, <2>2 DEF Completes
  <2>6. /\ finishCalls' + ReadSide' + WriteSide' <= 2
        /\ ~halfClosed' => finishCalls' + ReadSide' <= 1
        /\ ~Ended' => finishCalls' + WriteSide' <= 1
    <3>1. /\ finishCalls + ReadSide + WriteSide <= 2 => finishCalls + ReadSide' + WriteSide' <= 2
          /\ finishCalls + ReadSide <= 1 => finishCalls + ReadSide' <= 1
          /\ finishCalls + WriteSide <= 1 => finishCalls + WriteSide' <= 1
      BY <1>c, <1>q, <2>1, FewerLeft
    <3>2. finishCalls' = finishCalls /\ rpc' = rpc /\ halfClosed' = halfClosed
      BY <2>2
    <3> QED
      BY <3>1, <3>2
  <2> QED
    BY <2>2, <2>3, <2>4, <2>5, <2>6
<1>4. CASE CallFinish
  <2>1. /\ UNCHANGED <<rpc, responses, writesDone, halfClosed>>
        /\ finishCalls' = finishCalls + 1 /\ pc' = "next"
        /\ ops' = [ops EXCEPT !["finish"] = @ + 1]
    BY <1>4 DEF CallFinish, Start, caller, server, stream
  <2>2. ops'["writes_done"] = ops["writes_done"] /\ ~Proceeding("writes_done")'
        /\ ~Proceeding("read")'
    BY <1>t, <2>1 DEF Proceeding, Cause
  <2>3. CASE event.cause = "read"
    <3>1. Proceeding("read") /\ ~event.ok
      BY <1>4, <2>3 DEF CallFinish, Proceeding
    <3>2. ReadSide' + 1 = ReadSide /\ WriteSide' = WriteSide
      BY <1>4, <2>3, ProceedSides DEF Proceed
    <3> QED
      BY <1>t, <1>q, <2>1, <2>2, <3>1, <3>2, OneSpent
  <2>4. CASE event.cause # "read"
    <3>1. Proceeding("writes_done")
      BY <1>4, <2>4 DEF CallFinish, Proceeding
    <3>2. ReadSide' = ReadSide /\ WriteSide' + 1 = WriteSide
      BY <1>4, <2>4, ProceedSides DEF Proceed
    <3> QED
      BY <1>t, <1>q, <2>1, <2>2, <3>1, <3>2, OneSpent
  <2> QED
    BY <2>3, <2>4
<1>5. CASE SendWritesDone
  <2>1. ~CallFinish
    BY <1>5 DEF SendWritesDone, CallFinish, Proceeding
  <2>2. ReadSide' <= ReadSide /\ WriteSide' <= WriteSide
    BY <1>5, <2>1, ProceedSides DEF Proceed
  <2>3. /\ UNCHANGED <<rpc, responses, writesDone, finishCalls>>
        /\ writesDone /\ halfClosed' = TRUE /\ pc' = "next"
    BY <1>5 DEF SendWritesDone, caller, server
  <2>4. /\ finishCalls + ReadSide + WriteSide <= 2 => finishCalls + ReadSide' + WriteSide' <= 2
        /\ finishCalls + ReadSide <= 1 => finishCalls + ReadSide' <= 1
        /\ finishCalls + WriteSide <= 1 => finishCalls + WriteSide' <= 1
    BY <1>c, <1>q, <2>2, FewerLeft
  <2> QED
    BY <1>t, <2>3, <2>4 DEF Proceeding
<1>6. CASE ProceedFinish \/ ProceedStartCall \/ TakeChunk \/ SendAudioChunk \/ ArmAlarm \/ ProceedRead
  <2>1. ~CallFinish
    BY <1>6 DEF ProceedFinish, ProceedStartCall, TakeChunk, SendAudioChunk, ArmAlarm,
                ProceedRead, CallFinish, Proceeding
  <2>2. ReadSide' <= ReadSide /\ WriteSide' <= WriteSide
    BY <1>6, <2>1, ProceedSides DEF Proceed
  <2>3. UNCHANGED <<rpc, responses, writesDone, halfClosed, finishCalls>> /\ pc' # "proceed"
    BY <1>6 DEF ProceedFinish, ProceedStartCall, TakeChunk, SendAudioChunk, ArmAlarm,
                ProceedRead, caller, server, stream
  <2>4. ops'["writes_done"] = ops["writes_done"]
    BY <1>6, <1>t DEF ProceedFinish, ProceedStartCall, TakeChunk, SendAudioChunk, ArmAlarm,
                ProceedRead, Start, Cause
  <2>5. /\ finishCalls + ReadSide + WriteSide <= 2 => finishCalls + ReadSide' + WriteSide' <= 2
        /\ finishCalls + ReadSide <= 1 => finishCalls + ReadSide' <= 1
        /\ finishCalls + WriteSide <= 1 => finishCalls + WriteSide' <= 1
    BY <1>c, <1>q, <2>2, FewerLeft
  <2> QED
    BY <1>t, <2>3, <2>4, <2>5 DEF Proceeding
<1> QED
  BY <1>1, <1>2, <1>3, <1>4, <1>5, <1>6 DEF Next, Proceed

\* The counts at the start.
LEMMA FinishInit == Init => FinishInv
<1> SUFFICES ASSUME Init PROVE FinishInv
  OBVIOUS
<1>1. ReadSide = 1 /\ WriteSide = 1
  BY InitialOps DEF Init, ReadSide, WriteSide, InHand, One
<1> QED
  BY InitialOps, <1>1 DEF Init, FinishInv, Proceeding, Ended

\* Finish() is called twice only when the server ends the call between writes_done() and
\* disable(), and an unasked status only follows the end of the call.
THEOREM FinishIsBounded == Spec => []FinishOnce
<1>1. TypeOK /\ FinishInv => FinishOnce
  <2> SUFFICES ASSUME TypeOK, FinishInv PROVE FinishOnce
    OBVIOUS
  <2>1. finishCalls \in Nat /\ ReadSide \in Nat /\ WriteSide \in Nat
    BY SideTypes DEF TypeOK
  <2> QED
    BY <2>1 DEF FinishInv, FinishOnce, AllRead
<1> QED
  BY <1>1, FinishInit, FinishStep, TypeCorrect, PTL DEF Spec

-----------------------------------------------------------------------------
(* The contract with the channel.                                           *)

\* The statuses reported, asked for and in the worker's hand.
Asked == errors + ops["finish"] + One(InHand("finish"))

\* A status is reported at most once per Finish(), and none before the call has ended.
StatusInv ==
    /\ Asked <= finishCalls
    /\ InHand("finish") => Ended
    /\ pc = "branch" => event.cause \in {"write", "alarm"}

\* StatusInv is inductive.
LEMMA StatusStep == TypeOK /\ StatusInv /\ [Next]_vars => StatusInv'
<1> SUFFICES ASSUME TypeOK, StatusInv, [Next]_vars PROVE StatusInv'
  OBVIOUS
<1>t. /\ ops \in [Cause -> Nat] /\ ops["finish"] \in Nat
      /\ event \in [cause : Cause, ok : BOOLEAN]
      /\ pc \in {"next", "proceed", "branch"}
      /\ finishCalls \in Nat /\ errors \in Nat
  BY DEF TypeOK, Cause
<1> USE DEF StatusInv, Asked, InHand, One, Ended
<1>1. CASE Feed \/ WritesDone \/ Disable \/ Respond \/ UNCHANGED vars
  <2>1. UNCHANGED <<pc, event, ops, rpc, errors, finishCalls>>
    BY <1>1 DEF Feed, WritesDone, Disable, Respond, vars, server, callbacks
  <2> QED
    BY <2>1
<1>2. CASE \E status \in {"ok", "error"} : EndCall(status)
  <2>1. UNCHANGED <<pc, event, ops, errors, finishCalls>> /\ ~Ended
    BY <1>2 DEF EndCall, callbacks
  <2> QED
    BY <2>1
<1>3. ASSUME NEW c \in Cause, NEW ok \in BOOLEAN, Deliver(c, ok) PROVE StatusInv'
  <2>1. /\ pc = "next" /\ event'.cause = c /\ pc' \in {"next", "proceed"}
        /\ ops' = [ops EXCEPT ![c] = @ - 1] /\ ops[c] > 0
        /\ UNCHANGED <<rpc, errors, finishCalls>>
        /\ Completes(c, ok)
    BY <1>3 DEF Deliver, server, callbacks
  <2>2. CASE c = "finish"
    BY <1>t, <2>1, <2>2 DEF Cause, Completes
  <2>3. CASE c # "finish"
    BY <1>t, <2>1, <2>3 DEF Cause
  <2> QED
    BY <2>2, <2>3
<1>4. CASE ProceedFinish
  BY <1>4, <1>t DEF ProceedFinish, Proceeding
<1>5. CASE CallFinish
  <2>1. ops'["finish"] = ops["finish"] + 1 /\ finishCalls' = finishCalls + 1
    BY <1>5, <1>t DEF CallFinish, Start, Cause
  <2>2. pc' = "next" /\ errors' = errors /\ ~InHand("finish")
    BY <1>5 DEF CallFinish, callbacks, Proceeding
  <2> QED
    BY <1>t, <2>1, <2>2
<1>6. CASE ProceedStartCall \/ SendAudioChunk \/ SendWritesDone \/ ArmAlarm \/ ProceedRead
  <2>1. ops'["finish"] = ops["finish"]
    BY <1>6, <1>t DEF ProceedStartCall, SendAudioChunk, SendWritesDone, ArmAlarm, ProceedRead,
                      Start, Cause
  <2>2. pc' = "next" /\ errors' = errors /\ finishCalls' = finishCalls
    BY <1>6 DEF ProceedStartCall, SendAudioChunk, SendWritesDone, ArmAlarm, ProceedRead, callbacks
  <2>3. ~InHand("finish")
    BY <1>6 DEF ProceedStartCall, SendAudioChunk, SendWritesDone, ArmAlarm, ProceedRead, Proceeding
  <2> QED
    BY <1>t, <2>1, <2>2, <2>3
<1>7. CASE TakeChunk
  <2>1. /\ UNCHANGED <<ops, event, errors, finishCalls>>
        /\ event.cause \in {"write", "alarm"} /\ pc' \in {"next", "branch"}
    BY <1>7 DEF TakeChunk, callbacks, Proceeding
  <2> QED
    BY <1>t, <2>1
<1> QED
  BY <1>1, <1>2, <1>3, <1>4, <1>5, <1>6, <1>7 DEF Next, Proceed

\* What the connection shows of itself under the refinement mapping of Contract.
Life == IF active THEN "active" ELSE "disabled"
Reading == \/ ops["start_call"] > 0 \/ InHand("start_call") \/ ops["read"] > 0
           \/ InHand("read") /\ event.ok
BegunResults == results + One(InHand("read") /\ event.ok)
BegunErrors == errors + One(InHand("finish") /\ rpc = "error")
Shown == <<Life, writesDone, Reading, BegunResults, BegunErrors>>

\* What follows from the counts when the worker takes a status off the queue.
LEMMA StatusBound ==
  ASSUME TypeOK, FinishInv, StatusInv, ops["finish"] > 0
  PROVE  /\ errors + 1 <= 2
         /\ ~writesDone => errors + 1 <= 1 /\ ~Reading
<1>t. /\ ops["finish"] \in Nat /\ ops["start_call"] \in Nat /\ ops["read"] \in Nat
      /\ errors \in Nat /\ finishCalls \in Nat
      /\ One(InHand("finish")) \in Nat
      /\ One(InHand("start_call")) \in Nat /\ One(InHand("read")) \in Nat
      /\ ReadSide \in Nat /\ WriteSide \in Nat
  BY SideTypes DEF TypeOK, Cause, One
<1>1. errors + 1 <= finishCalls
  <2> DEFINE hand == One(InHand("finish"))
  <2>1. errors + ops["finish"] + hand <= finishCalls /\ hand \in Nat
    BY <1>t DEF StatusInv, Asked
  <2> HIDE DEF hand
  <2> QED
    BY <1>t, <2>1
<1>2. finishCalls <= 2 /\ (~writesDone => finishCalls + ReadSide <= 1)
  <2>1. finishCalls + ReadSide + WriteSide <= 2
    BY DEF FinishInv
  <2>2. ~writesDone => finishCalls + ReadSide <= 1
    BY DEF FinishInv
  <2> QED
    BY <1>t, <2>1, <2>2
<1>3. ~writesDone => errors = 0 /\ ReadSide = 0
  BY <1>t, <1>1, <1>2
<1>4. ReadSide = 0 => ~Reading
  <2> DEFINE starting == One(InHand("start_call"))
             inhand == One(InHand("read"))
  <2>1. ReadSide = ops["start_call"] + starting + ops["read"] + inhand
    BY DEF ReadSide
  <2>2. InHand("start_call") => starting = 1
    BY DEF One
  <2>3. InHand("read") => inhand = 1
    BY DEF One
  <2>4. starting \in Nat /\ inhand \in Nat
    BY <1>t
  <2> HIDE DEF starting, inhand
  <2>5. ReadSide = 0 => ops["start_call"] = 0 /\ starting = 0 /\ ops["read"] = 0 /\ inhand = 0
    BY <1>t, <2>1, <2>4
  <2> QED
    BY <1>t, <2>2, <2>3, <2>5 DEF Reading
<1> QED
  BY <1>t, <1>1, <1>2, <1>3, <1>4

\* The steps that the channel does not see.
LEMMA HiddenStep ==
  ASSUME TypeOK, StatusInv,
         \/ Feed \/ Respond \/ UNCHANGED vars
         \/ \E status \in {"ok", "error"} : EndCall(status)
         \/ Proceed
  PROVE  UNCHANGED Shown
<1>t. /\ ops \in [Cause -> Nat] /\ ops["read"] \in Nat /\ ops["start_call"] \in Nat
      /\ event \in [cause : Cause, ok : BOOLEAN]
      /\ pc \in {"next", "proceed", "branch"}
      /\ errors \in Nat /\ results \in Nat
  BY DEF TypeOK, Cause
<1> USE DEF Shown, Life, Reading, BegunResults, BegunErrors, InHand, One
<1>1. CASE Feed \/ Respond \/ UNCHANGED vars
  <2>1. UNCHANGED <<active, writesDone, pc, event, ops, rpc, results, errors>>
    BY <1>1 DEF Feed, Respond, vars, caller, server, callbacks
  <2> QED
    BY <2>1
<1>2. CASE \E status \in {"ok", "error"} : EndCall(status)
  <2>1. UNCHANGED <<active, writesDone, pc, event, ops, results, errors>> /\ ~Ended
    BY <1>2 DEF EndCall, caller, callbacks
  <2>2. ~InHand("finish")
    BY <2>1 DEF StatusInv
  <2> QED
    BY <2>1, <2>2
<1>3. CASE ProceedFinish
  <2>1. /\ pc = "proceed" /\ event.cause = "finish" /\ pc' = "next"
        /\ UNCHANGED <<active, writesDone, event, ops, rpc, results>>
        /\ \/ rpc = "error" /\ errors' = errors + 1
           \/ rpc = "ok" /\ errors' = errors
    BY <1>3 DEF ProceedFinish, Proceeding, caller, server
  <2> QED
    BY <1>t, <2>1
<1>4. CASE CallFinish
  <2>1. /\ pc = "proceed" /\ pc' = "next"
        /\ (event.cause = "read" /\ ~event.ok) \/ event.cause = "writes_done"
        /\ UNCHANGED <<active, writesDone, event, rpc, results, errors>>
    BY <1>4 DEF CallFinish, Proceeding, caller, server, callbacks
  <2>2. ops'["start_call"] = ops["start_call"] /\ ops'["read"] = ops["read"]
    BY <1>4, <1>t DEF CallFinish, Start, Cause
  <2> QED
    BY <1>t, <2>1, <2>2
<1>5. CASE ProceedStartCall
  <2>1. /\ pc = "proceed" /\ pc' = "next" /\ event.cause = "start_call"
        /\ UNCHANGED <<active, writesDone, event, rpc, results, errors>>
    BY <1>5 DEF ProceedStartCall, Proceeding, caller, server, callbacks
  <2>2. ops'["read"] = ops["read"] + 1
    BY <1>5, <1>t DEF ProceedStartCall, Cause
  <2>3. Reading /\ Reading'
    BY <1>t, <2>1, <2>2
  <2> QED
    BY <1>t, <2>1, <2>3
<1>6. CASE TakeChunk
  <2>1. /\ event.cause \in {"write", "alarm"}
        /\ UNCHANGED <<active, writesDone, event, ops, rpc, results, errors>>
    BY <1>6 DEF TakeChunk, Proceeding, caller, server, callbacks
  <2> QED
    BY <1>t, <2>1
<1>7. CASE SendAudioChunk \/ SendWritesDone \/ ArmAlarm
  <2>1. /\ pc = "branch" /\ pc' = "next"
        /\ UNCHANGED <<active, writesDone, event, rpc, results, errors>>
    BY <1>7 DEF SendAudioChunk, SendWritesDone, ArmAlarm, caller, server, callbacks
  <2>2. event.cause \in {"write", "alarm"}
    BY <2>1 DEF StatusInv
  <2>3. ops'["start_call"] = ops["start_call"] /\ ops'["read"] = ops["read"]
    BY <1>7, <1>t DEF SendAudioChunk, SendWritesDone, ArmAlarm, Start, Cause
  <2> QED
    BY <1>t, <2>1, <2>2, <2>3
<1>8. CASE ProceedRead
  <2>1. /\ pc = "proceed" /\ pc' = "next" /\ event.cause = "read" /\ event.ok
        /\ results' = results + 1
        /\ UNCHANGED <<active, writesDone, event, rpc, errors>>
    BY <1>8 DEF ProceedRead, Proceeding, caller, server
  <2>2. ops'["read"] = ops["read"] + 1
    BY <1>8, <1>t DEF ProceedRead, Start, Cause
  <2>3. Reading /\ Reading'
    BY <1>t, <2>1, <2>2
  <2> QED
    BY <1>t, <2>1, <2>3
<1> QED
  BY <1>1, <1>2, <1>3, <1>4, <1>5, <1>6, <1>7, <1>8 DEF Proceed

\* An event in the worker's hand is a callback begun, the end of the messages, or nothing.
LEMMA DeliveredStep ==
  ASSUME TypeOK, FinishInv, StatusInv, NEW c \in Cause, NEW ok \in BOOLEAN, Deliver(c, ok)
  PROVE  Contract!Result \/ Contract!Error \/ Contract!EndOfMessages \/ UNCHANGED Shown
<1>t. /\ ops \in [Cause -> Nat] /\ ops["read"] \in Nat /\ ops["start_call"] \in Nat
      /\ event \in [cause : Cause, ok : BOOLEAN] /\ active \in BOOLEAN
      /\ errors \in Nat /\ results \in Nat /\ rpc \in {"open", "ok", "error"}
  BY DEF TypeOK, Cause
<1>1. /\ pc = "next" /\ event' = [cause |-> c, ok |-> ok]
      /\ pc' = IF active THEN "proceed" ELSE "next"
      /\ ops' = [ops EXCEPT ![c] = @ - 1] /\ ops[c] > 0
      /\ UNCHANGED <<active, writesDone, rpc, results, errors>>
      /\ Completes(c, ok)
  BY DEF Deliver, caller, server, callbacks
<1>2. Life' = Life
  BY <1>1 DEF Life
<1>3. /\ BegunResults = results
      /\ BegunErrors = errors
      /\ Reading <=> ops["start_call"] > 0 \/ ops["read"] > 0
  BY <1>1, <1>t DEF BegunResults, BegunErrors, Reading, InHand, One
<1>4. CASE ~active
  <2>1. BegunResults' = results /\ BegunErrors' = errors
    BY <1>1, <1>t, <1>4 DEF BegunResults, BegunErrors, InHand, One
  <2>2. Reading' => Reading
    BY <1>1, <1>3, <1>t, <1>4 DEF Reading, InHand, Cause
  <2> QED
    BY <1>1, <1>2, <1>3, <2>1, <2>2
       DEF Shown, Contract!EndOfMessages, Life, Reading, BegunResults, BegunErrors
<1>5. CASE active /\ c = "read" /\ ok
  <2>1. BegunResults' = results + 1 /\ BegunErrors' = errors /\ Reading /\ Reading'
    BY <1>1, <1>3, <1>t, <1>5 DEF BegunResults, BegunErrors, Reading, InHand, One, Cause
  <2> QED
    BY <1>1, <1>2, <1>3, <1>5, <2>1 DEF Contract!Result, Life, Reading, BegunResults, BegunErrors
<1>6. CASE active /\ c = "read" /\ ~ok
  <2>1. BegunResults' = results /\ BegunErrors' = errors /\ Reading
    BY <1>1, <1>3, <1>t, <1>6 DEF BegunResults, BegunErrors, InHand, One, Cause
  <2> QED
    BY <1>1, <1>2, <1>3, <2>1
       DEF Shown, Contract!EndOfMessages, Life, Reading, BegunResults, BegunErrors
<1>7. CASE active /\ c = "start_call"
  <2>1. BegunResults' = results /\ BegunErrors' = errors /\ Reading /\ Reading'
    BY <1>1, <1>3, <1>t, <1>7 DEF BegunResults, BegunErrors, Reading, InHand, One, Cause
  <2> QED
    BY <1>1, <1>2, <1>3, <2>1 DEF Shown
<1>8. CASE active /\ c = "finish"
  <2>1. BegunResults' = results /\ Reading' = Reading
    BY <1>1, <1>3, <1>t, <1>8 DEF BegunResults, Reading, InHand, One, Cause
  <2>2. CASE rpc = "error"
    <3>1. BegunErrors' = errors + 1
      BY <1>1, <1>t, <1>8, <2>2 DEF BegunErrors, InHand, One
    <3>2. errors + 1 <= 2 /\ (~writesDone => errors + 1 <= 1 /\ ~Reading)
      BY <1>1, <1>8, StatusBound
    <3> QED
      BY <1>1, <1>2, <1>3, <1>8, <2>1, <3>1, <3>2
         DEF Contract!Error, Life, Reading, BegunResults, BegunErrors
  <2>3. CASE rpc # "error"
    <3>1. BegunErrors' = errors
      BY <1>1, <1>t, <2>3 DEF BegunErrors, InHand, One
    <3> QED
      BY <1>1, <1>2, <1>3, <2>1, <3>1 DEF Shown
  <2> QED
    BY <2>2, <2>3
<1>9. CASE active /\ c \notin {"read", "start_call", "finish"}
  <2>1. BegunResults' = results /\ BegunErrors' = errors /\ Reading' = Reading
    BY <1>1, <1>3, <1>t, <1>9 DEF BegunResults, BegunErrors, Reading, InHand, One, Cause
  <2> QED
    BY <1>1, <1>2, <1>3, <2>1 DEF Shown
<1> QED
  BY <1>4, <1>5, <1>6, <1>7, <1>8, <1>9

\* The connection calls its channel back as the channel was promised: results while the call
\* has messages, then one error at most, or two once writes_done() was called.
THEOREM ContractRefinement == Spec => KeepsContract
<1>1. Init => StatusInv /\ Contract!CInit
  <2> SUFFICES ASSUME Init PROVE StatusInv /\ Contract!CInit
    OBVIOUS
  <2>1. ops["finish"] = 0
    BY DEF Init, Cause
  <2>2. StatusInv
    BY <2>1 DEF Init, StatusInv, Asked, InHand, One
  <2>3. Contract!CInit
    BY DEF Init, InHand, One, Contract!CInit
  <2> QED
    BY <2>2, <2>3
<1>2. TypeOK /\ FinishInv /\ StatusInv /\ [Next]_vars => [Contract!CNext]_(Contract!connection)
  <2> SUFFICES ASSUME TypeOK, FinishInv, StatusInv, [Next]_vars
               PROVE  Contract!CNext \/ UNCHANGED Shown
    BY DEF Shown, Life, Reading, BegunResults, BegunErrors, Contract!connection
  <2>1. CASE WritesDone
    BY <2>1 DEF WritesDone, server, callbacks, InHand, Contract!CNext, Contract!WritesDone
  <2>2. CASE Disable
    BY <2>2 DEF Disable, server, callbacks, InHand, Contract!CNext, Contract!Disable
  <2>3. CASE \E c \in Cause, ok \in BOOLEAN : Deliver(c, ok)
    BY <2>3, DeliveredStep DEF Contract!CNext
  <2>4. CASE \/ Feed \/ Respond \/ UNCHANGED vars
             \/ \E status \in {"ok", "error"} : EndCall(status)
             \/ Proceed
    BY <2>4, HiddenStep
  <2> QED
    BY <2>1, <2>2, <2>3, <2>4 DEF Next
<1> QED
  BY <1>1, <1>2, TypeCorrect, FinishInit, FinishStep, StatusStep, PTL
     DEF Spec, KeepsContract, Contract!CSpec
==============================================================================
