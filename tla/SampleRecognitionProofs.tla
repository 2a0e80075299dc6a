------------------------ MODULE SampleRecognitionProofs ------------------------
(***************************************************************************)
(* Proofs about SampleRecognition, for audio files of any length and any     *)
(* number of messages.                                                      *)
(***************************************************************************)
EXTENDS SampleRecognition, SequenceLemmas, SequenceTheorems, TLAPS

-----------------------------------------------------------------------------
(* The invariants.                                                          *)

SendingCause == {"start_call", "write", "alarm", "writes_done"}

\* The two directions start together, with one operation that is of both; each can fail once.
\* Only what the end of the call makes fail, fails.
CountInv ==
    /\ Sending <= 1
    /\ Receiving <= 1
    /\ finishCalls + Sending + Receiving <= 2
    /\ finishCalls > 0 => Ended
    /\ pc = "proceed" /\ ~event.ok => Ended /\ event.cause \notin {"finish", "alarm"}
    /\ pc = "branch" => event.cause \in {"write", "alarm"}

\* No operation of the sending direction that could lead to another one is left.
SendingOver ==
    /\ ops["start_call"] = 0 /\ ops["write"] = 0 /\ ops["alarm"] = 0
    /\ pc # "branch"
    /\ pc = "proceed" /\ event.cause \in {"start_call", "write", "alarm"} => ~event.ok

\* It ends with WritesDone, or with a write that fails.
OverInv == halfClosed \/ lostWrite => SendingOver

\* The blocks are in one of three places, in order; in the local `chunk' only between the swap
\* and the branch that follows it.
AudioInv ==
    /\ written \o chunk \o internalBuffer = fed
    /\ pc # "branch" => chunk = <<>>

-----------------------------------------------------------------------------
(* Type correctness.                                                        *)

\* No more messages can be read than were sent.
Typed == TypeOK /\ responses <= sent

\* Numbers of messages.
LEMMA MessageCounts ==
  /\ \A n, m \in 0 .. MaxResponses : n <= m /\ m < MaxResponses =>
        n + 1 \in 0 .. MaxResponses /\ m + 1 \in 0 .. MaxResponses /\ n + 1 <= m + 1
  /\ \A n, m \in 0 .. MaxResponses : n <= m /\ n > 0 => n - 1 \in 0 .. MaxResponses /\ n - 1 <= m
BY SampleAssumption

\* The next block of the file.
LEMMA NextBlock == \A s \in BlockSeq : Len(s) < FileChunks => Len(s) + 1 \in 1 .. FileChunks
BY SampleAssumption DEF BlockSeq

\* Every action keeps the types.
LEMMA TypeStep == Typed /\ [Next]_vars => Typed'
<1> SUFFICES ASSUME Typed, [Next]_vars PROVE Typed'
  OBVIOUS
<1> USE DEF Typed, TypeOK
<1>1. CASE Feed
  <2>1. Len(fed) + 1 \in 1 .. FileChunks
    BY <1>1, NextBlock DEF Feed
  <2>2. fed' \in BlockSeq /\ internalBuffer' \in BlockSeq
    BY <1>1, <2>1 DEF Feed, BlockSeq
  <2> QED
    BY <1>1, <2>2 DEF Feed, client, server, history
<1>2. CASE WritesDone
  BY <1>2 DEF WritesDone, server, stream, history
<1>3. CASE Leave
  BY <1>3 DEF Leave, server, stream, history
<1>4. CASE Respond
  <2>1. /\ sent' \in 0 .. MaxResponses /\ responses' \in 0 .. MaxResponses
        /\ responses' <= sent'
    BY <1>4, MessageCounts DEF Respond
  <2> QED
    BY <1>4, <2>1 DEF Respond, client, stream, history
<1>5. CASE \E status \in {"ok", "error"} : EndCall(status)
  BY <1>5 DEF EndCall, client, stream, history
<1>6. ASSUME NEW c \in Cause, NEW ok \in BOOLEAN, Deliver(c, ok) PROVE Typed'
  <2>1. ops' \in [Cause -> Nat]
    <3>1. ops[c] - 1 \in Nat
      BY <1>6 DEF Deliver
    <3> QED
      BY <1>6, <3>1 DEF Deliver
  <2>2. responses' \in 0 .. MaxResponses /\ responses' <= sent'
    BY <1>6, MessageCounts DEF Deliver, Completes, server
  <2>3. event' \in [cause : Cause, ok : BOOLEAN] /\ lostWrite' \in BOOLEAN
    BY <1>6 DEF Deliver
  <2> QED
    BY <1>6, <2>1, <2>2, <2>3 DEF Deliver, client, server, stream
<1>7. CASE CallFinish
  BY <1>7 DEF CallFinish, Start, Cause, client, server, stream
<1>8. CASE ProceedStartCall
  <2>1. /\ "write" \in Cause /\ ops["write"] + 1 \in Nat
        /\ "read" \in Cause /\ ops["read"] + 1 \in Nat
    BY DEF Cause
  <2>2. ops' \in [Cause -> Nat]
    BY <1>8, <2>1 DEF ProceedStartCall
  <2> QED
    BY <1>8, <2>2 DEF ProceedStartCall, client, server, stream, history
<1>9. CASE TakeChunk
  <2>1. <<>> \in BlockSeq
    BY DEF BlockSeq
  <2> QED
    BY <1>9, <2>1 DEF TakeChunk, client, server, stream, history
<1>10. CASE SendAudioChunk
  <2>1. <<>> \in BlockSeq /\ written' \in BlockSeq
    BY <1>10 DEF BlockSeq, SendAudioChunk
  <2> QED
    BY <1>10, <2>1 DEF SendAudioChunk, Start, Cause, client, server, history
<1>11. CASE SendWritesDone
  BY <1>11 DEF SendWritesDone, Start, Cause, client, server, history
<1>12. CASE ArmAlarm
  BY <1>12 DEF ArmAlarm, Start, Cause, client, server, stream, history
<1>13. CASE ProceedRead
  BY <1>13 DEF ProceedRead, Start, Cause, client, server, stream
<1>14. CASE ProceedEnd
  BY <1>14 DEF ProceedEnd, server, stream, history
<1>15. CASE UNCHANGED vars
  BY <1>15 DEF vars
<1> QED
  BY <1>1, <1>2, <1>3, <1>4, <1>5, <1>6, <1>7, <1>8, <1>9, <1>10, <1>11, <1>12, <1>13,
     <1>14, <1>15 DEF Next, Proceed

\* The types at the start.
LEMMA TypeInit == Init => Typed
<1> SUFFICES ASSUME Init PROVE Typed
  OBVIOUS
<1>1. ops \in [Cause -> Nat]
  BY DEF Init
<1>2. event \in [cause : Cause, ok : BOOLEAN]
  BY DEF Init, Cause
<1>3. <<>> \in BlockSeq
  BY DEF BlockSeq
<1>4. 0 \in 0 .. MaxResponses /\ 0 <= 0
  BY SampleAssumption
<1> QED
  BY <1>1, <1>2, <1>3, <1>4 DEF Init, Typed, TypeOK

\* Every variable keeps its type.
THEOREM TypeCorrect == Spec => []TypeOK
<1>1. Typed => TypeOK
  BY DEF Typed
<1> QED
  BY <1>1, TypeInit, TypeStep, PTL DEF Spec

-----------------------------------------------------------------------------
(* One operation per direction.                                             *)

\* What there is of operations and events, for the steps below.
Counted ==
    /\ ops \in [Cause -> Nat]
    /\ ops["start_call"] \in Nat /\ ops["write"] \in Nat /\ ops["alarm"] \in Nat
    /\ ops["writes_done"] \in Nat /\ ops["read"] \in Nat
    /\ event \in [cause : Cause, ok : BOOLEAN]
    /\ pc \in {"next", "proceed", "branch"}
    /\ finishCalls \in Nat

LEMMA CountTypes == Typed => Counted
BY DEF Typed, TypeOK, Counted, Cause

\* The two counts are naturals.
LEMMA SideTypes == Counted => Sending \in Nat /\ Receiving \in Nat
<1> SUFFICES ASSUME Counted PROVE Sending \in Nat /\ Receiving \in Nat
  OBVIOUS
<1>1. \A condition \in BOOLEAN : One(condition) \in Nat
  BY DEF One
<1> QED
  BY <1>1 DEF Counted, Sending, Receiving, One

\* Taking an operation off the queue creates none.
LEMMA DeliverSides ==
  ASSUME Counted, NEW c \in Cause, NEW ok \in BOOLEAN, Deliver(c, ok)
  PROVE  Sending' <= Sending /\ Receiving' <= Receiving
<1>1. /\ pc = "next" /\ event'.cause = c /\ pc' = "proceed"
      /\ ops' = [ops EXCEPT ![c] = @ - 1] /\ ops[c] > 0
  BY DEF Deliver
<1> USE DEF Counted, Sending, Receiving, One
<1>2. CASE c = "start_call"
  BY <1>1, <1>2 DEF Cause
<1>3. CASE c = "read"
  BY <1>1, <1>3 DEF Cause
<1>4. CASE c = "write"
  BY <1>1, <1>4 DEF Cause
<1>5. CASE c = "writes_done"
  BY <1>1, <1>5 DEF Cause
<1>6. CASE c = "alarm"
  BY <1>1, <1>6 DEF Cause
<1>7. CASE c = "finish"
  BY <1>1, <1>7 DEF Cause
<1> QED
  BY <1>2, <1>3, <1>4, <1>5, <1>6, <1>7 DEF Cause

\* A step of proceed() passes an operation on within its direction; an operation that failed
\* leaves its direction, or both.
LEMMA ProceedSides ==
  ASSUME Counted, pc = "branch" => event.cause \in {"write", "alarm"}, Proceed
  PROVE  /\ ~CallFinish => Sending' <= Sending /\ Receiving' <= Receiving
         /\ CallFinish /\ event.cause \in SendingCause =>
               Sending' + 1 = Sending /\ Receiving' <= Receiving
         /\ CallFinish /\ event.cause = "read" => Sending' = Sending /\ Receiving' + 1 = Receiving
<1> USE DEF Counted, Sending, Receiving, One, Proceeding, SendingCause
<1>1. CASE CallFinish
  <2>1. pc = "proceed" /\ pc' = "next" /\ event' = event
    BY <1>1 DEF CallFinish
  <2>2. /\ ops'["start_call"] = ops["start_call"] /\ ops'["write"] = ops["write"]
        /\ ops'["alarm"] = ops["alarm"] /\ ops'["writes_done"] = ops["writes_done"]
        /\ ops'["read"] = ops["read"]
    BY <1>1 DEF CallFinish, Start, Cause
  <2> QED
    BY <1>1, <2>1, <2>2
<1>2. CASE ProceedStartCall
  <2>1. pc = "proceed" /\ event.cause = "start_call" /\ event.ok /\ pc' = "next" /\ event' = event
    BY <1>2 DEF ProceedStartCall
  <2>2. ops'["write"] = ops["write"] + 1 /\ ops'["read"] = ops["read"] + 1
    BY <1>2 DEF ProceedStartCall, Cause
  <2>3. /\ ops'["start_call"] = ops["start_call"] /\ ops'["alarm"] = ops["alarm"]
        /\ ops'["writes_done"] = ops["writes_done"]
    BY <1>2 DEF ProceedStartCall, Cause
  <2> QED
    BY <2>1, <2>2, <2>3 DEF CallFinish
<1>3. CASE TakeChunk
  <2>1. /\ pc = "proceed" /\ event.cause \in {"write", "alarm"} /\ event.ok
        /\ pc' \in {"next", "branch"} /\ event' = event /\ ops' = ops
    BY <1>3 DEF TakeChunk
  <2> QED
    BY <2>1 DEF CallFinish
<1>4. CASE SendAudioChunk
  BY <1>4 DEF SendAudioChunk, CallFinish, Start, Cause
<1>5. CASE SendWritesDone
  BY <1>5 DEF SendWritesDone, CallFinish, Start, Cause
<1>6. CASE ArmAlarm
  BY <1>6 DEF ArmAlarm, CallFinish, Start, Cause
<1>7. CASE ProceedRead
  BY <1>7 DEF ProceedRead, CallFinish, Start, Cause
<1>8. CASE ProceedEnd
  <2>1. /\ pc = "proceed" /\ event.cause \in {"writes_done", "finish"} /\ event.ok
        /\ pc' = "next" /\ event' = event /\ ops' = ops
    BY <1>8 DEF ProceedEnd
  <2> QED
    BY <2>1 DEF CallFinish
<1> QED
  BY <1>1, <1>2, <1>3, <1>4, <1>5, <1>6, <1>7, <1>8 DEF Proceed

\* The counts when no operation is added, and when one turns into a Finish().
LEMMA CountSums ==
  \A f, s, r, s1, r1 \in Nat :
    /\ s1 <= s /\ r1 <= r /\ s <= 1 /\ r <= 1 /\ f + s + r <= 2 =>
          s1 <= 1 /\ r1 <= 1 /\ f + s1 + r1 <= 2
    /\ s1 + 1 = s /\ r1 <= r /\ s <= 1 /\ r <= 1 /\ f + s + r <= 2 =>
          s1 <= 1 /\ r1 <= 1 /\ (f + 1) + s1 + r1 <= 2
    /\ s1 = s /\ r1 + 1 = r /\ s <= 1 /\ r <= 1 /\ f + s + r <= 2 =>
          s1 <= 1 /\ r1 <= 1 /\ (f + 1) + s1 + r1 <= 2
OBVIOUS

\* CountInv is inductive.
LEMMA CountStep == Typed /\ CountInv /\ [Next]_vars => CountInv'
<1> SUFFICES ASSUME Typed, CountInv, [Next]_vars PROVE CountInv'
  OBVIOUS
<1>c. /\ Counted /\ finishCalls \in Nat /\ Sending \in Nat /\ Receiving \in Nat
      /\ Counted' /\ Sending' \in Nat /\ Receiving' \in Nat
  <2>1. Typed'
    BY TypeStep
  <2>2. Counted /\ Counted'
    <3>1. (Typed => Counted)'
      BY CountTypes, PTL
    <3> QED
      BY <2>1, <3>1, CountTypes
  <2>3. (Counted => Sending \in Nat /\ Receiving \in Nat)'
    BY SideTypes, PTL
  <2> QED
    BY <2>2, <2>3, SideTypes DEF Counted
<1>i. /\ Sending <= 1 /\ Receiving <= 1 /\ finishCalls + Sending + Receiving <= 2
      /\ finishCalls > 0 => Ended
      /\ pc = "proceed" /\ ~event.ok => Ended /\ event.cause \notin {"finish", "alarm"}
      /\ pc = "branch" => event.cause \in {"write", "alarm"}
  BY DEF CountInv
<1>1. CASE Feed \/ WritesDone \/ Leave \/ Respond \/ UNCHANGED vars
           \/ \E status \in {"ok", "error"} : EndCall(status)
  <2>1. UNCHANGED <<pc, event, ops, finishCalls>>
    BY <1>1 DEF Feed, WritesDone, Leave, Respond, EndCall, vars, history
  <2>2. Sending' = Sending /\ Receiving' = Receiving
    BY <2>1 DEF Sending, Receiving, One
  <2>3. Ended => Ended'
    BY <1>1 DEF Feed, WritesDone, Leave, Respond, EndCall, vars, server, Ended
  <2> QED
    BY <1>i, <2>1, <2>2, <2>3 DEF CountInv
<1>2. ASSUME NEW c \in Cause, NEW ok \in BOOLEAN, Deliver(c, ok) PROVE CountInv'
  <2>1. Sending' <= Sending /\ Receiving' <= Receiving
    BY <1>c, <1>2, DeliverSides
  <2>2. /\ finishCalls' = finishCalls /\ rpc' = rpc /\ pc' = "proceed"
        /\ event' = [cause |-> c, ok |-> ok] /\ Completes(c, ok)
    BY <1>2 DEF Deliver, server
  <2>3. Sending' <= 1 /\ Receiving' <= 1 /\ finishCalls + Sending' + Receiving' <= 2
    BY <1>c, <1>i, <2>1, CountSums
  <2>4. ~ok => Ended /\ c \notin {"finish", "alarm"}
    BY <2>2 DEF Completes, Ended, Cause
  <2> QED
    BY <1>i, <2>2, <2>3, <2>4 DEF CountInv, Ended
<1>3. CASE CallFinish
  <2>1. /\ finishCalls' = finishCalls + 1 /\ rpc' = rpc /\ pc' = "next"
        /\ pc = "proceed" /\ ~event.ok
    BY <1>3 DEF CallFinish, server
  <2>2. event.cause \in SendingCause \/ event.cause = "read"
    BY <1>c, <1>i, <2>1 DEF Counted, Cause, SendingCause
  <2>3. Sending' <= 1 /\ Receiving' <= 1 /\ (finishCalls + 1) + Sending' + Receiving' <= 2
    <3>1. CASE event.cause \in SendingCause
      <4>1. Sending' + 1 = Sending /\ Receiving' <= Receiving
        BY <1>c, <1>i, <1>3, <3>1, ProceedSides DEF Proceed
      <4> QED
        BY <1>c, <1>i, <4>1, CountSums
    <3>2. CASE event.cause = "read"
      <4>1. Sending' = Sending /\ Receiving' + 1 = Receiving
        BY <1>c, <1>i, <1>3, <3>2, ProceedSides DEF Proceed
      <4> QED
        BY ZenonT(30), <1>c, <1>i, <4>1, CountSums
    <3> QED
      BY <2>2, <3>1, <3>2
  <2> QED
    BY <1>i, <2>1, <2>3 DEF CountInv, Ended
<1>4. CASE Proceed /\ ~CallFinish
  <2>1. Sending' <= Sending /\ Receiving' <= Receiving
    BY <1>c, <1>i, <1>4, ProceedSides
  <2>2. Sending' <= 1 /\ Receiving' <= 1 /\ finishCalls + Sending' + Receiving' <= 2
    BY <1>c, <1>i, <2>1, CountSums
  <2>3. finishCalls' = finishCalls /\ rpc' = rpc /\ pc' \in {"next", "branch"}
    BY <1>4 DEF Proceed, ProceedStartCall, TakeChunk, SendAudioChunk, SendWritesDone, ArmAlarm,
                ProceedRead, ProceedEnd, server, history
  <2>4. pc' = "branch" => event'.cause \in {"write", "alarm"}
    BY <1>4 DEF Proceed, ProceedStartCall, TakeChunk, SendAudioChunk, SendWritesDone, ArmAlarm,
                ProceedRead, ProceedEnd, Proceeding
  <2> QED
    BY <1>i, <2>2, <2>3, <2>4 DEF CountInv, Ended
<1> QED
  BY <1>1, <1>2, <1>3, <1>4 DEF Next, Proceed

\* The constructor starts one operation.
LEMMA CountInit == Init => CountInv
<1> SUFFICES ASSUME Init PROVE CountInv
  OBVIOUS
<1>1. /\ ops["start_call"] = 1 /\ ops["write"] = 0 /\ ops["alarm"] = 0
      /\ ops["writes_done"] = 0 /\ ops["read"] = 0
  BY DEF Init, Cause
<1>2. Sending = 1 /\ Receiving = 1
  BY <1>1 DEF Init, Sending, Receiving, One
<1> QED
  BY <1>2 DEF Init, CountInv

\* No two operations of a direction overlap, and Finish() is called twice at most, when both
\* directions have failed and nothing else is left.
THEOREM OneOperation == Spec => []OneOpPerDirection
<1>1. Typed /\ CountInv => OneOpPerDirection
  <2> SUFFICES ASSUME Typed, CountInv PROVE OneOpPerDirection
    OBVIOUS
  <2>1. finishCalls \in Nat /\ Sending \in Nat /\ Receiving \in Nat
    BY CountTypes, SideTypes DEF Counted
  <2>2. finishCalls + Sending + Receiving <= 2
    BY DEF CountInv
  <2>3. finishCalls <= 2 /\ (finishCalls = 2 => Sending = 0 /\ Receiving = 0)
    <3>1. \A f, s, r \in Nat : f + s + r <= 2 => f <= 2 /\ (f = 2 => s = 0 /\ r = 0)
      OBVIOUS
    <3> QED
      BY <2>1, <2>2, <3>1
  <2> QED
    BY <2>1, <2>3 DEF CountInv, OneOpPerDirection
<1> QED
  BY <1>1, TypeInit, TypeStep, CountInit, CountStep, PTL DEF Spec

-----------------------------------------------------------------------------
(* The end of the sending direction.                                        *)

\* OverInv is inductive: WritesDone, or the write that failed, was the one operation.
LEMMA OverStep == Typed /\ CountInv /\ OverInv /\ [Next]_vars => OverInv'
<1> SUFFICES ASSUME Typed, CountInv, OverInv, [Next]_vars PROVE OverInv'
  OBVIOUS
<1>c. Counted
  BY CountTypes
<1>s. \A c \in {"start_call", "write", "alarm", "writes_done"} : ops[c] \in Nat
  BY <1>c DEF Counted
<1> USE DEF OverInv, SendingOver
<1>1. CASE Feed \/ WritesDone \/ Leave \/ Respond \/ UNCHANGED vars
           \/ \E status \in {"ok", "error"} : EndCall(status)
  <2>1. UNCHANGED <<pc, event, ops, halfClosed, lostWrite>>
    BY <1>1 DEF Feed, WritesDone, Leave, Respond, EndCall, vars, stream, history
  <2> QED
    BY <2>1
<1>2. ASSUME NEW c \in Cause, NEW ok \in BOOLEAN, Deliver(c, ok) PROVE OverInv'
  <2>1. /\ pc = "next" /\ pc' = "proceed" /\ event' = [cause |-> c, ok |-> ok]
        /\ halfClosed' = halfClosed /\ ops' = [ops EXCEPT ![c] = @ - 1] /\ ops[c] > 0
        /\ lostWrite' => lostWrite \/ (c = "write" /\ ~ok)
    BY <1>2 DEF Deliver, stream
  <2>2. CASE halfClosed \/ lostWrite
    <3>1. c \notin {"start_call", "write", "alarm"}
      BY <2>1, <2>2
    <3>2. \A d \in {"start_call", "write", "alarm"} : ops'[d] = ops[d]
      BY <1>c, <2>1, <3>1 DEF Counted, Cause
    <3> QED
      BY <2>1, <2>2, <3>1, <3>2
  <2>3. CASE ~halfClosed /\ ~lostWrite /\ c = "write" /\ ~ok
    <3>1. ops["start_call"] = 0 /\ ops["write"] = 1 /\ ops["alarm"] = 0
      <4>1. One(pc # "next" /\ event.cause \in SendingCause) = 0
        BY <2>1 DEF One
      <4>2. ops["start_call"] + ops["write"] + ops["alarm"] + ops["writes_done"] + 0 <= 1
        BY <4>1 DEF CountInv, Sending, SendingCause
      <4> QED
        BY <1>c, <2>1, <2>3, <4>2 DEF Counted
    <3> QED
      BY <1>c, <2>1, <2>3, <3>1 DEF Counted, Cause
  <2> QED
    BY <2>1, <2>2, <2>3
<1>3. CASE CallFinish \/ ProceedRead \/ ProceedEnd
  <2>1. pc' = "next" /\ halfClosed' = halfClosed /\ lostWrite' = lostWrite
    BY <1>3 DEF CallFinish, ProceedRead, ProceedEnd, stream, history
  <2>2. ops' = ops \/ ops' = [ops EXCEPT !["finish"] = @ + 1] \/ ops' = [ops EXCEPT !["read"] = @ + 1]
    BY <1>3 DEF CallFinish, ProceedRead, ProceedEnd, Start
  <2>3. \A d \in {"start_call", "write", "alarm"} : ops'[d] = ops[d]
    BY <1>c, <2>2 DEF Counted, Cause
  <2> QED
    BY <2>1, <2>3
<1>4. CASE ProceedStartCall \/ TakeChunk
  BY <1>4 DEF ProceedStartCall, TakeChunk, Proceeding, stream, history
<1>5. CASE SendAudioChunk \/ ArmAlarm
  BY <1>5 DEF SendAudioChunk, ArmAlarm, stream, history
<1>6. CASE SendWritesDone
  <2>1. ops["start_call"] = 0 /\ ops["write"] = 0 /\ ops["alarm"] = 0
    <3>1. pc = "branch" /\ event.cause \in SendingCause
      BY <1>6 DEF SendWritesDone, CountInv, SendingCause
    <3>2. One(pc # "next" /\ event.cause \in SendingCause) = 1
      BY <3>1 DEF One
    <3>3. ops["start_call"] + ops["write"] + ops["alarm"] + ops["writes_done"] + 1 <= 1
      BY <3>2 DEF CountInv, Sending, SendingCause
    <3> QED
      BY <1>c, <3>3 DEF Counted
  <2>2. ops' = [ops EXCEPT !["writes_done"] = @ + 1] /\ pc' = "next"
    BY <1>6 DEF SendWritesDone, Start
  <2> QED
    BY <1>c, <2>1, <2>2 DEF Counted, Cause
<1> QED
  BY <1>1, <1>2, <1>3, <1>4, <1>5, <1>6 DEF Next, Proceed

\* Only Feed and the branch touch the audio and the end of the stream.
LEMMA StreamQuiet ==
  ASSUME [Next]_vars, ~Feed, ~SendAudioChunk, ~SendWritesDone
  PROVE  UNCHANGED <<fed, written, halfClosed>>
<1>1. CASE WritesDone \/ Leave \/ Respond \/ UNCHANGED vars
           \/ \E status \in {"ok", "error"} : EndCall(status)
  BY <1>1 DEF WritesDone, Leave, Respond, EndCall, vars, stream
<1>2. ASSUME NEW c \in Cause, NEW ok \in BOOLEAN, Deliver(c, ok)
      PROVE  UNCHANGED <<fed, written, halfClosed>>
  BY <1>2 DEF Deliver, stream
<1>3. CASE CallFinish \/ ProceedStartCall \/ TakeChunk \/ ArmAlarm \/ ProceedRead \/ ProceedEnd
  BY <1>3 DEF CallFinish, ProceedStartCall, TakeChunk, ArmAlarm, ProceedRead, ProceedEnd, stream
<1> QED
  BY <1>1, <1>2, <1>3 DEF Next, Proceed

\* The counts and the end of the sending direction, at the start.
LEMMA OverInit == Init => OverInv
BY DEF Init, OverInv

\* After a write that failed no audio and no WritesDone follow it.
THEOREM QuietAfterLostWrite == Spec => NothingAfterLostWrite
<1>1. OverInv /\ [Next]_vars => [lostWrite => written' = written /\ halfClosed' = halfClosed]_vars
  <2> SUFFICES ASSUME OverInv, [Next]_vars, lostWrite
               PROVE  written' = written /\ halfClosed' = halfClosed
    BY DEF vars
  <2>1. pc # "branch"
    BY DEF OverInv, SendingOver
  <2>2. ~SendAudioChunk /\ ~SendWritesDone
    BY <2>1 DEF SendAudioChunk, SendWritesDone
  <2>3. CASE Feed
    BY <2>3 DEF Feed
  <2> QED
    BY <2>2, <2>3, StreamQuiet
<1> QED
  BY <1>1, TypeInit, TypeStep, CountInit, CountStep, OverInit, OverStep, PTL
     DEF Spec, NothingAfterLostWrite

-----------------------------------------------------------------------------
(* The audio.                                                               *)

\* AudioInv is inductive.
LEMMA AudioStep == Typed /\ AudioInv /\ [Next]_vars => AudioInv'
<1> SUFFICES ASSUME Typed, AudioInv, [Next]_vars PROVE AudioInv'
  OBVIOUS
<1>t. /\ fed \in BlockSeq /\ written \in BlockSeq /\ chunk \in BlockSeq
      /\ internalBuffer \in BlockSeq
  BY DEF Typed, TypeOK
<1> USE DEF AudioInv, BlockSeq
<1>1. CASE Feed
  <2>1. Len(fed) + 1 \in 1 .. FileChunks
    BY <1>1, <1>t, NextBlock DEF Feed
  <2>2. written \o chunk \o Append(internalBuffer, Len(fed) + 1)
        = Append(written \o chunk \o internalBuffer, Len(fed) + 1)
    <3>1. PICK x \in 1 .. FileChunks : x = Len(fed) + 1
      BY <2>1
    <3>2. written \o chunk \in Seq(1 .. FileChunks)
      BY <1>t
    <3>3. PICK front \in Seq(1 .. FileChunks) : front = written \o chunk
      BY <3>2
    <3>4. front \o Append(internalBuffer, x) = Append(front \o internalBuffer, x)
      BY <1>t, AppendToConcat
    <3> QED
      BY <3>1, <3>3, <3>4
  <2> QED
    BY <1>1, <2>2 DEF Feed
<1>2. CASE TakeChunk
  <2>1. pc = "proceed" /\ chunk = <<>>
    BY <1>2 DEF TakeChunk, Proceeding
  <2>2. UNCHANGED <<written, fed>>
    BY <1>2 DEF TakeChunk, stream
  <2>3. CASE event.cause = "alarm" /\ writePending
    BY <1>2, <2>1, <2>2, <2>3 DEF TakeChunk
  <2>4. CASE ~(event.cause = "alarm" /\ writePending)
    <3>1. chunk' = internalBuffer /\ internalBuffer' = <<>> /\ pc' = "branch"
      BY <1>2, <2>4 DEF TakeChunk
    <3>2. written \o <<>> \o internalBuffer = written \o internalBuffer \o <<>>
      BY <1>t
    <3> QED
      BY <2>1, <2>2, <3>1, <3>2
  <2> QED
    BY <2>3, <2>4
<1>3. CASE SendAudioChunk
  <2>1. written \o chunk \o <<>> = written \o chunk
    BY <1>t
  <2> QED
    BY <1>3, <2>1 DEF SendAudioChunk
<1>4. CASE SendWritesDone \/ ArmAlarm
  BY <1>4 DEF SendWritesDone, ArmAlarm, stream
<1>5. CASE CallFinish \/ ProceedStartCall \/ ProceedRead \/ ProceedEnd
  BY <1>5 DEF CallFinish, ProceedStartCall, ProceedRead, ProceedEnd, Proceeding, stream
<1>6. CASE WritesDone \/ Leave \/ Respond \/ \E status \in {"ok", "error"} : EndCall(status)
  BY <1>6 DEF WritesDone, Leave, Respond, EndCall, stream
<1>7. ASSUME NEW c \in Cause, NEW ok \in BOOLEAN, Deliver(c, ok) PROVE AudioInv'
  BY <1>7 DEF Deliver, stream
<1>8. CASE UNCHANGED vars
  BY <1>8 DEF vars
<1> QED
  BY <1>1, <1>2, <1>3, <1>4, <1>5, <1>6, <1>7, <1>8 DEF Next, Proceed

\* The sample sends its file as the audio stream demands: in order, without gaps, and nothing
\* once the stream was closed.
THEOREM StreamRefinement == Spec => ImplementsStream
<1>1. Init => AudioInv /\ Stream!AInit
  BY DEF Init, AudioInv, Stream!AInit
<1>2. Typed /\ OverInv /\ AudioInv /\ [Next]_vars => [Stream!ANext]_(Stream!avars)
  <2> SUFFICES ASSUME Typed, OverInv, AudioInv, [Next]_vars
               PROVE  Stream!ANext \/ UNCHANGED <<fed, written, halfClosed>>
    BY DEF Stream!avars
  <2>1. CASE Feed
    BY <2>1 DEF Feed, Stream!ANext, Stream!Feed
  <2>2. CASE SendAudioChunk
    <3>1. ~halfClosed /\ chunk # <<>>
      BY <2>2 DEF SendAudioChunk, OverInv, SendingOver
    <3>2. /\ written \in BlockSeq /\ chunk \in BlockSeq /\ internalBuffer \in BlockSeq
          /\ fed = written \o chunk \o internalBuffer
      BY DEF Typed, TypeOK, AudioInv
    <3>3. \E n \in (Len(written) + 1) .. Len(fed) : written \o chunk = SubSeq(fed, 1, n)
      <4>1. written \o chunk \in Seq(1 .. FileChunks)
        BY <3>2 DEF BlockSeq
      <4>2. PICK front \in Seq(1 .. FileChunks) : front = written \o chunk
        BY <4>1
      <4>3. /\ Len(front) \in (Len(written) + 1) .. Len(front \o internalBuffer)
            /\ front = SubSeq(front \o internalBuffer, 1, Len(front))
        BY <3>1, <3>2, <4>2, LongerPrefix DEF BlockSeq
      <4> QED
        BY <3>2, <4>2, <4>3
    <3>4. written' = written \o chunk /\ UNCHANGED <<fed, halfClosed>>
      BY <2>2 DEF SendAudioChunk
    <3> QED
      BY <3>1, <3>3, <3>4 DEF Stream!ANext, Stream!Transmit
  <2>3. CASE SendWritesDone
    BY <2>3 DEF SendWritesDone, OverInv, SendingOver, Stream!ANext, Stream!Close
  <2> QED
    BY <2>1, <2>2, <2>3, StreamQuiet
<1> QED
  BY <1>1, <1>2, TypeInit, TypeStep, CountInit, CountStep, OverInit, OverStep, AudioStep, PTL
     DEF Spec, ImplementsStream, Stream!ASpec
==============================================================================
