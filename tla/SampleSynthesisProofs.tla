------------------------- MODULE SampleSynthesisProofs -------------------------
(***************************************************************************)
(* Proofs about SampleSynthesis, for calls of any number of messages.        *)
(***************************************************************************)
EXTENDS SampleSynthesis, SequenceTheorems, TLAPS

-----------------------------------------------------------------------------
(* The invariants.                                                          *)

\* One operation is outstanding, or in the worker's hand, until the status of the call has
\* been reported; then there is none, and main() goes on from there only.
OneOp ==
    /\ op.cause = "none" => op = NoOp
    /\ op.cause = "finish" /\ op.done => op.ok
    /\ op # NoOp => pc = "next"
    /\ finish => op = NoOp /\ pc \in {"next", "exit"}
    /\ main # "waiting" => finish

\* A message that arrived and is not in the file yet.
InFlight ==
    \/ op.cause = "read" /\ op.done /\ op.ok
    \/ Proceeding("read")

\* The reading has stopped.
Stopped ==
    \/ finish
    \/ op.done /\ ~op.ok
    \/ pc = "proceed" /\ ~event.ok
    \/ op.cause = "finish"
    \/ pc = "proceed" /\ event.cause = "finish"

\* response_ holds the message in flight, which is the last one received; the file has the
\* others.  The reading stops only at the end of the call, when nothing is in flight.
FileInv ==
    /\ received = Len(file) + (IF InFlight THEN 1 ELSE 0)
    /\ InFlight => response = received
    /\ \A i \in DOMAIN file : file[i] = i
    /\ Stopped => /\ ~InFlight
                  /\ Ended
                  /\ rpc = "ok" => received = sent

\* The types of what the control invariant reads.
Control ==
    /\ main \in {"waiting", "closed", "destroyed", "left"}
    /\ finish \in BOOLEAN
    /\ pc \in {"next", "proceed", "read", "exit"}
    /\ event \in [cause : Causes, done : BOOLEAN, ok : BOOLEAN]
    /\ op \in [cause : Causes, done : BOOLEAN, ok : BOOLEAN]

\* A completion marks the operation outstanding, and changes nothing else of the control.
LEMMA GrpcStep ==
  ASSUME Control, OneOp, Grpc
  PROVE  /\ op.cause # "none" /\ ~op.done
         /\ op'.cause = op.cause /\ op'.done /\ op'.ok \in BOOLEAN
         /\ op' \in [cause : Causes, done : BOOLEAN, ok : BOOLEAN]
         /\ op.cause = "finish" => op'.ok
         /\ UNCHANGED <<main, finish, pc, event>>
<1> USE DEF Control, Pending, Completed, worker
<1>1. CASE CompleteStart
  BY <1>1 DEF CompleteStart
<1>2. CASE Arrive
  BY <1>2 DEF Arrive
<1>3. CASE NoMore
  BY <1>3 DEF NoMore
<1>4. CASE CompleteFinish
  BY <1>4 DEF CompleteFinish
<1> QED
  BY <1>1, <1>2, <1>3, <1>4 DEF Grpc

\* A step of proceed() starts the next operation, or none.
LEMMA WorkerStep ==
  ASSUME Control, OneOp, CallFinish \/ ProceedStartCall \/ OnRead \/ ReadNext \/ ProceedFinish
  PROVE  /\ pc \in {"proceed", "read"} /\ op = NoOp /\ ~op.done /\ op.cause = "none"
         /\ ~finish /\ main = "waiting" /\ UNCHANGED <<main, event>>
         /\ op' \in [cause : Causes, done : BOOLEAN, ok : BOOLEAN] /\ ~op'.done
         /\ \/ ~finish' /\ pc' = "next" /\ op'.cause \in {"read", "finish"}
            \/ ~finish' /\ pc' = "read" /\ op' = op
            \/ finish' /\ pc' = "next" /\ op' = op
         /\ finish' \in BOOLEAN
<1>1. pc \in {"proceed", "read"}
  BY DEF CallFinish, ProceedStartCall, OnRead, ReadNext, ProceedFinish, Proceeding
<1>2. op = NoOp /\ ~finish
  BY <1>1 DEF OneOp
<1>3. main = "waiting"
  BY <1>2 DEF OneOp
<1>4. UNCHANGED <<main, event>>
  BY DEF CallFinish, ProceedStartCall, OnRead, ReadNext, ProceedFinish
<1>5. ~op.done /\ op.cause = "none" /\ op \in [cause : Causes, done : BOOLEAN, ok : BOOLEAN]
  BY <1>2 DEF Op, NoOp, Causes
<1>6. CASE CallFinish \/ ProceedStartCall \/ ReadNext
  <2>1. ~finish' /\ finish' \in BOOLEAN /\ pc' = "next"
    BY <1>2, <1>6 DEF CallFinish, ProceedStartCall, ReadNext, Start, Control
  <2>2. op' = Op("read") \/ op' = Op("finish")
    BY <1>6 DEF CallFinish, ProceedStartCall, ReadNext, Start
  <2>3. /\ op' \in [cause : Causes, done : BOOLEAN, ok : BOOLEAN] /\ ~op'.done
        /\ op'.cause \in {"read", "finish"}
    <3>1. \A cause \in {"read", "finish"} :
             /\ Op(cause) \in [cause : Causes, done : BOOLEAN, ok : BOOLEAN]
             /\ ~Op(cause).done /\ Op(cause).cause = cause
      BY DEF Op, Causes
    <3> QED
      BY <2>2, <3>1
  <2> QED
    BY <1>1, <1>2, <1>3, <1>4, <1>5, <2>1, <2>3
<1>7. CASE OnRead
  <2>1. op' = op /\ ~finish' /\ finish' \in BOOLEAN /\ pc' = "read"
    BY <1>2, <1>7 DEF OnRead, Control
  <2> QED
    BY <1>1, <1>2, <1>3, <1>4, <1>5, <2>1
<1>8. CASE ProceedFinish
  <2>1. op' = op /\ finish' /\ finish' \in BOOLEAN /\ pc' = "next"
    BY <1>8 DEF ProceedFinish
  <2> QED
    BY <1>1, <1>2, <1>3, <1>4, <1>5, <2>1
<1> QED
  BY <1>6, <1>7, <1>8

\* The control of the worker and of main() keeps one operation at a time.
LEMMA ControlStep == Control /\ OneOp /\ [Next]_vars => Control' /\ OneOp'
<1> SUFFICES ASSUME Control, OneOp, [Next]_vars PROVE Control' /\ OneOp'
  OBVIOUS
<1> USE DEF Control, OneOp, Causes, NoOp, Op
<1>1. CASE Respond \/ EndRpc
  BY <1>1 DEF Respond, EndRpc, worker
<1>2. CASE Grpc
  BY <1>2, GrpcStep
<1>3. CASE Deliver
  BY <1>3 DEF Deliver
<1>4. CASE CallFinish \/ ProceedStartCall \/ OnRead \/ ReadNext \/ ProceedFinish
  <2>1. CASE op'.cause \in {"read", "finish"} /\ ~finish' /\ pc' = "next"
    BY <1>4, <2>1, WorkerStep
  <2>2. CASE op' = op
    BY <1>4, <2>2, WorkerStep
  <2> QED
    BY <1>4, <2>1, <2>2, WorkerStep
<1>5. CASE SeeFinish \/ DestroyConnection \/ JoinWorker
  BY <1>5 DEF SeeFinish, DestroyConnection, JoinWorker, Step, worker
<1>6. CASE UNCHANGED vars
  BY <1>6 DEF vars, worker
<1> QED
  BY <1>1, <1>2, <1>3, <1>4, <1>5, <1>6 DEF Next, Worker, Main

\* Where a message in flight comes from and goes to: it arrives once, and OnRead takes it.
LEMMA FlightStep ==
  ASSUME Control, OneOp, Next
  PROVE  /\ Arrive => ~InFlight /\ InFlight'
         /\ OnRead => InFlight /\ ~InFlight'
         /\ ~Arrive /\ ~OnRead => (InFlight' <=> InFlight)
<1> USE DEF Control, OneOp, Causes, NoOp, Op, InFlight, Proceeding
<1>1. CASE Respond \/ EndRpc
  BY <1>1 DEF Respond, EndRpc, Arrive, Pending, Completed, OnRead, worker
<1>2. CASE Grpc
  <2>1. ~OnRead
    BY <1>2, GrpcStep DEF OnRead
  <2>2. Arrive => op.cause = "read" /\ op'.ok
    BY DEF Arrive, Pending, Completed
  <2>3. op.cause = "read" /\ op'.ok => Arrive
    BY <1>2 DEF Grpc, CompleteStart, NoMore, CompleteFinish, Pending, Completed
  <2> QED
    BY <1>2, <2>1, <2>2, <2>3, GrpcStep
<1>3. CASE Deliver
  BY <1>3 DEF Deliver, Arrive, OnRead, Pending
<1>4. CASE CallFinish \/ ProceedStartCall \/ OnRead \/ ReadNext \/ ProceedFinish
  <2>1. ~Arrive
    BY <1>4, WorkerStep DEF Arrive, Pending
  <2>2. OnRead => Proceeding("read")
    BY DEF OnRead
  <2>3. Proceeding("read") => OnRead
    BY <1>4 DEF CallFinish, ProceedStartCall, ReadNext, ProceedFinish
  <2>4. ~InFlight'
    BY <1>4, WorkerStep
  <2> QED
    BY <1>4, <2>1, <2>2, <2>3, <2>4, WorkerStep
<1>5. CASE SeeFinish \/ DestroyConnection \/ JoinWorker
  BY <1>5 DEF SeeFinish, DestroyConnection, JoinWorker, Step, worker, Arrive, OnRead, Pending
<1> QED
  BY <1>1, <1>2, <1>3, <1>4, <1>5 DEF Next, Worker, Main

\* The reading stops when a completion fails, and stays stopped.
LEMMA StopStep ==
  ASSUME Control, OneOp, Next, Stopped', ~Stopped
  PROVE  /\ rpc = "error" \/ (rpc = "ok" /\ received = sent)
         /\ UNCHANGED <<rpc, sent, received>>
<1> USE DEF Control, OneOp, Causes, NoOp, Op, Stopped, Proceeding
<1>1. CASE Respond \/ EndRpc
  BY <1>1 DEF Respond, EndRpc, worker
<1>2. CASE Grpc
  BY <1>2 DEF Grpc, CompleteStart, Arrive, NoMore, CompleteFinish, Pending, Completed, worker,
              service
<1>3. CASE Deliver
  BY <1>3 DEF Deliver
<1>4. CASE CallFinish \/ ProceedStartCall \/ OnRead \/ ReadNext \/ ProceedFinish
  BY <1>4 DEF CallFinish, ProceedStartCall, OnRead, ReadNext, ProceedFinish, Start
<1>5. CASE SeeFinish \/ DestroyConnection \/ JoinWorker
  BY <1>5 DEF SeeFinish, DestroyConnection, JoinWorker, Step, worker
<1> QED
  BY <1>1, <1>2, <1>3, <1>4, <1>5 DEF Next, Worker, Main

\* Nothing is in flight when the reading has stopped.
LEMMA StoppedIsClear == Control /\ OneOp /\ Stopped => ~InFlight
<1> SUFFICES ASSUME Control, OneOp, Stopped PROVE ~InFlight
  OBVIOUS
<1>1. op.done => op # NoOp
  BY DEF NoOp, Op
<1> QED
  BY <1>1 DEF Control, OneOp, Stopped, InFlight, Proceeding, NoOp, Op

\* What the library and the file hold.
Data ==
    /\ rpc \in {"open", "ok", "error"}
    /\ sent \in 0 .. MaxMessages
    /\ received \in 0 .. sent
    /\ response \in 0 .. sent
    /\ file \in Seq(1 .. sent)

\* The types and the file, at every step.
LEMMA FileStep ==
  Control /\ Data /\ OneOp /\ FileInv /\ [Next]_vars => Data' /\ FileInv'
<1> SUFFICES ASSUME Control, Data, OneOp, FileInv, [Next]_vars PROVE Data' /\ FileInv'
  OBVIOUS
<1>t. /\ MaxMessages \in Nat /\ sent \in Nat /\ sent <= MaxMessages
      /\ received \in Nat /\ received <= sent /\ response \in Nat /\ response <= sent
      /\ file \in Seq(1 .. sent) /\ Len(file) \in Nat
  BY MessagesAssumption DEF Data
<1>c. Control' /\ OneOp'
  BY ControlStep
<1>1. Stopped' => ~InFlight'
  <2>1. (Control /\ OneOp /\ Stopped => ~InFlight)'
    BY StoppedIsClear, PTL
  <2> QED
    BY <1>c, <2>1
<1>2. CASE Arrive
  <2>1. /\ sent' = sent /\ rpc' = rpc /\ file' = file
        /\ received' = received + 1 /\ response' = received + 1 /\ received < sent
    BY <1>2 DEF Arrive, service
  <2>2. ~InFlight /\ InFlight'
    BY <1>2, FlightStep DEF Next, Grpc
  <2>3. Data'
    BY <1>t, <2>1 DEF Data
  <2> QED
    BY <1>t, <1>1, <2>1, <2>2, <2>3 DEF FileInv
<1>3. CASE OnRead
  <2>1. /\ sent' = sent /\ rpc' = rpc /\ received' = received /\ response' = response
        /\ file' = Append(file, response)
    BY <1>3 DEF OnRead, service
  <2>2. InFlight /\ ~InFlight' /\ Next
    BY <1>3, FlightStep DEF Next, Worker
  <2>3. received = Len(file) + 1 /\ response = received /\ \A i \in DOMAIN file : file[i] = i
    BY <2>2 DEF FileInv
  <2>4. file' \in Seq(1 .. sent) /\ Len(file') = received
    BY <1>t, <2>1, <2>3
  <2>5. \A i \in DOMAIN file' : file'[i] = i
    BY <1>t, <2>1, <2>3
  <2>6. Stopped' => Ended /\ (rpc = "ok" => received = sent)
    BY <2>2, StopStep DEF FileInv, Ended
  <2> QED
    BY <2>1, <2>2, <2>4, <2>5, <2>6 DEF Data, FileInv, Ended
<1>4. CASE Respond
  <2>1. /\ sent' = sent + 1 /\ sent < MaxMessages /\ ~Ended
        /\ rpc' = rpc /\ received' = received /\ response' = response /\ file' = file
    BY <1>4 DEF Respond
  <2>2. InFlight' <=> InFlight
    BY <1>4 DEF Respond, InFlight, Proceeding, worker
  <2>3. Stopped' => Stopped
    BY <1>4 DEF Respond, Stopped, worker
  <2>4. file \in Seq(1 .. sent + 1)
    <3>1. 1 .. sent \subseteq 1 .. sent + 1
      BY <1>t
    <3> QED
      BY <1>t, <3>1, SeqMonotonic
  <2>5. Data'
    BY <1>t, <2>1, <2>4 DEF Data
  <2> QED
    BY <2>1, <2>2, <2>3, <2>5 DEF FileInv, Ended
<1>5. CASE EndRpc
  <2>1. /\ sent' = sent /\ ~Ended /\ rpc' \in {"ok", "error"}
        /\ received' = received /\ response' = response /\ file' = file
    BY <1>5 DEF EndRpc
  <2>2. InFlight' <=> InFlight
    BY <1>5 DEF EndRpc, InFlight, Proceeding, worker
  <2>3. Stopped' => Stopped
    BY <1>5 DEF EndRpc, Stopped, worker
  <2> QED
    BY <2>1, <2>2, <2>3 DEF Data, FileInv, Ended
<1>6. CASE \/ CompleteStart \/ NoMore \/ CompleteFinish
           \/ Deliver \/ CallFinish \/ ProceedStartCall \/ ReadNext \/ ProceedFinish \/ Main
  <2>1. UNCHANGED <<rpc, sent, received, response, file>>
    BY <1>6 DEF CompleteStart, NoMore, CompleteFinish, Deliver, CallFinish, ProceedStartCall,
       ReadNext, ProceedFinish, Main, SeeFinish, DestroyConnection, JoinWorker, service
  <2>2. Next
    BY <1>6 DEF Next, Grpc, Worker
  <2>3. InFlight' <=> InFlight
    <3>1. ~OnRead
      BY <1>6 DEF CompleteStart, NoMore, CompleteFinish, Deliver, CallFinish, ProceedStartCall,
         ReadNext, ProceedFinish, Main, SeeFinish, DestroyConnection, JoinWorker, OnRead,
         Proceeding, worker, Control
    <3>2. ~Arrive
      <4>1. \A n \in Nat : n # n + 1
        OBVIOUS
      <4> QED
        BY <1>t, <2>1, <4>1 DEF Arrive
    <3> QED
      BY <2>2, <3>1, <3>2, FlightStep
  <2>4. Stopped' => Ended /\ (rpc = "ok" => received = sent)
    BY <2>2, StopStep DEF FileInv, Ended
  <2> QED
    BY <1>1, <2>1, <2>3, <2>4 DEF Data, FileInv, Ended
<1>7. CASE UNCHANGED vars
  BY <1>7 DEF vars, worker, service, Data, FileInv, InFlight, Stopped, Proceeding, Ended
<1> QED
  BY <1>2, <1>3, <1>4, <1>5, <1>6, <1>7 DEF Next, Grpc, Worker

\* All of it together, from the start.
LEMMA SampleInvariant == Spec => [](Control /\ Data /\ OneOp /\ FileInv)
<1>1. Init => Control /\ Data /\ OneOp /\ FileInv
  <2> SUFFICES ASSUME Init PROVE Control /\ Data /\ OneOp /\ FileInv
    OBVIOUS
  <2>1. op.cause = "start_call" /\ ~op.done /\ op \in [cause : Causes, done : BOOLEAN, ok : BOOLEAN]
    BY DEF Init, Op, Causes
  <2>2. event \in [cause : Causes, done : BOOLEAN, ok : BOOLEAN]
    BY DEF Init, NoOp, Op, Causes
  <2>3. Control /\ OneOp
    BY <2>1, <2>2 DEF Init, Control, OneOp
  <2>4. Data
    BY MessagesAssumption DEF Init, Data
  <2>5. ~InFlight /\ ~Stopped
    BY <2>1 DEF Init, InFlight, Stopped, Proceeding
  <2> QED
    BY <2>3, <2>4, <2>5 DEF Init, FileInv
<1> QED
  BY <1>1, ControlStep, FileStep, PTL DEF Spec

\* Every variable keeps its type; that only received messages are written needs FileInv.
THEOREM TypeCorrect == Spec => []TypeOK
<1>1. Control /\ Data => TypeOK
  BY DEF Control, Data, TypeOK
<1> QED
  BY <1>1, SampleInvariant, PTL

\* The file is the audio of the call, in order and complete when main() closes it.
THEOREM FileComplete == Spec => []FileIsAudio
<1>1. OneOp /\ FileInv => FileIsAudio
  BY DEF OneOp, FileInv, FileIsAudio, Stopped
<1> QED
  BY <1>1, SampleInvariant, PTL

\* The worker and the library are done with the connection when main() destroys it.
THEOREM DestroyedUnused == Spec => []DestroyedIsUnused
<1>1. OneOp => DestroyedIsUnused
  BY DEF OneOp, DestroyedIsUnused
<1> QED
  BY <1>1, SampleInvariant, PTL
==============================================================================
