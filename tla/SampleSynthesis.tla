---------------------------- MODULE SampleSynthesis ----------------------------
(***************************************************************************)
(* The C++ synthesis sample (synthesis/v1/cpp/synthesis.cpp and               *)
(* grpc/client.cpp): main() starts one call, waits for the `finish' flag and  *)
(* leaves; the worker of the client writes the audio to the output file.      *)
(*                                                                          *)
(* The call has one operation outstanding at a time.  A message is its        *)
(* number.  gRPC stores it in response_ when it arrives, which may be long    *)
(* before the worker takes the tag of the read.                               *)
(***************************************************************************)
EXTENDS Naturals, Sequences

CONSTANT MaxMessages    \* messages of a call

ASSUME MessagesAssumption == MaxMessages \in Nat

VARIABLES
    main,       \* where main() is
    finish,     \* the flag (atomic)
    file,       \* the messages in the output file
    pc,         \* where the worker is
    event,      \* the tag in the worker's hand
    op,         \* the operation outstanding: its cause, and ok once it is complete
    response,   \* response_
    rpc,        \* the call on the service's side: open, ok or error
    sent,       \* messages the service has sent
    received    \* messages that have arrived

worker == <<pc, event>>
service == <<rpc, sent>>
vars == <<main, finish, file, pc, event, op, response, rpc, sent, received>>

Op(cause) == [cause |-> cause, done |-> FALSE, ok |-> FALSE]
NoOp == Op("none")

\* The connection is made and its call started before main() waits.
Init ==
    /\ main = "waiting"
    /\ finish = FALSE
    /\ file = <<>>
    /\ pc = "next"
    /\ event = NoOp
    /\ op = Op("start_call")
    /\ response = 0
    /\ rpc = "open"
    /\ sent = 0
    /\ received = 0

-----------------------------------------------------------------------------
(* The service and the gRPC library.                                        *)

Ended == rpc # "open"

Respond ==
    /\ ~Ended
    /\ sent < MaxMessages
    /\ sent' = sent + 1
    /\ UNCHANGED <<main, finish, file, worker, op, response, rpc, received>>

EndRpc ==
    /\ ~Ended
    /\ rpc' \in {"ok", "error"}
    /\ UNCHANGED <<main, finish, file, worker, op, response, sent, received>>

Pending(cause) == op.cause = cause /\ ~op.done

Completed(ok) == op' = [op EXCEPT !.done = TRUE, !.ok = ok]

CompleteStart ==
    /\ Pending("start_call")
    /\ \/ Completed(TRUE)
       \/ rpc = "error" /\ Completed(FALSE)
    /\ UNCHANGED <<main, finish, file, worker, response, service, received>>

\* The next message arrives ...
Arrive ==
    /\ Pending("read")
    /\ received < sent
    /\ Completed(TRUE)
    /\ received' = received + 1
    /\ response' = received + 1
    /\ UNCHANGED <<main, finish, file, worker, service>>

\* ... or there is none: all of a call that ended well have come, some of a broken one.
NoMore ==
    /\ Pending("read")
    /\ rpc = "error" \/ (rpc = "ok" /\ received = sent)
    /\ Completed(FALSE)
    /\ UNCHANGED <<main, finish, file, worker, response, service, received>>

CompleteFinish ==
    /\ Pending("finish")
    /\ Ended
    /\ Completed(TRUE)
    /\ UNCHANGED <<main, finish, file, worker, response, service, received>>

-----------------------------------------------------------------------------
(* The worker.                                                              *)

Deliver ==
    /\ pc = "next"
    /\ op.done
    /\ event' = op
    /\ op' = NoOp
    /\ pc' = "proceed"
    /\ UNCHANGED <<main, finish, file, response, service, received>>

Proceeding(cause) == pc = "proceed" /\ event.ok /\ event.cause = cause

Start(cause) == op' = Op(cause) /\ pc' = "next"

\* Mutant of CallFinish: a call that broke is taken for finished at once.
FinishAtFailure ==
    /\ pc = "proceed"
    /\ ~event.ok
    /\ finish' = TRUE
    /\ Start("finish")
    /\ UNCHANGED <<main, file, event, response, service, received>>

\* Any operation that failed.
CallFinish ==
    /\ pc = "proceed"
    /\ ~event.ok
    /\ Start("finish")
    /\ UNCHANGED <<main, finish, file, event, response, service, received>>

ProceedStartCall ==
    /\ Proceeding("start_call")
    /\ Start("read")
    /\ UNCHANGED <<main, finish, file, event, response, service, received>>

\* Mutant of OnRead: the next read is started first, so that the next message may already
\* have taken the place of the one that is written.
ReadFirst ==
    /\ Proceeding("read")
    /\ \E message \in response .. sent : file' = Append(file, message)
    /\ pc' = "read"
    /\ UNCHANGED <<main, finish, event, op, response, service, received>>

\* proceed(read): on_read() writes the message to the file ...
OnRead ==
    /\ Proceeding("read")
    /\ file' = Append(file, response)
    /\ pc' = "read"
    /\ UNCHANGED <<main, finish, event, op, response, service, received>>

\* ... and the next read is started.
ReadNext ==
    /\ pc = "read"
    /\ Start("read")
    /\ UNCHANGED <<main, finish, file, event, response, service, received>>

\* Mutant of ProceedFinish: a bad status ends without the callback, as in the plugin.
ReportOnly ==
    /\ Proceeding("finish")
    /\ finish' = (rpc = "ok")
    /\ pc' = "next"
    /\ UNCHANGED <<main, file, event, op, response, service, received>>

\* proceed(finish): whatever the status, the callback sets the flag; after that the worker
\* returns to its loop without another look at the connection.
ProceedFinish ==
    /\ Proceeding("finish")
    /\ finish' = TRUE
    /\ pc' = "next"
    /\ UNCHANGED <<main, file, event, op, response, service, received>>

-----------------------------------------------------------------------------
(* main().                                                                  *)

Step(from, to) == main = from /\ main' = to

\* It looks at the flag every three seconds; then ofs.close().
SeeFinish ==
    /\ Step("waiting", "closed")
    /\ finish
    /\ UNCHANGED <<finish, file, worker, op, response, service, received>>

\* The connection is destroyed, then the client: the queue is shut down ...
DestroyConnection ==
    /\ Step("closed", "destroyed")
    /\ UNCHANGED <<finish, file, worker, op, response, service, received>>

\* ... and the worker, once the queue is drained, leaves its loop and is joined.
JoinWorker ==
    /\ Step("destroyed", "left")
    /\ pc = "next" /\ op = NoOp
    /\ pc' = "exit"
    /\ UNCHANGED <<finish, file, event, op, response, service, received>>

-----------------------------------------------------------------------------

Grpc == CompleteStart \/ Arrive \/ NoMore \/ CompleteFinish

Worker == Deliver \/ CallFinish \/ ProceedStartCall \/ OnRead \/ ReadNext \/ ProceedFinish

Main == SeeFinish \/ DestroyConnection \/ JoinWorker

Next == Respond \/ EndRpc \/ Grpc \/ Worker \/ Main

Spec == Init /\ [][Next]_vars

(* Fairness: the threads and the library go on; nothing obliges the service to end the call. *)
FairSpec == Spec /\ WF_vars(Grpc) /\ WF_vars(Worker) /\ WF_vars(Main)

-----------------------------------------------------------------------------
(* Properties.                                                              *)

Causes == {"none", "start_call", "read", "finish"}

TypeOK ==
    /\ main \in {"waiting", "closed", "destroyed", "left"}
    /\ finish \in BOOLEAN
    /\ pc \in {"next", "proceed", "read", "exit"}
    /\ event \in [cause : Causes, done : BOOLEAN, ok : BOOLEAN]
    /\ op \in [cause : Causes, done : BOOLEAN, ok : BOOLEAN]
    /\ rpc \in {"open", "ok", "error"}
    /\ sent \in 0 .. MaxMessages
    /\ received \in 0 .. sent
    /\ response \in 0 .. sent
    /\ file \in Seq(1 .. sent)

\* The file receives the messages of the call in order, each once; when main() leaves it
\* holds all of a call that ended well, and of a broken one all that were received.
FileIsAudio ==
    /\ \A i \in DOMAIN file : file[i] = i
    /\ main # "waiting" => Len(file) = received /\ (rpc = "ok" => received = sent)

\* When main() closes the file and destroys the connection, the worker no longer uses
\* either, and no operation is outstanding that would report to the connection.
DestroyedIsUnused == main # "waiting" => pc \in {"next", "exit"} /\ op = NoOp

\* When the service has ended the call, well or not, main() leaves.
MainReturns == Ended ~> main = "left"
==============================================================================
