------------------------------- MODULE AsyncTask -------------------------------
(***************************************************************************)
(* The Python clients of the asynchronous API, at work on the same tasks.    *)
(*   - recognize_async.py and synthesize_async.py upload a file, create a    *)
(*     task for it, poll the task and download its result;                   *)
(*   - task.py polls (--wait), cancels (--cancel) or looks at a task whose    *)
(*     identifier another program has printed.                               *)
(* The polling loop is the same code in all three.                           *)
(*                                                                          *)
(* A remote call is asked, answered by the service and taken note of in      *)
(* three steps, so that the task may move on under an answer.  Any call may  *)
(* fail, before or after the service has acted on it, and the user may       *)
(* interrupt a program at any moment.  Nothing is retried.  Every program     *)
(* has an output file of its own, which exists already (Old).                *)
(***************************************************************************)
EXTENDS Naturals, Sequences

CONSTANTS
    Creators,       \* runs of recognize_async.py or synthesize_async.py
    Tools,          \* runs of task.py
    InputChunks,    \* blocks of an input file
    ResultChunks    \* blocks of a result

ASSUME TaskAssumption ==
    /\ Creators \cap Tools = {}
    /\ InputChunks \in Nat /\ ResultChunks \in Nat

VARIABLES
    at,         \* where every program is
    mode,       \* how it was started: "create", "wait", "cancel" or "look"
    task,       \* the task it asks for; tasks bear the name of their creator
    answer,     \* what the service answered the call it is in
    seen,       \* the status it was last told
    uploaded,   \* blocks a creator has sent
    file,       \* its output file, as the blocks it holds
    outcome,    \* what it told its user in the end
    status      \* the tasks of the service

programs == <<mode, task>>
vars == <<at, mode, task, answer, seen, uploaded, file, outcome, status>>

Program == Creators \cup Tools
Final == {"CANCELED", "DONE", "ERROR"}
Old == <<0>>
Result == [n \in 1 .. ResultChunks |-> n]

Init ==
    /\ at = [p \in Program |-> "start"]
    /\ mode \in [Program -> {"create", "wait", "cancel", "look"}]
    /\ \A p \in Program : mode[p] = "create" <=> p \in Creators
    /\ task \in [Program -> Creators]
    /\ \A c \in Creators : task[c] = c
    /\ answer = [p \in Program |-> "none"]
    /\ seen = [p \in Program |-> "none"]
    /\ uploaded = [c \in Creators |-> 0]
    /\ file = [p \in Program |-> Old]
    /\ outcome = [p \in Program |-> "none"]
    /\ status = [c \in Creators |-> "none"]

Go(p, from, to) == at[p] = from /\ at' = [at EXCEPT ![p] = to]

-----------------------------------------------------------------------------
(* The service: tasks, and one answer per call.                             *)

Work(c) ==
    /\ \/ status[c] = "NEW" /\ status' = [status EXCEPT ![c] = "RUNNING"]
       \/ status[c] = "RUNNING" /\ \E s \in {"DONE", "ERROR"} : status' = [status EXCEPT ![c] = s]
    /\ UNCHANGED <<at, programs, answer, seen, uploaded, file, outcome>>

Answer(p, call, reply) ==
    /\ at[p] = call
    /\ answer[p] = "none"
    /\ answer' = [answer EXCEPT ![p] = reply]
    /\ UNCHANGED <<at, programs, seen, uploaded, file, outcome>>

\* A file is stored when all of it has come.
ServeUpload(c) ==
    /\ uploaded[c] = InputChunks
    /\ Answer(c, "uploading", "stored")
    /\ UNCHANGED status

ServeCreate(c) ==
    /\ Answer(c, "creating", "NEW")
    /\ status' = [status EXCEPT ![c] = "NEW"]

ServeGet(p) == Answer(p, "getting", status[task[p]]) /\ UNCHANGED status

\* A task that has ended stays as it is.
ServeCancel(p) ==
    LET after == IF status[task[p]] \in Final THEN status[task[p]] ELSE "CANCELED"
    IN  /\ Answer(p, "cancelling", after)
        /\ status' = [status EXCEPT ![task[p]] = after]

Serve(p) ==
    \/ p \in Creators /\ (ServeUpload(p) \/ ServeCreate(p))
    \/ ServeGet(p)
    \/ ServeCancel(p)

-----------------------------------------------------------------------------
(* The programs.                                                            *)

\* A creator begins by uploading.  task.py is started with an identifier that its creator
\* has printed, and cancels at once or waits for a poll.
Start(p) ==
    /\ \/ p \in Creators /\ Go(p, "start", "uploading")
       \/ /\ p \in Tools
          /\ seen[task[p]] # "none"
          /\ Go(p, "start", IF mode[p] = "cancel" THEN "cancelling" ELSE "sleeping")
    /\ UNCHANGED <<programs, answer, seen, uploaded, file, outcome, status>>

\* generate_chunks()
SendChunk(c) ==
    /\ at[c] = "uploading"
    /\ uploaded[c] < InputChunks
    /\ uploaded' = [uploaded EXCEPT ![c] = @ + 1]
    /\ UNCHANGED <<at, programs, answer, seen, file, outcome, status>>

Take(p) == answer[p] # "none" /\ answer' = [answer EXCEPT ![p] = "none"]

\* The file is stored: the task is asked for ...
Uploaded(c) ==
    /\ Go(c, "uploading", "creating")
    /\ Take(c)
    /\ UNCHANGED <<programs, seen, uploaded, file, outcome, status>>

\* ... and its identifier is printed.
Created(c) ==
    /\ Go(c, "creating", "sleeping")
    /\ Take(c)
    /\ seen' = [seen EXCEPT ![c] = answer[c]]
    /\ UNCHANGED <<programs, uploaded, file, outcome, status>>

\* time.sleep(SLEEP_TIME) is over: GetTask.
Poll(p) ==
    /\ Go(p, "sleeping", "getting")
    /\ UNCHANGED <<programs, answer, seen, uploaded, file, outcome, status>>

Told(p) == Take(p) /\ seen' = [seen EXCEPT ![p] = answer[p]]

Waits(p) == mode[p] \in {"create", "wait"}

\* Mutant of StillWorking: an ERROR is taken for a task that still runs.
RetryFailed(p) ==
    /\ Waits(p)
    /\ answer[p] \in {"NEW", "RUNNING", "ERROR"}
    /\ Go(p, "getting", "sleeping")
    /\ Told(p)
    /\ UNCHANGED <<programs, uploaded, file, outcome, status>>

StillWorking(p) ==
    /\ Waits(p)
    /\ answer[p] \in {"NEW", "RUNNING"}
    /\ Go(p, "getting", "sleeping")
    /\ Told(p)
    /\ UNCHANGED <<programs, uploaded, file, outcome, status>>

Leave(p, from, report) ==
    /\ Go(p, from, "left")
    /\ outcome' = [outcome EXCEPT ![p] = report]

\* A canceled or failed task is reported; without --wait any status is.
Report(p) ==
    /\ Waits(p) => answer[p] \in {"CANCELED", "ERROR"}
    /\ Leave(p, "getting", "printed")
    /\ Told(p)
    /\ UNCHANGED <<programs, uploaded, file, status>>

\* Mutant of Done: the file is opened before the status is looked at.
OpenThenLook(p) ==
    /\ Waits(p)
    /\ Go(p, "getting", IF answer[p] = "DONE" THEN "downloading" ELSE "sleeping")
    /\ Told(p)
    /\ file' = [file EXCEPT ![p] = <<>>]
    /\ UNCHANGED <<programs, uploaded, outcome, status>>

\* DONE: Download is asked for, and the file is truncated before the first block comes.
Done(p) ==
    /\ Waits(p)
    /\ answer[p] = "DONE"
    /\ Go(p, "getting", "downloading")
    /\ Told(p)
    /\ file' = [file EXCEPT ![p] = <<>>]
    /\ UNCHANGED <<programs, uploaded, outcome, status>>

WriteChunk(p) ==
    /\ at[p] = "downloading"
    /\ Len(file[p]) < ResultChunks
    /\ file' = [file EXCEPT ![p] = Append(@, Len(@) + 1)]
    /\ UNCHANGED <<at, programs, answer, seen, uploaded, outcome, status>>

Downloaded(p) ==
    /\ Len(file[p]) = ResultChunks
    /\ Leave(p, "downloading", "downloaded")
    /\ UNCHANGED <<programs, answer, seen, uploaded, file, status>>

\* --cancel: the answer is printed, whatever it says.
Cancelled(p) ==
    /\ Leave(p, "cancelling", "printed")
    /\ Told(p)
    /\ UNCHANGED <<programs, uploaded, file, status>>

-----------------------------------------------------------------------------
(* What goes wrong.                                                         *)

InCall == {"uploading", "creating", "getting", "cancelling", "downloading"}

\* Mutant of RpcError: the program reports what it has.
ErrorAsSuccess(p) ==
    /\ at[p] \in InCall
    /\ Leave(p, at[p], IF at[p] = "downloading" THEN "downloaded" ELSE "rpc error")
    /\ answer' = [answer EXCEPT ![p] = "none"]
    /\ UNCHANGED <<programs, seen, uploaded, file, status>>

\* A call fails: the error is printed and the program ends.  The service may have acted,
\* and then nobody knows the answer.
RpcError(p) ==
    /\ at[p] \in InCall
    /\ Leave(p, at[p], "rpc error")
    /\ answer' = [answer EXCEPT ![p] = "none"]
    /\ UNCHANGED <<programs, seen, uploaded, file, status>>

Interrupt(p) ==
    /\ at[p] \notin {"start", "left"}
    /\ Leave(p, at[p], "interrupted")
    /\ answer' = [answer EXCEPT ![p] = "none"]
    /\ UNCHANGED <<programs, seen, uploaded, file, status>>

-----------------------------------------------------------------------------

Create(c) == SendChunk(c) \/ Uploaded(c) \/ Created(c)

Step(p) ==
    \/ p \in Creators /\ Create(p)
    \/ Poll(p)
    \/ StillWorking(p)
    \/ Report(p)
    \/ Done(p)
    \/ WriteChunk(p)
    \/ Downloaded(p)
    \/ Cancelled(p)

Next ==
    \/ \E c \in Creators : Work(c)
    \/ \E p \in Program : Start(p) \/ Serve(p) \/ Step(p) \/ RpcError(p) \/ Interrupt(p)

Spec == Init /\ [][Next]_vars

(***************************************************************************)
(* Fairness: a program that runs goes on, the service answers, and works on   *)
(* every task.  Nobody is obliged to start a program, and no call to fail.   *)
(***************************************************************************)
FairSpec ==
    /\ Spec
    /\ \A p \in Program : WF_vars(Step(p)) /\ WF_vars(Serve(p))
    /\ \A c \in Creators : WF_vars(Work(c))

-----------------------------------------------------------------------------
(* Properties.                                                              *)

Status == {"NEW", "RUNNING"} \cup Final

TypeOK ==
    /\ at \in [Program -> {"start", "sleeping", "left"} \cup InCall]
    /\ mode \in [Program -> {"create", "wait", "cancel", "look"}]
    /\ task \in [Program -> Creators]
    /\ answer \in [Program -> {"none", "stored"} \cup Status]
    /\ seen \in [Program -> {"none"} \cup Status]
    /\ uploaded \in [Creators -> 0 .. InputChunks]
    /\ file \in [Program -> Seq(Nat)]
    /\ outcome \in [Program -> {"none", "printed", "downloaded", "rpc error", "interrupted"}]
    /\ status \in [Creators -> {"none"} \cup Status]

\* What a program tells its user of the end of a task is so, and stays so, whoever polls,
\* cancels and downloads at the same time: a result that was downloaded is complete, and a
\* program that waits does not leave of its own accord before the task has ended.
OutcomeIsTrue ==
    \A p \in Program :
        /\ (outcome[p] = "printed" /\ seen[p] \in Final) => status[task[p]] = seen[p]
        /\ (outcome[p] = "printed" /\ Waits(p)) => seen[p] \in {"CANCELED", "ERROR"}
        /\ outcome[p] = "downloaded" => status[task[p]] = "DONE" /\ file[p] = Result

\* The output file of an earlier run is given up only for a task that is done; a program that
\* reports anything else leaves the file as it was, unless it is the download that broke.
OldFileKept ==
    \A p \in Program :
        file[p] # Old => /\ status[task[p]] = "DONE"
                         /\ at[p] = "downloading"
                               \/ outcome[p] \in {"downloaded", "rpc error", "interrupted"}

\* Every program that was started ends, although nothing bounds the number of polls.
ProgramsEnd == \A p \in Program : (at[p] # "start") ~> (at[p] = "left")
==============================================================================
