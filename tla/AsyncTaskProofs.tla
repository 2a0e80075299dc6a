---------------------------- MODULE AsyncTaskProofs ----------------------------
(***************************************************************************)
(* Proofs about AsyncTask: any number of programs at work on the same tasks, *)
(* and files and results of any size.                                       *)
(***************************************************************************)
EXTENDS AsyncTask, SequenceTheorems, TLAPS

-----------------------------------------------------------------------------
(* The invariants.                                                          *)

\* How a program was started, and for which task, does not change.
StartedAs ==
    /\ \A p \in Program : mode[p] = "create" <=> p \in Creators
    /\ \A c \in Creators : task[c] = c

\* A task exists from the moment the service has answered CreateTask until the end, and
\* nobody polls or cancels one that does not exist: the identifier comes from its creator.
TasksExist ==
    /\ \A c \in Creators :
        /\ at[c] \in {"start", "uploading"} => status[c] = "none"
        /\ at[c] = "creating" => (answer[c] = "none" <=> status[c] = "none")
        /\ seen[c] # "none" => status[c] # "none"
    /\ \A p \in Program :
        /\ at[p] \in {"sleeping", "getting", "cancelling", "downloading"}
              => status[task[p]] # "none"
        /\ at[p] = "cancelling" => mode[p] = "cancel"

\* The end of a task, once answered or taken note of, is the end of the task.
EndsAreTrue ==
    \A p \in Program :
        /\ answer[p] \in Final => status[task[p]] = answer[p]
        /\ seen[p] \in Final => status[task[p]] = seen[p]

\* A file in the middle of a download is the beginning of the result.
FileOf(p) ==
    /\ at[p] = "downloading" =>
          /\ status[task[p]] = "DONE"
          /\ Len(file[p]) <= ResultChunks
          /\ \A i \in 1 .. Len(file[p]) : file[p][i] = i
    /\ outcome[p] # "none" => at[p] = "left"
    /\ (outcome[p] = "printed" /\ Waits(p)) => seen[p] \in {"CANCELED", "ERROR"}
    /\ outcome[p] = "downloaded" => status[task[p]] = "DONE" /\ file[p] = Result

FilesAreTrue == \A p \in Program : FileOf(p)

-----------------------------------------------------------------------------
(* Type correctness.                                                        *)

\* "stored" answers an upload and nothing else, so no status a program notes is "stored".
Typed ==
    /\ TypeOK
    /\ \A p \in Program : answer[p] = "stored" => at[p] = "uploading"

\* The blocks of the files.
LEMMA EmptyFile == <<>> \in Seq(Nat)
OBVIOUS

LEMMA LongerFile == \A blocks \in Seq(Nat) : Append(blocks, Len(blocks) + 1) \in Seq(Nat)
OBVIOUS

LEMMA NextChunk == \A n \in 0 .. InputChunks : n < InputChunks => n + 1 \in 0 .. InputChunks
BY TaskAssumption

\* Every action keeps the types.
LEMMA TypeStep == Typed /\ [Next]_vars => Typed'
<1> SUFFICES ASSUME Typed, [Next]_vars PROVE Typed'
  OBVIOUS
<1> USE DEF Typed, TypeOK, Program, InCall, Status, Final
<1>1. ASSUME NEW c \in Creators, Work(c) PROVE Typed'
  <2>1. status' \in [Creators -> {"none"} \cup Status]
    BY ZenonT(30), <1>1 DEF Work
  <2>2. UNCHANGED <<at, mode, task, answer, seen, uploaded, file, outcome>>
    BY <1>1 DEF Work, programs
  <2> QED
    BY <2>1, <2>2
<1>2. ASSUME NEW p \in Program, Start(p) PROVE Typed'
  BY <1>2 DEF Start, Go, programs
<1>3. ASSUME NEW p \in Program, Serve(p) PROVE Typed'
  <2>1. CASE p \in Creators /\ ServeUpload(p)
    BY <2>1 DEF ServeUpload, Answer, programs
  <2>2. CASE p \in Creators /\ ServeCreate(p)
    BY <2>2 DEF ServeCreate, Answer, programs
  <2>3. CASE ServeGet(p)
    BY <2>3 DEF ServeGet, Answer, programs
  <2>4. CASE ServeCancel(p)
    BY <2>4 DEF ServeCancel, Answer, programs
  <2> QED
    BY <1>3, <2>1, <2>2, <2>3, <2>4 DEF Serve
<1>4. ASSUME NEW c \in Creators, SendChunk(c) PROVE Typed'
  <2>1. uploaded[c] + 1 \in 0 .. InputChunks
    <3>1. uploaded[c] \in 0 .. InputChunks /\ uploaded[c] < InputChunks
      BY <1>4 DEF SendChunk
    <3> QED
      BY <3>1, NextChunk
  <2> QED
    BY <1>4, <2>1 DEF SendChunk, programs
<1>5. ASSUME NEW c \in Creators, Uploaded(c) PROVE Typed'
  BY <1>5 DEF Uploaded, Go, Take, programs
<1>6. ASSUME NEW c \in Creators, Created(c) PROVE Typed'
  BY <1>6 DEF Created, Go, Take, programs
<1>7. ASSUME NEW p \in Program, Poll(p) PROVE Typed'
  BY <1>7 DEF Poll, Go, programs
<1>8. ASSUME NEW p \in Program, StillWorking(p) PROVE Typed'
  BY <1>8 DEF StillWorking, Go, Told, Take, programs
<1>9. ASSUME NEW p \in Program, Report(p) PROVE Typed'
  BY <1>9 DEF Report, Leave, Go, Told, Take, programs
<1>10. ASSUME NEW p \in Program, Done(p) PROVE Typed'
  BY <1>10, EmptyFile DEF Done, Go, Told, Take, programs
<1>11. ASSUME NEW p \in Program, WriteChunk(p) PROVE Typed'
  <2>1. Append(file[p], Len(file[p]) + 1) \in Seq(Nat)
    <3>1. file[p] \in Seq(Nat)
      OBVIOUS
    <3> QED
      BY <3>1, LongerFile
  <2> QED
    BY <1>11, <2>1 DEF WriteChunk, programs
<1>12. ASSUME NEW p \in Program, Downloaded(p) PROVE Typed'
  BY <1>12 DEF Downloaded, Leave, Go, programs
<1>13. ASSUME NEW p \in Program, Cancelled(p) PROVE Typed'
  BY <1>13 DEF Cancelled, Leave, Go, Told, Take, programs
<1>14. ASSUME NEW p \in Program, RpcError(p) PROVE Typed'
  BY <1>14 DEF RpcError, Leave, Go, programs
<1>15. ASSUME NEW p \in Program, Interrupt(p) PROVE Typed'
  BY <1>15 DEF Interrupt, Leave, Go, programs
<1>16. CASE UNCHANGED vars
  BY <1>16 DEF vars, programs
<1> QED
  BY <1>1, <1>2, <1>3, <1>4, <1>5, <1>6, <1>7, <1>8, <1>9, <1>10, <1>11, <1>12, <1>13, <1>14,
     <1>15, <1>16 DEF Next, Step, Create

\* The types at the start.
LEMMA TypeInit == Init => Typed
<1> SUFFICES ASSUME Init PROVE Typed
  OBVIOUS
<1>1. Old \in Seq(Nat)
  BY DEF Old
<1> QED
  BY <1>1, TaskAssumption DEF Init, Typed, TypeOK, Program, Status, InCall

\* Every variable keeps its type.
THEOREM TypeCorrect == Spec => []TypeOK
<1>1. Typed => TypeOK
  BY DEF Typed
<1> QED
  BY <1>1, TypeInit, TypeStep, PTL DEF Spec

-----------------------------------------------------------------------------
(* The tasks.                                                               *)

\* What a program does, or the service for it.
Acts(p) == Start(p) \/ Serve(p) \/ Step(p) \/ RpcError(p) \/ Interrupt(p)

\* What a program holds of its own.
Own(p) == <<at[p], answer[p], seen[p], file[p], outcome[p]>>

\* Nobody else touches what a program holds of its own.
LEMMA OthersOwn ==
  ASSUME Typed, NEW q \in Program, Acts(q), NEW p \in Program, p # q
  PROVE  UNCHANGED Own(p)
<1> USE DEF Typed, TypeOK, Own, Program
<1>1. CASE Start(q) \/ RpcError(q) \/ Interrupt(q)
  BY <1>1 DEF Start, RpcError, Interrupt, Leave, Go
<1>2. CASE Serve(q)
  BY <1>2 DEF Serve, ServeUpload, ServeCreate, ServeGet, ServeCancel, Answer
<1>3. CASE q \in Creators /\ Create(q)
  BY <1>3 DEF Create, SendChunk, Uploaded, Created, Go, Take
<1>4. CASE Poll(q) \/ StillWorking(q) \/ Report(q)
  BY <1>4 DEF Poll, StillWorking, Report, Leave, Go, Told, Take
<1>5. CASE Done(q) \/ WriteChunk(q)
  BY <1>5 DEF Done, WriteChunk, Go, Told, Take
<1>6. CASE Downloaded(q) \/ Cancelled(q)
  BY <1>6 DEF Downloaded, Cancelled, Leave, Go, Told, Take
<1> QED
  BY <1>1, <1>2, <1>3, <1>4, <1>5, <1>6 DEF Acts, Step

\* A task that has ended stays as it is, one that exists goes on existing, and one comes into
\* being by the answer to CreateTask only.
TaskMoves(c) ==
    /\ status[c] \in Final => status'[c] = status[c]
    /\ status[c] # "none" => status'[c] # "none"
    /\ status[c] = "none" /\ status'[c] # "none" =>
          at[c] = "creating" /\ at'[c] = "creating" /\ answer'[c] # "none"

LEMMA TaskStep ==
  Typed /\ StartedAs /\ TasksExist /\ [Next]_vars => \A c \in Creators : TaskMoves(c)
<1> SUFFICES ASSUME Typed, StartedAs, TasksExist, [Next]_vars, NEW c \in Creators
             PROVE  TaskMoves(c)
  OBVIOUS
<1> USE DEF TaskMoves, Final
<1>t. /\ status \in [Creators -> {"none"} \cup Status]
      /\ answer \in [Program -> {"none", "stored"} \cup Status]
      /\ task \in [Program -> Creators]
      /\ Creators \subseteq Program
  BY DEF Typed, TypeOK, Program
<1>1. ASSUME NEW d \in Creators, Work(d) PROVE TaskMoves(c)
  BY <1>1, <1>t DEF Work
<1>2. ASSUME NEW p \in Program, Serve(p) PROVE TaskMoves(c)
  <2>1. CASE p \in Creators /\ ServeCreate(p)
    <3>1. status[p] = "none" /\ at[p] = "creating"
      BY <2>1 DEF ServeCreate, Answer, TasksExist
    <3>2. status' = [status EXCEPT ![p] = "NEW"] /\ at' = at /\ answer'[p] = "NEW"
      BY <2>1, <1>t DEF ServeCreate, Answer
    <3> QED
      BY <1>t, <3>1, <3>2
  <2>2. CASE ServeCancel(p)
    <3>1. status[task[p]] # "none"
      BY <2>2 DEF ServeCancel, Answer, TasksExist
    <3>2. /\ status' = [status EXCEPT ![task[p]] = status'[task[p]]]
          /\ status[task[p]] \in Final => status'[task[p]] = status[task[p]]
          /\ status[task[p]] \notin Final => status'[task[p]] = "CANCELED"
      BY <2>2, <1>t DEF ServeCancel
    <3> QED
      BY <1>t, <3>1, <3>2
  <2>3. CASE ServeUpload(p) \/ ServeGet(p)
    BY <2>3 DEF ServeUpload, ServeGet
  <2> QED
    BY <1>2, <2>1, <2>2, <2>3 DEF Serve
<1>3. ASSUME NEW p \in Program, Start(p) \/ Step(p) \/ RpcError(p) \/ Interrupt(p)
      PROVE  TaskMoves(c)
  <2>1. status' = status
    BY <1>3 DEF Start, Step, Create, RpcError, Interrupt, SendChunk, Uploaded, Created, Poll,
                StillWorking, Report, Done, WriteChunk, Downloaded, Cancelled
  <2> QED
    BY <2>1
<1>4. CASE UNCHANGED vars
  BY <1>4 DEF vars
<1> QED
  BY <1>1, <1>2, <1>3, <1>4 DEF Next

\* Every step is a step of the tasks alone, of one program or of the service for it.
LEMMA WhoActs ==
  ASSUME Typed, [Next]_vars, NEW p \in Program
  PROVE  UNCHANGED <<mode, task>> /\ (UNCHANGED Own(p) \/ Acts(p))
<1>1. ASSUME NEW c \in Creators, Work(c) PROVE UNCHANGED <<mode, task>> /\ UNCHANGED Own(p)
  BY <1>1 DEF Work, programs, Own
<1>2. ASSUME NEW q \in Program, Acts(q) PROVE UNCHANGED <<mode, task>> /\ (UNCHANGED Own(p) \/ Acts(p))
  <2>1. UNCHANGED <<mode, task>>
    BY <1>2 DEF Acts, Start, Serve, ServeUpload, ServeCreate, ServeGet, ServeCancel, Answer, Step,
                Create, RpcError, Interrupt, SendChunk, Uploaded, Created, Poll, StillWorking,
                Report, Done, WriteChunk, Downloaded, Cancelled, programs
  <2> QED
    BY <1>2, <2>1, OthersOwn
<1>3. CASE UNCHANGED vars
  BY <1>3 DEF vars, programs, Own
<1> QED
  BY <1>1, <1>2, <1>3 DEF Next, Acts

\* The assignment of programs to tasks never changes.
LEMMA StartedStep == Typed /\ StartedAs /\ [Next]_vars => StartedAs'
<1> SUFFICES ASSUME Typed, StartedAs, [Next]_vars PROVE StartedAs'
  OBVIOUS
<1>1. \A p \in Program : UNCHANGED <<mode, task>>
  BY WhoActs
<1> QED
  BY <1>1 DEF StartedAs, Program

\* TasksExist, of one program.
TaskOf(p) ==
    /\ p \in Creators =>
        /\ at[p] \in {"start", "uploading"} => status[task[p]] = "none"
        /\ at[p] = "creating" => (answer[p] = "none" <=> status[task[p]] = "none")
        /\ seen[p] # "none" => status[task[p]] # "none"
    /\ at[p] \in {"sleeping", "getting", "cancelling", "downloading"} => status[task[p]] # "none"
    /\ at[p] = "cancelling" => mode[p] = "cancel"

\* TasksExist is inductive.
LEMMA ExistStep == Typed /\ StartedAs /\ TasksExist /\ [Next]_vars => TasksExist'
<1> SUFFICES ASSUME Typed, StartedAs, TasksExist, [Next]_vars PROVE TasksExist'
  OBVIOUS
<1>s. /\ \A q \in Program : TaskOf(q)
      /\ \A c \in Creators : seen[c] # "none" => status[c] # "none"
  BY DEF TaskOf, TasksExist, StartedAs
<1>1. ASSUME NEW p \in Program PROVE TaskOf(p)'
  <2>t. /\ at \in [Program -> {"start", "sleeping", "left"} \cup InCall]
        /\ answer \in [Program -> {"none", "stored"} \cup Status]
        /\ seen \in [Program -> {"none"} \cup Status]
        /\ status \in [Creators -> {"none"} \cup Status]
        /\ task[p] \in Creators
    BY DEF Typed, TypeOK
  <2>m. /\ TaskMoves(task[p]) /\ TaskOf(p) /\ task'[p] = task[p] /\ mode'[p] = mode[p]
        /\ p \in Creators => task[p] = p
    BY <1>s, <2>t, TaskStep, WhoActs DEF StartedAs
  <2> USE DEF TaskOf, TaskMoves
  <2>1. CASE UNCHANGED Own(p)
    BY <2>1, <2>m DEF Own
  <2>2. CASE Start(p)
    <3>1. status' = status /\ answer' = answer /\ seen' = seen
      BY <2>2 DEF Start
    <3>2. CASE p \in Creators /\ Go(p, "start", "uploading")
      BY <2>m, <2>t, <3>1, <3>2 DEF Go
    <3>3. CASE p \in Tools
      <4>1. seen[task[p]] # "none" /\ p \notin Creators
        BY <2>2, <3>3, TaskAssumption DEF Start
      <4>2. at'[p] = IF mode[p] = "cancel" THEN "cancelling" ELSE "sleeping"
        BY <2>2, <2>t, <4>1 DEF Start, Go
      <4>3. status[task[p]] # "none"
        BY <1>s, <2>t, <4>1
      <4> QED
        BY <2>m, <3>1, <4>1, <4>2, <4>3
    <3> QED
      BY <2>2, <3>2, <3>3 DEF Start
  <2>3. CASE Serve(p)
    <3>1. at' = at /\ seen' = seen
      BY <2>3 DEF Serve, ServeUpload, ServeCreate, ServeGet, ServeCancel, Answer
    <3>2. CASE p \in Creators /\ ServeCreate(p)
      BY <2>m, <2>t, <3>1, <3>2 DEF ServeCreate, Answer
    <3>3. CASE ServeUpload(p) \/ ServeGet(p) \/ ServeCancel(p)
      <4>1. at[p] \in {"uploading", "getting", "cancelling"}
        BY <3>3 DEF ServeUpload, ServeGet, ServeCancel, Answer
      <4> QED
        BY <2>m, <3>1, <4>1
    <3> QED
      BY <2>3, <3>2, <3>3 DEF Serve
  <2>4. CASE p \in Creators /\ Create(p)
    <3>1. status' = status
      BY <2>4 DEF Create, SendChunk, Uploaded, Created
    <3>2. CASE SendChunk(p)
      BY <2>m, <3>2 DEF SendChunk
    <3>3. CASE Uploaded(p)
      BY <2>m, <2>t, <2>4, <3>1, <3>3 DEF Uploaded, Go, Take
    <3>4. CASE Created(p)
      BY <2>m, <2>t, <2>4, <3>1, <3>4 DEF Created, Go, Take
    <3> QED
      BY <2>4, <3>2, <3>3, <3>4 DEF Create
  <2>5. CASE Poll(p) \/ StillWorking(p) \/ Report(p) \/ Done(p) \/ WriteChunk(p) \/ Cancelled(p)
    <3>1. status' = status
      BY <2>5 DEF Poll, StillWorking, Report, Done, WriteChunk, Cancelled
    <3>2. status[task[p]] # "none"
      BY <2>m, <2>5 DEF Poll, StillWorking, Report, Done, WriteChunk, Cancelled, Go, Leave
    <3>3. at'[p] \in {"sleeping", "getting", "downloading", "left"}
      BY <2>t, <2>5 DEF Poll, StillWorking, Report, Done, WriteChunk, Cancelled, Go, Leave
    <3> QED
      BY <2>m, <3>1, <3>2, <3>3
  <2>6. CASE Downloaded(p) \/ RpcError(p) \/ Interrupt(p)
    <3>1. status' = status /\ seen' = seen /\ at'[p] = "left"
      BY <2>t, <2>6 DEF Downloaded, RpcError, Interrupt, Leave, Go
    <3> QED
      BY <2>m, <3>1
  <2> QED
    BY <2>1, <2>2, <2>3, <2>4, <2>5, <2>6, WhoActs DEF Acts, Step
<1>2. StartedAs'
  BY StartedStep
<1>3. /\ (\A q \in Program : TaskOf(q)) /\ StartedAs => TasksExist
      /\ ((\A q \in Program : TaskOf(q)) /\ StartedAs => TasksExist)'
  BY DEF TaskOf, TasksExist, StartedAs, Program
<1> QED
  BY <1>1, <1>2, <1>3

-----------------------------------------------------------------------------
(* What the programs tell their users.                                      *)

\* EndsAreTrue is inductive: a status is answered as it is, and an end does not change.
LEMMA EndStep == Typed /\ StartedAs /\ TasksExist /\ EndsAreTrue /\ [Next]_vars => EndsAreTrue'
<1> SUFFICES ASSUME Typed, StartedAs, TasksExist, EndsAreTrue, [Next]_vars, NEW p \in Program
             PROVE  (/\ answer[p] \in Final => status[task[p]] = answer[p]
                     /\ seen[p] \in Final => status[task[p]] = seen[p])'
  BY DEF EndsAreTrue
<1>t. /\ answer \in [Program -> {"none", "stored"} \cup Status]
      /\ seen \in [Program -> {"none"} \cup Status]
      /\ status \in [Creators -> {"none"} \cup Status]
      /\ task[p] \in Creators
  BY DEF Typed, TypeOK
<1>m. /\ TaskMoves(task[p]) /\ task'[p] = task[p]
      /\ answer[p] \in Final => status[task[p]] = answer[p]
      /\ seen[p] \in Final => status[task[p]] = seen[p]
  BY <1>t, TaskStep, WhoActs DEF EndsAreTrue
<1> USE DEF TaskMoves, Final
<1>1. CASE UNCHANGED Own(p)
  BY <1>1, <1>m DEF Own
<1>2. CASE Serve(p)
  <2>1. seen' = seen
    BY <1>2 DEF Serve, ServeUpload, ServeCreate, ServeGet, ServeCancel, Answer
  <2>2. answer'[p] \in Final => status'[task[p]] = answer'[p]
    <3>1. CASE ServeUpload(p) \/ (p \in Creators /\ ServeCreate(p))
      BY <1>t, <3>1 DEF ServeUpload, ServeCreate, Answer
    <3>2. CASE ServeGet(p) \/ ServeCancel(p)
      BY <1>t, <3>2 DEF ServeGet, ServeCancel, Answer
    <3> QED
      BY <1>2, <3>1, <3>2 DEF Serve
  <2> QED
    BY <1>m, <2>1, <2>2
<1>3. CASE StillWorking(p) \/ Report(p) \/ Done(p) \/ Cancelled(p)
  <2>1. seen'[p] = answer[p] /\ answer'[p] = "none" /\ status' = status
    BY <1>t, <1>3 DEF StillWorking, Report, Done, Cancelled, Told, Take
  <2> QED
    BY <1>m, <2>1
<1>4. CASE p \in Creators /\ Create(p)
  <2>1. seen'[p] \in {seen[p], answer[p]} /\ answer'[p] \in {answer[p], "none"} /\ status' = status
    BY <1>t, <1>4 DEF Create, SendChunk, Uploaded, Created, Take
  <2> QED
    BY <1>m, <2>1
<1>5. CASE Start(p) \/ Poll(p) \/ WriteChunk(p) \/ Downloaded(p) \/ RpcError(p) \/ Interrupt(p)
  <2>1. seen' = seen /\ answer'[p] \in {answer[p], "none"} /\ status' = status
    BY <1>t, <1>5 DEF Start, Poll, WriteChunk, Downloaded, RpcError, Interrupt
  <2> QED
    BY <1>m, <2>1
<1> QED
  BY <1>1, <1>2, <1>3, <1>4, <1>5, WhoActs DEF Acts, Step

\* The result is the sequence of its length that has every block at its place.
LEMMA WholeFile ==
  ASSUME NEW blocks \in Seq(Nat), Len(blocks) = ResultChunks,
         \A i \in 1 .. Len(blocks) : blocks[i] = i
  PROVE  blocks = Result
<1>1. Result \in Seq(Nat) /\ Len(Result) = ResultChunks
  BY TaskAssumption DEF Result
<1>2. \A i \in 1 .. Len(blocks) : blocks[i] = Result[i]
  BY DEF Result
<1> QED
  BY <1>1, <1>2, SeqEqual

\* The next block goes to its place.
LEMMA NextBlock ==
  ASSUME NEW blocks \in Seq(Nat), Len(blocks) < ResultChunks,
         \A i \in 1 .. Len(blocks) : blocks[i] = i
  PROVE  LET longer == Append(blocks, Len(blocks) + 1)
         IN  Len(longer) <= ResultChunks /\ \A i \in 1 .. Len(longer) : longer[i] = i
<1> DEFINE longer == Append(blocks, Len(blocks) + 1)
<1>1. Len(longer) = Len(blocks) + 1 /\ Len(blocks) \in Nat
  OBVIOUS
<1>2. \A i \in 1 .. Len(blocks) + 1 : longer[i] = i
  OBVIOUS
<1> QED
  BY <1>1, <1>2, TaskAssumption

\* FilesAreTrue is inductive: the status that ends the waiting is the end of the task.
LEMMA FileStep ==
  Typed /\ StartedAs /\ TasksExist /\ EndsAreTrue /\ FilesAreTrue /\ [Next]_vars => FilesAreTrue'
<1> SUFFICES ASSUME Typed, StartedAs, TasksExist, EndsAreTrue, FilesAreTrue, [Next]_vars,
                    NEW p \in Program
             PROVE  FileOf(p)'
  BY DEF FilesAreTrue
<1>t. /\ at \in [Program -> {"start", "sleeping", "left"} \cup InCall]
      /\ answer \in [Program -> {"none", "stored"} \cup Status]
      /\ seen \in [Program -> {"none"} \cup Status]
      /\ file \in [Program -> Seq(Nat)]
      /\ outcome \in [Program -> {"none", "printed", "downloaded", "rpc error", "interrupted"}]
      /\ task[p] \in Creators
  BY DEF Typed, TypeOK
<1>m. /\ TaskMoves(task[p]) /\ task'[p] = task[p] /\ mode'[p] = mode[p]
      /\ FileOf(p)
      /\ answer[p] = "DONE" => status[task[p]] = "DONE"
  BY <1>t, TaskStep, WhoActs DEF EndsAreTrue, FilesAreTrue, Final
<1>d. /\ status[task[p]] = "DONE" => status'[task[p]] = "DONE"
      /\ Waits(p)' <=> Waits(p)
  BY <1>m DEF TaskMoves, Waits, Final
<1> USE DEF FileOf
<1>1. CASE UNCHANGED Own(p)
  <2>1. UNCHANGED <<at[p], seen[p], file[p], outcome[p]>>
    BY <1>1 DEF Own
  <2> QED
    BY <2>1, <1>m, <1>d
<1>2. CASE Start(p) \/ Poll(p) \/ StillWorking(p) \/ (p \in Creators /\ Create(p)) \/ Serve(p)
  <2>1. /\ at[p] \in {"start", "sleeping", "getting", "uploading", "creating", "cancelling"}
        /\ at'[p] \in {"sleeping", "getting", "uploading", "creating", "cancelling"}
    BY <1>2, <1>t DEF Start, Poll, StillWorking, Create, SendChunk, Uploaded, Created, Go, Serve,
       ServeUpload, ServeCreate, ServeGet, ServeCancel, Answer
  <2>2. file' = file /\ outcome' = outcome
    BY <1>2 DEF Start, Poll, StillWorking, Create, SendChunk, Uploaded, Created, Serve,
       ServeUpload, ServeCreate, ServeGet, ServeCancel, Answer
  <2>3. outcome[p] = "none"
    BY <1>m, <1>t, <2>1
  <2> QED
    BY <1>m, <1>d, <2>1, <2>2, <2>3
<1>3. CASE Report(p)
  <2>1. /\ at[p] = "getting" /\ at'[p] = "left" /\ file' = file
        /\ outcome'[p] = "printed" /\ seen'[p] = answer[p]
        /\ Waits(p) => answer[p] \in {"CANCELED", "ERROR"}
    BY <1>3, <1>t DEF Report, Leave, Go, Told
  <2> QED
    BY <1>m, <1>d, <2>1
<1>4. CASE Done(p)
  <2>1. /\ at[p] = "getting" /\ at'[p] = "downloading" /\ file'[p] = <<>>
        /\ outcome' = outcome /\ answer[p] = "DONE"
    BY <1>4, <1>t DEF Done, Go, Told
  <2>2. outcome[p] = "none"
    BY <1>m, <1>t, <2>1
  <2>3. Len(<<>>) <= ResultChunks /\ \A i \in 1 .. Len(<<>>) : <<>>[i] = i
    BY TaskAssumption
  <2> QED
    BY <1>m, <1>d, <2>1, <2>2, <2>3
<1>5. CASE WriteChunk(p)
  <2>1. /\ at[p] = "downloading" /\ at' = at /\ outcome' = outcome
        /\ file'[p] = Append(file[p], Len(file[p]) + 1)
        /\ Len(file[p]) < ResultChunks
    BY <1>5, <1>t DEF WriteChunk
  <2>2. outcome[p] = "none"
    BY <1>m, <1>t, <2>1
  <2>3. file[p] \in Seq(Nat) /\ \A i \in 1 .. Len(file[p]) : file[p][i] = i
    BY <1>m, <1>t, <2>1
  <2>4. Len(file'[p]) <= ResultChunks /\ \A i \in 1 .. Len(file'[p]) : file'[p][i] = i
    BY <2>1, <2>3, NextBlock
  <2> QED
    BY <1>m, <1>d, <2>1, <2>2, <2>4
<1>6. CASE Downloaded(p)
  <2>1. /\ at[p] = "downloading" /\ at'[p] = "left" /\ file' = file
        /\ outcome'[p] = "downloaded" /\ Len(file[p]) = ResultChunks
    BY <1>6, <1>t DEF Downloaded, Leave, Go
  <2>2. file[p] = Result
    BY <1>m, <1>t, <2>1, WholeFile
  <2> QED
    BY <1>m, <1>d, <2>1, <2>2
<1>7. CASE Cancelled(p)
  <2>1. at[p] = "cancelling" /\ at'[p] = "left" /\ outcome'[p] = "printed"
    BY <1>7, <1>t DEF Cancelled, Leave, Go
  <2>2. ~Waits(p)
    BY <2>1 DEF TasksExist, Waits
  <2> QED
    BY <1>m, <1>d, <2>1, <2>2
<1>8. CASE RpcError(p) \/ Interrupt(p)
  <2>1. at'[p] = "left" /\ outcome'[p] \in {"rpc error", "interrupted"}
    BY <1>8, <1>t DEF RpcError, Interrupt, Leave, Go
  <2> QED
    BY <2>1
<1> QED
  BY <1>1, <1>2, <1>3, <1>4, <1>5, <1>6, <1>7, <1>8, WhoActs DEF Acts, Step

\* OldFileKept is inductive, given that a download is only of a task that is done.
LEMMA OldFileStep ==
  Typed /\ StartedAs /\ TasksExist /\ EndsAreTrue /\ FilesAreTrue /\ OldFileKept /\ [Next]_vars
    => OldFileKept'
<1> SUFFICES ASSUME Typed, StartedAs, TasksExist, EndsAreTrue, FilesAreTrue, OldFileKept,
                    [Next]_vars, NEW p \in Program, file'[p] # Old
             PROVE  (/\ status[task[p]] = "DONE"
                     /\ \/ at[p] = "downloading"
                        \/ outcome[p] \in {"downloaded", "rpc error", "interrupted"})'
  BY DEF OldFileKept
<1>t. /\ at \in [Program -> {"start", "sleeping", "left"} \cup InCall]
      /\ answer \in [Program -> {"none", "stored"} \cup Status]
      /\ file \in [Program -> Seq(Nat)]
      /\ outcome \in [Program -> {"none", "printed", "downloaded", "rpc error", "interrupted"}]
      /\ task[p] \in Creators
  BY DEF Typed, TypeOK
<1>m. /\ task'[p] = task[p]
      /\ status[task[p]] = "DONE" => status'[task[p]] = "DONE"
      /\ answer[p] = "DONE" \/ at[p] = "downloading" => status[task[p]] = "DONE"
      /\ outcome[p] # "none" => at[p] = "left"
      /\ file[p] # Old => /\ status[task[p]] = "DONE"
                          /\ \/ at[p] = "downloading"
                             \/ outcome[p] \in {"downloaded", "rpc error", "interrupted"}
  BY <1>t, TaskStep, WhoActs DEF EndsAreTrue, FilesAreTrue, FileOf, OldFileKept, TaskMoves, Final
<1>1. CASE UNCHANGED Own(p)
  <2>1. UNCHANGED <<at[p], file[p], outcome[p]>>
    BY <1>1 DEF Own
  <2> QED
    BY <2>1, <1>m
<1>2. CASE \/ Start(p) \/ Poll(p) \/ StillWorking(p) \/ (p \in Creators /\ Create(p)) \/ Serve(p)
           \/ Report(p) \/ Cancelled(p)
  <2>1. /\ at[p] \in {"start", "sleeping", "getting", "uploading", "creating", "cancelling"}
        /\ file' = file
    BY <1>2, <1>t DEF Start, Poll, StillWorking, Create, SendChunk, Uploaded, Created, Go, Serve,
       ServeUpload, ServeCreate, ServeGet, ServeCancel, Answer, Report, Cancelled, Leave
  <2> QED
    BY <1>m, <1>t, <2>1
<1>3. CASE Done(p) \/ WriteChunk(p)
  <2>1. (answer[p] = "DONE" \/ at[p] = "downloading") /\ at'[p] = "downloading"
    BY <1>3, <1>t DEF Done, WriteChunk, Go
  <2> QED
    BY <1>m, <2>1
<1>4. CASE Downloaded(p) \/ RpcError(p) \/ Interrupt(p)
  <2>1. file' = file /\ outcome'[p] \in {"downloaded", "rpc error", "interrupted"}
    BY <1>4, <1>t DEF Downloaded, RpcError, Interrupt, Leave, Go
  <2> QED
    BY <1>m, <2>1
<1> QED
  BY <1>1, <1>2, <1>3, <1>4, WhoActs DEF Acts, Step

\* The invariants hold at the start.
LEMMA Beginning ==
  Init => Typed /\ StartedAs /\ TasksExist /\ EndsAreTrue /\ FilesAreTrue /\ OldFileKept
<1> SUFFICES ASSUME Init
             PROVE  Typed /\ StartedAs /\ TasksExist /\ EndsAreTrue /\ FilesAreTrue /\ OldFileKept
  OBVIOUS
<1>1. Typed
  BY TypeInit
<1>2. StartedAs
  BY DEF Init, StartedAs
<1>3. TasksExist
  BY DEF Init, TasksExist, Program
<1>4. EndsAreTrue
  BY DEF Init, EndsAreTrue, Final
<1>5. FilesAreTrue
  BY DEF Init, FilesAreTrue, FileOf
<1>6. OldFileKept
  BY DEF Init, OldFileKept
<1> QED
  BY <1>1, <1>2, <1>3, <1>4, <1>5, <1>6

\* What a program tells of the end of a task is so and stays so, and a downloaded result is
\* complete, however many programs poll, cancel and download at the same time.
THEOREM ReportsAreTrue == Spec => []OutcomeIsTrue
<1>1. EndsAreTrue /\ FilesAreTrue => OutcomeIsTrue
  BY DEF EndsAreTrue, FilesAreTrue, FileOf, OutcomeIsTrue
<1> QED
  BY <1>1, Beginning, TypeStep, StartedStep, ExistStep, EndStep, FileStep, PTL DEF Spec

\* The file of an earlier run is given up only for the result of a task that is done.
THEOREM EarlierFileKept == Spec => []OldFileKept
BY Beginning, TypeStep, StartedStep, ExistStep, EndStep, FileStep, OldFileStep, PTL DEF Spec
==============================================================================
