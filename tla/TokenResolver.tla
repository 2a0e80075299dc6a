---------------------------- MODULE TokenResolver ----------------------------
(***************************************************************************)
(* smartspeech::token_resolver (mrcp/grpc_client/token_resolver.cpp): a       *)
(* worker thread fetches the access token over HTTP and refreshes it before   *)
(* it expires; the gRPC threads read it with get_token() for every call.      *)
(*                                                                          *)
(* The worker unlocks m_ before its loop and then calls cv_.wait_for() with   *)
(* the unlocked lock, which is undefined.  What the build does (libstdc++     *)
(* over glibc) is modelled: the wait releases the mutex whoever holds it and  *)
(* takes it again on waking, so from then on the worker holds it except       *)
(* while it waits, and keeps it when its loop ends.  The mutex is therefore   *)
(* a bit without an owner.                                                   *)
(*                                                                          *)
(* Time is counted in units of a second.  It passes while the worker is in a  *)
(* request or asleep; a step of the code takes none, being far shorter than   *)
(* the margin of a second the code keeps.                                    *)
(***************************************************************************)
EXTENDS Naturals, FiniteSets

CONSTANTS
    Readers,        \* the gRPC threads that call get_token()
    Lifetimes,      \* how long a token may have left by the local clock when it arrives
    RetryDelay,     \* 15000: the wait after an answer that gives no time, or none at all
    SignBit         \* 2^63: a size_t from here on is negative as a number of milliseconds

ASSUME ResolverAssumption ==
    /\ SignBit \in Nat \ {0}
    /\ Lifetimes \subseteq 0 .. SignBit
    /\ RetryDelay \in Nat

VARIABLES
    mutex,      \* m_ is locked
    keep,       \* keep_ (atomic)
    token,      \* token_: "none" is the empty string, "stale" arrived expired and
                \* "undated" without an expires_at
    life,       \* how long it is until the expires_at of the last answer
    fetched,    \* the local fetch_result: a token, and its remaining life if it is dated
    delay,      \* expires_in, then what is left of the wait
    worker,     \* where worker_proc() is
    holds,      \* the worker counts on holding m_
    reader,     \* where every reader is in get_token()
    destructor, \* where ~token_resolver() is
    stray       \* history: the worker's wait released a lock that a reader held

value == <<token, life, delay>>
vars == <<mutex, keep, value, fetched, worker, holds, reader, destructor, stray>>

Nothing == [token |-> "none", dated |-> FALSE, life |-> 0]

Init ==
    /\ mutex = FALSE
    /\ keep = TRUE
    /\ token = "none"
    /\ life = 0
    /\ fetched = Nothing
    /\ delay = RetryDelay
    /\ worker = "start"
    /\ holds = FALSE
    /\ reader = [r \in Readers |-> "idle"]
    /\ destructor = "none"
    /\ stray = FALSE

\* An exception that leaves worker_proc() terminates the process.
Running == worker # "terminated"

-----------------------------------------------------------------------------
(* worker_proc().                                                           *)

\* Mutant of LockFirst: the first fetch runs without the lock.
StartUnlocked ==
    /\ worker = "start"
    /\ worker' = "fetch_first"
    /\ UNCHANGED <<mutex, keep, value, fetched, holds, reader, destructor, stray>>

\* unique_lock<std::mutex> l(m_)
LockFirst ==
    /\ worker = "start"
    /\ ~mutex
    /\ mutex' = TRUE
    /\ holds' = TRUE
    /\ worker' = "fetch_first"
    /\ UNCHANGED <<keep, value, fetched, reader, destructor, stray>>

\* The access_token and the expires_at of an answer are looked for one by one.
Fetched ==
    [token : {"none", "token"}, dated : {FALSE}, life : {0}]
        \cup [token : {"none", "token"}, dated : {TRUE}, life : Lifetimes]

\* fetch_token(): what the answer holds of a token and of its expires_at, and neither on any
\* failure of the request; an answer that is not JSON throws.
Fetch(from, to) ==
    /\ worker = from
    /\ \/ \E result \in Fetched : fetched' = result /\ worker' = to
       \/ worker' = "terminated" /\ UNCHANGED fetched
    /\ UNCHANGED <<mutex, keep, value, holds, reader, destructor, stray>>

\* Mutant of ExpiresIn: the difference is waited for as it was computed, in size_t.
UnsignedWait(result) ==
    IF ~result.dated THEN RetryDelay ELSE (result.life + 2 * SignBit - 1) % (2 * SignBit)

\* The time until the next request: a second less than the token lives.  The difference is
\* computed in size_t, and milliseconds() makes it signed again, so that a token that has
\* expired is not waited for at all.
ExpiresIn(result) ==
    LET difference == (result.life + 2 * SignBit - 1) % (2 * SignBit)
    IN  IF ~result.dated THEN RetryDelay
        ELSE IF difference < SignBit THEN difference ELSE 0

SetToken ==
    /\ token' = CASE fetched.token = "none" -> "none"
                  [] fetched.token = "token" /\ ~fetched.dated -> "undated"
                  [] fetched.token = "token" /\ fetched.dated ->
                        IF fetched.life = 0 THEN "stale" ELSE "token"
    /\ life' = fetched.life
    /\ delay' = ExpiresIn(fetched)

\* The first token is stored and the lock released ...
StoreFirst ==
    /\ worker = "store_first"
    /\ SetToken
    /\ mutex' = FALSE
    /\ holds' = FALSE
    /\ worker' = "loop"
    /\ UNCHANGED <<keep, fetched, reader, destructor, stray>>

\* ... and later ones are stored in the loop.
Store ==
    /\ worker = "store"
    /\ SetToken
    /\ worker' = "loop"
    /\ UNCHANGED <<mutex, keep, fetched, holds, reader, destructor, stray>>

\* while (keep_), and if (!keep_) after the wait
TestKeep ==
    /\ worker \in {"loop", "woken"}
    /\ worker' = CASE ~keep -> "exit"
                   [] keep /\ worker = "loop" -> "wait"
                   [] OTHER -> "fetch"
    /\ UNCHANGED <<mutex, keep, value, fetched, holds, reader, destructor, stray>>

\* wait_for() unlocks the mutex and goes to sleep, in one step as seen by a notification.
BeginWait ==
    /\ worker = "wait"
    /\ mutex' = FALSE
    /\ holds' = FALSE
    /\ stray' = (stray \/ (mutex /\ ~holds))
    /\ worker' = "waiting"
    /\ UNCHANGED <<keep, value, fetched, reader, destructor>>

\* The time is up ...
TimeUp ==
    /\ worker = "waiting"
    /\ delay = 0
    /\ worker' = "relock"
    /\ UNCHANGED <<mutex, keep, value, fetched, holds, reader, destructor, stray>>

\* ... or the wait ends spuriously.
WakeUp ==
    /\ worker = "waiting"
    /\ worker' = "relock"
    /\ UNCHANGED <<mutex, keep, value, fetched, holds, reader, destructor, stray>>

Relock ==
    /\ worker = "relock"
    /\ ~mutex
    /\ mutex' = TRUE
    /\ holds' = TRUE
    /\ worker' = "woken"
    /\ UNCHANGED <<keep, value, fetched, reader, destructor, stray>>

-----------------------------------------------------------------------------
(* get_token(), in the threads of the gRPC library.                         *)

GetToken(r) ==
    /\ Running
    /\ reader[r] = "idle"
    /\ destructor = "none"
    /\ reader' = [reader EXCEPT ![r] = "locking"]
    /\ UNCHANGED <<mutex, keep, value, fetched, worker, holds, destructor, stray>>

LockToken(r) ==
    /\ Running
    /\ reader[r] = "locking"
    /\ ~mutex
    /\ mutex' = TRUE
    /\ reader' = [reader EXCEPT ![r] = "reading"]
    /\ UNCHANGED <<keep, value, fetched, worker, holds, destructor, stray>>

\* Mutant of ReturnToken: the lock is not given back.
ReturnLocked(r) ==
    /\ Running
    /\ reader[r] = "reading"
    /\ reader' = [reader EXCEPT ![r] = "idle"]
    /\ UNCHANGED <<mutex, keep, value, fetched, worker, holds, destructor, stray>>

\* The copy is made and ~lock_guard() unlocks.
ReturnToken(r) ==
    /\ Running
    /\ reader[r] = "reading"
    /\ mutex' = FALSE
    /\ reader' = [reader EXCEPT ![r] = "idle"]
    /\ UNCHANGED <<keep, value, fetched, worker, holds, destructor, stray>>

-----------------------------------------------------------------------------
(* ~token_resolver().                                                       *)

ClearKeep ==
    /\ Running
    /\ destructor = "none"
    /\ keep' = FALSE
    /\ destructor' = "notify"
    /\ UNCHANGED <<mutex, value, fetched, worker, holds, reader, stray>>

\* notify_one(), without the mutex: it is lost unless the worker is asleep already.
NotifyOne ==
    /\ Running
    /\ destructor = "notify"
    /\ destructor' = "join"
    /\ worker' = IF worker = "waiting" THEN "relock" ELSE worker
    /\ UNCHANGED <<mutex, keep, value, fetched, holds, reader, stray>>

Join ==
    /\ destructor = "join"
    /\ worker = "exit"
    /\ destructor' = "joined"
    /\ UNCHANGED <<mutex, keep, value, fetched, worker, holds, reader, stray>>

-----------------------------------------------------------------------------
(* Time.                                                                    *)

Less(n) == IF n = 0 THEN 0 ELSE n - 1

\* A second passes: only when no step of the code could be taken instead.
Tick ==
    /\ worker \in {"fetch_first", "fetch"} \/ (worker = "waiting" /\ delay > 0)
    /\ \A r \in Readers : reader[r] # "reading" /\ (reader[r] = "locking" => mutex)
    /\ life > 0 \/ delay > 0
    /\ life' = Less(life)
    /\ delay' = Less(delay)
    /\ UNCHANGED <<mutex, keep, token, fetched, worker, holds, reader, destructor, stray>>

-----------------------------------------------------------------------------

WorkerProc ==
    \/ LockFirst
    \/ Fetch("fetch_first", "store_first")
    \/ StoreFirst
    \/ TestKeep
    \/ BeginWait
    \/ TimeUp
    \/ Relock
    \/ Fetch("fetch", "store")
    \/ Store

Destroy == ClearKeep \/ NotifyOne \/ Join

Next ==
    \/ WorkerProc
    \/ WakeUp
    \/ Tick
    \/ Destroy
    \/ \E r \in Readers : GetToken(r) \/ LockToken(r) \/ ReturnToken(r)

Spec == Init /\ [][Next]_vars

-----------------------------------------------------------------------------
(* Properties.                                                              *)

TypeOK ==
    /\ mutex \in BOOLEAN /\ keep \in BOOLEAN /\ holds \in BOOLEAN /\ stray \in BOOLEAN
    /\ token \in {"none", "token", "stale", "undated"}
    /\ life \in Nat /\ delay \in Nat
    /\ fetched \in Fetched
    /\ worker \in {"start", "fetch_first", "store_first", "loop", "wait", "waiting", "relock",
                   "woken", "fetch", "store", "exit", "terminated"}
    /\ reader \in [Readers -> {"idle", "locking", "reading"}]
    /\ destructor \in {"none", "notify", "join", "joined"}

Reading == {r \in Readers : reader[r] = "reading"}

\* Unless a reader was inside get_token() at the moment the worker first waited, the
\* ownerless unlock does no harm: the token is never stored while it is read, no two
\* readers are inside, and the worker holds the mutex whenever it counts on it.
MutualExclusion ==
    ~stray => /\ holds => Reading = {}
              /\ worker \in {"store_first", "store"} => Reading = {}
              /\ Cardinality(Reading) <= 1
              /\ mutex <=> (holds \/ Reading # {})

\* A token that came with an expires_at still ahead is never handed out after it, unless the
\* lock went astray as above, and none is slept on after its expires_at: the worker wakes up a
\* second before, and nobody is given the old token while it fetches the new one.  Of a token
\* that came undated the resolver knows nothing, and nothing is said.
FreshToken ==
    /\ (token = "token" /\ ~stray /\ Reading # {}) => life > 0
    /\ (token \in {"token", "stale"} /\ life = 0 /\ worker = "waiting") => delay = 0
==============================================================================
