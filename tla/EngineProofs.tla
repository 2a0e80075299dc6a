----------------------------- MODULE EngineProofs -----------------------------
(***************************************************************************)
(* Proofs about TokenResolver and Engine, for every set of readers, channels  *)
(* and lifetimes, every delay and every width of a size_t.                    *)
(***************************************************************************)
EXTENDS Engine, FiniteSetTheorems, TLAPS

-----------------------------------------------------------------------------
(* Type correctness of the resolver, and the wait.                          *)

\* The difference wraps around at most once, so that the remainder is known.
LEMMA Remainder ==
  ASSUME NEW n \in Nat, NEW m \in Nat \ {0}, n < 2 * m
  PROVE  n % m = IF n < m THEN n ELSE n - m
OBVIOUS

\* An answer is dated or it is not, and its life is known in the first case.
LEMMA FetchedFields ==
  ASSUME NEW result \in Fetched
  PROVE  /\ result.token \in {"none", "token"} /\ result.dated \in BOOLEAN /\ result.life \in Nat
         /\ result.dated => result.life \in Lifetimes
<1>1. \A n \in Lifetimes : n \in Nat
  BY ResolverAssumption
<1>2. CASE result \in [token : {"none", "token"}, dated : {FALSE}, life : {0}]
  <2>1. result.token \in {"none", "token"} /\ result.dated = FALSE /\ result.life = 0
    BY <1>2
  <2>2. result.dated \in BOOLEAN /\ ~result.dated
    BY <2>1
  <2>3. result.life \in Nat
    BY <2>1
  <2> QED
    BY <2>1, <2>2, <2>3
<1>3. CASE result \in [token : {"none", "token"}, dated : {TRUE}, life : Lifetimes]
  <2>1. result.token \in {"none", "token"} /\ result.dated = TRUE /\ result.life \in Lifetimes
    BY <1>3
  <2> QED
    BY <1>1, <2>1
<1> QED
  BY <1>2, <1>3 DEF Fetched

\* What is waited for: the retry delay unless the answer is dated, otherwise a second less than
\* the token lives, and nothing for one that arrived expired.
LEMMA WaitValue ==
  ASSUME NEW result \in Fetched
  PROVE  ExpiresIn(result) = IF ~result.dated THEN RetryDelay ELSE Less(result.life)
<1>1. SignBit \in Nat \ {0} /\ \A n \in Lifetimes : n \in Nat /\ n <= SignBit
  BY ResolverAssumption
<1>2. result.dated \in BOOLEAN /\ (result.dated => result.life \in Lifetimes)
  BY FetchedFields
<1>3. CASE ~result.dated
  BY <1>3 DEF ExpiresIn
<1>4. CASE result.dated
  <2>1. PICK n \in Lifetimes : n = result.life
    BY <1>2, <1>4
  <2>2. n \in Nat /\ n <= SignBit
    BY <1>1
  <2>3. n + 2 * SignBit - 1 \in Nat /\ 2 * SignBit \in Nat \ {0} /\ n + 2 * SignBit - 1 < 2 * (2 * SignBit)
    BY <1>1, <2>2
  <2>4. (n + 2 * SignBit - 1) % (2 * SignBit) = IF n = 0 THEN 2 * SignBit - 1 ELSE n - 1
    <3>1. PICK a \in Nat : a = n + 2 * SignBit - 1
      BY <2>3
    <3>2. PICK m \in Nat \ {0} : m = 2 * SignBit
      BY <2>3
    <3>3. a % m = IF a < m THEN a ELSE a - m
      BY <2>3, <3>1, <3>2, Remainder
    <3> QED
      BY <1>1, <2>2, <3>1, <3>2, <3>3
  <2> QED
    BY <1>1, <1>4, <2>1, <2>2, <2>4 DEF ExpiresIn, Less
<1> QED
  BY <1>3, <1>4

-----------------------------------------------------------------------------
(* Type correctness of the resolver.                                        *)

\* The token, its life and the wait that follows are well formed after every fetch.
LEMMA SetTokenTypes ==
  ASSUME TypeOK, SetToken
  PROVE  /\ token' \in {"none", "token", "stale", "undated"}
         /\ life' \in Nat
         /\ delay' \in Nat
<1>1. /\ fetched.life \in Nat /\ fetched.token \in {"none", "token"} /\ fetched.dated \in BOOLEAN
      /\ fetched \in Fetched
  BY FetchedFields DEF TypeOK
<1>2. ExpiresIn(fetched) \in Nat
  BY <1>1, WaitValue, ResolverAssumption DEF TypeOK, Less
<1> QED
  BY <1>1, <1>2 DEF SetToken

\* Every variable of the resolver keeps its type.
THEOREM ResolverTypes == Spec => []TypeOK
<1>1. Init => TypeOK
  <2> SUFFICES ASSUME Init PROVE TypeOK
    OBVIOUS
  <2>1. fetched \in Fetched
    BY DEF Init, Nothing, Fetched
  <2> QED
    BY <2>1, ResolverAssumption DEF Init, TypeOK
<1>2. TypeOK /\ [Next]_vars => TypeOK'
  <2> SUFFICES ASSUME TypeOK, [Next]_vars PROVE TypeOK'
    OBVIOUS
  <2>1. CASE LockFirst \/ BeginWait \/ Relock
    BY <2>1 DEF TypeOK, LockFirst, BeginWait, Relock, value
  <2>9. CASE TestKeep \/ TimeUp \/ WakeUp
    BY <2>9 DEF TypeOK, TestKeep, TimeUp, WakeUp, value
  <2>2. CASE Fetch("fetch_first", "store_first") \/ Fetch("fetch", "store")
    BY <2>2 DEF TypeOK, Fetch, value
  <2>3. CASE StoreFirst
    BY <2>3, SetTokenTypes DEF TypeOK, StoreFirst
  <2>4. CASE Store
    BY <2>4, SetTokenTypes DEF TypeOK, Store
  <2>5. CASE Tick
    BY <2>5 DEF TypeOK, Tick, Less
  <2>6. CASE Destroy
    BY <2>6 DEF TypeOK, Destroy, ClearKeep, NotifyOne, Join, value
  <2>7. ASSUME NEW r \in Readers, GetToken(r) \/ LockToken(r) \/ ReturnToken(r) PROVE TypeOK'
    BY ZenonT(30), <2>7 DEF TypeOK, GetToken, LockToken, ReturnToken, value
  <2>8. CASE UNCHANGED vars
    BY <2>8 DEF TypeOK, vars, value
  <2> QED
    BY <2>1, <2>2, <2>3, <2>4, <2>5, <2>6, <2>7, <2>8, <2>9 DEF Next, WorkerProc
<1> QED
  BY <1>1, <1>2, PTL DEF Spec

-----------------------------------------------------------------------------
(* The critical section.                                                    *)

\* MutualExclusion is not inductive: the worker must be known to hold the mutex from the end
\* of its wait to the next one.
MutexInv ==
    ~stray =>
        /\ holds => Reading = {}
        /\ \A p, q \in Reading : p = q
        /\ mutex <=> (holds \/ Reading # {})
        /\ worker \in {"fetch_first", "store_first", "woken", "fetch", "store"} => holds
        /\ worker \in {"start", "waiting", "relock"} => ~holds

LEMMA MutexStep == TypeOK /\ MutexInv /\ [Next]_vars => MutexInv'
<1> SUFFICES ASSUME TypeOK, MutexInv, [Next]_vars, ~stray' PROVE MutexInv'
  BY DEF MutexInv
<1>t. /\ reader \in [Readers -> {"idle", "locking", "reading"}]
      /\ mutex \in BOOLEAN /\ holds \in BOOLEAN
  BY DEF TypeOK
<1>1. CASE \/ LockFirst \/ Fetch("fetch_first", "store_first") \/ StoreFirst \/ TestKeep \/ BeginWait
           \/ TimeUp \/ WakeUp \/ Relock \/ Fetch("fetch", "store") \/ Store \/ Tick \/ Destroy
  <2>1. reader' = reader
    BY <1>1 DEF LockFirst, Fetch, StoreFirst, TestKeep, BeginWait, TimeUp, WakeUp, Relock, Store, Tick,
                Destroy, ClearKeep, NotifyOne, Join
  <2>2. Reading' = Reading
    BY <2>1 DEF Reading
  <2>3. CASE LockFirst \/ StoreFirst \/ BeginWait \/ Relock
    BY <1>t, <2>2, <2>3 DEF MutexInv, LockFirst, StoreFirst, BeginWait, Relock
  <2>4. CASE Fetch("fetch_first", "store_first") \/ Fetch("fetch", "store") \/ TestKeep \/ Store
    BY <2>2, <2>4 DEF MutexInv, Fetch, TestKeep, Store
  <2>5. CASE TimeUp \/ WakeUp \/ Tick \/ Destroy
    BY <2>2, <2>5 DEF MutexInv, TimeUp, WakeUp, Tick, Destroy, ClearKeep, NotifyOne, Join
  <2> QED
    BY <1>1, <2>3, <2>4, <2>5
<1>2. ASSUME NEW r \in Readers, GetToken(r) PROVE MutexInv'
  <2>1. Reading' = Reading
    BY <1>t, <1>2 DEF Reading, GetToken
  <2> QED
    BY <1>2, <2>1 DEF MutexInv, GetToken
<1>3. ASSUME NEW r \in Readers, LockToken(r) PROVE MutexInv'
  <2>1. Reading' = Reading \cup {r}
    BY <1>t, <1>3 DEF Reading, LockToken
  <2> QED
    BY <1>3, <2>1 DEF MutexInv, LockToken
<1>4. ASSUME NEW r \in Readers, ReturnToken(r) PROVE MutexInv'
  <2>1. r \in Reading /\ Reading' = Reading \ {r}
    BY <1>t, <1>4 DEF Reading, ReturnToken
  <2> QED
    BY <1>4, <2>1 DEF MutexInv, ReturnToken
<1>5. CASE UNCHANGED vars
  BY <1>5 DEF MutexInv, Reading, vars
<1> QED
  BY <1>1, <1>2, <1>3, <1>4, <1>5 DEF Next, WorkerProc

\* The initial states of the resolver satisfy the invariant.
LEMMA MutexInit == Init => MutexInv
BY DEF Init, MutexInv, Reading

\* Unless the first wait strays, the ownerless unlock does no harm: one reader at a time, and
\* none while the worker counts on holding the mutex.
THEOREM CriticalSection == Spec => []MutualExclusion
<1>1. MutexInv => MutualExclusion
  <2> SUFFICES ASSUME MutexInv, ~stray PROVE MutualExclusion
    BY DEF MutualExclusion
  <2>1. Cardinality(Reading) <= 1
    <3>1. CASE Reading = {}
      BY <3>1, FS_EmptySet
    <3>2. CASE Reading # {}
      <4>1. PICK r \in Reading : \A q \in Reading : q = r
        BY <3>2 DEF MutexInv
      <4>2. Reading = {r}
        BY <4>1
      <4>3. Cardinality({r}) = 1
        BY FS_Singleton
      <4> QED
        BY <4>2, <4>3
    <3> QED
      BY <3>1, <3>2
  <2> QED
    BY <2>1 DEF MutexInv, MutualExclusion
<1> QED
  BY <1>1, MutexInit, MutexStep, ResolverTypes, PTL DEF Spec

-----------------------------------------------------------------------------
(* The age of the token.                                                    *)

\* FreshToken is not inductive: what is left of the wait must be known to be a second less
\* than what is left of a dated token, and the token to expire, if at all, only while the
\* worker is about to replace it.
FreshInv ==
    /\ token \in {"token", "stale"} => delay = Less(life)
    /\ token = "token" => life > 0 \/ worker \in {"fetch", "store", "terminated"}
    /\ worker \in {"start", "fetch_first", "store_first"} => token = "none"
    /\ (token = "token" /\ ~stray /\ Reading # {}) => life > 0

\* A token that has just been stored is fresh.
LEMMA SetTokenFresh ==
  ASSUME TypeOK, SetToken
  PROVE  /\ token' \in {"token", "stale"} => delay' = Less(life')
         /\ token' = "token" => life' > 0
<1>1. /\ fetched \in Fetched /\ fetched.token \in {"none", "token"} /\ fetched.dated \in BOOLEAN
      /\ fetched.life \in Nat
  BY FetchedFields DEF TypeOK
<1>2. CASE fetched.token = "token" /\ fetched.dated
  <2>1. ExpiresIn(fetched) = Less(fetched.life)
    BY <1>1, <1>2, WaitValue
  <2> QED
    BY <1>1, <1>2, <2>1 DEF SetToken
<1>3. CASE fetched.token = "none" \/ ~fetched.dated
  <2>1. token' \in {"none", "undated"}
    BY <1>1, <1>3 DEF SetToken
  <2> QED
    BY <2>1
<1> QED
  BY <1>1, <1>2, <1>3

LEMMA FreshStep == TypeOK /\ MutexInv /\ FreshInv /\ [Next]_vars => FreshInv'
<1> SUFFICES ASSUME TypeOK, MutexInv, FreshInv, [Next]_vars PROVE FreshInv'
  OBVIOUS
<1>t. life \in Nat /\ delay \in Nat /\ reader \in [Readers -> {"idle", "locking", "reading"}]
  BY DEF TypeOK
<1>1. CASE LockFirst \/ TestKeep \/ BeginWait \/ TimeUp \/ WakeUp \/ Relock \/ Destroy
  <2>1. UNCHANGED <<token, life, delay, reader>> /\ Reading' = Reading
    BY <1>1 DEF LockFirst, TestKeep, BeginWait, TimeUp, WakeUp, Relock, Destroy, ClearKeep, NotifyOne,
                Join, value, Reading
  <2>2. stray => stray'
    BY <1>1 DEF LockFirst, TestKeep, BeginWait, TimeUp, WakeUp, Relock, Destroy, ClearKeep, NotifyOne,
                Join
  <2>3. /\ worker \in {"fetch", "store", "terminated"} => worker' = worker
        /\ worker' \in {"start", "fetch_first", "store_first"} => worker \in {"start", "fetch_first", "store_first"}
    BY <1>1 DEF LockFirst, TestKeep, BeginWait, TimeUp, WakeUp, Relock, Destroy, ClearKeep, NotifyOne, Join
  <2> QED
    BY <2>1, <2>2, <2>3 DEF FreshInv
<1>2. CASE Fetch("fetch_first", "store_first") \/ Fetch("fetch", "store")
  <2>1. UNCHANGED <<token, life, delay, reader, stray>> /\ Reading' = Reading
    BY <1>2 DEF Fetch, value, Reading
  <2>2. \/ worker = "fetch_first" /\ worker' \in {"store_first", "terminated"}
        \/ worker = "fetch" /\ worker' \in {"store", "terminated"}
    BY <1>2 DEF Fetch
  <2> QED
    BY <2>1, <2>2 DEF FreshInv
<1>3. CASE StoreFirst \/ Store
  <2>1. SetToken /\ worker' = "loop"
    BY <1>3 DEF StoreFirst, Store
  <2>2. (token' \in {"token", "stale"} => delay' = Less(life')) /\ (token' = "token" => life' > 0)
    BY <2>1, SetTokenFresh
  <2> QED
    BY <2>1, <2>2 DEF FreshInv
<1>4. CASE Tick
  <2>1. /\ UNCHANGED <<token, worker, stray, reader>> /\ Reading' = Reading
        /\ life' = Less(life) /\ delay' = Less(delay)
    BY <1>4 DEF Tick, Reading
  <2>2. Reading = {}
    BY <1>4 DEF Tick, Reading
  <2>3. worker \in {"fetch_first", "fetch"} \/ delay > 0
    BY <1>4 DEF Tick
  <2> QED
    BY <1>t, <2>1, <2>2, <2>3 DEF FreshInv, Less
<1>5. ASSUME NEW r \in Readers, GetToken(r) \/ ReturnToken(r) PROVE FreshInv'
  <2>1. UNCHANGED <<token, life, delay, worker, stray>> /\ Reading' \subseteq Reading
    BY <1>t, <1>5 DEF GetToken, ReturnToken, value, Reading
  <2> QED
    BY <2>1 DEF FreshInv
<1>6. ASSUME NEW r \in Readers, LockToken(r) PROVE FreshInv'
  <2>1. UNCHANGED <<token, life, delay, worker, stray>> /\ ~mutex /\ worker # "terminated"
    BY <1>6 DEF LockToken, value, Running
  <2>2. ~stray => worker \notin {"fetch", "store"}
    BY <2>1 DEF MutexInv
  <2> QED
    BY <2>1, <2>2 DEF FreshInv
<1>7. CASE UNCHANGED vars
  BY <1>7 DEF FreshInv, Reading, vars, value
<1> QED
  BY <1>1, <1>2, <1>3, <1>4, <1>5, <1>6, <1>7 DEF Next, WorkerProc

\* Nobody is handed a token after its expires_at that was good when it came, and no wait is
\* begun on one that has expired: the margin of a second holds in spite of size_t.
THEOREM TokenStaysFresh == Spec => []FreshToken
<1>1. Init => FreshInv
  BY DEF Init, FreshInv, Reading
<1>2. TypeOK /\ FreshInv => FreshToken
  BY DEF TypeOK, FreshInv, FreshToken, Less
<1> QED
  BY <1>1, <1>2, MutexInit, MutexStep, FreshStep, ResolverTypes, PTL DEF Spec

-----------------------------------------------------------------------------
(* The engine.                                                              *)

\* The resolver inside an engine takes the steps of the resolver by itself, so that the
\* theorems above hold of it.
THEOREM EngineRunsResolver == EngineSpec => Spec
<1>1. EngineInit => Init
  BY DEF EngineInit
<1>2. [EngineNext]_allVars => [Next]_vars
  <2> SUFFICES ASSUME EngineNext PROVE Next \/ UNCHANGED vars
    BY DEF allVars
  <2>1. CASE Open \/ StopService \/ BeginDestroy
    BY <2>1 DEF Open, OpenRefused, StartResolver, StartClient, StartEventLoop, StopService, BeginDestroy
  <2>2. CASE DestroyEngine
    BY <2>2 DEF DestroyEngine, DestroyTask, ShutdownClient, JoinClient, DestroyResolver, Gone, Next
  <2>3. CASE InResolver(WorkerProc) \/ InResolver(WakeUp) \/ InResolver(Tick)
    BY <2>3 DEF InResolver, Next
  <2>4. ASSUME NEW ch \in Channels, CreateChannel(ch) \/ DeleteChannel(ch) PROVE UNCHANGED vars
    BY <2>4 DEF CreateChannel, DeleteChannel
  <2>5. ASSUME NEW r \in Readers, StartCall(r) \/ EndCall(r) PROVE UNCHANGED vars
    BY <2>5 DEF StartCall, EndCall
  <2>6. ASSUME NEW r \in Readers, Authenticate(r) \/ InResolver(LockToken(r)) \/ Authenticated(r) PROVE Next
    BY <2>6 DEF Authenticate, InResolver, Authenticated, Next
  <2> QED
    BY <2>1, <2>2, <2>3, <2>4, <2>5, <2>6 DEF EngineNext
<1> QED
  BY <1>1, <1>2, PTL DEF EngineSpec, Spec

\* In an engine, too, the critical section is exclusive and no expired token is handed out.
THEOREM EngineTokens == EngineSpec => [](MutualExclusion /\ FreshToken)
BY EngineRunsResolver, CriticalSection, TokenStaysFresh, PTL

\* Every variable of the engine keeps its type.
THEOREM EngineTypes == EngineSpec => []EngineTypeOK
<1>1. EngineInit /\ TypeOK => EngineTypeOK
  BY DEF EngineInit, EngineTypeOK
<1>2. EngineTypeOK /\ TypeOK' /\ [EngineNext]_allVars => EngineTypeOK'
  <2> SUFFICES ASSUME EngineTypeOK, TypeOK', [EngineNext]_allVars PROVE EngineTypeOK'
    OBVIOUS
  <2> USE DEF EngineTypeOK, Destroying
  <2>1. CASE Open \/ StopService \/ BeginDestroy
    BY <2>1 DEF Open, OpenRefused, StartResolver, StartClient, StartEventLoop, StopService, BeginDestroy
  <2>2. CASE DestroyEngine
    BY <2>2 DEF DestroyEngine, DestroyTask, ShutdownClient, JoinClient, DestroyResolver, Gone, engineVars
  <2>3. CASE InResolver(WorkerProc) \/ InResolver(WakeUp) \/ InResolver(Tick)
    BY <2>3 DEF InResolver, engineVars
  <2>4. ASSUME NEW ch \in Channels, CreateChannel(ch) \/ DeleteChannel(ch) PROVE EngineTypeOK'
    BY <2>4 DEF CreateChannel, DeleteChannel
  <2>5. ASSUME NEW r \in Readers, StartCall(r) \/ EndCall(r) \/ Authenticate(r) \/ Authenticated(r)
        PROVE  EngineTypeOK'
    BY <2>5 DEF StartCall, EndCall, Authenticate, Authenticated
  <2>6. ASSUME NEW r \in Readers, InResolver(LockToken(r)) PROVE EngineTypeOK'
    BY <2>6 DEF InResolver, engineVars
  <2>7. CASE UNCHANGED allVars
    BY <2>7 DEF allVars, engineVars
  <2> QED
    BY <2>1, <2>2, <2>3, <2>4, <2>5, <2>6, <2>7 DEF EngineNext
<1> QED
  BY <1>1, <1>2, EngineRunsResolver, ResolverTypes, PTL DEF EngineSpec

\* Channels live in an open engine only, an open engine has a resolver, and its destructor
\* runs when the client is gone, which leaves no call behind.
LifeInv ==
    /\ channels # {} => engine = "open"
    /\ engine \in {"resolver", "client", "open"} => resolver
    /\ engine \in {"released", "gone"} => \A r \in Readers : call[r] \in {"none", "over"}
    /\ destructor # "none" => engine \in {"released", "gone"}
    /\ \A r \in Readers : call[r] # "none" => resolver

LEMMA LifeStep == EngineTypeOK /\ LifeInv /\ [EngineNext]_allVars => LifeInv'
<1> SUFFICES ASSUME EngineTypeOK, LifeInv, [EngineNext]_allVars PROVE LifeInv'
  OBVIOUS
<1> USE DEF LifeInv
<1>1. CASE Open
  <2>1. UNCHANGED <<destructor, channels, call>> /\ (resolver => resolver')
    BY <1>1 DEF Open, OpenRefused, StartResolver, StartClient, StartEventLoop, vars
  <2>2. /\ engine \in {"created", "resolver", "client"}
        /\ engine' \in {"refused", "resolver", "client", "open"}
        /\ engine' \in {"resolver", "client", "open"} => resolver'
    BY <1>1 DEF Open, OpenRefused, StartResolver, StartClient, StartEventLoop
  <2> QED
    BY <2>1, <2>2
<1>2. CASE StopService
  BY <1>2 DEF StopService, vars
<1>3. CASE BeginDestroy
  BY <1>3 DEF BeginDestroy, vars
<1>4. CASE DestroyTask \/ ShutdownClient \/ JoinClient \/ Gone
  BY <1>4 DEF DestroyTask, ShutdownClient, JoinClient, Gone, vars
<1>5. CASE DestroyResolver
  BY <1>5 DEF DestroyResolver, engineVars
<1>6. CASE InResolver(WorkerProc) \/ InResolver(WakeUp) \/ InResolver(Tick)
  <2>1. destructor' = destructor
    BY <1>6 DEF InResolver, WorkerProc, LockFirst, Fetch, StoreFirst, TestKeep, BeginWait, TimeUp, Relock,
                Store, WakeUp, Tick
  <2> QED
    BY <1>6, <2>1 DEF InResolver, engineVars
<1>7. ASSUME NEW ch \in Channels, CreateChannel(ch) \/ DeleteChannel(ch) PROVE LifeInv'
  BY <1>7 DEF CreateChannel, DeleteChannel, vars
<1>8. ASSUME NEW r \in Readers, StartCall(r) PROVE LifeInv'
  <2>1. engine = "open" /\ resolver
    BY <1>8 DEF StartCall
  <2> QED
    BY <1>8, <2>1 DEF StartCall, EngineTypeOK, vars
<1>9. ASSUME NEW r \in Readers, Authenticate(r) \/ Authenticated(r) \/ EndCall(r) PROVE LifeInv'
  <2>1. /\ UNCHANGED <<engine, resolver, channels, destructor>>
        /\ call[r] \in {"starting", "authenticating", "open"}
        /\ \E next : call' = [call EXCEPT ![r] = next]
    BY <1>9 DEF Authenticate, Authenticated, EndCall, GetToken, ReturnToken, vars
  <2>2. engine \notin {"released", "gone"} /\ resolver
    BY <2>1
  <2>3. destructor = "none"
    BY <2>2
  <2> QED
    BY <2>1, <2>2, <2>3 DEF EngineTypeOK
<1>10. ASSUME NEW r \in Readers, InResolver(LockToken(r)) PROVE LifeInv'
  BY <1>10 DEF InResolver, LockToken, engineVars
<1>11. CASE UNCHANGED allVars
  BY <1>11 DEF allVars, vars, engineVars
<1> QED
  BY <1>1, <1>2, <1>3, <1>4, <1>5, <1>6, <1>7, <1>8, <1>9, <1>10, <1>11 DEF EngineNext, DestroyEngine

\* No call asks for a token when the destruction of the resolver has begun.
THEOREM ResolverOutlivesCalls == EngineSpec => []TokenOutlivesCalls
<1>1. EngineInit => LifeInv
  BY DEF EngineInit, Init, LifeInv
<1>2. LifeInv => TokenOutlivesCalls
  BY DEF LifeInv, TokenOutlivesCalls
<1> QED
  BY <1>1, <1>2, EngineTypes, LifeStep, PTL DEF EngineSpec

==============================================================================
