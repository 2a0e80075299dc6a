-------------------------------- MODULE Engine --------------------------------
(***************************************************************************)
(* smartspeech::mrcp::recognition::engine and its synthesis twin              *)
(* (mrcp/recognition/engine.cpp, mrcp/synthesis/engine.cpp; the same code),   *)
(* from creation to destruction: the event loop, the token resolver and the   *)
(* gRPC client, which the channels share.                                     *)
(*                                                                          *)
(* This composes TokenResolver, whose readers are here the gRPC calls: when   *)
(* a call starts, a thread of gRPC asks the client's authenticator for the    *)
(* token.  The authenticator keeps a plain reference to the resolver.         *)
(*                                                                          *)
(* The environment is UniMRCP: it opens an engine once, creates channels      *)
(* while it is open, closes it when no channel is left, and destroys an       *)
(* engine that is closed or was never opened.  A channel that is deleted has  *)
(* disabled its connection, but the call may still be running.  gRPC is taken *)
(* not to end a call while the authenticator is at work for it.               *)
(***************************************************************************)
EXTENDS TokenResolver

CONSTANT Channels   \* the channels a server may have at a time

VARIABLES
    engine,     \* how far the life of the engine has come
    loop,       \* event_loop_
    resolver,   \* token_resolver_ is set
    client,     \* the gRPC client: its completion queue and worker
    channels,   \* the channels that live
    call        \* every call: none, starting, authenticating, open, over

engineVars == <<engine, loop, resolver, client, channels, call>>
allVars == <<vars, engineVars>>

\* The constructor creates the event loop, but does not start it.
EngineInit ==
    /\ Init
    /\ engine = "created"
    /\ loop = "created"
    /\ resolver = FALSE
    /\ client = "none"
    /\ channels = {}
    /\ call = [r \in Readers |-> "none"]

-----------------------------------------------------------------------------
(* open(), create_channel(), close().                                       *)

\* The configuration lacks a parameter.
OpenRefused ==
    /\ Running
    /\ engine = "created"
    /\ engine' = "refused"
    /\ UNCHANGED <<vars, loop, resolver, client, channels, call>>

\* start_service(): the resolver and its worker ...
StartResolver ==
    /\ Running
    /\ engine = "created"
    /\ resolver' = TRUE
    /\ engine' = "resolver"
    /\ UNCHANGED <<vars, loop, client, channels, call>>

\* ... the client and its worker ...
StartClient ==
    /\ Running
    /\ engine = "resolver"
    /\ client' = "running"
    /\ engine' = "client"
    /\ UNCHANGED <<vars, loop, resolver, channels, call>>

\* ... and the event loop.  The engine does not wait for the first token.
StartEventLoop ==
    /\ Running
    /\ engine = "client"
    /\ loop' = "running"
    /\ engine' = "open"
    /\ UNCHANGED <<vars, resolver, client, channels, call>>

CreateChannel(ch) ==
    /\ Running
    /\ engine = "open"
    /\ ch \notin channels
    /\ channels' = channels \cup {ch}
    /\ UNCHANGED <<vars, engine, loop, resolver, client, call>>

DeleteChannel(ch) ==
    /\ Running
    /\ ch \in channels
    /\ channels' = channels \ {ch}
    /\ UNCHANGED <<vars, engine, loop, resolver, client, call>>

\* Mutant of StopService: the event loop is not terminated.
CloseOnly ==
    /\ Running
    /\ engine = "open"
    /\ channels = {}
    /\ engine' = "closed"
    /\ UNCHANGED <<vars, loop, resolver, client, channels, call>>

\* close(): terminates the event loop and waits for its thread.
StopService ==
    /\ Running
    /\ engine = "open"
    /\ channels = {}
    /\ loop' = "terminated"
    /\ engine' = "closed"
    /\ UNCHANGED <<vars, resolver, client, channels, call>>

-----------------------------------------------------------------------------
(* The calls of the channels.                                               *)

StartCall(r) ==
    /\ Running
    /\ channels # {}
    /\ call[r] = "none"
    /\ call' = [call EXCEPT ![r] = "starting"]
    /\ UNCHANGED <<vars, engine, loop, resolver, client, channels>>

\* authenticator::GetMetadata() calls get_token() ...
Authenticate(r) ==
    /\ call[r] = "starting"
    /\ GetToken(r)
    /\ call' = [call EXCEPT ![r] = "authenticating"]
    /\ UNCHANGED <<engine, loop, resolver, client, channels>>

\* ... and the call goes out with its answer.
Authenticated(r) ==
    /\ call[r] = "authenticating"
    /\ ReturnToken(r)
    /\ call' = [call EXCEPT ![r] = "open"]
    /\ UNCHANGED <<engine, loop, resolver, client, channels>>

\* The service ends the call, or it fails before it is authenticated, and the client's
\* worker has taken its last tag.
EndCall(r) ==
    /\ Running
    /\ call[r] \in {"starting", "open"}
    /\ call' = [call EXCEPT ![r] = "over"]
    /\ UNCHANGED <<vars, engine, loop, resolver, client, channels>>

-----------------------------------------------------------------------------
(* ~engine(): the body, then the members, the client before the resolver.    *)

BeginDestroy ==
    /\ Running
    /\ engine \in {"created", "refused", "closed"}
    /\ engine' = "destroying"
    /\ UNCHANGED <<vars, loop, resolver, client, channels, call>>

\* apt_task_destroy() would wait for a thread that was not terminated.
DestroyTask ==
    /\ Running
    /\ engine = "destroying"
    /\ loop # "running"
    /\ loop' = "destroyed"
    /\ engine' = "cleaning"
    /\ UNCHANGED <<vars, resolver, client, channels, call>>

\* curl_global_cleanup(), although the resolver's worker may be inside libcurl; then the
\* engine's reference to the client, the last one, is given up.  ~client() shuts the
\* completion queue down.
ShutdownClient ==
    /\ Running
    /\ engine = "cleaning"
    /\ client' = IF client = "running" THEN "shutdown" ELSE client
    /\ engine' = "releasing"
    /\ UNCHANGED <<vars, loop, resolver, channels, call>>

\* Mutant of JoinClient: the worker is not waited for.
DetachClient ==
    /\ Running
    /\ engine = "releasing"
    /\ client' = IF client = "shutdown" THEN "joined" ELSE client
    /\ engine' = "released"
    /\ UNCHANGED <<vars, loop, resolver, channels, call>>

\* ~client() joins the worker, which leaves when the queue is drained: when every call of
\* every channel, deleted or not, has completed its operations.
JoinClient ==
    /\ Running
    /\ engine = "releasing"
    /\ \A r \in Readers : call[r] \in {"none", "over"}
    /\ client' = IF client = "shutdown" THEN "joined" ELSE client
    /\ engine' = "released"
    /\ UNCHANGED <<vars, loop, resolver, channels, call>>

\* ~token_resolver(), when there is one.
DestroyResolver ==
    /\ engine = "released"
    /\ resolver
    /\ Destroy
    /\ UNCHANGED engineVars

Gone ==
    /\ Running
    /\ engine = "released"
    /\ resolver => destructor = "joined"
    /\ engine' = "gone"
    /\ UNCHANGED <<vars, loop, resolver, client, channels, call>>

-----------------------------------------------------------------------------

Open == OpenRefused \/ StartResolver \/ StartClient \/ StartEventLoop

DestroyEngine ==
    \/ DestroyTask
    \/ ShutdownClient
    \/ JoinClient
    \/ DestroyResolver
    \/ Gone

InResolver(action) == resolver /\ action /\ UNCHANGED engineVars

EngineNext ==
    \/ Open
    \/ StopService
    \/ BeginDestroy
    \/ DestroyEngine
    \/ InResolver(WorkerProc)
    \/ InResolver(WakeUp)
    \/ InResolver(Tick)
    \/ \E ch \in Channels : CreateChannel(ch) \/ DeleteChannel(ch)
    \/ \E r \in Readers :
        \/ StartCall(r)
        \/ Authenticate(r)
        \/ InResolver(LockToken(r))
        \/ Authenticated(r)
        \/ EndCall(r)

EngineSpec == EngineInit /\ [][EngineNext]_allVars

(***************************************************************************)
(* Fairness: as in TokenResolver; a call that started is authenticated and    *)
(* ended by the service; a destruction that began goes on.  Nobody is obliged *)
(* to open, close or destroy the engine.                                      *)
(***************************************************************************)
FairEngineSpec ==
    /\ EngineSpec
    /\ WF_allVars(InResolver(WorkerProc))
    /\ SF_allVars(InResolver(LockFirst))
    /\ SF_allVars(InResolver(Relock))
    /\ WF_allVars(InResolver(Tick))
    /\ WF_allVars(DestroyEngine)
    /\ \A r \in Readers :
        /\ WF_allVars(Authenticate(r) \/ Authenticated(r) \/ EndCall(r))
        /\ SF_allVars(InResolver(LockToken(r)))

-----------------------------------------------------------------------------
(* Properties.                                                              *)

Destroying == engine \in {"destroying", "cleaning", "releasing", "released"}

EngineTypeOK ==
    /\ TypeOK
    /\ \/ engine \in {"created", "refused", "resolver", "client", "open", "closed", "gone"}
       \/ Destroying
    /\ loop \in {"created", "running", "terminated", "destroyed"}
    /\ resolver \in BOOLEAN
    /\ client \in {"none", "running", "shutdown", "joined"}
    /\ channels \subseteq Channels
    /\ call \in [Readers -> {"none", "starting", "authenticating", "open", "over"}]

\* No call asks for a token when ~token_resolver() has begun, although calls outlive their
\* channels and the authenticator does not own the resolver: the client is destroyed
\* first, and its destructor waits for every call.
TokenOutlivesCalls ==
    \A r \in Readers : call[r] \in {"starting", "authenticating"} => resolver /\ destructor = "none"

\* Every get_token() returns, although the worker holds the mutex except while it waits,
\* and keeps it when it leaves: nobody asks for a token any more by then.
EveryTokenReturned ==
    \A r \in Readers : (reader[r] = "locking") ~> (reader[r] = "reading" \/ ~Running)

\* A destruction that began comes to its end, whether the engine was ever opened or not.
\* The destructor of the resolver does not take the mutex, so that its notification can be
\* lost; the worker then sees keep_ when its wait is over.
DestroyReturns == Destroying ~> (engine = "gone" \/ ~Running)
==============================================================================
