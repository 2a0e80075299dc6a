------------------------ MODULE RecognitionCallbacks ------------------------
(***************************************************************************)
(* What a recognition connection promises the channel that owns it: a       *)
(* callback begins only between the start of the connection and disable(),   *)
(* results come while the call has messages, an error when it has none       *)
(* left, and one error at most unless the channel asked to stop.             *)
(*                                                                          *)
(* RecognitionConnection implements it.  RecognitionChannel, which has one   *)
(* connection per RECOGNIZE, models each of them as no more than this        *)
(* allows.                                                                  *)
(***************************************************************************)
EXTENDS Naturals

VARIABLES
    life,       \* "new", "active" or, after disable(), "disabled"
    stopping,   \* writes_done() was called
    reading,    \* the call may have messages left
    results,    \* on_result callbacks begun
    errors      \* on_error callbacks begun

connection == <<life, stopping, reading, results, errors>>

CInit ==
    /\ life \in {"new", "active"}
    /\ stopping = FALSE
    /\ reading \in BOOLEAN
    /\ results = 0
    /\ errors = 0

Start ==
    /\ life = "new"
    /\ life' = "active"
    /\ reading' = TRUE
    /\ UNCHANGED <<stopping, results, errors>>

WritesDone ==
    /\ life # "new"
    /\ stopping' = TRUE
    /\ UNCHANGED <<life, reading, results, errors>>

Disable ==
    /\ life = "active"
    /\ life' = "disabled"
    /\ UNCHANGED <<stopping, reading, results, errors>>

EndOfMessages ==
    /\ reading
    /\ reading' = FALSE
    /\ UNCHANGED <<life, stopping, results, errors>>

Result ==
    /\ life = "active"
    /\ reading
    /\ results' = results + 1
    /\ UNCHANGED <<life, stopping, reading, errors>>

\* The end of the messages and writes_done() each ask for the status of the call.
Error ==
    /\ life = "active"
    /\ errors' = errors + 1
    /\ errors' <= IF stopping THEN 2 ELSE 1
    /\ reading' \in {reading, FALSE}
    /\ stopping \/ ~reading'
    /\ UNCHANGED <<life, stopping, results>>

CNext == Start \/ WritesDone \/ Disable \/ EndOfMessages \/ Result \/ Error

CSpec == CInit /\ [][CNext]_connection
==============================================================================
