----------------------------- MODULE AudioStream -----------------------------
(***************************************************************************)
(* What a recognition call promises about the audio given to it: frames    *)
(* reach the call in the order they were fed, none is duplicated or        *)
(* skipped, and nothing is sent once the sending direction was closed.     *)
(* RecognitionConnection.tla implements this module.                       *)
(***************************************************************************)
EXTENDS Naturals, Sequences

VARIABLES
    fed,        \* every frame accepted from the caller, in order
    written,    \* the frames handed to the call so far
    closed      \* the sending direction was closed

avars == <<fed, written, closed>>

AInit ==
    /\ fed = <<>>
    /\ written = <<>>
    /\ closed = FALSE

\* The caller may feed at any moment; frames are numbered by arrival.
Feed ==
    /\ fed' = Append(fed, Len(fed) + 1)
    /\ UNCHANGED <<written, closed>>

\* A non-empty batch goes out: what was written stays a prefix of what was fed.
Transmit ==
    /\ ~closed
    /\ \E n \in (Len(written) + 1) .. Len(fed) : written' = SubSeq(fed, 1, n)
    /\ UNCHANGED <<fed, closed>>

Close ==
    /\ ~closed
    /\ closed' = TRUE
    /\ UNCHANGED <<fed, written>>

ANext == Feed \/ Transmit \/ Close

ASpec == AInit /\ [][ANext]_avars
==============================================================================
