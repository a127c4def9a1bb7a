---------------------------- MODULE ImageStream ----------------------------
(***************************************************************************)
(* What the update service of the gateway promises to a client, with no    *)
(* mention of pages, erase groups, flash banks or error codes.             *)
(*                                                                         *)
(* A client opens a stream with an initialisation vector, appends chunks   *)
(* to it one after the other, and may ask for a switch of the firmware     *)
(* that runs.  A positive reply to a chunk is given exactly when the chunk *)
(* is stored behind all the chunks stored before it.  The stream may be    *)
(* closed at any moment (a refused frame, a flash error, loss of power),   *)
(* and then starts again from nothing.  The firmware that runs changes     *)
(* only by a switch, and what then runs starts with the stored chunks.     *)
(***************************************************************************)
EXTENDS Naturals, Sequences

CONSTANTS
    IVs,        \* initialisation vectors
    NoIV,       \* the IV of a closed stream
    Payloads,   \* plaintexts of a chunk
    Lengths,    \* legal chunk lengths
    Cells(_, _),   \* Cells(d, n): the pair of flash pages that store n bytes of d
    Images,     \* contents of a whole flash bank
    Prefix(_, _)   \* Prefix(image, n): the first n chunks an image starts with

VARIABLES
    open,       \* is there a stream
    iv,         \* its initialisation vector
    log,        \* the chunks stored so far
    running,    \* the image of the firmware that runs
    reply       \* positive reply to the last chunk, <<>> after anything else

vars == <<open, iv, log, running, reply>>

Init ==
    /\ open = FALSE
    /\ iv = NoIV
    /\ log = <<>>
    /\ running \in Images
    /\ reply = <<>>

Open(v) ==
    /\ open' = TRUE
    /\ iv' = v
    /\ log' = <<>>
    /\ reply' = <<>>
    /\ UNCHANGED running

AppendChunk(d, n) ==
    /\ open
    /\ log' = Append(log, Cells(d, n))
    /\ reply' = <<Len(log), n>>
    /\ UNCHANGED <<open, iv, running>>

Close ==
    /\ open' = FALSE
    /\ iv' = NoIV
    /\ log' = <<>>
    /\ reply' = <<>>
    /\ UNCHANGED running

\* A frame that is refused or that is a command: nothing stored is touched.
Refuse ==
    /\ reply' = <<>>
    /\ UNCHANGED <<open, iv, log, running>>

Switch ==
    /\ running' \in Images
    /\ Prefix(running', Len(log)) = log
    /\ open' = FALSE
    /\ iv' = NoIV
    /\ log' = <<>>
    /\ reply' = <<>>

Next ==
    \/ \E v \in IVs : Open(v)
    \/ \E d \in Payloads, n \in Lengths : AppendChunk(d, n)
    \/ Close
    \/ Refuse
    \/ Switch

Spec == Init /\ [][Next]_vars
=============================================================================
