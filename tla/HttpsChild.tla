----------------------------- MODULE HttpsChild -----------------------------
(***************************************************************************)
(* The private HTTPS consumer of src/agent_https.rs: the owner spawns curl *)
(* before a private use is journalled (prepare), writes the configuration  *)
(* with the credentials to its stdin at the handoff (deliver), reads the   *)
(* three status digits from its stdout and reaps it, all under one wall    *)
(* timeout; whatever happens, dropping the handle kills and reaps curl.    *)
(* The owner is single-threaded and blocks in deliver; curl and the server *)
(* run concurrently with it.  The module composes with Broker, which       *)
(* declares when a delivery starts.                                        *)
(*                                                                         *)
(* Configuration text is reduced to the number of pieces written, a status *)
(* byte to a digit (10 for anything else).                                 *)
(***************************************************************************)
EXTENDS Naturals, Sequences

CONSTANTS
    None,
    Chunks,      \* pieces the pipe may accept the configuration in
    Wall,        \* timeouts.wall(): total_ms + WALL_MARGIN_MS
    StatusBytes  \* byte sequences curl may print

VARIABLES
    now,    \* the clock
    https,  \* PreparedHttps and the locals of deliver
    curl    \* the child process, its stdout pipe and, as history, its server

\* deliver's loop alternates "write", "read" and "reap"; "kill" is the second
\* half of Drop, after both pipes were closed.
Stages == {"idle", "prepared", "write", "read", "reap", "kill"}

DeliveryStatus == {"Accepted", "Rejected", "Unknown"}

\* A configuration is never empty, and a delivery always has some time.
ASSUME ChildAssumption ==
    /\ Chunks \in Nat \ {0} /\ Wall \in Nat \ {0}
    /\ StatusBytes \subseteq Seq(0 .. 10)
    /\ None \notin BOOLEAN /\ None \notin DeliveryStatus

NoHttps == [stage |-> "idle", input |-> FALSE, sent |-> 0, received |-> 0, eof |-> FALSE,
            exit |-> None, deadline |-> 0, outcome |-> None]

\* asked is the part of the configuration curl acted on, reply the class of
\* the server's complete response to it.
NoCurl == [at |-> "none", out |-> <<>>, success |-> FALSE, asked |-> None, reply |-> None]

HttpsInit == https = NoHttps /\ curl = NoCurl

-----------------------------------------------------------------------------
(* The owner. *)

\* Mutant: any three digits count, whatever curl's exit status.
MapStatusPrinted(success, bytes) ==
    IF Len(bytes) # 3 THEN "Unknown"
    ELSE IF bytes[1] = 2 THEN "Accepted"
    ELSE IF bytes[1] \in {3, 4} THEN "Rejected"
    ELSE "Unknown"

\* Only complete successes count: curl exited with zero and printed exactly
\* three digits.
MapStatus(success, bytes) ==
    IF ~success \/ Len(bytes) # 3 \/ (\E i \in 1 .. 3 : bytes[i] \notin 0 .. 9) THEN "Unknown"
    ELSE IF bytes[1] = 2 THEN "Accepted"
    ELSE IF bytes[1] \in {3, 4} THEN "Rejected"
    ELSE "Unknown"

\* spawn: curl waits for its configuration, nothing was written to it.
Prepare ==
    /\ https' = [NoHttps EXCEPT !.stage = "prepared", !.input = TRUE]
    /\ curl' = [NoCurl EXCEPT !.at = "config"]

\* The first half of Drop closes both pipes, the second sends SIGKILL and
\* waits; in between curl sees the end of its input.
Drop(outcome) ==
    /\ https' = [https EXCEPT !.stage = "kill", !.input = FALSE, !.outcome = outcome]
    /\ UNCHANGED curl

\* Mutant: the handle is dropped without killing and reaping the child.
DropForgets ==
    /\ https.stage = "kill"
    /\ https' = [NoHttps EXCEPT !.outcome = https.outcome]
    /\ UNCHANGED curl

\* wait() returns a status try_wait already collected, so a child that was
\* reaped is not signalled again.
DropKill ==
    /\ https.stage = "kill"
    /\ https' = [NoHttps EXCEPT !.outcome = https.outcome]
    /\ curl' = [curl EXCEPT !.at = "none"]

\* Entering deliver.  append_auth refuses values the request cannot carry,
\* before anything is written.
StartDeliver ==
    /\ https' = [https EXCEPT !.stage = "write", !.deadline = now + Wall]
    /\ UNCHANGED curl

DeliverRefused == Drop("Unknown")

\* Mutant: only curl's own --max-time ends a delivery.
TimedOutNever == FALSE

TimedOut == now >= https.deadline

\* The top of the loop: the timeout, then one non-blocking write.  The pipe
\* takes some, none or all of the rest; the last piece closes it, and a pipe
\* whose reader is gone fails.
Write ==
    /\ https.stage = "write"
    /\ IF TimedOut THEN Drop("Unknown")
       ELSE IF ~https.input THEN https' = [https EXCEPT !.stage = "read"] /\ UNCHANGED curl
       ELSE IF curl.at \in {"zombie", "none"} THEN Drop("Unknown")
       ELSE \E n \in 0 .. Chunks - https.sent :
               /\ https' = [https EXCEPT !.stage = "read", !.sent = @ + n,
                                         !.input = https.sent + n # Chunks]
               /\ UNCHANGED curl

\* Mutant: the buffer is taken to be one byte longer than it is.
BufferFullLate(n) == https.received + n > 4

BufferFull(n) == https.received + n = 4

\* One non-blocking read of at most the rest of the four-byte buffer.
Read ==
    /\ https.stage = "read"
    /\ LET available == Len(curl.out) - https.received IN
       IF https.eof \/ (available = 0 /\ curl.at \notin {"zombie", "none"})
       THEN https' = [https EXCEPT !.stage = "reap"] /\ UNCHANGED curl
       ELSE IF available = 0
       THEN https' = [https EXCEPT !.stage = "reap", !.eof = TRUE] /\ UNCHANGED curl
       ELSE \E n \in {k \in 1 .. available : https.received + k <= 4} :
               IF BufferFull(n) THEN Drop("Unknown")
               ELSE /\ https' = [https EXCEPT !.stage = "reap", !.received = @ + n]
                    /\ UNCHANGED curl

\* try_wait; a delivery is over when the child was reaped and its output ended.
Over(exit, eof) == exit # None /\ eof

Reap ==
    /\ https.stage = "reap"
    /\ LET exited == https.exit = None /\ curl.at = "zombie"
           exit   == IF exited THEN curl.success ELSE https.exit IN
       /\ curl' = IF exited THEN [curl EXCEPT !.at = "none"] ELSE curl
       /\ https' = IF Over(exit, https.eof)
                   THEN [NoHttps EXCEPT !.outcome = MapStatus(exit, SubSeq(curl.out, 1, https.received))]
                   ELSE [https EXCEPT !.stage = "write", !.exit = exit]

HttpsStep == Write \/ Read \/ Reap \/ DropKill

-----------------------------------------------------------------------------
(* curl and the server it talks to (not part of the repository). *)

\* The end of stdin starts the request with whatever was read.
CurlStart ==
    /\ curl.at = "config"
    /\ ~https.input
    /\ curl' = [curl EXCEPT !.at = "talk", !.asked = https.sent]

\* The server answered completely: the status is printed, curl exits with 0.
CurlAnswers ==
    /\ curl.at = "talk"
    /\ \E bytes \in {b \in StatusBytes : Len(b) > 0} :
          curl' = [curl EXCEPT !.at = "zombie", !.out = bytes, !.success = TRUE, !.reply = bytes[1]]

\* curl fails: no connection, --max-time, a truncated response, a crash.  It
\* may have printed the status of a response it could not finish reading.
CurlFails ==
    /\ curl.at \in {"config", "talk"}
    /\ \E bytes \in StatusBytes : curl' = [curl EXCEPT !.at = "zombie", !.out = bytes]

CurlStep == (CurlStart \/ CurlAnswers \/ CurlFails) /\ UNCHANGED <<now, https>>

-----------------------------------------------------------------------------
(* Properties *)

HttpsTypeOK ==
    /\ https.stage \in Stages
    /\ https.sent \in 0 .. Chunks
    /\ https.received \in 0 .. 3
    /\ https.outcome \in DeliveryStatus \cup {None}
    /\ curl.at \in {"none", "config", "talk", "zombie"}

\* An outcome other than Unknown is what the server said to the complete
\* configuration: a timeout, an early exit, a status that was printed but not
\* yet read and a failed transfer all stay Unknown (deliver, map_status).
OutcomeIsTruthful ==
    https.stage = "idle" /\ https.outcome \in {"Accepted", "Rejected"} =>
        /\ curl.asked = Chunks
        /\ (https.outcome = "Accepted") <=> (curl.reply = 2)

\* The owner never goes on with other work while a curl of its own runs or
\* waits to be reaped (Drop, deliver).
NoStrayChild == https.stage = "idle" => curl.at = "none"
=============================================================================
