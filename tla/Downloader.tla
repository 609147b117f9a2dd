----------------------------- MODULE Downloader -----------------------------
(***************************************************************************)
(* One call of downloader.DownloadToTemp (engine/downloader/download.go):  *)
(* up to MaxAttempts requests for one URL, each of which resumes the file  *)
(* the last one left, until the file starts with the ZIP magic.            *)
(*                                                                         *)
(* A body is a sequence of blocks, the first of which shows whether it is  *)
(* an IPA.  The server is the environment: it answers any request in any   *)
(* way HTTP allows, may replace the IPA by another build between two       *)
(* requests, and may close a body it sent without a length too early,      *)
(* which the client cannot notice.                                         *)
(***************************************************************************)
EXTENDS Integers, Sequences

CONSTANTS
    MaxAttempts,
    Block,   \* pieces of a body
    Magic,   \* the blocks that start with "PK"
    Builds,  \* bodies of the IPA, one for each build that is published
    Pages    \* other bodies sent with status 200: login and error pages

ASSUME AttemptsAssumption == MaxAttempts \in Nat \ {0}
ASSUME BodiesAssumption ==
    /\ Magic \subseteq Block
    /\ \A b \in Builds : b \in Seq(Block) /\ Len(b) > 0 /\ b[1] \in Magic
    /\ \A p \in Pages : p \in Seq(Block) /\ (Len(p) > 0 => p[1] \notin Magic)

VARIABLES
    pc,
    attempt,
    exists,   \* is there a file at localPath?
    data,     \* what is in it
    asked,    \* the offset of the Range header, 0 for none
    build,    \* the build the server has
    steady,   \* the server kept its build while there was a file, and
              \* finished every body or let the client see that it did not
    healthy,  \* the last answer was complete, and not a page
    result

vars == <<pc, attempt, exists, data, asked, build, steady, healthy, result>>

(* The type invariant. *)
TypeOK ==
    /\ pc \in {"stat", "ask", "validate", "failed", "returned"}
    /\ attempt \in 1..MaxAttempts
    /\ exists \in BOOLEAN
    /\ data \in Seq(Block)
    /\ asked \in Nat
    /\ build \in Builds
    /\ steady \in BOOLEAN
    /\ healthy \in BOOLEAN
    /\ result \in {"none", "ok", "error"}

Valid(body) == Len(body) > 0 /\ body[1] \in Magic

(* A file of a fresh random name, removed in case it is there. *)
Init ==
    /\ pc = "stat"
    /\ attempt = 1
    /\ exists = FALSE
    /\ data = <<>>
    /\ asked = 0
    /\ build \in Builds
    /\ steady = TRUE
    /\ healthy = FALSE
    /\ result = "none"

-----------------------------------------------------------------------------
(* downloadWithResume: ask for what is missing, or for everything. *)
Request ==
    /\ pc = "stat"
    /\ asked' = IF exists THEN Len(data) ELSE 0
    /\ healthy' = FALSE
    /\ pc' = "ask"
    /\ UNCHANGED <<attempt, exists, data, build, steady, result>>

(* No answer, a status that is an error, or a file that cannot be opened. *)
Refused ==
    /\ pc = "ask"
    /\ pc' = "failed"
    /\ UNCHANGED <<attempt, exists, data, asked, build, steady, healthy, result>>

(* 416: the offset is not inside the body; taken to be a complete file. *)
NotSatisfiable ==
    /\ pc = "ask"
    /\ asked > 0
    /\ asked >= Len(build)
    /\ pc' = "validate"
    /\ UNCHANGED <<attempt, exists, data, asked, build, steady, healthy, result>>

(* What the open flags leave in the file before an answer is written to it:*)
(* O_APPEND for a 206 to a request for a range, O_TRUNC otherwise.         *)
KeptIfAsked(status) ==    \* mutant: a 200 to a request for a range appends
    IF asked > 0 THEN data ELSE <<>>
Kept(status) == IF status = 206 /\ asked > 0 THEN data ELSE <<>>

(***************************************************************************)
(* The body is copied until it ends, or until reading or writing fails.    *)
(* If it ends early without an error the client takes it for complete.     *)
(***************************************************************************)
Receive(status, body) ==
    /\ pc = "ask"
    /\ \E n \in 0..Len(body), failed \in BOOLEAN :
          /\ data' = Kept(status) \o SubSeq(body, 1, n)
          /\ pc' = IF failed THEN "failed" ELSE "validate"
          /\ steady' = (steady /\ (failed \/ n = Len(body)))
          /\ healthy' = (~failed /\ n = Len(body) /\ body \notin Pages)
    /\ exists' = TRUE
    /\ UNCHANGED <<attempt, asked, build, result>>

(* 200: all of the build, or a page. *)
ReceiveAll == \E body \in {build} \cup Pages : Receive(200, body)

(* 206: the range that was asked for. *)
ReceiveRange ==
    /\ asked > 0
    /\ asked < Len(build)
    /\ Receive(206, SubSeq(build, asked + 1, Len(build)))

(* validateIPA: a file that is not an IPA is a failed attempt, and is kept.*)
Validate ==
    /\ pc = "validate"
    /\ IF exists /\ Valid(data)
       THEN pc' = "returned" /\ result' = "ok"
       ELSE pc' = "failed" /\ result' = result
    /\ UNCHANGED <<attempt, exists, data, asked, build, steady, healthy>>

(* Mutant of RetryAfter: a retry that is not counted. *)
RetryUncounted ==
    /\ attempt < MaxAttempts
    /\ attempt' = attempt
    /\ pc' = "stat"

(* The loop goes on after the back-off. *)
RetryAfter ==
    /\ attempt < MaxAttempts
    /\ attempt' = attempt + 1
    /\ pc' = "stat"

Retry ==
    /\ pc = "failed"
    /\ RetryAfter
    /\ UNCHANGED <<exists, data, asked, build, steady, healthy, result>>

(* After the last attempt the file is removed and the last error returned. *)
RemoveNothing == UNCHANGED <<exists, data>>     \* mutant: the file is left
RemoveFile == exists' = FALSE /\ data' = <<>>

GiveUp ==
    /\ pc = "failed"
    /\ attempt = MaxAttempts
    /\ RemoveFile
    /\ result' = "error"
    /\ pc' = "returned"
    /\ UNCHANGED <<attempt, asked, build, steady, healthy>>

(* The environment: another build is published before the answer. *)
Publish ==
    /\ pc \in {"stat", "ask"}
    /\ \E b \in Builds \ {build} : build' = b
    /\ steady' = (steady /\ ~exists)
    /\ UNCHANGED <<pc, attempt, exists, data, asked, healthy, result>>

(* Nothing happens after the return. *)
Returned == pc = "returned" /\ UNCHANGED vars

Step ==
    \/ Request \/ Refused \/ NotSatisfiable \/ ReceiveAll \/ ReceiveRange
    \/ Validate \/ Retry \/ GiveUp

Next == Step \/ Publish \/ Returned

Spec == Init /\ [][Next]_vars

(***************************************************************************)
(* The http.Client has a total timeout, so every request is answered or    *)
(* fails; the call runs in one goroutine, which keeps going.               *)
(***************************************************************************)
FairSpec == Spec /\ WF_vars(Step)

-----------------------------------------------------------------------------
(***************************************************************************)
(* What is handed to the signer is a whole build, however often the        *)
(* transfer was cut off, whatever pages came in between, and whether the   *)
(* server honoured the ranges or not - as long as it was steady.           *)
(***************************************************************************)
DownloadIsWhole == result = "ok" /\ steady => data = build

(***************************************************************************)
(* A failed call leaves no file: the caller gets no name to track for      *)
(* clean-up (worker.go:94), so nobody else would delete it.  A successful  *)
(* one leaves a file that passed the check.                                *)
(***************************************************************************)
FileIffReturned ==
    /\ result = "error" => ~exists
    /\ result = "ok" => exists /\ Valid(data)

(* The call returns, whatever the server does. *)
Returns == <>(pc = "returned")

-----------------------------------------------------------------------------
(* Why: as long as the server is steady, the file is the beginning of its  *)
(* build, or starts with something else and will never be taken for one.   *)
IsPartOf(d, body) ==
    /\ Len(d) <= Len(body)
    /\ \A i \in 1..Len(d) : d[i] = body[i]

ResumeInvariant ==
    /\ TypeOK
    /\ ~exists => data = <<>>
    /\ pc = "ask" => asked = Len(data)
    /\ steady => IsPartOf(data, build) \/ (data # <<>> /\ ~Valid(data))
    /\ steady /\ pc = "validate" => data = build \/ ~Valid(data)
    /\ result = "ok" => /\ pc = "returned"
                        /\ exists
                        /\ Valid(data)
                        /\ steady => data = build
    /\ result = "error" => pc = "returned" /\ ~exists

-----------------------------------------------------------------------------
(* What the documentation says and the code does not do. *)

(***************************************************************************)
(* README.md:600-603: a response that is not a ZIP is rejected as a failed *)
(* download and the request is retried; so a retry that gets the complete  *)
(* answer it asked for, from a steady server, yields an IPA.               *)
(***************************************************************************)
CompleteAnswerSuffices ==
    pc = "validate" /\ healthy /\ steady => Valid(data)
=============================================================================
