------------------------------ MODULE MobileRun ------------------------------
(***************************************************************************)
(* Calls of GoSignerRun (mobile/gosigner_ffi.go) and the logger they       *)
(* share.  Each call redirects the process-wide log output to a buffer of  *)
(* its own and puts back, when it returns, the writer that it found.  The  *)
(* caller is the environment: an app that keeps at most MaxActive calls in *)
(* flight.                                                                 *)
(***************************************************************************)
EXTENDS Integers, Sequences, FiniteSets

CONSTANTS
    Calls,
    Stderr,     \* the writer the process starts with
    Apps,       \* what a request may ask for an app
    Requests,   \* the sequences of apps that are asked for
    Pepper,     \* the secret of this build
    MaxActive,  \* calls that the app makes at once
    MaxLines    \* lines that one call logs, a bound of the model

(***************************************************************************)
(* The credentials of an app come as they are, or sealed for a device and  *)
(* a certificate (enc, udid, cert_id) with the pepper of some build: enc   *)
(* has no element, or one.                                                 *)
(***************************************************************************)
ASSUME MobileAssumption ==
    /\ MaxActive \in Nat \ {0} /\ MaxLines \in Nat /\ Stderr \notin Calls
    /\ Requests \subseteq Seq(Apps)
    /\ \A a \in Apps : Cardinality(a.enc) <= 1

VARIABLES
    pc,
    writer,  \* where log.Printf writes to
    prev,    \* the writer that each call found
    buf,     \* each call's logBuf: whose lines it holds
    lines,   \* how many lines each call has logged
    answer,  \* what each call returned
    apps,    \* what the workers of each call are given
    first,   \* the last call that was made while no other one was open
    shared,  \* the calls that were open while another one was
    nested   \* no such first call has returned yet while others were open

vars == <<pc, writer, prev, buf, lines, answer, apps, first, shared, nested>>
logs == <<buf, lines, answer, apps>>
history == <<first, shared, nested>>

Active == {c \in Calls : pc[c] \notin {"idle", "returned"}}

NoAnswer == [kind |-> "none", log |-> <<>>]

Init ==
    /\ pc = [c \in Calls |-> "idle"]
    /\ writer = Stderr
    /\ prev = [c \in Calls |-> Stderr]
    /\ buf = [c \in Calls |-> <<>>]
    /\ lines = [c \in Calls |-> 0]
    /\ answer = [c \in Calls |-> NoAnswer]
    /\ apps = [c \in Calls |-> <<>>]
    /\ first = Stderr
    /\ shared = {}
    /\ nested = TRUE

(* prev := log.Writer(), by a call that the app makes now. *)
Enter(c) ==
    /\ pc[c] = "idle"
    /\ Cardinality(Active) < MaxActive
    /\ prev' = [prev EXCEPT ![c] = writer]
    /\ pc' = [pc EXCEPT ![c] = "redirect"]
    /\ first' = IF Active = {} THEN c ELSE first
    /\ shared' = IF Active = {} THEN shared ELSE shared \cup Active \cup {c}
    /\ UNCHANGED <<writer, logs, nested>>

(* log.SetOutput(&logBuf) *)
RedirectNothing(c) ==    \* mutant: the buffer is made and not used
    /\ pc[c] = "redirect"
    /\ pc' = [pc EXCEPT ![c] = "request"]
    /\ UNCHANGED <<writer, prev, logs, history>>
Redirect(c) ==
    /\ pc[c] = "redirect"
    /\ writer' = c
    /\ pc' = [pc EXCEPT ![c] = "request"]
    /\ UNCHANGED <<prev, logs, history>>

(* decryptBundle: the key is derived from the pepper, the device and the   *)
(* certificate, which are authenticated too.                               *)
Opens(a) ==
    \A e \in a.enc : e.pepper = Pepper /\ e.udid = a.udid /\ e.certID = a.certID

(* applyEncrypted: what was sealed takes the place of the credentials, and *)
(* of the seal there is nothing left.                                      *)
Decrypted(a) ==
    IF a.enc = {} THEN a
    ELSE [enc |-> {}, udid |-> "", certID |-> "",
          credentials |-> (CHOOSE e \in a.enc : TRUE).credentials]

(* The request is parsed and its certificates are decrypted; either can    *)
(* fail, for all of the apps at once, and then the log is not returned.    *)
Answer(c, kind, log) ==
    /\ answer' = [answer EXCEPT ![c] = [kind |-> kind, log |-> log]]
    /\ pc' = [pc EXCEPT ![c] = "restore"]

Malformed(c) ==
    /\ pc[c] = "request"
    /\ Answer(c, "error", <<>>)
    /\ UNCHANGED <<writer, prev, buf, lines, apps, history>>

Request(c) ==
    /\ pc[c] = "request"
    /\ \E req \in Requests :
          IF \A i \in DOMAIN req : Opens(req[i])
          THEN /\ apps' = [apps EXCEPT ![c] = [i \in DOMAIN req |-> Decrypted(req[i])]]
               /\ pc' = [pc EXCEPT ![c] = "run"]
               /\ UNCHANGED answer
          ELSE Answer(c, "error", <<>>) /\ UNCHANGED apps
    /\ UNCHANGED <<writer, prev, buf, lines, history>>

(* A worker of the call logs a line: to whatever the writer is. *)
Log(c) ==
    /\ pc[c] = "run"
    /\ lines[c] < MaxLines
    /\ lines' = [lines EXCEPT ![c] = @ + 1]
    /\ buf' = IF writer = Stderr THEN buf
              ELSE [buf EXCEPT ![writer] = Append(@, c)]
    /\ UNCHANGED <<pc, writer, prev, answer, apps, history>>

(* worker.Run has returned; logBuf.String() goes into the answer. *)
Respond(c) ==
    /\ pc[c] = "run"
    /\ Answer(c, "response", buf[c])
    /\ UNCHANGED <<writer, prev, buf, lines, apps, history>>

(* The deferred log.SetOutput(prev). *)
KeepOnError(c) == IF answer[c].kind = "error" THEN writer ELSE prev[c]  \* mutant
WriterAfter(c) == prev[c]

Restore(c) ==
    /\ pc[c] = "restore"
    /\ writer' = WriterAfter(c)
    /\ pc' = [pc EXCEPT ![c] = "returned"]
    /\ nested' = (nested /\ (c = first => Active = {c}))
    /\ UNCHANGED <<prev, logs, first, shared>>

Step(c) ==
    \/ Enter(c) \/ Redirect(c) \/ Malformed(c) \/ Request(c) \/ Log(c) \/ Respond(c)
    \/ Restore(c)

AllReturned == (\A c \in Calls : pc[c] = "returned") /\ UNCHANGED vars

Next == (\E c \in Calls : Step(c)) \/ AllReturned

Spec == Init /\ [][Next]_vars

-----------------------------------------------------------------------------
(* The type invariant; every call that returns has an answer. *)
TypeOK ==
    /\ pc \in [Calls -> {"idle", "redirect", "request", "run", "restore", "returned"}]
    /\ writer \in Calls \cup {Stderr}
    /\ prev \in [Calls -> Calls \cup {Stderr}]
    /\ buf \in [Calls -> Seq(Calls)]
    /\ lines \in [Calls -> 0..MaxLines]
    /\ answer \in [Calls -> [kind : {"none", "error", "response"}, log : Seq(Calls)]]
    /\ \A c \in Calls : answer[c].kind # "none" <=> pc[c] \in {"restore", "returned"}
    /\ apps \in [Calls -> Seq(Apps \cup {Decrypted(a) : a \in Apps})]
    /\ first \in Calls \cup {Stderr}
    /\ shared \subseteq Calls
    /\ nested \in BOOLEAN

(***************************************************************************)
(* gosigner_ffi.go:147: a call captures the engine's log - all of what its *)
(* own workers logged, and nothing of another call - if it was the only    *)
(* one open, even after others have returned in any order.  Two calls that *)
(* are open at once share one logger, and get each other's lines.          *)
(***************************************************************************)
LogIsOwn ==
    \A c \in Calls \ shared : answer[c].kind = "response" =>
        /\ Len(answer[c].log) = lines[c]
        /\ \A i \in DOMAIN answer[c].log : answer[c].log[i] = c

(***************************************************************************)
(* gosigner_ffi.go:119-120: what is sealed for a device never reaches the  *)
(* workers; all of the apps that a call runs have their own credentials.   *)
(***************************************************************************)
CredentialsAreOpen ==
    \A c \in Calls : \A i \in DOMAIN apps[c] :
        LET a == apps[c][i]
        IN  /\ a.enc = {}
            /\ \E req \in Requests :
                  /\ i \in DOMAIN req
                  /\ \/ a = req[i]
                     \/ \E e \in req[i].enc :
                           e.udid = req[i].udid /\ a.credentials = e.credentials

(***************************************************************************)
(* The inductive invariant.  Calls that are open at the same time know of  *)
(* each other; nothing leads to a buffer before its call has redirected    *)
(* the log; and as long as a call is alone, what it logs goes to its own.  *)
(***************************************************************************)
NothingBeforeRedirect ==
    \A c \in Calls : pc[c] \in {"idle", "redirect"} =>
        /\ writer # c /\ \A d \in Calls : prev[d] # c
        /\ buf[c] = <<>> /\ lines[c] = 0

AloneLogsToItself ==
    /\ \A c \in Active, d \in Active : c # d => c \in shared
    /\ \A c \in Calls \ shared :
          /\ pc[c] \in {"request", "run"} => writer = c
          /\ pc[c] \in {"request", "run", "restore"} =>
                Len(buf[c]) = lines[c] /\ \A i \in DOMAIN buf[c] : buf[c][i] = c

FirstFoundStderr ==
    nested => IF Active = {} THEN writer = Stderr
              ELSE first \in Active /\ prev[first] = Stderr

MobileInvariant ==
    /\ TypeOK
    /\ NothingBeforeRedirect
    /\ AloneLogsToItself
    /\ FirstFoundStderr
    /\ LogIsOwn
    /\ CredentialsAreOpen

(***************************************************************************)
(* Between calls the process logs to its own writer, not to the buffer of  *)
(* a call that has returned (which would be kept alive and filled), which- *)
(* ever way the calls returned and however they overlapped, as long as the *)
(* first one that entered returned last.                                   *)
(***************************************************************************)
WriterIsRestored == Active = {} /\ nested => writer = Stderr
=============================================================================
