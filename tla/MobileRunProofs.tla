--------------------------- MODULE MobileRunProofs ---------------------------
(***************************************************************************)
(* What a call of GoSignerRun returns and what it leaves behind, for any   *)
(* number of calls and whatever they ask for.                              *)
(***************************************************************************)
EXTENDS MobileRun, SequenceTheorems, TLAPS

(* Before any call, nothing is logged or answered. *)
LEMMA TypeInit == Init => TypeOK
  BY MobileAssumption DEF Init, TypeOK, NoAnswer

(* The requests that are run have been decrypted app by app. *)
LEMMA RequestTypes ==
    ASSUME TypeOK, NEW c \in Calls, Request(c)
    PROVE  apps' \in [Calls -> Seq(Apps \cup {Decrypted(a) : a \in Apps})]
  <1> DEFINE T == Apps \cup {Decrypted(a) : a \in Apps}
  <1>1. PICK req \in Requests :
          \/ /\ apps' = [apps EXCEPT ![c] = [i \in DOMAIN req |-> Decrypted(req[i])]]
          \/ UNCHANGED apps
    BY DEF Request
  <1>2. req \in Seq(Apps)
    BY MobileAssumption
  <1>3. [i \in DOMAIN req |-> Decrypted(req[i])] \in Seq(T)
    <2>1. PICK n \in Nat : req \in [1..n -> Apps]
      BY <1>2, SeqDef
    <2>2. DOMAIN req = 1..n /\ \A i \in 1..n : Decrypted(req[i]) \in T
      BY <2>1
    <2> HIDE DEF T
    <2>3. [i \in DOMAIN req |-> Decrypted(req[i])] \in [1..n -> T]
      BY <2>2
    <2>4. QED
      BY <2>3, SeqDef
  <1>4. apps \in [Calls -> Seq(T)]
    BY DEF TypeOK
  <1> HIDE DEF T
  <1>5. apps' \in [Calls -> Seq(T)]
    BY <1>1, <1>3, <1>4
  <1>6. QED
    BY <1>5 DEF T

(* Every answer is one, and comes with its log. *)
LEMMA AnswerTypes ==
    ASSUME TypeOK, NEW c \in Calls, NEW kind \in {"error", "response"},
           NEW log \in Seq(Calls), Answer(c, kind, log)
    PROVE  /\ pc' \in [Calls -> {"idle", "redirect", "request", "run", "restore", "returned"}]
           /\ answer' \in [Calls -> [kind : {"none", "error", "response"}, log : Seq(Calls)]]
           /\ \A d \in Calls : answer'[d].kind # "none" <=> pc'[d] \in {"restore", "returned"}
  <1>1. [kind |-> kind, log |-> log] \in [kind : {"none", "error", "response"}, log : Seq(Calls)]
    OBVIOUS
  <1> DEFINE R == [kind : {"none", "error", "response"}, log : Seq(Calls)]
             r == [kind |-> kind, log |-> log]
  <1>2. r.kind # "none" /\ r \in R /\ answer \in [Calls -> R]
    BY <1>1 DEF TypeOK
  <1>3. answer' = [answer EXCEPT ![c] = r] /\ pc' = [pc EXCEPT ![c] = "restore"]
    BY DEF Answer
  <1> HIDE DEF R, r
  <1>4. answer' \in [Calls -> R]
    BY <1>2, <1>3
  <1>5. \A d \in Calls : answer'[d].kind # "none" <=> pc'[d] \in {"restore", "returned"}
    BY <1>2, <1>3 DEF TypeOK
  <1>6. QED
    BY <1>3, <1>4, <1>5 DEF TypeOK, R

(* Every step of a call keeps the types. *)
LEMMA TypeStep == TypeOK /\ [Next]_vars => TypeOK'
  <1> SUFFICES ASSUME TypeOK, [Next]_vars PROVE TypeOK'
    OBVIOUS
  <1>1. CASE UNCHANGED vars
    BY <1>1 DEF TypeOK, vars
  <1>2. ASSUME NEW c \in Calls, Enter(c) PROVE TypeOK'
    BY <1>2 DEF TypeOK, Enter, logs, Active
  <1>3. ASSUME NEW c \in Calls, Redirect(c) PROVE TypeOK'
    BY <1>3 DEF TypeOK, Redirect, logs, history
  <1>4. ASSUME NEW c \in Calls, Malformed(c) PROVE TypeOK'
    <2>1. <<>> \in Seq(Calls) /\ Answer(c, "error", <<>>)
      BY <1>4 DEF Malformed
    <2>2. QED
      BY <1>4, <2>1, AnswerTypes DEF TypeOK, Malformed, history
  <1>5. ASSUME NEW c \in Calls, Request(c) PROVE TypeOK'
    <2>1. apps' \in [Calls -> Seq(Apps \cup {Decrypted(a) : a \in Apps})]
      BY <1>5, RequestTypes
    <2>2. \/ pc' = [pc EXCEPT ![c] = "run"] /\ answer' = answer
          \/ Answer(c, "error", <<>>)
      BY <1>5 DEF Request
    <2>3. pc[c] = "request" /\ UNCHANGED <<writer, prev, buf, lines, history>>
      BY <1>5 DEF Request
    <2>4. /\ pc' \in [Calls -> {"idle", "redirect", "request", "run", "restore", "returned"}]
          /\ answer' \in [Calls -> [kind : {"none", "error", "response"}, log : Seq(Calls)]]
          /\ \A d \in Calls : answer'[d].kind # "none" <=> pc'[d] \in {"restore", "returned"}
      <3>1. CASE pc' = [pc EXCEPT ![c] = "run"] /\ answer' = answer
        BY <2>3, <3>1 DEF TypeOK
      <3>2. CASE Answer(c, "error", <<>>)
        <4>1. <<>> \in Seq(Calls)
          OBVIOUS
        <4>2. QED
          BY <3>2, <4>1, AnswerTypes
      <3>3. QED
        BY <2>2, <3>1, <3>2
    <2>5. QED
      BY <2>1, <2>3, <2>4 DEF TypeOK, history
  <1>6. ASSUME NEW c \in Calls, Log(c) PROVE TypeOK'
    <2>1. buf' \in [Calls -> Seq(Calls)]
      BY <1>6 DEF TypeOK, Log
    <2>2. lines' \in [Calls -> 0..MaxLines]
      BY <1>6, MobileAssumption DEF TypeOK, Log
    <2>3. QED
      BY <1>6, <2>1, <2>2 DEF TypeOK, Log, history
  <1>7. ASSUME NEW c \in Calls, Respond(c) PROVE TypeOK'
    <2>1. buf[c] \in Seq(Calls) /\ Answer(c, "response", buf[c])
      BY <1>7 DEF TypeOK, Respond
    <2>2. QED
      BY <1>7, <2>1, AnswerTypes DEF TypeOK, Respond, history
  <1>8. ASSUME NEW c \in Calls, Restore(c) PROVE TypeOK'
    BY <1>8 DEF TypeOK, Restore, WriterAfter, logs
  <1>9. QED
    BY <1>1, <1>2, <1>3, <1>4, <1>5, <1>6, <1>7, <1>8 DEF Next, Step, AllReturned
-----------------------------------------------------------------------------
(* No answer disturbs the logs or the writer. *)
LEMMA NothingBeforeRedirectStep ==
    TypeOK /\ NothingBeforeRedirect /\ [Next]_vars => NothingBeforeRedirect'
  <1> SUFFICES ASSUME TypeOK, NothingBeforeRedirect, [Next]_vars,
                      NEW d \in Calls, pc'[d] \in {"idle", "redirect"}
               PROVE  /\ writer' # d /\ \A e \in Calls : prev'[e] # d
                      /\ buf'[d] = <<>> /\ lines'[d] = 0
    BY DEF NothingBeforeRedirect
  <1>1. CASE UNCHANGED vars
    BY <1>1 DEF NothingBeforeRedirect, vars
  <1>2. ASSUME NEW c \in Calls, Step(c) PROVE pc[d] \in {"idle", "redirect"}
    BY <1>2 DEF TypeOK, Step, Enter, Redirect, Malformed, Request, Answer, Log, Respond, Restore
  <1>3. ASSUME NEW c \in Calls, Step(c), pc[d] \in {"idle", "redirect"}
        PROVE  /\ writer' # d /\ \A e \in Calls : prev'[e] # d
    BY <1>3 DEF TypeOK, NothingBeforeRedirect, Step, Enter, Redirect, Malformed, Request,
                Answer, Log, Respond, Restore, WriterAfter, logs, history
  <1>4. ASSUME NEW c \in Calls, Step(c), pc[d] \in {"idle", "redirect"}
        PROVE  buf'[d] = <<>> /\ lines'[d] = 0
    <2>1. CASE Log(c)
      <3>1. d # c /\ d # writer /\ buf[d] = <<>> /\ lines[d] = 0
        BY <1>4, <2>1 DEF NothingBeforeRedirect, Log
      <3>2. QED
        BY <2>1, <3>1 DEF Log, TypeOK
    <2>2. CASE ~Log(c)
      BY <1>4, <2>2 DEF NothingBeforeRedirect, Step, Enter, Redirect, Malformed, Request,
                        Respond, Restore, logs
    <2>3. QED
      BY <2>1, <2>2
  <1>5. QED
    BY <1>1, <1>2, <1>3, <1>4 DEF Next, AllReturned, vars, NothingBeforeRedirect

(* A call that is alone is the only one that takes a step, until another   *)
(* one enters; then neither of the two is alone any more.                  *)
LEMMA ActiveStep ==
    ASSUME TypeOK, NEW c \in Calls, Step(c), NEW d \in Calls
    PROVE  /\ d # c => pc'[d] = pc[d]
           /\ d \in shared => d \in shared'
           /\ Enter(c) \/ c \in Active
           /\ d \in Active /\ d # c /\ Enter(c) => d \in shared' /\ c \in shared'
  BY DEF TypeOK, Step, Enter, Redirect, Malformed, Request, Answer, Log, Respond, Restore,
         Active, history

(* Of two calls that are active, each has met the other. *)
LEMMA KnowEachOther ==
    TypeOK /\ AloneLogsToItself /\ [Next]_vars =>
        \A c \in Active', d \in Active' : c # d => c \in shared'
  <1> SUFFICES ASSUME TypeOK, AloneLogsToItself, [Next]_vars,
                      NEW x \in Active', NEW y \in Active', x # y
               PROVE  x \in shared'
    OBVIOUS
  <1>1. CASE UNCHANGED vars
    BY <1>1 DEF AloneLogsToItself, Active, vars
  <1>2. ASSUME NEW c \in Calls, Step(c) PROVE x \in shared'
    <2>1. x \in Calls /\ y \in Calls
      BY DEF Active
    <2>2. \A d \in {x, y} : d # c => d \in Active
      BY <1>2, <2>1, ActiveStep DEF Active
    <2>3. CASE x \in Active /\ y \in Active
      BY <1>2, <2>1, <2>3, ActiveStep DEF AloneLogsToItself
    <2>4. CASE x \notin Active \/ y \notin Active
      BY <1>2, <2>1, <2>2, <2>4, ActiveStep
    <2>5. QED
      BY <2>3, <2>4
  <1>3. QED
    BY <1>1, <1>2 DEF Next, AllReturned

(* A call that has met no other keeps the writer that it set. *)
LEMMA AloneLogsToItselfStep ==
    TypeOK /\ TypeOK' /\ NothingBeforeRedirect /\ AloneLogsToItself /\ [Next]_vars
      => AloneLogsToItself'
  <1> SUFFICES ASSUME TypeOK, TypeOK', NothingBeforeRedirect, AloneLogsToItself, [Next]_vars,
                      NEW d \in Calls \ shared'
               PROVE  /\ pc'[d] \in {"request", "run"} => writer' = d
                      /\ pc'[d] \in {"request", "run", "restore"} =>
                           Len(buf'[d]) = lines'[d] /\ \A i \in DOMAIN buf'[d] : buf'[d][i] = d
    BY KnowEachOther DEF AloneLogsToItself
  <1>1. CASE UNCHANGED vars
    BY <1>1 DEF AloneLogsToItself, vars
  <1>2. ASSUME NEW c \in Calls, Step(c), c # d,
               pc'[d] \in {"request", "run", "restore"}
        PROVE  FALSE
    <2>1. d \in Active /\ d \notin shared
      BY <1>2, ActiveStep DEF Active
    <2>2. ~Enter(c) /\ c \in Active
      BY <1>2, <2>1, ActiveStep
    <2>3. QED
      BY <1>2, <2>1, <2>2 DEF AloneLogsToItself
  <1>3. ASSUME Step(d), d \notin shared
        PROVE  /\ pc'[d] \in {"request", "run"} => writer' = d
               /\ pc'[d] \in {"request", "run", "restore"} =>
                    Len(buf'[d]) = lines'[d] /\ \A i \in DOMAIN buf'[d] : buf'[d][i] = d
    <2>1. CASE Enter(d)
      BY <2>1 DEF TypeOK, Enter
    <2>2. CASE Redirect(d)
      <3>1. buf[d] = <<>> /\ lines[d] = 0
        BY <2>2 DEF Redirect, NothingBeforeRedirect
      <3>2. QED
        BY <2>2, <3>1 DEF Redirect, logs
    <2>3. CASE Malformed(d) \/ Request(d) \/ Respond(d)
      BY <1>3, <2>3 DEF TypeOK, AloneLogsToItself, Malformed, Request, Respond, Answer
    <2>4. CASE Log(d)
      <3>1. writer = d /\ d # Stderr /\ pc'[d] = "run" /\ writer' = d
        BY <1>3, <2>4, MobileAssumption DEF AloneLogsToItself, Log
      <3>2. buf'[d] = Append(buf[d], d) /\ lines'[d] = lines[d] + 1 /\ buf[d] \in Seq(Calls)
        BY <2>4, <3>1 DEF TypeOK, Log
      <3>3. Len(buf[d]) = lines[d] /\ \A i \in DOMAIN buf[d] : buf[d][i] = d
        BY <1>3, <2>4 DEF AloneLogsToItself, Log
      <3>4. QED
        BY <3>1, <3>2, <3>3, AppendProperties
    <2>5. CASE Restore(d)
      BY <2>5 DEF TypeOK, Restore
    <2>6. QED
      BY <1>3, <2>1, <2>2, <2>3, <2>4, <2>5 DEF Step
  <1>4. ASSUME Step(d) PROVE d \notin shared
    BY <1>4, ActiveStep
  <1>5. QED
    BY <1>1, <1>2, <1>3, <1>4 DEF Next, AllReturned

-----------------------------------------------------------------------------
(* A call that is made alone finds the process's writer, and puts it back. *)
LEMMA FirstFoundStderrStep ==
    TypeOK /\ FirstFoundStderr /\ [Next]_vars => FirstFoundStderr'
  <1> SUFFICES ASSUME TypeOK, FirstFoundStderr, [Next]_vars, nested'
               PROVE  IF Active' = {} THEN writer' = Stderr
                      ELSE first' \in Active' /\ prev'[first'] = Stderr
    BY DEF FirstFoundStderr
  <1>1. CASE UNCHANGED vars
    BY <1>1 DEF FirstFoundStderr, Active, vars
  <1>2. ASSUME NEW c \in Calls, Enter(c)
        PROVE  first' \in Active' /\ prev'[first'] = Stderr
    <2>1. c \in Active' /\ Active \subseteq Active' /\ nested /\ c \notin Active
      BY <1>2 DEF TypeOK, Enter, Active
    <2>2. CASE Active = {}
      BY <1>2, <2>1, <2>2 DEF TypeOK, FirstFoundStderr, Enter
    <2>3. CASE Active # {}
      <3>1. first \in Active /\ prev[first] = Stderr /\ first # c /\ first' = first
        BY <1>2, <2>1, <2>3 DEF FirstFoundStderr, Enter
      <3>2. QED
        BY <1>2, <2>1, <3>1 DEF TypeOK, Enter, Active
    <2>4. QED
      BY <2>2, <2>3
  <1>3. ASSUME NEW c \in Calls, Restore(c)
        PROVE  IF Active' = {} THEN writer' = Stderr
               ELSE first' \in Active' /\ prev'[first'] = Stderr
    <2>1. c \in Active /\ Active' = Active \ {c}
      BY <1>3 DEF TypeOK, Restore, Active
    <2>2. nested /\ first \in Active /\ prev[first] = Stderr /\ first' = first /\ prev' = prev
      BY <1>3, <2>1 DEF FirstFoundStderr, Restore
    <2>3. CASE c = first
      BY <1>3, <2>1, <2>2, <2>3 DEF Restore, WriterAfter
    <2>4. CASE c # first
      BY <2>1, <2>2, <2>4
    <2>5. QED
      BY <2>3, <2>4
  <1>4. ASSUME NEW c \in Calls, Step(c), ~Enter(c), ~Restore(c)
        PROVE  Active' = Active /\ Active # {} /\ UNCHANGED <<prev, first, nested>>
    BY <1>4 DEF TypeOK, Step, Redirect, Malformed, Request, Answer, Log, Respond, Active, history
  <1>5. QED
    BY <1>1, <1>2, <1>3, <1>4 DEF Next, AllReturned, FirstFoundStderr

(* What such a call answers is what it has logged. *)
LEMMA LogIsOwnStep ==
    TypeOK /\ AloneLogsToItself /\ LogIsOwn /\ [Next]_vars => LogIsOwn'
  <1> SUFFICES ASSUME TypeOK, AloneLogsToItself, LogIsOwn, [Next]_vars,
                      NEW d \in Calls \ shared', answer'[d].kind = "response"
               PROVE  /\ Len(answer'[d].log) = lines'[d]
                      /\ \A i \in DOMAIN answer'[d].log : answer'[d].log[i] = d
    BY DEF LogIsOwn
  <1>1. CASE UNCHANGED vars
    BY <1>1 DEF LogIsOwn, vars
  <1>2. ASSUME NEW c \in Calls, Step(c)
        PROVE  /\ Len(answer'[d].log) = lines'[d]
               /\ \A i \in DOMAIN answer'[d].log : answer'[d].log[i] = d
    <2>1. d \notin shared
      BY <1>2, ActiveStep
    <2>2. CASE Respond(c) /\ c = d
      <3>1. answer'[d].log = buf[d] /\ lines' = lines
        BY <2>2 DEF TypeOK, Respond, Answer
      <3>2. Len(buf[d]) = lines[d] /\ \A i \in DOMAIN buf[d] : buf[d][i] = d
        BY <2>1, <2>2 DEF AloneLogsToItself, Respond
      <3>3. QED
        BY <3>1, <3>2
    <2>3. CASE ~(Respond(c) /\ c = d)
      <3>1. answer'[d] = answer[d] \/ answer'[d].kind = "error"
        BY <1>2, <2>3 DEF TypeOK, Step, Enter, Redirect, Malformed, Request, Answer, Log,
                          Respond, Restore, logs
      <3>2. pc[d] \in {"restore", "returned"} /\ answer'[d] = answer[d]
        BY <3>1 DEF TypeOK
      <3>3. lines'[d] = lines[d]
        BY <1>2, <3>2 DEF TypeOK, Step, Enter, Redirect, Malformed, Request, Log, Respond,
                          Restore, logs
      <3>4. QED
        BY <2>1, <3>2, <3>3 DEF LogIsOwn
    <2>4. QED
      BY <2>2, <2>3
  <1>3. QED
    BY <1>1, <1>2 DEF Next, AllReturned

-----------------------------------------------------------------------------
(* What applyEncrypted makes of an app that it can open. *)
OpenedFrom(a, b) ==
    /\ b.enc = {}
    /\ \/ b = a
       \/ \E e \in a.enc : e.udid = a.udid /\ b.credentials = e.credentials

(* What an app is decrypted to is in the clear, and its own. *)
LEMMA DecryptedOpens ==
    ASSUME NEW a \in Apps, Opens(a)
    PROVE  OpenedFrom(a, Decrypted(a))
  <1>1. CASE a.enc = {}
    BY <1>1 DEF Decrypted, OpenedFrom
  <1>2. CASE a.enc # {}
    <2> DEFINE e == CHOOSE x \in a.enc : TRUE
    <2>1. e \in a.enc
      BY <1>2
    <2>2. Decrypted(a).enc = {} /\ Decrypted(a).credentials = e.credentials
      BY <1>2 DEF Decrypted
    <2>3. e.udid = a.udid
      BY <2>1 DEF Opens
    <2> HIDE DEF e
    <2>4. QED
      BY <2>1, <2>2, <2>3 DEF OpenedFrom
  <1>3. QED
    BY <1>1, <1>2

(* The apps of a call are replaced only by what they are decrypted to. *)
LEMMA CredentialsAreOpenStep ==
    TypeOK /\ CredentialsAreOpen /\ [Next]_vars => CredentialsAreOpen'
  <1>1. CredentialsAreOpen <=>
          \A c \in Calls : \A i \in DOMAIN apps[c] :
             \E req \in Requests : i \in DOMAIN req /\ OpenedFrom(req[i], apps[c][i])
    BY DEF CredentialsAreOpen, OpenedFrom
  <1>2. CredentialsAreOpen' <=>
          \A c \in Calls : \A i \in DOMAIN apps'[c] :
             \E req \in Requests : i \in DOMAIN req /\ OpenedFrom(req[i], apps'[c][i])
    BY DEF CredentialsAreOpen, OpenedFrom
  <1> SUFFICES ASSUME TypeOK, CredentialsAreOpen, [Next]_vars,
                      NEW d \in Calls, NEW i \in DOMAIN apps'[d]
               PROVE  \E req \in Requests :
                         i \in DOMAIN req /\ OpenedFrom(req[i], apps'[d][i])
    BY <1>2
  <1>3. CASE apps'[d] = apps[d]
    BY <1>1, <1>3
  <1>4. ASSUME NEW req \in Requests, \A j \in DOMAIN req : Opens(req[j]),
               apps'[d] = [j \in DOMAIN req |-> Decrypted(req[j])]
        PROVE  i \in DOMAIN req /\ OpenedFrom(req[i], apps'[d][i])
    <2>1. i \in DOMAIN req /\ apps'[d][i] = Decrypted(req[i])
      BY <1>4
    <2>2. req[i] \in Apps
      BY <2>1, MobileAssumption
    <2>3. QED
      BY <1>4, <2>1, <2>2, DecryptedOpens
  <1>5. ASSUME NEW c \in Calls, Step(c), apps'[d] # apps[d]
        PROVE  \E req \in Requests :
                 /\ \A j \in DOMAIN req : Opens(req[j])
                 /\ apps'[d] = [j \in DOMAIN req |-> Decrypted(req[j])]
    <2>1. Request(c)
      BY <1>5 DEF Step, Enter, Redirect, Malformed, Log, Respond, Restore, logs
    <2>2. PICK req \in Requests :
            IF \A j \in DOMAIN req : Opens(req[j])
            THEN apps' = [apps EXCEPT ![c] = [j \in DOMAIN req |-> Decrypted(req[j])]]
            ELSE UNCHANGED apps
      BY <2>1 DEF Request
    <2>3. /\ \A j \in DOMAIN req : Opens(req[j])
          /\ apps' = [apps EXCEPT ![c] = [j \in DOMAIN req |-> Decrypted(req[j])]]
      BY <1>5, <2>2
    <2>4. apps'[d] = [j \in DOMAIN req |-> Decrypted(req[j])]
      BY <1>5, <2>3 DEF TypeOK
    <2>5. QED
      BY <2>3, <2>4
  <1>6. UNCHANGED vars \/ AllReturned => apps'[d] = apps[d]
    BY DEF vars, AllReturned
  <1>7. QED
    BY <1>3, <1>4, <1>5, <1>6 DEF Next

-----------------------------------------------------------------------------
(* LogIsOwn, CredentialsAreOpen and what they rest on. *)
THEOREM MobileInvariantHolds == Spec => []MobileInvariant
  <1>1. Init => MobileInvariant
    <2> SUFFICES ASSUME Init PROVE MobileInvariant
      OBVIOUS
    <2>1. TypeOK
      BY TypeInit
    <2>2. NothingBeforeRedirect /\ AloneLogsToItself /\ FirstFoundStderr
      BY MobileAssumption DEF Init, NothingBeforeRedirect, AloneLogsToItself,
                              FirstFoundStderr, Active
    <2>3. LogIsOwn
      BY DEF Init, LogIsOwn, NoAnswer
    <2>4. CredentialsAreOpen
      BY DEF Init, CredentialsAreOpen
    <2>5. QED
      BY <2>1, <2>2, <2>3, <2>4 DEF MobileInvariant
  <1>2. MobileInvariant /\ [Next]_vars => MobileInvariant'
    BY TypeStep, NothingBeforeRedirectStep, AloneLogsToItselfStep, FirstFoundStderrStep,
       LogIsOwnStep, CredentialsAreOpenStep DEF MobileInvariant
  <1>3. QED
    BY <1>1, <1>2, PTL DEF Spec

(* The process gets its writer back. *)
THEOREM WriterIsRestoredHolds == Spec => []WriterIsRestored
  <1>1. MobileInvariant => WriterIsRestored
    BY DEF MobileInvariant, FirstFoundStderr, WriterIsRestored
  <1>2. QED
    BY <1>1, MobileInvariantHolds, PTL
==============================================================================
