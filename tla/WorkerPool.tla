----------------------------- MODULE WorkerPool -----------------------------
(***************************************************************************)
(* One call of worker.Run (engine/worker/worker.go): a goroutine for each  *)
(* app of the request, a semaphore that lets MaxWorkers of them work at a  *)
(* time, a wait group for which the caller waits before it collects the    *)
(* results.  Each worker downloads the IPA if it has to, loads the signing *)
(* material, calls pipeline.Resign and runs its cleanup.Tracker.           *)
(*                                                                         *)
(* A panic in a goroutine runs the deferred calls of that goroutine only,  *)
(* and then ends the process.                                              *)
(***************************************************************************)
EXTENDS Integers, FiniteSets

CONSTANTS
    N,        \* the number of apps in the request (none: success at once)
    NumCPU,   \* runtime.NumCPU()
    Urls      \* the apps whose "ipa" is a URL

ASSUME PoolAssumption == N \in Nat \ {0} /\ NumCPU \in Nat /\ Urls \subseteq 1..N

Apps == 1..N

(* As many workers as there are CPUs or apps, and at least one. *)
MaxWorkers ==
    LET m == IF NumCPU > N THEN N ELSE NumCPU
    IN  IF m < 1 THEN 1 ELSE m

VARIABLES
    main,      \* where Run is
    spawned,   \* how many goroutines it has started
    wg,        \* the counter of the wait group
    sem,       \* how many tokens are in the semaphore
    go,        \* where each goroutine is
    panicked,  \* the goroutines that are unwinding from a panic
    outcome,   \* the local result of each processApp
    temp,      \* apps whose downloaded IPA is on disk
    tracked,   \* apps whose cleaner tracks it
    work,      \* apps whose extraction directory is on disk
    output,    \* apps whose signed IPA was written
    results,   \* resp.Results
    response,  \* what Run returns
    process

vars == <<main, spawned, wg, sem, go, panicked, outcome, temp, tracked, work,
          output, results, response, process>>

(* Where a goroutine is when it holds a token, and when it has not called *)
(* wg.Done() yet.                                                          *)
Working == {"resolve", "load", "resign", "signing", "manifest"}
Holding == Working \cup {"clean", "store", "release"}
Pending == Holding \cup {"acquire", "finish"}

ZeroResult == [app |-> 0, ok |-> FALSE]
NoResponse == [success |-> FALSE, errors |-> {}]

(* The type invariant. *)
TypeOK ==
    /\ main \in {"spawn", "wait", "collect", "returned"}
    /\ spawned \in 0..N
    /\ wg \in 0..N
    /\ sem \in 0..MaxWorkers
    /\ go \in [Apps -> Pending \cup {"none", "exited", "dying"}]
    /\ panicked \subseteq Apps
    /\ outcome \in [Apps -> {"none", "ok", "error"}]
    /\ temp \subseteq Apps
    /\ tracked \subseteq Apps
    /\ work \subseteq Apps
    /\ output \subseteq Apps
    /\ results \in [Apps -> [app : 0..N, ok : BOOLEAN]]
    /\ response \in [success : BOOLEAN, errors : SUBSET Apps]
    /\ process \in {"running", "crashed"}

Init ==
    /\ main = "spawn"
    /\ spawned = 0
    /\ wg = 0
    /\ sem = 0
    /\ go = [i \in Apps |-> "none"]
    /\ panicked = {}
    /\ outcome = [i \in Apps |-> "none"]
    /\ temp = {}
    /\ tracked = {}
    /\ work = {}
    /\ output = {}
    /\ results = [i \in Apps |-> ZeroResult]
    /\ response = NoResponse
    /\ process = "running"

-----------------------------------------------------------------------------
(* The goroutine that called Run. *)

(* wg.Add(1) comes before the go statement. *)
SpawnAddingInside ==    \* mutant: the goroutine adds itself, when it starts
    /\ spawned' = spawned + 1
    /\ go' = [go EXCEPT ![spawned + 1] = "acquire"]
    /\ wg' = wg
StartNext ==
    /\ spawned' = spawned + 1
    /\ go' = [go EXCEPT ![spawned + 1] = "acquire"]
    /\ wg' = wg + 1

Spawn ==
    /\ main = "spawn"
    /\ spawned < N
    /\ StartNext
    /\ main' = IF spawned' = N THEN "wait" ELSE "spawn"
    /\ UNCHANGED <<sem, panicked, outcome, temp, tracked, work, output,
                   results, response, process>>

Wait ==
    /\ main = "wait"
    /\ wg = 0
    /\ main' = "collect"
    /\ UNCHANGED <<spawned, wg, sem, go, panicked, outcome, temp, tracked,
                   work, output, results, response, process>>

Collect ==
    /\ main = "collect"
    /\ LET failures == {i \in Apps : ~results[i].ok}
       IN  response' = [success |-> failures = {}, errors |-> failures]
    /\ main' = "returned"
    /\ UNCHANGED <<spawned, wg, sem, go, panicked, outcome, temp, tracked,
                   work, output, results, process>>

-----------------------------------------------------------------------------
(* The goroutine of app i. *)

GoTo(i, from, to) == go[i] = from /\ go' = [go EXCEPT ![i] = to]

(* An early return of processApp, or its next step. *)
Settles(i, from, ok, to) ==
    /\ GoTo(i, from, IF ok THEN to ELSE "clean")
    /\ outcome' = [outcome EXCEPT ![i] = IF ok THEN @ ELSE "error"]

AcquireUnbounded(i) ==    \* mutant: the channel has room for everybody
    /\ GoTo(i, "acquire", "resolve")
    /\ sem' = IF sem < MaxWorkers THEN sem + 1 ELSE sem
    /\ UNCHANGED <<main, spawned, wg, panicked, outcome, temp, tracked, work,
                   output, results, response, process>>
Acquire(i) ==
    /\ GoTo(i, "acquire", "resolve")
    /\ sem < MaxWorkers
    /\ sem' = sem + 1
    /\ UNCHANGED <<main, spawned, wg, panicked, outcome, temp, tracked, work,
                   output, results, response, process>>

(* Step 1: DownloadToTemp leaves a file if and only if it succeeds; the    *)
(* cleaner tracks it from then on.  A local IPA must exist.                *)
Resolve(i) ==
    /\ \E ok \in BOOLEAN :
          /\ Settles(i, "resolve", ok, "load")
          /\ temp' = IF ok /\ i \in Urls THEN temp \cup {i} ELSE temp
          /\ tracked' = IF ok /\ i \in Urls THEN tracked \cup {i} ELSE tracked
    /\ UNCHANGED <<main, spawned, wg, sem, panicked, work, output, results,
                   response, process>>

(* Steps 2 to 7: the certificate and the profile must load. *)
Load(i) ==
    /\ \E ok \in BOOLEAN : Settles(i, "load", ok, "resign")
    /\ UNCHANGED <<main, spawned, wg, sem, panicked, temp, tracked, work,
                   output, results, response, process>>

(* Step 8: Resign makes its directory ... *)
BeginResign(i) ==
    /\ GoTo(i, "resign", "signing")
    /\ work' = work \cup {i}
    /\ UNCHANGED <<main, spawned, wg, sem, panicked, outcome, temp, tracked,
                   output, results, response, process>>

(* ... and has removed it when it returns. *)
EndResign(i) ==
    /\ \E ok \in BOOLEAN :
          /\ GoTo(i, "signing", IF ok THEN "manifest" ELSE "clean")
          /\ outcome' = [outcome EXCEPT ![i] = IF ok THEN "ok" ELSE "error"]
          /\ output' = IF ok THEN output \cup {i} ELSE output
    /\ work' = work \ {i}
    /\ UNCHANGED <<main, spawned, wg, sem, panicked, temp, tracked, results,
                   response, process>>

(* Steps 9 and 10: a failure to read the names or to write the manifest is *)
(* only logged.                                                            *)
Manifest(i) ==
    /\ GoTo(i, "manifest", "clean")
    /\ UNCHANGED <<main, spawned, wg, sem, panicked, outcome, temp, tracked,
                   work, output, results, response, process>>

(* The deferred cleaner.Run() of processApp. *)
KeepFailedDownload(i) ==    \* mutant: only a success cleans up
    /\ temp' = IF outcome[i] = "ok" THEN temp \ {i} ELSE temp
    /\ tracked' = tracked \ {i}
RunCleaner(i) ==
    /\ temp' = IF i \in tracked THEN temp \ {i} ELSE temp
    /\ tracked' = tracked \ {i}

(* processApp returns its result, or the panic goes on unwinding. *)
AfterCleanRetry(i) ==    \* mutant: a failed app is tried again
    IF i \in panicked THEN "release"
    ELSE IF outcome[i] = "error" THEN "resolve" ELSE "store"
AfterClean(i) == IF i \in panicked THEN "release" ELSE "store"

Clean(i) ==
    /\ GoTo(i, "clean", AfterClean(i))
    /\ RunCleaner(i)
    /\ UNCHANGED <<main, spawned, wg, sem, panicked, outcome, work, output,
                   results, response, process>>

(* resp.Results[idx] = processApp(app), where idx is a parameter. *)
SlotOfLoopVariable(i) == IF spawned < N THEN spawned + 1 ELSE N    \* mutant
Slot(i) == i

Store(i) ==
    /\ GoTo(i, "store", "release")
    /\ results' = [results EXCEPT ![Slot(i)] =
                      [app |-> i, ok |-> outcome[i] = "ok"]]
    /\ UNCHANGED <<main, spawned, wg, sem, panicked, outcome, temp, tracked,
                   work, output, response, process>>

(* The deferred receive from the semaphore runs before wg.Done(). *)
Release(i) ==
    /\ GoTo(i, "release", "finish")
    /\ sem' = sem - 1
    /\ UNCHANGED <<main, spawned, wg, panicked, outcome, temp, tracked, work,
                   output, results, response, process>>

Finish(i) ==
    /\ GoTo(i, "finish", IF i \in panicked THEN "dying" ELSE "exited")
    /\ wg' = wg - 1
    /\ UNCHANGED <<main, spawned, sem, panicked, outcome, temp, tracked, work,
                   output, results, response, process>>

(* processApp panics; RemoveAll of the extraction directory is deferred. *)
Panic(i) ==
    /\ go[i] \in Working
    /\ go' = [go EXCEPT ![i] = "clean"]
    /\ panicked' = panicked \cup {i}
    /\ work' = work \ {i}
    /\ UNCHANGED <<main, spawned, wg, sem, outcome, temp, tracked, output,
                   results, response, process>>

(* All the deferred calls have run: the runtime ends the process, unless   *)
(* Run has returned first and the caller has ended it.                     *)
Crash(i) ==
    /\ go[i] = "dying"
    /\ main # "returned"
    /\ process' = "crashed"
    /\ UNCHANGED <<main, spawned, wg, sem, go, panicked, outcome, temp,
                   tracked, work, output, results, response>>

-----------------------------------------------------------------------------
Main == process = "running" /\ (Spawn \/ Wait \/ Collect)

Worker(i) ==
    /\ process = "running"
    /\ \/ Acquire(i) \/ Resolve(i) \/ Load(i) \/ BeginResign(i) \/ EndResign(i)
       \/ Manifest(i) \/ Clean(i) \/ Store(i) \/ Release(i) \/ Finish(i)
       \/ Panic(i) \/ Crash(i)

(* Nothing happens after the return or the crash. *)
Over == (main = "returned" \/ process = "crashed") /\ UNCHANGED vars

Next == Main \/ (\E i \in Apps : Worker(i)) \/ Over

Spec == Init /\ [][Next]_vars

(* The Go scheduler runs every goroutine that can run; a goroutine sends   *)
(* to the semaphore once, so that weak fairness is enough.                 *)
FairSpec == Spec /\ WF_vars(Main) /\ \A i \in Apps : WF_vars(Worker(i))

-----------------------------------------------------------------------------
(***************************************************************************)
(* When Run has returned, the report is true: a result that claims success *)
(* has a signed IPA, the result at each place is that of the app there     *)
(* unless its worker panicked, and the response is a success only if every *)
(* app was signed.                                                         *)
(***************************************************************************)
ReportIsTrue ==
    main = "returned" =>
        /\ \A i \in Apps : results[i].ok => i \in output
        /\ \A i \in Apps \ panicked :
              results[i].app = i /\ (results[i].ok <=> i \in output)
        /\ response.success <=> \A i \in Apps : results[i].app = i /\ results[i].ok
        /\ response.errors = {i \in Apps : ~results[i].ok}

(***************************************************************************)
(* When Run has returned, no downloaded IPA and no extraction directory is *)
(* left on disk, whichever step of whichever app failed.                   *)
(***************************************************************************)
NothingLeftOnReturn == main = "returned" => temp = {} /\ work = {}

(***************************************************************************)
(* At no time are there more extraction directories or more downloads on   *)
(* disk than workers: the disk that a batch needs does not grow with it.   *)
(***************************************************************************)
DiskIsBounded ==
    /\ Cardinality(work) <= MaxWorkers
    /\ Cardinality(temp) <= MaxWorkers

(* Run returns, or a panic has ended the process. *)
Returns == <>(main = "returned" \/ process = "crashed")

-----------------------------------------------------------------------------
(* Why: what holds in between. *)

(* The wait group and the semaphore count what they should. *)
CountersInPlace ==
    /\ wg = Cardinality({i \in Apps : go[i] \in Pending})
    /\ sem = Cardinality({i \in Apps : go[i] \in Holding})

(* Run collects after every goroutine has called wg.Done(). *)
MainInPlace ==
    /\ main = "spawn" <=> spawned < N
    /\ \A i \in Apps : go[i] = "none" <=> i > spawned
    /\ main \in {"collect", "returned"} => \A i \in Apps : go[i] \notin Pending
    /\ main = "returned" => LET failures == {i \in Apps : ~results[i].ok}
                            IN  response = [success |-> failures = {},
                                            errors  |-> failures]

(* A file on disk belongs to a goroutine that will remove it. *)
FilesInPlace ==
    \A i \in Apps :
        /\ i \in work => go[i] = "signing"
        /\ i \in temp => i \in tracked
        /\ i \in tracked => go[i] \in Working \cup {"clean"}

(* An app has no outcome before one of its steps has failed or Resign has   *)
(* returned, and then it is signed if and only if the outcome is good.     *)
(* A goroutine has stored its own result when it gives its token back,     *)
(* unless it panicked; a process that crashed had such a goroutine.        *)
ResultsInPlace ==
    /\ \A i \in Apps :
          /\ i \in output <=> outcome[i] = "ok"
          /\ go[i] \in {"none", "acquire", "resolve", "load", "resign", "signing"}
                => outcome[i] = "none"
          /\ i \in panicked => go[i] \in {"clean", "release", "finish", "dying"}
          /\ go[i] = "dying" => i \in panicked
          /\ IF i \notin panicked /\ go[i] \in {"release", "finish", "exited"}
             THEN results[i] = [app |-> i, ok |-> outcome[i] = "ok"]
             ELSE results[i] = ZeroResult
    /\ process = "crashed" => main # "returned" /\ panicked # {}

PoolInvariant ==
    /\ TypeOK
    /\ CountersInPlace
    /\ MainInPlace
    /\ FilesInPlace
    /\ ResultsInPlace

-----------------------------------------------------------------------------
(***************************************************************************)
(* The batch as its caller sees it.  An app is settled when its result is  *)
(* stored, or when its worker panics.                                      *)
(***************************************************************************)
Settled == [i \in Apps |->
    IF results[i].app = i THEN IF results[i].ok THEN "signed" ELSE "failed"
    ELSE IF i \in panicked THEN "failed" ELSE "open"]

Report == IF main = "returned"
          THEN IF response.success THEN "success" ELSE "failure"
          ELSE IF process = "crashed" THEN "none" ELSE "pending"

Batch == INSTANCE BatchReport WITH
    Jobs <- Apps, settled <- Settled, report <- Report

(* Run reports on a batch after all of it is settled. *)
ReportsWholeBatch == Batch!BSpec
=============================================================================
