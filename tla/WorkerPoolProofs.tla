-------------------------- MODULE WorkerPoolProofs --------------------------
(***************************************************************************)
(* What Run reports and what it leaves on disk, for any number of apps and *)
(* of CPUs.                                                                *)
(***************************************************************************)
EXTENDS WorkerPool, FiniteSetTheorems, TLAPS

-----------------------------------------------------------------------------
(* Counting the goroutines that are at one of the places of a set. *)
At(f, places) == {j \in Apps : f[j] \in places}

(* There are never more goroutines at some places than apps. *)
LEMMA AppsFinite == \A f, places : /\ IsFiniteSet(At(f, places))
                                   /\ Cardinality(At(f, places)) \in 0..N
  <1>1. IsFiniteSet(Apps) /\ Cardinality(Apps) = N
    BY PoolAssumption, FS_Interval DEF Apps
  <1>2. \A f, places : At(f, places) \subseteq Apps
    BY DEF At
  <1>3. \A f, places : /\ IsFiniteSet(At(f, places))
                       /\ Cardinality(At(f, places)) <= N
                       /\ Cardinality(At(f, places)) \in Nat
    BY <1>1, <1>2, FS_Subset, FS_CardinalityType
  <1>4. QED
    BY <1>3, PoolAssumption

(* One goroutine moves, the others stay. *)
Moves(f, g, i, to) == \A j \in Apps : g[j] = IF j = i THEN to ELSE f[j]

(* The count changes if it enters or leaves the set. *)
LEMMA CountAfterMove ==
    ASSUME NEW f, NEW g, NEW i \in Apps, NEW to, NEW places, Moves(f, g, i, to)
    PROVE  Cardinality(At(g, places)) =
             IF f[i] \in places /\ to \notin places
             THEN Cardinality(At(f, places)) - 1
             ELSE IF f[i] \notin places /\ to \in places
             THEN Cardinality(At(f, places)) + 1
             ELSE Cardinality(At(f, places))
  <1>1. CASE f[i] \in places <=> to \in places
    <2>1. At(g, places) = At(f, places)
      BY <1>1 DEF At, Moves
    <2>2. QED
      BY <1>1, <2>1
  <1>2. CASE f[i] \notin places /\ to \in places
    <2>1. At(g, places) = At(f, places) \cup {i} /\ i \notin At(f, places)
      BY <1>2 DEF At, Moves
    <2>2. Cardinality(At(g, places)) = Cardinality(At(f, places)) + 1
      BY <2>1, AppsFinite, FS_AddElement
    <2>3. QED
      BY <1>2, <2>2
  <1>3. CASE f[i] \in places /\ to \notin places
    <2>1. At(g, places) = At(f, places) \ {i} /\ i \in At(f, places)
      BY <1>3 DEF At, Moves
    <2>2. Cardinality(At(g, places)) = Cardinality(At(f, places)) - 1
      BY <2>1, AppsFinite, FS_RemoveElement
    <2>3. QED
      BY <1>3, <2>2
  <1>4. QED
    BY <1>1, <1>2, <1>3

(* The counters, with the sets they count written as above. *)
LEMMA Counters ==
    CountersInPlace <=> /\ wg = Cardinality(At(go, Pending))
                        /\ sem = Cardinality(At(go, Holding))
  BY DEF CountersInPlace, At

(* A move of a worker, and what it does to the counters. *)
LEMMA MoveCounted ==
    ASSUME CountersInPlace, NEW i \in Apps, NEW to,
           Moves(go, go', i, to),
           wg' = IF go[i] \in Pending /\ to \notin Pending THEN wg - 1
                 ELSE IF go[i] \notin Pending /\ to \in Pending THEN wg + 1
                 ELSE wg,
           sem' = IF go[i] \in Holding /\ to \notin Holding THEN sem - 1
                  ELSE IF go[i] \notin Holding /\ to \in Holding THEN sem + 1
                  ELSE sem
    PROVE  CountersInPlace'
  <1>1. /\ wg = Cardinality(At(go, Pending))
        /\ sem = Cardinality(At(go, Holding))
    BY Counters
  <1>2. ASSUME NEW places
        PROVE  Cardinality(At(go', places)) =
                 IF go[i] \in places /\ to \notin places
                 THEN Cardinality(At(go, places)) - 1
                 ELSE IF go[i] \notin places /\ to \in places
                 THEN Cardinality(At(go, places)) + 1
                 ELSE Cardinality(At(go, places))
    BY CountAfterMove
  <1>3. wg' = Cardinality(At(go', Pending))
    BY <1>1, <1>2
  <1>4. sem' = Cardinality(At(go', Holding))
    BY <1>1, <1>2
  <1>5. QED
    BY <1>3, <1>4 DEF CountersInPlace, At

(* What they count bounds the counters. *)
LEMMA CountersTyped ==
    /\ CountersInPlace => wg \in 0..N /\ sem \in 0..N
    /\ CountersInPlace' => wg' \in 0..N /\ sem' \in 0..N
  <1>1. CountersInPlace' <=> /\ wg' = Cardinality(At(go', Pending))
                             /\ sem' = Cardinality(At(go', Holding))
    BY DEF CountersInPlace, At
  <1>2. QED
    BY <1>1, Counters, AppsFinite

(* There is at least one token. *)
LEMMA MaxWorkersNat == MaxWorkers \in Nat \ {0}
  BY PoolAssumption DEF MaxWorkers

(* GoTo moves one goroutine and leaves the others where they are. *)
LEMMA GoToMoves ==
    ASSUME TypeOK, NEW i \in Apps, NEW from, NEW to, GoTo(i, from, to)
    PROVE  go[i] = from /\ Moves(go, go', i, to)
  BY DEF TypeOK, GoTo, Moves

-----------------------------------------------------------------------------
(* Each step of a goroutine keeps the invariant: it takes a token. *)
LEMMA AcquireKeeps ==
    ASSUME PoolInvariant, NEW i \in Apps, Acquire(i)
    PROVE  PoolInvariant'
  <1> USE DEF PoolInvariant
  <1>1. go[i] = "acquire" /\ Moves(go, go', i, "resolve")
    BY GoToMoves DEF Acquire
  <1>2. CountersInPlace'
    <2>1. wg' = wg /\ sem' = sem + 1
      BY DEF Acquire
    <2>2. QED
      BY <1>1, <2>1, MoveCounted DEF Pending, Holding, Working
  <1>3. TypeOK'
    BY <1>2, CountersTyped, MaxWorkersNat DEF TypeOK, Acquire, GoTo, Pending, Holding, Working
  <1>4. MainInPlace'
    BY <1>1 DEF Moves, MainInPlace, Acquire, Pending, Holding, Working
  <1>5. FilesInPlace'
    BY <1>1 DEF Moves, FilesInPlace, Acquire, Working
  <1>6. ResultsInPlace'
    BY <1>1 DEF Moves, ResultsInPlace, TypeOK, Acquire
  <1>7. QED
    BY <1>2, <1>3, <1>4, <1>5, <1>6

(* It finds its input: a local file, or a download of its own. *)
LEMMA ResolveKeeps ==
    ASSUME PoolInvariant, NEW i \in Apps, Resolve(i)
    PROVE  PoolInvariant'
  <1> USE DEF PoolInvariant
  <1>1. PICK to \in {"load", "clean"} :
           go[i] = "resolve" /\ Moves(go, go', i, to)
    BY GoToMoves DEF Resolve, Settles
  <1>2. CountersInPlace'
    <2>1. wg' = wg /\ sem' = sem
      BY DEF Resolve
    <2>2. QED
      BY <1>1, <2>1, MoveCounted DEF Pending, Holding, Working
  <1>3. TypeOK'
    BY <1>2, CountersTyped DEF TypeOK, Resolve, Settles, GoTo, Pending, Holding, Working
  <1>4. MainInPlace'
    BY <1>1 DEF Moves, MainInPlace, Resolve, Settles, Pending, Holding, Working
  <1>5. FilesInPlace'
    BY <1>1 DEF Moves, FilesInPlace, Resolve, Settles, GoTo, TypeOK, Working
  <1>6. ResultsInPlace'
    <2>1. \A j \in Apps : outcome'[j] = IF j # i THEN outcome[j]
                                    ELSE IF to = "clean" THEN "error" ELSE "none"
      BY <1>1 DEF ResultsInPlace, Resolve, Settles, GoTo, Moves, TypeOK
    <2>2. \A j \in Apps : j \in output' <=> outcome'[j] = "ok"
      BY <1>1, <2>1 DEF ResultsInPlace, Resolve, Settles, GoTo, Moves, TypeOK
    <2>3. UNCHANGED <<main, panicked, results, process>>
      BY DEF Resolve
    <2>4. QED
      BY <1>1, <2>1, <2>2, <2>3 DEF Moves, ResultsInPlace
  <1>7. QED
    BY <1>2, <1>3, <1>4, <1>5, <1>6

(* It loads its credentials. *)
LEMMA LoadKeeps ==
    ASSUME PoolInvariant, NEW i \in Apps, Load(i)
    PROVE  PoolInvariant'
  <1> USE DEF PoolInvariant
  <1>1. PICK to \in {"resign", "clean"} :
           go[i] = "load" /\ Moves(go, go', i, to)
    BY GoToMoves DEF Load, Settles
  <1>2. CountersInPlace'
    <2>1. wg' = wg /\ sem' = sem
      BY DEF Load
    <2>2. QED
      BY <1>1, <2>1, MoveCounted DEF Pending, Holding, Working
  <1>3. TypeOK'
    BY <1>2, CountersTyped DEF TypeOK, Load, Settles, GoTo, Pending, Holding, Working
  <1>4. MainInPlace'
    BY <1>1 DEF Moves, MainInPlace, Load, Settles, Pending, Holding, Working
  <1>5. FilesInPlace'
    BY <1>1 DEF Moves, FilesInPlace, Load, Settles, GoTo, TypeOK, Working
  <1>6. ResultsInPlace'
    <2>1. \A j \in Apps : outcome'[j] = IF j # i THEN outcome[j]
                                    ELSE IF to = "clean" THEN "error" ELSE "none"
      BY <1>1 DEF ResultsInPlace, Load, Settles, GoTo, Moves, TypeOK
    <2>2. \A j \in Apps : j \in output' <=> outcome'[j] = "ok"
      BY <1>1, <2>1 DEF ResultsInPlace, Load, Settles, GoTo, Moves, TypeOK
    <2>3. UNCHANGED <<main, panicked, results, process>>
      BY DEF Load
    <2>4. QED
      BY <1>1, <2>1, <2>2, <2>3 DEF Moves, ResultsInPlace
  <1>7. QED
    BY <1>2, <1>3, <1>4, <1>5, <1>6

(* It begins to sign. *)
LEMMA BeginResignKeeps ==
    ASSUME PoolInvariant, NEW i \in Apps, BeginResign(i)
    PROVE  PoolInvariant'
  <1> USE DEF PoolInvariant
  <1>1. go[i] = "resign" /\ Moves(go, go', i, "signing")
    BY GoToMoves DEF BeginResign
  <1>2. CountersInPlace'
    <2>1. wg' = wg /\ sem' = sem
      BY DEF BeginResign
    <2>2. QED
      BY <1>1, <2>1, MoveCounted DEF Pending, Holding, Working
  <1>3. TypeOK'
    BY <1>2, CountersTyped, MaxWorkersNat DEF TypeOK, BeginResign, GoTo, Pending, Holding, Working
  <1>4. MainInPlace'
    BY <1>1 DEF Moves, MainInPlace, BeginResign, Pending, Holding, Working
  <1>5. FilesInPlace'
    BY <1>1 DEF Moves, FilesInPlace, BeginResign, Working
  <1>6. ResultsInPlace'
    BY <1>1 DEF Moves, ResultsInPlace, TypeOK, BeginResign
  <1>7. QED
    BY <1>2, <1>3, <1>4, <1>5, <1>6

(* It has signed, or failed to. *)
LEMMA EndResignKeeps ==
    ASSUME PoolInvariant, NEW i \in Apps, EndResign(i)
    PROVE  PoolInvariant'
  <1> USE DEF PoolInvariant
  <1>1. PICK to \in {"manifest", "clean"} :
           go[i] = "signing" /\ Moves(go, go', i, to)
    BY GoToMoves DEF EndResign
  <1>2. CountersInPlace'
    <2>1. wg' = wg /\ sem' = sem
      BY DEF EndResign
    <2>2. QED
      BY <1>1, <2>1, MoveCounted DEF Pending, Holding, Working
  <1>3. TypeOK'
    BY <1>2, CountersTyped DEF TypeOK, EndResign, GoTo, Pending, Holding, Working
  <1>4. MainInPlace'
    BY <1>1 DEF Moves, MainInPlace, EndResign, Pending, Holding, Working
  <1>5. FilesInPlace'
    BY <1>1 DEF Moves, FilesInPlace, EndResign, GoTo, TypeOK, Working
  <1>6. ResultsInPlace'
    <2>1. \A j \in Apps : outcome'[j] = IF j # i THEN outcome[j]
                                    ELSE IF to = "clean" THEN "error" ELSE "ok"
      BY <1>1 DEF ResultsInPlace, EndResign, GoTo, Moves, TypeOK
    <2>2. \A j \in Apps : j \in output' <=> outcome'[j] = "ok"
      BY <1>1, <2>1 DEF ResultsInPlace, EndResign, GoTo, Moves, TypeOK
    <2>3. UNCHANGED <<main, panicked, results, process>>
      BY DEF EndResign
    <2>4. QED
      BY <1>1, <2>1, <2>2, <2>3 DEF Moves, ResultsInPlace
  <1>7. QED
    BY <1>2, <1>3, <1>4, <1>5, <1>6

(* It writes a manifest. *)
LEMMA ManifestKeeps ==
    ASSUME PoolInvariant, NEW i \in Apps, Manifest(i)
    PROVE  PoolInvariant'
  <1> USE DEF PoolInvariant
  <1>1. go[i] = "manifest" /\ Moves(go, go', i, "clean")
    BY GoToMoves DEF Manifest
  <1>2. CountersInPlace'
    <2>1. wg' = wg /\ sem' = sem
      BY DEF Manifest
    <2>2. QED
      BY <1>1, <2>1, MoveCounted DEF Pending, Holding, Working
  <1>3. TypeOK'
    BY <1>2, CountersTyped, MaxWorkersNat DEF TypeOK, Manifest, GoTo, Pending, Holding, Working
  <1>4. MainInPlace'
    BY <1>1 DEF Moves, MainInPlace, Manifest, Pending, Holding, Working
  <1>5. FilesInPlace'
    BY <1>1 DEF Moves, FilesInPlace, Manifest, Working
  <1>6. ResultsInPlace'
    BY <1>1 DEF Moves, ResultsInPlace, TypeOK, Manifest
  <1>7. QED
    BY <1>2, <1>3, <1>4, <1>5, <1>6

(* It removes its temporary files. *)
LEMMA CleanKeeps ==
    ASSUME PoolInvariant, NEW i \in Apps, Clean(i)
    PROVE  PoolInvariant'
  <1> USE DEF PoolInvariant
  <1>1. go[i] = "clean" /\ Moves(go, go', i, AfterClean(i))
    BY GoToMoves DEF Clean
  <1>2. CountersInPlace'
    <2>1. wg' = wg /\ sem' = sem
      BY DEF Clean
    <2>2. QED
      BY <1>1, <2>1, MoveCounted DEF Pending, Holding, Working, AfterClean
  <1>3. TypeOK'
    BY <1>2, CountersTyped, MaxWorkersNat DEF TypeOK, Clean, RunCleaner, AfterClean, GoTo, Pending, Holding, Working
  <1>4. MainInPlace'
    BY <1>1 DEF Moves, MainInPlace, Clean, RunCleaner, AfterClean, Pending, Holding, Working
  <1>5. FilesInPlace'
    BY <1>1 DEF Moves, FilesInPlace, Clean, RunCleaner, AfterClean, Working
  <1>6. ResultsInPlace'
    BY <1>1 DEF Moves, ResultsInPlace, TypeOK, Clean, RunCleaner, AfterClean
  <1>7. QED
    BY <1>2, <1>3, <1>4, <1>5, <1>6

(* It stores its result in its own place. *)
LEMMA StoreKeeps ==
    ASSUME PoolInvariant, NEW i \in Apps, Store(i)
    PROVE  PoolInvariant'
  <1> USE DEF PoolInvariant
  <1>1. go[i] = "store" /\ Moves(go, go', i, "release")
    BY GoToMoves DEF Store
  <1>2. CountersInPlace'
    <2>1. wg' = wg /\ sem' = sem
      BY DEF Store
    <2>2. QED
      BY <1>1, <2>1, MoveCounted DEF Pending, Holding, Working
  <1>3. TypeOK'
    <2>1. [app |-> i, ok |-> outcome[i] = "ok"] \in [app : 0..N, ok : BOOLEAN]
      BY DEF Apps
    <2>2. results' \in [Apps -> [app : 0..N, ok : BOOLEAN]]
      BY <2>1 DEF TypeOK, Store, Slot
    <2>3. go' \in [Apps -> Pending \cup {"none", "exited", "dying"}]
      BY DEF TypeOK, Store, GoTo, Pending, Holding, Working
    <2>4. QED
      BY <2>2, <2>3 DEF TypeOK, Store
  <1>4. MainInPlace'
    BY <1>1 DEF Moves, MainInPlace, Store, Slot, Pending, Holding, Working
  <1>5. FilesInPlace'
    BY <1>1 DEF Moves, FilesInPlace, Store, Slot, Working
  <1>6. ResultsInPlace'
    BY <1>1 DEF Moves, ResultsInPlace, TypeOK, Store, Slot
  <1>7. QED
    BY <1>2, <1>3, <1>4, <1>5, <1>6

(* It gives its token back. *)
LEMMA ReleaseKeeps ==
    ASSUME PoolInvariant, NEW i \in Apps, Release(i)
    PROVE  PoolInvariant'
  <1> USE DEF PoolInvariant
  <1>1. go[i] = "release" /\ Moves(go, go', i, "finish")
    BY GoToMoves DEF Release
  <1>2. CountersInPlace'
    <2>1. wg' = wg /\ sem' = sem - 1
      BY DEF Release
    <2>2. QED
      BY <1>1, <2>1, MoveCounted DEF Pending, Holding, Working
  <1>3. TypeOK'
    <2>1. sem' \in 0..MaxWorkers
      <3>1. sem' \in 0..N /\ sem' = sem - 1 /\ sem \in 0..MaxWorkers
        BY <1>2, CountersTyped DEF TypeOK, Release
      <3>2. QED
        BY <3>1, MaxWorkersNat, PoolAssumption
    <2>2. go' \in [Apps -> Pending \cup {"none", "exited", "dying"}]
      BY DEF TypeOK, Release, GoTo, Pending, Holding, Working
    <2>3. QED
      BY <2>1, <2>2 DEF TypeOK, Release
  <1>4. MainInPlace'
    BY <1>1 DEF Moves, MainInPlace, Release, Pending, Holding, Working
  <1>5. FilesInPlace'
    BY <1>1 DEF Moves, FilesInPlace, Release, Working
  <1>6. ResultsInPlace'
    BY <1>1 DEF Moves, ResultsInPlace, TypeOK, Release
  <1>7. QED
    BY <1>2, <1>3, <1>4, <1>5, <1>6

(* It tells the wait group. *)
LEMMA FinishKeeps ==
    ASSUME PoolInvariant, NEW i \in Apps, Finish(i)
    PROVE  PoolInvariant'
  <1> USE DEF PoolInvariant
  <1>1. go[i] = "finish" /\ Moves(go, go', i, IF i \in panicked THEN "dying" ELSE "exited")
    BY GoToMoves DEF Finish
  <1>2. CountersInPlace'
    <2>1. wg' = wg - 1 /\ sem' = sem
      BY DEF Finish
    <2>2. QED
      BY <1>1, <2>1, MoveCounted DEF Pending, Holding, Working
  <1>3. TypeOK'
    <2>1. wg' \in 0..N
      BY <1>2, CountersTyped
    <2>2. go' \in [Apps -> Pending \cup {"none", "exited", "dying"}]
      BY DEF TypeOK, Finish, GoTo, Pending, Holding, Working
    <2>3. QED
      BY <2>1, <2>2 DEF TypeOK, Finish
  <1>4. MainInPlace'
    BY <1>1 DEF Moves, MainInPlace, Finish, Pending, Holding, Working
  <1>5. FilesInPlace'
    BY <1>1 DEF Moves, FilesInPlace, Finish, Working
  <1>6. ResultsInPlace'
    BY <1>1 DEF Moves, ResultsInPlace, TypeOK, Finish
  <1>7. QED
    BY <1>2, <1>3, <1>4, <1>5, <1>6

(* It panics, and its deferred calls run from there. *)
LEMMA PanicKeeps ==
    ASSUME PoolInvariant, NEW i \in Apps, Panic(i)
    PROVE  PoolInvariant'
  <1> USE DEF PoolInvariant
  <1>1. go[i] \in Working /\ Moves(go, go', i, "clean")
    BY DEF Panic, Moves, TypeOK
  <1>2. CountersInPlace'
    <2>1. wg' = wg /\ sem' = sem
      BY DEF Panic
    <2>2. QED
      BY <1>1, <2>1, MoveCounted DEF Pending, Holding, Working
  <1>3. TypeOK'
    BY DEF TypeOK, Panic, Pending, Holding, Working
  <1>4. MainInPlace'
    BY <1>1 DEF Moves, MainInPlace, Panic, Pending, Holding, Working
  <1>5. FilesInPlace'
    BY <1>1 DEF Moves, FilesInPlace, Panic, Working
  <1>6. ResultsInPlace'
    BY <1>1 DEF Moves, ResultsInPlace, Panic, Working
  <1>7. QED
    BY <1>2, <1>3, <1>4, <1>5, <1>6

(* A panic that nobody recovers ends the process. *)
LEMMA CrashKeeps ==
    ASSUME PoolInvariant, NEW i \in Apps, Crash(i)
    PROVE  PoolInvariant'
  <1>1. CountersInPlace' /\ MainInPlace' /\ FilesInPlace' /\ TypeOK'
    BY DEF PoolInvariant, TypeOK, CountersInPlace, MainInPlace, FilesInPlace, Crash
  <1>2. ResultsInPlace'
    BY DEF PoolInvariant, ResultsInPlace, Crash
  <1>3. QED
    BY <1>1, <1>2 DEF PoolInvariant

(* Each step of Run keeps the invariant: it starts a goroutine. *)
LEMMA SpawnKeeps ==
    ASSUME PoolInvariant, Spawn
    PROVE  PoolInvariant'
  <1> USE DEF PoolInvariant
  <1> DEFINE i == spawned + 1
  <1>1. /\ spawned \in Nat /\ N \in Nat /\ spawned < N
        /\ spawned' = spawned + 1
        /\ main' = IF spawned' = N THEN "wait" ELSE "spawn"
    BY PoolAssumption DEF TypeOK, Spawn, StartNext
  <1>2. i \in Apps
    BY <1>1 DEF Apps
  <1>3. go[i] = "none"
    BY <1>1, <1>2 DEF MainInPlace
  <1>4. Moves(go, go', i, "acquire")
    BY <1>2 DEF Spawn, StartNext, Moves, TypeOK
  <1> HIDE DEF i
  <1>5. CountersInPlace'
    <2>1. wg' = wg + 1 /\ sem' = sem
      BY DEF Spawn, StartNext
    <2>2. QED
      BY <1>2, <1>3, <1>4, <2>1, MoveCounted DEF Pending, Holding, Working
  <1>6. TypeOK'
    <2>1. wg' \in 0..N
      BY <1>5, CountersTyped
    <2>2. go' \in [Apps -> Pending \cup {"none", "exited", "dying"}]
      BY DEF TypeOK, Spawn, StartNext, Pending
    <2>3. spawned' \in 0..N
      BY <1>1
    <2>4. QED
      BY <2>1, <2>2, <2>3 DEF TypeOK, Spawn
  <1>7. MainInPlace'
    <2>1. main' = "spawn" <=> spawned' < N
      BY <1>1
    <2>2. \A j \in Apps : go'[j] = "none" <=> j > spawned'
      BY <1>1, <1>4 DEF i, Moves, MainInPlace, Apps
    <2>3. main' \notin {"collect", "returned"}
      BY <1>1
    <2>4. QED
      BY <2>1, <2>2, <2>3 DEF MainInPlace
  <1>8. FilesInPlace'
    BY <1>2, <1>3, <1>4 DEF Moves, FilesInPlace, Spawn, Working
  <1>9. ResultsInPlace'
    <2>1. UNCHANGED <<panicked, outcome, output, results, process>>
      BY DEF Spawn
    <2>2. main' # "returned"
      BY <1>1
    <2>3. QED
      BY <1>2, <1>3, <1>4, <2>1, <2>2 DEF Moves, ResultsInPlace
  <1>10. QED
    BY <1>5, <1>6, <1>7, <1>8, <1>9

(* It has waited for all of them. *)
LEMMA WaitKeeps ==
    ASSUME PoolInvariant, Wait
    PROVE  PoolInvariant'
  <1> USE DEF PoolInvariant
  <1>1. \A i \in Apps : go[i] \notin Pending
    <2>1. Cardinality(At(go, Pending)) = 0 /\ IsFiniteSet(At(go, Pending))
      BY Counters, AppsFinite DEF Wait
    <2>2. At(go, Pending) = {}
      BY <2>1, FS_EmptySet
    <2>3. QED
      BY <2>2 DEF At
  <1>2. CountersInPlace' /\ FilesInPlace' /\ TypeOK'
    BY DEF TypeOK, CountersInPlace, FilesInPlace, Wait
  <1>3. MainInPlace'
    BY <1>1 DEF MainInPlace, Wait
  <1>4. ResultsInPlace'
    BY DEF ResultsInPlace, Wait
  <1>5. QED
    BY <1>2, <1>3, <1>4

(* It counts the results. *)
LEMMA CollectKeeps ==
    ASSUME PoolInvariant, Collect, process = "running"
    PROVE  PoolInvariant'
  <1> USE DEF PoolInvariant
  <1>1. CountersInPlace' /\ FilesInPlace'
    BY DEF CountersInPlace, FilesInPlace, Collect
  <1>2. TypeOK'
    BY DEF TypeOK, Collect
  <1>3. MainInPlace'
    BY DEF MainInPlace, Collect
  <1>4. ResultsInPlace'
    BY DEF ResultsInPlace, Collect
  <1>5. QED
    BY <1>1, <1>2, <1>3, <1>4

(* Before Run starts a goroutine there is nothing to count. *)
LEMMA InitHasInvariant == Init => PoolInvariant
  <1> SUFFICES ASSUME Init
               PROVE  PoolInvariant
    OBVIOUS
  <1>1. TypeOK
    BY PoolAssumption, MaxWorkersNat DEF Init, TypeOK, ZeroResult, NoResponse
  <1>2. CountersInPlace
    <2>1. At(go, Pending) = {} /\ At(go, Holding) = {}
      BY DEF Init, At, Pending, Holding, Working
    <2>2. QED
      BY <2>1, FS_EmptySet, Counters DEF Init
  <1>3. MainInPlace /\ FilesInPlace /\ ResultsInPlace
    BY PoolAssumption DEF Init, MainInPlace, FilesInPlace, ResultsInPlace, Apps
  <1>4. QED
    BY <1>1, <1>2, <1>3 DEF PoolInvariant

(* Whoever makes a step, the invariant is kept. *)
LEMMA StepKeepsPoolInvariant == PoolInvariant /\ [Next]_vars => PoolInvariant'
  <1> SUFFICES ASSUME PoolInvariant, [Next]_vars
               PROVE  PoolInvariant'
    OBVIOUS
  <1>1. CASE Main
    BY <1>1, SpawnKeeps, WaitKeeps, CollectKeeps DEF Main
  <1>2. ASSUME NEW i \in Apps, Worker(i)
        PROVE  PoolInvariant'
    BY <1>2, AcquireKeeps, ResolveKeeps, LoadKeeps, BeginResignKeeps,
       EndResignKeeps, ManifestKeeps, CleanKeeps, StoreKeeps, ReleaseKeeps,
       FinishKeeps, PanicKeeps, CrashKeeps
       DEF Worker
  <1>3. CASE UNCHANGED vars
    BY <1>3 DEF vars, PoolInvariant, TypeOK, CountersInPlace, MainInPlace,
                FilesInPlace, ResultsInPlace
  <1>4. QED
    BY <1>1, <1>2, <1>3 DEF Next, Over

(***************************************************************************)
(* The inductive invariant of the pool: the wait group and the semaphore   *)
(* count the goroutines that owe them a call, each file on disk belongs to *)
(* a goroutine that will remove it, and a goroutine that gives its token   *)
(* back has stored its own result.                                         *)
(***************************************************************************)
THEOREM PoolIsKept == Spec => []PoolInvariant
  BY InitHasInvariant, StepKeepsPoolInvariant, PTL DEF Spec

-----------------------------------------------------------------------------
(* When Run has returned, no goroutine is working and none will crash. *)
LEMMA ReturnedIsQuiet ==
    ASSUME PoolInvariant, main = "returned"
    PROVE  \A i \in Apps : go[i] \in {"exited", "dying"}
  <1>1. /\ \A i \in Apps : go[i] \notin Pending
        /\ ~(spawned < N)
    BY DEF PoolInvariant, MainInPlace
  <1>2. \A i \in Apps : ~(i > spawned)
    BY <1>1, PoolAssumption DEF PoolInvariant, TypeOK, Apps
  <1>3. \A i \in Apps : go[i] # "none"
    BY <1>2 DEF PoolInvariant, MainInPlace
  <1>4. QED
    BY <1>1, <1>3 DEF PoolInvariant, TypeOK

(* What Run reports is true, for every number of apps and of workers. *)
THEOREM ReportTrue == Spec => []ReportIsTrue
  <1>1. PoolInvariant => ReportIsTrue
    <2> SUFFICES ASSUME PoolInvariant, main = "returned"
                 PROVE  ReportIsTrue
      BY DEF ReportIsTrue
    <2>1. ASSUME NEW i \in Apps
          PROVE  /\ i \in output <=> outcome[i] = "ok"
                 /\ i \notin panicked =>
                       results[i] = [app |-> i, ok |-> outcome[i] = "ok"]
                 /\ i \in panicked => results[i] = ZeroResult
      BY ReturnedIsQuiet DEF PoolInvariant, ResultsInPlace
    <2>2. ASSUME NEW i \in Apps
          PROVE  /\ results[i].ok => i \in output /\ results[i].app = i
                 /\ i \notin panicked =>
                       results[i].app = i /\ (results[i].ok <=> i \in output)
      <3>0. /\ i \in output <=> outcome[i] = "ok"
            /\ i \notin panicked =>
                  results[i] = [app |-> i, ok |-> outcome[i] = "ok"]
            /\ i \in panicked => results[i] = ZeroResult
        BY <2>1
      <3>1. CASE i \in panicked
        <4>1. results[i].ok = FALSE
          BY <3>0, <3>1 DEF ZeroResult
        <4>2. QED
          BY <3>1, <4>1
      <3>2. CASE i \notin panicked
        <4>1. results[i].app = i /\ results[i].ok = (outcome[i] = "ok")
          BY <3>0, <3>2
        <4>2. QED
          BY <3>0, <3>2, <4>1
      <3>3. QED
        BY <3>1, <3>2
    <2>3. /\ response.success <=> \A i \in Apps : results[i].ok
          /\ response.errors = {i \in Apps : ~results[i].ok}
      <3>1. LET failures == {i \in Apps : ~results[i].ok}
            IN  /\ response.success = (failures = {})
                /\ response.errors = failures
        BY DEF PoolInvariant, MainInPlace
      <3>2. {i \in Apps : ~results[i].ok} = {} <=> \A i \in Apps : results[i].ok
        OBVIOUS
      <3>3. QED
        BY <3>1, <3>2
    <2>4. QED
      BY <2>2, <2>3 DEF ReportIsTrue
  <1>2. QED
    BY <1>1, PoolIsKept, PTL

(* Run leaves nothing of its own on disk when it returns. *)
THEOREM NothingLeft == Spec => []NothingLeftOnReturn
  <1>1. PoolInvariant => NothingLeftOnReturn
    <2> SUFFICES ASSUME PoolInvariant, main = "returned"
                 PROVE  temp = {} /\ work = {}
      BY DEF NothingLeftOnReturn
    <2>1. \A i \in Apps : i \notin temp /\ i \notin work
      BY ReturnedIsQuiet DEF PoolInvariant, FilesInPlace, Working
    <2>2. QED
      BY <2>1 DEF PoolInvariant, TypeOK
  <1>2. QED
    BY <1>1, PoolIsKept, PTL

(* The disk a batch needs is bounded by the number of workers. *)
THEOREM DiskBounded == Spec => []DiskIsBounded
  <1>1. PoolInvariant => DiskIsBounded
    <2> SUFFICES ASSUME PoolInvariant
                 PROVE  DiskIsBounded
      OBVIOUS
    <2>1. temp \subseteq At(go, Holding) /\ work \subseteq At(go, Holding)
      BY DEF PoolInvariant, FilesInPlace, TypeOK, At, Holding, Working
    <2>2. Cardinality(At(go, Holding)) <= MaxWorkers
      BY Counters, MaxWorkersNat DEF PoolInvariant, TypeOK
    <2>3. /\ IsFiniteSet(At(go, Holding))
          /\ Cardinality(At(go, Holding)) \in 0..N
      BY AppsFinite
    <2>4. /\ Cardinality(temp) <= Cardinality(At(go, Holding))
          /\ Cardinality(work) <= Cardinality(At(go, Holding))
          /\ Cardinality(temp) \in Nat /\ Cardinality(work) \in Nat
      BY <2>1, <2>3, FS_Subset, FS_CardinalityType
    <2>5. QED
      BY <2>2, <2>3, <2>4, MaxWorkersNat, PoolAssumption DEF DiskIsBounded
  <1>2. QED
    BY <1>1, PoolIsKept, PTL

-----------------------------------------------------------------------------
(* What the caller sees of an app whose goroutine is at a given place. *)
LEMMA SettledByPlace ==
    ASSUME PoolInvariant, NEW i \in Apps
    PROVE  /\ i \in panicked => Settled[i] = "failed"
           /\ i \notin panicked /\ go[i] \in {"release", "finish", "exited"} =>
                 Settled[i] = IF outcome[i] = "ok" THEN "signed" ELSE "failed"
           /\ i \notin panicked /\ go[i] \notin {"release", "finish", "exited"} =>
                 Settled[i] = "open"
  <1>1. i # 0
    BY DEF Apps
  <1>2. Settled[i] =
          IF results[i].app = i THEN IF results[i].ok THEN "signed" ELSE "failed"
          ELSE IF i \in panicked THEN "failed" ELSE "open"
    BY DEF Settled
  <1>3. IF i \notin panicked /\ go[i] \in {"release", "finish", "exited"}
        THEN results[i] = [app |-> i, ok |-> outcome[i] = "ok"]
        ELSE results[i] = ZeroResult
    BY DEF PoolInvariant, ResultsInPlace
  <1>4. CASE i \notin panicked /\ go[i] \in {"release", "finish", "exited"}
    <2>1. results[i].app = i /\ results[i].ok = (outcome[i] = "ok")
      BY <1>3, <1>4
    <2>2. QED
      BY <1>2, <1>4, <2>1
  <1>5. CASE ~(i \notin panicked /\ go[i] \in {"release", "finish", "exited"})
    <2>1. results[i].app = 0
      BY <1>3, <1>5 DEF ZeroResult
    <2>2. QED
      BY <1>1, <1>2, <1>5, <2>1
  <1>6. QED
    BY <1>4, <1>5

(* The pool begins as a batch does. *)
LEMMA InitIsBatchInit == Init => Batch!BInit
  <1> SUFFICES ASSUME Init
               PROVE  Batch!BInit
    OBVIOUS
  <1>1. \A i \in Apps : Settled[i] = "open"
    BY DEF Init, Settled, ZeroResult, Apps
  <1>2. Settled = [i \in Apps |-> "open"]
    BY <1>1 DEF Settled
  <1>3. Report = "pending"
    BY DEF Init, Report
  <1>4. QED
    BY <1>2, <1>3 DEF Batch!BInit

(* A step that touches neither results nor panics. *)
LEMMA QuietStep ==
    ASSUME PoolInvariant, UNCHANGED <<panicked, results, response, process>>,
           main' = main \/ (main # "returned" /\ main' # "returned")
    PROVE  UNCHANGED Batch!bvars
  BY DEF Settled, Report, Batch!bvars

(* An app settles: its result is stored, or its worker panics. *)
LEMMA SettlingStep ==
    ASSUME PoolInvariant, NEW i \in Apps, process = "running",
           UNCHANGED <<main, response, process>>,
           go[i] \in Pending, Settled[i] = "open",
           Settled'[i] \in {"signed", "failed"},
           \A j \in Apps \ {i} : Settled'[j] = Settled[j]
    PROVE  Batch!BNext
  <1>1. main # "returned"
    BY DEF PoolInvariant, MainInPlace
  <1>2. Report = "pending" /\ Report' = Report
    BY <1>1 DEF Report
  <1>3. /\ Settled = [j \in Apps |-> Settled[j]]
        /\ Settled' = [j \in Apps |-> Settled'[j]]
    BY DEF Settled
  <1>4. Settled' = [Settled EXCEPT ![i] = Settled'[i]]
    BY <1>3
  <1>5. Batch!Settle(i)
    BY <1>2, <1>4 DEF Batch!Settle
  <1>6. QED
    BY <1>5 DEF Batch!BNext

(* Storing a result settles the job. *)
LEMMA StoreSettles ==
    ASSUME PoolInvariant, PoolInvariant', NEW i \in Apps, Store(i),
           process = "running"
    PROVE  Batch!BNext
  <1>1. go[i] = "store" /\ Moves(go, go', i, "release")
    BY GoToMoves DEF Store, PoolInvariant
  <1>2. i \notin panicked
    BY <1>1 DEF PoolInvariant, ResultsInPlace
  <1>3. Settled[i] = "open"
    BY <1>1, <1>2, SettledByPlace
  <1>4. /\ results'[i] = [app |-> i, ok |-> outcome[i] = "ok"]
        /\ \A j \in Apps \ {i} : results'[j] = results[j]
    BY DEF Store, Slot, PoolInvariant, TypeOK
  <1>5. Settled'[i] \in {"signed", "failed"}
    <2>1. results'[i].app = i
      BY <1>4
    <2>2. QED
      BY <2>1 DEF Settled
  <1>6. \A j \in Apps \ {i} : Settled'[j] = Settled[j]
    BY <1>4 DEF Settled, Store
  <1>7. QED
    BY <1>1, <1>3, <1>5, <1>6, SettlingStep DEF Store, Pending, Holding

(* So does a panic. *)
LEMMA PanicSettles ==
    ASSUME PoolInvariant, NEW i \in Apps, Panic(i), process = "running"
    PROVE  Batch!BNext
  <1>1. go[i] \in Working
    BY DEF Panic
  <1>2. i \notin panicked
    BY <1>1 DEF PoolInvariant, ResultsInPlace, Working
  <1>3. Settled[i] = "open"
    BY <1>1, <1>2, SettledByPlace DEF Working
  <1>4. Settled'[i] \in {"signed", "failed"}
    BY DEF Settled, Panic
  <1>5. \A j \in Apps \ {i} : Settled'[j] = Settled[j]
    BY DEF Settled, Panic
  <1>6. QED
    BY <1>1, <1>3, <1>4, <1>5, SettlingStep DEF Panic, Pending, Holding

(* Collecting the results publishes the report. *)
LEMMA CollectPublishes ==
    ASSUME PoolInvariant, PoolInvariant', Collect, process = "running"
    PROVE  Batch!BNext
  <1>1. \A i \in Apps : go[i] \in {"exited", "dying"}
    <2>1. /\ \A i \in Apps : go[i] \notin Pending
          /\ ~(spawned < N)
      BY DEF PoolInvariant, MainInPlace, Collect
    <2>2. \A i \in Apps : ~(i > spawned)
      BY <2>1, PoolAssumption DEF PoolInvariant, TypeOK, Apps
    <2>3. \A i \in Apps : go[i] # "none"
      BY <2>2 DEF PoolInvariant, MainInPlace
    <2>4. QED
      BY <2>1, <2>3 DEF PoolInvariant, TypeOK
  <1>2. \A i \in Apps : Settled[i] # "open"
    BY <1>1, SettledByPlace DEF PoolInvariant, ResultsInPlace
  <1>3. Report = "pending"
    BY DEF Report, Collect
  <1>4. Report' = IF response'.success THEN "success" ELSE "failure"
    BY DEF Report, Collect
  <1>5. response'.success <=> \A i \in Apps : results[i].ok
    <2>1. response'.success = ({i \in Apps : ~results[i].ok} = {})
      BY DEF Collect
    <2>2. QED
      BY <2>1
  <1>6. \A i \in Apps : results[i].ok <=> Settled[i] = "signed"
    <2> SUFFICES ASSUME NEW i \in Apps
                 PROVE  results[i].ok <=> Settled[i] = "signed"
      OBVIOUS
    <2>1. IF i \notin panicked
          THEN results[i] = [app |-> i, ok |-> outcome[i] = "ok"]
          ELSE results[i] = ZeroResult
      BY <1>1 DEF PoolInvariant, ResultsInPlace
    <2>2. CASE i \notin panicked
      <3>1. results[i].ok = (outcome[i] = "ok")
        BY <2>1, <2>2
      <3>2. go[i] = "exited"
        BY <1>1, <2>2 DEF PoolInvariant, ResultsInPlace
      <3>3. QED
        BY <2>2, <3>1, <3>2, SettledByPlace
    <2>3. CASE i \in panicked
      <3>1. results[i].ok = FALSE
        BY <2>1, <2>3 DEF ZeroResult
      <3>2. QED
        BY <2>3, <3>1, SettledByPlace
    <2>4. QED
      BY <2>2, <2>3
  <1>7. Settled' = Settled
    BY DEF Settled, Collect
  <1>8. Batch!Publish
    BY <1>2, <1>3, <1>4, <1>5, <1>6, <1>7 DEF Batch!Publish
  <1>9. QED
    BY <1>8 DEF Batch!BNext

(* A crash is the death of the batch. *)
LEMMA CrashDies ==
    ASSUME PoolInvariant, NEW i \in Apps, Crash(i), process = "running"
    PROVE  Batch!BNext
  <1>1. i \in panicked /\ Settled[i] = "failed"
    BY SettledByPlace DEF Crash, PoolInvariant, ResultsInPlace
  <1>2. Report = "pending" /\ Report' = "none" /\ Settled' = Settled
    BY DEF Report, Settled, Crash
  <1>3. Batch!Die
    BY <1>1, <1>2 DEF Batch!Die
  <1>4. QED
    BY <1>3 DEF Batch!BNext

(* Every step of the pool is a step of the batch, or none at all. *)
LEMMA StepIsBatchStep ==
    ASSUME PoolInvariant, [Next]_vars
    PROVE  [Batch!BNext]_(Batch!bvars)
  <1>0. PoolInvariant'
    BY StepKeepsPoolInvariant
  <1>1. CASE process = "running" /\ (Spawn \/ Wait)
    <2>1. UNCHANGED <<panicked, results, response, process>>
      BY <1>1 DEF Spawn, Wait
    <2>2. main # "returned" /\ main' # "returned"
      BY <1>1 DEF Spawn, Wait
    <2>3. QED
      BY <2>1, <2>2, QuietStep
  <1>2. CASE process = "running" /\ Collect
    BY <1>0, <1>2, CollectPublishes
  <1>3. ASSUME NEW i \in Apps, Worker(i)
        PROVE  [Batch!BNext]_(Batch!bvars)
    <2>1. CASE Store(i)
      BY <1>0, <1>3, <2>1, StoreSettles DEF Worker
    <2>2. CASE Panic(i)
      BY <1>3, <2>2, PanicSettles DEF Worker
    <2>3. CASE Crash(i)
      BY <1>3, <2>3, CrashDies DEF Worker
    <2>4. CASE \/ Acquire(i) \/ Resolve(i) \/ Load(i) \/ BeginResign(i)
               \/ EndResign(i) \/ Manifest(i) \/ Clean(i) \/ Release(i)
               \/ Finish(i)
      <3>1. UNCHANGED <<main, panicked, results, response, process>>
        BY <2>4 DEF Acquire, Resolve, Load, BeginResign, EndResign, Manifest,
                    Clean, Release, Finish
      <3>2. QED
        BY <3>1, QuietStep
    <2>5. QED
      BY <1>3, <2>1, <2>2, <2>3, <2>4 DEF Worker
  <1>4. CASE UNCHANGED vars
    BY <1>4, QuietStep DEF vars
  <1>5. QED
    BY <1>1, <1>2, <1>3, <1>4 DEF Next, Main, Over

(***************************************************************************)
(* The pool implements the batch: a result is stored once, a panic settles *)
(* its app as failed, and the report waits for all of them.                *)
(***************************************************************************)
THEOREM PoolReportsWholeBatch == Spec => ReportsWholeBatch
  BY InitIsBatchInit, PoolIsKept, StepIsBatchStep, PTL
     DEF Spec, ReportsWholeBatch, Batch!BSpec
=============================================================================
