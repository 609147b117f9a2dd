------------------------ MODULE ResignPipelineProofs ------------------------
(***************************************************************************)
(* Proofs about ResignPipeline, for any app, any IPA and any options.      *)
(***************************************************************************)
EXTENDS ResignPipeline, TLAPS

-----------------------------------------------------------------------------
(* Facts about files and trees. *)

(* Every bundle has its four files, every dylib its two. *)
LEMMA FileNames ==
    /\ \A b \in Bundles : \A k \in {"exec", "info", "seal", "res"} : <<b, k>> \in File
    /\ \A d \in Dylibs : \A k \in {"exec", "root"} : <<d, k>> \in File
BY DEF File, BundleFiles, DylibFiles

(* A rewritten file exists. *)
LEMMA RewrittenType == \A v \in Version : Rewritten(v) \in Nat
BY DEF Version, Rewritten, Absent

(* Writing and deleting files leaves a tree. *)
LEMMA UpdateType ==
    ASSUME disk \in Tree, NEW written, NEW removed
    PROVE  Update(written, removed) \in Tree
<1>1. SUFFICES ASSUME NEW f \in File
               PROVE  (IF f \in removed THEN Absent
                       ELSE IF f \in written THEN Rewritten(disk[f])
                       ELSE disk[f]) \in Version
  BY DEF Update, Tree
<1>2. disk[f] \in Version
  BY DEF Tree
<1>3. Rewritten(disk[f]) \in Version /\ Absent \in Version
  BY <1>2, RewrittenType DEF Version
<1>4. QED
  BY <1>2, <1>3

(* A seal records versions. *)
LEMMA GenerateType ==
    ASSUME NEW b, NEW tree \in Tree
    PROVE  Generate(b, tree) \in Tree
BY DEF Generate, Tree, Version

(* A tree without any file is a tree. *)
LEMMA EmptyTreeType == EmptyTree \in Tree
BY DEF EmptyTree, Tree, Version

(* The IPAs and the options of the assumption have the types of the state. *)
LEMMA InputType ==
    /\ \A in \in Inputs : in.tree \in Tree /\ in.loads \subseteq Dylibs
    /\ Requests \subseteq Option
<1>1. {0, Absent} \subseteq Version
  BY DEF Version
<1>2. QED
  BY <1>1, InputAssumption DEF Tree

-----------------------------------------------------------------------------
(* The initial states are typed. *)
LEMMA TypeInit == Init => TypeOK
<1>1. SUFFICES ASSUME Init PROVE TypeOK
  OBVIOUS
<1>2. input \in Inputs /\ opts \in Option
  BY <1>1, InputType DEF Init
<1>3. disk \in Tree /\ seal \in [Sealable -> Tree]
  BY <1>1, EmptyTreeType DEF Init
<1>4. sig \in [Binary -> Signature]
  BY <1>1 DEF Init, InputSignature, Signature, Identifier, Version, Entitlements
<1>5. job \in Job
  BY <1>1 DEF Init, IdleJob, Job, Binary, Identifier, Version, Entitlements
<1>6. loads \subseteq Dylibs \X Form
  BY <1>1, InputType DEF Init, Form
<1>7. crData \in Version /\ appID \in Identifier
  BY <1>1 DEF Init, Version, Identifier, Owner, Bundles
<1>8. pc \in Step /\ todo \subseteq Components \cup Dylibs
  BY <1>1 DEF Init, Step
<1>9. /\ bundle \in [frameworks : SUBSET Frameworks, plugins : SUBSET Plugins,
                     dylibs : SUBSET Dylibs]
      /\ archive \in [state : {"none", "open", "incomplete", "complete"},
                       tree : Tree]
      /\ result \in {"none", "ok", "error"}
  BY <1>1, EmptyTreeType DEF Init, NoBundle
<1>10. QED
  BY <1>2, <1>3, <1>4, <1>5, <1>6, <1>7, <1>8, <1>9 DEF TypeOK

(* Every step keeps the types. *)
LEMMA TypeStep == TypeOK /\ [Next]_vars => TypeOK'
<1> SUFFICES ASSUME TypeOK, [Next]_vars PROVE TypeOK'
  OBVIOUS
<1>t. /\ \A w, r : Update(w, r) \in Tree
      /\ \A b : Generate(b, disk) \in Tree
      /\ Absent \in Version
      /\ \A v \in Version : Rewritten(v) \in Version
  BY UpdateType, GenerateType, RewrittenType DEF TypeOK, Version
<1>1. CASE Open
  BY <1>1 DEF TypeOK, Open, Discover, Step
<1>2. CASE Extract
  BY <1>2, InputType DEF TypeOK, Extract, Step
<1>3. CASE ModifyInfoPlist
  BY <1>3, <1>t DEF TypeOK, ModifyInfoPlist, Step, Option, Identifier
<1>4. CASE ReplaceIcon
  BY <1>4, <1>t DEF TypeOK, ReplaceIcon, Step
<1>5. CASE HandleProfile
  BY <1>5, <1>t DEF TypeOK, HandleProfile, Step
<1>6. CASE CopyBundles
  BY <1>6, <1>t DEF TypeOK, CopyBundles, Step
<1>7. CASE CopyDylibs
  <2>1. opts' \in Option
    BY <1>7 DEF TypeOK, CopyDylibs, Option, Form
  <2>2. QED
    BY <1>7, <1>t, <2>1 DEF TypeOK, CopyDylibs, Step
<1>8. CASE Strip
  <2>1. bundle' \in [frameworks : SUBSET Frameworks, plugins : SUBSET Plugins,
                     dylibs : SUBSET Dylibs]
    BY <1>8 DEF TypeOK, Strip
  <2>2. QED
    BY <1>8, <1>t, <2>1 DEF TypeOK, Strip, Step, Components
<1>9. ASSUME NEW c \in Components, SkipComponent(c) PROVE TypeOK'
  BY <1>9 DEF TypeOK, SkipComponent
<1>10. ASSUME NEW c \in Components, SignComponent(c) PROVE TypeOK'
  <2>1. \A k \in {"exec", "info", "seal", "res"} : disk[<<c, k>>] \in Version
    BY FileNames DEF TypeOK, Tree, Bundles
  <2>2. c \in Sealable /\ c \in Binary /\ c \in Identifier
    BY DEF Sealable, Binary, Identifier, Owner, Bundles
  <2>3. seal' \in [Sealable -> Tree] /\ disk' \in Tree
    BY <1>10, <1>t, <2>2 DEF TypeOK, SignComponent
  <2>4. BundleIdentifier(opts.id, Slots(c).info, c) \in Identifier
    BY <2>2 DEF TypeOK, BundleIdentifier, Option, Identifier
  <2>5. /\ LocalEntitlements(pc = "plugins") \in Entitlements
        /\ Slots(c).info \in Version /\ Slots(c).res \in Version
    BY <2>1, <1>t DEF TypeOK, LocalEntitlements, Option, Entitlements, Slots
  <2>6. job' \in Job
    BY <1>10, <2>2, <2>4, <2>5 DEF SignComponent, Job
  <2>7. QED
    BY <1>10, <2>3, <2>6 DEF TypeOK, SignComponent
<1>11. ASSUME NEW d \in Dylibs, SignDylib(d) PROVE TypeOK'
  <2>1. job' \in Job
    BY <1>11, <1>t DEF SignDylib, Job, Binary, Identifier, Owner, Entitlements
  <2>2. QED
    BY <1>11, <2>1 DEF TypeOK, SignDylib
<1>12. CASE NextLoop
  <2>1. pc' \in {"dylibs", "plugins", "modify"}
    BY <1>12 DEF NextLoop, After
  <2>2. todo' \subseteq Components \cup Dylibs
    BY <1>12, <2>1 DEF NextLoop, TypeOK, Components
  <2>3. QED
    BY <1>12, <2>1, <2>2 DEF TypeOK, NextLoop, Step
<1>13. CASE ModifyDylibs
  <2>1. loads' \subseteq Dylibs \X Form
    BY <1>13 DEF TypeOK, ModifyDylibs, Option
  <2>2. sig' \in [Binary -> Signature]
    BY <1>13 DEF TypeOK, ModifyDylibs, Signature, Binary
  <2>3. QED
    BY <1>13, <1>t, <2>1, <2>2 DEF TypeOK, ModifyDylibs, Step
<1>14. CASE KeepDylibs
  BY <1>14 DEF TypeOK, KeepDylibs, Step
<1>15. CASE SealApp
  <2>1. disk[<<App, "seal">>] \in Version
    BY FileNames DEF TypeOK, Tree, Bundles
  <2>2. QED
    BY <1>15, <1>t, <2>1 DEF TypeOK, SealApp, Step, Sealable
<1>16. CASE SignMainExecutable
  <2>1. disk[<<App, "info">>] \in Version
    BY FileNames DEF TypeOK, Tree, Bundles
  <2>2. BundleIdentifier(opts.id, disk[<<App, "info">>], appID) \in Identifier
    BY DEF TypeOK, BundleIdentifier, Option, Identifier
  <2>3. job' \in Job
    BY <1>16, <2>1, <2>2 DEF TypeOK, SignMainExecutable, Job, Binary, Option
  <2>4. QED
    BY <1>16, <2>3 DEF TypeOK, SignMainExecutable
<1>17. CASE PassA
  BY <1>17, <1>t DEF TypeOK, PassA, Job
<1>18. CASE PassB
  BY <1>18, <1>t DEF TypeOK, PassB, Job
<1>19. CASE PassC
  <2>1. sig' \in [Binary -> Signature]
    BY <1>19 DEF TypeOK, PassC, Signature, Job
  <2>2. job' \in Job
    BY <1>19, <1>t DEF PassC, IdleJob, Job, Binary, Identifier, Entitlements
  <2>3. QED
    BY <1>19, <1>t, <2>1, <2>2 DEF TypeOK, PassC, Step
<1>20. CASE CreateArchive
  BY <1>20 DEF TypeOK, CreateArchive, Step
<1>21. CASE WalkAndClose
  BY <1>21 DEF TypeOK, WalkAndClose, Step
<1>22. CASE Fail
  <2>1. job' \in Job
    BY <1>22, <1>t DEF Fail, IdleJob, Job, Binary, Identifier, Entitlements
  <2>2. QED
    BY <1>22, <2>1 DEF TypeOK, Fail, Step
<1>23. CASE Unwind
  BY <1>23, EmptyTreeType DEF TypeOK, Unwind, Step
<1>24. CASE UNCHANGED vars
  BY <1>24 DEF TypeOK, vars
<1>25. QED
  BY <1>1, <1>2, <1>3, <1>4, <1>5, <1>6, <1>7, <1>8, <1>9, <1>10, <1>11,
     <1>12, <1>13, <1>14, <1>15, <1>16, <1>17, <1>18, <1>19, <1>20, <1>21,
     <1>22, <1>23, <1>24 DEF Next, Returned

(* Every variable of Resign keeps its type, whatever the app and the call. *)
THEOREM TypeCorrect == Spec => []TypeOK
BY TypeInit, TypeStep, PTL DEF Spec

-----------------------------------------------------------------------------
(* Facts about what a step leaves alone. *)

(* Only the files named by Update change. *)
LEMMA UpdateFrame ==
    ASSUME NEW written, NEW removed, NEW f \in File
    PROVE  /\ f \notin written /\ f \notin removed =>
                  Update(written, removed)[f] = disk[f]
           /\ f \in removed => Update(written, removed)[f] = Absent
           /\ f \in written /\ f \notin removed =>
                  Update(written, removed)[f] = Rewritten(disk[f])
BY DEF Update

(* Temporary files are none of the others. *)
LEMMA TempsApart ==
    /\ \A x, k : k \notin {"tmpA", "tmpB"} => <<x, k>> \notin TempFiles
    /\ \A x \in Binary : TempsOf(x) \subseteq TempFiles /\ TempFiles \subseteq File
BY DEF TempFiles, TempsOf, File

(* The seal of a component covers no code that the pipeline signs, no seal *)
(* it writes and no dylib.                                                 *)
LEMMA CoversApart ==
    ASSUME NEW c \in Components
    PROVE  /\ \A x \in Binary : <<x, "exec">> \notin Covers(c)
           /\ \A x \in Sealable : <<x, "seal">> \notin Covers(c)
           /\ \A d \in Dylibs : <<d, "root">> \notin Covers(c)
<1>1. c # App /\ c \notin Dylibs /\ Binary \cap Nested = {} /\ Sealable \subseteq Binary
  BY NamesAssumption DEF Components, Binary, Sealable
<1>2. Inside(c) \cap Binary = {c}
  BY <1>1 DEF Inside, Binary, Components
<1>3. \A f \in Covers(c) : f[1] \in Inside(c) /\ f # <<c, "exec">> /\ f # <<c, "seal">>
  BY DEF Covers, FilesOf
<1>4. Dylibs \subseteq Binary
  BY DEF Binary
<1>5. QED
  BY <1>1, <1>2, <1>3, <1>4

(* The app's seal covers neither its executable nor itself. *)
LEMMA AppCoversApart ==
    <<App, "exec">> \notin Covers(App) /\ <<App, "seal">> \notin Covers(App)
BY DEF Covers

(* Without temporary files, the settled tree is the tree. *)
LEMMA SettledWhenIdle ==
    ASSUME disk \in Tree, \A f \in TempFiles : disk[f] = Absent
    PROVE  Settled = disk
BY DEF Settled, Tree

(* A seal stays up to date if nothing but temporary files below it changes. *)
LEMMA SealKept ==
    ASSUME NEW b, SealUpToDate(b), seal'[b] = seal[b],
           \A f \in Covers(b) \ TempFiles : disk'[f] = disk[f]
    PROVE  SealUpToDate(b)'
<1>1. \A f \in Covers(b) : Settled'[f] = Settled[f]
  BY DEF Settled, Covers, FilesOf
<1>2. Generate(b, Settled') = Generate(b, Settled)
  BY <1>1 DEF Generate
<1>3. QED
  BY <1>2 DEF SealUpToDate, Generate, Covers, FilesOf, Inside

(* A seal that is generated now is up to date, whatever then happens to *)
(* files that it does not cover.                                        *)
LEMMA SealMade ==
    ASSUME NEW b, disk \in Tree, \A f \in TempFiles : disk[f] = Absent,
           seal'[b] = Generate(b, disk),
           \A f \in Covers(b) \ TempFiles : disk'[f] = disk[f]
    PROVE  SealUpToDate(b)'
<1>1. \A f \in Covers(b) : Settled'[f] = disk[f]
  BY DEF Settled, Covers, FilesOf
<1>2. Generate(b, Settled') = Generate(b, disk)
  BY <1>1 DEF Generate
<1>3. QED
  BY <1>2 DEF SealUpToDate, Generate, Covers, FilesOf, Inside

-----------------------------------------------------------------------------
(* The inductive invariant, one conjunct at a time. *)

(* The invariant holds before the first step. *)
LEMMA InitInvariant == Init => SigningInvariant
<1>1. SUFFICES ASSUME Init PROVE SigningInvariant
  OBVIOUS
<1>2. TypeOK
  BY <1>1, TypeInit
<1>3. /\ LoopsInPlace /\ TempsInPlace /\ ListsComplete /\ IdentifierInPlace
  BY <1>1 DEF Init, LoopsInPlace, TempsInPlace, ListsComplete,
     IdentifierInPlace, IdleJob, Editing, Looping, Ending
<1>4. SigningInPlace
  BY <1>1 DEF Init, SigningInPlace, IdleJob, Passed, Editing, Looping, Ending
<1>5. QED
  BY <1>2, <1>3, <1>4 DEF SigningInvariant

(* A loop goes through what it was given, and ends with nothing left. *)
LEMMA LoopsStep == TypeOK /\ LoopsInPlace /\ [Next]_vars => LoopsInPlace'
<1> SUFFICES ASSUME TypeOK, LoopsInPlace, [Next]_vars PROVE LoopsInPlace'
  OBVIOUS
<1>1. CASE Open \/ Extract \/ ModifyInfoPlist \/ ReplaceIcon \/ HandleProfile
           \/ CopyBundles \/ CopyDylibs
  BY <1>1 DEF LoopsInPlace, Looping, Open, Extract, ModifyInfoPlist, ReplaceIcon,
     HandleProfile, CopyBundles, CopyDylibs
<1>2. CASE Strip
  BY <1>2 DEF LoopsInPlace, Looping, Strip, TypeOK
<1>3. ASSUME NEW c \in Components, SkipComponent(c) \/ SignComponent(c)
      PROVE  LoopsInPlace'
  BY <1>3 DEF LoopsInPlace, Looping, SkipComponent, SignComponent
<1>4. ASSUME NEW d \in Dylibs, SignDylib(d) PROVE LoopsInPlace'
  BY <1>4 DEF LoopsInPlace, Looping, SignDylib
<1>5. CASE NextLoop
  <2>1. \/ pc = "frameworks" /\ pc' = "dylibs" /\ todo' = bundle.dylibs
        \/ pc = "dylibs" /\ pc' = "plugins" /\ todo' = bundle.plugins
        \/ pc = "plugins" /\ pc' = "modify" /\ todo' = {}
    BY <1>5 DEF NextLoop, After
  <2>2. job' = job /\ job.stage = "idle"
    BY <1>5 DEF NextLoop
  <2>3. QED
    BY <2>1, <2>2 DEF LoopsInPlace, TypeOK
<1>6. CASE ModifyDylibs \/ KeepDylibs \/ SealApp \/ SignMainExecutable
  BY <1>6 DEF LoopsInPlace, Looping, ModifyDylibs, KeepDylibs, SealApp,
     SignMainExecutable
<1>7. CASE PassA \/ PassB
  BY <1>7 DEF LoopsInPlace, PassA, PassB, TypeOK, Job
<1>8. CASE PassC
  BY <1>8 DEF LoopsInPlace, PassC, IdleJob
<1>9. CASE CreateArchive \/ WalkAndClose \/ Fail \/ Unwind
  BY <1>9 DEF LoopsInPlace, Looping, CreateArchive, WalkAndClose, Fail, IdleJob,
     Unwind
<1>10. CASE UNCHANGED vars
  BY <1>10 DEF LoopsInPlace, vars
<1>11. QED
  BY <1>1, <1>2, <1>3, <1>4, <1>5, <1>6, <1>7, <1>8, <1>9, <1>10 DEF Next, Returned

(* A step that writes no temporary file and keeps the signing under way. *)
LEMMA TempsKept ==
    ASSUME TypeOK, TempsInPlace, NEW w, NEW r, w \cap TempFiles = {},
           disk' = Update(w, r),
           pc \in Editing \cup Looping \cup Ending,
           job' = job \/ job.stage = "idle"
    PROVE  TempsInPlace'
<1>1. SUFFICES ASSUME NEW f \in TempFiles, disk'[f] # Absent
               PROVE  job'.stage # "idle" /\ f[1] = job'.bin
  BY DEF TempsInPlace
<1>2. f \in File
  BY DEF File
<1>3. disk[f] # Absent
  BY <1>1, <1>2, UpdateFrame
<1>4. job.stage # "idle" /\ f[1] = job.bin
  BY <1>3 DEF TempsInPlace
<1>5. QED
  BY <1>4

(* A temporary file is there only while its binary is being signed. *)
LEMMA TempsStep == SigningInvariant /\ [Next]_vars => TempsInPlace'
<1> SUFFICES ASSUME SigningInvariant, [Next]_vars PROVE TempsInPlace'
  OBVIOUS
<1>t. TypeOK /\ TempsInPlace /\ LoopsInPlace
  BY DEF SigningInvariant
<1>1. CASE Open
  BY <1>1 DEF Open, TempsInPlace, Editing, Looping, Ending
<1>2. CASE Extract
  <2>1. \A f \in TempFiles : input.tree[f] = Absent
    BY <1>t, InputAssumption, TempsApart DEF TypeOK, TempFiles, File,
       BundleFiles, DylibFiles
  <2>2. QED
    BY <1>2, <2>1 DEF Extract, TempsInPlace
<1>3. CASE ModifyInfoPlist
  BY <1>3, <1>t, TempsKept, TempsApart DEF ModifyInfoPlist, Editing
<1>4. CASE ReplaceIcon
  BY <1>4, <1>t, TempsKept, TempsApart DEF ReplaceIcon, Editing
<1>5. CASE HandleProfile
  BY <1>5, <1>t, TempsKept, TempsApart DEF HandleProfile, Editing
<1>6. CASE CopyBundles
  BY <1>6, <1>t, TempsKept, TempsApart DEF CopyBundles, Editing
<1>7. CASE CopyDylibs
  <2>1. (opts.inject \X {"exec"}) \cap TempFiles = {}
    BY DEF TempFiles
  <2>2. QED
    BY <1>7, <2>1, <1>t, TempsKept DEF CopyDylibs, Editing
<1>8. CASE Strip
  BY <1>8, <1>t, TempsKept DEF Strip, Editing
<1>9. ASSUME NEW c \in Components, SkipComponent(c) PROVE TempsInPlace'
  BY <1>9 DEF SigningInvariant, SkipComponent, TempsInPlace
<1>10. ASSUME NEW c \in Components, SignComponent(c) PROVE TempsInPlace'
  BY <1>10, <1>t, TempsKept, TempsApart DEF SignComponent, Looping
<1>11. ASSUME NEW d \in Dylibs, SignDylib(d) PROVE TempsInPlace'
  BY <1>11, <1>t DEF SignDylib, TempsInPlace, Looping
<1>12. CASE NextLoop
  BY <1>12, <1>t DEF NextLoop, After, TempsInPlace, Looping
<1>13. CASE ModifyDylibs
  BY <1>13, <1>t, TempsKept, TempsApart DEF ModifyDylibs, Ending
<1>14. CASE KeepDylibs
  BY <1>14, <1>t DEF KeepDylibs, TempsInPlace, Ending
<1>15. CASE SealApp
  BY <1>15, <1>t, TempsKept, TempsApart DEF SealApp, Ending
<1>16. CASE SignMainExecutable
  BY <1>16, <1>t DEF SignMainExecutable, TempsInPlace, Ending
<1>17. CASE PassA \/ PassB
  <2>1. /\ \E k : disk' = Update({<<job.bin, k>>}, {})
        /\ pc' = pc /\ job.stage # "idle"
        /\ job'.stage # "idle" /\ job'.bin = job.bin
    BY <1>17, <1>t DEF PassA, PassB, TypeOK, Job
  <2>2. PICK k : disk' = Update({<<job.bin, k>>}, {})
    BY <2>1
  <2>3. pc \in Looping \cup Ending
    BY <2>1, <1>t DEF LoopsInPlace, Ending
  <2>4. \A f \in TempFiles : disk'[f] # Absent =>
           disk[f] # Absent \/ f = <<job.bin, k>>
    BY <2>2, UpdateFrame DEF File
  <2>5. QED
    BY <2>1, <2>3, <2>4, <1>t DEF TempsInPlace
<1>18. CASE PassC
  <2>1. pc \in Looping \cup Ending
    BY <1>18, <1>t DEF PassC, LoopsInPlace, Ending
  <2>2. SUFFICES ASSUME NEW f \in TempFiles, disk'[f] # Absent PROVE FALSE
    BY DEF TempsInPlace
  <2>3. f \in File /\ f # <<job.bin, "exec">>
    BY TempsApart DEF File
  <2>4. f \notin TempsOf(job.bin) /\ disk[f] # Absent
    BY <1>18, <2>2, <2>3, UpdateFrame DEF PassC
  <2>5. f[1] = job.bin
    BY <2>1, <2>4, <1>t DEF TempsInPlace
  <2>6. QED
    BY <2>4, <2>5 DEF TempFiles, TempsOf
<1>19. CASE CreateArchive
  BY <1>19, <1>t DEF CreateArchive, TempsInPlace, Ending
<1>20. CASE WalkAndClose \/ Fail \/ Unwind
  BY <1>20 DEF WalkAndClose, Fail, Unwind, TempsInPlace, Editing, Looping, Ending
<1>21. CASE UNCHANGED vars
  BY <1>21, <1>t DEF vars, TempsInPlace
<1>22. QED
  BY <1>1, <1>2, <1>3, <1>4, <1>5, <1>6, <1>7, <1>8, <1>9, <1>10, <1>11,
     <1>12, <1>13, <1>14, <1>15, <1>16, <1>17, <1>18, <1>19, <1>20, <1>21
     DEF Next, Returned

(* The executable of a component is not written before it is signed. *)
LEMMA ListsStep == SigningInvariant /\ [Next]_vars => ListsComplete'
<1> SUFFICES ASSUME SigningInvariant, [Next]_vars PROVE ListsComplete'
  OBVIOUS
<1>t. TypeOK /\ ListsComplete /\ LoopsInPlace
  BY DEF SigningInvariant
<1>f. \A c \in Components : /\ <<c, "exec">> \in File
                           /\ c # App /\ c \notin Dylibs /\ c \notin Nested
                           /\ c \notin WatchApps
  BY FileNames, NamesAssumption DEF Bundles, Components
<1>1. CASE Open
  BY <1>1 DEF Open, ListsComplete, Editing
<1>2. CASE Extract
  BY <1>2, <1>t DEF Extract, ListsComplete, Editing
<1>e. ASSUME pc \in Editing, pc' \in Editing, bundle' = bundle, input' = input,
             NEW w, NEW r, disk' = Update(w, r),
             \A c \in Components : <<c, "exec">> \notin w /\ <<c, "exec">> \notin r
      PROVE  ListsComplete'
  <2>1. ASSUME NEW c \in Components
        PROVE  disk'[<<c, "exec">>] = disk[<<c, "exec">>]
    <3>1. /\ <<c, "exec">> \in File
          /\ <<c, "exec">> \notin w /\ <<c, "exec">> \notin r
      BY <1>e, <1>f
    <3>2. QED
      BY <3>1, <1>e, UpdateFrame
  <2>2. QED
    BY <1>e, <2>1, <1>t DEF ListsComplete, Editing
<1>3. CASE ModifyInfoPlist \/ ReplaceIcon \/ HandleProfile \/ CopyBundles
  <2>1. \A c \in Components, k \in {"info", "icon", "assets", "profile", "bundle"} :
           <<c, "exec">> # <<App, k>>
    OBVIOUS
  <2>2. QED
    BY <1>3, <1>e, <2>1 DEF ModifyInfoPlist, ReplaceIcon, HandleProfile,
       CopyBundles, Editing
<1>3a. CASE CopyDylibs
  <2>1. \A c \in Components : <<c, "exec">> \notin opts.inject \X {"exec"}
    BY <1>f, <1>t DEF TypeOK, Option
  <2>2. QED
    BY <1>3a, <1>e, <2>1 DEF CopyDylibs, Editing
<1>4. CASE Strip
  <2>1. /\ bundle = Discover(input.tree)
        /\ \A c \in Components : disk[<<c, "exec">>] = input.tree[<<c, "exec">>]
    BY <1>4, <1>t DEF Strip, ListsComplete, Editing
  <2>2. bundle'.dylibs = Discover(input.tree).dylibs /\ input' = input
    BY <1>4, <2>1 DEF Strip, Discover
  <2>3. ASSUME NEW c \in Plugins, c \notin bundle'.plugins
        PROVE  disk'[<<c, "exec">>] = Absent
    <3>1. c \in Components
      BY DEF Components
    <3>2. CASE opts.stripExt
      <4>1. <<c, "exec">> \in FilesOf({o \in Plugins \cup Nested : opts.stripExt}
                                \cup {o \in WatchApps : opts.stripWatch})
        BY <3>1, <3>2, <1>f DEF FilesOf
      <4>2. QED
        BY <4>1, <3>1, <1>f, <1>4, UpdateFrame DEF Strip
    <3>3. CASE ~opts.stripExt
      <4>1. c \notin Discover(input.tree).plugins
        BY <1>4, <2>1, <2>3, <3>3, <1>t DEF Strip, TypeOK
      <4>2. disk[<<c, "exec">>] = Absent
        BY <4>1, <2>1, <3>1, <1>f DEF Discover, Ships
      <4>3. QED
        BY <4>2, <3>1, <1>f, <1>4, UpdateFrame DEF Strip
    <3>4. QED
      BY <3>2, <3>3
  <2>4. QED
    BY <1>4, <2>2, <2>3 DEF Strip, ListsComplete, HasExec, Editing
<1>5. ASSUME NEW c \in Components, SkipComponent(c) PROVE ListsComplete'
  BY <1>5, <1>t DEF SkipComponent, ListsComplete, Editing, HasExec
<1>6. ASSUME pc \in Looping \cup Ending, pc' = pc, bundle' = bundle, input' = input,
             NEW w, NEW r, disk' = Update(w, r),
             \A c \in Plugins : <<c, "exec">> \notin w \/ c \in bundle.plugins
      PROVE  ListsComplete'
  <2>1. ASSUME NEW c \in Plugins, c \notin bundle.plugins, disk[<<c, "exec">>] = Absent
        PROVE  disk'[<<c, "exec">>] = Absent
    BY <1>6, <1>f, <2>1, UpdateFrame DEF Components
  <2>2. QED
    BY <1>6, <2>1, <1>t DEF ListsComplete, HasExec, Editing, Looping, Ending
<1>7. ASSUME NEW c \in Components, SignComponent(c) PROVE ListsComplete'
  <2>1. \A p : <<p, "exec">> \notin {<<c, "seal">>}
    OBVIOUS
  <2>2. QED
    BY <1>7, <1>6, <2>1 DEF SignComponent, Looping
<1>8. ASSUME NEW d \in Dylibs, SignDylib(d) PROVE ListsComplete'
  BY <1>8, <1>t DEF SignDylib, ListsComplete, Editing, HasExec
<1>9. CASE NextLoop
  BY <1>9, <1>t DEF NextLoop, After, ListsComplete, Editing, HasExec
<1>10. CASE PassA \/ PassB
  <2>1. PICK k \in {"tmpA", "tmpB"} : disk' = Update({<<job.bin, k>>}, {})
    BY <1>10 DEF PassA, PassB
  <2>2. \A p : <<p, "exec">> \notin {<<job.bin, k>>}
    BY <2>1
  <2>3. pc \in Looping \cup Ending
    BY <1>10, <1>t DEF LoopsInPlace, Ending, PassA, PassB
  <2>4. pc' = pc /\ bundle' = bundle /\ input' = input
    BY <1>10 DEF PassA, PassB
  <2>5. QED
    BY <2>1, <2>2, <2>3, <2>4, <1>6
<1>11. CASE PassC
  <2>1. CASE pc \in Looping
    <3>1. pc' = pc /\ bundle' = bundle /\ input' = input
      BY <1>11, <2>1 DEF PassC, Looping
    <3>2. CASE pc = "plugins"
      BY <3>1, <3>2 DEF ListsComplete, Editing
    <3>3. CASE pc # "plugins"
      <4>1. job.bin \notin Plugins
        BY <1>11, <2>1, <3>3, <1>t, NamesAssumption DEF PassC, LoopsInPlace, Looping
      <4>2. \A c \in Plugins : <<c, "exec">> \notin {<<job.bin, "exec">>}
        BY <4>1
      <4>3. QED
        BY <1>11, <2>1, <3>1, <4>2, <1>6 DEF PassC
    <3>4. QED
      BY <3>2, <3>3
  <2>2. CASE pc \notin Looping
    <3>1. pc' = "create"
      BY <1>11, <2>2, <1>t DEF PassC, LoopsInPlace
    <3>2. QED
      BY <3>1 DEF ListsComplete, Editing
  <2>3. QED
    BY <2>1, <2>2
<1>12. CASE ModifyDylibs \/ KeepDylibs \/ SealApp \/ SignMainExecutable
            \/ CreateArchive \/ WalkAndClose \/ Fail \/ Unwind
  BY <1>12 DEF ModifyDylibs, KeepDylibs, SealApp, SignMainExecutable,
     CreateArchive, WalkAndClose, Fail, Unwind, ListsComplete, Editing
<1>13. CASE UNCHANGED vars
  BY <1>13, <1>t DEF vars, ListsComplete, HasExec
<1>14. QED
  BY <1>1, <1>2, <1>3, <1>3a, <1>4, <1>5, <1>7, <1>8, <1>9, <1>10, <1>11, <1>12,
     <1>13 DEF Next, Returned

(* Nothing deletes the Info.plist of the app. *)
LEMMA IdentifierStep == SigningInvariant /\ [Next]_vars => IdentifierInPlace'
<1> SUFFICES ASSUME SigningInvariant, [Next]_vars PROVE IdentifierInPlace'
  OBVIOUS
<1>t. TypeOK /\ IdentifierInPlace /\ LoopsInPlace
  BY DEF SigningInvariant
<1>f. <<App, "info">> \in File /\ disk[<<App, "info">>] \in Version
  BY FileNames, <1>t DEF Bundles, TypeOK, Tree
<1>k. ASSUME pc \in (Editing \ {"plist"}) \cup Looping \cup Ending,
             appID' = appID, opts'.id = opts.id,
             NEW w, NEW r, disk' = Update(w, r), <<App, "info">> \notin r
      PROVE  IdentifierInPlace'
  <2>1. disk'[<<App, "info">>] # Absent
    BY <1>k, <1>f, <1>t, UpdateFrame, RewrittenType DEF IdentifierInPlace, Absent
  <2>2. QED
    BY <1>k, <2>1, <1>t DEF IdentifierInPlace
<1>1. CASE Open \/ Extract
  BY <1>1 DEF Open, Extract, IdentifierInPlace, Editing, Looping, Ending
<1>2. CASE ModifyInfoPlist
  <2>1. disk'[<<App, "info">>] = Rewritten(disk[<<App, "info">>])
    BY <1>2, <1>f, UpdateFrame DEF ModifyInfoPlist
  <2>2. disk'[<<App, "info">>] # Absent
    BY <2>1, <1>f, RewrittenType DEF Absent
  <2>3. QED
    BY <1>2, <2>2 DEF ModifyInfoPlist, IdentifierInPlace
<1>3. CASE ReplaceIcon \/ HandleProfile \/ CopyBundles
  <2>1. <<App, "info">> \notin {<<App, "assets">>} /\ <<App, "info">> \notin {<<App, "profile">>}
    OBVIOUS
  <2>2. QED
    BY <1>3, <2>1, <1>k DEF ReplaceIcon, HandleProfile, CopyBundles, Editing
<1>4. CASE CopyDylibs
  <2>1. opts'.id = opts.id
    BY <1>4, <1>t DEF CopyDylibs, TypeOK, Option
  <2>2. QED
    BY <1>4, <2>1, <1>k DEF CopyDylibs, Editing
<1>5. CASE Strip
  <2>1. App \notin Plugins \cup Nested \cup WatchApps
    BY NamesAssumption DEF Components
  <2>2. <<App, "info">> \notin FilesOf({o \in Plugins \cup Nested : opts.stripExt}
                                  \cup {o \in WatchApps : opts.stripWatch})
    BY <2>1 DEF FilesOf
  <2>3. QED
    BY <1>5, <2>2, <1>k DEF Strip, Editing
<1>6. ASSUME NEW c \in Components, SkipComponent(c) PROVE IdentifierInPlace'
  BY <1>6, <1>t DEF SkipComponent, IdentifierInPlace
<1>7. ASSUME NEW c \in Components, SignComponent(c) PROVE IdentifierInPlace'
  BY <1>7, <1>k DEF SignComponent, Looping
<1>8. ASSUME NEW d \in Dylibs, SignDylib(d) PROVE IdentifierInPlace'
  BY <1>8, <1>t DEF SignDylib, IdentifierInPlace
<1>9. CASE NextLoop
  BY <1>9, <1>t DEF NextLoop, After, IdentifierInPlace, Looping
<1>10. CASE PassA \/ PassB \/ PassC
  <2>1. pc \in Looping \cup Ending
    BY <1>10, <1>t DEF LoopsInPlace, Ending, PassA, PassB, PassC
  <2>2. <<App, "info">> \notin TempsOf(job.bin)
    BY DEF TempsOf
  <2>3. QED
    BY <1>10, <2>1, <2>2, <1>k DEF PassA, PassB, PassC
<1>11. CASE ModifyDylibs
  <2>1. <<App, "info">> \notin opts.remove \X {"root"}
    OBVIOUS
  <2>2. QED
    BY <1>11, <2>1, <1>k DEF ModifyDylibs, Ending
<1>12. CASE SealApp
  BY <1>12, <1>k DEF SealApp, Ending
<1>13. CASE KeepDylibs \/ SignMainExecutable \/ CreateArchive
  BY <1>13, <1>t DEF KeepDylibs, SignMainExecutable, CreateArchive,
     IdentifierInPlace, Ending
<1>14. CASE WalkAndClose \/ Fail \/ Unwind
  BY <1>14 DEF WalkAndClose, Fail, Unwind, IdentifierInPlace, Editing, Looping, Ending
<1>15. CASE UNCHANGED vars
  BY <1>15, <1>t DEF vars, IdentifierInPlace
<1>16. QED
  BY <1>1, <1>2, <1>3, <1>4, <1>5, <1>6, <1>7, <1>8, <1>9, <1>10, <1>11, <1>12,
     <1>13, <1>14, <1>15 DEF Next, Returned

-----------------------------------------------------------------------------
(* What was signed stays as it was. *)

(* What a bundle is sealed with is not a temporary file. *)
LEMMA InCovers ==
    ASSUME NEW b \in Sealable
    PROVE  /\ b \in Bundles /\ b \in Binary
           /\ <<b, "info">> \in Covers(b) \ TempFiles
           /\ <<b, "exec">> \in File \ TempFiles
           /\ <<b, "seal">> \in File \ TempFiles
<1>1. b \in Bundles /\ b \in Binary
  BY DEF Sealable, Bundles, Binary
<1>2. b \in Inside(b)
  BY <1>1 DEF Inside, Owner
<1>3. QED
  BY <1>1, <1>2, FileNames, TempsApart DEF Covers, FilesOf

(* A step that changes nothing but temporary files. *)
LEMMA QuietStep ==
    ASSUME NEW b \in Sealable, seal' = seal, sig' = sig,
           \A f \in File \ TempFiles : disk'[f] = disk[f]
    PROVE  /\ SealUpToDate(b) => SealUpToDate(b)'
           /\ SealedAndSigned(b) => SealedAndSigned(b)'
           /\ HasExec(b)' <=> HasExec(b)
           /\ disk'[<<b, "info">>] = disk[<<b, "info">>]
           /\ disk'[<<b, "seal">>] = disk[<<b, "seal">>]
<1>1. Covers(b) \subseteq File
  BY DEF Covers, FilesOf
<1>2. SealUpToDate(b) => SealUpToDate(b)'
  BY <1>1, SealKept
<1>3. /\ disk'[<<b, "info">>] = disk[<<b, "info">>]
      /\ disk'[<<b, "seal">>] = disk[<<b, "seal">>]
      /\ HasExec(b)' <=> HasExec(b)
  BY <1>1, InCovers DEF HasExec
<1>4. QED
  BY <1>2, <1>3 DEF SealedAndSigned

(* A step that writes files outside a component that it does not sign. *)
LEMMA WriteStep ==
    ASSUME NEW c \in Components, NEW w, NEW r, disk' = Update(w, r),
           seal'[c] = seal[c], sig'[c] = sig[c],
           \A f \in w \cup r : \/ f \in TempFiles
                               \/ f \notin Covers(c) \cup {<<c, "exec">>, <<c, "seal">>}
    PROVE  /\ SealedAndSigned(c) => SealedAndSigned(c)'
           /\ HasExec(c)' <=> HasExec(c)
<1>1. c \in Sealable /\ Covers(c) \subseteq File
  BY DEF Sealable, Covers, FilesOf
<1>2. ASSUME NEW f \in (Covers(c) \cup {<<c, "exec">>, <<c, "seal">>}) \ TempFiles
      PROVE  disk'[f] = disk[f]
  <2>1. f \in File /\ f \notin w /\ f \notin r
    BY <1>1, InCovers
  <2>2. QED
    BY <2>1, UpdateFrame
<1>3. SealUpToDate(c) => SealUpToDate(c)'
  BY <1>2, SealKept
<1>4. QED
  BY <1>1, <1>2, <1>3, InCovers DEF SealedAndSigned, HasExec

(* The names of a component are its own. *)
LEMMA ComponentNames ==
    ASSUME NEW c \in Components
    PROVE  c \in Sealable /\ c \in Binary /\ c # App /\ c \notin Dylibs
BY NamesAssumption DEF Components, Sealable, Binary

(* What a loop still has to sign, it is not past. *)
LEMMA NotPassed ==
    ASSUME LoopsInPlace, pc \in Looping, NEW x \in todo
    PROVE  ~Passed(x)
BY NamesAssumption DEF LoopsInPlace, Looping, Ending, Passed

(* The part of the invariant about what was signed. *)
LEMMA SigningStep == SigningInvariant /\ [Next]_vars => SigningInPlace'
<1> SUFFICES ASSUME SigningInvariant, [Next]_vars PROVE SigningInPlace'
  OBVIOUS
<1>t. /\ TypeOK /\ LoopsInPlace /\ TempsInPlace /\ ListsComplete
      /\ IdentifierInPlace /\ SigningInPlace
  BY DEF SigningInvariant
<1>r. pc \notin {"unwind", "returned"} => result # "ok"
  BY <1>t DEF SigningInPlace
<1>i. job.stage = "idle" /\ pc \in Editing \cup Looping \cup Ending =>
         \A f \in TempFiles : disk[f] = Absent
  BY <1>t DEF TempsInPlace
<1>1. CASE Open \/ Extract \/ ModifyInfoPlist \/ ReplaceIcon \/ HandleProfile
           \/ CopyBundles \/ CopyDylibs
  <2>1. /\ pc' \in {"extract"} \cup Editing /\ job' = job /\ job.stage = "idle"
        /\ result' # "ok"
    BY <1>1, <1>t, <1>r DEF Open, Extract, ModifyInfoPlist, ReplaceIcon,
       HandleProfile, CopyBundles, CopyDylibs, Editing, LoopsInPlace, Looping
  <2>2. QED
    BY <2>1 DEF SigningInPlace, Passed, Editing, Ending
<1>2. CASE Strip
  <2>1. /\ pc' = "frameworks" /\ job' = job /\ job.stage = "idle"
        /\ result' # "ok" /\ todo' = bundle.frameworks
        /\ bundle = Discover(input.tree)
        /\ \A c \in Components : disk[<<c, "exec">>] = input.tree[<<c, "exec">>]
    BY <1>2, <1>t, <1>r DEF Strip, LoopsInPlace, Looping, ListsComplete, Editing
  <2>2. ASSUME NEW c \in Components, Passed(c)' PROVE ~HasExec(c)'
    <3>1. c \in Frameworks /\ c \notin Discover(input.tree).frameworks
      BY <2>1, <2>2 DEF Passed, Ending, Components
    <3>2. c \in Sealable
      BY DEF Sealable
    <3>3. disk[<<c, "exec">>] = Absent
      BY <2>1, <3>1, <3>2, InCovers DEF Discover, Ships
    <3>4. disk'[<<c, "exec">>] = Absent
      BY <1>2, <3>2, <3>3, InCovers, UpdateFrame DEF Strip
    <3>5. QED
      BY <3>4 DEF HasExec
  <2>3. \A d \in Dylibs : ~Passed(d)'
    BY <2>1, NamesAssumption DEF Passed, Ending
  <2>4. QED
    BY <2>1, <2>2, <2>3 DEF SigningInPlace
<1>3. ASSUME NEW c \in Components, SkipComponent(c) PROVE SigningInPlace'
  <2>1. /\ pc' = pc /\ pc \in {"frameworks", "plugins"} /\ job' = job
        /\ job.stage = "idle" /\ result' # "ok" /\ todo' = todo \ {c}
        /\ ~HasExec(c) /\ disk' = disk /\ seal' = seal /\ sig' = sig
        /\ input' = input
    BY <1>3, <1>r DEF SkipComponent
  <2>2. ASSUME NEW x, Passed(x)' PROVE Passed(x) \/ x = c
    BY <2>1, <2>2 DEF Passed, Ending
  <2>3. ASSUME NEW x \in Components, Passed(x)', HasExec(x)'
        PROVE  SealedAndSigned(x)'
    <3>1. HasExec(x) /\ x # c
      BY <2>1, <2>3 DEF HasExec
    <3>2. SealedAndSigned(x)
      BY <3>1, <2>2, <2>3, <1>t DEF SigningInPlace
    <3>3. QED
      BY <3>2, <2>1, QuietStep, ComponentNames
  <2>4. ASSUME NEW d \in Dylibs, Passed(d)', input.tree[<<d, "exec">>] # Absent
        PROVE  sig[d].by = "identity"
    BY <2>2, <2>4, <1>t, ComponentNames DEF SigningInPlace
  <2>5. QED
    BY <2>1, <2>3, <2>4 DEF SigningInPlace
<1>4. ASSUME NEW c \in Components, SignComponent(c) PROVE SigningInPlace'
  <2>1. /\ pc' = pc /\ pc \in {"frameworks", "plugins"} /\ job.stage = "idle"
        /\ result' # "ok" /\ todo' = todo /\ c \in todo /\ sig' = sig
        /\ input' = input /\ disk' = Update({<<c, "seal">>}, {})
        /\ seal' = [seal EXCEPT ![c] = Generate(c, disk)]
        /\ job'.bin = c /\ job'.info = Slots(c).info /\ job'.res = Slots(c).res
    BY <1>4, <1>r DEF SignComponent
  <2>2. \A x : Passed(x)' <=> Passed(x)
    BY <2>1 DEF Passed
  <2>3. ~Passed(c)
    BY <2>1, <1>t, NotPassed DEF Looping
  <2>4. <<c, "seal">> \in File /\ <<c, "info">> \in File
    BY ComponentNames, InCovers DEF Covers, FilesOf
  <2>5. ASSUME NEW x \in Components, Passed(x)', HasExec(x)'
        PROVE  SealedAndSigned(x)'
    <3>1. x # c /\ x \in Sealable /\ c \in Sealable
      BY <2>2, <2>3, <2>5, ComponentNames
    <3>2. /\ seal'[x] = seal[x]
          /\ <<c, "seal">> \notin Covers(x) \cup {<<x, "exec">>, <<x, "seal">>}
      BY <2>1, <3>1, <1>t, CoversApart DEF TypeOK
    <3>3. /\ SealedAndSigned(x) => SealedAndSigned(x)'
          /\ HasExec(x)' <=> HasExec(x)
      BY <2>1, <3>2, WriteStep
    <3>4. QED
      BY <2>2, <2>5, <3>3, <1>t DEF SigningInPlace
  <2>6. SealUpToDate(c)'
    <3>1. \A f \in TempFiles : disk[f] = Absent
      BY <2>1, <1>i DEF Looping
    <3>2. seal'[c] = Generate(c, disk)
      BY <2>1, <1>t, ComponentNames DEF TypeOK
    <3>3. \A f \in Covers(c) : f \in File /\ f # <<c, "seal">>
      BY DEF Covers, FilesOf
    <3>4. \A f \in Covers(c) : disk'[f] = disk[f]
      BY <2>1, <3>3, UpdateFrame
    <3>5. QED
      BY <3>1, <3>2, <3>4, <1>t, SealMade DEF TypeOK
  <2>7. job'.info = disk'[<<c, "info">>] /\ job'.res = disk'[<<c, "seal">>]
    BY <2>1, <2>4, UpdateFrame DEF Slots
  <2>8. QED
    BY <2>1, <2>2, <2>5, <2>6, <2>7, <1>t, ComponentNames DEF SigningInPlace
<1>5. ASSUME NEW d \in Dylibs, SignDylib(d) PROVE SigningInPlace'
  <2>1. /\ pc' = pc /\ pc = "dylibs" /\ result' # "ok" /\ todo' = todo
        /\ disk' = disk /\ seal' = seal /\ sig' = sig /\ input' = input
        /\ job'.bin = d
    BY <1>5, <1>r DEF SignDylib
  <2>2. \A x : Passed(x)' <=> Passed(x)
    BY <2>1 DEF Passed
  <2>3. d \notin Sealable
    BY NamesAssumption DEF Sealable, Components
  <2>4. \A x \in Components : Passed(x)' /\ HasExec(x)' => SealedAndSigned(x)'
    BY <2>1, <2>2, <1>t, QuietStep, ComponentNames DEF SigningInPlace
  <2>5. QED
    BY <2>1, <2>2, <2>3, <2>4, <1>t DEF SigningInPlace
<1>6. CASE NextLoop
  <2>1. /\ \/ pc = "frameworks" /\ pc' = "dylibs" /\ todo' = bundle.dylibs
           \/ pc = "dylibs" /\ pc' = "plugins" /\ todo' = bundle.plugins
           \/ pc = "plugins" /\ pc' = "modify" /\ todo' = {}
        /\ todo = {} /\ job' = job /\ job.stage = "idle" /\ result' # "ok"
        /\ disk' = disk /\ seal' = seal /\ sig' = sig /\ input' = input
    BY <1>6, <1>r DEF NextLoop, After
  <2>2. ASSUME NEW c \in Components, Passed(c)', HasExec(c)'
        PROVE  SealedAndSigned(c)'
    <3>1. HasExec(c)
      BY <2>1, <2>2 DEF HasExec
    <3>2. Passed(c)
      BY <2>1, <2>2, <3>1, <1>t, ComponentNames, NamesAssumption
         DEF Passed, Ending, Components, ListsComplete
    <3>3. QED
      BY <2>1, <3>1, <3>2, <1>t, QuietStep, ComponentNames DEF SigningInPlace
  <2>3. ASSUME NEW d \in Dylibs, Passed(d)', input.tree[<<d, "exec">>] # Absent
        PROVE  sig[d].by = "identity"
    <3>1. Passed(d)
      BY <2>1, <2>3, <1>t, NamesAssumption
         DEF Passed, Ending, ListsComplete, Discover, Components
    <3>2. QED
      BY <2>3, <3>1, <1>t DEF SigningInPlace
  <2>4. QED
    BY <2>1, <2>2, <2>3 DEF SigningInPlace
<1>7. CASE ModifyDylibs
  <2>1. /\ pc = "modify" /\ pc' = "seal" /\ job' = job /\ job.stage = "idle"
        /\ result' # "ok" /\ seal' = seal /\ input' = input
        /\ disk' = Update({<<App, "exec">>}, opts.remove \X {"root"})
        /\ sig' = [sig EXCEPT ![App].by = "nobody"]
    BY <1>7, <1>r, <1>t DEF ModifyDylibs, LoopsInPlace, Looping
  <2>2. \A x : x # App /\ x \in Binary => sig'[x] = sig[x]
    BY <2>1, <1>t DEF TypeOK
  <2>3. ASSUME NEW c \in Components, HasExec(c)' PROVE SealedAndSigned(c)'
    <3>1. /\ c # App /\ c \in Binary /\ App \in Binary
          /\ opts.remove \subseteq Dylibs
      BY <1>t, ComponentNames DEF TypeOK, Option, Binary
    <3>2. \A f \in {<<App, "exec">>} \cup (opts.remove \X {"root"}) :
             f \notin Covers(c) \cup {<<c, "exec">>, <<c, "seal">>}
      BY <3>1, CoversApart
    <3>3. /\ SealedAndSigned(c) => SealedAndSigned(c)'
          /\ HasExec(c)' <=> HasExec(c)
      BY <2>1, <2>2, <3>1, <3>2, WriteStep
    <3>4. QED
      BY <2>1, <2>3, <3>3, <1>t DEF SigningInPlace, Passed, Ending
  <2>4. \A d \in Dylibs : input.tree[<<d, "exec">>] # Absent => sig'[d].by = "identity"
    BY <2>1, <2>2, <1>t, NamesAssumption DEF SigningInPlace, Passed, Ending, Binary
  <2>5. QED
    BY <2>1, <2>3, <2>4 DEF SigningInPlace
<1>8. CASE KeepDylibs \/ CreateArchive
  <2>1. /\ pc \in Ending /\ pc' \in {"seal", "walk"} /\ job' = job
        /\ result' # "ok" /\ job.stage = "idle"
        /\ pc' = "walk" => pc = "create"
        /\ disk' = disk /\ seal' = seal /\ sig' = sig /\ input' = input
        /\ appID' = appID
    BY <1>8, <1>r, <1>t DEF KeepDylibs, CreateArchive, Ending, LoopsInPlace, Looping
  <2>2. \A b \in Sealable : SealedAndSigned(b) => SealedAndSigned(b)'
    BY <2>1, QuietStep
  <2>3. \A c \in Components : HasExec(c)' => SealedAndSigned(c)'
    BY <2>1, <2>2, <1>t, ComponentNames DEF SigningInPlace, Passed, HasExec
  <2>4. \A d \in Dylibs : input.tree[<<d, "exec">>] # Absent => sig[d].by = "identity"
    BY <2>1, <1>t DEF SigningInPlace, Passed
  <2>5. App \in Sealable
    BY DEF Sealable
  <2>6. QED
    BY <2>1, <2>2, <2>3, <2>4, <2>5, <1>t DEF SigningInPlace
<1>9. CASE SealApp
  <2>1. /\ pc = "seal" /\ pc' = "main" /\ job' = job /\ job.stage = "idle"
        /\ result' # "ok" /\ sig' = sig /\ input' = input
        /\ disk' = Update({<<App, "seal">>}, {})
        /\ seal' = [seal EXCEPT ![App] = Generate(App, disk)]
        /\ crData' = Rewritten(disk[<<App, "seal">>])
    BY <1>9, <1>r, <1>t DEF SealApp, LoopsInPlace, Looping
  <2>2. App \in Sealable
    BY DEF Sealable
  <2>3. ASSUME NEW c \in Components, HasExec(c)' PROVE SealedAndSigned(c)'
    <3>1. /\ seal'[c] = seal[c]
          /\ <<App, "seal">> \notin Covers(c) \cup {<<c, "exec">>, <<c, "seal">>}
      BY <2>1, <2>2, <1>t, ComponentNames, CoversApart DEF TypeOK
    <3>2. /\ SealedAndSigned(c) => SealedAndSigned(c)'
          /\ HasExec(c)' <=> HasExec(c)
      BY <2>1, <3>1, WriteStep
    <3>3. QED
      BY <2>1, <2>3, <3>2, <1>t DEF SigningInPlace, Passed, Ending
  <2>4. SealUpToDate(App)'
    <3>1. \A f \in TempFiles : disk[f] = Absent
      BY <2>1, <1>i DEF Ending
    <3>2. \A f \in Covers(App) : f \in File /\ f # <<App, "seal">>
      BY DEF Covers, FilesOf
    <3>3. \A f \in Covers(App) : disk'[f] = disk[f]
      BY <2>1, <3>2, UpdateFrame
    <3>4. QED
      BY <2>1, <2>2, <3>1, <3>3, <1>t, SealMade DEF TypeOK
  <2>5. crData' = disk'[<<App, "seal">>]
    <3>1. <<App, "seal">> \in File
      BY <2>2, InCovers
    <3>2. QED
      BY <2>1, <3>1, UpdateFrame
  <2>6. \A d \in Dylibs : input.tree[<<d, "exec">>] # Absent => sig[d].by = "identity"
    BY <2>1, <1>t DEF SigningInPlace, Passed, Ending
  <2>7. QED
    BY <2>1, <2>3, <2>4, <2>5, <2>6 DEF SigningInPlace
<1>10. CASE SignMainExecutable
  <2>1. /\ pc = "main" /\ pc' = pc /\ result' # "ok"
        /\ disk' = disk /\ seal' = seal /\ sig' = sig /\ input' = input
        /\ appID' = appID /\ crData' = crData /\ todo' = todo
        /\ job'.bin = App /\ job'.info = disk[<<App, "info">>] /\ job'.res = crData
        /\ job'.ident = BundleIdentifier(opts.id, disk[<<App, "info">>], appID)
    BY <1>10, <1>r DEF SignMainExecutable
  <2>2. job'.ident = appID
    BY <2>1, <1>t DEF IdentifierInPlace, BundleIdentifier, Ending
  <2>3. App \in Sealable /\ SealUpToDate(App) /\ crData = disk[<<App, "seal">>]
    BY <2>1, <1>t DEF SigningInPlace, Sealable
  <2>4. SealUpToDate(App)'
    BY <2>1, <2>3, QuietStep
  <2>5. \A c \in Components : HasExec(c)' => SealedAndSigned(c)'
    BY <2>1, <1>t, QuietStep, ComponentNames DEF SigningInPlace, Passed, Ending
  <2>6. \A d \in Dylibs : input.tree[<<d, "exec">>] # Absent => sig[d].by = "identity"
    BY <2>1, <1>t DEF SigningInPlace, Passed, Ending
  <2>7. QED
    BY <2>1, <2>2, <2>3, <2>4, <2>5, <2>6 DEF SigningInPlace
<1>11. CASE PassA \/ PassB
  <2>1. /\ \E k \in {"tmpA", "tmpB"} : disk' = Update({<<job.bin, k>>}, {})
        /\ pc' = pc /\ todo' = todo /\ seal' = seal /\ sig' = sig
        /\ input' = input /\ appID' = appID /\ crData' = crData
        /\ job.stage # "idle" /\ job'.bin = job.bin /\ job'.info = job.info
        /\ job'.res = job.res /\ job'.ident = job.ident /\ result' = result
    BY <1>11, <1>t DEF PassA, PassB, TypeOK, Job
  <2>2. result' # "ok" /\ pc \in Looping \cup {"main"}
    BY <2>1, <1>r, <1>t DEF LoopsInPlace, Looping
  <2>3. \A f \in File \ TempFiles : disk'[f] = disk[f]
    <3>1. PICK k \in {"tmpA", "tmpB"} : disk' = Update({<<job.bin, k>>}, {})
      BY <2>1
    <3>2. <<job.bin, k>> \in TempFiles
      BY <1>t DEF TypeOK, Job, TempFiles
    <3>3. QED
      BY <3>1, <3>2, UpdateFrame
  <2>4. \A b \in Sealable :
           /\ SealUpToDate(b) => SealUpToDate(b)'
           /\ SealedAndSigned(b) => SealedAndSigned(b)'
           /\ HasExec(b)' <=> HasExec(b)
           /\ disk'[<<b, "info">>] = disk[<<b, "info">>]
           /\ disk'[<<b, "seal">>] = disk[<<b, "seal">>]
    BY <2>1, <2>3, QuietStep
  <2>5. \A x : Passed(x)' <=> Passed(x)
    BY <2>1 DEF Passed
  <2>6. \A c \in Components : Passed(c)' /\ HasExec(c)' => SealedAndSigned(c)'
    BY <2>4, <2>5, <1>t, ComponentNames DEF SigningInPlace
  <2>7. App \in Sealable
    BY DEF Sealable
  <2>8. job'.bin \in Sealable =>
          /\ SealUpToDate(job.bin)'
          /\ job'.info = disk'[<<job.bin, "info">>]
          /\ job'.res = disk'[<<job.bin, "seal">>]
          /\ job.bin = App => job'.ident = appID
    BY <2>1, <2>4, <1>t DEF SigningInPlace
  <2>9. QED
    <3>2. \A d \in Dylibs : Passed(d)' /\ input'.tree[<<d, "exec">>] # Absent
                            => sig'[d].by = "identity"
      BY <2>1, <2>5, <1>t DEF SigningInPlace
    <3>3. pc' = "main" => SealUpToDate(App)' /\ crData' = disk'[<<App, "seal">>]
      BY <2>1, <2>4, <2>7, <1>t DEF SigningInPlace
    <3>4. QED
      BY <2>1, <2>2, <2>6, <2>8, <3>2, <3>3 DEF SigningInPlace, Looping
<1>12. CASE PassC
  <2>0. PICK b : b = job.bin
    OBVIOUS
  <2>1. /\ disk' = Update({<<b, "exec">>}, TempsOf(b))
        /\ todo' = todo \ {b} /\ job.stage # "idle" /\ job'.stage = "idle"
        /\ sig' = [sig EXCEPT ![b] =
                     [by |-> "identity", ident |-> job.ident, info |-> job.info,
                      res |-> job.res, ents |-> job.ents, der |-> job.der,
                      main |-> job.main]]
        /\ seal' = seal /\ input' = input /\ appID' = appID /\ result' = result
        /\ pc' = IF pc = "main" THEN "create" ELSE pc
    BY <1>12, <2>0 DEF PassC, IdleJob
  <2>2. b \in Binary
    BY <1>t, <2>0 DEF TypeOK, Job
  <2>3. /\ \/ pc \in Looping /\ b \in todo /\ ~Passed(b)
           \/ pc = "main" /\ b = App
        /\ result' # "ok"
    BY <2>0, <2>1, <1>t, <1>r, NotPassed DEF LoopsInPlace, Looping
  <2>4. \A x : Passed(x)' => Passed(x) \/ x = b
    BY <2>1, <2>3 DEF Passed, Ending, Looping
  <2>5. /\ sig'[b].by = "identity" /\ sig'[b].info = job.info
        /\ sig'[b].res = job.res /\ sig'[b].ident = job.ident
        /\ \A x \in Binary : x # b => sig'[x] = sig[x]
    BY <2>1, <2>2, <1>t DEF TypeOK
  <2>6. ASSUME b \in Sealable
        PROVE  SealedAndSigned(b)' /\ (b = App => sig'[b].ident = appID')
    <3>1. /\ SealUpToDate(b) /\ job.info = disk[<<b, "info">>]
          /\ job.res = disk[<<b, "seal">>]
          /\ b = App => job.ident = appID
      BY <2>0, <2>1, <2>6, <1>t DEF SigningInPlace
    <3>2. \A f \in File \ TempFiles : f # <<b, "exec">> => disk'[f] = disk[f]
      BY <2>1, <2>2, TempsApart, UpdateFrame
    <3>3. /\ disk'[<<b, "info">>] = disk[<<b, "info">>]
          /\ disk'[<<b, "seal">>] = disk[<<b, "seal">>]
      BY <2>6, <3>2, InCovers DEF Covers, FilesOf
    <3>4. \A f \in Covers(b) \ TempFiles : disk'[f] = disk[f]
      BY <3>2 DEF Covers, FilesOf
    <3>5. SealUpToDate(b)'
      BY <2>1, <3>1, <3>4, SealKept
    <3>6. QED
      BY <2>1, <2>5, <3>1, <3>3, <3>5 DEF SealedAndSigned
  <2>7. ASSUME NEW c \in Components, c # b, Passed(c)', HasExec(c)'
        PROVE  SealedAndSigned(c)'
    <3>1. /\ seal'[c] = seal[c] /\ sig'[c] = sig[c]
      BY <2>1, <2>5, <2>7, ComponentNames
    <3>2. \A f \in {<<b, "exec">>} \cup TempsOf(b) :
            \/ f \in TempFiles
            \/ f \notin Covers(c) \cup {<<c, "exec">>, <<c, "seal">>}
      BY <2>2, <2>7, CoversApart, TempsApart
    <3>3. /\ SealedAndSigned(c) => SealedAndSigned(c)'
          /\ HasExec(c)' <=> HasExec(c)
      BY <2>1, <3>1, <3>2, WriteStep
    <3>4. QED
      BY <2>4, <2>7, <3>3, <1>t DEF SigningInPlace
  <2>8. ASSUME NEW d \in Dylibs, Passed(d)', input.tree[<<d, "exec">>] # Absent
        PROVE  sig'[d].by = "identity"
    BY <2>4, <2>5, <2>8, <1>t DEF SigningInPlace, Binary
  <2>9. pc' # "main" /\ (pc' \in {"create", "walk"} => b = App)
    BY <2>1, <2>3 DEF Looping
  <2>10. QED
    BY <2>1, <2>3, <2>6, <2>7, <2>8, <2>9, ComponentNames DEF SigningInPlace, Sealable
<1>13. CASE WalkAndClose
  <2>1. /\ pc = "walk" /\ pc' = "unwind" /\ job' = job /\ job.stage = "idle"
        /\ archive'.tree = disk /\ seal' = seal /\ sig' = sig
        /\ input' = input /\ appID' = appID
    BY <1>13, <1>t DEF WalkAndClose, LoopsInPlace, Looping
  <2>2. Settled = disk
    BY <2>1, <1>i, <1>t, SettledWhenIdle DEF TypeOK, Ending
  <2>3. ASSUME NEW s \in Sealable, HasExec(s) PROVE SealedAndSigned(s)
    <3>1. s = App \/ s \in Components
      BY DEF Sealable
    <3>2. QED
      BY <2>1, <2>3, <3>1, <1>t DEF SigningInPlace, Passed, Ending
  <2>4. sig[App].ident = appID
    BY <2>1, <1>t DEF SigningInPlace
  <2>5. SealsMatch(disk) /\ SlotsMatch(disk)
    BY <2>2, <2>3, <2>4 DEF SealsMatch, SlotsMatch, SealedAndSigned, SealUpToDate, HasExec
  <2>6. CodeSigned(disk)
    <3>1. SUFFICES ASSUME NEW x \in Binary, input.tree[<<x, "exec">>] # Absent,
                          HasExec(x)
                   PROVE  sig[x].by = "identity"
      BY DEF CodeSigned, HasExec
    <3>2. CASE x \in Sealable
      BY <2>3, <3>1, <3>2 DEF SealedAndSigned
    <3>3. CASE x \in Dylibs
      BY <2>1, <3>1, <3>3, <1>t DEF SigningInPlace, Passed, Ending
    <3>4. QED
      BY <3>2, <3>3 DEF Binary, Sealable
  <2>7. SealsMatch(archive.tree)' /\ SlotsMatch(archive.tree)' /\ CodeSigned(archive.tree)'
    BY <2>1, <2>5, <2>6 DEF SealsMatch, SlotsMatch, CodeSigned, Generate, Covers,
       FilesOf, Inside
  <2>8. QED
    BY <2>1, <2>7 DEF SigningInPlace, Passed, Ending
<1>14. CASE Fail
  BY <1>14 DEF Fail, IdleJob, SigningInPlace, Passed, Ending
<1>15. CASE Unwind \/ UNCHANGED vars
  <2>1. /\ archive' = archive /\ seal' = seal /\ sig' = sig /\ input' = input
        /\ appID' = appID /\ result' = result /\ job' = job
    BY <1>15 DEF Unwind, vars
  <2>2. CASE Unwind
    <3>1. /\ pc' = "returned" /\ job.stage = "idle"
      BY <2>2, <1>t DEF Unwind, LoopsInPlace, Looping
    <3>2. result' = "ok" => /\ SealsMatch(archive.tree)'
                           /\ SlotsMatch(archive.tree)'
                           /\ CodeSigned(archive.tree)'
      BY <2>1, <1>t DEF SigningInPlace, SealsMatch, SlotsMatch, CodeSigned,
         Generate, Covers, FilesOf, Inside
    <3>3. QED
      BY <2>1, <3>1, <3>2 DEF SigningInPlace, Passed, Ending
  <2>3. CASE UNCHANGED vars
    BY <2>3, <1>t DEF vars, SigningInPlace, Passed, SealedAndSigned, SealUpToDate,
       HasExec, Settled, SealsMatch, SlotsMatch, CodeSigned
  <2>4. QED
    BY <1>15, <2>2, <2>3
<1>16. QED
  BY <1>1, <1>2, <1>3, <1>4, <1>5, <1>6, <1>7, <1>8, <1>9, <1>10, <1>11, <1>12,
     <1>13, <1>14, <1>15 DEF Next, Returned

-----------------------------------------------------------------------------
(***************************************************************************)
(* The theorems: whatever the app, the IPA and the options, an archive     *)
(* that Resign reports as good has seals and signatures over the very      *)
(* files that are in it, and all received code is signed.                  *)
(***************************************************************************)

(* Every bundle signed so far is sealed over the tree as it is now. *)
THEOREM SigningIsKept == Spec => []SigningInvariant
<1>1. SigningInvariant /\ [Next]_vars => SigningInvariant'
  BY TypeStep, LoopsStep, TempsStep, ListsStep, IdentifierStep, SigningStep
     DEF SigningInvariant
<1>2. QED
  BY InitInvariant, <1>1, PTL DEF Spec

(* The invariant says of the archive what the properties say. *)
LEMMA InvariantSuffices ==
    SigningInvariant => SealsMatchArchive /\ SlotsMatchArchive /\ ReceivedCodeIsSigned
BY DEF SigningInvariant, SigningInPlace, SealsMatchArchive, SlotsMatchArchive,
   ReceivedCodeIsSigned, Shipped

(* Every CodeResources in the archive records the files that are in it. *)
THEOREM SealsAreRight == Spec => []SealsMatchArchive
BY SigningIsKept, InvariantSuffices, PTL

(* Every signature in the archive hashes the Info.plist and the            *)
(* CodeResources that are in it.                                           *)
THEOREM SlotsAreRight == Spec => []SlotsMatchArchive
BY SigningIsKept, InvariantSuffices, PTL

(* All the code of the IPA that is shipped is signed. *)
THEOREM ReceivedCodeSigned == Spec => []ReceivedCodeIsSigned
BY SigningIsKept, InvariantSuffices, PTL

-----------------------------------------------------------------------------
(***************************************************************************)
(* The order: Resign implements PostOrderSigning.                          *)
(***************************************************************************)

(***************************************************************************)
(* What the order of the steps adds to SigningInvariant: Resign has not    *)
(* returned before its end, the app is signed last, and the components     *)
(* that have to be signed stay on disk until it is.                        *)
(***************************************************************************)
OrderInPlace ==
    /\ result # "none" => pc \in {"unwind", "returned"}
    /\ sig[App].by = "identity" => pc \in {"create", "walk", "unwind", "returned"}
    /\ pc \in Looping \cup Ending => \A c \in Components \cap Plan : HasExec(c)

(* Before the first step nothing is signed by the identity. *)
LEMMA InitOrder == Init => OrderInPlace
BY DEF Init, OrderInPlace, InputSignature, Binary, Looping, Ending

(* What has to be signed does not change while Resign runs. *)
LEMMA PlanFixed == TypeOK /\ [Next]_vars => Plan' = Plan
<1> SUFFICES ASSUME TypeOK, [Next]_vars PROVE Plan' = Plan
  OBVIOUS
<1>1. input' = input /\ (opts' = opts \/ CopyDylibs)
  BY DEF Next, vars, Open, Extract, ModifyInfoPlist, ReplaceIcon, HandleProfile,
     CopyBundles, CopyDylibs, Strip, SkipComponent, SignComponent, SignDylib,
     NextLoop, ModifyDylibs, KeepDylibs, SealApp, SignMainExecutable, PassA,
     PassB, PassC, CreateArchive, WalkAndClose, Fail, Unwind, Returned
<1>2. opts'.stripExt = opts.stripExt
  BY <1>1 DEF CopyDylibs, TypeOK, Option
<1>3. QED
  BY <1>1, <1>2 DEF Plan

(* Each step keeps the order: no component loses its executable once its   *)
(* loop has begun, and the app is signed last.                             *)
LEMMA OrderStep == SigningInvariant /\ OrderInPlace /\ [Next]_vars => OrderInPlace'
<1> SUFFICES ASSUME SigningInvariant, OrderInPlace, [Next]_vars PROVE OrderInPlace'
  OBVIOUS
<1>t. TypeOK /\ LoopsInPlace /\ ListsComplete /\ Plan' = Plan
  BY PlanFixed DEF SigningInvariant
<1>f. \A c \in Components : /\ <<c, "exec">> \in File /\ disk[<<c, "exec">>] \in Version
                           /\ c # App /\ c \notin Dylibs /\ c \notin Nested
                           /\ c \notin WatchApps
  BY <1>t, FileNames, NamesAssumption DEF Bundles, Components, TypeOK, Tree
(* Where the executables of components stay. *)
<1>k. ASSUME NEW w, NEW r, disk' = Update(w, r),
             \A c \in Components \cap Plan : <<c, "exec">> \notin r
      PROVE  \A c \in Components \cap Plan : HasExec(c) => HasExec(c)'
  <2>1. SUFFICES ASSUME NEW c \in Components \cap Plan, disk[<<c, "exec">>] # Absent
                 PROVE  disk'[<<c, "exec">>] # Absent
    BY DEF HasExec
  <2>2. Rewritten(disk[<<c, "exec">>]) # Absent
    BY <1>f, RewrittenType DEF Absent
  <2>3. /\ <<c, "exec">> \in File /\ <<c, "exec">> \notin r
    BY <1>f, <1>k
  <2>4. QED
    BY <1>k, <2>1, <2>2, <2>3, UpdateFrame
<1>1. CASE Open \/ Extract \/ ModifyInfoPlist \/ ReplaceIcon \/ HandleProfile
           \/ CopyBundles \/ CopyDylibs
  BY <1>1 DEF OrderInPlace, Looping, Ending, Open, Extract, ModifyInfoPlist,
     ReplaceIcon, HandleProfile, CopyBundles, CopyDylibs
<1>2. CASE Strip
  <2>1. ASSUME NEW c \in Components \cap Plan PROVE HasExec(c)'
    <3>1. disk[<<c, "exec">>] # Absent
      BY <1>2, <1>t DEF Strip, ListsComplete, Editing, Plan
    <3>2. <<c, "exec">> \notin FilesOf({o \in Plugins \cup Nested : opts.stripExt}
                                  \cup {o \in WatchApps : opts.stripWatch})
      BY <1>f DEF FilesOf, Plan
    <3>3. QED
      BY <1>2, <1>f, <3>1, <3>2, UpdateFrame DEF Strip, HasExec
  <2>2. QED
    BY <1>2, <1>t, <2>1 DEF Strip, OrderInPlace
<1>3. ASSUME NEW c \in Components, SkipComponent(c) PROVE OrderInPlace'
  BY <1>3, <1>t DEF SkipComponent, OrderInPlace, HasExec
<1>4. ASSUME NEW c \in Components, SignComponent(c) PROVE OrderInPlace'
  BY <1>4, <1>t, <1>k DEF SignComponent, OrderInPlace, Looping
<1>5. ASSUME NEW d \in Dylibs, SignDylib(d) PROVE OrderInPlace'
  BY <1>5, <1>t DEF SignDylib, OrderInPlace, HasExec
<1>6. CASE NextLoop
  BY <1>6, <1>t DEF NextLoop, After, OrderInPlace, Looping, HasExec
<1>7. CASE ModifyDylibs
  <2>1. App \in Binary /\ sig'[App].by # "identity"
    BY <1>7, <1>t DEF ModifyDylibs, TypeOK, Binary, Signature
  <2>2. \A c : <<c, "exec">> \notin opts.remove \X {"root"}
    OBVIOUS
  <2>3. \A c \in Components \cap Plan : HasExec(c) => HasExec(c)'
    BY <1>7, <1>k, <2>2 DEF ModifyDylibs
  <2>4. QED
    BY <1>7, <1>t, <2>1, <2>3 DEF ModifyDylibs, OrderInPlace, Ending
<1>8. CASE KeepDylibs \/ SignMainExecutable \/ CreateArchive
  BY <1>8, <1>t DEF KeepDylibs, SignMainExecutable, CreateArchive, OrderInPlace,
     Ending, HasExec
<1>9. CASE SealApp
  BY <1>9, <1>t, <1>k DEF SealApp, OrderInPlace, Ending
<1>10. CASE PassA \/ PassB
  <2>1. pc \in Looping \cup Ending
    BY <1>10, <1>t DEF PassA, PassB, LoopsInPlace, Ending
  <2>2. QED
    BY <1>10, <1>t, <1>k, <2>1 DEF PassA, PassB, OrderInPlace
<1>11. CASE PassC
  <2>1. \/ pc \in Looping
        \/ pc = "main" /\ job.bin = App
    BY <1>11, <1>t DEF PassC, LoopsInPlace
  <2>2. pc \in Looping => job.bin # App
    <3>1. App \notin todo
      BY <1>t, NamesAssumption DEF TypeOK
    <3>2. QED
      BY <1>11, <1>t, <3>1 DEF PassC, LoopsInPlace, Looping
  <2>3. App \in Binary
    BY DEF Binary
  <2>4. job.bin # App => sig'[App] = sig[App]
    BY <1>11, <1>t, <2>3 DEF PassC, TypeOK
  <2>5. \A c \in Components \cap Plan : <<c, "exec">> \notin TempsOf(job.bin)
    BY DEF TempsOf
  <2>6. \A c \in Components \cap Plan : HasExec(c) => HasExec(c)'
    BY <1>11, <1>k, <2>5 DEF PassC
  <2>7. QED
    BY <1>11, <1>t, <2>1, <2>2, <2>4, <2>6 DEF PassC, OrderInPlace, Looping, Ending
<1>12. CASE WalkAndClose \/ Fail \/ Unwind
  <2>1. sig' = sig /\ pc' \in {"unwind", "returned"}
    BY <1>12 DEF WalkAndClose, Fail, Unwind
  <2>2. QED
    BY <2>1 DEF OrderInPlace, Looping, Ending
<1>13. CASE UNCHANGED vars
  BY <1>13, <1>t DEF vars, OrderInPlace, HasExec
<1>14. QED
  BY <1>1, <1>2, <1>3, <1>4, <1>5, <1>6, <1>7, <1>8, <1>9, <1>10, <1>11, <1>12,
     <1>13 DEF Next, Returned

-----------------------------------------------------------------------------
(* The initial states of Resign are initial states of the abstraction. *)
LEMMA RefinesInit == Init => PostOrder!PInit
<1>1. SUFFICES ASSUME Init PROVE PostOrder!PInit
  OBVIOUS
<1>2. Plan \in SUBSET Binary
  BY DEF Plan
<1>3. Signed = {}
  BY <1>1 DEF Init, Signed, Plan, InputSignature
<1>4. Outcome = "working"
  BY <1>1 DEF Init, Outcome
<1>5. QED
  BY <1>2, <1>3, <1>4 DEF PostOrder!PInit

(* A step that signs nothing and does not return is a stutter. *)
LEMMA StutterStep ==
    ASSUME Plan' = Plan, sig' = sig, result' = result
    PROVE  UNCHANGED PostOrder!pvars
BY DEF PostOrder!pvars, Signed, Outcome

(* Every step of Resign is a step of the abstraction, or a stutter. *)
LEMMA RefinesStep ==
    SigningInvariant /\ OrderInPlace /\ [Next]_vars
        => [PostOrder!PNext]_(PostOrder!pvars)
<1> SUFFICES ASSUME SigningInvariant, OrderInPlace, [Next]_vars
             PROVE  [PostOrder!PNext]_(PostOrder!pvars)
  OBVIOUS
<1>t. TypeOK /\ LoopsInPlace /\ SigningInPlace /\ Plan' = Plan
  BY PlanFixed DEF SigningInvariant
<1>o. pc \notin {"unwind", "returned"} => Outcome = "working"
  BY DEF OrderInPlace, Outcome
<1>1. ASSUME sig' = sig, result' = result PROVE [PostOrder!PNext]_(PostOrder!pvars)
  BY <1>1, <1>t, StutterStep
<1>2. CASE ModifyDylibs
  <2>1. \A x \in Plan : (sig'[x].by = "identity") <=> (sig[x].by = "identity")
    <3>1. sig[App].by # "identity"
      BY <1>2 DEF ModifyDylibs, OrderInPlace
    <3>2. QED
      BY <1>2, <1>t, <3>1 DEF ModifyDylibs, TypeOK, Plan, Signature
  <2>2. Signed' = Signed
    BY <2>1, <1>t DEF Signed
  <2>3. Outcome' = Outcome
    BY <1>2 DEF ModifyDylibs, Outcome
  <2>4. QED
    BY <2>2, <2>3, <1>t DEF PostOrder!pvars
<1>3. CASE PassC
  <2>1. PICK b \in Binary : b = job.bin
    BY <1>t DEF TypeOK, Job
  <2>2. /\ \A x \in Binary : sig'[x].by = IF x = b THEN "identity" ELSE sig[x].by
        /\ Outcome' = Outcome /\ pc \notin {"unwind", "returned"}
    BY <1>3, <1>t, <2>1 DEF PassC, TypeOK, LoopsInPlace, Looping, Outcome
  <2>3. Signed' = IF b \in Plan THEN Signed \cup {b} ELSE Signed
    BY <2>2, <1>t DEF Signed, Plan
  <2>4. CASE b \notin Plan \/ b \in Signed
    <3>1. Signed' = Signed
      BY <2>3, <2>4
    <3>2. QED
      BY <2>2, <3>1, <1>t DEF PostOrder!pvars
  <2>5. CASE b \in Plan \ Signed
    <3>1. CodeBelow(b) \cap Plan \subseteq Signed
      <4>1. CASE b # App
        BY <4>1 DEF CodeBelow
      <4>2. CASE b = App
        <5>1. pc = "main"
          BY <1>3, <1>t, <2>1, <4>2, NamesAssumption DEF PassC, LoopsInPlace, TypeOK
        <5>2. ASSUME NEW x \in Plan, x # App PROVE sig[x].by = "identity"
          <6>1. CASE x \in Components
            <7>1. HasExec(x)
              BY <5>1, <5>2, <6>1 DEF OrderInPlace, Ending
            <7>2. QED
              BY <5>1, <6>1, <7>1, <1>t DEF SigningInPlace, SealedAndSigned, Passed, Ending
          <6>2. CASE x \in Dylibs
            BY <5>1, <5>2, <6>2, <1>t DEF SigningInPlace, Passed, Ending, Plan
          <6>3. QED
            BY <5>2, <6>1, <6>2 DEF Plan, Binary
        <5>3. QED
          BY <4>2, <5>2 DEF CodeBelow, Signed
      <4>3. QED
        BY <4>1, <4>2
    <3>2. PostOrder!Sign(b)
      BY <1>o, <1>t, <2>2, <2>3, <2>5, <3>1 DEF PostOrder!Sign
    <3>3. QED
      BY <3>2 DEF PostOrder!PNext
  <2>6. QED
    BY <2>4, <2>5
<1>4. CASE WalkAndClose
  <2>1. pc = "walk" /\ sig' = sig /\ result' = "ok"
    BY <1>4 DEF WalkAndClose
  <2>2. ASSUME NEW x \in Plan PROVE sig[x].by = "identity"
    <3>1. CASE x \in Components
      <4>1. HasExec(x)
        BY <2>1, <2>2, <3>1 DEF OrderInPlace, Ending
      <4>2. QED
        BY <2>1, <3>1, <4>1, <1>t DEF SigningInPlace, SealedAndSigned, Passed, Ending
    <3>2. CASE x \in Dylibs
      BY <2>1, <2>2, <3>2, <1>t DEF SigningInPlace, Passed, Ending, Plan
    <3>3. CASE x = App
      BY <2>1, <3>3, <1>t DEF SigningInPlace, SealedAndSigned
    <3>4. QED
      BY <2>2, <3>1, <3>2, <3>3 DEF Plan, Binary
  <2>3. Plan \subseteq Signed /\ Signed' = Signed /\ Outcome' = "shipped"
    BY <2>1, <2>2, <1>t DEF Signed, Outcome
  <2>4. PostOrder!Ship
    BY <2>1, <2>3, <1>t, <1>o DEF PostOrder!Ship
  <2>5. QED
    BY <2>4 DEF PostOrder!PNext
<1>5. CASE Fail
  <2>1. pc \notin {"unwind", "returned"} /\ sig' = sig /\ result' = "error"
    BY <1>5 DEF Fail, Fallible
  <2>2. Signed' = Signed /\ Outcome' = "failed"
    BY <2>1, <1>t DEF Signed, Outcome
  <2>3. PostOrder!GiveUp
    BY <2>1, <2>2, <1>t, <1>o DEF PostOrder!GiveUp
  <2>4. QED
    BY <2>3 DEF PostOrder!PNext
<1>6. CASE Open \/ Extract \/ ModifyInfoPlist \/ ReplaceIcon \/ HandleProfile
           \/ CopyBundles \/ CopyDylibs \/ Strip \/ NextLoop \/ KeepDylibs \/ SealApp
           \/ SignMainExecutable \/ PassA \/ PassB \/ CreateArchive \/ Unwind
  <2>1. sig' = sig /\ result' = result
    BY <1>6 DEF Open, Extract, ModifyInfoPlist, ReplaceIcon, HandleProfile,
       CopyBundles, CopyDylibs, Strip, NextLoop, KeepDylibs, SealApp,
       SignMainExecutable, PassA, PassB, CreateArchive, Unwind
  <2>2. QED
    BY <2>1, <1>1
<1>7. ASSUME NEW c \in Components, SkipComponent(c) \/ SignComponent(c)
      PROVE  [PostOrder!PNext]_(PostOrder!pvars)
  BY <1>7, <1>1 DEF SkipComponent, SignComponent
<1>8. ASSUME NEW d \in Dylibs, SignDylib(d) PROVE [PostOrder!PNext]_(PostOrder!pvars)
  BY <1>8, <1>1 DEF SignDylib
<1>9. CASE UNCHANGED vars
  BY <1>9, <1>1 DEF vars
<1>10. QED
  BY <1>2, <1>3, <1>4, <1>5, <1>6, <1>7, <1>8, <1>9 DEF Next, Returned

(* Resign signs every piece of code after the code below it, and reports   *)
(* success only when all that had to be signed is: it implements           *)
(* PostOrderSigning.                                                       *)
THEOREM ResignSignsInPostOrder == Spec => SignsInPostOrder
<1>1. Spec => []OrderInPlace
  BY InitOrder, OrderStep, SigningIsKept, PTL DEF Spec
<1>2. QED
  BY <1>1, SigningIsKept, RefinesInit, RefinesStep, PTL
     DEF Spec, SignsInPostOrder, PostOrder!PSpec

-----------------------------------------------------------------------------
(* The signing under way has the entitlements of its binary's role, and    *)
(* the options still those of the caller.                                  *)
JobByRole ==
    /\ opts.ents # "empty"
    /\ job.stage # "idle" =>
          IF job.bin \in Frameworks \cup Dylibs
          THEN job.ents = "empty" /\ ~job.der /\ ~job.main
          ELSE job.ents = opts.ents /\ job.main

(* Before the first step nothing is signed by the identity. *)
LEMMA RoleInit == Init => JobByRole /\ EntitlementsByRole
  BY InputAssumption DEF Init, IdleJob, InputSignature, JobByRole, EntitlementsByRole

(* A job is given the options of its kind of code, and its signature those *)
(* of the job.                                                             *)
LEMMA RoleStep ==
    TypeOK /\ LoopsInPlace /\ JobByRole /\ EntitlementsByRole /\ [Next]_vars
      => JobByRole' /\ EntitlementsByRole'
  <1> SUFFICES ASSUME TypeOK, LoopsInPlace, JobByRole, EntitlementsByRole, [Next]_vars
               PROVE  JobByRole' /\ EntitlementsByRole'
    OBVIOUS
  <1>1. CASE \/ Open \/ Extract \/ ModifyInfoPlist \/ ReplaceIcon \/ HandleProfile
             \/ CopyBundles \/ Strip \/ NextLoop \/ KeepDylibs \/ SealApp \/ CreateArchive
             \/ WalkAndClose \/ Unwind \/ Returned \/ UNCHANGED vars
             \/ \E c \in Components : SkipComponent(c)
    <2>1. UNCHANGED <<opts, sig, job>>
      BY <1>1 DEF Open, Extract, ModifyInfoPlist, ReplaceIcon, HandleProfile, CopyBundles,
         Strip, NextLoop, KeepDylibs, SealApp, CreateArchive, WalkAndClose, Unwind,
         Returned, SkipComponent, vars
    <2>2. QED
      BY <2>1 DEF JobByRole, EntitlementsByRole
  <1>2. CASE CopyDylibs
    BY <1>2 DEF TypeOK, Option, CopyDylibs, JobByRole, EntitlementsByRole
  <1>3. ASSUME NEW c \in Components, SignComponent(c)
        PROVE  JobByRole' /\ EntitlementsByRole'
    <2>1. UNCHANGED <<opts, sig>> /\ job'.bin = c
          /\ job'.main = (pc = "plugins")
          /\ job'.ents = (IF pc = "plugins" THEN opts.ents ELSE "empty")
          /\ job'.der = (pc = "plugins" /\ job'.ents # "none")
      BY <1>3 DEF SignComponent, LocalEntitlements
    <2>2. IF pc = "plugins" THEN c \notin Frameworks \cup Dylibs ELSE c \in Frameworks
      BY <1>3, NamesAssumption DEF SignComponent, LoopsInPlace, Components
    <2>3. QED
      BY <2>1, <2>2 DEF JobByRole, EntitlementsByRole
  <1>4. ASSUME NEW d \in Dylibs, SignDylib(d)
        PROVE  JobByRole' /\ EntitlementsByRole'
    BY <1>4 DEF SignDylib, JobByRole, EntitlementsByRole
  <1>5. CASE SignMainExecutable
    <2>1. App \notin Frameworks \cup Dylibs
      BY NamesAssumption DEF Components
    <2>2. QED
      BY <1>5, <2>1 DEF SignMainExecutable, JobByRole, EntitlementsByRole
  <1>6. CASE PassA \/ PassB
    BY <1>6 DEF TypeOK, Job, PassA, PassB, JobByRole, EntitlementsByRole
  <1>7. CASE PassC
    <2>1. JobByRole'
      BY <1>7 DEF PassC, IdleJob, JobByRole
    <2>2. opts' = opts /\ job.stage # "idle"
      BY <1>7 DEF PassC
    <2>3. ASSUME NEW x \in Binary, x # job.bin PROVE sig'[x] = sig[x]
      BY <1>7, <2>3 DEF TypeOK, PassC
    <2>4. job.bin \in Binary
      BY DEF TypeOK, Job
    <2>5. /\ sig'[job.bin].ents = job.ents /\ sig'[job.bin].der = job.der
          /\ sig'[job.bin].main = job.main
      BY <1>7, <2>4 DEF TypeOK, PassC
    <2>6. EntitlementsByRole'
      BY <2>2, <2>3, <2>4, <2>5 DEF JobByRole, EntitlementsByRole
    <2>7. QED
      BY <2>1, <2>6
  <1>8. CASE ModifyDylibs
    <2>1. UNCHANGED <<opts, job>> /\ \A x \in Binary : x # App => sig'[x] = sig[x]
      BY <1>8 DEF TypeOK, ModifyDylibs
    <2>2. sig'[App].by = "nobody"
      BY <1>8 DEF TypeOK, ModifyDylibs, Binary, Signature
    <2>3. QED
      BY <2>1, <2>2 DEF JobByRole, EntitlementsByRole
  <1>9. CASE Fail
    BY <1>9 DEF Fail, IdleJob, JobByRole, EntitlementsByRole
  <1>10. QED
    BY <1>1, <1>2, <1>3, <1>4, <1>5, <1>6, <1>7, <1>8, <1>9 DEF Next

(* Frameworks and dylibs never get the entitlements of the app. *)
THEOREM EntitlementsAreByRole == Spec => []EntitlementsByRole
  <1> DEFINE I == SigningInvariant /\ JobByRole /\ EntitlementsByRole
  <1>1. Init => I
    BY InitInvariant, RoleInit
  <1>2. I /\ [Next]_vars => I'
    <2>1. SigningInvariant /\ [Next]_vars => SigningInvariant'
      BY TypeStep, LoopsStep, TempsStep, ListsStep, IdentifierStep, SigningStep
         DEF SigningInvariant
    <2>2. QED
      BY <2>1, RoleStep DEF SigningInvariant
  <1>3. QED
    BY <1>1, <1>2, PTL DEF Spec

-----------------------------------------------------------------------------
(* What InjectedLoadsResolve says of a tree.                                *)
LoadsResolve(tree) ==
    /\ \A d \in opts.inject :
          tree[<<d, "exec">>] # Absent /\ {l \in loads : l[1] = d} = {<<d, "rpath">>}
    /\ \A d \in opts.remove :
          tree[<<d, "root">>] = Absent /\ (d \in opts.inject \/ \A l \in loads : l[1] # d)

(***************************************************************************)
(* From the copying on, the injected dylibs are in Frameworks/ and are     *)
(* listed by install name; the load commands change in one step.           *)
(***************************************************************************)
DylibsInPlace ==
    /\ pc \in {"strip", "modify"} \cup Looping =>
          /\ \A d \in opts.inject : disk[<<d, "exec">>] # Absent
          /\ opts.inject # {} => opts.form = "rpath"
    /\ pc \in {"open", "extract", "modify"} \cup Editing \cup Looping =>
          loads \subseteq Dylibs \X {"rpath"}
    /\ pc \in {"seal", "main", "create", "walk"} => LoadsResolve(disk)
    /\ result # "none" => pc \in {"unwind", "returned"}
    /\ result = "ok" => LoadsResolve(archive.tree)

(* An IPA loads its own dylibs only. *)
LEMMA DylibsInit == Init => DylibsInPlace
  <1> SUFFICES ASSUME Init PROVE DylibsInPlace
    OBVIOUS
  <1>1. loads \subseteq Dylibs \X {"rpath"}
    BY InputAssumption DEF Init
  <1>2. QED
    BY <1>1 DEF Init, DylibsInPlace, Looping

(* The files of a dylib are apart from all the others.                      *)
LEMMA DylibFilesApart ==
    ASSUME NEW d \in Dylibs, NEW k \in {"exec", "root"}
    PROVE  /\ <<d, k>> \in File /\ <<d, k>> \notin TempFiles
           /\ \A b \in Bundles : \A j : <<d, k>> # <<b, j>>
           /\ \A owners : owners \subseteq Bundles => <<d, k>> \notin FilesOf(owners)
  <1>1. d \notin Bundles
    BY NamesAssumption DEF Bundles, Components
  <1>2. QED
    BY <1>1 DEF File, DylibFiles, TempFiles, FilesOf

(* A step that writes or removes no file of a dylib but executables that    *)
(* it writes keeps them.                                                    *)
LEMMA DylibFilesKept ==
    ASSUME TypeOK, NEW w, NEW r, disk' = Update(w, r), NEW d \in Dylibs,
           <<d, "exec">> \notin r, <<d, "root">> \notin w
    PROVE  /\ disk[<<d, "exec">>] # Absent => disk'[<<d, "exec">>] # Absent
           /\ disk[<<d, "root">>] = Absent => disk'[<<d, "root">>] = Absent
  <1>1. <<d, "exec">> \in File /\ <<d, "root">> \in File
    BY DylibFilesApart
  <1>2. disk[<<d, "exec">>] \in Version
    BY <1>1 DEF TypeOK, Tree
  <1>3. Rewritten(disk[<<d, "exec">>]) # Absent
    BY <1>2, RewrittenType DEF Absent
  <1>4. QED
    BY <1>1, <1>3 DEF Update

(* What resolves still does after a step that removes no dylib and puts    *)
(* none at the root of the bundle.                                         *)
LEMMA LoadsResolveKept ==
    ASSUME TypeOK, NEW w, NEW r, disk' = Update(w, r), UNCHANGED <<opts, loads>>,
           \A d \in Dylibs : <<d, "exec">> \notin r /\ <<d, "root">> \notin w
    PROVE  LoadsResolve(disk) => LoadsResolve(disk)'
  <1>1. opts.inject \subseteq Dylibs /\ opts.remove \subseteq Dylibs
    BY DEF TypeOK, Option
  <1>2. QED
    BY <1>1, DylibFilesKept DEF LoadsResolve

(* Nor does such a step remove a dylib that is to be injected. *)
LEMMA InjectedKept ==
    ASSUME TypeOK, NEW w, NEW r, disk' = Update(w, r), opts' = opts,
           \A d \in Dylibs : <<d, "exec">> \notin r /\ <<d, "root">> \notin w
    PROVE  (\A d \in opts.inject : disk[<<d, "exec">>] # Absent)
             => \A d \in opts'.inject : disk'[<<d, "exec">>] # Absent
  <1>1. opts.inject \subseteq Dylibs
    BY DEF TypeOK, Option
  <1>2. QED
    BY <1>1, DylibFilesKept

(* From the step that copies the dylibs to the one that adds their load    *)
(* commands, and to the archive, each step keeps what is to be loaded.     *)
LEMMA DylibsStep ==
    TypeOK /\ LoopsInPlace /\ DylibsInPlace /\ [Next]_vars => DylibsInPlace'
  <1> SUFFICES ASSUME TypeOK, LoopsInPlace, DylibsInPlace, [Next]_vars
               PROVE  DylibsInPlace'
    OBVIOUS
  <1>o. opts.inject \subseteq Dylibs /\ opts.remove \subseteq Dylibs /\ job.bin \in Binary
    BY DEF TypeOK, Option, Job
  <1>1. CASE Open \/ Extract
    BY <1>1 DEF Open, Extract, DylibsInPlace, Looping, Editing
  <1>2. CASE ModifyInfoPlist \/ ReplaceIcon \/ HandleProfile \/ CopyBundles
    BY <1>2 DEF ModifyInfoPlist, ReplaceIcon, HandleProfile, CopyBundles, DylibsInPlace,
       Looping, Editing
  <1>3. CASE CopyDylibs
    <2>1. /\ pc = "copy" /\ pc' = "strip" /\ result' = result /\ loads' = loads
          /\ opts'.inject = opts.inject /\ (opts.inject # {} => opts'.form = "rpath")
      BY <1>3 DEF CopyDylibs, TypeOK, Option
    <2>2. ASSUME NEW d \in opts.inject PROVE disk'[<<d, "exec">>] # Absent
      <3>1. <<d, "exec">> \in File
        BY <1>o, DylibFilesApart
      <3>2. disk[<<d, "exec">>] \in Version
        BY <3>1 DEF TypeOK, Tree
      <3>3. disk' = Update({f \in opts.inject \X {"exec"} : disk[f] = Absent}, {})
        BY <1>3 DEF CopyDylibs
      <3>4. disk'[<<d, "exec">>] = IF disk[<<d, "exec">>] = Absent
                                   THEN Rewritten(disk[<<d, "exec">>]) ELSE disk[<<d, "exec">>]
        BY <3>1, <3>3 DEF Update
      <3>5. QED
        BY <3>2, <3>4, RewrittenType DEF Absent
    <2>3. QED
      BY <2>1, <2>2 DEF DylibsInPlace, Looping, Editing
  <1>4. CASE Strip
    <2> DEFINE gone == {o \in Plugins \cup Nested : opts.stripExt}
                         \cup {o \in WatchApps : opts.stripWatch}
               w == {}
               r == FilesOf(gone)
    <2>1. /\ pc = "strip" /\ pc' = "frameworks"
          /\ UNCHANGED <<opts, loads, result>>
          /\ disk' = Update(w, r)
      BY <1>4 DEF Strip
    <2>2. gone \subseteq Bundles
      BY DEF Bundles, Components
    <2> HIDE DEF gone
    <2>a. \A d \in Dylibs : <<d, "exec">> \notin r /\ <<d, "root">> \notin w
      BY <2>2, DylibFilesApart
    <2> HIDE DEF w, r
    <2>3. \A d \in opts'.inject : disk'[<<d, "exec">>] # Absent
      <3>1. disk' = Update(w, r) /\ opts' = opts
        BY <2>1
      <3>2. \A d \in opts.inject : disk[<<d, "exec">>] # Absent
        BY <2>1 DEF DylibsInPlace
      <3>3. QED
        BY <2>a, <3>1, <3>2, InjectedKept
    <2>4. QED
      BY <2>1, <2>3 DEF DylibsInPlace, Looping, Editing
  <1>5. ASSUME NEW c \in Components, SkipComponent(c) PROVE DylibsInPlace'
    BY <1>5 DEF SkipComponent, DylibsInPlace, LoadsResolve, Looping
  <1>6. ASSUME NEW c \in Components, SignComponent(c) PROVE DylibsInPlace'
    <2>1. /\ pc \in {"frameworks", "plugins"} /\ UNCHANGED <<pc, opts, loads, result>>
          /\ disk' = Update({<<c, "seal">>}, {})
      BY <1>6 DEF SignComponent
    <2> DEFINE w == {<<c, "seal">>}
               r == {}
    <2>a. \A d \in Dylibs : <<d, "exec">> \notin r /\ <<d, "root">> \notin w
      OBVIOUS
    <2>b. disk' = Update(w, r) /\ pc \in Looping
      BY <2>1 DEF Looping
    <2> HIDE DEF w, r
    <2>2. \A d \in opts'.inject : disk'[<<d, "exec">>] # Absent
      <3>1. disk' = Update(w, r) /\ opts' = opts
        BY <2>1, <2>b
      <3>2. \A d \in opts.inject : disk[<<d, "exec">>] # Absent
        BY <2>b DEF DylibsInPlace
      <3>3. QED
        BY <2>a, <3>1, <3>2, InjectedKept
    <2>3. QED
      BY <2>1, <2>2 DEF DylibsInPlace, Looping, Editing
  <1>7. CASE (\E d \in Dylibs : SignDylib(d)) \/ SignMainExecutable
    BY <1>7 DEF SignDylib, SignMainExecutable, DylibsInPlace, LoadsResolve
  <1>8. CASE PassA \/ PassB \/ PassC
    <2>1. PICK w, r : /\ disk' = Update(w, r)
                      /\ w \subseteq {<<job.bin, "tmpA">>, <<job.bin, "tmpB">>,
                                       <<job.bin, "exec">>}
                      /\ r \subseteq TempsOf(job.bin)
      BY <1>8 DEF PassA, PassB, PassC
    <2>2. \A d \in Dylibs : <<d, "exec">> \notin r /\ <<d, "root">> \notin w
      BY <2>1 DEF TempsOf
    <2>3. /\ UNCHANGED <<opts, loads, result>>
          /\ pc' = pc \/ (pc = "main" /\ pc' = "create")
          /\ pc \in Looping \cup {"main"}
      BY <1>8 DEF PassA, PassB, PassC, LoopsInPlace
    <2>4. CASE pc \in Looping
      <3>1. \A d \in opts'.inject : disk'[<<d, "exec">>] # Absent
        BY <2>1, <2>2, <2>3, <2>4, InjectedKept DEF DylibsInPlace
      <3>2. QED
        BY <2>3, <2>4, <3>1 DEF DylibsInPlace, Looping, Editing
    <2>5. CASE pc = "main"
      <3>1. LoadsResolve(disk)'
        BY <2>1, <2>2, <2>3, <2>5, LoadsResolveKept DEF DylibsInPlace
      <3>2. QED
        BY <2>3, <2>5, <3>1 DEF DylibsInPlace, Looping, Editing
    <2>6. QED
      BY <2>3, <2>4, <2>5
  <1>9. CASE NextLoop
    <2>1. UNCHANGED <<opts, loads, result, disk>> /\ pc \in Looping
          /\ pc' \in {"dylibs", "plugins", "modify"}
      BY <1>9 DEF NextLoop, After, Looping
    <2>2. QED
      BY <2>1 DEF DylibsInPlace, Looping, Editing
  <1>10. CASE ModifyDylibs
    <2>1. /\ pc = "modify" /\ pc' = "seal" /\ UNCHANGED <<opts, result>>
          /\ loads' = {l \in loads : l[1] \notin opts.remove} \cup (opts.inject \X {opts.form})
          /\ disk' = Update({<<App, "exec">>}, opts.remove \X {"root"})
      BY <1>10 DEF ModifyDylibs
    <2>2. loads \subseteq Dylibs \X {"rpath"}
      BY <2>1 DEF DylibsInPlace
    <2>3. ASSUME NEW d \in opts.inject
          PROVE  disk'[<<d, "exec">>] # Absent /\ {l \in loads' : l[1] = d} = {<<d, "rpath">>}
      <3>1. opts.form = "rpath" /\ disk[<<d, "exec">>] # Absent
        BY <2>1 DEF DylibsInPlace
      <3>2. <<d, "exec">> \in File /\ App # d
        BY <1>o, DylibFilesApart, NamesAssumption
      <3>3. disk'[<<d, "exec">>] # Absent
        BY <2>1, <3>1, <3>2, UpdateFrame
      <3>4. <<d, "rpath">> \in loads'
        BY <2>1, <3>1
      <3>5. \A l \in loads' : l[1] = d => l = <<d, "rpath">>
        BY <2>1, <2>2, <3>1
      <3>6. QED
        BY <3>3, <3>4, <3>5
    <2>4. ASSUME NEW d \in opts.remove
          PROVE  disk'[<<d, "root">>] = Absent
                 /\ (d \in opts.inject \/ \A l \in loads' : l[1] # d)
      <3>1. <<d, "root">> \in File
        BY <1>o, DylibFilesApart
      <3>2. QED
        BY <2>1, <3>1 DEF Update
    <2>5. LoadsResolve(disk)'
      BY <2>1, <2>3, <2>4 DEF LoadsResolve
    <2>6. QED
      BY <2>1, <2>5 DEF DylibsInPlace, Looping, Editing
  <1>11. CASE KeepDylibs
    <2>1. opts.inject = {} /\ opts.remove = {}
      BY <1>11 DEF KeepDylibs
    <2>2. QED
      BY <1>11, <2>1 DEF KeepDylibs, DylibsInPlace, LoadsResolve, Looping, Editing
  <1>12. CASE SealApp
    <2>1. /\ pc = "seal" /\ pc' = "main" /\ UNCHANGED <<opts, loads, result>>
          /\ disk' = Update({<<App, "seal">>}, {})
      BY <1>12 DEF SealApp
    <2>2. LoadsResolve(disk)'
      BY <2>1, LoadsResolveKept DEF DylibsInPlace
    <2>3. QED
      BY <2>1, <2>2 DEF DylibsInPlace, Looping, Editing
  <1>13. CASE CreateArchive
    BY <1>13 DEF CreateArchive, DylibsInPlace, LoadsResolve, Looping, Editing
  <1>14. CASE WalkAndClose
    <2>1. pc = "walk" /\ pc' = "unwind" /\ UNCHANGED <<opts, loads, disk>>
          /\ archive'.tree = disk
      BY <1>14 DEF WalkAndClose
    <2>2. LoadsResolve(archive.tree)'
      BY <2>1 DEF DylibsInPlace, LoadsResolve
    <2>3. QED
      BY <2>1, <2>2 DEF DylibsInPlace, Looping, Editing
  <1>15. CASE Fail
    BY <1>15 DEF Fail, DylibsInPlace, Looping, Editing
  <1>16. CASE Unwind \/ Returned \/ UNCHANGED vars
    BY <1>16 DEF Unwind, Returned, vars, DylibsInPlace, LoadsResolve, Looping, Editing
  <1>17. QED
    BY <1>1, <1>2, <1>3, <1>4, <1>5, <1>6, <1>7, <1>8, <1>9, <1>10, <1>11, <1>12, <1>13,
       <1>14, <1>15, <1>16 DEF Next

(* What is injected is there and loaded by its install name; what is        *)
(* removed is gone.                                                         *)
THEOREM InjectedLoadsAreResolved == Spec => []InjectedLoadsResolve
  <1> DEFINE I == SigningInvariant /\ DylibsInPlace
  <1>1. Init => I
    BY InitInvariant, DylibsInit
  <1>2. I /\ [Next]_vars => I'
    <2>1. SigningInvariant /\ [Next]_vars => SigningInvariant'
      BY TypeStep, LoopsStep, TempsStep, ListsStep, IdentifierStep, SigningStep
         DEF SigningInvariant
    <2>2. QED
      BY <2>1, DylibsStep DEF SigningInvariant
  <1>3. I => InjectedLoadsResolve
    BY DEF DylibsInPlace, LoadsResolve, InjectedLoadsResolve, Shipped, Packed
  <1>4. QED
    BY <1>1, <1>2, <1>3, PTL DEF Spec
=============================================================================
