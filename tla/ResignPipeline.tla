--------------------------- MODULE ResignPipeline ---------------------------
(***************************************************************************)
(* One call of pipeline.Resign (ipa/pipeline/resign.go): an IPA is         *)
(* extracted into a temporary directory, edited, its nested code is sealed *)
(* and signed, the app itself is sealed and signed, and the tree is zipped.*)
(*                                                                         *)
(* The content of a file is abstracted to a version number, so that        *)
(* "hash of f" is "version of f": a seal (_CodeSignature/CodeResources)    *)
(* records the versions of the files it covers, a code signature records   *)
(* the versions of the Info.plist and of the CodeResources it was computed *)
(* over.  What must be right at the end is that every recorded version is  *)
(* the one that went into the archive.                                     *)
(***************************************************************************)
EXTENDS Integers

CONSTANTS
    App,         \* the bundle Payload/<name>.app
    Frameworks,  \* names of the bundles Frameworks/<name>.framework
    Plugins,     \* names of the bundles PlugIns/<name>.appex
    WatchApps,   \* names of the bundles Watch/<name>.app
    Nested,      \* bundles inside a plugin, which bundle.Discover does not list
    Host,        \* the plugin each nested bundle is in
    Dylibs,      \* base names of loose dylibs
    NewID,       \* the bundle identifier a request may ask for
    NoID,        \* the empty identifier
    Inputs,      \* the IPAs Resign may be called with
    Requests     \* the options Resign may be called with

Components == Frameworks \cup Plugins
Bundles == {App} \cup Components \cup WatchApps \cup Nested
Owner == Bundles \cup Dylibs

(* Code that the pipeline may sign, and bundles whose seal it may write. *)
Binary == {App} \cup Components \cup Dylibs
Sealable == {App} \cup Components

(***************************************************************************)
(* A file is named by the bundle or dylib it belongs to and by what it is. *)
(* For a dylib, "exec" is its file in Frameworks/ and "root" the file of   *)
(* the same name in the root of the app; "tmpA" and "tmpB" are the files   *)
(* signBinaryWithSlots writes next to the binary it signs.                 *)
(***************************************************************************)
BundleFiles == Bundles \X {"exec", "info", "seal", "res"}
AppFiles == {App} \X {"profile", "assets", "icon", "bundle"}
DylibFiles == Dylibs \X {"exec", "root"}
TempFiles == Binary \X {"tmpA", "tmpB"}
File == BundleFiles \cup AppFiles \cup DylibFiles \cup TempFiles

Absent == -1
Version == Nat \cup {Absent}
Tree == [File -> Version]
EmptyTree == [f \in File |-> Absent]

Identifier == Owner \cup {NewID, NoID}
Form == {"path", "rpath"}
Entitlements == {"host", "empty", "none"}

Option == [id : {NewID, NoID}, ents : Entitlements, profile : BOOLEAN,
           stripProfile : BOOLEAN, icons : BOOLEAN, deleteAssets : BOOLEAN,
           bundles : BOOLEAN, inject : SUBSET Dylibs, form : Form,
           remove : SUBSET Dylibs, stripExt : BOOLEAN, stripWatch : BOOLEAN]

Signature == [by : {"input", "nobody", "identity"}, ident : Identifier,
              info : Version, res : Version, ents : Entitlements,
              der : BOOLEAN, main : BOOLEAN]

InputSignature == [by |-> "input", ident |-> NoID, info |-> Absent,
                   res |-> Absent, ents |-> "none", der |-> FALSE,
                   main |-> FALSE]

ASSUME NamesAssumption ==
    /\ App \notin Components \cup WatchApps \cup Nested \cup Dylibs
    /\ Frameworks \cap (Plugins \cup WatchApps \cup Nested \cup Dylibs) = {}
    /\ Plugins \cap (WatchApps \cup Nested \cup Dylibs) = {}
    /\ WatchApps \cap (Nested \cup Dylibs) = {}
    /\ Nested \cap Dylibs = {}
    /\ NewID # NoID /\ {NewID, NoID} \cap Owner = {}
    /\ Host \in [Nested -> Plugins]

ASSUME InputAssumption ==
    /\ \A in \in Inputs :
          /\ in.tree \in [File -> {0, Absent}]
          /\ \A f \in File : f \notin BundleFiles \cup DylibFiles \cup
                {<<App, "profile">>, <<App, "assets">>} => in.tree[f] = Absent
          /\ in.loads \subseteq Dylibs
    /\ \A r \in Requests : r \in Option /\ r.form = "path" /\ r.ents # "empty"

-----------------------------------------------------------------------------
VARIABLES
    pc,      \* the step of Resign that runs next
    input,   \* the IPA: its tree, and the dylibs its main executable loads
    opts,    \* *ResignOptions, shared by every step
    bundle,  \* *AppBundle, what Discover found in the IPA
    todo,    \* what the loop of the current step has not signed yet
    disk,    \* the temporary directory
    seal,    \* the versions each CodeResources on disk records
    sig,     \* the code signature each binary on disk carries
    job,     \* the call of signBinaryWithSlots that is under way
    crData,  \* version of the app's CodeResources handed to step 11
    appID,   \* CFBundleIdentifier of the app's Info.plist on disk
    loads,   \* dylib load commands of the main executable
    archive, \* the file at OutputPath
    result   \* what Resign returns

vars == <<pc, input, opts, bundle, todo, disk, seal, sig, job, crData, appID,
          loads, archive, result>>

Step == {"open", "extract", "plist", "icons", "profile", "bundles", "copy",
         "strip", "frameworks", "dylibs", "plugins", "modify", "seal", "main",
         "create", "walk", "unwind", "returned"}

Job == [stage : {"idle", "read", "passA", "passB"}, bin : Binary,
        ident : Identifier, info : Version, res : Version,
        ents : Entitlements, der : BOOLEAN, main : BOOLEAN]

IdleJob == [stage |-> "idle", bin |-> App, ident |-> NoID, info |-> Absent,
            res |-> Absent, ents |-> "none", der |-> FALSE, main |-> FALSE]

NoBundle == [frameworks |-> {}, plugins |-> {}, dylibs |-> {}]

(* The type invariant. *)
TypeOK ==
    /\ pc \in Step
    /\ input \in Inputs
    /\ opts \in Option
    /\ bundle \in [frameworks : SUBSET Frameworks, plugins : SUBSET Plugins,
                   dylibs : SUBSET Dylibs]
    /\ todo \subseteq Components \cup Dylibs
    /\ disk \in Tree
    /\ seal \in [Sealable -> Tree]
    /\ sig \in [Binary -> Signature]
    /\ job \in Job
    /\ crData \in Version
    /\ appID \in Identifier
    /\ loads \subseteq Dylibs \X Form
    /\ archive \in [state : {"none", "open", "incomplete", "complete"},
                    tree : Tree]
    /\ result \in {"none", "ok", "error"}

-----------------------------------------------------------------------------
(* The tree after the files of written were written and those of removed   *)
(* were deleted.                                                           *)
Rewritten(v) == IF v = Absent THEN 1 ELSE v + 1
Update(written, removed) ==
    [f \in File |-> IF f \in removed THEN Absent
                    ELSE IF f \in written THEN Rewritten(disk[f])
                    ELSE disk[f]]

(* The bundles and dylibs whose files are in the directory of bundle b. *)
Inside(b) == IF b = App THEN Owner
             ELSE {b} \cup {n \in Nested : Host[n] = b}
FilesOf(owners) == {f \in File : f[1] \in owners}

(***************************************************************************)
(* coderesources.Generate: every file below the bundle except its main     *)
(* executable and its own _CodeSignature directory.                        *)
(***************************************************************************)
Covers(b) == FilesOf(Inside(b)) \ {<<b, "exec">>, <<b, "seal">>}
Generate(b, tree) ==
    [f \in File |-> IF f \in Covers(b) THEN tree[f] ELSE Absent]

(***************************************************************************)
(* bundle.Discover lists the frameworks, the plugins and the loose dylibs  *)
(* of Frameworks/ of which the IPA has an entry.                           *)
(***************************************************************************)
Ships(tree, o) == \E f \in File : f[1] = o /\ tree[f] # Absent

(* Mutant of Discover: no loose dylib is listed. *)
DiscoverBundles(tree) ==
    [frameworks |-> {c \in Frameworks : Ships(tree, c)},
     plugins    |-> {c \in Plugins : Ships(tree, c)},
     dylibs     |-> {}]

Discover(tree) ==
    [frameworks |-> {c \in Frameworks : Ships(tree, c)},
     plugins    |-> {c \in Plugins : Ships(tree, c)},
     dylibs     |-> {d \in Dylibs : tree[<<d, "exec">>] # Absent}]

Init ==
    /\ pc = "open"
    /\ input \in Inputs
    /\ opts \in Requests
    /\ bundle = NoBundle
    /\ todo = {}
    /\ disk = EmptyTree
    /\ seal = [b \in Sealable |-> EmptyTree]
    /\ sig = [b \in Binary |-> InputSignature]
    /\ job = IdleJob
    /\ crData = Absent
    /\ appID = App
    /\ loads = input.loads \X {"rpath"}
    /\ archive = [state |-> "none", tree |-> EmptyTree]
    /\ result = "none"

-----------------------------------------------------------------------------
(* Step 1: open the IPA and discover the app bundle; an app without an     *)
(* Info.plist is an error.                                                 *)
Open ==
    /\ pc = "open"
    /\ input.tree[<<App, "info">>] # Absent
    /\ bundle' = Discover(input.tree)
    /\ pc' = "extract"
    /\ UNCHANGED <<input, opts, todo, disk, seal, sig, job, crData, appID,
                   loads, archive, result>>

(* Step 2: extract every entry into the temporary directory. *)
Extract ==
    /\ pc = "extract"
    /\ disk' = input.tree
    /\ pc' = "plist"
    /\ UNCHANGED <<input, opts, bundle, todo, seal, sig, job, crData, appID,
                   loads, archive, result>>

(* Step 3: modifyInfoPlist always rewrites the Info.plist. *)
ModifyInfoPlist ==
    /\ pc = "plist"
    /\ disk[<<App, "info">>] # Absent
    /\ disk' = Update({<<App, "info">>}, {})
    /\ appID' = IF opts.id # NoID THEN opts.id ELSE appID
    /\ pc' = "icons"
    /\ UNCHANGED <<input, opts, bundle, todo, seal, sig, job, crData, loads,
                   archive, result>>

(* Loose icons are written, and Assets.car goes with them or on request. *)
ReplaceIcon ==
    /\ pc = "icons"
    /\ disk' = Update({f \in {<<App, "icon">>} : opts.icons},
                      {f \in {<<App, "assets">>} :
                            opts.deleteAssets \/ opts.icons})
    /\ pc' = "profile"
    /\ UNCHANGED <<input, opts, bundle, todo, seal, sig, job, crData, appID,
                   loads, archive, result>>

(* Step 4: embed the profile, or strip it on request, or leave it alone. *)
HandleProfile ==
    /\ pc = "profile"
    /\ disk' = Update({f \in {<<App, "profile">>} : opts.profile},
                      {f \in {<<App, "profile">>} :
                            ~opts.profile /\ opts.stripProfile})
    /\ pc' = "bundles"
    /\ UNCHANGED <<input, opts, bundle, todo, seal, sig, job, crData, appID,
                   loads, archive, result>>

(* Step 5: copy the .bundle directories into Frameworks/. *)
CopyBundles ==
    /\ pc = "bundles"
    /\ disk' = Update({f \in {<<App, "bundle">>} : opts.bundles}, {})
    /\ pc' = "copy"
    /\ UNCHANGED <<input, opts, bundle, todo, seal, sig, job, crData, appID,
                   loads, archive, result>>

(* Mutant of CopyDylibs: the paths in the options stay as they were.       *)
CopyDylibsKeepingPaths ==
    /\ pc = "copy"
    /\ disk' = Update({f \in opts.inject \X {"exec"} : disk[f] = Absent}, {})
    /\ pc' = "strip"
    /\ UNCHANGED <<input, opts, bundle, todo, seal, sig, job, crData, appID,
                   loads, archive, result>>

(***************************************************************************)
(* Step 5b: copy each dylib to inject that Frameworks/ does not have, and  *)
(* rewrite the caller's list of paths to @rpath/ install names.            *)
(***************************************************************************)
CopyDylibs ==
    /\ pc = "copy"
    /\ disk' = Update({f \in opts.inject \X {"exec"} : disk[f] = Absent}, {})
    /\ opts' = [opts EXCEPT !.form = IF opts.inject # {} THEN "rpath" ELSE @]
    /\ pc' = "strip"
    /\ UNCHANGED <<input, bundle, todo, seal, sig, job, crData, appID, loads,
                   archive, result>>

(***************************************************************************)
(* Step 6: strip PlugIns/ (with all that is inside) and Watch/ on request, *)
(* and forget the plugins that were discovered.                            *)
(***************************************************************************)
Strip ==
    /\ pc = "strip"
    /\ disk' = Update({}, FilesOf({o \in Plugins \cup Nested : opts.stripExt}
                                  \cup {o \in WatchApps : opts.stripWatch}))
    /\ bundle' = [bundle EXCEPT !.plugins = IF opts.stripExt THEN {} ELSE @]
    /\ todo' = bundle.frameworks
    /\ pc' = "frameworks"
    /\ UNCHANGED <<input, opts, seal, sig, job, crData, appID, loads, archive,
                   result>>

-----------------------------------------------------------------------------
HasExec(b) == disk[<<b, "exec">>] # Absent

(* The identifier signBinaryWithSlots gives a bundle: the requested one,   *)
(* else the CFBundleIdentifier of the Info.plist handed to it, if any.     *)
BundleIdentifier(requested, info, own) ==
    IF requested # NoID THEN requested
    ELSE IF info # Absent THEN own ELSE NoID

(* The entitlements signComponent puts into its copy of the options. *)
LocalEntitlements(isMain) == IF isMain THEN opts.ents ELSE "empty"

(* The Info.plist and the CodeResources that the signature of component c  *)
(* hashes: the Info.plist on disk, and the CodeResources it writes now.    *)
SlotsBeforeSealing(c) ==    \* mutant: CodeResources read before it is written
    [info |-> disk[<<c, "info">>], res |-> disk[<<c, "seal">>]]
Slots(c) ==
    [info |-> disk[<<c, "info">>], res |-> Rewritten(disk[<<c, "seal">>])]

(* Mutant of SkipComponent: the loop does not go on to the next component. *)
SkipComponentAgain(c) ==
    /\ pc \in {"frameworks", "plugins"}
    /\ job.stage = "idle"
    /\ c \in todo
    /\ ~HasExec(c)
    /\ UNCHANGED vars

(* signComponent returns at once when the component has no executable. *)
SkipComponent(c) ==
    /\ pc \in {"frameworks", "plugins"}
    /\ job.stage = "idle"
    /\ c \in todo
    /\ ~HasExec(c)
    /\ todo' = todo \ {c}
    /\ UNCHANGED <<pc, input, opts, bundle, disk, seal, sig, job, crData,
                   appID, loads, archive, result>>

(***************************************************************************)
(* Steps 6 and 8, signComponent: read the component's Info.plist, generate *)
(* and write its CodeResources, take a local copy of the options (with     *)
(* empty entitlements for a framework) and call signBinaryWithSlots.       *)
(***************************************************************************)
SignComponent(c) ==
    /\ pc \in {"frameworks", "plugins"}
    /\ job.stage = "idle"
    /\ c \in todo
    /\ HasExec(c)
    /\ LET isMain == pc = "plugins"
           slots == Slots(c)
           ents == LocalEntitlements(isMain)
       IN  /\ seal' = [seal EXCEPT ![c] = Generate(c, disk)]
           /\ disk' = Update({<<c, "seal">>}, {})
           /\ job' = [stage |-> "read", bin |-> c,
                      ident |-> BundleIdentifier(opts.id, slots.info, c),
                      info |-> slots.info, res |-> slots.res,
                      ents |-> ents, der |-> isMain /\ ents # "none",
                      main |-> isMain]
    /\ UNCHANGED <<pc, input, opts, bundle, todo, sig, crData, appID, loads,
                   archive, result>>

(* Mutant of SignDylib: no local copy, the shared options are emptied. *)
SignDylibByReference(d) ==
    /\ pc = "dylibs" /\ job.stage = "idle" /\ d \in todo /\ HasExec(d)
    /\ opts' = [opts EXCEPT !.ents = "empty"]
    /\ job' = [IdleJob EXCEPT !.stage = "read", !.bin = d, !.ident = d, !.ents = "empty"]
    /\ UNCHANGED <<pc, input, bundle, todo, disk, seal, sig, crData,
                   appID, loads, archive, result>>

(* Step 7, signDylib: no Info.plist, no CodeResources, the file's name as  *)
(* identifier and empty entitlements, again in a local copy of the options.*)
SignDylib(d) ==
    /\ pc = "dylibs"
    /\ job.stage = "idle"
    /\ d \in todo
    /\ HasExec(d)
    /\ job' = [stage |-> "read", bin |-> d, ident |-> d, info |-> Absent,
               res |-> Absent, ents |-> "empty", der |-> FALSE,
               main |-> FALSE]
    /\ UNCHANGED <<pc, input, opts, bundle, todo, disk, seal, sig, crData,
                   appID, loads, archive, result>>

(* Step 11, signMainExecutable: read the Info.plist as it is now. *)
SignMainExecutable ==
    /\ pc = "main"
    /\ job.stage = "idle"
    /\ HasExec(App)
    /\ LET info == disk[<<App, "info">>]
       IN  job' = [stage |-> "read", bin |-> App,
                   ident |-> BundleIdentifier(opts.id, info, appID),
                   info |-> info, res |-> crData,
                   ents |-> opts.ents, der |-> opts.ents # "none",
                   main |-> TRUE]
    /\ UNCHANGED <<pc, input, opts, bundle, todo, disk, seal, sig, crData,
                   appID, loads, archive, result>>

(* signBinaryWithSlots, pass A: a copy with a signature command of size 0. *)
PassA ==
    /\ job.stage = "read"
    /\ disk' = Update({<<job.bin, "tmpA">>}, {})
    /\ job' = [job EXCEPT !.stage = "passA"]
    /\ UNCHANGED <<pc, input, opts, bundle, todo, seal, sig, crData, appID,
                   loads, archive, result>>

(* Pass B: a copy whose header has the size found by pass A. *)
PassB ==
    /\ job.stage = "passA"
    /\ disk' = Update({<<job.bin, "tmpB">>}, {})
    /\ job' = [job EXCEPT !.stage = "passB"]
    /\ UNCHANGED <<pc, input, opts, bundle, todo, seal, sig, crData, appID,
                   loads, archive, result>>

(* The temporary files whose removal signBinaryWithSlots defers. *)
FirstTempOf(b) == {<<b, "tmpA">>}               \* mutant: tmpB is left
TempsOf(b) == {<<b, "tmpA">>, <<b, "tmpB">>}

(***************************************************************************)
(* Pass C: sign the bytes of pass B, write the binary with its signature,  *)
(* remove both temporary files (deferred), and return to the caller: the   *)
(* loop goes on, or the main executable is done.                           *)
(***************************************************************************)
PassC ==
    /\ job.stage = "passB"
    /\ disk' = Update({<<job.bin, "exec">>}, TempsOf(job.bin))
    /\ sig' = [sig EXCEPT ![job.bin] =
                  [by |-> "identity", ident |-> job.ident, info |-> job.info,
                   res |-> job.res, ents |-> job.ents, der |-> job.der,
                   main |-> job.main]]
    /\ job' = IdleJob
    /\ todo' = todo \ {job.bin}
    /\ pc' = IF pc = "main" THEN "create" ELSE pc
    /\ UNCHANGED <<input, opts, bundle, seal, crData, appID, loads, archive,
                   result>>

(* Steps 6, 7 and 8 are loops over what was discovered, in this order. *)
AfterSkippingPlugins ==    \* mutant: the plugins come too late
    [frameworks |-> "dylibs", dylibs |-> "modify", plugins |-> "modify"]
After == [frameworks |-> "dylibs", dylibs |-> "plugins", plugins |-> "modify"]

NextLoop ==
    /\ pc \in DOMAIN After
    /\ job.stage = "idle"
    /\ todo = {}
    /\ pc' = After[pc]
    /\ todo' = IF pc' = "modify" THEN {} ELSE bundle[pc']
    /\ UNCHANGED <<input, opts, bundle, disk, seal, sig, job, crData, appID,
                   loads, archive, result>>

(***************************************************************************)
(* Step 9: modifyDylibs edits the load commands of the main executable and *)
(* writes it back without a signature; files of removed dylibs are deleted *)
(* from the root of the app.                                               *)
(***************************************************************************)
ModifyDylibs ==
    /\ pc = "modify"
    /\ opts.inject \cup opts.remove # {}
    /\ HasExec(App)
    /\ loads' = {l \in loads : l[1] \notin opts.remove}
                \cup (opts.inject \X {opts.form})
    /\ disk' = Update({<<App, "exec">>}, opts.remove \X {"root"})
    /\ sig' = [sig EXCEPT ![App].by = "nobody"]
    /\ pc' = "seal"
    /\ UNCHANGED <<input, opts, bundle, todo, seal, job, crData, appID,
                   archive, result>>

KeepDylibs ==
    /\ pc = "modify"
    /\ opts.inject \cup opts.remove = {}
    /\ pc' = "seal"
    /\ UNCHANGED <<input, opts, bundle, todo, disk, seal, sig, job, crData,
                   appID, loads, archive, result>>

(* Step 10: generate and write the CodeResources of the app. *)
SealApp ==
    /\ pc = "seal"
    /\ seal' = [seal EXCEPT ![App] = Generate(App, disk)]
    /\ disk' = Update({<<App, "seal">>}, {})
    /\ crData' = Rewritten(disk[<<App, "seal">>])
    /\ pc' = "main"
    /\ UNCHANGED <<input, opts, bundle, todo, sig, job, appID, loads, archive,
                   result>>

(* Step 12, repackageIPA: CreateIPA truncates OutputPath ... *)
CreateArchive ==
    /\ pc = "create"
    /\ archive' = [archive EXCEPT !.state = "open"]
    /\ pc' = "walk"
    /\ UNCHANGED <<input, opts, bundle, todo, disk, seal, sig, job, crData,
                   appID, loads, result>>

(***************************************************************************)
(* ... then the whole tree is walked into the archive and repackageIPA     *)
(* returns nil; its deferred writer.Close() writes the central directory,  *)
(* and an error of Close is dropped.                                       *)
(***************************************************************************)
WalkAndClose ==
    /\ pc = "walk"
    /\ \E closed \in BOOLEAN :
          archive' = [state |-> IF closed THEN "complete" ELSE "incomplete",
                      tree |-> disk]
    /\ result' = "ok"
    /\ pc' = "unwind"
    /\ UNCHANGED <<input, opts, bundle, todo, disk, seal, sig, job, crData,
                   appID, loads>>

(* The steps that return an error when an I/O or parse operation fails. *)
Fallible ==
    \/ pc \in {"open", "extract", "plist", "seal", "main", "create", "walk"}
    \/ pc = "icons" /\ opts.icons
    \/ pc = "profile" /\ opts.profile
    \/ pc = "bundles" /\ opts.bundles
    \/ pc = "copy" /\ \E d \in opts.inject : disk[<<d, "exec">>] = Absent
    \/ pc \in {"frameworks", "plugins"} /\ \E c \in todo : HasExec(c)
    \/ pc = "dylibs" /\ todo # {}
    \/ pc = "modify" /\ opts.inject \cup opts.remove # {}

Fail ==
    /\ Fallible
    /\ result' = "error"
    /\ archive' = [archive EXCEPT !.state =
                      IF pc = "walk" THEN "incomplete" ELSE @]
    /\ job' = IdleJob
    /\ pc' = "unwind"
    /\ UNCHANGED <<input, opts, bundle, todo, disk, seal, sig, crData, appID,
                   loads>>

(* Resign returns: its deferred calls remove the temporary directory. *)
Unwind ==
    /\ pc = "unwind"
    /\ disk' = EmptyTree
    /\ pc' = "returned"
    /\ UNCHANGED <<input, opts, bundle, todo, seal, sig, job, crData, appID,
                   loads, archive, result>>

(* Nothing happens after the return. *)
Returned == pc = "returned" /\ UNCHANGED vars

Next ==
    \/ Open \/ Extract \/ ModifyInfoPlist \/ ReplaceIcon \/ HandleProfile
    \/ CopyBundles \/ CopyDylibs \/ Strip
    \/ \E c \in Components : SkipComponent(c) \/ SignComponent(c)
    \/ \E d \in Dylibs : SignDylib(d)
    \/ NextLoop \/ ModifyDylibs \/ KeepDylibs \/ SealApp \/ SignMainExecutable
    \/ PassA \/ PassB \/ PassC
    \/ CreateArchive \/ WalkAndClose \/ Fail \/ Unwind \/ Returned

Spec == Init /\ [][Next]_vars

(***************************************************************************)
(* Resign is sequential code in one goroutine, every loop of which is over *)
(* a finite list, so it keeps going until it returns.                      *)
(***************************************************************************)
FairSpec == Spec /\ WF_vars(Next)

-----------------------------------------------------------------------------
(* Properties of a tree of files, on disk or in an archive. *)
SealsMatch(tree) ==
    \A b \in Sealable :
        tree[<<b, "exec">>] # Absent => seal[b] = Generate(b, tree)

SlotsMatch(tree) ==
    /\ \A b \in Sealable : tree[<<b, "exec">>] # Absent =>
          sig[b].info = tree[<<b, "info">>] /\ sig[b].res = tree[<<b, "seal">>]
    /\ sig[App].ident = appID

CodeSigned(tree) ==
    \A x \in Binary :
        input.tree[<<x, "exec">>] # Absent /\ tree[<<x, "exec">>] # Absent
            => sig[x].by = "identity"

(* Resign returned nil, and the central directory was written. *)
Shipped == result = "ok" /\ archive.state = "complete"
Packed(f) == archive.tree[f] # Absent

(***************************************************************************)
(* The CodeResources of the app and of every framework and plugin shipped  *)
(* with an executable records exactly the files below the bundle as they   *)
(* are in the archive: no file was written, deleted or left over (a        *)
(* temporary file, say) after the seal was generated.                      *)
(***************************************************************************)
SealsMatchArchive == Shipped => SealsMatch(archive.tree)

(***************************************************************************)
(* Special slots -1 and -3 of every bundle's signature hash the Info.plist *)
(* and the CodeResources that are in the archive, and the app is signed    *)
(* under the CFBundleIdentifier of the Info.plist that is shipped.         *)
(***************************************************************************)
SlotsMatchArchive == Shipped => SlotsMatch(archive.tree)

(***************************************************************************)
(* All the code of the IPA that Discover is responsible for (the app, its  *)
(* frameworks and plugins, the dylibs of Frameworks/) is signed with the   *)
(* caller's identity if it is shipped, and dylib injection has not voided  *)
(* a signature since.                                                      *)
(***************************************************************************)
ReceivedCodeIsSigned == Shipped => CodeSigned(archive.tree)

(***************************************************************************)
(* Frameworks and dylibs are signed with empty entitlements, no DER slot   *)
(* and without the main-binary flag; the app and the plugins, although     *)
(* they are signed later from the same options, with the caller's: with    *)
(* what the options say, and never with the empty ones, which no caller    *)
(* gives (InputAssumption) and which a step that stored them in the        *)
(* shared options would leave there.                                       *)
(***************************************************************************)
EntitlementsByRole ==
    \A x \in Binary : sig[x].by = "identity" =>
        IF x \in Frameworks \cup Dylibs
        THEN sig[x].ents = "empty" /\ ~sig[x].der /\ ~sig[x].main
        ELSE sig[x].ents = opts.ents /\ sig[x].ents # "empty" /\ sig[x].main

(***************************************************************************)
(* Every injected dylib is loaded under the install name of the file that  *)
(* is shipped in Frameworks/, and a dylib that is removed (and not also    *)
(* injected) is neither loaded nor left in the root of the app.            *)
(***************************************************************************)
InjectedLoadsResolve ==
    Shipped =>
        /\ \A d \in opts.inject :
              Packed(<<d, "exec">>) /\ {l \in loads : l[1] = d} = {<<d, "rpath">>}
        /\ \A d \in opts.remove :
              /\ ~Packed(<<d, "root">>)
              /\ d \in opts.inject \/ \A l \in loads : l[1] # d

(* Resign returns, whatever fails. *)
Returns == <>(pc = "returned")

-----------------------------------------------------------------------------
(***************************************************************************)
(* Why the archive is right: what holds in between.                        *)
(***************************************************************************)
Editing == {"plist", "icons", "profile", "bundles", "copy", "strip"}
Looping == {"frameworks", "dylibs", "plugins"}
Ending == {"modify", "seal", "main", "create", "walk"}

(* The tree without the temporary files of the signing under way. *)
Settled == [f \in File |-> IF f \in TempFiles THEN Absent ELSE disk[f]]
SealUpToDate(b) == seal[b] = Generate(b, Settled)
SealedAndSigned(b) ==
    /\ SealUpToDate(b)
    /\ sig[b].by = "identity"
    /\ sig[b].info = disk[<<b, "info">>]
    /\ sig[b].res = disk[<<b, "seal">>]

(* The loop that signs x is past x. *)
Passed(x) ==
    \/ pc \in Ending
    \/ x \in Frameworks /\ pc \in {"dylibs", "plugins"}
    \/ x \in Dylibs /\ pc = "plugins"
    \/ /\ x \notin todo
       /\ \/ x \in Frameworks /\ pc = "frameworks"
          \/ x \in Dylibs /\ pc = "dylibs"
          \/ x \in Plugins /\ pc = "plugins"

(* A loop signs what it should, one binary at a time. *)
LoopsInPlace ==
    /\ pc = "frameworks" => todo \subseteq Frameworks
    /\ pc = "dylibs" => todo \subseteq Dylibs
    /\ pc = "plugins" => todo \subseteq Plugins
    /\ job.stage # "idle" => \/ /\ pc \in Looping
                               /\ job.bin \in todo
                            \/ /\ pc = "main"
                               /\ job.bin = App

(* A temporary file on disk belongs to the signing under way. *)
TempsInPlace ==
    pc \in Editing \cup Looping \cup Ending =>
        \A f \in TempFiles : disk[f] # Absent => job.stage # "idle" /\ f[1] = job.bin

(* Code on disk that its loop is not past is in the list of that loop. *)
ListsComplete ==
    /\ pc \in {"extract"} \cup Editing => bundle = Discover(input.tree)
    /\ pc \in Editing => \A c \in Components :
          disk[<<c, "exec">>] = input.tree[<<c, "exec">>]
    /\ pc \in {"frameworks", "dylibs"} => \A c \in Plugins \ bundle.plugins : ~HasExec(c)
    /\ pc = "frameworks" => bundle.dylibs = Discover(input.tree).dylibs

(* The Info.plist of the app has the requested identifier. *)
IdentifierInPlace ==
    pc \in (Editing \ {"plist"}) \cup Looping \cup Ending =>
        /\ disk[<<App, "info">>] # Absent
        /\ opts.id # NoID => appID = opts.id

(* What is being signed is sealed; what was signed stays as it was.  *)
SigningInPlace ==
    /\ job.stage # "idle" /\ job.bin \in Sealable =>
          /\ SealUpToDate(job.bin)
          /\ job.info = disk[<<job.bin, "info">>]
          /\ job.res = disk[<<job.bin, "seal">>]
          /\ job.bin = App => job.ident = appID
    /\ \A c \in Components : Passed(c) /\ HasExec(c) => SealedAndSigned(c)
    /\ \A d \in Dylibs : Passed(d) /\ input.tree[<<d, "exec">>] # Absent
                           => sig[d].by = "identity"
    /\ pc = "main" => SealUpToDate(App) /\ crData = disk[<<App, "seal">>]
    /\ pc \in {"create", "walk"} => SealedAndSigned(App) /\ sig[App].ident = appID
    /\ result = "ok" => /\ pc \in {"unwind", "returned"}
                        /\ SealsMatch(archive.tree)
                        /\ SlotsMatch(archive.tree)
                        /\ CodeSigned(archive.tree)

(***************************************************************************)
(* The inductive invariant: at every step of Resign, every bundle signed   *)
(* so far is sealed over the tree as it is now.                            *)
(***************************************************************************)
SigningInvariant ==
    /\ TypeOK
    /\ LoopsInPlace
    /\ TempsInPlace
    /\ ListsComplete
    /\ IdentifierInPlace
    /\ SigningInPlace

-----------------------------------------------------------------------------
(***************************************************************************)
(* The order of signing.  What has to be signed is known from the call:    *)
(* the code of the IPA, without the plugins if they are to be stripped.    *)
(***************************************************************************)
Plan == {x \in Binary : /\ input.tree[<<x, "exec">>] # Absent
                        /\ ~(x \in Plugins /\ opts.stripExt)}
CodeBelow(x) == IF x = App THEN Binary \ {App} ELSE {}

Signed == {x \in Plan : sig[x].by = "identity"}
Outcome == CASE result = "ok" -> "shipped"
             [] result = "error" -> "failed"
             [] OTHER -> "working"

PostOrder == INSTANCE PostOrderSigning WITH
    Objects <- Binary, Below <- CodeBelow,
    plan <- Plan, signed <- Signed, outcome <- Outcome

(* Resign signs in post-order: the app after everything below it. *)
SignsInPostOrder == PostOrder!PSpec

-----------------------------------------------------------------------------
(* What the documentation says and the code does not do. *)

(***************************************************************************)
(* resign.go:199-203: the identifier of a framework's signature is the     *)
(* framework's own CFBundleIdentifier (if it has one), not the host app's. *)
(***************************************************************************)
FrameworkIdentifierIsItsOwn ==
    \A c \in Frameworks :
        sig[c].by = "identity" /\ sig[c].info # Absent => sig[c].ident = c

(***************************************************************************)
(* README.md:738-740: an injected dylib is signed with the supplied        *)
(* identity, with an empty entitlements blob.                              *)
(***************************************************************************)
InjectedDylibsAreSigned ==
    Shipped => \A d \in opts.inject :
        sig[d].by = "identity" /\ sig[d].ents = "empty"
=============================================================================
