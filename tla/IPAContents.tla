------------------------------ MODULE IPAContents ------------------------------
(***************************************************************************)
(* What is in the archive: processApp from step 5 on (engine/worker/       *)
(* worker.go) with the pipeline.Resign that it calls (ipa/pipeline/        *)
(* resign.go), from the entries of the input to those of the output, the   *)
(* answer and the install manifest; and the output signed once more.       *)
(*                                                                         *)
(* ResignPipeline models the same steps over versions of files, to tell    *)
(* what each hash was computed over.  Here files have names and contents,  *)
(* and code remembers only in which round it was last signed.  Errors of   *)
(* the file system are left to ResignPipeline.                             *)
(***************************************************************************)
EXTENDS BundleDiscovery, FiniteSets

CONSTANTS
    Inputs,      \* the archives a caller may have, sequences of entries
    Requests,    \* jsoninput.AppRequest, as far as steps 5 to 10 read it
    NameOrder,   \* the names in lexical order, which filepath.Walk follows
    MaxRounds    \* bound on how often one app is signed

VARIABLES
    pc,
    round,
    input,     \* the archive at InputPath
    request,
    bundle,    \* *AppBundle
    files,     \* the files below tempDir
    dirs,      \* and its directories
    output,    \* the archive at OutputPath; <<>> if there is none
    answer     \* the AppResult, and the manifest if one was written

vars == <<pc, round, input, request, bundle, files, dirs, output, answer>>

-----------------------------------------------------------------------------
(* The files and directories that an archive is unpacked to. *)
Parents(p) == {SubSeq(p, 1, n) : n \in 1..(Len(p) - 1)}
FilesIn(es) == {es[i].path : i \in {j \in DOMAIN es : ~es[j].dir}}
DirEntries(es) == {es[i].path : i \in {j \in DOMAIN es : es[j].dir}}    \* mutant: no MkdirAll
DirsIn(es) == {es[i].path : i \in {j \in DOMAIN es : es[j].dir}}
                  \cup UNION {Parents(es[i].path) : i \in DOMAIN es}

(***************************************************************************)
(* The archives are those that can be unpacked, and the requests those     *)
(* that can be carried out, as far as names go: nothing is to be a file    *)
(* and a directory at once.  The icons that decode are collected in a map  *)
(* by their names (worker.go:176-180).                                     *)
(***************************************************************************)
Names == ToSet(NameOrder)
CodeSignatureDir == Name(<<"_CodeSignature">>, "")
CodeResources == Name(<<"CodeResources">>, "")
ProfileName == Name(<<"embedded">>, "mobileprovision")
InBundle == Name(<<"content">>, "bin")    \* what is in a copied bundle

NewFiles == {CodeResources, ProfileName, InBundle}
                \cup UNION {{i.name : i \in q.icons} \cup q.dylibs : q \in Requests}
NewDirs == {FrameworksDir, CodeSignatureDir} \cup UNION {q.bundles : q \in Requests}

IsData(data) ==
    /\ "kind" \in DOMAIN data
    /\ IsPlist(data) => "keys" \in DOMAIN data
    /\ data.kind = "code" => "signed" \in DOMAIN data

IsArchive(es) ==
    /\ es \in Seq({es[i] : i \in DOMAIN es})
    /\ \A i \in DOMAIN es : /\ es[i].path \in Seq(Names) \ {<<>>}
                            /\ es[i].dir \in BOOLEAN
    /\ FilesIn(es) \cap DirsIn(es) = {}
    /\ \A p \in FilesIn(es) : Last(p) \notin NewDirs /\ IsData(ReadFile(es, p))
    /\ \A p \in DirsIn(es) : Last(p) \notin NewFiles

ASSUME NamesAssumption ==
    /\ NameOrder \in Seq(Names) /\ IsInjective(NameOrder)
    /\ NoName \notin Names
    /\ NewFiles \cup NewDirs \subseteq Names
    /\ InfoPlist \notin NewFiles \cup NewDirs
    /\ NewFiles \cap NewDirs = {}

ASSUME RequestsAssumption ==
    /\ MaxRounds \in Nat \ {0}
    /\ \A es \in Inputs : IsArchive(es)
    /\ \A q \in Requests :
          /\ IsFiniteSet(q.icons) /\ IsFiniteSet(q.bundles) /\ IsFiniteSet(q.dylibs)
          /\ InfoPlist \notin q.removeDylibs
          /\ IsData(q.bundled)
          /\ \A i \in q.icons : IsData(i.data)
          /\ \A i, j \in q.icons : i.decodes /\ j.decodes /\ i.name = j.name => i = j

-----------------------------------------------------------------------------
NoFiles == [p \in {} |-> Payload]
NoBundle == [app |-> <<>>, exec |-> NoName, frameworks |-> {}, plugins |-> {},
             watch |-> {}, dylibs |-> <<>>]
NoManifest == [url |-> 0, images |-> 0, id |-> "", version |-> 0, title |-> ""]

(* processApp starts from what was asked for. *)
Answer(q) == [success |-> FALSE, id |-> q.id, name |-> q.name,
              manifest |-> NoManifest]

Begin(archive, q) ==
    /\ pc' = "open"
    /\ input' = archive
    /\ request' = q
    /\ bundle' = NoBundle
    /\ files' = NoFiles
    /\ dirs' = {}
    /\ output' = <<>>
    /\ answer' = Answer(q)

Init ==
    /\ pc = "open"
    /\ round = 1
    /\ input \in Inputs
    /\ request \in Requests
    /\ bundle = NoBundle
    /\ files = NoFiles
    /\ dirs = {}
    /\ output = <<>>
    /\ answer = Answer(request)

-----------------------------------------------------------------------------
(* Paths in the app. *)
In(names) == bundle.app \o names
InFrameworks(name) == In(<<FrameworksDir, name>>)
Under(dir, paths) == {p \in paths : IsPrefix(dir, p)}

(* What is written over what was there. *)
written ++ fs ==
    [p \in DOMAIN written \cup DOMAIN fs |->
        IF p \in DOMAIN written THEN written[p] ELSE fs[p]]
Without(fs, gone) == [p \in DOMAIN fs \ gone |-> fs[p]]

(* Step 1: OpenIPA and Discover. *)
Open ==
    /\ pc = "open"
    /\ IF Discovers(input)
       THEN pc' = "extract" /\ bundle' = Discover(input)
       ELSE pc' = "returned" /\ UNCHANGED bundle
    /\ UNCHANGED <<round, input, request, files, dirs, output, answer>>

(* Step 2: every entry's path gets what ReadFile gives for its name. *)
Extract ==
    /\ pc = "extract"
    /\ files' = [p \in FilesIn(input) |-> ReadFile(input, p)]
    /\ dirs' = DirsIn(input)
    /\ pc' = "plist"
    /\ UNCHANGED <<round, input, request, bundle, output, answer>>

-----------------------------------------------------------------------------
(* infoplist.Modify.  Versions are numbers, 0 for none; the clock is far   *)
(* ahead of them and goes on from round to round.                          *)
Clock == 100 + round

(* Step 5 of processApp drops icons that base64 does not decode, but keeps *)
(* the name that the Info.plist will point to.                             *)
Icons(q) == {i \in q.icons : i.decodes}
IconName(q) == IF q.icons = {} THEN <<>> ELSE q.iconName

When(condition, keys) == IF condition THEN keys ELSE NoFiles

ShouldBumpMinOS(keys) == KeyOr(keys, "MinimumOSVersion", 0) < 10

BundleName(q) == When(q.name # "", [CFBundleName |-> q.name])    \* mutant: the wrong key
DisplayName(q) == When(q.name # "", [CFBundleDisplayName |-> q.name])

Edits(keys, q) ==
    LET icon == [files |-> <<IconName(q)>>]
    IN  When(q.id # "", [CFBundleIdentifier |-> q.id])
        ++ DisplayName(q)
        ++ When(q.version # 0, [CFBundleShortVersionString |-> q.version])
        ++ [CFBundleVersion |-> Clock]
        ++ When(q.minOS # 0, [MinimumOSVersion |-> q.minOS])
        ++ When(ShouldBumpMinOS(keys), [MinimumOSVersion |-> 10])
        ++ When(IconName(q) # <<>>,
                [key \in {"CFBundleIcons", "CFBundleIcons~ipad"} |-> icon])

Dropped(q) == {"UISupportedDevices"}
                 \cup (IF IconName(q) = <<>> THEN {} ELSE {"CFBundleIconName"})

Modify(keys, q) == Without(Edits(keys, q) ++ keys, Dropped(q))

(* Step 3.  The data was parsed once already, by Discover. *)
ModifyInfoPlist ==
    /\ pc = "plist"
    /\ LET info == In(<<InfoPlist>>)
       IN  files' = [files EXCEPT ![info].keys = Modify(@, request)]
    /\ pc' = "icons"
    /\ UNCHANGED <<round, input, request, bundle, dirs, output, answer>>

AssetsCar == In(<<Name(<<"Assets">>, "car")>>)
Profile == In(<<ProfileName>>)

ReplaceIcon ==
    /\ pc = "icons"
    /\ LET icons == [p \in {In(<<i.name>>) : i \in Icons(request)} |->
                        (CHOOSE i \in Icons(request) : In(<<i.name>>) = p).data]
           gone == IF request.deleteAssets \/ Icons(request) # {}
                   THEN {AssetsCar} ELSE {}
       IN  files' = Without(icons ++ files, gone)
    /\ pc' = "profile"
    /\ UNCHANGED <<round, input, request, bundle, dirs, output, answer>>

(* Step 4: the profile stays unless another is given or it is to go. *)
HandleProfile ==
    /\ pc = "profile"
    /\ files' = IF request.profile
                THEN [p \in {Profile} |-> [kind |-> "profile", of |-> "request"]] ++ files
                ELSE IF request.removeProfile THEN Without(files, {Profile})
                ELSE files
    /\ pc' = "copy"
    /\ UNCHANGED <<round, input, request, bundle, dirs, output, answer>>

(* Step 5: bundles replace what is there; dylibs do not.  Of the tree that *)
(* copyDir copies there is one file, of any kind: code as well.            *)
CopyDylibsOver(q) == q.dylibs    \* mutant: dylibs do as well
CopyDylibs(q) == {d \in q.dylibs : InFrameworks(d) \notin DOMAIN files \cup dirs}

CopyIntoFrameworks ==
    /\ pc = "copy"
    /\ LET inBundle(b) == Append(InFrameworks(b), InBundle)
           bundles == [p \in {inBundle(b) : b \in request.bundles} |-> request.bundled]
           dylibs == [p \in {InFrameworks(d) : d \in CopyDylibs(request)} |->
                         [kind |-> "code", of |-> "request", signed |-> 0]]
       IN  /\ files' = dylibs ++ bundles ++ files
           /\ dirs' = dirs \cup {InFrameworks(b) : b \in request.bundles}
                         \cup (IF request.bundles \cup request.dylibs = {} THEN {}
                              ELSE {In(<<FrameworksDir>>)})
    /\ pc' = "strip"
    /\ UNCHANGED <<round, input, request, bundle, output, answer>>

(* Step 6 *)
Stripped(q) ==
    (IF q.stripExtensions THEN {In(<<PlugInsDir>>)} ELSE {})
        \cup (IF q.stripWatch THEN {In(<<WatchDir>>)} ELSE {})

Strip ==
    /\ pc = "strip"
    /\ LET below(paths) == UNION {Under(d, paths) : d \in Stripped(request)}
       IN  /\ files' = Without(files, below(DOMAIN files))
           /\ dirs' = dirs \ below(dirs)
    /\ bundle' = [bundle EXCEPT
                     !.plugins = IF request.stripExtensions THEN {} ELSE @,
                     !.watch = IF request.stripWatch THEN {} ELSE @]
    /\ pc' = "nested"
    /\ UNCHANGED <<round, input, request, output, answer>>

-----------------------------------------------------------------------------
(* Code is signed in place; what is not a Mach-O cannot be, and ends the   *)
(* call.  A bundle is sealed first.                                        *)
IsCode(p) == p \in DOMAIN files /\ files[p].kind = "code"
SignedFiles(code) ==
    [p \in DOMAIN files |-> IF p \in code THEN [files[p] EXCEPT !.signed = round]
                                          ELSE files[p]]

SealDir(b) == Append(b, CodeSignatureDir)
SealOf(b) == Append(SealDir(b), CodeResources)
Seals(bs) == [p \in {SealOf(b) : b \in bs} |-> [kind |-> "seal", of |-> round]]

Fails == /\ pc' = "returned"
         /\ UNCHANGED <<round, input, request, bundle, files, dirs, output, answer>>

(* Steps 6 to 8: a component without its executable on disk is skipped.    *)
MainOf(c) == Append(c.path, c.exec)
Present(c) == c.exec # NoName /\ MainOf(c) \in DOMAIN files

SignNested ==
    /\ pc = "nested"
    /\ LET bs == {c \in bundle.frameworks \cup bundle.plugins : Present(c)}
           code == {MainOf(c) : c \in bs} \cup ToSet(bundle.dylibs)
       IN  IF \A p \in code : IsCode(p)
           THEN /\ files' = Seals({c.path : c \in bs}) ++ SignedFiles(code)
                /\ dirs' = dirs \cup {SealDir(c.path) : c \in bs}
                /\ pc' = "main"
                /\ UNCHANGED <<round, input, request, bundle, output, answer>>
           ELSE Fails

(* Steps 9 to 11: the dylibs removed from the executable's load commands   *)
(* are deleted from the root of the app, and the app is sealed and signed, *)
(* if its executable is still there.                                       *)
MainExecutable == In(<<bundle.exec>>)
RemovedDylibs(q) == {In(<<d>>) : d \in q.removeDylibs}

SignMain ==
    /\ pc = "main"
    /\ IF IsCode(MainExecutable) /\ MainExecutable \notin RemovedDylibs(request)
       THEN /\ files' = Seals({bundle.app})
                         ++ Without(SignedFiles({MainExecutable}), RemovedDylibs(request))
            /\ dirs' = dirs \cup {SealDir(bundle.app)}
            /\ pc' = "repackage"
            /\ UNCHANGED <<round, input, request, bundle, output, answer>>
       ELSE Fails

-----------------------------------------------------------------------------
(* Step 12: filepath.Walk visits a directory before what is in it, and the *)
(* names of one directory in lexical order.  (Sets of one make TLC compute *)
(* the walk once.)                                                         *)
Rank == [name \in ToSet(NameOrder) |-> CHOOSE i \in DOMAIN NameOrder : NameOrder[i] = name]
Before(p, q) ==
    \/ IsStrictPrefix(p, q)
    \/ \E i \in DOMAIN p \cap DOMAIN q :
          /\ \A j \in 1..(i - 1) : p[j] = q[j]
          /\ Rank[p[i]] < Rank[q[i]]

Walk(paths) ==
    [i \in 1..Cardinality(paths) |->
        CHOOSE p \in paths : Cardinality({q \in paths : Before(q, p)}) = i - 1]

Entry(p) == [path |-> p, dir |-> p \in dirs,
             data |-> IF p \in dirs THEN [kind |-> "none"] ELSE files[p]]

Repackage ==
    /\ pc = "repackage"
    /\ \E paths \in {DOMAIN files \cup dirs} : \E walk \in {Walk(paths)} :
          output' = [i \in DOMAIN walk |-> Entry(walk[i])]
    /\ pc' = "report"
    /\ UNCHANGED <<round, input, request, bundle, files, dirs, answer>>

-----------------------------------------------------------------------------
(* readSignedAppInfo and getAppVersion read the first Info.plist that is   *)
(* in a directory of Payload/, of whatever name.                           *)
InfoEntriesAtAnyDepth(es) ==    \* mutant: or in one of its components
    {i \in DOMAIN es : /\ Len(es[i].path) >= 3 /\ es[i].path[1] = Payload
                       /\ Last(es[i].path) = InfoPlist /\ ~es[i].dir}
InfoEntries(es) ==
    {i \in DOMAIN es : /\ Len(es[i].path) = 3 /\ es[i].path[1] = Payload
                       /\ Last(es[i].path) = InfoPlist /\ ~es[i].dir}

AppInfo(es) ==
    LET found == InfoEntries(es)
        data == ReadFile(es, es[Min(found)].path)
    IN  IF found # {} /\ IsPlist(data) THEN data.keys ELSE NoFiles

Or(value, empty, other) == IF value # empty THEN value ELSE other

GetAppVersion(es) ==
    Or(KeyOr(AppInfo(es), "CFBundleShortVersionString", 0), 0,
       KeyOr(AppInfo(es), "CFBundleVersion", 0))

(* installplist.Generate: what is installed, from where, and two images.   *)
Manifest(id, title) ==
    [url |-> round, images |-> IF request.iconURL THEN 2 ELSE 0, id |-> id,
     version |-> Or(GetAppVersion(input), 0, 1), title |-> title]

(* Steps 9 and 10 of processApp. *)
Report ==
    /\ pc = "report"
    /\ LET info == AppInfo(output)
           id == Or(request.id, "", KeyOr(info, "CFBundleIdentifier", ""))
           name == Or(request.name, "",
                      Or(KeyOr(info, "CFBundleName", ""), "",
                         KeyOr(info, "CFBundleDisplayName", "")))
       IN  answer' = [success |-> TRUE, id |-> id, name |-> name,
                      manifest |-> IF request.createPlist
                                   THEN Manifest(id, name) ELSE NoManifest]
    /\ pc' = "returned"
    /\ UNCHANGED <<round, input, request, bundle, files, dirs, output>>

(* The app that was signed is signed again. *)
Again ==
    /\ pc = "returned"
    /\ answer.success
    /\ round < MaxRounds
    /\ round' = round + 1
    /\ \E q \in Requests : Begin(output, q)

Done ==
    /\ pc = "returned"
    /\ ~answer.success \/ round = MaxRounds
    /\ UNCHANGED vars

Next ==
    \/ Open \/ Extract \/ ModifyInfoPlist \/ ReplaceIcon \/ HandleProfile
    \/ CopyIntoFrameworks \/ Strip \/ SignNested \/ SignMain \/ Repackage
    \/ Report \/ Again \/ Done

Spec == Init /\ [][Next]_vars

-----------------------------------------------------------------------------
(* The phone's view of an archive: inspectIPA and extractDylibs of         *)
(* mobile/gosigner_ffi.go, for archives that Discover accepts.             *)
IconPrefixes(keys) ==
    IF "CFBundleIcons" \in DOMAIN keys THEN keys["CFBundleIcons"].files ELSE <<>>

IconEntries(es, app, prefixes) ==
    {i \in DOMAIN es :
        LET p == es[i].path
        IN  /\ IsStrictPrefix(app, p) /\ Len(p) = Len(app) + 1 /\ ~es[i].dir
            /\ Last(p).ext = "png"
            /\ IF prefixes = <<>> THEN IsPrefix(<<"AppIcon">>, Last(p).stem)
               ELSE \E j \in DOMAIN prefixes : IsPrefix(prefixes[j], Last(p).stem)}

(* The last of the largest. *)
NoIcon == [kind |-> "none"]
ExtractIcon(es, app, keys) ==
    LET icons == IconEntries(es, app, IconPrefixes(keys))
        best == CHOOSE i \in icons : \A j \in icons :
                    \/ es[j].data.size < es[i].data.size
                    \/ es[j].data.size = es[i].data.size /\ j <= i
    IN  IF icons = {} THEN NoIcon ELSE ReadFile(es, es[best].path)

Inspect(es) ==
    LET found == Discover(es)
        keys == ReadFile(es, Append(found.app, InfoPlist)).keys
    IN  [name    |-> Or(KeyOr(keys, "CFBundleDisplayName", ""), "",
                        KeyOr(keys, "CFBundleName", "")),
         id      |-> KeyOr(keys, "CFBundleIdentifier", ""),
         version |-> Or(KeyOr(keys, "CFBundleShortVersionString", 0), 0,
                        KeyOr(keys, "CFBundleVersion", 0)),
         icon    |-> ExtractIcon(es, found.app, keys),
         dylibs  |-> [i \in DOMAIN found.dylibs |-> Last(found.dylibs[i])],
         assets  |-> Has(es, Append(found.app, Name(<<"Assets">>, "car")))]

(* Every file goes to its own name in outDir; the last written stays.      *)
ExtractDylibs(es) ==
    LET found == Discover(es).dylibs
    IN  [n \in {Last(found[i]) : i \in DOMAIN found} |->
            ReadFile(es, found[CHOOSE i \in DOMAIN found : Last(found[i]) = n])]

-----------------------------------------------------------------------------
(* The type invariant: directories and files are apart, every file's       *)
(* directory is there, and the components are below the app.               *)
TypeOK ==
    /\ pc \in {"open", "extract", "plist", "icons", "profile", "copy", "strip",
              "nested", "main", "repackage", "report", "returned"}
    /\ round \in 1..MaxRounds
    /\ request \in Requests
    /\ DOMAIN files \cap dirs = {}
    /\ \A p \in DOMAIN files : Parents(p) \subseteq dirs
    /\ \A c \in bundle.frameworks \cup bundle.plugins \cup bundle.watch :
          IsStrictPrefix(bundle.app, c.path)
    /\ answer.manifest # NoManifest => answer.success

Signed == pc = "returned" /\ answer.success

(***************************************************************************)
(* What the device runs first is signed: in the output, the executable of  *)
(* the app, the executable of every *.framework in Frameworks/ and of      *)
(* every *.appex in PlugIns/, and every *.dylib in Frameworks/, wherever   *)
(* the archive had its entries, was signed in this round, but for dylibs   *)
(* that this round copied in: Resign lists the code before it copies       *)
(* (resign.go:63 and 162-185).                                             *)
(*                                                                         *)
(* No other code is signed, and none is promised: not Watch/*.app, that    *)
(* discover.go:93-104 finds and no loop of resign.go:204-234 signs; not    *)
(* what is nested in an extension or framework or lies beside its          *)
(* executable, or in the app where no component is; not a file in          *)
(* Frameworks/ without the extension, such as a hook that resign.go:183    *)
(* lets the app load as @rpath/hook, in later rounds either; not what is   *)
(* in a copied bundle (resign.go:152-158); and no other app of the archive.*)
(***************************************************************************)
IsExecutable(es, p) == Last(p) = ExecutableOf(es, Front(p))

Reached(es, app, p) ==
    /\ IsPrefix(app, p)
    /\ \/ Len(p) = 3 /\ IsExecutable(es, p)
       \/ Len(p) = 4 /\ p[3] = FrameworksDir /\ p[4].ext = "dylib"
       \/ Len(p) = 5 /\ p[3] = FrameworksDir /\ p[4].ext = "framework"
                     /\ IsExecutable(es, p)
       \/ Len(p) = 5 /\ p[3] = PlugInsDir /\ p[4].ext = "appex"
                     /\ IsExecutable(es, p)

ReachedCodeIsSigned ==
    Signed =>
        /\ Has(output, MainExecutable)
        /\ \A p \in FilesIn(output) :
              Reached(output, bundle.app, p) =>
                  \/ /\ ReadFile(output, p).kind = "code"
                     /\ ReadFile(output, p).signed = round
                  \/ ~Has(input, p) /\ p \in {InFrameworks(d) : d \in request.dylibs}

(***************************************************************************)
(* The output has each file and directory of the input once, but for those *)
(* that were to go, with nothing else changed than what the request names, *)
(* the keys that are always set (modifier.go:26-29), signatures and        *)
(* seals; in particular a dylib that is there already is not replaced      *)
(* (resign.go:170), nor the name in CFBundleName (modifier.go:40-42).      *)
(***************************************************************************)
ToGo(q) ==
    RemovedDylibs(q)
        \cup (IF q.deleteAssets \/ Icons(q) # {} THEN {AssetsCar} ELSE {})
        \cup (IF q.removeProfile /\ ~q.profile THEN {Profile} ELSE {})

Replaced(q) ==
    {In(<<i.name>>) : i \in Icons(q)} \cup (IF q.profile THEN {Profile} ELSE {})
        \cup {Append(InFrameworks(b), InBundle) : b \in q.bundles}

EditedKeys(q) ==
    {"CFBundleVersion", "MinimumOSVersion", "UISupportedDevices"}
        \cup (IF q.id = "" THEN {} ELSE {"CFBundleIdentifier"})
        \cup (IF q.name = "" THEN {} ELSE {"CFBundleDisplayName"})
        \cup (IF q.version = 0 THEN {} ELSE {"CFBundleShortVersionString"})
        \cup (IF q.icons = {} THEN {}
             ELSE {"CFBundleIcons", "CFBundleIcons~ipad", "CFBundleIconName"})

SameBut(edited, before, after) ==
    /\ DOMAIN before \ edited = DOMAIN after \ edited
    /\ \A k \in DOMAIN before \ edited : before[k] = after[k]

OnlyAskedChanges ==
    Signed =>
        LET stripped(paths) == UNION {Under(d, paths) : d \in Stripped(request)}
            kept == FilesIn(input) \ (stripped(FilesIn(input)) \cup ToGo(request))
            seals == {p \in FilesIn(output) : ReadFile(output, p).kind = "seal"}
            info == In(<<InfoPlist>>)
        IN  /\ Len(output) = Cardinality(FilesIn(output) \cup DirsIn(output))
            /\ kept \subseteq FilesIn(output)
            /\ DirsIn(input) \ stripped(DirsIn(input)) \subseteq DirsIn(output)
            /\ FilesIn(output) \ kept
                   \subseteq Replaced(request) \cup seals
                                \cup {InFrameworks(d) : d \in request.dylibs}
            /\ \A p \in kept \ (Replaced(request) \cup seals \cup {info}) :
                  SameBut({"signed"}, ReadFile(input, p), ReadFile(output, p))
            /\ SameBut(EditedKeys(request), ReadFile(input, info).keys,
                       ReadFile(output, info).keys)

(***************************************************************************)
(* With one app in Payload/, the answer and the manifest describe the app  *)
(* in the archive that they come with (worker.go:236 and 259): identifier, *)
(* title, and the version - when no other version was asked for, and the   *)
(* app has one besides the build number, because the manifest's version is *)
(* read from the input (worker.go:255).                                    *)
(***************************************************************************)
OneApp(es) ==
    Cardinality({es[i].path[2] : i \in {j \in DOMAIN es : /\ Len(es[j].path) > 1
                                                        /\ es[j].path[1] = Payload}}) = 1

ReportDescribesOutput ==
    Signed /\ OneApp(input) =>
        LET keys == ReadFile(output, In(<<InfoPlist>>)).keys
            m == answer.manifest
        IN  /\ answer.id = KeyOr(keys, "CFBundleIdentifier", "")
            /\ answer.name \in {KeyOr(keys, "CFBundleDisplayName", ""),
                               KeyOr(keys, "CFBundleName", "")}
            /\ request.name # "" => answer.name = keys.CFBundleDisplayName
            /\ m # NoManifest =>
                  /\ m.id = answer.id /\ m.title = answer.name
                  /\ request.version = 0 /\ KeyOr(keys, "CFBundleShortVersionString", 0) # 0
                         => m.version = keys.CFBundleShortVersionString

(***************************************************************************)
(* What the phone shows of a signed app is what was asked for when it was  *)
(* signed: name, identifier, version, every dylib once - those that have   *)
(* the extension are found - and one of the new icons, if they are images  *)
(* that have the name they go by (without one the old CFBundleIcons stay), *)
(* are not removed again with the dylibs, and no file of the old icon that *)
(* goes by that name as well is as large.  The dylibs that it extracts are *)
(* the input's, signed in this round, and others only that were copied.    *)
(***************************************************************************)
IsImage(data) == data.kind = "png" /\ "size" \in DOMAIN data /\ data.size \in Nat

IconsGoByName(q) ==
    /\ q.iconName # <<>>
    /\ \A i \in q.icons :
          /\ i.decodes /\ IsImage(i.data)
          /\ i.name.ext = "png" /\ IsPrefix(q.iconName, i.name.stem)
          /\ i.name \notin q.removeDylibs
OldIconsAreSmaller(q) ==
    LET old == IconEntries(input, bundle.app, <<q.iconName>>)
    IN  \A j \in old : /\ IsImage(input[j].data)
                       /\ \E i \in q.icons : input[j].data.size < i.data.size

InspectShowsEdits ==
    Signed /\ OneApp(input) =>
        LET seen == Inspect(output)
            q == request
        IN  /\ q.id # "" => seen.id = q.id
            /\ q.name # "" => seen.name = q.name
            /\ q.version # 0 => seen.version = q.version
            /\ q.icons # {} /\ IconsGoByName(q) /\ OldIconsAreSmaller(q) =>
                  seen.icon \in {i.data : i \in q.icons} /\ ~seen.assets
            /\ IsInjective(seen.dylibs)
            /\ {d \in q.dylibs : d.ext = "dylib"} \subseteq ToSet(seen.dylibs)
            /\ \A d \in ToSet(seen.dylibs) :
                  IF Has(input, InFrameworks(d))
                  THEN LET dylib == ExtractDylibs(output)[d]
                       IN  /\ dylib.signed = round
                           /\ SameBut({"signed"}, ReadFile(input, InFrameworks(d)), dylib)
                  ELSE d \in q.dylibs
===============================================================================
