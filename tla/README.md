# A verification of GoSigner

GoSigner re-signs iOS applications: it takes an IPA apart, edits it, seals and
signs every bundle and library in it, and packs it again.  This directory holds
TLA+ specifications of its core, TLC configurations that model-check them on
small instances, and TLAPS proofs of what matters most.  Source references are
to `src/`.

    tlc -config ResignPipeline.cfg MCResignPipeline     # check one run
    tlapm ResignPipelineProofs.tla                      # check one file of proofs

`PROJECT.json` maps every definition to the lines it models, and lists the
components, the runs, the hazards, the findings, the theorems, and for each
checked property a mutant: a plausible mistake that makes it fail.

## 1. The system

A request (JSON after `--data` on the command line, or a call of the mobile
library) names one or more apps.  The **batch worker** starts a goroutine per
app; each may call the **downloader**, loads certificates and profile, and calls
the **re-signing pipeline**.  The pipeline calls **bundle discovery**, the
**IPA archive**, **Info.plist**, **provisioning**, **CodeResources**, the
**Mach-O parser and editor** and the **code signer**, which calls **CMS**.  No
component keeps state between calls except the process-wide logger that the
mobile library redirects; all communication is by calls, by a shared
`*ResignOptions` and by files in a temporary directory.

| component | state and operations | what is hard | what makes it correct |
|---|---|---|---|
| Re-signing pipeline `ipa/pipeline` | the extracted tree, the options, the list of bundles; 12 steps, any of which can fail | lists made early and used late; hashes taken of files that later steps could touch; one options value shared by all components; deferred clean-up | what every seal and signature records is what is in the archive; code is signed after the code below it |
| Bundle discovery `ipa/bundle` | none; lists frameworks, plugins, dylibs by the names of an archive's entries | entries in any order, doubled, without entries for directories; what it does not list is not signed | the executables of the app, its frameworks and extensions and the dylibs of `Frameworks/` are listed, and listed when the loops use them |
| IPA archive `ipa/archive` | entries by name; a zip writer | a name may occur twice: the first entry of it is what is read and what is extracted; `Close` writes the directory | nothing is lost, doubled or added |
| Batch worker `engine/worker`, `engine/cleanup`, `engine/jsoninput` | a semaphore, a wait group, result slots, tracked files | goroutines, panics, early returns | a true report, nothing left on disk, bounded disk use, termination |
| Downloader `engine/downloader` | a partial file, an attempt counter | resumption, error pages, replaced files, cut-off bodies | a whole build or no file |
| Install manifest `engine/installplist` | none; written from the answer | title and identifier come from the signed archive, the version from the input | it describes the archive it points to |
| Mach-O parser `macho/parser` | load commands and slices of a file | - | what it reads is what the editor wrote |
| Mach-O editor `macho/editor`, `macho/dylib` | the edited commands | counts and offsets kept in step by hand; sizes that depend on themselves; FAT slices that move | ends agree, slices do not overlap, code is kept |
| Code signer `codesign` | blobs, CodeDirectory, SuperBlob | negative offsets, an index, hashes made before the blobs are placed | a verifier reads back what was built |
| CMS `codesign/cms` | none; encodes and signs | signatures of varying length; attributes signed under one tag and shipped under another; certificates made unique | signs the directory that is shipped, with the key of the certificate it names |
| CodeResources `plist/coderesources` | two dictionaries of rules, two of files | rules are Go maps, visited in any order | the heaviest rule decides, no file is forgotten |
| Info.plist `plist/infoplist` | a file rewritten in place | keys that are always set, keys set on request | rewritten before it is hashed; nothing changes unasked |
| Provisioning `provision` | the embedded profile, the entitlements | DER lengths at their boundary; values it does not know | entitlements by role; both forms say the same |
| Certificates `certificate` | decoded key stores | the order of a PKCS#12 file | the leaf is the certificate of the key |
| App Store Connect client `appstore` | none: a token per call | - | - |
| Mobile FFI `mobile` | the process's log writer; credentials opened in place; what an archive shows | concurrent calls save and restore the writer; one bundle that does not open fails the call; old icons beat new ones | own log, restored writer, no sealed credentials passed on; what was asked for is shown |
| Command line `main.go`, `cli` | flags | - | - |
| Internal helpers `internal` | none | - | - |

Not reached by any call, and not modelled: the parallel framework signer
`ipa/pipeline/framework.go`, `ipa/bundle/components.go`, `ipa/archive/rawcopy.go`,
`macho/editor/linkedit.go`, `OpenFile` and `AddFileFromReader` of the archive,
`buildCDHashesPlist` of CMS and the merging of entitlements.

## 2. The modules

| module | models | runs | proofs |
|---|---|---|---|
| `ResignPipeline` | `pipeline.Resign`, all steps | `resign`, `resign_identifier`, `resign_injected` | `ResignPipelineProofs` |
| `PostOrderSigning` | abstract: sign bottom-up, then ship | property of `resign` | implemented: `ResignPipelineProofs` |
| `WorkerPool` | `worker.Run`, `processApp`, `cleanup.Tracker` | `worker_pool` | `WorkerPoolProofs` |
| `BatchReport` | abstract: settle all jobs, then report once | property of `worker_pool` | implemented: `WorkerPoolProofs` |
| `Downloader` | `downloader.DownloadToTemp` | `downloader`, `downloader_answer` | `DownloaderProofs` |
| `MachOSigning` | `modifyDylibs`, `signBinaryWithSlots`, parser, editor, writer, page hashes | `macho_signing`, `macho_sections` | `MachOSigningProofs` |
| `IPAContents` | `processApp` around `Resign`, the same steps over names and contents, the manifest, the phone's inspection | `ipa_contents` | `IPAContentsProofs` |
| `BundleDiscovery` | archive entries and `bundle.Discover` | with `IPAContents` | `IPAContentsProofs` |
| `SignatureBlobs` | `signer.SignMachOSlice`, CodeDirectory, SuperBlob | `signature_blobs` | `SignatureBlobsProofs` |
| `Requirements`, `CMSSignature`, `Certificates`, `EntitlementsDER`, `Blobs` | the blobs it is made of, each with its verifier | with `SignatureBlobs` | `SignatureBlobsProofs` |
| `CodeResources`, `DefaultRules`, `DefaultResources` | `coderesources.Generate`, rule matching, rule tables | `code_resources` | `CodeResourcesProofs` |
| `MobileRun` | `GoSignerRun`: the shared logger, the credentials it opens | `mobile_run` | `MobileRunProofs` |

`MC*` modules give the constants of each a small value for TLC.  The modules
share no variables: each abstracts what is below it (`WorkerPool` has Resign as
two steps, `ResignPipeline` has a signature as one record and a seal as one
function, `MachOSigning` has a CodeDirectory as the pages it hashes), and the
module for that lower part shows what the abstraction relies on.  `IPAContents`
goes across: it has the same steps as `ResignPipeline`, with the names and
contents of files instead of their versions, between the archive that the worker
is given and the answer it gives.

### ResignPipeline

A file is named by its bundle and its role, and its content is a version
number.  `disk` is the extracted tree, `seal[b]` the versions that bundle `b`'s
CodeResources records, `sig[x]` what the signature of `x` records (identifier,
Info.plist and CodeResources versions, entitlements, who signed), `job` the call
of `signBinaryWithSlots` in progress.  One action per step of `Resign`, in the
order of the code; `SignComponent`, `SignDylib` and `SignMainExecutable` start a
job that `PassA`, `PassB`, `PassC` carry out with their temporary files; `Fail`
is the error return of every fallible step and `Unwind` the deferred
`RemoveAll`.  The loops take components in any order, which covers the order in
which `Discover` found them.

A signature hashes a file *by version*, so "the hash in the archive is right"
is "the recorded version is the one that was packed".  That is
`SealsMatchArchive` and `SlotsMatchArchive`; neither restates an assignment,
because the seal is made, the hash taken and the file packed in different steps
with all the edits and temporary files in between.

### BundleDiscovery and IPAContents

`BundleDiscovery` takes an IPA for what `Discover` takes it for: a sequence of
entries, in the order in which some archiver wrote them, perhaps two of a name,
perhaps with entries for directories.  A path is a sequence of names, and a name
is its stem and its extension, because that is what the code looks at.

`IPAContents` is one call of `processApp` from the open archive to the answer:
`Open` discovers, `Extract` unpacks (each path gets the data of the first entry
of its name, `resign.go:90`),
`ModifyInfoPlist`, `ReplaceIcon`, `HandleProfile`, `CopyIntoFrameworks`, `Strip`
edit, `SignNested` and `SignMain` sign, `Repackage` walks the tree into a new
archive, `Report` reads it again for the answer and the manifest, and `Again`
makes the output the next input, under another request.  The properties compare
archives, never internal state: what the device runs first in the output, what
was in the input and should still be there, what the answer says, what the phone
shows (`Inspect`, `ExtractDylibs`).  The first of them is `Reached`, which spells
the places out, depth, directory and extension, without any operator that
`Discover` is made from: a wrong depth or suffix there leaves code unsigned that
`ReachedCodeIsSigned` still asks for.  It names no more than that; what ships
unsigned besides is in section 5.  The tree of a copied bundle is one file, of
any kind (`bundled`), code included.  Icons are compared by
size and by the prefixes of their names as `extractIcon` does.

`OnlyAskedChanges` and `InspectShowsEdits` name their exceptions, each of which
is a line of the code: keys that are always set, dylibs that are there already,
old icons that are as large as the new ones.  A new icon is what the phone shows
if the request gives the name the icons go by (without it the old `CFBundleIcons`
stay), if all of them decode, are PNG images with that name as prefix, and are
not among the dylibs to remove; a dylib is listed if it has the extension
`.dylib`, so one request brings one without (`Hook`).  The icons of a request
that decode have distinct names, because the worker collects them in a map
(`worker.go:176-180`).

### WorkerPool

Every variable of the program that two goroutines can see is a variable of the
module: the wait group `wg`, the semaphore `sem`, the slots `results`, the files
on disk (`temp`, `work`, `output`).  `go[i]` is where goroutine `i` is.  The
deferred calls of Go run in the model as they do in the program: `Panic` sends a
goroutine through `Clean`, `Release` and `Finish`, after which `Crash` ends the
process, unless `Run` has returned first.  That race is real: `wg.Done` is
deferred, so `Run` may collect and return a report in which the slot of the
panicking app is the zero value.

### Downloader

The server is the environment: it refuses, sends a page, all of a build, a
range, a 416, cuts a body off with or without an error, and publishes another
build between two requests.  `steady` and `healthy` are history variables:
whether the server has let the client see every cut-off and kept its build, and
whether the last answer was complete.

### MachOSigning

A file is a sequence of cells: a header, load commands, padding, code and data,
signature; a FAT file has an `Arch` cell per slice.  All offsets and sizes are
computed as the code computes them, so an off-by-one in the code is one in the
model.  `Again` feeds the signed file back as the next input, since files that
GoSigner signed are often signed again.  Inputs are made by
`Linked` and `Universal` in `MCMachOSigning` the way a linker and `lipo` lay
files out.

`BinariesAssumption` is what the code takes for granted of them: headers that
parse, one `__LINKEDIT` and at most one signature command to a slice, and room
before the signature (or before the end, if there is none) for the commands that
`MaxRounds` rounds of at most `MaxInject` dylibs add.  It does not say that this
room is padding: where it is code, the code overwrites it, which is the finding
of `macho_sections`.  A slice with less room than that would have its commands
written over its own signature; nothing in the code looks.

### SignatureBlobs

Also cells, of one blob.  `indexOffset` and `dataOffset` are the locals of
`BuildSuperBlob` that carry over from one slot to the next.  `WriteSpecial(s)` copies the hash of one special slot;
the order of the slots is open because Go's `range` over a map is.  The
properties read the finished SuperBlob with nothing but the offsets in it
(`TextAt`, `SpecialSlot`, `CodeSlot`, `BlobsIn`), as a verifier does.

What the blobs hold is in modules of their own, each in two halves: how the code
writes it, operator for function, and how a verifier reads it, written from the
format alone.  `EntitlementsDER` has a tag, one other byte or one character in a
cell, lengths with their short and long form (`Half` stands for 128) and a
decoder, `Decode`; `Requirements` has words of four bytes, the operators in
prefix form and an evaluator, `Satisfies`, which yields where an expression ends
besides whether it holds, so that a wrong padding shows; `CMSSignature` has the
certificates, the signed attributes with their lengths (which give their order)
and the two tags, and `Verifies`; `Certificates` has the built-in ones and the
leaf that is taken out of a PKCS#12 file.  The properties compose them: the
entitlements decoded from the finished SuperBlob are those that were given, its
requirement holds of its own identifier and of the path of certificates in its
own CMS message.  Dates of certificates are not part of the model.

`ValuesAssumption` and `RequestsAssumption` say what a request may hold:
entitlements that are a tree of values (`Depth` is how deep a value is nested)
under finitely many keys, in one XML form at most, a first certificate whose
common name is a text, and which is told from the built-in certificates of Apple
by its name and number.  Integers among the entitlements are any integers, as
`int64` and `uint64` of a property list; `ToInt` is the conversion `int(v)` that
the encoder makes of them (`IntHalf` stands for 2^31 or 2^63), and what follows
it is two's complement.  The decoder gives the entitlements back if their
integers fit (`FitsInt`).  `identity` says whether a certificate was given at
all, since the common name is taken from it in an ad hoc signature too.

### CodeResources, DefaultRules and DefaultResources

`TryRule(r)` is one round of the loop over the rules, in any order.
`CodeResources` is about any rules; `DefaultRules` has the tables of `rules.go`
and the files that each regular expression matches, for paths of every kind that
the expressions tell apart.  The assumption `TiesAgree` (rules of equal weight
that match the same file agree on its flags) is what makes the order irrelevant.
`DefaultResources` puts the two together: the walk, with those tables, and what
`README.md:382-390` says of its result.

### MobileRun

`Request` is `applyEncrypted`: credentials are opened app by app, and if one is
sealed for another device or by another build the whole call fails, before any
worker has started.  `writer` is Go's process-wide log output.  `open`, `shared` and `nested` are
history variables: which calls are in progress, which ran beside another, and
whether the first call in of a group was always the last out.

## 3. The runs

| run | bounds | shows |
|---|---|---|
| `resign` | 1 framework, 1 plugin with a nested bundle, 1 watch app, 2 dylibs; 5 IPAs; 128 combinations of options | sealing, signing, entitlements, load commands, post-order and termination, with a failure at every fallible step |
| `resign_identifier` | the same | **finding**: with a requested identifier, frameworks are signed under the host's (`resign.go:447`; the comment at `resign.go:199` says MUST be its own) |
| `resign_injected` | the same | **finding**: an injected dylib is not signed (`resign.go:215`, `README.md:738`) |
| `ipa_contents` | 120 orders of five entries and 11 odd archives, 5 requests, 2 rounds; code in watch apps, in extensions and in copied bundles | the executables of the app, its frameworks and extensions and the dylibs of `Frameworks/` are signed; nothing changes unasked; answer, manifest and inspection describe the output |
| `worker_pool` | 3 apps, 2 of them downloads, 2 CPUs | a true report, nothing left behind, bounded disk, return or crash, implements `BatchReport` |
| `downloader` | 3 attempts (as in the code), builds of 3 and 2 blocks, pages of 1 and 4 | a steady server's download is whole, failures leave no file, the call returns |
| `downloader_answer` | the same | **finding**: a page kept from one attempt spoils a later complete answer (`download.go:127`, `README.md:600`) |
| `macho_signing` | pages of 3 cells, alignment 4, thin and FAT, signed or not, 3 edits, 2 signature sizes, 2 rounds | the hashes are of the final file, ends agree, slices are apart, code and loads are kept |
| `macho_sections` | binaries with no or one cell of padding | **finding**: a new load command overwrites the first section (`writer.go:38`) |
| `signature_blobs` | identifiers and common names of 0-4 characters, 0 or 2 pages, hashes of 2 cells, all the option flags; 30 entitlement values, `Half = 4`, `IntHalf = 64` and integers from -64 to 200; 14 PKCS#12 files | the directory and the SuperBlob read back; the signature agrees with itself; entitlements decode; the requirement holds |
| `code_resources` | 17 paths of every kind, the real rule tables, every order of rules | the heaviest rule decides; nothing is forgotten; the documented dictionaries |
| `mobile_run` | 3 calls at once, 2 lines each, credentials in the clear, sealed, sealed elsewhere | a call alone gets its own log after any history, sealed credentials go nowhere; the writer comes back |

**Why the bounds are enough.**  What the properties tell apart is covered once
and mostly twice.  `resign`: one component of each kind is enough for order
*between* loops, and two dylibs for order *within* one; the proofs below remove
the bound.  `worker_pool`: three apps on two CPUs is the smallest instance in
which one waits for a token while two work; proved for all sizes.  `downloader`:
three attempts allow a bad body, a resumption and a further attempt; builds of
different lengths and pages shorter and longer than them give every relation of
the offset to the resource, the 416 included.  `macho_signing`: code sizes one
apart put the last page at, before and after a boundary; signatures shorter and
longer than the old one make FAT slices move in both directions.
`signature_blobs`: an empty and a non-empty string and zero or two pages are the
boundary cases of each field; strings of every length modulo a word try the
padding of requirements; with `Half = 4` contents of 3, 4, 7 and 8 cells lie at
both sides of the boundaries between lengths of one, two and three bytes, and
the nesting of `SET`, pair and array carries them outwards; integers lie at both
sides of each sign boundary (-33, -32, -5, -4, 3, 4, 31, 32, in one to three
bytes) and of `IntHalf` (63, 64).  `ipa_contents`: what
`Discover` decides depends on the order of the entries that it compares, so all
orders of five of them are tried, and one archive for each other condition in
its code, with code where it looks and where it does not; the second round is the first in which the input has seals, copied
dylibs and edited keys.  `mobile_run`: two calls make every overlap of two and a
third one is alone after them; the proof removes the bound.  Everything that could grow without end is capped
by a constant: `MaxAttempts` (3 is the code's own), `MaxRounds`, `MaxLines`,
`MaxActive`.

**Fairness.**  `resign`: `WF(Next)`, since Resign is sequential code over finite
lists.  `downloader`: weak fairness of the client's steps only (`Step`), not of
the server's `Publish`; an answer or an error comes because the `http.Client`
has a total timeout.  `worker_pool`: weak fairness for the main goroutine and
for each worker, which is what Go's scheduler gives; no strong fairness is
needed for the semaphore, because each goroutine asks for a token once.  The
other modules claim no liveness.

**Deadlock** is checked in all runs; the end of each is an explicit stuttering
action.

## 4. The proofs

All are of safety, for every value of the constants, from the assumptions named
in the modules.

* **`ResignPipelineProofs`** - from `NamesAssumption` (bundles, dylibs and
  identifiers have different names) and `InputAssumption` (what an IPA may
  contain; the options a caller may give).  `TypeCorrect`, then `SigningIsKept`:
  the inductive invariant `SigningInvariant`.  The final properties are far from
  inductive, since they speak of the archive only.  What makes them true is that
  at *every* step all bundles signed so far are sealed over the tree as it is
  now, and that needs: every temporary file belongs to the job in progress
  (`TempsInPlace`; a stray one would be sealed by the app), code that a loop has
  not passed is in its list (`ListsComplete`; the lists are of the IPA, the tree
  has changed since), the identifier on disk is the requested one
  (`IdentifierInPlace`), and what is being signed is sealed already
  (`SigningInPlace`).  Why sealing the app last is safe, and why signing a
  component does not disturb another's seal, are the lemmas `CoversApart` and
  `SealKept`.  Corollaries: `SealsAreRight`, `SlotsAreRight`,
  `ReceivedCodeSigned`.  The second half is about what the steps come to.
  `ResignSignsInPostOrder`: `ResignPipeline` implements `PostOrderSigning`,
  under the mapping in `ResignPipeline` (`Plan`, `Signed`, `Outcome`), with one
  more invariant, `OrderInPlace`.  `EntitlementsAreByRole` rests on `JobByRole`:
  the options that the signing in progress was given are those of its kind of
  code, whoever shares the rest, and the shared ones are still the caller's,
  never emptied on behalf of a framework.  `InjectedLoadsAreResolved` rests on
  `DylibsInPlace`: before step 5b the paths to inject are the caller's, after it
  they are install names, and each has its file in `Frameworks/` from there on,
  through all the rewriting passes, until the load commands are made from them.
* **`IPAContentsProofs`** - from `NamesAssumption` (which names are of files and
  which of directories where the program makes new ones; a name has one place in
  the lexical order) and `RequestsAssumption` (archives that can be unpacked;
  finite requests with icons of distinct names, none of which removes a dylib by
  the name `Info.plist`), for
  any archives, any requests and any number of rounds.  Four invariants, each on
  top of the one before, and what follows from them:
  - `Layout`: what is on disk is a tree, nothing that a step writes turns a file
    into a directory or the reverse, every component lies in the app, and
    `output` is an archive of the tree, fit to be the next input.  `Repackage`
    needs a theorem of its own, `WalkIs`: the walk numbers the paths of a finite
    set one to one, because the order of `filepath.Walk` is strict and total
    (`BeforeTransitive` and its neighbours, then by counting what is before a
    path).  `ContentsTypes` follows.
  - `Content`: each file on disk is one of the input's, one that the request
    brings, or a seal; those of the input that no later step removes are there,
    equal to what they were but for signatures, and the Info.plist differs in
    the edited keys only.  What is still to be removed depends on the step
    (`Pending`), which is why the property, which speaks of the output only, is
    not inductive.  `ChangesAreAsked` follows.
  - `CodeIsFresh`: from `SignNested` on the dylibs and the executables of the
    components are signed in this round, from `SignMain` on the app's own, and
    no seal, copy or removal undoes it.  The property looks for code in the
    *output* and names its places by themselves, so it takes more: a file at such a
    place is the executable of a component of the output (`ReachedInComponent`),
    such a component was found by `Discover` in the input, with the same
    executable, because its Info.plist is kept (`SameMain`, `ComponentSigned`),
    and a dylib was there or was copied (`DylibSigned`).  `CodeIsSigned` follows.
  - With one app in the archive there is one Info.plist at that depth, before
    and after (the lemma `InfoIsOnly`), so the first one that `readSignedAppInfo` and
    `getAppVersion` meet is the app's.  `ReportIsRight` follows.
  - `Shown`: from `ReplaceIcon` on the new icons are on disk, from
    `CopyIntoFrameworks` on the dylibs, and no directory comes to be outside the
    app that the input does not have.  `Content` does not give this: it says of a
    file what it may be, not that a file that the request brings is still there.
    The last part makes `Discover` find the same app in the output (`SameApp`).
    The icon that `extractIcon` chooses is the last of the largest, which exists
    by counting what is better (`Largest`), and is then a new one or one of the
    input, which is smaller (`OldOrNew`, `IconShown`).  With `CodeIsFresh` for the
    dylibs that the phone extracts (`DylibsExtracted`), `InspectionShowsEdits`
    follows.
* **`WorkerPoolProofs`** - from `PoolAssumption`.  `PoolIsKept`: the counters
  count exactly the goroutines that are pending or hold a token (a counting
  argument on cardinalities, `CountAfterMove`), `Run` collects only after all
  are done, a file on disk belongs to a goroutine that will remove it, a stored
  result is the app's own.  From it `ReportTrue`, `NothingLeft`, `DiskBounded`
  and the refinement `PoolReportsWholeBatch`.
* **`DownloaderProofs`** - from `AttemptsAssumption` and `BodiesAssumption`.
  `DownloadResumes`: with a steady server the file is a beginning of its build
  or something that will never pass validation.  From it `DownloadWhole` and
  `DownloadLeavesFileIffReturned`, for any bodies and number of attempts.
* **`CodeResourcesProofs`** - from `RulesAssumption` and `TiesAgree`.
  `ResourcesKept`: the loop holds the flags of a heaviest rule of those it has
  seen.  From it `HeaviestRuleDecides` and `NoFileForgotten`, for any rules,
  files and order.  The tables of the program are such rules
  (`DefaultTiesAgree`), and which of them is heaviest for which file is decided
  by the kind of the file (`FirstLists`, `SecondDecides`, `SecondLists`), so
  `DefaultsAreAsDocumented` holds of any walk, not only of the one that TLC is
  given.  Its hypothesis `AreDefaults` says that the constants are those tables.
* **`MobileRunProofs`** - from `MobileAssumption`, for any number of calls.
  `MobileInvariantHolds`: nothing leads to a buffer before its call has
  redirected the log (`NothingBeforeRedirect`), while a call is alone the writer
  is its own (`AloneLogsToItself`), and the first of a group holds the process's
  writer (`FirstFoundStderr`); that an app's credentials are open needs nothing
  else.  `WriterIsRestoredHolds` follows.
* **`SignatureBlobsProofs`** - from `RequestsAssumption`, for hashes, headers,
  strings and blobs of any size, any number of pages, and any entitlements,
  identifiers and certificates.
  `DirectoryInvariantHolds` says of every cell of the CodeDirectory what is in
  it after each copy: the header and the strings do not change
  (`StringsInPlace`), the special slots that have been visited hold their hashes
  and the others zeros (`SpecialsInPlace`), whatever the order, because their
  places are disjoint (`HashPlaces`).  `DirectoryIsReadBack` follows: a verifier
  finds each hash by its index and each string up to its zero.
  `SuperBlobIsReadBack` does the same for the SuperBlob: `indexOffset` counts
  the slots that have been written, and `dataOffset` and the blobs still to come
  (`SizeLeft`) add up to the length that was given to the header before any was
  written, so each blob goes behind the others and fits.  For that
  `BlobsSize`, which Go adds up in the order of a map, is written as the sum
  over the five slots that are ever used.  `SignatureAgrees` joins the two
  invariants: what a special slot hashes is the blob that the index leads to,
  and the message signs the directory that is embedded.  The last part is about
  what is in the blobs.  Both encodings are prefix codes, so the lemmas say of a
  sequence that it *stands* at a place of another (`Stands`) and what a reader
  makes of that place, wherever it is and whatever follows.  For requirements:
  a word of characters with its padding is read back, and each operator consumes
  what it wrote, so the evaluator ends where the expression does and finds the
  identifier, the leaf's name and the extension of the issuer in the message of
  the same signature: `RequirementIsMet`.  For entitlements: a length is read
  back in its short and its long form (`LengthIsRead`), the keys that
  `SortedKeys` puts in order are all of them, once each (induction over the
  finite set), and what `marshalValue` writes is read as the value it was given,
  by induction on how deep the value is nested; `EntitlementsAreReadBack`
  follows, for the pairs the encoder supports and integers that an int holds.  `ContentsInvariant` carries both
  from `BuildBlobs` to the finished SuperBlob.
* **`MachOSigningProofs`** - from `LayoutAssumption` and `BinariesAssumption`,
  for thin and FAT files of any size and number of slices, any pages, alignment
  and signature sizes, and any number of rounds.  `SigningInvariantHolds`: the
  inductive invariant `Inv` has a part for each `pc`.  Before the passes the
  file parses to good slices with room for all the commands still to come
  (`AtModify`, `RoundsLeft`); during passes A and B what is in memory is ready
  to be written, and what it will be written to derives from the file before
  (`AtPassA`, `AtPassB`); before pass C the file of pass B has its final sizes
  and offsets (`AtPassC`), which is why the signatures made from it fit the file
  that pass C writes; afterwards the file is a signed one and, since it may be
  signed again, ready for `AtModify` (`AtSigned`).  Below it are lemmas about
  the operators: what `WriteMachO` writes parses back to what was written
  (header, commands, contents), `Align` rounds up, `ArchOffsets` never places a
  slice on another, `WriteEach` therefore keeps each slice that it has written,
  `Filtered` keeps the commands that are not to be removed and no more,
  `ComputePageHashes` covers each cell below the limit once, `Pad` brings a
  signature to its announced size.  Corollaries: `SigningTypes`,
  `SignedHashesMatch`, `SignedEndsAgree`, `SignedSlicesApart`,
  `SignedCodeIsKept`, `SignedLoads`: all that `macho_signing` checks.

`Filtered`, `WriteEach` and `ArchOffsets` are recursive functions of a number.
The library's induction theorems take the formula as an operator, which the
provers cannot instantiate; `MachOSigningProofs` does induction over a *set* of
numbers instead (`Smallest`: a nonempty set of naturals has a least member,
and `Induction`, which follows), and that is enough.

**Only model-checked:** liveness (`Returns` of three modules), which TLAPS
cannot prove here.  Every invariant that a passing run checks has a theorem.

## 5. What the runs say about the documentation

The four findings are in section 3 and, with quotations, in `PROJECT.json`.
Other disagreements were met while reading and have no run:

* `Resign` returns nil though closing the archive failed (`resign.go:306`, a
  deferred `Close` whose error is dropped), so a full disk at the last moment
  gives exit code 0 and an archive without its directory (`README.md:947`).
* `RequirementReadsBack` is stated for leaves issued by WWDR G3.  The code puts
  that intermediate, the root and the first certificate of the identity into the
  message (`signer.go:135-160`), so with a leaf of another intermediate (G6) the
  issuer is missing and the signature's own requirement, which asks for its
  extension (`requirements.go:54`), cannot be evaluated from it.
* Two properties say less for a PKCS#12 file that does not begin with the
  certificate of its key (`BeginsWithLeaf`).  `p12.go:27` takes the first
  certificate for the leaf; in other files the signature is then made with a key
  that is not that certificate's, without an error, and does not verify.
* Integers among the entitlements are encoded as `int(v)` (`der.go:79-82`).  On
  the 32-bit targets of `Makefile:69-80` one of 2^31 or more loses its upper
  bits or changes its sign without an error, on the others one of 2^63 or more;
  the XML form keeps it, so the two slots then disagree.
* Not all code that ships is signed.  `Resign` signs the executables of the app,
  of `Frameworks/*.framework` and of `PlugIns/*.appex`, and
  `Frameworks/*.dylib`.  It does not sign `Watch/*.app`, which `Discover` lists
  (`discover.go:93-104`) and no loop takes up (`resign.go:204-234`); code nested
  in an extension or framework or lying beside its executable; a dylib copied in
  the same round, nor, if it has no extension, in a later one, though the app
  loads it as `@rpath/...` (`resign.go:183`); code in a copied bundle
  (`resign.go:152-158`); nor other apps of the archive.  What of it came with a
  signature keeps that one.  `ReachedCodeIsSigned` is about the places that are
  signed.
* `EncodeDER` sorts by key, its comment (`der.go:18-19`) says by DER encoding;
  the two differ for keys of different lengths.
* The comment at `cms/signature.go:236-246` speaks of the plain key algorithm;
  for ECDSA the code uses ecdsaWithSHA256.
* `modifier.go:47-50` promises that the build number is never a downgrade; it is
  the clock in seconds, which is below a build number written as a date and time.
* An icon name is kept though none of its files could be decoded
  (`worker.go:178-182`), so the app's icon keys then name files that are not
  there; `InspectShowsEdits` excepts that.
* The manifest's version is read from the input (`worker.go:255`), so with a
  requested version it is the old one; `ReportDescribesOutput` excepts that.
* With two apps in `Payload/` the answer may describe the other one
  (`worker.go:305`); `ReportDescribesOutput` is stated for one app.
* `README.md:937` lists `verify`, which prints that it is not implemented.
* Two builds can be mixed: a range request has no `If-Range`
  (`download.go:100`), so if the file is replaced between two attempts the rest
  of the new one is appended to the old one.  `DownloadIsWhole` is stated for a
  steady server.
* A panic in one app ends the whole process (`worker.go:52` has no `recover`),
  against `README.md:950`, "every failure still produces a well-formed JSON
  response".  The goroutines that it stops do not clean up: their downloads and
  extraction directories stay on disk.  `NothingLeftOnReturn` is about a `Run`
  that returns, and no property speaks of the disk after a crash.
* With an ECDSA key the signature of pass C may be longer than that of pass A,
  and signing fails (`resign.go:572`).
* Entitlements that `EncodeDER` does not support are left out of the DER slot
  without an error (`signer.go:46-50`), so the app has five special slots, not
  the seven of `README.md:175`.
* `buildFullCertChain` keeps only the first certificate of the identity's chain,
  where the comment at `signer.go:98` lists the existing chain.
* The comment of `GenerateCMS` (`cms/signature.go:20-28`) requires attributes
  that its body leaves out; the tree in the comment of `BuildRequirements`
  (`requirements.go:23-31`) is not the one it builds.
* `README.md:735` has `@executable_path/Frameworks/`, the code uses `@rpath/`;
  `README.md:709-711` says that `application-identifier` is rewritten, and
  `README.md:977` that disk space is checked first: no code does either.
* `connectTimeout` in the downloader has no use.
* Calls of `GoSignerRun` that overlap get each other's log lines, and leave the
  logger on a dead buffer if the first one in is not the last one out
  (`gosigner_ffi.go:149-152`); one may read its buffer while another's workers
  still write to it, which is a data race.

## 6. Not modelled

* **Bytes**: zip compression, file modes, XML, key stores, regular expressions
  as such.  Where a property needs one, it is represented by what it does (a hash
  by what it hashes, a version by a number, ASN.1 by tags, lengths and contents).
* **Cryptography**: a signature is what was signed and by whom, an encrypted
  bundle is what it opens to and with what key.
* **Mach-O details**: byte order, word size, `vmsize`, exec-segment fields,
  rejection of malformed files; 32-bit wrap-around of offsets (`pages.go:18`, for
  slices of almost 4 GiB).
* **Loading certificates** beyond the order in a PKCS#12 file: PEM and P8 files,
  `certificate/chain/x509.go`, expiry.
* **The App Store Connect client**: a token made anew for each request, one HTTP
  call, nothing kept and nothing retried; no other component calls it.
* **The command line and `main.go`**: flags and printing around one call.
* **Transient I/O errors** in `IPAContents`; `ResignPipeline` has them at every
  fallible call, but reads of files that exist succeed there too
  (`resign.go:378`, `427` ignore their errors).
* **The file at OutputPath before the call, and partial output** of a failed
  `Resign`: nothing removes it, no document says what should happen to it.
* **Back-off times, logging** (but for whose buffer it goes to) **and helpers**
  in `internal`: no state that steps of different actors touch.

## 7. Plan

Done, in this order: the pipeline and its proofs, the post-order refinement, the
downloader, the worker pool with `BatchReport`, one binary, CodeResources, the
mobile logger, the blobs of a signature; then discovery and the archives with
the worker around them, the encodings inside a signature with their verifiers,
the mobile credentials; then the proofs about the logger, the options, the
CodeDirectory, the SuperBlob and the whole signature, about the bytes of one
binary, about the contents of archives, about the encodings inside a signature
and about the default rule tables.  What is left:

* *Relate* `ResignPipeline` and `IPAContents`: both model `Resign`, one over
   versions and one over contents, and a mapping from the second to
   `PostOrderSigning` would tie them to one abstract specification.
