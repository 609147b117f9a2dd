---------------------------- MODULE BundleDiscovery ----------------------------
(***************************************************************************)
(* What the program takes an IPA to be: the entries of a zip file in the   *)
(* order in which they were written (ipa/archive/reader.go), and the app   *)
(* and its components that bundle.Discover finds among their names         *)
(* (ipa/bundle/discover.go).                                               *)
(*                                                                         *)
(* A path is a sequence of names.  A name is what is before its last dot,  *)
(* in pieces so that prefixes can be told, and what is behind it.  An      *)
(* entry of a directory is told from a file's by the slash at its end,     *)
(* here dir.  Nothing stops an archive from having two entries of a name.  *)
(***************************************************************************)
EXTENDS Integers, SequencesExt

Name(stem, ext) == [stem |-> stem, ext |-> ext]
NoName == Name(<<>>, "")
Payload == Name(<<"Payload">>, "")
FrameworksDir == Name(<<"Frameworks">>, "")
PlugInsDir == Name(<<"PlugIns">>, "")
WatchDir == Name(<<"Watch">>, "")
InfoPlist == Name(<<"Info">>, "plist")

(* A plist is a dictionary; a key that is not there reads as empty. *)
IsPlist(data) == data.kind = "plist"
KeyOr(keys, key, empty) == IF key \in DOMAIN keys THEN keys[key] ELSE empty

-----------------------------------------------------------------------------
(* IPAReader.ReadFile: the first entry of that name. *)
EntriesOf(es, p) == {i \in DOMAIN es : es[i].path = p /\ ~es[i].dir}
Has(es, p) == EntriesOf(es, p) # {}
ReadFile(es, p) == es[Min(EntriesOf(es, p))].data

(* The entries below a directory whose next name has the extension. *)
Below(es, dir, ext) ==
    {i \in DOMAIN es : /\ Len(es[i].path) > Len(dir)
                       /\ IsPrefix(dir, es[i].path)
                       /\ es[i].path[Len(dir) + 1].ext = ext}

FindAppPath(es) ==
    LET inApp == Below(es, <<Payload>>, "app")
    IN  IF inApp = {} THEN <<>> ELSE SubSeq(es[Min(inApp)].path, 1, 2)

(* The executable that the Info.plist of a bundle names. *)
NamedExecutable(es, bundle) ==
    LET info == Append(bundle, InfoPlist)
    IN  IF Has(es, info) /\ IsPlist(ReadFile(es, info))
        THEN KeyOr(ReadFile(es, info).keys, "CFBundleExecutable", NoName)
        ELSE NoName

(* discoverComponent: without one, the name of the directory is used. *)
ExecutableOf(es, bundle) ==
    IF NamedExecutable(es, bundle) # NoName THEN NamedExecutable(es, bundle)
    ELSE Name(Last(bundle).stem, "")

Component(es, bundle) == [path |-> bundle, exec |-> ExecutableOf(es, bundle)]

(* A component is found by any entry below its directory, or by the one of *)
(* the directory itself.                                                   *)
ByDirectoryEntries(es, dir, ext) ==    \* mutant: only by the latter
    {Component(es, SubSeq(es[i].path, 1, Len(dir) + 1)) :
        i \in {j \in Below(es, dir, ext) : es[j].dir}}
Components(es, dir, ext) ==
    {Component(es, SubSeq(es[i].path, 1, Len(dir) + 1)) : i \in Below(es, dir, ext)}

(* The loose dylibs, once for every entry and in their order. *)
Dylibs(es, dir) ==
    [i \in {j \in Below(es, dir, "dylib") : Len(es[j].path) = Len(dir) + 1 /\ ~es[j].dir}
        |-> es[i].path]

(* Discover gives up without an app or without the name of its executable, *)
(* for which its Info.plist must be there and be a plist.                  *)
Discovers(es) ==
    FindAppPath(es) # <<>> /\ NamedExecutable(es, FindAppPath(es)) # NoName

Discover(es) ==
    LET app == FindAppPath(es)
    IN  [app        |-> app,
         exec       |-> NamedExecutable(es, app),
         frameworks |-> Components(es, Append(app, FrameworksDir), "framework"),
         plugins    |-> Components(es, Append(app, PlugInsDir), "appex"),
         watch      |-> Components(es, Append(app, WatchDir), "app"),
         dylibs     |-> Dylibs(es, Append(app, FrameworksDir))]
===============================================================================
