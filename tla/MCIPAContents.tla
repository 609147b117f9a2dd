----------------------------- MODULE MCIPAContents -----------------------------
(* One app with components of every kind, in archives that are laid out    *)
(* and damaged in different ways, and requests for every edit.             *)
EXTENDS IPAContents

N(stem, ext) == Name(<<stem>>, ext)
App == N("Notes", "app")
Other == N("Album", "app")
Ads == N("Ads", "framework")
Share == N("Share", "appex")
Icon60 == Name(<<"AppIcon", "60">>, "png")
Icon76 == Name(<<"AppIcon", "76">>, "png")
Lib == N("lib", "dylib")
New == N("new", "dylib")
Hook == N("hook", "")

MCNameOrder ==
    <<N("Ads", ""), Ads, Other, N("Album", ""), Icon60, Icon76, N("Assets", "car"),
      N("CodeResources", ""), N("Extension", ""), FrameworksDir, InfoPlist, N("Notes", ""),
      App, Payload, PlugInsDir, N("Share", ""), Share, N("Skin", "bundle"), WatchDir,
      N("_CodeSignature", ""), N("content", "bin"), N("embedded", "mobileprovision"), Hook,
      N("iTunesMetadata", "plist"), Lib, New>>

(* Entries *)
File(path, data) == [path |-> path, dir |-> FALSE, data |-> data]
Dir(path) == [path |-> path, dir |-> TRUE, data |-> [kind |-> "none"]]
Plist(keys) == [kind |-> "plist", keys |-> keys]
Code(name) == [kind |-> "code", of |-> name, signed |-> 0]
Data(name) == [kind |-> "data", of |-> name]
Png(name, size) == [kind |-> "png", of |-> name, size |-> size]

At(names) == <<Payload, App>> \o names
InFw(names) == At(<<FrameworksDir>> \o names)

Keys == [CFBundleIdentifier |-> "org.notes", CFBundleName |-> "Notes",
         CFBundleExecutable |-> N("Notes", ""), CFBundleVersion |-> 7,
         MinimumOSVersion |-> 9, UISupportedDevices |-> "all"]
Info(keys) == File(At(<<InfoPlist>>), Plist(keys))
Main == File(At(<<N("Notes", "")>>), Code("notes"))
AdsInfo(exec) == File(InFw(<<Ads, InfoPlist>>),
                      Plist([CFBundleIdentifier |-> "com.ads", CFBundleExecutable |-> exec]))
AdsCode(exec) == File(InFw(<<Ads, exec>>), Code("ads"))
Loose == File(InFw(<<Lib>>), Code("lib"))
Plugin == File(At(<<PlugInsDir, Share, N("Share", "")>>), Code("share"))
Nested == File(At(<<PlugInsDir, Share, FrameworksDir, Ads, N("Ads", "")>>), Code("nested"))
Watch == File(At(<<WatchDir, N("Notes", "app"), N("Notes", "")>>), Code("watch"))

(* The five entries that Discover looks for, in every order... *)
Core == <<Info(Keys), Main, AdsInfo(N("Ads", "")), AdsCode(N("Ads", "")), Loose>>
Rest == <<File(At(<<Icon76>>), Png("old", 2)), File(At(<<N("Assets", "car")>>), Data("car")),
          File(<<N("iTunesMetadata", "plist")>>, Data("store"))>>
Orders == {[i \in 1..5 |-> Core[p[i]]] : p \in {f \in [1..5 -> 1..5] : IsInjective(f)}}

(* ... and archives that are not so plain: extensions with code nested in  *)
(* them and watch apps, an executable of another name, entries for         *)
(* directories, entries that occur twice, two apps, and what Discover or   *)
(* the signer refuse.                                                      *)
Full == [Keys EXCEPT !.MinimumOSVersion = 12]
           @@ [CFBundleShortVersionString |-> 3, CFBundleDisplayName |-> "My Notes",
               CFBundleIcons |-> [files |-> <<<<"AppIcon", "76">>>>]]
Special ==
    {<<Plugin, Nested, Watch, Info(Full), Main, File(At(<<N("embedded", "mobileprovision")>>), Data("p"))>>
        \o Rest,
     <<Dir(<<Payload, App>>), Dir(InFw(<<Ads>>)), AdsCode(N("Extension", "")),
       AdsInfo(N("Extension", "")), Info(Keys), Main, Plugin>>,
     <<Info(Keys), Main, AdsCode(N("Ads", "")), AdsInfo(N("Extension", "")), Loose, Loose>>,
     <<Main, Info(Full), Info([Keys EXCEPT !.CFBundleExecutable = N("Extension", "")]),
       File(At(<<Lib>>), Code("root"))>>,
     <<Info(Full), Main, File(<<Payload, Other, InfoPlist>>,
        Plist([Keys EXCEPT !.CFBundleExecutable = N("Album", ""),
                           !.CFBundleIdentifier = "org.album"])),
       File(<<Payload, Other, N("Album", "")>>, Code("album"))>>,
     <<File(InFw(<<Ads, InfoPlist>>), Data("text")), AdsCode(N("Ads", "")), Info(Full), Main>>,
     <<Info(Keys), Plugin, Loose>>,
     <<Info(Keys), Main, File(InFw(<<Ads, N("Ads", "")>>), Data("text"))>>,
     <<Main, File(At(<<InfoPlist>>), Data("text"))>>,
     <<Dir(<<Payload, Other>>), Info(Keys), Main>>,
     <<File(<<N("iTunesMetadata", "plist")>>, Data("store"))>>}

MCInputs == {o \o Rest : o \in Orders} \cup Special

Plain == [id |-> "", name |-> "", version |-> 0, minOS |-> 0, iconName |-> <<>>,
          icons |-> {}, deleteAssets |-> FALSE, profile |-> FALSE,
          removeProfile |-> FALSE, bundles |-> {}, bundled |-> Data("extra"), dylibs |-> {}, removeDylibs |-> {},
          stripExtensions |-> FALSE, stripWatch |-> FALSE, iconURL |-> FALSE,
          createPlist |-> TRUE]
Icon(name, size, decodes) ==
    [name |-> name, data |-> Png("new", size), decodes |-> decodes]

MCRequests ==
    {Plain,
     [Plain EXCEPT !.id = "org.mine", !.name = "Mine", !.version = 4, !.minOS = 15,
                   !.dylibs = {Lib, New, Hook}, !.bundles = {N("Skin", "bundle")}, !.bundled = Code("extra")],
     [Plain EXCEPT !.name = "Mine", !.iconName = <<"AppIcon">>, !.profile = TRUE,
                   !.icons = {Icon(Icon60, 3, TRUE), Icon(Icon76, 3, TRUE)},
                   !.removeDylibs = {Lib}, !.iconURL = TRUE],
     [Plain EXCEPT !.iconName = <<"AppIcon">>, !.icons = {Icon(Icon60, 1, TRUE)},
                   !.stripExtensions = TRUE, !.stripWatch = TRUE, !.removeProfile = TRUE],
     [Plain EXCEPT !.iconName = <<"AppIcon">>, !.icons = {Icon(Icon60, 3, FALSE)},
                   !.deleteAssets = TRUE, !.createPlist = FALSE]}
===============================================================================
