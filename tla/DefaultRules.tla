---------------------------- MODULE DefaultRules ----------------------------
(***************************************************************************)
(* The two dictionaries of plist/coderesources/rules.go, and what their    *)
(* regular expressions match.  Of a path they see whether it lies in a     *)
(* Base.lproj at the top, in another *.lproj, in a *.dSYM or elsewhere,    *)
(* and its last component.                                                 *)
(***************************************************************************)
EXTENDS Naturals

Dirs == {"top", "Base.lproj", "en.lproj", "dSYM", "sub"}
Names == {"Info.plist", "PkgInfo", "version.plist", "locversion.plist",
          ".DS_Store", "embedded.provisionprofile", "CodeResources", "Exec", "file"}

Files == [dir : Dirs, name : Names]

Anywhere(name) == {p \in Files : p.name = name}    \* mutant: no anchor
AtTop(name) == {p \in Files : p.dir = "top" /\ p.name = name}
InLproj == {p \in Files : p.dir \in {"Base.lproj", "en.lproj"}}

(* The files that a pattern matches. *)
Pattern == [
    all        |-> Files,                                    \* ^.*
    lproj      |-> InLproj,                                  \* ^.*\.lproj/
    locversion |-> {p \in InLproj : p.name = "locversion.plist"},
    base       |-> {p \in Files : p.dir = "Base.lproj"},     \* ^Base\.lproj/
    version    |-> AtTop("version.plist"),
    dSYM       |-> {p \in Files : p.dir = "dSYM"},           \* .*\.dSYM($|/)
    DSStore    |-> {p \in Files : p.name = ".DS_Store"},     \* ^(.*/)?\.DS_Store$
    info       |-> AtTop("Info.plist"),
    pkgInfo    |-> AtTop("PkgInfo"),
    profile    |-> AtTop("embedded.provisionprofile")]

(* A rule; weight 0 stands for none. *)
R(pattern, weight, flags) ==
    [pattern |-> pattern, weight |-> weight,
     omit |-> "omit" \in flags, optional |-> "optional" \in flags]

DefaultRulesV1 == {
    R("all", 0, {}),
    R("lproj", 1000, {"optional"}),
    R("locversion", 1100, {"omit"}),
    R("base", 1010, {}),
    R("version", 0, {})}

DefaultRulesV2 == {
    R("dSYM", 11, {}),
    R("DSStore", 2000, {"omit"}),
    R("all", 1, {}),
    R("lproj", 1000, {"optional"}),
    R("locversion", 1100, {"omit"}),
    R("base", 1010, {}),
    R("info", 20, {"omit"}),
    R("pkgInfo", 20, {"omit"}),
    R("profile", 20, {}),
    R("version", 20, {})}

IsFileExcluded(p) == p.dir = "top" /\ p.name \in {"CodeResources", "Exec"}
=============================================================================
