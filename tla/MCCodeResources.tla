--------------------------- MODULE MCCodeResources ---------------------------
(* A walk over files of every kind that the default rules tell apart. *)
EXTENDS DefaultResources

F(dir, name) == [dir |-> dir, name |-> name]

MCWalk == <<
    F("top", ".DS_Store"), F("Base.lproj", ".DS_Store"), F("Base.lproj", "file"),
    F("Base.lproj", "locversion.plist"), F("top", "CodeResources"),
    F("top", "Exec"), F("top", "Info.plist"), F("top", "PkgInfo"),
    F("sub", "Info.plist"), F("top", "embedded.provisionprofile"),
    F("en.lproj", ".DS_Store"), F("en.lproj", "file"),
    F("en.lproj", "locversion.plist"), F("dSYM", "Info.plist"),
    F("dSYM", "file"), F("top", "version.plist"), F("top", "file")>>

ASSUME DefaultsAssumption == AreDefaults
=============================================================================
