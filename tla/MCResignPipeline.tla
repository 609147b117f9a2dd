-------------------------- MODULE MCResignPipeline --------------------------
(***************************************************************************)
(* An app with one framework, one plugin with a framework nested in it, a  *)
(* watch app and two dylibs, for TLC.                                      *)
(***************************************************************************)
EXTENDS ResignPipeline

CONSTANTS fw, ext, watch, nested, d1, d2

MCFrameworks == {fw}
MCPlugins == {ext}
MCWatchApps == {watch}
MCNested == {nested}
MCHost == [n \in MCNested |-> ext]
MCDylibs == {d1, d2}

(* The IPA that has exactly the given files. *)
Ipa(files, loaded) ==
    [tree |-> [f \in File |-> IF f \in files THEN 0 ELSE Absent],
     loads |-> loaded]

Code(o) == {o} \X {"exec", "info", "seal", "res"}

(***************************************************************************)
(* A bare app; an app with everything in it, of which both dylibs are      *)
(* loaded; one whose framework is resources only and whose plugin has no   *)
(* Info.plist; one that was never signed.                                  *)
(***************************************************************************)
Full == UNION {Code(o) : o \in {App, fw, ext, watch, nested}}
        \cup {<<App, "profile">>, <<App, "assets">>, <<d1, "exec">>, <<d2, "root">>}
MCInputs ==
    {Ipa(Code(App), {}),
     Ipa(Full, {d1, d2}),
     Ipa(Full \ {<<fw, "exec">>, <<ext, "info">>}, {d2}),
     Ipa(Full \ ({<<App, "exec">>} \cup MCDylibs \X {"exec"}), {}),
     Ipa({f \in Full : f[2] \notin {"seal", "profile"}}, {d1})}

(* Every choice of the options that interact, the others in two settings.  *)
MCRequests ==
    {[id |-> i, ents |-> e, profile |-> p, stripProfile |-> ~p, icons |-> p,
      deleteAssets |-> ~p, bundles |-> p, inject |-> n, form |-> "path",
      remove |-> r, stripExt |-> x, stripWatch |-> x] :
        i \in {NewID, NoID}, e \in {"host", "none"}, p \in BOOLEAN,
        n \in SUBSET MCDylibs, r \in {{}, {d2}}, x \in BOOLEAN}
=============================================================================
