---------------------------- MODULE MCMobileRun ----------------------------
(* Three calls that overlap in any way, for apps whose certificates come   *)
(* in the clear, sealed for this device, or sealed for another one.        *)
EXTENDS MobileRun, TLC

CONSTANTS c1, c2, c3
MCCalls == {c1, c2, c3}
Symmetry == Permutations(MCCalls)

Seal(udid, pepper) ==
    [pepper |-> pepper, udid |-> udid, certID |-> "cert", credentials |-> "sealed"]
App(enc) == [enc |-> enc, udid |-> "device", certID |-> "cert", credentials |-> "given"]
Clear == App({})
Sealed == App({Seal("device", "ours")})
Elsewhere == App({Seal("other", "ours")})
OldBuild == App({Seal("device", "old")})

MCApps == {Clear, Sealed, Elsewhere, OldBuild}
MCRequests == {<<Clear, Sealed>>, <<Sealed, Elsewhere>>, <<OldBuild>>}
=============================================================================
