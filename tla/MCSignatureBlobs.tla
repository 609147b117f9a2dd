--------------------------- MODULE MCSignatureBlobs ---------------------------
(* One signature under all options for entitlements, with identifiers and  *)
(* names of every length modulo a word, and with different certificates.   *)
EXTENDS SignatureBlobs

String(n) == [kind |-> "string", text |-> Text("value", n)]
Whole(n) == [kind |-> "int", n |-> n]
Bool(n) == [kind |-> "bool", n |-> n]
Array(items) == [kind |-> "array", items |-> items]
Dictionary == [kind |-> "other"]

(* Half is 4: lengths from 4 on take two bytes, from 8 on three.  IntHalf  *)
(* is 64: an int takes up to three bytes, and two of the numbers are       *)
(* beyond.                                                                 *)
Strings == {String(n) : n \in {0, 3, 4, 7, 8}}
Numbers == {Whole(n) : n \in {-64, -33, -32, -5, -4, -1, 0, 3, 4, 7, 8, 31, 32, 63, 64, 200}}
Arrays == {Array(<<>>), Array(<<String(3), String(0)>>),
           Array(<<Array(<<Bool(1)>>), Bool(0), Whole(-5)>>), Array(<<String(3), Dictionary>>),
           Array(<<Bool(1), Whole(64)>>)}
MCValues == Strings \cup Numbers \cup {Bool(0), Bool(1), Dictionary, Array(<<Bool(1)>>)}
              \cup Arrays
MCDepth ==
    [v \in MCValues |->
        IF v.kind # "array" THEN 0
        ELSE IF \E i \in DOMAIN v.items : v.items[i].kind = "array" THEN 2 ELSE 1]

Ent(values) == [key \in {<<1>>, <<1, 1>>, <<2>>} |->
                  IF key = <<1>> THEN values[1] ELSE IF key = <<2>> THEN values[2] ELSE values[3]]
Plain == Ent(<<String(3), Array(<<Bool(1)>>), Bool(1)>>)
Nested == Ent(<<Dictionary, Bool(1), Bool(0)>>)

Leaf(issuer, algorithm, cn) ==
    [name |-> "leaf", issuer |-> issuer, serial |-> 7, key |-> "own",
     algorithm |-> algorithm, cn |-> Text("leaf", cn), fields |-> {}]
P12(certs) == [key |-> "own", certs |-> certs]
Own == Leaf("WWDR G3", "RSA", 3)
G6 == [AppleWWDRG3 EXCEPT !.name = "WWDR G6", !.serial = 6]

Basic ==
    [role |-> "main", ident |-> 1, team |-> 1, pages |-> 2, info |-> TRUE, seal |-> TRUE,
     xml |-> {Plain}, der |-> FALSE, skipDER |-> FALSE, adhoc |-> FALSE,
     identity |-> TRUE, p12 |-> P12(<<Own>>)]

(* All the options for each kind of code; a dylib has neither an           *)
(* Info.plist nor a seal, and a bundle's Info.plist may be missing.        *)
Options ==
    {[Basic EXCEPT !.role = r[1], !.info = r[2], !.seal = r[3], !.pages = n, !.xml = x,
                   !.der = d, !.skipDER = s, !.adhoc = a[1], !.identity = a[2]] :
        r \in {<<"main", TRUE, TRUE>>, <<"main", FALSE, TRUE>>,
               <<"framework", TRUE, TRUE>>, <<"dylib", FALSE, FALSE>>},
        n \in {0, 2}, x \in {{}, {Plain}, {Nested}}, d, s \in BOOLEAN,
        a \in {<<FALSE, TRUE>>, <<TRUE, TRUE>>, <<TRUE, FALSE>>}}

Entitled == {[Basic EXCEPT !.role = "plugin", !.xml = {x}] :
               x \in {Ent(<<v, Bool(1), Bool(0)>>) : v \in MCValues}
                       \cup {[key \in {} |-> Dictionary], [key \in {<<1>>} |-> String(0)]}}

Certified ==
    {[Basic EXCEPT !.ident = i, !.team = i % 2, !.p12 = P12(c)] :
        i \in 0..4,
        c \in {<<Leaf("WWDR G3", a, cn)>> : a \in {"RSA", "ECDSA"}, cn \in 0..4}
                \cup {<<Own, AppleWWDRG3, AppleRoot>>, <<Leaf("WWDR G6", "RSA", 3), G6>>,
                      <<AppleWWDRG3, Own>>, <<Leaf("leaf", "RSA", 3)>>}}

MCRequests == Options \cup Entitled \cup Certified
===============================================================================
