---------------------------- MODULE SignatureBlobs ----------------------------
(***************************************************************************)
(* signer.SignMachOSlice (codesign/signer/signer.go): the blobs of one     *)
(* signature, the CodeDirectory that hashes them (codesign/blobs/          *)
(* codedirectory.go), the CMS signature over it, and the SuperBlob that    *)
(* holds them all (superblob.go).                                          *)
(*                                                                         *)
(* A blob is a sequence of cells.  Its first cell is its header and says   *)
(* how long it is; a hash takes HashSize cells, an index entry one.        *)
(***************************************************************************)
EXTENDS Requirements, EntitlementsDER, CMSSignature

CONSTANTS
    HashSize,
    HeaderSize,   \* the fixed part of a CodeDirectory
    Requests      \* what SignMachOSlice is called for

(***************************************************************************)
(* A request says what kind of code is signed, how long its identifier and *)
(* team are and how many pages it has, whether there are an Info.plist and *)
(* a CodeResources, what entitlements the caller gave, whether an identity *)
(* is given and the PKCS#12 file it was loaded from; an ad hoc signature   *)
(* has no message with or without one.  The set xml holds at most one      *)
(* dictionary of entitlements.  No certificate has the issuer and the      *)
(* number of another one, as X.509 demands, or the name of one of Apple's. *)
(***************************************************************************)
ASSUME RequestsAssumption ==
    /\ HashSize \in Nat \ {0}
    /\ HeaderSize \in Nat \ {0}
    /\ \A q \in Requests :
          /\ DOMAIN q = {"role", "ident", "team", "pages", "info", "seal", "xml",
                         "der", "skipDER", "adhoc", "identity", "p12"}
          /\ q.role \in {"main", "plugin", "framework", "dylib"}
          /\ q.ident \in Nat /\ q.team \in Nat /\ q.pages \in Nat
          /\ q.info \in BOOLEAN /\ q.seal \in BOOLEAN
          /\ \A x, y \in q.xml : x = y
          /\ \A ent \in q.xml : /\ IsFiniteSet(DOMAIN ent) /\ DOMAIN ent \subseteq Seq(Nat)
                               /\ ent \in [DOMAIN ent -> Values]
          /\ q.der \in BOOLEAN /\ q.skipDER \in BOOLEAN /\ q.adhoc \in BOOLEAN
          /\ q.identity \in BOOLEAN
          /\ Len(q.p12.certs) > 0
          /\ IsText(Head(q.p12.certs).cn)
          /\ \A c \in {AppleRoot, AppleWWDRG3} :
                SameNumber(Head(q.p12.certs), c) \/ Head(q.p12.certs).name = c.name
                    => Head(q.p12.certs) = c

VARIABLES
    pc,
    request,
    blobs,    \* blobMap: the blob of each slot that has one
    special,  \* specialHashes, a Go map
    todo,     \* the special slots whose hash is not in the CodeDirectory yet
    buf,      \* the CodeDirectory that is being written
    super,    \* the SuperBlob that is being written
    next,     \* the place in SlotOrder that it has come to
    indexOffset, dataOffset    \* where its next entry and its next blob go

assembly == <<super, next, indexOffset, dataOffset>>
vars == <<pc, request, blobs, special, todo, buf, assembly>>

-----------------------------------------------------------------------------
Hash(x) == [k \in 1..HashSize |-> [hash |-> x, part |-> k]]

(* The slots of the SuperBlob, in the order in which they are written. *)
SlotOrderWithoutDER == <<0, 2, 5, 4096, 65536>>    \* mutant: a slot is forgotten
SlotOrder == <<0, 2, 5, 7, 4096, 65536>>
CodeDirectorySlot == 0
RequirementsSlot == 2
EntitlementsSlot == 5
DEREntitlementsSlot == 7
CMSSlot == 65536

(* With one more blob. *)
Put(b, slot, blob) == [s \in DOMAIN b \cup {slot} |-> IF s = slot THEN blob ELSE b[s]]
NoBlobs == [s \in {} |-> <<>>]

-----------------------------------------------------------------------------
(* What signComponent and signDylib make of the options: code that is not  *)
(* a main binary gets an empty dictionary and no entitlements in DER.      *)
IsMain(q) == q.role \in {"main", "plugin"}
NoEntitlements == [key \in {} |-> [kind |-> "other"]]
LocalOptions(q) ==
    IF IsMain(q) THEN q
    ELSE [q EXCEPT !.xml = {NoEntitlements}, !.der = FALSE, !.skipDER = TRUE]

HasMessage(q) == ~q.adhoc /\ q.identity
BundleID(q) == Text("bundle", q.ident)
TeamID(q) == Text("team", q.team)
LeafCN(q) == IF q.identity THEN LoadP12(q.p12).certificate.cn ELSE <<>>

Init ==
    /\ pc = "blobs"
    /\ request \in Requests
    /\ blobs = NoBlobs
    /\ special = NoBlobs
    /\ todo = {}
    /\ buf = <<>>
    /\ super = <<>>
    /\ next = 1
    /\ indexOffset = 1
    /\ dataOffset = 0

(* Steps 2 and 3: DER entitlements are those of the caller, or made from   *)
(* the XML ones; if that fails there are none.                             *)
CallersDER == <<[tag |-> "caller"]>>
DERContent(q) ==
    IF q.skipDER THEN {}
    ELSE IF q.der THEN {CallersDER}
    ELSE {EncodeDER(ent) : ent \in {x \in q.xml : Encodes(x)}}

BuildBlobs ==
    /\ pc = "blobs"
    /\ LET q == LocalOptions(request)
           der == DERContent(q)
       IN  blobs' =
             [s \in {RequirementsSlot}
                      \cup (IF q.xml = {} THEN {} ELSE {EntitlementsSlot})
                      \cup (IF der = {} THEN {} ELSE {DEREntitlementsSlot}) |->
                CASE s = RequirementsSlot -> BuildRequirements(BundleID(q), LeafCN(q))
                  [] s = EntitlementsSlot ->
                        WrapBlob("entitlements", <<[xml |-> CHOOSE x \in q.xml : TRUE]>>)
                  [] s = DEREntitlementsSlot -> WrapBlob("DER", CHOOSE x \in der : TRUE)]
    /\ pc' = "special"
    /\ UNCHANGED <<request, special, todo, buf, assembly>>

(* Step 4: the special slots are hashes of two files and of whole blobs.   *)
HashesOfContents(q) ==    \* mutant: the header of a blob is not hashed
    [s \in (IF q.info THEN {1} ELSE {}) \cup (IF q.seal THEN {3} ELSE {})
              \cup DOMAIN blobs |->
        IF s \in {1, 3} THEN Hash([file |-> s]) ELSE Hash([blob |-> Tail(blobs[s])])]
SpecialHashes(q) ==
    [s \in (IF q.info THEN {1} ELSE {}) \cup (IF q.seal THEN {3} ELSE {})
              \cup DOMAIN blobs |->
        IF s \in {1, 3} THEN Hash([file |-> s]) ELSE Hash([blob |-> blobs[s]])]

(* Step 5: the CodeDirectory has room for all slots up to the highest.     *)
SpecialSlots(hashes) == Max(DOMAIN hashes \cup {0})

BeginDirectory ==
    /\ pc = "special"
    /\ special' = SpecialHashes(request)
    /\ todo' = DOMAIN special'
    /\ LET ident == BundleID(request) \o <<Zero>>
           team == TeamID(request) \o <<Zero>>
           teamOffset == HeaderSize + Len(ident)
           n == SpecialSlots(special')
           hashOffset == teamOffset + Len(team) + n * HashSize
           size == hashOffset + request.pages * HashSize
           header == [magic |-> "directory", length |-> size,
                      hashOffset |-> hashOffset, identOffset |-> HeaderSize,
                      teamOffset |-> teamOffset, nSpecialSlots |-> n,
                      nCodeSlots |-> request.pages, main |-> IsMain(request)]
       IN  buf' = CopyTo(CopyTo(CopyTo(Zeros(size), 0, <<header>>),
                                HeaderSize, ident),
                         teamOffset, team)
    /\ pc' = "directory"
    /\ UNCHANGED <<request, blobs, assembly>>

(* The hashes are copied in the order in which Go ranges over the map. *)
SpecialOffsetForward(s) ==    \* mutant: in ascending order
    buf[1].hashOffset - (buf[1].nSpecialSlots - s + 1) * HashSize
SpecialOffset(s) == buf[1].hashOffset - s * HashSize

WriteSpecial(s) ==
    /\ pc = "directory"
    /\ s \in todo
    /\ buf' = CopyTo(buf, SpecialOffset(s), special[s])
    /\ todo' = todo \ {s}
    /\ UNCHANGED <<pc, request, blobs, special, assembly>>

WritePages ==
    /\ pc = "directory"
    /\ todo = {}
    /\ LET hash(p) == Hash([page |-> ((p - 1) \div HashSize) + 1])
           hashes == [p \in 1..(request.pages * HashSize) |->
                         hash(p)[((p - 1) % HashSize) + 1]]
       IN  buf' = CopyTo(buf, buf[1].hashOffset, hashes)
    /\ pc' = "cms"
    /\ UNCHANGED <<request, blobs, special, todo, assembly>>

(* Step 6: the CMS signature is over the hash of the CodeDirectory. *)
Sign ==
    /\ pc = "cms"
    /\ LET identity == LoadP12(request.p12)
           cms == GenerateCMS(identity, BuildFullCertChain(identity.certChain), Hash(buf))
       IN  blobs' = Put(Put(blobs, CodeDirectorySlot, buf),
                        CMSSlot, WrapBlob("CMS", IF HasMessage(request) THEN <<[cms |-> cms]>>
                                                 ELSE <<>>))
    /\ pc' = "assemble"
    /\ UNCHANGED <<request, special, todo, buf, assembly>>

(* Step 7: the SuperBlob, with an index of its blobs.  There is never a    *)
(* blob for the slot 4096.                                                 *)
SuperHeaderSize(count) == 1 + count
SizeOf(b, slot) == IF slot \in DOMAIN b THEN Len(b[slot]) ELSE 0
BlobsSize(b) ==
    SizeOf(b, CodeDirectorySlot) + SizeOf(b, RequirementsSlot)
        + SizeOf(b, EntitlementsSlot) + SizeOf(b, DEREntitlementsSlot)
        + SizeOf(b, CMSSlot)

BeginSuper ==
    /\ pc = "assemble"
    /\ LET count == Cardinality(DOMAIN blobs)
           size == SuperHeaderSize(count) + BlobsSize(blobs)
       IN  /\ super' = CopyTo(Zeros(size), 0,
                              <<[magic |-> "super", length |-> size, count |-> count]>>)
           /\ dataOffset' = SuperHeaderSize(count)
    /\ pc' = "super"
    /\ UNCHANGED <<request, blobs, special, todo, buf, indexOffset, next>>

(* The next slot: an entry behind those of the slots before it, and its    *)
(* blob behind theirs.                                                     *)
WriteBlob ==
    /\ pc = "super"
    /\ next <= Len(SlotOrder)
    /\ LET slot == SlotOrder[next]
           entry == [slot |-> slot, offset |-> dataOffset]
       IN  IF slot \in DOMAIN blobs
           THEN /\ super' = CopyTo(CopyTo(super, indexOffset, <<entry>>),
                                   dataOffset, blobs[slot])
                /\ indexOffset' = indexOffset + 1
                /\ dataOffset' = dataOffset + Len(blobs[slot])
           ELSE UNCHANGED <<super, indexOffset, dataOffset>>
    /\ next' = next + 1
    /\ pc' = IF next = Len(SlotOrder) THEN "done" ELSE "super"
    /\ UNCHANGED <<request, blobs, special, todo, buf>>

Done == pc = "done" /\ UNCHANGED vars

Next ==
    \/ BuildBlobs \/ BeginDirectory \/ (\E s \in 1..7 : WriteSpecial(s))
    \/ WritePages \/ Sign \/ BeginSuper \/ WriteBlob \/ Done

Spec == Init /\ [][Next]_vars

-----------------------------------------------------------------------------
(* The type invariant; the slots -4 and -6 are never used. *)
TypeOK ==
    /\ pc \in {"blobs", "special", "directory", "cms", "assemble", "super", "done"}
    /\ request \in Requests
    /\ DOMAIN blobs \subseteq {SlotOrder[i] : i \in DOMAIN SlotOrder}
    /\ \A s \in DOMAIN blobs : Len(blobs[s]) = blobs[s][1].length
    /\ DOMAIN special \subseteq {1, 2, 3, 5, 7}
    /\ todo \subseteq DOMAIN special
    /\ buf # <<>> => Len(buf) = buf[1].length
    /\ next \in 1..(Len(SlotOrder) + 1)

(* What a verifier reads, with nothing but the offsets it is given. *)
TextAt(b, off) ==
    Cells(b, off, Min({p \in (off + 1)..Len(b) : b[p] = Zero}) - 1 - off)
SpecialSlot(cd, s) == Cells(cd, cd[1].hashOffset - s * HashSize, HashSize)
CodeSlot(cd, i) == Cells(cd, cd[1].hashOffset + (i - 1) * HashSize, HashSize)

Entries(b) == {e \in {b[i] : i \in 2..(1 + b[1].count)} : "slot" \in DOMAIN e}
BlobsIn(b, slot) ==
    {Cells(b, e.offset, b[e.offset + 1].length) : e \in {x \in Entries(b) : x.slot = slot}}

(***************************************************************************)
(* Whatever order Go visits the special hashes in, the CodeDirectory gives *)
(* each of them back at its negative index, zeros at the indexes that have *)
(* none, the hash of each page, and both strings.                          *)
(***************************************************************************)
DirectoryReadsBack ==
    pc \in {"cms", "assemble", "super", "done"} =>
        /\ \A s \in 1..buf[1].nSpecialSlots :
              SpecialSlot(buf, s) = IF s \in DOMAIN special THEN special[s]
                                    ELSE Zeros(HashSize)
        /\ \A s \in DOMAIN special : s <= buf[1].nSpecialSlots
        /\ \A i \in 1..request.pages : CodeSlot(buf, i) = Hash([page |-> i])
        /\ TextAt(buf, buf[1].identOffset) = BundleID(request)
        /\ TextAt(buf, buf[1].teamOffset) = TeamID(request)

(***************************************************************************)
(* The index of the SuperBlob leads to exactly the blobs that were built,  *)
(* and the SuperBlob ends with the last one of them.                       *)
(***************************************************************************)
SuperBlobReadsBack ==
    pc = "done" =>
        /\ super[1].length = Len(super)
        /\ Cardinality(Entries(super)) = super[1].count
        /\ {e.slot : e \in Entries(super)} = DOMAIN blobs
        /\ \A slot \in DOMAIN blobs : BlobsIn(super, slot) = {blobs[slot]}

(***************************************************************************)
(* The signature agrees with itself (README.md:219-231, 339-341): the      *)
(* requirements and both kinds of entitlements that a verifier finds are   *)
(* the ones that the CodeDirectory hashes, and it hashes no others; unless *)
(* it is ad hoc or no identity was given, the CodeDirectory is the one     *)
(* that was signed, by the one signer whose certificate the message names  *)
(* - if the PKCS#12 file begins with the certificate of its key.           *)
(***************************************************************************)
BeginsWithLeaf(p12) == Head(p12.certs).key = p12.key
SignatureAgreesWithItself ==
    pc = "done" => \A cd \in BlobsIn(super, CodeDirectorySlot) :
        /\ \A s \in {RequirementsSlot, EntitlementsSlot, DEREntitlementsSlot} :
              IF BlobsIn(super, s) = {}
              THEN s <= cd[1].nSpecialSlots => SpecialSlot(cd, s) = Zeros(HashSize)
              ELSE /\ s <= cd[1].nSpecialSlots
                   /\ \A b \in BlobsIn(super, s) : SpecialSlot(cd, s) = Hash([blob |-> b])
        /\ \A cms \in BlobsIn(super, CMSSlot) :
              HasMessage(request) /\ BeginsWithLeaf(request.p12) =>
                  Verifies(cms[2].cms, Hash(cd))

(***************************************************************************)
(* README.md:158-159, 175, 189, 233-234 and der.go:11-26: what a verifier  *)
(* decodes from the DER entitlements of an app or an extension is the      *)
(* dictionary in XML, every key once and in order, unless they were given, *)
(* declined, or cannot be encoded, or an integer in it is beyond Go's int  *)
(* (32 bits on four of the Makefile's targets): der.go:79-82 then writes   *)
(* another number.  A framework or a dylib has an empty dictionary, five   *)
(* special slots and none in DER, and is not a main binary, though its     *)
(* options come from the app's.                                            *)
(***************************************************************************)
EntitlementsReadBack ==
    pc = "done" => \A cd \in BlobsIn(super, CodeDirectorySlot) :
        /\ cd[1].main = IsMain(request)
        /\ IF IsMain(request)
           THEN /\ \A xml \in BlobsIn(super, EntitlementsSlot),
                       der \in BlobsIn(super, DEREntitlementsSlot) :
                      ~request.der /\ FitsInt(xml[2].xml) => Says(Tail(der), xml[2].xml)
                /\ (\E ent \in request.xml : Encodes(ent)) /\ ~request.skipDER =>
                      BlobsIn(super, DEREntitlementsSlot) # {} /\ cd[1].nSpecialSlots = 7
           ELSE /\ BlobsIn(super, DEREntitlementsSlot) = {}
                /\ \A xml \in BlobsIn(super, EntitlementsSlot) : DOMAIN xml[2].xml = {}
                /\ cd[1].nSpecialSlots = 5

(***************************************************************************)
(* requirements.go:16-35: the signature satisfies its own designated       *)
(* requirement, whatever the lengths of the identifier and of the common   *)
(* name: the identifier in it is the CodeDirectory's, the common name that *)
(* of the certificate that signed, whose issuer is in the message too - if *)
(* that is WWDR G3, the only one that is built in.                         *)
(***************************************************************************)
RequirementReadsBack ==
    pc = "done" /\ HasMessage(request) /\ BeginsWithLeaf(request.p12)
      /\ Head(request.p12.certs).issuer = AppleWWDRG3.name =>
        \A cd \in BlobsIn(super, CodeDirectorySlot),
           set \in BlobsIn(super, RequirementsSlot), cms \in BlobsIn(super, CMSSlot) :
             \A leaf \in Signers(cms[2].cms) :
                Satisfies(set, TextAt(cd, cd[1].identOffset), PathFrom(cms[2].cms, leaf))
===============================================================================
