---------------------------- MODULE MachOSigning ----------------------------
(***************************************************************************)
(* What re-signing does to the bytes of one Mach-O binary: modifyDylibs    *)
(* and the three passes of signBinaryWithSlots (ipa/pipeline/resign.go),   *)
(* with the parser, the editor and the page hashing below them.            *)
(*                                                                         *)
(* A file is a sequence of cells.  The header, each load command and each  *)
(* entry of the FAT header is a cell; so are a unit of padding, code or    *)
(* data and a unit of a signature, the first of which holds the            *)
(* CodeDirectory, which is represented by the pages it hashes.  Offsets    *)
(* count cells from 0, as the code counts bytes.                           *)
(***************************************************************************)
EXTENDS Integers, Sequences, FiniteSetsExt

CONSTANTS
    PageSize,
    FATAlign,
    Binaries,   \* the files that linkers and other signers have made
    Edits,      \* [paths, bases, inject]: what to remove and what to inject
    MaxInject,  \* how many dylibs are injected at once
    CMSSizes,   \* the sizes that one key's CMS blob can have
    MaxRounds   \* how many times the file is re-signed

ASSUME LayoutAssumption ==
    /\ PageSize \in Nat \ {0} /\ FATAlign \in Nat \ {0}
    /\ MaxRounds \in Nat \ {0} /\ MaxInject \in Nat
    /\ CMSSizes \subseteq Nat
    /\ \A e \in Edits : /\ Len(e.inject) \in 0..MaxInject
                        /\ DOMAIN e.inject = 1..Len(e.inject)

VARIABLES
    pc,
    round,
    file,      \* the file at path
    macho,     \* the parsed file, with what was edited since
    sizes,     \* discoverySizes
    tmpB,      \* the file of pass B
    edit,      \* the edits of this round
    original,  \* the file before this round
    result

vars == <<pc, round, file, macho, sizes, tmpB, edit, original, result>>

-----------------------------------------------------------------------------
(* Cells. *)

Zero == [zero |-> 0]
CMSCell == [cms |-> 0]
Header(ncmds) == [ncmds |-> ncmds]
Dylib(name) == [dylib |-> name]
Linkedit(off, size) == [linkedit |-> off, size |-> size]
CodeSig(off, size) == [codesig |-> off, size |-> size]
Fat(narch) == [narch |-> narch]
Arch(off, size) == [arch |-> off, size |-> size]
CodeDirectory(pages) == [pages |-> pages]

Is(kind, cell) == kind \in DOMAIN cell

(* The cells at offsets from..to-1, as far as the file goes. *)
Read(f, from, to) == SubSeq(f, from + 1, IF to < Len(f) THEN to ELSE Len(f))

(* Writing at an offset; a gap that a seek leaves reads as zeros. *)
WriteAt(f, off, cells) ==
    [p \in 1..Max({Len(f), off + Len(cells)}) |->
        IF p > off /\ p <= off + Len(cells) THEN cells[p - off]
        ELSE IF p <= Len(f) THEN f[p] ELSE Zero]

-----------------------------------------------------------------------------
(* The parser. *)

ParseSlice(f, off, size) ==
    LET ncmds == f[off + 1].ncmds
    IN  [offset |-> off, size |-> size, ncmds |-> ncmds,
         cmds |-> Read(f, off + 1, off + 1 + ncmds)]

Open(f) ==
    IF Is("narch", f[1])
    THEN [fat |-> TRUE,
          slices |-> [i \in 1..f[1].narch |->
                         ParseSlice(f, f[i + 1].arch, f[i + 1].size)]]
    ELSE [fat |-> FALSE, slices |-> <<ParseSlice(f, 0, Len(f))>>]

Places(slice, kind) == {i \in DOMAIN slice.cmds : Is(kind, slice.cmds[i])}
HasCmd(slice, kind) == Places(slice, kind) # {}
Cmd(slice, kind) == slice.cmds[Min(Places(slice, kind))]

-----------------------------------------------------------------------------
(* The editor. *)

(* More commands, and the header says so. *)
AppendUncounted(slice, cmds) ==     \* mutant: the header is not told
    [slice EXCEPT !.cmds = @ \o cmds]
AppendCmds(slice, cmds) ==
    [slice EXCEPT !.cmds = @ \o cmds, !.ncmds = @ + Len(cmds)]

SetCodeSignatureCmd(slice, off, size) ==
    IF HasCmd(slice, "codesig")
    THEN [slice EXCEPT !.cmds[Min(Places(slice, "codesig"))] = CodeSig(off, size)]
    ELSE AppendCmds(slice, <<CodeSig(off, size)>>)

(* By its whole name or by its last component. *)
ShouldRemove(cmd, e) ==
    Is("dylib", cmd) /\ (cmd.dylib \in e.paths \/ cmd.dylib[2] \in e.bases)

Filtered(cmds, e) ==
    LET filtered[i \in 0..Len(cmds)] ==
          IF i = 0 THEN <<>>
          ELSE IF ShouldRemove(cmds[i], e) THEN filtered[i - 1]
          ELSE Append(filtered[i - 1], cmds[i])
    IN  filtered[Len(cmds)]

RemoveUncounted(slice, e) ==     \* mutant: the header is not told
    [slice EXCEPT !.cmds = Filtered(@, e)]
Remove(slice, e) ==
    LET kept == Filtered(slice.cmds, e)
    IN  [slice EXCEPT !.cmds = kept,
                      !.ncmds = @ - (Len(slice.cmds) - Len(kept))]

(* Inject for each name. *)
InjectAll(slice, names) ==
    AppendCmds(slice, [i \in 1..Len(names) |-> Dylib(names[i])])

(* The offset of the signature, or where one will be appended. *)
CalculateCodeLimit(slice) ==
    IF HasCmd(slice, "codesig") THEN Cmd(slice, "codesig").codesig
    ELSE IF HasCmd(slice, "linkedit")
    THEN Cmd(slice, "linkedit").linkedit + Cmd(slice, "linkedit").size
    ELSE slice.size

UpdateNothing(slice, csOff, csSize) == slice    \* mutant: only the command
UpdateLinkedit(slice, csOff, csSize) ==
    IF ~HasCmd(slice, "linkedit") THEN slice
    ELSE LET off == Cmd(slice, "linkedit").linkedit
         IN  [slice EXCEPT !.cmds[Min(Places(slice, "linkedit"))] =
                 Linkedit(off, csOff + csSize - off)]

(***************************************************************************)
(* The edited header and commands, what the source has behind the place    *)
(* where they end now, up to the signature, and the signature.             *)
(***************************************************************************)
CmdsEnd(slice) == 1 + slice.ncmds

WriteMachO(source, slice, signature) ==
    LET end == IF HasCmd(slice, "codesig") THEN Cmd(slice, "codesig").codesig
               ELSE slice.size
    IN  <<Header(slice.ncmds)>> \o slice.cmds
        \o Read(source, slice.offset + CmdsEnd(slice), slice.offset + end)
        \o signature

Align(off) == ((off + FATAlign - 1) \div FATAlign) * FATAlign

(* The size in the FAT header; without a signature, the one it had. *)
ArchSizeOfInput(slice, signature) == slice.size    \* mutant
ArchSize(slice, signature) ==
    IF signature # <<>> /\ HasCmd(slice, "codesig")
    THEN Cmd(slice, "codesig").codesig + Len(signature)
    ELSE slice.size

ArchSizes(slices, signatures) ==
    [i \in 1..Len(slices) |-> ArchSize(slices[i], signatures[i])]

ArchOffsets(archSizes) ==
    LET n == Len(archSizes)
        offset[i \in 1..n] ==
          Align(IF i = 1 THEN 1 + n ELSE offset[i - 1] + archSizes[i - 1])
    IN  offset

(* One after another, each at its offset. *)
WriteEach(f, offsets, contents) ==
    LET written[i \in 0..Len(contents)] ==
          IF i = 0 THEN f ELSE WriteAt(written[i - 1], offsets[i], contents[i])
    IN  written[Len(contents)]

WriteFAT(source, slices, signatures) ==
    LET n == Len(slices)
        archSizes == ArchSizes(slices, signatures)
        offsets == ArchOffsets(archSizes)
    IN  WriteEach(<<Fat(n)>> \o [i \in 1..n |-> Arch(offsets[i], archSizes[i])],
                  offsets,
                  [i \in 1..n |-> WriteMachO(source, slices[i], signatures[i])])

WriteToFile(source, m, signatures) ==
    IF m.fat THEN WriteFAT(source, m.slices, signatures)
    ELSE WriteMachO(source, m.slices[1], signatures[1])

NoSignatures(m) == [i \in DOMAIN m.slices |-> <<>>]

-----------------------------------------------------------------------------
(* The signer. *)

WholePageHashes(f, base, limit) ==    \* mutant: without the last, short page
    [p \in 1..(limit \div PageSize) |->
        Read(f, base + (p - 1) * PageSize, base + p * PageSize)]
ComputePageHashes(f, base, limit) ==
    [p \in 1..((limit + PageSize - 1) \div PageSize) |->
        Read(f, base + (p - 1) * PageSize,
                base + (IF p * PageSize < limit THEN p * PageSize ELSE limit))]

SignSlice(f, slice, cmsSize) ==
    <<CodeDirectory(ComputePageHashes(f, slice.offset, CalculateCodeLimit(slice)))>>
    \o [i \in 1..cmsSize |-> CMSCell]

(* Zeros up to the size that the header was given. *)
NoPadding(signature, size) == signature    \* mutant
Pad(signature, size) ==
    signature \o [i \in 1..(size - Len(signature)) |-> Zero]

-----------------------------------------------------------------------------
(***************************************************************************)
(* The binaries that are signed.  A slice has one __LINKEDIT segment, at   *)
(* most one signature, and room for its commands and those to come before  *)
(* the place of the signature: linkers leave some behind the commands, and *)
(* the code relies on it without looking (CopiesAllSections).              *)
(***************************************************************************)
Slices(f) == Open(f).slices

IsCommand(c) ==
    /\ DOMAIN c \in {{"dylib"}, {"linkedit", "size"}, {"codesig", "size"}}
    /\ Is("linkedit", c) => c.linkedit \in Nat /\ c.size \in Int
    /\ Is("codesig", c) => c.codesig \in Nat /\ c.size \in Nat

IsSlice(f, s) ==
    /\ s.offset \in Nat /\ s.size \in Nat /\ s.ncmds \in Nat
    /\ s.offset + s.size <= Len(f)
    /\ CalculateCodeLimit(s) \in Nat /\ CalculateCodeLimit(s) <= s.size
    /\ CmdsEnd(s) + 1 + MaxRounds * MaxInject <= CalculateCodeLimit(s)
    /\ \A j \in 1..s.ncmds : IsCommand(s.cmds[j])
    /\ \A kind \in {"linkedit", "codesig"} : \A j, k \in 1..s.ncmds :
          Is(kind, s.cmds[j]) /\ Is(kind, s.cmds[k]) => j = k
    /\ HasCmd(s, "linkedit")

ASSUME BinariesAssumption ==
    \A f \in Binaries :
        /\ f \in Seq({f[p] : p \in DOMAIN f}) /\ Len(f) > 0
        /\ Is("narch", f[1]) => f[1].narch \in Nat \ {0}
        /\ \A i \in DOMAIN Slices(f) : IsSlice(f, Slices(f)[i])

-----------------------------------------------------------------------------
(* Resign on a binary, step by step. *)

Init ==
    /\ pc = "modify"
    /\ round = 1
    /\ file \in Binaries
    /\ macho = Open(file)
    /\ sizes = <<>>
    /\ tmpB = <<>>
    /\ edit \in Edits
    /\ original = file
    /\ result = "none"

(* Step 9 edits the main executable, which loses its old signature. *)
ModifyDylibs ==
    /\ pc = "modify"
    /\ LET m == Open(file)
           edited(s) == InjectAll(Remove(s, edit), edit.inject)
       IN  /\ file' = WriteToFile(file,
                          [m EXCEPT !.slices = [i \in DOMAIN @ |-> edited(@[i])]],
                          NoSignatures(m))
           /\ macho' = Open(file')
    /\ pc' = "passA"
    /\ UNCHANGED <<round, sizes, tmpB, edit, original, result>>

(* No dylib to inject or to remove, or not the main executable. *)
KeepDylibs ==
    /\ pc = "modify"
    /\ pc' = "passA"
    /\ edit' = [paths |-> {}, bases |-> {}, inject |-> <<>>]
    /\ UNCHANGED <<round, file, macho, sizes, tmpB, original, result>>

(* Each slice's signature command gets a size of 0; a first signature of   *)
(* the file that is written like that shows how long one will be.          *)
PassA ==
    /\ pc = "passA"
    /\ macho' = [macho EXCEPT !.slices = [i \in DOMAIN @ |->
                    SetCodeSignatureCmd(@[i], CalculateCodeLimit(@[i]), 0)]]
    /\ LET tmpA == WriteToFile(file, macho', NoSignatures(macho))
           slices == Open(tmpA).slices
       IN  \E cms \in [DOMAIN slices -> CMSSizes] :
              sizes' = [i \in DOMAIN slices |->
                           Len(SignSlice(tmpA, slices[i], cms[i]))]
    /\ pc' = "passB"
    /\ UNCHANGED <<round, file, tmpB, edit, original, result>>

(* With the size in the commands the file is as it will be. *)
FinalSlice(slice, size) ==
    LET limit == CalculateCodeLimit(slice)
    IN  UpdateLinkedit(SetCodeSignatureCmd(slice, limit, size), limit, size)

PassB ==
    /\ pc = "passB"
    /\ macho' = [macho EXCEPT !.slices = [i \in DOMAIN @ |->
                    FinalSlice(@[i], sizes[i])]]
    /\ tmpB' = WriteToFile(file, macho', NoSignatures(macho))
    /\ pc' = "passC"
    /\ UNCHANGED <<round, file, sizes, edit, original, result>>

(* The final signatures, of the file of pass B, which is then written      *)
(* again with them; a signature that outgrew the first one is an error.    *)
PassC ==
    /\ pc = "passC"
    /\ LET m == Open(tmpB)
       IN  \E cms \in [DOMAIN m.slices -> CMSSizes] :
              LET sig == [i \in DOMAIN m.slices |->
                             SignSlice(tmpB, m.slices[i], cms[i])]
              IN  IF \E i \in DOMAIN sig : Len(sig[i]) > sizes[i]
                  THEN result' = "grew" /\ UNCHANGED file
                  ELSE /\ result' = "ok"
                       /\ file' = WriteToFile(tmpB, m,
                             [i \in DOMAIN sig |-> Pad(sig[i], sizes[i])])
    /\ pc' = "done"
    /\ UNCHANGED <<round, macho, sizes, tmpB, edit, original>>

(* The signed file is the input of another run. *)
Again ==
    /\ pc = "done"
    /\ result = "ok"
    /\ round < MaxRounds
    /\ round' = round + 1
    /\ pc' = "modify"
    /\ macho' = Open(file)
    /\ original' = file
    /\ edit' \in Edits
    /\ sizes' = <<>>
    /\ tmpB' = <<>>
    /\ result' = "none"
    /\ UNCHANGED file

Done == pc = "done" /\ UNCHANGED vars

Next == ModifyDylibs \/ KeepDylibs \/ PassA \/ PassB \/ PassC \/ Again \/ Done

Spec == Init /\ [][Next]_vars

-----------------------------------------------------------------------------
(* The type invariant: at every step the file can be parsed, and what its  *)
(* headers count are load commands.                                        *)
TypeOK ==
    /\ pc \in {"modify", "passA", "passB", "passC", "done"}
    /\ round \in 1..MaxRounds
    /\ result \in {"none", "ok", "grew"}
    /\ sizes \in Seq(Nat)
    /\ edit \in Edits \cup {[paths |-> {}, bases |-> {}, inject |-> <<>>]}
    /\ \A i \in DOMAIN Open(file).slices :
          LET s == Open(file).slices[i]
          IN  \A j \in 1..s.ncmds :
                 \E kind \in {"linkedit", "dylib", "codesig"} : Is(kind, s.cmds[j])

Signed == pc = "done" /\ result = "ok"

(***************************************************************************)
(* What a device checks first: at the offset the load command of a slice   *)
(* gives, there is a CodeDirectory that hashes every cell before it, page  *)
(* by page, as the file was finally written - header and load commands,    *)
(* which say how long the signature is, included.                          *)
(***************************************************************************)
HashesMatchFile ==
    Signed => \A i \in DOMAIN Slices(file) :
        LET s == Slices(file)[i]
            limit == CalculateCodeLimit(s)
        IN  /\ HasCmd(s, "codesig")
            /\ s.offset + limit < Len(file)
            /\ Is("pages", file[s.offset + limit + 1])
            /\ LET pages == file[s.offset + limit + 1].pages
               IN  /\ (Len(pages) - 1) * PageSize < limit
                   /\ limit <= Len(pages) * PageSize
                   /\ \A k \in 0..(limit - 1) :
                         pages[(k \div PageSize) + 1][(k % PageSize) + 1] =
                            file[s.offset + k + 1]

(***************************************************************************)
(* A slice, its signature and its __LINKEDIT end at the same place, which  *)
(* in a thin file is the end of the file ("iOS validates" this:            *)
(* executable.go:119).                                                     *)
(***************************************************************************)
EndsAgree ==
    Signed => \A i \in DOMAIN Slices(file) :
        LET s == Slices(file)[i]
            cs == Cmd(s, "codesig")
            l == Cmd(s, "linkedit")
        IN  /\ cs.codesig + cs.size = s.size
            /\ l.linkedit + l.size = s.size
            /\ s.offset + s.size <= Len(file)
            /\ i = Len(Slices(file)) => s.offset + s.size = Len(file)

(***************************************************************************)
(* The slices of a FAT file are aligned, behind the FAT header, and do not *)
(* overlap, though each was given a place before its signature was known   *)
(* in passes A and B.                                                      *)
(***************************************************************************)
SlicesApart ==
    Signed /\ Open(file).fat =>
        \A i \in DOMAIN Slices(file) :
            LET s == Slices(file)[i]
            IN  /\ s.offset % FATAlign = 0
                /\ s.offset > Len(Slices(file))
                /\ \A j \in 1..(i - 1) :
                      LET t == Slices(file)[j]
                          cs == Cmd(t, "codesig")
                      IN  t.offset + cs.codesig + cs.size <= s.offset

(***************************************************************************)
(* Code and data keep their contents and their offsets in the slice, as    *)
(* long as the new commands fit into the padding behind the old ones.      *)
(***************************************************************************)
Contents(f, slice) ==
    {i \in CmdsEnd(slice)..(CalculateCodeLimit(slice) - 1) :
        Is("data", f[slice.offset + i + 1])}

DataKept(i) ==
    LET old == Slices(original)[i]
        new == Slices(file)[i]
    IN  \A p \in Contents(original, old) :
            /\ p < CalculateCodeLimit(new)
            /\ file[new.offset + p + 1] = original[old.offset + p + 1]

Fits(i) == Contents(original, Slices(original)[i]) \cap
           0..(CmdsEnd(Slices(file)[i]) - 1) = {}

CodeIsKept == Signed => \A i \in DOMAIN Slices(file) : Fits(i) => DataKept(i)

(***************************************************************************)
(* The signed file loads what it loaded before and was not to be removed,  *)
(* and what was to be injected; the header counts all of it.               *)
(***************************************************************************)
Loads(slice) ==
    {slice.cmds[i].dylib : i \in Places(slice, "dylib")}

LoadsAsAsked ==
    Signed => \A i \in DOMAIN Slices(file) :
        Loads(Slices(file)[i]) =
            {d \in Loads(Slices(original)[i]) : ~ShouldRemove(Dylib(d), edit)}
            \cup {edit.inject[j] : j \in DOMAIN edit.inject}

-----------------------------------------------------------------------------
(* What comments say and the code does not do. *)

(***************************************************************************)
(* writer.go:32-38: what is behind the load commands is copied from the    *)
(* original, whose commands end where the edited ones do.                  *)
(***************************************************************************)
CopiesAllSections == Signed => \A i \in DOMAIN Slices(file) : DataKept(i)
=============================================================================
