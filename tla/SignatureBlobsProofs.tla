------------------------- MODULE SignatureBlobsProofs -------------------------
(***************************************************************************)
(* The CodeDirectory and the SuperBlob of SignatureBlobs give back all     *)
(* that was put into them, and agree with each other.  The argument is     *)
(* about places: in the CodeDirectory, header and strings lie before       *)
(* StringsEnd, the special hashes between there and HashOffset, in         *)
(* descending order of their slots, the hashes of the pages behind it; in  *)
(* the SuperBlob, the entries before all blobs and the blobs one behind    *)
(* another; and no copy reaches into the place of another.  What the blobs *)
(* say is read from places too: a sequence Stands at a place if its cells  *)
(* are there, and what stands there is read by what its first cells say,   *)
(* so that what is written, the requirement and the entitlements, is read  *)
(* to its end and no further, by induction over its parts.                 *)
(***************************************************************************)
EXTENDS SignatureBlobs, SequenceTheorems, FiniteSetTheorems, WellFoundedInduction, TLAPS

(* Len of a function on 1..n, which is how the blobs are built. *)
LEMMA LengthOf ==
    ASSUME NEW n \in Nat, NEW f, f = [j \in 1..n |-> f[j]]
    PROVE  Len(f) = n /\ f \in Seq({f[j] : j \in 1..n})
<1>1. f \in Seq({f[j] : j \in 1..n})
  OBVIOUS
<1>2. Len(f) \in Nat /\ 1..Len(f) = 1..n
  BY <1>1, LenProperties
<1> QED BY <1>1, <1>2

(* The lengths of what make(), a string and copy() give. *)
LEMMA LenZeros == ASSUME NEW n \in Nat PROVE Len(Zeros(n)) = n
  BY LengthOf DEF Zeros

(* A string takes a cell for each character. *)
LEMMA LenText == ASSUME NEW n \in Nat, NEW name PROVE Len(Text(name, n)) = n
  BY LengthOf DEF Text

(* A copy has the length of what it was copied into. *)
LEMMA LenCopied ==
    \A b, off, data : Len(b) \in Nat => Len(CopyTo(b, off, data)) = Len(b)
  BY LengthOf DEF CopyTo

(* A blob: as many cells as its header says. *)
IsCells(s) == Len(s) \in Nat /\ s = [k \in 1..Len(s) |-> s[k]]
IsBlob(b) == IsCells(b) /\ Len(b) # 0 /\ b[1].length = Len(b)

(* What copy() leaves is as long as what it was given. *)
LEMMA CopiedIsCells ==
    \A b, off, data : Len(b) \in Nat => IsCells(CopyTo(b, off, data))
<1> SUFFICES ASSUME NEW b, NEW off, NEW data, Len(b) \in Nat
             PROVE  IsCells(CopyTo(b, off, data))
  OBVIOUS
<1>1. PICK s : s = CopyTo(b, off, data)
  OBVIOUS
<1>n. PICK n \in Nat : n = Len(b)
  OBVIOUS
<1>2. Len(s) = n
  BY <1>1, <1>n, LenCopied
<1>3. s = [k \in 1..n |-> s[k]]
  BY <1>1, <1>n DEF CopyTo
<1> QED BY <1>1, <1>2, <1>3 DEF IsCells

(* A cell of the hashes of the pages belongs to one page. *)
LEMMA Parted ==
    ASSUME NEW q \in Nat, NEW h \in Nat \ {0}, NEW r \in 0..(h - 1)
    PROVE  (q * h + r) \div h = q /\ (q * h + r) % h = r
  OBVIOUS

(* Two hashes lie apart. *)
LEMMA Apart ==
    ASSUME NEW a \in Nat, NEW b \in Nat, NEW h \in Nat, a < b
    PROVE  a * h + h <= b * h /\ a * h \in Nat /\ b * h \in Nat
  OBVIOUS

(* SpecialSlots is an upper bound of the slots that are used. *)
LEMMA HighestSlot ==
    ASSUME NEW S, S \subseteq {1, 2, 3, 5, 7}
    PROVE  /\ Max(S \cup {0}) \in 0..7 /\ Max(S \cup {0}) \in S \cup {0}
           /\ \A s \in S : s <= Max(S \cup {0})
<1> DEFINE T == S \cup {0}
<1> DEFINE Highest(x) == x \in T /\ \A y \in T : x >= y
<1>1. \E x : Highest(x)
  <2>1. CASE 7 \in S   BY <2>1
  <2>2. CASE 7 \notin S /\ 5 \in S   BY <2>2
  <2>3. CASE S \subseteq {1, 2, 3}   BY <2>3
  <2> QED BY <2>1, <2>2, <2>3
<1>2. Max(T) = CHOOSE x : Highest(x)
  BY DEF Max
<1>3. Highest(Max(T))
  <2> HIDE DEF Highest
  <2> QED BY <1>1, <1>2
<1>4. T \subseteq 0..7
  OBVIOUS
<1>5. Max(T) \in T /\ \A y \in T : Max(T) >= y
  BY <1>3
<1>6. Max(T) \in 0..7
  BY <1>4, <1>5
<1>7. ASSUME NEW s \in S PROVE s <= Max(T)
  BY <1>5, <1>6
<1> QED BY <1>5, <1>6, <1>7

(* Min of a set that has a least element. *)
LEMMA Least ==
    ASSUME NEW S, S \subseteq Int, NEW m \in S, \A y \in S : m <= y
    PROVE  Min(S) = m
<1> DEFINE Lowest(x) == x \in S /\ \A y \in S : x <= y
<1>1. Min(S) = CHOOSE x : Lowest(x)
  BY DEF Min
<1>2. \E x : Lowest(x)
  OBVIOUS
<1>3. Lowest(Min(S))
  <2> HIDE DEF Lowest
  <2> QED BY <1>1, <1>2
<1>4. Min(S) \in S /\ Min(S) <= m
  BY <1>3
<1>5. m <= Min(S) /\ Min(S) \in Int /\ m \in Int
  BY <1>4
<1> HIDE DEF Lowest
<1> QED BY <1>4, <1>5

(* A string with the zero that ends it. *)
LEMMA TextCells ==
    ASSUME NEW n \in Nat, NEW name, NEW s, s = Text(name, n) \o <<Zero>>
    PROVE  /\ Len(s) = n + 1
           /\ \A j \in 1..n : s[j] = [char |-> <<name, j>>]
           /\ s[n + 1] = Zero
<1> DEFINE S == {[char |-> <<name, j>>] : j \in 1..n} \cup {Zero}
<1>1. Text(name, n) \in Seq(S) /\ Len(Text(name, n)) = n
  BY LengthOf, LenText, SeqMonotonic DEF Text
<1>2. <<Zero>> \in Seq(S) /\ Len(<<Zero>>) = 1
  <2>1. Zero \in S
    OBVIOUS
  <2> HIDE DEF S
  <2> QED BY <2>1
<1>3. \A j \in 1..(n + 1) :
         s[j] = IF j <= n THEN Text(name, n)[j] ELSE <<Zero>>[j - n]
  <2> HIDE DEF S
  <2> QED BY <1>1, <1>2, ConcatProperties
<1>4. Len(s) = n + 1
  <2> HIDE DEF S
  <2> QED BY <1>1, <1>2, ConcatProperties
<1> QED BY <1>3, <1>4 DEF Text

(* Where the slots are, counted down from HashOffset. *)
LEMMA SlotPlaces ==
    ASSUME NEW n \in Nat, NEW h \in Nat \ {0}
    PROVE  \A s \in 1..n : /\ s * h \in Nat /\ h <= s * h /\ s * h <= n * h
                           /\ \A r \in 1..n : s < r => s * h + h <= r * h
<1> SUFFICES ASSUME NEW s \in 1..n
             PROVE  /\ s * h \in Nat /\ h <= s * h /\ s * h <= n * h
                    /\ \A r \in 1..n : s < r => s * h + h <= r * h
  OBVIOUS
<1>1. s * h \in Nat /\ h <= s * h
  BY Apart, 0 * h = 0
<1>2. s * h <= n * h
  <2>1. CASE s = n   BY <2>1
  <2>2. CASE s < n   BY <2>2, Apart
  <2> QED BY <2>1, <2>2
<1>3. \A r \in 1..n : s < r => s * h + h <= r * h
  BY Apart
<1> QED BY <1>1, <1>2, <1>3

(* A buffer of zeros, into which the header and two strings are copied. *)
Begun(size, header, start, ident, team) ==
    CopyTo(CopyTo(CopyTo(Zeros(size), 0, <<header>>), start, ident),
           start + Len(ident), team)

Holds(b, size, header, start, ident, team) ==
    /\ IsCells(b) /\ Len(b) = size /\ b[1] = header
    /\ \A j \in 1..Len(ident) : b[start + j] = ident[j]
    /\ \A j \in 1..Len(team) : b[start + Len(ident) + j] = team[j]
    /\ \A p \in (start + Len(ident) + Len(team) + 1)..size : b[p] = Zero

(* It holds the header and the strings, and zeros behind them. *)
LEMMA BegunHolds ==
    ASSUME NEW size \in Nat, NEW start \in Nat \ {0}, NEW header, NEW ident, NEW team,
           Len(ident) \in Nat, Len(team) \in Nat, start + Len(ident) + Len(team) <= size
    PROVE  Holds(Begun(size, header, start, ident, team),
                 size, header, start, ident, team)
<1> DEFINE b0 == Zeros(size)
           b1 == CopyTo(b0, 0, <<header>>)
           b2 == CopyTo(b1, start, ident)
           b == CopyTo(b2, start + Len(ident), team)
<1>b. Begun(size, header, start, ident, team) = b
  BY DEF Begun
<1>0. Len(b0) = size /\ \A p \in 1..size : b0[p] = Zero
  BY LenZeros DEF Zeros
<1>1. Len(b1) = size
  <2> HIDE DEF b0
  <2> QED BY <1>0, LenCopied
<1>2. Len(b2) = size
  BY <1>1, LenCopied
<1>3. Len(b) = size /\ IsCells(b)
  BY <1>2, LenCopied, CopiedIsCells
<1>4. \A p \in 1..size : b1[p] = IF p = 1 THEN header ELSE Zero
  <2>1. Len(<<header>>) = 1 /\ <<header>>[1] = header
    OBVIOUS
  <2> HIDE DEF b0
  <2> QED BY <1>0, <2>1 DEF CopyTo
<1>5. \A p \in 1..size : b2[p] = IF p > start /\ p <= start + Len(ident)
                                 THEN ident[p - start] ELSE b1[p]
  <2> HIDE DEF b1
  <2> QED BY <1>1 DEF CopyTo
<1>6. \A p \in 1..size :
         b[p] = IF p > start + Len(ident) /\ p <= start + Len(ident) + Len(team)
                THEN team[p - (start + Len(ident))] ELSE b2[p]
  <2> HIDE DEF b2
  <2> QED BY <1>2 DEF CopyTo
<1> HIDE DEF b0, b1, b2, b
<1>7. b[1] = header
  <2>1. b[1] = b2[1]
    BY <1>6
  <2>2. b2[1] = b1[1]
    BY <1>5
  <2> QED BY <2>1, <2>2, <1>4
<1>8. ASSUME NEW j \in 1..Len(ident) PROVE b[start + j] = ident[j]
  <2>1. PICK p \in 1..size : p = start + j
    OBVIOUS
  <2>2. p > start /\ p <= start + Len(ident) /\ p - start = j
    BY <2>1
  <2>3. b[p] = b2[p] /\ b2[p] = ident[p - start]
    BY <2>2, <1>5, <1>6
  <2> QED BY <2>1, <2>2, <2>3
<1>9. ASSUME NEW j \in 1..Len(team) PROVE b[start + Len(ident) + j] = team[j]
  <2>1. PICK p \in 1..size : p = start + Len(ident) + j
    OBVIOUS
  <2>2. /\ p > start + Len(ident) /\ p <= start + Len(ident) + Len(team)
        /\ p - (start + Len(ident)) = j
    BY <2>1
  <2>3. b[p] = team[p - (start + Len(ident))]
    BY <2>2, <1>6
  <2> QED BY <2>1, <2>2, <2>3
<1>10. ASSUME NEW p \in (start + Len(ident) + Len(team) + 1)..size PROVE b[p] = Zero
  <2>1. p \in 1..size /\ p > start + Len(ident) /\ ~(p <= start + Len(ident) + Len(team))
    OBVIOUS
  <2>2. b[p] = b2[p] /\ b2[p] = b1[p] /\ b1[p] = Zero
    BY <2>1, <1>4, <1>5, <1>6
  <2> QED BY <2>2
<1>11. Holds(b, size, header, start, ident, team)
  BY <1>3, <1>7, <1>8, <1>9, <1>10 DEF Holds
<1> QED BY <1>b, <1>11

-----------------------------------------------------------------------------
(* The invariant *)
StringsEnd == HeaderSize + (request.ident + 1) + (request.team + 1)
HashOffset == StringsEnd + SpecialSlots(special) * HashSize

HeaderInPlace ==
    /\ IsBlob(buf)
    /\ Len(buf) = HashOffset + request.pages * HashSize
    /\ buf[1].hashOffset = HashOffset
    /\ buf[1].identOffset = HeaderSize
    /\ buf[1].teamOffset = HeaderSize + (request.ident + 1)
    /\ buf[1].nSpecialSlots = SpecialSlots(special)
    /\ buf[1].main = IsMain(request)

StringsInPlace ==
    /\ \A j \in 1..(request.ident + 1) :
          buf[HeaderSize + j] = (BundleID(request) \o <<Zero>>)[j]
    /\ \A j \in 1..(request.team + 1) :
          buf[HeaderSize + (request.ident + 1) + j] = (TeamID(request) \o <<Zero>>)[j]

SpecialsInPlace ==
    \A s \in 1..SpecialSlots(special) : \A k \in 1..HashSize :
        buf[HashOffset - s * HashSize + k] =
            IF s \in DOMAIN special \ todo THEN special[s][k] ELSE Zero

PagesInPlace ==
    \A i \in 1..request.pages : \A k \in 1..HashSize :
        buf[HashOffset + (i - 1) * HashSize + k] = Hash([page |-> i])[k]

SpecialsTyped ==
    /\ DOMAIN special \subseteq {1, 2, 3, 5, 7}
    /\ \A s \in DOMAIN special :
          special[s] = [k \in 1..HashSize |-> special[s][k]]

DirectoryInvariant ==
    /\ request \in Requests
    /\ pc \in {"blobs", "special", "directory", "cms", "assemble", "super", "done"}
    /\ pc = "special" => DOMAIN blobs \subseteq {2, 5, 7}
    /\ pc \in {"blobs", "special"} => special = NoBlobs /\ todo = {} /\ buf = <<>>
    /\ pc \notin {"blobs", "special"} =>
          /\ SpecialsTyped /\ todo \subseteq DOMAIN special
          /\ HeaderInPlace /\ StringsInPlace /\ SpecialsInPlace
          /\ pc # "directory" => todo = {} /\ PagesInPlace

(* The types of what the places are computed from. *)
LEMMA Sizes ==
    ASSUME request \in Requests
    PROVE  /\ HashSize \in Nat \ {0} /\ HeaderSize \in Nat \ {0}
           /\ request.ident \in Nat /\ request.team \in Nat /\ request.pages \in Nat
           /\ StringsEnd \in Nat \ {0}
  BY RequestsAssumption DEF StringsEnd

(* No blob is built but the requirements and the entitlements. *)
LEMMA BuildBlobsStep ==
    ASSUME DirectoryInvariant, BuildBlobs
    PROVE  DirectoryInvariant'
  BY DEF DirectoryInvariant, BuildBlobs, RequirementsSlot, EntitlementsSlot,
         DEREntitlementsSlot

(* The special slots are those of files and blobs, each with one hash. *)
LEMMA SpecialHashesTyped ==
    ASSUME DOMAIN blobs \subseteq {2, 5, 7}, special' = SpecialHashes(request)
    PROVE  SpecialsTyped'
<1>1. DOMAIN special' \subseteq {1, 2, 3, 5, 7}
  BY DEF SpecialHashes
<1>2. ASSUME NEW s \in DOMAIN special'
      PROVE  special'[s] = [k \in 1..HashSize |-> special'[s][k]]
  <2>1. PICK x : special'[s] = Hash(x)
    BY <1>2 DEF SpecialHashes
  <2> QED BY <2>1 DEF Hash
<1> QED BY <1>1, <1>2 DEF SpecialsTyped

(* Every special hash has a slot that the directory has room for. *)
LEMMA SpecialSlotsTyped ==
    ASSUME SpecialsTyped
    PROVE  /\ SpecialSlots(special) \in Nat
           /\ \A s \in DOMAIN special : s \in 1..SpecialSlots(special)
<1>1. DOMAIN special \subseteq {1, 2, 3, 5, 7}
  BY DEF SpecialsTyped
<1>2. /\ SpecialSlots(special) \in 0..7
      /\ \A s \in DOMAIN special : s <= SpecialSlots(special)
  BY <1>1, HighestSlot DEF SpecialSlots
<1> QED BY <1>1, <1>2

(* The directory begins with its header, its strings and zeros. *)
LEMMA BeginDirectoryStep ==
    ASSUME DirectoryInvariant, BeginDirectory
    PROVE  DirectoryInvariant'
<1> DEFINE n == SpecialSlots(special')
           ident == BundleID(request) \o <<Zero>>
           team == TeamID(request) \o <<Zero>>
           teamOffset == HeaderSize + Len(ident)
           slots == n * HashSize
           pages == request.pages * HashSize
           hashOffset == teamOffset + Len(team) + slots
           size == hashOffset + pages
           header == [magic |-> "directory", length |-> size,
                      hashOffset |-> hashOffset, identOffset |-> HeaderSize,
                      teamOffset |-> teamOffset, nSpecialSlots |-> n,
                      nCodeSlots |-> request.pages, main |-> IsMain(request)]
           b == Begun(size, header, HeaderSize, ident, team)
<1>1. /\ special' = SpecialHashes(request) /\ todo' = DOMAIN special' /\ buf' = b
      /\ pc' = "directory" /\ request' = request /\ pc = "special"
  BY DEF BeginDirectory, Begun
<1>2. request \in Requests /\ SpecialsTyped'
  BY <1>1, SpecialHashesTyped DEF DirectoryInvariant
<1>t. /\ HashSize \in Nat \ {0} /\ HeaderSize \in Nat \ {0} /\ StringsEnd \in Nat
      /\ request.ident \in Nat /\ request.team \in Nat /\ request.pages \in Nat
  BY <1>2, Sizes
<1>3. n \in Nat
  <2>1. DOMAIN special' \subseteq {1, 2, 3, 5, 7}
    BY <1>2 DEF SpecialsTyped
  <2> QED BY <2>1, HighestSlot DEF SpecialSlots
<1>4. Len(ident) = request.ident + 1 /\ Len(team) = request.team + 1
  BY <1>2, Sizes, TextCells DEF BundleID, TeamID
<1>5. /\ teamOffset = HeaderSize + (request.ident + 1)
      /\ hashOffset = StringsEnd + slots
  BY <1>2, <1>4, Sizes DEF StringsEnd
<1>6. slots \in Nat /\ pages \in Nat
  BY <1>2, <1>3, Sizes
<1>7. size \in Nat /\ hashOffset \in Nat /\ StringsEnd <= hashOffset /\ hashOffset <= size
  <2>1. size = hashOffset + pages
    OBVIOUS
  <2>2. StringsEnd \in Nat
    BY <1>2, Sizes
  <2>3. hashOffset = StringsEnd + slots
    BY <1>5
  <2> HIDE DEF size, hashOffset, slots, pages
  <2> QED BY <2>1, <2>2, <2>3, <1>6
<1>8. /\ IsCells(b) /\ Len(b) = size /\ b[1] = header
      /\ \A j \in 1..(request.ident + 1) : b[HeaderSize + j] = ident[j]
      /\ \A j \in 1..(request.team + 1) :
            b[HeaderSize + (request.ident + 1) + j] = team[j]
      /\ \A p \in (StringsEnd + 1)..size : b[p] = Zero
  <2> HIDE DEF size, hashOffset, teamOffset, header, ident, team
  <2>1. /\ Len(ident) \in Nat /\ Len(team) \in Nat
        /\ HeaderSize + Len(ident) + Len(team) = StringsEnd
    BY <1>t, <1>4 DEF StringsEnd
  <2>2. /\ IsCells(b) /\ Len(b) = size /\ b[1] = header
        /\ \A j \in 1..Len(ident) : b[HeaderSize + j] = ident[j]
        /\ \A j \in 1..Len(team) : b[HeaderSize + Len(ident) + j] = team[j]
        /\ \A p \in (HeaderSize + Len(ident) + Len(team) + 1)..size : b[p] = Zero
    <3>1. HeaderSize + Len(ident) + Len(team) <= size
      BY <2>1, <1>7, <1>t
    <3>2. size \in Nat
      BY <1>7
    <3>3. Holds(b, size, header, HeaderSize, ident, team)
      BY <2>1, <1>t, <3>1, <3>2, BegunHolds
    <3> HIDE DEF b
    <3> QED BY <3>3 DEF Holds
  <2> HIDE DEF b
  <2> QED BY <2>1, <2>2, <1>4
<1>11. HashOffset' = hashOffset /\ StringsEnd' = StringsEnd
  BY <1>1, <1>5 DEF HashOffset, StringsEnd
<1>12. HeaderInPlace'
  <2>1. size = HashOffset' + request'.pages * HashSize
    BY <1>1, <1>11
  <2>2. size # 0
    BY <1>7, Sizes, <1>2
  <2>3. IsBlob(buf')
    <3> HIDE DEF b, size
    <3> QED BY <2>2, <1>1, <1>8 DEF IsBlob
  <2> QED BY <2>1, <2>3, <1>1, <1>5, <1>8, <1>11 DEF HeaderInPlace, IsMain
<1>13. StringsInPlace'
  BY <1>1, <1>8 DEF StringsInPlace, BundleID, TeamID
<1>14. SpecialsInPlace'
  <2> SUFFICES ASSUME NEW s \in 1..n, NEW k \in 1..HashSize
               PROVE  b[hashOffset - s * HashSize + k] = Zero
    BY <1>1, <1>11 DEF SpecialsInPlace
  <2>1. s * HashSize \in Nat /\ HashSize <= s * HashSize /\ s * HashSize <= slots
    BY <1>2, <1>3, Sizes, SlotPlaces
  <2>p. hashOffset = StringsEnd + slots
    BY <1>5
  <2> DEFINE place == s * HashSize
  <2> HIDE DEF b, hashOffset, size, n, slots, pages, place
  <2>2. /\ StringsEnd + 1 <= hashOffset - place + k
        /\ hashOffset - place + k <= size
        /\ hashOffset - place + k \in Int
    BY <2>1, <2>p, <1>t, <1>6, <1>7 DEF place
  <2>3. hashOffset - s * HashSize + k \in (StringsEnd + 1)..size
    BY <2>2, <1>t, <1>7 DEF place
  <2> QED BY <2>3, <1>8
<1> QED BY <1>1, <1>2, <1>12, <1>13, <1>14 DEF DirectoryInvariant

(* What is copied is where it was copied to, and nothing else changes. *)
LEMMA CopiedCells ==
    ASSUME NEW b, NEW off, NEW data, Len(b) \in Nat
    PROVE  \A p \in 1..Len(b) :
              CopyTo(b, off, data)[p] = IF p > off /\ p <= off + Len(data)
                                        THEN data[p - off] ELSE b[p]
  BY DEF CopyTo

(* The directory before its hashes is not touched by copying one of them. *)
LEMMA StringsAreKept ==
    ASSUME request \in Requests, HeaderInPlace, StringsInPlace,
           SpecialSlots(special) \in Nat,
           NEW off \in Nat, NEW data, StringsEnd <= off,
           buf' = CopyTo(buf, off, data), request' = request, special' = special
    PROVE  HeaderInPlace' /\ StringsInPlace'
<1>t. /\ HashSize \in Nat \ {0} /\ HeaderSize \in Nat \ {0}
      /\ request.ident \in Nat /\ request.team \in Nat /\ request.pages \in Nat
      /\ StringsEnd \in Nat \ {0}
  BY Sizes
<1>1. StringsEnd = HeaderSize + (request.ident + 1) + (request.team + 1)
  BY DEF StringsEnd
<1>2. /\ HashOffset \in Nat /\ StringsEnd <= HashOffset
      /\ Len(buf) \in Nat /\ HashOffset <= Len(buf)
  <2> DEFINE slots == SpecialSlots(special) * HashSize
             pages == request.pages * HashSize
  <2>1. slots \in Nat /\ pages \in Nat
    BY <1>t
  <2>2. HashOffset = StringsEnd + slots /\ Len(buf) = HashOffset + pages
    BY DEF HashOffset, HeaderInPlace
  <2> HIDE DEF slots, pages
  <2> QED BY <2>1, <2>2, <1>t
<1>3. Len(buf') = Len(buf)
  BY <1>2, LenCopied
<1>4. \A p \in 1..StringsEnd : buf'[p] = buf[p]
  <2> SUFFICES ASSUME NEW p \in 1..StringsEnd PROVE buf'[p] = buf[p]
    OBVIOUS
  <2>1. p \in 1..Len(buf) /\ ~(p > off)
    BY <1>2, <1>t
  <2> QED BY <2>1, <1>2, CopiedCells
<1>5. HashOffset' = HashOffset /\ SpecialSlots(special)' = SpecialSlots(special)
  BY DEF HashOffset, StringsEnd
<1>6. HeaderInPlace'
  <2>1. 1 \in 1..StringsEnd
    BY <1>t
  <2>2. buf'[1] = buf[1]
    BY <2>1, <1>4
  <2>3. IsBlob(buf')
    BY <2>2, <1>2, <1>3, CopiedIsCells DEF IsBlob, HeaderInPlace
  <2> QED BY <2>2, <2>3, <1>3, <1>5 DEF HeaderInPlace, IsMain
<1>7. StringsInPlace'
  <2>1. ASSUME NEW j \in 1..(request.ident + 1)
        PROVE  buf'[HeaderSize + j] = buf[HeaderSize + j]
    <3>1. HeaderSize + j \in 1..StringsEnd
      BY <1>1, <1>t
    <3> QED BY <3>1, <1>4
  <2>2. ASSUME NEW j \in 1..(request.team + 1)
        PROVE  buf'[HeaderSize + (request.ident + 1) + j]
                 = buf[HeaderSize + (request.ident + 1) + j]
    <3>1. HeaderSize + (request.ident + 1) + j \in 1..StringsEnd
      BY <1>1, <1>t
    <3> QED BY <3>1, <1>4
  <2> QED BY <2>1, <2>2 DEF StringsInPlace, BundleID, TeamID
<1> QED BY <1>6, <1>7

(* The hashes of the special slots lie behind the strings, one after       *)
(* another, and end where those of the pages begin.                        *)
LEMMA HashPlaces ==
    ASSUME request \in Requests, SpecialsTyped
    PROVE  /\ HashOffset \in Nat /\ StringsEnd <= HashOffset
           /\ \A s \in 1..SpecialSlots(special) :
                 /\ HashOffset - s * HashSize \in Nat
                 /\ StringsEnd <= HashOffset - s * HashSize
                 /\ HashOffset - s * HashSize + HashSize <= HashOffset
                 /\ \A r \in 1..SpecialSlots(special) :
                       s < r => HashOffset - r * HashSize + HashSize
                                  <= HashOffset - s * HashSize
<1> DEFINE n == SpecialSlots(special)
           slots == n * HashSize
<1>t. HashSize \in Nat \ {0} /\ StringsEnd \in Nat \ {0} /\ n \in Nat
  BY Sizes, SpecialSlotsTyped
<1>1. slots \in Nat
  BY <1>t
<1>2. HashOffset = StringsEnd + slots
  BY DEF HashOffset
<1> HIDE DEF n
<1>3. /\ \A s \in 1..n : /\ s * HashSize \in Nat /\ HashSize <= s * HashSize
                         /\ s * HashSize <= slots
                         /\ \A r \in 1..n :
                               s < r => s * HashSize + HashSize <= r * HashSize
  BY <1>t, SlotPlaces
<1> HIDE DEF slots
<1>4. HashOffset \in Nat /\ StringsEnd <= HashOffset
  BY <1>1, <1>2, <1>t
<1>5. ASSUME NEW s \in 1..n
      PROVE  /\ HashOffset - s * HashSize \in Nat
             /\ StringsEnd <= HashOffset - s * HashSize
             /\ HashOffset - s * HashSize + HashSize <= HashOffset
  <2> DEFINE place == s * HashSize
  <2>1. place \in Nat /\ HashSize <= place /\ place <= slots
    BY <1>3
  <2> HIDE DEF place
  <2>2. /\ HashOffset - place \in Nat
        /\ StringsEnd <= HashOffset - place
        /\ HashOffset - place + HashSize <= HashOffset
    BY <2>1, <1>1, <1>2, <1>t
  <2> QED BY <2>2 DEF place
<1>6. ASSUME NEW s \in 1..n, NEW r \in 1..n, s < r
      PROVE  HashOffset - r * HashSize + HashSize <= HashOffset - s * HashSize
  <2> DEFINE place == s * HashSize
             other == r * HashSize
  <2>1. place \in Nat /\ other \in Nat /\ place + HashSize <= other
    BY <1>3, <1>6
  <2> HIDE DEF place, other
  <2>2. HashOffset - other + HashSize <= HashOffset - place
    BY <2>1, <1>4, <1>t
  <2> QED BY <2>2 DEF place, other
<1> QED BY <1>4, <1>5, <1>6 DEF n

(***************************************************************************)
(* A special hash is copied in front of those of the lower slots and       *)
(* behind those of the higher ones, so that neither is overwritten.        *)
(***************************************************************************)
LEMMA WriteSpecialStep ==
    ASSUME DirectoryInvariant, NEW s \in 1..7, WriteSpecial(s)
    PROVE  DirectoryInvariant'
<1> DEFINE n == SpecialSlots(special)
           off == HashOffset - s * HashSize
<1>1. /\ pc = "directory" /\ pc' = pc /\ s \in todo /\ todo' = todo \ {s}
      /\ request' = request /\ special' = special
  BY DEF WriteSpecial
<1>2. /\ request \in Requests /\ SpecialsTyped /\ todo \subseteq DOMAIN special
      /\ HeaderInPlace /\ StringsInPlace /\ SpecialsInPlace
  BY <1>1 DEF DirectoryInvariant
<1>t. /\ HashSize \in Nat \ {0} /\ StringsEnd \in Nat \ {0} /\ n \in Nat
      /\ request.pages \in Nat
  BY <1>2, Sizes, SpecialSlotsTyped
<1>3. s \in 1..n /\ s \in DOMAIN special /\ Len(special[s]) = HashSize
  <2>1. s \in 1..n /\ s \in DOMAIN special
    BY <1>1, <1>2, SpecialSlotsTyped
  <2>2. special[s] = [k \in 1..HashSize |-> special[s][k]]
    BY <2>1, <1>2 DEF SpecialsTyped
  <2> QED BY <2>1, <2>2, <1>t, LengthOf
<1>4. buf' = CopyTo(buf, off, special[s])
  BY <1>2 DEF WriteSpecial, SpecialOffset, HeaderInPlace
<1>5. off \in Nat /\ StringsEnd <= off /\ HashOffset \in Nat
  BY <1>2, <1>3, HashPlaces
<1>6. Len(buf) \in Nat /\ HashOffset <= Len(buf)
  <2> DEFINE pages == request.pages * HashSize
  <2>1. pages \in Nat /\ Len(buf) = HashOffset + pages
    BY <1>2, <1>t DEF HeaderInPlace
  <2> HIDE DEF pages
  <2> QED BY <2>1, <1>5
<1>7. HeaderInPlace' /\ StringsInPlace'
  <2> HIDE DEF off
  <2> QED BY <1>1, <1>2, <1>4, <1>5, <1>t, StringsAreKept
<1>8. \A p \in 1..Len(buf) : buf'[p] = IF p > off /\ p <= off + HashSize
                                       THEN special[s][p - off] ELSE buf[p]
  <2> HIDE DEF off
  <2> QED BY <1>3, <1>4, <1>6, CopiedCells
<1>9. SpecialsInPlace'
  <2> SUFFICES ASSUME NEW r \in 1..n, NEW k \in 1..HashSize
               PROVE  buf'[HashOffset - r * HashSize + k] =
                         IF r \in DOMAIN special \ (todo \ {s})
                         THEN special[r][k] ELSE Zero
    BY <1>1 DEF SpecialsInPlace, HashOffset, StringsEnd
  <2> DEFINE place == HashOffset - r * HashSize
  <2>1. place \in Nat /\ place + HashSize <= HashOffset
    BY <1>2, HashPlaces
  <2>2. buf[place + k] = IF r \in DOMAIN special \ todo THEN special[r][k] ELSE Zero
    BY <1>2 DEF SpecialsInPlace
  <2>3. r < s => off + HashSize <= place
    BY <1>2, <1>3, HashPlaces
  <2>4. s < r => place + HashSize <= off
    BY <1>2, <1>3, HashPlaces
  <2>5. r = s => place = off
    OBVIOUS
  <2> HIDE DEF place, off
  <2>6. PICK p \in 1..Len(buf) : p = place + k
    BY <2>1, <1>5, <1>6, <1>t
  <2>7. CASE r = s
    <3>1. p > off /\ p <= off + HashSize /\ p - off = k
      BY <2>5, <2>6, <2>7, <1>5, <1>t
    <3>2. buf'[p] = special[s][k]
      BY <3>1, <1>8
    <3> QED BY <3>2, <2>6, <2>7, <1>3 DEF place
  <2>8. CASE r # s
    <3>1. ~(p > off /\ p <= off + HashSize)
      BY <2>1, <2>3, <2>4, <2>6, <2>8, <1>3, <1>5, <1>t
    <3>2. buf'[p] = buf[p]
      BY <3>1, <1>8
    <3> QED BY <3>2, <2>2, <2>6, <2>8 DEF place
  <2> QED BY <2>7, <2>8
<1>10. SpecialsTyped' /\ todo' \subseteq DOMAIN special'
  BY <1>1, <1>2 DEF SpecialsTyped
<1> QED BY <1>1, <1>2, <1>7, <1>9, <1>10 DEF DirectoryInvariant
(***************************************************************************)
(* The hashes of the pages fill the directory behind the special ones, and *)
(* change nothing before them.                                             *)
(***************************************************************************)
LEMMA WritePagesStep ==
    ASSUME DirectoryInvariant, WritePages
    PROVE  DirectoryInvariant'
<1> DEFINE hash(p) == Hash([page |-> ((p - 1) \div HashSize) + 1])
           pages == request.pages * HashSize
           hashes == [p \in 1..pages |-> hash(p)[((p - 1) % HashSize) + 1]]
           n == SpecialSlots(special)
<1>1. /\ pc = "directory" /\ pc' = "cms" /\ todo = {} /\ todo' = todo
      /\ request' = request /\ special' = special
      /\ buf' = CopyTo(buf, buf[1].hashOffset, hashes)
  BY DEF WritePages
<1>2. /\ request \in Requests /\ SpecialsTyped /\ todo \subseteq DOMAIN special
      /\ HeaderInPlace /\ StringsInPlace /\ SpecialsInPlace
  BY <1>1 DEF DirectoryInvariant
<1>t. /\ HashSize \in Nat \ {0} /\ StringsEnd \in Nat \ {0} /\ n \in Nat
      /\ request.pages \in Nat
  BY <1>2, Sizes, SpecialSlotsTyped
<1>3. buf' = CopyTo(buf, HashOffset, hashes)
  BY <1>1, <1>2 DEF HeaderInPlace
<1>4. HashOffset \in Nat /\ StringsEnd <= HashOffset
  BY <1>2, HashPlaces
<1>5. pages \in Nat
  BY <1>t
<1>6. Len(buf) = HashOffset + pages /\ Len(buf) \in Nat
  <2>1. Len(buf) = HashOffset + pages
    BY <1>2 DEF HeaderInPlace
  <2> HIDE DEF pages
  <2> QED BY <2>1, <1>4, <1>5
<1>7. Len(hashes) = pages
  <2> HIDE DEF pages
  <2> QED BY <1>5, LengthOf
<1>8. HeaderInPlace' /\ StringsInPlace'
  <2> HIDE DEF hashes
  <2> QED BY <1>1, <1>2, <1>3, <1>4, <1>t, StringsAreKept
<1>9. \A p \in 1..Len(buf) : buf'[p] = IF p > HashOffset /\ p <= HashOffset + pages
                                       THEN hashes[p - HashOffset] ELSE buf[p]
  <2> HIDE DEF hashes, pages
  <2> QED BY <1>3, <1>6, <1>7, CopiedCells
<1>10. SpecialsInPlace'
  <2> SUFFICES ASSUME NEW r \in 1..n, NEW k \in 1..HashSize
               PROVE  buf'[HashOffset - r * HashSize + k] =
                         IF r \in DOMAIN special \ todo THEN special[r][k] ELSE Zero
    <3> HIDE DEF hashes, pages
    <3> QED BY <1>1 DEF SpecialsInPlace, HashOffset, StringsEnd
  <2> DEFINE place == HashOffset - r * HashSize
  <2>1. place \in Nat /\ place + HashSize <= HashOffset
    BY <1>2, HashPlaces
  <2> HIDE DEF place, hashes, pages
  <2>2. PICK p \in 1..Len(buf) : p = place + k
    BY <2>1, <1>4, <1>5, <1>6, <1>t
  <2>3. ~(p > HashOffset)
    BY <2>1, <2>2, <1>4, <1>t
  <2>4. buf'[p] = buf[p]
    BY <2>3, <1>9
  <2>5. buf[place + k] = IF r \in DOMAIN special \ todo THEN special[r][k] ELSE Zero
    BY <1>2 DEF SpecialsInPlace, place
  <2> QED BY <2>2, <2>4, <2>5 DEF place
<1>11. PagesInPlace'
  <2> SUFFICES ASSUME NEW i \in 1..request.pages, NEW k \in 1..HashSize
               PROVE  buf'[HashOffset + (i - 1) * HashSize + k] = Hash([page |-> i])[k]
    BY <1>1 DEF PagesInPlace, HashOffset, StringsEnd
  <2>1. PICK q \in Nat : q = i - 1
    BY <1>t
  <2>2. PICK r \in 0..(HashSize - 1) : r = k - 1
    BY <1>t
  <2> DEFINE place == q * HashSize
  <2>3. place \in Nat /\ place + HashSize <= pages
    BY <2>1, <1>t, Apart
  <2>4. (place + r) \div HashSize = q /\ (place + r) % HashSize = r
    BY <1>t, Parted
  <2> HIDE DEF place
  <2>5. PICK p \in 1..pages : p = place + k
    <3> HIDE DEF pages
    <3> QED BY <2>3, <1>5, <1>t
  <2>6. p - 1 = place + r
    BY <2>2, <2>3, <2>5, <1>t
  <2>7. ((p - 1) \div HashSize) + 1 = i /\ ((p - 1) % HashSize) + 1 = k
    BY <2>1, <2>2, <2>4, <2>6, <1>t
  <2>8. hashes[p] = Hash([page |-> i])[k]
    <3> HIDE DEF pages
    <3> QED BY <2>7
  <2> HIDE DEF hashes, pages
  <2>9. PICK c \in 1..Len(buf) : c = HashOffset + p
    BY <1>4, <1>5, <1>6
  <2>10. c > HashOffset /\ c <= HashOffset + pages /\ c - HashOffset = p
    BY <2>9, <1>4, <1>5
  <2>11. buf'[c] = Hash([page |-> i])[k]
    BY <2>8, <2>10, <1>9
  <2>12. c = HashOffset + (i - 1) * HashSize + k
    <3>1. c = HashOffset + place + k
      BY <2>3, <2>5, <2>9, <1>4, <1>t
    <3> QED BY <3>1, <2>1 DEF place
  <2> QED BY <2>11, <2>12
<1>12. SpecialsTyped' /\ todo' \subseteq DOMAIN special' /\ todo' = {}
  BY <1>1, <1>2 DEF SpecialsTyped
<1> QED BY <1>1, <1>2, <1>8, <1>10, <1>11, <1>12 DEF DirectoryInvariant

(* The rest of the signature is made from the directory and leaves it alone. *)
LEMMA DirectoryIsKept ==
    ASSUME DirectoryInvariant,
           \/ Sign \/ BeginSuper \/ WriteBlob \/ UNCHANGED vars
    PROVE  DirectoryInvariant'
<1>1. UNCHANGED <<request, special, todo, buf>>
  BY DEF Sign, BeginSuper, WriteBlob, vars
<1>2. /\ request' = request /\ special' = special /\ todo' = todo /\ buf' = buf
      /\ HashOffset' = HashOffset
  BY <1>1 DEF HashOffset, StringsEnd
<1>3. HeaderInPlace' = HeaderInPlace /\ StringsInPlace' = StringsInPlace
  BY <1>2 DEF HeaderInPlace, IsMain, StringsInPlace, BundleID, TeamID
<1>4. SpecialsInPlace' = SpecialsInPlace /\ PagesInPlace' = PagesInPlace
  BY <1>2 DEF SpecialsInPlace, PagesInPlace
<1>5. SpecialsTyped' = SpecialsTyped
  BY <1>2 DEF SpecialsTyped
<1>6. CASE UNCHANGED vars
  BY <1>2, <1>3, <1>4, <1>5, <1>6 DEF vars, DirectoryInvariant
<1>7. CASE Sign \/ BeginSuper \/ WriteBlob
  <2>1. pc \in {"cms", "assemble", "super"} /\ pc' \in {"assemble", "super", "done"}
    BY <1>7 DEF Sign, BeginSuper, WriteBlob
  <2> QED BY <2>1, <1>2, <1>3, <1>4, <1>5 DEF DirectoryInvariant
<1> QED BY <1>6, <1>7

(* A string is read up to the zero behind it, which is none of its own cells. *)
LEMMA TextIsRead ==
    ASSUME NEW b, Len(b) \in Nat, NEW off \in Nat, NEW n \in Nat, NEW name,
           off + n + 1 <= Len(b),
           \A j \in 1..(n + 1) : b[off + j] = (Text(name, n) \o <<Zero>>)[j]
    PROVE  TextAt(b, off) = Text(name, n)
<1> DEFINE S == {p \in (off + 1)..Len(b) : b[p] = Zero}
<1>1. PICK s : s = Text(name, n) \o <<Zero>>
  OBVIOUS
<1>2. /\ \A j \in 1..n : b[off + j] = [char |-> <<name, j>>]
      /\ b[off + n + 1] = Zero
  <2>1. /\ \A j \in 1..n : s[j] = [char |-> <<name, j>>]
        /\ s[n + 1] = Zero
    BY <1>1, TextCells
  <2>2. \A j \in 1..(n + 1) : b[off + j] = s[j]
    BY <1>1
  <2>3. b[off + (n + 1)] = s[n + 1]
    BY <2>2
  <2>4. off + (n + 1) = off + n + 1
    OBVIOUS
  <2>5. \A j \in 1..n : j \in 1..(n + 1)
    OBVIOUS
  <2> QED BY <2>1, <2>2, <2>3, <2>4, <2>5
<1>3. PICK m \in S : m = off + n + 1
  BY <1>2
<1>4. ASSUME NEW y \in S PROVE m <= y
  <2> SUFFICES ASSUME y < m PROVE FALSE
    BY <1>3
  <2>1. PICK j \in 1..n : j = y - off
    BY <1>3
  <2>2. y = off + j
    BY <2>1
  <2>3. b[y] = [char |-> <<name, j>>]
    BY <2>2, <1>2
  <2>4. [char |-> <<name, j>>] # Zero
    BY DEF Zero
  <2> QED BY <2>3, <2>4
<1>5. Min(S) = m
  <2>1. S \subseteq Int
    OBVIOUS
  <2> HIDE DEF S
  <2> QED BY <2>1, <1>4, Least
<1>6. Min(S) - 1 - off = n
  BY <1>3, <1>5
<1>7. TextAt(b, off) = Cells(b, off, n)
  BY <1>6 DEF TextAt
<1>8. Cells(b, off, n) = [j \in 1..n |-> b[off + j]]
  <2>1. (off + n) - (off + 1) + 1 = n
    OBVIOUS
  <2>2. Cells(b, off, n) = [j \in 1..n |-> b[(off + 1) + j - 1]]
    BY <2>1 DEF Cells
  <2> QED BY <2>2
<1>9. [j \in 1..n |-> b[off + j]] = Text(name, n)
  BY <1>2 DEF Text
<1> QED BY <1>7, <1>8, <1>9

(* A verifier, who knows the offsets only, reads all of it. *)
LEMMA DirectoryInvariantReadsBack ==
    ASSUME DirectoryInvariant
    PROVE  DirectoryReadsBack
<1> SUFFICES ASSUME pc \in {"cms", "assemble", "super", "done"}
             PROVE  DirectoryReadsBack!2
  BY DEF DirectoryReadsBack
<1> DEFINE n == SpecialSlots(special)
           pages == request.pages * HashSize
<1>1. /\ request \in Requests /\ SpecialsTyped /\ todo = {}
      /\ HeaderInPlace /\ StringsInPlace /\ SpecialsInPlace /\ PagesInPlace
  BY DEF DirectoryInvariant
<1>t. /\ HashSize \in Nat \ {0} /\ StringsEnd \in Nat \ {0} /\ n \in Nat
      /\ HeaderSize \in Nat \ {0} /\ request.ident \in Nat /\ request.team \in Nat
      /\ request.pages \in Nat
  BY <1>1, Sizes, SpecialSlotsTyped
<1>2. HashOffset \in Nat /\ StringsEnd <= HashOffset
  BY <1>1, HashPlaces
<1>3. pages \in Nat /\ Len(buf) = HashOffset + pages
  BY <1>1, <1>t DEF HeaderInPlace
<1>4. Len(buf) \in Nat /\ HashOffset <= Len(buf)
  <2> HIDE DEF pages
  <2> QED BY <1>2, <1>3
<1>5. /\ buf[1].hashOffset = HashOffset /\ buf[1].nSpecialSlots = n
      /\ buf[1].identOffset = HeaderSize
      /\ buf[1].teamOffset = HeaderSize + (request.ident + 1)
  BY <1>1 DEF HeaderInPlace
<1>6. ASSUME NEW s \in 1..n
      PROVE  SpecialSlot(buf, s) = IF s \in DOMAIN special THEN special[s]
                                   ELSE Zeros(HashSize)
  <2> DEFINE off == HashOffset - s * HashSize
  <2>1. off \in Nat /\ off + HashSize <= HashOffset
    BY <1>1, HashPlaces
  <2>2. PICK seq : seq = IF s \in DOMAIN special THEN special[s] ELSE Zeros(HashSize)
    OBVIOUS
  <2>3. seq = [k \in 1..HashSize |-> seq[k]]
    BY <2>2, <1>1 DEF SpecialsTyped, Zeros
  <2>4. \A k \in 1..HashSize : buf[off + k] = seq[k]
    BY <2>2, <1>1 DEF SpecialsInPlace, Zeros
  <2>5. SpecialSlot(buf, s) = Cells(buf, off, HashSize)
    BY <1>5 DEF SpecialSlot
  <2> HIDE DEF off
  <2>6. PICK c \in Nat, h \in Nat : c = off /\ h = HashSize
    BY <2>1, <1>t
  <2>7. Cells(buf, c, h) = [k \in 1..h |-> buf[c + k]]
    <3>1. (c + h) - (c + 1) + 1 = h
      OBVIOUS
    <3>2. Cells(buf, c, h) = [k \in 1..h |-> buf[(c + 1) + k - 1]]
      BY <3>1 DEF Cells
    <3> QED BY <3>2
  <2>8. [k \in 1..HashSize |-> buf[off + k]] = seq
    BY <2>3, <2>4
  <2> QED BY <2>2, <2>5, <2>6, <2>7, <2>8
<1>7. \A s \in DOMAIN special : s <= n
  BY <1>1, <1>t, SpecialSlotsTyped
<1>8. ASSUME NEW i \in 1..request.pages
      PROVE  CodeSlot(buf, i) = Hash([page |-> i])
  <2> DEFINE place == (i - 1) * HashSize
             off == HashOffset + place
  <2>1. PICK q \in Nat : q = i - 1
    BY <1>t
  <2>2. place \in Nat /\ place + HashSize <= pages
    BY <2>1, <1>t, Apart
  <2>3. \A k \in 1..HashSize : buf[off + k] = Hash([page |-> i])[k]
    BY <1>1 DEF PagesInPlace
  <2>4. CodeSlot(buf, i) = Cells(buf, off, HashSize)
    BY <1>5 DEF CodeSlot
  <2>5. Hash([page |-> i]) = [k \in 1..HashSize |-> Hash([page |-> i])[k]]
    BY DEF Hash
  <2>6. off \in Nat
    <3> HIDE DEF place
    <3> QED BY <2>2, <1>2
  <2> HIDE DEF off
  <2>7. PICK c \in Nat, h \in Nat : c = off /\ h = HashSize
    BY <2>6, <1>t
  <2>8. Cells(buf, c, h) = [k \in 1..h |-> buf[c + k]]
    <3>1. (c + h) - (c + 1) + 1 = h
      OBVIOUS
    <3>2. Cells(buf, c, h) = [k \in 1..h |-> buf[(c + 1) + k - 1]]
      BY <3>1 DEF Cells
    <3> QED BY <3>2
  <2>9. [k \in 1..HashSize |-> buf[off + k]] = Hash([page |-> i])
    BY <2>3, <2>5
  <2> QED BY <2>4, <2>7, <2>8, <2>9
<1>9. StringsEnd = HeaderSize + (request.ident + 1) + (request.team + 1)
  BY DEF StringsEnd
<1>10. TextAt(buf, HeaderSize) = BundleID(request)
  <2>1. HeaderSize + request.ident + 1 <= Len(buf)
    BY <1>2, <1>4, <1>9, <1>t
  <2> QED BY <2>1, <1>1, <1>4, <1>t, TextIsRead DEF StringsInPlace, BundleID
<1>11. TextAt(buf, HeaderSize + (request.ident + 1)) = TeamID(request)
  <2>1. PICK off \in Nat, n1 \in Nat :
           off = HeaderSize + (request.ident + 1) /\ n1 = request.team
    BY <1>t
  <2>2. off + n1 + 1 <= Len(buf)
    <3>1. StringsEnd = off + n1 + 1
      BY <2>1, <1>9, <1>t
    <3>2. StringsEnd <= Len(buf)
      BY <1>2, <1>4, <1>t
    <3> QED BY <3>1, <3>2
  <2>3. \A j \in 1..(n1 + 1) : buf[off + j] = (Text("team", n1) \o <<Zero>>)[j]
    BY <2>1, <1>1 DEF StringsInPlace, TeamID
  <2>4. TextAt(buf, off) = Text("team", n1)
    BY <2>2, <2>3, <1>4, TextIsRead
  <2> QED BY <2>1, <2>4 DEF TeamID
<1> QED BY <1>5, <1>6, <1>7, <1>8, <1>10, <1>11

(***************************************************************************)
(* The invariant is inductive; it says where every cell of the directory   *)
(* is while its hashes are being written, in whatever order.               *)
(***************************************************************************)
THEOREM DirectoryInvariantHolds == Spec => []DirectoryInvariant
<1>1. Init => DirectoryInvariant
  BY DEF Init, DirectoryInvariant
<1>2. DirectoryInvariant /\ [Next]_vars => DirectoryInvariant'
  <2> SUFFICES ASSUME DirectoryInvariant, [Next]_vars PROVE DirectoryInvariant'
    OBVIOUS
  <2>1. CASE BuildBlobs   BY <2>1, BuildBlobsStep
  <2>2. CASE BeginDirectory   BY <2>2, BeginDirectoryStep
  <2>3. CASE \E s \in 1..7 : WriteSpecial(s)   BY <2>3, WriteSpecialStep
  <2>4. CASE WritePages   BY <2>4, WritePagesStep
  <2>5. CASE Sign \/ BeginSuper \/ WriteBlob \/ UNCHANGED vars
    BY <2>5, DirectoryIsKept
  <2> QED BY <2>1, <2>2, <2>3, <2>4, <2>5 DEF Next, Done
<1> QED BY <1>1, <1>2, PTL DEF Spec

(***************************************************************************)
(* codedirectory.go:64-172: for hashes, headers and strings of any size,   *)
(* any number of pages, and any order in which Go ranges over the map of   *)
(* special hashes, the CodeDirectory gives every hash and both strings     *)
(* back.                                                                   *)
(***************************************************************************)
THEOREM DirectoryIsReadBack == Spec => []DirectoryReadsBack
<1>1. DirectoryInvariant => DirectoryReadsBack
  BY DirectoryInvariantReadsBack
<1> QED BY <1>1, DirectoryInvariantHolds, PTL

-----------------------------------------------------------------------------
(* One cell after another, as append() puts them. *)
LEMMA ConcatIsCells ==
    /\ \A x : IsCells(<<x>>)
    /\ \A s, t : IsCells(s) /\ IsCells(t) => IsCells(s \o t)
<1>1. ASSUME NEW x PROVE IsCells(<<x>>)
  BY DEF IsCells
<1>2. ASSUME NEW s, NEW t, IsCells(s), IsCells(t) PROVE IsCells(s \o t)
  <2> DEFINE S == {s[k] : k \in 1..Len(s)} \cup {t[k] : k \in 1..Len(t)}
  <2>1. s \in Seq(S) /\ t \in Seq(S)
    BY <1>2, LengthOf, SeqMonotonic DEF IsCells
  <2>2. s \o t \in Seq(S)
    <3> HIDE DEF S
    <3> QED BY <2>1, ConcatProperties
  <2> HIDE DEF S
  <2>3. Len(s \o t) \in Nat /\ DOMAIN (s \o t) = 1..Len(s \o t)
    BY <2>2, LenProperties
  <2>4. PICK r : r = s \o t
    OBVIOUS
  <2>5. r \in Seq(S) /\ Len(r) \in Nat
    BY <2>2, <2>3, <2>4
  <2>6. r = [k \in 1..Len(r) |-> r[k]]
    BY <2>5
  <2> QED BY <2>4, <2>5, <2>6 DEF IsCells
<1> QED BY <1>1, <1>2

(* WrapBlob: a header with the length of the whole, and the data behind it. *)
LEMMA Wrapped ==
    \A magic, data : Len(data) \in Nat =>
        /\ IsBlob(WrapBlob(magic, data))
        /\ Len(WrapBlob(magic, data)) = 1 + Len(data)
        /\ \A j \in 1..Len(data) : WrapBlob(magic, data)[1 + j] = data[j]
<1> SUFFICES ASSUME NEW magic, NEW data, Len(data) \in Nat
             PROVE  /\ IsBlob(WrapBlob(magic, data))
                    /\ Len(WrapBlob(magic, data)) = 1 + Len(data)
                    /\ \A j \in 1..Len(data) : WrapBlob(magic, data)[1 + j] = data[j]
  OBVIOUS
<1>1. PICK size \in Nat : size = 1 + Len(data)
  OBVIOUS
<1> DEFINE header == [magic |-> magic, length |-> size]
           b == CopyTo(Zeros(size), 0, <<header>>)
           w == CopyTo(b, 1, data)
<1>2. WrapBlob(magic, data) = w
  BY <1>1 DEF WrapBlob
<1>3. Len(Zeros(size)) = size /\ Len(b) = size
  BY LenZeros, LenCopied
<1>4. b[1] = header
  <2>1. Len(<<header>>) = 1 /\ <<header>>[1] = header
    OBVIOUS
  <2> DEFINE cell == <<header>>
  <2> HIDE DEF header
  <2>2. Len(cell) = 1 /\ cell[1] = header
    BY <2>1
  <2> HIDE DEF cell
  <2>3. 1 \in 1..size /\ 1 > 0 /\ 1 <= 0 + Len(cell) /\ 1 - 0 = 1
    BY <1>1, <2>2
  <2>4. CopyTo(Zeros(size), 0, cell)[1] = cell[1]
    BY <2>3, <1>3 DEF CopyTo
  <2> QED BY <2>2, <2>4 DEF cell
<1> HIDE DEF b
<1>5. \A p \in 1..size : w[p] = IF p > 1 /\ p <= 1 + Len(data) THEN data[p - 1] ELSE b[p]
  BY <1>3, CopiedCells
<1>6. Len(w) = size /\ IsCells(w)
  BY <1>3, LenCopied, CopiedIsCells
<1> HIDE DEF w
<1>7. w[1] = header
  BY <1>1, <1>4, <1>5
<1>8. IsBlob(w)
  BY <1>1, <1>6, <1>7 DEF IsBlob
<1>9. ASSUME NEW j \in 1..Len(data) PROVE w[1 + j] = data[j]
  <2>1. PICK p \in 1..size : p = 1 + j
    BY <1>1
  <2> QED BY <2>1, <1>5
<1> QED BY <1>1, <1>2, <1>6, <1>8, <1>9

(* BuildRequirements: strings in whole words, and words behind words. *)
LEMMA RequirementsAreBlob ==
    ASSUME NEW bundleID, NEW leafCN, Len(bundleID) \in Nat, Len(leafCN) \in Nat
    PROVE  IsBlob(BuildRequirements(bundleID, leafCN))
<1>1. ASSUME NEW b, Len(b) \in Nat PROVE IsCells(encodeLenBytes(b))
  <2>1. PICK count \in Nat : count = (Len(b) + 3) \div 4
    BY <1>1
  <2>2. IsCells(Words(b, count))
    <3>1. PICK w : w = Words(b, count)
      OBVIOUS
    <3>2. w = [k \in 1..count |-> w[k]]
      BY <3>1 DEF Words
    <3>3. Len(w) = count
      BY <3>2, LengthOf
    <3> QED BY <3>1, <3>2, <3>3 DEF IsCells
  <2> QED BY <2>1, <2>2, ConcatIsCells DEF encodeLenBytes, encodeOp
<1>2. \A op : IsCells(encodeOp(op))
  BY ConcatIsCells DEF encodeOp
<1>3. Len(SubjectCN) \in Nat /\ Len(WWDROID) \in Nat
  BY LenText DEF SubjectCN, WWDROID
<1>4. IsCells(encodeOpIdent(bundleID))
  BY <1>1, <1>2, ConcatIsCells DEF encodeOpIdent
<1>5. IsCells(encodeCertFieldString(0, SubjectCN, ReqMatchEqual, leafCN))
  BY <1>1, <1>2, <1>3, ConcatIsCells DEF encodeCertFieldString
<1>6. IsCells(encodeCertGenericExists(1, WWDROID))
  BY <1>1, <1>2, <1>3, ConcatIsCells DEF encodeCertGenericExists
<1>7. \A left, right : IsCells(left) /\ IsCells(right) => IsCells(encodeAnd(left, right))
  BY <1>2, ConcatIsCells DEF encodeAnd
<1>8. IsCells(buildDesignatedRequirement(bundleID, leafCN))
  BY <1>2, <1>4, <1>5, <1>6, <1>7 DEF buildDesignatedRequirement
<1>9. \A s : IsCells(s) => Len(s) \in Nat
  BY DEF IsCells
<1>10. \A expr : IsCells(expr) => IsCells(buildRequirementBlob(expr))
  BY <1>2, <1>9, Wrapped, ConcatIsCells DEF buildRequirementBlob, IsBlob
<1>11. \A blob : IsCells(blob) => IsBlob(buildRequirementsSet(blob))
  BY <1>2, <1>9, Wrapped, ConcatIsCells DEF buildRequirementsSet
<1> QED BY <1>8, <1>10, <1>11 DEF BuildRequirements

-----------------------------------------------------------------------------
(* What stands at a place, and how the requirement is read. *)
(* Cells that are where they were copied to are read as what was copied. *)
LEMMA CellsAreRead ==
    \A b, off, s :
        IsCells(s) /\ off \in Nat /\ (\A p \in 1..Len(s) : b[off + p] = s[p])
          => Cells(b, off, Len(s)) = s
<1> SUFFICES ASSUME NEW b, NEW s, NEW off \in Nat, IsCells(s),
                    \A p \in 1..Len(s) : b[off + p] = s[p]
             PROVE  Cells(b, off, Len(s)) = s
  OBVIOUS
<1>1. PICK n \in Nat : n = Len(s)
  BY DEF IsCells
<1>2. s = [p \in 1..n |-> s[p]]
  BY <1>1 DEF IsCells
<1>3. (off + n) - (off + 1) + 1 = n
  OBVIOUS
<1>4. Cells(b, off, n) = [p \in 1..n |-> b[(off + 1) + p - 1]]
  BY <1>3 DEF Cells
<1>5. [p \in 1..n |-> b[(off + 1) + p - 1]] = [p \in 1..n |-> b[off + p]]
  OBVIOUS
<1>6. [p \in 1..n |-> b[off + p]] = [p \in 1..n |-> s[p]]
  BY <1>1
<1> QED BY <1>1, <1>2, <1>4, <1>5, <1>6

(* The cells of one sequence behind those of another. *)
LEMMA Joined ==
    \A s, t : IsCells(s) /\ IsCells(t) =>
        /\ IsCells(s \o t) /\ Len(s \o t) = Len(s) + Len(t)
        /\ Len(s) \in Nat /\ Len(t) \in Nat
        /\ \A k \in 1..Len(s) : (s \o t)[k] = s[k]
        /\ \A k \in 1..Len(t) : (s \o t)[Len(s) + k] = t[k]
<1> SUFFICES ASSUME NEW s, NEW t, IsCells(s), IsCells(t)
             PROVE  /\ IsCells(s \o t) /\ Len(s \o t) = Len(s) + Len(t)
                    /\ Len(s) \in Nat /\ Len(t) \in Nat
                    /\ \A k \in 1..Len(s) : (s \o t)[k] = s[k]
                    /\ \A k \in 1..Len(t) : (s \o t)[Len(s) + k] = t[k]
  OBVIOUS
<1>1. IsCells(s \o t)
  BY ConcatIsCells
<1> DEFINE S == {s[k] : k \in 1..Len(s)} \cup {t[k] : k \in 1..Len(t)}
<1>2. s \in Seq(S) /\ t \in Seq(S) /\ Len(s) \in Nat /\ Len(t) \in Nat
  BY LengthOf, SeqMonotonic DEF IsCells
<1> HIDE DEF S
<1>3. /\ Len(s \o t) = Len(s) + Len(t)
      /\ \A i \in 1..(Len(s) + Len(t)) :
            (s \o t)[i] = IF i <= Len(s) THEN s[i] ELSE t[i - Len(s)]
  BY <1>2, ConcatProperties
<1>4. \A k \in 1..Len(s) : (s \o t)[k] = s[k]
  BY <1>2, <1>3
<1>5. ASSUME NEW k \in 1..Len(t) PROVE (s \o t)[Len(s) + k] = t[k]
  <2>1. PICK i \in 1..(Len(s) + Len(t)) : i = Len(s) + k
    BY <1>2
  <2>2. ~(i <= Len(s)) /\ i - Len(s) = k
    BY <1>2, <2>1
  <2> QED BY <1>3, <2>1, <2>2
<1> QED BY <1>1, <1>2, <1>3, <1>4, <1>5

(* The cells s are in d, from the place p on. *)
Stands(d, p, s) ==
    /\ IsCells(d) /\ IsCells(s) /\ p \in Nat \ {0}
    /\ p + Len(s) <= Len(d) + 1
    /\ \A k \in 1..Len(s) : d[p - 1 + k] = s[k]

(* What is written in two parts stands there part by part. *)
LEMMA StandsJoined ==
    \A d, p, s, t : IsCells(s) /\ IsCells(t) /\ Stands(d, p, s \o t) =>
        Stands(d, p, s) /\ Stands(d, p + Len(s), t)
<1> SUFFICES ASSUME NEW d, NEW p, NEW s, NEW t, IsCells(s), IsCells(t), Stands(d, p, s \o t)
             PROVE  Stands(d, p, s) /\ Stands(d, p + Len(s), t)
  OBVIOUS
<1>1. PICK r : r = s \o t
  OBVIOUS
<1>2. /\ IsCells(d) /\ p \in Nat \ {0} /\ p + Len(r) <= Len(d) + 1
      /\ \A k \in 1..Len(r) : d[p - 1 + k] = r[k]
  BY <1>1 DEF Stands
<1>3. /\ Len(r) = Len(s) + Len(t) /\ Len(s) \in Nat /\ Len(t) \in Nat /\ Len(d) \in Nat
      /\ \A k \in 1..Len(s) : r[k] = s[k]
      /\ \A k \in 1..Len(t) : r[Len(s) + k] = t[k]
  BY <1>1, <1>2, Joined DEF IsCells
<1>4. Stands(d, p, s)
  BY <1>2, <1>3 DEF Stands
<1>5. ASSUME NEW k \in 1..Len(t) PROVE d[(p + Len(s)) - 1 + k] = t[k]
  <2>1. PICK i \in 1..Len(r) : i = Len(s) + k
    BY <1>3
  <2>2. (p + Len(s)) - 1 + k = p - 1 + i
    BY <1>2, <1>3, <2>1
  <2> QED BY <1>2, <1>3, <2>1, <2>2
<1>6. Stands(d, p + Len(s), t)
  BY <1>2, <1>3, <1>5 DEF Stands
<1> QED BY <1>4, <1>6

(* Everything stands in itself. *)
LEMMA StandsItself == \A d : IsCells(d) => Stands(d, 1, d)
<1> SUFFICES ASSUME NEW d, IsCells(d) PROVE Stands(d, 1, d)
  OBVIOUS
<1>1. Len(d) \in Nat /\ \A k \in 1..Len(d) : 1 - 1 + k = k
  BY DEF IsCells
<1> QED BY <1>1 DEF Stands

(* A cell alone. *)
LEMMA CellStands ==
    \A d, p, x : Stands(d, p, <<x>>) =>
        /\ d[p] = x /\ p \in Nat \ {0} /\ p <= Len(d) /\ Len(<<x>>) = 1
        /\ IsCells(d) /\ p \in DOMAIN d
<1> SUFFICES ASSUME NEW d, NEW p, NEW x, Stands(d, p, <<x>>)
             PROVE  /\ d[p] = x /\ p \in Nat \ {0} /\ p <= Len(d) /\ Len(<<x>>) = 1
                    /\ IsCells(d) /\ p \in DOMAIN d
  OBVIOUS
<1>1. PICK s : s = <<x>>
  OBVIOUS
<1>2. Len(s) = 1 /\ s[1] = x
  BY <1>1
<1>3. /\ p \in Nat \ {0} /\ IsCells(d) /\ p + 1 <= Len(d) + 1 /\ Len(d) \in Nat
      /\ \A k \in 1..1 : d[p - 1 + k] = s[k]
  BY <1>1, <1>2 DEF Stands, IsCells
<1>4. d[p - 1 + 1] = x /\ p - 1 + 1 = p
  BY <1>2, <1>3
<1>5. DOMAIN d = 1..Len(d)
  BY <1>3 DEF IsCells
<1> QED BY <1>1, <1>2, <1>3, <1>4, <1>5

-----------------------------------------------------------------------------
(* The words of a string, and the string in the words. *)
LEMMA WordsOfString ==
    ASSUME NEW b, IsCells(b)
    PROVE  /\ (Len(b) + 3) \div 4 \in Nat
           /\ IsCells(Words(b, (Len(b) + 3) \div 4))
           /\ Len(Words(b, (Len(b) + 3) \div 4)) = (Len(b) + 3) \div 4
           /\ \A i \in 1..Len(b) :
                 /\ ((i - 1) \div 4) + 1 \in 1..((Len(b) + 3) \div 4)
                 /\ Words(b, (Len(b) + 3) \div 4)[((i - 1) \div 4) + 1].chars[((i - 1) % 4) + 1]
                       = b[i]
<1>1. PICK n \in Nat : n = Len(b)
  BY DEF IsCells
<1>2. PICK count \in Nat : count = (n + 3) \div 4
  OBVIOUS
<1>3. PICK w : w = Words(b, count)
  OBVIOUS
<1>4. w = [k \in 1..count |-> w[k]]
  BY <1>3 DEF Words
<1>5. Len(w) = count /\ IsCells(w)
  BY <1>4, LengthOf DEF IsCells
<1>6. ASSUME NEW i \in 1..n
      PROVE  /\ ((i - 1) \div 4) + 1 \in 1..count
             /\ w[((i - 1) \div 4) + 1].chars[((i - 1) % 4) + 1] = b[i]
  <2>1. PICK k \in 1..count : k = ((i - 1) \div 4) + 1
    BY <1>2
  <2>2. PICK j \in 1..4 : j = ((i - 1) % 4) + 1
    OBVIOUS
  <2>3. 4 * (k - 1) + j = i
    BY <2>1, <2>2
  <2>4. w[k].chars = [x \in 1..4 |-> IF 4 * (k - 1) + x <= n
                                     THEN b[4 * (k - 1) + x] ELSE Zero]
    BY <1>1, <1>3 DEF Words
  <2>5. w[k].chars[j] = b[i]
    BY <2>3, <2>4
  <2> QED BY <2>1, <2>2, <2>5
<1> QED BY <1>1, <1>2, <1>3, <1>5, <1>6

(* A set of numbers has a smallest one. *)
LEMMA Smallest ==
    ASSUME NEW S, S \subseteq Nat, S # {}
    PROVE  \E m \in S : \A n \in S : m <= n
<1>1. PICK m \in S : \A n \in S : ~(<<n, m>> \in OpToRel(<, Nat))
  BY NatLessThanWellFounded, WFMin
<1>2. \A n \in S : ~(n < m)
  BY <1>1 DEF OpToRel
<1> QED BY <1>2

(* Induction over the set of the numbers that have a property. *)
LEMMA Induction ==
    ASSUME NEW S, 0 \in S, \A n \in Nat : n \in S => n + 1 \in S
    PROVE  Nat \subseteq S
<1> DEFINE T == Nat \ S
<1> SUFFICES ASSUME T # {} PROVE FALSE
  OBVIOUS
<1>1. PICK m \in T : \A n \in T : m <= n
  BY Smallest
<1>2. m # 0 /\ m - 1 \in Nat /\ m - 1 \notin T
  BY <1>1
<1> QED BY <1>2

(* A string that stands in an expression is what is read from there. *)
LEMMA StringIsRead ==
    ASSUME NEW e, NEW p, NEW b, IsCells(b), Stands(e, p, encodeLenBytes(b))
    PROVE  /\ StringsAt(e, p) = {[end |-> p + Len(encodeLenBytes(b)), text |-> b]}
           /\ Len(encodeLenBytes(b)) = 1 + ((Len(b) + 3) \div 4)
           /\ p \in Nat \ {0}
<1>1. PICK n \in Nat : n = Len(b)
  BY DEF IsCells
<1>2. PICK count \in Nat : count = (n + 3) \div 4
  OBVIOUS
<1>3. PICK w : w = Words(b, count)
  OBVIOUS
<1>4. /\ IsCells(w) /\ Len(w) = count
      /\ \A i \in 1..n : /\ ((i - 1) \div 4) + 1 \in 1..count
                         /\ w[((i - 1) \div 4) + 1].chars[((i - 1) % 4) + 1] = b[i]
  BY <1>1, <1>2, <1>3, WordsOfString
<1>5. encodeLenBytes(b) = <<[n |-> n]>> \o w /\ IsCells(<<[n |-> n]>>)
  BY <1>1, <1>2, <1>3, ConcatIsCells DEF encodeLenBytes, encodeOp
<1>6. Stands(e, p, <<[n |-> n]>>) /\ Stands(e, p + 1, w)
  <2>1. Len(<<[n |-> n]>>) = 1
    OBVIOUS
  <2> QED BY <1>4, <1>5, <2>1, StandsJoined
<1>7. /\ e[p] = [n |-> n] /\ p \in DOMAIN e /\ p \in Nat \ {0} /\ IsCells(e)
  BY <1>6, CellStands
<1>8. /\ IsNumber(e, p) /\ e[p].n = n
  BY <1>7 DEF IsNumber
<1>9. Len(encodeLenBytes(b)) = 1 + count
  <2>1. Len(<<[n |-> n]>>) = 1
    OBVIOUS
  <2> QED BY <1>4, <1>5, <2>1, Joined
<1>10. /\ \A k \in 1..count : e[p + k] = w[k]
       /\ p + 1 + count <= Len(e) + 1 /\ Len(e) \in Nat /\ DOMAIN e = 1..Len(e)
  <2>1. /\ \A k \in 1..count : e[(p + 1) - 1 + k] = w[k]
        /\ (p + 1) + count <= Len(e) + 1
    BY <1>4, <1>6 DEF Stands
  <2>2. Len(e) \in Nat /\ DOMAIN e = 1..Len(e)
    BY <1>7 DEF IsCells
  <2>3. \A k \in 1..count : (p + 1) - 1 + k = p + k
    BY <1>7
  <2> QED BY <1>7, <2>1, <2>2, <2>3
<1>11. ASSUME NEW i \in (p + 1)..(p + count)
       PROVE  i \in DOMAIN e /\ "chars" \in DOMAIN e[i]
  <2>1. PICK k \in 1..count : i = p + k
    <3>1. p \in Nat /\ count \in Nat /\ i \in (p + 1)..(p + count)
      BY <1>2, <1>7, <1>11
    <3>2. i - p \in 1..count /\ i = p + (i - p)
      BY <3>1
    <3> QED BY <3>2
  <2>2. e[i] = w[k] /\ i \in DOMAIN e
    BY <1>7, <1>10, <2>1
  <2>3. w[k] = [chars |-> [x \in 1..4 |-> IF 4 * (k - 1) + x <= Len(b)
                                            THEN b[4 * (k - 1) + x] ELSE Zero]]
    BY <1>3 DEF Words
  <2>4. DOMAIN w[k] = {"chars"}
    BY <2>3
  <2> QED BY <2>2, <2>4
<1>12. Cells(e, p, count) = w
  <2>1. /\ IsCells(w) /\ Len(w) = count /\ p \in Nat
        /\ \A k \in 1..Len(w) : e[p + k] = w[k]
    BY <1>4, <1>7, <1>10
  <2>2. Cells(e, p, Len(w)) = w
    BY <2>1, CellsAreRead
  <2> QED BY <2>1, <2>2
<1>13. SubSeq(Characters(w), 1, n) = b
  <2>1. PICK c : c = Characters(w)
    OBVIOUS
  <2>2. \A i \in 1..(4 * count) : c[i] = w[((i - 1) \div 4) + 1].chars[((i - 1) % 4) + 1]
    BY <1>4, <2>1 DEF Characters
  <2>3. n <= 4 * count
    BY <1>2
  <2>4. \A i \in 1..n : c[i] = b[i]
    BY <1>4, <2>2, <2>3
  <2>5. SubSeq(c, 1, n) = [i \in 1..n |-> c[i]]
    <3>1. SubSeq(c, 1, n) = [i \in 1..(n - 1 + 1) |-> c[1 + i - 1]]
      OBVIOUS
    <3> QED BY <3>1
  <2>6. b = [i \in 1..n |-> b[i]]
    BY <1>1 DEF IsCells
  <2> QED BY <2>1, <2>4, <2>5, <2>6
<1> DEFINE sizes == {s \in IF IsNumber(e, p) THEN {(e[p].n + 3) \div 4} ELSE {} :
                       \A i \in (p + 1)..(p + s) : i \in DOMAIN e /\ "chars" \in DOMAIN e[i]}
<1>14. sizes = {count}
  BY <1>2, <1>8, <1>11
<1>15. StringsAt(e, p) = {[end |-> p + 1 + size,
                           text |-> SubSeq(Characters(Cells(e, p, size)), 1, e[p].n)] :
                              size \in sizes}
  BY DEF StringsAt
<1>16. p + 1 + count = p + (1 + count)
  BY <1>7
<1> HIDE DEF sizes
<1>17. StringsAt(e, p) = {[end |-> p + 1 + count, text |-> b]}
  BY <1>8, <1>12, <1>13, <1>14, <1>15
<1> QED BY <1>1, <1>2, <1>7, <1>9, <1>16, <1>17

-----------------------------------------------------------------------------
(* What is read at a place ends behind it, and not behind the expression. *)
Ends(e, p, r) == r.end \in (p + 1)..(Len(e) + 1)

(* What reads an expression: for each place its readings. *)
ReadsExpression(read, e, ident, path) ==
    read = [p \in 1..(Len(e) + 1) |-> ReadingsAt(read, e, p, ident, path)]

(* A string ends behind its length. *)
LEMMA StringEnds ==
    ASSUME NEW e, IsCells(e), \A k \in 1..Len(e) : "n" \in DOMAIN e[k] => e[k].n \in Nat,
           NEW p \in Nat \ {0}, NEW s \in StringsAt(e, p)
    PROVE  /\ IsNumber(e, p) /\ Ends(e, p, s)
           /\ IsNumber(e, s.end) => s.end + 1 <= Len(e) + 1
<1>1. PICK N \in Nat : N = Len(e) /\ DOMAIN e = 1..N
  BY DEF IsCells
<1>2. IsNumber(e, p)
  BY DEF StringsAt
<1>3. e[p].n \in Nat /\ p <= N
  BY <1>1, <1>2 DEF IsNumber
<1>4. PICK size \in Nat : size = (e[p].n + 3) \div 4
  BY <1>3
<1>5. /\ s.end = p + 1 + size
      /\ \A i \in (p + 1)..(p + size) : i \in DOMAIN e
  <2> DEFINE sizes == {z \in IF IsNumber(e, p) THEN {(e[p].n + 3) \div 4} ELSE {} :
                         \A i \in (p + 1)..(p + z) : i \in DOMAIN e /\ "chars" \in DOMAIN e[i]}
             text(z) == SubSeq(Characters(Cells(e, p, z)), 1, e[p].n)
  <2>1. StringsAt(e, p) = {[end |-> p + 1 + z, text |-> text(z)] : z \in sizes}
    BY DEF StringsAt
  <2>2. \A z \in sizes : z = size /\ \A i \in (p + 1)..(p + z) : i \in DOMAIN e
    BY <1>2, <1>4
  <2> HIDE DEF sizes, text
  <2>3. PICK z \in sizes : s = [end |-> p + 1 + z, text |-> text(z)]
    BY <2>1
  <2> QED BY <2>2, <2>3
<1>6. p + 1 + size <= N + 1
  <2>1. CASE size = 0
    BY <1>1, <1>3, <2>1
  <2>2. CASE size > 0
    <3>1. p + size \in (p + 1)..(p + size)
      BY <1>4, <2>2
    <3> QED BY <1>1, <1>4, <1>5, <3>1
  <2> QED BY <1>4, <2>1, <2>2
<1>7. Ends(e, p, s)
  BY <1>1, <1>4, <1>5, <1>6 DEF Ends
<1>8. IsNumber(e, s.end) => s.end + 1 <= Len(e) + 1
  BY <1>1, <1>4, <1>5 DEF IsNumber
<1> QED BY <1>2, <1>7, <1>8

(* What is read at a place depends on what is read behind it. *)
LEMMA ReadingsBehind ==
    ASSUME NEW e, IsCells(e), \A k \in 1..Len(e) : "n" \in DOMAIN e[k] => e[k].n \in Nat,
           NEW p \in 1..(Len(e) + 1), NEW ident, NEW path, NEW f, NEW g,
           \A q \in (p + 1)..(Len(e) + 1) : f[q] = g[q] /\ \A r \in f[q] : Ends(e, q, r)
    PROVE  /\ ReadingsAt(f, e, p, ident, path) = ReadingsAt(g, e, p, ident, path)
           /\ \A r \in ReadingsAt(f, e, p, ident, path) : Ends(e, p, r)
<1>1. PICK N \in Nat : N = Len(e) /\ DOMAIN e = 1..N
  BY DEF IsCells
<1>2. CASE ~IsNumber(e, p)
  BY <1>2 DEF ReadingsAt
<1>3. CASE IsNumber(e, p) /\ e[p].n = ReqOpAnd
  <2>1. p + 1 \in (p + 1)..(N + 1) /\ p \in Nat
    BY <1>1, <1>3 DEF IsNumber
  <2>2. f[p + 1] = g[p + 1] /\ \A l \in f[p + 1] : l.end \in (p + 2)..(N + 1)
    <3>1. f[p + 1] = g[p + 1] /\ \A l \in f[p + 1] : Ends(e, p + 1, l)
      BY <1>1, <2>1
    <3>2. (p + 1) + 1 = p + 2
      BY <2>1
    <3> QED BY <1>1, <3>1, <3>2 DEF Ends
  <2>3. ASSUME NEW l \in f[p + 1]
        PROVE  f[l.end] = g[l.end] /\ \A r \in f[l.end] : Ends(e, p, r)
    <3>1. PICK q \in (p + 2)..(N + 1) : q = l.end
      BY <2>2
    <3>2. f[q] = g[q] /\ \A r \in f[q] : Ends(e, q, r)
      BY <1>1, <2>1
    <3>3. ASSUME NEW r \in f[q] PROVE Ends(e, p, r)
      <4>1. r.end \in (q + 1)..(N + 1)
        BY <1>1, <3>2 DEF Ends
      <4> QED BY <1>1, <2>1, <4>1 DEF Ends
    <3> QED BY <3>1, <3>2, <3>3
  <2> DEFINE both(h, l) == {[end |-> r.end, holds |-> l.holds /\ r.holds] : r \in h[l.end]}
  <2>4. ReadingsAt(f, e, p, ident, path) = UNION {both(f, l) : l \in f[p + 1]}
    BY <1>3 DEF ReadingsAt
  <2>5. ReadingsAt(g, e, p, ident, path) = UNION {both(g, l) : l \in g[p + 1]}
    BY <1>3 DEF ReadingsAt
  <2>6. \A l \in f[p + 1] : both(f, l) = both(g, l)
    BY <2>3
  <2>7. ASSUME NEW l \in f[p + 1], NEW r \in both(f, l) PROVE Ends(e, p, r)
    BY <2>3 DEF Ends
  <2> HIDE DEF both
  <2>8. {both(f, l) : l \in f[p + 1]} = {both(g, l) : l \in g[p + 1]}
    BY <2>2, <2>6
  <2>9. \A r \in UNION {both(f, l) : l \in f[p + 1]} : Ends(e, p, r)
    BY <2>7
  <2> QED BY <2>4, <2>5, <2>8, <2>9
<1>4. CASE IsNumber(e, p) /\ e[p].n # ReqOpAnd
  <2>1. ReadingsAt(f, e, p, ident, path) = ReadingsAt(g, e, p, ident, path)
    BY <1>4 DEF ReadingsAt
  <2>2. p \in Nat \ {0} /\ p <= N
    BY <1>1, <1>4 DEF IsNumber
  <2>3. CASE e[p].n = ReqOpIdent
    <3>1. ReadingsAt(f, e, p, ident, path)
            = {[end |-> s.end, holds |-> s.text = ident] : s \in StringsAt(e, p + 1)}
      BY <1>4, <2>3 DEF ReadingsAt
    <3>2. \A s \in StringsAt(e, p + 1) : Ends(e, p + 1, s)
      BY <2>2, StringEnds
    <3>3. \A s \in StringsAt(e, p + 1) : Ends(e, p, s)
      BY <1>1, <2>2, <3>2 DEF Ends
    <3> QED BY <2>1, <3>1, <3>3 DEF Ends
  <2>4. CASE e[p].n # ReqOpIdent /\ e[p].n = ReqOpAppleGenericAnchor
    <3> DEFINE held == path # <<>> /\ path[Len(path)].name = "Apple Root CA"
    <3>1. ReadingsAt(f, e, p, ident, path) = {[end |-> p + 1, holds |-> held]}
      BY <1>4, <2>4 DEF ReadingsAt
    <3>2. p + 1 \in (p + 1)..(Len(e) + 1)
      BY <1>1, <2>2
    <3> HIDE DEF held
    <3>3. \A r \in {[end |-> p + 1, holds |-> held]} : Ends(e, p, r)
      BY <3>2 DEF Ends
    <3> QED BY <2>1, <3>1, <3>3
  <2>5. CASE /\ e[p].n # ReqOpIdent /\ e[p].n # ReqOpAppleGenericAnchor
             /\ e[p].n \in {ReqOpCertField, ReqOpCertGeneric} /\ IsNumber(e, p + 1)
    <3> DEFINE slot == e[p + 1].n
               names == {s \in StringsAt(e, p + 2) : IsNumber(e, s.end)}
               exists == {[end |-> s.end + 1, holds |-> Has(path, slot, s.text)] :
                            s \in {x \in names : e[x.end].n = ReqMatchExists}}
               equal(s) == {[end |-> v.end,
                             holds |-> s.text = SubjectCN /\ slot + 1 \in DOMAIN path
                                         /\ path[slot + 1].cn = v.text] :
                               v \in StringsAt(e, s.end + 1)}
    <3>1. ReadingsAt(f, e, p, ident, path)
            = exists \cup UNION {equal(s) : s \in {x \in names : e[x.end].n = ReqMatchEqual}}
      BY <1>4, <2>5 DEF ReadingsAt
    <3>2. ASSUME NEW s \in names
          PROVE  s.end \in (p + 3)..(N + 1) /\ s.end + 1 \in (p + 2)..(N + 1)
      <4>1. /\ Ends(e, p + 2, s) /\ s.end + 1 <= Len(e) + 1
        BY <2>2, StringEnds
      <4> QED BY <1>1, <2>2, <4>1 DEF Ends
    <3>3. ASSUME NEW r \in exists PROVE Ends(e, p, r)
      <4>1. PICK s \in names : r.end = s.end + 1
        OBVIOUS
      <4> HIDE DEF names
      <4> QED BY <1>1, <2>2, <3>2, <4>1 DEF Ends
    <3>4. ASSUME NEW s \in names, NEW r \in equal(s) PROVE Ends(e, p, r)
      <4>1. PICK v \in StringsAt(e, s.end + 1) : r.end = v.end
        OBVIOUS
      <4> HIDE DEF names
      <4>2. PICK q \in Nat \ {0} : q = s.end + 1 /\ p < q
        BY <2>2, <3>2
      <4>3. Ends(e, q, v)
        BY <4>1, <4>2, StringEnds
      <4> QED BY <1>1, <2>2, <4>1, <4>2, <4>3 DEF Ends
    <3> HIDE DEF names, exists, equal
    <3>5. \A r \in exists \cup UNION {equal(s) : s \in {x \in names : e[x.end].n = ReqMatchEqual}} :
             Ends(e, p, r)
      BY <3>3, <3>4
    <3> QED BY <2>1, <3>1, <3>5
  <2>6. CASE /\ e[p].n # ReqOpIdent /\ e[p].n # ReqOpAppleGenericAnchor
             /\ ~(e[p].n \in {ReqOpCertField, ReqOpCertGeneric} /\ IsNumber(e, p + 1))
    <3>1. ReadingsAt(f, e, p, ident, path) = {}
      BY <1>4, <2>6 DEF ReadingsAt
    <3> QED BY <2>1, <3>1
  <2> QED BY <2>3, <2>4, <2>5, <2>6
<1> QED BY <1>2, <1>3, <1>4

(* Every expression can be read. *)
LEMMA ExpressionIsRead ==
    ASSUME NEW e, IsCells(e), \A k \in 1..Len(e) : "n" \in DOMAIN e[k] => e[k].n \in Nat,
           NEW ident, NEW path
    PROVE  \E read : /\ ReadsExpression(read, e, ident, path)
                     /\ Readings(e, ident, path) = read[1]
<1>1. PICK N \in Nat : N = Len(e)
  BY DEF IsCells
<1> DEFINE Reads(f, p) == /\ f[p] = ReadingsAt(f, e, p, ident, path)
                          /\ \A r \in f[p] : Ends(e, p, r)
           S == {n \in Nat : \E f : /\ f = [p \in 1..(N + 1) |-> f[p]]
                                    /\ \A p \in 1..(N + 1) : N + 1 - p < n => Reads(f, p)}
<1>2. 0 \in S
  <2> DEFINE f == [p \in 1..(N + 1) |-> {}]
  <2>1. f = [p \in 1..(N + 1) |-> f[p]]
    OBVIOUS
  <2>2. \A p \in 1..(N + 1) : ~(N + 1 - p < 0)
    OBVIOUS
  <2> HIDE DEF f, Reads
  <2> QED BY <2>1, <2>2
<1>3. ASSUME NEW n \in Nat, n \in S PROVE n + 1 \in S
  <2>1. PICK f : /\ f = [p \in 1..(N + 1) |-> f[p]]
                 /\ \A p \in 1..(N + 1) : N + 1 - p < n => Reads(f, p)
    BY <1>3
  <2>2. PICK g : g = [p \in 1..(N + 1) |-> ReadingsAt(f, e, p, ident, path)]
    OBVIOUS
  <2>3. \A q \in 1..(N + 1) : N + 1 - q < n => g[q] = f[q]
    BY <2>1, <2>2
  <2>4. ASSUME NEW p \in 1..(N + 1), N + 1 - p < n + 1 PROVE Reads(g, p)
    <3>1. ASSUME NEW q \in (p + 1)..(N + 1)
          PROVE  f[q] = g[q] /\ \A r \in f[q] : Ends(e, q, r)
      <4>1. q \in 1..(N + 1) /\ N + 1 - q < n
        BY <2>4
      <4> QED BY <2>1, <2>3, <4>1
    <3>2. /\ ReadingsAt(f, e, p, ident, path) = ReadingsAt(g, e, p, ident, path)
          /\ \A r \in ReadingsAt(f, e, p, ident, path) : Ends(e, p, r)
      BY <1>1, <3>1, ReadingsBehind
    <3>3. g[p] = ReadingsAt(f, e, p, ident, path)
      BY <2>2
    <3> QED BY <3>2, <3>3
  <2>5. g = [p \in 1..(N + 1) |-> g[p]]
    BY <2>2
  <2> HIDE DEF Reads
  <2> QED BY <2>4, <2>5
<1>4. N + 1 \in S
  <2>1. 0 \in S /\ \A n \in Nat : n \in S => n + 1 \in S
    BY <1>2, <1>3
  <2> HIDE DEF S
  <2> QED BY <2>1, Induction
<1>5. PICK f : /\ f = [p \in 1..(N + 1) |-> f[p]]
               /\ \A p \in 1..(N + 1) : N + 1 - p < N + 1 => Reads(f, p)
  BY <1>4
<1>6. \A p \in 1..(N + 1) : f[p] = ReadingsAt(f, e, p, ident, path)
  BY <1>5
<1>7. ReadsExpression(f, e, ident, path)
  BY <1>1, <1>5, <1>6 DEF ReadsExpression
<1> DEFINE read == CHOOSE r : ReadsExpression(r, e, ident, path)
<1>8. ReadsExpression(read, e, ident, path)
  BY <1>7
<1>9. Readings(e, ident, path) = read[1]
  BY DEF Readings, ReadsExpression
<1> QED BY <1>8, <1>9

(* An operator is one word. *)
LEMMA OperatorStands ==
    ASSUME NEW e, NEW p, NEW op, Stands(e, p, encodeOp(op))
    PROVE  /\ IsNumber(e, p) /\ e[p].n = op /\ p \in Nat \ {0} /\ p \in 1..Len(e)
           /\ Len(encodeOp(op)) = 1 /\ IsCells(e)
<1>1. Stands(e, p, <<[n |-> op]>>) /\ Len(<<[n |-> op]>>) = 1
  BY DEF encodeOp
<1>2. /\ e[p] = [n |-> op] /\ p \in DOMAIN e /\ p \in Nat \ {0} /\ p <= Len(e)
      /\ IsCells(e)
  BY <1>1, CellStands
<1>3. Len(e) \in Nat
  BY <1>2 DEF IsCells
<1> QED BY <1>1, <1>2, <1>3 DEF IsNumber, encodeOp

(* Every operator is a sequence of cells. *)
LEMMA OperatorIsCells == \A op : IsCells(encodeOp(op)) /\ Len(encodeOp(op)) = 1
<1> SUFFICES ASSUME NEW op PROVE IsCells(encodeOp(op)) /\ Len(encodeOp(op)) = 1
  OBVIOUS
<1>1. IsCells(encodeOp(op))
  BY ConcatIsCells DEF encodeOp
<1>2. Len(<<[n |-> op]>>) = 1
  OBVIOUS
<1> QED BY <1>1, <1>2 DEF encodeOp

(* Operators in a row. *)
LEMMA OperatorBehind ==
    \A s, op : IsCells(s) => Len(s \o encodeOp(op)) = Len(s) + 1
<1> SUFFICES ASSUME NEW s, NEW op, IsCells(s) PROVE Len(s \o encodeOp(op)) = Len(s) + 1
  OBVIOUS
<1>1. IsCells(encodeOp(op)) /\ Len(encodeOp(op)) = 1
  BY OperatorIsCells
<1>2. Len(s \o encodeOp(op)) = Len(s) + Len(encodeOp(op))
  BY <1>1, Joined
<1> QED BY <1>1, <1>2
(* Two operators take two words. *)
LEMMA OperatorsJoined == \A op, p : Len(encodeOp(op) \o encodeOp(p)) = 1 + 1
<1> SUFFICES ASSUME NEW op, NEW p PROVE Len(encodeOp(op) \o encodeOp(p)) = 1 + 1
  OBVIOUS
<1>1. IsCells(encodeOp(op)) /\ Len(encodeOp(op)) = 1
  BY OperatorIsCells
<1>2. Len(encodeOp(op) \o encodeOp(p)) = Len(encodeOp(op)) + 1
  BY <1>1, OperatorBehind
<1> QED BY <1>1, <1>2

(* Two operators that stand in a row. *)
LEMMA OperatorsStand ==
    \A e, p, op, arg : Stands(e, p, encodeOp(op) \o encodeOp(arg)) =>
        Stands(e, p, encodeOp(op)) /\ Stands(e, p + 1, encodeOp(arg))
<1> SUFFICES ASSUME NEW e, NEW p, NEW op, NEW arg,
                    Stands(e, p, encodeOp(op) \o encodeOp(arg))
             PROVE  Stands(e, p, encodeOp(op)) /\ Stands(e, p + 1, encodeOp(arg))
  OBVIOUS
<1>1. IsCells(encodeOp(op)) /\ IsCells(encodeOp(arg)) /\ Len(encodeOp(op)) = 1
  BY OperatorIsCells
<1>2. Stands(e, p, encodeOp(op)) /\ Stands(e, p + Len(encodeOp(op)), encodeOp(arg))
  BY <1>1, StandsJoined
<1> QED BY <1>1, <1>2

(* Strings are whole words. *)
LEMMA StringIsCells ==
    \A b : IsCells(b) => IsCells(encodeLenBytes(b)) /\ Len(encodeLenBytes(b)) \in Nat
  BY WordsOfString, OperatorIsCells, Joined DEF encodeLenBytes, IsCells

(* Where the two operands of a conjunction are. *)
LEMMA AndStands ==
    ASSUME NEW e, NEW p, NEW left, NEW right, IsCells(left), IsCells(right),
           Stands(e, p, encodeAnd(left, right))
    PROVE  /\ IsNumber(e, p) /\ e[p].n = ReqOpAnd
           /\ Stands(e, p + 1, left) /\ Stands(e, p + 1 + Len(left), right)
           /\ Len(encodeAnd(left, right)) = 1 + Len(left) + Len(right)
<1>1. IsCells(encodeOp(ReqOpAnd)) /\ Len(encodeOp(ReqOpAnd)) = 1
  BY OperatorIsCells
<1>2. PICK s : s = encodeOp(ReqOpAnd) \o left
  OBVIOUS
<1>3. IsCells(s) /\ Len(s) = 1 + Len(left)
  <2>1. IsCells(s) /\ Len(s) = Len(encodeOp(ReqOpAnd)) + Len(left)
    BY <1>1, <1>2, Joined
  <2> QED BY <1>1, <2>1
<1>4. Stands(e, p, s) /\ Stands(e, p + Len(s), right)
  BY <1>2, <1>3, StandsJoined DEF encodeAnd
<1>5. Stands(e, p, encodeOp(ReqOpAnd)) /\ Stands(e, p + 1, left)
  BY <1>1, <1>2, <1>4, StandsJoined
<1>6. Len(encodeAnd(left, right)) = Len(s) + Len(right)
  BY <1>2, <1>3, Joined DEF encodeAnd
<1>7. p + 1 + Len(left) = p + Len(s)
  <2>1. Len(left) \in Nat /\ p \in Nat
    BY <1>4 DEF IsCells, Stands
  <2> QED BY <1>3, <2>1
<1> QED BY <1>3, <1>4, <1>5, <1>6, <1>7, OperatorStands

(* What is read holds, and ends before z. *)
HoldsTo(readings, z) == readings = {[end |-> z, holds |-> TRUE]}

(* A conjunction holds if both operands do. *)
LEMMA AndHolds ==
    ASSUME NEW e, NEW p, NEW f, NEW ident, NEW path, NEW y, NEW z,
           IsNumber(e, p), e[p].n = ReqOpAnd,
           HoldsTo(f[p + 1], y), HoldsTo(f[y], z)
    PROVE  HoldsTo(ReadingsAt(f, e, p, ident, path), z)
<1> DEFINE both(l) == {[end |-> r.end, holds |-> l.holds /\ r.holds] : r \in f[l.end]}
<1>1. ReadingsAt(f, e, p, ident, path) = UNION {both(l) : l \in f[p + 1]}
  BY DEF ReadingsAt
<1>2. PICK l : l = [end |-> y, holds |-> TRUE]
  OBVIOUS
<1>3. both(l) = {[end |-> z, holds |-> TRUE]}
  <2>1. l.end = y /\ l.holds = TRUE
    BY <1>2
  <2>2. PICK r : r = [end |-> z, holds |-> TRUE]
    OBVIOUS
  <2>3. r.end = z /\ r.holds = TRUE
    BY <2>2
  <2>4. both(l) = {[end |-> r.end, holds |-> l.holds /\ r.holds]}
    BY <2>1, <2>2 DEF HoldsTo
  <2>5. (l.holds /\ r.holds) = TRUE
    BY <2>1, <2>3
  <2> QED BY <2>3, <2>4, <2>5
<1> HIDE DEF both
<1> QED BY <1>1, <1>2, <1>3 DEF HoldsTo

(* ident "...": the identifier is the one in the requirement. *)
LEMMA IdentHolds ==
    ASSUME NEW e, NEW p, NEW f, NEW ident, NEW path, IsCells(ident),
           Stands(e, p, encodeOpIdent(ident))
    PROVE  HoldsTo(ReadingsAt(f, e, p, ident, path), p + Len(encodeOpIdent(ident)))
<1>1. /\ IsCells(encodeOp(ReqOpIdent)) /\ Len(encodeOp(ReqOpIdent)) = 1
      /\ IsCells(encodeLenBytes(ident))
  BY OperatorIsCells, StringIsCells
<1>2. Stands(e, p, encodeOp(ReqOpIdent)) /\ Stands(e, p + 1, encodeLenBytes(ident))
  BY <1>1, StandsJoined DEF encodeOpIdent
<1>3. IsNumber(e, p) /\ e[p].n = ReqOpIdent /\ p \in Nat
  BY <1>2, OperatorStands
<1>4. StringsAt(e, p + 1) = {[end |-> p + 1 + Len(encodeLenBytes(ident)), text |-> ident]}
  BY <1>2, StringIsRead
<1>5. ReadingsAt(f, e, p, ident, path)
        = {[end |-> s.end, holds |-> s.text = ident] : s \in StringsAt(e, p + 1)}
  BY <1>3 DEF ReadingsAt, ReqOpIdent, ReqOpAnd
<1>6. Len(encodeOpIdent(ident)) = 1 + Len(encodeLenBytes(ident))
  <2>1. Len(encodeOpIdent(ident)) = Len(encodeOp(ReqOpIdent)) + Len(encodeLenBytes(ident))
    BY <1>1, Joined DEF encodeOpIdent
  <2> QED BY <1>1, <2>1
<1>7. p + Len(encodeOpIdent(ident)) = p + 1 + Len(encodeLenBytes(ident))
  <2>1. Len(encodeLenBytes(ident)) \in Nat
    BY <1>1 DEF IsCells
  <2> QED BY <1>3, <1>6, <2>1
<1>8. PICK s : s = [end |-> p + Len(encodeOpIdent(ident)), text |-> ident]
  OBVIOUS
<1>9. s.end = p + Len(encodeOpIdent(ident)) /\ (s.text = ident) = TRUE
  BY <1>8
<1>10. ReadingsAt(f, e, p, ident, path) = {[end |-> s.end, holds |-> s.text = ident]}
  BY <1>4, <1>5, <1>7, <1>8
<1> QED BY <1>9, <1>10 DEF HoldsTo

(* A path that ends in Apple's root. *)
Anchored(path) == path # <<>> /\ path[Len(path)].name = "Apple Root CA"

(* anchor apple generic: the path ends in Apple's root. *)
LEMMA AnchorHolds ==
    ASSUME NEW e, NEW p, NEW f, NEW ident, NEW path,
           Stands(e, p, encodeOp(ReqOpAppleGenericAnchor)),
           Anchored(path)
    PROVE  HoldsTo(ReadingsAt(f, e, p, ident, path), p + 1)
<1>1. IsNumber(e, p) /\ e[p].n = ReqOpAppleGenericAnchor
  BY OperatorStands
<1>2. ReadingsAt(f, e, p, ident, path) = {[end |-> p + 1, holds |-> Anchored(path)]}
  <2>1. ReqOpAppleGenericAnchor # ReqOpAnd /\ ReqOpAppleGenericAnchor # ReqOpIdent
    BY DEF ReqOpIdent, ReqOpAnd, ReqOpAppleGenericAnchor
  <2> QED BY <1>1, <2>1 DEF ReadingsAt, Anchored
<1>3. Anchored(path) = TRUE
  BY DEF Anchored
<1> QED BY <1>2, <1>3 DEF HoldsTo

(* certificate leaf[subject.CN] = "...": the name of the certificate of    *)
(* the signer is the one in the requirement.                               *)
LEMMA FieldHolds ==
    ASSUME NEW e, NEW p, NEW f, NEW ident, NEW path, NEW cn, IsCells(cn),
           Stands(e, p, encodeCertFieldString(0, SubjectCN, ReqMatchEqual, cn)),
           1 \in DOMAIN path, path[1].cn = cn
    PROVE  HoldsTo(ReadingsAt(f, e, p, ident, path),
                   p + Len(encodeCertFieldString(0, SubjectCN, ReqMatchEqual, cn)))
<1> DEFINE s1 == encodeOp(ReqOpCertField) \o encodeOp(0)
           s2 == s1 \o encodeLenBytes(SubjectCN)
           s3 == s2 \o encodeOp(ReqMatchEqual)
           s4 == s3 \o encodeLenBytes(cn)
           z == p + Len(s4)
<1>1. encodeCertFieldString(0, SubjectCN, ReqMatchEqual, cn) = s4
  BY DEF encodeCertFieldString
<1>2. IsCells(SubjectCN)
  BY LengthOf, LenText DEF SubjectCN, Text, IsCells
<1>3. /\ IsCells(encodeLenBytes(SubjectCN)) /\ IsCells(encodeLenBytes(cn))
      /\ \A op : IsCells(encodeOp(op)) /\ Len(encodeOp(op)) = 1
  BY <1>2, StringIsCells, OperatorIsCells
<1>4. IsCells(s1) /\ IsCells(s2) /\ IsCells(s3) /\ IsCells(s4)
  BY <1>3, ConcatIsCells
<1>5. /\ Len(s1) = 2
      /\ Len(s2) = 2 + Len(encodeLenBytes(SubjectCN))
      /\ Len(s3) = Len(s2) + 1
      /\ Len(s4) = Len(s3) + Len(encodeLenBytes(cn))
  <2>1. Len(s1) = 1 + 1
    BY <1>3, OperatorsJoined
  <2> HIDE DEF s1
  <2>2. Len(s2) = Len(s1) + Len(encodeLenBytes(SubjectCN))
    BY <1>3, <1>4, Joined
  <2> HIDE DEF s2
  <2>3. Len(s3) = Len(s2) + 1
    BY <1>4, OperatorBehind
  <2> HIDE DEF s3
  <2>4. Len(s4) = Len(s3) + Len(encodeLenBytes(cn))
    BY <1>3, <1>4, Joined
  <2> QED BY <2>1, <2>2, <2>3, <2>4
<1>6. /\ Stands(e, p, s3) /\ Stands(e, p + Len(s3), encodeLenBytes(cn))
  BY <1>1, <1>3, <1>4, StandsJoined
<1>7. /\ Stands(e, p, s2) /\ Stands(e, p + Len(s2), encodeOp(ReqMatchEqual))
  BY <1>3, <1>4, <1>6, StandsJoined
<1>8. /\ Stands(e, p, s1) /\ Stands(e, p + Len(s1), encodeLenBytes(SubjectCN))
  BY <1>3, <1>4, <1>7, StandsJoined
<1>9. /\ Stands(e, p, encodeOp(ReqOpCertField)) /\ Stands(e, p + 1, encodeOp(0))
  BY <1>8, OperatorsStand DEF s1
<1> HIDE DEF s1, s2, s3, s4
<1>10. /\ p \in Nat /\ IsNumber(e, p) /\ e[p].n = ReqOpCertField
       /\ IsNumber(e, p + 1) /\ e[p + 1].n = 0
  BY <1>9, OperatorStands
<1>11. Len(s2) \in Nat /\ Len(s3) \in Nat /\ Len(encodeLenBytes(SubjectCN)) \in Nat
  BY <1>3, <1>4 DEF IsCells
<1>12. PICK y \in Nat : y = p + Len(s2)
  BY <1>10, <1>11
<1>13. p + Len(s3) = y + 1 /\ (p + 2) + Len(encodeLenBytes(SubjectCN)) = y
  BY <1>5, <1>10, <1>11, <1>12
<1>14. StringsAt(e, p + 2) = {[end |-> y, text |-> SubjectCN]}
  <2>1. Stands(e, p + 2, encodeLenBytes(SubjectCN))
    BY <1>5, <1>8
  <2> QED BY <1>2, <1>13, <2>1, StringIsRead
<1>15. IsNumber(e, y) /\ e[y].n = ReqMatchEqual
  BY <1>7, <1>12, OperatorStands
<1>16. StringsAt(e, y + 1) = {[end |-> z, text |-> cn]}
  <2>1. Stands(e, y + 1, encodeLenBytes(cn))
    BY <1>6, <1>13
  <2>2. (y + 1) + Len(encodeLenBytes(cn)) = z
    <3>1. PICK a \in Nat : a = Len(encodeLenBytes(cn))
      BY <1>3 DEF IsCells
    <3>2. z = p + (Len(s3) + a)
      BY <1>5, <3>1
    <3> HIDE DEF z
    <3> QED BY <1>10, <1>11, <1>13, <3>1, <3>2
  <2> QED BY <2>1, <2>2, StringIsRead
<1> HIDE DEF z
<1> DEFINE slot == e[p + 1].n
           names == {s \in StringsAt(e, p + 2) : IsNumber(e, s.end)}
           exists == {[end |-> s.end + 1, holds |-> Has(path, slot, s.text)] :
                        s \in {x \in names : e[x.end].n = ReqMatchExists}}
           equal(s) == {[end |-> v.end,
                         holds |-> s.text = SubjectCN /\ slot + 1 \in DOMAIN path
                                     /\ path[slot + 1].cn = v.text] :
                           v \in StringsAt(e, s.end + 1)}
<1>17. ReadingsAt(f, e, p, ident, path)
         = exists \cup UNION {equal(s) : s \in {x \in names : e[x.end].n = ReqMatchEqual}}
  BY <1>10 DEF ReadingsAt, ReqOpIdent, ReqOpAnd, ReqOpAppleGenericAnchor, ReqOpCertField
<1>18. PICK s : s = [end |-> y, text |-> SubjectCN]
  OBVIOUS
<1>19. s.end = y /\ s.text = SubjectCN
  BY <1>18
<1>20. names = {s}
  BY <1>14, <1>15, <1>18, <1>19
<1>21. equal(s) = {[end |-> z, holds |-> TRUE]}
  <2>1. PICK v : v = [end |-> z, text |-> cn]
    OBVIOUS
  <2>2. v.end = z /\ v.text = cn
    BY <2>1
  <2>3. (s.text = SubjectCN /\ slot + 1 \in DOMAIN path /\ path[slot + 1].cn = v.text) = TRUE
    <3>1. slot + 1 = 1
      BY <1>10
    <3> QED BY <1>19, <2>2, <3>1
  <2>4. StringsAt(e, s.end + 1) = {v}
    BY <1>16, <1>19, <2>1
  <2>5. equal(s) = {[end |-> v.end,
                     holds |-> s.text = SubjectCN /\ slot + 1 \in DOMAIN path
                                 /\ path[slot + 1].cn = v.text]}
    BY <2>4
  <2> QED BY <2>2, <2>3, <2>5
<1>22. exists = {}
  BY <1>15, <1>19, <1>20 DEF ReqMatchExists, ReqMatchEqual
<1>23. {x \in names : e[x.end].n = ReqMatchEqual} = {s}
  BY <1>15, <1>19, <1>20
<1> HIDE DEF exists, equal, names
<1>24. UNION {equal(x) : x \in {s}} = equal(s)
  OBVIOUS
<1>25. HoldsTo(ReadingsAt(f, e, p, ident, path), z)
  BY <1>17, <1>21, <1>22, <1>23, <1>24 DEF HoldsTo
<1> QED BY <1>1, <1>25 DEF z

(* certificate 1[field.1.2.840.113635.100.6.2.1] exists: the issuer is one *)
(* that issues certificates for developers.                                *)
LEMMA ExistsHolds ==
    ASSUME NEW e, NEW p, NEW f, NEW ident, NEW path,
           Stands(e, p, encodeCertGenericExists(1, WWDROID)),
           2 \in DOMAIN path, WWDROID \in path[2].fields
    PROVE  HoldsTo(ReadingsAt(f, e, p, ident, path),
                   p + Len(encodeCertGenericExists(1, WWDROID)))
<1> DEFINE s1 == encodeOp(ReqOpCertGeneric) \o encodeOp(1)
           s2 == s1 \o encodeLenBytes(WWDROID)
           s3 == s2 \o encodeOp(ReqMatchExists)
           z == p + Len(s3)
<1>1. encodeCertGenericExists(1, WWDROID) = s3
  BY DEF encodeCertGenericExists
<1>2. IsCells(WWDROID)
  BY LengthOf, LenText DEF WWDROID, Text, IsCells
<1>3. /\ IsCells(encodeLenBytes(WWDROID))
      /\ \A op : IsCells(encodeOp(op)) /\ Len(encodeOp(op)) = 1
  BY <1>2, StringIsCells, OperatorIsCells
<1>4. IsCells(s1) /\ IsCells(s2) /\ IsCells(s3)
  BY <1>3, ConcatIsCells
<1>5. /\ Len(s1) = 2
      /\ Len(s2) = 2 + Len(encodeLenBytes(WWDROID))
      /\ Len(s3) = Len(s2) + 1
  <2>1. Len(s1) = 1 + 1
    BY <1>3, OperatorsJoined
  <2> HIDE DEF s1
  <2>2. Len(s2) = Len(s1) + Len(encodeLenBytes(WWDROID))
    BY <1>3, <1>4, Joined
  <2> HIDE DEF s2
  <2>3. Len(s3) = Len(s2) + 1
    BY <1>4, OperatorBehind
  <2> QED BY <2>1, <2>2, <2>3
<1>6. /\ Stands(e, p, s2) /\ Stands(e, p + Len(s2), encodeOp(ReqMatchExists))
  BY <1>1, <1>3, <1>4, StandsJoined
<1>7. /\ Stands(e, p, s1) /\ Stands(e, p + Len(s1), encodeLenBytes(WWDROID))
  BY <1>3, <1>4, <1>6, StandsJoined
<1>8. /\ Stands(e, p, encodeOp(ReqOpCertGeneric)) /\ Stands(e, p + 1, encodeOp(1))
  BY <1>3, <1>7, OperatorsStand
<1> HIDE DEF s1, s2, s3
<1>9. /\ p \in Nat /\ IsNumber(e, p) /\ e[p].n = ReqOpCertGeneric
      /\ IsNumber(e, p + 1) /\ e[p + 1].n = 1
  BY <1>8, OperatorStands
<1>10. Len(s2) \in Nat /\ Len(encodeLenBytes(WWDROID)) \in Nat
  BY <1>3, <1>4 DEF IsCells
<1>11. PICK y \in Nat : y = p + Len(s2)
  BY <1>9, <1>10
<1>12. z = y + 1 /\ (p + 2) + Len(encodeLenBytes(WWDROID)) = y
  BY <1>5, <1>9, <1>10, <1>11
<1>13. StringsAt(e, p + 2) = {[end |-> y, text |-> WWDROID]}
  <2>1. Stands(e, p + 2, encodeLenBytes(WWDROID))
    BY <1>5, <1>7
  <2> QED BY <1>2, <1>12, <2>1, StringIsRead
<1>14. IsNumber(e, y) /\ e[y].n = ReqMatchExists
  BY <1>6, <1>11, OperatorStands
<1> HIDE DEF z
<1> DEFINE slot == e[p + 1].n
           names == {s \in StringsAt(e, p + 2) : IsNumber(e, s.end)}
           exists == {[end |-> s.end + 1, holds |-> Has(path, slot, s.text)] :
                        s \in {x \in names : e[x.end].n = ReqMatchExists}}
           equal(s) == {[end |-> v.end,
                         holds |-> s.text = SubjectCN /\ slot + 1 \in DOMAIN path
                                     /\ path[slot + 1].cn = v.text] :
                           v \in StringsAt(e, s.end + 1)}
<1>15. ReadingsAt(f, e, p, ident, path)
         = exists \cup UNION {equal(s) : s \in {x \in names : e[x.end].n = ReqMatchEqual}}
  BY <1>9 DEF ReadingsAt, ReqOpIdent, ReqOpAnd, ReqOpAppleGenericAnchor, ReqOpCertGeneric
<1>16. PICK s : s = [end |-> y, text |-> WWDROID]
  OBVIOUS
<1>17. s.end = y /\ s.text = WWDROID
  BY <1>16
<1>18. names = {s}
  BY <1>13, <1>14, <1>16, <1>17
<1>19. exists = {[end |-> z, holds |-> TRUE]}
  <2>1. Has(path, slot, s.text) = TRUE
    <3>1. slot + 1 = 2
      BY <1>9
    <3> QED BY <1>17, <3>1 DEF Has
  <2>2. {x \in names : e[x.end].n = ReqMatchExists} = {s}
    BY <1>14, <1>17, <1>18
  <2>3. exists = {[end |-> s.end + 1, holds |-> Has(path, slot, s.text)]}
    BY <2>2
  <2> QED BY <1>12, <1>17, <2>1, <2>3
<1>20. {x \in names : e[x.end].n = ReqMatchEqual} = {}
  BY <1>14, <1>17, <1>18 DEF ReqMatchExists, ReqMatchEqual
<1> HIDE DEF exists, equal, names
<1>21. HoldsTo(ReadingsAt(f, e, p, ident, path), z)
  BY <1>15, <1>19, <1>20 DEF HoldsTo
<1> QED BY <1>1, <1>21 DEF z

(* The readings of an expression, where it is read. *)
LEMMA ReadingThere ==
    ASSUME NEW e, NEW f, NEW ident, NEW path, ReadsExpression(f, e, ident, path),
           NEW p \in 1..(Len(e) + 1)
    PROVE  f[p] = ReadingsAt(f, e, p, ident, path)
  BY DEF ReadsExpression

(* The whole of the designated requirement holds. *)
LEMMA DesignatedRequirementHolds ==
    ASSUME NEW ident, NEW cn, IsCells(ident), IsCells(cn), NEW path, 1 \in DOMAIN path,
           2 \in DOMAIN path, Anchored(path),
           path[1].cn = cn, WWDROID \in path[2].fields,
           NEW e, e = buildDesignatedRequirement(ident, cn),
           \A k \in 1..Len(e) : "n" \in DOMAIN e[k] => e[k].n \in Nat
    PROVE  Readings(e, ident, path) = {[end |-> Len(e) + 1, holds |-> TRUE]}
<1> DEFINE id == encodeOpIdent(ident)
           anchor == encodeOp(ReqOpAppleGenericAnchor)
           field == encodeCertFieldString(0, SubjectCN, ReqMatchEqual, cn)
           issued == encodeCertGenericExists(1, WWDROID)
           and3 == encodeAnd(field, issued)
           and2 == encodeAnd(anchor, and3)
           and1 == encodeAnd(id, and2)
<1>1. e = and1
  BY DEF buildDesignatedRequirement
<1>2. /\ IsCells(id) /\ IsCells(anchor) /\ IsCells(field) /\ IsCells(issued)
      /\ IsCells(and3) /\ IsCells(and2) /\ IsCells(and1)
  <2>1. IsCells(SubjectCN) /\ IsCells(WWDROID)
    BY LengthOf, LenText DEF SubjectCN, WWDROID, Text, IsCells
  <2>2. /\ \A b : IsCells(b) => IsCells(encodeLenBytes(b))
        /\ \A op : IsCells(encodeOp(op))
    BY StringIsCells, OperatorIsCells
  <2>3. IsCells(id) /\ IsCells(anchor)
    BY <2>2, ConcatIsCells DEF encodeOpIdent
  <2>4. IsCells(field)
    BY <2>1, <2>2, ConcatIsCells DEF encodeCertFieldString
  <2>5. IsCells(issued)
    BY <2>1, <2>2, ConcatIsCells DEF encodeCertGenericExists
  <2>6. \A left, right : IsCells(left) /\ IsCells(right) => IsCells(encodeAnd(left, right))
    BY <2>2, ConcatIsCells DEF encodeAnd
  <2> HIDE DEF id, anchor, field, issued
  <2> QED BY <2>3, <2>4, <2>5, <2>6
<1> HIDE DEF id, anchor, field, issued
<1>3. Stands(e, 1, and1)
  BY <1>1, <1>2, StandsItself
<1>4. /\ IsNumber(e, 1) /\ e[1].n = ReqOpAnd
      /\ Stands(e, 2, id) /\ Stands(e, 2 + Len(id), and2)
      /\ Len(and1) = 1 + Len(id) + Len(and2)
  <2> HIDE DEF and2
  <2>1. 1 + 1 = 2
    OBVIOUS
  <2> QED BY <1>2, <1>3, <2>1, AndStands
<1>5. PICK p2 \in Nat : p2 = 2 + Len(id)
  BY <1>2 DEF IsCells
<1>6. /\ IsNumber(e, p2) /\ e[p2].n = ReqOpAnd
      /\ Stands(e, p2 + 1, anchor) /\ Stands(e, p2 + 1 + Len(anchor), and3)
      /\ Len(and2) = 1 + Len(anchor) + Len(and3)
  <2> HIDE DEF and3
  <2> QED BY <1>2, <1>4, <1>5, AndStands
<1>7. Len(anchor) = 1 /\ p2 + 1 + 1 = p2 + 2
  BY <1>5, OperatorIsCells DEF anchor
<1>8. /\ IsNumber(e, p2 + 2) /\ e[p2 + 2].n = ReqOpAnd
      /\ Stands(e, (p2 + 2) + 1, field) /\ Stands(e, (p2 + 2) + 1 + Len(field), issued)
      /\ Len(and3) = 1 + Len(field) + Len(issued)
  BY <1>2, <1>6, <1>7, AndStands
<1>9. PICK p4 \in Nat : p4 = (p2 + 2) + 1 + Len(field)
  BY <1>2, <1>5 DEF IsCells
<1>10. PICK z \in Nat : z = p4 + Len(issued)
  BY <1>2, <1>9 DEF IsCells
<1>11. z = Len(e) + 1 /\ Len(e) \in Nat
  <2>1. Len(id) \in Nat /\ Len(field) \in Nat /\ Len(issued) \in Nat
    BY <1>2 DEF IsCells
  <2>2. Len(e) = 1 + Len(id) + (1 + 1 + (1 + Len(field) + Len(issued)))
    BY <1>1, <1>4, <1>6, <1>7, <1>8
  <2> QED BY <1>5, <1>9, <1>10, <2>1, <2>2
<1>12. /\ 1 \in 1..(Len(e) + 1) /\ 2 \in 1..(Len(e) + 1) /\ p2 \in 1..(Len(e) + 1)
       /\ p2 + 1 \in 1..(Len(e) + 1) /\ p2 + 2 \in 1..(Len(e) + 1)
       /\ (p2 + 2) + 1 \in 1..(Len(e) + 1) /\ p4 \in 1..(Len(e) + 1)
  <2>1. Len(id) \in Nat /\ Len(field) \in Nat /\ Len(issued) \in Nat
    BY <1>2 DEF IsCells
  <2> QED BY <1>5, <1>9, <1>10, <1>11, <2>1
<1>13. IsCells(e)
  BY <1>1, <1>2
<1>14. PICK f : ReadsExpression(f, e, ident, path) /\ Readings(e, ident, path) = f[1]
  BY <1>13, ExpressionIsRead
<1>15. /\ f[1] = ReadingsAt(f, e, 1, ident, path) /\ f[2] = ReadingsAt(f, e, 2, ident, path)
       /\ \A p \in {p2, p2 + 1, p2 + 2, (p2 + 2) + 1, p4} :
             f[p] = ReadingsAt(f, e, p, ident, path)
  BY <1>12, <1>14, ReadingThere
<1>16. HoldsTo(f[p4], z)
  <2>1. Stands(e, p4, issued)
    BY <1>8, <1>9
  <2> QED BY <1>10, <1>15, <2>1, ExistsHolds DEF issued
<1>17. HoldsTo(f[(p2 + 2) + 1], p4)
  BY <1>8, <1>9, <1>15, FieldHolds DEF field
<1>18. HoldsTo(f[p2 + 1], p2 + 2)
  BY <1>6, <1>7, <1>15, AnchorHolds DEF anchor
<1>19. HoldsTo(f[1 + 1], p2)
  BY <1>4, <1>5, <1>15, IdentHolds DEF id
<1>20. HoldsTo(f[p2 + 2], z)
  BY <1>8, <1>15, <1>16, <1>17, AndHolds
<1>21. HoldsTo(f[p2], z)
  BY <1>6, <1>15, <1>18, <1>20, AndHolds
<1>22. HoldsTo(f[1], z)
  BY <1>4, <1>15, <1>19, <1>21, AndHolds
<1> QED BY <1>11, <1>14, <1>22 DEF HoldsTo

(* Every number in e is a natural number. *)
Numbered(e) == IsCells(e) /\ \A k \in 1..Len(e) : "n" \in DOMAIN e[k] => e[k].n \in Nat

(* So it is in what is put together from such. *)
LEMMA NumberedJoined == \A s, t : Numbered(s) /\ Numbered(t) => Numbered(s \o t)
<1> SUFFICES ASSUME NEW s, NEW t, Numbered(s), Numbered(t) PROVE Numbered(s \o t)
  OBVIOUS
<1>1. PICK r : r = s \o t
  OBVIOUS
<1>2. /\ IsCells(r) /\ Len(r) = Len(s) + Len(t) /\ Len(s) \in Nat /\ Len(t) \in Nat
      /\ \A k \in 1..Len(s) : r[k] = s[k]
      /\ \A k \in 1..Len(t) : r[Len(s) + k] = t[k]
  BY <1>1, Joined DEF Numbered
<1>3. ASSUME NEW k \in 1..Len(r), "n" \in DOMAIN r[k] PROVE r[k].n \in Nat
  <2>1. CASE k <= Len(s)
    BY <1>2, <1>3, <2>1 DEF Numbered
  <2>2. CASE k > Len(s)
    <3>1. PICK j \in 1..Len(t) : k = Len(s) + j
      <4>1. k - Len(s) \in 1..Len(t) /\ k = Len(s) + (k - Len(s))
        BY <1>2, <2>2
      <4> QED BY <4>1
    <3> QED BY <1>2, <1>3, <3>1 DEF Numbered
  <2> QED BY <1>2, <2>1, <2>2
<1> QED BY <1>1, <1>2, <1>3 DEF Numbered

(* The numbers in the words of a requirement: operators and lengths. *)
LEMMA RequirementIsNumbered ==
    ASSUME NEW ident, NEW cn, IsCells(ident), IsCells(cn)
    PROVE  Numbered(buildDesignatedRequirement(ident, cn))
<1>1. ASSUME NEW op \in Nat PROVE Numbered(encodeOp(op))
  <2>1. PICK s : s = encodeOp(op) /\ IsCells(s) /\ Len(s) = 1
    BY OperatorIsCells
  <2>2. s[1].n = op
    BY <2>1 DEF encodeOp
  <2> QED BY <2>1, <2>2 DEF Numbered
<1>2. ASSUME NEW b, IsCells(b) PROVE Numbered(encodeLenBytes(b))
  <2>1. PICK count \in Nat : count = (Len(b) + 3) \div 4
    BY <1>2, WordsOfString
  <2>2. PICK w : w = Words(b, count)
    OBVIOUS
  <2>3. IsCells(w) /\ Len(w) = count
    BY <1>2, <2>1, <2>2, WordsOfString
  <2>4. \A k \in 1..count : DOMAIN w[k] = {"chars"}
    BY <2>2 DEF Words
  <2>5. Numbered(w)
    BY <2>3, <2>4 DEF Numbered
  <2>6. Numbered(encodeOp(Len(b)))
    BY <1>1, <1>2 DEF IsCells
  <2> QED BY <2>1, <2>2, <2>5, <2>6, NumberedJoined DEF encodeLenBytes
<1>3. IsCells(SubjectCN) /\ IsCells(WWDROID)
  BY LengthOf, LenText DEF SubjectCN, WWDROID, Text, IsCells
<1>4. /\ ReqOpIdent \in Nat /\ ReqOpAnd \in Nat /\ ReqOpCertField \in Nat
      /\ ReqOpCertGeneric \in Nat /\ ReqOpAppleGenericAnchor \in Nat
      /\ ReqMatchExists \in Nat /\ ReqMatchEqual \in Nat /\ 0 \in Nat /\ 1 \in Nat
  BY DEF ReqOpIdent, ReqOpAnd, ReqOpCertField, ReqOpCertGeneric,
         ReqOpAppleGenericAnchor, ReqMatchExists, ReqMatchEqual
<1>5. Numbered(encodeOpIdent(ident))
  BY <1>1, <1>2, <1>4, NumberedJoined DEF encodeOpIdent
<1>6. Numbered(encodeCertFieldString(0, SubjectCN, ReqMatchEqual, cn))
  BY <1>1, <1>2, <1>3, <1>4, NumberedJoined DEF encodeCertFieldString
<1>7. Numbered(encodeCertGenericExists(1, WWDROID))
  BY <1>1, <1>2, <1>3, <1>4, NumberedJoined DEF encodeCertGenericExists
<1>8. \A l, r : Numbered(l) /\ Numbered(r) => Numbered(encodeAnd(l, r))
  BY <1>1, <1>4, NumberedJoined DEF encodeAnd
<1>9. Numbered(encodeOp(ReqOpAppleGenericAnchor))
  BY <1>1, <1>4
<1> QED BY <1>5, <1>6, <1>7, <1>8, <1>9 DEF buildDesignatedRequirement

(* The designated requirement that is in a set is satisfied by code with   *)
(* this identifier, signed with such a path of certificates.               *)
LEMMA RequirementsAreSatisfied ==
    ASSUME NEW ident, NEW cn, IsCells(ident), IsCells(cn), NEW path, 1 \in DOMAIN path,
           2 \in DOMAIN path, Anchored(path), path[1].cn = cn, WWDROID \in path[2].fields
    PROVE  Satisfies(BuildRequirements(ident, cn), ident, path)
<1> DEFINE expr == buildDesignatedRequirement(ident, cn)
           data == encodeOp(1) \o expr
           requirement == WrapBlob("requirement", data)
           index == (encodeOp(1) \o encodeOp(ReqExprDesignated)) \o encodeOp(4)
           set == WrapBlob("requirements", index \o requirement)
<1>1. BuildRequirements(ident, cn) = set
  <2>1. 1 + Len(encodeOp(1) \o encodeOp(ReqExprDesignated)) + 1 = 4
    <3>1. Len(encodeOp(1) \o encodeOp(ReqExprDesignated)) = 1 + 1
      BY OperatorsJoined
    <3> QED BY <3>1
  <2> QED BY <2>1 DEF BuildRequirements, buildRequirementsSet, buildRequirementBlob
<1>2. Numbered(expr) /\ IsCells(expr)
  BY RequirementIsNumbered DEF Numbered
<1>3. Readings(expr, ident, path) = {[end |-> Len(expr) + 1, holds |-> TRUE]}
  BY <1>2, DesignatedRequirementHolds DEF Numbered
<1> HIDE DEF expr
<1>4. PICK n \in Nat : n = Len(expr)
  BY <1>2 DEF IsCells
<1>5. /\ Len(data) = 1 + n /\ \A k \in 1..n : data[1 + k] = expr[k]
  <2>1. IsCells(encodeOp(1)) /\ Len(encodeOp(1)) = 1
    BY OperatorIsCells
  <2>2. /\ Len(data) = Len(encodeOp(1)) + Len(expr)
        /\ \A k \in 1..Len(expr) : data[Len(encodeOp(1)) + k] = expr[k]
    BY <1>2, <2>1, Joined
  <2> HIDE DEF data
  <2> QED BY <1>4, <2>1, <2>2
<1> HIDE DEF data
<1>6. /\ IsBlob(requirement) /\ IsCells(requirement) /\ Len(requirement) = 2 + n
      /\ \A k \in 1..n : requirement[2 + k] = expr[k]
  <2>1. /\ IsBlob(requirement) /\ Len(requirement) = 1 + (1 + n)
        /\ \A j \in 1..(1 + n) : requirement[1 + j] = data[j]
    BY <1>4, <1>5, Wrapped
  <2> HIDE DEF requirement
  <2>2. ASSUME NEW k \in 1..n PROVE requirement[2 + k] = expr[k]
    <3>1. 1 + k \in 1..(1 + n) /\ 1 + (1 + k) = 2 + k
      BY <1>4
    <3> QED BY <1>5, <2>1, <3>1
  <2> QED BY <1>4, <2>1, <2>2 DEF IsBlob
<1> HIDE DEF requirement
<1>7. /\ IsCells(index) /\ Len(index) = 3
      /\ index[2].n = ReqExprDesignated /\ index[3].n = 4
  <2>1. PICK o1 : o1 = encodeOp(1) /\ IsCells(o1) /\ Len(o1) = 1
    BY OperatorIsCells
  <2>2. PICK o2 : o2 = encodeOp(ReqExprDesignated) /\ IsCells(o2) /\ Len(o2) = 1
                    /\ o2[1].n = ReqExprDesignated
    <3>1. encodeOp(ReqExprDesignated)[1].n = ReqExprDesignated
      BY DEF encodeOp
    <3> QED BY <3>1, OperatorIsCells
  <2>3. PICK o3 : o3 = encodeOp(4) /\ IsCells(o3) /\ Len(o3) = 1 /\ o3[1].n = 4
    <3>1. encodeOp(4)[1].n = 4
      BY DEF encodeOp
    <3> QED BY <3>1, OperatorIsCells
  <2>4. PICK r : r = o1 \o o2
    OBVIOUS
  <2>5. /\ IsCells(r) /\ Len(r) = Len(o1) + Len(o2)
        /\ \A k \in 1..Len(o2) : r[Len(o1) + k] = o2[k]
    BY <2>1, <2>2, <2>4, Joined
  <2>6. Len(r) = 2 /\ r[2].n = ReqExprDesignated
    <3>1. Len(o1) = 1 /\ Len(o2) = 1 /\ 1 \in 1..1 /\ 1 + 1 = 2
      BY <2>1, <2>2
    <3>2. r[1 + 1] = o2[1] /\ Len(r) = 1 + 1
      BY <2>5, <3>1
    <3> QED BY <2>2, <3>1, <3>2
  <2>7. PICK x : x = r \o o3
    OBVIOUS
  <2>8. /\ IsCells(x) /\ Len(x) = Len(r) + Len(o3)
        /\ \A k \in 1..Len(r) : x[k] = r[k]
        /\ \A k \in 1..Len(o3) : x[Len(r) + k] = o3[k]
    BY <2>3, <2>5, <2>7, Joined
  <2>9. Len(x) = 3 /\ x[2].n = ReqExprDesignated /\ x[3].n = 4
    <3>1. 1 \in 1..Len(o3) /\ Len(r) + 1 = 3 /\ 2 \in 1..Len(r)
      BY <2>3, <2>6
    <3> QED BY <2>3, <2>6, <2>8, <3>1
  <2>10. x = index
    BY <2>1, <2>2, <2>3, <2>4, <2>7
  <2> HIDE DEF index
  <2> QED BY <2>8, <2>9, <2>10
<1> HIDE DEF index
<1> DEFINE content == index \o requirement
<1>8. /\ Len(content) = 5 + n
      /\ \A k \in 1..3 : content[k] = index[k]
      /\ \A k \in 1..(2 + n) : content[3 + k] = requirement[k]
  <2>1. /\ Len(content) = Len(index) + Len(requirement)
        /\ \A k \in 1..Len(index) : content[k] = index[k]
        /\ \A k \in 1..Len(requirement) : content[Len(index) + k] = requirement[k]
    <3>1. IsCells(index) /\ IsCells(requirement)
      BY <1>6, <1>7
    <3> QED BY <3>1, Joined
  <2> HIDE DEF content
  <2> QED BY <1>4, <1>6, <1>7, <2>1
<1>9. /\ Len(set) = 6 + n
      /\ \A j \in 1..(5 + n) : set[1 + j] = content[j]
  <2>1. /\ Len(set) = 1 + Len(content)
        /\ \A j \in 1..Len(content) : set[1 + j] = content[j]
    <3>1. Len(content) \in Nat
      <4> HIDE DEF content
      <4> QED BY <1>4, <1>8
    <3> QED BY <3>1, Wrapped
  <2> HIDE DEF content, set
  <2> QED BY <1>4, <1>8, <2>1
<1> HIDE DEF content, set
<1>10. set[3].n = ReqExprDesignated /\ set[4].n = 4
  <2>1. 1 + 2 = 3 /\ 1 + 3 = 4 /\ 2 \in 1..(5 + n) /\ 3 \in 1..(5 + n)
    BY <1>4
  <2> QED BY <1>7, <1>8, <1>9, <2>1
<1>11. \A k \in 1..(2 + n) : set[4 + k] = requirement[k]
  <2> TAKE k \in 1..(2 + n)
  <2>1. 3 + k \in 1..(5 + n) /\ 1 + (3 + k) = 4 + k
    BY <1>4
  <2> QED BY <1>8, <1>9, <2>1
<1>12. set[4 + 1].length = 2 + n
  <2>1. 1 \in 1..(2 + n)
    BY <1>4
  <2> QED BY <1>6, <1>11, <2>1 DEF IsBlob
<1>13. Cells(set, 4, 2 + n) = requirement
  <2>1. \A p \in 1..Len(requirement) : set[4 + p] = requirement[p]
    BY <1>6, <1>11
  <2> QED BY <1>6, <2>1, CellsAreRead
<1>14. Cells(requirement, 2, (2 + n) - 2) = expr
  <2>1. (2 + n) - 2 = n /\ 2 \in Nat
    BY <1>4
  <2>2. Cells(requirement, 2, Len(expr)) = expr
    BY <1>2, <1>4, <1>6, <2>1, CellsAreRead
  <2> QED BY <1>4, <2>1, <2>2
<1>15. 4 + (2 + n) = Len(set)
  BY <1>4, <1>9
<1>16. Satisfies(set, ident, path)
  BY <1>3, <1>10, <1>12, <1>13, <1>14, <1>15 DEF Satisfies
<1> QED BY <1>1, <1>16

-----------------------------------------------------------------------------
(* How the entitlements are written and read: numbers first. *)
(* Division, with its remainder. *)
LEMMA Divide ==
    ASSUME NEW m \in Nat, NEW b \in Nat, b >= 2
    PROVE  /\ m \div b \in Nat /\ m % b \in 0..(b - 1)
           /\ m = (m \div b) * b + (m % b)
           /\ m # 0 => m \div b < m
<1>1. m = (m \div b) * b + (m % b)
  OBVIOUS
<1>2. m % b \in 0..(b - 1) /\ m \div b \in Int
  OBVIOUS
<1>3. PICK q \in Int, r \in 0..(b - 1) : q = m \div b /\ r = m % b
  BY <1>2
<1>4. m = q * b + r
  BY <1>1, <1>3
<1>5. q >= 0
  <2> SUFFICES ASSUME q <= -1 PROVE FALSE
    OBVIOUS
  <2>1. q * b <= -1 * b
    OBVIOUS
  <2> QED BY <1>4, <2>1
<1>6. m # 0 => q < m
  <2> SUFFICES ASSUME m # 0, q >= m PROVE FALSE
    OBVIOUS
  <2>1. q * b >= q * 2
    BY <1>5
  <2> QED BY <1>4, <1>5, <2>1
<1> QED BY <1>1, <1>2, <1>3, <1>5, <1>6

(* Division by the number of values that a byte has. *)
LEMMA DivideByBase ==
    ASSUME NEW m \in Nat
    PROVE  /\ m \div (2 * Half) \in Nat /\ m % (2 * Half) \in 0..(2 * Half - 1)
           /\ m = (m \div (2 * Half)) * (2 * Half) + (m % (2 * Half))
           /\ m # 0 => m \div (2 * Half) < m
<1>1. PICK b \in Nat : b = 2 * Half /\ b >= 2
  BY ValuesAssumption
<1> QED BY <1>1, Divide

(* What digits[m] is in Digits. *)
DigitsAt(f, m) ==
    IF m = 0 THEN <<>> ELSE Append(f[m \div (2 * Half)], m % (2 * Half))

IsDigits(f, n) == f = [m \in 0..n |-> DigitsAt(f, m)]

(* The digits of every number up to n are defined. *)
LEMMA DigitsAreDefined ==
    ASSUME NEW n \in Nat
    PROVE  \E f : IsDigits(f, n) /\ Digits(n) = f[n]
<1> DEFINE S == {k \in Nat : \E f : /\ f = [m \in 0..n |-> f[m]]
                                    /\ \A m \in 0..n : m < k => f[m] = DigitsAt(f, m)}
<1>1. 0 \in S
  <2> DEFINE f == [m \in 0..n |-> <<>>]
  <2>1. f = [m \in 0..n |-> f[m]] /\ \A m \in 0..n : ~(m < 0)
    OBVIOUS
  <2> HIDE DEF f
  <2> QED BY <2>1
<1>2. ASSUME NEW k \in Nat, k \in S PROVE k + 1 \in S
  <2>1. PICK f : /\ f = [m \in 0..n |-> f[m]]
                 /\ \A m \in 0..n : m < k => f[m] = DigitsAt(f, m)
    BY <1>2
  <2>2. PICK g : g = [m \in 0..n |-> DigitsAt(f, m)]
    OBVIOUS
  <2>3. \A m \in 0..n : m < k => g[m] = f[m]
    BY <2>1, <2>2
  <2>4. ASSUME NEW m \in 0..n, m < k + 1 PROVE g[m] = DigitsAt(g, m)
    <3>1. g[m] = DigitsAt(f, m)
      BY <2>2
    <3>2. CASE m = 0
      BY <3>1, <3>2 DEF DigitsAt
    <3>3. CASE m # 0
      <4>1. PICK q \in Nat : q = m \div (2 * Half) /\ q < m
        BY <3>3, DivideByBase
      <4>2. q \in 0..n /\ q < k
        BY <2>4, <4>1
      <4>3. g[q] = f[q]
        BY <2>3, <4>2
      <4> QED BY <3>1, <3>3, <4>1, <4>3 DEF DigitsAt
    <3> QED BY <3>2, <3>3
  <2>5. g = [m \in 0..n |-> g[m]]
    BY <2>2
  <2> QED BY <2>4, <2>5
<1>3. n + 1 \in S
  <2> HIDE DEF S
  <2> QED BY <1>1, <1>2, Induction
<1>4. PICK f : /\ f = [m \in 0..n |-> f[m]]
               /\ \A m \in 0..n : m < n + 1 => f[m] = DigitsAt(f, m)
  BY <1>3
<1>5. f = [m \in 0..n |-> DigitsAt(f, m)]
  BY <1>4
<1> DEFINE digits == CHOOSE g : IsDigits(g, n)
<1>6. IsDigits(digits, n)
  <2>1. IsDigits(f, n)
    BY <1>5 DEF IsDigits
  <2> QED BY <2>1
<1>7. Digits(n) = digits[n]
  BY DEF Digits, DigitsAt, IsDigits
<1> QED BY <1>6, <1>7

(* Digits are bytes. *)
LEMMA DigitsAreBytes ==
    ASSUME NEW n \in Nat, NEW f, IsDigits(f, n)
    PROVE  \A m \in 0..n : f[m] \in Seq(0..(2 * Half - 1))
<1> DEFINE T == {m \in 0..n : f[m] \notin Seq(0..(2 * Half - 1))}
<1> SUFFICES ASSUME T # {} PROVE FALSE
  OBVIOUS
<1>1. PICK m \in T : \A k \in T : m <= k
  <2>1. T \subseteq Nat
    OBVIOUS
  <2> HIDE DEF T
  <2> QED BY <2>1, Smallest
<1>2. m \in 0..n /\ f[m] = DigitsAt(f, m) /\ f[m] \notin Seq(0..(2 * Half - 1))
  <2>1. m \in 0..n /\ f[m] \notin Seq(0..(2 * Half - 1))
    OBVIOUS
  <2> QED BY <2>1 DEF IsDigits
<1>3. CASE m = 0
  <2>1. f[m] = <<>>
    BY <1>2, <1>3 DEF DigitsAt
  <2>2. <<>> \in Seq(0..(2 * Half - 1))
    OBVIOUS
  <2> HIDE DEF T
  <2> QED BY <1>2, <2>1, <2>2
<1>4. CASE m # 0
  <2>1. PICK q \in Nat : q = m \div (2 * Half) /\ q < m
    BY <1>2, <1>4, DivideByBase
  <2>2. f[q] \in Seq(0..(2 * Half - 1))
    BY <1>1, <1>2, <2>1
  <2>3. PICK r \in 0..(2 * Half - 1) : r = m % (2 * Half)
    BY <1>2, DivideByBase
  <2>4. f[m] = Append(f[q], r)
    BY <1>2, <1>4, <2>1, <2>3 DEF DigitsAt
  <2>5. f[m] \in Seq(0..(2 * Half - 1))
    <3>1. PICK R : R = 0..(2 * Half - 1)
      OBVIOUS
    <3>2. f[q] \in Seq(R) /\ r \in R
      BY <2>2, <2>3, <3>1
    <3>3. Append(f[q], r) \in Seq(R)
      BY <3>2, AppendProperties
    <3> QED BY <2>4, <3>1, <3>3
  <2> QED BY <1>2, <2>5
<1> HIDE DEF T
<1>5. m \in Nat
  BY <1>2
<1> QED BY <1>3, <1>4

(* What number[p] is in Number. *)
NumberAt(g, d, from, p) == IF p < from THEN 0 ELSE g[p - 1] * 2 * Half + d[p].byte

IsNumbers(g, d, from, to) == g = [p \in (from - 1)..to |-> NumberAt(g, d, from, p)]

(* The number that some bytes are is defined. *)
LEMMA NumberIsDefined ==
    ASSUME NEW d, NEW from \in Nat \ {0}, NEW to \in Nat, from - 1 <= to,
           \A i \in from..to : d[i].byte \in Nat
    PROVE  \E g : /\ IsNumbers(g, d, from, to)
                  /\ \A p \in (from - 1)..to : g[p] \in Nat
                  /\ Number(d, from, to) = g[to]
<1> DEFINE P == (from - 1)..to
           Is(g, p) == g[p] = NumberAt(g, d, from, p) /\ g[p] \in Nat
           S == {k \in Nat : \E g : /\ g = [p \in P |-> g[p]]
                                    /\ \A p \in P : p - (from - 1) < k => Is(g, p)}
<1>1. 0 \in S
  <2> DEFINE g == [p \in P |-> 0]
  <2>1. g = [p \in P |-> g[p]] /\ \A p \in P : ~(p - (from - 1) < 0)
    OBVIOUS
  <2> HIDE DEF g, P, Is
  <2> QED BY <2>1
<1>2. ASSUME NEW k \in Nat, k \in S PROVE k + 1 \in S
  <2>1. PICK g : /\ g = [p \in P |-> g[p]]
                 /\ \A p \in P : p - (from - 1) < k => Is(g, p)
    BY <1>2
  <2>2. PICK h : h = [p \in P |-> NumberAt(g, d, from, p)]
    OBVIOUS
  <2>3. \A p \in P : p - (from - 1) < k => h[p] = g[p] /\ g[p] \in Nat
    BY <2>1, <2>2
  <2>4. ASSUME NEW p \in P, p - (from - 1) < k + 1 PROVE Is(h, p)
    <3>1. h[p] = NumberAt(g, d, from, p)
      BY <2>2
    <3>2. CASE p < from
      BY <3>1, <3>2 DEF NumberAt
    <3>3. CASE ~(p < from)
      <4>1. p - 1 \in P /\ (p - 1) - (from - 1) < k
        BY <2>4, <3>3
      <4>2. h[p - 1] = g[p - 1] /\ g[p - 1] \in Nat
        BY <2>3, <4>1
      <4>3. d[p].byte \in Nat /\ Half \in Nat
        BY <3>3, ValuesAssumption
      <4>4. h[p] = h[p - 1] * 2 * Half + d[p].byte
        BY <3>1, <3>3, <4>2 DEF NumberAt
      <4>5. h[p] \in Nat
        <5> HIDE DEF P
        <5> QED BY <4>2, <4>3, <4>4
      <4> QED BY <3>3, <4>4, <4>5 DEF NumberAt
    <3> QED BY <3>2, <3>3
  <2>5. h = [p \in P |-> h[p]]
    BY <2>2
  <2> HIDE DEF P, Is
  <2> QED BY <2>4, <2>5
<1>3. to + 1 \in S
  <2> HIDE DEF S
  <2> QED BY <1>1, <1>2, Induction
<1>4. PICK g : /\ g = [p \in P |-> g[p]]
               /\ \A p \in P : p - (from - 1) < to + 1 => Is(g, p)
  BY <1>3
<1>5. \A p \in P : g[p] = NumberAt(g, d, from, p)
  BY <1>4
<1> DEFINE number == CHOOSE h : IsNumbers(h, d, from, to)
<1>6. IsNumbers(number, d, from, to)
  <2>1. IsNumbers(g, d, from, to)
    BY <1>4, <1>5 DEF IsNumbers
  <2> QED BY <2>1
<1>7. Number(d, from, to) = number[to]
  BY DEF Number, NumberAt, IsNumbers
<1> HIDE DEF number
<1>8. \A p \in P : number[p] = NumberAt(number, d, from, p)
  BY <1>6 DEF IsNumbers
<1> DEFINE T == {p \in P : number[p] \notin Nat}
<1>9. T = {}
  <2> SUFFICES ASSUME T # {} PROVE FALSE
    OBVIOUS
  <2>1. PICK p \in T : \A k \in T : p <= k
    <3>1. T \subseteq Nat
      OBVIOUS
    <3> HIDE DEF T
    <3> QED BY <3>1, Smallest
  <2>2. p \in P /\ number[p] = NumberAt(number, d, from, p) /\ number[p] \notin Nat
    BY <1>8
  <2>3. ~(p < from)
    BY <2>2 DEF NumberAt
  <2>4. p - 1 \in P /\ number[p - 1] \in Nat
    BY <2>1, <2>2, <2>3
  <2>5. d[p].byte \in Nat /\ Half \in Nat
    BY <2>2, <2>3, ValuesAssumption
  <2>6. number[p] = number[p - 1] * 2 * Half + d[p].byte
    BY <2>2, <2>3 DEF NumberAt
  <2> HIDE DEF T, P
  <2> QED BY <2>2, <2>4, <2>5, <2>6
<1> QED BY <1>6, <1>7, <1>9

(* How Number multiplies. *)
LEMMA TimesBase == \A q, h \in Nat : q * 2 * h = q * (2 * h)
  OBVIOUS

(* The digits s stand at x, and not beyond to. *)
DigitsStand(d, x, to, s) ==
    x - 1 + Len(s) <= to /\ \A k \in 1..Len(s) : d[x - 1 + k].byte = s[k]

(* The digits of m, behind nothing but zeros, are m. *)
LEMMA DigitsAreRead ==
    ASSUME NEW d, NEW from \in Nat \ {0}, NEW to \in Nat,
           NEW g, IsNumbers(g, d, from, to), NEW n \in Nat, NEW f, IsDigits(f, n),
           NEW x \in from..(to + 1), g[x - 1] = 0, DigitsStand(d, x, to, f[n])
    PROVE  g[x - 1 + Len(f[n])] = n
<1> DEFINE Premise(m) == /\ x - 1 + Len(f[m]) <= to
                         /\ \A k \in 1..Len(f[m]) : d[x - 1 + k].byte = f[m][k]
           T == {m \in 0..n : Premise(m) /\ g[x - 1 + Len(f[m])] # m}
<1> SUFFICES ASSUME T # {} PROVE FALSE
  <2>1. n \in 0..n /\ Premise(n)
    BY DEF DigitsStand
  <2> HIDE DEF Premise
  <2> QED BY <2>1
<1>1. PICK m \in T : \A k \in T : m <= k
  <2>1. T \subseteq Nat
    OBVIOUS
  <2> HIDE DEF T
  <2> QED BY <2>1, Smallest
<1>2. m \in 0..n /\ Premise(m) /\ g[x - 1 + Len(f[m])] # m
  OBVIOUS
<1>3. f[m] = DigitsAt(f, m)
  BY <1>2 DEF IsDigits
<1>4. m # 0
  <2> SUFFICES ASSUME m = 0 PROVE FALSE
    OBVIOUS
  <2>1. Len(f[m]) = 0
    BY <1>3 DEF DigitsAt
  <2> QED BY <1>2, <2>1
<1>5. PICK q \in Nat, r \in 0..(2 * Half - 1) :
         /\ q = m \div (2 * Half) /\ r = m % (2 * Half)
         /\ m = q * (2 * Half) + r /\ q < m
  <2>1. m \in Nat
    BY <1>2
  <2> HIDE DEF T, Premise
  <2> QED BY <1>4, <2>1, DivideByBase
<1>6. f[m] = Append(f[q], r) /\ q \in 0..n
  <2>1. q \in 0..n
    BY <1>2, <1>5
  <2>2. DigitsAt(f, m) = Append(f[q], r)
    BY <1>4, <1>5 DEF DigitsAt
  <2> QED BY <1>3, <2>1, <2>2
<1>7. PICK R : R = 0..(2 * Half - 1)
  OBVIOUS
<1>8. f[q] \in Seq(R) /\ r \in R
  BY <1>5, <1>6, <1>7, DigitsAreBytes
<1>9. PICK L \in Nat : L = Len(f[q])
  BY <1>8, LenProperties
<1>10. /\ Len(f[m]) = L + 1 /\ f[m][L + 1] = r
       /\ \A k \in 1..L : f[m][k] = f[q][k]
  <2>1. PICK s : s = f[q] /\ s \in Seq(R)
    BY <1>8
  <2>2. PICK t : t = Append(s, r)
    OBVIOUS
  <2>3. Len(t) = Len(s) + 1 /\ t[Len(s) + 1] = r /\ \A k \in 1..Len(s) : t[k] = s[k]
    BY <1>8, <2>1, <2>2, AppendProperties
  <2> HIDE DEF T, Premise
  <2> QED BY <1>6, <1>9, <2>1, <2>2, <2>3
<1>11. x - 1 + (L + 1) <= to /\ \A k \in 1..(L + 1) : d[x - 1 + k].byte = f[m][k]
  BY <1>2, <1>10
<1>12. Premise(q)
  <2>1. x - 1 + L <= to /\ \A k \in 1..L : k \in 1..(L + 1)
    BY <1>9, <1>11
  <2>2. \A k \in 1..L : d[x - 1 + k].byte = f[q][k]
    BY <1>10, <1>11, <2>1
  <2> QED BY <1>9, <2>1, <2>2
<1>13. g[x - 1 + L] = q
  <2>1. q \notin T
    <3> HIDE DEF T
    <3> QED BY <1>1, <1>2, <1>5
  <2> QED BY <1>6, <1>9, <1>12, <2>1
<1>14. PICK p \in from..to : p = x - 1 + (L + 1)
  <2>1. x - 1 + (L + 1) \in from..to
    <3> HIDE DEF T, Premise
    <3> QED BY <1>9, <1>11
  <2> QED BY <2>1
<1>15. d[p].byte = r /\ p - 1 = x - 1 + L
  <2>1. L + 1 \in 1..(L + 1)
    BY <1>9
  <2>2. d[x - 1 + (L + 1)].byte = r
    BY <1>10, <1>11, <2>1
  <2>3. p - 1 = x - 1 + L
    <3> HIDE DEF T, Premise
    <3> QED BY <1>9, <1>14
  <2> QED BY <1>14, <2>2, <2>3
<1>16. g[p] = g[p - 1] * 2 * Half + d[p].byte
  <2>1. p \in (from - 1)..to /\ ~(p < from)
    BY <1>14
  <2> QED BY <2>1 DEF NumberAt, IsNumbers
<1>17. g[p] = q * 2 * Half + r
  BY <1>13, <1>15, <1>16
<1>18. g[p] = m
  <2>1. Half \in Nat
    BY ValuesAssumption
  <2> HIDE DEF T, Premise
  <2>2. q * 2 * Half = q * (2 * Half)
    BY <2>1, TimesBase
  <2> QED BY <1>5, <1>17, <2>2
<1> QED BY <1>2, <1>10, <1>14, <1>18

-----------------------------------------------------------------------------
(* Cells of which those that are bytes are natural numbers. *)
Bytewise(d) == IsCells(d) /\ \A k \in 1..Len(d) : "byte" \in DOMAIN d[k] => d[k].byte \in Nat

(* So is what is put together from such. *)
LEMMA BytewiseJoined == \A s, t : Bytewise(s) /\ Bytewise(t) => Bytewise(s \o t)
<1> SUFFICES ASSUME NEW s, NEW t, Bytewise(s), Bytewise(t) PROVE Bytewise(s \o t)
  OBVIOUS
<1>1. PICK r : r = s \o t
  OBVIOUS
<1>2. /\ IsCells(r) /\ Len(r) = Len(s) + Len(t) /\ Len(s) \in Nat /\ Len(t) \in Nat
      /\ \A k \in 1..Len(s) : r[k] = s[k]
      /\ \A k \in 1..Len(t) : r[Len(s) + k] = t[k]
  BY <1>1, Joined DEF Bytewise
<1>3. ASSUME NEW k \in 1..Len(r), "byte" \in DOMAIN r[k] PROVE r[k].byte \in Nat
  <2>1. CASE k <= Len(s)
    BY <1>2, <1>3, <2>1 DEF Bytewise
  <2>2. CASE k > Len(s)
    <3>1. PICK j \in 1..Len(t) : k = Len(s) + j
      <4>1. k - Len(s) \in 1..Len(t) /\ k = Len(s) + (k - Len(s))
        BY <1>2, <2>2
      <4> QED BY <4>1
    <3> QED BY <1>2, <1>3, <3>1 DEF Bytewise
  <2> QED BY <1>2, <2>1, <2>2
<1> QED BY <1>1, <1>2, <1>3 DEF Bytewise

(* The bytes of some digits. *)
LEMMA BytesOf ==
    ASSUME NEW S, S \subseteq Nat, NEW s \in Seq(S)
    PROVE  /\ Bytewise(Bytes(s)) /\ Len(Bytes(s)) = Len(s) /\ Len(s) \in Nat
           /\ \A k \in 1..Len(s) : Bytes(s)[k] = [byte |-> s[k]] /\ s[k] \in S
<1>1. PICK n \in Nat : n = Len(s) /\ DOMAIN s = 1..n
  BY LenProperties
<1>2. PICK b : b = Bytes(s)
  OBVIOUS
<1>3. b = [k \in 1..n |-> [byte |-> s[k]]]
  BY <1>1, <1>2 DEF Bytes
<1>4. b = [k \in 1..n |-> b[k]]
  BY <1>3
<1>5. Len(b) = n /\ IsCells(b)
  BY <1>4, LengthOf DEF IsCells
<1>6. \A k \in 1..n : s[k] \in S
  BY <1>1
<1>7. Bytewise(b)
  BY <1>3, <1>5, <1>6 DEF Bytewise
<1> QED BY <1>1, <1>2, <1>3, <1>5, <1>6, <1>7

(* One byte before some others. *)
LEMMA ByteBefore ==
    ASSUME NEW x \in Nat, NEW s \in Seq(Nat)
    PROVE  /\ <<x>> \o s \in Seq(Nat) /\ Len(<<x>> \o s) = 1 + Len(s) /\ Len(s) \in Nat
           /\ (<<x>> \o s)[1] = x
           /\ \A k \in 1..Len(s) : (<<x>> \o s)[1 + k] = s[k]
<1>1. PICK t : t = <<x>> /\ t \in Seq(Nat) /\ Len(t) = 1 /\ t[1] = x
  <2>1. <<x>> \in Seq(Nat)
    OBVIOUS
  <2>2. Len(<<x>>) = 1 /\ <<x>>[1] = x
    OBVIOUS
  <2> QED BY <2>1, <2>2
<1>2. Len(s) \in Nat
  BY LenProperties
<1>3. PICK r : r = t \o s
  OBVIOUS
<1>4. /\ r \in Seq(Nat) /\ Len(r) = Len(t) + Len(s)
      /\ \A i \in 1..(Len(t) + Len(s)) : r[i] = IF i <= Len(t) THEN t[i] ELSE s[i - Len(t)]
  BY <1>1, <1>3, ConcatProperties
<1>5. r[1] = x
  BY <1>1, <1>2, <1>4
<1>6. ASSUME NEW k \in 1..Len(s) PROVE r[1 + k] = s[k]
  <2>1. 1 + k \in 1..(1 + Len(s)) /\ ~(1 + k <= 1) /\ (1 + k) - 1 = k
    BY <1>2
  <2> QED BY <1>1, <1>4, <2>1
<1> QED BY <1>1, <1>2, <1>3, <1>4, <1>5, <1>6

(* The digits of a number, as a sequence. *)
LEMMA DigitsOf ==
    ASSUME NEW n \in Nat
    PROVE  Digits(n) \in Seq(Nat) /\ Digits(n) \in Seq(0..(2 * Half - 1))
<1>1. PICK f : IsDigits(f, n) /\ Digits(n) = f[n]
  BY DigitsAreDefined
<1>2. Digits(n) \in Seq(0..(2 * Half - 1))
  <2>1. n \in 0..n
    OBVIOUS
  <2>2. \A m \in 0..n : f[m] \in Seq(0..(2 * Half - 1))
    BY <1>1, DigitsAreBytes
  <2> QED BY <1>1, <2>1, <2>2
<1>3. 0..(2 * Half - 1) \subseteq Nat
  BY ValuesAssumption
<1> QED BY <1>2, <1>3, SeqMonotonic

(* Bytes stand from a place to another, and zeros up to a place. *)
BytesStand(d, from, to) == \A i \in from..to : d[i].byte \in Nat
ZerosStand(d, from, x) == \A i \in from..(x - 1) : d[i].byte = 0

(* What digits stand for, where they stand behind at most one zero. *)
LEMMA DigitsAreNumber ==
    ASSUME NEW d, NEW from \in Nat \ {0}, NEW to \in Nat, from - 1 <= to,
           BytesStand(d, from, to),
           NEW n \in Nat, NEW x \in from..(to + 1), x - 1 + Len(Digits(n)) = to,
           ZerosStand(d, from, x), DigitsStand(d, x, to, Digits(n)), x = from \/ x = from + 1
    PROVE  Number(d, from, to) = n
<1>1. PICK f : IsDigits(f, n) /\ Digits(n) = f[n]
  BY DigitsAreDefined
<1>2. PICK g : /\ IsNumbers(g, d, from, to)
               /\ \A p \in (from - 1)..to : g[p] \in Nat
               /\ Number(d, from, to) = g[to]
  BY NumberIsDefined DEF BytesStand
<1>3. g[from - 1] = 0
  <2>1. from - 1 \in (from - 1)..to /\ from - 1 < from
    OBVIOUS
  <2> QED BY <1>2, <2>1 DEF NumberAt, IsNumbers
<1>4. g[x - 1] = 0
  <2>1. CASE x = from
    BY <1>3, <2>1
  <2>2. CASE x = from + 1
    <3>1. from \in (from - 1)..to /\ ~(from < from) /\ x - 1 = from /\ from \in from..(x - 1)
      BY <2>2
    <3>2. g[from] = g[from - 1] * 2 * Half + d[from].byte
      BY <1>2, <3>1 DEF NumberAt, IsNumbers
    <3>3. d[from].byte = 0 /\ Half \in Nat
      BY <3>1, ValuesAssumption DEF ZerosStand
    <3>4. g[from] = 0 * 2 * Half + 0
      BY <1>3, <3>2, <3>3
    <3> QED BY <3>1, <3>3, <3>4
  <2> QED BY <2>1, <2>2
<1>5. n \in 0..n
  OBVIOUS
<1>6. g[x - 1 + Len(f[n])] = n
  <2>2. DigitsStand(d, x, to, f[n])
    BY <1>1
  <2> QED BY <1>1, <1>2, <1>4, <2>2, DigitsAreRead
<1> QED BY <1>1, <1>2, <1>6

(* The bytes that a length is written as. *)
LengthBytes(n) == IF n < Half THEN <<n>> ELSE <<Half + Len(Digits(n))>> \o Digits(n)

(* They are bytes, the digits behind how many there are. *)
LEMMA LengthWritten ==
    ASSUME NEW n \in Nat
    PROVE  /\ derLength(n) = Bytes(LengthBytes(n)) /\ LengthBytes(n) \in Seq(Nat)
           /\ n < Half => Len(LengthBytes(n)) = 1 /\ LengthBytes(n)[1] = n
           /\ ~(n < Half) =>
                 /\ Len(LengthBytes(n)) = 1 + Len(Digits(n)) /\ Len(Digits(n)) \in Nat
                 /\ LengthBytes(n)[1] = Half + Len(Digits(n))
                 /\ \A k \in 1..Len(Digits(n)) : LengthBytes(n)[1 + k] = Digits(n)[k]
<1>1. CASE n < Half
  <2>1. PICK s : s = <<n>> /\ s \in Seq(Nat) /\ Len(s) = 1 /\ s[1] = n
    <3>1. <<n>> \in Seq(Nat) /\ Len(<<n>>) = 1 /\ <<n>>[1] = n
      OBVIOUS
    <3> QED BY <3>1
  <2> QED BY <1>1, <2>1 DEF LengthBytes, derLength
<1>2. CASE ~(n < Half)
  <2>1. PICK s : s = Digits(n) /\ s \in Seq(Nat)
    BY DigitsOf
  <2>2. Len(s) \in Nat
    BY <2>1, LenProperties
  <2>3. PICK x \in Nat : x = Half + Len(s)
    BY <2>2, ValuesAssumption
  <2>4. PICK r : r = <<x>> \o s
    OBVIOUS
  <2>5. r \in Seq(Nat) /\ Len(r) = 1 + Len(s) /\ r[1] = x /\ \A k \in 1..Len(s) : r[1 + k] = s[k]
    BY <2>1, <2>4, ByteBefore
  <2>6. derLength(n) = Bytes(r) /\ LengthBytes(n) = r
    BY <1>2, <2>1, <2>3, <2>4 DEF LengthBytes, derLength
  <2> QED BY <1>2, <2>1, <2>2, <2>3, <2>5, <2>6
<1> QED BY <1>1, <1>2

(* The length n, of len bytes behind what is tagged at p, as ContentAt reads it. *)
ReadsLength(d, p, len, n) ==
    LET long == d[p + 1].byte - Half
    IN  /\ IsByte(d, p + 1)
        /\ (IF long < 0 THEN p + 2 ELSE p + 2 + long) = p + 1 + len
        /\ (IF long < 0 THEN d[p + 1].byte ELSE Number(d, p + 2, p + 1 + long)) = n
        /\ \A i \in (p + 2)..(p + len) : IsByte(d, i)

(* A length that stands behind a tag is read as it was written. *)
LEMMA LengthIsRead ==
    ASSUME NEW d, NEW p \in Nat \ {0}, NEW n \in Nat, Stands(d, p + 1, derLength(n))
    PROVE  /\ ReadsLength(d, p, Len(derLength(n)), n)
           /\ Len(derLength(n)) \in Nat \ {0} /\ Bytewise(derLength(n))
<1>1. PICK s : s = LengthBytes(n) /\ s \in Seq(Nat) /\ derLength(n) = Bytes(s)
  BY LengthWritten
<1>2. /\ Bytewise(Bytes(s)) /\ Len(Bytes(s)) = Len(s) /\ Len(s) \in Nat
      /\ \A k \in 1..Len(s) : Bytes(s)[k] = [byte |-> s[k]] /\ s[k] \in Nat
  BY <1>1, BytesOf
<1>3. /\ (p + 1) + Len(s) <= Len(d) + 1 /\ Len(d) \in Nat /\ DOMAIN d = 1..Len(d)
      /\ \A k \in 1..Len(s) : d[(p + 1) - 1 + k] = Bytes(s)[k]
  BY <1>1, <1>2 DEF Stands, IsCells
<1>4. \A k \in 1..Len(s) : IsByte(d, p + k) /\ d[p + k].byte = s[k] /\ s[k] \in Nat
  <2> SUFFICES ASSUME NEW k \in 1..Len(s)
               PROVE  IsByte(d, p + k) /\ d[p + k].byte = s[k] /\ s[k] \in Nat
    OBVIOUS
  <2>1. (p + 1) - 1 + k = p + k /\ p + k \in 1..Len(d)
    BY <1>2, <1>3
  <2>2. d[p + k] = [byte |-> s[k]] /\ s[k] \in Nat
    BY <1>2, <1>3, <2>1
  <2> QED BY <1>3, <2>1, <2>2 DEF IsByte
<1>5. CASE n < Half
  <2>1. Len(s) = 1 /\ s[1] = n
    BY <1>1, <1>5, LengthWritten
  <2>2. IsByte(d, p + 1) /\ d[p + 1].byte = n
    BY <1>4, <2>1
  <2>3. n - Half < 0 /\ p + 2 = p + 1 + 1
    BY <1>5, ValuesAssumption
  <2>4. ReadsLength(d, p, 1, n)
    BY <2>2, <2>3 DEF ReadsLength
  <2> QED BY <1>1, <1>2, <2>1, <2>4
<1>6. CASE ~(n < Half)
  <2>1. PICK t : t = Digits(n) /\ t \in Seq(Nat)
    BY DigitsOf
  <2>2. PICK L \in Nat : L = Len(t)
    BY <2>1, LenProperties
  <2>3. Len(s) = 1 + L /\ s[1] = Half + L /\ \A k \in 1..L : s[1 + k] = t[k]
    BY <1>1, <1>6, <2>1, <2>2, LengthWritten
  <2>4. PICK h \in Nat : h = Half
    BY ValuesAssumption
  <2>5. 1 \in 1..Len(s)
    BY <2>3
  <2>6. IsByte(d, p + 1) /\ d[p + 1].byte = h + L
    BY <1>4, <2>3, <2>4, <2>5
  <2>7. d[p + 1].byte - Half = L /\ ~(L < 0)
    BY <2>4, <2>6
  <2>8. PICK from \in Nat \ {0} : from = p + 2
    OBVIOUS
  <2>9. PICK to \in Nat : to = p + 1 + L
    OBVIOUS
  <2>10. ASSUME NEW k \in 1..L PROVE IsByte(d, from - 1 + k) /\ d[from - 1 + k].byte = t[k] /\ t[k] \in Nat
    <3>1. 1 + k \in 1..Len(s) /\ from - 1 + k = p + (1 + k)
      BY <2>3, <2>8
    <3>2. IsByte(d, p + (1 + k)) /\ d[p + (1 + k)].byte = s[1 + k] /\ s[1 + k] \in Nat
      BY <1>4, <3>1
    <3> QED BY <2>3, <3>1, <3>2
  <2>11. ASSUME NEW i \in from..to PROVE IsByte(d, i) /\ d[i].byte \in Nat
    <3>1. PICK k \in 1..L : i = from - 1 + k
      <4>1. i - (from - 1) \in 1..L /\ i = from - 1 + (i - (from - 1))
        BY <2>8, <2>9
      <4> QED BY <4>1
    <3> QED BY <2>10, <3>1
  <2>12. Number(d, from, to) = n
    <3>1. /\ from - 1 <= to /\ from \in from..(to + 1) /\ from - 1 + Len(t) = to
      BY <2>2, <2>8, <2>9
    <3>2. ZerosStand(d, from, from) /\ BytesStand(d, from, to)
      BY <2>11 DEF ZerosStand, BytesStand
    <3>3. DigitsStand(d, from, to, t)
      BY <2>2, <2>10, <3>1 DEF DigitsStand
    <3> QED BY <2>1, <3>1, <3>2, <3>3, DigitsAreNumber
  <2>13. ReadsLength(d, p, 1 + L, n)
    <3>1. p + (1 + L) = to /\ p + 2 + L = p + 1 + (1 + L)
      BY <2>9
    <3> QED BY <2>6, <2>7, <2>8, <2>9, <2>11, <2>12, <3>1 DEF ReadsLength
  <2> QED BY <1>1, <1>2, <2>3, <2>13
<1> QED BY <1>5, <1>6

(* A length is bytes. *)
LEMMA LengthIsBytewise ==
    ASSUME NEW n \in Nat
    PROVE  Bytewise(derLength(n)) /\ IsCells(derLength(n)) /\ Len(derLength(n)) \in Nat
<1>1. PICK s : s = LengthBytes(n) /\ s \in Seq(Nat) /\ derLength(n) = Bytes(s)
  BY LengthWritten
<1> QED BY <1>1, BytesOf DEF Bytewise

(* What is tagged is cells, the tag before its length and its content. *)
LEMMA TaggedIsCells ==
    ASSUME NEW tag, NEW content, IsCells(content)
    PROVE  /\ IsCells(Tagged(tag, content)) /\ Len(content) \in Nat
           /\ Len(derLength(Len(content))) \in Nat
           /\ Len(Tagged(tag, content)) = 1 + Len(derLength(Len(content))) + Len(content)
           /\ Bytewise(content) => Bytewise(Tagged(tag, content))
           /\ \A d, p : Stands(d, p, Tagged(tag, content)) =>
                 /\ Stands(d, p, <<[tag |-> tag]>>)
                 /\ Stands(d, p + 1, derLength(Len(content)))
                 /\ Stands(d, p + 1 + Len(derLength(Len(content))), content)
<1>1. PICK n \in Nat : n = Len(content)
  BY DEF IsCells
<1>2. PICK s : s = derLength(n) /\ Bytewise(s) /\ IsCells(s) /\ Len(s) \in Nat
  BY LengthIsBytewise
<1>3. PICK t : t = <<[tag |-> tag]>> /\ IsCells(t) /\ Len(t) = 1 /\ Bytewise(t)
  <2>1. PICK t : t = <<[tag |-> tag]>>
    OBVIOUS
  <2>2. IsCells(t) /\ Len(t) = 1 /\ t[1] = [tag |-> tag]
    BY <2>1 DEF IsCells
  <2>3. Bytewise(t)
    BY <2>2 DEF Bytewise
  <2> QED BY <2>1, <2>2, <2>3
<1>4. PICK h : h = t \o s /\ IsCells(h) /\ Len(h) = Len(t) + Len(s) /\ Bytewise(h)
  BY <1>2, <1>3, Joined, BytewiseJoined
<1>5. PICK r : r = h \o content
  OBVIOUS
<1>6. IsCells(r) /\ Len(r) = Len(h) + Len(content) /\ (Bytewise(content) => Bytewise(r))
  BY <1>4, <1>5, Joined, BytewiseJoined
<1>7. Tagged(tag, content) = r
  BY <1>1, <1>2, <1>3, <1>4, <1>5 DEF Tagged
<1>8. ASSUME NEW d, NEW p, Stands(d, p, r)
      PROVE  Stands(d, p, t) /\ Stands(d, p + 1, s) /\ Stands(d, p + 1 + Len(s), content)
  <2>1. Stands(d, p, h) /\ Stands(d, p + Len(h), content)
    BY <1>4, <1>5, <1>8, StandsJoined
  <2>2. Stands(d, p, t) /\ Stands(d, p + Len(t), s) /\ p \in Nat
    <3>1. Stands(d, p, t \o s) /\ IsCells(t) /\ IsCells(s)
      BY <1>2, <1>3, <1>4, <2>1
    <3>2. Stands(d, p, t) /\ Stands(d, p + Len(t), s)
      BY <3>1, StandsJoined
    <3> QED BY <3>2 DEF Stands
  <2>3. p + Len(t) = p + 1 /\ p + Len(h) = p + 1 + Len(s)
    BY <1>2, <1>3, <1>4, <2>2
  <2> QED BY <2>1, <2>2, <2>3
<1>9. Len(r) = 1 + Len(s) + n
  BY <1>1, <1>2, <1>3, <1>4, <1>6
<1> QED BY <1>1, <1>2, <1>3, <1>6, <1>7, <1>8, <1>9

(* At p stands tag, and the content that is read there is from from to before end. *)
TagStands(d, p, tag, from, end) ==
    /\ p \in DOMAIN d /\ d[p] = [tag |-> tag]
    /\ ContentAt(d, p) = {[from |-> from, end |-> end]}

(* What is tagged is read as it was written. *)
LEMMA TaggedIsRead ==
    ASSUME NEW d, NEW p, NEW tag, NEW content, IsCells(content),
           Stands(d, p, Tagged(tag, content))
    PROVE  \E from \in Nat \ {0} :
              /\ TagStands(d, p, tag, from, p + Len(Tagged(tag, content)))
              /\ from + Len(content) = p + Len(Tagged(tag, content)) /\ p + 1 < from
              /\ Stands(d, from, content) /\ p \in Nat \ {0}
<1>1. PICK n \in Nat : n = Len(content)
  BY DEF IsCells
<1>2. PICK len \in Nat : /\ len = Len(derLength(n))
                         /\ Len(Tagged(tag, content)) = 1 + len + n
  BY <1>1, TaggedIsCells
<1>3. /\ Stands(d, p, <<[tag |-> tag]>>) /\ Stands(d, p + 1, derLength(n))
      /\ Stands(d, p + 1 + len, content)
  BY <1>1, <1>2, TaggedIsCells
<1>4. d[p] = [tag |-> tag] /\ p \in Nat \ {0} /\ p \in DOMAIN d
  BY <1>3, CellStands
<1>5. ReadsLength(d, p, len, n) /\ len # 0
  BY <1>2, <1>3, <1>4, LengthIsRead
<1>6. p + 1 + len + n <= Len(d) + 1 /\ Len(d) \in Nat
  BY <1>1, <1>3 DEF Stands, IsCells
<1>7. PICK from \in Nat \ {0} : from = p + 1 + len
  BY <1>4
<1>8. ContentAt(d, p) = {[from |-> from, end |-> from + n]}
  <2> DEFINE long == d[p + 1].byte - Half
             first == IF long < 0 THEN p + 2 ELSE p + 2 + long
             size == IF long < 0 THEN d[p + 1].byte ELSE Number(d, p + 2, p + 1 + long)
  <2>1. /\ first = from /\ size = n /\ IsByte(d, p + 1)
        /\ \A i \in (p + 2)..(p + len) : IsByte(d, i)
    BY <1>5, <1>7 DEF ReadsLength
  <2>2. p + len = from - 1
    BY <1>4, <1>7
  <2>3. "tag" \in DOMAIN d[p]
    BY <1>4
  <2>4. ContentAt(d, p) = IF /\ p \in DOMAIN d /\ "tag" \in DOMAIN d[p] /\ IsByte(d, p + 1)
                             /\ \A i \in (p + 2)..(first - 1) : IsByte(d, i)
                             /\ first + size <= Len(d) + 1
                          THEN {[from |-> first, end |-> first + size]} ELSE {}
    BY DEF ContentAt
  <2>5. first + size <= Len(d) + 1
    BY <1>6, <1>7, <2>1
  <2> HIDE DEF long, first, size
  <2> QED BY <1>4, <2>1, <2>2, <2>3, <2>4, <2>5
<1>9. /\ from + n = p + Len(Tagged(tag, content))
      /\ p + 1 < from
  BY <1>2, <1>4, <1>5, <1>7
<1>10. TagStands(d, p, tag, from, p + Len(Tagged(tag, content)))
  BY <1>4, <1>8, <1>9 DEF TagStands
<1> QED BY <1>1, <1>3, <1>4, <1>7, <1>9, <1>10

(* The content of a scalar, and the value that is read from it. *)
Writes(tag, content, v) ==
    tag \notin {"SET", "SEQUENCE"} /\ Bytewise(content) /\ Scalar(tag, content) = v

(* Text is cells. *)
LEMMA TextIsBytewise == \A text : IsText(text) => Bytewise(text) /\ DOMAIN text = 1..Len(text)
<1> SUFFICES ASSUME NEW text, IsText(text)
             PROVE  Bytewise(text) /\ DOMAIN text = 1..Len(text)
  OBVIOUS
<1>1. PICK S : text \in Seq(S)
  BY DEF IsText
<1>2. PICK n \in Nat : n = Len(text) /\ DOMAIN text = 1..n /\ text = [k \in 1..n |-> text[k]]
  BY <1>1
<1>3. \A k \in 1..n : DOMAIN text[k] = {"char"}
  BY <1>2 DEF IsText
<1>4. IsCells(text)
  BY <1>2 DEF IsCells
<1>5. \A k \in 1..n : "byte" \notin DOMAIN text[k]
  <2> SUFFICES ASSUME NEW k \in 1..n PROVE "byte" \notin DOMAIN text[k]
    OBVIOUS
  <2>1. DOMAIN text[k] = {"char"}
    BY <1>3
  <2> QED BY <2>1
<1> QED BY <1>2, <1>4, <1>5 DEF Bytewise

(* A string is read as its text. *)
LEMMA TextIsWritten ==
    ASSUME NEW text, IsText(text)
    PROVE  Writes("UTF8String", text, [kind |-> "string", text |-> text])
<1>1. Bytewise(text)
  BY TextIsBytewise
<1>2. \A i \in DOMAIN text : "char" \in DOMAIN text[i]
  <2> SUFFICES ASSUME NEW i \in DOMAIN text PROVE "char" \in DOMAIN text[i]
    OBVIOUS
  <2>1. DOMAIN text[i] = {"char"}
    BY DEF IsText
  <2> QED BY <2>1
<1>3. Scalar("UTF8String", text) = [kind |-> "string", text |-> text]
  BY <1>2 DEF Scalar
<1> QED BY <1>1, <1>3 DEF Writes

(* Bytes are all bytes. *)
LEMMA BytesAreBytes ==
    ASSUME NEW s \in Seq(Nat)
    PROVE  /\ Len(Bytes(s)) = Len(s) /\ Bytewise(Bytes(s)) /\ Len(s) \in Nat
           /\ \A i \in DOMAIN Bytes(s) : IsByte(Bytes(s), i) /\ "char" \notin DOMAIN Bytes(s)[i]
           /\ \A i \in 1..Len(s) : Bytes(s)[i].byte = s[i] /\ s[i] \in Nat
<1>1. PICK b : b = Bytes(s)
  OBVIOUS
<1>2. /\ Bytewise(b) /\ Len(b) = Len(s) /\ Len(s) \in Nat
      /\ \A k \in 1..Len(s) : b[k] = [byte |-> s[k]] /\ s[k] \in Nat
  BY <1>1, BytesOf
<1>3. DOMAIN b = 1..Len(s)
  BY <1>2 DEF Bytewise, IsCells
<1>4. \A k \in 1..Len(s) : IsByte(b, k) /\ "char" \notin DOMAIN b[k] /\ b[k].byte = s[k]
  <2> SUFFICES ASSUME NEW k \in 1..Len(s)
               PROVE  IsByte(b, k) /\ "char" \notin DOMAIN b[k] /\ b[k].byte = s[k]
    OBVIOUS
  <2>1. b[k] = [byte |-> s[k]]
    BY <1>2
  <2> QED BY <1>3, <2>1 DEF IsByte
<1> QED BY <1>1, <1>2, <1>3, <1>4

(* A boolean is read as it is written. *)
LEMMA BooleanIsWritten ==
    ASSUME NEW n \in Nat
    PROVE  Writes("BOOLEAN", Bytes(<<n>>), [kind |-> "bool", n |-> n])
<1>1. PICK s : s = <<n>> /\ s \in Seq(Nat) /\ Len(s) = 1 /\ s[1] = n
  <2>1. <<n>> \in Seq(Nat) /\ Len(<<n>>) = 1 /\ <<n>>[1] = n
    OBVIOUS
  <2> QED BY <2>1
<1>2. PICK b : b = Bytes(s)
  OBVIOUS
<1>3. Len(b) = 1 /\ Bytewise(b) /\ b[1].byte = n /\ \A i \in DOMAIN b : IsByte(b, i)
  <2>1. 1 \in 1..Len(s)
    BY <1>1
  <2> QED BY <1>1, <1>2, <2>1, BytesAreBytes
<1>4. Scalar("BOOLEAN", b) = [kind |-> "bool", n |-> n]
  BY <1>3 DEF Scalar
<1> QED BY <1>1, <1>2, <1>3, <1>4 DEF Writes

(* The bytes of a number that is not negative: the first one is below Half. *)
LEMMA PaddedIsNumber ==
    ASSUME NEW n \in Nat, NEW s, s = Padded(Digits(n)), NEW b, b = Bytes(s)
    PROVE  /\ s \in Seq(Nat) /\ Len(s) \in Nat \ {0} /\ s[1] < Half
           /\ \A i \in 1..Len(s) : s[i] \in 0..(2 * Half - 1)
           /\ Number(b, 1, Len(b)) = n
<1>1. PICK t : /\ t = Digits(n) /\ t \in Seq(Nat) /\ Len(t) \in Nat
               /\ \A k \in 1..Len(t) : t[k] \in 0..(2 * Half - 1)
  <2>1. Digits(n) \in Seq(Nat) /\ Digits(n) \in Seq(0..(2 * Half - 1))
    BY DigitsOf
  <2>2. \A k \in 1..Len(Digits(n)) : Digits(n)[k] \in 0..(2 * Half - 1)
    BY <2>1, ElementOfSeq
  <2> QED BY <2>1, <2>2, LenProperties
<1>2. Half \in Nat \ {0}
  BY ValuesAssumption
<1>3. /\ s \in Seq(Nat) /\ Len(s) \in Nat \ {0} /\ s[1] \in Nat /\ s[1] < Half
      /\ \E x \in {1, 2} : /\ x - 1 + Len(t) = Len(s) /\ x <= Len(s) + 1
                           /\ \A i \in 1..(x - 1) : s[i] = 0
                           /\ \A k \in 1..Len(t) : s[x - 1 + k] = t[k]
  <2>1. CASE t = <<>> \/ t[1] >= Half
    <3>1. s = <<0>> \o t
      BY <1>1, <2>1 DEF Padded
    <3>2. s \in Seq(Nat) /\ Len(s) = 1 + Len(t) /\ s[1] = 0 /\ \A k \in 1..Len(t) : s[1 + k] = t[k]
      BY <1>1, <3>1, ByteBefore
    <3>3. 2 - 1 = 1 /\ \A i \in 1..(2 - 1) : s[i] = 0
      BY <3>2
    <3>4. \A k \in 1..Len(t) : s[2 - 1 + k] = t[k]
      BY <3>2
    <3> QED BY <1>1, <1>2, <3>2, <3>3, <3>4
  <2>2. CASE ~(t = <<>> \/ t[1] >= Half)
    <3>1. s = t
      BY <1>1, <2>2 DEF Padded
    <3>2. Len(t) # 0
      BY <1>1, <2>2, EmptySeq
    <3>3. 1 \in 1..Len(t) /\ t[1] \in Nat
      BY <1>1, <3>2, ElementOfSeq
    <3>4. t[1] < Half
      BY <1>2, <2>2, <3>3
    <3>5. \A k \in 1..Len(t) : 1 - 1 + k = k
      OBVIOUS
    <3>6. \A i \in 1..(1 - 1) : s[i] = 0
      OBVIOUS
    <3> QED BY <1>1, <3>1, <3>2, <3>3, <3>4, <3>5, <3>6
  <2> QED BY <2>1, <2>2
<1>4. PICK to \in Nat \ {0} : to = Len(s)
  BY <1>3
<1>5. PICK x \in {1, 2} : /\ x - 1 + Len(t) = to /\ x <= to + 1
                          /\ \A i \in 1..(x - 1) : s[i] = 0
                          /\ \A k \in 1..Len(t) : s[x - 1 + k] = t[k]
  BY <1>3, <1>4
<1>6. Len(b) = to /\ \A i \in 1..to : b[i].byte = s[i] /\ s[i] \in Nat
  BY <1>3, <1>4, BytesAreBytes
<1>7. \A i \in 1..to : s[i] \in 0..(2 * Half - 1)
  <2> SUFFICES ASSUME NEW i \in 1..to PROVE s[i] \in 0..(2 * Half - 1)
    OBVIOUS
  <2>1. CASE i <= x - 1
    <3>1. s[i] = 0
      BY <1>5, <2>1
    <3> QED BY <1>2, <3>1
  <2>2. CASE i > x - 1
    <3>1. PICK k \in 1..Len(t) : i = x - 1 + k
      <4>1. i - (x - 1) \in 1..Len(t) /\ i = x - 1 + (i - (x - 1))
        BY <1>1, <1>5, <2>2
      <4> QED BY <4>1
    <3>2. s[i] = t[k]
      BY <1>5, <3>1
    <3> QED BY <1>1, <3>2
  <2> QED BY <2>1, <2>2
<1>8. Number(b, 1, to) = n
  <2>1. BytesStand(b, 1, to)
    BY <1>6 DEF BytesStand
  <2>2. ZerosStand(b, 1, x)
    <3> SUFFICES ASSUME NEW i \in 1..(x - 1) PROVE b[i].byte = 0
      BY DEF ZerosStand
    <3>1. i \in 1..to /\ s[i] = 0
      BY <1>4, <1>5
    <3> QED BY <1>6, <3>1
  <2>3. DigitsStand(b, x, to, t)
    <3> SUFFICES ASSUME NEW k \in 1..Len(t) PROVE b[x - 1 + k].byte = t[k]
      BY <1>4, <1>5 DEF DigitsStand
    <3>1. x - 1 + k \in 1..to /\ s[x - 1 + k] = t[k]
      BY <1>1, <1>4, <1>5
    <3> QED BY <1>6, <3>1
  <2>4. 1 - 1 <= to /\ x \in 1..(to + 1) /\ (x = 1 \/ x = 1 + 1) /\ 1 \in Nat \ {0}
    BY <1>4, <1>5
  <2> QED BY <1>1, <1>5, <2>1, <2>2, <2>3, <2>4, DigitsAreNumber
<1> QED BY <1>3, <1>4, <1>6, <1>7, <1>8

(* The complement of the complement. *)
LEMMA ComplementIsRead ==
    ASSUME NEW s \in Seq(Nat), NEW to \in Nat \ {0}, to = Len(s),
           \A i \in 1..to : s[i] \in 0..(2 * Half - 1)
    PROVE  LET c == Complement(s)
               e == Bytes(c)
           IN  /\ c \in Seq(Nat) /\ Len(c) = to /\ c[1] = 2 * Half - 1 - s[1]
               /\ [i \in DOMAIN e |-> [byte |-> 2 * Half - 1 - e[i].byte]] = Bytes(s)
<1> DEFINE top == 2 * Half - 1
<1>1. DOMAIN s = 1..to /\ Half \in Nat
  BY LenProperties, ValuesAssumption
<1>2. PICK c : c = Complement(s)
  OBVIOUS
<1>3. c = [i \in 1..to |-> top - s[i]]
  BY <1>1, <1>2 DEF Complement
<1>4. \A i \in 1..to : top - s[i] \in Nat /\ top - (top - s[i]) = s[i]
  <2> SUFFICES ASSUME NEW i \in 1..to
               PROVE  top - s[i] \in Nat /\ top - (top - s[i]) = s[i]
    OBVIOUS
  <2>1. PICK k \in 0..top : k = s[i]
    OBVIOUS
  <2> QED BY <1>1, <2>1
<1>5. c \in Seq(Nat) /\ Len(c) = to /\ DOMAIN c = 1..to
  <2>1. c \in [1..to -> Nat]
    BY <1>3, <1>4
  <2> QED BY <2>1
<1>6. PICK e : e = Bytes(c)
  OBVIOUS
<1>7. e = [i \in 1..to |-> [byte |-> c[i]]]
  BY <1>5, <1>6 DEF Bytes
<1>8. DOMAIN e = 1..to /\ \A i \in 1..to : top - e[i].byte = s[i]
  <2>1. \A i \in 1..to : e[i].byte = top - s[i]
    BY <1>3, <1>7
  <2> QED BY <1>4, <1>7, <2>1
<1>9. [i \in DOMAIN e |-> [byte |-> top - e[i].byte]] = [i \in 1..to |-> [byte |-> s[i]]]
  <2> HIDE DEF top
  <2> QED BY <1>8
<1>10. Bytes(s) = [i \in 1..to |-> [byte |-> s[i]]]
  BY <1>1 DEF Bytes
<1>11. c[1] = top - s[1]
  BY <1>3
<1> QED BY <1>2, <1>5, <1>6, <1>9, <1>10, <1>11

(* An integer is read as it is written. *)
LEMMA IntegerIsWritten ==
    ASSUME NEW n \in Int
    PROVE  Writes("INTEGER", Bytes(TwosComplement(n)), [kind |-> "int", n |-> n])
<1> SUFFICES ASSUME NEW s, s = TwosComplement(n), NEW b, b = Bytes(s)
             PROVE  s \in Seq(Nat) /\ Len(s) # 0 /\ ReadSigned(b) = n
  <2>1. PICK s, b : s = TwosComplement(n) /\ b = Bytes(s)
    OBVIOUS
  <2>2. s \in Seq(Nat) /\ Len(s) # 0 /\ ReadSigned(b) = n
    BY <2>1
  <2>3. Bytewise(b) /\ Len(b) # 0 /\ \A i \in DOMAIN b : IsByte(b, i)
    BY <2>1, <2>2, BytesAreBytes
  <2>4. b # <<>>
    BY <2>3
  <2>5. Scalar("INTEGER", b) = [kind |-> "int", n |-> n]
    BY <2>2, <2>3, <2>4 DEF Scalar
  <2> QED BY <2>1, <2>3, <2>5 DEF Writes
<1>1. Half \in Nat \ {0}
  BY ValuesAssumption
<1>2. CASE n >= 0
  <2>1. n \in Nat /\ s = Padded(Digits(n))
    BY <1>2 DEF TwosComplement
  <2>2. s \in Seq(Nat) /\ Len(s) \in Nat \ {0} /\ s[1] < Half /\ Number(b, 1, Len(b)) = n
    BY <2>1, PaddedIsNumber
  <2>3. b[1].byte = s[1]
    BY <2>2, BytesAreBytes
  <2>4. ReadSigned(b) = n
    BY <2>2, <2>3 DEF ReadSigned
  <2> QED BY <2>2, <2>4
<1>3. CASE n < 0
  <2>1. PICK m \in Nat : m = -n - 1 /\ n = -1 - m
    BY <1>3
  <2>2. PICK d : d = Padded(Digits(m))
    OBVIOUS
  <2>3. s = Complement(d)
    BY <1>3, <2>1, <2>2 DEF TwosComplement
  <2>4. /\ d \in Seq(Nat) /\ Len(d) \in Nat \ {0} /\ d[1] < Half
        /\ \A i \in 1..Len(d) : d[i] \in 0..(2 * Half - 1)
        /\ Number(Bytes(d), 1, Len(Bytes(d))) = m
    BY <2>2, PaddedIsNumber
  <2>5. /\ s \in Seq(Nat) /\ Len(s) = Len(d) /\ s[1] = 2 * Half - 1 - d[1]
        /\ [i \in DOMAIN b |-> [byte |-> 2 * Half - 1 - b[i].byte]] = Bytes(d)
    BY <2>3, <2>4, ComplementIsRead
  <2>6. b[1].byte = s[1] /\ Len(b) = Len(d) /\ Len(Bytes(d)) = Len(d)
    <3>1. 1 \in 1..Len(s) /\ s \in Seq(Nat)
      BY <2>4, <2>5
    <3>2. b[1].byte = s[1] /\ Len(b) = Len(s)
      BY <3>1, BytesAreBytes
    <3>3. Len(Bytes(d)) = Len(d)
      BY <2>4, BytesAreBytes
    <3> QED BY <2>5, <3>2, <3>3
  <2>7. ~(b[1].byte < Half)
    <3>1. d[1] \in 0..(2 * Half - 1)
      BY <2>4
    <3>2. PICK k \in Nat : k = d[1] /\ k < Half
      BY <2>4, <3>1, <1>1
    <3> QED BY <1>1, <2>5, <2>6, <3>2
  <2>8. ReadSigned(b) = n
    BY <2>1, <2>4, <2>5, <2>6, <2>7 DEF ReadSigned
  <2> QED BY <2>4, <2>5, <2>8
<1> QED BY <1>2, <1>3

(* What an int holds is not changed by int(v). *)
LEMMA IntIsKept ==
    ASSUME NEW n \in (-IntHalf)..(IntHalf - 1)
    PROVE  ToInt(n) = n
<1>1. PICK h \in Nat \ {0} : h = IntHalf
  BY ValuesAssumption
<1>2. PICK b \in Nat : b = 2 * h /\ b > 0
  BY <1>1
<1>3. PICK q \in Int, w \in 0..(b - 1) : n = q * b + w /\ w = n % b
  <2>1. n \in Int /\ n = (n \div b) * b + (n % b) /\ n % b \in 0..(b - 1) /\ n \div b \in Int
    BY <1>1, <1>2
  <2> QED BY <2>1
<1>4. ToInt(n) = IF w < h THEN w ELSE w - b
  BY <1>1, <1>2, <1>3 DEF ToInt
<1>5. n >= -h /\ n < h /\ n \in Int
  BY <1>1
<1>6. q = 0 \/ q = -1
  <2>1. ASSUME q >= 1 PROVE FALSE
    <3>1. q * b >= 1 * b
      BY <1>2, <2>1
    <3> QED BY <1>2, <1>3, <1>5, <3>1
  <2>2. ASSUME q <= -2 PROVE FALSE
    <3>1. q * b <= -2 * b
      BY <1>2, <2>2
    <3> QED BY <1>2, <1>3, <1>5, <3>1
  <2> QED BY <2>1, <2>2
<1>7. CASE q = 0
  BY <1>2, <1>3, <1>4, <1>5, <1>7
<1>8. CASE q = -1
  BY <1>2, <1>3, <1>4, <1>5, <1>8
<1> QED BY <1>6, <1>7, <1>8

(* Whatever it is made of, it is an integer. *)
LEMMA IntIsInteger == ASSUME NEW n \in Int PROVE ToInt(n) \in Int
<1>1. PICK b \in Nat : b = 2 * IntHalf /\ b > 0
  BY ValuesAssumption
<1>2. n % b \in Int
  BY <1>1
<1> QED BY <1>1, <1>2, ValuesAssumption DEF ToInt

(* Integers that fit are what an int holds, and so are those of an array. *)
LEMMA FittingIsClosed ==
    ASSUME NEW v \in Fitting
    PROVE  /\ v.kind = "int" => v.n \in (-IntHalf)..(IntHalf - 1)
           /\ v.kind = "array" => \A i \in DOMAIN v.items : v.items[i] \in Fitting
<1> DEFINE scalars == {w \in Values : /\ w.kind # "array"
                                      /\ w.kind = "int" => w.n \in (-IntHalf)..(IntHalf - 1)}
           arrays == {w \in Values : w.kind = "array"}
           Closed(S) == \A w \in S : Range(w.items) \subseteq scalars \cup S
<1>1. Fitting = scalars \cup UNION {S \in SUBSET arrays : Closed(S)}
  BY DEF Fitting
<1>2. CASE v \in scalars
  BY <1>2
<1>3. ASSUME NEW S \in SUBSET arrays, Closed(S), v \in S
      PROVE  v.kind = "array" /\ \A i \in DOMAIN v.items : v.items[i] \in Fitting
  <2>1. v.kind = "array"
    BY <1>3
  <2>2. \A i \in DOMAIN v.items : v.items[i] \in scalars \cup S
    BY <1>3 DEF Range
  <2> HIDE DEF scalars, arrays
  <2> QED BY <1>1, <1>3, <2>1, <2>2
<1> QED
  <2>1. v \in scalars \/ \E S \in SUBSET arrays : Closed(S) /\ v \in S
    <3> HIDE DEF scalars, arrays, Closed
    <3> QED BY <1>1
  <2> QED BY <1>2, <1>3, <2>1

(* The places of d, the one behind it included. *)
Places(d) == 1..(Len(d) + 1)

(* Content is behind its tag, and not beyond the end. *)
LEMMA ContentIsBehind ==
    ASSUME NEW d, Bytewise(d), NEW p \in Places(d), NEW c \in ContentAt(d, p)
    PROVE  /\ c.from \in Places(d) /\ c.end \in Places(d)
           /\ p < c.from /\ c.from <= c.end
<1>1. PICK N \in Nat : N = Len(d) /\ DOMAIN d = 1..N /\ p \in 1..(N + 1)
  BY DEF Bytewise, IsCells, Places
<1> DEFINE long == d[p + 1].byte - Half
           first == IF long < 0 THEN p + 2 ELSE p + 2 + long
           size == IF long < 0 THEN d[p + 1].byte ELSE Number(d, p + 2, p + 1 + long)
<1>2. /\ IsByte(d, p + 1) /\ \A i \in (p + 2)..(first - 1) : IsByte(d, i)
      /\ first + size <= N + 1
      /\ c = [from |-> first, end |-> first + size]
  BY <1>1 DEF ContentAt
<1>3. \A i : IsByte(d, i) => d[i].byte \in Nat
  BY <1>1 DEF IsByte, Bytewise
<1>4. PICK h \in Nat : h = Half
  BY ValuesAssumption
<1>5. d[p + 1].byte \in Nat /\ long \in Int /\ long = d[p + 1].byte - h
  <2>1. d[p + 1].byte \in Nat
    BY <1>2, <1>3
  <2>2. long = d[p + 1].byte - h
    BY <1>4
  <2> HIDE DEF long
  <2> QED BY <1>4, <2>1, <2>2
<1>6. size \in Nat /\ first \in Nat /\ p < first
  <2>1. CASE long < 0
    BY <1>1, <1>5, <2>1
  <2>2. CASE ~(long < 0)
    <3>1. PICK L \in Nat : L = long
      BY <1>5, <2>2
    <3>2. PICK from \in Nat \ {0}, to \in Nat : from = p + 2 /\ to = p + 1 + L
      <4>1. p + 2 \in Nat \ {0} /\ p + 1 + L \in Nat
        BY <1>1
      <4> QED BY <4>1
    <3>3. first = p + 2 + L /\ first - 1 = to
      <4>1. first = p + 2 + L
        BY <2>2, <3>1
      <4> HIDE DEF first
      <4> QED BY <1>1, <3>2, <4>1
    <3>4. \A i \in from..to : d[i].byte \in Nat
      BY <1>2, <1>3, <3>2, <3>3
    <3>5. from - 1 <= to
      BY <1>1, <3>2
    <3>6. Number(d, from, to) \in Nat
      <4>1. PICK g : /\ \A q \in (from - 1)..to : g[q] \in Nat
                     /\ Number(d, from, to) = g[to]
        BY <3>4, <3>5, NumberIsDefined
      <4>2. to \in (from - 1)..to
        BY <3>5
      <4> QED BY <4>1, <4>2
    <3>7. size = Number(d, from, to)
      BY <2>2, <3>1, <3>2
    <3> HIDE DEF size, first
    <3> QED BY <1>1, <3>3, <3>6, <3>7
  <2> QED BY <2>1, <2>2
<1>7. c.from = first /\ c.end = first + size
  BY <1>2
<1> HIDE DEF first, size, long
<1> QED BY <1>1, <1>2, <1>6, <1>7 DEF Places

(* What is read at p depends on what is read behind it. *)
LEMMA ValuesBehind ==
    ASSUME NEW d, Bytewise(d), NEW p \in Places(d), NEW to \in Places(d), NEW f, NEW g,
           \A q, r \in Places(d) : p < q => f[<<q, r>>] = g[<<q, r>>]
    PROVE  ValuesAt(f, d, p, to) = ValuesAt(g, d, p, to)
<1> DEFINE found == {c \in ContentAt(d, p) : c.end <= to}
           c == The(found)
           value(r) == IF d[p].tag \in {"SET", "SEQUENCE"}
                       THEN [kind |-> IF d[p].tag = "SET" THEN "set" ELSE "array",
                             items |-> r[<<c.from, c.end>>]]
                       ELSE Scalar(d[p].tag, SubSeq(d, c.from, c.end - 1))
<1>1. \A r : ValuesAt(r, d, p, to) =
               IF p = to THEN <<>>
               ELSE IF found = {} THEN <<Malformed>> ELSE <<value(r)>> \o r[<<c.end, to>>]
  BY DEF ValuesAt
<1>2. CASE found = {}
  BY <1>1, <1>2
<1>3. CASE found # {}
  <2>1. c \in found
    BY <1>3 DEF The
  <2>2. c \in ContentAt(d, p)
    BY <2>1
  <2>3. c.from \in Places(d) /\ c.end \in Places(d) /\ p < c.from /\ p < c.end
    <3>1. /\ c.from \in Places(d) /\ c.end \in Places(d)
          /\ p < c.from /\ c.from <= c.end
      <4> HIDE DEF c, found
      <4> QED BY <2>2, ContentIsBehind
    <3>2. Places(d) \subseteq Nat
      BY DEF Places, Bytewise, IsCells
    <3> HIDE DEF c, found
    <3> QED BY <3>1, <3>2
  <2>4. f[<<c.from, c.end>>] = g[<<c.from, c.end>>] /\ f[<<c.end, to>>] = g[<<c.end, to>>]
    <3> HIDE DEF c, found
    <3> QED BY <2>3
  <2>5. value(f) = value(g)
    BY <2>4
  <2> HIDE DEF value, c, found
  <2> QED BY <1>1, <2>4, <2>5
<1> QED BY <1>2, <1>3

(* What reads d: between any two places, the values there. *)
IsReading(read, d) ==
    read = [span \in Places(d) \X Places(d) |-> ValuesAt(read, d, span[1], span[2])]

(* How bytes are decoded is defined. *)
LEMMA DecodeIsDefined ==
    ASSUME NEW d, Bytewise(d)
    PROVE  \E read : IsReading(read, d) /\ Decode(d) = read[<<1, Len(d) + 1>>]
<1>1. PICK N \in Nat : N = Len(d) /\ Places(d) = 1..(N + 1)
  BY DEF Bytewise, IsCells, Places
<1>2. PICK P : P = Places(d)
  OBVIOUS
<1> DEFINE Total(f) == f = [span \in P \X P |-> f[span]]
           Is(f, p, to) == f[<<p, to>>] = ValuesAt(f, d, p, to)
           S == {k \in Nat : \E f : Total(f) /\ \A p, to \in P : p > N + 1 - k => Is(f, p, to)}
<1>3. 0 \in S
  <2>1. PICK f : f = [span \in P \X P |-> 0]
    OBVIOUS
  <2>2. Total(f)
    BY <2>1
  <2>3. \A p \in P : ~(p > N + 1 - 0)
    BY <1>1, <1>2
  <2> HIDE DEF Total, Is
  <2> QED BY <2>2, <2>3
<1>4. ASSUME NEW k \in Nat, k \in S PROVE k + 1 \in S
  <2>1. PICK f : Total(f) /\ \A p, to \in P : p > N + 1 - k => Is(f, p, to)
    BY <1>4
  <2>2. PICK g : g = [span \in P \X P |-> ValuesAt(f, d, span[1], span[2])]
    OBVIOUS
  <2>3. \A p, to \in P : g[<<p, to>>] = ValuesAt(f, d, p, to)
    BY <2>2
  <2>4. \A p, to \in P : p > N + 1 - k => g[<<p, to>>] = f[<<p, to>>]
    BY <2>1, <2>3
  <2>5. ASSUME NEW p \in P, NEW to \in P, p > N + 1 - (k + 1) PROVE Is(g, p, to)
    <3>1. ASSUME NEW q \in P, NEW r \in P, p < q PROVE f[<<q, r>>] = g[<<q, r>>]
      <4>1. q > N + 1 - k
        BY <1>1, <1>2, <2>5, <3>1
      <4> QED BY <2>4, <4>1
    <3>2. ValuesAt(f, d, p, to) = ValuesAt(g, d, p, to)
      BY <1>2, <3>1, ValuesBehind
    <3> QED BY <2>3, <3>2
  <2>6. Total(g)
    BY <2>2
  <2> HIDE DEF Total, Is
  <2> QED BY <2>5, <2>6
<1>5. N + 1 \in S
  <2> HIDE DEF S
  <2> QED BY <1>1, <1>3, <1>4, Induction
<1>6. PICK f : Total(f) /\ \A p, to \in P : p > N + 1 - (N + 1) => Is(f, p, to)
  BY <1>5
<1>7. \A p \in P : p > N + 1 - (N + 1)
  BY <1>1, <1>2
<1>8. f = [span \in P \X P |-> ValuesAt(f, d, span[1], span[2])]
  <2>1. ASSUME NEW span \in P \X P PROVE f[span] = ValuesAt(f, d, span[1], span[2])
    <3>1. PICK p \in P, to \in P : span = <<p, to>>
      OBVIOUS
    <3>2. f[<<p, to>>] = ValuesAt(f, d, p, to)
      BY <1>6, <1>7
    <3> QED BY <3>1, <3>2
  <2>2. f = [span \in P \X P |-> f[span]]
    BY <1>6
  <2> QED BY <2>1, <2>2
<1>9. IsReading(f, d)
  BY <1>2, <1>8 DEF IsReading
<1> DEFINE read == CHOOSE r : IsReading(r, d)
<1>10. IsReading(read, d)
  BY <1>9
<1>11. Decode(d) = read[<<1, Len(d) + 1>>]
  BY DEF Decode, IsReading, Places
<1> QED BY <1>10, <1>11

(* The parts of what FlattenSeq joins: F[i] is the first i of seqs, joined. *)
Joins(F, seqs) ==
    /\ IsCells(seqs) /\ F[0] = <<>>
    /\ \A i \in 1..Len(seqs) : F[i] = F[i - 1] \o seqs[i] /\ Bytewise(seqs[i])
    /\ \A i \in 0..Len(seqs) : Bytewise(F[i])

(* The first parts of seqs, joined as FlattenSeq joins them. *)
PartAt(f, seqs, i) == IF i = 1 THEN seqs[i] ELSE f[i - 1] \o seqs[i]
AreParts(f, seqs) == f = [i \in 1..Len(seqs) |-> PartAt(f, seqs, i)]

(* The parts of FlattenSeq are defined. *)
LEMMA PartsAreDefined ==
    ASSUME NEW seqs, Len(seqs) \in Nat \ {0}
    PROVE  \E f : AreParts(f, seqs) /\ FlattenSeq(seqs) = f[Len(seqs)]
<1>1. PICK n \in Nat \ {0} : n = Len(seqs)
  OBVIOUS
<1> DEFINE Total(f) == f = [i \in 1..n |-> f[i]]
           S == {k \in Nat : \E f : Total(f) /\ \A i \in 1..n : i <= k => f[i] = PartAt(f, seqs, i)}
<1>2. 0 \in S
  <2>1. PICK f : f = [i \in 1..n |-> 0]
    OBVIOUS
  <2>2. Total(f)
    BY <2>1
  <2>3. \A i \in 1..n : ~(i <= 0)
    OBVIOUS
  <2> HIDE DEF Total
  <2> QED BY <2>2, <2>3
<1>3. ASSUME NEW k \in Nat, k \in S PROVE k + 1 \in S
  <2>1. PICK f : Total(f) /\ \A i \in 1..n : i <= k => f[i] = PartAt(f, seqs, i)
    BY <1>3
  <2>2. PICK g : g = [i \in 1..n |-> PartAt(f, seqs, i)]
    OBVIOUS
  <2>3. \A i \in 1..n : g[i] = PartAt(f, seqs, i)
    BY <2>2
  <2>4. \A i \in 1..n : i <= k => g[i] = f[i]
    BY <2>1, <2>3
  <2>5. ASSUME NEW i \in 1..n, i <= k + 1 PROVE g[i] = PartAt(g, seqs, i)
    <3>1. CASE i = 1
      BY <2>3, <3>1 DEF PartAt
    <3>2. CASE i # 1
      <4>1. i - 1 \in 1..n /\ i - 1 <= k
        BY <2>5, <3>2
      <4>2. g[i - 1] = f[i - 1]
        BY <2>4, <4>1
      <4> QED BY <2>3, <3>2, <4>2 DEF PartAt
    <3> QED BY <3>1, <3>2
  <2>6. Total(g)
    BY <2>2
  <2> HIDE DEF Total
  <2> QED BY <2>5, <2>6
<1>4. n \in S
  <2> HIDE DEF S
  <2> QED BY <1>2, <1>3, Induction
<1>5. PICK f : Total(f) /\ \A i \in 1..n : i <= n => f[i] = PartAt(f, seqs, i)
  BY <1>4
<1>6. AreParts(f, seqs)
  BY <1>1, <1>5 DEF AreParts
<1> DEFINE flatten == CHOOSE g : AreParts(g, seqs)
<1>7. AreParts(flatten, seqs)
  BY <1>6
<1>8. FlattenSeq(seqs) = flatten[Len(seqs)]
  BY DEF FlattenSeq, AreParts, PartAt
<1> QED BY <1>7, <1>8

(* What is joined part by part. *)
LEMMA FlattenJoins ==
    ASSUME NEW seqs, IsCells(seqs), \A i \in 1..Len(seqs) : Bytewise(seqs[i])
    PROVE  \E F : Joins(F, seqs) /\ FlattenSeq(seqs) = F[Len(seqs)]
<1>1. PICK n \in Nat : n = Len(seqs)
  BY DEF IsCells
<1>2. PICK F : /\ F[0] = <<>> /\ FlattenSeq(seqs) = F[n]
               /\ \A i \in 1..n : F[i] = F[i - 1] \o seqs[i]
  <2>1. CASE n = 0
    <3>1. seqs = <<>>
      BY <1>1, <2>1 DEF IsCells
    <3>2. FlattenSeq(seqs) = <<>>
      BY <1>1, <2>1, <3>1 DEF FlattenSeq
    <3>3. PICK F : F = [i \in {0} |-> <<>>]
      OBVIOUS
    <3>4. F[0] = <<>>
      BY <3>3
    <3>5. \A i \in 1..n : F[i] = F[i - 1] \o seqs[i]
      BY <2>1
    <3> QED BY <2>1, <3>2, <3>4, <3>5
  <2>2. CASE n # 0
    <3>1. PICK f : AreParts(f, seqs) /\ FlattenSeq(seqs) = f[n]
      BY <1>1, <2>2, PartsAreDefined
    <3>2. \A i \in 1..n : f[i] = IF i = 1 THEN seqs[i] ELSE f[i - 1] \o seqs[i]
      BY <1>1, <3>1 DEF AreParts, PartAt
    <3>3. PICK F : F = [i \in 0..n |-> IF i = 0 THEN <<>> ELSE f[i]]
      OBVIOUS
    <3>4. F[0] = <<>> /\ \A i \in 1..n : F[i] = f[i]
      BY <3>3
    <3>5. ASSUME NEW i \in 1..n PROVE F[i] = F[i - 1] \o seqs[i]
      <4>1. CASE i = 1
        <5>1. PICK s : s = seqs[1] /\ IsCells(s)
          BY <1>1, <4>1 DEF Bytewise
        <5>2. <<>> \o s = s
          <6>1. s \in Seq({s[k] : k \in 1..Len(s)})
            BY <5>1, LengthOf DEF IsCells
          <6> QED BY <6>1
        <5>3. F[1] = s /\ F[1 - 1] = <<>>
          BY <3>2, <3>4, <4>1, <5>1
        <5> QED BY <4>1, <5>1, <5>2, <5>3
      <4>2. CASE i # 1
        <5>1. i - 1 \in 1..n
          BY <4>2
        <5> QED BY <3>2, <3>4, <4>2, <5>1
      <4> QED BY <4>1, <4>2
    <3>6. F[n] = FlattenSeq(seqs)
      BY <2>2, <3>1, <3>4
    <3> QED BY <3>4, <3>5, <3>6
  <2> QED BY <2>1, <2>2
<1> DEFINE S == {k \in Nat : k <= n => Bytewise(F[k])}
<1>3. 0 \in S
  <2>1. Bytewise(<<>>)
    <3>1. Len(<<>>) = 0 /\ IsCells(<<>>)
      BY DEF IsCells
    <3> QED BY <3>1 DEF Bytewise
  <2> QED BY <1>2, <2>1
<1>4. ASSUME NEW k \in Nat, k \in S PROVE k + 1 \in S
  <2> SUFFICES ASSUME k + 1 <= n PROVE Bytewise(F[k + 1])
    OBVIOUS
  <2>1. Bytewise(F[k]) /\ k + 1 \in 1..n /\ (k + 1) - 1 = k
    BY <1>4
  <2>2. F[k + 1] = F[k] \o seqs[k + 1] /\ Bytewise(seqs[k + 1])
    BY <1>1, <1>2, <2>1
  <2> QED BY <2>1, <2>2, BytewiseJoined
<1>5. Nat \subseteq S
  <2> HIDE DEF S
  <2> QED BY <1>3, <1>4, Induction
<1>6. \A i \in 0..n : Bytewise(F[i])
  BY <1>5
<1>7. Joins(F, seqs)
  BY <1>1, <1>2, <1>6 DEF Joins
<1> QED BY <1>1, <1>2, <1>7

(* What is joined stands there part by part. *)
LEMMA PartsStand ==
    ASSUME NEW F, NEW seqs, Joins(F, seqs), NEW d, NEW p, Stands(d, p, F[Len(seqs)])
    PROVE  /\ \A i \in 0..Len(seqs) : Stands(d, p, F[i]) /\ Len(F[i]) \in Nat
           /\ \A i \in 1..Len(seqs) :
                 /\ Stands(d, p + Len(F[i - 1]), seqs[i])
                 /\ p + Len(F[i]) = p + Len(F[i - 1]) + Len(seqs[i])
                 /\ Len(seqs[i]) \in Nat
<1>1. PICK n \in Nat : n = Len(seqs)
  BY DEF IsCells, Joins
<1>2. /\ \A i \in 1..n : F[i] = F[i - 1] \o seqs[i] /\ IsCells(seqs[i]) /\ Len(seqs[i]) \in Nat
      /\ \A i \in 0..n : IsCells(F[i]) /\ Len(F[i]) \in Nat
  BY <1>1 DEF Joins, Bytewise, IsCells
<1>3. p \in Nat
  BY DEF Stands
<1> DEFINE S == {k \in Nat : k <= n => Stands(d, p, F[n - k])}
<1>4. 0 \in S
  <2>1. n - 0 = n
    OBVIOUS
  <2> QED BY <1>1, <2>1
<1>5. ASSUME NEW k \in Nat, k \in S PROVE k + 1 \in S
  <2> SUFFICES ASSUME k + 1 <= n PROVE Stands(d, p, F[n - (k + 1)])
    OBVIOUS
  <2>1. PICK i \in 1..n : i = n - k /\ i - 1 = n - (k + 1) /\ i - 1 \in 0..n
    <3>1. n - k \in 1..n /\ (n - k) - 1 = n - (k + 1) /\ (n - k) - 1 \in 0..n
      OBVIOUS
    <3> QED BY <3>1
  <2>2. Stands(d, p, F[i - 1] \o seqs[i])
    <3>1. Stands(d, p, F[n - k])
      BY <1>5
    <3>2. F[i] = F[i - 1] \o seqs[i]
      BY <1>2
    <3> HIDE DEF S
    <3> QED BY <2>1, <3>1, <3>2
  <2>3. Stands(d, p, F[i - 1])
    BY <1>2, <2>1, <2>2, StandsJoined
  <2> QED BY <2>1, <2>3
<1>6. Nat \subseteq S
  <2> HIDE DEF S
  <2> QED BY <1>4, <1>5, Induction
<1>7. ASSUME NEW i \in 0..n PROVE Stands(d, p, F[i])
  <2>1. n - i \in S /\ n - i <= n /\ n - (n - i) = i
    <3> HIDE DEF S
    <3> QED BY <1>6
  <2> QED BY <2>1
<1>8. ASSUME NEW i \in 1..n
      PROVE  /\ Stands(d, p + Len(F[i - 1]), seqs[i])
             /\ p + Len(F[i]) = p + Len(F[i - 1]) + Len(seqs[i])
  <2>1. i - 1 \in 0..n /\ i \in 0..n
    OBVIOUS
  <2>2. Stands(d, p, F[i - 1] \o seqs[i]) /\ IsCells(F[i - 1]) /\ IsCells(seqs[i])
    BY <1>2, <1>7, <2>1
  <2>3. Stands(d, p + Len(F[i - 1]), seqs[i])
    BY <2>2, StandsJoined
  <2>4. PICK s, t, r : s = F[i - 1] /\ t = seqs[i] /\ r = F[i]
    OBVIOUS
  <2>5. r = s \o t /\ Len(s) \in Nat /\ Len(t) \in Nat
    BY <1>2, <2>1, <2>4
  <2>6. Len(r) = Len(s) + Len(t)
    BY <2>2, <2>4, <2>5, Joined
  <2>7. p + Len(r) = p + Len(s) + Len(t)
    BY <1>3, <2>5, <2>6
  <2> QED BY <2>3, <2>4, <2>7
<1> QED BY <1>1, <1>2, <1>7, <1>8

(* The values of the kinds that have items. *)
Listed(tag, items) == [kind |-> IF tag = "SET" THEN "set" ELSE "array", items |-> items]

(* What is read between from and end of what is tagged. *)
ValueBetween(read, d, tag, from, end) ==
    IF tag \in {"SET", "SEQUENCE"} THEN Listed(tag, read[<<from, end>>])
    ELSE Scalar(tag, SubSeq(d, from, end - 1))

(* The first value between p and to is v, and ends at end. *)
Leads(read, p, to, v, end) == read[<<p, to>>] = <<v>> \o read[<<end, to>>]

(* Wherever the cells stand in d, v is the first value that is read. *)
ReadsAs(read, d, cells, v) ==
    \A p, to : Stands(d, p, cells) /\ to \in (p + Len(cells))..(Len(d) + 1) =>
        Leads(read, p, to, v, p + Len(cells))

(* What is tagged is one value. *)
LEMMA ValueIsRead ==
    ASSUME NEW d, NEW read, IsReading(read, d), NEW p \in Places(d), NEW to \in Places(d),
           NEW tag, NEW from, NEW end, TagStands(d, p, tag, from, end), end <= to, p # to
    PROVE  Leads(read, p, to, ValueBetween(read, d, tag, from, end), end)
<1>1. read[<<p, to>>] = ValuesAt(read, d, p, to)
  BY DEF IsReading
<1>2. PICK c : c = [from |-> from, end |-> end]
  OBVIOUS
<1>3. ContentAt(d, p) = {c} /\ d[p].tag = tag /\ c.from = from /\ c.end = end
  BY <1>2 DEF TagStands
<1> DEFINE found == {x \in ContentAt(d, p) : x.end <= to}
<1>4. found = {c}
  BY <1>3
<1>5. The(found) = c /\ found # {}
  <2>1. found # {} /\ \A x \in found : x = c
    BY <1>4
  <2> QED BY <2>1 DEF The
<1> HIDE DEF found
<1>6. ValuesAt(read, d, p, to) =
         IF p = to THEN <<>> ELSE IF found = {} THEN <<Malformed>>
         ELSE <<IF d[p].tag \in {"SET", "SEQUENCE"}
                THEN [kind |-> IF d[p].tag = "SET" THEN "set" ELSE "array",
                      items |-> read[<<The(found).from, The(found).end>>]]
                ELSE Scalar(d[p].tag, SubSeq(d, The(found).from, The(found).end - 1))>>
              \o read[<<The(found).end, to>>]
  BY DEF ValuesAt, found
<1> QED BY <1>1, <1>3, <1>5, <1>6 DEF Listed, Leads, ValueBetween

(* A content that stands between two places is what is between them. *)
LEMMA ContentIsBetween ==
    ASSUME NEW d, NEW from, NEW content, Stands(d, from, content)
    PROVE  SubSeq(d, from, from + Len(content) - 1) = content
<1>1. PICK n \in Nat : n = Len(content) /\ content = [k \in 1..n |-> content[k]]
  BY DEF Stands, IsCells
<1>2. from \in Nat \ {0} /\ \A k \in 1..n : d[from - 1 + k] = content[k]
  BY <1>1 DEF Stands
<1>3. PICK end \in Int : end = from + n - 1
  BY <1>2
<1>4. PICK s : s = SubSeq(d, from, end)
  OBVIOUS
<1>5. end - from + 1 = n /\ from <= end + 1
  BY <1>2, <1>3
<1> DEFINE S == {d[i] : i \in from..end}
<1>6. /\ s \in Seq(S) /\ Len(s) = IF from <= end THEN end - from + 1 ELSE 0
      /\ \A i \in 1..(end - from + 1) : s[i] = d[from + i - 1]
  <2>1. \A i \in from..end : d[i] \in S
    OBVIOUS
  <2> HIDE DEF S
  <2> QED BY <1>2, <1>4, <2>1, SubSeqProperties
<1>7. Len(s) = n
  <2>1. Len(s) = IF from <= end THEN end - from + 1 ELSE 0
    BY <1>6
  <2> QED BY <1>2, <1>3, <2>1
<1>8. s = [i \in 1..n |-> s[i]]
  BY <1>6, <1>7
<1>9. ASSUME NEW i \in 1..n PROVE s[i] = content[i]
  <2>1. s[i] = d[from + i - 1] /\ from + i - 1 = from - 1 + i
    <3>1. i \in 1..(end - from + 1)
      BY <1>5
    <3>2. s[i] = d[from + i - 1]
      BY <1>6, <3>1
    <3>3. from + i - 1 = from - 1 + i
      BY <1>2
    <3> HIDE DEF S
    <3> QED BY <3>2, <3>3
  <2> QED BY <1>2, <2>1
<1> QED BY <1>1, <1>3, <1>4, <1>8, <1>9

(* A scalar is read as what it says. *)
LEMMA ScalarIsRead ==
    ASSUME NEW d, Bytewise(d), NEW read, IsReading(read, d),
           NEW tag, NEW content, NEW v, Writes(tag, content, v)
    PROVE  ReadsAs(read, d, Tagged(tag, content), v)
<1>1. PICK cells : cells = Tagged(tag, content)
  OBVIOUS
<1>2. IsCells(content) /\ tag \notin {"SET", "SEQUENCE"} /\ Scalar(tag, content) = v
  BY DEF Writes, Bytewise
<1>3. Len(cells) \in Nat \ {0}
  <2>1. PICK a \in Nat, b \in Nat : a = Len(derLength(Len(content))) /\ b = Len(content)
    BY <1>2, TaggedIsCells
  <2>2. Len(cells) = 1 + a + b
    BY <1>1, <1>2, <2>1, TaggedIsCells
  <2> QED BY <2>2
<1> SUFFICES ASSUME NEW p, NEW to, Stands(d, p, cells), to \in (p + Len(cells))..(Len(d) + 1)
             PROVE  Leads(read, p, to, v, p + Len(cells))
  BY <1>1 DEF ReadsAs
<1>4. PICK from \in Nat \ {0} : /\ TagStands(d, p, tag, from, p + Len(cells))
                                /\ from + Len(content) = p + Len(cells)
                                /\ Stands(d, from, content) /\ p \in Nat \ {0}
  BY <1>1, <1>2, TaggedIsRead
<1>5. PICK end \in Nat : end = p + Len(cells)
  BY <1>3, <1>4
<1>6. p \in Places(d) /\ to \in Places(d) /\ end <= to /\ p # to
  <2>1. Len(d) \in Nat
    BY DEF Bytewise, IsCells
  <2>2. p < end /\ to \in end..(Len(d) + 1)
    BY <1>3, <1>4, <1>5
  <2> QED BY <1>4, <2>1, <2>2 DEF Places
<1>7. SubSeq(d, from, end - 1) = content
  <2>1. SubSeq(d, from, from + Len(content) - 1) = content
    BY <1>4, ContentIsBetween
  <2>2. from + Len(content) - 1 = end - 1
    BY <1>4, <1>5
  <2> QED BY <2>1, <2>2
<1>8. TagStands(d, p, tag, from, end)
  BY <1>4, <1>5
<1>9. Leads(read, p, to, ValueBetween(read, d, tag, from, end), end)
  BY <1>6, <1>8, ValueIsRead
<1>10. ValueBetween(read, d, tag, from, end) = v
  BY <1>2, <1>7 DEF ValueBetween
<1> QED BY <1>5, <1>9, <1>10

(* Each of seqs is read as the value with its number. *)
ReadEach(read, d, seqs, vs) ==
    /\ IsCells(vs) /\ Len(vs) = Len(seqs)
    /\ \A i \in 1..Len(seqs) : ReadsAs(read, d, seqs[i], vs[i])

(* The values from number i + 1 on. *)
From(vs, i) == [j \in 1..(Len(vs) - i) |-> vs[i + j]]

(* A value before those behind it. *)
LEMMA FromBefore ==
    ASSUME NEW vs, IsCells(vs), NEW i \in 1..Len(vs)
    PROVE  <<vs[i]>> \o From(vs, i) = From(vs, i - 1)
<1>1. PICK n \in Nat : n = Len(vs) /\ i \in 1..n
  BY DEF IsCells
<1>2. PICK m \in Nat : m = n - i
  <2>1. n - i \in Nat
    BY <1>1
  <2> QED BY <2>1
<1>3. PICK s : s = From(vs, i)
  OBVIOUS
<1>4. s = [j \in 1..m |-> vs[i + j]]
  BY <1>1, <1>2, <1>3 DEF From
<1>5. s = [j \in 1..m |-> s[j]]
  BY <1>4
<1>6. Len(s) = m /\ IsCells(s)
  BY <1>5, LengthOf DEF IsCells
<1>7. PICK t : t = <<vs[i]>> /\ IsCells(t) /\ Len(t) = 1 /\ t[1] = vs[i]
  <2>1. PICK t : t = <<vs[i]>>
    OBVIOUS
  <2> QED BY <2>1 DEF IsCells
<1>8. PICK r : r = t \o s
  OBVIOUS
<1>9. /\ IsCells(r) /\ Len(r) = Len(t) + Len(s)
      /\ \A k \in 1..Len(t) : r[k] = t[k]
      /\ \A k \in 1..Len(s) : r[Len(t) + k] = s[k]
  BY <1>6, <1>7, <1>8, Joined
<1>10. Len(r) = m + 1
  BY <1>6, <1>7, <1>9
<1>11. r = [j \in 1..(m + 1) |-> r[j]]
  BY <1>9, <1>10 DEF IsCells
<1>12. ASSUME NEW j \in 1..(m + 1) PROVE r[j] = vs[i - 1 + j]
  <2>1. CASE j = 1
    <3>1. r[1] = vs[i] /\ i - 1 + 1 = i
      BY <1>1, <1>7, <1>9
    <3> QED BY <2>1, <3>1
  <2>2. CASE j # 1
    <3>1. PICK k \in 1..m : j = 1 + k
      <4>1. j - 1 \in 1..m /\ j = 1 + (j - 1)
        BY <2>2
      <4> QED BY <4>1
    <3>2. r[1 + k] = s[k]
      BY <1>6, <1>7, <1>9
    <3>3. s[k] = vs[i + k] /\ i - 1 + (1 + k) = i + k
      BY <1>1, <1>4
    <3> QED BY <3>1, <3>2, <3>3
  <2> QED BY <2>1, <2>2
<1>13. From(vs, i - 1) = [j \in 1..(m + 1) |-> vs[i - 1 + j]]
  <2>1. n - (i - 1) = m + 1
    BY <1>1, <1>2
  <2> QED BY <1>1, <2>1 DEF From
<1> QED BY <1>3, <1>7, <1>8, <1>11, <1>12, <1>13

(* Values one behind another are read one after another. *)
LEMMA ListIsRead ==
    ASSUME NEW d, Bytewise(d), NEW read, IsReading(read, d), NEW F, NEW seqs, NEW vs,
           Joins(F, seqs), ReadEach(read, d, seqs, vs), NEW p, Stands(d, p, F[Len(seqs)])
    PROVE  read[<<p, p + Len(F[Len(seqs)])>>] = vs
<1>1. PICK n \in Nat : n = Len(seqs) /\ n = Len(vs)
  BY DEF IsCells, Joins, ReadEach
<1>2. /\ \A i \in 0..n : Stands(d, p, F[i]) /\ Len(F[i]) \in Nat
      /\ \A i \in 1..n : /\ Stands(d, p + Len(F[i - 1]), seqs[i])
                         /\ p + Len(F[i]) = p + Len(F[i - 1]) + Len(seqs[i])
                         /\ Len(seqs[i]) \in Nat
  BY <1>1, PartsStand
<1>3. p \in Nat \ {0} /\ Len(d) \in Nat /\ p + Len(F[n]) <= Len(d) + 1
  BY <1>1, <1>2 DEF Stands, IsCells
<1> DEFINE at(i) == p + Len(F[i])
<1>4. PICK to \in Nat : to = at(n) /\ to <= Len(d) + 1
  <2>1. at(n) \in Nat
    BY <1>2, <1>3
  <2> QED BY <1>3, <2>1
<1>5. \A i \in 0..n : at(i) \in Nat
  BY <1>2, <1>3
<1>6. \A i \in 1..n : at(i) = at(i - 1) + Len(seqs[i]) /\ at(i - 1) <= at(i)
  <2> SUFFICES ASSUME NEW i \in 1..n
               PROVE  at(i) = at(i - 1) + Len(seqs[i]) /\ at(i - 1) <= at(i)
    OBVIOUS
  <2>1. at(i) = at(i - 1) + Len(seqs[i]) /\ Len(seqs[i]) \in Nat
    BY <1>2
  <2>2. i - 1 \in 0..n
    OBVIOUS
  <2>3. at(i - 1) \in Nat
    BY <1>5, <2>2
  <2> HIDE DEF at
  <2> QED BY <2>1, <2>3
<1> HIDE DEF at
<1> DEFINE S == {k \in Nat : k <= n => /\ at(n - k) <= to
                                       /\ read[<<at(n - k), to>>] = From(vs, n - k)}
<1>7. 0 \in S
  <2>1. n - 0 = n
    OBVIOUS
  <2>2. From(vs, n) = <<>>
    BY <1>1 DEF From
  <2>3. read[<<to, to>>] = <<>>
    <3>1. to \in Places(d)
      <4>1. to >= p
        BY <1>2, <1>3, <1>4 DEF at
      <4> QED BY <1>3, <1>4, <4>1 DEF Places
    <3>2. read[<<to, to>>] = ValuesAt(read, d, to, to)
      BY <3>1 DEF IsReading
    <3> QED BY <3>2 DEF ValuesAt
  <2>4. at(n) <= to
    BY <1>4
  <2> QED BY <1>4, <2>1, <2>2, <2>3, <2>4
<1>8. ASSUME NEW k \in Nat, k \in S PROVE k + 1 \in S
  <2> SUFFICES ASSUME k + 1 <= n
               PROVE  /\ at(n - (k + 1)) <= to
                      /\ read[<<at(n - (k + 1)), to>>] = From(vs, n - (k + 1))
    OBVIOUS
  <2>1. PICK i \in 1..n : i = n - k /\ i - 1 = n - (k + 1)
    <3>1. n - k \in 1..n /\ (n - k) - 1 = n - (k + 1)
      OBVIOUS
    <3> QED BY <3>1
  <2>2. at(i) <= to /\ read[<<at(i), to>>] = From(vs, i)
    BY <1>8, <2>1
  <2>3. PICK x \in Nat, y \in Nat : x = at(i - 1) /\ y = at(i)
    <3>1. i - 1 \in 0..n /\ i \in 0..n
      OBVIOUS
    <3> QED BY <1>5, <3>1
  <2>4. Stands(d, x, seqs[i]) /\ y = x + Len(seqs[i]) /\ x <= y
    BY <1>2, <1>6, <2>3 DEF at
  <2>5. to \in (x + Len(seqs[i]))..(Len(d) + 1)
    BY <1>3, <1>4, <2>2, <2>3, <2>4
  <2>6. Leads(read, x, to, vs[i], x + Len(seqs[i]))
    <3>1. ReadsAs(read, d, seqs[i], vs[i])
      BY <1>1 DEF ReadEach
    <3> QED BY <2>4, <2>5, <3>1 DEF ReadsAs
  <2>7. read[<<x, to>>] = <<vs[i]>> \o From(vs, i)
    BY <2>2, <2>3, <2>4, <2>6 DEF Leads
  <2>8. <<vs[i]>> \o From(vs, i) = From(vs, i - 1)
    <3>1. IsCells(vs)
      BY DEF ReadEach
    <3> QED BY <1>1, <3>1, FromBefore
  <2>9. x <= to
    BY <1>4, <2>2, <2>3, <2>4
  <2> QED BY <2>1, <2>3, <2>7, <2>8, <2>9
<1>9. n \in S
  <2> HIDE DEF S
  <2> QED BY <1>7, <1>8, Induction
<1>10. read[<<at(0), to>>] = From(vs, 0)
  <2>1. n <= n /\ n - n = 0
    OBVIOUS
  <2> QED BY <1>9, <2>1
<1>11. at(0) = p
  <2>1. F[0] = <<>>
    BY DEF Joins
  <2>2. Len(F[0]) = 0
    BY <2>1
  <2> QED BY <1>3, <2>2 DEF at
<1>12. From(vs, 0) = vs
  <2>1. From(vs, 0) = [j \in 1..n |-> vs[j]]
    <3>1. n - 0 = n /\ \A j \in 1..n : 0 + j = j
      OBVIOUS
    <3> QED BY <1>1, <3>1 DEF From
  <2>2. vs = [j \in 1..n |-> vs[j]]
    BY <1>1 DEF ReadEach, IsCells
  <2> QED BY <2>1, <2>2
<1> QED BY <1>1, <1>4, <1>10, <1>11, <1>12 DEF at

(* A tagged list is bytes. *)
LEMMA TaggedListIsBytewise ==
    ASSUME NEW seqs, IsCells(seqs), \A i \in 1..Len(seqs) : Bytewise(seqs[i]), NEW tag
    PROVE  Bytewise(Tagged(tag, FlattenSeq(seqs)))
<1>1. PICK F : Joins(F, seqs) /\ FlattenSeq(seqs) = F[Len(seqs)]
  BY FlattenJoins
<1>2. Len(seqs) \in 0..Len(seqs)
  BY DEF IsCells
<1>3. PICK s : s = FlattenSeq(seqs) /\ Bytewise(s) /\ IsCells(s)
  BY <1>1, <1>2 DEF Joins, Bytewise
<1> QED BY <1>3, TaggedIsCells

(* A tagged list is read as the values in it. *)
LEMMA TaggedListIsRead ==
    ASSUME NEW d, Bytewise(d), NEW read, IsReading(read, d), NEW F, NEW seqs, NEW vs,
           Joins(F, seqs), ReadEach(read, d, seqs, vs), NEW tag \in {"SET", "SEQUENCE"}
    PROVE  ReadsAs(read, d, Tagged(tag, F[Len(seqs)]), Listed(tag, vs))
<1>1. PICK content : content = F[Len(seqs)]
  OBVIOUS
<1>2. PICK cells : cells = Tagged(tag, content)
  OBVIOUS
<1>3. IsCells(content) /\ Bytewise(content)
  <2>1. Len(seqs) \in 0..Len(seqs)
    BY DEF Joins, IsCells
  <2> QED BY <1>1, <2>1 DEF Joins, Bytewise
<1>5. Len(cells) \in Nat \ {0}
  <2>1. PICK a \in Nat, b \in Nat : a = Len(derLength(Len(content))) /\ b = Len(content)
    BY <1>3, TaggedIsCells
  <2>2. Len(cells) = 1 + a + b
    BY <1>2, <1>3, <2>1, TaggedIsCells
  <2> QED BY <2>2
<1>6. ASSUME NEW p, NEW to, Stands(d, p, cells), to \in (p + Len(cells))..(Len(d) + 1)
      PROVE  Leads(read, p, to, Listed(tag, vs), p + Len(cells))
  <2>1. PICK from \in Nat \ {0} : /\ TagStands(d, p, tag, from, p + Len(cells))
                                  /\ from + Len(content) = p + Len(cells)
                                  /\ Stands(d, from, content) /\ p \in Nat \ {0}
    BY <1>2, <1>3, <1>6, TaggedIsRead
  <2>2. PICK end \in Nat : end = p + Len(cells)
    BY <1>5, <2>1
  <2>3. p \in Places(d) /\ to \in Places(d) /\ end <= to /\ p # to
    <3>1. Len(d) \in Nat
      BY DEF Bytewise, IsCells
    <3>2. p < end /\ to \in end..(Len(d) + 1)
      BY <1>5, <1>6, <2>1, <2>2
    <3> QED BY <2>1, <3>1, <3>2 DEF Places
  <2>4. TagStands(d, p, tag, from, end)
    BY <2>1, <2>2
  <2>5. Leads(read, p, to, ValueBetween(read, d, tag, from, end), end)
    BY <2>3, <2>4, ValueIsRead
  <2>6. read[<<from, from + Len(content)>>] = vs
    BY <1>1, <2>1, ListIsRead
  <2>7. ValueBetween(read, d, tag, from, end) = Listed(tag, vs)
    BY <2>1, <2>2, <2>6 DEF ValueBetween
  <2> QED BY <2>2, <2>5, <2>7
<1>7. ReadsAs(read, d, cells, Listed(tag, vs))
  BY <1>6 DEF ReadsAs
<1> QED BY <1>1, <1>2, <1>7

(* What writes the values. *)
IsMarshal(m) == m = [v \in Values |-> Marshalled(m, v)]

(* Two that write the values below v alike. *)
AgreeBelow(f, g, v) == \A w \in Values : Depth[w] < Depth[v] => f[w] = g[w]

(* How a value is written depends on the values in it. *)
LEMMA WrittenBelow ==
    ASSUME NEW v \in Values, NEW f, NEW g, AgreeBelow(f, g, v)
    PROVE  Marshalled(f, v) = Marshalled(g, v)
<1>1. CASE v.kind = "array"
  <2>1. /\ v.items \in Seq(Values)
        /\ \A i \in DOMAIN v.items : Depth[v.items[i]] < Depth[v]
    BY <1>1, ValuesAssumption
  <2>2. \A i \in DOMAIN v.items : f[v.items[i]] = g[v.items[i]]
    <3>1. \A i \in DOMAIN v.items : v.items[i] \in Values
      BY <2>1
    <3> QED BY <2>1, <3>1 DEF AgreeBelow
  <2>3. PICK s, t : /\ s = [i \in DOMAIN v.items |-> The(f[v.items[i]])]
                    /\ t = [i \in DOMAIN v.items |-> The(g[v.items[i]])]
    OBVIOUS
  <2>4. s = t
    BY <2>2, <2>3
  <2>5. Marshalled(f, v) = IF \A i \in DOMAIN v.items : f[v.items[i]] # {}
                           THEN {Tagged("SEQUENCE", FlattenSeq(s))} ELSE {}
    BY <1>1, <2>3 DEF Marshalled
  <2>6. Marshalled(g, v) = IF \A i \in DOMAIN v.items : g[v.items[i]] # {}
                           THEN {Tagged("SEQUENCE", FlattenSeq(t))} ELSE {}
    BY <1>1, <2>3 DEF Marshalled
  <2> QED BY <2>2, <2>4, <2>5, <2>6
<1>2. CASE v.kind # "array"
  BY <1>2 DEF Marshalled
<1> QED BY <1>1, <1>2

(* What writes the values that are not deeper than k. *)
WritesTo(f, k) ==
    /\ f = [v \in Values |-> f[v]]
    /\ \A v \in Values : Depth[v] < k => f[v] = Marshalled(f, v)

(* There is one way to write them. *)
LEMMA WritesAlike ==
    ASSUME NEW f, NEW g, NEW k \in Nat, WritesTo(f, k), WritesTo(g, k)
    PROVE  \A v \in Values : Depth[v] < k => f[v] = g[v]
<1> DEFINE T == {Depth[v] : v \in {w \in Values : Depth[w] < k /\ f[w] # g[w]}}
<1> SUFFICES ASSUME T # {} PROVE FALSE
  OBVIOUS
<1>1. PICK m \in T : \A n \in T : m <= n
  <2>1. T \subseteq Nat
    BY ValuesAssumption
  <2> HIDE DEF T
  <2> QED BY <2>1, Smallest
<1>2. PICK v \in Values : Depth[v] = m /\ Depth[v] < k /\ f[v] # g[v] /\ Depth[v] \in Nat
  BY ValuesAssumption
<1>3. AgreeBelow(f, g, v)
  <2> SUFFICES ASSUME NEW w \in Values, Depth[w] < Depth[v], f[w] # g[w] PROVE FALSE
    BY DEF AgreeBelow
  <2>1. Depth[w] \in Nat /\ Depth[w] < k
    BY <1>2, ValuesAssumption
  <2>2. Depth[w] \in T
    BY <2>1
  <2>3. m <= Depth[w]
    <3> HIDE DEF T
    <3> QED BY <1>1, <2>2
  <2> HIDE DEF T
  <2> QED BY <1>2, <2>1, <2>3
<1>4. f[v] = Marshalled(f, v) /\ g[v] = Marshalled(g, v)
  BY <1>2 DEF WritesTo
<1> QED BY <1>2, <1>3, <1>4, WrittenBelow

(* They are written, however deep. *)
LEMMA WritesToAny == \A k \in Nat : \E f : WritesTo(f, k)
<1> DEFINE S == {k \in Nat : \E f : WritesTo(f, k)}
<1>1. 0 \in S
  <2>1. PICK f : f = [v \in Values |-> 0]
    OBVIOUS
  <2>2. f = [v \in Values |-> f[v]] /\ \A v \in Values : ~(Depth[v] < 0)
    BY <2>1, ValuesAssumption
  <2> QED BY <2>2 DEF WritesTo
<1>2. ASSUME NEW k \in Nat, k \in S PROVE k + 1 \in S
  <2>1. PICK f : WritesTo(f, k)
    BY <1>2
  <2>2. PICK g : g = [v \in Values |-> Marshalled(f, v)]
    OBVIOUS
  <2>3. \A v \in Values : Depth[v] < k => g[v] = f[v]
    BY <2>1, <2>2 DEF WritesTo
  <2>4. ASSUME NEW v \in Values, Depth[v] < k + 1 PROVE g[v] = Marshalled(g, v)
    <3>1. AgreeBelow(f, g, v)
      <4> SUFFICES ASSUME NEW w \in Values, Depth[w] < Depth[v] PROVE f[w] = g[w]
        BY DEF AgreeBelow
      <4>1. Depth[w] \in Nat /\ Depth[v] \in Nat
        BY ValuesAssumption
      <4>2. Depth[w] < k
        BY <2>4, <4>1
      <4> QED BY <2>3, <4>2
    <3> QED BY <2>2, <3>1, WrittenBelow
  <2>5. g = [v \in Values |-> g[v]]
    BY <2>2
  <2>6. WritesTo(g, k + 1)
    BY <2>4, <2>5 DEF WritesTo
  <2> QED BY <2>6
<1>3. Nat \subseteq S
  <2> HIDE DEF S
  <2> QED BY <1>1, <1>2, Induction
<1> QED BY <1>3

(* How the values are written is defined. *)
LEMMA MarshalIsDefined == IsMarshal(marshalValue)
<1> DEFINE at(k) == CHOOSE f : WritesTo(f, k)
<1>1. \A k \in Nat : WritesTo(at(k), k)
  BY WritesToAny
<1> HIDE DEF at
<1>2. PICK F : F = [v \in Values |-> at(Depth[v] + 1)[v]]
  OBVIOUS
<1>3. ASSUME NEW v \in Values PROVE F[v] = Marshalled(F, v)
  <2>1. PICK n \in Nat : n = Depth[v]
    BY ValuesAssumption
  <2>2. PICK f : f = at(n + 1) /\ WritesTo(f, n + 1)
    BY <1>1
  <2>3. F[v] = f[v] /\ f[v] = Marshalled(f, v)
    <3>1. n < n + 1
      OBVIOUS
    <3>2. f[v] = Marshalled(f, v)
      BY <2>1, <2>2, <3>1 DEF WritesTo
    <3>3. F[v] = f[v]
      BY <1>2, <2>1, <2>2
    <3> QED BY <3>2, <3>3
  <2>4. AgreeBelow(f, F, v)
    <3> SUFFICES ASSUME NEW w \in Values, Depth[w] < n PROVE f[w] = F[w]
      BY <2>1 DEF AgreeBelow
    <3>1. PICK k \in Nat : k = Depth[w] /\ k < n
      BY ValuesAssumption
    <3>2. PICK g : g = at(k + 1) /\ WritesTo(g, k + 1)
      BY <1>1
    <3>3. WritesTo(f, k + 1)
      <4> SUFFICES ASSUME NEW x \in Values, Depth[x] < k + 1 PROVE f[x] = Marshalled(f, x)
        BY <2>2 DEF WritesTo
      <4>1. Depth[x] \in Nat
        BY ValuesAssumption
      <4>2. Depth[x] < n + 1
        BY <3>1, <4>1
      <4> QED BY <2>2, <4>2 DEF WritesTo
    <3>4. f[w] = g[w]
      <4>1. Depth[w] < k + 1
        BY <3>1
      <4> QED BY <3>2, <3>3, <4>1, WritesAlike
    <3> QED BY <1>2, <3>1, <3>2, <3>4
  <2> QED BY <2>3, <2>4, WrittenBelow
<1>4. F = [v \in Values |-> Marshalled(F, v)]
  BY <1>2, <1>3
<1>5. IsMarshal(F)
  BY <1>4 DEF IsMarshal
<1>6. marshalValue = CHOOSE m : IsMarshal(m)
  BY DEF marshalValue, IsMarshal
<1> QED BY <1>5, <1>6

(* What an array is written from. *)
Items(v) == [i \in DOMAIN v.items |-> The(marshalValue[v.items[i]])]

(* What each kind of value is written as. *)
LEMMA ValueIsWritten ==
    ASSUME NEW v \in Values, marshalValue[v] # {}
    PROVE  \/ \E tag, content, w : /\ Writes(tag, content, w) /\ (v \in Fitting => w = v)
                                   /\ The(marshalValue[v]) = Tagged(tag, content)
           \/ /\ IsCells(v.items) /\ IsCells(Items(v)) /\ Len(Items(v)) = Len(v.items)
              /\ v = Listed("SEQUENCE", v.items)
              /\ The(marshalValue[v]) = Tagged("SEQUENCE", FlattenSeq(Items(v)))
              /\ \A i \in 1..Len(v.items) :
                    /\ Items(v)[i] = The(marshalValue[v.items[i]]) /\ v.items[i] \in Values
                    /\ marshalValue[v.items[i]] # {} /\ Depth[v.items[i]] < Depth[v]
                    /\ v \in Fitting => v.items[i] \in Fitting
<1>1. PICK m : m = marshalValue /\ m[v] = Marshalled(m, v)
  BY MarshalIsDefined DEF IsMarshal
<1>2. \A x : The({x}) = x
  BY DEF The
<1>3. CASE v.kind = "bool"
  <2>1. v = [kind |-> "bool", n |-> v.n] /\ v.n \in Nat
    BY <1>3, ValuesAssumption
  <2>2. Writes("BOOLEAN", Bytes(<<v.n>>), v)
    BY <2>1, BooleanIsWritten
  <2>3. m[v] = {Tagged("BOOLEAN", Bytes(<<v.n>>))}
    BY <1>1, <1>3 DEF Marshalled
  <2>4. The(marshalValue[v]) = Tagged("BOOLEAN", Bytes(<<v.n>>))
    BY <1>1, <1>2, <2>3
  <2> QED BY <2>2, <2>4
<1>4. CASE v.kind = "int"
  <2>1. v = [kind |-> "int", n |-> v.n] /\ v.n \in Int
    BY <1>4, ValuesAssumption
  <2>2. PICK n \in Int : n = ToInt(v.n)
    BY <2>1, IntIsInteger
  <2>3. PICK w : w = [kind |-> "int", n |-> n]
    OBVIOUS
  <2>4. Writes("INTEGER", Bytes(TwosComplement(n)), w)
    BY <2>3, IntegerIsWritten
  <2>5. m[v] = {Tagged("INTEGER", Bytes(TwosComplement(n)))}
    BY <1>1, <1>4, <2>2 DEF Marshalled, Integer
  <2>6. The(marshalValue[v]) = Tagged("INTEGER", Bytes(TwosComplement(n)))
    BY <1>1, <1>2, <2>5
  <2>7. ASSUME v \in Fitting PROVE w = v
    <3>1. v.n \in (-IntHalf)..(IntHalf - 1)
      BY <1>4, <2>7, FittingIsClosed
    <3>2. n = v.n
      BY <2>2, <3>1, IntIsKept
    <3> QED BY <2>1, <2>3, <3>2
  <2> QED BY <2>4, <2>6, <2>7
<1>5. CASE v.kind = "string"
  <2>1. v = [kind |-> "string", text |-> v.text] /\ IsText(v.text)
    BY <1>5, ValuesAssumption
  <2>2. Writes("UTF8String", v.text, v)
    BY <2>1, TextIsWritten
  <2>3. m[v] = {utf8String(v.text)}
    BY <1>1, <1>5 DEF Marshalled
  <2>4. The(marshalValue[v]) = Tagged("UTF8String", v.text)
    BY <1>1, <1>2, <2>3 DEF utf8String
  <2> QED BY <2>2, <2>4
<1>6. CASE v.kind = "array"
  <2>1. /\ v = [kind |-> "array", items |-> v.items] /\ v.items \in Seq(Values)
        /\ \A i \in DOMAIN v.items : Depth[v.items[i]] < Depth[v]
    BY <1>6, ValuesAssumption
  <2>2. PICK n \in Nat : /\ n = Len(v.items) /\ DOMAIN v.items = 1..n
                         /\ v.items = [k \in 1..n |-> v.items[k]]
                         /\ \A k \in 1..n : v.items[k] \in Values
    BY <2>1
  <2>3. IsCells(v.items)
    BY <2>2 DEF IsCells
  <2>4. PICK s : s = Items(v)
    OBVIOUS
  <2>5. s = [i \in 1..n |-> The(m[v.items[i]])]
    BY <1>1, <2>2, <2>4 DEF Items
  <2>6. s = [i \in 1..n |-> s[i]]
    BY <2>5
  <2>7. Len(s) = n /\ IsCells(s)
    BY <2>6, LengthOf DEF IsCells
  <2>8. m[v] = IF \A i \in DOMAIN v.items : m[v.items[i]] # {}
               THEN {Tagged("SEQUENCE", FlattenSeq(s))} ELSE {}
    BY <1>1, <1>6, <2>4 DEF Marshalled, Items
  <2>9. /\ \A i \in 1..n : m[v.items[i]] # {}
        /\ m[v] = {Tagged("SEQUENCE", FlattenSeq(s))}
    BY <1>1, <2>2, <2>8
  <2>10. The(m[v]) = Tagged("SEQUENCE", FlattenSeq(s))
    BY <1>2, <2>9
  <2>11. v = Listed("SEQUENCE", v.items)
    BY <2>1 DEF Listed
  <2>12. \A i \in 1..n : /\ s[i] = The(m[v.items[i]]) /\ v.items[i] \in Values
                         /\ m[v.items[i]] # {} /\ Depth[v.items[i]] < Depth[v]
    BY <2>1, <2>2, <2>5, <2>9
  <2>13. v \in Fitting => \A i \in 1..n : v.items[i] \in Fitting
    BY <1>6, <2>2, FittingIsClosed
  <2> QED BY <1>1, <2>2, <2>3, <2>4, <2>7, <2>10, <2>11, <2>12, <2>13
<1>7. CASE v.kind \notin {"bool", "int", "string", "array"}
  BY <1>1, <1>7 DEF Marshalled
<1> QED BY <1>3, <1>4, <1>5, <1>6, <1>7

(* A set of values, one of which is not deeper than the others. *)
LEMMA Shallowest ==
    ASSUME NEW T, T \subseteq Values, T # {}
    PROVE  \E v \in T : \A w \in Values : Depth[w] < Depth[v] => w \notin T
<1>1. PICK D : D = {Depth[v] : v \in T}
  OBVIOUS
<1>2. D \subseteq Nat /\ D # {}
  BY <1>1, ValuesAssumption
<1>3. PICK m \in D : \A n \in D : m <= n
  BY <1>2, Smallest
<1>4. PICK v \in T : m = Depth[v]
  BY <1>1
<1>5. ASSUME NEW w \in Values, Depth[w] < Depth[v], w \in T PROVE FALSE
  <2>1. Depth[w] \in D /\ Depth[w] \in Nat /\ m \in Nat
    BY <1>1, <1>2, <1>5
  <2> QED BY <1>3, <1>4, <1>5, <2>1
<1> QED BY <1>4, <1>5

(* What is written is bytes. *)
LEMMA WrittenIsBytewise ==
    \A v \in Values : marshalValue[v] # {} => Bytewise(The(marshalValue[v]))
<1> DEFINE T == {v \in Values : marshalValue[v] # {} /\ ~Bytewise(The(marshalValue[v]))}
<1> SUFFICES ASSUME T # {} PROVE FALSE
  OBVIOUS
<1>1. PICK v \in T : \A w \in Values : Depth[w] < Depth[v] => w \notin T
  <2>1. T \subseteq Values
    OBVIOUS
  <2> HIDE DEF T
  <2> QED BY <2>1, Shallowest
<1>2. v \in Values /\ marshalValue[v] # {} /\ ~Bytewise(The(marshalValue[v]))
  OBVIOUS
<1>3. ASSUME NEW tag, NEW content, NEW w, Writes(tag, content, w),
             The(marshalValue[v]) = Tagged(tag, content)
      PROVE  FALSE
  <2>1. Bytewise(content) /\ IsCells(content)
    BY <1>3 DEF Writes, Bytewise
  <2> HIDE DEF T
  <2> QED BY <1>2, <1>3, <2>1, TaggedIsCells
<1>4. ASSUME IsCells(Items(v)), Len(Items(v)) = Len(v.items),
             The(marshalValue[v]) = Tagged("SEQUENCE", FlattenSeq(Items(v))),
             \A i \in 1..Len(v.items) :
                /\ Items(v)[i] = The(marshalValue[v.items[i]]) /\ v.items[i] \in Values
                /\ marshalValue[v.items[i]] # {} /\ Depth[v.items[i]] < Depth[v]
      PROVE  FALSE
  <2>1. \A i \in 1..Len(v.items) : Bytewise(Items(v)[i])
    BY <1>1, <1>4
  <2> HIDE DEF T
  <2>2. Bytewise(Tagged("SEQUENCE", FlattenSeq(Items(v))))
    BY <1>4, <2>1, TaggedListIsBytewise
  <2> QED BY <1>2, <1>4, <2>2
<1> HIDE DEF T
<1> QED BY <1>2, <1>3, <1>4, ValueIsWritten

(* What is written is read as the value it was written from, if it fits. *)
LEMMA WrittenIsRead ==
    ASSUME NEW d, Bytewise(d), NEW read, IsReading(read, d)
    PROVE  \A v \in Values : marshalValue[v] # {} /\ v \in Fitting =>
              ReadsAs(read, d, The(marshalValue[v]), v)
<1> DEFINE T == {v \in Values : /\ marshalValue[v] # {} /\ v \in Fitting
                                /\ ~ReadsAs(read, d, The(marshalValue[v]), v)}
<1> SUFFICES ASSUME T # {} PROVE FALSE
  OBVIOUS
<1>1. PICK v \in T : \A w \in Values : Depth[w] < Depth[v] => w \notin T
  <2>1. T \subseteq Values
    OBVIOUS
  <2> HIDE DEF T
  <2> QED BY <2>1, Shallowest
<1>2. v \in Values /\ marshalValue[v] # {} /\ v \in Fitting /\ ~ReadsAs(read, d, The(marshalValue[v]), v)
  OBVIOUS
<1>3. ASSUME NEW tag, NEW content, Writes(tag, content, v),
             The(marshalValue[v]) = Tagged(tag, content)
      PROVE  FALSE
  <2> HIDE DEF T
  <2>1. ReadsAs(read, d, Tagged(tag, content), v)
    BY <1>3, ScalarIsRead
  <2> QED BY <1>2, <1>3, <2>1
<1>4. ASSUME IsCells(v.items), IsCells(Items(v)), Len(Items(v)) = Len(v.items),
             v = Listed("SEQUENCE", v.items),
             The(marshalValue[v]) = Tagged("SEQUENCE", FlattenSeq(Items(v))),
             \A i \in 1..Len(v.items) :
                /\ Items(v)[i] = The(marshalValue[v.items[i]]) /\ v.items[i] \in Values
                /\ marshalValue[v.items[i]] # {} /\ Depth[v.items[i]] < Depth[v]
                /\ v.items[i] \in Fitting
      PROVE  FALSE
  <2>1. PICK seqs, vs : seqs = Items(v) /\ vs = v.items
    OBVIOUS
  <2>2. \A i \in 1..Len(seqs) : ReadsAs(read, d, seqs[i], vs[i])
    BY <1>1, <1>4, <2>1
  <2> HIDE DEF T
  <2>3. \A i \in 1..Len(seqs) : Bytewise(seqs[i])
    BY <1>4, <2>1, WrittenIsBytewise
  <2>4. PICK F : Joins(F, seqs) /\ FlattenSeq(seqs) = F[Len(seqs)]
    BY <1>4, <2>1, <2>3, FlattenJoins
  <2>5. ReadEach(read, d, seqs, vs)
    BY <1>4, <2>1, <2>2 DEF ReadEach
  <2>6. ReadsAs(read, d, Tagged("SEQUENCE", F[Len(seqs)]), Listed("SEQUENCE", vs))
    BY <2>4, <2>5, TaggedListIsRead
  <2> QED BY <1>2, <1>4, <2>1, <2>4, <2>6
<1> HIDE DEF T
<1> QED BY <1>2, <1>3, <1>4, ValueIsWritten

(* Strings that differ at i first, s before t. *)
DiffersAt(s, t, i) ==
    /\ i \in 1..Len(t) /\ i - 1 <= Len(s) /\ \A k \in 1..(i - 1) : s[k] = t[k]
    /\ i > Len(s) \/ s[i] < t[i]

(* The beginnings of two strings are equal, when their characters are. *)
LEMMA BeginningsEqual ==
    ASSUME NEW s \in Seq(Nat), NEW t \in Seq(Nat), NEW n \in Nat, n <= Len(s), n <= Len(t)
    PROVE  SubSeq(s, 1, n) = SubSeq(t, 1, n) <=> \A k \in 1..n : s[k] = t[k]
<1>1. \A r \in Seq(Nat) : n <= Len(r) =>
         /\ SubSeq(r, 1, n) \in Seq(Nat) /\ Len(SubSeq(r, 1, n)) = n
         /\ \A i \in 1..n : SubSeq(r, 1, n)[i] = r[i]
  <2> SUFFICES ASSUME NEW r \in Seq(Nat), n <= Len(r)
               PROVE  /\ SubSeq(r, 1, n) \in Seq(Nat) /\ Len(SubSeq(r, 1, n)) = n
                      /\ \A i \in 1..n : SubSeq(r, 1, n)[i] = r[i]
    OBVIOUS
  <2>1. \A i \in 1..n : r[i] \in Nat
    <3>1. Len(r) \in Nat
      BY LenProperties
    <3>2. \A i \in 1..n : i \in 1..Len(r)
      BY <3>1
    <3> QED BY <3>2, ElementOfSeq
  <2>2. PICK b : b = SubSeq(r, 1, n)
    OBVIOUS
  <2>3. /\ b \in Seq(Nat) /\ Len(b) = IF 1 <= n THEN n - 1 + 1 ELSE 0
        /\ \A i \in 1..(n - 1 + 1) : b[i] = r[1 + i - 1]
    BY <2>1, <2>2, SubSeqProperties
  <2>4. n - 1 + 1 = n /\ \A i \in 1..n : 1 + i - 1 = i
    OBVIOUS
  <2>5. Len(b) = n
    BY <2>3
  <2> QED BY <2>2, <2>3, <2>4, <2>5
<1>2. PICK a, b : a = SubSeq(s, 1, n) /\ b = SubSeq(t, 1, n)
  OBVIOUS
<1>3. /\ a \in Seq(Nat) /\ Len(a) = n /\ \A i \in 1..n : a[i] = s[i]
      /\ b \in Seq(Nat) /\ Len(b) = n /\ \A i \in 1..n : b[i] = t[i]
  BY <1>1, <1>2
<1>4. a = b <=> \A i \in 1..n : a[i] = b[i]
  BY <1>3, SeqEqual
<1> QED BY <1>2, <1>3, <1>4

(* Strings are compared at the first place where they differ. *)
LEMMA BeforeDiffers ==
    ASSUME NEW s \in Seq(Nat), NEW t \in Seq(Nat)
    PROVE  Before(s, t) <=> \E i \in Nat : DiffersAt(s, t, i)
<1>1. Len(s) \in Nat /\ Len(t) \in Nat
  BY LenProperties
<1>2. ASSUME NEW i \in 1..Len(t), i - 1 <= Len(s)
      PROVE  SubSeq(s, 1, i - 1) = SubSeq(t, 1, i - 1) <=> \A k \in 1..(i - 1) : s[k] = t[k]
  <2>1. i - 1 \in Nat /\ i - 1 <= Len(t)
    BY <1>1
  <2> QED BY <1>2, <2>1, BeginningsEqual
<1>3. ASSUME Before(s, t) PROVE \E i \in Nat : DiffersAt(s, t, i)
  <2>1. PICK i \in 1..Len(t) : /\ i - 1 <= Len(s) /\ SubSeq(s, 1, i - 1) = SubSeq(t, 1, i - 1)
                               /\ i > Len(s) \/ s[i] < t[i]
    BY <1>3 DEF Before
  <2>2. \A k \in 1..(i - 1) : s[k] = t[k]
    BY <1>2, <2>1
  <2> QED BY <1>1, <2>1, <2>2 DEF DiffersAt
<1>4. ASSUME NEW i \in Nat, DiffersAt(s, t, i) PROVE Before(s, t)
  <2>1. /\ i \in 1..Len(t) /\ i - 1 <= Len(s) /\ \A k \in 1..(i - 1) : s[k] = t[k]
        /\ i > Len(s) \/ s[i] < t[i]
    BY <1>4 DEF DiffersAt
  <2>2. SubSeq(s, 1, i - 1) = SubSeq(t, 1, i - 1)
    BY <1>2, <2>1
  <2> QED BY <2>1, <2>2 DEF Before
<1> QED BY <1>3, <1>4

(* Of two strings that differ, one comes before the other. *)
LEMMA BeforeIsTotal ==
    \A s, t \in Seq(Nat) : s # t => Before(s, t) \/ Before(t, s)
<1> SUFFICES ASSUME NEW s \in Seq(Nat), NEW t \in Seq(Nat), s # t
             PROVE  Before(s, t) \/ Before(t, s)
  OBVIOUS
<1>1. PICK n \in Nat, m \in Nat : n = Len(s) /\ m = Len(t)
  BY LenProperties
<1>2. PICK D : D = {i \in Nat \ {0} : i > n \/ i > m \/ s[i] # t[i]}
  OBVIOUS
<1>3. PICK i \in D : \A k \in D : i <= k
  <2>1. D \subseteq Nat /\ n + 1 \in D
    BY <1>2
  <2> QED BY <2>1, Smallest
<1>4. i \in Nat \ {0} /\ (i > n \/ i > m \/ s[i] # t[i])
  BY <1>2
<1>5. \A k \in 1..(i - 1) : k <= n /\ k <= m /\ s[k] = t[k]
  <2> SUFFICES ASSUME NEW k \in 1..(i - 1), ~(k <= n /\ k <= m /\ s[k] = t[k]) PROVE FALSE
    OBVIOUS
  <2>1. k \in D
    BY <1>2, <1>4
  <2> QED BY <1>3, <1>4, <2>1
<1>6. i - 1 <= n /\ i - 1 <= m
  <2>1. CASE i = 1
    BY <2>1
  <2>2. CASE i # 1
    <3>1. i - 1 \in 1..(i - 1)
      BY <1>4, <2>2
    <3> QED BY <1>5, <3>1
  <2> QED BY <2>1, <2>2
<1>7. CASE i <= n /\ i <= m
  <2>1. s[i] # t[i] /\ s[i] \in Nat /\ t[i] \in Nat
    <3>1. i \in 1..Len(s) /\ i \in 1..Len(t)
      BY <1>1, <1>4, <1>7
    <3>2. s[i] \in Nat /\ t[i] \in Nat
      BY <3>1, ElementOfSeq
    <3> QED BY <1>1, <1>4, <1>7, <3>2
  <2>2. s[i] < t[i] \/ t[i] < s[i]
    BY <2>1
  <2>3. DiffersAt(s, t, i) \/ DiffersAt(t, s, i)
    BY <1>1, <1>4, <1>5, <1>6, <1>7, <2>2 DEF DiffersAt
  <2> QED BY <1>4, <2>3, BeforeDiffers
<1>8. CASE i > n /\ i <= m
  <2>1. DiffersAt(s, t, i)
    BY <1>1, <1>4, <1>5, <1>6, <1>8 DEF DiffersAt
  <2> QED BY <1>4, <2>1, BeforeDiffers
<1>9. CASE i <= n /\ i > m
  <2>1. DiffersAt(t, s, i)
    BY <1>1, <1>4, <1>5, <1>6, <1>9 DEF DiffersAt
  <2> QED BY <1>4, <2>1, BeforeDiffers
<1>10. CASE i > n /\ i > m
  <2>1. n = i - 1 /\ m = i - 1
    BY <1>4, <1>6, <1>10
  <2>2. Len(s) = Len(t) /\ \A k \in 1..Len(s) : s[k] = t[k]
    BY <1>1, <1>5, <2>1
  <2> QED BY <2>2, SeqEqual
<1> QED BY <1>1, <1>4, <1>7, <1>8, <1>9, <1>10

(* What comes before a string comes before those that the string comes before. *)
LEMMA BeforeIsTransitive ==
    \A s, t, u \in Seq(Nat) : Before(s, t) /\ Before(t, u) => Before(s, u)
<1> SUFFICES ASSUME NEW s \in Seq(Nat), NEW t \in Seq(Nat), NEW u \in Seq(Nat),
                    Before(s, t), Before(t, u)
             PROVE  \E i \in Nat : DiffersAt(s, u, i)
  BY BeforeDiffers
<1>1. PICK i \in Nat, j \in Nat : DiffersAt(s, t, i) /\ DiffersAt(t, u, j)
  <2>1. PICK i \in Nat : DiffersAt(s, t, i)
    BY BeforeDiffers
  <2>2. PICK j \in Nat : DiffersAt(t, u, j)
    BY BeforeDiffers
  <2> QED BY <2>1, <2>2
<1>2. PICK n \in Nat, m \in Nat, l \in Nat : n = Len(s) /\ m = Len(t) /\ l = Len(u)
  BY LenProperties
<1>3. /\ i \in 1..m /\ i - 1 <= n /\ \A k \in 1..(i - 1) : s[k] = t[k]
      /\ i > n \/ s[i] < t[i]
  BY <1>1, <1>2 DEF DiffersAt
<1>4. /\ j \in 1..l /\ j - 1 <= m /\ \A k \in 1..(j - 1) : t[k] = u[k]
      /\ j > m \/ t[j] < u[j]
  BY <1>1, <1>2 DEF DiffersAt
<1>5. /\ \A k \in 1..n : s[k] \in Nat
      /\ \A k \in 1..m : t[k] \in Nat
      /\ \A k \in 1..l : u[k] \in Nat
  BY <1>2, ElementOfSeq
<1>6. CASE i < j
  <2>1. i \in 1..(j - 1) /\ t[i] = u[i] /\ i \in 1..l
    BY <1>3, <1>4, <1>6
  <2>2. \A k \in 1..(i - 1) : s[k] = u[k]
    BY <1>3, <1>4, <1>6
  <2>3. DiffersAt(s, u, i)
    BY <1>2, <1>3, <2>1, <2>2 DEF DiffersAt
  <2> QED BY <2>3
<1>7. CASE i = j
  <2>1. i \in 1..l /\ t[i] < u[i]
    BY <1>3, <1>4, <1>7
  <2>2. i > n \/ s[i] < u[i]
    <3>1. CASE i > n
      BY <3>1
    <3>2. CASE ~(i > n)
      <4>1. i \in 1..n
        BY <1>3, <3>2
      <4>2. s[i] \in Nat /\ t[i] \in Nat /\ u[i] \in Nat /\ s[i] < t[i]
        BY <1>3, <1>5, <2>1, <3>2, <4>1
      <4> QED BY <2>1, <4>2
    <3> QED BY <3>1, <3>2
  <2>3. \A k \in 1..(i - 1) : s[k] = u[k]
    BY <1>3, <1>4, <1>7
  <2>4. DiffersAt(s, u, i)
    BY <1>2, <1>3, <2>1, <2>2, <2>3 DEF DiffersAt
  <2> QED BY <2>4
<1>8. CASE j < i
  <2>1. j \in 1..(i - 1) /\ s[j] = t[j] /\ ~(j > m)
    BY <1>3, <1>4, <1>8
  <2>2. s[j] < u[j]
    BY <1>4, <2>1
  <2>3. j - 1 <= n /\ \A k \in 1..(j - 1) : s[k] = u[k]
    BY <1>3, <1>4, <1>8
  <2>4. DiffersAt(s, u, j)
    BY <1>2, <1>4, <2>2, <2>3 DEF DiffersAt
  <2> QED BY <2>4
<1> QED BY <1>6, <1>7, <1>8

(* One of some keys that comes behind the others. *)
IsLast(D, x) == x \in D /\ \A y \in D : y # x => Before(y, x)

(* There is one. *)
LEMMA LastExists ==
    \A n \in Nat : \A D \in SUBSET Seq(Nat) :
        IsFiniteSet(D) /\ Cardinality(D) = n + 1 => \E x : IsLast(D, x)
<1> DEFINE Claim(D) == \E x : IsLast(D, x)
           S == {n \in Nat : \A D \in SUBSET Seq(Nat) :
                               IsFiniteSet(D) /\ Cardinality(D) = n + 1 => Claim(D)}
<1>1. 0 \in S
  <2> SUFFICES ASSUME NEW D \in SUBSET Seq(Nat), IsFiniteSet(D), Cardinality(D) = 0 + 1
               PROVE  Claim(D)
    OBVIOUS
  <2>1. D # {}
    BY FS_EmptySet
  <2>2. PICK x : x \in D
    BY <2>1
  <2>3. IsFiniteSet(D \ {x}) /\ Cardinality(D \ {x}) = Cardinality(D) - 1
    BY <2>2, FS_RemoveElement
  <2>4. D \ {x} = {}
    <3>1. PICK E : E = D \ {x} /\ IsFiniteSet(E) /\ Cardinality(E) = 0
      BY <2>3
    <3>2. E = {}
      BY <3>1, FS_EmptySet
    <3> QED BY <3>1, <3>2
  <2>5. IsLast(D, x)
    BY <2>2, <2>4 DEF IsLast
  <2> QED BY <2>5
<1>2. ASSUME NEW n \in Nat, n \in S PROVE n + 1 \in S
  <2> SUFFICES ASSUME NEW D \in SUBSET Seq(Nat), IsFiniteSet(D), Cardinality(D) = (n + 1) + 1
               PROVE  Claim(D)
    OBVIOUS
  <2>1. D # {}
    BY FS_EmptySet
  <2>2. PICK x : x \in D
    BY <2>1
  <2>3. PICK E : E = D \ {x}
    OBVIOUS
  <2>4. IsFiniteSet(E) /\ Cardinality(E) = n + 1 /\ E \in SUBSET Seq(Nat)
    <3>1. IsFiniteSet(E) /\ Cardinality(E) = Cardinality(D) - 1
      BY <2>2, <2>3, FS_RemoveElement
    <3> QED BY <2>3, <3>1
  <2>5. PICK y : IsLast(E, y)
    BY <1>2, <2>4
  <2>6. x \in Seq(Nat) /\ y \in Seq(Nat) /\ x # y /\ y \in D
    BY <2>2, <2>3, <2>5 DEF IsLast
  <2>7. CASE Before(x, y)
    <3>1. IsLast(D, y)
      BY <2>3, <2>5, <2>6, <2>7 DEF IsLast
    <3> QED BY <3>1
  <2>8. CASE Before(y, x)
    <3>1. ASSUME NEW z \in D, z # x PROVE Before(z, x)
      <4>1. z \in Seq(Nat) /\ (z # y => Before(z, y))
        BY <2>3, <2>5, <3>1 DEF IsLast
      <4> QED BY <2>6, <2>8, <4>1, BeforeIsTransitive
    <3>2. IsLast(D, x)
      BY <2>2, <3>1 DEF IsLast
    <3> QED BY <3>2
  <2> QED BY <2>6, <2>7, <2>8, BeforeIsTotal
<1>3. Nat \subseteq S
  <2> HIDE DEF S
  <2> QED BY <1>1, <1>2, Induction
<1> QED BY <1>3

(* The keys D in their order. *)
InOrder(s, D) ==
    /\ s \in [1..Cardinality(D) -> D]
    /\ \A i, j \in DOMAIN s : i < j => Before(s[i], s[j])

(* Keys can be sorted. *)
LEMMA SortExists ==
    \A n \in Nat : \A D \in SUBSET Seq(Nat) :
        IsFiniteSet(D) /\ Cardinality(D) = n => \E s : InOrder(s, D)
<1> DEFINE Claim(D) == \E s : InOrder(s, D)
           S == {n \in Nat : \A D \in SUBSET Seq(Nat) :
                               IsFiniteSet(D) /\ Cardinality(D) = n => Claim(D)}
<1>1. 0 \in S
  <2> SUFFICES ASSUME NEW D \in SUBSET Seq(Nat), IsFiniteSet(D), Cardinality(D) = 0
               PROVE  Claim(D)
    OBVIOUS
  <2>1. PICK s : s = [i \in 1..0 |-> 0]
    OBVIOUS
  <2>2. InOrder(s, D)
    BY <2>1 DEF InOrder
  <2> QED BY <2>2
<1>2. ASSUME NEW n \in Nat, n \in S PROVE n + 1 \in S
  <2> SUFFICES ASSUME NEW D \in SUBSET Seq(Nat), IsFiniteSet(D), Cardinality(D) = n + 1
               PROVE  Claim(D)
    OBVIOUS
  <2>1. PICK x : IsLast(D, x)
    BY LastExists
  <2>2. PICK E : E = D \ {x} /\ x \in D
    BY <2>1 DEF IsLast
  <2>3. IsFiniteSet(E) /\ Cardinality(E) = n /\ E \in SUBSET Seq(Nat)
    <3>1. IsFiniteSet(E) /\ Cardinality(E) = Cardinality(D) - 1
      BY <2>2, FS_RemoveElement
    <3> QED BY <2>2, <3>1
  <2>4. PICK t : InOrder(t, E)
    BY <1>2, <2>3
  <2>5. t \in [1..n -> E] /\ \A i, j \in 1..n : i < j => Before(t[i], t[j])
    BY <2>3, <2>4 DEF InOrder
  <2>6. PICK s : s = [i \in 1..(n + 1) |-> IF i = n + 1 THEN x ELSE t[i]]
    OBVIOUS
  <2>7. s[n + 1] = x /\ \A i \in 1..n : s[i] = t[i] /\ t[i] \in E
    BY <2>5, <2>6
  <2>8. \A i \in 1..(n + 1) : i = n + 1 \/ i \in 1..n
    OBVIOUS
  <2>9. s \in [1..(n + 1) -> D]
    BY <2>2, <2>6, <2>7, <2>8
  <2>10. ASSUME NEW i \in 1..(n + 1), NEW j \in 1..(n + 1), i < j PROVE Before(s[i], s[j])
    <3>1. i \in 1..n
      BY <2>10
    <3>2. CASE j = n + 1
      <4>1. s[i] \in D /\ s[i] # x
        BY <2>2, <2>7, <3>1
      <4> QED BY <2>1, <2>7, <3>2, <4>1 DEF IsLast
    <3>3. CASE j \in 1..n
      BY <2>5, <2>7, <2>10, <3>1, <3>3
    <3> QED BY <2>8, <3>2, <3>3
  <2>11. DOMAIN s = 1..(n + 1)
    BY <2>6
  <2>12. InOrder(s, D)
    BY <2>9, <2>10, <2>11 DEF InOrder
  <2> QED BY <2>12
<1>3. Nat \subseteq S
  <2> HIDE DEF S
  <2> QED BY <1>1, <1>2, Induction
<1> QED BY <1>3

(* The keys of some entitlements, sorted. *)
LEMMA KeysAreSorted ==
    ASSUME NEW ent, IsFiniteSet(DOMAIN ent), DOMAIN ent \subseteq Seq(Nat)
    PROVE  InOrder(SortedKeys(ent), DOMAIN ent) /\ Cardinality(DOMAIN ent) \in Nat
<1>1. PICK n \in Nat : n = Cardinality(DOMAIN ent)
  BY FS_CardinalityType
<1>2. \E s : InOrder(s, DOMAIN ent)
  BY <1>1, SortExists
<1>3. SortedKeys(ent) =
         CHOOSE s \in [1..Cardinality(DOMAIN ent) -> DOMAIN ent] :
            \A i, j \in DOMAIN s : i < j => Before(s[i], s[j])
  BY DEF SortedKeys
<1> DEFINE P(s) == \A i, j \in DOMAIN s : i < j => Before(s[i], s[j])
           T == [1..Cardinality(DOMAIN ent) -> DOMAIN ent]
           keys == CHOOSE s \in T : P(s)
<1>4. \E s \in T : P(s)
  BY <1>2 DEF InOrder
<1>5. keys \in T /\ P(keys)
  <2> HIDE DEF T, P
  <2> QED BY <1>4
<1>6. SortedKeys(ent) = keys
  BY <1>3
<1> HIDE DEF keys
<1> QED BY <1>1, <1>5, <1>6 DEF InOrder

(* Two values that are tagged together. *)
LEMMA PairIsRead ==
    ASSUME NEW d, Bytewise(d), NEW read, IsReading(read, d), NEW a, NEW b, NEW x, NEW y,
           Bytewise(a), Bytewise(b), ReadsAs(read, d, a, x), ReadsAs(read, d, b, y)
    PROVE  ReadsAs(read, d, Tagged("SEQUENCE", a \o b), Listed("SEQUENCE", <<x, y>>))
<1>1. PICK seqs : /\ seqs = <<a, b>> /\ IsCells(seqs) /\ Len(seqs) = 2
                  /\ seqs[1] = a /\ seqs[2] = b
  <2>1. PICK seqs : seqs = <<a, b>>
    OBVIOUS
  <2> QED BY <2>1 DEF IsCells
<1>2. PICK vs : vs = <<x, y>> /\ IsCells(vs) /\ Len(vs) = 2 /\ vs[1] = x /\ vs[2] = y
  <2>1. PICK vs : vs = <<x, y>>
    OBVIOUS
  <2> QED BY <2>1 DEF IsCells
<1>3. PICK F : F = [i \in 0..2 |-> IF i = 0 THEN <<>> ELSE IF i = 1 THEN a ELSE a \o b]
  OBVIOUS
<1>4. F[0] = <<>> /\ F[1] = a /\ F[2] = a \o b
  BY <1>3
<1>5. <<>> \o a = a
  <2>1. a \in Seq({a[k] : k \in 1..Len(a)})
    BY LengthOf DEF Bytewise, IsCells
  <2> QED BY <2>1
<1>6. Bytewise(<<>>)
  <2>1. Len(<<>>) = 0 /\ IsCells(<<>>)
    BY DEF IsCells
  <2> QED BY <2>1 DEF Bytewise
<1>7. Joins(F, seqs)
  <2>1. \A i \in 1..2 : i = 1 \/ i = 2
    OBVIOUS
  <2>2. \A i \in 0..2 : i = 0 \/ i = 1 \/ i = 2
    OBVIOUS
  <2>3. Bytewise(a \o b)
    BY BytewiseJoined
  <2>4. \A i \in 1..2 : F[i] = F[i - 1] \o seqs[i] /\ Bytewise(seqs[i])
    <3>4. F[1 - 1] = <<>> /\ F[2 - 1] = a
      BY <1>4
    <3>5. PICK s, t : s = F[1 - 1] /\ t = F[2 - 1]
      OBVIOUS
    <3>6. F[1] = s \o seqs[1]
      <4>1. s \o seqs[1] = <<>> \o a
        BY <1>1, <3>4, <3>5
      <4> QED BY <1>4, <1>5, <4>1
    <3>7. F[2] = t \o seqs[2]
      <4>1. t \o seqs[2] = a \o b
        BY <1>1, <3>4, <3>5
      <4> QED BY <1>4, <4>1
    <3>1. F[1] = F[1 - 1] \o seqs[1]
      BY <3>5, <3>6, Zenon
    <3>2. F[2] = F[2 - 1] \o seqs[2]
      BY <3>5, <3>7, Zenon
    <3>3. Bytewise(seqs[1]) /\ Bytewise(seqs[2])
      BY <1>1
    <3> QED BY <2>1, <3>1, <3>2, <3>3
  <2>5. \A i \in 0..2 : Bytewise(F[i])
    BY <1>4, <1>6, <2>2, <2>3
  <2> QED BY <1>1, <1>4, <2>4, <2>5 DEF Joins
<1>8. ReadEach(read, d, seqs, vs)
  <2>1. \A i \in 1..2 : i = 1 \/ i = 2
    OBVIOUS
  <2> QED BY <1>1, <1>2, <2>1 DEF ReadEach
<1>9. ReadsAs(read, d, Tagged("SEQUENCE", F[Len(seqs)]), Listed("SEQUENCE", vs))
  BY <1>7, <1>8, TaggedListIsRead
<1> QED BY <1>1, <1>2, <1>4, <1>9

(* The characters of a key are text. *)
LEMMA KeyIsText == \A key \in Seq(Nat) : IsText(KeyText(key))
<1> SUFFICES ASSUME NEW key \in Seq(Nat) PROVE IsText(KeyText(key))
  OBVIOUS
<1>1. PICK n \in Nat : n = Len(key) /\ DOMAIN key = 1..n
  BY LenProperties
<1>2. PICK t : t = KeyText(key)
  OBVIOUS
<1>3. t = [i \in 1..n |-> [char |-> <<"key", key[i]>>]]
  BY <1>1, <1>2 DEF KeyText
<1>4. DOMAIN t = 1..n /\ \A i \in 1..n : DOMAIN t[i] = {"char"}
  BY <1>3
<1>5. t \in Seq(Range(t))
  <2>1. \A i \in 1..n : t[i] \in Range(t)
    BY <1>4 DEF Range
  <2> HIDE DEF Range
  <2>2. t = [i \in 1..n |-> t[i]]
    BY <1>3
  <2> QED BY <2>1, <2>2
<1> QED BY <1>2, <1>4, <1>5 DEF IsText

(* What an entry is written as, and the pair that is read. *)
Entry(ent, key) == Tagged("SEQUENCE", utf8String(KeyText(key)) \o The(marshalValue[ent[key]]))
Pair(ent, key) ==
    Listed("SEQUENCE", <<[kind |-> "string", text |-> KeyText(key)], ent[key]>>)

(* Entitlements, as they may be asked for, of which each value can be written. *)
AreEntitlements(ent) ==
    /\ IsFiniteSet(DOMAIN ent) /\ DOMAIN ent \subseteq Seq(Nat)
    /\ ent \in [DOMAIN ent -> Values] /\ Encodes(ent)

(* An entry is bytes, and read as the key and the value, if that fits. *)
LEMMA EntryIsRead ==
    ASSUME NEW ent, AreEntitlements(ent), NEW key \in DOMAIN ent
    PROVE  /\ Bytewise(Entry(ent, key))
           /\ \A d, read : Bytewise(d) /\ IsReading(read, d) =>
                 (ent[key] \in Fitting => ReadsAs(read, d, Entry(ent, key), Pair(ent, key)))
<1>1. key \in Seq(Nat) /\ ent[key] \in Values /\ marshalValue[ent[key]] # {}
  BY DEF AreEntitlements, Encodes
<1>2. PICK t : t = KeyText(key) /\ IsText(t)
  BY <1>1, KeyIsText
<1>3. PICK a, b : a = utf8String(t) /\ b = The(marshalValue[ent[key]])
  OBVIOUS
<1>4. Writes("UTF8String", t, [kind |-> "string", text |-> t])
  BY <1>2, TextIsWritten
<1>5. Bytewise(a)
  <2>1. Bytewise(t) /\ IsCells(t)
    BY <1>2, TextIsBytewise DEF Bytewise
  <2> QED BY <1>3, <2>1, TaggedIsCells DEF utf8String
<1>6. Bytewise(b)
  BY <1>1, <1>3, WrittenIsBytewise
<1>7. Bytewise(Tagged("SEQUENCE", a \o b))
  <2>1. PICK c : c = a \o b /\ Bytewise(c) /\ IsCells(c)
    BY <1>5, <1>6, BytewiseJoined DEF Bytewise
  <2> QED BY <2>1, TaggedIsCells
<1>8. ASSUME NEW d, NEW read, Bytewise(d), IsReading(read, d), ent[key] \in Fitting
      PROVE  ReadsAs(read, d, Entry(ent, key), Pair(ent, key))
  <2>1. PICK x, y : x = [kind |-> "string", text |-> t] /\ y = ent[key]
    OBVIOUS
  <2>2. ReadsAs(read, d, a, x)
    BY <1>3, <1>4, <1>8, <2>1, ScalarIsRead DEF utf8String
  <2>3. ReadsAs(read, d, b, y)
    BY <1>1, <1>3, <1>8, <2>1, WrittenIsRead
  <2>4. ReadsAs(read, d, Tagged("SEQUENCE", a \o b), Listed("SEQUENCE", <<x, y>>))
    BY <1>5, <1>6, <1>8, <2>2, <2>3, PairIsRead
  <2> QED BY <1>2, <1>3, <2>1, <2>4 DEF Entry, Pair
<1> QED BY <1>2, <1>3, <1>7, <1>8 DEF Entry

(* What EncodeDER writes is bytes, and read as the dictionary, if its integers fit. *)
LEMMA DictionaryIsRead ==
    ASSUME NEW ent, AreEntitlements(ent)
    PROVE  /\ Bytewise(EncodeDER(ent)) /\ Len(EncodeDER(ent)) \in Nat
           /\ FitsInt(ent) => Says(EncodeDER(ent), ent)
<1>1. PICK keys : keys = SortedKeys(ent)
  OBVIOUS
<1>2. PICK n \in Nat : n = Cardinality(DOMAIN ent) /\ keys \in [1..n -> DOMAIN ent]
  BY <1>1, KeysAreSorted DEF AreEntitlements, InOrder
<1>3. PICK seqs : seqs = [i \in 1..n |-> Entry(ent, keys[i])]
  OBVIOUS
<1>4. PICK vs : vs = [i \in 1..n |-> Pair(ent, keys[i])]
  OBVIOUS
<1>5. Len(seqs) = n /\ IsCells(seqs)
  <2>1. seqs = [i \in 1..n |-> seqs[i]]
    BY <1>3
  <2> QED BY <2>1, LengthOf DEF IsCells
<1>6. Len(vs) = n /\ IsCells(vs)
  <2>1. vs = [i \in 1..n |-> vs[i]]
    BY <1>4
  <2> QED BY <2>1, LengthOf DEF IsCells
<1>7. \A i \in 1..n : /\ seqs[i] = Entry(ent, keys[i]) /\ vs[i] = Pair(ent, keys[i])
                      /\ keys[i] \in DOMAIN ent
  BY <1>2, <1>3, <1>4
<1>8. \A i \in 1..n : Bytewise(seqs[i])
  BY <1>7, EntryIsRead
<1>9. PICK d : d = EncodeDER(ent)
  OBVIOUS
<1>10. d = Tagged("SET", FlattenSeq(seqs))
  <2>1. DOMAIN keys = 1..n
    BY <1>2
  <2>2. seqs = [i \in DOMAIN keys |->
                  Tagged("SEQUENCE",
                         utf8String(KeyText(keys[i])) \o The(marshalValue[ent[keys[i]]]))]
    BY <1>3, <2>1 DEF Entry
  <2> QED BY <1>1, <1>9, <2>2 DEF EncodeDER
<1>11. Bytewise(d) /\ Len(d) \in Nat /\ IsCells(d)
  <2>1. \A i \in 1..Len(seqs) : Bytewise(seqs[i])
    BY <1>5, <1>8
  <2>2. Bytewise(d)
    BY <1>5, <1>10, <2>1, TaggedListIsBytewise
  <2> QED BY <2>2 DEF Bytewise, IsCells
<1>12. PICK F : Joins(F, seqs) /\ FlattenSeq(seqs) = F[Len(seqs)]
  BY <1>5, <1>8, FlattenJoins
<1>13. PICK read : IsReading(read, d) /\ Decode(d) = read[<<1, Len(d) + 1>>]
  BY <1>11, DecodeIsDefined
<1> SUFFICES ASSUME FitsInt(ent) PROVE Says(d, ent)
  BY <1>9, <1>11
<1>14. ReadEach(read, d, seqs, vs)
  <2>1. \A i \in 1..n : ReadsAs(read, d, seqs[i], vs[i])
    BY <1>7, <1>11, <1>13, EntryIsRead DEF FitsInt
  <2> QED BY <1>5, <1>6, <2>1 DEF ReadEach
<1>15. ReadsAs(read, d, d, Listed("SET", vs))
  BY <1>10, <1>11, <1>12, <1>13, <1>14, TaggedListIsRead
<1>16. PICK to \in Nat : to = Len(d) + 1
  BY <1>11
<1>17. Leads(read, 1, to, Listed("SET", vs), 1 + Len(d))
  <2>1. Stands(d, 1, d) /\ to \in (1 + Len(d))..(Len(d) + 1)
    BY <1>11, <1>16, StandsItself
  <2> QED BY <1>15, <2>1 DEF ReadsAs
<1>18. read[<<to, to>>] = <<>>
  <2>1. to \in Places(d)
    BY <1>11, <1>16 DEF Places
  <2>2. read[<<to, to>>] = ValuesAt(read, d, to, to)
    BY <1>13, <2>1 DEF IsReading
  <2> QED BY <2>2 DEF ValuesAt
<1>19. Decode(d) = <<Listed("SET", vs)>>
  <2>1. 1 + Len(d) = to
    BY <1>11, <1>16
  <2>2. PICK t : t = <<Listed("SET", vs)>>
    OBVIOUS
  <2>3. t \o <<>> = t
    BY <2>2
  <2>4. read[<<1, to>>] = t \o read[<<to, to>>]
    BY <1>17, <2>1, <2>2 DEF Leads
  <2> QED BY <1>13, <1>16, <1>18, <2>2, <2>3, <2>4
<1>20. Says(d, ent)
  <2>1. DOMAIN keys = 1..n
    BY <1>2
  <2>2. vs = [i \in DOMAIN keys |->
                [kind |-> "array",
                 items |-> <<[kind |-> "string", text |-> KeyText(keys[i])], ent[keys[i]]>>]]
    BY <1>4, <2>1 DEF Pair, Listed
  <2>3. Listed("SET", vs) = [kind |-> "set", items |-> vs]
    BY DEF Listed
  <2> QED BY <1>1, <1>19, <2>2, <2>3 DEF Says
<1> QED BY <1>20

-----------------------------------------------------------------------------
(* The blobs before they are assembled: what is hashed is what is there. *)
CMSBlob ==
    LET identity == LoadP12(request.p12)
        cms == GenerateCMS(identity, BuildFullCertChain(identity.certChain), Hash(buf))
    IN  WrapBlob("CMS", IF HasMessage(request) THEN <<[cms |-> cms]>> ELSE <<>>)

ContentsHashed ==
    \A s \in {2, 5, 7} :
        /\ s \in DOMAIN special <=> s \in DOMAIN blobs
        /\ s \in DOMAIN special => special[s] = Hash([blob |-> blobs[s]])

Signed ==
    /\ DOMAIN blobs \subseteq {0, 2, 5, 7, 65536}
    /\ {0, 65536} \subseteq DOMAIN blobs
    /\ blobs[0] = buf /\ blobs[65536] = CMSBlob

BlobsInvariant ==
    /\ \A s \in DOMAIN blobs : IsBlob(blobs[s])
    /\ pc \notin {"blobs", "special"} => ContentsHashed
    /\ pc \notin {"assemble", "super", "done"} => DOMAIN blobs \subseteq {2, 5, 7}
    /\ pc \in {"assemble", "super", "done"} => Signed

(* Steps 1 to 3: the requirements, and entitlements of both kinds. *)
LEMMA BuiltBlobs ==
    ASSUME request \in Requests, BuildBlobs
    PROVE  /\ DOMAIN blobs' \subseteq {2, 5, 7}
           /\ \A s \in DOMAIN blobs' : IsBlob(blobs'[s])
<1> DEFINE q == LocalOptions(request)
<1>1. /\ q.ident = request.ident /\ q.p12 = request.p12 /\ q.identity = request.identity
      /\ q.xml \in {request.xml, {NoEntitlements}}
      /\ DERContent(q) # {} => q.xml = request.xml
  BY RequestsAssumption DEF LocalOptions, DERContent
<1>2. /\ request.ident \in Nat
      /\ \A ent \in request.xml : Encodes(ent) => Len(EncodeDER(ent)) \in Nat
      /\ Len(Head(request.p12.certs).cn) \in Nat /\ Len(<<>>) = 0
  <2>1. /\ request.ident \in Nat /\ IsText(Head(request.p12.certs).cn)
        /\ \A ent \in request.xml : Encodes(ent) => AreEntitlements(ent)
    BY RequestsAssumption DEF AreEntitlements
  <2>2. \A ent \in request.xml : Encodes(ent) => Len(EncodeDER(ent)) \in Nat
    BY <2>1, DictionaryIsRead
  <2> QED BY <2>1, <2>2, LenProperties DEF IsText
<1>3. IsBlob(BuildRequirements(BundleID(q), LeafCN(q)))
  <2>1. Len(BundleID(q)) \in Nat
    BY <1>1, <1>2, LenText DEF BundleID
  <2>2. Len(LeafCN(q)) \in Nat
    BY <1>1, <1>2 DEF LeafCN, LoadP12
  <2> QED BY <2>1, <2>2, RequirementsAreBlob
<1>4. \A x : IsBlob(WrapBlob("entitlements", <<[xml |-> x]>>))
  <2>1. \A x : Len(<<x>>) = 1
    OBVIOUS
  <2> QED BY <2>1, Wrapped
<1>5. \A x \in DERContent(q) : Len(x) \in Nat
  <2>1. Len(CallersDER) = 1
    BY DEF CallersDER
  <2>2. CASE DERContent(q) = {}
    BY <2>2
  <2>3. CASE q.xml = request.xml
    <3>1. DERContent(q) \subseteq
             {CallersDER} \cup {EncodeDER(ent) : ent \in {x \in request.xml : Encodes(x)}}
      BY <2>3 DEF DERContent
    <3> QED BY <3>1, <2>1, <1>2
  <2> QED BY <2>2, <2>3, <1>1
<1> DEFINE der == DERContent(q)
           slots == {2} \cup (IF q.xml = {} THEN {} ELSE {5}) \cup (IF der = {} THEN {} ELSE {7})
<1>6. /\ DOMAIN blobs' = slots
      /\ 2 \in slots => blobs'[2] = BuildRequirements(BundleID(q), LeafCN(q))
      /\ 5 \in slots =>
            blobs'[5] = WrapBlob("entitlements", <<[xml |-> CHOOSE x \in q.xml : TRUE]>>)
      /\ 7 \in slots => blobs'[7] = WrapBlob("DER", CHOOSE x \in der : TRUE)
  <2> DEFINE r == BuildRequirements(BundleID(q), LeafCN(q))
             e == WrapBlob("entitlements", <<[xml |-> CHOOSE x \in q.xml : TRUE]>>)
             d == WrapBlob("DER", CHOOSE x \in der : TRUE)
  <2>1. blobs' = [s \in slots |-> CASE s = 2 -> r [] s = 5 -> e [] s = 7 -> d]
    BY DEF BuildBlobs, RequirementsSlot, EntitlementsSlot, DEREntitlementsSlot
  <2> HIDE DEF q, r, e, d, slots
  <2> QED BY <2>1 DEF r, e, d
<1>7. 7 \in slots => IsBlob(blobs'[7])
  <2> SUFFICES ASSUME 7 \in slots PROVE IsBlob(blobs'[7])
    OBVIOUS
  <2>1. (CHOOSE x \in der : TRUE) \in der
    <3>1. der # {}
      OBVIOUS
    <3> HIDE DEF der
    <3> QED BY <3>1
  <2> HIDE DEF der, slots
  <2> QED BY <2>1, <1>5, <1>6, Wrapped DEF der
<1>8. slots \subseteq {2, 5, 7}
  OBVIOUS
<1> HIDE DEF q, slots, der
<1> QED BY <1>3, <1>4, <1>6, <1>7, <1>8

(* Step 4: the blobs are hashed whole, and the directory is cells. *)
LEMMA DirectoryHashesBlobs ==
    ASSUME BlobsInvariant, BeginDirectory
    PROVE  BlobsInvariant'
<1>1. /\ pc = "special" /\ pc' = "directory" /\ blobs' = blobs
      /\ special' = SpecialHashes(request)
  BY DEF BeginDirectory
<1>2. ContentsHashed'
  <2> SUFFICES ASSUME NEW s \in {2, 5, 7}
               PROVE  /\ s \in DOMAIN special' <=> s \in DOMAIN blobs
                      /\ s \in DOMAIN special' =>
                            special'[s] = Hash([blob |-> blobs[s]])
    BY <1>1 DEF ContentsHashed
  <2>1. s \notin {1, 3}
    OBVIOUS
  <2>2. s \in DOMAIN SpecialHashes(request) <=> s \in DOMAIN blobs
    BY <2>1 DEF SpecialHashes
  <2>3. s \in DOMAIN SpecialHashes(request) =>
           SpecialHashes(request)[s] = Hash([blob |-> blobs[s]])
    BY <2>1 DEF SpecialHashes
  <2> QED BY <2>2, <2>3, <1>1
<1> QED BY <1>1, <1>2 DEF BlobsInvariant

(* Step 6: the directory and its signature join the blobs they are made of. *)
LEMMA SignJoins ==
    ASSUME DirectoryInvariant, BlobsInvariant, Sign
    PROVE  BlobsInvariant'
<1>1. /\ pc = "cms" /\ pc' = "assemble" /\ request' = request /\ special' = special
      /\ buf' = buf /\ blobs' = Put(Put(blobs, 0, buf), 65536, CMSBlob)
  BY DEF Sign, CMSBlob, CodeDirectorySlot, CMSSlot
<1>2. /\ DOMAIN blobs \subseteq {2, 5, 7} /\ ContentsHashed /\ IsBlob(buf)
      /\ \A s \in DOMAIN blobs : IsBlob(blobs[s])
  BY <1>1 DEF BlobsInvariant, DirectoryInvariant, HeaderInPlace
<1>3. CMSBlob' = CMSBlob
  BY <1>1 DEF CMSBlob
<1>4. IsBlob(CMSBlob)
  <2>1. Len(<<>>) = 0 /\ \A x : Len(<<x>>) = 1
    OBVIOUS
  <2> QED BY <2>1, Wrapped DEF CMSBlob
<1> DEFINE cms == CMSBlob
<1> HIDE DEF cms
<1>5. /\ DOMAIN blobs' = DOMAIN blobs \cup {0, 65536}
      /\ blobs'[0] = buf /\ blobs'[65536] = cms
      /\ \A s \in DOMAIN blobs : blobs'[s] = blobs[s]
  <2>1. blobs' = Put(Put(blobs, 0, buf), 65536, cms)
    BY <1>1 DEF cms
  <2> QED BY <2>1, <1>2 DEF Put
<1>6. Signed'
  BY <1>1, <1>2, <1>3, <1>5 DEF Signed, cms
<1>7. ContentsHashed'
  BY <1>1, <1>2, <1>5 DEF ContentsHashed
<1>8. \A s \in DOMAIN blobs' : IsBlob(blobs'[s])
  BY <1>2, <1>4, <1>5 DEF cms
<1> QED BY <1>1, <1>6, <1>7, <1>8 DEF BlobsInvariant

(* No other step changes a blob or a hash of one. *)
LEMMA BlobsAreKept ==
    ASSUME DirectoryInvariant, BlobsInvariant,
           \/ \E s \in 1..7 : WriteSpecial(s)
           \/ WritePages \/ BeginSuper \/ WriteBlob \/ UNCHANGED vars
    PROVE  BlobsInvariant'
<1>1. request' = request /\ blobs' = blobs /\ special' = special
  BY DEF WriteSpecial, WritePages, BeginSuper, WriteBlob, vars
<1>2. ContentsHashed' = ContentsHashed
  BY <1>1 DEF ContentsHashed
<1>3. CASE (\E s \in 1..7 : WriteSpecial(s)) \/ WritePages
  <2>1. pc \in {"directory", "cms"} /\ pc' \in {"directory", "cms"}
    BY <1>3 DEF WriteSpecial, WritePages
  <2> QED BY <2>1, <1>1, <1>2 DEF BlobsInvariant
<1>4. CASE BeginSuper \/ WriteBlob
  <2>1. /\ pc \in {"assemble", "super"} /\ pc' \in {"assemble", "super", "done"}
        /\ buf' = buf
    BY <1>4 DEF BeginSuper, WriteBlob
  <2>2. Signed' = Signed
    BY <2>1, <1>1 DEF Signed, CMSBlob
  <2> QED BY <2>1, <2>2, <1>1, <1>2 DEF BlobsInvariant
<1>5. CASE UNCHANGED vars
  <2>1. pc' = pc /\ buf' = buf
    BY <1>5 DEF vars
  <2>2. Signed' = Signed
    BY <2>1, <1>1 DEF Signed, CMSBlob
  <2> QED BY <2>1, <2>2, <1>1, <1>2 DEF BlobsInvariant
<1> QED BY <1>3, <1>4, <1>5

(* Every blob is as long as it says, and is hashed as it is embedded. *)
LEMMA BlobsInvariantHolds == Spec => []BlobsInvariant
<1>1. Init => BlobsInvariant
  BY DEF Init, BlobsInvariant, NoBlobs
<1>2. DirectoryInvariant /\ BlobsInvariant /\ [Next]_vars => BlobsInvariant'
  <2> SUFFICES ASSUME DirectoryInvariant, BlobsInvariant, [Next]_vars
               PROVE  BlobsInvariant'
    OBVIOUS
  <2>1. CASE BuildBlobs
    <3>1. pc' = "special" /\ request \in Requests
      BY <2>1 DEF BuildBlobs, DirectoryInvariant
    <3> QED BY <3>1, <2>1, BuiltBlobs DEF BlobsInvariant
  <2>2. CASE BeginDirectory   BY <2>2, DirectoryHashesBlobs
  <2>3. CASE Sign   BY <2>3, SignJoins
  <2>4. CASE \/ \E s \in 1..7 : WriteSpecial(s)
             \/ WritePages \/ BeginSuper \/ WriteBlob \/ UNCHANGED vars
    BY <2>4, BlobsAreKept
  <2> QED BY <2>1, <2>2, <2>3, <2>4 DEF Next, Done
<1> QED BY <1>1, <1>2, DirectoryInvariantHolds, PTL DEF Spec

-----------------------------------------------------------------------------
(* The SuperBlob while it is assembled. *)
Count == Cardinality(DOMAIN blobs)
Written == {s \in DOMAIN blobs : \E i \in 1..(next - 1) : s = SlotOrder[i]}

(* The cells that the slots from the place n on will take. *)
SizeLeft(n) ==
    (IF n <= 1 THEN SizeOf(blobs, 0) ELSE 0) + (IF n <= 2 THEN SizeOf(blobs, 2) ELSE 0)
      + (IF n <= 3 THEN SizeOf(blobs, 5) ELSE 0) + (IF n <= 4 THEN SizeOf(blobs, 7) ELSE 0)
      + (IF n <= 6 THEN SizeOf(blobs, 65536) ELSE 0)

EntryInPlace(e) ==
    /\ e = [slot |-> e.slot, offset |-> e.offset]
    /\ e.slot \in Written /\ e.offset \in Nat
    /\ 1 + Count <= e.offset
    /\ e.offset + Len(blobs[e.slot]) <= dataOffset
    /\ \A p \in 1..Len(blobs[e.slot]) : super[e.offset + p] = blobs[e.slot][p]

IndexInPlace ==
    /\ super[1] = [magic |-> "super", length |-> Len(super), count |-> Count]
    /\ indexOffset = 1 + Cardinality(Written)
    /\ \A i \in 2..indexOffset : EntryInPlace(super[i])
    /\ \A s \in Written : \E i \in 2..indexOffset : super[i].slot = s
    /\ \A i, j \in 2..indexOffset : super[i].slot = super[j].slot => i = j

SuperInvariant ==
    /\ pc \notin {"super", "done"} => next = 1 /\ indexOffset = 1
    /\ pc = "super" => next \in 1..6
    /\ pc = "done" => next = 7
    /\ pc \in {"super", "done"} =>
          /\ dataOffset \in Nat /\ 1 + Count <= dataOffset
          /\ Len(super) = dataOffset + SizeLeft(next)
          /\ IndexInPlace

(* The slots in their order. *)
LEMMA SlotsInOrder ==
    /\ Len(SlotOrder) = 6
    /\ SlotOrder[1] = 0 /\ SlotOrder[2] = 2 /\ SlotOrder[3] = 5 /\ SlotOrder[4] = 7
    /\ SlotOrder[5] = 4096 /\ SlotOrder[6] = 65536
  BY DEF SlotOrder

(* The blobs that are signed are few, and have lengths. *)
LEMMA SignedBlobs ==
    ASSUME BlobsInvariant, pc \in {"assemble", "super", "done"}
    PROVE  /\ DOMAIN blobs \subseteq {0, 2, 5, 7, 65536}
           /\ IsFiniteSet(DOMAIN blobs) /\ Count \in Nat
           /\ \A s \in DOMAIN blobs :
                 IsBlob(blobs[s]) /\ Len(blobs[s]) \in Nat \ {0}
           /\ \A s : SizeOf(blobs, s) \in Nat
<1>1. /\ DOMAIN blobs \subseteq {0, 2, 5, 7, 65536}
      /\ \A s \in DOMAIN blobs : IsBlob(blobs[s])
  BY DEF BlobsInvariant, Signed
<1>2. IsFiniteSet(DOMAIN blobs)
  <2> DEFINE S1 == {} \cup {0}
             S2 == S1 \cup {2}
             S3 == S2 \cup {5}
             S4 == S3 \cup {7}
             S == S4 \cup {65536}
  <2> HIDE DEF S1, S2, S3, S4, S
  <2>1. IsFiniteSet(S1)
    BY FS_EmptySet, FS_AddElement DEF S1
  <2>2. IsFiniteSet(S2)
    BY <2>1, FS_AddElement DEF S2
  <2>3. IsFiniteSet(S3)
    BY <2>2, FS_AddElement DEF S3
  <2>4. IsFiniteSet(S4)
    BY <2>3, FS_AddElement DEF S4
  <2>5. IsFiniteSet(S)
    BY <2>4, FS_AddElement DEF S
  <2>6. DOMAIN blobs \in SUBSET S
    BY <1>1 DEF S1, S2, S3, S4, S
  <2> QED BY <2>5, <2>6, FS_Subset
<1>3. Count \in Nat
  BY <1>2, FS_CardinalityType DEF Count
<1>4. \A s \in DOMAIN blobs : Len(blobs[s]) \in Nat \ {0}
  BY <1>1 DEF IsBlob, IsCells
<1> QED BY <1>1, <1>2, <1>3, <1>4 DEF SizeOf

(* The SuperBlob begins with its header and room for everything. *)
LEMMA BeginSuperStep ==
    ASSUME BlobsInvariant, SuperInvariant, BeginSuper
    PROVE  SuperInvariant'
<1>1. /\ pc = "assemble" /\ pc' = "super" /\ blobs' = blobs
      /\ next' = next /\ indexOffset' = indexOffset /\ next = 1 /\ indexOffset = 1
      /\ dataOffset' = 1 + Count
  BY DEF BeginSuper, SuperInvariant, SuperHeaderSize, Count
<1>2. Count \in Nat /\ \A s : SizeOf(blobs, s) \in Nat
  BY <1>1, SignedBlobs
<1>3. Count' = Count /\ SizeLeft(1)' = SizeLeft(1)
  BY <1>1 DEF Count, SizeLeft, SizeOf
<1>4. SizeLeft(1) \in Nat /\ SizeLeft(1) = BlobsSize(blobs)
  <2>1. SizeLeft(1) = SizeOf(blobs, 0) + SizeOf(blobs, 2) + SizeOf(blobs, 5)
                        + SizeOf(blobs, 7) + SizeOf(blobs, 65536)
    BY <1>2 DEF SizeLeft
  <2>2. BlobsSize(blobs) = SizeOf(blobs, 0) + SizeOf(blobs, 2) + SizeOf(blobs, 5)
                             + SizeOf(blobs, 7) + SizeOf(blobs, 65536)
    BY DEF BlobsSize, CodeDirectorySlot, RequirementsSlot, EntitlementsSlot,
           DEREntitlementsSlot, CMSSlot
  <2> QED BY <2>1, <2>2, <1>2
<1>5. PICK size \in Nat : size = 1 + Count + SizeLeft(1)
  BY <1>2, <1>4
<1>6. PICK header : header = [magic |-> "super", length |-> size, count |-> Count]
  OBVIOUS
<1>7. super' = CopyTo(Zeros(size), 0, <<header>>)
  <2>1. SuperHeaderSize(Count) + BlobsSize(blobs) = size
    BY <1>2, <1>4, <1>5 DEF SuperHeaderSize
  <2> QED BY <2>1, <1>6 DEF BeginSuper, Count
<1>8. Len(super') = size
  BY <1>7, LenZeros, LenCopied
<1>9. super'[1] = header
  <2>1. PICK cell : cell = <<header>>
    OBVIOUS
  <2>2. Len(cell) = 1 /\ cell[1] = header
    BY <2>1
  <2>3. Len(Zeros(size)) = size /\ 1 \in 1..size
    BY <1>2, <1>4, <1>5, LenZeros
  <2>4. 1 > 0 /\ 1 <= 0 + Len(cell) /\ 1 - 0 = 1
    BY <2>2
  <2>5. CopyTo(Zeros(size), 0, cell)[1] = cell[1]
    BY <2>3, <2>4 DEF CopyTo
  <2> QED BY <2>1, <2>2, <2>5, <1>7
<1>10. Written' = {}
  BY <1>1 DEF Written
<1>11. IndexInPlace'
  <2>1. indexOffset' = 1 + Cardinality(Written')
    BY <1>1, <1>10, FS_EmptySet
  <2>2. super'[1] = [magic |-> "super", length |-> Len(super'), count |-> Count']
    BY <1>3, <1>6, <1>8, <1>9
  <2>3. \A i \in 2..indexOffset' : FALSE
    BY <1>1
  <2>4. \A i \in 2..indexOffset' : EntryInPlace(super[i])'
    BY <2>3
  <2>5. \A s \in Written' : \E i \in 2..indexOffset' : super'[i].slot = s
    BY <1>10
  <2>6. \A i, j \in 2..indexOffset' : super'[i].slot = super'[j].slot => i = j
    BY <2>3
  <2> QED BY <2>1, <2>2, <2>4, <2>5, <2>6 DEF IndexInPlace
<1>12. Len(super') = dataOffset' + SizeLeft(1)
  BY <1>1, <1>5, <1>8
<1> QED BY <1>1, <1>2, <1>3, <1>11, <1>12 DEF SuperInvariant

(* The slots that are written, and what is left, at the next place. *)
LEMMA NextSlot ==
    ASSUME BlobsInvariant, pc = "super", next \in 1..6, next' = next + 1, blobs' = blobs,
           NEW slot, slot = SlotOrder[next]
    PROVE  /\ slot \notin Written
           /\ Written' = Written \cup ({slot} \cap DOMAIN blobs)
           /\ SizeLeft(next) = SizeOf(blobs, slot) + SizeLeft(next + 1)
           /\ SizeLeft(next + 1) \in Nat /\ SizeLeft(next)' = SizeLeft(next + 1)
<1>1. DOMAIN blobs \subseteq {0, 2, 5, 7, 65536} /\ \A s : SizeOf(blobs, s) \in Nat
  BY SignedBlobs
<1>2. SizeOf(blobs, 4096) = 0
  BY <1>1 DEF SizeOf
<1>3. \A i \in 1..6, j \in 1..6 : SlotOrder[i] = SlotOrder[j] => i = j
  BY SlotsInOrder
<1>4. slot \notin Written
  <2> SUFFICES ASSUME NEW i \in 1..(next - 1), slot = SlotOrder[i] PROVE FALSE
    BY DEF Written
  <2>1. i \in 1..6 /\ next \in 1..6 /\ i # next
    OBVIOUS
  <2> QED BY <2>1, <1>3
<1>5. Written' = Written \cup ({slot} \cap DOMAIN blobs)
  <2>1. 1..(next' - 1) = 1..(next - 1) \cup {next}
    OBVIOUS
  <2>2. Written' = {s \in DOMAIN blobs : \E i \in 1..(next' - 1) : s = SlotOrder[i]}
    BY DEF Written
  <2> QED BY <2>1, <2>2 DEF Written
<1>6. SizeLeft(next)' = SizeLeft(next + 1)
  BY DEF SizeLeft, SizeOf
<1>7. PICK a \in Nat, b \in Nat, c \in Nat, d \in Nat, e \in Nat :
         /\ a = SizeOf(blobs, 0) /\ b = SizeOf(blobs, 2) /\ c = SizeOf(blobs, 5)
         /\ d = SizeOf(blobs, 7) /\ e = SizeOf(blobs, 65536)
  BY <1>1
<1>8. \A n : SizeLeft(n) = (IF n <= 1 THEN a ELSE 0) + (IF n <= 2 THEN b ELSE 0)
                             + (IF n <= 3 THEN c ELSE 0) + (IF n <= 4 THEN d ELSE 0)
                             + (IF n <= 6 THEN e ELSE 0)
  BY <1>7 DEF SizeLeft
<1>9. SizeOf(blobs, slot) =
         CASE next = 1 -> a [] next = 2 -> b [] next = 3 -> c [] next = 4 -> d
           [] next = 5 -> 0 [] next = 6 -> e
  BY <1>2, <1>7, SlotsInOrder
<1>10. /\ SizeLeft(next) = SizeOf(blobs, slot) + SizeLeft(next + 1)
       /\ SizeLeft(next + 1) \in Nat
  BY <1>8, <1>9
<1> QED BY <1>4, <1>5, <1>6, <1>10

(* A slot without a blob is passed over. *)
LEMMA PassOver ==
    ASSUME BlobsInvariant, SuperInvariant, WriteBlob, SlotOrder[next] \notin DOMAIN blobs
    PROVE  SuperInvariant'
<1>1. /\ pc = "super" /\ next \in 1..6 /\ next' = next + 1 /\ blobs' = blobs
      /\ super' = super /\ indexOffset' = indexOffset /\ dataOffset' = dataOffset
      /\ pc' = IF next = 6 THEN "done" ELSE "super"
  BY SlotsInOrder DEF WriteBlob, SuperInvariant
<1>2. /\ Written' = Written
      /\ SizeLeft(next)' = SizeLeft(next) /\ Count' = Count
  <2>1. PICK slot : slot = SlotOrder[next]
    OBVIOUS
  <2>2. Written' = Written \cup ({slot} \cap DOMAIN blobs)
    BY <1>1, <2>1, NextSlot
  <2>3. SizeLeft(next) = SizeOf(blobs, slot) + SizeLeft(next + 1)
    BY <1>1, <2>1, NextSlot
  <2>4. SizeLeft(next + 1) \in Nat /\ SizeLeft(next)' = SizeLeft(next + 1)
    BY <1>1, <2>1, NextSlot
  <2>5. SizeOf(blobs, slot) = 0
    BY <2>1 DEF SizeOf
  <2> QED BY <1>1, <2>1, <2>2, <2>3, <2>4, <2>5 DEF Count
<1>3. IndexInPlace
  BY <1>1 DEF SuperInvariant
<1>4. IndexInPlace'
  <2>1. ASSUME NEW i \in 2..indexOffset PROVE EntryInPlace(super[i])'
    <3>1. EntryInPlace(super[i])
      BY <1>3 DEF IndexInPlace
    <3> QED BY <3>1, <1>1, <1>2 DEF EntryInPlace
  <2>2. super'[1] = [magic |-> "super", length |-> Len(super'), count |-> Count']
    BY <1>1, <1>2, <1>3 DEF IndexInPlace
  <2>3. indexOffset' = 1 + Cardinality(Written')
    BY <1>1, <1>2, <1>3 DEF IndexInPlace
  <2> QED BY <2>1, <2>2, <2>3, <1>1, <1>2, <1>3 DEF IndexInPlace
<1> QED BY <1>1, <1>2, <1>4 DEF SuperInvariant

(***************************************************************************)
(* An entry is written behind the entries before it and in front of all    *)
(* blobs, and a blob behind the blobs before it.                           *)
(***************************************************************************)
LEMMA WriteEntryAndBlob ==
    ASSUME BlobsInvariant, SuperInvariant, WriteBlob, SlotOrder[next] \in DOMAIN blobs
    PROVE  SuperInvariant'
<1>1. PICK slot : slot = SlotOrder[next]
  OBVIOUS
<1>2. PICK entry : entry = [slot |-> slot, offset |-> dataOffset]
  OBVIOUS
<1>3. PICK blob : blob = blobs[slot]
  OBVIOUS
<1>4. PICK cell : cell = <<entry>>
  OBVIOUS
<1>5. Len(cell) = 1 /\ cell[1] = entry
  BY <1>4
<1>6. /\ pc = "super" /\ next \in 1..6 /\ next' = next + 1 /\ blobs' = blobs
      /\ indexOffset' = indexOffset + 1 /\ dataOffset' = dataOffset + Len(blob)
      /\ super' = CopyTo(CopyTo(super, indexOffset, cell), dataOffset, blob)
      /\ pc' = IF next = 6 THEN "done" ELSE "super"
  BY <1>1, <1>2, <1>3, <1>4, SlotsInOrder DEF WriteBlob, SuperInvariant
<1>7. /\ IndexInPlace /\ 1 + Count <= dataOffset /\ dataOffset \in Nat
      /\ Len(super) = dataOffset + SizeLeft(next)
  BY <1>6 DEF SuperInvariant
<1>8. /\ Count \in Nat /\ IsFiniteSet(DOMAIN blobs) /\ slot \in DOMAIN blobs
      /\ Len(blob) \in Nat \ {0} /\ SizeOf(blobs, slot) = Len(blob)
  BY <1>1, <1>3, <1>6, SignedBlobs DEF SizeOf
<1>9. /\ slot \notin Written /\ Written' = Written \cup {slot} /\ Count' = Count
      /\ SizeLeft(next) = Len(blob) + SizeLeft(next + 1)
      /\ SizeLeft(next + 1) \in Nat /\ SizeLeft(next)' = SizeLeft(next + 1)
  <2>1. /\ slot \notin Written
        /\ Written' = Written \cup ({slot} \cap DOMAIN blobs)
    BY <1>1, <1>6, NextSlot
  <2>2. /\ SizeLeft(next) = SizeOf(blobs, slot) + SizeLeft(next + 1)
        /\ SizeLeft(next + 1) \in Nat /\ SizeLeft(next)' = SizeLeft(next + 1)
    BY <1>1, <1>6, NextSlot
  <2>3. {slot} \cap DOMAIN blobs = {slot}
    BY <1>8
  <2> QED BY <2>1, <2>2, <2>3, <1>6, <1>8 DEF Count
<1>10. /\ Cardinality(Written) \in Nat
       /\ Cardinality(Written') = Cardinality(Written) + 1
       /\ Cardinality(Written) + 1 <= Count
  <2>1. Written \in SUBSET DOMAIN blobs /\ Written' \in SUBSET DOMAIN blobs
    BY <1>8, <1>9 DEF Written
  <2>2. IsFiniteSet(Written)
    BY <2>1, <1>8, FS_Subset
  <2>3. Cardinality(Written) \in Nat
    BY <2>2, FS_CardinalityType
  <2>4. Cardinality(Written') = Cardinality(Written) + 1
    BY <2>2, <1>9, FS_AddElement
  <2>5. Cardinality(Written') <= Count
    BY <2>1, <1>8, FS_Subset DEF Count
  <2> QED BY <2>3, <2>4, <2>5
<1>11. /\ indexOffset = 1 + Cardinality(Written) /\ indexOffset \in Nat \ {0}
       /\ indexOffset <= Count
  BY <1>7, <1>8, <1>10 DEF IndexInPlace
<1>12. /\ Len(super) \in Nat /\ dataOffset + Len(blob) <= Len(super)
       /\ dataOffset + Len(blob) \in Nat
  BY <1>7, <1>8, <1>9
<1>13. Len(super') = Len(super)
  <2>1. Len(CopyTo(super, indexOffset, cell)) = Len(super)
    BY <1>12, LenCopied
  <2> QED BY <2>1, <1>6, <1>12, LenCopied
<1>14. ASSUME NEW p \in 1..Len(super)
       PROVE  super'[p] = IF p > dataOffset /\ p <= dataOffset + Len(blob)
                          THEN blob[p - dataOffset]
                          ELSE IF p = indexOffset + 1 THEN entry ELSE super[p]
  <2> DEFINE s == CopyTo(super, indexOffset, cell)
  <2>1. s[p] = IF p > indexOffset /\ p <= indexOffset + 1
               THEN cell[p - indexOffset] ELSE super[p]
    BY <1>5, <1>12, CopiedCells
  <2>2. s[p] = IF p = indexOffset + 1 THEN entry ELSE super[p]
    <3> HIDE DEF s
    <3>1. CASE p = indexOffset + 1
      <4>1. p > indexOffset /\ p <= indexOffset + 1 /\ p - indexOffset = 1
        BY <3>1, <1>11
      <4> QED BY <4>1, <2>1, <1>5, <3>1
    <3>2. CASE p # indexOffset + 1
      <4>1. ~(p > indexOffset /\ p <= indexOffset + 1)
        BY <3>2, <1>11, <1>12
      <4> QED BY <4>1, <2>1, <3>2
    <3> QED BY <3>1, <3>2
  <2>3. Len(s) = Len(super)
    BY <1>12, LenCopied
  <2>4. super' = CopyTo(s, dataOffset, blob)
    BY <1>6
  <2> HIDE DEF s
  <2> QED BY <2>2, <2>3, <2>4, <1>12, CopiedCells
<1>15. \A i \in 1..indexOffset : super'[i] = super[i]
  <2> SUFFICES ASSUME NEW i \in 1..indexOffset PROVE super'[i] = super[i]
    OBVIOUS
  <2>1. i \in 1..Len(super) /\ ~(i > dataOffset) /\ i # indexOffset + 1
    BY <1>7, <1>8, <1>11, <1>12
  <2> QED BY <2>1, <1>14
<1>16. super'[indexOffset + 1] = entry
  <2>1. PICK i \in 1..Len(super) : i = indexOffset + 1
    BY <1>7, <1>8, <1>11, <1>12
  <2>2. ~(i > dataOffset)
    BY <2>1, <1>7, <1>8, <1>11
  <2> QED BY <2>1, <2>2, <1>14
<1>17. ASSUME NEW i \in 2..indexOffset PROVE EntryInPlace(super[i])'
  <2>1. PICK e : e = super[i]
    OBVIOUS
  <2>2. EntryInPlace(e) /\ super'[i] = e
    <3>1. i \in 1..indexOffset
      BY <1>11
    <3> QED BY <3>1, <2>1, <1>7, <1>15 DEF IndexInPlace
  <2>3. /\ e = [slot |-> e.slot, offset |-> e.offset] /\ e.slot \in Written
        /\ e.offset \in Nat /\ 1 + Count <= e.offset
        /\ e.offset + Len(blobs[e.slot]) <= dataOffset
        /\ \A p \in 1..Len(blobs[e.slot]) : super[e.offset + p] = blobs[e.slot][p]
    BY <2>2 DEF EntryInPlace
  <2>4. Len(blobs[e.slot]) \in Nat
    BY <2>3, <1>6, SignedBlobs DEF Written
  <2>5. PICK off \in Nat, len \in Nat : off = e.offset /\ len = Len(blobs[e.slot])
    BY <2>3, <2>4
  <2>6. ASSUME NEW p \in 1..len PROVE super'[off + p] = super[off + p]
    <3>1. PICK k \in 1..Len(super) : k = off + p
      BY <2>3, <2>5, <1>7, <1>12
    <3>2. ~(k > dataOffset) /\ k # indexOffset + 1
      BY <3>1, <2>3, <2>5, <1>7, <1>8, <1>11
    <3> QED BY <3>1, <3>2, <1>14
  <2>7. e.offset + Len(blobs[e.slot]) <= dataOffset'
    BY <2>3, <2>5, <1>6, <1>7, <1>8
  <2>8. e.slot \in Written'
    BY <2>3, <1>9
  <2>9. \A p \in 1..Len(blobs[e.slot]) : super'[e.offset + p] = blobs[e.slot][p]
    BY <2>3, <2>5, <2>6
  <2>10. EntryInPlace(e)'
    BY <2>3, <2>7, <2>8, <2>9, <1>6, <1>9 DEF EntryInPlace
  <2> QED BY <2>2, <2>10
<1>18. EntryInPlace(entry)'
  <2>1. entry = [slot |-> entry.slot, offset |-> entry.offset]
        /\ entry.slot = slot /\ entry.offset = dataOffset
    BY <1>2
  <2>2. ASSUME NEW p \in 1..Len(blob) PROVE super'[dataOffset + p] = blob[p]
    <3>1. PICK k \in 1..Len(super) : k = dataOffset + p
      BY <1>7, <1>8, <1>12
    <3>2. k > dataOffset /\ k <= dataOffset + Len(blob) /\ k - dataOffset = p
      BY <3>1, <1>7, <1>8
    <3> QED BY <3>1, <3>2, <1>14
  <2>3. slot \in Written' /\ dataOffset + Len(blob) <= dataOffset'
    BY <1>6, <1>9, <1>12
  <2> QED BY <2>1, <2>2, <2>3, <1>3, <1>6, <1>7, <1>9 DEF EntryInPlace
<1>19. IndexInPlace'
  <2>1. super'[1] = [magic |-> "super", length |-> Len(super'), count |-> Count']
    <3>1. 1 \in 1..indexOffset
      BY <1>11
    <3> QED BY <3>1, <1>7, <1>9, <1>13, <1>15 DEF IndexInPlace
  <2>2. indexOffset' = 1 + Cardinality(Written')
    BY <1>6, <1>10, <1>11
  <2>3. \A i \in 2..indexOffset' : i \in 2..indexOffset \/ i = indexOffset + 1
    BY <1>6, <1>11
  <2>4. ASSUME NEW i \in 2..indexOffset' PROVE EntryInPlace(super[i])'
    <3>1. CASE i \in 2..indexOffset   BY <3>1, <1>17
    <3>2. CASE i = indexOffset + 1
      <4>1. super'[i] = entry
        BY <3>2, <1>16
      <4> QED BY <4>1, <1>18 DEF EntryInPlace
    <3> QED BY <3>1, <3>2, <2>3
  <2>5. \A i \in 2..indexOffset : super'[i].slot \in Written /\ super'[i] = super[i]
    <3>1. \A i \in 2..indexOffset : i \in 1..indexOffset
      BY <1>11
    <3>2. \A i \in 2..indexOffset : super[i].slot \in Written
      BY <1>7 DEF IndexInPlace, EntryInPlace
    <3> QED BY <3>1, <3>2, <1>15
  <2>6. super'[indexOffset + 1].slot = slot /\ indexOffset + 1 \in 2..indexOffset'
    BY <1>2, <1>6, <1>11, <1>16
  <2>7. \A s \in Written' : \E i \in 2..indexOffset' : super'[i].slot = s
    <3>1. \A i \in 2..indexOffset : i \in 2..indexOffset'
      BY <1>6, <1>11
    <3> QED BY <3>1, <2>5, <2>6, <1>7, <1>9 DEF IndexInPlace
  <2>8. ASSUME NEW i \in 2..indexOffset', NEW j \in 2..indexOffset',
               super'[i].slot = super'[j].slot
        PROVE  i = j
    <3>1. CASE i \in 2..indexOffset /\ j \in 2..indexOffset
      BY <3>1, <2>5, <2>8, <1>7 DEF IndexInPlace
    <3>2. CASE i = indexOffset + 1 \/ j = indexOffset + 1
      BY <3>2, <2>3, <2>5, <2>6, <2>8, <1>9
    <3> QED BY <3>1, <3>2, <2>3
  <2> QED BY <2>1, <2>2, <2>4, <2>7, <2>8 DEF IndexInPlace
<1>20. Len(super') = dataOffset' + SizeLeft(next)'
  BY <1>6, <1>7, <1>8, <1>9, <1>13
<1>21. dataOffset' \in Nat /\ 1 + Count' <= dataOffset'
  BY <1>6, <1>7, <1>8, <1>9
<1> QED BY <1>6, <1>19, <1>20, <1>21 DEF SuperInvariant

(* The SuperBlob is not begun before it is assembled, nor changed after. *)
LEMMA SuperIsKept ==
    ASSUME DirectoryInvariant, SuperInvariant,
           \/ BuildBlobs \/ BeginDirectory \/ (\E s \in 1..7 : WriteSpecial(s))
           \/ WritePages \/ Sign \/ UNCHANGED vars
    PROVE  SuperInvariant'
<1>1. /\ super' = super /\ next' = next
      /\ indexOffset' = indexOffset /\ dataOffset' = dataOffset
  BY DEF BuildBlobs, BeginDirectory, WriteSpecial, WritePages, Sign, vars, assembly
<1>2. CASE UNCHANGED vars
  <2>1. pc' = pc /\ blobs' = blobs
    BY <1>2 DEF vars
  <2>2. /\ IndexInPlace' = IndexInPlace /\ Count' = Count
        /\ SizeLeft(next)' = SizeLeft(next)
    BY <2>1, <1>1 DEF IndexInPlace, EntryInPlace, Written, Count, SizeLeft
  <2> QED BY <2>1, <2>2, <1>1 DEF SuperInvariant
<1>3. CASE ~UNCHANGED vars
  <2>1. pc \notin {"super", "done"} /\ pc' \notin {"super", "done"}
    BY <1>3 DEF BuildBlobs, BeginDirectory, WriteSpecial, WritePages, Sign
  <2> QED BY <2>1, <1>1 DEF SuperInvariant
<1> QED BY <1>2, <1>3

(***************************************************************************)
(* While the SuperBlob is assembled, each entry of its index leads to the  *)
(* blob of its slot, and there is room for the slots that are left.        *)
(***************************************************************************)
LEMMA SuperInvariantHolds == Spec => []SuperInvariant
<1>1. Init => SuperInvariant
  BY DEF Init, SuperInvariant
<1>2. DirectoryInvariant /\ BlobsInvariant /\ SuperInvariant /\ [Next]_vars
        => SuperInvariant'
  <2> SUFFICES ASSUME DirectoryInvariant, BlobsInvariant, SuperInvariant, [Next]_vars
               PROVE  SuperInvariant'
    OBVIOUS
  <2>1. CASE BeginSuper   BY <2>1, BeginSuperStep
  <2>2. CASE WriteBlob   BY <2>2, PassOver, WriteEntryAndBlob
  <2>3. CASE \/ BuildBlobs \/ BeginDirectory \/ (\E s \in 1..7 : WriteSpecial(s))
             \/ WritePages \/ Sign \/ UNCHANGED vars
    BY <2>3, SuperIsKept
  <2> QED BY <2>1, <2>2, <2>3 DEF Next, Done
<1> QED BY <1>1, <1>2, DirectoryInvariantHolds, BlobsInvariantHolds, PTL DEF Spec

(* In the finished SuperBlob the index has an entry for every blob. *)
LEMMA FinishedIndex ==
    ASSUME BlobsInvariant, SuperInvariant, pc = "done"
    PROVE  /\ super[1].length = Len(super) /\ super[1].count = Count
           /\ Entries(super) = {super[i] : i \in 2..(1 + Count)}
           /\ Written = DOMAIN blobs
           /\ \A i \in 2..(1 + Count) : EntryInPlace(super[i])
           /\ \A s \in DOMAIN blobs : \E i \in 2..(1 + Count) : super[i].slot = s
           /\ \A i, j \in 2..(1 + Count) : super[i].slot = super[j].slot => i = j
<1>1. /\ next = 7 /\ IndexInPlace /\ dataOffset \in Nat
      /\ DOMAIN blobs \subseteq {0, 2, 5, 7, 65536}
  BY SignedBlobs DEF SuperInvariant
<1>2. Written = DOMAIN blobs
  <2>1. \A s \in DOMAIN blobs : \E i \in 1..6 : s = SlotOrder[i]
    BY <1>1, SlotsInOrder
  <2>2. next - 1 = 6
    BY <1>1
  <2> QED BY <2>1, <2>2 DEF Written
<1>3. indexOffset = 1 + Count
  BY <1>1, <1>2 DEF IndexInPlace, Count
<1>4. super[1].length = Len(super) /\ super[1].count = Count
  BY <1>1 DEF IndexInPlace
<1>5. \A i \in 2..(1 + Count) : EntryInPlace(super[i])
  BY <1>1, <1>3 DEF IndexInPlace
<1>6. ASSUME NEW i \in 2..(1 + Count) PROVE "slot" \in DOMAIN super[i]
  <2>1. PICK slot, offset : super[i] = [slot |-> slot, offset |-> offset]
    BY <1>5 DEF EntryInPlace
  <2> QED BY <2>1
<1>7. Entries(super) = {super[i] : i \in 2..(1 + Count)}
  BY <1>4, <1>6 DEF Entries
<1> QED BY <1>1, <1>2, <1>3, <1>4, <1>5, <1>7 DEF IndexInPlace

(* What a verifier finds for a slot is its blob, if it has one. *)
LEMMA FinishedBlobs ==
    ASSUME BlobsInvariant, SuperInvariant, pc = "done"
    PROVE  /\ \A s \in DOMAIN blobs : BlobsIn(super, s) = {blobs[s]}
           /\ \A s : s \notin DOMAIN blobs => BlobsIn(super, s) = {}
<1>1. ASSUME NEW i \in 2..(1 + Count)
      PROVE  /\ super[i].slot \in DOMAIN blobs
             /\ Cells(super, super[i].offset, super[super[i].offset + 1].length)
                  = blobs[super[i].slot]
  <2>1. PICK e : e = super[i]
    OBVIOUS
  <2>2. EntryInPlace(e) /\ Written = DOMAIN blobs
    BY <2>1, FinishedIndex
  <2>3. /\ e.slot \in DOMAIN blobs /\ e.offset \in Nat
        /\ \A p \in 1..Len(blobs[e.slot]) : super[e.offset + p] = blobs[e.slot][p]
    BY <2>2 DEF EntryInPlace
  <2>4. PICK b : b = blobs[e.slot]
    OBVIOUS
  <2>5. IsBlob(b) /\ Len(b) \in Nat \ {0}
    BY <2>3, <2>4, SignedBlobs
  <2>6. super[e.offset + 1].length = Len(b)
    <3>1. 1 \in 1..Len(b)
      BY <2>5
    <3>2. super[e.offset + 1] = b[1]
      BY <3>1, <2>3, <2>4
    <3> QED BY <3>2, <2>5 DEF IsBlob
  <2>7. Cells(super, e.offset, Len(b)) = b
    <3>1. \A p \in 1..Len(b) : super[e.offset + p] = b[p]
      BY <2>3, <2>4
    <3>2. IsCells(b)
      BY <2>5 DEF IsBlob
    <3> QED BY <3>1, <3>2, <2>3, CellsAreRead
  <2> QED BY <2>1, <2>3, <2>4, <2>6, <2>7
<1>2. Entries(super) = {super[i] : i \in 2..(1 + Count)}
  BY FinishedIndex
<1>3. ASSUME NEW s \in DOMAIN blobs PROVE BlobsIn(super, s) = {blobs[s]}
  <2>1. PICK i \in 2..(1 + Count) : super[i].slot = s
    BY FinishedIndex
  <2>2. blobs[s] \in BlobsIn(super, s)
    BY <2>1, <1>1, <1>2 DEF BlobsIn
  <2>3. \A b \in BlobsIn(super, s) : b = blobs[s]
    BY <1>1, <1>2 DEF BlobsIn
  <2> QED BY <2>2, <2>3
<1>4. ASSUME NEW s, s \notin DOMAIN blobs PROVE BlobsIn(super, s) = {}
  BY <1>1, <1>2, <1>4 DEF BlobsIn
<1> QED BY <1>3, <1>4

(***************************************************************************)
(* superblob.go:11-66: whatever the sizes of the blobs and whichever of    *)
(* them there are, the index leads to each of them, to nothing else, and   *)
(* the SuperBlob is as long as it says.                                    *)
(***************************************************************************)
THEOREM SuperBlobIsReadBack == Spec => []SuperBlobReadsBack
<1>1. BlobsInvariant /\ SuperInvariant => SuperBlobReadsBack
  <2> SUFFICES ASSUME BlobsInvariant, SuperInvariant, pc = "done"
               PROVE  SuperBlobReadsBack!2
    BY DEF SuperBlobReadsBack
  <2> DEFINE f == [i \in 2..(1 + Count) |-> super[i]]
  <2>1. Count \in Nat
    BY SignedBlobs
  <2>2. Cardinality(Entries(super)) = Count
    <3>1. f \in Bijection(2..(1 + Count), Entries(super))
      <4>1. /\ Entries(super) = {super[i] : i \in 2..(1 + Count)}
            /\ \A i, j \in 2..(1 + Count) : super[i] = super[j] => i = j
        BY FinishedIndex
      <4>2. f \in [2..(1 + Count) -> Entries(super)]
        BY <4>1
      <4>3. \A i, j \in 2..(1 + Count) : f[i] = f[j] => i = j
        BY <4>1
      <4>4. \A e \in Entries(super) : \E i \in 2..(1 + Count) : f[i] = e
        BY <4>1
      <4> HIDE DEF f
      <4> QED BY <4>2, <4>3, <4>4 DEF Bijection, Injection, Surjection, IsInjective
    <3>2. IsFiniteSet(2..(1 + Count)) /\ Cardinality(2..(1 + Count)) = Count
      BY <2>1, FS_Interval
    <3> HIDE DEF f
    <3> QED BY <3>1, <3>2, FS_Bijection DEF ExistsBijection
  <2>3. {e.slot : e \in Entries(super)} = DOMAIN blobs
    <3>1. \A i \in 2..(1 + Count) : super[i].slot \in DOMAIN blobs
      <4>1. \A i \in 2..(1 + Count) : super[i].slot \in Written
        BY FinishedIndex DEF EntryInPlace
      <4> QED BY <4>1, FinishedIndex
    <3>2. \A s \in DOMAIN blobs : \E i \in 2..(1 + Count) : super[i].slot = s
      BY FinishedIndex
    <3>3. Entries(super) = {super[i] : i \in 2..(1 + Count)}
      BY FinishedIndex
    <3> QED BY <3>1, <3>2, <3>3
  <2> QED BY <2>2, <2>3, FinishedIndex, FinishedBlobs
<1> QED BY <1>1, BlobsInvariantHolds, SuperInvariantHolds, PTL

-----------------------------------------------------------------------------
(* encodeCertificates writes each of three certificates, and none twice. *)
LEMMA EncodedCertificates ==
    ASSUME NEW c1, NEW c2, NEW c3, c1 # c2
    PROVE  encodeCertificates(<<c1, c2, c3>>) =
             IF c3 \in {c1, c2} THEN <<c1, c2>> ELSE <<c1, c2, c3>>
<1> DEFINE chain == <<c1, c2, c3>>
           last == IF c3 \in {c1, c2} THEN <<c1, c2>> ELSE <<c1, c2, c3>>
           Encoded(f) ==
             f = [n \in 0..Len(chain) |->
                    IF n = 0 THEN <<>>
                    ELSE IF Contains(f[n - 1], chain[n]) THEN f[n - 1]
                    ELSE Append(f[n - 1], chain[n])]
           encoded == CHOOSE f : Encoded(f)
<1>1. /\ Len(chain) = 3 /\ chain[1] = c1 /\ chain[2] = c2 /\ chain[3] = c3
  OBVIOUS
<1>2. /\ ~Contains(<<>>, c1) /\ ~Contains(<<c1>>, c2)
      /\ Contains(<<c1, c2>>, c3) <=> c3 \in {c1, c2}
  BY DEF Contains
<1>3. /\ Append(<<>>, c1) = <<c1>> /\ Append(<<c1>>, c2) = <<c1, c2>>
      /\ Append(<<c1, c2>>, c3) = <<c1, c2, c3>>
  <2> DEFINE S == {c1, c2, c3}
  <2>1. /\ <<c1>> \in Seq(S) /\ <<c1, c2>> \in Seq(S) /\ <<c1, c2, c3>> \in Seq(S)
        /\ c2 \in S /\ c3 \in S
    OBVIOUS
  <2>2. Append(<<>>, c1) = <<c1>>
    OBVIOUS
  <2>3. Append(<<c1>>, c2) = <<c1, c2>>
    <3>1. PICK r : r = Append(<<c1>>, c2)
      OBVIOUS
    <3>2. r \in Seq(S) /\ Len(r) = 2 /\ r[1] = c1 /\ r[2] = c2
      BY <3>1, <2>1, AppendProperties
    <3>3. PICK t : t = <<c1, c2>>
      OBVIOUS
    <3>4. t \in Seq(S) /\ Len(t) = 2 /\ t[1] = c1 /\ t[2] = c2
      BY <3>3, <2>1
    <3>5. \A i \in 1..2 : r[i] = t[i]
      BY <3>2, <3>4
    <3> QED BY <3>1, <3>2, <3>3, <3>4, <3>5, SeqEqual
  <2>4. Append(<<c1, c2>>, c3) = <<c1, c2, c3>>
    <3>1. PICK r : r = Append(<<c1, c2>>, c3)
      OBVIOUS
    <3>2. r \in Seq(S) /\ Len(r) = 3 /\ r[1] = c1 /\ r[2] = c2 /\ r[3] = c3
      BY <3>1, <2>1, AppendProperties
    <3>3. PICK t : t = <<c1, c2, c3>>
      OBVIOUS
    <3>4. t \in Seq(S) /\ Len(t) = 3 /\ t[1] = c1 /\ t[2] = c2 /\ t[3] = c3
      BY <3>3, <2>1
    <3>5. \A i \in 1..3 : r[i] = t[i]
      BY <3>2, <3>4
    <3> QED BY <3>1, <3>2, <3>3, <3>4, <3>5, SeqEqual
  <2> QED BY <2>2, <2>3, <2>4
<1> DEFINE e1 == <<c1>>
           e2 == <<c1, c2>>
<1>p. 1 - 1 = 0 /\ 2 - 1 = 1 /\ 3 - 1 = 2 /\ 1 # 0 /\ 2 # 0 /\ 3 # 0
  OBVIOUS
<1>c. /\ ~Contains(<<>>, c1) /\ Append(<<>>, c1) = e1
      /\ ~Contains(e1, c2) /\ Append(e1, c2) = e2
      /\ last = IF Contains(e2, c3) THEN e2 ELSE Append(e2, c3)
  BY <1>2, <1>3
<1>4. \E f : Encoded(f)
  <2> DEFINE w == [n \in 0..3 |-> IF n = 0 THEN <<>> ELSE IF n = 1 THEN <<c1>>
                                  ELSE IF n = 2 THEN <<c1, c2>> ELSE last]
  <2>1. /\ w[0] = <<>> /\ w[1] = e1 /\ w[2] = e2 /\ w[3] = last
        /\ w = [n \in 0..3 |-> w[n]]
    OBVIOUS
  <2> DEFINE next1(n) == IF n = 0 THEN <<>>
                         ELSE IF Contains(w[n - 1], chain[n]) THEN w[n - 1]
                         ELSE Append(w[n - 1], chain[n])
  <2> HIDE DEF w, chain, e1, e2, last
  <2>2. \A n \in 0..3 : w[n] = next1(n)
    <3>1. next1(0) = w[0]
      BY <2>1
    <3>2. next1(1) = w[1]
      BY <2>1, <1>1, <1>c, <1>p
    <3>3. next1(2) = w[2]
      BY <2>1, <1>1, <1>c, <1>p
    <3>4. next1(3) = w[3]
      BY <2>1, <1>1, <1>c, <1>p
    <3> HIDE DEF next1
    <3> QED BY <3>1, <3>2, <3>3, <3>4
  <2>3. Encoded(w)
    <3>1. w = [n \in 0..3 |-> next1(n)]
      <4> HIDE DEF next1
      <4> QED BY <2>1, <2>2
    <3> QED BY <3>1, <1>1
  <2> QED BY <2>3
<1>5. Encoded(encoded)
  <2> HIDE DEF Encoded
  <2> QED BY <1>4
<1>6. encodeCertificates(chain) = encoded[3]
  BY <1>1 DEF encodeCertificates
<1> HIDE DEF encoded, chain, e1, e2, last
<1>7. \A n \in 0..3 :
         encoded[n] = IF n = 0 THEN <<>>
                      ELSE IF Contains(encoded[n - 1], chain[n]) THEN encoded[n - 1]
                      ELSE Append(encoded[n - 1], chain[n])
  BY <1>1, <1>5
<1>8. encoded[0] = <<>>
  BY <1>7
<1>9. encoded[1] = e1
  <2>1. encoded[1] = IF Contains(encoded[0], c1) THEN encoded[0]
                     ELSE Append(encoded[0], c1)
    BY <1>1, <1>p, <1>7
  <2> QED BY <2>1, <1>c, <1>8
<1>10. encoded[2] = e2
  <2>1. encoded[2] = IF Contains(encoded[1], c2) THEN encoded[1]
                     ELSE Append(encoded[1], c2)
    BY <1>1, <1>p, <1>7
  <2> QED BY <2>1, <1>c, <1>9
<1>11. encoded[3] = last
  <2>1. encoded[3] = IF Contains(encoded[2], c3) THEN encoded[2]
                     ELSE Append(encoded[2], c3)
    BY <1>1, <1>p, <1>7
  <2> QED BY <2>1, <1>c, <1>10
<1> QED BY <1>6, <1>11 DEF chain, last

(* The message that is made with the identity in a PKCS#12 file. *)
MessageOf(p12, digest) ==
    LET identity == LoadP12(p12)
    IN  GenerateCMS(identity, BuildFullCertChain(identity.certChain), digest)

(* A certificate that is not one of Apple's is not taken for one. *)
NoneOfApples(leaf) ==
    \A c \in {AppleRoot, AppleWWDRG3} : SameNumber(leaf, c) \/ leaf.name = c.name => leaf = c

(* The message has Apple's certificates and the signer's, each once, and   *)
(* names the signer's.                                                     *)
LEMMA MessageCertificates ==
    ASSUME NEW p12, NEW digest, NoneOfApples(Head(p12.certs)), Len(p12.certs) > 0
    PROVE  LET leaf == Head(p12.certs)
               cms == MessageOf(p12, digest)
               attrs == buildSignedAttrs(digest)
           IN  /\ cms.certificates = IF leaf \in {AppleWWDRG3, AppleRoot}
                                     THEN <<AppleWWDRG3, AppleRoot>>
                                     ELSE <<AppleWWDRG3, AppleRoot, leaf>>
               /\ Range(cms.certificates) = {AppleWWDRG3, AppleRoot, leaf}
               /\ IsInjective(cms.certificates)
               /\ Signers(cms) = {leaf}
               /\ cms.signerInfo.signedAttrs = [tag |-> "[0]", content |-> attrs]
               /\ cms.signerInfo.signature
                     = [by |-> p12.key, of |-> [tag |-> "SET", content |-> attrs]]
               /\ cms.signerInfo.signatureAlgorithm = SignatureAlgorithm(leaf)
<1> DEFINE identity == LoadP12(p12)
           leaf == Head(p12.certs)
           chain == <<AppleWWDRG3, AppleRoot, leaf>>
           attrs == buildSignedAttrs(digest)
           cms == MessageOf(p12, digest)
<1>1. /\ identity.certificate = leaf /\ identity.privateKey = p12.key
      /\ identity.certChain = p12.certs
  BY DEF LoadP12
<1>2. BuildFullCertChain(identity.certChain) = chain
  <2>1. p12.certs[1] = Head(p12.certs)
    OBVIOUS
  <2> QED BY <2>1, <1>1 DEF BuildFullCertChain
<1>3. /\ cms.certificates = encodeCertificates(chain)
      /\ cms.signerInfo.issuer = leaf.issuer /\ cms.signerInfo.serial = leaf.serial
      /\ cms.signerInfo.signedAttrs = [tag |-> "[0]", content |-> attrs]
      /\ cms.signerInfo.signature = [by |-> p12.key, of |-> [tag |-> "SET", content |-> attrs]]
      /\ cms.signerInfo.signatureAlgorithm = SignatureAlgorithm(leaf)
  BY <1>1, <1>2 DEF MessageOf, GenerateCMS, buildSignerInfo, encodeSignedAttrsForSigning
<1>4. ~SameNumber(AppleWWDRG3, AppleRoot) /\ AppleWWDRG3 # AppleRoot
  <2>1. AppleWWDRG3.serial = 3 /\ AppleRoot.serial = 2
    BY DEF AppleWWDRG3, AppleRoot
  <2> QED BY <2>1 DEF SameNumber
<1> DEFINE certificates == encodeCertificates(chain)
<1>5. certificates = IF leaf \in {AppleWWDRG3, AppleRoot}
                     THEN <<AppleWWDRG3, AppleRoot>> ELSE chain
  BY <1>4, EncodedCertificates
<1>6. Range(certificates) = {AppleWWDRG3, AppleRoot, leaf}
  <2>1. Range(<<AppleWWDRG3, AppleRoot>>) = {AppleWWDRG3, AppleRoot}
    BY DEF Range
  <2>2. Range(chain) = {AppleWWDRG3, AppleRoot, leaf}
    BY DEF Range
  <2> HIDE DEF certificates, chain, leaf
  <2> QED BY <2>1, <2>2, <1>5
<1>7. IsInjective(certificates)
  <2>1. IsInjective(<<AppleWWDRG3, AppleRoot>>)
    BY <1>4 DEF IsInjective
  <2>2. leaf \notin {AppleWWDRG3, AppleRoot} => IsInjective(chain)
    BY <1>4 DEF IsInjective
  <2> HIDE DEF certificates, chain, leaf
  <2> QED BY <2>1, <2>2, <1>5
<1> HIDE DEF certificates, cms, identity
<1>8. Signers(cms) = {leaf}
  <2>1. Signers(cms) = {c \in {AppleWWDRG3, AppleRoot, leaf} :
                           c.issuer = leaf.issuer /\ c.serial = leaf.serial}
    BY <1>3, <1>6 DEF Signers, certificates
  <2>2. NoneOfApples(leaf)
    OBVIOUS
  <2> HIDE DEF leaf, chain
  <2>3. \A c \in {AppleRoot, AppleWWDRG3} :
           c.issuer = leaf.issuer /\ c.serial = leaf.serial => c = leaf
    BY <2>2 DEF SameNumber, NoneOfApples
  <2> QED BY <2>1, <2>3
<1>9. cms.certificates = certificates
  BY <1>3 DEF certificates
<1> QED BY <1>3, <1>5, <1>6, <1>7, <1>8, <1>9 DEF cms

(* One certificate appended to another, and a third to both. *)
LEMMA AppendedPairs ==
    \A a, b, c : Append(<<a>>, b) = <<a, b>> /\ Append(<<a, b>>, c) = <<a, b, c>>
<1> SUFFICES ASSUME NEW a, NEW b, NEW c
             PROVE  Append(<<a>>, b) = <<a, b>> /\ Append(<<a, b>>, c) = <<a, b, c>>
  OBVIOUS
<1> DEFINE S == {a, b, c}
<1>1. <<a>> \in Seq(S) /\ <<a, b>> \in Seq(S) /\ <<a, b, c>> \in Seq(S) /\ b \in S /\ c \in S
  OBVIOUS
<1>2. Append(<<a>>, b) = <<a, b>>
  <2>1. PICK r : r = Append(<<a>>, b)
    OBVIOUS
  <2>2. r \in Seq(S) /\ Len(r) = 2 /\ r[1] = a /\ r[2] = b
    BY <2>1, <1>1, AppendProperties
  <2>3. PICK t : t = <<a, b>>
    OBVIOUS
  <2>4. t \in Seq(S) /\ Len(t) = 2 /\ t[1] = a /\ t[2] = b
    BY <2>3, <1>1
  <2>5. \A i \in 1..2 : r[i] = t[i]
    BY <2>2, <2>4
  <2> QED BY <2>1, <2>2, <2>3, <2>4, <2>5, SeqEqual
<1>3. Append(<<a, b>>, c) = <<a, b, c>>
  <2>1. PICK r : r = Append(<<a, b>>, c)
    OBVIOUS
  <2>2. r \in Seq(S) /\ Len(r) = 3 /\ r[1] = a /\ r[2] = b /\ r[3] = c
    BY <2>1, <1>1, AppendProperties
  <2>3. PICK t : t = <<a, b, c>>
    OBVIOUS
  <2>4. t \in Seq(S) /\ Len(t) = 3 /\ t[1] = a /\ t[2] = b /\ t[3] = c
    BY <2>3, <1>1
  <2>5. \A i \in 1..3 : r[i] = t[i]
    BY <2>2, <2>4
  <2> QED BY <2>1, <2>2, <2>3, <2>4, <2>5, SeqEqual
<1> QED BY <1>2, <1>3

(* From a leaf that WWDR G3 issued, the path goes to Apple's root. *)
LEMMA PathOfLeaf ==
    ASSUME NEW leaf, NoneOfApples(leaf), leaf.issuer = AppleWWDRG3.name, NEW cms,
           cms.certificates = <<AppleWWDRG3, AppleRoot, leaf>>
    PROVE  PathFrom(cms, leaf) = <<leaf, AppleWWDRG3, AppleRoot>>
<1> DEFINE found(c) == {i \in Range(cms.certificates) : i.name = c.issuer /\ i # c}
           Step(f, n) == IF n = 0 THEN <<leaf>>
                         ELSE IF found(f[n - 1][Len(f[n - 1])]) = {} THEN f[n - 1]
                         ELSE Append(f[n - 1], CHOOSE i \in found(f[n - 1][Len(f[n - 1])]) : TRUE)
           Path(f) == f = [n \in 0..3 |-> Step(f, n)]
           path == CHOOSE f : Path(f)
<1>1. /\ AppleWWDRG3.name = "WWDR G3" /\ AppleWWDRG3.issuer = "Apple Root CA"
      /\ AppleRoot.name = "Apple Root CA" /\ AppleRoot.issuer = "Apple Root CA"
  BY DEF AppleWWDRG3, AppleRoot
<1>2. Range(cms.certificates) = {AppleWWDRG3, AppleRoot, leaf} /\ Len(cms.certificates) = 3
  <2>1. Range(<<AppleWWDRG3, AppleRoot, leaf>>) = {AppleWWDRG3, AppleRoot, leaf}
    BY DEF Range
  <2> QED BY <2>1
<1>3. AppleWWDRG3 # AppleRoot /\ leaf # AppleRoot /\ leaf # AppleWWDRG3
  BY <1>1
<1>4. leaf.name # "Apple Root CA" /\ leaf.name # "WWDR G3"
  BY <1>1, <1>3 DEF NoneOfApples
<1>5. /\ found(leaf) = {AppleWWDRG3} /\ found(AppleWWDRG3) = {AppleRoot}
      /\ found(AppleRoot) = {}
  BY <1>1, <1>2, <1>3, <1>4
<1> DEFINE w1 == <<leaf>>
           w2 == <<leaf, AppleWWDRG3>>
           w3 == <<leaf, AppleWWDRG3, AppleRoot>>
<1>6. /\ w1[Len(w1)] = leaf /\ w2[Len(w2)] = AppleWWDRG3 /\ w3[Len(w3)] = AppleRoot
  OBVIOUS
<1>7. Append(w1, AppleWWDRG3) = w2 /\ Append(w2, AppleRoot) = w3
  BY AppendedPairs
<1>8. /\ (CHOOSE i \in found(leaf) : TRUE) = AppleWWDRG3
      /\ (CHOOSE i \in found(AppleWWDRG3) : TRUE) = AppleRoot
  BY <1>5
<1>9. PathFrom(cms, leaf) = path[3]
  BY <1>2 DEF PathFrom
<1> HIDE DEF found, w1, w2, w3
<1>10. \E f : Path(f)
  <2> DEFINE w == [n \in 0..3 |-> IF n = 0 THEN w1 ELSE IF n = 1 THEN w2 ELSE w3]
  <2>1. /\ w[0] = w1 /\ w[1] = w2 /\ w[2] = w3 /\ w[3] = w3
        /\ w = [n \in 0..3 |-> w[n]]
    OBVIOUS
  <2> HIDE DEF w
  <2>2. \A n \in 0..3 : w[n] = Step(w, n)
    <3>1. w[0] = Step(w, 0)
      BY <2>1 DEF w1
    <3>2. w[1] = Step(w, 1)
      BY <2>1, <1>5, <1>6, <1>7, <1>8
    <3>3. w[2] = Step(w, 2)
      <4>1. 2 - 1 = 1 /\ 2 # 0
        OBVIOUS
      <4>2. w[1][Len(w[1])] = AppleWWDRG3
        BY <2>1, <1>6
      <4>3. Step(w, 2) = Append(w[1], AppleRoot)
        BY <4>1, <4>2, <1>5, <1>8
      <4> HIDE DEF Step
      <4> QED BY <4>3, <2>1, <1>7
    <3>4. w[3] = Step(w, 3)
      BY <2>1, <1>5, <1>6
    <3> HIDE DEF Step
    <3> QED BY <3>1, <3>2, <3>3, <3>4
  <2> HIDE DEF Step
  <2> QED BY <2>1, <2>2
<1>11. path = [n \in 0..3 |-> Step(path, n)]
  <2>1. Path(path)
    <3> HIDE DEF Path
    <3> QED BY <1>10
  <2> QED BY <2>1
<1> HIDE DEF path
<1>12. \A n \in 0..3 : path[n] = Step(path, n)
  <2> HIDE DEF Step
  <2> QED BY <1>11
<1>13. path[0] = w1
  BY <1>12 DEF w1
<1>14. path[1] = w2
  <2>1. path[1] = Step(path, 1) /\ 1 - 1 = 0
    BY <1>12
  <2>2. path[0][Len(path[0])] = leaf
    BY <1>6, <1>13
  <2> QED BY <2>1, <2>2, <1>13, <1>5, <1>7, <1>8
<1>15. path[2] = w3
  <2>1. path[2] = Step(path, 2) /\ 2 - 1 = 1
    BY <1>12
  <2> QED BY <2>1, <1>14, <1>5, <1>6, <1>7, <1>8
<1>16. path[3] = w3
  <2>1. path[3] = Step(path, 3) /\ 3 - 1 = 2
    BY <1>12
  <2> QED BY <2>1, <1>15, <1>5, <1>6
<1> QED BY <1>9, <1>16 DEF w3

(* The message names one signer, and was signed with the signer's key. *)
LEMMA MessageVerifies ==
    ASSUME NEW p12, NEW digest, BeginsWithLeaf(p12), NoneOfApples(Head(p12.certs)),
           Len(p12.certs) > 0
    PROVE  Verifies(MessageOf(p12, digest), digest)
<1> DEFINE leaf == Head(p12.certs)
           attrs == buildSignedAttrs(digest)
           cms == MessageOf(p12, digest)
<1>1. /\ IsInjective(cms.certificates) /\ Signers(cms) = {leaf}
      /\ cms.signerInfo.signedAttrs = [tag |-> "[0]", content |-> attrs]
      /\ cms.signerInfo.signature = [by |-> p12.key, of |-> [tag |-> "SET", content |-> attrs]]
      /\ cms.signerInfo.signatureAlgorithm = SignatureAlgorithm(leaf)
  BY MessageCertificates
<1>2. leaf.key = p12.key
  BY DEF BeginsWithLeaf
<1>3. /\ DOMAIN attrs = 1..3
      /\ attrs[1].length = 24 /\ attrs[2].length = 28 /\ attrs[3].length = 47
      /\ attrs[3].type = "messageDigest" /\ attrs[3].value = digest
  BY DEF buildSignedAttrs
<1> HIDE DEF attrs, cms, leaf
<1>4. \A i, j \in DOMAIN attrs : i < j => attrs[i].length < attrs[j].length
  BY <1>3
<1>5. \E a \in Range(attrs) : a.type = "messageDigest" /\ a.value = digest
  BY <1>3 DEF Range
<1>6. cms.signerInfo.signature.of = [cms.signerInfo.signedAttrs EXCEPT !.tag = "SET"]
  BY <1>1
<1>7. Cardinality(Signers(cms)) = 1
  BY <1>1, FS_Singleton
<1>8. \A c \in Signers(cms) :
         /\ c.key = cms.signerInfo.signature.by
         /\ cms.signerInfo.signatureAlgorithm \in
              IF c.algorithm = "RSA" THEN {"rsaEncryption"} ELSE {"ecdsaWithSHA256"}
  BY <1>1, <1>2 DEF SignatureAlgorithm
<1>9. cms.signerInfo.signedAttrs.content = attrs
  BY <1>1
<1> QED BY <1>1, <1>4, <1>5, <1>6, <1>7, <1>8, <1>9 DEF Verifies, cms

(* The directory in the SuperBlob is the one that was signed. *)
LEMMA FinishedSignature ==
    ASSUME DirectoryInvariant, BlobsInvariant, SuperInvariant, pc = "done"
    PROVE  /\ BlobsIn(super, CodeDirectorySlot) = {buf}
           /\ BlobsIn(super, CMSSlot) = {CMSBlob}
           /\ \A s \in {2, 5, 7} : /\ BlobsIn(super, s) = {} <=> s \notin DOMAIN special
                                   /\ \A b \in BlobsIn(super, s) :
                                         special[s] = Hash([blob |-> b])
<1>1. /\ Signed /\ ContentsHashed
  BY DEF BlobsInvariant
<1>2. \A s \in DOMAIN blobs : BlobsIn(super, s) = {blobs[s]}
  BY FinishedBlobs
<1>3. \A s : s \notin DOMAIN blobs => BlobsIn(super, s) = {}
  BY FinishedBlobs
<1>4. /\ BlobsIn(super, CodeDirectorySlot) = {buf}
      /\ BlobsIn(super, CMSSlot) = {CMSBlob}
  BY <1>1, <1>2 DEF Signed, CodeDirectorySlot, CMSSlot
<1>5. ASSUME NEW s \in {2, 5, 7}
      PROVE  /\ BlobsIn(super, s) = {} <=> s \notin DOMAIN special
             /\ \A b \in BlobsIn(super, s) : special[s] = Hash([blob |-> b])
  <2>1. s \in DOMAIN special <=> s \in DOMAIN blobs
    BY <1>1 DEF ContentsHashed
  <2>2. CASE s \notin DOMAIN blobs
    BY <2>1, <2>2, <1>3
  <2>3. CASE s \in DOMAIN blobs
    <3>1. special[s] = Hash([blob |-> blobs[s]])
      BY <2>1, <2>3, <1>1 DEF ContentsHashed
    <3>2. BlobsIn(super, s) = {blobs[s]}
      BY <2>3, <1>2
    <3> QED BY <3>1, <3>2, <2>1, <2>3
  <2> QED BY <2>2, <2>3
<1> QED BY <1>4, <1>5

(***************************************************************************)
(* signer.go:23-183: whichever blobs there are and whatever they say, each *)
(* is hashed where a verifier looks for its hash, and the message is over  *)
(* the directory that is embedded, by the certificate that it names.       *)
(***************************************************************************)
THEOREM SignatureAgrees == Spec => []SignatureAgreesWithItself
<1>1. DirectoryInvariant /\ BlobsInvariant /\ SuperInvariant => SignatureAgreesWithItself
  <2> SUFFICES ASSUME DirectoryInvariant, BlobsInvariant, SuperInvariant, pc = "done"
               PROVE  SignatureAgreesWithItself!2
    BY DEF SignatureAgreesWithItself
  <2>1. DirectoryReadsBack!2 /\ SpecialsTyped
    BY DirectoryInvariantReadsBack DEF DirectoryReadsBack, DirectoryInvariant
  <2>2. ASSUME NEW s \in {2, 5, 7}
        PROVE  IF BlobsIn(super, s) = {}
               THEN s <= buf[1].nSpecialSlots => SpecialSlot(buf, s) = Zeros(HashSize)
               ELSE /\ s <= buf[1].nSpecialSlots
                    /\ \A b \in BlobsIn(super, s) : SpecialSlot(buf, s) = Hash([blob |-> b])
    <3>1. /\ BlobsIn(super, s) = {} <=> s \notin DOMAIN special
          /\ \A b \in BlobsIn(super, s) : special[s] = Hash([blob |-> b])
      BY FinishedSignature
    <3>2. buf[1].nSpecialSlots \in Nat
      BY <2>1, SpecialSlotsTyped DEF DirectoryInvariant, HeaderInPlace
    <3>3. s \in DOMAIN special => s <= buf[1].nSpecialSlots
      BY <2>1
    <3>4. s <= buf[1].nSpecialSlots =>
             SpecialSlot(buf, s) = IF s \in DOMAIN special THEN special[s]
                                   ELSE Zeros(HashSize)
      <4>1. s <= buf[1].nSpecialSlots => s \in 1..buf[1].nSpecialSlots
        BY <3>2
      <4> QED BY <4>1, <2>1
    <3>5. CASE s \in DOMAIN special
      BY <3>1, <3>3, <3>4, <3>5
    <3>6. CASE s \notin DOMAIN special
      BY <3>1, <3>4, <3>6
    <3> QED BY <3>5, <3>6
  <2>3. ASSUME NEW cms \in BlobsIn(super, CMSSlot), HasMessage(request),
               BeginsWithLeaf(request.p12)
        PROVE  Verifies(cms[2].cms, Hash(buf))
    <3> DEFINE message == MessageOf(request.p12, Hash(buf))
    <3>1. cms = WrapBlob("CMS", <<[cms |-> message]>>)
      BY <2>3, FinishedSignature DEF CMSBlob, MessageOf
    <3>2. Verifies(message, Hash(buf))
      <4>1. NoneOfApples(Head(request.p12.certs)) /\ Len(request.p12.certs) > 0
        BY RequestsAssumption DEF DirectoryInvariant, NoneOfApples
      <4> QED BY <4>1, <2>3, MessageVerifies
    <3> HIDE DEF message
    <3>3. cms[2] = [cms |-> message]
      <4>1. PICK data : data = <<[cms |-> message]>>
        OBVIOUS
      <4>2. Len(data) = 1 /\ data[1] = [cms |-> message]
        BY <4>1
      <4>3. WrapBlob("CMS", data)[1 + 1] = data[1]
        BY <4>2, Wrapped
      <4> QED BY <4>1, <4>2, <4>3, <3>1
    <3> QED BY <3>2, <3>3
  <2> QED BY <2>2, <2>3, FinishedSignature
        DEF RequirementsSlot, EntitlementsSlot, DEREntitlementsSlot
<1> QED BY <1>1, DirectoryInvariantHolds, BlobsInvariantHolds, SuperInvariantHolds, PTL

(***************************************************************************)
(* signer.go:23-183: every blob is as long as its header says, whichever   *)
(* step it was made in, and none is made for a slot that is not written.   *)
(***************************************************************************)
THEOREM SignatureTypes == Spec => []TypeOK
<1>1. DirectoryInvariant /\ BlobsInvariant /\ SuperInvariant => TypeOK
  <2> SUFFICES ASSUME DirectoryInvariant, BlobsInvariant, SuperInvariant PROVE TypeOK
    OBVIOUS
  <2>1. DOMAIN blobs \subseteq {SlotOrder[i] : i \in DOMAIN SlotOrder}
    <3>1. DOMAIN blobs \subseteq {0, 2, 5, 7, 65536}
      BY DEF BlobsInvariant, Signed
    <3>2. DOMAIN SlotOrder = 1..6
      BY DEF SlotOrder
    <3> QED BY <3>1, <3>2, SlotsInOrder
  <2>2. \A s \in DOMAIN blobs : Len(blobs[s]) = blobs[s][1].length
    BY DEF BlobsInvariant, IsBlob
  <2>3. DOMAIN special \subseteq {1, 2, 3, 5, 7} /\ todo \subseteq DOMAIN special
    BY DEF DirectoryInvariant, SpecialsTyped, NoBlobs
  <2>4. buf # <<>> => Len(buf) = buf[1].length
    BY DEF DirectoryInvariant, HeaderInPlace, IsBlob
  <2>5. next \in 1..(Len(SlotOrder) + 1)
    BY SlotsInOrder DEF SuperInvariant, DirectoryInvariant
  <2> QED BY <2>1, <2>2, <2>3, <2>4, <2>5 DEF TypeOK, DirectoryInvariant
<1> QED BY <1>1, DirectoryInvariantHolds, BlobsInvariantHolds, SuperInvariantHolds, PTL

-----------------------------------------------------------------------------
(* What the blobs are made of, from step 3 on. *)
BlobsBuilt ==
    LET q == LocalOptions(request)
    IN  /\ 2 \in DOMAIN blobs /\ blobs[2] = BuildRequirements(BundleID(q), LeafCN(q))
        /\ 5 \in DOMAIN blobs <=> q.xml # {}
        /\ 5 \in DOMAIN blobs =>
              blobs[5] = WrapBlob("entitlements", <<[xml |-> CHOOSE x \in q.xml : TRUE]>>)
        /\ 7 \in DOMAIN blobs <=> DERContent(q) # {}
        /\ 7 \in DOMAIN blobs =>
              blobs[7] = WrapBlob("DER", CHOOSE x \in DERContent(q) : TRUE)
ContentsInvariant == pc # "blobs" => BlobsBuilt

(* BuildBlobs makes them. *)
LEMMA BlobsAreBuilt == ASSUME BuildBlobs PROVE ContentsInvariant'
<1> DEFINE q == LocalOptions(request)
           der == DERContent(q)
           slots == {2} \cup (IF q.xml = {} THEN {} ELSE {5}) \cup (IF der = {} THEN {} ELSE {7})
           r == BuildRequirements(BundleID(q), LeafCN(q))
           e == WrapBlob("entitlements", <<[xml |-> CHOOSE x \in q.xml : TRUE]>>)
           d == WrapBlob("DER", CHOOSE x \in der : TRUE)
<1>1. blobs' = [s \in slots |-> CASE s = 2 -> r [] s = 5 -> e [] s = 7 -> d]
  BY DEF BuildBlobs, RequirementsSlot, EntitlementsSlot, DEREntitlementsSlot
<1>2. request' = request
  BY DEF BuildBlobs
<1>3. BlobsBuilt' <=>
        /\ 2 \in DOMAIN blobs' /\ blobs'[2] = r
        /\ 5 \in DOMAIN blobs' <=> q.xml # {}
        /\ 5 \in DOMAIN blobs' => blobs'[5] = e
        /\ 7 \in DOMAIN blobs' <=> der # {}
        /\ 7 \in DOMAIN blobs' => blobs'[7] = d
  BY <1>2 DEF BlobsBuilt
<1> HIDE DEF q, r, e, d, der
<1>4. BlobsBuilt'
  BY <1>1, <1>3
<1> QED BY <1>4 DEF ContentsInvariant

(* No later step changes them. *)
LEMMA BlobsStayBuilt ==
    ASSUME BlobsInvariant, ContentsInvariant,
           \/ BeginDirectory \/ (\E s \in 1..7 : WriteSpecial(s)) \/ WritePages
           \/ Sign \/ BeginSuper \/ WriteBlob \/ UNCHANGED vars
    PROVE  ContentsInvariant'
<1>1. CASE UNCHANGED vars
  BY <1>1 DEF vars, ContentsInvariant, BlobsBuilt
<1>2. CASE Sign
  <2>1. /\ \E cms : blobs' = Put(Put(blobs, 0, buf), 65536, cms)
        /\ request' = request /\ pc = "cms"
    BY <1>2 DEF Sign, CodeDirectorySlot, CMSSlot
  <2>2. \A s \in {2, 5, 7} : /\ s \in DOMAIN blobs' <=> s \in DOMAIN blobs
                             /\ s \in DOMAIN blobs => blobs'[s] = blobs[s]
    BY <2>1 DEF Put
  <2>3. BlobsBuilt
    BY <2>1 DEF ContentsInvariant
  <2>4. BlobsBuilt'
    BY <2>1, <2>2, <2>3 DEF BlobsBuilt
  <2> QED BY <2>4 DEF ContentsInvariant
<1>3. CASE \/ BeginDirectory \/ (\E s \in 1..7 : WriteSpecial(s)) \/ WritePages
           \/ BeginSuper \/ WriteBlob
  <2>1. blobs' = blobs /\ request' = request /\ pc # "blobs"
    BY <1>3 DEF BeginDirectory, WriteSpecial, WritePages, BeginSuper, WriteBlob
  <2> QED BY <2>1 DEF ContentsInvariant, BlobsBuilt
<1> QED BY <1>1, <1>2, <1>3

(* From step 3 on the blobs are those that were built. *)
LEMMA ContentsInvariantHolds == Spec => []ContentsInvariant
<1>1. Init => ContentsInvariant
  BY DEF Init, ContentsInvariant
<1>2. BlobsInvariant /\ ContentsInvariant /\ [Next]_vars => ContentsInvariant'
  <2> SUFFICES ASSUME BlobsInvariant, ContentsInvariant, [Next]_vars PROVE ContentsInvariant'
    OBVIOUS
  <2>1. CASE BuildBlobs
    BY <2>1, BlobsAreBuilt
  <2>2. CASE \/ BeginDirectory \/ (\E s \in 1..7 : WriteSpecial(s)) \/ WritePages
             \/ Sign \/ BeginSuper \/ WriteBlob \/ UNCHANGED vars
    BY <2>2, BlobsStayBuilt
  <2> QED BY <2>1, <2>2 DEF Next, Done
<1> QED BY <1>1, <1>2, BlobsInvariantHolds, PTL DEF Spec

(***************************************************************************)
(* requirements.go:16-35, 120-160: whatever the lengths of the identifier  *)
(* and of the common name, what is padded to whole words is read back, and *)
(* the finished signature satisfies its own designated requirement.        *)
(***************************************************************************)
THEOREM RequirementIsMet == Spec => []RequirementReadsBack
<1>1. DirectoryInvariant /\ BlobsInvariant /\ SuperInvariant /\ ContentsInvariant
        => RequirementReadsBack
  <2> DEFINE p12 == request.p12
             leaf == Head(p12.certs)
             message == MessageOf(p12, Hash(buf))
  <2> SUFFICES ASSUME DirectoryInvariant, BlobsInvariant, SuperInvariant, ContentsInvariant,
                      pc = "done", HasMessage(request), leaf.issuer = AppleWWDRG3.name,
                      NEW cd \in BlobsIn(super, CodeDirectorySlot),
                      NEW set \in BlobsIn(super, RequirementsSlot),
                      NEW cms \in BlobsIn(super, CMSSlot), NEW c \in Signers(cms[2].cms)
               PROVE  Satisfies(set, TextAt(cd, cd[1].identOffset), PathFrom(cms[2].cms, c))
    BY DEF RequirementReadsBack
  <2>1. request \in Requests /\ BlobsBuilt
    BY DEF DirectoryInvariant, ContentsInvariant
  <2>2. /\ NoneOfApples(leaf) /\ Len(p12.certs) > 0 /\ IsText(leaf.cn)
        /\ request.ident \in Nat
    BY <2>1, RequestsAssumption DEF NoneOfApples
  <2>3. cd = buf /\ cms = CMSBlob
    BY FinishedSignature
  <2>4. set = BuildRequirements(BundleID(request), leaf.cn)
    <3> DEFINE q == LocalOptions(request)
    <3>1. set = blobs[2]
      BY <2>1, FinishedBlobs DEF BlobsBuilt, RequirementsSlot
    <3>2. blobs[2] = BuildRequirements(BundleID(q), LeafCN(q))
      BY <2>1 DEF BlobsBuilt
    <3>3. q.ident = request.ident /\ q.p12 = request.p12 /\ q.identity = request.identity
      BY <2>1, RequestsAssumption DEF LocalOptions
    <3>4. BundleID(q) = BundleID(request) /\ LeafCN(q) = leaf.cn
      BY <3>3 DEF BundleID, LeafCN, LoadP12, HasMessage
    <3> QED BY <3>1, <3>2, <3>4
  <2>5. TextAt(cd, cd[1].identOffset) = BundleID(request)
    BY <2>3, DirectoryInvariantReadsBack DEF DirectoryReadsBack
  <2>6. cms[2].cms = message
    <3>1. cms = WrapBlob("CMS", <<[cms |-> message]>>)
      BY <2>3 DEF CMSBlob, MessageOf
    <3> HIDE DEF message
    <3>2. PICK data : data = <<[cms |-> message]>>
      OBVIOUS
    <3>3. Len(data) = 1 /\ data[1] = [cms |-> message]
      BY <3>2
    <3>4. WrapBlob("CMS", data)[1 + 1] = data[1]
      <4>1. 1 \in 1..Len(data)
        BY <3>3
      <4> QED BY <4>1, Wrapped
    <3> QED BY <3>1, <3>2, <3>3, <3>4
  <2>7. Signers(message) = {leaf} /\ message.certificates
           = IF leaf \in {AppleWWDRG3, AppleRoot} THEN <<AppleWWDRG3, AppleRoot>>
             ELSE <<AppleWWDRG3, AppleRoot, leaf>>
    BY <2>2, MessageCertificates
  <2> HIDE DEF message, leaf, p12
  <2>8. leaf \notin {AppleWWDRG3, AppleRoot}
    <3>1. /\ AppleWWDRG3.name = "WWDR G3" /\ AppleWWDRG3.issuer = "Apple Root CA"
          /\ AppleRoot.issuer = "Apple Root CA"
      BY DEF AppleWWDRG3, AppleRoot
    <3> QED BY <3>1
  <2>9. c = leaf /\ message.certificates = <<AppleWWDRG3, AppleRoot, leaf>>
    BY <2>6, <2>7, <2>8
  <2>10. PathFrom(message, leaf) = <<leaf, AppleWWDRG3, AppleRoot>>
    BY <2>2, <2>9, PathOfLeaf
  <2>11. PICK path : path = <<leaf, AppleWWDRG3, AppleRoot>>
    OBVIOUS
  <2>12. /\ 1 \in DOMAIN path /\ 2 \in DOMAIN path /\ Anchored(path)
         /\ path[1].cn = leaf.cn /\ WWDROID \in path[2].fields
    <3>1. /\ 1 \in DOMAIN path /\ 2 \in DOMAIN path /\ Len(path) = 3 /\ path # <<>>
          /\ path[1] = leaf /\ path[2] = AppleWWDRG3 /\ path[3] = AppleRoot
      BY <2>11
    <3>2. AppleRoot.name = "Apple Root CA" /\ WWDROID \in AppleWWDRG3.fields
      BY DEF AppleRoot, AppleWWDRG3
    <3> QED BY <3>1, <3>2 DEF Anchored
  <2>13. IsCells(BundleID(request)) /\ IsCells(leaf.cn)
    <3>1. IsCells(BundleID(request))
      BY <2>2, LengthOf, LenText DEF BundleID, Text, IsCells
    <3>2. IsCells(leaf.cn)
      BY <2>2 DEF IsText, IsCells
    <3> QED BY <3>1, <3>2
  <2>14. Satisfies(set, BundleID(request), path)
    BY <2>4, <2>12, <2>13, RequirementsAreSatisfied
  <2> QED BY <2>5, <2>6, <2>9, <2>10, <2>11, <2>14
<1> QED BY <1>1, DirectoryInvariantHolds, BlobsInvariantHolds, SuperInvariantHolds,
           ContentsInvariantHolds, PTL

(* What the entitlements are wrapped in is taken off again. *)
LEMMA WrappedIsUnwrapped ==
    ASSUME NEW magic, NEW data, IsCells(data)
    PROVE  Tail(WrapBlob(magic, data)) = data
<1>1. PICK w : w = WrapBlob(magic, data)
  OBVIOUS
<1>2. PICK n \in Nat : n = Len(data)
  BY DEF IsCells
<1>3. /\ IsCells(w) /\ Len(w) = 1 + n
      /\ \A j \in 1..n : w[1 + j] = data[j]
  BY <1>1, <1>2, Wrapped DEF IsBlob
<1> DEFINE S == {w[j] : j \in 1..Len(w)} \cup {data[j] : j \in 1..Len(data)}
<1>4. w \in Seq(S) /\ data \in Seq(S)
  BY <1>2, <1>3, LengthOf, SeqMonotonic DEF IsCells
<1> HIDE DEF S
<1>5. w # <<>>
  BY <1>3, <1>4
<1>6. PICK t : t = Tail(w)
  OBVIOUS
<1>7. t \in Seq(S) /\ Len(t) = n /\ \A i \in 1..n : t[i] = w[i + 1]
  BY <1>2, <1>3, <1>4, <1>5, <1>6, HeadTailProperties
<1>8. ASSUME NEW i \in 1..n PROVE t[i] = data[i]
  <2>1. i + 1 = 1 + i
    OBVIOUS
  <2> QED BY <2>1, <1>3, <1>7
<1> QED BY <1>1, <1>2, <1>4, <1>6, <1>7, <1>8, SeqEqual

(* A blob with one cell of content. *)
LEMMA WrappedCell == \A magic, x : WrapBlob(magic, <<x>>)[2] = x
<1> SUFFICES ASSUME NEW magic, NEW x PROVE WrapBlob(magic, <<x>>)[2] = x
  OBVIOUS
<1>1. PICK data : data = <<x>>
  OBVIOUS
<1>2. Len(data) = 1 /\ data[1] = x
  BY <1>1
<1>3. WrapBlob(magic, data)[1 + 1] = data[1]
  BY <1>2, Wrapped
<1> QED BY <1>1, <1>2, <1>3

(* The highest special slot is that of the last entitlements. *)
LEMMA EntitlementsAreLast ==
    ASSUME SpecialsTyped
    PROVE  /\ 7 \in DOMAIN special => SpecialSlots(special) = 7
           /\ 7 \notin DOMAIN special /\ 5 \in DOMAIN special => SpecialSlots(special) = 5
<1>1. DOMAIN special \subseteq {1, 2, 3, 5, 7}
  BY DEF SpecialsTyped
<1>2. PICK n : n = SpecialSlots(special)
  OBVIOUS
<1>3. n \in DOMAIN special \cup {0} /\ n \in 0..7 /\ \A s \in DOMAIN special : s <= n
  BY <1>1, <1>2, HighestSlot DEF SpecialSlots
<1>4. n \in {0, 1, 2, 3, 5, 7}
  BY <1>1, <1>3
<1> QED BY <1>2, <1>3, <1>4

(* What DERContent gives is the caller's, or one that can be encoded. *)
LEMMA ContentOfDER ==
    ASSUME NEW q, ~q.der, NEW x, x \in DERContent(q)
    PROVE  \E ent \in q.xml : Encodes(ent) /\ x = EncodeDER(ent)
  BY DEF DERContent

(* A framework or a dylib has no entitlements in DER, and empty ones in XML. *)
LEMMA OthersHaveNone ==
    ASSUME request \in Requests, ~IsMain(request)
    PROVE  /\ LocalOptions(request).xml = {NoEntitlements}
           /\ DERContent(LocalOptions(request)) = {}
<1>1. /\ LocalOptions(request).xml = {NoEntitlements}
      /\ LocalOptions(request).skipDER = TRUE
  BY RequestsAssumption DEF LocalOptions
<1> QED BY <1>1 DEF DERContent

(* What a verifier finds of the entitlements is what BuildBlobs made. *)
LEMMA FinishedEntitlements ==
    ASSUME DirectoryInvariant, BlobsInvariant, SuperInvariant, ContentsInvariant,
           pc = "done"
    PROVE  LET q == LocalOptions(request)
           IN  /\ q.xml # {} => 5 \in DOMAIN special
               /\ DERContent(q) # {} <=> 7 \in DOMAIN special
               /\ DERContent(q) # {} <=> BlobsIn(super, 7) # {}
               /\ \A xml \in BlobsIn(super, 5) : xml[2].xml = CHOOSE x \in q.xml : TRUE
               /\ \A der \in BlobsIn(super, 7) :
                     der = WrapBlob("DER", CHOOSE x \in DERContent(q) : TRUE)
<1> DEFINE q == LocalOptions(request)
           ent == CHOOSE x \in q.xml : TRUE
           der == DERContent(q)
           content == CHOOSE x \in der : TRUE
<1>1. /\ 5 \in DOMAIN blobs <=> q.xml # {}
      /\ 5 \in DOMAIN blobs => blobs[5] = WrapBlob("entitlements", <<[xml |-> ent]>>)
      /\ 7 \in DOMAIN blobs <=> der # {}
      /\ 7 \in DOMAIN blobs => blobs[7] = WrapBlob("DER", content)
  BY DEF ContentsInvariant, BlobsBuilt
<1> HIDE DEF ent, content, der, q
<1>2. \A s \in {5, 7} : s \in DOMAIN special <=> s \in DOMAIN blobs
  BY DEF BlobsInvariant, ContentsHashed
<1>3. /\ \A s \in DOMAIN blobs : BlobsIn(super, s) = {blobs[s]}
      /\ \A s : s \notin DOMAIN blobs => BlobsIn(super, s) = {}
  BY FinishedBlobs
<1>4. ASSUME NEW xml \in BlobsIn(super, 5) PROVE xml[2].xml = ent
  <2>1. xml = WrapBlob("entitlements", <<[xml |-> ent]>>)
    BY <1>1, <1>3
  <2>2. xml[2] = [xml |-> ent]
    BY <2>1, WrappedCell
  <2> QED BY <2>2
<1>5. der # {} <=> BlobsIn(super, 7) # {}
  BY <1>1, <1>3
<1>6. \A d \in BlobsIn(super, 7) : d = WrapBlob("DER", content)
  BY <1>1, <1>3
<1> QED BY <1>1, <1>2, <1>4, <1>5, <1>6 DEF ent, content, der, q

(***************************************************************************)
(* der.go:11-120, signer.go:45-75: whatever entitlements are asked for,    *)
(* however long they are and deeply nested, if every integer in them fits  *)
(* in Go's int, what a verifier decodes from DER is the dictionary in XML; *)
(* only a main binary has any in DER.                                      *)
(***************************************************************************)
THEOREM EntitlementsAreReadBack == Spec => []EntitlementsReadBack
<1>1. DirectoryInvariant /\ BlobsInvariant /\ SuperInvariant /\ ContentsInvariant
        => EntitlementsReadBack
  <2> DEFINE q == LocalOptions(request)
             n == buf[1].nSpecialSlots
  <2> SUFFICES ASSUME DirectoryInvariant, BlobsInvariant, SuperInvariant, ContentsInvariant,
                      pc = "done"
               PROVE  EntitlementsReadBack!2
    BY DEF EntitlementsReadBack
  <2>1. /\ request \in Requests /\ SpecialsTyped
        /\ buf[1].main = IsMain(request) /\ n = SpecialSlots(special)
    BY DEF DirectoryInvariant, HeaderInPlace
  <2>2. BlobsIn(super, CodeDirectorySlot) = {buf}
    BY FinishedSignature
  <2>3. /\ q.xml # {} => 5 \in DOMAIN special
        /\ DERContent(q) # {} <=> 7 \in DOMAIN special
        /\ DERContent(q) # {} <=> BlobsIn(super, 7) # {}
        /\ \A xml \in BlobsIn(super, 5) : xml[2].xml = CHOOSE x \in q.xml : TRUE
        /\ \A der \in BlobsIn(super, 7) :
              der = WrapBlob("DER", CHOOSE x \in DERContent(q) : TRUE)
    BY FinishedEntitlements
  <2>4. /\ 7 \in DOMAIN special => n = 7
        /\ 7 \notin DOMAIN special /\ 5 \in DOMAIN special => n = 5
    BY <2>1, EntitlementsAreLast
  <2>5. CASE IsMain(request)
    <3>1. q = request
      BY <2>5 DEF LocalOptions
    <3>2. ASSUME NEW xml \in BlobsIn(super, 5), NEW der \in BlobsIn(super, 7), ~request.der,
                 FitsInt(xml[2].xml)
          PROVE  Says(Tail(der), xml[2].xml)
      <4>1. PICK content : /\ content = CHOOSE x \in DERContent(q) : TRUE
                           /\ content \in DERContent(q)
        <5>1. DERContent(q) # {}
          BY <2>3
        <5> HIDE DEF q
        <5> QED BY <5>1
      <4>2. PICK ent \in request.xml : Encodes(ent) /\ content = EncodeDER(ent)
        BY <3>1, <3>2, <4>1, ContentOfDER
      <4>3. AreEntitlements(ent) /\ \A x \in request.xml : x = ent
        BY <2>1, <4>2, RequestsAssumption DEF AreEntitlements
      <4>4. xml[2].xml = ent
        <5>1. (CHOOSE x \in request.xml : TRUE) \in request.xml
          OBVIOUS
        <5> QED BY <5>1, <2>3, <3>1, <4>3
      <4>5. Says(content, ent) /\ IsCells(content)
        BY <3>2, <4>2, <4>3, <4>4, DictionaryIsRead DEF Bytewise
      <4>6. Tail(der) = content
        BY <2>3, <4>1, <4>5, WrappedIsUnwrapped
      <4> QED BY <4>4, <4>5, <4>6
    <3>3. ASSUME NEW ent \in request.xml, Encodes(ent), ~request.skipDER
          PROVE  BlobsIn(super, 7) # {} /\ n = 7
      <4>1. DERContent(request) # {}
        BY <3>3 DEF DERContent
      <4> QED BY <2>3, <2>4, <3>1, <4>1
    <3> HIDE DEF q
    <3> QED BY <2>1, <2>2, <2>5, <3>2, <3>3 DEF EntitlementsSlot, DEREntitlementsSlot
  <2>6. CASE ~IsMain(request)
    <3>1. q.xml = {NoEntitlements} /\ DERContent(q) = {}
      BY <2>1, <2>6, OthersHaveNone
    <3>2. BlobsIn(super, 7) = {} /\ n = 5
      BY <2>3, <2>4, <3>1
    <3>3. DOMAIN NoEntitlements = {}
      BY DEF NoEntitlements
    <3>4. (CHOOSE x \in q.xml : TRUE) = NoEntitlements
      BY <3>1
    <3>5. \A xml \in BlobsIn(super, 5) : DOMAIN xml[2].xml = {}
      BY <2>3, <3>3, <3>4
    <3> HIDE DEF q
    <3> QED BY <2>1, <2>2, <2>6, <3>2, <3>5 DEF EntitlementsSlot, DEREntitlementsSlot
  <2> QED BY <2>5, <2>6
<1> QED BY <1>1, DirectoryInvariantHolds, BlobsInvariantHolds, SuperInvariantHolds,
           ContentsInvariantHolds, PTL
===============================================================================
