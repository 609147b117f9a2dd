-------------------------- MODULE DownloaderProofs --------------------------
(***************************************************************************)
(* What DownloadToTemp returns, for every number of attempts and all       *)
(* bodies.                                                                 *)
(***************************************************************************)
EXTENDS Downloader, TLAPS

(* A new temporary file is a beginning of anything, and never valid. *)
LEMMA EmptyIsPart ==
    ASSUME NEW body \in Seq(Block)
    PROVE  <<>> \in Seq(Block) /\ IsPartOf(<<>>, body) /\ ~Valid(<<>>)
  BY DEF IsPartOf, Valid

(* The beginning of a body is a part of it. *)
LEMMA PrefixIsPart ==
    ASSUME NEW body \in Seq(Block), NEW n \in 0..Len(body)
    PROVE  /\ SubSeq(body, 1, n) \in Seq(Block)
           /\ Len(SubSeq(body, 1, n)) = n
           /\ IsPartOf(SubSeq(body, 1, n), body)
           /\ n = Len(body) => SubSeq(body, 1, n) = body
  BY DEF IsPartOf

(* A body that is a part of another of the same length is that body. *)
LEMMA PartOfSameLength ==
    ASSUME NEW d \in Seq(Block), NEW body \in Seq(Block),
           IsPartOf(d, body), Len(d) >= Len(body)
    PROVE  d = body
  BY DEF IsPartOf

(* A part of a body, continued where it ends. *)
LEMMA ContinuedPart ==
    ASSUME NEW d \in Seq(Block), NEW body \in Seq(Block), IsPartOf(d, body),
           Len(d) < Len(body),
           NEW n \in 0..Len(SubSeq(body, Len(d) + 1, Len(body)))
    PROVE  LET rest == SubSeq(body, Len(d) + 1, Len(body))
               e == d \o SubSeq(rest, 1, n)
           IN  /\ e \in Seq(Block)
               /\ IsPartOf(e, body)
               /\ n = Len(rest) => e = body
  <1> DEFINE rest == SubSeq(body, Len(d) + 1, Len(body))
             e == d \o SubSeq(rest, 1, n)
  <1>1. rest \in Seq(Block) /\ Len(rest) = Len(body) - Len(d)
    OBVIOUS
  <1>2. \A i \in 1..Len(rest) : rest[i] = body[Len(d) + i]
    OBVIOUS
  <1> HIDE DEF rest
  <1>3. /\ SubSeq(rest, 1, n) \in Seq(Block)
        /\ Len(SubSeq(rest, 1, n)) = n
        /\ \A i \in 1..n : SubSeq(rest, 1, n)[i] = rest[i]
    BY <1>1
  <1>4. e \in Seq(Block) /\ Len(e) = Len(d) + n
    BY <1>3
  <1>5. \A i \in 1..Len(d) : e[i] = d[i]
    BY <1>3
  <1>6. \A i \in Len(d) + 1 .. Len(d) + n : e[i] = body[i]
    <2> SUFFICES ASSUME NEW i \in Len(d) + 1 .. Len(d) + n
                 PROVE  e[i] = body[i]
      OBVIOUS
    <2>1. e[i] = SubSeq(rest, 1, n)[i - Len(d)]
      BY <1>3
    <2> DEFINE k == i - Len(d)
    <2>2. k \in 1..n /\ k \in 1..Len(rest) /\ Len(d) + k = i
      BY <1>1
    <2> HIDE DEF k
    <2>3. e[i] = rest[k] /\ rest[k] = body[Len(d) + k]
      BY <1>2, <1>3, <2>1, <2>2 DEF k
    <2>4. QED
      BY <2>2, <2>3
  <1> HIDE DEF e
  <1>7. IsPartOf(e, body)
    <2>1. Len(e) <= Len(body)
      BY <1>1, <1>4
    <2>2. ASSUME NEW i \in 1..Len(e)
          PROVE  e[i] = body[i]
      <3>1. CASE i <= Len(d)
        BY <1>5, <3>1 DEF IsPartOf
      <3>2. CASE i > Len(d)
        BY <1>4, <1>6, <3>2
      <3>3. QED
        BY <3>1, <3>2
    <2>3. QED
      BY <2>1, <2>2 DEF IsPartOf
  <1>8. n = Len(rest) => e = body
    BY <1>1, <1>4, <1>7, PartOfSameLength
  <1>9. QED
    BY <1>4, <1>7, <1>8 DEF rest, e

-----------------------------------------------------------------------------
(* What an answer leaves in the file, when the server is steady and the    *)
(* body is copied to its end or the client sees that it was not.           *)
(* An answer 200: the file is now the beginning of a build or of a page.   *)
LEMMA ReceivedAll ==
    ASSUME ResumeInvariant, ReceiveAll
    PROVE  ResumeInvariant'
  <1>1. PICK body \in {build} \cup Pages : Receive(200, body)
    BY DEF ReceiveAll
  <1>2. PICK n \in 0..Len(body), failed \in BOOLEAN :
          /\ data' = Kept(200) \o SubSeq(body, 1, n)
          /\ pc' = IF failed THEN "failed" ELSE "validate"
          /\ steady' = (steady /\ (failed \/ n = Len(body)))
          /\ healthy' = (~failed /\ n = Len(body) /\ body \notin Pages)
    BY <1>1 DEF Receive
  <1>3. body \in Seq(Block)
    BY BodiesAssumption DEF ResumeInvariant, TypeOK
  <1>4. data' = SubSeq(body, 1, n)
    BY <1>2, <1>3, PrefixIsPart DEF Kept
  <1>5. /\ data' \in Seq(Block)
        /\ IsPartOf(data', body)
        /\ Len(data') = n
        /\ n = Len(body) => data' = body
    BY <1>3, <1>4, PrefixIsPart
  <1>6. CASE body = build
    BY <1>1, <1>2, <1>5, <1>6 DEF ResumeInvariant, TypeOK, Receive
  <1>7. CASE body \in Pages
    <2>1. data' # <<>> => ~Valid(data')
      BY <1>5, <1>7, BodiesAssumption DEF Valid, IsPartOf
    <2>2. data' = <<>> => IsPartOf(data', build) /\ ~Valid(data')
      BY BodiesAssumption DEF IsPartOf, ResumeInvariant, TypeOK, Valid
    <2>3. QED
      BY <1>1, <1>2, <1>5, <2>1, <2>2 DEF ResumeInvariant, TypeOK, Receive
  <1>8. QED
    BY <1>6, <1>7

(* An answer 206: the file goes on where it ended. *)
LEMMA ReceivedRange ==
    ASSUME ResumeInvariant, ReceiveRange
    PROVE  ResumeInvariant'
  <1> DEFINE rest == SubSeq(build, asked + 1, Len(build))
  <1>1. asked > 0 /\ asked < Len(build) /\ Receive(206, rest)
    BY DEF ReceiveRange
  <1>2. PICK n \in 0..Len(rest), failed \in BOOLEAN :
          /\ data' = Kept(206) \o SubSeq(rest, 1, n)
          /\ pc' = IF failed THEN "failed" ELSE "validate"
          /\ steady' = (steady /\ (failed \/ n = Len(rest)))
          /\ healthy' = (~failed /\ n = Len(rest) /\ rest \notin Pages)
    BY <1>1 DEF Receive
  <1>3. /\ build \in Seq(Block)
        /\ data \in Seq(Block)
        /\ asked = Len(data)
        /\ data # <<>>
    BY <1>1, BodiesAssumption DEF ResumeInvariant, TypeOK, Receive
  <1>4. rest \in Seq(Block)
    BY <1>1, <1>3
  <1>5. data' = data \o SubSeq(rest, 1, n)
    BY <1>1, <1>2 DEF Kept
  <1>6. SubSeq(rest, 1, n) \in Seq(Block)
    BY <1>4, PrefixIsPart
  <1>7. data' \in Seq(Block) /\ data' # <<>> /\ data'[1] = data[1]
    BY <1>3, <1>5, <1>6
  <1>8. Valid(data') <=> Valid(data)
    BY <1>3, <1>7 DEF Valid
  <1>9. IsPartOf(data, build) =>
          IsPartOf(data', build) /\ (n = Len(rest) => data' = build)
    BY <1>1, <1>3, <1>5, ContinuedPart
  <1> HIDE DEF rest
  <1>10. QED
    BY <1>1, <1>2, <1>3, <1>7, <1>8, <1>9 DEF ResumeInvariant, TypeOK, Receive

-----------------------------------------------------------------------------
(***************************************************************************)
(* The invariant is inductive: while the server is steady, the file is the *)
(* beginning of its build or will never be taken for an IPA.               *)
(***************************************************************************)
LEMMA StepKeepsResumeInvariant ==
    ASSUME ResumeInvariant, [Next]_vars
    PROVE  ResumeInvariant'
  <1>1. CASE Request
    <2>1. Len(<<>>) = 0 /\ Len(data) \in Nat
      BY DEF ResumeInvariant, TypeOK
    <2>2. asked' = Len(data) /\ asked' \in Nat
      BY <1>1, <2>1 DEF Request, ResumeInvariant, TypeOK
    <2>3. QED
      BY <1>1, <2>2 DEF Request, ResumeInvariant, TypeOK
  <1>2. CASE Refused
    BY <1>2 DEF Refused, ResumeInvariant, TypeOK
  <1>3. CASE NotSatisfiable
    <2>1. build \in Seq(Block)
      BY BodiesAssumption DEF ResumeInvariant, TypeOK
    <2>2. IsPartOf(data, build) => data = build
      BY <1>3, <2>1, PartOfSameLength DEF NotSatisfiable, ResumeInvariant, TypeOK
    <2>3. QED
      BY <1>3, <2>2 DEF NotSatisfiable, ResumeInvariant, TypeOK
  <1>4. CASE ReceiveAll
    BY <1>4, ReceivedAll
  <1>5. CASE ReceiveRange
    BY <1>5, ReceivedRange
  <1>6. CASE Validate
    BY <1>6 DEF Validate, ResumeInvariant, TypeOK
  <1>7. CASE Retry
    BY <1>7, AttemptsAssumption DEF Retry, RetryAfter, ResumeInvariant, TypeOK
  <1>8. CASE GiveUp
    <2>1. <<>> \in Seq(Block) /\ IsPartOf(<<>>, build)
      BY BodiesAssumption, EmptyIsPart DEF ResumeInvariant, TypeOK
    <2>2. QED
      BY <1>8, <2>1 DEF GiveUp, RemoveFile, ResumeInvariant, TypeOK
  <1>9. CASE Publish
    <2>1. PICK b \in Builds : build' = b
      BY <1>9 DEF Publish
    <2>2. IsPartOf(<<>>, b)
      BY BodiesAssumption, EmptyIsPart
    <2>3. QED
      BY <1>9, <2>1, <2>2 DEF Publish, ResumeInvariant, TypeOK
  <1>10. CASE UNCHANGED vars
    BY <1>10 DEF vars, ResumeInvariant, TypeOK, Valid, IsPartOf
  <1>11. QED
    BY <1>1, <1>2, <1>3, <1>4, <1>5, <1>6, <1>7, <1>8, <1>9, <1>10
    DEF Next, Step, Returned

(* download.go:40-170: with a steady server, at every step of the          *)
(* attempts, what is in the file is a beginning of the build or will not   *)
(* pass as one.                                                            *)
THEOREM DownloadResumes == Spec => []ResumeInvariant
  <1>1. ASSUME Init PROVE ResumeInvariant
    <2>1. <<>> \in Seq(Block) /\ IsPartOf(<<>>, build)
      BY <1>1, BodiesAssumption, EmptyIsPart DEF Init
    <2>2. 1 \in 1..MaxAttempts
      BY AttemptsAssumption
    <2>3. TypeOK
      BY <1>1, <2>1, <2>2 DEF Init, TypeOK
    <2>4. QED
      BY <1>1, <2>1, <2>3 DEF Init, ResumeInvariant
  <1>2. ResumeInvariant /\ [Next]_vars => ResumeInvariant'
    BY StepKeepsResumeInvariant
  <1>3. QED
    BY <1>1, <1>2, PTL DEF Spec

(***************************************************************************)
(* From a steady server, for any number of attempts, any pages in between  *)
(* and any cuts, what DownloadToTemp returns is the whole build.           *)
(***************************************************************************)
THEOREM DownloadWhole == Spec => []DownloadIsWhole
  <1>1. ResumeInvariant => DownloadIsWhole
    BY DEF ResumeInvariant, DownloadIsWhole
  <1>2. QED
    BY <1>1, DownloadResumes, PTL

(* A failed download leaves no file; a good one leaves a file of an IPA. *)
THEOREM DownloadLeavesFileIffReturned == Spec => []FileIffReturned
  <1>1. ResumeInvariant => FileIffReturned
    BY DEF ResumeInvariant, FileIffReturned
  <1>2. QED
    BY <1>1, DownloadResumes, PTL
=============================================================================
