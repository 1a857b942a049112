----------------------------- MODULE EpisodeProofs -----------------------------
(***************************************************************************)
(* Proofs about the programs that make an episode and show it, for any     *)
(* beats, lines, reels and chunks and for any number of captures, runs and *)
(* calls.                                                                  *)
(*                                                                         *)
(* What carries the upload is that the client's two cursors agree while it *)
(* puts chunks, and that neither is beyond what the server has: Aligned.   *)
(* The server has a first part of the file and nothing else: FirstPart.    *)
(*                                                                         *)
(* Of a capture and of a voice-over the invariants speak about what the    *)
(* run has left behind it: CapturedIsCurrent, SoFar.  The reel is the      *)
(* place of each clip among the fades, as sums over one list that four     *)
(* programs make for themselves: OneList.  ChainInv follows the files of   *)
(* two chains in one session.                                              *)
(***************************************************************************)
EXTENDS MCEpisode, FoldProofs, SequenceTheorems

Numbers ==
    /\ upPhase \in {"idle", "putting", "published", "done", "failed"}
    /\ offset \in 0 .. Size /\ pos \in 0 .. Size
    /\ stalls \in 0 .. MaxStalls /\ stallsAt \in -1 .. Size
    /\ idleAnswers \in 0 .. MaxIdle /\ tries \in 0 .. MaxTries
    /\ lost \in 0 .. tries /\ (upPhase = "putting" => lost < tries)
    /\ odd \in BOOLEAN

(* A server that has the units before m, each as in the file. *)
Has(m) == stored = [u \in 0 .. m - 1 |-> u]
FirstPart == \E m \in 0 .. Size : Has(m) /\ (upPhase = "putting" => offset <= m)
Aligned == upPhase = "putting" => pos = offset

(* The videos are numbered; all but the last come from lost answers, and   *)
(* so does the last unless the upload got its answer.                      *)
Answered == IF upPhase \in {"published", "done"} THEN 1 ELSE 0
Numbered == DOMAIN videos = 1 .. lost + Answered

UpInv == Numbers /\ FirstPart /\ Aligned /\ Numbered /\ VideosAreTheReel

-------------------------------------------------------------------------------
(* While the cursors agree a chunk is stored where it belongs. *)
LEMMA TakenIsPrefix ==
    ASSUME NEW m \in 0 .. Size, Has(m), offset \in 0 .. m, pos = offset,
           NEW k \in 0 .. ChunkLength
    PROVE  LET n == IF offset + k > m THEN offset + k ELSE m
           IN  n \in m .. Size /\ offset <= n /\ Taken(k) = [u \in 0 .. n - 1 |-> u]
<1> DEFINE n == IF offset + k > m THEN offset + k ELSE m
<1>1. Size \in Nat /\ Chunk \in Nat
  BY UploadAssumption
<1>2. ChunkLength \in 0 .. Size - offset
  BY <1>1 DEF ChunkLength
<1>3. offset + k <= Size /\ n \in m .. Size /\ offset <= n
  BY <1>1, <1>2
<1>4. DOMAIN stored = 0 .. m - 1 /\ \A u \in 0 .. m - 1 : stored[u] = u
  BY DEF Has
<1>5. DOMAIN stored \cup (offset .. offset + k - 1) = 0 .. n - 1
  BY <1>1, <1>2, <1>3, <1>4
<1>6. \A u \in 0 .. n - 1 :
         (IF u \in offset .. offset + k - 1 THEN pos + (u - offset) ELSE stored[u]) = u
  BY <1>1, <1>2, <1>3, <1>4
<1>7. Taken(k) = [u \in 0 .. n - 1 |-> u]
  BY <1>5, <1>6 DEF Taken
<1>8. QED
  BY <1>3, <1>7

(* The end the server reports is the end of what it has. *)
LEMMA EndOfPrefix ==
    ASSUME NEW n \in 0 .. Size
    PROVE  ServerEnd([u \in 0 .. n - 1 |-> u]) = n
<1> DEFINE s == [u \in 0 .. n - 1 |-> u]
<1>1. Size \in Nat
  BY UploadAssumption
<1>2. DOMAIN s = 0 .. n - 1
  OBVIOUS
<1> HIDE DEF s
<1>3. 0 .. n - 1 \subseteq DOMAIN s /\ n \notin DOMAIN s
  BY <1>1, <1>2
<1>4. \A j \in 0 .. Size : 0 .. j - 1 \subseteq DOMAIN s /\ j \notin DOMAIN s => j = n
  <2> SUFFICES ASSUME NEW j \in 0 .. Size, 0 .. j - 1 \subseteq 0 .. n - 1, j \notin 0 .. n - 1
               PROVE  j = n
    BY <1>2
  <2>1. j >= n
    BY <1>1
  <2>2. CASE j > n
    <3>1. n \in 0 .. j - 1
      BY <1>1, <2>2
    <3>2. QED
      BY <1>1, <3>1
  <2>3. QED
    BY <1>1, <2>1, <2>2
<1>5. ServerEnd(s) = n
  BY <1>3, <1>4 DEF ServerEnd
<1>6. QED
  BY <1>5 DEF s

-------------------------------------------------------------------------------
LEMMA UpInit_Inv == UpInit => UpInv
<1> SUFFICES ASSUME UpInit PROVE UpInv
  OBVIOUS
<1>1. Size \in Nat \ {0} /\ {MaxStalls, MaxIdle, MaxTries} \subseteq Nat
  BY UploadAssumption
<1>2. Numbers /\ Aligned
  <2>1. /\ upPhase = "idle" /\ offset = 0 /\ pos = 0 /\ stalls = 0 /\ stallsAt = -1
        /\ idleAnswers = 0 /\ tries = 0 /\ lost = 0 /\ odd = FALSE
    BY DEF UpInit
  <2>2. 0 \in 0 .. Size /\ 0 \in 0 .. MaxStalls /\ -1 \in -1 .. Size
        /\ 0 \in 0 .. MaxIdle /\ 0 \in 0 .. MaxTries /\ 0 \in 0 .. 0
    BY <1>1
  <2>3. QED
    BY <2>1, <2>2 DEF Numbers, Aligned
<1>3. FirstPart
  <2>1. <<>> = [u \in 0 .. 0 - 1 |-> u]
    OBVIOUS
  <2>2. Has(0)
    BY <2>1 DEF UpInit, Has
  <2>3. QED
    BY <1>1, <2>2 DEF UpInit, FirstPart
<1>4. Numbered /\ VideosAreTheReel
  <2>1. DOMAIN videos = {} /\ lost + Answered = 0
    BY DEF UpInit, Answered
  <2>2. QED
    BY <2>1 DEF Numbered, VideosAreTheReel
<1>5. QED
  BY <1>2, <1>3, <1>4 DEF UpInv

LEMMA Opens_Inv == UpInv /\ Opens => UpInv'
<1> SUFFICES ASSUME UpInv, Opens PROVE UpInv'
  OBVIOUS
<1>1. Size \in Nat \ {0} /\ {MaxStalls, MaxIdle, MaxTries} \subseteq Nat
  BY UploadAssumption
<1>2. Numbers' /\ Aligned'
  BY <1>1 DEF UpInv, Opens, Numbers, Aligned
<1>3. FirstPart'
  <2>1. <<>> = [u \in 0 .. 0 - 1 |-> u]
    OBVIOUS
  <2>2. Has(0)'
    BY <2>1 DEF Opens, Has
  <2>3. QED
    BY <1>1, <2>2 DEF Opens, FirstPart
<1>4. Numbered' /\ VideosAreTheReel'
  <2>1. videos' = videos /\ lost' = lost /\ Answered' = Answered
    BY DEF Opens, Answered
  <2>2. QED
    BY <2>1 DEF UpInv, Numbered, VideosAreTheReel, Units
<1>5. QED
  BY <1>2, <1>3, <1>4 DEF UpInv

(* Steps that make no video leave the channel as it is. *)
LEMMA NoVideo ==
    ASSUME UpInv, videos' = videos, lost' = lost, Answered' = Answered
    PROVE  Numbered' /\ VideosAreTheReel'
  BY DEF UpInv, Numbered, VideosAreTheReel, Units

LEMMA TakesSome_Inv == UpInv /\ TakesSome => UpInv'
<1> SUFFICES ASSUME UpInv, TakesSome PROVE UpInv'
  OBVIOUS
<1>1. Size \in Nat \ {0} /\ {MaxStalls, MaxIdle, MaxTries} \subseteq Nat
  BY UploadAssumption
<1>2. PICK m \in 0 .. Size : Has(m) /\ offset \in 0 .. m
  BY <1>1 DEF UpInv, Numbers, FirstPart, TakesSome, Putting
<1>3. PICK k \in 0 .. ChunkLength :
         /\ ServerEnd(Taken(k)) = offset => idleAnswers < MaxIdle
         /\ idleAnswers' = IF ServerEnd(Taken(k)) = offset THEN idleAnswers + 1 ELSE idleAnswers
         /\ stored' = Taken(k)
         /\ offset' = ServerEnd(Taken(k)) /\ pos' = ServerEnd(Taken(k))
  BY DEF TakesSome, SeekTo
<1> DEFINE n == IF offset + k > m THEN offset + k ELSE m
<1>4. pos = offset
  BY DEF UpInv, Aligned, TakesSome, Putting
<1>5. n \in m .. Size /\ offset <= n /\ Taken(k) = [u \in 0 .. n - 1 |-> u]
  BY <1>2, <1>4, TakenIsPrefix
<1> HIDE DEF n
<1>6. n \in 0 .. Size /\ ServerEnd(Taken(k)) = n
  BY <1>1, <1>5, EndOfPrefix
<1>7. offset' = n /\ pos' = n /\ stored' = [u \in 0 .. n - 1 |-> u]
  BY <1>3, <1>5, <1>6
<1>8. StallsSoFar \in 0 .. MaxStalls /\ stalls' = StallsSoFar /\ stallsAt' = offset
  BY <1>1 DEF UpInv, Numbers, TakesSome, Counted, StallsSoFar
<1>9. Numbers'
  BY <1>1, <1>3, <1>6, <1>7, <1>8 DEF UpInv, Numbers, TakesSome
<1>10. FirstPart' /\ Aligned'
  BY <1>6, <1>7 DEF FirstPart, Has, Aligned
<1>11. Numbered' /\ VideosAreTheReel'
  BY NoVideo DEF TakesSome, Answered
<1>12. QED
  BY <1>9, <1>10, <1>11 DEF UpInv

LEMMA TakesUnknown_Inv == UpInv /\ TakesUnknown => UpInv'
<1> SUFFICES ASSUME UpInv, TakesUnknown PROVE UpInv'
  OBVIOUS
<1>1. Size \in Nat \ {0} /\ {MaxStalls, MaxIdle, MaxTries} \subseteq Nat
  BY UploadAssumption
<1>2. PICK m \in 0 .. Size : Has(m) /\ offset \in 0 .. m
  BY <1>1 DEF UpInv, Numbers, FirstPart, TakesUnknown, Putting
<1>3. PICK k \in 0 .. ChunkLength : stored' = Taken(k)
  BY DEF TakesUnknown
<1> DEFINE n == IF offset + k > m THEN offset + k ELSE m
<1>4. pos = offset
  BY DEF UpInv, Aligned, TakesUnknown, Putting
<1>5. n \in m .. Size /\ offset <= n /\ Taken(k) = [u \in 0 .. n - 1 |-> u]
  BY <1>2, <1>4, TakenIsPrefix
<1> HIDE DEF n
<1>6. offset' = offset /\ pos' = pos /\ n \in 0 .. Size
  BY <1>1, <1>4, <1>5 DEF TakesUnknown, AfterStall
<1>7. StallsSoFar \in 0 .. MaxStalls
  BY <1>1 DEF UpInv, Numbers, StallsSoFar
<1>8. stalls' \in 0 .. MaxStalls /\ stallsAt' = offset
  BY <1>1, <1>7 DEF TakesUnknown, TooMany, Counted
<1>9. Numbers'
  BY <1>1, <1>6, <1>8 DEF UpInv, Numbers, TakesUnknown
<1>10. FirstPart' /\ Aligned'
  BY <1>3, <1>4, <1>5, <1>6 DEF FirstPart, Has, Aligned
<1>11. Numbered' /\ VideosAreTheReel'
  <2>1. upPhase = "putting" /\ upPhase' \in {"putting", "failed"}
    BY DEF TakesUnknown, Putting
  <2>2. QED
    BY <2>1, NoVideo DEF TakesUnknown, Answered
<1>12. QED
  BY <1>9, <1>10, <1>11 DEF UpInv

LEMMA Denied_Inv == UpInv /\ Denied => UpInv'
<1> SUFFICES ASSUME UpInv, Denied PROVE UpInv'
  OBVIOUS
<1>1. Size \in Nat \ {0} /\ {MaxStalls, MaxIdle, MaxTries} \subseteq Nat
  BY UploadAssumption
<1>2. StallsSoFar \in 0 .. MaxStalls /\ stalls' = StallsSoFar /\ stallsAt' = offset
  BY <1>1 DEF UpInv, Numbers, Denied, Counted, StallsSoFar
<1>3. Numbers' /\ Aligned'
  BY <1>1, <1>2 DEF UpInv, Numbers, Aligned, Denied, Putting, SeekTo
<1>4. FirstPart'
  BY DEF UpInv, FirstPart, Has, Denied, Putting
<1>5. Numbered' /\ VideosAreTheReel'
  BY NoVideo DEF Denied, Putting, Answered
<1>6. QED
  BY <1>3, <1>4, <1>5 DEF UpInv

(* The only step that makes a video has sent the file to its end. *)
LEMMA PutsTheLast_Inv == UpInv /\ PutsTheLast => UpInv'
<1> SUFFICES ASSUME UpInv, PutsTheLast PROVE UpInv'
  OBVIOUS
<1>1. Size \in Nat \ {0} /\ Chunk \in Nat \ {0} /\ {MaxStalls, MaxIdle, MaxTries} \subseteq Nat
  BY UploadAssumption
<1>2. PICK m \in 0 .. Size : Has(m) /\ offset \in 0 .. m
  BY <1>1 DEF UpInv, Numbers, FirstPart, PutsTheLast, Putting
<1>3. pos = offset /\ offset + ChunkLength >= Size
  BY DEF UpInv, Aligned, PutsTheLast, Putting
<1>4. ChunkLength \in 0 .. ChunkLength /\ ChunkLength <= Size - offset
  BY <1>1, <1>2, <1>3 DEF ChunkLength
<1> DEFINE k == ChunkLength
           n == IF offset + k > m THEN offset + k ELSE m
<1>5. n \in m .. Size /\ offset <= n /\ Taken(k) = [u \in 0 .. n - 1 |-> u]
  BY <1>2, <1>3, <1>4, TakenIsPrefix
<1>6. n = Size
  BY <1>1, <1>2, <1>3, <1>4, <1>5
<1>7. stored' = [u \in Units |-> u]
  BY <1>5, <1>6 DEF PutsTheLast, Units
<1>8. lost \in Nat /\ Answered = 0 /\ lost' + Answered' = lost + 1 /\ lost' \in Nat
  BY DEF UpInv, Numbers, PutsTheLast, Putting, Answered
<1>9. Numbers'
  BY <1>1, <1>8 DEF UpInv, Numbers, PutsTheLast, Putting
<1>10. FirstPart' /\ Aligned'
  BY <1>1, <1>7 DEF FirstPart, Has, Aligned, Units, PutsTheLast
<1>11. DOMAIN videos = 1 .. lost /\ Cardinality(DOMAIN videos) = lost
  <2>1. DOMAIN videos = 1 .. lost
    BY <1>8 DEF UpInv, Numbered
  <2>2. Cardinality(1 .. lost) = lost
    BY <1>8, FS_Interval
  <2>3. QED
    BY <2>1, <2>2
<1>12. videos' = [v \in 1 .. lost + 1 |-> IF v \in DOMAIN videos THEN videos[v] ELSE stored']
  BY <1>11 DEF PutsTheLast
<1>13. Numbered'
  BY <1>8, <1>12 DEF Numbered
<1>14. VideosAreTheReel'
  BY <1>7, <1>12 DEF UpInv, VideosAreTheReel, Units
<1>15. QED
  BY <1>9, <1>10, <1>13, <1>14 DEF UpInv

LEMMA PutFails_Inv == UpInv /\ PutFails => UpInv'
<1> SUFFICES ASSUME UpInv, PutFails PROVE UpInv'
  OBVIOUS
<1>1. Numbers' /\ Aligned' /\ FirstPart'
  BY DEF UpInv, PutFails, Numbers, Aligned, FirstPart, Has
<1>2. Numbered' /\ VideosAreTheReel'
  BY NoVideo DEF PutFails, Answered
<1>3. QED
  BY <1>1, <1>2 DEF UpInv

LEMMA Thumbnail_Inv == UpInv /\ Thumbnail => UpInv'
<1> SUFFICES ASSUME UpInv, Thumbnail PROVE UpInv'
  OBVIOUS
<1>1. Numbers' /\ Aligned' /\ FirstPart'
  BY DEF UpInv, Thumbnail, Numbers, Aligned, FirstPart, Has
<1>2. Numbered' /\ VideosAreTheReel'
  BY NoVideo DEF Thumbnail, Answered
<1>3. QED
  BY <1>1, <1>2 DEF UpInv

LEMMA UpStutter_Inv == UpInv /\ UNCHANGED upVars => UpInv'
  BY DEF UpInv, upVars, Numbers, Aligned, FirstPart, Has, Numbered, Answered, VideosAreTheReel, Units

LEMMA UpNext_Inv == UpInv /\ [UpNext]_upVars => UpInv'
  BY Opens_Inv, TakesSome_Inv, TakesUnknown_Inv, Denied_Inv, PutsTheLast_Inv, PutFails_Inv,
     Thumbnail_Inv, UpStutter_Inv DEF UpNext, UpSteps

(* Every step of an upload keeps the cursors aligned and the channel right. *)
THEOREM UpInvHolds == UpSpec => []UpInv
  BY UpInit_Inv, UpNext_Inv, PTL DEF UpSpec

(* Each video on the channel is the reel, unit for unit, whatever the      *)
(* server takes of a chunk and whatever it answers (yt/upload.py).         *)
THEOREM VideosAreTheReelHolds == UpSpec => []VideosAreTheReel
<1>1. UpInv => VideosAreTheReel
  BY DEF UpInv
<1>2. QED
  BY UpInvHolds, <1>1, PTL

(* Every video of an episode but one is due to a final answer that was     *)
(* lost (yt/upload.py).                                                    *)
THEOREM OneVideoPerEpisodeHolds == UpSpec => []OneVideoPerEpisode
<1>1. UpInv => OneVideoPerEpisode
  <2> SUFFICES ASSUME UpInv PROVE OneVideoPerEpisode
    OBVIOUS
  <2>1. lost \in Nat /\ Answered \in {0, 1} /\ DOMAIN videos = 1 .. lost + Answered
    BY DEF UpInv, Numbers, Numbered, Answered
  <2>2. Cardinality(1 .. lost + Answered) = lost + Answered
    BY <2>1, FS_Interval
  <2>3. QED
    BY <2>1, <2>2 DEF OneVideoPerEpisode
<1>2. QED
  BY UpInvHolds, <1>1, PTL

(* The channel has nothing but the whole reel, and more than one of it     *)
(* only for answers that were lost (yt/upload.py).                         *)
THEOREM UploadIsTheReelHolds == UpSpec => []UploadIsTheReel
<1>1. QED
  BY VideosAreTheReelHolds, OneVideoPerEpisodeHolds, PTL DEF UploadIsTheReel


-------------------------------------------------------------------------------
(* The enumeration of a finite set has each of its members once.           *)
LEMMA SetToSeqIs ==
    ASSUME NEW S, IsFiniteSet(S)
    PROVE  LET s == SetToSeq(S) IN
           /\ s \in Seq(S) /\ Len(s) = Cardinality(S)
           /\ \A i, j \in 1 .. Len(s) : s[i] = s[j] => i = j
           /\ \A x \in S : \E i \in 1 .. Len(s) : s[i] = x
<1> DEFINE n == Cardinality(S)
           Good(f) == IsInjective(f)
           s == SetToSeq(S)
<1>1. n \in Nat /\ ExistsBijection(1 .. n, S)
  BY FS_CardinalityType
<1>2. \E f \in [1 .. n -> S] : Good(f)
  BY <1>1 DEF ExistsBijection, Bijection, Injection, IsInjective
<1>3. s = CHOOSE f \in [1 .. n -> S] : Good(f)
  BY DEF SetToSeq
<1> HIDE DEF Good
<1>4. s \in [1 .. n -> S] /\ Good(s)
  <2> HIDE DEF s
  <2>1. QED
    BY <1>2, <1>3
<1> HIDE DEF s
<1>5. s \in Seq(S) /\ Len(s) = n /\ DOMAIN s = 1 .. n
  BY <1>1, <1>4
<1>6. \A i, j \in 1 .. n : s[i] = s[j] => i = j
  BY <1>4, <1>5 DEF Good, IsInjective
<1>7. \A x \in S : \E i \in 1 .. n : s[i] = x
  <2> DEFINE T == {s[i] : i \in 1 .. n}
  <2>1. s \in [1 .. n -> T] /\ T \subseteq S
    BY <1>4
  <2>2. IsInjective(s)
    BY <1>4 DEF Good
  <2>3. s \in Bijection(1 .. n, T)
    BY <2>1, <2>2 DEF Bijection, Injection, Surjection
  <2>4. ExistsBijection(1 .. n, T)
    BY <2>3 DEF ExistsBijection
  <2>5. Cardinality(T) = n
    BY <1>1, <2>4, FS_CountingElements
  <2>6. T = S
    BY <2>1, <2>5, FS_Subset
  <2>7. QED
    BY <2>6
<1>8. QED
  BY <1>5, <1>6, <1>7 DEF s


(* What is left to capture: beats of the plan, each once; a failure counts *)
(* one that is left no more.                                               *)
Left == {jobs[i] : i \in 1 .. Len(jobs)}
JobsLeft ==
    /\ phase # "idle" => jobs # <<>> /\ verdict = "none"
    /\ verdict = "ok" => failed = 0
    /\ Left \subseteq Planned(asked.named)
    /\ \A i, j \in 1 .. Len(jobs) : jobs[i] = jobs[j] => i = j
    /\ failed + Len(jobs) <= Cardinality(Ids)

(* Between a plan and the next detection, what was captured is of this     *)
(* take and what is gone from beats.json was purged, if it let itself be.  *)
Capturing == phase # "idle" \/ verdict = "ok"
OfThisTake(b) == clips[b] = [take |-> take, of |-> detected[b]] /\ sidecars[b] = clips[b]
CapturedIsCurrent ==
    Capturing /\ failed = 0 => \A b \in Planned(asked.named) \ Left : OfThisTake(b)
GoneIsPurged ==
    Capturing /\ asked = NoOptions => \A b \in Ids \ (DOMAIN detected \cup stuck) : ~Usable(b)
InFlight ==
    /\ phase = "cleared" => clips[Job] = NoClip
    /\ phase = "moved" => clips[Job] = This

CapInv == /\ CapTypeOK /\ asked.named \subseteq Ids
          /\ JobsLeft /\ CapturedIsCurrent /\ GoneIsPurged /\ InFlight
          /\ SidecarsFit


LEMMA CapInit_Inv == CapInit => CapInv
<1> SUFFICES ASSUME CapInit PROVE CapInv
  OBVIOUS
<1>1. Cardinality(Ids) \in Nat /\ MaxTakes \in Nat
  BY CaptureAssumption, FS_CardinalityType
<1>2. jobs = <<>> /\ Len(jobs) = 0 /\ jobs \in Seq(Ids) /\ Left = {}
  BY DEF CapInit, Left
<1>3. CapTypeOK /\ asked.named = {}
  BY <1>1, <1>2 DEF CapInit, CapTypeOK, Clips, NoClip, NoOptions
<1>4. JobsLeft
  BY <1>1, <1>2 DEF CapInit, JobsLeft
<1>5. QED
  BY <1>3, <1>4 DEF CapInit, CapInv, CapturedIsCurrent, GoneIsPurged, InFlight, SidecarsFit,
     Capturing, Usable

LEMMA CapStutter_Inv == ASSUME CapInv, UNCHANGED capVars PROVE CapInv'
BY DEF CapInv, capVars, CapTypeOK, JobsLeft, Left, CapturedIsCurrent, OfThisTake, GoneIsPurged,
   InFlight, This, Job, SidecarsFit, Usable, Capturing, Planned, Wanted

LEMMA Detects_Inv == ASSUME CapInv, Detects PROVE CapInv'
<1>1. DOMAIN detected' \subseteq Ids /\ \A b \in DOMAIN detected' : detected'[b] \in Moments
  BY DEF Detects
<1>2. jobs = <<>> /\ jobs' = <<>> /\ Left' = {}
  BY DEF CapInv, CapTypeOK, Detects, Left
<1>3. ~Capturing' /\ phase' = "idle" /\ verdict' = "none"
  BY DEF Detects, Capturing
<1>4. CapTypeOK' /\ asked'.named \subseteq Ids
  BY <1>1 DEF Detects, CapInv, CapTypeOK
<1>5. JobsLeft'
  BY <1>2, <1>3 DEF Detects, CapInv, JobsLeft
<1>6. SidecarsFit'
  BY DEF Detects, CapInv, SidecarsFit, Usable
<1>7. QED
  BY <1>3, <1>4, <1>5, <1>6 DEF CapInv, CapturedIsCurrent, GoneIsPurged, InFlight

LEMMA Begins_Inv == ASSUME CapInv, Begins PROVE CapInv'
<1>1. PICK named \in {{}} \cup {{b} : b \in Ids}, keepStale \in BOOLEAN,
           heldClips \in SUBSET Ids, held \in SUBSET Ids :
         /\ asked' = [named |-> named, keepStale |-> keepStale]
         /\ jobs' = SetToSeq(Planned(named))
         /\ clips' = Purged(clips, Stale(clips, named, keepStale), heldClips)
         /\ sidecars' = Purged(sidecars, Stale(sidecars, named, keepStale), held)
         /\ stuck' = heldClips \cap held
  BY DEF Begins, Stale
<1>2. /\ UNCHANGED <<detected, torn>> /\ failed' = 0 /\ take' = take + 1 /\ take < MaxTakes
      /\ phase' = IF jobs' = <<>> THEN "idle" ELSE "waiting"
      /\ verdict' = IF jobs' = <<>> THEN "ok" ELSE "none"
      /\ phase = "idle"
  BY DEF Begins
<1>3. named \subseteq Ids /\ asked'.named = named
  BY <1>1
<1>4. Planned(asked.named)' = Planned(named)
  BY <1>2, <1>3 DEF Planned, Wanted
<1> DEFINE S == Planned(named)
<1>5. S \subseteq Ids /\ IsFiniteSet(S) /\ Cardinality(S) \in Nat /\ Cardinality(S) <= Cardinality(Ids)
  <2>1. S \subseteq DOMAIN detected
    BY DEF Planned, Wanted
  <2>2. S \subseteq Ids
    BY <2>1 DEF CapInv, CapTypeOK
  <2>3. QED
    BY <2>2, CaptureAssumption, FS_Subset, FS_CardinalityType
<1>6. /\ jobs' \in Seq(S) /\ Len(jobs') = Cardinality(S)
      /\ \A i, j \in 1 .. Len(jobs') : jobs'[i] = jobs'[j] => i = j
      /\ \A x \in S : \E i \in 1 .. Len(jobs') : jobs'[i] = x
  <2> HIDE DEF S
  <2>1. QED
    BY <1>1, <1>5, SetToSeqIs DEF S
<1>7. Left' = S
  <2> HIDE DEF S
  <2>1. \A i \in 1 .. Len(jobs') : jobs'[i] \in S
    BY <1>6
  <2>2. QED
    BY <1>6, <2>1 DEF Left
<1>8. jobs' \in Seq(Ids)
  BY <1>5, <1>6
<1>9. CapTypeOK'
  <2>1. NoClip \in Clips
    BY CaptureAssumption DEF NoClip, Clips
  <2>2. clips' \in [Ids -> Clips] /\ sidecars' \in [Ids -> Clips]
    BY <1>1, <2>1 DEF Purged, CapInv, CapTypeOK
  <2>3. failed' \in 0 .. Cardinality(Ids)
    BY <1>2, CaptureAssumption, FS_CardinalityType
  <2>4. take' \in 0 .. MaxTakes
    BY <1>2, CaptureAssumption DEF CapInv, CapTypeOK
  <2>5. phase' \in {"idle", "waiting"} /\ verdict' \in {"ok", "none"} /\ (jobs' # <<>> => phase' # "idle")
    BY <1>2
  <2>6. QED
    BY <1>1, <1>2, <1>8, <2>2, <2>3, <2>4, <2>5 DEF CapInv, CapTypeOK
<1>10. JobsLeft'
  <2>1. failed' + Len(jobs') <= Cardinality(Ids)
    BY <1>2, <1>5, <1>6
  <2> HIDE DEF S
  <2>2. Left' \subseteq Planned(asked.named)'
    BY <1>4, <1>7 DEF S
  <2>3. phase' # "idle" => jobs' # <<>> /\ verdict' = "none"
    BY <1>2
  <2>4. QED
    BY <1>2, <1>6, <2>1, <2>2, <2>3 DEF JobsLeft
<1>11. CapturedIsCurrent'
  BY <1>4, <1>7 DEF CapturedIsCurrent
<1>12. GoneIsPurged'
  <2> SUFFICES ASSUME asked' = NoOptions, NEW b \in Ids, b \notin DOMAIN detected, b \notin stuck'
               PROVE  ~(clips'[b] # NoClip /\ sidecars'[b] # NoClip)
    BY <1>2 DEF GoneIsPurged, Usable
  <2>1. keepStale = FALSE
    BY <1>1 DEF NoOptions
  <2>2. b \notin Wanted(named)
    BY DEF Wanted
  <2>3. b \notin heldClips \/ b \notin held
    BY <1>1
  <2>4. QED
    BY <1>1, <2>1, <2>2, <2>3 DEF Purged, Stale
<1>13. InFlight'
  BY <1>2 DEF InFlight
<1>14. SidecarsFit'
  BY <1>1, <1>2 DEF SidecarsFit, Usable, Purged, CapInv
<1>15. QED
  BY <1>3, <1>9, <1>10, <1>11, <1>12, <1>13, <1>14 DEF CapInv

(* The beat that is being captured is of the plan. *)
LEMMA JobIsPlanned ==
    ASSUME CapInv, phase # "idle"
    PROVE  /\ Job \in Planned(asked.named) /\ Job \in Left /\ Job \in Ids
           /\ Job \in DOMAIN detected /\ This \in Clips
           /\ jobs \in Seq(Ids) /\ Len(jobs) \in Nat \ {0} /\ Job = jobs[1]
           /\ verdict = "none" /\ Capturing
<1>1. jobs \in Seq(Ids) /\ jobs # <<>> /\ verdict = "none"
  BY DEF CapInv, CapTypeOK, JobsLeft
<1>2. Len(jobs) \in Nat \ {0} /\ Job = jobs[1]
  BY <1>1 DEF Job
<1>3. Job \in Left
  BY <1>2 DEF Left
<1>4. Job \in Planned(asked.named)
  BY <1>3 DEF CapInv, JobsLeft
<1>5. Job \in DOMAIN detected
  BY <1>4 DEF Planned, Wanted
<1>6. Job \in Ids /\ detected[Job] \in Moments /\ take \in 0 .. MaxTakes
  BY <1>5 DEF CapInv, CapTypeOK
<1>7. This \in Clips
  BY <1>6 DEF This, Clips
<1>8. QED
  BY <1>1, <1>2, <1>3, <1>4, <1>5, <1>6, <1>7 DEF Capturing

(* The end of a beat takes it off what is left. *)
LEMMA ResultIs ==
    ASSUME CapInv, phase # "idle", NEW ok \in BOOLEAN, Result(ok), UNCHANGED <<detected, asked, take>>
    PROVE  /\ Left' = Left \ {Job} /\ JobsLeft' /\ jobs' \in Seq(Ids)
           /\ Planned(asked.named)' = Planned(asked.named)
           /\ phase' \in {"idle", "waiting"} /\ (jobs' # <<>> => phase' # "idle")
           /\ verdict' \in {"none", "ok", "failed"}
           /\ failed' \in 0 .. Cardinality(Ids) /\ (failed' = 0 => ok /\ failed = 0)
<1> DEFINE n == Len(jobs)
           t == Tail(jobs)
<1>1. jobs \in Seq(Ids) /\ n \in Nat \ {0} /\ Job = jobs[1] /\ jobs # <<>>
  BY JobIsPlanned
<1>2. /\ jobs' = t /\ t \in Seq(Ids) /\ Len(t) = n - 1
      /\ \A i \in 1 .. n - 1 : t[i] = jobs[i + 1]
  BY <1>1 DEF Result
<1>3. \A i, j \in 1 .. n : jobs[i] = jobs[j] => i = j
  BY DEF CapInv, JobsLeft
<1> HIDE DEF t
<1>4. Left' = Left \ {Job}
  <2>1. Left' = {t[i] : i \in 1 .. n - 1}
    BY <1>2 DEF Left
  <2>2. ASSUME NEW x \in Left' PROVE x \in Left \ {Job}
    <3>1. PICK i \in 1 .. n - 1 : x = t[i]
      BY <2>1, <2>2
    <3>2. i + 1 \in 1 .. n /\ x = jobs[i + 1] /\ 1 \in 1 .. n /\ i + 1 # 1
      BY <1>1, <1>2, <3>1
    <3>3. jobs[i + 1] # jobs[1]
      BY <1>3, <3>2
    <3>4. QED
      BY <1>1, <3>2, <3>3 DEF Left
  <2>3. ASSUME NEW x \in Left, x # Job PROVE x \in Left'
    <3>1. PICK i \in 1 .. n : x = jobs[i]
      BY DEF Left
    <3>2. i - 1 \in 1 .. n - 1 /\ i - 1 + 1 = i
      BY <1>1, <2>3, <3>1
    <3>3. x = t[i - 1]
      BY <1>2, <3>1, <3>2
    <3>4. QED
      BY <2>1, <3>2, <3>3
  <2>4. QED
    BY <2>2, <2>3
<1>5. Planned(asked.named)' = Planned(asked.named)
  BY DEF Planned, Wanted
<1>6. failed \in Nat /\ failed + n <= Cardinality(Ids) /\ Cardinality(Ids) \in Nat
  BY CaptureAssumption, FS_CardinalityType DEF CapInv, CapTypeOK, JobsLeft
<1>7. failed' = (IF ok THEN failed ELSE failed + 1)
  BY DEF Result
<1>8. /\ failed' \in 0 .. Cardinality(Ids) /\ (failed' = 0 => ok /\ failed = 0)
      /\ failed' + Len(jobs') <= Cardinality(Ids)
  BY <1>1, <1>2, <1>6, <1>7
<1>9. /\ phase' = (IF jobs' = <<>> THEN "idle" ELSE "waiting")
      /\ verdict' = IF jobs' # <<>> THEN "none" ELSE IF failed' = 0 THEN "ok" ELSE "failed"
  BY DEF Result
<1>10. \A i, j \in 1 .. Len(jobs') : jobs'[i] = jobs'[j] => i = j
  <2>1. SUFFICES ASSUME NEW i \in 1 .. n - 1, NEW j \in 1 .. n - 1, t[i] = t[j] PROVE i = j
    BY <1>2
  <2>2. i + 1 \in 1 .. n /\ j + 1 \in 1 .. n /\ jobs[i + 1] = jobs[j + 1]
    BY <1>1, <1>2, <2>1
  <2>3. i + 1 = j + 1
    BY <1>3, <2>2
  <2>4. QED
    BY <1>1, <2>3
<1>11. Left' \subseteq Planned(asked.named)'
  BY <1>4, <1>5 DEF CapInv, JobsLeft
<1>12. phase' # "idle" => jobs' # <<>> /\ verdict' = "none"
  BY <1>9
<1>13. verdict' = "ok" => failed' = 0
  BY <1>9
<1>14. JobsLeft'
  BY <1>8, <1>10, <1>11, <1>12, <1>13 DEF JobsLeft
<1>15. QED
  BY <1>2, <1>4, <1>5, <1>8, <1>9, <1>14

(* What a capture that goes on leaves as it is. *)
LEMMA CapturingStays ==
    ASSUME CapInv, phase # "idle", NEW ok \in BOOLEAN, Result(ok), UNCHANGED <<detected, clips, asked, take, stuck>>,
           \A b \in Ids : b # Job => sidecars'[b] = sidecars[b]
    PROVE  GoneIsPurged' /\ InFlight' /\ JobsLeft' /\ asked'.named \subseteq Ids
<1>1. GoneIsPurged'
  BY JobIsPlanned DEF CapInv, GoneIsPurged, Usable
<1>2. InFlight'
  BY ResultIs DEF InFlight
<1>3. QED
  BY <1>1, <1>2, ResultIs DEF CapInv

LEMMA Fails_Inv ==
    ASSUME CapInv, phase # "idle", Result(FALSE), UNCHANGED <<detected, clips, sidecars, asked, take, stuck>>,
           \/ phase # "moved" /\ UNCHANGED torn
           \/ torn' = torn \cup {Job}
    PROVE  CapInv'
<1>1. failed' # 0
  BY ResultIs
<1>2. CapturedIsCurrent'
  BY <1>1 DEF CapturedIsCurrent
<1>3. torn' \subseteq Ids
  BY JobIsPlanned DEF CapInv, CapTypeOK
<1>4. CapTypeOK'
  BY <1>3, ResultIs DEF CapInv, CapTypeOK
<1>5. SidecarsFit'
  <2>1. phase' # "moved"
    BY ResultIs
  <2>2. \A b \in Ids : b \notin torn' => b \notin torn /\ ~(phase = "moved" /\ b = Job)
    OBVIOUS
  <2>3. QED
    BY <2>1, <2>2 DEF CapInv, SidecarsFit, Usable
<1>6. QED
  BY <1>2, <1>4, <1>5, CapturingStays DEF CapInv

LEMMA Misses_Inv == ASSUME CapInv, Misses PROVE CapInv'
BY Fails_Inv DEF Misses
LEMMA MoveFails_Inv == ASSUME CapInv, MoveFails PROVE CapInv'
BY Fails_Inv DEF MoveFails
LEMMA NoteFails_Inv == ASSUME CapInv, NoteFails PROVE CapInv'
BY Fails_Inv DEF NoteFails

LEMMA NotesTheClip_Inv == ASSUME CapInv, NotesTheClip PROVE CapInv'
<1>1. /\ phase = "moved" /\ Result(TRUE) /\ UNCHANGED <<detected, clips, asked, take, stuck>>
      /\ sidecars' = [sidecars EXCEPT ![Job] = This] /\ torn' = torn \ {Job}
  BY DEF NotesTheClip, Noted
<1>2. clips[Job] = This /\ sidecars'[Job] = This /\ Job \in Ids /\ This \in Clips
  BY <1>1, JobIsPlanned DEF CapInv, CapTypeOK, InFlight
<1>3. sidecars' \in [Ids -> Clips] /\ torn' \subseteq Ids
  BY <1>1, <1>2 DEF CapInv, CapTypeOK
<1>4. CapTypeOK'
  BY <1>1, <1>3, ResultIs DEF CapInv, CapTypeOK
<1>5. CapturedIsCurrent'
  <2>1. SUFFICES ASSUME Capturing', failed' = 0, NEW b \in Planned(asked.named), b \notin Left \ {Job}
                 PROVE  OfThisTake(b)'
    BY <1>1, ResultIs DEF CapturedIsCurrent
  <2>2. failed = 0 /\ Capturing
    BY <1>1, <2>1, ResultIs, JobIsPlanned
  <2>3. CASE b = Job
    BY <1>1, <1>2, <2>3 DEF OfThisTake, This
  <2>4. CASE b # Job
    <3>1. OfThisTake(b)
      BY <2>1, <2>2, <2>4 DEF CapInv, CapturedIsCurrent
    <3>2. sidecars'[b] = sidecars[b]
      <4>1. b \in Ids
        BY DEF Planned, Wanted, CapInv, CapTypeOK
      <4>2. QED
        BY <1>1, <2>4, <4>1 DEF CapInv, CapTypeOK
    <3>3. QED
      BY <1>1, <3>1, <3>2 DEF OfThisTake
  <2>5. QED
    BY <2>3, <2>4
<1>6. SidecarsFit'
  <2> SUFFICES ASSUME NEW b \in Ids, Usable(b)', b \notin torn' PROVE clips'[b] = sidecars'[b]
    BY DEF SidecarsFit
  <2>1. CASE b = Job
    BY <1>1, <1>2, <2>1
  <2>2. CASE b # Job
    <3>1. sidecars'[b] = sidecars[b] /\ b \notin torn
      BY <1>1, <2>2 DEF CapInv, CapTypeOK
    <3>2. QED
      BY <1>1, <2>2, <3>1 DEF CapInv, SidecarsFit, Usable
  <2>3. QED
    BY <2>1, <2>2
<1>7. \A b \in Ids : b # Job => sidecars'[b] = sidecars[b]
  BY <1>1 DEF CapInv, CapTypeOK
<1>8. QED
  BY <1>1, <1>4, <1>5, <1>6, <1>7, CapturingStays DEF CapInv

LEMMA Records_Inv == ASSUME CapInv, Records PROVE CapInv'
BY DEF Records, CapInv, CapTypeOK, JobsLeft, Left, CapturedIsCurrent, OfThisTake, GoneIsPurged,
   InFlight, This, Job, SidecarsFit, Usable, Capturing, Planned, Wanted

(* The file of the beat that is captured is removed, or put. *)
LEMMA FileMoves_Inv ==
    ASSUME CapInv, phase # "idle", NEW clip \in Clips,
           UNCHANGED <<detected, sidecars, jobs, asked, failed, take, verdict, torn, stuck>>,
           clips' = [clips EXCEPT ![Job] = clip],
           \/ phase' = "cleared" /\ clip = NoClip
           \/ phase' = "moved" /\ clip = This
    PROVE  CapInv'
<1>1. /\ Job \in Ids /\ Job \in Left /\ Job \in DOMAIN detected /\ clips'[Job] = clip
      /\ Job' = Job /\ This' = This /\ Left' = Left /\ Capturing /\ Capturing'
      /\ jobs # <<>> /\ verdict = "none"
  BY JobIsPlanned DEF CapInv, CapTypeOK, Job, This, Left, Capturing
<1>2. \A b \in Ids : b # Job => clips'[b] = clips[b]
  BY DEF CapInv, CapTypeOK
<1>3. CapTypeOK' /\ asked'.named \subseteq Ids
  BY DEF CapInv, CapTypeOK
<1>4. Planned(asked.named)' = Planned(asked.named)
  BY DEF Planned, Wanted
<1>5. JobsLeft'
  BY <1>1, <1>4 DEF CapInv, JobsLeft
<1>6. CapturedIsCurrent'
  <2> SUFFICES ASSUME failed = 0, NEW b \in Planned(asked.named), b \notin Left
               PROVE  OfThisTake(b)'
    BY <1>1, <1>4 DEF CapturedIsCurrent
  <2>1. OfThisTake(b)
    BY <1>1 DEF CapInv, CapturedIsCurrent
  <2>2. b \in Ids /\ b # Job
    BY <1>1 DEF Planned, Wanted, CapInv, CapTypeOK
  <2>3. QED
    BY <1>2, <2>1, <2>2 DEF OfThisTake
<1>7. GoneIsPurged'
  BY <1>1, <1>2 DEF CapInv, GoneIsPurged, Usable
<1>8. InFlight'
  BY <1>1 DEF InFlight
<1>9. SidecarsFit'
  <2> SUFFICES ASSUME NEW b \in Ids, Usable(b)', b \notin torn, ~(phase' = "moved" /\ b = Job)
               PROVE  clips'[b] = sidecars[b]
    BY <1>1 DEF SidecarsFit
  <2>1. b # Job
    BY <1>1 DEF Usable
  <2>2. QED
    BY <1>2, <2>1 DEF CapInv, SidecarsFit, Usable
<1>10. QED
  BY <1>3, <1>5, <1>6, <1>7, <1>8, <1>9 DEF CapInv

LEMMA Clears_Inv == ASSUME CapInv, Clears PROVE CapInv'
<1>1. NoClip \in Clips
  BY CaptureAssumption DEF NoClip, Clips
<1>2. QED
  BY <1>1, FileMoves_Inv DEF Clears
LEMMA Moves_Inv == ASSUME CapInv, Moves PROVE CapInv'
BY JobIsPlanned, FileMoves_Inv DEF Moves

LEMMA Interrupted_Inv == ASSUME CapInv, Interrupted PROVE CapInv'
<1>1. /\ jobs' = <<>> /\ phase' = "idle" /\ verdict' = "interrupted"
      /\ UNCHANGED <<detected, clips, sidecars, asked, failed, take, stuck>>
      /\ torn' = IF phase \in {"cleared", "moved"} THEN torn \cup {Job} ELSE torn
      /\ phase # "idle"
  BY DEF Interrupted
<1>2. torn' \subseteq Ids
  BY <1>1, JobIsPlanned DEF CapInv, CapTypeOK
<1>3. jobs' \in Seq(Ids) /\ Left' = {} /\ Len(jobs') = 0
  BY <1>1 DEF Left
<1>4. CapTypeOK'
  BY <1>1, <1>2, <1>3 DEF CapInv, CapTypeOK
<1>5. JobsLeft'
  <2>1. failed \in Nat /\ failed <= Cardinality(Ids) /\ Cardinality(Ids) \in Nat
    BY CaptureAssumption, FS_CardinalityType DEF CapInv, CapTypeOK
  <2>2. failed' + Len(jobs') <= Cardinality(Ids)
    BY <1>1, <1>3, <2>1
  <2>3. \A i, j \in 1 .. Len(jobs') : i = j
    BY <1>3
  <2>4. QED
    BY <1>1, <1>3, <2>2, <2>3 DEF JobsLeft
<1>6. ~Capturing'
  BY <1>1 DEF Capturing
<1>7. SidecarsFit'
  <2>1. \A b \in Ids : b \notin torn' => b \notin torn /\ ~(phase = "moved" /\ b = Job)
    BY <1>1
  <2>2. QED
    BY <1>1, <2>1 DEF CapInv, SidecarsFit, Usable
<1>8. QED
  BY <1>1, <1>4, <1>5, <1>6, <1>7 DEF CapInv, CapturedIsCurrent, GoneIsPurged, InFlight

LEMMA CapNext_Inv == CapInv /\ [CapNext]_capVars => CapInv'
  BY CapStutter_Inv, Detects_Inv, Begins_Inv, Records_Inv, Misses_Inv, Clears_Inv, Moves_Inv,
     MoveFails_Inv, NotesTheClip_Inv, NoteFails_Inv, Interrupted_Inv DEF CapNext

THEOREM CapInvHolds == CapSpec => []CapInv
  BY CapInit_Inv, CapNext_Inv, PTL DEF CapSpec

(* The stitcher finds clips of the beats as they are beside sidecars that  *)
(* fit them, after any captures, failures, interruptions and detections.   *)
THEOREM ClipsAreCurrentHolds == CapSpec => []ClipsAreCurrent
<1>1. CapInv => ClipsAreCurrent
  <2> SUFFICES ASSUME CapInv, verdict = "ok", asked = NoOptions, NEW b \in Ids
               PROVE  /\ b \in Planned({}) => /\ clips[b].of = detected[b] /\ clips[b] = sidecars[b]
                                              /\ clips[b].take = take
                      /\ b \notin DOMAIN detected \cup stuck => ~Usable(b)
    BY DEF ClipsAreCurrent, CapInv, SuccessIsCurrent
  <2>1. Capturing /\ failed = 0 /\ phase = "idle" /\ asked.named = {}
    BY DEF CapInv, JobsLeft, Capturing, NoOptions
  <2>2. Left = {}
    BY <2>1 DEF CapInv, CapTypeOK, Left
  <2>3. b \in Planned({}) => OfThisTake(b)
    BY <2>1, <2>2 DEF CapInv, CapturedIsCurrent
  <2>4. b \notin DOMAIN detected \cup stuck => ~Usable(b)
    BY <2>1 DEF CapInv, GoneIsPurged
  <2>5. QED
    BY <2>3, <2>4 DEF OfThisTake, Usable
<1>2. QED
  BY <1>1, CapInvHolds, PTL


-------------------------------------------------------------------------------
VoicingType ==
    [on : BOOLEAN, last : {"none", "ok", "failed", "killed"}, force : BOOLEAN,
     at : 1 .. LastLine + 1, script : [Lines -> Texts \cup {Silent}],
     kept : Rows(Texts), rows : Rows(Texts), failed : SUBSET Lines]

(* A run keeps rows of the index alone, and none if it is forced.          *)
KeptIsOfIndex ==
    /\ voicing.force => DOMAIN voicing.kept = {}
    /\ \A i \in DOMAIN voicing.kept : i \in DOMAIN index /\ voicing.kept[i] = index[i]

(* The lines behind it have a row or have failed, and a row fits its wav   *)
(* as the index will have to.                                              *)
RowFits(i) ==
    /\ voicing.rows[i].text = voicing.script[i] /\ wav[i] # Silent
    /\ voicing.rows[i].length = wav[i] \/ i \in overwritten \cap DOMAIN voicing.kept
    /\ voicing.rows[i].text = wav[i] \/ wav[i] = Garbled \/ i \in rewritten
    /\ voicing.force => wav[i] \in {voicing.script[i], Garbled}
Behind(at) == {i \in Lines : i < at /\ voicing.script[i] # Silent}
SoFar ==
    /\ DOMAIN voicing.rows \cup voicing.failed = Behind(voicing.at)
    /\ DOMAIN voicing.rows \cap voicing.failed = {}
    /\ \A i \in DOMAIN voicing.rows : RowFits(i)

(* What is rewritten while a run is at it is noted until the run speaks it.*)
Spoken == \A i \in Lines : wav[i] \in {Silent, Garbled, script[i]} \/ i \in rewritten
AsRead ==
    voicing.on =>
       \A i \in Lines : i >= voicing.at => script[i] = voicing.script[i] \/ i \in rewritten

VoiceInv == /\ VoiceTypeOK /\ voicing \in VoicingType
            /\ IF voicing.on THEN voicing.last = "none" ELSE DOMAIN voicing.kept = {} /\ voicing.at = 1
            /\ KeptIsOfIndex /\ SoFar /\ Spoken /\ AsRead
            /\ IndexIsHeard


(* No rows. *)
LEMMA NoRowsIs == NoRows \in Rows(Texts) /\ DOMAIN NoRows = {}
<1>1. DOMAIN NoRows = {} /\ NoRows \in [{} -> [text : Texts, length : Texts \cup {Garbled}]]
  BY DEF NoRows
<1>2. {} \in SUBSET Lines
  OBVIOUS
<1>3. QED
  BY <1>1, <1>2 DEF Rows

LEMMA RowsIs ==
    ASSUME NEW r
    PROVE  r \in Rows(Texts) <=>
              /\ DOMAIN r \subseteq Lines
              /\ r = [i \in DOMAIN r |-> r[i]]
              /\ \A i \in DOMAIN r : r[i] \in [text : Texts, length : Texts \cup {Garbled}]
BY DEF Rows

LEMMA NotVoicingIs ==
    /\ NotVoicing \in VoicingType
    /\ ~NotVoicing.on /\ NotVoicing.last = "none" /\ NotVoicing.at = 1 /\ NotVoicing.force = FALSE
    /\ NotVoicing.rows = NoRows /\ NotVoicing.kept = NoRows /\ NotVoicing.failed = {}
<1>1. 1 \in 1 .. LastLine + 1
  BY VoiceAssumption
<1>2. QED
  BY <1>1, NoRowsIs DEF NotVoicing, VoicingType

LEMMA VoiceInit_Inv == VoiceInit => VoiceInv
<1> SUFFICES ASSUME VoiceInit PROVE VoiceInv
  OBVIOUS
<1>1. /\ script \in [Lines -> Texts] /\ wav = [i \in Lines |-> Silent] /\ index = NoRows
      /\ voicing = NotVoicing /\ rewritten = {} /\ overwritten = {} /\ voiced = 0
  BY DEF VoiceInit
<1>2. Behind(1) = {}
  BY DEF Behind, Lines
<1>3. VoiceTypeOK
  BY <1>1, NoRowsIs, NotVoicingIs, VoiceAssumption DEF VoiceTypeOK
<1>4. KeptIsOfIndex /\ SoFar /\ Spoken /\ AsRead
  BY <1>1, <1>2, NoRowsIs, NotVoicingIs DEF KeptIsOfIndex, SoFar, Spoken, AsRead
<1>5. IndexIsHeard
  BY <1>1, NoRowsIs, NotVoicingIs DEF IndexIsHeard, LengthsFit, TextsFit, OkMeansVoiced
<1>6. QED
  BY <1>1, <1>3, <1>4, <1>5, NoRowsIs, NotVoicingIs DEF VoiceInv

LEMMA VoiceStutter_Inv == ASSUME VoiceInv, UNCHANGED voiceVars PROVE VoiceInv'
BY DEF VoiceInv, voiceVars, VoiceTypeOK, KeptIsOfIndex, SoFar, RowFits, Behind, Spoken, AsRead,
   IndexIsHeard, LengthsFit, TextsFit, OkMeansVoiced

LEMMA Rewrites_Inv == ASSUME VoiceInv, Rewrites PROVE VoiceInv'
<1>1. PICK i \in Lines, text \in Texts \cup {Silent} :
         script' = [script EXCEPT ![i] = text] /\ rewritten' = rewritten \cup {i}
  BY DEF Rewrites
<1>2. UNCHANGED <<wav, index, voicing, overwritten, voiced>>
  BY DEF Rewrites
<1>3. script \in [Lines -> Texts \cup {Silent}] /\ rewritten \cup overwritten \subseteq Lines
  BY DEF VoiceInv, VoiceTypeOK
<1>4. script' \in [Lines -> Texts \cup {Silent}] /\ \A j \in Lines : j # i => script'[j] = script[j]
  BY <1>1, <1>3
<1>5. rewritten' \cup overwritten' \subseteq Lines
  BY <1>1, <1>2, <1>3
<1>6. VoiceTypeOK'
  BY <1>2, <1>4, <1>5 DEF VoiceInv, VoiceTypeOK
<1>7. KeptIsOfIndex' /\ SoFar'
  BY <1>1, <1>2 DEF VoiceInv, KeptIsOfIndex, SoFar, RowFits, Behind
<1>8. Spoken' /\ AsRead'
  BY <1>1, <1>2, <1>4 DEF VoiceInv, Spoken, AsRead
<1>9. IndexIsHeard'
  BY <1>1, <1>2 DEF VoiceInv, IndexIsHeard, LengthsFit, TextsFit, OkMeansVoiced
<1>10. QED
  BY <1>2, <1>6, <1>7, <1>8, <1>9 DEF VoiceInv

LEMMA BeginsToSpeak_Inv == ASSUME VoiceInv, BeginsToSpeak PROVE VoiceInv'
<1>1. PICK force \in BOOLEAN :
         voicing' = [NotVoicing EXCEPT !.on = TRUE, !.force = force, !.script = script, !.kept = Kept(force)]
  BY DEF BeginsToSpeak
<1>2. UNCHANGED <<script, wav, index, rewritten, overwritten>> /\ voiced < MaxVoiceRuns /\ voiced' = voiced + 1
  BY DEF BeginsToSpeak
<1>3. Kept(force) \in Rows(Texts) /\ script \in [Lines -> Texts \cup {Silent}]
  BY NoRowsIs DEF Kept, VoiceInv, VoiceTypeOK
<1>4. /\ voicing' \in VoicingType /\ voicing'.on /\ voicing'.last = "none" /\ voicing'.at = 1
      /\ voicing'.rows = NoRows /\ voicing'.failed = {} /\ voicing'.script = script
      /\ voicing'.force = force /\ voicing'.kept = Kept(force)
  BY <1>1, <1>3, NotVoicingIs DEF VoicingType
<1>5. Behind(voicing.at)' = {}
  BY <1>4 DEF Behind, Lines
<1>6. voiced' \in 0 .. MaxVoiceRuns
  BY <1>2, VoiceAssumption DEF VoiceInv, VoiceTypeOK
<1>7. voicing'.at \in 1 .. LastLine + 1
  BY <1>4 DEF VoicingType
<1>8. VoiceTypeOK'
  BY <1>2, <1>4, <1>6, <1>7, NoRowsIs DEF VoiceInv, VoiceTypeOK
<1>9. KeptIsOfIndex'
  BY <1>2, <1>4, NoRowsIs DEF KeptIsOfIndex, Kept
<1>10. SoFar'
  BY <1>4, <1>5, NoRowsIs DEF SoFar
<1>11. Spoken' /\ AsRead'
  BY <1>2, <1>4 DEF VoiceInv, Spoken, AsRead
<1>12. IndexIsHeard'
  BY <1>2, <1>4 DEF VoiceInv, IndexIsHeard, LengthsFit, TextsFit, OkMeansVoiced
<1>13. QED
  BY <1>4, <1>8, <1>9, <1>10, <1>11, <1>12 DEF VoiceInv

(* What a run does at its line: its wav may change, it may get a row or    *)
(* fail, and all other lines stay as they are.                             *)
LEMMA LineDone_Inv ==
    ASSUME VoiceInv, NEW i \in Lines, AtLine(i), UNCHANGED <<script, index, voiced>>,
           voicing' \in VoicingType, voicing'.on, voicing'.at = voicing.at + 1, voicing'.last = voicing.last,
           voicing'.force = voicing.force, voicing'.script = voicing.script, voicing'.kept = voicing.kept,
           DOMAIN voicing'.rows \ {i} = DOMAIN voicing.rows, voicing'.failed \ {i} = voicing.failed,
           \A j \in DOMAIN voicing.rows : j # i => voicing'.rows[j] = voicing.rows[j],
           i \in DOMAIN voicing'.rows \cup voicing'.failed <=> Text(i) # Silent,
           i \notin DOMAIN voicing'.rows \cap voicing'.failed,
           i \in DOMAIN voicing'.rows => RowFits(i)',
           wav' \in [Lines -> Texts \cup {Silent, Garbled}], \A j \in Lines : j # i => wav'[j] = wav[j],
           wav'[i] # wav[i] => i \in overwritten',
           wav'[i] \in {Silent, Garbled, script[i]} \/ i \in rewritten',
           overwritten \subseteq overwritten', overwritten' \subseteq overwritten \cup {i},
           rewritten' \subseteq rewritten, rewritten \subseteq rewritten' \cup {i},
           i \in rewritten => i \in rewritten' \cup overwritten'
    PROVE  VoiceInv'
<1>1. /\ voicing.on /\ voicing.at = i /\ i \in Nat /\ Lines \subseteq Nat /\ voicing.last = "none"
      /\ rewritten \cup overwritten \subseteq Lines
      /\ voicing \in VoicingType
  BY VoiceAssumption DEF AtLine, Lines, VoiceInv, VoiceTypeOK
<1>2. Behind(voicing.at)' = Behind(voicing.at) \cup (IF Text(i) # Silent THEN {i} ELSE {})
  <2>1. \A j \in Lines : j < i + 1 <=> j < i \/ j = i
    BY <1>1
  <2>2. QED
    BY <1>1, <2>1 DEF Behind, Text
<1>3. SoFar'
  <2>1. DOMAIN voicing.rows \cup voicing.failed = Behind(i)
    BY <1>1 DEF VoiceInv, SoFar
  <2>2. i \notin Behind(i)
    BY <1>1 DEF Behind
  <2>3. DOMAIN voicing'.rows \cup voicing'.failed = Behind(voicing.at)'
    BY <1>1, <1>2, <2>1, <2>2
  <2>4. DOMAIN voicing'.rows \cap voicing'.failed = {}
    BY DEF VoiceInv, SoFar
  <2>5. ASSUME NEW j \in DOMAIN voicing'.rows, j # i PROVE RowFits(j)'
    <3>1. RowFits(j) /\ j \in Lines /\ voicing'.rows[j] = voicing.rows[j] /\ wav'[j] = wav[j]
      BY <2>1, <2>5 DEF VoiceInv, SoFar, Behind
    <3>2. QED
      BY <2>5, <3>1 DEF RowFits
  <2>6. QED
    BY <2>3, <2>4, <2>5 DEF SoFar
<1>4. VoiceTypeOK'
  <2>1. voicing'.at \in 1 .. LastLine + 1 /\ voicing'.rows \in Rows(Texts)
    BY DEF VoicingType
  <2>2. rewritten' \cup overwritten' \subseteq Lines
    BY <1>1
  <2>3. \A j \in DOMAIN voicing'.rows \cup voicing'.failed : j < voicing'.at /\ voicing'.script[j] # Silent
    BY <1>3 DEF SoFar, Behind
  <2>4. QED
    BY <1>3, <2>1, <2>2, <2>3 DEF VoiceInv, VoiceTypeOK, SoFar
<1>5. KeptIsOfIndex'
  BY DEF VoiceInv, KeptIsOfIndex
<1>6. Spoken'
  <2> SUFFICES ASSUME NEW j \in Lines, j # i
               PROVE  wav'[j] \in {Silent, Garbled, script[j]} \/ j \in rewritten'
    BY DEF Spoken
  <2>1. QED
    BY DEF VoiceInv, Spoken
<1>7. AsRead'
  <2> SUFFICES ASSUME NEW j \in Lines, j >= i + 1
               PROVE  script[j] = voicing.script[j] \/ j \in rewritten'
    BY <1>1 DEF AsRead
  <2>1. j >= i /\ j # i
    BY <1>1
  <2>2. QED
    BY <1>1, <2>1 DEF VoiceInv, AsRead
<1>8. IndexIsHeard'
  <2>1. DOMAIN index \subseteq Lines
    BY RowsIs DEF VoiceInv, VoiceTypeOK
  <2>2. LengthsFit'
    BY <2>1 DEF LengthsFit, VoiceInv, IndexIsHeard
  <2>3. TextsFit'
    BY <2>1 DEF TextsFit, VoiceInv, IndexIsHeard
  <2>4. OkMeansVoiced'
    BY <1>1 DEF OkMeansVoiced
  <2>5. QED
    BY <2>2, <2>3, <2>4 DEF IndexIsHeard
<1>9. QED
  BY <1>1, <1>3, <1>4, <1>5, <1>6, <1>7, <1>8 DEF VoiceInv


LEMMA AtItsLine ==
    ASSUME VoiceInv, NEW i \in Lines, AtLine(i)
    PROVE  /\ voicing.on /\ voicing.at = i /\ i + 1 \in 1 .. LastLine + 1 /\ voicing \in VoicingType
           /\ i \notin DOMAIN voicing.rows /\ i \notin voicing.failed
           /\ DOMAIN voicing.rows \subseteq Lines /\ Text(i) \in Texts \cup {Silent}
           /\ wav \in [Lines -> Texts \cup {Silent, Garbled}] /\ voicing.script \in [Lines -> Texts \cup {Silent}]
<1>1. voicing.on /\ voicing.at = i /\ i + 1 \in 1 .. LastLine + 1 /\ voicing \in VoicingType /\ i \in Nat
  BY VoiceAssumption DEF AtLine, Lines, VoiceInv
<1>2. i \notin Behind(i)
  BY <1>1 DEF Behind
<1>3. i \notin DOMAIN voicing.rows /\ i \notin voicing.failed
  BY <1>1, <1>2 DEF VoiceInv, SoFar
<1>4. voicing.rows \in Rows(Texts) /\ voicing.script \in [Lines -> Texts \cup {Silent}]
  BY <1>1 DEF VoicingType
<1>5. QED
  BY <1>1, <1>3, <1>4, RowsIs DEF VoiceInv, VoiceTypeOK, Text

(* The row of the line at i. *)
LEMMA WithRowIs ==
    ASSUME VoiceInv, NEW i \in Lines, AtLine(i), Text(i) # Silent, NEW length \in Texts \cup {Garbled},
           NEW v, v = WithRow(i, length)
    PROVE  /\ v \in VoicingType /\ v.on /\ v.at = voicing.at + 1 /\ v.last = voicing.last
           /\ v.force = voicing.force /\ v.script = voicing.script /\ v.kept = voicing.kept
           /\ v.failed = voicing.failed
           /\ DOMAIN v.rows = DOMAIN voicing.rows \cup {i}
           /\ \A j \in DOMAIN voicing.rows : j # i => v.rows[j] = voicing.rows[j]
           /\ v.rows[i].text = Text(i) /\ v.rows[i].length = length
<1> DEFINE row == [text |-> Text(i), length |-> length]
           rows == [j \in DOMAIN voicing.rows \cup {i} |-> IF j = i THEN row ELSE voicing.rows[j]]
<1>1. row \in [text : Texts, length : Texts \cup {Garbled}] /\ row.text = Text(i) /\ row.length = length
  BY AtItsLine
<1>2. voicing.rows \in Rows(Texts) /\ DOMAIN voicing.rows \subseteq Lines
  BY AtItsLine DEF VoicingType
<1> HIDE DEF row
<1>3. /\ DOMAIN rows = DOMAIN voicing.rows \cup {i} /\ rows[i] = row
      /\ \A j \in DOMAIN voicing.rows : j # i => rows[j] = voicing.rows[j]
      /\ rows = [j \in DOMAIN rows |-> rows[j]]
  OBVIOUS
<1>4. v = [[voicing EXCEPT !.at = @ + 1] EXCEPT !.rows = rows]
  <2>1. v = [[voicing EXCEPT !.at = @ + 1] EXCEPT !.rows = [j \in DOMAIN @ \cup {i} |-> IF j = i THEN row ELSE @[j]]]
    BY DEF WithRow, PassedOver, row
  <2>2. [voicing EXCEPT !.at = @ + 1].rows = voicing.rows
    BY AtItsLine DEF VoicingType
  <2>3. QED
    BY <2>1, <2>2
<1> HIDE DEF rows
<1>5. rows \in Rows(Texts)
  <2>1. ASSUME NEW j \in DOMAIN rows PROVE rows[j] \in [text : Texts, length : Texts \cup {Garbled}]
    BY <1>1, <1>2, <1>3, <2>1, RowsIs
  <2>2. DOMAIN rows \subseteq Lines
    BY <1>2, <1>3
  <2>3. QED
    BY <1>3, <2>1, <2>2, RowsIs
<1>6. voicing.on /\ voicing.at = i /\ i + 1 \in 1 .. LastLine + 1 /\ voicing \in VoicingType
  BY AtItsLine
<1>7. /\ v \in VoicingType /\ v.on /\ v.at = voicing.at + 1 /\ v.last = voicing.last
      /\ v.force = voicing.force /\ v.script = voicing.script /\ v.kept = voicing.kept
      /\ v.failed = voicing.failed /\ v.rows = rows
  BY <1>4, <1>5, <1>6 DEF VoicingType
<1>8. QED
  BY <1>1, <1>3, <1>7

LEMMA PassesOver_Inv == ASSUME VoiceInv, NEW i \in Lines, PassesOver(i) PROVE VoiceInv'
<1>1. /\ AtLine(i) /\ Text(i) = Silent /\ voicing' = [voicing EXCEPT !.at = @ + 1]
      /\ UNCHANGED <<script, wav, index, rewritten, overwritten, voiced>>
  BY DEF PassesOver, PassedOver
<1>2. /\ voicing' \in VoicingType /\ voicing'.on /\ voicing'.at = voicing.at + 1 /\ voicing'.last = voicing.last
      /\ voicing'.force = voicing.force /\ voicing'.script = voicing.script /\ voicing'.kept = voicing.kept
      /\ voicing'.rows = voicing.rows /\ voicing'.failed = voicing.failed
  BY <1>1, AtItsLine DEF VoicingType
<1>3. i \notin DOMAIN voicing.rows /\ i \notin voicing.failed /\ wav \in [Lines -> Texts \cup {Silent, Garbled}]
  BY <1>1, AtItsLine
<1>4. wav[i] \in {Silent, Garbled, script[i]} \/ i \in rewritten
  BY DEF VoiceInv, Spoken
<1>5. QED
  BY <1>1, <1>2, <1>3, <1>4, LineDone_Inv

LEMMA KeepsWav_Inv == ASSUME VoiceInv, NEW i \in Lines, KeepsWav(i) PROVE VoiceInv'
<1>1. /\ AtLine(i) /\ Text(i) # Silent /\ i \in DOMAIN voicing.kept /\ wav[i] # Silent
      /\ voicing' = WithRow(i, KeptLength(i))
      /\ UNCHANGED <<script, wav, index, rewritten, overwritten, voiced>>
  BY DEF KeepsWav, MayKeep
<1>2. /\ i \in DOMAIN index /\ voicing.kept[i] = index[i] /\ ~voicing.force
      /\ index[i] \in [text : Texts, length : Texts \cup {Garbled}]
  BY <1>1, RowsIs DEF VoiceInv, VoiceTypeOK, KeptIsOfIndex
<1>3. KeptLength(i) = index[i].length /\ KeptLength(i) \in Texts \cup {Garbled}
  BY <1>2 DEF KeptLength
<1>4. /\ voicing' \in VoicingType /\ voicing'.on /\ voicing'.at = voicing.at + 1 /\ voicing'.last = voicing.last
      /\ voicing'.force = voicing.force /\ voicing'.script = voicing.script /\ voicing'.kept = voicing.kept
      /\ voicing'.failed = voicing.failed
      /\ DOMAIN voicing'.rows = DOMAIN voicing.rows \cup {i}
      /\ \A j \in DOMAIN voicing.rows : j # i => voicing'.rows[j] = voicing.rows[j]
      /\ voicing'.rows[i].text = Text(i) /\ voicing'.rows[i].length = index[i].length
  BY <1>1, <1>3, WithRowIs
<1>5. /\ i \notin DOMAIN voicing.rows /\ i \notin voicing.failed /\ wav \in [Lines -> Texts \cup {Silent, Garbled}]
      /\ voicing.on /\ voicing.at = i /\ i \in Int
  BY <1>1, AtItsLine DEF Lines
<1>6. wav[i] \in {Silent, Garbled, script[i]} \/ i \in rewritten
  BY DEF VoiceInv, Spoken
<1>7. script[i] = Text(i) \/ i \in rewritten
  BY <1>5 DEF VoiceInv, AsRead, Text
<1>8. index[i].length = wav[i] \/ i \in overwritten
  BY <1>2 DEF VoiceInv, IndexIsHeard, LengthsFit
<1>9. RowFits(i)'
  BY <1>1, <1>2, <1>4, <1>6, <1>7, <1>8 DEF RowFits, Text
<1>10. QED
  BY <1>1, <1>4, <1>5, <1>6, <1>9, LineDone_Inv

LEMMA Speaks_Inv == ASSUME VoiceInv, NEW i \in Lines, Speaks(i) PROVE VoiceInv'
<1>1. /\ AtLine(i) /\ Text(i) # Silent
      /\ wav' = [wav EXCEPT ![i] = Text(i)] /\ voicing' = WithRow(i, Text(i))
      /\ rewritten' = IF script[i] = Text(i) THEN rewritten \ {i} ELSE rewritten
      /\ overwritten' = overwritten \cup {i}
      /\ UNCHANGED <<script, index, voiced>>
  BY DEF Speaks, Unspoken
<1>2. /\ i \notin DOMAIN voicing.rows /\ i \notin voicing.failed /\ wav \in [Lines -> Texts \cup {Silent, Garbled}]
      /\ voicing.on /\ voicing.at = i /\ Text(i) \in Texts
  BY <1>1, AtItsLine
<1>3. /\ voicing' \in VoicingType /\ voicing'.on /\ voicing'.at = voicing.at + 1 /\ voicing'.last = voicing.last
      /\ voicing'.force = voicing.force /\ voicing'.script = voicing.script /\ voicing'.kept = voicing.kept
      /\ voicing'.failed = voicing.failed
      /\ DOMAIN voicing'.rows = DOMAIN voicing.rows \cup {i}
      /\ \A j \in DOMAIN voicing.rows : j # i => voicing'.rows[j] = voicing.rows[j]
      /\ voicing'.rows[i].text = Text(i) /\ voicing'.rows[i].length = Text(i)
  BY <1>1, <1>2, WithRowIs
<1>4. /\ wav' \in [Lines -> Texts \cup {Silent, Garbled}] /\ wav'[i] = Text(i)
      /\ \A j \in Lines : j # i => wav'[j] = wav[j]
  BY <1>1, <1>2
<1>5. script[i] = Text(i) \/ i \in rewritten
  BY <1>2 DEF VoiceInv, AsRead, Text, Lines
<1>6. RowFits(i)'
  BY <1>1, <1>3, <1>4 DEF RowFits, Text
<1>7. wav'[i] \in {Silent, Garbled, script[i]} \/ i \in rewritten'
  BY <1>1, <1>4, <1>5
<1>8. QED
  BY <1>1, <1>2, <1>3, <1>4, <1>6, <1>7, LineDone_Inv

LEMMA FailsToSpeak_Inv == ASSUME VoiceInv, NEW i \in Lines, FailsToSpeak(i) PROVE VoiceInv'
<1>1. /\ AtLine(i) /\ Text(i) # Silent /\ overwritten' = overwritten \cup {i}
      /\ UNCHANGED <<script, index, rewritten, voiced>>
  BY DEF FailsToSpeak, Unspoken
<1>2. /\ i \notin DOMAIN voicing.rows /\ i \notin voicing.failed /\ wav \in [Lines -> Texts \cup {Silent, Garbled}]
      /\ voicing.on /\ voicing.at = i /\ i + 1 \in 1 .. LastLine + 1 /\ voicing \in VoicingType
  BY <1>1, AtItsLine
<1>3. wav' \in {wav, [wav EXCEPT ![i] = Garbled]}
  BY DEF FailsToSpeak
<1>4. /\ wav' \in [Lines -> Texts \cup {Silent, Garbled}] /\ \A j \in Lines : j # i => wav'[j] = wav[j]
      /\ wav'[i] \in {Silent, Garbled, script[i]} \/ i \in rewritten
  BY <1>2, <1>3 DEF VoiceInv, Spoken
<1>5. CASE voicing' = Missed(i)
  <2>1. /\ voicing' \in VoicingType /\ voicing'.on /\ voicing'.at = voicing.at + 1 /\ voicing'.last = voicing.last
        /\ voicing'.force = voicing.force /\ voicing'.script = voicing.script /\ voicing'.kept = voicing.kept
        /\ voicing'.rows = voicing.rows /\ voicing'.failed = voicing.failed \cup {i}
    BY <1>2, <1>5 DEF Missed, PassedOver, VoicingType
  <2>2. QED
    BY <1>1, <1>2, <1>4, <2>1, LineDone_Inv
<1>6. CASE voicing' = WithRow(i, Garbled) /\ wav' = [wav EXCEPT ![i] = Garbled]
  <2>1. /\ voicing' \in VoicingType /\ voicing'.on /\ voicing'.at = voicing.at + 1 /\ voicing'.last = voicing.last
        /\ voicing'.force = voicing.force /\ voicing'.script = voicing.script /\ voicing'.kept = voicing.kept
        /\ voicing'.failed = voicing.failed
        /\ DOMAIN voicing'.rows = DOMAIN voicing.rows \cup {i}
        /\ \A j \in DOMAIN voicing.rows : j # i => voicing'.rows[j] = voicing.rows[j]
        /\ voicing'.rows[i].text = Text(i) /\ voicing'.rows[i].length = Garbled
    BY <1>1, <1>6, WithRowIs
  <2>2. wav'[i] = Garbled /\ Garbled # Silent
    BY <1>2, <1>6 DEF Garbled, Silent
  <2>3. RowFits(i)'
    BY <2>1, <2>2 DEF RowFits, Text
  <2>4. QED
    BY <1>1, <1>2, <1>4, <2>1, <2>3, LineDone_Inv
<1>7. QED
  BY <1>5, <1>6 DEF FailsToSpeak

LEMMA WritesIndex_Inv == ASSUME VoiceInv, WritesIndex PROVE VoiceInv'
<1>1. /\ voicing.on /\ voicing.at = LastLine + 1 /\ index' = voicing.rows
      /\ voicing' = [NotVoicing EXCEPT !.last = Outcome, !.force = voicing.force, !.script = voicing.script]
      /\ overwritten' = overwritten \cap DOMAIN voicing.kept
      /\ UNCHANGED <<script, wav, rewritten, voiced>>
  BY DEF WritesIndex
<1>2. voicing \in VoicingType /\ SoFar /\ voicing.rows \in Rows(Texts)
  BY DEF VoiceInv, VoicingType
<1>3. /\ voicing' \in VoicingType /\ ~voicing'.on /\ voicing'.at = 1 /\ voicing'.rows = NoRows
      /\ voicing'.failed = {} /\ voicing'.kept = NoRows /\ voicing'.script = voicing.script
      /\ voicing'.force = voicing.force /\ voicing'.last = Outcome
  BY <1>1, <1>2, NotVoicingIs DEF VoicingType, Outcome
<1>4. Behind(LastLine + 1) = {i \in Lines : voicing.script[i] # Silent}
  BY VoiceAssumption DEF Behind, Lines
<1>5. Behind(1)' = {}
  BY <1>3 DEF Behind, Lines
<1>6. VoiceTypeOK'
  <2>1. voicing'.at \in 1 .. LastLine + 1
    BY <1>3 DEF VoicingType
  <2>2. rewritten' \cup overwritten' \subseteq Lines
    BY <1>1 DEF VoiceInv, VoiceTypeOK
  <2>3. QED
    BY <1>1, <1>2, <1>3, <2>1, <2>2, NoRowsIs DEF VoiceInv, VoiceTypeOK
<1>7. KeptIsOfIndex' /\ SoFar' /\ AsRead'
  BY <1>3, <1>5, NoRowsIs DEF KeptIsOfIndex, SoFar, AsRead
<1>8. Spoken'
  BY <1>1 DEF VoiceInv, Spoken
<1>9. LengthsFit' /\ TextsFit'
  BY <1>1, <1>2 DEF LengthsFit, TextsFit, SoFar, RowFits
<1>10. OkMeansVoiced'
  <2> SUFFICES ASSUME Outcome = "ok"
               PROVE  /\ DOMAIN voicing.rows = {i \in Lines : voicing.script[i] # Silent}
                      /\ \A i \in DOMAIN voicing.rows : wav[i] # Silent
                      /\ voicing.force => \A i \in DOMAIN voicing.rows : wav[i] \in {voicing.script[i], Garbled}
    BY <1>1, <1>3 DEF OkMeansVoiced
  <2>1. voicing.failed = {}
    BY DEF Outcome
  <2>2. QED
    BY <1>1, <1>2, <1>4, <2>1 DEF SoFar, RowFits
<1>11. QED
  BY <1>3, <1>6, <1>7, <1>8, <1>9, <1>10, NoRowsIs DEF VoiceInv, IndexIsHeard

LEMMA VoiceKilled_Inv == ASSUME VoiceInv, VoiceKilled PROVE VoiceInv'
<1>1. voicing' = [NotVoicing EXCEPT !.last = "killed"] /\ UNCHANGED <<script, index, rewritten, voiced>>
  BY DEF VoiceKilled
<1>2. /\ voicing' \in VoicingType /\ ~voicing'.on /\ voicing'.at = 1 /\ voicing'.rows = NoRows
      /\ voicing'.failed = {} /\ voicing'.kept = NoRows /\ voicing'.last = "killed" /\ voicing'.force = FALSE
  BY <1>1, NotVoicingIs DEF VoicingType
<1>3. /\ wav \in [Lines -> Texts \cup {Silent, Garbled}] /\ index \in Rows(Texts) /\ DOMAIN index \subseteq Lines
      /\ rewritten \cup overwritten \subseteq Lines /\ voicing.at \in 1 .. LastLine + 1
  BY RowsIs DEF VoiceInv, VoiceTypeOK
<1>4. /\ wav' \in [Lines -> Texts \cup {Silent, Garbled}]
      /\ overwritten \subseteq overwritten' /\ overwritten' \subseteq Lines
      /\ \A i \in Lines : wav'[i] = wav[i] \/ (wav'[i] = Garbled /\ i \in overwritten')
  <2>1. CASE UNCHANGED <<wav, overwritten>>
    BY <1>3, <2>1
  <2>2. CASE /\ voicing.at <= LastLine
             /\ wav' = [wav EXCEPT ![voicing.at] = Garbled] /\ overwritten' = overwritten \cup {voicing.at}
    <3>1. voicing.at \in Lines
      BY <1>3, <2>2, VoiceAssumption DEF Lines
    <3>2. QED
      BY <1>3, <2>2, <3>1
  <2>3. QED
    BY <2>1, <2>2 DEF VoiceKilled
<1>5. Behind(1)' = {}
  BY <1>2 DEF Behind, Lines
<1>6. VoiceTypeOK'
  <2>1. voicing'.at \in 1 .. LastLine + 1
    BY <1>2 DEF VoicingType
  <2>2. QED
    BY <1>1, <1>2, <1>3, <1>4, <2>1, NoRowsIs DEF VoiceInv, VoiceTypeOK
<1>7. KeptIsOfIndex' /\ SoFar' /\ AsRead'
  BY <1>2, <1>5, NoRowsIs DEF KeptIsOfIndex, SoFar, AsRead
<1>8. Spoken'
  BY <1>1, <1>4 DEF VoiceInv, Spoken
<1>9. IndexIsHeard'
  BY <1>1, <1>2, <1>3, <1>4 DEF VoiceInv, IndexIsHeard, LengthsFit, TextsFit, OkMeansVoiced
<1>10. QED
  BY <1>2, <1>6, <1>7, <1>8, <1>9, NoRowsIs DEF VoiceInv

LEMMA VoiceNext_Inv == VoiceInv /\ [VoiceNext]_voiceVars => VoiceInv'
  BY VoiceStutter_Inv, Rewrites_Inv, BeginsToSpeak_Inv, WritesIndex_Inv, VoiceKilled_Inv,
     PassesOver_Inv, KeepsWav_Inv, Speaks_Inv, FailsToSpeak_Inv DEF VoiceNext

THEOREM VoiceInvHolds == VoiceSpec => []VoiceInv
  BY VoiceInit_Inv, VoiceNext_Inv, PTL DEF VoiceSpec

(* The index tells the lengths and texts of its wavs but where a line was  *)
(* rewritten or a run did not end, and a run that says ok has made them    *)
(* all, for any scripts, failures and killed runs.                         *)
THEOREM IndexIsHeardHolds == VoiceSpec => []IndexIsHeard
<1>1. VoiceInv => IndexIsHeard
  BY DEF VoiceInv
<1>2. QED
  BY <1>1, VoiceInvHolds, PTL

-------------------------------------------------------------------------------
(* The sum of the lengths up to a clip. *)
LEMMA SumToIs ==
    ASSUME NEW d, Len(d) \in Nat, \A i \in 1 .. Len(d) : d[i] \in Int
    PROVE  /\ SumTo(d, 0) = 0
           /\ \A i \in 1 .. Len(d) : SumTo(d, i) = SumTo(d, i - 1) + d[i]
           /\ \A i \in 0 .. Len(d) : SumTo(d, i) \in Int
<1> DEFINE n == Len(d)
           R(f) == f = [k \in 0 .. n |-> IF k = 0 THEN 0 ELSE f[k - 1] + d[k]]
           c == [k \in 0 .. n |-> SumOf(d, 1 .. k)]
           g == CHOOSE f : R(f)
<1>1. \A k \in 1 .. n : c[k] = c[k - 1] + d[k]
  <2> TAKE k \in 1 .. n
  <2> DEFINE S == 1 .. k - 1
  <2>1. S \cup {k} = 1 .. k /\ k \notin S /\ IsFiniteSet(S) /\ \A y \in S \cup {k} : d[y] \in Int
    <3>1. IsFiniteSet(S)
      BY FS_Interval
    <3>2. S \cup {k} = 1 .. k /\ k \notin S
      OBVIOUS
    <3>3. \A y \in 1 .. k : d[y] \in Int
      OBVIOUS
    <3> HIDE DEF S
    <3>4. QED
      BY <3>1, <3>2, <3>3
  <2>2. SumOf(d, S) \in Int
    BY <2>1, SumOfType
  <2> HIDE DEF S
  <2>3. SumOf(d, S \cup {k}) = d[k] + SumOf(d, S)
    BY <2>1, SumOfAdd
  <2>4. c[k] = SumOf(d, 1 .. k) /\ c[k - 1] = SumOf(d, S)
    BY DEF S
  <2>5. QED
    BY <2>1, <2>2, <2>3, <2>4
<1>2. c[0] = 0
  <2>1. 1 .. 0 = {} /\ c[0] = SumOf(d, 1 .. 0)
    OBVIOUS
  <2>2. QED
    BY <2>1, SumOfEmpty
<1>3. c = [k \in 0 .. n |-> IF k = 0 THEN 0 ELSE c[k - 1] + d[k]]
  <2>1. c = [k \in 0 .. n |-> c[k]]
    OBVIOUS
  <2> HIDE DEF c
  <2>2. \A k \in 0 .. n : c[k] = IF k = 0 THEN 0 ELSE c[k - 1] + d[k]
    BY <1>1, <1>2
  <2>3. QED
    BY <2>1, <2>2
<1>4. R(g)
  <2>1. R(c)
    BY <1>3
  <2> HIDE DEF R, c
  <2>2. QED
    BY <2>1
<1>5. \A i : SumTo(d, i) = g[i]
  BY DEF SumTo
<1> HIDE DEF g, c
<1>6. g[0] = 0 /\ \A i \in 1 .. n : g[i] = g[i - 1] + d[i]
  BY <1>4
<1> DEFINE Good == {k \in 0 .. n : g[k] \in Int}
<1>7. \A k \in 0 .. n : k \in Good
  <2>1. 0 \in Good /\ \A k \in 1 .. n : k - 1 \in Good => k \in Good
    BY <1>6, SMTT(30)
  <2> HIDE DEF Good
  <2>2. QED
    BY <2>1, Reaches
<1>8. QED
  BY <1>5, <1>6, <1>7

(* Each clip has room for two fades. *)
LEMMA SumToRoom ==
    ASSUME NEW d, Len(d) \in Nat, NEW xf \in Nat, \A i \in 1 .. Len(d) : d[i] \in Int /\ d[i] >= 2 * xf
    PROVE  \A i \in 0 .. Len(d) : SumTo(d, i) >= xf * i
<1> DEFINE Good == {k \in 0 .. Len(d) : SumTo(d, k) >= xf * k}
<1>1. 0 \in Good
  BY SumToIs
<1>2. ASSUME NEW k \in 1 .. Len(d), k - 1 \in Good PROVE k \in Good
  <2>1. /\ SumTo(d, k) = SumTo(d, k - 1) + d[k] /\ SumTo(d, k - 1) >= xf * (k - 1)
        /\ SumTo(d, k - 1) \in Int /\ d[k] \in Int /\ d[k] >= 2 * xf
    BY <1>2, SumToIs
  <2>2. xf * (k - 1) + xf = xf * k /\ xf * (k - 1) \in Int /\ xf * k \in Int
    OBVIOUS
  <2> HIDE DEF Good
  <2>3. SumTo(d, k) >= xf * k
    BY <2>1, <2>2
  <2>4. QED
    BY <2>3 DEF Good
<1> HIDE DEF Good
<1>3. \A k \in 0 .. Len(d) : k \in Good
  BY <1>1, <1>2, Reaches
<1>4. QED
  BY <1>3 DEF Good

(* The prefix made so far is as long as the chain up to there. *)
LEMMA PairIsChain ==
    ASSUME NEW d, Len(d) \in Nat, \A i \in 1 .. Len(d) : d[i] \in Int, NEW xf \in Nat, NEW i \in 1 .. Len(d)
    PROVE  PairOffset(d, xf, i) = ChainOffset(d, xf, i)
<1> DEFINE R(f) == f = [k \in 1 .. i |-> IF k = 1 THEN d[1] ELSE f[k - 1] + d[k] - xf]
           c == [k \in 1 .. i |-> SumTo(d, k) - xf * (k - 1)]
           g == CHOOSE f : R(f)
<1>1. /\ SumTo(d, 0) = 0 /\ \A k \in 1 .. i : SumTo(d, k) = SumTo(d, k - 1) + d[k] /\ d[k] \in Int
      /\ \A k \in 0 .. i : SumTo(d, k) \in Int
  BY SumToIs
<1>2. \A k \in 1 .. i : c[k] = IF k = 1 THEN d[1] ELSE c[k - 1] + d[k] - xf
  <2> TAKE k \in 1 .. i
  <2>1. CASE k = 1
    BY <1>1, <2>1
  <2>2. CASE k # 1
    <3>1. k - 1 \in 1 .. i /\ SumTo(d, k - 1) \in Int /\ SumTo(d, k) = SumTo(d, k - 1) + d[k] /\ d[k] \in Int
      BY <1>1, <2>2
    <3>2. xf * (k - 1) = xf * ((k - 1) - 1) + xf /\ xf * ((k - 1) - 1) \in Int
      OBVIOUS
    <3>3. c[k] = SumTo(d, k) - xf * (k - 1) /\ c[k - 1] = SumTo(d, k - 1) - xf * ((k - 1) - 1)
      BY <3>1
    <3> HIDE DEF c
    <3>4. QED
      BY <2>2, <3>1, <3>2, <3>3
  <2>3. QED
    BY <2>1, <2>2
<1>3. R(g)
  <2>1. c = [k \in 1 .. i |-> c[k]]
    OBVIOUS
  <2> HIDE DEF c
  <2>2. R(c)
    BY <1>2, <2>1
  <2> HIDE DEF R
  <2>3. QED
    BY <2>2
<1>4. PairOffset(d, xf, i) = g[i] - xf
  BY DEF PairOffset
<1> DEFINE Good == {k \in 0 .. i : k = 0 \/ g[k] = c[k]}
<1> HIDE DEF g
<1>5. \A k \in 0 .. i : k \in Good
  <2>1. 0 \in Good
    OBVIOUS
  <2>2. ASSUME NEW k \in 1 .. i, k - 1 \in Good PROVE k \in Good
    <3>1. g[k] = IF k = 1 THEN d[1] ELSE g[k - 1] + d[k] - xf
      BY <1>3
    <3>2. k = 1 \/ g[k - 1] = c[k - 1]
      BY <2>2
    <3>3. g[k] = c[k]
      BY <1>2, <3>1, <3>2
    <3> HIDE DEF c
    <3>4. QED
      BY <3>3
  <2>3. \A k \in 1 .. i : k - 1 \in Good => k \in Good
    BY <2>2
  <2>4. i \in Nat
    OBVIOUS
  <2> HIDE DEF Good
  <2>5. QED
    BY <2>1, <2>3, <2>4, Reaches
<1>6. g[i] = SumTo(d, i) - xf * (i - 1)
  <2>1. i \in 0 .. i /\ i # 0
    OBVIOUS
  <2>2. g[i] = c[i]
    BY <1>5, <2>1
  <2>3. QED
    BY <2>2
<1>7. QED
  <2>1. xf * i = xf * (i - 1) + xf /\ xf * (i - 1) \in Int /\ SumTo(d, i) \in Int
    BY <1>1
  <2>2. QED
    BY <1>4, <1>6, <2>1 DEF ChainOffset

(* What the capture left, and what it can have left. *)
plan == <<beatsFile, webm, sidecar, got, vo>>
PlanInv ==
    /\ beatsFile \in BeatFiles \cup {<<>>} /\ webm \subseteq AllBeats
    /\ DOMAIN sidecar \subseteq AllBeats /\ \A b \in DOMAIN sidecar : sidecar[b] \in ClipLengths
    /\ \A b \in webm : got[b] \in Nat

LEMMA PlanTypes ==
    ASSUME PlanInv
    PROVE  /\ beatsFile \in Seq(AllBeats) /\ Len(beatsFile) \in Nat /\ DOMAIN beatsFile = 1 .. Len(beatsFile)
           /\ \A b \in DOMAIN sidecar : sidecar[b] \in Nat \ {0}
<1>1. \A b \in DOMAIN sidecar : sidecar[b] \in Nat \ {0}
  BY ReelAssumption DEF PlanInv
<1>2. CASE beatsFile \in BeatFiles
  <2>1. beatsFile \in Seq(DOMAIN TimeOf)
    BY <1>2, ReelAssumption
  <2>2. \A i \in 1 .. Len(beatsFile) : beatsFile[i] \in AllBeats
    BY <1>2, <2>1 DEF AllBeats, ToSet
  <2>3. beatsFile \in Seq(AllBeats)
    BY <2>1, <2>2
  <2>4. QED
    BY <1>1, <2>1, <2>3
<1>3. CASE beatsFile = <<>>
  BY <1>1, <1>3
<1>4. QED
  BY <1>2, <1>3 DEF PlanInv

LEMMA BeatTypes == /\ AllBeats \subseteq Nat /\ IsFiniteSet(AllBeats)
                   /\ \A b \in AllBeats : TimeOf[b] \in Nat \ {0}
<1>1. AllBeats \subseteq DOMAIN TimeOf
  <2> SUFFICES ASSUME NEW f \in BeatFiles, NEW b \in ToSet(f) PROVE b \in DOMAIN TimeOf
    BY DEF AllBeats
  <2>1. f \in Seq(DOMAIN TimeOf)
    BY ReelAssumption
  <2>2. QED
    BY <2>1 DEF ToSet
<1>2. QED
  BY <1>1, ReelAssumption, FS_Subset

(* The order of the stitcher is strict and total. *)
LEMMA EarlierOrders ==
    ASSUME NEW S \in SUBSET AllBeats
    PROVE  /\ \A x \in S : ~Earlier(x, x)
           /\ \A x, y, z \in S : Earlier(x, y) /\ Earlier(y, z) => Earlier(x, z)
           /\ \A x, y \in S : x # y => Earlier(x, y) \/ Earlier(y, x)
<1>1. \A x \in S : x \in Nat /\ TimeKey(x) \in Nat
  BY BeatTypes DEF TimeKey
<1>2. QED
  BY <1>1 DEF Earlier

Listed(S) == SortedBy(S, Earlier)
LEMMA ListedIs ==
    ASSUME NEW S \in SUBSET AllBeats
    PROVE  /\ Listed(S) \in [1 .. Cardinality(S) -> S] /\ Cardinality(S) \in Nat
           /\ \A i, j \in 1 .. Cardinality(S) : i < j => Earlier(Listed(S)[i], Listed(S)[j])
           /\ \A x \in S : \E i \in 1 .. Cardinality(S) : Listed(S)[i] = x
<1> DEFINE s == Listed(S)
<1>0. IsFiniteSet(S)
  BY BeatTypes, FS_Subset
<1>1. PICK below : below = [x \in S |-> {y \in S : Earlier(y, x)}]
  OBVIOUS
<1>2. \A x \in S : below[x] = {y \in S : Earlier(y, x)}
  BY <1>1
<1>3. s = [i \in 1 .. Cardinality(S) |-> CHOOSE x \in S : Cardinality(below[x]) = i - 1]
  <2> DEFINE ranked(i) == CHOOSE x \in S : Cardinality({y \in S : Earlier(y, x)}) = i - 1
             placed(i) == CHOOSE x \in S : Cardinality(below[x]) = i - 1
  <2>1. \A x \in S : Cardinality(below[x]) = Cardinality({y \in S : Earlier(y, x)})
    BY <1>2
  <2>2. \A i : ranked(i) = placed(i)
    BY <2>1, Zenon
  <2>3. s = [i \in 1 .. Cardinality(S) |-> ranked(i)]
    BY DEF Listed, SortedBy
  <2> HIDE DEF ranked, placed
  <2>4. s = [i \in 1 .. Cardinality(S) |-> placed(i)]
    BY <2>2, <2>3
  <2>5. QED
    BY <2>4 DEF placed
<1>4. \A x \in S, y \in S : y \in below[x] <=> Earlier(y, x)
  BY <1>2
<1>5. \A x \in S : below[x] \subseteq S \ {x}
  BY <1>2, EarlierOrders
<1>6. \A x \in S : \A y \in below[x] : below[y] \subseteq below[x]
  <2> SUFFICES ASSUME NEW x \in S, NEW y \in below[x], NEW z \in below[y] PROVE z \in below[x]
    OBVIOUS
  <2>1. y \in S /\ z \in S
    BY <1>2
  <2>2. Earlier(y, x) /\ Earlier(z, y)
    BY <1>4, <2>1
  <2>3. QED
    BY <1>4, <2>1, <2>2, EarlierOrders
<1>7. \A x, y \in S : x # y => x \in below[y] \/ y \in below[x]
  BY <1>4, EarlierOrders
<1>8. /\ s \in [1 .. Cardinality(S) -> S] /\ Cardinality(S) \in Nat
      /\ \A i, j \in 1 .. Cardinality(S) : i < j => s[i] \in below[s[j]]
      /\ \A x \in S : \E i \in 1 .. Cardinality(S) : s[i] = x
  BY <1>0, <1>3, <1>5, <1>6, <1>7, RankIsPlace, ZenonT(30)
<1>9. QED
  BY <1>4, <1>8

(* There is but one such list: of two, each is no longer than the other    *)
(* and has the same beats in the same places.                              *)
InOrder(s, n, S) ==
    /\ n \in Nat /\ s \in [1 .. n -> S]
    /\ \A i, j \in 1 .. n : i < j => Earlier(s[i], s[j])
    /\ \A x \in S : \E i \in 1 .. n : s[i] = x

LEMMA SameSoFar ==
    ASSUME NEW S \in SUBSET AllBeats, NEW s, NEW t, NEW m, NEW n, InOrder(s, m, S), InOrder(t, n, S),
           NEW k \in Nat, k <= m, k <= n
    PROVE  \A i \in 1 .. k : s[i] = t[i]
<1> DEFINE Good == {q \in 0 .. k : \A i \in 1 .. q : s[i] = t[i]}
<1>1. 0 \in Good
  OBVIOUS
<1>2. ASSUME NEW q \in 1 .. k, q - 1 \in Good PROVE q \in Good
  <2>1. /\ m \in Nat /\ n \in Nat /\ q \in 1 .. m /\ q \in 1 .. n
        /\ s[q] \in S /\ t[q] \in S
    BY DEF InOrder
  <2>2. \A i \in 1 .. q - 1 : s[i] = t[i]
    BY <1>2
  <2>3. PICK j \in 1 .. n : t[j] = s[q]
    BY <2>1 DEF InOrder
  <2>4. PICK i \in 1 .. m : s[i] = t[q]
    BY <2>1 DEF InOrder
  <2>5. ~(j < q)
    <3> SUFFICES ASSUME j < q PROVE FALSE
      OBVIOUS
    <3>1. s[j] = t[j] /\ Earlier(s[j], s[q])
      BY <2>1, <2>2 DEF InOrder
    <3>2. Earlier(s[q], s[q])
      BY <2>3, <3>1
    <3>3. QED
      BY <2>1, <3>2, EarlierOrders
  <2>6. ~(i < q)
    <3> SUFFICES ASSUME i < q PROVE FALSE
      OBVIOUS
    <3>1. s[i] = t[i] /\ Earlier(t[i], t[q])
      BY <2>1, <2>2 DEF InOrder
    <3>2. Earlier(t[q], t[q])
      BY <2>4, <3>1
    <3>3. QED
      BY <2>1, <3>2, EarlierOrders
  <2>7. s[q] = t[q]
    <3> SUFFICES ASSUME j > q, i > q PROVE FALSE
      BY <2>1, <2>3, <2>4, <2>5, <2>6
    <3>1. Earlier(t[q], t[j]) /\ Earlier(s[q], s[i])
      BY <2>1 DEF InOrder
    <3>2. Earlier(t[q], s[q]) /\ Earlier(s[q], t[q])
      BY <2>3, <2>4, <3>1
    <3>3. QED
      BY <2>1, <3>2, EarlierOrders
  <2>8. QED
    BY <2>2, <2>7
<1>3. \A q \in 0 .. k : q \in Good
  <2>1. \A q \in 1 .. k : q - 1 \in Good => q \in Good
    BY <1>2
  <2> HIDE DEF Good
  <2>2. QED
    BY <1>1, <2>1, Reaches
<1>4. QED
  BY <1>3

LEMMA NoLonger ==
    ASSUME NEW S \in SUBSET AllBeats, NEW s, NEW t, NEW m, NEW n, InOrder(s, m, S), InOrder(t, n, S)
    PROVE  ~(m < n)
<1> SUFFICES ASSUME m < n PROVE FALSE
  OBVIOUS
<1>1. m \in Nat /\ n \in Nat /\ n \in 1 .. n /\ t[n] \in S
  BY DEF InOrder
<1>2. PICK i \in 1 .. m : s[i] = t[n]
  BY <1>1 DEF InOrder
<1>3. s[i] = t[i]
  BY <1>1, SameSoFar
<1>4. Earlier(t[i], t[n])
  BY <1>1 DEF InOrder
<1>5. QED
  BY <1>1, <1>2, <1>3, <1>4, EarlierOrders

LEMMA OneList ==
    ASSUME NEW S \in SUBSET AllBeats, NEW s, NEW t, NEW m, NEW n, InOrder(s, m, S), InOrder(t, n, S)
    PROVE  m = n /\ s = t
<1>1. m \in Nat /\ n \in Nat /\ s \in [1 .. m -> S] /\ t \in [1 .. n -> S]
  BY DEF InOrder
<1>2. m = n
  BY <1>1, NoLonger
<1>3. \A i \in 1 .. n : s[i] = t[i]
  <2>1. PICK k : k = n
    OBVIOUS
  <2>2. k \in Nat /\ k <= m /\ k <= n
    BY <1>1, <1>2, <2>1
  <2>3. \A i \in 1 .. k : s[i] = t[i]
    BY <2>2, SameSoFar
  <2>4. QED
    BY <2>1, <2>3
<1>4. QED
  BY <1>1, <1>2, <1>3

LEMMA WithClipType == \A l \in Seq(DOMAIN sidecar) : \A b : WithClip(l, b) \in Seq(DOMAIN sidecar)
<1> DEFINE D == DOMAIN sidecar
<1> SUFFICES ASSUME NEW l \in Seq(D), NEW b PROVE (IF b \in D THEN Append(l, b) ELSE l) \in Seq(D)
  BY DEF WithClip
<1> HIDE DEF D
<1>1. b \in D => Append(l, b) \in Seq(D)
  BY AppendProperties
<1>2. QED
  BY <1>1

(* Rendered is the last of the lists the pass over beats.json makes. *)
LEMMA RenderedIs ==
    ASSUME PlanInv
    PROVE  \E c : /\ c[0] = <<>> /\ Rendered = c[Len(beatsFile)]
                  /\ \A k \in 0 .. Len(beatsFile) : c[k] \in Seq(DOMAIN sidecar)
                  /\ \A k \in 1 .. Len(beatsFile) : c[k] = WithClip(c[k - 1], beatsFile[k])
<1> DEFINE n == Len(beatsFile)
           L == Seq(DOMAIN sidecar)
           R(h) == h = [T \in SUBSET (1 .. n) |->
                          IF T = {} THEN <<>> ELSE WithClip(h[T \ {Max(T)}], beatsFile[Max(T)])]
           step == [p \in (1 .. n) \X L |-> WithClip(p[2], beatsFile[p[1]])]
<1>1. n \in Nat /\ DOMAIN beatsFile = 1 .. n
  BY PlanTypes
<1>2. Rendered = (CHOOSE h : R(h))[1 .. n]
  BY <1>1 DEF Rendered, FoldLeft, MapThenFoldSet
<1> HIDE DEF n
<1>3. step \in [(1 .. n) \X L -> L]
  <2>1. \A k \in 1 .. n, l \in L : WithClip(l, beatsFile[k]) \in L
    BY WithClipType
  <2> HIDE DEF L
  <2>2. QED
    BY <2>1
<1>4. <<>> \in L
  OBVIOUS
<1> HIDE DEF L
<1>5. \E h \in [SUBSET (1 .. n) -> L] : R(h)
  <2> HIDE DEF step
  <2>1. PICK h \in [SUBSET (1 .. n) -> L] : IsFold(h, <<>>, step, n)
    BY <1>1, <1>3, <1>4, FoldExists
  <2> DEFINE q(T) == IF T = {} THEN <<>> ELSE step[<<Max(T), h[T \ {Max(T)}]>>]
             r(T) == IF T = {} THEN <<>> ELSE WithClip(h[T \ {Max(T)}], beatsFile[Max(T)])
  <2>2. \A T \in SUBSET (1 .. n) : q(T) = r(T)
    <3> TAKE T \in SUBSET (1 .. n)
    <3> SUFFICES ASSUME T # {} PROVE q(T) = r(T)
      OBVIOUS
    <3>1. Max(T) \in 1 .. n
      BY <1>1, MaxOfRange
    <3>2. h[T \ {Max(T)}] \in L
      OBVIOUS
    <3>3. <<Max(T), h[T \ {Max(T)}]>> \in (1 .. n) \X L
      BY <3>1, <3>2
    <3>4. QED
      BY <3>3 DEF step
  <2>3. h = [T \in SUBSET (1 .. n) |-> q(T)]
    BY <2>1 DEF IsFold
  <2> HIDE DEF q, r
  <2>4. h = [T \in SUBSET (1 .. n) |-> r(T)]
    BY <2>2, <2>3
  <2>5. R(h)
    BY <2>4 DEF r
  <2> HIDE DEF R
  <2>6. QED
    BY <2>5
<1>6. PICK h : R(h) /\ Rendered = h[1 .. n]
  <2> HIDE DEF R
  <2>1. QED
    BY <1>2, <1>5
<1>7. ASSUME NEW T \in SUBSET (1 .. n)
      PROVE  h[T] = IF T = {} THEN <<>> ELSE WithClip(h[T \ {Max(T)}], beatsFile[Max(T)])
  BY <1>6
<1> HIDE DEF R
<1> DEFINE c == [k \in 0 .. n |-> h[1 .. k]]
<1>8. c[0] = <<>>
  <2>1. {} \in SUBSET (1 .. n) /\ 0 \in 0 .. n /\ 1 .. 0 = {}
    BY <1>1
  <2>2. h[{}] = <<>>
    BY <1>7, <2>1
  <2>3. QED
    BY <2>1, <2>2
<1>9. \A k \in 1 .. n : c[k] = WithClip(c[k - 1], beatsFile[k])
  <2> TAKE k \in 1 .. n
  <2>1. 1 .. k \in SUBSET (1 .. n) /\ 1 .. k # {} /\ Max(1 .. k) = k /\ (1 .. k) \ {k} = 1 .. (k - 1)
    BY <1>1, Prefix
  <2>2. h[1 .. k] = WithClip(h[1 .. (k - 1)], beatsFile[k])
    BY <1>7, <2>1
  <2>3. k \in 0 .. n /\ k - 1 \in 0 .. n
    BY <1>1
  <2>4. QED
    BY <2>2, <2>3
<1>10. Rendered = c[n]
  <2>1. n \in 0 .. n
    BY <1>1
  <2>2. QED
    BY <1>6, <2>1
<1> HIDE DEF c
<1>11. \A k \in 0 .. n : c[k] \in L
  <2> DEFINE Good == {k \in 0 .. n : c[k] \in L}
  <2>1. 0 \in Good
    BY <1>1, <1>4, <1>8
  <2>2. \A k \in 1 .. n : k - 1 \in Good => k \in Good
    BY <1>1, <1>9, WithClipType DEF L
  <2> HIDE DEF Good
  <2>3. \A k \in 0 .. n : k \in Good
    BY <1>1, <2>1, <2>2, Reaches
  <2>4. QED
    BY <2>3 DEF Good
<1>12. QED
  BY <1>8, <1>9, <1>10, <1>11 DEF L, n

(* When beats.json is in the order of the stitcher and lists all sidecars, *)
(* so is Rendered.                                                         *)
LEMMA RenderedInOrder ==
    ASSUME PlanInv, DOMAIN sidecar \subseteq ToSet(beatsFile),
           \A i, j \in DOMAIN beatsFile : i < j => Earlier(beatsFile[i], beatsFile[j])
    PROVE  InOrder(Rendered, Len(Rendered), DOMAIN sidecar)
<1> DEFINE n == Len(beatsFile)
           D == DOMAIN sidecar
<1>1. PICK c : /\ c[0] = <<>> /\ Rendered = c[n] /\ \A k \in 0 .. n : c[k] \in Seq(D)
               /\ \A k \in 1 .. n : c[k] = WithClip(c[k - 1], beatsFile[k])
  BY RenderedIs
<1>2. n \in Nat /\ DOMAIN beatsFile = 1 .. n
  BY PlanTypes
<1> DEFINE Sorted(s) == \A i, j \in 1 .. Len(s) : i < j => Earlier(s[i], s[j])
           Holds(s, k) == \A x \in D : (\E i \in 1 .. Len(s) : s[i] = x) <=> \E i \in 1 .. k : beatsFile[i] = x
           Good == {k \in 0 .. n : Sorted(c[k]) /\ Holds(c[k], k)}
<1> HIDE DEF n, D
<1>3. 0 \in Good
  BY <1>1, <1>2
<1>4. ASSUME NEW k \in 1 .. n, k - 1 \in Good PROVE k \in Good
  <2> DEFINE s == c[k - 1]
             b == beatsFile[k]
  <2>1. k - 1 \in 0 .. n /\ k \in 0 .. n /\ s \in Seq(D) /\ c[k] = WithClip(s, b) /\ Sorted(s) /\ Holds(s, k - 1)
    BY <1>1, <1>2, <1>4
  <2>2. \A x : (\E i \in 1 .. k : beatsFile[i] = x) <=> x = b \/ \E i \in 1 .. k - 1 : beatsFile[i] = x
    BY <1>2
  <2>3. CASE b \in D
    <3>1. c[k] = Append(s, b) /\ Len(Append(s, b)) = Len(s) + 1 /\ Len(s) \in Nat
          /\ Append(s, b)[Len(s) + 1] = b /\ \A i \in 1 .. Len(s) : Append(s, b)[i] = s[i] /\ s[i] \in D
      BY <2>1, <2>3 DEF WithClip, D
    <3>2. \A i \in 1 .. Len(s) : Earlier(s[i], b)
      <4> TAKE i \in 1 .. Len(s)
      <4>1. PICK j \in 1 .. k - 1 : beatsFile[j] = s[i]
        BY <2>1, <3>1
      <4>2. j \in 1 .. n /\ k \in 1 .. n /\ j < k
        BY <1>2
      <4>3. QED
        BY <1>2, <4>1, <4>2
    <3> HIDE DEF s, b
    <3>3. Sorted(Append(s, b))
      BY <2>1, <3>1, <3>2
    <3>4. Holds(Append(s, b), k)
      <4> TAKE x \in D
      <4>1. (\E i \in 1 .. Len(Append(s, b)) : Append(s, b)[i] = x) <=> x = b \/ \E i \in 1 .. Len(s) : s[i] = x
        BY <3>1
      <4>2. (\E i \in 1 .. Len(s) : s[i] = x) <=> \E i \in 1 .. k - 1 : beatsFile[i] = x
        BY <2>1
      <4>3. (\E i \in 1 .. k : beatsFile[i] = x) <=> x = b \/ \E i \in 1 .. k - 1 : beatsFile[i] = x
        BY <2>2
      <4>4. QED
        BY <4>1, <4>2, <4>3
    <3> HIDE DEF Sorted, Holds
    <3>5. QED
      BY <2>1, <3>1, <3>3, <3>4
  <2>4. CASE b \notin D
    <3>1. c[k] = s
      BY <2>1, <2>4 DEF WithClip, D
    <3>2. Holds(s, k)
      BY <2>1, <2>2, <2>4
    <3> HIDE DEF s, b, Sorted, Holds
    <3>3. QED
      BY <2>1, <3>1, <3>2
  <2>5. QED
    BY <2>3, <2>4
<1>5. n \in Good
  <2>1. \A k \in 1 .. n : k - 1 \in Good => k \in Good
    BY <1>4
  <2> HIDE DEF Good
  <2>2. \A k \in 0 .. n : k \in Good
    BY <1>2, <1>3, <2>1, Reaches
  <2>3. QED
    BY <1>2, <2>2
<1>6. /\ Rendered \in Seq(D) /\ \A i, j \in 1 .. Len(Rendered) : i < j => Earlier(Rendered[i], Rendered[j])
      /\ \A x \in D : (\E i \in 1 .. Len(Rendered) : Rendered[i] = x) <=> \E i \in 1 .. n : beatsFile[i] = x
  BY <1>1, <1>2, <1>5
<1>7. \A x \in D : \E i \in 1 .. n : beatsFile[i] = x
  BY <1>2 DEF ToSet, D
<1>8. QED
  BY <1>6, <1>7 DEF InOrder, D

(* What the stitcher joins. *)
Joinable == DOMAIN sidecar \cap webm
LEMMA PlannedIs ==
    ASSUME PlanInv
    PROVE  /\ InOrder(PlannedClips, Cardinality(Joinable), Joinable) /\ Joinable \in SUBSET AllBeats
           /\ PlannedClips \in Seq(Joinable) /\ Len(PlannedClips) = Cardinality(Joinable)
<1>1. Joinable \in SUBSET AllBeats
  BY DEF Joinable, PlanInv
<1>2. PlannedClips = Listed(Joinable)
  BY DEF PlannedClips, Listed, Joinable
<1>3. InOrder(PlannedClips, Cardinality(Joinable), Joinable)
  BY <1>1, <1>2, ListedIs DEF InOrder
<1>4. QED
  BY <1>1, <1>3 DEF InOrder

(* A session that was captured as planned: the other programs suppose the  *)
(* clips of the reel.                                                      *)
LEMMA RenderedIsPlanned ==
    ASSUME PlanInv, NEW xf, AsPlanned(xf)
    PROVE  Rendered = PlannedClips /\ Joinable = DOMAIN sidecar
<1>1. Joinable = DOMAIN sidecar
  BY DEF AsPlanned, Joinable
<1>2. InOrder(Rendered, Len(Rendered), Joinable)
  BY <1>1, RenderedInOrder DEF AsPlanned
<1>3. QED
  BY <1>1, <1>2, PlannedIs, OneList

-------------------------------------------------------------------------------
(* The clips of a reel that was joined with fades: each has room for two.  *)
LEMMA LengthsAre ==
    ASSUME PlanInv, NEW xf \in Nat
    PROVE  LET d == Lengths(PlannedClips, xf)
           IN  /\ Len(d) = Len(PlannedClips) /\ Len(d) \in Nat /\ DOMAIN d = 1 .. Len(d)
               /\ \A i \in 1 .. Len(d) : d[i] \in Int /\ d[i] >= 2 * xf /\ d[i] = Clamped(got[PlannedClips[i]], xf)
<1> DEFINE d == Lengths(PlannedClips, xf)
           n == Len(PlannedClips)
<1>1. n \in Nat /\ \A i \in 1 .. n : PlannedClips[i] \in webm
  <2>1. PlannedClips \in Seq(Joinable) /\ Joinable \subseteq webm
    BY PlannedIs DEF Joinable
  <2> HIDE DEF Joinable
  <2>2. QED
    BY <2>1
<1>2. \A i \in 1 .. n : got[PlannedClips[i]] \in Nat
  BY <1>1 DEF PlanInv
<1>3. d = [i \in 1 .. n |-> Clamped(got[PlannedClips[i]], xf)]
  BY DEF Lengths
<1>4. \A i \in 1 .. n : Clamped(got[PlannedClips[i]], xf) \in Nat /\ Clamped(got[PlannedClips[i]], xf) >= 2 * xf
  BY <1>2 DEF Clamped
<1> HIDE DEF d, n
<1>5. d \in Seq(Nat) /\ Len(d) = n /\ DOMAIN d = 1 .. n
  BY <1>1, <1>3, <1>4
<1>6. QED
  BY <1>1, <1>3, <1>4, <1>5 DEF d, n

(* Where they start, whichever way they are joined. *)
LEMMA StartsAre ==
    ASSUME PlanInv, NEW xf \in Nat
    PROVE  LET d == Lengths(PlannedClips, xf)
           IN  /\ ChainStarts(d, xf) = PairStarts(d, xf)
               /\ DOMAIN ChainStarts(d, xf) = 1 .. Len(d)
               /\ \A i \in 1 .. Len(d) : ChainStarts(d, xf)[i] = SumTo(d, i - 1) - xf * (i - 1)
<1> DEFINE d == Lengths(PlannedClips, xf)
           n == Len(d)
<1>1. n \in Nat /\ \A i \in 1 .. n : d[i] \in Int
  BY LengthsAre
<1> HIDE DEF d
<1>2. \A i \in 1 .. n : i # 1 => i - 1 \in 1 .. n
  BY <1>1
<1>3. \A i \in 1 .. n : PairOffset(d, xf, i) = ChainOffset(d, xf, i)
  BY <1>1, PairIsChain
<1>4. ChainStarts(d, xf) = PairStarts(d, xf)
  <2> DEFINE a(i) == IF i = 1 THEN 0 ELSE ChainOffset(d, xf, i - 1)
             b(i) == IF i = 1 THEN 0 ELSE PairOffset(d, xf, i - 1)
  <2>1. \A i \in 1 .. n : a(i) = b(i)
    BY <1>2, <1>3
  <2>2. ChainStarts(d, xf) = [i \in 1 .. n |-> a(i)] /\ PairStarts(d, xf) = [i \in 1 .. n |-> b(i)]
    BY DEF ChainStarts, PairStarts
  <2> HIDE DEF a, b
  <2>3. QED
    BY <2>1, <2>2
<1>5. SumTo(d, 0) = 0 /\ 1 - 1 = 0 /\ xf * (1 - 1) = 0
  BY <1>1, SumToIs
<1>6. \A i \in 1 .. n : ChainStarts(d, xf)[i] = SumTo(d, i - 1) - xf * (i - 1)
  BY <1>5 DEF ChainStarts, ChainOffset
<1>7. DOMAIN ChainStarts(d, xf) = 1 .. n
  BY DEF ChainStarts
<1>8. QED
  BY <1>4, <1>6, <1>7 DEF d, n

(* A reel: none, the clips as they are, or joined in one of the two ways.  *)
MadeReel(r) ==
    \/ r.xfade = 0 /\ r.windows = <<>>
    \/ \E xf \in Xfades : r = ChainedReel(xf) \/ r = PairedReel(xf)

LEMMA JoinedIs ==
    ASSUME PlanInv, NEW xf \in Xfades, NEW r, r = ChainedReel(xf) \/ r = PairedReel(xf)
    PROVE  /\ ChainedReel(xf).starts = PairedReel(xf).starts
           /\ \/ r = Joined(ChainStarts(Lengths(PlannedClips, xf), xf), Captions(xf), xf)
              \/ r = Joined(ChainStarts(Lengths(PlannedClips, xf), xf), <<>>, xf)
           /\ xf \in Nat
<1>1. xf \in Nat
  BY ReelAssumption
<1>2. ChainStarts(Lengths(PlannedClips, xf), xf) = PairStarts(Lengths(PlannedClips, xf), xf)
  BY <1>1, StartsAre
<1>3. QED
  BY <1>1, <1>2 DEF ChainedReel, PairedReel, PairCaptions, Joined

(* A caption, of any reel, is on its clip. *)
LEMMA CaptionsOfReel == ASSUME PlanInv, MadeReel(silent) PROVE CaptionsInOrder
<1> DEFINE n == Len(PlannedClips)
<1>0. CASE silent.windows = <<>>
  BY <1>0 DEF CaptionsInOrder
<1>1. ASSUME NEW xf \in Xfades, silent = ChainedReel(xf) \/ silent = PairedReel(xf),
             silent.windows # <<>>
      PROVE  CaptionsInOrder
  <2> DEFINE d == Lengths(PlannedClips, xf)
  <2>1. xf \in Nat /\ silent = Joined(ChainStarts(d, xf), Captions(xf), xf)
    BY <1>1, JoinedIs DEF Joined
  <2>2. /\ Len(d) = n /\ n \in Nat
        /\ \A i \in 1 .. n : d[i] \in Int /\ d[i] >= 2 * xf
    BY <2>1, LengthsAre
  <2>3. \A i \in 1 .. n : ChainStarts(d, xf)[i] = SumTo(d, i - 1) - xf * (i - 1)
    BY <2>1, <2>2, StartsAre
  <2>4. /\ silent.clips = PlannedClips /\ silent.starts = ChainStarts(d, xf)
        /\ Len(silent.clips) = n
        /\ silent.windows = IF n = 1 THEN <<[from |-> 0, to |-> sidecar[PlannedClips[1]]]>> ELSE CaptionWindows(d, xf)
    BY <2>1 DEF Joined, Captions
  <2> HIDE DEF d, n
  <2>5. CASE n = 1
    <3>1. sidecar[PlannedClips[1]] \in Nat
      <4>1. PlannedClips \in Seq(Joinable) /\ Len(PlannedClips) = 1
        BY <2>5, PlannedIs DEF n
      <4>2. PlannedClips[1] \in Joinable
        BY <4>1
      <4>3. QED
        BY <4>2, PlanTypes DEF Joinable
    <3>2. Len(silent.clips) = 1 /\ silent.windows = <<[from |-> 0, to |-> sidecar[PlannedClips[1]]]>>
      BY <2>4, <2>5 DEF n
    <3>3. QED
      BY <3>1, <3>2 DEF CaptionsInOrder
  <2>6. CASE n # 1
    <3> DEFINE from(i) == SumTo(d, i - 1) - xf * (i - 1)
    <3>1. silent.windows = [i \in 1 .. n |-> [from |-> from(i), to |-> CaptionEnd(d, xf, i)]]
      BY <2>2, <2>4, <2>6 DEF CaptionWindows
    <3>2. ASSUME NEW i \in 1 .. n
          PROVE  /\ from(i) \in Int /\ 0 <= from(i)
                 /\ from(i) <= CaptionEnd(d, xf, i) /\ CaptionEnd(d, xf, i) \in Int
                 /\ i < n => CaptionEnd(d, xf, i) <= from(i + 1)
      <4>1. /\ SumTo(d, i) = SumTo(d, i - 1) + d[i] /\ SumTo(d, i - 1) \in Int /\ SumTo(d, i) \in Int
            /\ d[i] \in Int /\ d[i] >= 2 * xf /\ SumTo(d, i - 1) >= xf * (i - 1)
        <5>1. i - 1 \in 0 .. n /\ i \in 0 .. n
          BY <2>2
        <5>2. QED
          BY <2>1, <2>2, <5>1, SumToIs, SumToRoom
      <4>2. xf * i = xf * (i - 1) + xf /\ xf * (i - 1) \in Int /\ (i + 1) - 1 = i
        BY <2>1
      <4> DEFINE p == xf * (i - 1)
      <4>3. CaptionEnd(d, xf, i) = SumTo(d, i) - p - (IF i < n THEN xf ELSE 0)
        BY <2>2 DEF CaptionEnd
      <4>4. i < n => from(i + 1) = SumTo(d, i) - (p + xf)
        BY <4>2
      <4>5. from(i) = SumTo(d, i - 1) - p /\ p \in Int /\ SumTo(d, i - 1) >= p
        BY <4>1, <4>2
      <4> HIDE DEF p, from
      <4>6. QED
        BY <2>1, <4>1, <4>3, <4>4, <4>5
    <3>3. \A i \in 1 .. n : silent.starts[i] = from(i)
      BY <2>3, <2>4
    <3> HIDE DEF from
    <3>4. Len(silent.windows) = n /\ DOMAIN silent.windows = 1 .. n
      BY <2>2, <3>1
    <3>5. \A i \in 1 .. n : silent.windows[i].from = from(i) /\ silent.windows[i].to = CaptionEnd(d, xf, i)
      BY <3>1
    <3>6. ASSUME NEW i \in 1 .. n, i < n PROVE silent.windows[i].to <= silent.starts[i + 1]
      <4>1. i + 1 \in 1 .. n
        BY <2>2, <3>6
      <4>2. silent.starts[i + 1] = from(i + 1)
        BY <3>3, <4>1
      <4>3. QED
        BY <3>2, <3>5, <3>6, <4>2
    <3>7. \A i \in 1 .. n : /\ 0 <= silent.windows[i].from /\ silent.windows[i].from = silent.starts[i]
                            /\ silent.windows[i].from <= silent.windows[i].to
      BY <3>2, <3>3, <3>5
    <3>8. QED
      BY <2>4, <3>4, <3>6, <3>7 DEF CaptionsInOrder
  <2>7. QED
    BY <2>5, <2>6
<1>2. QED
  BY <1>0, <1>1 DEF MadeReel

(* A reel that was joined, of a session that was captured as planned: mix  *)
(* and metadata suppose its clips, and their starts.                       *)
LEMMA SupposedIsJoined ==
    ASSUME PlanInv, NEW r, MadeReel(r), r.xfade \in Xfades, AsPlanned(r.xfade)
    PROVE  /\ Rendered \in Seq(DOMAIN sidecar) /\ ToSet(r.clips) = ToSet(Rendered)
           /\ \A i \in 1 .. Len(Rendered) : StartInReel(r, Rendered[i]) = SupposedStart(r.xfade, i)
           /\ 1 \in 1 .. Len(Rendered) => SupposedStart(r.xfade, 1) = 0
<1> DEFINE xf == r.xfade
           d == Lengths(PlannedClips, xf)
           n == Len(PlannedClips)
           D == DOMAIN sidecar
<1>1. xf \in Xfades /\ xf \in Nat \ {0}
  BY ReelAssumption
<1>2. \E w : r = Joined(ChainStarts(d, xf), w, xf)
  <2>1. PICK y \in Xfades : r = ChainedReel(y) \/ r = PairedReel(y)
    BY <1>1 DEF MadeReel
  <2>2. PICK w : r = Joined(ChainStarts(Lengths(PlannedClips, y), y), w, y)
    BY <2>1, JoinedIs
  <2>3. r.xfade = y
    BY <2>2 DEF Joined
  <2>4. QED
    BY <2>2, <2>3
<1>3. r.clips = PlannedClips /\ r.starts = ChainStarts(d, xf)
  <2> HIDE DEF xf
  <2>1. QED
    BY <1>2 DEF Joined
<1>4. Rendered = PlannedClips /\ Joinable = D
  BY RenderedIsPlanned
<1>5. /\ Rendered \in Seq(D) /\ n \in Nat /\ InOrder(PlannedClips, n, D) /\ D \in SUBSET AllBeats
  <2>1. /\ PlannedClips \in Seq(Joinable) /\ InOrder(PlannedClips, Cardinality(Joinable), Joinable)
        /\ Len(PlannedClips) = Cardinality(Joinable) /\ Joinable \in SUBSET AllBeats
    BY PlannedIs
  <2> HIDE DEF D
  <2>2. QED
    BY <1>4, <2>1 DEF InOrder
<1>6. d = SidecarLengths
  <2>1. \A i \in 1 .. n : PlannedClips[i] \in D
    BY <1>5 DEF InOrder
  <2>2. \A b \in D : got[b] = sidecar[b] /\ got[b] >= 2 * xf /\ got[b] \in Nat
    BY <1>5 DEF AsPlanned, PlanInv
  <2>3. \A i \in 1 .. n : Clamped(got[PlannedClips[i]], xf) = sidecar[PlannedClips[i]]
    BY <1>1, <2>1, <2>2 DEF Clamped
  <2> DEFINE a(i) == Clamped(got[PlannedClips[i]], xf)
             b(i) == IF PlannedClips[i] \in DOMAIN sidecar THEN sidecar[PlannedClips[i]] ELSE 0
  <2>4. \A i \in 1 .. n : a(i) = b(i)
    BY <2>1, <2>3
  <2>5. d = [i \in 1 .. n |-> a(i)] /\ SidecarLengths = [i \in 1 .. n |-> b(i)]
    BY <1>4 DEF Lengths, SidecarLengths
  <2> HIDE DEF a, b, d, n
  <2>6. QED
    BY <2>4, <2>5
<1>7. Len(d) = n /\ \A i \in 1 .. n : d[i] \in Int
  BY <1>1, LengthsAre
<1>8. \A i \in 1 .. n : r.starts[i] = SupposedStart(xf, i)
  <2>1. \A i \in 1 .. Len(d) : ChainStarts(d, xf)[i] = SumTo(d, i - 1) - xf * (i - 1)
    BY <1>1, StartsAre
  <2> HIDE DEF d, n, xf
  <2>2. QED
    BY <1>3, <1>6, <1>7, <2>1 DEF SupposedStart
<1>9. ASSUME NEW i \in 1 .. n PROVE StartInReel(r, PlannedClips[i]) = r.starts[i]
  <2>1. DOMAIN PlannedClips = 1 .. n
    BY <1>5 DEF InOrder
  <2>2. ASSUME NEW j \in 1 .. n, PlannedClips[j] = PlannedClips[i] PROVE j = i
    <3>1. PlannedClips[i] \in D /\ (i < j \/ j < i => Earlier(PlannedClips[i], PlannedClips[i]))
      BY <1>5, <2>2 DEF InOrder
    <3>2. ~Earlier(PlannedClips[i], PlannedClips[i])
      BY <1>5, <3>1, EarlierOrders
    <3>3. QED
      BY <3>1, <3>2
  <2>3. (CHOOSE j \in DOMAIN PlannedClips : PlannedClips[j] = PlannedClips[i]) = i
    BY <2>1, <2>2
  <2>4. QED
    BY <1>3, <2>3 DEF StartInReel
<1>10. 1 \in 1 .. n => SupposedStart(xf, 1) = 0
  <2>1. SumTo(d, 0) = 0 /\ 1 - 1 = 0 /\ xf * 0 = 0
    BY <1>1, <1>5, <1>7, SumToIs
  <2> HIDE DEF d, xf
  <2>2. QED
    BY <1>6, <2>1 DEF SupposedStart
<1> HIDE DEF d, D
<1>11. QED
  BY <1>3, <1>4, <1>5, <1>8, <1>9, <1>10 DEF D

(* So the voice is on its clip, and the chapters are where the clips are.  *)
LEMMA OnsetsOfReel ==
    ASSUME PlanInv, NEW r, MadeReel(r), r.xfade \in Xfades, AsPlanned(r.xfade)
    PROVE  OnsetsHit(r, Onsets(r.xfade))
<1> DEFINE xf == r.xfade
<1>1. /\ Rendered \in Seq(DOMAIN sidecar) /\ ToSet(r.clips) = ToSet(Rendered)
      /\ \A i \in 1 .. Len(Rendered) : StartInReel(r, Rendered[i]) = SupposedStart(xf, i)
  BY SupposedIsJoined
<1> HIDE DEF xf
<1>2. SUFFICES ASSUME NEW o \in Onsets(xf)
               PROVE  o.beat \in ToSet(r.clips) /\ o.at = StartInReel(r, o.beat) + LineStart(vo[o.beat], o.line)
  BY DEF OnsetsHit, xf
<1>3. PICK i \in 1 .. Len(Rendered) : \E k \in 1 .. Len(vo[Rendered[i]]) :
         o = [beat |-> Rendered[i], line |-> k, at |-> SupposedStart(xf, i) + LineStart(vo[Rendered[i]], k)]
  BY DEF Onsets
<1>4. o.beat = Rendered[i] /\ o.at = SupposedStart(xf, i) + LineStart(vo[Rendered[i]], o.line)
  BY <1>3
<1>5. Rendered[i] \in ToSet(Rendered)
  BY <1>1 DEF ToSet
<1>6. QED
  BY <1>1, <1>4, <1>5

LEMMA ChaptersAre ==
    ASSUME PlanInv, NEW xf
    PROVE  /\ Chapters(xf) # <<>> => Chapters(xf)[1].at = 0
           /\ Len(Chapters(xf)) # 1 /\ Len(Chapters(xf)) # 2
           /\ \A i \in DOMAIN Chapters(xf) :
                 /\ i \in 1 .. Len(Rendered) /\ Chapters(xf)[i].beat = Rendered[i]
                 /\ Chapters(xf)[i].at = IF i = 1 THEN 0 ELSE SupposedStart(xf, i)
<1> DEFINE n == Len(Rendered)
           all == [i \in 1 .. n |-> [beat |-> Rendered[i], at |-> IF i = 1 THEN 0 ELSE ChapterStart(xf, i)]]
<1>1. n \in Nat
  <2>1. Rendered \in Seq(DOMAIN sidecar)
    <3>1. Len(beatsFile) \in Nat
      BY PlanTypes
    <3>2. QED
      BY <3>1, RenderedIs
  <2>2. QED
    BY <2>1
<1>2. Chapters(xf) = IF Len(all) < 3 THEN <<>> ELSE all
  BY DEF Chapters, EnoughChapters
<1>3. DOMAIN all = 1 .. n /\ Len(all) = n
  <2> HIDE DEF n
  <2>1. QED
    BY <1>1
<1>4. \A i \in 1 .. n : all[i].beat = Rendered[i] /\ all[i].at = IF i = 1 THEN 0 ELSE SupposedStart(xf, i)
  BY DEF ChapterStart
<1> HIDE DEF all, n
<1>5. CASE n < 3
  BY <1>2, <1>3, <1>5
<1>6. CASE ~(n < 3)
  <2>1. 1 \in 1 .. n /\ Chapters(xf) = all
    BY <1>1, <1>2, <1>3, <1>6
  <2>2. QED
    BY <1>1, <1>3, <1>4, <1>6, <2>1 DEF n
<1>7. QED
  BY <1>5, <1>6

-------------------------------------------------------------------------------
(* The sound and the metadata were made from a reel, or from none, and     *)
(* from the files of the capture, which do not change.                     *)
Clipped(r) == r.clips \in Seq(webm) /\ Len(r.starts) = Len(r.clips)
ReelInv ==
    /\ PlanInv
    /\ MadeReel(silent) /\ Clipped(silent) /\ reelMeta \in Xfades \cup {0}
    /\ mixed = NotMixed \/ \E xf \in Xfades : /\ mixed.xfade = xf /\ mixed.onsets = Onsets(xf)
                                             /\ MadeReel(mixed.of)
    /\ episode = NoEpisode \/ \E xf \in Xfades : /\ episode.xfade = xf /\ episode.chapters = Chapters(xf)
                                               /\ MadeReel(episode.of)

LEMMA PlanStays ==
    ASSUME UNCHANGED plan
    PROVE  /\ PlanInv' = PlanInv /\ \A r : MadeReel(r)' = MadeReel(r)
           /\ \A xf : Onsets(xf)' = Onsets(xf) /\ Chapters(xf)' = Chapters(xf)
<1>1. PlannedClips' = PlannedClips
  BY DEF plan, PlannedClips, SortedBy, Earlier, TimeKey
<1>2. Rendered' = Rendered
  BY DEF plan, Rendered, FoldLeft, MapThenFoldSet, WithClip
<1>3. UNCHANGED <<beatsFile, webm, sidecar, got, vo>>
  BY DEF plan
<1>4. PlanInv' = PlanInv
  BY <1>3 DEF PlanInv
<1>5. ASSUME NEW xf PROVE Onsets(xf)' = Onsets(xf)
  BY <1>2, <1>3 DEF Onsets, SupposedStart, SidecarLengths, LineStart
<1>6. ASSUME NEW xf PROVE Chapters(xf)' = Chapters(xf)
  BY <1>2, <1>3 DEF Chapters, ChapterStart, SupposedStart, SidecarLengths
<1>7. ASSUME NEW xf PROVE ChainedReel(xf)' = ChainedReel(xf) /\ PairedReel(xf)' = PairedReel(xf)
  <2>1. Lengths(PlannedClips, xf)' = Lengths(PlannedClips, xf)
    BY <1>1, <1>3 DEF Lengths
  <2>2. Captions(xf)' = Captions(xf) /\ PairCaptions(xf)' = PairCaptions(xf)
    BY <1>1, <1>3, <2>1 DEF Captions, PairCaptions
  <2>3. ASSUME NEW starts, NEW w PROVE Joined(starts, w, xf)' = Joined(starts, w, xf)
    BY <1>1, <1>3 DEF Joined
  <2>4. QED
    BY <2>1, <2>2, <2>3 DEF ChainedReel, PairedReel
<1>8. ASSUME NEW r PROVE MadeReel(r)' = MadeReel(r)
  BY <1>7 DEF MadeReel
<1>9. QED
  BY <1>4, <1>5, <1>6, <1>8

LEMMA ReelInit_Inv == ReelInit => ReelInv
<1> SUFFICES ASSUME ReelInit PROVE ReelInv
  OBVIOUS
<1>1. Captured /\ NothingMade
  BY DEF ReelInit
<1>2. beatsFile \in BeatFiles /\ webm \subseteq AllBeats
  BY <1>1 DEF Captured
<1>3. DOMAIN sidecar \subseteq AllBeats /\ \A b \in DOMAIN sidecar : sidecar[b] \in ClipLengths
  BY <1>1 DEF Captured
<1>4. \A b \in AllBeats : got[b] \in Nat
  <2>1. PICK cut \in {{}} \cup {{b} : b \in AllBeats}, short \in {0, 1} :
          got = [b \in AllBeats |-> IF b \notin DOMAIN sidecar THEN 0
                                    ELSE IF b \in cut THEN short ELSE sidecar[b]]
    BY <1>1 DEF Captured
  <2>2. ClipLengths \subseteq Nat
    BY ReelAssumption
  <2>3. QED
    BY <1>3, <2>1, <2>2
<1>5. PlanInv
  BY <1>2, <1>3, <1>4 DEF PlanInv
<1>6. QED
  BY <1>1, <1>5 DEF NothingMade, ReelInv, MadeReel, Clipped, NoReel

(* The clips of a reel are those the stitcher joins, each with its start.  *)
LEMMA ClipsOfReel ==
    ASSUME PlanInv, NEW xf \in Xfades, NEW r, r = ChainedReel(xf) \/ r = PairedReel(xf)
    PROVE  Clipped(r)
<1> DEFINE d == Lengths(PlannedClips, xf)
<1>1. xf \in Nat /\ \E w : r = Joined(ChainStarts(d, xf), w, xf)
  BY JoinedIs
<1>2. Len(d) = Len(PlannedClips) /\ Len(d) \in Nat
  BY <1>1, LengthsAre
<1>3. r.clips = PlannedClips /\ r.starts = ChainStarts(d, xf)
  BY <1>1 DEF Joined
<1> HIDE DEF d
<1>4. Len(ChainStarts(d, xf)) = Len(d)
  BY <1>2 DEF ChainStarts
<1>5. PlannedClips \in Seq(webm)
  BY PlannedIs DEF Joinable
<1>6. QED
  BY <1>2, <1>3, <1>4, <1>5 DEF Clipped

LEMMA PassedThroughIs ==
    ASSUME PlanInv, NEW r,
           LET d == [i \in 1 .. Len(PlannedClips) |-> got[PlannedClips[i]]]
           IN  r = [clips |-> PlannedClips, xfade |-> 0, windows |-> <<>>,
                    starts |-> [i \in DOMAIN d |-> SumTo(d, i - 1)]]
    PROVE  Clipped(r)
<1> DEFINE d == [i \in 1 .. Len(PlannedClips) |-> got[PlannedClips[i]]]
           n == Len(PlannedClips)
<1>1. PlannedClips \in Seq(webm) /\ n \in Nat
  BY PlannedIs DEF Joinable
<1>2. DOMAIN d = 1 .. n
  OBVIOUS
<1>3. r.clips = PlannedClips /\ r.starts = [i \in DOMAIN d |-> SumTo(d, i - 1)]
  OBVIOUS
<1> HIDE DEF d, n
<1>4. Len([i \in DOMAIN d |-> SumTo(d, i - 1)]) = n
  BY <1>1, <1>2
<1>5. QED
  BY <1>1, <1>3, <1>4 DEF Clipped, n

LEMMA Used ==
    ASSUME ReelInv, NEW flag \in Xfades \cup {NotGiven}
    PROVE  UsedXfade(flag) \in Xfades
  BY ReelAssumption DEF ReelInv, UsedXfade, ResolvedXfade, MainXfade, NotGiven

LEMMA ReelNext_Inv == ReelInv /\ [ReelNext]_reelVars => ReelInv'
<1> SUFFICES ASSUME ReelInv, [ReelNext]_reelVars PROVE ReelInv'
  OBVIOUS
<1>1. UNCHANGED plan
  BY DEF ReelNext, StitchPassThrough, StitchChained, StitchPairwise, Mix, MakeEpisode, plan, reelVars
<1>2. /\ PlanInv' /\ \A r : MadeReel(r)' = MadeReel(r)
      /\ \A xf : Onsets(xf)' = Onsets(xf) /\ Chapters(xf)' = Chapters(xf)
  BY <1>1, PlanStays DEF ReelInv
<1>3. ASSUME UNCHANGED mixed, UNCHANGED episode, reelMeta' \in Xfades \cup {0}, MadeReel(silent'),
             Clipped(silent')
      PROVE  ReelInv'
  BY <1>1, <1>2, <1>3 DEF ReelInv, Clipped, plan
<1>4. CASE StitchPassThrough
  <2>1. silent'.xfade = 0 /\ silent'.windows = <<>>
    BY <1>4 DEF StitchPassThrough
  <2>2. Clipped(silent')
    BY <1>4, PassedThroughIs DEF StitchPassThrough, ReelInv
  <2>3. QED
    BY <1>3, <1>4, <2>1, <2>2 DEF StitchPassThrough, ReelInv, MadeReel
<1>5. ASSUME NEW xf \in Xfades, StitchChained(xf) PROVE ReelInv'
  <2>1. Clipped(silent')
    BY <1>5, ClipsOfReel DEF StitchChained, ReelInv
  <2>2. QED
    BY <1>3, <1>5, <2>1 DEF StitchChained, WritesMeta, ReelInv, MadeReel
<1>6. ASSUME NEW xf \in Xfades, StitchPairwise(xf) PROVE ReelInv'
  <2>1. NoReel.xfade = 0 /\ NoReel.windows = <<>> /\ Clipped(NoReel)
    BY DEF NoReel, Clipped
  <2>2. MadeReel(silent') /\ reelMeta' \in Xfades \cup {0} /\ UNCHANGED <<mixed, episode>>
    BY <1>6, <2>1 DEF StitchPairwise, WritesMeta, ReelInv, MadeReel
  <2>3. Clipped(silent')
    BY <1>6, <2>1, ClipsOfReel DEF StitchPairwise, ReelInv
  <2>4. QED
    BY <1>3, <2>2, <2>3
<1>7. ASSUME NEW flag \in Xfades \cup {NotGiven}, Mix(flag) PROVE ReelInv'
  <2>1. UsedXfade(flag) \in Xfades /\ UNCHANGED <<silent, reelMeta, episode>>
    BY <1>7, Used DEF Mix
  <2>2. mixed' = NotMixed \/ \E xf \in Xfades : mixed'.xfade = xf /\ mixed'.onsets = Onsets(xf) /\ mixed'.of = silent
    BY <1>7, <2>1 DEF Mix
  <2>3. QED
    BY <1>1, <1>2, <2>1, <2>2 DEF ReelInv, Clipped, plan
<1>8. ASSUME NEW flag \in Xfades \cup {NotGiven}, MakeEpisode(flag) PROVE ReelInv'
  <2>1. UsedXfade(flag) \in Xfades /\ UNCHANGED <<silent, reelMeta, mixed>>
    BY <1>8, Used DEF MakeEpisode
  <2>2. \E xf \in Xfades : episode'.xfade = xf /\ episode'.chapters = Chapters(xf) /\ episode'.of = silent
    BY <1>8, <2>1 DEF MakeEpisode
  <2>3. QED
    BY <1>1, <1>2, <2>1, <2>2 DEF ReelInv, Clipped, plan
<1>9. CASE UNCHANGED reelVars
  BY <1>3, <1>9 DEF reelVars, ReelInv
<1>10. QED
  BY <1>4, <1>5, <1>6, <1>7, <1>8, <1>9 DEF ReelNext

LEMMA ReelIdle_Inv == ReelIdle => ReelInv
<1> SUFFICES ASSUME ReelIdle PROVE ReelInv
  OBVIOUS
<1>1. PlanInv
  BY DEF ReelIdle, PlanInv
<1>2. QED
  BY <1>1 DEF ReelIdle, NothingMade, ReelInv, MadeReel, Clipped, NoReel

LEMMA InSync == ASSUME ReelInv PROVE ReelIsInSync
<1>1. PlanInv /\ MadeReel(silent)
  BY DEF ReelInv
<1>2. CaptionsInOrder
  BY <1>1, CaptionsOfReel
<1>3. FallbackStartsAlike
  BY <1>1, JoinedIs DEF FallbackStartsAlike
<1>4. 0 \notin Xfades
  BY ReelAssumption
<1>5. VoiceOnItsClip
  <2> SUFFICES ASSUME mixed.xfade = mixed.of.xfade, AsPlanned(mixed.xfade)
               PROVE  OnsetsHit(mixed.of, mixed.onsets)
    BY DEF VoiceOnItsClip
  <2>1. CASE mixed = NotMixed
    BY <2>1 DEF NotMixed, OnsetsHit
  <2>2. CASE \E xf \in Xfades : mixed.xfade = xf /\ mixed.onsets = Onsets(xf) /\ MadeReel(mixed.of)
    BY <1>1, <2>2, OnsetsOfReel
  <2>3. QED
    BY <2>1, <2>2 DEF ReelInv
<1>6. ChaptersClick
  <2>1. CASE episode = NoEpisode
    BY <2>1 DEF NoEpisode, ChaptersClick
  <2>2. ASSUME NEW xf \in Xfades, episode.xfade = xf, episode.chapters = Chapters(xf), MadeReel(episode.of)
        PROVE  ChaptersClick
    <3>1. episode.chapters # <<>> => episode.chapters[1].at = 0
      BY <1>1, <2>2, ChaptersAre
    <3>2. ASSUME episode.xfade = episode.of.xfade, AsPlanned(episode.xfade), NEW i \in DOMAIN episode.chapters
          PROVE  episode.chapters[i].at = StartInReel(episode.of, episode.chapters[i].beat)
      <4>1. /\ i \in 1 .. Len(Rendered) /\ episode.chapters[i].beat = Rendered[i]
            /\ episode.chapters[i].at = IF i = 1 THEN 0 ELSE SupposedStart(xf, i)
        BY <1>1, <2>2, ChaptersAre
      <4>2. /\ \A j \in 1 .. Len(Rendered) : StartInReel(episode.of, Rendered[j]) = SupposedStart(xf, j)
            /\ 1 \in 1 .. Len(Rendered) => SupposedStart(xf, 1) = 0
        BY <1>1, <2>2, <3>2, SupposedIsJoined
      <4>3. QED
        BY <4>1, <4>2
    <3>3. QED
      BY <3>1, <3>2 DEF ChaptersClick
  <2>3. QED
    BY <2>1, <2>2 DEF ReelInv
<1>7. QED
  BY <1>2, <1>3, <1>5, <1>6 DEF ReelIsInSync

(* However the reel was joined, and whatever was run again, its captions,  *)
(* voice and chapters agree on when each clip runs.                        *)
THEOREM ReelIsInSyncHolds == ReelSpec => []ReelIsInSync
  BY ReelInit_Inv, ReelNext_Inv, InSync, PTL DEF ReelSpec

-------------------------------------------------------------------------------
(* Chains.  What carries the proof is that while a chain is alone nobody   *)
(* else writes the files of its session (LeftAlone), so that those of the  *)
(* steps it has passed stay (Delivered).                                   *)
Phases == {"new", "running", "done", "failed", "killed"}
RunType == [phase : Phases, session : Sessions, enabled : SUBSET DOMAIN Output, force : BOOLEAN,
            step : 1 .. Len(Steps) + 1, attempt : 1 .. MaxAttempts, writing : BOOLEAN, clash : BOOLEAN,
            alone : BOOLEAN]
Begun(r) == run[r].phase # "new"

(* What a chain is at. *)
Sane ==
    /\ disk \in [Sessions -> [Files -> {"none", "half", "whole"}]]
    /\ run \in [ChainRuns -> RunType] /\ kills \in 0 .. MaxKills
    /\ \A r \in ChainRuns :
          /\ run[r].session \in {Saved, r}
          /\ ~Begun(r) => run[r] = NotAsked
          /\ run[r].writing => Running(r) /\ run[r].step <= Len(Steps)
          /\ run[r].phase = "done" => run[r].step = Len(Steps) + 1
          /\ run[r].clash => ~run[r].alone

(* No chain runs on the session of one that is alone, but that one. *)
LeftAlone ==
    \A q, r \in ChainRuns :
       q # r /\ Begun(r) /\ run[r].alone /\ run[q].session = run[r].session => ~Running(q)

TwoOn(s) == \E q, r \in ChainRuns : q # r /\ \A o \in {q, r} : Begun(o) /\ run[o].session = s
TwoIfNot == \A r \in ChainRuns : Begun(r) /\ ~run[r].alone => TwoOn(run[r].session)

(* A chain that is alone has made what it passed, and works on its file.   *)
Passed(r) ==
    \A i \in 1 .. Len(Steps) : i < run[r].step /\ Steps[i] \in Made(r) =>
       /\ disk[run[r].session][Output[Steps[i]]] # "none"
       /\ run[r].force => disk[run[r].session][Output[Steps[i]]] = "whole"
AtWork(r) == run[r].writing /\ Key(r) \in ByFfmpeg => At(r, OutputOf(r)) = "half"
Delivered == \A r \in ChainRuns : run[r].phase \in {"running", "done"} /\ run[r].alone => Passed(r) /\ AtWork(r)

(* Why a file is half written. *)
FfmpegAt(s, f) == \E r \in ChainRuns :
                     run[r].writing /\ run[r].session = s /\ Key(r) \in ByFfmpeg /\ OutputOf(r) = f
Explained ==
    \A s \in Sessions, f \in Files :
       disk[s][f] = "half" => kills > 0 \/ f = "thumb" \/ TwoOn(s) \/ FfmpegAt(s, f)

ChainInv == Sane /\ LeftAlone /\ TwoIfNot /\ Delivered /\ Explained

LEMMA StepsAre ==
    /\ Len(Steps) = 9
    /\ Steps[1] = "session" /\ Steps[2] = "beats" /\ Steps[3] = "headless" /\ Steps[4] = "stitch"
    /\ Steps[5] = "tts" /\ Steps[6] = "mix" /\ Steps[7] = "thumb" /\ Steps[8] = "metadata" /\ Steps[9] = "upload"
  BY DEF Steps

LEMMA NumbersAre == \A i \in 1 .. 9 : i = 1 \/ i = 2 \/ i = 3 \/ i = 4 \/ i = 5 \/ i = 6 \/ i = 7 \/ i = 8 \/ i = 9
  OBVIOUS

(* Every step has a file of its own. *)
LEMMA OutputsAre ==
    /\ DOMAIN Output = {"session", "beats", "headless", "stitch", "tts", "mix", "thumb", "metadata", "upload"}
    /\ Output["session"] = "manifest" /\ Output["beats"] = "beats" /\ Output["headless"] = "clips"
    /\ Output["stitch"] = "silent" /\ Output["tts"] = "vo" /\ Output["mix"] = "reel"
    /\ Output["thumb"] = "thumb" /\ Output["metadata"] = "episode" /\ Output["upload"] = "response"
  BY DEF Output

LEMMA FilesApart ==
    /\ \A i \in 1 .. 9 : Steps[i] \in DOMAIN Output /\ Output[Steps[i]] \in Files
    /\ \A i, j \in 1 .. 9 : Output[Steps[i]] = Output[Steps[j]] => i = j
<1>1. \A i \in 1 .. 9 : Steps[i] \in DOMAIN Output
  BY StepsAre, NumbersAre, OutputsAre
<1>2. \A i \in 1 .. 9 : Output[Steps[i]] \in Files
  BY <1>1 DEF Files
<1> DEFINE number(f) == CASE f = "manifest" -> 1 [] f = "beats" -> 2 [] f = "clips" -> 3 [] f = "silent" -> 4
                          [] f = "vo" -> 5 [] f = "reel" -> 6 [] f = "thumb" -> 7 [] f = "episode" -> 8
                          [] f = "response" -> 9
<1>3. \A i \in 1 .. 9 : number(Output[Steps[i]]) = i
  <2> TAKE i \in 1 .. 9
  <2>1. CASE i = 1 BY <2>1, StepsAre, OutputsAre
  <2>2. CASE i = 2 BY <2>2, StepsAre, OutputsAre
  <2>3. CASE i = 3 BY <2>3, StepsAre, OutputsAre
  <2>4. CASE i = 4 BY <2>4, StepsAre, OutputsAre
  <2>5. CASE i = 5 BY <2>5, StepsAre, OutputsAre
  <2>6. CASE i = 6 BY <2>6, StepsAre, OutputsAre
  <2>7. CASE i = 7 BY <2>7, StepsAre, OutputsAre
  <2>8. CASE i = 8 BY <2>8, StepsAre, OutputsAre
  <2>9. CASE i = 9 BY <2>9, StepsAre, OutputsAre
  <2>10. QED
    BY <2>1, <2>2, <2>3, <2>4, <2>5, <2>6, <2>7, <2>8, <2>9, NumbersAre
<1> HIDE DEF number
<1>4. QED
  BY <1>1, <1>2, <1>3

LEMMA ChainInit_Inv == ChainInit => ChainInv
<1> SUFFICES ASSUME ChainInit PROVE ChainInv
  OBVIOUS
<1>1. \A r \in ChainRuns : run[r] = NotAsked /\ run[r] \in RunType
  <2>1. 1 \in 1 .. MaxAttempts /\ 1 \in 1 .. Len(Steps) + 1
    BY ChainAssumption, StepsAre
  <2>2. NotAsked \in RunType
    BY <2>1 DEF NotAsked, RunType, Phases, Sessions
  <2>3. QED
    BY <2>2 DEF ChainInit
<1>2. \A s \in Sessions, f \in Files : disk[s][f] # "half"
  BY DEF ChainInit
<1>3. /\ disk \in [Sessions -> [Files -> {"none", "half", "whole"}]]
      /\ run \in [ChainRuns -> RunType] /\ kills \in 0 .. MaxKills
  BY <1>1, ChainAssumption DEF ChainInit
<1>4. Sane
  BY <1>1, <1>3 DEF Sane, NotAsked, Begun, Running
<1>5. LeftAlone /\ TwoIfNot /\ Delivered
  BY <1>1 DEF NotAsked, Begun, Running, LeftAlone, TwoIfNot, Delivered
<1>6. QED
  BY <1>2, <1>4, <1>5 DEF ChainInv, Explained

(* What a step of a chain is, seen from the others: it works on the file   *)
(* of its step and on nothing else.                                        *)
OwnStep(r) ==
    /\ Running(r) /\ kills' = kills
    /\ run' \in [ChainRuns -> RunType] /\ disk' \in [Sessions -> [Files -> {"none", "half", "whole"}]]
    /\ \A o \in ChainRuns \ {r} :
          run'[o] = run[o] \/ (o \in Others(r) /\ run'[o] = [run[o] EXCEPT !.clash = TRUE])
    /\ run'[r].session = run[r].session /\ run'[r].enabled = run[r].enabled
    /\ run'[r].force = run[r].force /\ run'[r].alone = run[r].alone /\ run'[r].phase # "new"
    /\ run'[r].clash => run[r].clash \/ Others(r) # {}
    /\ run'[r].writing => run'[r].phase = "running" /\ run'[r].step <= Len(Steps)
    /\ run'[r].phase = "done" => run'[r].step = Len(Steps) + 1
    /\ \A s \in Sessions, f \in Files :
          disk'[s][f] = disk[s][f] \/ (s = run[r].session /\ f = OutputOf(r))

LEMMA OthersAre ==
    ASSUME ChainInv, NEW r \in ChainRuns, Running(r), NEW o \in ChainRuns, o # r, run[o].session = run[r].session, Begun(o)
    PROVE  ~run[o].alone
<1>1. run[o].alone => ~Running(r)
  BY DEF ChainInv, LeftAlone
<1>2. QED
  BY <1>1

LEMMA OwnStep_Inv ==
    ASSUME ChainInv, NEW r \in ChainRuns, OwnStep(r),
           run'[r].phase \in {"running", "done"} /\ run'[r].alone => Passed(r)' /\ AtWork(r)',
           \A f \in Files :
              /\ disk'[run[r].session][f] = "half" /\ f = OutputOf(r)
              /\ run[r].writing \/ disk'[run[r].session][f] # disk[run[r].session][f]
              => kills > 0 \/ f = "thumb" \/ TwoOn(run[r].session) \/ FfmpegAt(run[r].session, f)'
    PROVE  ChainInv'
<1> USE DEF Running
<1>1. /\ run \in [ChainRuns -> RunType] /\ Begun(r) /\ Begun(r)'
      /\ run'[r].session = run[r].session /\ run'[r].alone = run[r].alone
  BY DEF OwnStep, ChainInv, Sane, Begun
<1>2. ASSUME NEW o \in ChainRuns, o # r
      PROVE  /\ run'[o].phase = run[o].phase /\ run'[o].session = run[o].session
             /\ run'[o].alone = run[o].alone /\ run'[o].enabled = run[o].enabled
             /\ run'[o].force = run[o].force /\ run'[o].step = run[o].step /\ run'[o].writing = run[o].writing
             /\ run'[o] = run[o] \/ (Begun(o) /\ run[o].session = run[r].session)
             /\ Begun(o)' = Begun(o)
  <2>1. run[o] \in RunType
    BY <1>1
  <2>2. run'[o] = run[o] \/ (o \in Others(r) /\ run'[o] = [run[o] EXCEPT !.clash = TRUE])
    BY <1>2 DEF OwnStep
  <2>3. o \in Others(r) => Begun(o) /\ run[o].session = run[r].session
    BY DEF Others, Begun
  <2>4. QED
    BY <2>1, <2>2, <2>3 DEF RunType, Begun
<1>3. \A o \in ChainRuns : Begun(o)' = Begun(o) /\ run'[o].session = run[o].session /\ run'[o].alone = run[o].alone
  <2> TAKE o \in ChainRuns
  <2>1. CASE o = r
    BY <1>1, <2>1
  <2>2. CASE o # r
    BY <1>2, <2>2
  <2>3. QED
    BY <2>1, <2>2
<1>4. \A s : TwoOn(s) => TwoOn(s)'
  BY <1>3 DEF TwoOn
<1>5. LeftAlone'
  <2>1. \A o \in ChainRuns : run'[o].phase = "running" => run[o].phase = "running"
    BY <1>2 DEF OwnStep
  <2>2. QED
    BY <1>3, <2>1 DEF LeftAlone, ChainInv
<1>6. TwoIfNot'
  BY <1>3, <1>4 DEF TwoIfNot, ChainInv
<1>7. Sane'
  <2>1. \A o \in Others(r) : ~run[r].alone
    BY <1>1 DEF Others, ChainInv, LeftAlone
  <2>2. ASSUME NEW o \in ChainRuns
        PROVE  /\ run'[o].session \in {Saved, o}
               /\ ~Begun(o)' => run'[o] = NotAsked
               /\ run'[o].writing => run'[o].phase = "running" /\ run'[o].step <= Len(Steps)
               /\ run'[o].phase = "done" => run'[o].step = Len(Steps) + 1
               /\ run'[o].clash => ~run'[o].alone
    <3>1. CASE o = r
      BY <1>1, <2>1, <3>1 DEF OwnStep, ChainInv, Sane
    <3>2. CASE o # r
      <4>1. run'[o].session \in {Saved, o} /\ (~Begun(o)' => run'[o] = NotAsked)
        BY <1>2, <3>2 DEF ChainInv, Sane
      <4>2. run'[o].writing => run'[o].phase = "running" /\ run'[o].step <= Len(Steps)
        BY <1>2, <3>2 DEF ChainInv, Sane
      <4>3. run'[o].phase = "done" => run'[o].step = Len(Steps) + 1
        BY <1>2, <3>2 DEF ChainInv, Sane
      <4>4. run'[o].clash => ~run'[o].alone
        BY <1>2, <3>2, OthersAre DEF ChainInv, Sane, OwnStep
      <4>5. QED
        BY <4>1, <4>2, <4>3, <4>4
    <3>3. QED
      BY <3>1, <3>2
  <2>3. /\ run' \in [ChainRuns -> RunType] /\ disk' \in [Sessions -> [Files -> {"none", "half", "whole"}]]
        /\ kills' \in 0 .. MaxKills
    BY DEF OwnStep, ChainInv, Sane
  <2>4. QED
    BY <2>2, <2>3 DEF Sane
<1>8. Delivered'
  <2>1. ASSUME NEW o \in ChainRuns, run'[o].phase \in {"running", "done"}, run'[o].alone
        PROVE  Passed(o)' /\ AtWork(o)'
    <3>1. CASE o = r
      BY <2>1, <3>1
    <3>2. CASE o # r
      <4>1. run'[o] = run[o] /\ run[o].session # run[r].session
        BY <1>2, <2>1, <3>2, OthersAre DEF OwnStep, Begun
      <4>2. run[o] \in RunType /\ run[o].session \in Sessions /\ Passed(o) /\ AtWork(o)
        BY <1>1, <2>1, <4>1 DEF Delivered, ChainInv, RunType
      <4>3. \A f \in Files : disk'[run[o].session][f] = disk[run[o].session][f]
        BY <4>1, <4>2 DEF OwnStep
      <4>4. Passed(o)'
        <5>1. \A i \in 1 .. Len(Steps) : Output[Steps[i]] \in Files
          BY FilesApart, StepsAre
        <5>2. Made(o)' = Made(o)
          BY <4>1 DEF Made
        <5>3. QED
          BY <4>1, <4>2, <4>3, <5>1, <5>2 DEF Passed
      <4>5. AtWork(o)'
        <5>1. run[o].writing => OutputOf(o) \in Files
          <6>1. run[o].writing => run[o].step \in 1 .. 9
            BY <4>2, StepsAre DEF RunType, ChainInv, Sane
          <6>2. QED
            BY <6>1, FilesApart DEF OutputOf, Key
        <5>2. Key(o)' = Key(o) /\ OutputOf(o)' = OutputOf(o)
          BY <4>1 DEF Key, OutputOf
        <5>3. QED
          BY <4>1, <4>2, <4>3, <5>1, <5>2 DEF AtWork, At
      <4>6. QED
        BY <4>4, <4>5
    <3>3. QED
      BY <3>1, <3>2
  <2>2. QED
    BY <2>1 DEF Delivered
<1>9. Explained'
  <2> SUFFICES ASSUME NEW s \in Sessions, NEW f \in Files, disk'[s][f] = "half"
               PROVE  kills' > 0 \/ f = "thumb" \/ TwoOn(s)' \/ FfmpegAt(s, f)'
    BY DEF Explained
  <2>1. CASE s = run[r].session /\ f = OutputOf(r) /\ (run[r].writing \/ disk'[s][f] # disk[s][f])
    BY <1>1, <1>4, <2>1 DEF OwnStep
  <2>2. CASE ~(s = run[r].session /\ f = OutputOf(r) /\ (run[r].writing \/ disk'[s][f] # disk[s][f]))
    <3>1. disk[s][f] = "half"
      BY <2>2 DEF OwnStep
    <3>2. kills > 0 \/ f = "thumb" \/ TwoOn(s) \/ FfmpegAt(s, f)
      BY <3>1 DEF ChainInv, Explained
    <3>3. ASSUME FfmpegAt(s, f) PROVE FfmpegAt(s, f)'
      <4>1. PICK o \in ChainRuns : run[o].writing /\ run[o].session = s /\ Key(o) \in ByFfmpeg /\ OutputOf(o) = f
        BY <3>3 DEF FfmpegAt
      <4>2. o # r
        BY <2>2, <4>1
      <4>3. Key(o)' = Key(o) /\ OutputOf(o)' = OutputOf(o)
        BY <1>2, <4>2 DEF Key, OutputOf
      <4>4. QED
        BY <1>2, <4>1, <4>2, <4>3 DEF FfmpegAt
    <3>4. kills' = kills
      BY DEF OwnStep
    <3>5. QED
      BY <1>4, <3>2, <3>3, <3>4
  <2>3. QED
    BY <2>1, <2>2
<1>10. QED
  BY <1>5, <1>6, <1>7, <1>8, <1>9 DEF ChainInv

(* The runs of the others, in the words of a step that changes one. *)
LEMMA ChangesOne ==
    ASSUME ChainInv, NEW r \in ChainRuns, Running(r), NEW new, new \in RunType,
           run' = [run EXCEPT ![r] = new], kills' = kills,
           disk' \in [Sessions -> [Files -> {"none", "half", "whole"}]],
           new.session = run[r].session, new.enabled = run[r].enabled, new.force = run[r].force,
           new.alone = run[r].alone, new.phase # "new", new.clash => run[r].clash,
           new.writing => new.phase = "running" /\ new.step <= Len(Steps),
           new.phase = "done" => new.step = Len(Steps) + 1,
           \A s \in Sessions, f \in Files :
              disk'[s][f] = disk[s][f] \/ (s = run[r].session /\ f = OutputOf(r))
    PROVE  OwnStep(r) /\ run'[r] = new
<1>1. run \in [ChainRuns -> RunType]
  BY DEF ChainInv, Sane
<1>2. run' \in [ChainRuns -> RunType] /\ run'[r] = new /\ \A o \in ChainRuns \ {r} : run'[o] = run[o]
  BY <1>1
<1>3. QED
  BY <1>2 DEF OwnStep

(* The run that works: its step, its file. *)
LEMMA RunIs ==
    ASSUME ChainInv, NEW r \in ChainRuns
    PROVE  /\ run \in [ChainRuns -> RunType] /\ run[r] \in RunType /\ run[r].session \in Sessions
           /\ disk \in [Sessions -> [Files -> {"none", "half", "whole"}]]
           /\ run[r].step \in 1 .. 10
           /\ run[r].step <= Len(Steps) => /\ run[r].step \in 1 .. 9 /\ OutputOf(r) \in Files
                                           /\ Key(r) \in DOMAIN Output /\ At(r, OutputOf(r)) \in {"none", "half", "whole"}
           /\ run[r].writing => Running(r) /\ run[r].step <= Len(Steps)
           /\ Running(r) /\ run[r].alone => Passed(r) /\ AtWork(r)
<1>1. /\ run \in [ChainRuns -> RunType] /\ run[r] \in RunType
      /\ disk \in [Sessions -> [Files -> {"none", "half", "whole"}]]
  BY DEF ChainInv, Sane
<1>2. run[r].step \in 1 .. 10 /\ run[r].session \in Sessions
  BY <1>1, StepsAre DEF RunType
<1>3. ASSUME run[r].step <= Len(Steps)
      PROVE  /\ run[r].step \in 1 .. 9 /\ OutputOf(r) \in Files
             /\ Key(r) \in DOMAIN Output /\ At(r, OutputOf(r)) \in {"none", "half", "whole"}
  <2>1. run[r].step \in 1 .. 9
    BY <1>2, <1>3, StepsAre
  <2>2. OutputOf(r) \in Files /\ Key(r) \in DOMAIN Output
    BY <2>1, FilesApart DEF OutputOf, Key
  <2>3. QED
    BY <1>1, <1>2, <2>1, <2>2 DEF At
<1>4. /\ run[r].writing => Running(r) /\ run[r].step <= Len(Steps)
      /\ Running(r) /\ run[r].alone => Passed(r) /\ AtWork(r)
  BY DEF ChainInv, Sane, Delivered, Running
<1>5. QED
  BY <1>1, <1>2, <1>3, <1>4

(* What a step leaves of what the chain made before. *)
LEMMA StillPassed ==
    ASSUME ChainInv, NEW r \in ChainRuns, OwnStep(r), Passed(r), run[r].step <= Len(Steps)
    PROVE  /\ run'[r].step = run[r].step => Passed(r)'
           /\ /\ run'[r].step = run[r].step + 1
              /\ Key(r) \in Made(r) => /\ disk'[run[r].session][OutputOf(r)] # "none"
                                       /\ run[r].force => disk'[run[r].session][OutputOf(r)] = "whole"
              => Passed(r)'
<1>1. run[r].step \in 1 .. 9 /\ run[r].session \in Sessions
  BY RunIs
<1>2. /\ Made(r)' = Made(r) /\ run'[r].session = run[r].session /\ run'[r].force = run[r].force
  BY DEF OwnStep, Made
<1>3. ASSUME NEW i \in 1 .. Len(Steps), i # run[r].step
      PROVE  disk'[run[r].session][Output[Steps[i]]] = disk[run[r].session][Output[Steps[i]]]
  <2>1. i \in 1 .. 9
    BY StepsAre
  <2>2. Output[Steps[i]] \in Files /\ Output[Steps[i]] # OutputOf(r)
    BY <1>1, <1>3, <2>1, FilesApart DEF OutputOf, Key
  <2>3. QED
    BY <1>1, <2>2 DEF OwnStep
<1>4. ASSUME NEW i \in 1 .. Len(Steps), i < run[r].step, Steps[i] \in Made(r)
      PROVE  /\ disk'[run[r].session][Output[Steps[i]]] # "none"
             /\ run[r].force => disk'[run[r].session][Output[Steps[i]]] = "whole"
  <2>1. i # run[r].step
    BY <1>1, <1>4
  <2>2. QED
    BY <1>3, <1>4, <2>1 DEF Passed
<1>5. run'[r].step = run[r].step => Passed(r)'
  BY <1>2, <1>4 DEF Passed
<1>6. ASSUME run'[r].step = run[r].step + 1,
             Key(r) \in Made(r) => /\ disk'[run[r].session][OutputOf(r)] # "none"
                                   /\ run[r].force => disk'[run[r].session][OutputOf(r)] = "whole"
      PROVE  Passed(r)'
  <2> SUFFICES ASSUME NEW i \in 1 .. Len(Steps), i < run'[r].step, Steps[i] \in Made(r)
               PROVE  /\ disk'[run[r].session][Output[Steps[i]]] # "none"
                      /\ run[r].force => disk'[run[r].session][Output[Steps[i]]] = "whole"
    BY <1>2 DEF Passed
  <2>1. CASE i < run[r].step
    BY <1>4, <2>1
  <2>2. CASE i = run[r].step
    BY <1>6, <2>2 DEF Key, OutputOf
  <2>3. i \in Nat
    BY StepsAre
  <2>4. QED
    BY <1>1, <1>6, <2>1, <2>2, <2>3
<1>7. QED
  BY <1>5, <1>6

-------------------------------------------------------------------------------
LEMMA NextStepIs ==
    ASSUME ChainInv, NEW r \in ChainRuns, run[r].step <= Len(Steps), Running(r)
    PROVE  LET new == NextStep(r)
           IN  /\ new \in RunType
               /\ new.session = run[r].session /\ new.enabled = run[r].enabled /\ new.force = run[r].force
               /\ new.alone = run[r].alone /\ new.phase = "running" /\ ~new.clash /\ ~new.writing
               /\ new.step = run[r].step + 1
<1>1. run[r] \in RunType /\ run[r].step \in 1 .. 9 /\ Len(Steps) = 9 /\ 1 \in 1 .. MaxAttempts
  BY RunIs, StepsAre, ChainAssumption
<1>2. run[r].step + 1 \in 1 .. Len(Steps) + 1
  BY <1>1
<1>3. QED
  BY <1>1, <1>2 DEF NextStep, RunType, Running

LEMMA StopsIs ==
    ASSUME ChainInv, NEW r \in ChainRuns
    PROVE  LET new == [run[r] EXCEPT !.phase = "failed", !.writing = FALSE]
           IN  /\ new \in RunType
               /\ new.session = run[r].session /\ new.enabled = run[r].enabled /\ new.force = run[r].force
               /\ new.alone = run[r].alone /\ new.phase = "failed" /\ new.clash = run[r].clash /\ ~new.writing
<1>1. run[r] \in RunType
  BY RunIs
<1>2. QED
  BY <1>1 DEF RunType, Phases

LEMMA Passes_Inv ==
    ASSUME ChainInv, NEW r \in ChainRuns, Idling(r), run' = [run EXCEPT ![r] = NextStep(r)], UNCHANGED <<disk, kills>>,
           Key(r) \in Made(r) => HasOutputs(r) /\ ~run[r].force
    PROVE  ChainInv'
<1> DEFINE new == NextStep(r)
<1>1. Running(r) /\ run[r].step <= Len(Steps) /\ ~run[r].writing
  BY DEF Idling
<1>2. /\ new \in RunType /\ new.session = run[r].session /\ new.enabled = run[r].enabled /\ new.force = run[r].force
      /\ new.alone = run[r].alone /\ new.phase = "running" /\ ~new.clash /\ ~new.writing
      /\ new.step = run[r].step + 1
  BY <1>1, NextStepIs
<1>3. disk' \in [Sessions -> [Files -> {"none", "half", "whole"}]]
  BY RunIs
<1> HIDE DEF new
<1>4. OwnStep(r) /\ run'[r] = new
  <2>1. run' = [run EXCEPT ![r] = new]
    BY DEF new
  <2>2. QED
    BY <1>1, <1>2, <1>3, <2>1, ChangesOne
<1>5. run'[r].alone => Passed(r)'
  <2>1. ASSUME run[r].alone PROVE Passed(r)
    BY <1>1, <2>1, RunIs
  <2>2. QED
    BY <1>1, <1>2, <1>4, <2>1, StillPassed DEF HasOutputs, At
<1>6. AtWork(r)'
  BY <1>2, <1>4 DEF AtWork
<1>7. QED
  BY <1>1, <1>4, <1>5, <1>6, OwnStep_Inv

LEMMA Skips_Inv == ASSUME ChainInv, NEW r \in ChainRuns, Skips(r) PROVE ChainInv'
  BY Passes_Inv DEF Skips, Made
LEMMA SkipsPresent_Inv == ASSUME ChainInv, NEW r \in ChainRuns, SkipsPresent(r) PROVE ChainInv'
  BY Passes_Inv DEF SkipsPresent, MustRun

LEMMA ChainFails_Inv ==
    ASSUME ChainInv, NEW r \in ChainRuns, Running(r), Stops(r), kills' = kills,
           disk' \in [Sessions -> [Files -> {"none", "half", "whole"}]],
           \A s \in Sessions, f \in Files :
              disk'[s][f] = disk[s][f] \/ (s = run[r].session /\ f = OutputOf(r)),
           \A f \in Files :
              /\ disk'[run[r].session][f] = "half" /\ f = OutputOf(r)
              /\ run[r].writing \/ disk'[run[r].session][f] # disk[run[r].session][f]
              => kills > 0 \/ f = "thumb" \/ TwoOn(run[r].session)
    PROVE  ChainInv'
<1> DEFINE new == [run[r] EXCEPT !.phase = "failed", !.writing = FALSE]
<1>1. /\ new \in RunType /\ new.session = run[r].session /\ new.enabled = run[r].enabled /\ new.force = run[r].force
      /\ new.alone = run[r].alone /\ new.phase = "failed" /\ new.clash = run[r].clash /\ ~new.writing
  BY StopsIs
<1>2. run' = [run EXCEPT ![r] = new]
  BY DEF Stops
<1> HIDE DEF new
<1>3. OwnStep(r) /\ run'[r] = new
  BY <1>1, <1>2, ChangesOne
<1>4. QED
  BY <1>1, <1>3, OwnStep_Inv

LEMMA ExitsAtOnce_Inv == ASSUME ChainInv, NEW r \in ChainRuns, ExitsAtOnce(r) PROVE ChainInv'
  BY ChainFails_Inv, RunIs DEF ExitsAtOnce, Idling

LEMMA Stumbles_Inv == ASSUME ChainInv, NEW r \in ChainRuns, Stumbles(r) PROVE ChainInv'
<1>1. Running(r) /\ run[r].step <= Len(Steps) /\ ~run[r].writing /\ UNCHANGED <<disk, kills>>
  BY DEF Stumbles, Idling
<1>2. CASE Stops(r)
  BY <1>1, <1>2, ChainFails_Inv, RunIs
<1>3. CASE run[r].attempt < MaxAttempts /\ run' = [run EXCEPT ![r].attempt = @ + 1]
  <2> DEFINE new == [run[r] EXCEPT !.attempt = @ + 1]
  <2>1. run[r] \in RunType /\ run' = [run EXCEPT ![r] = new]
    BY <1>3, RunIs
  <2>2. run[r].attempt + 1 \in 1 .. MaxAttempts
    BY <1>3, <2>1, ChainAssumption DEF RunType
  <2>3. /\ new \in RunType /\ new.session = run[r].session /\ new.enabled = run[r].enabled /\ new.force = run[r].force
        /\ new.alone = run[r].alone /\ new.phase = "running" /\ new.clash = run[r].clash /\ ~new.writing
        /\ new.step = run[r].step
    BY <1>1, <2>1, <2>2 DEF RunType, Running
  <2>4. disk' \in [Sessions -> [Files -> {"none", "half", "whole"}]]
    BY <1>1, RunIs
  <2> HIDE DEF new
  <2>5. OwnStep(r) /\ run'[r] = new
    BY <1>1, <2>1, <2>3, <2>4, ChangesOne
  <2>6. run'[r].alone => Passed(r)' /\ AtWork(r)'
    <3>1. ASSUME run[r].alone PROVE Passed(r)
      BY <1>1, <3>1, RunIs
    <3>2. QED
      BY <1>1, <2>3, <2>5, <3>1, StillPassed DEF AtWork
  <2>7. QED
    BY <1>1, <2>5, <2>6, OwnStep_Inv
<1>4. QED
  BY <1>2, <1>3 DEF Stumbles

LEMMA Ends_Inv == ASSUME ChainInv, NEW r \in ChainRuns, Ends(r) PROVE ChainInv'
<1> DEFINE new == [run[r] EXCEPT !.phase = "done"]
<1>1. run[r] \in RunType /\ run' = [run EXCEPT ![r] = new] /\ UNCHANGED <<disk, kills>> /\ Running(r)
      /\ run[r].step = Len(Steps) + 1 /\ ~run[r].writing
  BY RunIs, StepsAre DEF Ends
<1>2. /\ new \in RunType /\ new.session = run[r].session /\ new.enabled = run[r].enabled /\ new.force = run[r].force
      /\ new.alone = run[r].alone /\ new.phase = "done" /\ new.clash = run[r].clash /\ ~new.writing
      /\ new.step = run[r].step
  BY <1>1 DEF RunType, Phases
<1>3. disk' \in [Sessions -> [Files -> {"none", "half", "whole"}]]
  BY <1>1, RunIs
<1> HIDE DEF new
<1>4. OwnStep(r) /\ run'[r] = new
  BY <1>1, <1>2, <1>3, ChangesOne
<1>5. run'[r].alone => Passed(r)' /\ AtWork(r)'
  <2>1. run[r].alone => Passed(r)
    BY <1>1, RunIs
  <2>2. QED
    BY <1>1, <1>2, <1>4, <2>1 DEF AtWork, Passed, Made
<1>6. QED
  BY <1>1, <1>4, <1>5, OwnStep_Inv

LEMMA Programs ==
    /\ \A k \in ByFfmpeg : Output[k] \in {"silent", "reel", "thumb"} /\ k \notin {"headless", "upload"}
    /\ \A k \in DOMAIN Output : Output[k] \in {"silent", "reel", "thumb"} => k \in ByFfmpeg
  BY OutputsAre DEF ByFfmpeg

(* Before another chain writes the same file it has the session as well. *)
LEMMA Starts_Inv == ASSUME ChainInv, NEW r \in ChainRuns, Starts(r) PROVE ChainInv'
<1> DEFINE both == IF Key(r) \in ByFfmpeg THEN Rivals(r) ELSE {}
           new == [run[r] EXCEPT !.writing = TRUE, !.clash = both # {}]
           s == run[r].session
<1>1. Running(r) /\ run[r].step <= Len(Steps) /\ ~run[r].writing /\ kills' = kills
  BY DEF Starts, Idling
<1>2. both \subseteq Others(r) /\ r \notin both
  BY DEF Rivals, Others
<1>3. /\ run' = [o \in ChainRuns |-> IF o = r THEN new
                                     ELSE IF o \in both THEN [run[o] EXCEPT !.clash = TRUE] ELSE run[o]]
      /\ disk' = IF Key(r) \in ByFfmpeg THEN [disk EXCEPT ![s][OutputOf(r)] = "half"] ELSE disk
  BY DEF Starts
<1>4. /\ run \in [ChainRuns -> RunType] /\ run[r] \in RunType /\ s \in Sessions
      /\ disk \in [Sessions -> [Files -> {"none", "half", "whole"}]]
      /\ OutputOf(r) \in Files /\ Key(r) \in DOMAIN Output
  BY <1>1, RunIs
<1>5. /\ new \in RunType /\ new.session = s /\ new.enabled = run[r].enabled /\ new.force = run[r].force
      /\ new.alone = run[r].alone /\ new.phase = "running" /\ new.writing /\ new.step = run[r].step
      /\ new.clash => Others(r) # {}
  <2>1. (both # {}) \in BOOLEAN /\ (both # {} => Others(r) # {})
    BY <1>2
  <2> HIDE DEF both
  <2>2. QED
    BY <1>1, <1>4, <2>1 DEF RunType, Running
<1>6. ASSUME NEW o \in ChainRuns
      PROVE  [run[o] EXCEPT !.clash = TRUE] \in RunType
  BY <1>4 DEF RunType
<1> HIDE DEF new, both
<1>7. run' \in [ChainRuns -> RunType] /\ run'[r] = new
  BY <1>3, <1>4, <1>5, <1>6
<1>8. /\ disk' \in [Sessions -> [Files -> {"none", "half", "whole"}]]
      /\ \A t \in Sessions, f \in Files : disk'[t][f] = disk[t][f] \/ (t = s /\ f = OutputOf(r))
      /\ Key(r) \in ByFfmpeg => disk'[s][OutputOf(r)] = "half"
      /\ Key(r) \notin ByFfmpeg => disk' = disk
  BY <1>3, <1>4
<1>9. \A o \in ChainRuns \ {r} :
         run'[o] = run[o] \/ (o \in Others(r) /\ run'[o] = [run[o] EXCEPT !.clash = TRUE])
  BY <1>2, <1>3
<1>10. OwnStep(r)
  BY <1>1, <1>5, <1>7, <1>8, <1>9 DEF OwnStep
<1>11. Key(r)' = Key(r) /\ OutputOf(r)' = OutputOf(r)
  BY <1>5, <1>7 DEF Key, OutputOf
<1>12. run'[r].alone => Passed(r)' /\ AtWork(r)'
  <2>1. run[r].alone => Passed(r)
    BY <1>1, RunIs
  <2>2. AtWork(r)'
    BY <1>5, <1>7, <1>8, <1>11 DEF AtWork, At
  <2>3. QED
    BY <1>1, <1>5, <1>7, <1>10, <2>1, <2>2, StillPassed
<1>13. ASSUME NEW f \in Files, f = OutputOf(r), disk'[s][f] # disk[s][f] PROVE FfmpegAt(s, f)'
  <2>1. Key(r)' \in ByFfmpeg /\ run'[r].writing /\ run'[r].session = s /\ OutputOf(r)' = f
    BY <1>5, <1>7, <1>8, <1>11, <1>13
  <2>2. s' = s
    BY <1>5, <1>7
  <2>3. QED
    BY <2>1, <2>2 DEF FfmpegAt
<1>14. QED
  BY <1>1, <1>10, <1>12, <1>13, OwnStep_Inv

LEMMA Succeeds_Inv == ASSUME ChainInv, NEW r \in ChainRuns, Succeeds(r) PROVE ChainInv'
<1> DEFINE new == NextStep(r)
           s == run[r].session
           content == IF run[r].clash THEN "half" ELSE "whole"
           kept == \/ Key(r) \in {"headless", "upload"}
                   \/ Key(r) \in ByFfmpeg /\ At(r, OutputOf(r)) = "none"
<1>1. Running(r) /\ run[r].step <= Len(Steps) /\ run[r].writing /\ kills' = kills
  BY RunIs DEF Succeeds
<1>2. /\ new \in RunType /\ new.session = s /\ new.enabled = run[r].enabled /\ new.force = run[r].force
      /\ new.alone = run[r].alone /\ new.phase = "running" /\ ~new.clash /\ ~new.writing
      /\ new.step = run[r].step + 1
  BY <1>1, NextStepIs
<1>3. /\ run' = [run EXCEPT ![r] = new]
      /\ disk' = IF kept THEN disk ELSE [disk EXCEPT ![s][OutputOf(r)] = content]
  BY DEF Succeeds, Gives
<1>4. /\ disk \in [Sessions -> [Files -> {"none", "half", "whole"}]] /\ s \in Sessions
      /\ OutputOf(r) \in Files /\ Key(r) \in DOMAIN Output
  BY <1>1, RunIs
<1> HIDE DEF new, kept
<1>5. /\ disk' \in [Sessions -> [Files -> {"none", "half", "whole"}]]
      /\ \A t \in Sessions, f \in Files : disk'[t][f] = disk[t][f] \/ (t = s /\ f = OutputOf(r))
      /\ ~kept => disk'[s][OutputOf(r)] = content
      /\ kept => disk' = disk
  BY <1>3, <1>4
<1>6. OwnStep(r) /\ run'[r] = new
  BY <1>1, <1>2, <1>3, <1>5, ChangesOne
<1>7. run[r].clash => TwoOn(s)
  BY <1>1 DEF ChainInv, Sane, TwoIfNot, Begun, Running
<1>8. ASSUME run[r].alone PROVE Passed(r)' /\ AtWork(r)'
  <2>1. Passed(r) /\ AtWork(r) /\ ~run[r].clash
    BY <1>1, <1>8, RunIs DEF ChainInv, Sane
  <2>2. Key(r) \in Made(r) => disk'[s][OutputOf(r)] = "whole"
    <3> SUFFICES ASSUME Key(r) \in Made(r) PROVE ~kept
      BY <1>5, <2>1
    <3>1. Key(r) \notin {"headless", "upload"}
      BY DEF Made
    <3>2. Key(r) \in ByFfmpeg => At(r, OutputOf(r)) = "half"
      BY <1>1, <2>1 DEF AtWork
    <3>3. QED
      BY <3>1, <3>2 DEF kept
  <2>3. QED
    BY <1>1, <1>2, <1>6, <2>1, <2>2, StillPassed DEF AtWork
<1>9. ASSUME NEW f \in Files, f = OutputOf(r), disk'[s][f] = "half" PROVE kills > 0 \/ f = "thumb" \/ TwoOn(s) \/ FfmpegAt(s, f)'
  <2>1. CASE ~kept
    BY <1>5, <1>7, <1>9, <2>1
  <2>2. CASE kept
    <3>1. disk[s][f] = "half" /\ Key(r) \in {"headless", "upload"}
      BY <1>5, <1>9, <2>2 DEF kept, At
    <3>2. f \in {"clips", "response"}
      BY <1>9, <3>1, OutputsAre DEF OutputOf
    <3>3. kills > 0 \/ TwoOn(s) \/ FfmpegAt(s, f)
      BY <1>4, <3>1, <3>2 DEF ChainInv, Explained
    <3>4. ~FfmpegAt(s, f)
      BY <3>2, Programs DEF FfmpegAt, OutputOf
    <3>5. QED
      BY <3>3, <3>4
  <2>3. QED
    BY <2>1, <2>2
<1>10. QED
  BY <1>1, <1>2, <1>6, <1>8, <1>9, OwnStep_Inv

(* A program that fails leaves half a file only if it is thumb, or if the  *)
(* half was there.                                                         *)
LEMMA Breaks_Inv == ASSUME ChainInv, NEW r \in ChainRuns, Breaks(r) PROVE ChainInv'
<1> DEFINE s == run[r].session
<1>1. Running(r) /\ run[r].step <= Len(Steps) /\ run[r].writing /\ kills' = kills /\ Stops(r)
  BY RunIs DEF Breaks
<1>2. /\ disk \in [Sessions -> [Files -> {"none", "half", "whole"}]] /\ s \in Sessions
      /\ OutputOf(r) \in Files /\ Key(r) \in DOMAIN Output /\ At(r, OutputOf(r)) \in {"none", "half", "whole"}
  BY <1>1, RunIs
<1>3. Remains(r) \in {"none", "half", "whole"}
  BY <1>2 DEF Remains
<1>4. disk' = [disk EXCEPT ![s][OutputOf(r)] = Remains(r)]
  BY DEF Breaks, Gives
<1>5. /\ disk' \in [Sessions -> [Files -> {"none", "half", "whole"}]]
      /\ \A t \in Sessions, f \in Files : disk'[t][f] = disk[t][f] \/ (t = s /\ f = OutputOf(r))
      /\ disk'[s][OutputOf(r)] = Remains(r)
  BY <1>2, <1>3, <1>4
<1>6. ASSUME NEW f \in Files, f = OutputOf(r), disk'[s][f] = "half" PROVE kills > 0 \/ f = "thumb" \/ TwoOn(s)
  <2>1. Remains(r) = "half"
    BY <1>5, <1>6
  <2>2. Key(r) \notin {"stitch", "mix", "tts"} /\ disk[s][f] = "half"
    BY <1>6, <2>1 DEF Remains, At
  <2>3. CASE Key(r) = "thumb"
    BY <1>6, <2>3, OutputsAre DEF OutputOf
  <2>4. CASE Key(r) # "thumb"
    <3>1. f \notin {"silent", "reel", "thumb"}
      BY <1>2, <1>6, <2>2, <2>4, Programs DEF OutputOf, ByFfmpeg
    <3>2. ~FfmpegAt(s, f)
      BY <3>1, Programs DEF FfmpegAt, OutputOf
    <3>3. QED
      BY <1>2, <2>2, <3>2 DEF ChainInv, Explained
  <2>5. QED
    BY <2>3, <2>4
<1>7. QED
  BY <1>1, <1>5, <1>6, ChainFails_Inv

-------------------------------------------------------------------------------
(* A new run is not alone if another runs on its session, and no run of    *)
(* its session is alone from then on.                                      *)
LEMMA Asked_Inv == ASSUME ChainInv, NEW r \in ChainRuns, Asked(r) PROVE ChainInv'
<1>1. /\ run \in [ChainRuns -> RunType] /\ run[r] = NotAsked /\ run[r].phase = "new"
      /\ UNCHANGED <<disk, kills>>
  BY DEF ChainInv, Sane, Asked, Begun
<1>2. PICK q \in Requests :
         LET s == IF q.dated THEN r ELSE Saved IN
         run' = [o \in ChainRuns |->
                   IF o = r THEN [NotAsked EXCEPT !.phase = "running", !.session = s, !.force = q.force,
                                    !.enabled = EnabledBy(q),
                                    !.alone = \A p \in ChainRuns \ {r} : ~(Running(p) /\ run[p].session = s)]
                   ELSE IF run[o].phase # "new" /\ run[o].session = s THEN [run[o] EXCEPT !.alone = FALSE]
                   ELSE run[o]]
  BY DEF Asked
<1> DEFINE s == IF q.dated THEN r ELSE Saved
           quiet == \A p \in ChainRuns \ {r} : ~(Running(p) /\ run[p].session = s)
           new == [NotAsked EXCEPT !.phase = "running", !.session = s, !.force = q.force,
                                   !.enabled = EnabledBy(q), !.alone = quiet]
<1>3. /\ new \in RunType /\ new.phase = "running" /\ new.session = s /\ s \in {Saved, r}
      /\ new.step = 1 /\ ~new.writing /\ ~new.clash /\ (new.alone <=> quiet)
  <2>1. q.force \in BOOLEAN /\ EnabledBy(q) \in SUBSET DOMAIN Output
    BY ChainAssumption DEF EnabledBy
  <2>2. s \in Sessions /\ s \in {Saved, r} /\ quiet \in BOOLEAN
    BY DEF Sessions
  <2>3. NotAsked \in RunType /\ NotAsked.step = 1 /\ ~NotAsked.writing /\ ~NotAsked.clash
    BY <1>1 DEF NotAsked
  <2> HIDE DEF s, quiet
  <2>4. QED
    BY <2>1, <2>2, <2>3 DEF RunType, Phases
<1>4. run' = [o \in ChainRuns |-> IF o = r THEN new
                                  ELSE IF Begun(o) /\ run[o].session = s THEN [run[o] EXCEPT !.alone = FALSE]
                                  ELSE run[o]]
  BY <1>2 DEF Begun
<1> HIDE DEF new, s
<1>5. ASSUME NEW o \in ChainRuns, o # r
      PROVE  /\ run'[o] \in RunType /\ run'[o].phase = run[o].phase /\ run'[o].session = run[o].session
             /\ run'[o].enabled = run[o].enabled /\ run'[o].force = run[o].force /\ run'[o].step = run[o].step
             /\ run'[o].writing = run[o].writing /\ run'[o].clash = run[o].clash
             /\ run'[o].alone => run[o].alone /\ ~(Begun(o) /\ run[o].session = s)
             /\ ~(Begun(o) /\ run[o].session = s) => run'[o] = run[o]
  <2>1. run[o] \in RunType /\ run'[o] = IF Begun(o) /\ run[o].session = s THEN [run[o] EXCEPT !.alone = FALSE]
                                          ELSE run[o]
    BY <1>1, <1>4, <1>5
  <2>2. QED
    BY <2>1 DEF RunType
<1>6. run'[r] = new
  BY <1>4
<1>7. run' \in [ChainRuns -> RunType]
  <2>1. \A o \in ChainRuns : run'[o] \in RunType
    BY <1>3, <1>5, <1>6
  <2>2. DOMAIN run' = ChainRuns /\ run' = [o \in ChainRuns |-> run'[o]]
    BY <1>4
  <2>3. QED
    BY <2>1, <2>2
<1>8. Begun(r)' /\ \A o \in ChainRuns \ {r} : Begun(o)' = Begun(o)
  BY <1>3, <1>5, <1>6 DEF Begun
<1>9. Sane'
  <2>1. ASSUME NEW o \in ChainRuns
        PROVE  /\ run'[o].session \in {Saved, o}
               /\ ~Begun(o)' => run'[o] = NotAsked
               /\ run'[o].writing => run'[o].phase = "running" /\ run'[o].step <= Len(Steps)
               /\ run'[o].phase = "done" => run'[o].step = Len(Steps) + 1
               /\ run'[o].clash => ~run'[o].alone
    <3>1. CASE o = r
      BY <1>3, <1>6, <1>8, <3>1
    <3>2. CASE o # r
      BY <1>5, <1>8, <3>2 DEF ChainInv, Sane, Running
    <3>3. QED
      BY <3>1, <3>2
  <2>2. /\ disk' \in [Sessions -> [Files -> {"none", "half", "whole"}]] /\ kills' \in 0 .. MaxKills
    BY <1>1 DEF ChainInv, Sane
  <2>3. QED
    BY <1>7, <2>1, <2>2 DEF Sane, Running
<1>10. LeftAlone'
  <2> SUFFICES ASSUME NEW p \in ChainRuns, NEW o \in ChainRuns, p # o, Begun(o)', run'[o].alone,
                      run'[p].session = run'[o].session
               PROVE  run'[p].phase # "running"
    BY DEF LeftAlone, Running
  <2>1. CASE o = r
    <3>1. run[p].session = s /\ run'[p].phase = run[p].phase /\ quiet
      BY <1>3, <1>5, <1>6, <2>1
    <3>2. QED
      BY <2>1, <3>1 DEF Running
  <2>2. CASE o # r /\ p = r
    BY <1>3, <1>5, <1>6, <1>8, <2>2
  <2>3. CASE o # r /\ p # r
    BY <1>5, <1>8, <2>3 DEF ChainInv, LeftAlone, Running
  <2>4. QED
    BY <2>1, <2>2, <2>3
<1>11. \A t : TwoOn(t) => TwoOn(t)'
  <2>1. \A o \in ChainRuns : Begun(o) => Begun(o)' /\ run'[o].session = run[o].session
    BY <1>1, <1>5, <1>8 DEF Begun
  <2>2. QED
    BY <2>1 DEF TwoOn
<1>12. TwoIfNot'
  <2> SUFFICES ASSUME NEW o \in ChainRuns, Begun(o)', ~run'[o].alone PROVE TwoOn(run[o].session)'
    BY DEF TwoIfNot
  <2>1. CASE o = r
    <3>1. PICK p \in ChainRuns \ {r} : Running(p) /\ run[p].session = s
      BY <1>3, <1>6, <2>1
    <3>2. Begun(p)' /\ run'[p].session = s /\ run'[r].session = s
      BY <1>3, <1>5, <1>6, <1>8, <3>1 DEF Running, Begun
    <3>3. TwoOn(s)'
      BY <1>8, <3>2 DEF TwoOn
    <3>4. QED
      BY <2>1, <3>2, <3>3
  <2>2. CASE o # r /\ Begun(o) /\ run[o].session = s
    <3>1. Begun(o)' /\ run'[o].session = s /\ run'[r].session = s
      BY <1>3, <1>5, <1>6, <2>2
    <3>2. QED
      BY <1>8, <2>2, <3>1 DEF TwoOn
  <2>3. CASE o # r /\ ~(Begun(o) /\ run[o].session = s)
    BY <1>5, <1>8, <1>11, <2>3 DEF ChainInv, TwoIfNot
  <2>4. QED
    BY <2>1, <2>2, <2>3
<1>13. Delivered'
  <2> SUFFICES ASSUME NEW o \in ChainRuns, run'[o].phase \in {"running", "done"}, run'[o].alone
               PROVE  Passed(o)' /\ AtWork(o)'
    BY DEF Delivered
  <2>1. CASE o = r
    <3>1. run'[r].step = 1 /\ ~run'[r].writing
      BY <1>3, <1>6
    <3>2. \A i \in 1 .. Len(Steps) : ~(i < 1)
      BY StepsAre
    <3>3. QED
      BY <2>1, <3>1, <3>2 DEF Passed, AtWork
  <2>2. CASE o # r
    <3>1. run'[o] = run[o] /\ disk' = disk /\ Passed(o) /\ AtWork(o)
      BY <1>1, <1>5, <2>2 DEF Begun, ChainInv, Delivered
    <3>2. QED
      BY <3>1 DEF Passed, AtWork, Made, Key, OutputOf, At
  <2>3. QED
    BY <2>1, <2>2
<1>14. Explained'
  <2>1. ASSUME NEW t \in Sessions, NEW f \in Files, FfmpegAt(t, f) PROVE FfmpegAt(t, f)'
    <3>1. PICK o \in ChainRuns : run[o].writing /\ run[o].session = t /\ Key(o) \in ByFfmpeg /\ OutputOf(o) = f
      BY <2>1 DEF FfmpegAt
    <3>2. o # r
      BY <1>1, <3>1 DEF NotAsked
    <3>3. Key(o)' = Key(o) /\ OutputOf(o)' = OutputOf(o)
      BY <1>5, <3>2 DEF Key, OutputOf
    <3>4. QED
      BY <1>5, <3>1, <3>2, <3>3 DEF FfmpegAt
  <2>2. QED
    BY <1>1, <1>11, <2>1 DEF ChainInv, Explained
<1>15. QED
  BY <1>9, <1>10, <1>12, <1>13, <1>14 DEF ChainInv

(* A kill cuts the files of the runs it ends, and those of a chain that is *)
(* done and alone are not among them.                                      *)
LEMMA Killed_Inv == ASSUME ChainInv, Killed PROVE ChainInv'
<1>1. PICK cut \in SUBSET {r \in ChainRuns : run[r].writing /\ Key(r) \notin {"headless", "upload"}} :
         disk' = [s \in Sessions |-> [f \in Files |->
                    IF \E r \in cut : run[r].session = s /\ OutputOf(r) = f THEN "half" ELSE disk[s][f]]]
  BY DEF Killed
<1>2. /\ kills < MaxKills /\ kills' = kills + 1 /\ kills \in 0 .. MaxKills
      /\ run \in [ChainRuns -> RunType] /\ disk \in [Sessions -> [Files -> {"none", "half", "whole"}]]
      /\ run' = [r \in ChainRuns |-> IF Running(r) THEN [run[r] EXCEPT !.phase = "killed", !.writing = FALSE]
                                      ELSE run[r]]
  BY DEF Killed, ChainInv, Sane
<1>3. ASSUME NEW o \in ChainRuns
      PROVE  /\ run'[o] \in RunType /\ run'[o].phase # "running" /\ Begun(o)' = Begun(o)
             /\ run'[o].session = run[o].session /\ run'[o].alone = run[o].alone /\ run'[o].clash = run[o].clash
             /\ ~run'[o].writing
             /\ run'[o].phase \in {"running", "done", "new"} => run'[o] = run[o] /\ ~Running(o)
  <2>1. run[o] \in RunType /\ (run[o].writing => Running(o))
    BY <1>2 DEF ChainInv, Sane
  <2>2. CASE Running(o)
    <3>1. run'[o] = [run[o] EXCEPT !.phase = "killed", !.writing = FALSE]
      BY <1>2, <2>2
    <3>2. QED
      BY <2>1, <2>2, <3>1 DEF RunType, Phases, Running, Begun
  <2>3. CASE ~Running(o)
    <3>1. run'[o] = run[o]
      BY <1>2, <2>3
    <3>2. QED
      BY <2>1, <2>3, <3>1 DEF RunType, Running, Begun
  <2>4. QED
    BY <2>2, <2>3
<1>4. MaxKills \in Nat /\ kills' \in 0 .. MaxKills /\ kills' > 0
  <2>1. MaxKills \in Nat
    BY ChainAssumption
  <2>2. kills < MaxKills /\ kills' = kills + 1 /\ kills \in 0 .. MaxKills
    BY <1>2
  <2>3. QED
    BY <2>1, <2>2
<1>5. disk' \in [Sessions -> [Files -> {"none", "half", "whole"}]]
  BY <1>1, <1>2
<1>6. Sane'
  <2>1. ASSUME NEW o \in ChainRuns
        PROVE  /\ run'[o].session \in {Saved, o}
               /\ ~Begun(o)' => run'[o] = NotAsked
               /\ ~run'[o].writing
               /\ run'[o].phase = "done" => run'[o].step = Len(Steps) + 1
               /\ run'[o].clash => ~run'[o].alone
    <3>1. /\ run[o].session \in {Saved, o} /\ (~Begun(o) => run[o] = NotAsked)
          /\ run[o].phase = "done" => run[o].step = Len(Steps) + 1
          /\ run[o].clash => ~run[o].alone
      BY DEF ChainInv, Sane
    <3>2. run[o].phase = "new" => ~Running(o)
      BY DEF Running
    <3>3. ~run'[o].writing
      BY <1>3
    <3>4. QED
      BY <1>3, <3>1, <3>2, <3>3 DEF Begun
  <2>2. run' \in [ChainRuns -> RunType]
    <3>1. \A o \in ChainRuns : run'[o] \in RunType
      BY <1>3
    <3>2. run' = [o \in ChainRuns |-> run'[o]]
      BY <1>2
    <3>3. QED
      BY <3>1, <3>2
  <2>3. QED
    BY <1>4, <1>5, <2>1, <2>2 DEF Sane
<1>7. LeftAlone'
  BY <1>3 DEF LeftAlone, Running
<1>8. TwoIfNot'
  BY <1>3 DEF TwoIfNot, TwoOn, ChainInv
<1>9. Delivered'
  <2> SUFFICES ASSUME NEW o \in ChainRuns, run'[o].phase \in {"running", "done"}, run'[o].alone
               PROVE  Passed(o)' /\ AtWork(o)'
    BY DEF Delivered
  <2>1. run'[o] = run[o] /\ ~Running(o)
    BY <1>3
  <2>2. Passed(o) /\ AtWork(o) /\ Begun(o) /\ run[o].alone /\ run[o].session \in Sessions
    BY <1>2, <2>1 DEF ChainInv, Delivered, Begun, RunType
  <2>3. ASSUME NEW r \in cut PROVE run[r].session # run[o].session
    <3>1. r \in ChainRuns /\ run[r].writing /\ Running(r)
      BY <2>3 DEF ChainInv, Sane
    <3>2. QED
      BY <2>1, <2>2, <3>1 DEF ChainInv, LeftAlone
  <2>4. \A f \in Files : disk'[run[o].session][f] = disk[run[o].session][f]
    BY <1>1, <2>2, <2>3
  <2>5. \A i \in 1 .. Len(Steps) : Output[Steps[i]] \in Files
    BY FilesApart, StepsAre
  <2>6. Passed(o)'
    BY <2>1, <2>2, <2>4, <2>5 DEF Passed, Made
  <2>7. ~run'[o].writing
    BY <2>1 DEF ChainInv, Sane
  <2>8. QED
    BY <2>6, <2>7 DEF AtWork
<1>10. Explained'
  BY <1>4 DEF Explained
<1>11. QED
  BY <1>6, <1>7, <1>8, <1>9, <1>10 DEF ChainInv

LEMMA ChainNext_Inv == ChainInv /\ [ChainNext]_chainVars => ChainInv'
<1> SUFFICES ASSUME ChainInv, [ChainNext]_chainVars PROVE ChainInv'
  OBVIOUS
<1>1. CASE UNCHANGED chainVars
  BY <1>1 DEF chainVars, ChainInv, Sane, LeftAlone, TwoIfNot, Delivered, Explained, TwoOn, FfmpegAt, Passed, AtWork,
              Made, Begun, Running, Key, OutputOf, At
<1>2. CASE Killed
  BY <1>2, Killed_Inv
<1>3. ASSUME NEW r \in ChainRuns, Asked(r) \/ RunSteps(r) PROVE ChainInv'
  BY <1>3, Asked_Inv, Skips_Inv, SkipsPresent_Inv, Starts_Inv, ExitsAtOnce_Inv, Stumbles_Inv, Succeeds_Inv,
     Breaks_Inv, Ends_Inv DEF RunSteps
<1>4. QED
  BY <1>1, <1>2, <1>3 DEF ChainNext

LEMMA ChainIsSafe == ASSUME ChainInv PROVE HalfFilesAreExplained /\ DoneMeansMade /\ ForcedDoneIsWhole
<1>1. HalfFilesAreExplained
  BY DEF ChainInv, Explained, TwoOn, FfmpegAt, Begun, HalfFilesAreExplained
<1>2. ASSUME NEW r \in ChainRuns, run[r].phase = "done", run[r].alone, NEW k \in Made(r)
      PROVE  /\ disk[run[r].session][Output[k]] # "none"
             /\ run[r].force => disk[run[r].session][Output[k]] = "whole"
  <2>1. Passed(r) /\ run[r].step = 10 /\ run[r].enabled \subseteq DOMAIN Output
    BY <1>2, StepsAre DEF ChainInv, Delivered, Sane, RunType
  <2>2. k \in DOMAIN Output
    BY <2>1 DEF Made
  <2>3. PICK i \in 1 .. 9 : Steps[i] = k
    BY <2>2, OutputsAre, StepsAre
  <2>4. i \in 1 .. Len(Steps) /\ i < 10
    BY StepsAre
  <2>5. QED
    BY <1>2, <2>1, <2>3, <2>4 DEF Passed
<1>3. QED
  BY <1>1, <1>2 DEF DoneMeansMade, ForcedDoneIsWhole

(* Half a file on disk has a cause, a chain that is done and was alone has *)
(* made each of its files, and if it was forced they are whole, for any    *)
(* number of chains and requests, and for every way in which a program     *)
(* fails, meets another at its file or is killed.                          *)
THEOREM ChainsDeliverHolds == ChainSpec => []ChainsDeliver
<1>1. ChainInit => ChainInv
  BY ChainInit_Inv
<1>2. ChainInv /\ [ChainNext]_chainVars => ChainInv'
  BY ChainNext_Inv
<1>3. ChainInv => ChainsDeliver
  BY ChainIsSafe DEF ChainsDeliver
<1>4. QED
  BY <1>1, <1>2, <1>3, PTL DEF ChainSpec

-------------------------------------------------------------------------------
(* The programs share no variable, so the invariants of all hold together, *)
(* whichever of them runs.                                                 *)
EpisodeInv == ReelInv /\ ChainInv /\ CapInv /\ UpInv /\ VoiceInv

LEMMA EpisodeInit_Inv == EpisodeInit => EpisodeInv
  BY ReelInit_Inv, ReelIdle_Inv, ChainInit_Inv, CapInit_Inv, UpInit_Inv, VoiceInit_Inv DEF EpisodeInit, EpisodeInv

LEMMA EpisodeNext_Inv == EpisodeInv /\ [EpisodeNext]_episodeVars => EpisodeInv'
<1> SUFFICES ASSUME EpisodeInv, [EpisodeNext]_episodeVars PROVE EpisodeInv'
  OBVIOUS
<1>1. /\ [ReelNext]_reelVars /\ [ChainNext]_chainVars /\ [CapNext]_capVars
      /\ [UpNext]_upVars /\ [VoiceNext]_voiceVars
  <2>1. CASE EpisodeNext
    BY <2>1, Zenon DEF EpisodeNext
  <2>2. CASE UNCHANGED episodeVars
    BY <2>2 DEF episodeVars
  <2>3. QED
    BY <2>1, <2>2
<1>2. QED
  BY <1>1, ReelNext_Inv, ChainNext_Inv, CapNext_Inv, UpNext_Inv, VoiceNext_Inv DEF EpisodeInv

LEMMA ReelTypes == ReelInv => ReelTypeOK
<1> SUFFICES ASSUME ReelInv PROVE ReelTypeOK
  OBVIOUS
<1>1. mixed.xfade \in Xfades \cup {0} /\ episode.xfade \in Xfades \cup {0}
  BY DEF ReelInv, NotMixed, NoEpisode
<1>2. Len(episode.chapters) # 1 /\ Len(episode.chapters) # 2
  <2>1. CASE episode = NoEpisode
    BY <2>1 DEF NoEpisode
  <2>2. CASE episode # NoEpisode
    BY <2>2, ChaptersAre DEF ReelInv
  <2>3. QED
    BY <2>1, <2>2
<1>3. QED
  BY <1>1, <1>2 DEF ReelInv, PlanInv, Clipped, ReelTypeOK

LEMMA UpTypes == UpInv => UpTypeOK
<1> SUFFICES ASSUME UpInv PROVE UpTypeOK
  OBVIOUS
<1>1. MaxTries \in Nat /\ Size \in Nat
  BY UploadAssumption
<1>2. DOMAIN stored \subseteq Units /\ \A u \in DOMAIN stored : stored[u] \in Units
  BY <1>1 DEF UpInv, FirstPart, Has, Units
<1>3. QED
  BY <1>1, <1>2 DEF UpInv, Numbers, UpTypeOK

LEMMA ChainTypes == ChainInv => ChainTypeOK
  BY DEF ChainInv, Sane, RunType, Phases, Running, ChainTypeOK

(* The variables of the programs keep their types: a reel has a start for  *)
(* each of its clips, YouTube gets no chapters or three, a chain is at one *)
(* of its steps, and no more answers are lost than calls were made.        *)
THEOREM EpisodeTypeOKHolds == EpisodeSpec => []EpisodeTypeOK
<1>1. EpisodeInv => EpisodeTypeOK
  BY ReelTypes, UpTypes, ChainTypes DEF EpisodeInv, CapInv, VoiceInv, EpisodeTypeOK
<1>2. QED
  BY <1>1, EpisodeInit_Inv, EpisodeNext_Inv, PTL DEF EpisodeSpec

================================================================================
