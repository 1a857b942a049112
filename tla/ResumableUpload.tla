---------------------------- MODULE ResumableUpload ----------------------------
(***************************************************************************)
(* The upload of an episode (yt/upload.py): the reel goes to YouTube in    *)
(* chunks of one resumable session, then the thumbnail.  The client keeps  *)
(* an offset, where it believes the server to be, and the position of the  *)
(* file it reads from; they must agree whatever the server answers.        *)
(*                                                                         *)
(* The reel is a sequence of units; unit u of the file holds u.  The       *)
(* server is external: it stores what it is sent where it is told to, and  *)
(* makes a video when it has the end of the file.                          *)
(***************************************************************************)
EXTENDS Integers, FiniteSets

CONSTANTS
    Size, Chunk,   \* units of the reel; RESUMABLE_CHUNK_BYTES
    MaxStalls,     \* answers without a Range in a row at one offset
    MaxIdle,       \* bound: 401s and answers that take nothing, in one session
    MaxTries       \* bound: calls of the operator

ASSUME UploadAssumption ==
    /\ Size \in Nat \ {0} /\ Chunk \in Nat \ {0}
    /\ {MaxStalls, MaxIdle, MaxTries} \subseteq Nat

VARIABLES
    upPhase,   \* idle, putting, published, done, failed
    offset,    \* where the next chunk is said to begin
    pos,       \* the position of the file
    stalls,    \* same_offset_retries
    stallsAt,  \* last_offset
    stored,    \* the server: [units it has -> what they hold]
    videos,    \* the videos of this episode on the channel, each as stored
    idleAnswers, tries,
    lost,      \* final answers that never came
    odd        \* is the number of PUTs odd?  It makes a repeated one a step
upVars == <<upPhase, offset, pos, stalls, stallsAt, stored, videos, idleAnswers, tries, lost, odd>>

Units == 0 .. Size - 1
UpTypeOK ==
    /\ upPhase \in {"idle", "putting", "published", "done", "failed"}
    /\ offset \in 0 .. Size /\ pos \in 0 .. Size
    /\ stalls \in 0 .. MaxStalls /\ stallsAt \in -1 .. Size
    /\ DOMAIN stored \subseteq Units /\ \A u \in DOMAIN stored : stored[u] \in Units
    /\ idleAnswers \in 0 .. MaxIdle /\ tries \in 0 .. MaxTries /\ lost \in 0 .. MaxTries
    /\ odd \in BOOLEAN

UpInit ==
    /\ upPhase = "idle" /\ offset = 0 /\ pos = 0 /\ stalls = 0 /\ stallsAt = -1
    /\ stored = <<>> /\ videos = <<>>
    /\ idleAnswers = 0 /\ tries = 0 /\ lost = 0 /\ odd = FALSE

-------------------------------------------------------------------------------
(* upload_episode: a token and a new session, or neither.  The operator    *)
(* calls it again after a failure.                                         *)
Opens ==
    /\ upPhase \in {"idle", "failed"} /\ tries < MaxTries
    /\ tries' = tries + 1
    /\ upPhase' \in {"putting", "failed"}
    /\ offset' = 0 /\ pos' = 0 /\ stalls' = 0 /\ stallsAt' = -1
    /\ stored' = <<>> /\ idleAnswers' = 0
    /\ UNCHANGED <<videos, lost, odd>>

(* The chunk that is read at pos is sent as the units from offset on; the  *)
(* server takes the first k of them.                                       *)
ChunkLength == IF Size - pos < Chunk THEN Size - pos ELSE Chunk
Taken(k) == [u \in DOMAIN stored \cup (offset .. offset + k - 1) |->
               IF u \in offset .. offset + k - 1 THEN pos + (u - offset) ELSE stored[u]]
ServerEnd(s) == CHOOSE n \in 0 .. Size : 0 .. n - 1 \subseteq DOMAIN s /\ n \notin DOMAIN s

(* The top of the loop. *)
StallsSoFar == IF offset # stallsAt THEN 0 ELSE stalls
Putting == upPhase = "putting" /\ offset < Size
Counted(n) == stalls' = n /\ stallsAt' = offset
TooMany(n) == n > MaxStalls

(* 308 with a Range: on from where the server is. *)
SeekTo_Nowhere(n) == pos + ChunkLength
SeekTo(n) == n
TakesSome ==
    /\ Putting
    /\ \E k \in 0 .. ChunkLength :
          LET s == Taken(k) IN
          /\ ServerEnd(s) > 0
          /\ ServerEnd(s) = offset => idleAnswers < MaxIdle
          /\ idleAnswers' = IF ServerEnd(s) = offset THEN idleAnswers + 1 ELSE idleAnswers
          /\ stored' = s
          /\ offset' = ServerEnd(s) /\ pos' = SeekTo(ServerEnd(s))
    /\ Counted(StallsSoFar) /\ odd' = ~odd
    /\ UNCHANGED <<upPhase, videos, tries, lost>>

(* 308 without one: the same chunk again, a few times.                     *)
AfterStall == offset
TakesUnknown ==
    /\ Putting
    /\ \E k \in 0 .. ChunkLength : stored' = Taken(k)
    /\ IF TooMany(StallsSoFar + 1)
         THEN upPhase' = "failed" /\ Counted(StallsSoFar) /\ UNCHANGED <<offset, pos>>
         ELSE UNCHANGED upPhase /\ Counted(StallsSoFar + 1) /\ offset' = AfterStall /\ pos' = AfterStall
    /\ odd' = ~odd
    /\ UNCHANGED <<videos, idleAnswers, tries, lost>>

(* 401: a fresh token, which no later chunk carries, and the chunk again.  *)
Denied ==
    /\ Putting /\ idleAnswers < MaxIdle
    /\ idleAnswers' = idleAnswers + 1
    /\ upPhase' \in {"putting", "failed"}
    /\ pos' = SeekTo(offset)
    /\ Counted(StallsSoFar) /\ odd' = ~odd
    /\ UNCHANGED <<offset, stored, videos, tries, lost>>

(* The last chunk is in: a video is made; the answer arrives or is lost.   *)
PutsTheLast ==
    /\ Putting /\ offset + ChunkLength >= Size
    /\ stored' = Taken(ChunkLength)
    /\ videos' = [v \in 1 .. Cardinality(DOMAIN videos) + 1 |-> IF v \in DOMAIN videos THEN videos[v] ELSE stored']
    /\ \/ upPhase' = "published" /\ UNCHANGED lost
       \/ upPhase' = "failed" /\ lost' = lost + 1
    /\ odd' = ~odd
    /\ UNCHANGED <<offset, pos, stalls, stallsAt, idleAnswers, tries>>

(* Any other status, a broken connection, or the whole file with a 308.    *)
PutFails ==
    /\ upPhase = "putting"
    /\ upPhase' = "failed"
    /\ UNCHANGED <<offset, pos, stalls, stallsAt, stored, videos, idleAnswers, tries, lost, odd>>

(* The thumbnail, at best effort. *)
Thumbnail ==
    /\ upPhase = "published"
    /\ upPhase' = "done"
    /\ UNCHANGED <<offset, pos, stalls, stallsAt, stored, videos, idleAnswers, tries, lost, odd>>

UpSteps == TakesSome \/ TakesUnknown \/ Denied \/ PutsTheLast \/ PutFails \/ Thumbnail
UpNext == Opens \/ UpSteps
UpSpec == UpInit /\ [][UpNext]_upVars

-------------------------------------------------------------------------------
(* A video on the channel is the reel, unit for unit: the answers of the   *)
(* server never make the client skip a part or send it at another place.   *)
VideosAreTheReel ==
    \A v \in DOMAIN videos : videos[v] = [u \in Units |-> u]

(* A second video of an episode needs an answer that was lost: failures of *)
(* any other kind leave none behind.                                       *)
OneVideoPerEpisode == Cardinality(DOMAIN videos) <= 1 + lost

(* The channel has the reel, whole, and once unless an answer was lost     *)
(* (VideosAreTheReel, OneVideoPerEpisode).                                 *)
UploadIsTheReel == VideosAreTheReel /\ OneVideoPerEpisode
================================================================================
