--------------------------------- MODULE Reel ---------------------------------
(***************************************************************************)
(* From the clips of a session to its episode: render/stitch.py joins them *)
(* with crossfades and captions, render/mix.py lays the voice over the     *)
(* reel, yt/metadata.py sets the chapter markers.  Three programs compute  *)
(* where a clip starts, each from files of its own: the stitcher from the  *)
(* normalised clips, the other two from the sidecars and beats.json.       *)
(*                                                                         *)
(* A beat is a number, the place of its id among the ids; several beats    *)
(* can be of one time, a fill's being in whole seconds.  Lengths are whole *)
(* units.                                                                  *)
(* What ffmpeg draws is left out; whether it fails is a choice.            *)
(***************************************************************************)
EXTENDS Ordering, Sequences, FiniteSets, SequencesExt

CONSTANTS
    BeatFiles,      \* beats.json: sequences of beats, in file order
    TimeOf,         \* [beats -> time of the day]
    ClipLengths,    \* duration_ms of a sidecar
    VoiceOvers,     \* the lengths of the lines of a beat
    Xfades,         \* --xfade
    DefaultXfade,   \* DEFAULT_XFADE_SEC
    LeadIn, Breath  \* VO_LEAD_IN_SEC, the pause between two lines

ASSUME ReelAssumption ==
    /\ \A f \in BeatFiles : f \in Seq(DOMAIN TimeOf)
    /\ IsFiniteSet(DOMAIN TimeOf)
    /\ DOMAIN TimeOf \subseteq Nat \ {0} /\ \A b \in DOMAIN TimeOf : TimeOf[b] \in Nat \ {0}
    /\ ClipLengths \subseteq Nat \ {0}
    /\ \A lines \in VoiceOvers : lines \in Seq(Nat \ {0})
    /\ Xfades \subseteq Nat \ {0} /\ DefaultXfade \in Xfades
    /\ {LeadIn, Breath} \subseteq Nat

VARIABLES
    beatsFile,   \* beats.json
    webm,        \* the beats with a clip in clips/
    sidecar,     \* [beats with a readable sidecar -> duration_ms]
    got,         \* [beat -> length of its normalised clip, 0 if ffprobe fails]
    vo,          \* the lines of every beat
    silent,      \* silent_reel.mp4
    reelMeta,    \* the xfade in reel.meta.json, 0 without
    mixed,       \* reel.mp4
    episode      \* episode.yaml
reelVars == <<beatsFile, webm, sidecar, got, vo, silent, reelMeta, mixed, episode>>

AllBeats == UNION {ToSet(f) : f \in BeatFiles}
NoReel == [clips |-> <<>>, starts |-> <<>>, windows |-> <<>>, xfade |-> 0]
NotMixed == [of |-> NoReel, xfade |-> 0, onsets |-> {}]
NoEpisode == [of |-> NoReel, xfade |-> 0, chapters |-> <<>>]

ReelTypeOK ==
    /\ beatsFile \in BeatFiles \cup {<<>>}
    /\ webm \subseteq AllBeats
    /\ DOMAIN sidecar \subseteq AllBeats /\ \A b \in DOMAIN sidecar : sidecar[b] \in ClipLengths
    /\ silent.clips \in Seq(webm) /\ Len(silent.starts) = Len(silent.clips)
    /\ reelMeta \in Xfades \cup {0}
    /\ mixed.xfade \in Xfades \cup {0} /\ episode.xfade \in Xfades \cup {0}
    /\ Len(episode.chapters) # 1 /\ Len(episode.chapters) # 2

-------------------------------------------------------------------------------
(* Capture: a clip and a sidecar for most beats.  A clip can be shorter    *)
(* than its sidecar says, when the scene took long to get ready, and its   *)
(* probe can fail.                                                         *)
Captured ==
    /\ beatsFile \in BeatFiles
    /\ \E gone \in {{}} \cup {{b} : b \in AllBeats} : webm = AllBeats \ gone
    /\ \E known \in {AllBeats} \cup {AllBeats \ {b} : b \in AllBeats} : sidecar \in [known -> ClipLengths]
    /\ \E lines \in VoiceOvers : vo = [b \in AllBeats |-> lines]
    /\ \E cut \in {{}} \cup {{b} : b \in AllBeats}, short \in {0, 1} :
         got = [b \in AllBeats |-> IF b \notin DOMAIN sidecar THEN 0
                                   ELSE IF b \in cut THEN short ELSE sidecar[b]]
NothingMade == silent = NoReel /\ reelMeta = 0 /\ mixed = NotMixed /\ episode = NoEpisode
ReelInit == Captured /\ NothingMade
(* A session without anything, for instances in which something else runs. *)
ReelIdle ==
    /\ beatsFile = <<>> /\ webm = {} /\ sidecar = <<>> /\ got = <<>> /\ vo = <<>>
    /\ NothingMade

-------------------------------------------------------------------------------
(* plan_stitch: sidecars with a clip, by the time of their beat and then   *)
(* by its id; a beat that is not in beats.json comes first.                *)
TimeKey(b) == IF b \in ToSet(beatsFile) THEN TimeOf[b] ELSE 0
Earlier(b, c) == \/ TimeKey(b) < TimeKey(c)
                 \/ TimeKey(b) = TimeKey(c) /\ b < c
PlannedClips == SortedBy(DOMAIN sidecar \cap webm, Earlier)

(* The sum of the first i lengths. *)
SumTo(d, i) == LET sum[k \in 0 .. Len(d)] == IF k = 0 THEN 0 ELSE sum[k - 1] + d[k] IN sum[i]

(* A fade needs its length in both clips. *)
Clamped(length, xf) == IF length < 2 * xf THEN 2 * xf ELSE length
Lengths(shots, xf) == [i \in 1 .. Len(shots) |-> Clamped(got[shots[i]], xf)]

(* build_xfade_command: clip i + 1 fades in at this offset of the reel ... *)
ChainOffset(d, xf, i) == SumTo(d, i) - xf * i
(* ... and build_pairwise_commands, from the prefix made so far.           *)
PairOffset(d, xf, i) ==
    LET prefix[k \in 1 .. i] == IF k = 1 THEN d[1] ELSE prefix[k - 1] + d[k] - xf IN prefix[i] - xf

(* The caption of a clip: from its start to the fade into the next one.    *)
CaptionEnd_IntoFade(d, xf, i) == SumTo(d, i) - xf * (i - 1)
CaptionEnd(d, xf, i) == SumTo(d, i) - xf * (i - 1) - (IF i < Len(d) THEN xf ELSE 0)
CaptionWindows(d, xf) ==
    [i \in 1 .. Len(d) |-> [from |-> SumTo(d, i - 1) - xf * (i - 1), to |-> CaptionEnd(d, xf, i)]]

ChainStarts(d, xf) == [i \in 1 .. Len(d) |-> IF i = 1 THEN 0 ELSE ChainOffset(d, xf, i - 1)]
PairStarts(d, xf) == [i \in 1 .. Len(d) |-> IF i = 1 THEN 0 ELSE PairOffset(d, xf, i - 1)]

(* The captions of the chained command; the pairwise ones draw none, but   *)
(* for a reel of one clip, which is made by the chained command after all. *)
Captions(xf) ==
    IF Len(PlannedClips) = 1 THEN <<[from |-> 0, to |-> sidecar[PlannedClips[1]]]>>
    ELSE CaptionWindows(Lengths(PlannedClips, xf), xf)
PairCaptions(xf) == IF Len(PlannedClips) = 1 THEN Captions(xf) ELSE <<>>

(* The reel whose clips start there, with these captions.                  *)
Joined(starts, windows, xf) == [clips |-> PlannedClips, xfade |-> xf, starts |-> starts, windows |-> windows]
ChainedReel(xf) == Joined(ChainStarts(Lengths(PlannedClips, xf), xf), Captions(xf), xf)
PairedReel(xf) == Joined(PairStarts(Lengths(PlannedClips, xf), xf), PairCaptions(xf), xf)

(* stitch_session.  reel.meta.json is written afterwards, at best effort.  *)
WritesMeta(xf) == reelMeta' \in {reelMeta, xf}
StitchChained(xf) ==
    /\ PlannedClips # <<>>
    /\ silent' = ChainedReel(xf)
    /\ WritesMeta(xf)
    /\ UNCHANGED <<beatsFile, webm, sidecar, got, vo, mixed, episode>>
(* The chained command fails and takes its output with it; then pairwise,  *)
(* to the end or not.                                                      *)
StitchPairwise(xf) ==
    /\ PlannedClips # <<>>
    /\ \/ silent' = PairedReel(xf) /\ WritesMeta(xf)
       \/ silent' = NoReel /\ UNCHANGED reelMeta
    /\ UNCHANGED <<beatsFile, webm, sidecar, got, vo, mixed, episode>>
(* --pass-through: no fades, no captions, no reel.meta.json. *)
StitchPassThrough ==
    /\ PlannedClips # <<>>
    /\ LET d == [i \in 1 .. Len(PlannedClips) |-> got[PlannedClips[i]]]
       IN  silent' = [clips |-> PlannedClips, xfade |-> 0, windows |-> <<>>,
                      starts |-> [i \in DOMAIN d |-> SumTo(d, i - 1)]]
    /\ UNCHANGED <<beatsFile, webm, sidecar, got, vo, reelMeta, mixed, episode>>

-------------------------------------------------------------------------------
(* The beats whose clips mix and metadata suppose to be in the reel.       *)
WithClip(kept, b) == IF b \in DOMAIN sidecar THEN Append(kept, b) ELSE kept
Rendered == FoldLeft(WithClip, <<>>, beatsFile)
SidecarLengths == [i \in 1 .. Len(Rendered) |-> IF Rendered[i] \in DOMAIN sidecar THEN sidecar[Rendered[i]] ELSE 0]

(* plan_mix, compute_chapters: where they suppose that clip i starts.      *)
SupposedStart(xf, i) == SumTo(SidecarLengths, i - 1) - xf * (i - 1)

(* A line follows the lead-in and the earlier lines of its beat.           *)
LineStart(lines, k) == LeadIn + SumTo(lines, k - 1) + Breath * (k - 1)
Onsets(xf) ==
    UNION {{[beat |-> Rendered[i], line |-> k, at |-> SupposedStart(xf, i) + LineStart(vo[Rendered[i]], k)] :
              k \in 1 .. Len(vo[Rendered[i]])} : i \in 1 .. Len(Rendered)}

(* The fade as mix_session and build_episode_meta resolve it: what they    *)
(* are given, else what the stitcher has noted, else the default.  Their   *)
(* mains always give one: the flag, or the default of the flag.            *)
NotGiven == 0
MainXfade(flag) == IF flag = NotGiven THEN DefaultXfade ELSE flag
ResolvedXfade(given) ==
    IF given # NotGiven THEN given ELSE IF reelMeta # 0 THEN reelMeta ELSE DefaultXfade
UsedXfade(flag) == ResolvedXfade(MainXfade(flag))

(* mix_session, called by its main; a failure removes the output.          *)
Mix(flag) ==
    LET xf == UsedXfade(flag) IN
    /\ silent # NoReel
    /\ mixed' \in {NotMixed, [of |-> silent, xfade |-> xf, onsets |-> Onsets(xf)]}
    /\ UNCHANGED <<beatsFile, webm, sidecar, got, vo, silent, reelMeta, episode>>

(* compute_chapters: YouTube takes three at least. *)
ChapterStart(xf, i) == SupposedStart(xf, i)
EnoughChapters(chapters) == IF Len(chapters) < 3 THEN <<>> ELSE chapters
Chapters(xf) ==
    EnoughChapters([i \in 1 .. Len(Rendered) |->
                      [beat |-> Rendered[i], at |-> IF i = 1 THEN 0 ELSE ChapterStart(xf, i)]])

(* build_episode_meta needs no reel. *)
MakeEpisode(flag) ==
    LET xf == UsedXfade(flag) IN
    /\ episode' = [of |-> silent, xfade |-> xf, chapters |-> Chapters(xf)]
    /\ UNCHANGED <<beatsFile, webm, sidecar, got, vo, silent, reelMeta, mixed>>

(* The programs in the order of the chain, each at most twice. *)
ReelNext ==
    \/ mixed = NotMixed /\ episode = NoEpisode
         /\ (StitchPassThrough \/ \E xf \in Xfades : StitchChained(xf) \/ StitchPairwise(xf))
    \/ mixed = NotMixed /\ episode = NoEpisode /\ \E flag \in Xfades \cup {NotGiven} : Mix(flag)
    \/ episode = NoEpisode /\ \E flag \in Xfades \cup {NotGiven} : MakeEpisode(flag)
ReelSpec == ReelInit /\ [][ReelNext]_reelVars

-------------------------------------------------------------------------------
(* A reel with captions has one for each clip, shown while the clip is:    *)
(* not before it starts, not in the fade into the next one, and never two  *)
(* at a time - also where a clip is shorter than a fade or could not be    *)
(* probed (build_xfade_command clamps).                                    *)
CaptionsInOrder ==
    /\ silent.windows # <<>> => Len(silent.windows) = Len(silent.clips)
    /\ \A i \in DOMAIN silent.windows :
          /\ 0 <= silent.windows[i].from
          /\ Len(silent.clips) > 1 => silent.windows[i].from = silent.starts[i]
          /\ silent.windows[i].from <= silent.windows[i].to
          /\ i < Len(silent.windows) => silent.windows[i].to <= silent.starts[i + 1]

(* Whichever way the reel is joined, its clips start at the same times:    *)
(* mix and metadata need not know of the fallback.  (Its captions are      *)
(* lost, of more than one clip.)                                           *)
FallbackStartsAlike ==
    \A xf \in Xfades : ChainedReel(xf).starts = PairedReel(xf).starts

(* What the other two programs take for granted: every sidecar has a clip, *)
(* as long as it says and long enough for two fades, and beats.json lists  *)
(* its beats as the stitcher sorts them.                                   *)
AsPlanned(xf) ==
    /\ DOMAIN sidecar \subseteq webm
    /\ DOMAIN sidecar \subseteq ToSet(beatsFile)
    /\ \A b \in DOMAIN sidecar : got[b] = sidecar[b] /\ got[b] >= 2 * xf
    /\ \A i, j \in DOMAIN beatsFile : i < j => Earlier(beatsFile[i], beatsFile[j])

StartInReel(r, b) == r.starts[CHOOSE i \in DOMAIN r.clips : r.clips[i] = b]
OnsetsHit(r, onsets) ==
    \A o \in onsets : /\ o.beat \in ToSet(r.clips)
                      /\ o.at = StartInReel(r, o.beat) + LineStart(vo[o.beat], o.line)

(* The voice starts on the clip it speaks about, at its place in it, if    *)
(* the capture went as planned and mix was told the fade of the reel.      *)
VoiceOnItsClip ==
    mixed.xfade = mixed.of.xfade /\ AsPlanned(mixed.xfade) => OnsetsHit(mixed.of, mixed.onsets)

(* A chapter marker points at the start of its clip, likewise; the first   *)
(* at 0:00, as YouTube asks.                                               *)
ChaptersClick ==
    /\ episode.chapters # <<>> => episode.chapters[1].at = 0
    /\ episode.of # NoReel /\ episode.xfade = episode.of.xfade /\ AsPlanned(episode.xfade) =>
         \A i \in DOMAIN episode.chapters :
            episode.chapters[i].at = StartInReel(episode.of, episode.chapters[i].beat)

(* The reel, its voice and its chapters agree on when each clip runs,      *)
(* however the reel was joined, and so do the captions, of a reel that has *)
(* them (the four above).                                                  *)
ReelIsInSync == CaptionsInOrder /\ FallbackStartsAlike /\ VoiceOnItsClip /\ ChaptersClick
================================================================================
