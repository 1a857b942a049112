------------------------------ MODULE ClipCapture ------------------------------
(***************************************************************************)
(* The capture of clips (render/headless.py): a browser plays each beat of *)
(* beats.json and records it; the recording becomes <beat>.webm, and       *)
(* <beat>.json beside it says where the scene begins in it.  Captures      *)
(* fail, the operator interrupts them, and the beats are detected anew     *)
(* between two captures, with ids that come back for other moments.  A     *)
(* stale file that cannot be deleted stays, and nobody is told.            *)
(*                                                                         *)
(* A clip is its take, the number of the capture, and the moment it shows. *)
(***************************************************************************)
EXTENDS Integers, Sequences, FiniteSets, SequencesExt

CONSTANTS
    Ids,          \* ids of beats
    Moments,      \* moments of the day
    Unrendered,   \* the moments whose kind or scene is not rendered
    MaxTakes      \* bound on captures

ASSUME CaptureAssumption ==
    /\ IsFiniteSet(Ids) /\ Moments \subseteq Nat \ {0} /\ Unrendered \subseteq Moments
    /\ MaxTakes \in Nat

VARIABLES
    detected,   \* beats.json: [ids -> moment]
    clips,      \* clips/*.webm: [ids -> clip]
    sidecars,   \* clips/*.json: [ids -> clip it was written for]
    jobs,       \* the beats still to capture
    phase,      \* idle, waiting, recorded (raw file), cleared, moved
    asked,      \* the options of the capture: beats named, keepStale
    failed,     \* RenderSummary.failed
    take,       \* captures so far
    verdict,    \* the end of the last capture, none once the beats change
    torn,       \* the beats whose clip and sidecar a failure may have parted
    stuck       \* history: those of which the last purge could delete neither file
capVars == <<detected, clips, sidecars, jobs, phase, asked, failed, take, verdict, torn, stuck>>

NoClip == [take |-> 0, of |-> 0]
Clips == [take : 0 .. MaxTakes, of : Moments \cup {0}]
CapTypeOK ==
    /\ DOMAIN detected \subseteq Ids /\ \A b \in DOMAIN detected : detected[b] \in Moments
    /\ clips \in [Ids -> Clips] /\ sidecars \in [Ids -> Clips]
    /\ jobs \in Seq(Ids) /\ (jobs # <<>> => phase # "idle")
    /\ phase \in {"idle", "waiting", "recorded", "cleared", "moved"}
    /\ failed \in 0 .. Cardinality(Ids) /\ take \in 0 .. MaxTakes
    /\ verdict \in {"none", "ok", "failed", "interrupted"} /\ torn \cup stuck \subseteq Ids

NoOptions == [named |-> {}, keepStale |-> FALSE]
CapInit ==
    /\ detected = <<>>
    /\ clips = [b \in Ids |-> NoClip] /\ sidecars = [b \in Ids |-> NoClip]
    /\ jobs = <<>> /\ phase = "idle" /\ asked = NoOptions
    /\ failed = 0 /\ take = 0 /\ verdict = "none" /\ torn = {} /\ stuck = {}

-------------------------------------------------------------------------------
(* session.beats writes beats.json. *)
Detects ==
    /\ phase = "idle" /\ take < MaxTakes
    /\ \E found \in SUBSET Ids : detected' \in [found -> Moments]
    /\ detected' # detected
    /\ verdict' = "none"
    /\ UNCHANGED <<clips, sidecars, jobs, phase, asked, failed, take, torn, stuck>>

(* plan_jobs *)
Wanted(named) == {b \in DOMAIN detected : named = {} \/ b \in named}
Planned(named) == {b \in Wanted(named) : detected[b] \notin Unrendered}

(* _purge_stale_clips: all files whose beat is not in this plan, but those *)
(* the system does not let go of.                                          *)
Stale(f, named, keepStale) == {b \in Ids \ Wanted(named) : ~keepStale /\ f[b] # NoClip}
Purged_Nothing(f, stale, held) == f
Purged(f, stale, held) == [b \in Ids |-> IF b \in stale \ held THEN NoClip ELSE f[b]]

(* render_session up to the browser. *)
Begins ==
    /\ phase = "idle" /\ detected # <<>> /\ take < MaxTakes
    /\ \E named \in {{}} \cup {{b} : b \in Ids}, keepStale \in BOOLEAN :
          /\ asked' = [named |-> named, keepStale |-> keepStale]
          /\ jobs' = SetToSeq(Planned(named))
          /\ LET staleClips == Stale(clips, named, keepStale)
                 stale == Stale(sidecars, named, keepStale)
             IN  \E heldClips \in SUBSET staleClips, held \in SUBSET stale :
                    /\ clips' = Purged(clips, staleClips, heldClips)
                    /\ sidecars' = Purged(sidecars, stale, held)
                    /\ stuck' = heldClips \cap held
    /\ phase' = IF jobs' = <<>> THEN "idle" ELSE "waiting"
    /\ verdict' = IF jobs' = <<>> THEN "ok" ELSE "none"
    /\ take' = take + 1 /\ failed' = 0
    /\ UNCHANGED <<detected, torn>>

Job == Head(jobs)
This == [take |-> take, of |-> detected[Job]]

(* The result of a beat is in: the next one, or the end of the capture.    *)
Result(ok) ==
    LET failures == IF ok THEN failed ELSE failed + 1 IN
    /\ failed' = failures
    /\ jobs' = Tail(jobs)
    /\ phase' = IF jobs' = <<>> THEN "idle" ELSE "waiting"
    /\ verdict' = IF jobs' # <<>> THEN "none" ELSE IF failures = 0 THEN "ok" ELSE "failed"

(* _render_one: the scene is shown and recorded ... *)
Records ==
    /\ phase = "waiting" /\ phase' = "recorded"
    /\ UNCHANGED <<detected, clips, sidecars, jobs, asked, failed, take, verdict, torn, stuck>>
(* ... or it is not: no context, no page, never ready, no video.           *)
Misses ==
    /\ phase \in {"waiting", "recorded"}
    /\ Result(FALSE)
    /\ UNCHANGED <<detected, clips, sidecars, asked, take, torn, stuck>>
(* The old clip goes first, then the recording takes its name.             *)
Clears ==
    /\ phase = "recorded" /\ phase' = "cleared"
    /\ clips' = [clips EXCEPT ![Job] = NoClip]
    /\ UNCHANGED <<detected, sidecars, jobs, asked, failed, take, verdict, torn, stuck>>
Moves ==
    /\ phase = "cleared" /\ phase' = "moved"
    /\ clips' = [clips EXCEPT ![Job] = This]
    /\ UNCHANGED <<detected, sidecars, jobs, asked, failed, take, verdict, torn, stuck>>
MoveFails ==
    /\ phase = "cleared"
    /\ Result(FALSE)
    /\ torn' = torn \cup {Job}
    /\ UNCHANGED <<detected, clips, sidecars, asked, take, stuck>>
(* The sidecar names the take. *)
Noted == This
NotesTheClip ==
    /\ phase = "moved"
    /\ sidecars' = [sidecars EXCEPT ![Job] = Noted]
    /\ torn' = torn \ {Job}
    /\ Result(TRUE)
    /\ UNCHANGED <<detected, clips, asked, take, stuck>>
(* A failing write is caught in the loop of render_session. *)
NoteFails ==
    /\ phase = "moved"
    /\ torn' = torn \cup {Job}
    /\ Result(FALSE)
    /\ UNCHANGED <<detected, clips, sidecars, asked, take, stuck>>

(* Ctrl-C, or the end of the process. *)
Interrupted_StillPlanned ==
    /\ phase # "idle"
    /\ torn' = IF phase \in {"cleared", "moved"} THEN torn \cup {Job} ELSE torn
    /\ phase' = "idle" /\ verdict' = "interrupted"
    /\ UNCHANGED <<detected, clips, sidecars, jobs, asked, failed, take, stuck>>
Interrupted ==
    /\ phase # "idle"
    /\ torn' = IF phase \in {"cleared", "moved"} THEN torn \cup {Job} ELSE torn
    /\ jobs' = <<>> /\ phase' = "idle" /\ verdict' = "interrupted"
    /\ UNCHANGED <<detected, clips, sidecars, asked, failed, take, stuck>>

CapNext == \/ Detects \/ Begins \/ Records \/ Misses \/ Clears \/ Moves
           \/ MoveFails \/ NotesTheClip \/ NoteFails \/ Interrupted
CapSpec == CapInit /\ [][CapNext]_capVars

-------------------------------------------------------------------------------
Usable(b) == clips[b] # NoClip /\ sidecars[b] # NoClip

(* A sidecar beside a clip is of the same take, or a failure between the   *)
(* two came in between: the stitcher cuts a clip where its sidecar says.   *)
SidecarsFit ==
    \A b \in Ids : Usable(b) /\ b \notin torn /\ ~(phase = "moved" /\ b = Job) => clips[b] = sidecars[b]

(* After a capture that reports no failure and was not limited to some     *)
(* beats, the stitcher finds a clip of this take for each rendered beat of *)
(* beats.json, also for an id that stood for another moment before, and no *)
(* clip of a beat that is gone but one whose files could not be deleted.   *)
SuccessIsCurrent ==
    verdict = "ok" /\ asked = NoOptions =>
       \A b \in Ids :
          /\ b \in Planned({}) => clips[b].of = detected[b] /\ clips[b] = sidecars[b] /\ clips[b].take = take
          /\ b \notin DOMAIN detected \cup stuck => ~Usable(b)

(* The clips the stitcher finds are those of the beats as they are, with   *)
(* sidecars that fit them (SidecarsFit, SuccessIsCurrent).                 *)
ClipsAreCurrent == SidecarsFit /\ SuccessIsCurrent
================================================================================
