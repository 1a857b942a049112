------------------------------ MODULE MCEpisode ------------------------------
(* Instances for TLC of the programs that make an episode, and of the      *)
(* chain that runs them.  They share no variable, so a behaviour lets one  *)
(* of them run and leaves the others where they start.                     *)
EXTENDS Reel, RenderChain, ClipCapture, ResumableUpload, VoiceOver, TLC

VARIABLE part   \* the module that runs
episodeVars == <<reelVars, chainVars, capVars, upVars, voiceVars, part>>

MCBeatFiles == {<<1, 2, 3>>, <<2, 1, 3>>, <<1, 3>>}
MCTimes == 1 :> 4 @@ 2 :> 4 @@ 3 :> 6
MCVoiceOvers == {<<>>, <<1, 2>>}

Request(dated, force, tts, upload, skipHeadless) ==
    [dated |-> dated, force |-> force, tts |-> tts, upload |-> upload, skipHeadless |-> skipHeadless]
MCRequests ==
    { Request(TRUE, FALSE, FALSE, FALSE, FALSE), Request(FALSE, FALSE, TRUE, FALSE, FALSE),
      Request(FALSE, TRUE, TRUE, TRUE, FALSE), Request(FALSE, FALSE, FALSE, FALSE, TRUE) }
MCSavedFiles == {{"manifest"}, {"manifest", "clips"}, {"manifest", "clips", "script"}}

EpisodeInit ==
    /\ part \in {"reel", "chain", "capture", "upload", "voice"}
    /\ IF part = "reel" THEN ReelInit ELSE ReelIdle
    /\ ChainInit /\ (part # "chain" => disk[Saved]["clips"] = "none")
    /\ VoiceInit /\ (part # "voice" => \A i \in Lines : script[i] = "a")
    /\ CapInit /\ UpInit

EpisodeNext ==
    /\ part' = part
    /\ \/ part = "reel" /\ ReelNext /\ UNCHANGED <<chainVars, capVars, upVars, voiceVars>>
       \/ part = "chain" /\ ChainNext /\ UNCHANGED <<reelVars, capVars, upVars, voiceVars>>
       \/ part = "capture" /\ CapNext /\ UNCHANGED <<reelVars, chainVars, upVars, voiceVars>>
       \/ part = "upload" /\ UpNext /\ UNCHANGED <<reelVars, chainVars, capVars, voiceVars>>
       \/ part = "voice" /\ VoiceNext /\ UNCHANGED <<reelVars, chainVars, capVars, upVars>>

(* The fairness of ChainSpec, while it runs. *)
EpisodeSpec ==
    /\ EpisodeInit /\ [][EpisodeNext]_episodeVars
    /\ \A r \in ChainRuns : WF_chainVars(part = "chain" /\ RunSteps(r))

(* The types of all variables, among them which step a chain is at and     *)
(* what is left of a capture or an upload that ended.                      *)
EpisodeTypeOK == ReelTypeOK /\ ChainTypeOK /\ CapTypeOK /\ UpTypeOK /\ VoiceTypeOK
==============================================================================
