------------------------------ MODULE RenderChain ------------------------------
(***************************************************************************)
(* The VOD chain (render/pipeline.py): nine programs run one after another *)
(* on the files of a session; a program whose output is there is skipped.  *)
(* The HTTP router starts chains in threads of one process, also two on    *)
(* the same session; the process can be killed at any time.                *)
(*                                                                         *)
(* A file is absent, half written or whole.  Its contents are left out.    *)
(***************************************************************************)
EXTENDS Integers, Sequences, FiniteSets

CONSTANTS
    ChainRuns,     \* requests; the new session of a dated request has its name
    Saved,         \* a session recorded earlier
    SavedFiles,    \* what it can start with: sets of files
    Requests,      \* what is asked: records of dated, force, tts, upload, skipHeadless
    MaxAttempts,   \* PipelineOpts.max_attempts
    MaxKills       \* bound on kills of the process

ASSUME ChainAssumption ==
    /\ Saved \notin ChainRuns
    /\ Requests \subseteq [dated : BOOLEAN, force : BOOLEAN, tts : BOOLEAN, upload : BOOLEAN, skipHeadless : BOOLEAN]
    /\ MaxAttempts \in Nat \ {0} /\ MaxKills \in Nat

(* STEPS, and the file whose presence means that the step is done.  The    *)
(* upload is always a dry run here and leaves no response behind.          *)
Steps == <<"session", "beats", "headless", "stitch", "tts", "mix", "thumb", "metadata", "upload">>
Output == [session |-> "manifest", beats |-> "beats", headless |-> "clips", stitch |-> "silent",
           tts |-> "vo", mix |-> "reel", thumb |-> "thumb", metadata |-> "episode", upload |-> "response"]
Files == {Output[s] : s \in DOMAIN Output} \cup {"script"}

VARIABLES
    disk,    \* [session -> [file -> none, half or whole]]
    run,     \* [ChainRuns -> the state of the request]
    kills
chainVars == <<disk, run, kills>>

Sessions == ChainRuns \cup {Saved}
NotAsked == [phase |-> "new", session |-> Saved, enabled |-> {}, force |-> FALSE, step |-> 1,
             attempt |-> 1, writing |-> FALSE, clash |-> FALSE, alone |-> TRUE]

ChainTypeOK ==
    /\ disk \in [Sessions -> [Files -> {"none", "half", "whole"}]]
    /\ \A r \in ChainRuns :
          /\ run[r].phase \in {"new", "running", "done", "failed", "killed"}
          /\ run[r].session \in {Saved, r}
          /\ run[r].enabled \subseteq DOMAIN Output
          /\ run[r].step \in 1 .. Len(Steps) + 1 /\ run[r].attempt \in 1 .. MaxAttempts
          /\ run[r].writing => run[r].phase = "running"
    /\ kills \in 0 .. MaxKills

ChainInit ==
    /\ \E files \in SavedFiles :
         disk = [s \in Sessions |-> [f \in Files |-> IF s = Saved /\ f \in files THEN "whole" ELSE "none"]]
    /\ run = [r \in ChainRuns |-> NotAsked]
    /\ kills = 0

Running(r) == run[r].phase = "running"
Key(r) == Steps[run[r].step]
OutputOf(r) == Output[Key(r)]
At(r, f) == disk[run[r].session][f]
Others(r) == {o \in ChainRuns \ {r} : Running(o) /\ run[o].session = run[r].session}
(* The others that write the file which r writes or is about to write. *)
Rivals(r) == {o \in Others(r) : run[o].writing /\ Key(o) = Key(r)}

-------------------------------------------------------------------------------
(* _resolve_enabled, and main for the command line. *)
EnabledBy(q) ==
    {s \in DOMAIN Output : /\ s = "session" => q.dated
                           /\ s = "headless" => ~q.skipHeadless
                           /\ s = "tts" => q.tts
                           /\ s = "upload" => q.upload}

(* A run is not alone if another one of its session has begun before it    *)
(* ended, or since.                                                        *)
Asked(r) ==
    /\ run[r].phase = "new"
    /\ \E q \in Requests :
         LET s == IF q.dated THEN r ELSE Saved IN
         run' = [o \in ChainRuns |->
                   IF o = r THEN [NotAsked EXCEPT !.phase = "running", !.session = s, !.force = q.force,
                                    !.enabled = EnabledBy(q),
                                    !.alone = \A p \in ChainRuns \ {r} : ~(Running(p) /\ run[p].session = s)]
                   ELSE IF run[o].phase # "new" /\ run[o].session = s THEN [run[o] EXCEPT !.alone = FALSE]
                   ELSE run[o]]
    /\ UNCHANGED <<disk, kills>>

(* _has_outputs *)
HasOutputs(r) == At(r, OutputOf(r)) # "none"
MustRun(r) == Key(r) \in run[r].enabled /\ (run[r].force \/ ~HasOutputs(r))
Idling(r) == Running(r) /\ run[r].step <= Len(Steps) /\ ~run[r].writing

NextStep(r) == [run[r] EXCEPT !.step = @ + 1, !.attempt = 1, !.writing = FALSE, !.clash = FALSE]
Skips(r) ==
    /\ Idling(r) /\ Key(r) \notin run[r].enabled
    /\ run' = [run EXCEPT ![r] = NextStep(r)]
    /\ UNCHANGED <<disk, kills>>
SkipsPresent(r) ==
    /\ Idling(r) /\ Key(r) \in run[r].enabled /\ ~MustRun(r)
    /\ run' = [run EXCEPT ![r] = NextStep(r)]
    /\ UNCHANGED <<disk, kills>>

(* What a program needs before it starts on its output.  session.run wants *)
(* a date or a date range and is given neither.                            *)
Whole(r, f) == At(r, f) = "whole"
There(r, f) == At(r, f) # "none"
Intact(r, f) == At(r, f) # "half"
Ready(r) ==
    CASE Key(r) = "session"  -> FALSE
      [] Key(r) = "beats"    -> Whole(r, "manifest")
      [] Key(r) = "headless" -> Whole(r, "beats")
      [] Key(r) = "stitch"   -> There(r, "clips")
      [] Key(r) = "tts"      -> Whole(r, "script")
      [] Key(r) = "mix"      -> There(r, "silent") /\ Intact(r, "beats") /\ Intact(r, "vo")
      [] Key(r) = "thumb"    -> There(r, "reel") \/ There(r, "silent")
      [] Key(r) = "metadata" -> TRUE
      [] Key(r) = "upload"   -> Whole(r, "episode") /\ There(r, "reel")

(* ffmpeg opens its output first and takes long; a JSON file is written in *)
(* one call at the end.                                                    *)
ByFfmpeg == {"stitch", "mix", "thumb"}
Starts(r) ==
    /\ Idling(r) /\ MustRun(r) /\ Ready(r)
    /\ LET both == IF Key(r) \in ByFfmpeg THEN Rivals(r) ELSE {} IN
       run' = [o \in ChainRuns |->
                 IF o = r THEN [run[r] EXCEPT !.writing = TRUE, !.clash = both # {}]
                 ELSE IF o \in both THEN [run[o] EXCEPT !.clash = TRUE] ELSE run[o]]
    /\ disk' = IF Key(r) \in ByFfmpeg THEN [disk EXCEPT ![run[r].session][OutputOf(r)] = "half"] ELSE disk
    /\ UNCHANGED kills

(* SystemExit: the chain ends at the first one. *)
Gives(r, content) == disk' = [disk EXCEPT ![run[r].session][OutputOf(r)] = content]
Stops(r) == run' = [run EXCEPT ![r] = [@ EXCEPT !.phase = "failed", !.writing = FALSE]]
ExitsAtOnce(r) ==
    /\ Idling(r) /\ MustRun(r) /\ ~Ready(r) /\ Key(r) # "thumb"
    /\ Stops(r)
    /\ UNCHANGED <<disk, kills>>

(* OSError and the like: once more after a pause, up to max_attempts.  The *)
(* missing input of thumb is one; any other program may meet one before it *)
(* touches its output.                                                     *)
Stumbles(r) ==
    /\ Idling(r) /\ MustRun(r) /\ (Ready(r) \/ Key(r) = "thumb")
    /\ IF run[r].attempt < MaxAttempts
         THEN run' = [run EXCEPT ![r].attempt = @ + 1]
         ELSE Stops(r)
    /\ UNCHANGED <<disk, kills>>

(* The program comes to its end.  A dry run makes no clips and no upload.  *)
(* A file of which a failing rival has removed the name is not there.      *)
Succeeds(r) ==
    /\ Running(r) /\ run[r].writing
    /\ run' = [run EXCEPT ![r] = NextStep(r)]
    /\ IF Key(r) \in {"headless", "upload"} \/ (Key(r) \in ByFfmpeg /\ At(r, OutputOf(r)) = "none")
         THEN UNCHANGED disk
         ELSE Gives(r, IF run[r].clash THEN "half" ELSE "whole")
    /\ UNCHANGED kills

(* The program fails: stitch and mix remove their output, thumb does not;  *)
(* tts notes the lines it could speak and exits.                           *)
Remains_Output(r) == At(r, OutputOf(r))
Remains(r) ==
    CASE Key(r) \in {"stitch", "mix"} -> "none"
      [] Key(r) = "tts" -> "whole"
      [] OTHER -> At(r, OutputOf(r))
Breaks(r) ==
    /\ Running(r) /\ run[r].writing
    /\ Stops(r)
    /\ Gives(r, Remains(r))
    /\ UNCHANGED kills

Ends_OneEarly(r) ==
    /\ Running(r) /\ run[r].step = Len(Steps)
    /\ run' = [run EXCEPT ![r].phase = "done"]
    /\ UNCHANGED <<disk, kills>>
Ends(r) ==
    /\ Running(r) /\ run[r].step = Len(Steps) + 1
    /\ run' = [run EXCEPT ![r].phase = "done"]
    /\ UNCHANGED <<disk, kills>>

(* The process dies with all its chains, some of them in a write. *)
Killed ==
    /\ kills < MaxKills /\ \E r \in ChainRuns : Running(r)
    /\ \E cut \in SUBSET {r \in ChainRuns : run[r].writing /\ Key(r) \notin {"headless", "upload"}} :
         disk' = [s \in Sessions |-> [f \in Files |->
                    IF \E r \in cut : run[r].session = s /\ OutputOf(r) = f THEN "half" ELSE disk[s][f]]]
    /\ run' = [r \in ChainRuns |-> IF Running(r) THEN [run[r] EXCEPT !.phase = "killed", !.writing = FALSE]
                                   ELSE run[r]]
    /\ kills' = kills + 1

RunSteps(r) == \/ Skips(r) \/ SkipsPresent(r) \/ Starts(r) \/ ExitsAtOnce(r)
               \/ Stumbles(r) \/ Succeeds(r) \/ Breaks(r) \/ Ends(r)
ChainNext == (\E r \in ChainRuns : Asked(r) \/ RunSteps(r)) \/ Killed
ChainSpec == ChainInit /\ [][ChainNext]_chainVars /\ \A r \in ChainRuns : WF_chainVars(RunSteps(r))

-------------------------------------------------------------------------------
(* A half-written file is being written, or is explained: a kill, two      *)
(* chains that wrote it at once, or thumb, which alone leaves one behind.  *)
HalfFilesAreExplained ==
    \A s \in Sessions, f \in Files :
       disk[s][f] = "half" =>
          \/ \E r \in ChainRuns : run[r].writing /\ run[r].session = s /\ OutputOf(r) = f
          \/ kills > 0 \/ f = "thumb"
          \/ \E q, r \in ChainRuns : q # r /\ \A o \in {q, r} : run[o].phase # "new" /\ run[o].session = s

(* A chain that is done has the output of each of its steps on disk, if no *)
(* other chain worked on the session; the dry runs of headless and upload  *)
(* excepted.                                                               *)
Made(r) == run[r].enabled \ {"headless", "upload"}
DoneMeansMade ==
    \A r \in ChainRuns : run[r].phase = "done" /\ run[r].alone =>
       \A s \in Made(r) : disk[run[r].session][Output[s]] # "none"

(* A forced chain that is done repairs what earlier failures and kills     *)
(* left: all it makes is whole.                                            *)
ForcedDoneIsWhole ==
    \A r \in ChainRuns : run[r].phase = "done" /\ run[r].force /\ run[r].alone =>
       \A s \in Made(r) : disk[run[r].session][Output[s]] = "whole"

(* What a chain calls done is there, and half a file has a cause (the      *)
(* three above).                                                           *)
ChainsDeliver == HalfFilesAreExplained /\ DoneMeansMade /\ ForcedDoneIsWhole

(* Every chain comes to an end, however its programs fail.                 *)
RunsEnd == \A r \in ChainRuns : Running(r) ~> ~Running(r)

(* The first use the module names: the chain run for a date.  When it is   *)
(* over, the session it made up has a manifest.                            *)
DatedRunsReplay ==
    \A r \in ChainRuns : run[r].phase \in {"done", "failed"} /\ "session" \in run[r].enabled =>
       There(r, "manifest")
================================================================================
