---------------------------- MODULE MCProduction -----------------------------
(* Instances for TLC of the runs of the studio and of the two that make    *)
(* something of many sessions: the session runner with the beat detector,  *)
(* and the podcast.  They share no variable, so a behaviour lets one of    *)
(* them run and leaves the others where they start.                        *)
EXTENDS PipelineRuns, SessionExport, Beats, Podcast, TLC

VARIABLE part   \* the module that runs
runsVars == vars
productionVars == <<runsVars, sessionVars, beatsVars, podVars, part>>

MCWeek == 0 :> 0 @@ 1 :> 0 @@ 2 :> 1

(* A range over two days, one that begins in the past, a holiday and the   *)
(* future.                                                                 *)
MCSpans == {<<1, 2>>, <<3, 3>>, <<5, 5>>}

Shape(qty, price) == [qty |-> qty, price |-> price]
MCShapes == {Shape(2, 1), Shape(1, 3), Shape(1, 1)}
MCThresholds ==
    [bigMin |-> 2, bigFull |-> 4, divergenceWindow |-> 1, overlapFull |-> 4,
     rivalryWindow |-> 2, rivalryMin |-> 2, rivalryTop |-> 2, streakMin |-> 2, streakFull |-> 4,
     winnerFull |-> 3, loserFull |-> 3, burstWindow |-> 1, burstMin |-> 2, burstRatio |-> 2,
     recapFull |-> 10, warFull |-> 50, dedupWindow |-> 1, targetMax |-> 5]

(* Two sessions in the week, and one after it. *)
Report(at, pnl, equity, agents, met) ==
    [at |-> at, pnl |-> pnl, equity |-> equity, agents |-> agents, met |-> met]
MCReports == <<Report(1, -1, 1, 2, 2), Report(2, 2, 2, 1, 1), Report(3, 1, 3, 1, 1)>>

ProductionInit ==
    /\ part \in {"runs", "session", "beats", "podcast"}
    /\ Init /\ SessionInit /\ PodcastInit
    /\ BeatsInit /\ (part # "beats" => rollup = -1)

ProductionNext ==
    /\ part' = part
    /\ \/ part = "runs" /\ Next /\ UNCHANGED <<sessionVars, beatsVars, podVars>>
       \/ part = "session" /\ SessionNext /\ UNCHANGED <<runsVars, beatsVars, podVars>>
       \/ part = "beats" /\ BeatsNext /\ UNCHANGED <<runsVars, sessionVars, podVars>>
       \/ part = "podcast" /\ PodcastNext /\ UNCHANGED <<runsVars, sessionVars, beatsVars>>

ProductionSpec == ProductionInit /\ [][ProductionNext]_productionVars

(* The types of all variables, among them the capacity of the cache of     *)
(* runs and the scale of the scores.                                       *)
ProductionTypeOK == TypeOK /\ SessionTypeOK /\ BeatsTypeOK /\ PodcastTypeOK
==============================================================================
