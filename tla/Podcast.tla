-------------------------------- MODULE Podcast --------------------------------
(***************************************************************************)
(* The weekly podcast (render/podcast.py, session/weekly_rollup.py): the   *)
(* sessions of a week are added up in rollup.json, told in a script,       *)
(* spoken, shown on a card, put between an intro and an outro, and         *)
(* uploaded by hand.  All of it is files of one directory, which the       *)
(* weekly scheduler and the command line may write at the same time.       *)
(*                                                                         *)
(* A file carries the name of the composer that wrote it.  The wording of  *)
(* the script, the layout of the card and lengths are left out.            *)
(***************************************************************************)
EXTENDS Ordering, Sequences, FiniteSets, SequencesExt, FiniteSetsExt

CONSTANTS
    Replays,      \* sessions in the order of their directories: numbers
    ReportOf,     \* [Replays -> manifest.json: a record of at, pnl, equity, agents, met]
    WeekStart, WeekEnd,  \* _week_window
    DaySegments,  \* DAY_SEGMENTS
    Composers,    \* calls of compose_weekly_episode
    Uploaders,    \* calls of upload_episode
    MaxRollups    \* bound on write_weekly_rollup

ASSUME PodcastAssumption ==
    /\ Replays \subseteq Nat /\ IsFiniteSet(Replays)
    /\ ReportOf \in [Replays -> [at : Int, pnl : Int, equity : Int, agents : Nat, met : Nat]]
    /\ DaySegments \in Nat /\ MaxRollups \in Nat
    /\ Composers \cap Uploaders = {} /\ {"none", "dry-run"} \cap Uploaders = {}

VARIABLES
    replayed,   \* the sessions that have a manifest on disk
    weekly,     \* rollup.json
    rollups,    \* how often it was written
    shelf,      \* the files of the podcast directory
    composer,   \* [Composers -> the state of the call]
    uploader,   \* [Uploaders -> the state of the call]
    channel     \* the videos on YouTube
podVars == <<replayed, weekly, rollups, shelf, composer, uploader, channel>>

Stages == <<"script", "voice", "card", "teasers", "episode", "meta">>
Absent == [by |-> "nobody"]
NoVideo == "none"
NoWeek == [of |-> {}, told |-> {}]

PodcastTypeOK ==
    /\ replayed \subseteq Replays
    /\ rollups \in 0 .. MaxRollups
    /\ DOMAIN shelf = ToSet(Stages)
    /\ \A f \in DOMAIN shelf : shelf[f] = Absent \/ shelf[f].by \in Composers
    /\ \A c \in Composers :
          /\ composer[c].at \in {"new", "drafted", "done", "broken"} \cup ToSet(Stages)
          /\ composer[c].writing => composer[c].at \in ToSet(Stages) \ {"script", "meta"}
          /\ Cardinality(composer[c].week.told) <= DaySegments
    /\ \A u \in Uploaders : uploader[u].at \in {"new", "sending", "sent", "done", "failed"}
    /\ \A v \in channel : v.from \in Composers /\ v.name \in Uploaders

PodcastInit ==
    /\ replayed = {} /\ weekly = Absent /\ rollups = 0
    /\ shelf = [f \in ToSet(Stages) |-> Absent]
    /\ composer = [c \in Composers |-> [at |-> "new", writing |-> FALSE, alone |-> TRUE, week |-> NoWeek]]
    /\ uploader = [u \in Uploaders |-> [at |-> "new", copy |-> Absent, dry |-> FALSE, calm |-> TRUE]]
    /\ channel = {}

-------------------------------------------------------------------------------
SessionEnds ==
    /\ \E s \in Replays \ replayed : replayed' = replayed \cup {s}
    /\ UNCHANGED <<weekly, rollups, shelf, composer, uploader, channel>>

(* compute_weekly_rollup: one pass over the directories.  A rivalry is kept*)
(* once, with its highest count.                                           *)
InWindow(x) == WeekStart <= x.at /\ x.at <= WeekEnd
Ordered(S) == SortedBy(S, <)
OfTheWeek == Ordered({s \in replayed : InWindow(ReportOf[s])})
Empty == [pnl |-> 0, equity |-> 0, agents |-> 0, met |-> 0]
Higher(x, y) == IF y > x THEN y ELSE x
Added(sum, s) ==
    LET x == ReportOf[s] IN
    [pnl |-> sum.pnl + x.pnl, equity |-> x.equity,
     agents |-> Higher(sum.agents, x.agents), met |-> Higher(sum.met, x.met)]
ComputeRollup == FoldLeft(Added, Empty, OfTheWeek)

(* write_weekly_rollup, with the podcast field of the episode on disk.     *)
PodcastField ==
    IF shelf["episode"] = Absent THEN NoVideo
    ELSE IF shelf["meta"] = Absent THEN NoVideo ELSE shelf["meta"].video
WriteRollup ==
    /\ rollups < MaxRollups
    /\ weekly' = [by |-> "rollup", sum |-> ComputeRollup,
                  of |-> ToSet(OfTheWeek), video |-> PodcastField]
    /\ rollups' = rollups + 1
    /\ UNCHANGED <<replayed, shelf, composer, uploader, channel>>

-------------------------------------------------------------------------------
Composing(c) == composer[c].at \in ToSet(Stages)
NextStage(at) == Stages[1 + CHOOSE i \in DOMAIN Stages : Stages[i] = at]
Moves(c, at, writing) == composer' = [composer EXCEPT ![c].at = at, ![c].writing = writing]

(* collect_daily_payloads: the first sessions of the week. *)
Among(n) == {OfTheWeek[i] : i \in {i \in DOMAIN OfTheWeek : i <= n}}
Told == Among(DaySegments)

(* compose_weekly_episode up to the prompt; without a rollup it raises. *)
Begin(c) ==
    /\ composer[c].at = "new"
    /\ LET others == {o \in Composers \ {c} : Composing(o)} IN
       composer' = [o \in Composers |->
          IF o = c /\ weekly = Absent THEN [composer[c] EXCEPT !.at = "broken"]
          ELSE IF o = c THEN [at |-> "script", writing |-> FALSE, alone |-> others = {},
                              week |-> [of |-> weekly.of, told |-> Told]]
          ELSE IF o \in others /\ weekly # Absent THEN [composer[o] EXCEPT !.alone = FALSE]
          ELSE composer[o]]
    /\ UNCHANGED <<replayed, weekly, rollups, shelf, uploader, channel>>

(* generate_script and write_script_file.  What the model said is written  *)
(* as it is, and the note "(stub - no LLM creds)" in place of the stub's   *)
(* segments: the file can be parsed only if it is what the model said, in  *)
(* YAML.  A dry run ends here.                                             *)
Providers == {"yaml", "prose", "stub"}
Script(c) ==
    /\ composer[c].at = "script"
    /\ \E provider \in Providers, dry \in BOOLEAN :
         /\ shelf' = [shelf EXCEPT !["script"] = [by |-> c, provider |-> provider, parses |-> provider = "yaml"]]
         /\ Moves(c, IF dry THEN "drafted" ELSE "voice", FALSE)
    /\ UNCHANGED <<replayed, weekly, rollups, uploader, channel>>

(* synthesize_voice, render_static_card, make_intro_outro and the mux: the *)
(* program writes over the file, and the stage has it whole when it ends.  *)
Readable(c) == composer[c].at = "voice" => shelf["script"].parses
Writes(c) ==
    LET f == composer[c].at IN
    /\ f \in {"voice", "card", "teasers", "episode"} /\ ~composer[c].writing /\ Readable(c)
    /\ shelf' = [shelf EXCEPT ![f] = [by |-> c, whole |-> FALSE]]
    /\ Moves(c, f, TRUE)
    /\ UNCHANGED <<replayed, weekly, rollups, uploader, channel>>
Wrote(c) ==
    LET f == composer[c].at IN
    /\ composer[c].writing
    /\ shelf' = [shelf EXCEPT ![f] = [by |-> c, whole |-> TRUE]]
    /\ Moves(c, NextStage(f), FALSE)
    /\ UNCHANGED <<replayed, weekly, rollups, uploader, channel>>

(* write_podcast_metadata: the file is new, without a video. *)
FirstVideo_Kept(c) == IF shelf["meta"] = Absent THEN NoVideo ELSE shelf["meta"].video
FirstVideo(c) == NoVideo
WriteMetadata(c) ==
    /\ composer[c].at = "meta"
    /\ shelf' = [shelf EXCEPT !["meta"] = [by |-> c, video |-> FirstVideo(c), uploaded |-> FALSE]]
    /\ Moves(c, "done", FALSE)
    /\ uploader' = [u \in Uploaders |->
          IF uploader[u].at \in {"sending", "sent"} THEN [uploader[u] EXCEPT !.calm = FALSE] ELSE uploader[u]]
    /\ UNCHANGED <<replayed, weekly, rollups, channel>>

(* A stage raises, as the voice does for a script that cannot be parsed,   *)
(* or the process ends: what was being written stays as it is.             *)
After(c) == "broken"
Breaks(c) ==
    /\ Composing(c)
    /\ Moves(c, After(c), FALSE)
    /\ UNCHANGED <<replayed, weekly, rollups, shelf, uploader, channel>>

-------------------------------------------------------------------------------
(* upload_episode: the metadata on disk is stamped as uploaded, a copy of  *)
(* the episode is sent, and the metadata, whatever it is by then, gets the *)
(* video's id.                                                             *)
Stamped(video) == IF shelf["meta"] = Absent THEN shelf
                  ELSE [shelf EXCEPT !["meta"].video = video, !["meta"].uploaded = TRUE]
Kept(u) == IF shelf["meta"] = Absent THEN NoVideo ELSE shelf["meta"].video
UploadBegins(u) ==
    /\ uploader[u].at = "new" /\ shelf["episode"] # Absent
    /\ shelf' = Stamped(Kept(u))
    /\ \E dry \in BOOLEAN :
         uploader' = [uploader EXCEPT ![u] =
            [at |-> "sending", copy |-> shelf["episode"], dry |-> dry,
             calm |-> LET c == composer[shelf["episode"].by] IN c.at = "done" /\ c.alone]]
    /\ UNCHANGED <<replayed, weekly, rollups, composer, channel>>
UploadEnds(u) ==
    /\ uploader[u].at = "sending"
    /\ \/ /\ uploader' = [uploader EXCEPT ![u].at = "sent"]
          /\ channel' = channel \cup
               {[name |-> v, from |-> uploader[v].copy.by, whole |-> uploader[v].copy.whole] :
                  v \in {v \in {u} : ~uploader[v].dry}}
       \/ uploader' = [uploader EXCEPT ![u].at = "failed"] /\ UNCHANGED channel
    /\ UNCHANGED <<replayed, weekly, rollups, shelf, composer>>
UploadNoted(u) ==
    /\ uploader[u].at = "sent"
    /\ \/ /\ shelf' = Stamped(IF uploader[u].dry THEN "dry-run" ELSE u)
          /\ uploader' = [uploader EXCEPT ![u].at = "done"]
       \/ /\ uploader' = [uploader EXCEPT ![u].at = "failed"]
          /\ UNCHANGED shelf
    /\ UNCHANGED <<replayed, weekly, rollups, composer, channel>>

ComposerStep(c) == Begin(c) \/ Script(c) \/ Writes(c) \/ Wrote(c) \/ WriteMetadata(c) \/ Breaks(c)
UploaderStep(u) == UploadBegins(u) \/ UploadEnds(u) \/ UploadNoted(u)
PodcastNext ==
    \/ SessionEnds \/ WriteRollup
    \/ \E c \in Composers : ComposerStep(c)
    \/ \E u \in Uploaders : UploaderStep(u)
PodcastSpec == PodcastInit /\ [][PodcastNext]_podVars

-------------------------------------------------------------------------------
(* The rollup is made in one pass that updates totals.  It says of the     *)
(* week what its sessions say together: the sum of the gains, the last     *)
(* equity, and a rivalry once with its highest count.                      *)
RollupIsTheWeek ==
    weekly # Absent =>
       LET of == weekly.of
           sum == weekly.sum
           Highest(Of(_)) == Max({0} \cup {Of(ReportOf[s]) : s \in of})
       IN  /\ \A s \in of : InWindow(ReportOf[s])
           /\ sum.pnl = MapThenSumSet(LAMBDA s : ReportOf[s].pnl, of)
           /\ sum.agents = Highest(LAMBDA x : x.agents) /\ sum.met = Highest(LAMBDA x : x.met)
           /\ of # {} => sum.equity = ReportOf[Max(of)].equity

(* The script tells, day by day, sessions of the week: every one that the  *)
(* topline adds up, or the first ones if the week has more than a script   *)
(* has segments - none is passed over for a later one.                     *)
WeekIsTold ==
    \A c \in Composers :
       LET week == composer[c].week IN
       /\ \A t \in week.told : InWindow(ReportOf[t])
       /\ \A s \in week.of \ week.told :
             Cardinality(week.told) = DaySegments /\ \A t \in week.told : t < s

(* The metadata is the last file of a composition.  Once it is there, every*)
(* file it speaks of is whole and of the same composition, or of a later   *)
(* one that has not got that far, unless two were at work at a time.       *)
DoneIsWhole ==
    shelf["meta"] # Absent =>
       LET c == shelf["meta"].by IN
       composer[c].alone =>
          \A f \in {"script", "voice", "card", "teasers", "episode"} :
             \/ shelf[f].by = c /\ (f # "script" => shelf[f].whole)
             \/ shelf[f].by \in Composers \ {c} /\ composer[shelf[f].by].at # "done"

(* A video id in the metadata is that of a whole video of this very        *)
(* episode, if the mp4 that was sent was of a composition that had         *)
(* finished, with the directory to itself, and no other has finished       *)
(* during the upload (calm).  An upload in the middle of a composition, or *)
(* after one that broke off behind its mux, gives the metadata of the one  *)
(* before it the id of a video it does not describe, cut short maybe.      *)
(* And metadata stamped as uploaded without an id has an upload to show    *)
(* for it.                                                                 *)
VideoIsDescribed ==
    shelf["meta"] # Absent =>
       LET meta == shelf["meta"] IN
       /\ meta.video \in Uploaders =>
            \E v \in channel :
               /\ v.name = meta.video
               /\ uploader[v.name].calm => v.from = meta.by /\ v.whole
       /\ meta.uploaded /\ meta.video = NoVideo =>
            \E u \in Uploaders : uploader[u].at \in {"sending", "sent", "failed"}

(* The podcast is about its week and its files are about one another (the  *)
(* four above).                                                            *)
EpisodeIsOfItsWeek == RollupIsTheWeek /\ WeekIsTold /\ DoneIsWhole /\ VideoIsDescribed
================================================================================
