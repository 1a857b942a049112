----------------------------- MODULE PipelineRuns -----------------------------
(***************************************************************************)
(* Render pipeline runs: the daily VOD scheduler of the orchestrator, its  *)
(* weekly podcast scheduler, the runs operators start over HTTP            *)
(* (api/pipeline.py), the pipeline_runs table that outlives the process,   *)
(* and the process restarts between them.                                  *)
(*                                                                         *)
(* A run is a member of "runs" while its process lives.  A day is a        *)
(* trading day or a Saturday.  The steps of a render, progress events and  *)
(* the webhook are left out.                                               *)
(***************************************************************************)
EXTENDS Integers, Sequences, FiniteSets

CONSTANTS
    CacheSize,    \* maxlen of _RUNS
    WeekOf,       \* [dates -> ISO week]
    Saturdays,    \* dates
    MaxDay,       \* bound on the days of a behaviour
    MaxRuns,      \* bound on its runs
    MaxProcs      \* bound on its processes

ASSUME PipelineRunsAssumption ==
    /\ CacheSize \in Nat \ {0}
    /\ {MaxDay, MaxRuns, MaxProcs} \subseteq Nat
    /\ DOMAIN WeekOf = 0 .. MaxDay /\ Saturdays \subseteq 0 .. MaxDay
    /\ \A d, e \in Saturdays : WeekOf[d] = WeekOf[e] => d = e

RunIds == 1 .. MaxRuns
Dates == 0 .. MaxDay
NoDate == -1      \* a run on a session id, without a date

VARIABLES
    day,          \* today's date, ET
    closed,       \* is it past the cool-off after the close, on a Saturday past the
                  \* podcast hour?
    up,           \* is the process running?
    proc,         \* the number of the process
    bootDay,      \* the day it booted
    vodLoop,      \* run_vod_scheduler: polling, or asleep until tomorrow
    podLoop,      \* run_podcast_scheduler: polling, or asleep until next Saturday
    created,      \* how many runs were created so far
    runs,         \* the runs of this process, in memory
    cache,        \* _RUNS, newest first
    rows          \* the pipeline_runs table
clockVars == <<day, closed>>
procVars == <<up, proc, bootDay>>
loops == <<vodLoop, podLoop>>
vars == <<clockVars, procVars, loops, created, runs, cache, rows>>

Statuses == {"pending", "running", "done", "failed"}
Terminal == {"done", "failed"}
Kinds == {"vod", "podcast", "http"}
EndWrites == {"due", "stored", "lost"}   \* the write of its end to the database
Run == [id : RunIds, kind : Kinds, date : Dates \cup {NoDate}, status : Statuses, write : EndWrites]
(* A row, with the number of the process that wrote it. *)
Row == [id : RunIds, kind : Kinds, date : Dates \cup {NoDate}, status : Statuses,
        live : BOOLEAN, proc : 0 .. MaxProcs]

TypeOK ==
    /\ day \in Dates /\ bootDay \in Dates
    /\ closed \in BOOLEAN /\ up \in BOOLEAN
    /\ proc \in 0 .. MaxProcs
    /\ vodLoop \in {"down", "polling", "asleep"} /\ podLoop \in {"down", "polling", "asleep"}
    /\ created \in 0 .. MaxRuns
    /\ runs \subseteq Run
    /\ cache \in Seq(RunIds) /\ Len(cache) <= CacheSize
    /\ rows \subseteq Row

Init ==
    /\ day = 0 /\ bootDay = 0 /\ closed = FALSE
    /\ up = FALSE /\ proc = 0 /\ vodLoop = "down" /\ podLoop = "down"
    /\ created = 0 /\ runs = {} /\ cache = <<>> /\ rows = {}

-------------------------------------------------------------------------------
(* start_background: live_today is cleared on the rows of all other dates  *)
(* (a row without a date is not equal to today nor different from it, as   *)
(* SQL compares), then the scheduler loops are spawned.                    *)
Swept_AllDates == {[r EXCEPT !.live = FALSE] : r \in rows}
Swept == {[r EXCEPT !.live = @ /\ r.date \in {day, NoDate}] : r \in rows}

Boot ==
    /\ ~up /\ proc < MaxProcs
    /\ up' = TRUE /\ proc' = proc + 1 /\ bootDay' = day
    /\ rows' = Swept
    /\ vodLoop' = "polling" /\ podLoop' = "polling"
    /\ UNCHANGED <<clockVars, created, runs, cache>>

(* The process dies, with all it had in memory. *)
Crash ==
    /\ up
    /\ up' = FALSE
    /\ vodLoop' = "down" /\ podLoop' = "down" /\ runs' = {} /\ cache' = <<>>
    /\ UNCHANGED <<clockVars, proc, bootDay, created, rows>>

NewRun(kind, date) ==
    [id |-> created + 1, kind |-> kind, date |-> date, status |-> "pending", write |-> "due"]
RowOf(r) == [id |-> r.id, kind |-> r.kind, date |-> r.date, status |-> r.status,
             live |-> TRUE, proc |-> proc]

(* live_pipeline_run_for_date *)
LiveRowsFor(date) == {r \in rows : r.date = date /\ r.live}

(* _maybe_fire_vod_run, _kick_vod_run: after the close, unless there is a  *)
(* live row for today, write a pending row and start the runner; the loop  *)
(* then sleeps into tomorrow.  If that row cannot be written nothing has   *)
(* happened, and the loop polls again.                                     *)
DueToday == up /\ vodLoop = "polling" /\ day \notin Saturdays /\ closed
FireVod ==
    /\ DueToday /\ LiveRowsFor(day) = {}
    /\ created < MaxRuns
    /\ created' = created + 1
    /\ runs' = runs \cup {NewRun("vod", day)}
    /\ rows' = rows \cup {RowOf(NewRun("vod", day))}
    /\ vodLoop' = "asleep"
    /\ UNCHANGED <<clockVars, procVars, podLoop, cache>>

(* _maybe_fire_podcast_run, _kick_podcast_run: on a Saturday, unless there *)
(* is a live row for the session of this week.                             *)
LivePodcastRows(week) == {r \in rows : r.kind = "podcast" /\ WeekOf[r.date] = week /\ r.live}
FirePodcast ==
    /\ up /\ podLoop = "polling" /\ day \in Saturdays /\ closed
    /\ LivePodcastRows(WeekOf[day]) = {}
    /\ created < MaxRuns
    /\ created' = created + 1
    /\ runs' = runs \cup {NewRun("podcast", day)}
    /\ rows' = rows \cup {RowOf(NewRun("podcast", day))}
    /\ podLoop' = "asleep"
    /\ UNCHANGED <<clockVars, procVars, vodLoop, cache>>

(* deque(maxlen) *)
Capped(q) == SubSeq(q, 1, IF Len(q) < CacheSize THEN Len(q) ELSE CacheSize)

(* start_run: the run exists in memory only, at the head of the cache.     *)
StartHttpRun(date) ==
    /\ up /\ created < MaxRuns
    /\ created' = created + 1
    /\ runs' = runs \cup {NewRun("http", date)}
    /\ cache' = Capped(<<created + 1>> \o cache)
    /\ UNCHANGED <<clockVars, procVars, loops, rows>>

(* The run starts.  An HTTP run writes nothing to the database here.  What *)
(* _persist_run_state writes for a scheduled one has its times as ISO      *)
(* strings, which a DateTime column refuses; the error is logged and the   *)
(* row stays as it is.                                                     *)
Becomes(r, moved) == runs' = (runs \ {r}) \cup {moved}
RunStarts ==
    /\ \E r \in runs :
         /\ r.status = "pending"
         /\ Becomes(r, [r EXCEPT !.status = "running"])
    /\ UNCHANGED <<clockVars, procVars, loops, created, cache, rows>>

(* The run ends, in memory; the write of its end is awaited after that. *)
RunEnds ==
    /\ \E r \in runs, status \in Terminal :
         /\ r.status = "running"
         /\ Becomes(r, [r EXCEPT !.status = status])
    /\ UNCHANGED <<clockVars, procVars, loops, created, cache, rows>>

(* _ensure_persisted: an HTTP run that has no row gets one.  Any error is  *)
(* logged and forgotten, and so is that of an UPDATE, which is all a       *)
(* scheduled run asks for: _persist_run_state again.                       *)
EnsurePersisted(r) ==
    /\ r.kind = "http" /\ \A q \in rows : q.id # r.id
    /\ rows' = rows \cup {RowOf(r)}
    /\ Becomes(r, [r EXCEPT !.write = "stored"])
NotPersisted(r) ==
    /\ Becomes(r, [r EXCEPT !.write = "lost"])
    /\ UNCHANGED rows
RunSaved ==
    /\ \E r \in runs :
         /\ r.status \in Terminal /\ r.write = "due"
         /\ EnsurePersisted(r) \/ NotPersisted(r)
    /\ UNCHANGED <<clockVars, procVars, loops, created, cache>>

MarketCloses ==
    /\ ~closed
    /\ closed' = TRUE
    /\ UNCHANGED <<day, procVars, loops, created, runs, cache, rows>>

(* Midnight, and 04:00 ET: a sleeping loop polls again. *)
NextDay ==
    /\ closed /\ day < MaxDay
    /\ day' = day + 1
    /\ closed' = FALSE
    /\ vodLoop' = IF up THEN "polling" ELSE "down"
    /\ podLoop' = IF up /\ day + 1 \in Saturdays THEN "polling" ELSE podLoop
    /\ UNCHANGED <<procVars, created, runs, cache, rows>>

Next ==
    \/ Boot \/ Crash \/ FireVod \/ FirePodcast \/ RunStarts \/ RunEnds \/ RunSaved
    \/ MarketCloses \/ NextDay
    \/ \E date \in {day, NoDate} : StartHttpRun(date)

Spec == Init /\ [][Next]_vars

(* GET /pipeline/runs/{id}: the status of the run if it is in the cache,   *)
(* else that of its row, else none: the run is not found.                  *)
Cached == {cache[i] : i \in DOMAIN cache}
GetRun(id) ==
    LET known == IF id \in Cached THEN runs ELSE rows
    IN  {r.status : r \in {r \in known : r.id = id}}

-------------------------------------------------------------------------------
(* However often the process dies and is booted again on a day, the        *)
(* scheduler starts at most one run for it.                                *)
OnePerDay ==
    \A q, r \in rows : q.kind = "vod" /\ r.kind = "vod" /\ q.date = r.date => q.id = r.id

(* And one podcast for a week. *)
OnePerWeek ==
    \A q, r \in rows :
       q.kind = "podcast" /\ r.kind = "podcast" /\ WeekOf[q.date] = WeekOf[r.date] => q.id = r.id

(* "a previous process that died mid-run can't fool this process's         *)
(* idempotency check": of the rows a process inherits as live, only those  *)
(* of the day it booted on can meet the check for a date.                  *)
InheritsTodayOnly ==
    up => \A r \in rows : r.live /\ r.proc # proc => r.date \in {bootDay, NoDate}

(* An operator who asks for a run of his is told how it is.  It is not     *)
(* found only if later runs have pushed it off the cache, and its row has  *)
(* not been written or could not be.                                       *)
RunsAreShown ==
    \A r \in runs : r.kind = "http" =>
       \/ GetRun(r.id) = {r.status}
       \/ GetRun(r.id) = {} /\ r.id \notin Cached /\ r.write # "stored"

(* The end of a run, once it can be seen, is not taken back by a crash, a  *)
(* boot, a sweep or another run: later answers are the same, or the run is *)
(* not found any more, and then only because its end had not been stored.  *)
EndsAreFinal ==
    [][\A id \in 1 .. created : \A status \in GetRun(id) \cap Terminal :
          \/ GetRun(id)' = {status}
          \/ GetRun(id)' = {} /\ \E r \in runs : r.id = id /\ r.write # "stored"]_vars

(* What is on record of the runs can be relied on: one run for a day, one  *)
(* podcast for a week, and answers about a run that are true and final     *)
(* (the properties above).                                                 *)
RunsAreOnRecord ==
    [](OnePerDay /\ OnePerWeek /\ InheritsTodayOnly /\ RunsAreShown) /\ EndsAreFinal
===============================================================================
