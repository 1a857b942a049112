----------------------------- MODULE SessionExport -----------------------------
(***************************************************************************)
(* The session runner (session/run.py, replay.py, manifest.py): historical *)
(* days are replayed through an orchestrator of its own, whose rows go to  *)
(* the database of the live one under a session id, and are read back into *)
(* manifest.json.  Several runners, also on one id, and the live process   *)
(* share the database and the directory; a runner can die at any time.     *)
(*                                                                         *)
(* An agent buys one lot while flat and sells it while long.  Prices, the  *)
(* decision notes, the closing snapshots and the rivalries are left out:   *)
(* Beats has the rivalries.                                                *)
(***************************************************************************)
EXTENDS Ordering, Sequences, FiniteSets, SequencesExt

CONSTANTS
    Runners,     \* processes of session.run
    Sids,        \* the session ids they may be given
    Live,        \* the tag of a live row: session_id IS NULL
    CastSize,    \* agents are numbered
    WatchCount,  \* _INTERN_WATCH_COUNT
    Spans,       \* date ranges <<first, last>>
    OpenDays,    \* trading days of the NYSE
    Today,       \* wall-clock date
    MaxLive      \* bound on live trades and rank changes

ASSUME SessionAssumption ==
    /\ Live \notin Sids \cup Runners
    /\ {CastSize, WatchCount, Today, MaxLive} \subseteq Nat
    /\ OpenDays \subseteq Nat /\ Spans \subseteq Nat \X Nat

VARIABLES
    tradeRows,   \* the trades table, a row named by its writer and a number
    interns,     \* the agents whose row has the rank intern
    runner,      \* [Runners -> the state of the process]
    manifest,    \* [Sids -> manifest.json]
    lived        \* live trades and rank changes so far
sessionVars == <<tradeRows, interns, runner, manifest, lived>>

Cast == 1 .. CastSize
NoManifest == [by |-> "nobody"]
NoExtras == [by |-> "nobody"]
NewRunner == [at |-> "new", sid |-> Live, days |-> <<>>, turn |-> 1, count |-> 0,
              long |-> {}, cast |-> {}, found |-> {}, alone |-> TRUE]

SessionTypeOK ==
    /\ \A x \in tradeRows :
          /\ x.sid \in Sids \cup {Live} /\ x.by \in Runners \cup {Live} /\ x.agent \in Cast
    /\ interns \subseteq Cast
    /\ \A p \in Runners :
          /\ runner[p].at \in {"new", "refused", "replay", "merge", "done", "failed", "dead"}
          /\ runner[p].turn \in 1 .. CastSize + 1 /\ runner[p].long \subseteq Cast
          /\ Cardinality(runner[p].cast) <= WatchCount
          /\ ToSet(runner[p].days) \subseteq OpenDays
    /\ lived \in 0 .. MaxLive

SessionInit ==
    /\ tradeRows = {} /\ interns = Cast
    /\ runner = [p \in Runners |-> NewRunner]
    /\ manifest = [s \in Sids |-> NoManifest]
    /\ lived = 0

Alive(p) == runner[p].at \in {"replay", "merge"}
RowsOf(p) == {x \in tradeRows : x.by = p}
Insert(sid, p, a, side) ==
    tradeRows' = tradeRows \cup {[sid |-> sid, by |-> p, n |-> Cardinality(RowsOf(p)),
                                  agent |-> a, side |-> side]}
SideOf(p, a) == IF a \in runner[p].long THEN "sell" ELSE "buy"

-------------------------------------------------------------------------------
(* Up to the loop over the days: a range that begins in the future or has  *)
(* no trading day is refused, and the intern cast is read: when that fails *)
(* it is empty (_snapshot_intern_cast).                                    *)
TradingDays(span) == SortedBy({d \in OpenDays : span[1] <= d /\ d <= span[2]}, <)
LowestRanks_All == interns
LowestRanks == {a \in interns : Cardinality({b \in interns : b < a}) < WatchCount}
Start(p) ==
    /\ runner[p].at = "new"
    /\ \E s \in Sids, span \in Spans, cast \in {LowestRanks, {}} :
         LET others == {o \in Runners : Alive(o) /\ runner[o].sid = s}
             refused == span[1] > Today \/ TradingDays(span) = <<>>
         IN  runner' = [o \in Runners |->
                IF o = p
                  THEN IF refused THEN [NewRunner EXCEPT !.at = "refused", !.sid = s]
                       ELSE [NewRunner EXCEPT !.at = "replay", !.sid = s, !.days = TradingDays(span),
                                              !.cast = cast, !.found = interns,
                                              !.alone = others = {}]
                ELSE IF o \in others /\ ~refused THEN [runner[o] EXCEPT !.alone = FALSE]
                ELSE runner[o]]
    /\ UNCHANGED <<tradeRows, interns, manifest, lived>>

(* run_day: a tick at the close of the day.  An agent trades or does not;  *)
(* a transaction that fails ends the session.                              *)
Turn(p) ==
    /\ runner[p].at = "replay" /\ runner[p].days # <<>> /\ runner[p].turn <= CastSize
    /\ LET a == runner[p].turn
           long == runner[p].long
       IN  \/ /\ runner' = [runner EXCEPT ![p].turn = @ + 1]
              /\ UNCHANGED tradeRows
           \/ /\ runner' = [runner EXCEPT ![p].turn = @ + 1, ![p].count = @ + 1,
                                          ![p].long = (long \cup {a}) \ (long \cap {a})]
              /\ Insert(runner[p].sid, p, a, SideOf(p, a))
           \/ /\ runner' = [runner EXCEPT ![p].at = "failed"]
              /\ UNCHANGED tradeRows
    /\ UNCHANGED <<interns, manifest, lived>>
DayEnds(p) ==
    /\ runner[p].at = "replay" /\ runner[p].days # <<>> /\ runner[p].turn > CastSize
    /\ runner' = [runner EXCEPT ![p].days = Tail(@), ![p].turn = 1]
    /\ UNCHANGED <<tradeRows, interns, manifest, lived>>

(* _build_events_from_db and write_manifest, after the last day. *)
FillEvents(s) == {x \in tradeRows : x.sid = s}
NewExtras_Kept(s) == IF manifest[s] = NoManifest THEN NoExtras ELSE manifest[s].extras
NewExtras(s) == NoExtras
Export(p) ==
    /\ runner[p].at = "replay" /\ runner[p].days = <<>>
    /\ LET s == runner[p].sid IN
       manifest' = [manifest EXCEPT ![s] =
          [by |-> p, fills |-> runner[p].count, events |-> FillEvents(s), extras |-> NewExtras(s)]]
    /\ runner' = [runner EXCEPT ![p].at = "merge"]
    /\ UNCHANGED <<tradeRows, interns, lived>>

(* _merge_manifest_extras: the file is read and written again, whoever has *)
(* written it, with the cast and what the books of this runner hold.       *)
CastCard(p) == runner[p].cast
Merge(p) ==
    /\ runner[p].at = "merge"
    /\ manifest' = [manifest EXCEPT ![runner[p].sid].extras =
          [by |-> p, cast |-> CastCard(p), positions |-> Cardinality(runner[p].long)]]
    /\ runner' = [runner EXCEPT ![p].at = "done"]
    /\ UNCHANGED <<tradeRows, interns, lived>>

Die(p) ==
    /\ Alive(p)
    /\ runner' = [runner EXCEPT ![p].at = "dead"]
    /\ UNCHANGED <<tradeRows, interns, manifest, lived>>

(* The live process meanwhile: a trade of its own, a pass of the academy.  *)
LiveTrade ==
    /\ lived < MaxLive
    /\ \E a \in Cast, side \in {"buy", "sell"} : Insert(Live, Live, a, side)
    /\ lived' = lived + 1
    /\ UNCHANGED <<interns, runner, manifest>>
LiveRank ==
    /\ lived < MaxLive
    /\ \E a \in Cast : interns' = IF a \in interns THEN interns \ {a} ELSE interns \cup {a}
    /\ lived' = lived + 1
    /\ UNCHANGED <<tradeRows, runner, manifest>>

RunnerStep(p) == Start(p) \/ Turn(p) \/ DayEnds(p) \/ Export(p) \/ Merge(p) \/ Die(p)
SessionNext == (\E p \in Runners : RunnerStep(p)) \/ LiveTrade \/ LiveRank
SessionSpec == SessionInit /\ [][SessionNext]_sessionVars

-------------------------------------------------------------------------------
Written(s) == manifest[s] # NoManifest

(* The manifest counts its fills while they happen and lists them from the *)
(* database.  The two agree on the runner's own; what the list has more is *)
(* of a runner that used the same id before or meanwhile, and none of it   *)
(* is live.                                                                *)
FillsAreCounted ==
    \A s \in Sids : Written(s) =>
       LET m == manifest[s] IN
       /\ Cardinality(m.events \cap RowsOf(m.by)) = m.fills
       /\ \A x \in m.events \ RowsOf(m.by) : x.by \in Runners /\ runner[x.by].sid = s

(* A manifest is written twice, the second time with the extras.  It lacks *)
(* them only while its writer is between the two or after it died there,   *)
(* and has those of another only if the two ran at the same time.          *)
ExtrasBelong ==
    \A s \in Sids : Written(s) =>
       LET m == manifest[s] IN
       \/ m.extras.by = m.by
       \/ m.extras = NoExtras /\ runner[m.by].at \in {"merge", "dead"}
       \/ ~runner[m.by].alone

(* The cast card shows the lowest interns of the moment the session began, *)
(* whoever is promoted during it, or none if they could not be read, and   *)
(* the rollup the positions its fills have left open.                      *)
CastIsOfTheStart ==
    \A s \in Sids : Written(s) /\ manifest[s].extras # NoExtras =>
       LET x == manifest[s].extras
           Of(a) == {row \in RowsOf(x.by) : row.agent = a}
       IN  /\ x.cast \subseteq runner[x.by].found
           /\ \A a \in x.cast, b \in runner[x.by].found \ x.cast : a < b
           /\ x.positions = Cardinality({a \in Cast : Cardinality(Of(a)) % 2 = 1})

(* A manifest is of one session: its fills, its extras and its cast (the   *)
(* three above).                                                           *)
ManifestIsOfOneSession == FillsAreCounted /\ ExtrasBelong /\ CastIsOfTheStart
================================================================================
