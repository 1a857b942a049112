----------------------------- MODULE StreakWatcher -----------------------------
(***************************************************************************)
(* orchestrator/streak_watcher.py: a poll of every agent's latest closed   *)
(* trades that announces winning and losing streaks, agents back from a    *)
(* quiet stretch, and the best and the worst trade of the day.  Streaks    *)
(* are told for as long as they last (once per cooldown), day leaders only *)
(* when they change; the first poll of a day that finds a trade takes the  *)
(* leaders as known.  The journal answers a failed read with no trades, so *)
(* a poll may go on, or take the leaders as known, without some agents.    *)
(* Of the times of the trades the watcher looks at: how many are of today, *)
(* how long ago the latest was, and whether it ended a quiet stretch.      *)
(***************************************************************************)
EXTENDS Cooldowns, SequencesExt

CONSTANTS
    Crew,          \* the agents
    Gains, Losses, \* sizes of realized wins and losses
    WinStreak, LossStreak, HistoryLimit,  \* WIN_STREAK_LEN, LOSS_STREAK_LEN, HISTORY_LIMIT
    QuietGap,      \* QUIET_GAP in time units; FRESH_WINDOW is under one unit
    StCooldown,    \* COOLDOWN in time units
    MaxCloses, MaxDays, MaxStRestarts     \* bounds on trades, midnights, restarts

ASSUME StreakWatcherAssumption ==
    /\ IsFiniteSet(Crew) /\ Gains \cup Losses \subseteq Nat \ {0} /\ HistoryLimit \in Nat
    /\ {WinStreak, LossStreak, QuietGap} \subseteq Nat \ {0}
    /\ {WinStreak, LossStreak} \subseteq 1 .. HistoryLimit
    /\ {StCooldown, MaxCloses, MaxDays, MaxStRestarts} \subseteq Nat

VARIABLES
    trades,       \* agent -> its latest closed trades, newest first
    todays,       \* agent -> how many of them closed today
    sinceLast,    \* agent -> time since the latest, up to QuietGap
    woke,         \* agent -> the latest closed QuietGap or more after the one before
    stFired,      \* _last_fired_at, as ages
    leaders,      \* _bigwin_leader and _bigloss_leader, 0 for None
    seeded,       \* _day_leaders_seeded
    dayOver,      \* _day_anchor is not today
    stAiring,     \* the ids the last step has published
    unpolled,     \* history: agent -> trades closed since a poll last read it
    unread,       \* history: agents no poll has read in this process today
    toldLeaders,  \* history: the leaders announced by this process today
    stCount       \* history: trades, midnights and restarts so far
stVars ==
    <<trades, todays, sinceLast, woke, stFired, leaders, seeded, dayOver, stAiring,
      unpolled, unread, toldLeaders, stCount>>

Trades == [won : BOOLEAN, by : Gains \cup Losses]
StreakIds ==
    ({"win3", "loss5", "awake"} \X Crew) \cup {<<"day", "bigwin">>, <<"day", "bigloss">>}
NoLeaders == [bigwin |-> 0, bigloss |-> 0]
Kinds == {"bigwin", "bigloss"}

StTypeOK ==
    /\ \A a \in Crew : trades[a] \in Seq(Trades) /\ Len(trades[a]) <= HistoryLimit
    /\ \A a \in Crew : {todays[a], unpolled[a]} \subseteq 0 .. Len(trades[a])
    /\ sinceLast \in [Crew -> 0 .. QuietGap] /\ woke \in [Crew -> BOOLEAN]
    /\ stFired \in [StreakIds -> 0 .. StCooldown] /\ stAiring \subseteq StreakIds
    /\ leaders \in [Kinds -> {0} \cup Gains \cup Losses]
    /\ toldLeaders \in [Kinds -> {0} \cup Gains \cup Losses]
    /\ seeded \in BOOLEAN /\ dayOver \in BOOLEAN /\ unread \subseteq Crew

StInit ==
    /\ trades = [a \in Crew |-> <<>>] /\ todays = [a \in Crew |-> 0]
    /\ sinceLast = [a \in Crew |-> 0] /\ woke = [a \in Crew |-> FALSE]
    /\ stFired = Rested(StreakIds, StCooldown)
    /\ leaders = NoLeaders /\ seeded = FALSE /\ dayOver = TRUE
    /\ stAiring = {} /\ toldLeaders = NoLeaders
    /\ unpolled = [a \in Crew |-> 0] /\ unread = Crew
    /\ stCount = [closes |-> 0, days |-> 0, restarts |-> 0]

(* _collect_streak_macros, _collect_awake_macro.                           *)
Streak(a, n, won) == Len(trades[a]) >= n /\ \A i \in 1 .. n : trades[a][i].won = won
AgentMacros(a) ==
    {id \in {<<"win3", a>>, <<"loss5", a>>, <<"awake", a>>} :
        CASE id[1] = "win3"  -> Streak(a, WinStreak, TRUE)
          [] id[1] = "loss5" -> Streak(a, LossStreak, FALSE)
          [] OTHER           -> Len(trades[a]) >= 2 /\ sinceLast[a] = 0 /\ woke[a]}

(* _collect_day_leader_macros: the day's biggest sizes among the agents    *)
(* that could be read, what the cache is worth at this poll                *)
(* (_maybe_reset_day has run), and the new leaders.                        *)
TodaysSizes(read, won) ==
    {size \in Gains \cup Losses :
        \E a \in read : \E i \in 1 .. todays[a] : trades[a][i] = [won |-> won, by |-> size]}
Biggest(read, kind) == Max(TodaysSizes(read, kind = "bigwin") \cup {0})
Cached(kind) == IF dayOver THEN 0 ELSE leaders[kind]
NothingToday(read) == \A a \in read : todays[a] = 0
Outdone_OrEqualled(read, kind) == Biggest(read, kind) > 0 /\ Biggest(read, kind) >= Cached(kind)
Outdone(read, kind) == Biggest(read, kind) > Cached(kind)
Known == seeded /\ ~dayOver
LeaderMacros(read) ==
    IF Known THEN {<<"day", k>> : k \in {j \in Kinds : Outdone(read, j)}} ELSE {}
LeadersNow(read) ==
    [k \in Kinds |-> IF Outdone(read, k) THEN Biggest(read, k) ELSE Cached(k)]

(* check_once, for the agents journal.recent_outcomes could read: of the   *)
(* others it returns no trades.                                            *)
PollOf(read) ==
    LET ids == (UNION {AgentMacros(a) : a \in read}) \cup LeaderMacros(read)
        told == Firing(ids, stFired, StCooldown) IN
    /\ stAiring' = told
    /\ stFired' = Fired(ids, stFired, StCooldown)
    /\ leaders' = LeadersNow(read)
    /\ seeded' = (Known \/ ~NothingToday(read)) /\ dayOver' = FALSE
    /\ unpolled' = [a \in Crew |-> IF a \in read THEN 0 ELSE unpolled[a]]
    /\ unread' = unread \ read
    /\ toldLeaders' =
         [k \in Kinds |-> IF <<"day", k>> \in told THEN Biggest(read, k) ELSE toldLeaders[k]]
    /\ UNCHANGED <<trades, todays, sinceLast, woke, stCount>>
StPolls == \E read \in SUBSET Crew : PollOf(read)

(* journal.close_outcome stamps a trade of an agent.                       *)
Closes(a) ==
    /\ stCount.closes < MaxCloses
    /\ \E won \in BOOLEAN : \E size \in IF won THEN Gains ELSE Losses :
          LET all == <<[won |-> won, by |-> size]>> \o trades[a] IN
          trades' = [trades EXCEPT ![a] = SubSeq(all, 1, Min({Len(all), HistoryLimit}))]
    /\ todays' = [todays EXCEPT ![a] = Min({@ + 1, HistoryLimit})]
    /\ unpolled' = [unpolled EXCEPT ![a] = Min({@ + 1, HistoryLimit})]
    /\ woke' = [woke EXCEPT ![a] = trades[a] # <<>> /\ sinceLast[a] = QuietGap]
    /\ sinceLast' = [sinceLast EXCEPT ![a] = 0]
    /\ stCount' = [stCount EXCEPT !.closes = @ + 1] /\ stAiring' = {}
    /\ UNCHANGED <<stFired, leaders, seeded, dayOver, unread, toldLeaders>>

StTimePasses ==
    /\ stFired' = Older(stFired, StCooldown) /\ sinceLast' = Older(sinceLast, QuietGap)
    /\ stAiring' = {}
    /\ UNCHANGED <<trades, todays, woke, leaders, seeded, dayOver, unpolled, unread, toldLeaders,
                   stCount>>

(* Midnight UTC; the anchor is that of an earlier day until the next poll. *)
Midnight ==
    /\ stCount.days < MaxDays
    /\ todays' = [a \in Crew |-> 0] /\ dayOver' = TRUE
    /\ toldLeaders' = NoLeaders /\ stAiring' = {} /\ unread' = Crew
    /\ stCount' = [stCount EXCEPT !.days = @ + 1]
    /\ UNCHANGED <<trades, sinceLast, woke, stFired, leaders, seeded, unpolled>>

StRestarts ==
    /\ stCount.restarts < MaxStRestarts
    /\ stFired' = Rested(StreakIds, StCooldown)
    /\ leaders' = NoLeaders /\ seeded' = FALSE /\ dayOver' = TRUE
    /\ toldLeaders' = NoLeaders /\ stAiring' = {}
    /\ unpolled' = [a \in Crew |-> 0] /\ unread' = Crew
    /\ stCount' = [stCount EXCEPT !.restarts = @ + 1]
    /\ UNCHANGED <<trades, todays, sinceLast, woke>>

StNext == StPolls \/ StTimePasses \/ Midnight \/ StRestarts \/ \E a \in Crew : Closes(a)

-------------------------------------------------------------------------------
(* A day leader is news: the trade announced closed since a poll last read *)
(* its agent, so nothing from before a restart, from yesterday or from a   *)
(* poll whose announcement the cooldown held back is celebrated late.      *)
(* Only of an agent whose journal no poll of this process could read yet   *)
(* today can an older trade of the day be announced: the leaders were      *)
(* taken as known without it.                                              *)
LeadersAreNews ==
    [][\A k \in Kinds : <<"day", k>> \in stAiring' /\ StPolls =>
          \E a \in Crew : \E i \in 1 .. todays[a] :
             /\ i <= unpolled[a] \/ a \in unread
             /\ trades[a][i] = [won |-> k = "bigwin", by |-> toldLeaders'[k]]]_stVars

(* Within a day a process only announces a bigger leader than it announced *)
(* before, also when the trades between scroll out of the history it reads.*)
LeadersRise ==
    [][\A k \in Kinds : toldLeaders[k] # 0 =>
          toldLeaders'[k] \in {0} \cup {n \in Gains \cup Losses : n >= toldLeaders[k]}
          /\ (<<"day", k>> \in stAiring' /\ StPolls => toldLeaders'[k] > toldLeaders[k])]_stVars

(* A leader that is announced is new, and bigger than the one before it    *)
(* (LeadersAreNews, LeadersRise).                                          *)
LeadersAreRecords == LeadersAreNews /\ LeadersRise
================================================================================
