----------------------------- MODULE StudioProofs -----------------------------
(***************************************************************************)
(* Proofs about the runs of the studio and about what is made of many      *)
(* sessions, for any days, runs, processes, sessions and composers.        *)
(*                                                                         *)
(* What carries the runs is that a scheduler's row of today is live        *)
(* whatever is booted today (TodayIsLive), so that the check before the    *)
(* next run finds it, and that a run gets its row but once (Registered).   *)
(* Of the session runners it is that a manifest is written when its counts *)
(* are final (ManifestFits), of the composers that two at work are both    *)
(* not alone (OneAlone), and that the rollup is a sum over the sorted week *)
(* (SumsFit).  Of the beats it is that every candidate has a score         *)
(* (Scored), that the fold of the twins keeps the best of each (KeptOf),   *)
(* and that the walk holds, after each fill, what the books hold.          *)
(***************************************************************************)
EXTENDS MCProduction, VirtualBookProofs, FoldProofs, SequenceTheorems

RunTypes ==
    /\ day \in Dates /\ bootDay \in Dates
    /\ proc \in 0 .. MaxProcs /\ created \in 0 .. MaxRuns
    /\ runs \subseteq Run /\ rows \subseteq Row /\ cache \in Seq(RunIds)

(* Ids are given out once, to runs and to rows, and an operator's run has  *)
(* no row before its end is stored, and then one that tells it; what is    *)
(* cached are operators' runs.                                             *)
Registered ==
    /\ \A r \in runs \cup rows : r.id <= created
    /\ \A q, r \in rows : q.id = r.id => q = r
    /\ \A q, r \in runs : q.id = r.id => q = r
    /\ \A r \in runs, q \in rows : r.kind = "http" /\ r.write # "stored" => q.id # r.id
    /\ \A r \in runs : r.write = "stored" => \E q \in rows : q.id = r.id /\ q.status = r.status
    /\ \A r \in runs : r.write # "due" => r.status \in Terminal
    /\ \A id \in Cached : \E r \in runs : r.id = id /\ r.kind = "http"

(* No scheduler writes a row for a day to come, and today's is live.       *)
Scheduled(q) == q.kind \in {"vod", "podcast"}
TodayIsLive ==
    \A q \in rows : Scheduled(q) =>
       /\ q.date \in Dates /\ q.date <= day
       /\ q.date = day => q.live
       /\ q.kind = "podcast" => q.date \in Saturdays

RunsInv == /\ RunTypes /\ Registered /\ TodayIsLive
           /\ OnePerDay /\ OnePerWeek /\ InheritsTodayOnly

LEMMA Calendar ==
    /\ MaxDay \in Nat /\ MaxRuns \in Nat /\ MaxProcs \in Nat
    /\ Saturdays \subseteq Dates /\ Dates \subseteq Nat /\ NoDate \notin Dates
    /\ \A d, e \in Saturdays : WeekOf[d] = WeekOf[e] => d = e
<1>1. /\ MaxDay \in Nat /\ MaxRuns \in Nat /\ MaxProcs \in Nat
      /\ Saturdays \subseteq 0 .. MaxDay
      /\ \A d, e \in Saturdays : WeekOf[d] = WeekOf[e] => d = e
  BY PipelineRunsAssumption
<1>2. QED
  BY <1>1 DEF Dates, NoDate

(* What a scheduler's fire and an operator's call have in common. *)
LEMMA NewRunType ==
    ASSUME RunTypes, created < MaxRuns, NEW kind \in Kinds, NEW date \in Dates \cup {NoDate}
    PROVE  /\ created + 1 \in 0 .. MaxRuns
           /\ NewRun(kind, date) \in Run /\ NewRun(kind, date).id = created + 1
           /\ NewRun(kind, date).kind = kind /\ NewRun(kind, date).status = "pending"
           /\ NewRun(kind, date).write = "due"
<1>1. created + 1 \in RunIds /\ created + 1 \in 0 .. MaxRuns
  BY Calendar DEF RunTypes, RunIds
<1>2. QED
  BY <1>1 DEF NewRun, Run, Statuses, EndWrites

LEMMA RowOfType ==
    ASSUME RunTypes, NEW r \in Run
    PROVE  /\ RowOf(r) \in Row
           /\ RowOf(r).id = r.id /\ RowOf(r).kind = r.kind /\ RowOf(r).date = r.date
           /\ RowOf(r).status = r.status /\ RowOf(r).live /\ RowOf(r).proc = proc
  BY DEF RowOf, Run, Row, RunTypes

(* A sweep clears markers and does nothing else to a row. *)
Marked(q) == [q EXCEPT !.live = q.live /\ q.date \in {day, NoDate}]
SameRow(q, r) ==
    r.id = q.id /\ r.kind = q.kind /\ r.date = q.date /\ r.status = q.status /\ r.proc = q.proc

LEMMA SweepOfRow ==
    ASSUME NEW q \in Row
    PROVE  /\ Marked(q) \in Row /\ SameRow(q, Marked(q))
           /\ Marked(q).live = (q.live /\ q.date \in {day, NoDate})
  BY DEF Marked, SameRow, Row

LEMMA SweepKeepsRows ==
    ASSUME rows \subseteq Row
    PROVE  /\ Swept \subseteq Row
           /\ \A r \in Swept : \E q \in rows :
                 SameRow(q, r) /\ r.live = (q.live /\ q.date \in {day, NoDate})
           /\ \A q \in rows : \E r \in Swept : SameRow(q, r) /\ (r.live => q.live)
<1>1. Swept = {Marked(q) : q \in rows}
  BY DEF Swept, Marked
<1>2. \A q \in rows :
         /\ Marked(q) \in Row /\ SameRow(q, Marked(q))
         /\ Marked(q).live = (q.live /\ q.date \in {day, NoDate})
  BY SweepOfRow
<1>3. \A r \in Swept : \E q \in rows : r = Marked(q)
  BY <1>1
<1>4. \A q \in rows : Marked(q) \in Swept
  BY <1>1
<1>5. Swept \subseteq Row
  BY <1>2, <1>3
<1>6. \A r \in Swept : \E q \in rows :
         SameRow(q, r) /\ r.live = (q.live /\ q.date \in {day, NoDate})
  BY <1>2, <1>3
<1>7. \A q \in rows : \E r \in Swept : SameRow(q, r) /\ (r.live => q.live)
  BY <1>2, <1>4
<1>8. QED
  BY <1>5, <1>6, <1>7

(* What is promised of a step: a row and the end of a run stay, unless the *)
(* process and its cache are gone, and only new runs are cached.           *)
RowsKept == \A q \in rows : \E r \in rows' : r.id = q.id /\ r.status = q.status
EndsKept ==
    \/ Cached' = {}
    \/ \A r \in runs : r.status \in Terminal => \E p \in runs' : p.id = r.id /\ p.status = r.status
RecordKept ==
    /\ RowsKept /\ EndsKept
    /\ Cached' \subseteq Cached \cup {created + 1}
    /\ Cached' = Cached \/ rows' = rows

LEMMA OnlyAdds ==
    ASSUME rows \subseteq rows', runs \subseteq runs', cache' = cache
    PROVE  RecordKept /\ Cached' = Cached
  BY DEF RecordKept, RowsKept, EndsKept, Cached

(* The cache never exceeds its capacity, and nothing new appears in it. *)
LEMMA CappedFits ==
    ASSUME NEW q \in Seq(RunIds)
    PROVE  /\ Capped(q) \in Seq(RunIds) /\ Len(Capped(q)) <= CacheSize
           /\ {Capped(q)[i] : i \in DOMAIN Capped(q)} \subseteq {q[i] : i \in DOMAIN q}
<1> DEFINE k == IF Len(q) < CacheSize THEN Len(q) ELSE CacheSize
<1>1. CacheSize \in Nat \ {0} /\ Len(q) \in Nat
  BY PipelineRunsAssumption
<1>2. k \in Nat /\ k <= Len(q) /\ k <= CacheSize
  BY <1>1
<1>3. Capped(q) = SubSeq(q, 1, k)
  BY DEF Capped
<1> HIDE DEF k
<1>4. /\ SubSeq(q, 1, k) \in Seq(RunIds) /\ Len(SubSeq(q, 1, k)) = k
      /\ \A i \in DOMAIN SubSeq(q, 1, k) : i \in DOMAIN q /\ SubSeq(q, 1, k)[i] = q[i]
  <2>1. \A i \in 1 .. k : i \in 1 .. Len(q) /\ q[i] \in RunIds
    BY <1>1, <1>2
  <2>2. SubSeq(q, 1, k) = [i \in 1 .. k |-> q[i]]
    BY <1>1, <1>2, <2>1
  <2>3. [i \in 1 .. k |-> q[i]] \in Seq(RunIds) /\ Len([i \in 1 .. k |-> q[i]]) = k
    BY <1>2, <2>1
  <2>4. DOMAIN q = 1 .. Len(q)
    OBVIOUS
  <2>5. QED
    BY <2>1, <2>2, <2>3, <2>4
<1>5. QED
  BY <1>2, <1>3, <1>4

LEMMA CachesOneMore ==
    ASSUME NEW n \in RunIds, cache \in Seq(RunIds), cache' = Capped(<<n>> \o cache)
    PROVE  cache' \in Seq(RunIds) /\ Cached' \subseteq Cached \cup {n}
<1> DEFINE q == <<n>> \o cache
<1>1. <<n>> \in Seq(RunIds) /\ Len(<<n>>) = 1 /\ <<n>>[1] = n
  OBVIOUS
<1>2. /\ q \in Seq(RunIds) /\ Len(q) = 1 + Len(cache) /\ Len(cache) \in Nat
      /\ \A i \in 1 .. 1 + Len(cache) : q[i] = IF i <= 1 THEN <<n>>[i] ELSE cache[i - 1]
  BY <1>1, ConcatProperties, LenProperties
<1>3. DOMAIN q = 1 .. 1 + Len(cache) /\ DOMAIN cache = 1 .. Len(cache)
  BY <1>2, LenProperties
<1> HIDE DEF q
<1>4. \A i \in DOMAIN q : q[i] = n \/ \E j \in DOMAIN cache : q[i] = cache[j]
  <2> SUFFICES ASSUME NEW i \in DOMAIN q, i # 1 PROVE \E j \in DOMAIN cache : q[i] = cache[j]
    BY <1>1, <1>2, <1>3
  <2>1. i - 1 \in DOMAIN cache /\ q[i] = cache[i - 1]
    BY <1>2, <1>3
  <2>2. QED
    BY <2>1
<1>5. {q[i] : i \in DOMAIN q} \subseteq Cached \cup {n}
  BY <1>4 DEF Cached
<1>6. QED
  BY <1>2, <1>5, CappedFits DEF q, Cached

LEMMA RunsInit_Inv == ASSUME Init PROVE RunsInv
<1>1. RunTypes /\ Registered /\ TodayIsLive
  BY Calendar DEF Init, RunTypes, Registered, TodayIsLive, Dates, Cached
<1>2. OnePerDay /\ OnePerWeek /\ InheritsTodayOnly
  BY DEF Init, OnePerDay, OnePerWeek, InheritsTodayOnly
<1>3. QED
  BY <1>1, <1>2 DEF RunsInv

LEMMA Boot_Inv == ASSUME RunsInv, Boot PROVE RunsInv' /\ RecordKept
<1>1. RunTypes /\ Registered /\ TodayIsLive /\ OnePerDay /\ OnePerWeek
  BY DEF RunsInv
<1>2. /\ rows' = Swept /\ runs' = runs /\ cache' = cache /\ created' = created /\ day' = day
      /\ bootDay' = day /\ proc' = proc + 1 /\ proc < MaxProcs
  BY DEF Boot, clockVars
<1>3. rows \subseteq Row
  BY <1>1 DEF RunTypes
<1>4. /\ rows' \subseteq Row
      /\ \A r \in rows' : \E q \in rows :
            SameRow(q, r) /\ r.live = (q.live /\ q.date \in {day, NoDate})
      /\ \A q \in rows : \E r \in rows' : SameRow(q, r) /\ (r.live => q.live)
  BY <1>2, <1>3, SweepKeepsRows
<1>5. RunTypes'
  BY <1>1, <1>2, <1>4, Calendar DEF RunTypes, Dates, Run
<1>6. Registered'
  <2>1. \A r \in runs' \cup rows' : r.id <= created'
    BY <1>1, <1>2, <1>4 DEF Registered, SameRow
  <2>2. ASSUME NEW q \in rows', NEW r \in rows', q.id = r.id PROVE q = r
    <3>1. PICK p \in rows : SameRow(p, q) /\ q.live = (p.live /\ p.date \in {day, NoDate})
      BY <1>4
    <3>2. PICK o \in rows : SameRow(o, r) /\ r.live = (o.live /\ o.date \in {day, NoDate})
      BY <1>4
    <3>3. p = o
      <4>1. p.id = o.id
        BY <2>2, <3>1, <3>2 DEF SameRow
      <4>2. QED
        BY <1>1, <4>1 DEF Registered
    <3>4. q \in Row /\ r \in Row
      BY <1>4
    <3>5. /\ q.id = r.id /\ q.kind = r.kind /\ q.date = r.date /\ q.status = r.status
          /\ q.live = r.live /\ q.proc = r.proc
      BY <3>1, <3>2, <3>3 DEF SameRow
    <3>6. QED
      BY <3>4, <3>5 DEF Row
  <2>3. /\ \A q, r \in runs' : q.id = r.id => q = r
        /\ \A r \in runs', q \in rows' : r.kind = "http" /\ r.write # "stored" => q.id # r.id
        /\ \A r \in runs' : r.write # "due" => r.status \in Terminal
    BY <1>1, <1>2, <1>4 DEF Registered, SameRow
  <2>4. \A r \in runs' : r.write = "stored" => \E q \in rows' : q.id = r.id /\ q.status = r.status
    <3> SUFFICES ASSUME NEW r \in runs, r.write = "stored"
                 PROVE  \E q \in rows' : q.id = r.id /\ q.status = r.status
      BY <1>2
    <3>1. PICK q \in rows : q.id = r.id /\ q.status = r.status
      BY <1>1 DEF Registered
    <3>2. PICK p \in rows' : SameRow(q, p)
      BY <1>4
    <3>3. QED
      BY <3>1, <3>2 DEF SameRow
  <2>5. \A id \in Cached' : \E r \in runs' : r.id = id /\ r.kind = "http"
    BY <1>1, <1>2 DEF Registered, Cached
  <2>6. QED
    BY <2>1, <2>2, <2>3, <2>4, <2>5 DEF Registered
<1>7. TodayIsLive'
  <2> SUFFICES ASSUME NEW r \in rows', Scheduled(r)
               PROVE  /\ r.date \in Dates /\ r.date <= day
                      /\ r.date = day => r.live
                      /\ r.kind = "podcast" => r.date \in Saturdays
    BY <1>2 DEF TodayIsLive, Scheduled
  <2>1. PICK q \in rows : SameRow(q, r) /\ r.live = (q.live /\ q.date \in {day, NoDate})
    BY <1>4
  <2>2. Scheduled(q) /\ q.date = r.date /\ q.kind = r.kind
    BY <2>1 DEF SameRow, Scheduled
  <2>3. /\ q.date \in Dates /\ q.date <= day
        /\ q.date = day => q.live
        /\ q.kind = "podcast" => q.date \in Saturdays
    BY <1>1, <2>2 DEF TodayIsLive
  <2>4. QED
    BY <2>1, <2>2, <2>3
<1>8. OnePerDay' /\ OnePerWeek'
  BY <1>1, <1>4 DEF OnePerDay, OnePerWeek, SameRow
<1>9. InheritsTodayOnly'
  BY <1>2, <1>4 DEF InheritsTodayOnly, SameRow
<1>10. RecordKept
  BY <1>2, <1>4 DEF RecordKept, RowsKept, EndsKept, SameRow, Cached
<1>11. QED
  BY <1>5, <1>6, <1>7, <1>8, <1>9, <1>10 DEF RunsInv

LEMMA Crash_Inv == ASSUME RunsInv, Crash PROVE RunsInv' /\ RecordKept
<1>1. RunTypes /\ Registered /\ TodayIsLive /\ OnePerDay /\ OnePerWeek
  BY DEF RunsInv
<1>2. /\ runs' = {} /\ cache' = <<>> /\ up' = FALSE /\ rows' = rows /\ created' = created /\ day' = day
      /\ bootDay' = bootDay /\ proc' = proc
  BY DEF Crash, clockVars
<1>3. RunTypes' /\ Registered' /\ TodayIsLive' /\ Cached' = {}
  BY <1>1, <1>2 DEF RunTypes, Registered, TodayIsLive, Cached
<1>4. OnePerDay' /\ OnePerWeek' /\ InheritsTodayOnly'
  BY <1>1, <1>2 DEF OnePerDay, OnePerWeek, InheritsTodayOnly
<1>5. RecordKept
  BY <1>2, <1>3 DEF RecordKept, RowsKept, EndsKept
<1>6. QED
  BY <1>3, <1>4, <1>5 DEF RunsInv

LEMMA MarketCloses_Inv == ASSUME RunsInv, MarketCloses PROVE RunsInv' /\ RecordKept
<1>1. UNCHANGED <<day, bootDay, proc, up, created, runs, cache, rows>>
  BY DEF MarketCloses, procVars
<1>2. (RunTypes /\ Registered /\ TodayIsLive)'
  BY <1>1 DEF RunsInv, RunTypes, Registered, TodayIsLive, Cached
<1>3. (OnePerDay /\ OnePerWeek /\ InheritsTodayOnly)'
  BY <1>1 DEF RunsInv, OnePerDay, OnePerWeek, InheritsTodayOnly
<1>4. QED
  BY <1>1, <1>2, <1>3, OnlyAdds DEF RunsInv

LEMMA NextDay_Inv == ASSUME RunsInv, NextDay PROVE RunsInv' /\ RecordKept
<1>1. /\ UNCHANGED <<bootDay, proc, up, created, runs, cache, rows>>
      /\ day' = day + 1 /\ day < MaxDay
  BY DEF NextDay, procVars
<1>2. RunTypes' /\ Registered'
  BY <1>1, Calendar DEF RunsInv, RunTypes, Registered, Dates, Cached
<1>3. TodayIsLive'
  BY <1>1, Calendar DEF RunsInv, RunTypes, TodayIsLive, Dates
<1>4. (OnePerDay /\ OnePerWeek /\ InheritsTodayOnly)'
  BY <1>1 DEF RunsInv, OnePerDay, OnePerWeek, InheritsTodayOnly
<1>5. QED
  BY <1>1, <1>2, <1>3, <1>4, OnlyAdds DEF RunsInv

(* A scheduler's fire: a run and its row, on a date for which the check    *)
(* found no live row.                                                      *)
LEMMA Fire_Inv ==
    ASSUME RunsInv, NEW kind \in {"vod", "podcast"}, created < MaxRuns,
           created' = created + 1,
           runs' = runs \cup {NewRun(kind, day)},
           rows' = rows \cup {RowOf(NewRun(kind, day))},
           UNCHANGED <<day, bootDay, proc, up, cache>>,
           kind = "podcast" => day \in Saturdays,
           \A q \in rows : q.kind = kind /\ q.date = day => ~q.live
    PROVE  RunsInv' /\ RecordKept
<1> DEFINE new == NewRun(kind, day)
<1>1. /\ RunTypes /\ Registered /\ TodayIsLive /\ OnePerDay /\ OnePerWeek
      /\ InheritsTodayOnly
  BY DEF RunsInv
<1>2. /\ new \in Run /\ new.id = created + 1 /\ new.kind = kind /\ new.date = day
      /\ new.write = "due" /\ created + 1 \in 0 .. MaxRuns
  BY <1>1, NewRunType DEF RunTypes, Kinds, NewRun
<1>3. /\ RowOf(new) \in Row /\ RowOf(new).id = created + 1 /\ RowOf(new).kind = kind
      /\ RowOf(new).date = day /\ RowOf(new).live /\ RowOf(new).proc = proc
  BY <1>1, <1>2, RowOfType
<1> HIDE DEF new
<1>4. runs' = runs \cup {new} /\ rows' = rows \cup {RowOf(new)}
  BY DEF new
<1>5. \A q \in rows : q.kind = kind => q.date # day
  BY <1>1 DEF TodayIsLive, Scheduled
<1>6. /\ created \in Nat /\ \A r \in runs \cup rows : r.id \in Nat
      /\ \A r \in runs \cup rows : r.id < created + 1
  BY <1>1, Calendar DEF RunTypes, Registered, Run, Row, RunIds
<1>7. RunTypes'
  BY <1>1, <1>2, <1>3, <1>4 DEF RunTypes
<1>8. Registered'
  <2>1. \A r \in runs' \cup rows' : r.id <= created'
    BY <1>2, <1>3, <1>4, <1>6
  <2>2. \A q, r \in rows' : q.id = r.id => q = r
    BY <1>1, <1>3, <1>4, <1>6 DEF Registered
  <2>3. \A q, r \in runs' : q.id = r.id => q = r
    BY <1>1, <1>2, <1>4, <1>6 DEF Registered
  <2>4. ASSUME NEW r \in runs', NEW q \in rows', r.kind = "http", r.write # "stored"
        PROVE  q.id # r.id
    <3>1. r \in runs
      BY <1>2, <1>4, <2>4
    <3>2. QED
      BY <1>1, <1>3, <1>4, <1>6, <2>4, <3>1 DEF Registered
  <2>5. /\ \A r \in runs' : r.write = "stored" => \E q \in rows' : q.id = r.id /\ q.status = r.status
        /\ \A r \in runs' : r.write # "due" => r.status \in Terminal
    BY <1>1, <1>2, <1>4 DEF Registered
  <2>6. \A id \in Cached' : \E r \in runs' : r.id = id /\ r.kind = "http"
    BY <1>1, <1>4 DEF Registered, Cached
  <2>7. QED
    BY <2>1, <2>2, <2>3, <2>4, <2>5, <2>6 DEF Registered
<1>9. TodayIsLive'
  <2>1. day \in Dates /\ day <= day
    BY <1>1, Calendar DEF RunTypes
  <2>2. QED
    BY <1>1, <1>3, <1>4, <2>1 DEF TodayIsLive, Scheduled
<1>10. OnePerDay'
  BY <1>1, <1>3, <1>4, <1>5 DEF OnePerDay
<1>11. OnePerWeek'
  <2> SUFFICES ASSUME NEW q \in rows', NEW r \in rows', q.kind = "podcast",
                      r.kind = "podcast", WeekOf[q.date] = WeekOf[r.date]
               PROVE  q.id = r.id
    BY DEF OnePerWeek
  <2>1. q.date \in Saturdays /\ r.date \in Saturdays
    BY <1>9 DEF TodayIsLive, Scheduled
  <2>2. q.date = r.date
    BY <2>1, Calendar
  <2>3. CASE q \in rows /\ r \in rows
    BY <1>1, <2>3 DEF OnePerWeek
  <2>4. CASE q \notin rows \/ r \notin rows
    BY <1>3, <1>4, <1>5, <2>2, <2>4
  <2>5. QED
    BY <2>3, <2>4
<1>12. InheritsTodayOnly'
  BY <1>1, <1>3, <1>4 DEF InheritsTodayOnly
<1>13. RecordKept
  BY <1>4, OnlyAdds
<1>14. QED
  BY <1>7, <1>8, <1>9, <1>10, <1>11, <1>12, <1>13 DEF RunsInv

LEMMA FireVod_Inv == ASSUME RunsInv, FireVod PROVE RunsInv' /\ RecordKept
<1>1. \A q \in rows : q.kind = "vod" /\ q.date = day => ~q.live
  BY DEF FireVod, LiveRowsFor
<1>2. QED
  BY <1>1, Fire_Inv DEF FireVod, clockVars, procVars

LEMMA FirePodcast_Inv == ASSUME RunsInv, FirePodcast PROVE RunsInv' /\ RecordKept
<1>1. \A q \in rows : q.kind = "podcast" /\ q.date = day => ~q.live
  BY DEF FirePodcast, LivePodcastRows
<1>2. QED
  BY <1>1, Fire_Inv DEF FirePodcast, clockVars, procVars

LEMMA StartHttpRun_Inv ==
    ASSUME RunsInv, NEW date \in {day, NoDate}, StartHttpRun(date)
    PROVE  RunsInv' /\ RecordKept
<1> DEFINE new == NewRun("http", date)
<1>1. /\ RunTypes /\ Registered /\ TodayIsLive /\ OnePerDay /\ OnePerWeek
      /\ InheritsTodayOnly
  BY DEF RunsInv
<1>2. /\ created < MaxRuns /\ created' = created + 1 /\ runs' = runs \cup {new}
      /\ UNCHANGED <<day, bootDay, proc, up, rows>>
  BY DEF StartHttpRun, clockVars, procVars
<1>3. /\ new \in Run /\ new.id = created + 1 /\ new.kind = "http" /\ new.write = "due"
      /\ created + 1 \in 0 .. MaxRuns
  BY <1>1, <1>2, NewRunType DEF RunTypes, Kinds
<1> HIDE DEF new
<1>4. /\ created \in Nat /\ \A r \in runs \cup rows : r.id \in Nat
      /\ \A r \in runs \cup rows : r.id < created + 1
  BY <1>1, Calendar DEF RunTypes, Registered, Run, Row, RunIds
<1>8. cache' \in Seq(RunIds) /\ Cached' \subseteq Cached \cup {created + 1}
  <2>1. created + 1 \in RunIds /\ cache \in Seq(RunIds)
    BY <1>1, <1>2, <1>4, Calendar DEF RunIds, RunTypes
  <2>2. QED
    BY <2>1, CachesOneMore DEF StartHttpRun
<1>5. RunTypes'
  BY <1>1, <1>2, <1>3, <1>8 DEF RunTypes
<1>6. Registered'
  <2>1. \A r \in runs' \cup rows' : r.id <= created'
    BY <1>2, <1>3, <1>4
  <2>2. \A q, r \in runs' : q.id = r.id => q = r
    BY <1>1, <1>2, <1>3, <1>4 DEF Registered
  <2>3. /\ \A r \in runs', q \in rows' : r.kind = "http" /\ r.write # "stored" => q.id # r.id
        /\ \A r \in runs' : r.write = "stored" => \E q \in rows' : q.id = r.id /\ q.status = r.status
        /\ \A r \in runs' : r.write # "due" => r.status \in Terminal
    BY <1>1, <1>2, <1>3, <1>4 DEF Registered
  <2>4. \A id \in Cached' : \E r \in runs' : r.id = id /\ r.kind = "http"
    BY <1>1, <1>2, <1>3, <1>8 DEF Registered
  <2>5. QED
    BY <1>1, <1>2, <2>1, <2>2, <2>3, <2>4 DEF Registered
<1>7. (TodayIsLive /\ OnePerDay /\ OnePerWeek /\ InheritsTodayOnly)'
  BY <1>1, <1>2 DEF TodayIsLive, OnePerDay, OnePerWeek, InheritsTodayOnly
<1>9. RecordKept
  BY <1>2, <1>8 DEF RecordKept, RowsKept, EndsKept
<1>10. QED
  BY <1>5, <1>6, <1>7, <1>9 DEF RunsInv

(* A run goes on: it takes on another status or its end is written.        *)
LEMMA Moves_Inv ==
    ASSUME RunsInv, NEW r \in runs, NEW moved \in Run, Becomes(r, moved), rows \subseteq rows',
           moved.id = r.id, moved.kind = r.kind,
           r.status \in Terminal => moved.status = r.status,
           moved.write # "due" => moved.status \in Terminal,
           r.write # "stored",
           \/ rows' = rows /\ moved.write # "stored"
           \/ /\ r.kind = "http" /\ rows' = rows \cup {RowOf(r)}
              /\ moved.status = r.status /\ moved.write = "stored",
           UNCHANGED <<day, bootDay, proc, up, created, cache>>
    PROVE  RunsInv' /\ RecordKept
<1>1. RunTypes /\ Registered /\ TodayIsLive /\ OnePerDay /\ OnePerWeek /\ InheritsTodayOnly
  BY DEF RunsInv
<1>2. /\ r \in Run /\ runs' = (runs \ {r}) \cup {moved} /\ Cached' = Cached
      /\ \A p, q \in runs' : p.id = q.id => p = q
  BY <1>1 DEF RunTypes, Registered, Becomes, Cached
<1>3. /\ \A p \in runs' : p.write # "due" => p.status \in Terminal
      /\ \A id \in Cached' : \E p \in runs' : p.id = id /\ p.kind = "http"
  BY <1>1, <1>2 DEF Registered
<1>4. RecordKept
  BY <1>2 DEF RecordKept, RowsKept, EndsKept
<1>5. CASE rows' = rows /\ moved.write # "stored"
  <2>1. RunTypes'
    BY <1>1, <1>2, <1>5 DEF RunTypes
  <2>2. Registered'
    BY <1>1, <1>2, <1>3, <1>5 DEF Registered
  <2>3. (TodayIsLive /\ OnePerDay /\ OnePerWeek /\ InheritsTodayOnly)'
    BY <1>1, <1>5 DEF TodayIsLive, OnePerDay, OnePerWeek, InheritsTodayOnly
  <2>4. QED
    BY <1>4, <2>1, <2>2, <2>3 DEF RunsInv
<1>6. CASE /\ r.kind = "http" /\ rows' = rows \cup {RowOf(r)}
           /\ moved.status = r.status /\ moved.write = "stored"
  <2> DEFINE row == RowOf(r)
  <2>1. /\ row \in Row /\ row.id = r.id /\ row.kind = r.kind /\ row.status = r.status
        /\ row.proc = proc /\ rows' = rows \cup {row}
    BY <1>1, <1>2, <1>6, RowOfType
  <2> HIDE DEF row
  <2>2. \A q \in rows : q.id # r.id
    BY <1>1, <1>6 DEF Registered
  <2>3. RunTypes'
    BY <1>1, <1>2, <2>1 DEF RunTypes
  <2>4. Registered'
    <3>1. \A q \in runs' \cup rows' : q.id <= created'
      BY <1>1, <1>2, <2>1 DEF Registered
    <3>2. \A p, q \in rows' : p.id = q.id => p = q
      BY <1>1, <2>1, <2>2 DEF Registered
    <3>3. ASSUME NEW p \in runs', NEW q \in rows', p.kind = "http", p.write # "stored", q.id = p.id
          PROVE  moved.write # "stored" /\ p = moved
      BY <1>1, <1>2, <2>1, <3>3 DEF Registered
    <3>4. moved.write = "stored"
      BY <1>6
    <3>5. \A p \in runs' : p.write = "stored" => \E q \in rows' : q.id = p.id /\ q.status = p.status
      BY <1>1, <1>2, <1>6, <2>1 DEF Registered
    <3>6. QED
      BY <1>2, <1>3, <3>1, <3>2, <3>3, <3>4, <3>5 DEF Registered
  <2>5. (TodayIsLive /\ OnePerDay /\ OnePerWeek)'
    BY <1>1, <1>6, <2>1 DEF TodayIsLive, Scheduled, OnePerDay, OnePerWeek
  <2>6. InheritsTodayOnly'
    BY <1>1, <2>1 DEF InheritsTodayOnly
  <2>7. QED
    BY <1>4, <2>3, <2>4, <2>5, <2>6 DEF RunsInv
<1>7. QED
  BY <1>5, <1>6

LEMMA RunStarts_Inv == ASSUME RunsInv, RunStarts PROVE RunsInv' /\ RecordKept
<1>1. PICK r \in runs : r.status = "pending" /\ Becomes(r, [r EXCEPT !.status = "running"])
  BY DEF RunStarts
<1> DEFINE moved == [r EXCEPT !.status = "running"]
<1>2. r \in Run /\ (r.write # "due" => r.status \in Terminal)
  BY DEF RunsInv, RunTypes, Registered
<1>3. /\ moved \in Run /\ moved.id = r.id /\ moved.kind = r.kind /\ moved.write = r.write
      /\ r.write = "due" /\ r.status \notin Terminal
  BY <1>1, <1>2 DEF Run, Statuses, Terminal
<1>4. UNCHANGED <<day, bootDay, proc, up, created, cache, rows>>
  BY DEF RunStarts, clockVars, procVars
<1> HIDE DEF moved
<1>5. QED
  BY <1>1, <1>3, <1>4, Moves_Inv DEF moved

LEMMA RunEnds_Inv == ASSUME RunsInv, RunEnds PROVE RunsInv' /\ RecordKept
<1>1. PICK r \in runs, status \in Terminal :
         r.status = "running" /\ Becomes(r, [r EXCEPT !.status = status])
  BY DEF RunEnds
<1> DEFINE moved == [r EXCEPT !.status = status]
<1>2. r \in Run /\ (r.write # "due" => r.status \in Terminal)
  BY DEF RunsInv, RunTypes, Registered
<1>3. /\ moved \in Run /\ moved.id = r.id /\ moved.kind = r.kind /\ moved.write = r.write
      /\ r.write = "due" /\ r.status \notin Terminal
  BY <1>1, <1>2 DEF Run, Statuses, Terminal
<1>4. UNCHANGED <<day, bootDay, proc, up, created, cache, rows>>
  BY DEF RunEnds, clockVars, procVars
<1> HIDE DEF moved
<1>5. QED
  BY <1>1, <1>3, <1>4, Moves_Inv DEF moved

LEMMA RunSaved_Inv == ASSUME RunsInv, RunSaved PROVE RunsInv' /\ RecordKept
<1>1. PICK r \in runs : /\ r.status \in Terminal /\ r.write = "due"
                        /\ EnsurePersisted(r) \/ NotPersisted(r)
  BY DEF RunSaved
<1>2. r \in Run /\ UNCHANGED <<day, bootDay, proc, up, created, cache>>
  BY DEF RunSaved, RunsInv, RunTypes, clockVars, procVars
<1>3. ASSUME NEW w \in EndWrites
      PROVE  /\ [r EXCEPT !.write = w] \in Run /\ [r EXCEPT !.write = w].id = r.id
             /\ [r EXCEPT !.write = w].kind = r.kind /\ [r EXCEPT !.write = w].status = r.status
             /\ [r EXCEPT !.write = w].write = w
  BY <1>2 DEF Run
<1>4. CASE EnsurePersisted(r)
  <2> DEFINE moved == [r EXCEPT !.write = "stored"]
  <2>1. /\ moved \in Run /\ moved.id = r.id /\ moved.kind = r.kind /\ moved.status = r.status
        /\ moved.write = "stored"
    BY <1>3 DEF EndWrites
  <2>2. r.kind = "http" /\ rows' = rows \cup {RowOf(r)} /\ Becomes(r, moved)
    BY <1>4 DEF EnsurePersisted
  <2> HIDE DEF moved
  <2>3. QED
    BY <1>1, <1>2, <2>1, <2>2, Moves_Inv
<1>5. CASE NotPersisted(r)
  <2> DEFINE moved == [r EXCEPT !.write = "lost"]
  <2>1. /\ moved \in Run /\ moved.id = r.id /\ moved.kind = r.kind /\ moved.status = r.status
        /\ moved.write = "lost"
    BY <1>3 DEF EndWrites
  <2>2. rows' = rows /\ Becomes(r, moved)
    BY <1>5 DEF NotPersisted
  <2> HIDE DEF moved
  <2>3. QED
    BY <1>1, <1>2, <2>1, <2>2, Moves_Inv
<1>6. QED
  BY <1>1, <1>4, <1>5

LEMMA RunsStutter_Inv == ASSUME RunsInv, UNCHANGED vars PROVE RunsInv'
<1>1. UNCHANGED <<day, bootDay, proc, up, created, runs, cache, rows>>
  BY DEF vars, clockVars, procVars
<1>2. (RunTypes /\ Registered /\ TodayIsLive)'
  BY <1>1 DEF RunsInv, RunTypes, Registered, TodayIsLive, Cached
<1>3. (OnePerDay /\ OnePerWeek /\ InheritsTodayOnly)'
  BY <1>1 DEF RunsInv, OnePerDay, OnePerWeek, InheritsTodayOnly
<1>4. QED
  BY <1>2, <1>3 DEF RunsInv

LEMMA RunsNext_Inv == ASSUME RunsInv, Next PROVE RunsInv' /\ RecordKept
  BY Boot_Inv, Crash_Inv, FireVod_Inv, FirePodcast_Inv, RunStarts_Inv, RunEnds_Inv, RunSaved_Inv,
     MarketCloses_Inv, NextDay_Inv, StartHttpRun_Inv DEF Next

(* What GET finds of an id: the one run there is in memory, or the row. *)
Found(memory, table, hot, id) ==
    {r.status : r \in {r \in (IF id \in hot THEN memory ELSE table) : r.id = id}}

LEMMA FoundIs ==
    ASSUME NEW memory, NEW table, NEW hot, NEW id
    PROVE  /\ \A r \in memory :
                 r.id = id /\ id \in hot /\ (\A q \in memory : q.id = r.id => q = r) =>
                    Found(memory, table, hot, id) = {r.status}
           /\ \A r \in table :
                 r.id = id /\ id \notin hot /\ (\A q \in table : q.id = r.id => q = r) =>
                    Found(memory, table, hot, id) = {r.status}
           /\ id \notin hot /\ (\A q \in table : q.id # id) => Found(memory, table, hot, id) = {}
<1>1. ASSUME NEW r \in memory, r.id = id, id \in hot, \A q \in memory : q.id = r.id => q = r
      PROVE  Found(memory, table, hot, id) = {r.status}
  <2>1. {q \in memory : q.id = id} = {r}
    BY <1>1
  <2>2. QED
    BY <1>1, <2>1 DEF Found
<1>2. ASSUME NEW r \in table, r.id = id, id \notin hot, \A q \in table : q.id = r.id => q = r
      PROVE  Found(memory, table, hot, id) = {r.status}
  <2>1. {q \in table : q.id = id} = {r}
    BY <1>2
  <2>2. QED
    BY <1>2, <2>1 DEF Found
<1>3. ASSUME id \notin hot, \A q \in table : q.id # id PROVE Found(memory, table, hot, id) = {}
  BY <1>3 DEF Found
<1>4. QED
  BY <1>1, <1>2, <1>3

LEMMA GetRunIs ==
    ASSUME Registered, NEW id
    PROVE  /\ \A r \in runs : r.id = id /\ id \in Cached => GetRun(id) = {r.status}
           /\ \A q \in rows : q.id = id /\ id \notin Cached => GetRun(id) = {q.status}
           /\ id \notin Cached /\ (\A q \in rows : q.id # id) => GetRun(id) = {}
<1>1. GetRun(id) = Found(runs, rows, Cached, id)
  BY DEF GetRun, Found
<1>2. /\ \A q, r \in runs : q.id = r.id => q = r
      /\ \A q, r \in rows : q.id = r.id => q = r
  BY DEF Registered
<1>3. QED
  BY <1>1, <1>2, FoundIs

LEMMA GetRunWillBe ==
    ASSUME Registered', NEW CONSTANT id
    PROVE  /\ \A r \in runs' : r.id = id /\ id \in Cached' => GetRun(id)' = {r.status}
           /\ \A q \in rows' : q.id = id /\ id \notin Cached' => GetRun(id)' = {q.status}
           /\ id \notin Cached' /\ (\A q \in rows' : q.id # id) => GetRun(id)' = {}
<1>1. GetRun(id)' = Found(runs', rows', Cached', id)
  BY DEF GetRun, Found
<1>2. /\ \A q, r \in runs' : q.id = r.id => q = r
      /\ \A q, r \in rows' : q.id = r.id => q = r
  BY DEF Registered
<1>3. QED
  BY <1>1, <1>2, FoundIs

LEMMA RunsShown == RunsInv => RunsAreShown
<1> SUFFICES ASSUME RunsInv, NEW r \in runs, r.kind = "http"
             PROVE  \/ GetRun(r.id) = {r.status}
                    \/ GetRun(r.id) = {} /\ r.id \notin Cached /\ r.write # "stored"
  BY DEF RunsAreShown
<1>1. Registered
  BY DEF RunsInv
<1>2. CASE r.id \in Cached
  BY <1>1, <1>2, GetRunIs
<1>3. CASE r.id \notin Cached /\ r.write = "stored"
  <2>1. PICK q \in rows : q.id = r.id /\ q.status = r.status
    BY <1>1, <1>3 DEF Registered
  <2>2. GetRun(q.id) = {q.status}
    BY <1>1, <1>3, <2>1, GetRunIs
  <2>3. QED
    BY <2>1, <2>2
<1>4. CASE r.id \notin Cached /\ r.write # "stored"
  <2>1. \A q \in rows : q.id # r.id
    BY <1>1, <1>4 DEF Registered
  <2>2. QED
    BY <1>1, <1>4, <2>1, GetRunIs
<1>5. QED
  BY <1>2, <1>3, <1>4

LEMMA EndStays ==
    ASSUME RunsInv, RunsInv', RecordKept, NEW id \in 1 .. created,
           NEW status \in GetRun(id) \cap Terminal
    PROVE  \/ GetRun(id)' = {status}
           \/ GetRun(id)' = {} /\ \E r \in runs : r.id = id /\ r.write # "stored"
<1>1. /\ Registered /\ Registered' /\ RowsKept /\ EndsKept
      /\ Cached' \subseteq Cached \cup {created + 1} /\ id # created + 1
  BY Calendar DEF RunsInv, RecordKept, RunTypes
<1>2. ASSUME NEW q \in rows, q.id = id, q.status = status, id \notin Cached'
      PROVE  GetRun(id)' = {status}
  <2>1. PICK r \in rows' : r.id = q.id /\ r.status = q.status
    BY <1>1 DEF RowsKept
  <2>2. QED
    BY <1>1, <1>2, <2>1, GetRunWillBe
<1>3. CASE id \in Cached
  <2>1. PICK r \in runs : r.id = id /\ r.kind = "http"
    BY <1>1, <1>3 DEF Registered
  <2>2. r.status = status
    BY <1>1, <1>3, <2>1, GetRunIs
  <2>3. CASE id \in Cached'
    <3>1. PICK p \in runs' : p.id = id /\ p.status = status
      BY <1>1, <2>1, <2>2, <2>3 DEF EndsKept
    <3>2. QED
      BY <1>1, <2>3, <3>1, GetRunWillBe
  <2>4. CASE id \notin Cached' /\ r.write = "stored"
    <3>1. PICK q \in rows : q.id = id /\ q.status = status
      BY <1>1, <2>1, <2>2, <2>4 DEF Registered
    <3>2. QED
      BY <1>2, <2>4, <3>1
  <2>5. CASE id \notin Cached' /\ r.write # "stored"
    <3>1. \A q \in rows : q.id # id
      BY <1>1, <2>1, <2>5 DEF Registered
    <3>2. rows' = rows
      BY <1>3, <2>5 DEF RecordKept
    <3>3. GetRun(id)' = {}
      BY <1>1, <2>5, <3>1, <3>2, GetRunWillBe
    <3>4. QED
      BY <2>1, <2>5, <3>3
  <2>6. QED
    BY <2>3, <2>4, <2>5
<1>4. CASE id \notin Cached
  <2>1. PICK q \in rows : q.id = id /\ q.status = status
    BY <1>4 DEF GetRun
  <2>2. id \notin Cached'
    BY <1>1, <1>4
  <2>3. QED
    BY <1>2, <2>1, <2>2
<1>5. QED
  BY <1>3, <1>4

(* However often the process is killed and booted again, a day has one run *)
(* and a week one podcast, no marker of another day is inherited, and what *)
(* is answered about a run is true and, once it has ended, final           *)
(* (orchestrator/scheduler.py, api/pipeline.py).                           *)
THEOREM RunsAreOnRecordHolds == Spec => RunsAreOnRecord
<1>1. RunsInv /\ [Next]_vars => RunsInv'
  BY RunsNext_Inv, RunsStutter_Inv
<1>2. RunsInv => OnePerDay /\ OnePerWeek /\ InheritsTodayOnly /\ RunsAreShown
  BY RunsShown DEF RunsInv
<1>3. RunsInv /\ [Next]_vars =>
         [\A id \in 1 .. created : \A status \in GetRun(id) \cap Terminal :
             \/ GetRun(id)' = {status}
             \/ GetRun(id)' = {} /\ \E r \in runs : r.id = id /\ r.write # "stored"]_vars
  BY RunsNext_Inv, EndStays
<1>4. QED
  BY RunsInit_Inv, <1>1, <1>2, <1>3, PTL DEF Spec, RunsAreOnRecord, EndsAreFinal

-------------------------------------------------------------------------------
(* A finite set of numbers in order, each once. *)
Rising(S) ==
    [i \in 1 .. Cardinality(S) |-> CHOOSE x \in S : Cardinality({y \in S : y < x}) = i - 1]
LEMMA Sorted ==
    ASSUME NEW S \in SUBSET Int, IsFiniteSet(S)
    PROVE  /\ Rising(S) \in [1 .. Cardinality(S) -> S] /\ Cardinality(S) \in Nat
           /\ \A i, j \in 1 .. Cardinality(S) : i < j => Rising(S)[i] < Rising(S)[j]
           /\ \A x \in S : \E i \in 1 .. Cardinality(S) : Rising(S)[i] = x
<1> DEFINE s == Rising(S)
<1>1. PICK below : below = [x \in S |-> {y \in S : y < x}]
  OBVIOUS
<1>2. \A x \in S : below[x] = {y \in S : y < x}
  BY <1>1
<1>3. s = [i \in 1 .. Cardinality(S) |-> CHOOSE x \in S : Cardinality(below[x]) = i - 1]
  <2> DEFINE ranked(i) == CHOOSE x \in S : Cardinality({y \in S : y < x}) = i - 1
             placed(i) == CHOOSE x \in S : Cardinality(below[x]) = i - 1
  <2>1. \A x \in S : Cardinality(below[x]) = Cardinality({y \in S : y < x})
    BY <1>2
  <2>2. \A i : ranked(i) = placed(i)
    BY <2>1, Zenon
  <2>3. s = [i \in 1 .. Cardinality(S) |-> ranked(i)]
    BY DEF Rising
  <2> HIDE DEF ranked, placed
  <2>4. s = [i \in 1 .. Cardinality(S) |-> placed(i)]
    BY <2>2, <2>3
  <2>5. QED
    BY <2>4 DEF placed
<1>4. \A x \in S, y \in S : y \in below[x] <=> y < x
  BY <1>2
<1>5. \A x \in S : below[x] \subseteq S \ {x}
  <2> SUFFICES ASSUME NEW x \in S, NEW y \in below[x] PROVE y \in S \ {x}
    OBVIOUS
  <2>1. y \in S /\ y < x
    BY <1>2
  <2>2. QED
    BY <2>1
<1>6. \A x \in S : \A y \in below[x] : below[y] \subseteq below[x]
  <2> SUFFICES ASSUME NEW x \in S, NEW y \in below[x], NEW z \in below[y] PROVE z \in below[x]
    OBVIOUS
  <2>1. y \in S /\ z \in S
    BY <1>2
  <2>2. y < x /\ z < y
    BY <1>4, <2>1
  <2>3. QED
    BY <1>4, <2>1, <2>2
<1>7. \A x, y \in S : x # y => x \in below[y] \/ y \in below[x]
  BY <1>4
<1>8. /\ s \in [1 .. Cardinality(S) -> S] /\ Cardinality(S) \in Nat
      /\ \A i, j \in 1 .. Cardinality(S) : i < j => s[i] \in below[s[j]]
      /\ \A x \in S : \E i \in 1 .. Cardinality(S) : s[i] = x
  BY <1>3, <1>5, <1>6, <1>7, RankIsPlace, ZenonT(30)
<1>9. QED
  BY <1>4, <1>8

RunnerType ==
    [at : {"new", "refused", "replay", "merge", "done", "failed", "dead"}, sid : Sids \cup {Live},
     days : Seq(OpenDays), turn : 1 .. CastSize + 1, count : Nat, long : SUBSET Cast,
     cast : SUBSET Cast, found : SUBSET Cast, alone : BOOLEAN]
RowType == [sid : Sids \cup {Live}, by : Runners \cup {Live}, n : Nat, agent : Cast, side : {"buy", "sell"}]
ExtrasType == [by : Runners, cast : SUBSET Cast, positions : Nat]
ManifestType == [by : Runners, fills : Nat, events : SUBSET tradeRows, extras : {NoExtras} \cup ExtrasType]

(* A runner has written the rows it has counted, under its own id, and an  *)
(* agent of it is long after an odd number of them.                        *)
RowsBy(p, a) == {row \in RowsOf(p) : row.agent = a}
RowsAreNumbered == \A x \in tradeRows : x.n < Cardinality(RowsOf(x.by))
RowsAreOfRunners ==
    \A x \in tradeRows : IF x.by = Live THEN x.sid = Live
                         ELSE x.sid = runner[x.by].sid /\ runner[x.by].at \notin {"new", "refused"}
RowsAreCounted ==
    \A p \in Runners :
       /\ runner[p].count = Cardinality(RowsOf(p))
       /\ runner[p].long = {a \in Cast : Cardinality(RowsBy(p, a)) % 2 = 1}
CastIsLowest ==
    \A p \in Runners :
       /\ runner[p].cast \subseteq runner[p].found /\ Cardinality(runner[p].cast) <= WatchCount
       /\ \A a \in runner[p].cast, b \in runner[p].found \ runner[p].cast : a < b
       /\ runner[p].at # "new" => runner[p].sid \in Sids

(* Two that run under one id know of each other.  So a runner between its  *)
(* two writes finds its own manifest, or one of a runner it ran beside.    *)
RunBesides ==
    \A p, q \in Runners : p # q /\ Alive(p) /\ Alive(q) /\ runner[p].sid = runner[q].sid => ~runner[p].alone
Merging ==
    \A p \in Runners : runner[p].at = "merge" =>
       LET m == manifest[runner[p].sid] IN m # NoManifest /\ (m.by = p \/ ~runner[m.by].alone)

(* A manifest is of a runner that has counted its last fill, and so are    *)
(* its extras.                                                             *)
ManifestFits(s) ==
    LET m == manifest[s] IN
    /\ m \in ManifestType
    /\ runner[m.by].sid = s /\ runner[m.by].at \in {"merge", "done", "dead"}
    /\ m.fills = runner[m.by].count /\ RowsOf(m.by) \subseteq m.events
    /\ \A x \in m.events : x.sid = s
    /\ m.extras # NoExtras =>
          LET p == m.extras.by IN
          /\ m.extras \in ExtrasType /\ runner[p].at = "done"
          /\ m.extras.cast = runner[p].cast /\ m.extras.positions = Cardinality(runner[p].long)

SessionInv ==
    /\ runner \in [Runners -> RunnerType] /\ tradeRows \subseteq RowType /\ IsFiniteSet(tradeRows)
    /\ interns \subseteq Cast /\ lived \in 0 .. MaxLive /\ DOMAIN manifest = Sids
    /\ RowsAreNumbered /\ RowsAreOfRunners /\ RowsAreCounted /\ CastIsLowest
    /\ RunBesides /\ Merging
    /\ \A s \in Sids : Written(s) => ManifestFits(s)
    /\ ExtrasBelong

LEMMA NotNoManifest == ASSUME NEW m \in ManifestType PROVE m # NoManifest
<1>1. "fills" \in DOMAIN m
  BY DEF ManifestType
<1>2. "fills" \notin DOMAIN NoManifest
  BY DEF NoManifest
<1>3. QED
  BY <1>1, <1>2

LEMMA SessionInit_Inv == SessionInit => SessionInv
<1> SUFFICES ASSUME SessionInit PROVE SessionInv
  OBVIOUS
<1>1. /\ tradeRows = {} /\ interns = Cast /\ lived = 0
      /\ runner = [p \in Runners |-> NewRunner] /\ manifest = [s \in Sids |-> NoManifest]
  BY DEF SessionInit
<1>2. NewRunner \in RunnerType
  <2>1. CastSize \in Nat /\ <<>> \in Seq(OpenDays)
    BY SessionAssumption
  <2>2. QED
    BY <2>1 DEF NewRunner, RunnerType
<1>3. runner \in [Runners -> RunnerType] /\ tradeRows \subseteq RowType /\ IsFiniteSet(tradeRows)
  BY <1>1, <1>2, FS_EmptySet
<1>4. /\ \A p : RowsOf(p) = {} /\ \A a : RowsBy(p, a) = {}
      /\ Cardinality({}) = 0
  BY <1>1, FS_EmptySet DEF RowsOf, RowsBy
<1>5. RowsAreCounted
  <2> SUFFICES ASSUME NEW p \in Runners
               PROVE  /\ runner[p].count = Cardinality(RowsOf(p))
                      /\ runner[p].long = {a \in Cast : Cardinality(RowsBy(p, a)) % 2 = 1}
    BY DEF RowsAreCounted
  <2>1. runner[p].count = 0 /\ runner[p].long = {}
    BY <1>1 DEF NewRunner
  <2>2. \A a \in Cast : Cardinality(RowsBy(p, a)) % 2 # 1
    BY <1>4
  <2>3. QED
    BY <1>4, <2>1, <2>2
<1>6. CastIsLowest /\ RowsAreNumbered /\ RowsAreOfRunners
  <2>1. \A p \in Runners : runner[p].at = "new" /\ runner[p].cast = {}
    BY <1>1 DEF NewRunner
  <2>2. CastIsLowest
    BY <1>4, <2>1, SessionAssumption DEF CastIsLowest
  <2>3. QED
    BY <1>1, <2>2 DEF RowsAreNumbered, RowsAreOfRunners
<1>7. RunBesides /\ Merging
  BY <1>1 DEF RunBesides, Merging, Alive, NewRunner
<1>8. \A s \in Sids : ~Written(s)
  BY <1>1 DEF Written
<1>9. lived \in 0 .. MaxLive
  BY <1>1, SessionAssumption
<1>10. QED
  BY <1>1, <1>3, <1>5, <1>6, <1>7, <1>8, <1>9 DEF SessionInv, ExtrasBelong

LEMMA SessionStutter_Inv == ASSUME SessionInv, UNCHANGED sessionVars PROVE SessionInv'
BY DEF SessionInv, sessionVars, ManifestType, RowsAreNumbered, RowsAreOfRunners, RowsAreCounted, RowsOf,
   RowsBy, CastIsLowest, RunBesides, Merging, Alive, Written, ManifestFits, ExtrasBelong

(* What is said of manifests stays as long as the runners that have        *)
(* written them only end.                                                  *)
LEMMA ManifestStays ==
    ASSUME SessionInv, UNCHANGED manifest, tradeRows \subseteq tradeRows', tradeRows' \subseteq RowType,
           \A q \in Runners : runner[q].at \in {"merge", "done", "dead"} =>
              /\ RowsOf(q)' = RowsOf(q) /\ runner'[q].sid = runner[q].sid /\ runner'[q].count = runner[q].count
              /\ runner'[q].long = runner[q].long /\ runner'[q].cast = runner[q].cast
              /\ ~runner[q].alone => ~runner'[q].alone
              /\ runner'[q].at = runner[q].at \/ (runner[q].at = "merge" /\ runner'[q].at = "dead"),
           \A q \in Runners : runner'[q].at = "merge" => runner[q].at = "merge"
    PROVE  Merging' /\ ExtrasBelong' /\ \A s \in Sids : Written(s)' => ManifestFits(s)'
<1>1. ASSUME NEW s \in Sids, Written(s)
      PROVE  /\ ManifestFits(s) /\ manifest[s].by \in Runners
             /\ runner[manifest[s].by].at \in {"merge", "done", "dead"}
  <2>1. ManifestFits(s)
    BY <1>1 DEF SessionInv
  <2>2. QED
    BY <2>1 DEF ManifestFits, ManifestType
<1>2. ASSUME NEW s \in Sids, Written(s)' PROVE ManifestFits(s)'
  <2>1. Written(s) /\ manifest'[s] = manifest[s]
    BY <1>2 DEF Written
  <2>2. PICK p \in Runners : p = manifest[s].by
    BY <1>1, <2>1
  <2>3. ManifestFits(s) /\ runner[p].at \in {"merge", "done", "dead"}
    BY <1>1, <2>1, <2>2
  <2>4. /\ RowsOf(p)' = RowsOf(p) /\ runner'[p].sid = runner[p].sid /\ runner'[p].count = runner[p].count
        /\ runner'[p].at \in {"merge", "done", "dead"}
    BY <2>3
  <2>5. manifest[s] \in ManifestType'
    BY <2>3 DEF ManifestFits, ManifestType
  <2>6. ASSUME manifest[s].extras # NoExtras
        PROVE  LET q == manifest[s].extras.by IN
               /\ manifest[s].extras \in ExtrasType /\ runner'[q].at = "done"
               /\ manifest[s].extras.cast = runner'[q].cast
               /\ manifest[s].extras.positions = Cardinality(runner'[q].long)
    <3>1. PICK q \in Runners : q = manifest[s].extras.by
      BY <2>3, <2>6 DEF ManifestFits, ExtrasType
    <3>2. runner[q].at = "done"
      BY <2>3, <2>6, <3>1 DEF ManifestFits
    <3>3. runner'[q].at = "done" /\ runner'[q].cast = runner[q].cast /\ runner'[q].long = runner[q].long
      BY <3>2
    <3>4. QED
      BY <2>3, <2>6, <3>1, <3>3 DEF ManifestFits
  <2>7. QED
    BY <2>1, <2>2, <2>3, <2>4, <2>5, <2>6 DEF ManifestFits
<1>3. ExtrasBelong'
  <2> SUFFICES ASSUME NEW s \in Sids, Written(s)'
               PROVE  LET m == manifest[s] IN
                      \/ m.extras.by = m.by
                      \/ m.extras = NoExtras /\ runner'[m.by].at \in {"merge", "dead"}
                      \/ ~runner'[m.by].alone
    BY DEF ExtrasBelong
  <2>1. Written(s)
    BY DEF Written
  <2>2. PICK p \in Runners : p = manifest[s].by
    BY <1>1, <2>1
  <2>3. runner[p].at \in {"merge", "done", "dead"}
    BY <1>1, <2>1, <2>2
  <2>4. \/ manifest[s].extras.by = p
        \/ manifest[s].extras = NoExtras /\ runner[p].at \in {"merge", "dead"}
        \/ ~runner[p].alone
    BY <2>1, <2>2 DEF SessionInv, ExtrasBelong
  <2>5. QED
    BY <2>2, <2>3, <2>4
<1>4. Merging'
  <2> SUFFICES ASSUME NEW p \in Runners, runner'[p].at = "merge"
               PROVE  LET m == manifest[runner'[p].sid] IN m # NoManifest /\ (m.by = p \/ ~runner'[m.by].alone)
    BY DEF Merging
  <2>1. runner[p].at = "merge" /\ runner'[p].sid = runner[p].sid
    OBVIOUS
  <2>2. PICK s \in Sids : s = runner[p].sid
    BY <2>1 DEF SessionInv, CastIsLowest
  <2>3. Written(s) /\ (manifest[s].by = p \/ ~runner[manifest[s].by].alone)
    BY <2>1, <2>2 DEF SessionInv, Merging, Written
  <2>4. QED
    BY <1>1, <2>1, <2>2, <2>3 DEF Written
<1>5. QED
  BY <1>2, <1>3, <1>4

(* What is said of rows and casts stays when one runner goes on.           *)
LEMMA OneGoesOn ==
    ASSUME SessionInv, UNCHANGED tradeRows, NEW p \in Runners, Alive(p),
           runner' \in [Runners -> RunnerType], \A q \in Runners : q # p => runner'[q] = runner[q],
           runner'[p].sid = runner[p].sid, runner'[p].count = runner[p].count,
           runner'[p].long = runner[p].long, runner'[p].cast = runner[p].cast,
           runner'[p].found = runner[p].found, runner'[p].alone = runner[p].alone,
           runner'[p].at \notin {"new", "refused"}
    PROVE  RowsAreNumbered' /\ RowsAreOfRunners' /\ RowsAreCounted' /\ CastIsLowest' /\ RunBesides'
<1>1. RowsAreNumbered'
  BY DEF SessionInv, RowsAreNumbered, RowsOf
<1>2. ASSUME NEW q \in Runners
      PROVE  /\ runner'[q].sid = runner[q].sid /\ runner'[q].count = runner[q].count
             /\ runner'[q].long = runner[q].long /\ runner'[q].cast = runner[q].cast
             /\ runner'[q].found = runner[q].found /\ runner'[q].alone = runner[q].alone
             /\ (runner[q].at \notin {"new", "refused"} => runner'[q].at \notin {"new", "refused"})
             /\ (runner'[q].at # "new" => runner[q].at # "new")
             /\ (Alive(q)' => Alive(q))
  BY DEF Alive
<1>3. RowsAreOfRunners'
  <2> SUFFICES ASSUME NEW x \in tradeRows, x.by # Live
               PROVE  x.sid = runner'[x.by].sid /\ runner'[x.by].at \notin {"new", "refused"}
    BY DEF SessionInv, RowsAreOfRunners
  <2>1. x.by \in Runners
    BY DEF SessionInv, RowType
  <2>2. QED
    BY <1>2, <2>1 DEF SessionInv, RowsAreOfRunners
<1>4. RowsAreCounted'
  BY <1>2 DEF SessionInv, RowsAreCounted, RowsOf, RowsBy
<1>5. CastIsLowest'
  BY <1>2 DEF SessionInv, CastIsLowest
<1>6. RunBesides'
  <2> SUFFICES ASSUME NEW q \in Runners, NEW r \in Runners, q # r, Alive(q)', Alive(r)',
                      runner'[q].sid = runner'[r].sid
               PROVE  ~runner'[q].alone
    BY DEF RunBesides
  <2>1. Alive(q) /\ Alive(r) /\ runner[q].sid = runner[r].sid
    BY <1>2
  <2>2. QED
    BY <1>2, <2>1 DEF SessionInv, RunBesides
<1>7. QED
  BY <1>1, <1>3, <1>4, <1>5, <1>6

LEMMA LiveRank_Inv == ASSUME SessionInv, LiveRank PROVE SessionInv'
<1>1. interns' \subseteq Cast /\ lived' = lived + 1 /\ lived < MaxLive /\ UNCHANGED <<tradeRows, runner, manifest>>
  BY DEF LiveRank, SessionInv
<1>2. lived' \in 0 .. MaxLive
  BY <1>1, SessionAssumption DEF SessionInv
<1>3. Merging' /\ ExtrasBelong' /\ \A s \in Sids : Written(s)' => ManifestFits(s)'
  BY <1>1 DEF SessionInv, Merging, ExtrasBelong, Written, ManifestFits, ManifestType, RowsOf
<1>4. QED
  BY <1>1, <1>2, <1>3 DEF SessionInv, RowsAreNumbered, RowsAreOfRunners, RowsAreCounted, RowsOf,
     RowsBy, CastIsLowest, RunBesides, Alive

(* What a row adds to. *)
LEMMA InsertIs ==
    ASSUME SessionInv, NEW p \in Runners \cup {Live}, NEW sid \in Sids \cup {Live}, NEW a \in Cast,
           NEW side \in {"buy", "sell"}, Insert(sid, p, a, side)
    PROVE  /\ tradeRows \subseteq tradeRows' /\ tradeRows' \subseteq RowType /\ IsFiniteSet(tradeRows')
           /\ \A x \in tradeRows' : x \in tradeRows \/ (x.by = p /\ x.sid = sid)
           /\ \A q : q # p => RowsOf(q)' = RowsOf(q)
           /\ \A q : q # p => \A b : RowsBy(q, b)' = RowsBy(q, b)
           /\ \A b : b # a => RowsBy(p, b)' = RowsBy(p, b)
           /\ Cardinality(RowsOf(p)) \in Nat /\ Cardinality(RowsOf(p)') = Cardinality(RowsOf(p)) + 1
           /\ Cardinality(RowsBy(p, a)) \in Nat /\ Cardinality(RowsBy(p, a)') = Cardinality(RowsBy(p, a)) + 1
           /\ RowsAreNumbered'
<1> DEFINE row == [sid |-> sid, by |-> p, n |-> Cardinality(RowsOf(p)), agent |-> a, side |-> side]
<1>1. tradeRows' = tradeRows \cup {row}
  BY DEF Insert
<1>2. /\ IsFiniteSet(RowsOf(p)) /\ Cardinality(RowsOf(p)) \in Nat
      /\ IsFiniteSet(RowsBy(p, a)) /\ Cardinality(RowsBy(p, a)) \in Nat
  BY FS_Subset, FS_CardinalityType DEF SessionInv, RowsOf, RowsBy
<1>3. row \in RowType /\ row.by = p /\ row.sid = sid /\ row.agent = a /\ row.n = Cardinality(RowsOf(p))
  BY <1>2 DEF RowType
<1>4. row \notin tradeRows
  <2>1. ~(row.n < Cardinality(RowsOf(p)))
    BY <1>2, <1>3
  <2> HIDE DEF row
  <2>2. QED
    BY <1>3, <2>1 DEF SessionInv, RowsAreNumbered
<1> HIDE DEF row
<1>5. IsFiniteSet(tradeRows')
  BY <1>1, FS_AddElement DEF SessionInv
<1>6. RowsOf(p)' = RowsOf(p) \cup {row} /\ row \notin RowsOf(p)
  BY <1>1, <1>3, <1>4 DEF RowsOf
<1>7. \A q : q # p => RowsOf(q)' = RowsOf(q)
  BY <1>1, <1>3 DEF RowsOf
<1>8. RowsBy(p, a)' = RowsBy(p, a) \cup {row} /\ row \notin RowsBy(p, a)
  BY <1>3, <1>6 DEF RowsBy
<1>9. \A b : b # a => RowsBy(p, b)' = RowsBy(p, b)
  BY <1>3, <1>6 DEF RowsBy
<1>10. Cardinality(RowsOf(p)') = Cardinality(RowsOf(p)) + 1
  BY <1>2, <1>6, FS_AddElement
<1>11. Cardinality(RowsBy(p, a)') = Cardinality(RowsBy(p, a)) + 1
  BY <1>2, <1>8, FS_AddElement
<1>12. RowsAreNumbered'
  <2> SUFFICES ASSUME NEW x \in tradeRows' PROVE x.n < Cardinality(RowsOf(x.by)')
    BY DEF RowsAreNumbered
  <2>1. CASE x = row
    BY <1>2, <1>3, <1>10, <2>1
  <2>2. CASE x \in tradeRows
    <3>1. x.n < Cardinality(RowsOf(x.by)) /\ x.n \in Nat
      BY <2>2 DEF SessionInv, RowsAreNumbered, RowType
    <3>2. CASE x.by = p
      BY <1>2, <1>10, <3>1, <3>2
    <3>3. CASE x.by # p
      BY <1>7, <3>1, <3>3
    <3>4. QED
      BY <3>2, <3>3
  <2>3. QED
    BY <1>1, <2>1, <2>2
<1>13. \A q : q # p => \A b : RowsBy(q, b)' = RowsBy(q, b)
  BY <1>7 DEF RowsBy
<1>14. tradeRows' \subseteq RowType
  BY <1>1, <1>3 DEF SessionInv
<1>15. \A x \in tradeRows' : x \in tradeRows \/ (x.by = p /\ x.sid = sid)
  BY <1>1, <1>3
<1>16. QED
  BY <1>1, <1>2, <1>5, <1>7, <1>9, <1>10, <1>11, <1>12, <1>13, <1>14, <1>15

LEMMA LiveTrade_Inv == ASSUME SessionInv, LiveTrade PROVE SessionInv'
<1>1. /\ lived < MaxLive /\ lived' = lived + 1 /\ UNCHANGED <<interns, runner, manifest>>
      /\ \E a \in Cast, side \in {"buy", "sell"} : Insert(Live, Live, a, side)
  BY DEF LiveTrade
<1>2. PICK a \in Cast, side \in {"buy", "sell"} : Insert(Live, Live, a, side)
  BY <1>1
<1>3. Live \in Runners \cup {Live} /\ Live \in Sids \cup {Live} /\ Live \notin Runners
  BY SessionAssumption
<1>4. /\ tradeRows \subseteq tradeRows' /\ tradeRows' \subseteq RowType /\ IsFiniteSet(tradeRows')
      /\ \A x \in tradeRows' : x \in tradeRows \/ (x.by = Live /\ x.sid = Live)
      /\ \A q : q # Live => RowsOf(q)' = RowsOf(q) /\ \A b : RowsBy(q, b)' = RowsBy(q, b)
      /\ RowsAreNumbered'
  BY <1>2, <1>3, InsertIs
<1>5. lived' \in 0 .. MaxLive
  BY <1>1, SessionAssumption DEF SessionInv
<1>6. Merging' /\ ExtrasBelong' /\ \A s \in Sids : Written(s)' => ManifestFits(s)'
  BY <1>1, <1>3, <1>4, ManifestStays
<1>7. RowsAreOfRunners'
  BY <1>1, <1>4 DEF SessionInv, RowsAreOfRunners
<1>8. RowsAreCounted'
  BY <1>1, <1>3, <1>4 DEF SessionInv, RowsAreCounted
<1>9. CastIsLowest' /\ RunBesides'
  BY <1>1 DEF SessionInv, CastIsLowest, RunBesides, Alive
<1>10. QED
  BY <1>1, <1>4, <1>5, <1>6, <1>7, <1>8, <1>9 DEF SessionInv

(* A runner goes on without a row or a manifest. *)
LEMMA OnlyMoves_Inv ==
    ASSUME SessionInv, NEW p \in Runners, Alive(p), UNCHANGED <<tradeRows, interns, manifest, lived>>,
           runner' \in [Runners -> RunnerType], \A q \in Runners : q # p => runner'[q] = runner[q],
           runner'[p].sid = runner[p].sid, runner'[p].count = runner[p].count,
           runner'[p].long = runner[p].long, runner'[p].cast = runner[p].cast,
           runner'[p].found = runner[p].found, runner'[p].alone = runner[p].alone,
           \/ runner[p].at = "replay" /\ runner'[p].at \in {"replay", "failed"}
           \/ runner'[p].at = "dead"
    PROVE  SessionInv'
<1>1. \A q : RowsOf(q)' = RowsOf(q)
  BY DEF RowsOf
<1>2. runner[p].at \in {"replay", "merge"} /\ tradeRows' \subseteq RowType
  BY DEF Alive, SessionInv
<1>3. Merging' /\ ExtrasBelong' /\ \A s \in Sids : Written(s)' => ManifestFits(s)'
  <2>1. ASSUME NEW q \in Runners, runner[q].at \in {"merge", "done", "dead"}
        PROVE  /\ RowsOf(q)' = RowsOf(q) /\ runner'[q].sid = runner[q].sid /\ runner'[q].count = runner[q].count
               /\ runner'[q].long = runner[q].long /\ runner'[q].cast = runner[q].cast
               /\ ~runner[q].alone => ~runner'[q].alone
               /\ runner'[q].at = runner[q].at \/ (runner[q].at = "merge" /\ runner'[q].at = "dead")
    <3>1. CASE q = p
      BY <1>1, <1>2, <2>1, <3>1
    <3>2. CASE q # p
      BY <1>1, <3>2
    <3>3. QED
      BY <3>1, <3>2
  <2>2. \A q \in Runners : runner'[q].at = "merge" => runner[q].at = "merge"
    OBVIOUS
  <2>3. QED
    BY <1>2, <2>1, <2>2, ManifestStays
<1>4. runner'[p].at \notin {"new", "refused"}
  OBVIOUS
<1>5. RowsAreNumbered' /\ RowsAreOfRunners' /\ RowsAreCounted' /\ CastIsLowest' /\ RunBesides'
  BY <1>4, OneGoesOn
<1>6. QED
  BY <1>3, <1>5 DEF SessionInv

LEMMA DayEnds_Inv == ASSUME SessionInv, NEW p \in Runners, DayEnds(p) PROVE SessionInv'
<1>1. /\ runner[p].at = "replay" /\ runner[p].days # <<>> /\ UNCHANGED <<tradeRows, interns, manifest, lived>>
      /\ runner' = [runner EXCEPT ![p].days = Tail(@), ![p].turn = 1]
  BY DEF DayEnds
<1>2. /\ runner \in [Runners -> RunnerType] /\ runner[p] \in RunnerType
      /\ runner[p].days \in Seq(OpenDays) /\ CastSize \in Nat
  BY SessionAssumption DEF SessionInv, RunnerType
<1>3. Tail(runner[p].days) \in Seq(OpenDays) /\ 1 \in 1 .. CastSize + 1
  BY <1>1, <1>2
<1> DEFINE r == [runner[p] EXCEPT !.days = Tail(runner[p].days), !.turn = 1]
<1>4. /\ r \in RunnerType /\ r.at = "replay" /\ r.sid = runner[p].sid /\ r.count = runner[p].count
      /\ r.long = runner[p].long /\ r.cast = runner[p].cast
      /\ r.found = runner[p].found /\ r.alone = runner[p].alone
  BY <1>1, <1>2, <1>3 DEF RunnerType
<1>5. runner'[p] = r /\ \A q \in Runners : q # p => runner'[q] = runner[q]
  BY <1>1, <1>2
<1>6. DOMAIN runner' = Runners /\ runner' = [q \in Runners |-> runner'[q]]
  BY <1>1, <1>2
<1> HIDE DEF r
<1>7. runner' \in [Runners -> RunnerType]
  BY <1>2, <1>4, <1>5, <1>6
<1>8. QED
  BY <1>1, <1>4, <1>5, <1>7, OnlyMoves_Inv DEF Alive

LEMMA Die_Inv == ASSUME SessionInv, NEW p \in Runners, Die(p) PROVE SessionInv'
<1>1. Alive(p) /\ runner' = [runner EXCEPT ![p].at = "dead"] /\ UNCHANGED <<tradeRows, interns, manifest, lived>>
  BY DEF Die
<1>2. runner \in [Runners -> RunnerType]
  BY DEF SessionInv
<1>3. runner' \in [Runners -> RunnerType]
  BY <1>1, <1>2, ZenonT(30) DEF RunnerType
<1>4. QED
  BY <1>1, <1>2, <1>3, OnlyMoves_Inv DEF RunnerType

LEMMA Trades_Inv ==
    ASSUME SessionInv, NEW p \in Runners, runner[p].at = "replay", NEW a \in Cast, a = runner[p].turn,
           runner' = [runner EXCEPT ![p].turn = @ + 1, ![p].count = @ + 1,
                                    ![p].long = (runner[p].long \cup {a}) \ (runner[p].long \cap {a})],
           Insert(runner[p].sid, p, a, SideOf(p, a)), UNCHANGED <<interns, manifest, lived>>
    PROVE  SessionInv'
<1> DEFINE long == (runner[p].long \cup {a}) \ (runner[p].long \cap {a})
           r == [runner[p] EXCEPT !.turn = @ + 1, !.count = @ + 1, !.long = long]
<1>1. runner \in [Runners -> RunnerType] /\ runner[p] \in RunnerType /\ runner[p].long \subseteq Cast
  BY DEF SessionInv, RunnerType
<1>2. a + 1 \in 1 .. CastSize + 1 /\ runner[p].count + 1 \in Nat /\ runner[p].count \in Nat /\ long \subseteq Cast
  BY <1>1, SessionAssumption DEF RunnerType, Cast
<1>3. /\ r \in RunnerType /\ r.at = "replay" /\ r.sid = runner[p].sid /\ r.count = runner[p].count + 1
      /\ r.long = long /\ r.cast = runner[p].cast
      /\ r.found = runner[p].found /\ r.alone = runner[p].alone
  BY <1>1, <1>2 DEF RunnerType
<1>4. /\ DOMAIN runner' = Runners /\ runner' = [q \in Runners |-> runner'[q]]
      /\ runner'[p] = r /\ \A q \in Runners : q # p => runner'[q] = runner[q]
  BY <1>1
<1> HIDE DEF r
<1>5. runner' \in [Runners -> RunnerType]
  BY <1>1, <1>3, <1>4
<1>6. p # Live /\ runner[p].sid \in Sids \cup {Live} /\ SideOf(p, a) \in {"buy", "sell"}
  BY <1>1, SessionAssumption DEF RunnerType, SideOf
<1>7. /\ tradeRows \subseteq tradeRows' /\ tradeRows' \subseteq RowType /\ IsFiniteSet(tradeRows')
      /\ \A x \in tradeRows' : x \in tradeRows \/ (x.by = p /\ x.sid = runner[p].sid)
      /\ \A q : q # p => RowsOf(q)' = RowsOf(q)
      /\ \A q : q # p => \A b : RowsBy(q, b)' = RowsBy(q, b)
      /\ \A b : b # a => RowsBy(p, b)' = RowsBy(p, b)
      /\ Cardinality(RowsOf(p)) \in Nat /\ Cardinality(RowsOf(p)') = Cardinality(RowsOf(p)) + 1
      /\ Cardinality(RowsBy(p, a)) \in Nat /\ Cardinality(RowsBy(p, a)') = Cardinality(RowsBy(p, a)) + 1
      /\ RowsAreNumbered'
  <2>1. PICK sid \in Sids \cup {Live}, side \in {"buy", "sell"} : sid = runner[p].sid /\ side = SideOf(p, a)
    BY <1>6
  <2>2. p \in Runners \cup {Live} /\ Insert(sid, p, a, side)
    BY <2>1
  <2> HIDE DEF r, long
  <2>3. QED
    BY <2>1, <2>2, InsertIs
<1>8. Merging' /\ ExtrasBelong' /\ \A s \in Sids : Written(s)' => ManifestFits(s)'
  <2>1. ASSUME NEW q \in Runners, runner[q].at \in {"merge", "done", "dead"}
        PROVE  /\ RowsOf(q)' = RowsOf(q) /\ runner'[q].sid = runner[q].sid /\ runner'[q].count = runner[q].count
               /\ runner'[q].long = runner[q].long /\ runner'[q].cast = runner[q].cast
               /\ ~runner[q].alone => ~runner'[q].alone
               /\ runner'[q].at = runner[q].at \/ (runner[q].at = "merge" /\ runner'[q].at = "dead")
    <3>1. q # p
      BY <2>1
    <3>2. QED
      BY <1>4, <1>7, <3>1
  <2>2. \A q \in Runners : runner'[q].at = "merge" => runner[q].at = "merge"
    BY <1>3, <1>4
  <2>3. QED
    BY <1>7, <2>1, <2>2, ManifestStays
<1>9. RowsAreOfRunners'
  <2> SUFFICES ASSUME NEW x \in tradeRows', x.by # Live
               PROVE  x.sid = runner'[x.by].sid /\ runner'[x.by].at \notin {"new", "refused"}
    <3>1. \A x \in tradeRows' : x.by = Live => x.sid = Live
      BY <1>6, <1>7 DEF SessionInv, RowsAreOfRunners
    <3>2. QED
      BY <3>1 DEF RowsAreOfRunners
  <2>1. CASE x.by = p
    <3>1. x.sid = runner[p].sid
      BY <1>7, <2>1 DEF SessionInv, RowsAreOfRunners
    <3>2. QED
      BY <1>3, <1>4, <2>1, <3>1
  <2>2. CASE x.by # p
    <3>1. x \in tradeRows /\ x.by \in Runners
      BY <1>7, <2>2 DEF RowType
    <3>2. QED
      BY <1>4, <2>2, <3>1 DEF SessionInv, RowsAreOfRunners
  <2>3. QED
    BY <2>1, <2>2
<1>10. RowsAreCounted'
  <2> SUFFICES ASSUME NEW q \in Runners
               PROVE  /\ runner'[q].count = Cardinality(RowsOf(q)')
                      /\ runner'[q].long = {b \in Cast : Cardinality(RowsBy(q, b)') % 2 = 1}
    BY DEF RowsAreCounted
  <2>1. /\ runner[q].count = Cardinality(RowsOf(q))
        /\ runner[q].long = {b \in Cast : Cardinality(RowsBy(q, b)) % 2 = 1}
    BY DEF SessionInv, RowsAreCounted
  <2>2. CASE q # p
    BY <1>4, <1>7, <2>1, <2>2
  <2>3. CASE q = p
    <3>1. \A n \in Nat : (n + 1) % 2 = 1 <=> n % 2 # 1
      OBVIOUS
    <3>2. \A b \in Cast : b \in long <=> Cardinality(RowsBy(p, b)') % 2 = 1
      <4> SUFFICES ASSUME NEW b \in Cast PROVE b \in long <=> Cardinality(RowsBy(p, b)') % 2 = 1
        OBVIOUS
      <4>1. b \in runner[p].long <=> Cardinality(RowsBy(p, b)) % 2 = 1
        BY <2>1, <2>3
      <4>2. CASE b = a
        <5>1. Cardinality(RowsBy(p, a)') % 2 = 1 <=> Cardinality(RowsBy(p, a)) % 2 # 1
          BY <1>7, <3>1
        <5>2. a \in long <=> a \notin runner[p].long
          OBVIOUS
        <5>3. QED
          BY <4>1, <4>2, <5>1, <5>2
      <4>3. CASE b # a
        BY <1>7, <4>1, <4>3
      <4>4. QED
        BY <4>2, <4>3
    <3>3. long = {b \in Cast : Cardinality(RowsBy(p, b)') % 2 = 1}
      BY <1>2, <3>2
    <3>4. QED
      BY <1>3, <1>4, <1>7, <2>1, <2>3, <3>3
  <2>4. QED
    BY <2>2, <2>3
<1>11. CastIsLowest' /\ RunBesides'
  <2>1. ASSUME NEW q \in Runners
        PROVE  /\ runner'[q].sid = runner[q].sid /\ runner'[q].cast = runner[q].cast
               /\ runner'[q].found = runner[q].found /\ runner'[q].alone = runner[q].alone
               /\ runner'[q].at = runner[q].at
    BY <1>3, <1>4
  <2>2. QED
    BY <2>1 DEF SessionInv, CastIsLowest, RunBesides, Alive
<1>12. QED
  BY <1>5, <1>7, <1>8, <1>9, <1>10, <1>11 DEF SessionInv

LEMMA Turn_Inv == ASSUME SessionInv, NEW p \in Runners, Turn(p) PROVE SessionInv'
<1> DEFINE a == runner[p].turn
<1>1. runner[p].at = "replay" /\ a <= CastSize /\ UNCHANGED <<interns, manifest, lived>>
  BY DEF Turn
<1>2. runner \in [Runners -> RunnerType] /\ runner[p] \in RunnerType /\ CastSize \in Nat /\ a \in Cast
  BY <1>1, SessionAssumption DEF SessionInv, RunnerType, Cast
<1>3. CASE runner' = [runner EXCEPT ![p].turn = @ + 1] /\ UNCHANGED tradeRows
  <2>1. a + 1 \in 1 .. CastSize + 1
    BY <1>2 DEF Cast
  <2>2. runner' \in [Runners -> RunnerType]
    BY <1>2, <1>3, <2>1 DEF RunnerType
  <2>3. QED
    BY <1>1, <1>2, <1>3, <2>2, OnlyMoves_Inv DEF Alive, RunnerType
<1>4. CASE runner' = [runner EXCEPT ![p].at = "failed"] /\ UNCHANGED tradeRows
  <2>1. runner' \in [Runners -> RunnerType]
    BY <1>2, <1>4 DEF RunnerType
  <2>2. QED
    BY <1>1, <1>2, <1>4, <2>1, OnlyMoves_Inv DEF Alive, RunnerType
<1>5. CASE /\ runner' = [runner EXCEPT ![p].turn = @ + 1, ![p].count = @ + 1,
                                       ![p].long = (runner[p].long \cup {a}) \ (runner[p].long \cap {a})]
           /\ Insert(runner[p].sid, p, a, SideOf(p, a))
  BY <1>1, <1>2, <1>5, Trades_Inv
<1>6. QED
  BY <1>3, <1>4, <1>5 DEF Turn

(* The cast is as many of the lowest as there are, up to WatchCount. *)
LEMMA LowestRanksIs ==
    ASSUME interns \subseteq Cast
    PROVE  /\ LowestRanks \subseteq interns /\ Cardinality(LowestRanks) <= WatchCount
           /\ \A a \in LowestRanks, b \in interns \ LowestRanks : a < b
<1> DEFINE Before(a) == {b \in interns : b < a}
<1>1. CastSize \in Nat /\ WatchCount \in Nat /\ interns \subseteq Nat
  BY SessionAssumption DEF Cast
<1>2. IsFiniteSet(interns)
  <2>1. 1 \in Int /\ CastSize \in Int
    BY <1>1
  <2>2. IsFiniteSet(Cast)
    BY <2>1, FS_Interval DEF Cast
  <2>3. QED
    BY <2>2, FS_Subset
<1>3. /\ LowestRanks = {a \in interns : Cardinality(Before(a)) < WatchCount}
      /\ LowestRanks \subseteq interns
  BY DEF LowestRanks
<1>4. \A a \in interns : IsFiniteSet(Before(a)) /\ Cardinality(Before(a)) \in Nat
  BY <1>2, FS_Subset, FS_CardinalityType
<1>5. ASSUME NEW a \in LowestRanks, NEW b \in interns \ LowestRanks PROVE a < b
  <2> a \in interns /\ a \in Nat /\ b \in interns /\ b \in Nat
    BY <1>1, <1>3
  <2> SUFFICES ASSUME b <= a PROVE FALSE
    OBVIOUS
  <2>1. Before(b) \subseteq Before(a)
    <3> SUFFICES ASSUME NEW c \in interns, c < b PROVE c < a
      OBVIOUS
    <3>1. QED
      BY <1>1
  <2>2. Cardinality(Before(b)) <= Cardinality(Before(a))
    BY <1>3, <1>4, <2>1, FS_Subset
  <2>3. Cardinality(Before(a)) < WatchCount /\ ~(Cardinality(Before(b)) < WatchCount)
    BY <1>3
  <2> HIDE DEF Before
  <2>4. QED
    BY <1>1, <1>3, <1>4, <2>2, <2>3
<1>6. Cardinality(LowestRanks) <= WatchCount
  <2> DEFINE n == Cardinality(LowestRanks)
  <2>1. IsFiniteSet(LowestRanks) /\ n \in Nat
    BY <1>2, <1>3, FS_Subset, FS_CardinalityType
  <2>2. CASE LowestRanks = {}
    BY <1>1, <2>2, FS_EmptySet
  <2>3. CASE LowestRanks # {}
    <3>1. LowestRanks \in SUBSET Int
      <4>1. ASSUME NEW y \in LowestRanks PROVE y \in Int
        BY <1>1, <1>3
      <4>2. QED
        BY <4>1
    <3>2. PICK m \in LowestRanks : \A y \in LowestRanks : y <= m
      BY <2>1, <2>3, <3>1, FiniteMax
    <3>3. IsFiniteSet(LowestRanks \ {m}) /\ Cardinality(LowestRanks \ {m}) = n - 1
      BY <2>1, FS_RemoveElement
    <3>4. LowestRanks \ {m} \subseteq Before(m) /\ m \in interns /\ Cardinality(Before(m)) < WatchCount
      <4>1. ASSUME NEW y \in LowestRanks \ {m} PROVE y \in interns /\ y < m
        <5>1. y \in interns /\ y \in Nat /\ m \in Nat /\ y <= m
          BY <1>1, <1>3, <3>2
        <5>2. QED
          BY <5>1
      <4>2. m \in interns /\ Cardinality(Before(m)) < WatchCount
        BY <1>3
      <4>3. QED
        BY <4>1, <4>2
    <3>5. IsFiniteSet(Before(m)) /\ Cardinality(Before(m)) \in Nat
      BY <1>4, <3>4
    <3> HIDE DEF n, Before
    <3>6. n - 1 <= Cardinality(Before(m))
      BY <3>3, <3>4, <3>5, FS_Subset
    <3>7. n <= WatchCount
      BY <1>1, <2>1, <3>4, <3>5, <3>6
    <3>8. QED
      BY <3>7 DEF n
  <2>4. QED
    BY <2>2, <2>3
<1>7. QED
  BY <1>3, <1>5, <1>6

LEMMA Start_Inv == ASSUME SessionInv, NEW p \in Runners, Start(p) PROVE SessionInv'
<1>1. runner[p].at = "new" /\ UNCHANGED <<tradeRows, interns, manifest, lived>>
  BY DEF Start
<1> DEFINE Others(s) == {o \in Runners : Alive(o) /\ runner[o].sid = s}
<1>2. PICK s \in Sids, span \in Spans, cast \in {LowestRanks, {}} :
         LET refused == span[1] > Today \/ TradingDays(span) = <<>>
         IN  runner' = [o \in Runners |->
                IF o = p
                  THEN IF refused THEN [NewRunner EXCEPT !.at = "refused", !.sid = s]
                       ELSE [NewRunner EXCEPT !.at = "replay", !.sid = s, !.days = TradingDays(span),
                                              !.cast = cast, !.found = interns,
                                              !.alone = Others(s) = {}]
                ELSE IF o \in Others(s) /\ ~refused THEN [runner[o] EXCEPT !.alone = FALSE]
                ELSE runner[o]]
  BY DEF Start
<1>3. /\ runner \in [Runners -> RunnerType] /\ interns \subseteq Cast /\ tradeRows \subseteq RowType
      /\ p \notin Others(s) /\ ~Alive(p) /\ DOMAIN runner' = Runners
      /\ runner' = [o \in Runners |-> runner'[o]]
  BY <1>1, <1>2 DEF SessionInv, Alive
<1>4. TradingDays(span) \in Seq(OpenDays)
  <2>1. span[1] \in Nat /\ span[2] \in Nat /\ OpenDays \subseteq Nat /\ Nat \subseteq Int
    BY SessionAssumption
  <2>2. PICK open : open = {d \in OpenDays : span[1] <= d /\ d <= span[2]}
    OBVIOUS
  <2>3. open \subseteq span[1] .. span[2] /\ open \subseteq OpenDays /\ open \in SUBSET Int
    <3>1. ASSUME NEW d \in open PROVE d \in OpenDays /\ d \in Int /\ d \in span[1] .. span[2]
      <4>1. d \in OpenDays /\ span[1] <= d /\ d <= span[2]
        BY <2>2
      <4>2. d \in Int
        BY <2>1, <4>1
      <4>3. QED
        BY <2>1, <4>1, <4>2
    <3>2. QED
      BY <3>1
  <2>4. IsFiniteSet(open)
    <3>1. span[1] \in Int /\ span[2] \in Int
      BY <2>1
    <3>2. IsFiniteSet(span[1] .. span[2])
      BY <3>1, FS_Interval
    <3>3. QED
      BY <2>3, <3>2, FS_Subset
  <2>5. TradingDays(span) = Rising(open)
    BY <2>2 DEF TradingDays, SortedBy, Rising
  <2>6. TradingDays(span) \in [1 .. Cardinality(open) -> open] /\ Cardinality(open) \in Nat
    BY <2>3, <2>4, <2>5, Sorted
  <2>7. TradingDays(span) \in [1 .. Cardinality(open) -> OpenDays]
    BY <2>3, <2>6
  <2>8. QED
    BY <2>6, <2>7
<1>5. ASSUME NEW o \in Runners, o # p
      PROVE  /\ runner'[o] \in RunnerType /\ runner'[o].at = runner[o].at /\ runner'[o].sid = runner[o].sid
             /\ runner'[o].count = runner[o].count /\ runner'[o].long = runner[o].long
             /\ runner'[o].cast = runner[o].cast /\ runner'[o].found = runner[o].found
             /\ ~runner[o].alone => ~runner'[o].alone
  <2>1. runner[o] \in RunnerType /\ runner'[o] \in {runner[o], [runner[o] EXCEPT !.alone = FALSE]}
    BY <1>2, <1>3, <1>5
  <2>2. QED
    BY <2>1 DEF RunnerType
<1>6. /\ runner'[p] \in RunnerType /\ runner'[p].sid = s /\ runner'[p].at \in {"refused", "replay"}
      /\ runner'[p].count = 0 /\ runner'[p].long = {}
      /\ runner'[p].cast = {} \/ (runner'[p].cast = LowestRanks /\ runner'[p].found = interns)
      /\ runner'[p].at = "replay" =>
            /\ Others(s) # {} => ~runner'[p].alone
            /\ \A o \in Others(s) : ~runner'[o].alone
  <2>1. LowestRanks \subseteq Cast /\ cast \subseteq Cast /\ <<>> \in Seq(OpenDays) /\ 1 \in 1 .. CastSize + 1
    BY <1>3, LowestRanksIs, SessionAssumption
  <2>2. CASE span[1] > Today \/ TradingDays(span) = <<>>
    <3>1. runner'[p] = [NewRunner EXCEPT !.at = "refused", !.sid = s]
      BY <1>2, <2>2
    <3>2. runner'[p] = [at |-> "refused", sid |-> s, days |-> <<>>, turn |-> 1, count |-> 0, long |-> {},
                        cast |-> {}, found |-> {}, alone |-> TRUE]
      BY <3>1 DEF NewRunner
    <3>3. QED
      BY <2>1, <3>2 DEF RunnerType
  <2>3. CASE ~(span[1] > Today \/ TradingDays(span) = <<>>)
    <3> DEFINE first == [at |-> "replay", sid |-> s, days |-> TradingDays(span), turn |-> 1, count |-> 0,
                         long |-> {}, cast |-> cast, found |-> interns, alone |-> Others(s) = {}]
    <3>1. runner'[p] = [NewRunner EXCEPT !.at = "replay", !.sid = s, !.days = TradingDays(span),
                                         !.cast = cast, !.found = interns, !.alone = Others(s) = {}]
      BY <1>2, <2>3
    <3> HIDE DEF Others
    <3>2. runner'[p] = first
      BY <3>1 DEF NewRunner
    <3>3. first \in RunnerType
      BY <1>3, <1>4, <2>1 DEF RunnerType
    <3>4. /\ first.sid = s /\ first.at = "replay" /\ first.count = 0 /\ first.long = {}
          /\ first.cast = cast /\ first.found = interns /\ (Others(s) # {} => ~first.alone)
      OBVIOUS
    <3>5. \A o \in Others(s) : runner'[o] = [runner[o] EXCEPT !.alone = FALSE] /\ runner[o] \in RunnerType
      BY <1>2, <1>3, <2>3 DEF Others
    <3>6. \A o \in Others(s) : ~runner'[o].alone
      BY <3>5 DEF RunnerType
    <3> HIDE DEF first
    <3>7. QED
      BY <3>2, <3>3, <3>4, <3>6
  <2>4. QED
    BY <2>2, <2>3
<1>7. runner' \in [Runners -> RunnerType]
  BY <1>3, <1>5, <1>6
<1>8. RowsOf(p) = {} /\ p # Live
  <2>1. p # Live
    BY SessionAssumption
  <2>2. QED
    BY <1>1, <2>1 DEF SessionInv, RowsAreOfRunners, RowsOf
<1>9. Merging' /\ ExtrasBelong' /\ \A t \in Sids : Written(t)' => ManifestFits(t)'
  <2>1. ASSUME NEW q \in Runners, runner[q].at \in {"merge", "done", "dead"}
        PROVE  /\ RowsOf(q)' = RowsOf(q) /\ runner'[q].sid = runner[q].sid /\ runner'[q].count = runner[q].count
               /\ runner'[q].long = runner[q].long /\ runner'[q].cast = runner[q].cast
               /\ ~runner[q].alone => ~runner'[q].alone
               /\ runner'[q].at = runner[q].at \/ (runner[q].at = "merge" /\ runner'[q].at = "dead")
    BY <1>1, <1>5, <2>1 DEF RowsOf
  <2>2. \A q \in Runners : runner'[q].at = "merge" => runner[q].at = "merge"
    BY <1>5, <1>6
  <2>3. tradeRows' \subseteq RowType /\ tradeRows \subseteq tradeRows' /\ UNCHANGED manifest
    BY <1>1, <1>3
  <2>4. QED
    BY <2>1, <2>2, <2>3, ManifestStays
<1>10. RowsAreNumbered' /\ RowsAreOfRunners'
  <2>1. RowsAreNumbered'
    BY <1>1 DEF SessionInv, RowsAreNumbered, RowsOf
  <2>2. \A x \in tradeRows : x.by # p /\ (x.by # Live => x.by \in Runners)
    BY <1>3, <1>8 DEF RowsOf, RowType
  <2>3. RowsAreOfRunners'
    BY <1>1, <1>5, <2>2 DEF SessionInv, RowsAreOfRunners
  <2>4. QED
    BY <2>1, <2>3
<1>11. RowsAreCounted'
  <2> SUFFICES ASSUME NEW q \in Runners
               PROVE  /\ runner'[q].count = Cardinality(RowsOf(q))
                      /\ runner'[q].long = {b \in Cast : Cardinality(RowsBy(q, b)) % 2 = 1}
    BY <1>1 DEF RowsAreCounted, RowsOf, RowsBy
  <2>1. CASE q = p
    <3>1. Cardinality(RowsOf(p)) = 0 /\ \A b \in Cast : Cardinality(RowsBy(p, b)) % 2 # 1
      BY <1>8, FS_EmptySet DEF RowsBy
    <3>2. QED
      BY <1>6, <2>1, <3>1
  <2>2. CASE q # p
    BY <1>5, <2>2 DEF SessionInv, RowsAreCounted
  <2>3. QED
    BY <2>1, <2>2
<1>12. CastIsLowest'
  <2> SUFFICES ASSUME NEW q \in Runners
               PROVE  /\ runner'[q].cast \subseteq runner'[q].found /\ Cardinality(runner'[q].cast) <= WatchCount
                      /\ \A a \in runner'[q].cast, b \in runner'[q].found \ runner'[q].cast : a < b
                      /\ runner'[q].at # "new" => runner'[q].sid \in Sids
    BY DEF CastIsLowest
  <2>1. CASE q = p
    <3>1. Cardinality({}) = 0 /\ WatchCount \in Nat
      BY FS_EmptySet, SessionAssumption
    <3>2. QED
      BY <1>3, <1>6, <2>1, <3>1, LowestRanksIs
  <2>2. CASE q # p
    BY <1>5, <2>2 DEF SessionInv, CastIsLowest
  <2>3. QED
    BY <2>1, <2>2
<1>13. RunBesides'
  <2> SUFFICES ASSUME NEW q \in Runners, NEW r \in Runners, q # r, Alive(q)', Alive(r)',
                      runner'[q].sid = runner'[r].sid
               PROVE  ~runner'[q].alone
    BY DEF RunBesides
  <2>1. CASE q # p /\ r # p
    <3>1. Alive(q) /\ Alive(r) /\ runner[q].sid = runner[r].sid
      BY <1>5, <2>1 DEF Alive
    <3>2. QED
      BY <1>5, <2>1, <3>1 DEF SessionInv, RunBesides
  <2>2. CASE q = p
    <3>1. r \in Others(s) /\ runner'[p].at = "replay"
      BY <1>5, <1>6, <2>2 DEF Alive
    <3>2. QED
      BY <1>6, <2>2, <3>1
  <2>3. CASE r = p
    <3>1. q \in Others(s) /\ runner'[p].at = "replay"
      BY <1>5, <1>6, <2>3 DEF Alive
    <3>2. QED
      BY <1>6, <2>3, <3>1
  <2>4. QED
    BY <2>1, <2>2, <2>3
<1>14. QED
  BY <1>1, <1>3, <1>7, <1>9, <1>10, <1>11, <1>12, <1>13 DEF SessionInv

(* A runner that writes the manifest of its session leaves the others as   *)
(* they are.                                                               *)
LEMMA WriteStays ==
    ASSUME SessionInv, NEW p \in Runners, Alive(p), NEW s \in Sids, s = runner[p].sid,
           NEW at \in {"merge", "done"}, runner' = [runner EXCEPT ![p].at = at],
           UNCHANGED <<tradeRows, interns, lived>>, DOMAIN manifest' = Sids,
           \A t \in Sids : t # s => manifest'[t] = manifest[t], ManifestFits(s)',
           LET m == manifest'[s] IN
           \/ m.extras.by = m.by
           \/ m.extras = NoExtras /\ runner'[m.by].at \in {"merge", "dead"}
           \/ ~runner'[m.by].alone,
           \A q \in Runners : runner'[q].at = "merge" /\ runner[q].sid = s =>
              LET m == manifest'[s] IN m # NoManifest /\ (m.by = q \/ ~runner'[m.by].alone)
    PROVE  SessionInv'
<1>1. runner \in [Runners -> RunnerType] /\ runner[p].at \in {"replay", "merge"}
  BY DEF SessionInv, Alive
<1>2. /\ runner' \in [Runners -> RunnerType] /\ runner'[p].at = at
      /\ \A q \in Runners : q # p => runner'[q] = runner[q]
      /\ runner'[p].sid = runner[p].sid /\ runner'[p].count = runner[p].count
      /\ runner'[p].long = runner[p].long /\ runner'[p].cast = runner[p].cast
      /\ runner'[p].found = runner[p].found /\ runner'[p].alone = runner[p].alone
  <2>1. runner[p] \in RunnerType
    BY <1>1
  <2>2. [runner[p] EXCEPT !.at = at] \in RunnerType
    BY <2>1 DEF RunnerType
  <2>3. /\ runner' = [runner EXCEPT ![p] = [runner[p] EXCEPT !.at = at]]
        /\ \A q \in Runners : q # p => runner'[q] = runner[q]
        /\ runner'[p] = [runner[p] EXCEPT !.at = at]
    BY <1>1
  <2>4. runner' \in [Runners -> RunnerType]
    BY <1>1, <2>2, <2>3
  <2>5. QED
    BY <2>1, <2>3, <2>4 DEF RunnerType
<1>3. RowsAreNumbered' /\ RowsAreOfRunners' /\ RowsAreCounted' /\ CastIsLowest' /\ RunBesides'
  BY <1>2, OneGoesOn, SMTT(30)
<1>4. ASSUME NEW t \in Sids, t # s, Written(t)'
      PROVE  /\ ManifestFits(t) /\ Written(t) /\ manifest'[t] = manifest[t]
             /\ manifest[t].by \in Runners \ {p} /\ manifest[t] \in ManifestType
  <2>1. Written(t) /\ manifest'[t] = manifest[t]
    BY <1>4 DEF Written
  <2>2. ManifestFits(t)
    BY <2>1, SMTT(30) DEF SessionInv
  <2>3. QED
    BY <1>4, <2>1, <2>2 DEF ManifestFits, ManifestType
<1>5. ASSUME NEW t \in Sids, Written(t)' PROVE ManifestFits(t)'
  <2>1. CASE t = s
    BY <2>1, ZenonT(30)
  <2>2. CASE t # s
    <3>1. /\ ManifestFits(t) /\ manifest'[t] = manifest[t] /\ manifest[t] \in ManifestType'
          /\ \A x : RowsOf(x)' = RowsOf(x)
      BY <1>4, <1>5, <2>2 DEF ManifestType, RowsOf
    <3>2. PICK q \in Runners \ {p} : q = manifest[t].by
      BY <1>4, <1>5, <2>2
    <3>3. runner'[q] = runner[q]
      BY <1>2, ZenonT(30)
    <3>4. ASSUME manifest[t].extras # NoExtras
          PROVE  LET e == manifest[t].extras.by IN
                 /\ manifest[t].extras \in ExtrasType /\ runner'[e].at = "done"
                 /\ manifest[t].extras.cast = runner'[e].cast
                 /\ manifest[t].extras.positions = Cardinality(runner'[e].long)
      <4>1. PICK r \in Runners : r = manifest[t].extras.by
        BY <3>1, <3>4, ZenonT(30) DEF ManifestFits, ExtrasType
      <4>2. runner[r].at = "done"
        BY <3>1, <3>4, <4>1 DEF ManifestFits
      <4>3. runner'[r] = runner[r]
        BY <1>1, <1>2, <4>2
      <4>4. QED
        BY <3>1, <3>4, <4>1, <4>3, ZenonT(30) DEF ManifestFits
    <3>5. QED
      BY <3>1, <3>2, <3>3, <3>4, ZenonT(30) DEF ManifestFits
  <2>3. QED
    BY <2>1, <2>2
<1>6. ExtrasBelong'
  <2> SUFFICES ASSUME NEW t \in Sids, Written(t)', t # s
               PROVE  LET m == manifest[t] IN
                      \/ m.extras.by = m.by
                      \/ m.extras = NoExtras /\ runner'[m.by].at \in {"merge", "dead"}
                      \/ ~runner'[m.by].alone
    BY <1>4 DEF ExtrasBelong
  <2>1. Written(t) /\ manifest[t].by \in Runners \ {p}
    BY <1>4, Zenon
  <2>2. runner'[manifest[t].by] = runner[manifest[t].by]
    BY <1>2, <2>1
  <2>3. QED
    BY <2>1, <2>2, Zenon DEF SessionInv, ExtrasBelong
<1>7. Merging'
  <2> SUFFICES ASSUME NEW q \in Runners, runner'[q].at = "merge"
               PROVE  LET m == manifest'[runner'[q].sid] IN m # NoManifest /\ (m.by = q \/ ~runner'[m.by].alone)
    BY DEF Merging
  <2>1. runner'[q].sid = runner[q].sid
    BY <1>2
  <2>2. CASE runner[q].sid = s
    BY <2>1, <2>2
  <2>3. CASE runner[q].sid # s
    <3>1. q # p /\ runner'[q] = runner[q]
      BY <1>2, <2>3
    <3>2. PICK t \in Sids : t = runner[q].sid
      BY <3>1 DEF SessionInv, CastIsLowest
    <3>3. manifest[t] # NoManifest /\ (manifest[t].by = q \/ ~runner[manifest[t].by].alone)
      BY <3>1, <3>2, SMTT(30) DEF SessionInv, Merging
    <3>4. Written(t)' /\ t # s
      BY <2>3, <3>2, <3>3 DEF Written
    <3>5. manifest'[t] = manifest[t] /\ runner'[manifest[t].by] = runner[manifest[t].by]
      BY <1>2, <1>4, <3>4
    <3>6. /\ runner'[q].sid = t /\ manifest'[t] # NoManifest
          /\ manifest'[t].by = q \/ ~runner'[manifest'[t].by].alone
      BY <3>1, <3>2, <3>3, <3>5, Zenon
    <3>7. QED
      BY <3>6, ZenonT(30)
  <2>4. QED
    BY <2>2, <2>3
<1>8. QED
  BY <1>2, <1>3, <1>5, <1>6, <1>7 DEF SessionInv

LEMMA Export_Inv == ASSUME SessionInv, NEW p \in Runners, Export(p) PROVE SessionInv'
<1>1. /\ runner[p].at = "replay" /\ UNCHANGED <<tradeRows, interns, lived>>
      /\ runner' = [runner EXCEPT ![p].at = "merge"]
  BY DEF Export
<1>2. PICK s \in Sids : s = runner[p].sid
  BY <1>1 DEF SessionInv, CastIsLowest
<1>3. /\ runner \in [Runners -> RunnerType] /\ Alive(p) /\ DOMAIN manifest = Sids
      /\ tradeRows \subseteq RowType
  BY <1>1 DEF SessionInv, Alive
<1> DEFINE m == [by |-> p, fills |-> runner[p].count, events |-> FillEvents(s), extras |-> NoExtras]
<1>4. manifest' = [manifest EXCEPT ![s] = m]
  BY <1>2 DEF Export, NewExtras
<1>5. /\ m.by = p /\ m.fills = runner[p].count /\ m.events = {x \in tradeRows : x.sid = s}
      /\ m.extras = NoExtras /\ m \in ManifestType'
  BY <1>1, <1>3 DEF FillEvents, RunnerType, ManifestType
<1> HIDE DEF m
<1>6. manifest'[s] = m /\ DOMAIN manifest' = Sids /\ \A t \in Sids : t # s => manifest'[t] = manifest[t]
  BY <1>3, <1>4
<1>7. /\ runner'[p].at = "merge" /\ runner'[p].sid = s /\ runner'[p].count = runner[p].count
      /\ runner'[p].alone = runner[p].alone
      /\ \A q \in Runners : q # p => runner'[q] = runner[q]
  BY <1>1, <1>2, <1>3 DEF RunnerType
<1>8. m # NoManifest
  BY <1>5, NotNoManifest DEF ManifestType
<1>9. ManifestFits(s)'
  <2>1. RowsOf(p)' \subseteq m.events
    <3> SUFFICES ASSUME NEW x \in tradeRows, x.by = p PROVE x.sid = s
      BY <1>1, <1>5 DEF RowsOf
    <3>1. p # Live
      BY SessionAssumption
    <3>2. QED
      BY <1>2, <3>1 DEF SessionInv, RowsAreOfRunners
  <2>2. QED
    BY <1>5, <1>6, <1>7, <2>1 DEF ManifestFits
<1>10. ASSUME NEW q \in Runners, runner'[q].at = "merge", runner[q].sid = s
       PROVE  m.by = q \/ ~runner'[m.by].alone
  <2>1. CASE q = p
    BY <1>5, <2>1
  <2>2. CASE q # p
    <3>1. Alive(q)
      BY <1>7, <1>10, <2>2 DEF Alive
    <3>2. ~runner[p].alone
      BY <1>2, <1>3, <1>10, <2>2, <3>1 DEF SessionInv, RunBesides
    <3>3. QED
      BY <1>5, <1>7, <3>2
  <2>3. QED
    BY <2>1, <2>2
<1>11. QED
  BY <1>1, <1>2, <1>3, <1>5, <1>6, <1>7, <1>8, <1>9, <1>10, WriteStays

LEMMA Merge_Inv == ASSUME SessionInv, NEW p \in Runners, Merge(p) PROVE SessionInv'
<1>1. /\ runner[p].at = "merge" /\ UNCHANGED <<tradeRows, interns, lived>>
      /\ runner' = [runner EXCEPT ![p].at = "done"]
  BY DEF Merge
<1>2. PICK s \in Sids : s = runner[p].sid
  BY <1>1 DEF SessionInv, CastIsLowest
<1>3. /\ runner \in [Runners -> RunnerType] /\ Alive(p) /\ DOMAIN manifest = Sids
      /\ tradeRows \subseteq RowType
  BY <1>1 DEF SessionInv, Alive
<1> DEFINE m == manifest[s]
           x == [by |-> p, cast |-> runner[p].cast, positions |-> Cardinality(runner[p].long)]
<1>4. m # NoManifest /\ (m.by = p \/ ~runner[m.by].alone)
  BY <1>1, <1>2 DEF SessionInv, Merging
<1>5. ManifestFits(s)
  BY <1>4 DEF SessionInv, Written
<1>6. PICK w \in Runners : w = m.by
  BY <1>5 DEF ManifestFits, ManifestType
<1>7. /\ x.by = p /\ x.cast = runner[p].cast /\ x.positions = Cardinality(runner[p].long)
      /\ x \in ExtrasType
  <2>1. runner[p].long \subseteq Cast /\ runner[p].cast \subseteq Cast
    BY <1>3 DEF RunnerType
  <2>2. 1 \in Int /\ CastSize \in Int
    BY SessionAssumption
  <2>3. IsFiniteSet(Cast)
    BY <2>2, FS_Interval DEF Cast
  <2>4. Cardinality(runner[p].long) \in Nat
    BY <2>1, <2>3, FS_Subset, FS_CardinalityType
  <2>5. QED
    BY <2>1, <2>4 DEF ExtrasType
<1>8. manifest' = [manifest EXCEPT ![s].extras = x]
  BY <1>2 DEF Merge, CastCard
<1> HIDE DEF x
<1>9. /\ manifest'[s] \in ManifestType' /\ manifest'[s].by = w /\ manifest'[s].fills = m.fills
      /\ manifest'[s].events = m.events /\ manifest'[s].extras = x
      /\ DOMAIN manifest' = Sids /\ \A t \in Sids : t # s => manifest'[t] = manifest[t]
  <2>1. m \in ManifestType /\ s \in DOMAIN manifest
    BY <1>3, <1>5 DEF ManifestFits
  <2>2. manifest'[s] = [m EXCEPT !.extras = x]
    BY <1>8, <2>1
  <2> HIDE DEF m
  <2>3. /\ manifest'[s] \in ManifestType' /\ manifest'[s].by = w /\ manifest'[s].fills = m.fills
        /\ manifest'[s].events = m.events /\ manifest'[s].extras = x
    BY <1>1, <1>6, <1>7, <2>1, <2>2 DEF ManifestType
  <2>4. QED
    BY <1>3, <1>8, <2>3
<1>10. /\ runner'[p].at = "done" /\ runner'[p].long = runner[p].long /\ runner'[p].cast = runner[p].cast
       /\ \A q \in Runners : q # p => runner'[q] = runner[q]
  BY <1>1, <1>3 DEF RunnerType
<1>11. /\ runner'[w].sid = s /\ runner'[w].at \in {"merge", "done", "dead"} /\ runner'[w].count = m.fills
       /\ runner'[w].alone = runner[w].alone /\ RowsOf(w)' \subseteq m.events /\ \A y \in m.events : y.sid = s
  <2>1. /\ runner[w].sid = s /\ runner[w].at \in {"merge", "done", "dead"} /\ runner[w].count = m.fills
        /\ RowsOf(w) \subseteq m.events /\ \A y \in m.events : y.sid = s
    BY <1>5, <1>6 DEF ManifestFits
  <2>2. /\ runner'[w].sid = runner[w].sid /\ runner'[w].count = runner[w].count
        /\ runner'[w].alone = runner[w].alone /\ (runner'[w].at = runner[w].at \/ runner'[w].at = "done")
    BY <1>1, <1>3 DEF RunnerType
  <2>3. RowsOf(w)' = RowsOf(w)
    BY <1>1 DEF RowsOf
  <2>4. QED
    BY <2>1, <2>2, <2>3
<1>12. ManifestFits(s)'
  BY <1>7, <1>9, <1>10, <1>11 DEF ManifestFits
<1>13. x.by = w \/ ~runner'[w].alone
  BY <1>4, <1>6, <1>7, <1>11
<1>14. ASSUME NEW q \in Runners, runner'[q].at = "merge", runner[q].sid = s
       PROVE  manifest'[s] # NoManifest /\ (w = q \/ ~runner'[w].alone)
  <2>1. runner[q].at = "merge" /\ q # p
    BY <1>10, <1>14
  <2>2. m.by = q \/ ~runner[m.by].alone
    BY <1>14, <2>1 DEF SessionInv, Merging
  <2>3. manifest'[s] # NoManifest
    <3>1. "fills" \in DOMAIN manifest'[s]
      BY <1>9 DEF ManifestType
    <3>2. "fills" \notin DOMAIN NoManifest
      BY DEF NoManifest
    <3>3. QED
      BY <3>1, <3>2
  <2>4. QED
    BY <1>6, <1>11, <2>2, <2>3
<1> HIDE DEF m
<1>15. QED
  BY <1>1, <1>2, <1>3, <1>9, <1>12, <1>13, <1>14, WriteStays

LEMMA SessionNext_Inv == ASSUME SessionInv, SessionNext PROVE SessionInv'
  BY Start_Inv, Turn_Inv, DayEnds_Inv, Export_Inv, Merge_Inv, Die_Inv, LiveTrade_Inv, LiveRank_Inv
     DEF SessionNext, RunnerStep

LEMMA SessionInvHolds == SessionSpec => []SessionInv
<1>1. SessionInv /\ [SessionNext]_sessionVars => SessionInv'
  BY SessionNext_Inv, SessionStutter_Inv
<1>2. QED
  BY SessionInit_Inv, <1>1, PTL DEF SessionSpec

LEMMA SessionInvImplies == SessionInv => ManifestIsOfOneSession
<1> SUFFICES ASSUME SessionInv PROVE ManifestIsOfOneSession
  OBVIOUS
<1>1. ASSUME NEW s \in Sids, Written(s)
      PROVE  /\ ManifestFits(s) /\ manifest[s].by \in Runners /\ manifest[s].events \subseteq tradeRows
             /\ manifest[s].extras # NoExtras => manifest[s].extras.by \in Runners
  <2>1. ManifestFits(s)
    BY <1>1 DEF SessionInv
  <2>2. QED
    BY <2>1 DEF ManifestFits, ManifestType, ExtrasType
<1>2. FillsAreCounted
  <2> SUFFICES ASSUME NEW s \in Sids, Written(s)
               PROVE  /\ Cardinality(manifest[s].events \cap RowsOf(manifest[s].by)) = manifest[s].fills
                      /\ \A x \in manifest[s].events \ RowsOf(manifest[s].by) :
                            x.by \in Runners /\ runner[x.by].sid = s
    BY DEF FillsAreCounted
  <2>1. PICK p \in Runners : p = manifest[s].by
    BY <1>1
  <2>2. RowsOf(p) \subseteq manifest[s].events /\ manifest[s].fills = runner[p].count
    BY <1>1, <2>1 DEF ManifestFits
  <2>3. manifest[s].events \cap RowsOf(p) = RowsOf(p)
    BY <2>2
  <2>4. Cardinality(RowsOf(p)) = manifest[s].fills
    BY <2>2 DEF SessionInv, RowsAreCounted
  <2>5. ASSUME NEW x \in manifest[s].events PROVE x.by \in Runners /\ runner[x.by].sid = s
    <3>1. x \in tradeRows /\ x.sid = s /\ s # Live
      BY <1>1, SessionAssumption DEF ManifestFits
    <3>2. x.by \in Runners \cup {Live}
      BY <3>1 DEF SessionInv, RowType
    <3>3. QED
      BY <3>1, <3>2 DEF SessionInv, RowsAreOfRunners
  <2>6. QED
    BY <2>1, <2>3, <2>4, <2>5
<1>3. CastIsOfTheStart
  <2> SUFFICES ASSUME NEW s \in Sids, Written(s), manifest[s].extras # NoExtras
               PROVE  LET x == manifest[s].extras
                          Of(a) == {row \in RowsOf(x.by) : row.agent = a}
                      IN  /\ x.cast \subseteq runner[x.by].found
                          /\ \A a \in x.cast, b \in runner[x.by].found \ x.cast : a < b
                          /\ x.positions = Cardinality({a \in Cast : Cardinality(Of(a)) % 2 = 1})
    BY DEF CastIsOfTheStart
  <2>1. PICK p \in Runners : p = manifest[s].extras.by
    BY <1>1
  <2>2. manifest[s].extras.cast = runner[p].cast /\ manifest[s].extras.positions = Cardinality(runner[p].long)
    BY <1>1, <2>1 DEF ManifestFits
  <2>3. runner[p].long = {a \in Cast : Cardinality({row \in RowsOf(p) : row.agent = a}) % 2 = 1}
    BY DEF SessionInv, RowsAreCounted, RowsBy
  <2>4. /\ runner[p].cast \subseteq runner[p].found
        /\ \A a \in runner[p].cast, b \in runner[p].found \ runner[p].cast : a < b
    BY DEF SessionInv, CastIsLowest
  <2>5. QED
    BY <2>1, <2>2, <2>3, <2>4
<1>4. QED
  BY <1>2, <1>3 DEF SessionInv, ManifestIsOfOneSession

(* Whatever shares the database and the session id with a runner, and      *)
(* whenever it dies, a manifest counts the fills of the runner that wrote  *)
(* it, lists no live row, has extras of that runner unless the two ran     *)
(* side by side, and shows the lowest interns of the moment the session    *)
(* began (session/run.py, manifest.py).                                    *)
THEOREM ManifestIsOfOneSessionHolds == SessionSpec => []ManifestIsOfOneSession
  BY SessionInvHolds, SessionInvImplies, PTL

-------------------------------------------------------------------------------
(* The podcast. *)
Parts == {"voice", "card", "teasers", "episode"}
ScriptFile == [by : Composers, provider : Providers, parses : BOOLEAN]
PartFile == [by : Composers, whole : BOOLEAN]
MetaFile == [by : Composers, video : Uploaders \cup {"none", "dry-run"}, uploaded : BOOLEAN]
Files == {"script", "meta"} \cup Parts
ComposerType ==
    [at : {"new", "drafted", "done", "broken"} \cup Files, writing : BOOLEAN, alone : BOOLEAN,
     week : [of : SUBSET Replays, told : SUBSET Replays]]
UploaderType ==
    [at : {"new", "sending", "sent", "done", "failed"}, copy : {Absent} \cup PartFile,
     dry : BOOLEAN, calm : BOOLEAN]
PodType ==
    /\ replayed \subseteq Replays /\ rollups \in 0 .. MaxRollups
    /\ DOMAIN shelf = Files
    /\ shelf["script"] \in {Absent} \cup ScriptFile /\ shelf["meta"] \in {Absent} \cup MetaFile
    /\ \A f \in Parts : shelf[f] \in {Absent} \cup PartFile
    /\ composer \in [Composers -> ComposerType] /\ uploader \in [Uploaders -> UploaderType]
    /\ channel \subseteq [name : Uploaders, from : Composers, whole : BOOLEAN]

(* The rollup is of sessions that are still there, and RollupIsTheWeek     *)
(* holds of it, here in first-order terms.                                 *)
Gains == [s \in Replays |-> ReportOf[s].pnl]
TopAgents(T) == Max({0} \cup {ReportOf[x].agents : x \in T})
TopMet(T) == Max({0} \cup {ReportOf[x].met : x \in T})
OfReplays == weekly # Absent => weekly.of \subseteq {s \in replayed : InWindow(ReportOf[s])}
SumsFit ==
    weekly # Absent =>
       LET of == weekly.of
           sum == weekly.sum
       IN  /\ sum.pnl = SumOf(Gains, of) /\ sum.agents = TopAgents(of) /\ sum.met = TopMet(of)
           /\ of # {} => sum.equity = ReportOf[Max(of)].equity
ToldFits ==
    /\ WeekIsTold
    /\ \A c \in Composers : Cardinality(composer[c].week.told) <= DaySegments

(* A composer that writes alone has left the files behind it whole, and    *)
(* only one that is writing, or broke off, has left one in pieces.         *)
Earlier(at) ==
    CASE at = "voice" -> {"script"}
      [] at = "card" -> {"script", "voice"}
      [] at = "teasers" -> {"script", "voice", "card"}
      [] at = "episode" -> {"script", "voice", "card", "teasers"}
      [] at = "meta" -> {"script"} \cup Parts
      [] OTHER -> {}
AtWork(c) == composer[c].at \in Files
OneAlone == \A c, o \in Composers : c # o /\ AtWork(c) /\ AtWork(o) => ~composer[c].alone
Behind ==
    \A c \in Composers : AtWork(c) /\ composer[c].alone =>
       \A f \in Earlier(composer[c].at) : shelf[f].by = c /\ (f # "script" => shelf[f].whole)
InPieces ==
    \A f \in Parts : shelf[f] # Absent /\ ~shelf[f].whole =>
       LET c == composer[shelf[f].by] IN c.at = "broken" \/ (c.at = f /\ c.writing)
WritesParts == \A c \in Composers : composer[c].writing => composer[c].at \in Parts
MetaIsLast == shelf["meta"] # Absent => composer[shelf["meta"].by].at = "done"

(* An episode of a composer that was alone, and is done, is the one the    *)
(* metadata is about: another that writes its metadata has put an episode  *)
(* of its own before, which only one at work beside it can have replaced.  *)
DoneShows ==
    shelf["episode"] # Absent =>
       LET c == shelf["episode"].by IN
       composer[c].at = "done" /\ composer[c].alone => shelf["meta"] # Absent /\ shelf["meta"].by = c
MuxIsBehind ==
    \A c \in Composers : composer[c].at = "meta" =>
       /\ shelf["episode"] # Absent
       /\ shelf["episode"].by = c \/ ~composer[shelf["episode"].by].alone

(* An upload that nothing has come between is of the episode the metadata  *)
(* is about; one that has been sent is on the channel.                     *)
Uploading ==
    \A u \in Uploaders :
       LET x == uploader[u] IN
       /\ x.at \in {"sending", "sent"} =>
             /\ x.copy # Absent
             /\ x.calm => shelf["meta"] # Absent /\ shelf["meta"].by = x.copy.by /\ x.copy.whole
       /\ x.at = "sent" /\ ~x.dry =>
             \E v \in channel : v.name = u /\ v.from = x.copy.by /\ v.whole = x.copy.whole
NotedByDone ==
    shelf["meta"] # Absent /\ shelf["meta"].video \in Uploaders => uploader[shelf["meta"].video].at = "done"

PodInv ==
    /\ PodType /\ OfReplays /\ SumsFit /\ ToldFits
    /\ OneAlone /\ Behind /\ InPieces /\ WritesParts /\ MetaIsLast /\ DoneIsWhole
    /\ DoneShows /\ MuxIsBehind
    /\ Uploading /\ NotedByDone /\ VideoIsDescribed

(* The sessions of the week, in order. *)
Week == {s \in replayed : InWindow(ReportOf[s])}
LEMMA WeekOrder ==
    ASSUME replayed \subseteq Replays
    PROVE  LET n == Cardinality(Week)
               s == OfTheWeek
           IN  /\ Week \in SUBSET Int /\ IsFiniteSet(Week) /\ n \in Nat /\ s \in [1 .. n -> Week]
               /\ s \in Seq(Week) /\ DOMAIN s = 1 .. n /\ Len(s) = n /\ ToSet(s) = Week
               /\ \A i, j \in 1 .. n : i < j => s[i] < s[j]
<1> DEFINE n == Cardinality(Week)
           s == OfTheWeek
<1>1. Week \subseteq Replays /\ IsFiniteSet(Week)
  BY PodcastAssumption, FS_Subset DEF Week
<1>2. Week \in SUBSET Int
  <2>1. ASSUME NEW x \in Week PROVE x \in Int
    BY <1>1, PodcastAssumption
  <2>2. QED
    BY <2>1
<1>3. s = Rising(Week)
  BY DEF OfTheWeek, Ordered, SortedBy, Week, Rising
<1> HIDE DEF s
<1>4. /\ s \in [1 .. n -> Week] /\ n \in Nat
      /\ \A i, j \in 1 .. n : i < j => s[i] < s[j]
      /\ \A x \in Week : \E i \in 1 .. n : s[i] = x
  BY <1>1, <1>2, <1>3, Sorted
<1> HIDE DEF n
<1>5. s \in Seq(Week) /\ DOMAIN s = 1 .. n /\ Len(s) = n
  BY <1>4
<1>6. ToSet(s) = Week
  BY <1>4 DEF ToSet
<1>7. QED
  BY <1>1, <1>2, <1>4, <1>5, <1>6 DEF s, n

(* The script tells the first of them. *)
LEMMA ToldIs ==
    ASSUME replayed \subseteq Replays
    PROVE  /\ Told \subseteq Week /\ Cardinality(Told) <= DaySegments
           /\ \A w \in Week \ Told : Cardinality(Told) = DaySegments /\ \A t \in Told : t < w
<1> DEFINE n == Cardinality(Week)
           s == OfTheWeek
           m == IF n <= DaySegments THEN n ELSE DaySegments
           f == [i \in 1 .. m |-> s[i]]
<1>1. /\ Week \in SUBSET Int /\ n \in Nat /\ s \in [1 .. n -> Week] /\ DOMAIN s = 1 .. n /\ ToSet(s) = Week
      /\ \A i, j \in 1 .. n : i < j => s[i] < s[j]
  BY WeekOrder
<1>2. DaySegments \in Nat /\ Told = {s[i] : i \in {i \in 1 .. n : i <= DaySegments}}
  BY <1>1, PodcastAssumption DEF Told, Among
<1> HIDE DEF s, n
<1>3. m \in Nat /\ 1 .. m = {i \in 1 .. n : i <= DaySegments} /\ 1 .. m \subseteq 1 .. n
  BY <1>1, <1>2
<1>4. Told = {s[i] : i \in 1 .. m}
  BY <1>2, <1>3
<1>5. f \in Bijection(1 .. m, Told)
  <2>1. f \in [1 .. m -> Told]
    BY <1>4
  <2>2. ASSUME NEW i \in 1 .. m, NEW j \in 1 .. m, i # j PROVE f[i] # f[j]
    <3>1. i \in 1 .. n /\ j \in 1 .. n /\ (i < j \/ j < i) /\ s[i] \in Int /\ s[j] \in Int
      <4> HIDE DEF m, f
      <4>1. i \in 1 .. n /\ j \in 1 .. n
        BY <1>3
      <4>2. i \in Int /\ j \in Int
        BY <4>1
      <4>3. s[i] \in Week /\ s[j] \in Week
        BY <1>1, <4>1
      <4>4. s[i] \in Int /\ s[j] \in Int
        BY <1>1, <4>3
      <4>5. i < j \/ j < i
        BY <2>2, <4>2
      <4>6. QED
        BY <4>1, <4>4, <4>5
    <3>2. s[i] < s[j] \/ s[j] < s[i]
      BY <1>1, <3>1
    <3>3. QED
      BY <3>1, <3>2
  <2>3. \A x \in Told : \E i \in 1 .. m : f[i] = x
    BY <1>4
  <2>4. QED
    BY <2>1, <2>2, <2>3 DEF Bijection, Injection, Surjection, IsInjective
<1>6. Cardinality(Told) = m
  <2> HIDE DEF m, f
  <2>1. 1 \in Int /\ m \in Int
    BY <1>3
  <2>2. IsFiniteSet(1 .. m) /\ Cardinality(1 .. m) = IF 1 > m THEN 0 ELSE m - 1 + 1
    BY <2>1, FS_Interval
  <2>3. Cardinality(1 .. m) = m
    BY <1>3, <2>2
  <2>4. ExistsBijection(1 .. m, Told)
    BY <1>5 DEF ExistsBijection
  <2>5. QED
    BY <2>2, <2>3, <2>4, FS_Bijection
<1>7. m <= DaySegments /\ (m < DaySegments => m = n)
  BY <1>1, <1>2
<1>8. m = n => Told = Week
  <2> HIDE DEF m
  <2>1. QED
    BY <1>1, <1>4 DEF ToSet
<1>9. Told \subseteq Week
  BY <1>1, <1>2
<1> HIDE DEF m
<1>10. ASSUME NEW w \in Week \ Told PROVE m = DaySegments /\ \A t \in Told : t < w
  <2>1. m = DaySegments
    BY <1>2, <1>3, <1>7, <1>8, <1>10
  <2>2. ASSUME NEW t \in Told PROVE t < w
    <3>1. PICK i \in 1 .. m : t = s[i]
      BY <1>4
    <3>2. PICK j \in 1 .. n : w = s[j]
      BY <1>1 DEF ToSet
    <3>3. ~(j <= m) /\ i \in 1 .. n /\ i <= m
      BY <1>1, <1>3, <1>4, <1>10, <3>1, <3>2
    <3>4. i < j
      BY <1>1, <1>3, <3>3
    <3>5. QED
      BY <1>1, <3>1, <3>2, <3>3, <3>4
  <2>3. QED
    BY <2>1, <2>2
<1>11. QED
  BY <1>6, <1>7, <1>9, <1>10

(* The greatest of a finite set of numbers and one more.                   *)
LEMMA MaxAdd ==
    ASSUME NEW S \in SUBSET Int, IsFiniteSet(S), S # {}, NEW y \in Int
    PROVE  Max(S \cup {y}) = Higher(Max(S), y)
<1> DEFINE m == Max(S)
           top == Max(S \cup {y})
<1>1. m \in S /\ m \in Int /\ \A x \in S : x <= m
  BY FiniteMax
<1>2. S \cup {y} \in SUBSET Int /\ IsFiniteSet(S \cup {y}) /\ S \cup {y} # {}
  BY FS_AddElement
<1>3. top \in S \cup {y} /\ top \in Int /\ \A x \in S \cup {y} : x <= top
  BY <1>2, FiniteMax
<1> HIDE DEF m, top
<1>4. top = Higher(m, y)
  <2>1. m <= top /\ y <= top
    BY <1>1, <1>3
  <2>2. CASE top = y
    BY <1>1, <2>1, <2>2 DEF Higher
  <2>3. CASE top \in S
    <3>1. top = m
      BY <1>1, <1>3, <2>1, <2>3
    <3>2. QED
      BY <1>1, <2>1, <3>1 DEF Higher
  <2>4. QED
    BY <1>3, <2>2, <2>3
<1>5. QED
  BY <1>4 DEF m, top

(* The library's sum of the gains is a sum. *)
LEMMA SumOfGains ==
    ASSUME NEW S \in SUBSET Replays, IsFiniteSet(S)
    PROVE  MapThenSumSet(LAMBDA s : ReportOf[s].pnl, S) = SumOf(Gains, S)
<1> DEFINE R(g) == g = [s \in SUBSET S |->
                          IF s = {} THEN 0
                          ELSE ReportOf[CHOOSE x \in s : TRUE].pnl + g[s \ {CHOOSE x \in s : TRUE}]]
           g == CHOOSE h : R(h)
<1>1. \A s \in SUBSET S : s # {} =>
         LET x == CHOOSE x \in s : TRUE IN x \in S /\ Gains[x] = ReportOf[x].pnl
  BY DEF Gains
<1>2. \A h : R(h) <=> IsSum(h, Gains, S)
  BY <1>1 DEF IsSum, Pick
<1>3. R(g)
  <2>1. PICK h : IsSum(h, Gains, S)
    BY SumExists
  <2> HIDE DEF R
  <2>2. R(h)
    BY <1>2, <2>1
  <2>3. QED
    BY <2>2
<1>4. MapThenSumSet(LAMBDA s : ReportOf[s].pnl, S) = g[S]
  BY DEF MapThenSumSet, MapThenFoldSet
<1> HIDE DEF g, R
<1>5. SumOf(Gains, S) = g[S]
  BY <1>2, <1>3, SumOfIs
<1>6. QED
  BY <1>4, <1>5

(* The totals after the first k sessions of a sequence of them. *)
FirstOf(s, k) == {s[i] : i \in 1 .. k}
Totals(s, k) ==
    [pnl |-> SumOf(Gains, FirstOf(s, k)), equity |-> IF k = 0 THEN 0 ELSE ReportOf[s[k]].equity,
     agents |-> TopAgents(FirstOf(s, k)), met |-> TopMet(FirstOf(s, k))]
Sums == [pnl : Int, equity : Int, agents : Nat, met : Nat]

LEMMA ReportType ==
    ASSUME NEW x \in Replays
    PROVE  /\ ReportOf[x].pnl \in Int /\ ReportOf[x].equity \in Int /\ Gains[x] = ReportOf[x].pnl
           /\ ReportOf[x].agents \in Nat /\ ReportOf[x].met \in Nat
  BY PodcastAssumption DEF Gains

LEMMA AddedType == ASSUME NEW sum \in Sums, NEW x \in Replays PROVE Added(sum, x) \in Sums
<1>1. Higher(sum.agents, ReportOf[x].agents) \in Nat /\ Higher(sum.met, ReportOf[x].met) \in Nat
  BY ReportType DEF Sums, Higher
<1>2. sum.pnl + ReportOf[x].pnl \in Int /\ ReportOf[x].equity \in Int
  BY ReportType DEF Sums
<1>3. QED
  BY <1>1, <1>2 DEF Added, Sums

(* One session more. *)
LEMMA TotalsAdd ==
    ASSUME NEW n \in Nat, NEW s \in [1 .. n -> Replays], \A i, j \in 1 .. n : i < j => s[i] < s[j],
           NEW k \in 1 .. n
    PROVE  Totals(s, k) = Added(Totals(s, k - 1), s[k])
<1> DEFINE P == FirstOf(s, k - 1)
           x == s[k]
<1>1. x \in Replays /\ P \subseteq Replays /\ k - 1 \in Nat
  BY DEF FirstOf
<1>2. FirstOf(s, k) = P \cup {x}
  <2>1. 1 .. k = (1 .. (k - 1)) \cup {k}
    OBVIOUS
  <2>2. QED
    BY <2>1 DEF FirstOf
<1>3. x \notin P
  <2> SUFFICES ASSUME NEW i \in 1 .. (k - 1), s[i] = s[k] PROVE FALSE
    BY DEF FirstOf
  <2>1. i \in 1 .. n /\ i < k
    OBVIOUS
  <2>2. s[i] < s[k] /\ s[i] \in Replays
    BY <2>1
  <2>3. s[i] \in Nat
    BY <2>2, PodcastAssumption
  <2>4. QED
    BY <2>2, <2>3
<1>4. IsFiniteSet(P)
  BY <1>1, PodcastAssumption, FS_Subset
<1> HIDE DEF P, x
<1>5. SumOf(Gains, P \cup {x}) = SumOf(Gains, P) + ReportOf[x].pnl
  <2>1. \A y \in P \cup {x} : Gains[y] \in Int
    BY <1>1, ReportType
  <2>2. SumOf(Gains, P \cup {x}) = Gains[x] + SumOf(Gains, P) /\ SumOf(Gains, P) \in Int
    BY <1>3, <1>4, <2>1, SumOfAdd, SumOfType
  <2>3. QED
    BY <1>1, <2>2, ReportType
<1>6. TopAgents(P \cup {x}) = Higher(TopAgents(P), ReportOf[x].agents)
  <2> DEFINE S == {0} \cup {ReportOf[y].agents : y \in P}
  <2>1. IsFiniteSet(S)
    <3>1. IsFiniteSet({ReportOf[y].agents : y \in P})
      <4> DEFINE g == [y \in P |-> ReportOf[y].agents]
      <4>1. g \in Surjection(P, {ReportOf[y].agents : y \in P})
        BY DEF Surjection
      <4>2. QED
        BY <1>4, <4>1, FS_Surjection
    <3>2. QED
      BY <3>1, FS_Singleton, FS_Union
  <2>2. S \in SUBSET Int /\ S # {}
    <3>1. \A y \in P : ReportOf[y].agents \in Int
      BY <1>1, ReportType
    <3>2. QED
      BY <3>1
  <2>3. {0} \cup {ReportOf[y].agents : y \in P \cup {x}} = S \cup {ReportOf[x].agents}
    OBVIOUS
  <2>4. ReportOf[x].agents \in Int
    BY <1>1, ReportType
  <2> HIDE DEF S
  <2>5. Max(S \cup {ReportOf[x].agents}) = Higher(Max(S), ReportOf[x].agents)
    BY <2>1, <2>2, <2>4, MaxAdd
  <2>6. QED
    BY <2>3, <2>5 DEF TopAgents, S
<1>7. TopMet(P \cup {x}) = Higher(TopMet(P), ReportOf[x].met)
  <2> DEFINE S == {0} \cup {ReportOf[y].met : y \in P}
  <2>1. IsFiniteSet(S)
    <3>1. IsFiniteSet({ReportOf[y].met : y \in P})
      <4> DEFINE g == [y \in P |-> ReportOf[y].met]
      <4>1. g \in Surjection(P, {ReportOf[y].met : y \in P})
        BY DEF Surjection
      <4>2. QED
        BY <1>4, <4>1, FS_Surjection
    <3>2. QED
      BY <3>1, FS_Singleton, FS_Union
  <2>2. S \in SUBSET Int /\ S # {}
    <3>1. \A y \in P : ReportOf[y].met \in Int
      BY <1>1, ReportType
    <3>2. QED
      BY <3>1
  <2>3. {0} \cup {ReportOf[y].met : y \in P \cup {x}} = S \cup {ReportOf[x].met}
    OBVIOUS
  <2>4. ReportOf[x].met \in Int
    BY <1>1, ReportType
  <2> HIDE DEF S
  <2>5. Max(S \cup {ReportOf[x].met}) = Higher(Max(S), ReportOf[x].met)
    BY <2>1, <2>2, <2>4, MaxAdd
  <2>6. QED
    BY <2>3, <2>5 DEF TopMet, S
<1>8. QED
  BY <1>2, <1>5, <1>6, <1>7 DEF Totals, Added, P, x

(* The one pass over the sessions computes the totals of them all. *)
LEMMA RollupIs ==
    ASSUME replayed \subseteq Replays
    PROVE  ComputeRollup = Totals(OfTheWeek, Cardinality(Week))
<1> DEFINE n == Cardinality(Week)
           s == OfTheWeek
           R(h) == h = [T \in SUBSET (1 .. n) |->
                          IF T = {} THEN Empty ELSE Added(h[T \ {Max(T)}], s[Max(T)])]
           step == [p \in (1 .. n) \X Sums |-> Added(p[2], s[p[1]])]
           c == [k \in 0 .. n |-> Totals(s, k)]
<1>1. n \in Nat /\ s \in [1 .. n -> Replays] /\ DOMAIN s = 1 .. n /\ \A i, j \in 1 .. n : i < j => s[i] < s[j]
  <2>1. Week \subseteq Replays
    BY DEF Week
  <2>2. QED
    BY <2>1, WeekOrder
<1>2. ComputeRollup = (CHOOSE h : R(h))[1 .. n]
  BY <1>1 DEF ComputeRollup, FoldLeft, MapThenFoldSet
<1> HIDE DEF s, n
<1>3. step \in [(1 .. n) \X Sums -> Sums]
  <2>1. \A k \in 1 .. n, b \in Sums : Added(b, s[k]) \in Sums
    BY <1>1, AddedType
  <2>2. QED
    BY <2>1
<1>4. Empty \in Sums
  BY DEF Empty, Sums
<1>5. \E h : R(h)
  <2> HIDE DEF step
  <2>1. PICK h \in [SUBSET (1 .. n) -> Sums] : IsFold(h, Empty, step, n)
    BY <1>1, <1>3, <1>4, FoldExists
  <2> DEFINE q(T) == IF T = {} THEN Empty ELSE step[<<Max(T), h[T \ {Max(T)}]>>]
             r(T) == IF T = {} THEN Empty ELSE Added(h[T \ {Max(T)}], s[Max(T)])
  <2>2. \A T \in SUBSET (1 .. n) : q(T) = r(T)
    <3> TAKE T \in SUBSET (1 .. n)
    <3> SUFFICES ASSUME T # {} PROVE q(T) = r(T)
      OBVIOUS
    <3>1. Max(T) \in 1 .. n
      BY <1>1, MaxOfRange
    <3>2. h[T \ {Max(T)}] \in Sums
      OBVIOUS
    <3>3. <<Max(T), h[T \ {Max(T)}]>> \in (1 .. n) \X Sums
      BY <3>1, <3>2
    <3>4. QED
      BY <3>3 DEF step
  <2>3. h = [T \in SUBSET (1 .. n) |-> q(T)]
    BY <2>1 DEF IsFold
  <2> HIDE DEF q, r
  <2>4. h = [T \in SUBSET (1 .. n) |-> r(T)]
    BY <2>2, <2>3
  <2>5. R(h)
    BY <2>4 DEF r
  <2> HIDE DEF R
  <2>6. QED
    BY <2>5
<1>6. PICK h : R(h) /\ ComputeRollup = h[1 .. n]
  <2> HIDE DEF R
  <2>1. QED
    BY <1>2, <1>5
<1>7. ASSUME NEW T \in SUBSET (1 .. n)
      PROVE  h[T] = IF T = {} THEN Empty ELSE Added(h[T \ {Max(T)}], s[Max(T)])
  BY <1>6
<1> HIDE DEF R
<1>8. h[{}] = c[0]
  <2>1. FirstOf(s, 0) = {}
    BY DEF FirstOf
  <2>2. TopAgents({}) = 0 /\ TopMet({}) = 0
    <3>1. {0} \in SUBSET Int /\ IsFiniteSet({0})
      BY FS_Singleton
    <3>2. Max({0}) = 0
      BY <3>1, FiniteMax
    <3>3. QED
      BY <3>2 DEF TopAgents, TopMet
  <2>3. Totals(s, 0) = Empty
    BY <2>1, <2>2, SumOfEmpty DEF Totals, Empty
  <2>4. {} \in SUBSET (1 .. n) /\ 0 \in 0 .. n
    BY <1>1
  <2>5. h[{}] = Empty
    BY <1>7, <2>4
  <2>6. QED
    BY <2>3, <2>4, <2>5
<1>9. ASSUME NEW k \in 1 .. n, h[1 .. (k - 1)] = c[k - 1] PROVE h[1 .. k] = c[k]
  <2>1. 1 .. k \in SUBSET (1 .. n) /\ 1 .. k # {} /\ Max(1 .. k) = k /\ (1 .. k) \ {k} = 1 .. (k - 1)
    BY <1>1, Prefix
  <2>2. h[1 .. k] = Added(h[1 .. (k - 1)], s[k])
    BY <1>7, <2>1
  <2>3. k \in 0 .. n /\ k - 1 \in 0 .. n
    BY <1>1
  <2>4. QED
    BY <1>1, <1>9, <2>2, <2>3, TotalsAdd
<1> HIDE DEF c
<1>10. h[1 .. n] = c[n]
  BY <1>1, <1>8, <1>9, FoldIsLast
<1>11. n \in 0 .. n
  BY <1>1
<1>12. QED
  BY <1>6, <1>10, <1>11 DEF n, c, s

LEMMA RollupFits ==
    ASSUME PodInv, weekly' = [by |-> "rollup", sum |-> ComputeRollup, of |-> ToSet(OfTheWeek), video |-> PodcastField]
    PROVE  SumsFit' /\ weekly'.of = Week
<1> DEFINE n == Cardinality(Week)
           s == OfTheWeek
           sum == Totals(s, n)
<1>1. replayed \subseteq Replays
  BY DEF PodInv, PodType
<1>2. /\ n \in Nat /\ s \in [1 .. n -> Week] /\ DOMAIN s = 1 .. n /\ ToSet(s) = Week /\ IsFiniteSet(Week)
      /\ Week \in SUBSET Int /\ \A i, j \in 1 .. n : i < j => s[i] < s[j]
  BY <1>1, WeekOrder
<1>3. weekly'.of = Week /\ weekly'.sum = sum
  BY <1>1, <1>2, RollupIs
<1>4. FirstOf(s, n) = Week
  BY <1>2 DEF FirstOf, ToSet
<1>6. sum.pnl = SumOf(Gains, Week) /\ sum.agents = TopAgents(Week) /\ sum.met = TopMet(Week)
  BY <1>4 DEF Totals
<1>8. ASSUME Week # {} PROVE sum.equity = ReportOf[Max(Week)].equity
  <2> HIDE DEF s, n
  <2>1. n # 0
    <3>1. PICK x \in Week : TRUE
      BY <1>8
    <3>2. PICK i \in 1 .. n : s[i] = x
      BY <1>2, <3>1 DEF ToSet
    <3>3. QED
      BY <1>2, <3>2
  <2>2. n \in 1 .. n /\ s[n] \in Week
    BY <1>2, <2>1
  <2>3. \A y \in Week : y <= s[n] /\ y \in Int
    <3> SUFFICES ASSUME NEW y \in Week PROVE y <= s[n] /\ y \in Int
      OBVIOUS
    <3>1. PICK i \in 1 .. n : s[i] = y
      BY <1>2 DEF ToSet
    <3>2. s[i] \in Int /\ s[n] \in Int
      BY <1>2, <2>2
    <3>3. i = n \/ i < n
      BY <1>2
    <3>4. QED
      BY <1>2, <2>2, <3>1, <3>2, <3>3
  <2>4. Max(Week) \in Week /\ s[n] <= Max(Week)
    BY <1>2, <1>8, <2>2, FiniteMax
  <2>5. Max(Week) = s[n]
    BY <2>2, <2>3, <2>4
  <2>6. QED
    BY <2>1, <2>5 DEF Totals
<1> HIDE DEF sum, n, s
<1>9. SumsFit'
  BY <1>3, <1>6, <1>8 DEF SumsFit, TopAgents, TopMet, Gains
<1>10. QED
  BY <1>3, <1>9

(* ToSet(Stages), and where a stage leads. *)
LEMMA StagesAre == ToSet(Stages) = Files
  BY DEF ToSet, Stages, Files, Parts
LEMMA NextStageIs ==
    /\ NextStage("voice") = "card" /\ NextStage("card") = "teasers"
    /\ NextStage("teasers") = "episode" /\ NextStage("episode") = "meta"
<1>1. DOMAIN Stages = 1 .. 6 /\ Stages[1] = "script" /\ Stages[2] = "voice" /\ Stages[3] = "card"
      /\ Stages[4] = "teasers" /\ Stages[5] = "episode" /\ Stages[6] = "meta"
  BY DEF Stages
<1>2. \A i \in 1 .. 6 : i = 1 \/ i = 2 \/ i = 3 \/ i = 4 \/ i = 5 \/ i = 6
  OBVIOUS
<1>3. ASSUME NEW k \in 1 .. 6 PROVE (CHOOSE i \in DOMAIN Stages : Stages[i] = Stages[k]) = k
  BY <1>1, <1>2
<1>4. QED
  BY <1>1, <1>3 DEF NextStage

(* What is said of the week stays while the rollup and the scripts do. *)
LEMMA WeekStays ==
    ASSUME PodInv, UNCHANGED weekly, replayed \subseteq replayed',
           \A c \in Composers : composer'[c].week = composer[c].week
    PROVE  OfReplays' /\ SumsFit' /\ ToldFits'
<1>1. OfReplays'
  BY DEF PodInv, OfReplays, InWindow
<1>2. SumsFit'
  BY DEF PodInv, SumsFit, TopAgents, TopMet, Gains
<1>3. ToldFits'
  BY DEF PodInv, ToldFits, WeekIsTold
<1>4. QED
  BY <1>1, <1>2, <1>3

(* What is said of uploads stays while they and the metadata do.           *)
LEMMA UploadsStay ==
    ASSUME PodInv, UNCHANGED <<uploader, channel>>, shelf'["meta"] = shelf["meta"]
    PROVE  Uploading' /\ NotedByDone' /\ VideoIsDescribed'
  BY DEF PodInv, Uploading, NotedByDone, VideoIsDescribed

(* What is said of files stays while the composers, the files and the      *)
(* author of the metadata do.                                              *)
LEMMA FilesStay ==
    ASSUME PodInv, UNCHANGED composer,
           \A f \in {"script"} \cup Parts : shelf'[f] = shelf[f],
           shelf'["meta"] # Absent <=> shelf["meta"] # Absent,
           shelf["meta"] # Absent => shelf'["meta"].by = shelf["meta"].by
    PROVE  /\ DoneShows' /\ MuxIsBehind'
           /\ OneAlone' /\ Behind' /\ InPieces' /\ WritesParts' /\ MetaIsLast' /\ DoneIsWhole'
<1>1. OneAlone' /\ WritesParts'
  BY DEF PodInv, OneAlone, WritesParts, AtWork
<1>2. \A at : Earlier(at) \subseteq {"script"} \cup Parts
  BY DEF Earlier, Parts
<1>3. Behind'
  BY <1>2 DEF PodInv, Behind, AtWork
<1>4. InPieces'
  BY DEF PodInv, InPieces
<1>5. MetaIsLast'
  BY DEF PodInv, MetaIsLast
<1>6. DoneIsWhole'
  BY DEF PodInv, DoneIsWhole, Parts
<1>7. DoneShows' /\ MuxIsBehind'
  BY DEF PodInv, DoneShows, MuxIsBehind, Parts
<1>8. QED
  BY <1>1, <1>3, <1>4, <1>5, <1>6, <1>7

LEMMA NotAbsent == ASSUME NEW x, x \in PartFile \/ x \in MetaFile PROVE x # Absent
<1>1. "whole" \in DOMAIN x \/ "video" \in DOMAIN x
  BY DEF PartFile, MetaFile
<1>2. "whole" \notin DOMAIN Absent /\ "video" \notin DOMAIN Absent
  BY DEF Absent
<1>3. QED
  BY <1>1, <1>2

LEMMA PodInit_Inv == ASSUME PodcastInit PROVE PodInv
<1>1. /\ replayed = {} /\ weekly = Absent /\ rollups = 0 /\ channel = {}
      /\ DOMAIN shelf = Files /\ \A f \in Files : shelf[f] = Absent
  BY StagesAre DEF PodcastInit
<1>2. \A c \in Composers : /\ composer[c].at = "new" /\ ~composer[c].writing /\ composer[c].week = NoWeek
                           /\ composer[c] \in ComposerType
  BY DEF PodcastInit, ComposerType, NoWeek
<1>3. \A u \in Uploaders : uploader[u].at = "new" /\ uploader[u] \in UploaderType
  BY DEF PodcastInit, UploaderType
<1>4. PodType
  <2>1. composer \in [Composers -> ComposerType] /\ uploader \in [Uploaders -> UploaderType]
    BY <1>2, <1>3 DEF PodcastInit
  <2>2. 0 \in 0 .. MaxRollups
    BY PodcastAssumption
  <2>3. QED
    BY <1>1, <2>1, <2>2 DEF PodType, Files
<1>5. OfReplays /\ SumsFit
  BY <1>1 DEF OfReplays, SumsFit
<1>6. ToldFits
  <2>1. Cardinality({}) = 0 /\ DaySegments \in Nat
    BY FS_EmptySet, PodcastAssumption
  <2>2. QED
    BY <1>2, <2>1 DEF ToldFits, WeekIsTold, NoWeek
<1>7. OneAlone /\ Behind /\ WritesParts
  <2>1. \A c \in Composers : ~AtWork(c)
    BY <1>2 DEF AtWork, Files, Parts
  <2>2. QED
    BY <1>2, <2>1 DEF OneAlone, Behind, WritesParts
<1>8. /\ InPieces /\ MetaIsLast /\ DoneIsWhole /\ NotedByDone /\ VideoIsDescribed
      /\ DoneShows /\ MuxIsBehind
  BY <1>1, <1>2 DEF DoneShows, MuxIsBehind, InPieces, MetaIsLast, DoneIsWhole, NotedByDone, VideoIsDescribed, Files, Parts
<1>9. Uploading
  BY <1>3 DEF Uploading
<1>10. QED
  BY <1>4, <1>5, <1>6, <1>7, <1>8, <1>9 DEF PodInv

LEMMA PodStutter_Inv == ASSUME PodInv, UNCHANGED podVars PROVE PodInv'
<1>1. PodType'
  BY DEF PodInv, PodType, podVars
<1>2. OfReplays' /\ SumsFit' /\ ToldFits'
  BY WeekStays DEF podVars
<1>3. Uploading' /\ NotedByDone' /\ VideoIsDescribed'
  BY UploadsStay DEF podVars
<1>4. OneAlone' /\ Behind' /\ InPieces' /\ WritesParts' /\ MetaIsLast' /\ DoneIsWhole' /\ DoneShows' /\ MuxIsBehind'
  BY FilesStay DEF podVars
<1>5. QED
  BY <1>1, <1>2, <1>3, <1>4 DEF PodInv

LEMMA SessionEnds_Inv == ASSUME PodInv, SessionEnds PROVE PodInv'
<1>1. /\ replayed \subseteq replayed' /\ replayed' \subseteq Replays
      /\ UNCHANGED <<weekly, rollups, shelf, composer, uploader, channel>>
  BY DEF SessionEnds, PodInv, PodType
<1>2. PodType'
  BY <1>1 DEF PodInv, PodType
<1>3. OfReplays' /\ SumsFit' /\ ToldFits'
  BY <1>1, WeekStays
<1>4. Uploading' /\ NotedByDone' /\ VideoIsDescribed'
  BY <1>1, UploadsStay
<1>5. OneAlone' /\ Behind' /\ InPieces' /\ WritesParts' /\ MetaIsLast' /\ DoneIsWhole' /\ DoneShows' /\ MuxIsBehind'
  BY <1>1, FilesStay
<1>6. QED
  BY <1>2, <1>3, <1>4, <1>5 DEF PodInv

LEMMA WriteRollup_Inv == ASSUME PodInv, WriteRollup PROVE PodInv'
<1>1. /\ weekly' = [by |-> "rollup", sum |-> ComputeRollup, of |-> ToSet(OfTheWeek), video |-> PodcastField]
      /\ rollups < MaxRollups /\ rollups' = rollups + 1
      /\ UNCHANGED <<replayed, shelf, composer, uploader, channel>>
  BY DEF WriteRollup
<1>2. PodType'
  BY <1>1, PodcastAssumption DEF PodInv, PodType
<1>3. SumsFit' /\ weekly'.of = Week
  BY <1>1, RollupFits
<1>4. OfReplays' /\ ToldFits'
  BY <1>1, <1>3 DEF PodInv, OfReplays, ToldFits, WeekIsTold, Week, InWindow
<1>5. Uploading' /\ NotedByDone' /\ VideoIsDescribed'
  BY <1>1, UploadsStay
<1>6. OneAlone' /\ Behind' /\ InPieces' /\ WritesParts' /\ MetaIsLast' /\ DoneIsWhole' /\ DoneShows' /\ MuxIsBehind'
  BY <1>1, FilesStay
<1>7. QED
  BY <1>2, <1>3, <1>4, <1>5, <1>6 DEF PodInv

LEMMA Begin_Inv == ASSUME PodInv, NEW c \in Composers, Begin(c) PROVE PodInv'
<1> DEFINE others == {o \in Composers \ {c} : AtWork(o)}
           first == [at |-> "script", writing |-> FALSE, alone |-> others = {},
                     week |-> [of |-> weekly.of, told |-> Told]]
<1>1. /\ composer[c].at = "new" /\ UNCHANGED <<replayed, weekly, rollups, shelf, uploader, channel>>
      /\ composer' = [o \in Composers |->
            IF o = c /\ weekly = Absent THEN [composer[c] EXCEPT !.at = "broken"]
            ELSE IF o = c THEN first
            ELSE IF o \in others /\ weekly # Absent THEN [composer[o] EXCEPT !.alone = FALSE]
            ELSE composer[o]]
  BY StagesAre DEF Begin, Composing, AtWork
<1>2. composer \in [Composers -> ComposerType] /\ replayed \subseteq Replays
  BY DEF PodInv, PodType
<1>3. /\ Told \subseteq Week /\ Week \subseteq Replays /\ Cardinality(Told) <= DaySegments
      /\ \A w \in Week \ Told : Cardinality(Told) = DaySegments /\ \A t \in Told : t < w
  BY <1>2, ToldIs DEF Week
<1>4. weekly # Absent => weekly.of \subseteq Week
  BY DEF PodInv, OfReplays, Week
<1>5. weekly # Absent => first \in ComposerType
  <2>1. weekly # Absent => weekly.of \in SUBSET Replays /\ Told \in SUBSET Replays
    BY <1>3, <1>4
  <2> HIDE DEF others
  <2>2. QED
    BY <2>1 DEF ComposerType, Files
<1>6. ASSUME NEW o \in Composers, o # c
      PROVE  /\ composer'[o] \in ComposerType /\ composer'[o].at = composer[o].at
             /\ composer'[o].writing = composer[o].writing /\ composer'[o].week = composer[o].week
             /\ composer'[o].alone => composer[o].alone
             /\ composer[o].alone /\ ~composer'[o].alone => AtWork(o)
             /\ AtWork(o) /\ weekly # Absent => ~composer'[o].alone
  <2>1. composer[o] \in ComposerType
    BY <1>2
  <2>2. CASE o \in others /\ weekly # Absent
    <3>1. composer'[o] = [composer[o] EXCEPT !.alone = FALSE]
      BY <1>1, <1>6, <2>2
    <3>2. QED
      BY <2>1, <2>2, <3>1 DEF ComposerType
  <2>3. CASE ~(o \in others /\ weekly # Absent)
    <3>1. composer'[o] = composer[o]
      BY <1>1, <1>6, <2>3
    <3>2. QED
      BY <1>6, <2>1, <2>3, <3>1
  <2>4. QED
    BY <2>2, <2>3
<1>7. /\ weekly = Absent => /\ composer'[c] \in ComposerType /\ composer'[c].at = "broken"
                            /\ composer'[c].writing = composer[c].writing /\ composer'[c].week = composer[c].week
      /\ weekly # Absent => composer'[c] = first
  <2>1. weekly = Absent => composer'[c] = [composer[c] EXCEPT !.at = "broken"]
    BY <1>1
  <2>2. QED
    BY <1>1, <1>2, <2>1 DEF ComposerType
<1>8. /\ first.at = "script" /\ ~first.writing /\ first.week.of = weekly.of /\ first.week.told = Told
      /\ (first.alone <=> others = {})
  OBVIOUS
<1> HIDE DEF first
<1>9. /\ composer'[c].at \in {"broken", "script"} /\ ~composer'[c].writing
      /\ AtWork(c)' => weekly # Absent
  <2>1. ~composer[c].writing
    BY <1>1 DEF PodInv, WritesParts, Parts
  <2>2. QED
    BY <1>7, <1>8, <2>1 DEF AtWork, Files, Parts
<1>10. PodType'
  <2>1. composer' \in [Composers -> ComposerType]
    BY <1>1, <1>5, <1>6, <1>7
  <2>2. QED
    BY <1>1, <2>1 DEF PodInv, PodType
<1>11. OfReplays' /\ SumsFit'
  BY <1>1 DEF PodInv, OfReplays, SumsFit, InWindow, TopAgents, TopMet, Gains
<1>12. ToldFits'
  <2> SUFFICES ASSUME NEW o \in Composers
               PROVE  /\ Cardinality(composer'[o].week.told) <= DaySegments
                      /\ \A t \in composer'[o].week.told : InWindow(ReportOf[t])
                      /\ \A w \in composer'[o].week.of \ composer'[o].week.told :
                            /\ Cardinality(composer'[o].week.told) = DaySegments
                            /\ \A t \in composer'[o].week.told : t < w
    BY DEF ToldFits, WeekIsTold, InWindow
  <2>1. CASE composer'[o].week = composer[o].week
    BY <2>1 DEF PodInv, ToldFits, WeekIsTold
  <2>2. CASE o = c /\ weekly # Absent
    BY <1>3, <1>4, <1>7, <1>8, <2>2 DEF Week
  <2>3. QED
    BY <1>6, <1>7, <2>1, <2>2
<1>13. OneAlone'
  <2> SUFFICES ASSUME NEW a \in Composers, NEW b \in Composers, a # b, AtWork(a)', AtWork(b)'
               PROVE  ~composer'[a].alone
    BY DEF OneAlone
  <2>1. CASE a # c /\ b # c
    BY <1>6, <2>1 DEF PodInv, OneAlone, AtWork
  <2>2. CASE a = c
    <3>1. b \in others /\ weekly # Absent
      BY <1>6, <1>9, <2>2 DEF AtWork
    <3>2. QED
      BY <1>7, <1>8, <2>2, <3>1
  <2>3. CASE b = c
    <3>1. AtWork(a) /\ weekly # Absent
      BY <1>6, <1>9, <2>3 DEF AtWork
    <3>2. QED
      BY <1>6, <2>3, <3>1
  <2>4. QED
    BY <2>1, <2>2, <2>3
<1>14. Behind'
  <2> SUFFICES ASSUME NEW a \in Composers, AtWork(a)', composer'[a].alone,
                      NEW f \in Earlier(composer'[a].at)
               PROVE  shelf[f].by = a /\ (f # "script" => shelf[f].whole)
    BY <1>1 DEF Behind
  <2>1. a # c
    BY <1>9 DEF Earlier
  <2>2. AtWork(a) /\ composer[a].alone /\ composer'[a].at = composer[a].at
    BY <1>6, <2>1 DEF AtWork
  <2>3. QED
    BY <2>2 DEF PodInv, Behind
<1>15. InPieces'
  <2> SUFFICES ASSUME NEW f \in Parts, shelf[f] # Absent, ~shelf[f].whole
               PROVE  LET a == composer'[shelf[f].by] IN a.at = "broken" \/ (a.at = f /\ a.writing)
    BY <1>1 DEF InPieces
  <2>1. shelf[f].by \in Composers
    BY DEF PodInv, PodType, PartFile
  <2>2. LET a == composer[shelf[f].by] IN a.at = "broken" \/ (a.at = f /\ a.writing)
    BY DEF PodInv, InPieces
  <2>3. shelf[f].by # c
    BY <1>1, <2>2 DEF Parts
  <2>4. QED
    BY <1>6, <2>1, <2>2, <2>3
<1>16. WritesParts'
  BY <1>6, <1>9 DEF PodInv, WritesParts
<1>17. MetaIsLast' /\ DoneIsWhole'
  <2> SUFFICES ASSUME shelf["meta"] # Absent
               PROVE  LET a == shelf["meta"].by IN
                      /\ composer'[a].at = "done"
                      /\ composer'[a].alone =>
                           \A f \in {"script", "voice", "card", "teasers", "episode"} :
                              \/ shelf[f].by = a /\ (f # "script" => shelf[f].whole)
                              \/ shelf[f].by \in Composers \ {a} /\ composer'[shelf[f].by].at # "done"
    BY <1>1 DEF MetaIsLast, DoneIsWhole
  <2>1. PICK a \in Composers : a = shelf["meta"].by
    BY DEF PodInv, PodType, MetaFile
  <2>2. composer[a].at = "done"
    BY <2>1 DEF PodInv, MetaIsLast
  <2>3. a # c /\ composer'[a].at = "done" /\ (composer'[a].alone => composer[a].alone)
    BY <1>1, <1>6, <2>2
  <2>4. \A b \in Composers : composer[b].at # "done" => composer'[b].at # "done"
    BY <1>6, <1>9
  <2>5. composer[a].alone =>
           \A f \in {"script", "voice", "card", "teasers", "episode"} :
              \/ shelf[f].by = a /\ (f # "script" => shelf[f].whole)
              \/ shelf[f].by \in Composers \ {a} /\ composer[shelf[f].by].at # "done"
    BY <2>1 DEF PodInv, DoneIsWhole
  <2>6. QED
    BY <2>1, <2>3, <2>4, <2>5
<1>18. Uploading' /\ NotedByDone' /\ VideoIsDescribed'
  BY <1>1, UploadsStay
<1>19. DoneShows' /\ MuxIsBehind'
  <2> SUFFICES ASSUME shelf["episode"] # Absent \/ \E o \in Composers : composer'[o].at = "meta"
               PROVE  DoneShows' /\ MuxIsBehind'
    BY <1>1 DEF DoneShows, MuxIsBehind
  <2>1. \A o \in Composers : composer'[o].at = "meta" => composer[o].at = "meta"
    BY <1>6, <1>9
  <2>2. shelf["episode"] # Absent /\ shelf["episode"].by \in Composers
    BY <2>1 DEF PodInv, PodType, PartFile, Parts, MuxIsBehind
  <2>3. PICK e \in Composers : e = shelf["episode"].by
    BY <2>2
  <2>4. composer'[e].at = "done" => composer[e].at = "done" /\ (composer'[e].alone => composer[e].alone)
    BY <1>6, <1>9
  <2>5. DoneShows'
    BY <1>1, <2>2, <2>3, <2>4 DEF PodInv, DoneShows
  <2>6. ASSUME NEW o \in Composers, composer'[o].at = "meta", e # o PROVE ~composer'[e].alone
    <3>1. composer[o].at = "meta" /\ AtWork(o) /\ o # c
      BY <1>9, <2>1, <2>6 DEF AtWork, Files
    <3>2. ~composer[e].alone
      BY <2>3, <2>6, <3>1 DEF PodInv, MuxIsBehind
    <3>3. CASE e = c /\ weekly = Absent
      <4>1. composer'[c].alone = composer[c].alone
        BY <1>1, <1>2, <3>3 DEF ComposerType
      <4>2. QED
        BY <3>2, <3>3, <4>1
    <3>4. CASE e = c /\ weekly # Absent
      BY <1>7, <1>8, <3>1, <3>4
    <3>5. QED
      BY <1>6, <3>2, <3>3, <3>4
  <2>7. QED
    BY <1>1, <2>2, <2>3, <2>5, <2>6 DEF MuxIsBehind
<1>20. QED
  BY <1>10, <1>11, <1>12, <1>13, <1>14, <1>15, <1>16, <1>17, <1>18, <1>19 DEF PodInv

LEMMA MovesTo ==
    ASSUME PodInv, NEW c \in Composers, NEW at \in {"drafted", "done", "broken"} \cup Files,
           NEW writing \in BOOLEAN, Moves(c, at, writing)
    PROVE  /\ composer' \in [Composers -> ComposerType]
           /\ composer'[c].at = at /\ composer'[c].writing = writing
           /\ composer'[c].alone = composer[c].alone /\ composer'[c].week = composer[c].week
           /\ \A o \in Composers : o # c => composer'[o] = composer[o]
<1>1. /\ composer \in [Composers -> ComposerType] /\ composer[c] \in ComposerType
      /\ composer' = [composer EXCEPT ![c].at = at, ![c].writing = writing]
  BY DEF PodInv, PodType, Moves
<1> DEFINE x == [composer[c] EXCEPT !.at = at, !.writing = writing]
<1>2. /\ x \in ComposerType /\ x.at = at /\ x.writing = writing
      /\ x.alone = composer[c].alone /\ x.week = composer[c].week
  BY <1>1 DEF ComposerType
<1>3. composer'[c] = x /\ \A o \in Composers : o # c => composer'[o] = composer[o]
  BY <1>1
<1>4. DOMAIN composer' = Composers /\ composer' = [o \in Composers |-> composer'[o]]
  BY <1>1
<1> HIDE DEF x
<1>5. QED
  BY <1>1, <1>2, <1>3, <1>4

(* A composer that has not reached its end goes on, and writes the file of *)
(* its stage or none.                                                      *)
StageStep(c, at, writing, f, file) ==
    /\ AtWork(c) /\ UNCHANGED <<replayed, weekly, rollups, uploader, channel>>
    /\ at \in {"drafted", "broken"} \cup Files /\ writing \in BOOLEAN /\ (writing => at \in Parts)
    /\ Moves(c, at, writing)
    /\ f \in {"script"} \cup Parts /\ file.by = c
    /\ IF f = "script" THEN file \in ScriptFile ELSE file \in PartFile
    /\ shelf' = shelf \/ shelf' = [shelf EXCEPT ![f] = file]
    /\ composer[c].alone => \A e \in Earlier(at) : shelf'[e].by = c /\ (e # "script" => shelf'[e].whole)
    /\ \A e \in Parts : shelf'[e] # Absent /\ ~shelf'[e].whole /\ shelf'[e].by = c =>
          at = "broken" \/ (at = e /\ writing)
    /\ at = "meta" => f = "episode" /\ shelf' = [shelf EXCEPT ![f] = file]
LEMMA StageGoesOn ==
    ASSUME PodInv, NEW c \in Composers, NEW at, NEW writing, NEW f, NEW file,
           StageStep(c, at, writing, f, file)
    PROVE  PodInv'
<1> /\ AtWork(c) /\ UNCHANGED <<replayed, weekly, rollups, uploader, channel>>
    /\ at \in {"drafted", "broken"} \cup Files /\ writing \in BOOLEAN /\ (writing => at \in Parts)
    /\ f \in {"script"} \cup Parts /\ file.by = c
    /\ IF f = "script" THEN file \in ScriptFile ELSE file \in PartFile
    /\ shelf' = shelf \/ shelf' = [shelf EXCEPT ![f] = file]
    /\ composer[c].alone => \A e \in Earlier(at) : shelf'[e].by = c /\ (e # "script" => shelf'[e].whole)
    /\ \A e \in Parts : shelf'[e] # Absent /\ ~shelf'[e].whole /\ shelf'[e].by = c =>
          at = "broken" \/ (at = e /\ writing)
    /\ at = "meta" => f = "episode" /\ shelf' = [shelf EXCEPT ![f] = file]
  BY DEF StageStep
<1>0. at \in {"drafted", "done", "broken"} \cup Files /\ Moves(c, at, writing)
  BY DEF StageStep
<1>1. /\ composer' \in [Composers -> ComposerType]
      /\ composer'[c].at = at /\ composer'[c].writing = writing
      /\ composer'[c].alone = composer[c].alone /\ composer'[c].week = composer[c].week
      /\ \A o \in Composers : o # c => composer'[o] = composer[o]
  BY <1>0, MovesTo
<1>2. /\ DOMAIN shelf = Files /\ DOMAIN shelf' = Files /\ shelf'["meta"] = shelf["meta"]
      /\ \A e \in Files : shelf'[e] = shelf[e] \/ (e = f /\ shelf'[e] = file)
  BY DEF PodInv, PodType, Files, Parts
<1>3. PodType'
  BY <1>1, <1>2 DEF PodInv, PodType, Files, Parts
<1>4. OfReplays' /\ SumsFit' /\ ToldFits'
  BY <1>1, WeekStays
<1>5. Uploading' /\ NotedByDone' /\ VideoIsDescribed'
  BY <1>2, UploadsStay
<1>6. OneAlone'
  <2> SUFFICES ASSUME NEW a \in Composers, NEW b \in Composers, a # b, AtWork(a)', AtWork(b)'
               PROVE  ~composer'[a].alone
    BY DEF OneAlone
  <2>1. AtWork(a) /\ AtWork(b) /\ composer'[a].alone = composer[a].alone
    BY <1>1 DEF AtWork
  <2>2. QED
    BY <2>1 DEF PodInv, OneAlone
<1>7. Behind'
  <2> SUFFICES ASSUME NEW a \in Composers, AtWork(a)', composer'[a].alone,
                      NEW e \in Earlier(composer'[a].at)
               PROVE  shelf'[e].by = a /\ (e # "script" => shelf'[e].whole)
    BY DEF Behind
  <2>1. CASE a = c
    BY <1>1, <2>1
  <2>2. CASE a # c
    <3>1. AtWork(a) /\ composer[a].alone
      BY <1>1, <2>2 DEF AtWork
    <3>2. QED
      BY <2>2, <3>1 DEF PodInv, OneAlone
  <2>3. QED
    BY <2>1, <2>2
<1>8. InPieces'
  <2> SUFFICES ASSUME NEW e \in Parts, shelf'[e] # Absent, ~shelf'[e].whole
               PROVE  LET a == composer'[shelf'[e].by] IN a.at = "broken" \/ (a.at = e /\ a.writing)
    BY DEF InPieces
  <2>1. CASE shelf'[e].by = c
    BY <1>1, <2>1
  <2>2. CASE shelf'[e].by # c
    <3>1. shelf'[e] = shelf[e]
      BY <1>2, <2>2 DEF Files
    <3>2. shelf[e].by \in Composers
      BY <3>1 DEF PodInv, PodType, PartFile
    <3>3. QED
      BY <1>1, <2>2, <3>1, <3>2 DEF PodInv, InPieces
  <2>3. QED
    BY <2>1, <2>2
<1>9. WritesParts'
  BY <1>1 DEF PodInv, WritesParts
<1>10. MetaIsLast' /\ DoneIsWhole'
  <2> SUFFICES ASSUME shelf["meta"] # Absent
               PROVE  LET a == shelf["meta"].by IN
                      /\ composer'[a].at = "done"
                      /\ composer'[a].alone =>
                           \A e \in {"script", "voice", "card", "teasers", "episode"} :
                              \/ shelf'[e].by = a /\ (e # "script" => shelf'[e].whole)
                              \/ shelf'[e].by \in Composers \ {a} /\ composer'[shelf'[e].by].at # "done"
    BY <1>2 DEF MetaIsLast, DoneIsWhole
  <2>1. PICK a \in Composers : a = shelf["meta"].by
    BY DEF PodInv, PodType, MetaFile
  <2>2. composer[a].at = "done"
    BY <2>1 DEF PodInv, MetaIsLast
  <2>3. a # c /\ composer'[a] = composer[a]
    BY <1>1, <2>2 DEF AtWork, Files, Parts
  <2>4. ASSUME NEW b \in Composers, composer[b].at # "done" PROVE composer'[b].at # "done"
    <3>1. at # "done"
      BY DEF Files, Parts
    <3>2. QED
      BY <1>1, <2>4, <3>1
  <2>5. ASSUME composer[a].alone, NEW e \in {"script", "voice", "card", "teasers", "episode"}
        PROVE  \/ shelf'[e].by = a /\ (e # "script" => shelf'[e].whole)
               \/ shelf'[e].by \in Composers \ {a} /\ composer'[shelf'[e].by].at # "done"
    <3>1. CASE shelf'[e] = shelf[e]
      <4>1. \/ shelf[e].by = a /\ (e # "script" => shelf[e].whole)
            \/ shelf[e].by \in Composers \ {a} /\ composer[shelf[e].by].at # "done"
        BY <2>1, <2>5 DEF PodInv, DoneIsWhole
      <4>2. QED
        BY <2>4, <3>1, <4>1
    <3>2. CASE shelf'[e] # shelf[e]
      <4>1. shelf'[e].by = c
        BY <1>2, <3>2 DEF Files, Parts
      <4>2. composer'[c].at # "done"
        BY <1>1 DEF Files, Parts
      <4>3. QED
        BY <2>3, <4>1, <4>2
    <3>3. QED
      BY <3>1, <3>2
  <2>6. QED
    BY <2>1, <2>2, <2>3, <2>5
<1>11. at # "done" /\ \A o \in Composers : composer'[o].alone = composer[o].alone
  BY <1>1 DEF Files, Parts
<1>12. DoneShows' /\ MuxIsBehind'
  <2>1. CASE f = "episode" /\ shelf' = [shelf EXCEPT ![f] = file]
    <3>1. shelf'["episode"] = file /\ file # Absent
      BY <2>1, NotAbsent DEF PodInv, PodType, Files, Parts
    <3>2. DoneShows'
      BY <1>1, <1>11, <3>1 DEF DoneShows
    <3>3. ASSUME NEW o \in Composers, composer'[o].at = "meta", o # c PROVE ~composer[c].alone
      <4>1. AtWork(o)
        BY <1>1, <3>3 DEF AtWork, Files
      <4>2. QED
        BY <3>3, <4>1 DEF PodInv, OneAlone
    <3>4. QED
      BY <1>11, <3>1, <3>2, <3>3 DEF MuxIsBehind
  <2>2. CASE at # "meta" /\ shelf'["episode"] = shelf["episode"]
    <3>1. shelf["episode"] # Absent => shelf["episode"].by \in Composers
      BY DEF PodInv, PodType, PartFile, Parts
    <3>2. DoneShows'
      BY <1>1, <1>2, <1>11, <2>2, <3>1 DEF PodInv, DoneShows
    <3>3. MuxIsBehind'
      BY <1>1, <1>11, <2>2, <3>1 DEF PodInv, MuxIsBehind
    <3>4. QED
      BY <3>2, <3>3
  <2>3. QED
    BY <1>2, <2>1, <2>2 DEF StageStep, Files, Parts
<1>13. QED
  BY <1>3, <1>4, <1>5, <1>6, <1>7, <1>8, <1>9, <1>10, <1>12 DEF PodInv

LEMMA Script_Inv == ASSUME PodInv, NEW c \in Composers, Script(c) PROVE PodInv'
<1>1. /\ composer[c].at = "script" /\ AtWork(c) /\ UNCHANGED <<replayed, weekly, rollups, uploader, channel>>
  BY DEF Script, AtWork, Files
<1>2. PICK provider \in Providers, dry \in BOOLEAN :
         /\ shelf' = [shelf EXCEPT !["script"] = [by |-> c, provider |-> provider, parses |-> provider = "yaml"]]
         /\ Moves(c, IF dry THEN "drafted" ELSE "voice", FALSE)
  BY DEF Script
<1> DEFINE file == [by |-> c, provider |-> provider, parses |-> provider = "yaml"]
           at == IF dry THEN "drafted" ELSE "voice"
<1>3. file.by = c /\ file \in ScriptFile /\ at \in {"drafted", "voice"} /\ at \in {"drafted", "broken"} \cup Files
  BY DEF ScriptFile, Files, Parts
<1> HIDE DEF file
<1>4. /\ DOMAIN shelf = Files /\ shelf' = [shelf EXCEPT !["script"] = file]
      /\ shelf'["script"] = file /\ \A e \in Parts : shelf'[e] = shelf[e]
  BY <1>2 DEF file, PodInv, PodType, Files, Parts
<1>5. \A e \in Earlier(at) : shelf'[e].by = c /\ (e # "script" => shelf'[e].whole)
  BY <1>3, <1>4 DEF Earlier
<1>6. ASSUME NEW e \in Parts, shelf'[e] # Absent, ~shelf'[e].whole, shelf'[e].by = c
      PROVE  FALSE
  <2>1. composer[c].at \in {"broken", e}
    BY <1>4, <1>6 DEF PodInv, InPieces
  <2>2. QED
    BY <1>1, <2>1 DEF Parts
<1> HIDE DEF at
<1>7. Moves(c, at, FALSE)
  BY <1>2 DEF at
<1>8. StageStep(c, at, FALSE, "script", file)
  BY <1>1, <1>3, <1>4, <1>5, <1>6, <1>7 DEF StageStep, Files
<1>9. QED
  BY <1>8, StageGoesOn

LEMMA Writes_Inv == ASSUME PodInv, NEW c \in Composers, Writes(c) PROVE PodInv'
<1> DEFINE f == composer[c].at
           file == [by |-> c, whole |-> FALSE]
<1>1. /\ f \in Parts /\ AtWork(c) /\ UNCHANGED <<replayed, weekly, rollups, uploader, channel>>
      /\ ~composer[c].writing /\ shelf' = [shelf EXCEPT ![f] = file] /\ Moves(c, f, TRUE)
  BY DEF Writes, AtWork, Files, Parts
<1>2. file.by = c /\ file \in PartFile /\ f # "script"
  BY <1>1 DEF PartFile, Parts
<1> HIDE DEF f, file
<1>3. DOMAIN shelf = Files /\ \A e \in Files : e # f => shelf'[e] = shelf[e]
  BY <1>1 DEF PodInv, PodType
<1>4. f \notin Earlier(f) /\ Earlier(f) \subseteq Files
  BY <1>1 DEF Earlier, Parts, Files
<1>5. composer[c].alone => \A e \in Earlier(f) : shelf'[e].by = c /\ (e # "script" => shelf'[e].whole)
  BY <1>1, <1>3, <1>4 DEF PodInv, Behind, f
<1>6. ASSUME NEW e \in Parts, shelf'[e] # Absent, ~shelf'[e].whole, shelf'[e].by = c
      PROVE  f = e
  <2> SUFFICES ASSUME f # e PROVE FALSE
    OBVIOUS
  <2>1. shelf'[e] = shelf[e]
    BY <1>3 DEF Files
  <2>2. composer[c].at = "broken" \/ composer[c].writing
    BY <1>6, <2>1 DEF PodInv, InPieces
  <2>3. QED
    BY <1>1, <2>2 DEF f, Parts
<1>7. f \in {"script"} \cup Parts /\ f \in {"drafted", "broken"} \cup Files
  BY <1>1 DEF Files
<1>8. StageStep(c, f, TRUE, f, file)
  BY <1>1, <1>2, <1>5, <1>6, <1>7 DEF StageStep, Parts
<1>9. QED
  BY <1>8, StageGoesOn

LEMMA Wrote_Inv == ASSUME PodInv, NEW c \in Composers, Wrote(c) PROVE PodInv'
<1> DEFINE f == composer[c].at
           file == [by |-> c, whole |-> TRUE]
           at == NextStage(f)
<1>1. /\ UNCHANGED <<replayed, weekly, rollups, uploader, channel>>
      /\ composer[c].writing /\ shelf' = [shelf EXCEPT ![f] = file] /\ Moves(c, at, FALSE)
  BY DEF Wrote
<1>2. f \in Parts /\ AtWork(c)
  BY <1>1 DEF PodInv, WritesParts, AtWork, Files
<1>3. file.by = c /\ file \in PartFile /\ f # "script" /\ file.whole
  BY <1>2 DEF PartFile, Parts
<1>4. at \in Files /\ Earlier(at) = Earlier(f) \cup {f} /\ (at = "meta" => f = "episode")
  BY <1>2, NextStageIs DEF Parts, Files, Earlier
<1> HIDE DEF f, file, at
<1>5. DOMAIN shelf = Files /\ shelf'[f] = file /\ \A e \in Files : e # f => shelf'[e] = shelf[e]
  BY <1>1, <1>2 DEF PodInv, PodType, Files
<1>6. Earlier(f) \subseteq Files
  BY <1>2 DEF Earlier, Parts, Files
<1>7. composer[c].alone => \A e \in Earlier(at) : shelf'[e].by = c /\ (e # "script" => shelf'[e].whole)
  BY <1>2, <1>3, <1>4, <1>5, <1>6 DEF PodInv, Behind, f
<1>8. ASSUME NEW e \in Parts, shelf'[e] # Absent, ~shelf'[e].whole, shelf'[e].by = c
      PROVE  FALSE
  <2>1. e # f
    BY <1>3, <1>5, <1>8
  <2>2. shelf'[e] = shelf[e]
    BY <1>5, <2>1 DEF Files
  <2>3. composer[c].at \in {"broken", e}
    BY <1>8, <2>2 DEF PodInv, InPieces
  <2>4. QED
    BY <1>2, <2>1, <2>3 DEF f, Parts
<1>9. f \in {"script"} \cup Parts /\ at \in {"drafted", "broken"} \cup Files
  BY <1>2, <1>4
<1>10. StageStep(c, at, FALSE, f, file)
  BY <1>1, <1>2, <1>3, <1>4, <1>7, <1>8, <1>9 DEF StageStep
<1>11. QED
  BY <1>10, StageGoesOn

LEMMA Breaks_Inv == ASSUME PodInv, NEW c \in Composers, Breaks(c) PROVE PodInv'
<1>1. /\ AtWork(c) /\ UNCHANGED <<replayed, weekly, rollups, shelf, uploader, channel>> /\ Moves(c, "broken", FALSE)
  BY StagesAre DEF Breaks, Composing, AtWork, After
<1> DEFINE file == [by |-> c, whole |-> FALSE]
<1>2. file.by = c /\ file \in PartFile /\ "card" \in Parts /\ "card" # "script"
  BY DEF PartFile, Parts
<1>3. Earlier("broken") = {} /\ "broken" \in {"drafted", "broken"} \cup Files
  BY DEF Earlier
<1> HIDE DEF file
<1>4. StageStep(c, "broken", FALSE, "card", file)
  BY <1>1, <1>2, <1>3 DEF StageStep
<1>5. QED
  BY <1>4, StageGoesOn

LEMMA WriteMetadata_Inv == ASSUME PodInv, NEW c \in Composers, WriteMetadata(c) PROVE PodInv'
<1> DEFINE file == [by |-> c, video |-> NoVideo, uploaded |-> FALSE]
<1>1. /\ composer[c].at = "meta" /\ AtWork(c) /\ UNCHANGED <<replayed, weekly, rollups, channel>>
      /\ shelf' = [shelf EXCEPT !["meta"] = file] /\ Moves(c, "done", FALSE)
      /\ uploader' = [u \in Uploaders |->
            IF uploader[u].at \in {"sending", "sent"} THEN [uploader[u] EXCEPT !.calm = FALSE] ELSE uploader[u]]
  BY DEF WriteMetadata, FirstVideo, AtWork, Files
<1>2. file.by = c /\ file.video = "none" /\ file.uploaded = FALSE /\ file \in MetaFile
  BY DEF MetaFile, NoVideo
<1> HIDE DEF file
<1>3. /\ DOMAIN shelf' = Files /\ shelf'["meta"] = file
      /\ \A e \in {"script"} \cup Parts : shelf'[e] = shelf[e]
  BY <1>1 DEF PodInv, PodType, Files, Parts
<1>4. /\ composer' \in [Composers -> ComposerType]
      /\ composer'[c].at = "done" /\ composer'[c].writing = FALSE
      /\ composer'[c].alone = composer[c].alone /\ composer'[c].week = composer[c].week
      /\ \A o \in Composers : o # c => composer'[o] = composer[o]
  BY <1>1, MovesTo
<1>5. ASSUME NEW u \in Uploaders
      PROVE  /\ uploader'[u] \in UploaderType /\ uploader'[u].at = uploader[u].at
             /\ uploader'[u].copy = uploader[u].copy /\ uploader'[u].dry = uploader[u].dry
             /\ uploader'[u].at \in {"sending", "sent"} => ~uploader'[u].calm
  <2>1. uploader[u] \in UploaderType
    BY DEF PodInv, PodType
  <2>2. CASE uploader[u].at \in {"sending", "sent"}
    <3>1. uploader'[u] = [uploader[u] EXCEPT !.calm = FALSE]
      BY <1>1, <2>2
    <3>2. QED
      BY <2>1, <2>2, <3>1 DEF UploaderType
  <2>3. CASE uploader[u].at \notin {"sending", "sent"}
    <3>1. uploader'[u] = uploader[u]
      BY <1>1, <2>3
    <3>2. QED
      BY <2>1, <2>3, <3>1
  <2>4. QED
    BY <2>2, <2>3
<1>6. PodType'
  <2>1. uploader' \in [Uploaders -> UploaderType]
    BY <1>1, <1>5
  <2>2. QED
    BY <1>1, <1>2, <1>3, <1>4, <2>1 DEF PodInv, PodType
<1>7. OfReplays' /\ SumsFit' /\ ToldFits'
  <2>1. \A o \in Composers : composer'[o].week = composer[o].week
    BY <1>4
  <2>2. QED
    BY <1>1, <2>1, WeekStays
<1>8. \A o \in Composers : AtWork(o)' => o # c /\ AtWork(o) /\ ~composer[o].alone
  BY <1>1, <1>4 DEF AtWork, Files, Parts, PodInv, OneAlone
<1>9. OneAlone' /\ Behind'
  BY <1>4, <1>8 DEF OneAlone, Behind
<1>10. InPieces'
  <2> SUFFICES ASSUME NEW e \in Parts, shelf[e] # Absent, ~shelf[e].whole
               PROVE  LET a == composer'[shelf[e].by] IN a.at = "broken" \/ (a.at = e /\ a.writing)
    BY <1>3 DEF InPieces
  <2>1. LET a == composer[shelf[e].by] IN a.at = "broken" \/ (a.at = e /\ a.writing)
    BY DEF PodInv, InPieces
  <2>2. shelf[e].by \in Composers /\ shelf[e].by # c
    BY <1>1, <2>1 DEF PodInv, PodType, PartFile, Parts
  <2>3. QED
    BY <1>4, <2>1, <2>2
<1>11. WritesParts'
  BY <1>4 DEF PodInv, WritesParts
<1>12. /\ MetaIsLast' /\ DoneIsWhole'
       /\ DoneShows' /\ MuxIsBehind'
  <2>1. composer[c].alone => \A e \in {"script"} \cup Parts : shelf[e].by = c /\ (e # "script" => shelf[e].whole)
    BY <1>1 DEF PodInv, Behind, Earlier
  <2>2. composer'[c].alone => \A e \in {"script", "voice", "card", "teasers", "episode"} :
                                  shelf'[e].by = c /\ (e # "script" => shelf'[e].whole)
    BY <1>3, <1>4, <2>1 DEF Parts
  <2>3. file # Absent
    BY <1>2, NotAbsent
  <2>4. shelf["episode"] # Absent /\ shelf["episode"].by \in Composers /\ shelf'["episode"] = shelf["episode"]
    BY <1>1, <1>3 DEF PodInv, PodType, PartFile, Parts, MuxIsBehind
  <2>5. DoneShows'
    <3>1. shelf["episode"].by = c \/ ~composer[shelf["episode"].by].alone
      BY <1>1 DEF PodInv, MuxIsBehind
    <3>2. QED
      BY <1>2, <1>3, <1>4, <2>3, <2>4, <3>1 DEF DoneShows
  <2>6. MuxIsBehind'
    BY <1>4, <2>4 DEF PodInv, MuxIsBehind
  <2>7. QED
    BY <1>2, <1>3, <1>4, <2>2, <2>5, <2>6 DEF MetaIsLast, DoneIsWhole
<1>13. Uploading'
  BY <1>1, <1>5 DEF PodInv, Uploading
<1>14. NotedByDone' /\ VideoIsDescribed'
  <2>1. "none" \notin Uploaders
    BY PodcastAssumption
  <2>2. QED
    BY <1>2, <1>3, <2>1 DEF NotedByDone, VideoIsDescribed
<1>15. QED
  BY <1>6, <1>7, <1>9, <1>10, <1>11, <1>12, <1>13, <1>14 DEF PodInv

(* Metadata that is there keeps its author and gets a video. *)
LEMMA StampedIs ==
    ASSUME PodInv, NEW video \in Uploaders \cup {"none", "dry-run"}, shelf' = Stamped(video)
    PROVE  /\ DOMAIN shelf' = Files /\ \A e \in {"script"} \cup Parts : shelf'[e] = shelf[e]
           /\ shelf["meta"] = Absent => shelf'["meta"] = Absent
           /\ shelf["meta"] # Absent =>
                 /\ shelf'["meta"] \in MetaFile /\ shelf'["meta"] # Absent
                 /\ shelf'["meta"].by = shelf["meta"].by /\ shelf'["meta"].video = video
                 /\ shelf'["meta"].uploaded
<1>1. DOMAIN shelf = Files /\ shelf["meta"] \in {Absent} \cup MetaFile
  BY DEF PodInv, PodType
<1>2. CASE shelf["meta"] = Absent
  BY <1>1, <1>2 DEF Stamped
<1>3. CASE shelf["meta"] # Absent
  <2> DEFINE x == [shelf["meta"] EXCEPT !.video = video, !.uploaded = TRUE]
  <2>1. shelf["meta"] \in MetaFile
    BY <1>1, <1>3
  <2>2. x \in MetaFile /\ x.by = shelf["meta"].by /\ x.video = video /\ x.uploaded
    BY <2>1 DEF MetaFile
  <2>3. shelf' = [shelf EXCEPT !["meta"].video = video, !["meta"].uploaded = TRUE]
    BY <1>3 DEF Stamped
  <2>4. shelf'["meta"] = x /\ DOMAIN shelf' = Files /\ \A e \in {"script"} \cup Parts : shelf'[e] = shelf[e]
    BY <1>1, <2>3 DEF Files, Parts
  <2> HIDE DEF x
  <2>5. x # Absent
    BY <2>2, NotAbsent
  <2>6. QED
    BY <1>3, <2>2, <2>4, <2>5
<1>4. QED
  BY <1>2, <1>3

LEMMA UploadBegins_Inv == ASSUME PodInv, NEW u \in Uploaders, UploadBegins(u) PROVE PodInv'
<1>1. /\ uploader[u].at = "new" /\ shelf["episode"] # Absent /\ shelf' = Stamped(Kept(u))
      /\ UNCHANGED <<replayed, weekly, rollups, composer, channel>>
  BY DEF UploadBegins
<1>2. PICK dry \in BOOLEAN :
         uploader' = [uploader EXCEPT ![u] =
            [at |-> "sending", copy |-> shelf["episode"], dry |-> dry,
             calm |-> LET c == composer[shelf["episode"].by] IN c.at = "done" /\ c.alone]]
  BY DEF UploadBegins
<1> DEFINE x == [at |-> "sending", copy |-> shelf["episode"], dry |-> dry,
                 calm |-> LET c == composer[shelf["episode"].by] IN c.at = "done" /\ c.alone]
<1>3. /\ shelf["episode"] \in PartFile /\ uploader \in [Uploaders -> UploaderType]
      /\ shelf["meta"] # Absent => shelf["meta"] \in MetaFile
  BY <1>1 DEF PodInv, PodType, Parts
<1>4. /\ x \in UploaderType /\ x.at = "sending" /\ x.copy = shelf["episode"]
      /\ x.calm => shelf["meta"] # Absent /\ shelf["meta"].by = shelf["episode"].by
  BY <1>1, <1>3 DEF UploaderType, PodInv, PodType, ComposerType, PartFile, DoneShows
<1>5. uploader' = [uploader EXCEPT ![u] = x]
  BY <1>2
<1> HIDE DEF x
<1>6. /\ uploader' \in [Uploaders -> UploaderType] /\ uploader'[u] = x
      /\ \A w \in Uploaders : w # u => uploader'[w] = uploader[w]
  BY <1>3, <1>4, <1>5
<1>7. Kept(u) \in Uploaders \cup {"none", "dry-run"} /\ (shelf["meta"] # Absent => Kept(u) = shelf["meta"].video)
  BY <1>3 DEF Kept, MetaFile, NoVideo
<1>8. /\ DOMAIN shelf' = Files /\ \A e \in {"script"} \cup Parts : shelf'[e] = shelf[e]
      /\ shelf["meta"] = Absent => shelf'["meta"] = Absent
      /\ shelf["meta"] # Absent =>
            /\ shelf'["meta"] \in MetaFile /\ shelf'["meta"] # Absent
            /\ shelf'["meta"].by = shelf["meta"].by /\ shelf'["meta"].video = shelf["meta"].video
  BY <1>1, <1>7, StampedIs
<1>9. PodType'
  BY <1>1, <1>6, <1>8 DEF PodInv, PodType
<1>10. OfReplays' /\ SumsFit' /\ ToldFits'
  BY <1>1, WeekStays
<1>11. OneAlone' /\ Behind' /\ InPieces' /\ WritesParts' /\ MetaIsLast' /\ DoneIsWhole' /\ DoneShows' /\ MuxIsBehind'
  BY <1>1, <1>8, FilesStay
<1>12. x.calm => shelf["episode"].whole
  <2> SUFFICES ASSUME shelf["meta"] # Absent, shelf["meta"].by = shelf["episode"].by PROVE shelf["episode"].whole
    BY <1>4
  <2>1. composer[shelf["episode"].by].at = "done"
    BY DEF PodInv, MetaIsLast
  <2>2. QED
    BY <1>1, <2>1 DEF PodInv, InPieces, Parts
<1>13. Uploading'
  <2> SUFFICES ASSUME NEW w \in Uploaders
               PROVE  LET y == uploader'[w] IN
                      /\ y.at \in {"sending", "sent"} =>
                            /\ y.copy # Absent
                            /\ y.calm => shelf'["meta"] # Absent /\ shelf'["meta"].by = y.copy.by /\ y.copy.whole
                      /\ y.at = "sent" /\ ~y.dry =>
                            \E v \in channel : v.name = w /\ v.from = y.copy.by /\ v.whole = y.copy.whole
    BY <1>1 DEF Uploading
  <2>1. CASE w = u
    BY <1>1, <1>4, <1>6, <1>8, <1>12, <2>1
  <2>2. CASE w # u
    BY <1>6, <1>8, <2>2 DEF PodInv, Uploading
  <2>3. QED
    BY <2>1, <2>2
<1>14. NotedByDone' /\ VideoIsDescribed'
  <2> SUFFICES ASSUME shelf["meta"] # Absent
               PROVE  /\ shelf["meta"].video \in Uploaders =>
                            /\ uploader'[shelf["meta"].video].at = "done"
                            /\ \E v \in channel :
                                  /\ v.name = shelf["meta"].video
                                  /\ uploader'[v.name].calm => v.from = shelf["meta"].by /\ v.whole
                      /\ \E w \in Uploaders : uploader'[w].at \in {"sending", "sent", "failed"}
    BY <1>1, <1>8 DEF NotedByDone, VideoIsDescribed
  <2>1. ASSUME shelf["meta"].video \in Uploaders
        PROVE  uploader'[shelf["meta"].video] = uploader[shelf["meta"].video]
    <3>1. uploader[shelf["meta"].video].at = "done"
      BY <2>1 DEF PodInv, NotedByDone
    <3>2. QED
      BY <1>1, <1>6, <2>1, <3>1
  <2>2. uploader'[u].at = "sending"
    BY <1>4, <1>6
  <2>3. QED
    BY <2>1, <2>2 DEF PodInv, NotedByDone, VideoIsDescribed
<1>15. QED
  BY <1>9, <1>10, <1>11, <1>13, <1>14 DEF PodInv

LEMMA UploadEnds_Inv == ASSUME PodInv, NEW u \in Uploaders, UploadEnds(u) PROVE PodInv'
<1>1. /\ uploader[u].at = "sending" /\ UNCHANGED <<replayed, weekly, rollups, shelf, composer>>
  BY DEF UploadEnds
<1> DEFINE video == [name |-> u, from |-> uploader[u].copy.by, whole |-> uploader[u].copy.whole]
<1>2. PICK at \in {"sent", "failed"} :
         /\ uploader' = [uploader EXCEPT ![u].at = at]
         /\ channel' = channel \/ channel' = channel \cup {video}
         /\ at = "sent" /\ ~uploader[u].dry => video \in channel'
  <2>1. CASE uploader' = [uploader EXCEPT ![u].at = "failed"] /\ UNCHANGED channel
    BY <2>1
  <2>2. CASE /\ uploader' = [uploader EXCEPT ![u].at = "sent"]
             /\ channel' = channel \cup
                  {[name |-> v, from |-> uploader[v].copy.by, whole |-> uploader[v].copy.whole] :
                     v \in {v \in {u} : ~uploader[v].dry}}
    <3>1. CASE uploader[u].dry
      BY <2>2, <3>1
    <3>2. CASE ~uploader[u].dry
      BY <2>2, <3>2
    <3>3. QED
      BY <3>1, <3>2
  <2>3. QED
    BY <2>1, <2>2 DEF UploadEnds
<1>3. uploader \in [Uploaders -> UploaderType] /\ uploader[u].copy \in PartFile
  BY <1>1 DEF PodInv, PodType, UploaderType, Uploading
<1>4. /\ video.name = u /\ video.from = uploader[u].copy.by /\ video.whole = uploader[u].copy.whole
      /\ video \in [name : Uploaders, from : Composers, whole : BOOLEAN]
  BY <1>3 DEF PartFile
<1> HIDE DEF video
<1>5. /\ uploader' \in [Uploaders -> UploaderType] /\ uploader'[u].at = at
      /\ uploader'[u].copy = uploader[u].copy /\ uploader'[u].dry = uploader[u].dry
      /\ uploader'[u].calm = uploader[u].calm
      /\ \A w \in Uploaders : w # u => uploader'[w] = uploader[w]
  BY <1>2, <1>3 DEF UploaderType
<1>6. channel \subseteq channel' /\ channel' \subseteq [name : Uploaders, from : Composers, whole : BOOLEAN]
  BY <1>2, <1>4 DEF PodInv, PodType
<1>7. PodType'
  BY <1>1, <1>5, <1>6 DEF PodInv, PodType
<1>8. OfReplays' /\ SumsFit' /\ ToldFits'
  BY <1>1, WeekStays
<1>9. OneAlone' /\ Behind' /\ InPieces' /\ WritesParts' /\ MetaIsLast' /\ DoneIsWhole' /\ DoneShows' /\ MuxIsBehind'
  BY <1>1, FilesStay
<1>10. Uploading'
  <2> SUFFICES ASSUME NEW w \in Uploaders
               PROVE  LET y == uploader'[w] IN
                      /\ y.at \in {"sending", "sent"} =>
                            /\ y.copy # Absent
                            /\ y.calm => shelf["meta"] # Absent /\ shelf["meta"].by = y.copy.by /\ y.copy.whole
                      /\ y.at = "sent" /\ ~y.dry =>
                            \E v \in channel' : v.name = w /\ v.from = y.copy.by /\ v.whole = y.copy.whole
    BY <1>1 DEF Uploading
  <2>1. CASE w = u
    <3>1. /\ uploader[u].copy # Absent
          /\ uploader[u].calm => /\ shelf["meta"] # Absent /\ shelf["meta"].by = uploader[u].copy.by
                                 /\ uploader[u].copy.whole
      BY <1>1 DEF PodInv, Uploading
    <3>2. QED
      BY <1>2, <1>4, <1>5, <2>1, <3>1
  <2>2. CASE w # u
    BY <1>5, <1>6, <2>2 DEF PodInv, Uploading
  <2>3. QED
    BY <2>1, <2>2
<1>11. NotedByDone' /\ VideoIsDescribed'
  <2> SUFFICES ASSUME shelf["meta"] # Absent
               PROVE  /\ shelf["meta"].video \in Uploaders =>
                            /\ uploader'[shelf["meta"].video].at = "done"
                            /\ \E v \in channel' :
                                  /\ v.name = shelf["meta"].video
                                  /\ uploader'[v.name].calm => v.from = shelf["meta"].by /\ v.whole
                      /\ \E w \in Uploaders : uploader'[w].at \in {"sending", "sent", "failed"}
    BY <1>1 DEF NotedByDone, VideoIsDescribed
  <2>1. ASSUME shelf["meta"].video \in Uploaders
        PROVE  uploader'[shelf["meta"].video] = uploader[shelf["meta"].video]
    <3>1. uploader[shelf["meta"].video].at = "done"
      BY <2>1 DEF PodInv, NotedByDone
    <3>2. QED
      BY <1>1, <1>5, <2>1, <3>1
  <2>2. QED
    BY <1>5, <1>6, <2>1 DEF PodInv, NotedByDone, VideoIsDescribed
<1>12. QED
  BY <1>7, <1>8, <1>9, <1>10, <1>11 DEF PodInv

LEMMA UploadNoted_Inv == ASSUME PodInv, NEW u \in Uploaders, UploadNoted(u) PROVE PodInv'
<1>1. /\ uploader[u].at = "sent" /\ UNCHANGED <<replayed, weekly, rollups, composer, channel>>
      /\ uploader \in [Uploaders -> UploaderType]
  BY DEF UploadNoted, PodInv, PodType
<1> DEFINE video == IF uploader[u].dry THEN "dry-run" ELSE u
<1>2. PICK at \in {"done", "failed"} :
         /\ uploader' = [uploader EXCEPT ![u].at = at]
         /\ at = "done" => shelf' = Stamped(video)
         /\ at = "failed" => shelf' = shelf
  BY DEF UploadNoted
<1>3. /\ uploader' \in [Uploaders -> UploaderType] /\ uploader'[u].at = at
      /\ uploader'[u].calm = uploader[u].calm
      /\ \A w \in Uploaders : w # u => uploader'[w] = uploader[w]
  BY <1>1, <1>2 DEF UploaderType
<1>4. /\ DOMAIN shelf' = Files /\ \A e \in {"script"} \cup Parts : shelf'[e] = shelf[e]
      /\ shelf["meta"] = Absent => shelf'["meta"] = Absent
      /\ shelf["meta"] # Absent =>
            /\ shelf'["meta"] \in MetaFile /\ shelf'["meta"] # Absent
            /\ shelf'["meta"].by = shelf["meta"].by
            /\ at = "done" => shelf'["meta"].video = video
  <2>1. CASE at = "done"
    <3>1. video \in Uploaders \cup {"none", "dry-run"}
      OBVIOUS
    <3> HIDE DEF video
    <3>2. QED
      BY <1>2, <2>1, <3>1, StampedIs
  <2>2. CASE at = "failed"
    BY <1>2, <2>2 DEF PodInv, PodType
  <2>3. QED
    BY <2>1, <2>2
<1>5. PodType'
  BY <1>1, <1>3, <1>4 DEF PodInv, PodType
<1>6. OfReplays' /\ SumsFit' /\ ToldFits'
  BY <1>1, WeekStays
<1>7. OneAlone' /\ Behind' /\ InPieces' /\ WritesParts' /\ MetaIsLast' /\ DoneIsWhole' /\ DoneShows' /\ MuxIsBehind'
  BY <1>1, <1>4, FilesStay
<1>8. Uploading'
  <2> SUFFICES ASSUME NEW w \in Uploaders
               PROVE  LET y == uploader'[w] IN
                      /\ y.at \in {"sending", "sent"} =>
                            /\ y.copy # Absent
                            /\ y.calm => shelf'["meta"] # Absent /\ shelf'["meta"].by = y.copy.by /\ y.copy.whole
                      /\ y.at = "sent" /\ ~y.dry =>
                            \E v \in channel : v.name = w /\ v.from = y.copy.by /\ v.whole = y.copy.whole
    BY <1>1 DEF Uploading
  <2>1. CASE w = u
    BY <1>3, <2>1
  <2>2. CASE w # u
    BY <1>3, <1>4, <2>2 DEF PodInv, Uploading
  <2>3. QED
    BY <2>1, <2>2
<1>9. NotedByDone' /\ VideoIsDescribed'
  <2> SUFFICES ASSUME shelf'["meta"] # Absent
               PROVE  /\ shelf'["meta"].video \in Uploaders =>
                            /\ uploader'[shelf'["meta"].video].at = "done"
                            /\ \E v \in channel :
                                  /\ v.name = shelf'["meta"].video
                                  /\ uploader'[v.name].calm => v.from = shelf'["meta"].by /\ v.whole
                      /\ shelf'["meta"].video = "none" /\ shelf'["meta"].uploaded =>
                            \E w \in Uploaders : uploader'[w].at \in {"sending", "sent", "failed"}
    BY <1>1 DEF NotedByDone, VideoIsDescribed, NoVideo
  <2>1. shelf["meta"] # Absent /\ shelf'["meta"].by = shelf["meta"].by
    BY <1>4
  <2>2. "none" \notin Uploaders /\ "dry-run" \notin Uploaders
    BY PodcastAssumption
  <2>3. CASE at = "done"
    <3>1. shelf'["meta"].video = video /\ video # "none"
      BY <1>4, <2>1, <2>2, <2>3
    <3>2. ASSUME video \in Uploaders
          PROVE  \E v \in channel : v.name = u /\ (uploader'[u].calm => v.from = shelf'["meta"].by /\ v.whole)
      <4>1. ~uploader[u].dry
        BY <2>2, <3>2
      <4>2. \E v \in channel : v.name = u /\ v.from = uploader[u].copy.by /\ v.whole = uploader[u].copy.whole
        BY <1>1, <4>1 DEF PodInv, Uploading
      <4>3. uploader[u].calm => shelf["meta"].by = uploader[u].copy.by /\ uploader[u].copy.whole
        BY <1>1 DEF PodInv, Uploading
      <4>4. QED
        BY <1>3, <2>1, <4>2, <4>3
    <3>3. video \in Uploaders => video = u
      BY <2>2
    <3> HIDE DEF video
    <3>4. QED
      BY <1>3, <2>3, <3>1, <3>2, <3>3
  <2>4. CASE at = "failed"
    <3>1. shelf' = shelf
      BY <1>2, <2>4
    <3>2. ASSUME shelf["meta"].video \in Uploaders
          PROVE  /\ uploader[shelf["meta"].video].at = "done"
                 /\ uploader'[shelf["meta"].video] = uploader[shelf["meta"].video]
      <4>1. uploader[shelf["meta"].video].at = "done"
        BY <2>1, <3>2 DEF PodInv, NotedByDone
      <4>2. QED
        BY <1>1, <1>3, <3>2, <4>1
    <3>3. \E w \in Uploaders : uploader'[w].at \in {"sending", "sent", "failed"}
      BY <1>3, <2>4
    <3>4. shelf["meta"].video \in Uploaders =>
             \E v \in channel :
                v.name = shelf["meta"].video /\ (uploader[v.name].calm => v.from = shelf["meta"].by /\ v.whole)
      BY <2>1 DEF PodInv, VideoIsDescribed
    <3>5. QED
      BY <3>1, <3>2, <3>3, <3>4
  <2>5. QED
    BY <2>3, <2>4
<1>10. QED
  BY <1>5, <1>6, <1>7, <1>8, <1>9 DEF PodInv

LEMMA PodNext_Inv == ASSUME PodInv, PodcastNext PROVE PodInv'
  BY SessionEnds_Inv, WriteRollup_Inv, Begin_Inv, Script_Inv, Writes_Inv, Wrote_Inv, WriteMetadata_Inv,
     Breaks_Inv, UploadBegins_Inv, UploadEnds_Inv, UploadNoted_Inv DEF PodcastNext, ComposerStep, UploaderStep

LEMMA PodInvHolds == PodcastSpec => []PodInv
<1>1. PodInv /\ [PodcastNext]_podVars => PodInv'
  BY PodNext_Inv, PodStutter_Inv
<1>2. PodcastInit => PodInv
  BY PodInit_Inv
<1>3. QED
  BY <1>1, <1>2, PTL DEF PodcastSpec

LEMMA PodInvImplies == ASSUME PodInv PROVE EpisodeIsOfItsWeek
<1>1. RollupIsTheWeek
  <2> SUFFICES ASSUME weekly # Absent PROVE RollupIsTheWeek
    BY DEF RollupIsTheWeek
  <2> DEFINE of == weekly.of
             sum == weekly.sum
  <2>1. of \subseteq Replays /\ \A s \in of : InWindow(ReportOf[s])
    BY DEF PodInv, PodType, OfReplays
  <2>2. /\ sum.pnl = SumOf(Gains, of) /\ sum.agents = TopAgents(of) /\ sum.met = TopMet(of)
        /\ of # {} => sum.equity = ReportOf[Max(of)].equity
    BY DEF PodInv, SumsFit
  <2>3. IsFiniteSet(of)
    BY <2>1, PodcastAssumption, FS_Subset
  <2>4. SumOf(Gains, of) = MapThenSumSet(LAMBDA s : ReportOf[s].pnl, of)
    BY <2>1, <2>3, SumOfGains
  <2>5. QED
    BY <2>1, <2>2, <2>4 DEF RollupIsTheWeek, TopAgents, TopMet
<1>2. WeekIsTold /\ DoneIsWhole /\ VideoIsDescribed
  BY DEF PodInv, ToldFits
<1>3. QED
  BY <1>1, <1>2 DEF EpisodeIsOfItsWeek

(* Whenever sessions end and rollups are written, and whatever composers   *)
(* and uploaders share the directory, break off or come late: the rollup   *)
(* says what its sessions say together, a script tells every session it    *)
(* has room for, the files metadata speaks of are whole and of one         *)
(* composition, and a video id is that of a whole video of the episode     *)
(* (session/weekly_rollup.py, render/podcast.py).                          *)
THEOREM EpisodeIsOfItsWeekHolds == PodcastSpec => []EpisodeIsOfItsWeek
<1>1. PodInv => EpisodeIsOfItsWeek
  BY PodInvImplies
<1>2. QED
  BY PodInvHolds, <1>1, PTL

-------------------------------------------------------------------------------
(* The beats. *)
Pos == [qty : Int, basis : Int]

Aggregate == [realized : Int, closed : Nat, won : Nat, row : Nat, longest : Nat, lastClose : 0 .. LastSecond]

WalkType == [pos : [Traders -> [Traded -> Pos]], agg : [Traders -> Aggregate]]

WalkStart == [pos |-> [a \in Traders |-> [s \in Traded |-> Flat]],
              agg |-> [a \in Traders |-> Nobody]]

LEMMA FillTypes ==
    ASSUME NEW f \in Fills
    PROVE  /\ f.agent \in Traders /\ f.symbol \in Traded /\ f.side \in Sides
           /\ f.qty \in Nat \ {0} /\ f.price \in Nat \ {0} /\ f.t \in 1 .. LastSecond
           /\ Signed(f.side, f.qty) \in Int
<1>1. /\ f.agent \in Traders /\ f.symbol \in Traded /\ f.side \in Sides
      /\ f.qty \in Nat \ {0} /\ f.price \in Nat \ {0} /\ f.t \in 1 .. LastSecond
  BY BeatsAssumption DEF Fills
<1>2. QED
  BY <1>1, SignedType

LEMMA ClosedType ==
    ASSUME NEW agg \in Aggregate, NEW gain \in Int, NEW t \in 1 .. LastSecond
    PROVE  /\ Closed(agg, gain, t) \in Aggregate
           /\ Closed(agg, gain, t).realized = agg.realized + gain
<1> DEFINE row == IF gain > 0 THEN agg.row + 1 ELSE 0
<1>1. /\ agg.realized + gain \in Int /\ agg.closed + 1 \in Nat
      /\ (IF gain > 0 THEN agg.won + 1 ELSE agg.won) \in Nat /\ row \in Nat
      /\ Larger(agg.longest, row) \in Nat /\ t \in 0 .. LastSecond
  BY BeatsAssumption DEF Aggregate, Larger
<1>2. QED
  BY <1>1 DEF Closed, Aggregate

(* What a fill does to the walk. *)
Opens(p, f) == p.qty = 0 \/ (p.qty > 0) = (Signed(f.side, f.qty) > 0)

GainOf(p, f) ==
    LET n == Smaller(f.qty, Abs(p.qty)) IN
    IF p.qty > 0 THEN f.price * n - CostOf(p, n, f.price) ELSE CostOf(p, n, f.price) - f.price * n

PosAfter(p, f) ==
    LET s == Signed(f.side, f.qty)
        n == Smaller(f.qty, Abs(p.qty))
        cost == CostOf(p, n, f.price)
    IN  IF Opens(p, f) THEN [qty |-> p.qty + s, basis |-> p.basis + f.price * s]
        ELSE IF f.qty > n THEN [qty |-> p.qty + s, basis |-> f.price * (p.qty + s)]
        ELSE [qty |-> p.qty + s, basis |-> p.basis - (IF p.qty > 0 THEN cost ELSE -cost)]

LEMMA WalkedIs ==
    ASSUME NEW w \in WalkType, NEW f \in Fills
    PROVE  LET p == w.pos[f.agent][f.symbol] IN
           /\ Walked(w, f) \in WalkType
           /\ \A a \in Traders, x \in Traded :
                 Walked(w, f).pos[a][x] = IF a = f.agent /\ x = f.symbol THEN PosAfter(p, f) ELSE w.pos[a][x]
           /\ \A a \in Traders :
                 Walked(w, f).agg[a] = IF a = f.agent /\ ~Opens(p, f) THEN Closed(w.agg[a], GainOf(p, f), f.t)
                                       ELSE w.agg[a]
           /\ ~Opens(p, f) => GainOf(p, f) \in Int
<1> DEFINE p == w.pos[f.agent][f.symbol]
           s == Signed(f.side, f.qty)
           n == Smaller(f.qty, Abs(p.qty))
           cost == CostOf(p, n, f.price)
           gain == IF p.qty > 0 THEN f.price * n - cost ELSE cost - f.price * n
           rest == IF f.qty > n THEN [qty |-> p.qty + s, basis |-> f.price * (p.qty + s)]
                   ELSE [qty |-> p.qty + s, basis |-> p.basis - (IF p.qty > 0 THEN cost ELSE -cost)]
           opens == p.qty = 0 \/ (p.qty > 0) = (s > 0)
           more == [qty |-> p.qty + s, basis |-> p.basis + f.price * s]
           to == IF opens THEN more ELSE rest
           after == Closed(w.agg[f.agent], gain, f.t)
           agg == IF opens THEN w.agg[f.agent] ELSE after
<1>1. /\ f.agent \in Traders /\ f.symbol \in Traded
      /\ f.qty \in Nat \ {0} /\ f.price \in Nat \ {0} /\ f.t \in 1 .. LastSecond /\ s \in Int
  BY FillTypes
<1>2. p \in Pos /\ p.qty \in Int /\ p.basis \in Int /\ w.agg[f.agent] \in Aggregate
  BY <1>1 DEF WalkType, Pos
<1> HIDE DEF s, p
<1>3. Abs(p.qty) \in Nat /\ n \in Nat /\ Abs(p.basis) \in Nat
  BY <1>1, <1>2 DEF Abs, Smaller
<1>4. more \in Pos
  <2>1. f.price * s \in Int
    BY <1>1
  <2>2. p.qty + s \in Int /\ p.basis + f.price * s \in Int
    BY <1>1, <1>2, <2>1
  <2>3. QED
    BY <2>2 DEF Pos
<1>5. ~opens => rest \in Pos /\ after \in Aggregate /\ gain \in Int
  <2> SUFFICES ASSUME ~opens PROVE rest \in Pos /\ after \in Aggregate /\ gain \in Int
    OBVIOUS
  <2>1. Abs(p.qty) \in Nat /\ Abs(p.qty) > 0
    BY <1>2 DEF Abs
  <2>2. CostOf(p, n, f.price) \in Int
    <3>1. Abs(p.basis) * (Abs(p.qty) - n) \in Int
      BY <1>3
    <3>2. (Abs(p.basis) * (Abs(p.qty) - n)) \div Abs(p.qty) \in Int
      BY <2>1, <3>1
    <3>3. QED
      BY <1>3, <3>2 DEF CostOf
  <2>3. cost \in Int
    BY <2>2
  <2>4. f.price * n \in Int /\ f.price * (p.qty + s) \in Int /\ p.qty + s \in Int
    BY <1>1, <1>2, <1>3
  <2> HIDE DEF cost, n
  <2>5. gain \in Int /\ p.basis - (IF p.qty > 0 THEN cost ELSE -cost) \in Int
    BY <1>2, <2>3, <2>4
  <2>6. rest \in Pos
    BY <2>4, <2>5 DEF Pos
  <2> HIDE DEF gain
  <2>7. QED
    BY <1>1, <1>2, <2>5, <2>6, ClosedType
<1> HIDE DEF more, rest, after, gain
<1>6. Walked(w, f) = IF opens THEN [w EXCEPT !.pos[f.agent][f.symbol] = more]
                     ELSE [w EXCEPT !.pos[f.agent][f.symbol] = rest, !.agg[f.agent] = after]
  BY DEF Walked, more, rest, after, gain, p, s
<1>7. to \in Pos /\ agg \in Aggregate
  BY <1>2, <1>4, <1>5
<1> HIDE DEF opens
<1>8. Walked(w, f) = [pos |-> [w.pos EXCEPT ![f.agent][f.symbol] = to], agg |-> [w.agg EXCEPT ![f.agent] = agg]]
  <2>1. w = [pos |-> w.pos, agg |-> w.agg] /\ w.agg = [w.agg EXCEPT ![f.agent] = w.agg[f.agent]]
    BY <1>1 DEF WalkType
  <2>2. CASE opens
    <3>1. Walked(w, f) = [w EXCEPT !.pos[f.agent][f.symbol] = more]
      BY <1>6, <2>2
    <3>2. QED
      BY <2>1, <2>2, <3>1
  <2>3. CASE ~opens
    <3>1. Walked(w, f) = [w EXCEPT !.pos[f.agent][f.symbol] = rest, !.agg[f.agent] = after]
      BY <1>6, <2>3
    <3>2. QED
      BY <2>1, <2>3, <3>1
  <2>4. QED
    BY <2>2, <2>3
<1>9. /\ [w.pos EXCEPT ![f.agent][f.symbol] = to] \in [Traders -> [Traded -> Pos]]
      /\ [w.agg EXCEPT ![f.agent] = agg] \in [Traders -> Aggregate]
  BY <1>1, <1>7 DEF WalkType
<1>10. Walked(w, f) \in WalkType
  BY <1>8, <1>9 DEF WalkType
<1>11. \A a \in Traders, x \in Traded :
          Walked(w, f).pos[a][x] = IF a = f.agent /\ x = f.symbol THEN to ELSE w.pos[a][x]
  BY <1>1, <1>8 DEF WalkType
<1>12. \A a \in Traders : Walked(w, f).agg[a] = IF a = f.agent THEN agg ELSE w.agg[a]
  BY <1>1, <1>8 DEF WalkType
<1>13. to = PosAfter(p, f) /\ opens = Opens(p, f) /\ gain = GainOf(p, f)
  BY DEF PosAfter, Opens, GainOf, more, rest, gain, opens, s
<1>14. QED
  BY <1>5, <1>10, <1>11, <1>12, <1>13 DEF after, p

(* The walk, fill by fill. *)
IsWalk(c) ==
    /\ c \in [0 .. Len(filled) -> WalkType] /\ c[0] = WalkStart /\ c[Len(filled)] = Walk
    /\ \A k \in 1 .. Len(filled) : c[k] = Walked(c[k - 1], filled[k])

LEMMA WalkExists == ASSUME filled \in Seq(Fills) PROVE \E c : IsWalk(c)
<1> DEFINE n == Len(filled)
           R(h) == h = [T \in SUBSET (1 .. n) |->
                          IF T = {} THEN WalkStart ELSE Walked(h[T \ {Max(T)}], filled[Max(T)])]
           step == [p \in (1 .. n) \X WalkType |-> Walked(p[2], filled[p[1]])]
<1>1. n \in Nat /\ DOMAIN filled = 1 .. n /\ \A k \in 1 .. n : filled[k] \in Fills
  OBVIOUS
<1>2. Walk = (CHOOSE h : R(h))[1 .. n]
  BY <1>1 DEF Walk, FoldLeft, MapThenFoldSet, WalkStart
<1> HIDE DEF n
<1>3. \A w \in WalkType, k \in 1 .. n : Walked(w, filled[k]) \in WalkType
  BY <1>1, WalkedIs
<1>4. step \in [(1 .. n) \X WalkType -> WalkType]
  BY <1>3
<1>5. WalkStart \in WalkType
  BY BeatsAssumption DEF WalkStart, WalkType, Flat, Nobody, Pos, Aggregate
<1>6. \E h : R(h)
  <2> HIDE DEF step
  <2>1. PICK h \in [SUBSET (1 .. n) -> WalkType] : IsFold(h, WalkStart, step, n)
    BY <1>1, <1>4, <1>5, FoldExists
  <2> DEFINE q(T) == IF T = {} THEN WalkStart ELSE step[<<Max(T), h[T \ {Max(T)}]>>]
             r(T) == IF T = {} THEN WalkStart ELSE Walked(h[T \ {Max(T)}], filled[Max(T)])
  <2>2. \A T \in SUBSET (1 .. n) : q(T) = r(T)
    <3> TAKE T \in SUBSET (1 .. n)
    <3> SUFFICES ASSUME T # {} PROVE q(T) = r(T)
      OBVIOUS
    <3>1. Max(T) \in 1 .. n /\ h[T \ {Max(T)}] \in WalkType
      BY <1>1, MaxOfRange
    <3>2. <<Max(T), h[T \ {Max(T)}]>> \in (1 .. n) \X WalkType
      BY <3>1
    <3>3. QED
      BY <3>2 DEF step
  <2>3. h = [T \in SUBSET (1 .. n) |-> q(T)]
    BY <2>1 DEF IsFold
  <2> HIDE DEF q, r
  <2>4. h = [T \in SUBSET (1 .. n) |-> r(T)]
    BY <2>2, <2>3
  <2>5. R(h)
    BY <2>4 DEF r
  <2> HIDE DEF R
  <2>6. QED
    BY <2>5
<1>7. PICK h : R(h) /\ Walk = h[1 .. n]
  <2> HIDE DEF R
  <2>1. QED
    BY <1>2, <1>6
<1>8. ASSUME NEW T \in SUBSET (1 .. n)
      PROVE  h[T] = IF T = {} THEN WalkStart ELSE Walked(h[T \ {Max(T)}], filled[Max(T)])
  BY <1>7
<1> HIDE DEF R
<1>9. PICK c : c = [k \in 0 .. n |-> h[1 .. k]]
  OBVIOUS
<1>10. /\ c[0] = h[{}] /\ c[n] = h[1 .. n] /\ {} \in SUBSET (1 .. n)
       /\ \A k \in 1 .. n : /\ 1 .. k \in SUBSET (1 .. n) /\ 1 .. k # {} /\ Max(1 .. k) = k
                            /\ c[k] = h[1 .. k] /\ c[k - 1] = h[(1 .. k) \ {k}]
  <2>1. n \in Nat
    BY <1>1
  <2>2. Along(c, h, n)
    BY <1>9, <2>1, AlongPrefixes
  <2>3. QED
    BY <2>2 DEF Along
<1>11. c[0] = WalkStart /\ c[n] = Walk
  BY <1>7, <1>8, <1>10
<1>12. \A k \in 1 .. n : c[k] = Walked(c[k - 1], filled[k])
  <2> TAKE k \in 1 .. n
  <2>1. h[1 .. k] = Walked(h[(1 .. k) \ {k}], filled[k])
    BY <1>8, <1>10
  <2>2. QED
    BY <1>10, <2>1
<1>13. \A k \in 0 .. n : c[k] \in WalkType
  <2> DEFINE Good == {k \in 0 .. n : c[k] \in WalkType}
  <2>1. 0 \in Good
    BY <1>1, <1>5, <1>11
  <2>2. ASSUME NEW k \in 1 .. n, k - 1 \in Good PROVE k \in Good
    BY <1>1, <1>3, <1>12, <2>2
  <2> HIDE DEF Good
  <2>3. \A k \in 0 .. n : k \in Good
    BY <1>1, <2>1, <2>2, Reaches
  <2>4. QED
    BY <2>3 DEF Good
<1>14. c = [k \in 0 .. n |-> c[k]]
  BY <1>9
<1>15. c \in [0 .. n -> WalkType]
  BY <1>13, <1>14
<1>16. IsWalk(c)
  BY <1>11, <1>12, <1>15 DEF IsWalk, n
<1>17. QED
  BY <1>16

(* The book of an agent and a symbol, fill by fill. *)
Posted(a, s, b, f) == IF f.agent = a /\ f.symbol = s THEN RecordFill(b, f.side, f.qty, f.price) ELSE b

IsBook(a, s, c) ==
    /\ c \in [0 .. Len(filled) -> Book] /\ c[0] = NewBook(0) /\ c[Len(filled)] = BookOf(a, s)
    /\ \A k \in 1 .. Len(filled) : c[k] = Posted(a, s, c[k - 1], filled[k])

LEMMA BookExists ==
    ASSUME filled \in Seq(Fills), NEW a \in Traders, NEW s \in Traded
    PROVE  \E c : IsBook(a, s, c)
<1> DEFINE n == Len(filled)
           R(h) == h = [T \in SUBSET (1 .. n) |->
                          IF T = {} THEN NewBook(0) ELSE Posted(a, s, h[T \ {Max(T)}], filled[Max(T)])]
           step == [p \in (1 .. n) \X Book |-> Posted(a, s, p[2], filled[p[1]])]
<1>1. n \in Nat /\ DOMAIN filled = 1 .. n /\ \A k \in 1 .. n : filled[k] \in Fills
  OBVIOUS
<1>2. BookOf(a, s) = (CHOOSE h : R(h))[1 .. n]
  BY <1>1 DEF BookOf, FoldLeft, MapThenFoldSet, Posted
<1> HIDE DEF n
<1>3. \A b \in Book, k \in 1 .. n : Posted(a, s, b, filled[k]) \in Book
  <2> TAKE b \in Book, k \in 1 .. n
  <2>1. filled[k].side \in Sides /\ filled[k].qty \in Nat /\ filled[k].price \in Int
    BY <1>1, FillTypes
  <2>2. QED
    BY <2>1, RecordFillAtCost DEF Posted
<1>4. step \in [(1 .. n) \X Book -> Book]
  BY <1>3
<1>5. NewBook(0) \in Book
  BY DEF NewBook, Book
<1>6. \E h : R(h)
  <2> HIDE DEF step
  <2>1. PICK h \in [SUBSET (1 .. n) -> Book] : IsFold(h, NewBook(0), step, n)
    BY <1>1, <1>4, <1>5, FoldExists
  <2> DEFINE q(T) == IF T = {} THEN NewBook(0) ELSE step[<<Max(T), h[T \ {Max(T)}]>>]
             r(T) == IF T = {} THEN NewBook(0) ELSE Posted(a, s, h[T \ {Max(T)}], filled[Max(T)])
  <2>2. \A T \in SUBSET (1 .. n) : q(T) = r(T)
    <3> TAKE T \in SUBSET (1 .. n)
    <3> SUFFICES ASSUME T # {} PROVE q(T) = r(T)
      OBVIOUS
    <3>1. Max(T) \in 1 .. n /\ h[T \ {Max(T)}] \in Book
      BY <1>1, MaxOfRange
    <3>2. <<Max(T), h[T \ {Max(T)}]>> \in (1 .. n) \X Book
      BY <3>1
    <3>3. QED
      BY <3>2 DEF step
  <2>3. h = [T \in SUBSET (1 .. n) |-> q(T)]
    BY <2>1 DEF IsFold
  <2> HIDE DEF q, r
  <2>4. h = [T \in SUBSET (1 .. n) |-> r(T)]
    BY <2>2, <2>3
  <2>5. R(h)
    BY <2>4 DEF r
  <2> HIDE DEF R
  <2>6. QED
    BY <2>5
<1>7. PICK h : R(h) /\ BookOf(a, s) = h[1 .. n]
  <2> HIDE DEF R
  <2>1. QED
    BY <1>2, <1>6
<1>8. ASSUME NEW T \in SUBSET (1 .. n)
      PROVE  h[T] = IF T = {} THEN NewBook(0) ELSE Posted(a, s, h[T \ {Max(T)}], filled[Max(T)])
  BY <1>7
<1> HIDE DEF R
<1>9. PICK c : c = [k \in 0 .. n |-> h[1 .. k]]
  OBVIOUS
<1>10. /\ c[0] = h[{}] /\ c[n] = h[1 .. n] /\ {} \in SUBSET (1 .. n)
       /\ \A k \in 1 .. n : /\ 1 .. k \in SUBSET (1 .. n) /\ 1 .. k # {} /\ Max(1 .. k) = k
                            /\ c[k] = h[1 .. k] /\ c[k - 1] = h[(1 .. k) \ {k}]
  <2>1. n \in Nat
    BY <1>1
  <2>2. Along(c, h, n)
    BY <1>9, <2>1, AlongPrefixes
  <2>3. QED
    BY <2>2 DEF Along
<1>11. c[0] = NewBook(0) /\ c[n] = BookOf(a, s)
  BY <1>7, <1>8, <1>10
<1>12. \A k \in 1 .. n : c[k] = Posted(a, s, c[k - 1], filled[k])
  <2> TAKE k \in 1 .. n
  <2>1. h[1 .. k] = Posted(a, s, h[(1 .. k) \ {k}], filled[k])
    BY <1>8, <1>10
  <2>2. QED
    BY <1>10, <2>1
<1>13. \A k \in 0 .. n : c[k] \in Book
  <2> DEFINE Good == {k \in 0 .. n : c[k] \in Book}
  <2>1. 0 \in Good
    BY <1>1, <1>5, <1>11
  <2>2. ASSUME NEW k \in 1 .. n, k - 1 \in Good PROVE k \in Good
    BY <1>1, <1>3, <1>12, <2>2
  <2> HIDE DEF Good
  <2>3. \A k \in 0 .. n : k \in Good
    BY <1>1, <2>1, <2>2, Reaches
  <2>4. QED
    BY <2>3 DEF Good
<1>14. c = [k \in 0 .. n |-> c[k]]
  BY <1>9
<1>15. c \in [0 .. n -> Book]
  BY <1>13, <1>14
<1>16. IsBook(a, s, c)
  BY <1>11, <1>12, <1>15 DEF IsBook, n
<1>17. QED
  BY <1>16

(* What an agent holds of a symbol after the first k fills. *)
Moved(a, s) ==
    [i \in 1 .. Len(filled) |->
       IF filled[i].agent = a /\ filled[i].symbol = s THEN Signed(filled[i].side, filled[i].qty) ELSE 0]

(* What is held after k fills, and that no sale exceeds it. *)
Held(a, s, k) == SumOf(Moved(a, s), 1 .. k)

SalesAreHeld ==
    \A i \in 1 .. Len(filled) :
       filled[i].side = "sell" => filled[i].qty <= Held(filled[i].agent, filled[i].symbol, i - 1)

LEMMA MovedType ==
    ASSUME filled \in Seq(Fills), NEW a, NEW s
    PROVE  Moved(a, s) \in [1 .. Len(filled) -> Int]
  BY FillTypes DEF Moved

LEMMA HeldStep ==
    ASSUME filled \in Seq(Fills), NEW a, NEW s
    PROVE  /\ Held(a, s, 0) = 0
           /\ \A k \in 0 .. Len(filled) : Held(a, s, k) \in Int
           /\ \A k \in 1 .. Len(filled) : Held(a, s, k) = Moved(a, s)[k] + Held(a, s, k - 1)
<1>1. PICK m : m = Moved(a, s)
  OBVIOUS
<1>2. m \in [1 .. Len(filled) -> Int] /\ Len(filled) \in Nat
  BY <1>1, MovedType
<1>3. Held(a, s, 0) = 0
  <2>1. 1 .. 0 = {}
    OBVIOUS
  <2>2. QED
    BY <2>1, SumOfEmpty DEF Held
<1>4. ASSUME NEW k \in 0 .. Len(filled) PROVE Held(a, s, k) \in Int
  <2>1. 1 \in Int /\ k \in Int /\ \A x \in 1 .. k : m[x] \in Int
    BY <1>2
  <2>2. IsFiniteSet(1 .. k)
    BY <2>1, FS_Interval
  <2>3. QED
    BY <1>1, <2>1, <2>2, SumOfType DEF Held
<1>5. ASSUME NEW k \in 1 .. Len(filled) PROVE Held(a, s, k) = m[k] + Held(a, s, k - 1)
  <2>1. /\ 1 \in Int /\ k - 1 \in Int /\ k \notin 1 .. (k - 1) /\ 1 .. k = (1 .. (k - 1)) \cup {k}
        /\ \A x \in (1 .. (k - 1)) \cup {k} : m[x] \in Int
    BY <1>2
  <2>2. IsFiniteSet(1 .. (k - 1))
    BY <2>1, FS_Interval
  <2>3. SumOf(m, (1 .. (k - 1)) \cup {k}) = m[k] + SumOf(m, 1 .. (k - 1))
    BY <2>1, <2>2, SumOfAdd
  <2>4. QED
    BY <1>1, <2>1, <2>3 DEF Held
<1>6. QED
  BY <1>1, <1>3, <1>4, <1>5

(* The fold of the guard of Trade is that sum. *)
LEMMA HoldsIsHeld ==
    ASSUME filled \in Seq(Fills), NEW a, NEW s
    PROVE  Holds(a, s) = Held(a, s, Len(filled))
<1> DEFINE S == 1 .. Len(filled)
           f == Moved(a, s)
           MineOf(x) == IF x.agent = a /\ x.symbol = s THEN Signed(x.side, x.qty) ELSE 0
           R(h) == h = [T \in SUBSET S |-> IF T = {} THEN 0
                          ELSE h[T \ {CHOOSE x \in T : TRUE}] + MineOf(filled[CHOOSE x \in T : TRUE])]
           q(h, T) == IF T = {} THEN 0
                      ELSE h[T \ {CHOOSE x \in T : TRUE}] + MineOf(filled[CHOOSE x \in T : TRUE])
           r(h, T) == IF T = {} THEN 0 ELSE h[T \ {Pick(T)}] + f[Pick(T)]
<1>1. DOMAIN filled = S /\ f \in [S -> Int] /\ IsFiniteSet(S)
  <2>1. Len(filled) \in Int /\ 1 \in Int /\ DOMAIN filled = S
    OBVIOUS
  <2>2. QED
    BY <2>1, MovedType, FS_Interval
<1>2. Holds(a, s) = (CHOOSE h : R(h))[S]
  BY <1>1 DEF Holds, FoldSeq, FoldFunction, FoldFunctionOnSet, MapThenFoldSet
<1>3. ASSUME NEW h, NEW T \in SUBSET S PROVE q(h, T) = r(h, T)
  <2>1. CASE T # {}
    <3>1. Pick(T) \in S /\ Pick(T) = CHOOSE x \in T : TRUE
      BY <2>1, PickIsIn DEF Pick
    <3>2. f[Pick(T)] = MineOf(filled[Pick(T)])
      BY <3>1 DEF Moved
    <3>3. QED
      BY <3>1, <3>2
  <2>2. QED
    BY <2>1
<1> HIDE DEF f, MineOf
<1>4. \A h : R(h) <=> IsSumBack(h, f, S)
  <2> TAKE h
  <2>1. \A T \in SUBSET S : q(h, T) = r(h, T)
    BY <1>3
  <2> HIDE DEF q, r
  <2>2. [T \in SUBSET S |-> q(h, T)] = [T \in SUBSET S |-> r(h, T)]
    BY <2>1
  <2>3. QED
    BY <2>2 DEF q, r, IsSumBack
<1>5. \E h : IsSumBack(h, f, S)
  BY <1>1, SumBackExists
<1>6. PICK h : IsSumBack(h, f, S) /\ Holds(a, s) = h[S]
  <2> HIDE DEF R
  <2>1. R(CHOOSE h : R(h))
    BY <1>4, <1>5
  <2>2. QED
    BY <1>2, <1>4, <2>1
<1>7. h[S] = SumOf(f, S)
  BY <1>1, <1>6, SumBackIs
<1>8. QED
  BY <1>6, <1>7 DEF Held, f

(* A fill moves the walk's position as it moves the book. *)
LEMMA SameStep ==
    ASSUME NEW p \in Pos, NEW b \in Book, NEW f \in Fills, b.qty = p.qty, b.basis = p.basis,
           p.qty >= 0, p.basis >= 0, f.side = "sell" => f.qty <= p.qty
    PROVE  LET c == RecordFill(b, f.side, f.qty, f.price) IN
           /\ c.qty = p.qty + Signed(f.side, f.qty) /\ c.qty >= 0
           /\ PosAfter(p, f).qty = c.qty /\ PosAfter(p, f).basis = c.basis /\ c.basis >= 0
           /\ c.realized = b.realized + IF Opens(p, f) THEN 0 ELSE GainOf(p, f)
<1> DEFINE s == Signed(f.side, f.qty)
           c == RecordFill(b, f.side, f.qty, f.price)
<1>1. /\ f.qty \in Nat \ {0} /\ f.price \in Nat \ {0} /\ s \in Int /\ f.side \in Sides
      /\ f.side = "buy" => s = f.qty
      /\ f.side = "sell" => s = -f.qty
  BY FillTypes, SignedType
<1>2. p.qty \in Int /\ p.basis \in Int /\ b.realized \in Int
  BY DEF Pos, Book
<1>3. f.side = "buy" \/ f.side = "sell"
  BY <1>1 DEF Sides
<1>4. ClampFlip(b.qty, f.side, f.qty) = f.qty
  BY <1>1, <1>2, <1>3 DEF ClampFlip, Abs, SameSide
<1> DEFINE left == BasisAfter(b, s, f.price)
<1>5. c.qty = p.qty + s /\ c.basis = left /\ c.realized = b.realized - f.price * s + left - p.basis
  BY <1>4 DEF RecordFill
<1>6. CASE f.side = "buy"
  <2>1. s = f.qty /\ s > 0 /\ Opens(p, f)
    BY <1>1, <1>2, <1>6 DEF Opens
  <2>2. p.qty = 0 \/ SameSide(p.qty, s)
    BY <2>1 DEF Opens, SameSide
  <2>3. left = p.basis + f.price * s
    BY <2>2 DEF BasisAfter
  <2>4. PICK v \in Nat : v = f.price * s
    BY <1>1, <2>1
  <2>5. PosAfter(p, f) = [qty |-> p.qty + s, basis |-> p.basis + f.price * s]
    BY <2>1 DEF PosAfter
  <2>6. left >= 0 /\ p.qty + s >= 0 /\ c.realized = b.realized
    <3>1. left = p.basis + v
      BY <2>3, <2>4
    <3>2. c.realized = b.realized - v + left - p.basis
      BY <1>5, <2>4
    <3> HIDE DEF left, c
    <3>3. left >= 0 /\ c.realized = b.realized
      BY <1>2, <2>4, <3>1, <3>2
    <3>4. p.qty + s >= 0
      BY <1>1, <1>2, <2>1
    <3>5. QED
      BY <3>3, <3>4
  <2>7. QED
    BY <1>2, <1>5, <2>1, <2>3, <2>5, <2>6
<1>7. CASE f.side = "sell"
  <2>1. s = -f.qty /\ s < 0 /\ p.qty > 0 /\ f.qty <= p.qty
    BY <1>1, <1>2, <1>7
  <2>2. ~Opens(p, f) /\ ~(b.qty = 0 \/ SameSide(b.qty, s))
    BY <1>1, <1>2, <2>1 DEF Opens, SameSide
  <2>3. /\ Abs(p.qty) = p.qty /\ Abs(p.basis) = p.basis /\ Abs(p.qty + s) = p.qty - f.qty
        /\ Smaller(f.qty, Abs(p.qty)) = f.qty
    BY <1>1, <1>2, <2>1 DEF Abs, Smaller
  <2> DEFINE share == (p.basis * (p.qty - f.qty)) \div p.qty
  <2>4. left = share
    BY <2>2, <2>3 DEF BasisAfter, BasisLeft
  <2>5. CostOf(p, f.qty, f.price) = p.basis - share
    BY <2>3 DEF CostOf
  <2>6. share \in Int /\ share >= 0
    <3>1. p.basis * (p.qty - f.qty) \in Nat
      BY <1>1, <1>2, <2>1
    <3>2. QED
      BY <1>2, <2>1, <3>1
  <2> HIDE DEF share
  <2>7. f.price * s = -(f.price * f.qty) /\ f.price * f.qty \in Int
    BY <1>1, <2>1
  <2>8. GainOf(p, f) = f.price * f.qty - (p.basis - share)
    BY <2>1, <2>3, <2>5 DEF GainOf
  <2>9. PosAfter(p, f) = [qty |-> p.qty + s, basis |-> p.basis - (p.basis - share)]
    <3>1. ~(f.qty > f.qty)
      BY <1>1
    <3>2. QED
      BY <2>1, <2>2, <2>3, <2>5, <3>1 DEF PosAfter
  <2>10. PosAfter(p, f).basis = share /\ PosAfter(p, f).qty = p.qty + s
    BY <1>2, <2>6, <2>9
  <2>11. c.realized = b.realized + GainOf(p, f)
    BY <1>2, <1>5, <2>4, <2>6, <2>7, <2>8
  <2>12. QED
    BY <1>1, <1>2, <1>5, <2>1, <2>2, <2>4, <2>6, <2>10, <2>11
<1>8. QED
  BY <1>3, <1>6, <1>7

(* What the books of an agent realize, as a sum. *)
LEMMA BooksAreSum ==
    ASSUME NEW a, NEW f, f = [s \in Traded |-> BookOf(a, s).realized], \A s \in Traded : f[s] \in Int
    PROVE  FoldSet(LAMBDA s, sum : sum + BookOf(a, s).realized, 0, Traded) = SumOf(f, Traded)
<1> DEFINE R(h) == h = [T \in SUBSET Traded |-> IF T = {} THEN 0
                          ELSE h[T \ {CHOOSE x \in T : TRUE}] + BookOf(a, CHOOSE x \in T : TRUE).realized]
           q(h, T) == IF T = {} THEN 0
                      ELSE h[T \ {CHOOSE x \in T : TRUE}] + BookOf(a, CHOOSE x \in T : TRUE).realized
           r(h, T) == IF T = {} THEN 0 ELSE h[T \ {Pick(T)}] + f[Pick(T)]
           total == FoldSet(LAMBDA s, sum : sum + BookOf(a, s).realized, 0, Traded)
<1>1. total = (CHOOSE h : R(h))[Traded]
  BY DEF FoldSet, MapThenFoldSet
<1> HIDE DEF total
<1>2. IsFiniteSet(Traded)
  BY BeatsAssumption
<1>3. ASSUME NEW h, NEW T \in SUBSET Traded PROVE q(h, T) = r(h, T)
  <2>1. CASE T # {}
    <3>1. Pick(T) \in Traded /\ Pick(T) = CHOOSE x \in T : TRUE
      BY <2>1, PickIsIn DEF Pick
    <3>2. f[Pick(T)] = BookOf(a, Pick(T)).realized
      BY <3>1
    <3>3. QED
      BY <3>1, <3>2
  <2>2. QED
    BY <2>1
<1>4. \A h : R(h) <=> IsSumBack(h, f, Traded)
  <2> TAKE h
  <2>1. \A T \in SUBSET Traded : q(h, T) = r(h, T)
    BY <1>3
  <2> HIDE DEF q, r
  <2>2. [T \in SUBSET Traded |-> q(h, T)] = [T \in SUBSET Traded |-> r(h, T)]
    BY <2>1
  <2>3. QED
    BY <2>2 DEF q, r, IsSumBack
<1>5. \E h : IsSumBack(h, f, Traded)
  BY <1>2, SumBackExists
<1>6. PICK h : IsSumBack(h, f, Traded) /\ total = h[Traded]
  <2> HIDE DEF R
  <2>1. R(CHOOSE h : R(h))
    BY <1>4, <1>5
  <2>2. QED
    BY <1>1, <1>4, <2>1
<1>7. h[Traded] = SumOf(f, Traded)
  BY <1>2, <1>6, SumBackIs
<1>8. QED
  BY <1>6, <1>7 DEF total

(* The walk and the books, fill by fill. *)
LEMMA WalkMatches ==
    ASSUME filled \in Seq(Fills), SalesAreHeld
    PROVE  WalkIsTheBook
<1> DEFINE n == Len(filled)
           Good(w, bk, k) ==
              /\ \A a \in Traders, s \in Traded :
                    LET p == w[k].pos[a][s] b == bk[a, s][k] IN
                    /\ p.qty = b.qty /\ p.basis = b.basis
                    /\ p.qty = Held(a, s, k) /\ p.qty >= 0 /\ p.basis >= 0
              /\ \A a \in Traders :
                    w[k].agg[a].realized = SumOf([s \in Traded |-> bk[a, s][k].realized], Traded)
<1>1. n \in Nat /\ \A k \in 1 .. n : filled[k] \in Fills
  OBVIOUS
<1>2. PICK w : IsWalk(w)
  BY WalkExists
<1>3. \A a \in Traders, s \in Traded : \E c : IsBook(a, s, c)
  BY BookExists
<1> DEFINE books == [p \in Traders \X Traded |-> CHOOSE c : IsBook(p[1], p[2], c)]
<1>4. PICK bk : bk = books
  OBVIOUS
<1>5. \A a \in Traders, s \in Traded : IsBook(a, s, bk[a, s])
  <2> TAKE a \in Traders, s \in Traded
  <2>1. <<a, s>> \in Traders \X Traded /\ bk[a, s] = CHOOSE c : IsBook(a, s, c)
    BY <1>4
  <2>2. QED
    BY <1>3, <2>1
<1> HIDE DEF books
<1>6. /\ \A k \in 0 .. n : w[k] \in WalkType
      /\ w[0] = WalkStart /\ w[n] = Walk /\ \A k \in 1 .. n : w[k] = Walked(w[k - 1], filled[k])
  BY <1>2 DEF IsWalk
<1>7. ASSUME NEW a \in Traders, NEW s \in Traded
      PROVE  /\ \A k \in 0 .. n : bk[a, s][k] \in Book /\ bk[a, s][k].realized \in Int
             /\ bk[a, s][0] = NewBook(0) /\ bk[a, s][n] = BookOf(a, s)
             /\ \A k \in 1 .. n : bk[a, s][k] = Posted(a, s, bk[a, s][k - 1], filled[k])
  <2>1. IsBook(a, s, bk[a, s])
    BY <1>5
  <2>2. QED
    BY <2>1 DEF IsBook, Book
<1>8. IsFiniteSet(Traded)
  BY BeatsAssumption
<1>9. Good(w, bk, 0)
  <2>1. ASSUME NEW a \in Traders, NEW s \in Traded
        PROVE  /\ w[0].pos[a][s] = Flat /\ bk[a, s][0] = NewBook(0) /\ Held(a, s, 0) = 0
               /\ Flat.qty = 0 /\ Flat.basis = 0 /\ NewBook(0).qty = 0 /\ NewBook(0).basis = 0
    <3>1. w[0].pos[a][s] = Flat
      BY <1>6 DEF WalkStart
    <3>2. bk[a, s][0] = NewBook(0)
      BY <1>7
    <3>3. Held(a, s, 0) = 0
      BY HeldStep
    <3>4. Flat.qty = 0 /\ Flat.basis = 0 /\ NewBook(0).qty = 0 /\ NewBook(0).basis = 0
      BY DEF Flat, NewBook
    <3>5. QED
      BY <3>1, <3>2, <3>3, <3>4
  <2>2. ASSUME NEW a \in Traders
        PROVE  w[0].agg[a].realized = SumOf([s \in Traded |-> bk[a, s][0].realized], Traded)
    <3>1. w[0].agg[a] = Nobody /\ Nobody.realized = 0
      BY <1>6 DEF WalkStart, Nobody
    <3>2. PICK f : f = [s \in Traded |-> bk[a, s][0].realized]
      OBVIOUS
    <3>3. \A s \in Traded : f[s] = 0
      <4> TAKE s \in Traded
      <4>1. f[s] = NewBook(0).realized
        BY <1>7, <3>2
      <4>2. QED
        BY <4>1 DEF NewBook
    <3>4. SumOf(f, Traded) = 0
      BY <1>8, <3>3, SumOfZero
    <3>5. QED
      BY <3>1, <3>2, <3>4
  <2>3. ASSUME NEW a \in Traders, NEW s \in Traded
        PROVE  /\ w[0].pos[a][s].qty = bk[a, s][0].qty /\ w[0].pos[a][s].basis = bk[a, s][0].basis
               /\ w[0].pos[a][s].qty = Held(a, s, 0) /\ w[0].pos[a][s].qty >= 0
               /\ w[0].pos[a][s].basis >= 0
    <3>1. w[0].pos[a][s].qty = 0 /\ w[0].pos[a][s].basis = 0
      BY <2>1
    <3>2. bk[a, s][0].qty = 0 /\ bk[a, s][0].basis = 0 /\ Held(a, s, 0) = 0
      BY <2>1
    <3>3. 0 >= 0
      OBVIOUS
    <3>4. QED
      BY <3>1, <3>2, <3>3, Zenon
  <2>4. QED
    BY <2>2, <2>3
<1>10. ASSUME NEW k \in 1 .. n, Good(w, bk, k - 1) PROVE Good(w, bk, k)
  <2>1. PICK f, v : f = filled[k] /\ v = w[k - 1]
    OBVIOUS
  <2> DEFINE p == v.pos[f.agent][f.symbol]
             b == bk[f.agent, f.symbol][k - 1]
             s0 == Signed(f.side, f.qty)
             gain == IF Opens(p, f) THEN 0 ELSE GainOf(p, f)
  <2>2. /\ k - 1 \in 0 .. n /\ k \in 0 .. n /\ f \in Fills /\ f.agent \in Traders /\ f.symbol \in Traded
        /\ f.t \in 1 .. LastSecond /\ s0 \in Int
    BY <1>1, <2>1, FillTypes
  <2>3. v \in WalkType /\ w[k] = Walked(v, f)
    BY <1>6, <2>1, <2>2
  <2>4. p \in Pos /\ p.qty \in Int
    BY <2>2, <2>3 DEF WalkType, Pos
  <2>5. b \in Book /\ b.qty = p.qty /\ b.basis = p.basis /\ p.qty >= 0 /\ p.basis >= 0
    BY <1>7, <1>10, <2>1, <2>2
  <2>6. f.side = "sell" => f.qty <= p.qty
    <3>1. p.qty = Held(f.agent, f.symbol, k - 1)
      BY <1>10, <2>1, <2>2
    <3>2. QED
      BY <2>1, <3>1 DEF SalesAreHeld
  <2> DEFINE c == RecordFill(b, f.side, f.qty, f.price)
  <2>7. /\ c.qty = p.qty + s0 /\ c.qty >= 0
        /\ PosAfter(p, f).qty = c.qty /\ PosAfter(p, f).basis = c.basis /\ c.basis >= 0
        /\ c.realized = b.realized + gain
    BY <2>2, <2>4, <2>5, <2>6, SameStep
  <2>8. /\ \A a \in Traders, s \in Traded :
              w[k].pos[a][s] = IF a = f.agent /\ s = f.symbol THEN PosAfter(p, f) ELSE v.pos[a][s]
        /\ \A a \in Traders :
              w[k].agg[a] = IF a = f.agent /\ ~Opens(p, f) THEN Closed(v.agg[a], GainOf(p, f), f.t)
                            ELSE v.agg[a]
        /\ ~Opens(p, f) => GainOf(p, f) \in Int
    <3>1. PICK x : x = Walked(v, f)
      OBVIOUS
    <3>2. /\ \A a \in Traders, s \in Traded :
                x.pos[a][s] = IF a = f.agent /\ s = f.symbol THEN PosAfter(p, f) ELSE v.pos[a][s]
          /\ \A a \in Traders :
                x.agg[a] = IF a = f.agent /\ ~Opens(p, f) THEN Closed(v.agg[a], GainOf(p, f), f.t)
                           ELSE v.agg[a]
          /\ ~Opens(p, f) => GainOf(p, f) \in Int
      BY <2>2, <2>3, <3>1, WalkedIs, ZenonT(40)
    <3>3. QED
      BY <2>3, <3>1, <3>2
  <2>9. gain \in Int
    BY <2>8
  <2>10. \A a \in Traders, s \in Traded :
            bk[a, s][k] = IF a = f.agent /\ s = f.symbol THEN c ELSE bk[a, s][k - 1]
    <3> TAKE a \in Traders, s \in Traded
    <3>1. bk[a, s][k] = Posted(a, s, bk[a, s][k - 1], f)
      BY <1>7, <2>1
    <3>2. QED
      BY <3>1 DEF Posted
  <2>11. \A a \in Traders, s \in Traded :
            w[k].pos[a][s] = IF a = f.agent /\ s = f.symbol THEN PosAfter(p, f) ELSE v.pos[a][s]
    BY <2>8
  <2>12. \A a \in Traders, s \in Traded :
            Held(a, s, k) = Held(a, s, k - 1) + IF a = f.agent /\ s = f.symbol THEN s0 ELSE 0
    <3> TAKE a \in Traders, s \in Traded
    <3>1. Held(a, s, k) = Moved(a, s)[k] + Held(a, s, k - 1) /\ Held(a, s, k - 1) \in Int
      BY <2>2, HeldStep
    <3>2. Moved(a, s)[k] = IF a = f.agent /\ s = f.symbol THEN s0 ELSE 0
      BY <2>1 DEF Moved
    <3>3. QED
      BY <2>2, <3>1, <3>2
  <2>13. \A a \in Traders : w[k].agg[a].realized = v.agg[a].realized + IF a = f.agent THEN gain ELSE 0
    <3> TAKE a \in Traders
    <3>1. v.agg[a] \in Aggregate /\ v.agg[a].realized \in Int
      BY <2>3 DEF WalkType, Aggregate
    <3>2. w[k].agg[a] = IF a = f.agent /\ ~Opens(p, f) THEN Closed(v.agg[a], GainOf(p, f), f.t) ELSE v.agg[a]
      BY <2>8
    <3>3. CASE a = f.agent /\ ~Opens(p, f)
      <4>1. GainOf(p, f) = gain
        BY <3>3
      <4>2. Closed(v.agg[a], GainOf(p, f), f.t).realized = v.agg[a].realized + GainOf(p, f)
        BY <2>2, <2>9, <3>1, <4>1, ClosedType
      <4>3. QED
        BY <3>2, <3>3, <4>1, <4>2
    <3>4. CASE ~(a = f.agent /\ ~Opens(p, f))
      BY <3>1, <3>2, <3>4
    <3>5. QED
      BY <3>3, <3>4
  <2> HIDE DEF gain, c, s0, p, b
  <2>14. ASSUME NEW a \in Traders, NEW s \in Traded
         PROVE  /\ w[k].pos[a][s].qty = bk[a, s][k].qty /\ w[k].pos[a][s].basis = bk[a, s][k].basis
                /\ w[k].pos[a][s].qty = Held(a, s, k) /\ w[k].pos[a][s].qty >= 0
                /\ w[k].pos[a][s].basis >= 0
    <3>1. /\ v.pos[a][s].qty = bk[a, s][k - 1].qty /\ v.pos[a][s].basis = bk[a, s][k - 1].basis
          /\ v.pos[a][s].qty = Held(a, s, k - 1) /\ v.pos[a][s].qty >= 0 /\ v.pos[a][s].basis >= 0
      BY <1>10, <2>1
    <3>2. CASE a = f.agent /\ s = f.symbol
      <4>1. w[k].pos[a][s] = PosAfter(p, f) /\ bk[a, s][k] = c /\ Held(a, s, k) = Held(a, s, k - 1) + s0
        BY <2>10, <2>11, <2>12, <3>2
      <4>2. v.pos[a][s] = p
        BY <3>2 DEF p
      <4>3. QED
        BY <2>7, <3>1, <4>1, <4>2
    <3>3. CASE ~(a = f.agent /\ s = f.symbol)
      <4>1. Held(a, s, k - 1) \in Int
        BY <2>2, HeldStep
      <4>2. w[k].pos[a][s] = v.pos[a][s] /\ bk[a, s][k] = bk[a, s][k - 1]
        BY <2>10, <2>11, <3>3
      <4>3. Held(a, s, k) = Held(a, s, k - 1)
        <5>1. Held(a, s, k) = Held(a, s, k - 1) + 0
          BY <2>12, <3>3
        <5>2. QED
          BY <4>1, <5>1
      <4>4. QED
        BY <3>1, <4>2, <4>3
    <3>4. QED
      BY <3>2, <3>3
  <2>15. ASSUME NEW a \in Traders
         PROVE  w[k].agg[a].realized = SumOf([s \in Traded |-> bk[a, s][k].realized], Traded)
    <3> DEFINE e == [s \in Traded |-> bk[a, s][k - 1].realized]
               g == [s \in Traded |-> bk[a, s][k].realized]
    <3>1. \A s \in Traded : e[s] \in Int /\ g[s] \in Int
      BY <1>7, <2>2
    <3>2. v.agg[a].realized = SumOf(e, Traded)
      BY <1>10, <2>1
    <3>3. CASE a = f.agent
      <4>1. \A s \in Traded : g[s] = IF s = f.symbol THEN e[s] + gain ELSE e[s]
        BY <2>7, <2>10, <3>3 DEF b
      <4> HIDE DEF e, g
      <4>2. SumOf(g, Traded) = SumOf(e, Traded) + gain
        BY <1>8, <2>2, <2>9, <3>1, <4>1, SumOfOneMore
      <4>3. QED
        BY <2>13, <3>2, <3>3, <4>2 DEF g
    <3>4. CASE a # f.agent
      <4>1. \A s \in Traded : g[s] = e[s]
        BY <2>10, <3>4
      <4>2. v.agg[a].realized \in Int
        BY <2>3 DEF WalkType, Aggregate
      <4> HIDE DEF e, g
      <4>3. SumOf(g, Traded) = SumOf(e, Traded)
        BY <1>8, <4>1, SumOfSame
      <4>4. QED
        <5>1. w[k].agg[a].realized = v.agg[a].realized + 0
          BY <2>13, <3>4
        <5>2. w[k].agg[a].realized = v.agg[a].realized
          BY <4>2, <5>1
        <5>3. QED
          BY <3>2, <4>3, <5>2 DEF g
    <3>5. QED
      BY <3>3, <3>4
  <2>16. QED
    BY <2>14, <2>15
<1>11. Good(w, bk, n)
  <2> DEFINE Reached == {k \in 0 .. n : Good(w, bk, k)}
  <2> HIDE DEF Good
  <2>1. 0 \in Reached /\ \A k \in 1 .. n : k - 1 \in Reached => k \in Reached
    BY <1>1, <1>9, <1>10
  <2> HIDE DEF Reached
  <2>2. \A k \in 0 .. n : k \in Reached
    BY <1>1, <2>1, Reaches
  <2>3. n \in 0 .. n
    BY <1>1
  <2>4. QED
    BY <2>2, <2>3 DEF Reached
<1>12. ASSUME NEW a \in Traders
       PROVE  Walk.agg[a].realized = FoldSet(LAMBDA s, sum : sum + BookOf(a, s).realized, 0, Traded)
  <2> DEFINE f == [s \in Traded |-> BookOf(a, s).realized]
  <2>1. w[n] = Walk /\ \A s \in Traded : bk[a, s][n] = BookOf(a, s) /\ bk[a, s][n].realized \in Int
    <3>1. n \in 0 .. n
      BY <1>1
    <3>2. QED
      BY <1>6, <1>7, <3>1
  <2>2. [s \in Traded |-> bk[a, s][n].realized] = f
    BY <2>1
  <2>3. Walk.agg[a].realized = SumOf(f, Traded)
    BY <1>11, <2>1, <2>2
  <2>4. \A s \in Traded : f[s] \in Int
    BY <2>1
  <2>5. FoldSet(LAMBDA s, sum : sum + BookOf(a, s).realized, 0, Traded) = SumOf(f, Traded)
    BY <2>4, BooksAreSum
  <2>6. QED
    BY <2>3, <2>5
<1>13. QED
  BY <1>12 DEF WalkIsTheBook

(* What a scorer proposes: beats of its kinds, finitely many, which kind    *)
(* and number tell apart.                                                  *)
IsBeat(b) ==
    /\ b.kind \in BeatKinds /\ b.n \in Nat /\ b.t \in Int /\ b.t <= LastSecond + 1
    /\ b.agents \subseteq Traders /\ b.score \in 0 .. 100
    /\ IsAnchor(b) => b.n = 0 /\ b.agents = {}

Scored(beats, kinds) ==
    /\ IsFiniteSet(beats) /\ \A b \in beats : IsBeat(b) /\ b.kind \in kinds
    /\ \A b, c \in beats : b.kind = c.kind /\ b.n = c.n => b = c

LEMMA BeatIs ==
    ASSUME NEW kind \in BeatKinds, NEW n \in Nat, NEW t \in Int, t <= LastSecond + 1,
           NEW agents \in SUBSET Traders, NEW symbol, NEW score \in Int,
           kind \in {"open", "recap"} => n = 0 /\ agents = {}
    PROVE  /\ IsBeat(Beat(kind, n, t, agents, symbol, score))
           /\ Beat(kind, n, t, agents, symbol, score).kind = kind
           /\ Beat(kind, n, t, agents, symbol, score).n = n
<1>1. Clamp100(score) \in 0 .. 100
  BY DEF Clamp100, Larger, Smaller
<1>2. QED
  BY <1>1 DEF Beat, IsBeat, IsAnchor

LEMMA ScoredBy ==
    ASSUME NEW S, IsFiniteSet(S), NEW beat, NEW kinds, NEW beats, beats \subseteq {beat[x] : x \in S},
           \A x \in S : beat[x] \in beats => IsBeat(beat[x]) /\ beat[x].kind \in kinds,
           \A x, y \in S : beat[x].kind = beat[y].kind /\ beat[x].n = beat[y].n => beat[x] = beat[y]
    PROVE  Scored(beats, kinds)
<1>1. IsFiniteSet(beats)
  BY FiniteImage
<1>2. \A b \in beats : \E x \in S : b = beat[x]
  OBVIOUS
<1>3. QED
  BY <1>1, <1>2 DEF Scored

LEMMA ScoredOne ==
    ASSUME NEW b, IsBeat(b), NEW kinds, b.kind \in kinds
    PROVE  Scored({b}, kinds)
<1>1. IsFiniteSet({b})
  BY FS_Singleton
<1>2. QED
  BY <1>1 DEF Scored

LEMMA ScoredNone == ASSUME NEW kinds PROVE Scored({}, kinds)
  BY FS_EmptySet DEF Scored

LEMMA ScoredUnion ==
    ASSUME NEW B, NEW C, NEW kinds, NEW others, kinds \cap others = {},
           Scored(B, kinds), Scored(C, others)
    PROVE  Scored(B \cup C, kinds \cup others)
<1>1. IsFiniteSet(B \cup C)
  BY FS_Union DEF Scored
<1>2. \A b \in B \cup C : IsBeat(b) /\ b.kind \in kinds \cup others
  BY DEF Scored
<1>3. ASSUME NEW b \in B \cup C, NEW c \in B \cup C, b.kind = c.kind, b.n = c.n PROVE b = c
  <2>1. (b \in B /\ c \in B) \/ (b \in C /\ c \in C)
    BY <1>3 DEF Scored
  <2>2. QED
    BY <1>3, <2>1 DEF Scored
<1>4. QED
  BY <1>1, <1>2, <1>3 DEF Scored

LEMMA ScoredSome ==
    ASSUME NEW B, NEW kinds, Scored(B, kinds), NEW C \in SUBSET B
    PROVE  Scored(C, kinds)
<1>1. IsFiniteSet(C)
  BY FS_Subset DEF Scored
<1>2. QED
  BY <1>1 DEF Scored

LEMMA FillFits ==
    ASSUME NEW f \in Fills
    PROVE  f.t \in Nat /\ f.t <= LastSecond + 1 /\ f.t <= LastSecond /\ Notional(f) \in Nat
<1>1. f.t \in 1 .. LastSecond /\ LastSecond \in Nat /\ f.qty \in Nat /\ f.price \in Nat
  BY FillTypes, BeatsAssumption
<1>2. QED
  BY <1>1 DEF Notional

LEMMA BigFillsScored ==
    ASSUME filled \in Seq(Fills)
    PROVE  Scored(BigFills, {"big_fill"})
<1> DEFINE S == {i \in DOMAIN filled : Notional(filled[i]) >= Th.bigMin}
           score(f) == (100 * (Notional(f) - Th.bigMin)) \div Larger(1, Th.bigFull - Th.bigMin)
           beat == [i \in S |-> Beat("big_fill", i, filled[i].t, {filled[i].agent}, filled[i].symbol,
                                     score(filled[i]))]
<1>1. DOMAIN filled = 1 .. Len(filled) /\ Len(filled) \in Nat /\ 1 \in Int /\ Len(filled) \in Int
  OBVIOUS
<1>2. IsFiniteSet(S)
  BY <1>1, FS_Interval, FS_Subset
<1>3. ASSUME NEW f \in Fills PROVE score(f) \in Int
  <2>1. Notional(f) \in Int
    BY FillTypes DEF Notional
  <2>2. Larger(1, Th.bigFull - Th.bigMin) \in Nat \ {0} /\ Th.bigMin \in Int
    BY BeatsAssumption, SMTT(30) DEF Larger
  <2>3. QED
    BY <2>1, <2>2, ShareType
<1>4. ASSUME NEW i \in S
      PROVE  IsBeat(beat[i]) /\ beat[i].kind = "big_fill" /\ beat[i].n = i
  <2>1. filled[i] \in Fills /\ i \in Nat
    BY <1>1
  <2>2. score(filled[i]) \in Int
    BY <1>3, <2>1
  <2> HIDE DEF score
  <2>3. {filled[i].agent} \in SUBSET Traders /\ filled[i].t \in Int /\ filled[i].t <= LastSecond + 1
    BY <2>1, FillTypes, FillFits
  <2>4. "big_fill" \in BeatKinds
    BY DEF BeatKinds
  <2>5. beat[i] = Beat("big_fill", i, filled[i].t, {filled[i].agent}, filled[i].symbol, score(filled[i]))
    OBVIOUS
  <2>6. QED
    BY <2>1, <2>2, <2>3, <2>4, <2>5, BeatIs
<1>5. BigFills \subseteq {beat[i] : i \in S}
  BY DEF BigFills
<1> HIDE DEF beat, S
<1>6. QED
  BY <1>2, <1>4, <1>5, ScoredBy

LEMMA DivergencesScored ==
    ASSUME filled \in Seq(Fills), Len(filled) <= MaxFills
    PROVE  Scored(Divergences, {"divergence"})
<1> DEFINE P == (DOMAIN filled) \X (DOMAIN filled)
           S == {p \in P : /\ p[1] < p[2] /\ Opposed(filled[p[1]], filled[p[2]])
                           /\ Apart(filled[p[1]], filled[p[2]]) <= Th.divergenceWindow}
           score(f, g) == 45 + (40 * Smaller(Notional(f), Notional(g))) \div Th.overlapFull
           code(p) == p[1] * MaxFills + p[2]
           made(p) == Beat("divergence", code(p), filled[p[1]].t, {filled[p[1]].agent, filled[p[2]].agent},
                           filled[p[1]].symbol, score(filled[p[1]], filled[p[2]]))
           beat == [p \in S |-> made(p)]
<1>1. DOMAIN filled = 1 .. Len(filled) /\ Len(filled) \in Nat /\ 1 \in Int /\ Len(filled) \in Int /\ MaxFills \in Nat
  BY BeatsAssumption
<1>2. IsFiniteSet(S)
  <2>1. IsFiniteSet(DOMAIN filled)
    BY <1>1, FS_Interval
  <2>2. IsFiniteSet(P)
    BY <2>1, FS_Product
  <2>3. QED
    BY <2>2, FS_Subset
<1>3. ASSUME NEW f \in Fills, NEW g \in Fills PROVE score(f, g) \in Int
  <2>1. Notional(f) \in Int /\ Notional(g) \in Int
    BY FillTypes DEF Notional
  <2>2. Th.overlapFull \in Nat \ {0} /\ 40 * Smaller(Notional(f), Notional(g)) \in Int
    BY <2>1, BeatsAssumption DEF Smaller
  <2>3. (40 * Smaller(Notional(f), Notional(g))) \div Th.overlapFull \in Int
    BY <2>2, ShareType
  <2>4. QED
    BY <2>3
<1>4. ASSUME NEW p \in S
      PROVE  /\ IsBeat(made(p)) /\ made(p).kind = "divergence" /\ made(p).n = code(p)
             /\ p[1] \in 1 .. MaxFills /\ p[2] \in 1 .. MaxFills /\ p = <<p[1], p[2]>>
  <2>1. p[1] \in 1 .. MaxFills /\ p[2] \in 1 .. MaxFills /\ p = <<p[1], p[2]>>
    BY <1>1
  <2>2. filled[p[1]] \in Fills /\ filled[p[2]] \in Fills
    BY <1>1
  <2>3. code(p) \in Nat
    BY <1>1, <2>1
  <2>4. score(filled[p[1]], filled[p[2]]) \in Int
    BY <1>3, <2>2
  <2> HIDE DEF score, code
  <2>5. /\ {filled[p[1]].agent, filled[p[2]].agent} \in SUBSET Traders
        /\ filled[p[1]].t \in Int /\ filled[p[1]].t <= LastSecond + 1
    BY <2>2, FillTypes, FillFits
  <2>6. "divergence" \in BeatKinds
    BY DEF BeatKinds
  <2>7. QED
    BY <2>1, <2>3, <2>4, <2>5, <2>6, BeatIs
<1>5. ASSUME NEW p \in S, NEW q \in S, made(p).n = made(q).n PROVE p = q
  <2>1. /\ p[1] \in 1 .. MaxFills /\ p[2] \in 1 .. MaxFills /\ p = <<p[1], p[2]>>
        /\ q[1] \in 1 .. MaxFills /\ q[2] \in 1 .. MaxFills /\ q = <<q[1], q[2]>>
        /\ code(p) = code(q)
    BY <1>4, <1>5
  <2>2. PICK i, j, k, l : i = p[1] /\ j = p[2] /\ k = q[1] /\ l = q[2]
    OBVIOUS
  <2>3. i \in 1 .. MaxFills /\ j \in 1 .. MaxFills /\ k \in 1 .. MaxFills /\ l \in 1 .. MaxFills /\ MaxFills \in Nat
    BY <1>1, <2>1, <2>2
  <2>4. i * MaxFills + j = k * MaxFills + l
    BY <2>1, <2>2
  <2>5. i = k /\ j = l
    BY <2>3, <2>4, PairCode
  <2>6. QED
    BY <2>1, <2>2, <2>5
<1>6. Divergences \subseteq {beat[p] : p \in S}
  BY DEF Divergences
<1>7. \A p \in S : beat[p] = made(p)
  OBVIOUS
<1> HIDE DEF beat, S, made, code
<1>8. \A p, q \in S : beat[p].kind = beat[q].kind /\ beat[p].n = beat[q].n => beat[p] = beat[q]
  BY <1>5, <1>7
<1>9. \A p \in S : IsBeat(beat[p]) /\ beat[p].kind \in {"divergence"}
  BY <1>4, <1>7
<1>10. QED
  BY <1>2, <1>6, <1>8, <1>9, ScoredBy

LEMMA ThTypes ==
    /\ Th.bigMin \in Nat /\ Th.bigFull \in Nat /\ Th.rivalryMin \in Nat /\ Th.streakMin \in Nat
    /\ Th.streakFull \in Nat /\ Th.burstRatio \in Nat /\ Th.dedupWindow \in Nat /\ Th.targetMax \in Nat
    /\ Th.overlapFull \in Nat \ {0} /\ Th.winnerFull \in Nat \ {0} /\ Th.loserFull \in Nat \ {0}
    /\ Th.burstWindow \in Nat \ {0} /\ Th.recapFull \in Nat \ {0} /\ Th.warFull \in Nat \ {0}
    /\ LastSecond \in Nat /\ MaxFills \in Nat /\ Traders \subseteq Nat
    /\ IsFiniteSet(Traders) /\ IsFiniteSet(Traded)
  BY BeatsAssumption

LEMMA CrossedIs ==
    ASSUME filled \in Seq(Fills), NEW a, NEW b, NEW s, NEW p \in Crossed(a, b, s)
    PROVE  /\ p[1] \in 1 .. Len(filled) /\ p[2] \in 1 .. Len(filled)
           /\ filled[p[1]].agent = a /\ filled[p[2]].agent = b
           /\ filled[p[1]].symbol = s /\ filled[p[2]].symbol = s
           /\ filled[p[1]] \in Fills /\ filled[p[1]].t \in 1 .. LastSecond
<1>1. DOMAIN filled = 1 .. Len(filled)
  OBVIOUS
<1>2. /\ p[1] \in 1 .. Len(filled) /\ p[2] \in 1 .. Len(filled)
      /\ filled[p[1]].agent = a /\ filled[p[2]].agent = b /\ filled[p[1]].symbol = s
      /\ Opposed(filled[p[1]], filled[p[2]])
  BY <1>1 DEF Crossed
<1>3. filled[p[1]] \in Fills
  BY <1>2
<1>4. filled[p[2]].symbol = s
  BY <1>2 DEF Opposed
<1>5. QED
  BY <1>2, <1>3, <1>4, FillTypes

LEMMA CrossingsAre ==
    ASSUME filled \in Seq(Fills), NEW a, NEW b, NEW s
    PROVE  /\ Crossings(a, b, s) \subseteq 1 .. LastSecond
           /\ IsFiniteSet(Crossings(a, b, s)) /\ Cardinality(Crossings(a, b, s)) \in Nat
           /\ Crossed(a, b, s) # {} => Crossings(a, b, s) # {}
<1>1. Crossings(a, b, s) \subseteq 1 .. LastSecond
  BY CrossedIs DEF Crossings
<1>2. IsFiniteSet(1 .. LastSecond)
  <2>1. 1 \in Int /\ LastSecond \in Int
    BY BeatsAssumption
  <2>2. QED
    BY <2>1, FS_Interval
<1>3. IsFiniteSet(Crossings(a, b, s))
  BY <1>1, <1>2, FS_Subset
<1>4. QED
  BY <1>1, <1>3, FS_CardinalityType DEF Crossings

(* The number of a rivalry tells its agents and its symbol. *)
Coded(s, p) == (FirstFillOf(s) * (MaxFills + 1) + p[1]) * (MaxFills + 1) + p[2]

LEMMA MetIs ==
    ASSUME filled \in Seq(Fills), Len(filled) <= MaxFills, NEW a, NEW b, NEW s, Crossed(a, b, s) # {}
    PROVE  /\ Met(a, b, s) \in Nat /\ FirstFillOf(s) \in Nat
           /\ \E p \in Crossed(a, b, s) \cup Crossed(b, a, s) : Met(a, b, s) = Coded(s, p)
<1> DEFINE C == Crossed(a, b, s) \cup Crossed(b, a, s)
           codes == {Coded(s, p) : p \in C}
<1>1. \A p \in C : p[1] \in 1 .. Len(filled) /\ p[2] \in 1 .. Len(filled) /\ filled[p[1]].symbol = s
  BY CrossedIs
<1>2. FirstFillOf(s) \in Nat
  <2> DEFINE mine == {i \in DOMAIN filled : filled[i].symbol = s}
  <2>1. mine \in SUBSET Nat
    OBVIOUS
  <2>2. PICK p \in C : TRUE
    OBVIOUS
  <2>3. p[1] \in mine
    BY <1>1
  <2> HIDE DEF mine
  <2>4. Min(mine) \in mine
    BY <2>1, <2>3, LeastIs
  <2>5. QED
    BY <2>1, <2>4 DEF FirstFillOf, mine
<1>3. ASSUME NEW p \in C PROVE Coded(s, p) \in Nat
  <2>1. MaxFills + 1 \in Nat /\ p[1] \in Nat /\ p[2] \in Nat
    <3>1. MaxFills \in Nat
      BY BeatsAssumption, Zenon
    <3>2. p[1] \in Nat /\ p[2] \in Nat
      BY <1>1
    <3>3. QED
      BY <3>1, <3>2
  <2>2. FirstFillOf(s) * (MaxFills + 1) + p[1] \in Nat
    BY <1>2, <2>1
  <2>3. (FirstFillOf(s) * (MaxFills + 1) + p[1]) * (MaxFills + 1) \in Nat
    BY <2>1, <2>2
  <2>4. QED
    BY <2>1, <2>3 DEF Coded
<1>4. codes \in SUBSET Nat /\ codes # {}
  BY <1>3
<1>5. Met(a, b, s) = Min(codes)
  BY DEF Met, Coded
<1> HIDE DEF codes
<1>6. Min(codes) \in codes
  BY <1>4, LeastIs
<1>7. QED
  BY <1>2, <1>4, <1>5, <1>6 DEF codes

(* So no two rivalries have one number. *)
LEMMA SameMet ==
    ASSUME filled \in Seq(Fills), Len(filled) <= MaxFills,
           NEW a \in Traders, NEW b \in Traders, NEW s, Crossed(a, b, s) # {}, a < b,
           NEW c \in Traders, NEW d \in Traders, NEW v, Crossed(c, d, v) # {}, c < d,
           Met(a, b, s) = Met(c, d, v)
    PROVE  a = c /\ b = d /\ s = v
<1> DEFINE m == MaxFills + 1
<1>1. m \in Nat /\ MaxFills \in Nat /\ Traders \subseteq Nat
  BY BeatsAssumption
<1>2. PICK p \in Crossed(a, b, s) \cup Crossed(b, a, s) : Met(a, b, s) = Coded(s, p)
  BY MetIs
<1>3. PICK q \in Crossed(c, d, v) \cup Crossed(d, c, v) : Met(c, d, v) = Coded(v, q)
  BY MetIs
<1>4. PICK i, j, k, l, x, y : /\ i = p[1] /\ j = p[2] /\ k = q[1] /\ l = q[2]
                              /\ x = FirstFillOf(s) /\ y = FirstFillOf(v)
  OBVIOUS
<1>5. x \in Nat /\ y \in Nat
  BY <1>4, MetIs
<1>6. i \in 1 .. Len(filled) /\ j \in 1 .. Len(filled) /\ k \in 1 .. Len(filled) /\ l \in 1 .. Len(filled)
  BY <1>4, CrossedIs
<1>7. i \in Nat /\ j \in Nat /\ k \in Nat /\ l \in Nat /\ i < m /\ j < m /\ k < m /\ l < m
  BY <1>1, <1>6
<1>8. (x * m + i) * m + j = (y * m + k) * m + l
  BY <1>2, <1>3, <1>4 DEF Coded
<1> HIDE DEF m
<1>9. x * m + i \in Nat /\ y * m + k \in Nat
  BY <1>1, <1>5, <1>7
<1>10. x * m + i = y * m + k /\ j = l
  <2>1. PICK g, h : g = x * m + i /\ h = y * m + k
    OBVIOUS
  <2>2. g \in Nat /\ h \in Nat /\ g * m + j = h * m + l
    BY <1>8, <1>9, <2>1
  <2>3. g = h /\ j = l
    BY <1>1, <1>7, <2>2, SameCode
  <2>4. QED
    BY <2>1, <2>3
<1>11. i = k
  BY <1>1, <1>5, <1>7, <1>10, SameCode
<1>12. /\ filled[i].symbol = s /\ filled[k].symbol = v
       /\ {filled[i].agent, filled[j].agent} = {a, b}
       /\ {filled[k].agent, filled[l].agent} = {c, d}
  <2>1. filled[p[1]].symbol = s /\ filled[q[1]].symbol = v
    BY CrossedIs
  <2>2. {filled[p[1]].agent, filled[p[2]].agent} = {a, b}
    BY CrossedIs
  <2>3. {filled[q[1]].agent, filled[q[2]].agent} = {c, d}
    BY CrossedIs
  <2>4. QED
    BY <1>4, <2>1, <2>2, <2>3
<1>13. s = v /\ {a, b} = {c, d}
  BY <1>10, <1>11, <1>12
<1>14. a \in Nat /\ b \in Nat /\ c \in Nat /\ d \in Nat
  BY <1>1
<1>15. (a = c \/ a = d) /\ (b = c \/ b = d) /\ (c = a \/ c = b) /\ (d = a \/ d = b)
  BY <1>13
<1>16. a = c /\ b = d
  BY <1>14, <1>15
<1>17. QED
  BY <1>13, <1>16

LEMMA RivalriesScored ==
    ASSUME filled \in Seq(Fills), Len(filled) <= MaxFills
    PROVE  Scored(Rivalries, {"agent_rivalry"})
<1> DEFINE P == Traders \X Traders \X Traded
           S == {p \in P : p[1] < p[2] /\ Crossed(p[1], p[2], p[3]) # {}}
           Bucket(a, b, s) ==
               LET x == Crossings(a, b, s) y == Crossings(b, a, s) IN
               [a |-> a, b |-> b, s |-> s, met |-> Met(a, b, s),
                count |-> Smaller(Cardinality(x), Cardinality(y)), latest |-> Max(x \cup y)]
           buckets == {Bucket(p[1], p[2], p[3]) : p \in S}
           made(r) == Beat("agent_rivalry", r.met, r.latest, {r.a, r.b}, r.s, 55 + 10 * (r.count - Th.rivalryMin))
           beat == [p \in S |-> made(Bucket(p[1], p[2], p[3]))]
<1>1. IsFiniteSet(S)
  <2>1. IsFiniteSet(Traders) /\ IsFiniteSet(Traded)
    BY BeatsAssumption
  <2>2. P = {<<a, b, s>> : a \in Traders, b \in Traders, s \in Traded}
    OBVIOUS
  <2>3. IsFiniteSet(Traders \X Traded)
    BY <2>1, FS_Product
  <2>4. IsFiniteSet(Traders \X (Traders \X Traded))
    BY <2>1, <2>3, FS_Product
  <2> DEFINE Q == Traders \X (Traders \X Traded)
             flat == [q \in Q |-> <<q[1], q[2][1], q[2][2]>>]
  <2>5. P \subseteq {flat[q] : q \in Q}
    <3> SUFFICES ASSUME NEW p \in P PROVE p \in {flat[q] : q \in Q}
      OBVIOUS
    <3>1. p = <<p[1], p[2], p[3]>> /\ p[1] \in Traders /\ p[2] \in Traders /\ p[3] \in Traded
      OBVIOUS
    <3>2. <<p[1], <<p[2], p[3]>>>> \in Q
      BY <3>1
    <3>3. flat[<<p[1], <<p[2], p[3]>>>>] = p
      BY <3>1, <3>2
    <3>4. QED
      BY <3>2, <3>3
  <2> HIDE DEF flat
  <2>6. IsFiniteSet(P)
    BY <2>4, <2>5, FiniteImage
  <2>7. QED
    BY <2>6, FS_Subset
<1>2. ASSUME NEW p \in S
      PROVE  /\ IsBeat(beat[p]) /\ beat[p].kind = "agent_rivalry" /\ beat[p].n = Met(p[1], p[2], p[3])
  <2>1. p[1] \in Traders /\ p[2] \in Traders /\ Crossed(p[1], p[2], p[3]) # {}
    OBVIOUS
  <2> DEFINE x == Crossings(p[1], p[2], p[3])
             y == Crossings(p[2], p[1], p[3])
             r == Bucket(p[1], p[2], p[3])
  <2>2. x \cup y \in SUBSET Int /\ IsFiniteSet(x \cup y) /\ x \cup y # {} /\ x \cup y \subseteq 1 .. LastSecond
    <3>1. x \subseteq 1 .. LastSecond /\ y \subseteq 1 .. LastSecond /\ IsFiniteSet(x) /\ IsFiniteSet(y) /\ x # {}
      BY <2>1, CrossingsAre
    <3> HIDE DEF x, y
    <3>2. IsFiniteSet(x \cup y)
      BY <3>1, FS_Union
    <3>3. QED
      BY <3>1, <3>2
  <2>3. Cardinality(x) \in Nat /\ Cardinality(y) \in Nat
    BY CrossingsAre
  <2>4. r.latest \in 1 .. LastSecond /\ r.count \in Nat
    <3>1. r.latest = Max(x \cup y) /\ r.count = Smaller(Cardinality(x), Cardinality(y))
      OBVIOUS
    <3> HIDE DEF x, y, r
    <3>2. Max(x \cup y) \in x \cup y
      BY <2>2, FiniteMax
    <3>3. QED
      BY <2>2, <2>3, <3>1, <3>2 DEF Smaller
  <2>5. r.met = Met(p[1], p[2], p[3]) /\ r.met \in Nat /\ r.a = p[1] /\ r.b = p[2]
    BY <2>1, MetIs
  <2>6. beat[p] = made(r)
    OBVIOUS
  <2> HIDE DEF r, beat
  <2>7. /\ r.latest \in Int /\ r.latest <= LastSecond + 1 /\ {r.a, r.b} \in SUBSET Traders
        /\ 55 + 10 * (r.count - Th.rivalryMin) \in Int
    <3>1. LastSecond \in Nat /\ Th.rivalryMin \in Nat
      BY ThTypes
    <3>2. PICK l, c, m : l = r.latest /\ c = r.count /\ m = Th.rivalryMin
      OBVIOUS
    <3>3. l \in 1 .. LastSecond /\ c \in Nat /\ m \in Nat
      BY <2>4, <3>1, <3>2
    <3>4. l \in Int /\ l <= LastSecond + 1 /\ 55 + 10 * (c - m) \in Int
      BY <3>1, <3>3
    <3>5. {r.a, r.b} \in SUBSET Traders
      BY <2>1, <2>5
    <3>6. QED
      BY <3>2, <3>4, <3>5
  <2>8. "agent_rivalry" \in BeatKinds
    BY DEF BeatKinds
  <2>9. QED
    BY <2>5, <2>6, <2>7, <2>8, BeatIs
<1>3. \A b \in Rivalries : \E r \in buckets : b = made(r)
  BY DEF Rivalries
<1>4. Rivalries \subseteq {beat[p] : p \in S}
  <2>1. \A r \in buckets : \E p \in S : r = Bucket(p[1], p[2], p[3])
    OBVIOUS
  <2>2. \A p \in S : beat[p] = made(Bucket(p[1], p[2], p[3]))
    OBVIOUS
  <2> HIDE DEF beat, buckets, S, Bucket, made
  <2>3. \A b \in Rivalries : \E p \in S : b = beat[p]
    BY <1>3, <2>1, <2>2
  <2>4. QED
    BY <2>3
<1> HIDE DEF beat
<1>5. \A p, q \in S : beat[p].n = beat[q].n => p = q
  <2> TAKE p, q \in S
  <2> HAVE beat[p].n = beat[q].n
  <2>1. Met(p[1], p[2], p[3]) = Met(q[1], q[2], q[3])
    BY <1>2
  <2>2. /\ p[1] \in Traders /\ p[2] \in Traders /\ p[1] < p[2] /\ Crossed(p[1], p[2], p[3]) # {}
        /\ q[1] \in Traders /\ q[2] \in Traders /\ q[1] < q[2] /\ Crossed(q[1], q[2], q[3]) # {}
        /\ p = <<p[1], p[2], p[3]>> /\ q = <<q[1], q[2], q[3]>>
    OBVIOUS
  <2>3. p[1] = q[1] /\ p[2] = q[2] /\ p[3] = q[3]
    BY <2>1, <2>2, SameMet
  <2>4. QED
    BY <2>2, <2>3
<1> HIDE DEF S
<1>6. \A p \in S : IsBeat(beat[p]) /\ beat[p].kind \in {"agent_rivalry"}
  BY <1>2
<1>7. \A p, q \in S : beat[p].kind = beat[q].kind /\ beat[p].n = beat[q].n => beat[p] = beat[q]
  BY <1>5
<1>8. QED
  BY <1>1, <1>4, <1>6, <1>7, ScoredBy

LEMMA StreaksScored ==
    ASSUME NEW agg \in [Traders -> Aggregate]
    PROVE  Scored(Streaks(agg), {"streak"})
<1> DEFINE score(a) == 30 + (70 * (agg[a].longest - Th.streakMin)) \div Larger(1, Th.streakFull - Th.streakMin)
           made(a) == Beat("streak", a, agg[a].lastClose, {a}, LastFillOf(a).symbol, score(a))
           beat == [a \in Traders |-> made(a)]
<1>1. ASSUME NEW a \in Traders
      PROVE  IsBeat(beat[a]) /\ beat[a].kind = "streak" /\ beat[a].n = a
  <2>1. agg[a].longest \in Nat /\ agg[a].lastClose \in 0 .. LastSecond
    BY DEF Aggregate
  <2>2. Larger(1, Th.streakFull - Th.streakMin) \in Nat \ {0}
    BY ThTypes DEF Larger
  <2>3. (70 * (agg[a].longest - Th.streakMin)) \in Int
    BY <2>1, ThTypes
  <2>4. score(a) \in Int
    <3>1. (70 * (agg[a].longest - Th.streakMin)) \div Larger(1, Th.streakFull - Th.streakMin) \in Int
      BY <2>2, <2>3, ShareType
    <3>2. QED
      BY <3>1
  <2>5. "streak" \in BeatKinds
    BY DEF BeatKinds
  <2>6. agg[a].lastClose \in Int /\ agg[a].lastClose <= LastSecond + 1 /\ a \in Nat /\ {a} \in SUBSET Traders
    BY <2>1, ThTypes
  <2> HIDE DEF score
  <2>7. IsBeat(made(a)) /\ made(a).kind = "streak" /\ made(a).n = a
    BY <2>4, <2>5, <2>6, BeatIs
  <2>8. QED
    BY <2>7
<1>2. Streaks(agg) \subseteq {beat[a] : a \in Traders}
  BY DEF Streaks, Booked
<1> HIDE DEF beat
<1>3. IsFiniteSet(Traders)
  BY ThTypes
<1>4. QED
  BY <1>1, <1>2, <1>3, ScoredBy

LEMMA TopMoversScored ==
    ASSUME NEW agg \in [Traders -> Aggregate]
    PROVE  Scored(TopMovers(agg), {"top_winner"} \cup {"top_loser"})
<1> DEFINE score(a, full) == (100 * Abs(agg[a].realized)) \div full
           made(kind, a, full) == Beat(kind, a, agg[a].lastClose, {a}, LastFillOf(a).symbol, score(a, full))
           winners == [a \in Traders |-> made("top_winner", a, Th.winnerFull)]
           losers == [a \in Traders |-> made("top_loser", a, Th.loserFull)]
           W == {winners[a] : a \in Traders}
           L == {losers[a] : a \in Traders}
<1>1. ASSUME NEW a \in Traders, NEW full \in Nat \ {0}, NEW kind \in {"top_winner", "top_loser"}
      PROVE  IsBeat(made(kind, a, full)) /\ made(kind, a, full).kind = kind /\ made(kind, a, full).n = a
  <2>1. agg[a].realized \in Int /\ agg[a].lastClose \in 0 .. LastSecond
    BY DEF Aggregate
  <2>2. 100 * Abs(agg[a].realized) \in Int
    BY <2>1 DEF Abs
  <2>3. score(a, full) \in Int
    BY <2>2, ShareType
  <2>4. kind \in BeatKinds /\ kind \notin {"open", "recap"}
    BY DEF BeatKinds
  <2>5. agg[a].lastClose \in Int /\ agg[a].lastClose <= LastSecond + 1 /\ a \in Nat /\ {a} \in SUBSET Traders
    BY <2>1, ThTypes
  <2> HIDE DEF score
  <2>6. QED
    BY <2>3, <2>4, <2>5, BeatIs
<1>2. IsFiniteSet(Traders) /\ Th.winnerFull \in Nat \ {0} /\ Th.loserFull \in Nat \ {0}
  BY ThTypes
<1>3. TopMovers(agg) \subseteq W \cup L
  BY DEF TopMovers, Booked
<1>4. \A a \in Traders : winners[a] = made("top_winner", a, Th.winnerFull) /\ losers[a] = made("top_loser", a, Th.loserFull)
  OBVIOUS
<1> HIDE DEF made, winners, losers
<1>5. \A a \in Traders : /\ IsBeat(winners[a]) /\ winners[a].kind = "top_winner" /\ winners[a].n = a
                         /\ IsBeat(losers[a]) /\ losers[a].kind = "top_loser" /\ losers[a].n = a
  BY <1>1, <1>2, <1>4
<1>6. Scored(W, {"top_winner"})
  BY <1>2, <1>5, ScoredBy
<1>7. Scored(L, {"top_loser"})
  BY <1>2, <1>5, ScoredBy
<1> HIDE DEF W, L
<1>8. Scored(W \cup L, {"top_winner"} \cup {"top_loser"})
  <2>1. {"top_winner"} \cap {"top_loser"} = {}
    OBVIOUS
  <2>2. QED
    BY <1>6, <1>7, <2>1, ScoredUnion
<1>9. QED
  BY <1>3, <1>8, ScoredSome

LEMMA OpeningScored == Scored(Opening, {"open"}) /\ \E b \in Opening : b.kind = "open"
<1> DEFINE b == Beat("open", 0, 0, {}, NoSymbol, 55)
<1>1. "open" \in BeatKinds /\ 0 \in Nat /\ 0 \in Int /\ 0 <= LastSecond + 1 /\ {} \in SUBSET Traders /\ 55 \in Int
  BY ThTypes DEF BeatKinds
<1>2. IsBeat(b) /\ b.kind = "open"
  BY <1>1, BeatIs
<1> HIDE DEF b
<1>3. Scored({b}, {"open"})
  BY <1>2, ScoredOne
<1>4. QED
  BY <1>2, <1>3 DEF Opening, b

LEMMA ClosingBurstScored ==
    ASSUME filled \in Seq(Fills)
    PROVE  Scored(ClosingBurst, {"closing_burst"})
<1> DEFINE last == Last(filled).t
           start == last - Th.burstWindow
           within == {i \in DOMAIN filled : filled[i].t >= start}
           span == Larger(1, last - filled[1].t)
           ratio == (100 * Cardinality(within) * span) \div (Th.burstWindow * Len(filled))
           score == 40 + (15 * (ratio - 100 * Th.burstRatio)) \div 100
           b == Beat("closing_burst", 0, start, {filled[i].agent : i \in within}, NoSymbol, score)
<1>1. CASE filled = <<>>
  BY <1>1, ScoredNone DEF ClosingBurst
<1>2. CASE filled # <<>>
  <2>1. /\ DOMAIN filled = 1 .. Len(filled) /\ Len(filled) \in Nat /\ Len(filled) > 0 /\ 1 \in Int
        /\ Len(filled) \in Int /\ 1 \in 1 .. Len(filled) /\ Len(filled) \in 1 .. Len(filled)
    BY <1>2
  <2>2. filled[1] \in Fills /\ Last(filled) \in Fills /\ \A i \in DOMAIN filled : filled[i] \in Fills
    BY <2>1 DEF Last
  <2>3. last \in Nat /\ last <= LastSecond /\ filled[1].t \in Nat
    BY <2>2, FillFits
  <2>4. Cardinality(within) \in Nat
    <3>1. IsFiniteSet(DOMAIN filled)
      BY <2>1, FS_Interval
    <3>2. IsFiniteSet(within)
      BY <3>1, FS_Subset
    <3>3. QED
      BY <3>2, FS_CardinalityType
  <2>5. {filled[i].agent : i \in within} \in SUBSET Traders
    BY <2>2, FillTypes
  <2>6. start \in Int /\ start <= LastSecond + 1 /\ span \in Nat
    <3>1. LastSecond \in Nat /\ Th.burstWindow \in Nat
      BY ThTypes
    <3>2. PICK l, m, w : l = Last(filled).t /\ m = filled[1].t /\ w = Th.burstWindow
      OBVIOUS
    <3>3. l \in Nat /\ l <= LastSecond /\ m \in Nat /\ w \in Nat
      BY <2>3, <3>1, <3>2
    <3>4. l - w \in Int /\ l - w <= LastSecond + 1 /\ Larger(1, l - m) \in Nat
      BY <3>1, <3>3 DEF Larger
    <3>5. QED
      BY <3>2, <3>4
  <2> HIDE DEF last, start, within, span
  <2>7. ratio \in Int
    <3>1. PICK w, c, l : w = Th.burstWindow /\ c = Cardinality(within) /\ l = Len(filled)
      OBVIOUS
    <3>2. w \in Nat \ {0} /\ c \in Nat /\ l \in Nat \ {0}
      BY <2>1, <2>4, <3>1, ThTypes
    <3>3. w * l \in Nat \ {0}
      BY <3>2
    <3>4. 100 * c * span \in Int
      BY <2>6, <3>2
    <3>5. (100 * c * span) \div (w * l) \in Int
      BY <3>3, <3>4, ShareType
    <3>6. QED
      BY <3>1, <3>5
  <2> HIDE DEF ratio
  <2>8. score \in Int
    <3>1. 15 * (ratio - 100 * Th.burstRatio) \in Int
      BY <2>7, ThTypes
    <3>2. QED
      BY <3>1
  <2>9. "closing_burst" \in BeatKinds
    BY DEF BeatKinds
  <2> HIDE DEF score
  <2>10. IsBeat(b) /\ b.kind = "closing_burst"
    BY <2>5, <2>6, <2>8, <2>9, BeatIs
  <2>11. ClosingBurst = {} \/ ClosingBurst = {b}
    BY <1>2 DEF ClosingBurst, last, start, within, span, ratio, score
  <2> HIDE DEF b
  <2>12. QED
    BY <2>10, <2>11, ScoredOne, ScoredNone
<1>3. QED
  BY <1>1, <1>2

LEMMA StrategyWarScored ==
    ASSUME rollup \in Int
    PROVE  Scored(StrategyWar, {"strategy_war"})
<1> DEFINE score == 60 + Smaller((100 * rollup) \div Th.warFull, 40)
           b == Beat("strategy_war", 0, Ended, {}, NoSymbol, score)
<1>1. (100 * rollup) \div Th.warFull \in Int
  BY ThTypes, ShareType
<1>2. score \in Int
  BY <1>1 DEF Smaller
<1>3. "strategy_war" \in BeatKinds /\ Ended \in Int /\ Ended <= LastSecond + 1 /\ 0 \in Nat /\ {} \in SUBSET Traders
  BY ThTypes DEF BeatKinds, Ended
<1> HIDE DEF score
<1>4. IsBeat(b) /\ b.kind = "strategy_war"
  BY <1>2, <1>3, BeatIs
<1>5. StrategyWar = {} \/ StrategyWar = {b}
  BY DEF StrategyWar, score
<1> HIDE DEF b
<1>6. QED
  BY <1>4, <1>5, ScoredOne, ScoredNone

LEMMA RealizedIsSum ==
    ASSUME NEW agg \in [Traders -> Aggregate]
    PROVE  FoldSet(LAMBDA a, sum : sum + agg[a].realized, 0, Traders) \in Int
<1> DEFINE f == [a \in Traders |-> agg[a].realized]
           R(h) == h = [T \in SUBSET Traders |-> IF T = {} THEN 0
                          ELSE h[T \ {CHOOSE x \in T : TRUE}] + agg[CHOOSE x \in T : TRUE].realized]
           q(h, T) == IF T = {} THEN 0
                      ELSE h[T \ {CHOOSE x \in T : TRUE}] + agg[CHOOSE x \in T : TRUE].realized
           r(h, T) == IF T = {} THEN 0 ELSE h[T \ {Pick(T)}] + f[Pick(T)]
           total == FoldSet(LAMBDA a, sum : sum + agg[a].realized, 0, Traders)
<1>1. total = (CHOOSE h : R(h))[Traders]
  BY DEF FoldSet, MapThenFoldSet
<1> HIDE DEF total
<1>2. IsFiniteSet(Traders) /\ \A a \in Traders : f[a] \in Int
  BY ThTypes DEF Aggregate
<1>3. ASSUME NEW h, NEW T \in SUBSET Traders PROVE q(h, T) = r(h, T)
  <2>1. CASE T # {}
    <3>1. Pick(T) \in Traders /\ Pick(T) = CHOOSE x \in T : TRUE
      BY <2>1, PickIsIn DEF Pick
    <3>2. f[Pick(T)] = agg[Pick(T)].realized
      BY <3>1
    <3>3. QED
      BY <3>1, <3>2
  <2>2. QED
    BY <2>1
<1> HIDE DEF f
<1>4. \A h : R(h) <=> IsSumBack(h, f, Traders)
  <2> TAKE h
  <2>1. \A T \in SUBSET Traders : q(h, T) = r(h, T)
    BY <1>3
  <2> HIDE DEF q, r
  <2>2. [T \in SUBSET Traders |-> q(h, T)] = [T \in SUBSET Traders |-> r(h, T)]
    BY <2>1
  <2>3. QED
    BY <2>2 DEF q, r, IsSumBack
<1>5. \E h : IsSumBack(h, f, Traders)
  BY <1>2, SumBackExists
<1>6. PICK h : IsSumBack(h, f, Traders) /\ total = h[Traders]
  <2> HIDE DEF R
  <2>1. R(CHOOSE h : R(h))
    BY <1>4, <1>5
  <2>2. QED
    BY <1>1, <1>4, <2>1
<1>7. h[Traders] = SumOf(f, Traders) /\ SumOf(f, Traders) \in Int
  BY <1>2, <1>6, SumBackIs, SumOfType
<1>8. QED
  BY <1>6, <1>7 DEF total

LEMMA RecapScored ==
    ASSUME NEW agg \in [Traders -> Aggregate]
    PROVE  /\ Scored(Recap(agg), {"recap"})
           /\ filled # <<>> => \E b \in Recap(agg) : b.kind = "recap"
<1> DEFINE total == FoldSet(LAMBDA a, sum : sum + agg[a].realized, 0, Traders)
           score == 60 + (40 * Abs(total)) \div Th.recapFull
           b == Beat("recap", 0, Ended, {}, NoSymbol, score)
<1>1. total \in Int
  BY RealizedIsSum
<1>2. Recap(agg) = IF filled = <<>> THEN {} ELSE {b}
  BY DEF Recap
<1> HIDE DEF total
<1>3. 40 * Abs(total) \in Int
  BY <1>1 DEF Abs
<1>4. score \in Int
  <2>1. (40 * Abs(total)) \div Th.recapFull \in Int
    BY <1>3, ThTypes, ShareType
  <2>2. QED
    BY <2>1
<1>5. "recap" \in BeatKinds /\ Ended \in Int /\ Ended <= LastSecond + 1 /\ 0 \in Nat /\ {} \in SUBSET Traders
  BY ThTypes DEF BeatKinds, Ended
<1> HIDE DEF score
<1>6. IsBeat(b) /\ b.kind = "recap"
  BY <1>4, <1>5, BeatIs
<1> HIDE DEF b
<1>7. QED
  BY <1>2, <1>6, ScoredOne, ScoredNone

(* The kinds have their places in the order of the scorers. *)
LEMMA KindRank ==
    ASSUME NEW kind \in BeatKinds
    PROVE  RankIn(ScorerOrder, kind) \in 1 .. 10 /\ ScorerOrder[RankIn(ScorerOrder, kind)] = kind
<1>1. DOMAIN ScorerOrder = 1 .. 10
  BY DEF ScorerOrder
<1>2. \E i \in 1 .. 10 : ScorerOrder[i] = kind
  <2>1. /\ ScorerOrder[1] = "open" /\ ScorerOrder[2] = "big_fill" /\ ScorerOrder[3] = "divergence"
        /\ ScorerOrder[4] = "agent_rivalry" /\ ScorerOrder[5] = "streak" /\ ScorerOrder[6] = "top_winner"
        /\ ScorerOrder[7] = "top_loser" /\ ScorerOrder[8] = "closing_burst" /\ ScorerOrder[9] = "recap"
        /\ ScorerOrder[10] = "strategy_war"
    BY DEF ScorerOrder
  <2>2. /\ 1 \in 1 .. 10 /\ 2 \in 1 .. 10 /\ 3 \in 1 .. 10 /\ 4 \in 1 .. 10 /\ 5 \in 1 .. 10
        /\ 6 \in 1 .. 10 /\ 7 \in 1 .. 10 /\ 8 \in 1 .. 10 /\ 9 \in 1 .. 10 /\ 10 \in 1 .. 10
    OBVIOUS
  <2> HIDE DEF ScorerOrder
  <2>3. QED
    BY <2>1, <2>2, Zenon DEF BeatKinds
<1> HIDE DEF ScorerOrder
<1>3. RankIn(ScorerOrder, kind) \in DOMAIN ScorerOrder /\ ScorerOrder[RankIn(ScorerOrder, kind)] = kind
  BY <1>1, <1>2, Zenon DEF RankIn
<1>4. QED
  BY <1>1, <1>3

LEMMA PriorityType == ASSUME NEW kind \in BeatKinds PROVE Priority[kind] \in Nat
  BY DEF BeatKinds, Priority

(* The order of the scorers' beats by integers of theirs. *)
Rank(b) == RankIn(ScorerOrder, b.kind)

LEMMA BeatKeys ==
    ASSUME NEW b, IsBeat(b)
    PROVE  b.score \in Int /\ b.t \in Int /\ b.n \in Int /\ Rank(b) \in Int /\ Priority[b.kind] \in Int
<1>1. b.kind \in BeatKinds
  BY DEF IsBeat
<1>2. Rank(b) \in Int /\ Priority[b.kind] \in Int
  BY <1>1, KindRank, PriorityType DEF Rank
<1>3. QED
  BY <1>2 DEF IsBeat

LEMMA SameRank ==
    ASSUME NEW b, NEW c, IsBeat(b), IsBeat(c)
    PROVE  Rank(b) = Rank(c) <=> b.kind = c.kind
<1>1. b.kind \in BeatKinds /\ c.kind \in BeatKinds
  BY DEF IsBeat
<1>2. QED
  BY <1>1, KindRank, Zenon DEF Rank

(* The order of the beats, which is total: by score, time, rank and number. *)
Lex(s, t, r, n, x, y, z, m) ==
    s > x \/ (s = x /\ t < y) \/ (s = x /\ t = y /\ r < z) \/ (s = x /\ t = y /\ r = z /\ n < m)

LEMMA BetterIs ==
    ASSUME NEW b, NEW c, IsBeat(b), IsBeat(c)
    PROVE  Better(b, c) <=> Lex(b.score, b.t, Rank(b), b.n, c.score, c.t, Rank(c), c.n)
<1>1. Proposed(b, c) <=> Rank(b) < Rank(c) \/ (Rank(b) = Rank(c) /\ b.n < c.n)
  BY SameRank DEF Proposed, Rank
<1>2. QED
  BY <1>1 DEF Better, Lex

LEMMA FourKeys ==
    ASSUME NEW s \in Int, NEW t \in Int, NEW r \in Int, NEW n \in Int,
           NEW x \in Int, NEW y \in Int, NEW z \in Int, NEW m \in Int,
           NEW u \in Int, NEW v \in Int, NEW w \in Int, NEW l \in Int
    PROVE  /\ ~Lex(s, t, r, n, s, t, r, n)
           /\ Lex(s, t, r, n, x, y, z, m) /\ Lex(x, y, z, m, u, v, w, l) => Lex(s, t, r, n, u, v, w, l)
           /\ r # z \/ n # m => Lex(s, t, r, n, x, y, z, m) \/ Lex(x, y, z, m, s, t, r, n)
  BY DEF Lex

LEMMA BetterOrders ==
    ASSUME NEW b, NEW c, NEW d, IsBeat(b), IsBeat(c), IsBeat(d)
    PROVE  /\ ~Better(b, b)
           /\ Better(b, c) /\ Better(c, d) => Better(b, d)
           /\ b.kind # c.kind \/ b.n # c.n => Better(b, c) \/ Better(c, b)
<1>1. /\ b.score \in Int /\ b.t \in Int /\ b.n \in Int /\ Rank(b) \in Int
      /\ c.score \in Int /\ c.t \in Int /\ c.n \in Int /\ Rank(c) \in Int
      /\ d.score \in Int /\ d.t \in Int /\ d.n \in Int /\ Rank(d) \in Int
  BY BeatKeys
<1>2. Better(b, b) <=> Lex(b.score, b.t, Rank(b), b.n, b.score, b.t, Rank(b), b.n)
  BY BetterIs
<1>3. Better(b, c) <=> Lex(b.score, b.t, Rank(b), b.n, c.score, c.t, Rank(c), c.n)
  BY BetterIs
<1>4. Better(c, b) <=> Lex(c.score, c.t, Rank(c), c.n, b.score, b.t, Rank(b), b.n)
  BY BetterIs
<1>5. Better(c, d) <=> Lex(c.score, c.t, Rank(c), c.n, d.score, d.t, Rank(d), d.n)
  BY BetterIs
<1>6. Better(b, d) <=> Lex(b.score, b.t, Rank(b), b.n, d.score, d.t, Rank(d), d.n)
  BY BetterIs
<1>7. b.kind # c.kind \/ b.n # c.n => Rank(b) # Rank(c) \/ b.n # c.n
  BY SameRank
<1>8. /\ ~Lex(b.score, b.t, Rank(b), b.n, b.score, b.t, Rank(b), b.n)
      /\ Better(b, c) /\ Better(c, d) => Lex(b.score, b.t, Rank(b), b.n, d.score, d.t, Rank(d), d.n)
  BY <1>1, <1>3, <1>5, FourKeys
<1>9. Rank(b) # Rank(c) \/ b.n # c.n => Better(b, c) \/ Better(c, b)
  BY <1>1, <1>3, <1>4, FourKeys
<1>10. QED
  BY <1>2, <1>6, <1>7, <1>8, <1>9

LEMMA PreferredOrders ==
    ASSUME NEW b, NEW c, NEW d, IsBeat(b), IsBeat(c), IsBeat(d)
    PROVE  /\ ~Preferred(b, b)
           /\ Preferred(b, c) /\ Preferred(c, d) => Preferred(b, d)
           /\ b.kind # c.kind \/ b.n # c.n => Preferred(b, c) \/ Preferred(c, b)
<1>1. PICK bs, bp, cs, cp, ds, dp :
         /\ bs = b.score /\ bp = Priority[b.kind] /\ cs = c.score /\ cp = Priority[c.kind]
         /\ ds = d.score /\ dp = Priority[d.kind]
  OBVIOUS
<1>2. bs \in Int /\ bp \in Int /\ cs \in Int /\ cp \in Int /\ ds \in Int /\ dp \in Int
  BY <1>1, BeatKeys
<1>3. /\ Preferred(b, b) <=> bs > bs \/ (bs = bs /\ bp > bp) \/ (bs = bs /\ bp = bp /\ Better(b, b))
      /\ Preferred(b, c) <=> bs > cs \/ (bs = cs /\ bp > cp) \/ (bs = cs /\ bp = cp /\ Better(b, c))
      /\ Preferred(c, b) <=> cs > bs \/ (cs = bs /\ cp > bp) \/ (cs = bs /\ cp = bp /\ Better(c, b))
      /\ Preferred(c, d) <=> cs > ds \/ (cs = ds /\ cp > dp) \/ (cs = ds /\ cp = dp /\ Better(c, d))
      /\ Preferred(b, d) <=> bs > ds \/ (bs = ds /\ bp > dp) \/ (bs = ds /\ bp = dp /\ Better(b, d))
  BY <1>1 DEF Preferred
<1>4. /\ ~Better(b, b)
      /\ Better(b, c) /\ Better(c, d) => Better(b, d)
      /\ b.kind # c.kind \/ b.n # c.n => Better(b, c) \/ Better(c, b)
  BY BetterOrders
<1>5. QED
  BY <1>2, <1>3, <1>4

LEMMA SoonerOrders ==
    ASSUME NEW b, NEW c, NEW d, IsBeat(b), IsBeat(c), IsBeat(d)
    PROVE  /\ ~Sooner(b, b)
           /\ Sooner(b, c) /\ Sooner(c, d) => Sooner(b, d)
           /\ b.kind # c.kind \/ b.n # c.n => Sooner(b, c) \/ Sooner(c, b)
<1>1. PICK bt, ct, dt : bt = b.t /\ ct = c.t /\ dt = d.t
  OBVIOUS
<1>2. bt \in Int /\ ct \in Int /\ dt \in Int
  BY <1>1, BeatKeys
<1>3. /\ Sooner(b, b) <=> bt < bt \/ (bt = bt /\ Preferred(b, b))
      /\ Sooner(b, c) <=> bt < ct \/ (bt = ct /\ Preferred(b, c))
      /\ Sooner(c, b) <=> ct < bt \/ (ct = bt /\ Preferred(c, b))
      /\ Sooner(c, d) <=> ct < dt \/ (ct = dt /\ Preferred(c, d))
      /\ Sooner(b, d) <=> bt < dt \/ (bt = dt /\ Preferred(b, d))
  BY <1>1 DEF Sooner
<1>4. /\ ~Preferred(b, b)
      /\ Preferred(b, c) /\ Preferred(c, d) => Preferred(b, d)
      /\ b.kind # c.kind \/ b.n # c.n => Preferred(b, c) \/ Preferred(c, b)
  BY PreferredOrders
<1>5. QED
  BY <1>2, <1>3, <1>4

LEMMA ProposedOrders ==
    ASSUME NEW b, NEW c, NEW d, IsBeat(b), IsBeat(c), IsBeat(d)
    PROVE  /\ ~Proposed(b, b)
           /\ Proposed(b, c) /\ Proposed(c, d) => Proposed(b, d)
           /\ b.kind # c.kind \/ b.n # c.n => Proposed(b, c) \/ Proposed(c, b)
<1>1. PICK br, bn, cr, cn, dr, dn :
         br = Rank(b) /\ bn = b.n /\ cr = Rank(c) /\ cn = c.n /\ dr = Rank(d) /\ dn = d.n
  OBVIOUS
<1>2. br \in Int /\ bn \in Int /\ cr \in Int /\ cn \in Int /\ dr \in Int /\ dn \in Int
  BY <1>1, BeatKeys
<1>3. /\ br = cr <=> b.kind = c.kind
      /\ br = dr <=> b.kind = d.kind
      /\ cr = dr <=> c.kind = d.kind
  BY <1>1, SameRank
<1>4. /\ Proposed(b, b) <=> br < br \/ (br = br /\ bn < bn)
      /\ Proposed(b, c) <=> br < cr \/ (br = cr /\ bn < cn)
      /\ Proposed(c, b) <=> cr < br \/ (cr = br /\ cn < bn)
      /\ Proposed(c, d) <=> cr < dr \/ (cr = dr /\ cn < dn)
      /\ Proposed(b, d) <=> br < dr \/ (br = dr /\ bn < dn)
  BY <1>1, <1>3 DEF Proposed, Rank
<1>5. QED
  BY <1>1, <1>2, <1>3, <1>4

(* Each of the four orders sorts any set of scored beats. *)
LEMMA BetterSorts ==
    ASSUME NEW S, NEW kinds, Scored(S, kinds)
    PROVE  /\ SortedBy(S, Better) \in [1 .. Cardinality(S) -> S] /\ Cardinality(S) \in Nat
           /\ \A i, j \in 1 .. Cardinality(S) : i < j => Better(SortedBy(S, Better)[i], SortedBy(S, Better)[j])
           /\ \A x \in S : \E i \in 1 .. Cardinality(S) : SortedBy(S, Better)[i] = x
<1> DEFINE s == SortedBy(S, Better)
<1>1. PICK below : below = [x \in S |-> {y \in S : Better(y, x)}]
  OBVIOUS
<1>2. \A x \in S : below[x] = {y \in S : Better(y, x)}
  BY <1>1
<1>3. s = Placed(S, below)
  <2> DEFINE ranked(i) == CHOOSE x \in S : Cardinality({y \in S : Better(y, x)}) = i - 1
             placed(i) == CHOOSE x \in S : Cardinality(below[x]) = i - 1
  <2>1. \A x \in S : Cardinality(below[x]) = Cardinality({y \in S : Better(y, x)})
    BY <1>2
  <2>2. \A i : ranked(i) = placed(i)
    BY <2>1, Zenon
  <2>3. s = [i \in 1 .. Cardinality(S) |-> ranked(i)]
    BY DEF SortedBy
  <2> HIDE DEF ranked, placed
  <2>4. s = [i \in 1 .. Cardinality(S) |-> placed(i)]
    BY <2>2, <2>3
  <2>5. QED
    BY <2>4 DEF placed, Placed
<1>4. \A x \in S, y \in S : y \in below[x] <=> Better(y, x)
  BY <1>2
<1>5. IsFiniteSet(S) /\ \A x \in S : IsBeat(x)
  BY DEF Scored
<1>6. \A x \in S : below[x] \subseteq S \ {x}
  <2> SUFFICES ASSUME NEW x \in S, NEW y \in below[x] PROVE y \in S \ {x}
    OBVIOUS
  <2>1. y \in S /\ Better(y, x)
    BY <1>2
  <2>2. QED
    BY <1>5, <2>1, BetterOrders
<1>7. \A x \in S : \A y \in below[x] : below[y] \subseteq below[x]
  <2> SUFFICES ASSUME NEW x \in S, NEW y \in below[x], NEW z \in below[y] PROVE z \in below[x]
    OBVIOUS
  <2>1. y \in S /\ z \in S
    BY <1>2
  <2>2. Better(y, x) /\ Better(z, y)
    BY <1>4, <2>1
  <2>3. Better(z, x)
    BY <1>5, <2>1, <2>2, BetterOrders
  <2>4. QED
    BY <1>4, <2>1, <2>3
<1>8. \A x, y \in S : x # y => x \in below[y] \/ y \in below[x]
  <2> SUFFICES ASSUME NEW x \in S, NEW y \in S, x # y PROVE x \in below[y] \/ y \in below[x]
    OBVIOUS
  <2>1. x.kind # y.kind \/ x.n # y.n
    BY DEF Scored
  <2>2. QED
    BY <1>4, <1>5, <2>1, BetterOrders
<1> HIDE DEF s
<1>9. /\ s \in [1 .. Cardinality(S) -> S] /\ Cardinality(S) \in Nat
      /\ \A i, j \in 1 .. Cardinality(S) : i < j => s[i] \in below[s[j]]
      /\ \A x \in S : \E i \in 1 .. Cardinality(S) : s[i] = x
  <2>1. IsFiniteSet(S)
    BY <1>5
  <2>2. QED
    BY <1>3, <1>6, <1>7, <1>8, <2>1, PlacedIs
<1>10. \A i, j \in 1 .. Cardinality(S) : i < j => Better(s[i], s[j])
  BY <1>4, <1>9
<1>11. QED
  BY <1>9, <1>10 DEF s

LEMMA PreferredSorts ==
    ASSUME NEW S, NEW kinds, Scored(S, kinds)
    PROVE  /\ SortedBy(S, Preferred) \in [1 .. Cardinality(S) -> S] /\ Cardinality(S) \in Nat
           /\ \A i, j \in 1 .. Cardinality(S) : i < j => Preferred(SortedBy(S, Preferred)[i], SortedBy(S, Preferred)[j])
           /\ \A x \in S : \E i \in 1 .. Cardinality(S) : SortedBy(S, Preferred)[i] = x
<1> DEFINE s == SortedBy(S, Preferred)
<1>1. PICK below : below = [x \in S |-> {y \in S : Preferred(y, x)}]
  OBVIOUS
<1>2. \A x \in S : below[x] = {y \in S : Preferred(y, x)}
  BY <1>1
<1>3. s = Placed(S, below)
  <2> DEFINE ranked(i) == CHOOSE x \in S : Cardinality({y \in S : Preferred(y, x)}) = i - 1
             placed(i) == CHOOSE x \in S : Cardinality(below[x]) = i - 1
  <2>1. \A x \in S : Cardinality(below[x]) = Cardinality({y \in S : Preferred(y, x)})
    BY <1>2
  <2>2. \A i : ranked(i) = placed(i)
    BY <2>1, Zenon
  <2>3. s = [i \in 1 .. Cardinality(S) |-> ranked(i)]
    BY DEF SortedBy
  <2> HIDE DEF ranked, placed
  <2>4. s = [i \in 1 .. Cardinality(S) |-> placed(i)]
    BY <2>2, <2>3
  <2>5. QED
    BY <2>4 DEF placed, Placed
<1>4. \A x \in S, y \in S : y \in below[x] <=> Preferred(y, x)
  BY <1>2
<1>5. IsFiniteSet(S) /\ \A x \in S : IsBeat(x)
  BY DEF Scored
<1>6. \A x \in S : below[x] \subseteq S \ {x}
  <2> SUFFICES ASSUME NEW x \in S, NEW y \in below[x] PROVE y \in S \ {x}
    OBVIOUS
  <2>1. y \in S /\ Preferred(y, x)
    BY <1>2
  <2>2. QED
    BY <1>5, <2>1, PreferredOrders
<1>7. \A x \in S : \A y \in below[x] : below[y] \subseteq below[x]
  <2> SUFFICES ASSUME NEW x \in S, NEW y \in below[x], NEW z \in below[y] PROVE z \in below[x]
    OBVIOUS
  <2>1. y \in S /\ z \in S
    BY <1>2
  <2>2. Preferred(y, x) /\ Preferred(z, y)
    BY <1>4, <2>1
  <2>3. Preferred(z, x)
    BY <1>5, <2>1, <2>2, PreferredOrders
  <2>4. QED
    BY <1>4, <2>1, <2>3
<1>8. \A x, y \in S : x # y => x \in below[y] \/ y \in below[x]
  <2> SUFFICES ASSUME NEW x \in S, NEW y \in S, x # y PROVE x \in below[y] \/ y \in below[x]
    OBVIOUS
  <2>1. x.kind # y.kind \/ x.n # y.n
    BY DEF Scored
  <2>2. QED
    BY <1>4, <1>5, <2>1, PreferredOrders
<1> HIDE DEF s
<1>9. /\ s \in [1 .. Cardinality(S) -> S] /\ Cardinality(S) \in Nat
      /\ \A i, j \in 1 .. Cardinality(S) : i < j => s[i] \in below[s[j]]
      /\ \A x \in S : \E i \in 1 .. Cardinality(S) : s[i] = x
  <2>1. IsFiniteSet(S)
    BY <1>5
  <2>2. QED
    BY <1>3, <1>6, <1>7, <1>8, <2>1, PlacedIs
<1>10. \A i, j \in 1 .. Cardinality(S) : i < j => Preferred(s[i], s[j])
  BY <1>4, <1>9
<1>11. QED
  BY <1>9, <1>10 DEF s

LEMMA SoonerSorts ==
    ASSUME NEW S, NEW kinds, Scored(S, kinds)
    PROVE  /\ SortedBy(S, Sooner) \in [1 .. Cardinality(S) -> S] /\ Cardinality(S) \in Nat
           /\ \A i, j \in 1 .. Cardinality(S) : i < j => Sooner(SortedBy(S, Sooner)[i], SortedBy(S, Sooner)[j])
           /\ \A x \in S : \E i \in 1 .. Cardinality(S) : SortedBy(S, Sooner)[i] = x
<1> DEFINE s == SortedBy(S, Sooner)
<1>1. PICK below : below = [x \in S |-> {y \in S : Sooner(y, x)}]
  OBVIOUS
<1>2. \A x \in S : below[x] = {y \in S : Sooner(y, x)}
  BY <1>1
<1>3. s = Placed(S, below)
  <2> DEFINE ranked(i) == CHOOSE x \in S : Cardinality({y \in S : Sooner(y, x)}) = i - 1
             placed(i) == CHOOSE x \in S : Cardinality(below[x]) = i - 1
  <2>1. \A x \in S : Cardinality(below[x]) = Cardinality({y \in S : Sooner(y, x)})
    BY <1>2
  <2>2. \A i : ranked(i) = placed(i)
    BY <2>1, Zenon
  <2>3. s = [i \in 1 .. Cardinality(S) |-> ranked(i)]
    BY DEF SortedBy
  <2> HIDE DEF ranked, placed
  <2>4. s = [i \in 1 .. Cardinality(S) |-> placed(i)]
    BY <2>2, <2>3
  <2>5. QED
    BY <2>4 DEF placed, Placed
<1>4. \A x \in S, y \in S : y \in below[x] <=> Sooner(y, x)
  BY <1>2
<1>5. IsFiniteSet(S) /\ \A x \in S : IsBeat(x)
  BY DEF Scored
<1>6. \A x \in S : below[x] \subseteq S \ {x}
  <2> SUFFICES ASSUME NEW x \in S, NEW y \in below[x] PROVE y \in S \ {x}
    OBVIOUS
  <2>1. y \in S /\ Sooner(y, x)
    BY <1>2
  <2>2. QED
    BY <1>5, <2>1, SoonerOrders
<1>7. \A x \in S : \A y \in below[x] : below[y] \subseteq below[x]
  <2> SUFFICES ASSUME NEW x \in S, NEW y \in below[x], NEW z \in below[y] PROVE z \in below[x]
    OBVIOUS
  <2>1. y \in S /\ z \in S
    BY <1>2
  <2>2. Sooner(y, x) /\ Sooner(z, y)
    BY <1>4, <2>1
  <2>3. Sooner(z, x)
    BY <1>5, <2>1, <2>2, SoonerOrders
  <2>4. QED
    BY <1>4, <2>1, <2>3
<1>8. \A x, y \in S : x # y => x \in below[y] \/ y \in below[x]
  <2> SUFFICES ASSUME NEW x \in S, NEW y \in S, x # y PROVE x \in below[y] \/ y \in below[x]
    OBVIOUS
  <2>1. x.kind # y.kind \/ x.n # y.n
    BY DEF Scored
  <2>2. QED
    BY <1>4, <1>5, <2>1, SoonerOrders
<1> HIDE DEF s
<1>9. /\ s \in [1 .. Cardinality(S) -> S] /\ Cardinality(S) \in Nat
      /\ \A i, j \in 1 .. Cardinality(S) : i < j => s[i] \in below[s[j]]
      /\ \A x \in S : \E i \in 1 .. Cardinality(S) : s[i] = x
  <2>1. IsFiniteSet(S)
    BY <1>5
  <2>2. QED
    BY <1>3, <1>6, <1>7, <1>8, <2>1, PlacedIs
<1>10. \A i, j \in 1 .. Cardinality(S) : i < j => Sooner(s[i], s[j])
  BY <1>4, <1>9
<1>11. QED
  BY <1>9, <1>10 DEF s

LEMMA ProposedSorts ==
    ASSUME NEW S, NEW kinds, Scored(S, kinds)
    PROVE  /\ SortedBy(S, Proposed) \in [1 .. Cardinality(S) -> S] /\ Cardinality(S) \in Nat
           /\ \A i, j \in 1 .. Cardinality(S) : i < j => Proposed(SortedBy(S, Proposed)[i], SortedBy(S, Proposed)[j])
           /\ \A x \in S : \E i \in 1 .. Cardinality(S) : SortedBy(S, Proposed)[i] = x
<1> DEFINE s == SortedBy(S, Proposed)
<1>1. PICK below : below = [x \in S |-> {y \in S : Proposed(y, x)}]
  OBVIOUS
<1>2. \A x \in S : below[x] = {y \in S : Proposed(y, x)}
  BY <1>1
<1>3. s = Placed(S, below)
  <2> DEFINE ranked(i) == CHOOSE x \in S : Cardinality({y \in S : Proposed(y, x)}) = i - 1
             placed(i) == CHOOSE x \in S : Cardinality(below[x]) = i - 1
  <2>1. \A x \in S : Cardinality(below[x]) = Cardinality({y \in S : Proposed(y, x)})
    BY <1>2
  <2>2. \A i : ranked(i) = placed(i)
    BY <2>1, Zenon
  <2>3. s = [i \in 1 .. Cardinality(S) |-> ranked(i)]
    BY DEF SortedBy
  <2> HIDE DEF ranked, placed
  <2>4. s = [i \in 1 .. Cardinality(S) |-> placed(i)]
    BY <2>2, <2>3
  <2>5. QED
    BY <2>4 DEF placed, Placed
<1>4. \A x \in S, y \in S : y \in below[x] <=> Proposed(y, x)
  BY <1>2
<1>5. IsFiniteSet(S) /\ \A x \in S : IsBeat(x)
  BY DEF Scored
<1>6. \A x \in S : below[x] \subseteq S \ {x}
  <2> SUFFICES ASSUME NEW x \in S, NEW y \in below[x] PROVE y \in S \ {x}
    OBVIOUS
  <2>1. y \in S /\ Proposed(y, x)
    BY <1>2
  <2>2. QED
    BY <1>5, <2>1, ProposedOrders
<1>7. \A x \in S : \A y \in below[x] : below[y] \subseteq below[x]
  <2> SUFFICES ASSUME NEW x \in S, NEW y \in below[x], NEW z \in below[y] PROVE z \in below[x]
    OBVIOUS
  <2>1. y \in S /\ z \in S
    BY <1>2
  <2>2. Proposed(y, x) /\ Proposed(z, y)
    BY <1>4, <2>1
  <2>3. Proposed(z, x)
    BY <1>5, <2>1, <2>2, ProposedOrders
  <2>4. QED
    BY <1>4, <2>1, <2>3
<1>8. \A x, y \in S : x # y => x \in below[y] \/ y \in below[x]
  <2> SUFFICES ASSUME NEW x \in S, NEW y \in S, x # y PROVE x \in below[y] \/ y \in below[x]
    OBVIOUS
  <2>1. x.kind # y.kind \/ x.n # y.n
    BY DEF Scored
  <2>2. QED
    BY <1>4, <1>5, <2>1, ProposedOrders
<1> HIDE DEF s
<1>9. /\ s \in [1 .. Cardinality(S) -> S] /\ Cardinality(S) \in Nat
      /\ \A i, j \in 1 .. Cardinality(S) : i < j => s[i] \in below[s[j]]
      /\ \A x \in S : \E i \in 1 .. Cardinality(S) : s[i] = x
  <2>1. IsFiniteSet(S)
    BY <1>5
  <2>2. QED
    BY <1>3, <1>6, <1>7, <1>8, <2>1, PlacedIs
<1>10. \A i, j \in 1 .. Cardinality(S) : i < j => Proposed(s[i], s[j])
  BY <1>4, <1>9
<1>11. QED
  BY <1>9, <1>10 DEF s

(* All candidates are scored, and an open and a recap are among them. *)
LEMMA CandidatesScored ==
    ASSUME filled \in Seq(Fills), Len(filled) <= MaxFills, rollup \in Int
    PROVE  /\ Scored(Candidates, BeatKinds)
           /\ \E b \in Candidates : b.kind = "open"
           /\ filled # <<>> => \E b \in Candidates : b.kind = "recap"
<1> DEFINE agg == Walk.agg
           C1 == Opening \cup BigFills
           C2 == C1 \cup Divergences
           C3 == C2 \cup Rivalries
           C4 == C3 \cup Streaks(agg)
           C5 == C4 \cup TopMovers(agg)
           C6 == C5 \cup ClosingBurst
           C7 == C6 \cup Recap(agg)
           C8 == C7 \cup StrategyWar
<1>1. agg \in [Traders -> Aggregate]
  <2>1. PICK c : IsWalk(c)
    BY WalkExists
  <2>2. Walk \in WalkType
    <3>1. Len(filled) \in 0 .. Len(filled)
      OBVIOUS
    <3>2. QED
      BY <2>1, <3>1 DEF IsWalk
  <2>3. QED
    BY <2>2 DEF WalkType
<1>2. Candidates = C8
  BY DEF Candidates
<1> HIDE DEF agg
<1>3. Scored(C1, {"open", "big_fill"})
  <2>1. {"open"} \cap {"big_fill"} = {} /\ {"open"} \cup {"big_fill"} = {"open", "big_fill"}
    OBVIOUS
  <2>2. QED
    BY <2>1, OpeningScored, BigFillsScored, ScoredUnion
<1> HIDE DEF C1
<1>4. Scored(C2, {"open", "big_fill", "divergence"})
  <2>1. /\ {"open", "big_fill"} \cap {"divergence"} = {}
        /\ {"open", "big_fill"} \cup {"divergence"} = {"open", "big_fill", "divergence"}
    OBVIOUS
  <2>2. QED
    BY <1>3, <2>1, DivergencesScored, ScoredUnion
<1> HIDE DEF C2
<1>5. Scored(C3, {"open", "big_fill", "divergence", "agent_rivalry"})
  <2>1. /\ {"open", "big_fill", "divergence"} \cap {"agent_rivalry"} = {}
        /\ {"open", "big_fill", "divergence"} \cup {"agent_rivalry"}
             = {"open", "big_fill", "divergence", "agent_rivalry"}
    OBVIOUS
  <2>2. QED
    BY <1>4, <2>1, RivalriesScored, ScoredUnion
<1> HIDE DEF C3
<1>6. Scored(C4, {"open", "big_fill", "divergence", "agent_rivalry", "streak"})
  <2>1. /\ {"open", "big_fill", "divergence", "agent_rivalry"} \cap {"streak"} = {}
        /\ {"open", "big_fill", "divergence", "agent_rivalry"} \cup {"streak"}
             = {"open", "big_fill", "divergence", "agent_rivalry", "streak"}
    OBVIOUS
  <2>2. QED
    BY <1>1, <1>5, <2>1, StreaksScored, ScoredUnion
<1> HIDE DEF C4
<1>7. Scored(C5, {"open", "big_fill", "divergence", "agent_rivalry", "streak", "top_winner", "top_loser"})
  <2>1. /\ {"open", "big_fill", "divergence", "agent_rivalry", "streak"}
             \cap ({"top_winner"} \cup {"top_loser"}) = {}
        /\ {"open", "big_fill", "divergence", "agent_rivalry", "streak"} \cup ({"top_winner"} \cup {"top_loser"})
             = {"open", "big_fill", "divergence", "agent_rivalry", "streak", "top_winner", "top_loser"}
    OBVIOUS
  <2>2. QED
    BY <1>1, <1>6, <2>1, TopMoversScored, ScoredUnion
<1> HIDE DEF C5
<1> DEFINE K == {"open", "big_fill", "divergence", "agent_rivalry", "streak", "top_winner", "top_loser"}
<1>8. Scored(C6, K \cup {"closing_burst"})
  <2>1. K \cap {"closing_burst"} = {}
    OBVIOUS
  <2>2. Scored(C5, K)
    BY <1>7
  <2> HIDE DEF K
  <2>3. QED
    BY <2>1, <2>2, ClosingBurstScored, ScoredUnion
<1> HIDE DEF C6
<1>9. Scored(C7, (K \cup {"closing_burst"}) \cup {"recap"})
  <2>1. (K \cup {"closing_burst"}) \cap {"recap"} = {}
    OBVIOUS
  <2> HIDE DEF K
  <2>2. QED
    BY <1>1, <1>8, <2>1, RecapScored, ScoredUnion
<1> HIDE DEF C7
<1>10. Scored(C8, ((K \cup {"closing_burst"}) \cup {"recap"}) \cup {"strategy_war"})
  <2>1. ((K \cup {"closing_burst"}) \cup {"recap"}) \cap {"strategy_war"} = {}
    OBVIOUS
  <2> HIDE DEF K
  <2>2. QED
    BY <1>9, <2>1, StrategyWarScored, ScoredUnion
<1>11. ((K \cup {"closing_burst"}) \cup {"recap"}) \cup {"strategy_war"} = BeatKinds
  BY DEF BeatKinds
<1>12. Scored(Candidates, BeatKinds)
  BY <1>2, <1>10, <1>11
<1>13. Opening \subseteq Candidates /\ Recap(agg) \subseteq Candidates
  BY <1>2 DEF C1, C2, C3, C4, C5, C6, C7
<1>14. QED
  BY <1>1, <1>12, <1>13, OpeningScored, RecapScored

LEMMA AppendAdds ==
    ASSUME NEW S, NEW seq \in Seq(S), NEW x
    PROVE  ToSet(Append(seq, x)) = ToSet(seq) \cup {x}
<1>1. PICK T : T = S \cup {x}
  OBVIOUS
<1>2. seq \in Seq(T) /\ x \in T
  BY <1>1
<1>3. Append(seq, x) \in Seq(T) /\ Len(Append(seq, x)) = Len(seq) + 1 /\ Len(seq) \in Nat
  BY <1>2
<1>4. /\ DOMAIN Append(seq, x) = 1 .. Len(seq) + 1 /\ DOMAIN seq = 1 .. Len(seq)
      /\ \A i \in 1 .. Len(seq) : Append(seq, x)[i] = seq[i]
      /\ Append(seq, x)[Len(seq) + 1] = x
  BY <1>2, <1>3
<1>5. \A i \in 1 .. Len(seq) + 1 : i \in 1 .. Len(seq) \/ i = Len(seq) + 1
  BY <1>3
<1>6. 1 .. Len(seq) \subseteq 1 .. Len(seq) + 1 /\ Len(seq) + 1 \in 1 .. Len(seq) + 1
  BY <1>3
<1>7. QED
  BY <1>4, <1>5, <1>6 DEF ToSet

(* The beats that are kept, one after the other. *)
Keeps(kept, b) == IF ~IsAnchor(b) /\ \E p \in ToSet(kept) : Collide(p, b) THEN kept ELSE Append(kept, b)

IsDedup(C, s, n, c) ==
    /\ c \in [0 .. n -> Seq(C)] /\ c[0] = <<>> /\ c[n] = Dedup(C)
    /\ \A k \in 1 .. n : c[k] = Keeps(c[k - 1], s[k])

LEMMA DedupExists ==
    ASSUME NEW C, NEW kinds, Scored(C, kinds), NEW s, s = SortedBy(C, Better), NEW n, n = Cardinality(C)
    PROVE  \E c : IsDedup(C, s, n, c)
<1> DEFINE R(h) == h = [T \in SUBSET (1 .. n) |->
                          IF T = {} THEN <<>> ELSE Keeps(h[T \ {Max(T)}], s[Max(T)])]
           step == [p \in (1 .. n) \X Seq(C) |-> Keeps(p[2], s[p[1]])]
<1>1. n \in Nat /\ DOMAIN s = 1 .. n /\ \A k \in 1 .. n : s[k] \in C
  BY BetterSorts
<1>2. Dedup(C) = (CHOOSE h : R(h))[1 .. n]
  BY <1>1 DEF Dedup, FoldLeft, MapThenFoldSet, Keeps
<1>3. \A w \in Seq(C), k \in 1 .. n : Keeps(w, s[k]) \in Seq(C)
  BY <1>1 DEF Keeps
<1>4. step \in [(1 .. n) \X Seq(C) -> Seq(C)]
  BY <1>3
<1>5. <<>> \in Seq(C)
  OBVIOUS
<1>6. \E h : R(h)
  <2> HIDE DEF step
  <2>1. PICK h \in [SUBSET (1 .. n) -> Seq(C)] : IsFold(h, <<>>, step, n)
    BY <1>1, <1>4, <1>5, FoldExists
  <2> DEFINE q(T) == IF T = {} THEN <<>> ELSE step[<<Max(T), h[T \ {Max(T)}]>>]
             r(T) == IF T = {} THEN <<>> ELSE Keeps(h[T \ {Max(T)}], s[Max(T)])
  <2>2. \A T \in SUBSET (1 .. n) : q(T) = r(T)
    <3> TAKE T \in SUBSET (1 .. n)
    <3> SUFFICES ASSUME T # {} PROVE q(T) = r(T)
      OBVIOUS
    <3>1. Max(T) \in 1 .. n /\ h[T \ {Max(T)}] \in Seq(C)
      BY <1>1, MaxOfRange
    <3>2. <<Max(T), h[T \ {Max(T)}]>> \in (1 .. n) \X Seq(C)
      BY <3>1
    <3>3. QED
      BY <3>2 DEF step
  <2>3. h = [T \in SUBSET (1 .. n) |-> q(T)]
    BY <2>1 DEF IsFold
  <2> HIDE DEF q, r
  <2>4. h = [T \in SUBSET (1 .. n) |-> r(T)]
    BY <2>2, <2>3
  <2>5. R(h)
    BY <2>4 DEF r
  <2> HIDE DEF R
  <2>6. QED
    BY <2>5
<1>7. PICK h : R(h) /\ Dedup(C) = h[1 .. n]
  <2> HIDE DEF R
  <2>1. QED
    BY <1>2, <1>6
<1>8. ASSUME NEW T \in SUBSET (1 .. n)
      PROVE  h[T] = IF T = {} THEN <<>> ELSE Keeps(h[T \ {Max(T)}], s[Max(T)])
  BY <1>7
<1> HIDE DEF R
<1>9. PICK c : c = [k \in 0 .. n |-> h[1 .. k]]
  OBVIOUS
<1>10. /\ c[0] = h[{}] /\ c[n] = h[1 .. n] /\ {} \in SUBSET (1 .. n)
       /\ \A k \in 1 .. n : /\ 1 .. k \in SUBSET (1 .. n) /\ 1 .. k # {} /\ Max(1 .. k) = k
                            /\ c[k] = h[1 .. k] /\ c[k - 1] = h[(1 .. k) \ {k}]
  <2>1. n \in Nat
    BY <1>1
  <2>2. Along(c, h, n)
    BY <1>9, <2>1, AlongPrefixes
  <2>3. QED
    BY <2>2 DEF Along
<1>11. c[0] = <<>> /\ c[n] = Dedup(C)
  BY <1>7, <1>8, <1>10
<1>12. \A k \in 1 .. n : c[k] = Keeps(c[k - 1], s[k])
  <2> TAKE k \in 1 .. n
  <2>1. h[1 .. k] = Keeps(h[(1 .. k) \ {k}], s[k])
    BY <1>8, <1>10
  <2>2. QED
    BY <1>10, <2>1
<1>13. \A k \in 0 .. n : c[k] \in Seq(C)
  <2> DEFINE Good == {k \in 0 .. n : c[k] \in Seq(C)}
  <2>1. 0 \in Good
    <3>1. 0 \in 0 .. n
      BY <1>1
    <3>2. c[0] \in Seq(C)
      BY <1>5, <1>11
    <3>3. QED
      BY <3>1, <3>2
  <2>2. ASSUME NEW k \in 1 .. n, k - 1 \in Good PROVE k \in Good
    BY <1>1, <1>3, <1>12, <2>2
  <2> HIDE DEF Good
  <2>3. \A k \in 0 .. n : k \in Good
    BY <1>1, <2>1, <2>2, Reaches
  <2>4. QED
    BY <2>3 DEF Good
<1>14. c = [k \in 0 .. n |-> c[k]]
  BY <1>9
<1>15. c \in [0 .. n -> Seq(C)]
  BY <1>13, <1>14
<1>16. IsDedup(C, s, n, c)
  BY <1>11, <1>12, <1>15 DEF IsDedup
<1>17. QED
  BY <1>16

LEMMA CollideIs ==
    ASSUME NEW b, NEW c, IsBeat(b), IsBeat(c)
    PROVE  /\ Collide(b, c) <=> Collide(c, b)
           /\ Twins(b, c) <=> Collide(b, c)
           /\ IsAnchor(b) => ~Collide(b, c)
<1>1. b.t \in Int /\ c.t \in Int /\ Th.dedupWindow \in Nat
  BY ThTypes DEF IsBeat
<1>2. PICK x, y, w : x = b.t /\ y = c.t /\ w = Th.dedupWindow
  OBVIOUS
<1>3. /\ Abs(x - y) <= w <=> Abs(y - x) <= w
      /\ Abs(x - y) <= w <=> x - y \in -w .. w
  BY <1>1, <1>2 DEF Abs
<1>4. (Apart(b, c) <= Th.dedupWindow <=> Apart(c, b) <= Th.dedupWindow)
  BY <1>2, <1>3 DEF Apart
<1>5. Apart(b, c) <= Th.dedupWindow <=> b.t - c.t \in -Th.dedupWindow .. Th.dedupWindow
  BY <1>2, <1>3 DEF Apart
<1>6. b.agents \cap c.agents = c.agents \cap b.agents
  OBVIOUS
<1>7. IsAnchor(b) => b.agents \cap c.agents = {}
  BY DEF IsBeat
<1>8. QED
  BY <1>4, <1>5, <1>6, <1>7 DEF Collide, Twins

(* What _dedup keeps of a set of beats: the anchors and of each group of    *)
(* beats that collide a better one, and no two that collide.               *)
KeptOf(D, C) ==
    /\ D \subseteq C
    /\ \A b \in C : IsAnchor(b) => b \in D
    /\ \A b \in C \ D : \E p \in D : Collide(p, b) /\ p.score >= b.score
    /\ \A b, c \in D : b # c => ~Collide(b, c)

LEMMA DedupIs ==
    ASSUME NEW C, NEW kinds, Scored(C, kinds)
    PROVE  Dedup(C) \in Seq(C) /\ KeptOf(ToSet(Dedup(C)), C)
<1>1. PICK s, n : s = SortedBy(C, Better) /\ n = Cardinality(C)
  OBVIOUS
<1>2. /\ s \in [1 .. n -> C] /\ n \in Nat
      /\ \A i, j \in 1 .. n : i < j => Better(s[i], s[j])
      /\ \A x \in C : \E i \in 1 .. n : s[i] = x
  BY <1>1, BetterSorts
<1>3. PICK c : IsDedup(C, s, n, c)
  BY <1>1, DedupExists
<1>4. \A k \in 0 .. n : c[k] \in Seq(C)
  BY <1>3 DEF IsDedup
<1>5. PICK T : T = [k \in 0 .. n |-> ToSet(c[k])]
  OBVIOUS
<1>6. T[0] = {}
  <2>1. c[0] = <<>> /\ 0 \in 0 .. n
    BY <1>2, <1>3 DEF IsDedup
  <2>2. ToSet(<<>>) = {}
    BY DEF ToSet
  <2>3. QED
    BY <1>5, <2>1, <2>2
<1>7. ASSUME NEW k \in 1 .. n
      PROVE  T[k] = IF ~IsAnchor(s[k]) /\ \E p \in T[k - 1] : Collide(p, s[k]) THEN T[k - 1]
                    ELSE T[k - 1] \cup {s[k]}
  <2>1. k \in 0 .. n /\ k - 1 \in 0 .. n
    BY <1>2
  <2>2. c[k] = Keeps(c[k - 1], s[k]) /\ T[k] = ToSet(c[k]) /\ T[k - 1] = ToSet(c[k - 1]) /\ c[k - 1] \in Seq(C)
    BY <1>3, <1>4, <1>5, <2>1 DEF IsDedup
  <2>3. ToSet(Append(c[k - 1], s[k])) = ToSet(c[k - 1]) \cup {s[k]}
    BY <2>2, AppendAdds
  <2>4. QED
    BY <2>2, <2>3 DEF Keeps
<1> DEFINE Fine(k) ==
              /\ T[k] \subseteq C /\ \A b \in T[k] : \E i \in 1 .. k : b = s[i]
              /\ \A i \in 1 .. k : IsAnchor(s[i]) => s[i] \in T[k]
              /\ \A i \in 1 .. k : s[i] \in T[k] \/ \E p \in T[k] : Collide(p, s[i]) /\ Better(p, s[i])
              /\ \A x, y \in T[k] : x # y => ~Collide(x, y)
           Good == {k \in 0 .. n : Fine(k)}
<1>8. 0 \in Good
  <2>1. 0 \in 0 .. n /\ 1 .. 0 = {}
    BY <1>2
  <2>2. QED
    BY <1>6, <2>1
<1>9. ASSUME NEW k \in 1 .. n, k - 1 \in Good PROVE k \in Good
  <2>1. /\ T[k - 1] \subseteq C /\ \A b \in T[k - 1] : \E i \in 1 .. k - 1 : b = s[i]
        /\ \A i \in 1 .. k - 1 : IsAnchor(s[i]) => s[i] \in T[k - 1]
        /\ \A i \in 1 .. k - 1 : s[i] \in T[k - 1] \/ \E p \in T[k - 1] : Collide(p, s[i]) /\ Better(p, s[i])
        /\ \A x, y \in T[k - 1] : x # y => ~Collide(x, y)
    BY <1>9
  <2>2. k \in 0 .. n /\ (\A i \in 1 .. k : i \in 1 .. k - 1 \/ i = k) /\ 1 .. k - 1 \subseteq 1 .. k /\ k \in 1 .. k
    BY <1>2
  <2>3. s[k] \in C /\ \A x \in C : IsBeat(x)
    BY <1>2 DEF Scored
  <2>4. \A p \in T[k - 1] : Better(p, s[k])
    <3> TAKE p \in T[k - 1]
    <3>1. PICK i \in 1 .. k - 1 : p = s[i]
      BY <2>1
    <3>2. i \in 1 .. n /\ i < k
      BY <1>2
    <3>3. QED
      BY <1>2, <3>1, <3>2
  <2> SUFFICES Fine(k)
    BY <2>2
  <2>5. CASE ~IsAnchor(s[k]) /\ \E p \in T[k - 1] : Collide(p, s[k])
    <3>1. T[k] = T[k - 1]
      BY <1>7, <2>5
    <3>2. s[k] \in T[k] \/ \E p \in T[k] : Collide(p, s[k]) /\ Better(p, s[k])
      BY <2>4, <2>5, <3>1
    <3>3. \A i \in 1 .. k : IsAnchor(s[i]) => s[i] \in T[k]
      BY <2>1, <2>2, <2>5, <3>1
    <3>4. \A b \in T[k] : \E i \in 1 .. k : b = s[i]
      BY <2>1, <2>2, <3>1
    <3>5. \A i \in 1 .. k : s[i] \in T[k] \/ \E p \in T[k] : Collide(p, s[i]) /\ Better(p, s[i])
      BY <2>1, <2>2, <3>1, <3>2
    <3>6. QED
      BY <2>1, <3>1, <3>3, <3>4, <3>5
  <2>6. CASE ~(~IsAnchor(s[k]) /\ \E p \in T[k - 1] : Collide(p, s[k]))
    <3>1. T[k] = T[k - 1] \cup {s[k]}
      BY <1>7, <2>6
    <3>2. \A p \in T[k - 1] : ~Collide(p, s[k]) /\ ~Collide(s[k], p)
      BY <2>1, <2>3, <2>6, CollideIs
    <3>3. \A i \in 1 .. k : IsAnchor(s[i]) => s[i] \in T[k]
      BY <2>1, <2>2, <3>1
    <3>4. \A b \in T[k] : \E i \in 1 .. k : b = s[i]
      BY <2>1, <2>2, <3>1
    <3>5. \A i \in 1 .. k : s[i] \in T[k] \/ \E p \in T[k] : Collide(p, s[i]) /\ Better(p, s[i])
      BY <2>1, <2>2, <3>1
    <3>6. \A x, y \in T[k] : x # y => ~Collide(x, y)
      BY <2>1, <3>1, <3>2
    <3>7. QED
      BY <2>1, <2>3, <3>1, <3>3, <3>4, <3>5, <3>6
  <2>7. QED
    BY <2>5, <2>6
<1>10. Fine(n)
  <2> HIDE DEF Good, Fine
  <2>1. n \in 0 .. n
    BY <1>2
  <2>2. \A k \in 0 .. n : k \in Good
    BY <1>2, <1>8, <1>9, Reaches
  <2>3. n \in Good
    BY <2>1, <2>2
  <2>4. QED
    BY <2>3 DEF Good
<1>11. Dedup(C) \in Seq(C) /\ T[n] = ToSet(Dedup(C))
  <2>1. n \in 0 .. n
    BY <1>2
  <2>2. QED
    BY <1>3, <1>4, <1>5, <2>1 DEF IsDedup
<1>12. KeptOf(T[n], C)
  <2>1. \A b \in C : IsAnchor(b) => b \in T[n]
    BY <1>2, <1>10
  <2>2. \A b, x \in T[n] : b # x => ~Collide(b, x)
    BY <1>10
  <2>3. ASSUME NEW b \in C \ T[n] PROVE \E p \in T[n] : Collide(p, b) /\ p.score >= b.score
    <3>1. PICK i \in 1 .. n : s[i] = b
      BY <1>2
    <3>2. PICK p \in T[n] : Collide(p, b) /\ Better(p, b)
      BY <1>10, <3>1
    <3>3. p.score \in Int /\ b.score \in Int
      BY <1>10 DEF Scored, IsBeat
    <3>4. QED
      BY <3>2, <3>3 DEF Better
  <2>4. T[n] \subseteq C
    BY <1>10
  <2> HIDE DEF Fine
  <2>5. QED
    BY <2>1, <2>2, <2>3, <2>4 DEF KeptOf
<1>13. QED
  BY <1>11, <1>12

(* A sequence that lists a finite set, each member once. *)
Lists(s, S) ==
    /\ IsFiniteSet(S) /\ s \in Seq(S) /\ Len(s) = Cardinality(S)
    /\ \A i, j \in 1 .. Len(s) : i # j => s[i] # s[j]
    /\ \A x \in S : \E i \in 1 .. Len(s) : s[i] = x

LEMMA ListsBoth ==
    ASSUME NEW S, NEW s, Lists(s, S), NEW T, NEW t, Lists(t, T), S \cap T = {}
    PROVE  Lists(s \o t, S \cup T)
<1> DEFINE U == S \cup T
           u == s \o t
<1>1. s \in Seq(U) /\ t \in Seq(U) /\ s \in Seq(S) /\ t \in Seq(T) /\ IsFiniteSet(S) /\ IsFiniteSet(T)
  BY DEF Lists
<1>2. PICK m, n : m = Len(s) /\ n = Len(t)
  OBVIOUS
<1>3. m \in Nat /\ n \in Nat
  BY <1>1, <1>2
<1>4. u \in Seq(U) /\ Len(u) = m + n
  BY <1>1, <1>2, ConcatProperties
<1>5. IsFiniteSet(U) /\ Cardinality(U) = m + n
  <2>1. IsFiniteSet(U) /\ Cardinality(U) = Cardinality(S) + Cardinality(T) - Cardinality(S \cap T)
    BY <1>1, FS_Union
  <2>2. Cardinality(S \cap T) = 0
    BY FS_EmptySet
  <2>3. QED
    BY <1>2, <1>3, <2>1, <2>2 DEF Lists
<1>6. \A i \in 1 .. m : u[i] = s[i] /\ s[i] \in S /\ i \in 1 .. m + n
  BY <1>1, <1>2, <1>3
<1>7. \A j \in 1 .. n : u[m + j] = t[j] /\ t[j] \in T /\ m + j \in 1 .. m + n
  BY <1>1, <1>2, <1>3
<1>8. \A i \in 1 .. m + n : i \in 1 .. m \/ \E j \in 1 .. n : i = m + j
  <2> TAKE i \in 1 .. m + n
  <2>1. i \in 1 .. m \/ (i - m \in 1 .. n /\ i = m + (i - m))
    BY <1>3
  <2>2. QED
    BY <2>1
<1> HIDE DEF u
<1>9. ASSUME NEW i \in 1 .. m + n, NEW j \in 1 .. m + n, i # j PROVE u[i] # u[j]
  <2>1. CASE i \in 1 .. m /\ j \in 1 .. m
    BY <1>2, <1>6, <1>9, <2>1 DEF Lists
  <2>2. CASE i \in 1 .. m /\ j \notin 1 .. m
    <3>1. PICK l \in 1 .. n : j = m + l
      BY <1>8, <2>2
    <3>2. u[i] \in S /\ u[j] \in T
      BY <1>6, <1>7, <2>2, <3>1
    <3>3. QED
      BY <3>2
  <2>3. CASE i \notin 1 .. m /\ j \in 1 .. m
    <3>1. PICK l \in 1 .. n : i = m + l
      BY <1>8, <2>3
    <3>2. u[i] \in T /\ u[j] \in S
      BY <1>6, <1>7, <2>3, <3>1
    <3>3. QED
      BY <3>2
  <2>4. CASE i \notin 1 .. m /\ j \notin 1 .. m
    <3>1. PICK k, l \in 1 .. n : i = m + k /\ j = m + l
      BY <1>8, <2>4
    <3>2. k # l /\ u[i] = t[k] /\ u[j] = t[l]
      BY <1>7, <1>9, <3>1
    <3>3. QED
      BY <1>2, <3>1, <3>2 DEF Lists
  <2>5. QED
    BY <2>1, <2>2, <2>3, <2>4
<1>10. ASSUME NEW x \in U PROVE \E i \in 1 .. m + n : u[i] = x
  <2>1. CASE x \in S
    <3>1. PICK i \in 1 .. m : s[i] = x
      BY <1>2, <2>1 DEF Lists
    <3>2. QED
      BY <1>6, <3>1
  <2>2. CASE x \in T
    <3>1. PICK j \in 1 .. n : t[j] = x
      BY <1>2, <2>2 DEF Lists
    <3>2. QED
      BY <1>7, <3>1
  <2>3. QED
    BY <2>1, <2>2
<1>11. QED
  BY <1>4, <1>5, <1>9, <1>10 DEF Lists, u

LEMMA ListedSet ==
    ASSUME NEW S, NEW s, Lists(s, S)
    PROVE  ToSet(s) = S /\ DOMAIN s = 1 .. Len(s) /\ Len(s) \in Nat
<1>1. s \in Seq(S) /\ DOMAIN s = 1 .. Len(s) /\ Len(s) \in Nat
  BY DEF Lists
<1>2. QED
  BY <1>1 DEF Lists, ToSet

LEMMA PreferredLists ==
    ASSUME NEW S, NEW kinds, Scored(S, kinds)
    PROVE  Lists(SortedBy(S, Preferred), S)
<1>1. PICK s, n : s = SortedBy(S, Preferred) /\ n = Cardinality(S)
  OBVIOUS
<1>2. s \in [1 .. n -> S] /\ n \in Nat /\ \A x \in S : \E i \in 1 .. n : s[i] = x
  BY <1>1, PreferredSorts
<1>3. \A i, j \in 1 .. n : i < j => Preferred(s[i], s[j])
  BY <1>1, PreferredSorts
<1>4. s \in Seq(S) /\ Len(s) = n
  BY <1>2
<1>5. ASSUME NEW i \in 1 .. n, NEW j \in 1 .. n, i # j PROVE s[i] # s[j]
  <2>1. i < j \/ j < i
    BY <1>2, <1>5
  <2>2. s[i] \in S /\ s[j] \in S /\ (Preferred(s[i], s[j]) \/ Preferred(s[j], s[i]))
    BY <1>2, <1>3, <2>1
  <2>3. IsBeat(s[i])
    BY <2>2 DEF Scored
  <2>4. ~Preferred(s[i], s[i])
    BY <2>3, PreferredOrders
  <2>5. QED
    BY <2>2, <2>4
<1>6. IsFiniteSet(S)
  BY DEF Scored
<1>7. Lists(s, S)
  BY <1>1, <1>2, <1>4, <1>5, <1>6 DEF Lists
<1>8. QED
  BY <1>1, <1>7

LEMMA SoonerLists ==
    ASSUME NEW S, NEW kinds, Scored(S, kinds)
    PROVE  Lists(SortedBy(S, Sooner), S)
<1>1. PICK s, n : s = SortedBy(S, Sooner) /\ n = Cardinality(S)
  OBVIOUS
<1>2. s \in [1 .. n -> S] /\ n \in Nat /\ \A x \in S : \E i \in 1 .. n : s[i] = x
  BY <1>1, SoonerSorts
<1>3. \A i, j \in 1 .. n : i < j => Sooner(s[i], s[j])
  BY <1>1, SoonerSorts
<1>4. s \in Seq(S) /\ Len(s) = n
  BY <1>2
<1>5. ASSUME NEW i \in 1 .. n, NEW j \in 1 .. n, i # j PROVE s[i] # s[j]
  <2>1. i < j \/ j < i
    BY <1>2, <1>5
  <2>2. s[i] \in S /\ s[j] \in S /\ (Sooner(s[i], s[j]) \/ Sooner(s[j], s[i]))
    BY <1>2, <1>3, <2>1
  <2>3. IsBeat(s[i])
    BY <2>2 DEF Scored
  <2>4. ~Sooner(s[i], s[i])
    BY <2>3, SoonerOrders
  <2>5. QED
    BY <2>2, <2>4
<1>6. IsFiniteSet(S)
  BY DEF Scored
<1>7. Lists(s, S)
  BY <1>1, <1>2, <1>4, <1>5, <1>6 DEF Lists
<1>8. QED
  BY <1>1, <1>7

LEMMA ProposedLists ==
    ASSUME NEW S, NEW kinds, Scored(S, kinds)
    PROVE  Lists(SortedBy(S, Proposed), S)
<1>1. PICK s, n : s = SortedBy(S, Proposed) /\ n = Cardinality(S)
  OBVIOUS
<1>2. s \in [1 .. n -> S] /\ n \in Nat /\ \A x \in S : \E i \in 1 .. n : s[i] = x
  BY <1>1, ProposedSorts
<1>3. \A i, j \in 1 .. n : i < j => Proposed(s[i], s[j])
  BY <1>1, ProposedSorts
<1>4. s \in Seq(S) /\ Len(s) = n
  BY <1>2
<1>5. ASSUME NEW i \in 1 .. n, NEW j \in 1 .. n, i # j PROVE s[i] # s[j]
  <2>1. i < j \/ j < i
    BY <1>2, <1>5
  <2>2. s[i] \in S /\ s[j] \in S /\ (Proposed(s[i], s[j]) \/ Proposed(s[j], s[i]))
    BY <1>2, <1>3, <2>1
  <2>3. IsBeat(s[i])
    BY <2>2 DEF Scored
  <2>4. ~Proposed(s[i], s[i])
    BY <2>3, ProposedOrders
  <2>5. QED
    BY <2>2, <2>4
<1>6. IsFiniteSet(S)
  BY DEF Scored
<1>7. Lists(s, S)
  BY <1>1, <1>2, <1>4, <1>5, <1>6 DEF Lists
<1>8. QED
  BY <1>1, <1>7

(* The best of the body. *)
BestOf(S, room) ==
    LET body == SortedBy(S, Preferred) IN {body[i] : i \in {i \in DOMAIN body : i <= room}}

LEMMA BestIs ==
    ASSUME NEW S, NEW kinds, Scored(S, kinds), NEW room \in Nat
    PROVE  /\ BestOf(S, room) \subseteq S
           /\ Cardinality(BestOf(S, room)) \in Nat /\ Cardinality(BestOf(S, room)) <= room
           /\ \A c \in S \ BestOf(S, room) :
                 /\ Cardinality(BestOf(S, room)) = room
                 /\ \A b \in BestOf(S, room) : b.score >= c.score
<1>1. PICK s, n, k : s = SortedBy(S, Preferred) /\ n = Cardinality(S) /\ k = Smaller(n, room)
  OBVIOUS
<1>2. PICK best : best = BestOf(S, room)
  OBVIOUS
<1>3. s \in [1 .. n -> S] /\ n \in Nat /\ \A x \in S : \E i \in 1 .. n : s[i] = x
  BY <1>1, PreferredSorts
<1>4. \A i, j \in 1 .. n : i < j => Preferred(s[i], s[j])
  BY <1>1, PreferredSorts
<1>5. k \in Nat /\ k <= room /\ k <= n /\ (k = room \/ k = n) /\ 1 .. k \subseteq 1 .. n
  BY <1>1, <1>3 DEF Smaller
<1>6. \A i \in 1 .. n : i <= room <=> i \in 1 .. k
  BY <1>1, <1>3 DEF Smaller
<1>7. best = {s[i] : i \in {i \in 1 .. n : i <= room}}
  BY <1>1, <1>2, <1>3 DEF BestOf
<1>8. \A x : x \in best <=> \E i \in 1 .. k : x = s[i]
  BY <1>5, <1>6, <1>7
<1>9. \A i, j \in 1 .. n : i # j => s[i] # s[j]
  <2>1. Lists(s, S) /\ Len(s) = n
    BY <1>1, <1>3, PreferredLists
  <2>2. QED
    BY <2>1 DEF Lists
<1>10. Cardinality(best) = k
  <2>1. PICK f : f = [i \in 1 .. k |-> s[i]]
    OBVIOUS
  <2>2. f \in [1 .. k -> best] /\ \A i \in 1 .. k : f[i] = s[i]
    BY <1>8, <2>1
  <2>3. f \in Bijection(1 .. k, best)
    <3>1. IsInjective(f)
      BY <1>5, <1>9, <2>2 DEF IsInjective
    <3>2. f \in Surjection(1 .. k, best)
      BY <1>8, <2>2 DEF Surjection
    <3>3. f \in Injection(1 .. k, best)
      BY <2>2, <3>1 DEF Injection
    <3>4. QED
      BY <3>2, <3>3 DEF Bijection
  <2>4. IsFiniteSet(1 .. k) /\ Cardinality(1 .. k) = k
    <3>1. 1 \in Int /\ k \in Int /\ (1 > k <=> k = 0) /\ k - 1 + 1 = k
      BY <1>5
    <3>2. QED
      BY <3>1, FS_Interval
  <2>5. QED
    BY <2>3, <2>4, FS_Bijection DEF ExistsBijection
<1>11. ASSUME NEW c \in S \ best
       PROVE  k = room /\ \A b \in best : b.score >= c.score
  <2>1. PICK j \in 1 .. n : s[j] = c
    BY <1>3
  <2>2. j \notin 1 .. k
    BY <1>8, <1>11, <2>1
  <2>3. k = room
    BY <1>5, <2>1, <2>2
  <2>4. ASSUME NEW b \in best PROVE b.score >= c.score
    <3>1. PICK i \in 1 .. k : b = s[i]
      BY <1>8
    <3>2. i \in 1 .. n /\ i < j
      BY <1>5, <2>1, <2>2
    <3>3. Preferred(b, c) /\ b \in S
      BY <1>3, <1>4, <2>1, <3>1, <3>2
    <3>4. b.score \in Int /\ c.score \in Int
      BY <3>3 DEF Scored, IsBeat
    <3>5. QED
      BY <3>3, <3>4 DEF Preferred
  <2>5. QED
    BY <2>3, <2>4
<1>12. best \subseteq S
  BY <1>3, <1>5, <1>8
<1>13. QED
  BY <1>2, <1>5, <1>10, <1>11, <1>12

(* There is one open, and one recap. *)
LEMMA AtMostOne ==
    ASSUME NEW S, NEW kinds, Scored(S, kinds), NEW k \in {"open", "recap"}, \A b \in S : b.kind = k
    PROVE  Cardinality(S) \in Nat /\ Cardinality(S) <= 1 /\ (S # {} => Cardinality(S) = 1)
<1>1. CASE S = {}
  <2>1. Cardinality(S) = 0
    BY <1>1, FS_EmptySet
  <2>2. QED
    BY <1>1, <2>1
<1>2. CASE S # {}
  <2>1. PICK b \in S : TRUE
    BY <1>2
  <2>2. \A c \in S : IsBeat(c) /\ c.n = 0
    BY DEF Scored, IsBeat, IsAnchor
  <2>3. \A c \in S : c = b
    BY <2>2 DEF Scored
  <2>4. S = {b}
    BY <2>3
  <2>5. Cardinality(S) = 1
    BY <2>4, FS_Singleton
  <2>6. QED
    BY <2>5
<1>3. QED
  BY <1>1, <1>2

LEMMA ConcatAt ==
    ASSUME NEW D, NEW s \in Seq(D), NEW t \in Seq(D), NEW m, m = Len(s), NEW n, n = Len(t)
    PROVE  /\ s \o t \in Seq(D) /\ Len(s \o t) = m + n /\ m \in Nat /\ n \in Nat
           /\ \A i \in 1 .. m : (s \o t)[i] = s[i] /\ i \in 1 .. m + n
           /\ \A i \in 1 .. n : (s \o t)[m + i] = t[i]
  OBVIOUS

(* What _select makes of the beats that are left: the anchors at the ends,  *)
(* and between them as many of the others as there is room for, the best.  *)
ToldOf(L, D) ==
    LET anchors == {b \in D : IsAnchor(b)} IN
    /\ L \in Seq(D) /\ \A i, j \in 1 .. Len(L) : i # j => L[i] # L[j]
    /\ anchors \subseteq ToSet(L)
    /\ (\E b \in D : b.kind = "open") => L # <<>> /\ L[1].kind = "open"
    /\ (\E b \in D : b.kind = "recap") => L # <<>> /\ Last(L).kind = "recap"
    /\ Len(L) <= Larger(Th.targetMax, 2)
    /\ \A c \in D \ ToSet(L) :
          /\ Len(L) >= Th.targetMax
          /\ \A b \in ToSet(L) : IsAnchor(b) \/ b.score >= c.score

LEMMA SelectIs ==
    ASSUME NEW beats, NEW D, D = ToSet(beats), Scored(D, BeatKinds)
    PROVE  ToldOf(Select(beats), D)
<1>1. PICK anchors, S, O, E :
         /\ anchors = {b \in D : IsAnchor(b)} /\ S = D \ anchors
         /\ O = {b \in anchors : b.kind = "open"} /\ E = {b \in anchors : b.kind = "recap"}
  OBVIOUS
<1>2. PICK room, best : room = RoomFor(anchors) /\ best = BestOf(S, room)
  OBVIOUS
<1>3. PICK o, m, e : /\ o = SortedBy(O, Proposed) /\ m = SortedBy(best, Sooner)
                     /\ e = SortedBy(E, Proposed)
  OBVIOUS
<1>4. Select(beats) = (o \o m) \o e
  BY <1>1, <1>2, <1>3 DEF Select, BestOf
<1>5. S \subseteq D /\ O \subseteq D /\ E \subseteq D /\ anchors = O \cup E /\ O \cap E = {}
  BY <1>1 DEF IsAnchor
<1>6. Scored(S, BeatKinds) /\ Scored(O, BeatKinds) /\ Scored(E, BeatKinds)
  BY <1>5, ScoredSome
<1>7. /\ Cardinality(O) \in Nat /\ Cardinality(O) <= 1 /\ (O # {} => Cardinality(O) = 1)
      /\ Cardinality(E) \in Nat /\ Cardinality(E) <= 1 /\ (E # {} => Cardinality(E) = 1)
  <2>1. (\A b \in O : b.kind = "open") /\ (\A b \in E : b.kind = "recap")
    BY <1>1
  <2>2. QED
    BY <1>6, <2>1, AtMostOne
<1>8. Cardinality(anchors) = Cardinality(O) + Cardinality(E)
  <2>1. IsFiniteSet(O) /\ IsFiniteSet(E)
    BY <1>6 DEF Scored
  <2>2. Cardinality(O \cup E) = Cardinality(O) + Cardinality(E) - Cardinality(O \cap E)
    BY <2>1, FS_Union
  <2>3. Cardinality(O \cap E) = 0
    BY <1>5, FS_EmptySet
  <2>4. QED
    BY <1>5, <1>7, <2>2, <2>3
<1>9. /\ room \in Nat /\ (room = Th.targetMax - Cardinality(anchors) \/ room = 0)
      /\ room >= Th.targetMax - Cardinality(anchors) /\ Th.targetMax \in Nat
  <2>1. Th.targetMax \in Nat /\ Cardinality(anchors) \in Nat
    BY <1>7, <1>8, ThTypes
  <2>2. PICK x, y : x = Th.targetMax /\ y = Cardinality(anchors)
    OBVIOUS
  <2>3. room = Larger(0, x - y) /\ x \in Nat /\ y \in Nat
    BY <1>2, <2>1, <2>2 DEF RoomFor
  <2>4. room \in Nat /\ (room = x - y \/ room = 0) /\ room >= x - y
    BY <2>3 DEF Larger
  <2>5. QED
    BY <2>1, <2>2, <2>4
<1>10. /\ best \subseteq S /\ Cardinality(best) \in Nat /\ Cardinality(best) <= room
       /\ \A c \in S \ best : Cardinality(best) = room /\ \A b \in best : b.score >= c.score
  BY <1>2, <1>6, <1>9, BestIs
<1>11. Lists(o, O) /\ Lists(m, best) /\ Lists(e, E)
  <2>1. Scored(best, BeatKinds)
    BY <1>6, <1>10, ScoredSome
  <2>2. Lists(o, O) /\ Lists(e, E)
    BY <1>3, <1>6, ProposedLists
  <2>3. Lists(m, best)
    BY <1>3, <2>1, SoonerLists
  <2>4. QED
    BY <2>2, <2>3
<1>12. PICK L : L = (o \o m) \o e
  OBVIOUS
<1>13. Lists(L, (O \cup best) \cup E)
  <2>1. O \cap best = {} /\ (O \cup best) \cap E = {}
    BY <1>1, <1>5, <1>10
  <2>2. Lists(o \o m, O \cup best)
    BY <1>11, <2>1, ListsBoth
  <2>3. QED
    BY <1>11, <1>12, <2>1, <2>2, ListsBoth
<1>14. ToSet(L) = anchors \cup best /\ DOMAIN L = 1 .. Len(L) /\ Len(L) \in Nat
  <2>1. ToSet(L) = (O \cup best) \cup E /\ DOMAIN L = 1 .. Len(L) /\ Len(L) \in Nat
    BY <1>13, ListedSet
  <2>2. QED
    BY <1>5, <2>1
<1>15. PICK x, y, z : x = Len(o) /\ y = Len(m) /\ z = Len(e)
  OBVIOUS
<1>16. /\ x = Cardinality(O) /\ y = Cardinality(best) /\ z = Cardinality(E)
       /\ x \in Nat /\ y \in Nat /\ z \in Nat
  BY <1>7, <1>10, <1>11, <1>15 DEF Lists
<1>17. /\ Len(L) = x + y + z
       /\ \A i \in 1 .. x : L[i] = o[i]
       /\ \A i \in 1 .. z : L[x + y + i] = e[i]
  <2>1. o \in Seq(D) /\ m \in Seq(D) /\ e \in Seq(D)
    <3>1. o \in Seq(O) /\ m \in Seq(best) /\ e \in Seq(E)
      BY <1>11 DEF Lists
    <3>2. O \subseteq D /\ best \subseteq D /\ E \subseteq D
      BY <1>5, <1>10
    <3>3. QED
      BY <3>1, <3>2
  <2>2. o \o m \in Seq(D) /\ Len(o \o m) = x + y
    BY <1>15, <2>1
  <2>3. \A i \in 1 .. x : (o \o m)[i] = o[i] /\ i \in 1 .. x + y
    BY <1>15, <2>1, ConcatAt
  <2>4. PICK om : om = o \o m
    OBVIOUS
  <2>5. om \in Seq(D) /\ Len(om) = x + y /\ L = om \o e
    BY <1>12, <2>2, <2>4
  <2>6. Len(L) = x + y + z /\ (\A i \in 1 .. x + y : L[i] = om[i]) /\ \A i \in 1 .. z : L[x + y + i] = e[i]
    <3>1. PICK w : w = x + y
      OBVIOUS
    <3>2. om \in Seq(D) /\ e \in Seq(D) /\ w = Len(om) /\ z = Len(e)
      BY <1>15, <2>1, <2>5, <3>1
    <3>3. /\ Len(om \o e) = w + z /\ (\A i \in 1 .. w : (om \o e)[i] = om[i])
          /\ \A i \in 1 .. z : (om \o e)[w + i] = e[i]
      BY <3>2, ConcatAt
    <3>4. QED
      BY <2>5, <3>1, <3>3
  <2>7. QED
    BY <2>3, <2>4, <2>6
<1>18. L \in Seq(D) /\ \A i, j \in 1 .. Len(L) : i # j => L[i] # L[j]
  <2>1. (O \cup best) \cup E \subseteq D
    BY <1>5, <1>10
  <2>2. L \in Seq((O \cup best) \cup E) /\ \A i, j \in 1 .. Len(L) : i # j => L[i] # L[j]
    BY <1>13 DEF Lists
  <2>3. QED
    BY <2>1, <2>2
<1>19. ASSUME \E b \in D : b.kind = "open" PROVE L # <<>> /\ L[1].kind = "open"
  <2>1. O # {}
    BY <1>1, <1>19 DEF IsAnchor
  <2>2. x = 1
    BY <1>7, <1>16, <2>1
  <2>3. 1 \in 1 .. x /\ Len(L) >= 1
    BY <1>16, <1>17, <2>2
  <2>4. o \in Seq(O) /\ Len(o) = x
    BY <1>11, <1>15 DEF Lists
  <2>5. o[1] \in O
    BY <2>3, <2>4
  <2>6. L[1] = o[1]
    BY <1>17, <2>3
  <2>7. L # <<>>
    BY <2>3
  <2>8. QED
    BY <1>1, <2>5, <2>6, <2>7
<1>20. ASSUME \E b \in D : b.kind = "recap" PROVE L # <<>> /\ Last(L).kind = "recap"
  <2>1. E # {}
    BY <1>1, <1>20 DEF IsAnchor
  <2>2. z = 1
    BY <1>7, <1>16, <2>1
  <2>3. 1 \in 1 .. z /\ Len(L) >= 1 /\ Len(L) = x + y + 1
    BY <1>16, <1>17, <2>2
  <2>4. e \in Seq(E) /\ Len(e) = z
    BY <1>11, <1>15 DEF Lists
  <2>5. e[1] \in E
    BY <2>3, <2>4
  <2>6. L[Len(L)] = e[1]
    BY <1>17, <2>3
  <2>7. L # <<>>
    BY <2>3
  <2>8. QED
    BY <1>1, <2>5, <2>6, <2>7 DEF Last
<1>21. Len(L) <= Larger(Th.targetMax, 2)
  <2>1. PICK r, t, n : r = room /\ t = Th.targetMax /\ n = Len(L)
    OBVIOUS
  <2>2. n = x + y + z /\ x <= 1 /\ z <= 1 /\ y <= r /\ (r = t - (x + z) \/ r = 0) /\ t \in Nat /\ r \in Nat
    BY <1>7, <1>8, <1>9, <1>10, <1>16, <1>17, <2>1
  <2>3. n <= Larger(t, 2)
    BY <1>16, <2>2 DEF Larger
  <2>4. QED
    BY <2>1, <2>3
<1>22. ASSUME NEW c \in D \ ToSet(L)
       PROVE  Len(L) >= Th.targetMax /\ \A b \in ToSet(L) : IsAnchor(b) \/ b.score >= c.score
  <2>1. c \in S \ best
    BY <1>1, <1>14, <1>22
  <2>2. Cardinality(best) = room /\ \A b \in best : b.score >= c.score
    BY <1>10, <2>1
  <2>3. Len(L) >= Th.targetMax
    <3>1. PICK r, t, n : r = room /\ t = Th.targetMax /\ n = Len(L)
      OBVIOUS
    <3>2. n = x + y + z /\ y = r /\ r >= t - (x + z) /\ t \in Nat /\ r \in Nat
      BY <1>8, <1>9, <1>16, <1>17, <2>2, <3>1
    <3>3. n >= t
      BY <1>16, <3>2
    <3>4. QED
      BY <3>1, <3>3
  <2>4. \A b \in ToSet(L) : IsAnchor(b) \/ b.score >= c.score
    BY <1>1, <1>14, <2>2
  <2>5. QED
    BY <2>3, <2>4
<1>23. {b \in D : IsAnchor(b)} \subseteq ToSet(L)
  BY <1>1, <1>14
<1>24. ToldOf(L, D)
  BY <1>18, <1>19, <1>20, <1>21, <1>22, <1>23 DEF ToldOf
<1>25. QED
  BY <1>4, <1>12, <1>24

(* The list is what the detector makes of the day, in which agents sold    *)
(* only what they held.                                                    *)
DayIsWhole == filled \in Seq(Fills) /\ Len(filled) <= MaxFills /\ rollup \in Int /\ SalesAreHeld

BeatsInv == DayIsWhole /\ (beatList = <<>> \/ beatList = Select(Dedup(Candidates)))

(* The sales of any sequence of fills, to compare those of a day before and after. *)
MovedOf(fills, a, s) ==
    [i \in 1 .. Len(fills) |->
       IF fills[i].agent = a /\ fills[i].symbol = s THEN Signed(fills[i].side, fills[i].qty) ELSE 0]

HeldOf(fills, a, s, k) == SumOf(MovedOf(fills, a, s), 1 .. k)

SoldIsHeld(fills) ==
    \A i \in 1 .. Len(fills) :
       fills[i].side = "sell" => fills[i].qty <= HeldOf(fills, fills[i].agent, fills[i].symbol, i - 1)

LEMMA SalesOf == (SalesAreHeld <=> SoldIsHeld(filled)) /\ (SalesAreHeld' <=> SoldIsHeld(filled'))
  BY DEF SalesAreHeld, SoldIsHeld, Held, HeldOf, Moved, MovedOf

LEMMA BeatsInit_Inv == BeatsInit => BeatsInv
<1> SUFFICES ASSUME BeatsInit PROVE BeatsInv
  OBVIOUS
<1>1. filled = <<>> /\ rollup \in Int /\ beatList = <<>> /\ Len(filled) = 0 /\ MaxFills \in Nat
  BY ThTypes DEF BeatsInit
<1>2. SalesAreHeld
  BY <1>1 DEF SalesAreHeld
<1>3. QED
  BY <1>1, <1>2 DEF BeatsInv, DayIsWhole

LEMMA Trade_Inv == BeatsInv /\ Trade => BeatsInv'
<1> SUFFICES ASSUME BeatsInv, Trade PROVE BeatsInv'
  OBVIOUS
<1>1. filled \in Seq(Fills) /\ Len(filled) <= MaxFills /\ rollup \in Int /\ SalesAreHeld
  BY DEF BeatsInv, DayIsWhole
<1>2. PICK a \in Traders, s \in Traded, side \in Sides, x \in Shapes,
           t \in (IF filled = <<>> THEN 1 ELSE Last(filled).t) .. LastSecond :
         /\ side = "sell" => x.qty <= Holds(a, s)
         /\ filled' = Append(filled, [agent |-> a, symbol |-> s, side |-> side,
                                      qty |-> x.qty, price |-> x.price, t |-> t])
  BY DEF Trade
<1>3. Len(filled) < MaxFills /\ rollup' = rollup /\ beatList' = <<>>
  BY DEF Trade
<1>4. t \in 1 .. LastSecond
  <2>1. CASE filled = <<>>
    BY <1>2, <2>1
  <2>2. CASE filled # <<>>
    <3>1. Last(filled) \in Fills
      <4>1. Len(filled) \in 1 .. Len(filled) /\ DOMAIN filled = 1 .. Len(filled)
        BY <1>1, <2>2
      <4>2. QED
        BY <1>1, <4>1 DEF Last
    <3>2. Last(filled).t \in 1 .. LastSecond
      BY <3>1, FillTypes
    <3>3. QED
      BY <1>2, <2>2, <3>2
  <2>3. QED
    BY <2>1, <2>2
<1>5. PICK f : f = [agent |-> a, symbol |-> s, side |-> side, qty |-> x.qty, price |-> x.price, t |-> t]
  OBVIOUS
<1>6. f \in Fills /\ f.agent = a /\ f.symbol = s /\ f.side = side /\ f.qty = x.qty
  BY <1>4, <1>5 DEF Fills
<1>7. PICK n : n = Len(filled)
  OBVIOUS
<1>8. /\ filled' \in Seq(Fills) /\ Len(filled') = n + 1 /\ n \in Nat /\ n + 1 <= MaxFills
      /\ filled'[n + 1] = f /\ \A i \in 1 .. n : filled'[i] = filled[i]
  <2>1. filled' = Append(filled, f)
    BY <1>2, <1>5
  <2>2. MaxFills \in Nat
    BY ThTypes
  <2>3. QED
    BY <1>1, <1>3, <1>6, <1>7, <2>1, <2>2
<1>9. ASSUME NEW k \in 0 .. n, NEW b, NEW c PROVE HeldOf(filled', b, c, k) = HeldOf(filled, b, c, k)
  <2>1. PICK g, h : g = MovedOf(filled', b, c) /\ h = MovedOf(filled, b, c)
    OBVIOUS
  <2>2. \A i \in 1 .. n : h[i] \in Int
    <3>1. h = Moved(b, c)
      BY <2>1 DEF Moved, MovedOf
    <3>2. QED
      BY <1>1, <1>7, <3>1, MovedType
  <2>3. \A i \in 1 .. n : g[i] = h[i]
    <3> TAKE i \in 1 .. n
    <3>1. i \in 1 .. n + 1
      BY <1>8
    <3>2. g[i] = IF filled'[i].agent = b /\ filled'[i].symbol = c THEN Signed(filled'[i].side, filled'[i].qty) ELSE 0
      BY <1>8, <2>1, <3>1 DEF MovedOf
    <3>3. h[i] = IF filled[i].agent = b /\ filled[i].symbol = c THEN Signed(filled[i].side, filled[i].qty) ELSE 0
      BY <1>7, <2>1 DEF MovedOf
    <3>4. QED
      BY <1>8, <3>2, <3>3
  <2>4. IsFiniteSet(1 .. k) /\ \A i \in 1 .. k : i \in 1 .. n
    <3>1. 1 \in Int /\ k \in Int
      BY <1>8
    <3>2. QED
      BY <1>8, <3>1, FS_Interval
  <2>5. \A i \in 1 .. k : g[i] = h[i] /\ g[i] \in Int
    BY <2>2, <2>3, <2>4
  <2>6. SumOf(g, 1 .. k) = SumOf(h, 1 .. k)
    BY <2>4, <2>5, SumOfSame
  <2>7. QED
    BY <2>1, <2>6 DEF HeldOf
<1>10. SalesAreHeld'
  <2> SUFFICES SoldIsHeld(filled')
    BY SalesOf
  <2> SUFFICES ASSUME NEW i \in 1 .. n + 1, filled'[i].side = "sell"
               PROVE  filled'[i].qty <= HeldOf(filled', filled'[i].agent, filled'[i].symbol, i - 1)
    BY <1>8 DEF SoldIsHeld
  <2>1. i - 1 \in 0 .. n
    BY <1>8
  <2>2. PICK g : g = filled'[i]
    OBVIOUS
  <2>3. HeldOf(filled', g.agent, g.symbol, i - 1) = HeldOf(filled, g.agent, g.symbol, i - 1)
    BY <1>9, <2>1
  <2>4. CASE i \in 1 .. n
    <3>1. filled[i] = g /\ g.side = "sell"
      BY <1>8, <2>2, <2>4
    <3>2. SoldIsHeld(filled)
      BY <1>1, SalesOf
    <3>3. g.qty <= HeldOf(filled, g.agent, g.symbol, i - 1)
      BY <1>7, <2>4, <3>1, <3>2 DEF SoldIsHeld
    <3>4. QED
      BY <2>2, <2>3, <3>3
  <2>5. CASE i = n + 1
    <3>1. g = f /\ i - 1 = n
      BY <1>8, <2>2, <2>5
    <3>2. Holds(a, s) = HeldOf(filled, a, s, n)
      BY <1>1, <1>7, HoldsIsHeld DEF Held, HeldOf, Moved, MovedOf
    <3>3. g.qty <= HeldOf(filled, g.agent, g.symbol, i - 1)
      BY <1>2, <1>6, <2>2, <3>1, <3>2
    <3>4. QED
      BY <2>2, <2>3, <3>3
  <2>6. QED
    BY <1>8, <2>4, <2>5
<1>11. QED
  BY <1>1, <1>3, <1>8, <1>10 DEF BeatsInv, DayIsWhole

(* The candidates are read from the fills and the rollup alone. *)
LEMMA SameDay ==
    ASSUME filled' = filled, rollup' = rollup
    PROVE  Candidates' = Candidates /\ SalesAreHeld' = SalesAreHeld
<1>1. Walk' = Walk
  BY DEF Walk
<1>2. BigFills' = BigFills
  BY DEF BigFills
<1>3. Divergences' = Divergences
  BY DEF Divergences
<1>4. \A a, b, s : Crossed(a, b, s)' = Crossed(a, b, s)
  BY DEF Crossed
<1>5. \A a, b, s : Crossings(a, b, s)' = Crossings(a, b, s)
  BY <1>4 DEF Crossings
<1>6. \A a, b, s : Met(a, b, s)' = Met(a, b, s)
  BY <1>4 DEF Met, FirstFillOf
<1>7. Rivalries' = Rivalries
  BY DEF Rivalries, Crossed, Crossings, Met, FirstFillOf
<1>8. Opening' = Opening /\ ClosingBurst' = ClosingBurst /\ StrategyWar' = StrategyWar
  BY DEF Opening, ClosingBurst, StrategyWar
<1>9. \A agg : Recap(agg)' = Recap(agg)
  BY DEF Recap, FoldSet, MapThenFoldSet
<1>10. \A agg : Streaks(agg)' = Streaks(agg)
  BY DEF Streaks, LastFillOf
<1>11. \A agg : TopMovers(agg)' = TopMovers(agg)
  BY DEF TopMovers, Leads, FirstClose, LastFillOf
<1>12. SalesAreHeld' = SalesAreHeld
  BY DEF SalesAreHeld, Held, Moved
<1>13. QED
  BY <1>1, <1>2, <1>3, <1>7, <1>8, <1>9, <1>10, <1>11, <1>12 DEF Candidates

LEMMA BeatsNext_Inv == BeatsInv /\ [BeatsNext]_beatsVars => BeatsInv'
<1> SUFFICES ASSUME BeatsInv, [BeatsNext]_beatsVars PROVE BeatsInv'
  OBVIOUS
<1>1. CASE Trade
  BY <1>1, Trade_Inv
<1>2. CASE Detect
  <2>1. filled' = filled /\ rollup' = rollup /\ beatList' = Select(Dedup(Candidates))
    BY <1>2 DEF Detect
  <2>2. Candidates' = Candidates /\ SalesAreHeld' = SalesAreHeld
    BY <2>1, SameDay
  <2>3. Select(Dedup(Candidates))' = Select(Dedup(Candidates))
    BY <2>2
  <2>4. DayIsWhole'
    BY <2>1, <2>2 DEF BeatsInv, DayIsWhole
  <2>5. QED
    BY <2>1, <2>3, <2>4 DEF BeatsInv
<1>3. CASE UNCHANGED beatsVars
  <2>1. filled' = filled /\ rollup' = rollup /\ beatList' = beatList
    BY <1>3 DEF beatsVars
  <2>2. Candidates' = Candidates /\ SalesAreHeld' = SalesAreHeld
    BY <2>1, SameDay
  <2>3. Select(Dedup(Candidates))' = Select(Dedup(Candidates))
    BY <2>2
  <2>4. DayIsWhole'
    BY <2>1, <2>2 DEF BeatsInv, DayIsWhole
  <2>5. QED
    BY <2>1, <2>3, <2>4 DEF BeatsInv
<1>4. QED
  BY <1>1, <1>2, <1>3 DEF BeatsNext

LEMMA BeatsInv_Tells == BeatsInv => BeatsTellTheDay /\ BeatsTypeOK
<1> SUFFICES ASSUME BeatsInv PROVE BeatsTellTheDay /\ BeatsTypeOK
  OBVIOUS
<1>1. filled \in Seq(Fills) /\ Len(filled) <= MaxFills /\ rollup \in Int /\ SalesAreHeld
  BY DEF BeatsInv, DayIsWhole
<1>2. WalkIsTheBook
  BY <1>1, WalkMatches
<1>3. CASE beatList = <<>>
  <2>1. DOMAIN beatList = {}
    BY <1>3
  <2>2. QED
    BY <1>1, <1>2, <1>3, <2>1 DEF BeatsTellTheDay, NoTwins, Framed, BestAreTold, BeatsTypeOK
<1>4. CASE beatList # <<>>
  <2>1. PICK C, D, L : C = Candidates /\ D = ToSet(Dedup(C)) /\ L = beatList
    OBVIOUS
  <2>2. L = Select(Dedup(C))
    BY <1>4, <2>1 DEF BeatsInv
  <2>3. /\ Scored(C, BeatKinds) /\ (\E b \in C : b.kind = "open")
        /\ filled # <<>> => \E b \in C : b.kind = "recap"
    BY <1>1, <2>1, CandidatesScored
  <2>4. KeptOf(D, C)
    BY <2>1, <2>3, DedupIs
  <2>5. D \subseteq C /\ \A b \in C : IsBeat(b)
    BY <2>3, <2>4 DEF KeptOf, Scored
  <2>6. ToldOf(L, D)
    <3>1. Scored(D, BeatKinds)
      BY <2>3, <2>5, ScoredSome
    <3>2. QED
      BY <2>1, <2>2, <3>1, SelectIs
  <2>7. /\ L \in Seq(D) /\ DOMAIN L = 1 .. Len(L) /\ Len(L) \in Nat
        /\ \A i \in 1 .. Len(L) : L[i] \in D
        /\ ToSet(L) \subseteq D
    <3>1. L \in Seq(D)
      BY <2>6 DEF ToldOf
    <3>2. QED
      BY <3>1 DEF ToSet
  <2>8. NoTwins
    <3> SUFFICES ASSUME NEW i \in DOMAIN L, NEW j \in DOMAIN L, i # j PROVE ~Twins(L[i], L[j])
      BY <2>1 DEF NoTwins
    <3>1. L[i] \in D /\ L[j] \in D /\ L[i] # L[j]
      BY <2>6, <2>7 DEF ToldOf
    <3>2. IsBeat(L[i]) /\ IsBeat(L[j]) /\ ~Collide(L[i], L[j])
      BY <2>4, <2>5, <3>1 DEF KeptOf
    <3>3. QED
      BY <3>2, CollideIs
  <2>9. Framed
    <3>1. /\ \E b \in D : b.kind = "open"
          /\ filled # <<>> => \E b \in D : b.kind = "recap"
      BY <2>3, <2>4 DEF KeptOf, IsAnchor
    <3>2. QED
      BY <2>1, <2>6, <3>1 DEF Framed, ToldOf
  <2>10. BestAreTold
    <3> SUFFICES ASSUME NEW c \in C \ ToSet(L)
                 PROVE  \/ \E b \in ToSet(L) : Twins(b, c) /\ b.score >= c.score
                        \/ /\ Len(L) >= Th.targetMax
                           /\ \A b \in ToSet(L) : IsAnchor(b) \/ b.score >= c.score
      BY <2>1 DEF BestAreTold
    <3>1. CASE c \in D
      <4>1. c \in D \ ToSet(L)
        BY <3>1
      <4>2. QED
        BY <2>6, <4>1 DEF ToldOf
    <3>2. CASE c \notin D
      <4>1. PICK p \in D : Collide(p, c) /\ p.score >= c.score
        BY <2>4, <3>2 DEF KeptOf
      <4>2. IsBeat(p) /\ IsBeat(c)
        BY <2>5, <4>1
      <4>3. Twins(p, c)
        BY <4>1, <4>2, CollideIs
      <4>4. CASE p \in ToSet(L)
        BY <4>1, <4>3, <4>4
      <4>5. CASE p \notin ToSet(L)
        <5>1. Len(L) >= Th.targetMax /\ \A b \in ToSet(L) : IsAnchor(b) \/ b.score >= p.score
          BY <2>6, <4>5 DEF ToldOf
        <5>2. \A b \in ToSet(L) : b.score \in Int
          BY <2>5, <2>7, BeatKeys
        <5>3. p.score \in Int /\ c.score \in Int
          BY <4>2, BeatKeys
        <5>4. \A b \in ToSet(L) : IsAnchor(b) \/ b.score >= c.score
          BY <4>1, <5>1, <5>2, <5>3
        <5>5. QED
          BY <5>1, <5>4
      <4>6. QED
        BY <4>4, <4>5
    <3>3. QED
      BY <3>1, <3>2
  <2>11. BeatsTypeOK
    <3>1. \A i \in DOMAIN L : IsBeat(L[i])
      BY <2>5, <2>7
    <3>2. QED
      BY <1>1, <2>1, <3>1 DEF BeatsTypeOK, IsBeat
  <2>12. QED
    BY <1>2, <2>8, <2>9, <2>10, <2>11 DEF BeatsTellTheDay
<1>5. QED
  BY <1>3, <1>4

(* Whatever is filled in whatever order, and whatever the thresholds: the  *)
(* beats of a session (session/beats.py) tell the same moment once, stand  *)
(* between open and recap within the number asked for, leave out only what *)
(* a twin or a full list of beats outscores, and the detector's walk over  *)
(* the fills realizes what the books do.                                   *)
THEOREM BeatsTellTheDayHolds == BeatsSpec => []BeatsTellTheDay
<1>1. BeatsInv => BeatsTellTheDay
  BY BeatsInv_Tells
<1>2. QED
  BY BeatsInit_Inv, BeatsNext_Inv, <1>1, PTL DEF BeatsSpec

-------------------------------------------------------------------------------
(* The types of all. *)
(* The rest of the types of the runs, with the capacity of the cache. *)
LoopsAndCache ==
    /\ closed \in BOOLEAN /\ up \in BOOLEAN
    /\ vodLoop \in {"down", "polling", "asleep"} /\ podLoop \in {"down", "polling", "asleep"}
    /\ cache \in Seq(RunIds) /\ Len(cache) <= CacheSize

LEMMA LoopsInit == ASSUME Init PROVE LoopsAndCache
<1>1. CacheSize \in Nat
  BY PipelineRunsAssumption
<1>2. <<>> \in Seq(RunIds) /\ Len(<<>>) <= CacheSize
  BY <1>1
<1>3. QED
  BY <1>2 DEF Init, LoopsAndCache

LEMMA LoopsNext == ASSUME RunsInv, LoopsAndCache, [Next]_vars PROVE LoopsAndCache'
<1> USE DEF LoopsAndCache
<1>1. CASE Boot
  BY <1>1 DEF Boot, clockVars
<1>2. CASE Crash
  <2>1. CacheSize \in Nat /\ cache' = <<>>
    BY <1>2, PipelineRunsAssumption DEF Crash
  <2>2. cache' \in Seq(RunIds) /\ Len(cache') <= CacheSize
    BY <2>1
  <2>3. QED
    BY <1>2, <2>2 DEF Crash, clockVars, procVars
<1>3. CASE FireVod
  BY <1>3 DEF FireVod, clockVars, procVars
<1>4. CASE FirePodcast
  BY <1>4 DEF FirePodcast, clockVars, procVars
<1>5. CASE RunStarts
  BY <1>5 DEF RunStarts, clockVars, procVars, loops
<1>6. CASE RunEnds \/ RunSaved
  BY <1>6 DEF RunEnds, RunSaved, clockVars, procVars, loops
<1>7. CASE MarketCloses
  BY <1>7 DEF MarketCloses, procVars, loops
<1>8. CASE NextDay
  BY <1>8 DEF NextDay, procVars
<1>9. ASSUME NEW date \in {day, NoDate}, StartHttpRun(date) PROVE LoopsAndCache'
  <2>1. cache' = Capped(<<created + 1>> \o cache) /\ UNCHANGED <<clockVars, procVars, loops>>
    BY <1>9 DEF StartHttpRun
  <2>2. created + 1 \in RunIds
    BY <1>9, Calendar DEF StartHttpRun, RunsInv, RunTypes, RunIds
  <2>3. <<created + 1>> \o cache \in Seq(RunIds)
    BY <2>2
  <2>4. cache' \in Seq(RunIds) /\ Len(cache') <= CacheSize
    BY <2>1, <2>3, CappedFits
  <2>5. QED
    BY <2>1, <2>4 DEF clockVars, procVars, loops
<1>10. CASE UNCHANGED vars
  BY <1>10 DEF vars, clockVars, procVars, loops
<1>11. QED
  BY <1>1, <1>2, <1>3, <1>4, <1>5, <1>6, <1>7, <1>8, <1>9, <1>10 DEF Next

LEMMA RunsTypes == ASSUME RunsInv, LoopsAndCache PROVE TypeOK
  BY DEF RunsInv, RunTypes, LoopsAndCache, TypeOK

LEMMA SessionTypes == ASSUME SessionInv PROVE SessionTypeOK
<1>1. /\ runner \in [Runners -> RunnerType] /\ tradeRows \subseteq RowType
      /\ interns \subseteq Cast /\ lived \in 0 .. MaxLive
  BY DEF SessionInv
<1>2. \A p \in Runners : Cardinality(runner[p].cast) <= WatchCount
  BY DEF SessionInv, CastIsLowest
<1>3. ASSUME NEW p \in Runners
      PROVE  /\ runner[p].at \in {"new", "refused", "replay", "merge", "done", "failed", "dead"}
             /\ runner[p].turn \in 1 .. CastSize + 1 /\ runner[p].long \subseteq Cast
             /\ ToSet(runner[p].days) \subseteq OpenDays
  <2>1. runner[p] \in RunnerType
    BY <1>1
  <2>2. runner[p].days \in Seq(OpenDays)
    BY <2>1 DEF RunnerType
  <2>3. ToSet(runner[p].days) \subseteq OpenDays
    BY <2>2 DEF ToSet
  <2>4. QED
    BY <2>1, <2>3 DEF RunnerType
<1>4. \A x \in tradeRows : x.sid \in Sids \cup {Live} /\ x.by \in Runners \cup {Live} /\ x.agent \in Cast
  BY <1>1 DEF RowType
<1>5. QED
  BY <1>1, <1>2, <1>3, <1>4 DEF SessionTypeOK

LEMMA PodTypes == ASSUME PodInv PROVE PodcastTypeOK
<1>1. PodType /\ WritesParts /\ \A c \in Composers : Cardinality(composer[c].week.told) <= DaySegments
  BY DEF PodInv, ToldFits
<1>2. ToSet(Stages) = Files /\ ToSet(Stages) \ {"script", "meta"} = Parts
  <2>1. ToSet(Stages) = {"script", "voice", "card", "teasers", "episode", "meta"}
    BY DEF Stages, ToSet
  <2>2. QED
    BY <2>1 DEF Files, Parts
<1>3. replayed \subseteq Replays /\ rollups \in 0 .. MaxRollups /\ DOMAIN shelf = ToSet(Stages)
  BY <1>1, <1>2 DEF PodType
<1>4. ASSUME NEW f \in DOMAIN shelf PROVE shelf[f] = Absent \/ shelf[f].by \in Composers
  <2>1. f = "script" \/ f = "meta" \/ f \in Parts
    BY <1>2, <1>3 DEF Files
  <2>2. shelf[f] \in {Absent} \cup ScriptFile \cup MetaFile \cup PartFile
    BY <1>1, <2>1 DEF PodType
  <2>3. QED
    BY <2>2 DEF ScriptFile, MetaFile, PartFile
<1>5. ASSUME NEW c \in Composers
      PROVE  /\ composer[c].at \in {"new", "drafted", "done", "broken"} \cup ToSet(Stages)
             /\ composer[c].writing => composer[c].at \in ToSet(Stages) \ {"script", "meta"}
             /\ Cardinality(composer[c].week.told) <= DaySegments
  <2>1. composer[c] \in ComposerType
    BY <1>1 DEF PodType
  <2>2. composer[c].at \in {"new", "drafted", "done", "broken"} \cup Files
    BY <2>1 DEF ComposerType
  <2>3. QED
    BY <1>1, <1>2, <2>2 DEF WritesParts
<1>6. ASSUME NEW u \in Uploaders PROVE uploader[u].at \in {"new", "sending", "sent", "done", "failed"}
  BY <1>1 DEF PodType, UploaderType
<1>7. \A v \in channel : v.from \in Composers /\ v.name \in Uploaders
  BY <1>1 DEF PodType
<1>8. QED
  BY <1>3, <1>4, <1>5, <1>6, <1>7 DEF PodcastTypeOK

(* One part runs, and the three others stay where they start. *)
ProductionInv == RunsInv /\ LoopsAndCache /\ SessionInv /\ BeatsInv /\ PodInv

LEMMA ProductionInit_Inv == ProductionInit => ProductionInv
  BY RunsInit_Inv, LoopsInit, SessionInit_Inv, BeatsInit_Inv, PodInit_Inv
     DEF ProductionInit, ProductionInv

LEMMA ProductionNext_Inv == ProductionInv /\ [ProductionNext]_productionVars => ProductionInv'
<1> SUFFICES ASSUME ProductionInv, [ProductionNext]_productionVars PROVE ProductionInv'
  OBVIOUS
<1>1. RunsInv /\ LoopsAndCache /\ SessionInv /\ BeatsInv /\ PodInv
  BY DEF ProductionInv
<1>2. /\ Next \/ UNCHANGED vars
      /\ SessionNext \/ UNCHANGED sessionVars
      /\ BeatsNext \/ UNCHANGED beatsVars
      /\ PodcastNext \/ UNCHANGED podVars
  BY DEF ProductionNext, productionVars, runsVars
<1>3. RunsInv' /\ LoopsAndCache'
  BY <1>1, <1>2, RunsNext_Inv, RunsStutter_Inv, LoopsNext
<1>4. SessionInv'
  BY <1>1, <1>2, SessionNext_Inv, SessionStutter_Inv
<1>5. BeatsInv'
  BY <1>1, <1>2, BeatsNext_Inv
<1>6. PodInv'
  BY <1>1, <1>2, PodNext_Inv, PodStutter_Inv
<1>7. QED
  BY <1>3, <1>4, <1>5, <1>6 DEF ProductionInv

(* Every variable of the studio keeps its type: the cache of runs stays    *)
(* within its capacity (api/pipeline.py), a runner's cast within the       *)
(* watched few (session/run.py), a beat's score within 0 to 100            *)
(* (session/beats.py), and the told sessions of an episode within the      *)
(* segments of its script (render/podcast.py).                             *)
THEOREM ProductionTypeOKHolds == ProductionSpec => []ProductionTypeOK
<1>1. ProductionInv => ProductionTypeOK
  BY RunsTypes, SessionTypes, BeatsInv_Tells, PodTypes DEF ProductionInv, ProductionTypeOK
<1>2. QED
  BY ProductionInit_Inv, ProductionNext_Inv, <1>1, PTL DEF ProductionSpec
==============================================================================
