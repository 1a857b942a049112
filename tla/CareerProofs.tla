----------------------------- MODULE CareerProofs -----------------------------
(***************************************************************************)
(* Proofs about RiskExits, Academy, JournalNotes and BookSettlement, for   *)
(* any prices, thresholds, agents, outcomes, orders and faults.  MCCareer  *)
(* puts the four side by side, for the types of all variables.             *)
(*                                                                         *)
(* The peak of a position is right because a position starts without one:  *)
(* Aligned says what the history variable holds before the first seed.     *)
(* Ranks stay put during a tick because a pass of the loop holds the lock  *)
(* of the ticks from its start to its last change, and are earned because  *)
(* no outcome comes meanwhile: what the pass has decided stays justified   *)
(* (RanksInv).  Both theorems are about a program in which only the loop   *)
(* runs passes; the run of the endpoint shows that the first fails with    *)
(* POST /academy/evaluate.                                                 *)
(*                                                                         *)
(* Outcomes and realized P&L differ by what a close is yet to stamp.       *)
(*                                                                         *)
(* Fills and their reports, in the order in which the scheduler produces   *)
(* them, neither make nor lose money: a book is worth its capital at cost, *)
(* whatever the fills' sizes.  And the book is the one that the fills make *)
(* at the best prices known: the values that a replay of them passes       *)
(* through are a function c, and a correction moves c from its fill on.    *)
(***************************************************************************)
EXTENDS MCCareer, VirtualBookProofs, FoldProofs, SequenceTheorems

-------------------------------------------------------------------------------
(* A seeded peak is the best seen, and before the seed nothing was seen.   *)
Aligned ==
    held # 0 =>
        IF seeded = "this" THEN peak = best /\ best # 0 ELSE best = 0

PeakInv == ExitsTypeOK /\ Aligned

LEMMA HigherInMarks ==
    ASSUME NEW a \in Marks \cup {0}, NEW b \in Marks
    PROVE  Higher(a, b) \in Marks
<1>1. Marks \subseteq Nat \ {0}
  BY RiskExitsAssumption
<1>2. a = 0 => ~(a > b)
  BY <1>1
<1>3. QED
  BY <1>2 DEF Higher

LEMMA Seeded_InMarks ==
    ASSUME ExitsTypeOK
    PROVE  Seeded \in Marks \cup {0}
  BY DEF ExitsTypeOK, Seeded

(* Whether or not a check gets to the trailing rule, the peak stays right. *)
LEMMA Track_Inv ==
    ASSUME PeakInv, held # 0, NEW mark \in Marks, NEW fired, Track(mark, fired), held' = held
    PROVE  {peak', best'} \subseteq Marks \cup {0} /\ seeded' \in {"never", "this", "earlier"} /\ Aligned'
<1>1. CASE ~Tracks(fired)
  BY <1>1 DEF PeakInv, ExitsTypeOK, Aligned, Track
<1>2. CASE Tracks(fired)
  <2>1. /\ peak' = Higher(Seeded, mark) /\ seeded' = "this"
        /\ best' = Higher(IF best = 0 THEN held ELSE best, mark)
    BY <1>2 DEF Track
  <2>2. Seeded = IF best = 0 THEN held ELSE best
    BY DEF PeakInv, Aligned, Seeded
  <2>3. peak' = best' /\ peak' \in Marks
    BY <2>1, <2>2, Seeded_InMarks, HigherInMarks DEF PeakInv
  <2>4. best' # 0
    BY <2>3, RiskExitsAssumption
  <2>5. QED
    BY <2>1, <2>3, <2>4 DEF Aligned
<1>3. QED
  BY <1>1, <1>2

LEMMA Closes_Inv ==
    ASSUME Closes
    PROVE  PeakInv'
<1>1. MaxHold \in Nat
  BY RiskExitsAssumption
<1>2. 0 \in 0 .. MaxHold
  BY <1>1
<1>3. QED
  BY <1>2 DEF Closes, ClearPeak, PeakInv, ExitsTypeOK, Aligned

LEMMA ExitsInit_Inv == ExitsInit => PeakInv
<1>1. MaxHold \in Nat
  BY RiskExitsAssumption
<1>2. 0 \in 0 .. MaxHold
  BY <1>1
<1>3. QED
  BY <1>2 DEF ExitsInit, PeakInv, ExitsTypeOK, Aligned

LEMMA ExitsNext_Inv == PeakInv /\ [ExitsNext]_exitVars => PeakInv'
<1> SUFFICES ASSUME PeakInv, [ExitsNext]_exitVars PROVE PeakInv'
  OBVIOUS
<1>0. MaxHold \in Nat /\ Marks \subseteq Nat \ {0}
  BY RiskExitsAssumption
<1>1. CASE PendingExpires
  BY <1>1 DEF PendingExpires, PeakInv, ExitsTypeOK, Aligned
<1>2. CASE DayPasses
  <2>1. daysHeld' \in 0 .. MaxHold
    BY <1>0, <1>2 DEF DayPasses, PeakInv, ExitsTypeOK
  <2>2. QED
    BY <1>2, <2>1 DEF DayPasses, PeakInv, ExitsTypeOK, Aligned
<1>3. CASE RankChanges
  BY <1>3 DEF RankChanges, ClearPeak, PeakInv, ExitsTypeOK, Aligned
<1>4. ASSUME NEW mark \in Marks, TickHolds(mark) PROVE PeakInv'
  <2>1. CASE Closes
    BY <2>1, Closes_Inv
  <2>2. CASE Track(mark, "none") /\ UNCHANGED <<held, daysHeld, pendingExit>>
    <3>1. held # 0
      BY <1>4 DEF TickHolds
    <3>2. {peak', best'} \subseteq Marks \cup {0} /\ seeded' \in {"never", "this", "earlier"} /\ Aligned'
      BY <2>2, <3>1, Track_Inv
    <3>3. QED
      BY <2>2, <3>2 DEF PeakInv, ExitsTypeOK
  <2>3. QED
    BY <1>4, <2>1, <2>2 DEF TickHolds
<1>5. ASSUME NEW mark \in Marks, TickExits(mark) PROVE PeakInv'
  BY <1>5, Closes_Inv DEF TickExits
<1>6. ASSUME NEW mark \in Marks, TickExitRefused(mark) PROVE PeakInv'
  <2>1. {peak', best'} \subseteq Marks \cup {0} /\ seeded' \in {"never", "this", "earlier"} /\ Aligned'
    BY <1>6, Track_Inv DEF TickExitRefused
  <2>2. QED
    BY <1>6, <2>1 DEF TickExitRefused, PeakInv, ExitsTypeOK
<1>7. ASSUME NEW mark \in Marks, TickEnters(mark) PROVE PeakInv'
  <2>1. seeded' \in {"never", "earlier"}
    BY <1>7 DEF TickEnters, PeakInv, ExitsTypeOK
  <2>2. 0 \in 0 .. MaxHold
    BY <1>0
  <2>3. QED
    BY <1>7, <2>1, <2>2 DEF TickEnters, PeakInv, ExitsTypeOK, Aligned
<1>8. ASSUME NEW price \in Marks, EntryCorrected(price) PROVE PeakInv'
  BY <1>0, <1>8 DEF EntryCorrected, PeakInv, ExitsTypeOK, Aligned
<1>9. CASE UNCHANGED exitVars
  BY <1>9 DEF exitVars, PeakInv, ExitsTypeOK, Aligned
<1>10. QED
  BY <1>1, <1>2, <1>3, <1>4, <1>5, <1>6, <1>7, <1>8, <1>9 DEF ExitsNext

(* The trailing peak is of the position held and of no other, in every     *)
(* order of ticks, refusals, corrections and changes of rank.              *)
THEOREM PeakIsOfThisPositionHolds == ExitsSpec => []PeakIsOfThisPosition
<1>1. PeakInv => PeakIsOfThisPosition
  BY DEF PeakInv, Aligned, PeakIsOfThisPosition
<1>2. QED
  BY <1>1, ExitsInit_Inv, ExitsNext_Inv, PTL DEF ExitsSpec

-------------------------------------------------------------------------------
(* A pass has the lock of the ticks for as long as it lasts. *)
Locked ==
    /\ DOMAIN pass = Callers
    /\ \A c \in Callers : pass[c].step # "idle" => tickLock = "loop"

FaultsCounted == academyFaults \in Nat
OnlyTheLoop == Callers \subseteq {"loop"}

LEMMA LockedInit == AcademyInit => Locked /\ FaultsCounted
  BY DEF AcademyInit, Locked, NoPass, FaultsCounted

LEMMA FaultsCountedStep == FaultsCounted /\ [AcademyNext]_academyVars => FaultsCounted'
<1>1. ASSUME FaultsCounted, NEW f, Fault(f) PROVE FaultsCounted'
  BY <1>1 DEF Fault, FaultsCounted
<1>2. ASSUME FaultsCounted, UNCHANGED academyFaults PROVE FaultsCounted'
  BY <1>2, Zenon DEF FaultsCounted
<1>3. [AcademyNext]_academyVars => UNCHANGED academyFaults \/ \E f : Fault(f)
  BY DEF AcademyNext, TickTakesLock, TickReleasesLock, TickStampsOutcome, PassStarts, Evaluate,
         SetRank, RebuildRisk, AcademyRestarts, academyVars
<1>4. QED
  BY <1>1, <1>2, <1>3

(* A step that leaves the lock where a pass holds it. *)
LEMMA LockKept ==
    ASSUME tickLock = "loop", tickLock' = tickLock, DOMAIN pass' = Callers
    PROVE  Locked'
  BY DEF Locked

LEMMA PassOver ==
    ASSUME OnlyTheLoop, Locked, NEW c \in Callers, tickLock = "loop", NEW todo,
           pass' = [pass EXCEPT ![c] = Rest(c, todo)], tickLock' = Released(c, todo)
    PROVE  Locked'
<1>1. c = "loop" /\ DOMAIN pass' = Callers
  BY DEF OnlyTheLoop, Locked
<1>2. CASE todo = <<>>
  <2>1. pass'[c] = NoPass
    BY <1>2 DEF Rest, Locked
  <2>2. \A d \in Callers : pass'[d].step = "idle"
    BY <1>1, <2>1 DEF OnlyTheLoop, NoPass
  <2>3. QED
    BY <1>1, <2>2 DEF Locked
<1>3. CASE todo # <<>>
  BY <1>1, <1>3, LockKept DEF Released
<1>4. QED
  BY <1>2, <1>3

LEMMA LockedStep ==
    ASSUME OnlyTheLoop, Locked, [AcademyNext]_academyVars
    PROVE  Locked'
<1>1. CASE TickTakesLock
  BY <1>1 DEF TickTakesLock, Locked
<1>2. CASE TickReleasesLock
  BY <1>2 DEF TickReleasesLock, Locked
<1>3. ASSUME NEW a \in Agents, NEW pnl \in PnLs, TickStampsOutcome(a, pnl) PROVE Locked'
  BY <1>3 DEF TickStampsOutcome, Locked
<1>4. ASSUME NEW c \in Callers, PassStarts(c) PROVE Locked'
  <2>1. tickLock' = "loop" /\ DOMAIN pass' = Callers
    BY <1>4 DEF PassStarts, OnlyTheLoop, Locked
  <2>2. QED
    BY <2>1 DEF Locked
<1>5. ASSUME NEW c \in Callers, Evaluate(c) PROVE Locked'
  <2>1. tickLock = "loop"
    BY <1>5 DEF Evaluate, Locked
  <2>2. PICK todo : \/ tickLock' = tickLock /\ DOMAIN pass' = Callers
                    \/ pass' = [pass EXCEPT ![c] = Rest(c, todo)] /\ tickLock' = Released(c, todo)
    BY <1>5 DEF Evaluate, Locked
  <2>3. QED
    BY <2>1, <2>2, LockKept, PassOver
<1>6. ASSUME NEW c \in Callers, SetRank(c) PROVE Locked'
  <2>1. tickLock = "loop" /\ tickLock' = tickLock /\ DOMAIN pass' = Callers
    BY <1>6 DEF SetRank, Locked
  <2>2. QED
    BY <2>1, LockKept
<1>7. ASSUME NEW c \in Callers, RebuildRisk(c) PROVE Locked'
  <2>1. tickLock = "loop"
    BY <1>7 DEF RebuildRisk, Locked
  <2>2. QED
    BY <1>7, <2>1, PassOver DEF RebuildRisk
<1>8. CASE AcademyRestarts
  BY <1>8 DEF AcademyRestarts, Locked, NoPass
<1>9. CASE UNCHANGED academyVars
  BY <1>9, ZenonT(30) DEF academyVars, Locked
<1>10. QED
  BY <1>1, <1>2, <1>3, <1>4, <1>5, <1>6, <1>7, <1>8, <1>9 DEF AcademyNext

(* Only the last step of a change and a new process touch a rank. *)
LEMMA RankChangesLocked ==
    ASSUME Locked, FaultsCounted, AcademyNext, rank' # rank
    PROVE  tickLock # "tick" \/ academyFaults' # academyFaults
<1>1. ASSUME NEW c \in Callers, RebuildRisk(c) PROVE tickLock # "tick"
  BY <1>1 DEF RebuildRisk, Locked
<1>2. ASSUME AcademyRestarts PROVE tickLock # "tick" \/ academyFaults' # academyFaults
  BY <1>2 DEF AcademyRestarts, Fault, FaultsCounted
<1>3. QED
  BY <1>1, <1>2
  DEF AcademyNext, TickTakesLock, TickReleasesLock, TickStampsOutcome, PassStarts, Evaluate, SetRank

(* While only the loop runs passes, no rank changes during a tick.         *)
THEOREM NeverMidTickHolds ==
    ASSUME Callers \subseteq {"loop"}
    PROVE  AcademySpec => NeverMidTick
<1>1. OnlyTheLoop
  BY DEF OnlyTheLoop
<1>2. Locked /\ [AcademyNext]_academyVars => Locked'
  BY <1>1, LockedStep
<1>3. Locked /\ FaultsCounted /\ [AcademyNext]_academyVars =>
          [rank' # rank => tickLock # "tick" \/ academyFaults' # academyFaults]_academyVars
  BY RankChangesLocked
<1>4. QED
  BY <1>2, <1>3, LockedInit, FaultsCountedStep, PTL DEF AcademySpec, NeverMidTick

-------------------------------------------------------------------------------
(* The figures of an agent's outcomes and what they say.                   *)
LEMMA SquareNat == ASSUME NEW x \in Int PROVE x * x \in Nat
<1>1. CASE x >= 0
  BY <1>1
<1>2. CASE x < 0
  <2>1. x * x = (-x) * (-x) /\ -x \in Nat
    BY <1>2
  <2>2. \A y \in Nat : y * y \in Nat
    OBVIOUS
  <2>3. QED
    BY <2>1, <2>2
<1>3. QED
  BY <1>1, <1>2

LEMMA ShareNat == ASSUME NEW x \in Nat, NEW n \in Nat \ {0} PROVE x \div n \in Nat
  OBVIOUS

LEMMA PairMin ==
    ASSUME NEW x \in Int, NEW y \in Int
    PROVE  /\ Min({x, y}) = IF x < y THEN x ELSE y
           /\ Max({x, y}) = IF x < y THEN y ELSE x
<1>1. PICK m \in {x, y} : m = (IF x < y THEN x ELSE y)
  OBVIOUS
<1>2. PICK M \in {x, y} : M = (IF x < y THEN y ELSE x)
  OBVIOUS
<1>3. Min({x, y}) = m
  <2>1. \A z \in {x, y} : m <= z
    BY <1>1
  <2>2. \A k \in {x, y} : (\A z \in {x, y} : k <= z) => k = m
    BY <1>1
  <2>3. QED
    BY <2>1, <2>2 DEF Min
<1>4. Max({x, y}) = M
  <2>1. \A z \in {x, y} : M >= z
    BY <1>2
  <2>2. \A k \in {x, y} : (\A z \in {x, y} : k >= z) => k = M
    BY <1>2
  <2>3. QED
    BY <2>1, <2>2 DEF Max
<1>5. QED
  BY <1>1, <1>2, <1>3, <1>4

(* Figures can have no more gains than outcomes. *)
FiguresFit(o) == o \in Figures /\ o.wins <= o.n

LEMMA WithFits ==
    ASSUME NEW o, FiguresFit(o), NEW pnl \in Int
    PROVE  FiguresFit(With(o, pnl))
<1>1. o.n \in Nat /\ o.wins \in Nat /\ o.total \in Int /\ o.squares \in Nat /\ o.losingRun \in Nat /\ o.wins <= o.n
  BY DEF FiguresFit, Figures
<1>2. pnl * pnl \in Nat
  BY SquareNat
<1>3. LosingRunWith(o, pnl) \in Nat
  BY <1>1 DEF LosingRunWith
<1>4. (IF pnl > 0 THEN o.wins + 1 ELSE o.wins) \in 0 .. o.n + 1
  BY <1>1
<1>5. With(o, pnl) \in Figures /\ With(o, pnl).wins <= With(o, pnl).n
  BY <1>1, <1>2, <1>3, <1>4 DEF With, Figures
<1>6. QED
  BY <1>5 DEF FiguresFit

(* There is a greatest r that the ratio reaches. *)
LEMMA SharpeType ==
    ASSUME NEW o, FiguresFit(o)
    PROVE  Sharpe(o) \in -20 .. 20 /\ (o.total < 0 => Sharpe(o) <= 0)
<1> DEFINE G(r) == SharpeReaches(o, r) /\ (r = 20 \/ ~SharpeReaches(o, r + 1))
           sign == IF o.total < 0 THEN -1 ELSE 1
<1>1. o.n \in Nat /\ o.total \in Int /\ o.squares \in Nat
  BY DEF FiguresFit, Figures
<1>2. CASE o.n < 2 \/ Spread(o) = 0
  BY <1>2 DEF Sharpe
<1>3. CASE ~(o.n < 2 \/ Spread(o) = 0)
  <2>1. SharpeReaches(o, 0)
    <3>1. Spread(o) \in Int /\ o.n - 1 \in Nat
      BY <1>1, <1>3 DEF Spread
    <3>2. o.total * o.total \in Nat
      BY <1>1, SquareNat
    <3>3. \A x, y \in Nat : 25200 * x * y \in Nat
      OBVIOUS
    <3>4. 25200 * (o.total * o.total) * (o.n - 1) \in Nat
      BY <3>1, <3>2, <3>3
    <3>5. 25200 * o.total * o.total = 25200 * (o.total * o.total)
      BY <1>1
    <3>6. 0 * 0 * o.n * Spread(o) = 0
      BY <1>1, <3>1
    <3>7. QED
      BY <3>4, <3>5, <3>6 DEF SharpeReaches
  <2>2. \E r \in 0 .. 20 : G(r)
    <3>1. CASE SharpeReaches(o, 20)
      BY <3>1
    <3>2. CASE ~SharpeReaches(o, 20)
      <4> DEFINE D == {r \in 0 .. 20 : ~SharpeReaches(o, r)}
      <4>1. PICK m \in D : \A k \in D : m <= k
        <5>1. D \in SUBSET Nat /\ 20 \in D
          BY <3>2
        <5> HIDE DEF D
        <5>2. QED
          BY <5>1, LeastNumber
      <4>2. m # 0
        BY <2>1
      <4>3. m - 1 \in 0 .. 20 /\ m - 1 \notin D /\ (m - 1) + 1 = m
        BY <4>1, <4>2
      <4>4. SharpeReaches(o, m - 1) /\ ~SharpeReaches(o, (m - 1) + 1)
        BY <4>1, <4>3
      <4>5. QED
        BY <4>3, <4>4
    <3>3. QED
      BY <3>1, <3>2
  <2> HIDE DEF G
  <2>3. (CHOOSE r \in 0 .. 20 : G(r)) \in 0 .. 20
    BY <2>2
  <2>4. Sharpe(o) = sign * (CHOOSE r \in 0 .. 20 : G(r))
    BY <1>3 DEF Sharpe, G
  <2>5. ASSUME NEW r \in 0 .. 20 PROVE sign * r \in -20 .. 20 /\ (o.total < 0 => sign * r <= 0)
    BY <1>1
  <2>6. QED
    BY <2>3, <2>4, <2>5
<1>4. QED
  BY <1>2, <1>3

LEMMA EligibleType == ASSUME NEW o, NEW v PROVE Eligible(o, v) \in Ranks
  BY DEF Eligible, Ranks

LEMMA SeverityType ==
    ASSUME NEW o, FiguresFit(o)
    PROVE  Drawdown(o) \in Nat /\ Severity(o) \in Nat
<1>1. /\ o.n \in Nat /\ o.wins \in Nat /\ o.total \in Int /\ o.losingRun \in Nat /\ o.wins <= o.n
  BY DEF FiguresFit, Figures
<1>2. Drawdown(o) \in Nat
  <2>1. CASE o.n = 0
    BY <2>1 DEF Drawdown
  <2>2. CASE o.n # 0
    <3> DEFINE lost == (50 * (o.n - o.wins)) \div o.n
               back == IF o.total < 0 THEN -5 * Sharpe(o) ELSE 0
    <3>1. 50 * (o.n - o.wins) \in Nat /\ o.n \in Nat \ {0}
      BY <1>1, <2>2
    <3>2. lost \in Nat
      BY <3>1, ShareNat
    <3>3. back \in Nat
      <4>1. Sharpe(o) \in -20 .. 20 /\ (o.total < 0 => Sharpe(o) <= 0)
        BY SharpeType
      <4>2. QED
        BY <4>1
    <3>4. Drawdown(o) = IF o.total >= 0 /\ 2 * o.wins >= o.n THEN 0 ELSE Min({100, lost + back})
      BY <2>2 DEF Drawdown
    <3> HIDE DEF lost, back
    <3>5. lost + back \in Nat /\ 100 \in Int
      BY <3>2, <3>3
    <3>6. Min({100, lost + back}) \in Nat
      BY <3>5, PairMin
    <3>7. QED
      BY <3>4, <3>6
  <2>3. QED
    BY <2>1, <2>2
<1>3. 10 * o.losingRun \in Nat
  BY <1>1
<1>4. Max({Drawdown(o), 10 * o.losingRun}) \in Nat
  <2> DEFINE d == Drawdown(o)
             l == 10 * o.losingRun
  <2>1. d \in Nat /\ l \in Nat
    BY <1>2, <1>3
  <2> HIDE DEF d, l
  <2>2. d \in Int /\ l \in Int
    BY <2>1
  <2>3. Max({d, l}) = IF d < l THEN l ELSE d
    BY <2>2, PairMin, Zenon
  <2>4. Max({d, l}) \in Nat
    BY <2>1, <2>3
  <2>5. QED
    BY <2>4 DEF d, l
<1>5. QED
  BY <1>2, <1>4 DEF Severity


(* Of changes to different agents the worst is first. *)
Apart(S) == \A x, y \in S : x.agent = y.agent => x = y
WorstFirst(S) == SortedBy(S, Before)
LEMMA WorstFirstIs ==
    ASSUME NEW S \in SUBSET Change, IsFiniteSet(S), Apart(S)
    PROVE  /\ WorstFirst(S) \in [1 .. Cardinality(S) -> S] /\ Cardinality(S) \in Nat
           /\ \A i, j \in 1 .. Cardinality(S) : i < j => Before(WorstFirst(S)[i], WorstFirst(S)[j])
           /\ \A x \in S : \E i \in 1 .. Cardinality(S) : WorstFirst(S)[i] = x
<1> DEFINE s == WorstFirst(S)
<1>0. \A x \in S : x.severity \in Int /\ x.agent \in Int
  BY DEF Change, Agents
<1>1. PICK below : below = [x \in S |-> {y \in S : Before(y, x)}]
  OBVIOUS
<1>2. \A x \in S : below[x] = {y \in S : Before(y, x)}
  BY <1>1
<1>3. s = [i \in 1 .. Cardinality(S) |-> CHOOSE x \in S : Cardinality(below[x]) = i - 1]
  <2> DEFINE ranked(i) == CHOOSE x \in S : Cardinality({y \in S : Before(y, x)}) = i - 1
             placed(i) == CHOOSE x \in S : Cardinality(below[x]) = i - 1
  <2>1. \A x \in S : Cardinality(below[x]) = Cardinality({y \in S : Before(y, x)})
    BY <1>2
  <2>2. \A i : ranked(i) = placed(i)
    BY <2>1, Zenon
  <2>3. s = [i \in 1 .. Cardinality(S) |-> ranked(i)]
    BY DEF WorstFirst, SortedBy
  <2> HIDE DEF ranked, placed
  <2>4. s = [i \in 1 .. Cardinality(S) |-> placed(i)]
    BY <2>2, <2>3
  <2>5. QED
    BY <2>4 DEF placed
<1>4. \A x \in S, y \in S : y \in below[x] <=> Before(y, x)
  BY <1>2
<1>5. \A x \in S : below[x] \subseteq S \ {x}
  <2> SUFFICES ASSUME NEW x \in S, NEW y \in below[x] PROVE y \in S \ {x}
    OBVIOUS
  <2>1. y \in S /\ Before(y, x)
    BY <1>2
  <2>2. y # x
    BY <1>0, <2>1 DEF Before
  <2>3. QED
    BY <2>1, <2>2
<1>6. \A x \in S : \A y \in below[x] : below[y] \subseteq below[x]
  <2> SUFFICES ASSUME NEW x \in S, NEW y \in below[x], NEW z \in below[y] PROVE z \in below[x]
    OBVIOUS
  <2>1. y \in S /\ z \in S
    BY <1>2
  <2>2. Before(y, x) /\ Before(z, y)
    BY <1>4, <2>1
  <2>3. Before(z, x)
    BY <1>0, <2>1, <2>2 DEF Before
  <2>4. QED
    BY <1>4, <2>1, <2>3
<1>7. \A x, y \in S : x # y => x \in below[y] \/ y \in below[x]
  <2> SUFFICES ASSUME NEW x \in S, NEW y \in S, x # y PROVE x \in below[y] \/ y \in below[x]
    OBVIOUS
  <2>1. x.agent # y.agent
    BY DEF Apart
  <2>2. Before(x, y) \/ Before(y, x)
    BY <1>0, <2>1 DEF Before
  <2>3. QED
    BY <1>4, <2>2
<1>8. /\ s \in [1 .. Cardinality(S) -> S] /\ Cardinality(S) \in Nat
      /\ \A i, j \in 1 .. Cardinality(S) : i < j => s[i] \in below[s[j]]
      /\ \A x \in S : \E i \in 1 .. Cardinality(S) : s[i] = x
  BY <1>3, <1>5, <1>6, <1>7, RankIsPlace, ZenonT(30)
<1>9. QED
  BY <1>4, <1>8

(* A sequence has a finite range of at most its length. *)
LEMMA RangeOfList ==
    ASSUME NEW T, NEW s \in Seq(T)
    PROVE  /\ Range(s) \subseteq T /\ IsFiniteSet(Range(s)) /\ Cardinality(Range(s)) <= Len(s)
           /\ Cardinality(Range(s)) \in Nat
           /\ \A x : x \in Range(s) <=> \E i \in 1 .. Len(s) : x = s[i]
<1>1. Len(s) \in Nat /\ DOMAIN s = 1 .. Len(s) /\ \A i \in 1 .. Len(s) : s[i] \in T
  OBVIOUS
<1>2. s \in Surjection(1 .. Len(s), Range(s))
  <2>1. s = [i \in 1 .. Len(s) |-> s[i]]
    BY <1>1
  <2>2. \A i \in 1 .. Len(s) : s[i] \in Range(s)
    BY <1>1 DEF Range
  <2>3. s \in [1 .. Len(s) -> Range(s)]
    BY <2>1, <2>2
  <2>4. \A x \in Range(s) : \E i \in 1 .. Len(s) : s[i] = x
    BY <1>1 DEF Range
  <2>5. QED
    BY <2>3, <2>4 DEF Surjection
<1>3. IsFiniteSet(1 .. Len(s)) /\ Cardinality(1 .. Len(s)) = Len(s)
  <2>1. 1 \in Int /\ Len(s) \in Int
    BY <1>1
  <2>2. /\ IsFiniteSet(1 .. Len(s))
        /\ Cardinality(1 .. Len(s)) = IF 1 > Len(s) THEN 0 ELSE Len(s) - 1 + 1
    BY <2>1, FS_Interval, Zenon
  <2>3. QED
    BY <1>1, <2>2
<1>4. IsFiniteSet(Range(s)) /\ Cardinality(Range(s)) <= Cardinality(1 .. Len(s))
  BY <1>2, <1>3, FS_Surjection
<1>5. QED
  BY <1>1, <1>3, <1>4, FS_CardinalityType DEF Range


(* A list with one change for each agent at most; the ones it demotes, cut *)
(* off at the cap with the worst first, come before those left out.        *)
OneEach(list) == \A i, j \in 1 .. Len(list) : list[i].agent = list[j].agent => i = j
Cut(demoted) == SubSeq(WorstFirst(Range(demoted)), 1, Min({DemoteCap, Len(demoted)}))

LEMMA OrderedIs == \A p, d : Ordered(p, d) = p \o Cut(d)
  BY DEF Ordered, Cut, WorstFirst

LEMMA OneEachRange ==
    ASSUME NEW list \in Seq(Change), OneEach(list)
    PROVE  Apart(Range(list)) /\ Cardinality(Range(list)) = Len(list)
<1>1. /\ Len(list) \in Nat /\ list \in [1 .. Len(list) -> Change] /\ DOMAIN list = 1 .. Len(list)
      /\ \A x : x \in Range(list) <=> \E i \in 1 .. Len(list) : x = list[i]
  BY RangeOfList
<1>2. Apart(Range(list))
  BY <1>1 DEF Apart, OneEach
<1>3. list \in Surjection(1 .. Len(list), Range(list)) /\ list \in Injection(1 .. Len(list), Range(list))
  <2>1. list = [i \in 1 .. Len(list) |-> list[i]]
    BY <1>1
  <2>2. \A i \in 1 .. Len(list) : list[i] \in Range(list)
    BY <1>1
  <2>3. list \in [1 .. Len(list) -> Range(list)]
    BY <2>1, <2>2
  <2>4. \A x \in Range(list) : \E i \in 1 .. Len(list) : list[i] = x
    BY <1>1
  <2>5. \A i, j \in 1 .. Len(list) : list[i] = list[j] => i = j
    BY DEF OneEach
  <2>6. QED
    BY <2>3, <2>4, <2>5 DEF Surjection, Injection, IsInjective
<1>4. IsFiniteSet(1 .. Len(list)) /\ Cardinality(1 .. Len(list)) = Len(list)
  <2>1. 1 \in Int /\ Len(list) \in Int
    BY <1>1
  <2>2. /\ IsFiniteSet(1 .. Len(list))
        /\ Cardinality(1 .. Len(list)) = IF 1 > Len(list) THEN 0 ELSE Len(list) - 1 + 1
    BY <2>1, FS_Interval, Zenon
  <2>3. QED
    BY <1>1, <2>2
<1>5. QED
  BY <1>2, <1>3, <1>4, FS_Surjection

LEMMA WorstAreCut ==
    ASSUME NEW demoted \in Seq(Change), OneEach(demoted)
    PROVE  LET cut == Cut(demoted) IN
           /\ cut \in Seq(Change) /\ Range(cut) \subseteq Range(demoted) /\ OneEach(cut)
           /\ 100 * Cardinality(Range(cut)) <= DemoteCapPct * NumAgents
           /\ \A x \in Range(cut), y \in Range(demoted) \ Range(cut) : y.severity <= x.severity
<1> DEFINE S == Range(demoted)
           n == Len(demoted)
           s == WorstFirst(S)
           k == Min({DemoteCap, n})
           cut == Cut(demoted)
<1>1. S \in SUBSET Change /\ IsFiniteSet(S) /\ n \in Nat /\ n = Cardinality(S) /\ Apart(S)
  BY RangeOfList, OneEachRange
<1>2. /\ s \in [1 .. n -> S]
      /\ \A i, j \in 1 .. n : i < j => Before(s[i], s[j])
      /\ \A x \in S : \E i \in 1 .. n : s[i] = x
  BY <1>1, WorstFirstIs
<1>3. DemoteCap \in Nat /\ 100 * DemoteCap <= DemoteCapPct * NumAgents
  <2>1. DemoteCapPct \in Nat /\ NumAgents \in Nat /\ DemoteCapPct * NumAgents \in Nat
    BY AcademyAssumption
  <2>2. \A x \in Nat : x \div 100 \in Nat /\ 100 * (x \div 100) <= x
    OBVIOUS
  <2>3. QED
    BY <2>1, <2>2 DEF DemoteCap
<1>4. k \in 0 .. n /\ k <= DemoteCap
  <2>1. DemoteCap \in Int /\ n \in Int
    BY <1>1, <1>3
  <2>2. k = IF DemoteCap < n THEN DemoteCap ELSE n
    BY <2>1, PairMin, Zenon
  <2>3. QED
    BY <1>1, <1>3, <2>2
<1>0. \A x \in S : x.severity \in Int /\ x.agent \in Int /\ x \in Change
  BY <1>1 DEF Change, Agents
<1>5. cut = SubSeq(s, 1, k)
  BY DEF Cut
<1> HIDE DEF S, n, s, k, cut
<1>6. /\ cut \in Seq(S) /\ Len(cut) = k /\ \A i \in 1 .. k : cut[i] = s[i]
  <2>1. 1 \in Int /\ k \in Int /\ \A i \in 1 .. k : s[i] \in S
    BY <1>1, <1>2, <1>4
  <2>5. /\ SubSeq(s, 1, k) \in Seq(S) /\ Len(SubSeq(s, 1, k)) = IF 1 <= k THEN k - 1 + 1 ELSE 0
        /\ \A i \in 1 .. k - 1 + 1 : SubSeq(s, 1, k)[i] = s[1 + i - 1]
    BY <2>1, SubSeqProperties
  <2>2. /\ cut \in Seq(S) /\ Len(cut) = IF 1 <= k THEN k - 1 + 1 ELSE 0
        /\ \A i \in 1 .. k - 1 + 1 : cut[i] = s[1 + i - 1]
    BY <1>5, <2>5
  <2>3. k - 1 + 1 = k /\ \A i \in 1 .. k : 1 + i - 1 = i
    BY <1>4
  <2>4. QED
    BY <1>4, <2>2, <2>3
<1>7. cut \in Seq(Change)
  BY <1>1, <1>6
<1>8. /\ Range(cut) \subseteq S /\ IsFiniteSet(Range(cut)) /\ Cardinality(Range(cut)) <= k
      /\ \A x : x \in Range(cut) <=> \E i \in 1 .. k : x = s[i]
  <2>1. /\ Range(cut) \subseteq S /\ IsFiniteSet(Range(cut)) /\ Cardinality(Range(cut)) <= Len(cut)
        /\ \A x : x \in Range(cut) <=> \E i \in 1 .. Len(cut) : x = cut[i]
    BY <1>6, RangeOfList
  <2>2. QED
    BY <1>6, <2>1
<1>9. OneEach(cut)
  <2> SUFFICES ASSUME NEW i \in 1 .. k, NEW j \in 1 .. k, cut[i].agent = cut[j].agent PROVE i = j
    BY <1>6 DEF OneEach
  <2>1. i \in 1 .. n /\ j \in 1 .. n /\ cut[i] = s[i] /\ cut[j] = s[j]
    BY <1>1, <1>4, <1>6
  <2>2. s[i] \in S /\ s[j] \in S
    BY <1>2, <2>1
  <2>3. s[i] = s[j]
    BY <1>1, <2>1, <2>2 DEF Apart
  <2>4. ~Before(s[i], s[i])
    BY <1>0, <2>2 DEF Before
  <2>5. ~(i < j) /\ ~(j < i)
    BY <1>2, <2>1, <2>3, <2>4
  <2>6. QED
    BY <1>4, <2>5
<1>10. 100 * Cardinality(Range(cut)) <= DemoteCapPct * NumAgents
  <2>1. Cardinality(Range(cut)) \in Nat
    BY <1>8, FS_CardinalityType
  <2>2. DemoteCapPct * NumAgents \in Int
    BY AcademyAssumption
  <2> HIDE DEF DemoteCap
  <2>3. QED
    BY <1>3, <1>4, <1>8, <2>1, <2>2
<1>11. ASSUME NEW x \in Range(cut), NEW y \in S \ Range(cut) PROVE y.severity <= x.severity
  <2>1. PICK i \in 1 .. k : x = s[i]
    BY <1>8
  <2>2. PICK j \in 1 .. n : s[j] = y
    BY <1>2
  <2>3. j \notin 1 .. k
    BY <1>8, <2>2
  <2>4. i \in 1 .. n /\ i < j
    BY <1>1, <1>4, <2>3
  <2>5. Before(x, y)
    BY <1>2, <2>1, <2>2, <2>4
  <2>6. x \in S
    BY <1>8
  <2>7. QED
    BY <1>0, <2>5, <2>6 DEF Before
<1>12. QED
  BY <1>7, <1>8, <1>9, <1>10, <1>11 DEF S, cut

(* Lists put one after the other. *)
LEMMA Joined ==
    ASSUME NEW p \in Seq(Change), NEW q \in Seq(Change), OneEach(p), OneEach(q),
           \A x \in Range(p), y \in Range(q) : x.agent # y.agent
    PROVE  p \o q \in Seq(Change) /\ OneEach(p \o q) /\ Range(p \o q) = Range(p) \cup Range(q)
<1> DEFINE m == Len(p)
           n == Len(q)
           r == p \o q
<1>1. /\ r \in Seq(Change) /\ m \in Nat /\ n \in Nat /\ Len(r) = m + n
      /\ \A i \in 1 .. m : r[i] = p[i]
      /\ \A i \in 1 .. n : r[m + i] = q[i]
  OBVIOUS
<1>2. \A i \in 1 .. m : p[i] \in Range(p)
  BY RangeOfList
<1>3. \A i \in 1 .. n : q[i] \in Range(q)
  BY RangeOfList
<1> HIDE DEF m, n, r
<1>4. OneEach(r)
  <2> SUFFICES ASSUME NEW i \in 1 .. m + n, NEW j \in 1 .. m + n, r[i].agent = r[j].agent PROVE i = j
    BY <1>1 DEF OneEach
  <2>1. \A k \in 1 .. m + n : k \in 1 .. m \/ (k - m \in 1 .. n /\ m + (k - m) = k)
    BY <1>1
  <2>2. CASE i \in 1 .. m /\ j \in 1 .. m
    BY <1>1, <2>2 DEF OneEach, m
  <2>3. CASE i \in 1 .. m /\ j \notin 1 .. m
    <3>1. j - m \in 1 .. n /\ r[j] = q[j - m]
      BY <1>1, <2>1, <2>3
    <3>2. r[i] = p[i]
      BY <1>1, <2>3
    <3>3. QED
      BY <1>2, <1>3, <2>3, <3>1, <3>2
  <2>4. CASE i \notin 1 .. m /\ j \in 1 .. m
    <3>1. i - m \in 1 .. n /\ r[i] = q[i - m]
      BY <1>1, <2>1, <2>4
    <3>2. r[j] = p[j]
      BY <1>1, <2>4
    <3>3. QED
      BY <1>2, <1>3, <2>4, <3>1, <3>2
  <2>5. CASE i \notin 1 .. m /\ j \notin 1 .. m
    <3>1. i - m \in 1 .. n /\ r[i] = q[i - m] /\ j - m \in 1 .. n /\ r[j] = q[j - m]
      BY <1>1, <2>1, <2>5
    <3>2. i - m = j - m
      BY <3>1 DEF OneEach, n
    <3>3. QED
      BY <1>1, <3>2
  <2>6. QED
    BY <2>2, <2>3, <2>4, <2>5
<1>5. QED
  BY <1>1, <1>4, RangeConcatenation DEF r

LEMMA OneOrNone ==
    ASSUME NEW ch \in Change, NEW q, q = <<>> \/ q = <<ch>>
    PROVE  q \in Seq(Change) /\ OneEach(q) /\ Range(q) = IF q = <<>> THEN {} ELSE {ch}
<1>1. CASE q = <<>>
  <2>1. Range(q) = {} /\ Len(q) = 0
    BY <1>1 DEF Range
  <2>2. QED
    BY <1>1, <2>1 DEF OneEach
<1>2. CASE q = <<ch>>
  <2>1. q \in Seq(Change) /\ Len(q) = 1 /\ q[1] = ch /\ q # <<>>
    BY <1>2
  <2>2. \A x : x \in Range(q) <=> x = ch
    BY <2>1, RangeOfList
  <2>3. OneEach(q)
    BY <2>1 DEF OneEach
  <2>4. QED
    BY <2>1, <2>2, <2>3
<1>3. QED
  BY <1>1, <1>2

(* A pass looks at one agent after the other and finds one change at most. *)
PassType == [step : {"idle", "evaluate", "row", "memory"}, agent : Agents,
             promoted : Seq(Change), demoted : Seq(Change), todo : Seq(Change)]
ListsFit(p) ==
    /\ OneEach(p.promoted) /\ OneEach(p.demoted) /\ OneEach(p.todo)
    /\ \A x \in Range(p.promoted), y \in Range(p.demoted) : x.agent # y.agent
    /\ \A x \in Range(p.promoted) : x.agent < p.agent /\ x.to = x.from + 1
    /\ \A x \in Range(p.demoted) : x.agent < p.agent /\ x.to = x.from - 1
    /\ p.step \in {"row", "memory"} <=> p.todo # <<>>
    /\ p.step # "evaluate" => p.promoted = <<>> /\ p.demoted = <<>> /\ p.agent = 1
AcademyInv ==
    /\ outcomes \in [Agents -> Figures] /\ \A a \in Agents : FiguresFit(outcomes[a])
    /\ veterans \subseteq Agents
    /\ rank \in [Agents -> Ranks] /\ rankRow \in [Agents -> Ranks]
    /\ promotions \in [Agents -> Seq(Ranks \X Ranks)]
    /\ pass \in [Callers -> PassType] /\ \A c \in Callers : ListsFit(pass[c])
    /\ tickLock \in {"none", "tick"} \cup (Callers \ {"endpoint"})
    /\ "loop" \in Callers => (tickLock = "loop" <=> pass["loop"].step # "idle")
    /\ academyFaults \in 0 .. MaxAcademyFaults

LEMMA NoPassFits == NoPass \in PassType /\ ListsFit(NoPass)
<1>1. 1 \in Agents
  BY AcademyAssumption DEF Agents
<1>2. <<>> \in Seq(Change) /\ Range(<<>>) = {} /\ Len(<<>>) = 0
  BY DEF Range
<1>3. OneEach(<<>>)
  BY <1>2 DEF OneEach
<1>4. NoPass \in PassType
  BY <1>1, <1>2 DEF NoPass, PassType
<1>5. QED
  BY <1>2, <1>3, <1>4 DEF NoPass, ListsFit

LEMMA RestFits ==
    ASSUME NEW c, NEW todo \in Seq(Change), OneEach(todo)
    PROVE  Rest(c, todo) \in PassType /\ ListsFit(Rest(c, todo))
<1>1. CASE todo = <<>>
  BY <1>1, NoPassFits DEF Rest
<1>2. CASE todo # <<>>
  <2>1. Rest(c, todo) = [NoPass EXCEPT !.step = "row", !.todo = todo]
    BY <1>2 DEF Rest
  <2>2. Rest(c, todo) \in PassType
    BY <2>1, NoPassFits DEF PassType
  <2>3. /\ Rest(c, todo).promoted = NoPass.promoted /\ Rest(c, todo).demoted = NoPass.demoted
        /\ Rest(c, todo).agent = NoPass.agent /\ Rest(c, todo).step = "row" /\ Rest(c, todo).todo = todo
    BY <2>1 DEF NoPass
  <2>4. QED
    BY <1>2, <2>2, <2>3, NoPassFits DEF ListsFit, NoPass
<1>3. QED
  BY <1>1, <1>2

-------------------------------------------------------------------------------
(* A pass, one agent and one change at a time.                             *)
(* What a pass decides for one agent. *)
LEMMA Decided ==
    ASSUME AcademyInv, NEW a \in Agents, NEW o, FiguresFit(o)
    PROVE  LET up == Promoted(a, o)
               down == Demoted(a, o)
               eligible == Eligible(o, a \in veterans)
           IN
           /\ up \in Seq(Change) /\ down \in Seq(Change) /\ OneEach(up) /\ OneEach(down)
           /\ \A x \in Range(up) : /\ x.agent = a /\ x.from = rank[a] /\ x.to = x.from + 1
                                   /\ eligible > rank[a]
           /\ \A x \in Range(down) : /\ x.agent = a /\ x.from = rank[a] /\ x.to = x.from - 1
                                     /\ eligible < rank[a] /\ DemotionDue(o) /\ x.severity = Severity(o)
           /\ up = <<>> \/ down = <<>>
           /\ eligible < rank[a] /\ DemotionDue(o) => \E x \in Range(down) : x.agent = a
<1> DEFINE eligible == Eligible(o, a \in veterans)
           u == [agent |-> a, from |-> rank[a], to |-> rank[a] + 1, severity |-> 0]
           d == [agent |-> a, from |-> rank[a], to |-> rank[a] - 1, severity |-> Severity(o)]
           up == Promoted(a, o)
           down == Demoted(a, o)
<1>1. eligible \in 0 .. 3 /\ rank[a] \in 0 .. 3 /\ Severity(o) \in Nat
  BY EligibleType, SeverityType DEF AcademyInv, Ranks
<1>2. /\ up = IF eligible <= rank[a] THEN <<>> ELSE <<u>>
      /\ down = IF eligible >= rank[a] \/ ~DemotionDue(o) THEN <<>> ELSE <<d>>
  BY DEF Promoted, Demoted
<1>3. <<>> \in Seq(Change) /\ OneEach(<<>>) /\ Range(<<>>) = {}
  BY NoPassFits DEF ListsFit, NoPass, PassType, OneEach, Range
<1> HIDE DEF up, down, eligible
<1>4. /\ up \in Seq(Change) /\ OneEach(up) /\ (eligible <= rank[a] => up = <<>> /\ Range(up) = {})
      /\ \A x \in Range(up) : x = u
  <2>1. CASE eligible <= rank[a]
    BY <1>2, <1>3, <2>1
  <2>2. CASE ~(eligible <= rank[a])
    <3>1. u \in Change
      BY <1>1, <2>2 DEF Change, Ranks
    <3>2. up = <<u>>
      BY <1>2, <2>2
    <3> HIDE DEF u
    <3>3. up \in Seq(Change) /\ OneEach(up) /\ Range(up) = IF up = <<>> THEN {} ELSE {u}
      BY <3>1, <3>2, OneOrNone
    <3>4. QED
      BY <2>2, <3>3
  <2>3. QED
    BY <2>1, <2>2
<1>5. /\ down \in Seq(Change) /\ OneEach(down)
      /\ (eligible >= rank[a] \/ ~DemotionDue(o) => down = <<>> /\ Range(down) = {})
      /\ (eligible < rank[a] /\ DemotionDue(o) => Range(down) = {d})
      /\ \A x \in Range(down) : x = d
  <2>1. CASE eligible >= rank[a] \/ ~DemotionDue(o)
    <3>1. down = <<>>
      BY <1>2, <2>1
    <3>2. QED
      BY <1>1, <1>3, <2>1, <3>1
  <2>2. CASE ~(eligible >= rank[a] \/ ~DemotionDue(o))
    <3>1. d \in Change
      BY <1>1, <2>2 DEF Change, Ranks
    <3>2. down = <<d>> /\ down # <<>>
      BY <1>2, <2>2
    <3> HIDE DEF d
    <3>3. down \in Seq(Change) /\ OneEach(down) /\ Range(down) = IF down = <<>> THEN {} ELSE {d}
      BY <3>1, <3>2, OneOrNone
    <3>4. QED
      BY <2>2, <3>2, <3>3
  <2>3. QED
    BY <2>1, <2>2
<1>6. /\ u.agent = a /\ u.from = rank[a] /\ u.to = rank[a] + 1
      /\ d.agent = a /\ d.from = rank[a] /\ d.to = rank[a] - 1 /\ d.severity = Severity(o)
  OBVIOUS
<1> HIDE DEF u, d
<1>7. up = <<>> \/ down = <<>>
  BY <1>1, <1>4, <1>5
<1>8. \A x \in Range(up) : x.agent = a /\ x.from = rank[a] /\ x.to = x.from + 1 /\ eligible > rank[a]
  BY <1>1, <1>4, <1>6
<1>9. \A x \in Range(down) : /\ x.agent = a /\ x.from = rank[a] /\ x.to = x.from - 1
                             /\ eligible < rank[a] /\ DemotionDue(o) /\ x.severity = Severity(o)
  BY <1>1, <1>5, <1>6
<1>10. QED
  BY <1>4, <1>5, <1>6, <1>7, <1>8, <1>9 DEF up, down, eligible

(* One turn of the first loop, seen from the lists it makes. *)
Lists(p, d, a) ==
    /\ p \in Seq(Change) /\ d \in Seq(Change) /\ OneEach(p) /\ OneEach(d)
    /\ \A x \in Range(p), y \in Range(d) : x.agent # y.agent
    /\ \A x \in Range(p) : x.agent <= a /\ x.to = x.from + 1
    /\ \A x \in Range(d) : x.agent <= a /\ x.to = x.from - 1
Read(c, o) ==
    \/ o = outcomes[pass[c].agent] /\ UNCHANGED academyFaults
    \/ o = NoOutcomes /\ Fault("read")
Turn(c, p, d) ==
    LET a == pass[c].agent IN
    \/ a < NumAgents /\ tickLock' = tickLock
       /\ pass' = [pass EXCEPT ![c].agent = a + 1, ![c].promoted = p, ![c].demoted = d]
    \/ a = NumAgents /\ tickLock' = Released(c, p \o Cut(d))
       /\ pass' = [pass EXCEPT ![c] = Rest(c, p \o Cut(d))]

LEMMA NoOutcomesFit == FiguresFit(NoOutcomes)
  BY DEF FiguresFit, NoOutcomes, Figures

LEMMA ListsJoin ==
    ASSUME AcademyInv, NEW c \in Callers, NEW o, FiguresFit(o), NEW a \in Agents, a = pass[c].agent
    PROVE  LET p == pass[c].promoted \o Promoted(a, o)
               d == pass[c].demoted \o Demoted(a, o)
           IN /\ Lists(p, d, a)
              /\ Range(p) = Range(pass[c].promoted) \cup Range(Promoted(a, o))
              /\ Range(d) = Range(pass[c].demoted) \cup Range(Demoted(a, o))
<1> DEFINE up == Promoted(a, o)
           down == Demoted(a, o)
           p0 == pass[c].promoted
           d0 == pass[c].demoted
           p == p0 \o up
           d == d0 \o down
<1>1. /\ up \in Seq(Change) /\ down \in Seq(Change) /\ OneEach(up) /\ OneEach(down)
      /\ \A x \in Range(up) : x.agent = a /\ x.to = x.from + 1
      /\ \A x \in Range(down) : x.agent = a /\ x.to = x.from - 1
      /\ up = <<>> \/ down = <<>>
  BY Decided
<1>2. /\ p0 \in Seq(Change) /\ d0 \in Seq(Change) /\ OneEach(p0) /\ OneEach(d0)
      /\ \A x \in Range(p0), y \in Range(d0) : x.agent # y.agent
      /\ \A x \in Range(p0) : x.agent < a /\ x.to = x.from + 1
      /\ \A x \in Range(d0) : x.agent < a /\ x.to = x.from - 1
  BY DEF AcademyInv, ListsFit, PassType
<1>3. /\ a \in Int /\ Range(<<>>) = {}
      /\ \A x \in Range(p0) \cup Range(d0) : x.agent \in Int
  <2>1. Range(p0) \subseteq Change /\ Range(d0) \subseteq Change
    BY <1>2, RangeOfList
  <2>2. QED
    BY <2>1 DEF Agents, Change, Range
<1> HIDE DEF up, down, p0, d0
<1>4. \A x \in Range(p0), y \in Range(up) : x.agent # y.agent
  BY <1>1, <1>2, <1>3
<1>5. \A x \in Range(d0), y \in Range(down) : x.agent # y.agent
  BY <1>1, <1>2, <1>3
<1>6. p \in Seq(Change) /\ OneEach(p) /\ Range(p) = Range(p0) \cup Range(up)
  BY <1>1, <1>2, <1>4, Joined
<1>7. d \in Seq(Change) /\ OneEach(d) /\ Range(d) = Range(d0) \cup Range(down)
  BY <1>1, <1>2, <1>5, Joined
<1> HIDE DEF p, d
<1>8. \A x \in Range(p), y \in Range(d) : x.agent # y.agent
  <2> TAKE x \in Range(p), y \in Range(d)
  <2>1. CASE up = <<>>
    <3>1. x \in Range(p0)
      BY <1>3, <1>6, <2>1
    <3>2. QED
      BY <1>1, <1>2, <1>3, <1>7, <3>1
  <2>2. CASE down = <<>>
    <3>1. y \in Range(d0)
      BY <1>3, <1>7, <2>2
    <3>2. QED
      BY <1>1, <1>2, <1>3, <1>6, <3>1
  <2>3. QED
    BY <1>1, <2>1, <2>2
<1>9. \A x \in Range(p) : x.agent <= a /\ x.to = x.from + 1
  BY <1>1, <1>2, <1>3, <1>6
<1>10. \A x \in Range(d) : x.agent <= a /\ x.to = x.from - 1
  BY <1>1, <1>2, <1>3, <1>7
<1>11. QED
  BY <1>6, <1>7, <1>8, <1>9, <1>10 DEF Lists, p, d, p0, d0, up, down

LEMMA Evaluated ==
    ASSUME AcademyInv, NEW c \in Callers, Evaluate(c)
    PROVE  LET a == pass[c].agent IN
           \E o, p, d :
              /\ FiguresFit(o) /\ Read(c, o) /\ Lists(p, d, a) /\ Turn(c, p, d)
              /\ Range(p) = Range(pass[c].promoted) \cup Range(Promoted(a, o))
              /\ Range(d) = Range(pass[c].demoted) \cup Range(Demoted(a, o))
<1> DEFINE a == pass[c].agent
<1>1. a \in Agents /\ FiguresFit(outcomes[a]) /\ a \in 1 .. NumAgents /\ NumAgents \in Nat
  BY AcademyAssumption DEF AcademyInv, PassType, Agents
<1>2. PICK o \in {outcomes[a], NoOutcomes} :
        /\ IF o = outcomes[a] THEN UNCHANGED academyFaults ELSE Fault("read")
        /\ LET promoted == pass[c].promoted \o Promoted(a, o)
               demoted == pass[c].demoted \o Demoted(a, o)
               todo == Ordered(promoted, demoted)
           IN  IF a < NumAgents
               THEN /\ pass' = [pass EXCEPT ![c].agent = a + 1, ![c].promoted = promoted,
                                            ![c].demoted = demoted]
                    /\ tickLock' = tickLock
               ELSE /\ pass' = [pass EXCEPT ![c] = Rest(c, todo)]
                    /\ tickLock' = Released(c, todo)
  BY DEF Evaluate
<1> DEFINE p == pass[c].promoted \o Promoted(a, o)
           d == pass[c].demoted \o Demoted(a, o)
<1>3. FiguresFit(o) /\ Read(c, o)
  BY <1>1, <1>2, NoOutcomesFit DEF Read
<1>4. Turn(c, p, d)
  <2>1. \/ /\ a < NumAgents /\ tickLock' = tickLock
           /\ pass' = [pass EXCEPT ![c].agent = a + 1, ![c].promoted = p, ![c].demoted = d]
        \/ /\ ~(a < NumAgents) /\ tickLock' = Released(c, Ordered(p, d))
           /\ pass' = [pass EXCEPT ![c] = Rest(c, Ordered(p, d))]
    BY <1>2, Zenon
  <2> HIDE DEF p, d
  <2>2. Ordered(p, d) = p \o Cut(d)
    BY OrderedIs
  <2>3. ~(a < NumAgents) => a = NumAgents
    BY <1>1
  <2>4. QED
    BY <2>1, <2>2, <2>3, Zenon DEF Turn
<1>5. /\ Lists(p, d, a) /\ Range(p) = Range(pass[c].promoted) \cup Range(Promoted(a, o))
      /\ Range(d) = Range(pass[c].demoted) \cup Range(Demoted(a, o))
  BY <1>1, <1>3, ListsJoin
<1> HIDE DEF p, d
<1>6. QED
  BY <1>3, <1>4, <1>5, Zenon

PassesFit ==
    /\ pass \in [Callers -> PassType] /\ \A c \in Callers : ListsFit(pass[c])
    /\ tickLock \in {"none", "tick"} \cup (Callers \ {"endpoint"})
    /\ "loop" \in Callers => (tickLock = "loop" <=> pass["loop"].step # "idle")

(* A pass that goes on to its second loop, or to the next change. *)
LEMMA PassGoesOn ==
    ASSUME PassesFit, NEW c \in Callers, pass[c].step # "idle",
           NEW todo \in Seq(Change), OneEach(todo),
           pass' = [pass EXCEPT ![c] = Rest(c, todo)], tickLock' = Released(c, todo)
    PROVE  PassesFit'
<1>1. Rest(c, todo) \in PassType /\ ListsFit(Rest(c, todo))
  BY RestFits
<1>2. Rest(c, todo).step = IF todo = <<>> THEN "idle" ELSE "row"
  BY DEF Rest, NoPass
<1>3. /\ pass'[c] = Rest(c, todo) /\ pass' \in [Callers -> PassType]
      /\ \A k \in Callers : k # c => pass'[k] = pass[k]
  BY <1>1 DEF PassesFit
<1>4. \A k \in Callers : ListsFit(pass'[k])
  BY <1>1, <1>3, Zenon DEF PassesFit
<1>5. CASE c = "loop"
  BY <1>2, <1>3, <1>4, <1>5 DEF PassesFit, Released
<1>6. CASE c # "loop"
  BY <1>3, <1>4, <1>6 DEF PassesFit, Released
<1>7. QED
  BY <1>5, <1>6

(* A pass that keeps its lists but for what it has just decided. *)
LEMMA PassSteps ==
    ASSUME PassesFit, NEW c \in Callers, NEW p \in PassType, ListsFit(p),
           pass[c].step # "idle" <=> p.step # "idle",
           pass' = [pass EXCEPT ![c] = p], tickLock' = tickLock
    PROVE  PassesFit'
<1>1. /\ pass'[c] = p /\ pass' \in [Callers -> PassType]
      /\ \A k \in Callers : k # c => pass'[k] = pass[k]
  BY DEF PassesFit
<1>2. \A k \in Callers : ListsFit(pass'[k])
  BY <1>1, Zenon DEF PassesFit
<1>3. QED
  BY <1>1, <1>2 DEF PassesFit

LEMMA AcademyInit_Inv == ASSUME AcademyInit PROVE AcademyInv
<1>1. \A a \in Agents : FiguresFit(outcomes[a]) /\ outcomes[a] \in Figures
  BY NoOutcomesFit DEF AcademyInit, FiguresFit
<1>2. pass \in [Callers -> PassType] /\ \A c \in Callers : ListsFit(pass[c]) /\ pass[c].step = "idle"
  <2>1. \A c \in Callers : pass[c] = NoPass
    BY DEF AcademyInit
  <2>2. NoPass.step = "idle"
    BY DEF NoPass
  <2> HIDE DEF NoPass
  <2>3. pass \in [Callers -> PassType]
    BY <2>1, NoPassFits DEF AcademyInit
  <2>4. QED
    BY <2>1, <2>2, <2>3, NoPassFits
<1>3. outcomes \in [Agents -> Figures]
  BY <1>1 DEF AcademyInit
<1>4. MaxAcademyFaults \in Nat
  BY AcademyAssumption
<1>5. promotions \in [Agents -> Seq(Ranks \X Ranks)]
  BY DEF AcademyInit
<1>6. rank \in [Agents -> Ranks] /\ rankRow \in [Agents -> Ranks] /\ veterans \subseteq Agents
  BY DEF AcademyInit, Ranks
<1>7. QED
  BY <1>1, <1>2, <1>3, <1>4, <1>5, <1>6 DEF AcademyInit, AcademyInv

LEMMA AcademyIsPassesFit ==
    AcademyInv <=> /\ outcomes \in [Agents -> Figures] /\ \A a \in Agents : FiguresFit(outcomes[a])
                   /\ veterans \subseteq Agents
                   /\ rank \in [Agents -> Ranks] /\ rankRow \in [Agents -> Ranks]
                   /\ promotions \in [Agents -> Seq(Ranks \X Ranks)]
                   /\ PassesFit
                   /\ academyFaults \in 0 .. MaxAcademyFaults
  BY DEF AcademyInv, PassesFit

LEMMA FaultType ==
    ASSUME NEW f, Fault(f), academyFaults \in 0 .. MaxAcademyFaults
    PROVE  academyFaults' \in 0 .. MaxAcademyFaults /\ academyFaults' = academyFaults + 1
  BY AcademyAssumption DEF Fault

LEMMA Evaluate_Inv ==
    ASSUME AcademyInv, NEW c \in Callers, Evaluate(c)
    PROVE  AcademyInv'
<1> DEFINE a == pass[c].agent
<1>1. PICK o, p, d : FiguresFit(o) /\ Read(c, o) /\ Lists(p, d, a) /\ Turn(c, p, d)
  BY Evaluated
<1>2. /\ pass[c].step = "evaluate" /\ UNCHANGED <<outcomes, veterans, rank, rankRow, promotions>>
      /\ pass[c] \in PassType /\ ListsFit(pass[c]) /\ PassesFit
      /\ pass \in [Callers -> PassType]
  BY DEF Evaluate, AcademyInv, PassesFit
<1>3. academyFaults' \in 0 .. MaxAcademyFaults
  BY <1>1, FaultType DEF Read, AcademyInv
<1>4. a \in 1 .. NumAgents /\ NumAgents \in Nat
  BY <1>2, AcademyAssumption DEF PassType, Agents
<1>5. CASE a < NumAgents /\ tickLock' = tickLock
           /\ pass' = [pass EXCEPT ![c].agent = a + 1, ![c].promoted = p, ![c].demoted = d]
  <2> DEFINE q == [pass[c] EXCEPT !.agent = a + 1, !.promoted = p, !.demoted = d]
  <2>1. pass' = [pass EXCEPT ![c] = q]
    BY <1>2, <1>5
  <2>2. /\ q.step = "evaluate" /\ q.agent = a + 1 /\ q.promoted = p /\ q.demoted = d
        /\ q.todo = pass[c].todo /\ a + 1 \in Agents
    BY <1>2, <1>4, <1>5 DEF PassType, Agents
  <2>3. q \in PassType
    BY <1>1, <1>2, <2>2 DEF PassType, Lists
  <2> HIDE DEF q
  <2>4. OneEach(q.todo) /\ q.todo = <<>>
    BY <1>2, <2>2 DEF ListsFit
  <2>5. \A x \in Range(p) \cup Range(d) : x.agent \in Int
    <3>1. Range(p) \subseteq Change /\ Range(d) \subseteq Change
      BY <1>1, RangeOfList DEF Lists
    <3>2. QED
      BY <3>1 DEF Change, Agents
  <2>6. ListsFit(q)
    BY <1>1, <1>4, <2>2, <2>4, <2>5 DEF Lists, ListsFit
  <2>7. PassesFit'
    BY <1>2, <1>5, <2>1, <2>2, <2>3, <2>6, PassSteps
  <2>8. QED
    BY <1>2, <1>3, <2>7, AcademyIsPassesFit DEF AcademyInv, PassesFit
<1>6. CASE a = NumAgents /\ tickLock' = Released(c, p \o Cut(d))
           /\ pass' = [pass EXCEPT ![c] = Rest(c, p \o Cut(d))]
  <2> DEFINE todo == p \o Cut(d)
  <2>1. todo \in Seq(Change) /\ OneEach(todo)
    <3>1. Cut(d) \in Seq(Change) /\ OneEach(Cut(d)) /\ Range(Cut(d)) \subseteq Range(d)
      BY <1>1, WorstAreCut DEF Lists
    <3>2. \A x \in Range(p), y \in Range(Cut(d)) : x.agent # y.agent
      BY <1>1, <3>1 DEF Lists
    <3>3. QED
      BY <1>1, <3>1, <3>2, Joined DEF Lists
  <2> HIDE DEF todo
  <2>2. pass' = [pass EXCEPT ![c] = Rest(c, todo)] /\ tickLock' = Released(c, todo)
    BY <1>6 DEF todo
  <2>3. PassesFit'
    BY <1>2, <2>1, <2>2, PassGoesOn
  <2>4. QED
    BY <1>2, <1>3, <2>3 DEF AcademyInv, PassesFit
<1>7. QED
  BY <1>1, <1>5, <1>6 DEF Turn

(* What is left of a list after its first change. *)
LEMMA ListRest ==
    ASSUME NEW todo \in Seq(Change), todo # <<>>, OneEach(todo)
    PROVE  /\ todo[1] \in Change /\ Tail(todo) \in Seq(Change) /\ OneEach(Tail(todo))
           /\ todo[1] \in Range(todo)
           /\ \A x \in Range(Tail(todo)) : x \in Range(todo) /\ x.agent # todo[1].agent
<1>1. /\ Tail(todo) \in Seq(Change) /\ Len(Tail(todo)) = Len(todo) - 1 /\ Len(todo) \in Nat /\ Len(todo) >= 1
      /\ \A i \in 1 .. Len(Tail(todo)) : Tail(todo)[i] = todo[i + 1]
  BY HeadTailProperties
<1>2. \A x : x \in Range(Tail(todo)) => \E i \in 2 .. Len(todo) : x = todo[i]
  <2> SUFFICES ASSUME NEW x \in Range(Tail(todo)) PROVE \E i \in 2 .. Len(todo) : x = todo[i]
    OBVIOUS
  <2>1. PICK i \in 1 .. Len(Tail(todo)) : x = Tail(todo)[i]
    BY <1>1, RangeOfList, ZenonT(30)
  <2>2. i + 1 \in 2 .. Len(todo) /\ x = todo[i + 1]
    BY <1>1, <2>1
  <2>3. QED
    BY <2>2
<1>3. \A i \in 1 .. Len(todo) : todo[i] \in Range(todo)
  BY RangeOfList
<1>4. OneEach(Tail(todo))
  <2> SUFFICES ASSUME NEW i \in 1 .. Len(Tail(todo)), NEW j \in 1 .. Len(Tail(todo)),
                      Tail(todo)[i].agent = Tail(todo)[j].agent
               PROVE  i = j
    BY DEF OneEach
  <2>1. i + 1 \in 1 .. Len(todo) /\ j + 1 \in 1 .. Len(todo) /\ todo[i + 1].agent = todo[j + 1].agent
    BY <1>1
  <2>2. i + 1 = j + 1
    BY <2>1 DEF OneEach
  <2>3. QED
    BY <2>2
<1>5. 1 \in 1 .. Len(todo) /\ todo[1] \in Change
  BY <1>1
<1>6. \A x \in Range(Tail(todo)) : x \in Range(todo) /\ x.agent # todo[1].agent
  <2> TAKE x \in Range(Tail(todo))
  <2>1. PICK i \in 2 .. Len(todo) : x = todo[i]
    BY <1>2
  <2>2. i \in 1 .. Len(todo) /\ i # 1
    BY <1>1, <2>1
  <2>3. QED
    BY <1>3, <1>5, <2>1, <2>2 DEF OneEach
<1>7. QED
  BY <1>1, <1>3, <1>4, <1>5, <1>6

LEMMA SetRank_Inv ==
    ASSUME AcademyInv, NEW c \in Callers, SetRank(c)
    PROVE  AcademyInv'
<1> DEFINE ch == pass[c].todo[1]
           q == [pass[c] EXCEPT !.step = "memory"]
<1>1. /\ pass[c].step = "row" /\ UNCHANGED <<outcomes, veterans, rank, promotions, tickLock>>
      /\ pass' = [pass EXCEPT ![c] = q]
      /\ pass[c] \in PassType /\ ListsFit(pass[c]) /\ PassesFit
  BY DEF SetRank, AcademyInv, PassesFit
<1>2. /\ q.step = "memory" /\ q.agent = pass[c].agent /\ q.promoted = pass[c].promoted
      /\ q.demoted = pass[c].demoted /\ q.todo = pass[c].todo /\ q \in PassType
  BY <1>1 DEF PassType
<1>3. ch \in Change /\ ch.agent \in Agents /\ ch.to \in Ranks
  <2>1. pass[c].todo \in Seq(Change) /\ pass[c].todo # <<>> /\ OneEach(pass[c].todo)
    BY <1>1 DEF PassType, ListsFit
  <2>2. ch \in Change
    BY <2>1, ListRest
  <2>3. QED
    BY <2>2 DEF Change
<1> HIDE DEF q, ch
<1>4. ListsFit(q)
  BY <1>1, <1>2 DEF ListsFit
<1>5. PassesFit'
  BY <1>1, <1>2, <1>4, PassSteps
<1>6. rankRow' \in [Agents -> Ranks] /\ academyFaults' \in 0 .. MaxAcademyFaults
  BY <1>3, FaultType DEF SetRank, AcademyInv, ch
<1>7. QED
  BY <1>1, <1>5, <1>6 DEF AcademyInv, PassesFit

LEMMA RebuildRisk_Inv ==
    ASSUME AcademyInv, NEW c \in Callers, RebuildRisk(c)
    PROVE  AcademyInv'
<1> DEFINE todo == pass[c].todo
           ch == todo[1]
<1>1. /\ pass[c].step = "memory" /\ UNCHANGED <<outcomes, veterans, rankRow>>
      /\ pass' = [pass EXCEPT ![c] = Rest(c, Tail(todo))] /\ tickLock' = Released(c, Tail(todo))
      /\ pass[c] \in PassType /\ ListsFit(pass[c]) /\ PassesFit
      /\ rank' = [rank EXCEPT ![ch.agent] = ch.to]
  BY DEF RebuildRisk, AcademyInv, PassesFit
<1>2. todo \in Seq(Change) /\ todo # <<>> /\ OneEach(todo)
  BY <1>1 DEF PassType, ListsFit
<1>3. Tail(todo) \in Seq(Change) /\ OneEach(Tail(todo)) /\ ch \in Change
  BY <1>2, ListRest
<1>4. PassesFit'
  BY <1>1, <1>3, PassGoesOn
<1>5. ch.agent \in Agents /\ ch.to \in Ranks /\ ch.from \in Ranks
  BY <1>3 DEF Change
<1> HIDE DEF ch, todo
<1>6. rank' \in [Agents -> Ranks]
  BY <1>1, <1>5 DEF AcademyInv
<1>7. promotions' \in [Agents -> Seq(Ranks \X Ranks)] /\ academyFaults' \in 0 .. MaxAcademyFaults
  <2>1. \/ /\ promotions' = [promotions EXCEPT ![ch.agent] = Append(promotions[ch.agent], <<ch.from, ch.to>>)]
           /\ UNCHANGED academyFaults
        \/ promotions' = promotions /\ Fault("write")
    BY DEF RebuildRisk, ch, todo
  <2>2. promotions \in [Agents -> Seq(Ranks \X Ranks)] /\ academyFaults \in 0 .. MaxAcademyFaults
    BY DEF AcademyInv
  <2>3. Append(promotions[ch.agent], <<ch.from, ch.to>>) \in Seq(Ranks \X Ranks)
    BY <1>5, <2>2
  <2>4. QED
    BY <2>1, <2>2, <2>3, FaultType
<1>8. QED
  BY <1>1, <1>4, <1>6, <1>7 DEF AcademyInv, PassesFit

LEMMA PassStarts_Inv ==
    ASSUME AcademyInv, NEW c \in Callers, PassStarts(c)
    PROVE  AcademyInv'
<1> DEFINE q == [pass[c] EXCEPT !.step = "evaluate"]
<1>1. /\ pass[c].step = "idle" /\ UNCHANGED <<outcomes, veterans, rank, rankRow, promotions, academyFaults>>
      /\ pass' = [pass EXCEPT ![c] = q]
      /\ pass[c] \in PassType /\ ListsFit(pass[c]) /\ PassesFit /\ pass \in [Callers -> PassType]
  BY DEF PassStarts, AcademyInv, PassesFit
<1>2. /\ q.step = "evaluate" /\ q.agent = pass[c].agent /\ q.promoted = pass[c].promoted
      /\ q.demoted = pass[c].demoted /\ q.todo = pass[c].todo /\ q \in PassType
  BY <1>1 DEF PassType
<1> HIDE DEF q
<1>3. ListsFit(q)
  BY <1>1, <1>2 DEF ListsFit
<1>4. /\ pass'[c] = q /\ pass' \in [Callers -> PassType]
      /\ \A k \in Callers : k # c => pass'[k] = pass[k]
  BY <1>1, <1>2
<1>5. \A k \in Callers : ListsFit(pass'[k])
  BY <1>1, <1>3, <1>4, Zenon DEF PassesFit
<1>6. /\ tickLock' \in {"none", "tick"} \cup (Callers \ {"endpoint"})
      /\ "loop" \in Callers => (tickLock' = "loop" <=> pass'["loop"].step # "idle")
  <2>1. CASE c = "loop"
    BY <1>2, <1>4, <2>1 DEF PassStarts
  <2>2. CASE c # "loop"
    BY <1>1, <1>4, <2>2 DEF PassStarts, PassesFit
  <2>3. QED
    BY <2>1, <2>2
<1>7. QED
  BY <1>1, <1>4, <1>5, <1>6 DEF AcademyInv

LEMMA AcademyNext_Inv == AcademyInv /\ [AcademyNext]_academyVars => AcademyInv'
<1> SUFFICES ASSUME AcademyInv, [AcademyNext]_academyVars PROVE AcademyInv'
  OBVIOUS
<1>1. CASE TickTakesLock
  BY <1>1 DEF TickTakesLock, AcademyInv
<1>2. CASE TickReleasesLock
  BY <1>2 DEF TickReleasesLock, AcademyInv
<1>3. ASSUME NEW a \in Agents, NEW pnl \in PnLs, TickStampsOutcome(a, pnl) PROVE AcademyInv'
  <2>1. pnl \in Int /\ outcomes \in [Agents -> Figures] /\ FiguresFit(outcomes[a])
    BY AcademyAssumption DEF AcademyInv
  <2>2. FiguresFit(With(outcomes[a], pnl))
    BY <2>1, WithFits
  <2>3. outcomes' = [outcomes EXCEPT ![a] = With(outcomes[a], pnl)]
    BY <1>3 DEF TickStampsOutcome
  <2>4. outcomes' \in [Agents -> Figures] /\ \A b \in Agents : FiguresFit(outcomes'[b])
    <3>1. With(outcomes[a], pnl) \in Figures
      BY <2>2 DEF FiguresFit
    <3>2. \A b \in Agents : outcomes'[b] = IF b = a THEN With(outcomes[a], pnl) ELSE outcomes[b]
      BY <2>1, <2>3
    <3>3. QED
      BY <2>1, <2>2, <2>3, <3>1, <3>2 DEF AcademyInv
  <2>5. QED
    BY <1>3, <2>4 DEF TickStampsOutcome, AcademyInv
<1>4. ASSUME NEW c \in Callers, PassStarts(c) \/ Evaluate(c) \/ SetRank(c) \/ RebuildRisk(c)
      PROVE  AcademyInv'
  BY <1>4, PassStarts_Inv, Evaluate_Inv, SetRank_Inv, RebuildRisk_Inv
<1>5. CASE AcademyRestarts
  <2>1. /\ rank' = rankRow /\ pass' = [c \in Callers |-> NoPass] /\ tickLock' = "none"
        /\ UNCHANGED <<outcomes, veterans, rankRow, promotions>>
        /\ academyFaults' \in 0 .. MaxAcademyFaults
    BY <1>5, FaultType DEF AcademyRestarts, AcademyInv
  <2>2. NoPass.step = "idle"
    BY DEF NoPass
  <2> HIDE DEF NoPass
  <2>3. pass' \in [Callers -> PassType] /\ \A c \in Callers : pass'[c] = NoPass /\ ListsFit(pass'[c])
    BY <2>1, NoPassFits
  <2>4. QED
    BY <2>1, <2>2, <2>3 DEF AcademyInv
<1>6. CASE UNCHANGED academyVars
  BY <1>6 DEF academyVars, AcademyInv
<1>7. QED
  BY <1>1, <1>2, <1>3, <1>4, <1>5, <1>6 DEF AcademyNext

LEMMA AcademyInvHolds == AcademySpec => []AcademyInv
  BY AcademyInit_Inv, AcademyNext_Inv, PTL DEF AcademySpec

-------------------------------------------------------------------------------
(* What a pass has decided stays right until it is done.                   *)
(* An agent without outcomes is eligible for nothing and is not demoted,   *)
(* so that a failed read decides nothing.                                  *)
ReadsDecide == "read" \notin AcademyFaults \/ 0 \notin {MinJunior, MinSenior, MinPrincipal}

(* A change that a pass has decided on is still the one to make.           *)
EligibleOf(a) == Eligible(outcomes[a], a \in veterans)
Due(a) == EligibleOf(a) < rank[a] /\ DemotionDue(outcomes[a])
Justified(x) ==
    /\ x.from = rank[x.agent]
    /\ \/ x.to = x.from + 1 /\ EligibleOf(x.agent) > x.from
       \/ x.to = x.from - 1 /\ Due(x.agent)
Decisions(c) == Range(pass[c].promoted) \cup Range(pass[c].demoted) \cup Range(pass[c].todo)
(* Every agent behind the pass that is due to be demoted is on its list.   *)
Seen(c) ==
    /\ \A a \in Agents : a < pass[c].agent /\ Due(a) => \E y \in Range(pass[c].demoted) : y.agent = a
    /\ \A y \in Range(pass[c].demoted) : y.severity = Severity(outcomes[y.agent])
(* The log tells the rank, and so does the row but for the change that is  *)
(* half made.                                                              *)
Told(log) == IF log = <<>> THEN 0 ELSE log[Len(log)][2]
RowOf(c) == rankRow[pass[c].todo[1].agent] = pass[c].todo[1].to
LogsTell ==
    /\ \A a \in Agents : Chained(promotions[a]) /\ rank[a] = Told(promotions[a])
    /\ \A a \in Agents : rankRow[a] # rank[a] =>
          \E c \in Callers : pass[c].step = "memory" /\ pass[c].todo[1].agent = a
    /\ \A c \in Callers : pass[c].step = "memory" => RowOf(c)
RanksInv ==
    /\ AcademyInv /\ Locked
    /\ \A c \in Callers : \A x \in Decisions(c) : Justified(x)
    /\ academyFaults = 0 =>
          LogsTell /\ \A c \in Callers : pass[c].step = "evaluate" => Seen(c)

LEMMA NothingForNothing ==
    ASSUME 0 \notin {MinJunior, MinSenior, MinPrincipal}, NEW v
    PROVE  Eligible(NoOutcomes, v) = 0 /\ ~DemotionDue(NoOutcomes)
<1>1. {MinJunior, MinSenior, MinPrincipal} \subseteq Nat
  BY AcademyAssumption
<1>2. NoOutcomes.n = 0
  BY DEF NoOutcomes
<1>3. ~(NoOutcomes.n >= MinJunior) /\ ~(NoOutcomes.n >= MinSenior) /\ ~(NoOutcomes.n >= MinPrincipal)
  BY <1>1, <1>2
<1> HIDE DEF NoOutcomes
<1>4. QED
  BY <1>3 DEF Eligible, DemotionDue

(* What a pass decides for an agent is justified, and is all there is to   *)
(* decide.                                                                 *)
LEMMA DecidedIsJustified ==
    ASSUME ReadsDecide, AcademyInv, NEW c \in Callers, NEW o, FiguresFit(o), Read(c, o)
    PROVE  LET a == pass[c].agent IN
           /\ \A x \in Range(Promoted(a, o)) \cup Range(Demoted(a, o)) : Justified(x) /\ x.agent = a
           /\ academyFaults' = 0 =>
                 /\ Due(a) => \E y \in Range(Demoted(a, o)) : y.agent = a
                 /\ \A y \in Range(Demoted(a, o)) : y.severity = Severity(outcomes[y.agent])
<1> DEFINE a == pass[c].agent
<1>1. a \in Agents /\ rank[a] \in 0 .. 3 /\ academyFaults \in Nat
  BY AcademyAssumption DEF AcademyInv, PassType, Ranks
<1>2. /\ \A x \in Range(Promoted(a, o)) : /\ x.agent = a /\ x.from = rank[a] /\ x.to = x.from + 1
                                         /\ Eligible(o, a \in veterans) > rank[a]
      /\ \A x \in Range(Demoted(a, o)) : /\ x.agent = a /\ x.from = rank[a] /\ x.to = x.from - 1
                                        /\ Eligible(o, a \in veterans) < rank[a] /\ DemotionDue(o)
                                        /\ x.severity = Severity(o)
      /\ Eligible(o, a \in veterans) < rank[a] /\ DemotionDue(o) =>
            \E x \in Range(Demoted(a, o)) : x.agent = a
  BY <1>1, Decided
<1> HIDE DEF a
<1>3. CASE o = outcomes[a]
  BY <1>2, <1>3 DEF Justified, Due, EligibleOf, a
<1>4. CASE o = NoOutcomes /\ Fault("read")
  <2>1. Eligible(o, a \in veterans) = 0 /\ ~DemotionDue(o) /\ academyFaults' # 0
    BY <1>1, <1>4, NothingForNothing DEF Fault, ReadsDecide
  <2>2. Range(Promoted(a, o)) = {} /\ Range(Demoted(a, o)) = {}
    BY <1>1, <1>2, <2>1
  <2>3. QED
    BY <2>1, <2>2 DEF a
<1>5. QED
  BY <1>3, <1>4 DEF Read, a

LEMMA ChainAppend ==
    ASSUME NEW log \in Seq(Ranks \X Ranks), Chained(log), NEW to \in Ranks, NEW from \in Ranks, from = Told(log)
    PROVE  Chained(Append(log, <<from, to>>)) /\ Told(Append(log, <<from, to>>)) = to
<1> DEFINE new == Append(log, <<from, to>>)
           n == Len(log)
<1>1. /\ n \in Nat /\ DOMAIN log = 1 .. n /\ Len(new) = n + 1 /\ DOMAIN new = 1 .. n + 1 /\ new # <<>>
      /\ \A i \in 1 .. n : new[i] = log[i]
      /\ new[n + 1] = <<from, to>>
  OBVIOUS
<1> HIDE DEF new
<1>2. Told(new) = to
  BY <1>1 DEF Told
<1>3. ASSUME NEW i \in 1 .. n + 1 PROVE new[i][1] = (IF i = 1 THEN 0 ELSE new[i - 1][2])
  <2>1. CASE i = n + 1
    <3>1. new[i][1] = from
      BY <1>1, <2>1
    <3>2. CASE n = 0
      BY <1>1, <2>1, <3>1, <3>2 DEF Told
    <3>3. CASE n # 0
      <4>1. log # <<>> /\ new[i - 1] = log[n] /\ i # 1
        BY <1>1, <2>1, <3>3
      <4>2. QED
        BY <3>1, <4>1 DEF Told
    <3>4. QED
      BY <3>2, <3>3
  <2>2. CASE i # n + 1
    <3>1. i \in 1 .. n /\ new[i] = log[i] /\ (i # 1 => i - 1 \in 1 .. n /\ new[i - 1] = log[i - 1])
      BY <1>1, <2>2
    <3>2. QED
      BY <1>1, <3>1 DEF Chained
  <2>3. QED
    BY <2>1, <2>2
<1>4. Chained(new)
  BY <1>1, <1>3 DEF Chained
<1>5. QED
  BY <1>2, <1>4 DEF new

(* A pass that is not under way has decided on nothing. *)
LEMMA IdleDecidesNothing ==
    ASSUME NEW p \in PassType, ListsFit(p), p.step = "idle"
    PROVE  p.promoted = <<>> /\ p.demoted = <<>> /\ p.todo = <<>> /\ p.agent = 1
  BY DEF ListsFit
LEMMA NothingRanges == Range(<<>>) = {}
  BY DEF Range

LEMMA RanksInit_Inv == ASSUME AcademyInit PROVE RanksInv
<1>1. AcademyInv /\ Locked
  BY AcademyInit_Inv, LockedInit
<1>2. \A c \in Callers : pass[c] = NoPass
  BY DEF AcademyInit
<1>3. \A c \in Callers : Decisions(c) = {} /\ pass[c].step = "idle"
  <2>1. NoPass.step = "idle" /\ NoPass.promoted = <<>> /\ NoPass.demoted = <<>> /\ NoPass.todo = <<>>
    BY DEF NoPass
  <2> HIDE DEF NoPass
  <2>2. QED
    BY <1>2, <2>1, NothingRanges DEF Decisions
<1>4. LogsTell
  <2>1. \A a \in Agents : promotions[a] = <<>> /\ rank[a] = 0 /\ rankRow[a] = rank[a]
    BY DEF AcademyInit
  <2>2. Chained(<<>>) /\ Told(<<>>) = 0
    BY DEF Chained, Told
  <2>3. QED
    BY <1>3, <2>1, <2>2 DEF LogsTell
<1>5. QED
  BY <1>1, <1>3, <1>4 DEF RanksInv

LEMMA JustifiedFrame ==
    ASSUME UNCHANGED <<outcomes, veterans>>, NEW x, Justified(x), rank'[x.agent] = rank[x.agent]
    PROVE  Justified(x)'
  BY DEF Justified, Due, EligibleOf

LEMMA LogsFrame ==
    ASSUME LogsTell, UNCHANGED <<rank, rankRow, promotions>>,
           \A c \in Callers : pass[c].step # "memory" /\ pass'[c].step # "memory"
    PROVE  LogsTell'
  BY DEF LogsTell

LEMMA FaultsOnlyGrow ==
    ASSUME AcademyInv, [AcademyNext]_academyVars, academyFaults' = 0
    PROVE  academyFaults = 0 /\ UNCHANGED academyFaults
<1>1. academyFaults \in Nat
  BY AcademyAssumption DEF AcademyInv
<1>2. \A f : ~Fault(f)
  BY <1>1, SMTT(30) DEF Fault
<1>3. UNCHANGED academyFaults
  BY <1>2 DEF AcademyNext, TickTakesLock, TickReleasesLock, TickStampsOutcome, PassStarts, Evaluate,
         SetRank, RebuildRisk, AcademyRestarts, academyVars
<1>4. QED
  BY <1>3

LEMMA RanksEvaluate ==
    ASSUME OnlyTheLoop, ReadsDecide, RanksInv, NEW c \in Callers, Evaluate(c)
    PROVE  /\ \A k \in Callers : \A x \in Decisions(k)' : Justified(x)'
           /\ academyFaults' = 0 =>
                 /\ LogsTell' /\ \A k \in Callers : pass'[k].step = "evaluate" => Seen(k)'
                 /\ pass'[c].step = "row" =>
                       LET todo == pass'[c].todo
                           down == {x \in Range(todo) : x.to < x.from}
                       IN  /\ 100 * Cardinality(down) <= DemoteCapPct * NumAgents
                           /\ \A x \in down, a \in Agents :
                                 Due(a) /\ (\A y \in down : y.agent # a) => Severity(outcomes[a]) <= x.severity
<1> DEFINE a == pass[c].agent
<1>1. AcademyInv /\ \A k \in Callers : k = c
  BY DEF RanksInv, OnlyTheLoop
<1>2. PICK o, p, d :
        /\ FiguresFit(o) /\ Read(c, o) /\ Lists(p, d, a) /\ Turn(c, p, d)
        /\ Range(p) = Range(pass[c].promoted) \cup Range(Promoted(a, o))
        /\ Range(d) = Range(pass[c].demoted) \cup Range(Demoted(a, o))
  BY <1>1, Evaluated
<1>3. /\ pass[c].step = "evaluate" /\ UNCHANGED <<outcomes, veterans, rank, rankRow, promotions>>
      /\ pass[c] \in PassType /\ ListsFit(pass[c]) /\ pass \in [Callers -> PassType]
      /\ a \in 1 .. NumAgents /\ NumAgents \in Nat /\ pass[c].todo = <<>>
  BY <1>1, AcademyAssumption DEF Evaluate, AcademyInv, ListsFit, PassType, Agents
<1>4. /\ \A x \in Range(Promoted(a, o)) \cup Range(Demoted(a, o)) : Justified(x) /\ x.agent = a
      /\ academyFaults' = 0 =>
            /\ Due(a) => \E y \in Range(Demoted(a, o)) : y.agent = a
            /\ \A y \in Range(Demoted(a, o)) : y.severity = Severity(outcomes[y.agent])
  BY <1>1, <1>2, DecidedIsJustified
<1>5. \A x \in Range(p) \cup Range(d) : Justified(x)
  BY <1>2, <1>4 DEF RanksInv, Decisions
<1>6. \A x : Justified(x) => Justified(x)'
  BY <1>3, JustifiedFrame
<1>7. academyFaults' = 0 => academyFaults = 0
  BY <1>1, FaultsOnlyGrow DEF AcademyNext
<1>8. ASSUME academyFaults' = 0
      PROVE  /\ \A b \in Agents : b <= a /\ Due(b) => \E y \in Range(d) : y.agent = b
             /\ \A y \in Range(d) : y.severity = Severity(outcomes[y.agent])
  <2>1. Seen(c)
    BY <1>3, <1>7, <1>8 DEF RanksInv
  <2>2. \A b \in Agents : b <= a => b < a \/ b = a
    BY <1>3 DEF Agents
  <2>3. QED
    BY <1>2, <1>4, <1>8, <2>1, <2>2 DEF Seen
<1> HIDE DEF a
<1>9. CASE a < NumAgents /\ tickLock' = tickLock
           /\ pass' = [pass EXCEPT ![c].agent = a + 1, ![c].promoted = p, ![c].demoted = d]
  <2>1. /\ pass'[c].agent = a + 1 /\ pass'[c].promoted = p /\ pass'[c].demoted = d
        /\ pass'[c].todo = <<>> /\ pass'[c].step = "evaluate"
    BY <1>3, <1>9 DEF PassType
  <2>2. \A k \in Callers : \A x \in Decisions(k)' : Justified(x)'
    BY <1>1, <1>5, <1>6, <2>1, NothingRanges DEF Decisions
  <2>3. ASSUME academyFaults' = 0 PROVE LogsTell' /\ Seen(c)'
    <3>1. LogsTell'
      BY <1>1, <1>3, <1>7, <2>1, <2>3, LogsFrame DEF RanksInv
    <3>2. \A b \in Agents : Due(b)' = Due(b) /\ (b < a + 1 => b <= a)
      BY <1>3 DEF Due, EligibleOf, Agents
    <3>3. QED
      BY <1>3, <1>8, <2>1, <2>3, <3>1, <3>2 DEF Seen
  <2>4. QED
    BY <1>1, <2>1, <2>2, <2>3
<1>10. CASE a = NumAgents /\ tickLock' = Released(c, p \o Cut(d))
            /\ pass' = [pass EXCEPT ![c] = Rest(c, p \o Cut(d))]
  <2> DEFINE cut == Cut(d)
             todo == p \o cut
  <2>1. /\ cut \in Seq(Change) /\ OneEach(cut) /\ Range(cut) \subseteq Range(d)
        /\ 100 * Cardinality(Range(cut)) <= DemoteCapPct * NumAgents
        /\ \A x \in Range(cut), y \in Range(d) \ Range(cut) : y.severity <= x.severity
    BY <1>2, WorstAreCut DEF Lists
  <2>2. Range(todo) = Range(p) \cup Range(cut)
    <3>1. \A x \in Range(p), y \in Range(cut) : x.agent # y.agent
      BY <1>2, <2>1 DEF Lists
    <3> HIDE DEF cut
    <3>2. QED
      BY <1>2, <2>1, <3>1, Joined DEF Lists
  <2>3. pass'[c] = Rest(c, todo)
    BY <1>3, <1>10
  <2> HIDE DEF todo
  <2>4. /\ pass'[c].promoted = <<>> /\ pass'[c].demoted = <<>> /\ pass'[c].todo = todo
        /\ pass'[c].step \in {"idle", "row"}
    BY <2>3 DEF Rest, NoPass
  <2> HIDE DEF cut
  <2>5. \A k \in Callers : \A x \in Decisions(k)' : Justified(x)'
    BY <1>1, <1>5, <1>6, <2>1, <2>2, <2>4, NothingRanges DEF Decisions
  <2>6. ASSUME academyFaults' = 0 PROVE LogsTell'
    BY <1>1, <1>3, <1>7, <2>4, <2>6, LogsFrame DEF RanksInv
  <2>7. {x \in Range(todo) : x.to < x.from} = Range(cut)
    <3>1. /\ \A x \in Range(p) : x.to = x.from + 1 /\ x.from \in Int
          /\ \A x \in Range(d) : x.to = x.from - 1 /\ x.from \in Int
      <4>1. Range(p) \subseteq Change /\ Range(d) \subseteq Change
        BY <1>2, RangeOfList DEF Lists
      <4>2. QED
        BY <1>2, <4>1 DEF Lists, Change, Ranks
    <3>2. QED
      BY <2>1, <2>2, <3>1
  <2>8. ASSUME academyFaults' = 0, NEW x \in Range(cut), NEW b \in Agents, Due(b),
               \A y \in Range(cut) : y.agent # b
        PROVE  Severity(outcomes[b]) <= x.severity
    <3>1. b <= a
      BY <1>3, <1>10 DEF Agents
    <3>2. PICK y \in Range(d) : y.agent = b
      BY <1>8, <2>8, <3>1
    <3>3. y.severity = Severity(outcomes[b]) /\ y \notin Range(cut)
      BY <1>8, <2>8, <3>2
    <3>4. QED
      BY <2>1, <3>2, <3>3
  <2>9. QED
    BY <1>1, <2>1, <2>4, <2>5, <2>6, <2>7, <2>8
<1>11. QED
  BY <1>2, <1>9, <1>10 DEF Turn, a

LEMMA RanksSetRank ==
    ASSUME OnlyTheLoop, RanksInv, NEW c \in Callers, SetRank(c)
    PROVE  /\ \A k \in Callers : \A x \in Decisions(k)' : Justified(x)'
           /\ academyFaults' = 0 =>
                 LogsTell' /\ \A k \in Callers : pass'[k].step = "evaluate" => Seen(k)'
<1> DEFINE ch == pass[c].todo[1]
<1>1. AcademyInv /\ \A k \in Callers : k = c
  BY DEF RanksInv, OnlyTheLoop
<1>2. /\ pass[c].step = "row" /\ UNCHANGED <<outcomes, veterans, rank, promotions>>
      /\ pass[c] \in PassType /\ ListsFit(pass[c]) /\ pass \in [Callers -> PassType]
      /\ pass' = [pass EXCEPT ![c].step = "memory"]
  BY <1>1 DEF SetRank, AcademyInv
<1>3. /\ pass'[c].promoted = pass[c].promoted /\ pass'[c].demoted = pass[c].demoted
      /\ pass'[c].todo = pass[c].todo /\ pass'[c].step = "memory"
  BY <1>2 DEF PassType
<1>4. \A x : Justified(x) => Justified(x)'
  BY <1>2, JustifiedFrame
<1>5. \A k \in Callers : \A x \in Decisions(k)' : Justified(x)'
  BY <1>1, <1>3, <1>4 DEF Decisions, RanksInv
<1>6. ASSUME academyFaults' = 0 PROVE LogsTell'
  <2>1. academyFaults = 0 /\ UNCHANGED academyFaults
    BY <1>1, <1>6, FaultsOnlyGrow DEF AcademyNext
  <2>2. \A b \in Agents : rankRow[b] = rank[b] /\ Chained(promotions[b]) /\ rank[b] = Told(promotions[b])
    BY <1>1, <1>2, <2>1 DEF RanksInv, LogsTell
  <2>3. rankRow' = [rankRow EXCEPT ![ch.agent] = ch.to]
    <3>1. academyFaults \in Nat
      BY <2>1
    <3>2. QED
      BY <2>1, <3>1 DEF SetRank, Fault
  <2>4. ch.agent \in Agents
    <3>1. ch \in Change
      BY <1>2, ListRest DEF PassType, ListsFit
    <3>2. QED
      BY <3>1 DEF Change
  <2>5. pass'[c].todo[1] = ch
    BY <1>3
  <2> HIDE DEF ch
  <2>6. rankRow'[ch.agent] = ch.to /\ \A b \in Agents : b # ch.agent => rankRow'[b] = rankRow[b]
    BY <1>1, <2>3, <2>4 DEF AcademyInv
  <2>7. QED
    BY <1>1, <1>2, <1>3, <2>2, <2>5, <2>6 DEF LogsTell, RowOf
<1>7. QED
  BY <1>1, <1>3, <1>5, <1>6

LEMMA RanksRebuildRisk ==
    ASSUME OnlyTheLoop, RanksInv, NEW c \in Callers, RebuildRisk(c)
    PROVE  /\ \A k \in Callers : \A x \in Decisions(k)' : Justified(x)'
           /\ academyFaults' = 0 =>
                 LogsTell' /\ \A k \in Callers : pass'[k].step = "evaluate" => Seen(k)'
           /\ \A a \in Agents : rank'[a] # rank[a] =>
                 \/ rank'[a] = rank[a] + 1 /\ EligibleOf(a) > rank[a]
                 \/ rank'[a] = rank[a] - 1 /\ Due(a)
<1> DEFINE todo == pass[c].todo
           ch == todo[1]
<1>1. AcademyInv /\ \A k \in Callers : k = c
  BY DEF RanksInv, OnlyTheLoop
<1>2. /\ pass[c].step = "memory" /\ UNCHANGED <<outcomes, veterans, rankRow>>
      /\ pass[c] \in PassType /\ ListsFit(pass[c]) /\ pass \in [Callers -> PassType]
      /\ pass' = [pass EXCEPT ![c] = Rest(c, Tail(todo))]
      /\ rank' = [rank EXCEPT ![ch.agent] = ch.to] /\ rank \in [Agents -> Ranks]
      /\ promotions \in [Agents -> Seq(Ranks \X Ranks)]
  BY <1>1 DEF RebuildRisk, AcademyInv
<1>3. todo \in Seq(Change) /\ todo # <<>> /\ OneEach(todo)
  BY <1>2 DEF PassType, ListsFit
<1>4. /\ ch \in Change /\ ch \in Range(todo) /\ Tail(todo) \in Seq(Change)
      /\ \A x \in Range(Tail(todo)) : x \in Range(todo) /\ x.agent # ch.agent
  BY <1>3, ListRest
<1>5. ch.agent \in Agents /\ ch.from \in Ranks /\ ch.to \in Ranks
  BY <1>4 DEF Change
<1>6. /\ pass'[c].promoted = <<>> /\ pass'[c].demoted = <<>> /\ pass'[c].todo = Tail(todo)
      /\ pass'[c].step \in {"idle", "row"}
  <2>1. pass'[c] = Rest(c, Tail(todo))
    BY <1>2
  <2> HIDE DEF todo
  <2>2. QED
    BY <2>1 DEF Rest, NoPass
<1>7. Justified(ch) /\ \A x \in Range(todo) : Justified(x) /\ x.agent \in Agents
  <2>1. Range(todo) \subseteq Change
    BY <1>3, RangeOfList
  <2>2. QED
    BY <1>4, <2>1 DEF RanksInv, Decisions, Change
<1> HIDE DEF todo, ch
<1>8. rank'[ch.agent] = ch.to /\ \A a \in Agents : a # ch.agent => rank'[a] = rank[a]
  BY <1>2, <1>5
<1>9. \A x \in Range(Tail(todo)) : Justified(x)'
  BY <1>2, <1>4, <1>7, <1>8, JustifiedFrame
<1>10. \A k \in Callers : \A x \in Decisions(k)' : Justified(x)'
  BY <1>1, <1>6, <1>9, NothingRanges DEF Decisions
<1>11. ASSUME academyFaults' = 0 PROVE LogsTell'
  <2>1. academyFaults = 0 /\ UNCHANGED academyFaults
    BY <1>1, <1>11, FaultsOnlyGrow DEF AcademyNext
  <2>2. LogsTell
    BY <2>1 DEF RanksInv
  <2>3. promotions' = [promotions EXCEPT ![ch.agent] = Append(promotions[ch.agent], <<ch.from, ch.to>>)]
    <3>1. academyFaults \in Nat
      BY <2>1
    <3>2. QED
      BY <2>1, <3>1 DEF RebuildRisk, Fault, ch, todo
  <2> DEFINE log == promotions[ch.agent]
             new == Append(log, <<ch.from, ch.to>>)
  <2>4. /\ log \in Seq(Ranks \X Ranks) /\ promotions'[ch.agent] = new
        /\ \A a \in Agents : a # ch.agent => promotions'[a] = promotions[a]
    BY <1>2, <1>5, <2>3
  <2>5. Chained(log) /\ ch.from = Told(log)
    BY <1>5, <1>7, <2>2 DEF LogsTell, Justified
  <2> HIDE DEF log
  <2>6. Chained(new) /\ Told(new) = ch.to
    BY <1>5, <2>4, <2>5, ChainAppend
  <2> HIDE DEF new
  <2>7. \A a \in Agents : Chained(promotions'[a]) /\ rank'[a] = Told(promotions'[a])
    <3> TAKE a \in Agents
    <3>1. CASE a = ch.agent
      BY <1>8, <2>4, <2>6, <3>1
    <3>2. CASE a # ch.agent
      BY <1>8, <2>2, <2>4, <3>2 DEF LogsTell
    <3>3. QED
      BY <3>1, <3>2
  <2>8. rankRow[ch.agent] = ch.to /\ \A a \in Agents : rankRow[a] # rank[a] => a = ch.agent
    BY <1>1, <1>2, <2>2 DEF LogsTell, RowOf, ch, todo
  <2>9. \A a \in Agents : rankRow'[a] = rank'[a]
    BY <1>2, <1>8, <2>8
  <2>10. \A k \in Callers : pass'[k].step # "memory"
    BY <1>1, <1>6
  <2>11. QED
    BY <2>7, <2>9, <2>10 DEF LogsTell
<1>12. \A a \in Agents : rank'[a] # rank[a] =>
          \/ rank'[a] = rank[a] + 1 /\ EligibleOf(a) > rank[a]
          \/ rank'[a] = rank[a] - 1 /\ Due(a)
  BY <1>7, <1>8 DEF Justified
<1>13. QED
  BY <1>1, <1>6, <1>10, <1>11, <1>12, SMTT(30)

LEMMA RanksNext_Inv ==
    ASSUME OnlyTheLoop, ReadsDecide, RanksInv, [AcademyNext]_academyVars
    PROVE  RanksInv'
<1> USE DEF RanksInv
<1>1. AcademyInv /\ AcademyInv' /\ Locked /\ Locked'
  BY AcademyNext_Inv, LockedStep
<1>2. \A k \in Callers : pass[k] \in PassType /\ ListsFit(pass[k])
  BY <1>1 DEF AcademyInv
<1>3. ASSUME pass' = pass, UNCHANGED <<outcomes, veterans, rank, rankRow, promotions, academyFaults>>
      PROVE  RanksInv'
  <2>1. \A x : Justified(x)' = Justified(x)
    BY <1>3 DEF Justified, Due, EligibleOf
  <2>2. \A c \in Callers : Decisions(c)' = Decisions(c) /\ Seen(c)' = Seen(c)
    BY <1>3 DEF Decisions, Seen, Due, EligibleOf
  <2>3. LogsTell' = LogsTell
    BY <1>3 DEF LogsTell, RowOf
  <2>4. QED
    BY <1>1, <1>3, <2>1, <2>2, <2>3
<1>4. ASSUME NEW a \in Agents, NEW pnl \in PnLs, TickStampsOutcome(a, pnl) PROVE RanksInv'
  <2>1. \A k \in Callers : pass[k].step = "idle" /\ pass'[k] = pass[k]
    BY <1>1, <1>4 DEF TickStampsOutcome, Locked
  <2>2. \A k \in Callers : Decisions(k)' = {}
    BY <1>2, <2>1, IdleDecidesNothing, NothingRanges DEF Decisions
  <2>3. LogsTell => LogsTell'
    BY <1>4, <2>1, LogsFrame DEF TickStampsOutcome
  <2>4. QED
    BY <1>1, <1>4, <2>1, <2>2, <2>3 DEF TickStampsOutcome
<1>5. ASSUME NEW c \in Callers, PassStarts(c) PROVE RanksInv'
  <2>1. \A k \in Callers : k = c
    BY DEF OnlyTheLoop
  <2>2. /\ pass[c].step = "idle" /\ pass'[c].step = "evaluate" /\ pass'[c].agent = pass[c].agent
        /\ pass'[c].promoted = pass[c].promoted /\ pass'[c].demoted = pass[c].demoted
        /\ pass'[c].todo = pass[c].todo
    BY <1>1, <1>5 DEF PassStarts, AcademyInv, PassType
  <2>3. /\ pass'[c].promoted = <<>> /\ pass'[c].demoted = <<>> /\ pass'[c].todo = <<>> /\ pass'[c].agent = 1
    BY <1>2, <2>2, IdleDecidesNothing
  <2>4. \A k \in Callers : Decisions(k)' = {} /\ Seen(k)'
    BY <2>1, <2>3, NothingRanges DEF Decisions, Seen, Agents
  <2>5. LogsTell => LogsTell'
    BY <1>5, <2>1, <2>2, LogsFrame DEF PassStarts
  <2>6. QED
    BY <1>1, <1>5, <2>4, <2>5 DEF PassStarts
<1>6. academyFaults' = 0 => academyFaults = 0
  BY <1>1, FaultsOnlyGrow
<1>7. ASSUME NEW c \in Callers, Evaluate(c) PROVE RanksInv'
  BY <1>1, <1>7, RanksEvaluate
<1>8. ASSUME NEW c \in Callers, SetRank(c) PROVE RanksInv'
  BY <1>1, <1>8, RanksSetRank
<1>9. ASSUME NEW c \in Callers, RebuildRisk(c) PROVE RanksInv'
  BY <1>1, <1>9, RanksRebuildRisk
<1>10. CASE AcademyRestarts
  <2>1. academyFaults' # 0
    BY <1>1, <1>10, FaultsOnlyGrow, AcademyAssumption DEF AcademyRestarts, Fault, AcademyInv
  <2>2. \A k \in Callers : pass'[k] = NoPass
    BY <1>10 DEF AcademyRestarts
  <2>3. NoPass.promoted = <<>> /\ NoPass.demoted = <<>> /\ NoPass.todo = <<>>
    BY DEF NoPass
  <2> HIDE DEF NoPass
  <2>4. \A k \in Callers : Decisions(k)' = {}
    BY <2>2, <2>3, NothingRanges DEF Decisions
  <2>5. QED
    BY <1>1, <2>1, <2>4
<1>11. QED
  BY <1>3, <1>4, <1>5, <1>7, <1>8, <1>9, <1>10
  DEF AcademyNext, TickTakesLock, TickReleasesLock, academyVars

(* A rank changes by one step and for a reason. *)
LEMMA StepsAreWarranted ==
    ASSUME OnlyTheLoop, ReadsDecide, RanksInv, [AcademyNext]_academyVars, academyFaults' = academyFaults,
           NEW a \in Agents, rank'[a] # rank[a]
    PROVE  \/ rank'[a] = rank[a] + 1 /\ EligibleOf(a) > rank[a]
           \/ rank'[a] = rank[a] - 1 /\ Due(a)
<1>1. academyFaults \in Nat
  BY AcademyAssumption DEF RanksInv, AcademyInv
<1>2. ~AcademyRestarts
  BY <1>1, SMTT(30) DEF AcademyRestarts, Fault
<1>3. PICK c \in Callers : RebuildRisk(c)
  BY <1>2 DEF AcademyNext, TickTakesLock, TickReleasesLock, TickStampsOutcome, PassStarts, Evaluate,
         SetRank, academyVars
<1>4. QED
  BY <1>3, RanksRebuildRisk

(* A pass demotes few, and the worst. *)
LEMMA StepsTakeTheWorst ==
    ASSUME OnlyTheLoop, ReadsDecide, RanksInv, [AcademyNext]_academyVars, academyFaults' = 0,
           NEW c \in Callers, pass[c].step = "evaluate", pass'[c].step = "row"
    PROVE  Evaluate(c)
<1>1. \A k \in Callers : k = c
  BY DEF OnlyTheLoop
<1>2. NoPass.step = "idle" /\ c \in DOMAIN pass
  BY DEF NoPass, RanksInv, Locked
<1> HIDE DEF NoPass
<1>3. QED
  BY <1>1, <1>2 DEF AcademyNext, TickTakesLock, TickReleasesLock, TickStampsOutcome, PassStarts,
         SetRank, RebuildRisk, AcademyRestarts, academyVars

(* Where only the curriculum loop runs passes, ranks are earned: the log   *)
(* tells the rank, every change is warranted by the outcomes of the moment *)
(* it takes effect, and the worst are demoted first (academy/curriculum.py).*)
THEOREM RanksAreEarnedHolds ==
    ASSUME Callers \subseteq {"loop"},
           "read" \notin AcademyFaults \/ 0 \notin {MinJunior, MinSenior, MinPrincipal}
    PROVE  AcademySpec => RanksAreEarned
<1>1. OnlyTheLoop /\ ReadsDecide
  BY DEF OnlyTheLoop, ReadsDecide
<1>2. AcademyInit => RanksInv
  BY RanksInit_Inv
<1>3. RanksInv /\ [AcademyNext]_academyVars => RanksInv'
  BY <1>1, RanksNext_Inv
<1>4. RanksInv => PromotionsTellTheRank
  BY DEF RanksInv, LogsTell, Told, PromotionsTellTheRank
<1>5. RanksInv /\ [AcademyNext]_academyVars =>
        [\A a \in Agents : rank'[a] # rank[a] /\ academyFaults' = academyFaults =>
          LET eligible == Eligible(outcomes[a], a \in veterans) IN
          \/ rank'[a] = rank[a] + 1 /\ eligible > rank[a]
          \/ rank'[a] = rank[a] - 1 /\ eligible < rank[a] /\ DemotionDue(outcomes[a])]_academyVars
  BY <1>1, StepsAreWarranted DEF Due, EligibleOf
<1>6. RanksInv /\ [AcademyNext]_academyVars =>
        [\A c \in Callers : pass[c].step = "evaluate" /\ pass'[c].step = "row" /\ academyFaults' = 0 =>
          LET down == {ch \in Range(pass'[c].todo) : ch.to < ch.from}
              spared == {a \in Agents : /\ Eligible(outcomes[a], a \in veterans) < rank[a]
                                        /\ DemotionDue(outcomes[a])
                                        /\ \A ch \in down : ch.agent # a}
          IN  /\ 100 * Cardinality(down) <= DemoteCapPct * NumAgents
              /\ \A ch \in down, a \in spared : Severity(outcomes[a]) <= ch.severity]_academyVars
  <2> SUFFICES ASSUME RanksInv, [AcademyNext]_academyVars, NEW c \in Callers,
                      pass[c].step = "evaluate", pass'[c].step = "row", academyFaults' = 0
               PROVE  LET down == {ch \in Range(pass'[c].todo) : ch.to < ch.from}
                          spared == {a \in Agents : /\ Eligible(outcomes[a], a \in veterans) < rank[a]
                                                    /\ DemotionDue(outcomes[a])
                                                    /\ \A ch \in down : ch.agent # a}
                      IN  /\ 100 * Cardinality(down) <= DemoteCapPct * NumAgents
                          /\ \A ch \in down, a \in spared : Severity(outcomes[a]) <= ch.severity
    OBVIOUS
  <2>1. Evaluate(c)
    BY <1>1, StepsTakeTheWorst
  <2>2. QED
    BY <1>1, <2>1, RanksEvaluate DEF Due, EligibleOf
<1>7. QED
  BY <1>2, <1>3, <1>4, <1>5, <1>6, PTL
  DEF AcademySpec, RanksAreEarned, Warranted, WorstGoFirst

-------------------------------------------------------------------------------
(* An order in hand has a price; a row is a note, and sound.               *)
NotesInv ==
    /\ NotesTypeOK
    /\ order.step # "none" => order.price \in NotePrices
    /\ OutcomesInOrder

(* What the book does with an order stays a book, and realizes a number.   *)
LEMMA OrderFills ==
    ASSUME NotesInv, order.step # "none"
    PROVE  /\ RecordFill(noteBook, order.side, 1, order.price) \in Book
           /\ RecordFill(noteBook, order.side, 1, order.price).realized - noteBook.realized \in Int
<1>1. noteBook \in Book /\ order.side \in Sides /\ order.price \in Int
  <2>1. noteBook \in Book /\ order \in [step : Steps, side : Sides, price : NotePrices \cup {0}]
    BY DEF NotesInv, NotesTypeOK
  <2>2. NotePrices \subseteq Int /\ order.price \in NotePrices
    BY JournalNotesAssumption DEF NotesInv
  <2>3. QED
    BY <2>1, <2>2
<1>2. RecordFill(noteBook, order.side, 1, order.price) \in Book
  BY <1>1, RecordFillAtCost
<1>3. QED
  BY <1>1, <1>2 DEF Book

(* A note put at the end has no outcome, so those before it stay in order. *)
LEMMA NoteWritten_Inv ==
    ASSUME NotesInv, NEW side \in Sides, orders < MaxOrders, notes' = Append(notes, NoteOf(side))
    PROVE  /\ notes' \in Seq(Note) /\ \A i \in DOMAIN notes' : Sound(notes'[i])
           /\ OutcomesInOrder'
<1>1. notes \in Seq(Note) /\ orders \in 0 .. MaxOrders /\ MaxOrders \in Nat
  BY JournalNotesAssumption DEF NotesInv, NotesTypeOK
<1>2. NoteOf(side) \in Note /\ ~NoteOf(side).stamped /\ NoteOf(side).outcome = 0
  BY <1>1 DEF NoteOf, Note, OrderIds
<1>3. /\ notes' \in Seq(Note) /\ DOMAIN notes' = 1 .. Len(notes) + 1 /\ Len(notes) \in Nat
      /\ DOMAIN notes = 1 .. Len(notes)
      /\ \A i \in 1 .. Len(notes) : notes'[i] = notes[i]
      /\ notes'[Len(notes) + 1] = NoteOf(side)
  BY <1>1, <1>2
<1>4. \A i \in DOMAIN notes' : Sound(notes'[i])
  <2>1. \A i \in DOMAIN notes : Sound(notes[i])
    BY DEF NotesInv, NotesTypeOK
  <2>2. Sound(NoteOf(side))
    BY <1>2 DEF Sound
  <2>3. QED
    BY <1>3, <2>1, <2>2
<1>5. OutcomesInOrder'
  BY <1>2, <1>3 DEF NotesInv, OutcomesInOrder
<1>6. QED
  BY <1>3, <1>4, <1>5

(* The stamp goes on the first entry note without an outcome: all before it*)
(* have theirs.                                                            *)
LEMMA Stamped_Inv ==
    ASSUME NotesInv, NEW i \in DOMAIN notes, Oldest(i), notes' = Stamp(i), realized # 0
    PROVE  /\ notes' \in Seq(Note) /\ \A j \in DOMAIN notes' : Sound(notes'[j])
           /\ OutcomesInOrder'
<1>1. notes \in Seq(Note) /\ realized \in Int /\ opened \in 0 .. MaxOrders
  BY DEF NotesInv, NotesTypeOK
<1>2. notes[i] \in Note /\ notes[i].kind = "entry" /\ ~notes[i].stamped
  BY <1>1, ElementOfSeq DEF Oldest, Open
<1>3. /\ DOMAIN notes' = DOMAIN notes
      /\ notes'[i] = [notes[i] EXCEPT !.stamped = TRUE, !.outcome = realized, !.closes = opened]
      /\ \A j \in DOMAIN notes \ {i} : notes'[j] = notes[j]
  BY <1>1 DEF Stamp
<1>4. /\ notes'[i] \in Note /\ notes'[i].kind = "entry"
      /\ notes'[i].stamped /\ notes'[i].outcome = realized
  BY <1>1, <1>2, <1>3 DEF Note
<1>5. notes' \in Seq(Note)
  <2>1. /\ DOMAIN notes = 1 .. Len(notes) /\ Len(notes) \in Nat
        /\ \A j \in DOMAIN notes : notes[j] \in Note
    BY <1>1
  <2>2. \A j \in 1 .. Len(notes) : notes'[j] \in Note
    BY <1>3, <1>4, <2>1
  <2>3. notes' = [j \in 1 .. Len(notes) |-> notes'[j]]
    BY <2>1 DEF Stamp
  <2>4. QED
    BY <2>1, <2>2, <2>3, IsASeq
<1>6. \A j \in DOMAIN notes' : Sound(notes'[j])
  <2>1. Sound(notes'[i])
    BY <1>4 DEF Sound
  <2>2. \A j \in DOMAIN notes : Sound(notes[j])
    BY DEF NotesInv, NotesTypeOK
  <2>3. QED
    BY <1>3, <2>1, <2>2
<1>7. OutcomesInOrder'
  <2> SUFFICES ASSUME NEW a \in DOMAIN notes, NEW b \in DOMAIN notes, a < b,
                      notes'[a].kind = "entry", notes'[b].kind = "entry", notes'[b].stamped
               PROVE  notes'[a].stamped
    BY <1>3 DEF OutcomesInOrder
  <2>1. CASE a = i
    BY <2>1, <1>4
  <2>2. CASE a # i /\ b = i
    <3>1. a \in Nat /\ i \in Nat
      BY <1>1
    <3>2. a \notin Open
      BY <2>2, <3>1 DEF Oldest
    <3>3. QED
      BY <1>3, <2>2, <3>2 DEF Open
  <2>3. CASE a # i /\ b # i
    BY <1>3, <2>3 DEF NotesInv, OutcomesInOrder
  <2>4. QED
    BY <2>1, <2>2, <2>3
<1>8. QED
  BY <1>5, <1>6, <1>7

LEMMA NotesInit_Inv == NotesInit => NotesInv
<1>1. NoteCapital \in Int /\ MaxOrders \in Nat /\ MaxCrashes \in Nat
  BY JournalNotesAssumption
<1>2. NewBook(NoteCapital) \in Book
  BY <1>1 DEF NewBook, Book
<1>3. NoOrder \in [step : Steps, side : Sides, price : NotePrices \cup {0}]
  BY DEF NoOrder, Steps, Sides
<1>4. 0 \in 0 .. MaxOrders /\ 0 \in 0 .. MaxCrashes /\ <<>> \in Seq(Note) /\ DOMAIN <<>> = {}
  BY <1>1
<1>5. QED
  BY <1>2, <1>3, <1>4 DEF NotesInit, NotesInv, NotesTypeOK, NoOrder, OutcomesInOrder

(* An order that ends leaves books and notes alone. *)
LEMMA OrderEnds_Inv ==
    ASSUME NotesInv, order' = NoOrder, intact' \in BOOLEAN,
           UNCHANGED <<noteBook, orders, opened, realized, notes, crashes>>
    PROVE  NotesInv'
<1>1. NoOrder \in [step : Steps, side : Sides, price : NotePrices \cup {0}] /\ NoOrder.step = "none"
  BY DEF NoOrder, Steps, Sides
<1>2. NotesTypeOK'
  BY <1>1 DEF NotesInv, NotesTypeOK
<1>3. QED
  BY <1>1, <1>2 DEF NotesInv, OutcomesInOrder

LEMMA NotesNext_Inv == NotesInv /\ [NotesNext]_notesVars => NotesInv'
<1> SUFFICES ASSUME NotesInv, [NotesNext]_notesVars PROVE NotesInv'
  OBVIOUS
<1>0. /\ order \in [step : Steps, side : Sides, price : NotePrices \cup {0}]
      /\ orders \in 0 .. MaxOrders /\ opened \in 0 .. MaxOrders
      /\ crashes \in 0 .. MaxCrashes /\ MaxOrders \in Nat /\ MaxCrashes \in Nat
      /\ notes \in Seq(Note) /\ intact \in BOOLEAN
  BY JournalNotesAssumption DEF NotesInv, NotesTypeOK
<1>1. ASSUME NEW side \in Sides, NEW price \in NotePrices, WriteNote(side, price) PROVE NotesInv'
  <2>1. /\ order' \in [step : Steps, side : Sides, price : NotePrices \cup {0}]
        /\ order'.price \in NotePrices
    BY <1>1 DEF WriteNote, Steps
  <2>2. orders' \in 0 .. MaxOrders /\ intact' \in BOOLEAN
    <3>1. orders' = orders + 1 /\ orders < MaxOrders
      BY <1>1 DEF WriteNote
    <3>2. intact' = intact \/ intact' = FALSE
      BY <1>1 DEF WriteNote
    <3>3. orders' \in 0 .. MaxOrders
      BY <1>0, <3>1
    <3>4. intact' \in BOOLEAN
      BY <1>0, <3>2, Zenon
    <3>5. QED
      BY <3>3, <3>4
  <2>3. CASE notes' = Append(notes, NoteOf(side))
    <3>1. /\ notes' \in Seq(Note) /\ \A i \in DOMAIN notes' : Sound(notes'[i])
          /\ OutcomesInOrder'
      BY <1>1, <2>3, NoteWritten_Inv DEF WriteNote
    <3>2. QED
      BY <1>1, <2>1, <2>2, <3>1 DEF WriteNote, NotesInv, NotesTypeOK
  <2>4. CASE notes' = notes
    BY <1>1, <2>1, <2>2, <2>4 DEF WriteNote, NotesInv, NotesTypeOK, OutcomesInOrder
  <2>5. QED
    BY <1>1, <2>3, <2>4 DEF WriteNote
<1>2. CASE Refused
  BY <1>0, <1>2, OrderEnds_Inv DEF Refused
<1>3. CASE CloseFill
  <2>1. noteBook' \in Book /\ realized' \in Int
    BY <1>3, OrderFills DEF CloseFill
  <2>2. order' \in [step : Steps, side : Sides, price : NotePrices \cup {0}] /\ order'.price = order.price
    BY <1>0, <1>3 DEF CloseFill, Steps
  <2>3. opened' \in 0 .. MaxOrders
    BY <1>0, <1>3 DEF CloseFill
  <2>4. order.price \in NotePrices
    BY <1>3 DEF CloseFill, NotesInv
  <2>5. NotesTypeOK'
    BY <1>0, <1>3, <2>1, <2>2, <2>3 DEF CloseFill, NotesInv, NotesTypeOK
  <2>6. QED
    BY <1>3, <2>2, <2>4, <2>5 DEF CloseFill, NotesInv, OutcomesInOrder
<1>4. CASE RecordFillFails \/ CloseOutcomeFails
  BY <1>0, <1>4, OrderEnds_Inv DEF RecordFillFails, CloseOutcomeFails
<1>5. CASE CloseOutcome
  <2>1. CASE realized # 0 /\ Open # {}
    <3>1. PICK i \in DOMAIN notes : Oldest(i) /\ notes' = Stamp(i)
      BY <1>5, <2>1 DEF CloseOutcome
    <3>2. /\ notes' \in Seq(Note) /\ \A j \in DOMAIN notes' : Sound(notes'[j])
          /\ OutcomesInOrder'
      BY <2>1, <3>1, Stamped_Inv
    <3>3. NoOrder \in [step : Steps, side : Sides, price : NotePrices \cup {0}] /\ NoOrder.step = "none"
      BY DEF NoOrder, Steps, Sides
    <3>4. QED
      BY <1>5, <3>2, <3>3 DEF CloseOutcome, NotesInv, NotesTypeOK
  <2>2. CASE ~(realized # 0 /\ Open # {})
    BY <1>0, <1>5, <2>2, OrderEnds_Inv DEF CloseOutcome
  <2>3. QED
    BY <2>1, <2>2
<1>6. CASE Restart
  <2>1. NoteCapital \in Int
    BY JournalNotesAssumption
  <2>2. NewBook(NoteCapital) \in Book
    BY <2>1 DEF NewBook, Book
  <2>3. NoOrder \in [step : Steps, side : Sides, price : NotePrices \cup {0}] /\ NoOrder.step = "none"
    BY DEF NoOrder, Steps, Sides
  <2>4. crashes' \in 0 .. MaxCrashes /\ opened' \in 0 .. MaxOrders
    BY <1>0, <1>6 DEF Restart
  <2>5. NotesTypeOK'
    <3>1. /\ notes' = notes /\ orders' = orders /\ order' = NoOrder
          /\ noteBook' = NewBook(NoteCapital) /\ realized' = 0 /\ intact' = FALSE
      BY <1>6 DEF Restart
    <3>2. notes' \in Seq(Note) /\ \A i \in DOMAIN notes' : Sound(notes'[i])
      BY <3>1 DEF NotesInv, NotesTypeOK
    <3>3. orders' \in 0 .. MaxOrders /\ realized' \in Int
      BY <1>0, <3>1
    <3>4. intact' \in BOOLEAN
      BY <3>1, Zenon
    <3>5. QED
      BY <2>2, <2>3, <2>4, <3>1, <3>2, <3>3, <3>4, Zenon DEF NotesTypeOK
  <2>6. QED
    BY <1>6, <2>3, <2>5 DEF Restart, NotesInv, OutcomesInOrder
<1>7. CASE UNCHANGED notesVars
  BY <1>7 DEF notesVars, NotesInv, NotesTypeOK, OutcomesInOrder
<1>8. QED
  BY <1>1, <1>2, <1>3, <1>4, <1>5, <1>6, <1>7 DEF NotesNext

(* A note with an outcome is no candidate for another one. *)
LEMMA StampedStays ==
    ASSUME NotesInv, NotesNext, NEW i \in DOMAIN notes, notes[i].stamped
    PROVE  i \in DOMAIN notes' /\ notes'[i] = notes[i]
<1>1. notes \in Seq(Note)
  BY DEF NotesInv, NotesTypeOK
<1>2. ASSUME NEW n, notes' = Append(notes, n) PROVE i \in DOMAIN notes' /\ notes'[i] = notes[i]
  BY <1>1, <1>2
<1>3. ASSUME NEW j \in DOMAIN notes, Oldest(j), notes' = Stamp(j)
      PROVE  i \in DOMAIN notes' /\ notes'[i] = notes[i]
  BY <1>3 DEF Oldest, Open, Stamp
<1>4. \/ notes' = notes
      \/ \E n : notes' = Append(notes, n)
      \/ \E j \in DOMAIN notes : Oldest(j) /\ notes' = Stamp(j)
  BY DEF NotesNext, WriteNote, Refused, CloseFill, RecordFillFails, CloseOutcome, CloseOutcomeFails, Restart
<1>5. QED
  BY <1>2, <1>3, <1>4

(* Outcomes are stamped oldest first and stay where they are, whatever is  *)
(* refused, fails or restarts.                                             *)
THEOREM OutcomesInOrderHolds == NotesSpec => []OutcomesInOrder /\ OutcomesAreFinal
<1>1. NotesInv => OutcomesInOrder
  BY DEF NotesInv
<1>2. NotesInv /\ [NotesNext]_notesVars =>
          [\A i \in DOMAIN notes : notes[i].stamped => i \in DOMAIN notes' /\ notes'[i] = notes[i]]_notesVars
  BY StampedStays
<1>3. QED
  BY <1>1, <1>2, NotesInit_Inv, NotesNext_Inv, PTL DEF NotesSpec, OutcomesAreFinal

-------------------------------------------------------------------------------
(* The outcomes, one for each note, and their sum over a set of notes.     *)
OutcomeOf(ns) == [i \in 1 .. Len(ns) |-> ns[i].outcome]
AddedUp(ns) == SumOf(OutcomeOf(ns), 1 .. Len(ns))

LEMMA OutcomeTypes ==
    ASSUME NEW ns \in Seq(Note)
    PROVE  /\ Len(ns) \in Nat /\ OutcomeOf(ns) \in [1 .. Len(ns) -> Int]
           /\ \A i \in 1 .. Len(ns) : OutcomeOf(ns)[i] = ns[i].outcome /\ ns[i].outcome \in Int
<1>1. Len(ns) \in Nat /\ \A i \in 1 .. Len(ns) : ns[i] \in Note
  OBVIOUS
<1>2. \A i \in 1 .. Len(ns) : ns[i].outcome \in Int
  BY <1>1 DEF Note
<1>3. QED
  BY <1>1, <1>2 DEF OutcomeOf

(* The fold over the notes is that sum. *)
LEMMA OutcomesAreSum == ASSUME notes \in Seq(Note) PROVE Outcomes = AddedUp(notes)
<1> DEFINE n == Len(notes)
           f == OutcomeOf(notes)
           R(h) == h = [T \in SUBSET (1 .. n) |->
                          IF T = {} THEN 0 ELSE h[T \ {Max(T)}] + notes[Max(T)].outcome]
           step == [p \in (1 .. n) \X Int |-> p[2] + notes[p[1]].outcome]
           c == [k \in 0 .. n |-> SumOf(f, 1 .. k)]
<1>1. n \in Nat /\ DOMAIN notes = 1 .. n /\ f \in [1 .. n -> Int]
      /\ \A i \in 1 .. n : f[i] = notes[i].outcome /\ notes[i].outcome \in Int
  BY OutcomeTypes
<1>2. Outcomes = (CHOOSE h : R(h))[1 .. n]
  BY <1>1 DEF Outcomes, FoldLeft, MapThenFoldSet
<1> HIDE DEF n, f
<1>3. step \in [(1 .. n) \X Int -> Int]
  BY <1>1
<1>4. \E h : R(h)
  <2> DEFINE V == Int
             zero == 0
  <2>0. zero \in V /\ step \in [(1 .. n) \X V -> V]
    BY <1>3
  <2> HIDE DEF step, V, zero
  <2>9. PICK h \in [SUBSET (1 .. n) -> V] : IsFold(h, zero, step, n)
    BY <1>1, <2>0, FoldExists
  <2>1. h \in [SUBSET (1 .. n) -> Int] /\ IsFold(h, 0, step, n)
    BY <2>9 DEF V, zero
  <2> DEFINE q(T) == IF T = {} THEN 0 ELSE step[<<Max(T), h[T \ {Max(T)}]>>]
             r(T) == IF T = {} THEN 0 ELSE h[T \ {Max(T)}] + notes[Max(T)].outcome
  <2>2. \A T \in SUBSET (1 .. n) : q(T) = r(T)
    <3> TAKE T \in SUBSET (1 .. n)
    <3> SUFFICES ASSUME T # {} PROVE q(T) = r(T)
      OBVIOUS
    <3>1. Max(T) \in 1 .. n
      BY <1>1, MaxOfRange
    <3>2. <<Max(T), h[T \ {Max(T)}]>> \in (1 .. n) \X Int
      BY <2>1, <3>1
    <3>3. QED
      BY <3>2 DEF step
  <2>3. h = [T \in SUBSET (1 .. n) |-> q(T)]
    BY <2>1 DEF IsFold
  <2> HIDE DEF q, r
  <2>4. h = [T \in SUBSET (1 .. n) |-> r(T)]
    BY <2>2, <2>3
  <2>5. R(h)
    BY <2>4 DEF r
  <2> HIDE DEF R
  <2>6. QED
    BY <2>5
<1>5. PICK h : R(h) /\ Outcomes = h[1 .. n]
  <2> HIDE DEF R
  <2>1. QED
    BY <1>2, <1>4
<1>6. ASSUME NEW T \in SUBSET (1 .. n)
      PROVE  h[T] = IF T = {} THEN 0 ELSE h[T \ {Max(T)}] + notes[Max(T)].outcome
  BY <1>5
<1> HIDE DEF R
<1>7. h[{}] = c[0]
  <2>1. {} \in SUBSET (1 .. n) /\ 0 \in 0 .. n /\ 1 .. 0 = {}
    BY <1>1
  <2>2. h[{}] = 0
    BY <1>6, <2>1
  <2>3. QED
    BY <2>1, <2>2, SumOfEmpty
<1>8. ASSUME NEW k \in 1 .. n, h[1 .. (k - 1)] = c[k - 1] PROVE h[1 .. k] = c[k]
  <2>1. /\ 1 .. k \in SUBSET (1 .. n) /\ 1 .. k # {} /\ Max(1 .. k) = k
        /\ (1 .. k) \ {k} = 1 .. (k - 1) /\ k - 1 \in 0 .. n
    BY <1>1, Prefix
  <2>9. k \in 0 .. n
    BY <1>1
  <2>2. h[1 .. k] = h[1 .. (k - 1)] + notes[k].outcome
    BY <1>6, <2>1
  <2>3. SumOf(f, 1 .. k) = f[k] + SumOf(f, 1 .. (k - 1)) /\ SumOf(f, 1 .. (k - 1)) \in Int
    <3>1. k - 1 \in Int /\ 1 \in Int
      BY <1>1
    <3>2. IsFiniteSet(1 .. (k - 1))
      BY <3>1, FS_Interval
    <3>3. 1 .. k = (1 .. (k - 1)) \cup {k} /\ k \notin 1 .. (k - 1)
      BY <1>1
    <3>4. \A y \in (1 .. (k - 1)) \cup {k} : f[y] \in Int
      BY <1>1, <2>1, <3>3
    <3>5. QED
      BY <3>2, <3>3, <3>4, SumOfAdd, SumOfType
  <2>4. QED
    BY <1>1, <1>8, <2>1, <2>2, <2>3, <2>9
<1>9. h[1 .. n] = c[n]
  <2> HIDE DEF c
  <2>1. \A k \in 1 .. n : h[1 .. (k - 1)] = c[k - 1] => h[1 .. k] = c[k]
    BY <1>8
  <2>2. n \in Nat
    BY <1>1
  <2>3. QED
    BY <1>7, <2>1, <2>2, FoldIsLast, Zenon
<1>10. QED
  BY <1>1, <1>5, <1>9 DEF AddedUp, n, f

LEMMA AddedUpType == ASSUME NEW ns \in Seq(Note) PROVE AddedUp(ns) \in Int
<1>1. Len(ns) \in Nat /\ \A i \in 1 .. Len(ns) : OutcomeOf(ns)[i] \in Int
  BY OutcomeTypes
<1>2. IsFiniteSet(1 .. Len(ns))
  BY <1>1, FS_Interval
<1>3. QED
  BY <1>1, <1>2, SumOfType DEF AddedUp

(* A note more, and a stamp. *)
LEMMA AddedUpAppend ==
    ASSUME NEW ns \in Seq(Note), NEW m \in Note
    PROVE  AddedUp(Append(ns, m)) = AddedUp(ns) + m.outcome /\ AddedUp(ns) \in Int
<1> DEFINE n == Len(ns)
           ms == Append(ns, m)
<1>1. n \in Nat /\ ms \in Seq(Note) /\ Len(ms) = n + 1 /\ ms[n + 1] = m /\ \A i \in 1 .. n : ms[i] = ns[i]
  OBVIOUS
<1> HIDE DEF n, ms
<1>2. 1 .. (n + 1) = (1 .. n) \cup {n + 1} /\ n + 1 \notin 1 .. n /\ IsFiniteSet(1 .. n)
  <2>1. IsFiniteSet(1 .. n)
    BY <1>1, FS_Interval
  <2>2. QED
    BY <1>1, <2>1
<1>3. \A i \in 1 .. (n + 1) : OutcomeOf(ms)[i] = ms[i].outcome /\ ms[i].outcome \in Int
  BY <1>1, OutcomeTypes
<1>4. \A i \in 1 .. n : OutcomeOf(ns)[i] = ns[i].outcome
  BY OutcomeTypes DEF n
<1>5. /\ SumOf(OutcomeOf(ms), 1 .. (n + 1)) = OutcomeOf(ms)[n + 1] + SumOf(OutcomeOf(ms), 1 .. n)
      /\ SumOf(OutcomeOf(ms), 1 .. n) \in Int
  BY <1>2, <1>3, SumOfAdd, SumOfType
<1>6. SumOf(OutcomeOf(ms), 1 .. n) = SumOf(OutcomeOf(ns), 1 .. n)
  <2>1. \A i \in 1 .. n : OutcomeOf(ms)[i] = OutcomeOf(ns)[i]
    BY <1>1, <1>2, <1>3, <1>4
  <2>2. QED
    BY <1>2, <2>1, SumOfSame
<1>7. OutcomeOf(ms)[n + 1] = m.outcome /\ m.outcome \in Int
  BY <1>1, <1>2, <1>3
<1>8. QED
  BY <1>1, <1>5, <1>6, <1>7 DEF AddedUp, n, ms

LEMMA AddedUpStamped ==
    ASSUME NEW ns \in Seq(Note), NEW ms \in Seq(Note), Len(ms) = Len(ns), NEW i \in 1 .. Len(ns),
           \A j \in 1 .. Len(ns) : j # i => ms[j] = ns[j], ns[i].outcome = 0
    PROVE  AddedUp(ms) = AddedUp(ns) + ms[i].outcome
<1> DEFINE S == (1 .. Len(ns)) \ {i}
<1>1. 1 .. Len(ns) = S \cup {i} /\ i \notin S /\ IsFiniteSet(S)
  <2>1. IsFiniteSet(1 .. Len(ns))
    BY OutcomeTypes, FS_Interval
  <2>2. QED
    BY <2>1, FS_Subset
<1>2. \A j \in 1 .. Len(ns) : /\ OutcomeOf(ns)[j] = ns[j].outcome /\ OutcomeOf(ms)[j] = ms[j].outcome
                              /\ ns[j].outcome \in Int /\ ms[j].outcome \in Int
  BY OutcomeTypes
<1> HIDE DEF S
<1>3. /\ AddedUp(ns) = OutcomeOf(ns)[i] + SumOf(OutcomeOf(ns), S)
      /\ AddedUp(ms) = OutcomeOf(ms)[i] + SumOf(OutcomeOf(ms), S)
      /\ SumOf(OutcomeOf(ns), S) \in Int
  <2>1. \A j \in S \cup {i} : OutcomeOf(ns)[j] \in Int /\ OutcomeOf(ms)[j] \in Int
    BY <1>1, <1>2
  <2>2. QED
    BY <1>1, <2>1, SumOfAdd, SumOfType DEF AddedUp
<1>4. SumOf(OutcomeOf(ns), S) = SumOf(OutcomeOf(ms), S)
  <2>1. \A j \in S : OutcomeOf(ns)[j] = OutcomeOf(ms)[j]
    BY <1>1, <1>2
  <2>2. QED
    BY <1>1, <2>1, SumOfSame
<1>5. QED
  BY <1>2, <1>3, <1>4

(* What is realized and not yet stamped is that of the fill in hand.       *)
Unstamped == IF order.step = "filled" THEN realized ELSE 0
(* While nothing fails an agent that holds its lot, or is about to, has an *)
(* entry note without an outcome, and so has a fill that closed it.        *)
EntryIsOpen ==
    \/ noteBook.qty = 1
    \/ order.step = "noted" /\ order.side = "buy"
    \/ order.step = "filled" /\ realized # 0
OutcomesInv ==
    /\ NotesInv
    /\ noteBook.qty \in {0, 1}
    /\ order.step = "noted" => (order.side = "buy" <=> noteBook.qty = 0)
    /\ order.step = "filled" /\ realized # 0 => noteBook.qty = 0
    /\ intact => AddedUp(notes) + Unstamped = noteBook.realized
    /\ intact /\ EntryIsOpen => Open # {}

(* One lot at a time: bought, and sold whole. *)
LEMMA OneLot ==
    ASSUME NEW b \in Book, NEW side \in Sides, NEW price \in Int, b.qty \in {0, 1},
           side = "buy" <=> b.qty = 0
    PROVE  /\ RecordFill(b, side, 1, price).qty = 1 - b.qty
           /\ b.qty = 0 => RecordFill(b, side, 1, price).realized = b.realized
<1>0. b.realized \in Int /\ b.basis \in Int
  BY DEF Book
<1>1. CASE b.qty = 0
  <2>1. side = "buy" /\ ClampFlip(b.qty, side, 1) = 1
    BY <1>1 DEF ClampFlip
  <2>2. Signed(side, 1) = 1
    BY <2>1 DEF Signed
  <2>3. BasisAfter(b, 1, price) = b.basis + price * 1
    BY <1>1 DEF BasisAfter
  <2>4. RecordFill(b, side, 1, price).realized = b.realized - price * 1 + (b.basis + price * 1) - b.basis
    BY <2>1, <2>2, <2>3 DEF RecordFill
  <2>5. price * 1 = price
    OBVIOUS
  <2>6. RecordFill(b, side, 1, price).qty = 1
    BY <1>1, <2>1, <2>2 DEF RecordFill
  <2>7. QED
    BY <1>0, <1>1, <2>4, <2>5, <2>6
<1>2. CASE b.qty = 1
  <2>1. side = "sell" /\ ClampFlip(b.qty, side, 1) = 1
    <3>1. side = "sell"
      BY <1>2 DEF Sides
    <3>2. Abs(1) = 1
      BY DEF Abs
    <3>3. QED
      BY <1>2, <3>1, <3>2 DEF ClampFlip
  <2>2. Signed(side, 1) = -1
    BY <2>1 DEF Signed
  <2>3. RecordFill(b, side, 1, price).qty = 0
    BY <1>2, <2>1, <2>2 DEF RecordFill
  <2>4. QED
    BY <1>2, <2>3
<1>3. QED
  BY <1>1, <1>2

LEMMA OutcomesInit_Inv == NotesInit => OutcomesInv
<1> SUFFICES ASSUME NotesInit PROVE OutcomesInv
  OBVIOUS
<1>1. notes = <<>> /\ Len(notes) = 0 /\ 1 .. 0 = {}
  BY DEF NotesInit
<1>2. AddedUp(notes) = 0
  BY <1>1, SumOfEmpty DEF AddedUp
<1>3. noteBook.qty = 0 /\ noteBook.realized = 0 /\ order.step = "none"
  BY DEF NotesInit, NewBook, NoOrder
<1>4. QED
  BY <1>2, <1>3, NotesInit_Inv DEF OutcomesInv, Unstamped, EntryIsOpen

(* A write that fails, and a restart, end the claim about the sum.         *)
LEMMA NotIntact ==
    ASSUME OutcomesInv, NotesNext, ~intact', noteBook'.qty \in {0, 1},
           order'.step = "noted" => (order'.side = "buy" <=> noteBook'.qty = 0),
           order'.step # "filled"
    PROVE  OutcomesInv'
  BY NotesNext_Inv DEF OutcomesInv

LEMMA WriteNote_Out ==
    ASSUME OutcomesInv, NEW side \in Sides, NEW price \in NotePrices, WriteNote(side, price)
    PROVE  OutcomesInv'
<1>1. NotesNext
  BY DEF NotesNext
<1>2. NotesInv'
  BY <1>1, NotesNext_Inv DEF OutcomesInv
<1>3. /\ order'.step = "noted" /\ order'.side = side /\ order.step = "none"
      /\ side = "buy" <=> noteBook.qty = 0
      /\ noteBook' = noteBook /\ realized' = realized
  BY DEF WriteNote
<1>4. CASE notes' = Append(notes, NoteOf(side)) /\ intact' = intact
  <2>1. notes \in Seq(Note) /\ orders + 1 \in OrderIds /\ MaxOrders \in Nat
    BY JournalNotesAssumption DEF OutcomesInv, NotesInv, NotesTypeOK, WriteNote, OrderIds
  <2>2. NoteOf(side) \in Note /\ NoteOf(side).outcome = 0 /\ ~NoteOf(side).stamped
        /\ (side = "buy" => NoteOf(side).kind = "entry")
    BY <2>1 DEF NoteOf, Note
  <2>3. AddedUp(notes') = AddedUp(notes) /\ AddedUp(notes) \in Int
    <3>1. AddedUp(notes') = AddedUp(notes) + NoteOf(side).outcome /\ AddedUp(notes) \in Int
      BY <1>4, <2>1, <2>2, AddedUpAppend
    <3>2. QED
      BY <2>2, <3>1
  <2>4. Open # {} => Open' # {}
    BY <1>4, <2>1 DEF Open
  <2>5. side = "buy" => Open' # {}
    <3>1. /\ Len(notes) \in Nat /\ DOMAIN notes' = 1 .. (Len(notes) + 1)
          /\ notes'[Len(notes) + 1] = NoteOf(side)
      BY <1>4, <2>1
    <3>2. Len(notes) + 1 \in DOMAIN notes'
      BY <3>1
    <3>3. QED
      BY <2>2, <3>1, <3>2 DEF Open
  <2>6. EntryIsOpen' => EntryIsOpen \/ side = "buy"
    BY <1>3 DEF EntryIsOpen
  <2>7. Unstamped' = Unstamped
    BY <1>3 DEF Unstamped
  <2>8. QED
    BY <1>2, <1>3, <1>4, <2>3, <2>4, <2>5, <2>6, <2>7 DEF OutcomesInv
<1>5. CASE notes' = notes /\ intact' = FALSE
  BY <1>1, <1>3, <1>5, NotIntact DEF OutcomesInv
<1>6. QED
  BY <1>4, <1>5 DEF WriteNote

(* An order that ends unfilled. *)
LEMMA Refused_Out == ASSUME OutcomesInv, Refused PROVE OutcomesInv'
<1>1. NotesInv'
  BY NotesNext_Inv DEF OutcomesInv, NotesNext
<1>2. /\ order.step = "noted" /\ order'.step = "none"
      /\ UNCHANGED <<noteBook, realized, notes, intact>>
  BY DEF Refused, NoOrder
<1>3. AddedUp(notes') = AddedUp(notes) /\ Open' = Open
  BY <1>2 DEF Open
<1>4. Unstamped' = Unstamped /\ (EntryIsOpen' => EntryIsOpen)
  BY <1>2 DEF Unstamped, EntryIsOpen
<1>5. QED
  BY <1>1, <1>2, <1>3, <1>4 DEF OutcomesInv

LEMMA CloseFill_Out == ASSUME OutcomesInv, CloseFill PROVE OutcomesInv'
<1>1. NotesInv'
  BY NotesNext_Inv DEF OutcomesInv, NotesNext
<1>2. /\ order.step = "noted" /\ order'.step = "filled"
      /\ noteBook' = RecordFill(noteBook, order.side, 1, order.price)
      /\ realized' = noteBook'.realized - noteBook.realized
      /\ UNCHANGED <<notes, intact>>
  BY DEF CloseFill, OutcomesInv, NotesInv, NotesTypeOK
<1>3. noteBook \in Book /\ noteBook' \in Book /\ order.side \in Sides /\ order.price \in Int
  <2>1. noteBook \in Book /\ order \in [step : Steps, side : Sides, price : NotePrices \cup {0}]
    BY DEF OutcomesInv, NotesInv, NotesTypeOK
  <2>2. NotePrices \subseteq Int /\ order.price \in NotePrices
    BY <1>2, JournalNotesAssumption DEF OutcomesInv, NotesInv
  <2>3. noteBook' \in Book
    BY <1>1 DEF NotesInv, NotesTypeOK
  <2>4. QED
    BY <2>1, <2>2, <2>3
<1>4. noteBook.qty \in {0, 1} /\ (order.side = "buy" <=> noteBook.qty = 0)
  BY <1>2 DEF OutcomesInv
<1>5. noteBook'.qty = 1 - noteBook.qty /\ (noteBook.qty = 0 => noteBook'.realized = noteBook.realized)
  BY <1>2, <1>3, <1>4, OneLot
<1>12. order'.step = "filled" /\ realized' # 0 => noteBook'.qty = 0
  <2>1. noteBook.realized \in Int
    BY <1>3 DEF Book
  <2>2. noteBook.qty = 0 => realized' = 0
    BY <1>2, <1>5, <2>1
  <2>3. QED
    BY <1>4, <1>5, <2>2
<1>6. noteBook.realized \in Int /\ noteBook'.realized \in Int
  BY <1>3 DEF Book
<1>7. EntryIsOpen
  BY <1>2, <1>4 DEF EntryIsOpen
<1>8. AddedUp(notes') = AddedUp(notes) /\ Open' = Open
  BY <1>2 DEF Open
<1>9. intact => AddedUp(notes') + Unstamped' = noteBook'.realized
  <2>1. intact => AddedUp(notes) + 0 = noteBook.realized
    BY <1>2 DEF OutcomesInv, Unstamped
  <2>2. Unstamped' = noteBook'.realized - noteBook.realized
    BY <1>2 DEF Unstamped
  <2>3. notes \in Seq(Note)
    BY DEF OutcomesInv, NotesInv, NotesTypeOK
  <2>4. AddedUp(notes) \in Int
    BY <2>3, AddedUpType
  <2>5. QED
    BY <1>6, <1>8, <2>1, <2>2, <2>4
<1>10. intact => Open # {}
  BY <1>7 DEF OutcomesInv
<1>11. QED
  BY <1>1, <1>2, <1>4, <1>5, <1>8, <1>9, <1>10, <1>12 DEF OutcomesInv

LEMMA CloseOutcome_Out == ASSUME OutcomesInv, CloseOutcome PROVE OutcomesInv'
<1>1. NotesInv'
  BY NotesNext_Inv DEF OutcomesInv, NotesNext
<1>2. /\ order.step = "filled" /\ order'.step = "none"
      /\ UNCHANGED <<noteBook, realized, intact>>
  BY DEF CloseOutcome, NoOrder
<1>3. /\ notes \in Seq(Note) /\ notes' \in Seq(Note) /\ realized \in Int
      /\ \A i \in DOMAIN notes : Sound(notes[i])
  BY <1>1 DEF OutcomesInv, NotesInv, NotesTypeOK
<1>4. AddedUp(notes) \in Int
  BY <1>3, AddedUpType
<1>5. Unstamped = realized /\ Unstamped' = 0
  BY <1>2 DEF Unstamped
<1>6. noteBook'.qty \in {0, 1} /\ (order'.step = "noted" => (order'.side = "buy" <=> noteBook'.qty = 0))
  BY <1>2 DEF OutcomesInv
<1>7. CASE realized # 0 /\ Open # {}
  <2>1. PICK i \in DOMAIN notes : Oldest(i) /\ notes' = Stamp(i)
    BY <1>7 DEF CloseOutcome
  <2>2. DOMAIN notes = 1 .. Len(notes) /\ i \in Open
    BY <1>3, <2>1 DEF Oldest
  <2>3. notes[i] \in Note /\ notes[i].outcome = 0
    <3>1. notes[i] \in Note /\ ~notes[i].stamped /\ notes[i].kind = "entry" /\ Sound(notes[i])
      BY <1>3, <2>2 DEF Open
    <3>2. QED
      BY <3>1 DEF Sound
  <2>4. notes'[i].outcome = realized /\ \A j \in DOMAIN notes : j # i => notes'[j] = notes[j]
    BY <2>1, <2>3 DEF Stamp, Note
  <2>5. Len(notes') = Len(notes)
    BY <1>3, <2>1 DEF Stamp
  <2>6. AddedUp(notes') = AddedUp(notes) + realized
    <3>1. AddedUp(notes') = AddedUp(notes) + notes'[i].outcome
      BY <1>3, <2>2, <2>3, <2>4, <2>5, AddedUpStamped
    <3>2. QED
      BY <2>4, <3>1
  <2>7. intact => AddedUp(notes') + 0 = noteBook.realized
    BY <1>3, <1>4, <1>5, <2>6 DEF OutcomesInv
  <2>8. noteBook.qty = 0
    BY <1>2, <1>7 DEF OutcomesInv
  <2>9. QED
    BY <1>1, <1>2, <1>5, <1>6, <2>7, <2>8 DEF OutcomesInv, EntryIsOpen
<1>8. CASE ~(realized # 0 /\ Open # {})
  <2>1. notes' = notes /\ Open' = Open
    BY <1>8 DEF CloseOutcome, Open
  <2>2. intact => realized = 0
    BY <1>2, <1>8 DEF OutcomesInv, EntryIsOpen
  <2>3. EntryIsOpen' => EntryIsOpen
    BY <1>2 DEF EntryIsOpen
  <2>4. QED
    BY <1>1, <1>2, <1>4, <1>5, <1>6, <2>1, <2>2, <2>3 DEF OutcomesInv
<1>9. QED
  BY <1>7, <1>8

LEMMA OutcomesNext_Inv == OutcomesInv /\ [NotesNext]_notesVars => OutcomesInv'
<1> SUFFICES ASSUME OutcomesInv, [NotesNext]_notesVars PROVE OutcomesInv'
  OBVIOUS
<1>1. CASE RecordFillFails \/ CloseOutcomeFails
  <2>1. noteBook' = noteBook /\ order'.step = "none" /\ ~intact' /\ NotesNext
    BY <1>1 DEF RecordFillFails, CloseOutcomeFails, NoOrder, NotesNext
  <2>2. QED
    BY <2>1, NotIntact DEF OutcomesInv
<1>2. CASE Restart
  <2>1. noteBook'.qty = 0 /\ order'.step = "none" /\ ~intact' /\ NotesNext
    BY <1>2 DEF Restart, NoOrder, NewBook, NotesNext
  <2>2. QED
    BY <2>1, NotIntact
<1>3. CASE UNCHANGED notesVars
  <2>1. UNCHANGED <<noteBook, order, realized, notes, intact>>
    BY <1>3 DEF notesVars
  <2>2. NotesInv'
    BY <1>3, NotesNext_Inv DEF OutcomesInv
  <2>3. AddedUp(notes') = AddedUp(notes) /\ Open' = Open /\ Unstamped' = Unstamped /\ EntryIsOpen' = EntryIsOpen
    BY <2>1 DEF Open, Unstamped, EntryIsOpen
  <2>4. QED
    BY <2>1, <2>2, <2>3 DEF OutcomesInv
<1>4. QED
  BY <1>1, <1>2, <1>3, WriteNote_Out, Refused_Out, CloseFill_Out, CloseOutcome_Out DEF NotesNext

LEMMA OutcomesInvHolds == NotesSpec => []OutcomesInv
  BY OutcomesInit_Inv, OutcomesNext_Inv, PTL DEF NotesSpec

(* Outcomes are stamped oldest first, stay where they are and, as long as  *)
(* no write fails and no process dies, add up to the realized P&L, however *)
(* many orders are refused (storage/journal.py).                           *)
THEOREM OutcomesStayHolds == NotesSpec => OutcomesStay
<1>1. OutcomesInv => OutcomesAddUp
  <2> SUFFICES ASSUME OutcomesInv, intact, order.step = "none" PROVE Outcomes = noteBook.realized
    BY DEF OutcomesAddUp
  <2>1. notes \in Seq(Note)
    BY DEF OutcomesInv, NotesInv, NotesTypeOK
  <2>2. Outcomes = AddedUp(notes) /\ AddedUp(notes) \in Int
    BY <2>1, OutcomesAreSum, AddedUpType
  <2>3. AddedUp(notes) + 0 = noteBook.realized
    BY DEF OutcomesInv, Unstamped
  <2>4. QED
    BY <2>2, <2>3
<1>2. QED
  BY <1>1, OutcomesInvHolds, OutcomesInOrderHolds, PTL DEF OutcomesStay

-------------------------------------------------------------------------------
(* The part of the type invariant that the proofs need. *)
Types == book \in Book /\ fills \in Seq(Fill)

LEMMA InitTypes == Init => Types
  BY BookSettlementAssumption, EmptySeq DEF Init, Types, NewBook, Book

LEMMA FillFields ==
    ASSUME Types, NEW i \in DOMAIN fills
    PROVE  /\ fills[i].side \in Sides /\ fills[i].n \in Nat \ {0}
           /\ fills[i].price \in Nat \ {0} /\ fills[i].mark \in Nat \ {0}
           /\ fills[i].settled \in BOOLEAN
<1>1. fills[i] \in Fill
  BY ElementOfSeq, LenProperties DEF Types
<1>2. QED
  BY <1>1, BookSettlementAssumption DEF Fill

(* The history after a fill was booked ... *)
LEMMA RecordedFills ==
    ASSUME Types, NEW side \in Sides, NEW n \in Quantities, NEW mark \in Prices,
           Record(side, n, mark)
    PROVE  LET k == Len(fills) + 1
           IN  /\ fills' \in Seq(Fill)
               /\ Len(fills') = Len(fills) + 1
               /\ DOMAIN fills' = DOMAIN fills \cup {k} /\ k \notin DOMAIN fills
               /\ \A i \in DOMAIN fills : fills'[i] = fills[i]
               /\ fills'[k].side = side /\ fills'[k].n = n /\ fills'[k].mark = mark
               /\ ~fills'[k].settled
<1> DEFINE f == [side |-> side, n |-> n, price |-> mark, mark |-> mark,
                 settled |-> FALSE, excess |-> Excess(side, n)]
<1>1. Excess(side, n) \in Nat
  <2>1. n \in Nat /\ book.qty \in Int
    BY BookSettlementAssumption DEF Types, Book
  <2>2. ClampFlip(book.qty, side, n) \in Nat /\ ClampFlip(book.qty, side, n) <= n
    BY <2>1, ClampFlipBounds
  <2>3. QED
    BY <2>1, <2>2 DEF Excess
<1>2. f \in Fill
  BY <1>1 DEF Fill
<1>3. fills' = Append(fills, f) /\ fills \in Seq(Fill)
  BY DEF Record, Types
<1>4. /\ f.side = side /\ f.n = n /\ f.mark = mark /\ ~f.settled
  OBVIOUS
<1> HIDE DEF f
<1>5. /\ fills' \in Seq(Fill) /\ Len(fills') = Len(fills) + 1
      /\ \A i \in 1 .. Len(fills) : fills'[i] = fills[i]
      /\ fills'[Len(fills) + 1] = f
  BY <1>2, <1>3, AppendProperties
<1>6. Len(fills) \in Nat /\ DOMAIN fills = 1 .. Len(fills) /\ DOMAIN fills' = 1 .. Len(fills')
  BY <1>3, <1>5, LenProperties
<1>7. QED
  BY <1>4, <1>5, <1>6

(* ... and after it was reported. *)
LEMMA SettledFills ==
    ASSUME Types, NEW i \in DOMAIN fills, NEW actual \in Prices,
           fills' = [fills EXCEPT ![i].price = actual, ![i].settled = TRUE]
    PROVE  /\ fills' \in Seq(Fill) /\ Len(fills') = Len(fills) /\ DOMAIN fills' = DOMAIN fills
           /\ \A j \in DOMAIN fills :
                 /\ fills'[j].side = fills[j].side /\ fills'[j].n = fills[j].n
                 /\ fills'[j].mark = fills[j].mark
                 /\ fills'[j].settled <=> (j = i \/ fills[j].settled)
<1> DEFINE f == [fills[i] EXCEPT !.price = actual, !.settled = TRUE]
<1>1. i \in 1 .. Len(fills) /\ DOMAIN fills = 1 .. Len(fills) /\ fills[i] \in Fill
  BY ElementOfSeq, LenProperties DEF Types
<1>2. f \in Fill /\ f.side = fills[i].side /\ f.n = fills[i].n /\ f.mark = fills[i].mark
      /\ f.settled = TRUE
  BY <1>1 DEF Fill
<1>3. fills' = [fills EXCEPT ![i] = f]
  BY <1>1 DEF Types
<1> HIDE DEF f
<1>4. /\ fills' \in Seq(Fill) /\ Len(fills') = Len(fills)
      /\ \A j \in 1 .. Len(fills) : fills'[j] = IF j = i THEN f ELSE fills[j]
  <2>1. fills \in Seq(Fill) /\ i \in 1 .. Len(fills) /\ f \in Fill
    BY <1>1, <1>2 DEF Types
  <2>2. /\ [fills EXCEPT ![i] = f] \in Seq(Fill)
        /\ Len([fills EXCEPT ![i] = f]) = Len(fills)
        /\ \A j \in 1 .. Len(fills) : [fills EXCEPT ![i] = f][j] = IF j = i THEN f ELSE fills[j]
    BY <2>1, ExceptSeq
  <2>3. QED
    BY <1>3, <2>2
<1>5. DOMAIN fills' = 1 .. Len(fills')
  BY <1>4, LenProperties
<1>6. \A j \in DOMAIN fills :
         /\ fills'[j].side = fills[j].side /\ fills'[j].n = fills[j].n
         /\ fills'[j].mark = fills[j].mark
         /\ fills'[j].settled <=> (j = i \/ fills[j].settled)
  BY <1>1, <1>2, <1>4
<1>7. QED
  BY <1>1, <1>4, <1>5, <1>6

-------------------------------------------------------------------------------
(* What a step is. *)
LEMMA StepCases ==
    ASSUME Next
    PROVE  \/ \E side \in Sides, n \in Quantities, mark \in Prices : Record(side, n, mark)
           \/ \E i \in DOMAIN fills, actual \in Prices :
                 /\ ~fills[i].settled
                 /\ book' = ReconcileFill(book, fills[i].side, fills[i].n, fills[i].mark, actual)
                 /\ fills' = [fills EXCEPT ![i].price = actual, ![i].settled = TRUE]
           \/ UNCHANGED vars
  BY DEF Next, Report, Reconcile

LEMMA TypesStep == Types /\ [Next]_vars => Types'
<1> SUFFICES ASSUME Types, [Next]_vars PROVE Types'
  OBVIOUS
<1>1. ASSUME NEW side \in Sides, NEW n \in Quantities, NEW mark \in Prices, Record(side, n, mark)
      PROVE  Types'
  <2>1. n \in Nat /\ mark \in Int /\ book \in Book
    BY BookSettlementAssumption DEF Types
  <2>2. book' \in Book
    BY <1>1, <2>1, RecordFillAtCost DEF Record
  <2>3. fills' \in Seq(Fill)
    BY <1>1, RecordedFills
  <2>4. QED
    BY <2>2, <2>3 DEF Types
<1>2. ASSUME NEW i \in DOMAIN fills, NEW actual \in Prices,
             book' = ReconcileFill(book, fills[i].side, fills[i].n, fills[i].mark, actual),
             fills' = [fills EXCEPT ![i].price = actual, ![i].settled = TRUE]
      PROVE  Types'
  <2>1. actual \in Int /\ book \in Book
    BY BookSettlementAssumption DEF Types
  <2>2. fills[i].side \in Sides /\ fills[i].n \in Nat /\ fills[i].mark \in Int
    BY FillFields
  <2>3. book' \in Book
    BY <1>2, <2>1, <2>2, ReconcileFillType
  <2>4. fills' \in Seq(Fill)
    BY <1>2, SettledFills
  <2>5. QED
    BY <2>3, <2>4 DEF Types
<1>3. CASE UNCHANGED vars
  BY <1>3 DEF vars, Types
<1>4. QED
  BY <1>1, <1>2, <1>3, StepCases

(* "Flat-only invariant": whatever is booked and reported, in whatever     *)
(* order, no single call of record_fill or apply_reconciled_fill carries a *)
(* position through zero, and a report leaves the quantity alone.          *)
THEOREM NeverThroughZeroHolds == Spec => NeverThroughZero
<1> DEFINE Step == /\ book.qty > 0 => book'.qty >= 0
                   /\ book.qty < 0 => book'.qty <= 0
                   /\ Len(fills') = Len(fills) => book'.qty = book.qty
<1>1. ASSUME Types, [Next]_vars PROVE [Step]_vars
  <2>1. ASSUME NEW side \in Sides, NEW n \in Quantities, NEW mark \in Prices,
               Record(side, n, mark)
        PROVE  Step
    <3>1. n \in Nat /\ mark \in Int /\ book \in Book
      BY <1>1, BookSettlementAssumption DEF Types
    <3>2. (book.qty > 0 => book'.qty >= 0) /\ (book.qty < 0 => book'.qty <= 0)
      BY <2>1, <3>1, RecordFillQuantity DEF Record
    <3>3. Len(fills') = Len(fills) + 1 /\ Len(fills) \in Nat
      BY <1>1, <2>1, RecordedFills, LenProperties DEF Types
    <3>4. QED
      BY <3>2, <3>3
  <2>2. ASSUME NEW i \in DOMAIN fills, NEW actual \in Prices,
               book' = ReconcileFill(book, fills[i].side, fills[i].n, fills[i].mark, actual)
        PROVE  Step
    <3>1. actual \in Int /\ book \in Book /\ book.qty \in Int
      BY <1>1, BookSettlementAssumption DEF Types, Book
    <3>2. fills[i].side \in Sides /\ fills[i].n \in Nat /\ fills[i].mark \in Int
      BY <1>1, FillFields
    <3>3. book'.qty = book.qty
      BY <2>2, <3>1, <3>2, ReconcileFillQuantity
    <3>4. QED
      BY <3>1, <3>3
  <2>3. QED
    BY <1>1, <2>1, <2>2, StepCases DEF vars
<1>2. QED
  BY <1>1, InitTypes, TypesStep, PTL DEF Spec, NeverThroughZero

-------------------------------------------------------------------------------
(***************************************************************************)
(* In the order the scheduler produces, the book always adds up.  A report *)
(* that finds the position exactly as large as its fill takes the fill for *)
(* the one that opened it and sets the whole basis to the new price: that  *)
(* loses nothing only if the basis is that fill's alone.  OpeningsHeld     *)
(* says that it is.                                                        *)
(***************************************************************************)

(* A fill that waits for its report and points the way the position does. *)
Opening(i) ==
    /\ ~fills[i].settled
    /\ \/ fills[i].side = "buy" /\ book.qty > 0
       \/ fills[i].side = "sell" /\ book.qty < 0

Filled == fills # <<>> => book.known
FlatIsFree == book.qty = 0 => book.basis = 0
Conserved == AtCost(book) = Capital
OpeningsHeld ==
    \A i \in DOMAIN fills : Opening(i) =>
        /\ fills[i].n <= Abs(book.qty)
        /\ fills[i].n = Abs(book.qty) =>
              /\ book.basis = fills[i].mark * Signed(fills[i].side, fills[i].n)
              /\ \A j \in DOMAIN fills : j = i \/ fills[j].settled

IInv == Types /\ Filled /\ FlatIsFree /\ Conserved /\ OpeningsHeld

LEMMA InitIInv == Init => IInv
<1> SUFFICES ASSUME Init PROVE IInv
  OBVIOUS
<1>1. Capital \in Int
  BY BookSettlementAssumption
<1>2. DOMAIN fills = {}
  BY DEF Init
<1>3. Filled /\ FlatIsFree /\ Conserved
  BY <1>1 DEF Init, NewBook, Filled, FlatIsFree, Conserved, AtCost
<1>4. OpeningsHeld
  BY <1>2 DEF OpeningsHeld
<1>5. QED
  BY <1>3, <1>4, InitTypes DEF IInv

(* Booking a fill at the mark. *)
LEMMA RecordIInv ==
    ASSUME IInv, Orderly, NEW side \in Sides, NEW n \in Quantities, NEW mark \in Prices,
           Record(side, n, mark)
    PROVE  IInv'
<1> DEFINE k == Len(fills) + 1
           c == ClampFlip(book.qty, side, n)
           q == book.qty
           s == Signed(side, c)
<1>1. /\ n \in Nat /\ n > 0 /\ mark \in Int /\ book \in Book /\ q \in Int
      /\ book' = RecordFill(book, side, n, mark)
  BY BookSettlementAssumption DEF IInv, Types, Book, Record
<1>2. Types'
  BY TypesStep DEF IInv, Next
<1>3. c \in Nat
  BY <1>1, ClampFlipBounds
<1>4. /\ q >= 0 /\ side = "buy" => c = n
      /\ q <= 0 /\ side = "sell" => c = n
      /\ q > 0 /\ side = "sell" => c <= q
      /\ q < 0 /\ side = "buy" => c <= -q
  BY <1>1, ClampFlipBounds
<1>5. s \in Int /\ (side = "buy" => s = c) /\ (side = "sell" => s = -c)
  BY <1>3, SignedType
<1>6. side = "buy" \/ side = "sell"
  BY DEF Sides
<1>7. book'.qty = q + s /\ book'.known = TRUE /\ book'.basis = BasisAfter(book, s, mark)
  BY <1>1 DEF RecordFill
<1>8. Filled' /\ Conserved'
  BY <1>1, <1>7, RecordFillAtCost DEF Filled, Conserved, IInv
<1> HIDE DEF c, s
<1>9. FlatIsFree'
  <2> SUFFICES ASSUME q + s = 0 PROVE BasisAfter(book, s, mark) = 0
    BY <1>7 DEF FlatIsFree
  <2>1. q # 0 /\ ~SameSide(q, s)
    <3> HIDE DEF q
    <3>1. q # 0
      BY <1>1, <1>3, <1>4, <1>5, <1>6
    <3>2. q > 0 <=> ~(s > 0)
      BY <1>1, <1>5, <3>1
    <3>3. QED
      BY <3>1, <3>2 DEF SameSide
  <2>2. BasisAfter(book, s, mark) = (book.basis * Abs(q + s)) \div Abs(q)
    BY <2>1 DEF BasisAfter, BasisLeft
  <2>3. Abs(q + s) = 0 /\ Abs(q) \in Nat /\ Abs(q) > 0 /\ book.basis \in Int
    BY <1>1, <2>1 DEF Abs, Book
  <2>4. book.basis * Abs(q + s) = 0
    BY <2>3
  <2>5. QED
    BY <2>2, <2>3, <2>4
<1>10. OpeningsHeld'
  <2>1. /\ DOMAIN fills' = DOMAIN fills \cup {k} /\ k \notin DOMAIN fills
        /\ \A i \in DOMAIN fills : fills'[i] = fills[i]
        /\ fills'[k].side = side /\ fills'[k].n = n /\ fills'[k].mark = mark
        /\ ~fills'[k].settled
    BY RecordedFills DEF IInv
  <2>2. \A i \in DOMAIN fills : fills[i].n \in Nat /\ fills[i].side \in Sides
    BY FillFields DEF IInv
  <2>3. InOrder(side)
    BY DEF Record
  <2> HIDE DEF k, q
  <2>4. CASE q = 0
    <3>1. \A i \in DOMAIN fills : fills[i].settled
      BY <2>3, <2>4 DEF InOrder, q
    <3>2. c = n
      BY <1>4, <1>6, <2>4
    <3>3. Abs(q + s) = n
      BY <1>1, <1>5, <1>6, <2>4, <3>2 DEF Abs
    <3>4. book'.basis = mark * Signed(side, n)
      <4>1. book.basis = 0
        BY <2>4 DEF IInv, FlatIsFree, q
      <4>2. book'.basis = book.basis + mark * s
        BY <1>7, <2>4 DEF BasisAfter, q
      <4>3. s \in Int /\ s = Signed(side, n) /\ mark * s \in Int
        BY <1>1, <1>5, <3>2 DEF s
      <4>4. QED
        BY <4>1, <4>2, <4>3
    <3>5. \A i \in DOMAIN fills' : Opening(i)' => i = k
      BY <2>1, <3>1 DEF Opening
    <3>6. /\ fills'[k].n <= Abs(q + s)
          /\ book'.basis = fills'[k].mark * Signed(fills'[k].side, fills'[k].n)
      BY <1>1, <2>1, <3>3, <3>4
    <3>7. \A j \in DOMAIN fills' : j = k \/ fills'[j].settled
      BY <2>1, <3>1
    <3>8. QED
      BY <1>7, <3>5, <3>6, <3>7 DEF OpeningsHeld, q
  <2>5. CASE q # 0 /\ (q > 0 <=> side = "buy")
    <3>1. c = n
      BY <1>1, <1>4, <1>6, <2>5
    <3>2. Abs(q + s) = Abs(q) + n /\ Abs(q) \in Nat /\ Abs(q) > 0
      BY <1>1, <1>5, <1>6, <2>5, <3>1 DEF Abs
    <3>3. q + s > 0 <=> q > 0
      BY <1>1, <1>5, <1>6, <2>5, <3>1
    <3>4. q + s < 0 <=> q < 0
      BY <1>1, <1>5, <1>6, <2>5, <3>1
    <3>5. ASSUME NEW i \in DOMAIN fills, Opening(i)' PROVE fills'[i].n < Abs(q + s)
      <4>1. Opening(i)
        BY <1>7, <2>1, <3>3, <3>4, <3>5 DEF Opening, q
      <4>2. fills[i].n <= Abs(q)
        BY <4>1 DEF IInv, OpeningsHeld, q
      <4>3. QED
        BY <1>1, <2>1, <2>2, <3>2, <4>2
    <3>6. fills'[k].n < Abs(q + s)
      BY <1>1, <2>1, <3>2
    <3>7. \A i \in DOMAIN fills' : fills'[i].n \in Nat
      BY <1>1, <2>1, <2>2
    <3>8. Abs(q + s) \in Nat
      BY <1>1, <3>2
    <3>9. QED
      BY <1>7, <2>1, <3>5, <3>6, <3>7, <3>8 DEF OpeningsHeld, q
  <2>6. CASE q # 0 /\ ~(q > 0 <=> side = "buy")
    <3>1. (q > 0 => q + s >= 0) /\ (q < 0 => q + s <= 0)
      BY <1>1, <1>3, <1>4, <1>5, <1>6, <2>6
    <3>2. \A i \in DOMAIN fills' : fills'[i].settled \/ fills'[i].side = side
      BY <2>1, <2>3 DEF InOrder
    <3>3. \A i \in DOMAIN fills' : ~Opening(i)'
      BY <1>1, <1>5, <1>6, <1>7, <2>6, <3>1, <3>2 DEF Opening, q
    <3>4. QED
      BY <3>3 DEF OpeningsHeld
  <2>7. QED
    BY <1>1, <2>4, <2>5, <2>6
<1>11. QED
  BY <1>2, <1>8, <1>9, <1>10 DEF IInv

(* Correcting a fill to the reported price. *)
LEMMA ReconcileIInv ==
    ASSUME IInv, NEW i \in DOMAIN fills, NEW actual \in Prices, ~fills[i].settled,
           book' = ReconcileFill(book, fills[i].side, fills[i].n, fills[i].mark, actual),
           fills' = [fills EXCEPT ![i].price = actual, ![i].settled = TRUE],
           Types'
    PROVE  IInv'
<1> DEFINE side == fills[i].side
           n == fills[i].n
           mark == fills[i].mark
           s == Signed(side, n)
           q == book.qty
<1>1. /\ side \in Sides /\ n \in Nat \ {0} /\ mark \in Int /\ actual \in Int
      /\ book \in Book /\ q \in Int
  BY FillFields, BookSettlementAssumption DEF IInv, Types, Book
<1>2. side = "buy" \/ side = "sell"
  BY <1>1 DEF Sides
<1>3. s \in Int /\ (side = "buy" => s = n) /\ (side = "sell" => s = -n)
  BY <1>1, SignedType
<1>4. book.known
  BY DEF IInv, Filled
<1>5. q = s => book.basis = mark * s
  <2> SUFFICES ASSUME q = s PROVE book.basis = mark * s
    OBVIOUS
  <2>1. Opening(i) /\ n = Abs(q)
    BY <1>1, <1>2, <1>3 DEF Opening, Abs
  <2>2. QED
    BY <2>1 DEF IInv, OpeningsHeld
<1>6. book'.qty = q
  BY <1>1, ReconcileFillQuantity
<1>7. AtCost(book') = AtCost(book)
  BY <1>1, <1>4, <1>5, ReconcileFillAtCost
<1>8. book'.known
  BY <1>1, <1>4 DEF ReconcileFill, CorrectOpening, CorrectClosing, Book
<1>9. FlatIsFree'
  <2> SUFFICES ASSUME q = 0 PROVE book'.basis = 0
    BY <1>6 DEF FlatIsFree
  <2>1. book.basis = 0
    BY DEF IInv, FlatIsFree
  <2>2. IsClose(q - s, s)
    BY <1>1, <1>2, <1>3 DEF IsClose, SameSide
  <2>3. QED
    BY <1>1, <1>4, <2>1, <2>2 DEF ReconcileFill, CorrectClosing, Book
<1>10. OpeningsHeld'
  <2>1. /\ DOMAIN fills' = DOMAIN fills
        /\ \A j \in DOMAIN fills :
              /\ fills'[j].side = fills[j].side /\ fills'[j].n = fills[j].n
              /\ fills'[j].mark = fills[j].mark
              /\ fills'[j].settled <=> (j = i \/ fills[j].settled)
    BY SettledFills DEF IInv
  <2>2. \A j \in DOMAIN fills : Opening(j)' => Opening(j) /\ j # i
    BY <1>6, <2>1 DEF Opening
  <2>3. \A j \in DOMAIN fills : Opening(j)' => fills[j].n <= Abs(q) /\ fills[j].n # Abs(q)
    BY <2>2 DEF IInv, OpeningsHeld
  <2>4. QED
    BY <1>6, <2>1, <2>3 DEF OpeningsHeld
<1>11. QED
  BY <1>4, <1>7, <1>8, <1>9, <1>10 DEF IInv, Filled, Conserved

LEMMA IInvHolds == ASSUME Orderly PROVE Spec => []IInv
<1>1. ASSUME IInv, [Next]_vars PROVE IInv'
  <2>1. ASSUME NEW side \in Sides, NEW n \in Quantities, NEW mark \in Prices,
               Record(side, n, mark)
        PROVE  IInv'
    BY <1>1, <2>1, RecordIInv
  <2>2. ASSUME NEW i \in DOMAIN fills, NEW actual \in Prices, ~fills[i].settled,
               book' = ReconcileFill(book, fills[i].side, fills[i].n, fills[i].mark, actual),
               fills' = [fills EXCEPT ![i].price = actual, ![i].settled = TRUE]
        PROVE  IInv'
    <3>1. Types'
      BY <1>1, TypesStep DEF IInv
    <3>2. QED
      BY <1>1, <2>2, <3>1, ReconcileIInv
  <2>3. CASE UNCHANGED vars
    BY <1>1, <2>3 DEF vars, IInv, Types, Filled, FlatIsFree, Conserved, OpeningsHeld, Opening
  <2>4. QED
    BY <1>1, <2>1, <2>2, <2>3, StepCases
<1>2. QED
  BY <1>1, InitIInv, PTL DEF Spec

(* At every mark, equity is the starting capital plus realized plus        *)
(* unrealized P&L, whatever was booked at optimistic prices and corrected  *)
(* since, over-sells included: record_fill and apply_reconciled_fill move  *)
(* value, as long as reports arrive in the scheduler's order.              *)
THEOREM PnlAddsUpHolds == ASSUME Orderly PROVE Spec => []PnlAddsUp
<1>1. IInv => PnlAddsUp
  <2> SUFFICES ASSUME IInv, NEW m \in Prices
               PROVE  Equity(book, m) = Capital + book.realized + UnrealizedPnl(book, m)
    BY DEF PnlAddsUp
  <2> DEFINE worth == book.qty * m
  <2>1. book.cash \in Int /\ book.basis \in Int /\ book.realized \in Int /\ worth \in Int
    BY BookSettlementAssumption DEF IInv, Types, Book
  <2>2. book.cash + book.basis - book.realized = Capital /\ Capital \in Int
    BY BookSettlementAssumption DEF IInv, Conserved, AtCost
  <2>3. Equity(book, m) = book.cash + worth /\ UnrealizedPnl(book, m) = worth - book.basis
    BY DEF Equity, UnrealizedPnl
  <2> HIDE DEF worth
  <2>4. QED
    BY <2>1, <2>2, <2>3
<1>2. QED
  BY <1>1, IInvHolds, PTL

-------------------------------------------------------------------------------
(* The chain of books that the fills make at their best prices, and what   *)
(* cutting fills down may have cost up to each of them.                    *)
IsChain(c, fs) ==
    /\ c \in [0 .. Len(fs) -> Book] /\ c[0] = NewBook(Capital)
    /\ \A k \in 1 .. Len(fs) : c[k] = RecordFill(c[k - 1], fs[k].side, fs[k].n, fs[k].price)
Doubt(f) == f.excess * Abs(f.price - f.mark)
IsErr(e, fs) ==
    /\ e \in [0 .. Len(fs) -> Nat] /\ e[0] = 0
    /\ \A k \in 1 .. Len(fs) : e[k] = e[k - 1] + Doubt(fs[k])

(* The numbers of a fill. *)
LEMMA FillType ==
    ASSUME NEW f \in Fill
    PROVE  /\ f.side \in Sides /\ f.n \in Nat \ {0} /\ f.n \in Quantities
           /\ f.price \in Nat /\ f.mark \in Nat /\ f.excess \in Nat /\ Doubt(f) \in Nat
<1>1. /\ f.side \in Sides /\ f.n \in Nat \ {0} /\ f.n \in Quantities
      /\ f.price \in Nat /\ f.mark \in Nat /\ f.excess \in Nat
  BY BookSettlementAssumption DEF Fill
<1>2. Abs(f.price - f.mark) \in Nat
  BY <1>1 DEF Abs
<1> DEFINE d == Abs(f.price - f.mark)
<1>3. f.excess * d \in Nat
  <2> HIDE DEF d
  <2>1. d \in Nat
    BY <1>2 DEF d
  <2>2. QED
    BY <1>1, <2>1
<1>4. QED
  BY <1>1, <1>3 DEF Doubt

(* The values of the two folds are the last of these chains. *)
LEMMA ReferenceIs ==
    ASSUME NEW c, fills \in Seq(Fill), IsChain(c, fills)
    PROVE  Reference = c[Len(fills)]
<1> DEFINE n == Len(fills)
           R(h) == h = [T \in SUBSET (1 .. n) |->
                          IF T = {} THEN NewBook(Capital)
                          ELSE RecordFill(h[T \ {Max(T)}], fills[Max(T)].side, fills[Max(T)].n, fills[Max(T)].price)]
           step == [p \in (1 .. n) \X Book |-> RecordFill(p[2], fills[p[1]].side, fills[p[1]].n, fills[p[1]].price)]
<1>1. n \in Nat /\ DOMAIN fills = 1 .. n /\ \A i \in 1 .. n : fills[i] \in Fill
  BY LenProperties, ElementOfSeq
<1>2. Reference = (CHOOSE h : R(h))[1 .. n]
  BY <1>1 DEF Reference, FoldLeft, MapThenFoldSet
<1>3. step \in [(1 .. n) \X Book -> Book]
  <2>1. \A k \in 1 .. n, b \in Book : RecordFill(b, fills[k].side, fills[k].n, fills[k].price) \in Book
    BY <1>1, FillType, RecordFillAtCost
  <2>2. QED
    BY <2>1
<1>4. NewBook(Capital) \in Book
  BY BookSettlementAssumption DEF NewBook, Book
<1>5. \E h : R(h)
  <2> HIDE DEF step, n
  <2>1. PICK h \in [SUBSET (1 .. n) -> Book] : IsFold(h, NewBook(Capital), step, n)
    BY <1>1, <1>3, <1>4, FoldExists
  <2> DEFINE q(T) == IF T = {} THEN NewBook(Capital) ELSE step[<<Max(T), h[T \ {Max(T)}]>>]
             r(T) == IF T = {} THEN NewBook(Capital)
                     ELSE RecordFill(h[T \ {Max(T)}], fills[Max(T)].side, fills[Max(T)].n, fills[Max(T)].price)
  <2>2. \A T \in SUBSET (1 .. n) : q(T) = r(T)
    <3> TAKE T \in SUBSET (1 .. n)
    <3> SUFFICES ASSUME T # {} PROVE q(T) = r(T)
      OBVIOUS
    <3>1. Max(T) \in 1 .. n
      BY <1>1, MaxOfRange
    <3>2. h[T \ {Max(T)}] \in Book
      OBVIOUS
    <3>3. <<Max(T), h[T \ {Max(T)}]>> \in (1 .. n) \X Book
      BY <3>1, <3>2
    <3>4. QED
      BY <3>3 DEF step
  <2>3. h = [T \in SUBSET (1 .. n) |-> q(T)]
    BY <2>1 DEF IsFold
  <2> HIDE DEF q, r
  <2>4. h = [T \in SUBSET (1 .. n) |-> r(T)]
    BY <2>2, <2>3
  <2>5. R(h)
    BY <2>4 DEF r
  <2> HIDE DEF R
  <2>6. QED
    BY <2>5
<1>6. PICK h : R(h) /\ Reference = h[1 .. n]
  <2> HIDE DEF R
  <2>1. QED
    BY <1>2, <1>5
<1>7. ASSUME NEW T \in SUBSET (1 .. n)
      PROVE  h[T] = IF T = {} THEN NewBook(Capital)
                    ELSE RecordFill(h[T \ {Max(T)}], fills[Max(T)].side, fills[Max(T)].n, fills[Max(T)].price)
  BY <1>6
<1> HIDE DEF R, n
<1>8. h[{}] = c[0]
  BY <1>7 DEF IsChain
<1>9. ASSUME NEW k \in 1 .. n, h[1 .. (k - 1)] = c[k - 1] PROVE h[1 .. k] = c[k]
  <2>1. 1 .. k \in SUBSET (1 .. n) /\ 1 .. k # {} /\ Max(1 .. k) = k /\ (1 .. k) \ {k} = 1 .. (k - 1)
    BY <1>1, Prefix
  <2>2. h[1 .. k] = RecordFill(h[1 .. (k - 1)], fills[k].side, fills[k].n, fills[k].price)
    BY <1>7, <2>1
  <2>3. QED
    BY <1>9, <2>2 DEF IsChain, n
<1>10. h[1 .. n] = c[n]
  BY <1>1, <1>8, <1>9, FoldIsLast
<1>11. QED
  BY <1>6, <1>10 DEF n

LEMMA ExcessErrorIs ==
    ASSUME NEW e, fills \in Seq(Fill), IsErr(e, fills)
    PROVE  ExcessError = e[Len(fills)]
<1> DEFINE n == Len(fills)
           R(h) == h = [T \in SUBSET (1 .. n) |->
                          IF T = {} THEN 0
                          ELSE h[T \ {Max(T)}] + fills[Max(T)].excess * Abs(fills[Max(T)].price - fills[Max(T)].mark)]
           step == [p \in (1 .. n) \X Nat |-> p[2] + fills[p[1]].excess * Abs(fills[p[1]].price - fills[p[1]].mark)]
<1>1. n \in Nat /\ DOMAIN fills = 1 .. n /\ \A i \in 1 .. n : fills[i] \in Fill
  BY LenProperties, ElementOfSeq
<1>2. ExcessError = (CHOOSE h : R(h))[1 .. n]
  BY <1>1 DEF ExcessError, FoldLeft, MapThenFoldSet
<1>3. step \in [(1 .. n) \X Nat -> Nat]
  <2>1. \A k \in 1 .. n, b \in Nat : b + Doubt(fills[k]) \in Nat
    BY <1>1, FillType
  <2>2. QED
    BY <2>1 DEF Doubt
<1>5. \E h : R(h)
  <2> HIDE DEF step, n
  <2>1. PICK h \in [SUBSET (1 .. n) -> Nat] : IsFold(h, 0, step, n)
    BY <1>1, <1>3, FoldExists
  <2> DEFINE q(T) == IF T = {} THEN 0 ELSE step[<<Max(T), h[T \ {Max(T)}]>>]
             r(T) == IF T = {} THEN 0
                     ELSE h[T \ {Max(T)}] + fills[Max(T)].excess * Abs(fills[Max(T)].price - fills[Max(T)].mark)
  <2>2. \A T \in SUBSET (1 .. n) : q(T) = r(T)
    <3> TAKE T \in SUBSET (1 .. n)
    <3> SUFFICES ASSUME T # {} PROVE q(T) = r(T)
      OBVIOUS
    <3>1. Max(T) \in 1 .. n
      BY <1>1, MaxOfRange
    <3>2. h[T \ {Max(T)}] \in Nat
      OBVIOUS
    <3>3. <<Max(T), h[T \ {Max(T)}]>> \in (1 .. n) \X Nat
      BY <3>1, <3>2
    <3>4. QED
      BY <3>3 DEF step
  <2>3. h = [T \in SUBSET (1 .. n) |-> q(T)]
    BY <2>1 DEF IsFold
  <2> HIDE DEF q, r
  <2>4. h = [T \in SUBSET (1 .. n) |-> r(T)]
    BY <2>2, <2>3
  <2>5. R(h)
    BY <2>4 DEF r
  <2> HIDE DEF R
  <2>6. QED
    BY <2>5
<1>6. PICK h : R(h) /\ ExcessError = h[1 .. n]
  <2> HIDE DEF R
  <2>1. QED
    BY <1>2, <1>5
<1>7. ASSUME NEW T \in SUBSET (1 .. n)
      PROVE  h[T] = IF T = {} THEN 0 ELSE h[T \ {Max(T)}] + Doubt(fills[Max(T)])
  BY <1>6 DEF Doubt
<1> HIDE DEF R, n
<1>8. h[{}] = e[0]
  BY <1>7 DEF IsErr
<1>9. ASSUME NEW k \in 1 .. n, h[1 .. (k - 1)] = e[k - 1] PROVE h[1 .. k] = e[k]
  <2>1. 1 .. k \in SUBSET (1 .. n) /\ 1 .. k # {} /\ Max(1 .. k) = k /\ (1 .. k) \ {k} = 1 .. (k - 1)
    BY <1>1, Prefix
  <2>2. h[1 .. k] = h[1 .. (k - 1)] + Doubt(fills[k])
    BY <1>7, <2>1
  <2>3. QED
    BY <1>9, <2>2 DEF IsErr, n
<1>10. h[1 .. n] = e[n]
  BY <1>1, <1>8, <1>9, FoldIsLast
<1>11. QED
  BY <1>6, <1>10 DEF n

-------------------------------------------------------------------------------
(* A position seen in the direction of a fill: up to zero the fill closes. *)
Toward(side, b) == Signed(side, b.qty)

LEMMA Directed ==
    ASSUME NEW b \in Book, NEW side \in Sides, NEW n \in Nat \ {0}, NEW price \in Int
    PROVE  LET p == Toward(side, b)
               q == Toward(side, RecordFill(b, side, n, price))
           IN  /\ p \in Int /\ q \in Int
               /\ p >= 0 => q = p + n /\ ClampFlip(b.qty, side, n) = n
               /\ p < 0 => q <= 0 /\ q > p
<1>1. b.qty \in Int /\ n \in Nat /\ n > 0
  BY DEF Book
<1> DEFINE x == ClampFlip(b.qty, side, n)
<1>2. /\ x \in Nat
      /\ b.qty >= 0 /\ side = "buy" => x = n
      /\ b.qty <= 0 /\ side = "sell" => x = n
      /\ b.qty > 0 /\ side = "sell" => x <= b.qty
      /\ b.qty < 0 /\ side = "buy" => x <= -b.qty
  BY <1>1, ClampFlipBounds
<1>3. b.qty # 0 => x > 0
  BY <1>1 DEF ClampFlip, Abs
<1>4. RecordFill(b, side, n, price).qty = b.qty + Signed(side, x)
  BY <1>1, RecordFillQuantity
<1> HIDE DEF x
<1>5. CASE side = "buy"
  BY <1>1, <1>2, <1>3, <1>4, <1>5 DEF Toward, Signed, x
<1>6. CASE side = "sell"
  BY <1>1, <1>2, <1>3, <1>4, <1>6 DEF Toward, Signed, x
<1>7. QED
  BY <1>5, <1>6 DEF Sides

(* The same book with other money. *)
Shift(b, u, v, w) ==
    [cash |-> b.cash + u, realized |-> b.realized + v, known |-> b.known, qty |-> b.qty,
     basis |-> b.basis + w]

LEMMA ShiftType ==
    ASSUME NEW b \in Book, NEW u \in Int, NEW v \in Int, NEW w \in Int
    PROVE  Shift(b, u, v, w) \in Book
  BY DEF Shift, Book

(* The step of a fill in a direction. *)
LEMMA OpeningStep ==
    ASSUME NEW b \in Book, NEW side \in Sides, NEW n \in Nat \ {0}, NEW price \in Int,
           Toward(side, b) >= 0
    PROVE  BasisAfter(b, Signed(side, n), price) = b.basis + price * Signed(side, n)
<1>1. b.qty \in Int /\ n \in Nat /\ n > 0
  BY DEF Book
<1>2. b.qty = 0 \/ SameSide(b.qty, Signed(side, n))
  BY <1>1 DEF Toward, Signed, SameSide, Sides
<1>3. QED
  BY <1>2 DEF BasisAfter

(* Money that the book had before a fill it has afterwards; so has the     *)
(* basis if the fill opens or adds.                                        *)
LEMMA RecordShift ==
    ASSUME NEW b \in Book, NEW side \in Sides, NEW n \in Nat \ {0}, NEW price \in Int,
           NEW u \in Int, NEW v \in Int, NEW w \in Int, w = 0 \/ Toward(side, b) >= 0
    PROVE  RecordFill(Shift(b, u, v, w), side, n, price) = Shift(RecordFill(b, side, n, price), u, v, w)
<1> DEFINE a == Shift(b, u, v, w)
           s == Signed(side, ClampFlip(b.qty, side, n))
           left == BasisAfter(b, s, price)
<1>1. /\ b.qty \in Int /\ b.basis \in Int /\ b.cash \in Int /\ b.realized \in Int
      /\ a \in Book /\ a.qty = b.qty /\ a.basis = b.basis + w
      /\ a.cash = b.cash + u /\ a.realized = b.realized + v
  BY ShiftType DEF Book, Shift
<1>2. s \in Int /\ left \in Int
  BY <1>1, ClampFlipBounds, SignedType, BasisAfterType
<1>3. BasisAfter(a, s, price) = left + w
  <2>1. CASE w = 0
    <3>1. a.basis = b.basis
      BY <1>1, <2>1
    <3>2. BasisAfter(a, s, price) = left
      BY <1>1, <3>1 DEF BasisAfter, BasisLeft
    <3>3. QED
      BY <1>2, <2>1, <3>2
  <2>2. CASE Toward(side, b) >= 0
    <3>1. ClampFlip(b.qty, side, n) = n
      BY <2>2, Directed
    <3>2. Toward(side, a) >= 0
      BY <1>1, <2>2 DEF Toward
    <3>3. left = b.basis + price * s /\ BasisAfter(a, s, price) = a.basis + price * s
      BY <1>1, <2>2, <3>1, <3>2, OpeningStep
    <3>4. price * s \in Int
      BY <1>2
    <3>5. QED
      BY <1>1, <3>3, <3>4
  <2>3. QED
    BY <2>1, <2>2
<1>4. RecordFill(b, side, n, price) =
        [cash |-> b.cash - price * s, realized |-> b.realized - price * s + left - b.basis,
         known |-> TRUE, qty |-> b.qty + s, basis |-> left]
  BY DEF RecordFill
<1>5. RecordFill(a, side, n, price) =
        [cash |-> a.cash - price * s, realized |-> a.realized - price * s + BasisAfter(a, s, price) - a.basis,
         known |-> TRUE, qty |-> a.qty + s, basis |-> BasisAfter(a, s, price)]
  BY <1>1 DEF RecordFill
<1> DEFINE m == price * s
<1>6. m \in Int
  BY <1>2
<1> HIDE DEF a, s, left, m
<1>7. /\ a.cash - m = (b.cash - m) + u
      /\ a.realized - m + (left + w) - a.basis = (b.realized - m + left - b.basis) + v
  BY <1>1, <1>2, <1>6
<1>8. Shift(RecordFill(b, side, n, price), u, v, w) =
        [cash |-> (b.cash - m) + u, realized |-> (b.realized - m + left - b.basis) + v,
         known |-> TRUE, qty |-> b.qty + s, basis |-> left + w]
  BY <1>4 DEF Shift, m
<1>9. QED
  BY <1>1, <1>3, <1>5, <1>7, <1>8 DEF m, a

(* A fill at another price moves cash and basis if it opens or adds, cash  *)
(* and realized P&L if it closes.                                          *)
LEMMA RecordReprice ==
    ASSUME NEW b \in Book, NEW side \in Sides, NEW n \in Nat \ {0}, NEW mark \in Int, NEW actual \in Int,
           NEW d \in Int, d = (actual - mark) * Signed(side, ClampFlip(b.qty, side, n)),
           NEW nd \in Int, nd = -d, NEW after, after = RecordFill(b, side, n, mark)
    PROVE  RecordFill(b, side, n, actual) =
                 IF Toward(side, b) >= 0 THEN Shift(after, nd, 0, d) ELSE Shift(after, nd, nd, 0)
<1> DEFINE s == Signed(side, ClampFlip(b.qty, side, n))
           A == actual * s
           M == mark * s
           D == (actual - mark) * s
<1>1. b.qty \in Int /\ b.basis \in Int /\ b.cash \in Int /\ b.realized \in Int /\ n > 0 /\ n \in Nat
  BY DEF Book
<1>2. s \in Int
  BY <1>1, ClampFlipBounds, SignedType
<1>3. A \in Int /\ M \in Int /\ D \in Int /\ D = A - M
  <2> HIDE DEF s
  <2>1. QED
    BY <1>2
<1>4. /\ RecordFill(b, side, n, actual) =
            [cash |-> b.cash - A, realized |-> b.realized - A + BasisAfter(b, s, actual) - b.basis,
             known |-> TRUE, qty |-> b.qty + s, basis |-> BasisAfter(b, s, actual)]
      /\ RecordFill(b, side, n, mark) =
            [cash |-> b.cash - M, realized |-> b.realized - M + BasisAfter(b, s, mark) - b.basis,
             known |-> TRUE, qty |-> b.qty + s, basis |-> BasisAfter(b, s, mark)]
  BY DEF RecordFill
<1>5. CASE Toward(side, b) >= 0
  <2>1. BasisAfter(b, s, actual) = b.basis + A /\ BasisAfter(b, s, mark) = b.basis + M
    BY <1>1, <1>5, Directed, OpeningStep
  <2> HIDE DEF A, M, D, s
  <2>2. /\ b.cash - A = (b.cash - M) + -D /\ b.basis + A = (b.basis + M) + D
        /\ b.realized - A + (b.basis + A) - b.basis = (b.realized - M + (b.basis + M) - b.basis) + 0
    BY <1>1, <1>3
  <2>3. RecordFill(b, side, n, actual) = Shift(RecordFill(b, side, n, mark), -D, 0, D)
    <3>1. Shift(RecordFill(b, side, n, mark), -D, 0, D) =
            [cash |-> (b.cash - M) + -D,
             realized |-> (b.realized - M + BasisAfter(b, s, mark) - b.basis) + 0,
             known |-> TRUE, qty |-> b.qty + s, basis |-> BasisAfter(b, s, mark) + D]
      BY <1>4 DEF Shift
    <3>2. QED
      BY <1>4, <2>1, <2>2, <3>1
  <2>4. QED
    BY <1>2, <1>3, <1>5, <2>3 DEF D, s
<1>6. CASE ~(Toward(side, b) >= 0)
  <2>1. ~(b.qty = 0 \/ SameSide(b.qty, s))
    <3>1. CASE side = "buy"
      <4>1. b.qty < 0 /\ s > 0
        BY <1>1, <1>6, <3>1 DEF Toward, Signed, ClampFlip, Abs
      <4> HIDE DEF s
      <4>2. QED
        BY <1>1, <1>2, <4>1 DEF SameSide
    <3>2. CASE side = "sell"
      <4>1. b.qty > 0 /\ s < 0
        BY <1>1, <1>6, <3>2 DEF Toward, Signed, ClampFlip, Abs
      <4> HIDE DEF s
      <4>2. QED
        BY <1>1, <1>2, <4>1 DEF SameSide
    <3>3. QED
      BY <3>1, <3>2 DEF Sides
  <2> DEFINE left == BasisLeft(b, s)
  <2>2. BasisAfter(b, s, actual) = left /\ BasisAfter(b, s, mark) = left
    BY <2>1 DEF BasisAfter
  <2>3. left \in Int
    BY <1>1, <1>2, <2>2, BasisAfterType
  <2> HIDE DEF A, M, D, s, left
  <2>4. /\ b.cash - A = (b.cash - M) + -D /\ left = left + 0
        /\ b.realized - A + left - b.basis = (b.realized - M + left - b.basis) + -D
    BY <1>1, <1>3, <2>3
  <2>5. RecordFill(b, side, n, actual) = Shift(RecordFill(b, side, n, mark), -D, -D, 0)
    <3>1. Shift(RecordFill(b, side, n, mark), -D, -D, 0) =
            [cash |-> (b.cash - M) + -D,
             realized |-> (b.realized - M + BasisAfter(b, s, mark) - b.basis) + -D,
             known |-> TRUE, qty |-> b.qty + s, basis |-> BasisAfter(b, s, mark) + 0]
      BY <1>4 DEF Shift
    <3>2. QED
      BY <1>4, <2>2, <2>4, <3>1
  <2>6. QED
    BY <1>2, <1>3, <1>6, <2>5 DEF D, s
<1>7. QED
  BY <1>5, <1>6

-------------------------------------------------------------------------------
(* Since an unsettled fill only fills of its side have come: after one     *)
(* that opened or added the position has only grown, after one that closed *)
(* it has not passed flat.                                                 *)
Run(c, fs, i) ==
    LET side == fs[i].side
        p == Toward(side, c[i - 1])
    IN  /\ fs[i].price = fs[i].mark
        /\ \A j \in i + 1 .. Len(fs) : fs[j].side = side
        /\ p >= 0 => \A k \in i .. Len(fs) : Toward(side, c[k]) >= p + fs[i].n
        /\ p < 0 => \A k \in i .. Len(fs) :
                       Toward(side, c[k]) <= 0 /\ (k < Len(fs) => Toward(side, c[k]) < 0)

(* The book b is the one that the fills fs make, but for the money u and v *)
(* that cutting fills down may have cost.                                  *)
Agrees(c, e, u, v, fs, b) ==
    /\ IsChain(c, fs) /\ IsErr(e, fs)
    /\ u \in Int /\ v \in Int /\ Abs(u) <= e[Len(fs)] /\ Abs(v) <= e[Len(fs)]
    /\ b = Shift(c[Len(fs)], u, v, 0)
    /\ \A i \in 1 .. Len(fs) : fs[i].excess = fs[i].n - ClampFlip(c[i - 1].qty, fs[i].side, fs[i].n)
    /\ \A i \in 1 .. Len(fs) : ~fs[i].settled => Run(c, fs, i)

LEMMA TowardType ==
    ASSUME NEW b \in Book, NEW side \in Sides
    PROVE  Toward(side, b) \in Int /\ (Toward(side, b) = 0 <=> b.qty = 0)
<1>1. b.qty \in Int
  BY DEF Book
<1>2. QED
  BY <1>1 DEF Toward, Signed

LEMMA Elements ==
    ASSUME NEW fs \in Seq(Fill)
    PROVE  Len(fs) \in Nat /\ \A i \in 1 .. Len(fs) : fs[i] \in Fill
  BY LenProperties, ElementOfSeq

LEMMA RecordAgrees ==
    ASSUME NEW fs \in Seq(Fill), NEW b \in Book, NEW c, NEW e, NEW u, NEW v, Agrees(c, e, u, v, fs, b),
           NEW side \in Sides, NEW n \in Quantities, NEW mark \in Prices, NEW f \in Fill,
           f = [side |-> side, n |-> n, price |-> mark, mark |-> mark,
                settled |-> FALSE, excess |-> n - ClampFlip(b.qty, side, n)],
           \/ \A i \in 1 .. Len(fs) : fs[i].settled
           \/ b.qty # 0 /\ \A i \in 1 .. Len(fs) : fs[i].settled \/ fs[i].side = side
    PROVE  \E d, g : Agrees(d, g, u, v, Append(fs, f), RecordFill(b, side, n, mark))
<1> DEFINE L == Len(fs)
           gs == Append(fs, f)
           new == RecordFill(c[L], side, n, mark)
           d == [k \in 0 .. L + 1 |-> IF k = L + 1 THEN new ELSE c[k]]
           g == [k \in 0 .. L + 1 |-> IF k = L + 1 THEN e[L] ELSE e[k]]
<1>1. /\ L \in Nat /\ gs \in Seq(Fill) /\ Len(gs) = L + 1 /\ gs[L + 1] = f
      /\ \A i \in 1 .. L : gs[i] = fs[i] /\ fs[i] \in Fill
      /\ \A i \in 1 .. L + 1 : i \in 1 .. L \/ i = L + 1
  BY Elements, AppendProperties
<1>2. /\ n \in Nat \ {0} /\ mark \in Int
      /\ f.side = side /\ f.n = n /\ f.price = mark /\ f.mark = mark /\ ~f.settled
      /\ f.excess = n - ClampFlip(b.qty, side, n)
  BY BookSettlementAssumption
<1>3. /\ c \in [0 .. L -> Book] /\ c[0] = NewBook(Capital) /\ e \in [0 .. L -> Nat] /\ e[0] = 0
      /\ b = Shift(c[L], u, v, 0) /\ u \in Int /\ v \in Int
  BY DEF Agrees, IsChain, IsErr
<1>4. c[L] \in Book /\ new \in Book /\ b.qty = c[L].qty /\ e[L] \in Nat
  <2>1. c[L] \in Book /\ e[L] \in Nat
    BY <1>1, <1>3
  <2>2. new \in Book
    BY <1>2, <2>1, RecordFillAtCost
  <2>3. QED
    BY <1>3, <2>1, <2>2 DEF Shift
<1>5. RecordFill(b, side, n, mark) = Shift(new, u, v, 0)
  BY <1>2, <1>3, <1>4, RecordShift
<1> HIDE DEF new, gs
<1>6. d[L + 1] = new /\ g[L + 1] = e[L] /\ \A k \in 0 .. L : d[k] = c[k] /\ g[k] = e[k]
  BY <1>1
<1>7. d \in [0 .. L + 1 -> Book] /\ g \in [0 .. L + 1 -> Nat]
  BY <1>1, <1>3, <1>4
<1> HIDE DEF d, g
<1>8. IsChain(d, gs)
  <2>1. ASSUME NEW k \in 1 .. L + 1
        PROVE  d[k] = RecordFill(d[k - 1], gs[k].side, gs[k].n, gs[k].price)
    <3>1. CASE k = L + 1
      <4>1. d[k - 1] = c[L]
        BY <1>1, <1>6, <3>1
      <4>2. QED
        BY <1>1, <1>2, <1>6, <3>1, <4>1 DEF new
    <3>2. CASE k \in 1 .. L
      <4>1. d[k - 1] = c[k - 1] /\ d[k] = c[k] /\ gs[k] = fs[k]
        BY <1>1, <1>6, <3>2
      <4>2. QED
        BY <3>2, <4>1 DEF Agrees, IsChain
    <3>3. QED
      BY <1>1, <3>1, <3>2
  <2>2. d[0] = NewBook(Capital)
    BY <1>1, <1>3, <1>6
  <2>3. QED
    BY <1>1, <1>7, <2>1, <2>2 DEF IsChain
<1>9. IsErr(g, gs)
  <2>1. Doubt(f) = 0
    <3>1. Abs(f.price - f.mark) = 0 /\ f.excess \in Nat
      BY <1>2, FillType DEF Abs
    <3>2. QED
      BY <3>1 DEF Doubt
  <2>2. ASSUME NEW k \in 1 .. L + 1 PROVE g[k] = g[k - 1] + Doubt(gs[k])
    <3>1. CASE k = L + 1
      <4>1. g[k - 1] = e[L]
        BY <1>1, <1>6, <3>1
      <4>2. QED
        BY <1>1, <1>4, <1>6, <2>1, <3>1, <4>1
    <3>2. CASE k \in 1 .. L
      <4>1. g[k - 1] = e[k - 1] /\ g[k] = e[k] /\ gs[k] = fs[k]
        BY <1>1, <1>6, <3>2
      <4>2. QED
        BY <3>2, <4>1 DEF Agrees, IsErr
    <3>3. QED
      BY <1>1, <3>1, <3>2
  <2>3. g[0] = 0
    BY <1>1, <1>3, <1>6
  <2>4. QED
    BY <1>1, <1>7, <2>2, <2>3 DEF IsErr
<1>10. \A i \in 1 .. L + 1 : gs[i].excess = gs[i].n - ClampFlip(d[i - 1].qty, gs[i].side, gs[i].n)
  <2> TAKE i \in 1 .. L + 1
  <2>1. CASE i = L + 1
    <3>1. d[i - 1] = c[L]
      BY <1>1, <1>6, <2>1
    <3>2. QED
      BY <1>1, <1>2, <1>4, <2>1, <3>1
  <2>2. CASE i \in 1 .. L
    <3>1. d[i - 1] = c[i - 1] /\ gs[i] = fs[i]
      BY <1>1, <1>6, <2>2
    <3>2. QED
      BY <2>2, <3>1 DEF Agrees
  <2>3. QED
    BY <1>1, <2>1, <2>2
<1>11. ASSUME NEW i \in 1 .. L + 1, ~gs[i].settled PROVE Run(d, gs, i)
  <2>1. CASE i = L + 1
    <3> DEFINE p == Toward(side, c[L])
               q == Toward(side, new)
    <3>1. p \in Int /\ q \in Int /\ (p >= 0 => q = p + n) /\ (p < 0 => q <= 0)
      BY <1>2, <1>4, Directed DEF new
    <3>2. d[i - 1] = c[L] /\ d[i] = new /\ gs[i] = f
      BY <1>1, <1>6, <2>1
    <3>3. \A k \in i .. L + 1 : k = i /\ ~(k < L + 1)
      BY <1>1, <2>1
    <3>4. \A k \in i + 1 .. L + 1 : FALSE
      BY <1>1, <2>1
    <3> HIDE DEF p, q
    <3>5. QED
      BY <1>1, <1>2, <3>1, <3>2, <3>3, <3>4 DEF Run, p, q
  <2>2. CASE i \in 1 .. L
    <3>1. /\ gs[i] = fs[i] /\ ~fs[i].settled /\ Run(c, fs, i) /\ d[i - 1] = c[i - 1]
          /\ \A k \in i .. L : d[k] = c[k]
          /\ \A j \in i + 1 .. L : gs[j] = fs[j]
      BY <1>1, <1>6, <1>11, <2>2 DEF Agrees
    <3>2. fs[i].side = side /\ c[L].qty # 0 /\ c[L].qty \in Int
      BY <1>4, <2>2, <3>1 DEF Book
    <3> DEFINE p == Toward(side, c[i - 1])
               q == Toward(side, c[L])
               r == Toward(side, new)
    <3>3. q \in Int /\ q # 0 /\ r \in Int /\ (q >= 0 => r = q + n) /\ (q < 0 => r <= 0)
      <4>1. q \in Int /\ q # 0
        BY <1>4, <3>2, TowardType
      <4>2. q \in Int /\ r \in Int /\ (q >= 0 => r = q + n) /\ (q < 0 => r <= 0)
        BY <1>2, <1>4, Directed DEF new
      <4>3. QED
        BY <4>1, <4>2
    <3>4. p \in Int /\ fs[i].n \in Nat
      <4>1. c[i - 1] \in Book
        BY <1>1, <1>3, <2>2, SMTT(30)
      <4>2. fs[i].n \in Nat
        BY <1>1, <2>2, FillType
      <4>3. QED
        BY <4>1, <4>2, TowardType
    <3>5. /\ p >= 0 => \A k \in i .. L : Toward(side, c[k]) >= p + fs[i].n
          /\ p < 0 => \A k \in i .. L : Toward(side, c[k]) <= 0 /\ (k < L => Toward(side, c[k]) < 0)
          /\ fs[i].price = fs[i].mark /\ \A j \in i + 1 .. L : fs[j].side = side
      BY <3>1, <3>2 DEF Run
    <3>6. L \in i .. L
      BY <1>1, <2>2
    <3> HIDE DEF p, q, r
    <3>7. \A k \in i .. L + 1 : k \in i .. L \/ k = L + 1
      BY <1>1, <2>2
    <3>8. \A j \in i + 1 .. L + 1 : j \in i + 1 .. L \/ j = L + 1
      BY <1>1, <2>2
    <3>9. \A j \in i + 1 .. L + 1 : gs[j].side = side
      BY <1>1, <1>2, <3>1, <3>5, <3>8
    <3>10. ASSUME p >= 0, NEW k \in i .. L + 1 PROVE Toward(side, d[k]) >= p + fs[i].n
      <4>1. q >= p + fs[i].n
        BY <3>5, <3>6, <3>10 DEF q
      <4>2. r >= p + fs[i].n
        BY <1>2, <3>3, <3>4, <3>10, <4>1
      <4>3. QED
        BY <1>6, <3>1, <3>5, <3>7, <3>10, <4>2 DEF r
    <3>11. ASSUME p < 0, NEW k \in i .. L + 1
           PROVE  Toward(side, d[k]) <= 0 /\ (k < L + 1 => Toward(side, d[k]) < 0)
      <4>1. q < 0 /\ r <= 0
        BY <3>3, <3>5, <3>6, <3>11 DEF q
      <4>2. CASE k = L + 1
        BY <1>1, <1>6, <4>1, <4>2 DEF r
      <4>3. CASE k = L
        <5>1. Toward(side, d[k]) = q
          BY <3>1, <3>6, <4>3 DEF q
        <5>2. QED
          BY <3>3, <4>1, <5>1
      <4>4. CASE k \in i .. L /\ k # L
        <5>1. k < L
          BY <1>1, <2>2, <4>4
        <5>2. QED
          BY <3>1, <3>5, <3>11, <4>4, <5>1
      <4>5. QED
        BY <3>7, <4>2, <4>3, <4>4
    <3>12. QED
      BY <1>1, <3>1, <3>2, <3>5, <3>9, <3>10, <3>11 DEF Run, p
  <2>3. QED
    BY <1>1, <2>1, <2>2
<1>12. Abs(u) <= g[L + 1] /\ Abs(v) <= g[L + 1]
  BY <1>6 DEF Agrees
<1>13. Agrees(d, g, u, v, gs, RecordFill(b, side, n, mark))
  BY <1>1, <1>3, <1>5, <1>6, <1>8, <1>9, <1>10, <1>11, <1>12 DEF Agrees
<1>14. QED
  BY <1>13 DEF gs

(* The size of a product with a number that is not negative. *)
LEMMA AbsTimes ==
    ASSUME NEW a \in Int, NEW k \in Nat
    PROVE  a * k \in Int /\ -(a * k) = a * (-k) /\ Abs(a * k) = k * Abs(a) /\ Abs(-(a * k)) = k * Abs(a)
<1>1. CASE a >= 0
  <2>1. a * k \in Int /\ a * k >= 0 /\ k * a = a * k /\ a * (-k) = -(a * k)
    BY <1>1
  <2>2. Abs(a) = a
    BY <1>1 DEF Abs
  <2>3. QED
    BY <2>1, <2>2 DEF Abs
<1>2. CASE a < 0
  <2>1. a * k \in Int /\ a * k <= 0 /\ k * (-a) = -(a * k) /\ a * (-k) = -(a * k)
    BY <1>2
  <2>2. Abs(a) = -a
    BY <1>2 DEF Abs
  <2>3. QED
    BY <2>1, <2>2 DEF Abs
<1>3. QED
  BY <1>1, <1>2

(* Correcting a fill to the reported price. *)
LEMMA ReconcileAgrees ==
    ASSUME NEW fs \in Seq(Fill), NEW b \in Book, NEW c, NEW e, NEW u, NEW v, Agrees(c, e, u, v, fs, b),
           NEW i \in 1 .. Len(fs), ~fs[i].settled, NEW actual \in Prices, b.known,
           b.qty = Signed(fs[i].side, fs[i].n) => b.basis = fs[i].mark * Signed(fs[i].side, fs[i].n),
           NEW gs \in Seq(Fill), Len(gs) = Len(fs),
           \A j \in 1 .. Len(fs) : j # i => gs[j] = fs[j],
           gs[i].side = fs[i].side, gs[i].n = fs[i].n, gs[i].mark = fs[i].mark,
           gs[i].excess = fs[i].excess, gs[i].price = actual, gs[i].settled = TRUE
    PROVE  \E d, g, x, y :
              Agrees(d, g, x, y, gs, ReconcileFill(b, fs[i].side, fs[i].n, fs[i].mark, actual))
<1> DEFINE L == Len(fs)
<1>1. /\ L \in Nat /\ i \in 1 .. L /\ i - 1 \in 0 .. L /\ i \in 0 .. L /\ L \in i .. L /\ L \in 0 .. L
      /\ \A k \in 1 .. L : fs[k] \in Fill /\ gs[k] \in Fill
  <2>1. L \in Nat /\ \A k \in 1 .. L : fs[k] \in Fill
    BY Elements
  <2>2. \A k \in 1 .. L : gs[k] \in Fill
    BY Elements
  <2>3. QED
    BY <2>1, <2>2
<1>2. PICK side \in Sides, n \in Nat \ {0}, mark \in Int, err \in Nat :
        side = fs[i].side /\ n = fs[i].n /\ mark = fs[i].mark /\ err = Doubt(gs[i])
  BY <1>1, FillType, SMTT(30)
<1>3. /\ c \in [0 .. L -> Book] /\ c[0] = NewBook(Capital) /\ e \in [0 .. L -> Nat] /\ e[0] = 0
      /\ b = Shift(c[L], u, v, 0) /\ u \in Int /\ v \in Int /\ Abs(u) <= e[L] /\ Abs(v) <= e[L]
      /\ \A k \in 1 .. L : c[k] = RecordFill(c[k - 1], fs[k].side, fs[k].n, fs[k].price)
      /\ \A k \in 1 .. L : e[k] = e[k - 1] + Doubt(fs[k])
  BY DEF Agrees, IsChain, IsErr
<1>19. PICK before \in Book, last \in Book : before = c[i - 1] /\ last = c[L]
  BY <1>1, <1>3
<1>25. PICK paid \in Int : paid = actual
  BY BookSettlementAssumption
<1>20. n \in Nat /\ n > 0
  OBVIOUS
<1>21. PICK delta \in Int : delta = paid - mark
  OBVIOUS
<1>22. PICK p \in Int, q \in Int : p = Toward(side, before) /\ q = Toward(side, last)
  BY TowardType
<1>23. PICK cut \in Int, s \in Int :
         cut = Signed(side, ClampFlip(before.qty, side, n)) /\ s = Signed(side, n)
  <2>1. ClampFlip(before.qty, side, n) \in Nat
    BY <1>20, ClampFlipBounds DEF Book
  <2>2. QED
    BY <1>20, <2>1, SignedType
<1>24. PICK m \in Int, full \in Int : m = delta * cut /\ full = delta * s
  OBVIOUS
<1> DEFINE opens == p >= 0
<1>5. PICK nm \in Int, gain \in Int, left \in Int :
        nm = -m /\ gain = (IF opens THEN 0 ELSE -m) /\ left = IF opens THEN m ELSE 0
  OBVIOUS
<1> DEFINE d == [k \in 0 .. L |-> IF k < i THEN c[k] ELSE Shift(c[k], nm, gain, left)]
           g == [k \in 0 .. L |-> IF k < i THEN e[k] ELSE e[k] + err]
<1>4. /\ fs[i].price = mark
      /\ \A j \in i + 1 .. L : fs[j].side = side
      /\ opens => \A k \in i .. L : Toward(side, c[k]) >= p + n
      /\ ~opens => q <= 0
  <2>1. Run(c, fs, i)
    BY DEF Agrees
  <2>2. QED
    BY <1>1, <1>2, <1>19, <1>22, <2>1 DEF Run
<1>6. RecordFill(before, side, n, paid) = Shift(c[i], nm, gain, left)
  <2>1. c[i] = RecordFill(before, side, n, mark)
    BY <1>1, <1>2, <1>3, <1>4, <1>19
  <2>2. m = (paid - mark) * Signed(side, ClampFlip(before.qty, side, n))
    BY <1>21, <1>23, <1>24
  <2>3. RecordFill(before, side, n, paid) =
          IF Toward(side, before) >= 0 THEN Shift(c[i], nm, 0, m) ELSE Shift(c[i], nm, nm, 0)
    BY <1>5, <2>1, <2>2, RecordReprice
  <2>4. QED
    BY <1>5, <1>22, <2>3
<1>7. /\ fs[i].excess \in Nat /\ fs[i].excess = n - ClampFlip(before.qty, side, n)
      /\ opens => fs[i].excess = 0 /\ cut = s
  <2>1. fs[i].excess = n - ClampFlip(before.qty, side, n)
    BY <1>2, <1>19 DEF Agrees
  <2>2. opens => ClampFlip(before.qty, side, n) = n
    BY <1>20, <1>22, Directed
  <2>3. fs[i].excess \in Nat
    BY <1>1, FillType
  <2>4. QED
    BY <1>20, <1>23, <2>1, <2>2, <2>3
<1>8. IsChain(d, gs)
  <2>1. /\ \A k \in 0 .. L : c[k] \in Book
        /\ \A k \in 0 .. L : Shift(c[k], nm, gain, left) \in Book
    BY <1>3, ShiftType
  <2>2. d \in [0 .. L -> Book]
    BY <2>1
  <2>3. d[0] = NewBook(Capital)
    BY <1>1, <1>3
  <2>4. ASSUME NEW k \in 1 .. L
        PROVE  d[k] = RecordFill(d[k - 1], gs[k].side, gs[k].n, gs[k].price)
    <3>1. k \in 0 .. L /\ k - 1 \in 0 .. L
      BY <1>1
    <3>2. CASE k = i
      <4>1. d[k - 1] = before /\ d[k] = Shift(c[i], nm, gain, left)
        BY <1>1, <1>19, <3>1, <3>2
      <4> HIDE DEF d
      <4>2. QED
        BY <1>2, <1>6, <1>25, <3>2, <4>1
    <3>3. CASE k < i
      <4>1. d[k - 1] = c[k - 1] /\ d[k] = c[k] /\ gs[k] = fs[k]
        BY <1>1, <3>1, <3>3
      <4> HIDE DEF d
      <4>2. QED
        BY <1>3, <4>1
    <3>4. CASE k > i
      <4>1. /\ d[k - 1] = Shift(c[k - 1], nm, gain, left) /\ d[k] = Shift(c[k], nm, gain, left)
            /\ gs[k] = fs[k]
        BY <1>1, <3>1, <3>4, SMTT(30)
      <4>2. k \in i + 1 .. L /\ k - 1 \in i .. L
        BY <1>1, <3>4
      <4>3. PICK size \in Nat \ {0}, price \in Int, at \in Book :
              size = fs[k].n /\ price = fs[k].price /\ at = c[k - 1]
        <5>1. fs[k].n \in Nat \ {0} /\ fs[k].price \in Nat
          BY <1>1, FillType
        <5>2. c[k - 1] \in Book
          BY <1>3, <3>1
        <5>3. PICK price \in Int : price = fs[k].price
          BY <5>1
        <5>4. QED
          BY <5>1, <5>2, <5>3
      <4>4. fs[k].side = side
        BY <1>4, <4>2
      <4>5. left = 0 \/ Toward(side, at) >= 0
        <5>1. opens => Toward(side, at) >= p + n
          BY <1>4, <4>2, <4>3
        <5>2. Toward(side, at) \in Int
          BY TowardType
        <5>3. QED
          BY <1>5, <1>20, <5>1, <5>2
      <4> HIDE DEF d
      <4>6. RecordFill(Shift(at, nm, gain, left), side, size, price) =
              Shift(RecordFill(at, side, size, price), nm, gain, left)
        BY <4>5, RecordShift
      <4>7. QED
        BY <1>3, <4>1, <4>3, <4>4, <4>6
    <3>5. QED
      BY <1>1, <3>2, <3>3, <3>4
  <2> HIDE DEF d
  <2>5. QED
    BY <2>2, <2>3, <2>4 DEF IsChain
<1>9. IsErr(g, gs) /\ g[L] = e[L] + err
  <2>1. Doubt(fs[i]) = 0
    <3>1. Abs(fs[i].price - fs[i].mark) = 0
      BY <1>2, <1>4 DEF Abs
    <3>2. QED
      BY <1>7, <3>1 DEF Doubt
  <2>2. g \in [0 .. L -> Nat]
    BY <1>2, <1>3
  <2>3. g[0] = 0 /\ g[L] = e[L] + err
    BY <1>1, <1>3
  <2>4. ASSUME NEW k \in 1 .. L PROVE g[k] = g[k - 1] + Doubt(gs[k])
    <3>1. k \in 0 .. L /\ k - 1 \in 0 .. L /\ e[k] \in Nat /\ e[k - 1] \in Nat
      <4>1. k \in 0 .. L /\ k - 1 \in 0 .. L
        BY <1>1
      <4>2. QED
        BY <1>3, <4>1
    <3>2. CASE k = i
      <4>1. g[k - 1] = e[k - 1] /\ g[k] = e[k] + err
        BY <1>1, <3>1, <3>2
      <4>2. e[k] = e[k - 1] + 0
        BY <1>3, <2>1, <3>2
      <4>3. QED
        BY <1>2, <3>1, <3>2, <4>1, <4>2
    <3>3. CASE k < i
      <4>1. g[k - 1] = e[k - 1] /\ g[k] = e[k] /\ gs[k] = fs[k]
        BY <1>1, <3>1, <3>3
      <4>2. QED
        BY <1>3, <4>1
    <3>4. CASE k > i
      <4>1. g[k - 1] = e[k - 1] + err /\ g[k] = e[k] + err /\ gs[k] = fs[k]
        BY <1>1, <3>1, <3>4
      <4>2. Doubt(fs[k]) \in Nat /\ e[k] = e[k - 1] + Doubt(fs[k])
        BY <1>1, <1>3, FillType
      <4> HIDE DEF g
      <4>3. QED
        BY <1>2, <3>1, <4>1, <4>2
    <3>5. QED
      BY <1>1, <3>2, <3>3, <3>4
  <2> HIDE DEF g
  <2>5. QED
    BY <2>2, <2>3, <2>4 DEF IsErr
<1>10. \A k \in 0 .. L : d[k].qty = c[k].qty
  BY DEF Shift
<1>11. \A k \in 1 .. L : gs[k].excess = gs[k].n - ClampFlip(d[k - 1].qty, gs[k].side, gs[k].n)
  <2> HIDE DEF d
  <2> TAKE k \in 1 .. L
  <2>1. k - 1 \in 0 .. L
    BY <1>1
  <2>2. gs[k].excess = fs[k].excess /\ gs[k].n = fs[k].n /\ gs[k].side = fs[k].side
    OBVIOUS
  <2>3. fs[k].excess = fs[k].n - ClampFlip(c[k - 1].qty, fs[k].side, fs[k].n)
    BY DEF Agrees
  <2>4. QED
    BY <1>10, <2>1, <2>2, <2>3
<1>12. ASSUME NEW k \in 1 .. L, ~gs[k].settled PROVE Run(d, gs, k)
  <2> HIDE DEF d
  <2>1. k # i /\ gs[k] = fs[k] /\ Run(c, fs, k)
    BY <1>12 DEF Agrees
  <2>2. \A j \in 1 .. L : gs[j].side = fs[j].side
    OBVIOUS
  <2>3. k - 1 \in 0 .. L /\ \A j \in k .. L : j \in 0 .. L
    BY <1>1
  <2>4. \A j \in k + 1 .. L : j \in 1 .. L
    BY <1>1
  <2>5. \A j \in 0 .. L : \A t : Toward(t, d[j]) = Toward(t, c[j])
    BY <1>10 DEF Toward
  <2>6. QED
    <3> DEFINE t == fs[k].side
    <3>1. /\ gs[k].side = t /\ gs[k].n = fs[k].n /\ gs[k].price = gs[k].mark
          /\ Toward(t, d[k - 1]) = Toward(t, c[k - 1])
          /\ \A j \in k .. L : Toward(t, d[j]) = Toward(t, c[j])
      BY <2>1, <2>3, <2>5 DEF Run
    <3>2. \A j \in k + 1 .. L : gs[j].side = t
      BY <2>1, <2>2, <2>4 DEF Run
    <3>3. /\ Toward(t, c[k - 1]) >= 0 => \A j \in k .. L : Toward(t, c[j]) >= Toward(t, c[k - 1]) + fs[k].n
          /\ Toward(t, c[k - 1]) < 0 => \A j \in k .. L :
                Toward(t, c[j]) <= 0 /\ (j < L => Toward(t, c[j]) < 0)
      BY <2>1 DEF Run
    <3> HIDE DEF t
    <3>4. QED
      BY <3>1, <3>2, <3>3 DEF Run
<1> DEFINE new == ReconcileFill(b, side, n, mark, actual)
<1>26. PICK uu \in Int, vv \in Int : uu = u /\ vv = v
  BY <1>3
<1>13. PICK x \in Int, y \in Int :
         x = uu + m - full /\ (opens => y = vv) /\ (~opens => y = vv + m - full)
  <2>1. uu + m - full \in Int /\ vv + m - full \in Int
    OBVIOUS
  <2>2. CASE opens
    BY <2>1, <2>2
  <2>3. CASE ~opens
    BY <2>1, <2>3
  <2>4. QED
    BY <2>2, <2>3
<1>14. /\ b.qty = last.qty /\ b.basis = last.basis /\ b.cash = last.cash + uu
       /\ b.realized = last.realized + vv /\ b.known = last.known /\ b \in Book
       /\ last.cash \in Int /\ last.realized \in Int /\ last.basis \in Int /\ last.qty \in Int
  <2>1. last.cash \in Int /\ last.realized \in Int /\ last.basis \in Int /\ last.qty \in Int
    BY DEF Book
  <2>2. b = Shift(last, uu, vv, 0)
    BY <1>3, <1>19, <1>26
  <2>3. /\ b.qty = last.qty /\ b.basis = last.basis + 0 /\ b.cash = last.cash + uu
        /\ b.realized = last.realized + vv /\ b.known = last.known
    BY <2>2 DEF Shift
  <2>4. b.basis = last.basis
    BY <2>1, <2>3
  <2>5. QED
    BY <2>1, <2>3, <2>4, Zenon
<1>15. new = Shift(d[L], x, y, 0)
  <2>1. d[L] = Shift(last, nm, gain, left)
    BY <1>1, <1>19
  <2>2. Shift(d[L], x, y, 0) =
          [cash |-> (last.cash + nm) + x, realized |-> (last.realized + gain) + y, known |-> last.known,
           qty |-> last.qty, basis |-> (last.basis + left) + 0]
    BY <2>1 DEF Shift
  <2>3. b = [cash |-> b.cash, realized |-> b.realized, known |-> b.known, qty |-> b.qty, basis |-> b.basis]
    BY DEF Book
  <2>4. CASE opens
    <3>1. m = full /\ gain = 0 /\ left = m /\ y = vv /\ nm = -m /\ x = uu
      BY <1>5, <1>7, <1>13, <1>24, <2>4
    <3>2. q >= p + n
      BY <1>1, <1>4, <1>19, <1>22, <2>4
    <3>3. ~IsClose(b.qty - s, s)
      BY <1>14, <1>20, <1>22, <1>23, <2>4, <3>2 DEF IsClose, SameSide, Signed, Toward, Sides
    <3>4. (last.cash + nm) + x = b.cash - full /\ (last.realized + gain) + y = b.realized
      BY <1>14, <3>1
    <3>5. CASE delta = 0
      <4>1. full = 0
        BY <1>23, <1>24, <3>5
      <4>2. new = b
        BY <1>21, <1>25, <3>5 DEF ReconcileFill
      <4>3. /\ (last.cash + nm) + x = b.cash /\ (last.realized + gain) + y = b.realized
            /\ (last.basis + left) + 0 = b.basis
        BY <1>14, <3>1, <3>4, <4>1
      <4> HIDE DEF new
      <4>4. QED
        BY <1>14, <2>2, <2>3, <4>2, <4>3
    <3>6. CASE delta # 0
      <4>1. PICK A \in Int, M \in Int : A = paid * s /\ M = mark * s /\ full = A - M
        <5>1. paid * s \in Int /\ mark * s \in Int /\ (paid - mark) * s = paid * s - mark * s
          OBVIOUS
        <5>2. QED
          BY <1>21, <1>24, <5>1
      <4>2. CorrectedBasis(b, s, mark, actual) = b.basis + full
        <5>1. CASE b.qty - s = 0
          <6>1. b.qty = Signed(fs[i].side, fs[i].n)
            BY <1>2, <1>14, <1>23, <5>1
          <6>2. b.basis = M
            BY <1>2, <1>23, <4>1, <6>1
          <6>3. CorrectedBasis(b, s, mark, actual) = A
            BY <1>25, <4>1, <5>1 DEF CorrectedBasis
          <6>4. QED
            BY <4>1, <6>2, <6>3
        <5>2. CASE b.qty - s # 0
          BY <1>21, <1>24, <1>25, <5>2 DEF CorrectedBasis
        <5>3. QED
          BY <5>1, <5>2
      <4>3. new = CorrectOpening(b, s, mark, actual)
        BY <1>21, <1>23, <1>25, <3>3, <3>6 DEF ReconcileFill
      <4>4. new = [cash |-> b.cash - full, realized |-> b.realized, known |-> b.known,
                   qty |-> b.qty, basis |-> b.basis + full]
        <5>1. (actual - mark) * s = full
          BY <1>21, <1>24, <1>25
        <5> HIDE DEF new
        <5>2. new = [b EXCEPT !.cash = b.cash - full, !.basis = b.basis + full]
          BY <1>14, <4>2, <4>3, <5>1 DEF CorrectOpening, Book
        <5>3. QED
          BY <2>3, <5>2
      <4>5. (last.basis + left) + 0 = b.basis + full
        BY <1>14, <3>1
      <4> HIDE DEF new
      <4>6. QED
        BY <1>14, <2>2, <3>4, <4>4, <4>5
    <3>7. QED
      BY <3>5, <3>6
  <2>5. CASE ~opens
    <3>1. gain = -m /\ left = 0 /\ nm = -m /\ x = uu + m - full /\ y = vv + m - full
      BY <1>5, <1>13, <2>5
    <3>2. /\ IsClose(b.qty - s, s)
          /\ ClampFlip(b.qty - s, side, n) = n
      BY <1>4, <1>14, <1>20, <1>22, <1>23, <2>5, SMTT(30)
      DEF IsClose, SameSide, Signed, Toward, Sides, ClampFlip, Abs
    <3>3. /\ (last.cash + nm) + x = b.cash - full /\ (last.realized + gain) + y = b.realized - full
          /\ (last.basis + left) + 0 = b.basis
      <4>1. PICK lc \in Int, lr \in Int, lb \in Int : lc = last.cash /\ lr = last.realized /\ lb = last.basis
        BY <1>14
      <4>2. b.cash = lc + uu /\ b.realized = lr + vv /\ b.basis = lb
        BY <1>14, <4>1
      <4>3. (lc + nm) + x = (lc + uu) - full /\ (lr + gain) + y = (lr + vv) - full /\ (lb + left) + 0 = lb
        BY <3>1
      <4>4. (last.cash + nm) + x = b.cash - full
        BY <4>1, <4>2, <4>3
      <4>5. (last.realized + gain) + y = b.realized - full
        BY <4>1, <4>2, <4>3
      <4>6. (last.basis + left) + 0 = b.basis
        BY <4>1, <4>2, <4>3
      <4>7. QED
        BY <4>4, <4>5, <4>6
    <3>4. CASE delta = 0
      <4>1. full = 0
        BY <1>23, <1>24, <3>4
      <4>2. new = b
        BY <1>21, <1>25, <3>4 DEF ReconcileFill
      <4>3. /\ (last.cash + nm) + x = b.cash /\ (last.realized + gain) + y = b.realized
            /\ (last.basis + left) + 0 = b.basis
        <5>1. b.cash \in Int /\ b.realized \in Int
          BY <1>14 DEF Book
        <5>2. QED
          BY <3>3, <4>1, <5>1
      <4> HIDE DEF new
      <4>4. QED
        BY <1>14, <2>2, <2>3, <4>2, <4>3
    <3>5. CASE delta # 0
      <4>1. new = CorrectClosing(b, s, delta)
        BY <1>21, <1>23, <1>25, <3>2, <3>5 DEF ReconcileFill
      <4> HIDE DEF new
      <4>2. new = [b EXCEPT !.cash = b.cash - full, !.realized = b.realized - full]
        BY <1>14, <1>24, <4>1 DEF CorrectClosing, Book
      <4>3. new = [cash |-> b.cash - full, realized |-> b.realized - full, known |-> b.known,
                   qty |-> b.qty, basis |-> b.basis]
        BY <2>3, <4>2
      <4>4. QED
        BY <1>14, <2>2, <3>3, <4>3
    <3>6. QED
      BY <3>4, <3>5
  <2>6. QED
    BY <2>4, <2>5
<1>16. Abs(x) <= g[L] /\ Abs(y) <= g[L]
  <2>1. PICK ex \in Nat : ex = fs[i].excess
    BY <1>7
  <2>2. err = ex * Abs(delta)
    BY <1>2, <1>21, <1>25, <2>1 DEF Doubt
  <2>3. cut - s = Signed(side, -ex)
    <3>1. ClampFlip(before.qty, side, n) \in Nat
      BY <1>20, ClampFlipBounds DEF Book
    <3>2. PICK size \in Nat : size = ClampFlip(before.qty, side, n) /\ ex = n - size
      BY <1>7, <2>1, <3>1
    <3>3. cut = Signed(side, size)
      BY <1>23, <3>2
    <3>4. QED
      BY <1>20, <1>23, <3>2, <3>3 DEF Signed
  <2>4. m - full = delta * (cut - s)
    BY <1>24
  <2>5. PICK off \in Int : off = m - full
    OBVIOUS
  <2>6. Abs(off) = err
    <3>1. CASE side = "buy"
      <4>1. off = -(delta * ex)
        BY <2>3, <2>4, <2>5, <3>1, AbsTimes DEF Signed
      <4>2. QED
        BY <2>2, <4>1, AbsTimes
    <3>2. CASE side = "sell"
      <4>1. cut - s = ex
        BY <2>3, <3>2 DEF Signed
      <4>2. off = delta * ex
        BY <2>4, <2>5, <4>1
      <4>3. QED
        BY <2>2, <4>2, AbsTimes
    <3>3. QED
      BY <3>1, <3>2 DEF Sides
  <2>7. PICK E \in Nat : E = e[L]
    BY <1>1, <1>3
  <2>8. Abs(uu) <= E /\ Abs(vv) <= E
    BY <1>3, <1>26, <2>7
  <2>9. x = uu + off /\ (y = vv \/ y = vv + off)
    BY <1>13, <2>5
  <2>10. g[L] = E + err
    BY <1>9, <2>7
  <2> HIDE DEF g
  <2>11. QED
    BY <2>6, <2>8, <2>9, <2>10 DEF Abs
<1>17. Agrees(d, g, x, y, gs, new)
  <2> HIDE DEF d, g, new
  <2>1. QED
    BY <1>8, <1>9, <1>11, <1>12, <1>15, <1>16 DEF Agrees
<1>18. QED
  <2> HIDE DEF d, g
  <2>1. QED
    BY <1>2, <1>17

-------------------------------------------------------------------------------
(* The book is always one that its fills make. *)
Replayed == \E c, e, u, v : Agrees(c, e, u, v, fills, book)

LEMMA InitReplayed == Init => Replayed
<1> SUFFICES ASSUME Init PROVE Replayed
  OBVIOUS
<1> DEFINE c == [k \in 0 .. 0 |-> NewBook(Capital)]
           e == [k \in 0 .. 0 |-> 0]
<1>1. fills = <<>> /\ Len(fills) = 0 /\ book = NewBook(Capital)
  BY EmptySeq DEF Init
<1>2. NewBook(Capital) \in Book
  BY BookSettlementAssumption DEF NewBook, Book
<1>3. c \in [0 .. 0 -> Book] /\ c[0] = NewBook(Capital) /\ e \in [0 .. 0 -> Nat] /\ e[0] = 0
  BY <1>2
<1>4. 1 .. 0 = {}
  OBVIOUS
<1> HIDE DEF c, e
<1>5. IsChain(c, fills) /\ IsErr(e, fills)
  BY <1>1, <1>3, <1>4 DEF IsChain, IsErr
<1>6. book = Shift(c[0], 0, 0, 0)
  BY <1>1, <1>3, BookSettlementAssumption DEF NewBook, Shift
<1>7. Abs(0) <= e[0]
  BY <1>3 DEF Abs
<1>8. Agrees(c, e, 0, 0, fills, book)
  BY <1>1, <1>4, <1>5, <1>6, <1>7 DEF Agrees
<1>9. QED
  BY <1>8 DEF Replayed

(* The record of a fill after it was reported. *)
LEMMA SettledRecord ==
    ASSUME Types, NEW i \in DOMAIN fills, NEW actual \in Prices,
           fills' = [fills EXCEPT ![i].price = actual, ![i].settled = TRUE]
    PROVE  /\ \A j \in DOMAIN fills : j # i => fills'[j] = fills[j]
           /\ fills'[i].side = fills[i].side /\ fills'[i].n = fills[i].n
           /\ fills'[i].mark = fills[i].mark /\ fills'[i].excess = fills[i].excess
           /\ fills'[i].price = actual /\ fills'[i].settled = TRUE
<1>1. fills[i] \in Fill
  BY ElementOfSeq, LenProperties DEF Types
<1>2. fills'[i] = [fills[i] EXCEPT !.price = actual, !.settled = TRUE]
  OBVIOUS
<1>3. QED
  BY <1>1, <1>2 DEF Fill

LEMMA ReplayedStep ==
    ASSUME Orderly, IInv, Replayed, [Next]_vars
    PROVE  Replayed'
<1>1. PICK c, e, u, v : Agrees(c, e, u, v, fills, book)
  BY DEF Replayed
<1>2. book \in Book /\ fills \in Seq(Fill) /\ DOMAIN fills = 1 .. Len(fills)
  BY LenProperties DEF IInv, Types
<1>3. ASSUME NEW side \in Sides, NEW n \in Quantities, NEW mark \in Prices, Record(side, n, mark)
      PROVE  Replayed'
  <2> DEFINE f == [side |-> side, n |-> n, price |-> mark, mark |-> mark,
                   settled |-> FALSE, excess |-> n - ClampFlip(book.qty, side, n)]
  <2>1. n - ClampFlip(book.qty, side, n) \in Nat
    <3>1. n \in Nat /\ book.qty \in Int
      BY <1>2, BookSettlementAssumption DEF Book
    <3>2. ClampFlip(book.qty, side, n) \in Nat /\ ClampFlip(book.qty, side, n) <= n
      BY <3>1, ClampFlipBounds
    <3>3. QED
      BY <3>1, <3>2
  <2>2. f \in Fill
    BY <2>1 DEF Fill
  <2>3. InOrder(side) /\ book' = RecordFill(book, side, n, mark) /\ fills' = Append(fills, f)
    BY <1>3 DEF Record, Excess
  <2>4. \/ \A i \in 1 .. Len(fills) : fills[i].settled
        \/ book.qty # 0 /\ \A i \in 1 .. Len(fills) : fills[i].settled \/ fills[i].side = side
    BY <1>2, <2>3 DEF InOrder
  <2>5. \E d, g : Agrees(d, g, u, v, Append(fills, f), RecordFill(book, side, n, mark))
    BY <1>1, <1>2, <2>2, <2>4, RecordAgrees
  <2> HIDE DEF f
  <2>6. QED
    BY <2>3, <2>5 DEF Replayed
<1>4. ASSUME NEW i \in DOMAIN fills, NEW actual \in Prices, ~fills[i].settled,
             book' = ReconcileFill(book, fills[i].side, fills[i].n, fills[i].mark, actual),
             fills' = [fills EXCEPT ![i].price = actual, ![i].settled = TRUE]
      PROVE  Replayed'
  <2>1. i \in 1 .. Len(fills) /\ fills # <<>>
    BY <1>2, <1>4, EmptySeq
  <2>2. book.known
    BY <2>1 DEF IInv, Filled
  <2>3. /\ fills' \in Seq(Fill) /\ Len(fills') = Len(fills)
    BY <1>4, SettledFills DEF IInv
  <2>4. /\ \A j \in 1 .. Len(fills) : j # i => fills'[j] = fills[j]
        /\ fills'[i].side = fills[i].side /\ fills'[i].n = fills[i].n
        /\ fills'[i].mark = fills[i].mark /\ fills'[i].excess = fills[i].excess
        /\ fills'[i].price = actual /\ fills'[i].settled = TRUE
    BY <1>2, <1>4, SettledRecord DEF IInv
  <2>5. book.qty = Signed(fills[i].side, fills[i].n) =>
          book.basis = fills[i].mark * Signed(fills[i].side, fills[i].n)
    <3> SUFFICES ASSUME book.qty = Signed(fills[i].side, fills[i].n)
                 PROVE  book.basis = fills[i].mark * Signed(fills[i].side, fills[i].n)
      OBVIOUS
    <3>1. fills[i].side \in Sides /\ fills[i].n \in Nat \ {0}
      BY FillFields DEF IInv
    <3>2. Opening(i) /\ fills[i].n = Abs(book.qty)
      BY <1>4, <3>1 DEF Opening, Abs, Signed, Sides
    <3>3. QED
      BY <3>2 DEF IInv, OpeningsHeld
  <2>6. PICK gs : gs = fills'
    OBVIOUS
  <2>7. /\ gs \in Seq(Fill) /\ Len(gs) = Len(fills)
        /\ \A j \in 1 .. Len(fills) : j # i => gs[j] = fills[j]
        /\ gs[i].side = fills[i].side /\ gs[i].n = fills[i].n /\ gs[i].mark = fills[i].mark
        /\ gs[i].excess = fills[i].excess /\ gs[i].price = actual /\ gs[i].settled = TRUE
    BY <2>3, <2>4, <2>6
  <2>8. ~fills[i].settled
    BY <1>4
  <2>9. \E d, g, x, y : Agrees(d, g, x, y, gs, ReconcileFill(book, fills[i].side, fills[i].n, fills[i].mark, actual))
    BY <1>1, <1>2, <2>1, <2>2, <2>5, <2>7, <2>8, ReconcileAgrees
  <2>10. QED
    BY <1>4, <2>6, <2>9 DEF Replayed
<1>5. CASE UNCHANGED vars
  BY <1>5 DEF vars, Replayed
<1>6. QED
  BY <1>3, <1>4, <1>5, StepCases

(* Where no fill was cut down the correction costs nothing. *)
LEMMA NoDoubt ==
    ASSUME NEW fs \in Seq(Fill), NEW e, IsErr(e, fs), \A i \in 1 .. Len(fs) : fs[i].excess = 0
    PROVE  e[Len(fs)] = 0
<1> DEFINE L == Len(fs)
           h == [T \in SUBSET (1 .. L) |-> 0]
<1>1. L \in Nat /\ \A i \in 1 .. L : fs[i] \in Fill
  BY Elements
<1>2. ASSUME NEW k \in 1 .. L, e[k - 1] = 0 PROVE e[k] = 0
  <2>1. Abs(fs[k].price - fs[k].mark) \in Int
    <3>1. fs[k].price \in Nat /\ fs[k].mark \in Nat
      BY <1>1, FillType
    <3>2. QED
      BY <3>1 DEF Abs
  <2>2. Doubt(fs[k]) = 0
    BY <2>1 DEF Doubt
  <2>3. e[k] = e[k - 1] + Doubt(fs[k])
    BY DEF IsErr
  <2>4. QED
    BY <1>2, <2>2, <2>3
<1>3. h[{}] = e[0]
  BY DEF IsErr
<1>4. \A k \in 1 .. L : h[1 .. (k - 1)] = e[k - 1] => h[1 .. k] = e[k]
  <2> TAKE k \in 1 .. L
  <2>1. 1 .. (k - 1) \in SUBSET (1 .. L) /\ 1 .. k \in SUBSET (1 .. L)
    BY <1>1
  <2>2. h[1 .. (k - 1)] = 0 /\ h[1 .. k] = 0
    BY <2>1
  <2>3. QED
    BY <1>2, <2>2
<1>5. h[1 .. L] = 0
  OBVIOUS
<1> HIDE DEF h, L
<1>6. h[1 .. L] = e[L]
  BY <1>1, <1>3, <1>4, FoldIsLast
<1>7. QED
  BY <1>5, <1>6 DEF L

(* The books add up: the book is the one that its fills make at the best   *)
(* prices known, to within what a cut-down fill may cost, and at every     *)
(* mark its worth is the capital and the gains.                            *)
THEOREM BooksAddUpHolds == ASSUME Orderly PROVE Spec => []BooksAddUp
<1>1. IInv /\ Replayed => SettledExact /\ OversellErrorBounded
  <2> SUFFICES ASSUME IInv, Replayed PROVE SettledExact /\ OversellErrorBounded
    OBVIOUS
  <2>1. PICK c, e, u, v : Agrees(c, e, u, v, fills, book)
    BY DEF Replayed
  <2>2. fills \in Seq(Fill) /\ Len(fills) \in Nat /\ DOMAIN fills = 1 .. Len(fills)
    BY LenProperties DEF IInv, Types
  <2>3. PICK at, err : at = c[Len(fills)] /\ err = e[Len(fills)]
    OBVIOUS
  <2>4. Reference = at /\ ExcessError = err
    BY <2>1, <2>2, <2>3, ReferenceIs, ExcessErrorIs DEF Agrees
  <2>5. /\ at \in Book /\ err \in Nat /\ u \in Int /\ v \in Int /\ Abs(u) <= err /\ Abs(v) <= err
        /\ book = Shift(at, u, v, 0)
    <3>1. Len(fills) \in 0 .. Len(fills)
      BY <2>2
    <3>2. QED
      BY <2>1, <2>3, <3>1 DEF Agrees, IsChain, IsErr
  <2>6. at.cash \in Int /\ at.realized \in Int /\ at.basis \in Int
    BY <2>5 DEF Book
  <2>7. /\ book.qty = at.qty /\ book.basis = at.basis /\ book.cash - at.cash = u
        /\ book.realized - at.realized = v
    BY <2>5, <2>6 DEF Shift
  <2>8. OversellErrorBounded
    BY <2>4, <2>5, <2>7 DEF OversellErrorBounded
  <2>9. SettledExact
    <3> SUFFICES ASSUME \A i \in 1 .. Len(fills) : fills[i].excess = 0 PROVE book = at
      BY <2>2, <2>4 DEF SettledExact
    <3>1. err = 0
      BY <2>1, <2>2, <2>3, NoDoubt DEF Agrees
    <3>2. u = 0 /\ v = 0
      BY <2>5, <3>1 DEF Abs
    <3>3. at = [cash |-> at.cash, realized |-> at.realized, known |-> at.known, qty |-> at.qty, basis |-> at.basis]
      BY <2>5 DEF Book
    <3>4. at.cash + 0 = at.cash /\ at.realized + 0 = at.realized /\ at.basis + 0 = at.basis
      BY <2>6
    <3>5. QED
      BY <2>5, <3>2, <3>3, <3>4 DEF Shift
  <2>10. QED
    BY <2>8, <2>9
<1>2. Spec => []Replayed
  <2>1. ASSUME IInv, Replayed, [Next]_vars PROVE Replayed'
    BY <2>1, ReplayedStep
  <2>2. Spec => []IInv
    BY IInvHolds
  <2>3. QED
    BY <2>1, <2>2, InitReplayed, PTL DEF Spec
<1>3. SettledExact /\ PnlAddsUp /\ OversellErrorBounded => BooksAddUp
  BY DEF BooksAddUp
<1>4. QED
  BY <1>1, <1>2, <1>3, IInvHolds, PnlAddsUpHolds, PTL

-------------------------------------------------------------------------------
(* The types of all variables. *)

(* The ids that are remembered are those of fills, and not too many. *)
LEMMA BookTypesStep == TypeOK /\ [Next]_vars => TypeOK'
<1> SUFFICES ASSUME TypeOK, [Next]_vars PROVE TypeOK'
  OBVIOUS
<1>1. Types /\ Types'
  BY TypesStep DEF TypeOK, Types
<1>2. reconciled \in Seq(DOMAIN fills) /\ Len(reconciled) <= IdCap /\ IdCap \in Nat \ {0}
  BY BookSettlementAssumption DEF TypeOK
<1>3. ASSUME NEW side \in Sides, NEW n \in Quantities, NEW mark \in Prices, Record(side, n, mark)
      PROVE  TypeOK'
  <2>1. DOMAIN fills \subseteq DOMAIN fills' /\ reconciled' = reconciled
    BY <1>1, <1>3, RecordedFills DEF Record
  <2>2. reconciled' \in Seq(DOMAIN fills')
    BY <1>2, <2>1
  <2>3. QED
    BY <1>1, <1>2, <2>1, <2>2 DEF Types, TypeOK
<1>4. ASSUME NEW i \in DOMAIN fills, NEW actual \in Prices, Report(i, actual) PROVE TypeOK'
  <2>1. CASE i \in ToSet(reconciled)
    BY <1>4, <2>1 DEF Report, Reconcile, vars, TypeOK
  <2>2. CASE i \notin ToSet(reconciled)
    <3>1. /\ fills' = [fills EXCEPT ![i].price = actual, ![i].settled = TRUE]
          /\ reconciled' = AddReconciledId(i)
      BY <1>4, <2>2 DEF Report, Reconcile
    <3>2. DOMAIN fills' = DOMAIN fills
      BY <1>1, <3>1, SettledFills
    <3> DEFINE added == Append(reconciled, i)
    <3>3. added \in Seq(DOMAIN fills) /\ Len(added) = Len(reconciled) + 1 /\ Len(reconciled) \in Nat
      BY <1>2
    <3>4. reconciled' = IF Len(added) > IdCap THEN Tail(added) ELSE added
      BY <3>1 DEF AddReconciledId
    <3> HIDE DEF added
    <3>5. Len(added) > IdCap => /\ Tail(added) \in Seq(DOMAIN fills) /\ Len(Tail(added)) = Len(added) - 1
      <4>1. added # <<>> \/ ~(Len(added) > IdCap)
        BY <1>2, <3>3
      <4>2. QED
        BY <3>3, <4>1, HeadTailProperties
    <3>6. reconciled' \in Seq(DOMAIN fills) /\ Len(reconciled') <= IdCap
      <4>1. CASE Len(added) > IdCap
        <5>1. reconciled' = Tail(added) /\ Len(Tail(added)) = Len(reconciled)
          BY <3>3, <3>4, <3>5, <4>1
        <5>2. QED
          BY <1>2, <3>5, <4>1, <5>1
      <4>2. CASE ~(Len(added) > IdCap)
        BY <1>2, <3>3, <3>4, <4>2
      <4>3. QED
        BY <4>1, <4>2
    <3>7. QED
      BY <1>1, <3>2, <3>6 DEF Types, TypeOK
  <2>3. QED
    BY <2>1, <2>2
<1>5. CASE UNCHANGED vars
  BY <1>5 DEF vars, TypeOK
<1>6. QED
  BY <1>3, <1>4, <1>5 DEF Next

LEMMA AcademyTypes == AcademyInv => AcademyTypeOK
<1> SUFFICES ASSUME AcademyInv PROVE AcademyTypeOK
  OBVIOUS
<1>1. ASSUME NEW c \in Callers
      PROVE  /\ pass[c].step \in {"idle", "evaluate", "row", "memory"} /\ pass[c].agent \in Agents
             /\ {pass[c].promoted, pass[c].demoted, pass[c].todo} \subseteq Seq(Change)
             /\ pass[c].step \in {"row", "memory"} => pass[c].todo # <<>>
  BY DEF AcademyInv, PassType, ListsFit
<1>2. QED
  BY <1>1 DEF AcademyInv, AcademyTypeOK

CareerInv == TypeOK /\ NotesInv /\ AcademyInv /\ PeakInv

LEMMA CareerInit_Inv == CareerInit => CareerInv
<1>1. Init => TypeOK
  <2> SUFFICES ASSUME Init PROVE TypeOK
    OBVIOUS
  <2>1. Types /\ reconciled = <<>> /\ fills = <<>>
    BY InitTypes DEF Init
  <2>2. reconciled \in Seq(DOMAIN fills) /\ Len(reconciled) = 0
    BY <2>1
  <2>3. QED
    BY <2>1, <2>2, BookSettlementAssumption DEF Types, TypeOK
<1>2. QED
  BY <1>1, NotesInit_Inv, AcademyInit_Inv, ExitsInit_Inv DEF CareerInit, CareerInv

LEMMA CareerNext_Inv == CareerInv /\ [CareerNext]_careerVars => CareerInv'
<1> SUFFICES ASSUME CareerInv, [CareerNext]_careerVars PROVE CareerInv'
  OBVIOUS
<1>1. [Next]_vars /\ [NotesNext]_notesVars /\ [AcademyNext]_academyVars /\ [ExitsNext]_exitVars
  BY DEF CareerNext, careerVars, bookVars
<1>2. QED
  BY <1>1, BookTypesStep, NotesNext_Inv, AcademyNext_Inv, ExitsNext_Inv DEF CareerInv

(* Every variable of the four modules stays within its type: the ids       *)
(* remembered within their cap, the lock with the pass that holds it.      *)
THEOREM CareerTypeOKHolds == CareerSpec => []CareerTypeOK
<1>1. CareerInv => CareerTypeOK
  BY AcademyTypes DEF CareerInv, CareerTypeOK, NotesInv, PeakInv
<1>2. QED
  BY <1>1, CareerInit_Inv, CareerNext_Inv, PTL DEF CareerSpec
===============================================================================
