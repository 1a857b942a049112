------------------------------ MODULE Commentary -------------------------------
(***************************************************************************)
(* orchestrator/commentary_loop.py: a poll that takes a snapshot of the    *)
(* farm, asks the language model for a sentence about it and puts what     *)
(* comes back on air.  The answer takes up to twenty seconds, and the farm *)
(* goes on.  The amounts it claims with a suffix the two patterns read     *)
(* ("$200K", "1.5M", "$2 million") are weighed against the snapshot; one   *)
(* written otherwise ("$200,000", "5 million shares") is not read at all.  *)
(* A model that fails, says nothing or exaggerates where it is read is     *)
(* replaced by a stock sentence.                                           *)
(***************************************************************************)
EXTENDS Naturals, SequencesExt

CONSTANTS
    Notionals,   \* notional values of fills
    Claims,      \* the magnitudes a sentence may claim, 0 for none
    Factor,      \* _HALLUCINATION_FACTOR
    RecentFills, \* RECENT_FILLS
    MaxFills     \* bound on the fills

ASSUME CommentaryAssumption ==
    /\ Notionals \subseteq Nat \ {0} /\ 0 \in Claims /\ Claims \subseteq Nat
    /\ {Factor, RecentFills} \subseteq Nat \ {0} /\ MaxFills \in Nat

VARIABLES
    tape,     \* the end of orch.recent_fills the loop reads, newest last
    spyBand,  \* SPY against the baseline: "still", "drift", "up" or "down"
    asking,   \* the snapshot of the call under way, as a sequence of at most one
    said,     \* what the last step has put on air, likewise
    fillCount, biggest  \* history: how many fills, and the biggest
talkVars == <<tape, spyBand, asking, said, fillCount, biggest>>

Bands == {"still", "drift", "up", "down"}
Moods == {"up", "down", "active", "quiet"}
(* A sentence on air: whose it is, the biggest amount it claims with a     *)
(* suffix, and the biggest it claims in other words.                       *)
Said == [by : {"llm"} \cup Moods, marked : Claims, plain : Claims]
TalkTypeOK ==
    /\ tape \in Seq(Notionals) /\ Len(tape) <= RecentFills
    /\ spyBand \in Bands /\ Len(asking) <= 1 /\ Len(said) <= 1
    /\ ToSet(said) \subseteq Said
    /\ fillCount \in 0 .. MaxFills /\ biggest \in {0} \cup Notionals

TalkInit ==
    /\ tape = <<>> /\ spyBand = "still" /\ asking = <<>> /\ said = <<>>
    /\ fillCount = 0 /\ biggest = 0

(* _snapshot, _is_quiet, _max_notional, _fallback_for.                     *)
Snapshot == [fills |-> Len(tape), largest |-> Max({0} \cup ToSet(tape)), spy |-> spyBand]
Quiet == tape = <<>> /\ spyBand = "still"
Exaggerates(sentence, snap) == snap.largest > 0 /\ sentence.marked > Factor * snap.largest
Fallback(snap) ==
    [by |-> IF snap.spy \in {"up", "down"} THEN snap.spy
            ELSE IF snap.fills >= 3 THEN "active" ELSE "quiet",
     marked |-> 0, plain |-> 0]

(* tick_once up to the call, and from its answer: a sentence, or nothing   *)
(* for an error, a timeout, or an answer without a text.                   *)
Asks ==
    /\ asking = <<>> /\ ~Quiet
    /\ asking' = <<Snapshot>> /\ said' = <<>>
    /\ UNCHANGED <<tape, spyBand, fillCount, biggest>>
Answers == {<<>>} \cup {<<sentence>> : sentence \in {s \in Said : s.by = "llm"}}
OnAir_LlmOnly(answer, snap) ==
    IF answer = <<>> \/ Exaggerates(answer[1], snap) THEN <<>> ELSE answer
OnAir(answer, snap) ==
    IF answer = <<>> \/ Exaggerates(answer[1], snap) THEN <<Fallback(snap)>> ELSE answer
Speaks ==
    /\ asking # <<>> /\ asking' = <<>>
    /\ \E answer \in Answers : said' = OnAir(answer, asking[1])
    /\ UNCHANGED <<tape, spyBand, fillCount, biggest>>

(* The farm trades, and SPY moves, also while the model thinks.            *)
FarmFills ==
    /\ fillCount < MaxFills /\ fillCount' = fillCount + 1 /\ said' = <<>>
    /\ \E n \in Notionals :
          /\ tape' = IF Len(tape) < RecentFills THEN Append(tape, n) ELSE Append(Tail(tape), n)
          /\ biggest' = IF n > biggest THEN n ELSE biggest
    /\ UNCHANGED <<spyBand, asking>>
SpyDrifts ==
    /\ spyBand' \in Bands /\ said' = <<>>
    /\ UNCHANGED <<tape, asking, fillCount, biggest>>

TalkNext == Asks \/ Speaks \/ FarmFills \/ SpyDrifts

-------------------------------------------------------------------------------
(* What a sentence on air claims with a suffix is no more than ten times   *)
(* the biggest fill there has been, also when the farm went on while the   *)
(* model thought, unless its snapshot had no fill at all to belie it.      *)
(* Nothing is said of amounts written otherwise: the guard passes them.    *)
ClaimsAreBacked ==
    [][said' # <<>> => Head(said').marked <= Factor * biggest \/ asking[1].fills = 0]_talkVars

(* Once the farm has traded, the loop speaks again and again, whatever     *)
(* becomes of its calls.                                                   *)
NeverFallsSilent == fillCount > 0 ~> said # <<>>

(* The commentary goes on, and the amounts it marks stay within what the   *)
(* farm has done (ClaimsAreBacked, NeverFallsSilent).                      *)
CommentaryIsSober == ClaimsAreBacked /\ NeverFallsSilent
================================================================================
