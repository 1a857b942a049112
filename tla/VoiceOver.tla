------------------------------- MODULE VoiceOver -------------------------------
(***************************************************************************)
(* The voice of an episode (tts/run.py): each line of script.json is       *)
(* spoken into a wav of its own, and index.json tells the mixer which wavs *)
(* there are, what they say and how long they are.  A later run speaks     *)
(* only what is missing unless it is forced.  The operator can rewrite the *)
(* script at any time, a run can fail on a line, and it can be killed.     *)
(*                                                                         *)
(* A wav is the text that is heard in it; this text also stands for its    *)
(* length.                                                                 *)
(***************************************************************************)
EXTENDS Integers, FiniteSets

CONSTANTS
    LastLine,     \* lines are 1 .. LastLine, in the order of the script
    Texts,
    MaxVoiceRuns  \* bound on runs

ASSUME VoiceAssumption == LastLine \in Nat /\ MaxVoiceRuns \in Nat

Silent == "silent"   \* an empty line; a wav that is not there
Garbled == "garbled" \* the wav of a call that failed halfway
ASSUME SilentAssumption == Silent \notin Texts /\ Garbled \notin Texts

VARIABLES
    script,     \* [line -> text], Silent for an empty one
    wav,        \* [line -> the text heard in it]
    index,      \* index.json: [some lines -> text and length]
    voicing,    \* the run in progress
    rewritten,  \* history: lines rewritten since they were spoken
    overwritten,\* history: lines whose wav is newer than the index
    voiced      \* runs begun
voiceVars == <<script, wav, index, voicing, rewritten, overwritten, voiced>>

Lines == 1 .. LastLine
Rows(S) == UNION {[D -> [text : S, length : S \cup {Garbled}]] : D \in SUBSET Lines}
NoRows == <<>>
NotVoicing == [on |-> FALSE, last |-> "none", force |-> FALSE, at |-> 1, script |-> [i \in Lines |-> Silent],
               kept |-> NoRows, rows |-> NoRows, failed |-> {}]

VoiceTypeOK ==
    /\ script \in [Lines -> Texts \cup {Silent}]
    /\ wav \in [Lines -> Texts \cup {Silent, Garbled}]
    /\ index \in Rows(Texts) /\ voicing.rows \in Rows(Texts)
    /\ voicing.at \in 1 .. LastLine + 1
    /\ DOMAIN voicing.rows \cap voicing.failed = {}
    /\ \A i \in DOMAIN voicing.rows \cup voicing.failed : i < voicing.at /\ voicing.script[i] # Silent
    /\ rewritten \cup overwritten \subseteq Lines
    /\ voiced \in 0 .. MaxVoiceRuns

VoiceInit ==
    /\ script \in [Lines -> Texts] /\ wav = [i \in Lines |-> Silent] /\ index = NoRows
    /\ voicing = NotVoicing /\ rewritten = {} /\ overwritten = {} /\ voiced = 0

(* The operator edits the script or has it written anew. *)
Rewrites ==
    /\ \E i \in Lines, text \in Texts \cup {Silent} :
          text # script[i] /\ script' = [script EXCEPT ![i] = text] /\ rewritten' = rewritten \cup {i}
    /\ UNCHANGED <<wav, index, voicing, overwritten, voiced>>

(* run_tts reads the script and, unless it is forced, the index. *)
Kept(force) == IF force THEN NoRows ELSE index
BeginsToSpeak ==
    /\ ~voicing.on /\ voiced < MaxVoiceRuns
    /\ \E force \in BOOLEAN :
          voicing' = [NotVoicing EXCEPT !.on = TRUE, !.force = force, !.script = script, !.kept = Kept(force)]
    /\ voiced' = voiced + 1
    /\ UNCHANGED <<script, wav, index, rewritten, overwritten>>

(* The line at i, one after the other. *)
AtLine(i) == voicing.on /\ voicing.at = i /\ i <= LastLine
Text(i) == voicing.script[i]
MayKeep(i) == i \in DOMAIN voicing.kept /\ wav[i] # Silent
PassedOver == [voicing EXCEPT !.at = @ + 1]
WithRow(i, length) ==
    LET row == [text |-> Text(i), length |-> length] IN
    [PassedOver EXCEPT !.rows = [j \in DOMAIN @ \cup {i} |-> IF j = i THEN row ELSE @[j]]]

PassesOver(i) ==
    /\ AtLine(i) /\ Text(i) = Silent
    /\ voicing' = PassedOver
    /\ UNCHANGED <<script, wav, index, rewritten, overwritten, voiced>>

(* The wav and its length stay; the row gets the text of today. *)
KeptLength_OfText(i) == Text(i)
KeptLength(i) == voicing.kept[i].length
KeepsWav(i) ==
    /\ AtLine(i) /\ Text(i) # Silent /\ MayKeep(i)
    /\ voicing' = WithRow(i, KeptLength(i))
    /\ UNCHANGED <<script, wav, index, rewritten, overwritten, voiced>>

Unspoken(i) == AtLine(i) /\ Text(i) # Silent /\ ~MayKeep(i)
Speaks(i) ==
    /\ Unspoken(i)
    /\ wav' = [wav EXCEPT ![i] = Text(i)]
    /\ voicing' = WithRow(i, Text(i))
    /\ rewritten' = IF script[i] = Text(i) THEN rewritten \ {i} ELSE rewritten
    /\ overwritten' = overwritten \cup {i}
    /\ UNCHANGED <<script, index, voiced>>

(* The provider has failed for good: no row, and what it left on disk.  A  *)
(* wav that cannot be read is no failure, it only counts as of no length.  *)
Missed(i) == [PassedOver EXCEPT !.failed = @ \cup {i}]
FailsToSpeak(i) ==
    /\ Unspoken(i)
    /\ \/ voicing' = Missed(i) /\ wav' \in {wav, [wav EXCEPT ![i] = Garbled]}
       \/ voicing' = WithRow(i, Garbled) /\ wav' = [wav EXCEPT ![i] = Garbled]
    /\ overwritten' = overwritten \cup {i}
    /\ UNCHANGED <<script, index, rewritten, voiced>>

(* The index has the lines of this run only; failures make the exit code 1. *)
Outcome == IF voicing.failed = {} THEN "ok" ELSE "failed"
WritesIndex ==
    /\ voicing.on /\ voicing.at = LastLine + 1
    /\ index' = voicing.rows
    /\ voicing' = [NotVoicing EXCEPT !.last = Outcome, !.force = voicing.force, !.script = voicing.script]
    /\ overwritten' = overwritten \cap DOMAIN voicing.kept
    /\ UNCHANGED <<script, wav, rewritten, voiced>>

VoiceKilled ==
    /\ voicing.on
    /\ \/ UNCHANGED <<wav, overwritten>>
       \/ /\ voicing.at <= LastLine /\ Unspoken(voicing.at)
          /\ wav' = [wav EXCEPT ![voicing.at] = Garbled]
          /\ overwritten' = overwritten \cup {voicing.at}
    /\ voicing' = [NotVoicing EXCEPT !.last = "killed"]
    /\ UNCHANGED <<script, index, rewritten, voiced>>

VoiceNext ==
    \/ Rewrites \/ BeginsToSpeak \/ WritesIndex \/ VoiceKilled
    \/ \E i \in Lines : PassesOver(i) \/ KeepsWav(i) \/ Speaks(i) \/ FailsToSpeak(i)
VoiceSpec == VoiceInit /\ [][VoiceNext]_voiceVars

-------------------------------------------------------------------------------
(* The mixer lays the next line after the length the index gives: it is    *)
(* that of the wav.  The exceptions are lines spoken by a run that did not *)
(* write its index, for it is still at it or was killed; they keep their   *)
(* earlier length until they are spoken again.                             *)
LengthsFit ==
    \A i \in DOMAIN index : index[i].length = wav[i] \/ i \in overwritten

(* What the index says is what is heard, unless the line was rewritten     *)
(* after it was spoken and no run has been forced to speak it again, or    *)
(* the wav is garbled.                                                     *)
TextsFit ==
    \A i \in DOMAIN index :
       index[i].text = wav[i] \/ wav[i] = Garbled \/ i \in rewritten \cup overwritten

(* A run that ends well has a wav for every line of its script, and after  *)
(* a forced one each is what its line says, whatever was there before.     *)
OkMeansVoiced ==
    voicing.last = "ok" =>
       /\ DOMAIN index = {i \in Lines : voicing.script[i] # Silent}
       /\ \A i \in DOMAIN index : wav[i] # Silent
       /\ voicing.force => \A i \in DOMAIN index : wav[i] \in {voicing.script[i], Garbled}

(* The index of the voice-over tells the truth about its wavs, lengths and *)
(* texts, and a run that says ok has made them all (the three above).      *)
IndexIsHeard == LengthsFit /\ TextsFit /\ OkMeansVoiced
================================================================================
