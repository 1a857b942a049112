------------------------------- MODULE MCCareer -------------------------------
(* Instances for TLC of the four modules that follow an agent's career:    *)
(* its book, its notes, its risk exits and its ranks.  They share no       *)
(* variable, so a behaviour lets one of them run and leaves the others     *)
(* where they start.                                                       *)
EXTENDS BookSettlement, JournalNotes, Academy, RiskExits

VARIABLE part   \* the module that runs
bookVars == vars
careerVars == <<bookVars, notesVars, academyVars, exitVars, part>>

(* At most five fills of at most two lots: each partial close or add can   *)
(* halve the basis once more, so with prices that are multiples of 16      *)
(* every average price is an integer.                                      *)
MCPrices == {16, 32}
MCNotePrices == {1, 2, 4}
MCPnLs == {-2, 3}
MCMarks == {97, 100, 101, 104}

CareerInit ==
    /\ part \in {"book", "notes", "academy", "exits"}
    /\ Init /\ NotesInit /\ AcademyInit /\ ExitsInit

CareerNext ==
    /\ part' = part
    /\ \/ part = "book" /\ Next /\ UNCHANGED <<notesVars, academyVars, exitVars>>
       \/ part = "notes" /\ NotesNext /\ UNCHANGED <<bookVars, academyVars, exitVars>>
       \/ part = "academy" /\ AcademyNext /\ UNCHANGED <<bookVars, notesVars, exitVars>>
       \/ part = "exits" /\ ExitsNext /\ UNCHANGED <<bookVars, notesVars, academyVars>>

(* The fairness of the modules, each while it is the one that runs. *)
CareerSpec ==
    /\ CareerInit /\ [][CareerNext]_careerVars
    /\ WF_academyVars(part = "academy" /\ TickReleasesLock)
    /\ \A c \in Callers :
          /\ SF_academyVars(part = "academy" /\ PassStarts(c))
          /\ WF_academyVars(part = "academy" /\ (Evaluate(c) \/ SetRank(c) \/ RebuildRisk(c)))
    /\ WF_exitVars(part = "exits" /\ DayPasses) /\ WF_exitVars(part = "exits" /\ PendingExpires)
    /\ SF_exitVars(part = "exits" /\ \E mark \in Marks : TickExits(mark))

(* The types of all variables, among them the bound on remembered ids and  *)
(* the holder of the lock between ticks and passes.                        *)
CareerTypeOK == TypeOK /\ NotesTypeOK /\ AcademyTypeOK /\ ExitsTypeOK

(* No agent stays below the rank it is eligible for and no position stays  *)
(* open, whatever passes and exits failed before: what the curriculum's    *)
(* loop and the risk rules owe, each under its own fairness.               *)
NothingIsStuck == RanksCatchUp /\ PositionsClose
================================================================================
