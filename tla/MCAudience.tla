----------------------------- MODULE MCAudience ------------------------------
(* Instances of Audience for TLC. *)
EXTENDS Audience, TLC

MCSymmetry == Permutations(Users)

T(bang, word, arg) == [bang |-> bang, word |-> word, arg |-> arg]
MCAgents == <<"ann">>
MCMeans(query, agent) == query = "an" /\ agent = "ann"
MCTexts == {T(TRUE, "spy", "up"), T(TRUE, "spy", "down"), T(TRUE, "pin", "an"), T(TRUE, "vote", "up")}
==============================================================================
