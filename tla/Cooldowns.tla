------------------------------- MODULE Cooldowns -------------------------------
(***************************************************************************)
(* The bookkeeping auto_director.py and streak_watcher.py share: how long  *)
(* ago each macro id was fired, and whether it may be fired again.  Only   *)
(* the time since the last firing matters, up to the cooldown; an id that  *)
(* was never fired counts as fired a cooldown ago.                         *)
(***************************************************************************)
EXTENDS Naturals

(* _maybe_fire: those of the collected ids that fire, and the ages after.  *)
Firing(ids, age, cooldown) == {id \in ids : age[id] >= cooldown}
Fired(ids, age, cooldown) ==
    [id \in DOMAIN age |-> IF id \in Firing(ids, age, cooldown) THEN 0 ELSE age[id]]

Rested(ids, cooldown) == [id \in ids |-> cooldown]
Older(age, cooldown) == [id \in DOMAIN age |-> IF age[id] < cooldown THEN age[id] + 1 ELSE cooldown]
================================================================================
