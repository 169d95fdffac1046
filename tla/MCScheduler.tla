---------------------------- MODULE MCScheduler ----------------------------
(* Instances of Scheduler for TLC: two items, a and b, whose kinds each     *)
(* configuration chooses.                                                   *)
EXTENDS Scheduler, TLC

CONSTANTS a, b, chan1, chan2, standing

(* Both items belong to one channel. *)
OneChannel == (a :> chan1) @@ (b :> chan1)

(* Item a is a standing task, b is created by its turns. *)
BothStanding == (a :> standing) @@ (b :> standing)

(* Item a is a standing task, and the only item. *)
StandingAlone == a :> standing
============================================================================
