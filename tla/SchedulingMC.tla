---------------------------- MODULE SchedulingMC ----------------------------
(* An instance of Scheduling for TLC: an interval of two ticks, and a server one tick
   west or east of Greenwich. *)
EXTENDS Scheduling

Offsets == {-1}
=============================================================================
