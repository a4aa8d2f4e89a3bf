-------------------------- MODULE MCObstacleGuard --------------------------
(* ObstacleGuard for TLC, in ticks of an eighth of a second.                *)
EXTENDS ObstacleGuard
=============================================================================
