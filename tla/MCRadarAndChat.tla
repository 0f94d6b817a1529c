------------------------------ MODULE MCRadarAndChat ------------------------------
(* Two pull requests, one of which may leave the list that GitHub gives, and two     *)
(* questions of one thread under way.                                                *)
EXTENDS RadarAndChat

CONSTANTS p1, p2, q1, q2, poll

MCLists == {{p2}, {p1, p2}}

================================================================================
