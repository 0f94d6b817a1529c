------------------------------- MODULE MCWorkspace -------------------------------
(* A migration with three keys to draw, a history that the filters cut down, more    *)
(* migrations than two pages hold, and two tabs that sign in.                        *)
EXTENDS Workspace

CONSTANTS k1, k2, k3, i1, i2, i3, t1, t2

MCFilters == {{i1, i2, i3}, {i2, i3}}

================================================================================
