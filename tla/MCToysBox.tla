----------------------------- MODULE MCToysBox ------------------------------
(***************************************************************************)
(* Model checking of ToysTree: a container whose folders users arrange and *)
(* the one of the downloads. Users call folders Map and MapOld, a name     *)
(* that continues the other; New is what a new folder is called.           *)
(***************************************************************************)
EXTENDS ToysTree

CONSTANTS h1, h2, Map, Old, New, object, downloaded

Generated == {<<New>>}
Given == {<<Map>>, <<Map, Old>>}
Arranged == {object}
Containers == {object, downloaded}
=============================================================================
