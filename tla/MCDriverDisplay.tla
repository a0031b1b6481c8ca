-------------------------- MODULE MCDriverDisplay ---------------------------
(* Two geometries, one inside the other. *)
EXTENDS DriverDisplay

MCGeometries == {{1}, {1, 2}}
=============================================================================
