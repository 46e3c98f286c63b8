--------------------------- MODULE MCSaveChanges ---------------------------
(* One instance of SaveChanges at a time, on a model of SaveModels.         *)
EXTENDS SaveChanges, SaveModels
=============================================================================
