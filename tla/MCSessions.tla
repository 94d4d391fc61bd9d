------------------------------ MODULE MCSessions ------------------------------
(* Instances of the sessions for TLC.                                      *)
EXTENDS Sessions

CONSTANTS f1, f2

(* One family that can be rotated twice beside one login or profile save.  *)
MCCred == {<<f1, 1>>, <<f1, 2>>, <<f1, 3>>, <<f2, 1>>}
==============================================================================
