------------------------------ MODULE MCSpawn -------------------------------
(***************************************************************************)
(* A process that writes at most two chunks to one stream and none to the  *)
(* other, which ends all the same.                                         *)
(***************************************************************************)
EXTENDS Spawn, TLC

CONSTANTS out, err

MCChunks == out :> 2 @@ err :> 0
=============================================================================
