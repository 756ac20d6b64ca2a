----------------------------- MODULE MCSessions ----------------------------
(***************************************************************************)
(* Small instances of Sessions: one test that comes to a real action, and  *)
(* others that are only started.                                           *)
(***************************************************************************)
EXTENDS Sessions

CONSTANTS long, MaxLong, MaxOther

MCMaxVersion == [s \in Session |-> IF s = long THEN MaxLong ELSE MaxOther]
=============================================================================
