---------------------------- MODULE MCSendSession ----------------------------
(* The instance of SendSession that TLC checks: see the cfg files.         *)
EXTENDS SendSession
=============================================================================
