---------------------------- MODULE MCCenterLink ----------------------------
(* The instance of CenterLink that TLC checks: see the cfg files.          *)
EXTENDS CenterLink
=============================================================================
