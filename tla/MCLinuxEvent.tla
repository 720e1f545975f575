---------------------------- MODULE MCLinuxEvent ----------------------------
(* The instance of LinuxEvent that TLC checks: see the cfg file.           *)
EXTENDS LinuxEvent
=============================================================================
