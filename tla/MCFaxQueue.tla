----------------------------- MODULE MCFaxQueue -----------------------------
(* The instance of FaxQueue that TLC checks: see the cfg files.            *)
EXTENDS FaxQueue

\* Faxes that an earlier run has not left behind are interchangeable, and so
\* are the clients; used only where no liveness property is checked.
Symmetry == Permutations(Clients) \cup Permutations(Faxes \ OnDisk)
=============================================================================
