--------------------------- MODULE MCFaxDownload ----------------------------
(* The instance of FaxDownload that TLC checks: see the cfg file.          *)
EXTENDS FaxDownload

MCKeys == <<"TID", "CSID">>
=============================================================================
