--------------------------- MODULE MCCloudRunRollout ---------------------------
(***************************************************************************)
(* An instance of CloudRunRollout for TLC.  A host may ask RoutePercent    *)
(* for shares no service accepts.                                          *)
(***************************************************************************)
EXTENDS CloudRunRollout

MCPercent == {-10, 0, 10, 100}
=============================================================================
