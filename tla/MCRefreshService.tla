------------------------- MODULE MCRefreshService -------------------------
(* One week, one manual refresh and the startup prediction. *)
EXTENDS RefreshService

MCWeeks == 0 .. 0
MCJobs == {<<0, "tuesday">>, <<0, "wednesday">>, <<0, "manual">>}
MCManualIds == {0}
MCPredictionAnswers == {"saved", "unreadable"}
MCSavedOnly == {"saved"}
=============================================================================
