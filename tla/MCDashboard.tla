---------------------------- MODULE MCDashboard ----------------------------
(* One tab, two ids, one object; a user keeps to one of the tours below,   *)
(* the pages of which share cached data, or to two pages that share none.  *)
EXTENDS Dashboard

MCRows == 1..2
MCObjects == {1}
MCTitles == {"plain", "destructive"}
MCTours == {{"home", "buckets", "bucket"}, {"home", "activity"},
            {"videos", "video", "activity"}, {"keys", "settings"},
            {"billing", "team"}, {"branding", "convert"}}
=============================================================================
