---------------------------- MODULE MCEventStore ----------------------------
(* A small instance of the store and its reports: the default retentions keep  *)
(* the order of apps/api/config.py, snapshots shorter than events.             *)
EXTENDS EventReports

MCCamera == {1}
MCViews == {<<"timestamp", "desc">>}
=============================================================================
