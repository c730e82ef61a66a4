---------------------------- MODULE MCDeployment -----------------------------
(* A small instance: a release that takes one permission away and gives        *)
(* another, and one of the added columns.                                      *)
EXTENDS Deployment

MCGrants    == {<<"ADMIN", "live:view">>, <<"ADMIN", "rules:configure">>}
MCOldGrants == {<<"ADMIN", "live:view">>, <<"ADMIN", "rules:view">>}
MCColumns   == <<"cameras.rules">>
MCAccount   == {"bootstrap", "operator"}
=============================================================================
