--------------------------- MODULE MCAlertDelivery ---------------------------
(* Instances of AlertDelivery for TLC.  Route 1 is for alerts of kind a: an   *)
(* e-mail route when there are three, a push route with an ntfy server when   *)
(* there are five.  Route 2 is a webhook for every alert, with the longest    *)
(* cooldown; then, of five, an MQTT route for kind b and a second webhook with *)
(* a shorter cooldown; the last is the webhook of the environment, which has   *)
(* no cooldown.  The webhooks share a key.                                     *)
EXTENDS AlertDelivery

MCEnv       == {NumRoutes}
MCChannel   == IF NumRoutes = 3 THEN <<"email", "webhook", "webhook">>
                                ELSE <<"push", "webhook", "mqtt", "webhook", "webhook">>
MCNtfy      == {r \in Routes : MCChannel[r] = "push"}
MCCooldown  == [r \in Routes |-> IF r = NumRoutes THEN 0 ELSE <<1, 2, 0, 1>>[r]]
MCMatches   == [r \in Routes |->
                  IF r = 1 THEN {"a"} ELSE IF MCChannel[r] = "mqtt" THEN {"b"} ELSE Kinds]
MCRefusable == {1, 3} \ MCEnv
MCEpoch     == -9

\* Selection is what the loop selects: each of several matching routes with one
\* key is looked at after those before it were recorded.
ASSUME SelectionIsLoop ==
    \A routes \in SUBSET Routes, elapsed \in [KeySet -> 0..3] :
        LoopSelects(routes, elapsed) =
            Selection({r \in routes : ~is_in_cooldown(r, elapsed[Key[r]])})
=============================================================================
