----------------------------- MODULE Deployment ------------------------------
(***************************************************************************)
(* The two processes of an installation around one database: the API and the *)
(* worker come up through build (Bootstrap), the worker then runs its        *)
(* threads, and the API changes the rows the worker reads (WorkerLifecycle). *)
(* docker-compose starts the worker after the API at first, and both at once *)
(* whenever the machine restarts; systemd and the rig start them one by one. *)
(***************************************************************************)
EXTENDS WorkerLifecycle, Bootstrap

Vars == <<vars, bootVars>>

DeploymentInit == Init /\ BootInit

\* create_app and the first line of main are behind build.
Handlers ==
    \/ Serving /\ Edits /\ UNCHANGED bootVars
    \/ (\E u \in Account : create_user(u) \/ delete_user(u)) /\ UNCHANGED vars

MainStarts == At("worker", "up") /\ Start /\ UNCHANGED bootVars

WorkerEnds == (Exit \/ Killed) /\ ProcessEnds("worker")

\* A crash or a restart of the API.
ApiEnds == Serving /\ ProcessEnds("api") /\ UNCHANGED vars

Boots(p) == BootStep(p) /\ UNCHANGED vars

DeploymentNext ==
    \/ \E p \in Process : Boots(p)
    \/ MainStarts \/ WorkerEnds \/ ApiEnds
    \/ (Sigterm \/ CtrlC \/ Threads) /\ UNCHANGED bootVars
    \/ Handlers

\* A process that ended is started again (restart: unless-stopped).
DeploymentSpec ==
    /\ DeploymentInit /\ [][DeploymentNext]_Vars
    /\ Fairness
    /\ \A p \in Process : WF_Vars(Boots(p))
==============================================================================
