----------------------------- MODULE DaemonWork -----------------------------
(***************************************************************************)
(* What the daemon does on its own time, composed: the builds that pushes  *)
(* start, the runs of template deployments, the creates and deletes of a   *)
(* project's branches, the adds, removals and renames of its managed       *)
(* services, and the passes that open and close lanes.  As they are        *)
(* modelled they share no state: what one does is a stuttering step of the *)
(* others, so a behaviour of the daemon is looked at from one desk, and    *)
(* the others rest.                                                        *)
(***************************************************************************)
EXTENDS GitDeploy, TemplateRun, Branches, ManagedServices, RouterLanes

CONSTANT Desks \* those that are looked at

ASSUME WorkAssumption == Desks \subseteq {"git", "templates", "branches", "services", "lanes"}

VARIABLE desk \* the one that this behaviour follows

workVars == <<desk, gitVars, tplVars, brVars, svVars, lnVars>>

AtGit == desk = "git" /\ UNCHANGED <<desk, tplVars, brVars, svVars, lnVars>>
AtTpl == desk = "templates" /\ UNCHANGED <<desk, gitVars, brVars, svVars, lnVars>>
AtBr == desk = "branches" /\ UNCHANGED <<desk, gitVars, tplVars, svVars, lnVars>>
AtSv == desk = "services" /\ UNCHANGED <<desk, gitVars, tplVars, brVars, lnVars>>
AtLn == desk = "lanes" /\ UNCHANGED <<desk, gitVars, tplVars, brVars, svVars>>

WorkTypeOK == desk \in Desks /\ GitTypeOK /\ TplTypeOK /\ BrTypeOK /\ SvTypeOK /\ LnTypeOK

WorkInit == desk \in Desks /\ GitInit /\ TplInit /\ BrInit /\ SvInit /\ LnInit

WorkNext ==
  \/ \E b \in Binding :
       \/ AtGit /\ Connect(b)
       \/ AtGit /\ ConnectBuilds(b)
       \/ AtGit /\ Disconnect(b)
       \/ AtGit /\ DisconnectAnswers(b)
       \/ AtGit /\ BuildEnds(b)
       \/ AtGit /\ BuildFails(b)
       \/ AtGit /\ DeployFromGit(b)
       \/ AtGit /\ ContainerReplaced(b)
       \/ AtGit /\ Deployed(b)
       \/ AtGit /\ DeployFails(b)
       \/ AtGit /\ RunnerTurns(b)
       \/ AtGit /\ RunnerHolds(b)
       \/ \E c \in Commit : AtGit /\ Push(b, c)
       \/ \E c \in Commit : AtGit /\ PushHeld(b, c)
  \/ AtGit /\ BuildAbroad
  \/ AtGit /\ BuildAbroadEnds
  \/ AtGit /\ ServiceRemoved
  \/ AtGit /\ ServiceRenamed
  \/ AtGit /\ Closes
  \/ AtGit /\ Restarts
  \/ \E r \in Run :
       \/ \E leaseOver \in BOOLEAN : AtTpl /\ Asks(r, leaseOver)
       \/ AtTpl /\ Mints(r)
       \/ AtTpl /\ Claims(r)
       \/ AtTpl /\ OverQuota(r)
       \/ AtTpl /\ CreateService(r)
       \/ AtTpl /\ NameTaken(r)
       \/ AtTpl /\ WriteVariables(r)
       \/ AtTpl /\ DatabasesReady(r)
       \/ AtTpl /\ DatabaseNotReady(r)
       \/ AtTpl /\ DeployService(r)
       \/ AtTpl /\ DeployFailed(r)
       \/ \E B \in SUBSET Webs : AtTpl /\ HealthCheck(r, B)
       \/ AtTpl /\ Throws(r)
       \/ AtTpl /\ DiesCreating(r)
       \/ AtTpl /\ DiesWriting(r)
  \/ AtTpl /\ Dies
  \/ \E s \in Kind : AtTpl /\ SomeoneAdds(s)
  \/ \E n \in Service : AtTpl /\ ServiceGone(n)
  \/ \E b \in Clone :
       \/ \E n \in BrName, from \in Branch, empty \in Excluding : AtBr /\ CreateBranch(b, n, from, empty)
       \/ AtBr /\ Granted(b)
       \/ AtBr /\ ReserveBranchRef(b)
       \/ AtBr /\ CreateNetwork(b)
       \/ AtBr /\ NetworkRefused(b)
       \/ AtBr /\ ProvisionBytes(b)
       \/ AtBr /\ Rollback(b)
       \/ AtBr /\ CommitRow(b)
       \/ AtBr /\ Redeploy(b)
       \/ AtBr /\ InheritSecrets(b)
       \/ AtBr /\ FinishCreate(b)
       \/ AtBr /\ CreateFails(b)
       \/ AtBr /\ DeleteBranch(b)
       \/ AtBr /\ RemoveContainers(b)
       \/ AtBr /\ RemoveNetwork(b)
       \/ AtBr /\ RemoveBytes(b)
  \/ \E b \in Branch : AtBr /\ DeployApp(b)
  \/ \E b \in Branch : AtBr /\ SetUserSecret(b)
  \/ \E b \in Growing, s \in BrService : AtBr /\ AddService(b, s)
  \/ \E b \in Branch, n \in BrName : AtBr /\ RenameBranch(b, n)
  \/ AtBr /\ BrDies
  \/ \E o \in SvOp :
       \/ \E b \in SvBranch, n \in SvName : AtSv /\ AskAdd(o, b, n)
       \/ \E b \in SvBranch, n \in SvName : AtSv /\ AskRemove(o, b, n)
       \/ \E n, m \in SvName : AtSv /\ AskRename(o, n, m)
       \/ AtSv /\ AddBegins(o)
       \/ AtSv /\ EnsureManagedDirs(o)
       \/ AtSv /\ ManagedProvision(o)
       \/ \E left \in BOOLEAN : AtSv /\ AddFails(o, left)
       \/ AtSv /\ AddCommits(o)
       \/ AtSv /\ RemoveBegins(o)
       \/ AtSv /\ ManagedDestroy(o)
       \/ AtSv /\ RemoveDirectory(o)
       \/ \E landed \in BOOLEAN : AtSv /\ RemovalFails(o, landed)
       \/ AtSv /\ RemoveCommits(o)
       \/ AtSv /\ RenameBegins(o)
       \/ \E b \in SvBranch : AtSv /\ RenameContainer(o, b)
       \/ \E b \in SvBranch, landed \in BOOLEAN : AtSv /\ RenameFails(o, b, landed)
       \/ \E b \in SvBranch : AtSv /\ UndoRename(o, b)
       \/ \E b \in SvBranch : AtSv /\ UndoFails(o, b)
       \/ AtSv /\ RenameFailure(o)
       \/ AtSv /\ RenameCommits(o)
  \/ AtSv /\ SvDies
  \/ AtLn /\ Disturbs
  \/ AtLn /\ RouterStops
  \/ \E k \in Slot :
       \/ AtLn /\ PassBegins(k)
       \/ AtLn /\ Reconcile(k)
       \/ \E s \in LaneService : AtLn /\ OpenPerService(k, s)
       \/ AtLn /\ LaneOpened(k)
       \/ AtLn /\ ReallocLane(k)
       \/ AtLn /\ LaneThrows(k)
       \/ AtLn /\ PassEnds(k)

(* The fairness of each part, at its desk. *)
WorkFairness ==
  /\ \A b \in Binding :
       /\ WF_workVars(RunnerSteps(b) /\ AtGit) /\ SF_workVars(DeployFromGit(b) /\ AtGit)
       /\ WF_workVars(ConnectBuilds(b) /\ AtGit) /\ WF_workVars(DisconnectAnswers(b) /\ AtGit)
  /\ WF_workVars(BuildAbroadEnds /\ AtGit)
  /\ \A r \in Run : WF_workVars(TplStep(r) /\ AtTpl)
  /\ WF_workVars((\E k \in Slot : PassStep(k)) /\ AtLn)

WorkSpec == WorkInit /\ [][WorkNext]_workVars

FairWorkSpec == WorkSpec /\ WorkFairness
=============================================================================
