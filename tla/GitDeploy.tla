------------------------------ MODULE GitDeploy ------------------------------
(***************************************************************************)
(* Push-to-deploy of one compute service: the bindings that replace one    *)
(* another on it, their webhooks, the runner of each binding with its      *)
(* coalesced job, the build slots, and the shutdown of the daemon          *)
(* (src/server.ts 1270-1523, src/gitdeploy.ts, deployFromGit of            *)
(* src/engine.ts).                                                         *)
(*                                                                         *)
(* A job is the ordering key of its commit, 0 for the build of a connect,  *)
(* which carries none.  What runs between two awaits of the server is one  *)
(* step; a slot passes from a finished build to the first waiter in the    *)
(* same turn of the event loop.                                            *)
(***************************************************************************)
EXTENDS Integers, Sequences, FiniteSets

CONSTANTS Binding,    \* binding ids, each minted once
          MaxCommit,  \* bound on the pushed commits
          Slots       \* GIT_BUILD_CONCURRENCY

ASSUME GitAssumption ==
  MaxCommit \in Nat \ {0} /\ Slots \in Nat \ {0} /\ IsFiniteSet(Binding) /\ "hand" \notin Binding

Commit == 1..MaxCommit
Job == {0} \cup Commit
NoJob == -1

VARIABLES bound,    \* by binding: "new", "bound" (in gitBindings) or "gone"
          told,     \* bindings whose webhook and secret the operator was given
          app,      \* the compute service exists
          lastAt,   \* lastDeployedAt of a binding, 0 when it has none
          phase, job, next, \* the runner of a binding and its coalesced job
          moved,    \* bindings whose group was renamed under their job
          waiters,  \* gitBuildWaiters
          slots,    \* gitBuildSlots
          settling, \* connects and disconnects under way, with what they await
          abroad,   \* builds of other services' bindings that hold a slot
          closing,  \* gitShuttingDown
          live,     \* the image the service runs: [of, job, noted]
          answered, \* history: bindings whose disconnect has answered
          owed      \* history: newest push accepted and not given up aloud

gitVars == <<bound, told, app, lastAt, phase, job, next, moved, waiters, slots,
             abroad, settling, closing, live, answered, owed>>

Request(kind, b, on) == [kind |-> kind, of |-> b, on |-> on]
Image(b, j, noted) == [of |-> b, job |-> j, noted |-> noted]
ByHand == [of |-> "hand", job |-> 0, noted |-> TRUE]

Phase == {"idle", "queued", "building", "deciding", "deploying", "cleaning"}

GitTypeOK ==
  /\ bound \in [Binding -> {"new", "bound", "gone"}] /\ app \in BOOLEAN
  /\ told \subseteq Binding
  /\ lastAt \in [Binding -> Job]
  /\ phase \in [Binding -> Phase]
  /\ job \in [Binding -> Job] /\ next \in [Binding -> Job \cup {NoJob}]
  /\ moved \subseteq Binding
  /\ waiters \in Seq(Binding) /\ slots \in 0..Slots
  /\ settling \subseteq [kind : {"connect", "disconnect"}, of : Binding, on : SUBSET Binding]
  /\ abroad \in 0..Slots /\ closing \in BOOLEAN
  /\ live \in [of : Binding \cup {"hand"}, job : Job, noted : BOOLEAN]
  /\ answered \subseteq Binding
  /\ owed \in [Binding -> Job]

GitInit ==
  /\ bound = [b \in Binding |-> "new"] /\ told = {} /\ app = TRUE
  /\ lastAt = [b \in Binding |-> 0]
  /\ phase = [b \in Binding |-> "idle"]
  /\ job = [b \in Binding |-> 0]
  /\ next = [b \in Binding |-> NoJob]
  /\ moved = {} /\ waiters = <<>> /\ slots = Slots
  /\ settling = {}
  /\ abroad = 0 /\ closing = FALSE
  /\ live = ByHand
  /\ answered = {} /\ owed = [b \in Binding |-> 0]

-----------------------------------------------------------------------------
(* The runner.                                                             *)

Running(b) == phase[b] # "idle"
JobOver(b) == job' = [job EXCEPT ![b] = 0] /\ moved' = moved \ {b}

\* doGitDeploy's look at the record: a push that is not newer is refused
NeverStale(b, j) == FALSE

Stale(b, j) == j # 0 /\ j <= lastAt[b]

Takes(b, j) == bound[b] = "bound" /\ app /\ ~Stale(b, j)

\* a push given up takes the older ones it stood for with it
GiveUp(b, j) == owed' = [owed EXCEPT ![b] = IF @ <= j THEN 0 ELSE @]

(* The runner begins j: it asks for a slot, or waits in line for one. *)
Begins(b, j) ==
  /\ job' = [job EXCEPT ![b] = j]
  /\ moved' = moved \ {b}
  /\ IF slots > 0
       THEN /\ phase' = [phase EXCEPT ![b] = "building"]
            /\ slots' = slots - 1 /\ UNCHANGED waiters
       ELSE /\ phase' = [phase EXCEPT ![b] = "queued"]
            /\ waiters' = Append(waiters, b) /\ UNCHANGED slots

(* runGitDeploy: behind a running build only the newest pending job stays; *)
(* a push the policy holds is recorded and given up.                       *)
CoalesceLast(b, j) == next' = [next EXCEPT ![b] = j]

Coalesce(b, j) ==
  next' = [next EXCEPT ![b] = IF j >= @ THEN j ELSE @]

Dispatch(b, j) ==
  IF closing THEN UNCHANGED <<phase, job, next, moved, waiters, slots>>
  ELSE IF Running(b) THEN Coalesce(b, j) /\ UNCHANGED <<phase, job, moved, waiters, slots>>
  ELSE /\ UNCHANGED next
       /\ IF Takes(b, j) THEN Begins(b, j) ELSE UNCHANGED <<phase, job, moved, waiters, slots>>

(* The webhook: signature and branch verified, answered 202 at once. *)
Push(b, c) ==
  /\ bound[b] = "bound" /\ b \in told
  /\ Dispatch(b, c)
  /\ owed' = IF closing \/ Stale(b, c) \/ c < owed[b] THEN owed ELSE [owed EXCEPT ![b] = c]
  /\ UNCHANGED <<bound, told, app, lastAt, settling, abroad, closing, live, answered>>

(* The same push while the deploy policy is not `allow`, read as it begins.*)
PushHeld(b, c) ==
  /\ bound[b] = "bound" /\ b \in told /\ ~Running(b) /\ ~closing
  /\ GiveUp(b, c)
  /\ UNCHANGED <<bound, told, app, lastAt, phase, job, next, moved, waiters, slots, settling,
                 abroad, closing, live, answered>>

KeepsSlot(b, l) == phase' = [phase EXCEPT ![b] = l] /\ UNCHANGED <<slots, waiters>>

FreesAndHandsOn(b, l) ==
  /\ slots' = slots + 1
  /\ IF waiters = <<>>
       THEN phase' = [phase EXCEPT ![b] = l] /\ UNCHANGED waiters
       ELSE /\ phase' = [phase EXCEPT ![b] = l, ![Head(waiters)] = "building"]
            /\ waiters' = Tail(waiters)

(* The slot of a finished build goes to the first in line. *)
FreesSlot(b, l) ==
  IF waiters = <<>>
    THEN slots' = slots + 1 /\ phase' = [phase EXCEPT ![b] = l] /\ UNCHANGED waiters
    ELSE /\ phase' = [phase EXCEPT ![b] = l, ![Head(waiters)] = "building"]
         /\ waiters' = Tail(waiters) /\ UNCHANGED slots

(* Bindings of other services build too, under the same slots. *)
BuildAbroad ==
  /\ slots > 0 /\ ~closing
  /\ slots' = slots - 1 /\ abroad' = abroad + 1
  /\ UNCHANGED <<bound, told, app, lastAt, phase, job, next, moved, waiters, settling, closing,
                 live, answered, owed>>

BuildAbroadEnds ==
  /\ abroad > 0
  /\ abroad' = abroad - 1
  /\ IF waiters = <<>>
       THEN slots' = slots + 1 /\ UNCHANGED <<phase, waiters>>
       ELSE /\ phase' = [phase EXCEPT ![Head(waiters)] = "building"]
            /\ waiters' = Tail(waiters) /\ UNCHANGED slots
  /\ UNCHANGED <<bound, told, app, lastAt, job, next, moved, settling, closing, live, answered, owed>>

BuildEnds(b) ==
  /\ phase[b] = "building"
  /\ FreesSlot(b, "deciding")
  /\ UNCHANGED <<bound, told, app, lastAt, job, next, moved, settling, abroad, closing, live, answered, owed>>

(* A failed build, or one killed after GIT_BUILD_TIMEOUT_MS. *)
BuildFails(b) ==
  /\ phase[b] = "building"
  /\ FreesSlot(b, "cleaning") /\ JobOver(b)
  /\ GiveUp(b, job[b])
  /\ UNCHANGED <<bound, told, app, lastAt, next, settling, abroad, closing, live, answered>>

(* deployFromGit under the service's lock: the binding must still be there *)
(* and point at this group.                                                *)
ServiceLocked == \E b \in Binding : phase[b] = "deploying"

DeployUnchecked(b) ==
  /\ phase[b] = "deciding" /\ ~ServiceLocked /\ app
  /\ KeepsSlot(b, "deploying")
  /\ UNCHANGED <<bound, told, app, lastAt, job, next, moved, settling, abroad, closing, live, answered, owed>>

DeployFromGit(b) ==
  /\ phase[b] = "deciding" /\ ~ServiceLocked
  /\ IF bound[b] = "bound" /\ b \notin moved /\ app
       THEN KeepsSlot(b, "deploying") /\ UNCHANGED <<job, moved, owed>>
       ELSE KeepsSlot(b, "cleaning") /\ JobOver(b) /\ GiveUp(b, job[b])
  /\ UNCHANGED <<bound, told, app, lastAt, next, settling, abroad, closing, live, answered>>

ContainerReplaced(b) ==
  /\ phase[b] = "deploying" /\ live # Image(b, job[b], FALSE)
  /\ live' = Image(b, job[b], FALSE)
  /\ UNCHANGED <<bound, told, app, lastAt, phase, job, next, moved, waiters, slots, settling,
                 abroad, closing, answered, owed>>

(* deployFromGit returns and what was deployed is noted in the binding, if *)
(* it is still there; old images are pruned next.                          *)
Deployed(b) ==
  /\ phase[b] = "deploying" /\ live = Image(b, job[b], FALSE)
  /\ KeepsSlot(b, "cleaning") /\ JobOver(b)
  /\ lastAt' = IF job[b] = 0 \/ bound[b] # "bound" THEN lastAt ELSE [lastAt EXCEPT ![b] = job[b]]
  /\ live' = [live EXCEPT !.noted = TRUE]
  /\ UNCHANGED <<bound, told, app, next, settling, abroad, closing, answered, owed>>

DeployFails(b) ==
  /\ phase[b] = "deploying"
  /\ KeepsSlot(b, "cleaning") /\ JobOver(b)
  /\ GiveUp(b, job[b])
  /\ UNCHANGED <<bound, told, app, lastAt, next, settling, abroad, closing, live, answered>>

(* The job ends; the runner takes the coalesced one, unless it is closing. *)
(* A pending push that may not be deployed any more ends there and then.   *)
RunnerTurns(b) ==
  /\ phase[b] = "cleaning"
  /\ next' = [next EXCEPT ![b] = NoJob]
  /\ IF ~closing /\ next[b] # NoJob /\ Takes(b, next[b])
       THEN Begins(b, next[b])
       ELSE KeepsSlot(b, "idle") /\ UNCHANGED <<job, moved>>
  /\ UNCHANGED <<bound, told, app, lastAt, settling, abroad, closing, live, answered, owed>>

(* The same with the pending push held by the deploy policy. *)
RunnerHolds(b) ==
  /\ phase[b] = "cleaning" /\ ~closing /\ next[b] \in Commit
  /\ next' = [next EXCEPT ![b] = NoJob]
  /\ KeepsSlot(b, "idle")
  /\ GiveUp(b, next[b])
  /\ UNCHANGED <<bound, told, app, lastAt, job, moved, settling, abroad, closing, live, answered>>

-----------------------------------------------------------------------------
(* Connecting and disconnecting a repository.                              *)

RunnersOf(B) == {b \in B : Running(b)}

\* the records leave gitBindings, what they noted with them
Unbinds(B) ==
  /\ lastAt' = [b \in Binding |-> IF b \in B THEN 0 ELSE lastAt[b]]
  /\ owed' = [b \in Binding |-> IF b \in B THEN 0 ELSE owed[b]]
  /\ told' = told \ B

(* A connect replaces the service's binding and waits for its build. *)
Connect(b) ==
  LET replaced == {r \in Binding : bound[r] = "bound"} IN
  /\ bound[b] = "new" /\ app /\ ~closing
  /\ bound' = [r \in Binding |-> IF r = b THEN "bound" ELSE IF r \in replaced THEN "gone" ELSE bound[r]]
  /\ Unbinds(replaced)
  /\ settling' = settling \cup {Request("connect", b, RunnersOf(replaced))}
  /\ UNCHANGED <<app, phase, job, next, moved, waiters, slots, abroad, closing, live, answered>>

ConnectBuilds(b) ==
  /\ \E s \in settling : /\ s.kind = "connect" /\ s.of = b /\ RunnersOf(s.on) = {}
                        /\ settling' = settling \ {s}
  /\ told' = IF bound[b] = "bound" THEN told \cup {b} ELSE told
  /\ Dispatch(b, 0)
  /\ UNCHANGED <<bound, app, lastAt, abroad, closing, live, answered, owed>>

Disconnect(b) ==
  /\ bound[b] = "bound" /\ ~closing
  /\ bound' = [bound EXCEPT ![b] = "gone"]
  /\ Unbinds({b})
  /\ settling' = settling \cup {Request("disconnect", b, RunnersOf({b}))}
  /\ UNCHANGED <<app, phase, job, next, moved, waiters, slots, abroad, closing, live, answered>>

DisconnectAnswers(b) ==
  /\ \E s \in settling : /\ s.kind = "disconnect" /\ s.of = b /\ RunnersOf(s.on) = {}
                        /\ settling' = settling \ {s}
  /\ answered' = answered \cup {b}
  /\ UNCHANGED <<bound, told, app, lastAt, phase, job, next, moved, waiters, slots, abroad, closing, live, owed>>

(* removeComputeService and the rename of a service, both under its lock,  *)
(* take the bindings with them.                                            *)
ServiceRemoved ==
  /\ app /\ ~ServiceLocked
  /\ app' = FALSE
  /\ bound' = [b \in Binding |-> IF bound[b] = "bound" THEN "gone" ELSE bound[b]]
  /\ Unbinds(Binding)
  /\ UNCHANGED <<phase, job, next, moved, waiters, slots, settling, abroad, closing, live, answered>>

ServiceRenamed ==
  /\ app /\ ~ServiceLocked /\ \E b \in Binding \ moved : Running(b) /\ bound[b] = "bound"
  /\ moved' = {b \in Binding : Running(b)}
  /\ UNCHANGED <<bound, told, app, lastAt, phase, job, next, waiters, slots, settling, abroad, closing,
                 live, answered, owed>>

-----------------------------------------------------------------------------
(* The daemon closes: pending jobs are dropped, active builds are killed   *)
(* (BuildFails), those in line are woken to fail.                          *)
Closes ==
  /\ ~closing /\ \E b \in Binding : Running(b)
  /\ closing' = TRUE
  /\ next' = [b \in Binding |-> NoJob]
  /\ phase' = [b \in Binding |-> IF phase[b] = "queued" THEN "cleaning" ELSE phase[b]]
  /\ waiters' = <<>>
  /\ owed' = [b \in Binding |-> 0]
  /\ UNCHANGED <<bound, told, app, lastAt, job, moved, slots, abroad, settling, live, answered>>

(* It is gone, drained or killed, and a new one boots from state.json. *)
Restarts ==
  /\ closing \/ settling # {} \/ \E b \in Binding : Running(b)
  /\ phase' = [b \in Binding |-> "idle"]
  /\ job' = [b \in Binding |-> 0]
  /\ next' = [b \in Binding |-> NoJob]
  /\ moved' = {} /\ waiters' = <<>> /\ slots' = Slots /\ abroad' = 0
  /\ settling' = {}
  /\ closing' = FALSE
  /\ owed' = [b \in Binding |-> 0]
  /\ UNCHANGED <<bound, told, app, lastAt, live, answered>>

RunnerSteps(b) ==
  \/ BuildEnds(b) \/ BuildFails(b) \/ DeployFromGit(b) \/ ContainerReplaced(b)
  \/ Deployed(b) \/ DeployFails(b) \/ RunnerTurns(b) \/ RunnerHolds(b)

GitNext ==
  \/ \E b \in Binding :
       \/ Connect(b) \/ ConnectBuilds(b) \/ Disconnect(b) \/ DisconnectAnswers(b)
       \/ RunnerSteps(b)
       \/ \E c \in Commit : Push(b, c) \/ PushHeld(b, c)
  \/ BuildAbroad \/ BuildAbroadEnds
  \/ ServiceRemoved \/ ServiceRenamed \/ Closes \/ Restarts

GitSpec == GitInit /\ [][GitNext]_gitVars

(* Docker answers, a hung build is killed, the service's lock is first     *)
(* come first served, and the event loop resumes what is ready.            *)
GitFairness ==
  \A b \in Binding :
    /\ WF_gitVars(RunnerSteps(b)) /\ SF_gitVars(DeployFromGit(b))
    /\ WF_gitVars(ConnectBuilds(b)) /\ WF_gitVars(DisconnectAnswers(b))
    /\ WF_gitVars(BuildAbroadEnds)

-----------------------------------------------------------------------------
(* Properties.                                                             *)

(* An older or redelivered push never deploys over a newer one that a push *)
(* deployed and noted, whatever the order of delivery, coalescing, and     *)
(* restarts.                                                               *)
NewestPushWins ==
  [][live.of = live'.of /\ live.noted /\ live.job \in Commit /\ live'.job # live.job
       => live'.job > live.job]_gitVars

(* With the runner at rest, the newest push accepted is deployed, unless   *)
(* it failed, was held or its target went, which an event says: a          *)
(* coalesced push is only ever dropped for a newer one.                    *)
NewestPushDeployed ==
  \A b \in Binding : bound[b] = "bound" /\ ~Running(b) => lastAt[b] >= owed[b]

(* A binding does not deploy after its disconnect has answered, and never  *)
(* over what the binding that replaced it has deployed.                    *)
UnboundNeverDeploys ==
  [][live' # live /\ live'.of \in Binding =>
       /\ live'.of \notin answered
       /\ live.of # live'.of /\ live.of \in Binding => bound[live.of] # "bound"]_gitVars

(* No step deploys what a newer push or a disconnect has made void. *)
DeploysStayInOrder == NewestPushWins /\ UnboundNeverDeploys

(* Every slot is free or builds something, and none is free while a build  *)
(* waits: not after a failure, a kill or the close.                        *)
SlotsAccounted ==
  /\ slots + Cardinality({b \in Binding : phase[b] = "building"}) + abroad = Slots
  /\ {waiters[i] : i \in DOMAIN waiters} = {b \in Binding : phase[b] = "queued"}
  /\ waiters # <<>> => slots = 0

(* Connects and disconnects get their answers: no build in flight, no line *)
(* for a slot and no lock keeps one waiting for ever.  A binding asks once *)
(* for each, so when none waits for ever there is a time when none waits.  *)
SettlesAnswer == settling # {} ~> settling = {}
=============================================================================
