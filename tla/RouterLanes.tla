---------------------------- MODULE RouterLanes ----------------------------
(***************************************************************************)
(* The router's listeners: the lane of every service that has a port of    *)
(* its own, opened and closed by passes that follow the rows.  The ports   *)
(* are shared by the rows, by creates that have reserved one and by        *)
(* programs that are not ours.  A pass begins by refreshing the default    *)
(* certificate, an await that touches none of this.                        *)
(***************************************************************************)
EXTENDS Naturals, FiniteSets

CONSTANTS
  LaneService, \* services with a port of their own, each on its own branch
  MaxPort,     \* lanes.portRange is 1..MaxPort
  Attempts,    \* ports that one opening tries
  MaxForeign,  \* bound on the ports that other programs hold
  MaxQueue     \* bound on the passes that wait

ASSUME LaneAssumption ==
  /\ LaneService # {} /\ MaxPort \in Nat \ {0} /\ Attempts \in Nat \ {0}
  /\ MaxForeign \in Nat /\ MaxQueue \in Nat \ {0}

VARIABLES
  carry,       \* is there a branch, does it carry the service
  lanePort,  \* branch.lanes, 0 when it has no entry
  resv,      \* state.laneReservations, by the service they are for
  foreign,   \* ports that something else holds
  queue,     \* passes that wait in the chain
  pass,      \* the passes under way
  lanes,     \* the router's table of lanes: the port, 0 when there is none
  listening, \* sockets that listen: service and port
  ended,     \* how the last pass ended
  silent,    \* a row changed its lane and told nobody
  stopped

carryVars == <<carry, lanePort, resv, silent>>
netVars == <<lanes, listening>>
lnVars == <<carry, lanePort, resv, foreign, queue, pass, lanes, listening, ended, silent, stopped>>

Slot == {1, 2} \* the second only if two passes could run at once
Port == 1..MaxPort
Resting == [at |-> "idle", todo |-> [s \in LaneService |-> 0], svc |-> CHOOSE s \in LaneService : TRUE, port |-> 0, tries |-> 0]

LnTypeOK ==
  /\ carry \in [LaneService -> {"none", "bare", "carried"}]
  /\ lanePort \in [LaneService -> 0..MaxPort]
  /\ resv \in [LaneService -> 0..MaxPort]
  /\ foreign \subseteq Port
  /\ queue \in 0..MaxQueue
  /\ pass \in [Slot -> [at : {"idle", "context", "next", "opening"}, todo : [LaneService -> 0..MaxPort],
                        svc : LaneService, port : 0..MaxPort, tries : 0..Attempts]]
  /\ lanes \in [LaneService -> 0..MaxPort]
  /\ listening \subseteq LaneService \X Port
  /\ ended \in {"well", "full", "exhausted", "error"}
  /\ silent \in BOOLEAN /\ stopped \in BOOLEAN

LnInit ==
  /\ carry = [s \in LaneService |-> "none"]
  /\ lanePort = [s \in LaneService |-> 0]
  /\ resv = [s \in LaneService |-> 0]
  /\ foreign = {}
  /\ queue = 1 \* router.start reconciles
  /\ pass = [k \in Slot |-> Resting]
  /\ lanes = [s \in LaneService |-> 0]
  /\ listening = {}
  /\ ended = "well" /\ silent = FALSE /\ stopped = FALSE
-----------------------------------------------------------------------------
(* Ports.                                                                  *)

TakenPorts == {lanePort[s] : s \in LaneService} \cup {resv[s] : s \in LaneService}

FreePorts == Port \ TakenPorts

NextLanePort == CHOOSE p \in FreePorts : \A q \in FreePorts : p <= q

Bindable(p) == p \notin foreign /\ \A l \in listening : l[2] # p

(* What listens once service s has called listen on port p.                *)
Listens(s, p) == IF Bindable(p) THEN listening \cup {<<s, p>>} ELSE listening

WantedPort(s) == IF carry[s] = "carried" THEN lanePort[s] ELSE 0
-----------------------------------------------------------------------------
(* Rows.  A change that the router is told of queues a pass; what changes  *)
(* after the stop no pass will read, and is left out.                      *)

Invalidate == queue < MaxQueue /\ queue' = queue + 1

LaneBranchCreated(s) ==
  /\ carry[s] = "none" /\ resv[s] = 0
  /\ carry' = [carry EXCEPT ![s] = "bare"]
  /\ Invalidate
  /\ UNCHANGED <<lanePort, resv, foreign, pass, netVars, ended, silent, stopped>>

AddLaneService(s) ==
  /\ carry[s] = "bare"
  /\ carry' = [carry EXCEPT ![s] = "carried"]
  /\ Invalidate
  /\ UNCHANGED <<lanePort, resv, foreign, pass, netVars, ended, silent, stopped>>

\* variant: the port is given and the router is not told
LaneForUntold(s) ==
  /\ carry[s] = "carried" /\ lanePort[s] = 0 /\ FreePorts # {}
  /\ lanePort' = [lanePort EXCEPT ![s] = NextLanePort]
  /\ UNCHANGED <<carry, resv, foreign, queue, pass, netVars, ended, silent, stopped>>

(* The first read of its address gives a service its port.                 *)
LaneFor(s) ==
  /\ carry[s] = "carried" /\ lanePort[s] = 0 /\ FreePorts # {}
  /\ lanePort' = [lanePort EXCEPT ![s] = NextLanePort]
  /\ Invalidate
  /\ UNCHANGED <<carry, resv, foreign, pass, netVars, ended, silent, stopped>>

(* A branch create reserves the port before its first await.               *)
AllocLanes(s) ==
  /\ carry[s] = "none" /\ resv[s] = 0 /\ FreePorts # {}
  /\ resv' = [resv EXCEPT ![s] = NextLanePort]
  /\ UNCHANGED <<carry, lanePort, foreign, queue, pass, netVars, ended, silent, stopped>>

LaneRowCommitted(s) ==
  /\ carry[s] = "none" /\ resv[s] # 0
  /\ carry' = [carry EXCEPT ![s] = "carried"]
  /\ lanePort' = [lanePort EXCEPT ![s] = resv[s]]
  /\ resv' = [resv EXCEPT ![s] = 0]
  /\ Invalidate
  /\ UNCHANGED <<foreign, pass, netVars, ended, silent, stopped>>

ReleaseLanes(s) ==
  /\ carry[s] = "none" /\ resv[s] # 0
  /\ resv' = [resv EXCEPT ![s] = 0]
  /\ UNCHANGED <<carry, lanePort, foreign, queue, pass, netVars, ended, silent, stopped>>

(* The row keeps its port for a service of that id that comes back.        *)
RemoveLaneService(s) ==
  /\ carry[s] = "carried"
  /\ carry' = [carry EXCEPT ![s] = "bare"]
  /\ Invalidate
  /\ UNCHANGED <<lanePort, resv, foreign, pass, netVars, ended, silent, stopped>>

LaneBranchDeleted(s) ==
  /\ carry[s] # "none"
  /\ carry' = [carry EXCEPT ![s] = "none"]
  /\ lanePort' = [lanePort EXCEPT ![s] = 0]
  /\ Invalidate
  /\ UNCHANGED <<resv, foreign, pass, netVars, ended, silent, stopped>>

(* A renamed managed database is a service of another id, t.  The port     *)
(* stays under the old id, and the router hears nothing of it.             *)
RenameManaged(s, t) ==
  /\ s # t /\ carry[s] = "carried" /\ carry[t] = "bare"
  /\ carry' = [carry EXCEPT ![s] = "bare", ![t] = "carried"]
  /\ silent' = TRUE
  /\ UNCHANGED <<lanePort, resv, foreign, queue, pass, netVars, ended, stopped>>

(* Another program takes a port, for good.                                 *)
ForeignTakes(p) ==
  /\ Cardinality(foreign) < MaxForeign /\ Bindable(p)
  /\ foreign' = foreign \cup {p}
  /\ UNCHANGED <<carryVars, queue, pass, netVars, ended, stopped>>

Disturbs ==
  /\ ~stopped
  /\ \E s \in LaneService :
       \/ LaneBranchCreated(s) \/ AddLaneService(s) \/ LaneFor(s) \/ AllocLanes(s) \/ LaneRowCommitted(s)
       \/ ReleaseLanes(s) \/ RemoveLaneService(s) \/ LaneBranchDeleted(s)
       \/ \E t \in LaneService : RenameManaged(s, t)
       \/ \E p \in Port : ForeignTakes(p)
-----------------------------------------------------------------------------
(* Passes.  One runs at a time, the others wait in the chain.  A pass      *)
(* works on the table it read when it began to close and open; what it     *)
(* has called listen for is bound before it hears of it.                   *)

SomePassRuns == \E k \in Slot : pass[k].at # "idle"

\* variant: passes that do not wait for one another
PassBeginsBeside(k) ==
  /\ queue > 0 /\ pass[k].at = "idle"
  /\ queue' = queue - 1
  /\ pass' = IF stopped THEN pass ELSE [pass EXCEPT ![k] = [Resting EXCEPT !.at = "context"]]
  /\ UNCHANGED <<carryVars, foreign, netVars, ended, stopped>>

PassBegins(k) ==
  /\ queue > 0 /\ ~SomePassRuns
  /\ \A j \in Slot : j < k => pass[j].at # "idle"
  /\ queue' = queue - 1
  /\ pass' = IF stopped THEN pass ELSE [pass EXCEPT ![k] = [Resting EXCEPT !.at = "context"]]
  /\ UNCHANGED <<carryVars, foreign, netVars, ended, stopped>>

(* Close what is not wanted any more, or not on that port.                 *)
Reconcile(k) ==
  LET keeps == {s \in LaneService : lanes[s] = WantedPort(s)}
  IN
  /\ pass[k].at = "context"
  /\ pass' = [pass EXCEPT ![k].at = "next", ![k].todo = [s \in LaneService |-> WantedPort(s)]]
  /\ lanes' = [s \in LaneService |-> IF s \in keeps THEN lanes[s] ELSE 0]
  /\ listening' = {l \in listening : l[1] \in keeps \/ lanes[l[1]] # l[2]}
  /\ silent' = FALSE
  /\ UNCHANGED <<carry, lanePort, resv, foreign, queue, ended, stopped>>

(* The next lane that the table lacks: listen on the port it was read with. *)
OpenPerService(k, s) ==
  /\ pass[k].at = "next" /\ pass[k].todo[s] # 0 /\ lanes[s] = 0
  /\ pass' = [pass EXCEPT ![k].at = "opening", ![k].svc = s, ![k].port = pass[k].todo[s],
                          ![k].tries = 1, ![k].todo[s] = 0]
  /\ listening' = Listens(s, pass[k].todo[s])
  /\ UNCHANGED <<carryVars, foreign, queue, lanes, ended, stopped>>

LaneOpened(k) ==
  /\ pass[k].at = "opening" /\ <<pass[k].svc, pass[k].port>> \in listening
  /\ lanes' = [lanes EXCEPT ![pass[k].svc] = pass[k].port]
  /\ pass' = [pass EXCEPT ![k].at = "next"]
  /\ UNCHANGED <<carryVars, foreign, queue, listening, ended, stopped>>

PassFails(k, why) == pass' = [pass EXCEPT ![k] = Resting] /\ ended' = why

(* The port was in use: the row moves to the lowest free one, which is     *)
(* tried next.  No one notes that this one was refused.                    *)
ReallocLane(k) ==
  LET s == pass[k].svc IN
  /\ pass[k].at = "opening" /\ <<s, pass[k].port>> \notin listening
  /\ IF FreePorts = {}
     THEN PassFails(k, "full") /\ UNCHANGED <<lanePort, resv, listening>>
     ELSE /\ IF carry[s] = "none" THEN UNCHANGED <<lanePort, resv>>
             ELSE /\ lanePort' = [lanePort EXCEPT ![s] = NextLanePort]
                  /\ resv' = [t \in LaneService |-> IF resv[t] = pass[k].port THEN 0 ELSE resv[t]]
          /\ IF pass[k].tries = Attempts
             THEN PassFails(k, "exhausted") /\ UNCHANGED listening
             ELSE /\ pass' = [pass EXCEPT ![k].port = NextLanePort, ![k].tries = @ + 1]
                  /\ listening' = Listens(s, NextLanePort)
                  /\ UNCHANGED ended
  /\ UNCHANGED <<carry, silent, foreign, queue, lanes, stopped>>

(* Listening failed for another reason, and the pass with it.              *)
LaneThrows(k) ==
  /\ pass[k].at = "opening" /\ PassFails(k, "error")
  /\ listening' = listening \ {<<pass[k].svc, pass[k].port>>}
  /\ UNCHANGED <<carryVars, foreign, queue, lanes, stopped>>

PassEnds(k) ==
  /\ pass[k].at = "next" /\ \A s \in LaneService : pass[k].todo[s] = 0 \/ lanes[s] # 0
  /\ pass' = [pass EXCEPT ![k] = Resting] /\ ended' = "well"
  /\ UNCHANGED <<carryVars, foreign, queue, netVars, stopped>>

PassStep(k) ==
  \/ PassBegins(k) \/ Reconcile(k) \/ LaneOpened(k) \/ ReallocLane(k) \/ PassEnds(k)
  \/ \E s \in LaneService : OpenPerService(k, s)

(* The router stops: what its table names is closed.                       *)
RouterStops ==
  /\ ~stopped /\ stopped' = TRUE
  /\ listening' = {l \in listening : lanes[l[1]] # l[2]}
  /\ lanes' = [s \in LaneService |-> 0]
  /\ UNCHANGED <<carryVars, foreign, queue, pass, ended>>

LnNext ==
  \/ Disturbs \/ RouterStops
  \/ \E k \in Slot : PassStep(k) \/ LaneThrows(k)

LnSpec == LnInit /\ [][LnNext]_lnVars
-----------------------------------------------------------------------------
(* Properties.                                                             *)

(* No two services and no reservation ever have one port: between a read   *)
(* of the state and its write the allocators do not wait.                  *)
OnePortEach ==
  \A s, t \in LaneService :
    /\ lanePort[s] # 0 => resv[t] # lanePort[s]
    /\ s # t /\ lanePort[s] # 0 => lanePort[t] # lanePort[s]
    /\ s # t /\ resv[s] # 0 => resv[t] # resv[s]

(* Every socket that listens is in the table, to be closed, or is being    *)
(* opened by the pass under way: the leak that running passes one at a     *)
(* time has ended.                                                         *)
Opening(s, p) == \E k \in Slot : pass[k].at = "opening" /\ pass[k].svc = s /\ pass[k].port = p

NoListenerLeaks ==
  \A l \in listening : lanes[l[1]] = l[2] \/ Opening(l[1], l[2])

PortsAreKept == OnePortEach /\ NoListenerLeaks

LanesFollowRows ==
  /\ \A s \in LaneService : lanes[s] = WantedPort(s)
  /\ listening = {<<s, lanes[s]>> : s \in {t \in LaneService : lanes[t] # 0}}

(* Once the rows stay as they are, exactly the lanes they name listen, for *)
(* good: no stale pass, no moved port and no lost invalidation survives.   *)
(* Excepted are a listen that failed for another reason than a busy port,  *)
(* ports that have run out, attempts that have (two refused ports can take *)
(* turns, see ReallocLane), a rename that told nobody, and a stop.         *)
LanesSettle ==
  \/ []<><<Disturbs>>_lnVars
  \/ <>[](LanesFollowRows \/ ended \in {"error", "full", "exhausted"} \/ silent \/ stopped)
=============================================================================
